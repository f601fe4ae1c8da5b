SPECIFICATION Spec
CONSTANTS
    Accounts <- MCAccounts
    LaterAccounts <- MCLater
    Portfolios <- MCPortfolios
    Opportunities <- MCOpportunities
    Instruments <- MCInstruments
    Markets <- MCMarkets
    Requests <- MCRequests
    MaxQuantity = 8
    MaxChanges = 1
INVARIANTS
    GateNeedsMeasuredRisk
    WithinBudgets
    AcceptedAsMeant
CHECK_DEADLOCK FALSE
