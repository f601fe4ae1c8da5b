SPECIFICATION Spec
CONSTANTS
    Ids = {1, 2}
    Tickers = {1}
    Identities <- MCIdentities
    Contents <- MCContents
    Items <- MCItems
    MaxBatch = 2
    NoId = 0
    NoReference = 0
INVARIANTS
    WaitingExplained
    ReportIsTrue
PROPERTIES
    VanishesForCause
