SPECIFICATION Spec
CONSTANTS
    i1 = i1
    Instruments <- OneInstrument
    Metadata <- TwoVersions
    MaxSnapshots = 2
    MaxAssessments = 1
    MaxProposals = 2
    MaxSimulations = 1
    MaxDecisions = 2
    MaxPlans = 2
    MaxCrashes = 1
INVARIANTS
    StatusBacked
    ReportsAgree
    OutcomeOfExecution
    RematerialisedForCause
PROPERTIES
    HistoryKept
    ImplementsPromise
