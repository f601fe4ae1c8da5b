SPECIFICATION RunSpec
CONSTANTS
    i1 = i1
    Instruments <- OneInstrument
    Metadata <- OneVersion
    Wanted = "none"
    MaxSnapshots = 2
    MaxAssessments = 1
    MaxProposals = 2
    MaxSimulations = 2
    MaxDecisions = 2
    MaxPlans = 1
    MaxCrashes = 1
    MaxFailures = 1
    MaxCommands = 5
INVARIANTS
    PlanFromOneRevision
    OnceAndInOrder
    NeverAnEarlierRevision
PROPERTIES
    EndedStaysEnded
CHECK_DEADLOCK FALSE
