SPECIFICATION Spec
CONSTANTS
    i1 = i1
    i2 = i2
    o1 = o1
    NULL = NULL
    Ids <- OneId
    Opps <- OneOpp
    PartialStages <- PartialFromResearch
    MaxCalls = 1
    MaxAttempts = 1
    MaxCrashes = 1
INVARIANTS
    ResumeAccepted
