SPECIFICATION FairSpec
CONSTANTS
    i1 = i1
    i2 = i2
    o1 = o1
    NULL = NULL
    Ids <- TwoIds
    Opps <- OneOpp
    PartialStages <- PartialFromResearch
    MaxCalls = 1
    MaxAttempts = 1
    MaxCrashes = 2
INVARIANTS
    StagePrefix
    ManifestOfRecords
    SelectedLineage
    CrashesAccounted
PROPERTIES
    EvidenceImmutable
    ImplementsPromise
    InvocationEnds
