SPECIFICATION Spec
CONSTANTS
    r1 = r1
    r2 = r2
    Order <- MCOrder
    Outputs <- MCOutputs
    Aggregates = {"US"}
    Limited = {"BIT"}
    Rows <- MCRows
    NoIsin = ""
    Excluded = {}
    Answers <- MCAnswers
    Invocations = {r1, r2}
    StaleAllowed = {r1}
    Acquisitions = {"BIT", "US"}
    TTL = 1
    MaxStaleAge = 1
    MaxTime = 3
INVARIANTS
    AgedWithinLimit
    SuccessIsWhole
PROPERTIES
    FileIsAnAnswer
