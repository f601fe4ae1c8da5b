SPECIFICATION Spec
CONSTANTS
    Listings <- ThreeListings
    Routes <- AllRoutes
    Policies <- SearchedAndReplayed
INVARIANTS
    SearchDiscipline
    StopJustified
    LedgerExact
    ReplayFaithful
