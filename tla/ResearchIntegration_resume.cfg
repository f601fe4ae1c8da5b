SPECIFICATION LiveSpec
CONSTANTS
    l1 = l1
    Directional <- BothSides
    Monitors <- OneMonitor
    Members <- OneMember
    Listings <- OneListing
    ListingOf <- OfListing
    Short <- ShortSide
    Limits <- AnyLimit
    MaxFailures = 2
    MaxCrashes = 1
INVARIANTS
    ListedIsSelectable
    ManifestTellsOutcomes
    UnclaimedOnlyByInterruption
PROPERTIES
    EndedNeverReworked
    EventuallyCompleted
