CONSTANTS
    NBlocks = 6
    Cuts = {0, 1, 3, 5}
    Copies = 2
    PaddedLast = FALSE
    Fragments <- MCFragments
SPECIFICATION FairSpec
INVARIANTS DataPlaced DeliveredComplete EntryHasTimer OneVerdict
PROPERTY EntryReleased
CHECK_DEADLOCK FALSE
