SPECIFICATION FairLoopsSpec
CONSTANTS
    MaxItems = 5
    MaxEvents = 2
INVARIANTS
    HandledInOrder
    PopFindsItem
PROPERTIES
    EveryItemHandled
CHECK_DEADLOCK FALSE
