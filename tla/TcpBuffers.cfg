SPECIFICATION BuffersSpec
CONSTANTS
    Size = 4
    MaxBytes = 10
    MaxFrames = 2
    Pace = 3
INVARIANTS
    ViewsIntact
    WireIntact
PROPERTIES
    ImplementsFifo
    ImplementsStream
CHECK_DEADLOCK FALSE
