SPECIFICATION InputSpec
CONSTANTS
    Readers = {r1, r2}
    MaxFrames = 2
INVARIANTS
    RecvFindsDatagram
    QueueIsFifo
CHECK_DEADLOCK FALSE
