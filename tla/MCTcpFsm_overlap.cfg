SPECIFICATION Spec
CONSTANTS
    Half = 8
    ISS = 14
    IRS = 13
    SndLimit = 1
    RcvSpace = 2
    MaxTx = 2
    MaxEvents = 2
    MaxOrphans = 1
    SendAfterShutdown = FALSE
    LingerOptions = {FALSE}
    PeerBytes = 2
    PeerMaxSeg = 2
    PeerSynBytes = 0
    PeerWindows = {2}
    PeerAcks = {1, 2, 3}
    PeerSynFlags = {TRUE}
    PeerResets = FALSE
    Segments <- PeerSegments
INVARIANT AckedBytesBuffered
CHECK_DEADLOCK FALSE
