SPECIFICATION Spec
CONSTANTS
    Half = 8
    ISS = 14
    IRS = 13
    SndLimit = 2
    RcvSpace = 2
    MaxTx = 1
    MaxEvents = 2
    MaxOrphans = 1
    SendAfterShutdown = FALSE
    LingerOptions = {FALSE}
    PeerBytes = 0
    PeerMaxSeg = 1
    PeerSynBytes = 0
    PeerWindows = {2}
    PeerAcks = {1, 2, 3, 4}
    PeerSynFlags = {TRUE}
    PeerResets = FALSE
    Segments <- PeerSegments
PROPERTY CloseLosesNothing
CHECK_DEADLOCK FALSE
