SPECIFICATION Spec
CONSTANTS
    Half = 8
    ISS = 14
    IRS = 13
    SndLimit = 2
    RcvSpace = 2
    MaxTx = 2
    MaxEvents = 2
    MaxOrphans = 1
    SendAfterShutdown = FALSE
    LingerOptions = {FALSE}
    PeerBytes = 0
    PeerMaxSeg = 1
    PeerSynBytes = 0
    PeerWindows = {0, 2}
    PeerAcks = {1, 2, 3, 4}
    PeerSynFlags = {TRUE}
    PeerResets = FALSE
    Segments <- PeerSegments
INVARIANT RetransmitGuard
CHECK_DEADLOCK FALSE
