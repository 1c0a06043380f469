SPECIFICATION Spec
CONSTANTS
    Half = 8
    ISS = 14
    IRS = 13
    SndLimit = 2
    RcvSpace = 1
    MaxTx = 2
    MaxEvents = 2
    MaxOrphans = 1
    SendAfterShutdown = FALSE
    LingerOptions = {TRUE, FALSE}
    PeerBytes = 1
    PeerMaxSeg = 1
    PeerSynBytes = 1
    PeerWindows = {2}
    PeerAcks = {1, 2, 4}
    PeerSynFlags = {TRUE, FALSE}
    PeerResets = TRUE
    Segments <- PeerSegments
INVARIANT TypeOK
INVARIANT RetransmitGuard
INVARIANT StreamAligned
INVARIANT NothingBeyondMax
INVARIANT RcvRoom
PROPERTY ClosedIsSilent
PROPERTY ImplementsConn
CHECK_DEADLOCK FALSE
