SPECIFICATION FairSpec
CONSTANTS
    RcvSize = 2
    SndSize = 2
    SendLen = 3
    MaxIn = 3
PROPERTIES
    ConnectReturns
    DataWakesReader
    ResetEndsSend
CHECK_DEADLOCK FALSE
