CONSTANTS
    Senders = {tcp_loop, app}
    MaxDatagrams = 3
    MaxFlush = 2
SPECIFICATION Spec
INVARIANTS AtMostOnce ReplyEntryHasTimer
CHECK_DEADLOCK FALSE
