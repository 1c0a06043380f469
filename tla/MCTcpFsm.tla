------------------------------ MODULE MCTcpFsm ------------------------------
(***************************************************************************)
(* A small peer for TcpFsm.  It sends PeerBytes bytes and a FIN, in        *)
(* segments that may overlap, acknowledges some of our sequence numbers,   *)
(* and opens or closes its window.  Both initial sequence numbers are      *)
(* chosen so that sequence numbers wrap.                                   *)
(***************************************************************************)
EXTENDS TcpFsm

CONSTANTS
    IRS,            \* the peer's initial sequence number
    PeerBytes,      \* bytes in the peer's stream
    PeerMaxSeg,     \* bytes in its largest segment
    PeerSynBytes,   \* bytes its SYN may carry
    PeerWindows,    \* windows it advertises
    PeerAcks,       \* sequence numbers it acknowledges, relative to ISS
    PeerSynFlags,   \* whether its SYNs carry an ACK
    PeerResets      \* whether it may send RST

PeerSeqs(first, last) == {Mask(IRS + i) : i \in first .. last}

\* SYN and SYN+ACK, with or without payload
Syns ==
    [seq : {IRS}, ack_seq : {ISS, Mask(ISS + 1)}, dlen : 0 .. PeerSynBytes,
     wnd : PeerWindows, syn : {1}, fin : {0}, rst : {FALSE}, ack : PeerSynFlags]

\* SYN+ACKs of another incarnation, before and beyond the window
StraySyns ==
    IF FALSE \in PeerSynFlags
    THEN [seq : {Mask(IRS - 1), Mask(IRS + RcvSpace + 4)}, ack_seq : {ISS}, dlen : {0},
          wnd : PeerWindows, syn : {1}, fin : {0}, rst : {FALSE}, ack : {TRUE}]
    ELSE {}

\* Data, FIN and acknowledgements; the FIN follows the last byte
Stream ==
    {s \in [seq : PeerSeqs(1, PeerBytes + 2), ack_seq : {Mask(ISS + i) : i \in PeerAcks},
            dlen : 0 .. PeerMaxSeg, wnd : PeerWindows, syn : {0}, fin : {0, 1},
            rst : {FALSE}, ack : {TRUE}] :
        LET first == seq_diff(s.seq, IRS) IN
        /\ s.dlen > 0 => first + s.dlen <= PeerBytes + 1
        /\ s.fin = 1 => first + s.dlen = PeerBytes + 1}

\* A RST in the stream, and one that answers our SYN
Resets ==
    IF PeerResets
    THEN [seq : PeerSeqs(1, PeerBytes + 1), ack_seq : {Mask(ISS + 1)}, dlen : {0}, wnd : {0},
          syn : {0}, fin : {0}, rst : {TRUE}, ack : {TRUE}]
    ELSE {}

PeerSegments == Syns \cup StraySyns \cup Stream \cup Resets
=============================================================================
