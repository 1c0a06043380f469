----------------------------- MODULE SendStream -----------------------------
(***************************************************************************)
(* The send buffer at work: the threads of RRingBuffer, the network and    *)
(* the peer.  The network may lose, repeat and reorder what the TX thread  *)
(* writes out.  The peer takes the bytes of the stream in order and        *)
(* acknowledges no more than it took; the receive handlers free bytes of   *)
(* snd_buf only when they are acknowledged.                                *)
(*                                                                         *)
(* A view in the TX ring may be read after its bytes were acknowledged and *)
(* their place was written again: a frame can carry bytes of a later part  *)
(* of the stream under an old position.                                    *)
(*                                                                         *)
(* The stack does not keep send() from writing over unacknowledged bytes   *)
(* (UnackedIntact of RRingBuffer).  This module is about an application    *)
(* that never lets it come to that: it writes no more than Pace bytes      *)
(* beyond what the peer has acknowledged.                                  *)
(***************************************************************************)
EXTENDS RRingBuffer

CONSTANT Pace    \* most bytes this application leaves unacknowledged

ASSUME PaceAssumption == Pace \in Nat

VARIABLES
    net,         \* <<position, byte>> pairs that were ever transmitted
    got          \* bytes the peer has taken

streamVars == <<sndVars, net, got>>

StreamInit == SndInit /\ net = {} /\ got = <<>>

\* The application waits for acknowledgements before it calls send() again
PacedSend(len) == sput + len <= acked + Pace /\ SndEnqueueStart(len)

\* An acknowledgement arrives, new or late, of bytes the peer has taken
Acknowledge(n) == acked + n <= Len(got) /\ Free(n)

\* A step of the application, the TCP event loop or the TX thread
Local ==
    \/ \E len \in 1 .. Size : PacedSend(len)
    \/ SndEnqueueCopy \/ SndEnqueueWrap \/ SndEnqueueCommit
    \/ \E len \in 1 .. Size : SndDequeueStart(len)
    \/ SndDequeueCommit
    \/ \E n \in 1 .. Size : Acknowledge(n)
    \/ RollBackToR
    \/ Transmit

\* The peer receives the next byte of the stream
PeerTakes(p) ==
    /\ p[1] = Len(got) + 1
    /\ got' = Append(got, p[2])
    /\ UNCHANGED <<sndVars, net>>

StreamNext ==
    \/ Local /\ net' = net \cup wire' /\ UNCHANGED got
    \/ \E p \in net : PeerTakes(p)

StreamSpec == StreamInit /\ [][StreamNext]_streamVars

-----------------------------------------------------------------------------
(* Properties *)

Stream == INSTANCE ByteStream WITH written <- sput, read <- got

\* The peer reads what was written, once and in order, although views are read late,
\* retransmissions overlap, and the network repeats old frames: a frame whose bytes were
\* overwritten before the TX thread read them only has positions the peer does not take.
ImplementsStream == Stream!Spec
=============================================================================
