----------------------------- MODULE RRingBuffer -----------------------------
(***************************************************************************)
(* RRingBuffer (lib/buffer.py), the send buffer of a TCPCB, with the three *)
(* threads that use it.  The application enqueues at _vw.  The TCP event   *)
(* loop dequeues at _vr to send, rolls _vr back to _r to retransmit, and   *)
(* frees acknowledged bytes by moving _r.  A dequeued view is not copied:  *)
(* it travels through the builders into the TX ring, and the TX thread     *)
(* reads the bytes when it builds the frame.                               *)
(*                                                                         *)
(* Bytes are numbered 1, 2, ... by their place in the stream.              *)
(***************************************************************************)
EXTENDS Ring

CONSTANT MaxFrames   \* bound on the frames waiting in the TX ring

ASSUME RRingAssumption == MaxFrames \in Nat

VARIABLES
    sring,                 \* the bytearray
    vw, vr, sr,            \* _vw, _vr, _r
    sput, sent, acked,     \* the stream positions the three offsets stand for
    senq,                  \* enqueue in progress: step, _vw snapshot, clamped length
    sdeq,                  \* dequeue in progress: step, _vr snapshot, clamped length
    frames,                \* TX ring: views not yet read, by stream position and offset
    wire                   \* <<position, byte>> pairs of the frame just built

sndVars == <<sring, vw, vr, sr, sput, sent, acked, senq, sdeq, frames, wire>>

SndCall(pc, off, n) == [pc |-> pc, off |-> off, n |-> n]
SndIdle == SndCall("idle", 0, 0)

SndInit ==
    /\ sring = [o \in Offsets |-> 0]
    /\ vw = 0 /\ vr = 0 /\ sr = 0
    /\ sput = 0 /\ sent = 0 /\ acked = 0
    /\ senq = SndIdle /\ sdeq = SndIdle
    /\ frames = <<>>
    /\ wire = {}

-----------------------------------------------------------------------------
(* The application thread *)

\* enqueue: snapshot and clamp; a full buffer takes nothing.  The room is that up to _vr:
\* bytes that were sent and are not acknowledged do not count.
SndEnqueueStart(len) ==
    /\ senq.pc = "idle"
    /\ sput + len <= MaxBytes
    /\ FreeSpace(vr, vw) # 0
    /\ senq' = SndCall("copy", vw, Least(len, FreeSpace(vr, vw)))
    /\ wire' = {}
    /\ UNCHANGED <<sring, vw, vr, sr, sput, sent, acked, sdeq, frames>>

\* Bytes lo+1 .. hi of the call's buffer are copied to their offsets
SndCopied(lo, hi) ==
    [o \in Offsets |->
        IF \E k \in lo .. hi - 1 : o = (senq.off + k) % Size
        THEN sput + 1 + CHOOSE k \in lo .. hi - 1 : o = (senq.off + k) % Size
        ELSE sring[o]]

\* enqueue: the contiguous copy, or the first portion of a wrapped one
SndEnqueueCopy ==
    /\ senq.pc = "copy"
    /\ IF senq.off + senq.n <= Size - 1
       THEN sring' = SndCopied(0, senq.n) /\ senq' = [senq EXCEPT !.pc = "commit"]
       ELSE sring' = SndCopied(0, Size - senq.off) /\ senq' = [senq EXCEPT !.pc = "wrap"]
    /\ wire' = {}
    /\ UNCHANGED <<vw, vr, sr, sput, sent, acked, sdeq, frames>>

\* enqueue: the second portion of a wrapped copy
SndEnqueueWrap ==
    /\ senq.pc = "wrap"
    /\ sring' = SndCopied(Size - senq.off, senq.n)
    /\ senq' = [senq EXCEPT !.pc = "commit"]
    /\ wire' = {}
    /\ UNCHANGED <<vw, vr, sr, sput, sent, acked, sdeq, frames>>

\* enqueue: advance _vw and return
SndEnqueueCommit ==
    /\ senq.pc = "commit"
    /\ vw' = (vw + senq.n) % Size
    /\ sput' = sput + senq.n
    /\ senq' = SndIdle
    /\ wire' = {}
    /\ UNCHANGED <<sring, vr, sr, sent, acked, sdeq, frames>>

-----------------------------------------------------------------------------
(* The TCP event loop *)

\* dequeue: snapshot and clamp; an empty buffer returns []
SndDequeueStart(len) ==
    /\ sdeq.pc = "idle"
    /\ Len(frames) < MaxFrames
    /\ vr # vw
    /\ sdeq' = SndCall("commit", vr, Least(len, Ready(vr, vw)))
    /\ wire' = {}
    /\ UNCHANGED <<sring, vw, vr, sr, sput, sent, acked, senq, frames>>

\* dequeue: advance _vr past the views; tx_tcp queues them, uncopied, in the TX ring
SndDequeueCommit ==
    /\ sdeq.pc = "commit"
    /\ vr' = (vr + sdeq.n) % Size
    /\ sent' = sent + sdeq.n
    /\ frames' = Append(frames, [pos |-> sent, off |-> sdeq.off, n |-> sdeq.n])
    /\ sdeq' = SndIdle
    /\ wire' = {}
    /\ UNCHANGED <<sring, vw, sr, sput, acked, senq>>

\* Mutant: an ACK does not move _r
FreeKeepsR(n) ==
    /\ sdeq.pc = "idle"
    /\ acked + n <= sent
    /\ acked' = acked + n
    /\ wire' = {}
    /\ UNCHANGED <<sring, sr, vw, vr, sput, sent, senq, sdeq, frames>>

\* free: n bytes below _vr were acknowledged
Free(n) ==
    /\ sdeq.pc = "idle"
    /\ acked + n <= sent
    /\ sr' = (sr + n) % Size
    /\ acked' = acked + n
    /\ wire' = {}
    /\ UNCHANGED <<sring, vw, vr, sput, sent, senq, sdeq, frames>>

\* Mutant: a retransmission keeps the sequence number it was about to use
RollBackKeepsNxt ==
    /\ sdeq.pc = "idle"
    /\ vr' = sr
    /\ wire' = {}
    /\ UNCHANGED <<sring, vw, sr, sput, sent, acked, senq, sdeq, frames>>

\* roll_back_to_r, before a retransmission
RollBackToR ==
    /\ sdeq.pc = "idle"
    /\ vr' = sr
    /\ sent' = acked
    /\ wire' = {}
    /\ UNCHANGED <<sring, vw, sr, sput, acked, senq, sdeq, frames>>

-----------------------------------------------------------------------------
(* The TX thread: build the frame at the head of the TX ring and write it out *)

Transmit ==
    /\ frames # <<>>
    /\ LET f == Head(frames)
       IN  wire' = {<<f.pos + k, sring[(f.off + k - 1) % Size]>> : k \in 1 .. f.n}
    /\ frames' = Tail(frames)
    /\ UNCHANGED <<sring, vw, vr, sr, sput, sent, acked, senq, sdeq>>

SndNext ==
    \/ \E len \in 1 .. Size : SndEnqueueStart(len)
    \/ SndEnqueueCopy \/ SndEnqueueWrap \/ SndEnqueueCommit
    \/ \E len \in 1 .. Size : SndDequeueStart(len)
    \/ SndDequeueCommit
    \/ \E n \in 1 .. Size : Free(n)
    \/ RollBackToR
    \/ Transmit

SndSpec == SndInit /\ [][SndNext]_sndVars

-----------------------------------------------------------------------------
(* Properties *)

\* What reaches the wire is the stream: although views are read by the TX thread
\* long after dequeue returned them, a byte the peer may still need is never sent
\* with another byte's value.
WireIntact ==
    \A p \in wire : p[1] > acked => p[2] = p[1]

-----------------------------------------------------------------------------
(* Statement of a comment that the code does not keep *)

\* "the send buffer must preserve unacknowledged data": every byte written and not
\* yet acknowledged is still in its place, ready to be sent again.  enqueue takes the
\* place of bytes that were sent and not yet acknowledged.
UnackedIntact ==
    \A i \in acked + 1 .. sput : sring[(i - 1) % Size] = i
=============================================================================
