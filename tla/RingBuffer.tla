----------------------------- MODULE RingBuffer -----------------------------
(***************************************************************************)
(* RingBuffer (lib/buffer.py), the receive buffer of a TCPCB.  The TCP     *)
(* event loop enqueues, one application thread dequeues.  The lock covers  *)
(* only the snapshot of the two offsets and the update of one of them, so  *)
(* a call is three steps (snapshot, copy, commit) that interleave with the *)
(* other thread's.  A copy that wraps is two slice assignments.            *)
(* dequeue copies nothing: it returns views into the bytearray, and recv() *)
(* reads the bytes after _r was moved past them.                           *)
(*                                                                         *)
(* Bytes are numbered 1, 2, ... by their place in the stream.              *)
(***************************************************************************)
EXTENDS Ring

VARIABLES
    ring,        \* the bytearray
    w, r,        \* _w, _r
    enq,         \* enqueue in progress: step, snapshots and clamped length
    deq,         \* dequeue in progress, the same
    put          \* bytes enqueued so far

vars == <<ring, w, r, enq, deq, put>>

Call(pc, r0, w0, n) == [pc |-> pc, r0 |-> r0, w0 |-> w0, n |-> n]
Idle == Call("idle", 0, 0, 0)

Init ==
    /\ ring = [o \in Offsets |-> 0]
    /\ w = 0 /\ r = 0
    /\ enq = Idle /\ deq = Idle
    /\ put = 0

\* enqueue: snapshot and clamp; a full buffer takes nothing
EnqueueStart(len) ==
    /\ enq.pc = "idle"
    /\ put + len <= MaxBytes
    /\ FreeSpace(r, w) # 0
    /\ enq' = Call("copy", r, w, Least(len, FreeSpace(r, w)))
    /\ UNCHANGED <<ring, w, r, deq, put>>

\* Bytes lo+1 .. hi of the call's buffer are copied to their offsets
Copied(lo, hi) ==
    [o \in Offsets |->
        IF \E k \in lo .. hi - 1 : o = (enq.w0 + k) % Size
        THEN put + 1 + CHOOSE k \in lo .. hi - 1 : o = (enq.w0 + k) % Size
        ELSE ring[o]]

\* Mutant: a wrapped copy forgets its second portion
EnqueueCopyFirst ==
    /\ enq.pc = "copy"
    /\ ring' = Copied(0, Least(enq.n, Size - enq.w0))
    /\ enq' = [enq EXCEPT !.pc = "commit"]
    /\ UNCHANGED <<w, r, deq, put>>

\* enqueue: the contiguous copy, or the first portion of a wrapped one
EnqueueCopy ==
    /\ enq.pc = "copy"
    /\ IF enq.w0 + enq.n <= Size - 1
       THEN ring' = Copied(0, enq.n) /\ enq' = [enq EXCEPT !.pc = "commit"]
       ELSE ring' = Copied(0, Size - enq.w0) /\ enq' = [enq EXCEPT !.pc = "wrap"]
    /\ UNCHANGED <<w, r, deq, put>>

\* enqueue: the second portion of a wrapped copy
EnqueueWrap ==
    /\ enq.pc = "wrap"
    /\ ring' = Copied(Size - enq.w0, enq.n)
    /\ enq' = [enq EXCEPT !.pc = "commit"]
    /\ UNCHANGED <<w, r, deq, put>>

\* enqueue: advance _w and return
EnqueueCommit ==
    /\ enq.pc = "commit"
    /\ w' = (w + enq.n) % Size
    /\ put' = put + enq.n
    /\ enq' = Idle
    /\ UNCHANGED <<ring, r, deq>>

\* Mutant: the clamp is one byte too generous
DequeueStartPast(len) ==
    /\ deq.pc = "idle"
    /\ r # w
    /\ deq' = Call("commit", r, w, Least(len, Ready(r, w) + 1))
    /\ UNCHANGED <<ring, w, r, enq, put>>

\* dequeue: snapshot and clamp; an empty buffer returns []
DequeueStart(len) ==
    /\ deq.pc = "idle"
    /\ r # w
    /\ deq' = Call("commit", r, w, Least(len, Ready(r, w)))
    /\ UNCHANGED <<ring, w, r, enq, put>>

\* len(data), or len(data1) + len(data2) when the views wrap
Viewed == IF deq.r0 < deq.w0 \/ deq.r0 + deq.n <= Size
          THEN deq.n
          ELSE (Size - deq.r0) + (deq.n - (Size - deq.r0))

\* dequeue: advance _r past the views it returns
DequeueCommit ==
    /\ deq.pc = "commit"
    /\ r' = (r + Viewed) % Size
    /\ deq' = [deq EXCEPT !.pc = "read"]
    /\ UNCHANGED <<ring, w, enq, put>>

\* recv(): the views are copied into the bytes object it returns
ReadViews ==
    /\ deq.pc = "read"
    /\ deq' = Idle
    /\ UNCHANGED <<ring, w, r, enq, put>>

Next ==
    \/ \E len \in 1 .. Size : EnqueueStart(len)
    \/ EnqueueCopy \/ EnqueueWrap \/ EnqueueCommit
    \/ \E len \in 1 .. Size : DequeueStart(len)
    \/ DequeueCommit \/ ReadViews

Spec == Init /\ [][Next]_vars

-----------------------------------------------------------------------------
(* Properties *)

\* The bytes between _r and _w, in order
Contents == [k \in 1 .. Ready(r, w) |-> ring[(r + k - 1) % Size]]

\* The stream position before the views of a dequeue, and the one up to which bytes were
\* enqueued or have their place in an enqueue that runs
ViewsAt == put - Len(Contents) - (IF deq.pc = "read" THEN deq.n ELSE 0)
Claimed == put + enq.n

\* The view of byte k holds that byte
ViewHolds(k) == ring[(deq.r0 + k - 1) % Size] = ViewsAt + k

\* The views of a dequeue hold the oldest unread bytes.  Until _r is moved nothing touches
\* them, although no lock is held.  After that a byte is still there when recv() reads it
\* unless the event loop has meanwhile claimed the byte one whole turn of the ring later;
\* an enqueue that started before _r was moved never does.
ViewsIntact ==
    /\ deq.pc = "commit" => deq.n <= Len(Contents) /\ \A k \in 1 .. deq.n : ViewHolds(k)
    /\ deq.pc = "read" => \A k \in 1 .. deq.n : Claimed < ViewsAt + k + Size => ViewHolds(k)

Fifo == INSTANCE ByteFifo WITH Capacity <- Size - 1, fifo <- Contents

\* rcv_buf is a bounded FIFO: although neither call is atomic, each behaves as one
\* step of ByteFifo at its offset update, and nothing else changes the contents.
ImplementsFifo == Fifo!Spec

-----------------------------------------------------------------------------
(* Statement that the code does not keep *)

\* recv() returns the bytes it took out of the buffer, however many arrive before it has
\* copied its views.
RecvReturnsTaken == deq.pc = "read" => \A k \in 1 .. deq.n : ViewHolds(k)
=============================================================================
