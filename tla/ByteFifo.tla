------------------------------ MODULE ByteFifo ------------------------------
(***************************************************************************)
(* What rcv_buf promises: a bounded FIFO of bytes.  A call of enqueue      *)
(* appends the next bytes of the incoming stream, a call of dequeue takes  *)
(* bytes from the front, each in one step.  Bytes are numbered by their    *)
(* place in the stream; put is the number of bytes appended so far.        *)
(***************************************************************************)
EXTENDS Naturals, Sequences

CONSTANT Capacity

VARIABLES fifo, put

Init == fifo = <<>> /\ put = 0

Put == \E n \in 1 .. Capacity - Len(fifo) :
           /\ fifo' = fifo \o [k \in 1 .. n |-> put + k]
           /\ put' = put + n

Get == \E n \in 1 .. Len(fifo) :
           /\ fifo' = SubSeq(fifo, n + 1, Len(fifo))
           /\ UNCHANGED put

Spec == Init /\ [][Put \/ Get]_<<fifo, put>>
=============================================================================
