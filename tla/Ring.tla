-------------------------------- MODULE Ring --------------------------------
(***************************************************************************)
(* What the two ring buffers of lib/buffer.py have in common: a bytearray  *)
(* of Size bytes and the arithmetic of a read and a write offset.          *)
(***************************************************************************)
EXTENDS Naturals, Sequences

CONSTANTS
    Size,        \* len(ring); one byte of it stays unused
    MaxBytes     \* bound on the bytes enqueued in a behaviour

ASSUME RingAssumption == Size \in Nat \ {0} /\ MaxBytes \in Nat

Offsets == 0 .. Size - 1

Least(a, b) == IF a <= b THEN a ELSE b

\* free_space() and ready(), from snapshots of the read and the write offset
FreeSpace(r0, w0) == (r0 + Size - w0 - 1) % Size
Ready(r0, w0) == (w0 + Size - r0) % Size
=============================================================================
