------------------------------- MODULE TcpSeq -------------------------------
(***************************************************************************)
(* TCP sequence-number arithmetic (tcp_seq.py).  The code masks every sum  *)
(* and difference with 0xFFFFFFFF, that is, it computes modulo 2^32 and    *)
(* splits the circle at 2^31.  Half stands for 2^31.                       *)
(***************************************************************************)
EXTENDS Integers

CONSTANT Half    \* half the sequence space: 0x80000000 in the code

ASSUME HalfAssumption == Half \in Nat \ {0, 1}

SeqSpace == 2 * Half

SeqNum == 0 .. SeqSpace - 1

\* `& 0xFF_FF_FF_FF`
Mask(n) == n % SeqSpace

seq_diff(a, b) == Mask(a - b)

seq_lt(a, b) == seq_diff(a, b) > Half - 1

seq_leq(a, b) == a = b \/ seq_lt(a, b)

seq_gt(a, b) == a # b /\ seq_diff(a, b) < Half

seq_geq(a, b) == a = b \/ seq_gt(a, b)

\* Sequence numbers a segment occupies: its payload, and one each for SYN, FIN.
SegLen(seg) == seg.dlen + seg.syn + seg.fin

\* Unmasked, as in the code: callers mask the differences they take from it.
last_seq(seg) == seg.seq + SegLen(seg) - (IF SegLen(seg) > 0 THEN 1 ELSE 0)
=============================================================================
