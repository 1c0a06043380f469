----------------------------- MODULE ByteStream -----------------------------
(***************************************************************************)
(* What the sending half of a TCP connection promises the application: a   *)
(* reliable stream.  The peer reads the bytes that were written, each once *)
(* and in order, never one that was not.  Bytes are numbered by their      *)
(* place in the stream.                                                    *)
(***************************************************************************)
EXTENDS Naturals, Sequences

VARIABLES
    written,     \* bytes the application has written
    read         \* bytes the peer has read

Init == written = 0 /\ read = <<>>

Write ==
    /\ written' \in Nat /\ written' > written
    /\ UNCHANGED read

Read ==
    /\ Len(read) < written
    /\ read' = Append(read, Len(read) + 1)
    /\ UNCHANGED written

Spec == Init /\ [][Write \/ Read]_<<written, read>>
=============================================================================
