--------------------------- MODULE MCSocketTables ---------------------------
(***************************************************************************)
(* Instance of SocketTables for TLC.  No action tells one socket, remote   *)
(* end or control block from another, so they are symmetric; the ports are *)
(* not, as one of them is ephemeral.                                       *)
(***************************************************************************)
EXTENDS SocketTables, TLC

CONSTANTS s1, s2, r1, r2, c1, c2

MCSockets == {s1, s2}
MCRemotes == {r1, r2}
MCCbs == {c1, c2}

MCSymmetry == Permutations(MCSockets) \cup Permutations(MCRemotes) \cup Permutations(MCCbs)
=============================================================================
