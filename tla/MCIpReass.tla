----------------------------- MODULE MCIpReass ------------------------------
(***************************************************************************)
(* A datagram of NBlocks blocks cut at the offsets of Cuts.                *)
(***************************************************************************)
EXTENDS IpReass

CONSTANT Cuts    \* offsets, in blocks, at which its fragments start

MCFragments == {f \in [off : Cuts, end : Cuts \cup {NBlocks}] :
                  /\ f.off < f.end
                  /\ \A c \in Cuts : c <= f.off \/ f.end <= c}
=============================================================================
