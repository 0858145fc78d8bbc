------------------------ MODULE MCSidecarMembership ------------------------
(* Constants of the SidecarMembership runs.                                 *)
EXTENDS SidecarMembership, TLC

CONSTANTS r1, r2, c1, c2

MCSymmetry == Permutations(Rooms) \cup Permutations(Commands)
=============================================================================
