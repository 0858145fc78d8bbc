------------------------- MODULE MCSidecarChatType -------------------------
(* Constants of the SidecarChatType runs.                                   *)
EXTENDS SidecarChatType, TLC

CONSTANTS r1, r2, t1, t2

MCSymmetry == Permutations(Tasks)
=============================================================================
