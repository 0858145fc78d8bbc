--------------------------- MODULE MCSidecarBridge ---------------------------
(* Instances of SidecarBridge for TLC.                                       *)
EXTENDS SidecarBridge, TLC

Symmetry ==
  Permutations(Connects) \cup Permutations(Commands)
    \cup Permutations(Disconnects) \cup Permutations(Children)
=============================================================================
