--------------------------- MODULE MCChatSession ---------------------------
(* Constants of the ChatSession runs.                                       *)
EXTENDS ChatSession, TLC

CONSTANTS matrix, c1, c2, k1, k2

MCSymmetry == Permutations(Chats) \cup Permutations(Tasks)
=============================================================================
