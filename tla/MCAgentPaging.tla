--------------------------- MODULE MCAgentPaging ---------------------------
(* Constants of the AgentPaging run.                                        *)
EXTENDS AgentPaging

MCItems == 1..5
MCTransports == {1..3, 4..5}
=============================================================================
