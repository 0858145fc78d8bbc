-------------------------- MODULE MCHistorySearch --------------------------
(* Constants of the HistorySearch runs.                                     *)
EXTENDS HistorySearch

\* All joined rooms from the end backwards or from a timestamp in both
\* directions, or a list of rooms by message id.
MCSearches ==
  {s \in Search : IF s.mode = "exact" THEN s.scope = Rooms /\ ~s.forward
                  ELSE s.scope = {} /\ (s.mode = "plain" => ~s.forward)}

\* A room of several pages, and one with at most one event.
MCEvents == [r \in Rooms |-> IF r = 1 THEN 3 ELSE 1]
=============================================================================
