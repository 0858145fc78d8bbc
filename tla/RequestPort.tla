----------------------------- MODULE RequestPort -----------------------------
(***************************************************************************)
(* What the provider's request() promises its callers, without processes,   *)
(* pipes, ids or timers: a call is opened at most once, the service may     *)
(* carry it out at any time after that, even when the caller has given up   *)
(* on it, and the call closes once: with a result only if the service       *)
(* carried it out, with an error at any time.                               *)
(***************************************************************************)
CONSTANT Calls

VARIABLES
  status,   \* per call: "idle", "open", "result" or "error"
  served    \* the calls the service carried out

portVars == <<status, served>>

Init ==
  /\ status = [c \in Calls |-> "idle"]
  /\ served = {}

Open(c) ==
  /\ status[c] = "idle"
  /\ status' = [status EXCEPT ![c] = "open"]
  /\ UNCHANGED served

Serve(c) ==
  /\ status[c] # "idle"
  /\ served' = served \cup {c}
  /\ UNCHANGED status

Return(c) ==
  /\ status[c] = "open"
  /\ c \in served
  /\ status' = [status EXCEPT ![c] = "result"]
  /\ UNCHANGED served

Fail(c) ==
  /\ status[c] = "open"
  /\ status' = [status EXCEPT ![c] = "error"]
  /\ UNCHANGED served

Next == \E c \in Calls : Open(c) \/ Serve(c) \/ Return(c) \/ Fail(c)

Spec == Init /\ [][Next]_portVars
=============================================================================
