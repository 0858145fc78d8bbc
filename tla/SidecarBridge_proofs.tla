------------------------ MODULE SidecarBridge_proofs ------------------------
(***************************************************************************)
(* Proofs about SidecarBridge, for any sets of calls and children and any   *)
(* values of the bounds: type correctness, the inductive invariant IInv,    *)
(* the safety invariants that follow from it, and that the provider and its *)
(* sidecars implement RequestPort.                                          *)
(***************************************************************************)
EXTENDS SidecarBridge, TLAPS

-----------------------------------------------------------------------------
(* Type correctness.                                                        *)

\* request() keeps the types of everything it writes.
LEMMA RequestTypes ==
  ASSUME TypeOK, NEW c \in Calls, NEW k \in Children, SendRequest(c, k)
  PROVE  /\ nextId' \in Nat \ {0}
         /\ pending' \in SUBSET Request
         /\ state' \in [Calls -> CallState]
         /\ id' \in [Calls -> Nat]
         /\ target' \in [Calls -> Children \cup {NoChild}]
         /\ outcome' \in [Calls -> {"none", "result", "error"}]
         /\ blocked' \in [Calls -> BOOLEAN]
         /\ awaits' \in [Calls -> Children \cup {NoChild}]
         /\ stdin' \in [Children -> Seq(Request)]
<1>1. nextId \in Nat /\ <<nextId, c>> \in Request
  BY DEF TypeOK, Request
<1>2. Append(stdin[k], <<nextId, c>>) \in Seq(Request)
  <2>1. stdin[k] \in Seq(Request)
    BY DEF TypeOK
  <2> HIDE DEF Request
  <2> QED
    BY <1>1, <2>1
<1>3. stdin' \in [Children -> Seq(Request)]
  BY <1>2 DEF TypeOK, SendRequest, FreshId
<1>4. pending' \in SUBSET Request
  BY <1>1 DEF TypeOK, SendRequest, FreshId
<1>5. /\ nextId' \in Nat \ {0}
      /\ state' \in [Calls -> CallState]
      /\ id' \in [Calls -> Nat]
  BY DEF TypeOK, SendRequest, FreshId, CallState
<1>6. /\ target' \in [Calls -> Children \cup {NoChild}]
      /\ outcome' \in [Calls -> {"none", "result", "error"}]
      /\ blocked' \in [Calls -> BOOLEAN]
      /\ awaits' \in [Calls -> Children \cup {NoChild}]
  BY DEF TypeOK, SendRequest, Blocks
<1> QED
  BY <1>3, <1>4, <1>5, <1>6

\* Every step keeps the types.
LEMMA TypeStep == TypeOK /\ [Next]_vars => TypeOK'
<1> SUFFICES ASSUME TypeOK, [Next]_vars PROVE TypeOK'
  OBVIOUS
<1>1. ASSUME NEW c \in Calls, ConnectCall(c) PROVE TypeOK'
  BY <1>1 DEF ConnectCall, CallState, providerVars, childVars, TypeOK
<1>2. ASSUME NEW c \in Calls, NEW k \in Children, ConnectSpawn(c, k)
      PROVE  TypeOK'
  <2>1. SendRequest(c, k)
    BY <1>2 DEF ConnectSpawn
  <2> QED
    BY <1>2, <2>1, RequestTypes DEF ConnectSpawn, TypeOK
<1>3. ASSUME NEW c \in Calls, CommandCall(c) PROVE TypeOK'
  <2>1. CASE process = NoChild
    <3>1. /\ UNCHANGED <<id, target, outcome, blocked, awaits, childVars>>
          /\ UNCHANGED <<process, nextId, pending, readerDone>>
      BY <1>3, <2>1 DEF CommandCall, providerVars
    <3>2. state' \in [Calls -> CallState] /\ isConnected' \in BOOLEAN
      BY <1>3, <2>1 DEF CommandCall, providerVars, TypeOK, CallState
    <3> QED
      BY <3>1, <3>2 DEF childVars, TypeOK
  <2>2. CASE process # NoChild
    <3>1. process \in Children /\ SendRequest(c, process)
      BY <1>3, <2>2 DEF CommandCall, TypeOK
    <3> QED
      BY <1>3, <2>2, <3>1, RequestTypes DEF CommandCall, TypeOK
  <2> QED
    BY <2>1, <2>2
<1>4. ASSUME NEW c \in Calls, DisconnectCall(c) PROVE TypeOK'
  <2>1. CASE process = NoChild
    <3>1. /\ UNCHANGED <<id, target, outcome, blocked, awaits, childVars>>
          /\ UNCHANGED <<process, nextId, pending, readerDone>>
      BY <1>4, <2>1 DEF DisconnectCall
    <3>2. state' \in [Calls -> CallState] /\ isConnected' \in BOOLEAN
      BY <1>4, <2>1 DEF DisconnectCall, TypeOK, CallState
    <3> QED
      BY <3>1, <3>2 DEF childVars, TypeOK
  <2>2. CASE process # NoChild
    <3>1. process \in Children /\ SendRequest(c, process)
      BY <1>4, <2>2 DEF DisconnectCall, TypeOK
    <3> QED
      BY <1>4, <2>2, <3>1, RequestTypes DEF DisconnectCall, TypeOK
  <2> QED
    BY <2>1, <2>2
<1>5. CASE ShutdownForProcessExit
  BY <1>5
  DEF ShutdownForProcessExit, Kill, Reset, RejectPending, RejectedOutcome,
      PendingCalls, TypeOK
<1>6. ASSUME NEW c \in Calls, CommandResume(c) PROVE TypeOK'
  BY <1>6 DEF CommandResume, CallState, childVars, TypeOK
<1>7. ASSUME NEW c \in Calls, ConnectSucceeds(c) PROVE TypeOK'
  BY <1>7 DEF ConnectSucceeds, CallState, childVars, TypeOK
<1>8. ASSUME NEW c \in Calls, ConnectFails(c) PROVE TypeOK'
  BY <1>8
  DEF ConnectFails, Kill, RejectPending, RejectedOutcome, PendingCalls,
      CallState, TypeOK
<1>9. ASSUME NEW c \in Calls, DisconnectResume(c) PROVE TypeOK'
  BY <1>9 DEF DisconnectResume, Kill, CallState, TypeOK
<1>10. ASSUME NEW c \in Calls, DisconnectDone(c) PROVE TypeOK'
  BY <1>10
  DEF DisconnectDone, Reset, RejectPending, RejectedOutcome, PendingCalls,
      CallState, childVars, TypeOK
<1>11. ASSUME NEW c \in Calls, Timeout(c) PROVE TypeOK'
  BY <1>11 DEF Timeout, childVars, TypeOK
<1>12. ASSUME NEW k \in Children, SidecarTakesCommand(k)
      PROVE  TypeOK'
  <2>1. /\ stdin[k] \in Seq(Request)
        /\ Head(stdin[k]) \in Request
        /\ Tail(stdin[k]) \in Seq(Request)
    BY <1>12 DEF SidecarTakesCommand, TypeOK
  <2>2. stdin' \in [Children -> Seq(Request)] /\ tasks' \in [Children -> SUBSET Request]
    BY <1>12, <2>1 DEF SidecarTakesCommand, TypeOK
  <2>3. blocked' \in [Calls -> BOOLEAN]
    BY <1>12 DEF SidecarTakesCommand, Unblocked, TypeOK
  <2> QED
    BY <1>12, <2>2, <2>3 DEF SidecarTakesCommand, providerVars, TypeOK
<1>13. ASSUME NEW k \in Children, SidecarReplies(k) PROVE TypeOK'
  <2>1. PICK t \in tasks[k], ok \in BOOLEAN :
          /\ tasks' = [tasks EXCEPT ![k] = tasks[k] \ {t}]
          /\ Emit(k, [kind |-> "reply", id |-> t[1], call |-> t[2], ok |-> ok])
          /\ answered' = IF ok THEN answered \cup {t[2]} ELSE answered
    BY <1>13 DEF SidecarReplies
  <2>2. t \in Request
    BY DEF TypeOK
  <2>3. [kind |-> "reply", id |-> t[1], call |-> t[2], ok |-> ok] \in Line
    BY <2>2 DEF Request, Line, Reply
  <2>4. stdout' \in [Children -> Seq(Line)]
    BY <2>1, <2>3 DEF Emit, TypeOK
  <2>5. tasks' \in [Children -> SUBSET Request]
    <3>1. tasks[k] \ {t} \in SUBSET Request
      BY DEF TypeOK
    <3> QED
      BY <2>1, <3>1 DEF TypeOK
  <2>6. answered' \in SUBSET Calls
    BY <2>1, <2>2 DEF Request, TypeOK
  <2> QED
    BY <1>13, <2>4, <2>5, <2>6 DEF SidecarReplies, providerVars, callVars, TypeOK
<1>14. ASSUME NEW k \in Children, SidecarEmitsEvent(k) PROVE TypeOK'
  <2>1. [kind |-> "event"] \in Line
    BY DEF Line, Event
  <2>2. stdout' \in [Children -> Seq(Line)]
    BY <1>14, <2>1 DEF SidecarEmitsEvent, Emit, TypeOK
  <2> QED
    BY <1>14, <2>2 DEF SidecarEmitsEvent, providerVars, callVars, TypeOK
<1>15. ASSUME NEW k \in Children, SidecarExits(k) PROVE TypeOK'
  BY <1>15 DEF SidecarExits, providerVars, callVars, TypeOK
<1>16. ASSUME NEW k \in Children, ReadReply(k) PROVE TypeOK'
  BY <1>16 DEF ReadReply, TypeOK
<1>17. ASSUME NEW k \in Children, ReadEvent(k) PROVE TypeOK'
  BY <1>17 DEF ReadEvent, providerVars, callVars, TypeOK
<1>18. ASSUME NEW k \in Children, ReaderFails(k) PROVE TypeOK'
  BY <1>18 DEF ReaderFails, RejectPending, RejectedOutcome, PendingCalls, TypeOK
<1>19. ASSUME NEW k \in Children, ReaderEnds(k) PROVE TypeOK'
  BY <1>19 DEF ReaderEnds, providerVars, callVars, TypeOK
<1>20. ASSUME NEW k \in Children, ExitEvent(k) PROVE TypeOK'
  <2>1. pending' \in SUBSET Request /\ outcome' \in [Calls -> {"none", "result", "error"}]
    BY <1>20 DEF ExitEvent, RejectPending, RejectedOutcome, TypeOK
  <2>2. process' \in Children \cup {NoChild} /\ isConnected' \in BOOLEAN
    BY <1>20 DEF ExitEvent, TypeOK
  <2> QED
    BY <1>20, <2>1, <2>2 DEF ExitEvent, TypeOK
<1>21. ASSUME NEW k \in Children, Drain(k) PROVE TypeOK'
  BY <1>21 DEF Drain, Unblocked, providerVars, childVars, TypeOK
<1>22. ASSUME NEW k \in Children, StdinError(k) PROVE TypeOK'
  BY <1>22 DEF StdinError, PendingCalls, TypeOK
<1>23. ASSUME NEW k \in Children, ExitHandled(k) PROVE TypeOK'
  BY <1>23 DEF ExitHandled, callVars, TypeOK
<1>24. CASE UNCHANGED vars
  BY <1>24 DEF vars, TypeOK
<1> QED
  BY <1>1, <1>2, <1>3, <1>4, <1>5, <1>6, <1>7, <1>8, <1>9, <1>10, <1>11, <1>12,
     <1>13, <1>14, <1>15, <1>16, <1>17, <1>18, <1>19, <1>20, <1>21, <1>22, <1>23,
     <1>24
  DEF Next, CallStep, SidecarStep, ChildEvent, ReaderStep

\* The initial values have the types.
LEMMA InitTypeOK == Init => TypeOK
<1> SUFFICES ASSUME Init PROVE TypeOK
  OBVIOUS
<1>1. <<>> \in Seq(Request) /\ <<>> \in Seq(Line)
  OBVIOUS
<1>2. stdin \in [Children -> Seq(Request)]
  BY <1>1 DEF Init
<1>3. stdout \in [Children -> Seq(Line)]
  BY <1>1 DEF Init
<1>4. isConnected \in BOOLEAN
  BY DEF Init
<1> QED
  BY <1>2, <1>3, <1>4 DEF Init, TypeOK, CallState

\* Every variable keeps its type: the provider's fields, the calls' local state
\* and the children's pipes.
THEOREM TypeCorrect == Spec => []TypeOK
BY InitTypeOK, TypeStep, PTL DEF Spec

-----------------------------------------------------------------------------
(* The inductive invariant, conjunct by conjunct.                           *)

\* What a child does on its own, and a reader's loop, touch neither the provider's
\* fields nor the calls.
SilentStep(k) ==
  \/ SidecarReplies(k) \/ SidecarEmitsEvent(k) \/ SidecarExits(k)
  \/ ReadEvent(k) \/ ReaderEnds(k)

\* Such a step is silent.
LEMMA SilentSteps ==
  ASSUME NEW k \in Children, SilentStep(k)
  PROVE  UNCHANGED <<providerVars, callVars>>
BY
DEF SilentStep, SidecarReplies, SidecarEmitsEvent, SidecarExits, ReadEvent,
    ReaderEnds

\* rejectPending() settles calls that await a request and no others, leaves none
\* of them unsettled, and never turns an outcome into a result.
LEMMA RejectingIsLocal ==
  ASSUME TypeOK, PendingInv, RejectPending
  PROVE  /\ pending' = {}
         /\ \A c \in Calls : state[c] # "requesting" => outcome'[c] = outcome[c]
         /\ \A c \in Calls : outcome'[c] # outcome[c] => outcome'[c] = "error"
         /\ NobodyForgotten =>
              \A c \in Calls : state[c] = "requesting" => outcome'[c] # "none"
<1>1. pending' = {} /\ \A c \in Calls : outcome'[c] # outcome[c] => outcome'[c] = "error"
  BY DEF TypeOK, RejectPending, RejectedOutcome
<1>2. \A c \in Calls : state[c] # "requesting" => outcome'[c] = outcome[c]
  BY DEF TypeOK, PendingInv, RejectPending, RejectedOutcome, PendingCalls
<1>3. ASSUME NobodyForgotten, NEW c \in Calls, state[c] = "requesting"
      PROVE  outcome'[c] # "none"
  <2>1. CASE outcome[c] = "none"
    <3>1. <<id[c], c>> \in pending /\ <<id[c], c>>[2] = c
      BY <1>3, <2>1 DEF NobodyForgotten
    <3>2. c \in PendingCalls
      BY <3>1 DEF PendingCalls
    <3> QED
      BY <3>2 DEF RejectPending, RejectedOutcome
  <2>2. CASE outcome[c] # "none"
    BY <1>1, <2>2
  <2> QED
    BY <2>1, <2>2
<1> QED
  BY <1>1, <1>2, <1>3

\* In a turn that begins quiet no awaited request has been rejected, and no
\* connect request has been answered.
LEMMA QuietSettled ==
  ASSUME BlockedInv, Quiet
  PROVE  /\ \A c \in Calls : state[c] = "requesting" => outcome[c] # "error"
         /\ \A c \in Connects : state[c] = "requesting" => outcome[c] # "result"
BY DEF BlockedInv, Quiet, Settled, Calls

\* Ids stay unique, below #nextId, and are given at most once to a call.
LEMMA IdStep == IInv /\ [Next]_vars => IdInv'
<1> SUFFICES ASSUME IInv, [Next]_vars PROVE IdInv'
  OBVIOUS
<1>0. TypeOK /\ IdInv /\ PendingInv
  BY DEF IInv
<1>1. ASSUME NEW c \in Calls, ConnectCall(c) PROVE IdInv'
  BY <1>0, <1>1
  DEF ConnectCall, providerVars, childVars, TypeOK, IdInv, PendingInv, Names
<1>2. ASSUME NEW c \in Calls, NEW k \in Children, ConnectSpawn(c, k)
      PROVE  IdInv'
  BY <1>0, <1>2
  DEF ConnectSpawn, SendRequest, FreshId, TypeOK, IdInv, PendingInv, Names
<1>3. ASSUME NEW c \in Calls, CommandCall(c) PROVE IdInv'
  <2>1. CASE process = NoChild
    BY <1>0, <1>3, <2>1
    DEF CommandCall, providerVars, TypeOK, IdInv, PendingInv, Names
  <2>2. CASE process # NoChild
    <3>1. process \in Children /\ SendRequest(c, process) /\ state[c] = "unused"
      BY <1>0, <1>3, <2>2 DEF CommandCall, TypeOK
    <3> QED
      BY <1>0, <3>1 DEF SendRequest, FreshId, TypeOK, IdInv, PendingInv, Names
  <2> QED
    BY <2>1, <2>2
<1>4. ASSUME NEW c \in Calls, DisconnectCall(c) PROVE IdInv'
  <2>1. CASE process = NoChild
    BY <1>0, <1>4, <2>1 DEF DisconnectCall, TypeOK, IdInv, PendingInv, Names
  <2>2. CASE process # NoChild
    <3>1. process \in Children /\ SendRequest(c, process) /\ state[c] = "unused"
      BY <1>0, <1>4, <2>2 DEF DisconnectCall, TypeOK
    <3> QED
      BY <1>0, <3>1 DEF SendRequest, FreshId, TypeOK, IdInv, PendingInv, Names
  <2> QED
    BY <2>1, <2>2
<1>5. CASE ShutdownForProcessExit
  BY <1>0, <1>5
  DEF ShutdownForProcessExit, Kill, Reset, RejectPending, RejectedOutcome,
      PendingCalls, TypeOK, IdInv, PendingInv, Names
<1>6. ASSUME NEW c \in Calls, CommandResume(c) PROVE IdInv'
  BY <1>0, <1>6 DEF CommandResume, childVars, TypeOK, IdInv, PendingInv, Names
<1>7. ASSUME NEW c \in Calls, ConnectSucceeds(c) PROVE IdInv'
  BY <1>0, <1>7 DEF ConnectSucceeds, childVars, TypeOK, IdInv, PendingInv, Names
<1>8. ASSUME NEW c \in Calls, ConnectFails(c) PROVE IdInv'
  BY <1>0, <1>8
  DEF ConnectFails, Kill, RejectPending, RejectedOutcome, PendingCalls, TypeOK,
      IdInv, PendingInv, Names
<1>9. ASSUME NEW c \in Calls, DisconnectResume(c) PROVE IdInv'
  BY <1>0, <1>9 DEF DisconnectResume, Kill, TypeOK, IdInv, PendingInv, Names
<1>10. ASSUME NEW c \in Calls, DisconnectDone(c) PROVE IdInv'
  BY <1>0, <1>10
  DEF DisconnectDone, Reset, RejectPending, RejectedOutcome, PendingCalls,
      childVars, TypeOK, IdInv, PendingInv, Names
<1>11. ASSUME NEW c \in Calls, Timeout(c) PROVE IdInv'
  BY <1>0, <1>11 DEF Timeout, childVars, TypeOK, IdInv, PendingInv, Names
<1>12. ASSUME NEW k \in Children, SidecarTakesCommand(k)
      PROVE  IdInv'
  BY <1>0, <1>12
  DEF SidecarTakesCommand, Unblocked, providerVars, TypeOK, IdInv, PendingInv,
      Names
<1>13. ASSUME NEW k \in Children, ReadReply(k) PROVE IdInv'
  BY <1>0, <1>13 DEF ReadReply, TypeOK, IdInv, PendingInv, Names
<1>14. ASSUME NEW k \in Children, ReaderFails(k) PROVE IdInv'
  BY <1>0, <1>14
  DEF ReaderFails, RejectPending, RejectedOutcome, PendingCalls, TypeOK, IdInv,
      PendingInv, Names
<1>15. ASSUME NEW k \in Children, SilentStep(k) PROVE IdInv'
  BY <1>0, <1>15, SilentSteps
  DEF providerVars, callVars, TypeOK, IdInv, PendingInv, Names
<1>16. ASSUME NEW k \in Children, ExitEvent(k) PROVE IdInv'
  <2>1. CASE process = k
    <3>1. \A c \in Calls : state[c] # "requesting" => outcome'[c] = outcome[c]
      BY <1>0, <1>16, <2>1, RejectingIsLocal DEF ExitEvent
    <3> QED
      BY <1>0, <1>16, <3>1 DEF ExitEvent, TypeOK, IdInv
  <2>2. CASE process # k
    BY <1>0, <1>16, <2>2 DEF ExitEvent, TypeOK, IdInv
  <2> QED
    BY <2>1, <2>2
<1>17. ASSUME NEW k \in Children, Drain(k) PROVE IdInv'
  BY <1>0, <1>17
  DEF Drain, Unblocked, providerVars, childVars, TypeOK, IdInv, PendingInv,
      Names
<1>18. ASSUME NEW k \in Children, StdinError(k) PROVE IdInv'
  BY <1>0, <1>18 DEF StdinError, PendingCalls, TypeOK, IdInv, PendingInv, Names
<1>19. ASSUME NEW k \in Children, ExitHandled(k) PROVE IdInv'
  BY <1>0, <1>19 DEF ExitHandled, callVars, TypeOK, IdInv
<1>20. CASE UNCHANGED vars
  BY <1>0, <1>20 DEF vars, TypeOK, IdInv, PendingInv, Names
<1> QED
  BY <1>1, <1>2, <1>3, <1>4, <1>5, <1>6, <1>7, <1>8, <1>9, <1>10, <1>11, <1>12,
     <1>13, <1>14, <1>15, <1>16, <1>17, <1>18, <1>19, <1>20
  DEF Next, CallStep, SidecarStep, ChildEvent, ReaderStep, SilentStep

\* An entry of #pending is that of a request still awaited, under its own id.
LEMMA PendingStep == IInv /\ [Next]_vars => PendingInv'
<1> SUFFICES ASSUME IInv, [Next]_vars PROVE PendingInv'
  OBVIOUS
<1>0. TypeOK /\ IdInv /\ PendingInv
  BY DEF IInv
<1>1. ASSUME NEW c \in Calls, ConnectCall(c) PROVE PendingInv'
  BY <1>0, <1>1
  DEF ConnectCall, providerVars, childVars, TypeOK, IdInv, PendingInv, Names,
      Request
<1>2. ASSUME NEW c \in Calls, NEW k \in Children, ConnectSpawn(c, k)
      PROVE  PendingInv'
  BY <1>0, <1>2
  DEF ConnectSpawn, SendRequest, FreshId, TypeOK, IdInv, PendingInv, Names,
      Request
<1>3. ASSUME NEW c \in Calls, CommandCall(c) PROVE PendingInv'
  BY <1>0, <1>3
  DEF CommandCall, SendRequest, FreshId, providerVars, childVars, TypeOK, IdInv,
      PendingInv, Names, Request
<1>4. ASSUME NEW c \in Calls, DisconnectCall(c) PROVE PendingInv'
  BY <1>0, <1>4
  DEF DisconnectCall, SendRequest, FreshId, childVars, TypeOK, IdInv,
      PendingInv, Names, Request
<1>5. CASE ShutdownForProcessExit
  BY <1>0, <1>5
  DEF ShutdownForProcessExit, Kill, Reset, RejectPending, RejectedOutcome,
      PendingCalls, TypeOK, IdInv, PendingInv, Names, Request
<1>6. ASSUME NEW c \in Calls, CommandResume(c) PROVE PendingInv'
  BY <1>0, <1>6
  DEF CommandResume, childVars, TypeOK, IdInv, PendingInv, Names, Request
<1>7. ASSUME NEW c \in Calls, ConnectSucceeds(c) PROVE PendingInv'
  BY <1>0, <1>7
  DEF ConnectSucceeds, childVars, TypeOK, IdInv, PendingInv, Names, Request
<1>8. ASSUME NEW c \in Calls, ConnectFails(c) PROVE PendingInv'
  BY <1>0, <1>8
  DEF ConnectFails, Kill, RejectPending, RejectedOutcome, PendingCalls, TypeOK,
      IdInv, PendingInv, Names, Request
<1>9. ASSUME NEW c \in Calls, DisconnectResume(c) PROVE PendingInv'
  BY <1>0, <1>9
  DEF DisconnectResume, Kill, TypeOK, IdInv, PendingInv, Names, Request
<1>10. ASSUME NEW c \in Calls, DisconnectDone(c) PROVE PendingInv'
  BY <1>0, <1>10
  DEF DisconnectDone, Reset, RejectPending, RejectedOutcome, PendingCalls,
      childVars, TypeOK, IdInv, PendingInv, Names, Request
<1>11. ASSUME NEW c \in Calls, Timeout(c) PROVE PendingInv'
  BY <1>0, <1>11 DEF Timeout, childVars, TypeOK, IdInv, PendingInv, Names, Request
<1>12. ASSUME NEW k \in Children, SidecarTakesCommand(k)
      PROVE  PendingInv'
  BY <1>0, <1>12
  DEF SidecarTakesCommand, Unblocked, providerVars, TypeOK, IdInv, PendingInv,
      Names, Request
<1>13. ASSUME NEW k \in Children, ReadReply(k) PROVE PendingInv'
  BY <1>0, <1>13 DEF ReadReply, TypeOK, IdInv, PendingInv, Names, Request
<1>14. ASSUME NEW k \in Children, ReaderFails(k) PROVE PendingInv'
  BY <1>0, <1>14
  DEF ReaderFails, RejectPending, RejectedOutcome, PendingCalls, TypeOK, IdInv,
      PendingInv, Names, Request
<1>15. ASSUME NEW k \in Children, SilentStep(k) PROVE PendingInv'
  BY <1>0, <1>15, SilentSteps
  DEF providerVars, callVars, TypeOK, IdInv, PendingInv, Names, Request
<1>16. ASSUME NEW k \in Children, ExitEvent(k) PROVE PendingInv'
  BY <1>0, <1>16
  DEF ExitEvent, RejectPending, RejectedOutcome, PendingCalls, TypeOK, IdInv,
      PendingInv, Names, Request
<1>17. ASSUME NEW k \in Children, Drain(k) PROVE PendingInv'
  BY <1>0, <1>17
  DEF Drain, Unblocked, providerVars, childVars, TypeOK, IdInv, PendingInv,
      Names, Request
<1>18. ASSUME NEW k \in Children, StdinError(k) PROVE PendingInv'
  BY <1>0, <1>18
  DEF StdinError, PendingCalls, TypeOK, IdInv, PendingInv, Names, Request
<1>19. ASSUME NEW k \in Children, ExitHandled(k) PROVE PendingInv'
  BY <1>0, <1>19 DEF ExitHandled, callVars, PendingInv, Names
<1>20. CASE UNCHANGED vars
  BY <1>0, <1>20 DEF vars, TypeOK, IdInv, PendingInv, Names, Request
<1> QED
  BY <1>1, <1>2, <1>3, <1>4, <1>5, <1>6, <1>7, <1>8, <1>9, <1>10, <1>11, <1>12,
     <1>13, <1>14, <1>15, <1>16, <1>17, <1>18, <1>19, <1>20
  DEF Next, CallStep, SidecarStep, ChildEvent, ReaderStep, SilentStep

\* A request that the call of a step opens is written to the process.
LEMMA OpensOnProcess ==
  ASSUME TypeOK, NEW c \in Calls, SendRequest(c, process)
  PROVE  /\ \A p \in pending' : p \in pending \/ p[2] = c
         /\ target'[c] = process
         /\ \A d \in Calls : d # c => target'[d] = target[d] /\ state'[d] = state[d]
         /\ outcome' = outcome
BY DEF TypeOK, SendRequest, FreshId

\* A step that loses the process empties #pending, or ends the exit event in
\* whose handler whatever is pending was requested.
LEMMA LossStep == IInv /\ [Next]_vars => LossRejectsPending'
<1> SUFFICES ASSUME IInv, [Next]_vars PROVE LossRejectsPending'
  OBVIOUS
<1>0. TypeOK /\ PendingInv /\ HandlingInv /\ LossRejectsPending
  BY DEF IInv
<1>1. ASSUME UNCHANGED <<process, target, exitSeen>>, pending' \subseteq pending
      PROVE  LossRejectsPending'
  BY <1>0, <1>1 DEF LossRejectsPending
<1>2. ASSUME pending' = {} PROVE LossRejectsPending'
  BY <1>2 DEF LossRejectsPending
<1>3. ASSUME process' # NoChild PROVE LossRejectsPending'
  BY <1>3 DEF LossRejectsPending
<1>4. ASSUME NEW c \in Calls, CallStep(c) PROVE LossRejectsPending'
  <2>1. CASE ConnectCall(c)
    BY <1>1, <2>1 DEF ConnectCall, providerVars, childVars
  <2>2. ASSUME NEW k \in Children, ConnectSpawn(c, k) PROVE LossRejectsPending'
    BY <1>3, <2>2, ChildAssumption DEF ConnectSpawn
  <2>3. CASE CommandCall(c)
    BY <1>1, <1>3, <2>3 DEF CommandCall, providerVars, childVars
  <2>4. CASE DisconnectCall(c)
    BY <1>1, <1>3, <2>4 DEF DisconnectCall, childVars
  <2>5. CASE CommandResume(c) \/ ConnectSucceeds(c) \/ DisconnectResume(c)
    BY <1>1, <2>5 DEF CommandResume, ConnectSucceeds, DisconnectResume, childVars
  <2>6. CASE ConnectFails(c) \/ DisconnectDone(c)
    BY <1>2, <2>6 DEF ConnectFails, DisconnectDone, Reset, RejectPending
  <2>7. CASE Timeout(c)
    BY <1>1, <2>7 DEF Timeout, childVars
  <2> QED
    BY <1>4, <2>1, <2>2, <2>3, <2>4, <2>5, <2>6, <2>7 DEF CallStep
<1>5. CASE ShutdownForProcessExit
  BY <1>2, <1>5 DEF ShutdownForProcessExit, Reset, RejectPending
<1>6. ASSUME NEW k \in Children, SidecarStep(k) PROVE LossRejectsPending'
  BY <1>1, <1>6
  DEF SidecarStep, SidecarTakesCommand, SidecarReplies, SidecarEmitsEvent,
      SidecarExits, providerVars, callVars
<1>7. ASSUME NEW k \in Children, ReaderStep(k) PROVE LossRejectsPending'
  <2>1. CASE ReadReply(k) \/ ReadEvent(k) \/ ReaderEnds(k)
    BY <1>1, <2>1 DEF ReadReply, ReadEvent, ReaderEnds, providerVars, callVars
  <2>2. CASE ReaderFails(k)
    BY <1>2, <2>2 DEF ReaderFails, RejectPending
  <2> QED
    BY <1>7, <2>1, <2>2 DEF ReaderStep
<1>8. ASSUME NEW k \in Children, ExitEvent(k) PROVE LossRejectsPending'
  <2>1. CASE process = k
    BY <1>2, <1>8, <2>1 DEF ExitEvent, RejectPending
  <2>2. CASE process # k
    BY <1>0, <1>8, <2>2 DEF ExitEvent, TypeOK, LossRejectsPending
  <2> QED
    BY <2>1, <2>2
<1>9. ASSUME NEW k \in Children, ExitHandled(k) PROVE LossRejectsPending'
  <2>1. \A p \in pending : target[p[2]] = k
    BY <1>0, <1>9 DEF ExitHandled, HandlingInv
  <2>2. pending' = pending /\ target' = target /\ exitSeen'[k] = "handled"
    BY <1>0, <1>9 DEF ExitHandled, callVars, TypeOK
  <2> QED
    BY <2>1, <2>2 DEF LossRejectsPending
<1>10. ASSUME NEW k \in Children, Drain(k) \/ StdinError(k) PROVE LossRejectsPending'
  BY <1>1, <1>10 DEF Drain, StdinError, providerVars, childVars
<1>11. CASE UNCHANGED vars
  BY <1>1, <1>11 DEF vars
<1> QED
  BY <1>4, <1>5, <1>6, <1>7, <1>8, <1>9, <1>10, <1>11 DEF Next, ChildEvent

\* While an exit event calls the consumer, calls made meanwhile are the only steps
\* of the program, and they are written to the child that has gone.
LEMMA HandlingStep == IInv /\ [Next]_vars => HandlingInv'
<1> SUFFICES ASSUME IInv, [Next]_vars PROVE HandlingInv'
  OBVIOUS
<1>0. TypeOK /\ PendingInv /\ BlockedInv /\ HandlingInv
  BY DEF IInv
<1>1. ASSUME ~Handling, exitSeen' = exitSeen PROVE HandlingInv'
  BY <1>1 DEF Handling, HandlingInv
<1>2. ASSUME UNCHANGED <<process, target, outcome, pending, exitSeen>>,
             \A c \in Connects : state'[c] = "requesting" => state[c] = "requesting",
             \A k \in Children : alive[k] = "exited" => alive'[k] = "exited"
      PROVE  HandlingInv'
  BY <1>0, <1>2 DEF HandlingInv
<1>3. ASSUME NEW c \in Calls, c \notin Connects, SendRequest(c, process),
             UNCHANGED <<process, exitSeen, alive>>
      PROVE  HandlingInv'
  <2>1. SUFFICES ASSUME NEW k \in Children, exitSeen[k] = "handling"
                 PROVE  /\ process' = k
                        /\ alive'[k] = "exited"
                        /\ \A p \in pending' : target'[p[2]] = k
                        /\ \A d \in Connects : state'[d] = "requesting" => outcome'[d] # "result"
    BY <1>3 DEF HandlingInv
  <2>2. /\ process = k /\ alive[k] = "exited"
        /\ \A p \in pending : target[p[2]] = k /\ p[2] \in Calls
        /\ \A d \in Connects : state[d] = "requesting" => outcome[d] # "result"
    BY <1>0, <2>1 DEF HandlingInv, TypeOK, Request
  <2>3. /\ \A p \in pending' : p \in pending \/ p[2] = c
        /\ target'[c] = process
        /\ \A d \in Calls : d # c => target'[d] = target[d] /\ state'[d] = state[d]
        /\ outcome' = outcome
    BY <1>0, <1>3, OpensOnProcess
  <2> QED
    BY <1>3, <2>2, <2>3 DEF Calls
<1>4. ASSUME NEW c \in Calls, CallStep(c) PROVE HandlingInv'
  <2>1. CASE ConnectCall(c)
    <3>1. UNCHANGED <<process, target, outcome, pending, exitSeen, alive>>
      BY <2>1 DEF ConnectCall, providerVars, childVars
    <3>2. \A d \in Calls : state'[d] = "requesting" => state[d] = "requesting"
      BY <1>0, <2>1 DEF ConnectCall, TypeOK
    <3> QED
      BY <1>2, <3>1, <3>2 DEF Calls
  <2>2. ASSUME NEW k \in Children, ConnectSpawn(c, k) PROVE HandlingInv'
    BY <1>1, <2>2 DEF ConnectSpawn
  <2>3. CASE CommandCall(c) \/ DisconnectCall(c)
    <3>1. CASE process = NoChild
      <4>1. UNCHANGED <<process, target, outcome, pending, exitSeen, alive>>
        BY <2>3, <3>1 DEF CommandCall, DisconnectCall, providerVars, childVars
      <4>2. \A d \in Calls : state'[d] = "requesting" => state[d] = "requesting"
        BY <1>0, <2>3, <3>1 DEF CommandCall, DisconnectCall, TypeOK
      <4> QED
        BY <1>2, <4>1, <4>2 DEF Calls
    <3>2. CASE process # NoChild
      <4>1. SendRequest(c, process) /\ UNCHANGED <<process, exitSeen, alive>>
        BY <2>3, <3>2 DEF CommandCall, DisconnectCall
      <4>2. c \notin Connects
        BY <2>3, CallsAssumption DEF CommandCall, DisconnectCall
      <4> QED
        BY <1>3, <4>1, <4>2
    <3> QED
      BY <3>1, <3>2
  <2>4. CASE CommandResume(c) \/ ConnectSucceeds(c) \/ ConnectFails(c) \/ DisconnectResume(c)
    BY <1>1, <2>4
    DEF CommandResume, ConnectSucceeds, ConnectFails, DisconnectResume, Resumable,
        childVars
  <2>5. CASE DisconnectDone(c) \/ Timeout(c)
    BY <1>1, <2>5 DEF DisconnectDone, Timeout, Quiet, childVars
  <2> QED
    BY <1>4, <2>1, <2>2, <2>3, <2>4, <2>5 DEF CallStep
<1>5. CASE ShutdownForProcessExit
  BY <1>1, <1>5 DEF ShutdownForProcessExit, Quiet
<1>6. ASSUME NEW k \in Children, SidecarStep(k) PROVE HandlingInv'
  <2>1. UNCHANGED <<process, target, outcome, pending, exitSeen, state>>
    BY <1>6
    DEF SidecarStep, SidecarTakesCommand, SidecarReplies, SidecarEmitsEvent,
        SidecarExits, providerVars, callVars
  <2>2. \A j \in Children : alive[j] = "exited" => alive'[j] = "exited"
    BY <1>0, <1>6
    DEF SidecarStep, SidecarTakesCommand, SidecarReplies, SidecarEmitsEvent,
        SidecarExits, TypeOK
  <2> QED
    BY <1>2, <2>1, <2>2
<1>7. ASSUME NEW k \in Children, ReaderStep(k) PROVE HandlingInv'
  BY <1>1, <1>7 DEF ReaderStep, ReadReply, ReadEvent, ReaderFails, ReaderEnds, Quiet
<1>8. ASSUME NEW k \in Children, ExitEvent(k) PROVE HandlingInv'
  <2>1. /\ ~Handling
        /\ \A c \in Connects : state[c] = "requesting" => outcome[c] # "result"
    BY <1>0, <1>8, QuietSettled DEF ExitEvent, Quiet
  <2>2. ASSUME NEW j \in Children, exitSeen'[j] = "handling"
        PROVE  j = k /\ process = k /\ RejectPending /\ UNCHANGED process
    BY <1>0, <1>8, <2>1, <2>2 DEF ExitEvent, TypeOK, Handling
  <2>3. UNCHANGED <<alive, state>> /\ alive[k] = "exited"
    BY <1>8 DEF ExitEvent
  <2>4. ASSUME NEW j \in Children, exitSeen'[j] = "handling"
        PROVE  /\ pending' = {}
               /\ \A c \in Connects : state'[c] = "requesting" => outcome'[c] # "result"
    <3>1. /\ pending' = {}
          /\ \A c \in Calls : outcome'[c] # outcome[c] => outcome'[c] = "error"
      BY <1>0, <2>2, <2>4, RejectingIsLocal
    <3> QED
      BY <2>1, <2>3, <3>1 DEF Calls
  <2> QED
    BY <2>2, <2>3, <2>4 DEF HandlingInv
<1>9. ASSUME NEW k \in Children, ExitHandled(k) PROVE HandlingInv'
  <2>1. process = k /\ \A j \in Children : exitSeen[j] = "handling" => j = k
    BY <1>0, <1>9 DEF ExitHandled, HandlingInv
  <2>2. \A j \in Children : exitSeen'[j] # "handling"
    BY <1>0, <1>9, <2>1 DEF ExitHandled, TypeOK
  <2> QED
    BY <2>2 DEF HandlingInv
<1>10. ASSUME NEW k \in Children, Drain(k) \/ StdinError(k) PROVE HandlingInv'
  BY <1>1, <1>10 DEF Drain, StdinError, Quiet, childVars
<1>11. CASE UNCHANGED vars
  BY <1>2, <1>11 DEF vars
<1> QED
  BY <1>4, <1>5, <1>6, <1>7, <1>8, <1>9, <1>10, <1>11 DEF Next, ChildEvent

\* A step that loses the process turns #isConnected off.
LEMMA HasProcessStep == IInv /\ [Next]_vars => ConnectedHasProcess'
<1> SUFFICES ASSUME IInv, [Next]_vars PROVE ConnectedHasProcess'
  OBVIOUS
<1>0. TypeOK /\ ConnectedHasProcess /\ BlockedInv /\ ConnectInv
  BY DEF IInv
<1>1. ASSUME NEW c \in Calls, ConnectCall(c) PROVE ConnectedHasProcess'
  BY <1>0, <1>1
  DEF ConnectCall, providerVars, childVars, TypeOK, ConnectedHasProcess,
      BlockedInv, ConnectInv
<1>2. ASSUME NEW c \in Calls, NEW k \in Children, ConnectSpawn(c, k)
      PROVE  ConnectedHasProcess'
  BY <1>0, <1>2, ChildAssumption DEF ConnectSpawn, ConnectedHasProcess
<1>3. ASSUME NEW c \in Calls, CommandCall(c) PROVE ConnectedHasProcess'
  BY <1>0, <1>3
  DEF CommandCall, SendRequest, FreshId, providerVars, childVars, TypeOK,
      ConnectedHasProcess, BlockedInv, ConnectInv
<1>4. ASSUME NEW c \in Calls, DisconnectCall(c) PROVE ConnectedHasProcess'
  BY <1>0, <1>4
  DEF DisconnectCall, SendRequest, FreshId, childVars, TypeOK,
      ConnectedHasProcess, BlockedInv, ConnectInv
<1>5. CASE ShutdownForProcessExit
  BY <1>0, <1>5
  DEF ShutdownForProcessExit, Kill, Reset, RejectPending, RejectedOutcome,
      PendingCalls, TypeOK, ConnectedHasProcess, BlockedInv, ConnectInv
<1>6. ASSUME NEW c \in Calls, CommandResume(c) PROVE ConnectedHasProcess'
  BY <1>0, <1>6
  DEF CommandResume, childVars, TypeOK, ConnectedHasProcess, BlockedInv,
      ConnectInv
<1>7. ASSUME NEW c \in Calls, ConnectSucceeds(c) PROVE ConnectedHasProcess'
  BY <1>0, <1>7 DEF ConnectSucceeds, Resumable, Settled, ConnectedHasProcess, ConnectInv
<1>8. ASSUME NEW c \in Calls, ConnectFails(c) PROVE ConnectedHasProcess'
  BY <1>0, <1>8
  DEF ConnectFails, Kill, RejectPending, RejectedOutcome, PendingCalls, TypeOK,
      ConnectedHasProcess, BlockedInv, ConnectInv
<1>9. ASSUME NEW c \in Calls, DisconnectResume(c) PROVE ConnectedHasProcess'
  BY <1>0, <1>9
  DEF DisconnectResume, Kill, TypeOK, ConnectedHasProcess, BlockedInv,
      ConnectInv
<1>10. ASSUME NEW c \in Calls, DisconnectDone(c) PROVE ConnectedHasProcess'
  BY <1>0, <1>10
  DEF DisconnectDone, Reset, RejectPending, RejectedOutcome, PendingCalls,
      childVars, TypeOK, ConnectedHasProcess, BlockedInv, ConnectInv
<1>11. ASSUME NEW c \in Calls, Timeout(c) PROVE ConnectedHasProcess'
  BY <1>0, <1>11
  DEF Timeout, childVars, TypeOK, ConnectedHasProcess, BlockedInv, ConnectInv
<1>12. ASSUME NEW k \in Children, SidecarTakesCommand(k)
      PROVE  ConnectedHasProcess'
  BY <1>0, <1>12
  DEF SidecarTakesCommand, Unblocked, providerVars, TypeOK, ConnectedHasProcess,
      BlockedInv, ConnectInv
<1>13. ASSUME NEW k \in Children, ReadReply(k) PROVE ConnectedHasProcess'
  BY <1>0, <1>13 DEF ReadReply, TypeOK, ConnectedHasProcess, BlockedInv, ConnectInv
<1>14. ASSUME NEW k \in Children, ReaderFails(k) PROVE ConnectedHasProcess'
  BY <1>0, <1>14
  DEF ReaderFails, RejectPending, RejectedOutcome, PendingCalls, TypeOK,
      ConnectedHasProcess, BlockedInv, ConnectInv
<1>15. ASSUME NEW k \in Children, SilentStep(k) PROVE ConnectedHasProcess'
  BY <1>0, <1>15, SilentSteps
  DEF providerVars, callVars, TypeOK, ConnectedHasProcess, BlockedInv,
      ConnectInv
<1>16. ASSUME NEW k \in Children, ExitEvent(k) PROVE ConnectedHasProcess'
  BY <1>0, <1>16
  DEF ExitEvent, RejectPending, RejectedOutcome, PendingCalls, TypeOK,
      ConnectedHasProcess, BlockedInv, ConnectInv
<1>17. ASSUME NEW k \in Children, Drain(k) PROVE ConnectedHasProcess'
  BY <1>0, <1>17
  DEF Drain, Unblocked, providerVars, childVars, TypeOK, ConnectedHasProcess,
      BlockedInv, ConnectInv
<1>18. ASSUME NEW k \in Children, StdinError(k) PROVE ConnectedHasProcess'
  BY <1>0, <1>18
  DEF StdinError, PendingCalls, TypeOK, ConnectedHasProcess, BlockedInv,
      ConnectInv
<1>19. ASSUME NEW k \in Children, ExitHandled(k) PROVE ConnectedHasProcess'
  BY <1>19 DEF ExitHandled, ConnectedHasProcess
<1>20. CASE UNCHANGED vars
  BY <1>0, <1>20 DEF vars, TypeOK, ConnectedHasProcess, BlockedInv, ConnectInv
<1> QED
  BY <1>1, <1>2, <1>3, <1>4, <1>5, <1>6, <1>7, <1>8, <1>9, <1>10, <1>11, <1>12,
     <1>13, <1>14, <1>15, <1>16, <1>17, <1>18, <1>19, <1>20
  DEF Next, CallStep, SidecarStep, ChildEvent, ReaderStep, SilentStep

\* A step that removes an entry of #pending settles its promise.
LEMMA ForgottenStep == IInv /\ [Next]_vars => NobodyForgotten'
<1> SUFFICES ASSUME IInv, [Next]_vars PROVE NobodyForgotten'
  OBVIOUS
<1>0. TypeOK /\ IdInv /\ PendingInv /\ NobodyForgotten
  BY DEF IInv
<1>1. ASSUME NEW c \in Calls, ConnectCall(c) PROVE NobodyForgotten'
  BY <1>0, <1>1
  DEF ConnectCall, providerVars, childVars, TypeOK, IdInv, PendingInv,
      NobodyForgotten, Names, Request, PendingCalls
<1>2. ASSUME NEW c \in Calls, NEW k \in Children, ConnectSpawn(c, k)
      PROVE  NobodyForgotten'
  BY <1>0, <1>2
  DEF ConnectSpawn, SendRequest, FreshId, TypeOK, IdInv, PendingInv,
      NobodyForgotten, Names, Request, PendingCalls
<1>3. ASSUME NEW c \in Calls, CommandCall(c) PROVE NobodyForgotten'
  <2>1. CASE process = NoChild
    BY <1>0, <1>3, <2>1
    DEF CommandCall, providerVars, TypeOK, IdInv, PendingInv, NobodyForgotten,
        Names, Request, PendingCalls
  <2>2. CASE process # NoChild
    <3>1. process \in Children /\ SendRequest(c, process) /\ state[c] = "unused"
      BY <1>0, <1>3, <2>2 DEF CommandCall, TypeOK
    <3> QED
      BY <1>0, <3>1
      DEF SendRequest, FreshId, TypeOK, IdInv, PendingInv, NobodyForgotten,
          Names, Request, PendingCalls
  <2> QED
    BY <2>1, <2>2
<1>4. ASSUME NEW c \in Calls, DisconnectCall(c) PROVE NobodyForgotten'
  <2>1. CASE process = NoChild
    BY <1>0, <1>4, <2>1
    DEF DisconnectCall, TypeOK, IdInv, PendingInv, NobodyForgotten, Names,
        Request, PendingCalls
  <2>2. CASE process # NoChild
    <3>1. process \in Children /\ SendRequest(c, process) /\ state[c] = "unused"
      BY <1>0, <1>4, <2>2 DEF DisconnectCall, TypeOK
    <3> QED
      BY <1>0, <3>1
      DEF SendRequest, FreshId, TypeOK, IdInv, PendingInv, NobodyForgotten,
          Names, Request, PendingCalls
  <2> QED
    BY <2>1, <2>2
<1>5. CASE ShutdownForProcessExit
  <2>1. /\ state' = state /\ id' = id
        /\ \A d \in Calls : state[d] = "requesting" => outcome'[d] # "none"
    BY <1>0, <1>5, RejectingIsLocal DEF ShutdownForProcessExit, Reset
  <2> QED
    BY <2>1 DEF NobodyForgotten
<1>6. ASSUME NEW c \in Calls, CommandResume(c) PROVE NobodyForgotten'
  BY <1>0, <1>6
  DEF CommandResume, childVars, TypeOK, IdInv, PendingInv, NobodyForgotten,
      Names, Request, PendingCalls
<1>7. ASSUME NEW c \in Calls, ConnectSucceeds(c) PROVE NobodyForgotten'
  BY <1>0, <1>7
  DEF ConnectSucceeds, childVars, TypeOK, IdInv, PendingInv, NobodyForgotten,
      Names, Request, PendingCalls
<1>8. ASSUME NEW c \in Calls, ConnectFails(c) PROVE NobodyForgotten'
  <2>1. /\ \A d \in Calls : state'[d] = "requesting" => state[d] = "requesting"
        /\ \A d \in Calls : state[d] = "requesting" => outcome'[d] # "none"
    BY <1>0, <1>8, RejectingIsLocal DEF ConnectFails, Resumable, Settled, TypeOK
  <2> QED
    BY <2>1 DEF NobodyForgotten
<1>9. ASSUME NEW c \in Calls, DisconnectResume(c) PROVE NobodyForgotten'
  BY <1>0, <1>9
  DEF DisconnectResume, Kill, TypeOK, IdInv, PendingInv, NobodyForgotten, Names,
      Request, PendingCalls
<1>10. ASSUME NEW c \in Calls, DisconnectDone(c) PROVE NobodyForgotten'
  <2>1. /\ \A d \in Calls : state'[d] = "requesting" => state[d] = "requesting"
        /\ \A d \in Calls : state[d] = "requesting" => outcome'[d] # "none"
    BY <1>0, <1>10, RejectingIsLocal DEF DisconnectDone, Reset, TypeOK
  <2> QED
    BY <2>1 DEF NobodyForgotten
<1>11. ASSUME NEW c \in Calls, Timeout(c) PROVE NobodyForgotten'
  BY <1>0, <1>11
  DEF Timeout, childVars, TypeOK, IdInv, PendingInv, NobodyForgotten, Names,
      Request, PendingCalls
<1>12. ASSUME NEW k \in Children, SidecarTakesCommand(k)
      PROVE  NobodyForgotten'
  BY <1>0, <1>12
  DEF SidecarTakesCommand, Unblocked, providerVars, TypeOK, IdInv, PendingInv,
      NobodyForgotten, Names, Request, PendingCalls
<1>13. ASSUME NEW k \in Children, ReadReply(k) PROVE NobodyForgotten'
  BY <1>0, <1>13
  DEF ReadReply, TypeOK, IdInv, PendingInv, NobodyForgotten, Names, Request,
      PendingCalls
<1>14. ASSUME NEW k \in Children, ReaderFails(k) PROVE NobodyForgotten'
  <2>1. /\ state' = state /\ id' = id
        /\ \A d \in Calls : state[d] = "requesting" => outcome'[d] # "none"
    BY <1>0, <1>14, RejectingIsLocal DEF ReaderFails
  <2> QED
    BY <2>1 DEF NobodyForgotten
<1>15. ASSUME NEW k \in Children, SilentStep(k) PROVE NobodyForgotten'
  BY <1>0, <1>15, SilentSteps
  DEF providerVars, callVars, TypeOK, IdInv, PendingInv, NobodyForgotten, Names,
      Request, PendingCalls
<1>16. ASSUME NEW k \in Children, ExitEvent(k) PROVE NobodyForgotten'
  <2>1. CASE process = k
    <3>1. /\ state' = state
          /\ \A c \in Calls : state[c] = "requesting" => outcome'[c] # "none"
      BY <1>0, <1>16, <2>1, RejectingIsLocal DEF ExitEvent
    <3> QED
      BY <3>1 DEF NobodyForgotten
  <2>2. CASE process # k
    BY <1>0, <1>16, <2>2 DEF ExitEvent, NobodyForgotten
  <2> QED
    BY <2>1, <2>2
<1>17. ASSUME NEW k \in Children, Drain(k) PROVE NobodyForgotten'
  BY <1>0, <1>17
  DEF Drain, Unblocked, providerVars, childVars, TypeOK, IdInv, PendingInv,
      NobodyForgotten, Names, Request, PendingCalls
<1>18. ASSUME NEW k \in Children, StdinError(k) PROVE NobodyForgotten'
  BY <1>0, <1>18
  DEF StdinError, PendingCalls, TypeOK, IdInv, PendingInv, NobodyForgotten,
      Names, Request
<1>19. ASSUME NEW k \in Children, ExitHandled(k) PROVE NobodyForgotten'
  BY <1>0, <1>19 DEF ExitHandled, callVars, NobodyForgotten
<1>20. CASE UNCHANGED vars
  BY <1>0, <1>20
  DEF vars, TypeOK, IdInv, PendingInv, NobodyForgotten, Names, Request,
      PendingCalls
<1> QED
  BY <1>1, <1>2, <1>3, <1>4, <1>5, <1>6, <1>7, <1>8, <1>9, <1>10, <1>11, <1>12,
     <1>13, <1>14, <1>15, <1>16, <1>17, <1>18, <1>19, <1>20
  DEF Next, CallStep, SidecarStep, ChildEvent, ReaderStep, SilentStep

\* Only the answer to a call's own request settles it with a result.
LEMMA ResultStep == IInv /\ [Next]_vars => ResultIsOwn'
<1> SUFFICES ASSUME IInv, [Next]_vars PROVE ResultIsOwn'
  OBVIOUS
<1>0. TypeOK /\ IdInv /\ PendingInv /\ LineInv /\ ResultIsOwn
  BY DEF IInv
<1>1. ASSUME NEW c \in Calls, ConnectCall(c) PROVE ResultIsOwn'
  BY <1>0, <1>1 DEF ConnectCall, providerVars, childVars, TypeOK, ResultIsOwn
<1>2. ASSUME NEW c \in Calls, NEW k \in Children, ConnectSpawn(c, k)
      PROVE  ResultIsOwn'
  BY <1>0, <1>2 DEF ConnectSpawn, SendRequest, FreshId, TypeOK, ResultIsOwn
<1>3. ASSUME NEW c \in Calls, CommandCall(c) PROVE ResultIsOwn'
  BY <1>0, <1>3
  DEF CommandCall, SendRequest, FreshId, providerVars, childVars, TypeOK,
      ResultIsOwn
<1>4. ASSUME NEW c \in Calls, DisconnectCall(c) PROVE ResultIsOwn'
  BY <1>0, <1>4
  DEF DisconnectCall, SendRequest, FreshId, childVars, TypeOK, ResultIsOwn
<1>5. CASE ShutdownForProcessExit
  BY <1>0, <1>5
  DEF ShutdownForProcessExit, Kill, Reset, RejectPending, RejectedOutcome,
      PendingCalls, TypeOK, ResultIsOwn
<1>6. ASSUME NEW c \in Calls, CommandResume(c) PROVE ResultIsOwn'
  BY <1>0, <1>6 DEF CommandResume, childVars, TypeOK, ResultIsOwn
<1>7. ASSUME NEW c \in Calls, ConnectSucceeds(c) PROVE ResultIsOwn'
  BY <1>0, <1>7 DEF ConnectSucceeds, childVars, TypeOK, ResultIsOwn
<1>8. ASSUME NEW c \in Calls, ConnectFails(c) PROVE ResultIsOwn'
  BY <1>0, <1>8
  DEF ConnectFails, Kill, RejectPending, RejectedOutcome, PendingCalls, TypeOK,
      ResultIsOwn
<1>9. ASSUME NEW c \in Calls, DisconnectResume(c) PROVE ResultIsOwn'
  BY <1>0, <1>9 DEF DisconnectResume, Kill, TypeOK, ResultIsOwn
<1>10. ASSUME NEW c \in Calls, DisconnectDone(c) PROVE ResultIsOwn'
  BY <1>0, <1>10
  DEF DisconnectDone, Reset, RejectPending, RejectedOutcome, PendingCalls,
      childVars, TypeOK, ResultIsOwn
<1>11. ASSUME NEW c \in Calls, Timeout(c) PROVE ResultIsOwn'
  BY <1>0, <1>11 DEF Timeout, childVars, TypeOK, ResultIsOwn
<1>12. ASSUME NEW k \in Children, SidecarTakesCommand(k)
      PROVE  ResultIsOwn'
  BY <1>0, <1>12
  DEF SidecarTakesCommand, Unblocked, providerVars, TypeOK, ResultIsOwn
<1>13. ASSUME NEW k \in Children, SidecarReplies(k) PROVE ResultIsOwn'
  BY <1>0, <1>13
  DEF SidecarReplies, Emit, providerVars, callVars, TypeOK, ResultIsOwn
<1>14. ASSUME NEW k \in Children, SidecarEmitsEvent(k) PROVE ResultIsOwn'
  BY <1>0, <1>14
  DEF SidecarEmitsEvent, Emit, providerVars, callVars, TypeOK, ResultIsOwn
<1>15. ASSUME NEW k \in Children, SidecarExits(k) PROVE ResultIsOwn'
  BY <1>0, <1>15 DEF SidecarExits, providerVars, callVars, TypeOK, ResultIsOwn
<1>16. ASSUME NEW k \in Children, ReadReply(k) PROVE ResultIsOwn'
  <2> DEFINE line == Head(stdout[k])
  <2>1. line = stdout[k][1] /\ 1 \in 1..Len(stdout[k]) /\ line \in Line
    BY <1>0, <1>16 DEF ReadReply, TypeOK
  <2>2. Names(line.id, line.call) /\ (line.ok => line.call \in answered) /\ line.call \in Calls
    BY <1>0, <1>16, <2>1 DEF ReadReply, LineInv, Line, Reply, Event
  <2>3. \A d \in Calls : <<line.id, d>> \in pending => d = line.call
    BY <1>0, <2>2 DEF PendingInv, IdInv, Names
  <2>4. \A d \in Calls : outcome'[d] = "result" =>
           outcome[d] = "result" \/ (d = line.call /\ line.ok)
    BY <1>0, <1>16, <2>3 DEF ReadReply, TypeOK
  <2> QED
    BY <1>0, <1>16, <2>2, <2>4 DEF ReadReply, ResultIsOwn
<1>17. ASSUME NEW k \in Children, ReadEvent(k) PROVE ResultIsOwn'
  BY <1>0, <1>17 DEF ReadEvent, providerVars, callVars, TypeOK, ResultIsOwn
<1>18. ASSUME NEW k \in Children, ReaderFails(k) PROVE ResultIsOwn'
  BY <1>0, <1>18
  DEF ReaderFails, RejectPending, RejectedOutcome, PendingCalls, TypeOK,
      ResultIsOwn
<1>19. ASSUME NEW k \in Children, ReaderEnds(k) PROVE ResultIsOwn'
  BY <1>0, <1>19 DEF ReaderEnds, providerVars, callVars, TypeOK, ResultIsOwn
<1>20. ASSUME NEW k \in Children, ExitEvent(k) PROVE ResultIsOwn'
  <2>1. /\ answered' = answered
        /\ outcome' = outcome \/ RejectPending
    BY <1>20 DEF ExitEvent
  <2>2. ASSUME NEW c \in Calls, outcome'[c] = "result"
        PROVE  outcome[c] = "result"
    <3>1. CASE RejectPending
      <4>1. outcome'[c] = IF c \in PendingCalls THEN "error" ELSE outcome[c]
        BY <3>1 DEF RejectPending, RejectedOutcome
      <4> QED
        BY <2>2, <4>1
    <3> QED
      BY <2>1, <2>2, <3>1
  <2> QED
    BY <1>0, <2>1, <2>2 DEF ResultIsOwn
<1>21. ASSUME NEW k \in Children, Drain(k) PROVE ResultIsOwn'
  BY <1>0, <1>21 DEF Drain, Unblocked, providerVars, childVars, TypeOK, ResultIsOwn
<1>22. ASSUME NEW k \in Children, StdinError(k) PROVE ResultIsOwn'
  BY <1>0, <1>22 DEF StdinError, PendingCalls, TypeOK, ResultIsOwn
<1>23. ASSUME NEW k \in Children, ExitHandled(k) PROVE ResultIsOwn'
  BY <1>0, <1>23 DEF ExitHandled, callVars, ResultIsOwn
<1>24. CASE UNCHANGED vars
  BY <1>0, <1>24 DEF vars, TypeOK, ResultIsOwn
<1> QED
  BY <1>1, <1>2, <1>3, <1>4, <1>5, <1>6, <1>7, <1>8, <1>9, <1>10, <1>11, <1>12,
     <1>13, <1>14, <1>15, <1>16, <1>17, <1>18, <1>19, <1>20, <1>21, <1>22, <1>23, <1>24
  DEF Next, CallStep, SidecarStep, ChildEvent, ReaderStep

\* No connect's write waits for "drain".
LEMMA BlockedStep == IInv /\ [Next]_vars => BlockedInv'
<1> SUFFICES ASSUME IInv, [Next]_vars PROVE BlockedInv'
  OBVIOUS
<1>0. TypeOK /\ BlockedInv
  BY DEF IInv
<1>1. ASSUME NEW c \in Calls, ConnectCall(c) PROVE BlockedInv'
  BY <1>0, <1>1 DEF ConnectCall, providerVars, childVars, TypeOK, BlockedInv
<1>2. ASSUME NEW c \in Calls, NEW k \in Children, ConnectSpawn(c, k)
      PROVE  BlockedInv'
  BY <1>0, <1>2 DEF ConnectSpawn, SendRequest, Blocks, TypeOK, BlockedInv
<1>3. ASSUME NEW c \in Calls, CommandCall(c) PROVE BlockedInv'
  <2>1. CASE process = NoChild
    BY <1>0, <1>3, <2>1 DEF CommandCall, providerVars, TypeOK, BlockedInv
  <2>2. CASE process # NoChild
    <3>1. process \in Children /\ SendRequest(c, process) /\ state[c] = "unused"
      BY <1>0, <1>3, <2>2 DEF CommandCall, TypeOK
    <3> QED
      BY <1>0, <3>1 DEF SendRequest, Blocks, TypeOK, BlockedInv
  <2> QED
    BY <2>1, <2>2
<1>4. ASSUME NEW c \in Calls, DisconnectCall(c) PROVE BlockedInv'
  <2>1. CASE process = NoChild
    BY <1>0, <1>4, <2>1 DEF DisconnectCall, TypeOK, BlockedInv
  <2>2. CASE process # NoChild
    <3>1. process \in Children /\ SendRequest(c, process) /\ state[c] = "unused"
      BY <1>0, <1>4, <2>2 DEF DisconnectCall, TypeOK
    <3> QED
      BY <1>0, <3>1 DEF SendRequest, Blocks, TypeOK, BlockedInv
  <2> QED
    BY <2>1, <2>2
<1>5. CASE ShutdownForProcessExit
  BY <1>0, <1>5
  DEF ShutdownForProcessExit, Kill, Reset, RejectPending, RejectedOutcome,
      PendingCalls, TypeOK, BlockedInv
<1>6. ASSUME NEW c \in Calls, CommandResume(c) PROVE BlockedInv'
  BY <1>0, <1>6 DEF CommandResume, childVars, TypeOK, BlockedInv
<1>7. ASSUME NEW c \in Calls, ConnectSucceeds(c) PROVE BlockedInv'
  BY <1>0, <1>7 DEF ConnectSucceeds, childVars, TypeOK, BlockedInv
<1>8. ASSUME NEW c \in Calls, ConnectFails(c) PROVE BlockedInv'
  BY <1>0, <1>8
  DEF ConnectFails, Kill, RejectPending, RejectedOutcome, PendingCalls, TypeOK,
      BlockedInv
<1>9. ASSUME NEW c \in Calls, DisconnectResume(c) PROVE BlockedInv'
  BY <1>0, <1>9 DEF DisconnectResume, Kill, TypeOK, BlockedInv
<1>10. ASSUME NEW c \in Calls, DisconnectDone(c) PROVE BlockedInv'
  BY <1>0, <1>10
  DEF DisconnectDone, Reset, RejectPending, RejectedOutcome, PendingCalls,
      childVars, TypeOK, BlockedInv
<1>11. ASSUME NEW c \in Calls, Timeout(c) PROVE BlockedInv'
  BY <1>0, <1>11 DEF Timeout, childVars, TypeOK, BlockedInv
<1>12. ASSUME NEW k \in Children, SidecarTakesCommand(k)
      PROVE  BlockedInv'
  BY <1>0, <1>12
  DEF SidecarTakesCommand, Unblocked, providerVars, TypeOK, BlockedInv
<1>13. ASSUME NEW k \in Children, ReadReply(k) PROVE BlockedInv'
  BY <1>0, <1>13 DEF ReadReply, TypeOK, BlockedInv
<1>14. ASSUME NEW k \in Children, ReaderFails(k) PROVE BlockedInv'
  BY <1>0, <1>14
  DEF ReaderFails, RejectPending, RejectedOutcome, PendingCalls, TypeOK,
      BlockedInv
<1>15. ASSUME NEW k \in Children, SilentStep(k) PROVE BlockedInv'
  BY <1>0, <1>15, SilentSteps DEF providerVars, callVars, TypeOK, BlockedInv
<1>16. ASSUME NEW k \in Children, ExitEvent(k) PROVE BlockedInv'
  BY <1>0, <1>16
  DEF ExitEvent, RejectPending, RejectedOutcome, PendingCalls, TypeOK,
      BlockedInv
<1>17. ASSUME NEW k \in Children, Drain(k) PROVE BlockedInv'
  BY <1>0, <1>17 DEF Drain, Unblocked, providerVars, childVars, TypeOK, BlockedInv
<1>18. ASSUME NEW k \in Children, StdinError(k) PROVE BlockedInv'
  BY <1>0, <1>18 DEF StdinError, PendingCalls, TypeOK, BlockedInv
<1>19. ASSUME NEW k \in Children, ExitHandled(k) PROVE BlockedInv'
  BY <1>0, <1>19 DEF ExitHandled, callVars, BlockedInv
<1>20. CASE UNCHANGED vars
  BY <1>0, <1>20 DEF vars, TypeOK, BlockedInv
<1> QED
  BY <1>1, <1>2, <1>3, <1>4, <1>5, <1>6, <1>7, <1>8, <1>9, <1>10, <1>11, <1>12,
     <1>13, <1>14, <1>15, <1>16, <1>17, <1>18, <1>19, <1>20
  DEF Next, CallStep, SidecarStep, ChildEvent, ReaderStep, SilentStep

\* Between the answer to a connect request and its continuation nothing fails.
LEMMA ConnectStep == IInv /\ [Next]_vars => ConnectInv'
<1> SUFFICES ASSUME IInv, [Next]_vars PROVE ConnectInv'
  OBVIOUS
<1>0. TypeOK /\ IdInv /\ PendingInv /\ BlockedInv /\ ConnectInv /\ HandlingInv
  BY DEF IInv
<1>1. ASSUME NEW c \in Calls, ConnectCall(c) PROVE ConnectInv'
  BY <1>0, <1>1
  DEF ConnectCall, providerVars, childVars, TypeOK, IdInv, ConnectInv, Calls
<1>2. ASSUME NEW c \in Calls, NEW k \in Children, ConnectSpawn(c, k)
      PROVE  ConnectInv'
  <2>1. SendRequest(c, k) /\ state[c] = "starting" /\ process' = k
    BY <1>2 DEF ConnectSpawn
  <2>2. outcome' = outcome /\ outcome[c] = "none" /\ \A d \in Calls : d # c => state'[d] = state[d]
    BY <1>0, <2>1 DEF SendRequest, TypeOK, IdInv
  <2> QED
    BY <1>0, <2>1, <2>2, ChildAssumption DEF ConnectInv, Calls
<1>3. ASSUME NEW c \in Calls, CommandCall(c) PROVE ConnectInv'
  <2>1. CASE process = NoChild
    <3>1. process' = process /\ outcome' = outcome /\ \A d \in Calls : state'[d] = "requesting" => state[d] = "requesting"
      BY <1>0, <1>3, <2>1 DEF CommandCall, providerVars, TypeOK
    <3> QED
      BY <1>0, <3>1 DEF ConnectInv, Calls
  <2>2. CASE process # NoChild
    <3>1. process \in Children /\ SendRequest(c, process) /\ state[c] = "unused" /\ process' = process
      BY <1>0, <1>3, <2>2 DEF CommandCall, TypeOK
    <3>2. outcome' = outcome /\ outcome[c] = "none" /\ \A d \in Calls : d # c => state'[d] = state[d]
      BY <1>0, <3>1 DEF SendRequest, TypeOK, IdInv
    <3> QED
      BY <1>0, <3>1, <3>2, ChildAssumption DEF ConnectInv, Calls
  <2> QED
    BY <2>1, <2>2
<1>4. ASSUME NEW c \in Calls, DisconnectCall(c) PROVE ConnectInv'
  <2>1. CASE process = NoChild
    <3>1. process' = process /\ outcome' = outcome /\ \A d \in Calls : state'[d] = "requesting" => state[d] = "requesting"
      BY <1>0, <1>4, <2>1 DEF DisconnectCall, TypeOK
    <3> QED
      BY <1>0, <3>1 DEF ConnectInv, Calls
  <2>2. CASE process # NoChild
    <3>1. process \in Children /\ SendRequest(c, process) /\ state[c] = "unused" /\ process' = process
      BY <1>0, <1>4, <2>2 DEF DisconnectCall, TypeOK
    <3>2. outcome' = outcome /\ outcome[c] = "none" /\ \A d \in Calls : d # c => state'[d] = state[d]
      BY <1>0, <3>1 DEF SendRequest, TypeOK, IdInv
    <3> QED
      BY <1>0, <3>1, <3>2, ChildAssumption DEF ConnectInv, Calls
  <2> QED
    BY <2>1, <2>2
<1>5. CASE ShutdownForProcessExit
  <2>1. \A d \in Connects : state[d] = "requesting" => outcome[d] # "result"
    BY <1>0, <1>5, QuietSettled DEF ShutdownForProcessExit, Reset
  <2>2. \A d \in Calls : /\ outcome'[d] = "result" => outcome[d] = "result"
                         /\ state'[d] = "requesting" => state[d] = "requesting"
    BY <1>0, <1>5, RejectingIsLocal DEF ShutdownForProcessExit, Reset, TypeOK
  <2> QED
    BY <2>1, <2>2 DEF ConnectInv, Calls
<1>6. ASSUME NEW c \in Calls, CommandResume(c) PROVE ConnectInv'
  BY <1>0, <1>6 DEF CommandResume, childVars, TypeOK, IdInv, ConnectInv, Calls
<1>7. ASSUME NEW c \in Calls, ConnectSucceeds(c) PROVE ConnectInv'
  BY <1>0, <1>7 DEF ConnectSucceeds, childVars, TypeOK, IdInv, ConnectInv, Calls
<1>8. ASSUME NEW c \in Calls, ConnectFails(c) PROVE ConnectInv'
  <2>1. \A d \in Connects : state[d] = "requesting" => outcome[d] # "result"
    BY <1>0, <1>8 DEF ConnectFails, Resumable, Settled, ConnectInv
  <2>2. \A d \in Calls : /\ outcome'[d] = "result" => outcome[d] = "result"
                         /\ state'[d] = "requesting" => state[d] = "requesting"
    BY <1>0, <1>8, RejectingIsLocal DEF ConnectFails, TypeOK
  <2> QED
    BY <2>1, <2>2 DEF ConnectInv, Calls
<1>9. ASSUME NEW c \in Calls, DisconnectResume(c) PROVE ConnectInv'
  BY <1>0, <1>9 DEF DisconnectResume, Kill, TypeOK, IdInv, ConnectInv, Calls
<1>10. ASSUME NEW c \in Calls, DisconnectDone(c) PROVE ConnectInv'
  <2>1. \A d \in Connects : state[d] = "requesting" => outcome[d] # "result"
    BY <1>0, <1>10, QuietSettled DEF DisconnectDone, Reset
  <2>2. \A d \in Calls : /\ outcome'[d] = "result" => outcome[d] = "result"
                         /\ state'[d] = "requesting" => state[d] = "requesting"
    BY <1>0, <1>10, RejectingIsLocal DEF DisconnectDone, Reset, TypeOK
  <2> QED
    BY <2>1, <2>2 DEF ConnectInv, Calls
<1>11. ASSUME NEW c \in Calls, Timeout(c) PROVE ConnectInv'
  <2>1. \A d \in Connects : state[d] = "requesting" => outcome[d] # "result"
    BY <1>0, <1>11, QuietSettled DEF Timeout
  <2>2. \A d \in Calls : /\ outcome'[d] = "result" => outcome[d] = "result"
                         /\ state'[d] = "requesting" => state[d] = "requesting"
    BY <1>0, <1>11, RejectingIsLocal DEF Timeout, TypeOK
  <2> QED
    BY <2>1, <2>2 DEF ConnectInv, Calls
<1>12. ASSUME NEW k \in Children, SidecarTakesCommand(k)
      PROVE  ConnectInv'
  BY <1>0, <1>12
  DEF SidecarTakesCommand, Unblocked, providerVars, TypeOK, IdInv, ConnectInv,
      Calls
<1>13. ASSUME NEW k \in Children, ReadReply(k) PROVE ConnectInv'
  <2>1. /\ \A d \in Calls : state[d] = "requesting" => outcome[d] # "error"
        /\ \A d \in Connects : state[d] = "requesting" => outcome[d] # "result"
    BY <1>0, <1>13, QuietSettled DEF ReadReply
  <2>2. state' = state /\ process' # NoChild
    BY <1>13, ChildAssumption DEF ReadReply
  <2>3. CASE Head(stdout[k]).ok
    <3>1. \A d \in Calls : outcome'[d] = outcome[d] \/ outcome'[d] = "result"
      BY <1>0, <1>13, <2>3 DEF ReadReply, TypeOK
    <3> QED
      BY <2>1, <2>2, <3>1 DEF ConnectInv
  <2>4. CASE ~Head(stdout[k]).ok
    <3>1. \A d \in Calls : outcome'[d] = outcome[d] \/ outcome'[d] = "error"
      BY <1>0, <1>13, <2>4 DEF ReadReply, TypeOK
    <3> QED
      BY <2>1, <2>2, <3>1 DEF ConnectInv, Calls
  <2> QED
    BY <2>3, <2>4
<1>14. ASSUME NEW k \in Children, ReaderFails(k) PROVE ConnectInv'
  <2>1. \A d \in Connects : state[d] = "requesting" => outcome[d] # "result"
    BY <1>0, <1>14, QuietSettled DEF ReaderFails
  <2>2. \A d \in Calls : /\ outcome'[d] = "result" => outcome[d] = "result"
                         /\ state'[d] = "requesting" => state[d] = "requesting"
    BY <1>0, <1>14, RejectingIsLocal DEF ReaderFails, TypeOK
  <2> QED
    BY <2>1, <2>2 DEF ConnectInv, Calls
<1>15. ASSUME NEW k \in Children, SilentStep(k) PROVE ConnectInv'
  BY <1>0, <1>15, SilentSteps
  DEF providerVars, callVars, TypeOK, IdInv, ConnectInv, Calls
<1>16. ASSUME NEW k \in Children, ExitEvent(k) PROVE ConnectInv'
  <2>1. \A d \in Connects : state[d] = "requesting" => outcome[d] # "result"
    BY <1>0, <1>16, QuietSettled DEF ExitEvent
  <2>2. \A d \in Calls : /\ outcome'[d] = "result" => outcome[d] = "result"
                         /\ state'[d] = "requesting" => state[d] = "requesting"
    BY <1>0, <1>16, RejectingIsLocal DEF ExitEvent, TypeOK
  <2> QED
    BY <2>1, <2>2 DEF ConnectInv, Calls
<1>17. ASSUME NEW k \in Children, Drain(k) PROVE ConnectInv'
  BY <1>0, <1>17
  DEF Drain, Unblocked, providerVars, childVars, TypeOK, IdInv, ConnectInv,
      Calls
<1>18. ASSUME NEW k \in Children, StdinError(k) PROVE ConnectInv'
  <2>1. \A d \in Connects : state[d] = "requesting" => outcome[d] # "result"
    BY <1>0, <1>18, QuietSettled DEF StdinError
  <2>2. \A d \in Calls : /\ outcome'[d] = "result" => outcome[d] = "result"
                         /\ state'[d] = "requesting" => state[d] = "requesting"
    BY <1>0, <1>18, RejectingIsLocal DEF StdinError, TypeOK
  <2> QED
    BY <2>1, <2>2 DEF ConnectInv, Calls
<1>19. ASSUME NEW k \in Children, ExitHandled(k) PROVE ConnectInv'
  BY <1>0, <1>19 DEF ExitHandled, callVars, HandlingInv, ConnectInv, Calls
<1>20. CASE UNCHANGED vars
  BY <1>0, <1>20 DEF vars, TypeOK, IdInv, ConnectInv, Calls
<1> QED
  BY <1>1, <1>2, <1>3, <1>4, <1>5, <1>6, <1>7, <1>8, <1>9, <1>10, <1>11, <1>12,
     <1>13, <1>14, <1>15, <1>16, <1>17, <1>18, <1>19, <1>20
  DEF Next, CallStep, SidecarStep, ChildEvent, ReaderStep, SilentStep

\* A new request line carries its own call's id, and no other line changes.
LEMMA RequestNames ==
  ASSUME TypeOK, IdInv, LineInv, NEW c \in Calls, NEW k \in Children,
         state[c] \in {"unused", "starting"}, SendRequest(c, k),
         UNCHANGED <<tasks, stdout, answered>>
  PROVE  LineInv'
<1>1. id[c] = 0 /\ id'[c] = nextId /\ nextId # 0
  BY DEF TypeOK, IdInv, SendRequest, FreshId
<1>2. \A i, d : Names(i, d) /\ d \in Calls => i # 0 /\ id'[d] = i
  BY <1>1 DEF TypeOK, Names, SendRequest, FreshId
<1>3. ASSUME NEW j \in Children, NEW n \in 1..Len(stdin'[j])
      PROVE  stdin'[j][n][1] # 0 /\ id'[stdin'[j][n][2]] = stdin'[j][n][1]
  <2>1. CASE n \in 1..Len(stdin[j])
    <3>1. stdin'[j][n] = stdin[j][n] /\ stdin[j][n] \in Request
      BY <2>1 DEF TypeOK, SendRequest
    <3>2. Names(stdin[j][n][1], stdin[j][n][2]) /\ stdin[j][n][2] \in Calls
      BY <2>1, <3>1 DEF LineInv, Request
    <3> QED
      BY <1>2, <3>1, <3>2
  <2>2. CASE n \notin 1..Len(stdin[j])
    <3>1. j = k /\ stdin'[k] = Append(stdin[k], <<nextId, c>>) /\ stdin[k] \in Seq(Request)
      BY <1>3, <2>2 DEF TypeOK, SendRequest, FreshId
    <3>2. <<nextId, c>> \in Request
      BY DEF TypeOK, Request
    <3>3. stdin'[j][n] = <<nextId, c>>
      BY <1>3, <2>2, <3>1, <3>2
    <3> QED
      BY <1>1, <3>3
  <2> QED
    BY <2>1, <2>2
<1>4. ASSUME NEW j \in Children, NEW t \in tasks'[j]
      PROVE  t[1] # 0 /\ id'[t[2]] = t[1]
  BY <1>2 DEF TypeOK, LineInv, Request
<1>5. ASSUME NEW j \in Children, NEW n \in 1..Len(stdout'[j]), stdout'[j][n].kind = "reply"
      PROVE  /\ stdout'[j][n].id # 0 /\ id'[stdout'[j][n].call] = stdout'[j][n].id
             /\ stdout'[j][n].ok => stdout'[j][n].call \in answered'
  <2>1. stdout' = stdout /\ stdout[j][n] \in Line
    BY DEF TypeOK
  <2>2. stdout[j][n].call \in Calls
    BY <1>5, <2>1 DEF Line, Reply, Event
  <2> QED
    BY <1>2, <1>5, <2>1, <2>2 DEF LineInv
<1> QED
  BY <1>3, <1>4, <1>5 DEF LineInv, Names

\* Lines, tasks and replies keep naming their calls by those calls' own ids.
LEMMA LineStep == IInv /\ [Next]_vars => LineInv'
<1> SUFFICES ASSUME IInv, [Next]_vars PROVE LineInv'
  OBVIOUS
<1>0. TypeOK /\ IdInv /\ LineInv
  BY DEF IInv
<1>1. ASSUME NEW c \in Calls, ConnectCall(c) PROVE LineInv'
  BY <1>0, <1>1
  DEF ConnectCall, providerVars, childVars, TypeOK, IdInv, LineInv, Names
<1>2. ASSUME NEW c \in Calls, NEW k \in Children, ConnectSpawn(c, k)
      PROVE  LineInv'
  <2>1. /\ SendRequest(c, k) /\ state[c] = "starting"
        /\ UNCHANGED <<tasks, stdout, answered>>
    BY <1>2 DEF ConnectSpawn
  <2> QED
    BY <1>0, <2>1, RequestNames
<1>3. ASSUME NEW c \in Calls, CommandCall(c) PROVE LineInv'
  <2>1. CASE process = NoChild
    <3>1. UNCHANGED <<id, stdin, tasks, stdout, answered>>
      BY <1>3, <2>1 DEF CommandCall, childVars
    <3> QED
      BY <1>0, <3>1 DEF LineInv, Names
  <2>2. CASE process # NoChild
    <3>1. /\ process \in Children /\ SendRequest(c, process) /\ state[c] = "unused"
          /\ UNCHANGED <<tasks, stdout, answered>>
      BY <1>0, <1>3, <2>2 DEF CommandCall, TypeOK
    <3> QED
      BY <1>0, <3>1, RequestNames
  <2> QED
    BY <2>1, <2>2
<1>4. ASSUME NEW c \in Calls, DisconnectCall(c) PROVE LineInv'
  <2>1. CASE process = NoChild
    <3>1. UNCHANGED <<id, stdin, tasks, stdout, answered>>
      BY <1>4, <2>1 DEF DisconnectCall, childVars
    <3> QED
      BY <1>0, <3>1 DEF LineInv, Names
  <2>2. CASE process # NoChild
    <3>1. /\ process \in Children /\ SendRequest(c, process) /\ state[c] = "unused"
          /\ UNCHANGED <<tasks, stdout, answered>>
      BY <1>0, <1>4, <2>2 DEF DisconnectCall, TypeOK
    <3> QED
      BY <1>0, <3>1, RequestNames
  <2> QED
    BY <2>1, <2>2
<1>5. CASE ShutdownForProcessExit
  BY <1>0, <1>5
  DEF ShutdownForProcessExit, Kill, Reset, RejectPending, RejectedOutcome,
      PendingCalls, TypeOK, IdInv, LineInv, Names
<1>6. ASSUME NEW c \in Calls, CommandResume(c) PROVE LineInv'
  BY <1>0, <1>6 DEF CommandResume, childVars, TypeOK, IdInv, LineInv, Names
<1>7. ASSUME NEW c \in Calls, ConnectSucceeds(c) PROVE LineInv'
  BY <1>0, <1>7 DEF ConnectSucceeds, childVars, TypeOK, IdInv, LineInv, Names
<1>8. ASSUME NEW c \in Calls, ConnectFails(c) PROVE LineInv'
  BY <1>0, <1>8
  DEF ConnectFails, Kill, RejectPending, RejectedOutcome, PendingCalls, TypeOK,
      IdInv, LineInv, Names
<1>9. ASSUME NEW c \in Calls, DisconnectResume(c) PROVE LineInv'
  BY <1>0, <1>9 DEF DisconnectResume, Kill, TypeOK, IdInv, LineInv, Names
<1>10. ASSUME NEW c \in Calls, DisconnectDone(c) PROVE LineInv'
  <2>1. UNCHANGED <<id, stdin, tasks, stdout, answered>>
    BY <1>10 DEF DisconnectDone, childVars
  <2> QED
    BY <1>0, <2>1 DEF LineInv, Names
<1>11. ASSUME NEW c \in Calls, Timeout(c) PROVE LineInv'
  BY <1>0, <1>11 DEF Timeout, childVars, TypeOK, IdInv, LineInv, Names
<1>12. ASSUME NEW k \in Children, SidecarTakesCommand(k)
      PROVE  LineInv'
  <2>1. /\ stdin[k] # <<>>
        /\ stdin' = [stdin EXCEPT ![k] = Tail(stdin[k])]
        /\ tasks' = [tasks EXCEPT ![k] = tasks[k] \cup {Head(stdin[k])}]
        /\ UNCHANGED <<id, stdout, answered>>
    BY <1>12 DEF SidecarTakesCommand
  <2>2. stdin[k] \in Seq(Request)
    BY <1>0 DEF TypeOK
  <2>3. /\ \A n \in 1..Len(Tail(stdin[k])) : n + 1 \in 1..Len(stdin[k])
                                             /\ Tail(stdin[k])[n] = stdin[k][n + 1]
        /\ Head(stdin[k]) = stdin[k][1] /\ 1 \in 1..Len(stdin[k])
    BY <2>1, <2>2
  <2>4. SUFFICES ASSUME NEW j \in Children
                 PROVE  /\ \A n \in 1..Len(stdin'[j]) : Names(stdin[j][n][1], stdin[j][n][2])'
                        /\ \A t \in tasks'[j] : Names(t[1], t[2])'
                        /\ \A n \in 1..Len(stdout'[j]) :
                             stdout'[j][n].kind = "reply" =>
                               /\ Names(stdout[j][n].id, stdout[j][n].call)'
                               /\ stdout'[j][n].ok => stdout'[j][n].call \in answered'
    BY DEF LineInv
  <2>5. \A i, c : Names(i, c) => Names(i, c)'
    BY <2>1 DEF Names
  <2>6. \A n \in 1..Len(stdin'[j]) : Names(stdin[j][n][1], stdin[j][n][2])'
    BY <1>0, <2>1, <2>3, <2>5 DEF LineInv, TypeOK
  <2>7. \A t \in tasks'[j] : Names(t[1], t[2])'
    BY <1>0, <2>1, <2>3, <2>5 DEF LineInv, TypeOK
  <2> QED
    BY <1>0, <2>1, <2>5, <2>6, <2>7 DEF LineInv
<1>13. ASSUME NEW k \in Children, SidecarReplies(k) PROVE LineInv'
  BY <1>0, <1>13
  DEF SidecarReplies, Emit, providerVars, callVars, TypeOK, IdInv, LineInv,
      Names
<1>14. ASSUME NEW k \in Children, SidecarEmitsEvent(k) PROVE LineInv'
  <2>1. /\ stdout' = [stdout EXCEPT ![k] = Append(stdout[k], [kind |-> "event"])]
        /\ UNCHANGED <<id, stdin, tasks, answered>>
    BY <1>14 DEF SidecarEmitsEvent, Emit, callVars
  <2>2. stdout[k] \in Seq(Line)
    BY <1>0 DEF TypeOK
  <2>3. ASSUME NEW j \in Children, NEW n \in 1..Len(stdout'[j]), stdout'[j][n].kind = "reply"
        PROVE  n \in 1..Len(stdout[j]) /\ stdout'[j][n] = stdout[j][n]
    <3>1. CASE j = k
      <4>1. stdout'[k] = Append(stdout[k], [kind |-> "event"])
        BY <1>0, <2>1 DEF TypeOK
      <4> QED
        BY <2>2, <2>3, <3>1, <4>1
    <3>2. CASE j # k
      BY <1>0, <2>1, <2>3, <3>2 DEF TypeOK
    <3> QED
      BY <3>1, <3>2
  <2> QED
    BY <1>0, <2>1, <2>3 DEF LineInv, Names
<1>15. ASSUME NEW k \in Children, SidecarExits(k) PROVE LineInv'
  BY <1>0, <1>15
  DEF SidecarExits, providerVars, callVars, TypeOK, IdInv, LineInv, Names
<1>16. ASSUME NEW k \in Children, ReadReply(k) PROVE LineInv'
  BY <1>0, <1>16 DEF ReadReply, TypeOK, IdInv, LineInv, Names
<1>17. ASSUME NEW k \in Children, ReadEvent(k) PROVE LineInv'
  BY <1>0, <1>17
  DEF ReadEvent, providerVars, callVars, TypeOK, IdInv, LineInv, Names
<1>18. ASSUME NEW k \in Children, ReaderFails(k) PROVE LineInv'
  BY <1>0, <1>18
  DEF ReaderFails, RejectPending, RejectedOutcome, PendingCalls, TypeOK, IdInv,
      LineInv, Names
<1>19. ASSUME NEW k \in Children, ReaderEnds(k) PROVE LineInv'
  BY <1>0, <1>19
  DEF ReaderEnds, providerVars, callVars, TypeOK, IdInv, LineInv, Names
<1>20. ASSUME NEW k \in Children, ExitEvent(k) PROVE LineInv'
  <2>1. UNCHANGED <<id, stdin, tasks, stdout, answered>>
    BY <1>20 DEF ExitEvent
  <2> QED
    BY <1>0, <2>1 DEF LineInv, Names
<1>21. ASSUME NEW k \in Children, Drain(k) PROVE LineInv'
  BY <1>0, <1>21
  DEF Drain, Unblocked, providerVars, childVars, TypeOK, IdInv, LineInv, Names
<1>22. ASSUME NEW k \in Children, StdinError(k) PROVE LineInv'
  BY <1>0, <1>22 DEF StdinError, PendingCalls, TypeOK, IdInv, LineInv, Names
<1>23. ASSUME NEW k \in Children, ExitHandled(k) PROVE LineInv'
  BY <1>0, <1>23 DEF ExitHandled, callVars, LineInv, Names
<1>24. CASE UNCHANGED vars
  BY <1>0, <1>24 DEF vars, TypeOK, IdInv, LineInv, Names
<1> QED
  BY <1>1, <1>2, <1>3, <1>4, <1>5, <1>6, <1>7, <1>8, <1>9, <1>10, <1>11, <1>12,
     <1>13, <1>14, <1>15, <1>16, <1>17, <1>18, <1>19, <1>20, <1>21, <1>22, <1>23, <1>24
  DEF Next, CallStep, SidecarStep, ChildEvent, ReaderStep

-----------------------------------------------------------------------------
(* The safety theorems.                                                     *)

\* The strengthening holds initially.
LEMMA InitIInv == Init => IInv
<1> SUFFICES ASSUME Init PROVE IInv
  OBVIOUS
<1>1. TypeOK
  BY InitTypeOK
<1>2. IdInv /\ PendingInv /\ ResultIsOwn /\ NobodyForgotten /\ LossRejectsPending
  BY
  DEF Init, IdInv, PendingInv, ResultIsOwn, NobodyForgotten,
      LossRejectsPending
<1>3. LineInv
  BY DEF Init, LineInv
<1>4. BlockedInv /\ ConnectInv /\ HandlingInv /\ ConnectedHasProcess
  BY DEF Init, BlockedInv, ConnectInv, HandlingInv, ConnectedHasProcess, Calls
<1> QED
  BY <1>1, <1>2, <1>3, <1>4 DEF IInv

\* The strengthening is inductive.
LEMMA StepIInv == IInv /\ [Next]_vars => IInv'
<1> SUFFICES ASSUME IInv, [Next]_vars PROVE IInv'
  OBVIOUS
<1>1. TypeOK'
  BY TypeStep DEF IInv
<1> QED
  BY <1>1, IdStep, PendingStep, LineStep, ResultStep, ForgottenStep,
     LossStep, BlockedStep, ConnectStep, HandlingStep, HasProcessStep
  DEF IInv

\* The strengthening is invariant.
THEOREM Inductive == Spec => []IInv
BY InitIInv, StepIInv, PTL DEF Spec

\* However requests, replies, timeouts, exits and restarts interleave, a call
\* that gets a result got the answer to its own request.
THEOREM ResultsAreOwn == Spec => []ResultIsOwn
<1>1. IInv => ResultIsOwn
  BY DEF IInv
<1> QED
  BY <1>1, Inductive, PTL

\* No request is lost from #pending while its promise is unsettled.
THEOREM RequestsStaySettleable == Spec => []NobodyForgotten
<1>1. IInv => NobodyForgotten
  BY DEF IInv
<1> QED
  BY <1>1, Inductive, PTL

\* A lost process leaves nothing pending but what its exit event's error handler
\* requested after everything was rejected.
THEOREM LosingProcessRejects == Spec => []LossRejectsPending
<1>1. IInv => LossRejectsPending
  BY DEF IInv
<1> QED
  BY <1>1, Inductive, PTL

\* #isConnected implies a process, with lifecycle calls overlapping at will.
THEOREM ConnectedImpliesProcess == Spec => []ConnectedHasProcess
<1>1. IInv => ConnectedHasProcess
  BY DEF IInv
<1> QED
  BY <1>1, Inductive, PTL

-----------------------------------------------------------------------------
(* Refinement: the provider and its sidecars implement RequestPort.         *)

\* Initially every call of the port is idle.
LEMMA PortInit == Init => Port!Init
BY DEF Init, Port!Init, portStatus

\* A step that opens no request, resumes none and answers none is invisible: it
\* may change the outcome of an open request only.
LEMMA Invisible ==
  ASSUME TypeOK, UNCHANGED <<id, answered>>,
         \A c \in Calls : state[c] = "requesting" <=> state'[c] = "requesting",
         \A c \in Calls : state[c] # "requesting" => outcome'[c] = outcome[c] \/ id[c] = 0
  PROVE  UNCHANGED Port!portVars
BY DEF TypeOK, Port!portVars, portStatus

\* A new request opens its call.
LEMMA OpensCall ==
  ASSUME TypeOK, IdInv, NEW c \in Calls, NEW k \in Children, SendRequest(c, k),
         state[c] \in {"unused", "starting"}, answered' = answered
  PROVE  Port!Open(c)
<1>1. id[c] = 0 /\ id' = [id EXCEPT ![c] = nextId] /\ nextId # 0
  BY DEF TypeOK, IdInv, SendRequest, FreshId
<1>2. state' = [state EXCEPT ![c] = "requesting"] /\ outcome' = outcome
  BY DEF SendRequest
<1> QED
  BY <1>1, <1>2 DEF TypeOK, Port!Open, portStatus

\* The continuation of a settled request closes its call.
LEMMA ClosesCall ==
  ASSUME TypeOK, IdInv, ResultIsOwn, NEW c \in Calls, Resumable(c),
         UNCHANGED <<id, answered>>,
         \A d \in Calls : outcome'[d] = outcome[d] \/ (state[d] = "requesting" /\ d # c),
         \E s \in {"draining", "returned", "threw"} : state' = [state EXCEPT ![c] = s]
  PROVE  Port!Return(c) \/ Port!Fail(c)
<1>1. id[c] # 0 /\ portStatus[c] = "open"
  BY DEF IdInv, Resumable, Settled, portStatus
<1>2. \A d \in Calls : d # c => portStatus'[d] = portStatus[d]
  BY DEF TypeOK, portStatus
<1>3. portStatus'[c] = outcome[c]
  BY <1>1 DEF TypeOK, Resumable, Settled, portStatus
<1>4. /\ portStatus = [d \in Calls |-> portStatus[d]]
      /\ portStatus' = [d \in Calls |-> portStatus'[d]]
  BY DEF portStatus
<1>5. portStatus' = [portStatus EXCEPT ![c] = outcome[c]]
  BY <1>2, <1>3, <1>4
<1>6. CASE outcome[c] = "result"
  BY <1>1, <1>5, <1>6 DEF Port!Return, ResultIsOwn
<1>7. CASE outcome[c] = "error"
  BY <1>1, <1>5, <1>7 DEF Port!Fail
<1> QED
  BY <1>6, <1>7 DEF Resumable, Settled

\* Every step is a step of the port or invisible to it.
LEMMA PortStep == IInv /\ [Next]_vars => [Port!Next]_(Port!portVars)
<1> SUFFICES ASSUME IInv, [Next]_vars PROVE Port!Next \/ UNCHANGED Port!portVars
  OBVIOUS
<1>0. TypeOK /\ IdInv /\ PendingInv /\ LineInv /\ ResultIsOwn
  BY DEF IInv
<1>1. ASSUME NEW c \in Calls, ConnectCall(c)
      PROVE  Port!Next \/ UNCHANGED Port!portVars
  <2>1. /\ UNCHANGED <<id, answered>>
        /\ \A d \in Calls : state[d] = "requesting" <=> state'[d] = "requesting"
        /\ \A d \in Calls : state[d] # "requesting" => outcome'[d] = outcome[d]
    BY <1>0, <1>1 DEF ConnectCall, TypeOK, childVars
  <2> QED
    BY <1>0, <2>1, Invisible
<1>2. ASSUME NEW c \in Calls, NEW k \in Children, ConnectSpawn(c, k)
      PROVE  Port!Next \/ UNCHANGED Port!portVars
  <2>1. SendRequest(c, k) /\ state[c] = "starting" /\ answered' = answered
    BY <1>2 DEF ConnectSpawn
  <2> QED
    BY <1>0, <2>1, OpensCall DEF Port!Next
<1>3. ASSUME NEW c \in Calls, CommandCall(c)
      PROVE  Port!Next \/ UNCHANGED Port!portVars
  <2>1. CASE process = NoChild
    <3>1. /\ UNCHANGED <<id, answered, outcome>>
          /\ \A d \in Calls : state[d] = "requesting" <=> state'[d] = "requesting"
      BY <1>0, <1>3, <2>1 DEF CommandCall, TypeOK, childVars
    <3> QED
      BY <1>0, <3>1, Invisible
  <2>2. CASE process # NoChild
    <3>1. process \in Children /\ SendRequest(c, process) /\ state[c] = "unused" /\ answered' = answered
      BY <1>0, <1>3, <2>2 DEF CommandCall, TypeOK
    <3> QED
      BY <1>0, <3>1, OpensCall DEF Port!Next
  <2> QED
    BY <2>1, <2>2
<1>4. ASSUME NEW c \in Calls, DisconnectCall(c)
      PROVE  Port!Next \/ UNCHANGED Port!portVars
  <2>1. CASE process = NoChild
    <3>1. /\ UNCHANGED <<id, answered, outcome>>
          /\ \A d \in Calls : state[d] = "requesting" <=> state'[d] = "requesting"
      BY <1>0, <1>4, <2>1 DEF DisconnectCall, TypeOK, childVars
    <3> QED
      BY <1>0, <3>1, Invisible
  <2>2. CASE process # NoChild
    <3>1. process \in Children /\ SendRequest(c, process) /\ state[c] = "unused" /\ answered' = answered
      BY <1>0, <1>4, <2>2 DEF DisconnectCall, TypeOK
    <3> QED
      BY <1>0, <3>1, OpensCall DEF Port!Next
  <2> QED
    BY <2>1, <2>2
<1>5. CASE ShutdownForProcessExit
  <2>1. /\ UNCHANGED <<id, answered>>
        /\ \A d \in Calls : state[d] = "requesting" <=> state'[d] = "requesting"
        /\ \A d \in Calls : state[d] # "requesting" => outcome'[d] = outcome[d]
    BY <1>0, <1>5, RejectingIsLocal DEF ShutdownForProcessExit, Reset
  <2> QED
    BY <1>0, <2>1, Invisible
<1>6. ASSUME NEW c \in Calls, CommandResume(c)
      PROVE  Port!Next \/ UNCHANGED Port!portVars
  <2>1. /\ Resumable(c) /\ UNCHANGED <<id, answered, outcome>>
        /\ \E s \in {"draining", "returned", "threw"} : state' = [state EXCEPT ![c] = s]
    BY <1>6 DEF CommandResume, childVars
  <2> QED
    BY <1>0, <2>1, ClosesCall DEF Port!Next
<1>7. ASSUME NEW c \in Calls, ConnectSucceeds(c)
      PROVE  Port!Next \/ UNCHANGED Port!portVars
  <2>1. /\ Resumable(c) /\ UNCHANGED <<id, answered, outcome>>
        /\ \E s \in {"draining", "returned", "threw"} : state' = [state EXCEPT ![c] = s]
    BY <1>7 DEF ConnectSucceeds, childVars
  <2> QED
    BY <1>0, <2>1, ClosesCall DEF Port!Next
<1>8. ASSUME NEW c \in Calls, ConnectFails(c)
      PROVE  Port!Next \/ UNCHANGED Port!portVars
  <2>1. /\ Resumable(c) /\ UNCHANGED <<id, answered>> /\ outcome[c] = "error"
        /\ \E s \in {"draining", "returned", "threw"} : state' = [state EXCEPT ![c] = s]
    BY <1>8 DEF ConnectFails
  <2>2. \A d \in Calls : outcome'[d] = outcome[d] \/ (state[d] = "requesting" /\ d # c)
    BY <1>0, <1>8, <2>1, RejectingIsLocal DEF ConnectFails
  <2> QED
    BY <1>0, <2>1, <2>2, ClosesCall DEF Port!Next
<1>9. ASSUME NEW c \in Calls, DisconnectResume(c)
      PROVE  Port!Next \/ UNCHANGED Port!portVars
  <2>1. /\ Resumable(c) /\ UNCHANGED <<id, answered, outcome>>
        /\ \E s \in {"draining", "returned", "threw"} : state' = [state EXCEPT ![c] = s]
    BY <1>9 DEF DisconnectResume
  <2> QED
    BY <1>0, <2>1, ClosesCall DEF Port!Next
<1>10. ASSUME NEW c \in Calls, DisconnectDone(c)
      PROVE  Port!Next \/ UNCHANGED Port!portVars
  <2>1. /\ UNCHANGED <<id, answered>>
        /\ \A d \in Calls : state[d] = "requesting" <=> state'[d] = "requesting"
        /\ \A d \in Calls : state[d] # "requesting" => outcome'[d] = outcome[d]
    BY <1>0, <1>10, RejectingIsLocal DEF DisconnectDone, Reset, TypeOK, childVars
  <2> QED
    BY <1>0, <2>1, Invisible
<1>11. ASSUME NEW c \in Calls, Timeout(c)
      PROVE  Port!Next \/ UNCHANGED Port!portVars
  <2>1. /\ UNCHANGED <<id, answered>>
        /\ \A d \in Calls : state[d] = "requesting" <=> state'[d] = "requesting"
        /\ \A d \in Calls : state[d] # "requesting" => outcome'[d] = outcome[d]
    BY <1>0, <1>11 DEF Timeout, TypeOK, childVars
  <2> QED
    BY <1>0, <2>1, Invisible
<1>12. ASSUME NEW k \in Children, SidecarTakesCommand(k)
      PROVE  Port!Next \/ UNCHANGED Port!portVars
  <2>1. /\ UNCHANGED <<id, answered>>
        /\ \A d \in Calls : state[d] = "requesting" <=> state'[d] = "requesting"
        /\ \A d \in Calls : state[d] # "requesting" => outcome'[d] = outcome[d]
    BY <1>0, <1>12 DEF SidecarTakesCommand
  <2> QED
    BY <1>0, <2>1, Invisible
<1>13. ASSUME NEW k \in Children, SidecarReplies(k)
      PROVE  Port!Next \/ UNCHANGED Port!portVars
  <2>1. PICK t \in tasks[k], ok \in BOOLEAN :
          answered' = IF ok THEN answered \cup {t[2]} ELSE answered
    BY <1>13 DEF SidecarReplies
  <2>2. t[2] \in Calls /\ id[t[2]] # 0
    BY <1>0, <2>1 DEF TypeOK, LineInv, Names, Request
  <2>3. portStatus' = portStatus /\ portStatus[t[2]] # "idle"
    <3>1. UNCHANGED <<id, state, outcome>>
      BY <1>13 DEF SidecarReplies, callVars
    <3>2. outcome[t[2]] # "idle"
      BY <1>0, <2>2 DEF TypeOK
    <3> QED
      BY <2>2, <3>1, <3>2 DEF portStatus
  <2>4. CASE ok
    BY <2>1, <2>2, <2>3, <2>4 DEF Port!Next, Port!Serve
  <2>5. CASE ~ok
    BY <2>1, <2>3, <2>5 DEF Port!portVars
  <2> QED
    BY <2>4, <2>5
<1>14. ASSUME NEW k \in Children, SidecarEmitsEvent(k)
      PROVE  Port!Next \/ UNCHANGED Port!portVars
  <2>1. /\ UNCHANGED <<id, answered>>
        /\ \A d \in Calls : state[d] = "requesting" <=> state'[d] = "requesting"
        /\ \A d \in Calls : state[d] # "requesting" => outcome'[d] = outcome[d]
    BY <1>0, <1>14 DEF SidecarEmitsEvent, callVars
  <2> QED
    BY <1>0, <2>1, Invisible
<1>15. ASSUME NEW k \in Children, SidecarExits(k)
      PROVE  Port!Next \/ UNCHANGED Port!portVars
  <2>1. /\ UNCHANGED <<id, answered>>
        /\ \A d \in Calls : state[d] = "requesting" <=> state'[d] = "requesting"
        /\ \A d \in Calls : state[d] # "requesting" => outcome'[d] = outcome[d]
    BY <1>0, <1>15 DEF SidecarExits, callVars
  <2> QED
    BY <1>0, <2>1, Invisible
<1>16. ASSUME NEW k \in Children, ReadReply(k)
      PROVE  Port!Next \/ UNCHANGED Port!portVars
  <2>1. /\ UNCHANGED <<id, answered>>
        /\ \A d \in Calls : state[d] = "requesting" <=> state'[d] = "requesting"
        /\ \A d \in Calls : state[d] # "requesting" => outcome'[d] = outcome[d]
    BY <1>0, <1>16 DEF ReadReply, TypeOK, PendingInv
  <2> QED
    BY <1>0, <2>1, Invisible
<1>17. ASSUME NEW k \in Children, ReadEvent(k)
      PROVE  Port!Next \/ UNCHANGED Port!portVars
  <2>1. /\ UNCHANGED <<id, answered>>
        /\ \A d \in Calls : state[d] = "requesting" <=> state'[d] = "requesting"
        /\ \A d \in Calls : state[d] # "requesting" => outcome'[d] = outcome[d]
    BY <1>0, <1>17 DEF ReadEvent, callVars
  <2> QED
    BY <1>0, <2>1, Invisible
<1>18. ASSUME NEW k \in Children, ReaderFails(k)
      PROVE  Port!Next \/ UNCHANGED Port!portVars
  <2>1. /\ UNCHANGED <<id, answered>>
        /\ \A d \in Calls : state[d] = "requesting" <=> state'[d] = "requesting"
        /\ \A d \in Calls : state[d] # "requesting" => outcome'[d] = outcome[d]
    BY <1>0, <1>18, RejectingIsLocal DEF ReaderFails
  <2> QED
    BY <1>0, <2>1, Invisible
<1>19. ASSUME NEW k \in Children, ReaderEnds(k)
      PROVE  Port!Next \/ UNCHANGED Port!portVars
  <2>1. /\ UNCHANGED <<id, answered>>
        /\ \A d \in Calls : state[d] = "requesting" <=> state'[d] = "requesting"
        /\ \A d \in Calls : state[d] # "requesting" => outcome'[d] = outcome[d]
    BY <1>0, <1>19 DEF ReaderEnds, callVars
  <2> QED
    BY <1>0, <2>1, Invisible
<1>20. ASSUME NEW k \in Children, ExitEvent(k)
      PROVE  Port!Next \/ UNCHANGED Port!portVars
  <2>1. /\ UNCHANGED <<id, answered>>
        /\ \A d \in Calls : state[d] = "requesting" <=> state'[d] = "requesting"
        /\ \A d \in Calls : state[d] # "requesting" => outcome'[d] = outcome[d]
    BY <1>0, <1>20, RejectingIsLocal DEF ExitEvent
  <2> QED
    BY <1>0, <2>1, Invisible
<1>21. ASSUME NEW k \in Children, Drain(k)
      PROVE  Port!Next \/ UNCHANGED Port!portVars
  <2>1. /\ UNCHANGED <<id, answered>>
        /\ \A d \in Calls : state[d] = "requesting" <=> state'[d] = "requesting"
        /\ \A d \in Calls : state[d] # "requesting" => outcome'[d] = outcome[d]
    BY <1>0, <1>21 DEF Drain, childVars
  <2> QED
    BY <1>0, <2>1, Invisible
<1>22. ASSUME NEW k \in Children, StdinError(k)
      PROVE  Port!Next \/ UNCHANGED Port!portVars
  <2>1. /\ UNCHANGED <<id, answered>>
        /\ \A d \in Calls : state[d] = "requesting" <=> state'[d] = "requesting"
        /\ \A d \in Calls : state[d] # "requesting" => outcome'[d] = outcome[d]
    BY <1>0, <1>22 DEF StdinError, TypeOK, PendingInv, PendingCalls
  <2> QED
    BY <1>0, <2>1, Invisible
<1>23. ASSUME NEW k \in Children, ExitHandled(k)
      PROVE  Port!Next \/ UNCHANGED Port!portVars
  BY <1>23 DEF ExitHandled, callVars, Port!portVars, portStatus
<1>24. CASE UNCHANGED vars
  BY <1>24 DEF vars, Port!portVars, portStatus
<1> QED
  BY <1>1, <1>2, <1>3, <1>4, <1>5, <1>6, <1>7, <1>8, <1>9, <1>10, <1>11, <1>12,
     <1>13, <1>14, <1>15, <1>16, <1>17, <1>18, <1>19, <1>20, <1>21, <1>22, <1>23,
     <1>24
  DEF Next, CallStep, SidecarStep, ChildEvent, ReaderStep

\* Every behaviour of the bridge is, seen from its callers, a behaviour of a port
\* that serves and closes calls one at a time: each closes once, and with a
\* result only if it was served.
THEOREM BridgeImplementsPort == Spec => ImplementsPort
BY PortInit, PortStep, Inductive, PTL DEF Spec, ImplementsPort, Port!Spec

-----------------------------------------------------------------------------
(* Calls awaited one at a time: connects and disconnects that do not overlap. *)

\* Steps that leave the lifecycle calls where they are and the process as it is.
LEMMA CalmStep ==
  ASSUME IInv, LifecycleInv, UNCHANGED <<process, isConnected, target, killed>>,
         \A c \in Calls : state'[c] = state[c] \/ (c \in Commands /\ state'[c] # "draining"),
         \A c \in Calls : state[c] = "returned" => outcome'[c] = outcome[c],
         \A k \in Children : alive'[k] = "running" => alive[k] = "running",
         \A k \in Children :
           reader'[k] \in {reader[k], "failed"} \/ process # k \/ alive'[k] # "running"
  PROVE  LifecycleInv'
<1>1. \A c \in Calls : InLifecycle(c)' => InLifecycle(c) /\ state'[c] = state[c]
  BY DEF InLifecycle
<1>2. \A c \in Calls : InLifecycle(c) => InLifecycle(c)' /\ state'[c] = state[c]
  BY DEF InLifecycle
<1>3. \A c \in Connects : c \in Calls /\ c \notin Commands /\ state'[c] = state[c]
  BY CallsAssumption DEF Calls
<1>4. process \in Children \cup {NoChild}
  BY DEF IInv, TypeOK
<1>5. AloneInv'
  BY <1>1 DEF LifecycleInv, AloneInv
<1>6. OfflineInv'
  BY <1>1 DEF LifecycleInv, OfflineInv
<1>7. OfflineProcessInv'
  BY <1>2, <1>4 DEF LifecycleInv, OfflineProcessInv
<1>8. TargetInv'
  BY <1>3 DEF LifecycleInv, TargetInv
<1>9. HandshakeInv'
  BY <1>3 DEF LifecycleInv, HandshakeInv
<1>10. ReaderInv'
  BY DEF LifecycleInv, ReaderInv
<1>11. NoOrphan'
  BY DEF LifecycleInv, NoOrphan
<1> QED
  BY <1>5, <1>6, <1>7, <1>8, <1>9, <1>10, <1>11 DEF LifecycleInv

\* rejectPending() and the settling of a request leave calls that returned alone.
LEMMA ReturnedKeep ==
  ASSUME IInv, NEW c \in Calls, state[c] = "returned"
  PROVE  c \notin PendingCalls /\ \A i : <<i, c>> \notin pending
<1>1. \A i : <<i, c>> \notin pending
  BY DEF IInv, PendingInv
<1>2. c \notin PendingCalls
  BY DEF IInv, PendingInv, PendingCalls
<1> QED
  BY <1>1, <1>2

\* The steps of a command, of timers, of the sidecars and of their pipes.
LEMMA CalmSteps ==
  ASSUME IInv, LifecycleInv,
         \/ \E c \in Calls : CommandCall(c) \/ CommandResume(c) \/ Timeout(c)
         \/ \E k \in Children : SidecarStep(k) \/ ReaderStep(k) \/ Drain(k) \/ StdinError(k)
         \/ UNCHANGED vars
  PROVE  LifecycleInv'
<1> USE DEF providerVars, callVars, childVars
<1>1. ASSUME NEW c \in Calls, CommandResume(c)
      PROVE  LifecycleInv'
  <2>1. UNCHANGED <<process, isConnected, target, killed, outcome, alive, reader>> /\ c \in Commands
    BY <1>1 DEF CommandResume
  <2>2. \A d \in Calls : state'[d] = state[d] \/ (d = c /\ state'[d] # "draining")
    BY <1>1 DEF CommandResume, IInv, TypeOK
  <2> QED
    BY <2>1, <2>2, CalmStep
<1>2. ASSUME NEW c \in Calls, Timeout(c)
      PROVE  LifecycleInv'
  <2>1. UNCHANGED <<process, isConnected, target, killed, state, alive, reader>>
    BY <1>2 DEF Timeout
  <2>2. \A d \in Calls : state[d] = "returned" => outcome'[d] = outcome[d]
    BY <1>2 DEF Timeout, IInv, TypeOK
  <2> QED
    BY <2>1, <2>2, CalmStep
<1>3. ASSUME NEW k \in Children, SidecarStep(k)
      PROVE  LifecycleInv'
  <2>1. UNCHANGED <<process, isConnected, target, killed, state, outcome, reader>>
    BY <1>3 DEF SidecarStep, SidecarTakesCommand, SidecarReplies, SidecarEmitsEvent, SidecarExits
  <2>2. \A j \in Children : alive'[j] = "running" => alive[j] = "running"
    BY <1>3 DEF SidecarStep, SidecarTakesCommand, SidecarReplies, SidecarEmitsEvent, SidecarExits,
                IInv, TypeOK
  <2> QED
    BY <2>1, <2>2, CalmStep
<1>4. ASSUME NEW k \in Children, ReaderStep(k)
      PROVE  LifecycleInv'
  <2>1. UNCHANGED <<process, isConnected, target, killed, state, alive>>
    BY <1>4 DEF ReaderStep, ReadReply, ReadEvent, ReaderFails, ReaderEnds
  <2>2. \A j \in Children : reader'[j] \in {reader[j], "failed"} \/ process # j \/ alive'[j] # "running"
    BY <1>4 DEF ReaderStep, ReadReply, ReadEvent, ReaderFails, ReaderEnds, IInv, TypeOK
  <2>3. \A d \in Calls : state[d] = "returned" => outcome'[d] = outcome[d]
    <3>1. CASE ReadReply(k)
      BY <3>1, ReturnedKeep DEF ReadReply
    <3>2. CASE ReaderFails(k)
      BY <3>2, ReturnedKeep DEF ReaderFails, RejectPending, RejectedOutcome
    <3>3. CASE ReadEvent(k) \/ ReaderEnds(k)
      BY <3>3 DEF ReadEvent, ReaderEnds
    <3> QED
      BY <1>4, <3>1, <3>2, <3>3 DEF ReaderStep
  <2> QED
    BY <2>1, <2>2, <2>3, CalmStep
<1>5. ASSUME NEW k \in Children, Drain(k)
      PROVE  LifecycleInv'
  BY <1>5, CalmStep DEF Drain
<1>6. ASSUME NEW k \in Children, StdinError(k)
      PROVE  LifecycleInv'
  <2>1. UNCHANGED <<process, isConnected, target, killed, state, alive, reader>>
    BY <1>6 DEF StdinError
  <2>2. \A d \in Calls : state[d] = "returned" => outcome'[d] = outcome[d]
    BY <1>6, ReturnedKeep DEF StdinError
  <2> QED
    BY <2>1, <2>2, CalmStep
<1>7. ASSUME NEW c \in Calls, CommandCall(c)
      PROVE  LifecycleInv'
  <2>1. CASE process = NoChild
    <3>1. UNCHANGED <<process, isConnected, target, killed, outcome, alive, reader>> /\ c \in Commands
      BY <1>7, <2>1 DEF CommandCall
    <3>2. \A d \in Calls : state'[d] = state[d] \/ (d = c /\ state'[d] # "draining")
      BY <1>7, <2>1 DEF CommandCall, IInv, TypeOK
    <3> QED
      BY <3>1, <3>2, CalmStep
  <2>2. CASE process # NoChild
    <3>1. /\ UNCHANGED <<process, isConnected, killed, outcome, alive, reader>> /\ c \in Commands
          /\ state' = [state EXCEPT ![c] = "requesting"]
          /\ target' = [target EXCEPT ![c] = process]
      BY <1>7, <2>2 DEF CommandCall, SendRequest
    <3>2. \A d \in Calls : d # c => state'[d] = state[d] /\ target'[d] = target[d]
      BY <3>1 DEF IInv, TypeOK
    <3>3. state'[c] = "requesting" /\ process \in Children /\ c \notin Connects
      BY <2>2, <3>1, CallsAssumption DEF IInv, TypeOK
    <3>4. \A d \in Calls : InLifecycle(d)' <=> InLifecycle(d)
      BY <3>1, <3>2 DEF InLifecycle
    <3>5. Connects \subseteq Calls
      BY DEF Calls
    <3>6. AloneInv' /\ OfflineInv'
      BY <3>1, <3>2, <3>3, <3>4 DEF LifecycleInv, AloneInv, OfflineInv
    <3>7. OfflineProcessInv'
      <4>1. \A d \in Calls : InLifecycle(d) => d # c
        BY <3>1 DEF InLifecycle
      <4> QED
        BY <3>1, <3>2, <3>4, <4>1 DEF LifecycleInv, OfflineProcessInv
    <3>8. TargetInv' /\ HandshakeInv'
      BY <3>1, <3>2, <3>3, <3>5 DEF LifecycleInv, TargetInv, HandshakeInv
    <3>9. ReaderInv' /\ NoOrphan'
      BY <3>1 DEF LifecycleInv, ReaderInv, NoOrphan
    <3> QED
      BY <3>6, <3>7, <3>8, <3>9 DEF LifecycleInv
  <2> QED
    BY <2>1, <2>2
<1>8. CASE UNCHANGED vars
  BY <1>8, CalmStep DEF vars
<1> QED
  BY <1>1, <1>2, <1>3, <1>4, <1>5, <1>6, <1>7, <1>8

\* A call begins when no other is under way, and is then the only one.
LEMMA ConnectBegins ==
  ASSUME IInv, SerialLifecycle, LifecycleInv, NEW c \in Calls, ConnectCall(c)
  PROVE  LifecycleInv'
<1> USE DEF providerVars, childVars
<1>1. /\ UNCHANGED <<process, isConnected, target, killed, outcome, alive, reader>>
      /\ state[c] = "unused" /\ c \in Connects
      /\ \A d \in Calls : ~InLifecycle(d)
  BY DEF ConnectCall, MayBeginLifecycle
<1>2. \A d \in Calls : state'[d] = IF d = c THEN IF isConnected THEN "returned" ELSE "starting" ELSE state[d]
  BY DEF ConnectCall, IInv, TypeOK
<1>3. \A d \in Calls : InLifecycle(d)' => d = c /\ ~isConnected
  BY <1>1, <1>2 DEF InLifecycle
<1>4. Connects \subseteq Calls
  BY DEF Calls
<1>5. AloneInv' /\ OfflineInv'
  BY <1>1, <1>2, <1>3 DEF LifecycleInv, AloneInv, OfflineInv
<1>6. OfflineProcessInv'
  BY <1>1 DEF LifecycleInv, OfflineProcessInv
<1>7. TargetInv' /\ HandshakeInv'
  BY <1>1, <1>2, <1>4 DEF LifecycleInv, TargetInv, HandshakeInv
<1>8. ReaderInv' /\ NoOrphan'
  BY <1>1 DEF LifecycleInv, ReaderInv, NoOrphan
<1> QED
  BY <1>5, <1>6, <1>7, <1>8 DEF LifecycleInv

\* The child that is replaced has been told to end: the provider was offline.
LEMMA ConnectSpawns ==
  ASSUME IInv, SerialLifecycle, LifecycleInv, NEW c \in Calls, NEW k \in Children, ConnectSpawn(c, k)
  PROVE  LifecycleInv'
<1>1. /\ UNCHANGED <<isConnected, killed, outcome>> /\ process' = k
      /\ c \in Connects /\ state[c] = "starting"
      /\ alive' = [alive EXCEPT ![k] = "running"] /\ reader' = [reader EXCEPT ![k] = "reading"]
      /\ state' = [state EXCEPT ![c] = "requesting"] /\ target' = [target EXCEPT ![c] = k]
  BY DEF ConnectSpawn, SendRequest
<1>2. /\ \A d \in Calls : state'[d] = IF d = c THEN "requesting" ELSE state[d]
      /\ \A d \in Calls : target'[d] = IF d = c THEN k ELSE target[d]
      /\ \A j \in Children : alive'[j] = IF j = k THEN "running" ELSE alive[j]
      /\ reader'[k] = "reading"
  BY <1>1 DEF IInv, TypeOK
<1>3. Connects \subseteq Calls /\ c \notin Commands
  BY CallsAssumption, <1>1 DEF Calls
<1>4. InLifecycle(c) /\ InLifecycle(c)' /\ \A d \in Calls : InLifecycle(d)' => InLifecycle(d)
  BY <1>1, <1>2, <1>3 DEF InLifecycle
<1>5. ~isConnected /\ \A d \in Calls : InLifecycle(d) => d = c
  BY <1>4 DEF LifecycleInv, OfflineInv, AloneInv
<1>6. AloneInv' /\ OfflineInv' /\ HandshakeInv'
  BY <1>1, <1>2, <1>4, <1>5 DEF LifecycleInv, AloneInv, OfflineInv, HandshakeInv
<1>7. OfflineProcessInv'
  BY <1>1, <1>2, <1>4 DEF OfflineProcessInv
<1>8. TargetInv'
  <2>1. \A d \in Connects : state'[d] = "requesting" => d = c
    BY <1>3, <1>4, <1>5, CallsAssumption DEF InLifecycle
  <2> QED
    BY <1>1, <1>2, <2>1 DEF TargetInv
<1>9. ReaderInv'
  BY <1>1, <1>2 DEF ReaderInv
<1>10. NoOrphan'
  <2>1. process # NoChild => alive[process] # "running" \/ killed[process]
    BY <1>1, <1>5 DEF LifecycleInv, OfflineProcessInv
  <2> QED
    BY <1>1, <1>2, <2>1, ChildAssumption DEF LifecycleInv, NoOrphan
<1> QED
  BY <1>6, <1>7, <1>8, <1>9, <1>10 DEF LifecycleInv

LEMMA DisconnectBegins ==
  ASSUME IInv, SerialLifecycle, LifecycleInv, NEW c \in Calls, DisconnectCall(c)
  PROVE  LifecycleInv'
<1>1. /\ UNCHANGED <<process, killed, outcome, alive, reader>> /\ isConnected' = FALSE
      /\ state[c] = "unused" /\ c \in Disconnects
      /\ \A d \in Calls : ~InLifecycle(d)
  BY DEF DisconnectCall, MayBeginLifecycle, SendRequest, childVars
<1>2. Connects \subseteq Calls /\ c \notin Connects /\ c \notin Commands
  BY <1>1, CallsAssumption DEF Calls
<1>3. /\ \A d \in Calls : d # c => state'[d] = state[d] /\ target'[d] = target[d]
      /\ \/ process = NoChild /\ state'[c] = "returned"
         \/ state'[c] = "requesting" /\ target'[c] = process
  <2>1. CASE process = NoChild
    BY <2>1 DEF DisconnectCall, IInv, TypeOK
  <2>2. CASE process # NoChild
    BY <2>2 DEF DisconnectCall, SendRequest, IInv, TypeOK
  <2> QED
    BY <2>1, <2>2
<1>4. \A d \in Calls : InLifecycle(d)' => d = c
  BY <1>1, <1>3 DEF InLifecycle
<1>5. AloneInv' /\ OfflineInv' /\ HandshakeInv'
  BY <1>1, <1>3, <1>4 DEF LifecycleInv, AloneInv, OfflineInv, HandshakeInv
<1>6. OfflineProcessInv'
  BY <1>1, <1>2, <1>3 DEF OfflineProcessInv, InLifecycle
<1>7. TargetInv' /\ ReaderInv' /\ NoOrphan'
  BY <1>1, <1>2, <1>3 DEF LifecycleInv, TargetInv, ReaderInv, NoOrphan
<1> QED
  BY <1>5, <1>6, <1>7 DEF LifecycleInv

\* The reply to "connect": the process is the child that was asked.
LEMMA ConnectEnds ==
  ASSUME IInv, SerialLifecycle, LifecycleInv, NEW c \in Calls, ConnectSucceeds(c)
  PROVE  LifecycleInv'
<1>1. /\ UNCHANGED <<process, target, killed, outcome, alive, reader>> /\ isConnected' = TRUE
      /\ state[c] = "requesting" /\ outcome[c] = "result" /\ c \in Connects
      /\ state' = [state EXCEPT ![c] = "returned"]
  BY DEF ConnectSucceeds, Resumable, Settled, childVars
<1>2. Connects \subseteq Calls /\ c \notin Commands
  BY <1>1, CallsAssumption DEF Calls
<1>3. \A d \in Calls : state'[d] = IF d = c THEN "returned" ELSE state[d]
  BY <1>1 DEF IInv, TypeOK
<1>4. \A d \in Calls : ~InLifecycle(d)'
  <2>1. \A d \in Calls : InLifecycle(d) => d = c
    BY <1>1, <1>2 DEF LifecycleInv, AloneInv, InLifecycle
  <2> QED
    BY <1>3, <2>1 DEF InLifecycle
<1>5. AloneInv' /\ OfflineInv' /\ OfflineProcessInv'
  BY <1>1, <1>3, <1>4 DEF LifecycleInv, AloneInv, OfflineInv, OfflineProcessInv
<1>6. HandshakeInv'
  <2>1. process = target[c]
    BY <1>1 DEF IInv, ConnectInv, LifecycleInv, TargetInv
  <2> QED
    BY <1>1, <1>2, <1>3, <2>1 DEF HandshakeInv
<1>7. TargetInv' /\ ReaderInv' /\ NoOrphan'
  BY <1>1, <1>2, <1>3 DEF LifecycleInv, TargetInv, ReaderInv, NoOrphan
<1> QED
  BY <1>5, <1>6, <1>7 DEF LifecycleInv

\* connect()'s catch, and disconnect() after its request, end the child that was
\* asked.
LEMMA RequestFails ==
  ASSUME IInv, SerialLifecycle, LifecycleInv, NEW c \in Calls, ConnectFails(c) \/ DisconnectResume(c)
  PROVE  LifecycleInv'
<1>1. /\ UNCHANGED <<target, alive, reader>> /\ state[c] = "requesting"
      /\ killed' = [killed EXCEPT ![target[c]] = TRUE]
      /\ process' = process \/ (process' = NoChild /\ process = target[c])
  BY DEF ConnectFails, DisconnectResume, Resumable, Settled, Kill
<1>2. Connects \subseteq Calls /\ c \notin Commands
  BY CallsAssumption DEF Calls, ConnectFails, DisconnectResume
<1>3. InLifecycle(c)
  BY <1>1, <1>2 DEF InLifecycle
<1>4. ~isConnected /\ \A d \in Calls : InLifecycle(d) => d = c
  BY <1>3 DEF LifecycleInv, AloneInv, OfflineInv
<1>5. ~isConnected'
  BY <1>4 DEF ConnectFails, DisconnectResume
<1>6. /\ \A d \in Calls : d # c => state'[d] = state[d]
      /\ state'[c] = "threw" \/ (state'[c] = "draining" /\ c \in Disconnects)
  BY DEF ConnectFails, DisconnectResume, IInv, TypeOK
<1>7. \A d \in Calls : InLifecycle(d)' => d = c
  BY <1>4, <1>6 DEF InLifecycle
<1>8. \A k \in Children : killed'[k] = (killed[k] \/ k = target[c])
  BY <1>1 DEF IInv, TypeOK
<1>9. process \in Children \cup {NoChild} /\ process' \in Children \cup {NoChild}
  BY <1>1 DEF IInv, TypeOK
<1>10. AloneInv' /\ OfflineInv' /\ HandshakeInv'
  BY <1>5, <1>6, <1>7 DEF LifecycleInv, AloneInv, OfflineInv, HandshakeInv
<1>11. OfflineProcessInv'
  BY <1>1, <1>4, <1>8, <1>9 DEF LifecycleInv, OfflineProcessInv
<1>12. TargetInv'
  BY <1>1, <1>2, <1>6 DEF LifecycleInv, TargetInv
<1>13. ReaderInv'
  BY <1>1, ChildAssumption DEF LifecycleInv, ReaderInv
<1>14. NoOrphan'
  BY <1>1, <1>8, <1>9 DEF LifecycleInv, NoOrphan
<1> QED
  BY <1>10, <1>11, <1>12, <1>13, <1>14 DEF LifecycleInv

\* reset(), and the exit event of the process, leave none; a child that is left
\* behind has been told to end or is gone.
LEMMA LosesProcess ==
  ASSUME IInv, LifecycleInv, process' = NoChild, ~isConnected', UNCHANGED <<target, alive, reader>>,
         process # NoChild => alive[process] # "running" \/ killed'[process],
         \A k \in Children : killed[k] => killed'[k],
         \A c \in Calls : state'[c] = state[c] \/ state'[c] = "returned"
  PROVE  LifecycleInv'
<1>1. \A c \in Calls : InLifecycle(c)' => InLifecycle(c)
  BY DEF InLifecycle
<1>2. AloneInv' /\ OfflineInv'
  BY <1>1 DEF LifecycleInv, AloneInv, OfflineInv
<1>3. OfflineProcessInv' /\ HandshakeInv' /\ TargetInv'
  BY DEF OfflineProcessInv, HandshakeInv, TargetInv
<1>4. ReaderInv'
  BY ChildAssumption DEF ReaderInv
<1>5. NoOrphan'
  BY ChildAssumption DEF LifecycleInv, NoOrphan
<1> QED
  BY <1>2, <1>3, <1>4, <1>5 DEF LifecycleInv

LEMMA ProcessEvents ==
  ASSUME IInv, SerialLifecycle, LifecycleInv,
         \/ ShutdownForProcessExit
         \/ \E c \in Calls : DisconnectDone(c)
         \/ \E k \in Children : ExitEvent(k) \/ ExitHandled(k)
  PROVE  LifecycleInv'
<1>1. process \in Children \cup {NoChild}
  BY DEF IInv, TypeOK
<1>2. CASE ShutdownForProcessExit
  <2>1. killed' = [killed EXCEPT ![process] = TRUE] /\ process # NoChild
    BY <1>2 DEF ShutdownForProcessExit, Kill
  <2>2. killed'[process] /\ \A k \in Children : killed[k] => killed'[k]
    BY <1>1, <2>1 DEF IInv, TypeOK
  <2>3. process' = NoChild /\ ~isConnected' /\ UNCHANGED <<target, alive, reader, state>>
    BY <1>2 DEF ShutdownForProcessExit, Reset
  <2> QED
    BY <2>2, <2>3, LosesProcess
<1>3. ASSUME NEW c \in Calls, DisconnectDone(c)
      PROVE  LifecycleInv'
  <2>1. /\ process' = NoChild /\ ~isConnected' /\ UNCHANGED <<target, alive, reader, killed>>
        /\ state[c] = "draining"
    BY <1>3 DEF DisconnectDone, Reset, childVars
  <2>2. c \in Disconnects /\ c \notin Commands
    BY <2>1, CallsAssumption DEF LifecycleInv, OfflineInv
  <2>3. InLifecycle(c)
    BY <2>1, <2>2 DEF InLifecycle
  <2>4. ~isConnected /\ \A d \in Calls : InLifecycle(d) => d = c
    BY <2>3 DEF LifecycleInv, OfflineInv, AloneInv
  <2>5. process # NoChild => alive[process] # "running" \/ killed[process]
    BY <2>1, <2>4 DEF LifecycleInv, OfflineProcessInv
  <2>6. \A d \in Calls : state'[d] = state[d] \/ state'[d] = "returned"
    BY <1>3 DEF DisconnectDone, IInv, TypeOK
  <2> QED
    BY <2>1, <2>5, <2>6, LosesProcess
<1>4. ASSUME NEW k \in Children, ExitEvent(k)
      PROVE  LifecycleInv'
  <2>1. UNCHANGED <<target, alive, reader, killed, state>> /\ alive[k] = "exited"
    BY <1>4 DEF ExitEvent
  <2>2. CASE process = k /\ ~isConnected
    <3>1. process' = NoChild /\ ~isConnected'
      BY <1>4, <2>2 DEF ExitEvent
    <3> QED
      BY <2>1, <2>2, <3>1, LosesProcess
  <2>3. CASE process = k /\ isConnected
    <3>1. UNCHANGED <<process, isConnected>> /\ RejectPending
      BY <1>4, <2>3 DEF ExitEvent
    <3>2. \A c \in Calls : state[c] = "returned" => outcome'[c] = outcome[c]
      BY <3>1, RejectingIsLocal DEF IInv
    <3> QED
      BY <2>1, <3>1, <3>2, CalmStep
  <2>4. CASE process # k
    <3>1. UNCHANGED <<process, isConnected, outcome>>
      BY <1>4, <2>4 DEF ExitEvent
    <3> QED
      BY <2>1, <3>1, CalmStep
  <2> QED
    BY <2>2, <2>3, <2>4
<1>5. ASSUME NEW k \in Children, ExitHandled(k)
      PROVE  LifecycleInv'
  <2>1. process = k /\ alive[k] = "exited"
    BY <1>5 DEF ExitHandled, IInv, HandlingInv
  <2>2. process' = NoChild /\ ~isConnected' /\ UNCHANGED <<target, alive, reader, killed, state>>
    BY <1>5, <2>1 DEF ExitHandled, callVars
  <2> QED
    BY <2>1, <2>2, LosesProcess
<1> QED
  BY <1>2, <1>3, <1>4, <1>5

LEMMA InitLifecycle == Init => LifecycleInv
<1> SUFFICES ASSUME Init
             PROVE  LifecycleInv
  OBVIOUS
<1>1. AloneInv /\ OfflineInv /\ OfflineProcessInv /\ HandshakeInv
  BY DEF Init, AloneInv, OfflineInv, OfflineProcessInv, HandshakeInv, InLifecycle
<1>2. TargetInv /\ NoOrphan
  BY DEF Init, TargetInv, NoOrphan
<1>3. ReaderInv
  BY DEF Init, ReaderInv
<1> QED
  BY <1>1, <1>2, <1>3 DEF LifecycleInv

LEMMA LifecycleInductive ==
  ASSUME SerialLifecycle
  PROVE  Spec => []LifecycleInv
<1>1. IInv /\ LifecycleInv /\ [Next]_vars => LifecycleInv'
  <2> SUFFICES ASSUME IInv, LifecycleInv, [Next]_vars
               PROVE  LifecycleInv'
    OBVIOUS
  <2>1. ASSUME NEW c \in Calls, CallStep(c)
        PROVE  LifecycleInv'
    <3>1. CASE CommandCall(c) \/ CommandResume(c) \/ Timeout(c)
      BY <3>1, CalmSteps
    <3>2. CASE ConnectCall(c) \/ DisconnectCall(c) \/ \E k \in Children : ConnectSpawn(c, k)
      BY <3>2, ConnectBegins, DisconnectBegins, ConnectSpawns
    <3>3. CASE ConnectSucceeds(c) \/ ConnectFails(c) \/ DisconnectResume(c)
      BY <3>3, ConnectEnds, RequestFails
    <3>4. CASE DisconnectDone(c)
      BY <3>4, ProcessEvents
    <3> QED
      BY <2>1, <3>1, <3>2, <3>3, <3>4 DEF CallStep
  <2>2. ASSUME NEW k \in Children, SidecarStep(k) \/ ChildEvent(k)
        PROVE  LifecycleInv'
    <3>1. CASE ExitEvent(k) \/ ExitHandled(k)
      BY <3>1, ProcessEvents
    <3>2. CASE SidecarStep(k) \/ ReaderStep(k) \/ Drain(k) \/ StdinError(k)
      BY <3>2, CalmSteps
    <3> QED
      BY <2>2, <3>1, <3>2 DEF ChildEvent
  <2>3. CASE ShutdownForProcessExit
    BY <2>3, ProcessEvents
  <2>4. CASE UNCHANGED vars
    BY <2>4, CalmSteps
  <2> QED
    BY <2>1, <2>2, <2>3, <2>4 DEF Next
<1> QED
  BY InitLifecycle, <1>1, Inductive, PTL DEF Spec

\* A sidecar that runs is #process or has been sent a signal, where a consumer
\* awaits each connect() and disconnect().
THEOREM NobodyOrphaned ==
  ASSUME SerialLifecycle
  PROVE  Spec => []NoOrphan
<1>1. LifecycleInv => NoOrphan
  BY DEF LifecycleInv
<1> QED
  BY <1>1, LifecycleInductive, PTL

\* Connected means that the process in use answered its own connect request and
\* is being read, or an exception ended its reader, where lifecycle calls are
\* awaited.
THEOREM ConnectedIsReady ==
  ASSUME SerialLifecycle
  PROVE  Spec => []ConnectedMeansReady
<1>1. IInv /\ LifecycleInv => ConnectedMeansReady
  BY DEF IInv, TypeOK, ConnectedHasProcess, LifecycleInv, HandshakeInv, ReaderInv,
         ConnectedMeansReady
<1> QED
  BY <1>1, Inductive, LifecycleInductive, PTL
=============================================================================
