--------------------------- MODULE SidecarBridge ---------------------------
(***************************************************************************)
(* MautrixMatrixProvider and the Python sidecar processes it talks to over  *)
(* JSON lines.  A consumer calls connect(), disconnect(), a command         *)
(* (sendMessage, listChats, ...: each is one request()) or                  *)
(* shutdownForProcessExit().  Every request gets a fresh id, an entry of    *)
(* #pending and a timer, and is written to the stdin of the child that is   *)
(* #process at that moment; the reader of that child's stdout, the timer,   *)
(* the child's exit event, an error of its stdin or the reset settle it.    *)
(*                                                                          *)
(* One step is one turn of the Node event loop, and the continuation of a   *)
(* settled request is a step of its own: `Quiet' keeps timers, I/O events   *)
(* and process events out while a settled request has not resumed, as the   *)
(* microtask queue does, whereas consumer code may run in between.  A       *)
(* callback into the consumer that more of the same turn follows (the error *)
(* handler an exit calls) is a boundary between two steps: meanwhile the    *)
(* consumer may call in and nothing else of the program runs.               *)
(***************************************************************************)
EXTENDS Integers, Sequences, FiniteSets

CONSTANTS
  Connects,         \* the connect() calls a consumer may make, each once
  Commands,         \* the calls of a provider method that is one request()
  Disconnects,      \* the disconnect() calls
  Children,         \* the child processes spawn() may return
  NoChild,          \* #process is undefined
  PipeLimit,        \* bound: unsolicited lines are written while fewer are unread
  SerialLifecycle,  \* the consumer awaits one connect/disconnect before the next
  WritesMayBlock    \* stdin's high-water mark may be reached

Calls == Connects \cup Commands \cup Disconnects

ASSUME CallsAssumption ==
  /\ Connects \cap Commands = {}
  /\ Connects \cap Disconnects = {}
  /\ Commands \cap Disconnects = {}

ASSUME ChildAssumption == NoChild \notin Children

ASSUME BoundAssumption ==
  /\ PipeLimit \in Nat
  /\ SerialLifecycle \in BOOLEAN
  /\ WritesMayBlock \in BOOLEAN

VARIABLES
  process,      \* #process
  isConnected,  \* #isConnected
  nextId,       \* #nextId
  pending,      \* #pending, as <<id, call>> pairs
  readerDone    \* the child whose reader #readerDone is the promise of

providerVars == <<process, isConnected, nextId, pending, readerDone>>

VARIABLES
  state,     \* where the call is: see CallState
  id,        \* the id of the call's request, 0 before it has one
  target,    \* the child the call's request was written to
  outcome,   \* what settled the call's request
  blocked,   \* its writeJsonLine still awaits "drain"
  awaits     \* the child whose reader a disconnect() awaits

callVars == <<state, id, target, outcome, blocked, awaits>>

VARIABLES
  alive,     \* "unborn", "running" or "exited"
  killed,    \* a signal was sent
  exitSeen,  \* its exit event: "no", "handling" while the consumer's handler runs
             \* inside it, "handled"
  stdin,     \* the <<id, call>> request lines it has not read
  stdinGone, \* its stdin has emitted an error
  tasks,     \* the <<id, call>> requests its asyncio tasks are executing
  stdout,    \* the lines written and not yet read by the provider
  reader,    \* its readSidecar loop
  answered   \* history: the calls some sidecar answered with ok = true

childVars == <<alive, killed, exitSeen, stdin, stdinGone, tasks, stdout, reader, answered>>

vars == <<process, isConnected, nextId, pending, readerDone,
          state, id, target, outcome, blocked, awaits,
          alive, killed, exitSeen, stdin, stdinGone, tasks, stdout, reader, answered>>

CallState == {"unused", "starting", "requesting", "draining", "returned", "threw"}

\* A request line is its id and its payload, and a payload is as good as the
\* call that sent it.  A reply repeats the id and is the answer to a payload.
Request == Nat \X Calls
Reply == [kind : {"reply"}, id : Nat, call : Calls, ok : BOOLEAN]
Event == [kind : {"event"}]
Line == Reply \cup Event

TypeOK ==
  /\ process \in Children \cup {NoChild}
  /\ isConnected \in BOOLEAN
  /\ nextId \in Nat \ {0}
  /\ pending \in SUBSET Request
  /\ readerDone \in Children \cup {NoChild}
  /\ state \in [Calls -> CallState]
  /\ id \in [Calls -> Nat]
  /\ target \in [Calls -> Children \cup {NoChild}]
  /\ outcome \in [Calls -> {"none", "result", "error"}]
  /\ blocked \in [Calls -> BOOLEAN]
  /\ awaits \in [Calls -> Children \cup {NoChild}]
  /\ alive \in [Children -> {"unborn", "running", "exited"}]
  /\ killed \in [Children -> BOOLEAN]
  /\ exitSeen \in [Children -> {"no", "handling", "handled"}]
  /\ stdin \in [Children -> Seq(Request)]
  /\ stdinGone \in [Children -> BOOLEAN]
  /\ tasks \in [Children -> SUBSET Request]
  /\ stdout \in [Children -> Seq(Line)]
  /\ reader \in [Children -> {"none", "reading", "ended", "failed"}]
  /\ answered \in SUBSET Calls

Init ==
  /\ process = NoChild
  /\ isConnected = FALSE
  /\ nextId = 1
  /\ pending = {}
  /\ readerDone = NoChild
  /\ state = [c \in Calls |-> "unused"]
  /\ id = [c \in Calls |-> 0]
  /\ target = [c \in Calls |-> NoChild]
  /\ outcome = [c \in Calls |-> "none"]
  /\ blocked = [c \in Calls |-> FALSE]
  /\ awaits = [c \in Calls |-> NoChild]
  /\ alive = [k \in Children |-> "unborn"]
  /\ killed = [k \in Children |-> FALSE]
  /\ exitSeen = [k \in Children |-> "no"]
  /\ stdin = [k \in Children |-> <<>>]
  /\ stdinGone = [k \in Children |-> FALSE]
  /\ tasks = [k \in Children |-> {}]
  /\ stdout = [k \in Children |-> <<>>]
  /\ reader = [k \in Children |-> "none"]
  /\ answered = {}

-----------------------------------------------------------------------------
(* The promise of a request: Promise.all rejects at once, and resolves only *)
(* when the reply has come and the line has been written.                   *)

Settled(c) ==
  /\ state[c] = "requesting"
  /\ \/ outcome[c] = "error"
     \/ outcome[c] = "result" /\ ~blocked[c]

\* An exit event is calling the consumer's error handler.
Handling == \E k \in Children : exitSeen[k] = "handling"

Resumable(c) == Settled(c) /\ ~Handling

Quiet == ~Handling /\ \A c \in Calls : ~Settled(c)

PendingCalls == {p[2] : p \in pending}

\* Mutant: the map is cleared and no promise is rejected.
BugRejectNobody == outcome

\* rejectPending(): the outcomes after every pending promise is rejected.
RejectedOutcome ==
  [c \in Calls |-> IF c \in PendingCalls THEN "error" ELSE outcome[c]]

RejectPending ==
  /\ pending' = {}
  /\ outcome' = RejectedOutcome

\* Mutants: the id is the map's size, or counts from before the first id.
BugIdFromMinusOne == nextId - 2
BugIdFromSize == Cardinality(pending) + 1

\* const id = this.#nextId++
FreshId == nextId

\* write() on a stream that an error or the exit destroyed.
StdinDestroyed(k) == stdinGone[k] \/ exitSeen[k] # "no"

\* writeJsonLine: whether the line of call c awaits "drain".  A fresh pipe takes
\* the line of a connect.  Only a command has a payload that may reach the
\* high-water mark; behind one that waits, the line of a disconnect may wait too.
\* A destroyed stream never emits "drain".
Blocks(c, k) ==
  {b \in BOOLEAN :
     /\ b => c \notin Connects
     /\ StdinDestroyed(k) /\ c \notin Connects => b
     /\ b /\ ~StdinDestroyed(k) =>
          /\ WritesMayBlock
          /\ c \in Commands \/ \E d \in Calls : blocked[d] /\ target[d] = k}

\* request(): the synchronous part, up to the write of the line to child k.
SendRequest(c, k) ==
  /\ nextId' = nextId + 1
  /\ id' = [id EXCEPT ![c] = FreshId]
  /\ pending' = {p \in pending : p[1] # FreshId} \cup {<<FreshId, c>>}
  /\ state' = [state EXCEPT ![c] = "requesting"]
  /\ target' = [target EXCEPT ![c] = k]
  /\ stdin' = [stdin EXCEPT ![k] = Append(@, <<FreshId, c>>)]
  /\ \E b \in Blocks(c, k) : blocked' = [blocked EXCEPT ![c] = b]
  /\ UNCHANGED <<outcome, awaits>>

\* The signal of child.kill(); `alive' changes when the process obeys it.
Kill(k) == killed' = [killed EXCEPT ![k] = TRUE]

\* reset(), with rejectPending() inside.
Reset ==
  /\ process' = NoChild
  /\ isConnected' = FALSE
  /\ RejectPending
  /\ UNCHANGED <<nextId, readerDone>>

-----------------------------------------------------------------------------
(* Consumer calls.                                                          *)

InLifecycle(c) == c \notin Commands /\ state[c] \in {"starting", "requesting", "draining"}

\* What a consumer that awaits its lifecycle calls guarantees.
MayBeginLifecycle == SerialLifecycle => \A c \in Calls : ~InLifecycle(c)

\* connect(): returns at once when connected; otherwise the sidecar's path is
\* looked up first, and nothing marks that a connection is being made.
ConnectCall(c) ==
  /\ c \in Connects
  /\ state[c] = "unused"
  /\ MayBeginLifecycle
  /\ state' = [state EXCEPT ![c] = IF isConnected THEN "returned" ELSE "starting"]
  /\ UNCHANGED <<id, target, outcome, blocked, awaits, providerVars, childVars>>

\* The path is known: spawn, attach the reader, request "connect".  A spawn
\* that fails is a child that exits before it reads anything.
ConnectSpawn(c, k) ==
  /\ c \in Connects
  /\ ~Handling
  /\ state[c] = "starting"
  /\ alive[k] = "unborn"
  /\ alive' = [alive EXCEPT ![k] = "running"]
  /\ process' = k
  /\ reader' = [reader EXCEPT ![k] = "reading"]
  /\ readerDone' = k
  /\ SendRequest(c, k)
  /\ UNCHANGED <<isConnected, killed, exitSeen, stdinGone, tasks, stdout, answered>>

\* A command while there is no process throws; otherwise it is a request.
CommandCall(c) ==
  /\ c \in Commands
  /\ state[c] = "unused"
  /\ \/ /\ process = NoChild
        /\ state' = [state EXCEPT ![c] = "threw"]
        /\ UNCHANGED <<id, target, outcome, blocked, awaits, providerVars, childVars>>
     \/ /\ process # NoChild
        /\ SendRequest(c, process)
        /\ UNCHANGED <<process, isConnected, readerDone>>
        /\ UNCHANGED <<alive, killed, exitSeen, stdinGone, tasks, stdout, reader, answered>>

\* disconnect(), up to its request.
DisconnectCall(c) ==
  /\ c \in Disconnects
  /\ state[c] = "unused"
  /\ MayBeginLifecycle
  /\ isConnected' = FALSE
  /\ \/ /\ process = NoChild
        /\ state' = [state EXCEPT ![c] = "returned"]
        /\ UNCHANGED <<id, target, outcome, blocked, awaits, childVars>>
        /\ UNCHANGED <<process, nextId, pending, readerDone>>
     \/ /\ process # NoChild
        /\ SendRequest(c, process)
        /\ UNCHANGED <<process, readerDone>>
        /\ UNCHANGED <<alive, killed, exitSeen, stdinGone, tasks, stdout, reader, answered>>

\* shutdownForProcessExit(), called from process-level code in its own turn.
ShutdownForProcessExit ==
  /\ Quiet
  /\ process # NoChild
  /\ Kill(process)
  /\ Reset
  /\ UNCHANGED <<state, id, target, blocked, awaits>>
  /\ UNCHANGED <<alive, exitSeen, stdin, stdinGone, tasks, stdout, reader, answered>>

-----------------------------------------------------------------------------
(* Continuations of settled requests.                                       *)

\* A command's caller gets its result or error.
CommandResume(c) ==
  /\ c \in Commands
  /\ Resumable(c)
  /\ state' = [state EXCEPT ![c] = IF outcome[c] = "result" THEN "returned" ELSE "threw"]
  /\ pending' = {p \in pending : p[1] # id[c]}
  /\ UNCHANGED <<process, isConnected, nextId, readerDone>>
  /\ UNCHANGED <<id, target, outcome, blocked, awaits, childVars>>

\* The reply to "connect" arrived.
ConnectSucceeds(c) ==
  /\ c \in Connects
  /\ Resumable(c)
  /\ outcome[c] = "result"
  /\ isConnected' = TRUE
  /\ state' = [state EXCEPT ![c] = "returned"]
  /\ pending' = {p \in pending : p[1] # id[c]}
  /\ UNCHANGED <<process, nextId, readerDone>>
  /\ UNCHANGED <<id, target, outcome, blocked, awaits, childVars>>

\* Mutant: the child of a failed connect is dropped and not killed.
BugConnectFails(c) ==
  /\ c \in Connects
  /\ Resumable(c)
  /\ outcome[c] = "error"
  /\ process' = IF process = target[c] THEN NoChild ELSE process
  /\ isConnected' = FALSE
  /\ RejectPending
  /\ state' = [state EXCEPT ![c] = "threw"]
  /\ UNCHANGED <<nextId, readerDone, id, target, blocked, awaits, childVars>>

\* Mutant: what is pending is left to its timers.
BugConnectFailsQuietly(c) ==
  /\ c \in Connects
  /\ Resumable(c)
  /\ outcome[c] = "error"
  /\ Kill(target[c])
  /\ process' = IF process = target[c] THEN NoChild ELSE process
  /\ isConnected' = FALSE
  /\ state' = [state EXCEPT ![c] = "threw"]
  /\ UNCHANGED <<nextId, pending, readerDone, id, target, outcome, blocked, awaits>>
  /\ UNCHANGED <<alive, exitSeen, stdin, stdinGone, tasks, stdout, reader, answered>>

\* connect()'s catch: kill this child, and reject whatever is pending.
ConnectFails(c) ==
  /\ c \in Connects
  /\ Resumable(c)
  /\ outcome[c] = "error"
  /\ Kill(target[c])
  /\ process' = IF process = target[c] THEN NoChild ELSE process
  /\ isConnected' = FALSE
  /\ RejectPending
  /\ state' = [state EXCEPT ![c] = "threw"]
  /\ UNCHANGED <<nextId, readerDone, id, target, blocked, awaits>>
  /\ UNCHANGED <<alive, exitSeen, stdin, stdinGone, tasks, stdout, reader, answered>>

\* disconnect() after its request: stdin.end(), kill(), await #readerDone.
DisconnectResume(c) ==
  /\ c \in Disconnects
  /\ Resumable(c)
  /\ Kill(target[c])
  /\ state' = [state EXCEPT ![c] = "draining"]
  /\ awaits' = [awaits EXCEPT ![c] = readerDone]
  /\ pending' = {p \in pending : p[1] # id[c]}
  /\ UNCHANGED <<process, isConnected, nextId, readerDone, id, target, outcome, blocked>>
  /\ UNCHANGED <<alive, exitSeen, stdin, stdinGone, tasks, stdout, reader, answered>>

\* The awaited reader has ended: reset().
DisconnectDone(c) ==
  /\ Quiet
  /\ state[c] = "draining"
  /\ reader[awaits[c]] \in {"ended", "failed"}
  /\ Reset
  /\ state' = [state EXCEPT ![c] = "returned"]
  /\ UNCHANGED <<id, target, blocked, awaits, childVars>>

\* The request's timer fires while its entry is still pending.
Timeout(c) ==
  /\ Quiet
  /\ state[c] = "requesting"
  /\ <<id[c], c>> \in pending
  /\ pending' = pending \ {<<id[c], c>>}
  /\ outcome' = [outcome EXCEPT ![c] = "error"]
  /\ UNCHANGED <<process, isConnected, nextId, readerDone>>
  /\ UNCHANGED <<state, id, target, blocked, awaits, childVars>>

-----------------------------------------------------------------------------
(* The sidecar process k: run() reads lines and starts one task per line;   *)
(* the tasks answer in any order.                                           *)

\* writeJsonLine: the writes to k's stdin that await "drain" go on.
Unblocked(k) == [c \in Calls |-> blocked[c] /\ target[c] # k]

\* emit(): a line written after the provider stopped reading is as good as lost.
Emit(k, line) ==
  stdout' = IF reader[k] = "reading" THEN [stdout EXCEPT ![k] = Append(@, line)] ELSE stdout

\* With the last line taken everything written has gone out, so the drain event
\* has come before any answer to that line can.
SidecarTakesCommand(k) ==
  /\ alive[k] = "running"
  /\ stdin[k] # <<>>
  /\ stdin' = [stdin EXCEPT ![k] = Tail(@)]
  /\ tasks' = [tasks EXCEPT ![k] = @ \cup {Head(stdin[k])}]
  /\ blocked' = IF Len(stdin[k]) = 1 THEN Unblocked(k) ELSE blocked
  /\ UNCHANGED <<providerVars, state, id, target, outcome, awaits>>
  /\ UNCHANGED <<alive, killed, exitSeen, stdinGone, stdout, reader, answered>>

SidecarReplies(k) ==
  /\ alive[k] = "running"
  /\ \E t \in tasks[k], ok \in BOOLEAN :
       /\ tasks' = [tasks EXCEPT ![k] = tasks[k] \ {t}]
       /\ Emit(k, [kind |-> "reply", id |-> t[1], call |-> t[2], ok |-> ok])
       /\ answered' = IF ok THEN answered \cup {t[2]} ELSE answered
  /\ UNCHANGED <<providerVars, callVars, alive, killed, exitSeen, stdin, stdinGone, reader>>

SidecarEmitsEvent(k) ==
  /\ alive[k] = "running"
  /\ reader[k] = "reading"
  /\ Len(stdout[k]) < PipeLimit
  /\ Emit(k, [kind |-> "event"])
  /\ UNCHANGED <<providerVars, callVars, alive, killed, exitSeen, stdin, stdinGone, tasks, reader, answered>>

\* The process ends: a crash, the signal, or end of stdin.  Its running tasks
\* are cancelled; what it wrote stays readable.
SidecarExits(k) ==
  /\ alive[k] = "running"
  /\ alive' = [alive EXCEPT ![k] = "exited"]
  /\ tasks' = [tasks EXCEPT ![k] = {}]
  /\ UNCHANGED <<providerVars, callVars, killed, exitSeen, stdin, stdinGone, stdout, reader, answered>>

-----------------------------------------------------------------------------
(* Events of child k at the provider.                                       *)

\* A reply line, read while k is #process.
ReadReply(k) ==
  /\ Quiet
  /\ reader[k] = "reading"
  /\ stdout[k] # <<>>
  /\ process = k
  /\ Head(stdout[k]).kind = "reply"
  /\ LET line == Head(stdout[k])
         settled == {c \in Calls : <<line.id, c>> \in pending}
     IN  /\ pending' = {p \in pending : p[1] # line.id}
         /\ outcome' = [c \in Calls |->
              IF c \in settled THEN (IF line.ok THEN "result" ELSE "error")
              ELSE outcome[c]]
  /\ stdout' = [stdout EXCEPT ![k] = Tail(@)]
  /\ UNCHANGED <<process, isConnected, nextId, readerDone>>
  /\ UNCHANGED <<state, id, target, blocked, awaits>>
  /\ UNCHANGED <<alive, killed, exitSeen, stdin, stdinGone, tasks, reader, answered>>

\* An unsolicited line goes to the consumer's handler, which returns; nothing
\* the reader does in this turn follows it.
ReadEvent(k) ==
  /\ Quiet
  /\ reader[k] = "reading"
  /\ stdout[k] # <<>>
  /\ process = k
  /\ Head(stdout[k]).kind = "event"
  /\ stdout' = [stdout EXCEPT ![k] = Tail(@)]
  /\ UNCHANGED <<providerVars, callVars>>
  /\ UNCHANGED <<alive, killed, exitSeen, stdin, stdinGone, tasks, reader, answered>>

\* The handler throws, or the line is not JSON: the reader's promise rejects
\* and its catch rejects what is pending and calls the consumer's error handler;
\* the child and #isConnected stay.
ReaderFails(k) ==
  /\ Quiet
  /\ reader[k] = "reading"
  /\ stdout[k] # <<>>
  /\ process = k
  /\ Head(stdout[k]).kind = "event"
  /\ stdout' = [stdout EXCEPT ![k] = <<>>]
  /\ reader' = [reader EXCEPT ![k] = "failed"]
  /\ RejectPending
  /\ UNCHANGED <<process, isConnected, nextId, readerDone>>
  /\ UNCHANGED <<state, id, target, blocked, awaits>>
  /\ UNCHANGED <<alive, killed, exitSeen, stdin, stdinGone, tasks, answered>>

\* Mutant: the loop returns at a line without comparing its child with #process.
BugReaderEnds(k) ==
  /\ Quiet
  /\ reader[k] = "reading"
  /\ stdout[k] # <<>> \/ alive[k] = "exited"
  /\ reader' = [reader EXCEPT ![k] = "ended"]
  /\ stdout' = [stdout EXCEPT ![k] = <<>>]
  /\ UNCHANGED <<providerVars, callVars>>
  /\ UNCHANGED <<alive, killed, exitSeen, stdin, stdinGone, tasks, answered>>

\* readSidecar returns: at a line when its child is no longer #process, and
\* at the end of the output.
ReaderEnds(k) ==
  /\ Quiet
  /\ reader[k] = "reading"
  /\ \/ stdout[k] # <<>> /\ process # k
     \/ stdout[k] = <<>> /\ alive[k] = "exited"
  /\ reader' = [reader EXCEPT ![k] = "ended"]
  /\ stdout' = [stdout EXCEPT ![k] = <<>>]
  /\ UNCHANGED <<providerVars, callVars>>
  /\ UNCHANGED <<alive, killed, exitSeen, stdin, stdinGone, tasks, answered>>

\* The exit event (a failed spawn's error event runs the same code).  Node has
\* destroyed stdin by then, so no error of stdin follows it.  What is pending is
\* rejected; while connected the consumer's error handler is called before the
\* process is dropped.
ExitEvent(k) ==
  /\ Quiet
  /\ alive[k] = "exited"
  /\ exitSeen[k] = "no"
  /\ \/ /\ process = k
        /\ isConnected
        /\ RejectPending
        /\ exitSeen' = [exitSeen EXCEPT ![k] = "handling"]
        /\ UNCHANGED <<process, isConnected>>
     \/ /\ process = k
        /\ ~isConnected
        /\ RejectPending
        /\ exitSeen' = [exitSeen EXCEPT ![k] = "handled"]
        /\ process' = NoChild
        /\ UNCHANGED isConnected
     \/ /\ process # k
        /\ exitSeen' = [exitSeen EXCEPT ![k] = "handled"]
        /\ UNCHANGED <<process, isConnected, pending, outcome>>
  /\ UNCHANGED <<nextId, readerDone, state, id, target, blocked, awaits>>
  /\ UNCHANGED <<alive, killed, stdin, stdinGone, tasks, stdout, reader, answered>>

\* Mutant: the exit event leaves #isConnected on.
BugExitStaysConnected(k) ==
  /\ exitSeen[k] = "handling"
  /\ exitSeen' = [exitSeen EXCEPT ![k] = "handled"]
  /\ process' = NoChild
  /\ UNCHANGED <<nextId, pending, readerDone, isConnected, callVars>>
  /\ UNCHANGED <<alive, killed, stdin, stdinGone, tasks, stdout, reader, answered>>

\* The consumer's error handler returns to the exit event.
ExitHandled(k) ==
  /\ exitSeen[k] = "handling"
  /\ exitSeen' = [exitSeen EXCEPT ![k] = "handled"]
  /\ isConnected' = FALSE
  /\ process' = IF process = k THEN NoChild ELSE process
  /\ UNCHANGED <<nextId, pending, readerDone, callVars>>
  /\ UNCHANGED <<alive, killed, stdin, stdinGone, tasks, stdout, reader, answered>>

\* The drain event: everything written to k's stdin has gone to the pipe.
Drain(k) ==
  /\ Quiet
  /\ alive[k] = "running"
  /\ \E c \in Calls : blocked[c] /\ target[c] = k
  /\ blocked' = Unblocked(k)
  /\ UNCHANGED <<state, id, target, outcome, awaits, providerVars, childVars>>

\* An error event of k's stdin: a line could not be written because k is gone.
\* The handler rejects what is pending if k is #process, and the writes that
\* await "drain" on k reject their own requests.
StdinError(k) ==
  /\ Quiet
  /\ alive[k] = "exited"
  /\ exitSeen[k] = "no"
  /\ ~stdinGone[k]
  /\ stdin[k] # <<>>
  /\ stdinGone' = [stdinGone EXCEPT ![k] = TRUE]
  /\ pending' = IF process = k THEN {} ELSE pending
  /\ outcome' = [c \in Calls |->
       IF \/ process = k /\ c \in PendingCalls
          \/ state[c] = "requesting" /\ target[c] = k /\ blocked[c]
       THEN "error" ELSE outcome[c]]
  /\ UNCHANGED <<process, isConnected, nextId, readerDone>>
  /\ UNCHANGED <<state, id, target, blocked, awaits>>
  /\ UNCHANGED <<alive, killed, exitSeen, stdin, tasks, stdout, reader, answered>>

-----------------------------------------------------------------------------
CallStep(c) ==
  \/ ConnectCall(c) \/ CommandCall(c) \/ DisconnectCall(c)
  \/ \E k \in Children : ConnectSpawn(c, k)
  \/ CommandResume(c) \/ ConnectSucceeds(c) \/ ConnectFails(c)
  \/ DisconnectResume(c) \/ DisconnectDone(c)
  \/ Timeout(c)

SidecarStep(k) ==
  \/ SidecarTakesCommand(k) \/ SidecarReplies(k) \/ SidecarEmitsEvent(k)
  \/ SidecarExits(k)

ReaderStep(k) == ReadReply(k) \/ ReadEvent(k) \/ ReaderFails(k) \/ ReaderEnds(k)

ChildEvent(k) ==
  ReaderStep(k) \/ ExitEvent(k) \/ ExitHandled(k) \/ Drain(k) \/ StdinError(k)

Next ==
  \/ \E c \in Calls : CallStep(c)
  \/ \E k \in Children : SidecarStep(k) \/ ChildEvent(k)
  \/ ShutdownForProcessExit

Spec == Init /\ [][Next]_vars

\* What Node and the operating system guarantee: continuations run, timers
\* fire, handlers return, output is read and a signalled process ends.  No
\* fairness is asked of the consumer, nor of the sidecar's answers.
KilledExits(k) == killed[k] /\ SidecarExits(k)

Fairness ==
  /\ \A c \in Calls :
       /\ WF_vars(\E k \in Children : ConnectSpawn(c, k))
       /\ WF_vars(CommandResume(c))
       /\ WF_vars(ConnectSucceeds(c) \/ ConnectFails(c))
       /\ WF_vars(DisconnectResume(c))
       /\ WF_vars(DisconnectDone(c))
       /\ WF_vars(Timeout(c))
  /\ \A k \in Children :
       /\ WF_vars(KilledExits(k))
       /\ WF_vars(SidecarTakesCommand(k))
       /\ WF_vars(ReaderStep(k))
       /\ WF_vars(ExitEvent(k))
       /\ WF_vars(ExitHandled(k))

FairSpec == Spec /\ Fairness

-----------------------------------------------------------------------------
(* Properties.                                                              *)

\* A call gets a result only from a sidecar's answer to that very call: ids
\* are never reused, so no late reply to a request that timed out, nor a line
\* of an earlier child, resolves another request.
ResultIsOwn == \A c \in Calls : outcome[c] = "result" => c \in answered

\* A request whose promise is unsettled still has its entry in #pending, where
\* the reader, the timer, the exit event and reset() can find it.
NobodyForgotten ==
  \A c \in Calls :
    state[c] = "requesting" /\ outcome[c] = "none" => <<id[c], c>> \in pending

\* Whichever way the provider loses its process (exit event, failed connect,
\* reset), what stays pending is only what the consumer requested of it from
\* inside the error handler that its exit event called; those requests, made
\* after everything was rejected, wait for their timers.
LossRejectsPending ==
  process = NoChild =>
    \A p \in pending : \E k \in Children : target[p[2]] = k /\ exitSeen[k] = "handled"

\* #isConnected is never left on after the process is gone, whatever overlaps;
\* otherwise connect() would return early for ever.
ConnectedHasProcess == isConnected => process # NoChild

\* With lifecycle calls awaited one at a time no sidecar is orphaned: one that
\* runs is #process or has been sent a signal.
NoOrphan ==
  \A k \in Children : alive[k] = "running" => process = k \/ killed[k]

\* With lifecycle calls awaited one at a time, connected means that the process
\* in use answered its own connect request and, while it lives, that its output
\* is being read, unless a handler's exception or a line that is not JSON ended
\* the reader: it never stops on its own.
ConnectedMeansReady ==
  isConnected =>
    /\ \E c \in Connects : target[c] = process /\ outcome[c] = "result"
    /\ alive[process] = "running" => reader[process] \in {"reading", "failed"}

\* Every call a consumer makes returns or throws.
EveryCallReturns ==
  \A c \in Calls : state[c] # "unused" ~> state[c] \in {"returned", "threw"}

\* Each command settles: a sidecar that exits while a command's write is
\* blocked rejects the command.
ExitRejectsBlockedWrite ==
  \A c \in Commands :
    state[c] = "requesting" /\ alive[target[c]] = "exited"
      ~> state[c] \in {"returned", "threw"}

\* The requests seen as calls on a remote service that may fail.
portStatus ==
  [c \in Calls |-> IF id[c] = 0 THEN "idle"
                   ELSE IF state[c] = "requesting" THEN "open" ELSE outcome[c]]

Port == INSTANCE RequestPort WITH status <- portStatus, served <- answered

\* The provider and its sidecars implement a request port.
ImplementsPort == Port!Spec

-----------------------------------------------------------------------------
(* The inductive strengthening the safety properties rest on.               *)

\* A line, a task or a map entry names its call by that call's own id.
Names(i, c) == i # 0 /\ id[c] = i

IdInv ==
  /\ \A c \in Calls : id[c] < nextId
  /\ \A c, d \in Calls : id[c] # 0 /\ id[c] = id[d] => c = d
  /\ \A c \in Calls : state[c] \in {"unused", "starting"} => id[c] = 0 /\ outcome[c] = "none"
  /\ \A c \in Calls : state[c] = "requesting" => id[c] # 0

PendingInv == \A p \in pending : Names(p[1], p[2]) /\ state[p[2]] = "requesting"

LineInv ==
  \A k \in Children :
    /\ \A n \in 1..Len(stdin[k]) : Names(stdin[k][n][1], stdin[k][n][2])
    /\ \A t \in tasks[k] : Names(t[1], t[2])
    /\ \A n \in 1..Len(stdout[k]) :
         stdout[k][n].kind = "reply" =>
           /\ Names(stdout[k][n].id, stdout[k][n].call)
           /\ stdout[k][n].ok => stdout[k][n].call \in answered

BlockedInv == \A c \in Calls : blocked[c] => c \notin Connects

\* While the answer to a connect request has not been resumed, nothing else has
\* been rejected in the same turn.
ConnectInv ==
  \A c \in Connects : state[c] = "requesting" /\ outcome[c] = "result" =>
    /\ process # NoChild
    /\ \A d \in Calls : state[d] = "requesting" => outcome[d] # "error"

\* While an exit event calls the consumer its child is still #process, and what
\* has become pending since was written to it.
HandlingInv ==
  \A k \in Children : exitSeen[k] = "handling" =>
    /\ process = k
    /\ alive[k] = "exited"
    /\ \A p \in pending : target[p[2]] = k
    /\ \A c \in Connects : state[c] = "requesting" => outcome[c] # "result"

IInv ==
  /\ TypeOK
  /\ IdInv
  /\ PendingInv
  /\ LineInv
  /\ ResultIsOwn
  /\ NobodyForgotten
  /\ LossRejectsPending
  /\ BlockedInv
  /\ ConnectInv
  /\ HandlingInv
  /\ ConnectedHasProcess

-----------------------------------------------------------------------------
(* What is invariant besides where lifecycle calls are awaited one by one.  *)

AloneInv == \A c, d \in Calls : InLifecycle(c) /\ InLifecycle(d) => c = d

\* A connect or disconnect that is under way finds or makes the provider offline.
OfflineInv ==
  \A c \in Calls :
    /\ InLifecycle(c) => ~isConnected
    /\ state[c] = "draining" => c \in Disconnects

\* Offline, a process that runs and was not told to end is the one whose connect
\* or disconnect request is under way.
OfflineProcessInv ==
  ~isConnected /\ process # NoChild =>
    \/ alive[process] # "running"
    \/ killed[process]
    \/ \E c \in Calls : InLifecycle(c) /\ state[c] = "requesting" /\ target[c] = process

\* The process is that of the connect request under way, unless it is gone.
TargetInv ==
  \A c \in Connects : state[c] = "requesting" => process \in {target[c], NoChild}

HandshakeInv ==
  isConnected =>
    \E c \in Connects : state[c] = "returned" /\ target[c] = process /\ outcome[c] = "result"

ReaderInv ==
  \A k \in Children :
    process = k /\ alive[k] = "running" => reader[k] \in {"reading", "failed"}

LifecycleInv ==
  /\ AloneInv
  /\ OfflineInv
  /\ OfflineProcessInv
  /\ TargetInv
  /\ HandshakeInv
  /\ ReaderInv
  /\ NoOrphan
=============================================================================
