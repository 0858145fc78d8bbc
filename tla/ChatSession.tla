---------------------------- MODULE ChatSession ----------------------------
(***************************************************************************)
(* The session of `umg chat`: the target that typed lines go to, the chats  *)
(* and invites it knows, and the lines it is handling.  When input is not a *)
(* terminal, a line is read after the one before has been handled; on a     *)
(* terminal every key is a callback of its own, so lines may be handled     *)
(* side by side, each running from one await to the next.  Inbound events   *)
(* arrive at any await.                                                     *)
(*                                                                          *)
(* A line in progress is a task with the stages it still has to go through. *)
(* An invite and the chat it leads to have the same id.  A transport holds   *)
(* its pending invites in memory: another process of it begins without any. *)
(***************************************************************************)
EXTENDS Sequences, FiniteSets

CONSTANTS
  Transports,
  Chats,
  Tasks,      \* bound: lines in progress at the same time
  Modes,      \* "line": input is piped; "terminal": it is a terminal
  NoTarget,
  Cleared,    \* nothing is shown where the prompt was
  NotServed

Targets == Transports \X Chats

ASSUME ModeAssumption == Modes \subseteq {"line", "terminal"}
ASSUME NoTargetAssumption == NoTarget \notin Targets /\ Cleared \notin Targets \cup {NoTarget}

VARIABLES
  mode,
  input,          \* "open"; "buffered": piped input has ended, and lines of it are left;
                  \* "over": there is no other line
  phase,          \* "starting", "ready", "closing", "ended", or how it failed
  todo,           \* the stages the line in progress has before it
  to,             \* the target the line acts on
  left,           \* the transports whose list it waits for
  snapshot        \* the invites in the answers it has not handled

taskVars == <<todo, to, left, snapshot>>

VARIABLES
  currentTarget,
  knownTargets,
  knownInvites,
  shown           \* the target the prompt on the screen names

VARIABLES
  configured,     \* the manager's transports
  pending,        \* the invites that the transports hold
  joined          \* the chats that the account is in, at the homeserver

external == <<configured, pending, joined>>

VARIABLES
  answered,       \* history: the invites whose answer by the session came back
  crossed,        \* history: those announced before an answer that was computed earlier
  overlapped      \* history: two lines were in progress together

history == <<answered, crossed, overlapped>>

vars == <<mode, input, phase, taskVars, currentTarget, knownTargets, knownInvites, shown,
          external, history>>

Stages == {"connect", "chats", "invites", "health", "status", "send", "accept", "accepted",
           "reject", "rejected", "leave", "left", "apply", "admin"}

Failures == {"connectFailed", "statusFailed", "targetLost"}

TypeOK ==
  /\ mode \in Modes
  /\ input \in {"open", "buffered", "over"}
  /\ phase \in {"starting", "ready", "closing", "ended"} \cup Failures
  /\ todo \in [Tasks -> Seq(Stages)]
  /\ to \in [Tasks -> Targets \cup {NoTarget}]
  /\ left \in [Tasks -> SUBSET Transports]
  /\ snapshot \in [Tasks -> [Transports -> (SUBSET Targets) \cup {NotServed}]]
  /\ currentTarget \in knownTargets \cup {NoTarget}
  /\ knownTargets \subseteq Targets
  /\ knownInvites \subseteq Targets
  /\ shown \in Targets \cup {NoTarget, Cleared}
  /\ configured \subseteq Transports
  /\ pending \subseteq Targets
  /\ joined \subseteq Targets
  /\ answered \subseteq Targets
  /\ crossed \subseteq Targets
  /\ overlapped \in BOOLEAN

Of(t) == {p \in Targets : p[1] = t}

Busy(k) == todo[k] # <<>>
At(k, stages) == Busy(k) /\ Head(todo[k]) \in stages
AllUnserved == [t \in Transports |-> NotServed]
Running == phase \in {"starting", "ready", "closing"}

\* startChatSession(): without a transport there is nothing to start.
Starting == <<"connect", "chats", "invites", "health">>

Init ==
  /\ mode \in Modes
  /\ input = "open"
  /\ configured \in SUBSET Transports
  /\ joined \in SUBSET Targets
  /\ \E k \in Tasks :
       todo = [j \in Tasks |-> IF j = k /\ configured # {} THEN Starting ELSE <<>>]
  /\ phase = IF configured = {} THEN "ready" ELSE "starting"
  /\ to = [k \in Tasks |-> NoTarget]
  /\ left = [k \in Tasks |-> {}]
  /\ snapshot = [k \in Tasks |-> AllUnserved]
  /\ currentTarget = NoTarget
  /\ knownTargets = {}
  /\ knownInvites = {}
  /\ shown = IF configured = {} THEN NoTarget ELSE Cleared
  /\ pending = {}
  /\ answered = {}
  /\ crossed = {}
  /\ overlapped = FALSE

-----------------------------------------------------------------------------
(* The prompt, and the stages of a line.                                    *)

\* Nothing is drawn any more once piped input has ended, also while lines of
\* it are handled.
Draws == mode = "terminal" \/ input = "open"

\* refreshPrompt(): the prompt names the target of this moment.
RefreshPrompt == shown' = IF Draws THEN currentTarget' ELSE shown

\* k's stage is over; with the last one its line is, and the prompt is redrawn.
Advance(k) ==
  /\ todo' = [todo EXCEPT ![k] = Tail(@)]
  /\ to' = IF Tail(todo[k]) = <<>> THEN [to EXCEPT ![k] = NoTarget] ELSE to
  /\ left' = [left EXCEPT ![k] = IF At(k, {"chats", "invites"})' THEN configured' ELSE {}]
  /\ snapshot' = [snapshot EXCEPT ![k] = AllUnserved]
  /\ phase' = IF phase = "starting" /\ Tail(todo[k]) = <<>> THEN "ready" ELSE phase

Redraw(k) == IF Tail(todo[k]) = <<>> THEN RefreshPrompt ELSE UNCHANGED shown

BugEnds(k) ==
  /\ todo' = [todo EXCEPT ![k] = <<>>]
  /\ to' = [to EXCEPT ![k] = NoTarget]
  /\ UNCHANGED <<phase, left, snapshot, shown>>

\* The line ends here, whatever stages it had.
Ends(k) ==
  /\ todo' = [todo EXCEPT ![k] = <<>>]
  /\ to' = [to EXCEPT ![k] = NoTarget]
  /\ RefreshPrompt
  /\ UNCHANGED <<phase, left, snapshot>>

Fails(how) ==
  /\ phase' = how
  /\ UNCHANGED <<mode, input, taskVars, currentTarget, knownTargets, knownInvites, shown,
                 external, history>>

-----------------------------------------------------------------------------
(* Lines the user enters.                                                   *)

\* Enter is pressed, or the next line of piped input is read.
Enter ==
  /\ phase = "ready"
  /\ mode = "line" => input # "over" /\ \A k \in Tasks : ~Busy(k)
  /\ overlapped' = (overlapped \/ \E k \in Tasks : Busy(k))
  /\ UNCHANGED <<mode, input, phase, external, answered, crossed>>

\* The line takes a call: the prompt is gone until it ends.
Begin(k, stages, target) ==
  /\ Enter
  /\ ~Busy(k)
  /\ todo' = [todo EXCEPT ![k] = stages]
  /\ to' = [to EXCEPT ![k] = target]
  /\ shown' = IF mode = "terminal" THEN Cleared ELSE shown
  /\ UNCHANGED <<left, snapshot, currentTarget, knownTargets, knownInvites>>

\* The manager has the target's transport; otherwise the call fails at once.
Reachable(p) == p # NoTarget /\ p[1] \in configured

\* Text goes to the target of the moment Enter is pressed.
Say(k) == Reachable(currentTarget) /\ Begin(k, <<"send">>, currentTarget)

Accept(k, p) == Reachable(p) /\ Begin(k, <<"accept", "accepted">>, p)
Reject(k, p) == Reachable(p) /\ Begin(k, <<"reject", "rejected">>, p)

\* Of an explicit chat, or of the current target.
Leave(k, p) == Reachable(p) /\ Begin(k, <<"leave", "left">>, p)

Status(k) == Begin(k, <<"status", "invites", "health">>, NoTarget)

\* /configure, /connect and /disconnect.
Admin(k) == Begin(k, <<"apply", "admin", "chats", "invites">>, NoTarget)

SetTarget(p) ==
  /\ Enter
  /\ p[1] \in configured
  /\ knownTargets' = knownTargets \cup {p}
  /\ currentTarget' = p
  /\ RefreshPrompt
  /\ UNCHANGED <<taskVars, knownInvites>>

\* A blank or unknown line, a usage error, text without a target, and a call
\* to a transport the manager does not have.
OtherLine ==
  /\ Enter
  /\ UNCHANGED <<taskVars, currentTarget, knownTargets, knownInvites>>
  /\ RefreshPrompt

\* Piped input ends.  Lines that came while the session was starting are lost;
\* later, those that were read before are handled yet.
InputEnds ==
  /\ mode = "line"
  /\ input = "open"
  /\ phase \in {"starting", "ready"}
  /\ input' = IF phase = "starting" THEN "over" ELSE "buffered"
  /\ UNCHANGED <<mode, phase, taskVars, currentTarget, knownTargets, knownInvites, shown,
                 external, history>>

\* /quit, the last line, and on a terminal Ctrl+C.
Quit ==
  /\ phase = "ready"
  /\ mode = "line" => \A k \in Tasks : ~Busy(k)
  /\ phase' = IF mode = "line" THEN "closing" ELSE "ended"
  /\ input' = "over"
  /\ shown' = IF mode = "line" THEN shown ELSE Cleared
  /\ UNCHANGED <<mode, taskVars, currentTarget, knownTargets, knownInvites, external, history>>

\* client.disconnect() after the last line of piped input.
Closed ==
  /\ phase = "closing"
  /\ phase' = "ended"
  /\ UNCHANGED <<mode, input, taskVars, currentTarget, knownTargets, knownInvites, shown,
                 external, history>>

\* Any key that only edits the input redraws the prompt.
Key ==
  /\ mode = "terminal"
  /\ phase = "ready"
  /\ shown # currentTarget
  /\ UNCHANGED <<mode, input, phase, taskVars, currentTarget, knownTargets, knownInvites,
                 external, history>>
  /\ RefreshPrompt

-----------------------------------------------------------------------------
(* What the lines wait for.                                                 *)

Connected(k) ==
  /\ At(k, {"connect"})
  /\ \/ /\ UNCHANGED <<mode, input, currentTarget, knownTargets, knownInvites, external, history>>
        /\ Advance(k)
        /\ Redraw(k)
     \/ Fails("connectFailed")

\* The target that the echo of a text names, and the message of an error.
Named(k) == currentTarget

\* send() has ended, well or not.  Without a target, reading its transport
\* throws, in the handler of the error again, and the session is over.
SendEnds(k) ==
  /\ At(k, {"send"})
  /\ IF Named(k) = NoTarget
     THEN Fails("targetLost")
     ELSE /\ UNCHANGED <<mode, input, currentTarget, knownTargets, knownInvites, external, history>>
          /\ Ends(k)

\* The transport and its homeserver serve an accept, a reject or a leave: of
\* what the chat is to the account by now.  An accepted or rejected invite is
\* not pending any more; one that is left is until the transport hears of it.
Serve(k) ==
  /\ At(k, {"accept", "reject", "leave"})
  /\ joined' = IF At(k, {"accept"}) THEN joined \cup {to[k]} ELSE joined \ {to[k]}
  /\ pending' = IF At(k, {"leave"}) THEN pending ELSE pending \ {to[k]}
  /\ UNCHANGED <<mode, input, currentTarget, knownTargets, knownInvites, shown, configured, history>>
  /\ Advance(k)

\* The call fails, before or after it was served.
CallFails(k) ==
  /\ At(k, {"accept", "accepted", "reject", "rejected", "leave", "left"})
  /\ UNCHANGED <<mode, input, currentTarget, knownTargets, knownInvites, external, history>>
  /\ Ends(k)

BugForgetInvite(p) ==
  /\ answered' = answered \cup ({p} \ pending)
  /\ crossed' = crossed \cup ({p} \cap pending)
  /\ UNCHANGED knownInvites

\* The answer to p's invite is in: it is no longer offered, though it may by
\* now be another invite to the same chat.
ForgetInvite(p) ==
  /\ knownInvites' = knownInvites \ {p}
  /\ answered' = answered \cup ({p} \ pending)
  /\ crossed' = crossed \cup ({p} \cap pending)

Accepted(k) ==
  /\ At(k, {"accepted"})
  /\ ForgetInvite(to[k])
  /\ knownTargets' = knownTargets \cup {to[k]}
  /\ currentTarget' = to[k]
  /\ UNCHANGED <<mode, input, external, overlapped>>
  /\ Ends(k)

Rejected(k) ==
  /\ At(k, {"rejected"})
  /\ ForgetInvite(to[k])
  /\ UNCHANGED <<mode, input, currentTarget, knownTargets, external, overlapped>>
  /\ Ends(k)

Left(k) ==
  /\ At(k, {"left"})
  /\ currentTarget' = IF currentTarget = to[k] THEN NoTarget ELSE currentTarget
  /\ UNCHANGED <<mode, input, knownTargets, knownInvites, external, history>>
  /\ Ends(k)

\* /status runs the admin command outside any try: an unreadable
\* configuration ends the session.  Its event redraws the prompt.
StatusEnds(k) ==
  /\ At(k, {"status"})
  /\ \/ /\ UNCHANGED <<mode, input, currentTarget, knownTargets, knownInvites, external, history>>
        /\ Advance(k)
        /\ RefreshPrompt
     \/ Fails("statusFailed")

\* The command replaces the manager's transports by new ones, or is refused.
Applies(k) ==
  /\ At(k, {"apply"})
  /\ \/ configured' \in SUBSET Transports /\ pending' = {}
     \/ UNCHANGED <<configured, pending>>
  /\ UNCHANGED <<mode, input, currentTarget, knownTargets, knownInvites, shown, joined, history>>
  /\ Advance(k)

\* The configuration cannot be read: nothing is applied.
AdminThrows(k) ==
  /\ At(k, {"apply"})
  /\ UNCHANGED <<mode, input, currentTarget, knownTargets, knownInvites, external, history>>
  /\ Ends(k)

BugAdminEnds(k) ==
  /\ At(k, {"admin"})
  /\ UNCHANGED <<mode, input, currentTarget, knownTargets, knownInvites, external, history>>
  /\ RefreshPrompt
  /\ Advance(k)

\* The event admin_result redraws the prompt, then the line goes on: a target
\* whose transport is gone is dropped.
AdminEnds(k) ==
  /\ At(k, {"admin"})
  /\ shown' = IF Draws THEN currentTarget ELSE shown
  /\ currentTarget' = IF currentTarget # NoTarget /\ currentTarget[1] \notin configured
                      THEN NoTarget ELSE currentTarget
  /\ UNCHANGED <<mode, input, knownTargets, knownInvites, external, history>>
  /\ Advance(k)

ListChats(k, t) ==
  /\ At(k, {"chats"})
  /\ t \in left[k]
  /\ left' = [left EXCEPT ![k] = @ \ {t}]
  /\ knownTargets' = knownTargets \cup (Of(t) \cap joined)
  /\ UNCHANGED <<mode, input, phase, todo, to, snapshot, currentTarget, knownInvites, shown,
                 external, history>>

\* list_invites answers what the transport holds at that moment.
ServeInvites(k, t) ==
  /\ At(k, {"invites"})
  /\ t \in left[k]
  /\ snapshot[k][t] = NotServed
  /\ snapshot' = [snapshot EXCEPT ![k][t] = Of(t) \cap pending]
  /\ UNCHANGED <<mode, input, phase, todo, to, left, currentTarget, knownTargets, knownInvites,
                 shown, external, history>>

\* The answer replaces what was known of the transport's invites, those
\* announced since it was computed included.
KeepInvites(k, t) ==
  /\ At(k, {"invites"})
  /\ t \in left[k]
  /\ snapshot[k][t] # NotServed
  /\ knownInvites' = (knownInvites \ Of(t)) \cup snapshot[k][t]
  /\ left' = [left EXCEPT ![k] = @ \ {t}]
  /\ crossed' = (crossed \ Of(t)) \cup ((pending \cap Of(t)) \ snapshot[k][t])
  /\ UNCHANGED <<mode, input, phase, todo, to, snapshot, currentTarget, knownTargets, shown,
                 external, answered, overlapped>>

ListFails(k, t) ==
  /\ At(k, {"chats", "invites"})
  /\ t \in left[k]
  /\ left' = [left EXCEPT ![k] = @ \ {t}]
  /\ UNCHANGED <<mode, input, phase, todo, to, snapshot, currentTarget, knownTargets, knownInvites,
                 shown, external, history>>

\* Every list is in, or every health check was written.
Listed(k) ==
  /\ \/ At(k, {"chats", "invites"}) /\ left[k] = {}
     \/ At(k, {"health"})
  /\ UNCHANGED <<mode, input, currentTarget, knownTargets, knownInvites, external, history>>
  /\ Advance(k)
  /\ Redraw(k)

-----------------------------------------------------------------------------
(* What happens outside the session, and inbound events.                    *)

Invite(p) ==
  /\ Running
  /\ p[1] \in configured
  /\ p \notin joined
  /\ pending' = pending \cup {p}
  /\ knownInvites' = knownInvites \cup {p}
  /\ answered' = answered \ {p}
  /\ crossed' = crossed \ {p}
  /\ UNCHANGED <<mode, input, phase, taskVars, currentTarget, knownTargets, configured, joined,
                 overlapped>>
  /\ RefreshPrompt

\* The transport hears that an invite was withdrawn, left or accepted on
\* another device: the session is not told.
Withdrawn(p) ==
  /\ Running
  /\ p \in pending
  /\ pending' = pending \ {p}
  /\ joined' \in {joined, joined \cup {p}}
  /\ UNCHANGED <<mode, input, phase, taskVars, currentTarget, knownTargets, knownInvites, shown,
                 configured, history>>

BugInbound(p) ==
  /\ Running
  /\ p[1] \in configured
  /\ p \in joined
  /\ knownTargets' = knownTargets \cup {p}
  /\ currentTarget' = p
  /\ UNCHANGED <<mode, input, phase, taskVars, knownInvites, external, history>>
  /\ RefreshPrompt

\* A message, or one that could not be decrypted: its chat becomes the target
\* if there is none.
Inbound(p) ==
  /\ Running
  /\ p[1] \in configured
  /\ p \in joined
  /\ knownTargets' = knownTargets \cup {p}
  /\ currentTarget' = IF currentTarget = NoTarget THEN p ELSE currentTarget
  /\ UNCHANGED <<mode, input, phase, taskVars, knownInvites, external, history>>
  /\ RefreshPrompt

-----------------------------------------------------------------------------

Line(k) ==
  \/ Say(k)
  \/ \E p \in Targets : Accept(k, p) \/ Reject(k, p) \/ Leave(k, p)
  \/ Status(k)
  \/ Admin(k)

Resume(k) ==
  /\ Running
  /\ \/ Connected(k)
     \/ SendEnds(k)
     \/ Serve(k)
     \/ CallFails(k)
     \/ Accepted(k)
     \/ Rejected(k)
     \/ Left(k)
     \/ StatusEnds(k)
     \/ Applies(k)
     \/ AdminThrows(k)
     \/ AdminEnds(k)
     \/ \E t \in Transports :
          ListChats(k, t) \/ ServeInvites(k, t) \/ KeepInvites(k, t) \/ ListFails(k, t)
     \/ Listed(k)

Next ==
  \/ \E k \in Tasks : Line(k) \/ Resume(k)
  \/ \E p \in Targets : SetTarget(p) \/ Invite(p) \/ Withdrawn(p) \/ Inbound(p)
  \/ OtherLine
  \/ InputEnds
  \/ Quit
  \/ Closed
  \/ Key

Spec == Init /\ [][Next]_vars

-----------------------------------------------------------------------------
(* Properties.                                                              *)

\* While lines are entered one after the other, the echo "[chat] me: text"
\* names the chat that the text went to: whatever arrives while it is being
\* sent, the target is then still the one it was sent to (chat.ts:686).
EchoNamesTheChat ==
  [][\A k \in Tasks : SendEnds(k) /\ ~overlapped => Named(k) = to[k]]_vars

\* False of this code: a call that fails is reported and the session goes on
\* (tests/chat.test.ts:76).  A text's target may have been left by the time its
\* call comes back (chat.ts:686 and 692).
SessionSurvives == phase # "targetLost"

\* The invites offered for completion and counted by /status: one that its
\* transport holds is among them, unless it was announced between the answer
\* to a call and the handling of that answer (chat.ts:543 replaces, 888 and 911
\* delete); and while lines are entered one after the other, one that the
\* session has answered is not, whatever was announced, withdrawn or reloaded.
InviteListTrue ==
  /\ pending \subseteq knownInvites \cup crossed
  /\ ~overlapped => answered \cap knownInvites = {}

\* As long as the prompt is drawn at all, it never names one chat while text
\* would go to another (interactive-dev-chat-cli.md:95): when it is behind,
\* there is no target.  The lines left of piped input that has ended go to a
\* target that no prompt names (chat.ts:196).
PromptNeverLies ==
  Draws => (shown \in Targets /\ currentTarget # NoTarget => shown = currentTarget)

\* Between lines entered one after the other, the target is of a transport
\* the manager has: /disconnect and /configure drop it otherwise, whatever
\* arrived while they were applied (chat.ts:758).
TargetConfigured ==
  phase = "ready" /\ ~overlapped /\ (\A k \in Tasks : ~Busy(k)) =>
    currentTarget = NoTarget \/ Reachable(currentTarget)
-----------------------------------------------------------------------------
(* The inductive invariant of Chat_proofs.                                  *)

\* What a line that is in progress may have before it.
Remainders ==
  {Starting, <<"chats", "invites", "health">>, <<"status", "invites", "health">>,
   <<"invites", "health">>, <<"health">>, <<"send">>,
   <<"accept", "accepted">>, <<"accepted">>, <<"reject", "rejected">>, <<"rejected">>,
   <<"leave", "left">>, <<"left">>, <<"apply", "admin", "chats", "invites">>,
   <<"admin", "chats", "invites">>, <<"chats", "invites">>, <<"invites">>}

Targeted == {"send", "accept", "accepted", "reject", "rejected", "leave", "left"}

\* A line has one of these before it, and acts on a target if it needs one.
LineInv ==
  \A k \in Tasks : Busy(k) => todo[k] \in Remainders /\ (At(k, Targeted) => to[k] \in Targets)

\* Lines that were entered in turn are alone, as those of piped input are.
TurnInv ==
  /\ mode = "line" => ~overlapped
  /\ ~overlapped => \A j, k \in Tasks : Busy(j) /\ Busy(k) => j = k
  /\ phase = "closing" => \A k \in Tasks : ~Busy(k)

\* Only a line that waits for lists of invites has answers, and of lines that
\* were entered in turn they do not hold what the session answered.
AnswerInv ==
  /\ answered \cap pending = {}
  /\ \A k \in Tasks, t \in Transports : snapshot[k][t] # NotServed =>
       At(k, {"invites"}) /\ (~overlapped => snapshot[k][t] \cap answered = {})

\* Of lines entered in turn only an admin command takes transports away, and it
\* is between that and dropping the target for one step.
ReachInv ==
  ~overlapped =>
    /\ (\A k \in Tasks : ~At(k, {"admin"})) => currentTarget = NoTarget \/ Reachable(currentTarget)
    /\ \A k \in Tasks : At(k, Targeted) => Reachable(to[k])
    /\ \A k \in Tasks : At(k, {"send"}) => to[k] = currentTarget

\* The prompt is behind only while a command that dropped the target goes on.
BehindInv ==
  Draws /\ shown \in Targets /\ shown # currentTarget =>
    /\ currentTarget = NoTarget
    /\ \E k \in Tasks : todo[k] \in {<<"chats", "invites">>, <<"invites">>}

IInv ==
  /\ TypeOK
  /\ LineInv
  /\ TurnInv
  /\ AnswerInv
  /\ InviteListTrue
  /\ ReachInv
  /\ BehindInv
=============================================================================
