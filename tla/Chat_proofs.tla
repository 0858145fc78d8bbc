---------------------------- MODULE Chat_proofs ----------------------------
(***************************************************************************)
(* Proofs about `umg chat`: about ChatSession for any transports and chats,  *)
(* any number of lines in progress and events at any moment; and about       *)
(* ChatPrompt for any keys and pastes, chats and invites.                    *)
(***************************************************************************)
EXTENDS ChatSession, ChatPrompt, TLAPS, SequenceTheorems, FiniteSetTheorems

-----------------------------------------------------------------------------
(* The stages of a line.                                                    *)

\* What follows the first of the stages s.
Follows(s) ==
  /\ s \in Seq(Stages) /\ Tail(s) \in Seq(Stages)
  /\ Tail(s) \in Remainders \cup {<<>>}
  /\ Head(s) = "admin" => s = <<"admin", "chats", "invites">>
  /\ Head(s) = "apply" => Tail(s) = <<"admin", "chats", "invites">>
  /\ Head(s) = "send" => Tail(s) = <<>>
  /\ Tail(s) # <<>> =>
       /\ Head(Tail(s)) \in Targeted => Head(s) \in Targeted
       /\ Head(Tail(s)) # "send"
       /\ Head(Tail(s)) = "admin" => Head(s) = "apply"
       /\ s \in {<<"chats", "invites">>, <<"invites">>} => Tail(s) = <<"invites">>

LEMMA RemainderFollows ==
  ASSUME NEW s \in Remainders
  PROVE  Follows(s)
<1>1. Follows(<<"connect", "chats", "invites", "health">>)
  BY DEF Follows, Remainders, Stages, Targeted
<1>2. Follows(<<"chats", "invites", "health">>) /\ Follows(<<"status", "invites", "health">>)
  BY DEF Follows, Remainders, Stages, Targeted
<1>3. Follows(<<"apply", "admin", "chats", "invites">>)
  BY DEF Follows, Remainders, Stages, Targeted
<1>4. Follows(<<"admin", "chats", "invites">>)
  BY DEF Follows, Remainders, Stages, Targeted
<1>5. Follows(<<"invites", "health">>) /\ Follows(<<"chats", "invites">>)
  BY DEF Follows, Remainders, Stages, Targeted
<1>6. Follows(<<"accept", "accepted">>) /\ Follows(<<"reject", "rejected">>)
  BY DEF Follows, Remainders, Stages, Targeted
<1>7. Follows(<<"leave", "left">>) /\ Follows(<<"health">>) /\ Follows(<<"send">>)
  BY DEF Follows, Remainders, Stages, Targeted
<1>8. Follows(<<"accepted">>) /\ Follows(<<"rejected">>) /\ Follows(<<"left">>)
      /\ Follows(<<"invites">>)
  BY DEF Follows, Remainders, Stages, Targeted
<1> QED
  BY <1>1, <1>2, <1>3, <1>4, <1>5, <1>6, <1>7, <1>8 DEF Remainders, Starting

LEMMA Known ==
  ASSUME TypeOK
  PROVE  /\ currentTarget # NoTarget => currentTarget \in Targets
         /\ Starting # <<>>
         /\ Starting \in Remainders
BY DEF TypeOK, Remainders, Starting

-----------------------------------------------------------------------------
(* What the steps do to the lines in progress.                              *)

\* A line that is begun has all its stages before it.
LEMMA Begins ==
  ASSUME TypeOK, LineInv, NEW k \in Tasks, NEW stages, NEW target,
         stages \in Remainders, target \in Targets \cup {NoTarget},
         Head(stages) \in Targeted => target \in Targets,
         Begin(k, stages, target)
  PROVE  TypeOK' /\ LineInv'
<1>1. stages \in Seq(Stages)
  BY RemainderFollows DEF Follows
<1>2. TypeOK'
  BY <1>1 DEF TypeOK, Begin, Enter, external
<1>3. ASSUME NEW j \in Tasks, Busy(j)'
      PROVE  todo'[j] \in Remainders /\ (At(j, Targeted)' => to'[j] \in Targets)
  <2>1. CASE j = k
    BY <2>1, <1>3 DEF TypeOK, Begin, At
  <2>2. CASE j # k
    BY <2>2, <1>3 DEF TypeOK, Begin, At, Busy, LineInv
  <2> QED
    BY <2>1, <2>2
<1> QED
  BY <1>2, <1>3 DEF LineInv

\* One that goes on has the rest, or is over.
LEMMA Advances ==
  ASSUME TypeOK, LineInv, NEW k \in Tasks, Busy(k), Advance(k), configured' \subseteq Transports
  PROVE  /\ todo' \in [Tasks -> Seq(Stages)]
         /\ to' \in [Tasks -> Targets \cup {NoTarget}]
         /\ left' \in [Tasks -> SUBSET Transports]
         /\ snapshot' \in [Tasks -> [Transports -> (SUBSET Targets) \cup {NotServed}]]
         /\ phase' \in {"starting", "ready", "closing", "ended"} \cup Failures
         /\ LineInv'
<1>1. Follows(todo[k])
  BY RemainderFollows DEF LineInv
<1>2. Tail(todo[k]) \in Seq(Stages)
  BY <1>1 DEF Follows
<1>3. ASSUME NEW j \in Tasks, Busy(j)'
      PROVE  todo'[j] \in Remainders /\ (At(j, Targeted)' => to'[j] \in Targets)
  <2>1. CASE j = k
    BY <2>1, <1>1, <1>3 DEF TypeOK, Advance, At, Busy, LineInv, Follows
  <2>2. CASE j # k
    BY <2>2, <1>3 DEF TypeOK, Advance, At, Busy, LineInv
  <2> QED
    BY <2>1, <2>2
<1>4. LineInv'
  BY <1>3 DEF LineInv
<1>5. snapshot' \in [Tasks -> [Transports -> (SUBSET Targets) \cup {NotServed}]]
  BY DEF TypeOK, Advance, AllUnserved
<1> QED
  BY <1>2, <1>4, <1>5 DEF TypeOK, Advance

LEMMA EndOfLine ==
  ASSUME TypeOK, LineInv, NEW k \in Tasks, Ends(k)
  PROVE  /\ todo' \in [Tasks -> Seq(Stages)]
         /\ to' \in [Tasks -> Targets \cup {NoTarget}]
         /\ LineInv'
         /\ UNCHANGED <<phase, left, snapshot>>
<1>1. <<>> \in Seq(Stages)
  OBVIOUS
<1>2. ASSUME NEW j \in Tasks, Busy(j)'
      PROVE  todo'[j] \in Remainders /\ (At(j, Targeted)' => to'[j] \in Targets)
  <2>1. j # k
    BY <1>2 DEF TypeOK, Ends, Busy
  <2> QED
    BY <2>1, <1>2 DEF TypeOK, Ends, At, Busy, LineInv
<1> QED
  BY <1>1, <1>2 DEF TypeOK, Ends, LineInv

LEMMA BeginTypes ==
  ASSUME TypeOK, LineInv, NEW k \in Tasks, Line(k)
  PROVE  TypeOK' /\ LineInv'
<1> USE DEF Targeted, Remainders
<1>1. CASE Say(k)
  BY <1>1, Known, Begins DEF Say, Reachable
<1>2. CASE \E p \in Targets : Accept(k, p) \/ Reject(k, p) \/ Leave(k, p)
  BY <1>2, Begins DEF Accept, Reject, Leave
<1>3. CASE Status(k) \/ Admin(k)
  BY <1>3, Begins DEF Status, Admin
<1> QED
  BY <1>1, <1>2, <1>3 DEF Line

LEMMA ResumeTypes ==
  ASSUME TypeOK, LineInv, NEW k \in Tasks, Resume(k)
  PROVE  TypeOK' /\ LineInv'
<1>1. CASE Connected(k) \/ SendEnds(k) \/ StatusEnds(k)
  <2>1. CASE \E how \in Failures : Fails(how)
    BY <2>1 DEF Fails, TypeOK, LineInv, taskVars, external, history, Busy, At
  <2>2. CASE /\ Busy(k) /\ Advance(k) /\ (Redraw(k) \/ RefreshPrompt)
             /\ UNCHANGED <<mode, input, currentTarget, knownTargets, knownInvites, external,
                            history>>
    BY <2>2, Advances DEF TypeOK, Redraw, RefreshPrompt, external, history
  <2>3. CASE /\ Ends(k)
             /\ UNCHANGED <<mode, input, currentTarget, knownTargets, knownInvites, external,
                            history>>
    BY <2>3, EndOfLine DEF TypeOK, Ends, RefreshPrompt, external, history
  <2> QED
    BY <1>1, <2>1, <2>2, <2>3 DEF Connected, SendEnds, StatusEnds, Failures, At
<1>2. CASE Serve(k)
  <2>1. Busy(k) /\ Advance(k)
        /\ UNCHANGED <<mode, input, currentTarget, knownTargets, knownInvites, shown, configured,
                       history>>
    BY <1>2 DEF Serve, At
  <2>2. to[k] \in Targets
    BY <1>2 DEF Serve, LineInv, At, Targeted
  <2>3. pending' \subseteq Targets /\ joined' \subseteq Targets
    BY <1>2, <2>2 DEF Serve, TypeOK
  <2> QED
    BY <2>1, <2>3, Advances DEF TypeOK, history
<1>3. CASE CallFails(k) \/ AdminThrows(k)
  BY <1>3, EndOfLine DEF CallFails, AdminThrows, TypeOK, Ends, RefreshPrompt, external, history
<1>4. CASE Accepted(k) \/ Rejected(k) \/ Left(k)
  <2>1. to[k] \in Targets
    BY <1>4 DEF Accepted, Rejected, Left, LineInv, At, Targeted
  <2>2. Ends(k) /\ UNCHANGED <<mode, input, external, overlapped>>
    BY <1>4 DEF Accepted, Rejected, Left, history
  <2>3. knownInvites' \subseteq Targets /\ answered' \subseteq Targets /\ crossed' \subseteq Targets
    BY <1>4, <2>1 DEF Accepted, Rejected, Left, ForgetInvite, TypeOK, history
  <2>4. currentTarget' \in knownTargets' \cup {NoTarget} /\ knownTargets' \subseteq Targets
    BY <1>4, <2>1 DEF Accepted, Rejected, Left, TypeOK
  <2> QED
    BY <2>2, <2>3, <2>4, EndOfLine DEF TypeOK, Ends, RefreshPrompt, external
<1>5. CASE Applies(k)
  BY <1>5, Advances DEF Applies, TypeOK, At, history
<1>6. CASE AdminEnds(k)
  BY <1>6, Advances DEF AdminEnds, TypeOK, At, external, history
<1>7. CASE Listed(k)
  <2>1. Busy(k)
    BY <1>7 DEF Listed, At
  <2> QED
    BY <2>1, <1>7, Advances DEF Listed, TypeOK, Redraw, RefreshPrompt, external, history
<1>8. ASSUME NEW t \in Transports,
             ListChats(k, t) \/ ServeInvites(k, t) \/ KeepInvites(k, t) \/ ListFails(k, t)
      PROVE  TypeOK' /\ LineInv'
  <2>1. LineInv'
    BY <1>8 DEF ListChats, ServeInvites, KeepInvites, ListFails, LineInv, Busy, At
  <2>2. CASE ListChats(k, t) \/ ListFails(k, t)
    BY <2>1, <2>2 DEF ListChats, ListFails, TypeOK, Of, external, history
  <2>3. CASE ServeInvites(k, t)
    BY <2>1, <2>3 DEF ServeInvites, TypeOK, Of, external, history
  <2>4. CASE KeepInvites(k, t)
    <3>1. snapshot[k][t] \subseteq Targets
      BY <2>4 DEF KeepInvites, TypeOK
    <3>2. crossed' \subseteq Targets
      BY <2>4 DEF KeepInvites, TypeOK
    <3> QED
      BY <2>1, <2>4, <3>1, <3>2 DEF KeepInvites, TypeOK, external
  <2> QED
    BY <1>8, <2>1, <2>2, <2>3, <2>4
<1> QED
  BY <1>1, <1>2, <1>3, <1>4, <1>5, <1>6, <1>7, <1>8 DEF Resume

LEMMA TypeStep == TypeOK /\ LineInv /\ [Next]_vars => TypeOK' /\ LineInv'
<1> SUFFICES ASSUME TypeOK, LineInv, [Next]_vars PROVE TypeOK' /\ LineInv'
  OBVIOUS
<1>1. ASSUME NEW k \in Tasks, Line(k) \/ Resume(k) PROVE TypeOK' /\ LineInv'
  BY <1>1, BeginTypes, ResumeTypes
<1>2. ASSUME NEW p \in Targets, SetTarget(p) \/ Invite(p) \/ Withdrawn(p) \/ Inbound(p) PROVE TypeOK' /\ LineInv'
  <2>1. LineInv'
    BY <1>2 DEF SetTarget, Invite, Withdrawn, Inbound, taskVars, LineInv, Busy, At
  <2>2. CASE SetTarget(p)
    BY <2>1, <2>2 DEF SetTarget, Enter, TypeOK, taskVars, RefreshPrompt, external
  <2>3. CASE Invite(p) \/ Withdrawn(p)
    BY <2>1, <2>3 DEF Invite, Withdrawn, TypeOK, taskVars, RefreshPrompt, history
  <2>4. CASE Inbound(p)
    BY <2>1, <2>4 DEF Inbound, TypeOK, taskVars, RefreshPrompt, external, history
  <2> QED
    BY <1>2, <2>1, <2>2, <2>3, <2>4
<1>3. CASE OtherLine \/ InputEnds \/ Quit \/ Closed \/ Key
  <2>1. LineInv'
    BY <1>3 DEF OtherLine, InputEnds, Quit, Closed, Key, taskVars, LineInv, Busy, At
  <2> QED
    BY <1>3, <2>1 DEF OtherLine, Enter, InputEnds, Quit, Closed, Key, TypeOK, taskVars,
                      RefreshPrompt, external, history
<1>4. CASE UNCHANGED vars
  BY <1>4 DEF vars, taskVars, external, history, TypeOK, LineInv, Busy, At
<1> QED
  BY <1>1, <1>2, <1>3, <1>4 DEF Next

-----------------------------------------------------------------------------
(* Lines entered in turn.                                                   *)

\* A line that is resumed goes on or ends, and leaves the others alone.
LEMMA Resumes ==
  ASSUME TypeOK, NEW k \in Tasks, Resume(k)
  PROVE  /\ Busy(k)
         /\ mode' = mode /\ overlapped' = overlapped
         /\ phase' = "closing" => phase = "closing"
         /\ todo'[k] \in {todo[k], Tail(todo[k]), <<>>}
         /\ todo'[k] = <<>> \/ to'[k] = to[k]
         /\ \A j \in Tasks \ {k} : todo'[j] = todo[j] /\ to'[j] = to[j]
<1> DEFINE GoesOn == Busy(k) /\ Advance(k)
                     /\ UNCHANGED <<mode, overlapped>>
           IsOver == Busy(k) /\ Ends(k) /\ UNCHANGED <<mode, overlapped>>
           Waits == Busy(k) /\ UNCHANGED <<mode, phase, todo, to, overlapped>>
           Breaks == Busy(k) /\ \E how \in Failures : Fails(how)
<1>1. CASE GoesOn
  BY <1>1 DEF Advance, TypeOK
<1>2. CASE IsOver
  BY <1>2 DEF Ends, TypeOK
<1>3. CASE Waits
  BY <1>3
<1>4. CASE Breaks
  BY <1>4 DEF Fails, Failures, taskVars, history
<1>5. Connected(k) \/ SendEnds(k) \/ StatusEnds(k) => GoesOn \/ IsOver \/ Breaks
  BY DEF Connected, SendEnds, StatusEnds, Failures, At, history
<1>6. Serve(k) \/ Applies(k) \/ AdminEnds(k) \/ Listed(k) => GoesOn
  BY DEF Serve, Applies, AdminEnds, Listed, At, history
<1>7. CallFails(k) \/ Accepted(k) \/ Rejected(k) \/ Left(k) \/ AdminThrows(k) => IsOver
  BY DEF CallFails, Accepted, Rejected, Left, AdminThrows, At, history
<1>8. ASSUME NEW t \in Transports
      PROVE  ListChats(k, t) \/ ServeInvites(k, t) \/ KeepInvites(k, t) \/ ListFails(k, t) => Waits
  BY DEF ListChats, ServeInvites, KeepInvites, ListFails, At, history
<1> QED
  BY <1>1, <1>2, <1>3, <1>4, <1>5, <1>6, <1>7, <1>8 DEF Resume

LEMMA TurnStep == IInv /\ [Next]_vars => TurnInv'
<1> SUFFICES ASSUME IInv, [Next]_vars PROVE TurnInv'
  OBVIOUS
<1> USE DEF IInv
<1>1. ASSUME NEW k \in Tasks, Line(k) PROVE TurnInv'
  <2>1. /\ Enter
        /\ \A j \in Tasks \ {k} : todo'[j] = todo[j]
    BY <1>1 DEF Line, Say, Accept, Reject, Leave, Status, Admin, Begin, TypeOK
  <2> QED
    BY <2>1 DEF Enter, TurnInv, Busy
<1>2. ASSUME NEW k \in Tasks, Resume(k) PROVE TurnInv'
  <2>1. \A j \in Tasks : Busy(j)' => Busy(j)
    BY <1>2, Resumes DEF Busy
  <2> QED
    BY <1>2, <2>1, Resumes DEF TurnInv
<1>3. ASSUME NEW p \in Targets, SetTarget(p) \/ Invite(p) \/ Withdrawn(p) \/ Inbound(p) PROVE TurnInv'
  <2>1. CASE SetTarget(p)
    BY <2>1 DEF SetTarget, Enter, taskVars, TurnInv, Busy, TypeOK
  <2>2. CASE Invite(p) \/ Withdrawn(p) \/ Inbound(p)
    BY <2>2 DEF Invite, Withdrawn, Inbound, taskVars, history, TurnInv, Busy
  <2> QED
    BY <1>3, <2>1, <2>2
<1>4. CASE OtherLine \/ InputEnds \/ Quit \/ Closed \/ Key
  BY <1>4 DEF OtherLine, Enter, InputEnds, Quit, Closed, Key, taskVars, history, TurnInv, Busy,
              TypeOK
<1>5. CASE UNCHANGED vars
  BY <1>5 DEF vars, taskVars, history, TurnInv, Busy
<1> QED
  BY <1>1, <1>2, <1>3, <1>4, <1>5 DEF Next

-----------------------------------------------------------------------------
(* Invites.                                                                 *)

\* No answered invite is pending: one that is announced is not answered.
LEMMA PendingStep == IInv /\ [Next]_vars => (answered \cap pending = {})'
<1> SUFFICES ASSUME IInv, [Next]_vars PROVE answered' \cap pending' = {}
  OBVIOUS
<1> USE DEF IInv, AnswerInv
<1>1. ASSUME UNCHANGED answered, pending' \subseteq pending PROVE answered' \cap pending' = {}
  BY <1>1
<1>2. ASSUME NEW p \in Targets, SetTarget(p) \/ Invite(p) \/ Withdrawn(p) \/ Inbound(p)
      PROVE  answered' \cap pending' = {}
  BY <1>2, <1>1 DEF SetTarget, Enter, Invite, Withdrawn, Inbound, external, history
<1>3. ASSUME NEW k \in Tasks, Line(k) PROVE answered' \cap pending' = {}
  BY <1>3, <1>1 DEF Line, Say, Accept, Reject, Leave, Status, Admin, Begin, Enter, external
<1>4. ASSUME NEW k \in Tasks, Resume(k) PROVE answered' \cap pending' = {}
  <2>1. CASE Connected(k) \/ SendEnds(k) \/ StatusEnds(k) \/ Serve(k) \/ CallFails(k) \/ Left(k)
    BY <2>1, <1>1 DEF Connected, SendEnds, StatusEnds, Serve, CallFails, Left, Fails, external,
                      history
  <2>2. CASE Accepted(k) \/ Rejected(k)
    BY <2>2 DEF Accepted, Rejected, ForgetInvite, external
  <2>3. CASE Applies(k) \/ AdminThrows(k) \/ AdminEnds(k) \/ Listed(k)
    BY <2>3, <1>1 DEF Applies, AdminThrows, AdminEnds, Listed, external, history
  <2>4. ASSUME NEW t \in Transports,
               ListChats(k, t) \/ ServeInvites(k, t) \/ KeepInvites(k, t) \/ ListFails(k, t)
        PROVE  answered' \cap pending' = {}
    BY <2>4, <1>1 DEF ListChats, ServeInvites, KeepInvites, ListFails, external, history
  <2> QED
    BY <1>4, <2>1, <2>2, <2>3, <2>4 DEF Resume
<1>5. CASE OtherLine \/ InputEnds \/ Quit \/ Closed \/ Key
  BY <1>5, <1>1 DEF OtherLine, Enter, InputEnds, Quit, Closed, Key, external, history
<1> QED
  BY <1>1, <1>2, <1>3, <1>4, <1>5 DEF Next, vars, external, history

LEMMA AnswerStep == IInv /\ [Next]_vars => AnswerInv'
<1> DEFINE Held ==
      \A k \in Tasks, t \in Transports : snapshot[k][t] # NotServed =>
        At(k, {"invites"}) /\ (~overlapped => snapshot[k][t] \cap answered = {})
<1> SUFFICES ASSUME IInv, [Next]_vars PROVE Held'
  BY PendingStep DEF AnswerInv
<1> USE DEF IInv
<1>1. ASSUME UNCHANGED <<todo, snapshot>>, answered' \subseteq answered, overlapped => overlapped'
      PROVE  Held'
  BY <1>1 DEF AnswerInv, At, Busy
<1>2. ASSUME NEW k \in Tasks, Advance(k), UNCHANGED <<answered, overlapped>> PROVE Held'
  BY <1>2 DEF Advance, AllUnserved, AnswerInv, TypeOK, At, Busy
<1>3. ASSUME NEW k \in Tasks, ~At(k, {"invites"}), Ends(k) \/ \E s, p : Begin(k, s, p),
             answered' \subseteq answered \/ (Busy(k) /\ Ends(k)), overlapped => overlapped'
      PROVE  Held'
  <2>1. UNCHANGED snapshot /\ \A t \in Transports : snapshot[k][t] = NotServed
    BY <1>3 DEF AnswerInv, Ends, Begin
  <2>2. \A j \in Tasks \ {k} : At(j, {"invites"}) => At(j, {"invites"})'
    BY <1>3 DEF Ends, Begin, At, Busy, TypeOK
  <2>3. ~overlapped /\ Busy(k) =>
          \A j \in Tasks \ {k}, t \in Transports : snapshot[j][t] = NotServed
    BY DEF TurnInv, AnswerInv, At
  <2> QED
    BY <1>3, <2>1, <2>2, <2>3 DEF AnswerInv
<1>4. ASSUME NEW k \in Tasks, NEW t \in Transports, ServeInvites(k, t) PROVE Held'
  <2>1. UNCHANGED <<todo, answered, overlapped>> /\ At(k, {"invites"})
        /\ snapshot' = [snapshot EXCEPT ![k][t] = Of(t) \cap pending]
    BY <1>4 DEF ServeInvites, history
  <2> QED
    BY <2>1 DEF AnswerInv, TypeOK, At, Busy
<1>5. ASSUME NEW k \in Tasks, Line(k) PROVE Held'
  <2>1. Enter /\ ~Busy(k) /\ \E s, p : Begin(k, s, p)
    BY <1>5 DEF Line, Say, Accept, Reject, Leave, Status, Admin, Begin
  <2> QED
    BY <2>1, <1>3 DEF Enter, At
<1>6. ASSUME NEW k \in Tasks, Resume(k) PROVE Held'
  <2>1. CASE \E how \in Failures : Fails(how)
    BY <2>1, <1>1 DEF Fails, taskVars, history
  <2>2. CASE Advance(k) /\ UNCHANGED <<answered, overlapped>>
    BY <2>2, <1>2
  <2>3. CASE SendEnds(k) \/ CallFails(k) \/ Accepted(k) \/ Rejected(k) \/ Left(k) \/ AdminThrows(k)
    <3>1. Busy(k) /\ ~At(k, {"invites"}) /\ overlapped' = overlapped
      BY <2>3 DEF SendEnds, CallFails, Accepted, Rejected, Left, AdminThrows, At, Fails, history
    <3> QED
      BY <2>1, <2>3, <3>1, <1>3
      DEF SendEnds, CallFails, Accepted, Rejected, Left, AdminThrows, Failures
  <2>4. Connected(k) \/ StatusEnds(k) \/ Serve(k) \/ Applies(k) \/ AdminEnds(k) \/ Listed(k) =>
          \/ \E how \in Failures : Fails(how)
          \/ Advance(k) /\ UNCHANGED <<answered, overlapped>>
    BY DEF Connected, StatusEnds, Serve, Applies, AdminEnds, Listed, Failures, history
  <2>5. ASSUME NEW t \in Transports,
               ListChats(k, t) \/ ServeInvites(k, t) \/ KeepInvites(k, t) \/ ListFails(k, t)
        PROVE  Held'
    BY <2>5, <1>1, <1>4 DEF ListChats, KeepInvites, ListFails, history
  <2> QED
    BY <1>6, <2>1, <2>2, <2>3, <2>4, <2>5 DEF Resume
<1>7. ASSUME NEW p \in Targets, SetTarget(p) \/ Invite(p) \/ Withdrawn(p) \/ Inbound(p) PROVE Held'
  BY <1>1, <1>7 DEF SetTarget, Enter, Invite, Withdrawn, Inbound, taskVars, history
<1>8. CASE OtherLine \/ InputEnds \/ Quit \/ Closed \/ Key
  BY <1>1, <1>8 DEF OtherLine, Enter, InputEnds, Quit, Closed, Key, taskVars, history
<1> QED
  BY <1>1, <1>5, <1>6, <1>7, <1>8 DEF Next, vars, taskVars, history

LEMMA InviteStep == IInv /\ [Next]_vars => InviteListTrue'
<1> SUFFICES ASSUME IInv, [Next]_vars PROVE InviteListTrue'
  OBVIOUS
<1> USE DEF IInv
<1>1. ASSUME UNCHANGED <<knownInvites, answered, crossed>>, pending' \subseteq pending,
             overlapped => overlapped'
      PROVE  InviteListTrue'
  BY <1>1 DEF InviteListTrue
<1>2. ASSUME NEW p \in Targets, Invite(p) PROVE InviteListTrue'
  BY <1>2 DEF Invite, InviteListTrue
<1>3. ASSUME NEW p \in Targets, Withdrawn(p) PROVE InviteListTrue'
  BY <1>1, <1>3 DEF Withdrawn, history
<1>4. ASSUME NEW k \in Tasks, ForgetInvite(to[k]), UNCHANGED <<external, overlapped>>
      PROVE  InviteListTrue'
  BY <1>4 DEF ForgetInvite, InviteListTrue, external
<1>5. ASSUME NEW k \in Tasks, NEW t \in Transports, KeepInvites(k, t) PROVE InviteListTrue'
  <2>1. UNCHANGED <<pending, answered, overlapped>>
    BY <1>5 DEF KeepInvites, external
  <2>2. pending' \subseteq knownInvites' \cup crossed'
    BY <2>1, <1>5 DEF KeepInvites, InviteListTrue
  <2>3. ASSUME ~overlapped PROVE answered \cap knownInvites' = {}
    <3>1. snapshot[k][t] \cap answered = {}
      BY <2>3, <1>5 DEF KeepInvites, AnswerInv
    <3> QED
      BY <2>3, <3>1, <1>5 DEF KeepInvites, InviteListTrue
  <2> QED
    BY <2>1, <2>2, <2>3 DEF InviteListTrue
<1>6. ASSUME NEW k \in Tasks, Line(k) PROVE InviteListTrue'
  BY <1>1, <1>6 DEF Line, Say, Accept, Reject, Leave, Status, Admin, Begin, Enter, external
<1>7. ASSUME NEW k \in Tasks, Resume(k) PROVE InviteListTrue'
  <2>1. CASE Connected(k) \/ SendEnds(k) \/ StatusEnds(k) \/ CallFails(k) \/ Left(k)
    BY <2>1, <1>1 DEF Connected, SendEnds, StatusEnds, CallFails, Left, Fails, external, history
  <2>2. CASE Accepted(k) \/ Rejected(k)
    BY <2>2, <1>4 DEF Accepted, Rejected
  <2>3. CASE Serve(k) \/ Applies(k) \/ AdminThrows(k) \/ AdminEnds(k) \/ Listed(k)
    BY <2>3, <1>1 DEF Serve, Applies, AdminThrows, AdminEnds, Listed, external, history
  <2>4. ASSUME NEW t \in Transports,
               ListChats(k, t) \/ ServeInvites(k, t) \/ KeepInvites(k, t) \/ ListFails(k, t)
        PROVE  InviteListTrue'
    BY <2>4, <1>1, <1>5 DEF ListChats, ServeInvites, ListFails, external, history
  <2> QED
    BY <1>7, <2>1, <2>2, <2>3, <2>4 DEF Resume
<1>8. ASSUME NEW p \in Targets, SetTarget(p) \/ Inbound(p) PROVE InviteListTrue'
  BY <1>1, <1>8 DEF SetTarget, Enter, Inbound, external, history
<1>9. CASE OtherLine \/ InputEnds \/ Quit \/ Closed \/ Key
  BY <1>1, <1>9 DEF OtherLine, Enter, InputEnds, Quit, Closed, Key, external, history
<1> QED
  BY <1>1, <1>2, <1>3, <1>6, <1>7, <1>8, <1>9 DEF Next, vars, external, history

-----------------------------------------------------------------------------
(* The target and the prompt.                                               *)

\* The line that is resumed was alone, keeps its target, and is next at a stage
\* with a target, or at "admin", only if it was before it.
LEMMA ResumedAlone ==
  ASSUME IInv, NEW k \in Tasks, Resume(k), ~overlapped'
  PROVE  /\ ~overlapped
         /\ \A j \in Tasks : Busy(j) \/ Busy(j)' => j = k
         /\ At(k, Targeted)' => At(k, Targeted) /\ to'[k] = to[k]
         /\ At(k, {"send"})' => At(k, {"send"})
         /\ At(k, {"admin"})' => At(k, {"apply", "admin"})
<1>1. Follows(todo[k])
  BY Resumes, RemainderFollows DEF IInv, LineInv
<1>2. \A j \in Tasks : Busy(j) \/ Busy(j)' => j = k
  BY Resumes DEF IInv, TurnInv, Busy
<1> QED
  BY <1>1, <1>2, Resumes DEF IInv, Follows, At, Busy

LEMMA ReachStep == IInv /\ [Next]_vars => ReachInv'
<1> SUFFICES ASSUME IInv, [Next]_vars, ~overlapped'
             PROVE  /\ (\A k \in Tasks : ~At(k, {"admin"})') =>
                         currentTarget' = NoTarget \/ Reachable(currentTarget)'
                    /\ \A k \in Tasks : At(k, Targeted)' => Reachable(to[k])'
                    /\ \A k \in Tasks : At(k, {"send"})' => to'[k] = currentTarget'
  BY DEF ReachInv
<1> DEFINE Goal ==
      /\ (\A k \in Tasks : ~At(k, {"admin"})') =>
           currentTarget' = NoTarget \/ Reachable(currentTarget)'
      /\ \A k \in Tasks : At(k, Targeted)' => Reachable(to[k])'
      /\ \A k \in Tasks : At(k, {"send"})' => to'[k] = currentTarget'
<1>1. ASSUME NEW k \in Tasks, NEW stages \in Remainders, NEW target, Begin(k, stages, target),
             Head(stages) \in Targeted => Reachable(target),
             Head(stages) = "send" => target = currentTarget
      PROVE  Goal
  <2>1. \A j \in Tasks : ~Busy(j)
    BY <1>1 DEF Begin, Enter, IInv, TypeOK
  <2>2. ~overlapped
    BY <1>1 DEF Begin, Enter
  <2>3. currentTarget = NoTarget \/ Reachable(currentTarget)
    BY <2>1, <2>2 DEF IInv, ReachInv, At
  <2>4. \A j \in Tasks : Busy(j)' => j = k /\ todo'[k] = stages /\ to'[k] = target
    BY <1>1, <2>1 DEF Begin, Busy, IInv, TypeOK
  <2> QED
    BY <1>1, <2>3, <2>4 DEF Begin, Enter, At, Reachable, external
<1>2. ASSUME NEW k \in Tasks, Line(k) PROVE Goal
  <2>1. CASE Say(k)
    BY <2>1, <1>1 DEF Say, Remainders
  <2>2. CASE \E p \in Targets : Accept(k, p) \/ Reject(k, p) \/ Leave(k, p)
    BY <2>2, <1>1 DEF Accept, Reject, Leave, Remainders
  <2>3. CASE Status(k) \/ Admin(k)
    BY <2>3, <1>1 DEF Status, Admin, Remainders, Targeted
  <2> QED
    BY <1>2, <2>1, <2>2, <2>3 DEF Line
<1>3. ASSUME NEW k \in Tasks, Resume(k) PROVE Goal
  <2> USE <1>3, ResumedAlone DEF IInv, ReachInv
  <2> DEFINE Indifferent == UNCHANGED <<currentTarget, configured>> /\ ~At(k, {"apply", "admin"})
  <2>1. CASE Indifferent
    <3>1. \A j \in Tasks : ~At(j, {"admin"})
      BY <2>1 DEF At
    <3>2. \A j \in Tasks : At(j, Targeted)' => At(j, Targeted) /\ to'[j] = to[j]
      BY DEF At
    <3>3. \A j \in Tasks : At(j, {"send"})' => At(j, {"send"}) /\ to'[j] = to[j]
      BY <3>2 DEF At, Targeted
    <3> QED
      BY <2>1, <3>1, <3>2, <3>3 DEF Reachable
  <2>2. CASE AdminThrows(k)
    BY <2>2 DEF AdminThrows, Ends, At, Busy, Reachable, TypeOK, external
  <2>3. CASE Applies(k)
    <3>1. todo'[k] = <<"admin", "chats", "invites">>
      BY <2>3, RemainderFollows DEF Applies, Advance, At, LineInv, Follows, TypeOK
    <3>2. At(k, {"admin"})' /\ ~At(k, Targeted)' /\ ~At(k, {"send"})'
      BY <3>1 DEF At, Busy, Targeted
    <3> QED
      BY <3>2 DEF At
  <2>4. CASE AdminEnds(k)
    <3>1. ~At(k, Targeted) /\ ~At(k, {"send"})
      BY <2>4 DEF AdminEnds, At, Targeted
    <3>2. currentTarget' = NoTarget \/ Reachable(currentTarget)'
      BY <2>4 DEF AdminEnds, Reachable, external
    <3> QED
      BY <3>1, <3>2 DEF At
  <2>5. CASE Accepted(k)
    <3>1. Reachable(to[k])
      BY <2>5 DEF Accepted, At, Targeted
    <3>2. ~Busy(k)'
      BY <2>5 DEF Accepted, Ends, Busy, TypeOK
    <3> QED
      BY <2>5, <3>1, <3>2 DEF Accepted, At, Reachable, external
  <2>6. CASE Left(k)
    <3>1. ~Busy(k)' /\ ~At(k, {"admin"})
      BY <2>6 DEF Left, Ends, Busy, At, TypeOK
    <3> QED
      BY <2>6, <3>1 DEF Left, At, Reachable, external
  <2>7. Connected(k) \/ SendEnds(k) \/ Serve(k) \/ CallFails(k) \/ Rejected(k) \/ StatusEnds(k)
          \/ Listed(k) => Indifferent
    BY DEF Connected, SendEnds, Serve, CallFails, Rejected, StatusEnds, Listed, Fails, At, external
  <2>8. ASSUME NEW t \in Transports
        PROVE  ListChats(k, t) \/ ServeInvites(k, t) \/ KeepInvites(k, t) \/ ListFails(k, t)
                 => Indifferent
    BY DEF ListChats, ServeInvites, KeepInvites, ListFails, At, external
  <2> QED
    BY <1>3, <2>1, <2>2, <2>3, <2>4, <2>5, <2>6, <2>7, <2>8 DEF Resume
<1>4. ASSUME NEW p \in Targets, SetTarget(p) \/ Invite(p) \/ Withdrawn(p) \/ Inbound(p) PROVE Goal
  <2> USE DEF IInv, ReachInv
  <2>1. CASE SetTarget(p)
    <3>1. \A j \in Tasks : ~Busy(j)'
      BY <2>1 DEF SetTarget, Enter, taskVars, Busy, TypeOK
    <3> QED
      BY <2>1, <3>1, NoTargetAssumption DEF SetTarget, Enter, At, Reachable, external
  <2>2. CASE Invite(p) \/ Withdrawn(p)
    BY <2>2 DEF Invite, Withdrawn, taskVars, history, At, Busy, Reachable
  <2>3. CASE Inbound(p)
    <3>1. currentTarget = NoTarget => \A k \in Tasks : ~At(k, {"send"})
      BY <2>3 DEF Inbound, history, At, Targeted, Reachable
    <3> QED
      BY <2>3, <3>1, NoTargetAssumption
      DEF Inbound, taskVars, external, history, At, Busy, Reachable
  <2> QED
    BY <1>4, <2>1, <2>2, <2>3
<1>5. CASE OtherLine \/ InputEnds \/ Quit \/ Closed \/ Key
  BY <1>5 DEF OtherLine, Enter, InputEnds, Quit, Closed, Key, taskVars, external, history, At, Busy,
              Reachable, IInv, ReachInv, TypeOK
<1>6. CASE UNCHANGED vars
  BY <1>6 DEF vars, taskVars, external, history, At, Busy, Reachable, IInv, ReachInv
<1> QED
  BY <1>2, <1>3, <1>4, <1>5, <1>6 DEF Next

LEMMA BehindStep == IInv /\ [Next]_vars => BehindInv'
<1> SUFFICES ASSUME IInv, [Next]_vars PROVE BehindInv'
  OBVIOUS
<1> DEFINE Dropping == {<<"chats", "invites">>, <<"invites">>}
<1> USE DEF IInv
<1>0. Draws' => Draws
  <2>1. UNCHANGED mode /\ (input' = "open" => input = "open")
    <3>1. ASSUME NEW k \in Tasks, Line(k) PROVE UNCHANGED <<mode, input>>
      BY <3>1 DEF Line, Say, Accept, Reject, Leave, Status, Admin, Begin, Enter
    <3>2. ASSUME NEW k \in Tasks, Resume(k) PROVE UNCHANGED <<mode, input>>
      BY <3>2 DEF Resume, Connected, SendEnds, Serve, CallFails, Accepted, Rejected, Left, StatusEnds,
                  Applies, AdminThrows, AdminEnds, Listed, ListChats, ServeInvites, KeepInvites,
                  ListFails, Fails
    <3>3. ASSUME NEW p \in Targets, SetTarget(p) \/ Invite(p) \/ Withdrawn(p) \/ Inbound(p)
          PROVE  UNCHANGED <<mode, input>>
      BY <3>3 DEF SetTarget, Enter, Invite, Withdrawn, Inbound
    <3>4. CASE OtherLine \/ InputEnds \/ Quit \/ Closed \/ Key
      BY <3>4 DEF OtherLine, Enter, InputEnds, Quit, Closed, Key
    <3> QED
      BY <3>1, <3>2, <3>3, <3>4 DEF Next, vars
  <2> QED
    BY <2>1 DEF Draws
<1>1. CASE RefreshPrompt
  BY <1>0, <1>1 DEF RefreshPrompt, BehindInv
<1>2. CASE UNCHANGED <<todo, currentTarget, shown>>
  BY <1>0, <1>2 DEF BehindInv
<1>3. CASE shown' = Cleared
  BY <1>3, NoTargetAssumption DEF BehindInv
<1>4. CASE (\A k \in Tasks : ~Busy(k)) /\ UNCHANGED <<currentTarget, shown>>
  BY <1>0, <1>4 DEF BehindInv, Busy
<1>5. ASSUME NEW k \in Tasks, Resume(k), Advance(k), UNCHANGED currentTarget,
             shown' = shown, Tail(todo[k]) # <<>> \/ todo[k] \notin Dropping
      PROVE  BehindInv'
  <2>1. todo[k] \in Dropping => todo'[k] \in Dropping
    BY <1>5, Resumes, RemainderFollows DEF LineInv, Follows, Advance, TypeOK
  <2>2. \A j \in Tasks \ {k} : todo'[j] = todo[j]
    BY <1>5, Resumes
  <2> QED
    BY <1>0, <1>5, <2>1, <2>2 DEF BehindInv
<1>6. ASSUME NEW k \in Tasks, Line(k) PROVE BehindInv'
  <2>1. Enter /\ UNCHANGED currentTarget /\ shown' = IF mode = "terminal" THEN Cleared ELSE shown
    BY <1>6 DEF Line, Say, Accept, Reject, Leave, Status, Admin, Begin
  <2> QED
    BY <2>1, <1>3, <1>4, ModeAssumption DEF Enter, TypeOK
<1>7. ASSUME NEW k \in Tasks, Resume(k) PROVE BehindInv'
  <2> DEFINE Breaks == \E how \in Failures : Fails(how)
             GoesOn == Advance(k) /\ (Redraw(k) \/ RefreshPrompt) /\ UNCHANGED currentTarget
  <2>1. CASE Breaks
    BY <2>1, <1>2 DEF Fails, taskVars
  <2>2. CASE Ends(k)
    BY <2>2, <1>1 DEF Ends
  <2>3. CASE GoesOn
    BY <1>7, <2>3, <1>1, <1>5 DEF Redraw
  <2>4. CASE Serve(k) \/ Applies(k)
    <3>1. todo[k] \notin Dropping
      BY <2>4 DEF Serve, Applies, At
    <3> QED
      BY <1>7, <2>4, <3>1, <1>5 DEF Serve, Applies
  <2>5. CASE AdminEnds(k)
    <3>1. todo[k] = <<"admin", "chats", "invites">>
      BY <2>5, RemainderFollows DEF AdminEnds, At, LineInv, Follows
    <3>2. todo'[k] = <<"chats", "invites">>
      BY <2>5, <3>1 DEF AdminEnds, Advance, TypeOK
    <3> QED
      BY <1>0, <2>5, <3>2 DEF AdminEnds, BehindInv
  <2>6. Connected(k) \/ SendEnds(k) \/ StatusEnds(k) \/ Listed(k) => Breaks \/ Ends(k) \/ GoesOn
    BY DEF Connected, SendEnds, StatusEnds, Listed, Failures
  <2>7. CallFails(k) \/ Accepted(k) \/ Rejected(k) \/ Left(k) \/ AdminThrows(k) => Ends(k)
    BY DEF CallFails, Accepted, Rejected, Left, AdminThrows
  <2>8. ASSUME NEW t \in Transports,
               ListChats(k, t) \/ ServeInvites(k, t) \/ KeepInvites(k, t) \/ ListFails(k, t)
        PROVE  BehindInv'
    BY <2>8, <1>2 DEF ListChats, ServeInvites, KeepInvites, ListFails
  <2> QED
    BY <1>7, <2>1, <2>2, <2>3, <2>4, <2>5, <2>6, <2>7, <2>8 DEF Resume
<1>8. ASSUME NEW p \in Targets, Invite(p) \/ Withdrawn(p) \/ Inbound(p) PROVE BehindInv'
  BY <1>8, <1>1, <1>2 DEF Invite, Withdrawn, Inbound, taskVars
<1>9. ASSUME NEW p \in Targets, SetTarget(p) PROVE BehindInv'
  BY <1>9, <1>1 DEF SetTarget
<1>10. CASE OtherLine \/ InputEnds \/ Quit \/ Closed \/ Key
  BY <1>10, <1>1, <1>2, <1>3 DEF OtherLine, InputEnds, Quit, Closed, Key, taskVars
<1> QED
  BY <1>2, <1>6, <1>7, <1>8, <1>9, <1>10 DEF Next, vars, taskVars

-----------------------------------------------------------------------------
(* The theorems.                                                            *)

LEMMA InitIInv == Init => IInv
<1> SUFFICES ASSUME Init PROVE IInv
  OBVIOUS
<1>1. PICK k \in Tasks :
        todo = [j \in Tasks |-> IF j = k /\ configured # {} THEN Starting ELSE <<>>]
  BY DEF Init
<1>2. Starting \in Remainders /\ Starting \in Seq(Stages) /\ <<>> \in Seq(Stages)
  BY RemainderFollows DEF Remainders, Follows
<1>3. TypeOK
  BY <1>1, <1>2 DEF Init, TypeOK, AllUnserved
<1>4. LineInv
  BY <1>1, <1>2 DEF LineInv, Busy, At, Starting, Targeted
<1>5. TurnInv
  BY <1>1 DEF Init, TurnInv, Busy
<1>6. AnswerInv /\ InviteListTrue
  BY DEF Init, AnswerInv, AllUnserved, InviteListTrue
<1>7. ReachInv
  BY <1>1 DEF Init, ReachInv, At, Starting, Targeted, Busy
<1>8. BehindInv
  BY NoTargetAssumption DEF Init, BehindInv
<1> QED
  BY <1>3, <1>4, <1>5, <1>6, <1>7, <1>8 DEF IInv

\* Every reachable state has the types and the facts above.
THEOREM Inductive == Spec => []IInv
<1>1. IInv /\ [Next]_vars => IInv'
  BY TypeStep, TurnStep, AnswerStep, InviteStep, ReachStep, BehindStep DEF IInv
<1> QED
  BY InitIInv, <1>1, PTL DEF Spec

\* Types are kept, whatever lines and events come.
THEOREM TypeCorrect == Spec => []TypeOK
<1>1. IInv => TypeOK
  BY DEF IInv
<1> QED
  BY <1>1, Inductive, PTL

\* An invite that a transport holds is offered, unless it was announced between
\* an answer and its handling; an answered one is not offered in sessions of
\* lines entered in turn (rememberListedInvites, acceptInvite, rejectInvite).
THEOREM InvitesAreTrue == Spec => []InviteListTrue
<1>1. IInv => InviteListTrue
  BY DEF IInv
<1> QED
  BY <1>1, Inductive, PTL

\* The prompt never names one chat while text would go to another, until piped
\* input has ended and it is not drawn any more (renderPrompt, refreshPrompt).
THEOREM PromptIsTrue == Spec => []PromptNeverLies
<1>1. IInv => PromptNeverLies
  BY DEF IInv, BehindInv, PromptNeverLies
<1> QED
  BY <1>1, Inductive, PTL

\* Between lines entered in turn the target's transport is configured
\* (runAdminSlashCommand drops it otherwise).
THEOREM TargetIsConfigured == Spec => []TargetConfigured
<1>1. IInv => TargetConfigured
  BY DEF IInv, ReachInv, TargetConfigured, At, Reachable
<1> QED
  BY <1>1, Inductive, PTL

\* The echo of a text entered in turn names the chat it was sent to
\* (handleInputLine reads the target again after the await).
THEOREM EchoIsRight == Spec => EchoNamesTheChat
<1>1. IInv => [\A k \in Tasks : SendEnds(k) /\ ~overlapped => Named(k) = to[k]]_vars
  BY DEF IInv, ReachInv, SendEnds, Named
<1> QED
  BY <1>1, Inductive, PTL DEF EchoNamesTheChat

-----------------------------------------------------------------------------
(* The input line.                                                          *)

\* What is on the screen is what is typed and what Enter would take.
ScreenInv ==
  \/ screen = CleanScreen
  \/ screen = [text |-> buffer, cursor |-> cursor, list |-> suggestions, selected |-> selected]

LEMMA ScreenStep == ScreenInv /\ [PromptNext]_(inputVars) => ScreenInv'
<1> SUFFICES ASSUME ScreenInv, [PromptNext]_(inputVars) PROVE ScreenInv'
  OBVIOUS
<1>1. ASSUME NEW n, RenderInput(n) PROVE ScreenInv'
  BY <1>1 DEF RenderInput, ScreenInv
<1>2. ASSUME NEW text, Insert(text) PROVE ScreenInv'
  BY <1>1, <1>2 DEF Insert, Edit
<1>3. CASE Erase
  BY <1>1, <1>3 DEF Erase, Cut, Edit
<1>4. ASSUME NEW n, Move(n) \/ Browse(n) PROVE ScreenInv'
  BY <1>1, <1>4 DEF Move, Browse
<1>5. CASE Escape \/ Event \/ Complete \/ Returns
  BY <1>1, <1>5 DEF Escape, Event, Complete, Returns, LineEnds
<1>6. CASE Submit
  BY <1>1, <1>6 DEF Submit, LineEnds, ScreenInv
<1>7. CASE ListReturns \/ UNCHANGED inputVars
  BY <1>7 DEF ListReturns, promptVars, inputVars, ScreenInv
<1> QED
  BY <1>2, <1>3, <1>4, <1>5, <1>6, <1>7 DEF PromptNext

\* Enter takes the suggestion that is highlighted on the screen, or the text there.
THEOREM EnterIsOfScreen == PromptSpec => EnterTakesShown
<1>1. PromptInit => ScreenInv
  BY DEF PromptInit, ScreenInv
<1>2. ScreenInv /\ screen # CleanScreen =>
        LET highlighted == screen.list # <<>> /\ screen.list[screen.selected + 1] # screen.text
        IN  /\ Complete => highlighted /\ buffer' = screen.list[screen.selected + 1]
            /\ Submit => ~highlighted /\ buffer = screen.text
  BY DEF ScreenInv, Complete, Submit, Completes
<1> QED
  BY <1>1, <1>2, ScreenStep, PTL DEF PromptSpec, EnterTakesShown

-----------------------------------------------------------------------------
(* Places in a sequence.                                                    *)

\* How many of a set of places there are up to i; for one of them, which it is.
Rank(S, i) == Cardinality({j \in S : j <= i})

LEMMA RankType ==
  ASSUME NEW S \in SUBSET Nat, IsFiniteSet(S), NEW i \in S
  PROVE  Rank(S, i) \in 1..Cardinality(S) /\ Cardinality(S) \in Nat
<1> DEFINE upTo == {j \in S : j <= i}
<1>1. upTo \in SUBSET S /\ upTo # {}
  OBVIOUS
<1>2. IsFiniteSet(upTo) /\ Cardinality(upTo) <= Cardinality(S)
  BY <1>1, FS_Subset
<1>3. Cardinality(upTo) \in Nat /\ Cardinality(S) \in Nat /\ Cardinality(upTo) # 0
  BY <1>1, <1>2, FS_CardinalityType, FS_EmptySet
<1> QED
  BY <1>2, <1>3 DEF Rank

\* Ranks are in the order of the places.
LEMMA RankOrder ==
  ASSUME NEW S \in SUBSET Nat, IsFiniteSet(S), NEW i \in S, NEW j \in S, i < j
  PROVE  Rank(S, i) < Rank(S, j)
<1> DEFINE upTo(k) == {n \in S : n <= k}
<1>1. upTo(i) \in SUBSET upTo(j) /\ j \in upTo(j) /\ j \notin upTo(i)
  <2>1. ASSUME NEW k \in S, k <= i PROVE k <= j
    BY <2>1
  <2>2. j <= j /\ ~(j <= i)
    OBVIOUS
  <2> QED
    BY <2>1, <2>2
<1>2. upTo(j) \in SUBSET S
  OBVIOUS
<1>3. IsFiniteSet(upTo(j))
  BY <1>2, FS_Subset
<1>4. upTo(i) # upTo(j)
  BY <1>1
<1> HIDE DEF upTo
<1>5. /\ IsFiniteSet(upTo(i))
      /\ Cardinality(upTo(i)) <= Cardinality(upTo(j))
      /\ Cardinality(upTo(i)) # Cardinality(upTo(j))
  BY <1>1, <1>3, <1>4, FS_Subset
<1>6. Cardinality(upTo(i)) \in Nat /\ Cardinality(upTo(j)) \in Nat
  BY <1>3, <1>5, FS_CardinalityType
<1> QED
  BY <1>5, <1>6 DEF Rank, upTo

\* So the n-th place is the one of that rank,
LEMMA NthIs ==
  ASSUME NEW S \in SUBSET Nat, IsFiniteSet(S), NEW i \in S
  PROVE  Nth(S, Rank(S, i)) = i
<1>1. ASSUME NEW j \in S, Rank(S, j) = Rank(S, i) PROVE j = i
  <2>1. i < j \/ j < i \/ i = j
    OBVIOUS
  <2>2. Rank(S, i) \in Int /\ Rank(S, j) \in Int
    BY RankType
  <2> QED
    BY <1>1, <2>1, <2>2, RankOrder
<1> QED
  BY <1>1 DEF Nth, Rank

\* there is one for each number up to the size,
LEMMA NthOfEach ==
  ASSUME NEW S \in SUBSET Nat, IsFiniteSet(S), NEW n \in 1..Cardinality(S)
  PROVE  Nth(S, n) \in S /\ Rank(S, Nth(S, n)) = n
<1> DEFINE f == [i \in S |-> Rank(S, i)]
           N == Cardinality(S)
<1>1. N \in Nat
  BY FS_CardinalityType
<1>2. f \in [S -> 1..N]
  BY RankType
<1>3. ASSUME NEW i \in S, NEW j \in S, f[i] = f[j] PROVE i = j
  BY <1>3, NthIs
<1>4. IsFiniteSet(1..N) /\ Cardinality(1..N) = N
  BY <1>1, FS_Interval
<1> HIDE DEF f
<1>5. f \in Injection(S, 1..N)
  BY <1>2, <1>3 DEF Injection, IsInjective
<1>6. f \in Surjection(S, 1..N)
  BY <1>4, <1>5, FS_Injection
<1>7. PICK i \in S : f[i] = n
  BY <1>6 DEF Surjection
<1>8. Rank(S, i) = n
  BY <1>7 DEF f
<1> QED
  BY <1>8, NthIs

\* and the first is before all others.
LEMMA NthFirst ==
  ASSUME NEW S \in SUBSET Nat, IsFiniteSet(S), S # {}
  PROVE  1 \in 1..Cardinality(S) /\ Nth(S, 1) \in S /\ \A i \in S : Nth(S, 1) <= i
<1>1. Cardinality(S) \in Nat /\ Cardinality(S) # 0
  BY FS_CardinalityType, FS_EmptySet
<1>2. Nth(S, 1) \in S /\ Rank(S, Nth(S, 1)) = 1
  BY <1>1, NthOfEach
<1>3. ASSUME NEW i \in S, i < Nth(S, 1) PROVE FALSE
  <2>1. Rank(S, i) < 1
    BY <1>2, <1>3, RankOrder
  <2> QED
    BY <2>1, RankType
<1>4. \A i \in S : i \in Nat /\ Nth(S, 1) \in Nat
  BY <1>2
<1>5. \A i \in S : Nth(S, 1) <= i
  BY <1>3, <1>4
<1> QED
  BY <1>1, <1>2, <1>5

\* and the last is after them.
LEMMA NthLast ==
  ASSUME NEW S \in SUBSET Nat, IsFiniteSet(S), S # {}
  PROVE  \E i \in S : \A j \in S : j <= i
<1> DEFINE N == Cardinality(S)
<1>1. N \in Nat /\ N # 0
  BY FS_CardinalityType, FS_EmptySet
<1>2. Nth(S, N) \in S /\ Rank(S, Nth(S, N)) = N
  BY <1>1, NthOfEach
<1>3. ASSUME NEW i \in S, Nth(S, N) < i PROVE FALSE
  <2>1. N < Rank(S, i)
    BY <1>2, <1>3, RankOrder
  <2> QED
    BY <1>1, <2>1, RankType
<1>4. \A i \in S : i \in Nat /\ Nth(S, N) \in Nat
  BY <1>2
<1>5. \A i \in S : i <= Nth(S, N)
  BY <1>3, <1>4
<1> QED
  BY <1>2, <1>5

\* The places that the words of a suggestion start at.
LEMMA OneStart == IsFiniteSet({1}) /\ Cardinality({1}) = 1 /\ Nth({1}, 1) = 1
<1>1. IsFiniteSet({1}) /\ Cardinality({1}) = 1 /\ {1} \in SUBSET Nat
  BY FS_Singleton
<1>2. {j \in {1} : j <= 1} = {1}
  OBVIOUS
<1> QED
  BY <1>1, <1>2, NthIs DEF Rank

LEMMA TwoStarts ==
  /\ IsFiniteSet({1, 4}) /\ Cardinality({1, 4}) = 2
  /\ Nth({1, 4}, 1) = 1 /\ Nth({1, 4}, 2) = 4
<1>1. IsFiniteSet({1} \cup {4}) /\ Cardinality({1} \cup {4}) = 2
  BY OneStart, FS_AddElement
<1>2. {1} \cup {4} = {1, 4} /\ {1, 4} \in SUBSET Nat
  OBVIOUS
<1>3. {j \in {1, 4} : j <= 1} = {1} /\ {j \in {1, 4} : j <= 4} = {1, 4}
  OBVIOUS
<1>4. Rank({1, 4}, 1) = 1 /\ Rank({1, 4}, 4) = 2
  BY <1>1, <1>2, <1>3, OneStart DEF Rank
<1>5. Nth({1, 4}, Rank({1, 4}, 1)) = 1 /\ Nth({1, 4}, Rank({1, 4}, 4)) = 4
  BY <1>1, <1>2, NthIs
<1> QED
  BY <1>1, <1>2, <1>4, <1>5

LEMMA ThreeStarts ==
  /\ IsFiniteSet({1, 4, 6}) /\ Cardinality({1, 4, 6}) = 3
  /\ Nth({1, 4, 6}, 1) = 1 /\ Nth({1, 4, 6}, 2) = 4 /\ Nth({1, 4, 6}, 3) = 6
<1>1. IsFiniteSet({1, 4} \cup {6}) /\ Cardinality({1, 4} \cup {6}) = 3
  BY TwoStarts, FS_AddElement
<1>2. {1, 4} \cup {6} = {1, 4, 6} /\ {1, 4, 6} \in SUBSET Nat
  OBVIOUS
<1>3. /\ {j \in {1, 4, 6} : j <= 1} = {1}
      /\ {j \in {1, 4, 6} : j <= 4} = {1, 4}
      /\ {j \in {1, 4, 6} : j <= 6} = {1, 4, 6}
  OBVIOUS
<1>4. Rank({1, 4, 6}, 1) = 1 /\ Rank({1, 4, 6}, 4) = 2 /\ Rank({1, 4, 6}, 6) = 3
  BY <1>1, <1>2, <1>3, OneStart, TwoStarts DEF Rank
<1>5. \A i \in {1, 4, 6} : Nth({1, 4, 6}, Rank({1, 4, 6}, i)) = i
  BY <1>1, <1>2, NthIs
<1> QED
  BY <1>1, <1>2, <1>4, <1>5

-----------------------------------------------------------------------------
(* The words of a suggestion.                                               *)

LEMMA UnitsOf ==
  /\ Space \in Units /\ "/" \in Units
  /\ \A c \in {"t", "r", "l", "q"} : c \in Units /\ c # Space /\ c # "/"
  /\ "/" # Space
<1>1. ToSet(Commands) = {"t", "r", "l", "q"}
  BY DEF ToSet, Commands
<1> QED
  BY <1>1, UnitAssumption DEF Space

LEMMA PairOf ==
  ASSUME NEW S, NEW text \in Seq(S), Len(text) >= 2
  PROVE  SubSeq(text, 1, 2) = <<text[1], text[2]>>
<1> DEFINE part == SubSeq(text, 1, 2)
           pair == <<text[1], text[2]>>
<1>1. part \in Seq(S) /\ Len(part) = 2 /\ part[1] = text[1] /\ part[2] = text[2]
  OBVIOUS
<1>2. pair \in Seq(S) /\ Len(pair) = 2 /\ pair[1] = text[1] /\ pair[2] = text[2]
  OBVIOUS
<1> HIDE DEF part, pair
<1>3. \A i \in 1..Len(part) : part[i] = pair[i]
  <2>1. \A i \in 1..Len(part) : i = 1 \/ i = 2
    BY <1>1
  <2> QED
    BY <1>1, <1>2, <2>1
<1> QED
  BY <1>1, <1>2, <1>3, SeqEqual DEF part, pair

LEMMA OneOf ==
  ASSUME NEW S, NEW text \in Seq(S), NEW i \in 1..Len(text)
  PROVE  SubSeq(text, i, i) = <<text[i]>>
<1> DEFINE part == SubSeq(text, i, i)
           one == <<text[i]>>
<1>1. part \in Seq(S) /\ Len(part) = 1 /\ part[1] = text[i]
  OBVIOUS
<1>2. one \in Seq(S) /\ Len(one) = 1 /\ one[1] = text[i]
  OBVIOUS
<1> HIDE DEF part, one
<1>3. \A n \in 1..Len(part) : part[n] = one[n]
  BY <1>1, <1>2
<1> QED
  BY <1>1, <1>2, <1>3, SeqEqual DEF part, one

\* A word goes to the next blank.
LEMMA WordIs ==
  ASSUME NEW text \in Seq(Units), NEW i \in 1..Len(text), NEW k \in i..Len(text),
         \A j \in i..k : text[j] # Space,
         k < Len(text) => text[k + 1] = Space
  PROVE  WordFrom(text, i) = SubSeq(text, i, k)
<1> DEFINE ends == {j \in i..Len(text) : text[j] = Space}
<1>1. Len(text) \in Nat
  OBVIOUS
<1>2. CASE k = Len(text)
  <2>1. ends = {}
    BY <1>2
  <2> QED
    BY <1>2, <2>1 DEF WordFrom
<1>3. CASE k < Len(text)
  <2>1. k + 1 \in ends /\ \A h \in ends : k + 1 <= h
    BY <1>1, <1>3
  <2>2. \A j \in ends : (\A h \in ends : j <= h) => j = k + 1
    BY <1>1, <2>1
  <2>3. (CHOOSE j \in ends : \A h \in ends : j <= h) = k + 1
    BY <2>1, <2>2
  <2>4. WordFrom(text, i) = SubSeq(text, i, (k + 1) - 1)
    BY <2>1, <2>3 DEF WordFrom
  <2> QED
    BY <1>1, <2>4
<1> QED
  BY <1>1, <1>2, <1>3

LEMMA AfterFive ==
  ASSUME NEW front \in Seq(Units), Len(front) = 5, NEW id \in Seq(Units)
  PROVE  LET text == front \o id
         IN  /\ text \in Seq(Units) /\ Len(text) = 5 + Len(id)
             /\ text[1] = front[1] /\ text[2] = front[2] /\ text[3] = front[3]
             /\ text[4] = front[4] /\ text[5] = front[5]
             /\ \A i \in 6..Len(text) : text[i] = id[i - 5]
<1> DEFINE text == front \o id
<1>1. /\ text \in Seq(Units) /\ Len(text) = Len(front) + Len(id)
      /\ \A i \in 1..Len(front) + Len(id) :
            text[i] = IF i <= Len(front) THEN front[i] ELSE id[i - Len(front)]
  BY ConcatProperties
<1>2. Len(id) \in Nat
  OBVIOUS
<1> HIDE DEF text
<1>3. /\ Len(text) = 5 + Len(id)
      /\ text[1] = front[1] /\ text[2] = front[2] /\ text[3] = front[3]
      /\ text[4] = front[4] /\ text[5] = front[5]
      /\ \A i \in 6..Len(text) : text[i] = id[i - 5]
  BY <1>1, <1>2
<1> QED
  BY <1>1, <1>3 DEF text

\* A suggestion as a sequence of units.
LEMMA TextUnits ==
  ASSUME NEW c \in WithArguments, NEW t \in TransportNames,
         NEW id \in {<<>>} \cup Ids \cup Invites
  PROVE  /\ Text(c, <<t>>, id) \in Seq(Units)
         /\ id \in Seq(Units)
         /\ Len(Text(c, <<t>>, id)) = 5 + Len(id)
         /\ Text(c, <<t>>, id)[1] = "/" /\ Text(c, <<t>>, id)[2] = c
         /\ Text(c, <<t>>, id)[3] = Space /\ Text(c, <<t>>, id)[4] = t
         /\ Text(c, <<t>>, id)[5] = Space
         /\ \A i \in 6..Len(Text(c, <<t>>, id)) : Text(c, <<t>>, id)[i] = id[i - 5]
<1>1. id \in Seq(Units) /\ t \in Units /\ c \in Units /\ Space \in Units /\ "/" \in Units
  <2>1. <<>> \in Seq(Units)
    OBVIOUS
  <2>2. id \in Seq(Units)
    BY <2>1, UnitAssumption
  <2> QED
    BY <2>2, UnitAssumption, UnitsOf DEF WithArguments
<1> DEFINE front == <<"/", c, Space>> \o <<t>> \o <<Space>>
<1>2. /\ front \in Seq(Units) /\ Len(front) = 5
      /\ front[1] = "/" /\ front[2] = c /\ front[3] = Space /\ front[4] = t /\ front[5] = Space
  BY <1>1
<1>3. front \in Seq(Units) /\ Len(front) = 5 /\ id \in Seq(Units)
  BY <1>1, <1>2
<1>4. Text(c, <<t>>, id) = front \o id
  BY DEF Text
<1> HIDE DEF front
<1>5. /\ front \o id \in Seq(Units) /\ Len(front \o id) = 5 + Len(id)
      /\ (front \o id)[1] = front[1] /\ (front \o id)[2] = front[2]
      /\ (front \o id)[3] = front[3] /\ (front \o id)[4] = front[4]
      /\ (front \o id)[5] = front[5]
      /\ \A i \in 6..Len(front \o id) : (front \o id)[i] = id[i - 5]
  BY <1>3, AfterFive
<1> QED
  BY <1>1, <1>2, <1>4, <1>5

\* The words of a command, and of one that is complete.
LEMMA CommandWords ==
  ASSUME NEW c \in {"t", "r", "l", "q"}
  PROVE  /\ Words(<<"/", c>>) = << <<"/", c>> >>
         /\ Words(<<"/", c, Space>>) = << <<"/", c>> >>
<1>1. ASSUME NEW text \in Seq(Units), Len(text) \in 2..3, text[1] = "/", text[2] = c,
             Len(text) = 3 => text[3] = Space
      PROVE  Words(text) = << <<"/", c>> >>
  <2>1. text[1] # Space /\ text[2] # Space
    BY <1>1, UnitsOf
  <2>2. Starts(text) = {1}
    <3>1. DOMAIN text = 1..Len(text) /\ \A i \in 1..Len(text) : i = 1 \/ i = 2 \/ (i = 3 /\ text[i] = Space)
      BY <1>1
    <3> QED
      BY <1>1, <2>1, <3>1 DEF Starts
  <2>3. WordFrom(text, 1) = SubSeq(text, 1, 2)
    <3>1. \A j \in 1..2 : text[j] # Space
      <4>1. \A j \in 1..2 : j = 1 \/ j = 2
        OBVIOUS
      <4> QED
        BY <2>1, <4>1
    <3>2. 2 < Len(text) => text[2 + 1] = Space
      BY <1>1
    <3>3. 1 \in 1..Len(text) /\ 2 \in 1..Len(text)
      BY <1>1
    <3> QED
      BY <1>1, <3>1, <3>2, <3>3, WordIs
  <2>4. SubSeq(text, 1, 2) = <<"/", c>>
    BY <1>1, PairOf
  <2>5. Words(text) = [n \in 1..1 |-> WordFrom(text, Nth({1}, n))]
    BY <2>2, OneStart DEF Words
  <2>6. Words(text) = [n \in 1..1 |-> <<"/", c>>]
    <3>1. \A n \in 1..1 : WordFrom(text, Nth({1}, n)) = <<"/", c>>
      <4>1. \A n \in 1..1 : n = 1
        OBVIOUS
      <4> QED
        BY <2>3, <2>4, <4>1, OneStart
    <3> QED
      BY <2>5, <3>1
  <2> QED
    BY <2>6
<1>2. "/" \in Units /\ c \in Units /\ Space \in Units
  BY UnitsOf
<1>3. Words(<<"/", c>>) = << <<"/", c>> >>
  <2> DEFINE text == <<"/", c>>
  <2>1. text \in Seq(Units) /\ Len(text) = 2 /\ text[1] = "/" /\ text[2] = c
    BY <1>2
  <2> HIDE DEF text
  <2>2. Words(text) = << <<"/", c>> >>
    BY <1>1, <2>1
  <2> QED
    BY <2>2 DEF text
<1>4. Words(<<"/", c, Space>>) = << <<"/", c>> >>
  <2> DEFINE text == <<"/", c, Space>>
  <2>1. text \in Seq(Units) /\ Len(text) = 3 /\ text[1] = "/" /\ text[2] = c /\ text[3] = Space
    BY <1>2
  <2> HIDE DEF text
  <2>2. Words(text) = << <<"/", c>> >>
    BY <1>1, <2>1
  <2> QED
    BY <2>2 DEF text
<1> QED
  BY <1>3, <1>4

\* The rest of a text is what was appended.
LEMMA RestOf ==
  ASSUME NEW S, NEW text \in Seq(S), NEW id \in Seq(S), Len(text) = 5 + Len(id), id # <<>>,
         \A i \in 6..Len(text) : text[i] = id[i - 5]
  PROVE  SubSeq(text, 6, Len(text)) = id
<1> DEFINE rest == SubSeq(text, 6, Len(text))
<1>1. Len(id) \in Nat /\ Len(id) >= 1
  OBVIOUS
<1>2. 6 \in 1..Len(text) + 1 /\ Len(text) \in 6 - 1..Len(text)
  BY <1>1
<1>3. /\ rest \in Seq(S) /\ Len(rest) = Len(id)
      /\ \A i \in 1..Len(id) : rest[i] = text[6 + i - 1]
  BY <1>1, <1>2, SubSeqProperties
<1> HIDE DEF rest
<1>4. \A i \in 1..Len(id) : 6 + i - 1 \in 6..Len(text) /\ 6 + i - 1 - 5 = i
  BY <1>1
<1>5. \A i \in 1..Len(rest) : rest[i] = id[i]
  BY <1>3, <1>4
<1>6. rest = id
  BY <1>3, <1>5, SeqEqual
<1> QED
  BY <1>6 DEF rest

\* The words of a transport's suggestion and of a chat's.
LEMMA ArgumentWords ==
  ASSUME NEW c \in WithArguments, NEW t \in TransportNames,
         NEW id \in {<<>>} \cup Ids \cup Invites
  PROVE  /\ Len(Words(Text(c, <<t>>, id))) = IF id = <<>> THEN 2 ELSE 3
         /\ Words(Text(c, <<t>>, id))[1] = <<"/", c>>
         /\ Words(Text(c, <<t>>, id))[2] = <<t>>
         /\ id # <<>> => Words(Text(c, <<t>>, id))[3] = id
         /\ Trailing(Text(c, <<t>>, id)) <=> id = <<>>
<1> DEFINE text == Text(c, <<t>>, id)
<1>1. /\ text \in Seq(Units) /\ id \in Seq(Units) /\ Len(text) = 5 + Len(id)
      /\ text[1] = "/" /\ text[2] = c /\ text[3] = Space /\ text[4] = t /\ text[5] = Space
      /\ \A i \in 6..Len(text) : text[i] = id[i - 5]
  BY TextUnits
<1> HIDE DEF text
<1>2. "/" # Space /\ c # Space /\ t # Space
  BY UnitsOf, TransportAssumption DEF WithArguments
<1>3. Len(id) \in Nat /\ Len(text) \in Nat /\ DOMAIN text = 1..Len(text) /\ DOMAIN id = 1..Len(id)
  BY <1>1
<1>4. \A n \in 1..Len(id) : id[n] # Space
  BY <1>3, IdAssumption
<1>5. \A i \in 6..Len(text) : text[i] # Space
  <2>1. \A i \in 6..Len(text) : i - 5 \in 1..Len(id)
    BY <1>1, <1>3
  <2> QED
    BY <1>1, <1>4, <2>1
<1>6. WordFrom(text, 1) = <<"/", c>>
  <2>1. \A j \in 1..2 : text[j] # Space
    <3>1. \A j \in 1..2 : j = 1 \/ j = 2
      OBVIOUS
    <3> QED
      BY <1>1, <1>2, <3>1
  <2>2. 1 \in 1..Len(text) /\ 2 \in 1..Len(text) /\ text[2 + 1] = Space
    BY <1>1, <1>3
  <2>3. WordFrom(text, 1) = SubSeq(text, 1, 2)
    BY <1>1, <2>1, <2>2, WordIs
  <2> QED
    BY <1>1, <1>3, <2>3, PairOf
<1>7. WordFrom(text, 4) = <<t>>
  <2>1. \A j \in 4..4 : text[j] # Space
    <3>1. \A j \in 4..4 : j = 4
      OBVIOUS
    <3> QED
      BY <1>1, <1>2, <3>1
  <2>2. 4 \in 1..Len(text) /\ 4 \in 4..Len(text) /\ text[4 + 1] = Space
    BY <1>1, <1>3
  <2>3. WordFrom(text, 4) = SubSeq(text, 4, 4)
    BY <1>1, <2>1, <2>2, WordIs
  <2> QED
    BY <1>1, <2>2, <2>3, OneOf
<1>8. \A i \in DOMAIN text : i = 1 \/ i = 2 \/ i = 3 \/ i = 4 \/ i = 5 \/ i = 6 \/ (i > 6 /\ i - 1 \in 6..Len(text))
  BY <1>3
<1>9. CASE id = <<>>
  <2>1. Len(text) = 5
    BY <1>1, <1>9
  <2>2. Starts(text) = {1, 4}
    <3>1. DOMAIN text = {1, 2, 3, 4, 5}
      BY <1>3, <2>1
    <3>2. \A i \in {1, 2, 3, 4, 5} :
            (text[i] # Space /\ (i = 1 \/ text[i - 1] = Space)) <=> i \in {1, 4}
      <4>1. text[1] # Space /\ text[2] # Space /\ text[2 - 1] # Space /\ text[4 - 1] = Space
        BY <1>1, <1>2
      <4>2. text[4] # Space /\ text[3] = Space /\ text[5] = Space
        BY <1>1, <1>2
      <4> QED
        BY <4>1, <4>2
    <3>3. {1, 4} \subseteq {1, 2, 3, 4, 5}
      OBVIOUS
    <3> QED
      BY <3>1, <3>2, <3>3 DEF Starts
  <2>3. Words(text) = [n \in 1..2 |-> WordFrom(text, Nth({1, 4}, n))]
    BY <2>2, TwoStarts DEF Words
  <2>4. Len(Words(text)) = 2 /\ Words(text)[1] = <<"/", c>> /\ Words(text)[2] = <<t>>
    BY <2>3, <1>6, <1>7, TwoStarts
  <2>5. Trailing(text)
    <3>1. text[Len(text)] = Space
      BY <1>1, <2>1
    <3>2. text # <<>>
      BY <2>1
    <3> QED
      BY <3>1, <3>2 DEF Trailing
  <2> QED
    BY <1>9, <2>4, <2>5 DEF text
<1>10. CASE id # <<>>
  <2>1. Len(text) > 5
    BY <1>1, <1>3, <1>10
  <2>2. Starts(text) = {1, 4, 6}
    <3>1. {1, 4, 6} \subseteq DOMAIN text
      BY <1>3, <2>1
    <3>2. text[6] # Space /\ text[6 - 1] = Space
      BY <1>1, <1>5, <1>3, <2>1
    <3>3. text[1] # Space /\ text[2] # Space /\ text[2 - 1] # Space /\ text[4 - 1] = Space
      BY <1>1, <1>2
    <3>4. text[4] # Space /\ text[3] = Space /\ text[5] = Space
      BY <1>1, <1>2
    <3>5. \A i \in DOMAIN text :
            (text[i] # Space /\ (i = 1 \/ text[i - 1] = Space)) <=> i \in {1, 4, 6}
      <4>1. \A i \in DOMAIN text : i > 6 => text[i - 1] # Space
        BY <1>5, <1>8
      <4> QED
        BY <1>8, <3>2, <3>3, <3>4, <4>1
    <3> QED
      BY <3>1, <3>5 DEF Starts
  <2>3. WordFrom(text, 6) = id
    <3>1. Len(text) \in 6..Len(text) /\ 6 \in 1..Len(text)
      BY <1>3, <2>1
    <3>2. WordFrom(text, 6) = SubSeq(text, 6, Len(text))
      BY <1>1, <1>3, <1>5, <3>1, WordIs
    <3> QED
      BY <1>1, <1>10, <3>2, RestOf
  <2>4. Words(text) = [n \in 1..3 |-> WordFrom(text, Nth({1, 4, 6}, n))]
    BY <2>2, ThreeStarts DEF Words
  <2>5. /\ Len(Words(text)) = 3 /\ Words(text)[1] = <<"/", c>> /\ Words(text)[2] = <<t>>
        /\ Words(text)[3] = id
    BY <2>3, <2>4, <1>6, <1>7, ThreeStarts
  <2>6. ~Trailing(text)
    BY <1>3, <1>5, <2>1 DEF Trailing
  <2> QED
    BY <1>10, <2>5, <2>6 DEF text
<1> QED
  BY <1>9, <1>10

-----------------------------------------------------------------------------
(* What is offered.                                                         *)

LEMMA OfferedForms ==
  /\ <<"/", "q">> \in Offered
  /\ \A c \in WithArguments : <<"/", c, Space>> \in Offered
  /\ \A c \in WithArguments, t \in TransportNames, id \in {<<>>} \cup Ids \cup Invites :
       Text(c, <<t>>, id) \in Offered
<1>1. <<"/", "q">> \in Offered
  BY UnitsOf DEF Offered
<1>2. ASSUME NEW c \in WithArguments PROVE <<"/", c, Space>> \in Offered
  BY UnitsOf DEF Offered, WithArguments
<1>3. ASSUME NEW c \in WithArguments, NEW t \in TransportNames,
             NEW id \in {<<>>} \cup Ids \cup Invites
      PROVE  Text(c, <<t>>, id) \in Offered
  BY TextUnits DEF Offered
<1> QED
  BY <1>1, <1>2, <1>3

\* A finite set's elements in some order, each once.
LEMMA InOrder ==
  ASSUME NEW S, IsFiniteSet(S)
  PROVE  /\ SetToSeq(S) \in Seq(S) /\ IsInjective(SetToSeq(S))
         /\ Len(SetToSeq(S)) = Cardinality(S) /\ Cardinality(S) \in Nat
<1>1. Cardinality(S) \in Nat /\ ExistsBijection(1..Cardinality(S), S)
  BY FS_CardinalityType
<1>2. PICK f \in [1..Cardinality(S) -> S] : IsInjective(f)
  BY <1>1 DEF ExistsBijection, Bijection, Injection
<1>3. SetToSeq(S) \in [1..Cardinality(S) -> S] /\ IsInjective(SetToSeq(S))
  BY <1>2 DEF SetToSeq
<1> HIDE DEF SetToSeq
<1>4. SetToSeq(S) \in Seq(S) /\ DOMAIN SetToSeq(S) = 1..Cardinality(S)
  BY <1>1, <1>3
<1>5. Len(SetToSeq(S)) = Cardinality(S)
  BY <1>1, <1>4
<1> QED
  BY <1>1, <1>3, <1>4, <1>5

\* A sequence's places are numbers, and finitely many.
LEMMA PlacesOf ==
  ASSUME NEW S, NEW seq \in Seq(S), NEW places \in SUBSET DOMAIN seq
  PROVE  places \in SUBSET Nat /\ IsFiniteSet(places) /\ Cardinality(places) \in Nat
<1>1. Len(seq) \in Nat /\ DOMAIN seq = 1..Len(seq)
  OBVIOUS
<1>2. IsFiniteSet(1..Len(seq))
  BY <1>1, FS_Interval
<1>3. IsFiniteSet(places)
  BY <1>1, <1>2, FS_Subset
<1> QED
  BY <1>1, <1>3, FS_CardinalityType

\* What is kept of a sequence are elements of it, the first of them first.
LEMMA KeptOf ==
  ASSUME NEW S, NEW seq \in Seq(S), NEW places \in SUBSET DOMAIN seq
  PROVE  /\ Keep(seq, places) \in Seq(S)
         /\ \A n \in DOMAIN Keep(seq, places) :
              \E i \in places : Keep(seq, places)[n] = seq[i]
         /\ places # {} =>
              /\ Keep(seq, places) # <<>>
              /\ \E i \in places : /\ Keep(seq, places)[1] = seq[i]
                                   /\ \A j \in places : i <= j
<1>1. places \in SUBSET Nat /\ IsFiniteSet(places) /\ Cardinality(places) \in Nat
  BY PlacesOf
<1>2. \A n \in 1..Cardinality(places) : Nth(places, n) \in places
  BY <1>1, NthOfEach
<1> DEFINE kept == Keep(seq, places)
<1>3. /\ DOMAIN kept = 1..Cardinality(places)
      /\ \A n \in 1..Cardinality(places) : kept[n] = seq[Nth(places, n)]
  BY DEF Keep
<1>4. kept \in Seq(S)
  <2>1. kept \in [1..Cardinality(places) -> S]
    BY <1>2 DEF Keep
  <2> HIDE DEF kept
  <2> QED
    BY <1>1, <2>1
<1> HIDE DEF kept
<1>5. \A n \in DOMAIN kept : \E i \in places : kept[n] = seq[i]
  BY <1>2, <1>3
<1>6. ASSUME places # {}
      PROVE  kept # <<>> /\ \E i \in places : kept[1] = seq[i] /\ \A j \in places : i <= j
  <2>1. 1 \in 1..Cardinality(places) /\ Nth(places, 1) \in places
        /\ \A i \in places : Nth(places, 1) <= i
    BY <1>1, <1>6, NthFirst
  <2>2. 1 \in DOMAIN kept /\ kept[1] = seq[Nth(places, 1)]
    BY <1>3, <2>1
  <2> QED
    BY <2>1, <2>2
<1> QED
  BY <1>4, <1>5, <1>6 DEF kept

\* The transports that are offered.
LEMMA TransportsOffered ==
  ASSUME NEW c \in WithArguments, NEW names \in SUBSET TransportNames, NEW prefix
  PROVE  /\ TransportSuggestions(c, names, prefix) \in Seq(Offered)
         /\ TransportSuggestions(c, names, prefix)
              \in Seq({Text(c, <<t>>, <<>>) : t \in TransportNames})
<1> DEFINE found == {t \in names : IsPrefix(prefix, <<t>>)}
           list == SetToSeq(found)
           out == TransportSuggestions(c, names, prefix)
<1>1. IsFiniteSet(found)
  BY FS_Subset, TransportAssumption
<1>2. list \in Seq(found)
  BY <1>1, InOrder
<1>3. out = [n \in DOMAIN list |-> Text(c, <<list[n]>>, <<>>)]
  BY DEF TransportSuggestions
<1>4. found \subseteq TransportNames
  OBVIOUS
<1> HIDE DEF found, list, out
<1>5. /\ DOMAIN out = DOMAIN list /\ DOMAIN list = 1..Len(list) /\ Len(list) \in Nat
      /\ \A n \in DOMAIN list : list[n] \in TransportNames
  BY <1>2, <1>3, <1>4
<1>6. \A n \in DOMAIN list : out[n] = Text(c, <<list[n]>>, <<>>)
  BY <1>3
<1>7. \A t \in TransportNames : Text(c, <<t>>, <<>>) \in Offered
  BY OfferedForms
<1>8. out \in [1..Len(list) -> Offered]
  BY <1>3, <1>5, <1>6, <1>7
<1>9. out \in Seq(Offered)
  BY <1>5, <1>8
<1>10. \A t \in TransportNames : Text(c, <<t>>, <<>>) \in {Text(c, <<u>>, <<>>) : u \in TransportNames}
  OBVIOUS
<1>11. out \in [1..Len(list) -> {Text(c, <<t>>, <<>>) : t \in TransportNames}]
  BY <1>3, <1>5, <1>6, <1>10
<1>12. out \in Seq({Text(c, <<t>>, <<>>) : t \in TransportNames})
  BY <1>5, <1>11
<1> QED
  BY <1>9, <1>12 DEF out

\* The chats or invites that are offered: those that match, the first of them first.
LEMMA ChatsOffered ==
  ASSUME NEW c \in WithArguments, NEW t \in TransportNames,
         NEW known \in Seq(Ids \cup Invites), NEW prefix
  PROVE  /\ ChatSuggestions(c, <<t>>, known, prefix) \in Seq(Offered)
         /\ \A i \in DOMAIN known : Matches(known[i], prefix) =>
              /\ ChatSuggestions(c, <<t>>, known, prefix) # <<>>
              /\ \E j \in DOMAIN known :
                   /\ Matches(known[j], prefix) /\ j <= i
                   /\ ChatSuggestions(c, <<t>>, known, prefix)[1] = Text(c, <<t>>, known[j])
         /\ ChatSuggestions(c, <<t>>, known, prefix) # <<>> =>
              \E j \in DOMAIN known : Matches(known[j], prefix)
<1> DEFINE places == {i \in DOMAIN known : Matches(known[i], prefix)}
           list == Keep(known, places)
           out == ChatSuggestions(c, <<t>>, known, prefix)
<1>1. out = [n \in DOMAIN list |-> Text(c, <<t>>, list[n])]
  BY DEF ChatSuggestions
<1>2. places \in SUBSET DOMAIN known
  OBVIOUS
<1>3. \A i \in DOMAIN known : Matches(known[i], prefix) <=> i \in places
  OBVIOUS
<1> HIDE DEF places
<1>4. /\ list \in Seq(Ids \cup Invites)
      /\ \A n \in DOMAIN list : \E i \in places : list[n] = known[i]
      /\ places # {} =>
           list # <<>> /\ \E i \in places : list[1] = known[i] /\ \A j \in places : i <= j
  BY <1>2, KeptOf
<1> HIDE DEF list, out
<1>5. DOMAIN out = DOMAIN list /\ DOMAIN list = 1..Len(list) /\ Len(list) \in Nat
  BY <1>1, <1>4
<1>6. \A n \in DOMAIN list : out[n] = Text(c, <<t>>, list[n])
  BY <1>1
<1>7. \A id \in Ids \cup Invites : Text(c, <<t>>, id) \in Offered
  BY OfferedForms
<1>8. \A n \in DOMAIN list : list[n] \in Ids \cup Invites
  BY <1>4
<1>9. out \in [1..Len(list) -> Offered]
  BY <1>1, <1>5, <1>6, <1>7, <1>8
<1>10. out \in Seq(Offered)
  BY <1>5, <1>9
<1>11. ASSUME NEW i \in DOMAIN known, i \in places
       PROVE  /\ out # <<>>
              /\ \E j \in DOMAIN known :
                   j \in places /\ j <= i /\ out[1] = Text(c, <<t>>, known[j])
  <2>1. list # <<>>
    BY <1>4, <1>11
  <2>2. 1 \in DOMAIN list
    BY <1>4, <2>1
  <2>3. PICK j \in places : list[1] = known[j] /\ \A h \in places : j <= h
    BY <1>4, <1>11
  <2>4. out # <<>> /\ out[1] = Text(c, <<t>>, list[1])
    BY <1>5, <1>6, <2>2
  <2> QED
    BY <1>2, <1>11, <2>3, <2>4
<1>12. ASSUME out # <<>> PROVE \E j \in DOMAIN known : j \in places
  <2>1. 1 \in DOMAIN out
    BY <1>10, <1>12
  <2>2. \E i \in places : list[1] = known[i]
    BY <1>4, <1>5, <2>1
  <2> QED
    BY <1>2, <2>2
<1> QED
  BY <1>3, <1>10, <1>11, <1>12 DEF out

\* The commands that are offered.
LEMMA CommandsOffered ==
  ASSUME NEW word
  PROVE  /\ CommandSuggestions(word) \in Seq(Offered)
         /\ \A n \in DOMAIN CommandSuggestions(word) : \E c \in {"t", "r", "l", "q"} :
              /\ IsPrefix(word, <<"/", c>>)
              /\ CommandSuggestions(word)[n] = IF c = "q" THEN <<"/", c>> ELSE <<"/", c, Space>>
<1> DEFINE matching == {i \in DOMAIN Commands : IsPrefix(word, <<"/", Commands[i]>>)}
           value(c) == IF c = "q" THEN <<"/", c>> ELSE <<"/", c, Space>>
           out == CommandSuggestions(word)
<1>1. Commands \in Seq({"t", "r", "l", "q"})
  BY DEF Commands
<1>2. matching \in SUBSET DOMAIN Commands
  OBVIOUS
<1>3. \A i \in matching : IsPrefix(word, <<"/", Commands[i]>>) /\ Commands[i] \in {"t", "r", "l", "q"}
  BY <1>1
<1>4. out = [n \in 1..Cardinality(matching) |-> value(Commands[Nth(matching, n)])]
  BY DEF CommandSuggestions
<1>5. \A c \in {"t", "r", "l", "q"} : value(c) \in Offered
  BY OfferedForms DEF WithArguments
<1> HIDE DEF matching, out, value
<1>6. matching \in SUBSET Nat /\ IsFiniteSet(matching) /\ Cardinality(matching) \in Nat
  BY <1>1, <1>2, PlacesOf
<1>7. \A n \in 1..Cardinality(matching) : Nth(matching, n) \in matching
  BY <1>6, NthOfEach
<1>8. out \in [1..Cardinality(matching) -> Offered]
  BY <1>3, <1>4, <1>5, <1>7
<1>9. \A n \in DOMAIN out : \E c \in {"t", "r", "l", "q"} :
        IsPrefix(word, <<"/", c>>) /\ out[n] = value(c)
  BY <1>3, <1>4, <1>7
<1>10. out \in Seq(Offered)
  BY <1>6, <1>8
<1> QED
  BY <1>9, <1>10 DEF out, value

\* The transports, the chats or the fallback of a command.
LEMMA ArgumentsOffered ==
  ASSUME NEW c \in WithArguments, NEW transport, NEW prefix, NEW typing \in BOOLEAN,
         NEW known \in Seq(Ids), NEW invited \in SUBSET Invites
  PROVE  ArgumentSuggestions(c, transport, prefix, typing, known, invited) \in Seq(Offered)
<1> DEFINE names == TransportsWith(c, known, invited)
           looked == IF c = "r" THEN SetToSeq(invited) ELSE known
<1>1. names \in SUBSET TransportNames
  BY DEF TransportsWith
<1>2. TransportSuggestions(c, names, transport) \in Seq(Offered)
  BY <1>1, TransportsOffered
<1>3. IsFiniteSet(Invites)
  BY IdAssumption, FS_Subset
<1>4. looked \in Seq(Ids \cup Invites)
  <2>1. IsFiniteSet(invited)
    BY <1>3, FS_Subset
  <2>2. SetToSeq(invited) \in Seq(invited)
    BY <2>1, InOrder
  <2> QED
    BY <2>2
<1>5. ASSUME NEW t \in TransportNames, transport = <<t>>
      PROVE  ChatSuggestions(c, transport, looked, prefix) \in Seq(Offered)
  BY <1>4, <1>5, ChatsOffered
<1>6. ASSUME c = "l", HasTarget(known)
      PROVE  <<Text("l", <<"m">>, Head(known))>> \in Seq(Offered)
  <2>1. Head(known) \in Ids
    BY <1>6 DEF HasTarget
  <2>2. Text("l", <<"m">>, Head(known)) \in Offered
    BY <2>1, TransportAssumption, OfferedForms DEF WithArguments
  <2> QED
    BY <2>2
<1>7. <<>> \in Seq(Offered)
  OBVIOUS
<1> HIDE DEF names, looked
<1> QED
  BY <1>2, <1>5, <1>6, <1>7 DEF ArgumentSuggestions, IsTransportName, names, looked

\* Whatever is typed, what is offered has the form of a command's.
LEMMA SuggestionsOffered ==
  ASSUME NEW text, NEW known \in Seq(Ids), NEW invited \in SUBSET Invites
  PROVE  SuggestionsFor(text, known, invited) \in Seq(Offered)
<1> DEFINE words == Words(text)
           word(n) == IF n <= Len(words) THEN words[n] ELSE <<>>
<1>1. CommandSuggestions(words[1]) \in Seq(Offered)
  BY CommandsOffered
<1>2. ASSUME NEW c \in {"t", "r", "l"}, words[1] = <<"/", c>>
      PROVE  ArgumentSuggestions(words[1][2], word(2), word(3),
                                 Len(words) = 2 /\ ~Trailing(text), known, invited) \in Seq(Offered)
  <2>1. words[1][2] = c /\ c \in WithArguments
    BY <1>2 DEF WithArguments
  <2>2. (Len(words) = 2 /\ ~Trailing(text)) \in BOOLEAN
    OBVIOUS
  <2> HIDE DEF words, word
  <2> QED
    BY <2>1, <2>2, ArgumentsOffered
<1>3. <<>> \in Seq(Offered)
  OBVIOUS
<1> QED
  BY <1>1, <1>2, <1>3 DEF SuggestionsFor

LEMMA PrefixOfEach ==
  ASSUME NEW S, NEW s \in Seq(S), NEW u \in Seq(S), IsPrefix(s, u), NEW i \in 1..Len(s)
  PROVE  s[i] = u[i]
<1>1. Len(s) \in Nat /\ Len(u) \in Nat /\ Len(s) <= Len(u)
  BY DEF IsPrefix
<1>2. SubSeq(s, 1, Len(s))[i] = s[i] /\ SubSeq(u, 1, Len(s))[i] = u[i]
  BY <1>1
<1> QED
  BY <1>2 DEF IsPrefix

LEMMA PrefixTrivially ==
  ASSUME NEW S, NEW s \in Seq(S)
  PROVE  IsPrefix(s, s) /\ IsPrefix(<<>>, s)
<1>1. Len(s) <= Len(s) /\ 0 <= Len(s)
  OBVIOUS
<1>2. IsPrefix(s, s)
  BY <1>1 DEF IsPrefix
<1>3. SubSeq(<<>>, 1, 0) = <<>> /\ SubSeq(s, 1, 0) = <<>>
  OBVIOUS
<1>4. IsPrefix(<<>>, s)
  BY <1>1, <1>3 DEF IsPrefix
<1> QED
  BY <1>2, <1>4

\* Where /quit is typed only /quit is offered.
LEMMA QuitOffers ==
  ASSUME NEW known, NEW invited, NEW n \in DOMAIN SuggestionsFor(<<"/", "q">>, known, invited)
  PROVE  SuggestionsFor(<<"/", "q">>, known, invited)[n] = <<"/", "q">>
<1> DEFINE quit == <<"/", "q">>
<1>1. Words(quit) = <<quit>>
  BY CommandWords
<1>2. quit # <<>> /\ quit[1] = "/" /\ ~Trailing(quit) /\ Len(<<quit>>) = 1 /\ <<quit>>[1] = quit
  BY UnitsOf DEF Trailing
<1>3. SuggestionsFor(quit, known, invited) = CommandSuggestions(quit)
  BY <1>1, <1>2 DEF SuggestionsFor
<1>4. PICK c \in {"t", "r", "l", "q"} :
        /\ IsPrefix(quit, <<"/", c>>)
        /\ CommandSuggestions(quit)[n] = IF c = "q" THEN <<"/", c>> ELSE <<"/", c, Space>>
  BY <1>3, CommandsOffered
<1>5. c = "q"
  <2>1. quit \in Seq(Units) /\ <<"/", c>> \in Seq(Units) /\ 2 \in 1..Len(quit)
    BY UnitsOf
  <2>2. quit[2] = <<"/", c>>[2]
    BY <1>4, <2>1, PrefixOfEach
  <2> QED
    BY <2>2
<1> QED
  BY <1>3, <1>4, <1>5

\* A command with arguments and what there is of them.
LEMMA Dispatches ==
  ASSUME NEW text, NEW c \in WithArguments, NEW known, NEW invited,
         text # <<>>, text[1] = "/",
         Words(text)[1] = <<"/", c>>,
         Len(Words(text)) = 1 \/ Len(Words(text)) = 2 => Trailing(text)
  PROVE  SuggestionsFor(text, known, invited) =
           ArgumentSuggestions(c, IF 2 <= Len(Words(text)) THEN Words(text)[2] ELSE <<>>,
                               IF 3 <= Len(Words(text)) THEN Words(text)[3] ELSE <<>>,
                               FALSE, known, invited)
<1> DEFINE words == Words(text)
           word(n) == IF n <= Len(words) THEN words[n] ELSE <<>>
           command == words[1][2]
<1>1. (Len(words) = 2 /\ ~Trailing(text)) = FALSE
  OBVIOUS
<1>2. ~(Len(words) = 1 /\ ~Trailing(text))
  OBVIOUS
<1>3. (\E d \in {"t", "r", "l"} : words[1] = <<"/", d>>) /\ command = c
  BY DEF WithArguments
<1>4. SuggestionsFor(text, known, invited) =
        ArgumentSuggestions(command, word(2), word(3), Len(words) = 2 /\ ~Trailing(text),
                            known, invited)
  BY <1>2, <1>3 DEF SuggestionsFor
<1>5. SuggestionsFor(text, known, invited) =
        ArgumentSuggestions(c, word(2), word(3), FALSE, known, invited)
  <2> HIDE DEF words, word, command
  <2> QED
    BY <1>1, <1>3, <1>4
<1> QED
  BY <1>5

\* After a command and a blank: the transports, or where a /leave would go.
LEMMA CommandOffers ==
  ASSUME NEW c \in WithArguments, NEW known \in Seq(Ids), NEW invited \in SUBSET Invites,
         NEW n \in DOMAIN SuggestionsFor(<<"/", c, Space>>, known, invited)
  PROVE  LET value == SuggestionsFor(<<"/", c, Space>>, known, invited)[n]
         IN  \/ \E t \in TransportNames : value = Text(c, <<t>>, <<>>)
             \/ c = "l" /\ known # <<>> /\ value = Text("l", <<"m">>, known[1])
<1> DEFINE text == <<"/", c, Space>>
           names == TransportsWith(c, known, invited)
<1>1. Words(text) = << <<"/", c>> >>
  BY CommandWords DEF WithArguments
<1>2. text # <<>> /\ text[1] = "/" /\ Trailing(text)
  BY DEF Trailing
<1>3. SuggestionsFor(text, known, invited) =
        ArgumentSuggestions(c, <<>>, <<>>, FALSE, known, invited)
  <2>1. Len(Words(text)) = 1 /\ Words(text)[1] = <<"/", c>>
    BY <1>1
  <2>2. (IF 2 <= Len(Words(text)) THEN Words(text)[2] ELSE <<>>) = <<>>
        /\ (IF 3 <= Len(Words(text)) THEN Words(text)[3] ELSE <<>>) = <<>>
    BY <2>1
  <2> HIDE DEF text
  <2>3. SuggestionsFor(text, known, invited) =
          ArgumentSuggestions(c, IF 2 <= Len(Words(text)) THEN Words(text)[2] ELSE <<>>,
                              IF 3 <= Len(Words(text)) THEN Words(text)[3] ELSE <<>>,
                              FALSE, known, invited)
    BY <1>2, <2>1, Dispatches
  <2> QED
    BY <2>2, <2>3
<1>4. ~IsTransportName(<<>>)
  BY DEF IsTransportName
<1>5. CASE c = "t"
  <2>1. SuggestionsFor(text, known, invited) = TransportSuggestions(c, names, <<>>)
    BY <1>3, <1>5 DEF ArgumentSuggestions
  <2>2. names \in SUBSET TransportNames
    BY DEF TransportsWith
  <2> HIDE DEF names
  <2> DEFINE values == {Text(c, <<t>>, <<>>) : t \in TransportNames}
             list == TransportSuggestions(c, names, <<>>)
  <2>3. list \in Seq(values)
    BY <2>2, TransportsOffered
  <2>4. n \in DOMAIN list
    BY <2>1
  <2>5. list[n] \in values
    <3> HIDE DEF list, values
    <3> QED
      BY <2>3, <2>4
  <2> QED
    BY <2>1, <2>5
<1>6. CASE c # "t"
  <2>1. SuggestionsFor(text, known, invited) =
          IF c = "l" /\ HasTarget(known) THEN <<Text("l", <<"m">>, Head(known))>> ELSE <<>>
    BY <1>3, <1>4, <1>6 DEF ArgumentSuggestions
  <2>2. c = "l" /\ HasTarget(known)
    BY <2>1
  <2>3. SuggestionsFor(text, known, invited)[n] = Text("l", <<"m">>, Head(known))
    BY <2>1, <2>2
  <2>4. known # <<>> /\ Head(known) = known[1]
    BY <2>2 DEF HasTarget
  <2> QED
    BY <2>2, <2>3, <2>4
<1> QED
  BY <1>5, <1>6

\* After a transport, and after a chat: the chats that match.
LEMMA ChatOffers ==
  ASSUME NEW c \in WithArguments, NEW t \in TransportNames,
         NEW id \in {<<>>} \cup Ids \cup Invites, NEW known, NEW invited
  PROVE  SuggestionsFor(Text(c, <<t>>, id), known, invited) =
           ChatSuggestions(c, <<t>>, IF c = "r" THEN SetToSeq(invited) ELSE known, id)
<1> DEFINE text == Text(c, <<t>>, id)
           words == Words(text)
<1>1. /\ Len(words) = IF id = <<>> THEN 2 ELSE 3
      /\ words[1] = <<"/", c>> /\ words[2] = <<t>> /\ (id # <<>> => words[3] = id)
      /\ Trailing(text) <=> id = <<>>
  BY ArgumentWords
<1>2. text \in Seq(Units) /\ Len(text) = 5 + Len(id) /\ text[1] = "/" /\ id \in Seq(Units)
  BY TextUnits
<1>3. text # <<>>
  <2>1. Len(text) # 0
    BY <1>2
  <2> HIDE DEF text
  <2> QED
    BY <2>1
<1>4. (IF 3 <= Len(words) THEN words[3] ELSE <<>>) = id
      /\ (IF 2 <= Len(words) THEN words[2] ELSE <<>>) = <<t>>
  BY <1>1
<1>5. <<"/", c>>[2] = c /\ <<t>> # <<>> /\ IsTransportName(<<t>>)
  BY DEF IsTransportName
<1> HIDE DEF text, words
<1>6. SuggestionsFor(text, known, invited) =
        ArgumentSuggestions(c, <<t>>, id, FALSE, known, invited)
  <2>1. Len(Words(text)) = 1 \/ Len(Words(text)) = 2 => Trailing(text)
    BY <1>1 DEF words
  <2>2. SuggestionsFor(text, known, invited) =
          ArgumentSuggestions(c, IF 2 <= Len(Words(text)) THEN Words(text)[2] ELSE <<>>,
                              IF 3 <= Len(Words(text)) THEN Words(text)[3] ELSE <<>>,
                              FALSE, known, invited)
    BY <1>1, <1>2, <1>3, <2>1, Dispatches DEF words
  <2> QED
    BY <1>4, <2>2 DEF words
<1>7. ArgumentSuggestions(c, <<t>>, id, FALSE, known, invited) =
        ChatSuggestions(c, <<t>>, IF c = "r" THEN SetToSeq(invited) ELSE known, id)
  BY <1>5 DEF ArgumentSuggestions
<1> QED
  BY <1>6, <1>7 DEF text

-----------------------------------------------------------------------------
(* What is offered can be told apart.                                       *)

LEMMA TextsDiffer ==
  ASSUME NEW c \in WithArguments, NEW t \in TransportNames,
         NEW id \in {<<>>} \cup Ids \cup Invites,
         NEW d \in WithArguments, NEW u \in TransportNames,
         NEW jd \in {<<>>} \cup Ids \cup Invites,
         Text(c, <<t>>, id) = Text(d, <<u>>, jd)
  PROVE  c = d /\ t = u /\ id = jd
<1>1. Text(c, <<t>>, id)[2] = c /\ Text(c, <<t>>, id)[4] = t
  BY TextUnits
<1>2. Text(d, <<u>>, jd)[2] = d /\ Text(d, <<u>>, jd)[4] = u
  BY TextUnits
<1>3. /\ id # <<>> => Words(Text(c, <<t>>, id))[3] = id
      /\ Trailing(Text(c, <<t>>, id)) <=> id = <<>>
  BY ArgumentWords
<1>4. /\ jd # <<>> => Words(Text(d, <<u>>, jd))[3] = jd
      /\ Trailing(Text(d, <<u>>, jd)) <=> jd = <<>>
  BY ArgumentWords
<1> QED
  BY <1>1, <1>2, <1>3, <1>4

LEMMA TextIsLong ==
  ASSUME NEW c \in WithArguments, NEW t \in TransportNames,
         NEW id \in {<<>>} \cup Ids \cup Invites
  PROVE  /\ Text(c, <<t>>, id) # <<"/", "q">>
         /\ \A d \in WithArguments : Text(c, <<t>>, id) # <<"/", d, Space>>
<1>1. Len(Text(c, <<t>>, id)) = 5 + Len(id) /\ Len(id) \in Nat
  BY TextUnits
<1> DEFINE text == Text(c, <<t>>, id)
<1> HIDE DEF text
<1>2. Len(text) # 2 /\ Len(text) # 3
  <2>1. 5 + Len(id) # 2 /\ 5 + Len(id) # 3
    BY <1>1
  <2> QED
    BY <1>1, <2>1 DEF text
<1>3. text # <<"/", "q">>
  <2>1. Len(<<"/", "q">>) = 2
    OBVIOUS
  <2> QED
    BY <1>2, <2>1
<1>4. ASSUME NEW d \in WithArguments PROVE text # <<"/", d, Space>>
  <2> DEFINE command == <<"/", d, Space>>
  <2>1. Len(command) = 3
    OBVIOUS
  <2> HIDE DEF command
  <2>2. text # command
    BY <1>2, <2>1
  <2> QED
    BY <2>2 DEF command
<1> QED
  BY <1>3, <1>4 DEF text

-----------------------------------------------------------------------------
(* The types of the input line.                                             *)

\* What RenderInput leaves, where the text and what is known have their types.
LEMMA RenderTypes ==
  ASSUME buffer' \in Seq(Units), cursor' \in 0..Len(buffer'),
         chats' \in Seq(Ids), invites' \in SUBSET Invites,
         NEW h \in Nat, RenderInput(h)
  PROVE  /\ suggestions' \in Seq(Offered)
         /\ selected' = 0 \/ selected' \in 1..Len(suggestions') - 1
         /\ screen' = CleanScreen \/ screen'.cursor \in 0..Len(screen'.text)
<1>1. suggestions' \in Seq(Offered)
  <2>1. SuggestionsFor(buffer', chats', invites') \in Seq(Offered)
    BY SuggestionsOffered
  <2>2. <<>> \in Seq(Offered)
    OBVIOUS
  <2> QED
    BY <2>1, <2>2 DEF RenderInput
<1>2. Len(suggestions') \in Nat
  BY <1>1
<1>3. selected' = IF h < Len(suggestions') THEN h ELSE 0
  BY DEF RenderInput
<1>4. screen'.cursor = cursor' /\ screen'.text = buffer'
  BY DEF RenderInput
<1> QED
  BY <1>1, <1>2, <1>3, <1>4

\* What the session learns has its types.
LEMMA LearnTypes ==
  ASSUME chats \in Seq(Ids), IsInjective(chats), Learns
  PROVE  chats' \in Seq(Ids) /\ IsInjective(chats') /\ invites' \in SUBSET Invites
<1>1. PICK new \in {<<>>} \cup {<<c>> : c \in Ids \ ToSet(chats)} : chats' = chats \o new
  BY DEF Learns
<1>2. CASE new = <<>>
  <2>1. chats' = chats
    BY <1>1, <1>2
  <2> QED
    BY <2>1 DEF Learns
<1>3. ASSUME NEW c \in Ids \ ToSet(chats), new = <<c>>
      PROVE  chats' \in Seq(Ids) /\ IsInjective(chats')
  <2>1. chats' = chats \o <<c>>
    BY <1>1, <1>3
  <2>2. /\ chats' \in Seq(Ids) /\ Len(chats') = Len(chats) + 1 /\ Len(chats) \in Nat
        /\ \A i \in 1..Len(chats) : chats'[i] = chats[i]
        /\ chats'[Len(chats) + 1] = c
    BY <2>1
  <2>3. \A i \in 1..Len(chats) : chats[i] # c
    BY DEF ToSet
  <2>4. DOMAIN chats' = 1..Len(chats) + 1 /\ DOMAIN chats = 1..Len(chats)
    BY <2>2
  <2>5. \A i \in DOMAIN chats' : i \in 1..Len(chats) \/ i = Len(chats) + 1
    BY <2>2, <2>4
  <2>6. \A a, b \in DOMAIN chats' : chats'[a] = chats'[b] => a = b
    BY <2>2, <2>3, <2>4, <2>5 DEF IsInjective
  <2> QED
    BY <2>2, <2>6 DEF IsInjective
<1> QED
  BY <1>1, <1>2, <1>3 DEF Learns

\* A text that is pasted is of units.
LEMMA NormalizedTypes ==
  ASSUME NEW chunk \in Seq(Units)
  PROVE  Normalized(chunk) \in Seq(Units)
<1> DEFINE kept == {i \in DOMAIN chunk : ~(chunk[i] = Newline /\ i > 1 /\ chunk[i - 1] = Newline)}
           line == Keep(chunk, kept)
<1>1. kept \in SUBSET DOMAIN chunk
  OBVIOUS
<1>2. Normalized(chunk) = [n \in DOMAIN line |-> IF line[n] = Newline THEN Space ELSE line[n]]
  BY DEF Normalized
<1> HIDE DEF kept
<1>3. line \in Seq(Units)
  BY <1>1, KeptOf
<1> HIDE DEF line
<1>4. Normalized(chunk) \in [1..Len(line) -> Units] /\ Len(line) \in Nat
  BY <1>2, <1>3, UnitsOf
<1> QED
  BY <1>4

LEMMA WordStartType ==
  ASSUME buffer \in Seq(Units), cursor \in 0..Len(buffer)
  PROVE  PreviousWordStart \in 0..cursor
<1> DEFINE before == {i \in Starts(buffer) : i <= cursor}
<1>1. Len(buffer) \in Nat /\ DOMAIN buffer = 1..Len(buffer) /\ cursor \in Nat
  OBVIOUS
<1>2. before \in SUBSET (1..cursor) /\ before \in SUBSET DOMAIN buffer
  BY <1>1 DEF Starts
<1>3. CASE before = {}
  BY <1>1, <1>3 DEF PreviousWordStart
<1>4. CASE before # {}
  <2> HIDE DEF before
  <2>1. before \in SUBSET Nat /\ IsFiniteSet(before)
    BY <1>2, PlacesOf
  <2>2. \E i \in before : \A j \in before : j <= i
    BY <1>4, <2>1, NthLast
  <2> DEFINE last == CHOOSE i \in before : \A j \in before : j <= i
  <2>3. last \in before
    BY <2>2
  <2>4. PreviousWordStart = last - 1
    BY <1>4 DEF PreviousWordStart, before
  <2> HIDE DEF last
  <2>5. last \in 1..cursor
    BY <1>2, <2>3
  <2> QED
    BY <1>1, <2>4, <2>5
<1> QED
  BY <1>3, <1>4

\* So a step that draws the input line anew keeps its types, if it keeps the others.
LEMMA RenderStep ==
  ASSUME buffer' \in Seq(Units), cursor' \in 0..Len(buffer'), showSuggestions' \in BOOLEAN,
         flight' \in 0..MaxFlight, streak' \in Nat,
         chats' \in Seq(Ids), IsInjective(chats'), invites' \in SUBSET Invites,
         NEW h \in Nat, RenderInput(h)
  PROVE  PromptTypeOK' /\ OfferedInv'
<1>1. /\ suggestions' \in Seq(Offered)
      /\ selected' = 0 \/ selected' \in 1..Len(suggestions') - 1
      /\ screen' = CleanScreen \/ screen'.cursor \in 0..Len(screen'.text)
  BY RenderTypes
<1>2. Offered \subseteq Seq(Units)
  BY DEF Offered
<1>3. suggestions' \in Seq(Seq(Units)) /\ \A n \in DOMAIN suggestions' : suggestions'[n] \in Offered
  BY <1>1, <1>2
<1> QED
  BY <1>1, <1>3 DEF PromptTypeOK, OfferedInv

LEMMA EditStep ==
  ASSUME PromptTypeOK, NEW text \in Seq(Units), NEW place \in 0..Len(text), Edit(text, place)
  PROVE  PromptTypeOK' /\ OfferedInv'
<1>1. /\ buffer' = text /\ cursor' = place /\ showSuggestions' = TRUE
      /\ UNCHANGED <<flight, chats, invites>> /\ streak' = 0
  BY DEF Edit, NotCompleting, knowledge
<1>2. RenderInput(0)
  BY DEF Edit
<1> QED
  BY <1>1, <1>2, RenderStep DEF PromptTypeOK

LEMMA InsertStep ==
  ASSUME PromptTypeOK, NEW text \in Seq(Units), Insert(text)
  PROVE  PromptTypeOK' /\ OfferedInv'
<1> DEFINE before == SubSeq(buffer, 1, cursor)
           after == SubSeq(buffer, cursor + 1, Len(buffer))
<1>1. /\ buffer \in Seq(Units) /\ Len(buffer) \in Nat /\ Len(text) \in Nat
      /\ cursor \in 0..Len(buffer)
  BY DEF PromptTypeOK
<1>2. before \in Seq(Units) /\ Len(before) = cursor
  BY <1>1
<1>3. after \in Seq(Units) /\ Len(after) \in Nat
  BY <1>1
<1> HIDE DEF before, after
<1>4. before \o text \o after \in Seq(Units) /\ cursor + Len(text) \in 0..Len(before \o text \o after)
  BY <1>1, <1>2, <1>3
<1>5. Edit(before \o text \o after, cursor + Len(text))
  BY DEF Insert, before, after
<1> QED
  BY <1>4, <1>5, EditStep

LEMMA CutStep ==
  ASSUME PromptTypeOK, NEW from \in 0..Len(buffer), NEW upTo \in from..Len(buffer), Cut(from, upTo)
  PROVE  PromptTypeOK' /\ OfferedInv'
<1> DEFINE before == SubSeq(buffer, 1, from)
           after == SubSeq(buffer, upTo + 1, Len(buffer))
<1>1. buffer \in Seq(Units) /\ Len(buffer) \in Nat
  BY DEF PromptTypeOK
<1>2. before \in Seq(Units) /\ Len(before) = from
  BY <1>1
<1>3. after \in Seq(Units) /\ Len(after) \in Nat
  BY <1>1
<1> HIDE DEF before, after
<1>4. before \o after \in Seq(Units) /\ from \in 0..Len(before \o after)
  BY <1>1, <1>2, <1>3
<1>5. Edit(before \o after, from)
  BY DEF Cut, before, after
<1> QED
  BY <1>4, <1>5, EditStep

LEMMA EraseStep ==
  ASSUME PromptTypeOK, Erase
  PROVE  PromptTypeOK' /\ OfferedInv'
<1>1. buffer \in Seq(Units) /\ Len(buffer) \in Nat /\ cursor \in 0..Len(buffer)
  BY DEF PromptTypeOK
<1>2. PreviousWordStart \in 0..cursor
  BY <1>1, WordStartType
<1>3. CASE cursor < Len(buffer) /\ Cut(cursor, cursor + 1)
  BY <1>1, <1>3, CutStep
<1>4. CASE cursor > 0 /\ Cut(cursor - 1, cursor)
  BY <1>1, <1>4, CutStep
<1>5. CASE Cut(0, cursor) \/ Cut(cursor, Len(buffer))
  BY <1>1, <1>5, CutStep
<1>6. CASE Cut(PreviousWordStart, cursor)
  BY <1>1, <1>2, <1>6, CutStep
<1> QED
  BY <1>3, <1>4, <1>5, <1>6 DEF Erase

\* Every step keeps the types and the form of what is offered.
LEMMA PromptTypeStep ==
  PromptTypeOK /\ OfferedInv /\ [PromptNext]_inputVars => PromptTypeOK' /\ OfferedInv'
<1> SUFFICES ASSUME PromptTypeOK, OfferedInv, [PromptNext]_inputVars
             PROVE  PromptTypeOK' /\ OfferedInv'
  OBVIOUS
<1>1. /\ buffer \in Seq(Units) /\ Len(buffer) \in Nat /\ cursor \in 0..Len(buffer)
      /\ showSuggestions \in BOOLEAN /\ flight \in 0..MaxFlight /\ MaxFlight \in Nat
      /\ chats \in Seq(Ids) /\ IsInjective(chats) /\ invites \in SUBSET Invites
      /\ suggestions \in Seq(Seq(Units)) /\ Len(suggestions) \in Nat
      /\ selected = 0 \/ selected \in 1..Len(suggestions) - 1
      /\ streak \in Nat
  BY FlightAssumption DEF PromptTypeOK
<1>2. selected \in Nat
  BY <1>1
<1>3. ASSUME NEW u \in Keys, Insert(<<u>>) PROVE PromptTypeOK' /\ OfferedInv'
  <2>1. <<u>> \in Seq(Units)
    BY UnitAssumption
  <2> QED
    BY <1>3, <2>1, InsertStep
<1>4. ASSUME NEW chunk \in Pastes, Insert(Normalized(chunk)) PROVE PromptTypeOK' /\ OfferedInv'
  <2>1. chunk \in Seq(Units)
    BY UnitAssumption
  <2>2. Normalized(chunk) \in Seq(Units)
    BY <2>1, NormalizedTypes
  <2> QED
    BY <1>4, <2>2, InsertStep
<1>5. ASSUME NEW place \in 0..Len(buffer), Move(place) PROVE PromptTypeOK' /\ OfferedInv'
  <2>1. /\ cursor' \in 0..Len(buffer) /\ streak' = 0 /\ RenderInput(selected)
        /\ UNCHANGED <<buffer, showSuggestions, flight, chats, invites>>
    BY <1>5 DEF Move, NotCompleting, knowledge
  <2> QED
    BY <1>1, <1>2, <2>1, RenderStep
<1>6. ASSUME NEW by \in {-1, 1}, Browse(by) PROVE PromptTypeOK' /\ OfferedInv'
  <2> DEFINE h == (selected + by + Len(suggestions)) % Len(suggestions)
  <2>1. /\ streak' = 0 /\ RenderInput(h)
        /\ UNCHANGED <<buffer, cursor, showSuggestions, flight, chats, invites>>
    BY <1>6 DEF Browse, NotCompleting, knowledge
  <2>2. h \in Nat
    <3>1. Len(suggestions) > 0
      BY <1>1, <1>6 DEF Browse
    <3>2. selected + by + Len(suggestions) \in Int
      BY <1>1, <1>2
    <3> QED
      BY <1>1, <3>1, <3>2
  <2> HIDE DEF h
  <2> QED
    BY <1>1, <1>2, <2>1, <2>2, RenderStep
<1>7. CASE Escape
  <2>1. /\ streak' = 0 /\ showSuggestions' = FALSE /\ RenderInput(0)
        /\ UNCHANGED <<buffer, cursor, flight, chats, invites>>
    BY <1>7 DEF Escape, NotCompleting, knowledge
  <2> QED
    BY <1>1, <1>2, <2>1, RenderStep
<1>8. CASE Event
  <2>1. /\ streak' = 0 /\ RenderInput(selected)
        /\ UNCHANGED <<buffer, cursor, showSuggestions, flight>>
    BY <1>8 DEF Event, NotCompleting
  <2>2. chats' \in Seq(Ids) /\ IsInjective(chats') /\ invites' \in SUBSET Invites
    BY <1>1, <1>8, LearnTypes DEF Event
  <2> QED
    BY <1>1, <1>2, <2>1, <2>2, RenderStep
<1>9. CASE ListReturns
  <2>1. /\ streak' = 0 /\ UNCHANGED <<buffer, cursor, suggestions, selected, showSuggestions,
                                       screen, flight>>
    BY <1>9 DEF ListReturns, NotCompleting, promptVars
  <2>2. chats' \in Seq(Ids) /\ IsInjective(chats') /\ invites' \in SUBSET Invites
    BY <1>1, <1>9, LearnTypes DEF ListReturns
  <2> QED
    BY <2>1, <2>2 DEF PromptTypeOK, OfferedInv
<1>10. CASE Complete
  <2>1. /\ buffer' = suggestions[selected + 1] /\ cursor' = Len(buffer')
        /\ showSuggestions' = TRUE /\ streak' = streak + 1 /\ RenderInput(0)
        /\ UNCHANGED <<flight, chats, invites>>
    BY <1>10 DEF Complete, knowledge
  <2>2. selected + 1 \in 1..Len(suggestions)
    BY <1>1, <1>10 DEF Complete, Completes
  <2>3. buffer' \in Seq(Units)
    BY <1>1, <2>1, <2>2
  <2>4. cursor' \in 0..Len(buffer')
    BY <2>1, <2>3
  <2>5. streak' \in Nat
    BY <1>1, <2>1
  <2> QED
    BY <1>1, <2>1, <2>3, <2>4, <2>5, RenderStep
<1>11. CASE Submit
  <2>1. streak' = 0
    BY <1>11 DEF Submit, NotCompleting
  <2>2. CASE Calls(buffer)
    <3>1. /\ flight < MaxFlight /\ flight' = flight + 1 /\ screen' = CleanScreen
          /\ UNCHANGED <<buffer, cursor, suggestions, selected, showSuggestions, chats, invites>>
      BY <1>11, <2>2 DEF Submit, knowledge
    <3>2. flight' \in 0..MaxFlight
      BY <1>1, <3>1
    <3> QED
      BY <2>1, <3>1, <3>2 DEF PromptTypeOK, OfferedInv
  <2>3. CASE ~Calls(buffer)
    <3>1. UNCHANGED <<chats, invites>> \/ Learns
      BY <1>11, <2>3 DEF Submit, knowledge
    <3>2. chats' \in Seq(Ids) /\ IsInjective(chats') /\ invites' \in SUBSET Invites
      BY <1>1, <3>1, LearnTypes
    <3>3. flight' = flight /\ LineEnds
      BY <1>11, <2>3 DEF Submit
    <3>4. buffer' = <<>> /\ cursor' = 0 /\ showSuggestions' = TRUE /\ RenderInput(selected)
      BY <3>3 DEF LineEnds
    <3>5. buffer' \in Seq(Units) /\ cursor' \in 0..Len(buffer')
      BY <3>4
    <3> QED
      BY <1>1, <1>2, <2>1, <3>2, <3>3, <3>4, <3>5, RenderStep
  <2> QED
    BY <2>2, <2>3
<1>12. CASE Returns
  <2>1. flight > 0 /\ flight' = flight - 1 /\ streak' = 0 /\ Learns /\ LineEnds
    BY <1>12 DEF Returns, NotCompleting
  <2>2. chats' \in Seq(Ids) /\ IsInjective(chats') /\ invites' \in SUBSET Invites
    BY <1>1, <2>1, LearnTypes
  <2>3. buffer' = <<>> /\ cursor' = 0 /\ showSuggestions' = TRUE /\ RenderInput(selected)
    BY <2>1 DEF LineEnds
  <2>4. buffer' \in Seq(Units) /\ cursor' \in 0..Len(buffer')
    BY <2>3
  <2>5. flight' \in 0..MaxFlight
    BY <1>1, <2>1
  <2> QED
    BY <1>2, <2>1, <2>2, <2>3, <2>4, <2>5, RenderStep
<1>13. CASE UNCHANGED inputVars
  BY <1>13 DEF inputVars, promptVars, knowledge, PromptTypeOK, OfferedInv
<1> QED
  BY <1>3, <1>4, EraseStep, <1>5, <1>6, <1>7, <1>8, <1>9, <1>10, <1>11, <1>12, <1>13
  DEF PromptNext

-----------------------------------------------------------------------------
(* Enter, pressed again.                                                    *)

\* Whatever is not a completion ends the row of completions.
LEMMA RowEnds ==
  ASSUME [PromptNext]_inputVars
  PROVE  Complete \/ (streak' = 0 /\ chosen' = <<>>) \/ UNCHANGED inputVars
<1>1. ASSUME NEW text, NEW place, Edit(text, place) PROVE streak' = 0 /\ chosen' = <<>>
  BY <1>1 DEF Edit, NotCompleting
<1>2. ASSUME NEW text, Insert(text) PROVE streak' = 0 /\ chosen' = <<>>
  BY <1>1, <1>2 DEF Insert
<1>3. CASE Erase
  BY <1>1, <1>3 DEF Erase, Cut
<1>4. ASSUME NEW n, Move(n) \/ Browse(n) PROVE streak' = 0 /\ chosen' = <<>>
  BY <1>4 DEF Move, Browse, NotCompleting
<1>5. CASE Escape \/ Event \/ ListReturns
  BY <1>5 DEF Escape, Event, ListReturns, NotCompleting
<1>6. CASE Submit \/ Returns
  BY <1>6 DEF Submit, Returns, NotCompleting
<1> QED
  BY <1>2, <1>3, <1>4, <1>5, <1>6 DEF PromptNext

LEMMA FreshStep ==
  PromptTypeOK /\ OfferedInv /\ FreshInv /\ [PromptNext]_inputVars => FreshInv'
<1> SUFFICES ASSUME PromptTypeOK, OfferedInv, FreshInv, [PromptNext]_inputVars PROVE FreshInv'
  OBVIOUS
<1>1. CASE Complete
  <2>1. /\ suggestions \in Seq(Seq(Units)) /\ Len(suggestions) \in Nat /\ streak \in Nat
        /\ selected = 0 \/ selected \in 1..Len(suggestions) - 1
    BY DEF PromptTypeOK
  <2>2. selected + 1 \in DOMAIN suggestions
    BY <1>1, <2>1 DEF Complete, Completes
  <2>3. buffer' \in Offered
    BY <1>1, <2>2 DEF Complete, OfferedInv
  <2>4. suggestions' = SuggestionsFor(buffer', chats', invites') /\ selected' = 0
    BY <1>1 DEF Complete, RenderInput
  <2>5. streak' = streak + 1 /\ streak' > 0
    BY <1>1, <2>1 DEF Complete
  <2>6. chosen' # <<>> => chosen' = buffer' /\ ~Trailing(buffer')
    BY <1>1 DEF Complete
  <2> QED
    BY <2>3, <2>4, <2>5, <2>6 DEF FreshInv, Trailing
<1>2. CASE streak' = 0 /\ chosen' = <<>>
  BY <1>2 DEF FreshInv
<1>3. CASE UNCHANGED inputVars
  BY <1>3 DEF inputVars, promptVars, knowledge, FreshInv, Trailing
<1> QED
  BY <1>1, <1>2, <1>3, RowEnds

\* The chats or the invites that a command is completed with, each once.
LEMMA LookedUpTypes ==
  ASSUME PromptTypeOK, NEW c \in WithArguments
  PROVE  /\ LookedUp(c) \in Seq(Ids \cup Invites) /\ IsInjective(LookedUp(c))
         /\ ToSet(LookedUp(c)) \subseteq ToSet(chats) \cup invites
         /\ Len(LookedUp(c)) \in Nat /\ Len(LookedUp(c)) <= Cardinality(Ids \cup Invites)
         /\ Cardinality(Ids \cup Invites) \in Nat
<1> DEFINE all == Ids \cup Invites
<1>1. chats \in Seq(Ids) /\ IsInjective(chats) /\ invites \in SUBSET Invites
  BY DEF PromptTypeOK
<1>2. IsFiniteSet(all) /\ Cardinality(all) \in Nat
  BY IdAssumption, FS_CardinalityType
<1>3. IsFiniteSet(invites) /\ Cardinality(invites) <= Cardinality(all)
  <2>1. invites \in SUBSET all
    BY <1>1
  <2> HIDE DEF all
  <2> QED
    BY <1>2, <2>1, FS_Subset
<1>4. SetToSeq(invites) \in Seq(invites) /\ IsInjective(SetToSeq(invites))
      /\ Len(SetToSeq(invites)) = Cardinality(invites) /\ Cardinality(invites) \in Nat
  BY <1>3, InOrder
<1>5. ToSet(SetToSeq(invites)) \subseteq invites
  BY <1>4 DEF ToSet
<1>6. SetToSeq(invites) \in Seq(all)
  BY <1>1, <1>4
<1>7. chats \in Seq(all) /\ Len(chats) \in Nat
  BY <1>1
<1>8. Len(chats) <= Cardinality(all)
  <2>1. chats \in [1..Len(chats) -> all] /\ DOMAIN chats = 1..Len(chats)
    BY <1>7
  <2> HIDE DEF all
  <2>2. chats \in Injection(1..Len(chats), all)
    BY <1>1, <2>1 DEF Injection
  <2>3. Cardinality(1..Len(chats)) <= Cardinality(all)
    BY <1>2, <2>2, FS_Injection
  <2>4. Cardinality(1..Len(chats)) = Len(chats)
    <3>1. \A n \in Nat : Cardinality(1..n) = n
      BY FS_Interval
    <3> QED
      BY <1>7, <3>1
  <2> QED
    BY <2>3, <2>4
<1> HIDE DEF all
<1>9. CASE c = "r"
  BY <1>2, <1>3, <1>4, <1>5, <1>6, <1>9 DEF LookedUp, all
<1>10. CASE c # "r"
  BY <1>1, <1>2, <1>7, <1>8, <1>10 DEF LookedUp, all
<1> QED
  BY <1>9, <1>10

\* What Enter would take after a chat, a transport or a command.
LEMMA NextChat ==
  ASSUME PromptTypeOK, NEW c \in WithArguments, NEW t \in TransportNames,
         NEW id \in {<<>>} \cup Ids \cup Invites,
         NEW list, list = SuggestionsFor(Text(c, <<t>>, id), chats, invites), list # <<>>
  PROVE  \E j \in DOMAIN LookedUp(c) :
           /\ list[1] = Text(c, <<t>>, LookedUp(c)[j])
           /\ Matches(LookedUp(c)[j], id)
           /\ \A i \in DOMAIN LookedUp(c) :
                id = <<>> \/ LookedUp(c)[i] = id => j <= i
<1> DEFINE known == LookedUp(c)
<1>1. known \in Seq(Ids \cup Invites)
  BY LookedUpTypes
<1>2. list = ChatSuggestions(c, <<t>>, known, id)
  BY ChatOffers DEF LookedUp
<1> HIDE DEF known
<1>3. \A i \in DOMAIN known : Matches(known[i], id) =>
        \E j \in DOMAIN known : /\ Matches(known[j], id) /\ j <= i
                                /\ list[1] = Text(c, <<t>>, known[j])
  BY <1>1, <1>2, ChatsOffered
<1>4. PICK m \in DOMAIN known : Matches(known[m], id)
  BY <1>1, <1>2, ChatsOffered
<1>5. PICK j \in DOMAIN known : Matches(known[j], id) /\ list[1] = Text(c, <<t>>, known[j])
  BY <1>3, <1>4
<1>6. \A i \in DOMAIN known : known[i] \in Ids \cup Invites
  BY <1>1
<1>7. \A i, k \in DOMAIN known : Text(c, <<t>>, known[i]) = Text(c, <<t>>, known[k]) =>
                                 known[i] = known[k]
  BY <1>6, TextsDiffer
<1>8. \A i, k \in DOMAIN known : known[i] = known[k] => i = k
  BY LookedUpTypes DEF IsInjective, known
<1>9. ASSUME NEW i \in DOMAIN known, id = <<>> \/ known[i] = id PROVE j <= i
  <2>1. known[i] \in Seq(Units) /\ id \in Seq(Units)
    BY <1>6, UnitAssumption, TextUnits
  <2>2. IsPrefix(id, known[i])
    BY <1>9, <2>1, PrefixTrivially
  <2>3. Matches(known[i], id)
    BY <2>2 DEF Matches
  <2>4. PICK k \in DOMAIN known : k <= i /\ list[1] = Text(c, <<t>>, known[k])
    BY <1>3, <2>3
  <2>5. k = j
    BY <1>5, <1>7, <1>8, <2>4
  <2> QED
    BY <2>4, <2>5
<1> QED
  BY <1>5, <1>9 DEF known

\* Every completion goes from a command to a transport, to a chat, to an earlier one.
LEMMA StreakStep ==
  PromptTypeOK /\ OfferedInv /\ FreshInv /\ StreakInv /\ [PromptNext]_inputVars => StreakInv'
<1> SUFFICES ASSUME PromptTypeOK, OfferedInv, FreshInv, StreakInv, [PromptNext]_inputVars
             PROVE  StreakInv'
  OBVIOUS
<1>1. CASE streak' = 0
  BY <1>1 DEF StreakInv
<1>2. CASE UNCHANGED inputVars
  BY <1>2 DEF inputVars, promptVars, knowledge, StreakInv, LookedUp
<1>3. CASE Complete
  <2>1. /\ chats \in Seq(Ids) /\ invites \in SUBSET Invites /\ streak \in Nat
        /\ suggestions \in Seq(Seq(Units)) /\ Len(suggestions) \in Nat
        /\ selected = 0 \/ selected \in 1..Len(suggestions) - 1
    BY DEF PromptTypeOK
  <2>2. /\ suggestions # <<>> /\ selected + 1 \in DOMAIN suggestions
        /\ buffer' = suggestions[selected + 1] /\ buffer' # buffer
        /\ streak' = streak + 1 /\ UNCHANGED <<chats, invites>>
    BY <1>3, <2>1 DEF Complete, Completes, knowledge
  <2>3. buffer' \in Offered
    BY <2>2 DEF OfferedInv
  <2>4. \A c \in WithArguments : LookedUp(c)' = LookedUp(c)
    BY <2>2 DEF LookedUp
  <2>5. \A c \in WithArguments :
          /\ LookedUp(c) \in Seq(Ids \cup Invites) /\ Len(LookedUp(c)) \in Nat
          /\ DOMAIN LookedUp(c) = 1..Len(LookedUp(c))
          /\ \A i, k \in DOMAIN LookedUp(c) : LookedUp(c)[i] = LookedUp(c)[k] => i = k
    BY LookedUpTypes DEF IsInjective
  <2>6. ASSUME NEW c \in WithArguments, NEW t \in TransportNames,
               NEW j \in DOMAIN LookedUp(c), buffer' = Text(c, <<t>>, LookedUp(c)[j]),
               streak' + j <= 3 + Len(LookedUp(c))
        PROVE  StreakInv'
    <3> DEFINE chat == LookedUp(c)[j]
    <3>1. chat \in Ids \cup Invites /\ chat # <<>>
      BY <2>5, IdAssumption
    <3> HIDE DEF chat
    <3>2. buffer' = Text(c, <<t>>, chat)
      BY <2>6 DEF chat
    <3>3. buffer' # <<"/", "q">> /\ \A d \in WithArguments : buffer' # <<"/", d, Space>>
      BY <3>1, <3>2, TextIsLong
    <3>4. \A d \in WithArguments, u \in TransportNames : buffer' # Text(d, <<u>>, <<>>)
      BY <3>1, <3>2, TextsDiffer
    <3>5. ASSUME NEW d \in WithArguments, NEW u \in TransportNames, NEW id \in Ids \cup Invites,
                 buffer' = Text(d, <<u>>, id)
          PROVE  /\ id \notin ToSet(LookedUp(d)) => streak' = 1
                 /\ \A p \in DOMAIN LookedUp(d) :
                      LookedUp(d)[p] = id => streak' + p <= 3 + Len(LookedUp(d))
      <4>1. d = c /\ id = chat
        <5>1. Text(c, <<t>>, chat) = Text(d, <<u>>, id)
          BY <3>2, <3>5
        <5> QED
          BY <3>1, <5>1, TextsDiffer
      <4>2. chat \in ToSet(LookedUp(c))
        BY DEF chat, ToSet
      <4>3. \A p \in DOMAIN LookedUp(c) : LookedUp(c)[p] = chat => p = j
        BY <2>5 DEF chat
      <4> QED
        BY <2>6, <4>1, <4>2, <4>3
    <3> QED
      BY <2>4, <3>3, <3>4, <3>5 DEF StreakInv
  <2>7. CASE streak = 0
    <3>1. streak' = 1
      BY <2>2, <2>7
    <3>2. \A c \in WithArguments : \A p \in DOMAIN LookedUp(c) : streak' + p <= 3 + Len(LookedUp(c))
      BY <2>5, <3>1
    <3> QED
      BY <2>4, <3>1, <3>2 DEF StreakInv
  <2>8. CASE streak > 0
    <3>1. buffer \in Offered /\ suggestions = SuggestionsFor(buffer, chats, invites) /\ selected = 0
      BY <2>8 DEF FreshInv
    <3>2. buffer' = suggestions[1] /\ 1 \in DOMAIN suggestions
      BY <2>2, <3>1
    <3>3. buffer # <<"/", "q">>
      BY <2>2, <3>1, <3>2, QuitOffers
    <3>4. ASSUME NEW c \in WithArguments, buffer = <<"/", c, Space>> PROVE StreakInv'
      <4>1. streak' = 2
        BY <2>2, <2>8, <3>4 DEF StreakInv
      <4>2. \/ \E t \in TransportNames : buffer' = Text(c, <<t>>, <<>>)
            \/ c = "l" /\ chats # <<>> /\ buffer' = Text("l", <<"m">>, chats[1])
        BY <2>1, <3>1, <3>2, <3>4, CommandOffers
      <4>3. ASSUME NEW t \in TransportNames, buffer' = Text(c, <<t>>, <<>>) PROVE StreakInv'
        <5>1. buffer' # <<"/", "q">> /\ \A d \in WithArguments : buffer' # <<"/", d, Space>>
          BY <4>3, TextIsLong
        <5>2. ASSUME NEW d \in WithArguments, NEW u \in TransportNames, NEW id \in Ids \cup Invites
              PROVE  buffer' # Text(d, <<u>>, id)
          <6>1. Text(c, <<t>>, <<>>) = Text(d, <<u>>, id) => id = <<>>
            BY TextsDiffer
          <6>2. id # <<>>
            BY IdAssumption
          <6> QED
            BY <4>3, <6>1, <6>2
        <5> QED
          BY <4>1, <5>1, <5>2 DEF StreakInv
      <4>4. CASE c = "l" /\ chats # <<>> /\ buffer' = Text("l", <<"m">>, chats[1])
        <5>1. LookedUp("l") = chats /\ "l" \in WithArguments
          BY DEF LookedUp, WithArguments
        <5>2. 1 \in DOMAIN chats /\ Len(chats) \in Nat /\ Len(chats) >= 1
          BY <2>1, <4>4
        <5>3. streak' + 1 <= 3 + Len(chats)
          BY <4>1, <5>2
        <5> QED
          BY <2>6, <4>4, <5>1, <5>2, <5>3, TransportAssumption
      <4> QED
        BY <4>2, <4>3, <4>4
    <3>5. ASSUME NEW c \in WithArguments, NEW t \in TransportNames,
                 NEW id \in {<<>>} \cup Ids \cup Invites, buffer = Text(c, <<t>>, id)
          PROVE  StreakInv'
      <4>1. PICK j \in DOMAIN LookedUp(c) :
              /\ buffer' = Text(c, <<t>>, LookedUp(c)[j])
              /\ \A i \in DOMAIN LookedUp(c) : id = <<>> \/ LookedUp(c)[i] = id => j <= i
        BY <2>2, <3>1, <3>2, <3>5, NextChat
      <4>2. j \in Nat /\ j >= 1 /\ j <= Len(LookedUp(c)) /\ Len(LookedUp(c)) \in Nat
        BY <2>5
      <4>3. CASE id = <<>>
        <5>1. streak <= 2
          BY <2>8, <3>5, <4>3 DEF StreakInv
        <5>2. 1 \in DOMAIN LookedUp(c)
          BY <2>5, <4>2
        <5>3. j <= 1
          BY <4>1, <4>3, <5>2
        <5>4. streak' + j <= 3 + Len(LookedUp(c))
          BY <2>1, <2>2, <4>2, <5>1, <5>3
        <5> QED
          BY <2>6, <4>1, <5>4
      <4>4. CASE id # <<>> /\ id \notin ToSet(LookedUp(c))
        <5>1. streak = 1
          BY <2>8, <3>5, <4>4 DEF StreakInv
        <5>2. streak' + j <= 3 + Len(LookedUp(c))
          BY <2>2, <4>2, <5>1
        <5> QED
          BY <2>6, <4>1, <5>2
      <4>5. CASE id # <<>> /\ id \in ToSet(LookedUp(c))
        <5>1. PICK i \in DOMAIN LookedUp(c) : LookedUp(c)[i] = id
          BY <4>5 DEF ToSet
        <5>2. streak + i <= 3 + Len(LookedUp(c))
          BY <2>8, <3>5, <4>5, <5>1 DEF StreakInv
        <5>3. j <= i /\ j # i
          BY <2>2, <3>5, <4>1, <5>1
        <5>4. i \in Nat
          BY <2>5
        <5>5. streak' + j <= 3 + Len(LookedUp(c))
          BY <2>1, <2>2, <4>2, <5>2, <5>3, <5>4
        <5> QED
          BY <2>6, <4>1, <5>5
      <4> QED
        BY <4>3, <4>4, <4>5
    <3> QED
      BY <3>1, <3>3, <3>4, <3>5 DEF Offered
  <2> QED
    BY <2>1, <2>7, <2>8
<1> QED
  BY <1>1, <1>2, <1>3, RowEnds

\* The input line's invariant holds in every reachable state.
THEOREM PromptInductive == PromptSpec => []PromptInv
<1>1. PromptInit => PromptInv
  <2> SUFFICES ASSUME PromptInit PROVE PromptInv
    OBVIOUS
  <2>1. chats \in Seq(Ids) /\ IsInjective(chats)
    <3>1. CASE chats = <<>>
      BY <3>1 DEF IsInjective
    <3>2. ASSUME NEW c \in Ids, chats = <<c>> PROVE chats \in Seq(Ids) /\ IsInjective(chats)
      BY <3>2 DEF IsInjective
    <3> QED
      BY <3>1, <3>2 DEF PromptInit
  <2>2. PromptTypeOK
    <3>1. /\ buffer \in Seq(Units) /\ cursor \in 0..Len(buffer)
          /\ suggestions \in Seq(Seq(Units))
          /\ invites \subseteq Invites
      BY DEF PromptInit
    <3>2. flight \in 0..MaxFlight /\ streak \in Nat
      BY FlightAssumption DEF PromptInit
    <3>3. screen.cursor \in 0..Len(screen.text)
      BY DEF PromptInit
    <3>4. selected = 0 /\ showSuggestions \in BOOLEAN
      BY DEF PromptInit
    <3> QED
      BY <2>1, <3>1, <3>2, <3>3, <3>4 DEF PromptTypeOK
  <2>3. OfferedInv /\ FreshInv /\ StreakInv
    BY DEF PromptInit, OfferedInv, FreshInv, StreakInv
  <2> QED
    BY <2>2, <2>3 DEF PromptInv
<1>2. PromptInv /\ [PromptNext]_inputVars => PromptInv'
  BY PromptTypeStep, FreshStep, StreakStep DEF PromptInv
<1> QED
  BY <1>1, <1>2, PTL DEF PromptSpec

\* Pressing Enter again and again comes to a submission: a row of completions is
\* no longer than the chats and invites there can be, and two.
THEOREM EnterComesToAnEnd == PromptSpec => []EnterSettles
<1>1. PromptInv => EnterSettles
  <2> SUFFICES ASSUME PromptInv PROVE EnterSettles
    OBVIOUS
  <2>1. PromptTypeOK /\ FreshInv /\ StreakInv
    BY DEF PromptInv
  <2>2. streak \in Nat /\ Cardinality(Ids \cup Invites) \in Nat
    BY <2>1, LookedUpTypes DEF PromptTypeOK, WithArguments
  <2>3. CASE streak = 0
    BY <2>2, <2>3 DEF EnterSettles
  <2>4. CASE streak > 0
    <3>1. buffer \in Offered
      BY <2>1, <2>4 DEF FreshInv
    <3>2. CASE streak <= 2
      BY <2>2, <3>2 DEF EnterSettles
    <3>3. CASE ~(streak <= 2)
      <4>1. PICK c \in WithArguments, t \in TransportNames, id \in {<<>>} \cup Ids \cup Invites :
              buffer = Text(c, <<t>>, id)
        BY <2>1, <2>2, <2>4, <3>1, <3>3 DEF Offered, StreakInv
      <4>2. id # <<>> /\ id \in ToSet(LookedUp(c))
        BY <2>1, <2>2, <2>4, <3>3, <4>1 DEF StreakInv
      <4>3. PICK p \in DOMAIN LookedUp(c) : LookedUp(c)[p] = id
        BY <4>2 DEF ToSet
      <4>4. streak + p <= 3 + Len(LookedUp(c))
        BY <2>1, <2>4, <4>1, <4>2, <4>3 DEF StreakInv
      <4>5. /\ Len(LookedUp(c)) \in Nat /\ Len(LookedUp(c)) <= Cardinality(Ids \cup Invites)
            /\ LookedUp(c) \in Seq(Ids \cup Invites)
        BY <2>1, LookedUpTypes
      <4>6. p \in 1..Len(LookedUp(c))
        BY <4>5
      <4> QED
        BY <2>2, <4>4, <4>5, <4>6 DEF EnterSettles
    <3> QED
      BY <3>2, <3>3
  <2> QED
    BY <2>2, <2>3, <2>4
<1> QED
  BY <1>1, PromptInductive, PTL

\* What Enter completed is what the next Enter submits, unless another known chat
\* begins with its id (suggestionsFor offers what the id is a prefix of).
THEOREM CompletedGoesOut == PromptSpec => CompletedIsSubmitted
<1>1. PromptInv => [Complete => chosen = <<>> \/ Ambiguous(chosen)]_inputVars
  <2> SUFFICES ASSUME PromptInv, Complete, chosen # <<>> PROVE Ambiguous(chosen)
    OBVIOUS
  <2>1. PromptTypeOK /\ FreshInv
    BY DEF PromptInv
  <2>2. streak > 0 /\ chosen = buffer /\ ~Trailing(buffer)
    BY <2>1 DEF FreshInv
  <2>3. buffer \in Offered /\ suggestions = SuggestionsFor(buffer, chats, invites) /\ selected = 0
    BY <2>1, <2>2 DEF FreshInv
  <2>4. suggestions # <<>> /\ suggestions[1] # buffer
    BY <2>3 DEF Complete, Completes
  <2>5. suggestions \in Seq(Seq(Units))
    BY <2>1 DEF PromptTypeOK
  <2>6. 1 \in DOMAIN suggestions
    BY <2>4, <2>5
  <2>7. buffer # <<"/", "q">>
    BY <2>3, <2>4, <2>6, QuitOffers
  <2>8. \A c \in WithArguments : buffer # <<"/", c, Space>>
    BY <2>2 DEF Trailing
  <2>9. PICK c \in WithArguments, t \in TransportNames, id \in {<<>>} \cup Ids \cup Invites :
          buffer = Text(c, <<t>>, id)
    BY <2>3, <2>7, <2>8 DEF Offered
  <2>10. PICK j \in DOMAIN LookedUp(c) :
           /\ suggestions[1] = Text(c, <<t>>, LookedUp(c)[j])
           /\ Matches(LookedUp(c)[j], id)
    BY <2>1, <2>3, <2>4, <2>9, NextChat
  <2>11. Last(Words(buffer)) = id
    BY <2>2, <2>9, ArgumentWords DEF Last
  <2>12. LookedUp(c)[j] \in (ToSet(chats) \cup invites) \ {id}
    <3>1. LookedUp(c)[j] \in ToSet(LookedUp(c))
      BY DEF ToSet
    <3>2. LookedUp(c)[j] # id
      BY <2>4, <2>9, <2>10
    <3> QED
      BY <2>1, <3>1, <3>2, LookedUpTypes
  <2> QED
    BY <2>2, <2>10, <2>11, <2>12 DEF Ambiguous, Matches
<1> QED
  BY <1>1, PromptInductive, PTL DEF CompletedIsSubmitted
=============================================================================
