---------------------- MODULE SidecarMembership_proofs ----------------------
(***************************************************************************)
(* Proofs about SidecarMembership for any rooms, any number of commands and  *)
(* changes at any moment: the types, that what the sidecar lists as pending  *)
(* invites are such invites, and that its rooms and invites end as the       *)
(* homeserver's, with no message dropped, unless a change crossed an answer. *)
(***************************************************************************)
EXTENDS SidecarMembership, TLAPS, SequenceTheorems

-----------------------------------------------------------------------------
(* Types.                                                                   *)

\* A change of membership keeps the types of the homeserver's variables.
LEMMA BecomesTypes ==
  ASSUME TypeOK, NEW r \in Rooms, NEW m \in {"leave", "invite", "join"}, NEW d \in BOOLEAN,
         Becomes(r, m, d)
  PROVE  /\ membership' \in [Rooms -> {"leave", "invite", "join"}]
         /\ isDirect' \in [Rooms -> BOOLEAN]
         /\ sync' \in Seq(Event)
         /\ crossed' \subseteq Rooms
         /\ older' \subseteq Rooms
<1>1. [type |-> m, room |-> r, direct |-> d] \in Event
  BY DEF Event
<1> QED
  BY <1>1, AppendProperties DEF TypeOK, Becomes

\* So does what others do, and it leaves the rest alone.
LEMMA OthersChangeTypes ==
  ASSUME TypeOK, NEW r \in Rooms, NEW from, NEW m \in {"leave", "invite", "join"},
         NEW d \in BOOLEAN, OthersChange(r, from, m, d)
  PROVE  TypeOK'
<1>1. Becomes(r, m, d)
  BY DEF OthersChange
<1>2. changes' \in 0..MaxChanges
  BY InputAssumption DEF OthersChange, TypeOK
<1> QED
  BY <1>1, <1>2, BecomesTypes DEF TypeOK, OthersChange, sidecarVars, commandVars

\* What the homeserver does when it serves a command: it changes the room the
\* command names, or nothing.
LEMMA ServeChanges ==
  ASSUME RoomInv, NEW c \in Commands, Serve(c),
         ~UNCHANGED <<membership, isDirect, sync, crossed, older>>
  PROVE  /\ room[c] \in Rooms
         /\ \E m \in {"leave", "invite", "join"} : Becomes(room[c], m, FALSE)
<1>1. /\ phase[c] = "sent"
      /\ kind[c] # "list_chats"
      /\ Becomes(room[c], "join", FALSE) \/ Becomes(room[c], "leave", FALSE)
  BY DEF Serve
<1> QED
  BY <1>1 DEF RoomInv

LEMMA TypeStep == TypeOK /\ RoomInv /\ [Next]_vars => TypeOK'
<1> SUFFICES ASSUME TypeOK, RoomInv, [Next]_vars PROVE TypeOK'
  OBVIOUS
<1>1. ASSUME NEW r \in Rooms, Invite(r) PROVE TypeOK'
  <2>1. PICK d \in BOOLEAN : OthersChange(r, {"leave"}, "invite", d)
    BY <1>1 DEF Invite
  <2> QED
    BY <2>1, OthersChangeTypes
<1>2. ASSUME NEW r \in Rooms, JoinElsewhere(r) PROVE TypeOK'
  <2>1. OthersChange(r, {"invite"}, "join", FALSE)
    BY <1>2 DEF JoinElsewhere
  <2> QED
    BY <2>1, OthersChangeTypes
<1>3. ASSUME NEW r \in Rooms, Removed(r) PROVE TypeOK'
  <2>1. OthersChange(r, {"invite", "join"}, "leave", FALSE)
    BY <1>3 DEF Removed
  <2> QED
    BY <2>1, OthersChangeTypes
<1>4. ASSUME NEW r \in Rooms, Say(r) PROVE TypeOK'
  <2>1. [type |-> "message", room |-> r, direct |-> FALSE] \in Event
    BY DEF Event
  <2>2. sync' \in Seq(Event)
    BY <1>4, <2>1, AppendProperties DEF Say, TypeOK
  <2> QED
    BY <1>4, <2>2, InputAssumption DEF TypeOK, Say, sidecarVars, commandVars
<1>5. CASE Handle
  <2>1. Head(sync) \in Event /\ sync' \in Seq(Event)
    BY <1>5, HeadTailProperties DEF Handle, TypeOK
  <2>2. Head(sync).room \in Rooms
    BY <2>1 DEF Event
  <2>3. /\ joined' \subseteq Rooms
        /\ invites' \subseteq Rooms
        /\ directInvites' \subseteq Rooms
        /\ missed' \subseteq Rooms
    BY <1>5, <2>2
    DEF Handle, TypeOK, HandleInvite, HandleJoin, HandleLeave, HandleMessage
  <2> QED
    BY <1>5, <2>1, <2>3 DEF Handle, TypeOK, commandVars
<1>6. ASSUME NEW c \in Commands, Begin(c) PROVE TypeOK'
  BY <1>6, InputAssumption DEF TypeOK, Begin, serverVars, sidecarVars
<1>7. ASSUME NEW c \in Commands, Serve(c) PROVE TypeOK'
  <2>1. /\ membership' \in [Rooms -> {"leave", "invite", "join"}]
        /\ isDirect' \in [Rooms -> BOOLEAN]
        /\ sync' \in Seq(Event)
        /\ crossed' \subseteq Rooms
        /\ older' \subseteq Rooms
    <3>1. CASE UNCHANGED <<membership, isDirect, sync, crossed, older>>
      BY <3>1 DEF TypeOK
    <3>2. CASE ~UNCHANGED <<membership, isDirect, sync, crossed, older>>
      <4>1. PICK m \in {"leave", "invite", "join"} : Becomes(room[c], m, FALSE)
        BY <1>7, <3>2, ServeChanges
      <4>2. room[c] \in Rooms
        BY <1>7, <3>2, ServeChanges
      <4> QED
        BY <4>1, <4>2, BecomesTypes
    <3> QED
      BY <3>1, <3>2
  <2>2. answer' \in [Commands -> {"none", "ok", "error"}]
    BY <1>7 DEF Serve, TypeOK
  <2>3. listed' \in [Commands -> SUBSET Rooms]
    <3>1. MembersAs("join") \in SUBSET Rooms
      BY DEF MembersAs
    <3> QED
      BY <1>7, <3>1 DEF Serve, TypeOK
  <2>4. /\ phase' \in [Commands -> {"unused", "sent", "served", "done"}]
        /\ UNCHANGED <<changes, messages, sidecarVars, kind, room>>
    BY <1>7 DEF Serve, TypeOK
  <2> QED
    BY <2>1, <2>2, <2>3, <2>4 DEF TypeOK, sidecarVars
<1>8. ASSUME NEW c \in Commands, Fails(c) PROVE TypeOK'
  BY <1>8 DEF TypeOK, Fails, serverVars, sidecarVars
<1>9. ASSUME NEW c \in Commands, Resume(c) PROVE TypeOK'
  <2>1. listed[c] \subseteq Rooms
    BY DEF TypeOK
  <2>2. kind[c] \in {"accept_invite", "reject_invite", "leave_chat"} => room[c] \in Rooms
    BY <1>9 DEF Resume, RoomInv
  <2>3. joined' \subseteq Rooms /\ invites' \subseteq Rooms /\ directInvites' \subseteq Rooms
    BY <1>9, <2>1, <2>2 DEF TypeOK, Resume, Accepted, Failed, Refreshed
  <2>4. /\ phase' \in [Commands -> {"unused", "sent", "served", "done"}]
        /\ answer' \in [Commands -> {"none", "ok", "error"}]
        /\ listed' \in [Commands -> SUBSET Rooms]
        /\ UNCHANGED <<serverVars, missed, kind, room>>
    BY <1>9 DEF Resume, TypeOK
  <2> QED
    BY <2>3, <2>4 DEF TypeOK, serverVars
<1>10. CASE UNCHANGED vars
  BY <1>10 DEF TypeOK, vars
<1> QED
  BY <1>1, <1>2, <1>3, <1>4, <1>5, <1>6, <1>7, <1>8, <1>9, <1>10 DEF Next

\* A command is sent with a room unless it is list_chats.
LEMMA RoomStep == TypeOK /\ RoomInv /\ [Next]_vars => RoomInv'
<1> SUFFICES ASSUME TypeOK, RoomInv, [Next]_vars PROVE RoomInv'
  OBVIOUS
<1>1. ASSUME NEW c \in Commands, Begin(c) PROVE RoomInv'
  BY <1>1 DEF Begin, RoomInv, TypeOK
<1>2. ASSUME NEW c \in Commands, Serve(c) \/ Fails(c) PROVE RoomInv'
  BY <1>2 DEF Serve, Fails, RoomInv, TypeOK
<1>3. ASSUME NEW c \in Commands, Resume(c) PROVE RoomInv'
  BY <1>3 DEF Resume, RoomInv, TypeOK
<1>4. CASE UNCHANGED commandVars
  BY <1>4 DEF RoomInv, commandVars
<1> QED
  BY <1>1, <1>2, <1>3, <1>4
  DEF Next, Invite, JoinElsewhere, Removed, OthersChange, Say, Handle, vars, commandVars

-----------------------------------------------------------------------------
(* The stream and what is pending in it.                                    *)

\* An event at the end of the stream is the last one pending of its room; the
\* pending events of the other rooms are what they were.
LEMMA AppendPending ==
  ASSUME TypeOK, NEW e \in Event, sync' = Append(sync, e), NEW r \in Rooms
  PROVE  /\ Pending(r)' = Pending(r) \cup
                {i \in {Len(sync) + 1} : e.room = r /\ e.type # "message"}
         /\ \A i \in Pending(r) : i \in Nat /\ i <= Len(sync) /\ sync'[i] = sync[i]
         /\ sync'[Len(sync) + 1] = e
<1>1. sync \in Seq(Event)
  BY DEF TypeOK
<1>2. /\ Len(sync) \in Nat
      /\ DOMAIN sync = 1..Len(sync)
      /\ DOMAIN sync' = 1..(Len(sync) + 1)
      /\ \A i \in 1..Len(sync) : sync'[i] = sync[i]
      /\ sync'[Len(sync) + 1] = e
  BY <1>1, AppendProperties, LenProperties
<1> QED
  BY <1>2 DEF Pending

\* Without its first event the stream's pending events move up by one place.
LEMMA TailPending ==
  ASSUME TypeOK, sync # <<>>, sync' = Tail(sync), NEW r \in Rooms
  PROVE  /\ Pending(r) \subseteq Nat \ {0}
         /\ \A i \in Nat \ {0} : i \in Pending(r)' <=> i + 1 \in Pending(r)
         /\ Pending(r)' \subseteq Nat \ {0}
         /\ \A i \in Pending(r)' : sync'[i] = sync[i + 1]
         /\ 1 \in Pending(r) <=> Head(sync).room = r /\ Head(sync).type # "message"
<1>1. sync \in Seq(Event)
  BY DEF TypeOK
<1>2. /\ Len(sync) \in Nat \ {0}
      /\ DOMAIN sync = 1..Len(sync)
      /\ Head(sync) = sync[1]
      /\ DOMAIN sync' = 1..(Len(sync) - 1)
      /\ \A i \in 1..(Len(sync) - 1) : sync'[i] = sync[i + 1]
  BY <1>1, HeadTailProperties, LenProperties, EmptySeq
<1> QED
  BY <1>2 DEF Pending

\* A change of membership is the last pending event of its room.
LEMMA BecomesKeeps ==
  ASSUME IInv, NEW r \in Rooms, NEW m \in {"leave", "invite", "join"}, NEW d \in BOOLEAN,
         Becomes(r, m, d), UNCHANGED sidecarVars
  PROVE  LastInv' /\ HandledInv'
<1> DEFINE e == [type |-> m, room |-> r, direct |-> d]
<1>1. /\ e \in Event
      /\ sync' = Append(sync, e)
      /\ membership' = [membership EXCEPT ![r] = m]
      /\ isDirect' = [isDirect EXCEPT ![r] = d]
  BY DEF Becomes, Event
<1>2. e.room = r /\ e.type = m /\ e.direct = d /\ m # "message"
  OBVIOUS
<1>3. /\ Len(sync) \in Nat
      /\ membership \in [Rooms -> {"leave", "invite", "join"}]
      /\ isDirect \in [Rooms -> BOOLEAN]
  BY LenProperties DEF IInv, TypeOK
<1> HIDE DEF e
<1>4. ASSUME NEW q \in Rooms
      PROVE  /\ Pending(q)' = Pending(q) \cup {i \in {Len(sync) + 1} : q = r}
             /\ \A i \in Pending(q) : i \in Nat /\ i <= Len(sync) /\ sync'[i] = sync[i]
             /\ sync'[Len(sync) + 1] = e
  <2>1. TypeOK
    BY DEF IInv
  <2>2. /\ Pending(q)' = Pending(q) \cup
                {i \in {Len(sync) + 1} : e.room = q /\ e.type # "message"}
        /\ \A i \in Pending(q) : i \in Nat /\ i <= Len(sync) /\ sync'[i] = sync[i]
        /\ sync'[Len(sync) + 1] = e
    BY <1>1, <2>1, AppendPending
  <2> QED
    BY <1>2, <2>2
<1>5. ASSUME NEW q \in Rooms, NEW i \in Pending(q)', \A j \in Pending(q)' : j <= i
      PROVE  sync'[i].type = membership'[q] /\ sync'[i].direct = isDirect'[q]
  <2>1. CASE q = r
    <3>1. i = Len(sync) + 1
      BY <1>3, <1>4, <1>5, <2>1
    <3> QED
      BY <1>1, <1>2, <1>3, <1>4, <2>1, <3>1
  <2>2. CASE q # r
    <3>1. i \in Pending(q) /\ (\A j \in Pending(q) : j <= i) /\ sync'[i] = sync[i]
      BY <1>4, <1>5, <2>2
    <3>2. membership'[q] = membership[q] /\ isDirect'[q] = isDirect[q]
      BY <1>1, <1>3, <2>2
    <3> QED
      BY <3>1, <3>2 DEF IInv, LastInv
  <2> QED
    BY <2>1, <2>2
<1>6. ASSUME NEW q \in Rooms, Pending(q)' = {}, q \in invites'
      PROVE  membership'[q] = "invite" /\ (q \in directInvites' <=> isDirect'[q])
  <2>1. q # r /\ Pending(q) = {}
    BY <1>4, <1>6
  <2>2. membership'[q] = membership[q] /\ isDirect'[q] = isDirect[q]
    BY <1>1, <1>3, <2>1
  <2> QED
    BY <1>6, <2>1, <2>2 DEF IInv, HandledInv, sidecarVars
<1> QED
  BY <1>5, <1>6 DEF LastInv, HandledInv

\* A message is not a pending event.
LEMMA SayKeeps ==
  ASSUME IInv, NEW r \in Rooms, Say(r)
  PROVE  LastInv' /\ HandledInv'
<1> DEFINE e == [type |-> "message", room |-> r, direct |-> FALSE]
<1>1. /\ e \in Event
      /\ e.type = "message"
      /\ sync' = Append(sync, e)
      /\ UNCHANGED <<membership, isDirect, invites, directInvites>>
  BY DEF Say, Event, sidecarVars
<1> HIDE DEF e
<1>2. \A q \in Rooms : /\ Pending(q)' = Pending(q)
                       /\ \A i \in Pending(q) : sync'[i] = sync[i]
  BY <1>1, AppendPending DEF IInv
<1>3. ASSUME NEW q \in Rooms, NEW i \in Pending(q)', \A j \in Pending(q)' : j <= i
      PROVE  sync'[i].type = membership'[q] /\ sync'[i].direct = isDirect'[q]
  <2>1. i \in Pending(q) /\ (\A j \in Pending(q) : j <= i) /\ sync'[i] = sync[i]
    BY <1>2, <1>3
  <2> QED
    BY <1>1, <2>1 DEF IInv, LastInv
<1>4. ASSUME NEW q \in Rooms, Pending(q)' = {}, q \in invites'
      PROVE  membership'[q] = "invite" /\ (q \in directInvites' <=> isDirect'[q])
  <2>1. Pending(q) = {}
    BY <1>2, <1>4
  <2> QED
    BY <1>1, <1>4, <2>1 DEF IInv, HandledInv
<1> QED
  BY <1>3, <1>4 DEF LastInv, HandledInv

-----------------------------------------------------------------------------
(* Handlers and commands.                                                   *)

\* The handler of a room's last pending event leaves an invite listed only when
\* the account is invited.
LEMMA HandleKeeps ==
  ASSUME IInv, Handle
  PROVE  LastInv' /\ HandledInv'
<1> DEFINE e == Head(sync)
<1>1. /\ sync # <<>> /\ sync' = Tail(sync)
      /\ UNCHANGED <<membership, isDirect>>
  BY DEF Handle
<1>2. e \in Event /\ e.room \in Rooms /\ e.direct \in BOOLEAN
  <2>1. sync \in Seq(Event)
    BY DEF IInv, TypeOK
  <2>2. e \in Event
    BY <1>1, <2>1, HeadTailProperties
  <2> QED
    BY <2>2 DEF Event
<1>3. ASSUME NEW q \in Rooms
      PROVE  /\ Pending(q) \subseteq Nat \ {0}
             /\ \A i \in Nat \ {0} : i \in Pending(q)' <=> i + 1 \in Pending(q)
             /\ Pending(q)' \subseteq Nat \ {0}
             /\ \A i \in Pending(q)' : sync'[i] = sync[i + 1]
             /\ 1 \in Pending(q) <=> e.room = q /\ e.type # "message"
  BY <1>1, TailPending DEF IInv
<1>4. ASSUME NEW q \in Rooms, NEW i \in Pending(q)', \A j \in Pending(q)' : j <= i
      PROVE  sync'[i].type = membership'[q] /\ sync'[i].direct = isDirect'[q]
  <2>1. i \in Nat \ {0} /\ i + 1 \in Pending(q) /\ sync'[i] = sync[i + 1]
    BY <1>3, <1>4
  <2>2. ASSUME NEW j \in Pending(q) PROVE j <= i + 1
    <3>1. j \in Nat \ {0}
      BY <1>3
    <3>2. CASE j = 1
      BY <2>1, <3>2
    <3>3. CASE j # 1
      <4>1. j - 1 \in Nat \ {0} /\ (j - 1) + 1 = j
        BY <3>1, <3>3
      <4>2. j - 1 \in Pending(q)'
        BY <1>3, <4>1
      <4> QED
        BY <1>4, <2>1, <3>1, <4>2
    <3> QED
      BY <3>2, <3>3
  <2> QED
    BY <1>1, <2>1, <2>2 DEF IInv, LastInv
<1>5. ASSUME NEW q \in Rooms, Pending(q)' = {}, q \in invites'
      PROVE  membership'[q] = "invite" /\ (q \in directInvites' <=> isDirect'[q])
  <2>1. Pending(q) \subseteq {1}
    <3> SUFFICES ASSUME NEW j \in Pending(q), j # 1 PROVE FALSE
      OBVIOUS
    <3>1. j \in Nat \ {0} /\ j - 1 \in Nat \ {0} /\ (j - 1) + 1 = j
      BY <1>3
    <3> QED
      BY <1>3, <1>5, <3>1
  <2>2. CASE e.room = q /\ e.type # "message"
    <3>1. Pending(q) = {1}
      BY <1>3, <2>1, <2>2
    <3>2. sync[1] = e
      BY <1>1 DEF IInv, TypeOK
    <3>3. e.type = membership[q] /\ e.direct = isDirect[q]
      BY <3>1, <3>2 DEF IInv, LastInv
    <3>4. /\ e.type = "invite"
          /\ q \in directInvites' <=> e.direct
      BY <1>2, <1>5, <2>2 DEF Handle, HandleInvite, HandleJoin, HandleLeave
    <3> QED
      BY <1>1, <3>3, <3>4
  <2>3. CASE ~(e.room = q /\ e.type # "message")
    <3>1. Pending(q) = {}
      BY <1>3, <2>1, <2>3
    <3>2. q \in invites /\ (q \in directInvites' <=> q \in directInvites)
      BY <1>5, <2>3 DEF Handle, HandleInvite, HandleJoin, HandleLeave, HandleMessage
    <3> QED
      BY <1>1, <3>1, <3>2 DEF IInv, HandledInv
  <2> QED
    BY <2>2, <2>3
<1> QED
  BY <1>4, <1>5 DEF LastInv, HandledInv

\* A command that resumes lists no invite, and takes a mark out only with its
\* invite.
LEMMA ResumeKeeps ==
  ASSUME IInv, NEW c \in Commands, Resume(c)
  PROVE  LastInv' /\ HandledInv'
<1>1. UNCHANGED <<membership, isDirect, sync>>
  BY DEF Resume, serverVars
<1>2. \A q \in Rooms : q \in invites' =>
        q \in invites /\ (q \in directInvites' <=> q \in directInvites)
  BY DEF Resume, Accepted, Failed
<1>3. \A q \in Rooms : Pending(q)' = Pending(q)
  BY <1>1 DEF Pending
<1> QED
  BY <1>1, <1>2, <1>3 DEF IInv, LastInv, HandledInv

\* What a homeserver serves changes one room or nothing.
LEMMA ServeKeeps ==
  ASSUME IInv, NEW c \in Commands, Serve(c)
  PROVE  LastInv' /\ HandledInv'
<1>1. UNCHANGED sidecarVars
  BY DEF Serve
<1>2. CASE UNCHANGED <<membership, isDirect, sync, crossed, older>>
  BY <1>1, <1>2 DEF IInv, LastInv, HandledInv, Pending, sidecarVars
<1>3. CASE ~UNCHANGED <<membership, isDirect, sync, crossed, older>>
  <2>1. PICK m \in {"leave", "invite", "join"} : Becomes(room[c], m, FALSE)
    BY <1>3, ServeChanges DEF IInv
  <2>2. room[c] \in Rooms
    BY <1>3, ServeChanges DEF IInv
  <2> QED
    BY <1>1, <2>1, <2>2, BecomesKeeps
<1> QED
  BY <1>2, <1>3

-----------------------------------------------------------------------------
(* The picture: what the sidecar has of a room that did not change between  *)
(* an answer and its handling is right, or an event that puts it right is   *)
(* on its way.  The lemmas follow PictureInv through each step.             *)

\* An event at the end of the stream is the last one waiting.
LEMMA AppendWaiting ==
  ASSUME TypeOK, NEW e \in Event, sync' = Append(sync, e), NEW r \in Rooms, NEW type
  PROVE  /\ Waiting(r, type)' = Waiting(r, type) \cup
                {i \in {Len(sync) + 1} : e.room = r /\ e.type = type}
         /\ \A i \in Waiting(r, type) : i \in Nat /\ i < Len(sync) + 1
<1>1. sync \in Seq(Event)
  BY DEF TypeOK
<1>2. /\ Len(sync) \in Nat
      /\ DOMAIN sync = 1..Len(sync)
      /\ DOMAIN sync' = 1..(Len(sync) + 1)
      /\ \A i \in 1..Len(sync) : sync'[i] = sync[i]
      /\ sync'[Len(sync) + 1] = e
  BY <1>1, AppendProperties, LenProperties
<1> QED
  BY <1>2 DEF Waiting

\* Without its first event those that wait move up by one place.
LEMMA TailWaiting ==
  ASSUME TypeOK, sync # <<>>, sync' = Tail(sync), NEW r \in Rooms, NEW type
  PROVE  /\ \A i \in Waiting(r, type)' : i \in Nat /\ i > 0 /\ i + 1 \in Waiting(r, type)
         /\ \A i \in Waiting(r, type) : i \in Nat /\ i > 0
         /\ \A i \in Waiting(r, type) : i > 1 => i - 1 \in Waiting(r, type)'
         /\ 1 \in Waiting(r, type) <=> Head(sync).room = r /\ Head(sync).type = type
<1>1. sync \in Seq(Event)
  BY DEF TypeOK
<1>2. /\ Len(sync) \in Nat \ {0}
      /\ DOMAIN sync = 1..Len(sync)
      /\ Head(sync) = sync[1]
      /\ DOMAIN sync' = 1..(Len(sync) - 1)
      /\ \A i \in 1..(Len(sync) - 1) : sync'[i] = sync[i + 1]
  BY <1>1, HeadTailProperties, LenProperties, EmptySeq
<1>3. ASSUME NEW i \in Waiting(r, type)'
      PROVE  i \in Nat /\ i > 0 /\ i + 1 \in Waiting(r, type)
  BY <1>2, <1>3 DEF Waiting
<1>4. ASSUME NEW i \in Waiting(r, type)
      PROVE  /\ i \in Nat /\ i > 0
             /\ i > 1 => i - 1 \in Waiting(r, type)'
  <2>1. i \in 1..Len(sync) /\ sync[i].room = r /\ sync[i].type = type
    BY <1>2, <1>4 DEF Waiting
  <2>2. i > 1 => i - 1 \in 1..(Len(sync) - 1) /\ sync'[i - 1] = sync[i]
    BY <1>2, <2>1
  <2> QED
    BY <1>2, <2>1, <2>2 DEF Waiting
<1> QED
  BY <1>2, <1>3, <1>4 DEF Waiting

\* The order of a room's events and what they make of the picture depend on its
\* own events only.
LEMMA SameRoom ==
  ASSUME NEW q \in Rooms, OrderAt(q), membership'[q] = membership[q],
         q \in older' <=> q \in older,
         \A type \in {"join", "leave", "invite", "message"} : Waiting(q, type)' = Waiting(q, type)
  PROVE  /\ OrderAt(q)'
         /\ PictureAt(q) /\ (q \in joined' <=> q \in joined) /\ (q \in invites' <=> q \in invites)
              => PictureAt(q)'
<1>1. OrderAt(q)'
  BY DEF OrderAt
<1>2. ASSUME PictureAt(q), q \in joined' <=> q \in joined, q \in invites' <=> q \in invites
      PROVE  PictureAt(q)'
  BY <1>2 DEF PictureAt
<1> QED
  BY <1>1, <1>2

\* A change of membership puts an event behind all others that says what the
\* picture should be.
LEMMA BecomesPicture ==
  ASSUME IInv, PictureInv, NEW r \in Rooms, NEW m \in {"leave", "invite", "join"},
         NEW d \in BOOLEAN, Becomes(r, m, d), m = "invite" => membership[r] = "leave",
         UNCHANGED sidecarVars
  PROVE  /\ \A q \in Rooms : OrderAt(q)'
         /\ \A q \in Rooms \ crossed' : PictureAt(q)'
         /\ missed' \subseteq crossed'
<1> DEFINE e == [type |-> m, room |-> r, direct |-> d]
           n == Len(sync) + 1
<1>1. /\ e \in Event
      /\ sync' = Append(sync, e)
      /\ membership' = [membership EXCEPT ![r] = m]
      /\ crossed \subseteq crossed'
      /\ older' = older \ {r}
      /\ e.room = r /\ e.type = m
      /\ UNCHANGED <<joined, invites, missed>>
  BY DEF Becomes, Event, sidecarVars
<1>2. membership \in [Rooms -> {"leave", "invite", "join"}] /\ n \in Nat
  BY LenProperties DEF IInv, TypeOK
<1> HIDE DEF e, n
<1>3. ASSUME NEW q \in Rooms, NEW type
      PROVE  /\ Waiting(q, type)' = Waiting(q, type) \cup {i \in {n} : q = r /\ type = m}
             /\ \A i \in Waiting(q, type) : i \in Nat /\ i < n
  BY <1>1, AppendWaiting DEF IInv, n
<1>4. ASSUME NEW q \in Rooms
      PROVE  OrderAt(q)' /\ (q \notin crossed => PictureAt(q)')
  <2>1. OrderAt(q) /\ (q \notin crossed => PictureAt(q))
    BY DEF PictureInv
  <2>2. CASE q # r
    <3>1. /\ membership'[q] = membership[q]
          /\ q \in older' <=> q \in older
          /\ \A type : Waiting(q, type)' = Waiting(q, type)
      BY <1>1, <1>2, <1>3, <2>2
    <3>2. /\ q \in joined' <=> q \in joined
          /\ q \in invites' <=> q \in invites
      BY <1>1
    <3> QED
      BY <1>1, <2>1, <3>1, <3>2, SameRoom
  <2>3. CASE q = r
    <3>1. membership'[q] = m
      BY <1>1, <1>2, <2>3
    <3>2. /\ Waiting(q, "message")' = Waiting(q, "message")
          /\ \A i \in Waiting(q, "message") : i \in Nat /\ i < n
      BY <1>3
    <3>3. /\ Waiting(q, m)' = Waiting(q, m) \cup {n}
          /\ n \in Waiting(q, m)'
          /\ \A type : type # m => Waiting(q, type)' = Waiting(q, type)
          /\ \A type : \A i \in Waiting(q, type) : i \in Nat /\ i < n
      BY <1>3, <2>3
    <3>4. CASE m = "join"
      <4>1. OrderAt(q)'
        BY <1>2, <2>1, <3>1, <3>2, <3>3, <3>4 DEF OrderAt
      <4>2. PictureAt(q) => PictureAt(q)'
        BY <1>1, <3>1, <3>2, <3>3, <3>4 DEF PictureAt
      <4> QED
        BY <2>1, <4>1, <4>2
    <3>5. CASE m = "leave"
      <4>1. OrderAt(q)'
        BY <1>2, <2>1, <3>1, <3>2, <3>3, <3>5 DEF OrderAt
      <4>2. PictureAt(q) => PictureAt(q)'
        BY <1>1, <3>1, <3>2, <3>3, <3>5 DEF PictureAt
      <4> QED
        BY <2>1, <4>1, <4>2
    <3>6. CASE m = "invite"
      <4>1. membership[q] = "leave"
        BY <2>3, <3>6
      <4>2. OrderAt(q)'
        BY <1>2, <2>1, <3>1, <3>2, <3>3, <3>6, <4>1 DEF OrderAt
      <4>3. PictureAt(q) => PictureAt(q)'
        BY <1>1, <3>1, <3>2, <3>3, <3>6, <4>1 DEF PictureAt
      <4> QED
        BY <2>1, <4>2, <4>3
    <3> QED
      BY <3>4, <3>5, <3>6
  <2> QED
    BY <2>2, <2>3
<1> QED
  BY <1>1, <1>4 DEF PictureInv

\* A message is said in a room the account is in: the last of the room's joins
\* and leaves is a join, or has been handled as one.
LEMMA SayPicture ==
  ASSUME IInv, PictureInv, NEW r \in Rooms, Say(r)
  PROVE  /\ \A q \in Rooms : OrderAt(q)'
         /\ \A q \in Rooms \ crossed' : PictureAt(q)'
         /\ missed' \subseteq crossed'
<1> DEFINE e == [type |-> "message", room |-> r, direct |-> FALSE]
           n == Len(sync) + 1
<1>1. /\ e \in Event
      /\ sync' = Append(sync, e)
      /\ membership[r] = "join"
      /\ e.room = r /\ e.type = "message"
      /\ UNCHANGED <<membership, crossed, older, joined, invites, missed>>
  BY DEF Say, Event, sidecarVars
<1>2. n \in Nat
  BY LenProperties DEF IInv, TypeOK
<1> HIDE DEF e, n
<1>3. ASSUME NEW q \in Rooms, NEW type
      PROVE  /\ Waiting(q, type)' =
                  Waiting(q, type) \cup {i \in {n} : q = r /\ type = "message"}
             /\ \A i \in Waiting(q, type) : i \in Nat /\ i < n
  BY <1>1, AppendWaiting DEF IInv, n
<1>4. ASSUME NEW q \in Rooms
      PROVE  OrderAt(q)' /\ (q \notin crossed => PictureAt(q)')
  <2>1. OrderAt(q) /\ (q \notin crossed => PictureAt(q))
    BY DEF PictureInv
  <2>2. CASE q # r
    <3>1. /\ membership'[q] = membership[q]
          /\ \A type : Waiting(q, type)' = Waiting(q, type)
      <4>1. membership'[q] = membership[q]
        BY <1>1
      <4>2. ASSUME NEW type PROVE Waiting(q, type)' = Waiting(q, type)
        <5>1. {i \in {n} : q = r /\ type = "message"} = {}
          BY <2>2
        <5> QED
          BY <1>3, <5>1
      <4> QED
        BY <4>1, <4>2
    <3> QED
      BY <1>1, <2>1, <3>1, SameRoom
  <2>3. CASE q = r
    <3>1. /\ membership[q] = "join" /\ membership'[q] = "join"
          /\ \A type \in {"join", "leave", "invite"} : Waiting(q, type)' = Waiting(q, type)
          /\ Waiting(q, "message")' = Waiting(q, "message") \cup {n}
          /\ \A type : \A i \in Waiting(q, type) : i \in Nat /\ i < n
      <4>1. membership[q] = "join" /\ membership'[q] = "join"
        BY <1>1, <2>3
      <4>2. \A type \in {"join", "leave", "invite"} : Waiting(q, type)' = Waiting(q, type)
        BY <1>3
      <4>3. Waiting(q, "message")' = Waiting(q, "message") \cup {n}
        BY <1>3, <2>3
      <4> QED
        BY <1>3, <4>1, <4>2, <4>3
    <3>2. OrderAt(q)'
      BY <1>2, <2>1, <3>1 DEF OrderAt
    <3>3. PictureAt(q) => PictureAt(q)'
      BY <1>1, <1>2, <3>1 DEF PictureAt
    <3> QED
      BY <2>1, <3>2, <3>3
  <2> QED
    BY <2>2, <2>3
<1> QED
  BY <1>1, <1>4 DEF PictureInv

\* Taking the first event keeps the order of the others.
LEMMA TailOrder ==
  ASSUME TypeOK, sync # <<>>, sync' = Tail(sync), UNCHANGED membership, NEW q \in Rooms,
         OrderAt(q)
  PROVE  OrderAt(q)'
<1>1. ASSUME NEW type
      PROVE  /\ \A i \in Waiting(q, type)' : i \in Nat /\ i > 0 /\ i + 1 \in Waiting(q, type)
             /\ \A i \in Waiting(q, type) : i \in Nat /\ i > 0
             /\ \A i \in Waiting(q, type) : i > 1 => i - 1 \in Waiting(q, type)'
  BY TailWaiting
\* What follows an event still does.
<1>2. ASSUME NEW a, NEW b, NEW i \in Waiting(q, a)', \E j \in Waiting(q, b) : j > i + 1
      PROVE  \E j \in Waiting(q, b)' : j > i
  <2>1. PICK j \in Waiting(q, b) : j > i + 1
    BY <1>2
  <2>2. i \in Nat /\ i > 0 /\ j \in Nat /\ j - 1 > i /\ j > 1
    BY <1>1, <2>1
  <2> QED
    BY <1>1, <2>1, <2>2
<1>3. membership[q] = "join" =>
        \A i \in Waiting(q, "leave")' : \E j \in Waiting(q, "join")' : j > i
  BY <1>1, <1>2 DEF OrderAt
<1>4. membership[q] # "join" =>
        \A i \in Waiting(q, "join")' : \E j \in Waiting(q, "leave")' : j > i
  BY <1>1, <1>2 DEF OrderAt
<1>5. membership[q] = "invite" =>
        \A i \in Waiting(q, "join")' \cup Waiting(q, "leave")' :
          \E j \in Waiting(q, "invite")' : j > i
  <2> SUFFICES ASSUME membership[q] = "invite", NEW type \in {"join", "leave"},
                      NEW i \in Waiting(q, type)'
               PROVE  \E j \in Waiting(q, "invite")' : j > i
    OBVIOUS
  <2>1. i + 1 \in Waiting(q, type)
    BY <1>1
  <2>2. \E j \in Waiting(q, "invite") : j > i + 1
    BY <2>1 DEF OrderAt
  <2> QED
    BY <1>2, <2>2
<1>6. ASSUME NEW m \in Waiting(q, "message")', NEW i \in Waiting(q, "leave")', i < m
      PROVE  \E j \in Waiting(q, "join")' : i < j /\ j < m
  <2>1. /\ m \in Nat /\ m + 1 \in Waiting(q, "message")
        /\ i \in Nat /\ i > 0 /\ i + 1 \in Waiting(q, "leave")
        /\ i + 1 < m + 1
    BY <1>1, <1>6
  <2>2. PICK j \in Waiting(q, "join") : i + 1 < j /\ j < m + 1
    BY <2>1 DEF OrderAt
  <2>3. j \in Nat /\ j > 1 /\ i < j - 1 /\ j - 1 < m
    BY <1>1, <2>1, <2>2
  <2> QED
    BY <1>1, <2>2, <2>3
<1>7. ASSUME NEW m \in Waiting(q, "message")', membership[q] # "join"
      PROVE  \E j \in Waiting(q, "leave")' : j > m
  <2>1. m + 1 \in Waiting(q, "message")
    BY <1>1
  <2>2. \E j \in Waiting(q, "leave") : j > m + 1
    BY <1>7, <2>1 DEF OrderAt
  <2> QED
    BY <1>2, <2>2
<1> QED
  BY <1>3, <1>4, <1>5, <1>6, <1>7 DEF OrderAt

\* The handlers: what an event says is in the picture once it is handled, and
\* what says otherwise still waits behind it.
LEMMA HandlePicture ==
  ASSUME IInv, PictureInv, Handle
  PROVE  /\ \A q \in Rooms : OrderAt(q)'
         /\ \A q \in Rooms \ crossed' : PictureAt(q)'
         /\ missed' \subseteq crossed'
<1> DEFINE e == Head(sync)
<1>1. /\ sync # <<>> /\ sync' = Tail(sync)
      /\ UNCHANGED <<membership, crossed, older>>
      /\ TypeOK
  BY DEF Handle, IInv
<1>2. /\ \/ e.type = "invite" /\ HandleInvite(e.room, e.direct)
         \/ e.type = "join" /\ HandleJoin(e.room)
         \/ e.type = "leave" /\ HandleLeave(e.room)
         \/ e.type = "message" /\ HandleMessage(e.room)
      /\ e.room \in Rooms
  <2>1. sync \in Seq(Event)
    BY <1>1 DEF TypeOK
  <2>2. e \in Event
    BY <1>1, <2>1, HeadTailProperties
  <2> QED
    BY <2>2 DEF Event, Handle
<1> HIDE DEF e
<1>3. ASSUME NEW q \in Rooms, NEW type
      PROVE  /\ \A i \in Waiting(q, type)' : i \in Nat /\ i > 0 /\ i + 1 \in Waiting(q, type)
             /\ \A i \in Waiting(q, type) : i \in Nat /\ i > 0
             /\ \A i \in Waiting(q, type) : i > 1 => i - 1 \in Waiting(q, type)'
             /\ 1 \in Waiting(q, type) <=> e.room = q /\ e.type = type
  BY <1>1, TailWaiting DEF e
<1>4. \A q \in Rooms : OrderAt(q)'
  BY <1>1, TailOrder DEF PictureInv
\* An event that is not the first still waits.
<1>5. ASSUME NEW q \in Rooms, NEW type, Waiting(q, type) # {}, ~(e.room = q /\ e.type = type)
      PROVE  Waiting(q, type)' # {}
  BY <1>3, <1>5
\* So does one behind the first.
<1>6. ASSUME NEW q \in Rooms, NEW a, NEW b, e.room = q, e.type = a,
             \A i \in Waiting(q, a) : \E j \in Waiting(q, b) : j > i
      PROVE  Waiting(q, b)' # {}
  <2>1. PICK j \in Waiting(q, b) : j > 1
    BY <1>3, <1>6
  <2> QED
    BY <1>3, <2>1
<1>7. ASSUME NEW q \in Rooms \ crossed
      PROVE  PictureAt(q)'
  <2>1. OrderAt(q) /\ PictureAt(q)
    BY DEF PictureInv
  <2>2. e.room # q => (q \in joined' <=> q \in joined) /\ (q \in invites' <=> q \in invites)
    BY <1>2 DEF HandleInvite, HandleJoin, HandleLeave, HandleMessage
  <2>3. e.type = "join" /\ e.room = q => q \in joined'
    BY <1>2 DEF HandleJoin
  <2>4. e.type = "leave" /\ e.room = q => q \notin joined'
    BY <1>2 DEF HandleLeave
  <2>5. e.type \in {"invite", "message"} => UNCHANGED joined
    BY <1>2 DEF HandleInvite, HandleMessage
  <2>6. e.type = "invite" /\ e.room = q => q \in invites'
    BY <1>2 DEF HandleInvite
  <2>7. e.type = "message" => UNCHANGED invites
    BY <1>2 DEF HandleMessage
  <2>8. e.type \in {"invite", "join", "leave", "message"}
    BY <1>2
  <2>9. membership[q] = "join" => q \in joined' \/ Waiting(q, "join")' # {}
    <3> SUFFICES ASSUME membership[q] = "join", q \notin joined'
                 PROVE  Waiting(q, "join")' # {}
      OBVIOUS
    <3>1. CASE e.room = q /\ e.type = "leave"
      BY <1>6, <2>1, <3>1 DEF OrderAt
    <3>2. CASE ~(e.room = q /\ e.type = "leave")
      <4>1. q \notin joined
        BY <1>2, <3>2 DEF HandleInvite, HandleJoin, HandleLeave, HandleMessage
      <4> QED
        BY <1>5, <2>1, <2>3, <4>1 DEF PictureAt
    <3> QED
      BY <3>1, <3>2
  <2>10. membership[q] # "join" => q \notin joined' \/ Waiting(q, "leave")' # {}
    <3> SUFFICES ASSUME membership[q] # "join", q \in joined'
                 PROVE  Waiting(q, "leave")' # {}
      OBVIOUS
    <3>1. CASE e.room = q /\ e.type = "join"
      BY <1>6, <2>1, <3>1 DEF OrderAt
    <3>2. CASE ~(e.room = q /\ e.type = "join")
      <4>1. q \in joined
        BY <1>2, <3>2 DEF HandleInvite, HandleJoin, HandleLeave, HandleMessage
      <4> QED
        BY <1>5, <2>1, <2>4, <4>1 DEF PictureAt
    <3> QED
      BY <3>1, <3>2
  <2>11. membership[q] = "invite" => q \in invites' \cup older' \/ Waiting(q, "invite")' # {}
    <3> SUFFICES ASSUME membership[q] = "invite", q \notin invites' \cup older'
                 PROVE  Waiting(q, "invite")' # {}
      OBVIOUS
    <3>1. CASE e.room = q /\ e.type \in {"join", "leave"}
      <4>1. \A i \in Waiting(q, e.type) : \E j \in Waiting(q, "invite") : j > i
        BY <2>1, <3>1 DEF OrderAt
      <4> QED
        BY <1>6, <3>1, <4>1
    <3>2. CASE ~(e.room = q /\ e.type \in {"join", "leave"})
      <4>1. q \notin invites \cup older
        BY <1>1, <1>2, <3>2 DEF HandleInvite, HandleJoin, HandleLeave, HandleMessage
      <4> QED
        BY <1>5, <2>1, <2>6, <4>1 DEF PictureAt
    <3> QED
      BY <3>1, <3>2
  <2>12. ASSUME NEW m \in Waiting(q, "message")', q \notin joined',
                \A j \in Waiting(q, "leave")' : ~(j > m)
         PROVE  \E j \in Waiting(q, "join")' : j < m
    <3>1. m \in Nat /\ m > 0 /\ m + 1 \in Waiting(q, "message")
      BY <1>3
    <3>2. \A j \in Waiting(q, "leave") : ~(j > m + 1)
      BY <1>3, <2>12, <3>1
    <3>3. PICK j \in Waiting(q, "join") : j < m + 1 /\ j > 1
      <4>1. CASE e.room = q /\ e.type = "leave"
        <5>1. 1 \in Waiting(q, "leave") /\ 1 < m + 1
          BY <1>3, <3>1, <4>1
        <5> QED
          BY <2>1, <3>1, <5>1 DEF OrderAt
      <4>2. CASE ~(e.room = q /\ e.type = "leave")
        <5>1. q \notin joined
          BY <1>2, <2>12, <4>2 DEF HandleInvite, HandleJoin, HandleLeave, HandleMessage
        <5>2. PICK j \in Waiting(q, "join") : j < m + 1
          BY <2>1, <3>1, <3>2, <5>1 DEF PictureAt
        <5>3. j # 1
          BY <1>3, <2>3, <2>12, <5>2
        <5> QED
          BY <1>3, <5>2, <5>3
      <4> QED
        BY <4>1, <4>2
    <3>4. j - 1 \in Waiting(q, "join")' /\ j - 1 < m
      BY <1>3, <3>1, <3>3
    <3> QED
      BY <3>4
  <2> QED
    BY <1>1, <2>9, <2>10, <2>11, <2>12 DEF PictureAt
\* A message that is dropped is one of a room that changed meanwhile.
<1>8. missed' \subseteq crossed
  <2> SUFFICES ASSUME e.type = "message", e.room \notin crossed, e.room \notin joined
               PROVE  \E i \in DOMAIN sync : sync[i].room = e.room /\ sync[i].type = "leave"
    BY <1>2 DEF HandleInvite, HandleJoin, HandleLeave, HandleMessage, PictureInv
  <2>1. PictureAt(e.room) /\ 1 \in Waiting(e.room, "message")
    BY <1>2, <1>3 DEF PictureInv
  <2>2. \A j \in Waiting(e.room, "join") : ~(j < 1)
    BY <1>2, <1>3
  <2> QED
    BY <2>1, <2>2 DEF PictureAt, Waiting
<1> QED
  BY <1>1, <1>4, <1>7, <1>8

\* A command that resumes with an answer that is still so leaves the picture
\* right.
LEMMA ResumePicture ==
  ASSUME IInv, PictureInv, NEW c \in Commands, Resume(c)
  PROVE  /\ \A q \in Rooms : OrderAt(q)'
         /\ \A q \in Rooms \ crossed' : PictureAt(q)'
         /\ missed' \subseteq crossed'
<1>1. UNCHANGED <<membership, sync, crossed, older, missed>> /\ phase[c] = "served"
  BY DEF Resume, serverVars
<1>2. ASSUME NEW q \in Rooms, NEW type PROVE Waiting(q, type)' = Waiting(q, type)
  BY <1>1 DEF Waiting
<1>3. \A q \in Rooms : OrderAt(q)'
  BY <1>1, <1>2, SameRoom DEF PictureInv
<1>4. ASSUME NEW q \in Rooms \ crossed
      PROVE  /\ membership[q] = "join" => (q \in joined => q \in joined')
             /\ membership[q] # "join" => (q \in joined' => q \in joined)
             /\ membership[q] = "invite" => (q \in invites => q \in invites')
  <2>1. CASE answer[c] = "error"
    BY <2>1 DEF Resume, Failed
  <2>2. CASE answer[c] = "ok"
    <3>1. /\ kind[c] = "accept_invite" /\ room[c] = q => membership[q] = "join"
          /\ kind[c] \in {"reject_invite", "leave_chat"} /\ room[c] = q => membership[q] = "leave"
          /\ kind[c] \in {"list_chats", "get_chat"} => (q \in listed[c] <=> membership[q] = "join")
      BY <1>1, <2>2 DEF PictureInv, AnswerInv, AnswerOf
    <3> QED
      BY <2>2, <3>1 DEF Resume, Accepted, Refreshed
  <2> QED
    BY <2>1, <2>2 DEF Resume
<1>5. ASSUME NEW q \in Rooms \ crossed
      PROVE  PictureAt(q)'
  <2>1. OrderAt(q) /\ PictureAt(q)
    BY DEF PictureInv
  <2>2. ASSUME NEW m \in Waiting(q, "message")
        PROVE  \/ q \in joined'
               \/ \E j \in Waiting(q, "join") : j < m
               \/ \E j \in Waiting(q, "leave") : j > m
    BY <1>4, <2>1 DEF OrderAt, PictureAt
  <2>3. /\ membership[q] = "join" => q \in joined' \/ Waiting(q, "join") # {}
        /\ membership[q] # "join" => q \notin joined' \/ Waiting(q, "leave") # {}
        /\ membership[q] = "invite" => q \in invites' \cup older' \/ Waiting(q, "invite") # {}
    BY <1>1, <1>4, <2>1 DEF PictureAt
  <2> QED
    BY <1>1, <1>2, <2>2, <2>3 DEF PictureAt
<1> QED
  BY <1>1, <1>3, <1>5 DEF PictureInv

\* A room that changes while an answer waits is marked as crossed.
LEMMA BecomesAnswers ==
  ASSUME IInv, PictureInv, NEW r \in Rooms, NEW m, NEW d, Becomes(r, m, d),
         NEW c \in Commands, phase[c] = "served", NEW q \in Rooms \ crossed'
  PROVE  q \in Rooms \ crossed /\ membership'[q] = membership[q]
<1>1. q # r /\ q \notin crossed
  BY DEF Becomes
<1> QED
  BY <1>1 DEF Becomes, IInv, TypeOK

\* What the homeserver answers is so when it does.
LEMMA ServeAnswers ==
  ASSUME IInv, PictureInv, NEW c \in Commands, Serve(c)
  PROVE  AnswerInv'
<1>1. /\ phase' = [phase EXCEPT ![c] = "served"]
      /\ UNCHANGED <<kind, room>>
      /\ \A b \in Commands \ {c} : answer'[b] = answer[b] /\ listed'[b] = listed[b]
  BY DEF Serve, IInv, TypeOK
<1>2. ASSUME NEW b \in Commands \ {c} PROVE AnswerOf(b)'
  <2> SUFFICES ASSUME NEW q \in Rooms \ crossed', phase[b] = "served"
               PROVE  q \in Rooms \ crossed /\ membership'[q] = membership[q]
    BY <1>1 DEF AnswerInv, AnswerOf, PictureInv, IInv, TypeOK
  <2>1. CASE UNCHANGED <<membership, isDirect, sync, crossed, older>>
    BY <2>1
  <2>2. CASE ~UNCHANGED <<membership, isDirect, sync, crossed, older>>
    <3>1. /\ room[c] \in Rooms
          /\ \E m \in {"leave", "invite", "join"} : Becomes(room[c], m, FALSE)
      BY <2>2, ServeChanges DEF IInv
    <3> QED
      BY <3>1, BecomesAnswers
  <2> QED
    BY <2>1, <2>2
<1>3. AnswerOf(c)'
  <2> SUFFICES ASSUME NEW q \in Rooms, answer'[c] = "ok"
               PROVE  /\ kind[c] = "accept_invite" /\ room[c] = q => membership'[q] = "join"
                      /\ kind[c] \in {"reject_invite", "leave_chat"} /\ room[c] = q =>
                           membership'[q] = "leave"
                      /\ kind[c] \in {"list_chats", "get_chat"} =>
                           (q \in listed'[c] <=> membership'[q] = "join")
    BY <1>1 DEF AnswerOf
  <2>1. /\ membership \in [Rooms -> {"leave", "invite", "join"}]
        /\ answer \in [Commands -> {"none", "ok", "error"}]
        /\ listed \in [Commands -> SUBSET Rooms]
    BY DEF IInv, TypeOK
  <2>2. CASE kind[c] = "accept_invite"
    BY <2>1, <2>2 DEF Serve, Becomes
  <2>3. CASE kind[c] \in {"reject_invite", "leave_chat"}
    BY <2>1, <2>3 DEF Serve, Becomes
  <2>4. CASE kind[c] \in {"list_chats", "get_chat"}
    <3>1. listed'[c] = MembersAs("join") /\ membership' = membership
      BY <2>1, <2>4 DEF Serve
    <3> QED
      BY <2>4, <3>1 DEF MembersAs
  <2> QED
    BY <2>2, <2>3, <2>4 DEF Serve
<1> QED
  BY <1>2, <1>3 DEF AnswerInv

\* Serving a command changes its room as others do.
LEMMA ServePicture ==
  ASSUME IInv, PictureInv, NEW c \in Commands, Serve(c)
  PROVE  /\ \A q \in Rooms : OrderAt(q)'
         /\ \A q \in Rooms \ crossed' : PictureAt(q)'
         /\ missed' \subseteq crossed'
<1>1. UNCHANGED sidecarVars
  BY DEF Serve
<1>2. CASE UNCHANGED <<membership, isDirect, sync, crossed, older>>
  <2>1. \A q \in Rooms : \A type : Waiting(q, type)' = Waiting(q, type)
    BY <1>2 DEF Waiting
  <2> QED
    BY <1>1, <1>2, <2>1, SameRoom DEF PictureInv, sidecarVars
<1>3. CASE ~UNCHANGED <<membership, isDirect, sync, crossed, older>>
  <2>1. room[c] \in Rooms
    BY <1>3, ServeChanges DEF IInv
  <2>2. Becomes(room[c], "join", FALSE) \/ Becomes(room[c], "leave", FALSE)
    BY <1>3 DEF Serve
  <2> QED
    BY <1>1, <2>1, <2>2, BecomesPicture
<1> QED
  BY <1>2, <1>3

\* What others do, and what a command does before and after its answer.
LEMMA OthersAnswer ==
  ASSUME IInv, PictureInv, NEW r \in Rooms, NEW from, NEW m, NEW d, OthersChange(r, from, m, d)
  PROVE  AnswerInv'
<1> SUFFICES ASSUME NEW c \in Commands, NEW q \in Rooms \ crossed', phase[c] = "served"
             PROVE  q \in Rooms \ crossed /\ membership'[q] = membership[q]
  BY DEF OthersChange, commandVars, AnswerInv, AnswerOf, PictureInv
<1> QED
  BY BecomesAnswers DEF OthersChange

LEMMA CommandAnswers ==
  ASSUME IInv, PictureInv, NEW c \in Commands, Begin(c) \/ Fails(c) \/ Resume(c)
  PROVE  AnswerInv'
<1>1. UNCHANGED <<membership, crossed>>
  BY DEF Begin, Fails, Resume, serverVars
<1>2. ~(phase'[c] = "served" /\ answer'[c] = "ok")
  BY DEF Begin, Fails, Resume, IInv, TypeOK
<1>3. \A b \in Commands \ {c} :
        /\ phase'[b] = phase[b] /\ answer'[b] = answer[b] /\ kind'[b] = kind[b]
        /\ room'[b] = room[b] /\ listed'[b] = listed[b]
  BY DEF Begin, Fails, Resume, IInv, TypeOK
<1>4. ASSUME NEW b \in Commands PROVE AnswerOf(b)'
  BY <1>1, <1>2, <1>3 DEF AnswerInv, AnswerOf, PictureInv
<1> QED
  BY <1>4 DEF AnswerInv

\* Steps that touch neither the homeserver nor the picture.
LEMMA SamePicture ==
  ASSUME PictureInv, UNCHANGED <<membership, sync, crossed, older, joined, invites, missed>>
  PROVE  /\ \A q \in Rooms : OrderAt(q)'
         /\ \A q \in Rooms \ crossed' : PictureAt(q)'
         /\ missed' \subseteq crossed'
<1>1. \A q \in Rooms : \A type : Waiting(q, type)' = Waiting(q, type)
  BY DEF Waiting
<1> QED
  BY <1>1, SameRoom DEF PictureInv

LEMMA PictureStep == IInv /\ PictureInv /\ [Next]_vars => PictureInv'
<1> SUFFICES ASSUME IInv, PictureInv, [Next]_vars
             PROVE  /\ AnswerInv'
                    /\ \A q \in Rooms : OrderAt(q)'
                    /\ \A q \in Rooms \ crossed' : PictureAt(q)'
                    /\ missed' \subseteq crossed'
  BY DEF PictureInv
<1> DEFINE Picture == /\ \A q \in Rooms : OrderAt(q)'
                      /\ \A q \in Rooms \ crossed' : PictureAt(q)'
                      /\ missed' \subseteq crossed'
<1>1. ASSUME NEW r \in Rooms, Invite(r) \/ JoinElsewhere(r) \/ Removed(r)
      PROVE  AnswerInv' /\ Picture
  <2>1. ASSUME NEW from, NEW m \in {"leave", "invite", "join"}, NEW d \in BOOLEAN,
               OthersChange(r, from, m, d), m = "invite" => from = {"leave"}
        PROVE  AnswerInv' /\ Picture
    <3>1. Becomes(r, m, d) /\ (m = "invite" => membership[r] = "leave") /\ UNCHANGED sidecarVars
      BY <2>1 DEF OthersChange
    <3> QED
      BY <2>1, <3>1, OthersAnswer, BecomesPicture
  <2> QED
    BY <1>1, <2>1 DEF Invite, JoinElsewhere, Removed
<1>2. ASSUME NEW r \in Rooms, Say(r) PROVE AnswerInv' /\ Picture
  <2>1. AnswerInv'
    BY <1>2 DEF Say, commandVars, AnswerInv, AnswerOf, PictureInv
  <2> QED
    BY <1>2, <2>1, SayPicture
<1>3. CASE Handle
  <2>1. AnswerInv'
    BY <1>3 DEF Handle, commandVars, AnswerInv, AnswerOf, PictureInv
  <2> QED
    BY <1>3, <2>1, HandlePicture
<1>4. ASSUME NEW c \in Commands, Begin(c) \/ Fails(c) PROVE AnswerInv' /\ Picture
  <2>1. UNCHANGED <<membership, sync, crossed, older, joined, invites, missed>>
    BY <1>4 DEF Begin, Fails, serverVars, sidecarVars
  <2> QED
    BY <1>4, <2>1, CommandAnswers, SamePicture
<1>5. ASSUME NEW c \in Commands, Serve(c) PROVE AnswerInv' /\ Picture
  BY <1>5, ServeAnswers, ServePicture
<1>6. ASSUME NEW c \in Commands, Resume(c) PROVE AnswerInv' /\ Picture
  BY <1>6, CommandAnswers, ResumePicture
<1>7. CASE UNCHANGED vars
  <2>1. AnswerInv'
    BY <1>7 DEF vars, AnswerInv, AnswerOf, PictureInv
  <2>2. UNCHANGED <<membership, sync, crossed, older, joined, invites, missed>>
    BY <1>7 DEF vars
  <2> QED
    BY <2>1, <2>2, SamePicture
<1> QED
  BY <1>1, <1>2, <1>3, <1>4, <1>5, <1>6, <1>7 DEF Next

-----------------------------------------------------------------------------
(* The theorems.                                                            *)

\* The stream begins with what the rooms are.
LEMMA InitTold ==
  ASSUME Init
  PROVE  /\ sync \in Seq(Event)
         /\ \A i \in DOMAIN sync : sync[i].room \in Rooms /\ sync[i] = Told(sync[i].room)
         /\ \A r \in MembersAs("invite") \ older : \E i \in DOMAIN sync : sync[i].room = r
<1>1. PICK n \in 0..MaxTold : \E rooms \in [1..n -> Rooms] :
        /\ sync = [i \in 1..n |-> Told(rooms[i])]
        /\ older = {r \in MembersAs("invite") : \A i \in 1..n : rooms[i] # r}
  BY DEF Init
<1>2. PICK rooms \in [1..n -> Rooms] :
        /\ sync = [i \in 1..n |-> Told(rooms[i])]
        /\ older = {r \in MembersAs("invite") : \A i \in 1..n : rooms[i] # r}
  BY <1>1
<1>3. n \in Nat
  BY <1>1, InputAssumption
<1>4. ASSUME NEW r \in Rooms PROVE Told(r) \in Event /\ Told(r).room = r
  BY DEF Init, Told, Event
<1>5. sync \in [1..n -> Event]
  BY <1>2, <1>4
<1>6. sync \in Seq(Event)
  BY <1>3, <1>5, SeqDef
<1> QED
  BY <1>2, <1>4, <1>6

LEMMA InitTypeOK == Init => TypeOK
<1> SUFFICES ASSUME Init PROVE TypeOK
  OBVIOUS
<1>1. sync \in Seq(Event)
  BY InitTold
<1>2. older \subseteq Rooms
  BY DEF Init, MembersAs
<1> QED
  BY <1>1, <1>2, InputAssumption DEF Init, TypeOK, MembersAs

LEMMA InitIInv == Init => IInv
<1> SUFFICES ASSUME Init PROVE IInv
  OBVIOUS
<1>1. TypeOK
  BY InitTypeOK
<1>2. LastInv
  BY InitTold DEF LastInv, Pending, Told
<1>3. RoomInv /\ HandledInv
  BY DEF Init, HandledInv, RoomInv
<1> QED
  BY <1>1, <1>2, <1>3 DEF IInv

LEMMA InvStep == IInv /\ [Next]_vars => IInv'
<1> SUFFICES ASSUME IInv, [Next]_vars PROVE LastInv' /\ HandledInv'
  BY TypeStep, RoomStep DEF IInv
<1>1. ASSUME NEW r \in Rooms, NEW from, NEW m \in {"leave", "invite", "join"},
             NEW d \in BOOLEAN, OthersChange(r, from, m, d)
      PROVE  LastInv' /\ HandledInv'
  BY <1>1, BecomesKeeps DEF OthersChange
<1>2. ASSUME NEW r \in Rooms, Invite(r) \/ JoinElsewhere(r) \/ Removed(r)
      PROVE  LastInv' /\ HandledInv'
  BY <1>1, <1>2 DEF Invite, JoinElsewhere, Removed
<1>3. ASSUME NEW c \in Commands, Begin(c) \/ Fails(c) PROVE LastInv' /\ HandledInv'
  BY <1>3 DEF Begin, Fails, serverVars, sidecarVars, IInv, LastInv, HandledInv, Pending
<1>4. CASE UNCHANGED vars
  BY <1>4 DEF vars, IInv, LastInv, HandledInv, Pending
<1> QED
  BY <1>2, <1>3, <1>4, SayKeeps, HandleKeeps, ResumeKeeps, ServeKeeps DEF Next

\* Every variable keeps its type, whatever others and commands do.
THEOREM TypeCorrect == Spec => []TypeOK
<1>1. Init => IInv
  BY InitIInv
<1>2. IInv /\ [Next]_vars => IInv'
  BY InvStep
<1>3. IInv => TypeOK
  BY DEF IInv
<1> QED
  BY <1>1, <1>2, <1>3, PTL DEF Spec

\* IInv is an invariant: the last pending event of a room says what the
\* homeserver has, and a room without one is listed only if it is an invite.
THEOREM Inductive == Spec => []IInv
<1>1. Init => IInv
  BY InitIInv
<1>2. IInv /\ [Next]_vars => IInv'
  BY InvStep
<1> QED
  BY <1>1, <1>2, PTL DEF Spec

\* Once the stream is handled, every invite that list_invites shows is pending at
\* the homeserver, for any commands, failures and changes.
THEOREM NoGhostInvites == Spec => []NoGhostInvite
<1>1. IInv => NoGhostInvite
  <2> SUFFICES ASSUME IInv, CaughtUp PROVE invites \subseteq MembersAs("invite")
    BY DEF NoGhostInvite
  <2>1. \A r \in Rooms : Pending(r) = {}
    BY DEF CaughtUp, Pending
  <2> QED
    BY <2>1 DEF IInv, HandledInv, TypeOK, MembersAs
<1> QED
  BY <1>1, Inductive, PTL

\* And it is marked direct exactly when that invite said is_direct, so that
\* accept_invite marks the right rooms.
THEOREM MarksAreOfInvites == Spec => []MarkIsOfInvite
<1>1. IInv => MarkIsOfInvite
  <2> SUFFICES ASSUME IInv, CaughtUp, NEW r \in invites PROVE r \in directInvites <=> isDirect[r]
    BY DEF MarkIsOfInvite
  <2>1. r \in Rooms /\ Pending(r) = {}
    BY DEF CaughtUp, Pending, IInv, TypeOK
  <2> QED
    BY <2>1 DEF IInv, HandledInv
<1> QED
  BY <1>1, Inductive, PTL

\* PictureInv is an invariant: an answer that waits says what the homeserver
\* has, and the sidecar's rooms and invites are right or an event that puts them
\* right is on its way, for every room that no change has crossed.
THEOREM PictureHolds == Spec => []PictureInv
<1>1. Init => PictureInv
  <2> SUFFICES ASSUME Init PROVE PictureInv
    OBVIOUS
  <2>1. AnswerInv /\ missed \subseteq crossed
    BY DEF Init, AnswerInv, AnswerOf
  <2>2. ASSUME NEW r \in Rooms
        PROVE  /\ \A type : type # membership[r] => Waiting(r, type) = {}
               /\ membership[r] \in {"leave", "invite", "join"}
    <3>1. membership[r] \in {"leave", "invite", "join"}
      BY DEF Init
    <3>2. ASSUME NEW type, NEW i \in Waiting(r, type) PROVE type = membership[r]
      <4>1. i \in DOMAIN sync /\ sync[i].room = r /\ sync[i].type = type
        BY DEF Waiting
      <4>2. sync[i] = Told(r)
        BY <4>1, InitTold
      <4> QED
        BY <4>1, <4>2 DEF Told
    <3> QED
      BY <3>1, <3>2
  <2>3. ASSUME NEW r \in Rooms PROVE OrderAt(r)
    BY <2>2 DEF OrderAt
  <2>4. ASSUME NEW r \in Rooms PROVE PictureAt(r)
    <3>1. membership[r] = "join" <=> r \in joined
      BY DEF Init, MembersAs
    <3>2. membership[r] = "invite" => r \in older \/ Waiting(r, "invite") # {}
      BY InitTold DEF MembersAs, Waiting, Told
    <3> QED
      BY <2>2, <3>1, <3>2 DEF PictureAt
  <2> QED
    BY <2>1, <2>3, <2>4 DEF PictureInv
<1>2. IInv /\ PictureInv /\ [Next]_vars => PictureInv'
  BY PictureStep
<1> QED
  BY <1>1, <1>2, Inductive, PTL DEF Spec

\* Once the stream is handled, an invite that is pending at the homeserver is
\* listed, unless an earlier process took its event from the stream or the room
\* changed between an answer and its handling.
THEOREM InvitesAreVisible == Spec => []UncrossedInvitesVisible
<1>1. IInv /\ PictureInv => UncrossedInvitesVisible
  <2> SUFFICES ASSUME IInv, PictureInv, CaughtUp, NEW r \in Rooms \ crossed,
                      membership[r] = "invite", r \notin older
               PROVE  r \in invites
    BY DEF UncrossedInvitesVisible, MembersAs
  <2>1. Waiting(r, "invite") = {}
    BY DEF CaughtUp, Waiting
  <2> QED
    BY <2>1 DEF PictureInv, PictureAt
<1> QED
  BY <1>1, Inductive, PictureHolds, PTL

\* And the room is in joined_rooms exactly when the account is in it.
THEOREM JoinedRoomsAgree == Spec => []JoinedAgrees
<1>1. PictureInv => JoinedAgrees
  <2> SUFFICES ASSUME PictureInv, CaughtUp, NEW r \in Rooms \ crossed
               PROVE  r \in joined <=> membership[r] = "join"
    BY DEF JoinedAgrees
  <2>1. Waiting(r, "join") = {} /\ Waiting(r, "leave") = {}
    BY DEF CaughtUp, Waiting
  <2> QED
    BY <2>1 DEF PictureInv, PictureAt
<1> QED
  BY <1>1, PictureHolds, PTL

\* No message that was said in such a room is dropped while the account is in it.
THEOREM NoMessageDropped == Spec => []NothingDropped
<1>1. PictureInv => NothingDropped
  BY DEF PictureInv, NothingDropped
<1> QED
  BY <1>1, PictureHolds, PTL
=============================================================================
