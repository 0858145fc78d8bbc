--------------------------- MODULE SidecarChatType --------------------------
(***************************************************************************)
(* How the sidecar decides whether a room is a direct or a group chat.  It   *)
(* keeps direct_room_ids (from the account data m.direct), room_member_count *)
(* and the decision itself, room_chat_type.  Events of the sync stream       *)
(* invalidate or replace them; handlers of messages and member events, and   *)
(* the commands get_chat and accept_invite, read from the homeserver in the  *)
(* middle and go on with what they had read before.                          *)
(*                                                                           *)
(* A task is one handler or command.  It runs without interruption between   *)
(* awaits; at an await its request is served by the homeserver, and later    *)
(* the task resumes with the answer.  The rooms stay joined, and at most one *)
(* has just been joined; a room's name, alias and topic are one title, read  *)
(* at once.                                                                  *)
(***************************************************************************)
EXTENDS Naturals, Sequences

CONSTANTS
  Rooms,
  NoRoom,
  Active,      \* bound: the rooms where something happens; the others are large
               \* and named, begin in m.direct and only come and go there
  Tasks,       \* bound: the handlers and commands that are under way at once
  MaxChanges,  \* bound: changes made by others
  MaxTasks,    \* bound: messages and commands
  MaxFailures  \* bound: requests that fail

ASSUME RoomAssumption == NoRoom \notin Rooms

ASSUME InputAssumption ==
  /\ Active \subseteq Rooms
  /\ MaxChanges \in Nat
  /\ MaxTasks \in Nat
  /\ MaxFailures \in Nat

Counts == {2, 3}
Types == {"direct", "group"}

VARIABLES
  direct,   \* the rooms that m.direct lists
  wanted,   \* history: those that a client listed and none unlisted since
  stale,    \* history: a put was made from what m.direct was not
  members,  \* how many members a room has
  titled,   \* it has a name, an alias or a topic
  sync,     \* the events that no handler has taken
  crossed,  \* history: something changed while an answer was unhandled
  changes,
  started,
  failures

serverVars == <<direct, wanted, stale, members, titled, sync, crossed, changes, started, failures>>

VARIABLES
  directRooms,  \* direct_room_ids
  memberCount,  \* room_member_count, 0 where there is no entry
  chatType      \* room_chat_type, "none" where there is no entry

cacheVars == <<directRooms, memberCount, chatType>>

VARIABLES
  task,    \* what each task does
  at,      \* what it awaits: "count", "title", "direct" or "put"
  room,    \* the room it is about
  count,   \* its member_count
  served,  \* the homeserver has answered
  answer,  \* the answer
  mixed    \* history: something was handled while a task was under way

taskVars == <<task, at, room, count, served, answer, mixed>>

vars == <<direct, wanted, stale, members, titled, sync, crossed, changes, started, failures,
          directRooms, memberCount, chatType, task, at, room, count, served, answer, mixed>>

Event == [type : {"member", "metadata", "message"}, room : Rooms]
           \cup [type : {"direct"}, rooms : SUBSET Rooms]

\* An error leaves each reader with its default.
Answer == [ok : BOOLEAN, count : Counts, titled : BOOLEAN, direct : SUBSET Rooms]
NoAnswer == [ok |-> FALSE, count |-> 2, titled |-> FALSE, direct |-> {}]

TypeOK ==
  /\ direct \subseteq Rooms
  /\ wanted \subseteq Rooms
  /\ stale \in BOOLEAN
  /\ members \in [Rooms -> Counts]
  /\ titled \in [Rooms -> BOOLEAN]
  /\ sync \in Seq(Event)
  /\ crossed \in BOOLEAN
  /\ changes \in 0..MaxChanges
  /\ started \in 0..MaxTasks
  /\ failures \in 0..MaxFailures
  /\ directRooms \subseteq Rooms
  /\ memberCount \in [Rooms -> Counts \cup {0}]
  /\ chatType \in [Rooms -> Types \cup {"none"}]
  /\ task \in [Tasks -> {"free", "message", "member", "get_chat", "mark"}]
  /\ at \in [Tasks -> {"none", "count", "title", "direct", "put"}]
  /\ room \in [Tasks -> Rooms \cup {NoRoom}]
  /\ count \in [Tasks -> Counts \cup {0}]
  /\ served \in [Tasks -> BOOLEAN]
  /\ answer \in [Tasks -> Answer]
  /\ mixed \in BOOLEAN

\* Connecting reads m.direct and counts the members of each room.  A room that
\* accept_invite() has just joined is not counted before its own join event.
Init ==
  /\ \E rooms \in SUBSET Active : direct = rooms \cup (Rooms \ Active)
  /\ wanted = direct
  /\ stale = FALSE
  /\ members \in [Rooms -> Counts]
  /\ titled \in [Rooms -> BOOLEAN]
  /\ \A r \in Rooms \ Active : members[r] = 3 /\ titled[r]
  /\ sync \in {<<>>} \cup {<<[type |-> "member", room |-> r]>> : r \in Active}
  /\ crossed = FALSE
  /\ changes = 0
  /\ started = 0
  /\ failures = 0
  /\ directRooms = direct
  /\ memberCount = [r \in Rooms |-> IF sync = <<>> \/ sync[1].room # r THEN members[r] ELSE 0]
  /\ chatType = [r \in Rooms |-> "none"]
  /\ task = [t \in Tasks |-> "free"]
  /\ at = [t \in Tasks |-> "none"]
  /\ room = [t \in Tasks |-> NoRoom]
  /\ count = [t \in Tasks |-> 0]
  /\ served = [t \in Tasks |-> FALSE]
  /\ answer = [t \in Tasks |-> NoAnswer]
  /\ mixed = FALSE

-----------------------------------------------------------------------------
(* The homeserver and the other members.                                    *)

\* A change, which may come while an answer waits to be handled.
Crosses == crossed' = (crossed \/ \E t \in Tasks : served[t])

OthersChange(event) ==
  /\ changes < MaxChanges
  /\ Crosses
  /\ changes' = changes + 1
  /\ sync' = Append(sync, event)
  /\ UNCHANGED <<stale, started, failures, cacheVars, taskVars>>

MembersChange(r) ==
  /\ \E n \in Counts \ {members[r]} : members' = [members EXCEPT ![r] = n]
  /\ OthersChange([type |-> "member", room |-> r])
  /\ UNCHANGED <<direct, wanted, titled>>

TitleChanges(r) ==
  /\ titled' = [titled EXCEPT ![r] = ~@]
  /\ OthersChange([type |-> "metadata", room |-> r])
  /\ UNCHANGED <<direct, wanted, members>>

\* Another client of the account lists or unlists a room.
DirectChanges(r) ==
  /\ \/ r \in direct /\ direct' = direct \ {r} /\ wanted' = wanted \ {r}
     \/ r \notin direct /\ direct' = direct \cup {r} /\ wanted' = wanted \cup {r}
  /\ OthersChange([type |-> "direct", rooms |-> direct'])
  /\ UNCHANGED <<members, titled>>

Say(r) ==
  /\ started < MaxTasks
  /\ started' = started + 1
  /\ sync' = Append(sync, [type |-> "message", room |-> r])
  /\ UNCHANGED <<direct, wanted, stale, members, titled, crossed, changes, failures>>
  /\ UNCHANGED <<cacheVars, taskVars>>

Busy(t) == task[t] # "free"

\* Mutant: the entries of the other users are left out.
BugMarked(t) == {room[t]}

\* What mark_room_direct() puts: what it got, which is nothing where the read
\* failed, and its room.
Marked(t) == answer[t].direct \cup {room[t]}

\* What the homeserver says to the request that t awaits.
Told(t) ==
  [ok |-> TRUE,
   count |-> IF at[t] = "count" THEN members[room[t]] ELSE NoAnswer.count,
   titled |-> at[t] = "title" /\ titled[room[t]],
   direct |-> IF at[t] = "direct" THEN direct ELSE NoAnswer.direct]

\* The homeserver serves the request that t awaits.
ServeRead(t) ==
  /\ Busy(t)
  /\ at[t] # "put"
  /\ ~served[t]
  /\ served' = [served EXCEPT ![t] = TRUE]
  /\ answer' = [answer EXCEPT ![t] = Told(t)]
  /\ UNCHANGED <<serverVars, cacheVars, task, at, room, count, mixed>>

ServePut(t) ==
  /\ at[t] = "put"
  /\ ~served[t]
  /\ Crosses
  /\ served' = [served EXCEPT ![t] = TRUE]
  /\ direct' = Marked(t)
  /\ wanted' = wanted \cup {room[t]}
  /\ stale' = (stale \/ answer[t].direct # direct)
  /\ sync' = Append(sync, [type |-> "direct", rooms |-> direct'])
  /\ UNCHANGED <<members, titled, changes, started, failures, cacheVars>>
  /\ UNCHANGED <<task, at, room, count, answer, mixed>>

\* The request is lost, or its answer is.
Fails(t) ==
  /\ failures < MaxFailures
  /\ failures' = failures + 1
  /\ Busy(t)
  /\ served' = [served EXCEPT ![t] = TRUE]
  /\ answer' = IF at[t] = "put" THEN answer ELSE [answer EXCEPT ![t] = NoAnswer]
  /\ UNCHANGED <<direct, wanted, stale, members, titled, sync, crossed, changes, started>>
  /\ UNCHANGED <<cacheVars, task, at, room, count, mixed>>

-----------------------------------------------------------------------------
(* Tasks.                                                                   *)

\* classify_matrix_chat()
Classify(r, n, title) ==
  IF r \in directRooms \/ (n <= 2 /\ ~title) THEN "direct" ELSE "group"

\* Something is handled, be it at once.
Mixes == mixed' = (mixed \/ \E u \in Tasks : Busy(u))

\* Task t runs to its next await, with n as its member_count.
Await(t, what, n) ==
  /\ at' = [at EXCEPT ![t] = what]
  /\ count' = [count EXCEPT ![t] = n]
  /\ served' = [served EXCEPT ![t] = FALSE]

Begin(t, which, r, what, n) ==
  /\ ~Busy(t)
  /\ task' = [task EXCEPT ![t] = which]
  /\ room' = [room EXCEPT ![t] = r]
  /\ Await(t, what, n)
  /\ UNCHANGED answer

\* t returns.
End(t) ==
  /\ task' = [task EXCEPT ![t] = "free"]
  /\ at' = [at EXCEPT ![t] = "none"]
  /\ room' = [room EXCEPT ![t] = NoRoom]
  /\ count' = [count EXCEPT ![t] = 0]
  /\ served' = [served EXCEPT ![t] = FALSE]
  /\ answer' = [answer EXCEPT ![t] = NoAnswer]
  /\ UNCHANGED mixed

\* handle_message(): the count comes from the cache, the type too if it can.
HandleMessage(t, r) ==
  /\ \/ /\ memberCount[r] = 0
        /\ Begin(t, "message", r, "count", 0)
     \/ /\ memberCount[r] # 0
        /\ chatType[r] = "none"
        /\ Begin(t, "message", r, "title", memberCount[r])
     \/ /\ memberCount[r] # 0
        /\ chatType[r] # "none"
        /\ UNCHANGED <<task, at, room, count, served, answer>>
  /\ UNCHANGED cacheVars

\* Mutant: a member event does not count the members again.
BugHandleMember(t, r) ==
  /\ ~Busy(t)
  /\ chatType' = [chatType EXCEPT ![r] = "none"]
  /\ UNCHANGED <<directRooms, memberCount, task, at, room, count, served, answer>>

\* handle_member() for another member of a joined room, and for the own join.
HandleMember(t, r) ==
  /\ Begin(t, "member", r, "count", 0)
  /\ chatType' = [chatType EXCEPT ![r] = "none"]
  /\ UNCHANGED <<directRooms, memberCount>>

\* Mutant: a new title leaves the decision.
BugHandleMetadata(r) ==
  /\ UNCHANGED <<cacheVars, task, at, room, count, served, answer>>

HandleMetadata(r) ==
  /\ chatType' = [chatType EXCEPT ![r] = "none"]
  /\ UNCHANGED <<directRooms, memberCount, task, at, room, count, served, answer>>

HandleDirect(rooms) ==
  /\ directRooms' = rooms
  /\ chatType' = [r \in Rooms |-> "none"]
  /\ UNCHANGED <<memberCount, task, at, room, count, served, answer>>

Handle ==
  /\ sync # <<>>
  /\ LET event == Head(sync)
     IN  \/ event.type = "message" /\ \E t \in Tasks : HandleMessage(t, event.room)
         \/ event.type = "member" /\ \E t \in Tasks : HandleMember(t, event.room)
         \/ event.type = "metadata" /\ HandleMetadata(event.room)
         \/ event.type = "direct" /\ HandleDirect(event.rooms)
  /\ sync' = Tail(sync)
  /\ Mixes
  /\ UNCHANGED <<direct, wanted, stale, members, titled, crossed, changes, started, failures>>

\* get_chat, or one room of list_chats; accept_invite of a direct invite.
Command(t, which, r) ==
  /\ which \in {"get_chat", "mark"}
  /\ started < MaxTasks
  /\ started' = started + 1
  /\ Begin(t, which, r, "direct", 0)
  /\ Mixes
  /\ UNCHANGED <<direct, wanted, stale, members, titled, sync, crossed, changes, failures>>
  /\ UNCHANGED cacheVars

\* refresh_room_member_count(): an error counts two members.
ResumeCount(t) ==
  /\ at[t] = "count"
  /\ served[t]
  /\ LET n == answer[t].count
     IN  /\ memberCount' = [memberCount EXCEPT ![room[t]] = n]
         /\ \/ task[t] = "member" /\ End(t)
            \/ /\ task[t] = "message"
               /\ chatType[room[t]] # "none"
               /\ End(t)
            \/ /\ \/ task[t] = "get_chat"
                  \/ task[t] = "message" /\ chatType[room[t]] = "none"
               /\ Await(t, "title", n)
               /\ UNCHANGED <<task, room, answer, mixed>>
  /\ UNCHANGED <<serverVars, directRooms, chatType>>

\* The decision is taken with the count read before and with direct_room_ids
\* as they are now.
ResumeTitle(t) ==
  /\ at[t] = "title"
  /\ served[t]
  /\ chatType' = [chatType EXCEPT ![room[t]] = Classify(room[t], count[t], answer[t].titled)]
  /\ End(t)
  /\ UNCHANGED <<serverVars, directRooms, memberCount>>

\* refresh_direct_room_ids(): an error leaves what is known.
ResumeDirect(t) ==
  /\ at[t] = "direct"
  /\ task[t] = "get_chat"
  /\ served[t]
  /\ directRooms' = IF answer[t].ok THEN answer[t].direct ELSE directRooms
  /\ chatType' = IF answer[t].ok THEN [r \in Rooms |-> "none"] ELSE chatType
  /\ Await(t, "count", 0)
  /\ UNCHANGED <<serverVars, memberCount, task, room, answer, mixed>>

\* mark_room_direct() without anything to put.
MarkEnds(t) ==
  /\ directRooms' = directRooms \cup {room[t]}
  /\ chatType' = [chatType EXCEPT ![room[t]] = "direct"]
  /\ End(t)

\* mark_room_direct(): an error of the read counts as empty account data.
MarkGot(t) ==
  IF room[t] \in answer[t].direct
  THEN MarkEnds(t)
  ELSE Await(t, "put", 0) /\ UNCHANGED <<directRooms, chatType, task, room, answer, mixed>>

ResumeMark(t) ==
  /\ task[t] = "mark"
  /\ served[t]
  /\ \/ at[t] = "direct" /\ MarkGot(t)
     \/ at[t] = "put" /\ MarkEnds(t)
  /\ UNCHANGED <<serverVars, memberCount>>

-----------------------------------------------------------------------------

Next ==
  \/ \E r \in Active : MembersChange(r) \/ TitleChanges(r) \/ Say(r)
  \/ \E r \in Rooms : DirectChanges(r)
  \/ Handle
  \/ \E t \in Tasks, which \in {"get_chat", "mark"}, r \in Active : Command(t, which, r)
  \/ \E t \in Tasks :
       \/ ServeRead(t) \/ ServePut(t) \/ Fails(t)
       \/ ResumeCount(t) \/ ResumeTitle(t) \/ ResumeDirect(t) \/ ResumeMark(t)

Spec == Init /\ [][Next]_vars

-----------------------------------------------------------------------------
(* Properties.                                                              *)

Settled == sync = <<>> /\ \A t \in Tasks : ~Busy(t)

Calm == Settled /\ ~crossed /\ failures = 0

\* What README.md makes of a room as it is.
TypeOf(r) == IF r \in direct \/ (members[r] = 2 /\ ~titled[r]) THEN "direct" ELSE "group"

TypesAreRight == \A r \in Rooms : chatType[r] # "none" => chatType[r] = TypeOf(r)

\* False of this code where handlers interleave: the chat type follows m.direct,
\* unnamed two-member rooms remain a fallback, and named rooms are group chats
\* (README.md), when all is quiet, no request has failed and no answer was
\* overtaken.
TypeFollows == Calm => TypesAreRight

\* The type follows when handlers and commands have run one after the other.
TypeFollowsInTurn == Calm /\ ~mixed => TypesAreRight

\* Then direct_room_ids is what m.direct lists and each member count that is
\* known is right, however member events, messages, get_chat and accept_invite
\* cross.
CachesAgree ==
  Calm => directRooms = direct /\ \A r \in Rooms : memberCount[r] \in {0, members[r]}

\* A room that a client of the account listed in m.direct, and none unlisted
\* since, stays listed there and in direct_room_ids while accept_invite reads and
\* puts the whole of m.direct; unless what was read was an error, or was no longer
\* so at the put: then the put takes the other rooms out of m.direct.
DirectKept ==
  Settled /\ ~crossed /\ ~stale => wanted \subseteq direct /\ direct \subseteq directRooms

-----------------------------------------------------------------------------
(* The inductive strengthening the safety properties rest on.               *)

\* A task that awaits something is about a room, and awaits what its kind does.
TaskInv ==
  \A t \in Tasks :
    /\ Busy(t) <=> at[t] # "none"
    /\ Busy(t) => room[t] \in Rooms
    /\ served[t] => Busy(t)
    /\ task[t] = "message" => at[t] \in {"count", "title"}
    /\ task[t] = "member" => at[t] = "count"
    /\ task[t] = "get_chat" => at[t] \in {"direct", "count", "title"}
    /\ task[t] = "mark" => at[t] \in {"direct", "put"}

\* The events that no handler has taken: of a room, and those of m.direct.
Waiting(type, r) == {i \in DOMAIN sync : sync[i].type = type /\ sync[i].room = r}
WaitingDirect == {i \in DOMAIN sync : sync[i].type = "direct"}

\* m.direct lists what the clients listed, where each put had read it as it was.
WantedInv == ~stale => wanted = direct

\* The last of m.direct says what m.direct is.
LastInv ==
  \A i \in WaitingDirect : (\A j \in WaitingDirect : j <= i) => sync[i].rooms = direct

Undisturbed == ~crossed /\ failures = 0

\* An answer that waits to be handled says what still is.
AnswerAt(t) ==
  served[t] =>
    /\ ~crossed /\ at[t] = "direct" => answer[t] = NoAnswer \/ answer[t].direct = direct
    /\ Undisturbed =>
         /\ at[t] = "count" => answer[t].count = members[room[t]]
         /\ at[t] = "title" => answer[t].titled = titled[room[t]]
         /\ at[t] = "put" => room[t] \in direct

AnswerInv == \A t \in Tasks : AnswerAt(t)

\* direct_room_ids is right, or an event of m.direct waits.
DirectInv ==
  ~crossed /\ WaitingDirect = {} =>
    direct \subseteq directRooms /\ (failures = 0 => directRooms = direct)

\* So is a member count, or the members will be counted, or are being counted.
CountAt(r) ==
  \/ memberCount[r] \in {0, members[r]}
  \/ Waiting("member", r) # {}
  \/ \E t \in Tasks : at[t] = "count" /\ room[t] = r

CountInv == Undisturbed => \A r \in Rooms : CountAt(r)

\* Where nothing is handled while a task is under way, one task is.
TurnInv == ~mixed => \A t, u \in Tasks : Busy(t) /\ Busy(u) => t = u

\* Its count is right, or the event that will invalidate the type waits; and so
\* with every type that is known.
TypeInv ==
  Undisturbed /\ ~mixed =>
    /\ \A t \in Tasks :
         at[t] = "title" => count[t] = members[room[t]] \/ Waiting("member", room[t]) # {}
    /\ \A r \in Rooms :
         \/ chatType[r] \in {"none", TypeOf(r)}
         \/ Waiting("member", r) # {}
         \/ Waiting("metadata", r) # {}
         \/ WaitingDirect # {}

IInv ==
  TypeOK /\ TaskInv /\ WantedInv /\ LastInv /\ AnswerInv /\ DirectInv /\ CountInv /\ TurnInv /\ TypeInv
=============================================================================
