-------------------------- MODULE SidecarMembership -------------------------
(***************************************************************************)
(* The sidecar's picture of the account's rooms: joined_rooms, which decides *)
(* whether a message is reported at all, pending_invites and                 *)
(* pending_direct_invites.  Three things write it: the member events of the  *)
(* sync stream, whose handlers run in the order of the stream; the commands  *)
(* accept, reject and leave, which change it when the homeserver's answer    *)
(* comes back; and every command that asks for the list of joined rooms.     *)
(* Meanwhile other members and the account's other devices act.              *)
(*                                                                           *)
(* A handler or a command runs without interruption from one await to the    *)
(* next, so a command is three steps: it sends its request, the homeserver   *)
(* serves it, and it resumes with the answer.                                *)
(***************************************************************************)
EXTENDS Naturals, Sequences

CONSTANTS
  Rooms,
  NoRoom,       \* the command names no room
  Commands,     \* the commands a consumer may give, each once
  Kinds,        \* the kinds it may choose from
  MaxTold,      \* bound: member events since the stored sync token
  MaxChanges,   \* bound: membership changes made by others
  MaxMessages   \* bound: messages sent by others

AllKinds == {"accept_invite", "reject_invite", "leave_chat", "list_chats", "get_chat"}

ASSUME RoomAssumption == NoRoom \notin Rooms

ASSUME InputAssumption ==
  /\ Kinds \subseteq AllKinds
  /\ MaxTold \in Nat
  /\ MaxChanges \in Nat
  /\ MaxMessages \in Nat

VARIABLES
  membership,  \* the account's membership at the homeserver
  isDirect,    \* the last invite to the room said is_direct
  sync,        \* the events of the sync stream that no handler has taken
  crossed,     \* history: rooms that changed while an answer was unhandled
  older,       \* history: rooms whose pending invite the stored sync token is past
  changes,
  messages

serverVars == <<membership, isDirect, sync, crossed, older, changes, messages>>

VARIABLES
  joined,          \* joined_rooms
  invites,         \* the keys of pending_invites
  directInvites,   \* the keys of pending_direct_invites
  missed           \* history: rooms whose messages were dropped while joined

sidecarVars == <<joined, invites, directInvites, missed>>

VARIABLES
  kind,     \* which command it is
  room,     \* its chatId or inviteId
  phase,    \* "unused", "sent", "served", "done"
  answer,   \* what the homeserver said
  listed    \* the joined rooms it said

commandVars == <<kind, room, phase, answer, listed>>

vars == <<membership, isDirect, sync, crossed, older, changes, messages, joined, invites,
          directInvites, missed, kind, room, phase, answer, listed>>

Event == [type : {"invite", "join", "leave", "message"}, room : Rooms, direct : BOOLEAN]

TypeOK ==
  /\ membership \in [Rooms -> {"leave", "invite", "join"}]
  /\ isDirect \in [Rooms -> BOOLEAN]
  /\ sync \in Seq(Event)
  /\ crossed \subseteq Rooms
  /\ older \subseteq Rooms
  /\ changes \in 0..MaxChanges
  /\ messages \in 0..MaxMessages
  /\ joined \subseteq Rooms
  /\ invites \subseteq Rooms
  /\ directInvites \subseteq Rooms
  /\ missed \subseteq Rooms
  /\ kind \in [Commands -> AllKinds \cup {"none"}]
  /\ room \in [Commands -> Rooms \cup {NoRoom}]
  /\ phase \in [Commands -> {"unused", "sent", "served", "done"}]
  /\ answer \in [Commands -> {"none", "ok", "error"}]
  /\ listed \in [Commands -> SUBSET Rooms]

MembersAs(m) == {r \in Rooms : membership[r] = m}

\* What the stream says of r as it stands.
Told(r) == [type |-> membership[r], room |-> r, direct |-> isDirect[r]]

\* connect() has just called client.start().  joined_rooms is what the homeserver
\* listed; pending_invites lives in memory only and starts empty, while the sync
\* goes on from the stored token: it tells of the rooms that changed since, and
\* an invite that an earlier process took from the stream does not come again.
Init ==
  /\ membership \in [Rooms -> {"leave", "invite", "join"}]
  /\ isDirect \in [Rooms -> BOOLEAN]
  /\ \A r \in Rooms : isDirect[r] => membership[r] = "invite"
  /\ \E n \in 0..MaxTold : \E rooms \in [1..n -> Rooms] :
       /\ sync = [i \in 1..n |-> Told(rooms[i])]
       /\ older = {r \in MembersAs("invite") : \A i \in 1..n : rooms[i] # r}
  /\ crossed = {}
  /\ changes = 0
  /\ messages = 0
  /\ joined = MembersAs("join")
  /\ invites = {}
  /\ directInvites = {}
  /\ missed = {}
  /\ kind = [c \in Commands |-> "none"]
  /\ room = [c \in Commands |-> NoRoom]
  /\ phase = [c \in Commands |-> "unused"]
  /\ answer = [c \in Commands |-> "none"]
  /\ listed = [c \in Commands |-> {}]

-----------------------------------------------------------------------------
(* The homeserver, other members, and the account's other devices.          *)

\* The account's membership in r becomes m, and the stream says so.
Becomes(r, m, d) ==
  /\ membership' = [membership EXCEPT ![r] = m]
  /\ isDirect' = [isDirect EXCEPT ![r] = d]
  /\ sync' = Append(sync, [type |-> m, room |-> r, direct |-> d])
  /\ crossed' = crossed \cup {q \in {r} : \E c \in Commands : phase[c] = "served"}
  /\ older' = older \ {r}

OthersChange(r, from, m, d) ==
  /\ changes < MaxChanges
  /\ membership[r] \in from
  /\ Becomes(r, m, d)
  /\ changes' = changes + 1
  /\ UNCHANGED <<messages, sidecarVars, commandVars>>

Invite(r) == \E d \in BOOLEAN : OthersChange(r, {"leave"}, "invite", d)
JoinElsewhere(r) == OthersChange(r, {"invite"}, "join", FALSE)
Removed(r) == OthersChange(r, {"invite", "join"}, "leave", FALSE)

Say(r) ==
  /\ messages < MaxMessages
  /\ membership[r] = "join"
  /\ messages' = messages + 1
  /\ sync' = Append(sync, [type |-> "message", room |-> r, direct |-> FALSE])
  /\ UNCHANGED <<membership, isDirect, crossed, older, changes, sidecarVars, commandVars>>

\* The homeserver serves c's request.
Serve(c) ==
  /\ phase[c] = "sent"
  /\ phase' = [phase EXCEPT ![c] = "served"]
  /\ LET r == room[c]
         answers(a) == answer' = [answer EXCEPT ![c] = a]
     IN  \/ /\ kind[c] = "accept_invite"
            /\ IF membership[r] = "invite"
               THEN Becomes(r, "join", FALSE)
               ELSE UNCHANGED <<membership, isDirect, sync, crossed, older>>
            /\ answers(IF membership[r] = "leave" THEN "error" ELSE "ok")
            /\ UNCHANGED listed
         \/ /\ kind[c] \in {"reject_invite", "leave_chat"}
            /\ IF membership[r] = "leave"
               THEN UNCHANGED <<membership, isDirect, sync, crossed, older>>
               ELSE Becomes(r, "leave", FALSE)
            \* leave_room() takes it for done when the account is not in the room.
            /\ answers("ok")
            /\ UNCHANGED listed
         \/ /\ kind[c] \in {"list_chats", "get_chat"}
            /\ listed' = [listed EXCEPT ![c] = MembersAs("join")]
            /\ answers("ok")
            /\ UNCHANGED <<membership, isDirect, sync, crossed, older>>
  /\ UNCHANGED <<changes, messages, sidecarVars, kind, room>>

\* The request or its answer is lost; the homeserver may have served it.
Fails(c) ==
  /\ phase[c] \in {"sent", "served"}
  /\ answer[c] # "error"
  /\ phase' = [phase EXCEPT ![c] = "served"]
  /\ answer' = [answer EXCEPT ![c] = "error"]
  /\ UNCHANGED <<serverVars, sidecarVars, kind, room, listed>>

-----------------------------------------------------------------------------
(* The handlers of sync events, up to their first await.                    *)

HandleInvite(r, d) ==
  /\ invites' = invites \cup {r}
  /\ directInvites' = IF d THEN directInvites \cup {r} ELSE directInvites \ {r}
  /\ UNCHANGED <<joined, missed>>

\* Mutants: a join leaves the invite pending; a join is left to accept_invite.
BugJoinKeepsInvite(r) ==
  /\ joined' = joined \cup {r}
  /\ UNCHANGED <<invites, directInvites, missed>>

BugJoinIgnored(r) ==
  /\ invites' = invites \ {r}
  /\ UNCHANGED <<joined, directInvites, missed>>

HandleJoin(r) ==
  /\ invites' = invites \ {r}
  /\ joined' = joined \cup {r}
  /\ UNCHANGED <<directInvites, missed>>

HandleLeave(r) ==
  /\ invites' = invites \ {r}
  /\ directInvites' = directInvites \ {r}
  /\ joined' = joined \ {r}
  /\ UNCHANGED missed

\* should_skip_message(): a message of a room not in joined_rooms is dropped,
\* which is a miss unless the account has left the room meanwhile.
HandleMessage(r) ==
  /\ missed' =
       IF \/ r \in joined
          \/ membership[r] # "join"
          \/ \E i \in DOMAIN sync : sync[i].room = r /\ sync[i].type = "leave"
       THEN missed ELSE missed \cup {r}
  /\ UNCHANGED <<joined, invites, directInvites>>

Handle ==
  /\ sync # <<>>
  /\ LET event == Head(sync)
     IN  \/ event.type = "invite" /\ HandleInvite(event.room, event.direct)
         \/ event.type = "join" /\ HandleJoin(event.room)
         \/ event.type = "leave" /\ HandleLeave(event.room)
         \/ event.type = "message" /\ HandleMessage(event.room)
  /\ sync' = Tail(sync)
  /\ UNCHANGED <<membership, isDirect, crossed, older, changes, messages, commandVars>>

-----------------------------------------------------------------------------
(* Commands.                                                                *)

\* Every command but list_chats names a room; get_chat asks for the list only
\* when it does not know the room.
Begin(c) ==
  /\ phase[c] = "unused"
  /\ \E k \in Kinds, r \in Rooms \cup {NoRoom} :
       /\ r = NoRoom <=> k = "list_chats"
       /\ kind' = [kind EXCEPT ![c] = k]
       /\ room' = [room EXCEPT ![c] = r]
       /\ phase' = [phase EXCEPT ![c] = IF k = "get_chat" /\ r \in joined THEN "done" ELSE "sent"]
  /\ UNCHANGED <<serverVars, sidecarVars, answer, listed>>

\* Mutant: the room asked for is added.
BugRefreshedWithRoom(c) == listed[c] \cup {room[c]}

\* self.joined_rooms = set(...)
Refreshed(c) == listed[c]

Accepted(c) ==
  /\ invites' = invites \ {room[c]}
  /\ directInvites' = directInvites \ {room[c]}
  /\ joined' = joined \cup {room[c]}

\* Mutants: the invite is popped before the request is known to have succeeded;
\* accept_invite takes the mark out when it reads it.
BugFailedPops(c) ==
  /\ invites' = invites \ {room[c]}
  /\ UNCHANGED <<joined, directInvites>>

BugFailedUnmarks(c) ==
  /\ directInvites' = directInvites \ {room[c]}
  /\ UNCHANGED <<joined, invites>>

\* An error of the request is thrown, and nothing after the await runs.
Failed(c) ==
  UNCHANGED <<joined, invites, directInvites>>

Resume(c) ==
  /\ phase[c] = "served"
  /\ phase' = [phase EXCEPT ![c] = "done"]
  /\ answer' = [answer EXCEPT ![c] = "none"]
  /\ listed' = [listed EXCEPT ![c] = {}]
  /\ \/ /\ answer[c] = "error"
        /\ Failed(c)
     \/ /\ answer[c] = "ok"
        /\ \/ kind[c] = "accept_invite" /\ Accepted(c)
           \/ /\ kind[c] = "reject_invite"
              /\ invites' = invites \ {room[c]}
              /\ directInvites' = directInvites \ {room[c]}
              /\ UNCHANGED joined
           \/ /\ kind[c] = "leave_chat"
              /\ joined' = joined \ {room[c]}
              /\ UNCHANGED <<invites, directInvites>>
           \/ /\ kind[c] \in {"list_chats", "get_chat"}
              /\ joined' = Refreshed(c)
              /\ UNCHANGED <<invites, directInvites>>
  /\ UNCHANGED <<serverVars, missed, kind, room>>

-----------------------------------------------------------------------------

Next ==
  \/ \E r \in Rooms : Invite(r) \/ JoinElsewhere(r) \/ Removed(r) \/ Say(r)
  \/ Handle
  \/ \E c \in Commands : Begin(c) \/ Serve(c) \/ Fails(c) \/ Resume(c)

Spec == Init /\ [][Next]_vars

-----------------------------------------------------------------------------
(* Properties.                                                              *)

CaughtUp == sync = <<>>
Idle == \A c \in Commands : phase[c] \notin {"sent", "served"}

\* A pending invite that is listed is one, however commands and events cross:
\* once the stream is handled, every listed invite is one at the homeserver.
NoGhostInvite ==
  CaughtUp => invites \subseteq MembersAs("invite")

\* The mark that makes an accepted room a direct one is that of the invite
\* which is pending, and not of an earlier invite to the same room.
MarkIsOfInvite ==
  CaughtUp => \A r \in invites : r \in directInvites <=> isDirect[r]

\* False of this code: pending invites are visible
\* (docs/features/intentional-invite-membership.md).  After a restart those the
\* process before had seen are not, nor is one that crosses an answer.
InvitesVisible ==
  CaughtUp /\ Idle => MembersAs("invite") \subseteq invites

\* An invite that came since the stored sync token is visible, in whatever order
\* commands, answers and events are handled, in a room that did not change again
\* between an answer and its handling.
UncrossedInvitesVisible ==
  CaughtUp /\ Idle => MembersAs("invite") \subseteq invites \cup older \cup crossed

\* Such a room is in joined_rooms exactly when the account is in it.
JoinedAgrees ==
  CaughtUp /\ Idle => \A r \in Rooms \ crossed : r \in joined <=> membership[r] = "join"

\* And none of its messages is dropped while the account is in it.
NothingDropped == missed \subseteq crossed

-----------------------------------------------------------------------------
(* The inductive strengthening the safety properties rest on.               *)

\* The positions of the member events of r that no handler has taken.
Pending(r) == {i \in DOMAIN sync : sync[i].room = r /\ sync[i].type # "message"}

\* The last of them says what the homeserver's membership is.
LastInv ==
  \A r \in Rooms : \A i \in Pending(r) :
    (\A j \in Pending(r) : j <= i)
      => sync[i].type = membership[r] /\ sync[i].direct = isDirect[r]

\* A room whose events are all handled is listed as an invite only if it is one.
HandledInv ==
  \A r \in Rooms : Pending(r) = {} /\ r \in invites =>
    membership[r] = "invite" /\ (r \in directInvites <=> isDirect[r])

\* A command under way that names a room has one.
RoomInv ==
  \A c \in Commands :
    phase[c] \in {"sent", "served"} /\ kind[c] # "list_chats" => room[c] \in Rooms

IInv == TypeOK /\ RoomInv /\ LastInv /\ HandledInv

\* The events of r and of one type that no handler has taken.
Waiting(r, type) == {i \in DOMAIN sync : sync[i].room = r /\ sync[i].type = type}

\* An answer says what the homeserver still has, unless its room has changed.
AnswerOf(c) ==
  \A r \in Rooms \ crossed :
    phase[c] = "served" /\ answer[c] = "ok" =>
      /\ kind[c] = "accept_invite" /\ room[c] = r => membership[r] = "join"
      /\ kind[c] \in {"reject_invite", "leave_chat"} /\ room[c] = r => membership[r] = "leave"
      /\ kind[c] \in {"list_chats", "get_chat"} => (r \in listed[c] <=> membership[r] = "join")

AnswerInv == \A c \in Commands : AnswerOf(c)

\* A join or leave that is no longer so is followed by one that is; a message
\* lies after the account's join of its room and before the next leave.
OrderAt(r) ==
  /\ membership[r] = "join" =>
       \A i \in Waiting(r, "leave") : \E j \in Waiting(r, "join") : j > i
  /\ membership[r] # "join" =>
       \A i \in Waiting(r, "join") : \E j \in Waiting(r, "leave") : j > i
  /\ membership[r] = "invite" =>
       \A i \in Waiting(r, "join") \cup Waiting(r, "leave") : \E j \in Waiting(r, "invite") : j > i
  /\ \A m \in Waiting(r, "message") :
       /\ \A i \in Waiting(r, "leave") :
            i < m => \E j \in Waiting(r, "join") : i < j /\ j < m
       /\ membership[r] = "join" \/ \E j \in Waiting(r, "leave") : j > m

\* What the sidecar has of a room is right, or an event that puts it right waits.
PictureAt(r) ==
  /\ membership[r] = "join" => r \in joined \/ Waiting(r, "join") # {}
  /\ membership[r] # "join" => r \notin joined \/ Waiting(r, "leave") # {}
  /\ membership[r] = "invite" => r \in invites \cup older \/ Waiting(r, "invite") # {}
  /\ \A m \in Waiting(r, "message") :
       \/ r \in joined
       \/ \E j \in Waiting(r, "join") : j < m
       \/ \E j \in Waiting(r, "leave") : j > m

PictureInv ==
  /\ AnswerInv
  /\ \A r \in Rooms : OrderAt(r)
  /\ \A r \in Rooms \ crossed : PictureAt(r)
  /\ missed \subseteq crossed
=============================================================================
