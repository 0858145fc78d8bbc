---------------------------- MODULE HistorySearch ----------------------------
(***************************************************************************)
(* search_history of the Matrix sidecar and the client that pages with it.  *)
(* A search visits a snapshot of rooms one after another and reads each     *)
(* from the homeserver in pages.  One call stops at the client's limit, at  *)
(* a scan budget, at its deadline or at an error, and hands back a cursor;  *)
(* the client repeats the call with it until nothing is left.  The          *)
(* homeserver's timelines grow and memberships change meanwhile, calls are  *)
(* cut off at any await, and responses are lost.                            *)
(*                                                                          *)
(* A room's timeline is a sequence of events, of which only whether one     *)
(* matches the query and dates (a hit) is kept.  A pagination token is a    *)
(* place between two events: the number of events before it.                *)
(***************************************************************************)
EXTENDS Integers, Sequences, FiniteSets

CONSTANTS
  NumRooms,         \* room ids are 1..NumRooms, in the order of sorted()
  Searches,         \* the searches a client may make: see Search
  PageSize,         \* the fixed page of 50
  RoomLimit,        \* maxMessagesPerChat
  ScanLimit,        \* the 2000 events of one call
  Limits,           \* the limits a client may ask for
  CursorLimit,      \* the length of the longest cursor the agent operation takes
  MaxEvents,        \* bound: the events of each room
  MaxFaults         \* bound: calls cut off, responses lost, rooms left

Rooms == 1..NumRooms
None == -1         \* no token, no end of page

\* The parameters of a search, which the cursor's digest ties to it: chatIds, {}
\* when all joined rooms are searched; the direction; and whether it starts at a
\* timestamp ("dated") or looks for one messageId ("exact").
Search ==
  [scope : SUBSET Rooms, forward : BOOLEAN, mode : {"plain", "dated", "exact"}]

ASSUME SearchAssumption ==
  /\ NumRooms \in Nat
  /\ Searches \subseteq Search
  /\ PageSize \in Nat \ {0}
  /\ RoomLimit \in Nat \ {0}
  /\ ScanLimit \in Nat \ {0}
  /\ Limits \subseteq Nat \ {0}
  /\ CursorLimit \in Nat
  /\ MaxEvents \in [Rooms -> Nat]
  /\ MaxFaults \in Nat

VARIABLES
  log,       \* the homeserver's timelines: per room, whether each event is a hit
  joined,    \* the rooms the account is joined to
  anchor,    \* per room, the event at the timestamp or with the message id; 0: none
  faults     \* how many faults have happened

serverVars == <<log, joined, anchor, faults>>

VARIABLES
  search,    \* the parameters of the client's search
  cursor,    \* the cursor the client holds (when done, kept as history)
  done,      \* it was told there is nothing more
  collected, \* the messages it was given, as <<room, position>>
  early      \* history: per room, the length of its timeline when the search began

clientVars == <<search, cursor, done, collected, early>>

VARIABLES
  phase,     \* what the running call does next
  st,        \* its copy of the cursor's state
  limit,
  matches,
  scanned,   \* scanned_messages
  roomScan,  \* scanned_room_messages
  page       \* the page it is working through

callVars == <<phase, st, limit, matches, scanned, roomScan, page>>

vars == <<log, joined, anchor, faults, search, cursor, done, collected, early,
          phase, st, limit, matches, scanned, roomScan, page>>

Scope == search.scope
Forward == search.forward
Mode == search.mode

Positions == UNION {1..MaxEvents[r] : r \in Rooms}
Timelines == UNION {[1..n -> BOOLEAN] : n \in Positions \cup {0}}
Message == Rooms \X Positions
RoomLists == UNION {[1..n -> Rooms] : n \in 0..NumRooms}
Cursor == [snapshot : BOOLEAN, rooms : RoomLists, room : 0..NumRooms,
           token : Positions \cup {0, None}, offset : 0..PageSize, initialized : BOOLEAN]
Page == [events : Seq(Positions), end : Positions \cup {0, None}]

FreshState ==
  [snapshot |-> FALSE, rooms |-> <<>>, room |-> 0, token |-> None, offset |-> 0,
   initialized |-> FALSE]

TypeOK ==
  /\ log \in [Rooms -> Timelines] /\ \A r \in Rooms : Len(log[r]) <= MaxEvents[r]
  /\ joined \in SUBSET Rooms
  /\ anchor \in [Rooms -> Positions \cup {0}]
  /\ faults \in 0..MaxFaults
  /\ search \in Searches
  /\ cursor \in Cursor
  /\ done \in BOOLEAN
  /\ collected \in Seq(Message)
  /\ early \in [Rooms -> Positions \cup {0}]
  /\ phase \in {"idle", "membership", "rooms", "room", "page"}
  /\ st \in Cursor
  /\ limit \in Limits \cup {0}
  /\ matches \in Seq(Message)
  /\ scanned \in Nat
  /\ roomScan \in Nat
  /\ page \in Page

NoPage == [events |-> <<>>, end |-> None]

Init ==
  /\ log \in [Rooms -> Timelines] /\ \A r \in Rooms : Len(log[r]) <= MaxEvents[r]
  /\ joined = Rooms
  /\ search \in Searches
  /\ anchor \in IF Mode = "plain" THEN {[r \in Rooms |-> 0]}
                ELSE [Rooms -> Positions \cup {0}]
  /\ \A r \in Rooms : anchor[r] <= Len(log[r])
  /\ faults = 0
  /\ cursor = FreshState
  /\ done = FALSE
  /\ collected = <<>>
  /\ early = [r \in Rooms |-> Len(log[r])]
  /\ phase = "idle"
  /\ st = FreshState
  /\ limit = 0
  /\ matches = <<>>
  /\ scanned = 0
  /\ roomScan = 0
  /\ page = NoPage

-----------------------------------------------------------------------------
(* The cursor.                                                              *)

\* sorted(): the sequence of a set of rooms in order, the only one in the set.
Sorted(S) ==
  {rooms \in [1..Cardinality(S) -> S] : \A i, j \in 1..Cardinality(S) : i < j => rooms[i] < rooms[j]}

\* decode_history_cursor(): the consistency it demands of a state.
DecodeOk(s) ==
  /\ s.room <= Len(s.rooms)
  /\ s.offset <= PageSize
  /\ (~s.snapshot \/ ~s.initialized \/ s.room = Len(s.rooms))
       => s.offset = 0 /\ s.token = None
  /\ ~s.snapshot => s.room = 0 /\ ~s.initialized

\* The length of the base64 text of the state's JSON, without its token: the keys
\* and the digest of the search's parameters (147), and for every room of the
\* snapshot a quoted id of a public homeserver ("!", 18 letters, ":matrix.org").
CursorLength(s) == ((147 + 33 * Len(s.rooms) + 2) \div 3) * 4

Current == st.rooms[st.room + 1]
RoomsLeft == st.room < Len(st.rooms)

\* state.update(room=state["room"] + 1, token=None, offset=0, initialized=False)
NextRoom(s) ==
  [s EXCEPT !.room = s.room + 1, !.token = None, !.offset = 0, !.initialized = FALSE]

-----------------------------------------------------------------------------
(* The homeserver.                                                          *)

\* GET /messages: up to PageSize events from a token on, and the token after
\* them.  The end of the timeline is told by no token or by one that an empty
\* page repeats.
Messages(r, token) ==
  LET from == IF token # None THEN token ELSE IF Forward THEN 0 ELSE Len(log[r])
      left == IF Forward THEN Len(log[r]) - from ELSE from
      size == IF left < PageSize THEN left ELSE PageSize
      event(i) == IF Forward THEN from + i ELSE from - i + 1
      after == IF Forward THEN from + size ELSE from - size
  IN  [start |-> from,
       page |-> {[events |-> [i \in 1..size |-> event(i)], end |-> e] :
                   e \in IF left > size THEN {after} ELSE {after, None}}]

\* The context of an event: the token from which the traversal goes on.
ContextToken(p) == IF Forward THEN p ELSE p - 1

Fault == faults < MaxFaults /\ faults' = faults + 1

Arrive(r) ==
  /\ Len(log[r]) < MaxEvents[r]
  /\ \E hit \in BOOLEAN : log' = [log EXCEPT ![r] = Append(@, hit)]
  /\ UNCHANGED <<joined, anchor, faults, clientVars, callVars>>

Leave(r) ==
  /\ r \in joined
  /\ Fault
  /\ joined' = joined \ {r}
  /\ UNCHANGED <<log, anchor, clientVars, callVars>>

Rejoin(r) ==
  /\ r \notin joined
  /\ joined' = joined \cup {r}
  /\ UNCHANGED <<log, anchor, faults, clientVars, callVars>>

-----------------------------------------------------------------------------
(* One call.                                                                *)

\* The agent operation refuses a cursor that is too long, and the sidecar one
\* that does not decode.
Accepted(s) == DecodeOk(s) /\ (s # FreshState => CursorLength(s) <= CursorLimit)

Begin ==
  /\ phase = "idle"
  /\ ~done
  /\ Accepted(cursor)
  /\ st' = cursor
  /\ limit' \in Limits
  /\ phase' = "membership"
  /\ UNCHANGED <<matches, scanned, roomScan, page, clientVars, serverVars>>

\* Mutant: the client is given its old cursor.
BugStaysBehind(exhausted) ==
  /\ collected' = collected \o matches
  /\ done' = exhausted
  /\ UNCHANGED cursor

\* The call ends: the client gets the matches and the cursor (none when the
\* search is exhausted), or the response is lost and it has neither.
Received(exhausted) ==
  /\ collected' = collected \o matches
  /\ cursor' = st
  /\ done' = exhausted

ResetCall ==
  /\ phase' = "idle"
  /\ st' = FreshState
  /\ limit' = 0
  /\ matches' = <<>>
  /\ scanned' = 0
  /\ roomScan' = 0
  /\ page' = NoPage
  /\ UNCHANGED <<search, early>>

Respond(exhausted) ==
  /\ Received(exhausted)
  /\ ResetCall

\* get_joined_rooms(): the snapshot of rooms is taken by the first call that
\* gets here; a call whose snapshot is no longer joined ends with an error.
Membership ==
  /\ phase = "membership"
  /\ \E rooms \in IF st.snapshot THEN {st.rooms}
                    ELSE Sorted(IF Scope # {} THEN Scope ELSE joined) :
         /\ \A i \in 1..Len(rooms) : rooms[i] \in joined
         /\ st' = [st EXCEPT !.snapshot = TRUE, !.rooms = rooms]
  /\ phase' = "rooms"
  /\ UNCHANGED <<limit, matches, scanned, roomScan, page, clientVars, serverVars>>

NoLongerJoined ==
  /\ phase = "membership"
  /\ \E rooms \in IF st.snapshot THEN {st.rooms} ELSE Sorted(Scope) :
         /\ \E i \in 1..Len(rooms) : rooms[i] \notin joined
         /\ cursor' = [st EXCEPT !.snapshot = TRUE, !.rooms = rooms]
  /\ UNCHANGED <<collected, done>>
  /\ ResetCall
  /\ UNCHANGED serverVars

\* The checks before a room, before a page and before an event.
Full ==
  \/ Len(matches) >= limit
  \/ scanned >= ScanLimit
  \/ phase # "rooms" /\ roomScan >= RoomLimit

EnterRoom ==
  /\ phase = "rooms"
  /\ RoomsLeft
  /\ ~Full
  /\ phase' = "room"
  /\ roomScan' = 0
  /\ UNCHANGED <<st, limit, matches, scanned, page, clientVars, serverVars>>

\* collect_event(): count the event and keep it if it matches.
Collect(p) ==
  /\ scanned' = scanned + 1
  /\ matches' = IF log[Current][p] THEN Append(matches, <<Current, p>>) ELSE matches

\* One message by its id: found or not, the room is done.
LookUpMessage ==
  /\ phase = "room"
  /\ Mode = "exact"
  /\ ~Full
  /\ IF anchor[Current] # 0 THEN Collect(anchor[Current]) ELSE UNCHANGED <<scanned, matches>>
  /\ st' = NextRoom(st)
  /\ phase' = "rooms"
  /\ UNCHANGED <<limit, roomScan, page, clientVars, serverVars>>

\* Mutant: the anchor is not collected, as if the page that follows had it.
BugAnchor ==
  /\ phase = "room"
  /\ Mode = "dated"
  /\ ~st.initialized
  /\ ~Full
  /\ anchor[Current] # 0
  /\ st' = [st EXCEPT !.token = ContextToken(anchor[Current]), !.initialized = TRUE]
  /\ UNCHANGED <<phase, roomScan, scanned, matches, limit, page, clientVars, serverVars>>

\* The event at the timestamp is collected once; the pages go on beyond it,
\* unless the homeserver gives no token because nothing is there.
Anchor ==
  /\ phase = "room"
  /\ Mode = "dated"
  /\ ~st.initialized
  /\ ~Full
  /\ anchor[Current] # 0
  /\ Collect(anchor[Current])
  /\ roomScan' = roomScan + 1
  /\ \/ /\ st' = [st EXCEPT !.token = ContextToken(anchor[Current]), !.initialized = TRUE]
        /\ UNCHANGED phase
     \/ /\ ContextToken(anchor[Current]) = IF Forward THEN Len(log[Current]) ELSE 0
        /\ st' = NextRoom(st)
        /\ phase' = "rooms"
  /\ UNCHANGED <<limit, page, clientVars, serverVars>>

\* Without an anchor, or when its lookup fails, the room is read from its end.
FromTheEnd ==
  /\ phase = "room"
  /\ Mode # "exact"
  /\ ~st.initialized
  /\ ~Full
  /\ st' = [st EXCEPT !.initialized = TRUE]
  /\ UNCHANGED <<phase, limit, matches, scanned, roomScan, page, clientVars, serverVars>>

ReadPage ==
  /\ phase = "room"
  /\ st.initialized
  /\ ~Full
  /\ LET answer == Messages(Current, st.token)
     IN  /\ page' \in answer.page
         /\ st' = [st EXCEPT !.token =
                     IF @ = None /\ page'.events # <<>> THEN answer.start ELSE @]
  /\ phase' = "page"
  /\ UNCHANGED <<limit, matches, scanned, roomScan, clientVars, serverVars>>

ScanEvent ==
  /\ phase = "page"
  /\ st.offset < Len(page.events)
  /\ ~Full
  /\ Collect(page.events[st.offset + 1])
  /\ st' = [st EXCEPT !.offset = @ + 1]
  /\ roomScan' = roomScan + 1
  /\ UNCHANGED <<phase, limit, page, clientVars, serverVars>>

\* Mutant: a page that repeats its token does not end the room.
BugFinishPage ==
  /\ phase = "page"
  /\ st.offset >= Len(page.events)
  /\ IF page.end = None
     THEN st' = NextRoom(st) /\ phase' = "rooms"
     ELSE st' = [st EXCEPT !.token = page.end, !.offset = 0] /\ phase' = "room"
  /\ page' = NoPage
  /\ UNCHANGED <<limit, matches, scanned, roomScan, clientVars, serverVars>>

\* The page is through: on to the next page, or to the next room.
FinishPage ==
  /\ phase = "page"
  /\ st.offset >= Len(page.events)
  /\ IF page.end = None \/ page.end = st.token
     THEN st' = NextRoom(st) /\ phase' = "rooms"
     ELSE st' = [st EXCEPT !.token = page.end, !.offset = 0] /\ phase' = "room"
  /\ page' = NoPage
  /\ UNCHANGED <<limit, matches, scanned, roomScan, clientVars, serverVars>>

\* page_limit or scan_limit
StopWhenFull ==
  /\ \/ phase = "rooms" /\ RoomsLeft
     \/ phase = "room"
     \/ phase = "page" /\ st.offset < Len(page.events)
  /\ Full
  /\ Respond(FALSE)
  /\ UNCHANGED serverVars

Exhausted ==
  /\ phase = "rooms"
  /\ ~RoomsLeft
  /\ Respond(TRUE)
  /\ UNCHANGED serverVars

\* The deadline, or an error of an awaited request: what was matched is returned
\* with the cursor of the last event that was processed.
CutOff ==
  /\ phase # "idle"
  /\ Fault
  /\ Respond(FALSE)
  /\ UNCHANGED <<log, joined, anchor>>

\* The provider's timeout, or a sidecar that exits: nothing reaches the client.
Lost ==
  /\ phase # "idle"
  /\ Fault
  /\ ResetCall
  /\ UNCHANGED <<cursor, done, collected, log, joined, anchor>>

CallStep ==
  \/ Membership \/ NoLongerJoined \/ EnterRoom \/ LookUpMessage \/ Anchor
  \/ FromTheEnd \/ ReadPage \/ ScanEvent \/ FinishPage \/ StopWhenFull \/ Exhausted

Next ==
  \/ Begin
  \/ CallStep
  \/ CutOff
  \/ Lost
  \/ \E r \in Rooms : Arrive(r) \/ Leave(r) \/ Rejoin(r)

Spec == Init /\ [][Next]_vars

\* A client follows the cursor while there is more, and a call goes on.
FairSpec == Spec /\ WF_vars(Begin) /\ WF_vars(CallStep)

-----------------------------------------------------------------------------
(* Properties.                                                              *)

IsHit(r, p) == p <= Len(log[r]) /\ log[r][p]

\* A cursor's state s is beyond event p of room r.
PassedBy(s, r, p) ==
  \/ \E i \in 1..Len(s.rooms) :
       /\ s.rooms[i] = r
       /\ i <= s.room
  \/ /\ s.room < Len(s.rooms)
     /\ s.rooms[s.room + 1] = r
     /\ s.token # None
     /\ IF Forward THEN p <= s.token + s.offset ELSE p > s.token - s.offset

Passed(r, p) == PassedBy(cursor, r, p)

\* The events of room r that the search must have looked at once it is past them:
\* those there when it began, from the anchor on.
Wanted(r, p) ==
  CASE Mode = "plain" -> p <= early[r]
    [] Mode = "exact" -> p = anchor[r]
    [] OTHER -> /\ p <= early[r]
                /\ anchor[r] # 0 => IF Forward THEN p >= anchor[r] ELSE p <= anchor[r]

IsIn(messages, r, p) == \E i \in 1..Len(messages) : messages[i] = <<r, p>>

IsCollected(r, p) == IsIn(collected, r, p)

\* Nothing is missed: whatever cut calls off, a hit the cursor has passed has
\* been handed to the client.  An exhausted search has passed every room.
NothingMissed ==
  \A r \in Rooms, p \in Positions :
    Passed(r, p) /\ Wanted(r, p) /\ IsHit(r, p) => IsCollected(r, p)

\* m is before n in the order of the traversal.
Before(m, n) ==
  \/ m[1] < n[1]
  \/ m[1] = n[1] /\ IF Forward THEN m[2] < n[2] ELSE m[2] > n[2]

\* No message is given twice, and they come in the native order of each room.
InOrderOnce ==
  \A i \in 1..Len(collected) - 1 : Before(collected[i], collected[i + 1])

\* False of this code from eight rooms on: an agent can follow nextCursor while
\* there is more (agent-operations.ts:975).
AgentCanFollow == done \/ cursor = FreshState \/ CursorLength(cursor) <= CursorLimit

\* A client that keeps following the cursor gets to the end, unless a room of
\* the snapshot stays left: every call that is not cut off makes progress.
SearchEnds == <>done \/ <>[](joined # Rooms)

-----------------------------------------------------------------------------
(* The inductive invariant of HistorySearch_proofs.                         *)

LogInv == \A r \in Rooms : early[r] <= Len(log[r]) /\ anchor[r] <= Len(log[r])

\* A cursor's state, the client's and a call's: its rooms are sorted, and its
\* token and offset are a place in its room's timeline.
StateInv(s) ==
  /\ s.room <= Len(s.rooms)
  /\ \A i, j \in 1..Len(s.rooms) : i < j => s.rooms[i] < s.rooms[j]
  /\ ~s.snapshot => s.room = 0 /\ ~s.initialized
  /\ s.initialized => s.room < Len(s.rooms) /\ Mode # "exact"
  /\ ~s.initialized => s.token = None
  /\ s.token = None => s.offset = 0
  /\ s.token # None =>
       IF Forward THEN s.token + s.offset <= Len(log[s.rooms[s.room + 1]])
                  ELSE s.offset <= s.token

\* The page is what follows the token, and tells rightly where the room ends.
PageInv ==
  LET size == Len(page.events)
  IN  /\ st.initialized
      /\ size <= PageSize /\ st.offset <= size
      /\ st.token = None => size = 0 /\ early[Current] = 0 /\ page.end \in {None, 0}
      /\ st.token # None =>
           /\ \A i \in 1..size : page.events[i] = IF Forward THEN st.token + i ELSE st.token - i + 1
           /\ page.end # None => page.end = IF Forward THEN st.token + size ELSE st.token - size
           /\ IF Forward THEN st.token + size <= Len(log[Current]) ELSE size <= st.token
           /\ page.end \in {None, st.token} =>
                IF Forward THEN early[Current] <= st.token + size ELSE size = st.token

PhaseInv ==
  /\ phase = "idle" => st = FreshState /\ matches = <<>>
  /\ phase = "membership" => st = cursor /\ matches = <<>>
  /\ phase \in {"room", "page"} => RoomsLeft
  /\ phase \notin {"idle", "membership"} => st.snapshot
  /\ phase = "page" => PageInv

\* What the call has passed it has, or the client had it before.
Covered ==
  \A r \in Rooms, p \in Positions :
    PassedBy(st, r, p) /\ Wanted(r, p) /\ IsHit(r, p) => IsCollected(r, p) \/ IsIn(matches, r, p)

\* What was given was passed.
AllPassed(messages, s) ==
  \A i \in 1..Len(messages) : PassedBy(s, messages[i][1], messages[i][2])

Ordered(messages) ==
  \A i, j \in 1..Len(messages) : i < j => Before(messages[i], messages[j])

OrderInv ==
  /\ AllPassed(collected, cursor)
  /\ phase # "idle" => AllPassed(collected, st) /\ AllPassed(matches, st)
  /\ Ordered(collected) /\ Ordered(matches)
  /\ \A i \in 1..Len(collected), j \in 1..Len(matches) : Before(collected[i], matches[j])

IInv ==
  /\ TypeOK
  /\ LogInv
  /\ StateInv(cursor) /\ StateInv(st)
  /\ PhaseInv
  /\ NothingMissed
  /\ Covered
  /\ OrderInv
=============================================================================
