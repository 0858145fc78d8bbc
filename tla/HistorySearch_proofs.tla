------------------------ MODULE HistorySearch_proofs ------------------------
(***************************************************************************)
(* Proofs about HistorySearch for any rooms, timelines, searches and limits, *)
(* with calls cut off and responses lost at any of their steps.              *)
(***************************************************************************)
EXTENDS HistorySearch, TLAPS, FiniteSetTheorems, SequenceTheorems

-----------------------------------------------------------------------------
(* Places in timelines.                                                     *)

Places == Positions \cup {0}

LEMMA PlaceFacts ==
  /\ Positions \subseteq Nat \ {0}
  /\ \A r \in Rooms, n \in Nat : n <= MaxEvents[r] => n \in Places
  /\ \A p \in Positions, n \in Nat : n <= p => n \in Places
<1>1. \A r \in Rooms : MaxEvents[r] \in Nat
  BY SearchAssumption
<1>2. Positions \subseteq Nat \ {0}
  BY <1>1 DEF Positions
<1>3. \A r \in Rooms, n \in Nat : n <= MaxEvents[r] => n \in Places
  BY <1>1 DEF Positions, Places
<1>4. \A p \in Positions, n \in Nat : n <= p => n \in Places
  BY <1>1 DEF Positions, Places
<1> QED
  BY <1>2, <1>3, <1>4

LEMMA ListsAreSeqs ==
  ASSUME NEW S, NEW n \in Nat, NEW f \in [1..n -> S]
  PROVE  f \in Seq(S) /\ Len(f) = n
OBVIOUS

LEMMA LogFacts ==
  ASSUME TypeOK, NEW r \in Rooms
  PROVE  /\ log[r] \in Seq(BOOLEAN) /\ Len(log[r]) \in Nat
         /\ 0..Len(log[r]) \subseteq Places /\ 1..Len(log[r]) \subseteq Positions
<1>1. log[r] \in Timelines /\ Len(log[r]) <= MaxEvents[r]
  BY DEF TypeOK
<1>2. PICK n \in Places : log[r] \in [1..n -> BOOLEAN]
  BY <1>1 DEF Timelines, Places
<1>3. n \in Nat
  BY PlaceFacts DEF Places
<1>4. log[r] \in Seq(BOOLEAN) /\ Len(log[r]) \in Nat
  BY <1>2, <1>3, ListsAreSeqs
<1>5. MaxEvents[r] \in Nat
  BY SearchAssumption
<1>6. \A k \in Nat : k <= Len(log[r]) => k \in Places
  BY <1>1, <1>4, <1>5, PlaceFacts
<1>7. 1..Len(log[r]) \subseteq Positions
  BY <1>4, <1>6 DEF Places
<1> QED
  BY <1>4, <1>6, <1>7

\* The rooms of a snapshot.
LEMMA SortedFacts ==
  ASSUME NEW S \in SUBSET Rooms, NEW rooms \in Sorted(S)
  PROVE  /\ rooms \in RoomLists
         /\ \A i, j \in 1..Len(rooms) : i < j => rooms[i] < rooms[j]
<1>1. IsFiniteSet(S) /\ Cardinality(S) \in Nat /\ Cardinality(S) <= NumRooms
  <2>1. NumRooms \in Nat
    BY SearchAssumption
  <2>2. IsFiniteSet(1..NumRooms) /\ Cardinality(1..NumRooms) = NumRooms
    <3>1. /\ IsFiniteSet(1..NumRooms)
          /\ Cardinality(1..NumRooms) = IF 1 > NumRooms THEN 0 ELSE NumRooms - 1 + 1
      BY <2>1, FS_Interval
    <3> QED
      BY <2>1, <3>1
  <2>3. IsFiniteSet(S) /\ Cardinality(S) <= Cardinality(1..NumRooms)
    BY <2>2, FS_Subset DEF Rooms
  <2> QED
    BY <2>2, <2>3, FS_CardinalityType
<1>2. rooms \in [1..Cardinality(S) -> S]
  BY DEF Sorted
<1>3. rooms \in Seq(S) /\ Len(rooms) = Cardinality(S)
  BY <1>1, <1>2, ListsAreSeqs
<1>4. rooms \in RoomLists
  BY <1>1, <1>2, SearchAssumption DEF RoomLists
<1> QED
  BY <1>3, <1>4 DEF Sorted

LEMMA RoomListFacts ==
  ASSUME NEW rooms \in RoomLists
  PROVE  rooms \in Seq(Rooms) /\ Len(rooms) \in 0..NumRooms
<1>1. PICK n \in 0..NumRooms : rooms \in [1..n -> Rooms]
  BY DEF RoomLists
<1> QED
  BY <1>1, SearchAssumption, ListsAreSeqs

\* What the homeserver answers from a place of room r on, of which k events
\* may have been read before.
LEMMA PageArithmetic ==
  ASSUME NEW len \in Nat, NEW from \in Nat, NEW k \in Nat, NEW max \in Nat \ {0},
         NEW forward \in BOOLEAN, NEW left, NEW size, NEW after,
         forward => from + k <= len, ~forward => k <= from, k <= max,
         left = IF forward THEN len - from ELSE from,
         size = IF left < max THEN left ELSE max,
         after = IF forward THEN from + size ELSE from - size
  PROVE  /\ left \in Nat /\ size \in Nat /\ after \in Nat
         /\ size <= max /\ size <= left /\ k <= size
         /\ size = 0 \/ ~(left > size) => left = size
         /\ forward => after <= len /\ from + left = len
         /\ ~forward => after <= from /\ left = from
<1>1. CASE forward
  BY <1>1
<1>2. CASE ~forward
  BY <1>2
<1> QED
  BY <1>1, <1>2

LEMMA MessagesFacts ==
  ASSUME TypeOK, NEW r \in Rooms, NEW token \in Places \cup {None}, NEW k \in Nat,
         token # None => IF Forward THEN token + k <= Len(log[r]) ELSE k <= token,
         token = None => k = 0,
         k <= PageSize,
         NEW answer \in Messages(r, token).page
  PROVE  LET from == Messages(r, token).start
             size == Len(answer.events)
         IN  /\ from \in Places /\ (token # None => from = token)
             /\ token = None => from = IF Forward THEN 0 ELSE Len(log[r])
             /\ answer \in Page
             /\ size \in Nat /\ size <= PageSize /\ k <= size
             /\ \A i \in 1..size : answer.events[i] = IF Forward THEN from + i ELSE from - i + 1
             /\ answer.end # None => answer.end = IF Forward THEN from + size ELSE from - size
             /\ IF Forward THEN from + size <= Len(log[r]) ELSE size <= from
             /\ size = 0 \/ answer.end = None
                  => IF Forward THEN from + size = Len(log[r]) ELSE from = size
<1> DEFINE len == Len(log[r])
           from == IF token # None THEN token ELSE IF Forward THEN 0 ELSE len
           left == IF Forward THEN len - from ELSE from
           size == IF left < PageSize THEN left ELSE PageSize
           event(i) == IF Forward THEN from + i ELSE from - i + 1
           after == IF Forward THEN from + size ELSE from - size
           events == [i \in 1..size |-> event(i)]
<1>1. /\ len \in Nat /\ len \in Places /\ Places \subseteq Nat /\ PageSize \in Nat \ {0}
      /\ None \notin Nat /\ Forward \in BOOLEAN
  <2>1. Forward \in BOOLEAN
    BY SearchAssumption DEF TypeOK, Search, Forward
  <2>2. len \in Nat /\ len \in Places
    BY LogFacts
  <2> QED
    BY <2>1, <2>2, PlaceFacts, SearchAssumption DEF Places, None
<1>2. /\ Messages(r, token).start = from
      /\ \E e \in IF left > size THEN {after} ELSE {after, None} :
           answer = [events |-> events, end |-> e]
  BY DEF Messages
<1>3. PICK e \in IF left > size THEN {after} ELSE {after, None} :
        answer = [events |-> events, end |-> e]
  BY <1>2
<1>5. /\ from \in Places /\ from \in Nat
      /\ Forward => from + k <= len
      /\ ~Forward => k <= from
      /\ token # None => from = token
      /\ token = None => from = IF Forward THEN 0 ELSE len
  <2>1. CASE token = None
    <3>1. 0 \in Places
      BY DEF Places
    <3> QED
      BY <1>1, <2>1, <3>1
  <2>2. CASE token # None
    BY <1>1, <2>2
  <2> QED
    BY <2>1, <2>2
<1> HIDE DEF from, len
<1>6. /\ left \in Nat /\ size \in Nat /\ after \in Nat
      /\ size <= PageSize /\ size <= left /\ k <= size
      /\ size = 0 \/ ~(left > size) => left = size
      /\ Forward => after <= len /\ from + left = len
      /\ ~Forward => after <= from /\ left = from
  <2> DEFINE l == left
             z == size
             a == after
  <2>1. /\ l = IF Forward THEN len - from ELSE from
        /\ z = IF l < PageSize THEN l ELSE PageSize
        /\ a = IF Forward THEN from + z ELSE from - z
    OBVIOUS
  <2> HIDE DEF l, z, a
  <2>2. /\ l \in Nat /\ z \in Nat /\ a \in Nat
        /\ z <= PageSize /\ z <= l /\ k <= z
        /\ z = 0 \/ ~(l > z) => l = z
        /\ Forward => a <= len /\ from + l = len
        /\ ~Forward => a <= from /\ l = from
    BY <1>1, <1>5, <2>1, PageArithmetic
  <2> USE DEF l, z, a
  <2> QED
    BY <2>2
<1>7. after = IF Forward THEN from + size ELSE from - size
  OBVIOUS
<1> HIDE DEF left, size, after
<1>8. \A n \in Nat : n <= len \/ n <= from => n \in Places
  BY <1>1, <1>5, PlaceFacts DEF Places
<1>9. \A i \in 1..size : event(i) \in Positions
  <2> SUFFICES ASSUME NEW i \in 1..size
               PROVE  event(i) \in Nat \ {0} /\ event(i) \in Places
    BY DEF Places
  <2>1. CASE Forward
    <3>1. from + i \in Nat \ {0} /\ from + i <= len
      BY <1>1, <1>5, <1>6, <2>1
    <3> QED
      BY <1>8, <2>1, <3>1
  <2>2. CASE ~Forward
    <3>1. from - i + 1 \in Nat \ {0} /\ from - i + 1 <= from
      BY <1>1, <1>5, <1>6, <2>2
    <3> QED
      BY <1>8, <2>2, <3>1
  <2> QED
    BY <2>1, <2>2
<1>10. after \in Places
  BY <1>6, <1>8
<1>11. \A i \in 1..size : events[i] = IF Forward THEN from + i ELSE from - i + 1
  OBVIOUS
<1>12. events \in Seq(Positions) /\ Len(events) = size
  <2> HIDE DEF event
  <2>1. events \in [1..size -> Positions]
    BY <1>9
  <2> HIDE DEF events
  <2> QED
    BY <1>6, <2>1, ListsAreSeqs
<1> HIDE DEF events
<1>13. answer.events = events /\ answer.end = e
  BY <1>3
<1>14. e \in Positions \cup {0, None}
  BY <1>3, <1>10 DEF Places
<1>15. answer \in Page
  BY <1>3, <1>12, <1>14 DEF Page
<1>16. e # None => e = after
  BY <1>3
<1>17. e = None => left = size
  <2>1. e = None => ~(left > size)
    BY <1>1, <1>3, <1>6
  <2> QED
    BY <1>6, <2>1
<1>18. (size = 0 \/ e = None) => IF Forward THEN from + size = len ELSE from = size
  BY <1>6, <1>17
<1>19. IF Forward THEN from + size <= len ELSE size <= from
  BY <1>1, <1>5, <1>6
<1> QED
  BY <1>2, <1>5, <1>6, <1>7, <1>11, <1>12, <1>13, <1>15, <1>16, <1>18, <1>19 DEF len

-----------------------------------------------------------------------------
(* What a cursor's state has passed.                                        *)

RoomOf(s) == s.rooms[s.room + 1]

PassedRoom(s, r) == \E i \in 1..Len(s.rooms) : s.rooms[i] = r /\ i <= s.room

PassedPlace(s, p) ==
  s.token # None /\ IF Forward THEN p <= s.token + s.offset ELSE p > s.token - s.offset

LEMMA CursorFacts ==
  ASSUME NEW s \in Cursor
  PROVE  /\ s.rooms \in Seq(Rooms) /\ Len(s.rooms) \in 0..NumRooms /\ NumRooms \in Nat
         /\ s.room \in Nat /\ s.room \in 0..NumRooms
         /\ s.offset \in Nat /\ s.offset <= PageSize /\ PageSize \in Nat
         /\ s.token \in Places \cup {None} /\ (s.token # None => s.token \in Nat)
         /\ s.room < Len(s.rooms) => RoomOf(s) \in Rooms
         /\ s.snapshot \in BOOLEAN /\ s.initialized \in BOOLEAN
<1>1. s.rooms \in RoomLists /\ s.room \in 0..NumRooms /\ s.offset \in 0..PageSize
      /\ s.token \in Places \cup {None} /\ s.snapshot \in BOOLEAN /\ s.initialized \in BOOLEAN
  BY DEF Cursor, Places
<1>2. NumRooms \in Nat /\ PageSize \in Nat
  BY SearchAssumption
<1>3. s.rooms \in Seq(Rooms) /\ Len(s.rooms) \in 0..NumRooms
  BY <1>1, RoomListFacts
<1>4. s.token # None => s.token \in Nat
  <2>1. Places \subseteq Nat
    BY PlaceFacts DEF Places
  <2> QED
    BY <1>1, <2>1
<1>5. s.room < Len(s.rooms) => RoomOf(s) \in Rooms
  BY <1>1, <1>2, <1>3 DEF RoomOf
<1> QED
  BY <1>1, <1>2, <1>3, <1>4, <1>5

LEMMA PassedParts ==
  ASSUME NEW s, s.room < Len(s.rooms), NEW r, NEW p
  PROVE  PassedBy(s, r, p) <=> PassedRoom(s, r) \/ (r = RoomOf(s) /\ PassedPlace(s, p))
BY DEF PassedBy, PassedRoom, PassedPlace, RoomOf

LEMMA PassedRoomsAreBefore ==
  ASSUME NEW s \in Cursor, StateInv(s), s.room < Len(s.rooms), NEW r, PassedRoom(s, r)
  PROVE  r < RoomOf(s)
<1>1. PICK i \in 1..Len(s.rooms) : s.rooms[i] = r /\ i <= s.room
  BY DEF PassedRoom
<1>2. s.room + 1 \in 1..Len(s.rooms) /\ i < s.room + 1
  BY <1>1, CursorFacts
<1> QED
  BY <1>1, <1>2 DEF StateInv, RoomOf

LEMMA MessageFacts ==
  ASSUME NEW m \in Message
  PROVE  m[1] \in Rooms /\ m[2] \in Positions
BY DEF Message

\* A message that is found where s stands comes after all that s has passed.
LEMMA NewIsLater ==
  ASSUME NEW s \in Cursor, StateInv(s), s.room < Len(s.rooms),
         NEW m \in Message, PassedBy(s, m[1], m[2]),
         NEW q \in Positions, ~PassedPlace(s, q)
  PROVE  Before(m, <<RoomOf(s), q>>)
<1>1. CASE PassedRoom(s, m[1])
  BY <1>1, PassedRoomsAreBefore DEF Before
<1>2. CASE m[1] = RoomOf(s) /\ PassedPlace(s, m[2])
  <2>1. IF Forward THEN m[2] < q ELSE m[2] > q
    <3>1. s.token \in Nat /\ s.offset \in Nat /\ m[2] \in Nat /\ q \in Nat
      BY <1>2, CursorFacts, PlaceFacts, MessageFacts DEF PassedPlace
    <3> QED
      BY <1>2, <3>1 DEF PassedPlace
  <2> QED
    BY <1>2, <2>1 DEF Before
<1> QED
  BY <1>1, <1>2, PassedParts

LEMMA NextRoomFacts ==
  ASSUME NEW s \in Cursor, StateInv(s), s.room < Len(s.rooms), s.snapshot
  PROVE  LET next == NextRoom(s)
         IN  /\ next \in Cursor /\ StateInv(next) /\ next.snapshot
             /\ \A r \in Rooms, p \in Positions :
                  PassedBy(next, r, p) <=> PassedBy(s, r, p) \/ r = RoomOf(s)
<1> DEFINE next == NextRoom(s)
<1>1. /\ next.rooms = s.rooms /\ next.room = s.room + 1 /\ next.token = None
      /\ next.offset = 0 /\ ~next.initialized /\ next.snapshot
  BY DEF NextRoom, Cursor
<1>2. s.room + 1 \in 0..NumRooms /\ s.room + 1 <= Len(s.rooms) /\ s.room \in Nat
      /\ Len(s.rooms) \in Nat
  BY CursorFacts
<1>3. next \in Cursor
  <2>1. s.rooms \in RoomLists /\ s.snapshot \in BOOLEAN
    BY DEF Cursor
  <2>2. 0 \in 0..PageSize
    BY SearchAssumption
  <2> QED
    BY <1>2, <2>1, <2>2 DEF Cursor, NextRoom
<1> HIDE DEF next
<1>4. StateInv(next)
  BY <1>1, <1>2 DEF StateInv
<1>5. ASSUME NEW r \in Rooms, NEW p \in Positions
      PROVE  PassedBy(next, r, p) <=> PassedBy(s, r, p) \/ r = RoomOf(s)
  <2>1. PassedBy(next, r, p) <=> PassedRoom(next, r)
    BY <1>1 DEF PassedBy, PassedRoom
  <2>2. PassedRoom(next, r) <=> PassedRoom(s, r) \/ r = RoomOf(s)
    <3>1. ASSUME PassedRoom(next, r), r # RoomOf(s)  PROVE PassedRoom(s, r)
      <4>1. PICK i \in 1..Len(s.rooms) : s.rooms[i] = r /\ i <= s.room + 1
        BY <1>1, <3>1 DEF PassedRoom
      <4>2. i # s.room + 1
        BY <3>1, <4>1 DEF RoomOf
      <4> QED
        BY <1>2, <4>1, <4>2 DEF PassedRoom
    <3>2. ASSUME PassedRoom(s, r)  PROVE PassedRoom(next, r)
      <4>1. PICK i \in 1..Len(s.rooms) : s.rooms[i] = r /\ i <= s.room
        BY <3>2 DEF PassedRoom
      <4>2. i <= s.room + 1
        BY <1>2, <4>1
      <4> QED
        BY <1>1, <4>1, <4>2 DEF PassedRoom
    <3>3. ASSUME r = RoomOf(s)  PROVE PassedRoom(next, r)
      <4>1. s.room + 1 \in 1..Len(s.rooms)
        BY <1>2
      <4> QED
        BY <1>1, <1>2, <3>3, <4>1 DEF PassedRoom, RoomOf
    <3> QED
      BY <3>1, <3>2, <3>3
  <2>3. PassedBy(s, r, p) => PassedRoom(s, r) \/ r = RoomOf(s)
    BY PassedParts
  <2>4. PassedRoom(s, r) => PassedBy(s, r, p)
    BY PassedParts
  <2> QED
    BY <2>1, <2>2, <2>3, <2>4
<1> QED
  BY <1>1, <1>3, <1>4, <1>5 DEF next

\* A search that has no snapshot yet has passed nothing.
LEMMA FreshHasPassedNothing ==
  ASSUME NEW s, s.room = 0, s.token = None, NEW r, NEW p
  PROVE  ~PassedBy(s, r, p)
BY DEF PassedBy

LEMMA SnapshotFacts ==
  ASSUME NEW s \in Cursor, StateInv(s),
         NEW rooms \in IF s.snapshot THEN {s.rooms}
                       ELSE Sorted(IF Scope # {} THEN Scope ELSE joined),
         TypeOK
  PROVE  LET next == [s EXCEPT !.snapshot = TRUE, !.rooms = rooms]
         IN  /\ next \in Cursor /\ StateInv(next) /\ next.snapshot
             /\ \A r \in Rooms, p \in Positions : PassedBy(next, r, p) <=> PassedBy(s, r, p)
<1> DEFINE next == [s EXCEPT !.snapshot = TRUE, !.rooms = rooms]
<1>1. /\ next.rooms = rooms /\ next.room = s.room /\ next.token = s.token
      /\ next.offset = s.offset /\ next.initialized = s.initialized /\ next.snapshot
  BY DEF Cursor
<1>2. (IF Scope # {} THEN Scope ELSE joined) \in SUBSET Rooms
  BY SearchAssumption DEF TypeOK, Search, Scope
<1>3. rooms \in RoomLists /\ \A i, j \in 1..Len(rooms) : i < j => rooms[i] < rooms[j]
  <2>1. CASE s.snapshot
    BY <2>1 DEF Cursor, StateInv
  <2>2. CASE ~s.snapshot
    BY <1>2, <2>2, SortedFacts
  <2> QED
    BY <2>1, <2>2
<1>4. next \in Cursor
  <2>1. s.room \in 0..NumRooms /\ s.token \in Positions \cup {0, None}
        /\ s.offset \in 0..PageSize /\ s.initialized \in BOOLEAN
    BY DEF Cursor
  <2> QED
    BY <1>3, <2>1 DEF Cursor
<1> HIDE DEF next
<1>5. CASE s.snapshot
  <2>1. next.rooms = s.rooms
    BY <1>1, <1>5
  <2>2. StateInv(next)
    BY <1>1, <1>5, <2>1 DEF StateInv
  <2>3. \A r \in Rooms, p \in Positions : PassedBy(next, r, p) <=> PassedBy(s, r, p)
    BY <1>1, <2>1 DEF PassedBy
  <2> QED
    BY <1>1, <1>4, <2>2, <2>3 DEF next
<1>6. CASE ~s.snapshot
  <2>1. s.room = 0 /\ ~s.initialized /\ s.token = None /\ s.offset = 0
    BY <1>6 DEF StateInv
  <2>2. Len(rooms) \in Nat
    BY <1>3, RoomListFacts
  <2>3. StateInv(next)
    BY <1>1, <1>3, <2>1, <2>2 DEF StateInv
  <2>4. \A r \in Rooms, p \in Positions : ~PassedBy(next, r, p) /\ ~PassedBy(s, r, p)
    BY <1>1, <2>1, FreshHasPassedNothing
  <2> QED
    BY <1>1, <1>4, <2>3, <2>4 DEF next
<1> QED
  BY <1>5, <1>6

\* A state s2 that stands in the same room as s.
LEMMA SameRoomFacts ==
  ASSUME NEW s \in Cursor, StateInv(s), s.room < Len(s.rooms),
         NEW s2 \in Cursor, s2.rooms = s.rooms, s2.room = s.room,
         s2.snapshot, s2.initialized, Mode # "exact",
         s2.token = None => s2.offset = 0,
         s2.token # None =>
           IF Forward THEN s2.token + s2.offset <= Len(log[RoomOf(s)])
                      ELSE s2.offset <= s2.token
  PROVE  /\ StateInv(s2) /\ RoomOf(s2) = RoomOf(s)
         /\ \A r \in Rooms, p \in Positions :
              PassedBy(s2, r, p) <=> PassedRoom(s, r) \/ (r = RoomOf(s) /\ PassedPlace(s2, p))
<1>1. RoomOf(s2) = RoomOf(s)
  BY DEF RoomOf
<1>2. StateInv(s2)
  BY <1>1 DEF StateInv, RoomOf
<1>3. \A r : PassedRoom(s2, r) <=> PassedRoom(s, r)
  BY DEF PassedRoom
<1> QED
  BY <1>1, <1>2, <1>3, PassedParts

-----------------------------------------------------------------------------
(* What a step of a call keeps.                                             *)

LEMMA OrderFrame ==
  ASSUME search' = search
  PROVE  OrderInv' <=>
           /\ AllPassed(collected', cursor')
           /\ phase' # "idle" => AllPassed(collected', st') /\ AllPassed(matches', st')
           /\ Ordered(collected') /\ Ordered(matches')
           /\ \A i \in 1..Len(collected'), j \in 1..Len(matches') :
                Before(collected'[i], matches'[j])
BY DEF OrderInv, AllPassed, PassedBy, Ordered, Before, Forward

LEMMA CoveredFrame ==
  ASSUME search' = search, early' = early, anchor' = anchor, log' = log
  PROVE  /\ Covered' <=>
              \A r \in Rooms, p \in Positions :
                PassedBy(st', r, p) /\ Wanted(r, p) /\ IsHit(r, p)
                  => IsIn(collected', r, p) \/ IsIn(matches', r, p)
         /\ NothingMissed' <=>
              \A r \in Rooms, p \in Positions :
                PassedBy(cursor', r, p) /\ Wanted(r, p) /\ IsHit(r, p) => IsIn(collected', r, p)
BY DEF Covered, NothingMissed, Passed, PassedBy, Wanted, IsHit, IsCollected, IsIn, Forward, Mode

LEMMA StateFrame ==
  ASSUME search' = search, log' = log
  PROVE  (StateInv(st)' <=> StateInv(st')) /\ (StateInv(cursor)' <=> StateInv(cursor'))
BY DEF StateInv, Forward, Mode

LEMMA SearchFacts ==
  ASSUME TypeOK
  PROVE  /\ Forward \in BOOLEAN /\ Mode \in {"plain", "dated", "exact"}
         /\ st \in Cursor /\ cursor \in Cursor
         /\ matches \in Seq(Message) /\ collected \in Seq(Message)
BY SearchAssumption DEF TypeOK, Search, Forward, Mode

LEMMA CallKeeps ==
  ASSUME IInv, UNCHANGED <<serverVars, clientVars>>,
         st' \in Cursor, StateInv(st'),
         matches' \in Seq(Message), scanned' \in Nat, roomScan' \in Nat, page' \in Page,
         limit' \in Limits \cup {0}, phase' \in {"idle", "membership", "rooms", "room", "page"},
         PhaseInv', Covered', OrderInv'
  PROVE  IInv'
<1>1. TypeOK'
  BY DEF TypeOK, IInv, serverVars, clientVars
<1>2. LogInv'
  BY DEF LogInv, IInv, serverVars, clientVars
<1>3. StateInv(cursor)' /\ StateInv(st)'
  BY StateFrame DEF IInv, serverVars, clientVars
<1>4. NothingMissed'
  BY CoveredFrame DEF IInv, serverVars, clientVars, NothingMissed, Passed, IsCollected
<1> QED
  BY <1>1, <1>2, <1>3, <1>4 DEF IInv

\* A step that collects nothing and gets beyond no event that is wanted.
LEMMA MoveKeeps ==
  ASSUME IInv, phase # "idle", UNCHANGED <<serverVars, clientVars>>, matches' = matches,
         \A r \in Rooms, p \in Positions : PassedBy(st, r, p) => PassedBy(st', r, p),
         \A r \in Rooms, p \in Positions :
           PassedBy(st', r, p) /\ Wanted(r, p) /\ IsHit(r, p) => PassedBy(st, r, p)
  PROVE  Covered' /\ OrderInv'
<1>1. UNCHANGED <<search, early, anchor, log, collected, cursor, done>>
  BY DEF serverVars, clientVars
<1>2. Covered'
  <2>1. Covered
    BY DEF IInv
  <2> QED
    BY <1>1, <2>1, CoveredFrame DEF Covered, IsCollected
<1>3. \A i \in 1..Len(collected) : collected[i][1] \in Rooms /\ collected[i][2] \in Positions
  BY SearchFacts, MessageFacts DEF IInv
<1>4. \A i \in 1..Len(matches) : matches[i][1] \in Rooms /\ matches[i][2] \in Positions
  BY SearchFacts, MessageFacts DEF IInv
<1>5. OrderInv
  BY DEF IInv
<1>6. AllPassed(collected, st') /\ AllPassed(matches, st')
  BY <1>3, <1>4, <1>5 DEF OrderInv, AllPassed
<1>7. OrderInv'
  BY <1>1, <1>5, <1>6, OrderFrame DEF OrderInv
<1> QED
  BY <1>2, <1>7

\* A step that collects event p, the only wanted one that it gets beyond.
LEMMA CollectKeeps ==
  ASSUME IInv, phase # "idle", RoomsLeft, UNCHANGED <<serverVars, clientVars>>,
         NEW p \in Positions, Collect(p), ~PassedPlace(st, p),
         \A r \in Rooms, q \in Positions : PassedBy(st, r, q) => PassedBy(st', r, q),
         PassedBy(st', Current, p),
         \A r \in Rooms, q \in Positions :
           PassedBy(st', r, q) /\ Wanted(r, q) /\ IsHit(r, q)
             => PassedBy(st, r, q) \/ (r = Current /\ q = p)
  PROVE  matches' \in Seq(Message) /\ scanned' \in Nat /\ Covered' /\ OrderInv'
<1> DEFINE m == <<Current, p>>
<1>1. UNCHANGED <<search, early, anchor, log, collected, cursor, done>>
  BY DEF serverVars, clientVars
<1>2. /\ st \in Cursor /\ StateInv(st) /\ st.room < Len(st.rooms) /\ Current = RoomOf(st)
      /\ matches \in Seq(Message) /\ collected \in Seq(Message) /\ OrderInv /\ Covered
      /\ scanned \in Nat
  BY DEF IInv, TypeOK, RoomsLeft, RoomOf, Current
<1>3. m \in Message /\ m[1] = Current /\ m[2] = p
  BY <1>2, CursorFacts DEF Message
<1> HIDE DEF m
<1>4. scanned' \in Nat
  BY <1>2 DEF Collect
<1>5. matches' = matches \/ (matches' = Append(matches, m) /\ log[Current][p])
  BY DEF Collect, m
<1>6. log[Current][p] => matches' = Append(matches, m)
  BY DEF Collect, m
<1>7. /\ matches' \in Seq(Message) /\ Len(matches') >= Len(matches)
      /\ Len(matches) \in Nat /\ Len(matches') \in Nat
      /\ \A i \in 1..Len(matches) : i \in 1..Len(matches') /\ matches'[i] = matches[i]
      /\ \A i \in 1..Len(matches') : i \in 1..Len(matches) \/ (i = Len(matches) + 1 /\ matches'[i] = m)
  <2>1. CASE matches' = matches
    BY <1>2, <2>1
  <2>2. CASE matches' = Append(matches, m)
    <3>1. /\ matches' \in Seq(Message) /\ Len(matches') = Len(matches) + 1
          /\ Len(matches) \in Nat
          /\ \A i \in 1..Len(matches) + 1 :
               matches'[i] = IF i <= Len(matches) THEN matches[i] ELSE m
      BY <1>2, <1>3, <2>2
    <3> QED
      BY <3>1
  <2> QED
    BY <1>5, <2>1, <2>2
<1>8. Covered'
  <2> SUFFICES ASSUME NEW r \in Rooms, NEW q \in Positions,
                      PassedBy(st', r, q), Wanted(r, q), IsHit(r, q)
               PROVE  IsIn(collected, r, q) \/ IsIn(matches', r, q)
    BY <1>1, CoveredFrame
  <2>1. CASE PassedBy(st, r, q)
    <3>1. IsIn(collected, r, q) \/ IsIn(matches, r, q)
      BY <1>2, <2>1 DEF Covered, IsCollected
    <3>2. IsIn(matches, r, q) => IsIn(matches', r, q)
      BY <1>7 DEF IsIn
    <3> QED
      BY <3>1, <3>2
  <2>2. CASE r = Current /\ q = p
    <3>1. matches' = Append(matches, m)
      BY <1>6, <2>2 DEF IsHit
    <3>2. Len(matches) + 1 \in 1..Len(matches') /\ matches'[Len(matches) + 1] = m
      BY <1>2, <1>3, <3>1
    <3> QED
      BY <2>2, <3>2 DEF IsIn, m
  <2> QED
    BY <2>1, <2>2
<1>9. \A i \in 1..Len(collected) :
        collected[i] \in Message /\ PassedBy(st, collected[i][1], collected[i][2])
  BY <1>2 DEF OrderInv, AllPassed
<1>10. \A i \in 1..Len(matches) :
         matches[i] \in Message /\ PassedBy(st, matches[i][1], matches[i][2])
  BY <1>2 DEF OrderInv, AllPassed
<1>11. \A i \in 1..Len(collected) : Before(collected[i], m)
  BY <1>2, <1>9, NewIsLater DEF m
<1>12. \A i \in 1..Len(matches) : Before(matches[i], m)
  BY <1>2, <1>10, NewIsLater DEF m
<1>13. AllPassed(collected, st')
  BY <1>9, MessageFacts DEF AllPassed
<1>14. AllPassed(matches', st')
  BY <1>3, <1>7, <1>10, MessageFacts DEF AllPassed
<1>15. Ordered(matches')
  <2> SUFFICES ASSUME NEW i \in 1..Len(matches'), NEW j \in 1..Len(matches'), i < j
               PROVE  Before(matches'[i], matches'[j])
    BY DEF Ordered
  <2>1. i \in 1..Len(matches) /\ matches'[i] = matches[i]
    BY <1>7
  <2>2. CASE j \in 1..Len(matches)
    BY <1>2, <1>7, <2>1, <2>2 DEF OrderInv, Ordered
  <2>3. CASE matches'[j] = m
    BY <1>12, <2>1, <2>3
  <2> QED
    BY <1>7, <2>2, <2>3
<1>16. \A i \in 1..Len(collected), j \in 1..Len(matches') : Before(collected[i], matches'[j])
  BY <1>2, <1>7, <1>11 DEF OrderInv
<1>17. OrderInv'
  BY <1>1, <1>2, <1>13, <1>14, <1>15, <1>16, OrderFrame DEF OrderInv
<1> QED
  BY <1>4, <1>7, <1>8, <1>17

-----------------------------------------------------------------------------
(* The homeserver's steps.                                                  *)

LEMMA Appended ==
  ASSUME NEW f \in Seq(BOOLEAN), NEW x \in BOOLEAN
  PROVE  LET g == Append(f, x)
         IN  /\ g \in [1..(Len(f) + 1) -> BOOLEAN] /\ Len(g) = Len(f) + 1
             /\ \A i \in 1..Len(f) : g[i] = f[i]
<1> DEFINE g == Append(f, x)
<1>1. g \in Seq(BOOLEAN) /\ Len(g) = Len(f) + 1 /\ \A i \in 1..Len(f) : g[i] = f[i]
  BY AppendProperties, LenProperties
<1> HIDE DEF g
<1>2. g \in [1..Len(g) -> BOOLEAN]
  BY <1>1, LenProperties
<1> QED
  BY <1>1, <1>2 DEF g

LEMMA BoundFacts ==
  ASSUME TypeOK, NEW r \in Rooms
  PROVE  early[r] \in Nat /\ anchor[r] \in Nat /\ MaxEvents[r] \in Nat
<1>1. Places \subseteq Nat
  BY PlaceFacts DEF Places
<1>2. early[r] \in Places /\ anchor[r] \in Places
  BY DEF TypeOK, Places
<1> QED
  BY <1>1, <1>2, SearchAssumption

LEMMA ArriveKeeps ==
  ASSUME IInv, NEW r \in Rooms, Arrive(r)
  PROVE  IInv'
<1>1. /\ UNCHANGED <<joined, anchor, faults, search, cursor, done, collected, early>>
      /\ UNCHANGED <<phase, st, limit, matches, scanned, roomScan, page>>
  BY DEF Arrive, clientVars, callVars
<1>2. PICK hit \in BOOLEAN : log' = [log EXCEPT ![r] = Append(@, hit)]
  BY DEF Arrive
<1>3. TypeOK /\ LogInv /\ log \in [Rooms -> Timelines] /\ MaxEvents[r] \in Nat
      /\ Len(log[r]) < MaxEvents[r]
  BY SearchAssumption DEF IInv, TypeOK, Arrive
<1>4. \A q \in Rooms : log[q] \in Seq(BOOLEAN) /\ Len(log[q]) \in Nat
  BY <1>3, LogFacts
<1>5. /\ log'[r] = Append(log[r], hit)
      /\ log' = [log EXCEPT ![r] = log'[r]]
      /\ \A q \in Rooms \ {r} : log'[q] = log[q]
  BY <1>2, <1>3
<1>6. /\ log'[r] \in [1..(Len(log[r]) + 1) -> BOOLEAN] /\ Len(log'[r]) = Len(log[r]) + 1
      /\ \A p \in 1..Len(log[r]) : log'[r][p] = log[r][p]
  BY <1>4, <1>5, Appended
<1>7. \A q \in Rooms : /\ Len(log[q]) <= Len(log'[q]) /\ Len(log'[q]) \in Nat
                       /\ \A p \in 1..Len(log[q]) : log'[q][p] = log[q][p]
  <2> SUFFICES ASSUME NEW q \in Rooms
               PROVE  /\ Len(log[q]) <= Len(log'[q]) /\ Len(log'[q]) \in Nat
                      /\ \A p \in 1..Len(log[q]) : log'[q][p] = log[q][p]
    OBVIOUS
  <2>1. Len(log[q]) \in Nat
    BY <1>4
  <2>2. CASE q = r
    BY <1>6, <2>1, <2>2
  <2>3. CASE q # r
    <3>1. log'[q] = log[q]
      BY <1>5, <2>3
    <3> QED
      BY <2>1, <3>1
  <2> QED
    BY <2>2, <2>3
<1>8. TypeOK'
  <2>1. Len(log[r]) + 1 \in Places
    BY <1>3, <1>4, PlaceFacts
  <2>2. log'[r] \in Timelines
    BY <1>6, <2>1 DEF Timelines, Places
  <2>3. log' \in [Rooms -> Timelines]
    BY <1>3, <1>5, <2>2
  <2>4. ASSUME NEW q \in Rooms  PROVE Len(log'[q]) <= MaxEvents[q]
    <3>1. CASE q = r
      BY <1>3, <1>4, <1>6, <3>1
    <3>2. CASE q # r
      BY <1>3, <1>5, <3>2 DEF TypeOK
    <3> QED
      BY <3>1, <3>2
  <2> QED
    BY <1>1, <1>3, <2>3, <2>4 DEF TypeOK
<1>9. LogInv'
  <2>1. \A q \in Rooms : early[q] \in Nat /\ anchor[q] \in Nat
    BY <1>3, BoundFacts
  <2> QED
    BY <1>1, <1>3, <1>4, <1>7, <2>1 DEF LogInv
<1>10. ASSUME NEW s \in Cursor, StateInv(s)
       PROVE  s.token # None =>
                IF Forward THEN s.token + s.offset <= Len(log'[RoomOf(s)]) ELSE s.offset <= s.token
  <2> SUFFICES ASSUME s.token # None, Forward
               PROVE  s.token + s.offset <= Len(log'[RoomOf(s)])
    BY <1>10 DEF StateInv
  <2>1. s.room < Len(s.rooms) /\ s.token + s.offset <= Len(log[RoomOf(s)])
    BY <1>10 DEF StateInv, RoomOf
  <2>2. RoomOf(s) \in Rooms /\ s.token \in Nat /\ s.offset \in Nat
    BY <2>1, CursorFacts
  <2> QED
    BY <1>4, <1>7, <2>1, <2>2
<1>11. StateInv(st)'
  <2>1. st \in Cursor /\ StateInv(st)
    BY <1>3, SearchFacts DEF IInv
  <2> QED
    BY <1>1, <1>10, <2>1 DEF StateInv, Forward, Mode, RoomOf
<1>12. StateInv(cursor)'
  <2>1. cursor \in Cursor /\ StateInv(cursor)
    BY <1>3, SearchFacts DEF IInv
  <2> QED
    BY <1>1, <1>10, <2>1 DEF StateInv, Forward, Mode, RoomOf
<1>13. PhaseInv'
  <2>1. PhaseInv
    BY DEF IInv
  <2>2. CASE phase # "page"
    BY <1>1, <2>1, <2>2 DEF PhaseInv, RoomsLeft
  <2>3. CASE phase = "page"
    <3>1. PageInv /\ RoomsLeft
      BY <2>1, <2>3 DEF PhaseInv
    <3>2. Current \in Rooms /\ (st.token # None => st.token \in Nat)
      BY <1>3, <3>1, SearchFacts, CursorFacts DEF RoomsLeft, Current, RoomOf
    <3>3. Len(page.events) \in Nat
      <4>1. page.events \in Seq(Positions)
        BY <1>3 DEF TypeOK, Page
      <4> QED
        BY <4>1
    <3>4. /\ Len(log[Current]) <= Len(log'[Current])
          /\ Len(log[Current]) \in Nat /\ Len(log'[Current]) \in Nat
      BY <1>4, <1>7, <3>2
    <3>5. \A n \in Nat : n <= Len(log[Current]) => n <= Len(log'[Current])
      BY <3>4
    <3>6. (st.token # None => st.token + Len(page.events) \in Nat)
      BY <3>2, <3>3
    <3>7. PageInv'
      BY <1>1, <3>1, <3>5, <3>6 DEF PageInv, Current, Forward
    <3> QED
      BY <1>1, <2>1, <2>3, <3>7 DEF PhaseInv, RoomsLeft
  <2> QED
    BY <2>2, <2>3
<1>14. \A q \in Rooms, p \in Positions : Wanted(q, p)' /\ IsHit(q, p)' => Wanted(q, p) /\ IsHit(q, p)
  <2> SUFFICES ASSUME NEW q \in Rooms, NEW p \in Positions, Wanted(q, p)', IsHit(q, p)'
               PROVE  Wanted(q, p) /\ IsHit(q, p)
    OBVIOUS
  <2>1. Wanted(q, p)
    BY <1>1 DEF Wanted, Mode, Forward
  <2>2. p <= early[q] \/ p = anchor[q]
    BY <1>3, <2>1, SearchFacts DEF Wanted
  <2>3. p \in Nat \ {0} /\ early[q] \in Nat /\ anchor[q] \in Nat
    BY <1>3, BoundFacts, PlaceFacts
  <2>4. p \in 1..Len(log[q])
    BY <1>3, <1>4, <2>2, <2>3 DEF LogInv
  <2> QED
    BY <1>7, <2>1, <2>4 DEF IsHit
<1>15. NothingMissed'
  <2>1. NothingMissed
    BY DEF IInv
  <2> QED
    BY <1>1, <1>14, <2>1 DEF NothingMissed, Passed, PassedBy, IsCollected, IsIn, Forward
<1>16. Covered'
  <2>1. Covered
    BY DEF IInv
  <2> QED
    BY <1>1, <1>14, <2>1 DEF Covered, PassedBy, IsCollected, IsIn, Forward
<1>17. OrderInv'
  BY <1>1, OrderFrame DEF IInv, OrderInv
<1> QED
  BY <1>8, <1>9, <1>11, <1>12, <1>13, <1>15, <1>16, <1>17 DEF IInv

LEMMA MovesKeep ==
  ASSUME IInv, NEW r \in Rooms, Leave(r) \/ Rejoin(r)
  PROVE  IInv'
<1>1. UNCHANGED <<log, anchor, search, cursor, done, collected, early>>
      /\ UNCHANGED <<phase, st, limit, matches, scanned, roomScan, page>>
  BY DEF Leave, Rejoin, clientVars, callVars
<1>2. TypeOK /\ LogInv /\ PhaseInv /\ NothingMissed /\ Covered /\ OrderInv
  BY DEF IInv
<1>3. joined' \in SUBSET Rooms /\ faults' \in 0..MaxFaults
  <2>1. MaxFaults \in Nat
    BY SearchAssumption
  <2> QED
    BY <1>2, <2>1 DEF TypeOK, Leave, Rejoin, Fault
<1>4. TypeOK'
  BY <1>1, <1>2, <1>3 DEF TypeOK
<1>5. LogInv'
  BY <1>1, <1>2 DEF LogInv
<1>6. StateInv(st)' /\ StateInv(cursor)'
  BY <1>1, StateFrame DEF IInv
<1>7. PhaseInv'
  BY <1>1, <1>2 DEF PhaseInv, PageInv, RoomsLeft, Current, Forward
<1>8. NothingMissed' /\ Covered'
  BY <1>1, <1>2, CoveredFrame DEF NothingMissed, Passed, Covered, IsCollected
<1>9. OrderInv'
  BY <1>1, <1>2, OrderFrame DEF OrderInv
<1> QED
  BY <1>4, <1>5, <1>6, <1>7, <1>8, <1>9 DEF IInv

-----------------------------------------------------------------------------
(* The steps of a call.                                                     *)

\* What holds while a call is under way.
LEMMA CallFacts ==
  ASSUME IInv
  PROVE  /\ TypeOK /\ LogInv /\ StateInv(cursor) /\ StateInv(st) /\ PhaseInv
         /\ NothingMissed /\ Covered /\ OrderInv
         /\ st \in Cursor /\ cursor \in Cursor
         /\ matches \in Seq(Message) /\ collected \in Seq(Message)
         /\ scanned \in Nat /\ roomScan \in Nat /\ page \in Page /\ limit \in Limits \cup {0}
         /\ Forward \in BOOLEAN /\ Mode \in {"plain", "dated", "exact"}
         /\ RoomsLeft => st.room < Len(st.rooms) /\ Current = RoomOf(st) /\ Current \in Rooms
BY SearchFacts, CursorFacts DEF IInv, TypeOK, RoomsLeft, Current, RoomOf

LEMMA BeginKeeps ==
  ASSUME IInv, Begin
  PROVE  IInv'
<1>1. /\ UNCHANGED <<serverVars, clientVars, matches, scanned, roomScan, page>>
      /\ UNCHANGED <<log, anchor, search, cursor, done, collected, early>>
      /\ st' = cursor /\ limit' \in Limits /\ phase = "idle" /\ phase' = "membership"
  BY DEF Begin, serverVars, clientVars
<1>2. matches = <<>>
  BY <1>1, CallFacts DEF PhaseInv
<1>3. PhaseInv'
  BY <1>1, <1>2 DEF PhaseInv
<1>4. Covered'
  BY <1>1, CallFacts, CoveredFrame DEF NothingMissed, Passed, IsCollected
<1>5. AllPassed(matches', st')
  BY <1>1, <1>2 DEF AllPassed
<1>6. OrderInv'
  BY <1>1, <1>5, CallFacts, OrderFrame DEF OrderInv
<1>7. StateInv(st')
  BY <1>1, CallFacts
<1> QED
  BY <1>1, <1>3, <1>4, <1>6, <1>7, CallFacts, CallKeeps

LEMMA MembershipKeeps ==
  ASSUME IInv, Membership
  PROVE  IInv'
<1>1. /\ UNCHANGED <<serverVars, clientVars, limit, matches, scanned, roomScan, page>>
      /\ phase = "membership" /\ phase' = "rooms"
  BY DEF Membership
<1>2. PICK rooms \in IF st.snapshot THEN {st.rooms}
                     ELSE Sorted(IF Scope # {} THEN Scope ELSE joined) :
        st' = [st EXCEPT !.snapshot = TRUE, !.rooms = rooms]
  BY DEF Membership
<1>3. /\ st' \in Cursor /\ StateInv(st') /\ st'.snapshot
      /\ \A r \in Rooms, p \in Positions : PassedBy(st', r, p) <=> PassedBy(st, r, p)
  BY <1>2, CallFacts, SnapshotFacts
<1>4. PhaseInv'
  BY <1>1, <1>3 DEF PhaseInv
<1>5. Covered' /\ OrderInv'
  BY <1>1, <1>3, MoveKeeps
<1> QED
  BY <1>1, <1>3, <1>4, <1>5, CallFacts, CallKeeps

LEMMA EnterRoomKeeps ==
  ASSUME IInv, EnterRoom
  PROVE  IInv'
<1>1. /\ UNCHANGED <<serverVars, clientVars, st, limit, matches, scanned, page>>
      /\ phase = "rooms" /\ phase' = "room" /\ RoomsLeft /\ roomScan' = 0
  BY DEF EnterRoom
<1>2. PhaseInv'
  BY <1>1, CallFacts DEF PhaseInv, RoomsLeft
<1>3. Covered' /\ OrderInv'
  BY <1>1, MoveKeeps
<1> QED
  BY <1>1, <1>2, <1>3, CallFacts, CallKeeps

\* A call that leaves a room behind for the next one.
LEMMA RoomDone ==
  ASSUME IInv, RoomsLeft, phase \in {"room", "page"}, st' = NextRoom(st), phase' = "rooms"
  PROVE  /\ st' \in Cursor /\ StateInv(st') /\ PhaseInv'
         /\ \A r \in Rooms, p \in Positions :
              PassedBy(st', r, p) <=> PassedBy(st, r, p) \/ r = Current
<1>1. st.snapshot
  BY CallFacts DEF PhaseInv
<1>2. /\ st' \in Cursor /\ StateInv(st') /\ st'.snapshot
      /\ \A r \in Rooms, p \in Positions :
           PassedBy(st', r, p) <=> PassedBy(st, r, p) \/ r = Current
  BY <1>1, CallFacts, NextRoomFacts
<1>3. PhaseInv'
  BY <1>2 DEF PhaseInv
<1> QED
  BY <1>2, <1>3

LEMMA LookUpMessageKeeps ==
  ASSUME IInv, LookUpMessage
  PROVE  IInv'
<1>1. /\ UNCHANGED <<serverVars, clientVars, limit, roomScan, page>>
      /\ phase = "room" /\ phase' = "rooms" /\ st' = NextRoom(st) /\ Mode = "exact"
  BY DEF LookUpMessage
<1>2. RoomsLeft /\ Current \in Rooms
  BY <1>1, CallFacts DEF PhaseInv
<1>3. /\ st' \in Cursor /\ StateInv(st') /\ PhaseInv'
      /\ \A r \in Rooms, p \in Positions :
           PassedBy(st', r, p) <=> PassedBy(st, r, p) \/ r = Current
  BY <1>1, <1>2, RoomDone
<1>4. \A p : Wanted(Current, p) => p = anchor[Current]
  BY <1>1 DEF Wanted
<1>5. CASE anchor[Current] = 0
  <2>1. matches' = matches /\ scanned' = scanned
    BY <1>5 DEF LookUpMessage
  <2>2. \A p \in Positions : ~Wanted(Current, p)
    BY <1>4, <1>5, PlaceFacts
  <2>3. Covered' /\ OrderInv'
    BY <1>1, <1>3, <2>1, <2>2, MoveKeeps
  <2> QED
    BY <1>1, <1>3, <2>1, <2>3, CallFacts, CallKeeps
<1>6. CASE anchor[Current] # 0
  <2>1. Collect(anchor[Current])
    BY <1>6 DEF LookUpMessage
  <2>2. anchor[Current] \in Positions
    BY <1>2, <1>6, CallFacts DEF TypeOK
  <2>3. ~PassedPlace(st, anchor[Current])
    BY <1>1, CallFacts DEF StateInv, PassedPlace
  <2>4. matches' \in Seq(Message) /\ scanned' \in Nat /\ Covered' /\ OrderInv'
    BY <1>1, <1>2, <1>3, <1>4, <2>1, <2>2, <2>3, CollectKeeps
  <2> QED
    BY <1>1, <1>3, <2>4, CallFacts, CallKeeps
<1> QED
  BY <1>5, <1>6

LEMMA AnchorKeeps ==
  ASSUME IInv, Anchor
  PROVE  IInv'
<1> DEFINE a == anchor[Current]
<1>1. /\ UNCHANGED <<serverVars, clientVars, limit, page>>
      /\ phase = "room" /\ Mode = "dated" /\ ~st.initialized /\ a # 0
      /\ Collect(a) /\ roomScan' = roomScan + 1
  BY DEF Anchor
<1>2. RoomsLeft /\ Current \in Rooms /\ Current = RoomOf(st) /\ st.snapshot
      /\ st.room < Len(st.rooms)
  BY <1>1, CallFacts DEF PhaseInv
<1>3. a \in Positions /\ a <= Len(log[Current]) /\ a \in Nat \ {0} /\ Len(log[Current]) \in Nat
  BY <1>1, <1>2, CallFacts, LogFacts, PlaceFacts DEF TypeOK, LogInv
<1>4. st.token = None /\ st.offset = 0 /\ \A p : ~PassedPlace(st, p)
  BY <1>1, CallFacts DEF StateInv, PassedPlace
<1>5. \A p : Wanted(Current, p) => IF Forward THEN p >= a ELSE p <= a
  BY <1>1 DEF Wanted
<1>6. roomScan' \in Nat
  BY <1>1, CallFacts
<1>7. CASE /\ st' = [st EXCEPT !.token = ContextToken(a), !.initialized = TRUE]
           /\ phase' = phase
  <2>1. /\ st'.rooms = st.rooms /\ st'.room = st.room /\ st'.offset = 0
        /\ st'.snapshot /\ st'.initialized /\ st'.token = ContextToken(a)
    BY <1>2, <1>4, <1>7, CallFacts DEF Cursor
  <2>2. ContextToken(a) \in Places /\ ContextToken(a) \in Nat
        /\ ContextToken(a) = IF Forward THEN a ELSE a - 1
    <3>1. a - 1 \in Nat /\ a - 1 <= a
      BY <1>3
    <3> QED
      BY <1>3, <3>1, PlaceFacts DEF ContextToken, Places
  <2>3. st' \in Cursor
    BY <1>7, <2>2, CallFacts DEF Cursor, Places
  <2>4. /\ StateInv(st') /\ RoomOf(st') = Current
        /\ \A r \in Rooms, p \in Positions :
             PassedBy(st', r, p) <=> PassedRoom(st, r) \/ (r = Current /\ PassedPlace(st', p))
    <3>1. IF Forward THEN st'.token + st'.offset <= Len(log[Current]) ELSE st'.offset <= st'.token
      BY <1>3, <2>1, <2>2
    <3> QED
      BY <1>1, <1>2, <2>1, <2>3, <3>1, CallFacts, SameRoomFacts
  <2>5. \A p \in Positions : PassedPlace(st', p) <=> IF Forward THEN p <= a ELSE p > a - 1
    BY <1>3, <2>1, <2>2, PlaceFacts DEF PassedPlace, None
  <2>6. \A p \in Positions : PassedPlace(st', p) /\ Wanted(Current, p) => p = a
    BY <1>3, <1>5, <2>5, PlaceFacts
  <2>7. PassedPlace(st', a)
    BY <1>3, <2>5
  <2>8. \A r \in Rooms, p \in Positions : PassedBy(st, r, p) <=> PassedRoom(st, r)
    BY <1>2, <1>4, PassedParts
  <2>9. matches' \in Seq(Message) /\ scanned' \in Nat /\ Covered' /\ OrderInv'
    BY <1>1, <1>2, <1>3, <1>4, <2>4, <2>6, <2>7, <2>8, CollectKeeps
  <2>10. PhaseInv'
    BY <1>1, <1>2, <1>7, <2>1 DEF PhaseInv, RoomsLeft
  <2> QED
    BY <1>1, <1>6, <1>7, <2>3, <2>4, <2>9, <2>10, CallFacts, CallKeeps
<1>8. CASE /\ ContextToken(a) = IF Forward THEN Len(log[Current]) ELSE 0
           /\ st' = NextRoom(st)
           /\ phase' = "rooms"
  <2>1. /\ st' \in Cursor /\ StateInv(st') /\ PhaseInv'
        /\ \A r \in Rooms, p \in Positions :
             PassedBy(st', r, p) <=> PassedBy(st, r, p) \/ r = Current
    BY <1>1, <1>2, <1>8, RoomDone
  <2>2. ASSUME NEW p \in Positions, Wanted(Current, p), IsHit(Current, p)  PROVE p = a
    <3>1. p \in Nat \ {0} /\ p <= Len(log[Current]) /\ IF Forward THEN p >= a ELSE p <= a
      BY <1>5, <2>2, PlaceFacts DEF IsHit
    <3>2. IF Forward THEN a = Len(log[Current]) ELSE a = 1
      BY <1>3, <1>8 DEF ContextToken
    <3> HIDE DEF a
    <3> QED
      BY <1>3, <3>1, <3>2
  <2>3. matches' \in Seq(Message) /\ scanned' \in Nat /\ Covered' /\ OrderInv'
    BY <1>1, <1>2, <1>3, <1>4, <2>1, <2>2, CollectKeeps
  <2> QED
    BY <1>1, <1>6, <1>8, <2>1, <2>3, CallFacts, CallKeeps
<1> QED
  BY <1>7, <1>8 DEF Anchor

LEMMA FromTheEndKeeps ==
  ASSUME IInv, FromTheEnd
  PROVE  IInv'
<1>1. /\ UNCHANGED <<serverVars, clientVars, phase, limit, matches, scanned, roomScan, page>>
      /\ phase = "room" /\ Mode # "exact" /\ ~st.initialized
      /\ st' = [st EXCEPT !.initialized = TRUE]
  BY DEF FromTheEnd
<1>2. RoomsLeft /\ Current \in Rooms /\ Current = RoomOf(st) /\ st.snapshot
      /\ st.room < Len(st.rooms) /\ st.token = None /\ st.offset = 0
  BY <1>1, CallFacts DEF PhaseInv, StateInv
<1>3. /\ st'.rooms = st.rooms /\ st'.room = st.room /\ st'.offset = 0
      /\ st'.snapshot /\ st'.initialized /\ st'.token = None
  BY <1>1, <1>2, CallFacts DEF Cursor
<1>4. st' \in Cursor
  BY <1>1, CallFacts DEF Cursor
<1>5. /\ StateInv(st')
      /\ \A r \in Rooms, p \in Positions :
           PassedBy(st', r, p) <=> PassedRoom(st, r) \/ (r = Current /\ PassedPlace(st', p))
  BY <1>1, <1>2, <1>3, <1>4, CallFacts, SameRoomFacts
<1>6. \A p : ~PassedPlace(st', p) /\ ~PassedPlace(st, p)
  BY <1>2, <1>3 DEF PassedPlace
<1>7. \A r \in Rooms, p \in Positions : PassedBy(st', r, p) <=> PassedBy(st, r, p)
  BY <1>2, <1>5, <1>6, PassedParts
<1>8. Covered' /\ OrderInv'
  BY <1>1, <1>7, MoveKeeps
<1>9. PhaseInv'
  BY <1>1, <1>2, <1>3 DEF PhaseInv, RoomsLeft
<1> QED
  BY <1>1, <1>4, <1>5, <1>8, <1>9, CallFacts, CallKeeps

LEMMA ReadPageKeeps ==
  ASSUME IInv, ReadPage
  PROVE  IInv'
<1> DEFINE answer == Messages(Current, st.token)
           from == answer.start
           size == Len(page'.events)
           len == Len(log[Current])
<1>1. /\ UNCHANGED <<serverVars, clientVars, limit, matches, scanned, roomScan>>
      /\ phase = "room" /\ phase' = "page" /\ st.initialized
      /\ page' \in answer.page
      /\ st' = [st EXCEPT !.token = IF @ = None /\ page'.events # <<>> THEN from ELSE @]
  BY DEF ReadPage
<1>2. RoomsLeft /\ Current \in Rooms /\ Current = RoomOf(st) /\ st.snapshot
      /\ st.room < Len(st.rooms) /\ Mode # "exact"
  BY <1>1, CallFacts DEF PhaseInv, StateInv
<1>3. /\ st.token = None => st.offset = 0
      /\ st.token # None => IF Forward THEN st.token + st.offset <= len ELSE st.offset <= st.token
  BY <1>2, CallFacts DEF StateInv, RoomOf
<1>4. /\ st.offset \in Nat /\ st.offset <= PageSize /\ st.token \in Places \cup {None}
      /\ len \in Nat /\ early[Current] \in Nat /\ early[Current] <= len
  BY <1>2, CallFacts, CursorFacts, LogFacts, BoundFacts DEF LogInv
<1>5. /\ from \in Places /\ (st.token # None => from = st.token)
      /\ st.token = None => from = IF Forward THEN 0 ELSE len
      /\ page' \in Page
      /\ size \in Nat /\ size <= PageSize /\ st.offset <= size
      /\ \A i \in 1..size : page'.events[i] = IF Forward THEN from + i ELSE from - i + 1
      /\ page'.end # None => page'.end = IF Forward THEN from + size ELSE from - size
      /\ IF Forward THEN from + size <= len ELSE size <= from
      /\ size = 0 \/ page'.end = None => IF Forward THEN from + size = len ELSE from = size
  <2>1. TypeOK /\ Current \in Rooms /\ st.token \in Places \cup {None} /\ st.offset \in Nat
        /\ st.offset <= PageSize
    BY <1>2, <1>4, CallFacts
  <2>2. page' \in Messages(Current, st.token).page
    BY <1>1
  <2> QED
    BY <1>3, <2>1, <2>2, MessagesFacts
<1>6. from \in Nat /\ from # None
  <2>1. Places \subseteq Nat
    BY PlaceFacts DEF Places
  <2>2. from \in Places
    BY <1>5
  <2>3. None \notin Nat
    BY DEF None
  <2> HIDE DEF from
  <2> QED
    BY <2>1, <2>2, <2>3
<1>7. page'.events = <<>> <=> size = 0
  BY <1>5, EmptySeq DEF Page
<1> HIDE DEF from, answer, size, len
<1>8. /\ st'.rooms = st.rooms /\ st'.room = st.room /\ st'.offset = st.offset
      /\ st'.snapshot /\ st'.initialized
      /\ st'.token = IF st.token = None /\ size # 0 THEN from ELSE st.token
  BY <1>1, <1>2, <1>7, CallFacts DEF Cursor
<1>9. st' \in Cursor
  <2>1. st'.token \in Positions \cup {0, None}
    BY <1>4, <1>5, <1>8 DEF Places
  <2> QED
    BY <1>1, <1>8, <2>1, CallFacts DEF Cursor
<1>10. /\ st'.token = None => st.token = None /\ size = 0 /\ st.offset = 0
       /\ st'.token # None => st'.token = from
  BY <1>3, <1>5, <1>6, <1>8
<1>11. /\ StateInv(st') /\ RoomOf(st') = Current
       /\ \A r \in Rooms, p \in Positions :
            PassedBy(st', r, p) <=> PassedRoom(st, r) \/ (r = Current /\ PassedPlace(st', p))
  <2>1. st'.token # None =>
          IF Forward THEN st'.token + st'.offset <= len ELSE st'.offset <= st'.token
    BY <1>3, <1>4, <1>5, <1>6, <1>8, <1>10
  <2> QED
    BY <1>2, <1>8, <1>9, <1>10, <2>1, CallFacts, SameRoomFacts DEF len
<1>12. \A p \in Positions : PassedPlace(st, p) => PassedPlace(st', p)
  BY <1>8 DEF PassedPlace
<1>13. \A p \in Positions : PassedPlace(st', p) /\ IsHit(Current, p) => PassedPlace(st, p)
  <2> SUFFICES ASSUME NEW p \in Positions, PassedPlace(st', p), IsHit(Current, p)
               PROVE  PassedPlace(st, p)
    OBVIOUS
  <2>1. CASE st.token = None
    <3>1. st.offset = 0 /\ st'.token = from /\ p \in Nat \ {0} /\ p <= len
      BY <1>3, <1>10, <2>1, PlaceFacts DEF PassedPlace, IsHit, len
    <3> QED
      BY <1>4, <1>5, <1>6, <1>8, <2>1, <3>1 DEF PassedPlace
  <2>2. CASE st.token # None
    BY <1>8, <2>2 DEF PassedPlace
  <2> QED
    BY <2>1, <2>2
<1>14. Covered' /\ OrderInv'
  BY <1>1, <1>2, <1>11, <1>12, <1>13, PassedParts, MoveKeeps
<1>15. PageInv'
  <2>1. search' = search /\ early' = early /\ log' = log /\ Current' = Current
    BY <1>1, <1>8 DEF serverVars, clientVars, Current
  <2>2. st'.token = None => size = 0 /\ early[Current] = 0 /\ page'.end \in {None, 0}
    BY <1>4, <1>5, <1>6, <1>10
  <2>3. st'.token # None =>
          /\ \A i \in 1..size : page'.events[i] = IF Forward THEN st'.token + i ELSE st'.token - i + 1
          /\ page'.end # None => page'.end = IF Forward THEN st'.token + size ELSE st'.token - size
          /\ IF Forward THEN st'.token + size <= len ELSE size <= st'.token
          /\ page'.end \in {None, st'.token} =>
               IF Forward THEN early[Current] <= st'.token + size ELSE size = st'.token
    <3> SUFFICES ASSUME st'.token # None
                 PROVE  page'.end \in {None, from} =>
                          IF Forward THEN early[Current] <= from + size ELSE size = from
      BY <1>5, <1>10
    <3> SUFFICES ASSUME page'.end \in {None, from}  PROVE page'.end = None \/ size = 0
      BY <1>4, <1>5, <1>6
    <3> QED
      BY <1>5, <1>6
  <2> QED
    BY <1>5, <1>8, <2>1, <2>2, <2>3 DEF PageInv, Forward, size, len
<1>16. PhaseInv'
  BY <1>1, <1>2, <1>8, <1>15 DEF PhaseInv, RoomsLeft
<1> QED
  BY <1>1, <1>5, <1>9, <1>11, <1>14, <1>16, CallFacts, CallKeeps

LEMMA ScanEventKeeps ==
  ASSUME IInv, ScanEvent
  PROVE  IInv'
<1> DEFINE size == Len(page.events)
           p == page.events[st.offset + 1]
<1>1. /\ UNCHANGED <<serverVars, clientVars, phase, limit, page>>
      /\ phase = "page" /\ st.offset < size /\ Collect(p) /\ roomScan' = roomScan + 1
      /\ st' = [st EXCEPT !.offset = @ + 1]
  BY DEF ScanEvent
<1>2. /\ RoomsLeft /\ Current \in Rooms /\ Current = RoomOf(st) /\ st.snapshot
      /\ st.room < Len(st.rooms) /\ PageInv /\ st.initialized /\ Mode # "exact"
  BY <1>1, CallFacts DEF PhaseInv, PageInv, StateInv
<1>3. /\ size \in Nat /\ size <= PageSize /\ PageSize \in Nat /\ st.offset \in Nat
      /\ page.events \in Seq(Positions)
  <2>1. page.events \in Seq(Positions)
    BY CallFacts DEF Page
  <2> QED
    BY <1>2, <2>1, CallFacts, CursorFacts DEF PageInv
<1>4. st.token # None /\ st.token \in Nat
  BY <1>1, <1>2, <1>3, CallFacts, CursorFacts DEF PageInv
<1>5. /\ p = IF Forward THEN st.token + st.offset + 1 ELSE st.token - st.offset
      /\ IF Forward THEN st.token + size <= Len(log[Current]) ELSE size <= st.token
  <2>1. st.offset + 1 \in 1..size
    BY <1>1, <1>3
  <2>2. /\ p = IF Forward THEN st.token + (st.offset + 1) ELSE st.token - (st.offset + 1) + 1
        /\ IF Forward THEN st.token + size <= Len(log[Current]) ELSE size <= st.token
    BY <1>2, <1>4, <2>1 DEF PageInv
  <2> HIDE DEF p, size
  <2> QED
    BY <1>3, <1>4, <2>2, CallFacts
<1>6. p \in Positions
  BY <1>1, <1>3
<1>7. Len(log[Current]) \in Nat
  BY <1>2, CallFacts, LogFacts
<1> HIDE DEF size, p
<1>8. /\ st'.rooms = st.rooms /\ st'.room = st.room /\ st'.offset = st.offset + 1
      /\ st'.snapshot /\ st'.initialized /\ st'.token = st.token
  BY <1>1, <1>2, CallFacts DEF Cursor
<1>9. st' \in Cursor
  <2>1. st.offset + 1 \in 0..PageSize
    BY <1>1, <1>3
  <2> QED
    BY <1>1, <2>1, CallFacts DEF Cursor
<1>10. /\ StateInv(st') /\ RoomOf(st') = Current
       /\ \A r \in Rooms, q \in Positions :
            PassedBy(st', r, q) <=> PassedRoom(st, r) \/ (r = Current /\ PassedPlace(st', q))
  <2>1. IF Forward THEN st'.token + st'.offset <= Len(log[Current]) ELSE st'.offset <= st'.token
    BY <1>1, <1>3, <1>4, <1>5, <1>7, <1>8
  <2> QED
    BY <1>2, <1>4, <1>8, <1>9, <2>1, CallFacts, SameRoomFacts
<1>11. ~PassedPlace(st, p)
  BY <1>3, <1>4, <1>5, CallFacts DEF PassedPlace
<1>12. \A q \in Positions : PassedPlace(st', q) <=> PassedPlace(st, q) \/ q = p
  <2> SUFFICES ASSUME NEW q \in Positions
               PROVE  PassedPlace(st', q) <=> PassedPlace(st, q) \/ q = p
    OBVIOUS
  <2>1. q \in Nat
    BY PlaceFacts
  <2>2. CASE Forward
    BY <1>3, <1>4, <1>5, <1>8, <2>1, <2>2 DEF PassedPlace
  <2>3. CASE ~Forward
    BY <1>3, <1>4, <1>5, <1>8, <2>1, <2>3 DEF PassedPlace
  <2> QED
    BY <2>2, <2>3
<1>13. matches' \in Seq(Message) /\ scanned' \in Nat /\ Covered' /\ OrderInv'
  <2>1. /\ phase # "idle"
        /\ \A r, q : PassedBy(st, r, q) <=> PassedRoom(st, r) \/ (r = Current /\ PassedPlace(st, q))
    BY <1>1, <1>2, PassedParts
  <2> QED
    BY <1>1, <1>2, <1>6, <1>10, <1>11, <1>12, <2>1, CollectKeeps
<1>14. PageInv'
  <2>1. UNCHANGED <<search, early, log>> /\ Current' = Current /\ page' = page
    BY <1>1, <1>8 DEF serverVars, clientVars, Current
  <2>2. st.offset + 1 <= size
    BY <1>1, <1>3
  <2> QED
    BY <1>2, <1>8, <2>1, <2>2 DEF PageInv, Forward, size
<1>15. PhaseInv'
  BY <1>1, <1>2, <1>8, <1>14 DEF PhaseInv, RoomsLeft
<1>16. roomScan' \in Nat
  BY <1>1, CallFacts
<1> QED
  BY <1>1, <1>9, <1>10, <1>13, <1>15, <1>16, CallFacts, CallKeeps

LEMMA FinishPageKeeps ==
  ASSUME IInv, FinishPage
  PROVE  IInv'
<1> DEFINE size == Len(page.events)
           end == page.end
<1>1. /\ UNCHANGED <<serverVars, clientVars, limit, matches, scanned, roomScan>>
      /\ phase = "page" /\ st.offset >= size /\ page' = NoPage
  BY DEF FinishPage
<1>2. /\ RoomsLeft /\ Current \in Rooms /\ Current = RoomOf(st) /\ st.snapshot
      /\ st.room < Len(st.rooms) /\ PageInv /\ st.initialized /\ Mode # "exact"
  BY <1>1, CallFacts DEF PhaseInv, PageInv, StateInv
<1>3. size \in Nat /\ st.offset \in Nat /\ st.offset = size
  <2>1. page.events \in Seq(Positions)
    BY CallFacts DEF Page
  <2>2. size \in Nat /\ st.offset \in Nat /\ st.offset <= size
    BY <1>2, <2>1, CallFacts, CursorFacts DEF PageInv
  <2> QED
    BY <1>1, <2>2
<1>4. st.token # None => st.token \in Nat
  BY CallFacts, CursorFacts
<1>5. early[Current] \in Nat /\ Len(log[Current]) \in Nat
  BY <1>2, CallFacts, BoundFacts, LogFacts
<1>6. /\ st.token = None => size = 0 /\ early[Current] = 0 /\ end \in {None, 0}
      /\ st.token # None =>
           /\ end # None => end = IF Forward THEN st.token + size ELSE st.token - size
           /\ IF Forward THEN st.token + size <= Len(log[Current]) ELSE size <= st.token
           /\ end \in {None, st.token} =>
                IF Forward THEN early[Current] <= st.token + size ELSE size = st.token
  BY <1>2 DEF PageInv
<1>7. \A p \in Positions : p \in Nat \ {0} /\ (Wanted(Current, p) => p <= early[Current])
  BY <1>2, CallFacts, PlaceFacts DEF Wanted
<1>8. page' \in Page
  <2>1. <<>> \in Seq(Positions)
    OBVIOUS
  <2> QED
    BY <1>1, <2>1 DEF NoPage, Page
<1>9. \A r, p : PassedBy(st, r, p) <=> PassedRoom(st, r) \/ (r = Current /\ PassedPlace(st, p))
  BY <1>2, PassedParts
<1>10. end \in Places \cup {None}
  BY CallFacts DEF Page, Places
<1> HIDE DEF size, end
<1>11. CASE end = None \/ end = st.token
  <2>1. st' = NextRoom(st) /\ phase' = "rooms"
    BY <1>11 DEF FinishPage, end
  <2>2. /\ st' \in Cursor /\ StateInv(st') /\ PhaseInv'
        /\ \A r \in Rooms, p \in Positions :
             PassedBy(st', r, p) <=> PassedBy(st, r, p) \/ r = Current
    BY <1>1, <1>2, <2>1, RoomDone
  <2>3. ASSUME NEW p \in Positions, Wanted(Current, p)  PROVE PassedPlace(st, p)
    <3>1. p \in Nat \ {0} /\ p <= early[Current]
      BY <1>7, <2>3
    <3>2. st.token # None
      BY <1>6, <3>1
    <3> QED
      BY <1>3, <1>4, <1>5, <1>6, <1>11, <3>1, <3>2 DEF PassedPlace
  <2>4. Covered' /\ OrderInv'
    BY <1>1, <1>9, <2>2, <2>3, MoveKeeps
  <2> QED
    BY <1>1, <1>8, <2>1, <2>2, <2>4, CallFacts, CallKeeps
<1>12. CASE end # None /\ end # st.token
  <2>1. st' = [st EXCEPT !.token = end, !.offset = 0] /\ phase' = "room"
    BY <1>12 DEF FinishPage, end
  <2>2. /\ st'.rooms = st.rooms /\ st'.room = st.room /\ st'.offset = 0
        /\ st'.snapshot /\ st'.initialized /\ st'.token = end
    BY <1>2, <2>1, CallFacts DEF Cursor
  <2>3. st' \in Cursor
    <3>1. end \in Positions \cup {0, None} /\ 0 \in 0..PageSize
      BY <1>10, SearchAssumption DEF Places
    <3> QED
      BY <2>1, <3>1, CallFacts DEF Cursor
  <2>4. /\ StateInv(st') /\ RoomOf(st') = Current
        /\ \A r \in Rooms, p \in Positions :
             PassedBy(st', r, p) <=> PassedRoom(st, r) \/ (r = Current /\ PassedPlace(st', p))
    <3>1. IF Forward THEN end + 0 <= Len(log[Current]) ELSE 0 <= end
      BY <1>3, <1>4, <1>5, <1>6, <1>12
    <3> QED
      BY <1>2, <1>12, <2>2, <2>3, <3>1, CallFacts, SameRoomFacts
  <2>5. \A p \in Positions : PassedPlace(st, p) => PassedPlace(st', p)
    <3> SUFFICES ASSUME NEW p \in Positions, PassedPlace(st, p)  PROVE PassedPlace(st', p)
      OBVIOUS
    <3>1. st.token # None /\ end = IF Forward THEN st.token + size ELSE st.token - size
      BY <1>6, <1>12 DEF PassedPlace
    <3> QED
      BY <1>3, <1>4, <1>7, <1>12, <2>2, <3>1 DEF PassedPlace
  <2>6. ASSUME NEW p \in Positions, PassedPlace(st', p), Wanted(Current, p)
        PROVE  PassedPlace(st, p)
    <3>1. p \in Nat \ {0} /\ p <= early[Current]
      BY <1>7, <2>6
    <3>2. st.token # None
      BY <1>6, <3>1
    <3>3. end = IF Forward THEN st.token + size ELSE st.token - size
      BY <1>6, <1>12, <3>2
    <3> QED
      BY <1>3, <1>4, <1>12, <2>2, <2>6, <3>1, <3>2, <3>3 DEF PassedPlace
  <2>7. Covered' /\ OrderInv'
    BY <1>1, <1>9, <2>4, <2>5, <2>6, MoveKeeps
  <2>8. PhaseInv'
    BY <1>1, <1>2, <2>1, <2>2 DEF PhaseInv, RoomsLeft
  <2> QED
    BY <1>1, <1>8, <2>1, <2>3, <2>4, <2>7, <2>8, CallFacts, CallKeeps
<1> QED
  BY <1>11, <1>12

-----------------------------------------------------------------------------
(* The end of a call.                                                       *)

LEMMA FreshFacts ==
  /\ FreshState \in Cursor
  /\ StateInv(FreshState)
  /\ \A r, p : ~PassedBy(FreshState, r, p)
<1>1. <<>> \in RoomLists /\ <<>> \in Seq(Rooms) /\ Len(<<>>) = 0
  <2>1. 0 \in 0..NumRooms
    BY SearchAssumption
  <2>2. <<>> \in [1..0 -> Rooms]
    OBVIOUS
  <2> QED
    BY <2>1, <2>2 DEF RoomLists
<1>2. FreshState \in Cursor
  <2>1. 0 \in 0..NumRooms /\ 0 \in 0..PageSize
    BY SearchAssumption
  <2> QED
    BY <1>1, <2>1 DEF FreshState, Cursor
<1>3. StateInv(FreshState)
  BY <1>1 DEF FreshState, StateInv
<1>4. \A r, p : ~PassedBy(FreshState, r, p)
  BY FreshHasPassedNothing DEF FreshState
<1> QED
  BY <1>2, <1>3, <1>4

\* The state between two calls.
LEMMA EndKeeps ==
  ASSUME IInv, ResetCall, UNCHANGED <<log, anchor>>, joined' \in SUBSET Rooms,
         faults' \in 0..MaxFaults, done' \in BOOLEAN,
         collected' \in Seq(Message), Ordered(collected'), AllPassed(collected', cursor'),
         cursor' \in Cursor, StateInv(cursor'),
         \A r \in Rooms, p \in Positions :
           PassedBy(cursor', r, p) /\ Wanted(r, p) /\ IsHit(r, p) => IsIn(collected', r, p)
  PROVE  IInv'
<1>1. /\ UNCHANGED <<search, early>> /\ phase' = "idle" /\ st' = FreshState /\ limit' = 0
      /\ matches' = <<>> /\ scanned' = 0 /\ roomScan' = 0 /\ page' = NoPage
  BY DEF ResetCall
<1>2. TypeOK'
  <2>1. matches' \in Seq(Message) /\ page' \in Page
    <3>1. <<>> \in Seq(Message) /\ <<>> \in Seq(Positions)
      OBVIOUS
    <3> QED
      BY <1>1, <3>1 DEF NoPage, Page
  <2> QED
    BY <1>1, <2>1, FreshFacts, CallFacts DEF TypeOK
<1>3. LogInv'
  BY <1>1, CallFacts DEF LogInv
<1>4. StateInv(st)' /\ StateInv(cursor)'
  BY <1>1, FreshFacts, StateFrame
<1>5. PhaseInv'
  BY <1>1 DEF PhaseInv
<1>6. NothingMissed' /\ Covered'
  BY <1>1, FreshFacts, CoveredFrame
<1>7. OrderInv'
  <2>1. Len(matches') = 0
    BY <1>1
  <2>2. Ordered(matches') /\ \A i \in 1..Len(collected'), j \in 1..Len(matches') :
                               Before(collected'[i], matches'[j])
    BY <2>1 DEF Ordered
  <2> QED
    BY <1>1, <2>2, OrderFrame
<1> QED
  BY <1>2, <1>3, <1>4, <1>5, <1>6, <1>7 DEF IInv

LEMMA RespondKeeps ==
  ASSUME IInv, phase # "idle", NEW exhausted \in BOOLEAN, Respond(exhausted),
         UNCHANGED <<log, anchor, joined>>, faults' \in 0..MaxFaults
  PROVE  IInv'
<1>1. /\ collected' = collected \o matches /\ cursor' = st /\ done' = exhausted
      /\ ResetCall
  BY DEF Respond, Received
<1>2. /\ collected' \in Seq(Message)
      /\ Len(collected) \in Nat /\ Len(matches) \in Nat
      /\ Len(collected') = Len(collected) + Len(matches)
      /\ \A i \in 1..Len(collected) : i \in 1..Len(collected') /\ collected'[i] = collected[i]
      /\ \A i \in 1..Len(matches) :
           Len(collected) + i \in 1..Len(collected') /\ collected'[Len(collected) + i] = matches[i]
  BY <1>1, CallFacts, ConcatProperties, LenProperties
<1>3. \A i \in 1..Len(collected') : i \in 1..Len(collected) \/ i - Len(collected) \in 1..Len(matches)
  BY <1>2
<1>4. \A i \in 1..Len(collected') : i \notin 1..Len(collected) =>
        i - Len(collected) \in 1..Len(matches) /\ collected'[i] = matches[i - Len(collected)]
  BY <1>2, <1>3
<1>5. AllPassed(collected', st)
  <2>1. AllPassed(collected, st) /\ AllPassed(matches, st)
    BY CallFacts DEF OrderInv
  <2> QED
    BY <1>2, <1>4, <2>1 DEF AllPassed
<1>6. Ordered(collected')
  <2> SUFFICES ASSUME NEW i \in 1..Len(collected'), NEW j \in 1..Len(collected'), i < j
               PROVE  Before(collected'[i], collected'[j])
    BY DEF Ordered
  <2>1. /\ \A k, l \in 1..Len(collected) : k < l => Before(collected[k], collected[l])
        /\ \A k, l \in 1..Len(matches) : k < l => Before(matches[k], matches[l])
        /\ \A k \in 1..Len(collected), l \in 1..Len(matches) : Before(collected[k], matches[l])
    BY CallFacts DEF OrderInv, Ordered
  <2>2. CASE i \in 1..Len(collected) /\ j \in 1..Len(collected)
    BY <1>2, <2>1, <2>2
  <2>3. CASE i \in 1..Len(collected) /\ j \notin 1..Len(collected)
    BY <1>2, <1>4, <2>1, <2>3
  <2>4. CASE i \notin 1..Len(collected)
    <3>1. j \notin 1..Len(collected)
      BY <1>2, <2>4
    <3>2. i - Len(collected) < j - Len(collected)
      BY <1>2
    <3> QED
      BY <1>4, <2>1, <2>4, <3>1, <3>2
  <2> QED
    BY <2>2, <2>3, <2>4
<1>7. ASSUME NEW r \in Rooms, NEW p \in Positions, PassedBy(st, r, p), Wanted(r, p), IsHit(r, p)
      PROVE  IsIn(collected', r, p)
  <2>1. IsIn(collected, r, p) \/ IsIn(matches, r, p)
    BY <1>7, CallFacts DEF Covered, IsCollected
  <2> QED
    BY <1>2, <2>1 DEF IsIn
<1> QED
  BY <1>1, <1>2, <1>5, <1>6, <1>7, CallFacts, EndKeeps DEF TypeOK

LEMMA LostKeeps ==
  ASSUME IInv, Lost
  PROVE  IInv'
<1>1. /\ UNCHANGED <<cursor, done, collected, log, joined, anchor>> /\ ResetCall
      /\ faults' \in 0..MaxFaults
  <2>1. faults \in 0..MaxFaults /\ MaxFaults \in Nat
    BY CallFacts, SearchAssumption DEF TypeOK
  <2> QED
    BY <2>1 DEF Lost, Fault
<1>2. \A r \in Rooms, p \in Positions :
        PassedBy(cursor, r, p) /\ Wanted(r, p) /\ IsHit(r, p) => IsIn(collected, r, p)
  BY CallFacts DEF NothingMissed, Passed, IsCollected
<1> QED
  BY <1>1, <1>2, CallFacts, EndKeeps DEF TypeOK, OrderInv

LEMMA NoLongerJoinedKeeps ==
  ASSUME IInv, NoLongerJoined
  PROVE  IInv'
<1>1. /\ UNCHANGED <<collected, done, log, joined, anchor, faults>> /\ ResetCall
      /\ phase = "membership"
  BY DEF NoLongerJoined, serverVars
<1>2. st = cursor
  BY <1>1, CallFacts DEF PhaseInv
<1>3. PICK rooms \in IF st.snapshot THEN {st.rooms} ELSE Sorted(Scope) :
        /\ \E i \in 1..Len(rooms) : rooms[i] \notin joined
        /\ cursor' = [st EXCEPT !.snapshot = TRUE, !.rooms = rooms]
  BY DEF NoLongerJoined
<1>4. rooms \in IF st.snapshot THEN {st.rooms}
                ELSE Sorted(IF Scope # {} THEN Scope ELSE joined)
  <2>1. CASE st.snapshot \/ Scope # {}
    BY <1>3, <2>1
  <2>2. CASE ~st.snapshot /\ Scope = {}
    <3>1. rooms \in [1..Cardinality({}) -> {}] /\ rooms # <<>>
      BY <1>3, <2>2 DEF Sorted
    <3>2. Cardinality({}) = 0
      BY FS_EmptySet
    <3> QED
      BY <3>1, <3>2
  <2> QED
    BY <2>1, <2>2
<1>5. /\ cursor' \in Cursor /\ StateInv(cursor')
      /\ \A r \in Rooms, p \in Positions : PassedBy(cursor', r, p) <=> PassedBy(cursor, r, p)
  BY <1>2, <1>3, <1>4, CallFacts, SnapshotFacts
<1>6. AllPassed(collected, cursor')
  <2>1. AllPassed(collected, cursor)
    BY CallFacts DEF OrderInv
  <2>2. \A i \in 1..Len(collected) : collected[i][1] \in Rooms /\ collected[i][2] \in Positions
    BY CallFacts, MessageFacts
  <2> QED
    BY <1>5, <2>1, <2>2 DEF AllPassed
<1>7. \A r \in Rooms, p \in Positions :
        PassedBy(cursor', r, p) /\ Wanted(r, p) /\ IsHit(r, p) => IsIn(collected, r, p)
  BY <1>5, CallFacts DEF NothingMissed, Passed, IsCollected
<1> QED
  BY <1>1, <1>5, <1>6, <1>7, CallFacts, EndKeeps DEF TypeOK, OrderInv

-----------------------------------------------------------------------------
(* Theorems.                                                                *)

\* IInv is an invariant: what the client and the running call have passed they
\* have, in order, however timelines grow and calls are cut off or lost.
THEOREM Inductive == Spec => []IInv
<1>1. Init => IInv
  <2> SUFFICES ASSUME Init PROVE IInv
    OBVIOUS
  <2>1. /\ st = FreshState /\ cursor = FreshState /\ matches = <<>> /\ collected = <<>>
        /\ phase = "idle" /\ page = NoPage /\ log \in [Rooms -> Timelines]
        /\ \A r \in Rooms : Len(log[r]) <= MaxEvents[r] /\ anchor[r] <= Len(log[r])
        /\ early = [r \in Rooms |-> Len(log[r])] /\ joined = Rooms
    BY DEF Init
  <2>2. \A r \in Rooms : Len(log[r]) \in Places
    <3> SUFFICES ASSUME NEW r \in Rooms PROVE Len(log[r]) \in Places
      OBVIOUS
    <3>1. PICK n \in Places : log[r] \in [1..n -> BOOLEAN]
      BY <2>1 DEF Timelines, Places
    <3>2. n \in Nat
      BY PlaceFacts DEF Places
    <3> QED
      BY <3>1, <3>2, ListsAreSeqs
  <2>3. anchor \in [Rooms -> Places] /\ early \in [Rooms -> Places]
    <3>1. 0 \in Places
      BY DEF Places
    <3> QED
      BY <2>1, <2>2, <3>1 DEF Init, Places
  <2>4. TypeOK
    <3>1. <<>> \in Seq(Message) /\ <<>> \in Seq(Positions)
      OBVIOUS
    <3>2. 0 \in 0..MaxFaults
      BY SearchAssumption
    <3>3. /\ anchor \in [Rooms -> Positions \cup {0}] /\ early \in [Rooms -> Positions \cup {0}]
          /\ page \in Page
      BY <2>1, <2>3, <3>1 DEF NoPage, Page, Places
    <3>4. /\ search \in Searches /\ faults = 0 /\ done = FALSE /\ limit = 0
          /\ scanned = 0 /\ roomScan = 0
      BY DEF Init
    <3> QED
      BY <2>1, <3>1, <3>2, <3>3, <3>4, FreshFacts DEF TypeOK
  <2>5. LogInv
    <3>1. Places \subseteq Nat
      BY PlaceFacts DEF Places
    <3> QED
      BY <2>1, <2>2, <3>1 DEF LogInv
  <2>6. StateInv(cursor) /\ StateInv(st) /\ PhaseInv
    BY <2>1, FreshFacts DEF PhaseInv
  <2>7. NothingMissed /\ Covered
    BY <2>1, FreshFacts DEF NothingMissed, Passed, Covered
  <2>8. OrderInv
    BY <2>1 DEF OrderInv, AllPassed, Ordered
  <2> QED
    BY <2>4, <2>5, <2>6, <2>7, <2>8 DEF IInv
<1>2. IInv /\ [Next]_vars => IInv'
  <2> SUFFICES ASSUME IInv, [Next]_vars PROVE IInv'
    OBVIOUS
  <2>1. CASE Begin
    BY <2>1, BeginKeeps
  <2>2. CASE Membership
    BY <2>2, MembershipKeeps
  <2>3. CASE NoLongerJoined
    BY <2>3, NoLongerJoinedKeeps
  <2>4. CASE EnterRoom
    BY <2>4, EnterRoomKeeps
  <2>5. CASE LookUpMessage
    BY <2>5, LookUpMessageKeeps
  <2>6. CASE Anchor
    BY <2>6, AnchorKeeps
  <2>7. CASE FromTheEnd
    BY <2>7, FromTheEndKeeps
  <2>8. CASE ReadPage
    BY <2>8, ReadPageKeeps
  <2>9. CASE ScanEvent
    BY <2>9, ScanEventKeeps
  <2>10. CASE FinishPage
    BY <2>10, FinishPageKeeps
  <2>11. CASE StopWhenFull \/ Exhausted \/ CutOff
    <3>1. faults \in 0..MaxFaults /\ MaxFaults \in Nat
      BY CallFacts, SearchAssumption DEF TypeOK
    <3>2. CASE StopWhenFull
      <4>1. phase # "idle" /\ UNCHANGED <<log, anchor, joined, faults>> /\ Respond(FALSE)
        BY <3>2 DEF StopWhenFull, serverVars
      <4> QED
        BY <3>1, <4>1, RespondKeeps
    <3>3. CASE Exhausted
      <4>1. phase # "idle" /\ UNCHANGED <<log, anchor, joined, faults>> /\ Respond(TRUE)
        BY <3>3 DEF Exhausted, serverVars
      <4> QED
        BY <3>1, <4>1, RespondKeeps
    <3>4. CASE CutOff
      <4>1. phase # "idle" /\ UNCHANGED <<log, anchor, joined>> /\ Respond(FALSE)
            /\ faults < MaxFaults /\ faults' = faults + 1
        BY <3>4 DEF CutOff, Fault
      <4>2. faults' \in 0..MaxFaults
        BY <3>1, <4>1
      <4> QED
        BY <4>1, <4>2, RespondKeeps
    <3> QED
      BY <2>11, <3>2, <3>3, <3>4
  <2>12. CASE Lost
    BY <2>12, LostKeeps
  <2>13. ASSUME NEW r \in Rooms, Arrive(r) \/ Leave(r) \/ Rejoin(r)  PROVE IInv'
    BY <2>13, ArriveKeeps, MovesKeep
  <2>14. CASE UNCHANGED vars
    <3>1. /\ UNCHANGED <<log, joined, anchor, faults, search, cursor, done, collected, early>>
          /\ UNCHANGED <<phase, st, limit, matches, scanned, roomScan, page>>
      BY <2>14 DEF vars
    <3>2. TypeOK' /\ LogInv'
      BY <3>1, CallFacts DEF TypeOK, LogInv
    <3>3. StateInv(st)' /\ StateInv(cursor)'
      BY <3>1, CallFacts, StateFrame
    <3>4. PhaseInv'
      BY <3>1, CallFacts DEF PhaseInv, PageInv, RoomsLeft, Current, Forward
    <3>5. NothingMissed' /\ Covered'
      BY <3>1, CallFacts, CoveredFrame DEF NothingMissed, Passed, Covered, IsCollected
    <3>6. OrderInv'
      BY <3>1, CallFacts, OrderFrame DEF OrderInv
    <3> QED
      BY <3>2, <3>3, <3>4, <3>5, <3>6 DEF IInv
  <2> QED
    BY <2>1, <2>2, <2>3, <2>4, <2>5, <2>6, <2>7, <2>8, <2>9, <2>10, <2>11, <2>12, <2>13, <2>14
       DEF Next, CallStep
<1> QED
  BY <1>1, <1>2, PTL DEF Spec

\* Types are kept: in particular a cursor names a place that exists.
THEOREM TypeCorrect == Spec => []TypeOK
<1>1. IInv => TypeOK
  BY DEF IInv
<1> QED
  BY <1>1, Inductive, PTL

\* Nothing is missed: whatever cuts calls off, a hit that the cursor has passed
\* was handed to the client.
THEOREM NothingIsMissed == Spec => []NothingMissed
<1>1. IInv => NothingMissed
  BY DEF IInv
<1> QED
  BY <1>1, Inductive, PTL

\* No message is given twice, and they come in the native order of each room.
THEOREM InOrder == Spec => []InOrderOnce
<1>1. IInv => InOrderOnce
  <2> SUFFICES ASSUME IInv, NEW i \in 1..Len(collected) - 1
               PROVE  Before(collected[i], collected[i + 1])
    BY DEF InOrderOnce
  <2>1. Len(collected) \in Nat /\ Ordered(collected)
    BY CallFacts DEF OrderInv
  <2>2. i \in 1..Len(collected) /\ i + 1 \in 1..Len(collected) /\ i < i + 1
    BY <2>1
  <2> QED
    BY <2>1, <2>2 DEF Ordered
<1> QED
  BY <1>1, Inductive, PTL

\* The cursor that a client holds always passes the sidecar's decoding.
THEOREM CursorDecodes == Spec => []DecodeOk(cursor)
<1>1. IInv => DecodeOk(cursor)
  <2> SUFFICES ASSUME IInv PROVE DecodeOk(cursor)
    OBVIOUS
  <2>1. /\ cursor \in Cursor /\ StateInv(cursor) /\ cursor.offset <= PageSize
        /\ cursor.room \in Nat /\ Len(cursor.rooms) \in Nat
    BY CallFacts, CursorFacts
  <2> QED
    BY <2>1 DEF DecodeOk, StateInv
<1> QED
  BY <1>1, Inductive, PTL

-----------------------------------------------------------------------------
(* The search goes on.                                                      *)

\* How far a cursor's state is into its room: not begun, begun without a token,
\* or at a distance along the traversal.
Stage(s) == IF ~s.initialized THEN 0 ELSE IF s.token = None THEN 1 ELSE 2
Distance(s) == IF Forward THEN s.token + s.offset ELSE s.offset - s.token

\* State b is further in the search than a.
Further(a, b) ==
  \/ a.room < b.room
  \/ /\ a.room = b.room
     /\ Stage(a) < Stage(b) \/ (Stage(a) = 2 /\ Stage(b) = 2 /\ Distance(a) < Distance(b))

AsFar(a, b) ==
  \/ Further(a, b)
  \/ /\ a.room = b.room /\ Stage(a) = Stage(b)
     /\ Stage(a) = 2 => Distance(a) = Distance(b)

\* Whatever a call ends with, a cursor never goes back; and the cursor of a call
\* that stopped at the client's limit or at a scan budget is further on, so that
\* following it does not go round, however small the limits are.
CursorGoesOn == [][AsFar(cursor, cursor') /\ (StopWhenFull => Further(cursor, cursor'))]_vars

LEMMA DistanceTypes ==
  ASSUME NEW s \in Cursor, Forward \in BOOLEAN
  PROVE  /\ s.room \in Nat /\ Stage(s) \in 0..2
         /\ Stage(s) = 2 => Distance(s) \in Int
<1>1. /\ s.room \in Nat /\ s.offset \in Nat
      /\ s.token # None => s.token \in Nat
  BY CursorFacts
<1>2. Stage(s) = 2 => s.token # None
  BY DEF Stage
<1> QED
  BY <1>1, <1>2 DEF Stage, Distance

LEMMA FurtherOrder ==
  ASSUME NEW a \in Cursor, NEW b \in Cursor, NEW c \in Cursor, Forward \in BOOLEAN
  PROVE  /\ AsFar(a, a)
         /\ AsFar(a, b) /\ AsFar(b, c) => AsFar(a, c)
         /\ AsFar(a, b) /\ Further(b, c) => Further(a, c)
         /\ Further(a, b) /\ AsFar(b, c) => Further(a, c)
<1>1. /\ a.room \in Nat /\ b.room \in Nat /\ c.room \in Nat
      /\ Stage(a) \in Int /\ Stage(b) \in Int /\ Stage(c) \in Int
      /\ Stage(a) = 2 => Distance(a) \in Int
      /\ Stage(b) = 2 => Distance(b) \in Int
      /\ Stage(c) = 2 => Distance(c) \in Int
  BY DistanceTypes
<1> QED
  BY <1>1 DEF AsFar, Further

\* Nothing was scanned before the first room; a call's state is as far as the
\* client's cursor, and further once an event was scanned.
GainInv ==
  /\ phase \in {"idle", "membership"} => matches = <<>> /\ scanned = 0 /\ roomScan = 0
  /\ phase # "idle" =>
       /\ limit \in Limits
       /\ AsFar(cursor, st)
       /\ matches # <<>> \/ scanned > 0 \/ roomScan > 0 => Further(cursor, st)

LEMMA OrderOfSearch ==
  ASSUME search' = search
  PROVE  /\ AsFar(cursor, st)' <=> AsFar(cursor', st')
         /\ Further(cursor, st)' <=> Further(cursor', st')
BY DEF AsFar, Further, Stage, Distance, Forward

LEMMA GainKeeps ==
  ASSUME IInv, st' \in Cursor, GainInv, phase # "idle", phase' \notin {"idle", "membership"},
         UNCHANGED <<search, cursor, limit>>, AsFar(st, st'),
         \/ Further(st, st')
         \/ matches' = matches /\ scanned' = scanned /\ roomScan' \in {roomScan, 0}
  PROVE  GainInv'
<1>1. AsFar(cursor', st') /\ (Further(cursor, st) \/ Further(st, st') => Further(cursor', st'))
  BY CallFacts, FurtherOrder DEF GainInv
<1>2. matches' # <<>> \/ scanned' > 0 \/ roomScan' > 0 => Further(cursor, st) \/ Further(st, st')
  BY DEF GainInv
<1> QED
  BY <1>1, <1>2, OrderOfSearch DEF GainInv

\* A room that is done is passed.
LEMMA NextRoomIsFurther ==
  ASSUME NEW s \in Cursor
  PROVE  Further(s, NextRoom(s))
<1>1. s.room \in Nat
  BY CursorFacts
<1>2. NextRoom(s).room = s.room + 1
  BY DEF NextRoom, Cursor
<1> QED
  BY <1>1, <1>2 DEF Further

LEMMA MembershipGains ==
  ASSUME IInv, GainInv, Membership, st' \in Cursor
  PROVE  GainInv'
<1>1. /\ UNCHANGED <<clientVars, limit, matches, scanned, roomScan>>
      /\ phase = "membership" /\ phase' = "rooms"
  BY DEF Membership
<1>2. PICK rooms : st' = [st EXCEPT !.snapshot = TRUE, !.rooms = rooms]
  BY DEF Membership
<1>3. /\ st'.room = st.room /\ st'.initialized = st.initialized
      /\ st'.token = st.token /\ st'.offset = st.offset
  BY <1>2, CallFacts DEF Cursor
<1>4. AsFar(st, st')
  BY <1>3 DEF AsFar, Stage, Distance
<1> QED
  BY <1>1, <1>4, GainKeeps DEF clientVars

LEMMA RoomGains ==
  ASSUME IInv, GainInv, EnterRoom \/ LookUpMessage, st' \in Cursor
  PROVE  GainInv'
<1>1. CASE EnterRoom
  <2>1. /\ UNCHANGED <<search, cursor, limit, st, matches, scanned>> /\ roomScan' = 0
        /\ phase = "rooms" /\ phase' = "room"
    BY <1>1 DEF EnterRoom, clientVars
  <2>2. AsFar(st, st')
    BY <2>1, CallFacts, FurtherOrder
  <2> QED
    BY <2>1, <2>2, GainKeeps
<1>2. CASE LookUpMessage
  <2>1. /\ UNCHANGED <<search, cursor, limit>> /\ st' = NextRoom(st)
        /\ phase = "room" /\ phase' = "rooms"
    BY <1>2 DEF LookUpMessage, clientVars
  <2>2. Further(st, st')
    BY <2>1, CallFacts, NextRoomIsFurther
  <2> QED
    BY <2>1, <2>2, GainKeeps DEF AsFar
<1> QED
  BY <1>1, <1>2

\* Where a room begins, the anchor's token or the start of a page is further on.
LEMMA BeginningGains ==
  ASSUME IInv, GainInv, Anchor \/ FromTheEnd, st' \in Cursor
  PROVE  GainInv'
<1>1. UNCHANGED <<search, cursor, limit>> /\ phase = "room" /\ phase' \in {"room", "rooms"}
      /\ ~st.initialized
  BY DEF Anchor, FromTheEnd, clientVars
<1>2. CASE st' = NextRoom(st)
  BY <1>1, <1>2, CallFacts, NextRoomIsFurther, GainKeeps DEF AsFar
<1>3. CASE st'.initialized /\ st'.room = st.room
  <2>1. Stage(st) = 0 /\ Stage(st') > 0
    BY <1>1, <1>3 DEF Stage
  <2>2. Further(st, st')
    BY <1>3, <2>1 DEF Further
  <2> QED
    BY <1>1, <2>2, GainKeeps DEF AsFar
<1>4. \/ st' = NextRoom(st)
      \/ \E token : st' = [st EXCEPT !.token = token, !.initialized = TRUE]
      \/ st' = [st EXCEPT !.initialized = TRUE]
  BY DEF Anchor, FromTheEnd
<1> QED
  BY <1>2, <1>3, <1>4, CallFacts DEF Cursor

\* A page's token is where the room's state is; only the first one is new.
LEMMA ReadPageGains ==
  ASSUME IInv, GainInv, ReadPage, st' \in Cursor
  PROVE  GainInv'
<1>1. /\ UNCHANGED <<search, cursor, limit, matches, scanned, roomScan>>
      /\ phase = "room" /\ phase' = "page" /\ st.initialized
  BY DEF ReadPage, clientVars
<1>2. PICK token : st' = [st EXCEPT !.token = IF @ = None THEN token ELSE @]
  BY DEF ReadPage
<1>3. /\ st'.room = st.room /\ st'.initialized /\ st'.offset = st.offset
      /\ st'.token = IF st.token = None THEN token ELSE st.token
  BY <1>1, <1>2, CallFacts DEF Cursor
<1>4. AsFar(st, st')
  <2>1. CASE st.token = None
    BY <1>1, <1>3, <2>1 DEF AsFar, Further, Stage
  <2>2. CASE st.token # None
    BY <1>1, <1>3, <2>2 DEF AsFar, Stage, Distance
  <2> QED
    BY <2>1, <2>2
<1> QED
  BY <1>1, <1>4, GainKeeps

LEMMA ScanEventGains ==
  ASSUME IInv, GainInv, ScanEvent, st' \in Cursor
  PROVE  GainInv'
<1>1. /\ UNCHANGED <<search, cursor, limit, phase, page>> /\ phase = "page"
      /\ st.offset < Len(page.events) /\ st' = [st EXCEPT !.offset = @ + 1]
  BY DEF ScanEvent, clientVars
<1>2. st.initialized /\ st.token # None /\ st.token \in Nat /\ st.offset \in Nat
  <2>1. PageInv
    BY <1>1, CallFacts DEF PhaseInv
  <2>2. st.offset \in Nat /\ (st.token # None => st.token \in Nat)
    BY CallFacts, CursorFacts
  <2> QED
    BY <1>1, <2>1, <2>2 DEF PageInv
<1>3. /\ st'.room = st.room /\ st'.initialized = st.initialized
      /\ st'.token = st.token /\ st'.offset = st.offset + 1
  BY <1>1, CallFacts DEF Cursor
<1>4. Stage(st) = 2 /\ Stage(st') = 2 /\ Distance(st) < Distance(st')
  BY <1>2, <1>3, CallFacts DEF Stage, Distance
<1> QED
  BY <1>1, <1>3, <1>4, GainKeeps DEF AsFar, Further

\* The token after a page that is through is as far as the page's last event.
LEMMA FinishPageGains ==
  ASSUME IInv, GainInv, FinishPage, st' \in Cursor
  PROVE  GainInv'
<1>1. /\ UNCHANGED <<search, cursor, limit, matches, scanned, roomScan>>
      /\ phase = "page" /\ phase' \in {"room", "rooms"} /\ st.offset >= Len(page.events)
  BY DEF FinishPage, clientVars
<1>2. CASE st' = NextRoom(st)
  BY <1>1, <1>2, CallFacts, NextRoomIsFurther, GainKeeps DEF AsFar
<1>3. CASE /\ page.end # None /\ page.end # st.token
           /\ st' = [st EXCEPT !.token = page.end, !.offset = 0]
  <2>1. PageInv
    BY <1>1, CallFacts DEF PhaseInv
  <2>2. st.offset \in Nat /\ (st.token # None => st.token \in Nat) /\ Len(page.events) \in Nat
    <3>1. page.events \in Seq(Positions)
      BY CallFacts DEF Page
    <3> QED
      BY <3>1, CallFacts, CursorFacts
  <2>3. st.initialized /\ st.offset = Len(page.events)
    BY <1>1, <2>1, <2>2 DEF PageInv
  <2>4. /\ st'.room = st.room /\ st'.initialized /\ st'.token = page.end /\ st'.offset = 0
    BY <1>3, <2>3, CallFacts DEF Cursor
  <2>5. CASE st.token = None
    BY <1>3, <2>3, <2>4, <2>5, <1>1, GainKeeps DEF AsFar, Further, Stage
  <2>6. CASE st.token # None
    <3>1. page.end = IF Forward THEN st.token + st.offset ELSE st.token - st.offset
      BY <1>3, <2>1, <2>3, <2>6 DEF PageInv
    <3>2. Distance(st) = Distance(st')
      BY <2>2, <2>4, <2>6, <3>1, CallFacts DEF Distance
    <3>3. Stage(st) = 2 /\ Stage(st') = 2
      BY <1>3, <2>3, <2>4, <2>6 DEF Stage
    <3> QED
      BY <1>1, <2>4, <3>2, <3>3, GainKeeps DEF AsFar
  <2> QED
    BY <2>5, <2>6
<1> QED
  BY <1>2, <1>3 DEF FinishPage

LEMMA GainStep == IInv /\ IInv' /\ GainInv /\ [Next]_vars => GainInv'
<1> SUFFICES ASSUME IInv, IInv', GainInv, [Next]_vars PROVE GainInv'
  OBVIOUS
<1>1. st' \in Cursor
  BY DEF IInv, TypeOK
<1>2. CASE Begin
  <2>1. /\ UNCHANGED <<search, cursor, matches, scanned, roomScan>>
        /\ phase = "idle" /\ phase' = "membership" /\ st' = cursor
        /\ limit' \in Limits
    BY <1>2 DEF Begin, clientVars
  <2>2. AsFar(cursor', st')
    BY <2>1, CallFacts, FurtherOrder
  <2> QED
    BY <2>1, <2>2, OrderOfSearch DEF GainInv
<1>3. CASE ResetCall
  BY <1>3 DEF ResetCall, GainInv
<1>4. CASE \/ UNCHANGED <<search, cursor, limit, phase, st, matches, scanned, roomScan>>
  BY <1>4, OrderOfSearch DEF GainInv
<1>5. CASE Membership \/ EnterRoom \/ LookUpMessage \/ Anchor \/ FromTheEnd \/ ReadPage
             \/ ScanEvent \/ FinishPage
  BY <1>1, <1>5, MembershipGains, RoomGains, BeginningGains, ReadPageGains, ScanEventGains,
     FinishPageGains
<1>6. NoLongerJoined \/ StopWhenFull \/ Exhausted \/ CutOff \/ Lost => ResetCall
  BY DEF NoLongerJoined, StopWhenFull, Exhausted, CutOff, Lost, Respond
<1>7. UNCHANGED vars \/ (\E r \in Rooms : Arrive(r) \/ Leave(r) \/ Rejoin(r))
        => UNCHANGED <<search, cursor, limit, phase, st, matches, scanned, roomScan>>
  BY DEF vars, Arrive, Leave, Rejoin, clientVars, callVars
<1> QED
  BY <1>2, <1>3, <1>4, <1>5, <1>6, <1>7 DEF Next, CallStep

\* A call that is full has scanned an event, for no limit and no budget is zero.
LEMMA FullHasGained ==
  ASSUME IInv, GainInv, StopWhenFull
  PROVE  Further(cursor, st)
<1>1. /\ phase \in {"rooms", "room", "page"}
      /\ Len(matches) >= limit \/ scanned >= ScanLimit \/ roomScan >= RoomLimit
  BY DEF StopWhenFull, Full
<1>2. /\ limit \in Nat \ {0} /\ ScanLimit \in Nat \ {0} /\ RoomLimit \in Nat \ {0}
      /\ matches # <<>> \/ scanned > 0 \/ roomScan > 0 => Further(cursor, st)
  <2>1. phase # "idle"
    BY <1>1
  <2> QED
    BY <2>1, SearchAssumption DEF GainInv
<1>3. matches = <<>> => Len(matches) = 0
  OBVIOUS
<1>4. scanned \in Nat /\ roomScan \in Nat
  BY CallFacts
<1> QED
  BY <1>1, <1>2, <1>3, <1>4

\* The cursor never goes back, and each page of a search moves it on.
THEOREM SearchGoesOn == Spec => CursorGoesOn
<1>1. Init => GainInv
  BY DEF Init, GainInv
<1>2. IInv /\ IInv' /\ GainInv /\ [Next]_vars => GainInv'
  BY GainStep
<1>3. IInv /\ IInv' /\ GainInv /\ [Next]_vars =>
        [AsFar(cursor, cursor') /\ (StopWhenFull => Further(cursor, cursor'))]_vars
  <2> SUFFICES ASSUME IInv, GainInv, Next
               PROVE  AsFar(cursor, cursor') /\ (StopWhenFull => Further(cursor, cursor'))
    OBVIOUS
  <2>1. ASSUME StopWhenFull PROVE Further(cursor, cursor')
    <3>1. cursor' = st
      BY <2>1 DEF StopWhenFull, Respond, Received
    <3> QED
      BY <2>1, <3>1, FullHasGained
  <2>2. CASE StopWhenFull \/ Exhausted \/ CutOff
    <3>1. phase # "idle" /\ cursor' = st
      BY <2>2 DEF StopWhenFull, Exhausted, CutOff, Respond, Received
    <3> QED
      BY <2>1, <3>1 DEF GainInv
  <2>3. CASE NoLongerJoined
    <3>1. phase = "membership" /\ \E rooms : cursor' = [st EXCEPT !.snapshot = TRUE, !.rooms = rooms]
      BY <2>3 DEF NoLongerJoined
    <3>2. /\ cursor'.room = st.room /\ cursor'.initialized = st.initialized
          /\ cursor'.token = st.token /\ cursor'.offset = st.offset
      BY <3>1, CallFacts DEF Cursor
    <3>3. AsFar(cursor, st)
      BY <3>1 DEF GainInv
    <3>4. ~StopWhenFull
      BY <3>1 DEF StopWhenFull
    <3> QED
      BY <3>2, <3>3, <3>4 DEF AsFar, Further, Stage, Distance
  <2>4. CASE cursor' = cursor
    BY <2>1, <2>4, CallFacts, FurtherOrder
  <2>5. StopWhenFull \/ Exhausted \/ CutOff \/ NoLongerJoined \/ cursor' = cursor
    BY DEF Next, CallStep, Begin, Membership, EnterRoom, LookUpMessage, Anchor, FromTheEnd,
           ReadPage, ScanEvent, FinishPage, Lost, Arrive, Leave, Rejoin, clientVars
  <2> QED
    BY <2>1, <2>2, <2>3, <2>4, <2>5
<1> QED
  BY <1>1, <1>2, <1>3, Inductive, PTL DEF Spec, CursorGoesOn
=============================================================================
