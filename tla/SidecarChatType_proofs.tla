----------------------- MODULE SidecarChatType_proofs -----------------------
(***************************************************************************)
(* Proofs about SidecarChatType for any rooms, any number of tasks under     *)
(* way at once and changes at any moment: the types, that the sets a chat    *)
(* type is decided from end as the homeserver's, and that a type decided     *)
(* with nothing else handled meanwhile is right.                             *)
(***************************************************************************)
EXTENDS SidecarChatType, TLAPS, SequenceTheorems

-----------------------------------------------------------------------------
(* Types, and what each task awaits.                                        *)

LEMMA NoAnswerType == NoAnswer \in Answer
BY DEF NoAnswer, Answer, Counts

\* The variables of the tasks, of which all but one go on as they are.
TaskTypes ==
  /\ task \in [Tasks -> {"free", "message", "member", "get_chat", "mark"}]
  /\ at \in [Tasks -> {"none", "count", "title", "direct", "put"}]
  /\ room \in [Tasks -> Rooms \cup {NoRoom}]
  /\ count \in [Tasks -> Counts \cup {0}]
  /\ served \in [Tasks -> BOOLEAN]
  /\ answer \in [Tasks -> Answer]

LEMMA InitTypes == Init => TypeOK /\ TaskInv
<1> SUFFICES ASSUME Init PROVE TypeOK /\ TaskInv
  OBVIOUS
<1>1. sync \in Seq(Event)
  <2>1. CASE sync = <<>>
    BY <2>1
  <2>2. CASE \E r \in Rooms : sync = <<[type |-> "member", room |-> r]>>
    <3>1. PICK r \in Rooms : sync = <<[type |-> "member", room |-> r]>>
      BY <2>2
    <3>2. [type |-> "member", room |-> r] \in Event
      BY DEF Event
    <3> QED
      BY <3>1, <3>2
  <2> QED
    BY <2>1, <2>2, InputAssumption DEF Init
<1>2. memberCount \in [Rooms -> Counts \cup {0}]
  BY DEF Init
<1>3. TypeOK
  <2>1. TaskTypes
    BY NoAnswerType DEF Init, TaskTypes
  <2>2. changes \in 0..MaxChanges /\ started \in 0..MaxTasks /\ failures \in 0..MaxFailures
    BY InputAssumption DEF Init
  <2>3. /\ direct \subseteq Rooms /\ directRooms \subseteq Rooms
        /\ wanted \subseteq Rooms /\ stale \in BOOLEAN
        /\ members \in [Rooms -> Counts]
        /\ titled \in [Rooms -> BOOLEAN]
        /\ crossed \in BOOLEAN /\ mixed \in BOOLEAN
        /\ chatType \in [Rooms -> Types \cup {"none"}]
    BY InputAssumption DEF Init
  <2> QED
    BY <1>1, <1>2, <2>1, <2>2, <2>3 DEF TypeOK, TaskTypes
<1>4. TaskInv
  BY DEF Init, TaskInv, Busy
<1> QED
  BY <1>3, <1>4

\* A change appends its event and leaves the sidecar as it is.
LEMMA ChangeTypes ==
  ASSUME TypeOK, TaskInv, NEW e \in Event, OthersChange(e),
         direct' \subseteq Rooms, wanted' \subseteq Rooms,
         members' \in [Rooms -> Counts], titled' \in [Rooms -> BOOLEAN]
  PROVE  TypeOK' /\ TaskInv'
<1>1. sync' \in Seq(Event)
  BY AppendProperties DEF OthersChange, TypeOK
<1>2. crossed' \in BOOLEAN /\ changes' \in 0..MaxChanges
  BY InputAssumption DEF OthersChange, Crosses, TypeOK
<1>3. TypeOK'
  BY <1>1, <1>2 DEF OthersChange, TypeOK, cacheVars, taskVars
<1>4. TaskInv'
  BY DEF OthersChange, TaskInv, Busy, taskVars
<1> QED
  BY <1>3, <1>4

LEMMA BeginTypes ==
  ASSUME TypeOK, TaskInv, NEW t \in Tasks, NEW r \in Rooms,
         NEW which \in {"message", "member", "get_chat", "mark"},
         NEW what \in {"count", "title", "direct"}, NEW n \in Counts \cup {0},
         Begin(t, which, r, what, n),
         which = "message" => what \in {"count", "title"},
         which = "member" => what = "count",
         which \in {"get_chat", "mark"} => what = "direct"
  PROVE  TaskTypes' /\ TaskInv'
<1>1. /\ task' = [task EXCEPT ![t] = which]
      /\ at' = [at EXCEPT ![t] = what]
      /\ room' = [room EXCEPT ![t] = r]
      /\ count' = [count EXCEPT ![t] = n]
      /\ served' = [served EXCEPT ![t] = FALSE]
      /\ answer' = answer
  BY DEF Begin, Await
<1>2. TaskTypes'
  BY <1>1 DEF TypeOK, TaskTypes
<1>3. TaskInv'
  BY <1>1 DEF TypeOK, TaskInv, Busy
<1> QED
  BY <1>2, <1>3

LEMMA AwaitTypes ==
  ASSUME TypeOK, TaskInv, NEW t \in Tasks, Busy(t),
         NEW what \in {"count", "title", "put"}, NEW n \in Counts \cup {0},
         Await(t, what, n), UNCHANGED <<task, room, answer>>,
         task[t] = "message" => what = "title",
         task[t] # "member",
         task[t] = "get_chat" => what \in {"count", "title"},
         task[t] = "mark" => what = "put"
  PROVE  TaskTypes' /\ TaskInv'
<1>1. TaskTypes'
  BY DEF Await, TypeOK, TaskTypes
<1>2. TaskInv'
  BY DEF Await, TypeOK, TaskInv, Busy
<1> QED
  BY <1>1, <1>2

LEMMA EndTypes ==
  ASSUME TypeOK, TaskInv, NEW t \in Tasks, End(t)
  PROVE  TaskTypes' /\ TaskInv'
<1>1. TaskTypes'
  BY NoAnswerType DEF End, TypeOK, TaskTypes
<1>2. TaskInv'
  BY DEF End, TypeOK, TaskInv, Busy
<1> QED
  BY <1>1, <1>2

LEMMA MixesType == TypeOK /\ Mixes => mixed' \in BOOLEAN
BY DEF Mixes, TypeOK

LEMMA HeadIsEvent ==
  ASSUME TypeOK, sync # <<>>
  PROVE  /\ Head(sync) \in Event /\ Tail(sync) \in Seq(Event)
         /\ Head(sync).type \in {"message", "member", "metadata"} => Head(sync).room \in Rooms
         /\ Head(sync).type = "direct" => Head(sync).rooms \subseteq Rooms
<1>1. Head(sync) \in Event /\ Tail(sync) \in Seq(Event)
  BY HeadTailProperties DEF TypeOK
<1> QED
  BY <1>1 DEF Event

LEMMA HandleTypes ==
  ASSUME TypeOK, TaskInv, Handle
  PROVE  TypeOK' /\ TaskInv'
<1> DEFINE e == Head(sync)
<1>1. /\ sync # <<>> /\ sync' = Tail(sync) /\ Mixes
      /\ UNCHANGED <<direct, wanted, stale, members, titled, crossed, changes, started, failures>>
      /\ \/ e.type = "message" /\ \E t \in Tasks : HandleMessage(t, e.room)
         \/ e.type = "member" /\ \E t \in Tasks : HandleMember(t, e.room)
         \/ e.type = "metadata" /\ HandleMetadata(e.room)
         \/ e.type = "direct" /\ HandleDirect(e.rooms)
  BY DEF Handle
<1>2. /\ sync' \in Seq(Event)
      /\ e.type \in {"message", "member", "metadata"} => e.room \in Rooms
      /\ e.type = "direct" => e.rooms \subseteq Rooms
  BY <1>1, HeadIsEvent
<1> HIDE DEF e
<1>3. TaskTypes' /\ TaskInv'
  <2>1. CASE UNCHANGED <<task, at, room, count, served, answer>>
    BY <2>1 DEF TypeOK, TaskTypes, TaskInv, Busy
  <2>2. ASSUME NEW t \in Tasks, NEW r \in Rooms, HandleMessage(t, r),
               ~UNCHANGED <<task, at, room, count, served, answer>>
        PROVE  TaskTypes' /\ TaskInv'
    <3>1. memberCount[r] \in Counts \cup {0}
      BY DEF TypeOK
    <3>2. \/ Begin(t, "message", r, "count", 0)
          \/ Begin(t, "message", r, "title", memberCount[r])
      BY <2>2 DEF HandleMessage
    <3> QED
      BY <3>1, <3>2, BeginTypes
  <2>3. ASSUME NEW t \in Tasks, NEW r \in Rooms, HandleMember(t, r)
        PROVE  TaskTypes' /\ TaskInv'
    BY <2>3, BeginTypes DEF HandleMember
  <2> QED
    BY <1>1, <1>2, <2>1, <2>2, <2>3 DEF HandleMetadata, HandleDirect
<1>4. /\ directRooms' \subseteq Rooms
      /\ memberCount' \in [Rooms -> Counts \cup {0}]
      /\ chatType' \in [Rooms -> Types \cup {"none"}]
  BY <1>1, <1>2
  DEF TypeOK, HandleMessage, HandleMember, HandleMetadata, HandleDirect, cacheVars
<1> QED
  BY <1>1, <1>2, <1>3, <1>4, MixesType DEF TypeOK, TaskTypes

LEMMA SayTypes ==
  ASSUME TypeOK, TaskInv, NEW r \in Rooms, Say(r)
  PROVE  TypeOK' /\ TaskInv'
<1>1. [type |-> "message", room |-> r] \in Event
  BY DEF Event
<1>2. sync' \in Seq(Event)
  BY <1>1, AppendProperties DEF Say, TypeOK
<1>3. started' \in 0..MaxTasks
  BY InputAssumption DEF Say, TypeOK
<1> QED
  BY <1>2, <1>3 DEF Say, TypeOK, TaskInv, Busy, cacheVars, taskVars

LEMMA CommandTypes ==
  ASSUME TypeOK, TaskInv, NEW t \in Tasks, NEW which \in {"get_chat", "mark"}, NEW r \in Rooms,
         Command(t, which, r)
  PROVE  TypeOK' /\ TaskInv'
<1>1. Begin(t, which, r, "direct", 0)
  BY DEF Command
<1>2. TaskTypes' /\ TaskInv'
  BY <1>1, BeginTypes
<1>3. started' \in 0..MaxTasks
  BY InputAssumption DEF Command, TypeOK
<1> QED
  BY <1>2, <1>3, MixesType DEF Command, TypeOK, TaskTypes, cacheVars

LEMMA ServeTypes ==
  ASSUME TypeOK, TaskInv, NEW t \in Tasks, ServeRead(t) \/ ServePut(t) \/ Fails(t)
  PROVE  TypeOK' /\ TaskInv'
<1>1. CASE ServeRead(t)
  <2>1. room[t] \in Rooms
    BY <1>1 DEF ServeRead, TaskInv
  <2>2. Told(t) \in Answer
    BY <2>1 DEF TypeOK, Answer, Told, NoAnswer, Counts
  <2>3. TaskTypes' /\ TaskInv'
    BY <1>1, <2>2 DEF ServeRead, TypeOK, TaskTypes, TaskInv, Busy
  <2> QED
    BY <1>1, <2>3 DEF ServeRead, TypeOK, TaskTypes, serverVars, cacheVars
<1>2. CASE ServePut(t)
  <2>1. Busy(t) /\ room[t] \in Rooms /\ answer[t].direct \subseteq Rooms
    BY <1>2 DEF ServePut, TaskInv, TypeOK, Answer
  <2>2. direct' \subseteq Rooms /\ wanted' \subseteq Rooms /\ stale' \in BOOLEAN
    BY <1>2, <2>1 DEF ServePut, Marked, TypeOK
  <2>3. [type |-> "direct", rooms |-> direct'] \in Event
    BY <2>2 DEF Event
  <2>4. sync' \in Seq(Event)
    BY <1>2, <2>3, AppendProperties DEF ServePut, TypeOK
  <2>5. TaskTypes' /\ TaskInv'
    BY <1>2, <2>1 DEF ServePut, TypeOK, TaskTypes, TaskInv, Busy
  <2>6. crossed' \in BOOLEAN
    BY <1>2 DEF ServePut, Crosses, TypeOK
  <2> QED
    BY <1>2, <2>2, <2>4, <2>5, <2>6 DEF ServePut, TypeOK, TaskTypes, cacheVars
<1>3. CASE Fails(t)
  <2>1. TaskTypes' /\ TaskInv'
    BY <1>3, NoAnswerType DEF Fails, TypeOK, TaskTypes, TaskInv, Busy
  <2>2. failures' \in 0..MaxFailures
    BY <1>3, InputAssumption DEF Fails, TypeOK
  <2> QED
    BY <1>3, <2>1, <2>2 DEF Fails, TypeOK, TaskTypes, cacheVars
<1> QED
  BY <1>1, <1>2, <1>3

LEMMA ResumeTypes ==
  ASSUME TypeOK, TaskInv, NEW t \in Tasks,
         ResumeCount(t) \/ ResumeTitle(t) \/ ResumeDirect(t) \/ ResumeMark(t)
  PROVE  TypeOK' /\ TaskInv'
<1>1. /\ UNCHANGED serverVars
      /\ served[t] /\ Busy(t) /\ room[t] \in Rooms
      /\ mixed' = mixed
      /\ answer[t].count \in Counts /\ answer[t].direct \subseteq Rooms
  <2>1. served[t]
    BY DEF ResumeCount, ResumeTitle, ResumeDirect, ResumeMark
  <2>2. mixed' = mixed
    BY DEF ResumeCount, ResumeTitle, ResumeDirect, ResumeMark, MarkGot, MarkEnds, End
  <2>3. answer[t] \in Answer
    BY DEF TypeOK
  <2>4. UNCHANGED serverVars
    BY DEF ResumeCount, ResumeTitle, ResumeDirect, ResumeMark
  <2> QED
    BY <2>1, <2>2, <2>3, <2>4 DEF TaskInv, Answer
<1>2. TaskTypes' /\ TaskInv'
  <2>1. CASE End(t)
    BY <2>1, EndTypes
  <2>2. ASSUME ~End(t), ResumeCount(t) PROVE TaskTypes' /\ TaskInv'
    <3>1. /\ Await(t, "title", answer[t].count) /\ UNCHANGED <<task, room, answer>>
          /\ task[t] \in {"get_chat", "message"}
      BY <2>2 DEF ResumeCount
    <3> QED
      BY <1>1, <3>1, AwaitTypes
  <2>3. ASSUME ~End(t), ResumeDirect(t) PROVE TaskTypes' /\ TaskInv'
    <3>1. /\ Await(t, "count", 0) /\ UNCHANGED <<task, room, answer>>
          /\ task[t] = "get_chat"
      BY <2>3 DEF ResumeDirect
    <3> QED
      BY <1>1, <3>1, AwaitTypes
  <2>4. ASSUME ~End(t), ResumeMark(t) PROVE TaskTypes' /\ TaskInv'
    <3>1. /\ Await(t, "put", 0) /\ UNCHANGED <<task, room, answer>>
          /\ task[t] = "mark"
      BY <2>4 DEF ResumeMark, MarkGot, MarkEnds
    <3> QED
      BY <1>1, <3>1, AwaitTypes
  <2> QED
    BY <2>1, <2>2, <2>3, <2>4 DEF ResumeTitle
<1>3. /\ directRooms' \subseteq Rooms
      /\ memberCount' \in [Rooms -> Counts \cup {0}]
      /\ chatType' \in [Rooms -> Types \cup {"none"}]
  <2>1. CASE ResumeCount(t)
    BY <1>1, <2>1 DEF ResumeCount, TypeOK
  <2>2. CASE ResumeTitle(t)
    BY <1>1, <2>2 DEF ResumeTitle, TypeOK, Classify, Types
  <2>3. CASE ResumeDirect(t)
    BY <1>1, <2>3 DEF ResumeDirect, TypeOK
  <2>4. CASE ResumeMark(t)
    BY <1>1, <2>4 DEF ResumeMark, MarkGot, MarkEnds, TypeOK, Types
  <2> QED
    BY <2>1, <2>2, <2>3, <2>4
<1> QED
  BY <1>1, <1>2, <1>3 DEF TypeOK, TaskTypes, serverVars

LEMMA TypeStep == TypeOK /\ TaskInv /\ [Next]_vars => TypeOK' /\ TaskInv'
<1> SUFFICES ASSUME TypeOK, TaskInv, [Next]_vars PROVE TypeOK' /\ TaskInv'
  OBVIOUS
<1>1. ASSUME NEW r \in Rooms, MembersChange(r) \/ TitleChanges(r) \/ DirectChanges(r)
      PROVE  TypeOK' /\ TaskInv'
  <2>1. CASE MembersChange(r)
    <3>1. [type |-> "member", room |-> r] \in Event
      BY DEF Event
    <3> QED
      BY <2>1, <3>1, ChangeTypes DEF MembersChange, TypeOK
  <2>2. CASE TitleChanges(r)
    <3>1. [type |-> "metadata", room |-> r] \in Event
      BY DEF Event
    <3> QED
      BY <2>2, <3>1, ChangeTypes DEF TitleChanges, TypeOK
  <2>3. CASE DirectChanges(r)
    <3>1. direct' \subseteq Rooms /\ wanted' \subseteq Rooms
      BY <2>3 DEF DirectChanges, TypeOK
    <3>2. [type |-> "direct", rooms |-> direct'] \in Event
      BY <3>1 DEF Event
    <3> QED
      BY <2>3, <3>1, <3>2, ChangeTypes DEF DirectChanges, TypeOK
  <2> QED
    BY <1>1, <2>1, <2>2, <2>3
<1>2. CASE UNCHANGED vars
  BY <1>2 DEF vars, TypeOK, TaskInv, Busy
<1> QED
  BY <1>1, <1>2, SayTypes, HandleTypes, CommandTypes, ServeTypes, ResumeTypes, InputAssumption
  DEF Next

-----------------------------------------------------------------------------
(* The stream and what waits in it.                                         *)

\* A new event waits behind all others.
LEMMA AppendWaiting ==
  ASSUME TypeOK, NEW e, sync' = Append(sync, e)
  PROVE  /\ Len(sync) \in Nat
         /\ \A type : \A r : Waiting(type, r)' = Waiting(type, r) \cup
                {i \in {Len(sync) + 1} : e.type = type /\ e.room = r}
         /\ WaitingDirect' = WaitingDirect \cup {i \in {Len(sync) + 1} : e.type = "direct"}
         /\ \A i \in WaitingDirect : i \in Nat /\ i < Len(sync) + 1 /\ sync'[i] = sync[i]
         /\ sync'[Len(sync) + 1] = e
<1>1. /\ Len(sync) \in Nat
      /\ DOMAIN sync = 1..Len(sync)
      /\ DOMAIN sync' = 1..(Len(sync) + 1)
      /\ \A i \in 1..Len(sync) : sync'[i] = sync[i]
      /\ sync'[Len(sync) + 1] = e
  BY AppendProperties, LenProperties DEF TypeOK
<1> QED
  BY <1>1 DEF Waiting, WaitingDirect

\* Without the first event those that wait move up by one place.
LEMMA TailWaiting ==
  ASSUME TypeOK, sync # <<>>, sync' = Tail(sync)
  PROVE  /\ \A type : \A r : Waiting(type, r) # {} /\ ~(Head(sync).type = type /\ Head(sync).room = r)
                => Waiting(type, r)' # {}
         /\ \A i \in WaitingDirect : i \in Nat /\ i > 0
         /\ \A i \in WaitingDirect' :
              i \in Nat /\ i > 0 /\ i + 1 \in WaitingDirect /\ sync'[i] = sync[i + 1]
         /\ \A i \in WaitingDirect : i > 1 => i - 1 \in WaitingDirect'
         /\ 1 \in WaitingDirect <=> Head(sync).type = "direct"
         /\ Head(sync) = sync[1]
<1>1. /\ Len(sync) \in Nat \ {0}
      /\ DOMAIN sync = 1..Len(sync)
      /\ Head(sync) = sync[1]
      /\ DOMAIN sync' = 1..(Len(sync) - 1)
      /\ \A i \in 1..(Len(sync) - 1) : sync'[i] = sync[i + 1]
  BY HeadTailProperties, LenProperties, EmptySeq DEF TypeOK
<1>2. ASSUME NEW i \in 1..Len(sync), i # 1
      PROVE  i - 1 \in 1..(Len(sync) - 1) /\ sync'[i - 1] = sync[i]
  BY <1>1, <1>2
<1>3. ASSUME NEW type, NEW r, Waiting(type, r) # {},
             ~(Head(sync).type = type /\ Head(sync).room = r)
      PROVE  Waiting(type, r)' # {}
  <2>1. PICK i \in 1..Len(sync) : i # 1 /\ sync[i].type = type /\ sync[i].room = r
    BY <1>1, <1>3 DEF Waiting
  <2> QED
    BY <1>1, <1>2, <2>1 DEF Waiting
<1>4. ASSUME NEW i \in WaitingDirect'
      PROVE  i \in Nat /\ i > 0 /\ i + 1 \in WaitingDirect /\ sync'[i] = sync[i + 1]
  BY <1>1, <1>4 DEF WaitingDirect
<1>5. ASSUME NEW i \in WaitingDirect
      PROVE  i \in Nat /\ i > 0 /\ (i > 1 => i - 1 \in WaitingDirect')
  <2>1. i \in 1..Len(sync) /\ sync[i].type = "direct"
    BY <1>1 DEF WaitingDirect
  <2> QED
    BY <1>1, <1>2, <2>1 DEF WaitingDirect
<1>6. 1 \in WaitingDirect <=> Head(sync).type = "direct"
  BY <1>1 DEF WaitingDirect
<1> QED
  BY <1>1, <1>3, <1>4, <1>5, <1>6

-----------------------------------------------------------------------------
(* m.direct and direct_room_ids.                                            *)

\* Each step of the stream: an event of m.direct is added with what it is now,
\* another is added while it stays, the first is taken, or nothing happens.
LEMMA StreamSteps ==
  ASSUME TypeOK, TaskInv, [Next]_vars
  PROVE  \/ \E e : /\ sync' = Append(sync, e)
                   /\ e.type = "direct" /\ e.rooms = direct'
         \/ \E e : /\ sync' = Append(sync, e) /\ direct' = direct
                   /\ e.type \in {"member", "metadata", "message"}
         \/ Handle
         \/ sync' = sync /\ direct' = direct
<1>1. ASSUME NEW r \in Rooms, MembersChange(r) \/ TitleChanges(r) \/ Say(r)
      PROVE  \E e : /\ sync' = Append(sync, e) /\ direct' = direct
                    /\ e.type \in {"member", "metadata", "message"}
  BY <1>1 DEF MembersChange, TitleChanges, Say, OthersChange
<1>2. ASSUME NEW r \in Rooms, DirectChanges(r)
      PROVE  \E e : sync' = Append(sync, e) /\ e.type = "direct" /\ e.rooms = direct'
  <2>1. sync' = Append(sync, [type |-> "direct", rooms |-> direct'])
    BY <1>2 DEF DirectChanges, OthersChange
  <2> QED
    BY <2>1
<1>3. ASSUME NEW t \in Tasks, ServePut(t)
      PROVE  \E e : sync' = Append(sync, e) /\ e.type = "direct" /\ e.rooms = direct'
  BY <1>3 DEF ServePut
<1>4. ASSUME NEW t \in Tasks,
             \/ ServeRead(t) \/ Fails(t)
             \/ ResumeCount(t) \/ ResumeTitle(t) \/ ResumeDirect(t) \/ ResumeMark(t)
      PROVE  sync' = sync /\ direct' = direct
  BY <1>4 DEF ServeRead, Fails, ResumeCount, ResumeTitle, ResumeDirect, ResumeMark, serverVars
<1>5. ASSUME NEW t \in Tasks, NEW which, NEW r \in Rooms, Command(t, which, r)
      PROVE  sync' = sync /\ direct' = direct
  BY <1>5 DEF Command
<1>6. CASE UNCHANGED vars
  BY <1>6 DEF vars
<1> QED
  BY <1>1, <1>2, <1>3, <1>4, <1>5, <1>6, InputAssumption DEF Next

LEMMA LastStep == TypeOK /\ TaskInv /\ LastInv /\ [Next]_vars => LastInv'
<1> SUFFICES ASSUME TypeOK, TaskInv, LastInv, [Next]_vars,
                    NEW i \in WaitingDirect', \A j \in WaitingDirect' : j <= i
             PROVE  sync'[i].rooms = direct'
  BY DEF LastInv
<1>1. ASSUME NEW e, sync' = Append(sync, e), e.type = "direct", e.rooms = direct'
      PROVE  sync'[i].rooms = direct'
  <2>1. i = Len(sync) + 1
    BY <1>1, AppendWaiting
  <2> QED
    BY <1>1, <2>1, AppendWaiting
<1>2. ASSUME NEW e, sync' = Append(sync, e), direct' = direct, e.type # "direct"
      PROVE  sync'[i].rooms = direct'
  <2>1. WaitingDirect' = WaitingDirect /\ sync'[i] = sync[i]
    BY <1>2, AppendWaiting
  <2> QED
    BY <1>2, <2>1 DEF LastInv
<1>3. CASE Handle
  <2>1. sync # <<>> /\ sync' = Tail(sync) /\ direct' = direct
    BY <1>3 DEF Handle
  <2>2. i \in Nat /\ i > 0 /\ i + 1 \in WaitingDirect /\ sync'[i] = sync[i + 1]
    BY <2>1, TailWaiting
  <2>3. ASSUME NEW j \in WaitingDirect PROVE j <= i + 1
    <3>1. j \in Nat /\ j > 0 /\ (j > 1 => j - 1 \in WaitingDirect')
      BY <2>1, TailWaiting
    <3>2. j > 1 => j - 1 <= i
      BY <3>1
    <3> QED
      BY <2>2, <3>1, <3>2
  <2> QED
    BY <2>1, <2>2, <2>3 DEF LastInv
<1>4. CASE sync' = sync /\ direct' = direct
  <2>1. WaitingDirect' = WaitingDirect
    BY <1>4 DEF WaitingDirect
  <2> QED
    BY <1>4, <2>1 DEF LastInv
<1> QED
  BY <1>1, <1>2, <1>3, <1>4, StreamSteps

-----------------------------------------------------------------------------
(* Answers that wait to be handled.                                         *)

\* What the homeserver has does not change under such an answer unless it is
\* crossed; and what has been crossed or has failed stays so.
LEMMA Crossing ==
  ASSUME TypeOK, [Next]_vars
  PROVE  /\ ~crossed' => ~crossed
         /\ failures' = 0 => failures = 0
         /\ ~mixed' => ~mixed
         /\ ~crossed' /\ (\E t \in Tasks : served[t]) => UNCHANGED <<direct, members, titled>>
<1>1. ASSUME NEW r \in Rooms, MembersChange(r) \/ TitleChanges(r) \/ DirectChanges(r)
      PROVE  /\ crossed' = (crossed \/ \E t \in Tasks : served[t])
             /\ failures' = failures /\ mixed' = mixed
  BY <1>1
  DEF MembersChange, TitleChanges, DirectChanges, OthersChange, Crosses, taskVars
<1>2. ASSUME NEW t \in Tasks, ServePut(t)
      PROVE  /\ crossed' = (crossed \/ \E u \in Tasks : served[u])
             /\ failures' = failures /\ mixed' = mixed
  BY <1>2 DEF ServePut, Crosses
<1>3. ASSUME NEW t \in Tasks, Fails(t)
      PROVE  UNCHANGED <<crossed, direct, members, titled, mixed>> /\ failures' # 0
  <2>1. failures \in Nat /\ failures' = failures + 1
    BY <1>3 DEF Fails, TypeOK
  <2> QED
    BY <1>3, <2>1 DEF Fails
<1>4. ASSUME NEW t \in Tasks,
             ResumeCount(t) \/ ResumeTitle(t) \/ ResumeDirect(t) \/ ResumeMark(t)
      PROVE  UNCHANGED <<crossed, direct, members, titled, failures, mixed>>
  <2>1. UNCHANGED serverVars
    BY <1>4 DEF ResumeCount, ResumeTitle, ResumeDirect, ResumeMark
  <2>2. mixed' = mixed
    BY <1>4 DEF ResumeCount, ResumeTitle, ResumeDirect, ResumeMark, MarkGot, MarkEnds, End
  <2> QED
    BY <2>1, <2>2 DEF serverVars
<1>5. ASSUME NEW t \in Tasks, ServeRead(t)
      PROVE  UNCHANGED <<crossed, direct, members, titled, failures, mixed>>
  BY <1>5 DEF ServeRead, serverVars
<1>6. ASSUME NEW t \in Tasks, NEW which, NEW r \in Rooms, Command(t, which, r)
      PROVE  UNCHANGED <<crossed, direct, members, titled, failures>> /\ (mixed => mixed')
  BY <1>6 DEF Command, Mixes
<1>7. CASE Handle
  BY <1>7 DEF Handle, Mixes
<1>8. ASSUME NEW r \in Rooms, Say(r)
      PROVE  UNCHANGED <<crossed, direct, members, titled, failures, mixed>>
  BY <1>8 DEF Say, taskVars
<1>9. CASE UNCHANGED vars
  BY <1>9 DEF vars
<1> QED
  BY <1>1, <1>2, <1>3, <1>4, <1>5, <1>6, <1>7, <1>8, <1>9, InputAssumption DEF Next

\* Task u stays where it is.
Stays(u) ==
  /\ task'[u] = task[u] /\ at'[u] = at[u] /\ room'[u] = room[u]
  /\ count'[u] = count[u] /\ served'[u] = served[u] /\ answer'[u] = answer[u]

\* Each step is of one task, or leaves them all where they are.
LEMMA TaskSteps ==
  ASSUME TypeOK, TaskInv, [Next]_vars, NEW u \in Tasks
  PROVE  \/ Stays(u)
         \/ ~Busy(u) /\ ~served'[u]
         \/ ServeRead(u) \/ ServePut(u) \/ Fails(u)
         \/ ResumeCount(u) \/ ResumeTitle(u) \/ ResumeDirect(u) \/ ResumeMark(u)
<1>1. ASSUME NEW r \in Rooms, MembersChange(r) \/ TitleChanges(r) \/ DirectChanges(r) \/ Say(r)
      PROVE  Stays(u)
  BY <1>1 DEF MembersChange, TitleChanges, DirectChanges, Say, OthersChange, taskVars, Stays
<1>2. ASSUME NEW t \in Tasks, t # u, NEW which, NEW r, NEW what, NEW n, Begin(t, which, r, what, n)
      PROVE  Stays(u)
  BY <1>2 DEF Begin, Await, TypeOK, Stays
<1>3. ASSUME NEW which, NEW r, NEW what, NEW n, Begin(u, which, r, what, n)
      PROVE  ~Busy(u) /\ ~served'[u]
  BY <1>3 DEF Begin, Await, TypeOK
<1>4. ASSUME Handle, ~(~Busy(u) /\ ~served'[u]) PROVE Stays(u)
  <2>1. CASE UNCHANGED <<task, at, room, count, served, answer>>
    BY <2>1 DEF Stays
  <2>2. ASSUME NEW t \in Tasks, NEW r, HandleMessage(t, r) \/ HandleMember(t, r) PROVE Stays(u)
    <3>1. \/ UNCHANGED <<task, at, room, count, served, answer>>
          \/ Begin(t, "message", r, "count", 0)
          \/ Begin(t, "message", r, "title", memberCount[r])
          \/ Begin(t, "member", r, "count", 0)
      BY <2>2 DEF HandleMessage, HandleMember
    <3> QED
      BY <1>2, <1>3, <1>4, <2>1, <3>1
  <2> QED
    BY <1>4, <2>1, <2>2 DEF Handle, HandleMetadata, HandleDirect
<1>5. ASSUME NEW t \in Tasks, NEW which, NEW r \in Rooms, Command(t, which, r),
             ~(~Busy(u) /\ ~served'[u])
      PROVE  Stays(u)
  BY <1>2, <1>3, <1>5 DEF Command
<1>6. ASSUME NEW t \in Tasks, t # u, ServeRead(t) \/ ServePut(t) \/ Fails(t) PROVE Stays(u)
  BY <1>6 DEF ServeRead, ServePut, Fails, TypeOK, Stays
<1>7. ASSUME NEW t \in Tasks, t # u, End(t) PROVE Stays(u)
  BY <1>7 DEF End, TypeOK, Stays
<1>8. ASSUME NEW t \in Tasks, t # u, NEW what, NEW n, Await(t, what, n), UNCHANGED <<task, room, answer>>
      PROVE  Stays(u)
  BY <1>8 DEF Await, TypeOK, Stays
<1>9. ASSUME NEW t \in Tasks, t # u,
             ResumeCount(t) \/ ResumeTitle(t) \/ ResumeDirect(t) \/ ResumeMark(t)
      PROVE  Stays(u)
  BY <1>7, <1>8, <1>9 DEF ResumeCount, ResumeTitle, ResumeDirect, ResumeMark, MarkGot, MarkEnds
<1>10. CASE UNCHANGED vars
  BY <1>10 DEF vars, Stays
<1> QED
  BY <1>1, <1>4, <1>5, <1>6, <1>9, <1>10, InputAssumption DEF Next

\* A task that resumes waits for no answer any more.
LEMMA ResumedWaits ==
  ASSUME TypeOK, NEW u \in Tasks,
         ResumeCount(u) \/ ResumeTitle(u) \/ ResumeDirect(u) \/ ResumeMark(u)
  PROVE  ~served'[u]
<1>1. End(u) \/ \E what, n : Await(u, what, n)
  BY DEF ResumeCount, ResumeTitle, ResumeDirect, ResumeMark, MarkGot, MarkEnds
<1> QED
  BY <1>1 DEF End, Await, TypeOK

LEMMA AnswerStep == TypeOK /\ TaskInv /\ AnswerInv /\ [Next]_vars => AnswerInv'
<1> SUFFICES ASSUME TypeOK, TaskInv, AnswerInv, [Next]_vars, NEW u \in Tasks
             PROVE  AnswerAt(u)'
  BY DEF AnswerInv
<1>1. CASE Stays(u)
  BY <1>1, Crossing DEF Stays, AnswerAt, AnswerInv, Undisturbed
<1>2. CASE ~served'[u]
  BY <1>2 DEF AnswerAt
<1>3. CASE ServeRead(u)
  <2>1. /\ answer'[u] = Told(u)
        /\ UNCHANGED <<direct, members, titled, at, room>> /\ at[u] # "put"
    BY <1>3 DEF ServeRead, serverVars, TypeOK
  <2>2. /\ at[u] = "count" => Told(u).count = members[room[u]]
        /\ at[u] = "title" => Told(u).titled = titled[room[u]]
        /\ at[u] = "direct" => Told(u).direct = direct
    <3>1. titled[room[u]] \in BOOLEAN
      BY <1>3 DEF ServeRead, TaskInv, TypeOK
    <3> QED
      BY <3>1 DEF Told
  <2> QED
    BY <2>1, <2>2 DEF AnswerAt
<1>4. CASE ServePut(u)
  BY <1>4 DEF ServePut, Marked, AnswerAt
<1>5. CASE Fails(u)
  <2>1. failures' # 0
    BY <1>5 DEF Fails, TypeOK
  <2>2. at' = at /\ (at[u] # "put" => answer'[u] = NoAnswer)
    BY <1>5 DEF Fails, TypeOK
  <2> QED
    BY <2>1, <2>2 DEF AnswerAt, Undisturbed
<1> QED
  BY <1>1, <1>2, <1>3, <1>4, <1>5, TaskSteps, ResumedWaits

\* What a resuming task does to direct_room_ids.
LEMMA ResumeDirectRooms ==
  ASSUME TypeOK, TaskInv, AnswerInv, ~crossed, NEW t \in Tasks,
         ResumeCount(t) \/ ResumeTitle(t) \/ ResumeDirect(t) \/ ResumeMark(t)
  PROVE  /\ direct \subseteq directRooms => direct \subseteq directRooms'
         /\ failures = 0 /\ directRooms = direct => directRooms' = direct
<1>1. AnswerAt(t)
  BY DEF AnswerInv
<1>2. CASE ResumeCount(t) \/ ResumeTitle(t)
  BY <1>2 DEF ResumeCount, ResumeTitle
<1>3. CASE ResumeDirect(t)
  <2>1. answer[t].ok => answer[t].direct = direct
    <3>1. ~NoAnswer.ok
      BY DEF NoAnswer
    <3> QED
      BY <1>1, <1>3, <3>1 DEF ResumeDirect, AnswerAt
  <2> QED
    BY <1>3, <2>1 DEF ResumeDirect
<1>4. CASE ResumeMark(t)
  <2>1. UNCHANGED directRooms \/ directRooms' = directRooms \cup {room[t]}
    BY <1>4 DEF ResumeMark, MarkGot, MarkEnds
  <2>2. failures = 0 => UNCHANGED directRooms \/ room[t] \in direct
    <3>1. NoAnswer.direct = {}
      BY DEF NoAnswer
    <3> QED
      BY <1>1, <1>4, <3>1 DEF ResumeMark, MarkGot, AnswerAt, Undisturbed
  <2> QED
    BY <2>1, <2>2
<1> QED
  BY <1>2, <1>3, <1>4

LEMMA DirectStep ==
  TypeOK /\ TaskInv /\ LastInv /\ AnswerInv /\ DirectInv /\ [Next]_vars => DirectInv'
<1> SUFFICES ASSUME TypeOK, TaskInv, LastInv, AnswerInv, DirectInv, [Next]_vars,
                    ~crossed', WaitingDirect' = {}
             PROVE  direct' \subseteq directRooms' /\ (failures' = 0 => directRooms' = direct')
  BY DEF DirectInv
<1>1. ~crossed /\ (failures' = 0 => failures = 0)
  BY Crossing
<1>2. ASSUME WaitingDirect = {}, direct' = direct,
             /\ direct \subseteq directRooms => direct \subseteq directRooms'
             /\ failures = 0 /\ directRooms = direct => directRooms' = direct
      PROVE  direct' \subseteq directRooms' /\ (failures' = 0 => directRooms' = direct')
  BY <1>1, <1>2 DEF DirectInv
<1>3. CASE Handle
  <2>1. sync # <<>> /\ sync' = Tail(sync) /\ direct' = direct
    BY <1>3 DEF Handle
  <2>2. WaitingDirect \subseteq {1}
    BY <2>1, TailWaiting
  <2>3. CASE Head(sync).type = "direct"
    <3>1. WaitingDirect = {1} /\ Head(sync) = sync[1]
      BY <2>1, <2>2, <2>3, TailWaiting
    <3>2. sync[1].rooms = direct
      BY <3>1 DEF LastInv
    <3>3. directRooms' = Head(sync).rooms
      BY <1>3, <2>3 DEF Handle, HandleDirect
    <3> QED
      BY <2>1, <3>1, <3>2, <3>3
  <2>4. CASE Head(sync).type # "direct"
    <3>1. WaitingDirect = {}
      BY <2>1, <2>2, <2>4, TailWaiting
    <3>2. directRooms' = directRooms
      BY <1>3, <2>4 DEF Handle, HandleMessage, HandleMember, HandleMetadata, cacheVars
    <3> QED
      BY <1>2, <2>1, <3>1, <3>2
  <2> QED
    BY <2>3, <2>4
<1>4. CASE ~Handle
  <2>1. WaitingDirect = {} /\ direct' = direct
    <3>1. ASSUME NEW e, sync' = Append(sync, e)
          PROVE  e.type # "direct" /\ WaitingDirect = {}
      BY <3>1, AppendWaiting
    <3>2. sync' = sync => WaitingDirect' = WaitingDirect
      BY DEF WaitingDirect
    <3> QED
      BY <1>4, <3>1, <3>2, StreamSteps
  <2>2. \/ directRooms' = directRooms
        \/ \E t \in Tasks : ResumeCount(t) \/ ResumeTitle(t) \/ ResumeDirect(t) \/ ResumeMark(t)
    BY <1>4
    DEF Next, MembersChange, TitleChanges, DirectChanges, OthersChange, Say, Command, ServeRead,
        ServePut, Fails, cacheVars, vars
  <2> QED
    BY <1>1, <1>2, <2>1, <2>2, ResumeDirectRooms
<1> QED
  BY <1>3, <1>4

-----------------------------------------------------------------------------
(* Member counts.                                                           *)

\* Only a handler takes events out of the stream.
LEMMA StreamKeeps ==
  ASSUME TypeOK, TaskInv, [Next]_vars, ~Handle
  PROVE  /\ \A type : \A r : Waiting(type, r) # {} => Waiting(type, r)' # {}
         /\ WaitingDirect # {} => WaitingDirect' # {}
<1>1. ASSUME NEW e, sync' = Append(sync, e)
      PROVE  /\ \A type : \A r : Waiting(type, r) # {} => Waiting(type, r)' # {}
             /\ WaitingDirect # {} => WaitingDirect' # {}
  BY <1>1, AppendWaiting
<1>2. CASE sync' = sync
  BY <1>2 DEF Waiting, WaitingDirect
<1> QED
  BY <1>1, <1>2, StreamSteps

\* The homeserver's side changes with an event of what changed.
LEMMA ServerChanges ==
  ASSUME TypeOK, TaskInv, [Next]_vars, NEW r \in Rooms
  PROVE  /\ members'[r] = members[r] \/ Waiting("member", r)' # {}
         /\ titled'[r] = titled[r] \/ Waiting("metadata", r)' # {}
         /\ direct' = direct \/ WaitingDirect' # {}
<1>1. ASSUME NEW q \in Rooms, MembersChange(q)
      PROVE  /\ members'[r] = members[r] \/ Waiting("member", r)' # {}
             /\ titled' = titled /\ direct' = direct
  <2>1. /\ sync' = Append(sync, [type |-> "member", room |-> q])
        /\ q # r => members'[r] = members[r]
        /\ titled' = titled /\ direct' = direct
    BY <1>1 DEF MembersChange, OthersChange, TypeOK
  <2>2. q = r => Waiting("member", r)' # {}
    <3>1. Len(sync) + 1 \in {i \in {Len(sync) + 1} : q = r} \/ q # r
      OBVIOUS
    <3> QED
      BY <2>1, <3>1, AppendWaiting
  <2> QED
    BY <2>1, <2>2
<1>2. ASSUME NEW q \in Rooms, TitleChanges(q)
      PROVE  /\ titled'[r] = titled[r] \/ Waiting("metadata", r)' # {}
             /\ members' = members /\ direct' = direct
  <2>1. /\ sync' = Append(sync, [type |-> "metadata", room |-> q])
        /\ q # r => titled'[r] = titled[r]
        /\ members' = members /\ direct' = direct
    BY <1>2 DEF TitleChanges, OthersChange, TypeOK
  <2>2. q = r => Waiting("metadata", r)' # {}
    <3>1. Len(sync) + 1 \in {i \in {Len(sync) + 1} : q = r} \/ q # r
      OBVIOUS
    <3> QED
      BY <2>1, <3>1, AppendWaiting
  <2> QED
    BY <2>1, <2>2
<1>3. direct' = direct \/ WaitingDirect' # {}
  <2>1. ASSUME NEW e, sync' = Append(sync, e), e.type = "direct" PROVE WaitingDirect' # {}
    BY <2>1, AppendWaiting
  <2>2. Handle => direct' = direct
    BY DEF Handle
  <2> QED
    BY <2>1, <2>2, StreamSteps
<1>4. \/ UNCHANGED <<members, titled>>
      \/ \E q \in Rooms : MembersChange(q) \/ TitleChanges(q)
  BY InputAssumption
  DEF Next, DirectChanges, Say, Handle, Command, ServeRead, ServePut, Fails, ResumeCount,
         ResumeTitle, ResumeDirect, ResumeMark, serverVars, vars
<1> QED
  BY <1>1, <1>2, <1>3, <1>4

\* A count that is under way comes to its end.
LEMMA CountsOn ==
  ASSUME TypeOK, TaskInv, [Next]_vars, NEW u \in Tasks, at[u] = "count", ~ResumeCount(u)
  PROVE  at'[u] = "count" /\ room'[u] = room[u]
<1>1. Busy(u) /\ at[u] \notin {"title", "direct", "put"}
  BY DEF TaskInv
<1>2. ~(ResumeTitle(u) \/ ResumeDirect(u) \/ ResumeMark(u) \/ ServePut(u))
  BY <1>1 DEF ResumeTitle, ResumeDirect, ResumeMark, ServePut
<1>3. Stays(u) \/ ServeRead(u) \/ Fails(u)
  BY <1>1, <1>2, TaskSteps
<1> QED
  BY <1>3 DEF Stays, ServeRead, Fails

LEMMA CountStep ==
  TypeOK /\ TaskInv /\ AnswerInv /\ CountInv /\ [Next]_vars => CountInv'
<1> SUFFICES ASSUME TypeOK, TaskInv, AnswerInv, CountInv, [Next]_vars, Undisturbed',
                    NEW r \in Rooms
             PROVE  CountAt(r)'
  BY DEF CountInv
<1>1. Undisturbed /\ CountAt(r)
  BY Crossing DEF Undisturbed, CountInv
\* A count that comes back is right.
<1>2. ASSUME NEW t \in Tasks, ResumeCount(t), room[t] = r PROVE CountAt(r)'
  <2>1. answer[t].count = members[r] /\ members' = members
    BY <1>1, <1>2 DEF AnswerInv, AnswerAt, ResumeCount, serverVars
  <2>2. memberCount'[r] = members'[r]
    BY <1>2, <2>1 DEF ResumeCount, TypeOK
  <2> QED
    BY <2>2 DEF CountAt
<1>3. ASSUME \A t \in Tasks : ResumeCount(t) => room[t] # r PROVE CountAt(r)'
  <2>1. memberCount'[r] = memberCount[r]
    <3>1. memberCount' = memberCount \/ \E t \in Tasks : ResumeCount(t)
      BY DEF Next, MembersChange, TitleChanges, DirectChanges, OthersChange, Say, Handle,
             HandleMessage, HandleMember, HandleMetadata, HandleDirect, Command, ServeRead,
             ServePut, Fails, ResumeTitle, ResumeDirect, ResumeMark, cacheVars, vars
    <3> QED
      BY <1>3, <3>1 DEF ResumeCount, TypeOK
  <2>2. CASE memberCount[r] \in {0, members[r]}
    BY <2>1, <2>2, ServerChanges DEF CountAt
  <2>3. CASE Waiting("member", r) # {}
    <3>1. CASE Handle
      <4>1. CASE Head(sync).type = "member" /\ Head(sync).room = r
        <5>1. PICK t \in Tasks : HandleMember(t, r)
          BY <3>1, <4>1 DEF Handle
        <5>2. at'[t] = "count" /\ room'[t] = r
          BY <5>1 DEF HandleMember, Begin, Await, TypeOK
        <5> QED
          BY <5>2 DEF CountAt
      <4>2. CASE ~(Head(sync).type = "member" /\ Head(sync).room = r)
        <5>1. Waiting("member", r)' # {}
          BY <2>3, <3>1, <4>2, TailWaiting DEF Handle
        <5> QED
          BY <5>1 DEF CountAt
      <4> QED
        BY <4>1, <4>2
    <3>2. CASE ~Handle
      BY <2>3, <3>2, StreamKeeps DEF CountAt
    <3> QED
      BY <3>1, <3>2
  <2>4. ASSUME NEW u \in Tasks, at[u] = "count", room[u] = r PROVE CountAt(r)'
    <3>1. at'[u] = "count" /\ room'[u] = r
      BY <1>3, <2>4, CountsOn
    <3> QED
      BY <3>1 DEF CountAt
  <2> QED
    BY <1>1, <2>2, <2>3, <2>4 DEF CountAt
<1> QED
  BY <1>2, <1>3

-----------------------------------------------------------------------------
(* Types that are decided with nothing else handled meanwhile.              *)

\* A task begins with a handler or a command, and if another is under way then,
\* that is recorded.
LEMMA Beginning ==
  ASSUME TypeOK, TaskInv, [Next]_vars, NEW u \in Tasks, Busy(u)', ~Busy(u)
  PROVE  mixed' = (mixed \/ \E t \in Tasks : Busy(t))
<1>1. ~Stays(u)
  BY DEF Stays, Busy
<1>2. ~(\/ ServeRead(u) \/ ServePut(u) \/ Fails(u)
        \/ ResumeCount(u) \/ ResumeTitle(u) \/ ResumeDirect(u) \/ ResumeMark(u))
  BY DEF ServeRead, ServePut, Fails, ResumeCount, ResumeTitle, ResumeDirect, ResumeMark, TaskInv
<1>3. \/ Handle
      \/ \E t \in Tasks, which \in {"get_chat", "mark"}, r \in Rooms : Command(t, which, r)
  <2>1. ASSUME NEW r \in Rooms, MembersChange(r) \/ TitleChanges(r) \/ DirectChanges(r) \/ Say(r)
        PROVE  FALSE
    BY <1>1, <2>1 DEF MembersChange, TitleChanges, DirectChanges, Say, OthersChange, taskVars, Stays
  <2>2. ASSUME NEW t \in Tasks, ServeRead(t) \/ ServePut(t) \/ Fails(t) PROVE FALSE
    BY <1>1, <1>2, <2>2 DEF ServeRead, ServePut, Fails, TypeOK, Stays
  <2>3. ASSUME NEW t \in Tasks,
               ResumeCount(t) \/ ResumeTitle(t) \/ ResumeDirect(t) \/ ResumeMark(t)
        PROVE  FALSE
    <3>1. t # u
      BY <1>2, <2>3
    <3>2. End(t) \/ UNCHANGED task
      BY <2>3 DEF ResumeCount, ResumeTitle, ResumeDirect, ResumeMark, MarkGot, MarkEnds
    <3>3. task'[u] = task[u]
      BY <3>1, <3>2 DEF End, TypeOK
    <3> QED
      BY <3>3 DEF Busy
  <2>4. ~UNCHANGED vars
    BY <1>1 DEF vars, Stays
  <2> QED
    BY <2>1, <2>2, <2>3, <2>4, InputAssumption DEF Next
<1> QED
  BY <1>3 DEF Handle, Command, Mixes

LEMMA TurnStep == TypeOK /\ TaskInv /\ TurnInv /\ [Next]_vars => TurnInv'
<1> SUFFICES ASSUME TypeOK, TaskInv, TurnInv, [Next]_vars, ~mixed',
                    NEW t \in Tasks, NEW u \in Tasks, Busy(t)', Busy(u)', t # u
             PROVE  FALSE
  BY DEF TurnInv
<1>1. ~mixed
  BY Crossing
<1>2. CASE Busy(t) /\ Busy(u)
  BY <1>1, <1>2 DEF TurnInv
<1>3. ASSUME NEW a \in Tasks, NEW b \in Tasks, a # b, ~Busy(a), Busy(a)', Busy(b)' PROVE FALSE
  <2>1. ~Busy(b)
    BY <1>3, Beginning
\* One step begins one task.
  <2>2. \E c \in Tasks : \A q \in Tasks \ {c} : ~Busy(q) => ~Busy(q)'
    <3>1. ASSUME NEW c \in Tasks, NEW which, NEW r, NEW what, NEW n, Begin(c, which, r, what, n)
          PROVE  \A q \in Tasks \ {c} : ~Busy(q) => ~Busy(q)'
      BY <3>1 DEF Begin, Busy, TypeOK
    <3>2. UNCHANGED task => \A q \in Tasks : ~Busy(q) => ~Busy(q)'
      BY DEF Busy
    <3>3. ASSUME NEW c \in Tasks, End(c) PROVE \A q \in Tasks : ~Busy(q) => ~Busy(q)'
      BY <3>3 DEF End, Busy, TypeOK
    <3>4. CASE Handle
      BY <3>1, <3>2, <3>4, <1>3 DEF Handle, HandleMessage, HandleMember, HandleMetadata, HandleDirect
    <3>5. ASSUME NEW c \in Tasks, NEW which, NEW r \in Rooms, Command(c, which, r)
          PROVE  \A q \in Tasks \ {c} : ~Busy(q) => ~Busy(q)'
      BY <3>1, <3>5 DEF Command
    <3>6. ~Handle /\ ~(\E c \in Tasks, which \in {"get_chat", "mark"}, r \in Rooms :
                         Command(c, which, r))
            => UNCHANGED task \/ \E c \in Tasks : End(c)
      BY InputAssumption
      DEF Next, MembersChange, TitleChanges, DirectChanges, OthersChange, Say, ServeRead,
             ServePut, Fails, ResumeCount, ResumeTitle, ResumeDirect, ResumeMark, MarkGot,
             MarkEnds, taskVars, vars
    <3> QED
      BY <1>3, <3>2, <3>3, <3>4, <3>5, <3>6
  <2> QED
    BY <1>3, <2>1, <2>2
<1> QED
  BY <1>2, <1>3

IsCalm == Undisturbed /\ ~mixed

\* Where a task is under way, a handler mixes; so no event is lost to it.
LEMMA CalmKeeps ==
  ASSUME TypeOK, TaskInv, [Next]_vars, IsCalm', NEW t \in Tasks, Busy(t)
  PROVE  /\ \A type : \A r : Waiting(type, r) # {} => Waiting(type, r)' # {}
         /\ WaitingDirect # {} => WaitingDirect' # {}
<1>1. ~Handle
  BY DEF Handle, Mixes, IsCalm
<1> QED
  BY <1>1, StreamKeeps

\* A task that begins with a title to read handles a message.
LEMMA TitleBegins ==
  ASSUME TypeOK, TaskInv, [Next]_vars, NEW t \in Tasks, ~Busy(t), at'[t] = "title"
  PROVE  /\ sync # <<>> /\ sync' = Tail(sync) /\ members' = members
         /\ Head(sync).type = "message"
         /\ memberCount[Head(sync).room] # 0
         /\ count'[t] = memberCount[Head(sync).room] /\ room'[t] = Head(sync).room
<1>1. at[t] = "none"
  BY DEF TaskInv
<1>2. ASSUME NEW u \in Tasks, NEW which, NEW r, NEW what, NEW n, Begin(u, which, r, what, n)
      PROVE  u = t /\ what = "title"
  BY <1>1, <1>2 DEF Begin, Await, TypeOK
<1>3. ASSUME NEW u \in Tasks,
             ResumeCount(u) \/ ResumeTitle(u) \/ ResumeDirect(u) \/ ResumeMark(u)
      PROVE  FALSE
  <2>1. u # t
    BY <1>3 DEF ResumeCount, ResumeTitle, ResumeDirect, ResumeMark, TaskInv
  <2>2. End(u) \/ \E what, n : Await(u, what, n)
    BY <1>3 DEF ResumeCount, ResumeTitle, ResumeDirect, ResumeMark, MarkGot, MarkEnds
  <2> QED
    BY <1>1, <2>1, <2>2 DEF End, Await, TypeOK
<1>4. ASSUME NEW u \in Tasks, NEW which, NEW r \in Rooms, Command(u, which, r) PROVE FALSE
  <2>1. Begin(u, which, r, "direct", 0)
    BY <1>4 DEF Command
  <2>2. "direct" = "title"
    BY <1>2, <2>1
  <2> QED
    BY <2>2
<1>5. Handle
  <2>1. at' # at
    BY <1>1
  <2> QED
    BY <1>3, <1>4, <2>1, InputAssumption
    DEF Next, MembersChange, TitleChanges, DirectChanges, OthersChange, Say, ServeRead, ServePut,
        Fails, taskVars, vars
<1> DEFINE r == Head(sync).room
<1>6. PICK u \in Tasks : \/ Head(sync).type = "message" /\ HandleMessage(u, r)
                         \/ Head(sync).type = "member" /\ HandleMember(u, r)
  <2>1. at' # at
    BY <1>1
  <2> QED
    BY <1>5, <2>1 DEF Handle, HandleMetadata, HandleDirect
<1>7. ~HandleMember(u, r)
  <2>1. "count" # "title"
    OBVIOUS
  <2> QED
    BY <1>2, <2>1 DEF HandleMember
<1>8. memberCount[r] # 0 /\ Begin(u, "message", r, "title", memberCount[r])
  <2>1. ~Begin(u, "message", r, "count", 0)
    <3>1. "count" # "title"
      OBVIOUS
    <3> QED
      BY <1>2, <3>1
  <2>2. at' # at
    BY <1>1
  <2> QED
    BY <1>6, <1>7, <2>1, <2>2 DEF HandleMessage
<1>9. u = t
  BY <1>2, <1>8
<1>10. count'[t] = memberCount[r] /\ room'[t] = r
  BY <1>8, <1>9 DEF Begin, Await, TypeOK
<1> QED
  BY <1>5, <1>6, <1>7, <1>8, <1>10 DEF Handle

\* The count a task decides with is right, or the event waits that will make the
\* decision void.
LEMMA TitleStep ==
  ASSUME TypeOK, TaskInv, AnswerInv, CountInv, TypeInv, [Next]_vars, IsCalm',
         NEW t \in Tasks, at'[t] = "title", NEW r \in Rooms, room'[t] = r
  PROVE  count'[t] = members'[r] \/ Waiting("member", r)' # {}
<1>1. IsCalm
  BY Crossing DEF IsCalm, Undisturbed
<1>2. ASSUME Busy(t), at[t] = "title", count'[t] = count[t], room[t] = r
      PROVE  count'[t] = members'[r] \/ Waiting("member", r)' # {}
  <2>1. count[t] = members[r] \/ Waiting("member", r) # {}
    BY <1>1, <1>2 DEF TypeInv, IsCalm
  <2>2. Waiting("member", r) # {} => Waiting("member", r)' # {}
    BY <1>2, CalmKeeps
  <2>3. members'[r] = members[r] \/ Waiting("member", r)' # {}
    BY ServerChanges
  <2> QED
    BY <1>2, <2>1, <2>2, <2>3
<1>3. CASE Stays(t)
  BY <1>2, <1>3 DEF Stays, TaskInv
<1>4. CASE ServeRead(t) \/ ServePut(t) \/ Fails(t)
  BY <1>2, <1>4 DEF ServeRead, ServePut, Fails, TaskInv
<1>5. CASE ResumeCount(t)
  <2>1. Await(t, "title", answer[t].count) /\ UNCHANGED <<room, members>>
    BY <1>5 DEF ResumeCount, End, TypeOK, serverVars
  <2>2. count'[t] = answer[t].count
    BY <2>1 DEF Await, TypeOK
  <2>3. answer[t].count = members[room[t]]
    BY <1>1, <1>5 DEF ResumeCount, AnswerInv, AnswerAt, IsCalm
  <2> QED
    BY <2>1, <2>2, <2>3
<1>6. CASE ResumeTitle(t) \/ ResumeDirect(t) \/ ResumeMark(t)
  BY <1>6 DEF ResumeTitle, ResumeDirect, ResumeMark, MarkGot, MarkEnds, End, Await, TypeOK
\* It has begun with the count that was known.
<1>7. CASE ~Busy(t)
  <2>1. /\ sync # <<>> /\ sync' = Tail(sync) /\ members' = members
        /\ Head(sync).type = "message" /\ Head(sync).room = r
        /\ memberCount[r] # 0 /\ count'[t] = memberCount[r]
    BY <1>7, TitleBegins
  <2>2. \A u \in Tasks : at[u] # "count"
    <3>1. Busy(t)'
      BY TypeStep DEF TaskInv
    <3>2. \A u \in Tasks : ~Busy(u)
      BY <1>7, <3>1, Beginning DEF IsCalm
    <3> QED
      BY <3>2 DEF TaskInv
  <2>3. memberCount[r] = members[r] \/ Waiting("member", r) # {}
    BY <1>1, <2>1, <2>2 DEF CountInv, CountAt, IsCalm
  <2>4. Waiting("member", r) # {} => Waiting("member", r)' # {}
    BY <2>1, TailWaiting
  <2> QED
    BY <2>1, <2>3, <2>4
<1> QED
  BY <1>3, <1>4, <1>5, <1>6, <1>7, TaskSteps

\* An event waits that will make the type of r void.
Voided(r) ==
  Waiting("member", r) # {} \/ Waiting("metadata", r) # {} \/ WaitingDirect # {}

\* Only what such an event tells changes what the type should be.
LEMMA TypeOfKeeps ==
  ASSUME TypeOK, TaskInv, [Next]_vars, NEW r \in Rooms
  PROVE  TypeOf(r)' = TypeOf(r) \/ Voided(r)'
<1> SUFFICES ASSUME ~Voided(r)' PROVE TypeOf(r)' = TypeOf(r)
  OBVIOUS
<1>1. members'[r] = members[r] /\ titled'[r] = titled[r] /\ direct' = direct
  BY ServerChanges DEF Voided
<1> QED
  BY <1>1 DEF TypeOf

\* A handler that leaves the type of r leaves the events that will not.
LEMMA HandleKeeps ==
  ASSUME TypeOK, Handle, NEW r \in Rooms, chatType'[r] # "none"
  PROVE  /\ chatType'[r] = chatType[r] /\ TypeOf(r)' = TypeOf(r)
         /\ Voided(r) => Voided(r)'
<1> DEFINE e == Head(sync)
<1>1. /\ sync # <<>> /\ sync' = Tail(sync) /\ UNCHANGED <<direct, members, titled>>
      /\ \/ e.type = "message" /\ \E t \in Tasks : HandleMessage(t, e.room)
         \/ e.type = "member" /\ \E t \in Tasks : HandleMember(t, e.room)
         \/ e.type = "metadata" /\ HandleMetadata(e.room)
         \/ e.type = "direct" /\ HandleDirect(e.rooms)
  BY DEF Handle
<1>2. TypeOf(r)' = TypeOf(r)
  BY <1>1 DEF TypeOf
<1>3. \/ e.type = "message" /\ chatType' = chatType
      \/ e.type \in {"member", "metadata"} /\ chatType' = [chatType EXCEPT ![e.room] = "none"]
      \/ e.type = "direct" /\ chatType' = [q \in Rooms |-> "none"]
  <2>1. ASSUME NEW t \in Tasks, HandleMessage(t, e.room) PROVE chatType' = chatType
    BY <2>1 DEF HandleMessage, cacheVars
  <2>2. ASSUME NEW t \in Tasks, HandleMember(t, e.room)
        PROVE  chatType' = [chatType EXCEPT ![e.room] = "none"]
    BY <2>2 DEF HandleMember
  <2>3. HandleMetadata(e.room) => chatType' = [chatType EXCEPT ![e.room] = "none"]
    BY DEF HandleMetadata
  <2>4. HandleDirect(e.rooms) => chatType' = [q \in Rooms |-> "none"]
    BY DEF HandleDirect
  <2> HIDE DEF e
  <2> QED
    BY <1>1, <2>1, <2>2, <2>3, <2>4
<1>4. /\ chatType'[r] = chatType[r] /\ e.type # "direct"
      /\ e.type \in {"member", "metadata"} => e.room # r
  BY <1>3 DEF TypeOK
<1>5. Waiting("member", r) # {} => Waiting("member", r)' # {}
  BY <1>1, <1>4, TailWaiting
<1>6. Waiting("metadata", r) # {} => Waiting("metadata", r)' # {}
  BY <1>1, <1>4, TailWaiting
<1>7. ASSUME NEW i \in WaitingDirect PROVE WaitingDirect' # {}
  <2>1. 1 \notin WaitingDirect /\ i \in Nat /\ i > 0 /\ (i > 1 => i - 1 \in WaitingDirect')
    BY <1>1, <1>4, TailWaiting
  <2> QED
    BY <2>1
<1> QED
  BY <1>2, <1>4, <1>5, <1>6, <1>7 DEF Voided

\* A decision is right when it is taken, or the event waits that makes it void.
LEMMA DecisionStep ==
  ASSUME TypeOK, TaskInv, AnswerInv, DirectInv, TypeInv, IsCalm, NEW r \in Rooms,
         NEW t \in Tasks, room[t] = r, ResumeTitle(t) \/ ResumeMark(t), chatType'[r] # chatType[r]
  PROVE  chatType'[r] = TypeOf(r)' \/ Voided(r)'
<1>1. UNCHANGED serverVars /\ served[t]
  BY DEF ResumeTitle, ResumeMark
<1>2. TypeOf(r)' = TypeOf(r) /\ Voided(r)' = Voided(r)
  BY <1>1 DEF serverVars, TypeOf, Voided, Waiting, WaitingDirect
<1>3. AnswerAt(t)
  BY DEF AnswerInv
<1>4. CASE ResumeTitle(t)
  <2>1. chatType'[r] = Classify(r, count[t], answer[t].titled) /\ at[t] = "title"
    BY <1>4 DEF ResumeTitle, TypeOK
  <2>2. answer[t].titled = titled[r]
    BY <1>1, <1>3, <2>1 DEF AnswerAt, IsCalm
  <2>3. count[t] = members[r] \/ Voided(r)
    BY <2>1 DEF TypeInv, IsCalm, Voided
  <2>4. directRooms = direct \/ Voided(r)
    BY DEF DirectInv, IsCalm, Undisturbed, Voided
  <2>5. members[r] \in Counts
    BY DEF TypeOK
  <2> QED
    BY <1>2, <2>1, <2>2, <2>3, <2>4, <2>5 DEF Classify, TypeOf, Counts
<1>5. CASE ResumeMark(t)
  <2>1. MarkEnds(t)
    BY <1>5 DEF ResumeMark, MarkGot
  <2>2. chatType'[r] = "direct"
    BY <2>1 DEF MarkEnds, TypeOK
  <2>3. r \in direct
    <3>1. NoAnswer.direct = {}
      BY DEF NoAnswer
    <3> QED
      BY <1>1, <1>3, <1>5, <2>1, <3>1
      DEF ResumeMark, MarkGot, MarkEnds, End, Await, AnswerAt, IsCalm, Undisturbed, TypeOK
  <2> QED
    BY <1>2, <2>2, <2>3 DEF TypeOf
<1> QED
  BY <1>4, <1>5

LEMMA KnownStep ==
  ASSUME TypeOK, TaskInv, AnswerInv, DirectInv, TypeInv, [Next]_vars, IsCalm', NEW r \in Rooms
  PROVE  chatType'[r] \in {"none", TypeOf(r)'} \/ Voided(r)'
<1> SUFFICES ASSUME chatType'[r] # "none" PROVE chatType'[r] = TypeOf(r)' \/ Voided(r)'
  OBVIOUS
<1>1. IsCalm
  BY Crossing DEF IsCalm, Undisturbed
<1>2. chatType[r] \in {"none", TypeOf(r)} \/ Voided(r)
  BY <1>1 DEF TypeInv, IsCalm, Voided
<1>3. CASE Handle
  BY <1>2, <1>3, HandleKeeps
<1>4. CASE ~Handle /\ chatType'[r] = chatType[r]
  <2>1. Voided(r) => Voided(r)'
    BY <1>4, StreamKeeps DEF Voided
  <2> QED
    BY <1>2, <1>4, <2>1, TypeOfKeeps
<1>5. CASE ~Handle /\ chatType'[r] # chatType[r]
  <2>1. PICK t \in Tasks : ResumeTitle(t) \/ ResumeDirect(t) \/ ResumeMark(t)
    BY <1>5
    DEF Next, MembersChange, TitleChanges, DirectChanges, OthersChange, Say, Command, ServeRead,
        ServePut, Fails, ResumeCount, cacheVars, vars
  <2>2. ~ResumeDirect(t)
    BY <1>5 DEF ResumeDirect
  <2>3. room[t] = r
    BY <1>5, <2>1, <2>2 DEF ResumeTitle, ResumeMark, MarkGot, MarkEnds, TypeOK
  <2> QED
    BY <1>1, <1>5, <2>1, <2>2, <2>3, DecisionStep
<1> QED
  BY <1>3, <1>4, <1>5

LEMMA TypeInvStep ==
  TypeOK /\ TaskInv /\ AnswerInv /\ DirectInv /\ CountInv /\ TypeInv /\ [Next]_vars => TypeInv'
<1> SUFFICES ASSUME TypeOK, TaskInv, AnswerInv, DirectInv, CountInv, TypeInv, [Next]_vars, IsCalm'
             PROVE  TypeInv'
  BY DEF TypeInv, IsCalm
<1>1. ASSUME NEW t \in Tasks, at'[t] = "title"
      PROVE  count'[t] = members'[room'[t]] \/ Waiting("member", room[t])' # {}
  <2>1. Busy(t)' /\ room'[t] \in Rooms
    BY <1>1, TypeStep DEF TaskInv
  <2>2. PICK r \in Rooms : room'[t] = r
    BY <2>1
  <2>3. count'[t] = members'[r] \/ Waiting("member", r)' # {}
    BY <1>1, <2>2, TitleStep
  <2> QED
    BY <2>2, <2>3 DEF Waiting
<1>2. \A r \in Rooms : chatType'[r] \in {"none", TypeOf(r)'} \/ Voided(r)'
  BY KnownStep
<1> QED
  BY <1>1, <1>2 DEF TypeInv, Voided

-----------------------------------------------------------------------------
(* The invariant and what it says where all is quiet.                       *)

LEMMA InitIInv == Init => IInv
<1> SUFFICES ASSUME Init PROVE IInv
  OBVIOUS
<1>1. TypeOK /\ TaskInv
  BY InitTypes
<1>2. WaitingDirect = {}
  <2>1. ASSUME NEW r \in Rooms, sync = <<[type |-> "member", room |-> r]>> PROVE WaitingDirect = {}
    BY <2>1 DEF WaitingDirect
  <2>2. CASE sync = <<>>
    BY <2>2 DEF WaitingDirect
  <2> QED
    BY <2>1, <2>2, InputAssumption DEF Init
<1>3. LastInv /\ DirectInv /\ WantedInv
  BY <1>2 DEF LastInv, DirectInv, WantedInv, Init
<1>4. AnswerInv /\ CountInv /\ TurnInv /\ TypeInv
  BY DEF Init, AnswerInv, AnswerAt, CountInv, CountAt, TurnInv, Busy, TypeInv
<1> QED
  BY <1>1, <1>3, <1>4 DEF IInv

\* Others list and unlist a room as it is; a put adds its room to what it read.
LEMMA WantedStep == WantedInv /\ [Next]_vars => WantedInv'
<1> SUFFICES ASSUME WantedInv, [Next]_vars, ~stale' PROVE wanted' = direct'
  BY DEF WantedInv
<1>1. ASSUME NEW r \in Rooms, DirectChanges(r) PROVE wanted' = direct'
  BY <1>1 DEF DirectChanges, OthersChange, WantedInv
<1>2. ASSUME NEW t \in Tasks, ServePut(t) PROVE wanted' = direct'
  BY <1>2 DEF ServePut, Marked, WantedInv
<1>3. CASE UNCHANGED <<direct, wanted, stale>>
  BY <1>3 DEF WantedInv
<1> QED
  BY <1>1, <1>2, <1>3
  DEF Next, MembersChange, TitleChanges, OthersChange, Say, Handle, Command, ServeRead, Fails,
      ResumeCount, ResumeTitle, ResumeDirect, ResumeMark, serverVars, vars

LEMMA NextIInv == IInv /\ [Next]_vars => IInv'
BY TypeStep, WantedStep, LastStep, AnswerStep, DirectStep, CountStep, TurnStep, TypeInvStep DEF IInv

\* The types, what each task awaits, and why the caches end as the homeserver
\* has it hold of any number of rooms and of handlers and commands under way.
THEOREM Inductive == Spec => []IInv
<1>1. Init => IInv
  BY InitIInv
<1>2. IInv /\ [Next]_vars => IInv'
  BY NextIInv
<1> QED
  BY <1>1, <1>2, PTL DEF Spec

\* Every variable stays in its range.
THEOREM TypeCorrect == Spec => []TypeOK
<1>1. IInv => TypeOK
  BY DEF IInv
<1> QED
  BY <1>1, Inductive, PTL

\* Where all is quiet no event waits and nothing is awaited.
LEMMA QuietAtEnd ==
  ASSUME IInv, Settled
  PROVE  /\ WaitingDirect = {}
         /\ \A type : \A r : Waiting(type, r) = {}
         /\ \A t \in Tasks : at[t] = "none"
BY EmptySeq DEF IInv, TaskInv, Settled, Waiting, WaitingDirect

\* m.direct keeps what the account's clients listed, and direct_room_ids has it,
\* while accept_invite puts the whole of m.direct, whatever request has failed but
\* a read before a put, or a put made from what m.direct was no longer.
THEOREM DirectIsKept == Spec => []DirectKept
<1>1. IInv => DirectKept
  BY QuietAtEnd DEF DirectKept, IInv, DirectInv, WantedInv
<1> QED
  BY <1>1, Inductive, PTL

\* direct_room_ids ends as m.direct and each known member count ends right,
\* however many handlers and commands have crossed.
THEOREM CachesEndRight == Spec => []CachesAgree
<1>1. IInv => CachesAgree
  <2> SUFFICES ASSUME IInv, Calm
               PROVE  /\ directRooms = direct
                      /\ \A r \in Rooms : memberCount[r] \in {0, members[r]}
    BY DEF CachesAgree
  <2>1. Settled /\ Undisturbed
    BY DEF Calm, Undisturbed
  <2>2. directRooms = direct
    BY <2>1, QuietAtEnd DEF IInv, DirectInv, Undisturbed
  <2>3. ASSUME NEW r \in Rooms PROVE memberCount[r] \in {0, members[r]}
    BY <2>1, QuietAtEnd DEF IInv, CountInv, CountAt
  <2> QED
    BY <2>2, <2>3
<1> QED
  BY <1>1, Inductive, PTL

\* The type of a room is what m.direct, its members and its title make of it,
\* when handlers and commands have run one after the other.
THEOREM TypesEndRight == Spec => []TypeFollowsInTurn
<1>1. IInv => TypeFollowsInTurn
  <2> SUFFICES ASSUME IInv, Calm, ~mixed, NEW r \in Rooms, chatType[r] # "none"
               PROVE  chatType[r] = TypeOf(r)
    BY DEF TypeFollowsInTurn, TypesAreRight
  <2>1. Settled /\ Undisturbed
    BY DEF Calm, Undisturbed
  <2> QED
    BY <2>1, QuietAtEnd DEF IInv, TypeInv
<1> QED
  BY <1>1, Inductive, PTL
=============================================================================
