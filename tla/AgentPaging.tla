---------------------------- MODULE AgentPaging ----------------------------
(***************************************************************************)
(* An agent that reads a list to its end with executeAgentOperation: it     *)
(* asks for pages of `limit` items and passes nextCursor on while hasMore.  *)
(* No operation keeps anything between two calls: the list is read anew     *)
(* for every page, and may have changed.                                    *)
(*                                                                          *)
(* listChats and listInvites read the whole list of every transport, sort   *)
(* it and cut the page out of it; listMembers and getPinnedMessages ask the *)
(* sidecar for the page and one item more; getMessageRelations passes the   *)
(* homeserver's token on.  Items are numbered in the order of their list.   *)
(***************************************************************************)
EXTENDS Integers, FiniteSets

CONSTANTS
  Items,         \* a set of positive integers
  Transports,    \* intervals of Items
  MaxLimit,      \* 100 in the code
  MaxChanges,    \* bound: how often the list changes
  MaxFailures,   \* bound: how often a call fails
  NoAnswer

Whole == {"listChats", "listInvites"}
Collected == {"listMembers", "getPinnedMessages"}
Operations == Whole \cup Collected \cup {"getMessageRelations"}

ASSUME ItemAssumption == Items \subseteq Nat \ {0} /\ IsFiniteSet(Items)
ASSUME TransportAssumption == UNION Transports = Items
ASSUME BoundAssumption == MaxLimit \in Nat \ {0} /\ MaxChanges \in Nat /\ MaxFailures \in Nat

VARIABLES
  operation,
  limit,
  list,          \* the items there are
  odd,           \* those the sidecar leaves out of an answer: pins that are no event ids,
                 \* relations without the fields of one
  status,        \* of the agent: "ready" to call, "waiting", "done"
  cursor,        \* an offset; of relations, the last item of the page before
  answers        \* per transport, the list it has answered with

readVars == <<list, odd>>
callVars == <<status, cursor, answers>>

VARIABLES
  got,           \* history: the items returned
  twice,         \* history: those returned more than once
  kept,          \* history: the items that were there all the time
  movedUp,       \* history: those that something before them left
  movedDown,     \* history: those that something before them joined
  changes,
  failures,
  hidden         \* history: a failure was answered as the end of the list

history == <<got, twice, kept, movedUp, movedDown, changes, failures, hidden>>

vars == <<operation, limit, readVars, callVars, history>>

NoAnswers == [t \in Transports |-> NoAnswer]

TypeOK ==
  /\ operation \in Operations
  /\ limit \in 1..MaxLimit
  /\ list \subseteq Items /\ odd \subseteq Items
  /\ status \in {"ready", "waiting", "done"}
  /\ cursor \in Nat
  /\ answers \in [Transports -> (SUBSET Items) \cup {NoAnswer}]
  /\ twice \subseteq got /\ got \subseteq Items
  /\ kept \subseteq list
  /\ movedUp \subseteq Items /\ movedDown \subseteq Items
  /\ changes \in 0..MaxChanges /\ failures \in 0..MaxFailures
  /\ hidden \in BOOLEAN

Init ==
  /\ operation \in Operations
  /\ limit \in 1..MaxLimit
  /\ list \in SUBSET Items
  /\ odd \in IF operation \in {"getPinnedMessages", "getMessageRelations"}
             THEN {{}} \cup {{i} : i \in Items} ELSE {{}}
  /\ status = "ready"
  /\ cursor = 0
  /\ answers = NoAnswers
  /\ got = {}
  /\ twice = {}
  /\ kept = list
  /\ movedUp = {}
  /\ movedDown = {}
  /\ changes = 0
  /\ failures = 0
  /\ hidden = FALSE

-----------------------------------------------------------------------------
(* Pages.                                                                   *)

\* How many items of a set there are up to i; for one of them, its position.
Place(set, i) == Cardinality({j \in set : j <= i})

\* The items at positions from..to of a set, in order.
Slice(set, from, to) == {i \in set : Place(set, i) \in from..to}

\* collectedPage() gets one item more than the page, if the sidecar's bound
\* allows it.
Asked == IF limit + 1 <= MaxLimit THEN limit + 1 ELSE MaxLimit

Returned(page) ==
  /\ got' = got \cup page
  /\ twice' = twice \cup (got \cap page)
  /\ answers' = NoAnswers
  /\ UNCHANGED <<operation, limit, readVars, kept, movedUp, movedDown, changes, failures>>

Proceeds(hasMore, next) ==
  /\ status' = IF hasMore THEN "ready" ELSE "done"
  /\ cursor' = IF hasMore THEN next ELSE cursor

BugPage(items) ==
  LET here == Slice(items, cursor + 1, cursor + limit)
  IN  /\ Returned(here)
      /\ Proceeds(Cardinality(items) > Cardinality(here), cursor + Cardinality(here))
      /\ UNCHANGED hidden

\* page()
Page(items) ==
  LET here == Slice(items, cursor + 1, cursor + limit)
  IN  /\ Returned(here)
      /\ Proceeds(Cardinality(items) > cursor + Cardinality(here), cursor + Cardinality(here))
      /\ UNCHANGED hidden

BugSkips(items) ==
  /\ Returned(Slice(items, 1, limit))
  /\ Proceeds(Cardinality(items) > limit, cursor + Cardinality(items))
  /\ UNCHANGED hidden

BugRepeats(items) ==
  /\ Returned(items)
  /\ Proceeds(Cardinality(items) > limit, cursor + limit)
  /\ UNCHANGED hidden

\* collectedPage()
CollectedPage(items) ==
  LET here == Slice(items, 1, limit)
  IN  /\ Returned(here)
      /\ Proceeds(Cardinality(items) > Cardinality(here), cursor + Cardinality(here))
      /\ UNCHANGED hidden

-----------------------------------------------------------------------------
(* Calls.                                                                   *)

\* A request that fails validation makes no call and ends nothing.
Call ==
  /\ status = "ready"
  /\ status' = "waiting"
  /\ UNCHANGED <<operation, limit, readVars, cursor, answers, history>>

\* The transports answer one after the other.
ListOf(t) ==
  /\ status = "waiting"
  /\ operation \in Whole
  /\ answers[t] = NoAnswer
  /\ answers' = [answers EXCEPT ![t] = list \cap t]
  /\ UNCHANGED <<operation, limit, readVars, status, cursor, history>>

ListsReturn ==
  /\ status = "waiting"
  /\ operation \in Whole
  /\ \A t \in Transports : answers[t] # NoAnswer
  /\ Page(UNION {answers[t] : t \in Transports})

\* The sidecar cuts its answer out of the list, then leaves the odd ones out.
CollectionReturns ==
  /\ status = "waiting"
  /\ operation \in Collected
  /\ CollectedPage(Slice(list, cursor + 1, cursor + Asked) \ odd)

RelationsReturn ==
  LET rest == {i \in list : i > cursor}
      here == Slice(rest, 1, limit)
  IN  /\ status = "waiting"
      /\ operation = "getMessageRelations"
      /\ Returned(here \ odd)
      /\ Proceeds(here # rest, CHOOSE i \in here \cup {0} : \A j \in here : j <= i)
      /\ UNCHANGED hidden

\* An error of the homeserver is answered with no items and no next cursor.
RelationsHidden ==
  /\ status = "waiting"
  /\ operation = "getMessageRelations"
  /\ status' = "done"
  /\ hidden' = TRUE
  /\ UNCHANGED <<operation, limit, readVars, cursor, answers, got, twice, kept, movedUp,
                 movedDown, changes, failures>>

\* One transport fails, or the sidecar: the call does, and the agent makes it
\* again with the cursor it has.
CallFails ==
  /\ status = "waiting"
  /\ failures < MaxFailures
  /\ failures' = failures + 1
  /\ status' = "ready"
  /\ answers' = NoAnswers
  /\ UNCHANGED <<operation, limit, readVars, cursor, got, twice, kept, movedUp, movedDown,
                 changes, hidden>>

-----------------------------------------------------------------------------
(* The list changes.                                                        *)

Changes ==
  /\ status # "done"
  /\ changes < MaxChanges
  /\ changes' = changes + 1
  /\ UNCHANGED <<operation, limit, odd, callVars, got, twice, failures, hidden>>

Joins(i) ==
  /\ i \notin list
  /\ Changes
  /\ list' = list \cup {i}
  /\ movedDown' = movedDown \cup {j \in Items : j >= i}
  /\ UNCHANGED <<kept, movedUp>>

Leaves(i) ==
  /\ i \in list
  /\ Changes
  /\ list' = list \ {i}
  /\ kept' = kept \ {i}
  /\ movedUp' = movedUp \cup {j \in Items : j > i}
  /\ UNCHANGED movedDown

-----------------------------------------------------------------------------

Next ==
  \/ Call
  \/ \E t \in Transports : ListOf(t)
  \/ ListsReturn
  \/ CollectionReturns
  \/ RelationsReturn
  \/ RelationsHidden
  \/ CallFails
  \/ \E i \in Items : Joins(i) \/ Leaves(i)

Spec == Init /\ [][Next]_vars

\* The agent goes on, and every call is answered.
FairSpec ==
  /\ Spec
  /\ WF_vars(Call)
  /\ \A t \in Transports : WF_vars(ListOf(t))
  /\ WF_vars(ListsReturn)
  /\ WF_vars(CollectionReturns)
  /\ WF_vars(RelationsReturn)

-----------------------------------------------------------------------------
(* Properties.                                                              *)

\* Of members and pins less than the sidecar's bound are asked for at a time
\* (agent-operations.ts:443), and no pin is left out: both would be taken for the
\* end of the list.
EndIsSeen == operation \in Collected => limit < MaxLimit /\ odd = {}

\* What the operation can page: an error of relations is taken for the end too
\* (matrix-mautrix-sidecar.py:668).
Pageable == EndIsSeen /\ ~hidden

\* An agent that has read to the end has every item that was there all the
\* time, unless an item before it left, and of relations every one.
NothingSkipped ==
  status = "done" /\ Pageable =>
    kept \ odd \subseteq got \cup (IF operation = "getMessageRelations" THEN {} ELSE movedUp)

\* It got an item again only if that or one before it joined, and a relation
\* never: a call that failed and was made again repeats nothing.
NothingRepeated ==
  twice \subseteq (IF operation = "getMessageRelations" THEN {} ELSE movedDown)

\* Following nextCursor ends.
ReadingEnds == <>(status = "done")

-----------------------------------------------------------------------------
(* The inductive strengthening the safety properties rest on.               *)

\* Only a call of a whole list is answered in parts.
IdleInv == answers # NoAnswers => status = "waiting" /\ operation \in Whole

\* What the call under way shows of a transport if it answers now.
Seen(t) == IF answers[t] = NoAnswer THEN list \cap t ELSE answers[t]
Merged == UNION {Seen(t) : t \in Transports}

\* Up to an item that nothing moved up, what an answer has is still there; up to
\* one that nothing moved down, an answer has what is there.
SeenInv ==
  \A t \in Transports :
    /\ \A i \in kept \ movedUp :
         (\A j \in Seen(t) : j <= i => j \in list) /\ (i \in t => i \in Seen(t))
    /\ \A i \in Items \ movedDown : \A j \in list \cap t : j <= i => j \in Seen(t)

\* An offset has the items that are returned before it and the others after it.
OffsetInv ==
  status # "done" /\ operation # "getMessageRelations" =>
    /\ EndIsSeen => \A i \in kept \ movedUp : Place(Merged, i) <= cursor => i \in got
    /\ \A i \in got \ movedDown : Place(Merged, i) <= cursor

\* So has a token, wherever the items have moved.
TokenInv ==
  status # "done" /\ operation = "getMessageRelations" =>
    /\ \A i \in kept \ odd : i <= cursor => i \in got
    /\ \A i \in got : i <= cursor

IInv ==
  TypeOK /\ IdleInv /\ SeenInv /\ OffsetInv /\ TokenInv /\ NothingSkipped /\ NothingRepeated
=============================================================================
