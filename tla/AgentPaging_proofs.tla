------------------------- MODULE AgentPaging_proofs -------------------------
(***************************************************************************)
(* Proofs about AgentPaging for any finite list, any limit and any number    *)
(* of changes and failures: the lemmas on positions and pages, and that an   *)
(* agent that follows nextCursor to the end skips nothing that was there all *)
(* the time and is given nothing twice unless the list moved.                *)
(***************************************************************************)
EXTENDS AgentPaging, FiniteSetTheorems, TLAPS

-----------------------------------------------------------------------------
(* Positions in a finite set of numbers.                                    *)

\* A position is a number up to the size of the set; only what comes before all
\* of it has the position 0.
LEMMA PlaceType ==
  ASSUME NEW S \in SUBSET Nat, IsFiniteSet(S), NEW i \in Nat
  PROVE  /\ Cardinality(S) \in Nat
         /\ Place(S, i) \in 0..Cardinality(S)
         /\ i \in S => Place(S, i) \in 1..Cardinality(S)
<1> DEFINE upTo == {j \in S : j <= i}
<1>1. upTo \in SUBSET S
  OBVIOUS
<1>2. IsFiniteSet(upTo) /\ Cardinality(upTo) <= Cardinality(S)
  BY <1>1, FS_Subset
<1>3. Cardinality(upTo) \in Nat /\ Cardinality(S) \in Nat
  BY <1>2, FS_CardinalityType
<1>4. i \in S => Cardinality(upTo) # 0
  <2>1. i \in S => upTo # {}
    OBVIOUS
  <2> QED
    BY <1>2, <2>1, FS_EmptySet
<1> QED
  BY <1>2, <1>3, <1>4 DEF Place

\* Whoever has all that another set has up to a number has it at no lower position.
LEMMA PlaceGrows ==
  ASSUME NEW S \in SUBSET Nat, NEW T \in SUBSET Nat, IsFiniteSet(T), NEW i \in Nat, NEW j \in Nat,
         \A k \in S : k <= i => k \in T /\ k <= j
  PROVE  Place(S, i) <= Place(T, j)
<1>1. {k \in S : k <= i} \in SUBSET {k \in T : k <= j}
  OBVIOUS
<1>2. IsFiniteSet({k \in T : k <= j})
  <2>1. {k \in T : k <= j} \in SUBSET T
    OBVIOUS
  <2> QED
    BY <2>1, FS_Subset
<1> QED
  BY <1>1, <1>2, FS_Subset DEF Place

\* Positions are in the order of the items.
LEMMA PlaceOrder ==
  ASSUME NEW S \in SUBSET Nat, IsFiniteSet(S), NEW i \in Nat, NEW j \in S, i < j
  PROVE  Place(S, i) < Place(S, j)
<1> DEFINE upTo(k) == {n \in S : n <= k}
<1>1. upTo(i) \in SUBSET upTo(j) /\ j \in upTo(j) /\ j \notin upTo(i)
  <2>1. ASSUME NEW k \in S, k <= i PROVE k <= j
    BY <2>1
  <2>2. j <= j /\ ~(j <= i)
    OBVIOUS
  <2>3. upTo(i) \subseteq upTo(j)
    BY <2>1
  <2>4. j \in upTo(j) /\ j \notin upTo(i)
    BY <2>2
  <2> QED
    BY <2>3, <2>4
<1>2. upTo(j) \in SUBSET S
  OBVIOUS
<1>3. IsFiniteSet(upTo(j))
  BY <1>2, FS_Subset
<1>4. /\ IsFiniteSet(upTo(i))
      /\ Cardinality(upTo(i)) <= Cardinality(upTo(j))
      /\ Cardinality(upTo(i)) # Cardinality(upTo(j))
  <2> HIDE DEF upTo
  <2>1. upTo(i) # upTo(j)
    BY <1>1
  <2> QED
    BY <1>1, <1>3, <2>1, FS_Subset
<1>5. Cardinality(upTo(i)) \in Nat /\ Cardinality(upTo(j)) \in Nat
  BY <1>3, <1>4, FS_CardinalityType
<1> QED
  BY <1>4, <1>5 DEF Place

\* So no two items have the same position, and every position has an item.
LEMMA PlaceOnto ==
  ASSUME NEW S \in SUBSET Nat, IsFiniteSet(S), NEW n \in 1..Cardinality(S)
  PROVE  \E i \in S : Place(S, i) = n
<1> DEFINE f == [i \in S |-> Place(S, i)]
           N == Cardinality(S)
<1>1. N \in Nat
  BY FS_CardinalityType
<1>2. f \in [S -> 1..N]
  BY PlaceType
<1>3. ASSUME NEW i \in S, NEW j \in S, f[i] = f[j] PROVE i = j
  <2>1. i < j \/ j < i \/ i = j
    OBVIOUS
  <2>2. Place(S, i) \in Int /\ Place(S, j) \in Int /\ Place(S, i) = Place(S, j)
    BY <1>3, PlaceType
  <2> QED
    BY <2>1, <2>2, PlaceOrder
<1>4. IsFiniteSet(1..N) /\ Cardinality(1..N) = N
  BY <1>1, FS_Interval
<1> HIDE DEF f
<1>5. f \in Injection(S, 1..N)
  BY <1>2, <1>3 DEF Injection, IsInjective
<1>6. f \in Surjection(S, 1..N)
  BY <1>4, <1>5, FS_Injection
<1>7. \E i \in S : f[i] = n
  BY <1>6 DEF Surjection
<1> QED
  BY <1>7 DEF f

-----------------------------------------------------------------------------
(* Slices.                                                                  *)

\* The items of a slice are numbered from its beginning on.
LEMMA SliceOfPlaces ==
  ASSUME NEW S \in SUBSET Nat, IsFiniteSet(S), NEW c \in Nat, NEW d \in Nat,
         NEW i \in Slice(S, c + 1, d)
  PROVE  Place(Slice(S, c + 1, d), i) = Place(S, i) - c
<1> DEFINE F == {j \in Slice(S, c + 1, d) : j <= i}
           p == Place(S, i) - c
           f == [j \in F |-> Place(S, j) - c]
<1>1. i \in S /\ i \in Nat /\ Place(S, i) \in (c + 1)..d /\ p \in Nat
  BY DEF Slice
<1>2. ASSUME NEW j \in S PROVE Place(S, j) \in 1..Cardinality(S) /\ Cardinality(S) \in Nat
  BY PlaceType
<1>3. ASSUME NEW j \in F PROVE j \in S /\ f[j] \in 1..p
  <2>1. j \in S /\ j <= i /\ Place(S, j) \in (c + 1)..d
    BY DEF Slice
  <2>2. j < i \/ j = i
    BY <1>1, <2>1
  <2>3. Place(S, j) <= Place(S, i)
    BY <1>1, <1>2, <2>1, <2>2, PlaceOrder
  <2> QED
    BY <1>1, <2>1, <2>3
<1>4. ASSUME NEW j \in F, NEW k \in F, f[j] = f[k] PROVE j = k
  <2>1. j \in S /\ k \in S /\ Place(S, j) = Place(S, k) /\ Place(S, j) \in Nat
    <3>1. j \in S /\ k \in S
      BY <1>3
    <3>2. Place(S, j) \in Nat /\ Place(S, k) \in Nat
      BY <1>2, <3>1
    <3>3. f[j] = Place(S, j) - c /\ f[k] = Place(S, k) - c
      OBVIOUS
    <3> QED
      BY <1>4, <3>1, <3>2, <3>3
  <2>2. j < k \/ k < j \/ j = k
    BY <2>1
  <2> QED
    BY <2>1, <2>2, PlaceOrder
<1>5. ASSUME NEW n \in 1..p PROVE \E j \in F : f[j] = n
  <2>1. c + n \in 1..Cardinality(S) /\ c + n <= Place(S, i)
    BY <1>1, <1>2
  <2>2. PICK j \in S : Place(S, j) = c + n
    BY <2>1, PlaceOnto
  <2>3. j <= i
    <3>1. i < j => Place(S, i) < Place(S, j)
      BY <1>1, PlaceOrder
    <3> QED
      BY <1>1, <2>1, <2>2, <3>1
  <2>4. j \in Slice(S, c + 1, d)
    BY <1>1, <2>1, <2>2 DEF Slice
  <2> QED
    BY <2>2, <2>3, <2>4
<1>6. IsFiniteSet(1..p) /\ Cardinality(1..p) = p
  BY <1>1, FS_Interval
<1>7. f \in [F -> 1..p]
  BY <1>3
<1> HIDE DEF f, F, p
<1>8. f \in Injection(F, 1..p)
  BY <1>4, <1>7 DEF Injection, IsInjective
<1>9. f \in Surjection(F, 1..p)
  BY <1>5, <1>7 DEF Surjection
<1>10. Cardinality(F) = p
  BY <1>6, <1>8, <1>9, FS_Injection
<1> QED
  BY <1>10 DEF F, p, Place

\* A slice has at most as many items as it has places, and ends at the place that
\* its size says.
LEMMA SliceSize ==
  ASSUME NEW S \in SUBSET Nat, IsFiniteSet(S), NEW c \in Nat, NEW n \in Nat
  PROVE  /\ Slice(S, c + 1, c + n) \subseteq S
         /\ IsFiniteSet(Slice(S, c + 1, c + n))
         /\ Cardinality(Slice(S, c + 1, c + n)) \in 0..n
         /\ \A i \in Slice(S, c + 1, c + n) :
              Place(S, i) <= c + Cardinality(Slice(S, c + 1, c + n))
<1> DEFINE F == Slice(S, c + 1, c + n)
           f == [j \in F |-> Place(S, j) - c]
<1>1. F \in SUBSET S
  BY DEF Slice
<1>2. IsFiniteSet(F) /\ Cardinality(F) \in Nat
  BY <1>1, FS_Subset, FS_CardinalityType
<1>3. ASSUME NEW j \in F PROVE j \in S /\ Place(S, j) \in (c + 1)..(c + n) /\ f[j] \in 1..n
  BY DEF Slice
<1>4. ASSUME NEW j \in F, NEW k \in F, f[j] = f[k] PROVE j = k
  <2>1. j \in S /\ k \in S /\ Place(S, j) = Place(S, k) /\ Place(S, j) \in Nat
    BY <1>3, <1>4
  <2>2. j < k \/ k < j \/ j = k
    BY <2>1
  <2> QED
    BY <2>1, <2>2, PlaceOrder
<1>5. f \in [F -> 1..n]
  BY <1>3
<1>6. IsFiniteSet(1..n) /\ Cardinality(1..n) = n
  BY FS_Interval
<1>7. Cardinality(F) <= n
  <2> HIDE DEF f, F
  <2>1. f \in Injection(F, 1..n)
    BY <1>4, <1>5 DEF Injection, IsInjective
  <2> QED
    BY <1>6, <2>1, FS_Injection
<1>8. ASSUME NEW i \in F PROVE Place(S, i) <= c + Cardinality(F)
  <2>1. Place(F, i) = Place(S, i) - c
    BY SliceOfPlaces
  <2>2. Place(F, i) <= Cardinality(F)
    <3>1. F \in SUBSET Nat /\ i \in Nat
      BY <1>1
    <3> HIDE DEF F
    <3> QED
      BY <1>2, <3>1, PlaceType
  <2> QED
    BY <1>2, <1>3, <2>1, <2>2
<1> QED
  BY <1>1, <1>2, <1>7, <1>8

\* The page of a slice with one item more is the slice without it.
LEMMA PageOfMore ==
  ASSUME NEW S \in SUBSET Nat, IsFiniteSet(S), NEW c \in Nat, NEW n \in Nat
  PROVE  Slice(Slice(S, c + 1, c + (n + 1)), 1, n) = Slice(S, c + 1, c + n)
<1> DEFINE more == Slice(S, c + 1, c + (n + 1))
<1>1. ASSUME NEW i \in more PROVE Place(more, i) = Place(S, i) - c
  BY SliceOfPlaces
<1>2. ASSUME NEW i \in S PROVE Place(S, i) \in Nat
  BY PlaceType
<1>3. \A i : i \in more <=> i \in S /\ Place(S, i) \in (c + 1)..(c + (n + 1))
  BY DEF Slice
<1>4. \A i : i \in Slice(more, 1, n) <=> i \in more /\ Place(more, i) \in 1..n
  BY DEF Slice
<1>5. \A i : i \in Slice(S, c + 1, c + n) <=> i \in S /\ Place(S, i) \in (c + 1)..(c + n)
  BY DEF Slice
<1>6. ASSUME NEW i \in S
      PROVE  i \in Slice(more, 1, n) <=> i \in Slice(S, c + 1, c + n)
  <2> HIDE DEF more
  <2>1. i \in more => (Place(more, i) \in 1..n <=> Place(S, i) \in (c + 1)..(c + n))
    BY <1>1, <1>2
  <2>2. Place(S, i) \in (c + 1)..(c + n) => i \in more
    BY <1>2, <1>3
  <2> QED
    BY <1>4, <1>5, <2>1, <2>2
<1> HIDE DEF more
<1>7. Slice(more, 1, n) = Slice(S, c + 1, c + n)
  BY <1>3, <1>4, <1>5, <1>6
<1> QED
  BY <1>7 DEF more

\* Without that item there are none behind the page.
LEMMA EndOfSet ==
  ASSUME NEW S \in SUBSET Nat, IsFiniteSet(S), NEW c \in Nat, NEW n \in Nat,
         Slice(S, c + 1, c + (n + 1)) \subseteq Slice(S, c + 1, c + n)
  PROVE  Cardinality(S) <= c + n
<1>1. Cardinality(S) \in Nat
  BY FS_CardinalityType
<1> SUFFICES ASSUME c + (n + 1) \in 1..Cardinality(S) PROVE FALSE
  BY <1>1
<1>2. PICK i \in S : Place(S, i) = c + (n + 1)
  BY PlaceOnto
<1>3. i \in Slice(S, c + 1, c + (n + 1))
  BY <1>2 DEF Slice
<1>4. i \notin Slice(S, c + 1, c + n)
  BY <1>2 DEF Slice
<1> QED
  BY <1>3, <1>4

\* A page with fewer items than places is all that is left.
LEMMA WholePage ==
  ASSUME NEW S \in SUBSET Nat, IsFiniteSet(S), NEW n \in Nat, Cardinality(S) <= n
  PROVE  Slice(S, 1, n) = S
<1>1. ASSUME NEW i \in S PROVE Place(S, i) \in 1..n
  <2>1. Place(S, i) \in 1..Cardinality(S) /\ Cardinality(S) \in Nat
    BY PlaceType
  <2> QED
    BY <2>1
<1> QED
  BY <1>1 DEF Slice

LEMMA LargestItem ==
  ASSUME NEW S \in SUBSET Nat, IsFiniteSet(S), S # {}
  PROVE  \E m \in S : \A j \in S : j <= m
<1>1. Cardinality(S) \in Nat /\ Cardinality(S) # 0
  BY FS_CardinalityType, FS_EmptySet
<1>2. Cardinality(S) \in 1..Cardinality(S)
  BY <1>1
<1>3. PICK m \in S : Place(S, m) = Cardinality(S)
  BY <1>2, PlaceOnto
<1>4. ASSUME NEW j \in S, m < j PROVE FALSE
  <2>1. Place(S, m) < Place(S, j)
    BY <1>4, PlaceOrder
  <2>2. Place(S, j) \in 1..Cardinality(S)
    BY PlaceType
  <2> QED
    BY <1>1, <1>3, <2>1, <2>2
<1> QED
  BY <1>4

-----------------------------------------------------------------------------
(* Types.                                                                   *)

LEMMA Finite ==
  /\ Items \in SUBSET Nat /\ 0 \notin Items /\ IsFiniteSet(Items)
  /\ \A S \in SUBSET Items : S \in SUBSET Nat /\ IsFiniteSet(S)
BY ItemAssumption, FS_Subset

\* What the call under way shows if it ends now.
LEMMA MergedType ==
  ASSUME TypeOK
  PROVE  Merged \in SUBSET Items /\ \A t \in Transports : Seen(t) \in SUBSET Items
<1>1. ASSUME NEW t \in Transports PROVE Seen(t) \in SUBSET Items
  BY DEF TypeOK, Seen
<1> QED
  BY <1>1 DEF Merged

\* The last item of a page.
LastOf(page) == CHOOSE i \in page \cup {0} : \A j \in page : j <= i

LEMMA LastOfPage ==
  ASSUME NEW page \in SUBSET Items
  PROVE  LastOf(page) \in page \cup {0} /\ \A j \in page : j <= LastOf(page)
<1>1. \E i \in page \cup {0} : \A j \in page : j <= i
  <2>1. page # {} => \E m \in page : \A j \in page : j <= m
    BY Finite, LargestItem
  <2> QED
    BY <2>1
<1> QED
  BY <1>1 DEF LastOf

LEMMA ReturnedTypes ==
  ASSUME TypeOK, NEW page \in SUBSET Items, Returned(page), hidden' \in BOOLEAN,
         status' \in {"ready", "done"}, cursor' \in Nat
  PROVE  TypeOK' /\ IdleInv'
<1>1. answers' \in [Transports -> (SUBSET Items) \cup {NoAnswer}]
  BY DEF Returned, NoAnswers
<1>2. got' \subseteq Items /\ twice' \subseteq got'
  BY DEF Returned, TypeOK
<1>3. IdleInv'
  BY DEF IdleInv, Returned, NoAnswers
<1> QED
  BY <1>1, <1>2, <1>3 DEF TypeOK, Returned, readVars

\* Where nothing has been answered yet a call shows the list.
LEMMA NothingAnswered ==
  ASSUME list \subseteq Items, answers = NoAnswers
  PROVE  Merged = list /\ \A t \in Transports : Seen(t) = list \cap t
<1>1. \A t \in Transports : Seen(t) = list \cap t
  BY DEF NoAnswers, Seen
<1>2. ASSUME NEW i \in list PROVE i \in Merged
  <2>1. PICK t \in Transports : i \in t
    BY TransportAssumption
  <2> QED
    BY <1>1, <2>1 DEF Merged
<1>3. ASSUME NEW i \in Merged PROVE i \in list
  BY <1>1 DEF Merged
<1> QED
  BY <1>1, <1>2, <1>3

\* What each operation returns, of what it shows.
LEMMA ListsPage ==
  ASSUME TypeOK, ListsReturn, NEW here, here = Slice(Merged, cursor + 1, cursor + limit)
  PROVE  /\ status = "waiting" /\ operation \in Whole /\ hidden' = hidden
         /\ Returned(here)
         /\ Proceeds(Cardinality(Merged) > cursor + Cardinality(here), cursor + Cardinality(here))
<1>1. /\ status = "waiting" /\ operation \in Whole
      /\ \A t \in Transports : answers[t] # NoAnswer
      /\ Page(UNION {answers[t] : t \in Transports})
  BY DEF ListsReturn
<1>2. UNION {answers[t] : t \in Transports} = Merged
  BY <1>1 DEF Merged, Seen
<1> QED
  BY <1>1, <1>2 DEF Page

LEMMA CollectedSlice ==
  ASSUME TypeOK, IdleInv, CollectionReturns,
         NEW items, items = Slice(list, cursor + 1, cursor + Asked) \ odd,
         NEW here, here = Slice(items, 1, limit)
  PROVE  /\ status = "waiting" /\ operation \in Collected /\ hidden' = hidden
         /\ answers = NoAnswers
         /\ Returned(here)
         /\ Proceeds(Cardinality(items) > Cardinality(here), cursor + Cardinality(here))
BY DEF CollectionReturns, CollectedPage, IdleInv, Whole, Collected

LEMMA RelationsPage ==
  ASSUME RelationsReturn, NEW rest, rest = {i \in list : i > cursor},
         NEW here, here = Slice(rest, 1, limit)
  PROVE  /\ status = "waiting" /\ operation = "getMessageRelations" /\ hidden' = hidden
         /\ Returned(here \ odd)
         /\ Proceeds(here # rest, LastOf(here))
BY DEF RelationsReturn, LastOf

\* Each page is of items.
LEMMA PageSizes ==
  ASSUME TypeOK
  PROVE  /\ limit \in Nat \ {0} /\ cursor \in Nat /\ Asked \in Nat
         /\ Asked = limit + 1 \/ (Asked = limit /\ limit = MaxLimit)
         /\ limit < MaxLimit => Asked = limit + 1
BY BoundAssumption DEF TypeOK, Asked

LEMMA SliceType ==
  ASSUME NEW S \in SUBSET Items, NEW a, NEW b
  PROVE  Slice(S, a, b) \in SUBSET S /\ IsFiniteSet(Slice(S, a, b))
         /\ Cardinality(Slice(S, a, b)) \in Nat
<1>1. Slice(S, a, b) \in SUBSET S
  BY DEF Slice
<1> QED
  BY <1>1, Finite, FS_CardinalityType

LEMMA ReadTypes ==
  ASSUME TypeOK, IdleInv, ListsReturn \/ CollectionReturns \/ RelationsReturn
  PROVE  TypeOK' /\ IdleInv'
<1>1. cursor \in Nat /\ list \in SUBSET Items /\ hidden \in BOOLEAN
  BY DEF TypeOK
<1>2. CASE ListsReturn
  <2> DEFINE here == Slice(Merged, cursor + 1, cursor + limit)
  <2>1. here \in SUBSET Items /\ Cardinality(here) \in Nat
    BY MergedType, SliceType
  <2>2. Returned(here) /\ hidden' = hidden
        /\ Proceeds(Cardinality(Merged) > cursor + Cardinality(here), cursor + Cardinality(here))
    BY <1>2, ListsPage
  <2> HIDE DEF here
  <2>4. status' \in {"ready", "done"} /\ cursor' \in Nat
    BY <1>1, <2>1, <2>2 DEF Proceeds
  <2> QED
    BY <1>1, <2>1, <2>2, <2>4, ReturnedTypes
<1>3. CASE CollectionReturns
  <2> DEFINE items == Slice(list, cursor + 1, cursor + Asked) \ odd
             here == Slice(items, 1, limit)
  <2>1. items \in SUBSET Items
    BY <1>1, SliceType
  <2>2. here \in SUBSET Items /\ Cardinality(here) \in Nat
    BY <2>1, SliceType
  <2>3. Returned(here) /\ hidden' = hidden
        /\ Proceeds(Cardinality(items) > Cardinality(here), cursor + Cardinality(here))
    BY <1>3, CollectedSlice
  <2> HIDE DEF here, items
  <2>4. status' \in {"ready", "done"} /\ cursor' \in Nat
    BY <1>1, <2>2, <2>3 DEF Proceeds
  <2> QED
    BY <1>1, <2>2, <2>3, <2>4, ReturnedTypes
<1>4. CASE RelationsReturn
  <2> DEFINE rest == {i \in list : i > cursor}
             here == Slice(rest, 1, limit)
  <2>1. here \in SUBSET Items
    BY <1>1, SliceType
  <2>2. Returned(here \ odd) /\ hidden' = hidden /\ Proceeds(here # rest, LastOf(here))
    BY <1>4, RelationsPage
  <2> HIDE DEF here, rest
  <2>3. LastOf(here) \in Nat
    <3>1. LastOf(here) \in here \cup {0}
      BY <2>1, LastOfPage
    <3>2. here \cup {0} \subseteq Nat
      BY <2>1, Finite
    <3> QED
      BY <3>1, <3>2
  <2>4. status' \in {"ready", "done"} /\ cursor' \in Nat
    BY <1>1, <2>2, <2>3 DEF Proceeds
  <2>5. here \ odd \in SUBSET Items
    BY <2>1
  <2> QED
    BY <1>1, <2>2, <2>4, <2>5, ReturnedTypes
<1> QED
  BY <1>2, <1>3, <1>4

LEMMA TypeStep == TypeOK /\ IdleInv /\ [Next]_vars => TypeOK' /\ IdleInv'
<1> SUFFICES ASSUME TypeOK, IdleInv, [Next]_vars PROVE TypeOK' /\ IdleInv'
  OBVIOUS
<1>1. CASE Call
  BY <1>1 DEF Call, TypeOK, IdleInv, readVars, history
<1>2. ASSUME NEW t \in Transports, ListOf(t) PROVE TypeOK' /\ IdleInv'
  <2>1. answers' \in [Transports -> (SUBSET Items) \cup {NoAnswer}]
    BY <1>2 DEF ListOf, TypeOK
  <2> QED
    BY <1>2, <2>1 DEF ListOf, TypeOK, IdleInv, readVars, history
<1>3. CASE RelationsHidden
  BY <1>3 DEF RelationsHidden, TypeOK, IdleInv, readVars, Whole
<1>4. CASE CallFails
  <2>1. failures' \in 0..MaxFailures
    BY <1>4, BoundAssumption DEF CallFails, TypeOK
  <2>2. answers' = NoAnswers /\ NoAnswers \in [Transports -> (SUBSET Items) \cup {NoAnswer}]
    BY <1>4 DEF CallFails, NoAnswers
  <2> QED
    BY <1>4, <2>1, <2>2 DEF CallFails, TypeOK, IdleInv, readVars
<1>5. ASSUME NEW i \in Items, Joins(i) \/ Leaves(i) PROVE TypeOK' /\ IdleInv'
  <2>1. changes' \in 0..MaxChanges
    BY <1>5, BoundAssumption DEF Joins, Leaves, Changes, TypeOK
  <2>2. /\ list' \subseteq Items /\ kept' \subseteq list'
        /\ movedUp' \subseteq Items /\ movedDown' \subseteq Items
    BY <1>5 DEF Joins, Leaves, TypeOK
  <2> QED
    BY <1>5, <2>1, <2>2 DEF Joins, Leaves, Changes, callVars, TypeOK, IdleInv
<1>6. CASE UNCHANGED vars
  BY <1>6 DEF vars, readVars, callVars, history, TypeOK, IdleInv
<1> QED
  BY <1>1, <1>2, <1>3, <1>4, <1>5, <1>6, ReadTypes DEF Next

-----------------------------------------------------------------------------
(* What an answer shows, while the list changes.                            *)

\* Up to an item that nothing moved what a call shows is the list.
LEMMA MergedFacts ==
  ASSUME TypeOK, SeenInv
  PROVE  /\ \A i \in kept \ movedUp :
              i \in Merged /\ i \in Items /\ Place(Merged, i) <= Place(list, i)
         /\ \A i \in Items \ movedDown : Place(list, i) <= Place(Merged, i)
<1>1. Merged \in SUBSET Nat /\ IsFiniteSet(Merged) /\ list \in SUBSET Nat /\ IsFiniteSet(list)
  BY MergedType, Finite DEF TypeOK
<1>2. ASSUME NEW i \in kept \ movedUp
      PROVE  i \in Merged /\ i \in Items /\ Place(Merged, i) <= Place(list, i)
  <2>1. i \in list /\ i \in Items /\ i \in Nat
    BY Finite DEF TypeOK
  <2>2. PICK t \in Transports : i \in t
    BY <2>1, TransportAssumption
  <2>3. i \in Merged
    BY <2>2 DEF SeenInv, Merged
  <2>4. ASSUME NEW j \in Merged, j <= i PROVE j \in list
    BY <2>4 DEF SeenInv, Merged
  <2>5. Place(Merged, i) <= Place(list, i)
    BY <1>1, <2>1, <2>4, PlaceGrows
  <2> QED
    BY <2>1, <2>3, <2>5
<1>3. ASSUME NEW i \in Items \ movedDown PROVE Place(list, i) <= Place(Merged, i)
  <2>1. i \in Nat
    BY Finite
  <2>2. ASSUME NEW j \in list, j <= i PROVE j \in Merged
    <3>1. PICK t \in Transports : j \in t
      BY TransportAssumption DEF TypeOK
    <3> QED
      BY <2>2, <3>1 DEF SeenInv, Merged
  <2> QED
    BY <1>1, <2>1, <2>2, PlaceGrows
<1> QED
  BY <1>2, <1>3

LEMMA SeenStep == TypeOK /\ SeenInv /\ [Next]_vars => SeenInv'
<1> SUFFICES ASSUME TypeOK, SeenInv, [Next]_vars, NEW t \in Transports
             PROVE  /\ \A i \in kept' \ movedUp' :
                         /\ \A j \in Seen(t)' : j <= i => j \in list'
                         /\ i \in t => i \in Seen(t)'
                    /\ \A i \in Items \ movedDown' :
                         \A j \in list' \cap t : j <= i => j \in Seen(t)'
  BY DEF SeenInv
<1>1. CASE UNCHANGED <<list, kept, movedUp, movedDown>>
  <2>1. Seen(t)' = Seen(t) \/ Seen(t)' = list \cap t
    <3>1. UNCHANGED answers \/ answers' = NoAnswers
            \/ \E u \in Transports : answers' = [answers EXCEPT ![u] = list \cap u]
      BY DEF Next, Call, ListOf, ListsReturn, Page, CollectionReturns, CollectedPage,
             RelationsReturn, RelationsHidden, CallFails, Returned, Joins, Leaves, Changes,
             callVars, vars
    <3> QED
      BY <1>1, <3>1 DEF Seen, NoAnswers, TypeOK
  <2> QED
    BY <1>1, <2>1 DEF SeenInv, TypeOK
<1>2. ASSUME NEW k \in Items, Joins(k) \/ Leaves(k)
      PROVE  Seen(t)' = Seen(t) \/ (Seen(t) = list \cap t /\ Seen(t)' = list' \cap t)
  BY <1>2 DEF Joins, Leaves, Changes, callVars, Seen
<1>3. Items \subseteq Nat /\ kept \subseteq list /\ list \subseteq Items
  BY Finite DEF TypeOK
<1>4. ASSUME NEW k \in Items, Joins(k)
      PROVE  /\ \A i \in kept' \ movedUp' :
                  /\ \A j \in Seen(t)' : j <= i => j \in list'
                  /\ i \in t => i \in Seen(t)'
             /\ \A i \in Items \ movedDown' :
                  \A j \in list' \cap t : j <= i => j \in Seen(t)'
  <2>1. /\ list' = list \cup {k} /\ movedDown' = movedDown \cup {j \in Items : j >= k}
        /\ kept' = kept /\ movedUp' = movedUp
    BY <1>4 DEF Joins
  <2>2. CASE Seen(t)' = list' \cap t
    BY <1>3, <2>1, <2>2
  <2>3. CASE Seen(t)' = Seen(t)
    <3>1. ASSUME NEW i \in kept' \ movedUp'
          PROVE  /\ \A j \in Seen(t)' : j <= i => j \in list'
                 /\ i \in t => i \in Seen(t)'
      BY <2>1, <2>3 DEF SeenInv
    <3>2. ASSUME NEW i \in Items \ movedDown', NEW j \in list' \cap t, j <= i PROVE j \in Seen(t)'
      <4>1. i \notin movedDown /\ i < k
        BY <1>3, <2>1
      <4>2. j \in list
        BY <1>3, <2>1, <3>2, <4>1
      <4> QED
        BY <2>3, <3>2, <4>1, <4>2 DEF SeenInv
    <3> QED
      BY <3>1, <3>2
  <2> QED
    BY <1>2, <1>4, <2>2, <2>3
<1>5. ASSUME NEW k \in Items, Leaves(k)
      PROVE  /\ \A i \in kept' \ movedUp' :
                  /\ \A j \in Seen(t)' : j <= i => j \in list'
                  /\ i \in t => i \in Seen(t)'
             /\ \A i \in Items \ movedDown' :
                  \A j \in list' \cap t : j <= i => j \in Seen(t)'
  <2>1. /\ list' = list \ {k} /\ movedUp' = movedUp \cup {j \in Items : j > k}
        /\ kept' = kept \ {k} /\ movedDown' = movedDown
    BY <1>5 DEF Leaves
  <2>2. CASE Seen(t)' = list' \cap t
    BY <1>3, <2>1, <2>2
  <2>3. CASE Seen(t)' = Seen(t)
    <3>1. ASSUME NEW i \in kept' \ movedUp'
          PROVE  /\ \A j \in Seen(t)' : j <= i => j \in list'
                 /\ i \in t => i \in Seen(t)'
      <4>1. i \in kept \ movedUp /\ i \in Nat /\ i < k
        BY <1>3, <2>1
      <4>2. ASSUME NEW j \in Seen(t)', j <= i PROVE j \in list'
        <5>1. j \in list
          BY <2>3, <4>1, <4>2 DEF SeenInv
        <5> QED
          BY <1>3, <2>1, <4>1, <4>2, <5>1
      <4> QED
        BY <2>3, <4>1, <4>2 DEF SeenInv
    <3>2. ASSUME NEW i \in Items \ movedDown', NEW j \in list' \cap t, j <= i PROVE j \in Seen(t)'
      BY <2>1, <2>3, <3>2 DEF SeenInv
    <3> QED
      BY <3>1, <3>2
  <2> QED
    BY <1>2, <1>5, <2>2, <2>3
<1>6. UNCHANGED <<list, kept, movedUp, movedDown>> \/ \E k \in Items : Joins(k) \/ Leaves(k)
  BY DEF Next, Call, ListOf, ListsReturn, Page, CollectionReturns, CollectedPage,
         RelationsReturn, RelationsHidden, CallFails, Returned, readVars, history, vars
<1> QED
  BY <1>1, <1>4, <1>5, <1>6

-----------------------------------------------------------------------------
(* Pages.                                                                   *)

\* What is returned from behind the offset has not been returned, unless it has
\* moved down.
LEMMA NothingTwice ==
  ASSUME TypeOK, OffsetInv, NothingRepeated, status = "waiting", operation # "getMessageRelations",
         NEW page \in SUBSET Items, Returned(page),
         \A i \in page : Place(Merged, i) > cursor
  PROVE  NothingRepeated'
<1>1. ASSUME NEW i \in got \cap page, i \notin movedDown PROVE FALSE
  <2>1. Place(Merged, i) <= cursor /\ Place(Merged, i) > cursor
    BY <1>1 DEF OffsetInv
  <2>2. Place(Merged, i) \in Int /\ cursor \in Int
    <3>1. Merged \in SUBSET Nat /\ IsFiniteSet(Merged) /\ i \in Nat
      BY MergedType, Finite
    <3> QED
      BY <3>1, PlaceType DEF TypeOK
  <2> QED
    BY <2>1, <2>2
<1>2. twice' \subseteq movedDown' /\ operation' = operation
  BY <1>1 DEF Returned, NothingRepeated
<1> QED
  BY <1>2 DEF NothingRepeated

\* The next offset is behind the page.
LEMMA NextOffset ==
  ASSUME TypeOK, SeenInv, OffsetInv, status = "waiting", operation # "getMessageRelations",
         NEW page, page = Slice(Merged, cursor + 1, cursor + limit),
         Returned(page), cursor' = cursor + Cardinality(page)
  PROVE  OffsetInv'
<1>1. Merged' = list /\ operation' = operation /\ EndIsSeen' = EndIsSeen
      /\ UNCHANGED <<kept, movedUp, movedDown>> /\ got' = got \cup page
  <2>1. list' \subseteq Items /\ answers' = NoAnswers /\ list' = list
    BY DEF Returned, readVars, TypeOK
  <2>2. \A t \in Transports : Seen(t)' = list \cap t
    BY <2>1 DEF NoAnswers, Seen
  <2>3. Merged' = list
    BY <2>1, <2>2, TransportAssumption DEF Merged
  <2> QED
    BY <2>3 DEF Returned, readVars, EndIsSeen
<1>2. Merged \in SUBSET Nat /\ IsFiniteSet(Merged) /\ list \in SUBSET Nat /\ IsFiniteSet(list)
  BY MergedType, Finite DEF TypeOK
<1>3. cursor \in Nat /\ limit \in Nat
  BY PageSizes
<1>4. /\ page \subseteq Merged /\ Cardinality(page) \in 0..limit
      /\ \A i \in page : Place(Merged, i) <= cursor + Cardinality(page)
  BY <1>2, <1>3, SliceSize
<1>5. ASSUME NEW i \in Items
      PROVE  i \in Nat /\ Place(Merged, i) \in Nat /\ Place(list, i) \in Nat
  <2>1. i \in Nat
    BY Finite
  <2> QED
    BY <1>2, <2>1, PlaceType
<1>6. ASSUME EndIsSeen, NEW i \in kept \ movedUp, Place(list, i) <= cursor + Cardinality(page)
      PROVE  i \in got \cup page
  <2>1. i \in Merged /\ i \in Items /\ Place(Merged, i) <= Place(list, i)
    BY MergedFacts
  <2>2. CASE Place(Merged, i) <= cursor
    BY <1>6, <2>2 DEF OffsetInv
  <2>3. CASE Place(Merged, i) \in (cursor + 1)..(cursor + limit)
    BY <2>1, <2>3 DEF Slice
  <2> QED
    BY <1>3, <1>4, <1>5, <1>6, <2>1, <2>2, <2>3
<1>7. ASSUME NEW i \in (got \cup page) \ movedDown
      PROVE  Place(list, i) <= cursor + Cardinality(page)
  <2>1. i \in Items
    BY <1>4, MergedType DEF TypeOK
  <2>2. Place(list, i) <= Place(Merged, i)
    BY <1>7, <2>1, MergedFacts
  <2>3. i \in got => Place(Merged, i) <= cursor
    BY <1>7 DEF OffsetInv
  <2> QED
    BY <1>3, <1>4, <1>5, <1>7, <2>1, <2>2, <2>3
<1> QED
  BY <1>1, <1>6, <1>7 DEF OffsetInv

\* The last page leaves nothing behind.
LEMMA LastPage ==
  ASSUME TypeOK, SeenInv, OffsetInv, EndIsSeen, status = "waiting",
         operation # "getMessageRelations",
         NEW page, page = Slice(Merged, cursor + 1, cursor + limit),
         Cardinality(Merged) <= cursor + limit
  PROVE  kept \ movedUp \subseteq got \cup page
<1> SUFFICES ASSUME NEW i \in kept \ movedUp PROVE i \in got \cup page
  OBVIOUS
<1>1. i \in Merged /\ i \in Nat
  BY MergedFacts, Finite
<1>2. Merged \in SUBSET Nat /\ IsFiniteSet(Merged)
  BY MergedType, Finite
<1>3. cursor \in Nat /\ limit \in Nat
  BY PageSizes
<1>4. Place(Merged, i) \in 1..Cardinality(Merged) /\ Cardinality(Merged) \in Nat
  BY <1>1, <1>2, PlaceType
<1>5. CASE Place(Merged, i) <= cursor
  BY <1>5 DEF OffsetInv
<1>6. CASE Place(Merged, i) \in (cursor + 1)..(cursor + limit)
  BY <1>1, <1>6 DEF Slice
<1> QED
  BY <1>3, <1>4, <1>5, <1>6

\* The parts of the invariant that say what has been read.
ReadInv == OffsetInv /\ TokenInv /\ NothingSkipped /\ NothingRepeated

LEMMA ListsStep ==
  ASSUME TypeOK, SeenInv, ReadInv, ListsReturn
  PROVE  ReadInv'
<1> DEFINE page == Slice(Merged, cursor + 1, cursor + limit)
<1>1. /\ status = "waiting" /\ operation \in Whole /\ hidden' = hidden
      /\ Returned(page)
      /\ Proceeds(Cardinality(Merged) > cursor + Cardinality(page), cursor + Cardinality(page))
  BY ListsPage
<1>2. operation # "getMessageRelations" /\ operation' = operation
  BY <1>1 DEF Whole, Returned
<1>3. Merged \in SUBSET Nat /\ IsFiniteSet(Merged) /\ Cardinality(Merged) \in Nat
  BY MergedType, Finite, FS_CardinalityType
<1>4. cursor \in Nat /\ limit \in Nat
  BY PageSizes
<1>5. page \subseteq Merged /\ Cardinality(page) \in 0..limit
  BY <1>3, <1>4, SliceSize
<1>6. NothingRepeated'
  <2>1. page \in SUBSET Items
    BY <1>5, MergedType
  <2>2. \A i \in page : Place(Merged, i) > cursor
    BY <1>4 DEF Slice
  <2> HIDE DEF page
  <2> QED
    BY <1>1, <1>2, <2>1, <2>2, NothingTwice DEF ReadInv
<1>7. OffsetInv'
  <2>1. CASE Cardinality(Merged) > cursor + Cardinality(page)
    BY <1>1, <1>2, <2>1, NextOffset DEF Proceeds, ReadInv
  <2>2. CASE ~(Cardinality(Merged) > cursor + Cardinality(page))
    BY <1>1, <2>2 DEF Proceeds, OffsetInv
  <2> QED
    BY <2>1, <2>2
<1>8. NothingSkipped'
  <2> SUFFICES ASSUME status' = "done", EndIsSeen'
               PROVE  (kept \ odd)' \subseteq got' \cup movedUp'
    BY <1>2 DEF NothingSkipped, Pageable
  <2>1. Cardinality(Merged) <= cursor + limit
    BY <1>1, <1>3, <1>4, <1>5 DEF Proceeds
  <2>2. EndIsSeen
    BY <1>1 DEF EndIsSeen, Returned, readVars
  <2>3. kept \ movedUp \subseteq got \cup page
    BY <1>1, <1>2, <2>1, <2>2, LastPage DEF ReadInv
  <2> QED
    BY <1>1, <2>3 DEF Returned, readVars
<1> QED
  BY <1>2, <1>6, <1>7, <1>8 DEF ReadInv, TokenInv

\* A collected page with one item more behind it is the page of the list.
LEMMA CollectedMore ==
  ASSUME NEW S \in SUBSET Nat, IsFiniteSet(S), NEW c \in Nat, NEW n \in Nat, NEW asked \in Nat,
         asked \in {n, n + 1},
         NEW items, items \in SUBSET Slice(S, c + 1, c + asked),
         Cardinality(items) > Cardinality(Slice(items, 1, n))
  PROVE  Slice(items, 1, n) = Slice(S, c + 1, c + n)
<1> DEFINE all == Slice(S, c + 1, c + asked)
<1>1. /\ all \subseteq S /\ IsFiniteSet(all) /\ Cardinality(all) \in 0..asked
  BY SliceSize
<1>2. /\ IsFiniteSet(items) /\ Cardinality(items) <= Cardinality(all)
      /\ Cardinality(all) = Cardinality(items) => all = items
  BY <1>1, FS_Subset
<1>3. Cardinality(items) \in Nat /\ items \in SUBSET Nat
  BY <1>1, <1>2, FS_CardinalityType
<1>4. ~(Cardinality(items) <= n)
  <2>1. Cardinality(items) <= n => Slice(items, 1, n) = items
    BY <1>2, <1>3, WholePage
  <2> QED
    BY <1>3, <2>1
<1>5. asked = n + 1 /\ Cardinality(items) = Cardinality(all)
  BY <1>1, <1>2, <1>3, <1>4
<1>6. items = Slice(S, c + 1, c + (n + 1))
  BY <1>2, <1>5
<1> QED
  BY <1>6, PageOfMore

LEMMA CollectionStep ==
  ASSUME TypeOK, IdleInv, SeenInv, ReadInv, CollectionReturns
  PROVE  ReadInv'
<1> DEFINE items == Slice(list, cursor + 1, cursor + Asked) \ odd
           page == Slice(items, 1, limit)
<1>1. /\ status = "waiting" /\ operation \in Collected /\ hidden' = hidden
      /\ answers = NoAnswers
      /\ Returned(page)
      /\ Proceeds(Cardinality(items) > Cardinality(page), cursor + Cardinality(page))
  BY CollectedSlice
<1>2. operation # "getMessageRelations" /\ operation' = operation
  BY <1>1 DEF Collected, Returned
<1>3. list \in SUBSET Nat /\ IsFiniteSet(list) /\ Merged = list /\ list \in SUBSET Items
  BY <1>1, NothingAnswered, Finite DEF TypeOK
<1>4. /\ cursor \in Nat /\ limit \in Nat /\ Asked \in Nat /\ Asked \in {limit, limit + 1}
      /\ limit < MaxLimit => Asked = limit + 1
  BY PageSizes
<1>5. page \subseteq items /\ items \subseteq list /\ items \in SUBSET Nat /\ IsFiniteSet(items)
  <2>1. items \in SUBSET Items
    BY <1>3, SliceType
  <2>2. page \subseteq items /\ items \subseteq list
    BY DEF Slice
  <2> QED
    BY <2>1, <2>2, Finite
<1>6. NothingRepeated'
  <2>1. page \in SUBSET Items
    BY <1>3, <1>5
  <2>2. \A i \in page : Place(Merged, i) > cursor
    BY <1>3, <1>4 DEF Slice
  <2> HIDE DEF page
  <2> QED
    BY <1>1, <1>2, <2>1, <2>2, NothingTwice DEF ReadInv
<1>7. OffsetInv'
  <2>1. CASE Cardinality(items) > Cardinality(page)
    <3>1. page = Slice(list, cursor + 1, cursor + limit)
      <4>1. items \in SUBSET Slice(list, cursor + 1, cursor + Asked)
        OBVIOUS
      <4> HIDE DEF items
      <4> QED
        BY <1>3, <1>4, <2>1, <4>1, CollectedMore
    <3>2. page = Slice(Merged, cursor + 1, cursor + limit)
      BY <1>3, <3>1
    <3>3. cursor' = cursor + Cardinality(page)
      BY <1>1, <2>1 DEF Proceeds
    <3> HIDE DEF page
    <3> QED
      BY <1>1, <1>2, <3>2, <3>3, NextOffset DEF ReadInv
  <2>2. CASE ~(Cardinality(items) > Cardinality(page))
    BY <1>1, <2>2 DEF Proceeds, OffsetInv
  <2> QED
    BY <2>1, <2>2
<1>8. NothingSkipped'
  <2> SUFFICES ASSUME status' = "done", EndIsSeen'
               PROVE  (kept \ odd)' \subseteq got' \cup movedUp'
    BY <1>2 DEF NothingSkipped, Pageable
  <2>1. EndIsSeen
    BY <1>1 DEF EndIsSeen, Returned, readVars
  <2>2. items = Slice(list, cursor + 1, cursor + (limit + 1))
    BY <1>1, <1>4, <2>1 DEF EndIsSeen
  <2>3. page = Slice(list, cursor + 1, cursor + limit)
    <3>1. Slice(Slice(list, cursor + 1, cursor + (limit + 1)), 1, limit)
            = Slice(list, cursor + 1, cursor + limit)
      BY <1>3, <1>4, PageOfMore
    <3> HIDE DEF items
    <3> QED
      BY <2>2, <3>1
  <2>4. items = page
    <3>1. ~(Cardinality(items) > Cardinality(page))
      BY <1>1 DEF Proceeds
    <3> HIDE DEF items, page
    <3>2. Cardinality(page) <= Cardinality(items) /\ (Cardinality(items) = Cardinality(page) => items = page)
      BY <1>5, FS_Subset
    <3>3. Cardinality(items) \in Nat /\ Cardinality(page) \in Nat
      BY <1>5, FS_Subset, FS_CardinalityType
    <3> QED
      BY <3>1, <3>2, <3>3
  <2>5. Cardinality(Merged) <= cursor + limit
    BY <1>3, <1>4, <2>2, <2>3, <2>4, EndOfSet
  <2>6. page = Slice(Merged, cursor + 1, cursor + limit)
    BY <1>3, <2>3
  <2> HIDE DEF page
  <2>7. kept \ movedUp \subseteq got \cup page
    BY <1>1, <1>2, <2>1, <2>5, <2>6, LastPage DEF ReadInv
  <2> QED
    BY <1>1, <2>7 DEF Returned, readVars
<1> QED
  BY <1>2, <1>6, <1>7, <1>8 DEF ReadInv, TokenInv

LEMMA RelationsStep ==
  ASSUME TypeOK, ReadInv, RelationsReturn
  PROVE  ReadInv'
<1> DEFINE rest == {i \in list : i > cursor}
           page == Slice(rest, 1, limit)
<1>1. /\ status = "waiting" /\ operation = "getMessageRelations" /\ hidden' = hidden
      /\ Returned(page \ odd)
      /\ Proceeds(page # rest, LastOf(page))
  BY RelationsPage
<1>2. /\ operation' = operation /\ UNCHANGED <<list, odd, kept, movedUp, movedDown>>
      /\ got' = got \cup (page \ odd) /\ twice' = twice \cup (got \cap (page \ odd))
  BY <1>1 DEF Returned, readVars
<1>3. /\ \A i \in kept \ odd : i <= cursor => i \in got
      /\ \A i \in got : i <= cursor
      /\ twice = {} /\ kept \subseteq list
  BY <1>1 DEF ReadInv, TokenInv, NothingRepeated, TypeOK
<1>4. /\ list \subseteq Items /\ list \subseteq Nat /\ cursor \in Nat /\ limit \in Nat \ {0}
      /\ rest \in SUBSET Nat /\ IsFiniteSet(rest) /\ rest \in SUBSET Items
  BY Finite, PageSizes DEF TypeOK
<1>5. page \in SUBSET Items /\ page \subseteq rest
  BY <1>4 DEF Slice
<1>6. NothingRepeated'
  <2>1. \A i \in page : i \notin got
    BY <1>3, <1>4, <1>5
  <2> HIDE DEF page
  <2> QED
    BY <1>1, <1>2, <1>3, <2>1 DEF NothingRepeated
<1>7. CASE page = rest
  <2>1. ASSUME NEW i \in kept \ odd PROVE i \in got \cup (page \ odd)
    <3>1. i \in list /\ i \in Nat
      BY <1>3, <1>4
    <3>2. i <= cursor \/ i \in page
      BY <1>4, <1>7, <3>1
    <3> HIDE DEF page
    <3> QED
      BY <1>3, <2>1, <3>2
  <2>2. status' = "done"
    BY <1>1, <1>7 DEF Proceeds
  <2> HIDE DEF page
  <2> QED
    BY <1>1, <1>2, <1>6, <2>1, <2>2 DEF ReadInv, OffsetInv, TokenInv, NothingSkipped
<1>8. CASE page # rest
  <2>1. status' = "ready" /\ cursor' = LastOf(page)
    BY <1>1, <1>8 DEF Proceeds
  <2>2. ASSUME NEW i \in rest PROVE Place(rest, i) \in 1..Cardinality(rest) /\ Cardinality(rest) \in Nat
    BY <1>4, PlaceType
\* The page has the first of the rest, so its last item is behind the cursor.
  <2>3. page # {}
    <3>1. rest # {}
      BY <1>5, <1>8
    <3>2. Cardinality(rest) \in Nat \ {0}
      BY <1>4, <3>1, FS_CardinalityType, FS_EmptySet
    <3>3. PICK i \in rest : Place(rest, i) = 1
      BY <1>4, <3>2, PlaceOnto
    <3> QED
      BY <1>4, <3>3 DEF Slice
  <2>4. /\ LastOf(page) \in page \cup {0}
        /\ \A j \in page : j <= LastOf(page)
    BY <1>5, LastOfPage
  <2>5. LastOf(page) \in page /\ LastOf(page) > cursor /\ LastOf(page) \in Nat
    <3>1. PICK j \in page : TRUE
      BY <2>3
    <3>2. j \in Nat /\ j > cursor /\ j <= LastOf(page)
      BY <1>4, <1>5, <2>4
    <3>3. LastOf(page) # 0
      BY <1>4, <3>2
    <3>4. LastOf(page) \in page
      BY <2>4, <3>3
    <3> QED
      BY <1>4, <1>5, <3>4
  <2>6. ASSUME NEW i \in kept \ odd, i <= LastOf(page) PROVE i \in got \cup (page \ odd)
    <3>1. i \in list /\ i \in Nat
      BY <1>3, <1>4
    <3>2. CASE i <= cursor
      BY <1>3, <2>6, <3>2
    <3>3. CASE i > cursor
      <4>1. i \in rest
        BY <3>1, <3>3
      <4>2. Place(rest, LastOf(page)) \in 1..limit
        BY <2>5 DEF Slice
      <4>3. i < LastOf(page) => Place(rest, i) < Place(rest, LastOf(page))
        BY <1>4, <1>5, <2>5, <3>1, PlaceOrder
      <4>4. Place(rest, i) \in 1..limit
        BY <1>4, <2>2, <2>5, <2>6, <3>1, <4>1, <4>2, <4>3
      <4>5. i \in page
        BY <4>1, <4>4 DEF Slice
      <4> QED
        BY <2>6, <4>5
    <3> QED
      BY <1>4, <3>1, <3>2, <3>3
  <2>7. ASSUME NEW i \in got \cup (page \ odd) PROVE i <= LastOf(page)
    <3>1. CASE i \in page
      BY <2>4, <3>1
    <3>2. CASE i \in got
      <4>1. i \in Nat
        BY <3>2, Finite DEF TypeOK
      <4> QED
        BY <1>3, <1>4, <2>5, <3>2, <4>1
    <3> QED
      BY <2>7, <3>1, <3>2
  <2> HIDE DEF page
  <2>8. TokenInv'
    BY <1>2, <2>1, <2>6, <2>7 DEF TokenInv
  <2> QED
    BY <1>1, <1>2, <1>6, <2>1, <2>8 DEF ReadInv, OffsetInv, NothingSkipped
<1> QED
  BY <1>7, <1>8

\* A change in the list moves what comes after it.
LEMMA ChangeStep ==
  ASSUME TypeOK, SeenInv, ReadInv, NEW k \in Items, Joins(k) \/ Leaves(k)
  PROVE  ReadInv'
<1>1. /\ status # "done" /\ UNCHANGED <<status, operation, limit, odd, cursor, answers, got, twice, hidden>>
      /\ kept' \subseteq kept /\ movedUp \subseteq movedUp' /\ movedDown \subseteq movedDown'
  BY DEF Joins, Leaves, Changes, callVars
<1>2. NothingSkipped' /\ NothingRepeated' /\ TokenInv'
  BY <1>1 DEF ReadInv, NothingSkipped, NothingRepeated, TokenInv
<1>3. /\ Merged \in SUBSET Nat /\ IsFiniteSet(Merged)
      /\ list' \in SUBSET Nat /\ IsFiniteSet(list') /\ list' \subseteq Items
  <2>1. list' \subseteq Items
    BY DEF Joins, Leaves, TypeOK
  <2> QED
    BY <2>1, MergedType, Finite
<1>4. Merged' \in SUBSET Nat /\ IsFiniteSet(Merged')
  <2>1. \A t \in Transports : Seen(t)' = Seen(t) \/ Seen(t)' = list' \cap t
    BY <1>1 DEF Seen
  <2>2. Merged' \subseteq Items
    BY <1>3, <2>1, MergedType DEF Merged
  <2> QED
    BY <2>2, Finite
<1>5. ASSUME NEW i \in Items
      PROVE  i \in Nat /\ Place(Merged, i) \in Nat /\ Place(Merged', i) \in Nat /\ cursor \in Nat
  <2>1. i \in Nat
    BY Finite
  <2> QED
    BY <1>3, <1>4, <2>1, PlaceType DEF TypeOK
<1>6. CASE Joins(k)
  <2>1. /\ list' = list \cup {k} /\ movedDown' = movedDown \cup {j \in Items : j >= k}
        /\ kept' = kept /\ movedUp' = movedUp
    BY <1>6 DEF Joins
  <2>2. ASSUME NEW t \in Transports PROVE Seen(t) \subseteq Seen(t)' /\ Seen(t)' \subseteq Seen(t) \cup {k}
    BY <1>1, <2>1 DEF Seen
  <2>3. Merged \subseteq Merged' /\ Merged' \subseteq Merged \cup {k}
    BY <2>2 DEF Merged
  <2>4. ASSUME NEW i \in Items PROVE Place(Merged, i) <= Place(Merged', i)
    BY <1>4, <1>3, <1>5, <2>3, PlaceGrows
  <2>5. ASSUME NEW i \in Items, i \notin movedDown' PROVE Place(Merged', i) <= Place(Merged, i)
    <3>1. i < k
      BY <1>5, <2>1, <2>5
    <3>2. \A j \in Merged' : j <= i => j \in Merged
      BY <1>4, <1>5, <2>3, <3>1
    <3> QED
      BY <1>3, <1>4, <1>5, <3>2, PlaceGrows
  <2>6. ASSUME OffsetInv, EndIsSeen, operation # "getMessageRelations",
               NEW i \in kept \ movedUp, Place(Merged', i) <= cursor
        PROVE  i \in got
    <3>1. i \in Items
      BY DEF TypeOK
    <3>2. Place(Merged, i) <= cursor
      BY <1>5, <2>4, <2>6, <3>1
    <3> QED
      BY <1>1, <2>6, <3>2 DEF OffsetInv
  <2>7. ASSUME OffsetInv, operation # "getMessageRelations", NEW i \in got \ movedDown'
        PROVE  Place(Merged', i) <= cursor
    <3>1. i \in Items /\ i \notin movedDown
      BY <1>1 DEF TypeOK
    <3>2. Place(Merged, i) <= cursor
      BY <1>1, <2>7, <3>1 DEF OffsetInv
    <3> QED
      BY <1>5, <2>5, <2>7, <3>1, <3>2
  <2>8. EndIsSeen' = EndIsSeen
    BY <1>1 DEF EndIsSeen
  <2>9. OffsetInv'
    BY <1>1, <2>1, <2>6, <2>7, <2>8 DEF OffsetInv, ReadInv
  <2> QED
    BY <1>2, <2>9 DEF ReadInv
<1>7. CASE Leaves(k)
  <2>1. /\ list' = list \ {k} /\ movedUp' = movedUp \cup {j \in Items : j > k}
        /\ kept' = kept \ {k} /\ movedDown' = movedDown
    BY <1>7 DEF Leaves
  <2>2. ASSUME NEW t \in Transports PROVE Seen(t)' \subseteq Seen(t) /\ Seen(t) \subseteq Seen(t)' \cup {k}
    BY <1>1, <2>1 DEF Seen
  <2>3. Merged' \subseteq Merged /\ Merged \subseteq Merged' \cup {k}
    BY <2>2 DEF Merged
  <2>4. ASSUME NEW i \in Items PROVE Place(Merged', i) <= Place(Merged, i)
    BY <1>3, <1>4, <1>5, <2>3, PlaceGrows
  <2>5. ASSUME NEW i \in kept' \ movedUp', i \in Items PROVE Place(Merged, i) <= Place(Merged', i)
    <3>1. i < k
      BY <1>5, <2>1, <2>5
    <3>2. \A j \in Merged : j <= i => j \in Merged'
      BY <1>3, <1>5, <2>3, <2>5, <3>1
    <3> QED
      BY <1>3, <1>4, <1>5, <2>5, <3>2, PlaceGrows
  <2>6. ASSUME OffsetInv, EndIsSeen, operation # "getMessageRelations",
               NEW i \in kept' \ movedUp', Place(Merged', i) <= cursor
        PROVE  i \in got
    <3>1. i \in Items /\ i \in kept \ movedUp
      BY <1>1 DEF TypeOK
    <3>2. Place(Merged, i) <= cursor
      BY <1>5, <2>5, <2>6, <3>1
    <3> QED
      BY <1>1, <2>6, <3>1, <3>2 DEF OffsetInv
  <2>7. ASSUME OffsetInv, operation # "getMessageRelations", NEW i \in got \ movedDown
        PROVE  Place(Merged', i) <= cursor
    <3>1. i \in Items
      BY DEF TypeOK
    <3>2. Place(Merged, i) <= cursor
      BY <1>1, <2>7 DEF OffsetInv
    <3> QED
      BY <1>5, <2>4, <3>1, <3>2
  <2>8. EndIsSeen' = EndIsSeen
    BY <1>1 DEF EndIsSeen
  <2>9. OffsetInv'
    BY <1>1, <2>1, <2>6, <2>7, <2>8 DEF OffsetInv, ReadInv
  <2> QED
    BY <1>2, <2>9 DEF ReadInv
<1> QED
  BY <1>6, <1>7

\* Calls, and the transports that answer one after the other, show the same.
LEMMA CallStep ==
  ASSUME TypeOK, ReadInv,
         Call \/ RelationsHidden \/ UNCHANGED vars \/ \E t \in Transports : ListOf(t)
  PROVE  ReadInv'
<1>1. /\ UNCHANGED <<operation, limit, list, odd, cursor, got, twice, kept, movedUp, movedDown>>
      /\ status = "done" => UNCHANGED <<status, hidden>>
      /\ status' = "done" => status = "done" \/ hidden'
  BY DEF Call, RelationsHidden, ListOf, readVars, callVars, history, vars
<1>2. NothingRepeated' /\ EndIsSeen' = EndIsSeen
  BY <1>1 DEF ReadInv, NothingRepeated, EndIsSeen
<1>3. NothingSkipped'
  <2> SUFFICES ASSUME status' = "done", EndIsSeen, ~hidden'
               PROVE  (kept \ odd)' \subseteq got'
                        \cup (IF operation' = "getMessageRelations" THEN {} ELSE movedUp')
    BY <1>2 DEF NothingSkipped, Pageable
  <2>1. status = "done" /\ ~hidden
    BY <1>1
  <2> QED
    BY <1>1, <2>1 DEF ReadInv, NothingSkipped, Pageable
<1>4. TokenInv'
  BY <1>1 DEF ReadInv, TokenInv
<1>5. OffsetInv'
  <2>1. ASSUME NEW t \in Transports PROVE Seen(t)' = Seen(t)
    <3>1. CASE UNCHANGED answers
      BY <1>1, <3>1 DEF Seen
    <3>2. ASSUME NEW u \in Transports, ListOf(u) PROVE Seen(t)' = Seen(t)
      BY <3>2 DEF ListOf, Seen, readVars, TypeOK
    <3> QED
      BY <3>1, <3>2 DEF Call, RelationsHidden, callVars, vars
  <2>2. Merged' = Merged
    BY <2>1 DEF Merged
  <2> QED
    BY <1>1, <1>2, <2>2 DEF ReadInv, OffsetInv
<1> QED
  BY <1>2, <1>3, <1>4, <1>5 DEF ReadInv

\* A call that failed is made again, of the list as it is then.
LEMMA FailStep ==
  ASSUME TypeOK, SeenInv, ReadInv, CallFails
  PROVE  ReadInv'
<1>1. /\ UNCHANGED <<operation, limit, list, odd, cursor, got, twice, kept, movedUp, movedDown>>
      /\ status = "waiting" /\ status' = "ready" /\ answers' = NoAnswers
  BY DEF CallFails, readVars
<1>2. NothingRepeated' /\ NothingSkipped' /\ TokenInv' /\ EndIsSeen' = EndIsSeen
  BY <1>1 DEF ReadInv, NothingRepeated, NothingSkipped, TokenInv, EndIsSeen
<1>3. Merged' = list
  <2>1. \A t \in Transports : Seen(t)' = list \cap t
    BY <1>1 DEF NoAnswers, Seen
  <2> QED
    BY <2>1, TransportAssumption DEF Merged, TypeOK
<1>4. ASSUME NEW i \in Items
      PROVE  Place(Merged, i) \in Nat /\ Place(list, i) \in Nat /\ cursor \in Nat
  <2>1. i \in Nat /\ Merged \in SUBSET Nat /\ IsFiniteSet(Merged)
    BY MergedType, Finite
  <2>2. list \in SUBSET Nat /\ IsFiniteSet(list) /\ cursor \in Nat
    BY Finite DEF TypeOK
  <2> QED
    BY <2>1, <2>2, PlaceType
<1>5. ASSUME OffsetInv, EndIsSeen, operation # "getMessageRelations",
             NEW i \in kept \ movedUp, Place(list, i) <= cursor
      PROVE  i \in got
  <2>1. i \in Items /\ Place(Merged, i) <= Place(list, i)
    BY MergedFacts
  <2>2. Place(Merged, i) <= cursor
    BY <1>4, <1>5, <2>1
  <2> QED
    BY <1>1, <1>5, <2>2 DEF OffsetInv
<1>6. ASSUME OffsetInv, operation # "getMessageRelations", NEW i \in got \ movedDown
      PROVE  Place(list, i) <= cursor
  <2>1. i \in Items
    BY DEF TypeOK
  <2>2. Place(list, i) <= Place(Merged, i)
    BY <1>6, <2>1, MergedFacts
  <2>3. Place(Merged, i) <= cursor
    BY <1>1, <1>6 DEF OffsetInv
  <2> QED
    BY <1>4, <2>1, <2>2, <2>3
<1>7. OffsetInv'
  BY <1>1, <1>2, <1>3, <1>5, <1>6 DEF OffsetInv, ReadInv
<1> QED
  BY <1>2, <1>7 DEF ReadInv

LEMMA ReadStep == TypeOK /\ IdleInv /\ SeenInv /\ ReadInv /\ [Next]_vars => ReadInv'
BY ListsStep, CollectionStep, RelationsStep, ChangeStep, CallStep, FailStep DEF Next

-----------------------------------------------------------------------------
(* The invariant.                                                           *)

LEMMA InitIInv == Init => IInv
<1> SUFFICES ASSUME Init PROVE IInv
  OBVIOUS
<1>1. list \in SUBSET Nat /\ IsFiniteSet(list) /\ 0 \notin list
  BY Finite DEF Init
<1>2. TypeOK
  <2>1. answers \in [Transports -> (SUBSET Items) \cup {NoAnswer}]
    BY DEF Init, NoAnswers
  <2>2. odd \subseteq Items
    BY DEF Init
  <2>3. 0 \in 0..MaxChanges /\ 0 \in 0..MaxFailures
    BY BoundAssumption
  <2> QED
    BY <2>1, <2>2, <2>3 DEF Init, TypeOK
<1>3. Merged = list /\ \A t \in Transports : Seen(t) = list \cap t
  BY NothingAnswered DEF Init
<1>4. IdleInv /\ SeenInv /\ NothingSkipped /\ NothingRepeated
  BY <1>3 DEF Init, IdleInv, SeenInv, NothingSkipped, NothingRepeated
<1>5. ASSUME NEW i \in list PROVE ~(Place(list, i) <= 0) /\ ~(i <= 0)
  BY <1>1, PlaceType
<1>6. OffsetInv /\ TokenInv
  BY <1>3, <1>5 DEF Init, OffsetInv, TokenInv
<1> QED
  BY <1>2, <1>4, <1>6 DEF IInv

\* What an offset or a token stands for, while the list changes and transports
\* answer one after the other, holds of any finite list and any limit.
THEOREM Inductive == Spec => []IInv
<1>1. Init => IInv
  BY InitIInv
<1>2. IInv /\ [Next]_vars => IInv'
  BY TypeStep, SeenStep, ReadStep DEF IInv, ReadInv
<1> QED
  BY <1>1, <1>2, PTL DEF Spec

\* Every variable stays in its range.
THEOREM TypeCorrect == Spec => []TypeOK
<1>1. IInv => TypeOK
  BY DEF IInv
<1> QED
  BY <1>1, Inductive, PTL

\* Whoever follows nextCursor to the end has what was there all the time and
\* was not moved up.
THEOREM EndHasAll == Spec => []NothingSkipped
<1>1. IInv => NothingSkipped
  BY DEF IInv
<1> QED
  BY <1>1, Inductive, PTL

\* Nothing is returned twice that was not moved down, whatever calls failed.
THEOREM ReadOnce == Spec => []NothingRepeated
<1>1. IInv => NothingRepeated
  BY DEF IInv
<1> QED
  BY <1>1, Inductive, PTL


-----------------------------------------------------------------------------
(* A list that nothing changes.                                             *)

StillInv ==
  /\ operation \in Whole => odd = {}
  /\ changes = 0 =>
       /\ kept = list /\ movedUp = {} /\ movedDown = {}
       /\ got \subseteq list \ odd
       /\ Merged \subseteq list

LEMMA StillStep == TypeOK /\ IdleInv /\ StillInv /\ [Next]_vars => StillInv'
<1> SUFFICES ASSUME TypeOK, IdleInv, StillInv, [Next]_vars PROVE StillInv'
  OBVIOUS
<1>1. ASSUME NEW k \in Items, Joins(k) \/ Leaves(k) PROVE StillInv'
  <2>1. changes' # 0 /\ UNCHANGED <<operation, odd>>
    BY <1>1 DEF Joins, Leaves, Changes, TypeOK
  <2> QED
    BY <2>1 DEF StillInv
<1>2. ASSUME UNCHANGED <<operation, changes, list, odd, kept, movedUp, movedDown>>,
             \A t \in Transports : Seen(t)' = Seen(t) \/ Seen(t)' = list \cap t,
             changes = 0 => got' \subseteq list \ odd
      PROVE  StillInv'
  <2>1. Merged \subseteq list => Merged' \subseteq list
    BY <1>2 DEF Merged
  <2> QED
    BY <1>2, <2>1 DEF StillInv
<1>3. ASSUME NEW page, Returned(page), changes = 0 => page \subseteq list \ odd PROVE StillInv'
  <2>1. UNCHANGED <<operation, changes, list, odd, kept, movedUp, movedDown>> /\ got' = got \cup page
    BY <1>3 DEF Returned, readVars
  <2>2. \A t \in Transports : Seen(t)' = list \cap t
    BY <1>3 DEF Returned, readVars, NoAnswers, Seen
  <2> QED
    BY <1>2, <1>3, <2>1, <2>2 DEF StillInv
<1>4. CASE ListsReturn
  <2> DEFINE page == Slice(Merged, cursor + 1, cursor + limit)
  <2>1. operation \in Whole /\ Returned(page)
    BY <1>4, ListsPage
  <2>2. page \subseteq Merged
    BY DEF Slice
  <2> HIDE DEF page
  <2> QED
    BY <1>3, <2>1, <2>2 DEF StillInv
<1>5. CASE CollectionReturns
  <2> DEFINE items == Slice(list, cursor + 1, cursor + Asked) \ odd
             page == Slice(items, 1, limit)
  <2>1. Returned(page)
    BY <1>5, CollectedSlice
  <2>2. page \subseteq list \ odd
    BY DEF Slice
  <2> HIDE DEF page
  <2> QED
    BY <1>3, <2>1, <2>2
<1>6. CASE RelationsReturn
  <2> DEFINE rest == {i \in list : i > cursor}
             page == Slice(rest, 1, limit)
  <2>1. Returned(page \ odd)
    BY <1>6, RelationsPage
  <2>2. page \ odd \subseteq list \ odd
    BY DEF Slice
  <2> HIDE DEF page
  <2> QED
    BY <1>3, <2>1, <2>2
<1>7. CASE \/ Call \/ RelationsHidden \/ CallFails \/ UNCHANGED vars
          \/ \E t \in Transports : ListOf(t)
  <2>1. UNCHANGED <<operation, changes, list, odd, kept, movedUp, movedDown, got>>
    BY <1>7 DEF Call, RelationsHidden, CallFails, ListOf, readVars, callVars, history, vars
  <2>2. \A t \in Transports : Seen(t)' = Seen(t) \/ Seen(t)' = list \cap t
    <3>1. UNCHANGED answers \/ answers' = NoAnswers
            \/ \E u \in Transports : answers' = [answers EXCEPT ![u] = list \cap u]
      BY <1>7 DEF Call, RelationsHidden, CallFails, ListOf, callVars, vars
    <3> QED
      BY <2>1, <3>1 DEF Seen, NoAnswers, TypeOK
  <2> QED
    BY <1>2, <2>1, <2>2 DEF StillInv
<1> QED
  BY <1>1, <1>4, <1>5, <1>6, <1>7 DEF Next

\* Where nothing joins or leaves, an agent that has read a list to its end that
\* can be paged has every item of it once and nothing else, with any limit and
\* whatever calls it had to make again.
THEOREM ReadsExactly ==
  Spec => [](status = "done" /\ Pageable /\ changes = 0 => got = list \ odd /\ twice = {})
<1>1. Init => StillInv
  <2>1. Init => Merged = list
    BY NothingAnswered DEF Init
  <2> QED
    BY <2>1 DEF Init, StillInv, Whole
<1>2. IInv /\ StillInv /\ [Next]_vars => StillInv'
  BY StillStep DEF IInv
<1>3. IInv /\ StillInv =>
        (status = "done" /\ Pageable /\ changes = 0 => got = list \ odd /\ twice = {})
  BY DEF IInv, StillInv, NothingSkipped, NothingRepeated
<1> QED
  BY <1>1, <1>2, <1>3, Inductive, PTL DEF Spec

-----------------------------------------------------------------------------
(* Following nextCursor goes on.                                            *)

\* A call that is answered with a next cursor has moved the cursor on, and not
\* past the items there are: no answer sends the agent back or makes it ask for
\* the same page again, however the list changes.
PageAdvances ==
  [][status = "waiting" /\ status' = "ready" /\ failures' = failures =>
       cursor < cursor' /\ cursor' \in Items \cup 1..Cardinality(Items)]_vars

\* A page that starts within the list has an item and ends within the list.
LEMMA SliceMoves ==
  ASSUME NEW S \in SUBSET Nat, IsFiniteSet(S), NEW c \in Nat, NEW n \in Nat \ {0},
         c < Cardinality(S)
  PROVE  c + Cardinality(Slice(S, c + 1, c + n)) \in (c + 1)..Cardinality(S)
<1> DEFINE page == Slice(S, c + 1, c + n)
<1>1. /\ page \in SUBSET Nat /\ IsFiniteSet(page)
      /\ Cardinality(page) \in Nat /\ Cardinality(S) \in Nat
  BY SliceSize, FS_CardinalityType
<1>2. PICK i \in S : Place(S, i) = c + 1
  BY <1>1, PlaceOnto
<1>3. i \in page
  BY <1>2 DEF Slice
<1>4. Cardinality(page) # 0
  BY <1>1, <1>3, FS_EmptySet
<1> HIDE DEF page
<1>5. PICK j \in page : Place(page, j) = Cardinality(page)
  <2>1. Cardinality(page) \in 1..Cardinality(page)
    BY <1>1, <1>4
  <2> QED
    BY <1>1, <2>1, PlaceOnto
<1>6. j \in Slice(S, c + 1, c + n) /\ j \in S
  BY <1>5 DEF page, Slice
<1>7. Place(page, j) = Place(S, j) - c
  BY <1>6, SliceOfPlaces DEF page
<1>8. Place(S, j) \in 1..Cardinality(S)
  BY <1>6, PlaceType
<1> QED
  BY <1>1, <1>4, <1>5, <1>7, <1>8 DEF page

LEMMA CardinalityOfItems ==
  ASSUME NEW S \in SUBSET Items
  PROVE  Cardinality(S) \in Nat /\ Cardinality(Items) \in Nat /\ Cardinality(S) <= Cardinality(Items)
BY Finite, FS_Subset, FS_CardinalityType

MovesOn == cursor < cursor' /\ cursor' \in Items \cup 1..Cardinality(Items)

LEMMA ListsMove ==
  ASSUME TypeOK, ListsReturn, status' = "ready"
  PROVE  MovesOn
<1> DEFINE page == Slice(Merged, cursor + 1, cursor + limit)
<1>1. Proceeds(Cardinality(Merged) > cursor + Cardinality(page), cursor + Cardinality(page))
  BY ListsPage
<1>2. Cardinality(Merged) > cursor + Cardinality(page) /\ cursor' = cursor + Cardinality(page)
  BY <1>1 DEF Proceeds
<1>3. Merged \in SUBSET Items /\ Merged \in SUBSET Nat /\ IsFiniteSet(Merged)
  BY MergedType, Finite
<1>4. cursor \in Nat /\ limit \in Nat \ {0} /\ Cardinality(page) \in Nat
  BY <1>3, PageSizes, SliceType
<1>5. /\ Cardinality(Merged) \in Nat /\ Cardinality(Items) \in Nat
      /\ Cardinality(Merged) <= Cardinality(Items)
  BY <1>3, CardinalityOfItems
<1>6. cursor + Cardinality(page) \in (cursor + 1)..Cardinality(Merged)
  BY <1>2, <1>3, <1>4, <1>5, SliceMoves
<1> QED
  BY <1>2, <1>4, <1>5, <1>6 DEF MovesOn

LEMMA CollectionMoves ==
  ASSUME TypeOK, IdleInv, CollectionReturns, status' = "ready"
  PROVE  MovesOn
<1> DEFINE items == Slice(list, cursor + 1, cursor + Asked) \ odd
           page == Slice(items, 1, limit)
<1>1. Proceeds(Cardinality(items) > Cardinality(page), cursor + Cardinality(page))
  BY CollectedSlice
<1>2. Cardinality(items) > Cardinality(page) /\ cursor' = cursor + Cardinality(page)
  BY <1>1 DEF Proceeds
<1>3. list \in SUBSET Items /\ list \in SUBSET Nat /\ IsFiniteSet(list)
  BY Finite DEF TypeOK
<1>4. cursor \in Nat /\ limit \in Nat \ {0} /\ Asked \in Nat /\ Asked \in {limit, limit + 1}
  BY PageSizes
<1>5. items \in SUBSET Slice(list, cursor + 1, cursor + Asked)
  OBVIOUS
<1> HIDE DEF items
<1>6. page = Slice(list, cursor + 1, cursor + limit)
  BY <1>2, <1>3, <1>4, <1>5, CollectedMore
<1>7. cursor < Cardinality(list)
  <2>1. items \in SUBSET Items /\ IsFiniteSet(items)
    BY <1>3, <1>5, Finite DEF Slice
  <2>2. items # {}
    BY <1>2, <2>1, SliceType, FS_EmptySet DEF Slice
  <2>3. PICK i \in list : Place(list, i) \in (cursor + 1)..(cursor + Asked)
    BY <1>5, <2>2 DEF Slice
  <2>4. Place(list, i) \in 1..Cardinality(list) /\ Cardinality(list) \in Nat
    BY <1>3, PlaceType
  <2> QED
    BY <1>4, <2>3, <2>4
<1>8. /\ Cardinality(list) \in Nat /\ Cardinality(Items) \in Nat
      /\ Cardinality(list) <= Cardinality(Items)
  BY <1>3, CardinalityOfItems
<1>9. cursor + Cardinality(page) \in (cursor + 1)..Cardinality(list)
  BY <1>3, <1>4, <1>6, <1>7, SliceMoves
<1> QED
  BY <1>2, <1>4, <1>8, <1>9 DEF MovesOn

LEMMA RelationsMove ==
  ASSUME TypeOK, RelationsReturn, status' = "ready"
  PROVE  MovesOn
<1> DEFINE rest == {i \in list : i > cursor}
           page == Slice(rest, 1, limit)
<1>1. Proceeds(page # rest, LastOf(page))
  BY RelationsPage
<1>2. page # rest /\ cursor' = LastOf(page)
  BY <1>1 DEF Proceeds
<1>3. rest \in SUBSET Items /\ rest \in SUBSET Nat /\ IsFiniteSet(rest)
  <2>1. rest \in SUBSET Items
    BY DEF TypeOK
  <2> QED
    BY <2>1, Finite
<1>4. cursor \in Nat /\ limit \in Nat \ {0}
  BY PageSizes
<1>5. page \in SUBSET rest /\ page \in SUBSET Items
  BY <1>3 DEF Slice
<1>6. page # {}
  <2>1. rest # {}
    BY <1>2, <1>5
  <2>2. 0 < Cardinality(rest)
    BY <1>3, <2>1, FS_EmptySet, FS_CardinalityType
  <2>3. 0 + Cardinality(Slice(rest, 0 + 1, 0 + limit)) \in (0 + 1)..Cardinality(rest)
    BY <1>3, <1>4, <2>2, SliceMoves
  <2>4. page = Slice(rest, 0 + 1, 0 + limit)
    BY <1>4
  <2>5. Cardinality(rest) \in Nat /\ Cardinality(page) \in Nat
    BY <1>3, SliceType, CardinalityOfItems
  <2> HIDE DEF page, rest
  <2>6. Cardinality(page) # 0
    BY <2>3, <2>4, <2>5
  <2> QED
    BY <2>6, FS_EmptySet
<1>7. LastOf(page) \in page
  <2>1. LastOf(page) \in page \cup {0} /\ \A j \in page : j <= LastOf(page)
    BY <1>5, LastOfPage
  <2>2. \A j \in page : j \in Nat \ {0}
    BY <1>5, ItemAssumption
  <2> QED
    BY <1>6, <2>1, <2>2
<1> QED
  BY <1>2, <1>5, <1>7 DEF MovesOn

\* Following nextCursor goes on: with ReadingEnds, which needs fairness, only the
\* answers themselves are left to wait for.
THEOREM CursorAdvances == Spec => PageAdvances
<1>1. IInv /\ [Next]_vars =>
        [status = "waiting" /\ status' = "ready" /\ failures' = failures => MovesOn]_vars
  <2> SUFFICES ASSUME IInv, Next, status = "waiting", status' = "ready", failures' = failures
               PROVE  MovesOn
    OBVIOUS
  <2>1. TypeOK /\ IdleInv
    BY DEF IInv
  <2>2. CASE ListsReturn
    BY <2>1, <2>2, ListsMove
  <2>3. CASE CollectionReturns
    BY <2>1, <2>3, CollectionMoves
  <2>4. CASE RelationsReturn
    BY <2>1, <2>4, RelationsMove
  <2>5. ~CallFails
    BY <2>1 DEF CallFails, TypeOK
  <2>6. ~Call /\ ~RelationsHidden /\ \A t \in Transports : ~ListOf(t)
    BY DEF Call, RelationsHidden, ListOf
  <2>7. \A i \in Items : ~Joins(i) /\ ~Leaves(i)
    BY DEF Joins, Leaves, Changes, callVars
  <2> QED
    BY <2>2, <2>3, <2>4, <2>5, <2>6, <2>7 DEF Next
<1> QED
  BY <1>1, Inductive, PTL DEF Spec, PageAdvances, MovesOn
=============================================================================
