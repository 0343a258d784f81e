------------------------------ MODULE ChangeProofs ------------------------------
(***************************************************************************)
(* Theorems about the change sets, and what a callback is told of a list   *)
(* and of a table.  For every set of positions shift and unshift are       *)
(* inverse to one another; every call of a builder follows the entries it  *)
(* does not delete to where they are; the log of a table tells where each  *)
(* of its rows was.  So a change set leads from one sequence of entries to *)
(* another; and so does what clean_up_stale_moves and parse_complete make  *)
(* of a log, and two change sets merged.  Of an entry modified it is known *)
(* where it is marked.  Together they are the invariant from which the     *)
(* safety properties of lists and tables follow.                           *)
(***************************************************************************)
EXTENDS CollectionChanges, FiniteSetTheorems, SequenceTheorems, WellFoundedInduction,
        TLAPS

(* A set of positions of a collection. *)
PositionSet(S) == S \subseteq Nat /\ IsFiniteSet(S)

\* Any numbers there are have a least one.
LEMMA LeastNumber ==
    ASSUME NEW T \in SUBSET Nat, T # {}
    PROVE  \E m \in T : \A k \in T : m <= k
<1>1. PICK m \in T : \A k \in T : ~(<<k, m>> \in OpToRel(<, Nat))
  BY NatLessThanWellFounded, WFMin
<1>2. \A k \in T : ~(k < m)
  BY <1>1 DEF OpToRel
<1> QED
  BY <1>2

-----------------------------------------------------------------------------
(* Counting members. *)
LEMMA CountFacts ==
    ASSUME NEW S, PositionSet(S), NEW n \in Nat
    PROVE  /\ CountIn(S, 0, n) \in Nat /\ CountIn(S, 0, n) <= n
           /\ CountIn(S, 0, n) <= Cardinality(S) /\ Cardinality(S) \in Nat
           /\ Unshift(S, n) \in Nat /\ Unshift(S, n) = n - CountIn(S, 0, n)
<1> DEFINE T == {x \in S : 0 <= x /\ x < n}
<1>0. IsFiniteSet(S) /\ \A x \in S : x \in Nat
  BY DEF PositionSet
<1>1. T \subseteq 0..n-1 /\ T \subseteq S /\ IsFiniteSet(S) /\ n-1 \in Int
  BY <1>0
<1>2. IsFiniteSet(0..n-1) /\ Cardinality(0..n-1) = n
  BY <1>1, FS_Interval
<1>3. IsFiniteSet(T) /\ Cardinality(T) <= n
  BY <1>1, <1>2, FS_Subset
<1>4. Cardinality(T) <= Cardinality(S)
  BY <1>1, FS_Subset
<1>5. Cardinality(T) \in Nat /\ Cardinality(S) \in Nat
  BY <1>1, <1>3, FS_CardinalityType
<1> QED
  BY <1>3, <1>4, <1>5 DEF CountIn, Unshift

LEMMA CountNext ==
    ASSUME NEW S, PositionSet(S), NEW n \in Nat
    PROVE  CountIn(S, 0, n + 1) = IF n \in S THEN CountIn(S, 0, n) + 1 ELSE CountIn(S, 0, n)
<1> DEFINE T(k) == {x \in S : 0 <= x /\ x < k}
<1>0. IsFiniteSet(S) /\ \A x \in S : x \in Nat
  BY DEF PositionSet
<1>1. IsFiniteSet(T(n))
  BY <1>0, FS_Subset
<1>2. CASE n \in S
  <2>1. T(n + 1) = T(n) \cup {n} /\ n \notin T(n)
    <3>1. n \in T(n + 1) /\ n \notin T(n)
      BY <1>0, <1>2
    <3>2. \A x : x \in T(n + 1) /\ x # n <=> x \in T(n)
      BY <1>0
    <3> QED
      BY <3>1, <3>2
  <2> QED
    BY <1>1, <1>2, <2>1, FS_AddElement DEF CountIn
<1>3. CASE n \notin S
  <2>1. T(n + 1) = T(n)
    BY <1>0, <1>3
  <2> QED
    BY <1>3, <2>1 DEF CountIn
<1> QED
  BY <1>2, <1>3

\* Between two positions there are no more members than there is room for.
LEMMA CountBetween ==
    ASSUME NEW S, PositionSet(S), NEW m \in Nat, NEW n \in Nat, m < n
    PROVE  /\ CountIn(S, 0, m) <= CountIn(S, 0, n)
           /\ CountIn(S, 0, n) - CountIn(S, 0, m) <= n - m
           /\ m \notin S => CountIn(S, 0, n) - CountIn(S, 0, m) < n - m
<1> DEFINE T == {x \in S : 0 <= x /\ x < m}
           U == {x \in S : 0 <= x /\ x < n}
           V == U \ T
<1>0. IsFiniteSet(S) /\ \A x \in S : x \in Nat
  BY DEF PositionSet
<1>1. IsFiniteSet(U) /\ T \in SUBSET U
  <2>1. U \in SUBSET S /\ T \in SUBSET U
    BY <1>0
  <2> QED
    BY <1>0, <2>1, FS_Subset
<1>2. Cardinality(T) <= Cardinality(U) /\ IsFiniteSet(T) /\ U \cap T = T
  BY <1>1, FS_Subset
<1>3. Cardinality(V) = Cardinality(U) - Cardinality(T) /\ IsFiniteSet(V)
  BY <1>1, <1>2, FS_Difference
<1>4. Cardinality(T) \in Nat /\ Cardinality(U) \in Nat /\ Cardinality(V) \in Nat
  BY <1>1, <1>2, <1>3, FS_CardinalityType
<1>5. V \subseteq m..n-1
  BY <1>0
<1>6. IsFiniteSet(m..n-1) /\ Cardinality(m..n-1) = n - m
  BY FS_Interval
<1>7. Cardinality(V) <= n - m
  BY <1>5, <1>6, FS_Subset
<1>8. ASSUME m \notin S
      PROVE  Cardinality(V) < n - m
  <2>1. V # m..n-1
    BY <1>8
  <2>2. Cardinality(V) # Cardinality(m..n-1)
    BY <1>5, <1>6, <2>1, FS_Subset
  <2> QED
    BY <1>4, <1>6, <1>7, <2>2
<1> QED
  BY <1>2, <1>3, <1>4, <1>7, <1>8 DEF CountIn

-----------------------------------------------------------------------------
\* unshift keeps the order of the positions that are not members.
LEMMA UnshiftOrder ==
    ASSUME NEW S, PositionSet(S), NEW m \in Nat \ S, NEW n \in Nat
    PROVE  /\ m < n => Unshift(S, m) < Unshift(S, n)
           /\ n \notin S => (m = n <=> Unshift(S, m) = Unshift(S, n))
           /\ n \notin S => (m < n <=> Unshift(S, m) < Unshift(S, n))
<1>1. ASSUME NEW k \in Nat \ S, NEW l \in Nat, k < l
      PROVE  Unshift(S, k) < Unshift(S, l)
  BY <1>1, CountBetween, CountFacts
<1>2. Unshift(S, m) \in Nat /\ Unshift(S, n) \in Nat
  BY CountFacts
<1> QED
  BY <1>1, <1>2

\* A position that is not a member comes before one that is just if it still does
\* once the members are taken out.
LEMMA MissingFirst ==
    ASSUME NEW S, PositionSet(S), NEW m \in Nat \ S, NEW n \in S
    PROVE  m < n <=> Unshift(S, m) < Unshift(S, n)
<1>1. n \in Nat /\ m # n
  BY DEF PositionSet
<1>2. Unshift(S, m) \in Nat /\ Unshift(S, n) \in Nat
  BY <1>1, CountFacts
<1>3. ASSUME n < m
      PROVE  Unshift(S, n) <= Unshift(S, m)
  BY <1>1, <1>3, CountBetween, CountFacts
<1> QED
  BY <1>1, <1>2, <1>3, UnshiftOrder

\* shift finds the position that unshift takes back.
LEMMA ShiftExists ==
    ASSUME NEW S, PositionSet(S), NEW i \in Nat
    PROVE  \E n \in i .. i + Cardinality(S) : n \notin S /\ Unshift(S, n) = i
<1> DEFINE K == Cardinality(S)
           T == {n \in Nat : n + 1 - CountIn(S, 0, n + 1) > i}
<1>1. K \in Nat /\ CountIn(S, 0, 0) = 0
  BY CountFacts, 0 \in Nat
<1>2. i + K \in T
  <2>1. i + K \in Nat /\ i + K + 1 \in Nat
    BY <1>1
  <2>2. CountIn(S, 0, i + K + 1) <= K /\ CountIn(S, 0, i + K + 1) \in Nat
    BY <2>1, CountFacts
  <2> QED
    BY <1>1, <2>1, <2>2
<1>3. PICK n \in T : \A k \in T : n <= k
  BY <1>2, LeastNumber
<1>4. n \in Nat /\ n <= i + K /\ n + 1 - CountIn(S, 0, n + 1) > i
  BY <1>2, <1>3
<1>5. CountIn(S, 0, n) \in Nat /\ n - CountIn(S, 0, n) <= i
  <2>1. CASE n = 0
    BY <1>1, <2>1
  <2>2. CASE n # 0
    <3>1. n - 1 \in Nat /\ n - 1 \notin T /\ n - 1 + 1 = n
      BY <1>3, <1>4, <2>2
    <3> QED
      BY <1>4, <3>1, CountFacts
  <2> QED
    BY <2>1, <2>2
<1>6. n \notin S /\ n - CountIn(S, 0, n) = i
  BY <1>4, <1>5, CountNext
<1>7. Unshift(S, n) = i /\ n \in i .. i + K
  BY <1>1, <1>4, <1>5, <1>6 DEF Unshift
<1> QED
  BY <1>6, <1>7

(* shift and unshift are inverse to one another between all positions and those
   that are not members, and keep the order (index_set.cpp:656-671). *)
THEOREM ShiftUndoesUnshift ==
    ASSUME NEW S, PositionSet(S)
    PROVE  /\ \A i \in Nat : /\ Shift(S, i) \in Nat \ S
                             /\ Unshift(S, Shift(S, i)) = i
           /\ \A n \in Nat \ S : /\ Unshift(S, n) \in Nat
                                 /\ Shift(S, Unshift(S, n)) = n
           /\ \A i, j \in Nat : i < j <=> Shift(S, i) < Shift(S, j)
<1>1. ASSUME NEW i \in Nat
      PROVE  Shift(S, i) \in Nat \ S /\ Unshift(S, Shift(S, i)) = i
  <2>1. /\ Shift(S, i) \in i .. i + Cardinality(S)
        /\ Shift(S, i) \notin S /\ Unshift(S, Shift(S, i)) = i
    BY ShiftExists DEF Shift
  <2> QED
    BY <2>1, CountFacts
<1>2. ASSUME NEW n \in Nat \ S
      PROVE  Unshift(S, n) \in Nat /\ Shift(S, Unshift(S, n)) = n
  <2>1. Unshift(S, n) \in Nat
    BY CountFacts
  <2>2. /\ Shift(S, Unshift(S, n)) \in Nat \ S
        /\ Unshift(S, Shift(S, Unshift(S, n))) = Unshift(S, n)
    BY <1>1, <2>1
  <2> QED
    BY <2>1, <2>2, UnshiftOrder
<1>3. ASSUME NEW i \in Nat, NEW j \in Nat
      PROVE  i < j <=> Shift(S, i) < Shift(S, j)
  <2>1. /\ Shift(S, i) \in Nat \ S /\ Unshift(S, Shift(S, i)) = i
        /\ Shift(S, j) \in Nat \ S /\ Unshift(S, Shift(S, j)) = j
    BY <1>1
  <2> QED
    BY <2>1, UnshiftOrder
<1> QED
  BY <1>1, <1>2, <1>3

LEMMA ShiftFacts ==
    ASSUME NEW S, PositionSet(S), NEW i \in Nat
    PROVE  Shift(S, i) \in Nat /\ Shift(S, i) \notin S /\ Unshift(S, Shift(S, i)) = i
BY ShiftUndoesUnshift

\* A position is where shift leads if unshift leads back from it.
LEMMA ShiftIs ==
    ASSUME NEW S, PositionSet(S), NEW n \in Nat, n \notin S, NEW i, Unshift(S, n) = i
    PROVE  Shift(S, i) = n
BY ShiftUndoesUnshift

-----------------------------------------------------------------------------
(* Counting in sets made of others. *)

\* Members taken in order to other positions: as many of them are before n as
\* there were before m, if just those before m come to be before n.
LEMMA CountMapped ==
    ASSUME NEW S, PositionSet(S), NEW f \in [S -> Nat], NEW R, R = {f[x] : x \in S},
           \A x, y \in S : x < y => f[x] < f[y],
           NEW m \in Nat, NEW n \in Nat, \A x \in S : f[x] < n <=> x < m
    PROVE  CountIn(R, 0, n) = CountIn(S, 0, m)
<1> DEFINE T == {x \in S : 0 <= x /\ x < m}
           U == {x \in R : 0 <= x /\ x < n}
           g == [x \in T |-> f[x]]
<1>0. IsFiniteSet(S) /\ \A x \in S : x \in Nat
  BY DEF PositionSet
<1>1. IsFiniteSet(T)
  BY <1>0, FS_Subset
<1>2. \A x \in T : x \in S /\ x \in Nat /\ f[x] \in Nat /\ g[x] = f[x] /\ f[x] \in U
  BY <1>0
<1>3. g \in [T -> U]
  BY <1>2
<1>4. \A x, y \in T : g[x] = g[y] => x = y
  BY <1>2
<1>5. \A u \in U : \E x \in T : g[x] = u
  <2> TAKE u \in U
  <2>1. PICK x \in S : u = f[x]
    OBVIOUS
  <2>2. x \in T
    BY <1>0, <2>1
  <2> QED
    BY <1>2, <2>1, <2>2
<1> HIDE DEF g, T, U
<1>6. g \in Bijection(T, U)
  BY <1>3, <1>4, <1>5 DEF Bijection, Injection, Surjection, IsInjective
<1>7. Cardinality(U) = Cardinality(T)
  BY <1>1, <1>6, FS_Bijection DEF ExistsBijection
<1> QED
  BY <1>7 DEF CountIn, T, U

LEMMA MappedPositions ==
    ASSUME NEW S, PositionSet(S), NEW f \in [S -> Nat]
    PROVE  PositionSet({f[x] : x \in S})
<1> DEFINE R == {f[x] : x \in S}
<1>1. f \in Surjection(S, R)
  BY DEF Surjection
<1>2. IsFiniteSet(R)
  BY <1>1, FS_Surjection DEF PositionSet
<1> QED
  BY <1>2 DEF PositionSet

LEMMA CountUnion ==
    ASSUME NEW S, PositionSet(S), NEW R, PositionSet(R), S \cap R = {}, NEW n \in Nat
    PROVE  /\ PositionSet(S \cup R)
           /\ CountIn(S \cup R, 0, n) = CountIn(S, 0, n) + CountIn(R, 0, n)
<1> DEFINE T == {x \in S : 0 <= x /\ x < n}
           U == {x \in R : 0 <= x /\ x < n}
           W == {x \in S \cup R : 0 <= x /\ x < n}
<1>1. PositionSet(S \cup R)
  BY FS_Union DEF PositionSet
<1>2. IsFiniteSet(T) /\ IsFiniteSet(U)
  BY FS_Subset DEF PositionSet
<1>3. T \cap U = {} /\ W = T \cup U
  OBVIOUS
<1>4. Cardinality(W) = Cardinality(T) + Cardinality(U)
  <2>1. Cardinality(T \cup U) = Cardinality(T) + Cardinality(U) - 0
    BY <1>2, <1>3, FS_Union, FS_EmptySet
  <2>2. Cardinality(T) \in Nat /\ Cardinality(U) \in Nat
    BY <1>2, FS_CardinalityType
  <2>3. Cardinality(W) = Cardinality(T) + Cardinality(U) - 0
    BY <1>3, <2>1
  <2> HIDE DEF T, U, W
  <2> QED
    BY <2>2, <2>3
<1> QED
  BY <1>1, <1>4 DEF CountIn

LEMMA CountSingle ==
    ASSUME NEW i \in Nat, NEW n \in Nat
    PROVE  PositionSet({i}) /\ CountIn({i}, 0, n) = IF i < n THEN 1 ELSE 0
<1>1. PositionSet({i})
  BY FS_Singleton DEF PositionSet
<1>2. CASE i < n
  <2>1. {x \in {i} : 0 <= x /\ x < n} = {i}
    BY <1>2
  <2> QED
    BY <1>1, <1>2, <2>1, FS_Singleton DEF CountIn
<1>3. CASE ~(i < n)
  <2>1. {x \in {i} : 0 <= x /\ x < n} = {}
    BY <1>3
  <2> QED
    BY <1>1, <1>3, <2>1, FS_EmptySet DEF CountIn
<1> QED
  BY <1>2, <1>3

LEMMA CountAdded ==
    ASSUME NEW S, PositionSet(S), NEW i \in Nat \ S, NEW n \in Nat
    PROVE  /\ PositionSet(S \cup {i})
           /\ CountIn(S \cup {i}, 0, n) = CountIn(S, 0, n) + (IF i < n THEN 1 ELSE 0)
<1>1. PositionSet({i}) /\ CountIn({i}, 0, n) = (IF i < n THEN 1 ELSE 0) /\ S \cap {i} = {}
  BY CountSingle
<1> QED
  BY <1>1, CountUnion

LEMMA CountRemoved ==
    ASSUME NEW S, PositionSet(S), NEW i \in S, NEW n \in Nat
    PROVE  /\ PositionSet(S \ {i})
           /\ CountIn(S \ {i}, 0, n) = CountIn(S, 0, n) - (IF i < n THEN 1 ELSE 0)
<1>1. PositionSet(S \ {i}) /\ i \in Nat \ (S \ {i}) /\ (S \ {i}) \cup {i} = S
  BY FS_RemoveElement DEF PositionSet
<1>2. CountIn(S, 0, n) = CountIn(S \ {i}, 0, n) + (IF i < n THEN 1 ELSE 0)
  BY <1>1, CountAdded
<1>3. CountIn(S \ {i}, 0, n) \in Nat
  BY <1>1, CountFacts
<1> QED
  BY <1>1, <1>2, <1>3

-----------------------------------------------------------------------------
(* Change sets.  An entry of the old collection that is not reported deleted is
   at the position of the new one that as many others precede. *)
Sets(b) == PositionSet(b.del) /\ PositionSet(b.ins)
Follows(b, o) == Shift(b.ins, Unshift(b.del, o))
CameFrom(b, n) == Shift(b.del, Unshift(b.ins, n))

LEMMA FollowsFacts ==
    ASSUME NEW b, Sets(b), NEW o \in Nat, o \notin b.del
    PROVE  /\ Follows(b, o) \in Nat /\ Follows(b, o) \notin b.ins
           /\ Unshift(b.ins, Follows(b, o)) = Unshift(b.del, o)
           /\ CameFrom(b, Follows(b, o)) = o
           /\ Unshift(b.del, o) \in Nat
<1>1. Unshift(b.del, o) \in Nat
  BY CountFacts DEF Sets
<1>2. Follows(b, o) \in Nat /\ Follows(b, o) \notin b.ins
      /\ Unshift(b.ins, Follows(b, o)) = Unshift(b.del, o)
  BY <1>1, ShiftFacts DEF Sets, Follows
<1> QED
  BY <1>1, <1>2, ShiftIs DEF Sets, CameFrom

LEMMA CameFromFacts ==
    ASSUME NEW b, Sets(b), NEW n \in Nat, n \notin b.ins
    PROVE  /\ CameFrom(b, n) \in Nat /\ CameFrom(b, n) \notin b.del
           /\ Unshift(b.del, CameFrom(b, n)) = Unshift(b.ins, n)
           /\ Follows(b, CameFrom(b, n)) = n
<1>1. Unshift(b.ins, n) \in Nat
  BY CountFacts DEF Sets
<1>2. CameFrom(b, n) \in Nat /\ CameFrom(b, n) \notin b.del
      /\ Unshift(b.del, CameFrom(b, n)) = Unshift(b.ins, n)
  BY <1>1, ShiftFacts DEF Sets, CameFrom
<1> QED
  BY <1>1, <1>2, ShiftIs DEF Sets, Follows

LEMMA FollowsOrder ==
    ASSUME NEW b, Sets(b), NEW o \in Nat, o \notin b.del, NEW p \in Nat, p \notin b.del
    PROVE  o < p <=> Follows(b, o) < Follows(b, p)
<1>1. /\ Follows(b, o) \in Nat \ b.ins /\ Unshift(b.ins, Follows(b, o)) = Unshift(b.del, o)
      /\ Follows(b, p) \in Nat \ b.ins /\ Unshift(b.ins, Follows(b, p)) = Unshift(b.del, p)
  BY FollowsFacts
<1>2. o < p <=> Unshift(b.del, o) < Unshift(b.del, p)
  BY UnshiftOrder DEF Sets
<1>3. Follows(b, o) < Follows(b, p)
        <=> Unshift(b.ins, Follows(b, o)) < Unshift(b.ins, Follows(b, p))
  BY <1>1, UnshiftOrder DEF Sets
<1> QED
  BY <1>1, <1>2, <1>3

LEMMA FollowsIs ==
    ASSUME NEW b, Sets(b), NEW o \in Nat, NEW n \in Nat, n \notin b.ins,
           Unshift(b.ins, n) = Unshift(b.del, o)
    PROVE  Follows(b, o) = n
BY ShiftIs DEF Sets, Follows

(* The old and the new positions of the modified entries are those of the same
   entries, none of them deleted or inserted: modifications and modifications_new
   "conceptually represent the same entries" (collection_change_builder.cpp:867-887). *)
THEOREM ModificationsMatch ==
    ASSUME NEW b, Sets(b), b.mod \subseteq Nat
    PROVE  /\ ModifiedInOld(b) \cap b.del = {}
           /\ {Follows(b, o) : o \in ModifiedInOld(b)} = ModifiedInNew(b)
<1>1. ModifiedInOld(b) = {CameFrom(b, x) : x \in b.mod \ b.ins}
  BY DEF ModifiedInOld, ShiftForInsertPositions, ErasePositions, CameFrom
<1>2. \A x \in b.mod \ b.ins : CameFrom(b, x) \notin b.del /\ Follows(b, CameFrom(b, x)) = x
  BY CameFromFacts
<1> QED
  BY <1>1, <1>2 DEF ModifiedInNew

-----------------------------------------------------------------------------
(* Insertions and erasures. *)

\* Where the entry at n goes when another is inserted at i, or erased.
Up(n, i) == IF n < i THEN n ELSE n + 1
Down(n, i) == IF n < i THEN n ELSE n - 1

LEMMA InsertedPositions ==
    ASSUME NEW S, PositionSet(S), NEW i \in Nat, NEW n \in Nat, n \notin S
    PROVE  /\ PositionSet(InsertPosition(S, i))
           /\ Up(n, i) \in Nat /\ Up(n, i) \notin InsertPosition(S, i)
           /\ Unshift(InsertPosition(S, i), Up(n, i)) = Unshift(S, n)
<1> DEFINE f == [x \in S |-> Up(x, i)]
           R == {f[x] : x \in S}
<1>1. \A x \in S : x \in Nat
  BY DEF PositionSet
<1>2. f \in [S -> Nat]
  BY <1>1 DEF Up
<1>3. InsertPosition(S, i) = R \cup {i}
  BY DEF InsertPosition, ShiftForInsertAt, Up
<1>4. Up(n, i) \in Nat /\ i \in Nat \ R /\ Up(n, i) \notin R /\ Up(n, i) # i
  BY <1>1 DEF Up
<1>5. \A x, y \in S : x < y => f[x] < f[y]
  BY <1>1 DEF Up
<1>6. \A x \in S : f[x] < Up(n, i) <=> x < n
  BY <1>1 DEF Up
<1>7. PositionSet(R)
  BY <1>2, MappedPositions
<1> HIDE DEF f
<1>8. CountIn(R, 0, Up(n, i)) = CountIn(S, 0, n)
  BY <1>2, <1>4, <1>5, <1>6, CountMapped
<1>9. /\ PositionSet(R \cup {i})
      /\ CountIn(R \cup {i}, 0, Up(n, i)) = CountIn(R, 0, Up(n, i)) + (IF i < Up(n, i) THEN 1 ELSE 0)
  BY <1>4, <1>7, CountAdded
<1>10. Unshift(InsertPosition(S, i), Up(n, i)) = Unshift(S, n)
  <2>1. CountIn(S, 0, n) \in Nat
    BY CountFacts
  <2> QED
    BY <1>3, <1>8, <1>9, <2>1 DEF Unshift, Up
<1> QED
  BY <1>3, <1>4, <1>9, <1>10

LEMMA ErasedPositions ==
    ASSUME NEW S, PositionSet(S), NEW i \in Nat, NEW n \in Nat, n \notin S, n # i
    PROVE  /\ PositionSet(ErasePosition(S, i))
           /\ Down(n, i) \in Nat /\ Down(n, i) \notin ErasePosition(S, i)
           /\ Unshift(ErasePosition(S, i), Down(n, i)) =
                Unshift(S, n) - (IF i < n /\ i \notin S THEN 1 ELSE 0)
<1> DEFINE Q == S \ {i}
           f == [x \in Q |-> Down(x, i)]
           R == {f[x] : x \in Q}
<1>1. \A x \in Q : x \in Nat /\ x # i
  BY DEF PositionSet
<1>2. f \in [Q -> Nat]
  BY <1>1 DEF Down
<1>3. ErasePosition(S, i) = R
  BY DEF ErasePosition, Down
<1>4. Down(n, i) \in Nat /\ Down(n, i) \notin R
  BY <1>1 DEF Down
<1>5. \A x, y \in Q : x < y => f[x] < f[y]
  BY <1>1 DEF Down
<1>6. \A x \in Q : f[x] < Down(n, i) <=> x < n
  BY <1>1 DEF Down
<1>7. /\ PositionSet(Q)
      /\ CountIn(Q, 0, n) = CountIn(S, 0, n) - (IF i \in S /\ i < n THEN 1 ELSE 0)
  <2>1. CASE i \in S
    BY <2>1, CountRemoved
  <2>2. CASE i \notin S
    <3>1. Q = S
      BY <2>2
    <3>2. CountIn(S, 0, n) \in Nat
      BY CountFacts
    <3>3. CountIn(Q, 0, n) = CountIn(S, 0, n)
      BY <3>1
    <3> HIDE DEF Q
    <3> QED
      BY <2>2, <3>1, <3>2, <3>3
  <2> QED
    BY <2>1, <2>2
<1> HIDE DEF Q
<1>8. PositionSet(R)
  BY <1>2, <1>7, MappedPositions
<1> HIDE DEF f
<1>9. CountIn(R, 0, Down(n, i)) = CountIn(Q, 0, n)
  BY <1>2, <1>4, <1>5, <1>6, <1>7, CountMapped
<1>10. CountIn(S, 0, n) \in Nat
  BY CountFacts
<1>11. Unshift(R, Down(n, i)) = Unshift(S, n) - (IF i < n /\ i \notin S THEN 1 ELSE 0)
  <2>1. CASE n < i
    BY <1>7, <1>9, <1>10, <2>1 DEF Unshift, Down
  <2>2. CASE i < n
    BY <1>7, <1>9, <1>10, <2>2 DEF Unshift, Down
  <2> QED
    BY <2>1, <2>2
<1> QED
  BY <1>3, <1>4, <1>8, <1>11

-----------------------------------------------------------------------------
(* What the calls of a builder report. *)
Builder(b) ==
    /\ b = [del |-> b.del, ins |-> b.ins, mod |-> b.mod, moves |-> b.moves, map |-> b.map]
    /\ Sets(b)

(* CollectionChangeBuilder::insert (collection_change_builder.cpp:195-227): the
   entries at the position and after it are one further, nothing else is deleted. *)
THEOREM InsertsFollow ==
    ASSUME NEW b, Builder(b), NEW i \in Nat, NEW e, e = ChangeInsert(b, i)
    PROVE  /\ Builder(e) /\ e.del = b.del /\ i \in e.ins
           /\ \A o \in Nat \ b.del : Follows(e, o) = Up(Follows(b, o), i)
<1>1. /\ e.del = b.del /\ e.ins = InsertPosition(b.ins, i)
      /\ e = [del |-> e.del, ins |-> e.ins, mod |-> e.mod, moves |-> e.moves, map |-> e.map]
  BY DEF ChangeInsert, Builder
<1>2. Sets(b) /\ PositionSet(b.ins) /\ PositionSet(b.del)
  BY DEF Builder, Sets
<1>3. PositionSet(InsertPosition(b.ins, i))
  <2>1. Shift(b.ins, 0) \in Nat /\ Shift(b.ins, 0) \notin b.ins
    BY <1>2, ShiftFacts
  <2> QED
    BY <1>2, <2>1, InsertedPositions
<1>4. Builder(e)
  BY <1>1, <1>2, <1>3 DEF Builder, Sets
<1>5. i \in e.ins
  BY <1>1 DEF InsertPosition
<1>6. ASSUME NEW o \in Nat \ b.del
      PROVE  Follows(e, o) = Up(Follows(b, o), i)
  <2> DEFINE n == Follows(b, o)
  <2>1. n \in Nat /\ n \notin b.ins /\ Unshift(b.ins, n) = Unshift(b.del, o)
    BY <1>2, FollowsFacts
  <2> HIDE DEF n
  <2>2. /\ Up(n, i) \in Nat /\ Up(n, i) \notin e.ins
        /\ Unshift(e.ins, Up(n, i)) = Unshift(e.del, o)
    <3>1. /\ Up(n, i) \in Nat /\ Up(n, i) \notin InsertPosition(b.ins, i)
          /\ Unshift(InsertPosition(b.ins, i), Up(n, i)) = Unshift(b.ins, n)
      BY <1>2, <2>1, InsertedPositions
    <3>2. e.ins = InsertPosition(b.ins, i) /\ e.del = b.del
      BY <1>1
    <3> QED
      BY <2>1, <3>1, <3>2
  <2>3. Follows(e, o) = Up(n, i)
    BY <1>4, <2>2, FollowsIs DEF Builder
  <2> QED
    BY <2>3 DEF n
<1> QED
  BY <1>1, <1>4, <1>5, <1>6

\* What a call does to the entries b told of: the one at i is deleted; the one at
\* from goes to to; those that c deletes and leads are deleted and led; the one that
\* m moves is where it was.
Erased(b, e, i) ==
    /\ e.del = b.del \cup {o \in Nat \ b.del : Follows(b, o) = i}
    /\ \A o \in Nat \ e.del : Follows(e, o) = Down(Follows(b, o), i)
Moved(b, e, from, to) ==
    /\ e.del = b.del \cup {o \in Nat \ b.del : Follows(b, o) = from}
    /\ \A o \in Nat \ e.del : Follows(e, o) = Up(Down(Follows(b, o), from), to)
Merged(b, c, e) ==
    /\ e.del = b.del \cup {o \in Nat \ b.del : Follows(b, o) \in c.del}
    /\ \A o \in Nat \ e.del : Follows(e, o) = Follows(c, Follows(b, o))
TakenOff(b, e, m) ==
    /\ m.from \notin e.del /\ Follows(e, m.from) = m.to
    /\ \A o \in Nat \ b.del : Follows(e, o) = Follows(b, o)

(* erase (collection_change_builder.cpp:229-245): the deletions are those there
   were and the entry that was at the position, if it was not new; the entries
   after it are one nearer. *)
THEOREM ErasesFollow ==
    ASSUME NEW b, Builder(b), NEW i \in Nat, NEW e, e = ChangeErase(b, i)
    PROVE  Builder(e) /\ Erased(b, e, i)
<1>1. /\ e.del = Deleting(b, i) /\ e.ins = ErasePosition(b.ins, i)
      /\ e = [del |-> e.del, ins |-> e.ins, mod |-> e.mod, moves |-> e.moves, map |-> e.map]
  BY DEF ChangeErase, Builder
<1>2. Sets(b) /\ PositionSet(b.ins) /\ PositionSet(b.del)
  BY DEF Builder, Sets
<1>3. \A o \in Nat \ b.del :
        /\ Follows(b, o) \in Nat /\ Follows(b, o) \notin b.ins
        /\ Unshift(b.ins, Follows(b, o)) = Unshift(b.del, o)
        /\ CameFrom(b, Follows(b, o)) = o
  BY <1>2, FollowsFacts
<1>4. PositionSet(e.ins)
  <2>1. PositionSet(b.ins \cup {i})
    BY <1>2, FS_AddElement DEF PositionSet
  <2>2. PICK n \in Nat : n \notin b.ins \cup {i}
    BY <2>1, ShiftFacts, 0 \in Nat
  <2> QED
    BY <1>1, <1>2, <2>2, ErasedPositions
<1>5. /\ PositionSet(e.del)
      /\ e.del = b.del \cup {o \in Nat \ b.del : Follows(b, o) = i}
      /\ \A o \in Nat \ e.del :
           /\ o \notin b.del /\ Follows(b, o) # i
           /\ Unshift(e.del, o) =
                Unshift(b.del, o) - (IF i < Follows(b, o) /\ i \notin b.ins THEN 1 ELSE 0)
  <2>1. CASE i \in b.ins
    <3>1. e.del = b.del
      BY <1>1, <2>1 DEF Deleting
    <3>2. \A o \in Nat \ b.del : Unshift(b.del, o) \in Nat
      BY <1>2, CountFacts
    <3> QED
      BY <1>2, <1>3, <2>1, <3>1, <3>2
  <2>2. CASE i \notin b.ins
    <3> DEFINE d == CameFrom(b, i)
    <3>1. d \in Nat \ b.del /\ Follows(b, d) = i
      BY <1>2, <2>2, CameFromFacts
    <3>2. e.del = b.del \cup {d}
      BY <1>1, <2>2 DEF Deleting, AddShifted, CameFrom
    <3>3. \A o \in Nat \ b.del : Follows(b, o) = i <=> o = d
      BY <1>3, <3>1
    <3>4. PositionSet(e.del)
      BY <1>2, <3>1, <3>2, CountAdded
    <3> HIDE DEF d
    <3>5. ASSUME NEW o \in Nat \ e.del
          PROVE  Unshift(e.del, o) = Unshift(b.del, o) - (IF i < Follows(b, o) THEN 1 ELSE 0)
      <4>1. d < o <=> i < Follows(b, o)
        BY <1>2, <3>1, <3>2, FollowsOrder
      <4>2. CountIn(e.del, 0, o) = CountIn(b.del, 0, o) + (IF d < o THEN 1 ELSE 0)
        <5>1. d \in Nat \ b.del /\ o \in Nat /\ PositionSet(b.del)
          BY <1>2, <3>1
        <5>2. CountIn(b.del \cup {d}, 0, o) = CountIn(b.del, 0, o) + (IF d < o THEN 1 ELSE 0)
          BY <5>1, CountAdded
        <5> QED
          BY <3>2, <5>2
      <4>3. CountIn(b.del, 0, o) \in Nat
        BY <1>2, CountFacts
      <4> QED
        BY <4>1, <4>2, <4>3 DEF Unshift
    <3>6. e.del = b.del \cup {o \in Nat \ b.del : Follows(b, o) = i}
      BY <3>1, <3>2, <3>3
    <3>7. \A o \in Nat \ e.del : o \notin b.del /\ Follows(b, o) # i
      BY <3>2, <3>3
    <3> QED
      BY <2>2, <3>4, <3>5, <3>6, <3>7
  <2> QED
    BY <2>1, <2>2
<1>6. Builder(e)
  BY <1>1, <1>4, <1>5 DEF Builder, Sets
<1>7. ASSUME NEW o \in Nat \ e.del
      PROVE  Follows(e, o) = Down(Follows(b, o), i)
  <2> DEFINE n == Follows(b, o)
  <2>1. n \in Nat /\ n \notin b.ins /\ n # i /\ Unshift(b.ins, n) = Unshift(b.del, o)
    BY <1>3, <1>5
  <2>2. Unshift(e.del, o) = Unshift(b.del, o) - (IF i < n /\ i \notin b.ins THEN 1 ELSE 0)
    BY <1>5
  <2> HIDE DEF n
  <2>3. /\ Down(n, i) \in Nat /\ Down(n, i) \notin e.ins
        /\ Unshift(e.ins, Down(n, i)) = Unshift(e.del, o)
    BY <1>1, <1>2, <2>1, <2>2, ErasedPositions
  <2>4. Follows(e, o) = Down(n, i)
    BY <1>6, <2>3, FollowsIs DEF Builder
  <2> QED
    BY <2>4 DEF n
<1> QED
  BY <1>5, <1>6, <1>7 DEF Erased

(* move (collection_change_builder.cpp:264-309): every other entry is where taking
   the entry out and putting it in again leaves it, and also when it had been moved
   before, in which case only the end of that move is changed: the end of a move is
   an insertion. *)
THEOREM ListMovesFollow ==
    ASSUME NEW b, Builder(b), NEW from \in Nat, NEW to \in Nat,
           (\E n \in DOMAIN b.moves : b.moves[n].to = from) => from \in b.ins,
           NEW e, e = ChangeMove(b, from, to)
    PROVE  Builder(e) /\ to \in e.ins /\ Moved(b, e, from, to)
<1> DEFINE x == ChangeErase(b, from)
           y == ChangeInsert(x, to)
<1>1. x.del = Deleting(b, from) /\ x.ins = ErasePosition(b.ins, from)
  BY DEF ChangeErase, Builder
<1>2. /\ Builder(x)
      /\ x.del = b.del \cup {o \in Nat \ b.del : Follows(b, o) = from}
      /\ \A o \in Nat \ x.del : Follows(x, o) = Down(Follows(b, o), from)
  BY ErasesFollow DEF Erased
<1> HIDE DEF x
<1>3. y.ins = InsertPosition(x.ins, to)
  BY <1>2 DEF ChangeInsert, Builder
<1>32. y = ChangeInsert(x, to)
  OBVIOUS
<1> HIDE DEF y
<1>31. Builder(x)
  BY <1>2
<1>4. /\ Builder(y) /\ y.del = x.del /\ to \in y.ins
      /\ \A o \in Nat \ x.del : Follows(y, o) = Up(Follows(x, o), to)
  BY <1>31, <1>32, InsertsFollow
<1>5. /\ e = [del |-> e.del, ins |-> e.ins, mod |-> e.mod, moves |-> e.moves, map |-> e.map]
      /\ e.ins = InsertPosition(ErasePosition(b.ins, from), to)
      /\ e.del = IF \E n \in DOMAIN b.moves : b.moves[n].to = from THEN b.del ELSE Deleting(b, from)
  BY DEF ChangeMove, Builder
<1>6. e.ins = y.ins /\ e.del = y.del
  BY <1>1, <1>3, <1>4, <1>5 DEF Deleting
<1>7. Builder(e)
  BY <1>4, <1>5, <1>6 DEF Builder, Sets
<1>8. \A o \in Nat \ e.del : Follows(e, o) = Follows(y, o)
  BY <1>6 DEF Follows
<1> QED
  BY <1>2, <1>4, <1>6, <1>7, <1>8 DEF Moved

(* clean_up_stale_moves (collection_change_builder.cpp:142-154): where a move is
   taken off the deletions and insertions, its entry is found at the move's end
   without it, and no other entry is followed elsewhere. *)
THEOREM StaleMovesFollow ==
    ASSUME NEW b, Builder(b), NEW m, m.from \in b.del, m.to \in b.ins,
           Unshift(b.del, m.from) = Unshift(b.ins, m.to), NEW e, e = CleanUpMove(b, m)
    PROVE  Builder(e) /\ TakenOff(b, e, m)
<1> DEFINE d == m.from
           t == m.to
<1>1. /\ e.del = b.del \ {d} /\ e.ins = b.ins \ {t}
      /\ e = [del |-> e.del, ins |-> e.ins, mod |-> e.mod, moves |-> e.moves, map |-> e.map]
  BY DEF CleanUpMove, Builder
<1>2. Sets(b) /\ PositionSet(b.ins) /\ PositionSet(b.del)
  BY DEF Builder, Sets
<1>3. d \in b.del /\ t \in b.ins /\ d \in Nat /\ t \in Nat /\ Unshift(b.del, d) = Unshift(b.ins, t)
  BY <1>2 DEF PositionSet
<1> HIDE DEF d, t
<1>4. \A n \in Nat : /\ PositionSet(e.del)
                     /\ Unshift(e.del, n) = Unshift(b.del, n) + (IF d < n THEN 1 ELSE 0)
  <2> TAKE n \in Nat
  <2>1. PositionSet(b.del \ {d}) /\ CountIn(b.del \ {d}, 0, n) = CountIn(b.del, 0, n) - (IF d < n THEN 1 ELSE 0)
    BY <1>2, <1>3, CountRemoved
  <2>2. CountIn(b.del, 0, n) \in Nat
    BY <1>2, CountFacts
  <2> QED
    BY <1>1, <2>1, <2>2 DEF Unshift
<1>5. \A n \in Nat : /\ PositionSet(e.ins)
                     /\ Unshift(e.ins, n) = Unshift(b.ins, n) + (IF t < n THEN 1 ELSE 0)
  <2> TAKE n \in Nat
  <2>1. PositionSet(b.ins \ {t}) /\ CountIn(b.ins \ {t}, 0, n) = CountIn(b.ins, 0, n) - (IF t < n THEN 1 ELSE 0)
    BY <1>2, <1>3, CountRemoved
  <2>2. CountIn(b.ins, 0, n) \in Nat
    BY <1>2, CountFacts
  <2> QED
    BY <1>1, <2>1, <2>2 DEF Unshift
<1>6. Builder(e)
  BY <1>1, <1>4, <1>5, 0 \in Nat DEF Builder, Sets
<1>7. Unshift(b.del, d) \in Nat
  BY <1>2, <1>3, CountFacts
<1>8. Follows(e, d) = t
  <2>1. Unshift(e.ins, t) = Unshift(e.del, d)
    BY <1>3, <1>4, <1>5, <1>7
  <2>2. t \notin e.ins
    BY <1>1
  <2> QED
    BY <1>3, <1>6, <2>1, <2>2, FollowsIs DEF Builder
<1>9. ASSUME NEW o \in Nat \ b.del
      PROVE  Follows(e, o) = Follows(b, o)
  <2> DEFINE n == Follows(b, o)
  <2>1. n \in Nat /\ n \notin b.ins /\ Unshift(b.ins, n) = Unshift(b.del, o) /\ Unshift(b.del, o) \in Nat
    BY <1>2, FollowsFacts
  <2> HIDE DEF n
  <2>2. o < d <=> Unshift(b.del, o) < Unshift(b.del, d)
    BY <1>2, <1>3, <2>1, MissingFirst
  <2>3. n < t <=> Unshift(b.ins, n) < Unshift(b.ins, t)
    BY <1>2, <1>3, <2>1, MissingFirst
  <2>4. n # t /\ o # d
    BY <1>3, <2>1
  <2>5. Unshift(e.ins, n) = Unshift(e.del, o)
    BY <1>3, <1>4, <1>5, <2>1, <2>2, <2>3, <2>4
  <2>6. n \notin e.ins
    BY <1>1, <2>1
  <2>7. Follows(e, o) = n
    BY <1>6, <2>1, <2>5, <2>6, FollowsIs DEF Builder
  <2> QED
    BY <2>7 DEF n
<1> QED
  BY <1>1, <1>6, <1>8, <1>9 DEF d, t, TakenOff

(* merge (collection_change_builder.cpp:41-140): the deletions are the old ones and
   the entries the new change set deletes where the old one leads them; the other
   entries are where the new change set leads them from where the old one does. *)
THEOREM MergesFollow ==
    ASSUME NEW b, Builder(b), NEW c, Builder(c), NEW m, Sets(m),
           m.del = MergedDeletions(b, c), m.ins = MergedInsertions(b, c)
    PROVE  Merged(b, c, m)
<1>1. /\ Sets(b) /\ PositionSet(b.ins) /\ PositionSet(b.del)
      /\ Sets(c) /\ PositionSet(c.ins) /\ PositionSet(c.del)
  BY DEF Builder, Sets
<1> DEFINE V == c.del \ b.ins
           X == b.ins \ c.del
           DV == {CameFrom(b, v) : v \in V}
           IX == {Follows(c, x) : x \in X}
<1>2. m.del = b.del \cup DV
  BY DEF MergedDeletions, AddShiftedBy, CameFrom
<1>3. m.ins = IX \cup c.ins
  BY DEF MergedInsertions, InsertPositions, ShiftForInsertPositions, ErasePositions, Follows
<1>4. /\ PositionSet(V) /\ PositionSet(X)
      /\ \A v \in V : v \in Nat \ b.ins
      /\ \A x \in X : x \in Nat \ c.del
  BY <1>1, FS_Subset, V \in SUBSET c.del, X \in SUBSET b.ins DEF PositionSet
<1>5. \A v \in V : CameFrom(b, v) \in Nat \ b.del /\ Follows(b, CameFrom(b, v)) = v
  BY <1>1, <1>4, CameFromFacts
<1>6. \A o \in Nat \ b.del :
        /\ Follows(b, o) \in Nat /\ Follows(b, o) \notin b.ins /\ CameFrom(b, Follows(b, o)) = o
        /\ Unshift(b.ins, Follows(b, o)) = Unshift(b.del, o)
  BY <1>1, FollowsFacts
<1>7. m.del = b.del \cup {o \in Nat \ b.del : Follows(b, o) \in c.del}
  BY <1>2, <1>5, <1>6
<1>8. ASSUME NEW o \in Nat \ m.del
      PROVE  Follows(m, o) = Follows(c, Follows(b, o))
  <2> DEFINE p == Follows(b, o)
             n == Follows(c, p)
  <2>1. /\ o \in Nat /\ o \notin b.del /\ p \in Nat /\ p \notin b.ins /\ p \notin c.del
        /\ Unshift(b.ins, p) = Unshift(b.del, o)
    BY <1>6, <1>7
  <2>2. n \in Nat /\ n \notin c.ins /\ Unshift(c.ins, n) = Unshift(c.del, p)
    BY <1>1, <2>1, FollowsFacts
  <2>3. CountIn(DV, 0, o) = CountIn(V, 0, p) /\ PositionSet(DV)
    <3> DEFINE f == [v \in V |-> CameFrom(b, v)]
    <3>1. f \in [V -> Nat] /\ DV = {f[v] : v \in V}
      BY <1>5
    <3>2. \A v, w \in V : v < w => f[v] < f[w]
      BY <1>1, <1>5, FollowsOrder
    <3>3. \A v \in V : f[v] < o <=> v < p
      BY <1>1, <1>5, <2>1, FollowsOrder
    <3> HIDE DEF f, DV, V, p
    <3> QED
      BY <1>4, <2>1, <3>1, <3>2, <3>3, CountMapped, MappedPositions
  <2>4. CountIn(IX, 0, n) = CountIn(X, 0, p) /\ PositionSet(IX) /\ n \notin IX
    <3> DEFINE f == [x \in X |-> Follows(c, x)]
    <3>1. f \in [X -> Nat] /\ IX = {f[x] : x \in X}
      BY <1>1, <1>4, FollowsFacts
    <3>2. \A v, w \in X : v < w => f[v] < f[w]
      BY <1>1, <1>4, FollowsOrder
    <3>3. \A x \in X : f[x] < n <=> x < p
      BY <1>1, <1>4, <2>1, FollowsOrder
    <3>4. \A x \in X : f[x] > n <=> x > p
      BY <1>1, <1>4, <2>1, FollowsOrder
    <3>5. \A x \in X : x # p /\ x \in Nat
      BY <1>4, <2>1
    <3>6. n \notin IX
      <4> SUFFICES ASSUME NEW x \in X, f[x] = n
                   PROVE  FALSE
        BY <3>1
      <4>1. ~(f[x] < n) /\ ~(f[x] > n)
        BY <2>2
      <4>2. ~(x < p) /\ ~(x > p) /\ x # p /\ x \in Nat
        BY <3>3, <3>4, <3>5, <4>1
      <4> HIDE DEF p
      <4> QED
        BY <2>1, <4>2
    <3> HIDE DEF f, IX, X, p, n
    <3> QED
      BY <1>4, <2>1, <2>2, <3>1, <3>2, <3>3, <3>6, CountMapped, MappedPositions
  <2> HIDE DEF p, n, DV, IX
  <2>5. CountIn(m.del, 0, o) = CountIn(b.del, 0, o) + CountIn(V, 0, p)
    <3>1. b.del \cap DV = {}
      BY <1>5 DEF DV
    <3> HIDE DEF V
    <3>2. CountIn(b.del \cup DV, 0, o) = CountIn(b.del, 0, o) + CountIn(DV, 0, o)
      BY <1>1, <2>1, <2>3, <3>1, CountUnion
    <3> QED
      BY <1>2, <2>3, <3>2
  <2>6. CountIn(m.ins, 0, n) = CountIn(X, 0, p) + CountIn(c.ins, 0, n)
    <3>1. IX \cap c.ins = {}
      BY <1>1, <1>4, FollowsFacts DEF IX
    <3> HIDE DEF X
    <3>2. PositionSet(IX) /\ PositionSet(c.ins) /\ n \in Nat
      BY <1>1, <2>2, <2>4
    <3>3. CountIn(IX \cup c.ins, 0, n) = CountIn(IX, 0, n) + CountIn(c.ins, 0, n)
      BY <3>1, <3>2, CountUnion
    <3> QED
      BY <1>3, <2>4, <3>3
  <2>7. CountIn(b.ins, 0, p) + CountIn(V, 0, p) = CountIn(c.del, 0, p) + CountIn(X, 0, p)
    <3>1. b.ins \cap V = {} /\ c.del \cap X = {}
      OBVIOUS
    <3>5. b.ins \cup V = c.del \cup X
      OBVIOUS
    <3> HIDE DEF V, X
    <3>2. /\ PositionSet(b.ins) /\ PositionSet(V) /\ PositionSet(c.del) /\ PositionSet(X)
          /\ p \in Nat
      BY <1>1, <1>4, <2>1
    <3>3. CountIn(b.ins \cup V, 0, p) = CountIn(b.ins, 0, p) + CountIn(V, 0, p)
      BY <3>1, <3>2, CountUnion
    <3>4. CountIn(c.del \cup X, 0, p) = CountIn(c.del, 0, p) + CountIn(X, 0, p)
      BY <3>1, <3>2, CountUnion
    <3> QED
      BY <3>3, <3>4, <3>5
  <2>8. /\ CountIn(b.ins, 0, p) \in Nat /\ CountIn(V, 0, p) \in Nat
        /\ CountIn(c.del, 0, p) \in Nat /\ CountIn(X, 0, p) \in Nat
        /\ CountIn(b.del, 0, o) \in Nat /\ CountIn(c.ins, 0, n) \in Nat
    BY <1>1, <1>4, <2>1, <2>2, CountFacts
  <2>9. Unshift(m.ins, n) = Unshift(m.del, o)
    BY <2>1, <2>2, <2>5, <2>6, <2>7, <2>8 DEF Unshift
  <2>10. n \notin m.ins
    BY <1>3, <2>2, <2>4
  <2>11. Follows(m, o) = n
    BY <2>1, <2>2, <2>9, <2>10, FollowsIs
  <2> QED
    BY <2>11 DEF n, p
<1> QED
  BY <1>7, <1>8 DEF Merged

-----------------------------------------------------------------------------
(* The log of a table.  Rows do not shift: one that was not moved is where it
   was.  "old" rows were there at first, "size" are there now. *)
TableLog(b, old, size) ==
    /\ Builder(b) /\ b.ins \subseteq 0 .. size - 1
    /\ \A j \in 0 .. size - 1 : j \in b.ins <=> j \in b.del \/ j >= old
    /\ \A j \in size .. old - 1 : j \in b.del
    /\ DOMAIN b.map \subseteq b.ins
    /\ \A k \in DOMAIN b.map : b.map[k] \in 0 .. old - 1

\* The old position of the row at n, or none (-1).
Origin(b, n) == IF n \in DOMAIN b.map THEN b.map[n] ELSE IF n \in b.ins THEN -1 ELSE n

\* The last of the rows took the place of the one at row.
LastTookPlace(b, e, row, end) ==
    \A n \in 0 .. end - 1 : Origin(e, n) = Origin(b, IF n = row THEN end ELSE n)

\* The rows at x and y changed places.
ChangedPlaces(b, e, x, y, size) ==
    /\ Origin(e, x) = Origin(b, y) /\ Origin(e, y) = Origin(b, x)
    /\ \A n \in 0 .. size - 1 : n \notin {x, y} => Origin(e, n) = Origin(b, n)

LEMMA CountSame ==
    ASSUME NEW S, NEW R, NEW n \in Nat, \A j \in 0 .. n - 1 : j \in S <=> j \in R,
           PositionSet(S), PositionSet(R)
    PROVE  Unshift(S, n) = Unshift(R, n)
<1>1. \A x \in S \cup R : x \in Nat
  BY DEF PositionSet
<1>2. {x \in S : 0 <= x /\ x < n} = {x \in R : 0 <= x /\ x < n}
  BY <1>1
<1> QED
  BY <1>2 DEF Unshift, CountIn

LEMMA RowsStay ==
    ASSUME NEW b, NEW old \in Nat, NEW size \in Nat, TableLog(b, old, size),
           NEW n \in 0 .. size - 1, n \notin b.ins
    PROVE  /\ n \notin b.del /\ n < old
           /\ CameFrom(b, n) = n /\ Follows(b, n) = n
<1>1. /\ PositionSet(b.del) /\ PositionSet(b.ins)
      /\ n \in Nat /\ n \notin b.del /\ n < old
      /\ \A j \in 0 .. n - 1 : j \in b.del <=> j \in b.ins
  BY DEF TableLog, Builder, Sets
<1>2. Unshift(b.del, n) = Unshift(b.ins, n)
  BY <1>1, CountSame
<1> QED
  BY <1>1, <1>2, ShiftIs DEF CameFrom, Follows

(* insert_empty_rows (transact_log_handler.cpp:540-557): a row added at the end is
   new, the others come from where they came from. *)
THEOREM AddedRowsTraced ==
    ASSUME NEW b, NEW old \in Nat, NEW size \in Nat, TableLog(b, old, size),
           NEW e, e = ChangeInsert(b, size)
    PROVE  /\ TableLog(e, old, size + 1)
           /\ \A n \in 0 .. size : Origin(e, n) = IF n = size THEN -1 ELSE Origin(b, n)
<1>1. /\ e = [del |-> e.del, ins |-> e.ins, mod |-> e.mod, moves |-> e.moves, map |-> e.map]
      /\ e.del = b.del /\ e.ins = InsertPosition(b.ins, size)
      /\ e.map = [k \in {IF x >= size THEN x + 1 ELSE x : x \in DOMAIN b.map}
                    |-> b.map[IF k > size THEN k - 1 ELSE k]]
  BY DEF ChangeInsert, TableLog, Builder
<1>2. Builder(e)
  BY InsertsFollow DEF TableLog
<1>3. \A x \in b.ins : x \in 0 .. size - 1
  BY DEF TableLog
<1>4. e.ins = b.ins \cup {size}
  BY <1>1, <1>3 DEF InsertPosition, ShiftForInsertAt
<1>5. \A x \in DOMAIN b.map : x \in 0 .. size - 1
  BY <1>3 DEF TableLog
<1>6. {IF x >= size THEN x + 1 ELSE x : x \in DOMAIN b.map} = DOMAIN b.map
  BY <1>5
<1>7. /\ DOMAIN e.map = DOMAIN b.map
      /\ \A k \in DOMAIN b.map : e.map[k] = b.map[k]
  BY <1>1, <1>5, <1>6
<1>8. TableLog(e, old, size + 1)
  BY <1>1, <1>2, <1>3, <1>4, <1>7 DEF TableLog
<1> QED
  BY <1>3, <1>4, <1>5, <1>7, <1>8 DEF Origin

(* move_over (collection_change_builder.cpp:311-380): the last row takes the place
   of the one erased, whether either was moved before or is new, and the others
   stay. *)
THEOREM MovedOverRowsTraced ==
    ASSUME NEW b, NEW old \in Nat, NEW end \in Nat, TableLog(b, old, end + 1),
           NEW row \in 0 .. end, NEW e, e = ChangeMoveOver(b, row, end)
    PROVE  /\ TableLog(e, old, end)
           /\ LastTookPlace(b, e, row, end)
<1>1. /\ e = [del |-> e.del, ins |-> e.ins, mod |-> e.mod, moves |-> e.moves, map |-> e.map]
      /\ row = end => /\ e.del = Deleting(b, row) /\ e.ins = ErasePosition(b.ins, row)
                       /\ e.map = Drop(b.map, row)
  BY DEF ChangeMoveOver, TableLog, Builder
<1>2. /\ PositionSet(b.del) /\ PositionSet(b.ins)
      /\ \A j \in b.ins : j \in 0 .. end
      /\ \A j \in 0 .. end : j \in b.ins <=> j \in b.del \/ j >= old
      /\ \A j \in end + 1 .. old - 1 : j \in b.del
      /\ \A k \in DOMAIN b.map : k \in b.ins /\ b.map[k] \in 0 .. old - 1
  BY DEF TableLog, Builder, Sets
<1>3. CASE row = end
  <2>1. e.ins = b.ins \ {end}
    BY <1>1, <1>2, <1>3 DEF ErasePosition
  <2>2. e.del = IF end \in b.ins THEN b.del ELSE b.del \cup {end}
    <3>1. end \notin b.ins => CameFrom(b, end) = end
      BY RowsStay
    <3> QED
      BY <1>1, <1>3, <3>1 DEF Deleting, AddShifted, CameFrom
  <2>3. /\ DOMAIN e.map = DOMAIN b.map \ {end}
        /\ \A k \in DOMAIN b.map \ {end} : e.map[k] = b.map[k]
    <3>1. e.map = Drop(b.map, end)
      BY <1>1, <1>3
    <3> QED
      BY <3>1 DEF Drop, Restrict
  <2>4. PositionSet(e.ins) /\ PositionSet(e.del)
    BY <1>2, <2>1, <2>2, FS_RemoveElement, FS_AddElement DEF PositionSet
  <2>5. Builder(e)
    BY <1>1, <2>4 DEF Builder, Sets
  <2>6. TableLog(e, old, end)
    BY <1>2, <2>1, <2>2, <2>3, <2>5 DEF TableLog
  <2> QED
    BY <1>3, <2>1, <2>3, <2>6 DEF Origin, LastTookPlace
<1>4. CASE row # end
  <2> DEFINE del == IF end \in b.ins THEN b.del ELSE b.del \cup {end}
             ins == b.ins \ {end}
             again == end \in b.ins /\ end \in DOMAIN b.map
  <2>1. end \notin b.ins => Shift(b.del, Unshift(b.ins, end)) = end
    BY RowsStay DEF CameFrom
  <2>2. /\ e.ins = ins \cup {row}
        /\ e.del = IF row \in b.ins THEN del ELSE AddShifted(del, Unshift(ins, row))
        /\ e.map = CASE again -> Put(Drop(b.map, end), row, b.map[end])
                     [] end \notin b.ins -> Put(b.map, row, end)
                     [] OTHER -> Drop(b.map, row)
    BY <1>4, <2>1 DEF ChangeMoveOver, TableLog, Builder
  <2>3. PositionSet(ins) /\ PositionSet(del)
    BY <1>2, FS_RemoveElement, FS_AddElement DEF PositionSet
  <2>4. e.del = IF row \in b.ins THEN del ELSE del \cup {row}
    <3>1. ASSUME row \notin b.ins
          PROVE  Shift(del, Unshift(ins, row)) = row
      <4>1. row \in Nat /\ row \notin del /\ row < old /\ row < end
        BY <1>2, <1>4, <3>1
      <4>2. \A j \in 0 .. row - 1 : j \in del <=> j \in ins
        BY <1>2, <4>1
      <4> HIDE DEF del, ins
      <4>3. Unshift(del, row) = Unshift(ins, row)
        BY <2>3, <4>1, <4>2, CountSame
      <4> QED
        BY <2>3, <4>1, <4>3, ShiftIs
    <3> QED
      BY <2>2, <3>1 DEF AddShifted
  <2>5. PositionSet(e.ins) /\ PositionSet(e.del)
    <3> HIDE DEF del, ins
    <3>1. PositionSet(ins \cup {row}) /\ PositionSet(del \cup {row})
      BY <2>3, FS_AddElement DEF PositionSet
    <3> QED
      BY <2>2, <2>3, <2>4, <3>1
  <2>6. Builder(e)
    BY <1>1, <2>5 DEF Builder, Sets
  <2>7. /\ DOMAIN e.map \subseteq e.ins
        /\ row \in DOMAIN e.map <=> end \notin b.ins \/ end \in DOMAIN b.map
        /\ row \in DOMAIN e.map => e.map[row] = (IF end \in b.ins THEN b.map[end] ELSE end)
        /\ \A k \in 0 .. end - 1 : k # row => (k \in DOMAIN e.map <=> k \in DOMAIN b.map)
        /\ \A k \in DOMAIN e.map : k # row => k \in DOMAIN b.map /\ e.map[k] = b.map[k]
    <3>1. CASE again
      <4> DEFINE kept == Drop(b.map, end)
      <4>1. e.map = Put(kept, row, b.map[end])
        BY <2>2, <3>1
      <4>2. /\ DOMAIN kept = DOMAIN b.map \ {end}
            /\ \A x \in DOMAIN b.map \ {end} : kept[x] = b.map[x]
        BY DEF Drop, Restrict
      <4> HIDE DEF kept
      <4>3. /\ DOMAIN e.map = DOMAIN kept \cup {row} /\ e.map[row] = b.map[end]
            /\ \A x \in DOMAIN kept : x # row => e.map[x] = kept[x]
        BY <4>1 DEF Put
      <4> QED
        BY <1>2, <1>4, <2>2, <3>1, <4>2, <4>3
    <3>2. CASE end \notin b.ins
      <4>1. e.map = Put(b.map, row, end)
        BY <2>2, <3>2
      <4>2. /\ DOMAIN e.map = DOMAIN b.map \cup {row} /\ e.map[row] = end
            /\ \A x \in DOMAIN b.map : x # row => e.map[x] = b.map[x]
        BY <4>1 DEF Put
      <4> QED
        BY <1>2, <1>4, <2>2, <3>2, <4>2
    <3>3. CASE end \in b.ins /\ end \notin DOMAIN b.map
      <4>1. e.map = Drop(b.map, row)
        BY <2>2, <3>3
      <4>2. /\ DOMAIN e.map = DOMAIN b.map \ {row}
            /\ \A x \in DOMAIN b.map \ {row} : e.map[x] = b.map[x]
        BY <4>1 DEF Drop, Restrict
      <4> QED
        BY <1>2, <1>4, <2>2, <3>3, <4>2
    <3> QED
      BY <3>1, <3>2, <3>3
  <2>8. TableLog(e, old, end)
    <3>1. e.ins \subseteq 0 .. end - 1
      BY <1>2, <1>4, <2>2
    <3>2. \A j \in 0 .. end - 1 : j \in e.ins <=> j \in e.del \/ j >= old
      BY <1>2, <1>4, <2>2, <2>4
    <3>3. \A j \in end .. old - 1 : j \in e.del
      BY <1>2, <1>4, <2>2, <2>4
    <3>4. \A k \in DOMAIN e.map : e.map[k] \in 0 .. old - 1
      <4>1. end \notin b.ins => end < old
        BY <1>2
      <4> QED
        BY <1>2, <2>7, <4>1
    <3> QED
      BY <2>6, <2>7, <3>1, <3>2, <3>3, <3>4 DEF TableLog
  <2> QED
    BY <1>2, <1>4, <2>2, <2>7, <2>8 DEF Origin, LastTookPlace
<1> QED
  BY <1>3, <1>4

LEMMA RedirectedRows ==
    ASSUME NEW b, NEW old \in Nat, NEW size \in Nat, TableLog(b, old, size),
           NEW x \in 0 .. size - 1, NEW y \in 0 .. size - 1,
           y \in DOMAIN b.map, x \notin DOMAIN b.map, NEW e, e = Redirect(b, x, y)
    PROVE  /\ TableLog(e, old, size)
           /\ ChangedPlaces(b, e, x, y, size)
<1>1. /\ PositionSet(b.del) /\ PositionSet(b.ins)
      /\ \A j \in b.ins : j \in 0 .. size - 1
      /\ \A j \in 0 .. size - 1 : j \in b.ins <=> j \in b.del \/ j >= old
      /\ \A j \in size .. old - 1 : j \in b.del
      /\ \A k \in DOMAIN b.map : k \in b.ins /\ b.map[k] \in 0 .. old - 1
  BY DEF TableLog, Builder, Sets
<1>2. x \notin b.ins => Shift(b.del, Unshift(b.ins, x)) = x /\ x < old
  BY RowsStay DEF CameFrom
<1> DEFINE moved == Put(Drop(b.map, y), x, b.map[y])
<1>3. /\ e = [del |-> e.del, ins |-> e.ins, mod |-> e.mod, moves |-> e.moves, map |-> e.map]
      /\ e.del = IF x \in b.ins THEN b.del ELSE b.del \cup {x}
      /\ e.ins = IF x \in b.ins THEN b.ins ELSE b.ins \cup {x}
      /\ e.map = IF x \in b.ins THEN moved ELSE Put(moved, y, x)
  BY <1>2 DEF Redirect, TableLog, Builder
<1>4. /\ DOMAIN moved = (DOMAIN b.map \ {y}) \cup {x} /\ moved[x] = b.map[y]
      /\ \A k \in DOMAIN b.map : k # y => moved[k] = b.map[k]
  BY DEF Put, Drop, Restrict
<1> HIDE DEF moved
<1>5. /\ DOMAIN e.map = IF x \in b.ins THEN DOMAIN moved ELSE DOMAIN moved \cup {y}
      /\ x \notin b.ins => e.map[y] = x
      /\ \A k \in DOMAIN moved : k # y => e.map[k] = moved[k]
  <2>1. CASE x \in b.ins
    BY <1>3, <2>1
  <2>2. CASE x \notin b.ins
    <3>1. e.map = Put(moved, y, x)
      BY <1>3, <2>2
    <3> QED
      BY <2>2, <3>1 DEF Put
  <2> QED
    BY <2>1, <2>2
<1>6. PositionSet(e.del) /\ PositionSet(e.ins)
  <2>1. PositionSet(b.ins \cup {x}) /\ PositionSet(b.del \cup {x})
    BY <1>1, FS_AddElement DEF PositionSet
  <2> QED
    BY <1>1, <1>3, <2>1
<1>7. Builder(e)
  BY <1>3, <1>6 DEF Builder, Sets
<1>8. x # y /\ x \in e.ins /\ y \in e.ins
  BY <1>1, <1>3
<1>9. TableLog(e, old, size)
  <2>1. e.ins \subseteq 0 .. size - 1
    BY <1>1, <1>3
  <2>2. \A j \in 0 .. size - 1 : j \in e.ins <=> j \in e.del \/ j >= old
    BY <1>1, <1>3
  <2>3. \A j \in size .. old - 1 : j \in e.del
    BY <1>1, <1>3
  <2>4. DOMAIN e.map \subseteq e.ins
    BY <1>1, <1>3, <1>4, <1>5
  <2>5. \A k \in DOMAIN e.map : e.map[k] \in 0 .. old - 1
    BY <1>1, <1>2, <1>4, <1>5
  <2> QED
    BY <1>7, <2>1, <2>2, <2>3, <2>4, <2>5 DEF TableLog
<1> QED
  BY <1>1, <1>3, <1>4, <1>5, <1>8, <1>9 DEF Origin, ChangedPlaces

LEMMA SwappedOutRows ==
    ASSUME NEW b, NEW old \in Nat, NEW size \in Nat, TableLog(b, old, size),
           NEW x \in 0 .. size - 1, NEW y \in 0 .. size - 1, x # y,
           x \notin DOMAIN b.map, y \notin DOMAIN b.map,
           NEW e, e = SwapOut(SwapOut(b, y, x), x, y)
    PROVE  /\ TableLog(e, old, size)
           /\ ChangedPlaces(b, e, x, y, size)
<1>1. /\ PositionSet(b.del) /\ PositionSet(b.ins)
      /\ \A j \in b.ins : j \in 0 .. size - 1
      /\ \A j \in 0 .. size - 1 : j \in b.ins <=> j \in b.del \/ j >= old
      /\ \A j \in size .. old - 1 : j \in b.del
      /\ \A k \in DOMAIN b.map : k \in b.ins /\ b.map[k] \in 0 .. old - 1
  BY DEF TableLog, Builder, Sets
<1> DEFINE c == SwapOut(b, y, x)
           D == IF y \in b.ins THEN {} ELSE {y}
           C == IF x \in b.ins THEN {} ELSE {x}
<1>2. y \notin b.ins => Shift(b.del, Unshift(b.ins, y)) = y /\ y < old
  BY RowsStay DEF CameFrom
<1>3. /\ c = [del |-> c.del, ins |-> c.ins, mod |-> c.mod, moves |-> c.moves, map |-> c.map]
      /\ c.del = b.del \cup D /\ c.ins = b.ins \cup D
      /\ c.map = IF y \in b.ins THEN b.map ELSE Put(b.map, x, y)
  BY <1>2 DEF SwapOut, TableLog, Builder
<1>4. /\ DOMAIN c.map = DOMAIN b.map \cup (IF y \in b.ins THEN {} ELSE {x})
      /\ y \notin b.ins => c.map[x] = y
      /\ \A k \in DOMAIN b.map : c.map[k] = b.map[k]
  <2>1. CASE y \in b.ins
    BY <1>3, <2>1
  <2>2. CASE y \notin b.ins
    <3>1. c.map = Put(b.map, x, y)
      BY <1>3, <2>2
    <3> QED
      BY <2>2, <3>1 DEF Put
  <2> QED
    BY <2>1, <2>2
<1>5. e = SwapOut(c, x, y)
  OBVIOUS
<1> HIDE DEF c
<1>6. PositionSet(c.del) /\ PositionSet(c.ins)
  <2>1. PositionSet(b.ins \cup {y}) /\ PositionSet(b.del \cup {y})
    BY <1>1, FS_AddElement DEF PositionSet
  <2> QED
    BY <1>1, <1>3, <2>1
<1>7. x \in b.ins <=> x \in c.ins
  BY <1>3
<1>8. x \notin b.ins => Shift(c.del, Unshift(c.ins, x)) = x /\ x < old
  <2> SUFFICES ASSUME x \notin b.ins
               PROVE  Shift(c.del, Unshift(c.ins, x)) = x /\ x < old
    OBVIOUS
  <2>1. x < old /\ x \in Nat /\ x \notin c.del
    BY <1>1, <1>3
  <2>2. \A j \in 0 .. x - 1 : j \in c.del <=> j \in c.ins
    BY <1>1, <1>3, <2>1
  <2>3. Unshift(c.del, x) = Unshift(c.ins, x)
    BY <1>6, <2>1, <2>2, CountSame
  <2> QED
    BY <1>6, <2>1, <2>3, ShiftIs
<1>9. /\ e = [del |-> e.del, ins |-> e.ins, mod |-> e.mod, moves |-> e.moves, map |-> e.map]
      /\ e.del = c.del \cup C /\ e.ins = c.ins \cup C
      /\ e.map = IF x \in b.ins THEN c.map ELSE Put(c.map, y, x)
  <2>1. CASE x \in b.ins
    <3>1. e = c
      BY <1>5, <1>7, <2>1 DEF SwapOut
    <3> QED
      BY <1>3, <2>1, <3>1
  <2>2. CASE x \notin b.ins
    <3>1. e = [c EXCEPT !.map = Put(@, y, x), !.del = @ \cup {x}, !.ins = @ \cup {x}]
      BY <1>5, <1>7, <1>8, <2>2 DEF SwapOut
    <3> QED
      BY <1>3, <2>2, <3>1
  <2> QED
    BY <2>1, <2>2
<1>10. /\ DOMAIN e.map = DOMAIN c.map \cup (IF x \in b.ins THEN {} ELSE {y})
       /\ x \notin b.ins => e.map[y] = x
       /\ \A k \in DOMAIN c.map : k # y => e.map[k] = c.map[k]
  <2>1. CASE x \in b.ins
    BY <1>9, <2>1
  <2>2. CASE x \notin b.ins
    <3>1. e.map = Put(c.map, y, x)
      BY <1>9, <2>2
    <3> QED
      BY <2>2, <3>1 DEF Put
  <2> QED
    BY <2>1, <2>2
<1>11. PositionSet(e.del) /\ PositionSet(e.ins)
  <2>1. PositionSet(c.ins \cup {x}) /\ PositionSet(c.del \cup {x})
    BY <1>6, FS_AddElement DEF PositionSet
  <2> QED
    BY <1>6, <1>9, <2>1
<1>12. Builder(e)
  BY <1>9, <1>11 DEF Builder, Sets
<1>13. x \in e.ins /\ y \in e.ins
  BY <1>3, <1>9
<1>14. TableLog(e, old, size)
  <2>1. e.ins \subseteq 0 .. size - 1
    BY <1>1, <1>3, <1>9
  <2>2. \A j \in 0 .. size - 1 : j \in e.ins <=> j \in e.del \/ j >= old
    BY <1>1, <1>3, <1>9
  <2>3. \A j \in size .. old - 1 : j \in e.del
    BY <1>1, <1>3, <1>9
  <2>4. DOMAIN e.map \subseteq e.ins
    BY <1>1, <1>3, <1>4, <1>9, <1>10, <1>13
  <2>5. \A k \in DOMAIN e.map : e.map[k] \in 0 .. old - 1
    BY <1>1, <1>2, <1>4, <1>8, <1>10
  <2> QED
    BY <1>12, <2>1, <2>2, <2>3, <2>4, <2>5 DEF TableLog
<1> QED
  BY <1>1, <1>3, <1>4, <1>9, <1>10, <1>13, <1>14 DEF Origin, ChangedPlaces

(* swap (collection_change_builder.cpp:382-448): each of the rows comes from where
   the other one came from, whichever of them was moved before or is new. *)
THEOREM SwappedRowsTraced ==
    ASSUME NEW b, NEW old \in Nat, NEW size \in Nat, TableLog(b, old, size),
           NEW x \in 0 .. size - 1, NEW y \in 0 .. size - 1, x # y,
           NEW e, e = ChangeSwap(b, x, y)
    PROVE  /\ TableLog(e, old, size)
           /\ ChangedPlaces(b, e, x, y, size)
<1> DEFINE mods == (b.mod \ {x, y}) \cup (IF x \in b.mod THEN {y} ELSE {})
                                     \cup (IF y \in b.mod THEN {x} ELSE {})
           m == [b EXCEPT !.mod = mods]
<1>2. e = CASE {x, y} \subseteq DOMAIN b.map ->
                 [m EXCEPT !.map = [@ EXCEPT ![x] = b.map[y], ![y] = b.map[x]]]
            [] x \in DOMAIN b.map /\ y \notin DOMAIN b.map -> Redirect(m, y, x)
            [] y \in DOMAIN b.map /\ x \notin DOMAIN b.map -> Redirect(m, x, y)
            [] OTHER -> SwapOut(SwapOut(m, y, x), x, y)
  BY DEF ChangeSwap
<1> HIDE DEF mods
<1>1. /\ m = [del |-> m.del, ins |-> m.ins, mod |-> m.mod, moves |-> m.moves, map |-> m.map]
      /\ m.del = b.del /\ m.ins = b.ins /\ m.map = b.map
  BY DEF TableLog, Builder
<1> HIDE DEF m
<1>3. /\ TableLog(m, old, size)
      /\ \A n : Origin(m, n) = Origin(b, n)
      /\ \A k, l : ChangedPlaces(m, e, k, l, size)
                  => ChangedPlaces(b, e, k, l, size) /\ ChangedPlaces(b, e, l, k, size)
  <2>1. \A n : Origin(m, n) = Origin(b, n)
    BY <1>1 DEF Origin
  <2> QED
    BY <1>1, <2>1 DEF TableLog, Builder, Sets, ChangedPlaces
<1>4. CASE {x, y} \subseteq DOMAIN b.map
  <2>1. e = [m EXCEPT !.map = [@ EXCEPT ![x] = b.map[y], ![y] = b.map[x]]]
    BY <1>2, <1>4
  <2>2. /\ e = [del |-> e.del, ins |-> e.ins, mod |-> e.mod, moves |-> e.moves, map |-> e.map]
        /\ e.del = b.del /\ e.ins = b.ins
        /\ e.map = [b.map EXCEPT ![x] = b.map[y], ![y] = b.map[x]]
    BY <1>1, <2>1
  <2>3. /\ DOMAIN e.map = DOMAIN b.map /\ e.map[x] = b.map[y] /\ e.map[y] = b.map[x]
        /\ \A k \in DOMAIN b.map : k \notin {x, y} => e.map[k] = b.map[k]
    BY <1>4, <2>2
  <2>4. TableLog(e, old, size)
    BY <1>4, <2>2, <2>3 DEF TableLog, Builder, Sets
  <2> QED
    BY <1>4, <2>2, <2>3, <2>4 DEF Origin, ChangedPlaces
<1>5. CASE x \in DOMAIN b.map /\ y \notin DOMAIN b.map
  <2>1. e = Redirect(m, y, x) /\ x \in DOMAIN m.map /\ y \notin DOMAIN m.map
    BY <1>1, <1>2, <1>5
  <2> QED
    BY <1>3, <2>1, RedirectedRows
<1>6. CASE y \in DOMAIN b.map /\ x \notin DOMAIN b.map
  <2>1. e = Redirect(m, x, y) /\ y \in DOMAIN m.map /\ x \notin DOMAIN m.map
    BY <1>1, <1>2, <1>6
  <2> QED
    BY <1>3, <2>1, RedirectedRows
<1>7. CASE x \notin DOMAIN b.map /\ y \notin DOMAIN b.map
  <2>1. e = SwapOut(SwapOut(m, y, x), x, y) /\ y \notin DOMAIN m.map /\ x \notin DOMAIN m.map
    BY <1>1, <1>2, <1>7
  <2> QED
    BY <1>3, <2>1, SwappedOutRows DEF ChangedPlaces
<1> QED
  BY <1>4, <1>5, <1>6, <1>7

(* parse_complete (collection_change_builder.cpp:156-172): a row that is back where
   it was is no change any more; one that is reported neither deleted nor inserted
   is where it was. *)
THEOREM ParsedRowsTraced ==
    ASSUME NEW b, NEW old \in Nat, NEW size \in Nat, TableLog(b, old, size),
           NEW e, e = ParseComplete(b)
    PROVE  /\ Sets(e) /\ e.del \subseteq b.del
           /\ \A n \in 0 .. size - 1 : IF n \in e.ins THEN Origin(b, n) # n
                                       ELSE Origin(b, n) = n /\ n \notin e.del /\ Follows(e, n) = n
<1> DEFINE back == {k \in DOMAIN b.map : b.map[k] = k}
<1>1. e.del = b.del \ back /\ e.ins = b.ins \ back
  BY DEF ParseComplete, TableLog, Builder
<1>2. /\ PositionSet(b.del) /\ PositionSet(b.ins)
      /\ \A j \in b.ins : j \in 0 .. size - 1
      /\ \A j \in 0 .. size - 1 : j \in b.ins <=> j \in b.del \/ j >= old
      /\ \A k \in DOMAIN b.map : k \in b.ins /\ b.map[k] \in 0 .. old - 1
  BY DEF TableLog, Builder, Sets
<1>3. PositionSet(e.del) /\ PositionSet(e.ins)
  BY <1>1, <1>2, FS_Subset, b.del \ back \in SUBSET b.del, b.ins \ back \in SUBSET b.ins DEF PositionSet
<1>4. ASSUME NEW n \in 0 .. size - 1, n \notin e.ins
      PROVE  Origin(b, n) = n /\ n \notin e.del /\ Follows(e, n) = n
  <2>1. n \in Nat /\ n < old /\ n \notin e.del /\ Origin(b, n) = n
    BY <1>1, <1>2, <1>4 DEF Origin
  <2>2. \A j \in 0 .. n - 1 : j \in e.del <=> j \in e.ins
    BY <1>1, <1>2, <2>1
  <2>3. Unshift(e.del, n) = Unshift(e.ins, n)
    BY <1>3, <2>1, <2>2, CountSame
  <2> QED
    BY <1>3, <1>4, <2>1, <2>3, ShiftIs DEF Follows
<1>5. ASSUME NEW n \in 0 .. size - 1, n \in e.ins
      PROVE  Origin(b, n) # n
  BY <1>1, <1>5 DEF Origin
<1> QED
  BY <1>1, <1>3, <1>4, <1>5 DEF Sets

-----------------------------------------------------------------------------
(* Where every row of a table came from: r are its rows, l those it had when the
   log b began, and o changes may still follow. *)
Traced(r, l, b, o) ==
    /\ r \in Seq(Nat) /\ l \in Seq(Nat) /\ o \in 0 .. MaxOps
    /\ Len(r) <= Size + MaxOps - o /\ Len(l) <= Size + MaxOps - o
    /\ \A n \in 1 .. Len(r) : r[n] <= Size + MaxOps - o
    /\ \A n \in 1 .. Len(l) : l[n] <= Size + MaxOps - o
    /\ TableLog(b, Len(l), Len(r))
    /\ \A n \in 0 .. Len(r) - 1 :
         IF Origin(b, n) = -1 THEN \A m \in 1 .. Len(l) : l[m] # r[n + 1]
         ELSE Origin(b, n) \in 0 .. Len(l) - 1 /\ l[Origin(b, n) + 1] = r[n + 1]

RowsTraced == kind = "rows" => Traced(rows, last, tx, ops)

LEMMA NoChangeTraced ==
    ASSUME NEW r \in Seq(Nat), NEW o \in 0 .. MaxOps, MaxOps \in Nat, Size \in Nat,
           Len(r) <= Size + MaxOps - o, \A n \in 1 .. Len(r) : r[n] <= Size + MaxOps - o
    PROVE  Traced(r, r, NoChange, o)
<1>1. PositionSet({})
  BY FS_EmptySet DEF PositionSet
<1>2. DOMAIN << >> = {}
  OBVIOUS
<1>3. TableLog(NoChange, Len(r), Len(r))
  BY <1>1, <1>2 DEF TableLog, Builder, Sets, NoChange
<1>4. \A n \in 0 .. Len(r) - 1 : Origin(NoChange, n) = n /\ n # -1
  BY <1>2 DEF Origin, NoChange
<1> QED
  BY <1>3, <1>4 DEF Traced

\* Every row of s is one of r and comes from where that one came from, or is v,
\* which is new.
Carried(r, b, s, c, v) ==
    \A n \in 0 .. Len(s) - 1 :
        \/ s[n + 1] = v /\ Origin(c, n) = -1
        \/ \E m \in 0 .. Len(r) - 1 : s[n + 1] = r[m + 1] /\ Origin(c, n) = Origin(b, m)

LEMMA ChangeTraced ==
    ASSUME NEW r, NEW l, NEW b, NEW o, Traced(r, l, b, o), o > 0, MaxOps \in Nat, Size \in Nat,
           NEW s \in Seq(Nat), Len(s) <= Len(r) + 1, NEW c, TableLog(c, Len(l), Len(s)),
           NEW v, v = 1 + Size + MaxOps - o, Carried(r, b, s, c, v)
    PROVE  Traced(s, l, c, o - 1)
<1>1. /\ r \in Seq(Nat) /\ l \in Seq(Nat) /\ o \in 0 .. MaxOps
      /\ Len(r) <= Size + MaxOps - o /\ Len(l) <= Size + MaxOps - o
      /\ \A n \in 1 .. Len(r) : r[n] <= Size + MaxOps - o /\ r[n] \in Nat
      /\ \A n \in 1 .. Len(l) : l[n] <= Size + MaxOps - o /\ l[n] \in Nat
      /\ Len(r) \in Nat /\ Len(l) \in Nat /\ Len(s) \in Nat
  <2>1. /\ r \in Seq(Nat) /\ l \in Seq(Nat) /\ o \in 0 .. MaxOps
        /\ Len(r) <= Size + MaxOps - o /\ Len(l) <= Size + MaxOps - o
        /\ \A n \in 1 .. Len(r) : r[n] <= Size + MaxOps - o
        /\ \A n \in 1 .. Len(l) : l[n] <= Size + MaxOps - o
    BY Zenon DEF Traced
  <2>2. \A q \in Seq(Nat) : Len(q) \in Nat /\ \A n \in 1 .. Len(q) : q[n] \in Nat
    OBVIOUS
  <2> QED
    BY <2>1, <2>2
<1>2. \A n \in 0 .. Len(r) - 1 :
         IF Origin(b, n) = -1 THEN \A m \in 1 .. Len(l) : l[m] # r[n + 1]
         ELSE Origin(b, n) \in 0 .. Len(l) - 1 /\ l[Origin(b, n) + 1] = r[n + 1]
  BY DEF Traced
<1>3. o - 1 \in 0 .. MaxOps /\ Size + MaxOps - (o - 1) = v
  BY <1>1
<1>4. \A n \in 1 .. Len(s) : s[n] <= v
  <2> TAKE n \in 1 .. Len(s)
  <2>1. n - 1 \in 0 .. Len(s) - 1 /\ (n - 1) + 1 = n
    BY <1>1
  <2>2. \/ s[n] = v
        \/ \E m \in 0 .. Len(r) - 1 : s[n] = r[m + 1]
    BY <2>1 DEF Carried
  <2>3. ASSUME NEW m \in 0 .. Len(r) - 1, s[n] = r[m + 1]
        PROVE  s[n] <= v
    <3>1. m + 1 \in 1 .. Len(r)
      BY <1>1
    <3>2. r[m + 1] <= Size + MaxOps - o /\ r[m + 1] \in Nat
      BY <1>1, <3>1
    <3>3. r[m + 1] <= v
      <4> DEFINE top == Size + MaxOps - o
      <4>1. top \in Int /\ v = top + 1
        BY <1>1
      <4>2. r[m + 1] <= top /\ r[m + 1] \in Int
        BY <3>2
      <4>3. \A a, d \in Int : a <= d => a <= d + 1
        OBVIOUS
      <4> HIDE DEF top
      <4> QED
        BY <4>1, <4>2, <4>3
    <3> QED
      BY <2>3, <3>3
  <2>4. v <= v
    BY <1>1
  <2> QED
    BY <2>2, <2>3, <2>4
<1>5. ASSUME NEW n \in 0 .. Len(s) - 1
      PROVE  IF Origin(c, n) = -1 THEN \A m \in 1 .. Len(l) : l[m] # s[n + 1]
             ELSE Origin(c, n) \in 0 .. Len(l) - 1 /\ l[Origin(c, n) + 1] = s[n + 1]
  <2>1. CASE s[n + 1] = v /\ Origin(c, n) = -1
    BY <1>1, <2>1
  <2>2. ASSUME NEW m \in 0 .. Len(r) - 1, s[n + 1] = r[m + 1], Origin(c, n) = Origin(b, m)
        PROVE  IF Origin(c, n) = -1 THEN \A k \in 1 .. Len(l) : l[k] # s[n + 1]
               ELSE Origin(c, n) \in 0 .. Len(l) - 1 /\ l[Origin(c, n) + 1] = s[n + 1]
    <3>1. IF Origin(b, m) = -1 THEN \A k \in 1 .. Len(l) : l[k] # r[m + 1]
          ELSE Origin(b, m) \in 0 .. Len(l) - 1 /\ l[Origin(b, m) + 1] = r[m + 1]
      BY <1>2
    <3> QED
      BY <2>2, <3>1
  <2> QED
    BY <2>1, <2>2 DEF Carried
<1>6. Len(s) <= Size + MaxOps - (o - 1) /\ Len(l) <= Size + MaxOps - (o - 1)
  BY <1>1
<1>7. \A n \in 1 .. Len(l) : l[n] <= Size + MaxOps - (o - 1)
  <2> DEFINE top == Size + MaxOps - o
  <2>1. top \in Int /\ Size + MaxOps - (o - 1) = top + 1
    BY <1>1
  <2>2. \A n \in 1 .. Len(l) : l[n] \in Int /\ l[n] <= top
    BY <1>1
  <2>3. \A a, d \in Int : a <= d => a <= d + 1
    OBVIOUS
  <2> HIDE DEF top
  <2> QED
    BY <2>1, <2>2, <2>3
<1> QED
  BY <1>1, <1>3, <1>4, <1>5, <1>6, <1>7 DEF Traced

\* The rows after one is erased, and after two are swapped.
WithoutRow(r, i) == Front([r EXCEPT ![i + 1] = Last(r)])
Exchanged(r, x, y) == [r EXCEPT ![x] = r[y], ![y] = r[x]]

LEMMA ExchangedRows ==
    ASSUME NEW r \in Seq(Nat), NEW x \in 1 .. Len(r), NEW y \in 1 .. Len(r), x # y
    PROVE  /\ Exchanged(r, x, y) \in Seq(Nat) /\ Len(Exchanged(r, x, y)) = Len(r)
           /\ Exchanged(r, x, y)[x] = r[y] /\ Exchanged(r, x, y)[y] = r[x]
           /\ \A n \in 1 .. Len(r) : n # x /\ n # y => Exchanged(r, x, y)[n] = r[n]
BY DEF Exchanged

LEMMA AddRowTraced ==
    ASSUME NEW r, NEW l, NEW b, NEW o, Traced(r, l, b, o), o > 0, MaxOps \in Nat, Size \in Nat,
           NEW v, v = 1 + Size + MaxOps - o,
           NEW s, s = Append(r, v), NEW c, c = ChangeInsert(b, Len(r))
    PROVE  Traced(s, l, c, o - 1)
<1> DEFINE old == Len(l)
           size == Len(r)
<1>1. /\ r \in Seq(Nat) /\ size \in Nat /\ old \in Nat /\ TableLog(b, old, size) /\ v \in Nat
  BY DEF Traced
<1>2. /\ s \in Seq(Nat) /\ Len(s) = size + 1 /\ s[size + 1] = v
      /\ \A n \in 1 .. size : s[n] = r[n]
  BY <1>1
<1>3. c = ChangeInsert(b, size)
  OBVIOUS
<1> HIDE DEF old, size
<1>4. /\ TableLog(c, old, size + 1)
      /\ \A n \in 0 .. size : Origin(c, n) = IF n = size THEN -1 ELSE Origin(b, n)
  BY <1>1, <1>3, AddedRowsTraced
<1>5. Carried(r, b, s, c, v)
  <2> SUFFICES ASSUME NEW n \in 0 .. Len(s) - 1
               PROVE  \/ s[n + 1] = v /\ Origin(c, n) = -1
                      \/ \E m \in 0 .. size - 1 : s[n + 1] = r[m + 1] /\ Origin(c, n) = Origin(b, m)
    BY DEF Carried, size
  <2>1. CASE n = size
    BY <1>1, <1>2, <1>4, <2>1
  <2>2. CASE n # size
    <3>1. n \in 0 .. size - 1 /\ n + 1 \in 1 .. size /\ n \in 0 .. size
      BY <1>1, <1>2, <2>2
    <3>2. s[n + 1] = r[n + 1] /\ Origin(c, n) = Origin(b, n)
      BY <1>2, <1>4, <2>2, <3>1
    <3> QED
      BY <3>1, <3>2
  <2> QED
    BY <2>1, <2>2
<1>6. Len(s) <= Len(r) + 1 /\ TableLog(c, Len(l), Len(s))
  BY <1>1, <1>2, <1>4 DEF old, size
<1> QED
  BY <1>2, <1>5, <1>6, ChangeTraced

LEMMA DeleteRowTraced ==
    ASSUME NEW r, NEW l, NEW b, NEW o, Traced(r, l, b, o), o > 0, MaxOps \in Nat, Size \in Nat,
           NEW i \in 0 .. Len(r) - 1, NEW s, s = WithoutRow(r, i),
           NEW c, c = ChangeMoveOver(b, i, Len(r) - 1)
    PROVE  Traced(s, l, c, o - 1)
<1> DEFINE old == Len(l)
           size == Len(r)
           end == size - 1
           v == 1 + Size + MaxOps - o
<1>1. r \in Seq(Nat) /\ size \in Nat /\ old \in Nat /\ TableLog(b, old, size)
  BY DEF Traced
<1>2. /\ end \in Nat /\ end + 1 = size /\ i \in 0 .. end /\ i + 1 \in 1 .. size
      /\ c = ChangeMoveOver(b, i, end)
  BY <1>1
<1>3. /\ s \in Seq(Nat) /\ Len(s) = end
      /\ \A n \in 1 .. end : s[n] = r[IF n = i + 1 THEN size ELSE n]
  <2> DEFINE moved == [r EXCEPT ![i + 1] = r[size]]
  <2>1. /\ moved \in Seq(Nat) /\ Len(moved) = size
        /\ \A n \in 1 .. size : moved[n] = r[IF n = i + 1 THEN size ELSE n]
    BY <1>1, <1>2
  <2>2. s = SubSeq(moved, 1, end)
    BY <2>1 DEF Front, Last, WithoutRow
  <2> HIDE DEF moved, size, end
  <2>3. end \in 0 .. size /\ 1 \in 1 .. size + 1
    BY <1>1, <1>2
  <2>4. /\ s \in Seq(Nat) /\ Len(s) = end
        /\ \A n \in 1 .. end : s[n] = moved[n] /\ n \in 1 .. size
    <3>1. \A n \in 1 .. end : moved[n] \in Nat /\ n \in 1 .. size
      BY <1>1, <1>2, <2>1, <2>3
    <3>2. end \in Int /\ 1 \in Int /\ end - 1 + 1 = end /\ (end < 1 => end = 0)
      BY <1>2
    <3>3. /\ SubSeq(moved, 1, end) \in Seq(Nat)
          /\ Len(SubSeq(moved, 1, end)) = IF 1 <= end THEN end - 1 + 1 ELSE 0
          /\ \A n \in 1 .. end - 1 + 1 : SubSeq(moved, 1, end)[n] = moved[1 + n - 1]
      BY <3>1, <3>2, SubSeqProperties
    <3>4. \A n \in 1 .. end : 1 + n - 1 = n /\ n \in 1 .. end - 1 + 1
      BY <1>2
    <3>5. Len(s) = end
      BY <2>2, <3>2, <3>3, <1>2
    <3>6. \A n \in 1 .. end : s[n] = moved[n]
      BY <2>2, <3>3, <3>4
    <3> QED
      BY <2>2, <3>1, <3>3, <3>5, <3>6
  <2> QED
    BY <2>1, <2>4
<1> HIDE DEF old, size, end
<1>4. TableLog(c, old, end) /\ LastTookPlace(b, c, i, end)
  <2>1. TableLog(b, old, end + 1)
    BY <1>1, <1>2
  <2>2. old \in Nat /\ end \in Nat /\ i \in 0 .. end /\ c = ChangeMoveOver(b, i, end)
    BY <1>1, <1>2
  <2> QED
    BY <2>1, <2>2, MovedOverRowsTraced
<1>5. Carried(r, b, s, c, v)
  <2> SUFFICES ASSUME NEW n \in 0 .. Len(s) - 1
               PROVE  \E m \in 0 .. size - 1 : s[n + 1] = r[m + 1] /\ Origin(c, n) = Origin(b, m)
    BY DEF Carried, size
  <2>1. n \in 0 .. end - 1 /\ n + 1 \in 1 .. end
    <3>1. n \in 0 .. end - 1
      BY <1>3
    <3>2. n \in Int /\ end \in Int /\ 0 <= n /\ n <= end - 1
      BY <1>2, <3>1
    <3> QED
      BY <3>2
  <2>2. CASE n = i
    <3>1. Origin(c, n) = Origin(b, end) /\ end \in 0 .. size - 1
      BY <1>1, <1>2, <1>4, <2>1, <2>2 DEF LastTookPlace
    <3>2. s[n + 1] = r[end + 1]
      BY <1>2, <1>3, <2>1, <2>2
    <3> QED
      BY <3>1, <3>2
  <2>3. CASE n # i
    <3>1. n + 1 # i + 1 /\ n \in 0 .. size - 1
      BY <1>1, <1>2, <2>1, <2>3
    <3>2. s[n + 1] = r[n + 1] /\ Origin(c, n) = Origin(b, n)
      BY <1>3, <1>4, <2>1, <2>3, <3>1 DEF LastTookPlace
    <3> QED
      BY <3>1, <3>2
  <2> QED
    BY <2>2, <2>3
<1>6. Len(s) <= Len(r) + 1 /\ TableLog(c, Len(l), Len(s))
  BY <1>1, <1>2, <1>3, <1>4 DEF old, size
<1> HIDE DEF v
<1>7. v = 1 + Size + MaxOps - o
  BY DEF v
<1> QED
  BY <1>3, <1>5, <1>6, <1>7, ChangeTraced

LEMMA SwapRowsTraced ==
    ASSUME NEW r, NEW l, NEW b, NEW o, Traced(r, l, b, o), o > 0, MaxOps \in Nat, Size \in Nat,
           NEW i \in 0 .. Len(r) - 1, NEW j \in 0 .. Len(r) - 1, i # j,
           NEW s, s = Exchanged(r, i + 1, j + 1),
           NEW c, c = ChangeSwap(b, i, j)
    PROVE  Traced(s, l, c, o - 1)
<1> DEFINE old == Len(l)
           size == Len(r)
           v == 1 + Size + MaxOps - o
<1>1. r \in Seq(Nat) /\ size \in Nat /\ old \in Nat /\ TableLog(b, old, size)
  BY DEF Traced
<1>2. /\ i \in 0 .. size - 1 /\ j \in 0 .. size - 1
      /\ i + 1 \in 1 .. size /\ j + 1 \in 1 .. size /\ i + 1 # j + 1
  BY <1>1
<1>3. /\ s \in Seq(Nat) /\ Len(s) = size
      /\ s[i + 1] = r[j + 1] /\ s[j + 1] = r[i + 1]
      /\ \A n \in 1 .. size : n # i + 1 /\ n # j + 1 => s[n] = r[n]
  <2>1. \A x, y \in 1 .. Len(r) : x # y =>
           /\ Exchanged(r, x, y) \in Seq(Nat) /\ Len(Exchanged(r, x, y)) = Len(r)
           /\ Exchanged(r, x, y)[x] = r[y] /\ Exchanged(r, x, y)[y] = r[x]
           /\ \A n \in 1 .. Len(r) : n # x /\ n # y => Exchanged(r, x, y)[n] = r[n]
    BY <1>1, ExchangedRows
  <2> QED
    BY <1>2, <2>1
<1> HIDE DEF old, size
<1>4. /\ TableLog(c, old, size)
      /\ ChangedPlaces(b, c, i, j, size)
  <2>1. /\ old \in Nat /\ size \in Nat /\ TableLog(b, old, size)
        /\ i \in 0 .. size - 1 /\ j \in 0 .. size - 1
    BY <1>1, <1>2
  <2> QED
    BY <2>1, SwappedRowsTraced
<1>5. Carried(r, b, s, c, v)
  <2> SUFFICES ASSUME NEW n \in 0 .. Len(s) - 1
               PROVE  \E m \in 0 .. size - 1 : s[n + 1] = r[m + 1] /\ Origin(c, n) = Origin(b, m)
    BY DEF Carried, size
  <2>1. n \in 0 .. size - 1 /\ n + 1 \in 1 .. size
    <3>1. n \in 0 .. size - 1
      BY <1>3
    <3>2. n \in Int /\ size \in Int /\ 0 <= n /\ n <= size - 1
      BY <1>1, <3>1
    <3> QED
      BY <3>2
  <2>2. CASE n = i
    BY <1>2, <1>3, <1>4, <2>2 DEF ChangedPlaces
  <2>3. CASE n = j
    BY <1>2, <1>3, <1>4, <2>3 DEF ChangedPlaces
  <2>4. CASE n # i /\ n # j
    <3>1. n + 1 # i + 1 /\ n + 1 # j + 1
      BY <2>1, <2>4
    <3>2. s[n + 1] = r[n + 1] /\ Origin(c, n) = Origin(b, n)
      BY <1>3, <1>4, <2>1, <2>4, <3>1 DEF ChangedPlaces
    <3> QED
      BY <2>1, <3>2
  <2> QED
    BY <2>2, <2>3, <2>4
<1>6. Len(s) <= Len(r) + 1 /\ TableLog(c, Len(l), Len(s))
  BY <1>1, <1>3, <1>4 DEF old, size
<1> HIDE DEF v
<1>7. v = 1 + Size + MaxOps - o
  BY DEF v
<1> QED
  BY <1>3, <1>5, <1>6, <1>7, ChangeTraced

LEMMA ModifyRowTraced ==
    ASSUME NEW r, NEW l, NEW b, NEW o, Traced(r, l, b, o), o > 0, MaxOps \in Nat, Size \in Nat,
           NEW i, NEW c, c = ChangeModify(b, i)
    PROVE  Traced(r, l, c, o - 1)
<1> DEFINE v == 1 + Size + MaxOps - o
<1>1. r \in Seq(Nat) /\ Len(r) \in Nat /\ TableLog(b, Len(l), Len(r))
  BY DEF Traced
<1>2. c = [del |-> b.del, ins |-> b.ins, mod |-> c.mod, moves |-> b.moves, map |-> b.map]
  BY <1>1 DEF ChangeModify, TableLog, Builder
<1>3. TableLog(c, Len(l), Len(r)) /\ \A n : Origin(c, n) = Origin(b, n)
  BY <1>1, <1>2 DEF TableLog, Builder, Sets, Origin
<1>4. Carried(r, b, r, c, v)
  BY <1>3 DEF Carried
<1> HIDE DEF v
<1>5. v = 1 + Size + MaxOps - o
  BY DEF v
<1>6. Len(r) <= Len(r) + 1
  BY <1>1
<1> QED
  BY <1>1, <1>3, <1>4, <1>5, <1>6, ChangeTraced

LEMMA ClearTraced ==
    ASSUME NEW r, NEW l, NEW b, NEW o, Traced(r, l, b, o), o > 0, MaxOps \in Nat, Size \in Nat,
           NEW s, s = << >>, NEW c, c = [NoChange EXCEPT !.del = 0 .. Far]
    PROVE  Traced(s, l, c, o - 1)
<1> DEFINE v == 1 + Size + MaxOps - o
<1>1. r \in Seq(Nat) /\ Len(r) \in Nat /\ l \in Seq(Nat) /\ Len(l) \in Nat /\ Len(l) - 1 <= Far
      /\ Far \in Nat
  BY DEF Traced, Far
<1>2. s \in Seq(Nat) /\ Len(s) = 0 /\ DOMAIN s = {}
  OBVIOUS
<1>3. PositionSet({}) /\ PositionSet(0 .. Far)
  <2>1. ASSUME NEW f \in Nat
        PROVE  IsFiniteSet(0 .. f) /\ 0 .. f \subseteq Nat
    <3>1. 0 \in Int /\ f \in Int
      OBVIOUS
    <3>2. IsFiniteSet(0 .. f)
      BY <3>1, FS_Interval
    <3> QED
      BY <3>2
  <2>2. PositionSet(0 .. Far)
    BY <1>1, <2>1 DEF PositionSet
  <2> QED
    BY <2>2, FS_EmptySet DEF PositionSet
<1>4. /\ c = [del |-> c.del, ins |-> c.ins, mod |-> c.mod, moves |-> c.moves, map |-> c.map]
      /\ c.del = 0 .. Far /\ c.ins = {} /\ c.mod = {} /\ c.moves = << >> /\ c.map = << >>
  BY DEF NoChange
<1>5. TableLog(c, Len(l), 0)
  <2>1. DOMAIN << >> = {}
    OBVIOUS
  <2>2. Builder(c) /\ c.ins = {} /\ c.del = 0 .. Far /\ DOMAIN c.map = {}
    BY <1>3, <1>4, <2>1 DEF Builder, Sets
  <2>3. \A j \in 0 .. Len(l) - 1 : j \in c.del
    BY <1>1, <2>2
  <2> QED
    BY <2>2, <2>3 DEF TableLog
<1>6. Carried(r, b, s, c, v)
  BY <1>2 DEF Carried
<1> HIDE DEF v
<1>7. v = 1 + Size + MaxOps - o
  BY DEF v
<1>8. Len(s) <= Len(r) + 1 /\ TableLog(c, Len(l), Len(s))
  BY <1>1, <1>2, <1>5
<1> QED
  BY <1>2, <1>6, <1>7, <1>8, ChangeTraced

(* The log of a table (TransactLogObserver, transact_log_handler.cpp:540-646) tells
   of every row where it was when the log began, and that it is new if it was not
   there, whatever rows were added, erased, swapped, modified and cleared. *)
THEOREM TableRowsTraced == Spec => []RowsTraced
<1>0. Size \in Nat /\ MaxOps \in Nat
  BY CollectionChangesAssumption
<1>1. Init => RowsTraced
  <2> SUFFICES ASSUME Init, kind = "rows"
               PROVE  Traced(rows, last, tx, ops)
    BY DEF RowsTraced
  <2>1. rows = [i \in 1 .. Size |-> i] /\ tx = NoChange /\ ops = MaxOps /\ last = rows
    BY DEF Init, Collection
  <2>2. rows \in Seq(Nat) /\ Len(rows) = Size /\ \A n \in 1 .. Size : rows[n] <= Size
    BY <1>0, <2>1
  <2>3. Traced(rows, rows, NoChange, MaxOps)
    BY <1>0, <2>2, NoChangeTraced
  <2> QED
    BY <2>1, <2>3
<1>2. RowsTraced /\ [Next]_vars => RowsTraced'
  <2> SUFFICES ASSUME RowsTraced, [Next]_vars, kind' = "rows"
               PROVE  Traced(rows', last', tx', ops')
    BY DEF RowsTraced
  <2>1. kind = "rows"
    BY DEF Next, vars, observed, InsertEntry, EraseEntry, SetEntry, DeleteRow, ModifyRow,
           MoveEntry, SwapEntries, SwapRows, AddRow, Clear, Run
  <2>2. Traced(rows, last, tx, ops)
    BY <2>1 DEF RowsTraced
  <2>3. CASE AddRow
    <3>1. /\ rows' = Append(rows, 1 + Size + MaxOps - ops) /\ tx' = ChangeInsert(tx, Len(rows))
          /\ ops' = ops - 1 /\ ops > 0 /\ last' = last
      BY <2>3 DEF AddRow, IsTable, observed, Fresh
    <3> QED
      BY <1>0, <2>2, <3>1, AddRowTraced
  <2>4. ASSUME NEW i \in Positions(rows), DeleteRow(i)
        PROVE  Traced(rows', last', tx', ops')
    <3>1. /\ rows' = WithoutRow(rows, i)
          /\ tx' = ChangeMoveOver(tx, i, Len(rows) - 1)
          /\ ops' = ops - 1 /\ ops > 0 /\ last' = last /\ i \in 0 .. Len(rows) - 1
      BY <2>4 DEF DeleteRow, IsTable, observed, Positions, WithoutRow
    <3> QED
      BY <1>0, <2>2, <3>1, DeleteRowTraced
  <2>5. ASSUME NEW i \in Positions(rows), NEW j \in Positions(rows), SwapRows(i, j)
        PROVE  Traced(rows', last', tx', ops')
    <3>1. /\ rows' = Exchanged(rows, i + 1, j + 1)
          /\ tx' = ChangeSwap(tx, i, j) /\ i < j
          /\ ops' = ops - 1 /\ ops > 0 /\ last' = last
      BY <2>5 DEF SwapRows, IsTable, observed, At, Exchanged
    <3>2. i \in 0 .. Len(rows) - 1 /\ j \in 0 .. Len(rows) - 1 /\ i # j
      BY <2>2, <3>1 DEF Positions, Traced
    <3> QED
      BY <1>0, <2>2, <3>1, <3>2, SwapRowsTraced
  <2>6. ASSUME NEW i \in Positions(rows), ModifyRow(i)
        PROVE  Traced(rows', last', tx', ops')
    <3>1. /\ rows' = rows /\ tx' = ChangeModify(tx, i)
          /\ ops' = ops - 1 /\ ops > 0 /\ last' = last
      BY <2>6 DEF ModifyRow, IsTable, observed
    <3> QED
      BY <1>0, <2>2, <3>1, ModifyRowTraced
  <2>7. CASE Clear
    <3>1. /\ rows' = << >> /\ tx' = [NoChange EXCEPT !.del = 0 .. Far]
          /\ ops' = ops - 1 /\ ops > 0 /\ last' = last
      BY <2>1, <2>7 DEF Clear, observed
    <3> QED
      BY <1>0, <2>2, <3>1, ClearTraced
  <2>8. CASE Run
    <3>1. rows' = rows /\ tx' = NoChange /\ last' = rows /\ ops' = ops
      BY <2>1, <2>8 DEF Run, Collection
    <3>2. Traced(rows, rows, NoChange, ops)
      BY <1>0, <2>2, NoChangeTraced DEF Traced
    <3> QED
      BY <3>1, <3>2
  <2>9. CASE UNCHANGED vars
    BY <2>2, <2>9 DEF vars
  <2>10. \A i, j : ~(InsertEntry(i) \/ EraseEntry(i) \/ SetEntry(i)
                     \/ MoveEntry(i, j) \/ SwapEntries(i, j))
    BY <2>1 DEF InsertEntry, EraseEntry, SetEntry, MoveEntry, SwapEntries
  <2> QED
    BY <2>3, <2>4, <2>5, <2>6, <2>7, <2>8, <2>9, <2>10 DEF Next
<1> QED
  BY <1>1, <1>2, PTL DEF Spec

-----------------------------------------------------------------------------
(* Positions in order, and what is left of a sequence. *)

\* The members in order: each of them is there, and they go up.
Ordered(S, k) ==
    /\ DOMAIN k = 1 .. Cardinality(S) /\ Cardinality(S) \in Nat
    /\ \A i \in 1 .. Cardinality(S) : k[i] \in S /\ Cardinality({x \in S : x < k[i]}) = i - 1
    /\ \A x \in S : \E i \in 1 .. Cardinality(S) : k[i] = x
    /\ \A i, j \in 1 .. Cardinality(S) : i < j => k[i] < k[j]

LEMMA InOrderFacts ==
    ASSUME NEW S, PositionSet(S)
    PROVE  Ordered(S, InOrder(S))
<1> DEFINE below(i) == {x \in S : x < i}
           place(i) == Cardinality(below(i))
           c == Cardinality(S)
           k == InOrder(S)
<1>0. IsFiniteSet(S) /\ (\A x \in S : x \in Nat) /\ c \in Nat
  BY FS_CardinalityType DEF PositionSet
<1>1. \A i \in S : place(i) = CountIn(S, 0, i)
  <2> TAKE i \in S
  <2>1. below(i) = {x \in S : 0 <= x /\ x < i}
    BY <1>0
  <2> QED
    BY <2>1 DEF CountIn
<1>2. \A i \in S : place(i) \in 0 .. c - 1
  <2> TAKE i \in S
  <2>1. i \in Nat /\ i + 1 \in Nat
    BY <1>0
  <2>2. CountIn(S, 0, i + 1) = CountIn(S, 0, i) + 1
    BY <2>1, CountNext
  <2>3. CountIn(S, 0, i + 1) <= c /\ CountIn(S, 0, i) \in Nat
    BY <2>1, CountFacts
  <2> HIDE DEF place
  <2> QED
    BY <1>0, <1>1, <2>2, <2>3
<1>3. \A i, j \in S : i < j => place(i) < place(j)
  <2> SUFFICES ASSUME NEW i \in S, NEW j \in S, i < j
               PROVE  place(i) < place(j)
    OBVIOUS
  <2>1. i \in Nat /\ i + 1 \in Nat /\ j \in Nat
    BY <1>0
  <2>2. CountIn(S, 0, i + 1) = CountIn(S, 0, i) + 1 /\ CountIn(S, 0, i) \in Nat
        /\ CountIn(S, 0, j) \in Nat /\ CountIn(S, 0, i + 1) \in Nat
    BY <2>1, CountNext, CountFacts
  <2>3. CountIn(S, 0, i + 1) <= CountIn(S, 0, j)
    <3>1. CASE i + 1 = j
      BY <2>2, <3>1
    <3>2. CASE i + 1 < j
      BY <2>1, <3>2, CountBetween
    <3> QED
      BY <2>1, <3>1, <3>2
  <2> HIDE DEF place
  <2> QED
    BY <1>1, <2>2, <2>3
<1> HIDE DEF place, c
<1>4. \A p \in 0 .. c - 1 : \E i \in S : place(i) = p
  <2> SUFFICES ASSUME NEW p \in 0 .. c - 1, \A i \in S : place(i) # p
               PROVE  FALSE
    OBVIOUS
  <2> DEFINE R == (0 .. c - 1) \ {p}
             f == [i \in S |-> place(i)]
  <2>1. IsFiniteSet(0 .. c - 1) /\ Cardinality(0 .. c - 1) = c
    BY <1>0, FS_Interval
  <2>2. IsFiniteSet(R) /\ Cardinality(R) = c - 1
    BY <2>1, FS_RemoveElement
  <2>3. f \in [S -> R]
    BY <1>2
  <2>4. Cardinality(R) < Cardinality(S)
    BY <1>0, <2>2 DEF c
  <2>5. \E x, y \in S : x # y /\ f[x] = f[y]
    <3> HIDE DEF f, R
    <3> QED
      BY <1>0, <2>2, <2>3, <2>4, FS_PigeonHole
  <2>6. PICK x \in S, y \in S : x # y /\ place(x) = place(y)
    BY <2>5
  <2> QED
    BY <1>0, <1>2, <1>3, <2>6
<1>5. k = [n \in 1 .. c |-> CHOOSE i \in S : place(i) = n - 1]
  BY DEF InOrder, place, c
<1> HIDE DEF k
<1>6. DOMAIN k = 1 .. c
  BY <1>5
<1>7. \A n \in 1 .. c : k[n] \in S /\ place(k[n]) = n - 1
  <2> TAKE n \in 1 .. c
  <2>1. n - 1 \in 0 .. c - 1
    BY <1>0
  <2>2. \E i \in S : place(i) = n - 1
    BY <1>4, <2>1
  <2>3. k[n] = CHOOSE i \in S : place(i) = n - 1
    BY <1>5
  <2> QED
    BY <2>2, <2>3
<1>8. \A x \in S : \E n \in 1 .. c : k[n] = x
  <2> TAKE x \in S
  <2>1. place(x) + 1 \in 1 .. c /\ place(x) + 1 - 1 = place(x)
    BY <1>0, <1>2
  <2> DEFINE q == place(x) + 1
  <2> HIDE DEF q
  <2>4. q \in 1 .. c /\ q - 1 = place(x)
    BY <1>0, <1>2, <2>1 DEF q
  <2>5. k[q] \in S /\ place(k[q]) = q - 1
    BY <1>7, <2>4
  <2>2. k[place(x) + 1] \in S /\ place(k[place(x) + 1]) = place(x)
    BY <2>4, <2>5 DEF q
  <2>3. k[place(x) + 1] = x
    BY <1>0, <1>2, <1>3, <2>2
  <2> QED
    BY <2>1, <2>3
<1>9. \A i, j \in 1 .. c : i < j => k[i] < k[j]
  <2> SUFFICES ASSUME NEW i \in 1 .. c, NEW j \in 1 .. c, i < j
               PROVE  k[i] < k[j]
    OBVIOUS
  <2>1. k[i] \in S /\ k[j] \in S /\ place(k[i]) = i - 1 /\ place(k[j]) = j - 1
    BY <1>7
  <2>2. k[i] \in Nat /\ k[j] \in Nat /\ ~(k[j] < k[i]) /\ k[i] # k[j]
    <3>1. i \in Nat /\ j \in Nat /\ ~(j - 1 < i - 1) /\ i - 1 # j - 1
      BY <1>0
    <3> QED
      BY <1>0, <1>3, <2>1, <3>1
  <2> QED
    BY <2>2
<1> QED
  BY <1>0, <1>6, <1>7, <1>8, <1>9 DEF Ordered, k, c, place

\* r is what is left of s at the indices in K.
PartOf(r, s, K) ==
    /\ \A n \in DOMAIN r : \E k \in K : r[n] = s[k]
    /\ \A k \in K : \E n \in DOMAIN r : r[n] = s[k]
    /\ \A m, n \in DOMAIN r : m # n => \E k, l \in K : k # l /\ r[m] = s[k] /\ r[n] = s[l]

LEMMA SubsequenceFacts ==
    ASSUME NEW T, NEW s \in Seq(T), NEW K \in SUBSET DOMAIN s, NEW r, r = Subsequence(s, K)
    PROVE  r \in Seq(T) /\ PartOf(r, s, K) /\ Len(r) = Cardinality(K)
<1> DEFINE k == InOrder(K)
<1>1. DOMAIN s = 1 .. Len(s) /\ Len(s) \in Nat
  BY LenProperties
<1>2. PositionSet(K)
  <2>1. K \subseteq Nat /\ K \subseteq 1 .. Len(s)
    BY <1>1
  <2>2. IsFiniteSet(1 .. Len(s))
    BY <1>1, FS_Interval
  <2> QED
    BY <2>1, <2>2, FS_Subset DEF PositionSet
<1>3. Ordered(K, k)
  BY <1>2, InOrderFacts
<1>4. r = [n \in DOMAIN k |-> s[k[n]]]
  BY DEF Subsequence
<1> HIDE DEF k
<1>5. DOMAIN k = 1 .. Cardinality(K) /\ Cardinality(K) \in Nat
  BY <1>3 DEF Ordered
<1>6. \A n \in DOMAIN k : k[n] \in K /\ s[k[n]] \in T
  <2>1. \A x \in K : s[x] \in T
    BY <1>1
  <2>2. \A n \in DOMAIN k : k[n] \in K
    BY <1>3, <1>5 DEF Ordered
  <2> QED
    BY <2>1, <2>2
<1>7. r \in Seq(T) /\ DOMAIN r = DOMAIN k /\ Len(r) = Cardinality(K)
  BY <1>4, <1>5, <1>6
<1>8. \A n \in DOMAIN r : r[n] = s[k[n]] /\ k[n] \in K
  BY <1>4, <1>6
<1>9. \A x \in K : \E n \in DOMAIN r : k[n] = x
  BY <1>3, <1>5, <1>7 DEF Ordered
<1>10. \A m, n \in DOMAIN r : m # n => k[m] # k[n]
  <2> SUFFICES ASSUME NEW m \in DOMAIN r, NEW n \in DOMAIN r, m # n
               PROVE  k[m] # k[n]
    OBVIOUS
  <2>1. m \in 1 .. Cardinality(K) /\ n \in 1 .. Cardinality(K) /\ m \in Nat /\ n \in Nat
    BY <1>5, <1>7
  <2>2. k[m] \in Nat /\ k[n] \in Nat
    BY <1>2, <1>8 DEF PositionSet
  <2>3. m < n => k[m] < k[n]
    BY <1>3, <2>1 DEF Ordered
  <2>4. n < m => k[n] < k[m]
    BY <1>3, <2>1 DEF Ordered
  <2> QED
    BY <2>1, <2>2, <2>3, <2>4
<1>11. PartOf(r, s, K)
  <2>1. \A n \in DOMAIN r : \E x \in K : r[n] = s[x]
    BY <1>8
  <2>2. \A x \in K : \E n \in DOMAIN r : r[n] = s[x]
    BY <1>8, <1>9
  <2>3. \A m, n \in DOMAIN r : m # n => \E x, l \in K : x # l /\ r[m] = s[x] /\ r[n] = s[l]
    BY <1>8, <1>10
  <2> QED
    BY <2>1, <2>2, <2>3 DEF PartOf
<1> QED
  BY <1>7, <1>11

\* The position that i is shifted to is before n if fewer than those before n that
\* are not members precede i.
LEMMA ShiftBelow ==
    ASSUME NEW S, PositionSet(S), NEW i \in Nat, NEW n \in Nat
    PROVE  Shift(S, i) < n <=> i < Unshift(S, n)
<1> DEFINE x == Shift(S, i)
<1>1. x \in Nat /\ x \notin S /\ Unshift(S, x) = i
  BY ShiftFacts
<1> HIDE DEF x
<1>2. x < n => i < Unshift(S, n)
  BY <1>1, UnshiftOrder
<1>3. ASSUME n <= x
      PROVE  Unshift(S, n) <= i
  <2>1. CASE n = x
    BY <1>1, <2>1
  <2>2. CASE n < x
    <3>1. CountIn(S, 0, x) - CountIn(S, 0, n) <= x - n
      BY <1>1, <2>2, CountBetween
    <3>2. /\ Unshift(S, x) = x - CountIn(S, 0, x) /\ CountIn(S, 0, x) \in Nat
          /\ Unshift(S, n) = n - CountIn(S, 0, n) /\ CountIn(S, 0, n) \in Nat
      BY <1>1, CountFacts
    <3> QED
      BY <1>1, <3>1, <3>2
  <2> QED
    BY <1>1, <1>3, <2>1, <2>2
<1>4. Unshift(S, n) \in Nat
  BY CountFacts
<1> QED
  BY <1>1, <1>2, <1>3, <1>4 DEF x

\* Of the first m positions, those that are not members.
LEMMA CountMissing ==
    ASSUME NEW S, PositionSet(S), NEW l \in Nat, NEW m \in 0 .. l,
           NEW C, C = {j \in 0 .. l - 1 : j \notin S}
    PROVE  PositionSet(C) /\ CountIn(C, 0, m) = Unshift(S, m)
<1>0. PICK D : D = {j \in 0 .. l - 1 : j \in S}
  OBVIOUS
<1>1. m \in Nat /\ m <= l
  OBVIOUS
<1>2. PositionSet(C) /\ PositionSet(D)
  <2>1. IsFiniteSet(0 .. l - 1)
    BY FS_Interval
  <2>2. C \subseteq 0 .. l - 1 /\ D \subseteq 0 .. l - 1
    BY <1>0
  <2>3. 0 .. l - 1 \subseteq Nat
    OBVIOUS
  <2> QED
    BY <2>1, <2>2, <2>3, FS_Subset DEF PositionSet
<1>3. C \cap D = {}
  BY <1>0
<1>4. CountIn(C \cup D, 0, m) = CountIn(C, 0, m) + CountIn(D, 0, m)
  BY <1>1, <1>2, <1>3, CountUnion
<1>5. CountIn(C \cup D, 0, m) = m
  <2>1. {x \in C \cup D : 0 <= x /\ x < m} = 0 .. m - 1
    BY <1>0, <1>1
  <2>2. Cardinality(0 .. m - 1) = IF 0 > m - 1 THEN 0 ELSE m - 1 - 0 + 1
    BY <1>1, FS_Interval
  <2>3. Cardinality(0 .. m - 1) = m
    BY <1>1, <2>2
  <2> QED
    BY <2>1, <2>3 DEF CountIn
<1>6. CountIn(D, 0, m) = CountIn(S, 0, m)
  <2>1. \A x \in S : x \in Nat
    BY DEF PositionSet
  <2>2. {x \in D : 0 <= x /\ x < m} = {x \in S : 0 <= x /\ x < m}
    BY <1>0, <1>1, <2>1
  <2> QED
    BY <2>2 DEF CountIn
<1>7. CountIn(S, 0, m) \in Nat /\ Unshift(S, m) = m - CountIn(S, 0, m) /\ CountIn(C, 0, m) \in Nat
  BY <1>1, <1>2, CountFacts
<1> QED
  BY <1>1, <1>2, <1>4, <1>5, <1>6, <1>7

\* The indices of a sequence of n elements that are left when the positions in S
\* go: as many of them are before i as positions that stay are before i - 1.
LEMMA IndicesLeft ==
    ASSUME NEW S, PositionSet(S), NEW l \in Nat, NEW K, K = {n \in 1 .. l : n - 1 \notin S}
    PROVE  /\ PositionSet(K) /\ Cardinality(K) = Unshift(S, l)
           /\ \A i \in 1 .. l : Cardinality({x \in K : x < i}) = Unshift(S, i - 1)
<1>0. PICK C : C = {j \in 0 .. l - 1 : j \notin S}
  OBVIOUS
<1>1. PICK f : f = [x \in C |-> x + 1]
  OBVIOUS
<1>2. l \in 0 .. l /\ PositionSet(C)
  BY <1>0, CountMissing
<1>3. f \in [C -> Nat] /\ \A x, y \in C : x < y => f[x] < f[y]
  BY <1>0, <1>1
<1>4. K = {f[x] : x \in C}
  <2>1. \A x \in C : f[x] \in K
    BY <1>0, <1>1
  <2>2. \A n \in K : n - 1 \in C /\ f[n - 1] = n
    BY <1>0, <1>1
  <2> QED
    BY <2>1, <2>2
<1>5. PositionSet(K)
  BY <1>2, <1>3, <1>4, MappedPositions
<1>6. ASSUME NEW i \in 1 .. l + 1
      PROVE  Cardinality({x \in K : x < i}) = Unshift(S, i - 1)
  <2>1. i \in Nat /\ i - 1 \in Nat /\ i - 1 \in 0 .. l
    OBVIOUS
  <2>2. \A x \in C : f[x] < i <=> x < i - 1
    BY <1>0, <1>1
  <2>3. CountIn(K, 0, i) = CountIn(C, 0, i - 1)
    BY <1>2, <1>3, <1>4, <2>1, <2>2, CountMapped
  <2>4. {x \in K : x < i} = {x \in K : 0 <= x /\ x < i}
    OBVIOUS
  <2>5. CountIn(K, 0, i) = Cardinality({x \in K : x < i})
    BY <2>4 DEF CountIn
  <2>6. CountIn(C, 0, i - 1) = Unshift(S, i - 1)
    BY <1>0, <2>1, CountMissing
  <2> QED
    BY <2>3, <2>5, <2>6
<1>7. Cardinality(K) = Unshift(S, l)
  <2>1. {x \in K : x < l + 1} = K
    OBVIOUS
  <2>2. l + 1 \in 1 .. l + 1 /\ l + 1 - 1 = l
    OBVIOUS
  <2>3. Cardinality({x \in K : x < l + 1}) = Unshift(S, l + 1 - 1)
    BY <1>6, <2>2
  <2> QED
    BY <2>1, <2>2, <2>3
<1>8. \A i \in 1 .. l : i \in 1 .. l + 1
  OBVIOUS
<1>9. \A i \in 1 .. l : Cardinality({x \in K : x < i}) = Unshift(S, i - 1)
  BY <1>6, <1>8
<1> QED
  BY <1>5, <1>7, <1>9

LEMMA WithoutIs ==
    ASSUME NEW T, NEW s \in Seq(T), NEW S, PositionSet(S), NEW r, r = Without(s, S)
    PROVE  /\ r \in Seq(T) /\ Len(r) = Unshift(S, Len(s))
           /\ \A n \in 1 .. Len(r) : /\ Shift(S, n - 1) \in 0 .. Len(s) - 1
                                     /\ r[n] = s[Shift(S, n - 1) + 1]
<1>1. PICK L : L = Len(s) /\ DOMAIN s = 1 .. L /\ L \in Nat
  BY LenProperties
<1>2. PICK K : K = {n \in 1 .. L : n - 1 \notin S}
  OBVIOUS
<1>3. r = Subsequence(s, K)
  BY <1>1, <1>2 DEF Without
<1>4. PICK k : k = InOrder(K)
  OBVIOUS
<1>5. r = [n \in DOMAIN k |-> s[k[n]]]
  BY <1>3, <1>4 DEF Subsequence
<1>6. PositionSet(K) /\ Cardinality(K) = Unshift(S, L)
  BY <1>1, <1>2, IndicesLeft
<1>7. \A i \in 1 .. L : Cardinality({x \in K : x < i}) = Unshift(S, i - 1)
  BY <1>1, <1>2, IndicesLeft
<1>8. Ordered(K, k)
  BY <1>4, <1>6, InOrderFacts
<1>9. \A n \in K : n \in 1 .. L /\ n - 1 \notin S
  BY <1>2
<1>10. DOMAIN k = 1 .. Cardinality(K) /\ Cardinality(K) \in Nat
  BY <1>8 DEF Ordered
<1>11. \A n \in DOMAIN k : k[n] \in 1 .. L /\ k[n] - 1 \notin S /\ Unshift(S, k[n] - 1) = n - 1
  <2> TAKE n \in DOMAIN k
  <2>1. k[n] \in K /\ Cardinality({x \in K : x < k[n]}) = n - 1
    BY <1>8, <1>10 DEF Ordered
  <2>2. k[n] \in 1 .. L /\ k[n] - 1 \notin S
    BY <1>9, <2>1
  <2> QED
    BY <1>7, <2>1, <2>2
<1>12. \A n \in DOMAIN k : Shift(S, n - 1) = k[n] - 1
  <2> TAKE n \in DOMAIN k
  <2>1. k[n] - 1 \in Nat
    BY <1>1, <1>11
  <2> QED
    BY <1>11, <2>1, ShiftIs
<1>13. \A n \in DOMAIN k : /\ Shift(S, n - 1) \in 0 .. L - 1 /\ Shift(S, n - 1) + 1 = k[n]
                           /\ s[k[n]] \in T
  <2> TAKE n \in DOMAIN k
  <2>1. k[n] \in 1 .. L /\ Shift(S, n - 1) = k[n] - 1
    BY <1>11, <1>12
  <2>2. \A y \in 1 .. L : y - 1 \in 0 .. L - 1 /\ y - 1 + 1 = y /\ s[y] \in T
    BY <1>1
  <2> QED
    BY <2>1, <2>2
<1>14. r \in Seq(T) /\ Len(r) = Cardinality(K) /\ DOMAIN r = DOMAIN k
  BY <1>5, <1>10, <1>13
<1>15. \A n \in 1 .. Len(r) : r[n] = s[Shift(S, n - 1) + 1]
  BY <1>5, <1>10, <1>13, <1>14
<1> QED
  BY <1>1, <1>6, <1>10, <1>13, <1>14, <1>15

-----------------------------------------------------------------------------
(* b leads from s to t: the entries not reported deleted are those not reported
   inserted, at the position of the new sequence that Follows gives. *)
Aligned(b, s, t) ==
    \A o \in Nat \ b.del : /\ o < Len(s) <=> Follows(b, o) < Len(t)
                           /\ o < Len(s) => s[o + 1] = t[Follows(b, o) + 1]

LEMMA AlignedLinesUp ==
    ASSUME NEW T, NEW s \in Seq(T), NEW t \in Seq(T), NEW b, Sets(b), Aligned(b, s, t)
    PROVE  Without(s, b.del) = Without(t, b.ins)
<1> DEFINE p == Without(s, b.del)
           q == Without(t, b.ins)
<1>0. Len(s) \in Nat /\ Len(t) \in Nat /\ PositionSet(b.del) /\ PositionSet(b.ins)
  BY LenProperties DEF Sets
<1>1. /\ p \in Seq(T) /\ Len(p) = Unshift(b.del, Len(s))
      /\ \A n \in 1 .. Len(p) : p[n] = s[Shift(b.del, n - 1) + 1]
  BY <1>0, WithoutIs
<1>2. /\ q \in Seq(T) /\ Len(q) = Unshift(b.ins, Len(t))
      /\ \A n \in 1 .. Len(q) : q[n] = t[Shift(b.ins, n - 1) + 1]
  BY <1>0, WithoutIs
<1> HIDE DEF p, q
<1>3. \A i \in Nat : /\ Shift(b.del, i) \in Nat \ b.del
                     /\ Follows(b, Shift(b.del, i)) = Shift(b.ins, i)
  BY <1>0, ShiftFacts DEF Follows
<1>4. \A i \in Nat : i < Len(p) <=> i < Len(q)
  <2> TAKE i \in Nat
  <2>1. Shift(b.del, i) < Len(s) <=> Shift(b.ins, i) < Len(t)
    BY <1>3 DEF Aligned
  <2>2. /\ Shift(b.del, i) < Len(s) <=> i < Unshift(b.del, Len(s))
        /\ Shift(b.ins, i) < Len(t) <=> i < Unshift(b.ins, Len(t))
    BY <1>0, ShiftBelow
  <2> QED
    BY <1>1, <1>2, <2>1, <2>2
<1>5. Len(p) \in Nat /\ Len(q) \in Nat
  BY <1>1, <1>2, LenProperties
<1>6. Len(p) = Len(q)
  <2>1. ~(Len(p) < Len(q)) /\ ~(Len(q) < Len(p))
    BY <1>4, <1>5
  <2> QED
    BY <1>5, <2>1
<1>7. \A n \in 1 .. Len(p) : p[n] = q[n]
  <2> TAKE n \in 1 .. Len(p)
  <2>1. n - 1 \in Nat /\ n - 1 < Len(p)
    BY <1>5
  <2>2. n - 1 < Unshift(b.del, Len(s))
    BY <1>1, <2>1
  <2>3. Shift(b.del, n - 1) < Len(s)
    BY <1>0, <2>1, <2>2, ShiftBelow
  <2>4. s[Shift(b.del, n - 1) + 1] = t[Shift(b.ins, n - 1) + 1]
    <3> DEFINE o == Shift(b.del, n - 1)
    <3>1. o \in Nat \ b.del /\ o < Len(s) /\ Follows(b, o) = Shift(b.ins, n - 1)
      BY <1>3, <2>1, <2>3
    <3> HIDE DEF o
    <3>2. s[o + 1] = t[Follows(b, o) + 1]
      BY <3>1 DEF Aligned
    <3> QED
      BY <3>1, <3>2 DEF o
  <2>5. q[n] = t[Shift(b.ins, n - 1) + 1]
    BY <1>2, <1>6
  <2> QED
    BY <1>1, <2>4, <2>5
<1> QED
  BY <1>1, <1>2, <1>6, <1>7, SeqEqual DEF p, q

-----------------------------------------------------------------------------
(* Sequences with an element more or less: v put in at position i, the entry at i
   taken out. *)
PutIn(t, i, v, u) ==
    /\ Len(u) = Len(t) + 1 /\ u[i + 1] = v
    /\ \A n \in 0 .. Len(t) - 1 : u[Up(n, i) + 1] = t[n + 1]
    /\ \A n \in 1 .. Len(u) : u[n] = v \/ \E k \in 1 .. Len(t) : u[n] = t[k]
TakenOut(t, i, u) ==
    /\ Len(u) = Len(t) - 1
    /\ \A n \in 0 .. Len(t) - 1 : n # i => u[Down(n, i) + 1] = t[n + 1]
    /\ \A n \in 1 .. Len(u) : \E k \in 1 .. Len(t) : k # i + 1 /\ u[n] = t[k]

LEMMA InsertAtFacts ==
    ASSUME NEW T, NEW t \in Seq(T), NEW i \in 0 .. Len(t), NEW v \in T,
           NEW u, u = InsertAt(t, i + 1, v)
    PROVE  u \in Seq(T) /\ PutIn(t, i, v, u)
<1>0. PICK j : j = i + 1
  OBVIOUS
<1>1. PICK p, q, r : p = SubSeq(t, 1, j - 1) /\ q = <<v>> /\ r = SubSeq(t, j, Len(t))
  OBVIOUS
<1>2. i + 1 - 1 = i /\ Len(t) \in Nat /\ i \in Nat
  BY LenProperties
<1>3. u = (p \o q) \o r
  BY <1>0, <1>1 DEF InsertAt
<1>4. p \in Seq(T) /\ Len(p) = i /\ \A n \in 1 .. i : p[n] = t[n]
  BY <1>0, <1>1, <1>2
<1>5. /\ r \in Seq(T) /\ Len(r) = Len(t) - i
      /\ \A n \in 1 .. Len(t) - i : r[n] = t[i + n]
  <2>1. i + 1 \in 1 .. Len(t) + 1 /\ Len(t) \in i .. Len(t)
    BY <1>2
  <2> QED
    BY <1>0, <1>1, <1>2, <2>1
<1>6. p \o q \in Seq(T) /\ Len(p \o q) = i + 1 /\ (p \o q)[i + 1] = v
      /\ \A n \in 1 .. i : (p \o q)[n] = t[n]
  BY <1>1, <1>2, <1>4
<1>7. u \in Seq(T) /\ Len(u) = Len(t) + 1
  <2>1. u \in Seq(T) /\ Len(u) = Len(p \o q) + Len(r)
    BY ZenonT(30), <1>3, <1>5, <1>6, ConcatProperties
  <2> QED
    BY SMTT(20), <1>2, <1>5, <1>6, <2>1
<1>8. /\ u[i + 1] = v
      /\ \A n \in 1 .. i : u[n] = t[n]
      /\ \A n \in i + 2 .. Len(t) + 1 : u[n] = t[n - 1]
  <2>1. \A n \in 1 .. i + 1 : u[n] = (p \o q)[n]
    BY <1>2, <1>3, <1>5, <1>6
  <2>2. \A n \in i + 2 .. Len(t) + 1 : u[n] = r[n - (i + 1)]
    <3>0. PICK a : a = p \o q
      OBVIOUS
    <3>1. \A n \in 1 .. Len(a) + Len(r) : u[n] = IF n <= Len(a) THEN a[n] ELSE r[n - Len(a)]
      BY SMTT(20), <1>3, <1>5, <1>6, <3>0, ConcatProperties
    <3>2. \A n \in i + 2 .. Len(t) + 1 : n \in 1 .. i + 1 + (Len(t) - i) /\ ~(n <= i + 1)
      BY <1>2
    <3> HIDE <1>3
    <3> QED
      BY <1>5, <1>6, <3>0, <3>1, <3>2
  <2>3. \A n \in i + 2 .. Len(t) + 1 : n - (i + 1) \in 1 .. Len(t) - i /\ i + (n - (i + 1)) = n - 1
    BY <1>2
  <2>4. \A n \in i + 2 .. Len(t) + 1 : u[n] = t[n - 1]
    BY <1>5, <2>2, <2>3
  <2> QED
    <3>1. \A n \in 1 .. i : n \in 1 .. i + 1
      BY <1>2
    <3>2. i + 1 \in 1 .. i + 1
      BY <1>2
    <3> QED
      BY <1>6, <2>1, <2>4, <3>1, <3>2
<1> HIDE <1>3
<1>9. \A n \in 0 .. Len(t) - 1 : u[Up(n, i) + 1] = t[n + 1]
  <2> TAKE n \in 0 .. Len(t) - 1
  <2>1. CASE n < i
    <3>1. n + 1 \in 1 .. i
      BY <1>2, <2>1
    <3> QED
      BY <1>8, <2>1, <3>1 DEF Up
  <2>2. CASE ~(n < i)
    <3>1. n + 2 \in i + 2 .. Len(t) + 1 /\ n + 2 - 1 = n + 1 /\ n + 1 + 1 = n + 2
      BY <1>2, <2>2
    <3>2. u[n + 2] = t[n + 1]
      BY <1>8, <3>1
    <3> QED
      BY <2>2, <3>1, <3>2 DEF Up
  <2> QED
    BY <2>1, <2>2
<1>10. ASSUME NEW n \in 1 .. Len(u)
       PROVE  u[n] = v \/ \E k \in 1 .. Len(t) : u[n] = t[k]
  <2>1. n \in 1 .. i \/ n = i + 1 \/ n \in i + 2 .. Len(t) + 1
    BY <1>2, <1>7
  <2>2. n \in 1 .. i => n \in 1 .. Len(t)
    BY <1>2
  <2>3. n \in i + 2 .. Len(t) + 1 => n - 1 \in 1 .. Len(t)
    BY <1>2
  <2> QED
    BY <1>8, <2>1, <2>2, <2>3
<1> QED
  BY <1>7, <1>8, <1>9, <1>10 DEF PutIn

LEMMA RemoveAtFacts ==
    ASSUME NEW T, NEW t \in Seq(T), NEW i \in 0 .. Len(t) - 1, NEW u, u = RemoveAt(t, i + 1)
    PROVE  u \in Seq(T) /\ TakenOut(t, i, u)
<1>0. PICK j : j = i + 1
  OBVIOUS
<1>1. PICK p, r : p = SubSeq(t, 1, j - 1) /\ r = SubSeq(t, j + 1, Len(t))
  OBVIOUS
<1>2. i + 1 - 1 = i /\ i + 1 + 1 = i + 2 /\ Len(t) \in Nat /\ i \in Nat
  BY LenProperties
<1>3. u = p \o r
  BY <1>0, <1>1 DEF RemoveAt
<1>4. p \in Seq(T) /\ Len(p) = i /\ \A n \in 1 .. i : p[n] = t[n]
  BY <1>0, <1>1, <1>2
<1>5. /\ r \in Seq(T) /\ Len(r) = Len(t) - i - 1
      /\ \A n \in 1 .. Len(t) - i - 1 : r[n] = t[i + 1 + n]
  <2>1. i + 2 \in 1 .. Len(t) + 1 /\ Len(t) \in i + 1 .. Len(t)
    BY <1>2
  <2> QED
    BY <1>0, <1>1, <1>2, <2>1
<1>7. u \in Seq(T) /\ Len(u) = Len(t) - 1
  <2>1. u \in Seq(T) /\ Len(u) = Len(p) + Len(r)
    BY <1>3, <1>4, <1>5, ConcatProperties
  <2>2. Len(p) = i /\ Len(r) = Len(t) - i - 1
    BY <1>4, <1>5
  <2> QED
    BY <1>2, <2>1, <2>2
<1>6. \A n \in 1 .. Len(t) - 1 : u[n] = IF n <= i THEN p[n] ELSE r[n - i]
  <2>0. p \in Seq(T) /\ r \in Seq(T)
    BY <1>4, <1>5
  <2>1. \A n \in 1 .. Len(p) + Len(r) : u[n] = IF n <= Len(p) THEN p[n] ELSE r[n - Len(p)]
    BY Zenon, <1>3, <2>0, ConcatProperties
  <2>2. Len(p) = i /\ Len(r) = Len(t) - i - 1
    BY <1>4, <1>5
  <2>3. Len(p) + Len(r) = Len(t) - 1
    BY <1>2, <2>2
  <2> QED
    BY <2>1, <2>2, <2>3
<1>8. /\ \A n \in 1 .. i : u[n] = t[n]
      /\ \A n \in i + 1 .. Len(t) - 1 : u[n] = t[n + 1]
  <2>0. /\ \A n \in 1 .. i : n \in 1 .. Len(t) - 1 /\ n <= i
        /\ \A n \in i + 1 .. Len(t) - 1 : n \in 1 .. Len(t) - 1 /\ ~(n <= i)
    BY <1>2
  <2>1. \A n \in 1 .. i : u[n] = p[n]
    BY <1>6, <2>0
  <2>2. \A n \in i + 1 .. Len(t) - 1 : u[n] = r[n - i]
    BY <1>6, <2>0
  <2>3. \A n \in i + 1 .. Len(t) - 1 : n - i \in 1 .. Len(t) - i - 1 /\ i + 1 + (n - i) = n + 1
    BY <1>2
  <2>4. \A n \in i + 1 .. Len(t) - 1 : u[n] = t[n + 1]
    BY <1>5, <2>2, <2>3
  <2> QED
    BY <1>2, <1>4, <2>1, <2>4
<1> HIDE <1>3
<1>9. \A n \in 0 .. Len(t) - 1 : n # i => u[Down(n, i) + 1] = t[n + 1]
  <2> SUFFICES ASSUME NEW n \in 0 .. Len(t) - 1, n # i
               PROVE  u[Down(n, i) + 1] = t[n + 1]
    OBVIOUS
  <2>1. CASE n < i
    <3>1. n + 1 \in 1 .. i
      BY <1>2, <2>1
    <3> QED
      BY <1>8, <2>1, <3>1 DEF Down
  <2>2. CASE ~(n < i)
    <3>1. n \in i + 1 .. Len(t) - 1 /\ n - 1 + 1 = n
      BY <1>2, <2>2
    <3>2. u[n] = t[n + 1]
      BY <1>8, <3>1
    <3> QED
      BY <2>2, <3>1, <3>2 DEF Down
  <2> QED
    BY <2>1, <2>2
<1>10. ASSUME NEW n \in 1 .. Len(u)
       PROVE  \E k \in 1 .. Len(t) : k # i + 1 /\ u[n] = t[k]
  <2>1. n \in 1 .. i \/ n \in i + 1 .. Len(t) - 1
    BY <1>2, <1>7
  <2>2. n \in 1 .. i => n \in 1 .. Len(t) /\ n # i + 1
    BY <1>2
  <2>3. n \in i + 1 .. Len(t) - 1 => n + 1 \in 1 .. Len(t) /\ n + 1 # i + 1
    BY <1>2
  <2> QED
    BY <1>8, <2>1, <2>2, <2>3
<1> QED
  BY <1>7, <1>9, <1>10 DEF TakenOut

-----------------------------------------------------------------------------
(* What a builder tells of how t came from s.  Every entry has a number of its
   own. *)
Distinct(s) == \A m, n \in 1 .. Len(s) : s[m] = s[n] => m = n
Unknown(e, s) == \A n \in 1 .. Len(s) : s[n] # e

MovePairs == [from : Nat, to : Nat]

\* A move is one: from a deletion to an insertion, of one entry.
TrueMove(b, m, s, t) ==
    /\ m.from \in b.del /\ m.to \in b.ins
    /\ m.from \in 0 .. Len(s) - 1 /\ m.to \in 0 .. Len(t) - 1
    /\ s[m.from + 1] = t[m.to + 1]

TrueMoves(b, s, t) ==
    /\ b.moves \in Seq(MovePairs)
    /\ \A k \in DOMAIN b.moves : TrueMove(b, b.moves[k], s, t)
    /\ \A j, k \in DOMAIN b.moves : b.moves[j].from = b.moves[k].from => j = k

\* An insertion is a new entry or the end of a move.
InsertionsTold(b, s, t) ==
    \A n \in b.ins : /\ n < Len(t)
                     /\ Unknown(t[n + 1], s) \/ \E k \in DOMAIN b.moves : b.moves[k].to = n

Leads(b, s, t) ==
    /\ Builder(b) /\ Aligned(b, s, t)
    /\ TrueMoves(b, s, t) /\ InsertionsTold(b, s, t)

\* g takes the positions of t that are not lost to those of u.
Takes(g, lost, t, u) ==
    /\ g \in [Nat -> Nat]
    /\ \A x \in Nat \ lost : /\ x < Len(t) <=> g[x] < Len(u)
                             /\ x < Len(t) => t[x + 1] = u[g[x] + 1]

\* So does e, after b.
TakenBy(g, lost, b, e) ==
    /\ e.del = b.del \cup {o \in Nat \ b.del : Follows(b, o) \in lost}
    /\ \A o \in Nat \ e.del : Follows(e, o) = g[Follows(b, o)]
    /\ \A x \in b.ins \ lost : g[x] \in e.ins

LEMMA AlignedStep ==
    ASSUME NEW s, NEW t, NEW u, NEW b, NEW e, Sets(b), Aligned(b, s, t),
           NEW g, NEW lost, Takes(g, lost, t, u), TakenBy(g, lost, b, e)
    PROVE  Aligned(e, s, u)
<1> SUFFICES ASSUME NEW o \in Nat \ e.del
             PROVE  /\ o < Len(s) <=> Follows(e, o) < Len(u)
                    /\ o < Len(s) => s[o + 1] = u[Follows(e, o) + 1]
  BY DEF Aligned
<1> DEFINE x == Follows(b, o)
<1>1. o \in Nat \ b.del /\ x \notin lost /\ Follows(e, o) = g[x]
  BY DEF TakenBy
<1>2. x \in Nat
  BY <1>1, FollowsFacts
<1>3. (o < Len(s) <=> x < Len(t)) /\ (o < Len(s) => s[o + 1] = t[x + 1])
  BY <1>1 DEF Aligned
<1> HIDE DEF x
<1>4. (x < Len(t) <=> g[x] < Len(u)) /\ (x < Len(t) => t[x + 1] = u[g[x] + 1])
  BY <1>1, <1>2 DEF Takes
<1> QED
  BY <1>1, <1>3, <1>4

\* The moves of e are those of b taken on by g, or new ones.
MovesTaken(g, lost, b, e, s, u) ==
    /\ e.moves \in Seq(MovePairs)
    /\ \A n \in DOMAIN e.moves :
         \/ TrueMove(e, e.moves[n], s, u)
         \/ \E k \in DOMAIN b.moves : /\ b.moves[k].to \notin lost
                                      /\ e.moves[n].from = b.moves[k].from
                                      /\ e.moves[n].to = g[b.moves[k].to]
    /\ \A j, k \in DOMAIN e.moves : e.moves[j].from = e.moves[k].from => j = k
    /\ \A k \in DOMAIN b.moves :
         b.moves[k].to \notin lost => \E n \in DOMAIN e.moves : e.moves[n].to = g[b.moves[k].to]

\* The insertions of e are those of b taken on by g, or new entries, or ends of moves.
InsertionsTaken(g, lost, b, e, s, u) ==
    \A n \in e.ins :
        \/ \E x \in b.ins \ lost : n = g[x]
        \/ /\ n < Len(u)
           /\ Unknown(u[n + 1], s) \/ \E k \in DOMAIN e.moves : e.moves[k].to = n

LEMMA LeadsStep ==
    ASSUME NEW s \in Seq(Nat), NEW t \in Seq(Nat), NEW u \in Seq(Nat), NEW b, NEW e,
           Leads(b, s, t), Builder(e), NEW g, NEW lost, Takes(g, lost, t, u),
           TakenBy(g, lost, b, e), MovesTaken(g, lost, b, e, s, u),
           InsertionsTaken(g, lost, b, e, s, u)
    PROVE  Leads(e, s, u)
<1>0. Len(s) \in Nat /\ Len(t) \in Nat /\ Len(u) \in Nat
  BY LenProperties
<1>1. /\ Builder(b) /\ Sets(b) /\ Aligned(b, s, t)
      /\ TrueMoves(b, s, t) /\ InsertionsTold(b, s, t)
  BY DEF Leads, Builder
<1>2. Aligned(e, s, u)
  BY <1>1, AlignedStep
<1>3. \A x \in b.ins : x \in Nat
  BY <1>1 DEF Sets, PositionSet
<1>4. \A x \in b.ins \ lost : g[x] \in e.ins /\ (x < Len(t) => g[x] < Len(u) /\ t[x + 1] = u[g[x] + 1])
                               /\ g[x] \in Nat
  BY <1>3 DEF Takes, TakenBy
<1>5. \A n \in DOMAIN e.moves : TrueMove(e, e.moves[n], s, u)
  <2> SUFFICES ASSUME NEW n \in DOMAIN e.moves, NEW k \in DOMAIN b.moves, b.moves[k].to \notin lost,
                      e.moves[n].from = b.moves[k].from, e.moves[n].to = g[b.moves[k].to]
               PROVE  TrueMove(e, e.moves[n], s, u)
    BY DEF MovesTaken
  <2>1. TrueMove(b, b.moves[k], s, t)
    BY <1>1 DEF TrueMoves
  <2>2. PICK x : x = b.moves[k].to
    OBVIOUS
  <2>3. PICK o : o = b.moves[k].from
    OBVIOUS
  <2>4. /\ o \in b.del /\ x \in b.ins /\ o \in 0 .. Len(s) - 1 /\ x \in 0 .. Len(t) - 1
        /\ s[o + 1] = t[x + 1]
    BY <2>1, <2>2, <2>3 DEF TrueMove
  <2>5. x < Len(t) /\ x \in b.ins \ lost
    BY SMTT(20), <1>0, <2>2, <2>4
  <2>6. g[x] \in e.ins /\ g[x] < Len(u) /\ t[x + 1] = u[g[x] + 1] /\ g[x] \in Nat
    BY <1>4, <2>5
  <2>7. g[x] \in 0 .. Len(u) - 1
    BY <1>0, <2>6
  <2>8. o \in e.del
    BY <2>4 DEF TakenBy
  <2> QED
    BY <2>2, <2>3, <2>4, <2>6, <2>7, <2>8 DEF TrueMove
<1>6. TrueMoves(e, s, u)
  BY <1>5 DEF TrueMoves, MovesTaken
<1>7. InsertionsTold(e, s, u)
  <2> SUFFICES ASSUME NEW n \in e.ins, NEW x \in b.ins \ lost, n = g[x]
               PROVE  /\ n < Len(u)
                      /\ Unknown(u[n + 1], s) \/ \E k \in DOMAIN e.moves : e.moves[k].to = n
    BY DEF InsertionsTold, InsertionsTaken
  <2>1. x < Len(t) /\ (Unknown(t[x + 1], s) \/ \E k \in DOMAIN b.moves : b.moves[k].to = x)
    BY <1>1 DEF InsertionsTold
  <2>2. n < Len(u) /\ t[x + 1] = u[n + 1]
    BY <1>4, <2>1
  <2>3. CASE Unknown(t[x + 1], s)
    BY <2>2, <2>3
  <2>4. CASE \E k \in DOMAIN b.moves : b.moves[k].to = x
    BY <2>2, <2>4 DEF MovesTaken
  <2> QED
    BY <2>1, <2>3, <2>4
<1> QED
  BY <1>2, <1>6, <1>7 DEF Leads

\* Entries that move do not meet.
LEMMA MovesApart ==
    ASSUME NEW s \in Seq(Nat), NEW t \in Seq(Nat), Distinct(s), NEW b, TrueMoves(b, s, t)
    PROVE  \A j, k \in DOMAIN b.moves : b.moves[j].to = b.moves[k].to => j = k
<1> SUFFICES ASSUME NEW j \in DOMAIN b.moves, NEW k \in DOMAIN b.moves, b.moves[j].to = b.moves[k].to
             PROVE  j = k
  OBVIOUS
<1>0. Len(s) \in Nat
  BY LenProperties
<1>1. PICK x, y : x = b.moves[j].from /\ y = b.moves[k].from
  OBVIOUS
<1>2. x \in 0 .. Len(s) - 1 /\ y \in 0 .. Len(s) - 1 /\ s[x + 1] = s[y + 1]
  BY <1>1 DEF TrueMoves, TrueMove
<1>3. x + 1 \in 1 .. Len(s) /\ y + 1 \in 1 .. Len(s)
  BY <1>0, <1>2
<1>4. x + 1 = y + 1
  BY <1>2, <1>3 DEF Distinct
<1>5. x = y
  BY <1>0, <1>2, <1>4
<1> QED
  BY <1>1, <1>5 DEF TrueMoves

-----------------------------------------------------------------------------
(* The calls of a list's log. *)

LEMMA MovePairFields ==
    ASSUME NEW m \in MovePairs, NEW y \in Nat
    PROVE  /\ m.from \in Nat /\ m.to \in Nat
           /\ [m EXCEPT !.to = y] \in MovePairs
           /\ [m EXCEPT !.to = y].from = m.from /\ [m EXCEPT !.to = y].to = y
  BY DEF MovePairs

LEMMA SeqIs ==
    ASSUME NEW T, NEW n \in Nat, NEW f \in [1 .. n -> T]
    PROVE  f \in Seq(T) /\ Len(f) = n
OBVIOUS

LEMMA MovePairsThere ==
    ASSUME NEW m \in Seq(MovePairs)
    PROVE  /\ Len(m) \in Nat /\ DOMAIN m = 1 .. Len(m)
           /\ \A k \in DOMAIN m : m[k] \in MovePairs /\ m[k].from \in Nat /\ m[k].to \in Nat
<1>1. Len(m) \in Nat /\ DOMAIN m = 1 .. Len(m)
  BY LenProperties
<1>2. \A k \in DOMAIN m : m[k] \in MovePairs
  BY <1>1
<1> QED
  BY <1>1, <1>2, MovePairFields, 0 \in Nat

\* An insertion leads on.
LEMMA InsertLeads ==
    ASSUME NEW s \in Seq(Nat), NEW t \in Seq(Nat), NEW b, Leads(b, s, t),
           NEW i \in 0 .. Len(t), NEW v \in Nat, Unknown(v, s),
           NEW u, u = InsertAt(t, i + 1, v), NEW e, e = ChangeInsert(b, i)
    PROVE  Leads(e, s, u) /\ e.del = b.del
<1>0. Len(t) \in Nat /\ i \in Nat
  BY LenProperties
<1>1. /\ u \in Seq(Nat) /\ Len(u) = Len(t) + 1 /\ u[i + 1] = v
      /\ \A n \in 0 .. Len(t) - 1 : u[Up(n, i) + 1] = t[n + 1]
  <2>1. u \in Seq(Nat) /\ PutIn(t, i, v, u)
    BY InsertAtFacts
  <2> QED
    BY <2>1 DEF PutIn
<1>2. Builder(b) /\ TrueMoves(b, s, t) /\ \A x \in b.ins : x \in Nat
  BY DEF Leads, Builder, Sets, PositionSet
<1>3. /\ Builder(e) /\ e.del = b.del
      /\ \A o \in Nat \ b.del : Follows(e, o) = Up(Follows(b, o), i)
  BY <1>0, <1>2, InsertsFollow
<1>4. e.ins = {Up(x, i) : x \in b.ins} \cup {i}
  BY <1>2 DEF ChangeInsert, InsertPosition, ShiftForInsertAt, Up, Builder
<1>5. PICK g : g = [x \in Nat |-> Up(x, i)]
  OBVIOUS
<1>6. \A x \in Nat : g[x] = Up(x, i) /\ Up(x, i) \in Nat
  BY <1>0, <1>5 DEF Up
<1>7. Takes(g, {}, t, u)
  <2>1. g \in [Nat -> Nat]
    BY <1>5, <1>6
  <2>2. ASSUME NEW x \in Nat
        PROVE  /\ x < Len(t) <=> g[x] < Len(u)
               /\ x < Len(t) => t[x + 1] = u[g[x] + 1]
    <3>1. x < Len(t) <=> Up(x, i) < Len(t) + 1
      BY <1>0 DEF Up
    <3>2. x < Len(t) => x \in 0 .. Len(t) - 1
      BY <1>0
    <3> QED
      BY <1>1, <1>6, <3>1, <3>2
  <2> QED
    BY <2>1, <2>2 DEF Takes
<1>8. TakenBy(g, {}, b, e)
  <2>1. e.del = b.del \cup {o \in Nat \ b.del : Follows(b, o) \in {}}
    BY <1>3
  <2>2. \A o \in Nat \ e.del : Follows(e, o) = g[Follows(b, o)]
    BY <1>2, <1>3, <1>6, FollowsFacts DEF Builder
  <2>3. \A x \in b.ins \ {} : g[x] \in e.ins
    BY <1>2, <1>4, <1>6
  <2> QED
    BY <2>1, <2>2, <2>3 DEF TakenBy
<1>9. MovesTaken(g, {}, b, e, s, u)
  <2>1. b.moves \in Seq(MovePairs) /\ \A k \in DOMAIN b.moves : b.moves[k].to \in Nat
    BY <1>2, MovePairsThere DEF TrueMoves
  <2>2. e.moves = [n \in DOMAIN b.moves |-> [b.moves[n] EXCEPT !.to = IF @ >= i THEN @ + 1 ELSE @]]
    <3>1. DOMAIN b = {"del", "ins", "mod", "moves", "map"}
      BY <1>2 DEF Builder
    <3> QED
      BY <3>1 DEF ChangeInsert
  <2>3. \A n \in DOMAIN b.moves :
            /\ e.moves[n] \in MovePairs
            /\ e.moves[n].from = b.moves[n].from /\ e.moves[n].to = g[b.moves[n].to]
    <3> TAKE n \in DOMAIN b.moves
    <3>1. b.moves[n] \in MovePairs /\ b.moves[n].to \in Nat
      BY <2>1, MovePairsThere
    <3>2. [b.moves[n] EXCEPT !.to = IF @ >= i THEN @ + 1 ELSE @]
            = [b.moves[n] EXCEPT !.to = Up(b.moves[n].to, i)]
      BY <1>0, <3>1 DEF Up
    <3>3. e.moves[n] = [b.moves[n] EXCEPT !.to = Up(b.moves[n].to, i)]
      BY <2>2, <3>2
    <3> QED
      BY <1>6, <3>1, <3>2, <3>3, MovePairFields
  <2>4. e.moves \in Seq(MovePairs) /\ DOMAIN e.moves = DOMAIN b.moves
    <3>1. Len(b.moves) \in Nat /\ DOMAIN b.moves = 1 .. Len(b.moves)
      BY <2>1, MovePairsThere
    <3>2. DOMAIN e.moves = 1 .. Len(b.moves) /\ e.moves = [n \in DOMAIN e.moves |-> e.moves[n]]
      BY <2>2, <3>1
    <3>3. \A n \in 1 .. Len(b.moves) : e.moves[n] \in MovePairs
      BY <2>3, <3>1
    <3> QED
      BY <3>1, <3>2, <3>3, SeqIs
  <2>5. \A j, k \in DOMAIN b.moves : b.moves[j].from = b.moves[k].from => j = k
    BY <1>2 DEF TrueMoves
  <2> QED
    BY <2>3, <2>4, <2>5 DEF MovesTaken
<1>10. InsertionsTaken(g, {}, b, e, s, u)
  <2>1. i < Len(u) /\ Unknown(u[i + 1], s)
    BY <1>0, <1>1
  <2> QED
    BY <1>2, <1>4, <1>6, <2>1 DEF InsertionsTaken
<1>11. Leads(e, s, u)
  BY <1>1, <1>3, <1>7, <1>8, <1>9, <1>10, LeadsStep
<1> QED
  BY <1>3, <1>11

\* So does the loss of an entry.
LEMMA EraseLeads ==
    ASSUME NEW s \in Seq(Nat), NEW t \in Seq(Nat), NEW b, Leads(b, s, t),
           NEW i \in 0 .. Len(t) - 1,
           NEW u, u = RemoveAt(t, i + 1), NEW e, e = ChangeErase(b, i)
    PROVE  Leads(e, s, u) /\ e.del = b.del \cup {o \in Nat \ b.del : Follows(b, o) = i}
<1>0. Len(t) \in Nat /\ i \in Nat
  BY LenProperties
<1>1. /\ u \in Seq(Nat) /\ Len(u) = Len(t) - 1
      /\ \A n \in 0 .. Len(t) - 1 : n # i => u[Down(n, i) + 1] = t[n + 1]
  <2>1. u \in Seq(Nat) /\ TakenOut(t, i, u)
    BY RemoveAtFacts
  <2> QED
    BY <2>1 DEF TakenOut
<1>2. Builder(b) /\ TrueMoves(b, s, t) /\ \A x \in b.ins : x \in Nat
  BY DEF Leads, Builder, Sets, PositionSet
<1>3. /\ Builder(e) /\ e.del = b.del \cup {o \in Nat \ b.del : Follows(b, o) = i}
      /\ \A o \in Nat \ e.del : Follows(e, o) = Down(Follows(b, o), i)
  <2>1. Builder(e) /\ Erased(b, e, i)
    BY <1>0, <1>2, ErasesFollow
  <2> QED
    BY <2>1 DEF Erased
<1>4. e.ins = {Down(x, i) : x \in b.ins \ {i}}
  BY <1>2 DEF ChangeErase, ErasePosition, Down, Builder
<1>5. PICK h : h = [x \in Nat |-> IF x = i THEN 0 ELSE Down(x, i)]
  OBVIOUS
<1>6. /\ \A x \in Nat : h[x] \in Nat
      /\ \A x \in Nat \ {i} : h[x] = Down(x, i) /\ Down(x, i) \in Nat
  BY <1>0, <1>5 DEF Down
<1>7. Takes(h, {i}, t, u)
  <2>1. h \in [Nat -> Nat]
    BY <1>5, <1>6
  <2>2. ASSUME NEW x \in Nat \ {i}
        PROVE  /\ x < Len(t) <=> h[x] < Len(u)
               /\ x < Len(t) => t[x + 1] = u[h[x] + 1]
    <3>1. x < Len(t) <=> Down(x, i) < Len(t) - 1
      BY <1>0 DEF Down
    <3>2. x < Len(t) => x \in 0 .. Len(t) - 1
      BY <1>0
    <3> QED
      BY <1>1, <1>6, <3>1, <3>2
  <2> QED
    BY <2>1, <2>2 DEF Takes
<1>8. TakenBy(h, {i}, b, e)
  <2>1. e.del = b.del \cup {o \in Nat \ b.del : Follows(b, o) \in {i}}
    BY <1>3
  <2>2. \A o \in Nat \ e.del : Follows(e, o) = h[Follows(b, o)]
    <3> TAKE o \in Nat \ e.del
    <3>1. o \in Nat \ b.del /\ Follows(b, o) # i
      BY <1>3
    <3>2. Follows(b, o) \in Nat
      BY <1>2, <3>1, FollowsFacts DEF Builder
    <3> QED
      BY <1>3, <1>6, <3>1, <3>2
  <2>3. \A x \in b.ins \ {i} : h[x] \in e.ins
    BY <1>2, <1>4, <1>6
  <2> QED
    BY <2>1, <2>2, <2>3 DEF TakenBy
<1>9. MovesTaken(h, {i}, b, e, s, u)
  <2> DEFINE K == {n \in DOMAIN b.moves : b.moves[n].to # i}
  <2>1. /\ b.moves \in Seq(MovePairs)
        /\ \A k \in DOMAIN b.moves : b.moves[k] \in MovePairs /\ b.moves[k].to \in Nat
    BY <1>2, MovePairsThere DEF TrueMoves
  <2>2. PICK r : r = Subsequence(b.moves, K)
    OBVIOUS
  <2>3. r \in Seq(MovePairs) /\ PartOf(r, b.moves, K)
    BY <2>1, <2>2, SubsequenceFacts
  <2>4. e.moves = [n \in DOMAIN r |-> [r[n] EXCEPT !.to = IF @ > i THEN @ - 1 ELSE @]]
    BY <1>2, <2>2 DEF ChangeErase, Builder
  <2>5. \A n \in DOMAIN r : r[n] \in MovePairs /\ r[n].to \in Nat \ {i}
    <3> TAKE n \in DOMAIN r
    <3>1. PICK k \in K : r[n] = b.moves[k]
      BY <2>3 DEF PartOf
    <3> QED
      BY <2>1, <3>1
  <2>6. \A n \in DOMAIN r :
            /\ e.moves[n] \in MovePairs
            /\ e.moves[n].from = r[n].from /\ e.moves[n].to = h[r[n].to]
    <3> TAKE n \in DOMAIN r
    <3>2. [r[n] EXCEPT !.to = IF @ > i THEN @ - 1 ELSE @]
            = [r[n] EXCEPT !.to = Down(r[n].to, i)]
      BY <1>0, <2>5 DEF Down
    <3>3. e.moves[n] = [r[n] EXCEPT !.to = Down(r[n].to, i)]
      BY <2>4, <3>2
    <3> QED
      BY <1>6, <2>5, <3>2, <3>3, MovePairFields
  <2>7. e.moves \in Seq(MovePairs) /\ DOMAIN e.moves = DOMAIN r
    <3>1. Len(r) \in Nat /\ DOMAIN r = 1 .. Len(r)
      BY <2>3, MovePairsThere
    <3>2. DOMAIN e.moves = 1 .. Len(r) /\ e.moves = [n \in DOMAIN e.moves |-> e.moves[n]]
      BY <2>4, <3>1
    <3>3. \A n \in 1 .. Len(r) : e.moves[n] \in MovePairs
      BY <2>6, <3>1
    <3> QED
      BY <3>1, <3>2, <3>3, SeqIs
  <2>8. \A j, k \in DOMAIN b.moves : b.moves[j].from = b.moves[k].from => j = k
    BY <1>2 DEF TrueMoves
  <2>9. \A n \in DOMAIN e.moves : \E k \in DOMAIN b.moves :
            /\ b.moves[k].to \notin {i} /\ e.moves[n].from = b.moves[k].from
            /\ e.moves[n].to = h[b.moves[k].to]
    <3> SUFFICES ASSUME NEW n \in DOMAIN r
                 PROVE  \E k \in DOMAIN b.moves :
                            /\ b.moves[k].to \notin {i} /\ e.moves[n].from = b.moves[k].from
                            /\ e.moves[n].to = h[b.moves[k].to]
      BY <2>7
    <3>1. PICK k \in K : r[n] = b.moves[k]
      BY <2>3 DEF PartOf
    <3>2. e.moves[n].from = r[n].from /\ e.moves[n].to = h[r[n].to]
      BY <2>6
    <3> QED
      BY <3>1, <3>2
  <2>10. \A j, k \in DOMAIN e.moves : e.moves[j].from = e.moves[k].from => j = k
    <3> SUFFICES ASSUME NEW j \in DOMAIN r, NEW k \in DOMAIN r, r[j].from = r[k].from, j # k
                 PROVE  FALSE
      BY <2>6, <2>7
    <3>1. PICK x \in K, y \in K : x # y /\ r[j] = b.moves[x] /\ r[k] = b.moves[y]
      BY <2>3 DEF PartOf
    <3> QED
      BY <2>8, <3>1
  <2>11. \A k \in DOMAIN b.moves :
            b.moves[k].to \notin {i} => \E n \in DOMAIN e.moves : e.moves[n].to = h[b.moves[k].to]
    <3> SUFFICES ASSUME NEW k \in K
                 PROVE  \E n \in DOMAIN e.moves : e.moves[n].to = h[b.moves[k].to]
      OBVIOUS
    <3>1. PICK n \in DOMAIN r : r[n] = b.moves[k]
      BY <2>3 DEF PartOf
    <3> QED
      BY <2>6, <2>7, <3>1
  <2> HIDE DEF K
  <2> QED
    BY <2>7, <2>9, <2>10, <2>11 DEF MovesTaken
<1>10. InsertionsTaken(h, {i}, b, e, s, u)
  BY <1>2, <1>4, <1>6 DEF InsertionsTaken
<1>11. Leads(e, s, u)
  BY <1>1, <1>3, <1>7, <1>8, <1>9, <1>10, LeadsStep
<1> QED
  BY <1>3, <1>11

\* Where the end of a move goes when the entry at from is moved to to.
Aside(y, from, to) == CASE y = from -> to
                        [] y >= to /\ y < from -> y + 1
                        [] y <= to /\ y > from -> y - 1
                        [] OTHER -> y

LEMMA AsideEnd ==
    ASSUME NEW y \in Nat, NEW from \in Nat, NEW to \in Nat
    PROVE  /\ Aside(y, from, to) \in Nat
           /\ Aside(y, from, to) = IF y = from THEN to ELSE Up(Down(y, from), to)
BY DEF Aside, Up, Down

\* e has the l moves of b, aside, and another if the entry had not been moved.
MovesAside(b, e, from, to, again, l) ==
    /\ l \in Nat /\ DOMAIN b.moves = 1 .. l
    /\ Len(e.moves) = IF again \/ from \in b.ins THEN l ELSE l + 1
    /\ e.moves \in Seq(MovePairs)
    /\ \A n \in 1 .. l : /\ e.moves[n].from = b.moves[n].from
                         /\ e.moves[n].to = Aside(b.moves[n].to, from, to)
    /\ ~again /\ from \notin b.ins =>
          /\ e.moves[l + 1].from = CameFrom(b, from) /\ e.moves[l + 1].to = to

LEMMA AsideIs ==
    ASSUME NEW b, Builder(b), b.moves \in Seq(MovePairs), NEW from \in Nat, NEW to \in Nat,
           NEW e, e = ChangeMove(b, from, to),
           NEW again, again = (\E n \in DOMAIN b.moves : b.moves[n].to = from),
           NEW l, l = Len(b.moves)
    PROVE  MovesAside(b, e, from, to, again, l)
<1>1. /\ l \in Nat /\ DOMAIN b.moves = 1 .. l
      /\ \A k \in 1 .. l : b.moves[k] \in MovePairs /\ b.moves[k].from \in Nat /\ b.moves[k].to \in Nat
  BY MovePairsThere
<1>2. PICK a : a = [n \in DOMAIN b.moves |-> [b.moves[n] EXCEPT !.to = Aside(@, from, to)]]
  OBVIOUS
<1>3. ASSUME NEW n \in 1 .. l
      PROVE  /\ a[n] \in MovePairs /\ a[n].from = b.moves[n].from
             /\ a[n].to = Aside(b.moves[n].to, from, to)
  <2>1. Aside(b.moves[n].to, from, to) \in Nat
    BY <1>1, AsideEnd
  <2>2. a[n] = [b.moves[n] EXCEPT !.to = Aside(b.moves[n].to, from, to)]
    BY <1>1, <1>2
  <2> QED
    BY <1>1, <2>1, <2>2, MovePairFields
<1>4. a \in Seq(MovePairs) /\ Len(a) = l
  <2>1. a \in [1 .. l -> MovePairs]
    <3>1. DOMAIN a = 1 .. l /\ a = [n \in 1 .. l |-> a[n]]
      BY <1>1, <1>2
    <3> QED
      BY <1>3, <3>1
  <2> QED
    BY <1>1, <2>1, SeqIs
<1>5. PICK new : new = [from |-> CameFrom(b, from), to |-> to]
  OBVIOUS
<1>6. e.moves = IF again \/ from \in b.ins THEN a ELSE Append(a, new)
  <2>1. DOMAIN b = {"del", "ins", "mod", "moves", "map"}
    BY DEF Builder
  <2> QED
    BY <1>2, <1>5, <2>1 DEF ChangeMove, CameFrom, Aside
<1>7. CASE again \/ from \in b.ins
  <2>1. e.moves = a
    BY <1>6, <1>7
  <2> QED
    BY <1>1, <1>3, <1>4, <1>7, <2>1 DEF MovesAside
<1>8. CASE ~again /\ from \notin b.ins
  <2>1. e.moves = Append(a, new)
    BY <1>6, <1>8
  <2>2. new \in MovePairs
    BY <1>5, <1>8, CameFromFacts DEF MovePairs, Builder
  <2>3. /\ e.moves \in Seq(MovePairs) /\ Len(e.moves) = l + 1 /\ e.moves[l + 1] = new
        /\ \A n \in 1 .. l : e.moves[n] = a[n]
    BY <1>1, <1>4, <2>1, <2>2
  <2>4. new.from = CameFrom(b, from) /\ new.to = to
    BY <1>5
  <2> QED
    BY <1>1, <1>3, <1>8, <2>3, <2>4 DEF MovesAside
<1> QED
  BY <1>7, <1>8

\* t with the entry at from taken to to.
SeqMoved(t, from, to, u) ==
    /\ Len(u) = Len(t) /\ u[to + 1] = t[from + 1]
    /\ \A x \in 0 .. Len(t) - 1 : x # from => u[Up(Down(x, from), to) + 1] = t[x + 1]

\* So does an entry going elsewhere.
LEMMA MoveLeads ==
    ASSUME NEW s \in Seq(Nat), NEW t \in Seq(Nat), NEW b, Leads(b, s, t),
           NEW from \in 0 .. Len(t) - 1, NEW to \in 0 .. Len(t) - 1,
           NEW u, u = InsertAt(RemoveAt(t, from + 1), to + 1, t[from + 1]),
           NEW e, e = ChangeMove(b, from, to)
    PROVE  u \in Seq(Nat) /\ Leads(e, s, u) /\ SeqMoved(t, from, to, u)
<1>0. Len(t) \in Nat /\ from \in Nat /\ to \in Nat
  BY LenProperties
<1>1. PICK w : w = RemoveAt(t, from + 1)
  OBVIOUS
<1>2. w \in Seq(Nat) /\ TakenOut(t, from, w)
  BY <1>1, RemoveAtFacts
<1>3. Len(w) = Len(t) - 1 /\ to \in 0 .. Len(w)
  BY <1>0, <1>2 DEF TakenOut
<1>4. PICK v : v = t[from + 1]
  OBVIOUS
<1>5. v \in Nat
  BY <1>0, <1>4
<1>6. u = InsertAt(w, to + 1, v)
  BY <1>1, <1>4
<1>7. u \in Seq(Nat) /\ PutIn(w, to, v, u)
  BY <1>2, <1>3, <1>5, <1>6, InsertAtFacts
<1>8. Len(u) = Len(t) /\ u[to + 1] = t[from + 1]
  BY <1>0, <1>3, <1>4, <1>7 DEF PutIn
<1>9. ASSUME NEW x \in 0 .. Len(t) - 1, x # from
      PROVE  u[Up(Down(x, from), to) + 1] = t[x + 1]
  <2>1. Down(x, from) \in 0 .. Len(w) - 1
    BY SMTT(20), <1>0, <1>3, <1>9 DEF Down
  <2>2. w[Down(x, from) + 1] = t[x + 1]
    BY <1>2, <1>9 DEF TakenOut
  <2>3. \A z \in 0 .. Len(w) - 1 : u[Up(z, to) + 1] = w[z + 1]
    BY <1>7 DEF PutIn
  <2> QED
    BY <2>1, <2>2, <2>3
<1>10. Builder(b) /\ Sets(b) /\ TrueMoves(b, s, t) /\ InsertionsTold(b, s, t) /\ Aligned(b, s, t)
       /\ \A x \in b.ins : x \in Nat
  BY DEF Leads, Builder, Sets, PositionSet
<1>11. PICK again : again = (\E n \in DOMAIN b.moves : b.moves[n].to = from)
  OBVIOUS
<1>12. again => from \in b.ins
  BY <1>10, <1>11 DEF TrueMoves, TrueMove
<1>13. Builder(e) /\ to \in e.ins /\ Moved(b, e, from, to)
  BY <1>0, <1>10, <1>11, <1>12, ListMovesFollow
<1>14. e.ins = {Up(Down(x, from), to) : x \in b.ins \ {from}} \cup {to}
  <2>1. e.ins = InsertPosition(ErasePosition(b.ins, from), to)
    BY <1>10 DEF ChangeMove, Builder
  <2>2. ErasePosition(b.ins, from) = {Down(x, from) : x \in b.ins \ {from}}
    BY DEF ErasePosition, Down
  <2>3. InsertPosition(ErasePosition(b.ins, from), to)
          = {Up(y, to) : y \in ErasePosition(b.ins, from)} \cup {to}
    BY DEF InsertPosition, ShiftForInsertAt, Up
  <2> QED
    BY <2>1, <2>2, <2>3
<1>15. PICK g : g = [x \in Nat |-> IF x = from THEN 0 ELSE Up(Down(x, from), to)]
  OBVIOUS
<1>16. /\ \A x \in Nat : g[x] \in Nat
       /\ \A x \in Nat \ {from} : g[x] = Up(Down(x, from), to)
  BY <1>0, <1>15 DEF Down, Up
<1>17. Takes(g, {from}, t, u)
  <2>1. g \in [Nat -> Nat]
    BY <1>15, <1>16
  <2>2. ASSUME NEW x \in Nat \ {from}
        PROVE  /\ x < Len(t) <=> g[x] < Len(u)
               /\ x < Len(t) => t[x + 1] = u[g[x] + 1]
    <3>1. x < Len(t) <=> Up(Down(x, from), to) < Len(t)
      BY <1>0 DEF Down, Up
    <3>2. x < Len(t) => x \in 0 .. Len(t) - 1 /\ x # from
      BY <1>0
    <3> QED
      BY <1>8, <1>9, <1>16, <3>1, <3>2
  <2> QED
    BY <2>1, <2>2 DEF Takes
<1>18. TakenBy(g, {from}, b, e)
  <2>1. e.del = b.del \cup {o \in Nat \ b.del : Follows(b, o) \in {from}}
    BY <1>13 DEF Moved
  <2>2. \A o \in Nat \ e.del : Follows(e, o) = g[Follows(b, o)]
    <3> TAKE o \in Nat \ e.del
    <3>1. o \in Nat \ b.del /\ Follows(b, o) # from
      BY <2>1
    <3>2. Follows(b, o) \in Nat
      BY <1>10, <3>1, FollowsFacts
    <3> QED
      BY <1>13, <1>16, <3>1, <3>2 DEF Moved
  <2>3. \A x \in b.ins \ {from} : g[x] \in e.ins
    BY <1>10, <1>14, <1>16
  <2> QED
    BY <2>1, <2>2, <2>3 DEF TakenBy
<1>19. PICK l : l = Len(b.moves)
  OBVIOUS
<1>20. /\ l \in Nat /\ DOMAIN b.moves = 1 .. l
       /\ Len(e.moves) = IF again \/ from \in b.ins THEN l ELSE l + 1
       /\ e.moves \in Seq(MovePairs)
       /\ \A n \in 1 .. l : /\ e.moves[n].from = b.moves[n].from
                            /\ e.moves[n].to = Aside(b.moves[n].to, from, to)
       /\ ~again /\ from \notin b.ins =>
             /\ e.moves[l + 1].from = CameFrom(b, from) /\ e.moves[l + 1].to = to
  <2>1. b.moves \in Seq(MovePairs)
    BY <1>10 DEF TrueMoves
  <2>2. MovesAside(b, e, from, to, again, l)
    BY <1>0, <1>10, <1>11, <1>19, <2>1, AsideIs
  <2> QED
    BY <2>2 DEF MovesAside
<1>21. /\ DOMAIN e.moves = 1 .. Len(e.moves)
       /\ \A k \in 1 .. l : k \in DOMAIN e.moves
       /\ \A k \in DOMAIN e.moves : k \in 1 .. l \/ (k = l + 1 /\ ~again /\ from \notin b.ins)
       /\ ~again /\ from \notin b.ins => l + 1 \in DOMAIN e.moves
  <2>1. DOMAIN e.moves = 1 .. Len(e.moves)
    BY <1>20, MovePairsThere
  <2> QED
    BY <1>20, <2>1
<1>22. \A k \in 1 .. l : /\ b.moves[k].to \in Nat
                         /\ e.moves[k].to = IF b.moves[k].to = from THEN to ELSE g[b.moves[k].to]
  <2> TAKE k \in 1 .. l
  <2>1. b.moves[k].to \in Nat
    BY <1>10, <1>20, MovePairsThere DEF TrueMoves
  <2>2. PICK y : y = b.moves[k].to
    OBVIOUS
  <2>3. y \in Nat /\ e.moves[k].to = Aside(y, from, to)
    BY <1>20, <2>1, <2>2
  <2>4. Aside(y, from, to) = IF y = from THEN to ELSE Up(Down(y, from), to)
    BY <1>0, <2>3, AsideEnd
  <2>5. y # from => g[y] = Up(Down(y, from), to)
    BY <1>16, <2>3
  <2> QED
    BY <2>2, <2>3, <2>4, <2>5
<1>23. PICK f : f = CameFrom(b, from)
  OBVIOUS
<1>24. ASSUME from \notin b.ins
       PROVE  /\ f \notin b.del /\ f \in e.del /\ f \in 0 .. Len(s) - 1
              /\ s[f + 1] = t[from + 1]
  <2>1. f \in Nat /\ f \notin b.del /\ Follows(b, f) = from
    BY <1>0, <1>10, <1>23, <1>24, CameFromFacts
  <2>2. f < Len(s) /\ s[f + 1] = t[from + 1]
    BY SMTT(20), <1>0, <1>10, <2>1 DEF Aligned
  <2>3. f \in 0 .. Len(s) - 1
    BY <2>1, <2>2, LenProperties
  <2> QED
    BY <1>13, <2>1, <2>2, <2>3 DEF Moved
<1>25. MovesTaken(g, {from}, b, e, s, u)
  <2>1. ASSUME NEW n \in 1 .. l
        PROVE  \/ TrueMove(e, e.moves[n], s, u)
               \/ \E k \in DOMAIN b.moves : /\ b.moves[k].to \notin {from}
                                            /\ e.moves[n].from = b.moves[k].from
                                            /\ e.moves[n].to = g[b.moves[k].to]
    <3>1. CASE b.moves[n].to # from
      BY <1>20, <1>22, <3>1
    <3>2. CASE b.moves[n].to = from
      <4>1. TrueMove(b, b.moves[n], s, t)
        BY <1>10, <1>20 DEF TrueMoves
      <4>2. PICK o : o = b.moves[n].from
        OBVIOUS
      <4>3. o \in b.del /\ o \in 0 .. Len(s) - 1 /\ s[o + 1] = t[from + 1]
        BY <3>2, <4>1, <4>2 DEF TrueMove
      <4>4. o \in e.del /\ to \in e.ins /\ to \in 0 .. Len(u) - 1 /\ s[o + 1] = u[to + 1]
        BY <1>8, <1>13, <4>3 DEF Moved
      <4>5. e.moves[n].from = o /\ e.moves[n].to = to
        BY <1>20, <1>22, <3>2, <4>2
      <4> QED
        BY <4>3, <4>4, <4>5 DEF TrueMove
    <3> QED
      BY <3>1, <3>2
  <2>2. ASSUME ~again, from \notin b.ins
        PROVE  TrueMove(e, e.moves[l + 1], s, u)
    <3>1. e.moves[l + 1].from = f /\ e.moves[l + 1].to = to
      BY <1>20, <1>23, <2>2
    <3>2. to \in e.ins /\ to \in 0 .. Len(u) - 1 /\ s[f + 1] = u[to + 1]
      BY <1>8, <1>13, <1>24, <2>2
    <3> QED
      BY <1>24, <2>2, <3>1, <3>2 DEF TrueMove
  <2>3. \A n \in DOMAIN e.moves :
         \/ TrueMove(e, e.moves[n], s, u)
         \/ \E k \in DOMAIN b.moves : /\ b.moves[k].to \notin {from}
                                      /\ e.moves[n].from = b.moves[k].from
                                      /\ e.moves[n].to = g[b.moves[k].to]
    BY <1>21, <2>1, <2>2
  <2>4. \A j, k \in DOMAIN e.moves : e.moves[j].from = e.moves[k].from => j = k
    <3>1. \A k \in 1 .. l : e.moves[k].from = b.moves[k].from /\ b.moves[k].from \in b.del
      BY <1>10, <1>20 DEF TrueMoves, TrueMove
    <3>2. ~again /\ from \notin b.ins => e.moves[l + 1].from \notin b.del
      BY <1>20, <1>23, <1>24
    <3>3. \A j, k \in 1 .. l : b.moves[j].from = b.moves[k].from => j = k
      BY <1>10, <1>20 DEF TrueMoves
    <3> SUFFICES ASSUME NEW j \in DOMAIN e.moves, NEW k \in DOMAIN e.moves,
                        e.moves[j].from = e.moves[k].from, j # k
                 PROVE  FALSE
      OBVIOUS
    <3>4. \/ j \in 1 .. l /\ k \in 1 .. l
          \/ (j = l + 1 \/ k = l + 1) /\ ~again /\ from \notin b.ins
      BY <1>21
    <3>5. CASE j \in 1 .. l /\ k \in 1 .. l
      BY <3>1, <3>3, <3>5
    <3>6. CASE (j = l + 1 \/ k = l + 1) /\ ~again /\ from \notin b.ins
      BY <1>21, <3>1, <3>2, <3>6
    <3> QED
      BY <3>4, <3>5, <3>6
  <2>5. \A k \in DOMAIN b.moves :
         b.moves[k].to \notin {from} => \E n \in DOMAIN e.moves : e.moves[n].to = g[b.moves[k].to]
    BY <1>20, <1>21, <1>22
  <2> QED
    BY <1>20, <2>3, <2>4, <2>5 DEF MovesTaken
<1>26. InsertionsTaken(g, {from}, b, e, s, u)
  <2>1. \A n \in e.ins : n = to \/ \E x \in b.ins \ {from} : n = g[x]
    BY <1>10, <1>14, <1>16
  <2>2. to < Len(u)
    BY <1>0, <1>8
  <2>3. Unknown(u[to + 1], s) \/ \E k \in DOMAIN e.moves : e.moves[k].to = to
    <3>1. CASE again
      <4>1. PICK k \in 1 .. l : b.moves[k].to = from
        BY <1>11, <1>20, <3>1
      <4> QED
        BY <1>21, <1>22, <4>1
    <3>2. CASE ~again /\ from \notin b.ins
      BY <1>20, <1>21, <3>2
    <3>3. CASE ~again /\ from \in b.ins
      BY <1>8, <1>10, <1>11, <3>3 DEF InsertionsTold
    <3> QED
      BY <3>1, <3>2, <3>3
  <2> QED
    BY <2>1, <2>2, <2>3 DEF InsertionsTaken
<1>27. Leads(e, s, u)
  BY <1>7, <1>13, <1>17, <1>18, <1>25, <1>26, LeadsStep
<1> QED
  BY <1>7, <1>8, <1>9, <1>27 DEF SeqMoved

\* There is a function as a recursion from 0 to n describes it.
Recursion(f, size, S, init, step) ==
    /\ f \in [0 .. size -> S]
    /\ f = [n \in 0 .. size |-> IF n = 0 THEN init ELSE step[n][f[n - 1]]]

LEMMA RecursiveFunction ==
    ASSUME NEW size \in Nat, NEW S, NEW init \in S, NEW step \in [1 .. size -> [S -> S]]
    PROVE  \E f : Recursion(f, size, S, init, step)
<1> DEFINE Has(k) == \E f \in [0 .. k -> S] :
                        f = [n \in 0 .. k |-> IF n = 0 THEN init ELSE step[n][f[n - 1]]]
           T == {k \in 0 .. size : ~Has(k)}
<1>1. SUFFICES ASSUME T # {}
               PROVE  FALSE
  <2>1. size \in 0 .. size
    OBVIOUS
  <2> QED
    BY <1>1, <2>1 DEF Recursion
<1>2. T \in SUBSET Nat
  OBVIOUS
<1>3. PICK k \in T : \A l \in T : k <= l
  <2> HIDE DEF T
  <2> QED
    BY <1>1, <1>2, LeastNumber
<1>4. k \in 0 .. size /\ ~Has(k)
  OBVIOUS
<1>5. k # 0
  <2>1. PICK f : f = [n \in 0 .. 0 |-> init]
    OBVIOUS
  <2>2. f \in [0 .. 0 -> S] /\ f = [n \in 0 .. 0 |-> IF n = 0 THEN init ELSE step[n][f[n - 1]]]
    BY <2>1
  <2> QED
    BY <1>4, <2>2
<1>6. k - 1 \in 0 .. size /\ Has(k - 1)
  <2>1. k - 1 \in 0 .. size /\ ~(k <= k - 1)
    BY <1>4, <1>5
  <2> QED
    BY <1>3, <2>1
<1>7. PICK f \in [0 .. k - 1 -> S] :
            f = [n \in 0 .. k - 1 |-> IF n = 0 THEN init ELSE step[n][f[n - 1]]]
  BY <1>6
<1>8. PICK g : g = [n \in 0 .. k |-> IF n = 0 THEN init ELSE step[n][f[n - 1]]]
  OBVIOUS
<1>9. \A n \in 0 .. k - 1 : g[n] = f[n] /\ n \in 0 .. k
  <2> TAKE n \in 0 .. k - 1
  <2>1. n \in 0 .. k
    BY <1>4
  <2>2. g[n] = IF n = 0 THEN init ELSE step[n][f[n - 1]]
    BY <1>8, <2>1
  <2>3. f[n] = IF n = 0 THEN init ELSE step[n][f[n - 1]]
    BY <1>7
  <2> QED
    BY <2>1, <2>2, <2>3
<1>10. \A n \in 0 .. k : n # 0 => n - 1 \in 0 .. k - 1 /\ n \in 1 .. size
  BY <1>4
<1>11. g \in [0 .. k -> S]
  <2>1. ASSUME NEW n \in 0 .. k, n # 0
        PROVE  step[n][f[n - 1]] \in S
    <3>1. n - 1 \in 0 .. k - 1 /\ n \in 1 .. size
      BY <1>10, <2>1
    <3>2. f[n - 1] \in S /\ step[n] \in [S -> S]
      BY <1>7, <3>1
    <3> QED
      BY <3>2
  <2> QED
    BY <1>8, <2>1
<1>12. g = [n \in 0 .. k |-> IF n = 0 THEN init ELSE step[n][g[n - 1]]]
  <2>1. \A n \in 0 .. k : (IF n = 0 THEN init ELSE step[n][f[n - 1]])
                            = IF n = 0 THEN init ELSE step[n][g[n - 1]]
    BY <1>9, <1>10
  <2> QED
    BY <1>8, <2>1
<1> QED
  BY <1>4, <1>11, <1>12

-----------------------------------------------------------------------------
(* clean_up_stale_moves, one move after the other. *)
Cleaned(f, b) ==
    /\ f[0] = [b EXCEPT !.moves = << >>]
    /\ \A n \in 1 .. Len(b.moves) : f[n] = CleanUpMove(f[n - 1], b.moves[n])

LEMMA CleanUpRuns ==
    ASSUME NEW b, Builder(b), b.moves \in Seq(MovePairs), NEW e, e = CleanUpStaleMoves(b)
    PROVE  \E f : Cleaned(f, b) /\ e = f[Len(b.moves)]
<1> DEFINE size == Len(b.moves)
           init == [b EXCEPT !.moves = << >>]
           S == [del : SUBSET b.del, ins : SUBSET b.ins, mod : {b.mod},
                 moves : Seq(MovePairs), map : {b.map}]
           step == [n \in 1 .. size |-> [x \in S |-> CleanUpMove(x, b.moves[n])]]
           F(f) == f = [n \in 0 .. size |-> IF n = 0 THEN init ELSE CleanUpMove(f[n - 1], b.moves[n])]
<1>1. size \in Nat /\ \A n \in 1 .. size : b.moves[n] \in MovePairs
  BY MovePairsThere
<1>2. init \in S
  <2>1. << >> \in Seq(MovePairs)
    OBVIOUS
  <2> QED
    BY <2>1 DEF Builder
<1>3. ASSUME NEW n \in 1 .. size, NEW x \in S
      PROVE  CleanUpMove(x, b.moves[n]) \in S
  <2>1. PICK m : m = b.moves[n] /\ m \in MovePairs
    BY <1>1
  <2>2. Append(x.moves, m) \in Seq(MovePairs)
    BY <2>1
  <2> QED
    BY <2>1, <2>2 DEF CleanUpMove
<1>4. step \in [1 .. size -> [S -> S]]
  BY <1>3
<1> HIDE DEF S
<1>5. \E f : Recursion(f, size, S, init, step)
  <2> HIDE DEF step, init, size
  <2> QED
    BY <1>1, <1>2, <1>4, RecursiveFunction
<1>6. PICK f \in [0 .. size -> S] :
         f = [n \in 0 .. size |-> IF n = 0 THEN init ELSE step[n][f[n - 1]]]
  BY <1>5 DEF Recursion
<1>7. F(f)
  <2>1. \A n \in 0 .. size : n # 0 => /\ n \in 1 .. size /\ f[n - 1] \in S
                                      /\ step[n][f[n - 1]] = CleanUpMove(f[n - 1], b.moves[n])
    <3> SUFFICES ASSUME NEW n \in 0 .. size, n # 0
                 PROVE  /\ n \in 1 .. size /\ f[n - 1] \in S
                        /\ step[n][f[n - 1]] = CleanUpMove(f[n - 1], b.moves[n])
      OBVIOUS
    <3>1. n \in 1 .. size /\ n - 1 \in 0 .. size
      BY <1>1
    <3>2. f[n - 1] \in S
      BY <3>1
    <3> QED
      BY <3>1, <3>2
  <2> HIDE DEF step
  <2> QED
    BY <1>6, <2>1
<1>8. PICK g : g = (CHOOSE h : F(h))
  OBVIOUS
<1>9. F(g)
  BY <1>7, <1>8
<1>10. e = g[size]
  BY <1>8 DEF CleanUpStaleMoves
<1>11. Cleaned(g, b)
  <2>1. 0 \in 0 .. size /\ \A n \in 1 .. size : n \in 0 .. size /\ n # 0
    BY <1>1
  <2> QED
    BY <1>9, <2>1 DEF Cleaned
<1> QED
  BY <1>10, <1>11

\* What is left after the first n moves: those kept are moves, and so are those to
\* come, which tell of the insertions with them.
CleanedTo(x, n, b, s, t) ==
    /\ Builder(x) /\ Aligned(x, s, t) /\ x.mod = b.mod /\ x.map = b.map
    /\ x.moves \in Seq(MovePairs)
    /\ \A k \in DOMAIN x.moves : /\ TrueMove(x, x.moves[k], s, t)
                                 /\ \E j \in 1 .. n : x.moves[k].from = b.moves[j].from
    /\ \A j, k \in DOMAIN x.moves : x.moves[j].from = x.moves[k].from => j = k
    /\ \A j \in n + 1 .. Len(b.moves) : TrueMove(x, b.moves[j], s, t)
    /\ \A i \in x.ins : /\ i < Len(t)
                        /\ \/ Unknown(t[i + 1], s)
                           \/ \E k \in DOMAIN x.moves : x.moves[k].to = i
                           \/ \E j \in n + 1 .. Len(b.moves) : b.moves[j].to = i

LEMMA CleanUpStep ==
    ASSUME NEW s \in Seq(Nat), NEW t \in Seq(Nat), Distinct(s), NEW b, TrueMoves(b, s, t),
           NEW x, NEW n \in Nat, CleanedTo(x, n, b, s, t), n + 1 <= Len(b.moves),
           NEW y, y = CleanUpMove(x, b.moves[n + 1])
    PROVE  CleanedTo(y, n + 1, b, s, t)
<1>0. PICK l : l = Len(b.moves) /\ l \in Nat /\ DOMAIN b.moves = 1 .. l
  BY MovePairsThere DEF TrueMoves
<1>1. PICK m : m = b.moves[n + 1]
  OBVIOUS
<1>2. PICK d, p : d = m.from /\ p = m.to
  OBVIOUS
<1>3. /\ n + 1 \in 1 .. l /\ n + 1 \in n + 1 .. l
      /\ \A j \in 1 .. n : j \in 1 .. l /\ j # n + 1
      /\ \A j \in n + 2 .. l : j \in 1 .. l /\ j # n + 1 /\ j \in n + 1 .. l
      /\ \A j \in n + 1 .. l : j = n + 1 \/ j \in n + 2 .. l
      /\ n + 1 + 1 = n + 2
      /\ \A j \in 1 .. n : j \in 1 .. n + 1
      /\ n + 1 \in 1 .. n + 1
  BY <1>0
<1>4. /\ d \in x.del /\ p \in x.ins /\ d \in 0 .. Len(s) - 1 /\ p \in 0 .. Len(t) - 1
      /\ s[d + 1] = t[p + 1]
  BY <1>0, <1>1, <1>2, <1>3 DEF CleanedTo, TrueMove
<1>5. m \in MovePairs
  BY <1>0, <1>1, <1>3, MovePairsThere DEF TrueMoves
<1>6. \A j, k \in 1 .. l : /\ b.moves[j].from = b.moves[k].from => j = k
                           /\ b.moves[j].to = b.moves[k].to => j = k
  BY <1>0, MovesApart DEF TrueMoves
<1>7. Builder(x) /\ x.moves \in Seq(MovePairs)
  BY DEF CleanedTo
<1>8. DOMAIN x = {"del", "ins", "mod", "moves", "map"}
  BY <1>7 DEF Builder
<1>9. CASE Unshift(x.del, d) = Unshift(x.ins, p)
  <2>1. Builder(y) /\ d \notin y.del /\ Follows(y, d) = p
        /\ \A o \in Nat \ x.del : Follows(y, o) = Follows(x, o)
    <3>1. Builder(y) /\ TakenOff(x, y, m)
      BY <1>1, <1>2, <1>4, <1>7, <1>9, StaleMovesFollow
    <3> QED
      BY <1>2, <3>1 DEF TakenOff
  <2>2. y.del = x.del \ {d} /\ y.ins = x.ins \ {p} /\ y.mod = x.mod /\ y.map = x.map /\ y.moves = x.moves
    BY <1>1, <1>2, <1>8, <1>9 DEF CleanUpMove
  <2>3. Aligned(y, s, t)
    <3> SUFFICES ASSUME NEW o \in Nat \ y.del
                 PROVE  /\ o < Len(s) <=> Follows(y, o) < Len(t)
                        /\ o < Len(s) => s[o + 1] = t[Follows(y, o) + 1]
      BY DEF Aligned
    <3>1. CASE o = d
      BY <1>4, <2>1, <3>1, LenProperties
    <3>2. CASE o # d
      <4>1. o \in Nat \ x.del /\ Follows(y, o) = Follows(x, o)
        BY <2>1, <2>2, <3>2
      <4> QED
        BY <4>1 DEF Aligned, CleanedTo
    <3> QED
      BY <3>1, <3>2
  <2>4. ASSUME NEW k \in DOMAIN x.moves
        PROVE  /\ TrueMove(y, x.moves[k], s, t)
               /\ \E j \in 1 .. n + 1 : x.moves[k].from = b.moves[j].from
    <3>1. PICK j \in 1 .. n : x.moves[k].from = b.moves[j].from
      BY DEF CleanedTo
    <3>2. TrueMove(x, x.moves[k], s, t) /\ TrueMove(b, b.moves[j], s, t)
      BY <1>0, <1>3 DEF CleanedTo, TrueMoves
    <3>3. x.moves[k].from # d
      BY <1>1, <1>2, <1>3, <1>6, <3>1
    <3>4. x.moves[k].to # p
      <4> SUFFICES ASSUME x.moves[k].to = p
                   PROVE  FALSE
        OBVIOUS
      <4>1. PICK o : o = x.moves[k].from
        OBVIOUS
      <4>2. o \in 0 .. Len(s) - 1 /\ s[o + 1] = s[d + 1]
        BY <1>4, <3>2, <4>1 DEF TrueMove
      <4>3. Len(s) \in Nat
        BY LenProperties
      <4>4. o + 1 \in 1 .. Len(s) /\ d + 1 \in 1 .. Len(s)
        BY <1>4, <4>2, <4>3
      <4>5. o + 1 = d + 1
        BY <4>2, <4>4 DEF Distinct
      <4>6. o = d
        BY <1>4, <4>2, <4>3, <4>5
      <4> QED
        BY <3>3, <4>1, <4>6
    <3>5. TrueMove(y, x.moves[k], s, t)
      BY <2>2, <3>2, <3>3, <3>4 DEF TrueMove
    <3> QED
      BY <1>3, <3>1, <3>5
  <2>5. \A j \in n + 2 .. l : TrueMove(y, b.moves[j], s, t)
    <3> TAKE j \in n + 2 .. l
    <3>1. TrueMove(x, b.moves[j], s, t)
      BY <1>0, <1>3 DEF CleanedTo
    <3>2. b.moves[j].from # d /\ b.moves[j].to # p
      BY <1>1, <1>2, <1>3, <1>6
    <3> QED
      BY <2>2, <3>1, <3>2 DEF TrueMove
  <2>6. ASSUME NEW i \in y.ins
        PROVE  /\ i < Len(t)
               /\ \/ Unknown(t[i + 1], s)
                  \/ \E k \in DOMAIN x.moves : x.moves[k].to = i
                  \/ \E j \in n + 2 .. l : b.moves[j].to = i
    <3>1. i \in x.ins /\ i # p
      BY <2>2
    <3>2. /\ i < Len(t)
          /\ \/ Unknown(t[i + 1], s)
             \/ \E k \in DOMAIN x.moves : x.moves[k].to = i
             \/ \E j \in n + 1 .. l : b.moves[j].to = i
      BY <1>0, <3>1 DEF CleanedTo
    <3> QED
      BY <1>1, <1>2, <1>3, <3>1, <3>2
  <2>7. /\ y.moves \in Seq(MovePairs)
        /\ \A j, k \in DOMAIN y.moves : y.moves[j].from = y.moves[k].from => j = k
        /\ y.mod = b.mod /\ y.map = b.map
    BY <2>2 DEF CleanedTo
  <2>8. \A k \in DOMAIN y.moves : /\ TrueMove(y, y.moves[k], s, t)
                                  /\ \E j \in 1 .. n + 1 : y.moves[k].from = b.moves[j].from
    BY <2>2, <2>4
  <2>9. \A i \in y.ins : /\ i < Len(t)
                         /\ \/ Unknown(t[i + 1], s)
                            \/ \E k \in DOMAIN y.moves : y.moves[k].to = i
                            \/ \E j \in n + 2 .. l : b.moves[j].to = i
    BY <2>2, <2>6
  <2>10. (n + 1) + 1 .. Len(b.moves) = n + 2 .. l
    BY <1>0, <1>3
  <2>11. \A j \in (n + 1) + 1 .. Len(b.moves) : TrueMove(y, b.moves[j], s, t)
    BY Zenon, <2>5, <2>10
  <2>12. \A i \in y.ins : /\ i < Len(t)
                          /\ \/ Unknown(t[i + 1], s)
                             \/ \E k \in DOMAIN y.moves : y.moves[k].to = i
                             \/ \E j \in (n + 1) + 1 .. Len(b.moves) : b.moves[j].to = i
    BY Zenon, <2>9, <2>10
  <2> QED
    BY ZenonT(30), <2>1, <2>3, <2>7, <2>8, <2>11, <2>12 DEF CleanedTo
<1>10. CASE Unshift(x.del, d) # Unshift(x.ins, p)
  <2>1. y = [x EXCEPT !.moves = Append(x.moves, m)]
    BY <1>1, <1>2, <1>10 DEF CleanUpMove
  <2>2. /\ y.del = x.del /\ y.ins = x.ins /\ y.mod = x.mod /\ y.map = x.map
        /\ y.moves = Append(x.moves, m)
        /\ y = [del |-> y.del, ins |-> y.ins, mod |-> y.mod, moves |-> y.moves, map |-> y.map]
    BY <1>7, <2>1 DEF Builder
  <2> HIDE <2>1
  <2>3. Builder(y)
    BY <1>7, <2>2 DEF Builder, Sets
  <2>4. Aligned(y, s, t)
    BY <2>2 DEF CleanedTo, Aligned, Follows
  <2>5. PICK q : q = Len(x.moves) /\ q \in Nat /\ DOMAIN x.moves = 1 .. q
    BY <1>7, MovePairsThere
  <2>6. /\ y.moves \in Seq(MovePairs) /\ DOMAIN y.moves = 1 .. q + 1
        /\ \A k \in 1 .. q : y.moves[k] = x.moves[k]
        /\ y.moves[q + 1] = m
    BY <1>5, <1>7, <2>2, <2>5
  <2>7. \A k \in 1 .. q + 1 : k \in 1 .. q \/ k = q + 1
    BY <2>5
  <2>8. ASSUME NEW k \in 1 .. q
        PROVE  /\ TrueMove(y, x.moves[k], s, t)
               /\ \E j \in 1 .. n : x.moves[k].from = b.moves[j].from
    BY <2>2, <2>5 DEF CleanedTo, TrueMove
  <2>9. TrueMove(y, m, s, t)
    BY <1>2, <1>4, <2>2 DEF TrueMove
  <2>10. \A k \in DOMAIN y.moves : /\ TrueMove(y, y.moves[k], s, t)
                                   /\ \E j \in 1 .. n + 1 : y.moves[k].from = b.moves[j].from
    <3> SUFFICES ASSUME NEW k \in 1 .. q + 1
                 PROVE  /\ TrueMove(y, y.moves[k], s, t)
                        /\ \E j \in 1 .. n + 1 : y.moves[k].from = b.moves[j].from
      BY <2>6
    <3>1. CASE k \in 1 .. q
      <4>1. PICK j \in 1 .. n : x.moves[k].from = b.moves[j].from
        BY <2>8, <3>1
      <4>2. y.moves[k] = x.moves[k] /\ j \in 1 .. n + 1
        BY <1>3, <2>6, <3>1
      <4>3. TrueMove(y, x.moves[k], s, t)
        BY <2>8, <3>1
      <4> QED
        BY <4>1, <4>2, <4>3
    <3>2. CASE k = q + 1
      BY <1>1, <1>3, <2>6, <2>9, <3>2
    <3> QED
      BY <2>7, <3>1, <3>2
  <2>11. \A j, k \in DOMAIN y.moves : y.moves[j].from = y.moves[k].from => j = k
    <3>1. \A k \in 1 .. q : y.moves[k].from # d
      <4> TAKE k \in 1 .. q
      <4>1. PICK j \in 1 .. n : x.moves[k].from = b.moves[j].from
        BY <2>8
      <4>2. b.moves[j].from # b.moves[n + 1].from
        BY <1>3, <1>6
      <4> QED
        BY <1>1, <1>2, <2>6, <4>1, <4>2
    <3>2. \A j, k \in 1 .. q : y.moves[j].from = y.moves[k].from => j = k
      <4>1. \A j, k \in 1 .. q : x.moves[j].from = x.moves[k].from => j = k
        BY <2>5 DEF CleanedTo
      <4> QED
        BY <2>6, <4>1
    <3>3. y.moves[q + 1].from = d
      BY <1>2, <2>6
    <3> SUFFICES ASSUME NEW j \in 1 .. q + 1, NEW k \in 1 .. q + 1,
                        y.moves[j].from = y.moves[k].from, j # k
                 PROVE  FALSE
      BY <2>6
    <3> QED
      BY <2>7, <3>1, <3>2, <3>3
  <2>12. \A j \in n + 2 .. l : TrueMove(y, b.moves[j], s, t)
    BY <1>0, <1>3, <2>2 DEF CleanedTo, TrueMove
  <2>13. ASSUME NEW i \in y.ins
         PROVE  /\ i < Len(t)
                /\ \/ Unknown(t[i + 1], s)
                   \/ \E k \in DOMAIN y.moves : y.moves[k].to = i
                   \/ \E j \in n + 2 .. l : b.moves[j].to = i
    <3>1. /\ i < Len(t)
          /\ \/ Unknown(t[i + 1], s)
             \/ \E k \in DOMAIN x.moves : x.moves[k].to = i
             \/ \E j \in n + 1 .. l : b.moves[j].to = i
      BY <1>0, <2>2 DEF CleanedTo
    <3>2. q + 1 \in 1 .. q + 1 /\ \A k \in 1 .. q : k \in 1 .. q + 1
      BY <2>5
    <3>3. ASSUME NEW k \in DOMAIN x.moves, x.moves[k].to = i
          PROVE  \E z \in DOMAIN y.moves : y.moves[z].to = i
      BY <2>5, <2>6, <3>2, <3>3
    <3>4. ASSUME b.moves[n + 1].to = i
          PROVE  \E z \in DOMAIN y.moves : y.moves[z].to = i
      BY <1>1, <2>6, <3>2, <3>4
    <3> QED
      BY <1>3, <3>1, <3>3, <3>4
  <2>14. y.mod = b.mod /\ y.map = b.map
    BY <2>2 DEF CleanedTo
  <2>15. (n + 1) + 1 .. Len(b.moves) = n + 2 .. l
    BY <1>0, <1>3
  <2>16. \A j \in (n + 1) + 1 .. Len(b.moves) : TrueMove(y, b.moves[j], s, t)
    BY Zenon, <2>12, <2>15
  <2>17. \A i \in y.ins : /\ i < Len(t)
                          /\ \/ Unknown(t[i + 1], s)
                             \/ \E k \in DOMAIN y.moves : y.moves[k].to = i
                             \/ \E j \in (n + 1) + 1 .. Len(b.moves) : b.moves[j].to = i
    BY Zenon, <2>13, <2>15
  <2>18. y.moves \in Seq(MovePairs)
    BY <2>6
  <2> QED
    BY ZenonT(30), <2>3, <2>4, <2>10, <2>11, <2>14, <2>16, <2>17, <2>18 DEF CleanedTo
<1> QED
  BY <1>9, <1>10

(* clean_up_stale_moves (collection_change_builder.cpp:142-154) leaves a change set
   of the same two collections. *)
THEOREM CleanUpLeads ==
    ASSUME NEW s \in Seq(Nat), NEW t \in Seq(Nat), Distinct(s), NEW b, Leads(b, s, t),
           NEW e, e = CleanUpStaleMoves(b)
    PROVE  Leads(e, s, t) /\ e.mod = b.mod /\ e.map = b.map
<1>1. Builder(b) /\ Aligned(b, s, t) /\ TrueMoves(b, s, t) /\ InsertionsTold(b, s, t)
  BY DEF Leads
<1>2. b.moves \in Seq(MovePairs)
  BY <1>1 DEF TrueMoves
<1>3. PICK l : l = Len(b.moves) /\ l \in Nat /\ DOMAIN b.moves = 1 .. l
  BY <1>2, MovePairsThere
<1>4. PICK f : Cleaned(f, b) /\ e = f[l]
  BY <1>1, <1>2, <1>3, CleanUpRuns
<1>5. CleanedTo(f[0], 0, b, s, t)
  <2>1. f[0] = [b EXCEPT !.moves = << >>]
    BY <1>4 DEF Cleaned
  <2>2. PICK x : x = f[0]
    OBVIOUS
  <2>3. /\ x.del = b.del /\ x.ins = b.ins /\ x.mod = b.mod /\ x.map = b.map /\ x.moves = << >>
        /\ x = [del |-> x.del, ins |-> x.ins, mod |-> x.mod, moves |-> x.moves, map |-> x.map]
    BY <1>1, <2>1, <2>2 DEF Builder
  <2> HIDE <2>1
  <2>4. Builder(x) /\ Aligned(x, s, t)
    BY <1>1, <2>3 DEF Builder, Sets, Aligned, Follows
  <2>5. x.moves \in Seq(MovePairs) /\ DOMAIN x.moves = {}
    BY <2>3
  <2>6. \A j \in 0 + 1 .. l : TrueMove(x, b.moves[j], s, t)
    BY <1>1, <1>3, <2>3 DEF TrueMoves, TrueMove
  <2>7. \A i \in x.ins : i < Len(t) /\ (Unknown(t[i + 1], s) \/ \E j \in 0 + 1 .. l : b.moves[j].to = i)
    BY <1>1, <1>3, <2>3 DEF InsertionsTold
  <2>8. CleanedTo(x, 0, b, s, t)
    BY <1>3, <2>3, <2>4, <2>5, <2>6, <2>7 DEF CleanedTo
  <2> QED
    BY <2>2, <2>8
<1>6. \A n \in 0 .. l : CleanedTo(f[n], n, b, s, t)
  <2> DEFINE T == {n \in 0 .. l : ~CleanedTo(f[n], n, b, s, t)}
  <2>1. SUFFICES ASSUME T # {}
                 PROVE  FALSE
    OBVIOUS
  <2>2. PICK k \in T : \A j \in T : k <= j
    <3>1. T \in SUBSET Nat
      BY <1>3
    <3> HIDE DEF T
    <3> QED
      BY <2>1, <3>1, LeastNumber
  <2>3. k \in 0 .. l /\ k # 0
    BY <1>5
  <2>4. k - 1 \in 0 .. l /\ k - 1 \in Nat /\ k - 1 + 1 = k /\ k \in 1 .. l /\ k <= l
    BY <1>3, <2>3
  <2>5. CleanedTo(f[k - 1], k - 1, b, s, t)
    <3>1. ~(k <= k - 1)
      BY <2>4
    <3> QED
      BY <2>2, <2>4, <3>1
  <2>6. f[k] = CleanUpMove(f[k - 1], b.moves[k])
    BY <1>3, <1>4, <2>4 DEF Cleaned
  <2>7. PICK n : n = k - 1
    OBVIOUS
  <2>8. n \in Nat /\ n + 1 = k /\ n + 1 <= l
    BY <2>4, <2>7
  <2>9. CleanedTo(f[n], n, b, s, t) /\ f[k] = CleanUpMove(f[n], b.moves[n + 1])
    BY <2>5, <2>6, <2>7, <2>8
  <2>10. CleanedTo(f[k], n + 1, b, s, t)
    BY <1>1, <1>3, <2>8, <2>9, CleanUpStep
  <2> QED
    BY <2>2, <2>8, <2>10
<1>7. CleanedTo(e, l, b, s, t)
  BY <1>3, <1>4, <1>6
<1>8. l + 1 .. l = {}
  BY <1>3
<1>9. Builder(e) /\ Aligned(e, s, t) /\ e.mod = b.mod /\ e.map = b.map
  BY <1>7 DEF CleanedTo
<1>10. TrueMoves(e, s, t)
  BY <1>7 DEF CleanedTo, TrueMoves
<1>11. InsertionsTold(e, s, t)
  BY <1>3, <1>7, <1>8 DEF CleanedTo, InsertionsTold
<1> QED
  BY <1>9, <1>10, <1>11 DEF Leads

-----------------------------------------------------------------------------
(* merge: the old moves are followed one after the other. *)

\* A sequence whose last element took the place of the one at x.
LastMoved(r, x, q) ==
    /\ Len(q) = Len(r) - 1 /\ DOMAIN q = 1 .. Len(r) - 1
    /\ \A n \in 1 .. Len(r) - 1 : q[n] = r[IF n = x THEN Len(r) ELSE n]

LEMMA LastMovedIs ==
    ASSUME NEW T, NEW r \in Seq(T), NEW x \in 1 .. Len(r), NEW q, q = Front([r EXCEPT ![x] = Last(r)])
    PROVE  q \in Seq(T) /\ LastMoved(r, x, q)
<1>0. PICK size : size = Len(r) /\ size \in Nat
  BY LenProperties
<1>1. PICK end : end = size - 1
  OBVIOUS
<1>2. PICK v : v = r[size]
  OBVIOUS
<1>3. PICK moved : moved = [r EXCEPT ![x] = v]
  OBVIOUS
<1>4. v \in T
  BY <1>0, <1>2
<1>5. /\ moved \in Seq(T) /\ Len(moved) = size
      /\ \A n \in 1 .. size : moved[n] = r[IF n = x THEN size ELSE n]
  BY <1>0, <1>2, <1>3, <1>4
<1>6. q = SubSeq(moved, 1, end)
  BY <1>0, <1>1, <1>2, <1>3, <1>5 DEF Front, Last
<1>7. end \in Nat /\ end + 1 = size
  BY <1>0, <1>1
<1>8. \A n \in 1 .. end : moved[n] \in T /\ n \in 1 .. size
  BY <1>5, <1>7
<1>9. end \in Int /\ 1 \in Int /\ end - 1 + 1 = end /\ (end < 1 => end = 0)
  BY <1>7
<1>10. /\ q \in Seq(T)
       /\ Len(q) = IF 1 <= end THEN end - 1 + 1 ELSE 0
       /\ \A n \in 1 .. end - 1 + 1 : q[n] = moved[1 + n - 1]
  <2>1. \A n \in 1 .. end : moved[n] \in T
    BY <1>8
  <2>2. PICK z : z = SubSeq(moved, 1, end)
    OBVIOUS
  <2>3. /\ z \in Seq(T)
        /\ Len(z) = IF 1 <= end THEN end - 1 + 1 ELSE 0
        /\ \A n \in 1 .. end - 1 + 1 : z[n] = moved[1 + n - 1]
    <3> HIDE <1>5, <1>3, <1>6, <1>2
    <3> QED
      BY <1>9, <2>1, <2>2, SubSeqProperties
  <2> QED
    BY <1>6, <2>2, <2>3
<1>11. \A n \in 1 .. end : 1 + n - 1 = n /\ n \in 1 .. end - 1 + 1
  BY <1>7
<1>12. Len(q) = end
  BY <1>7, <1>9, <1>10
<1>13. \A n \in 1 .. end : q[n] = r[IF n = x THEN size ELSE n]
  BY <1>5, <1>8, <1>10, <1>11
<1>14. DOMAIN q = 1 .. end
  BY <1>10, <1>12, LenProperties
<1> QED
  BY <1>0, <1>1, <1>10, <1>12, <1>13, <1>14 DEF LastMoved

\* The first of the moves that begins at p, if there is one.
StartsAt(moves, p, n) ==
    /\ n \in 0 .. Len(moves)
    /\ n # 0 => moves[n].from = p
    /\ n = 0 => \A k \in 1 .. Len(moves) : moves[k].from # p

LEMMA StartsAtIs ==
    ASSUME NEW moves \in Seq(MovePairs), NEW p, NEW n,
           n = SelectInSeq(moves, LAMBDA m : m.from = p)
    PROVE  StartsAt(moves, p, n)
<1> DEFINE I == {k \in 1 .. Len(moves) : moves[k].from = p}
<1>0. Len(moves) \in Nat
  BY LenProperties
<1>1. n = IF I # {} THEN CHOOSE x \in I : \A y \in I : x <= y ELSE 0
  BY DEF SelectInSeq, Min
<1>2. CASE I = {}
  <2>1. n = 0
    BY <1>1, <1>2
  <2>2. \A k \in 1 .. Len(moves) : moves[k].from # p
    BY <1>2
  <2> HIDE DEF I
  <2> QED
    BY <1>0, <2>1, <2>2 DEF StartsAt
<1>3. CASE I # {}
  <2>1. I \in SUBSET Nat
    BY <1>0
  <2> HIDE DEF I
  <2>2. \E x \in I : \A y \in I : x <= y
    BY <1>3, <2>1, LeastNumber
  <2>3. n \in I
    BY <1>1, <1>3, <2>2
  <2> QED
    BY <1>0, <2>3 DEF I, StartsAt
<1> QED
  BY <1>2, <1>3

Followings == [kept : Seq(MovePairs), next : Seq(MovePairs), mod : SUBSET Nat]

\* One old move: it is continued by the nth of the next moves, it ends with its
\* entry, or it is led where c leads its end.
Continues(x, old, n, b, y) ==
    /\ y.kept = Append(x.kept, [old EXCEPT !.to = x.next[n].to])
    /\ y.next \in Seq(MovePairs) /\ LastMoved(x.next, n, y.next)
    /\ y.mod = x.mod \cup (IF x.next[n].from \in b.mod THEN {x.next[n].to} ELSE {})
Led(x, old, c, y) ==
    /\ y.kept = Append(x.kept, [old EXCEPT !.to = Follows(c, old.to)])
    /\ y.next = x.next /\ y.mod = x.mod
FollowedOn(x, old, b, c, y) ==
    \/ \E n \in 1 .. Len(x.next) : x.next[n].from = old.to /\ Continues(x, old, n, b, y)
    \/ /\ \A k \in 1 .. Len(x.next) : x.next[k].from # old.to
       /\ \/ old.to \in c.del /\ y = x
          \/ old.to \notin c.del /\ Led(x, old, c, y)

LEMMA FollowMoveIs ==
    ASSUME NEW b, NEW c, Sets(c), NEW x \in Followings, NEW old \in MovePairs,
           NEW y, y = FollowMove(x, old, b, c)
    PROVE  y \in Followings /\ FollowedOn(x, old, b, c, y)
<1>0. PICK p : p = old.to
  OBVIOUS
<1>1. /\ x.kept \in Seq(MovePairs) /\ x.next \in Seq(MovePairs) /\ x.mod \in SUBSET Nat
      /\ Len(x.next) \in Nat /\ DOMAIN x = {"kept", "next", "mod"}
  BY LenProperties DEF Followings
<1>2. PICK n : n = SelectInSeq(x.next, LAMBDA m : m.from = p)
  OBVIOUS
<1>3. StartsAt(x.next, p, n)
  BY <1>1, <1>2, StartsAtIs
<1>4. CASE n # 0
  <2>1. n \in 1 .. Len(x.next) /\ x.next[n].from = p
    BY <1>1, <1>3, <1>4 DEF StartsAt
  <2>2. PICK q : q = Front([x.next EXCEPT ![n] = Last(x.next)])
    OBVIOUS
  <2>3. y = [kept |-> Append(x.kept, [old EXCEPT !.to = x.next[n].to]), next |-> q,
             mod |-> x.mod \cup (IF x.next[n].from \in b.mod THEN {x.next[n].to} ELSE {})]
    BY <1>0, <1>2, <1>4, <2>2 DEF FollowMove
  <2>4. q \in Seq(MovePairs) /\ LastMoved(x.next, n, q)
    BY <1>1, <2>1, <2>2, LastMovedIs
  <2>5. x.next[n].to \in Nat
    BY <1>1, <2>1, MovePairsThere
  <2>6. [old EXCEPT !.to = x.next[n].to] \in MovePairs
    BY <2>5, MovePairFields
  <2>7. Append(x.kept, [old EXCEPT !.to = x.next[n].to]) \in Seq(MovePairs)
    BY <1>1, <2>6
  <2>8. y \in Followings
    BY <1>1, <2>3, <2>4, <2>5, <2>7 DEF Followings
  <2>9. Continues(x, old, n, b, y)
    BY <2>3, <2>4 DEF Continues
  <2> QED
    BY <1>0, <2>1, <2>8, <2>9 DEF FollowedOn
<1>5. CASE n = 0 /\ p \in c.del
  <2>1. y = x
    <3>1. SelectInSeq(x.next, LAMBDA m : m.from = old.to) = 0 /\ old.to \in c.del
      BY <1>0, <1>2, <1>5
    <3> QED
      BY <3>1, Zenon DEF FollowMove
  <2> QED
    BY <1>0, <1>3, <1>5, <2>1 DEF FollowedOn, StartsAt
<1>6. CASE n = 0 /\ p \notin c.del
  <2>1. p \in Nat
    BY <1>0, MovePairFields, 0 \in Nat
  <2>2. Follows(c, p) \in Nat
    BY <1>6, <2>1, FollowsFacts
  <2>3. y = [x EXCEPT !.kept = Append(x.kept, [old EXCEPT !.to = Follows(c, p)])]
    BY <1>0, <1>2, <1>6 DEF FollowMove, Follows
  <2>4. Append(x.kept, [old EXCEPT !.to = Follows(c, p)]) \in Seq(MovePairs)
    BY <1>1, <2>2, MovePairFields
  <2>5. y \in Followings
    BY <1>1, <2>3, <2>4 DEF Followings
  <2>6. Led(x, old, c, y)
    BY <1>0, <1>1, <2>3 DEF Led
  <2> QED
    BY <1>0, <1>3, <1>6, <2>5, <2>6 DEF FollowedOn, StartsAt
<1> QED
  BY <1>4, <1>5, <1>6

FollowedMoves(f, b, c) ==
    /\ f[0] = [kept |-> << >>, next |-> c.moves, mod |-> c.mod]
    /\ \A n \in 1 .. Len(b.moves) : /\ f[n - 1] \in Followings /\ f[n] \in Followings
                                    /\ FollowedOn(f[n - 1], b.moves[n], b, c, f[n])

LEMMA FollowRuns ==
    ASSUME NEW b, b.moves \in Seq(MovePairs), NEW c, Sets(c), c.moves \in Seq(MovePairs),
           c.mod \subseteq Nat, NEW e, e = FollowMoves(b, c)
    PROVE  \E f : FollowedMoves(f, b, c) /\ e = f[Len(b.moves)]
<1> DEFINE size == Len(b.moves)
           init == [kept |-> << >>, next |-> c.moves, mod |-> c.mod]
           step == [n \in 1 .. size |-> [x \in Followings |-> FollowMove(x, b.moves[n], b, c)]]
           F(f) == f = [n \in 0 .. size |-> IF n = 0 THEN init ELSE FollowMove(f[n - 1], b.moves[n], b, c)]
<1>1. size \in Nat /\ \A n \in 1 .. size : b.moves[n] \in MovePairs
  BY MovePairsThere
<1>2. init \in Followings
  <2>1. << >> \in Seq(MovePairs)
    OBVIOUS
  <2> QED
    BY <2>1 DEF Followings
<1>3. ASSUME NEW n \in 1 .. size, NEW x \in Followings
      PROVE  /\ FollowMove(x, b.moves[n], b, c) \in Followings
             /\ FollowedOn(x, b.moves[n], b, c, FollowMove(x, b.moves[n], b, c))
  BY <1>1, FollowMoveIs
<1>4. step \in [1 .. size -> [Followings -> Followings]]
  BY <1>3
<1>5. \E f : Recursion(f, size, Followings, init, step)
  <2> HIDE DEF step, init, size
  <2> QED
    BY <1>1, <1>2, <1>4, RecursiveFunction
<1>6. PICK f \in [0 .. size -> Followings] :
         f = [n \in 0 .. size |-> IF n = 0 THEN init ELSE step[n][f[n - 1]]]
  BY <1>5 DEF Recursion
<1>7. F(f)
  <2>1. \A n \in 0 .. size : n # 0 => /\ n \in 1 .. size /\ f[n - 1] \in Followings
                                      /\ step[n][f[n - 1]] = FollowMove(f[n - 1], b.moves[n], b, c)
    <3> SUFFICES ASSUME NEW n \in 0 .. size, n # 0
                 PROVE  /\ n \in 1 .. size /\ f[n - 1] \in Followings
                        /\ step[n][f[n - 1]] = FollowMove(f[n - 1], b.moves[n], b, c)
      OBVIOUS
    <3>1. n \in 1 .. size /\ n - 1 \in 0 .. size
      BY <1>1
    <3>2. f[n - 1] \in Followings
      BY <3>1
    <3> QED
      BY <3>1, <3>2
  <2> HIDE DEF step
  <2> QED
    BY <1>6, <2>1
<1>8. PICK g : g = (CHOOSE h : F(h))
  OBVIOUS
<1>9. F(g)
  BY <1>7, <1>8
<1>10. e = g[size]
  BY <1>8 DEF FollowMoves
<1>11. \A n \in 0 .. size : g[n] \in Followings
  <2> DEFINE T == {n \in 0 .. size : g[n] \notin Followings}
  <2>1. SUFFICES ASSUME T # {}
                 PROVE  FALSE
    OBVIOUS
  <2>2. PICK k \in T : \A j \in T : k <= j
    <3>1. T \in SUBSET Nat
      BY <1>1
    <3> HIDE DEF T
    <3> QED
      BY <2>1, <3>1, LeastNumber
  <2>3. k \in 0 .. size /\ k # 0
    BY <1>2, <1>9
  <2>4. k - 1 \in 0 .. size /\ k \in 1 .. size /\ ~(k <= k - 1)
    BY <1>1, <2>3
  <2>5. g[k - 1] \in Followings
    BY <2>2, <2>4
  <2>6. g[k] = FollowMove(g[k - 1], b.moves[k], b, c)
    BY <1>9, <2>3
  <2> QED
    BY <1>3, <2>2, <2>4, <2>5, <2>6
<1>12. FollowedMoves(g, b, c)
  <2>1. 0 \in 0 .. size /\ \A n \in 1 .. size : n \in 0 .. size /\ n # 0 /\ n - 1 \in 0 .. size
    BY <1>1
  <2>2. \A n \in 1 .. size : g[n] = FollowMove(g[n - 1], b.moves[n], b, c)
    BY <1>9, <2>1
  <2>3. g[0] = init
    BY <1>9, <2>1
  <2> QED
    BY <1>3, <1>11, <2>1, <2>2, <2>3 DEF FollowedMoves
<1> QED
  BY <1>10, <1>12

\* m is the old move taken through c.
Continued(m, old, c) ==
    /\ m.from = old.from
    /\ \/ \E i \in DOMAIN c.moves : c.moves[i].from = old.to /\ m.to = c.moves[i].to
       \/ old.to \notin c.del /\ m.to = Follows(c, old.to)

\* After the first n of the old moves: those kept are such moves, for every one
\* whose entry c has.
KeptTo(x, n, b, c) ==
    /\ \A k \in DOMAIN x.kept : \E j \in 1 .. n : Continued(x.kept[k], b.moves[j], c)
    /\ \A j, k \in DOMAIN x.kept : x.kept[j].from = x.kept[k].from => j = k
    /\ \A j \in 1 .. n : \A i \in DOMAIN c.moves :
          c.moves[i].from = b.moves[j].to =>
             /\ \E k \in DOMAIN x.kept : x.kept[k].to = c.moves[i].to
             /\ b.moves[j].to \in b.mod => c.moves[i].to \in x.mod
    /\ \A j \in 1 .. n : b.moves[j].to \notin c.del =>
          \E k \in DOMAIN x.kept : x.kept[k].to = Follows(c, b.moves[j].to)
    /\ c.mod \subseteq x.mod
    /\ \A y \in x.mod : y \in c.mod \/ \E i \in DOMAIN c.moves : c.moves[i].to = y

\* The moves of c that are left are those that continue none of them.
NextTo(x, n, b, c) ==
    /\ \A k \in DOMAIN x.next : \E i \in DOMAIN c.moves :
          x.next[k] = c.moves[i] /\ \A j \in 1 .. n : b.moves[j].to # c.moves[i].from
    /\ \A i \in DOMAIN c.moves : (\A j \in 1 .. n : b.moves[j].to # c.moves[i].from) =>
          \E k \in DOMAIN x.next : x.next[k] = c.moves[i]
    /\ \A j, k \in DOMAIN x.next : x.next[j].from = x.next[k].from => j = k

\* Each move has its beginning and its end to itself.
Apart(moves) ==
    /\ moves \in Seq(MovePairs)
    /\ \A j, k \in DOMAIN moves : moves[j].from = moves[k].from => j = k
    /\ \A j, k \in DOMAIN moves : moves[j].to = moves[k].to => j = k

LEMMA NextStep ==
    ASSUME NEW b, Apart(b.moves), NEW c, Apart(c.moves), NEW x, NEW n \in Nat,
           x \in Followings, NextTo(x, n, b, c), n + 1 <= Len(b.moves),
           NEW y, FollowedOn(x, b.moves[n + 1], b, c, y)
    PROVE  NextTo(y, n + 1, b, c)
<1>0. PICK l : l = Len(b.moves) /\ l \in Nat /\ DOMAIN b.moves = 1 .. l
  BY MovePairsThere DEF Apart
<1>1. PICK old : old = b.moves[n + 1]
  OBVIOUS
<1>2. PICK p : p = old.to
  OBVIOUS
<1>3. /\ n + 1 \in 1 .. n + 1 /\ \A j \in 1 .. n : j \in 1 .. n + 1
      /\ \A j \in 1 .. n + 1 : j \in 1 .. n \/ j = n + 1
  OBVIOUS
<1>4. PICK q : q = Len(x.next) /\ q \in Nat /\ DOMAIN x.next = 1 .. q
  BY MovePairsThere DEF Followings
<1>5. \A z : (\A j \in 1 .. n + 1 : b.moves[j].to # z)
               <=> (\A j \in 1 .. n : b.moves[j].to # z) /\ z # p
  BY <1>1, <1>2, <1>3
<1>6. CASE \E a \in 1 .. q : x.next[a].from = p /\ Continues(x, old, a, b, y)
  <2>1. PICK a \in 1 .. q : x.next[a].from = p /\ Continues(x, old, a, b, y)
    BY <1>6
  <2>2. /\ DOMAIN y.next = 1 .. q - 1
        /\ \A k \in 1 .. q - 1 : y.next[k] = x.next[IF k = a THEN q ELSE k]
    BY <1>4, <2>1 DEF Continues, LastMoved
  <2>3. \A j, k \in 1 .. q : x.next[j].from = x.next[k].from => j = k
    BY <1>4 DEF NextTo
  <2>4. \A k \in 1 .. q - 1 : /\ k \in 1 .. q /\ k # q
                              /\ (IF k = a THEN q ELSE k) \in 1 .. q
                              /\ (IF k = a THEN q ELSE k) # a
    BY <1>4
  <2>5. ASSUME NEW k \in 1 .. q - 1
        PROVE  \E i \in DOMAIN c.moves :
                  y.next[k] = c.moves[i] /\ \A j \in 1 .. n + 1 : b.moves[j].to # c.moves[i].from
    <3>1. PICK z : z = IF k = a THEN q ELSE k
      OBVIOUS
    <3>2. z \in 1 .. q /\ z # a /\ y.next[k] = x.next[z]
      BY <2>2, <2>4, <3>1
    <3>3. x.next[z].from # p
      BY <2>1, <2>3, <3>2
    <3>4. PICK i \in DOMAIN c.moves :
             x.next[z] = c.moves[i] /\ \A j \in 1 .. n : b.moves[j].to # c.moves[i].from
      BY <1>4, <3>2 DEF NextTo
    <3> QED
      BY ZenonT(30), <1>5, <3>2, <3>3, <3>4
  <2>6. ASSUME NEW i \in DOMAIN c.moves, \A j \in 1 .. n + 1 : b.moves[j].to # c.moves[i].from
        PROVE  \E k \in 1 .. q - 1 : y.next[k] = c.moves[i]
    <3>1. (\A j \in 1 .. n : b.moves[j].to # c.moves[i].from) /\ c.moves[i].from # p
      BY <1>5, <2>6
    <3>2. PICK k \in 1 .. q : x.next[k] = c.moves[i]
      BY <1>4, <3>1 DEF NextTo
    <3>3. k # a
      BY <2>1, <3>1, <3>2
    <3>4. CASE k = q
      <4>1. a \in 1 .. q - 1
        BY <1>4, <2>1, <3>3, <3>4
      <4> QED
        BY <2>2, <3>2, <3>4, <4>1
    <3>5. CASE k # q
      <4>1. k \in 1 .. q - 1
        BY <1>4, <3>5
      <4> QED
        BY <2>2, <3>2, <3>3, <4>1
    <3> QED
      BY <3>4, <3>5
  <2>7. \A j, k \in 1 .. q - 1 : y.next[j].from = y.next[k].from => j = k
    <3> SUFFICES ASSUME NEW j \in 1 .. q - 1, NEW k \in 1 .. q - 1, y.next[j].from = y.next[k].from
                 PROVE  j = k
      OBVIOUS
    <3>1. PICK v, w : v = (IF j = a THEN q ELSE j) /\ w = IF k = a THEN q ELSE k
      OBVIOUS
    <3>2. v \in 1 .. q /\ w \in 1 .. q /\ x.next[v].from = x.next[w].from
      BY <2>2, <2>4, <3>1
    <3>3. v = w
      BY <2>3, <3>2
    <3> QED
      BY <2>4, <3>1, <3>3
  <2> QED
    BY <2>2, <2>5, <2>6, <2>7 DEF NextTo
<1>7. CASE y.next = x.next /\ \A k \in 1 .. q : x.next[k].from # p
  <2>1. ASSUME NEW k \in DOMAIN x.next
        PROVE  \E i \in DOMAIN c.moves :
                  x.next[k] = c.moves[i] /\ \A j \in 1 .. n + 1 : b.moves[j].to # c.moves[i].from
    <3>1. PICK i \in DOMAIN c.moves :
             x.next[k] = c.moves[i] /\ \A j \in 1 .. n : b.moves[j].to # c.moves[i].from
      BY DEF NextTo
    <3>2. x.next[k].from # p
      BY <1>4, <1>7
    <3> QED
      BY <1>5, <3>1, <3>2
  <2>2. \A i \in DOMAIN c.moves : (\A j \in 1 .. n + 1 : b.moves[j].to # c.moves[i].from) =>
          \E k \in DOMAIN x.next : x.next[k] = c.moves[i]
    BY <1>5 DEF NextTo
  <2> QED
    BY <1>7, <2>1, <2>2 DEF NextTo
<1>8. \/ \E a \in 1 .. q : x.next[a].from = p /\ Continues(x, old, a, b, y)
      \/ y.next = x.next /\ \A k \in 1 .. q : x.next[k].from # p
  BY <1>1, <1>2, <1>4 DEF FollowedOn, Led
<1> QED
  BY <1>6, <1>7, <1>8

LEMMA KeptStep ==
    ASSUME NEW b, Apart(b.moves), NEW c, Apart(c.moves), \A i \in DOMAIN c.moves : c.moves[i].from \in c.del,
           NEW x, NEW n \in Nat, x \in Followings, NextTo(x, n, b, c), KeptTo(x, n, b, c),
           n + 1 <= Len(b.moves), NEW y, y \in Followings, FollowedOn(x, b.moves[n + 1], b, c, y)
    PROVE  KeptTo(y, n + 1, b, c)
<1>0. PICK l : l = Len(b.moves) /\ l \in Nat /\ DOMAIN b.moves = 1 .. l
  BY MovePairsThere DEF Apart
<1>1. PICK old : old = b.moves[n + 1]
  OBVIOUS
<1>2. PICK p : p = old.to
  OBVIOUS
<1>3. /\ n + 1 \in 1 .. n + 1 /\ \A j \in 1 .. n : j \in 1 .. n + 1
      /\ \A j \in 1 .. n + 1 : j \in 1 .. n \/ j = n + 1
      /\ n + 1 \in 1 .. l /\ \A j \in 1 .. n : j \in 1 .. l /\ j # n + 1
  BY <1>0
<1>4. PICK q : q = Len(x.kept) /\ q \in Nat /\ DOMAIN x.kept = 1 .. q
  BY MovePairsThere DEF Followings
<1>5. \A j \in 1 .. n : b.moves[j].from # old.from /\ b.moves[j].to # p
  BY <1>0, <1>1, <1>2, <1>3 DEF Apart
<1>6. old \in MovePairs /\ x.kept \in Seq(MovePairs)
  BY <1>0, <1>1, <1>3, MovePairsThere DEF Apart, Followings
<1>7. ASSUME NEW w \in MovePairs, y.kept = Append(x.kept, w), Continued(w, old, c),
             \A i \in DOMAIN c.moves : c.moves[i].from = p =>
                /\ w.to = c.moves[i].to
                /\ p \in b.mod => c.moves[i].to \in y.mod,
             p \notin c.del => w.to = Follows(c, p),
             x.mod \subseteq y.mod,
             \A z \in y.mod : z \in x.mod \/ \E i \in DOMAIN c.moves : c.moves[i].to = z
      PROVE  KeptTo(y, n + 1, b, c)
  <2>1. /\ DOMAIN y.kept = 1 .. q + 1 /\ y.kept[q + 1] = w
        /\ \A k \in 1 .. q : y.kept[k] = x.kept[k]
    BY <1>4, <1>6, <1>7
  <2>2. \A k \in 1 .. q + 1 : k \in 1 .. q \/ k = q + 1
    BY <1>4
  <2>3. q + 1 \in 1 .. q + 1 /\ \A k \in 1 .. q : k \in 1 .. q + 1
    BY <1>4
  <2>4. ASSUME NEW k \in 1 .. q
        PROVE  \E j \in 1 .. n : Continued(x.kept[k], b.moves[j], c)
    BY <1>4 DEF KeptTo
  <2>5. ASSUME NEW k \in 1 .. q + 1
        PROVE  \E j \in 1 .. n + 1 : Continued(y.kept[k], b.moves[j], c)
    <3>1. CASE k \in 1 .. q
      <4>1. PICK j \in 1 .. n : Continued(x.kept[k], b.moves[j], c)
        BY <2>4, <3>1
      <4>2. y.kept[k] = x.kept[k] /\ j \in 1 .. n + 1
        BY <1>3, <2>1, <3>1
      <4> QED
        BY <4>1, <4>2
    <3>2. CASE k = q + 1
      BY <1>1, <1>3, <1>7, <2>1, <3>2
    <3> QED
      BY <2>2, <3>1, <3>2
  <2>6. ASSUME NEW j \in 1 .. q + 1, NEW k \in 1 .. q + 1, y.kept[j].from = y.kept[k].from, j # k
        PROVE  FALSE
    <3>1. \A z \in 1 .. q : x.kept[z].from # old.from
      <4> TAKE z \in 1 .. q
      <4>1. PICK i \in 1 .. n : Continued(x.kept[z], b.moves[i], c)
        BY <2>4
      <4> QED
        BY <1>5, <4>1 DEF Continued
    <3>2. w.from = old.from
      BY <1>7 DEF Continued
    <3>3. \A v, z \in 1 .. q : x.kept[v].from = x.kept[z].from => v = z
      BY <1>4 DEF KeptTo
    <3>4. CASE j \in 1 .. q /\ k \in 1 .. q
      BY <2>1, <2>6, <3>3, <3>4
    <3>5. CASE j \in 1 .. q /\ k = q + 1
      BY <2>1, <2>6, <3>1, <3>2, <3>5
    <3>6. CASE j = q + 1 /\ k \in 1 .. q
      BY <2>1, <2>6, <3>1, <3>2, <3>6
    <3> QED
      BY <2>2, <2>6, <3>4, <3>5, <3>6
  <2>7. ASSUME NEW z, \E k \in DOMAIN x.kept : x.kept[k].to = z
        PROVE  \E k \in DOMAIN y.kept : y.kept[k].to = z
    BY <1>4, <2>1, <2>3, <2>7
  <2>8. ASSUME NEW j \in 1 .. n + 1, NEW i \in DOMAIN c.moves, c.moves[i].from = b.moves[j].to
        PROVE  /\ \E k \in DOMAIN y.kept : y.kept[k].to = c.moves[i].to
               /\ b.moves[j].to \in b.mod => c.moves[i].to \in y.mod
    <3>1. CASE j \in 1 .. n
      <4>1. /\ \E k \in DOMAIN x.kept : x.kept[k].to = c.moves[i].to
            /\ b.moves[j].to \in b.mod => c.moves[i].to \in x.mod
        BY <2>8, <3>1 DEF KeptTo
      <4> QED
        BY <1>7, <2>7, <4>1
    <3>2. CASE j = n + 1
      <4>1. c.moves[i].from = p /\ b.moves[j].to = p
        BY <1>1, <1>2, <2>8, <3>2
      <4>2. w.to = c.moves[i].to /\ (p \in b.mod => c.moves[i].to \in y.mod)
        BY <1>7, <4>1
      <4> QED
        BY <2>1, <2>3, <4>1, <4>2
    <3> QED
      BY <1>3, <3>1, <3>2
  <2>9. ASSUME NEW j \in 1 .. n + 1, b.moves[j].to \notin c.del
        PROVE  \E k \in DOMAIN y.kept : y.kept[k].to = Follows(c, b.moves[j].to)
    <3>1. CASE j \in 1 .. n
      BY <2>7, <2>9, <3>1 DEF KeptTo
    <3>2. CASE j = n + 1
      <4>1. b.moves[j].to = p
        BY <1>1, <1>2, <3>2
      <4>2. w.to = Follows(c, p)
        BY <1>7, <2>9, <4>1
      <4> QED
        BY <2>1, <2>3, <4>1, <4>2
    <3> QED
      BY <1>3, <3>1, <3>2
  <2>10. c.mod \subseteq y.mod
    BY <1>7 DEF KeptTo
  <2>11. \A z \in y.mod : z \in c.mod \/ \E i \in DOMAIN c.moves : c.moves[i].to = z
    BY <1>7 DEF KeptTo
  <2> QED
    BY <2>1, <2>5, <2>6, <2>8, <2>9, <2>10, <2>11 DEF KeptTo
<1>8. CASE \E a \in 1 .. Len(x.next) : x.next[a].from = p /\ Continues(x, old, a, b, y)
  <2>1. PICK a \in 1 .. Len(x.next) : x.next[a].from = p /\ Continues(x, old, a, b, y)
    BY <1>8
  <2>2. x.next \in Seq(MovePairs) /\ a \in DOMAIN x.next
    BY <2>1, MovePairsThere DEF Followings
  <2>3. PICK i \in DOMAIN c.moves : x.next[a] = c.moves[i]
    BY <2>2 DEF NextTo
  <2>4. PICK w : w = [old EXCEPT !.to = x.next[a].to]
    OBVIOUS
  <2>5. x.next[a].to \in Nat
    BY <2>2, MovePairsThere
  <2>6. w \in MovePairs /\ w.from = old.from /\ w.to = c.moves[i].to
    BY <1>6, <2>3, <2>4, <2>5, MovePairFields
  <2>7. y.kept = Append(x.kept, w)
    BY <2>1, <2>4 DEF Continues
  <2>8. c.moves[i].from = p /\ p \in c.del
    BY <2>1, <2>3
  <2>9. Continued(w, old, c)
    BY <1>2, <2>6, <2>8 DEF Continued
  <2>10. \A k \in DOMAIN c.moves : c.moves[k].from = p => k = i
    BY <2>8 DEF Apart
  <2>11. y.mod = x.mod \cup (IF p \in b.mod THEN {c.moves[i].to} ELSE {})
    BY <2>1, <2>3, <2>8 DEF Continues
  <2> QED
    BY <1>7, <2>6, <2>7, <2>8, <2>9, <2>10, <2>11
<1>9. CASE p \notin c.del /\ Led(x, old, c, y)
  <2>1. \A i \in DOMAIN c.moves : c.moves[i].from # p
    BY <1>9
  <2>2. PICK w : w = [old EXCEPT !.to = Follows(c, p)]
    OBVIOUS
  <2>3. y.kept = Append(x.kept, w) /\ y.mod = x.mod
    BY <1>2, <1>9, <2>2 DEF Led
  <2>4. w \in MovePairs /\ w.from = old.from /\ w.to = Follows(c, p)
    <3>1. y.kept[q + 1] = w /\ q + 1 \in DOMAIN y.kept
      BY <1>4, <1>6, <2>3
    <3>2. w \in MovePairs
      BY <3>1, MovePairsThere DEF Followings
    <3> QED
      BY <1>6, <2>2, <3>2 DEF MovePairs
  <2>5. Continued(w, old, c)
    BY <1>2, <1>9, <2>4 DEF Continued
  <2> QED
    BY <1>7, <2>1, <2>3, <2>4, <2>5
<1>10. CASE p \in c.del /\ y = x /\ \A k \in 1 .. Len(x.next) : x.next[k].from # p
  <2>1. ASSUME NEW i \in DOMAIN c.moves
        PROVE  c.moves[i].from # p
    <3> SUFFICES ASSUME c.moves[i].from = p
                 PROVE  FALSE
      OBVIOUS
    <3>1. \A j \in 1 .. n : b.moves[j].to # c.moves[i].from
      BY <1>5
    <3>2. PICK k \in DOMAIN x.next : x.next[k] = c.moves[i]
      BY <3>1 DEF NextTo
    <3>3. k \in 1 .. Len(x.next)
      BY MovePairsThere DEF Followings
    <3> QED
      BY <1>10, <3>2, <3>3
  <2>2. \A k \in DOMAIN y.kept : \E j \in 1 .. n + 1 : Continued(y.kept[k], b.moves[j], c)
    <3> TAKE k \in DOMAIN y.kept
    <3>1. PICK j \in 1 .. n : Continued(x.kept[k], b.moves[j], c)
      BY <1>10 DEF KeptTo
    <3> QED
      BY <1>3, <1>10, <3>1
  <2>3. ASSUME NEW j \in 1 .. n + 1, NEW i \in DOMAIN c.moves, c.moves[i].from = b.moves[j].to
        PROVE  /\ \E k \in DOMAIN y.kept : y.kept[k].to = c.moves[i].to
               /\ b.moves[j].to \in b.mod => c.moves[i].to \in y.mod
    <3>1. j \in 1 .. n
      BY <1>1, <1>2, <1>3, <2>1, <2>3
    <3> QED
      BY <1>10, <2>3, <3>1 DEF KeptTo
  <2>4. \A j \in 1 .. n + 1 : b.moves[j].to \notin c.del =>
          \E k \in DOMAIN y.kept : y.kept[k].to = Follows(c, b.moves[j].to)
    BY <1>1, <1>2, <1>3, <1>10 DEF KeptTo
  <2> QED
    BY <1>10, <2>2, <2>3, <2>4 DEF KeptTo
<1>11. \/ \E a \in 1 .. Len(x.next) : x.next[a].from = p /\ Continues(x, old, a, b, y)
       \/ p \notin c.del /\ Led(x, old, c, y)
       \/ p \in c.del /\ y = x /\ \A k \in 1 .. Len(x.next) : x.next[k].from # p
  BY <1>1, <1>2 DEF FollowedOn
<1> QED
  BY <1>8, <1>9, <1>10, <1>11

LEMMA MovesFollowed ==
    ASSUME NEW b, Apart(b.moves), NEW c, Sets(c), c.mod \subseteq Nat, Apart(c.moves),
           \A i \in DOMAIN c.moves : c.moves[i].from \in c.del,
           NEW e, e = FollowMoves(b, c), NEW l, l = Len(b.moves)
    PROVE  e \in Followings /\ NextTo(e, l, b, c) /\ KeptTo(e, l, b, c)
<1>1. l \in Nat /\ b.moves \in Seq(MovePairs) /\ c.moves \in Seq(MovePairs)
  BY MovePairsThere DEF Apart
<1>2. PICK f : FollowedMoves(f, b, c) /\ e = f[l]
  BY <1>1, FollowRuns
<1>3. f[0] \in Followings /\ NextTo(f[0], 0, b, c) /\ KeptTo(f[0], 0, b, c)
  <2>1. PICK x : x = f[0]
    OBVIOUS
  <2>2. x = [kept |-> << >>, next |-> c.moves, mod |-> c.mod]
    BY <1>2, <2>1 DEF FollowedMoves
  <2>3. << >> \in Seq(MovePairs) /\ DOMAIN << >> = {}
    OBVIOUS
  <2>4. x \in Followings
    BY <1>1, <2>2, <2>3 DEF Followings
  <2>5. x.kept = << >> /\ x.next = c.moves /\ x.mod = c.mod
    BY <2>2
  <2> HIDE <2>2
  <2>6. NextTo(x, 0, b, c)
    BY <2>5 DEF NextTo, Apart
  <2>7. KeptTo(x, 0, b, c)
    BY <2>3, <2>5 DEF KeptTo
  <2> QED
    BY <2>1, <2>4, <2>6, <2>7
<1>4. \A n \in 0 .. l : f[n] \in Followings /\ NextTo(f[n], n, b, c) /\ KeptTo(f[n], n, b, c)
  <2> DEFINE Holds(n) == f[n] \in Followings /\ NextTo(f[n], n, b, c) /\ KeptTo(f[n], n, b, c)
             T == {n \in 0 .. l : ~Holds(n)}
  <2>1. SUFFICES ASSUME T # {}
                 PROVE  FALSE
    OBVIOUS
  <2>2. PICK k \in T : \A j \in T : k <= j
    <3>1. T \in SUBSET Nat
      BY <1>1
    <3> HIDE DEF T
    <3> QED
      BY <2>1, <3>1, LeastNumber
  <2>3. k \in 0 .. l /\ k # 0
    BY <1>3
  <2>4. PICK n : n = k - 1
    OBVIOUS
  <2>5. n \in 0 .. l /\ n \in Nat /\ n + 1 = k /\ k \in 1 .. l /\ n + 1 <= l /\ ~(k <= n)
    BY <1>1, <2>3, <2>4
  <2>6. Holds(n)
    BY <2>2, <2>5
  <2>7. f[k] \in Followings /\ FollowedOn(f[n], b.moves[n + 1], b, c, f[k])
    BY <1>2, <2>4, <2>5 DEF FollowedMoves
  <2>8. NextTo(f[k], n + 1, b, c)
    BY <2>5, <2>6, <2>7, NextStep
  <2>9. KeptTo(f[k], n + 1, b, c)
    BY <2>5, <2>6, <2>7, KeptStep
  <2> QED
    BY <2>2, <2>5, <2>7, <2>8, <2>9
<1>5. l \in 0 .. l
  BY <1>1
<1> QED
  BY <1>2, <1>4, <1>5

\* A change set that tells of nothing leads nowhere else.
LEMMA EmptyLeads ==
    ASSUME NEW s \in Seq(Nat), NEW t \in Seq(Nat), NEW b, Leads(b, s, t), IsEmpty(b)
    PROVE  s = t
<1>0. Len(s) \in Nat /\ Len(t) \in Nat
  BY LenProperties
<1>1. Sets(b) /\ Aligned(b, s, t) /\ b.del = {} /\ b.ins = {}
  BY DEF Leads, Builder, IsEmpty
<1>2. \A o \in Nat : Follows(b, o) = o
  <2> TAKE o \in Nat
  <2>1. Unshift(b.ins, o) = Unshift(b.del, o)
    BY <1>1
  <2> QED
    BY <1>1, <2>1, FollowsIs
<1>3. \A o \in Nat : (o < Len(s) <=> o < Len(t)) /\ (o < Len(s) => s[o + 1] = t[o + 1])
  BY <1>1, <1>2 DEF Aligned
<1>4. Len(s) = Len(t)
  <2>1. ~(Len(s) < Len(t)) /\ ~(Len(t) < Len(s))
    BY <1>0, <1>3
  <2> QED
    BY <1>0, <2>1
<1>5. \A n \in 1 .. Len(s) : s[n] = t[n]
  <2> TAKE n \in 1 .. Len(s)
  <2>1. PICK o : o = n - 1
    OBVIOUS
  <2>2. o \in Nat /\ o < Len(s) /\ o + 1 = n
    BY <1>0, <2>1
  <2> QED
    BY <1>3, <2>2
<1> QED
  BY <1>4, <1>5, SeqEqual

\* The builder that merge makes of b and c before it cleans up the moves: the moves
\* kept, and those of c that begin at an entry b did not insert.
Added(b, followed, r) ==
    /\ r \in Seq(MovePairs)
    /\ \A n \in DOMAIN r : \E i \in DOMAIN followed.next :
          /\ followed.next[i].from \notin b.ins
          /\ r[n].from = CameFrom(b, followed.next[i].from)
          /\ r[n].to = followed.next[i].to
    /\ \A i \in DOMAIN followed.next : followed.next[i].from \notin b.ins =>
          \E n \in DOMAIN r : r[n].to = followed.next[i].to
    /\ \A x, y \in DOMAIN r : x # y => \E i, j \in DOMAIN followed.next :
          /\ i # j
          /\ followed.next[i].from \notin b.ins /\ followed.next[j].from \notin b.ins
          /\ r[x].from = CameFrom(b, followed.next[i].from)
          /\ r[y].from = CameFrom(b, followed.next[j].from)
JoinedMoves(b, followed, m) == \E r : m = followed.kept \o r /\ Added(b, followed, r)
Joined(b, c, a) ==
    /\ a.del = MergedDeletions(b, c) /\ a.ins = MergedInsertions(b, c) /\ Builder(a)
    /\ JoinedMoves(b, FollowMoves(b, c), a.moves)
MergedModifications(b, c, followed, mod) ==
    /\ \A x \in b.mod \ c.del : Follows(c, x) \in mod
    /\ followed.mod \subseteq mod
    /\ \A i \in DOMAIN followed.next :
          followed.next[i].from \notin b.ins /\ followed.next[i].from \in b.mod
             => followed.next[i].to \in mod
    /\ \A y \in mod : \/ \E x \in b.mod \ c.del : y = Follows(c, x)
                      \/ y \in followed.mod
                      \/ \E i \in DOMAIN followed.next : y = followed.next[i].to

LEMMA MergedSets ==
    ASSUME NEW b, Sets(b), NEW c, Sets(c)
    PROVE  PositionSet(MergedDeletions(b, c)) /\ PositionSet(MergedInsertions(b, c))
<1> DEFINE V == c.del \ b.ins
           X == b.ins \ c.del
           DV == {CameFrom(b, v) : v \in V}
           IX == {Follows(c, x) : x \in X}
<1>1. PositionSet(b.ins) /\ PositionSet(b.del) /\ PositionSet(c.ins) /\ PositionSet(c.del)
  BY DEF Sets
<1>2. MergedDeletions(b, c) = b.del \cup DV
  BY DEF MergedDeletions, AddShiftedBy, CameFrom
<1>3. MergedInsertions(b, c) = IX \cup c.ins
  BY DEF MergedInsertions, InsertPositions, ShiftForInsertPositions, ErasePositions, Follows
<1>4. PositionSet(V) /\ PositionSet(X)
  BY <1>1, FS_Subset, V \in SUBSET c.del, X \in SUBSET b.ins DEF PositionSet
<1>5. PositionSet(DV)
  <2> DEFINE f == [v \in V |-> CameFrom(b, v)]
  <2>1. \A v \in V : v \in Nat /\ v \notin b.ins
    BY <1>1 DEF PositionSet
  <2>2. f \in [V -> Nat] /\ DV = {f[v] : v \in V}
    BY <2>1, CameFromFacts
  <2> HIDE DEF f, DV, V
  <2> QED
    BY <1>4, <2>2, MappedPositions
<1>6. PositionSet(IX)
  <2> DEFINE f == [x \in X |-> Follows(c, x)]
  <2>1. \A x \in X : x \in Nat /\ x \notin c.del
    BY <1>1 DEF PositionSet
  <2>2. f \in [X -> Nat] /\ IX = {f[x] : x \in X}
    BY <2>1, FollowsFacts
  <2> HIDE DEF f, IX, X
  <2> QED
    BY <1>4, <2>2, MappedPositions
<1> HIDE DEF DV, IX
<1> QED
  BY <1>1, <1>2, <1>3, <1>5, <1>6, FS_Union DEF PositionSet

\* What merge does when neither of the two is empty.
LEMMA MergeIs ==
    ASSUME NEW b, Builder(b), NEW c, Builder(c), ~IsEmpty(b), ~IsEmpty(c),
           FollowMoves(b, c) \in Followings, b.mod \subseteq Nat,
           NEW e, e = Merge(b, c)
    PROVE  \E a : /\ Joined(b, c, a) /\ a.map = << >>
                  /\ \E mod : /\ e = [CleanUpStaleMoves(a) EXCEPT !.mod = mod]
                              /\ MergedModifications(b, c, FollowMoves(b, c), mod)
<1> DEFINE fol == FollowMoves(b, c)
           K == {n \in DOMAIN fol.next : fol.next[n].from \notin b.ins}
           news == Subsequence(fol.next, K)
           r == [n \in DOMAIN news |-> [news[n] EXCEPT !.from = CameFrom(b, @)]]
           a == [NoChange EXCEPT !.del = MergedDeletions(b, c), !.ins = MergedInsertions(b, c),
                                 !.moves = fol.kept \o r]
           mod == ShiftForInsertPositions(ErasePositions(b.mod, c.del), c.ins) \cup fol.mod
                     \cup {news[n].to : n \in {k \in DOMAIN news : news[k].from \in b.mod}}
<1>1. fol = FollowMoves(b, c)
  OBVIOUS
<1>2. K = {n \in DOMAIN fol.next : fol.next[n].from \notin b.ins}
  OBVIOUS
<1>3. news = Subsequence(fol.next, K)
  OBVIOUS
<1>4. r = [n \in DOMAIN news |-> [news[n] EXCEPT !.from = CameFrom(b, @)]]
  OBVIOUS
<1>5. a = [NoChange EXCEPT !.del = MergedDeletions(b, c), !.ins = MergedInsertions(b, c),
                           !.moves = fol.kept \o r]
  OBVIOUS
<1>6. mod = ShiftForInsertPositions(ErasePositions(b.mod, c.del), c.ins) \cup fol.mod
                \cup {news[n].to : n \in {k \in DOMAIN news : news[k].from \in b.mod}}
  OBVIOUS
<1>7. e = [CleanUpStaleMoves(a) EXCEPT !.mod = mod]
  BY Zenon DEF Merge, CameFrom
<1> HIDE DEF fol, K, news, r, a, mod
<1>8. fol.kept \in Seq(MovePairs) /\ fol.next \in Seq(MovePairs)
  BY <1>1 DEF Followings
<1>9. news \in Seq(MovePairs) /\ PartOf(news, fol.next, K)
  BY <1>2, <1>3, <1>8, SubsequenceFacts
<1>10. /\ DOMAIN news = 1 .. Len(news) /\ Len(news) \in Nat
       /\ \A n \in DOMAIN news : news[n] \in MovePairs /\ news[n].from \in Nat
  BY <1>9, MovePairsThere
<1>11. \A n \in DOMAIN news : \E i \in K : news[n] = fol.next[i]
  BY <1>9 DEF PartOf
<1>12. ASSUME NEW n \in DOMAIN news
       PROVE  r[n] \in MovePairs /\ r[n].from = CameFrom(b, news[n].from) /\ r[n].to = news[n].to
  <2>1. PICK i \in K : news[n] = fol.next[i]
    BY <1>11
  <2>2. news[n].from \in Nat /\ news[n].from \notin b.ins /\ news[n] \in MovePairs
    BY <1>2, <1>10, <2>1
  <2>3. CameFrom(b, news[n].from) \in Nat
    BY <2>2, CameFromFacts DEF Builder
  <2>4. r[n] = [news[n] EXCEPT !.from = CameFrom(b, news[n].from)]
    BY <1>4
  <2> QED
    BY <2>2, <2>3, <2>4 DEF MovePairs
<1>13. r \in Seq(MovePairs) /\ DOMAIN r = DOMAIN news
  <2>1. r \in [1 .. Len(news) -> MovePairs]
    <3>1. DOMAIN r = 1 .. Len(news) /\ r = [n \in 1 .. Len(news) |-> r[n]]
      BY <1>4, <1>10
    <3> QED
      BY <1>10, <1>12, <3>1
  <2> QED
    BY <1>10, <2>1, SeqIs
<1>14. Added(b, fol, r)
  <2>1. \A n \in DOMAIN r : \E i \in DOMAIN fol.next :
           /\ fol.next[i].from \notin b.ins
           /\ r[n].from = CameFrom(b, fol.next[i].from) /\ r[n].to = fol.next[i].to
    <3> TAKE n \in DOMAIN r
    <3>1. PICK i \in K : news[n] = fol.next[i]
      BY <1>11, <1>13
    <3>2. r[n].from = CameFrom(b, news[n].from) /\ r[n].to = news[n].to
      BY <1>12, <1>13
    <3> QED
      BY <1>2, <3>1, <3>2
  <2>2. \A i \in DOMAIN fol.next : fol.next[i].from \notin b.ins =>
           \E n \in DOMAIN r : r[n].to = fol.next[i].to
    <3> SUFFICES ASSUME NEW i \in K
                 PROVE  \E n \in DOMAIN r : r[n].to = fol.next[i].to
      BY <1>2
    <3>1. PICK n \in DOMAIN news : news[n] = fol.next[i]
      BY <1>9 DEF PartOf
    <3> QED
      BY <1>12, <1>13, <3>1
  <2>3. \A x, y \in DOMAIN r : x # y => \E i, j \in DOMAIN fol.next :
           /\ i # j
           /\ fol.next[i].from \notin b.ins /\ fol.next[j].from \notin b.ins
           /\ r[x].from = CameFrom(b, fol.next[i].from)
           /\ r[y].from = CameFrom(b, fol.next[j].from)
    <3> SUFFICES ASSUME NEW x \in DOMAIN r, NEW y \in DOMAIN r, x # y
                 PROVE  \E i, j \in DOMAIN fol.next :
                          /\ i # j
                          /\ fol.next[i].from \notin b.ins /\ fol.next[j].from \notin b.ins
                          /\ r[x].from = CameFrom(b, fol.next[i].from)
                          /\ r[y].from = CameFrom(b, fol.next[j].from)
      OBVIOUS
    <3>1. PICK i, j \in K : i # j /\ news[x] = fol.next[i] /\ news[y] = fol.next[j]
      BY <1>9, <1>13 DEF PartOf
    <3>2. r[x].from = CameFrom(b, news[x].from) /\ r[y].from = CameFrom(b, news[y].from)
      BY <1>12, <1>13
    <3> QED
      BY <1>2, <3>1, <3>2
  <2> QED
    BY <1>13, <2>1, <2>2, <2>3 DEF Added
<1>15. Joined(b, c, a) /\ a.map = << >>
  <2>1. /\ a = [del |-> a.del, ins |-> a.ins, mod |-> a.mod, moves |-> a.moves, map |-> a.map]
        /\ a.del = MergedDeletions(b, c) /\ a.ins = MergedInsertions(b, c)
        /\ a.moves = fol.kept \o r /\ a.map = << >>
    BY <1>5 DEF NoChange
  <2>2. PositionSet(MergedDeletions(b, c)) /\ PositionSet(MergedInsertions(b, c))
    BY MergedSets DEF Builder
  <2>3. Builder(a)
    BY <2>1, <2>2 DEF Builder, Sets
  <2>4. JoinedMoves(b, fol, a.moves)
    BY <1>14, <2>1 DEF JoinedMoves
  <2> QED
    BY <1>1, <2>1, <2>3, <2>4 DEF Joined
<1>16. MergedModifications(b, c, fol, mod)
  <2>1. PICK M : M = {Follows(c, x) : x \in b.mod \ c.del}
    OBVIOUS
  <2>2. mod = M \cup fol.mod \cup {news[n].to : n \in {k \in DOMAIN news : news[k].from \in b.mod}}
    BY <1>6, <2>1 DEF ShiftForInsertPositions, ErasePositions, Follows
  <2>3. \A x \in b.mod \ c.del : Follows(c, x) \in mod
    BY <2>1, <2>2
  <2>4. \A i \in DOMAIN fol.next :
          fol.next[i].from \notin b.ins /\ fol.next[i].from \in b.mod => fol.next[i].to \in mod
    <3> SUFFICES ASSUME NEW i \in K, fol.next[i].from \in b.mod
                 PROVE  fol.next[i].to \in mod
      BY <1>2
    <3>1. PICK n \in DOMAIN news : news[n] = fol.next[i]
      BY <1>9 DEF PartOf
    <3> QED
      BY <2>2, <3>1
  <2>5. \A y \in mod : \/ \E x \in b.mod \ c.del : y = Follows(c, x)
                       \/ y \in fol.mod
                       \/ \E i \in DOMAIN fol.next : y = fol.next[i].to
    <3> SUFFICES ASSUME NEW n \in DOMAIN news
                 PROVE  \E i \in DOMAIN fol.next : news[n].to = fol.next[i].to
      BY <2>1, <2>2
    <3> QED
      BY <1>2, <1>11
  <2> QED
    BY <2>2, <2>3, <2>4, <2>5 DEF MergedModifications
<1> QED
  BY <1>1, <1>7, <1>15, <1>16

\* An entry that is gone does not come back.
NoneBack(s, t, u) ==
    \A n \in 1 .. Len(s) : \A k \in 1 .. Len(u) :
        s[n] = u[k] => \E j \in 1 .. Len(t) : t[j] = s[n]

LEMMA MergedTakes ==
    ASSUME NEW t, NEW u, NEW b, Builder(b), NEW c, Builder(c), Aligned(c, t, u),
           NEW a, a.del = MergedDeletions(b, c), a.ins = MergedInsertions(b, c), Builder(a),
           NEW g, g = [x \in Nat |-> Follows(c, x)]
    PROVE  Takes(g, c.del, t, u) /\ TakenBy(g, c.del, b, a)
<1>1. Sets(b) /\ Sets(c) /\ PositionSet(c.ins) /\ PositionSet(c.del) /\ PositionSet(b.ins)
  BY DEF Builder, Sets
<1>2. \A x \in Nat : Follows(c, x) \in Nat /\ g[x] = Follows(c, x)
  <2> TAKE x \in Nat
  <2>1. Unshift(c.del, x) \in Nat
    BY <1>1, CountFacts
  <2> QED
    BY <1>1, <2>1, ShiftFacts DEF Follows
<1>3. Takes(g, c.del, t, u)
  BY <1>2 DEF Takes, Aligned
<1>4. Merged(b, c, a)
  BY MergesFollow DEF Builder
<1>5. \A o \in Nat \ b.del : Follows(b, o) \in Nat
  BY <1>1, FollowsFacts
<1>6. \A o \in Nat \ a.del : Follows(a, o) = g[Follows(b, o)]
  BY <1>2, <1>4, <1>5 DEF Merged
<1>7. \A x \in b.ins \ c.del : g[x] \in a.ins
  <2> TAKE x \in b.ins \ c.del
  <2>1. x \in Nat
    BY <1>1 DEF PositionSet
  <2>2. Follows(c, x) \in a.ins
    BY DEF MergedInsertions, InsertPositions, ShiftForInsertPositions, ErasePositions, Follows
  <2> QED
    BY <1>2, <2>1, <2>2
<1> QED
  BY <1>3, <1>4, <1>6, <1>7 DEF TakenBy, Merged

\* A move of a that was kept, and one that was added.
KeptMove(m, b, c, a, s, u) ==
    \/ TrueMove(a, m, s, u) /\ m.from \in b.del
    \/ \E k \in DOMAIN b.moves : /\ b.moves[k].to \notin c.del
                                 /\ m.from = b.moves[k].from
                                 /\ m.to = Follows(c, b.moves[k].to)

LEMMA KeptMoveIs ==
    ASSUME NEW s, NEW t, NEW u, NEW b, TrueMoves(b, s, t), NEW c, TrueMoves(c, t, u),
           NEW a, b.del \subseteq a.del, c.ins \subseteq a.ins,
           NEW m, NEW j \in DOMAIN b.moves, Continued(m, b.moves[j], c)
    PROVE  KeptMove(m, b, c, a, s, u)
<1>1. TrueMove(b, b.moves[j], s, t)
  BY DEF TrueMoves
<1>2. m.from = b.moves[j].from
  BY DEF Continued
<1>3. CASE \E i \in DOMAIN c.moves : c.moves[i].from = b.moves[j].to /\ m.to = c.moves[i].to
  <2>1. PICK i \in DOMAIN c.moves : c.moves[i].from = b.moves[j].to /\ m.to = c.moves[i].to
    BY <1>3
  <2>2. TrueMove(c, c.moves[i], t, u)
    BY DEF TrueMoves
  <2>3. TrueMove(a, m, s, u) /\ m.from \in b.del
    BY <1>1, <1>2, <2>1, <2>2 DEF TrueMove
  <2> QED
    BY <2>3 DEF KeptMove
<1>4. CASE b.moves[j].to \notin c.del /\ m.to = Follows(c, b.moves[j].to)
  BY <1>2, <1>4 DEF KeptMove
<1> QED
  BY <1>3, <1>4 DEF Continued

\* i begins at an entry b did not insert, and is what m is.
AddedMove(m, b, d) ==
    /\ d.from \notin b.ins
    /\ m.from = CameFrom(b, d.from) /\ m.to = d.to

LEMMA AddedMoveIs ==
    ASSUME NEW s \in Seq(Nat), NEW t \in Seq(Nat), NEW u \in Seq(Nat),
           NEW b, Builder(b), Aligned(b, s, t), NEW c, NEW d, TrueMove(c, d, t, u), Sets(c),
           NEW a, a.del = b.del \cup {o \in Nat \ b.del : Follows(b, o) \in c.del},
           c.ins \subseteq a.ins, NEW m, AddedMove(m, b, d)
    PROVE  /\ TrueMove(a, m, s, u) /\ m.from \notin b.del /\ Follows(b, m.from) = d.from
<1>0. Len(s) \in Nat /\ Len(t) \in Nat /\ Sets(b) /\ \A x \in c.del : x \in Nat
  BY LenProperties DEF Builder, Sets, PositionSet
<1>1. /\ d.from \in c.del /\ d.to \in c.ins /\ d.from \in 0 .. Len(t) - 1
      /\ d.to \in 0 .. Len(u) - 1 /\ t[d.from + 1] = u[d.to + 1]
  BY DEF TrueMove
<1>2. PICK x : x = d.from
  OBVIOUS
<1>3. PICK o : o = m.from
  OBVIOUS
<1>4. x \in Nat /\ x \notin b.ins /\ o = CameFrom(b, x)
  BY <1>0, <1>1, <1>2, <1>3 DEF AddedMove
<1>5. o \in Nat /\ o \notin b.del /\ Follows(b, o) = x
  BY <1>0, <1>4, CameFromFacts
<1>6. (o < Len(s) <=> x < Len(t)) /\ (o < Len(s) => s[o + 1] = t[x + 1])
  BY <1>5 DEF Aligned
<1>7. x < Len(t)
  BY <1>0, <1>1, <1>2
<1>8. o \in 0 .. Len(s) - 1 /\ s[o + 1] = t[x + 1]
  BY <1>0, <1>5, <1>6, <1>7
<1>9. o \in a.del
  BY <1>1, <1>2, <1>5
<1>10. m.to = d.to
  BY DEF AddedMove
<1> QED
  BY <1>1, <1>2, <1>3, <1>5, <1>8, <1>9, <1>10 DEF TrueMove

\* What is known of the moves of a: k of them kept, the others added.
Moves2(m, kept, r) ==
    /\ m \in Seq(MovePairs) /\ DOMAIN m = 1 .. Len(kept) + Len(r) /\ DOMAIN kept = 1 .. Len(kept)
    /\ Len(kept) \in Nat /\ Len(r) \in Nat /\ DOMAIN r = 1 .. Len(r)
    /\ \A n \in DOMAIN kept : n \in DOMAIN m /\ m[n] = kept[n]
    /\ \A n \in DOMAIN r : Len(kept) + n \in DOMAIN m /\ m[Len(kept) + n] = r[n]
    /\ \A n \in DOMAIN m : n \in DOMAIN kept \/ \E i \in DOMAIN r : n = Len(kept) + i

LEMMA Moves2Is ==
    ASSUME NEW kept \in Seq(MovePairs), NEW r \in Seq(MovePairs), NEW m, m = kept \o r
    PROVE  Moves2(m, kept, r)
<1>1. /\ DOMAIN kept = 1 .. Len(kept) /\ Len(kept) \in Nat
      /\ DOMAIN r = 1 .. Len(r) /\ Len(r) \in Nat
  BY LenProperties
<1>2. /\ m \in Seq(MovePairs) /\ Len(m) = Len(kept) + Len(r)
      /\ \A n \in 1 .. Len(kept) + Len(r) :
            m[n] = IF n <= Len(kept) THEN kept[n] ELSE r[n - Len(kept)]
  BY ConcatProperties
<1>3. DOMAIN m = 1 .. Len(kept) + Len(r)
  BY <1>2, LenProperties
<1>4. \A n \in 1 .. Len(kept) : n \in DOMAIN m /\ m[n] = kept[n]
  BY <1>1, <1>2, <1>3
<1>5. ASSUME NEW n \in 1 .. Len(r)
      PROVE  Len(kept) + n \in DOMAIN m /\ m[Len(kept) + n] = r[n]
  <2>1. PICK q : q = Len(kept) + n
    OBVIOUS
  <2>2. q \in 1 .. Len(kept) + Len(r) /\ ~(q <= Len(kept)) /\ q - Len(kept) = n
    BY <1>1, <2>1
  <2>3. m[q] = r[n]
    BY <1>2, <2>2
  <2> QED
    BY <1>3, <2>1, <2>2, <2>3
<1>6. ASSUME NEW n \in 1 .. Len(kept) + Len(r)
      PROVE  n \in DOMAIN kept \/ \E i \in DOMAIN r : n = Len(kept) + i
  <2>1. CASE n <= Len(kept)
    BY <1>1, <2>1
  <2>2. CASE ~(n <= Len(kept))
    <3>1. n - Len(kept) \in 1 .. Len(r) /\ n = Len(kept) + (n - Len(kept))
      BY <1>1, <2>2
    <3> QED
      BY <1>1, <3>1
  <2> QED
    BY <2>1, <2>2
<1> QED
  BY <1>1, <1>2, <1>3, <1>4, <1>5, <1>6 DEF Moves2

\* The moves of the merged change set: from where to where its moves go.
MovesMerged(b, c, a, s, u, fol, l) ==
    /\ fol \in Followings /\ NextTo(fol, l, b, c) /\ KeptTo(fol, l, b, c)
    /\ a.moves \in Seq(MovePairs)
    /\ \A n \in DOMAIN a.moves : KeptMove(a.moves[n], b, c, a, s, u)
         \/ TrueMove(a, a.moves[n], s, u)
    /\ \A j, k \in DOMAIN a.moves : a.moves[j].from = a.moves[k].from => j = k
    /\ \A k \in DOMAIN fol.kept : \E n \in DOMAIN a.moves : a.moves[n] = fol.kept[k]
    /\ \A k \in DOMAIN fol.next : fol.next[k].from \notin b.ins =>
          \E n \in DOMAIN a.moves : a.moves[n].to = fol.next[k].to

LEMMA MergedMoves ==
    ASSUME NEW s \in Seq(Nat), NEW t \in Seq(Nat), NEW u \in Seq(Nat), Distinct(s), Distinct(t),
           NEW b, Leads(b, s, t), NEW c, Leads(c, t, u), c.mod \subseteq Nat,
           NEW a, Joined(b, c, a),
           NEW fol, fol = FollowMoves(b, c), NEW l, l = Len(b.moves)
    PROVE  MovesMerged(b, c, a, s, u, fol, l)
<1>1. /\ Builder(b) /\ Sets(b) /\ Aligned(b, s, t) /\ TrueMoves(b, s, t)
      /\ Builder(c) /\ Sets(c) /\ Aligned(c, t, u) /\ TrueMoves(c, t, u)
      /\ Builder(a) /\ Sets(a)
  BY DEF Leads, Builder, Joined
<1>2. Apart(b.moves) /\ Apart(c.moves)
  BY <1>1, MovesApart DEF TrueMoves, Apart
<1>3. \A i \in DOMAIN c.moves : TrueMove(c, c.moves[i], t, u) /\ c.moves[i].from \in c.del
  BY <1>1 DEF TrueMoves, TrueMove
<1>4. fol \in Followings /\ NextTo(fol, l, b, c) /\ KeptTo(fol, l, b, c)
  BY <1>1, <1>2, <1>3, MovesFollowed
<1>5. PICK r : a.moves = fol.kept \o r /\ Added(b, fol, r)
  BY DEF Joined, JoinedMoves
<1>6. fol.kept \in Seq(MovePairs) /\ r \in Seq(MovePairs)
  BY <1>4, <1>5 DEF Followings, Added
<1>7. Moves2(a.moves, fol.kept, r)
  BY <1>5, <1>6, Moves2Is
<1>8. a.del = b.del \cup {o \in Nat \ b.del : Follows(b, o) \in c.del} /\ c.ins \subseteq a.ins
  <2>1. Merged(b, c, a)
    BY <1>1, MergesFollow DEF Joined
  <2>2. c.ins \subseteq MergedInsertions(b, c)
    BY DEF MergedInsertions, InsertPositions
  <2> QED
    BY <2>1, <2>2 DEF Merged, Joined
<1>9. DOMAIN b.moves = 1 .. l
  BY <1>1, LenProperties DEF TrueMoves
<1>10. ASSUME NEW k \in DOMAIN fol.kept
       PROVE  KeptMove(fol.kept[k], b, c, a, s, u) /\ fol.kept[k].from \in b.del
  <2>1. PICK j \in DOMAIN b.moves : Continued(fol.kept[k], b.moves[j], c)
    BY <1>4, <1>9 DEF KeptTo
  <2>2. KeptMove(fol.kept[k], b, c, a, s, u)
    BY <1>1, <1>8, <2>1, KeptMoveIs
  <2>3. fol.kept[k].from = b.moves[j].from
    BY <2>1 DEF Continued
  <2>4. b.moves[j].from \in b.del
    BY <1>1 DEF TrueMoves, TrueMove
  <2> QED
    BY <2>2, <2>3, <2>4
<1>11. \A k \in DOMAIN fol.next : \E i \in DOMAIN c.moves : fol.next[k] = c.moves[i]
  BY <1>4 DEF NextTo
<1>12. \A k \in DOMAIN fol.next : TrueMove(c, fol.next[k], t, u)
  BY <1>3, <1>11
<1>13. ASSUME NEW n \in DOMAIN r
       PROVE  TrueMove(a, r[n], s, u) /\ r[n].from \notin b.del
  <2>1. PICK i \in DOMAIN fol.next : AddedMove(r[n], b, fol.next[i])
    BY <1>5 DEF Added, AddedMove
  <2>2. PICK d, m : d = fol.next[i] /\ m = r[n]
    OBVIOUS
  <2>3. TrueMove(c, d, t, u) /\ AddedMove(m, b, d)
    BY <1>12, <2>1, <2>2
  <2>4. TrueMove(a, m, s, u) /\ m.from \notin b.del
    BY <1>1, <1>8, <2>3, AddedMoveIs
  <2> QED
    BY <2>2, <2>4
<1>14. ASSUME NEW x \in DOMAIN r, NEW y \in DOMAIN r, x # y
       PROVE  r[x].from # r[y].from
  <2>1. PICK i \in DOMAIN fol.next, j \in DOMAIN fol.next :
           /\ i # j
           /\ fol.next[i].from \notin b.ins /\ fol.next[j].from \notin b.ins
           /\ r[x].from = CameFrom(b, fol.next[i].from)
           /\ r[y].from = CameFrom(b, fol.next[j].from)
    BY ZenonT(30), <1>5, <1>14 DEF Added
  <2>2. PICK p, q : p = fol.next[i].from /\ q = fol.next[j].from
    OBVIOUS
  <2>3. p # q
    BY <1>4, <2>1, <2>2 DEF NextTo
  <2>4. p \in Nat /\ q \in Nat
    <3>1. p \in c.del /\ q \in c.del
      BY <1>12, <2>2 DEF TrueMove
    <3> QED
      BY <1>1, <3>1 DEF Sets, PositionSet
  <2>5. Follows(b, CameFrom(b, p)) = p /\ Follows(b, CameFrom(b, q)) = q
    BY <1>1, <2>1, <2>2, <2>4, CameFromFacts
  <2>6. r[x].from = CameFrom(b, p) /\ r[y].from = CameFrom(b, q)
    BY <2>1, <2>2
  <2> QED
    BY <2>3, <2>5, <2>6
<1>15. ASSUME NEW n \in DOMAIN a.moves
       PROVE  KeptMove(a.moves[n], b, c, a, s, u) \/ TrueMove(a, a.moves[n], s, u)
  <2>1. CASE n \in DOMAIN fol.kept
    BY <1>7, <1>10, <2>1 DEF Moves2
  <2>2. CASE \E i \in DOMAIN r : n = Len(fol.kept) + i
    BY <1>7, <1>13, <2>2 DEF Moves2
  <2> QED
    BY <1>7, <2>1, <2>2 DEF Moves2
<1>16. ASSUME NEW j \in DOMAIN a.moves, NEW k \in DOMAIN a.moves, j # k
       PROVE  a.moves[j].from # a.moves[k].from
  <2>1. \A n \in DOMAIN fol.kept : a.moves[n] = fol.kept[n] /\ a.moves[n].from \in b.del
    BY <1>7, <1>10 DEF Moves2
  <2>2. \A i \in DOMAIN r : /\ a.moves[Len(fol.kept) + i] = r[i]
                            /\ a.moves[Len(fol.kept) + i].from \notin b.del
    BY <1>7, <1>13 DEF Moves2
  <2>3. \A n \in DOMAIN a.moves : n \in DOMAIN fol.kept \/ \E i \in DOMAIN r : n = Len(fol.kept) + i
    BY <1>7 DEF Moves2
  <2>4. CASE j \in DOMAIN fol.kept /\ k \in DOMAIN fol.kept
    BY <1>4, <1>16, <2>1, <2>4 DEF KeptTo
  <2>5. CASE j \notin DOMAIN fol.kept /\ k \notin DOMAIN fol.kept
    <3>1. PICK x \in DOMAIN r, y \in DOMAIN r : j = Len(fol.kept) + x /\ k = Len(fol.kept) + y
      BY <2>3, <2>5
    <3>2. x # y
      BY <1>16, <3>1
    <3>3. a.moves[j] = r[x] /\ a.moves[k] = r[y]
      BY <2>2, <3>1
    <3> QED
      BY <1>14, <3>2, <3>3
  <2>6. CASE (j \in DOMAIN fol.kept) # (k \in DOMAIN fol.kept)
    BY <2>1, <2>2, <2>3, <2>6
  <2> QED
    BY <2>4, <2>5, <2>6
<1>17. \A k \in DOMAIN fol.kept : \E n \in DOMAIN a.moves : a.moves[n] = fol.kept[k]
  BY <1>7 DEF Moves2
<1>18. ASSUME NEW k \in DOMAIN fol.next, fol.next[k].from \notin b.ins
       PROVE  \E n \in DOMAIN a.moves : a.moves[n].to = fol.next[k].to
  <2>1. PICK n \in DOMAIN r : r[n].to = fol.next[k].to
    BY <1>5, <1>18 DEF Added
  <2>2. Len(fol.kept) + n \in DOMAIN a.moves /\ a.moves[Len(fol.kept) + n] = r[n]
    BY <1>7 DEF Moves2
  <2> QED
    BY <2>1, <2>2
<1>19. a.moves \in Seq(MovePairs)
  BY <1>7 DEF Moves2
<1> QED
  BY <1>4, <1>15, <1>16, <1>17, <1>18, <1>19 DEF MovesMerged

LEMMA MergedLeads ==
    ASSUME NEW s \in Seq(Nat), NEW t \in Seq(Nat), NEW u \in Seq(Nat), Distinct(s), Distinct(t),
           NoneBack(s, t, u),
           NEW b, Leads(b, s, t), NEW c, Leads(c, t, u), c.mod \subseteq Nat,
           NEW a, Joined(b, c, a)
    PROVE  Leads(a, s, u)
<1>0. Len(t) \in Nat /\ Len(u) \in Nat /\ Len(s) \in Nat
  BY LenProperties
<1>1. /\ Builder(b) /\ Builder(c) /\ Aligned(c, t, u) /\ Builder(a)
      /\ TrueMoves(c, t, u) /\ InsertionsTold(c, t, u) /\ InsertionsTold(b, s, t)
      /\ TrueMoves(b, s, t) /\ Sets(b) /\ Sets(c)
  BY DEF Leads, Joined, Builder
<1>2. PICK g : g = [x \in Nat |-> Follows(c, x)]
  OBVIOUS
<1>3. Takes(g, c.del, t, u) /\ TakenBy(g, c.del, b, a)
  BY <1>1, <1>2, MergedTakes DEF Joined
<1>4. PICK fol, l : fol = FollowMoves(b, c) /\ l = Len(b.moves)
  OBVIOUS
<1>5. /\ NextTo(fol, l, b, c) /\ KeptTo(fol, l, b, c)
      /\ a.moves \in Seq(MovePairs)
      /\ \A n \in DOMAIN a.moves : KeptMove(a.moves[n], b, c, a, s, u)
           \/ TrueMove(a, a.moves[n], s, u)
      /\ \A j, k \in DOMAIN a.moves : a.moves[j].from = a.moves[k].from => j = k
      /\ \A k \in DOMAIN fol.kept : \E n \in DOMAIN a.moves : a.moves[n] = fol.kept[k]
      /\ \A k \in DOMAIN fol.next : fol.next[k].from \notin b.ins =>
            \E n \in DOMAIN a.moves : a.moves[n].to = fol.next[k].to
  <2>1. MovesMerged(b, c, a, s, u, fol, l)
    BY <1>4, MergedMoves
  <2> QED
    BY <2>1 DEF MovesMerged
<1>6. DOMAIN b.moves = 1 .. l
  BY <1>1, <1>4, LenProperties DEF TrueMoves
<1>7. \A k \in DOMAIN b.moves : /\ g[b.moves[k].to] = Follows(c, b.moves[k].to)
                                /\ b.moves[k].to \in b.ins
  <2> TAKE k \in DOMAIN b.moves
  <2>1. b.moves[k].to \in b.ins
    BY <1>1 DEF TrueMoves, TrueMove
  <2>2. b.moves[k].to \in Nat
    BY <1>1, <2>1 DEF Sets, PositionSet
  <2> QED
    BY <1>2, <2>1, <2>2
<1>8. MovesTaken(g, c.del, b, a, s, u)
  <2>1. ASSUME NEW n \in DOMAIN a.moves
        PROVE  \/ TrueMove(a, a.moves[n], s, u)
               \/ \E k \in DOMAIN b.moves : /\ b.moves[k].to \notin c.del
                                            /\ a.moves[n].from = b.moves[k].from
                                            /\ a.moves[n].to = g[b.moves[k].to]
    BY <1>5, <1>7 DEF KeptMove
  <2>2. ASSUME NEW k \in DOMAIN b.moves, b.moves[k].to \notin c.del
        PROVE  \E n \in DOMAIN a.moves : a.moves[n].to = g[b.moves[k].to]
    <3>1. PICK j \in DOMAIN fol.kept : fol.kept[j].to = Follows(c, b.moves[k].to)
      BY <1>5, <1>6, <2>2 DEF KeptTo
    <3> QED
      BY <1>5, <1>7, <3>1
  <2> QED
    BY <1>5, <2>1, <2>2 DEF MovesTaken
<1>9. ASSUME NEW n \in c.ins
      PROVE  /\ n < Len(u)
             /\ Unknown(u[n + 1], s) \/ \E k \in DOMAIN a.moves : a.moves[k].to = n
  <2>1. n < Len(u) /\ (Unknown(u[n + 1], t) \/ \E k \in DOMAIN c.moves : c.moves[k].to = n)
    BY <1>1 DEF InsertionsTold
  <2>2. n \in Nat
    BY <1>1 DEF Sets, PositionSet
  <2>3. n + 1 \in 1 .. Len(u)
    BY <1>0, <2>1, <2>2
  <2>4. CASE Unknown(u[n + 1], t)
    <3>1. Unknown(u[n + 1], s)
      BY <2>3, <2>4 DEF Unknown, NoneBack
    <3> QED
      BY <2>1, <3>1
  <2>5. ASSUME NEW i \in DOMAIN c.moves, c.moves[i].to = n
        PROVE  Unknown(u[n + 1], s) \/ \E k \in DOMAIN a.moves : a.moves[k].to = n
    <3>1. PICK p : p = c.moves[i].from
      OBVIOUS
    <3>2. p \in c.del /\ p \in 0 .. Len(t) - 1 /\ t[p + 1] = u[n + 1]
      BY <1>1, <2>5, <3>1 DEF TrueMoves, TrueMove
    <3>3. CASE \E j \in DOMAIN b.moves : b.moves[j].to = p
      <4>1. PICK j \in 1 .. l : b.moves[j].to = p
        BY <1>6, <3>3
      <4>2. PICK k \in DOMAIN fol.kept : fol.kept[k].to = c.moves[i].to
        BY <1>5, <3>1, <4>1 DEF KeptTo
      <4> QED
        BY <1>5, <2>5, <4>2
    <3>4. CASE ~\E j \in DOMAIN b.moves : b.moves[j].to = p
      <4>1. PICK k \in DOMAIN fol.next : fol.next[k] = c.moves[i]
        BY <1>5, <1>6, <3>1, <3>4 DEF NextTo
      <4>2. CASE p \notin b.ins
        <5>1. fol.next[k].from \notin b.ins /\ fol.next[k].to = n
          BY <2>5, <3>1, <4>1, <4>2
        <5> QED
          BY <1>5, <5>1
      <4>3. CASE p \in b.ins
        BY <1>1, <3>2, <3>4, <4>3 DEF InsertionsTold
      <4> QED
        BY <4>2, <4>3
    <3> QED
      BY <3>3, <3>4
  <2> QED
    BY <2>1, <2>4, <2>5
<1>10. InsertionsTaken(g, c.del, b, a, s, u)
  <2>1. ASSUME NEW n \in a.ins, n \notin c.ins
        PROVE  \E x \in b.ins \ c.del : n = g[x]
    <3>1. PICK x \in b.ins \ c.del : n = Follows(c, x)
      BY <2>1 DEF Joined, MergedInsertions, InsertPositions, ShiftForInsertPositions,
                  ErasePositions, Follows
    <3>2. x \in Nat
      BY <1>1 DEF Sets, PositionSet
    <3> QED
      BY <1>2, <3>1, <3>2
  <2> QED
    BY <1>9, <2>1 DEF InsertionsTaken
<1> QED
  BY <1>1, <1>3, <1>8, <1>10, LeadsStep

\* The entries c marks stay marked, and those b marked, unless they are gone or were
\* not known at all.
MarksMerged(b, c, mod, s, t, u) ==
    /\ mod \subseteq 0 .. Len(u) - 1 /\ c.mod \subseteq mod
    /\ \A x \in b.mod : \/ Unknown(t[x + 1], u) \/ Unknown(t[x + 1], s)
                        \/ \E y \in mod : u[y + 1] = t[x + 1]

\* An entry that c deletes and that is still there was moved by c.
MovedOn(x, c, t, u) ==
    \E i \in DOMAIN c.moves : c.moves[i].from = x /\ u[c.moves[i].to + 1] = t[x + 1]

LEMMA MovedByC ==
    ASSUME NEW t \in Seq(Nat), NEW u \in Seq(Nat), Distinct(t), NEW c, Leads(c, t, u),
           NEW x \in 0 .. Len(t) - 1, x \in c.del, ~Unknown(t[x + 1], u)
    PROVE  MovedOn(x, c, t, u)
<1>0. Len(t) \in Nat /\ Len(u) \in Nat
  BY LenProperties
<1>1. /\ Builder(c) /\ Sets(c) /\ Aligned(c, t, u) /\ TrueMoves(c, t, u) /\ InsertionsTold(c, t, u)
  BY DEF Leads, Builder
<1>2. PICK k \in 1 .. Len(u) : u[k] = t[x + 1]
  BY DEF Unknown
<1>3. PICK n : n = k - 1
  OBVIOUS
<1>4. n \in Nat /\ n < Len(u) /\ u[n + 1] = t[x + 1] /\ x \in Nat /\ x + 1 \in 1 .. Len(t)
  BY <1>0, <1>2, <1>3
<1>5. n \in c.ins
  <2> SUFFICES ASSUME n \notin c.ins
               PROVE  FALSE
    OBVIOUS
  <2>1. PICK o : o = CameFrom(c, n)
    OBVIOUS
  <2>2. o \in Nat /\ o \notin c.del /\ Follows(c, o) = n
    BY <1>1, <1>4, <2>1, CameFromFacts
  <2>3. o < Len(t) /\ t[o + 1] = u[n + 1]
    BY <1>1, <1>4, <2>2 DEF Aligned
  <2>4. o + 1 \in 1 .. Len(t)
    BY <1>0, <2>2, <2>3
  <2>5. o + 1 = x + 1
    BY <1>4, <2>3, <2>4 DEF Distinct
  <2> QED
    BY <1>4, <2>2, <2>5
<1>6. PICK i \in DOMAIN c.moves : c.moves[i].to = n
  <2>1. ~Unknown(u[n + 1], t)
    BY <1>4 DEF Unknown
  <2> QED
    BY <1>1, <1>5, <2>1 DEF InsertionsTold
<1>7. PICK p : p = c.moves[i].from
  OBVIOUS
<1>8. p \in 0 .. Len(t) - 1 /\ t[p + 1] = u[n + 1]
  BY <1>1, <1>6, <1>7 DEF TrueMoves, TrueMove
<1>9. p + 1 \in 1 .. Len(t)
  BY <1>0, <1>8
<1>10. p + 1 = x + 1
  BY <1>4, <1>8, <1>9 DEF Distinct
<1>11. p = x
  BY <1>0, <1>4, <1>8, <1>10
<1> QED
  BY <1>4, <1>6, <1>7, <1>11 DEF MovedOn

LEMMA MarksCarried ==
    ASSUME NEW s \in Seq(Nat), NEW t \in Seq(Nat), NEW u \in Seq(Nat), Distinct(s), Distinct(t),
           NEW b, Leads(b, s, t), NEW c, Leads(c, t, u),
           b.mod \subseteq 0 .. Len(t) - 1, c.mod \subseteq 0 .. Len(u) - 1,
           NEW a, Joined(b, c, a), NEW mod, MergedModifications(b, c, FollowMoves(b, c), mod)
    PROVE  MarksMerged(b, c, mod, s, t, u)
<1>0. Len(t) \in Nat /\ Len(u) \in Nat
  BY LenProperties
<1>1. PICK fol, l : fol = FollowMoves(b, c) /\ l = Len(b.moves)
  OBVIOUS
<1>2. c.mod \subseteq Nat
  BY <1>0
<1>3. MovesMerged(b, c, a, s, u, fol, l)
  BY <1>1, <1>2, MergedMoves
<1>4. NextTo(fol, l, b, c) /\ KeptTo(fol, l, b, c)
  BY <1>3 DEF MovesMerged
<1>5. /\ Sets(b) /\ Sets(c) /\ Aligned(c, t, u) /\ TrueMoves(c, t, u) /\ TrueMoves(b, s, t)
      /\ InsertionsTold(b, s, t)
  BY DEF Leads, Builder
<1>6. DOMAIN b.moves = 1 .. l
  BY <1>1, <1>5, LenProperties DEF TrueMoves
<1>7. /\ \A x \in b.mod \ c.del : Follows(c, x) \in mod
      /\ fol.mod \subseteq mod
      /\ \A i \in DOMAIN fol.next :
            fol.next[i].from \notin b.ins /\ fol.next[i].from \in b.mod => fol.next[i].to \in mod
      /\ \A y \in mod : \/ \E x \in b.mod \ c.del : y = Follows(c, x)
                        \/ y \in fol.mod
                        \/ \E i \in DOMAIN fol.next : y = fol.next[i].to
  BY <1>1 DEF MergedModifications
<1>8. \A x \in b.mod \ c.del : /\ x \in Nat /\ Follows(c, x) \in 0 .. Len(u) - 1
                               /\ u[Follows(c, x) + 1] = t[x + 1]
  <2> TAKE x \in b.mod \ c.del
  <2>1. x \in Nat /\ x < Len(t) /\ x \notin c.del
    BY <1>0
  <2>2. Follows(c, x) \in Nat
    BY <1>5, <2>1, FollowsFacts
  <2>3. Follows(c, x) < Len(u) /\ t[x + 1] = u[Follows(c, x) + 1]
    BY <1>5, <2>1 DEF Aligned
  <2> QED
    BY <1>0, <2>1, <2>2, <2>3
<1>9. \A i \in DOMAIN c.moves : c.moves[i].to \in 0 .. Len(u) - 1
  BY <1>5 DEF TrueMoves, TrueMove
<1>10. mod \subseteq 0 .. Len(u) - 1
  <2>1. \A y \in fol.mod : y \in 0 .. Len(u) - 1
    <3>1. \A y \in fol.mod : y \in c.mod \/ \E i \in DOMAIN c.moves : c.moves[i].to = y
      BY <1>4 DEF KeptTo
    <3> QED
      BY <1>9, <3>1
  <2>2. \A i \in DOMAIN fol.next : fol.next[i].to \in 0 .. Len(u) - 1
    BY <1>4, <1>9 DEF NextTo
  <2> QED
    BY <1>7, <1>8, <2>1, <2>2
<1>11. c.mod \subseteq mod
  BY <1>4, <1>7 DEF KeptTo
<1>12. ASSUME NEW x \in b.mod, ~Unknown(t[x + 1], u), ~Unknown(t[x + 1], s)
       PROVE  \E y \in mod : u[y + 1] = t[x + 1]
  <2>1. CASE x \notin c.del
    BY <1>7, <1>8, <2>1
  <2>2. CASE x \in c.del
    <3>0. x \in 0 .. Len(t) - 1
      OBVIOUS
    <3>1. PICK i \in DOMAIN c.moves : c.moves[i].from = x /\ u[c.moves[i].to + 1] = t[x + 1]
      <4>1. MovedOn(x, c, t, u)
        BY <1>12, <2>2, <3>0, MovedByC
      <4> QED
        BY <4>1 DEF MovedOn
    <3>2. CASE \E j \in DOMAIN b.moves : b.moves[j].to = x
      <4>1. PICK j \in 1 .. l : b.moves[j].to = x
        BY <1>6, <3>2
      <4>2. c.moves[i].to \in fol.mod
        <5>1. c.moves[i].from = b.moves[j].to /\ b.moves[j].to \in b.mod
          BY <3>1, <4>1
        <5>2. \A i2 \in DOMAIN c.moves : c.moves[i2].from = b.moves[j].to =>
                 (b.moves[j].to \in b.mod => c.moves[i2].to \in fol.mod)
          BY <1>4 DEF KeptTo
        <5> QED
          BY <5>1, <5>2
      <4> QED
        BY <1>7, <3>1, <4>2
    <3>3. CASE ~\E j \in DOMAIN b.moves : b.moves[j].to = x
      <4>1. PICK k \in DOMAIN fol.next : fol.next[k] = c.moves[i]
        BY <1>4, <1>6, <3>1, <3>3 DEF NextTo
      <4>2. x \notin b.ins
        BY <1>5, <1>12, <3>3 DEF InsertionsTold
      <4>3. fol.next[k].from \notin b.ins /\ fol.next[k].from \in b.mod
            /\ fol.next[k].to = c.moves[i].to
        BY <3>1, <4>1, <4>2
      <4>4. c.moves[i].to \in mod
        BY <1>7, <4>3
      <4> QED
        BY <3>1, <4>4
    <3> QED
      BY <3>2, <3>3
  <2> QED
    BY <2>1, <2>2
<1> QED
  BY <1>10, <1>11, <1>12 DEF MarksMerged

\* Other marks lead nowhere else.
SameBut(b, e, mod) ==
    /\ e.mod = mod /\ e.map = b.map /\ e.moves = b.moves /\ e.del = b.del /\ e.ins = b.ins

LEMMA OtherMarks ==
    ASSUME NEW s, NEW t, NEW b, Leads(b, s, t), NEW mod, NEW e, e = [b EXCEPT !.mod = mod]
    PROVE  Leads(e, s, t) /\ SameBut(b, e, mod)
<1>1. Builder(b) /\ Aligned(b, s, t) /\ TrueMoves(b, s, t) /\ InsertionsTold(b, s, t) /\ Sets(b)
  BY DEF Leads, Builder
<1>2. b = [del |-> b.del, ins |-> b.ins, mod |-> b.mod, moves |-> b.moves, map |-> b.map]
  BY <1>1 DEF Builder
<1>3. e = [del |-> b.del, ins |-> b.ins, mod |-> mod, moves |-> b.moves, map |-> b.map]
  BY <1>2
<1>4. e.mod = mod /\ e.map = b.map /\ e.moves = b.moves /\ e.del = b.del /\ e.ins = b.ins
  BY <1>3
<1>5. e = [del |-> e.del, ins |-> e.ins, mod |-> e.mod, moves |-> e.moves, map |-> e.map]
  BY <1>3, <1>4
<1> HIDE <1>2
<1>6. Builder(e)
  BY <1>1, <1>4, <1>5 DEF Builder, Sets
<1>7. \A o : Follows(e, o) = Follows(b, o)
  BY <1>4 DEF Follows
<1>8. Aligned(e, s, t)
  BY <1>1, <1>4, <1>7 DEF Aligned
<1>9. TrueMoves(e, s, t) /\ InsertionsTold(e, s, t)
  BY <1>1, <1>4 DEF TrueMoves, TrueMove, InsertionsTold
<1> QED
  BY <1>4, <1>6, <1>8, <1>9 DEF Leads, SameBut

MergedInto(b, c, e, s, t, u) ==
    Leads(e, s, u) /\ e.map = << >> /\ MarksMerged(b, c, e.mod, s, t, u)

(* merge (collection_change_builder.cpp:41-140): from a change set of the callback's
   collection and that of the last run, and one of that and the collection now, it
   makes one of the callback's collection and the collection now; the entries
   either marks as modified are marked or new. *)
THEOREM MergeLeads ==
    ASSUME NEW s \in Seq(Nat), NEW t \in Seq(Nat), NEW u \in Seq(Nat), Distinct(s), Distinct(t),
           NoneBack(s, t, u), NEW b, Leads(b, s, t), NEW c, Leads(c, t, u),
           b.mod \subseteq 0 .. Len(t) - 1, c.mod \subseteq 0 .. Len(u) - 1,
           b.map = << >>, c.map = << >>, NEW e, e = Merge(b, c)
    PROVE  MergedInto(b, c, e, s, t, u)
<1>0. Len(s) \in Nat /\ Len(t) \in Nat /\ Len(u) \in Nat /\ c.mod \subseteq Nat /\ b.mod \subseteq Nat
  BY LenProperties
<1>1. CASE IsEmpty(c)
  <2>1. e = b
    BY <1>1 DEF Merge
  <2>2. t = u /\ c.mod = {}
    BY <1>1, EmptyLeads DEF IsEmpty
  <2>3. MarksMerged(b, c, b.mod, s, t, u)
    BY <2>2 DEF MarksMerged
  <2> QED
    BY <2>1, <2>2, <2>3 DEF MergedInto
<1>2. CASE IsEmpty(b) /\ ~IsEmpty(c)
  <2>1. e = c
    BY <1>2 DEF Merge
  <2>2. s = t /\ b.mod = {}
    BY <1>2, EmptyLeads DEF IsEmpty
  <2>3. MarksMerged(b, c, c.mod, s, t, u)
    BY <2>2 DEF MarksMerged
  <2> QED
    BY <2>1, <2>2, <2>3 DEF MergedInto
<1>3. CASE ~IsEmpty(b) /\ ~IsEmpty(c)
  <2>1. /\ Builder(b) /\ Builder(c) /\ Sets(c) /\ TrueMoves(b, s, t) /\ TrueMoves(c, t, u)
    BY DEF Leads, Builder
  <2>2. Apart(b.moves) /\ Apart(c.moves) /\ \A i \in DOMAIN c.moves : c.moves[i].from \in c.del
    <3>1. \A j, k \in DOMAIN b.moves : b.moves[j].to = b.moves[k].to => j = k
      BY <2>1, MovesApart
    <3>2. \A j, k \in DOMAIN c.moves : c.moves[j].to = c.moves[k].to => j = k
      BY <2>1, MovesApart
    <3>3. \A i \in DOMAIN c.moves : c.moves[i].from \in c.del
      BY <2>1 DEF TrueMoves, TrueMove
    <3> QED
      BY <2>1, <3>1, <3>2, <3>3 DEF TrueMoves, Apart
  <2>3. FollowMoves(b, c) \in Followings
    BY <1>0, <2>1, <2>2, MovesFollowed
  <2>4. PICK a : /\ Joined(b, c, a) /\ a.map = << >>
                 /\ \E mod : /\ e = [CleanUpStaleMoves(a) EXCEPT !.mod = mod]
                             /\ MergedModifications(b, c, FollowMoves(b, c), mod)
    BY <1>0, <1>3, <2>1, <2>3, MergeIs
  <2>5. PICK mod : /\ e = [CleanUpStaleMoves(a) EXCEPT !.mod = mod]
                   /\ MergedModifications(b, c, FollowMoves(b, c), mod)
    BY <2>4
  <2>6. Leads(a, s, u)
    BY <1>0, <2>4, MergedLeads
  <2>7. PICK d : d = CleanUpStaleMoves(a)
    OBVIOUS
  <2>8. Leads(d, s, u) /\ d.map = << >>
    BY <2>4, <2>6, <2>7, CleanUpLeads
  <2>9. Leads(e, s, u) /\ e.mod = mod /\ e.map = d.map
    <3>1. e = [d EXCEPT !.mod = mod]
      BY <2>5, <2>7
    <3>2. Leads(e, s, u) /\ SameBut(d, e, mod)
      BY <2>8, <3>1, OtherMarks
    <3> QED
      BY <3>2 DEF SameBut
  <2>10. MarksMerged(b, c, mod, s, t, u)
    BY <2>4, <2>5, MarksCarried
  <2> QED
    BY <2>8, <2>9, <2>10 DEF MergedInto
<1> QED
  BY <1>1, <1>2, <1>3

-----------------------------------------------------------------------------
(* The entries and the marks of them. *)

\* u has entries of t, each once, and v.
OneNew(t, v, u) ==
    /\ u \in Seq(Nat) /\ Distinct(u)
    /\ \A n \in 1 .. Len(u) : u[n] = v \/ \E k \in 1 .. Len(t) : u[n] = t[k]

\* The entry at n was at g[n], all of them but v at i.
Drawn(g, t, i, v, u) ==
    /\ \A n \in 0 .. Len(u) - 1 : n # i => g[n] \in 0 .. Len(t) - 1 /\ u[n + 1] = t[g[n] + 1]
    /\ i \in 0 .. Len(u) - 1 => u[i + 1] = v
    /\ \A m, n \in 0 .. Len(u) - 1 : m # i /\ n # i /\ g[m] = g[n] => m = n

LEMMA DrawnOneNew ==
    ASSUME NEW t \in Seq(Nat), Distinct(t), NEW v, Unknown(v, t), NEW u \in Seq(Nat),
           NEW i, NEW g, Drawn(g, t, i, v, u)
    PROVE  OneNew(t, v, u)
<1>0. Len(t) \in Nat /\ Len(u) \in Nat
  BY LenProperties
<1>1. ASSUME NEW n \in 0 .. Len(u) - 1
      PROVE  IF n = i THEN u[n + 1] = v
             ELSE \E k \in 1 .. Len(t) : u[n + 1] = t[k]
  <2>1. CASE n # i
    <3>1. PICK x : x = g[n]
      OBVIOUS
    <3>2. x \in 0 .. Len(t) - 1 /\ u[n + 1] = t[x + 1]
      BY <2>1, <3>1 DEF Drawn
    <3>3. x + 1 \in 1 .. Len(t)
      BY <1>0, <3>2
    <3> QED
      BY <2>1, <3>2, <3>3
  <2>2. CASE n = i
    BY <2>2 DEF Drawn
  <2> QED
    BY <2>1, <2>2
<1>2. ASSUME NEW n \in 1 .. Len(u)
      PROVE  n - 1 \in 0 .. Len(u) - 1 /\ n - 1 + 1 = n
  BY <1>0
<1>3. \A n \in 1 .. Len(u) : u[n] = v \/ \E k \in 1 .. Len(t) : u[n] = t[k]
  BY <1>1, <1>2
<1>4. ASSUME NEW m \in 0 .. Len(u) - 1, NEW n \in 0 .. Len(u) - 1, u[m + 1] = u[n + 1]
      PROVE  m = n
  <2>1. CASE m = i /\ n = i
    BY <2>1
  <2>2. CASE m # i /\ n # i
    <3>0. PICK x, y : x = g[m] /\ y = g[n]
      OBVIOUS
    <3>1. /\ x \in 0 .. Len(t) - 1 /\ u[m + 1] = t[x + 1]
          /\ y \in 0 .. Len(t) - 1 /\ u[n + 1] = t[y + 1]
      BY <2>2, <3>0 DEF Drawn
    <3>2. x + 1 \in 1 .. Len(t) /\ y + 1 \in 1 .. Len(t)
      BY <1>0, <3>1
    <3>3. x + 1 = y + 1
      BY <1>4, <3>1, <3>2 DEF Distinct
    <3>4. x = y
      BY <1>0, <3>1, <3>3
    <3> QED
      BY <2>2, <3>0, <3>4 DEF Drawn
  <2>3. CASE (m = i) # (n = i)
    BY ZenonT(30), <1>1, <1>4, <2>3 DEF Unknown
  <2> QED
    BY <2>1, <2>2, <2>3
<1>5. Distinct(u)
  <2> SUFFICES ASSUME NEW m \in 1 .. Len(u), NEW n \in 1 .. Len(u), u[m] = u[n]
               PROVE  m = n
    BY DEF Distinct
  <2>1. PICK x, y : x = m - 1 /\ y = n - 1
    OBVIOUS
  <2>2. x \in 0 .. Len(u) - 1 /\ y \in 0 .. Len(u) - 1 /\ x + 1 = m /\ y + 1 = n
    BY <1>0, <2>1
  <2>3. x = y
    BY <1>4, <2>2
  <2> QED
    BY <2>2, <2>3
<1> QED
  BY <1>3, <1>5 DEF OneNew

Marked(v, b, t) == \E y \in b.mod : t[y + 1] = v
Holds(b, t) == b.mod \subseteq 0 .. Len(t) - 1

\* What was marked in t is marked in u, if it is still there.
MarksGo(b, t, e, u) ==
    /\ Holds(e, u)
    /\ \A v : Marked(v, b, t) => Unknown(v, u) \/ Marked(v, e, u)

LEMMA InsertMarks ==
    ASSUME NEW t \in Seq(Nat), Distinct(t), NEW b, Builder(b), Holds(b, t),
           NEW i \in 0 .. Len(t), NEW v \in Nat, Unknown(v, t),
           NEW u, u = InsertAt(t, i + 1, v), NEW e, e = ChangeInsert(b, i)
    PROVE  MarksGo(b, t, e, u) /\ OneNew(t, v, u)
<1>0. Len(t) \in Nat /\ i \in Nat
  BY LenProperties
<1>1. u \in Seq(Nat) /\ PutIn(t, i, v, u)
  BY InsertAtFacts
<1>2. Len(u) = Len(t) + 1 /\ u[i + 1] = v /\ \A n \in 0 .. Len(t) - 1 : u[Up(n, i) + 1] = t[n + 1]
  BY <1>1 DEF PutIn
<1>3. e.mod = {Up(x, i) : x \in b.mod}
  <2>1. DOMAIN b = {"del", "ins", "mod", "moves", "map"}
    BY DEF Builder
  <2>2. e.mod = ShiftForInsertAt(b.mod, i)
    BY <2>1 DEF ChangeInsert
  <2> QED
    BY <2>2 DEF ShiftForInsertAt, Up
<1>4. \A x \in 0 .. Len(t) - 1 : Up(x, i) \in 0 .. Len(u) - 1
  BY <1>0, <1>2 DEF Up
<1>5. Holds(e, u)
  BY <1>3, <1>4 DEF Holds
<1>6. \A x \in b.mod : Up(x, i) \in e.mod /\ u[Up(x, i) + 1] = t[x + 1]
  BY <1>2, <1>3 DEF Holds
<1>7. MarksGo(b, t, e, u)
  BY <1>5, <1>6 DEF MarksGo, Marked
<1>8. PICK g : g = [n \in Nat |-> Down(n, i)]
  OBVIOUS
<1>9. Drawn(g, t, i, v, u)
  <2>1. ASSUME NEW n \in 0 .. Len(u) - 1, n # i
        PROVE  g[n] \in 0 .. Len(t) - 1 /\ Up(g[n], i) = n /\ u[n + 1] = t[g[n] + 1]
    <3>1. g[n] = Down(n, i)
      BY <1>0, <1>2, <1>8
    <3>2. g[n] \in 0 .. Len(t) - 1 /\ Up(g[n], i) = n
      BY <1>0, <1>2, <2>1, <3>1 DEF Down, Up
    <3> QED
      BY <1>2, <3>2
  <2>2. \A m, n \in 0 .. Len(u) - 1 : m # i /\ n # i /\ g[m] = g[n] => m = n
    BY <2>1
  <2> QED
    BY <1>2, <2>1, <2>2 DEF Drawn
<1>10. OneNew(t, v, u)
  BY <1>1, <1>9, DrawnOneNew
<1> QED
  BY <1>7, <1>10

LEMMA EraseMarks ==
    ASSUME NEW t \in Seq(Nat), Distinct(t), NEW b, Builder(b), Holds(b, t),
           NEW i \in 0 .. Len(t) - 1, NEW v, Unknown(v, t),
           NEW u, u = RemoveAt(t, i + 1), NEW e, e = ChangeErase(b, i)
    PROVE  MarksGo(b, t, e, u) /\ OneNew(t, v, u)
<1>0. Len(t) \in Nat /\ i \in Nat
  BY LenProperties
<1>1. u \in Seq(Nat) /\ TakenOut(t, i, u)
  BY RemoveAtFacts
<1>2. /\ Len(u) = Len(t) - 1 /\ \A n \in 0 .. Len(t) - 1 : n # i => u[Down(n, i) + 1] = t[n + 1]
      /\ \A n \in 1 .. Len(u) : \E k \in 1 .. Len(t) : k # i + 1 /\ u[n] = t[k]
  BY <1>1 DEF TakenOut
<1>3. e.mod = {Down(x, i) : x \in b.mod \ {i}}
  <2>1. DOMAIN b = {"del", "ins", "mod", "moves", "map"}
    BY DEF Builder
  <2>2. e.mod = ErasePosition(b.mod, i)
    BY <2>1 DEF ChangeErase
  <2> QED
    BY <2>2 DEF ErasePosition, Down
<1>4. \A x \in 0 .. Len(t) - 1 : x # i => Down(x, i) \in 0 .. Len(u) - 1
  BY SMTT(20), <1>0, <1>2 DEF Down
<1>5. Holds(e, u)
  BY <1>3, <1>4 DEF Holds
<1>6. \A x \in b.mod : x # i => Down(x, i) \in e.mod /\ u[Down(x, i) + 1] = t[x + 1]
  BY <1>2, <1>3 DEF Holds
<1>7. Unknown(t[i + 1], u)
  <2>1. i + 1 \in 1 .. Len(t)
    BY <1>0
  <2> QED
    BY <1>2, <2>1 DEF Unknown, Distinct
<1>8. MarksGo(b, t, e, u)
  BY <1>5, <1>6, <1>7 DEF MarksGo, Marked
<1>9. PICK g : g = [n \in Nat |-> Up(n, i)]
  OBVIOUS
<1>10. Drawn(g, t, -1, v, u)
  <2>1. ASSUME NEW n \in 0 .. Len(u) - 1
        PROVE  g[n] \in 0 .. Len(t) - 1 /\ Down(g[n], i) = n /\ u[n + 1] = t[g[n] + 1]
    <3>1. n \in Nat /\ n < Len(t) - 1
      BY <1>0, <1>2
    <3>2. PICK x : x = g[n]
      OBVIOUS
    <3>3. x = IF n < i THEN n ELSE n + 1
      BY <1>9, <3>1, <3>2 DEF Up
    <3>4. x \in 0 .. Len(t) - 1 /\ x # i
      BY <1>0, <3>1, <3>3
    <3>5. Down(x, i) = n
      BY <1>0, <3>1, <3>3 DEF Down
    <3> QED
      BY <1>2, <3>2, <3>4, <3>5
  <2>2. \A m, n \in 0 .. Len(u) - 1 : g[m] = g[n] => m = n
    BY <2>1
  <2>3. -1 \notin 0 .. Len(u) - 1
    BY <1>0, <1>2
  <2> QED
    BY <2>1, <2>2, <2>3 DEF Drawn
<1>11. OneNew(t, v, u)
  BY <1>1, <1>10, DrawnOneNew
<1> QED
  BY <1>8, <1>11

LEMMA MoveMarks ==
    ASSUME NEW t \in Seq(Nat), NEW b, Builder(b), Holds(b, t),
           NEW from \in 0 .. Len(t) - 1, NEW to \in 0 .. Len(t) - 1,
           NEW u \in Seq(Nat), SeqMoved(t, from, to, u), NEW e, e = ChangeMove(b, from, to)
    PROVE  MarksGo(b, t, e, u)
<1>0. Len(t) \in Nat /\ from \in Nat /\ to \in Nat
  BY LenProperties
<1>1. /\ Len(u) = Len(t) /\ u[to + 1] = t[from + 1]
      /\ \A x \in 0 .. Len(t) - 1 : x # from => u[Up(Down(x, from), to) + 1] = t[x + 1]
  BY DEF SeqMoved
<1>2. \A x \in 0 .. Len(t) - 1 : x # from => Up(Down(x, from), to) \in 0 .. Len(t) - 1
  BY <1>0 DEF Up, Down
<1>3. DOMAIN b = {"del", "ins", "mod", "moves", "map"}
  BY DEF Builder
<1>4. e.mod = IF from \in b.mod THEN InsertPosition(ErasePosition(b.mod, from), to)
              ELSE ShiftForInsertAt(ErasePosition(b.mod, from), to)
  BY <1>3 DEF ChangeMove
<1>5. PICK W : W = {Down(x, from) : x \in b.mod \ {from}}
  OBVIOUS
<1>6. ErasePosition(b.mod, from) = W
  BY <1>5 DEF ErasePosition, Down
<1>7. PICK V : V = {Up(y, to) : y \in W}
  OBVIOUS
<1>8. ShiftForInsertAt(W, to) = V
  BY <1>7 DEF ShiftForInsertAt, Up
<1>9. e.mod = IF from \in b.mod THEN V \cup {to} ELSE V
  BY <1>4, <1>6, <1>8 DEF InsertPosition
<1>10. \A x \in b.mod : x # from => Up(Down(x, from), to) \in V
  BY <1>5, <1>7
<1>11. \A y \in V : \E x \in b.mod : x # from /\ y = Up(Down(x, from), to)
  BY <1>5, <1>7
<1>12. Holds(e, u)
  BY ZenonT(30), <1>1, <1>2, <1>9, <1>11 DEF Holds
<1>13. ASSUME NEW x \in b.mod
       PROVE  \E y \in e.mod : u[y + 1] = t[x + 1]
  <2>1. x \in 0 .. Len(t) - 1
    BY DEF Holds
  <2>2. CASE x = from
    BY <1>1, <1>9, <2>2
  <2>3. CASE x # from
    BY <1>1, <1>9, <1>10, <2>1, <2>3
  <2> QED
    BY <2>2, <2>3
<1> QED
  BY <1>12, <1>13 DEF MarksGo, Marked

LEMMA MovedEntries ==
    ASSUME NEW t \in Seq(Nat), Distinct(t), NEW v, Unknown(v, t),
           NEW from \in 0 .. Len(t) - 1, NEW to \in 0 .. Len(t) - 1,
           NEW u \in Seq(Nat), SeqMoved(t, from, to, u)
    PROVE  OneNew(t, v, u)
<1>0. Len(t) \in Nat /\ from \in Nat /\ to \in Nat
  BY LenProperties
<1>1. /\ Len(u) = Len(t) /\ u[to + 1] = t[from + 1]
      /\ \A x \in 0 .. Len(t) - 1 : x # from => u[Up(Down(x, from), to) + 1] = t[x + 1]
  BY DEF SeqMoved
<1>2. PICK g : g = [y \in Nat |-> IF y = to THEN from ELSE Up(Down(y, to), from)]
  OBVIOUS
<1>3. Drawn(g, t, -1, v, u)
  <2>1. ASSUME NEW n \in 0 .. Len(u) - 1
        PROVE  /\ g[n] \in 0 .. Len(t) - 1 /\ u[n + 1] = t[g[n] + 1]
               /\ n = IF g[n] = from THEN to ELSE Up(Down(g[n], from), to)
    <3>1. g[n] = IF n = to THEN from ELSE Up(Down(n, to), from)
      BY <1>0, <1>1, <1>2
    <3>2. CASE n = to
      BY <1>1, <3>1, <3>2
    <3>3. CASE n # to
      <4>1. PICK d, x : d = Down(n, to) /\ x = Up(d, from)
        OBVIOUS
      <4>2. g[n] = x
        BY <3>1, <3>3, <4>1
      <4>3. n \in Nat /\ n < Len(t) /\ from < Len(t) /\ to < Len(t)
        BY SMTT(20), <1>0, <1>1
      <4>4. d \in Nat /\ d < Len(t) - 1 /\ Up(d, to) = n
        BY SMTT(20), <1>0, <3>3, <4>1, <4>3 DEF Up, Down
      <4>5. x \in 0 .. Len(t) - 1 /\ x # from /\ Down(x, from) = d
        <5>1. x = IF d < from THEN d ELSE d + 1
          BY <4>1 DEF Up
        <5>0. d \in Nat /\ d < Len(t) - 1
          BY <4>4
        <5>2. x \in Nat /\ x < Len(t) /\ x # from
          <6>1. CASE d < from
            BY <1>0, <5>0, <5>1, <6>1
          <6>2. CASE ~(d < from)
            BY <1>0, <5>0, <5>1, <6>2
          <6> QED
            BY <6>1, <6>2
        <5>3. Down(x, from) = d
          BY SMTT(20), <1>0, <4>4, <5>1 DEF Down
        <5> QED
          BY <1>0, <5>2, <5>3
      <4>6. Up(Down(x, from), to) = n
        BY <4>4, <4>5
      <4>7. u[n + 1] = t[x + 1]
        BY <1>1, <4>5, <4>6
      <4> QED
        BY <4>2, <4>5, <4>6, <4>7
    <3> QED
      BY <3>2, <3>3
  <2>2. \A m, n \in 0 .. Len(u) - 1 : g[m] = g[n] => m = n
    BY <2>1
  <2>3. -1 \notin 0 .. Len(u) - 1
    BY <1>0, <1>1
  <2> QED
    BY <2>1, <2>2, <2>3 DEF Drawn
<1> QED
  BY <1>3, DrawnOneNew

\* Two entries that change places.
PlacesSwapped(t, i, j, u) ==
    /\ Len(u) = Len(t)
    /\ \A n \in 0 .. Len(t) - 1 : u[n + 1] = t[(IF n = i THEN j ELSE IF n = j THEN i ELSE n) + 1]

LEMMA ExchangedEntries ==
    ASSUME NEW t \in Seq(Nat), Distinct(t), NEW v, Unknown(v, t),
           NEW i \in 0 .. Len(t) - 1, NEW j \in 0 .. Len(t) - 1, i # j,
           NEW u, u = Exchanged(t, i + 1, j + 1)
    PROVE  OneNew(t, v, u) /\ PlacesSwapped(t, i, j, u)
<1>0. Len(t) \in Nat /\ i \in Nat /\ j \in Nat
  BY LenProperties
<1>1. PICK x, y : x = i + 1 /\ y = j + 1
  OBVIOUS
<1>2. x \in 1 .. Len(t) /\ y \in 1 .. Len(t) /\ x # y
  BY <1>0, <1>1
<1>3. /\ u \in Seq(Nat) /\ Len(u) = Len(t) /\ u[x] = t[y] /\ u[y] = t[x]
      /\ \A n \in 1 .. Len(t) : n # x /\ n # y => u[n] = t[n]
  BY ZenonT(30), <1>1, <1>2, ExchangedRows
<1>4. PICK g : g = [n \in Nat |-> IF n = i THEN j ELSE IF n = j THEN i ELSE n]
  OBVIOUS
<1>5. ASSUME NEW n \in 0 .. Len(t) - 1
      PROVE  g[n] \in 0 .. Len(t) - 1 /\ u[n + 1] = t[g[n] + 1] /\ n \in Nat
  <2>1. n \in Nat /\ n + 1 \in 1 .. Len(t) /\ (n + 1 = x <=> n = i) /\ (n + 1 = y <=> n = j)
    BY <1>0, <1>1
  <2>2. CASE n = i
    BY <1>1, <1>3, <1>4, <2>1, <2>2
  <2>3. CASE n = j
    BY <1>1, <1>3, <1>4, <2>1, <2>3
  <2>4. CASE n # i /\ n # j
    BY <1>3, <1>4, <2>1, <2>4
  <2> QED
    BY <2>2, <2>3, <2>4
<1>6. \A m, n \in Nat : g[m] = g[n] => m = n
  BY <1>0, <1>4
<1>7. Drawn(g, t, -1, v, u)
  <2>1. -1 \notin 0 .. Len(u) - 1
    BY <1>0, <1>3
  <2> QED
    BY <1>3, <1>5, <1>6, <2>1 DEF Drawn
<1>8. OneNew(t, v, u)
  BY <1>3, <1>7, DrawnOneNew
<1>9. \A n \in 0 .. Len(t) - 1 : u[n + 1] = t[(IF n = i THEN j ELSE IF n = j THEN i ELSE n) + 1]
  BY <1>4, <1>5
<1> QED
  BY <1>3, <1>8, <1>9 DEF PlacesSwapped

SwapsTo(p, i, j, u) ==
    /\ i + 1 = j => p = u
    /\ \A q \in Seq(Nat) : i + 1 # j /\ SeqMoved(p, j - 1, i, q) => q = u

\* They do when the first goes to the place of the second, and what was the second to
\* that of the first (transact_log_handler.cpp's list_swap).
LEMMA SwapIsMoves ==
    ASSUME NEW t \in Seq(Nat), NEW i \in 0 .. Len(t) - 1, NEW j \in 0 .. Len(t) - 1, i < j,
           NEW u \in Seq(Nat), PlacesSwapped(t, i, j, u),
           NEW p \in Seq(Nat), SeqMoved(t, i, j, p)
    PROVE  SwapsTo(p, i, j, u)
<1>0. /\ Len(t) \in Nat /\ i \in Nat /\ j \in Nat /\ j < Len(t) /\ i < Len(t)
  BY LenProperties
<1>1. /\ Len(p) = Len(t) /\ p[j + 1] = t[i + 1]
      /\ \A x \in 0 .. Len(t) - 1 : x # i => p[Up(Down(x, i), j) + 1] = t[x + 1]
  BY DEF SeqMoved
<1>2. \A x \in 0 .. Len(t) - 1 : x < i \/ x > j => p[x + 1] = t[x + 1]
  <2> SUFFICES ASSUME NEW x \in 0 .. Len(t) - 1, x < i \/ x > j
               PROVE  p[x + 1] = t[x + 1]
    OBVIOUS
  <2>1. x # i /\ Up(Down(x, i), j) = x
    <3>1. CASE x < i
      BY <1>0, <3>1 DEF Up, Down
    <3>2. CASE x > j
      <4>1. Down(x, i) = x - 1 /\ x # i /\ x \in Nat
        BY <1>0, <3>2 DEF Down
      <4>2. Up(x - 1, j) = x
        BY <1>0, <3>2, <4>1 DEF Up
      <4> QED
        BY <4>1, <4>2
    <3> QED
      BY <3>1, <3>2
  <2> QED
    BY <1>1, <2>1
<1>3. \A x \in 0 .. Len(t) - 1 : i < x /\ x <= j => p[x] = t[x + 1]
  <2> SUFFICES ASSUME NEW x \in 0 .. Len(t) - 1, i < x, x <= j
               PROVE  p[x] = t[x + 1]
    OBVIOUS
  <2>1. x # i /\ Up(Down(x, i), j) = x - 1 /\ x - 1 + 1 = x
    BY <1>0 DEF Up, Down
  <2> QED
    BY <1>1, <2>1
<1>6. /\ u[i + 1] = t[j + 1] /\ u[j + 1] = t[i + 1]
      /\ \A x \in 0 .. Len(t) - 1 : x < i \/ x > j \/ (i < x /\ x < j) => u[x + 1] = t[x + 1]
  <2>1. \A x \in 0 .. Len(t) - 1 : x < i \/ x > j \/ (i < x /\ x < j) => x # i /\ x # j
    <3> SUFFICES ASSUME NEW x \in 0 .. Len(t) - 1, x < i \/ x > j \/ (i < x /\ x < j)
                 PROVE  x # i /\ x # j
      OBVIOUS
    <3>1. x \in Nat
      BY <1>0
    <3>2. i < j
      OBVIOUS
    <3>3. CASE x < i
      <4>1. x < j
        BY <1>0, <3>1, <3>2, <3>3
      <4>2. \A k \in Nat : ~(k < k)
        OBVIOUS
      <4> QED
        BY <1>0, <3>1, <3>3, <4>1, <4>2
    <3>4. CASE x > j
      BY <1>0, <3>1, <3>2, <3>4
    <3> QED
      BY <1>0, <3>1, <3>3, <3>4
  <2>2. i # j
    BY <1>0
  <2> QED
    BY <2>1, <2>2 DEF PlacesSwapped
<1>8. Len(u) = Len(t)
  BY DEF PlacesSwapped
<1>7. \A x \in 0 .. Len(t) - 1 : x = i \/ x = j \/ x < i \/ x > j \/ (i < x /\ x < j)
  BY <1>0
<1>9. j \in 0 .. Len(t) - 1 /\ i < j /\ j <= j /\ j - 1 + 1 = j
  BY <1>0
<1>4. ASSUME i + 1 = j
      PROVE  p = u
  <2>1. ASSUME NEW n \in 1 .. Len(t)
        PROVE  p[n] = u[n]
    <3>1. PICK x : x = n - 1
      OBVIOUS
    <3>2. x \in 0 .. Len(t) - 1 /\ x + 1 = n
      BY <1>0, <3>1
    <3>3. CASE x = i
      <4>1. p[j] = t[j + 1]
        BY <1>3, <1>9
      <4> QED
        BY <1>4, <1>6, <3>2, <3>3, <4>1
    <3>4. CASE x = j
      BY <1>1, <1>6, <3>2, <3>4
    <3>5. CASE x < i \/ x > j
      BY <1>2, <1>6, <3>2, <3>5
    <3>6. ~(i < x /\ x < j)
      BY <1>0, <1>4, <3>2
    <3> QED
      BY <1>7, <3>2, <3>3, <3>4, <3>5, <3>6
  <2> QED
    BY <1>1, <1>8, <2>1, SeqEqual
<1>5. ASSUME NEW q \in Seq(Nat), i + 1 # j, SeqMoved(p, j - 1, i, q)
      PROVE  q = u
  <2>1. /\ Len(q) = Len(p) /\ q[i + 1] = p[j - 1 + 1]
        /\ \A x \in 0 .. Len(p) - 1 : x # j - 1 => q[Up(Down(x, j - 1), i) + 1] = p[x + 1]
    BY <1>5 DEF SeqMoved
  <2>2. \A x \in 0 .. Len(t) - 1 : x < i \/ x >= j => q[x + 1] = p[x + 1]
    <3> SUFFICES ASSUME NEW x \in 0 .. Len(t) - 1, x < i \/ x >= j
                 PROVE  q[x + 1] = p[x + 1]
      OBVIOUS
    <3>1. x # j - 1 /\ Up(Down(x, j - 1), i) = x
      BY <1>0 DEF Up, Down
    <3> QED
      BY <1>1, <2>1, <3>1
  <2>3. \A x \in 0 .. Len(t) - 1 : i < x /\ x < j => q[x + 1] = p[x]
    <3> SUFFICES ASSUME NEW x \in 0 .. Len(t) - 1, i < x, x < j
                 PROVE  q[x + 1] = p[x]
      OBVIOUS
    <3>1. PICK y : y = x - 1
      OBVIOUS
    <3>2. y \in 0 .. Len(t) - 1 /\ y # j - 1 /\ Up(Down(y, j - 1), i) = x /\ y + 1 = x
      BY <1>0, <3>1 DEF Up, Down
    <3> QED
      BY <1>1, <2>1, <3>2
  <2>4. ASSUME NEW n \in 1 .. Len(t)
        PROVE  q[n] = u[n]
    <3>1. PICK x : x = n - 1
      OBVIOUS
    <3>2. x \in 0 .. Len(t) - 1 /\ x + 1 = n
      BY <1>0, <3>1
    <3>3. CASE x = i
      <4>1. p[j] = t[j + 1] /\ j - 1 + 1 = j
        BY <1>3, <1>9
      <4> QED
        BY <1>6, <2>1, <3>2, <3>3, <4>1
    <3>4. CASE x = j
      <4>1. q[x + 1] = p[x + 1]
        <5>1. x >= j
          BY <1>0, <3>4
        <5> QED
          BY <2>2, <3>2, <5>1
      <4> QED
        BY <1>1, <1>6, <3>2, <3>4, <4>1
    <3>5. CASE x < i \/ x > j
      <4>1. q[x + 1] = p[x + 1]
        <5>1. x > j => x >= j
          BY <1>0, <3>2
        <5> QED
          BY <2>2, <3>2, <3>5, <5>1
      <4> QED
        BY <1>2, <1>6, <3>2, <3>5, <4>1
    <3>6. CASE i < x /\ x < j
      <4>1. p[x] = t[x + 1]
        BY <1>0, <1>3, <3>2, <3>6
      <4> QED
        BY <1>6, <2>3, <3>2, <3>6, <4>1
    <3> QED
      BY <1>7, <3>2, <3>3, <3>4, <3>5, <3>6
  <2> QED
    BY <1>1, <1>8, <2>1, <2>4, SeqEqual
<1> QED
  BY <1>4, <1>5 DEF SwapsTo

-----------------------------------------------------------------------------
(* What the callback will be told: s is the collection it knows, t that of the last
   run, r that of now; a leads from s to t, b is the log since; m are the entries
   modified since the callback last knew them, n is the largest number given. *)
KnownTo(q, n) == q \in Seq(Nat) /\ Distinct(q) /\ \A k \in 1 .. Len(q) : q[k] <= n

ToldOf(v, s, t, r, a, b) ==
    \/ Unknown(v, r) \/ Marked(v, b, r)
    \/ Unknown(v, s) \/ Marked(v, a, t)

Told(s, t, r, a, b, m, n) ==
    /\ n \in Nat /\ KnownTo(s, n) /\ KnownTo(t, n) /\ KnownTo(r, n)
    /\ Leads(a, s, t) /\ a.map = << >> /\ Holds(a, t) /\ Holds(b, r)
    /\ NoneBack(s, t, r)
    /\ m \subseteq 0 .. n /\ \A v \in m : ToldOf(v, s, t, r, a, b)

\* A number not given yet is not there.
LEMMA NotGiven ==
    ASSUME NEW n \in Nat, NEW q, KnownTo(q, n)
    PROVE  Unknown(n + 1, q)
<1> SUFFICES ASSUME NEW k \in 1 .. Len(q), q[k] = n + 1
             PROVE  FALSE
  BY DEF Unknown
<1>1. q[k] <= n
  BY DEF KnownTo
<1> QED
  BY <1>1

\* Any change of the collection that keeps its marks.
LEMMA ToldOn ==
    ASSUME NEW s, NEW t, NEW r, NEW a, NEW b, NEW m, NEW n, Told(s, t, r, a, b, m, n),
           NEW u, OneNew(r, n + 1, u), NEW e, MarksGo(b, r, e, u)
    PROVE  Told(s, t, u, a, e, m, n + 1)
<1>0. n \in Nat /\ n + 1 \in Nat
  BY DEF Told
<1>1. \A q : KnownTo(q, n) => KnownTo(q, n + 1)
  <2> SUFFICES ASSUME NEW q, KnownTo(q, n)
               PROVE  KnownTo(q, n + 1)
    OBVIOUS
  <2>1. \A k \in 1 .. Len(q) : q[k] \in Nat
    BY DEF KnownTo
  <2> QED
    BY <1>0, <2>1 DEF KnownTo
<1>2. /\ u \in Seq(Nat) /\ Distinct(u)
      /\ \A k \in 1 .. Len(u) : u[k] = n + 1 \/ \E j \in 1 .. Len(r) : u[k] = r[j]
  BY DEF OneNew
<1>3. /\ \A k \in 1 .. Len(r) : r[k] <= n /\ r[k] \in Nat
      /\ \A k \in 1 .. Len(s) : s[k] <= n /\ s[k] \in Nat
  BY DEF Told, KnownTo
<1>4. KnownTo(u, n + 1)
  <2>1. \A k \in 1 .. Len(u) : u[k] <= n + 1
    BY <1>0, <1>2, <1>3
  <2> QED
    BY <1>2, <2>1 DEF KnownTo
<1>5. NoneBack(s, t, u)
  <2> SUFFICES ASSUME NEW x \in 1 .. Len(s), NEW k \in 1 .. Len(u), s[x] = u[k]
               PROVE  \E j \in 1 .. Len(t) : t[j] = s[x]
    BY DEF NoneBack
  <2>1. u[k] # n + 1
    BY <1>0, <1>3
  <2>2. PICK j \in 1 .. Len(r) : u[k] = r[j]
    BY <1>2, <2>1
  <2> QED
    BY <2>2 DEF Told, NoneBack
<1>6. m \subseteq 0 .. n + 1
  BY <1>0 DEF Told
<1>7. ASSUME NEW v \in m
      PROVE  ToldOf(v, s, t, u, a, e)
  <2>1. ToldOf(v, s, t, r, a, b) /\ v \in 0 .. n
    BY DEF Told
  <2>2. ASSUME Unknown(v, r)
        PROVE  Unknown(v, u)
    <3>1. v # n + 1
      BY <1>0, <2>1
    <3> QED
      BY <1>2, <2>2, <3>1 DEF Unknown
  <2>3. Marked(v, b, r) => Unknown(v, u) \/ Marked(v, e, u)
    BY DEF MarksGo
  <2> QED
    BY <2>1, <2>2, <2>3 DEF ToldOf
<1>8. Holds(e, u)
  BY DEF MarksGo
<1> QED
  BY <1>0, <1>1, <1>4, <1>5, <1>6, <1>7, <1>8 DEF Told

\* An entry modified.
LEMMA ToldModified ==
    ASSUME NEW s, NEW t, NEW r, NEW a, NEW b, NEW m, NEW n, Told(s, t, r, a, b, m, n),
           NEW i \in 0 .. Len(r) - 1, NEW e, e.mod = b.mod \cup {i}
    PROVE  Told(s, t, r, a, e, m \cup {r[i + 1]}, n + 1)
<1>0. n \in Nat /\ n + 1 \in Nat /\ r \in Seq(Nat) /\ Len(r) \in Nat
  BY LenProperties DEF Told, KnownTo
<1>1. \A q : KnownTo(q, n) => KnownTo(q, n + 1)
  <2> SUFFICES ASSUME NEW q, KnownTo(q, n)
               PROVE  KnownTo(q, n + 1)
    OBVIOUS
  <2>1. \A k \in 1 .. Len(q) : q[k] \in Nat
    BY DEF KnownTo
  <2> QED
    BY <1>0, <2>1 DEF KnownTo
<1>2. i + 1 \in 1 .. Len(r)
  BY <1>0
<1>3. r[i + 1] \in 0 .. n
  <2>1. r[i + 1] \in Nat /\ r[i + 1] <= n
    BY <1>0, <1>2 DEF Told, KnownTo
  <2> QED
    BY <1>0, <2>1
<1>4. m \cup {r[i + 1]} \subseteq 0 .. n + 1
  <2>1. \A v \in m : v \in 0 .. n
    BY DEF Told
  <2>2. 0 .. n \subseteq 0 .. n + 1
    BY <1>0
  <2> QED
    BY <1>3, <2>1, <2>2
<1>5. Holds(e, r)
  BY DEF Told, Holds
<1>6. \A v : Marked(v, b, r) \/ v = r[i + 1] => Marked(v, e, r)
  BY DEF Marked
<1>7. \A v \in m \cup {r[i + 1]} : ToldOf(v, s, t, r, a, e)
  BY <1>6 DEF Told, ToldOf
<1> QED
  BY <1>0, <1>1, <1>4, <1>5, <1>7 DEF Told

\* Everything is gone.
LEMMA ToldCleared ==
    ASSUME NEW s, NEW t, NEW r, NEW a, NEW b, NEW m, NEW n, Told(s, t, r, a, b, m, n),
           NEW e, e.mod = {}
    PROVE  Told(s, t, << >>, a, e, m, n + 1)
<1>1. PICK u : u = << >>
  OBVIOUS
<1>2. u \in Seq(Nat) /\ Len(u) = 0 /\ 1 .. 0 = {}
  BY <1>1
<1>3. OneNew(r, n + 1, u)
  BY <1>2 DEF OneNew, Distinct
<1>4. MarksGo(b, r, e, u)
  BY <1>2 DEF MarksGo, Holds, Unknown
<1>5. Told(s, t, u, a, e, m, n + 1)
  BY <1>3, <1>4, ToldOn
<1> QED
  BY <1>1, <1>5

\* In the beginning nothing has changed.
LEMMA NothingToTell ==
    ASSUME NEW r \in Seq(Nat)
    PROVE  Leads(NoChange, r, r) /\ NoChange.map = << >> /\ NoChange.mod = {}
<1>1. PICK b : b = NoChange
  OBVIOUS
<1>2. /\ b.del = {} /\ b.ins = {} /\ b.mod = {} /\ b.moves = << >> /\ b.map = << >>
      /\ b = [del |-> b.del, ins |-> b.ins, mod |-> b.mod, moves |-> b.moves, map |-> b.map]
  BY <1>1 DEF NoChange
<1>3. PositionSet({})
  BY FS_EmptySet DEF PositionSet
<1>4. Builder(b) /\ Sets(b)
  BY <1>2, <1>3 DEF Builder, Sets
<1>5. \A o \in Nat : Follows(b, o) = o
  <2> TAKE o \in Nat
  <2>1. Unshift(b.ins, o) = Unshift(b.del, o) /\ o \notin b.ins
    BY <1>2
  <2> QED
    BY <1>4, <2>1, FollowsIs
<1>6. Aligned(b, r, r)
  BY <1>5 DEF Aligned
<1>7. TrueMoves(b, r, r) /\ InsertionsTold(b, r, r)
  <2>1. DOMAIN b.moves = {} /\ b.moves \in Seq(MovePairs)
    BY <1>2
  <2> QED
    BY <1>2, <2>1 DEF TrueMoves, InsertionsTold
<1> QED
  BY <1>1, <1>2, <1>4, <1>6, <1>7 DEF Leads

LEMMA ToldFirst ==
    ASSUME NEW n \in Nat, NEW r, KnownTo(r, n)
    PROVE  Told(r, r, r, NoChange, NoChange, {}, n)
<1>1. r \in Seq(Nat)
  BY DEF KnownTo
<1>2. NoneBack(r, r, r)
  BY DEF NoneBack
<1> QED
  BY <1>1, <1>2, NothingToTell DEF Told, Holds

\* A run of the notifier.
LEMMA ToldRun ==
    ASSUME NEW s, NEW t, NEW r, NEW a, NEW b, NEW m, NEW n, Told(s, t, r, a, b, m, n),
           NEW c, Leads(c, t, r), c.mod = b.mod, c.map = << >>, NEW e, e = Merge(a, c)
    PROVE  Told(s, r, r, e, NoChange, m, n)
<1>1. /\ s \in Seq(Nat) /\ t \in Seq(Nat) /\ r \in Seq(Nat) /\ Distinct(s) /\ Distinct(t)
      /\ NoneBack(s, t, r) /\ Leads(a, s, t) /\ a.map = << >>
  BY DEF Told, KnownTo
<1>2. a.mod \subseteq 0 .. Len(t) - 1 /\ c.mod \subseteq 0 .. Len(r) - 1
  BY DEF Told, Holds
<1>3. Leads(e, s, r) /\ e.map = << >> /\ MarksMerged(a, c, e.mod, s, t, r)
  <2>1. MergedInto(a, c, e, s, t, r)
    BY <1>1, <1>2, MergeLeads
  <2> QED
    BY <2>1 DEF MergedInto
<1>4. /\ e.mod \subseteq 0 .. Len(r) - 1 /\ c.mod \subseteq e.mod
      /\ \A x \in a.mod : \/ Unknown(t[x + 1], r) \/ Unknown(t[x + 1], s)
                          \/ \E y \in e.mod : r[y + 1] = t[x + 1]
  BY <1>3 DEF MarksMerged
<1>5. NoneBack(s, r, r)
  BY DEF NoneBack
<1>6. ASSUME NEW v \in m
      PROVE  ToldOf(v, s, r, r, e, NoChange)
  <2>1. ToldOf(v, s, t, r, a, b)
    BY DEF Told
  <2>2. Marked(v, b, r) => Marked(v, e, r)
    BY <1>4 DEF Marked
  <2>3. Marked(v, a, t) => Unknown(v, r) \/ Unknown(v, s) \/ Marked(v, e, r)
    BY <1>4 DEF Marked
  <2> QED
    BY <2>1, <2>2, <2>3 DEF ToldOf
<1>7. Holds(e, r) /\ Holds(NoChange, r)
  BY <1>1, <1>4, NothingToTell DEF Holds
<1> QED
  BY <1>3, <1>5, <1>6, <1>7 DEF Told

-----------------------------------------------------------------------------
(* What that means. *)
LEMMA ToldLinesUp ==
    ASSUME NEW s, NEW t, NEW r, NEW a, NEW b, NEW m, NEW n, Told(s, t, r, a, b, m, n)
    PROVE  Without(s, a.del) = Without(t, a.ins)
<1>1. s \in Seq(Nat) /\ t \in Seq(Nat) /\ Sets(a) /\ Aligned(a, s, t)
  BY DEF Told, KnownTo, Leads, Builder
<1> QED
  BY <1>1, AlignedLinesUp

LEMMA ToldModifications ==
    ASSUME NEW s, NEW t, NEW r, NEW a, NEW b, NEW m, NEW n, Told(s, t, r, a, b, m, n)
    PROVE  /\ {i \in ModifiedInOld(a) : i \notin Positions(s)} = {}
           /\ {At(s, i) : i \in ModifiedInOld(a)} = {At(t, i) : i \in ModifiedInNew(a)}
<1>1. /\ s \in Seq(Nat) /\ t \in Seq(Nat) /\ Sets(a) /\ Aligned(a, s, t)
      /\ a.mod \subseteq 0 .. Len(t) - 1 /\ Len(t) \in Nat /\ Len(s) \in Nat
  BY LenProperties DEF Told, KnownTo, Leads, Builder, Holds
<1>2. a.mod \subseteq Nat
  BY <1>1
<1>3. /\ ModifiedInOld(a) \cap a.del = {}
      /\ {Follows(a, o) : o \in ModifiedInOld(a)} = ModifiedInNew(a)
  BY <1>1, <1>2, ModificationsMatch
<1>4. ModifiedInOld(a) \subseteq Nat
  <2> SUFFICES ASSUME NEW o \in ModifiedInOld(a)
               PROVE  o \in Nat
    OBVIOUS
  <2>1. PICK x \in a.mod \ a.ins : o = Shift(a.del, Unshift(a.ins, x))
    BY DEF ModifiedInOld, ShiftForInsertPositions, ErasePositions
  <2>2. Unshift(a.ins, x) \in Nat
    BY <1>1, <1>2, CountFacts DEF Sets
  <2> QED
    BY <1>1, <2>1, <2>2, ShiftFacts DEF Sets
<1>5. ModifiedInNew(a) \subseteq 0 .. Len(t) - 1
  BY <1>1 DEF ModifiedInNew
<1>6. ASSUME NEW o \in ModifiedInOld(a)
      PROVE  o \in Positions(s) /\ Follows(a, o) \in ModifiedInNew(a)
             /\ At(s, o) = At(t, Follows(a, o))
  <2>1. o \in Nat /\ o \notin a.del /\ Follows(a, o) \in ModifiedInNew(a)
    BY <1>3, <1>4
  <2>2. Follows(a, o) < Len(t)
    BY <1>1, <1>5, <2>1
  <2>3. o < Len(s) /\ s[o + 1] = t[Follows(a, o) + 1]
    BY <1>1, <2>1, <2>2 DEF Aligned
  <2> QED
    BY <1>1, <2>1, <2>3 DEF Positions, At
<1>7. \A y \in ModifiedInNew(a) : \E o \in ModifiedInOld(a) : y = Follows(a, o)
  BY <1>3
<1> QED
  BY <1>6, <1>7

\* Nothing is in the log: an entry modified is marked, or new.
LEMMA ToldReported ==
    ASSUME NEW s, NEW t, NEW r, NEW a, NEW b, NEW m, NEW n, Told(s, t, r, a, b, m, n),
           b.mod = {}, t = r
    PROVE  \A i \in Positions(t) : At(t, i) \in m => i \in a.mod \cup a.ins
<1> SUFFICES ASSUME NEW i \in Positions(t), At(t, i) \in m, i \notin a.ins
             PROVE  i \in a.mod
  OBVIOUS
<1>1. /\ s \in Seq(Nat) /\ t \in Seq(Nat) /\ Sets(a) /\ Aligned(a, s, t) /\ Distinct(t)
      /\ a.mod \subseteq 0 .. Len(t) - 1 /\ Len(t) \in Nat /\ Len(s) \in Nat
  BY LenProperties DEF Told, KnownTo, Leads, Builder, Holds
<1>2. i \in 0 .. Len(t) - 1 /\ i \in Nat /\ i + 1 \in 1 .. Len(t) /\ i < Len(t)
  BY <1>1 DEF Positions
<1>3. PICK v : v = t[i + 1] /\ v \in m
  BY DEF At
<1>4. ToldOf(v, s, t, r, a, b)
  BY <1>3 DEF Told
<1>5. ~Unknown(v, r) /\ ~Marked(v, b, r)
  BY <1>2, <1>3 DEF Unknown, Marked
<1>6. ~Unknown(v, s)
  <2>1. PICK o : o = CameFrom(a, i)
    OBVIOUS
  <2>2. o \in Nat /\ o \notin a.del /\ Follows(a, o) = i
    BY <1>1, <1>2, <2>1, CameFromFacts
  <2>3. o < Len(s) /\ s[o + 1] = t[i + 1]
    BY <1>1, <1>2, <2>2 DEF Aligned
  <2>4. o + 1 \in 1 .. Len(s)
    BY <1>1, <2>2, <2>3
  <2> QED
    BY <1>3, <2>3, <2>4 DEF Unknown
<1>7. PICK y \in a.mod : t[y + 1] = v
  BY <1>4, <1>5, <1>6 DEF ToldOf, Marked
<1>8. y \in 0 .. Len(t) - 1
  BY <1>1
<1>9. y + 1 \in 1 .. Len(t)
  BY <1>1, <1>8
<1>10. y + 1 = i + 1
  BY <1>1, <1>2, <1>3, <1>7, <1>9 DEF Distinct
<1>11. y = i
  BY <1>2, <1>8, <1>10
<1> QED
  BY <1>11

-----------------------------------------------------------------------------
(* Lists. *)
ListTold(s, t, r, a, b, m, n) ==
    Told(s, t, r, a, b, m, n) /\ Leads(b, t, r) /\ b.map = << >>

LEMMA ListToldFacts ==
    ASSUME NEW s, NEW t, NEW r, NEW a, NEW b, NEW m, NEW n, ListTold(s, t, r, a, b, m, n)
    PROVE  /\ Told(s, t, r, a, b, m, n) /\ Leads(b, t, r) /\ b.map = << >>
           /\ n \in Nat /\ n + 1 \in Nat /\ t \in Seq(Nat) /\ r \in Seq(Nat) /\ Distinct(r)
           /\ Builder(b) /\ Holds(b, r) /\ DOMAIN b = {"del", "ins", "mod", "moves", "map"}
           /\ Unknown(n + 1, r) /\ Unknown(n + 1, t) /\ Len(r) \in Nat
<1>1. /\ Told(s, t, r, a, b, m, n) /\ n \in Nat /\ KnownTo(t, n) /\ KnownTo(r, n)
  BY DEF ListTold, Told
<1>2. Unknown(n + 1, r) /\ Unknown(n + 1, t)
  BY <1>1, NotGiven
<1>3. DOMAIN b = {"del", "ins", "mod", "moves", "map"} /\ Builder(b)
  BY DEF ListTold, Leads, Builder
<1>4. t \in Seq(Nat) /\ r \in Seq(Nat) /\ Distinct(r) /\ Len(r) \in Nat
  BY <1>1, LenProperties DEF KnownTo
<1> QED
  BY <1>1, <1>2, <1>3, <1>4 DEF ListTold, Told

LEMMA ListInsert ==
    ASSUME NEW s, NEW t, NEW r, NEW a, NEW b, NEW m, NEW n, ListTold(s, t, r, a, b, m, n),
           NEW i \in 0 .. Len(r), NEW u, u = InsertAt(r, i + 1, n + 1), NEW e, e = ChangeInsert(b, i)
    PROVE  ListTold(s, t, u, a, e, m, n + 1)
<1>1. /\ Told(s, t, r, a, b, m, n) /\ Leads(b, t, r) /\ b.map = << >>
      /\ n \in Nat /\ n + 1 \in Nat /\ t \in Seq(Nat) /\ r \in Seq(Nat) /\ Distinct(r)
      /\ Builder(b) /\ Holds(b, r) /\ DOMAIN b = {"del", "ins", "mod", "moves", "map"}
      /\ Unknown(n + 1, r) /\ Unknown(n + 1, t)
  BY ListToldFacts
<1>2. PICK v : v = n + 1 /\ v \in Nat
  BY <1>1
<1>3. MarksGo(b, r, e, u) /\ OneNew(r, v, u)
  BY <1>1, <1>2, InsertMarks
<1>4. Leads(e, t, u)
  BY <1>1, <1>2, InsertLeads
<1>5. e.map = << >>
  <2>1. PICK M : M = b.map
    OBVIOUS
  <2>2. DOMAIN M = {}
    BY <1>1, <2>1
  <2>3. e.map = [k \in {IF x >= i THEN x + 1 ELSE x : x \in DOMAIN M} |-> M[IF k > i THEN k - 1 ELSE k]]
    BY <1>1, <2>1 DEF ChangeInsert
  <2>4. {IF x >= i THEN x + 1 ELSE x : x \in DOMAIN M} = {}
    BY <2>2
  <2>5. DOMAIN e.map = {} /\ e.map = [k \in DOMAIN e.map |-> e.map[k]]
    BY <2>3, <2>4
  <2> QED
    BY <2>5
<1>6. Told(s, t, u, a, e, m, n + 1)
  BY <1>1, <1>2, <1>3, ToldOn
<1> QED
  BY <1>4, <1>5, <1>6 DEF ListTold

LEMMA ListErase ==
    ASSUME NEW s, NEW t, NEW r, NEW a, NEW b, NEW m, NEW n, ListTold(s, t, r, a, b, m, n),
           NEW i \in 0 .. Len(r) - 1, NEW u, u = RemoveAt(r, i + 1), NEW e, e = ChangeErase(b, i)
    PROVE  ListTold(s, t, u, a, e, m, n + 1)
<1>1. /\ Told(s, t, r, a, b, m, n) /\ Leads(b, t, r) /\ b.map = << >>
      /\ n \in Nat /\ n + 1 \in Nat /\ t \in Seq(Nat) /\ r \in Seq(Nat) /\ Distinct(r)
      /\ Builder(b) /\ Holds(b, r) /\ DOMAIN b = {"del", "ins", "mod", "moves", "map"}
      /\ Unknown(n + 1, r) /\ Unknown(n + 1, t)
  BY ListToldFacts
<1>2. PICK v : v = n + 1
  OBVIOUS
<1>3. MarksGo(b, r, e, u) /\ OneNew(r, v, u)
  BY <1>1, <1>2, EraseMarks
<1>4. Leads(e, t, u)
  BY <1>1, EraseLeads
<1>5. e.map = << >>
  BY <1>1 DEF ChangeErase
<1>6. Told(s, t, u, a, e, m, n + 1)
  BY <1>1, <1>2, <1>3, ToldOn
<1> QED
  BY <1>4, <1>5, <1>6 DEF ListTold

\* One move, without counting it as a change.
Taken(b, t, r, from, to, u, e) ==
    /\ u \in Seq(Nat) /\ Leads(e, t, u) /\ SeqMoved(r, from, to, u) /\ MarksGo(b, r, e, u)
    /\ e.map = b.map /\ Builder(e)

LEMMA ListMoveTaken ==
    ASSUME NEW t \in Seq(Nat), NEW r \in Seq(Nat), NEW b, Leads(b, t, r), Holds(b, r),
           NEW from \in 0 .. Len(r) - 1, NEW to \in 0 .. Len(r) - 1,
           NEW u, u = InsertAt(RemoveAt(r, from + 1), to + 1, r[from + 1]),
           NEW e, e = ChangeMove(b, from, to)
    PROVE  Taken(b, t, r, from, to, u, e)
<1>1. u \in Seq(Nat) /\ Leads(e, t, u) /\ SeqMoved(r, from, to, u)
  BY MoveLeads
<1>2. Builder(b) /\ DOMAIN b = {"del", "ins", "mod", "moves", "map"} /\ Builder(e)
  BY <1>1 DEF Leads, Builder
<1>3. MarksGo(b, r, e, u)
  BY <1>1, <1>2, MoveMarks
<1>4. e.map = b.map
  BY <1>2 DEF ChangeMove
<1> QED
  BY <1>1, <1>2, <1>3, <1>4 DEF Taken

LEMMA ListMove ==
    ASSUME NEW s, NEW t, NEW r, NEW a, NEW b, NEW m, NEW n, ListTold(s, t, r, a, b, m, n),
           NEW from \in 0 .. Len(r) - 1, NEW to \in 0 .. Len(r) - 1,
           NEW u, u = InsertAt(RemoveAt(r, from + 1), to + 1, r[from + 1]),
           NEW e, e = ChangeMove(b, from, to)
    PROVE  ListTold(s, t, u, a, e, m, n + 1)
<1>1. /\ Told(s, t, r, a, b, m, n) /\ Leads(b, t, r) /\ b.map = << >>
      /\ n \in Nat /\ t \in Seq(Nat) /\ r \in Seq(Nat) /\ Distinct(r)
      /\ Builder(b) /\ Holds(b, r) /\ Unknown(n + 1, r)
  BY ListToldFacts
<1>2. PICK v : v = n + 1
  OBVIOUS
<1>3. Taken(b, t, r, from, to, u, e)
  BY <1>1, ListMoveTaken
<1>4. OneNew(r, v, u)
  BY <1>1, <1>2, <1>3, MovedEntries DEF Taken
<1>5. Told(s, t, u, a, e, m, n + 1)
  BY <1>1, <1>2, <1>3, <1>4, ToldOn DEF Taken
<1> QED
  BY <1>1, <1>3, <1>5 DEF ListTold, Taken

LEMMA ListSwap ==
    ASSUME NEW s, NEW t, NEW r, NEW a, NEW b, NEW m, NEW n, ListTold(s, t, r, a, b, m, n),
           NEW i \in 0 .. Len(r) - 1, NEW j \in 0 .. Len(r) - 1, i < j,
           NEW u, u = Exchanged(r, i + 1, j + 1), NEW there, there = ChangeMove(b, i, j),
           NEW e, e = IF i + 1 = j THEN there ELSE ChangeMove(there, j - 1, i)
    PROVE  ListTold(s, t, u, a, e, m, n + 1)
<1>1. /\ Told(s, t, r, a, b, m, n) /\ Leads(b, t, r) /\ b.map = << >>
      /\ n \in Nat /\ t \in Seq(Nat) /\ r \in Seq(Nat) /\ Distinct(r)
      /\ Builder(b) /\ Holds(b, r) /\ Unknown(n + 1, r) /\ Len(r) \in Nat
  BY ListToldFacts
<1>2. PICK v : v = n + 1
  OBVIOUS
<1>3. PICK p : p = InsertAt(RemoveAt(r, i + 1), j + 1, r[i + 1])
  OBVIOUS
<1>4. Taken(b, t, r, i, j, p, there)
  BY <1>1, <1>3, ListMoveTaken
<1>5. i # j
  BY <1>1
<1>6. OneNew(r, v, u) /\ PlacesSwapped(r, i, j, u)
  BY <1>1, <1>2, <1>5, ExchangedEntries
<1>7. u \in Seq(Nat) /\ p \in Seq(Nat) /\ Len(p) = Len(r) /\ SeqMoved(r, i, j, p)
  BY <1>4, <1>6 DEF OneNew, Taken, SeqMoved
<1>8. /\ i + 1 = j => p = u
      /\ \A q \in Seq(Nat) : i + 1 # j /\ SeqMoved(p, j - 1, i, q) => q = u
  <2>1. SwapsTo(p, i, j, u)
    BY <1>1, <1>6, <1>7, SwapIsMoves
  <2> QED
    BY <2>1 DEF SwapsTo
<1>9. MarksGo(b, r, e, u) /\ Leads(e, t, u) /\ e.map = << >>
  <2>1. CASE i + 1 = j
    BY <1>1, <1>4, <1>8, <2>1 DEF Taken
  <2>2. CASE i + 1 # j
    <3>1. PICK q, k : q = InsertAt(RemoveAt(p, k + 1), i + 1, p[k + 1]) /\ k = j - 1
      OBVIOUS
    <3>2. k \in 0 .. Len(p) - 1 /\ i \in 0 .. Len(p) - 1
      BY <1>1, <1>7, <3>1
    <3>3. Leads(there, t, p) /\ Holds(there, p) /\ e = ChangeMove(there, k, i)
      BY <1>4, <2>2, <3>1 DEF Taken, MarksGo
    <3>4. Taken(there, t, p, k, i, q, e)
      BY <1>1, <1>7, <3>1, <3>2, <3>3, ListMoveTaken
    <3>5. q = u
      BY <1>8, <2>2, <3>1, <3>4 DEF Taken
    <3>6. MarksGo(b, r, there, p) /\ MarksGo(there, p, e, u)
      BY <1>4, <3>4, <3>5 DEF Taken
    <3>7. \A x : Unknown(x, p) => Unknown(x, u)
      <4>1. \A k2 \in 1 .. Len(r) : \E y \in 1 .. Len(p) : p[y] = r[k2]
        <5> TAKE k2 \in 1 .. Len(r)
        <5>1. PICK z : z = k2 - 1
          OBVIOUS
        <5>2. z \in 0 .. Len(r) - 1 /\ z \in Nat /\ z + 1 = k2 /\ i \in Nat /\ j \in Nat
          BY <1>1, <5>1
        <5>3. CASE z = i
          <6>1. p[j + 1] = r[i + 1] /\ j + 1 \in 1 .. Len(p)
            BY <1>1, <1>7 DEF SeqMoved
          <6> QED
            BY <5>2, <5>3, <6>1
        <5>4. CASE z # i
          <6>1. PICK y : y = Up(Down(z, i), j)
            OBVIOUS
          <6>2. p[y + 1] = r[z + 1]
            BY <1>7, <5>2, <5>4, <6>1 DEF SeqMoved
          <6>3. y \in 0 .. Len(r) - 1
            <7>1. CASE z < i
              BY <1>1, <5>2, <6>1, <7>1 DEF Up, Down
            <7>2. CASE ~(z < i)
              <8>1. z - 1 \in Nat /\ z - 1 < Len(r) - 1
                <9>1. Len(r) \in Nat /\ z < Len(r)
                  BY <1>1, <5>2
                <9> QED
                  BY <5>2, <5>4, <7>2, <9>1
              <8>2. y = Up(z - 1, j)
                BY <6>1, <7>2 DEF Down
              <8> QED
                BY <1>1, <5>2, <8>1, <8>2 DEF Up
            <7> QED
              BY <7>1, <7>2
          <6>4. y + 1 \in 1 .. Len(p)
            <7>1. Len(r) \in Nat /\ Len(p) = Len(r)
              BY <1>1, <1>7
            <7> QED
              BY <6>3, <7>1
          <6> QED
            BY <5>2, <6>2, <6>4
        <5> QED
          BY <5>3, <5>4
      <4>2. \A y \in 1 .. Len(u) : \E k2 \in 1 .. Len(r) : u[y] = r[k2]
        <5> TAKE y \in 1 .. Len(u)
        <5>1. PICK z : z = y - 1
          OBVIOUS
        <5>2. z \in 0 .. Len(r) - 1 /\ z + 1 = y
          BY <1>1, <1>6, <5>1 DEF PlacesSwapped
        <5>3. PICK w : w = IF z = i THEN j ELSE IF z = j THEN i ELSE z
          OBVIOUS
        <5>4. w \in 0 .. Len(r) - 1 /\ u[y] = r[w + 1]
          BY <1>6, <5>2, <5>3 DEF PlacesSwapped
        <5>5. w + 1 \in 1 .. Len(r)
          BY <1>1, <5>4
        <5> QED
          BY <5>4, <5>5
      <4> QED
        BY <4>1, <4>2 DEF Unknown
    <3>8. MarksGo(b, r, e, u)
      BY <3>6, <3>7 DEF MarksGo
    <3> QED
      BY <1>1, <1>4, <3>4, <3>5, <3>8 DEF Taken
  <2> QED
    BY <2>1, <2>2
<1>10. Told(s, t, u, a, e, m, n + 1)
  BY <1>1, <1>2, <1>6, <1>9, ToldOn
<1> QED
  BY <1>9, <1>10 DEF ListTold

LEMMA ModifiedIs ==
    ASSUME NEW b, Builder(b), NEW i, NEW e, e = ChangeModify(b, i)
    PROVE  e = [b EXCEPT !.mod = b.mod \cup {i}] /\ e.mod = b.mod \cup {i}
BY DEF ChangeModify, Builder

LEMMA ListSet ==
    ASSUME NEW s, NEW t, NEW r, NEW a, NEW b, NEW m, NEW n, ListTold(s, t, r, a, b, m, n),
           NEW i \in 0 .. Len(r) - 1, NEW e, e = ChangeModify(b, i)
    PROVE  ListTold(s, t, r, a, e, m \cup {r[i + 1]}, n + 1)
<1>1. /\ Told(s, t, r, a, b, m, n) /\ Leads(b, t, r) /\ b.map = << >> /\ Builder(b)
  BY ListToldFacts
<1>2. PICK mod : mod = b.mod \cup {i}
  OBVIOUS
<1>3. e = [b EXCEPT !.mod = mod] /\ e.mod = mod
  BY <1>1, <1>2, ModifiedIs
<1>4. Leads(e, t, r) /\ SameBut(b, e, mod)
  BY <1>1, <1>3, OtherMarks
<1>5. Told(s, t, r, a, e, m \cup {r[i + 1]}, n + 1)
  BY <1>1, <1>2, <1>3, ToldModified
<1> QED
  BY <1>1, <1>4, <1>5 DEF ListTold, SameBut

\* A list that is cleared: all there was is deleted.
LEMMA ClearLeads ==
    ASSUME NEW s \in Seq(Nat), NEW t \in Seq(Nat), NEW b, Leads(b, s, t),
           NEW e, e = ChangeClear(b, Len(t))
    PROVE  Leads(e, s, << >>) /\ e.map = << >> /\ e.mod = {}
<1>0. Len(s) \in Nat /\ Len(t) \in Nat
  BY LenProperties
<1>1. Sets(b) /\ Aligned(b, s, t) /\ InsertionsTold(b, s, t)
  BY DEF Leads, Builder
<1>2. PICK D, I : D = Cardinality(b.del) /\ I = Cardinality(b.ins)
  OBVIOUS
<1>3. D \in Nat /\ I \in Nat
  BY <1>1, <1>2, FS_CardinalityType DEF Sets, PositionSet
<1>4. PICK last1 : last1 = Len(t) + D - I - 1
  OBVIOUS
<1>5. /\ e.del = 0 .. last1 /\ e.ins = {} /\ e.mod = {} /\ e.moves = << >> /\ e.map = << >>
      /\ e = [del |-> e.del, ins |-> e.ins, mod |-> e.mod, moves |-> e.moves, map |-> e.map]
  BY <1>2, <1>4 DEF ChangeClear, NoChange
<1>6. Len(s) <= Len(t) + D - I
  <2>1. Without(s, b.del) = Without(t, b.ins)
    BY <1>1, AlignedLinesUp
  <2>2. Len(Without(s, b.del)) = Unshift(b.del, Len(s))
    BY <1>1, WithoutIs DEF Sets
  <2>3. Len(Without(t, b.ins)) = Unshift(b.ins, Len(t))
    BY <1>1, WithoutIs DEF Sets
  <2>4. /\ Unshift(b.del, Len(s)) = Len(s) - CountIn(b.del, 0, Len(s))
        /\ CountIn(b.del, 0, Len(s)) <= D /\ CountIn(b.del, 0, Len(s)) \in Nat
    BY <1>0, <1>1, <1>2, CountFacts DEF Sets
  <2>5. Unshift(b.ins, Len(t)) = Len(t) - CountIn(b.ins, 0, Len(t))
    BY <1>0, <1>1, CountFacts DEF Sets
  <2>6. CountIn(b.ins, 0, Len(t)) = I
    <3>1. \A x \in b.ins : x \in Nat /\ x < Len(t)
      BY <1>1 DEF InsertionsTold, Sets, PositionSet
    <3>2. {x \in b.ins : 0 <= x /\ x < Len(t)} = b.ins
      BY <3>1
    <3> QED
      BY <1>2, <3>2 DEF CountIn
  <2> QED
    BY <1>0, <1>3, <2>1, <2>2, <2>3, <2>4, <2>5, <2>6
<1>7. last1 \in Int /\ Len(s) <= last1 + 1
  BY <1>0, <1>3, <1>4, <1>6
<1>8. Builder(e) /\ Sets(e)
  <2>1. PositionSet(e.del)
    <3>1. IsFiniteSet(0 .. last1) /\ 0 .. last1 \subseteq Nat
      BY <1>7, FS_Interval
    <3> QED
      BY <1>5, <3>1 DEF PositionSet
  <2>2. PositionSet(e.ins)
    BY <1>5, FS_EmptySet DEF PositionSet
  <2> QED
    BY <1>5, <2>1, <2>2 DEF Builder, Sets
<1>9. PICK u : u = << >>
  OBVIOUS
<1>10. Len(u) = 0
  BY <1>9
<1>11. Aligned(e, s, u)
  <2> SUFFICES ASSUME NEW o \in Nat \ e.del
               PROVE  ~(o < Len(s)) /\ ~(Follows(e, o) < Len(u))
    BY DEF Aligned
  <2>1. ~(o < Len(s))
    BY <1>0, <1>5, <1>7
  <2>2. Follows(e, o) \in Nat
    BY <1>8, FollowsFacts
  <2> QED
    BY <1>10, <2>1, <2>2
<1>12. TrueMoves(e, s, u) /\ InsertionsTold(e, s, u)
  <2>1. DOMAIN e.moves = {} /\ e.moves \in Seq(MovePairs)
    BY <1>5
  <2> QED
    BY <1>5, <2>1 DEF TrueMoves, InsertionsTold
<1> QED
  BY <1>5, <1>8, <1>9, <1>11, <1>12 DEF Leads

LEMMA ListClear ==
    ASSUME NEW s, NEW t, NEW r, NEW a, NEW b, NEW m, NEW n, ListTold(s, t, r, a, b, m, n),
           NEW e, e = ChangeClear(b, Len(r))
    PROVE  ListTold(s, t, << >>, a, e, m, n + 1)
<1>1. /\ Told(s, t, r, a, b, m, n) /\ Leads(b, t, r) /\ t \in Seq(Nat) /\ r \in Seq(Nat)
  BY ListToldFacts
<1>2. Leads(e, t, << >>) /\ e.map = << >> /\ e.mod = {}
  BY <1>1, ClearLeads
<1> QED
  BY <1>1, <1>2, ToldCleared DEF ListTold

-----------------------------------------------------------------------------
(* Moves sorted by their source. *)
Sorted(q, M) ==
    /\ q \in Seq(MovePairs)
    /\ \A n \in DOMAIN q : q[n] \in M
    /\ \A x \in M : \E n \in DOMAIN q : q[n] = x
    /\ \A j, k \in DOMAIN q : q[j].from = q[k].from => j = k

LEMMA SortedFacts ==
    ASSUME NEW M \in SUBSET MovePairs, \A x, y \in M : x.from = y.from => x = y,
           NEW F, F = {x.from : x \in M}, IsFiniteSet(F), NEW q, q = SortedBySource(M)
    PROVE  Sorted(q, M)
<1>1. PICK k : k = InOrder(F)
  OBVIOUS
<1>2. PositionSet(F)
  BY DEF PositionSet, MovePairs
<1>3. Ordered(F, k)
  BY <1>1, <1>2, InOrderFacts
<1>4. PICK c : c = Cardinality(F)
  OBVIOUS
<1>5. /\ DOMAIN k = 1 .. c /\ c \in Nat /\ \A i \in 1 .. c : k[i] \in F
      /\ \A x \in F : \E i \in 1 .. c : k[i] = x
      /\ \A i, j \in 1 .. c : i < j => k[i] < k[j]
  BY <1>3, <1>4 DEF Ordered
<1>6. q = [n \in 1 .. c |-> CHOOSE x \in M : x.from = k[n]]
  BY <1>1, <1>5 DEF SortedBySource
<1>7. \A n \in 1 .. c : q[n] \in M /\ q[n].from = k[n]
  <2> TAKE n \in 1 .. c
  <2>1. \E x \in M : x.from = k[n]
    BY <1>5
  <2>2. q[n] = CHOOSE x \in M : x.from = k[n]
    BY <1>6
  <2> QED
    BY <2>1, <2>2
<1>8. q \in Seq(MovePairs) /\ DOMAIN q = 1 .. c
  <2>1. q \in [1 .. c -> MovePairs]
    <3>1. DOMAIN q = 1 .. c /\ q = [n \in 1 .. c |-> q[n]]
      BY <1>6
    <3> QED
      BY <1>7, <3>1
  <2> QED
    BY <1>5, <2>1, SeqIs
<1>9. \A x \in M : \E n \in DOMAIN q : q[n] = x
  <2> TAKE x \in M
  <2>1. PICK n \in 1 .. c : k[n] = x.from
    BY <1>5
  <2>2. q[n] \in M /\ q[n].from = x.from
    BY <1>7, <2>1
  <2> QED
    BY <1>8, <2>2
<1>10. ASSUME NEW i \in 1 .. c, NEW j \in 1 .. c, q[i].from = q[j].from
       PROVE  i = j
  <2>1. k[i] = k[j] /\ k[i] \in Nat
    BY <1>2, <1>5, <1>7, <1>10 DEF PositionSet
  <2>2. ~(i < j) /\ ~(j < i)
    BY <1>5, <2>1
  <2> QED
    BY <2>2
<1> QED
  BY <1>7, <1>8, <1>9, <1>10 DEF Sorted

-----------------------------------------------------------------------------
(* Tables. *)

\* The row at n of r came from where b says, or is new.
RowsFrom(b, l, r) ==
    \A n \in 0 .. Len(r) - 1 :
        IF Origin(b, n) = -1 THEN Unknown(r[n + 1], l)
        ELSE Origin(b, n) \in 0 .. Len(l) - 1 /\ l[Origin(b, n) + 1] = r[n + 1]

\* What parse_complete makes of the log.
Parsed(b, e, M) ==
    /\ M = {[from |-> b.map[k], to |-> k] : k \in {j \in DOMAIN b.map : b.map[j] # j}}
    /\ e.del = b.del \ {j \in DOMAIN b.map : b.map[j] = j}
    /\ e.ins = b.ins \ {j \in DOMAIN b.map : b.map[j] = j}
    /\ e.moves = SortedBySource(M) /\ e.mod = b.mod /\ e.map = << >>
    /\ e = [del |-> e.del, ins |-> e.ins, mod |-> e.mod, moves |-> e.moves, map |-> e.map]

LEMMA ParsedIs ==
    ASSUME NEW b, Builder(b), b.moves = << >>, NEW e, e = ParseComplete(b)
    PROVE  \E M : Parsed(b, e, M)
<1>1. PICK back : back = {j \in DOMAIN b.map : b.map[j] = j}
  OBVIOUS
<1>2. PICK K : K = {j \in DOMAIN b.map : b.map[j] # j}
  OBVIOUS
<1>3. DOMAIN b.map \ back = K
  BY <1>1, <1>2
<1>4. PICK M : M = {[from |-> b.map[k], to |-> k] : k \in K}
  OBVIOUS
<1>5. PICK f : f = b.moves
  OBVIOUS
<1>6. Range(f) = {}
  BY <1>5 DEF Range
<1>7. e = [b EXCEPT !.del = b.del \ back, !.ins = b.ins \ back, !.map = << >>,
                    !.moves = SortedBySource(Range(b.moves) \cup
                                {[from |-> b.map[k], to |-> k] : k \in DOMAIN b.map \ back})]
  BY <1>1 DEF ParseComplete
<1>8. Range(b.moves) \cup {[from |-> b.map[k], to |-> k] : k \in DOMAIN b.map \ back} = M
  <2>1. {[from |-> b.map[k], to |-> k] : k \in DOMAIN b.map \ back} = M
    BY <1>3, <1>4
  <2> QED
    BY <1>5, <1>6, <2>1
<1>9. e = [b EXCEPT !.del = b.del \ back, !.ins = b.ins \ back, !.map = << >>,
                    !.moves = SortedBySource(M)]
  BY <1>7, <1>8
<1> HIDE <1>7
<1>10. b = [del |-> b.del, ins |-> b.ins, mod |-> b.mod, moves |-> b.moves, map |-> b.map]
  BY DEF Builder
<1>11. e = [del |-> b.del \ back, ins |-> b.ins \ back, mod |-> b.mod,
            moves |-> SortedBySource(M), map |-> << >>]
  BY <1>9, <1>10
<1>12. /\ e.del = b.del \ back /\ e.ins = b.ins \ back /\ e.mod = b.mod
       /\ e.moves = SortedBySource(M) /\ e.map = << >>
  BY <1>11
<1>13. e = [del |-> e.del, ins |-> e.ins, mod |-> e.mod, moves |-> e.moves, map |-> e.map]
  BY <1>11, <1>12
<1>14. Parsed(b, e, M)
  BY <1>1, <1>2, <1>4, <1>12, <1>13 DEF Parsed
<1> QED
  BY <1>14

(* parse_complete (collection_change_builder.cpp:156-172): the moves of a table's
   rows are told as those of a list are. *)
THEOREM ParsedLeads ==
    ASSUME NEW l \in Seq(Nat), NEW r \in Seq(Nat), Distinct(l), Distinct(r),
           NEW b, TableLog(b, Len(l), Len(r)), RowsFrom(b, l, r), b.moves = << >>,
           NEW e, e = ParseComplete(b)
    PROVE  Leads(e, l, r) /\ e.map = << >> /\ e.mod = b.mod
<1>1. PICK old, size : old = Len(l) /\ size = Len(r) /\ old \in Nat /\ size \in Nat
  BY LenProperties
<1>2. TableLog(b, old, size) /\ Builder(b)
  BY <1>1 DEF TableLog
<1>3. PICK M : Parsed(b, e, M)
  BY <1>2, ParsedIs
<1>4. /\ Sets(e) /\ e.del \subseteq b.del
      /\ \A n \in 0 .. size - 1 : IF n \in e.ins THEN Origin(b, n) # n
                                  ELSE Origin(b, n) = n /\ n \notin e.del /\ Follows(e, n) = n
  BY <1>1, <1>2, ParsedRowsTraced
<1>5. Builder(e)
  BY <1>3, <1>4 DEF Builder, Parsed
<1>6. /\ \A j \in 0 .. size - 1 : j \in b.ins <=> j \in b.del \/ j >= old
      /\ \A j \in size .. old - 1 : j \in b.del
      /\ b.ins \subseteq 0 .. size - 1 /\ DOMAIN b.map \subseteq b.ins
      /\ \A k \in DOMAIN b.map : b.map[k] \in 0 .. old - 1
  BY <1>2 DEF TableLog
<1>7. \A n \in 0 .. size - 1 :
        IF Origin(b, n) = -1 THEN Unknown(r[n + 1], l)
        ELSE Origin(b, n) \in 0 .. old - 1 /\ l[Origin(b, n) + 1] = r[n + 1]
  BY <1>1 DEF RowsFrom
<1>8. /\ e.del = b.del \ {j \in DOMAIN b.map : b.map[j] = j}
      /\ e.ins = b.ins \ {j \in DOMAIN b.map : b.map[j] = j}
      /\ M = {[from |-> b.map[k], to |-> k] : k \in {j \in DOMAIN b.map : b.map[j] # j}}
      /\ e.moves = SortedBySource(M) /\ e.mod = b.mod /\ e.map = << >>
  BY <1>3 DEF Parsed
<1>9. \A n \in 0 .. size - 1 : n \notin e.ins =>
        /\ n \notin e.del /\ Follows(e, n) = n /\ n < old /\ l[n + 1] = r[n + 1]
  <2> SUFFICES ASSUME NEW n \in 0 .. size - 1, n \notin e.ins
               PROVE  n \notin e.del /\ Follows(e, n) = n /\ n < old /\ l[n + 1] = r[n + 1]
    OBVIOUS
  <2>1. Origin(b, n) = n /\ n \notin e.del /\ Follows(e, n) = n /\ n # -1
    BY <1>1, <1>4
  <2>2. n \in 0 .. old - 1 /\ l[n + 1] = r[n + 1]
    BY <1>7, <2>1
  <2> QED
    BY <1>1, <2>1, <2>2
<1>10. \A o \in Nat : o \notin e.del /\ o < old => o < size /\ o \notin e.ins
  <2> SUFFICES ASSUME NEW o \in Nat, o \notin e.del, o < old
               PROVE  o < size /\ o \notin e.ins
    OBVIOUS
  <2>1. CASE o \in b.del
    <3>1. o \in DOMAIN b.map /\ b.map[o] = o
      BY <1>8, <2>1
    <3>2. o \in 0 .. size - 1
      BY <1>6, <3>1
    <3> QED
      BY <1>1, <1>8, <3>1, <3>2
  <2>2. CASE o \notin b.del
    <3>1. o < size
      <4> SUFFICES ASSUME ~(o < size)
                   PROVE  FALSE
        OBVIOUS
      <4>1. o \in size .. old - 1
        BY <1>1
      <4> QED
        BY <1>6, <2>2, <4>1
    <3>2. o \in 0 .. size - 1 /\ ~(o >= old)
      BY <1>1, <3>1
    <3> QED
      BY <1>6, <1>8, <2>2, <3>1, <3>2
  <2> QED
    BY <2>1, <2>2
<1>11. Aligned(e, l, r)
  <2> SUFFICES ASSUME NEW o \in Nat \ e.del
               PROVE  /\ o < old <=> Follows(e, o) < size
                      /\ o < old => l[o + 1] = r[Follows(e, o) + 1]
    BY <1>1 DEF Aligned
  <2>1. CASE o < old
    <3>1. o \in 0 .. size - 1 /\ o \notin e.ins
      BY <1>1, <1>10, <2>1
    <3>2. Follows(e, o) = o /\ l[o + 1] = r[o + 1]
      BY <1>9, <3>1
    <3> QED
      BY <1>1, <2>1, <3>1, <3>2
  <2>2. CASE ~(o < old)
    <3>1. PICK n : n = Follows(e, o)
      OBVIOUS
    <3>2. n \in Nat /\ n \notin e.ins
      BY <1>4, <3>1, FollowsFacts
    <3>3. ASSUME n < size
          PROVE  FALSE
      <4>1. n \in 0 .. size - 1
        BY <1>1, <3>2, <3>3
      <4>2. n \notin e.del /\ Follows(e, n) = n /\ n < old
        BY <1>9, <3>2, <4>1
      <4>3. CameFrom(e, n) = o
        BY <1>4, <3>1, FollowsFacts
      <4>4. CameFrom(e, Follows(e, n)) = n
        BY <1>4, <3>2, <4>2, FollowsFacts
      <4>5. n = o
        BY <4>2, <4>3, <4>4
      <4> QED
        BY <2>2, <4>2, <4>5
    <3> QED
      BY <2>2, <3>1, <3>3
  <2> QED
    BY <2>1, <2>2
<1>12. ASSUME NEW k \in DOMAIN b.map, b.map[k] # k
       PROVE  /\ k \in e.ins /\ k \in 0 .. size - 1 /\ b.map[k] \in e.del
              /\ b.map[k] \in 0 .. old - 1 /\ l[b.map[k] + 1] = r[k + 1]
  <2>1. k \in e.ins /\ k \in 0 .. size - 1 /\ b.map[k] \in 0 .. old - 1
    BY <1>6, <1>8, <1>12
  <2>2. PICK f : f = b.map[k]
    OBVIOUS
  <2>3. Origin(b, k) = f /\ f \in 0 .. old - 1 /\ f # -1
    BY <1>1, <2>1, <2>2 DEF Origin
  <2>4. l[f + 1] = r[k + 1]
    BY <1>7, <2>1, <2>3
  <2>5. f \in e.del
    <3> SUFFICES ASSUME f \notin e.del
                 PROVE  FALSE
      OBVIOUS
    <3>1. f \in Nat /\ f < old
      BY <1>1, <2>3
    <3>2. f < size /\ f \notin e.ins
      BY <1>10, <3>1
    <3>3. f \in 0 .. size - 1
      BY <1>1, <3>1, <3>2
    <3>4. l[f + 1] = r[f + 1]
      BY <1>9, <3>2, <3>3
    <3>5. f + 1 \in 1 .. Len(r) /\ k + 1 \in 1 .. Len(r)
      BY SMTT(20), <1>1, <2>1, <3>3
    <3>6. f + 1 = k + 1
      BY <2>4, <3>4, <3>5 DEF Distinct
    <3>7. f = k
      BY <1>1, <2>1, <3>1, <3>6
    <3> QED
      BY <1>12, <2>2, <3>7
  <2> QED
    BY <2>1, <2>2, <2>3, <2>4, <2>5
<1>13. ASSUME NEW x \in M
       PROVE  x \in MovePairs /\ TrueMove(e, x, l, r) /\ x.from \in 0 .. old - 1
  <2>1. PICK k \in DOMAIN b.map : b.map[k] # k /\ x = [from |-> b.map[k], to |-> k]
    BY <1>8
  <2>2. x.from = b.map[k] /\ x.to = k
    BY <2>1
  <2>3. /\ k \in e.ins /\ k \in 0 .. size - 1 /\ b.map[k] \in e.del
        /\ b.map[k] \in 0 .. old - 1 /\ l[b.map[k] + 1] = r[k + 1]
    BY <1>12, <2>1
  <2>4. k \in Nat /\ b.map[k] \in Nat
    BY <1>1, <2>3
  <2>5. x \in MovePairs
    BY <2>1, <2>4 DEF MovePairs
  <2>6. TrueMove(e, x, l, r)
    BY <1>1, <2>2, <2>3 DEF TrueMove
  <2> QED
    BY <2>2, <2>3, <2>5, <2>6
<1>14. ASSUME NEW x \in M, NEW y \in M, x.from = y.from
       PROVE  x = y
  <2>1. TrueMove(e, x, l, r) /\ TrueMove(e, y, l, r) /\ x \in MovePairs /\ y \in MovePairs
    BY <1>13
  <2>2. PICK i, j : i = x.to /\ j = y.to
    OBVIOUS
  <2>3. r[i + 1] = r[j + 1] /\ i \in 0 .. Len(r) - 1 /\ j \in 0 .. Len(r) - 1
    BY <1>14, <2>1, <2>2 DEF TrueMove
  <2>4. i + 1 \in 1 .. Len(r) /\ j + 1 \in 1 .. Len(r)
    BY <1>1, <2>3
  <2>5. i + 1 = j + 1
    BY <2>3, <2>4 DEF Distinct
  <2>6. i = j
    BY <1>1, <2>3, <2>5
  <2>7. \A z \in MovePairs : z = [from |-> z.from, to |-> z.to]
    BY DEF MovePairs
  <2>8. x = [from |-> x.from, to |-> x.to] /\ y = [from |-> y.from, to |-> y.to]
    BY <2>1, <2>7
  <2>9. x.from = y.from /\ x.to = y.to
    BY <1>14, <2>2, <2>6
  <2> QED
    BY <2>8, <2>9
<1>15. PICK F : F = {x.from : x \in M}
  OBVIOUS
<1>16. IsFiniteSet(F)
  <2>1. IsFiniteSet(0 .. old - 1)
    BY <1>1, FS_Interval
  <2>2. F \subseteq 0 .. old - 1
    BY <1>13, <1>15
  <2> QED
    BY <2>1, <2>2, FS_Subset
<1>17. PICK q : q = SortedBySource(M)
  OBVIOUS
<1>18. Sorted(q, M)
  <2>1. M \in SUBSET MovePairs
    BY <1>13
  <2> QED
    BY <1>14, <1>15, <1>16, <1>17, <2>1, SortedFacts
<1>19. TrueMoves(e, l, r)
  <2>1. e.moves = q
    BY <1>8, <1>17
  <2>2. /\ q \in Seq(MovePairs) /\ \A n \in DOMAIN q : TrueMove(e, q[n], l, r)
        /\ \A j, k \in DOMAIN q : q[j].from = q[k].from => j = k
    BY <1>13, <1>18 DEF Sorted
  <2> QED
    BY <2>1, <2>2 DEF TrueMoves
<1>20. InsertionsTold(e, l, r)
  <2> SUFFICES ASSUME NEW n \in e.ins
               PROVE  /\ n < Len(r)
                      /\ Unknown(r[n + 1], l) \/ \E k \in DOMAIN e.moves : e.moves[k].to = n
    BY DEF InsertionsTold
  <2>1. n \in 0 .. size - 1 /\ n < Len(r) /\ n \in b.ins
    BY <1>1, <1>6, <1>8
  <2>2. CASE n \in DOMAIN b.map
    <3>1. b.map[n] # n
      BY <1>8, <2>2
    <3>2. PICK x : x = [from |-> b.map[n], to |-> n]
      OBVIOUS
    <3>3. x \in M /\ x.to = n
      BY <1>8, <2>2, <3>1, <3>2
    <3>4. PICK k \in DOMAIN q : q[k] = x
      BY <1>18, <3>3 DEF Sorted
    <3> QED
      BY <1>8, <1>17, <2>1, <3>3, <3>4
  <2>3. CASE n \notin DOMAIN b.map
    <3>1. Origin(b, n) = -1
      BY <2>1, <2>3 DEF Origin
    <3> QED
      BY <1>7, <2>1, <3>1
  <2> QED
    BY <2>2, <2>3
<1> QED
  BY <1>5, <1>8, <1>11, <1>19, <1>20 DEF Leads

\* Nothing is a move in the log of a table before parse_complete.
TableTold(s, t, r, a, b, m, n) == Told(s, t, r, a, b, m, n) /\ b.moves = << >>

LEMMA TableToldFacts ==
    ASSUME NEW s, NEW t, NEW r, NEW a, NEW b, NEW m, NEW n, TableTold(s, t, r, a, b, m, n)
    PROVE  /\ Told(s, t, r, a, b, m, n) /\ b.moves = << >>
           /\ n \in Nat /\ n + 1 \in Nat /\ t \in Seq(Nat) /\ r \in Seq(Nat)
           /\ Distinct(r) /\ Distinct(t)
           /\ Holds(b, r) /\ Unknown(n + 1, r) /\ Len(r) \in Nat
<1>1. Told(s, t, r, a, b, m, n) /\ b.moves = << >>
  BY DEF TableTold
<1>2. n \in Nat /\ KnownTo(t, n) /\ KnownTo(r, n) /\ Holds(b, r)
  BY <1>1 DEF Told
<1>3. Unknown(n + 1, r) /\ n + 1 \in Nat
  BY <1>2, NotGiven
<1>4. t \in Seq(Nat) /\ r \in Seq(Nat) /\ Distinct(t) /\ Distinct(r) /\ Len(r) \in Nat
  BY <1>2, LenProperties DEF KnownTo
<1> QED
  BY <1>1, <1>2, <1>3, <1>4

LEMMA AddRowTold ==
    ASSUME NEW s, NEW t, NEW r, NEW a, NEW b, NEW m, NEW n, TableTold(s, t, r, a, b, m, n),
           Builder(b), NEW u, u = Append(r, n + 1), NEW e, e = ChangeInsert(b, Len(r))
    PROVE  TableTold(s, t, u, a, e, m, n + 1)
<1>1. /\ Told(s, t, r, a, b, m, n) /\ b.moves = << >>
      /\ n \in Nat /\ n + 1 \in Nat /\ t \in Seq(Nat) /\ r \in Seq(Nat) /\ Distinct(r)
      /\ Holds(b, r) /\ Unknown(n + 1, r) /\ Len(r) \in Nat
  BY TableToldFacts
<1>2. PICK v, l : v = n + 1 /\ l = Len(r)
  OBVIOUS
<1>3. /\ u \in Seq(Nat) /\ Len(u) = l + 1 /\ u[l + 1] = v
      /\ \A k \in 1 .. l : u[k] = r[k]
  BY <1>1, <1>2
<1>4. \A k \in 0 .. l - 1 : u[k + 1] = r[k + 1] /\ k \in Nat /\ k < l
  <2>1. \A k \in 0 .. l - 1 : k + 1 \in 1 .. l /\ k \in Nat /\ k < l
    BY <1>1, <1>2
  <2> QED
    BY <1>3, <2>1
<1>5. PICK g : g = [k \in Nat |-> k]
  OBVIOUS
<1>6. Drawn(g, r, l, v, u)
  <2>1. ASSUME NEW k \in 0 .. Len(u) - 1
        PROVE  g[k] = k /\ (k # l => k \in 0 .. Len(r) - 1 /\ u[k + 1] = r[k + 1])
    <3>1. k \in Nat /\ (k # l => k \in 0 .. l - 1)
      BY <1>1, <1>2, <1>3
    <3> QED
      BY <1>2, <1>4, <1>5, <3>1
  <2>2. \A x, y \in 0 .. Len(u) - 1 : g[x] = g[y] => x = y
    BY <2>1
  <2> QED
    BY <1>3, <2>1, <2>2 DEF Drawn
<1>7. OneNew(r, v, u)
  BY <1>1, <1>2, <1>3, <1>6, DrawnOneNew
<1>8. DOMAIN b = {"del", "ins", "mod", "moves", "map"}
  BY DEF Builder
<1>9. e.mod = b.mod
  <2>1. e.mod = {IF x < l THEN x ELSE x + 1 : x \in b.mod}
    BY <1>2, <1>8 DEF ChangeInsert, ShiftForInsertAt
  <2>2. \A x \in b.mod : (IF x < l THEN x ELSE x + 1) = x
    BY <1>1, <1>2, <1>4 DEF Holds
  <2> QED
    BY <2>1, <2>2
<1>10. e.moves = << >>
  <2>1. PICK M : M = b.moves
    OBVIOUS
  <2>2. DOMAIN M = {}
    BY <1>1, <2>1
  <2>3. DOMAIN e.moves = DOMAIN M /\ e.moves = [k \in DOMAIN e.moves |-> e.moves[k]]
    BY <1>8, <2>1 DEF ChangeInsert
  <2> QED
    BY <2>2, <2>3
<1>11. MarksGo(b, r, e, u)
  <2>1. \A y \in b.mod : y \in 0 .. l - 1 /\ y \in 0 .. Len(u) - 1
    BY <1>1, <1>2, <1>3 DEF Holds
  <2> QED
    BY <1>4, <1>9, <2>1 DEF MarksGo, Marked, Holds
<1>12. Told(s, t, u, a, e, m, n + 1)
  BY <1>1, <1>2, <1>7, <1>11, ToldOn
<1> QED
  BY <1>10, <1>12 DEF TableTold

\* The marks of a row erased and of the last row, which takes its place.
LastMarks(b, e, i, end) ==
    /\ e.mod = (b.mod \ {i, end}) \cup (IF end \in b.mod /\ i # end THEN {i} ELSE {})
    /\ e.moves = b.moves

LEMMA MoveOverMarks ==
    ASSUME NEW b, Builder(b), NEW i, NEW end, NEW e, e = ChangeMoveOver(b, i, end)
    PROVE  LastMarks(b, e, i, end)
<1>1. DOMAIN b = {"del", "ins", "mod", "moves", "map"}
  BY DEF Builder
<1>2. CASE i = end
  BY <1>1, <1>2 DEF ChangeMoveOver, LastMarks
<1>3. CASE i # end
  <2>1. /\ e.mod = (b.mod \ {i, end}) \cup (IF end \in b.mod THEN {i} ELSE {})
        /\ e.moves = b.moves
    BY <1>1, <1>3 DEF ChangeMoveOver
  <2> QED
    BY <1>3, <2>1 DEF LastMarks
<1> QED
  BY <1>2, <1>3

LEMMA DeleteRowTold ==
    ASSUME NEW s, NEW t, NEW r, NEW a, NEW b, NEW m, NEW n, TableTold(s, t, r, a, b, m, n),
           Builder(b), NEW i \in 0 .. Len(r) - 1, NEW u, u = WithoutRow(r, i),
           NEW e, e = ChangeMoveOver(b, i, Len(r) - 1)
    PROVE  TableTold(s, t, u, a, e, m, n + 1)
<1>1. /\ Told(s, t, r, a, b, m, n) /\ b.moves = << >>
      /\ n \in Nat /\ n + 1 \in Nat /\ t \in Seq(Nat) /\ r \in Seq(Nat) /\ Distinct(r)
      /\ Holds(b, r) /\ Unknown(n + 1, r) /\ Len(r) \in Nat
  BY TableToldFacts
<1>2. PICK v, end : v = n + 1 /\ end = Len(r) - 1
  OBVIOUS
<1>3. end \in Nat /\ Len(r) = end + 1 /\ i \in 0 .. end /\ i + 1 \in 1 .. Len(r)
  BY <1>1, <1>2
<1>4. u \in Seq(Nat) /\ LastMoved(r, i + 1, u)
  BY <1>1, <1>3, LastMovedIs DEF WithoutRow
<1>5. Len(u) = end /\ \A k \in 0 .. end - 1 : u[k + 1] = r[(IF k = i THEN end ELSE k) + 1]
  <2>1. Len(u) = end /\ \A k \in 1 .. end : u[k] = r[IF k = i + 1 THEN end + 1 ELSE k]
    BY <1>3, <1>4 DEF LastMoved
  <2>2. ASSUME NEW k \in 0 .. end - 1
        PROVE  u[k + 1] = r[(IF k = i THEN end ELSE k) + 1]
    <3>1. k + 1 \in 1 .. end /\ (k + 1 = i + 1 <=> k = i)
      BY <1>3
    <3>2. CASE k = i
      BY <2>1, <3>1, <3>2
    <3>3. CASE k # i
      BY <2>1, <3>1, <3>3
    <3> QED
      BY <3>2, <3>3
  <2> QED
    BY <2>1, <2>2
<1>6. PICK g : g = [k \in Nat |-> IF k = i THEN end ELSE k]
  OBVIOUS
<1>7. ASSUME NEW k \in 0 .. end - 1
      PROVE  /\ g[k] \in 0 .. Len(r) - 1 /\ u[k + 1] = r[g[k] + 1]
             /\ k = IF g[k] = end THEN i ELSE g[k]
  <2>1. k \in Nat /\ k < end /\ g[k] = IF k = i THEN end ELSE k
    BY <1>3, <1>6
  <2>2. u[k + 1] = r[g[k] + 1]
    BY <1>5, <2>1
  <2> QED
    BY <1>3, <2>1, <2>2
<1>8. Drawn(g, r, -1, v, u)
  <2>1. -1 \notin 0 .. Len(u) - 1
    BY <1>3, <1>5
  <2>2. \A x, y \in 0 .. end - 1 : g[x] = g[y] => x = y
    BY <1>7
  <2> QED
    BY <1>5, <1>7, <2>1, <2>2 DEF Drawn
<1>9. OneNew(r, v, u)
  BY <1>1, <1>2, <1>4, <1>8, DrawnOneNew
<1>10. LastMarks(b, e, i, end)
  BY <1>2, MoveOverMarks
<1>11. \A y \in e.mod : y \in 0 .. end - 1
  <2>1. \A y \in b.mod : y \in 0 .. end
    BY <1>1, <1>2 DEF Holds
  <2>2. i # end => i \in 0 .. end - 1
    BY <1>3
  <2>3. \A y \in 0 .. end : y # end => y \in 0 .. end - 1
    BY <1>3
  <2> QED
    BY <1>10, <2>1, <2>2, <2>3 DEF LastMarks
<1>12. Unknown(r[i + 1], u)
  <2>1. ASSUME NEW k \in 1 .. Len(u), u[k] = r[i + 1]
        PROVE  FALSE
    <3>1. k \in 1 .. end /\ u[k] = r[IF k = i + 1 THEN end + 1 ELSE k]
      BY <1>3, <1>4, <1>5 DEF LastMoved
    <3>2. PICK x : x = IF k = i + 1 THEN end + 1 ELSE k
      OBVIOUS
    <3>3. x \in 1 .. Len(r) /\ x # i + 1
      BY <1>3, <3>1, <3>2
    <3> QED
      BY <1>1, <1>3, <2>1, <3>1, <3>2, <3>3 DEF Distinct
  <2> QED
    BY <2>1 DEF Unknown
<1>13. ASSUME NEW y \in b.mod
       PROVE  Unknown(r[y + 1], u) \/ \E x \in e.mod : u[x + 1] = r[y + 1]
  <2>1. y \in 0 .. end
    BY <1>1, <1>2 DEF Holds
  <2>2. CASE y = i
    BY <1>12, <2>2
  <2>3. CASE y # i /\ y = end
    <3>1. i \in e.mod /\ i \in 0 .. end - 1
      BY <1>10, <1>11, <2>3 DEF LastMarks
    <3> QED
      BY <1>5, <2>3, <3>1
  <2>4. CASE y # i /\ y # end
    <3>1. y \in e.mod /\ y \in 0 .. end - 1
      BY <1>10, <1>11, <2>4 DEF LastMarks
    <3> QED
      BY <1>5, <2>4, <3>1
  <2> QED
    BY <2>2, <2>3, <2>4
<1>14. MarksGo(b, r, e, u)
  BY SMTT(20), <1>5, <1>11, <1>13 DEF MarksGo, Marked, Holds
<1>15. Told(s, t, u, a, e, m, n + 1)
  BY <1>1, <1>2, <1>9, <1>14, ToldOn
<1> QED
  BY <1>1, <1>10, <1>15 DEF TableTold, LastMarks

\* The marks of two rows that change places.
SwappedMarks(b, e, i, j) ==
    /\ e.mod = (b.mod \ {i, j}) \cup (IF i \in b.mod THEN {j} ELSE {})
                                \cup (IF j \in b.mod THEN {i} ELSE {})
    /\ e.moves = b.moves

SameMarks(b, e) == e.mod = b.mod /\ e.moves = b.moves /\ DOMAIN e = DOMAIN b

LEMMA RedirectMarks ==
    ASSUME NEW b, DOMAIN b = {"del", "ins", "mod", "moves", "map"}, NEW x, NEW y
    PROVE  SameMarks(b, Redirect(b, x, y)) /\ SameMarks(b, SwapOut(b, x, y))
<1>1. ASSUME NEW d, NEW n, NEW p
      PROVE  /\ SameMarks(b, [b EXCEPT !.map = p])
             /\ SameMarks(b, [b EXCEPT !.map = p, !.del = d, !.ins = n])
             /\ SameMarks(b, b)
  BY DEF SameMarks
<1>2. SameMarks(b, Redirect(b, x, y))
  BY <1>1 DEF Redirect
<1>3. SameMarks(b, SwapOut(b, x, y))
  BY <1>1 DEF SwapOut
<1> QED
  BY <1>2, <1>3

LEMMA SwapMarks ==
    ASSUME NEW b, Builder(b), NEW i, NEW j, NEW e, e = ChangeSwap(b, i, j)
    PROVE  SwappedMarks(b, e, i, j)
<1>1. DOMAIN b = {"del", "ins", "mod", "moves", "map"}
  BY DEF Builder
<1>2. PICK c : c = [b EXCEPT !.mod = (@ \ {i, j}) \cup (IF i \in @ THEN {j} ELSE {})
                                                  \cup (IF j \in @ THEN {i} ELSE {})]
  OBVIOUS
<1>3. /\ DOMAIN c = {"del", "ins", "mod", "moves", "map"} /\ c.moves = b.moves
      /\ c.mod = (b.mod \ {i, j}) \cup (IF i \in b.mod THEN {j} ELSE {})
                                  \cup (IF j \in b.mod THEN {i} ELSE {})
  BY <1>1, <1>2
<1>4. /\ SameMarks(c, Redirect(c, j, i)) /\ SameMarks(c, Redirect(c, i, j))
      /\ SameMarks(c, SwapOut(SwapOut(c, j, i), i, j))
  <2>1. /\ SameMarks(c, Redirect(c, j, i)) /\ SameMarks(c, Redirect(c, i, j))
        /\ SameMarks(c, SwapOut(c, j, i))
    BY <1>3, RedirectMarks
  <2>2. DOMAIN SwapOut(c, j, i) = {"del", "ins", "mod", "moves", "map"}
    BY <1>3, <2>1 DEF SameMarks
  <2>3. SameMarks(SwapOut(c, j, i), SwapOut(SwapOut(c, j, i), i, j))
    BY <2>2, RedirectMarks
  <2> QED
    BY <2>1, <2>3 DEF SameMarks
<1>5. ASSUME NEW p
      PROVE  SameMarks(c, [c EXCEPT !.map = p])
  BY <1>3 DEF SameMarks
<1>6. \/ e = Redirect(c, j, i) \/ e = Redirect(c, i, j)
      \/ e = SwapOut(SwapOut(c, j, i), i, j)
      \/ \E p : e = [c EXCEPT !.map = p]
  <2>1. CASE {i, j} \subseteq DOMAIN b.map
    <3>1. e = [c EXCEPT !.map = [@ EXCEPT ![i] = b.map[j], ![j] = b.map[i]]]
      BY Zenon, <1>2, <2>1 DEF ChangeSwap
    <3>2. e = [c EXCEPT !.map = [c.map EXCEPT ![i] = b.map[j], ![j] = b.map[i]]]
      BY <3>1
    <3> QED
      BY <3>2
  <2>2. CASE i \in DOMAIN b.map /\ j \notin DOMAIN b.map
    BY <1>2, <2>2 DEF ChangeSwap
  <2>3. CASE j \in DOMAIN b.map /\ i \notin DOMAIN b.map
    BY <1>2, <2>3 DEF ChangeSwap
  <2>4. CASE j \notin DOMAIN b.map /\ i \notin DOMAIN b.map
    BY <1>2, <2>4 DEF ChangeSwap
  <2> QED
    BY <2>1, <2>2, <2>3, <2>4
<1>7. SameMarks(c, e)
  BY <1>4, <1>5, <1>6
<1> QED
  BY <1>3, <1>7 DEF SwappedMarks, SameMarks

LEMMA SwapRowsTold ==
    ASSUME NEW s, NEW t, NEW r, NEW a, NEW b, NEW m, NEW n, TableTold(s, t, r, a, b, m, n),
           Builder(b), NEW i \in 0 .. Len(r) - 1, NEW j \in 0 .. Len(r) - 1, i # j,
           NEW u, u = Exchanged(r, i + 1, j + 1), NEW e, e = ChangeSwap(b, i, j)
    PROVE  TableTold(s, t, u, a, e, m, n + 1)
<1>1. /\ Told(s, t, r, a, b, m, n) /\ b.moves = << >>
      /\ n \in Nat /\ n + 1 \in Nat /\ t \in Seq(Nat) /\ r \in Seq(Nat) /\ Distinct(r)
      /\ Holds(b, r) /\ Unknown(n + 1, r) /\ Len(r) \in Nat
  BY TableToldFacts
<1>2. PICK v : v = n + 1
  OBVIOUS
<1>3. OneNew(r, v, u) /\ PlacesSwapped(r, i, j, u)
  BY <1>1, <1>2, ExchangedEntries
<1>4. SwappedMarks(b, e, i, j)
  BY SwapMarks
<1>5. /\ Len(u) = Len(r)
      /\ \A k \in 0 .. Len(r) - 1 : u[k + 1] = r[(IF k = i THEN j ELSE IF k = j THEN i ELSE k) + 1]
  BY <1>3 DEF PlacesSwapped
<1>6. Holds(e, u)
  BY <1>1, <1>4, <1>5 DEF Holds, SwappedMarks
<1>7. ASSUME NEW y \in b.mod
      PROVE  \E x \in e.mod : u[x + 1] = r[y + 1]
  <2>0. y \in 0 .. Len(r) - 1
    BY <1>1 DEF Holds
  <2>1. CASE y = i
    <3>1. j \in e.mod /\ u[j + 1] = r[i + 1]
      BY <1>4, <1>5, <2>1 DEF SwappedMarks
    <3> QED
      BY <2>1, <3>1
  <2>2. CASE y = j
    <3>1. i \in e.mod /\ u[i + 1] = r[j + 1]
      BY <1>4, <1>5, <2>2 DEF SwappedMarks
    <3> QED
      BY <2>2, <3>1
  <2>3. CASE y # i /\ y # j
    <3>1. y \in e.mod /\ u[y + 1] = r[y + 1]
      BY <1>4, <1>5, <2>0, <2>3 DEF SwappedMarks
    <3> QED
      BY <3>1
  <2> QED
    BY <2>1, <2>2, <2>3
<1>8. MarksGo(b, r, e, u)
  BY <1>6, <1>7 DEF MarksGo, Marked
<1>9. Told(s, t, u, a, e, m, n + 1)
  BY <1>1, <1>2, <1>3, <1>8, ToldOn
<1> QED
  BY <1>1, <1>4, <1>9 DEF TableTold, SwappedMarks

LEMMA ModifyRowTold ==
    ASSUME NEW s, NEW t, NEW r, NEW a, NEW b, NEW m, NEW n, TableTold(s, t, r, a, b, m, n),
           Builder(b), NEW i \in 0 .. Len(r) - 1, NEW e, e = ChangeModify(b, i)
    PROVE  TableTold(s, t, r, a, e, m \cup {r[i + 1]}, n + 1)
<1>1. Told(s, t, r, a, b, m, n) /\ b.moves = << >>
  BY DEF TableTold
<1>2. e.mod = b.mod \cup {i} /\ e.moves = b.moves
  BY DEF ChangeModify, Builder
<1>3. Told(s, t, r, a, e, m \cup {r[i + 1]}, n + 1)
  BY <1>1, <1>2, ToldModified
<1> QED
  BY <1>1, <1>2, <1>3 DEF TableTold

LEMMA ClearRowsTold ==
    ASSUME NEW s, NEW t, NEW r, NEW a, NEW b, NEW m, NEW n, TableTold(s, t, r, a, b, m, n),
           NEW e, e = [NoChange EXCEPT !.del = 0 .. Far]
    PROVE  TableTold(s, t, << >>, a, e, m, n + 1)
<1>1. e.mod = {} /\ e.moves = << >>
  BY DEF NoChange
<1>2. Told(s, t, << >>, a, e, m, n + 1)
  BY <1>1, ToldCleared DEF TableTold
<1> QED
  BY <1>1, <1>2 DEF TableTold

\* A run of the notifier of a table.
LEMMA RunTold ==
    ASSUME NEW s, NEW t, NEW r, NEW a, NEW b, NEW m, NEW n, TableTold(s, t, r, a, b, m, n),
           TableLog(b, Len(t), Len(r)), RowsFrom(b, t, r),
           NEW e, e = Merge(a, ParseComplete(b))
    PROVE  TableTold(s, r, r, e, NoChange, m, n)
<1>1. /\ Told(s, t, r, a, b, m, n) /\ b.moves = << >>
      /\ t \in Seq(Nat) /\ r \in Seq(Nat) /\ Distinct(r) /\ Distinct(t)
  BY TableToldFacts
<1>2. PICK c : c = ParseComplete(b)
  OBVIOUS
<1>3. Leads(c, t, r) /\ c.map = << >> /\ c.mod = b.mod
  BY <1>1, <1>2, ParsedLeads
<1>4. e = Merge(a, c)
  BY <1>2
<1>5. Told(s, r, r, e, NoChange, m, n)
  BY <1>1, <1>3, <1>4, ToldRun
<1> QED
  BY <1>5 DEF TableTold, NoChange

-----------------------------------------------------------------------------
(* Lists and tables, through every change and every run. *)
Given == Size + MaxOps - ops
Reported ==
    /\ ops \in 0 .. MaxOps
    /\ kind = "list" => ListTold(base, last, rows, acc, tx, touched, Given)
    /\ kind = "rows" => TableTold(base, last, rows, acc, tx, touched, Given)

LEMMA FirstReported == Init => Reported
<1> SUFFICES ASSUME Init PROVE Reported
  OBVIOUS
<1>1. Size \in Nat /\ MaxOps \in Nat
  BY CollectionChangesAssumption
<1>2. /\ rows = [i \in 1 .. Size |-> i] /\ tx = NoChange /\ acc = NoChange /\ touched = {}
      /\ ops = MaxOps /\ last = Collection /\ base = Collection
  BY DEF Init
<1>3. Given = Size /\ ops \in 0 .. MaxOps
  BY <1>1, <1>2 DEF Given
<1>4. KnownTo(rows, Size) /\ rows \in Seq(Nat)
  <2>1. rows \in Seq(Nat) /\ Len(rows) = Size /\ \A n \in 1 .. Size : rows[n] = n /\ n <= Size
    BY <1>1, <1>2
  <2> QED
    BY <2>1 DEF KnownTo, Distinct
<1>5. Told(rows, rows, rows, NoChange, NoChange, {}, Size)
  BY <1>1, <1>4, ToldFirst
<1>6. Leads(NoChange, rows, rows) /\ NoChange.map = << >> /\ NoChange.moves = << >>
  BY <1>4, NothingToTell DEF NoChange
<1>7. kind \in {"list", "rows"} => base = rows /\ last = rows
  BY <1>2 DEF Collection
<1> QED
  BY <1>2, <1>3, <1>5, <1>6, <1>7 DEF Reported, ListTold, TableTold

\* A change or a run of a list.
LEMMA ListStep ==
    ASSUME kind = "list", Reported, Next
    PROVE  ListTold(base', last', rows', acc', tx', touched', Given')
<1>0. Size \in Nat /\ MaxOps \in Nat /\ ops \in 0 .. MaxOps
  BY CollectionChangesAssumption DEF Reported
<1>1. PICK n : n = Given
  OBVIOUS
<1>2. ListTold(base, last, rows, acc, tx, touched, n)
  BY <1>1 DEF Reported
<1>3. Len(rows) \in Nat /\ rows \in Seq(Nat) /\ Distinct(rows) /\ last \in Seq(Nat) /\ Distinct(last)
  <2>1. Told(base, last, rows, acc, tx, touched, n)
    BY <1>2 DEF ListTold
  <2> QED
    BY <2>1, LenProperties DEF Told, KnownTo
<1>4. ops' = ops - 1 => Given' = n + 1
  BY <1>0, <1>1 DEF Given
<1>5. ops' = ops => Given' = n
  BY <1>1 DEF Given
<1>6. Fresh = n + 1
  BY <1>0, <1>1 DEF Given, Fresh
<1>7. ASSUME NEW i \in 0 .. Len(rows), InsertEntry(i)
      PROVE  ListTold(base', last', rows', acc', tx', touched', Given')
  <2>1. /\ rows' = InsertAt(rows, i + 1, n + 1) /\ tx' = ChangeInsert(tx, i) /\ ops' = ops - 1
        /\ base' = base /\ last' = last /\ acc' = acc /\ touched' = touched
    BY <1>6, <1>7 DEF InsertEntry, observed
  <2>2. ListTold(base, last, rows', acc, tx', touched, n + 1)
    BY <1>2, <2>1, ListInsert
  <2> QED
    BY <1>4, <2>1, <2>2
<1>8. ASSUME NEW i \in Positions(rows), EraseEntry(i)
      PROVE  ListTold(base', last', rows', acc', tx', touched', Given')
  <2>1. /\ rows' = RemoveAt(rows, i + 1) /\ tx' = ChangeErase(tx, i) /\ ops' = ops - 1
        /\ base' = base /\ last' = last /\ acc' = acc /\ touched' = touched
        /\ i \in 0 .. Len(rows) - 1
    BY <1>8 DEF EraseEntry, observed, Positions
  <2>2. ListTold(base, last, rows', acc, tx', touched, n + 1)
    BY <1>2, <2>1, ListErase
  <2> QED
    BY <1>4, <2>1, <2>2
<1>9. ASSUME NEW i \in Positions(rows), SetEntry(i)
      PROVE  ListTold(base', last', rows', acc', tx', touched', Given')
  <2>1. /\ rows' = rows /\ tx' = ChangeModify(tx, i) /\ ops' = ops - 1
        /\ base' = base /\ last' = last /\ acc' = acc /\ touched' = touched \cup {rows[i + 1]}
        /\ i \in 0 .. Len(rows) - 1
    BY <1>9 DEF SetEntry, observed, Positions, At
  <2>2. ListTold(base, last, rows, acc, tx', touched \cup {rows[i + 1]}, n + 1)
    BY <1>2, <2>1, ListSet
  <2> QED
    BY <1>4, <2>1, <2>2
<1>10. ASSUME NEW i \in Positions(rows), NEW j \in Positions(rows), MoveEntry(i, j)
       PROVE  ListTold(base', last', rows', acc', tx', touched', Given')
  <2>1. /\ rows' = InsertAt(RemoveAt(rows, i + 1), j + 1, rows[i + 1])
        /\ tx' = ChangeMove(tx, i, j) /\ ops' = ops - 1
        /\ base' = base /\ last' = last /\ acc' = acc /\ touched' = touched
        /\ i \in 0 .. Len(rows) - 1 /\ j \in 0 .. Len(rows) - 1
    BY <1>10 DEF MoveEntry, observed, Positions, At
  <2>2. ListTold(base, last, rows', acc, tx', touched, n + 1)
    BY <1>2, <2>1, ListMove
  <2> QED
    BY <1>4, <2>1, <2>2
<1>11. ASSUME NEW i \in Positions(rows), NEW j \in Positions(rows), SwapEntries(i, j)
       PROVE  ListTold(base', last', rows', acc', tx', touched', Given')
  <2>1. /\ rows' = Exchanged(rows, i + 1, j + 1) /\ i < j
        /\ tx' = IF i + 1 = j THEN ChangeMove(tx, i, j)
                 ELSE ChangeMove(ChangeMove(tx, i, j), j - 1, i)
        /\ ops' = ops - 1
        /\ base' = base /\ last' = last /\ acc' = acc /\ touched' = touched
        /\ i \in 0 .. Len(rows) - 1 /\ j \in 0 .. Len(rows) - 1
    BY <1>11 DEF SwapEntries, observed, Positions, At, Exchanged
  <2>2. PICK there : there = ChangeMove(tx, i, j)
    OBVIOUS
  <2>3. tx' = IF i + 1 = j THEN there ELSE ChangeMove(there, j - 1, i)
    BY <2>1, <2>2
  <2>4. ListTold(base, last, rows', acc, tx', touched, n + 1)
    BY <1>2, <2>1, <2>2, <2>3, ListSwap
  <2> QED
    BY <1>4, <2>1, <2>4
<1>12. CASE Clear
  <2>1. /\ rows' = << >> /\ tx' = ChangeClear(tx, Len(rows)) /\ ops' = ops - 1
        /\ base' = base /\ last' = last /\ acc' = acc /\ touched' = touched
    BY <1>12 DEF Clear, observed
  <2>2. ListTold(base, last, << >>, acc, tx', touched, n + 1)
    BY <1>2, <2>1, ListClear
  <2> QED
    BY <1>4, <2>1, <2>2
<1>13. CASE Run
  <2>1. /\ acc' = Merge(acc, CleanUpStaleMoves(tx)) /\ tx' = NoChange /\ last' = rows
        /\ rows' = rows /\ base' = base /\ touched' = touched /\ ops' = ops
    BY <1>13 DEF Run, RunChanges, Collection
  <2>2. PICK c : c = CleanUpStaleMoves(tx)
    OBVIOUS
  <2>3. Leads(c, last, rows) /\ c.mod = tx.mod /\ c.map = << >>
    <3>1. Leads(tx, last, rows) /\ tx.map = << >>
      BY <1>2 DEF ListTold
    <3> QED
      BY <1>3, <2>2, <3>1, CleanUpLeads
  <2>4. Told(base, rows, rows, acc', NoChange, touched, n)
    <3>1. Told(base, last, rows, acc, tx, touched, n)
      BY <1>2 DEF ListTold
    <3>2. acc' = Merge(acc, c)
      BY <2>1, <2>2
    <3> QED
      BY <2>3, <3>1, <3>2, ToldRun
  <2>5. Leads(NoChange, rows, rows) /\ NoChange.map = << >>
    BY <1>3, NothingToTell
  <2> QED
    BY <1>5, <2>1, <2>4, <2>5 DEF ListTold
<1>14. /\ ~AddRow
       /\ \A i, j : ~(DeleteRow(i) \/ ModifyRow(i) \/ SwapRows(i, j))
  BY DEF AddRow, DeleteRow, ModifyRow, SwapRows, IsTable
<1> QED
  BY <1>7, <1>8, <1>9, <1>10, <1>11, <1>12, <1>13, <1>14 DEF Next

\* A change or a run of a table.
LEMMA TableStep ==
    ASSUME kind = "rows", Reported, RowsTraced, Next
    PROVE  TableTold(base', last', rows', acc', tx', touched', Given')
<1>0. Size \in Nat /\ MaxOps \in Nat /\ ops \in 0 .. MaxOps
  BY CollectionChangesAssumption DEF Reported
<1>1. PICK n : n = Given
  OBVIOUS
<1>2. TableTold(base, last, rows, acc, tx, touched, n)
  BY <1>1 DEF Reported
<1>3. TableLog(tx, Len(last), Len(rows)) /\ RowsFrom(tx, last, rows) /\ Builder(tx)
  <2>1. Traced(rows, last, tx, ops)
    BY DEF RowsTraced
  <2>2. TableLog(tx, Len(last), Len(rows)) /\ Len(rows) \in Nat
    BY <2>1, LenProperties DEF Traced
  <2>3. RowsFrom(tx, last, rows)
    BY <2>1 DEF Traced, RowsFrom, Unknown
  <2> QED
    BY <2>2, <2>3 DEF TableLog
<1>4. ops' = ops - 1 => Given' = n + 1
  BY <1>0, <1>1 DEF Given
<1>5. ops' = ops => Given' = n
  BY <1>1 DEF Given
<1>6. Fresh = n + 1
  BY <1>0, <1>1 DEF Given, Fresh
<1>7. CASE AddRow
  <2>1. /\ rows' = Append(rows, n + 1) /\ tx' = ChangeInsert(tx, Len(rows)) /\ ops' = ops - 1
        /\ base' = base /\ last' = last /\ acc' = acc /\ touched' = touched
    BY <1>6, <1>7 DEF AddRow, observed
  <2>2. TableTold(base, last, rows', acc, tx', touched, n + 1)
    BY <1>2, <1>3, <2>1, AddRowTold
  <2> QED
    BY <1>4, <2>1, <2>2
<1>8. ASSUME NEW i \in Positions(rows), DeleteRow(i)
      PROVE  TableTold(base', last', rows', acc', tx', touched', Given')
  <2>1. /\ rows' = WithoutRow(rows, i) /\ tx' = ChangeMoveOver(tx, i, Len(rows) - 1)
        /\ ops' = ops - 1 /\ i \in 0 .. Len(rows) - 1
        /\ base' = base /\ last' = last /\ acc' = acc /\ touched' = touched
    BY <1>8 DEF DeleteRow, observed, Positions, WithoutRow
  <2>2. TableTold(base, last, rows', acc, tx', touched, n + 1)
    BY <1>2, <1>3, <2>1, DeleteRowTold
  <2> QED
    BY <1>4, <2>1, <2>2
<1>9. ASSUME NEW i \in Positions(rows), NEW j \in Positions(rows), SwapRows(i, j)
      PROVE  TableTold(base', last', rows', acc', tx', touched', Given')
  <2>1. /\ rows' = Exchanged(rows, i + 1, j + 1) /\ tx' = ChangeSwap(tx, i, j) /\ i < j
        /\ ops' = ops - 1 /\ i \in 0 .. Len(rows) - 1 /\ j \in 0 .. Len(rows) - 1
        /\ base' = base /\ last' = last /\ acc' = acc /\ touched' = touched
    BY <1>9 DEF SwapRows, observed, Positions, At, Exchanged
  <2>2. i # j
    <3>1. Len(rows) \in Nat
      BY <1>2, TableToldFacts
    <3> QED
      BY <2>1, <3>1
  <2>3. TableTold(base, last, rows', acc, tx', touched, n + 1)
    BY <1>2, <1>3, <2>1, <2>2, SwapRowsTold
  <2> QED
    BY <1>4, <2>1, <2>3
<1>10. ASSUME NEW i \in Positions(rows), ModifyRow(i)
       PROVE  TableTold(base', last', rows', acc', tx', touched', Given')
  <2>1. /\ rows' = rows /\ tx' = ChangeModify(tx, i) /\ ops' = ops - 1
        /\ i \in 0 .. Len(rows) - 1 /\ touched' = touched \cup {rows[i + 1]}
        /\ base' = base /\ last' = last /\ acc' = acc
    BY <1>10 DEF ModifyRow, observed, Positions, At
  <2>2. TableTold(base, last, rows, acc, tx', touched \cup {rows[i + 1]}, n + 1)
    BY <1>2, <1>3, <2>1, ModifyRowTold
  <2> QED
    BY <1>4, <2>1, <2>2
<1>11. CASE Clear
  <2>1. /\ rows' = << >> /\ tx' = [NoChange EXCEPT !.del = 0 .. Far] /\ ops' = ops - 1
        /\ base' = base /\ last' = last /\ acc' = acc /\ touched' = touched
    BY <1>11 DEF Clear, observed
  <2>2. TableTold(base, last, << >>, acc, tx', touched, n + 1)
    BY <1>2, <2>1, ClearRowsTold
  <2> QED
    BY <1>4, <2>1, <2>2
<1>12. CASE Run
  <2>1. /\ acc' = Merge(acc, ParseComplete(tx)) /\ tx' = NoChange /\ last' = rows
        /\ rows' = rows /\ base' = base /\ touched' = touched /\ ops' = ops
    BY <1>12 DEF Run, RunChanges, Collection
  <2>2. TableTold(base, rows, rows, acc', NoChange, touched, n)
    BY <1>2, <1>3, <2>1, RunTold
  <2> QED
    BY <1>5, <2>1, <2>2
<1>13. \A i, j : ~(InsertEntry(i) \/ EraseEntry(i) \/ SetEntry(i)
                   \/ MoveEntry(i, j) \/ SwapEntries(i, j))
  BY DEF InsertEntry, EraseEntry, SetEntry, MoveEntry, SwapEntries
<1> QED
  BY <1>7, <1>8, <1>9, <1>10, <1>11, <1>12, <1>13 DEF Next

LEMMA ReportedStep ==
    ASSUME Reported, RowsTraced, [Next]_vars
    PROVE  Reported'
<1>1. CASE UNCHANGED vars
  BY <1>1 DEF vars, Reported, Given
<1>2. CASE Next
  <2>1. kind' = kind /\ ops' \in {ops, ops - 1} /\ (ops' = ops - 1 => ops > 0 \/ ops' = ops)
    BY <1>2 DEF Next, observed, InsertEntry, EraseEntry, SetEntry, DeleteRow, ModifyRow,
           MoveEntry, SwapEntries, SwapRows, AddRow, Clear, Run, IsTable
  <2>2. ops' \in 0 .. MaxOps
    BY <2>1, CollectionChangesAssumption DEF Reported
  <2>3. kind = "list" => ListTold(base', last', rows', acc', tx', touched', Given')
    BY <1>2, ListStep
  <2>4. kind = "rows" => TableTold(base', last', rows', acc', tx', touched', Given')
    BY <1>2, TableStep
  <2> QED
    BY <2>1, <2>2, <2>3, <2>4 DEF Reported
<1> QED
  BY <1>1, <1>2

(* The inductive invariant: whatever is done to a list or to a table, and however
   its runs fall among the changes, what the notifier has accumulated leads from
   the callback's collection to that of the last run, and the log from there to
   the collection as it is (collection_change_builder.cpp:41-140, 142-332 and
   results_notifier.cpp, list_notifier.cpp: run and prepare_handover). *)
THEOREM AlwaysReported == Spec => []Reported
<1>1. Reported /\ RowsTraced /\ [Next]_vars => Reported'
  BY ReportedStep
<1> QED
  BY <1>1, FirstReported, TableRowsTraced, PTL DEF Spec

LEMMA ReportedTold ==
    ASSUME Reported, kind \in {"list", "rows"}
    PROVE  Told(base, last, rows, acc, tx, touched, Given)
BY DEF Reported, ListTold, TableTold

(* For a list and for a table of any size, after any changes and runs: the
   callback's collection without the deletions is the new one without the
   insertions, so that a table view may apply both
   (collection_change_builder.cpp:41-140, 174-332). *)
THEOREM ListAndTableLineUp == Spec => [](kind \in {"list", "rows"} => ChangesLineUp)
<1>1. Reported => (kind \in {"list", "rows"} => ChangesLineUp)
  BY ReportedTold, ToldLinesUp DEF ChangesLineUp
<1> QED
  BY <1>1, AlwaysReported, PTL

(* For a list and for a table: a move is one entry of the callback's collection,
   from where it was to where it is, deleted there and inserted here
   (collection_change_builder.cpp:52-90, 142-172, 268-332). *)
THEOREM ListAndTableMoves == Spec => [](kind \in {"list", "rows"} => MovesAreMoves)
<1>1. Reported => (kind \in {"list", "rows"} => MovesAreMoves)
  <2> SUFFICES ASSUME Reported, kind \in {"list", "rows"}
               PROVE  MovesAreMoves
    OBVIOUS
  <2>1. TrueMoves(acc, base, last)
    BY ReportedTold DEF Told, Leads
  <2> QED
    BY <2>1 DEF TrueMoves, TrueMove, MovesAreMoves, Positions, At
<1> QED
  BY <1>1, AlwaysReported, PTL

(* For a list and for a table: an entry touched since the callback's collection is
   marked as modified when a run has seen it, unless it is new, wherever moves,
   insertions and deletions took it (collection_change_builder.cpp:92-127,
   174-193, 227-332). *)
THEOREM ListAndTableModifications == Spec => [](kind \in {"list", "rows"} => ModificationsReported)
<1>1. Reported => (kind \in {"list", "rows"} => ModificationsReported)
  <2> SUFFICES ASSUME Reported, kind \in {"list", "rows"}, Ran
               PROVE  \A i \in Positions(last) : At(last, i) \in touched => i \in acc.mod \cup acc.ins
    BY DEF ModificationsReported
  <2>1. tx.mod = {} /\ last = rows
    BY DEF Ran, Collection, NoChange
  <2> QED
    BY <2>1, ReportedTold, ToldReported
<1> QED
  BY <1>1, AlwaysReported, PTL

(* For a list and for a table: the modified entries at their old positions are those
   at their new ones (collection_change_builder.cpp:862-887: finalize). *)
THEOREM ListAndTableAgree == Spec => [](kind \in {"list", "rows"} => OldAndNewAgree)
<1>1. Reported => (kind \in {"list", "rows"} => OldAndNewAgree)
  BY ReportedTold, ToldModifications DEF OldAndNewAgree
<1> QED
  BY <1>1, AlwaysReported, PTL
==============================================================================
