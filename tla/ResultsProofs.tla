---------------------------- MODULE ResultsProofs ----------------------------
(***************************************************************************)
(* Theorems about what a callback is told of a query and of sorted         *)
(* results.  calculate compares the rows of the last run, where they are   *)
(* now, with the rows there are: what it reports accounts for every row,   *)
(* in table order if no row was swapped, and in any other order always.    *)
(* From that follows the invariant of results, and with the one of lists   *)
(* and tables every safety property of the change sets.                    *)
(***************************************************************************)
EXTENDS ChangeProofs

-----------------------------------------------------------------------------
(* What calculate makes of two lists of rows.  next are the rows of the results now,
   old those that the results of the last run have become, or -1. *)

\* A row is listed once.
OnceEach(old) == \A i, j \in 1 .. Len(old) : old[i] = old[j] /\ old[i] # Gone => i = j

\* The row at i is the one at j.
SameRow(old, next, i, j) ==
    i \in 0 .. Len(old) - 1 /\ j \in 0 .. Len(next) - 1 /\ old[i + 1] = next[j + 1]

\* c tells how next came from old: the rows it does not delete are those it does
\* not insert, in the same order, and a move is one of a row.
Accounts(c, old, next) ==
    /\ Builder(c) /\ c.del \subseteq 0 .. Len(old) - 1 /\ c.ins \subseteq 0 .. Len(next) - 1
    /\ \A i \in 0 .. Len(old) - 1 : i \notin c.del =>
          \E j \in 0 .. Len(next) - 1 : j \notin c.ins /\ SameRow(old, next, i, j)
    /\ \A j \in 0 .. Len(next) - 1 : j \notin c.ins =>
          \E i \in 0 .. Len(old) - 1 : i \notin c.del /\ SameRow(old, next, i, j)
    /\ \A i, k \in 0 .. Len(old) - 1 : \A j, l \in 0 .. Len(next) - 1 :
          i \notin c.del /\ k \notin c.del /\ SameRow(old, next, i, j) /\ SameRow(old, next, k, l)
             /\ i < k => j < l
    /\ c.moves \in Seq(MovePairs)
    /\ \A k \in DOMAIN c.moves : /\ c.moves[k].from \in c.del /\ c.moves[k].to \in c.ins
                                 /\ SameRow(old, next, c.moves[k].from, c.moves[k].to)
    /\ \A j, k \in DOMAIN c.moves : c.moves[j].from = c.moves[k].from => j = k

\* f takes the members of C in order to those of D.
Counted(C, D, f) ==
    \A y, z \in Nat : (\A x \in C : f[x] < z <=> x < y) => CountIn(D, 0, z) = CountIn(C, 0, y)

LEMMA CountedIs ==
    ASSUME NEW C, PositionSet(C), NEW f \in [C -> Nat], NEW D, D = {f[x] : x \in C},
           \A x, y \in C : x < y => f[x] < f[y]
    PROVE  Counted(C, D, f)
<1> SUFFICES ASSUME NEW y \in Nat, NEW z \in Nat, \A x \in C : f[x] < z <=> x < y
             PROVE  CountIn(D, 0, z) = CountIn(C, 0, y)
  BY DEF Counted
<1> QED
  BY CountMapped

\* Rows in the same order stand where Follows says.
LEMMA AccountsFollow ==
    ASSUME NEW old, NEW next, Len(old) \in Nat, Len(next) \in Nat, Distinct(next), OnceEach(old),
           \A j \in 1 .. Len(next) : next[j] # Gone, NEW c, Accounts(c, old, next)
    PROVE  \A o \in Nat \ c.del : /\ o < Len(old) <=> Follows(c, o) < Len(next)
                                  /\ o < Len(old) => SameRow(old, next, o, Follows(c, o))
<1>0. PICK n, k : n = Len(old) /\ k = Len(next) /\ n \in Nat /\ k \in Nat
  OBVIOUS
<1>1. PICK C : C = {i \in 0 .. n - 1 : i \notin c.del}
  OBVIOUS
<1>2. PICK D : D = {j \in 0 .. k - 1 : j \notin c.ins}
  OBVIOUS
<1>3. Sets(c) /\ PositionSet(c.del) /\ PositionSet(c.ins)
  BY DEF Accounts, Builder, Sets
<1>4. PositionSet(C) /\ \A m \in 0 .. n : CountIn(C, 0, m) = Unshift(c.del, m)
  BY <1>0, <1>1, <1>3, CountMissing
<1>5. PositionSet(D) /\ \A m \in 0 .. k : CountIn(D, 0, m) = Unshift(c.ins, m)
  BY <1>0, <1>2, <1>3, CountMissing
<1>6. \A i \in C : \E j \in D : SameRow(old, next, i, j)
  BY <1>0, <1>1, <1>2 DEF Accounts
<1>7. PICK f : f = [i \in C |-> CHOOSE j \in D : SameRow(old, next, i, j)]
  OBVIOUS
<1>8. f \in [C -> D] /\ \A i \in C : f[i] \in D /\ SameRow(old, next, i, f[i])
  BY <1>6, <1>7
<1>9. C \subseteq Nat /\ D \subseteq Nat /\ C \subseteq 0 .. n - 1 /\ D \subseteq 0 .. k - 1
  BY <1>0, <1>1, <1>2
<1>10. f \in [C -> Nat]
  BY <1>8, <1>9
<1>11. \A x, y \in C : x < y => f[x] < f[y]
  <2> TAKE x \in C, y \in C
  <2>1. x \in 0 .. n - 1 /\ y \in 0 .. n - 1 /\ x \notin c.del /\ y \notin c.del
    BY <1>1
  <2>2. f[x] \in 0 .. k - 1 /\ f[y] \in 0 .. k - 1
    BY <1>8, <1>9
  <2> QED
    BY <1>0, <1>8, <2>1, <2>2 DEF Accounts
<1>12. D = {f[x] : x \in C}
  <2>1. ASSUME NEW j \in D
        PROVE  \E x \in C : f[x] = j
    <3>1. PICK i \in 0 .. n - 1 : i \notin c.del /\ SameRow(old, next, i, j)
      BY <1>0, <1>2, <2>1 DEF Accounts
    <3>2. i \in C /\ SameRow(old, next, i, f[i])
      BY <1>1, <1>8, <3>1
    <3>3. next[j + 1] = next[f[i] + 1] /\ j \in 0 .. k - 1 /\ f[i] \in 0 .. k - 1
      BY <1>0, <3>1, <3>2 DEF SameRow
    <3>4. j + 1 \in 1 .. Len(next) /\ f[i] + 1 \in 1 .. Len(next)
      BY <1>0, <3>3
    <3>5. j + 1 = f[i] + 1
      BY <3>3, <3>4 DEF Distinct
    <3> QED
      BY <1>0, <3>2, <3>3, <3>5
  <2> QED
    BY <1>8, <2>1
<1>13. \A x, y \in C : f[x] < f[y] <=> x < y
  BY <1>9, <1>10, <1>11
<1>16. Counted(C, D, f)
  <2>1. PositionSet(C)
    BY <1>4
  <2> QED
    BY <1>10, <1>11, <1>12, <2>1, CountedIs
<1>14. ASSUME NEW o \in C
       PROVE  Follows(c, o) = f[o]
  <2>1. CountIn(D, 0, f[o]) = CountIn(C, 0, o)
    <3>1. f[o] \in Nat /\ o \in Nat
      BY <1>9, <1>10
    <3>2. \A x \in C : f[x] < f[o] <=> x < o
      BY <1>13
    <3> QED
      BY <1>16, <3>1, <3>2 DEF Counted
  <2>2. o \in 0 .. n /\ f[o] \in 0 .. k /\ f[o] \notin c.ins /\ f[o] \in Nat /\ o \in Nat
    BY <1>0, <1>2, <1>8, <1>9
  <2>3. Unshift(c.ins, f[o]) = Unshift(c.del, o)
    BY <1>4, <1>5, <2>1, <2>2
  <2> QED
    BY <1>3, <2>2, <2>3, FollowsIs
<1>15. Unshift(c.ins, k) = Unshift(c.del, n)
  <2>1. \A x \in C : f[x] < k <=> x < n
    <3> TAKE x \in C
    <3>1. f[x] \in 0 .. k - 1 /\ x \in 0 .. n - 1
      BY <1>8, <1>9
    <3> QED
      BY <1>0, <3>1
  <2>2. CountIn(D, 0, k) = CountIn(C, 0, n)
    BY <1>0, <1>16, <2>1 DEF Counted
  <2>3. n \in 0 .. n /\ k \in 0 .. k
    BY <1>0
  <2> QED
    BY <1>4, <1>5, <2>2, <2>3
<1> SUFFICES ASSUME NEW o \in Nat \ c.del
             PROVE  /\ o < n <=> Follows(c, o) < k
                    /\ o < n => SameRow(old, next, o, Follows(c, o))
  BY <1>0
<1>17. CASE o < n
  <2>1. o \in C
    BY <1>0, <1>1, <1>17
  <2>2. Follows(c, o) = f[o] /\ f[o] \in 0 .. k - 1
    BY <1>8, <1>9, <1>14, <2>1
  <2>3. Follows(c, o) < k
    BY <1>0, <2>2
  <2> QED
    BY <1>8, <1>17, <2>1, <2>2, <2>3
<1>18. CASE ~(o < n)
  <2>1. Unshift(c.del, o) \in Nat /\ Unshift(c.del, n) \in Nat
    BY <1>0, <1>3, CountFacts
  <2>2. ~(Unshift(c.del, o) < Unshift(c.del, n))
    <3>1. CASE o = n
      BY <2>1, <3>1
    <3>2. CASE n < o
      <4>1. /\ CountIn(c.del, 0, o) - CountIn(c.del, 0, n) <= o - n
            /\ CountIn(c.del, 0, o) \in Nat /\ CountIn(c.del, 0, n) \in Nat
            /\ Unshift(c.del, o) = o - CountIn(c.del, 0, o) /\ Unshift(c.del, n) = n - CountIn(c.del, 0, n)
        BY <1>0, <1>3, <3>2, CountBetween, CountFacts
      <4> QED
        BY <1>0, <2>1, <4>1
    <3> QED
      BY <1>0, <1>18, <3>1, <3>2
  <2>3. Follows(c, o) < k <=> Unshift(c.del, o) < Unshift(c.ins, k)
    BY <1>0, <1>3, <2>1, ShiftBelow DEF Follows
  <2> QED
    BY <1>15, <1>18, <2>2, <2>3
<1> QED
  BY <1>17, <1>18

\* The entry at j is one that was there: it is not reported inserted, or as the end
\* of a move.
Keeps(c, j) == j \notin c.ins \/ \E k \in DOMAIN c.moves : c.moves[k].to = j

\* t and u number the rows of old and of next: one that c keeps keeps its number,
\* one it inserts has a new one, above n.
Numbered(t, u, c, old, next, n) ==
    /\ t \in Seq(Nat) /\ Len(t) = Len(old) /\ \A k \in 1 .. Len(t) : t[k] <= n
    /\ u \in Seq(Nat) /\ Len(u) = Len(next)
    /\ \A j \in 0 .. Len(next) - 1 :
          IF Keeps(c, j) THEN \E i \in 0 .. Len(old) - 1 : SameRow(old, next, i, j) /\ u[j + 1] = t[i + 1]
                         ELSE u[j + 1] = n + j + 1

LEMMA SameRowOnce ==
    ASSUME NEW old, NEW next, Len(old) \in Nat, OnceEach(old),
           \A j \in 1 .. Len(next) : next[j] # Gone, Len(next) \in Nat,
           NEW i, NEW k, NEW j, SameRow(old, next, i, j), SameRow(old, next, k, j)
    PROVE  i = k
<1>1. i \in 0 .. Len(old) - 1 /\ k \in 0 .. Len(old) - 1 /\ j \in 0 .. Len(next) - 1
  BY DEF SameRow
<1>2. i + 1 \in 1 .. Len(old) /\ k + 1 \in 1 .. Len(old) /\ j + 1 \in 1 .. Len(next)
  BY <1>1
<1>3. old[i + 1] = old[k + 1] /\ old[i + 1] # Gone
  BY <1>2 DEF SameRow
<1>4. i + 1 = k + 1
  BY <1>2, <1>3 DEF OnceEach
<1> QED
  BY <1>1, <1>4

LEMMA AccountsLead ==
    ASSUME NEW old, NEW next, Len(old) \in Nat, Len(next) \in Nat, Distinct(next), OnceEach(old),
           \A j \in 1 .. Len(next) : next[j] # Gone, NEW c, Accounts(c, old, next),
           NEW n \in Nat, NEW t, NEW u, Numbered(t, u, c, old, next, n)
    PROVE  Leads(c, t, u)
<1>1. Builder(c) /\ Sets(c)
  BY DEF Accounts, Builder
<1>2. Len(t) = Len(old) /\ Len(u) = Len(next) /\ t \in Seq(Nat) /\ u \in Seq(Nat)
  BY DEF Numbered
<1>3. ASSUME NEW i, NEW j, SameRow(old, next, i, j), Keeps(c, j)
      PROVE  u[j + 1] = t[i + 1]
  <2>1. j \in 0 .. Len(next) - 1
    BY <1>3 DEF SameRow
  <2>2. PICK k \in 0 .. Len(old) - 1 : SameRow(old, next, k, j) /\ u[j + 1] = t[k + 1]
    BY <1>3, <2>1 DEF Numbered
  <2>3. i = k
    BY <1>3, <2>2, SameRowOnce
  <2> QED
    BY <2>2, <2>3
<1>4. Aligned(c, t, u)
  <2> SUFFICES ASSUME NEW o \in Nat \ c.del
               PROVE  /\ o < Len(t) <=> Follows(c, o) < Len(u)
                      /\ o < Len(t) => t[o + 1] = u[Follows(c, o) + 1]
    BY DEF Aligned
  <2>1. /\ o < Len(old) <=> Follows(c, o) < Len(next)
        /\ o < Len(old) => SameRow(old, next, o, Follows(c, o))
    BY AccountsFollow
  <2>2. Follows(c, o) \notin c.ins
    BY <1>1, FollowsFacts
  <2>3. Keeps(c, Follows(c, o))
    BY <2>2 DEF Keeps
  <2> QED
    BY <1>2, <1>3, <2>1, <2>3
<1>5. TrueMoves(c, t, u)
  <2>1. ASSUME NEW k \in DOMAIN c.moves
        PROVE  TrueMove(c, c.moves[k], t, u)
    <3>1. PICK f, g : f = c.moves[k].from /\ g = c.moves[k].to
      OBVIOUS
    <3>2. f \in c.del /\ g \in c.ins /\ SameRow(old, next, f, g)
      BY <2>1, <3>1 DEF Accounts
    <3>3. Keeps(c, g)
      BY <2>1, <3>1 DEF Keeps
    <3>4. f \in 0 .. Len(t) - 1 /\ g \in 0 .. Len(u) - 1
      BY <1>2, <3>2 DEF SameRow
    <3>5. t[f + 1] = u[g + 1]
      BY <1>3, <3>2, <3>3
    <3> QED
      BY <3>1, <3>2, <3>4, <3>5 DEF TrueMove
  <2> QED
    BY <2>1 DEF TrueMoves, Accounts
<1>6. InsertionsTold(c, t, u)
  <2> SUFFICES ASSUME NEW i \in c.ins
               PROVE  /\ i < Len(u)
                      /\ Unknown(u[i + 1], t) \/ \E k \in DOMAIN c.moves : c.moves[k].to = i
    BY DEF InsertionsTold
  <2>1. i \in 0 .. Len(next) - 1
    BY DEF Accounts
  <2>2. i < Len(u)
    BY <1>2, <2>1
  <2>3. ASSUME ~Keeps(c, i)
        PROVE  Unknown(u[i + 1], t)
    <3>1. u[i + 1] = n + i + 1
      BY <2>1, <2>3 DEF Numbered
    <3> SUFFICES ASSUME NEW k \in 1 .. Len(t), t[k] = u[i + 1]
                 PROVE  FALSE
      BY DEF Unknown
    <3>2. t[k] <= n
      BY DEF Numbered
    <3> QED
      BY <2>1, <3>1, <3>2
  <2> QED
    BY <2>2, <2>3 DEF Keeps
<1> QED
  BY <1>1, <1>4, <1>5, <1>6 DEF Leads

-----------------------------------------------------------------------------
(* Results in table order, one row after the other. *)

\* The rows that are in both, in the order they are in now: those of old are not
\* deleted or removed, those of next are not inserted.
KeptRows(kept, old, next, deleted, removed, ins) ==
    /\ Len(kept) \in Nat /\ DOMAIN kept = 1 .. Len(kept)
    /\ PositionSet(deleted) /\ PositionSet(removed) /\ PositionSet(ins) /\ deleted \cap removed = {}
    /\ deleted \cup removed \subseteq 0 .. Len(old) - 1 /\ ins \subseteq 0 .. Len(next) - 1
    /\ \A n \in 1 .. Len(kept) :
          /\ kept[n].at \in 0 .. Len(next) - 1 /\ kept[n].at \notin ins
          /\ kept[n].was \in 0 .. Len(old) - 1 /\ kept[n].was \notin deleted \cup removed
          /\ SameRow(old, next, kept[n].was, kept[n].at)
          /\ kept[n].shifted = Unshift(deleted, kept[n].was)
          /\ kept[n].index = next[kept[n].at + 1]
    /\ \A m, n \in 1 .. Len(kept) : m < n => kept[m].at < kept[n].at
    /\ \A m, n \in 1 .. Len(kept) : kept[m].was = kept[n].was => m = n
    /\ \A j \in 0 .. Len(next) - 1 : j \notin ins => \E n \in 1 .. Len(kept) : kept[n].at = j
    /\ \A i \in 0 .. Len(old) - 1 :
          i \notin deleted \cup removed => \E n \in 1 .. Len(kept) : kept[n].was = i

\* The rows after the mth were after it before.
Before(kept, m) == \A k \in m + 1 .. Len(kept) : kept[m].was < kept[k].was

\* A row that cannot have moved is before those after it as it was.
Settled(kept, candidates) ==
    \A n \in 1 .. Len(kept) : kept[n].index \notin candidates => Before(kept, n)

Placing == [expected : Nat, ins : SUBSET Nat, del : SUBSET Nat, moves : Seq(MovePairs)]

\* After the first n rows: those in M were moves, the others are in their order.
PlacedTo(x, n, M, kept, removed, ins, candidates) ==
    /\ x \in Placing /\ M \subseteq 1 .. n
    /\ x.ins = ins \cup {kept[m].at : m \in M}
    /\ x.del = removed \cup {kept[m].was : m \in M}
    /\ \A k \in DOMAIN x.moves : \E m \in M : /\ x.moves[k].from = kept[m].was
                                             /\ x.moves[k].to = kept[m].at
    /\ \A j, k \in DOMAIN x.moves : x.moves[j].from = x.moves[k].from => j = k
    /\ x.expected = 0 \/ \E m \in 1 .. n : m \notin M /\ x.expected = kept[m].shifted + 1
    /\ Settled(kept, candidates) => \A m \in 1 .. n : m \notin M => Before(kept, m)

LEMMA OntoAsMany ==
    ASSUME NEW P, IsFiniteSet(P), NEW Q, IsFiniteSet(Q), Cardinality(P) = Cardinality(Q),
           NEW f \in [P -> Q], \A x, y \in P : f[x] = f[y] => x = y
    PROVE  \A q \in Q : \E p \in P : f[p] = q
<1>1. f \in Injection(P, Q)
  BY DEF Injection, IsInjective
<1>2. f \in Surjection(P, Q)
  BY <1>1, FS_Injection
<1> QED
  BY <1>2 DEF Surjection

LEMMA KeptRow ==
    ASSUME NEW kept, NEW old, NEW next, NEW deleted, NEW removed, NEW ins,
           Len(old) \in Nat, Len(next) \in Nat,
           KeptRows(kept, old, next, deleted, removed, ins), NEW n \in 1 .. Len(kept)
    PROVE  /\ kept[n].at \in Nat /\ kept[n].was \in Nat /\ kept[n].was \notin deleted
           /\ kept[n].shifted \in Nat /\ kept[n].shifted = Unshift(deleted, kept[n].was)
           /\ kept[n].at \notin ins /\ kept[n].at \in 0 .. Len(next) - 1
           /\ kept[n].was \in 0 .. Len(old) - 1 /\ kept[n].was \notin removed
<1>1. /\ kept[n].at \in 0 .. Len(next) - 1 /\ kept[n].at \notin ins
      /\ kept[n].was \in 0 .. Len(old) - 1 /\ kept[n].was \notin deleted \cup removed
      /\ kept[n].shifted = Unshift(deleted, kept[n].was) /\ PositionSet(deleted)
  BY DEF KeptRows
<1>2. kept[n].at \in Nat /\ kept[n].was \in Nat
  BY <1>1
<1> QED
  BY <1>1, <1>2, CountFacts

\* A row that is where the one before it leaves it was before all that follow.
LEMMA ExpectedRow ==
    ASSUME NEW kept, NEW old, NEW next, NEW deleted, NEW removed, NEW ins,
           Len(old) \in Nat, Len(next) \in Nat,
           KeptRows(kept, old, next, deleted, removed, ins),
           NEW n \in Nat, n + 1 <= Len(kept), NEW M,
           \A m \in 1 .. n : m \notin M => Before(kept, m),
           NEW e, e = 0 \/ \E m \in 1 .. n : m \notin M /\ e = kept[m].shifted + 1,
           kept[n + 1].shifted = e
    PROVE  Before(kept, n + 1)
<1>0. Len(kept) \in Nat /\ n + 1 \in 1 .. Len(kept) /\ PositionSet(deleted)
  BY DEF KeptRows
<1> SUFFICES ASSUME NEW k \in n + 1 + 1 .. Len(kept)
             PROVE  kept[n + 1].was < kept[k].was
  BY DEF Before
<1>1. k \in 1 .. Len(kept) /\ k # n + 1
  BY <1>0
<1>2. PICK w, v : w = kept[n + 1].was /\ v = kept[k].was
  OBVIOUS
<1>3. /\ w \in Nat /\ w \notin deleted /\ e = Unshift(deleted, w)
      /\ v \in Nat /\ v \notin deleted /\ e \in Nat /\ Unshift(deleted, v) \in Nat
  BY <1>0, <1>1, <1>2, KeptRow
<1>4. v # w
  BY <1>0, <1>1, <1>2 DEF KeptRows
<1>5. w < v <=> Unshift(deleted, w) < Unshift(deleted, v)
  BY <1>0, <1>3, UnshiftOrder
<1>6. v = w <=> Unshift(deleted, w) = Unshift(deleted, v)
  BY <1>0, <1>3, UnshiftOrder
<1>7. CASE e = 0
  <2>1. Unshift(deleted, w) # Unshift(deleted, v)
    BY <1>4, <1>6
  <2> QED
    BY <1>2, <1>3, <1>5, <1>7, <2>1
<1>8. CASE e # 0
  <2>1. PICK m \in 1 .. n : m \notin M /\ e = kept[m].shifted + 1
    BY <1>8
  <2>2. Before(kept, m) /\ m \in 1 .. Len(kept) /\ k \in m + 1 .. Len(kept)
    BY <1>0, <2>1
  <2>3. kept[m].was < v
    BY <1>2, <2>2 DEF Before
  <2>4. PICK q : q = kept[m].was
    OBVIOUS
  <2>5. q \in Nat /\ q \notin deleted /\ kept[m].shifted = Unshift(deleted, q) /\ Unshift(deleted, q) \in Nat
    BY <2>2, <2>4, KeptRow
  <2>6. Unshift(deleted, q) < Unshift(deleted, v)
    BY <1>0, <1>3, <2>3, <2>4, <2>5, UnshiftOrder
  <2>7. ~(Unshift(deleted, v) < Unshift(deleted, w))
    BY <1>3, <2>1, <2>5, <2>6
  <2>8. Unshift(deleted, w) # Unshift(deleted, v)
    BY <1>4, <1>6
  <2>9. Unshift(deleted, w) < Unshift(deleted, v)
    BY <1>3, <2>7, <2>8
  <2> QED
    BY <1>2, <1>5, <2>9
<1> QED
  BY <1>7, <1>8

\* As many positions before w are in neither S nor D as there are before a not in I.
AsManyLeft(S, D, w, I, a) ==
    PositionSet(S \cup D) /\ Unshift(S \cup D, w) = Unshift(I, a)

LEMMA PlaceCounts ==
    ASSUME NEW S, PositionSet(S), NEW D, PositionSet(D), S \cap D = {}, NEW I, PositionSet(I),
           NEW w \in Nat, NEW a \in Nat,
           Unshift(S, w) = a - CountIn(I, 0, a) + CountIn(D, 0, w)
    PROVE  AsManyLeft(S, D, w, I, a)
<1>1. PositionSet(S \cup D) /\ CountIn(S \cup D, 0, w) = CountIn(S, 0, w) + CountIn(D, 0, w)
  BY CountUnion
<1>2. CountIn(I, 0, a) \in Nat /\ CountIn(D, 0, w) \in Nat /\ CountIn(S, 0, w) \in Nat
  BY CountFacts
<1> QED
  BY <1>1, <1>2 DEF Unshift, AsManyLeft

\* The place of a row: as many kept rows are before it as were.
LEMMA RowInPlace ==
    ASSUME NEW kept, NEW old, NEW next, NEW deleted, NEW removed, NEW ins,
           Len(old) \in Nat, Len(next) \in Nat,
           KeptRows(kept, old, next, deleted, removed, ins),
           NEW n \in Nat, n + 1 <= Len(kept), NEW M, M \subseteq 1 .. n,
           \A m \in 1 .. n : m \notin M => Before(kept, m),
           NEW I, PositionSet(I), I = ins \cup {kept[m].at : m \in M},
           NEW D, PositionSet(D), D = removed \cup {kept[m].was : m \in M},
           kept[n + 1].shifted = kept[n + 1].at - CountIn(I, 0, kept[n + 1].at)
                                                + CountIn(D, 0, kept[n + 1].was)
    PROVE  Before(kept, n + 1)
<1>0. /\ Len(kept) \in Nat /\ n + 1 \in 1 .. Len(kept) /\ PositionSet(deleted)
      /\ M \subseteq 1 .. Len(kept)
  BY DEF KeptRows
<1>1. PICK w, a : w = kept[n + 1].was /\ a = kept[n + 1].at
  OBVIOUS
<1>2. /\ w \in Nat /\ a \in Nat /\ w \in 0 .. Len(old) - 1 /\ a \in 0 .. Len(next) - 1
      /\ kept[n + 1].shifted = Unshift(deleted, w)
  BY <1>0, <1>1, KeptRow
<1>3. deleted \cap D = {}
  <2>1. \A m \in M : kept[m].was \notin deleted
    BY <1>0, KeptRow
  <2>2. deleted \cap removed = {}
    BY DEF KeptRows
  <2> QED
    BY <2>1, <2>2
<1>4. PICK G : G = deleted \cup D
  OBVIOUS
<1>5. PositionSet(G) /\ Unshift(G, w) = Unshift(I, a)
  <2>1. Unshift(deleted, w) = a - CountIn(I, 0, a) + CountIn(D, 0, w)
    BY <1>1, <1>2
  <2>2. PositionSet(deleted) /\ w \in Nat /\ a \in Nat
    BY <1>0, <1>2
  <2>3. AsManyLeft(deleted, D, w, I, a)
    BY <1>3, <2>1, <2>2, PlaceCounts
  <2> QED
    BY <1>4, <2>3 DEF AsManyLeft
<1>7. PICK C : C = {i \in 0 .. Len(old) - 1 : i \notin G}
  OBVIOUS
<1>8. PICK E : E = {j \in 0 .. Len(next) - 1 : j \notin I}
  OBVIOUS
<1>9. PositionSet(C) /\ CountIn(C, 0, w) = Unshift(G, w)
  <2>1. w \in 0 .. Len(old)
    BY <1>2
  <2> QED
    BY <1>5, <1>7, <2>1, CountMissing
<1>10. PositionSet(E) /\ CountIn(E, 0, a) = Unshift(I, a)
  <2>1. a \in 0 .. Len(next)
    BY <1>2
  <2> QED
    BY <1>8, <2>1, CountMissing
<1>11. PICK Q, P : Q = {x \in C : 0 <= x /\ x < w} /\ P = {x \in E : 0 <= x /\ x < a}
  OBVIOUS
<1>12. IsFiniteSet(P) /\ IsFiniteSet(Q) /\ Cardinality(P) = Cardinality(Q)
  <2>1. IsFiniteSet(P) /\ IsFiniteSet(Q)
    BY <1>9, <1>10, <1>11, FS_Subset DEF PositionSet
  <2> QED
    BY <1>5, <1>9, <1>10, <1>11, <2>1 DEF CountIn
\* The row at a position of P, and that it was before.
<1>13. ASSUME NEW p \in P
       PROVE  \E k \in 1 .. n : k \notin M /\ kept[k].at = p
  <2>1. p \in 0 .. Len(next) - 1 /\ p \notin I /\ p < a
    BY <1>8, <1>11
  <2>2. PICK k \in 1 .. Len(kept) : kept[k].at = p
    BY <2>1 DEF KeptRows
  <2>3. k \notin M
    BY <2>1, <2>2
  <2>4. ~(k > n)
    <3>1. k > n => k = n + 1 \/ n + 1 < k
      BY <1>0
    <3>2. n + 1 < k => a < p
      BY <1>0, <1>1, <2>2 DEF KeptRows
    <3>3. p \in Nat
      BY <2>1
    <3> QED
      BY <1>1, <1>2, <2>1, <2>2, <3>1, <3>2, <3>3
  <2> QED
    BY <1>0, <2>2, <2>3, <2>4
<1>14. PICK g : g = [p \in P |-> CHOOSE k \in 1 .. n : k \notin M /\ kept[k].at = p]
  OBVIOUS
<1>15. \A p \in P : g[p] \in 1 .. n /\ g[p] \notin M /\ kept[g[p]].at = p
  BY <1>13, <1>14
<1>16. PICK f : f = [p \in P |-> kept[g[p]].was]
  OBVIOUS
<1>17. ASSUME NEW p \in P
       PROVE  f[p] \in Q
  <2>1. PICK k : k = g[p]
    OBVIOUS
  <2>2. k \in 1 .. n /\ k \notin M /\ k \in 1 .. Len(kept)
    BY <1>0, <1>15, <2>1
  <2>3. /\ kept[k].was \in 0 .. Len(old) - 1 /\ kept[k].was \notin deleted
        /\ kept[k].was \notin removed
    BY <2>2, KeptRow
  <2>4. \A m \in M : kept[m].was # kept[k].was
    BY <1>0, <2>2 DEF KeptRows
  <2>5. kept[k].was \in C
    BY <1>4, <1>7, <2>3, <2>4
  <2>6. kept[k].was < w
    <3>1. Before(kept, k) /\ n + 1 \in k + 1 .. Len(kept)
      BY <1>0, <2>2
    <3> QED
      BY <1>1, <3>1 DEF Before
  <2>7. 0 <= kept[k].was
    BY <2>3
  <2> QED
    BY <1>11, <1>16, <2>1, <2>5, <2>6, <2>7
<1>18. f \in [P -> Q]
  BY <1>16, <1>17
<1>19. \A x, y \in P : f[x] = f[y] => x = y
  <2> TAKE x \in P, y \in P
  <2>1. g[x] \in 1 .. Len(kept) /\ g[y] \in 1 .. Len(kept)
    BY <1>0, <1>15
  <2>2. f[x] = kept[g[x]].was /\ f[y] = kept[g[y]].was
    BY <1>16
  <2>4. \A m, k \in 1 .. Len(kept) : kept[m].was = kept[k].was => m = k
    BY DEF KeptRows
  <2>3. f[x] = f[y] => g[x] = g[y]
    BY <2>1, <2>2, <2>4
  <2> QED
    BY <1>15, <2>3
<1>20. \A q \in Q : \E p \in P : f[p] = q
  BY <1>12, <1>18, <1>19, OntoAsMany
<1> SUFFICES ASSUME NEW k \in n + 1 + 1 .. Len(kept)
             PROVE  w < kept[k].was
  BY <1>1 DEF Before
<1>21. k \in 1 .. Len(kept) /\ k # n + 1 /\ k \notin 1 .. n /\ k \notin M
  BY <1>0
<1>22. PICK v : v = kept[k].was
  OBVIOUS
<1>23. /\ v \in Nat /\ v \in 0 .. Len(old) - 1 /\ v \notin deleted /\ v \notin removed
  BY <1>21, <1>22, KeptRow
<1>24. v # w
  BY <1>0, <1>1, <1>21, <1>22 DEF KeptRows
<1>25. \A m \in M : kept[m].was # v
  BY <1>0, <1>21, <1>22 DEF KeptRows
<1>26. v \in C
  BY <1>4, <1>7, <1>23, <1>25
<1>27. ~(v < w)
  <2> SUFFICES ASSUME v < w
               PROVE  FALSE
    OBVIOUS
  <2>1. v \in Q
    BY <1>11, <1>23, <1>26
  <2>2. PICK p \in P : f[p] = v
    BY <1>20, <2>1
  <2>3. g[p] \in 1 .. n /\ kept[g[p]].was = v /\ g[p] \in 1 .. Len(kept)
    BY <1>0, <1>15, <1>16, <2>2
  <2>4. g[p] = k
    BY <1>21, <1>22, <2>3 DEF KeptRows
  <2> QED
    BY <1>21, <2>3, <2>4
<1> QED
  BY <1>2, <1>22, <1>23, <1>24, <1>27

Stays(x, row, y) ==
    y.ins = x.ins /\ y.del = x.del /\ y.moves = x.moves /\ y.expected = row.shifted + 1
Goes(x, row, y) ==
    /\ y.ins = x.ins \cup {row.at} /\ y.del = x.del \cup {row.was}
    /\ y.moves = Append(x.moves, [from |-> row.was, to |-> row.at]) /\ y.expected = x.expected
InPlace(x, row) == row.shifted = row.at - CountIn(x.ins, 0, row.at) + CountIn(x.del, 0, row.was)

Placed(x, row, candidates, y) ==
    /\ y \in Placing
    /\ \/ Goes(x, row, y)
       \/ Stays(x, row, y) /\ (row.shifted = x.expected \/ row.index \notin candidates \/ InPlace(x, row))

LEMMA PlaceRowIs ==
    ASSUME NEW x \in Placing, NEW row, row.at \in Nat, row.was \in Nat, row.shifted \in Nat,
           NEW candidates, NEW y, y = PlaceRow(x, row, candidates)
    PROVE  Placed(x, row, candidates, y)
<1>1. /\ x.expected \in Nat /\ x.ins \subseteq Nat /\ x.del \subseteq Nat
      /\ x.moves \in Seq(MovePairs)
      /\ DOMAIN x = {"expected", "ins", "del", "moves"}
  BY DEF Placing
<1>2. Append(x.moves, [from |-> row.was, to |-> row.at]) \in Seq(MovePairs)
  <2>1. [from |-> row.was, to |-> row.at] \in MovePairs
    BY DEF MovePairs
  <2> QED
    BY <1>1, <2>1
<1>3. CASE row.shifted = x.expected
  <2>1. y = [x EXCEPT !.expected = x.expected + 1]
    BY <1>3 DEF PlaceRow
  <2>2. y \in Placing /\ Stays(x, row, y)
    BY <1>1, <1>3, <2>1 DEF Placing, Stays
  <2> QED
    BY <1>3, <2>2 DEF Placed
<1>4. CASE row.shifted # x.expected /\ (row.index \notin candidates \/ InPlace(x, row))
  <2>1. y = [x EXCEPT !.expected = row.shifted + 1]
    BY <1>4 DEF PlaceRow, InPlace
  <2>2. y \in Placing /\ Stays(x, row, y)
    BY <1>1, <2>1 DEF Placing, Stays
  <2> QED
    BY <1>4, <2>2 DEF Placed
<1>5. CASE row.shifted # x.expected /\ row.index \in candidates /\ ~InPlace(x, row)
  <2>1. y = [x EXCEPT !.ins = x.ins \cup {row.at}, !.del = x.del \cup {row.was},
                      !.moves = Append(x.moves, [from |-> row.was, to |-> row.at])]
    BY <1>5 DEF PlaceRow, InPlace
  <2>2. Goes(x, row, y)
    BY <1>1, <2>1 DEF Goes
  <2>3. y \in Placing
    <3>1. y = [expected |-> x.expected, ins |-> x.ins \cup {row.at}, del |-> x.del \cup {row.was},
               moves |-> Append(x.moves, [from |-> row.was, to |-> row.at])]
      BY <1>1, <2>1 DEF Placing
    <3>2. x.ins \cup {row.at} \in SUBSET Nat /\ x.del \cup {row.was} \in SUBSET Nat
      BY <1>1
    <3> QED
      BY <1>1, <1>2, <3>1, <3>2 DEF Placing
  <2> QED
    BY <2>2, <2>3 DEF Placed
<1> QED
  BY <1>3, <1>4, <1>5

LEMMA PlaceStep ==
    ASSUME NEW kept, NEW old, NEW next, NEW deleted, NEW removed, NEW ins,
           Len(old) \in Nat, Len(next) \in Nat,
           KeptRows(kept, old, next, deleted, removed, ins), NEW candidates,
           NEW n \in Nat, n + 1 <= Len(kept), NEW x, NEW M,
           PlacedTo(x, n, M, kept, removed, ins, candidates),
           NEW y, y = PlaceRow(x, kept[n + 1], candidates)
    PROVE  \E N : PlacedTo(y, n + 1, N, kept, removed, ins, candidates)
<1>0. Len(kept) \in Nat /\ n + 1 \in 1 .. Len(kept)
  BY DEF KeptRows
<1>1. PICK row : row = kept[n + 1]
  OBVIOUS
<1>2. /\ row.at \in Nat /\ row.was \in Nat /\ row.shifted \in Nat
  BY <1>0, <1>1, KeptRow
<1>3. x \in Placing /\ M \subseteq 1 .. n /\ M \subseteq 1 .. Len(kept) /\ n + 1 \notin M
  BY <1>0 DEF PlacedTo
<1>4. Placed(x, row, candidates, y)
  BY <1>1, <1>2, <1>3, PlaceRowIs
<1>5. y \in Placing
  BY <1>4 DEF Placed
<1>6. CASE Goes(x, row, y)
  <2>1. PICK N : N = M \cup {n + 1}
    OBVIOUS
  <2>2. N \subseteq 1 .. n + 1 /\ \A m \in 1 .. n + 1 : m \notin N => m \in 1 .. n /\ m \notin M
    BY <1>3, <2>1
  <2>3. y.ins = ins \cup {kept[m].at : m \in N}
    <3>1. x.ins = ins \cup {kept[m].at : m \in M}
      BY DEF PlacedTo
    <3>2. y.ins = x.ins \cup {kept[n + 1].at}
      BY <1>1, <1>6 DEF Goes
    <3> QED
      BY <2>1, <3>1, <3>2
  <2>4. y.del = removed \cup {kept[m].was : m \in N}
    <3>1. x.del = removed \cup {kept[m].was : m \in M}
      BY DEF PlacedTo
    <3>2. y.del = x.del \cup {kept[n + 1].was}
      BY <1>1, <1>6 DEF Goes
    <3> QED
      BY <2>1, <3>1, <3>2
  <2>5. PICK l : l = Len(x.moves) /\ l \in Nat /\ DOMAIN x.moves = 1 .. l
    BY <1>3 DEF Placing
  <2>6. /\ DOMAIN y.moves = 1 .. l + 1
        /\ \A k \in 1 .. l : y.moves[k] = x.moves[k]
        /\ y.moves[l + 1].from = row.was /\ y.moves[l + 1].to = row.at
    <3>1. x.moves \in Seq(MovePairs)
      BY <1>3 DEF Placing
    <3>2. PICK v : v = [from |-> row.was, to |-> row.at]
      OBVIOUS
    <3>3. v \in MovePairs /\ v.from = row.was /\ v.to = row.at
      BY <1>2, <3>2 DEF MovePairs
    <3>4. y.moves = Append(x.moves, v)
      BY <1>6, <3>2 DEF Goes
    <3> QED
      BY <2>5, <3>1, <3>3, <3>4, AppendProperties
  <2>7. \A k \in 1 .. l : \E m \in M : x.moves[k].from = kept[m].was /\ x.moves[k].to = kept[m].at
    BY <2>5 DEF PlacedTo
  <2>8. \A j, k \in 1 .. l : x.moves[j].from = x.moves[k].from => j = k
    BY <2>5 DEF PlacedTo
  <2>9. \A k \in 1 .. l : y.moves[k].from # y.moves[l + 1].from
    <3> TAKE k \in 1 .. l
    <3>1. PICK m \in M : x.moves[k].from = kept[m].was
      BY <2>7
    <3>2. m \in 1 .. Len(kept) /\ m # n + 1
      BY <1>3, <3>1
    <3>3. \A p, q \in 1 .. Len(kept) : kept[p].was = kept[q].was => p = q
      BY DEF KeptRows
    <3>4. kept[m].was # kept[n + 1].was
      BY <1>0, <3>2, <3>3
    <3> QED
      BY <1>1, <2>6, <3>1, <3>4
  <2>10. \A k \in 1 .. l + 1 : k = l + 1 \/ k \in 1 .. l
    BY <2>5
  <2>11. \A j, k \in DOMAIN y.moves : y.moves[j].from = y.moves[k].from => j = k
    BY <2>6, <2>8, <2>9, <2>10
  <2>12. \A k \in DOMAIN y.moves : \E m \in N : y.moves[k].from = kept[m].was /\ y.moves[k].to = kept[m].at
    <3> TAKE k \in DOMAIN y.moves
    <3>1. CASE k = l + 1
      BY <1>1, <2>1, <2>6, <3>1
    <3>2. CASE k \in 1 .. l
      BY <2>1, <2>6, <2>7, <3>2
    <3> QED
      BY <2>6, <2>10, <3>1, <3>2
  <2>13. y.expected = 0 \/ \E m \in 1 .. n + 1 : m \notin N /\ y.expected = kept[m].shifted + 1
    <3>1. y.expected = x.expected
      BY <1>6 DEF Goes
    <3>2. \A m \in 1 .. n : m \in 1 .. n + 1 /\ (m \notin M => m \notin N)
      BY <2>1
    <3> QED
      BY <3>1, <3>2 DEF PlacedTo
  <2>14. Settled(kept, candidates) => \A m \in 1 .. n + 1 : m \notin N => Before(kept, m)
    BY <2>2 DEF PlacedTo
  <2> QED
    BY <1>5, <2>2, <2>3, <2>4, <2>11, <2>12, <2>13, <2>14 DEF PlacedTo
<1>7. CASE /\ Stays(x, row, y)
           /\ row.shifted = x.expected \/ row.index \notin candidates \/ InPlace(x, row)
  <2>1. M \subseteq 1 .. n + 1 /\ \A m \in 1 .. n + 1 : m = n + 1 \/ m \in 1 .. n
    BY <1>3
  <2>2. /\ y.ins = ins \cup {kept[m].at : m \in M}
        /\ y.del = removed \cup {kept[m].was : m \in M}
        /\ y.moves = x.moves /\ y.expected = row.shifted + 1
    BY <1>7 DEF Stays, PlacedTo
  <2>3. /\ \A k \in DOMAIN y.moves : \E m \in M : /\ y.moves[k].from = kept[m].was
                                                 /\ y.moves[k].to = kept[m].at
        /\ \A j, k \in DOMAIN y.moves : y.moves[j].from = y.moves[k].from => j = k
    BY <2>2 DEF PlacedTo
  <2>4. \E m \in 1 .. n + 1 : m \notin M /\ y.expected = kept[m].shifted + 1
    <3>1. n + 1 \in 1 .. n + 1
      OBVIOUS
    <3> QED
      BY <1>1, <1>3, <2>2, <3>1
  <2>5. ASSUME Settled(kept, candidates)
        PROVE  Before(kept, n + 1)
    <3>1. \A m \in 1 .. n : m \notin M => Before(kept, m)
      BY <2>5 DEF PlacedTo
    <3>2. CASE row.shifted = x.expected
      <4>1. x.expected = 0 \/ \E m \in 1 .. n : m \notin M /\ x.expected = kept[m].shifted + 1
        BY DEF PlacedTo
      <4> QED
        BY <1>1, <3>1, <3>2, <4>1, ExpectedRow
    <3>3. CASE row.index \notin candidates
      BY <1>0, <1>1, <2>5, <3>3 DEF Settled
    <3>4. CASE InPlace(x, row)
      <4>1. PICK I, D : I = ins \cup {kept[m].at : m \in M} /\ D = removed \cup {kept[m].was : m \in M}
        OBVIOUS
      <4>2. x.ins = I /\ x.del = D
        BY <4>1 DEF PlacedTo
      <4>3. IsFiniteSet(M)
        <5>1. IsFiniteSet(1 .. n)
          BY FS_Interval
        <5> QED
          BY <1>3, <5>1, FS_Subset
      <4>4. \A m \in M : kept[m].at \in Nat /\ kept[m].was \in Nat
        BY <1>3, KeptRow
      <4>5. PositionSet(M)
        BY <1>3, <4>3 DEF PositionSet
      <4>6. PositionSet({kept[m].at : m \in M}) /\ PositionSet({kept[m].was : m \in M})
        <5>1. PICK f, g : f = [m \in M |-> kept[m].at] /\ g = [m \in M |-> kept[m].was]
          OBVIOUS
        <5>2. f \in [M -> Nat] /\ g \in [M -> Nat]
          BY <4>4, <5>1
        <5>3. PositionSet({f[m] : m \in M}) /\ PositionSet({g[m] : m \in M})
          BY <4>5, <5>2, MappedPositions
        <5>4. {f[m] : m \in M} = {kept[m].at : m \in M} /\ {g[m] : m \in M} = {kept[m].was : m \in M}
          BY <5>1
        <5> QED
          BY <5>3, <5>4
      <4>7. PositionSet(I) /\ PositionSet(D)
        <5>1. PositionSet(ins) /\ PositionSet(removed)
          BY DEF KeptRows
        <5> QED
          BY <4>1, <4>6, <5>1, FS_Union DEF PositionSet
      <4>8. kept[n + 1].shifted = kept[n + 1].at - CountIn(I, 0, kept[n + 1].at)
                                                 + CountIn(D, 0, kept[n + 1].was)
        BY <1>1, <3>4, <4>2 DEF InPlace
      <4> QED
        BY <1>3, <3>1, <4>1, <4>7, <4>8, RowInPlace
    <3> QED
      BY <1>7, <3>2, <3>3, <3>4
  <2>6. Settled(kept, candidates) => \A m \in 1 .. n + 1 : m \notin M => Before(kept, m)
    BY <2>1, <2>5 DEF PlacedTo
  <2> QED
    BY <1>5, <2>1, <2>2, <2>3, <2>4, <2>6 DEF PlacedTo
<1> QED
  BY <1>4, <1>6, <1>7 DEF Placed

\* One row after the other.
RowsPlaced(f, kept, removed, candidates, ins) ==
    /\ f[0] = [expected |-> 0, ins |-> ins, del |-> removed, moves |-> << >>]
    /\ \A n \in 1 .. Len(kept) : f[n] = PlaceRow(f[n - 1], kept[n], candidates)

LEMMA PlacingRuns ==
    ASSUME NEW kept, Len(kept) \in Nat,
           \A n \in 1 .. Len(kept) : kept[n].at \in Nat /\ kept[n].was \in Nat /\ kept[n].shifted \in Nat,
           NEW removed \in SUBSET Nat, NEW candidates, NEW ins \in SUBSET Nat,
           NEW e, e = MovesUnsorted(kept, removed, candidates, ins)
    PROVE  \E f : RowsPlaced(f, kept, removed, candidates, ins) /\ e = f[Len(kept)]
<1> DEFINE size == Len(kept)
           init == [expected |-> 0, ins |-> ins, del |-> removed, moves |-> << >>]
           step == [n \in 1 .. size |-> [x \in Placing |-> PlaceRow(x, kept[n], candidates)]]
           F(f) == f = [n \in 0 .. size |-> IF n = 0 THEN init
                                            ELSE PlaceRow(f[n - 1], kept[n], candidates)]
<1>1. size \in Nat
  OBVIOUS
<1>2. init \in Placing
  <2>1. << >> \in Seq(MovePairs)
    OBVIOUS
  <2> QED
    BY <2>1 DEF Placing
<1>3. ASSUME NEW n \in 1 .. size, NEW x \in Placing
      PROVE  PlaceRow(x, kept[n], candidates) \in Placing
  <2>1. PICK y : y = PlaceRow(x, kept[n], candidates)
    OBVIOUS
  <2>2. Placed(x, kept[n], candidates, y)
    BY <2>1, PlaceRowIs
  <2> QED
    BY <2>1, <2>2 DEF Placed
<1>4. step \in [1 .. size -> [Placing -> Placing]]
  BY <1>3
<1>5. \E f : Recursion(f, size, Placing, init, step)
  <2> HIDE DEF step, init, size
  <2> QED
    BY <1>1, <1>2, <1>4, RecursiveFunction
<1>6. PICK f \in [0 .. size -> Placing] :
         f = [n \in 0 .. size |-> IF n = 0 THEN init ELSE step[n][f[n - 1]]]
  BY <1>5 DEF Recursion
<1>7. F(f)
  <2>1. \A n \in 0 .. size : n # 0 => /\ n \in 1 .. size /\ f[n - 1] \in Placing
                                      /\ step[n][f[n - 1]] = PlaceRow(f[n - 1], kept[n], candidates)
    <3> SUFFICES ASSUME NEW n \in 0 .. size, n # 0
                 PROVE  /\ n \in 1 .. size /\ f[n - 1] \in Placing
                        /\ step[n][f[n - 1]] = PlaceRow(f[n - 1], kept[n], candidates)
      OBVIOUS
    <3>1. n \in 1 .. size /\ n - 1 \in 0 .. size
      BY <1>1
    <3>2. f[n - 1] \in Placing
      BY <3>1
    <3> QED
      BY <3>1, <3>2
  <2> HIDE DEF step
  <2> QED
    BY <1>6, <2>1
<1>8. PICK g : g = (CHOOSE h : F(h))
  OBVIOUS
<1>9. F(g)
  BY <1>7, <1>8
<1>10. e = g[size]
  BY <1>8 DEF MovesUnsorted
<1>11. RowsPlaced(g, kept, removed, candidates, ins)
  <2>1. 0 \in 0 .. size /\ \A n \in 1 .. size : n \in 0 .. size /\ n # 0
    BY <1>1
  <2> QED
    BY <1>9, <2>1 DEF RowsPlaced
<1> QED
  BY <1>10, <1>11

\* The rows once all are placed.
AllPlaced(e, kept, removed, ins, candidates) ==
    \E M : PlacedTo(e, Len(kept), M, kept, removed, ins, candidates)

LEMMA PlacedAll ==
    ASSUME NEW kept, NEW old, NEW next, NEW deleted, NEW removed, NEW ins,
           Len(old) \in Nat, Len(next) \in Nat,
           KeptRows(kept, old, next, deleted, removed, ins), NEW candidates,
           NEW e, e = MovesUnsorted(kept, removed, candidates, ins)
    PROVE  AllPlaced(e, kept, removed, ins, candidates)
<1> DEFINE P(x, n) == \E M : PlacedTo(x, n, M, kept, removed, ins, candidates)
<1>1. Len(kept) \in Nat /\ removed \in SUBSET Nat /\ ins \in SUBSET Nat
  BY DEF KeptRows, PositionSet
<1>2. \A n \in 1 .. Len(kept) : kept[n].at \in Nat /\ kept[n].was \in Nat /\ kept[n].shifted \in Nat
  BY KeptRow
<1>3. PICK f : RowsPlaced(f, kept, removed, candidates, ins) /\ e = f[Len(kept)]
  BY <1>1, <1>2, PlacingRuns
<1>4. P(f[0], 0)
  <2>1. PICK x : x = [expected |-> 0, ins |-> ins, del |-> removed, moves |-> << >>]
    OBVIOUS
  <2>2. x = f[0]
    BY <1>3, <2>1 DEF RowsPlaced
  <2>3. x.expected = 0 /\ x.ins = ins /\ x.del = removed /\ x.moves = << >> /\ x \in Placing
    <3>1. << >> \in Seq(MovePairs)
      OBVIOUS
    <3> QED
      BY <1>1, <2>1, <3>1 DEF Placing
  <2>4. DOMAIN x.moves = {} /\ 1 .. 0 = {}
    BY <2>3
  <2>5. PlacedTo(x, 0, {}, kept, removed, ins, candidates)
    BY <2>3, <2>4 DEF PlacedTo
  <2> QED
    BY <2>2, <2>5
<1>5. ASSUME NEW n \in 0 .. Len(kept), n # 0, P(f[n - 1], n - 1)
      PROVE  P(f[n], n)
  <2>1. n - 1 \in Nat /\ n = n - 1 + 1 /\ n \in 1 .. Len(kept)
    BY <1>1, <1>5
  <2>2. PICK k \in Nat : k = n - 1
    BY <2>1
  <2>3. n = k + 1 /\ k + 1 <= Len(kept)
    BY <2>1, <2>2
  <2>4. f[n] = PlaceRow(f[k], kept[k + 1], candidates)
    BY <1>3, <2>1, <2>2, <2>3 DEF RowsPlaced
  <2>5. PICK M : PlacedTo(f[k], k, M, kept, removed, ins, candidates)
    BY <1>5, <2>2
  <2>6. \E N : PlacedTo(f[n], k + 1, N, kept, removed, ins, candidates)
    BY <2>3, <2>4, <2>5, PlaceStep
  <2> QED
    BY <2>3, <2>6
<1> HIDE DEF P
<1>6. \A n \in 0 .. Len(kept) : P(f[n], n)
  <2> DEFINE T == {n \in 0 .. Len(kept) : ~P(f[n], n)}
  <2> SUFFICES ASSUME T # {}
               PROVE  FALSE
    OBVIOUS
  <2>1. T \in SUBSET Nat
    BY <1>1
  <2>2. PICK k \in T : \A l \in T : k <= l
    <3> HIDE DEF T
    <3> QED
      BY <2>1, LeastNumber
  <2>3. k \in 0 .. Len(kept) /\ ~P(f[k], k)
    OBVIOUS
  <2>4. k # 0
    BY <1>4, <2>3
  <2>5. k - 1 \in 0 .. Len(kept) /\ ~(k <= k - 1)
    BY <1>1, <2>3, <2>4
  <2>6. k - 1 \notin T
    BY <2>2, <2>5
  <2>7. P(f[k - 1], k - 1)
    BY <2>5, <2>6
  <2> QED
    BY <1>5, <2>3, <2>4, <2>7
<1>7. Len(kept) \in 0 .. Len(kept)
  BY <1>1
<1> QED
  BY <1>3, <1>6, <1>7 DEF P, AllPlaced

-----------------------------------------------------------------------------
(* What calculate makes of results in table order. *)

\* The changes once the moves are known: e.ins and e.del have what was inserted and removed.
Collected(c, deleted, e, mod) ==
    c = [del |-> deleted \cup e.del, ins |-> e.ins, mod |-> mod, moves |-> e.moves, map |-> << >>]

CollectedTypes(c, mod) ==
    /\ Builder(c) /\ c.mod = mod /\ c.map = << >> /\ c.moves \in Seq(MovePairs)

LEMMA PositionsFinite ==
    ASSUME NEW l \in Nat
    PROVE  IsFiniteSet(0 .. l - 1)
<1>1. 0 \in Int /\ l - 1 \in Int
  OBVIOUS
<1> QED
  BY <1>1, FS_Interval

LEMMA SameRowNow ==
    ASSUME NEW old, NEW next, Len(next) \in Nat, Distinct(next),
           NEW i, NEW j, NEW l, SameRow(old, next, i, j), SameRow(old, next, i, l)
    PROVE  j = l
<1>1. j \in 0 .. Len(next) - 1 /\ l \in 0 .. Len(next) - 1 /\ next[j + 1] = next[l + 1]
  BY DEF SameRow
<1>2. j + 1 \in 1 .. Len(next) /\ l + 1 \in 1 .. Len(next)
  BY <1>1
<1>3. j + 1 = l + 1
  BY <1>1, <1>2 DEF Distinct
<1> QED
  BY <1>1, <1>3

LEMMA PlacedTypes ==
    ASSUME NEW kept, NEW old, NEW next, NEW deleted, NEW removed, NEW ins,
           Len(old) \in Nat, Len(next) \in Nat,
           KeptRows(kept, old, next, deleted, removed, ins), NEW candidates,
           NEW e, AllPlaced(e, kept, removed, ins, candidates),
           NEW mod, NEW c, Collected(c, deleted, e, mod)
    PROVE  CollectedTypes(c, mod) /\ c.del \subseteq 0 .. Len(old) - 1 /\ c.ins \subseteq 0 .. Len(next) - 1
<1>1. PICK M : PlacedTo(e, Len(kept), M, kept, removed, ins, candidates)
  BY DEF AllPlaced
<1>2. /\ c = [del |-> c.del, ins |-> c.ins, mod |-> c.mod, moves |-> c.moves, map |-> c.map]
      /\ c.del = deleted \cup e.del /\ c.ins = e.ins /\ c.mod = mod /\ c.moves = e.moves
      /\ c.map = << >>
  BY DEF Collected
<1>3. c.moves \in Seq(MovePairs)
  BY <1>1, <1>2 DEF PlacedTo, Placing
<1>4. \A m \in M : kept[m].at \in 0 .. Len(next) - 1 /\ kept[m].was \in 0 .. Len(old) - 1
  <2>1. M \subseteq 1 .. Len(kept)
    BY <1>1 DEF PlacedTo
  <2> QED
    BY <2>1, KeptRow
<1>5. c.ins \subseteq 0 .. Len(next) - 1
  <2>1. c.ins = ins \cup {kept[m].at : m \in M}
    BY <1>1, <1>2 DEF PlacedTo
  <2>2. ins \subseteq 0 .. Len(next) - 1
    BY DEF KeptRows
  <2> QED
    BY <1>4, <2>1, <2>2
<1>6. c.del \subseteq 0 .. Len(old) - 1
  <2>1. c.del = deleted \cup removed \cup {kept[m].was : m \in M}
    BY <1>1, <1>2 DEF PlacedTo
  <2>2. deleted \cup removed \subseteq 0 .. Len(old) - 1
    BY DEF KeptRows
  <2> QED
    BY <1>4, <2>1, <2>2
<1>7. IsFiniteSet(0 .. Len(next) - 1) /\ IsFiniteSet(0 .. Len(old) - 1)
  BY PositionsFinite
<1>8. PositionSet(c.del) /\ PositionSet(c.ins)
  BY <1>5, <1>6, <1>7, FS_Subset DEF PositionSet
<1> QED
  BY <1>2, <1>3, <1>5, <1>6, <1>8 DEF CollectedTypes, Builder, Sets

LEMMA PlacedAccounts ==
    ASSUME NEW kept, NEW old, NEW next, NEW deleted, NEW removed, NEW ins,
           Len(old) \in Nat, Len(next) \in Nat, Distinct(next),
           KeptRows(kept, old, next, deleted, removed, ins), NEW candidates,
           Settled(kept, candidates),
           NEW e, AllPlaced(e, kept, removed, ins, candidates),
           NEW mod, NEW c, Collected(c, deleted, e, mod)
    PROVE  Accounts(c, old, next)
<1>1. PICK M : PlacedTo(e, Len(kept), M, kept, removed, ins, candidates)
  BY DEF AllPlaced
<1>2. CollectedTypes(c, mod) /\ c.del \subseteq 0 .. Len(old) - 1 /\ c.ins \subseteq 0 .. Len(next) - 1
  BY PlacedTypes
<1>3. /\ c.del = deleted \cup removed \cup {kept[m].was : m \in M}
      /\ c.ins = ins \cup {kept[m].at : m \in M} /\ c.moves = e.moves
  BY <1>1 DEF Collected, PlacedTo
<1>4. Len(kept) \in Nat /\ M \subseteq 1 .. Len(kept)
  BY <1>1 DEF KeptRows, PlacedTo
<1>5. \A m, n \in 1 .. Len(kept) : kept[m].was = kept[n].was => m = n
  BY DEF KeptRows
<1>6. \A m, n \in 1 .. Len(kept) : m < n => kept[m].at < kept[n].at
  BY DEF KeptRows
<1>7. \A m, n \in 1 .. Len(kept) : kept[m].at = kept[n].at => m = n
  <2> SUFFICES ASSUME NEW m \in 1 .. Len(kept), NEW n \in 1 .. Len(kept), kept[m].at = kept[n].at,
                      m # n
               PROVE  FALSE
    OBVIOUS
  <2>1. kept[m].at \in Nat
    BY KeptRow
  <2>2. m < n \/ n < m
    BY <1>4
  <2> QED
    BY <1>6, <2>1, <2>2
<1>8. ASSUME NEW n \in 1 .. Len(kept)
      PROVE  /\ kept[n].was \in 0 .. Len(old) - 1 /\ kept[n].at \in 0 .. Len(next) - 1
             /\ SameRow(old, next, kept[n].was, kept[n].at)
             /\ n \notin M => kept[n].was \notin c.del /\ kept[n].at \notin c.ins
  <2>1. /\ kept[n].was \in 0 .. Len(old) - 1 /\ kept[n].at \in 0 .. Len(next) - 1
        /\ kept[n].was \notin deleted /\ kept[n].was \notin removed /\ kept[n].at \notin ins
    BY KeptRow
  <2>2. SameRow(old, next, kept[n].was, kept[n].at)
    BY DEF KeptRows
  <2>3. n \notin M => \A m \in M : kept[m].was # kept[n].was /\ kept[m].at # kept[n].at
    BY <1>4, <1>5, <1>7
  <2> QED
    BY <1>3, <2>1, <2>2, <2>3
<1>9. ASSUME NEW i \in 0 .. Len(old) - 1, i \notin c.del
      PROVE  \E n \in 1 .. Len(kept) : n \notin M /\ kept[n].was = i
  <2>1. i \notin deleted \cup removed /\ \A m \in M : kept[m].was # i
    BY <1>3, <1>9
  <2> QED
    BY <2>1 DEF KeptRows
<1>10. ASSUME NEW j \in 0 .. Len(next) - 1, j \notin c.ins
       PROVE  \E n \in 1 .. Len(kept) : n \notin M /\ kept[n].at = j
  <2>1. j \notin ins /\ \A m \in M : kept[m].at # j
    BY <1>3, <1>10
  <2> QED
    BY <2>1 DEF KeptRows
<1>11. \A i \in 0 .. Len(old) - 1 : i \notin c.del =>
          \E j \in 0 .. Len(next) - 1 : j \notin c.ins /\ SameRow(old, next, i, j)
  <2> SUFFICES ASSUME NEW i \in 0 .. Len(old) - 1, i \notin c.del
               PROVE  \E j \in 0 .. Len(next) - 1 : j \notin c.ins /\ SameRow(old, next, i, j)
    OBVIOUS
  <2>1. PICK n \in 1 .. Len(kept) : n \notin M /\ kept[n].was = i
    BY <1>9
  <2>2. /\ kept[n].at \in 0 .. Len(next) - 1 /\ kept[n].at \notin c.ins
        /\ SameRow(old, next, kept[n].was, kept[n].at)
    BY <1>8, <2>1
  <2> QED
    BY <2>1, <2>2
<1>12. \A j \in 0 .. Len(next) - 1 : j \notin c.ins =>
          \E i \in 0 .. Len(old) - 1 : i \notin c.del /\ SameRow(old, next, i, j)
  <2> SUFFICES ASSUME NEW j \in 0 .. Len(next) - 1, j \notin c.ins
               PROVE  \E i \in 0 .. Len(old) - 1 : i \notin c.del /\ SameRow(old, next, i, j)
    OBVIOUS
  <2>1. PICK n \in 1 .. Len(kept) : n \notin M /\ kept[n].at = j
    BY <1>10
  <2>2. /\ kept[n].was \in 0 .. Len(old) - 1 /\ kept[n].was \notin c.del
        /\ SameRow(old, next, kept[n].was, kept[n].at)
    BY <1>8, <2>1
  <2> QED
    BY <2>1, <2>2
<1>13. ASSUME NEW i \in 0 .. Len(old) - 1, NEW k \in 0 .. Len(old) - 1,
              NEW j \in 0 .. Len(next) - 1, NEW l \in 0 .. Len(next) - 1,
              i \notin c.del, k \notin c.del, SameRow(old, next, i, j), SameRow(old, next, k, l), i < k
       PROVE  j < l
  <2>1. PICK p \in 1 .. Len(kept) : p \notin M /\ kept[p].was = i
    BY <1>9, <1>13
  <2>2. PICK q \in 1 .. Len(kept) : q \notin M /\ kept[q].was = k
    BY <1>9, <1>13
  <2>3. kept[p].at = j /\ kept[q].at = l
    BY <1>8, <1>13, <2>1, <2>2, SameRowNow
  <2>4. p # q
    BY <1>13, <2>1, <2>2
  <2>5. ~(q < p)
    <3> SUFFICES ASSUME q < p
                 PROVE  FALSE
      OBVIOUS
    <3>1. Before(kept, q) /\ p \in q + 1 .. Len(kept)
      BY <1>1, <1>4, <2>2 DEF PlacedTo
    <3>2. k < i
      BY <2>1, <2>2, <3>1 DEF Before
    <3> QED
      BY <1>13, <3>2
  <2>6. p < q
    BY <1>4, <2>4, <2>5
  <2> QED
    BY <1>6, <2>3, <2>6
<1>14. /\ c.moves \in Seq(MovePairs)
       /\ \A k \in DOMAIN c.moves : /\ c.moves[k].from \in c.del /\ c.moves[k].to \in c.ins
                                    /\ SameRow(old, next, c.moves[k].from, c.moves[k].to)
  <2>1. ASSUME NEW k \in DOMAIN c.moves
        PROVE  /\ c.moves[k].from \in c.del /\ c.moves[k].to \in c.ins
               /\ SameRow(old, next, c.moves[k].from, c.moves[k].to)
    <3>1. PICK m \in M : c.moves[k].from = kept[m].was /\ c.moves[k].to = kept[m].at
      BY <1>1, <1>3, <2>1 DEF PlacedTo
    <3> QED
      BY <1>3, <1>4, <1>8, <3>1
  <2> QED
    BY <1>2, <2>1 DEF CollectedTypes
<1>15. \A j, k \in DOMAIN c.moves : c.moves[j].from = c.moves[k].from => j = k
  BY <1>1, <1>3 DEF PlacedTo
<1>16. Builder(c)
  BY <1>2 DEF CollectedTypes
<1> QED
  BY <1>2, <1>11, <1>12, <1>13, <1>14, <1>15, <1>16 DEF Accounts

\* The rows as calculate finds them.
FoundRows(kept, old, next, deleted, removed, ins, stays) ==
    /\ deleted = {i \in Positions(old) : At(old, i) = Gone}
    /\ removed = {i \in Positions(old) \ deleted : At(old, i) \notin Range(next)}
    /\ ins = {i \in Positions(next) : At(next, i) \notin Range(old)}
    /\ stays = InOrder(Positions(next) \ ins)
    /\ DOMAIN kept = DOMAIN stays
    /\ \A n \in DOMAIN stays :
          /\ kept[n].index = At(next, stays[n]) /\ kept[n].at = stays[n]
          /\ kept[n].was = PositionOf(old, At(next, stays[n]))
          /\ kept[n].shifted = Unshift(deleted, kept[n].was)

LEMMA FoundRowsKept ==
    ASSUME NEW old \in Seq(Int), NEW next \in Seq(Nat), Distinct(next), OnceEach(old),
           NEW kept, NEW deleted, NEW removed, NEW ins, NEW stays,
           FoundRows(kept, old, next, deleted, removed, ins, stays), Len(kept) \in Nat,
           DOMAIN kept = 1 .. Len(kept)
    PROVE  KeptRows(kept, old, next, deleted, removed, ins)
<1>0. PICK l, k : l = Len(old) /\ k = Len(next)
  OBVIOUS
<1>1. /\ l = Len(old) /\ k = Len(next) /\ l \in Nat /\ k \in Nat
      /\ DOMAIN old = 1 .. l /\ DOMAIN next = 1 .. k
  BY <1>0, LenProperties
<1>2. IsFiniteSet(0 .. l - 1) /\ IsFiniteSet(0 .. k - 1)
  BY <1>1, PositionsFinite
<1>3. /\ deleted \subseteq 0 .. l - 1 /\ removed \subseteq 0 .. l - 1 /\ ins \subseteq 0 .. k - 1
      /\ deleted \cap removed = {}
  BY <1>1 DEF FoundRows, Positions
<1>4. PositionSet(deleted) /\ PositionSet(removed) /\ PositionSet(ins)
  <2>1. IsFiniteSet(deleted) /\ IsFiniteSet(removed) /\ IsFiniteSet(ins)
    BY <1>2, <1>3, FS_Subset
  <2> QED
    BY <1>3, <2>1 DEF PositionSet
<1>5. PICK K : K = 0 .. k - 1 \ ins
  OBVIOUS
<1>6. PositionSet(K) /\ stays = InOrder(K)
  <2>1. IsFiniteSet(K)
    BY <1>2, <1>5, FS_Subset
  <2>2. K = Positions(next) \ ins
    BY <1>1, <1>5 DEF Positions
  <2>3. K \subseteq Nat
    BY <1>5
  <2>4. stays = InOrder(Positions(next) \ ins)
    BY DEF FoundRows
  <2> QED
    BY <2>1, <2>2, <2>3, <2>4 DEF PositionSet
<1>7. Ordered(K, stays)
  BY <1>6, InOrderFacts
<1>8. DOMAIN stays = 1 .. Len(kept) /\ Len(kept) = Cardinality(K)
  <2>1. DOMAIN stays = 1 .. Len(kept)
    BY DEF FoundRows
  <2>2. 1 .. Len(kept) = 1 .. Cardinality(K) /\ Cardinality(K) \in Nat
    BY <1>7, <2>1 DEF Ordered
  <2> QED
    BY <2>1, <2>2
<1>9. \A n \in 1 .. Len(kept) : stays[n] \in K
  BY <1>7, <1>8 DEF Ordered
<1>10. \A m, n \in 1 .. Len(kept) : m < n => stays[m] < stays[n]
  BY <1>7, <1>8 DEF Ordered
<1>11. \A x \in K : \E n \in 1 .. Len(kept) : stays[n] = x
  BY <1>7, <1>8 DEF Ordered
<1>12. \A n \in 1 .. Len(kept) : /\ kept[n].index = next[stays[n] + 1] /\ kept[n].at = stays[n]
                                 /\ kept[n].was = PositionOf(old, next[stays[n] + 1])
                                 /\ kept[n].shifted = Unshift(deleted, kept[n].was)
  BY <1>8 DEF FoundRows, At
<1>13. ASSUME NEW j \in 0 .. k - 1, j \notin ins
       PROVE  /\ PositionOf(old, next[j + 1]) \in 0 .. l - 1
              /\ SameRow(old, next, PositionOf(old, next[j + 1]), j)
  <2>1. j \in Positions(next) /\ j + 1 \in 1 .. k
    BY <1>1 DEF Positions
  <2>2. next[j + 1] \in Range(old)
    BY <1>13, <2>1 DEF FoundRows, At
  <2>3. PICK n \in 1 .. l : old[n] = next[j + 1]
    BY <1>1, <2>2 DEF Range
  <2>4. n - 1 \in Positions(old) /\ At(old, n - 1) = next[j + 1]
    <3>1. n - 1 \in 0 .. l - 1 /\ n - 1 + 1 = n
      BY <1>1
    <3> QED
      BY <1>1, <2>3, <3>1 DEF Positions, At
  <2>5. PICK i : i = PositionOf(old, next[j + 1])
    OBVIOUS
  <2>6. i \in Positions(old) /\ At(old, i) = next[j + 1]
    BY <2>4, <2>5 DEF PositionOf
  <2> QED
    BY <1>1, <2>5, <2>6 DEF Positions, At, SameRow
<1>14. \A j \in 1 .. k : next[j] \in Nat /\ next[j] # Gone
  BY <1>1 DEF Gone
<1>15. ASSUME NEW n \in 1 .. Len(kept)
       PROVE  /\ kept[n].at \in 0 .. k - 1 /\ kept[n].at \notin ins
              /\ kept[n].was \in 0 .. l - 1 /\ kept[n].was \notin deleted \cup removed
              /\ SameRow(old, next, kept[n].was, kept[n].at)
  <2>1. PICK j : j = stays[n] /\ j \in 0 .. k - 1 /\ j \notin ins /\ kept[n].at = j
    BY <1>5, <1>9, <1>12
  <2>2. PICK i : i = kept[n].was /\ i \in 0 .. l - 1 /\ SameRow(old, next, i, j)
    BY <1>12, <1>13, <2>1
  <2>3. j + 1 \in 1 .. k /\ old[i + 1] = next[j + 1]
    BY <1>1, <2>1, <2>2 DEF SameRow
  <2>4. i \notin deleted
    BY <1>14, <2>3 DEF FoundRows, At
  <2>5. next[j + 1] \in Range(next)
    BY <1>1, <2>3 DEF Range
  <2>6. i \notin removed
    BY <2>3, <2>5 DEF FoundRows, At
  <2> QED
    BY <2>1, <2>2, <2>4, <2>6
<1>16. \A m, n \in 1 .. Len(kept) : kept[m].was = kept[n].was => m = n
  <2> SUFFICES ASSUME NEW m \in 1 .. Len(kept), NEW n \in 1 .. Len(kept),
                      kept[m].was = kept[n].was, m # n
               PROVE  FALSE
    OBVIOUS
  <2>1. SameRow(old, next, kept[m].was, kept[m].at) /\ SameRow(old, next, kept[m].was, kept[n].at)
    BY <1>15
  <2>2. kept[m].at = kept[n].at
    BY <1>1, <2>1, SameRowNow
  <2>3. stays[m] = stays[n] /\ stays[m] \in Nat
    BY <1>5, <1>9, <1>12, <2>2
  <2>4. m < n \/ n < m
    OBVIOUS
  <2> QED
    BY <1>10, <2>3, <2>4
<1>17. \A i \in 0 .. l - 1 :
          i \notin deleted \cup removed => \E n \in 1 .. Len(kept) : kept[n].was = i
  <2> SUFFICES ASSUME NEW i \in 0 .. l - 1, i \notin deleted \cup removed
               PROVE  \E n \in 1 .. Len(kept) : kept[n].was = i
    OBVIOUS
  <2>1. i \in Positions(old) /\ i + 1 \in 1 .. l
    BY <1>1 DEF Positions
  <2>2. old[i + 1] # Gone /\ old[i + 1] \in Range(next)
    BY <2>1 DEF FoundRows, At
  <2>3. PICK j \in 1 .. k : next[j] = old[i + 1]
    BY <1>1, <2>2 DEF Range
  <2>4. j - 1 \in 0 .. k - 1 /\ j - 1 + 1 = j
    BY <1>1
  <2>5. j - 1 \notin ins
    <3>1. old[i + 1] \in Range(old)
      BY <1>1, <2>1 DEF Range
    <3> QED
      BY <2>3, <2>4, <3>1 DEF FoundRows, At
  <2>6. PICK n \in 1 .. Len(kept) : stays[n] = j - 1
    BY <1>5, <1>11, <2>4, <2>5
  <2>7. SameRow(old, next, kept[n].was, j - 1)
    BY <1>12, <1>15, <2>6
  <2>8. SameRow(old, next, i, j - 1)
    BY <1>1, <2>3, <2>4 DEF SameRow
  <2>9. kept[n].was = i
    BY <1>1, <1>14, <2>7, <2>8, SameRowOnce
  <2> WITNESS n \in 1 .. Len(kept)
  <2> QED
    BY <2>9
<1>18. \A m, n \in 1 .. Len(kept) : m < n => kept[m].at < kept[n].at
  BY <1>10, <1>12
<1>19. \A j \in 0 .. k - 1 : j \notin ins => \E n \in 1 .. Len(kept) : kept[n].at = j
  <2> SUFFICES ASSUME NEW j \in 0 .. k - 1, j \notin ins
               PROVE  \E n \in 1 .. Len(kept) : kept[n].at = j
    OBVIOUS
  <2>1. PICK n \in 1 .. Len(kept) : stays[n] = j
    BY <1>5, <1>11
  <2>2. kept[n].at = stays[n]
    BY <1>12
  <2> WITNESS n \in 1 .. Len(kept)
  <2> QED
    BY <2>1, <2>2
<1>20. \A n \in 1 .. Len(kept) :
          /\ kept[n].at \in 0 .. Len(next) - 1 /\ kept[n].at \notin ins
          /\ kept[n].was \in 0 .. Len(old) - 1 /\ kept[n].was \notin deleted \cup removed
          /\ SameRow(old, next, kept[n].was, kept[n].at)
          /\ kept[n].shifted = Unshift(deleted, kept[n].was)
          /\ kept[n].index = next[kept[n].at + 1]
  BY <1>0, <1>12, <1>15
<1>21. deleted \cup removed \subseteq 0 .. Len(old) - 1 /\ ins \subseteq 0 .. Len(next) - 1
  BY <1>0, <1>3
<1> QED
  BY <1>0, <1>3, <1>4, <1>16, <1>17, <1>18, <1>19, <1>20, <1>21 DEF KeptRows

\* What calculate makes of them.
CalculatedFrom(c, old, next, changed, inTableOrder, candidates, kept, deleted, removed, ins, e) ==
    /\ KeptRows(kept, old, next, deleted, removed, ins)
    /\ IF inTableOrder THEN e = MovesUnsorted(kept, removed, candidates, ins)
                       ELSE e = MovesSorted(old, kept, removed, ins)
    /\ Collected(c, deleted, e, {i \in 0 .. Len(next) - 1 : i \notin ins /\ next[i + 1] \in changed})

Calculated(c, old, next, changed, inTableOrder, candidates) ==
    \E kept, deleted, removed, ins, e :
        CalculatedFrom(c, old, next, changed, inTableOrder, candidates, kept, deleted, removed, ins, e)

LEMMA CalculateIs ==
    ASSUME NEW old \in Seq(Int), NEW next \in Seq(Nat), Distinct(next), OnceEach(old),
           NEW changed, NEW inTableOrder \in BOOLEAN, NEW candidates,
           NEW c, c = Calculate(old, next, changed, inTableOrder, candidates)
    PROVE  Calculated(c, old, next, changed, inTableOrder, candidates)
<1> DEFINE deleted == {i \in Positions(old) : At(old, i) = Gone}
           removed == {i \in Positions(old) \ deleted : At(old, i) \notin Range(next)}
           ins == {i \in Positions(next) : At(next, i) \notin Range(old)}
           row(i) == LET was == PositionOf(old, At(next, i))
                     IN [index |-> At(next, i), at |-> i, was |-> was, shifted |-> Unshift(deleted, was)]
           stays == InOrder(Positions(next) \ ins)
           kept == [n \in DOMAIN stays |-> row(stays[n])]
           moved == IF inTableOrder THEN MovesUnsorted(kept, removed, candidates, ins)
                                    ELSE MovesSorted(old, kept, removed, ins)
           mod == {i \in Positions(next) \ ins : At(next, i) \in changed}
<1>1. c = [NoChange EXCEPT !.del = deleted \cup moved.del, !.ins = moved.ins, !.moves = moved.moves,
                           !.mod = mod]
  BY DEF Calculate
<1>2. \A n \in DOMAIN stays :
          /\ kept[n].index = At(next, stays[n]) /\ kept[n].at = stays[n]
          /\ kept[n].was = PositionOf(old, At(next, stays[n]))
          /\ kept[n].shifted = Unshift(deleted, kept[n].was)
  OBVIOUS
<1>3. DOMAIN kept = DOMAIN stays
  OBVIOUS
<1>4. PositionSet(Positions(next) \ ins)
  <2>1. Len(next) \in Nat
    OBVIOUS
  <2>2. IsFiniteSet(0 .. Len(next) - 1)
    BY <2>1, PositionsFinite
  <2>3. Positions(next) \ ins \subseteq 0 .. Len(next) - 1
    BY DEF Positions
  <2>4. IsFiniteSet(Positions(next) \ ins)
    BY <2>2, <2>3, FS_Subset
  <2>5. Positions(next) \ ins \subseteq Nat
    BY <2>3
  <2> QED
    BY <2>4, <2>5 DEF PositionSet
<1>5. FoundRows(kept, old, next, deleted, removed, ins, stays)
  BY <1>2, <1>3 DEF FoundRows
<1>6. Len(kept) \in Nat /\ DOMAIN kept = 1 .. Len(kept)
  <2> DEFINE S == Positions(next) \ ins
  <2>1. Ordered(S, stays)
    <3> HIDE DEF ins
    <3> QED
      BY <1>4, InOrderFacts
  <2>2. DOMAIN kept = 1 .. Cardinality(S) /\ Cardinality(S) \in Nat
    BY <1>3, <2>1 DEF Ordered
  <2>3. PICK N, f : N = Cardinality(S) /\ f = kept
    OBVIOUS
  <2>4. f = [n \in 1 .. N |-> f[n]] /\ N \in Nat
    BY <2>2, <2>3
  <2>5. f \in [1 .. N -> {f[n] : n \in 1 .. N}]
    BY <2>4
  <2>6. Len(f) = N
    BY <2>4, <2>5, SeqIs
  <2> HIDE DEF kept, S
  <2> QED
    BY <2>2, <2>3, <2>6
<1> HIDE DEF stays, kept
<1>7. KeptRows(kept, old, next, deleted, removed, ins)
  <2> HIDE DEF deleted, removed, ins
  <2> QED
    BY <1>5, <1>6, FoundRowsKept
<1>8. PICK e : e = moved
  OBVIOUS
<1>9. IF inTableOrder THEN e = MovesUnsorted(kept, removed, candidates, ins)
                      ELSE e = MovesSorted(old, kept, removed, ins)
  BY <1>8
<1>10. mod = {i \in 0 .. Len(next) - 1 : i \notin ins /\ next[i + 1] \in changed}
  <2> HIDE DEF ins
  <2> QED
    BY DEF Positions, At
<1> HIDE DEF deleted, removed, ins, moved, mod
<1>11. Collected(c, deleted, e, mod)
  BY <1>1, <1>8 DEF Collected, NoChange
<1>12. CalculatedFrom(c, old, next, changed, inTableOrder, candidates, kept, deleted, removed, ins, e)
  BY <1>7, <1>9, <1>10, <1>11 DEF CalculatedFrom
<1> QED
  BY <1>12 DEF Calculated

\* A changed row is marked, or new.
ChangedRows(c, next, changed) ==
    /\ c.mod \subseteq 0 .. Len(next) - 1
    /\ \A j \in 0 .. Len(next) - 1 : next[j + 1] \in changed => j \in c.mod \/ ~Keeps(c, j)

TypedChanges(c) == Builder(c) /\ c.mod \subseteq Nat /\ c.moves \in Seq(MovePairs) /\ c.map = << >>

\* A row that is no candidate for a move was before every row it is before now.
SettledRows(old, next, candidates) ==
    \A i, k \in 0 .. Len(old) - 1 : \A j, l \in 0 .. Len(next) - 1 :
        /\ SameRow(old, next, i, j) /\ SameRow(old, next, k, l)
        /\ next[j + 1] \notin candidates /\ j < l
        => i < k

LEMMA TableOrderTypes ==
    ASSUME NEW old \in Seq(Int), NEW next \in Seq(Nat), Distinct(next), OnceEach(old),
           NEW changed, NEW candidates, NEW c, Calculated(c, old, next, changed, TRUE, candidates)
    PROVE  TypedChanges(c)
<1>1. PICK kept, deleted, removed, ins, e :
         CalculatedFrom(c, old, next, changed, TRUE, candidates, kept, deleted, removed, ins, e)
  BY DEF Calculated
<1>2. PICK mod : mod = {i \in 0 .. Len(next) - 1 : i \notin ins /\ next[i + 1] \in changed}
  OBVIOUS
<1>3. /\ KeptRows(kept, old, next, deleted, removed, ins)
      /\ e = MovesUnsorted(kept, removed, candidates, ins) /\ Collected(c, deleted, e, mod)
  BY <1>1, <1>2 DEF CalculatedFrom
<1>4. Len(old) \in Nat /\ Len(next) \in Nat
  OBVIOUS
<1>5. AllPlaced(e, kept, removed, ins, candidates)
  BY <1>3, <1>4, PlacedAll
<1>6. CollectedTypes(c, mod)
  BY <1>3, <1>4, <1>5, PlacedTypes
<1> QED
  BY <1>2, <1>6 DEF CollectedTypes, TypedChanges

(* ResultsNotifier's calculate for results in table order
   (collection_change_builder.cpp:460-544, 768-830): if no row but a candidate for a
   move (one the table's log lists as inserted) has overtaken another, then what is
   not reported deleted is what is not reported inserted, in the order it was in;
   every move is one row, and every row that changed is marked. *)
THEOREM TableOrderAccounts ==
    ASSUME NEW old \in Seq(Int), NEW next \in Seq(Nat), Distinct(next), OnceEach(old),
           NEW changed, NEW candidates, SettledRows(old, next, candidates),
           NEW c, Calculated(c, old, next, changed, TRUE, candidates)
    PROVE  Accounts(c, old, next) /\ ChangedRows(c, next, changed)
<1>1. PICK kept, deleted, removed, ins, e :
         CalculatedFrom(c, old, next, changed, TRUE, candidates, kept, deleted, removed, ins, e)
  BY DEF Calculated
<1>2. PICK mod : mod = {i \in 0 .. Len(next) - 1 : i \notin ins /\ next[i + 1] \in changed}
  OBVIOUS
<1>3. /\ KeptRows(kept, old, next, deleted, removed, ins)
      /\ e = MovesUnsorted(kept, removed, candidates, ins) /\ Collected(c, deleted, e, mod)
  BY <1>1, <1>2 DEF CalculatedFrom
<1>4. Len(old) \in Nat /\ Len(next) \in Nat
  OBVIOUS
<1>5. AllPlaced(e, kept, removed, ins, candidates)
  BY <1>3, <1>4, PlacedAll
<1>6. Settled(kept, candidates)
  <2> SUFFICES ASSUME NEW n \in 1 .. Len(kept), kept[n].index \notin candidates,
                      NEW k \in n + 1 .. Len(kept)
               PROVE  kept[n].was < kept[k].was
    BY DEF Settled, Before
  <2>1. Len(kept) \in Nat
    BY <1>3 DEF KeptRows
  <2>2. k \in 1 .. Len(kept) /\ n < k
    BY <2>1
  <2>3. kept[n].at < kept[k].at
    BY <1>3, <2>2 DEF KeptRows
  <2>4. /\ kept[n].at \in 0 .. Len(next) - 1 /\ kept[n].was \in 0 .. Len(old) - 1
        /\ SameRow(old, next, kept[n].was, kept[n].at) /\ kept[n].index = next[kept[n].at + 1]
    BY <1>3 DEF KeptRows
  <2>5. /\ kept[k].at \in 0 .. Len(next) - 1 /\ kept[k].was \in 0 .. Len(old) - 1
        /\ SameRow(old, next, kept[k].was, kept[k].at)
    BY <1>3, <2>2 DEF KeptRows
  <2> QED
    BY <2>3, <2>4, <2>5 DEF SettledRows
<1>7. Accounts(c, old, next)
  BY <1>3, <1>4, <1>5, <1>6, PlacedAccounts
<1>8. c.mod = mod /\ c.ins = e.ins /\ c.moves = e.moves
  BY <1>3 DEF Collected
<1>9. PICK M : PlacedTo(e, Len(kept), M, kept, removed, ins, candidates)
  BY <1>5 DEF AllPlaced
<1>10. ins \subseteq c.ins
  BY <1>8, <1>9 DEF PlacedTo
<1>11. c.mod \subseteq 0 .. Len(next) - 1
  BY <1>2, <1>8
<1>12. \A j \in ins : ~Keeps(c, j)
  <2> SUFFICES ASSUME NEW j \in ins, NEW k \in DOMAIN c.moves, c.moves[k].to = j
               PROVE  FALSE
    BY <1>10 DEF Keeps
  <2>1. PICK m \in M : c.moves[k].to = kept[m].at
    BY <1>8, <1>9 DEF PlacedTo
  <2>2. m \in 1 .. Len(kept)
    BY <1>9 DEF PlacedTo
  <2>3. kept[m].at \notin ins
    BY <1>3, <2>2 DEF KeptRows
  <2> QED
    BY <2>1, <2>3
<1>13. \A j \in 0 .. Len(next) - 1 : next[j + 1] \in changed => j \in c.mod \/ ~Keeps(c, j)
  BY <1>2, <1>8, <1>12
<1> QED
  BY <1>7, <1>11, <1>13 DEF ChangedRows

-----------------------------------------------------------------------------
(* Blocks that two sequences have in common.  A window is a stretch of each. *)

Window == [begin1 : Nat, end1 : Nat, begin2 : Nat, end2 : Nat]
SameBlock(a, b, i, j, n) == \A k \in 0 .. n - 1 : At(a, i + k) = At(b, j + k)
Blocks(a, b, w) ==
    {x \in (w.begin1 .. w.end1 - 1) \X (w.begin2 .. w.end2 - 1) \X (1 .. Len(a)) :
        x[1] + x[3] <= w.end1 /\ x[2] + x[3] <= w.end2 /\ SameBlock(a, b, x[1], x[2], x[3])}
LongestOf(blocks) ==
    {x \in blocks : \A y \in blocks : y[3] < x[3] \/ (y[3] = x[3] /\ x[1] <= y[1])}
TheLongest(a, b, w) == CHOOSE x \in LongestOf(Blocks(a, b, w)) : TRUE
LeftOf(w, m) == [w EXCEPT !.end1 = m[1], !.end2 = m[2]]
RightOf(w, m) == [w EXCEPT !.begin1 = m[1] + m[3], !.begin2 = m[2] + m[3]]

\* What is matched in the window, given what is in smaller ones.
Around(w, m, F) ==
    {m} \cup (IF m[1] > w.begin1 /\ m[2] > w.begin2 THEN F[LeftOf(w, m)] ELSE {})
        \cup (IF m[1] + m[3] < w.end2 /\ m[2] + m[3] < w.end2 THEN F[RightOf(w, m)] ELSE {})
Matched(a, b, w, F) == IF Blocks(a, b, w) = {} THEN {} ELSE Around(w, TheLongest(a, b, w), F)

Triples == Nat \X Nat \X Nat

\* A block of a window.
BlockOf(x, a, b, w) ==
    /\ x \in Triples /\ x[1] \in Nat /\ x[2] \in Nat /\ x[3] \in Nat /\ x[3] >= 1
    /\ w.begin1 <= x[1] /\ x[1] + x[3] <= w.end1 /\ w.begin2 <= x[2] /\ x[2] + x[3] <= w.end2
    /\ SameBlock(a, b, x[1], x[2], x[3])

LEMMA BlocksAre ==
    ASSUME NEW a, NEW b, Len(a) \in Nat, NEW w \in Window, NEW x \in Blocks(a, b, w)
    PROVE  BlockOf(x, a, b, w) /\ x[3] <= Len(a)
<1>1. /\ w.begin1 \in Nat /\ w.end1 \in Nat /\ w.begin2 \in Nat /\ w.end2 \in Nat
  BY DEF Window
<1>2. x \in (w.begin1 .. w.end1 - 1) \X (w.begin2 .. w.end2 - 1) \X (1 .. Len(a))
  BY DEF Blocks
<1>3. /\ x[1] \in w.begin1 .. w.end1 - 1 /\ x[2] \in w.begin2 .. w.end2 - 1 /\ x[3] \in 1 .. Len(a)
      /\ x = <<x[1], x[2], x[3]>>
  BY <1>2
<1>4. x[1] \in Nat /\ x[2] \in Nat /\ x[3] \in Nat /\ w.begin1 <= x[1] /\ w.begin2 <= x[2]
      /\ x[3] >= 1 /\ x[3] <= Len(a)
  BY <1>1, <1>3
<1>5. x \in Triples
  BY <1>3, <1>4 DEF Triples
<1>6. x[1] + x[3] <= w.end1 /\ x[2] + x[3] <= w.end2 /\ SameBlock(a, b, x[1], x[2], x[3])
  BY DEF Blocks
<1> QED
  BY <1>4, <1>5, <1>6 DEF BlockOf

LEMMA LongestIs ==
    ASSUME NEW a, NEW b, Len(a) \in Nat, NEW w \in Window, Blocks(a, b, w) # {},
           NEW m, m = TheLongest(a, b, w)
    PROVE  BlockOf(m, a, b, w)
<1>1. PICK B : B = Blocks(a, b, w)
  OBVIOUS
<1>2. \A x \in B : x[1] \in Nat /\ x[3] \in Nat /\ x[3] <= Len(a)
  BY <1>1, BlocksAre DEF BlockOf
<1>3. PICK S : S = {Len(a) - x[3] : x \in B}
  OBVIOUS
<1>4. S \in SUBSET Nat /\ S # {}
  BY <1>1, <1>2, <1>3
<1>5. PICK s \in S : \A t \in S : s <= t
  BY <1>4, LeastNumber
<1>6. PICK R : R = {x[1] : x \in {y \in B : Len(a) - y[3] = s}}
  OBVIOUS
<1>7. R \in SUBSET Nat /\ R # {}
  BY <1>2, <1>3, <1>5, <1>6
<1>8. PICK r \in R : \A t \in R : r <= t
  BY <1>7, LeastNumber
<1>9. PICK x \in B : Len(a) - x[3] = s /\ x[1] = r
  BY <1>6, <1>8
<1>10. ASSUME NEW y \in B
       PROVE  y[3] < x[3] \/ (y[3] = x[3] /\ x[1] <= y[1])
  <2>1. s <= Len(a) - y[3]
    BY <1>3, <1>5
  <2>2. y[3] <= x[3]
    BY <1>2, <1>9, <2>1
  <2>3. CASE y[3] = x[3]
    <3>1. y[1] \in R
      BY <1>6, <1>9, <2>3
    <3> QED
      BY <1>8, <1>9, <2>3, <3>1
  <2> QED
    BY <1>2, <2>2, <2>3
<1>11. x \in LongestOf(B)
  BY <1>10 DEF LongestOf
<1>12. m \in LongestOf(B)
  BY <1>1, <1>11 DEF TheLongest
<1>13. m \in Blocks(a, b, w)
  BY <1>1, <1>12 DEF LongestOf
<1> QED
  BY <1>13, BlocksAre

\* How much room a window leaves.
Room(w) == IF w.begin1 < w.end1 /\ w.begin2 < w.end2
           THEN (w.end1 - w.begin1) + (w.end2 - w.begin2) ELSE 0

LEMMA RoomIs ==
    ASSUME NEW w \in Window
    PROVE  Room(w) \in Nat
BY DEF Window, Room

LEMMA Narrower ==
    ASSUME NEW a, NEW b, NEW w \in Window, NEW m, BlockOf(m, a, b, w)
    PROVE  /\ LeftOf(w, m) \in Window /\ RightOf(w, m) \in Window
           /\ LeftOf(w, m).begin1 = w.begin1 /\ LeftOf(w, m).begin2 = w.begin2
           /\ LeftOf(w, m).end1 = m[1] /\ LeftOf(w, m).end2 = m[2]
           /\ RightOf(w, m).begin1 = m[1] + m[3] /\ RightOf(w, m).begin2 = m[2] + m[3]
           /\ RightOf(w, m).end1 = w.end1 /\ RightOf(w, m).end2 = w.end2
           /\ Room(LeftOf(w, m)) < Room(w) /\ Room(RightOf(w, m)) < Room(w)
<1>1. /\ w.begin1 \in Nat /\ w.end1 \in Nat /\ w.begin2 \in Nat /\ w.end2 \in Nat
      /\ DOMAIN w = {"begin1", "end1", "begin2", "end2"}
  BY DEF Window
<1>2. PICK i, j, n : i = m[1] /\ j = m[2] /\ n = m[3]
  OBVIOUS
<1>3. /\ i \in Nat /\ j \in Nat /\ n \in Nat /\ n >= 1 /\ i + n \in Nat /\ j + n \in Nat
      /\ w.begin1 <= i /\ i + n <= w.end1 /\ w.begin2 <= j /\ j + n <= w.end2
  BY <1>2 DEF BlockOf
<1>4. PICK u, v : u = LeftOf(w, m) /\ v = RightOf(w, m)
  OBVIOUS
<1>5. u = [begin1 |-> w.begin1, end1 |-> i, begin2 |-> w.begin2, end2 |-> j]
  BY <1>1, <1>2, <1>4 DEF LeftOf, Window
<1>6. v = [begin1 |-> i + n, end1 |-> w.end1, begin2 |-> j + n, end2 |-> w.end2]
  BY <1>1, <1>2, <1>4 DEF RightOf, Window
<1>7. u \in Window /\ v \in Window
  BY <1>1, <1>3, <1>5, <1>6 DEF Window
<1>8. /\ u.begin1 = w.begin1 /\ u.end1 = i /\ u.begin2 = w.begin2 /\ u.end2 = j
      /\ v.begin1 = i + n /\ v.end1 = w.end1 /\ v.begin2 = j + n /\ v.end2 = w.end2
  BY <1>5, <1>6
<1>9. w.begin1 < w.end1 /\ w.begin2 < w.end2
  BY <1>1, <1>3
<1>10. Room(w) = (w.end1 - w.begin1) + (w.end2 - w.begin2)
  BY <1>9 DEF Room
<1>11. Room(u) < Room(w)
  <2>1. Room(u) = IF w.begin1 < i /\ w.begin2 < j THEN (i - w.begin1) + (j - w.begin2) ELSE 0
    BY <1>8 DEF Room
  <2> QED
    BY <1>1, <1>3, <1>9, <1>10, <2>1
<1>12. Room(v) < Room(w)
  <2>1. Room(v) = IF i + n < w.end1 /\ j + n < w.end2
                  THEN (w.end1 - (i + n)) + (w.end2 - (j + n)) ELSE 0
    BY <1>8 DEF Room
  <2> QED
    BY <1>1, <1>3, <1>9, <1>10, <2>1
<1> QED
  BY <1>2, <1>4, <1>7, <1>8, <1>11, <1>12

Matchings == [Window -> SUBSET Triples]

\* F does what the recursion says on the windows with no more room than k.
MatchesTo(F, k, a, b) ==
    F \in Matchings /\ \A w \in Window : Room(w) <= k => F[w] = Matched(a, b, w, F)

LEMMA MatchedLocally ==
    ASSUME NEW a, NEW b, Len(a) \in Nat, NEW w \in Window, NEW F \in Matchings, NEW G \in Matchings,
           \A v \in Window : Room(v) < Room(w) => F[v] = G[v]
    PROVE  Matched(a, b, w, F) = Matched(a, b, w, G)
<1>1. CASE Blocks(a, b, w) = {}
  BY <1>1 DEF Matched
<1>2. CASE Blocks(a, b, w) # {}
  <2>1. PICK m : m = TheLongest(a, b, w)
    OBVIOUS
  <2>2. BlockOf(m, a, b, w)
    BY <1>2, <2>1, LongestIs
  <2>3. F[LeftOf(w, m)] = G[LeftOf(w, m)] /\ F[RightOf(w, m)] = G[RightOf(w, m)]
    BY <2>2, Narrower
  <2>4. Around(w, m, F) = Around(w, m, G)
    BY <2>3 DEF Around
  <2> QED
    BY <1>2, <2>1, <2>4 DEF Matched
<1> QED
  BY <1>1, <1>2

LEMMA MatchedType ==
    ASSUME NEW a, NEW b, Len(a) \in Nat, NEW w \in Window, NEW F \in Matchings
    PROVE  Matched(a, b, w, F) \in SUBSET Triples
<1>1. CASE Blocks(a, b, w) = {}
  BY <1>1 DEF Matched
<1>2. CASE Blocks(a, b, w) # {}
  <2>1. PICK m : m = TheLongest(a, b, w)
    OBVIOUS
  <2>2. BlockOf(m, a, b, w)
    BY <1>2, <2>1, LongestIs
  <2>3. LeftOf(w, m) \in Window /\ RightOf(w, m) \in Window /\ m \in Triples
    BY <2>2, Narrower DEF BlockOf
  <2>4. F[LeftOf(w, m)] \in SUBSET Triples /\ F[RightOf(w, m)] \in SUBSET Triples
    BY <2>3 DEF Matchings
  <2>5. Around(w, m, F) \in SUBSET Triples
    BY <2>3, <2>4 DEF Around
  <2> QED
    BY <1>2, <2>1, <2>5 DEF Matched
<1> QED
  BY <1>1, <1>2

LEMMA MatchesOnce ==
    ASSUME NEW a, NEW b, Len(a) \in Nat, NEW k \in Nat, NEW F, MatchesTo(F, k, a, b),
           NEW G, MatchesTo(G, k, a, b)
    PROVE  \A w \in Window : Room(w) <= k => F[w] = G[w]
<1>1. PICK T : T = {w \in Window : Room(w) <= k /\ F[w] # G[w]}
  OBVIOUS
<1> SUFFICES ASSUME T # {}
             PROVE  FALSE
  BY <1>1
<1>2. PICK R : R = {Room(w) : w \in T}
  OBVIOUS
<1>3. R \in SUBSET Nat /\ R # {}
  BY <1>1, <1>2, RoomIs
<1>4. PICK r \in R : \A t \in R : r <= t
  BY <1>3, LeastNumber
<1>5. PICK w \in T : r = Room(w)
  BY <1>2, <1>4
<1>6. w \in Window /\ Room(w) <= k /\ F[w] # G[w] /\ Room(w) \in Nat
  BY <1>1, <1>5, RoomIs
<1>7. \A v \in Window : Room(v) < Room(w) => F[v] = G[v]
  <2> SUFFICES ASSUME NEW v \in Window, Room(v) < Room(w), F[v] # G[v]
               PROVE  FALSE
    OBVIOUS
  <2>1. Room(v) \in Nat
    BY RoomIs
  <2>2. Room(v) <= k
    BY <1>6, <2>1
  <2>3. Room(v) \in R
    BY <1>1, <1>2, <2>2
  <2> QED
    BY <1>4, <1>5, <1>6, <2>1, <2>3
<1>8. F \in Matchings /\ G \in Matchings
  BY DEF MatchesTo
<1>9. Matched(a, b, w, F) = Matched(a, b, w, G)
  BY <1>6, <1>7, <1>8, MatchedLocally
<1>10. F[w] = Matched(a, b, w, F) /\ G[w] = Matched(a, b, w, G)
  BY <1>6 DEF MatchesTo
<1> QED
  BY <1>6, <1>9, <1>10

\* One step further.
LEMMA MatchesFurther ==
    ASSUME NEW a, NEW b, Len(a) \in Nat, NEW F \in Matchings, NEW k \in Nat,
           \A w \in Window : Room(w) < k => F[w] = Matched(a, b, w, F),
           NEW G, G = [w \in Window |-> Matched(a, b, w, F)]
    PROVE  MatchesTo(G, k, a, b)
<1>1. G \in Matchings
  BY MatchedType DEF Matchings
<1>2. ASSUME NEW w \in Window, Room(w) <= k
      PROVE  G[w] = Matched(a, b, w, G)
  <2>1. \A v \in Window : Room(v) < Room(w) => F[v] = G[v]
    <3> SUFFICES ASSUME NEW v \in Window, Room(v) < Room(w)
                 PROVE  F[v] = G[v]
      OBVIOUS
    <3>1. Room(v) \in Nat /\ Room(w) \in Nat
      BY RoomIs
    <3>2. Room(v) < k
      BY <1>2, <3>1
    <3> QED
      BY <3>2
  <2>2. Matched(a, b, w, F) = Matched(a, b, w, G)
    BY <1>1, <2>1, MatchedLocally
  <2> QED
    BY <2>2
<1> QED
  BY <1>1, <1>2 DEF MatchesTo

LEMMA MatchesExist ==
    ASSUME NEW a, NEW b, Len(a) \in Nat
    PROVE  \A k \in Nat : \E F : MatchesTo(F, k, a, b)
<1>1. PICK T : T = {k \in Nat : ~\E F : MatchesTo(F, k, a, b)}
  OBVIOUS
<1> SUFFICES ASSUME T # {}
             PROVE  FALSE
  BY <1>1
<1>2. T \in SUBSET Nat
  BY <1>1
<1>3. PICK k \in T : \A l \in T : k <= l
  BY <1>2, LeastNumber
<1>4. k \in Nat /\ ~\E F : MatchesTo(F, k, a, b)
  BY <1>1
<1>5. \E F \in Matchings : \A w \in Window : Room(w) < k => F[w] = Matched(a, b, w, F)
  <2>1. CASE k = 0
    <3>1. PICK F : F = [w \in Window |-> {}]
      OBVIOUS
    <3>2. F \in Matchings
      BY <3>1 DEF Matchings
    <3>3. \A w \in Window : ~(Room(w) < k)
      BY <2>1, RoomIs
    <3> QED
      BY <3>2, <3>3
  <2>2. CASE k # 0
    <3>1. k - 1 \in Nat /\ ~(k <= k - 1)
      BY <1>4, <2>2
    <3>2. k - 1 \notin T
      BY <1>3, <3>1
    <3>3. PICK F : MatchesTo(F, k - 1, a, b)
      BY <1>1, <3>1, <3>2
    <3>4. \A w \in Window : Room(w) < k => Room(w) <= k - 1
      BY <1>4, RoomIs
    <3> QED
      BY <3>3, <3>4 DEF MatchesTo
  <2> QED
    BY <2>1, <2>2
<1>6. PICK F \in Matchings : \A w \in Window : Room(w) < k => F[w] = Matched(a, b, w, F)
  BY <1>5
<1>7. PICK G : G = [w \in Window |-> Matched(a, b, w, F)]
  OBVIOUS
<1>8. MatchesTo(G, k, a, b)
  BY <1>4, <1>6, <1>7, MatchesFurther
<1> QED
  BY <1>4, <1>8

\* There is a function as the recursion describes it.
Within(F, a, b) == F \in Matchings /\ F = [w \in Window |-> Matched(a, b, w, F)]

LEMMA WithinExists ==
    ASSUME NEW a, NEW b, Len(a) \in Nat
    PROVE  \E F : Within(F, a, b)
<1>1. PICK Best : Best = [k \in Nat |-> CHOOSE F : MatchesTo(F, k, a, b)]
  OBVIOUS
<1>2. \A k \in Nat : MatchesTo(Best[k], k, a, b)
  <2> TAKE k \in Nat
  <2>1. \E F : MatchesTo(F, k, a, b)
    BY MatchesExist
  <2>2. MatchesTo((CHOOSE F : MatchesTo(F, k, a, b)), k, a, b)
    BY <2>1
  <2> QED
    BY <1>1, <2>2
<1>3. PICK H : H = [w \in Window |-> Best[Room(w)][w]]
  OBVIOUS
<1>4. H \in Matchings
  <2>1. ASSUME NEW w \in Window
        PROVE  Best[Room(w)][w] \in SUBSET Triples
    <3>1. Best[Room(w)] \in Matchings
      BY <1>2, RoomIs DEF MatchesTo
    <3> QED
      BY <3>1 DEF Matchings
  <2> QED
    BY <1>3, <2>1 DEF Matchings
<1>5. ASSUME NEW w \in Window
      PROVE  H[w] = Matched(a, b, w, H)
  <2>1. PICK k : k = Room(w) /\ k \in Nat
    BY RoomIs
  <2>2. PICK F : F = Best[k]
    OBVIOUS
  <2>3. MatchesTo(F, k, a, b)
    BY <1>2, <2>1, <2>2
  <2>4. H[w] = F[w] /\ F \in Matchings /\ F[w] = Matched(a, b, w, F)
    BY <1>3, <2>1, <2>2, <2>3 DEF MatchesTo
  <2>5. ASSUME NEW v \in Window, Room(v) < Room(w)
        PROVE  H[v] = F[v]
    <3>1. PICK l : l = Room(v) /\ l \in Nat
      BY RoomIs
    <3>2. l < k
      BY <2>1, <2>5, <3>1
    <3>3. MatchesTo(Best[l], l, a, b)
      BY <1>2, <3>1
    <3>4. MatchesTo(F, l, a, b)
      <4>1. \A x \in Window : Room(x) <= l => Room(x) <= k
        BY <2>1, <3>1, <3>2, RoomIs
      <4> QED
        BY <2>3, <4>1 DEF MatchesTo
    <3>5. Best[l][v] = F[v]
      BY <3>1, <3>3, <3>4, MatchesOnce
    <3> QED
      BY <1>3, <3>1, <3>5
  <2>6. Matched(a, b, w, H) = Matched(a, b, w, F)
    BY <1>4, <2>4, <2>5, MatchedLocally
  <2> QED
    BY <2>4, <2>6
<1>6. H = [w \in Window |-> Matched(a, b, w, H)]
  BY <1>3, <1>5
<1> QED
  BY <1>4, <1>6 DEF Within

LEMMA LongestMatchesIs ==
    ASSUME NEW a, NEW b, Len(a) \in Nat, NEW from, NEW e, e = LongestMatches(a, b, from)
    PROVE  \E F : /\ F = [w \in Window |-> Matched(a, b, w, F)]
                  /\ e = F[[begin1 |-> from, end1 |-> Len(a), begin2 |-> from, end2 |-> Len(b)]]
<1>1. PICK F : F = CHOOSE G : G = [w \in Window |-> Matched(a, b, w, G)]
  OBVIOUS
<1>2. F = [w \in Window |-> Matched(a, b, w, F)]
  BY <1>1, WithinExists DEF Within
<1>3. e = F[[begin1 |-> from, end1 |-> Len(a), begin2 |-> from, end2 |-> Len(b)]]
  BY <1>1 DEF LongestMatches, Matched, Around, TheLongest, LongestOf, Blocks, LeftOf, RightOf,
              SameBlock, Window
<1> QED
  BY <1>2, <1>3

Precedes(x, y) == x[1] + x[3] <= y[1] /\ x[2] + x[3] <= y[2]

\* Blocks of a window, one after the other in both sequences.
ApartIn(X, a, b, w) ==
    /\ \A x \in X : BlockOf(x, a, b, w)
    /\ \A x, y \in X : x = y \/ Precedes(x, y) \/ Precedes(y, x)

LEMMA AroundApart ==
    ASSUME NEW a, NEW b, NEW w \in Window, NEW m, BlockOf(m, a, b, w), NEW F,
           ApartIn(F[LeftOf(w, m)], a, b, LeftOf(w, m)),
           ApartIn(F[RightOf(w, m)], a, b, RightOf(w, m))
    PROVE  ApartIn(Around(w, m, F), a, b, w)
<1>1. PICK L, R : L = F[LeftOf(w, m)] /\ R = F[RightOf(w, m)]
  OBVIOUS
<1>2. /\ w.begin1 \in Nat /\ w.end1 \in Nat /\ w.begin2 \in Nat /\ w.end2 \in Nat
  BY DEF Window
<1>3. /\ m[1] \in Nat /\ m[2] \in Nat /\ m[3] \in Nat /\ m[3] >= 1
      /\ w.begin1 <= m[1] /\ m[1] + m[3] <= w.end1 /\ w.begin2 <= m[2] /\ m[2] + m[3] <= w.end2
  BY DEF BlockOf
<1>13. /\ LeftOf(w, m).begin1 = w.begin1 /\ LeftOf(w, m).begin2 = w.begin2
       /\ LeftOf(w, m).end1 = m[1] /\ LeftOf(w, m).end2 = m[2]
       /\ RightOf(w, m).begin1 = m[1] + m[3] /\ RightOf(w, m).begin2 = m[2] + m[3]
       /\ RightOf(w, m).end1 = w.end1 /\ RightOf(w, m).end2 = w.end2
  BY Narrower
<1>4. ASSUME NEW x \in L
      PROVE  BlockOf(x, a, b, w) /\ Precedes(x, m)
  <2>1. BlockOf(x, a, b, LeftOf(w, m))
    BY <1>1 DEF ApartIn
  <2>2. /\ x \in Triples /\ x[1] \in Nat /\ x[2] \in Nat /\ x[3] \in Nat /\ x[3] >= 1
        /\ w.begin1 <= x[1] /\ x[1] + x[3] <= m[1] /\ w.begin2 <= x[2] /\ x[2] + x[3] <= m[2]
        /\ SameBlock(a, b, x[1], x[2], x[3])
    BY <1>13, <2>1 DEF BlockOf
  <2>3. x[1] + x[3] <= w.end1 /\ x[2] + x[3] <= w.end2
    BY <1>2, <1>3, <2>2
  <2> QED
    BY <2>2, <2>3 DEF BlockOf, Precedes
<1>5. ASSUME NEW x \in R
      PROVE  BlockOf(x, a, b, w) /\ Precedes(m, x)
  <2>1. BlockOf(x, a, b, RightOf(w, m))
    BY <1>1 DEF ApartIn
  <2>2. /\ x \in Triples /\ x[1] \in Nat /\ x[2] \in Nat /\ x[3] \in Nat /\ x[3] >= 1
        /\ m[1] + m[3] <= x[1] /\ x[1] + x[3] <= w.end1
        /\ m[2] + m[3] <= x[2] /\ x[2] + x[3] <= w.end2
        /\ SameBlock(a, b, x[1], x[2], x[3])
    BY <1>13, <2>1 DEF BlockOf
  <2>3. w.begin1 <= x[1] /\ w.begin2 <= x[2]
    BY <1>2, <1>3, <2>2
  <2> QED
    BY <2>2, <2>3 DEF BlockOf, Precedes
<1>6. ASSUME NEW x \in L, NEW y \in R
      PROVE  Precedes(x, y)
  <2>1. BlockOf(x, a, b, w) /\ BlockOf(y, a, b, w) /\ Precedes(x, m) /\ Precedes(m, y)
    BY <1>4, <1>5
  <2>2. /\ x[1] \in Nat /\ x[2] \in Nat /\ x[3] \in Nat /\ y[1] \in Nat /\ y[2] \in Nat
    BY <2>1 DEF BlockOf
  <2> QED
    BY <1>3, <2>1, <2>2 DEF Precedes
<1>7. \A x \in Around(w, m, F) : x = m \/ x \in L \/ x \in R
  BY <1>1 DEF Around
<1>8. \A x \in Around(w, m, F) : BlockOf(x, a, b, w)
  BY <1>4, <1>5, <1>7
<1>9. \A x, y \in L : x = y \/ Precedes(x, y) \/ Precedes(y, x)
  BY <1>1 DEF ApartIn
<1>10. \A x, y \in R : x = y \/ Precedes(x, y) \/ Precedes(y, x)
  BY <1>1 DEF ApartIn
<1>11. \A x, y \in Around(w, m, F) : x = y \/ Precedes(x, y) \/ Precedes(y, x)
  BY <1>4, <1>5, <1>6, <1>7, <1>9, <1>10
<1> QED
  BY <1>8, <1>11 DEF ApartIn

LEMMA MatchesApart ==
    ASSUME NEW a, NEW b, Len(a) \in Nat, NEW F, F = [w \in Window |-> Matched(a, b, w, F)]
    PROVE  \A w \in Window : ApartIn(F[w], a, b, w)
<1>0. \A w \in Window : F[w] = Matched(a, b, w, F)
  <2>1. PICK G : G = F
    OBVIOUS
  <2>2. \A w \in Window : G[w] = Matched(a, b, w, F)
    BY <2>1
  <2> QED
    BY <2>1, <2>2
<1>1. PICK T : T = {w \in Window : ~ApartIn(F[w], a, b, w)}
  OBVIOUS
<1> SUFFICES ASSUME T # {}
             PROVE  FALSE
  BY <1>1
<1>2. PICK R : R = {Room(w) : w \in T}
  OBVIOUS
<1>3. R \in SUBSET Nat /\ R # {}
  BY <1>1, <1>2, RoomIs
<1>4. PICK r \in R : \A t \in R : r <= t
  BY <1>3, LeastNumber
<1>5. PICK w \in T : r = Room(w)
  BY <1>2, <1>4
<1>6. w \in Window /\ ~ApartIn(F[w], a, b, w) /\ Room(w) \in Nat
  BY <1>1, <1>5, RoomIs
<1>7. \A v \in Window : Room(v) < Room(w) => ApartIn(F[v], a, b, v)
  <2> SUFFICES ASSUME NEW v \in Window, Room(v) < Room(w), ~ApartIn(F[v], a, b, v)
               PROVE  FALSE
    OBVIOUS
  <2>1. Room(v) \in Nat /\ Room(v) \in R
    BY <1>1, <1>2, RoomIs
  <2> QED
    BY <1>4, <1>5, <1>6, <2>1
<1>8. CASE Blocks(a, b, w) = {}
  <2>1. F[w] = {}
    BY <1>0, <1>6, <1>8 DEF Matched
  <2> QED
    BY <1>6, <2>1 DEF ApartIn
<1>9. CASE Blocks(a, b, w) # {}
  <2>1. PICK m : m = TheLongest(a, b, w)
    OBVIOUS
  <2>2. BlockOf(m, a, b, w)
    BY <1>6, <1>9, <2>1, LongestIs
  <2>3. /\ LeftOf(w, m) \in Window /\ RightOf(w, m) \in Window
        /\ Room(LeftOf(w, m)) < Room(w) /\ Room(RightOf(w, m)) < Room(w)
    BY <1>6, <2>2, Narrower
  <2>4. ApartIn(F[LeftOf(w, m)], a, b, LeftOf(w, m)) /\ ApartIn(F[RightOf(w, m)], a, b, RightOf(w, m))
    BY <1>7, <2>3
  <2>5. ApartIn(Around(w, m, F), a, b, w)
    BY <1>6, <2>2, <2>4, AroundApart
  <2>6. F[w] = Around(w, m, F)
    BY <1>0, <1>6, <1>9, <2>1 DEF Matched
  <2> QED
    BY <1>6, <2>5, <2>6
<1> QED
  BY <1>8, <1>9

-----------------------------------------------------------------------------
\* The positions in the blocks.
InFirst(X) == UNION {m[1] .. m[1] + m[3] - 1 : m \in X}
InSecond(X) == UNION {m[2] .. m[2] + m[3] - 1 : m \in X}

\* p of the one is q of the other: before the first difference, or in a block.
Paired(X, first, p, q) ==
    \/ p \in 0 .. first - 1 /\ q = p
    \/ \E x \in X : \E k \in 0 .. x[3] - 1 : p = x[1] + k /\ q = x[2] + k

Pairing(X, first, a, b) ==
    /\ \A p, q : Paired(X, first, p, q) =>
          /\ p \in 0 .. Len(a) - 1 /\ q \in 0 .. Len(b) - 1 /\ At(a, p) = At(b, q)
          /\ p < first \/ p \in InFirst(X)
          /\ q < first \/ q \in InSecond(X)
    /\ \A p \in Nat : p < first \/ p \in InFirst(X) => \E q : Paired(X, first, p, q)
    /\ \A q \in Nat : q < first \/ q \in InSecond(X) => \E p : Paired(X, first, p, q)
    /\ \A p, q, s, t : Paired(X, first, p, q) /\ Paired(X, first, s, t) /\ p < s => q < t

LEMMA BlocksPair ==
    ASSUME NEW a, NEW b, Len(a) \in Nat, Len(b) \in Nat, NEW first \in Nat,
           first <= Len(a), first <= Len(b), \A m \in 0 .. first - 1 : At(a, m) = At(b, m),
           NEW w, w = [begin1 |-> first, end1 |-> Len(a), begin2 |-> first, end2 |-> Len(b)],
           NEW X, ApartIn(X, a, b, w)
    PROVE  Pairing(X, first, a, b)
<1>1. ASSUME NEW x \in X
      PROVE  /\ x[1] \in Nat /\ x[2] \in Nat /\ x[3] \in Nat /\ x[3] >= 1
             /\ first <= x[1] /\ x[1] + x[3] <= Len(a) /\ first <= x[2] /\ x[2] + x[3] <= Len(b)
             /\ \A k \in 0 .. x[3] - 1 : At(a, x[1] + k) = At(b, x[2] + k)
  <2>1. BlockOf(x, a, b, w)
    BY DEF ApartIn
  <2>2. w.begin1 = first /\ w.end1 = Len(a) /\ w.begin2 = first /\ w.end2 = Len(b)
    OBVIOUS
  <2> QED
    BY <2>1, <2>2 DEF BlockOf, SameBlock
<1>2. ASSUME NEW x \in X, NEW k \in 0 .. x[3] - 1
      PROVE  /\ x[1] + k \in 0 .. Len(a) - 1 /\ x[2] + k \in 0 .. Len(b) - 1
             /\ x[1] + k \in x[1] .. x[1] + x[3] - 1 /\ x[2] + k \in x[2] .. x[2] + x[3] - 1
             /\ x[1] + k >= first /\ x[2] + k >= first
  <2>1. PICK i, j, n : i = x[1] /\ j = x[2] /\ n = x[3]
    OBVIOUS
  <2>2. /\ i \in Nat /\ j \in Nat /\ n \in Nat /\ k \in 0 .. n - 1
        /\ first <= i /\ i + n <= Len(a) /\ first <= j /\ j + n <= Len(b)
    BY <1>1, <2>1
  <2>3. /\ i + k \in 0 .. Len(a) - 1 /\ j + k \in 0 .. Len(b) - 1
        /\ i + k \in i .. i + n - 1 /\ j + k \in j .. j + n - 1
        /\ i + k >= first /\ j + k >= first
    BY <2>2
  <2> QED
    BY <2>1, <2>3
<1>3. ASSUME NEW p, NEW q, Paired(X, first, p, q)
      PROVE  /\ p \in 0 .. Len(a) - 1 /\ q \in 0 .. Len(b) - 1 /\ At(a, p) = At(b, q)
             /\ p < first \/ p \in InFirst(X)
             /\ q < first \/ q \in InSecond(X)
  <2>1. CASE p \in 0 .. first - 1 /\ q = p
    BY <2>1
  <2>2. ASSUME NEW x \in X, NEW k \in 0 .. x[3] - 1, p = x[1] + k, q = x[2] + k
        PROVE  /\ p \in 0 .. Len(a) - 1 /\ q \in 0 .. Len(b) - 1 /\ At(a, p) = At(b, q)
               /\ p \in InFirst(X) /\ q \in InSecond(X)
    <3>1. /\ p \in 0 .. Len(a) - 1 /\ q \in 0 .. Len(b) - 1
          /\ p \in x[1] .. x[1] + x[3] - 1 /\ q \in x[2] .. x[2] + x[3] - 1
      BY <1>2, <2>2
    <3>2. At(a, p) = At(b, q)
      BY <1>1, <2>2
    <3>3. p \in InFirst(X) /\ q \in InSecond(X)
      BY <3>1 DEF InFirst, InSecond
    <3> QED
      BY <3>1, <3>2, <3>3
  <2> QED
    BY <1>3, <2>1, <2>2 DEF Paired
<1>4. ASSUME NEW p \in Nat, p < first \/ p \in InFirst(X)
      PROVE  \E q : Paired(X, first, p, q)
  <2>1. CASE p < first
    <3>1. p \in 0 .. first - 1
      BY <2>1
    <3> QED
      BY <3>1 DEF Paired
  <2>2. CASE p \in InFirst(X)
    <3>1. PICK x \in X : p \in x[1] .. x[1] + x[3] - 1
      BY <2>2 DEF InFirst
    <3>2. p - x[1] \in 0 .. x[3] - 1 /\ p = x[1] + (p - x[1])
      <4>1. PICK from, size : from = x[1] /\ size = x[3]
        OBVIOUS
      <4>2. from \in Nat /\ size \in Nat /\ p \in from .. from + size - 1
        BY <1>1, <3>1, <4>1
      <4>3. p - from \in 0 .. size - 1 /\ p = from + (p - from)
        BY <4>2
      <4> QED
        BY <4>1, <4>3
    <3>3. Paired(X, first, p, x[2] + (p - x[1]))
      BY <3>2 DEF Paired
    <3> QED
      BY <3>3
  <2> QED
    BY <1>4, <2>1, <2>2
<1>5. ASSUME NEW q \in Nat, q < first \/ q \in InSecond(X)
      PROVE  \E p : Paired(X, first, p, q)
  <2>1. CASE q < first
    <3>1. q \in 0 .. first - 1
      BY <2>1
    <3> QED
      BY <3>1 DEF Paired
  <2>2. CASE q \in InSecond(X)
    <3>1. PICK x \in X : q \in x[2] .. x[2] + x[3] - 1
      BY <2>2 DEF InSecond
    <3>2. q - x[2] \in 0 .. x[3] - 1 /\ q = x[2] + (q - x[2])
      <4>1. PICK from, size : from = x[2] /\ size = x[3]
        OBVIOUS
      <4>2. from \in Nat /\ size \in Nat /\ q \in from .. from + size - 1
        BY <1>1, <3>1, <4>1
      <4>3. q - from \in 0 .. size - 1 /\ q = from + (q - from)
        BY <4>2
      <4> QED
        BY <4>1, <4>3
    <3>3. Paired(X, first, x[1] + (q - x[2]), q)
      BY <3>2 DEF Paired
    <3> QED
      BY <3>3
  <2> QED
    BY <1>5, <2>1, <2>2
<1>6. ASSUME NEW p, NEW q, NEW s, NEW t, Paired(X, first, p, q), Paired(X, first, s, t), p < s
      PROVE  q < t
  <2>1. /\ p \in Nat /\ q \in Nat /\ s \in Nat /\ t \in Nat
    BY <1>3, <1>6
  <2>2. CASE s \in 0 .. first - 1 /\ t = s
    <3>1. \A x \in X : \A k \in 0 .. x[3] - 1 : p # x[1] + k
      BY <1>2, <1>6, <2>1, <2>2
    <3> QED
      BY <1>6, <2>2, <3>1 DEF Paired
  <2>3. ASSUME NEW y \in X, NEW l \in 0 .. y[3] - 1, s = y[1] + l, t = y[2] + l
        PROVE  q < t
    <3>1. CASE p \in 0 .. first - 1 /\ q = p
      BY <1>2, <2>1, <2>3, <3>1
    <3>2. ASSUME NEW x \in X, NEW k \in 0 .. x[3] - 1, p = x[1] + k, q = x[2] + k
          PROVE  q < t
      <4>1. PICK i, j, n : i = x[1] /\ j = x[2] /\ n = x[3]
        OBVIOUS
      <4>6. PICK f, g, h : f = y[1] /\ g = y[2] /\ h = y[3]
        OBVIOUS
      <4>7. /\ i \in Nat /\ j \in Nat /\ n \in Nat /\ k \in 0 .. n - 1 /\ p = i + k /\ q = j + k
        BY <1>1, <3>2, <4>1
      <4>8. /\ f \in Nat /\ g \in Nat /\ h \in Nat /\ l \in 0 .. h - 1 /\ s = f + l /\ t = g + l
        BY <1>1, <2>3, <4>6
      <4>9. k \in Int /\ 0 <= k /\ k < n /\ l \in Int /\ 0 <= l /\ l < h
        BY <4>7, <4>8
      <4>2. x = y \/ Precedes(x, y) \/ Precedes(y, x)
        BY DEF ApartIn
      <4>3. CASE x = y
        <5>1. f = i /\ g = j
          BY <4>1, <4>3, <4>6
        <5> QED
          BY <1>6, <4>7, <4>8, <4>9, <5>1
      <4>4. CASE Precedes(x, y)
        <5>1. j + n <= g
          BY <4>1, <4>4, <4>6 DEF Precedes
        <5> QED
          BY <4>7, <4>8, <4>9, <5>1
      <4>5. ~Precedes(y, x)
        <5> SUFFICES ASSUME Precedes(y, x)
                     PROVE  FALSE
          OBVIOUS
        <5>1. f + h <= i
          BY <4>1, <4>6 DEF Precedes
        <5> QED
          BY <1>6, <4>7, <4>8, <4>9, <5>1
      <4> QED
        BY <4>2, <4>3, <4>4, <4>5
    <3> QED
      BY <1>6, <3>1, <3>2 DEF Paired
  <2> QED
    BY <1>6, <2>2, <2>3 DEF Paired
<1> QED
  BY <1>3, <1>4, <1>5, <1>6 DEF Pairing

-----------------------------------------------------------------------------
(* What calculate makes of results in any order. *)

\* The moves when the rows may come in any order: a and b are the rows that are in
\* both, in the old order and in the new, X the blocks they have in common.
SortedFrom(e, old, kept, removed, ins, was, a, b, first, X) ==
    /\ was = InOrder({kept[n].was : n \in 1 .. Len(kept)}) /\ Ordered({kept[n].was : n \in 1 .. Len(kept)}, was)
    /\ DOMAIN was = 1 .. Len(kept)
    /\ Len(a) = Len(kept) /\ \A n \in 1 .. Len(kept) : a[n] = old[was[n] + 1]
    /\ Len(b) = Len(kept) /\ \A n \in 1 .. Len(kept) : b[n] = kept[n].index
    /\ first \in 0 .. Len(kept) /\ Pairing(X, first, a, b)
    /\ e.ins = ins \cup {kept[n + 1].at : n \in (first .. Len(kept) - 1) \ InSecond(X)}
    /\ e.del = removed \cup {was[n + 1] : n \in (first .. Len(kept) - 1) \ InFirst(X)}
    /\ e.moves = << >>

LEMMA FirstDifference ==
    ASSUME NEW a, NEW b, Len(a) \in Nat, NEW first,
           first = CHOOSE n \in 0 .. Len(a) : /\ n < Len(a) => At(a, n) # At(b, n)
                                              /\ \A m \in 0 .. n - 1 : At(a, m) = At(b, m)
    PROVE  first \in 0 .. Len(a) /\ \A m \in 0 .. first - 1 : At(a, m) = At(b, m)
<1>1. PICK T : T = {n \in 0 .. Len(a) : n < Len(a) => At(a, n) # At(b, n)}
  OBVIOUS
<1>2. T \in SUBSET Nat /\ Len(a) \in T
  BY <1>1
<1>3. PICK n \in T : \A k \in T : n <= k
  BY <1>2, LeastNumber
<1>4. n \in 0 .. Len(a) /\ (n < Len(a) => At(a, n) # At(b, n))
  BY <1>1
<1>5. \A m \in 0 .. n - 1 : At(a, m) = At(b, m)
  <2> SUFFICES ASSUME NEW m \in 0 .. n - 1, At(a, m) # At(b, m)
               PROVE  FALSE
    OBVIOUS
  <2>1. m \in 0 .. Len(a) /\ m < n /\ m \in Int /\ n \in Int
    BY <1>4
  <2>2. m \in T
    BY <1>1, <2>1
  <2> QED
    BY <1>3, <2>1, <2>2
<1> QED
  BY <1>4, <1>5

LEMMA SortedIs ==
    ASSUME NEW kept, NEW old, NEW next, NEW deleted, NEW removed, NEW ins,
           Len(old) \in Nat, Len(next) \in Nat,
           KeptRows(kept, old, next, deleted, removed, ins),
           NEW e, e = MovesSorted(old, kept, removed, ins)
    PROVE  \E was, a, b, first, X : SortedFrom(e, old, kept, removed, ins, was, a, b, first, X)
<1>0. PICK l : l = Len(kept) /\ l \in Nat /\ DOMAIN kept = 1 .. l
  BY DEF KeptRows
<1>1. PICK W : W = {kept[n].was : n \in 1 .. l}
  OBVIOUS
<1>2. PositionSet(W) /\ Cardinality(W) = l
  <2>1. PICK f : f = [n \in 1 .. l |-> kept[n].was]
    OBVIOUS
  <2>2. \A n \in 1 .. l : kept[n].was \in Nat
    BY <1>0, KeptRow
  <2>3. \A m, n \in 1 .. l : kept[m].was = kept[n].was => m = n
    BY <1>0 DEF KeptRows
  <2>4. IsFiniteSet(1 .. l) /\ Cardinality(1 .. l) = l
    <3>1. 1 \in Int /\ l \in Int /\ l \in Nat
      BY <1>0
    <3>2. IsFiniteSet(1 .. l) /\ Cardinality(1 .. l) = IF 1 > l THEN 0 ELSE l - 1 + 1
      BY <3>1, FS_Interval
    <3> QED
      BY <3>1, <3>2
  <2>5. f \in Surjection(1 .. l, W) /\ f \in Injection(1 .. l, W)
    <3>1. f \in [1 .. l -> W]
      BY <1>1, <2>1
    <3>2. \A w \in W : \E n \in 1 .. l : f[n] = w
      BY <1>1, <2>1
    <3>3. IsInjective(f)
      BY <2>1, <2>3 DEF IsInjective
    <3> QED
      BY <3>1, <3>2, <3>3 DEF Surjection, Injection
  <2>6. IsFiniteSet(W) /\ Cardinality(W) = l
    BY <2>4, <2>5, FS_Surjection
  <2>7. W \subseteq Nat
    BY <1>1, <2>2
  <2> QED
    BY <2>6, <2>7 DEF PositionSet
<1>3. PICK was : was = InOrder(W)
  OBVIOUS
<1>4. Ordered(W, was) /\ DOMAIN was = 1 .. l
  <2>1. Ordered(W, was)
    BY <1>2, <1>3, InOrderFacts
  <2> QED
    BY <1>2, <2>1 DEF Ordered
<1>5. PICK a, b : a = [n \in DOMAIN was |-> At(old, was[n])] /\ b = [n \in DOMAIN kept |-> kept[n].index]
  OBVIOUS
<1>6. Len(a) = l /\ \A n \in 1 .. l : a[n] = old[was[n] + 1]
  <2>1. a = [n \in 1 .. l |-> a[n]]
    BY <1>4, <1>5
  <2>2. a \in [1 .. l -> {a[n] : n \in 1 .. l}]
    BY <2>1
  <2>3. Len(a) = l
    BY <1>0, <2>2, SeqIs
  <2> QED
    BY <1>4, <1>5, <2>3 DEF At
<1>7. Len(b) = l /\ \A n \in 1 .. l : b[n] = kept[n].index
  <2>1. b = [n \in 1 .. l |-> b[n]]
    BY <1>0, <1>5
  <2>2. b \in [1 .. l -> {b[n] : n \in 1 .. l}]
    BY <2>1
  <2>3. Len(b) = l
    BY <1>0, <2>2, SeqIs
  <2> QED
    BY <1>0, <1>5, <2>3
<1>8. PICK first : first = CHOOSE n \in 0 .. Len(a) : /\ n < Len(a) => At(a, n) # At(b, n)
                                                      /\ \A m \in 0 .. n - 1 : At(a, m) = At(b, m)
  OBVIOUS
<1>9. first \in 0 .. l /\ \A m \in 0 .. first - 1 : At(a, m) = At(b, m)
  <2>0. Len(a) \in Nat
    BY <1>0, <1>6
  <2>1. first \in 0 .. Len(a) /\ \A m \in 0 .. first - 1 : At(a, m) = At(b, m)
    BY <1>8, <2>0, FirstDifference
  <2> QED
    BY <1>6, <2>1
<1>10. PICK X : X = LongestMatches(a, b, first)
  OBVIOUS
<1>11. PICK w : w = [begin1 |-> first, end1 |-> Len(a), begin2 |-> first, end2 |-> Len(b)]
  OBVIOUS
<1>12. w \in Window /\ first \in Nat
  BY <1>0, <1>6, <1>7, <1>9, <1>11 DEF Window
<1>13. ApartIn(X, a, b, w)
  <2>1. PICK F : F = [v \in Window |-> Matched(a, b, v, F)] /\ X = F[w]
    BY <1>0, <1>6, <1>10, <1>11, LongestMatchesIs
  <2>2. ApartIn(F[w], a, b, w)
    BY <1>0, <1>6, <1>12, <2>1, MatchesApart
  <2> QED
    BY <2>1, <2>2
<1>14. Pairing(X, first, a, b)
  <2>1. Len(a) \in Nat /\ Len(b) \in Nat /\ first <= Len(a) /\ first <= Len(b)
    BY <1>0, <1>6, <1>7, <1>9
  <2> QED
    BY <1>9, <1>11, <1>12, <1>13, <2>1, BlocksPair
<1>15. e = [ins |-> ins \cup {At(kept, n).at : n \in (first .. Len(b) - 1) \ InSecond(X)},
            del |-> removed \cup {At(was, n) : n \in (first .. Len(a) - 1) \ InFirst(X)},
            moves |-> << >>]
  <2>1. was = InOrder({kept[n].was : n \in DOMAIN kept})
    BY <1>0, <1>1, <1>3
  <2>2. e = LET from == CHOOSE n \in 0 .. Len(a) : /\ n < Len(a) => At(a, n) # At(b, n)
                                                  /\ \A m \in 0 .. n - 1 : At(a, m) = At(b, m)
                matches == LongestMatches(a, b, from)
            IN [ins |-> ins \cup {At(kept, n).at : n \in (from .. Len(b) - 1)
                                                     \ UNION {m[2] .. m[2] + m[3] - 1 : m \in matches}},
                del |-> removed \cup {At(was, n) : n \in (from .. Len(a) - 1)
                                                     \ UNION {m[1] .. m[1] + m[3] - 1 : m \in matches}},
                moves |-> << >>]
    BY <2>1, <1>5 DEF MovesSorted
  <2> QED
    BY <2>2, <1>8, <1>10 DEF InFirst, InSecond
<1>16. /\ e.ins = ins \cup {kept[n + 1].at : n \in (first .. l - 1) \ InSecond(X)}
       /\ e.del = removed \cup {was[n + 1] : n \in (first .. l - 1) \ InFirst(X)}
       /\ e.moves = << >>
  BY <1>6, <1>7, <1>15 DEF At
<1>17. SortedFrom(e, old, kept, removed, ins, was, a, b, first, X)
  BY <1>0, <1>1, <1>3, <1>4, <1>6, <1>7, <1>9, <1>14, <1>16 DEF SortedFrom
<1> QED
  BY <1>17

\* Rows that may come in any order.
LEMMA SortedTypes ==
    ASSUME NEW kept, NEW old, NEW next, NEW deleted, NEW removed, NEW ins,
           Len(old) \in Nat, Len(next) \in Nat,
           KeptRows(kept, old, next, deleted, removed, ins),
           NEW e, NEW was, NEW a, NEW b, NEW first, NEW X,
           SortedFrom(e, old, kept, removed, ins, was, a, b, first, X),
           NEW mod, NEW c, Collected(c, deleted, e, mod)
    PROVE  CollectedTypes(c, mod) /\ c.del \subseteq 0 .. Len(old) - 1 /\ c.ins \subseteq 0 .. Len(next) - 1
<1>1. /\ c = [del |-> c.del, ins |-> c.ins, mod |-> c.mod, moves |-> c.moves, map |-> c.map]
      /\ c.del = deleted \cup e.del /\ c.ins = e.ins /\ c.mod = mod /\ c.moves = e.moves
      /\ c.map = << >>
  BY DEF Collected
<1>2. Len(kept) \in Nat /\ first \in Nat
  BY DEF KeptRows, SortedFrom
<1>3. \A n \in first .. Len(kept) - 1 : n + 1 \in 1 .. Len(kept)
  BY <1>2
<1>4. \A n \in 1 .. Len(kept) : kept[n].at \in 0 .. Len(next) - 1 /\ kept[n].was \in 0 .. Len(old) - 1
  BY KeptRow
<1>5. \A n \in 1 .. Len(kept) : was[n] \in 0 .. Len(old) - 1
  <2> TAKE n \in 1 .. Len(kept)
  <2>1. PICK W : W = {kept[k].was : k \in 1 .. Len(kept)}
    OBVIOUS
  <2>2. Ordered(W, was) /\ DOMAIN was = 1 .. Len(kept)
    BY <2>1 DEF SortedFrom
  <2>3. was[n] \in W
    BY <2>2 DEF Ordered
  <2> QED
    BY <1>4, <2>1, <2>3
<1>6. c.ins \subseteq 0 .. Len(next) - 1
  <2>1. ins \subseteq 0 .. Len(next) - 1
    BY DEF KeptRows
  <2>2. c.ins = ins \cup {kept[n + 1].at : n \in (first .. Len(kept) - 1) \ InSecond(X)}
    BY <1>1 DEF SortedFrom
  <2> QED
    BY <1>3, <1>4, <2>1, <2>2
<1>7. c.del \subseteq 0 .. Len(old) - 1
  <2>1. deleted \cup removed \subseteq 0 .. Len(old) - 1
    BY DEF KeptRows
  <2>2. c.del = deleted \cup removed \cup {was[n + 1] : n \in (first .. Len(kept) - 1) \ InFirst(X)}
    BY <1>1 DEF SortedFrom
  <2> QED
    BY <1>3, <1>5, <2>1, <2>2
<1>8. IsFiniteSet(0 .. Len(next) - 1) /\ IsFiniteSet(0 .. Len(old) - 1)
  BY PositionsFinite
<1>9. PositionSet(c.del) /\ PositionSet(c.ins)
  BY <1>6, <1>7, <1>8, FS_Subset DEF PositionSet
<1>10. c.moves = << >> /\ << >> \in Seq(MovePairs)
  BY <1>1 DEF SortedFrom
<1> QED
  BY <1>1, <1>6, <1>7, <1>9, <1>10 DEF CollectedTypes, Builder, Sets

LEMMA SortedAccounts ==
    ASSUME NEW kept, NEW old, NEW next, NEW deleted, NEW removed, NEW ins,
           Len(old) \in Nat, Len(next) \in Nat, Distinct(next), OnceEach(old),
           \A j \in 1 .. Len(next) : next[j] # Gone,
           KeptRows(kept, old, next, deleted, removed, ins),
           NEW e, NEW was, NEW a, NEW b, NEW first, NEW X,
           SortedFrom(e, old, kept, removed, ins, was, a, b, first, X),
           NEW mod, NEW c, Collected(c, deleted, e, mod)
    PROVE  Accounts(c, old, next)
<1>1. CollectedTypes(c, mod) /\ c.del \subseteq 0 .. Len(old) - 1 /\ c.ins \subseteq 0 .. Len(next) - 1
  BY SortedTypes
<1>2. PICK l : l = Len(kept) /\ l \in Nat /\ first \in 0 .. l
  BY DEF KeptRows, SortedFrom
<1>3. /\ c.ins = ins \cup {kept[n + 1].at : n \in (first .. l - 1) \ InSecond(X)}
      /\ c.del = deleted \cup removed \cup {was[n + 1] : n \in (first .. l - 1) \ InFirst(X)}
      /\ c.moves = << >>
  BY <1>2 DEF SortedFrom, Collected
<1>4. \A m, n \in 1 .. l : m < n => kept[m].at < kept[n].at
  BY <1>2 DEF KeptRows
<1>5. /\ \A n \in 1 .. l : \E k \in 1 .. l : was[n] = kept[k].was
      /\ \A k \in 1 .. l : \E n \in 1 .. l : was[n] = kept[k].was
      /\ \A m, n \in 1 .. l : m < n => was[m] < was[n]
  <2>1. PICK W : W = {kept[k].was : k \in 1 .. l}
    OBVIOUS
  <2>2. Ordered(W, was) /\ DOMAIN was = 1 .. l
    BY <1>2, <2>1 DEF SortedFrom
  <2>3. DOMAIN was = 1 .. Cardinality(W)
    BY <2>2 DEF Ordered
  <2>4. /\ \A n \in 1 .. l : was[n] \in W
        /\ \A w \in W : \E n \in 1 .. l : was[n] = w
        /\ \A m, n \in 1 .. l : m < n => was[m] < was[n]
    BY <2>2, <2>3 DEF Ordered
  <2> QED
    BY <2>1, <2>4
<1>6. ASSUME NEW n \in 1 .. l
      PROVE  /\ kept[n].was \in 0 .. Len(old) - 1 /\ kept[n].at \in 0 .. Len(next) - 1
             /\ SameRow(old, next, kept[n].was, kept[n].at) /\ kept[n].at \in Nat
             /\ kept[n].was \notin deleted \cup removed /\ kept[n].at \notin ins
  BY <1>2, KeptRow DEF KeptRows
<1>7. ASSUME NEW n \in 1 .. l
      PROVE  was[n] \in Nat /\ was[n] \in 0 .. Len(old) - 1 /\ was[n] \notin deleted \cup removed
  <2>1. PICK k \in 1 .. l : was[n] = kept[k].was
    BY <1>5
  <2>2. kept[k].was \in 0 .. Len(old) - 1 /\ kept[k].was \notin deleted \cup removed
    BY <1>6
  <2> QED
    BY <2>1, <2>2
\* Positions of the rows that stay, in a and in b.
<1>8. ASSUME NEW p \in 0 .. l - 1
      PROVE  was[p + 1] \in c.del <=> ~(p < first \/ p \in InFirst(X))
  <2>1. p + 1 \in 1 .. l /\ (p < first \/ p \in first .. l - 1)
    BY <1>2
  <2>2. was[p + 1] \notin deleted \cup removed
    BY <1>7, <2>1
  <2>3. ASSUME NEW n \in first .. l - 1, was[n + 1] = was[p + 1]
        PROVE  n = p
    <3>1. n + 1 \in 1 .. l
      BY <1>2
    <3>2. was[n + 1] \in Nat /\ was[p + 1] \in Nat
      BY <1>7, <2>1, <3>1
    <3>3. \A m, k \in 1 .. l : m < k => was[m] < was[k]
      BY <1>5
    <3>4. ~(n + 1 < p + 1)
      BY <2>1, <2>3, <3>1, <3>2, <3>3
    <3>5. ~(p + 1 < n + 1)
      BY <2>1, <2>3, <3>1, <3>2, <3>3
    <3> QED
      BY <1>2, <3>4, <3>5
  <2>4. ~(p < first \/ p \in InFirst(X)) => was[p + 1] \in c.del
    BY <1>3, <2>1
  <2>5. was[p + 1] \in c.del => \E n \in (first .. l - 1) \ InFirst(X) : was[n + 1] = was[p + 1]
    BY <1>3, <2>2
  <2>6. was[p + 1] \in c.del => p \in first .. l - 1 /\ p \notin InFirst(X)
    BY <2>3, <2>5
  <2>7. p \in first .. l - 1 => ~(p < first)
    BY <1>2
  <2> QED
    BY <2>4, <2>6, <2>7
<1>9. ASSUME NEW q \in 0 .. l - 1
      PROVE  kept[q + 1].at \in c.ins <=> ~(q < first \/ q \in InSecond(X))
  <2>1. q + 1 \in 1 .. l /\ (q < first \/ q \in first .. l - 1)
    BY <1>2
  <2>2. kept[q + 1].at \notin ins
    BY <1>6, <2>1
  <2>3. ASSUME NEW n \in first .. l - 1, kept[n + 1].at = kept[q + 1].at
        PROVE  n = q
    <3>1. n + 1 \in 1 .. l
      BY <1>2
    <3>2. kept[n + 1].at \in Nat /\ kept[q + 1].at \in Nat
      BY <1>6, <2>1, <3>1
    <3>3. ~(n + 1 < q + 1) /\ ~(q + 1 < n + 1)
      BY <1>4, <2>1, <2>3, <3>1, <3>2
    <3> QED
      BY <1>2, <3>3
  <2>4. ~(q < first \/ q \in InSecond(X)) => kept[q + 1].at \in c.ins
    BY <1>3, <2>1
  <2>5. kept[q + 1].at \in c.ins => \E n \in (first .. l - 1) \ InSecond(X) : kept[n + 1].at = kept[q + 1].at
    BY <1>3, <2>2
  <2>6. kept[q + 1].at \in c.ins => q \in first .. l - 1 /\ q \notin InSecond(X)
    BY <2>3, <2>5
  <2>7. q \in first .. l - 1 => ~(q < first)
    BY <1>2
  <2> QED
    BY <2>4, <2>6, <2>7
\* A pair is of one row.
<1>10. ASSUME NEW p, NEW q, Paired(X, first, p, q)
       PROVE  /\ p \in 0 .. l - 1 /\ q \in 0 .. l - 1
              /\ SameRow(old, next, was[p + 1], kept[q + 1].at)
              /\ was[p + 1] \notin c.del /\ kept[q + 1].at \notin c.ins
  <2>1. Len(a) = l /\ Len(b) = l /\ Pairing(X, first, a, b)
    BY <1>2 DEF SortedFrom
  <2>2. /\ p \in 0 .. l - 1 /\ q \in 0 .. l - 1 /\ At(a, p) = At(b, q)
        /\ p < first \/ p \in InFirst(X)
        /\ q < first \/ q \in InSecond(X)
    BY <1>10, <2>1 DEF Pairing
  <2>3. p + 1 \in 1 .. l /\ q + 1 \in 1 .. l
    BY <1>2, <2>2
  <2>4. a[p + 1] = old[was[p + 1] + 1] /\ b[q + 1] = kept[q + 1].index
    BY <1>2, <2>3 DEF SortedFrom
  <2>5. kept[q + 1].index = next[kept[q + 1].at + 1]
    BY <1>2, <2>3 DEF KeptRows
  <2>6. was[p + 1] \in 0 .. Len(old) - 1 /\ kept[q + 1].at \in 0 .. Len(next) - 1
    BY <1>6, <1>7, <2>3
  <2>7. SameRow(old, next, was[p + 1], kept[q + 1].at)
    BY <2>2, <2>4, <2>5, <2>6 DEF SameRow, At
  <2> QED
    BY <1>8, <1>9, <2>2, <2>7
<1>11. /\ \A p \in 0 .. l - 1 : was[p + 1] \notin c.del => \E q : Paired(X, first, p, q)
       /\ \A q \in 0 .. l - 1 : kept[q + 1].at \notin c.ins => \E p : Paired(X, first, p, q)
       /\ \A p, q, s, t : Paired(X, first, p, q) /\ Paired(X, first, s, t) /\ p < s => q < t
  <2>1. Pairing(X, first, a, b)
    BY DEF SortedFrom
  <2>2. \A p \in 0 .. l - 1 : p \in Nat
    BY <1>2
  <2> QED
    BY <1>8, <1>9, <2>1, <2>2 DEF Pairing
<1>12. ASSUME NEW i \in 0 .. Len(old) - 1, i \notin c.del
       PROVE  \E p \in 0 .. l - 1 : was[p + 1] = i
  <2>1. i \notin deleted \cup removed
    BY <1>3, <1>12
  <2>2. PICK k \in 1 .. l : kept[k].was = i
    BY <1>2, <2>1 DEF KeptRows
  <2>3. PICK n \in 1 .. l : was[n] = i
    BY <1>5, <2>2
  <2>4. n - 1 \in 0 .. l - 1 /\ n - 1 + 1 = n
    BY <1>2
  <2> QED
    BY <2>3, <2>4
<1>13. ASSUME NEW j \in 0 .. Len(next) - 1, j \notin c.ins
       PROVE  \E q \in 0 .. l - 1 : kept[q + 1].at = j
  <2>1. j \notin ins
    BY <1>3, <1>13
  <2>2. PICK n \in 1 .. l : kept[n].at = j
    BY <1>2, <2>1 DEF KeptRows
  <2>4. n - 1 \in 0 .. l - 1 /\ n - 1 + 1 = n
    BY <1>2
  <2> QED
    BY <2>2, <2>4
<1>14. ASSUME NEW i \in 0 .. Len(old) - 1, i \notin c.del
       PROVE  \E p, q : Paired(X, first, p, q) /\ was[p + 1] = i
  BY <1>11, <1>12, <1>14
<1>15. \A i \in 0 .. Len(old) - 1 : i \notin c.del =>
          \E j \in 0 .. Len(next) - 1 : j \notin c.ins /\ SameRow(old, next, i, j)
  <2> SUFFICES ASSUME NEW i \in 0 .. Len(old) - 1, i \notin c.del
               PROVE  \E j \in 0 .. Len(next) - 1 : j \notin c.ins /\ SameRow(old, next, i, j)
    OBVIOUS
  <2>1. PICK p, q : Paired(X, first, p, q) /\ was[p + 1] = i
    BY <1>14
  <2>2. SameRow(old, next, i, kept[q + 1].at) /\ kept[q + 1].at \notin c.ins
    BY <1>10, <2>1
  <2> QED
    BY <2>2 DEF SameRow
<1>16. \A j \in 0 .. Len(next) - 1 : j \notin c.ins =>
          \E i \in 0 .. Len(old) - 1 : i \notin c.del /\ SameRow(old, next, i, j)
  <2> SUFFICES ASSUME NEW j \in 0 .. Len(next) - 1, j \notin c.ins
               PROVE  \E i \in 0 .. Len(old) - 1 : i \notin c.del /\ SameRow(old, next, i, j)
    OBVIOUS
  <2>1. PICK q \in 0 .. l - 1 : kept[q + 1].at = j
    BY <1>13
  <2>2. PICK p : Paired(X, first, p, q)
    BY <1>11, <2>1
  <2>3. SameRow(old, next, was[p + 1], j) /\ was[p + 1] \notin c.del
    BY <1>10, <2>1, <2>2
  <2> QED
    BY <2>3 DEF SameRow
<1>17. ASSUME NEW i \in 0 .. Len(old) - 1, NEW k \in 0 .. Len(old) - 1,
              NEW j \in 0 .. Len(next) - 1, NEW h \in 0 .. Len(next) - 1,
              i \notin c.del, k \notin c.del, SameRow(old, next, i, j), SameRow(old, next, k, h), i < k
       PROVE  j < h
  <2>1. PICK p, q : Paired(X, first, p, q) /\ was[p + 1] = i
    BY <1>14, <1>17
  <2>2. PICK s, t : Paired(X, first, s, t) /\ was[s + 1] = k
    BY <1>14, <1>17
  <2>3. /\ p \in 0 .. l - 1 /\ q \in 0 .. l - 1 /\ s \in 0 .. l - 1 /\ t \in 0 .. l - 1
        /\ SameRow(old, next, i, kept[q + 1].at) /\ SameRow(old, next, k, kept[t + 1].at)
    BY <1>10, <2>1, <2>2
  <2>4. kept[q + 1].at = j /\ kept[t + 1].at = h
    BY <1>17, <2>3, SameRowNow
  <2>5. p + 1 \in 1 .. l /\ s + 1 \in 1 .. l /\ q + 1 \in 1 .. l /\ t + 1 \in 1 .. l
    BY <1>2, <2>3
  <2>6. p < s
    <3> SUFFICES ASSUME ~(p < s)
                 PROVE  FALSE
      OBVIOUS
    <3>1. s + 1 < p + 1 \/ s + 1 = p + 1
      BY <2>3
    <3>2. k < i \/ k = i
      BY <1>5, <2>1, <2>2, <2>5, <3>1
    <3> QED
      BY <1>17, <3>2
  <2>7. q < t
    BY <1>11, <2>1, <2>2, <2>6
  <2>8. q + 1 < t + 1
    BY <2>3, <2>7
  <2> QED
    BY <1>4, <2>4, <2>5, <2>8
<1>18. c.moves \in Seq(MovePairs) /\ DOMAIN c.moves = {}
  BY <1>1, <1>3 DEF CollectedTypes
<1>19. Builder(c)
  BY <1>1 DEF CollectedTypes
<1> QED
  BY <1>1, <1>15, <1>16, <1>17, <1>18, <1>19 DEF Accounts

(* ResultsNotifier's calculate for results that are sorted
   (collection_change_builder.cpp:546-766, 768-830): wherever the rows go, what is
   not reported deleted is what is not reported inserted, in the order it was in, and
   every row that changed is marked. *)
THEOREM AnyOrderAccounts ==
    ASSUME NEW old \in Seq(Int), NEW next \in Seq(Nat), Distinct(next), OnceEach(old),
           NEW changed, NEW candidates,
           NEW c, Calculated(c, old, next, changed, FALSE, candidates)
    PROVE  TypedChanges(c) /\ Accounts(c, old, next) /\ ChangedRows(c, next, changed)
<1>1. PICK kept, deleted, removed, ins, e :
         CalculatedFrom(c, old, next, changed, FALSE, candidates, kept, deleted, removed, ins, e)
  BY DEF Calculated
<1>2. PICK mod : mod = {i \in 0 .. Len(next) - 1 : i \notin ins /\ next[i + 1] \in changed}
  OBVIOUS
<1>3. /\ KeptRows(kept, old, next, deleted, removed, ins)
      /\ e = MovesSorted(old, kept, removed, ins) /\ Collected(c, deleted, e, mod)
  BY <1>1, <1>2 DEF CalculatedFrom
<1>4. Len(old) \in Nat /\ Len(next) \in Nat
  OBVIOUS
<1>5. PICK was, a, b, first, X : SortedFrom(e, old, kept, removed, ins, was, a, b, first, X)
  BY <1>3, <1>4, SortedIs
<1>6. CollectedTypes(c, mod)
  BY <1>3, <1>4, <1>5, SortedTypes
<1>7. \A j \in 1 .. Len(next) : next[j] # Gone
  <2>1. \A j \in 1 .. Len(next) : next[j] \in Nat
    OBVIOUS
  <2> QED
    BY <2>1 DEF Gone
<1>8. Accounts(c, old, next)
  BY <1>3, <1>4, <1>5, <1>7, SortedAccounts
<1>9. c.mod = mod /\ c.ins = e.ins /\ c.moves = << >>
  BY <1>3, <1>5 DEF Collected, SortedFrom
<1>10. ins \subseteq c.ins
  BY <1>5, <1>9 DEF SortedFrom
<1>11. c.mod \subseteq 0 .. Len(next) - 1
  BY <1>2, <1>9
<1>12. \A j \in ins : ~Keeps(c, j)
  BY <1>9, <1>10 DEF Keeps
<1>13. \A j \in 0 .. Len(next) - 1 : next[j + 1] \in changed => j \in c.mod \/ ~Keeps(c, j)
  BY <1>2, <1>9, <1>12
<1>14. TypedChanges(c)
  BY <1>2, <1>6 DEF CollectedTypes, TypedChanges
<1> QED
  BY <1>8, <1>11, <1>13, <1>14 DEF ChangedRows

-----------------------------------------------------------------------------
(* Where the rows of the last results are now. *)

\* f is the position in r of the row that was at p of l, or -1 if it is gone.
RowNow(l, r, p, f) ==
    \/ f = Gone /\ Unknown(l[p + 1], r)
    \/ f \in 0 .. Len(r) - 1 /\ r[f + 1] = l[p + 1]

LEMMA FollowRowIs ==
    ASSUME NEW l \in Seq(Nat), NEW r \in Seq(Nat), Distinct(l), NEW b, Leads(b, l, r),
           NEW p \in 0 .. Len(l) - 1, NEW f, f = FollowRow(b, p)
    PROVE  RowNow(l, r, p, f)
<1>1. Builder(b) /\ Sets(b) /\ Aligned(b, l, r) /\ TrueMoves(b, l, r)
  BY DEF Leads, Builder
<1>2. b.moves \in Seq(MovePairs)
  BY <1>1 DEF TrueMoves
<1>3. p \in Nat /\ p < Len(l) /\ Len(r) \in Nat
  OBVIOUS
<1>4. CASE p \notin b.del
  <2>1. f = Follows(b, p)
    BY <1>4 DEF FollowRow, Follows
  <2>2. f < Len(r) /\ l[p + 1] = r[f + 1]
    BY <1>1, <1>3, <1>4, <2>1 DEF Aligned
  <2>3. f \in Nat
    BY <1>1, <1>3, <1>4, <2>1, FollowsFacts
  <2>4. f \in 0 .. Len(r) - 1
    BY <1>3, <2>2, <2>3
  <2> QED
    BY <2>2, <2>4 DEF RowNow
<1>5. CASE p \in b.del
  <2>1. PICK n : n = SelectInSeq(b.moves, LAMBDA m : m.from = p)
    OBVIOUS
  <2>2. f = IF n = 0 THEN Gone ELSE b.moves[n].to
    BY <1>5, <2>1 DEF FollowRow
  <2>3. StartsAt(b.moves, p, n)
    BY <1>2, <2>1, StartsAtIs
  <2>4. DOMAIN b.moves = 1 .. Len(b.moves) /\ Len(b.moves) \in Nat
    BY <1>2
  <2>5. CASE n = 0
    <3>1. \A k \in 1 .. Len(b.moves) : b.moves[k].from # p
      BY <2>3, <2>5 DEF StartsAt
    <3>2. ~MovedOn(p, b, l, r)
      BY <2>4, <3>1 DEF MovedOn
    <3>3. Unknown(l[p + 1], r)
      BY <1>5, <3>2, MovedByC
    <3> QED
      BY <2>2, <2>5, <3>3 DEF RowNow
  <2>6. CASE n # 0
    <3>1. n \in DOMAIN b.moves /\ b.moves[n].from = p
      BY <2>3, <2>4, <2>6 DEF StartsAt
    <3>2. TrueMove(b, b.moves[n], l, r)
      BY <1>1, <3>1 DEF TrueMoves
    <3> QED
      BY <2>2, <2>6, <3>1, <3>2 DEF TrueMove, RowNow
  <2> QED
    BY <2>5, <2>6
<1> QED
  BY <1>4, <1>5

\* The entries of s are at the positions q of r.
RowsAre(q, s, r) ==
    /\ q \in Seq(Nat) /\ Len(q) = Len(s) /\ Len(s) \in Nat
    /\ \A i \in 1 .. Len(s) : q[i] \in 0 .. Len(r) - 1 /\ r[q[i] + 1] = s[i]

\* old are the rows at q of l, now.
NowAt(old, q, l, r) ==
    /\ old \in Seq(Int) /\ Len(old) = Len(q)
    /\ \A i \in 1 .. Len(q) : RowNow(l, r, q[i], old[i])

LEMMA FollowedRows ==
    ASSUME NEW l \in Seq(Nat), NEW r \in Seq(Nat), Distinct(l), NEW b, Leads(b, l, r),
           NEW s, NEW q, RowsAre(q, s, l), Distinct(s),
           NEW old, old = [i \in DOMAIN q |-> FollowRow(b, q[i])]
    PROVE  NowAt(old, q, l, r) /\ OnceEach(old)
<1>1. q \in Seq(Nat) /\ Len(q) = Len(s) /\ DOMAIN q = 1 .. Len(s) /\ Len(s) \in Nat
  BY DEF RowsAre
<1>2. \A i \in 1 .. Len(s) : q[i] \in 0 .. Len(l) - 1 /\ l[q[i] + 1] = s[i]
  BY DEF RowsAre
<1>3. ASSUME NEW i \in 1 .. Len(s)
      PROVE  RowNow(l, r, q[i], old[i])
  <2>1. q[i] \in 0 .. Len(l) - 1 /\ old[i] = FollowRow(b, q[i])
    BY <1>1, <1>2
  <2> QED
    BY <2>1, FollowRowIs
<1>4. ASSUME NEW i \in 1 .. Len(s)
      PROVE  old[i] \in Int
  <2>1. RowNow(l, r, q[i], old[i]) /\ Len(r) \in Nat
    BY <1>3
  <2> QED
    BY <2>1 DEF RowNow, Gone
<1>5. old \in Seq(Int) /\ Len(old) = Len(s)
  <2>1. old = [i \in 1 .. Len(s) |-> FollowRow(b, q[i])]
    BY <1>1
  <2>2. old \in [1 .. Len(s) -> Int]
    BY <1>4, <2>1
  <2> QED
    BY <1>1, <2>2, SeqIs
<1>6. NowAt(old, q, l, r)
  BY <1>1, <1>3, <1>5 DEF NowAt
<1>7. OnceEach(old)
  <2> SUFFICES ASSUME NEW i \in 1 .. Len(s), NEW j \in 1 .. Len(s), old[i] = old[j], old[i] # Gone
               PROVE  i = j
    BY <1>5 DEF OnceEach
  <2>1. r[old[i] + 1] = l[q[i] + 1] /\ r[old[j] + 1] = l[q[j] + 1]
    BY <1>3 DEF RowNow
  <2>2. s[i] = s[j]
    BY <1>2, <2>1
  <2> QED
    BY <2>2 DEF Distinct
<1> QED
  BY <1>6, <1>7

\* A row that is in both is one entry.
LEMMA SameEntry ==
    ASSUME NEW l, NEW r, NEW s, NEW q, RowsAre(q, s, l), NEW old, NowAt(old, q, l, r),
           NEW u, NEW next, RowsAre(next, u, r), NEW i, NEW j, SameRow(old, next, i, j)
    PROVE  i \in 0 .. Len(s) - 1 /\ j \in 0 .. Len(u) - 1 /\ s[i + 1] = u[j + 1]
<1>1. /\ Len(old) = Len(s) /\ Len(next) = Len(u) /\ Len(s) \in Nat /\ Len(u) \in Nat
      /\ next \in Seq(Nat)
  BY DEF RowsAre, NowAt
<1>2. i \in 0 .. Len(s) - 1 /\ j \in 0 .. Len(u) - 1 /\ old[i + 1] = next[j + 1]
  BY <1>1 DEF SameRow
<1>3. i + 1 \in 1 .. Len(s) /\ j + 1 \in 1 .. Len(u)
  BY <1>1, <1>2
<1>4. RowNow(l, r, q[i + 1], old[i + 1]) /\ l[q[i + 1] + 1] = s[i + 1]
  <2>1. Len(q) = Len(s)
    BY DEF RowsAre
  <2> QED
    BY <1>3, <2>1 DEF RowsAre, NowAt
<1>5. next[j + 1] \in Nat /\ r[next[j + 1] + 1] = u[j + 1]
  BY <1>1, <1>3 DEF RowsAre
<1>6. old[i + 1] # Gone
  BY <1>2, <1>5 DEF Gone
<1>7. r[old[i + 1] + 1] = l[q[i + 1] + 1]
  BY <1>4, <1>6 DEF RowNow
<1> QED
  BY <1>2, <1>4, <1>5, <1>7

\* Positions of distinct entries are distinct.
LEMMA RowsOnce ==
    ASSUME NEW r, NEW u, Distinct(u), NEW next, RowsAre(next, u, r)
    PROVE  Distinct(next)
BY DEF RowsAre, Distinct

-----------------------------------------------------------------------------
(* A run of the notifier of results.  The entries of the results are numbered anew
   when they leave and come back: base is f of s, last is f of t, and what the
   callback will be told leads from s to t. *)

LEMMA KeptFrom ==
    ASSUME NEW c, NEW old, NEW next, Accounts(c, old, next), NEW j \in 0 .. Len(next) - 1, Keeps(c, j)
    PROVE  \E i \in 0 .. Len(old) - 1 : SameRow(old, next, i, j)
<1>1. CASE j \notin c.ins
  BY <1>1 DEF Accounts
<1>2. CASE j \in c.ins
  <2>1. PICK k \in DOMAIN c.moves : c.moves[k].to = j
    BY <1>2 DEF Keeps
  <2>2. SameRow(old, next, c.moves[k].from, j)
    BY <2>1 DEF Accounts
  <2> QED
    BY <2>2 DEF SameRow
<1> QED
  BY <1>1, <1>2

LEMMA NumbersExist ==
    ASSUME NEW c, NEW old, NEW next, Accounts(c, old, next), Len(old) \in Nat, next \in Seq(Nat),
           Distinct(next), NEW n \in Nat, NEW t, KnownTo(t, n), Len(t) = Len(old)
    PROVE  \E u : Numbered(t, u, c, old, next, n) /\ KnownTo(u, n + Len(next))
<1>1. t \in Seq(Nat) /\ Distinct(t) /\ \A k \in 1 .. Len(t) : t[k] \in Nat /\ t[k] <= n
  BY DEF KnownTo
<1>2. PICK l : l = Len(next) /\ l \in Nat
  OBVIOUS
<1>3. PICK g : g = [x \in 1 .. l |-> CHOOSE i \in 0 .. Len(old) - 1 : SameRow(old, next, i, x - 1)]
  OBVIOUS
<1>4. PICK u : u = [x \in 1 .. l |-> IF Keeps(c, x - 1) THEN t[g[x] + 1] ELSE n + x]
  OBVIOUS
<1>5. ASSUME NEW x \in 1 .. l
      PROVE  IF Keeps(c, x - 1) THEN /\ g[x] \in 0 .. Len(old) - 1 /\ SameRow(old, next, g[x], x - 1)
                                     /\ u[x] = t[g[x] + 1] /\ g[x] + 1 \in 1 .. Len(t)
                                ELSE u[x] = n + x
  <2>1. CASE Keeps(c, x - 1)
    <3>1. x - 1 \in 0 .. Len(next) - 1
      BY <1>2
    <3>2. \E i \in 0 .. Len(old) - 1 : SameRow(old, next, i, x - 1)
      BY <2>1, <3>1, KeptFrom
    <3>3. g[x] \in 0 .. Len(old) - 1 /\ SameRow(old, next, g[x], x - 1)
      BY <1>3, <3>2
    <3>4. g[x] + 1 \in 1 .. Len(t)
      BY <3>3
    <3> QED
      BY <1>4, <2>1, <3>3, <3>4
  <2>2. CASE ~Keeps(c, x - 1)
    BY <1>4, <2>2
  <2> QED
    BY <2>1, <2>2
<1>6. ASSUME NEW x \in 1 .. l
      PROVE  /\ u[x] \in Nat /\ u[x] <= n + l
             /\ Keeps(c, x - 1) => u[x] <= n
             /\ ~Keeps(c, x - 1) => u[x] = n + x
  <2>1. CASE Keeps(c, x - 1)
    <3>1. u[x] = t[g[x] + 1] /\ g[x] + 1 \in 1 .. Len(t)
      BY <1>5, <2>1
    <3>2. t[g[x] + 1] \in Nat /\ t[g[x] + 1] <= n
      BY <1>1, <3>1
    <3> QED
      BY <1>2, <2>1, <3>1, <3>2
  <2>2. CASE ~Keeps(c, x - 1)
    <3>1. u[x] = n + x
      BY <1>5, <2>2
    <3> QED
      BY <1>2, <2>2, <3>1
  <2> QED
    BY <2>1, <2>2
<1>7. u \in Seq(Nat) /\ Len(u) = l
  <2>1. u = [x \in 1 .. l |-> u[x]]
    BY <1>4
  <2>2. u \in [1 .. l -> Nat]
    BY <1>6, <2>1
  <2> QED
    BY <1>2, <2>2, SeqIs
<1>8. \A j \in 0 .. l - 1 :
        IF Keeps(c, j) THEN \E i \in 0 .. Len(old) - 1 : SameRow(old, next, i, j) /\ u[j + 1] = t[i + 1]
                       ELSE u[j + 1] = n + j + 1
  <2> TAKE j \in 0 .. l - 1
  <2>1. j + 1 \in 1 .. l /\ j + 1 - 1 = j /\ n + (j + 1) = n + j + 1
    BY <1>2
  <2>2. CASE Keeps(c, j)
    <3>1. g[j + 1] \in 0 .. Len(old) - 1 /\ SameRow(old, next, g[j + 1], j) /\ u[j + 1] = t[g[j + 1] + 1]
      BY <1>5, <2>1, <2>2
    <3> QED
      BY <2>2, <3>1
  <2>3. CASE ~Keeps(c, j)
    <3>1. u[j + 1] = n + (j + 1)
      BY <1>5, <2>1, <2>3
    <3> QED
      BY <2>1, <2>3, <3>1
  <2> QED
    BY <2>2, <2>3
<1>9. Numbered(t, u, c, old, next, n)
  BY <1>1, <1>2, <1>7, <1>8 DEF Numbered
<1>10. Distinct(u)
  <2> SUFFICES ASSUME NEW x \in 1 .. l, NEW y \in 1 .. l, u[x] = u[y]
               PROVE  x = y
    BY <1>7 DEF Distinct
  <2>1. x \in Nat /\ y \in Nat /\ x >= 1 /\ y >= 1
    BY <1>2
  <2>2. CASE Keeps(c, x - 1) /\ Keeps(c, y - 1)
    <3>1. /\ SameRow(old, next, g[x], x - 1) /\ u[x] = t[g[x] + 1] /\ g[x] + 1 \in 1 .. Len(t)
          /\ SameRow(old, next, g[y], y - 1) /\ u[y] = t[g[y] + 1] /\ g[y] + 1 \in 1 .. Len(t)
      BY <1>5, <2>2
    <3>2. g[x] + 1 = g[y] + 1
      BY <1>1, <3>1 DEF Distinct
    <3>3. old[g[x] + 1] = next[x - 1 + 1] /\ old[g[y] + 1] = next[y - 1 + 1]
      BY <3>1 DEF SameRow
    <3>4. x - 1 + 1 = x /\ y - 1 + 1 = y
      BY <2>1
    <3>5. next[x] = next[y] /\ x \in 1 .. Len(next) /\ y \in 1 .. Len(next)
      BY <1>2, <3>2, <3>3, <3>4
    <3> QED
      BY <3>5 DEF Distinct
  <2>3. CASE ~Keeps(c, x - 1) /\ ~Keeps(c, y - 1)
    <3>1. u[x] = n + x /\ u[y] = n + y
      BY <1>6, <2>3
    <3>2. n + x = n + y
      BY <3>1
    <3> QED
      BY <2>1, <3>2
  <2>4. CASE ~(Keeps(c, x - 1) <=> Keeps(c, y - 1))
    <3>1. \/ u[x] = n + x /\ u[y] \in Nat /\ u[y] <= n
          \/ u[y] = n + y /\ u[x] \in Nat /\ u[x] <= n
      BY <1>6, <2>4
    <3>2. u[x] # u[y]
      BY <2>1, <3>1
    <3> QED
      BY <3>2
  <2> QED
    BY <2>2, <2>3, <2>4
<1>11. KnownTo(u, n + Len(next))
  BY <1>2, <1>6, <1>7, <1>10 DEF KnownTo
<1> QED
  BY <1>9, <1>11

\* What is told once the changes of a run are known, with all it tells of.
LEMMA NumbersTold ==
    ASSUME NEW s, NEW t, NEW a, NEW m, NEW n, Told(s, t, t, a, NoChange, m, n),
           NEW c, NEW old, NEW next, Accounts(c, old, next), NEW u, Numbered(t, u, c, old, next, n),
           KnownTo(u, n + Len(next)), Leads(c, t, u), Len(next) \in Nat,
           c.mod \subseteq 0 .. Len(next) - 1,
           NEW k, k = n + Len(next), NEW v, v = {x \in 0 .. k : ToldOf(x, s, t, u, a, c)}
    PROVE  Told(s, t, u, a, c, v, k)
<1>1. /\ n \in Nat /\ k \in Nat /\ n <= k /\ KnownTo(s, n) /\ KnownTo(t, n)
      /\ Leads(a, s, t) /\ a.map = << >> /\ Holds(a, t)
  BY DEF Told
<1>2. KnownTo(s, k) /\ KnownTo(t, k) /\ KnownTo(u, k)
  <2>1. ASSUME NEW q, KnownTo(q, n)
        PROVE  KnownTo(q, k)
    <3>1. \A x \in 1 .. Len(q) : q[x] \in Nat /\ q[x] <= n
      BY <2>1 DEF KnownTo
    <3>2. \A x \in 1 .. Len(q) : q[x] <= k
      BY <1>1, <3>1
    <3> QED
      BY <2>1, <3>2 DEF KnownTo
  <2> QED
    BY <1>1, <2>1
<1>3. Holds(c, u)
  BY DEF Numbered, Holds
<1>4. NoneBack(s, t, u)
  <2> SUFFICES ASSUME NEW x \in 1 .. Len(s), NEW y \in 1 .. Len(u), s[x] = u[y]
               PROVE  \E j \in 1 .. Len(t) : t[j] = s[x]
    BY DEF NoneBack
  <2>1. s[x] \in Nat /\ s[x] <= n
    <3>1. s \in Seq(Nat) /\ \A z \in 1 .. Len(s) : s[z] <= n
      BY <1>1 DEF KnownTo
    <3>2. s[x] \in Nat
      BY <3>1
    <3> QED
      BY <3>1, <3>2
  <2>2. Len(u) = Len(next) /\ Len(t) = Len(old) /\ t \in Seq(Nat)
    BY DEF Numbered
  <2>3. y - 1 \in 0 .. Len(next) - 1 /\ y - 1 + 1 = y /\ y >= 1
    BY <2>2
  <2>4. y \in Nat
    BY <2>2
  <2>5. IF Keeps(c, y - 1) THEN \E i \in 0 .. Len(old) - 1 : u[y - 1 + 1] = t[i + 1]
                           ELSE u[y - 1 + 1] = n + (y - 1) + 1
    BY <2>3 DEF Numbered
  <2>6. Keeps(c, y - 1)
    <3> SUFFICES ASSUME ~Keeps(c, y - 1)
                 PROVE  FALSE
      OBVIOUS
    <3>1. u[y] = n + (y - 1) + 1
      BY <2>3, <2>5
    <3> QED
      <4>1. PICK z : z = s[x] /\ z = u[y]
        OBVIOUS
      <4>2. z \in Nat /\ z <= n /\ z = n + (y - 1) + 1
        BY <2>1, <3>1, <4>1
      <4> QED
        BY <1>1, <2>3, <2>4, <4>2
  <2>7. PICK i \in 0 .. Len(old) - 1 : u[y] = t[i + 1]
    BY <2>3, <2>5, <2>6
  <2>8. i + 1 \in 1 .. Len(t)
    BY <2>2
  <2> QED
    BY <2>7, <2>8
<1>5. v \subseteq 0 .. k /\ \A x \in v : ToldOf(x, s, t, u, a, c)
  OBVIOUS
<1> QED
  BY <1>1, <1>2, <1>3, <1>4, <1>5 DEF Told

\* The entries of p have the numbers in s.
NamedBy(f, s, p) == Len(p) = Len(s) /\ \A i \in 1 .. Len(s) : p[i] = f[s[i]]

\* p are the callback's results and q those of the last run; the entries in y were
\* modified since the callback's, those in z since the last run.
Numbers(s, t, f, m, n, p, q, a, y, z) ==
    /\ Told(s, t, t, a, NoChange, m, n) /\ NamedBy(f, s, p) /\ NamedBy(f, t, q)
    /\ \A i \in 1 .. Len(q) : q[i] \in y => t[i] \in m \/ q[i] \in z
ResultsTold(p, q, a, y, z) == \E s, t, f, m, n : Numbers(s, t, f, m, n, p, q, a, y, z)

\* The rows in changed are those of the entries in z, unless these are new or gone.
RowsMarked(z, l, r, changed) ==
    \A v \in z : Unknown(v, r) \/ Unknown(v, l) \/ \E x \in changed : x \in 0 .. Len(r) - 1 /\ r[x + 1] = v

\* All that is known when a run has calculated its changes: q were the results, at
\* the rows in g of l, u are the results now, at the rows in next of r.
RunOf(c, l, r, q, g, old, u, next) ==
    /\ RowsAre(g, q, l) /\ NowAt(old, g, l, r) /\ OnceEach(old)
    /\ RowsAre(next, u, r) /\ Distinct(next) /\ Distinct(r)
    /\ Accounts(c, old, next)

LEMMA RunOfFacts ==
    ASSUME NEW c, NEW l, NEW r, NEW q, NEW g, NEW old, NEW u, NEW next, RunOf(c, l, r, q, g, old, u, next)
    PROVE  /\ Len(old) = Len(q) /\ Len(q) \in Nat /\ Len(old) \in Nat
           /\ Len(next) = Len(u) /\ Len(next) \in Nat /\ next \in Seq(Nat)
           /\ \A j \in 1 .. Len(next) : next[j] # Gone
           /\ \A i, j : SameRow(old, next, i, j) =>
                i \in 0 .. Len(q) - 1 /\ j \in 0 .. Len(u) - 1 /\ q[i + 1] = u[j + 1]
<1>1. RowsAre(g, q, l) /\ NowAt(old, g, l, r) /\ RowsAre(next, u, r)
  BY DEF RunOf
<1>2. /\ Len(old) = Len(q) /\ Len(q) \in Nat /\ Len(old) \in Nat
      /\ Len(next) = Len(u) /\ Len(next) \in Nat /\ next \in Seq(Nat)
  BY <1>1 DEF RowsAre, NowAt
<1>3. \A j \in 1 .. Len(next) : next[j] # Gone
  <2>1. \A j \in 1 .. Len(next) : next[j] \in Nat
    BY <1>2
  <2> QED
    BY <2>1 DEF Gone
<1>4. \A i, j : SameRow(old, next, i, j) =>
        i \in 0 .. Len(q) - 1 /\ j \in 0 .. Len(u) - 1 /\ q[i + 1] = u[j + 1]
  BY <1>1, SameEntry
<1> QED
  BY <1>2, <1>3, <1>4

\* The names go on: the new numbers are those of the entries that are new, or back.
LEMMA NamesGo ==
    ASSUME NEW c, NEW l, NEW r, NEW q, NEW g, NEW old, NEW u, NEW next,
           RunOf(c, l, r, q, g, old, u, next), NEW n \in Nat, NEW t, KnownTo(t, n), NEW w,
           Numbered(t, w, c, old, next, n), NEW s, KnownTo(s, n), NEW p, NEW f,
           NamedBy(f, s, p), NamedBy(f, t, q)
    PROVE  \E h : NamedBy(h, s, p) /\ NamedBy(h, w, u)
<1>1. /\ Len(old) = Len(q) /\ Len(q) \in Nat /\ Len(next) = Len(u) /\ Len(next) \in Nat
      /\ \A i, j : SameRow(old, next, i, j) =>
           i \in 0 .. Len(q) - 1 /\ j \in 0 .. Len(u) - 1 /\ q[i + 1] = u[j + 1]
  BY RunOfFacts
<1>2. PICK h : h = [v \in Nat |-> IF v <= n THEN f[v] ELSE u[v - n]]
  OBVIOUS
<1>3. /\ Len(s) \in Nat /\ \A i \in 1 .. Len(s) : s[i] \in Nat /\ s[i] <= n
      /\ Len(t) \in Nat /\ \A i \in 1 .. Len(t) : t[i] \in Nat /\ t[i] <= n
  BY DEF KnownTo
<1>4. NamedBy(h, s, p)
  <2>1. \A i \in 1 .. Len(s) : h[s[i]] = f[s[i]]
    BY <1>2, <1>3
  <2> QED
    BY <2>1 DEF NamedBy
<1>5. Len(w) = Len(u) /\ Len(t) = Len(q)
  BY <1>1 DEF Numbered
<1>6. ASSUME NEW x \in 1 .. Len(w)
      PROVE  u[x] = h[w[x]]
  <2>1. x - 1 \in 0 .. Len(next) - 1 /\ x - 1 + 1 = x /\ x \in Nat /\ x >= 1
    BY <1>1, <1>5
  <2>2. CASE Keeps(c, x - 1)
    <3>1. PICK i \in 0 .. Len(old) - 1 : SameRow(old, next, i, x - 1) /\ w[x - 1 + 1] = t[i + 1]
      BY <2>1, <2>2 DEF Numbered
    <3>2. w[x] = t[i + 1] /\ q[i + 1] = u[x] /\ i + 1 \in 1 .. Len(t)
      BY <1>1, <1>5, <2>1, <3>1
    <3>3. t[i + 1] \in Nat /\ t[i + 1] <= n
      BY <1>3, <3>2
    <3>4. h[t[i + 1]] = f[t[i + 1]]
      BY <1>2, <3>3
    <3>5. q[i + 1] = f[t[i + 1]]
      BY <3>2 DEF NamedBy
    <3> QED
      BY <3>2, <3>4, <3>5
  <2>3. CASE ~Keeps(c, x - 1)
    <3>1. w[x - 1 + 1] = n + (x - 1) + 1
      BY <2>1, <2>3 DEF Numbered
    <3>2. w[x] = n + x
      BY <2>1, <3>1
    <3>3. n + x \in Nat /\ ~(n + x <= n) /\ n + x - n = x
      BY <2>1
    <3>4. h[n + x] = u[x]
      BY <1>2, <3>3
    <3> QED
      BY <3>2, <3>4
  <2> QED
    BY <2>2, <2>3
<1>7. NamedBy(h, w, u)
  BY <1>5, <1>6 DEF NamedBy
<1> QED
  BY <1>4, <1>7

\* An entry modified before the last run, or since, will be told.
LEMMA ModifiedGo ==
    ASSUME NEW c, NEW l, NEW r, NEW q, NEW g, NEW old, NEW u, NEW next,
           RunOf(c, l, r, q, g, old, u, next),
           NEW s, NEW t, NEW f, NEW m, NEW n, NEW p, NEW a, NEW y, NEW z,
           Numbers(s, t, f, m, n, p, q, a, y, z),
           NEW changed, ChangedRows(c, next, changed), RowsMarked(z, l, r, changed),
           NEW w, Numbered(t, w, c, old, next, n),
           NEW x \in 1 .. Len(u), u[x] \in y
    PROVE  ToldOf(w[x], s, t, w, a, c)
<1>1. /\ Len(old) = Len(q) /\ Len(q) \in Nat /\ Len(next) = Len(u) /\ Len(next) \in Nat
      /\ \A i, j : SameRow(old, next, i, j) =>
           i \in 0 .. Len(q) - 1 /\ j \in 0 .. Len(u) - 1 /\ q[i + 1] = u[j + 1]
  BY RunOfFacts
<1>2. x - 1 \in 0 .. Len(next) - 1 /\ x - 1 + 1 = x /\ x \in Nat /\ x >= 1
  BY <1>1
<1>3. Told(s, t, t, a, NoChange, m, n) /\ n \in Nat /\ KnownTo(s, n) /\ KnownTo(t, n)
  BY DEF Numbers, Told
<1>4. Len(t) = Len(q)
  BY <1>1 DEF Numbered
<1>5. CASE ~Keeps(c, x - 1)
  <2>1. w[x - 1 + 1] = n + (x - 1) + 1
    BY <1>2, <1>5 DEF Numbered
  <2>2. w[x] = n + x
    BY <1>2, <1>3, <2>1
  <2>3. \A i \in 1 .. Len(s) : s[i] \in Nat /\ s[i] <= n
    BY <1>3 DEF KnownTo
  <2>4. Unknown(w[x], s)
    BY <1>2, <1>3, <2>2, <2>3 DEF Unknown
  <2> QED
    BY <2>4 DEF ToldOf
<1>6. CASE Keeps(c, x - 1)
  <2>1. PICK i \in 0 .. Len(old) - 1 : SameRow(old, next, i, x - 1) /\ w[x - 1 + 1] = t[i + 1]
    BY <1>2, <1>6 DEF Numbered
  <2>2. i \in 0 .. Len(q) - 1 /\ q[i + 1] = u[x] /\ i + 1 \in 1 .. Len(t) /\ w[x] = t[i + 1]
    BY <1>1, <1>2, <1>4, <2>1
  <2>3. t[i + 1] \in m \/ q[i + 1] \in z
    BY <1>4, <2>2 DEF Numbers
  <2>4. CASE t[i + 1] \in m
    <3>1. ToldOf(t[i + 1], s, t, t, a, NoChange)
      BY <1>3, <2>4 DEF Told
    <3>2. ~Unknown(t[i + 1], t)
      BY <2>2 DEF Unknown
    <3>3. ~Marked(t[i + 1], NoChange, t)
      BY DEF Marked, NoChange
    <3> QED
      BY <2>2, <3>1, <3>2, <3>3 DEF ToldOf
  <2>5. CASE q[i + 1] \in z
    <3>1. \/ Unknown(u[x], r) \/ Unknown(u[x], l)
          \/ \E k \in changed : k \in 0 .. Len(r) - 1 /\ r[k + 1] = u[x]
      BY <2>2, <2>5 DEF RowsMarked
    <3>2. RowsAre(g, q, l) /\ RowsAre(next, u, r) /\ Distinct(r)
      BY DEF RunOf
    <3>3. g[i + 1] \in 0 .. Len(l) - 1 /\ l[g[i + 1] + 1] = u[x]
      BY <1>4, <2>2, <3>2 DEF RowsAre
    <3>4. next[x] \in 0 .. Len(r) - 1 /\ r[next[x] + 1] = u[x]
      BY <3>2 DEF RowsAre
    <3>5. ~Unknown(u[x], l)
      <4>1. g[i + 1] + 1 \in 1 .. Len(l)
        BY <3>3
      <4> QED
        BY <3>3, <4>1 DEF Unknown
    <3>6. ~Unknown(u[x], r)
      <4>1. next[x] + 1 \in 1 .. Len(r)
        BY <3>4
      <4> QED
        BY <3>4, <4>1 DEF Unknown
    <3>7. PICK k \in changed : k \in 0 .. Len(r) - 1 /\ r[k + 1] = u[x]
      BY <3>1, <3>5, <3>6
    <3>8. k = next[x]
      <4>1. k + 1 \in 1 .. Len(r) /\ next[x] + 1 \in 1 .. Len(r) /\ r[k + 1] = r[next[x] + 1]
        BY <3>4, <3>7
      <4>2. k + 1 = next[x] + 1
        BY <3>2, <4>1 DEF Distinct
      <4> QED
        BY <3>4, <3>7, <4>2
    <3>9. next[x - 1 + 1] \in changed
      BY <1>2, <3>7, <3>8
    <3>10. x - 1 \in c.mod
      BY <1>2, <1>6, <3>9 DEF ChangedRows
    <3>11. Marked(w[x], c, w)
      BY <1>2, <3>10 DEF Marked
    <3> QED
      BY <3>11 DEF ToldOf
  <2> QED
    BY <2>3, <2>4, <2>5
<1> QED
  BY <1>5, <1>6

\* A run of the notifier of results.
LEMMA ResultsRun ==
    ASSUME NEW c, NEW l, NEW r, NEW q, NEW g, NEW old, NEW u, NEW next,
           RunOf(c, l, r, q, g, old, u, next), TypedChanges(c),
           NEW p, NEW a, NEW y, NEW z, ResultsTold(p, q, a, y, z),
           NEW changed, ChangedRows(c, next, changed), RowsMarked(z, l, r, changed),
           NEW e, e = Merge(a, c)
    PROVE  ResultsTold(p, u, e, y, {})
<1>1. PICK s, t, f, m, n : Numbers(s, t, f, m, n, p, q, a, y, z)
  BY DEF ResultsTold
<1>2. Told(s, t, t, a, NoChange, m, n) /\ n \in Nat /\ KnownTo(s, n) /\ KnownTo(t, n)
  BY <1>1 DEF Numbers, Told
<1>3. /\ Len(old) = Len(q) /\ Len(q) \in Nat /\ Len(old) \in Nat
      /\ Len(next) = Len(u) /\ Len(next) \in Nat /\ next \in Seq(Nat)
      /\ \A j \in 1 .. Len(next) : next[j] # Gone
  BY RunOfFacts
<1>4. Accounts(c, old, next) /\ OnceEach(old) /\ Distinct(next)
  BY DEF RunOf
<1>5. NamedBy(f, s, p) /\ NamedBy(f, t, q) /\ Len(t) = Len(old)
  BY <1>1, <1>3 DEF Numbers, NamedBy
<1>6. PICK w : Numbered(t, w, c, old, next, n) /\ KnownTo(w, n + Len(next))
  BY <1>2, <1>3, <1>4, <1>5, NumbersExist
<1>7. Leads(c, t, w)
  BY <1>2, <1>3, <1>4, <1>6, AccountsLead
<1>8. PICK k : k = n + Len(next)
  OBVIOUS
<1>9. PICK v : v = {x \in 0 .. k : ToldOf(x, s, t, w, a, c)}
  OBVIOUS
<1>10. Told(s, t, w, a, c, v, k)
  <2>1. c.mod \subseteq 0 .. Len(next) - 1
    BY DEF ChangedRows
  <2> QED
    BY <1>2, <1>3, <1>4, <1>6, <1>7, <1>8, <1>9, <2>1, NumbersTold
<1>11. Told(s, w, w, e, NoChange, v, k)
  <2>1. c.map = << >>
    BY DEF TypedChanges
  <2> QED
    BY <1>7, <1>10, <2>1, ToldRun
<1>12. PICK h : NamedBy(h, s, p) /\ NamedBy(h, w, u)
  BY <1>2, <1>5, <1>6, NamesGo
<1>13. ASSUME NEW x \in 1 .. Len(u), u[x] \in y
       PROVE  w[x] \in v
  <2>1. ToldOf(w[x], s, t, w, a, c)
    BY <1>1, <1>6, <1>13, ModifiedGo
  <2>2. x \in 1 .. Len(w)
    BY <1>3, <1>6 DEF Numbered
  <2>3. w[x] \in 0 .. k
    <3>1. w[x] \in Nat /\ w[x] <= n + Len(next)
      BY <1>6, <2>2 DEF KnownTo
    <3> QED
      BY <1>2, <1>3, <1>8, <3>1
  <2> QED
    BY <1>9, <2>1, <2>3
<1>14. Numbers(s, w, h, v, k, p, u, e, y, {})
  BY <1>11, <1>12, <1>13 DEF Numbers
<1> QED
  BY <1>14 DEF ResultsTold

-----------------------------------------------------------------------------
(* Results: some entries of a table, each once. *)

\* m has the entries of s at the indices k, in order.
ChosenBy(k, m, s, K) ==
    /\ \A i \in 1 .. Len(m) : k[i] \in K /\ m[i] = s[k[i]]
    /\ \A i, j \in 1 .. Len(m) : i < j => k[i] < k[j]

LEMMA PartChosen ==
    ASSUME NEW T, NEW s \in Seq(T), NEW K \in SUBSET DOMAIN s, NEW m, m = Subsequence(s, K)
    PROVE  m \in Seq(T) /\ \E k : ChosenBy(k, m, s, K)
<1>1. DOMAIN s = 1 .. Len(s) /\ Len(s) \in Nat
  OBVIOUS
<1>2. PICK S : S = {n - 1 : n \in (1 .. Len(s)) \ K}
  OBVIOUS
<1>3. S \subseteq 0 .. Len(s) - 1
  BY <1>1, <1>2
<1>4. PositionSet(S)
  <2>1. IsFiniteSet(0 .. Len(s) - 1)
    BY <1>1, PositionsFinite
  <2>2. IsFiniteSet(S)
    BY <1>3, <2>1, FS_Subset
  <2>3. S \subseteq Nat
    BY <1>3
  <2> QED
    BY <2>2, <2>3 DEF PositionSet
<1>5. \A n \in 1 .. Len(s) : n - 1 \in S <=> n \notin K
  <2>1. \A n \in 1 .. Len(s) : n \notin K => n - 1 \in S
    BY <1>2
  <2>2. \A n \in 1 .. Len(s) : n - 1 \in S => n \notin K
    <3> SUFFICES ASSUME NEW n \in 1 .. Len(s), n - 1 \in S
                 PROVE  n \notin K
      OBVIOUS
    <3>1. PICK x \in (1 .. Len(s)) \ K : n - 1 = x - 1
      BY <1>2
    <3>2. n = x
      BY <1>1, <3>1
    <3> QED
      BY <3>1, <3>2
  <2> QED
    BY <2>1, <2>2
<1>6. K = {n \in DOMAIN s : n - 1 \notin S}
  BY <1>1, <1>5
<1>7. m = Without(s, S)
  BY <1>6 DEF Without
<1>8. /\ m \in Seq(T) /\ Len(m) = Unshift(S, Len(s))
      /\ \A n \in 1 .. Len(m) : Shift(S, n - 1) \in 0 .. Len(s) - 1 /\ m[n] = s[Shift(S, n - 1) + 1]
  BY <1>4, <1>7, WithoutIs
<1>9. PICK k : k = [n \in 1 .. Len(m) |-> Shift(S, n - 1) + 1]
  OBVIOUS
<1>10. Len(m) \in Nat
  BY <1>8
<1>11. ASSUME NEW i \in 1 .. Len(m)
       PROVE  k[i] \in K /\ m[i] = s[k[i]]
  <2>1. i - 1 \in Nat
    BY <1>10
  <2>2. Shift(S, i - 1) \notin S
    BY <1>4, <2>1, ShiftFacts
  <2>3. Shift(S, i - 1) \in 0 .. Len(s) - 1 /\ m[i] = s[Shift(S, i - 1) + 1]
    BY <1>8
  <2>4. PICK y : y = Shift(S, i - 1)
    OBVIOUS
  <2>5. y + 1 \in K
    <3>1. y \in 0 .. Len(s) - 1 /\ y \notin S
      BY <2>2, <2>3, <2>4
    <3>2. y + 1 \in 1 .. Len(s) /\ (y + 1) - 1 = y
      BY <1>1, <3>1
    <3>3. (y + 1) - 1 \notin S
      BY <3>1, <3>2
    <3> QED
      BY <1>5, <3>2, <3>3
  <2> QED
    BY <1>9, <2>3, <2>4, <2>5
<1>12. ASSUME NEW i \in 1 .. Len(m), NEW j \in 1 .. Len(m), i < j
       PROVE  k[i] < k[j]
  <2>1. i - 1 \in Nat /\ j - 1 \in Nat /\ i - 1 < j - 1
    BY <1>10, <1>12
  <2>2. Shift(S, i - 1) < Shift(S, j - 1)
    BY <1>4, <2>1, ShiftUndoesUnshift
  <2>3. Shift(S, i - 1) \in Nat /\ Shift(S, j - 1) \in Nat
    BY <1>4, <2>1, ShiftFacts
  <2>4. k[i] = Shift(S, i - 1) + 1 /\ k[j] = Shift(S, j - 1) + 1
    BY <1>9
  <2> QED
    BY <2>2, <2>3, <2>4
<1>13. ChosenBy(k, m, s, K)
  BY <1>11, <1>12 DEF ChosenBy
<1> QED
  BY <1>8, <1>13

\* Entries of s, each once.
Some(m, s) == m \in Seq(Nat) /\ Distinct(m) /\ \A i \in 1 .. Len(m) : ~Unknown(m[i], s)

LEMMA ChosenSome ==
    ASSUME NEW s \in Seq(Nat), Distinct(s), NEW K \in SUBSET DOMAIN s, NEW m, m = Subsequence(s, K)
    PROVE  Some(m, s)
<1>1. DOMAIN s = 1 .. Len(s) /\ Len(s) \in Nat
  OBVIOUS
<1>2. m \in Seq(Nat)
  BY PartChosen
<1>3. PICK k : ChosenBy(k, m, s, K)
  BY PartChosen
<1>4. \A i \in 1 .. Len(m) : k[i] \in 1 .. Len(s) /\ m[i] = s[k[i]]
  BY <1>1, <1>3 DEF ChosenBy
<1>5. Distinct(m)
  <2> SUFFICES ASSUME NEW i \in 1 .. Len(m), NEW j \in 1 .. Len(m), m[i] = m[j]
               PROVE  i = j
    BY DEF Distinct
  <2>1. k[i] = k[j] /\ k[i] \in Nat
    <3>1. /\ k[i] \in 1 .. Len(s) /\ k[j] \in 1 .. Len(s)
          /\ m[i] = s[k[i]] /\ m[j] = s[k[j]]
      BY <1>4
    <3>2. k[i] = k[j]
      BY <3>1 DEF Distinct
    <3> QED
      BY <1>1, <3>1, <3>2
  <2>2. ~(k[i] < k[j]) /\ ~(k[j] < k[i])
    BY <2>1
  <2>3. \A x, y \in 1 .. Len(m) : x < y => k[x] < k[y]
    BY <1>3 DEF ChosenBy
  <2>4. ~(i < j) /\ ~(j < i)
    BY <2>2, <2>3
  <2>5. i \in Nat /\ j \in Nat
    BY <1>2
  <2> QED
    BY <2>4, <2>5
<1>6. \A i \in 1 .. Len(m) : ~Unknown(m[i], s)
  BY <1>4 DEF Unknown
<1> QED
  BY <1>2, <1>5, <1>6 DEF Some

LEMMA SomeOfSome ==
    ASSUME NEW m, NEW s, NEW r, Some(m, s), Some(s, r)
    PROVE  Some(m, r)
<1>1. ASSUME NEW i \in 1 .. Len(m)
      PROVE  ~Unknown(m[i], r)
  <2>1. PICK k \in 1 .. Len(s) : s[k] = m[i]
    BY DEF Some, Unknown
  <2>2. ~Unknown(s[k], r)
    BY DEF Some
  <2> QED
    BY <2>1, <2>2
<1> QED
  BY <1>1 DEF Some

LEMMA AllOfThem ==
    ASSUME NEW r \in Seq(Nat), Distinct(r)
    PROVE  Some(r, r)
BY DEF Some, Unknown

\* The rows of entries.
LEMMA RowsOfIs ==
    ASSUME rows \in Seq(Nat), NEW c, Some(c, rows), NEW q, q = RowsOf(c)
    PROVE  RowsAre(q, c, rows)
<1>1. c \in Seq(Nat) /\ DOMAIN c = 1 .. Len(c) /\ Len(c) \in Nat
  BY DEF Some
<1>2. Len(rows) \in Nat
  OBVIOUS
<1>3. q = [i \in 1 .. Len(c) |-> PositionOf(rows, c[i])]
  BY <1>1 DEF RowsOf
<1>4. ASSUME NEW i \in 1 .. Len(c)
      PROVE  q[i] \in 0 .. Len(rows) - 1 /\ rows[q[i] + 1] = c[i]
  <2>1. PICK n \in 1 .. Len(rows) : rows[n] = c[i]
    BY DEF Some, Unknown
  <2>2. n - 1 \in 0 .. Len(rows) - 1 /\ n - 1 + 1 = n
    BY <1>2
  <2>3. n - 1 \in Positions(rows) /\ At(rows, n - 1) = c[i]
    BY <2>1, <2>2 DEF Positions, At
  <2>4. PositionOf(rows, c[i]) \in Positions(rows) /\ At(rows, PositionOf(rows, c[i])) = c[i]
    BY <2>3 DEF PositionOf
  <2> QED
    BY <1>3, <2>4 DEF Positions, At
<1>5. q \in Seq(Nat) /\ Len(q) = Len(c)
  <2>1. q \in [1 .. Len(c) -> Nat]
    BY <1>3, <1>4
  <2> QED
    BY <1>1, <2>1, SeqIs
<1> QED
  BY <1>1, <1>4, <1>5 DEF RowsAre

\* The rows of a query's results go up.
GoesUp(q) == \A i, j \in 1 .. Len(q) : i < j => q[i] < q[j]

LEMMA MatchingGoesUp ==
    ASSUME rows \in Seq(Nat), Distinct(rows), NEW c, c = Matching(rows), NEW q, q = RowsOf(c)
    PROVE  GoesUp(q)
<1>1. DOMAIN rows = 1 .. Len(rows) /\ Len(rows) \in Nat
  OBVIOUS
<1>2. PICK K : K = {n \in DOMAIN rows : rows[n] \in fits}
  OBVIOUS
<1>3. c = Subsequence(rows, K) /\ K \in SUBSET DOMAIN rows
  BY <1>2 DEF Matching
<1>4. Some(c, rows)
  BY <1>3, ChosenSome
<1>5. RowsAre(q, c, rows)
  BY <1>4, RowsOfIs
<1>6. PICK k : ChosenBy(k, c, rows, K)
  BY <1>3, PartChosen
<1>7. ASSUME NEW i \in 1 .. Len(c)
      PROVE  q[i] + 1 = k[i] /\ q[i] \in Nat
  <2>1. q[i] \in 0 .. Len(rows) - 1 /\ rows[q[i] + 1] = c[i]
    BY <1>5 DEF RowsAre
  <2>2. k[i] \in 1 .. Len(rows) /\ c[i] = rows[k[i]]
    BY <1>1, <1>3, <1>6 DEF ChosenBy
  <2>3. q[i] + 1 \in 1 .. Len(rows)
    BY <1>1, <2>1
  <2>4. q[i] + 1 = k[i]
    BY <2>1, <2>2, <2>3 DEF Distinct
  <2> QED
    BY <2>1, <2>4
<1>8. Len(q) = Len(c)
  BY <1>5 DEF RowsAre
<1>9. \A i, j \in 1 .. Len(c) : i < j => k[i] < k[j]
  BY <1>6 DEF ChosenBy
<1> SUFFICES ASSUME NEW i \in 1 .. Len(c), NEW j \in 1 .. Len(c), i < j
             PROVE  q[i] < q[j]
  BY <1>8 DEF GoesUp
<1>10. k[i] < k[j]
  BY <1>9
<1>11. q[i] + 1 = k[i] /\ q[j] + 1 = k[j] /\ q[i] \in Nat /\ q[j] \in Nat
  BY <1>7
<1> QED
  BY <1>10, <1>11

LEMMA CollectionIs ==
    ASSUME rows \in Seq(Nat), Distinct(rows), Some(order, rows), kind \in {"list", "rows", "query", "sorted"}
    PROVE  Some(Collection, rows)
<1>1. CASE kind \in {"list", "rows"}
  <2>1. Collection = rows
    BY <1>1 DEF Collection
  <2> QED
    BY <2>1, AllOfThem
<1>2. CASE kind = "query"
  <2>1. Collection = Subsequence(rows, {n \in DOMAIN rows : rows[n] \in fits})
    BY <1>2 DEF Collection, Matching
  <2>2. {n \in DOMAIN rows : rows[n] \in fits} \in SUBSET DOMAIN rows
    OBVIOUS
  <2> QED
    BY <2>1, <2>2, ChosenSome
<1>3. CASE kind = "sorted"
  <2>1. Collection = Subsequence(order, {n \in DOMAIN order : order[n] \in fits})
    BY <1>3 DEF Collection, Matching
  <2>2. {n \in DOMAIN order : order[n] \in fits} \in SUBSET DOMAIN order
    OBVIOUS
  <2>3. order \in Seq(Nat) /\ Distinct(order)
    BY DEF Some
  <2>4. Some(Collection, order)
    BY <2>1, <2>2, <2>3, ChosenSome
  <2> QED
    BY <2>4, SomeOfSome
<1> QED
  BY <1>1, <1>2, <1>3

-----------------------------------------------------------------------------
(* Rows that are never swapped only go to earlier places: the last takes the place
   of one erased. *)
Falls(b, r) == \A n \in 0 .. Len(r) - 1 : Origin(b, n) = -1 \/ Origin(b, n) >= n

LEMMA FirstFalls ==
    ASSUME NEW r, Len(r) \in Nat
    PROVE  Falls(NoChange, r)
<1> SUFFICES ASSUME NEW n \in 0 .. Len(r) - 1
             PROVE  Origin(NoChange, n) >= n
  BY DEF Falls
<1>1. NoChange.map = << >> /\ NoChange.ins = {} /\ DOMAIN << >> = {}
  BY DEF NoChange
<1>2. Origin(NoChange, n) = n
  BY <1>1 DEF Origin
<1> QED
  BY <1>2

AddedLast(b, e, size) == \A n \in 0 .. size : Origin(e, n) = IF n = size THEN -1 ELSE Origin(b, n)

LEMMA AddedLastIs ==
    ASSUME NEW b, NEW old \in Nat, NEW size \in Nat, TableLog(b, old, size),
           NEW e, e = ChangeInsert(b, size)
    PROVE  AddedLast(b, e, size)
<1>1. /\ TableLog(e, old, size + 1)
      /\ \A n \in 0 .. size : Origin(e, n) = IF n = size THEN -1 ELSE Origin(b, n)
  BY AddedRowsTraced
<1> QED
  BY <1>1 DEF AddedLast

LEMMA AddedFalls ==
    ASSUME NEW r \in Seq(Nat), NEW old \in Nat, NEW b, TableLog(b, old, Len(r)), Falls(b, r),
           NEW v \in Nat, NEW s, s = Append(r, v), NEW e, e = ChangeInsert(b, Len(r))
    PROVE  Falls(e, s)
<1>1. PICK size : size = Len(r) /\ size \in Nat /\ Len(s) = size + 1
  OBVIOUS
<1>2. \A n \in 0 .. size : Origin(e, n) = IF n = size THEN -1 ELSE Origin(b, n)
  <2>1. TableLog(b, old, size) /\ e = ChangeInsert(b, size)
    BY <1>1
  <2> QED
    BY <1>1, <2>1, AddedLastIs DEF AddedLast
<1>3. \A n \in 0 .. size : n = size \/ n \in 0 .. size - 1
  BY <1>1
<1>4. 0 .. Len(s) - 1 = 0 .. size
  BY <1>1
<1> QED
  BY <1>1, <1>2, <1>3, <1>4 DEF Falls

LEMMA MovedOverFalls ==
    ASSUME NEW r \in Seq(Nat), NEW old \in Nat, NEW b, TableLog(b, old, Len(r)), Falls(b, r),
           NEW i \in 0 .. Len(r) - 1, NEW s, s = WithoutRow(r, i),
           NEW e, e = ChangeMoveOver(b, i, Len(r) - 1)
    PROVE  Falls(e, s)
<1>1. PICK end : end = Len(r) - 1 /\ end \in Nat /\ Len(r) = end + 1
  <2>1. Len(r) \in Nat /\ Len(r) - 1 \in Nat /\ Len(r) = Len(r) - 1 + 1
    OBVIOUS
  <2> QED
    BY <2>1
<1>2. LastTookPlace(b, e, i, end)
  BY <1>1, MovedOverRowsTraced
<1>3. Len(s) = end
  <2>1. i + 1 \in 1 .. Len(r)
    OBVIOUS
  <2>2. LastMoved(r, i + 1, s)
    BY <2>1, LastMovedIs DEF WithoutRow
  <2> QED
    BY <1>1, <2>2 DEF LastMoved
<1> SUFFICES ASSUME NEW n \in 0 .. end - 1
             PROVE  Origin(e, n) = -1 \/ Origin(e, n) >= n
  BY <1>3 DEF Falls
<1>4. PICK x : x = IF n = i THEN end ELSE n
  OBVIOUS
<1>5. Origin(e, n) = Origin(b, x)
  BY <1>2, <1>4 DEF LastTookPlace
<1>6. x \in 0 .. Len(r) - 1 /\ x >= n
  BY <1>1, <1>4
<1>7. Origin(b, x) = -1 \/ Origin(b, x) >= x
  BY <1>6 DEF Falls
<1>8. Origin(b, x) \in Int
  <2>1. DOMAIN b.map \subseteq b.ins /\ \A k \in DOMAIN b.map : b.map[k] \in 0 .. old - 1
    BY DEF TableLog
  <2> QED
    BY <1>6, <2>1 DEF Origin
<1> QED
  BY <1>5, <1>6, <1>7, <1>8

\* A mark moves no row.
LEMMA MarkedFalls ==
    ASSUME NEW r, NEW b, Builder(b), Falls(b, r), NEW i, NEW e, e = ChangeModify(b, i)
    PROVE  Falls(e, r)
<1>1. e.map = b.map /\ e.ins = b.ins
  <2>1. e = [b EXCEPT !.mod = b.mod \cup {i}]
    BY ModifiedIs
  <2>2. b = [del |-> b.del, ins |-> b.ins, mod |-> b.mod, moves |-> b.moves, map |-> b.map]
    BY DEF Builder
  <2> QED
    BY <2>1, <2>2
<1> QED
  BY <1>1 DEF Falls, Origin

LEMMA OwnOrigin ==
    ASSUME NEW b, NEW old \in Nat, NEW size \in Nat, TableLog(b, old, size),
           NEW e, e = ParseComplete(b), NEW x \in 0 .. size - 1, x \notin e.ins
    PROVE  Origin(b, x) = x
<1>1. /\ Sets(e) /\ e.del \subseteq b.del
      /\ \A n \in 0 .. size - 1 : IF n \in e.ins THEN Origin(b, n) # n
                                  ELSE Origin(b, n) = n /\ n \notin e.del /\ Follows(e, n) = n
  BY ParsedRowsTraced
<1> QED
  BY <1>1

(* So what calculate asks of results in table order holds of a query: when rows are
   never swapped, only a row that the table's log lists as inserted can have overtaken
   another (results_notifier.cpp: calculate_changes). *)
THEOREM QuerySettled ==
    ASSUME NEW l \in Seq(Nat), NEW r \in Seq(Nat), Distinct(l), Distinct(r),
           NEW b, TableLog(b, Len(l), Len(r)), RowsFrom(b, l, r), Falls(b, r),
           NEW e, e = ParseComplete(b),
           NEW q, NEW g, RowsAre(g, q, l), GoesUp(g), NEW old, NowAt(old, g, l, r),
           NEW u, NEW next, RowsAre(next, u, r), GoesUp(next)
    PROVE  SettledRows(old, next, e.ins)
<1>0. Len(l) \in Nat /\ Len(r) \in Nat
  BY LenProperties
<1> SUFFICES ASSUME NEW i \in 0 .. Len(old) - 1, NEW k \in 0 .. Len(old) - 1,
                    NEW j \in 0 .. Len(next) - 1, NEW h \in 0 .. Len(next) - 1,
                    SameRow(old, next, i, j), SameRow(old, next, k, h),
                    next[j + 1] \notin e.ins, j < h
             PROVE  i < k
  BY DEF SettledRows
<1>1. /\ Len(old) = Len(g) /\ Len(g) \in Nat /\ g \in Seq(Nat)
      /\ next \in Seq(Nat) /\ Len(next) = Len(u) /\ Len(next) \in Nat
  BY DEF NowAt, RowsAre
<1>2. /\ i + 1 \in 1 .. Len(g) /\ k + 1 \in 1 .. Len(g)
      /\ j + 1 \in 1 .. Len(next) /\ h + 1 \in 1 .. Len(next)
      /\ i \in Nat /\ k \in Nat /\ j + 1 < h + 1
  <2>1. PICK m, n : m = Len(g) /\ n = Len(next) /\ m \in Nat /\ n \in Nat
    BY <1>1
  <2>2. i \in 0 .. m - 1 /\ k \in 0 .. m - 1 /\ j \in 0 .. n - 1 /\ h \in 0 .. n - 1 /\ j < h
    BY <1>1, <2>1
  <2>3. i + 1 \in 1 .. m /\ k + 1 \in 1 .. m /\ i \in Nat /\ k \in Nat
    BY <2>1, <2>2
  <2>4. j + 1 \in 1 .. n /\ h + 1 \in 1 .. n /\ j + 1 < h + 1
    BY <2>1, <2>2
  <2> QED
    BY <2>1, <2>3, <2>4
<1>3. PICK x, y, v, w : x = next[j + 1] /\ y = next[h + 1] /\ v = g[i + 1] /\ w = g[k + 1]
  OBVIOUS
<1>4. x \in 0 .. Len(r) - 1 /\ y \in 0 .. Len(r) - 1 /\ v \in 0 .. Len(l) - 1 /\ w \in 0 .. Len(l) - 1
  <2>1. Len(q) = Len(g)
    BY DEF RowsAre
  <2> QED
    BY <1>1, <1>2, <1>3, <2>1 DEF RowsAre
<1>5. x < y
  BY <1>2, <1>3 DEF GoesUp
<1>6. old[i + 1] = x /\ old[k + 1] = y
  BY <1>3 DEF SameRow
<1>7. x \in Nat /\ y \in Nat /\ v \in Nat /\ w \in Nat /\ x # Gone /\ y # Gone
  <2>1. Len(r) \in Nat /\ Len(l) \in Nat
    BY <1>0
  <2>2. x \in Nat /\ y \in Nat /\ v \in Nat /\ w \in Nat
    BY <1>4, <2>1
  <2> QED
    BY <2>2 DEF Gone
<1>8. r[x + 1] = l[v + 1] /\ r[y + 1] = l[w + 1]
  <2>1. RowNow(l, r, v, x) /\ RowNow(l, r, w, y)
    BY <1>2, <1>3, <1>6 DEF NowAt
  <2> QED
    BY <1>7, <2>1 DEF RowNow
<1>9. Origin(b, x) = x
  <2>1. x \notin e.ins /\ Len(l) \in Nat /\ Len(r) \in Nat
    BY <1>0, <1>3
  <2> QED
    BY <1>4, <2>1, OwnOrigin
<1>10. x = v
  <2>1. x # -1
    BY <1>4
  <2>2. x \in 0 .. Len(l) - 1 /\ l[x + 1] = r[x + 1]
    BY <1>4, <1>9, <2>1 DEF RowsFrom
  <2>3. x + 1 \in 1 .. Len(l) /\ v + 1 \in 1 .. Len(l) /\ l[x + 1] = l[v + 1]
    <3>1. PICK n : n = Len(l) /\ n \in Nat
      BY <1>0
    <3>2. x \in 0 .. n - 1 /\ v \in 0 .. n - 1
      BY <1>4, <2>2, <3>1
    <3>3. x + 1 \in 1 .. n /\ v + 1 \in 1 .. n
      BY <3>1, <3>2
    <3>4. l[x + 1] = l[v + 1]
      BY <1>8, <2>2
    <3> QED
      BY <3>1, <3>3, <3>4
  <2>4. x + 1 = v + 1
    BY <2>3 DEF Distinct
  <2> QED
    BY <1>4, <2>4
<1>11. w >= y
  <2>1. w + 1 \in 1 .. Len(l)
    BY <1>0, <1>4
  <2>2. Origin(b, y) # -1
    <3> SUFFICES ASSUME Origin(b, y) = -1
                 PROVE  FALSE
      OBVIOUS
    <3>1. Unknown(r[y + 1], l)
      BY <1>4 DEF RowsFrom
    <3> QED
      BY <1>8, <2>1, <3>1 DEF Unknown
  <2>3. PICK z : z = Origin(b, y)
    OBVIOUS
  <2>4. z \in 0 .. Len(l) - 1 /\ l[z + 1] = r[y + 1]
    BY <1>4, <2>2, <2>3 DEF RowsFrom
  <2>5. z + 1 \in 1 .. Len(l) /\ l[z + 1] = l[w + 1]
    BY <1>0, <1>8, <2>4
  <2>6. z + 1 = w + 1
    BY <2>1, <2>5 DEF Distinct
  <2>7. z >= y
    BY <1>4, <2>2, <2>3 DEF Falls
  <2> QED
    BY <1>4, <2>4, <2>6, <2>7
<1>12. g[i + 1] < g[k + 1] /\ g[i + 1] \in Nat /\ g[k + 1] \in Nat
  <2>1. v < w
    BY <1>5, <1>7, <1>10, <1>11
  <2> QED
    BY <1>3, <1>7, <2>1
<1>13. ~(k + 1 < i + 1)
  <2> SUFFICES ASSUME k + 1 < i + 1
               PROVE  FALSE
    OBVIOUS
  <2>1. g[k + 1] < g[i + 1]
    BY <1>2 DEF GoesUp
  <2> QED
    BY <1>12, <2>1
<1>14. i + 1 # k + 1
  <2> SUFFICES ASSUME i + 1 = k + 1
               PROVE  FALSE
    OBVIOUS
  <2>1. g[k + 1] = g[i + 1]
    OBVIOUS
  <2> QED
    BY <1>12, <2>1
<1> QED
  BY <1>2, <1>13, <1>14

-----------------------------------------------------------------------------
(* Change sets that are merged remain change sets. *)
LEMMA CleanUpMoveTyped ==
    ASSUME NEW x, Builder(x), x.moves \in Seq(MovePairs), NEW m \in MovePairs,
           NEW y, y = CleanUpMove(x, m)
    PROVE  Builder(y) /\ y.moves \in Seq(MovePairs) /\ y.map = x.map
<1>1. /\ x = [del |-> x.del, ins |-> x.ins, mod |-> x.mod, moves |-> x.moves, map |-> x.map]
      /\ PositionSet(x.del) /\ PositionSet(x.ins)
  BY DEF Builder, Sets
<1>2. CASE Unshift(x.del, m.from) = Unshift(x.ins, m.to)
  <2>1. y = [x EXCEPT !.del = @ \ {m.from}, !.ins = @ \ {m.to}]
    BY <1>2 DEF CleanUpMove
  <2>2. /\ y = [del |-> y.del, ins |-> y.ins, mod |-> y.mod, moves |-> y.moves, map |-> y.map]
        /\ y.moves = x.moves /\ y.map = x.map /\ y.del = x.del \ {m.from} /\ y.ins = x.ins \ {m.to}
    BY <1>1, <2>1
  <2>3. y.del \subseteq x.del /\ y.ins \subseteq x.ins
    BY <2>2
  <2>4. PositionSet(y.del) /\ PositionSet(y.ins)
    BY <1>1, <2>3, FS_Subset DEF PositionSet
  <2> QED
    BY <2>2, <2>4 DEF Builder, Sets
<1>3. CASE Unshift(x.del, m.from) # Unshift(x.ins, m.to)
  <2>1. y = [x EXCEPT !.moves = Append(@, m)]
    BY <1>3 DEF CleanUpMove
  <2>2. /\ y = [del |-> y.del, ins |-> y.ins, mod |-> y.mod, moves |-> y.moves, map |-> y.map]
        /\ y.moves = Append(x.moves, m) /\ y.map = x.map /\ y.del = x.del /\ y.ins = x.ins
    BY <1>1, <2>1
  <2>3. y.moves \in Seq(MovePairs)
    BY <2>2
  <2> QED
    BY <1>1, <2>2, <2>3 DEF Builder, Sets
<1> QED
  BY <1>2, <1>3

LEMMA CleanUpTyped ==
    ASSUME NEW b, Builder(b), b.moves \in Seq(MovePairs), NEW e, e = CleanUpStaleMoves(b)
    PROVE  Builder(e) /\ e.moves \in Seq(MovePairs) /\ e.map = b.map
<1>1. PICK f : Cleaned(f, b) /\ e = f[Len(b.moves)]
  BY CleanUpRuns
<1>2. PICK l : l = Len(b.moves) /\ l \in Nat
  OBVIOUS
<1> DEFINE Typed(x) == Builder(x) /\ x.moves \in Seq(MovePairs) /\ x.map = b.map
<1>3. Typed(f[0])
  <2>1. f[0] = [b EXCEPT !.moves = << >>]
    BY <1>1 DEF Cleaned
  <2>2. b = [del |-> b.del, ins |-> b.ins, mod |-> b.mod, moves |-> b.moves, map |-> b.map]
    BY DEF Builder
  <2>3. f[0] = [del |-> b.del, ins |-> b.ins, mod |-> b.mod, moves |-> << >>, map |-> b.map]
    BY <2>1, <2>2
  <2>4. << >> \in Seq(MovePairs)
    OBVIOUS
  <2> QED
    BY <2>3, <2>4 DEF Builder, Sets
<1>4. ASSUME NEW n \in 1 .. l, Typed(f[n - 1])
      PROVE  Typed(f[n])
  <2>1. f[n] = CleanUpMove(f[n - 1], b.moves[n])
    BY <1>1, <1>2 DEF Cleaned
  <2>2. b.moves[n] \in MovePairs
    BY <1>2
  <2>3. PICK x, y, m : x = f[n - 1] /\ y = f[n] /\ m = b.moves[n]
    OBVIOUS
  <2>4. Builder(x) /\ x.moves \in Seq(MovePairs) /\ x.map = b.map /\ m \in MovePairs
        /\ y = CleanUpMove(x, m)
    BY <1>4, <2>1, <2>2, <2>3
  <2>5. Builder(y) /\ y.moves \in Seq(MovePairs) /\ y.map = x.map
    BY <2>4, CleanUpMoveTyped
  <2> QED
    BY <2>3, <2>4, <2>5
<1> HIDE DEF Typed
<1>5. \A n \in 0 .. l : Typed(f[n])
  <2>1. PICK T : T = {n \in 0 .. l : ~Typed(f[n])}
    OBVIOUS
  <2> SUFFICES ASSUME T # {}
               PROVE  FALSE
    BY <2>1
  <2>2. T \in SUBSET Nat
    BY <1>2, <2>1
  <2>3. PICK n \in T : \A k \in T : n <= k
    BY <2>2, LeastNumber
  <2>4. n \in 0 .. l /\ ~Typed(f[n])
    BY <2>1
  <2>5. n # 0
    BY <1>3, <2>4
  <2>6. n \in 1 .. l /\ n - 1 \in 0 .. l /\ ~(n <= n - 1)
    BY <1>2, <2>4, <2>5
  <2>7. Typed(f[n - 1])
    BY <2>1, <2>3, <2>6
  <2> QED
    BY <1>4, <2>4, <2>6, <2>7
<1>6. Typed(f[l])
  <2>1. l \in 0 .. l
    BY <1>2
  <2> QED
    BY <1>5, <2>1
<1> QED
  BY <1>1, <1>2, <1>6 DEF Typed

LEMMA MergeTyped ==
    ASSUME NEW b, TypedChanges(b), NEW c, TypedChanges(c), NEW e, e = Merge(b, c)
    PROVE  TypedChanges(e)
<1>1. CASE IsEmpty(c)
  BY <1>1 DEF Merge
<1>2. CASE ~IsEmpty(c) /\ IsEmpty(b)
  BY <1>2 DEF Merge
<1>3. CASE ~IsEmpty(c) /\ ~IsEmpty(b)
  <2>1. /\ Builder(b) /\ b.mod \subseteq Nat /\ b.moves \in Seq(MovePairs)
        /\ Builder(c) /\ c.mod \subseteq Nat /\ c.moves \in Seq(MovePairs) /\ Sets(c)
    BY DEF TypedChanges, Builder
  <2>2. PICK fol : fol = FollowMoves(b, c)
    OBVIOUS
  <2>3. fol \in Followings
    <3>1. PICK f : FollowedMoves(f, b, c) /\ fol = f[Len(b.moves)]
      BY <2>1, <2>2, FollowRuns
    <3>2. PICK n : n = Len(b.moves) /\ n \in Nat
      BY <2>1
    <3>3. CASE n = 0
      <4>1. fol = [kept |-> << >>, next |-> c.moves, mod |-> c.mod]
        BY <3>1, <3>2, <3>3 DEF FollowedMoves
      <4>2. << >> \in Seq(MovePairs)
        OBVIOUS
      <4> QED
        BY <2>1, <4>1, <4>2 DEF Followings
    <3>4. CASE n # 0
      <4>1. n \in 1 .. n
        BY <3>2, <3>4
      <4> QED
        BY <3>1, <3>2, <4>1 DEF FollowedMoves
    <3> QED
      BY <3>3, <3>4
  <2>4. PICK a : /\ Joined(b, c, a) /\ a.map = << >>
                 /\ \E mod : /\ e = [CleanUpStaleMoves(a) EXCEPT !.mod = mod]
                             /\ MergedModifications(b, c, FollowMoves(b, c), mod)
    BY <1>3, <2>1, <2>2, <2>3, MergeIs
  <2>5. PICK mod : /\ e = [CleanUpStaleMoves(a) EXCEPT !.mod = mod]
                   /\ MergedModifications(b, c, fol, mod)
    BY <2>2, <2>4
  <2>6. a.moves \in Seq(MovePairs)
    <3>1. PICK r : a.moves = fol.kept \o r /\ Added(b, fol, r)
      BY <2>2, <2>4 DEF Joined, JoinedMoves
    <3>2. fol.kept \in Seq(MovePairs) /\ r \in Seq(MovePairs)
      BY <2>3, <3>1 DEF Followings, Added
    <3> QED
      BY <3>1, <3>2
  <2>7. PICK d : d = CleanUpStaleMoves(a)
    OBVIOUS
  <2>8. Builder(d) /\ d.moves \in Seq(MovePairs) /\ d.map = << >>
    BY <2>4, <2>6, <2>7, CleanUpTyped DEF Joined
  <2>9. /\ e = [del |-> e.del, ins |-> e.ins, mod |-> e.mod, moves |-> e.moves, map |-> e.map]
        /\ e.del = d.del /\ e.ins = d.ins /\ e.mod = mod /\ e.moves = d.moves /\ e.map = d.map
    <3>1. d = [del |-> d.del, ins |-> d.ins, mod |-> d.mod, moves |-> d.moves, map |-> d.map]
      BY <2>8 DEF Builder
    <3>2. e = [d EXCEPT !.mod = mod]
      BY <2>5, <2>7
    <3> QED
      BY <3>1, <3>2
  <2>10. mod \subseteq Nat
    <3> SUFFICES ASSUME NEW y \in mod
                 PROVE  y \in Nat
      OBVIOUS
    <3>1. \/ \E x \in b.mod \ c.del : y = Follows(c, x)
          \/ y \in fol.mod
          \/ \E i \in DOMAIN fol.next : y = fol.next[i].to
      BY <2>5 DEF MergedModifications
    <3>2. \A x \in b.mod \ c.del : Follows(c, x) \in Nat
      BY <2>1, FollowsFacts
    <3>3. fol.mod \subseteq Nat /\ fol.next \in Seq(MovePairs)
      BY <2>3 DEF Followings
    <3>4. \A i \in DOMAIN fol.next : fol.next[i].to \in Nat
      BY <3>3, MovePairsThere
    <3> QED
      BY <3>1, <3>2, <3>3, <3>4
  <2> QED
    BY <2>8, <2>9, <2>10 DEF TypedChanges, Builder, Sets
<1> QED
  BY <1>1, <1>2, <1>3

-----------------------------------------------------------------------------
(* The table a query or a sort looks at: l are its rows of the last run, z the
   entries modified since. *)
TableHeld(l, z) ==
    /\ ops \in 0 .. MaxOps
    /\ Traced(rows, l, tx, ops)
    /\ TableTold(l, l, rows, NoChange, tx, z, Given)

LEMMA TableHeldFacts ==
    ASSUME NEW l, NEW z, TableHeld(l, z)
    PROVE  /\ Size \in Nat /\ MaxOps \in Nat /\ ops \in 0 .. MaxOps /\ Given \in Nat
           /\ rows \in Seq(Nat) /\ l \in Seq(Nat) /\ Distinct(rows) /\ Distinct(l)
           /\ Len(rows) \in Nat /\ Len(l) \in Nat
           /\ Builder(tx) /\ tx.moves = << >> /\ Holds(tx, rows)
           /\ TableLog(tx, Len(l), Len(rows)) /\ RowsFrom(tx, l, rows)
           /\ KnownTo(rows, Given) /\ Unknown(Given + 1, rows)
           /\ Told(l, l, rows, NoChange, tx, z, Given)
<1>1. TableTold(l, l, rows, NoChange, tx, z, Given)
  BY DEF TableHeld
<1>2. /\ Told(l, l, rows, NoChange, tx, z, Given) /\ tx.moves = << >>
      /\ l \in Seq(Nat) /\ rows \in Seq(Nat) /\ Distinct(rows) /\ Distinct(l) /\ Given \in Nat
      /\ Holds(tx, rows) /\ Unknown(Given + 1, rows) /\ Len(rows) \in Nat
  BY <1>1, TableToldFacts
<1>3. KnownTo(rows, Given)
  BY <1>2 DEF Told
<1>4. TableLog(tx, Len(l), Len(rows))
  BY DEF TableHeld, Traced
<1>5. RowsFrom(tx, l, rows)
  BY DEF TableHeld, Traced, RowsFrom, Unknown
<1>6. Builder(tx)
  BY <1>4 DEF TableLog
<1>7. Len(l) \in Nat
  BY <1>2
<1> QED
  BY <1>2, <1>3, <1>4, <1>5, <1>6, <1>7, CollectionChangesAssumption DEF TableHeld

\* The table after a change, of which x is modified.
TableChanged(l, z) ==
    /\ ops' \in 0 .. MaxOps
    /\ Traced(rows', l, tx', ops')
    /\ TableTold(l, l, rows', NoChange, tx', z, Given')

LEMMA TableChange ==
    ASSUME kind \in {"rows", "query", "sorted"}, NEW l, NEW z, TableHeld(l, z), Next, ~Run
    PROVE  \E y : TableChanged(l, y) /\ z \subseteq y /\ touched' \subseteq touched \cup y
<1>1. PICK n : n = Given
  OBVIOUS
<1>2. /\ Size \in Nat /\ MaxOps \in Nat /\ ops \in 0 .. MaxOps /\ Given \in Nat
      /\ Len(rows) \in Nat /\ Builder(tx)
  BY TableHeldFacts
<1>3. Traced(rows, l, tx, ops) /\ TableTold(l, l, rows, NoChange, tx, z, n)
  BY <1>1 DEF TableHeld
<1>4. ops' = ops - 1 => Given' = n + 1
  BY <1>1, <1>2 DEF Given
<1>5. Fresh = n + 1 /\ Fresh = 1 + Size + MaxOps - ops
  BY <1>1, <1>2 DEF Given, Fresh
<1>6. ops > 0 /\ ops' = ops - 1 => ops' \in 0 .. MaxOps
  BY <1>2
<1>7. CASE AddRow
  <2>1. /\ rows' = Append(rows, Fresh) /\ tx' = ChangeInsert(tx, Len(rows))
        /\ ops > 0 /\ ops' = ops - 1 /\ touched' = touched
    BY <1>7 DEF AddRow, IsTable
  <2>2. rows' = Append(rows, n + 1) /\ rows' = Append(rows, 1 + Size + MaxOps - ops)
    BY <1>5, <2>1
  <2>3. TableTold(l, l, rows', NoChange, tx', z, n + 1)
    BY <1>2, <1>3, <2>1, <2>2, AddRowTold
  <2>4. Traced(rows', l, tx', ops - 1)
    BY <1>2, <1>3, <2>1, <2>2, AddRowTraced
  <2> QED
    BY <1>4, <1>6, <2>1, <2>3, <2>4 DEF TableChanged
<1>8. ASSUME NEW i \in Positions(rows), DeleteRow(i)
      PROVE  \E y : TableChanged(l, y) /\ z \subseteq y /\ touched' \subseteq touched \cup y
  <2>1. /\ rows' = WithoutRow(rows, i) /\ tx' = ChangeMoveOver(tx, i, Len(rows) - 1)
        /\ ops > 0 /\ ops' = ops - 1 /\ i \in 0 .. Len(rows) - 1 /\ touched' = touched
    BY <1>8 DEF DeleteRow, IsTable, Positions, WithoutRow
  <2>2. TableTold(l, l, rows', NoChange, tx', z, n + 1)
    BY <1>2, <1>3, <2>1, DeleteRowTold
  <2>3. Traced(rows', l, tx', ops - 1)
    BY <1>2, <1>3, <2>1, DeleteRowTraced
  <2> QED
    BY <1>4, <1>6, <2>1, <2>2, <2>3 DEF TableChanged
<1>9. ASSUME NEW i \in Positions(rows), NEW j \in Positions(rows), SwapRows(i, j)
      PROVE  \E y : TableChanged(l, y) /\ z \subseteq y /\ touched' \subseteq touched \cup y
  <2>1. /\ rows' = Exchanged(rows, i + 1, j + 1) /\ tx' = ChangeSwap(tx, i, j) /\ i < j
        /\ ops > 0 /\ ops' = ops - 1 /\ touched' = touched
        /\ i \in 0 .. Len(rows) - 1 /\ j \in 0 .. Len(rows) - 1
    BY <1>9 DEF SwapRows, IsTable, Positions, At, Exchanged
  <2>2. i # j
    BY <1>2, <2>1
  <2>3. TableTold(l, l, rows', NoChange, tx', z, n + 1)
    BY <1>2, <1>3, <2>1, <2>2, SwapRowsTold
  <2>4. Traced(rows', l, tx', ops - 1)
    BY <1>2, <1>3, <2>1, <2>2, SwapRowsTraced
  <2> QED
    BY <1>4, <1>6, <2>1, <2>3, <2>4 DEF TableChanged
<1>10. ASSUME NEW i \in Positions(rows), ModifyRow(i)
       PROVE  \E y : TableChanged(l, y) /\ z \subseteq y /\ touched' \subseteq touched \cup y
  <2>1. /\ rows' = rows /\ tx' = ChangeModify(tx, i) /\ ops > 0 /\ ops' = ops - 1
        /\ i \in 0 .. Len(rows) - 1 /\ touched' = touched \cup {rows[i + 1]}
    BY <1>10 DEF ModifyRow, IsTable, Positions, At
  <2>2. TableTold(l, l, rows, NoChange, tx', z \cup {rows[i + 1]}, n + 1)
    BY <1>2, <1>3, <2>1, ModifyRowTold
  <2>3. Traced(rows, l, tx', ops - 1)
    BY <1>2, <1>3, <2>1, ModifyRowTraced
  <2>4. TableChanged(l, z \cup {rows[i + 1]})
    BY <1>4, <1>6, <2>1, <2>2, <2>3 DEF TableChanged
  <2> QED
    BY <2>1, <2>4
<1>11. CASE Clear
  <2>1. /\ rows' = << >> /\ tx' = [NoChange EXCEPT !.del = 0 .. Far] /\ ops > 0 /\ ops' = ops - 1
        /\ touched' = touched
    BY <1>11 DEF Clear
  <2>2. TableTold(l, l, << >>, NoChange, tx', z, n + 1)
    BY <1>3, <2>1, ClearRowsTold
  <2>3. Traced(<< >>, l, tx', ops - 1)
    BY <1>2, <1>3, <2>1, ClearTraced
  <2> QED
    BY <1>4, <1>6, <2>1, <2>2, <2>3 DEF TableChanged
<1>12. \A i, j : ~(InsertEntry(i) \/ EraseEntry(i) \/ SetEntry(i)
                   \/ MoveEntry(i, j) \/ SwapEntries(i, j))
  BY DEF InsertEntry, EraseEntry, SetEntry, MoveEntry, SwapEntries
<1> QED
  BY <1>7, <1>8, <1>9, <1>10, <1>11, <1>12 DEF Next

\* Where rows are not swapped they fall.
LEMMA TableFalls ==
    ASSUME kind \in {"rows", "query", "sorted"}, kind \notin Swapped, NEW l, NEW z, TableHeld(l, z),
           Falls(tx, rows), Next, ~Run
    PROVE  Falls(tx', rows')
<1>1. /\ Size \in Nat /\ MaxOps \in Nat /\ ops \in 0 .. MaxOps /\ rows \in Seq(Nat)
      /\ Len(rows) \in Nat /\ Len(l) \in Nat /\ Builder(tx) /\ TableLog(tx, Len(l), Len(rows))
  BY TableHeldFacts
<1>2. CASE AddRow
  <2>1. /\ rows' = Append(rows, Fresh) /\ tx' = ChangeInsert(tx, Len(rows))
    BY <1>2 DEF AddRow
  <2>2. Fresh \in Nat
    BY <1>1 DEF Fresh
  <2> QED
    BY <1>1, <2>1, <2>2, AddedFalls
<1>3. ASSUME NEW i \in Positions(rows), DeleteRow(i)
      PROVE  Falls(tx', rows')
  <2>1. /\ rows' = WithoutRow(rows, i) /\ tx' = ChangeMoveOver(tx, i, Len(rows) - 1)
        /\ i \in 0 .. Len(rows) - 1
    BY <1>3 DEF DeleteRow, Positions, WithoutRow
  <2> QED
    BY <1>1, <2>1, MovedOverFalls
<1>4. ASSUME NEW i \in Positions(rows), ModifyRow(i)
      PROVE  Falls(tx', rows')
  <2>1. rows' = rows /\ tx' = ChangeModify(tx, i)
    BY <1>4 DEF ModifyRow
  <2> QED
    BY <1>1, <2>1, MarkedFalls
<1>5. CASE Clear
  <2>1. rows' = << >>
    BY <1>5 DEF Clear
  <2> QED
    BY <2>1 DEF Falls
<1>6. \A i, j : ~(InsertEntry(i) \/ EraseEntry(i) \/ SetEntry(i)
                   \/ MoveEntry(i, j) \/ SwapEntries(i, j) \/ SwapRows(i, j))
  BY DEF InsertEntry, EraseEntry, SetEntry, MoveEntry, SwapEntries, SwapRows
<1> QED
  BY <1>2, <1>3, <1>4, <1>5, <1>6 DEF Next

-----------------------------------------------------------------------------
(* The order a sort descriptor gives a table's entries. *)

LEMMA AppendSome ==
    ASSUME NEW m, NEW r, Some(m, r), NEW v \in Nat, Unknown(v, m), NEW u, u = Append(m, v),
           NEW q, ~Unknown(v, q), \A n \in 1 .. Len(m) : ~Unknown(m[n], q)
    PROVE  Some(u, q)
<1>1. m \in Seq(Nat) /\ Distinct(m) /\ Len(m) \in Nat
  BY DEF Some
<1>2. /\ u \in Seq(Nat) /\ Len(u) = Len(m) + 1 /\ u[Len(m) + 1] = v
      /\ \A n \in 1 .. Len(m) : u[n] = m[n]
  BY <1>1
<1>3. \A n \in 1 .. Len(m) : m[n] # v
  BY DEF Unknown
<1>4. ASSUME NEW i \in 1 .. Len(u), NEW j \in 1 .. Len(u), u[i] = u[j]
      PROVE  i = j
  <2>1. CASE i \in 1 .. Len(m) /\ j \in 1 .. Len(m)
    <3>1. m[i] = m[j]
      BY <1>2, <1>4, <2>1
    <3> QED
      BY <1>1, <2>1, <3>1 DEF Distinct
  <2> QED
    BY <1>1, <1>2, <1>3, <1>4, <2>1
<1>5. ASSUME NEW i \in 1 .. Len(u)
      PROVE  ~Unknown(u[i], q)
  <2>1. i \in 1 .. Len(m) \/ i = Len(m) + 1
    BY <1>1, <1>2
  <2> QED
    BY <1>2, <2>1
<1> QED
  BY <1>2, <1>4, <1>5 DEF Some, Distinct

LEMMA PutSome ==
    ASSUME NEW m, NEW r, Some(m, r), NEW v \in Nat, Unknown(v, m), NEW i \in 0 .. Len(m),
           NEW u, u = InsertAt(m, i + 1, v),
           NEW q, ~Unknown(v, q), \A n \in 1 .. Len(m) : ~Unknown(m[n], q)
    PROVE  Some(u, q)
<1>1. m \in Seq(Nat) /\ Distinct(m)
  BY DEF Some
<1>2. Builder(NoChange) /\ Holds(NoChange, m)
  BY <1>1, NothingToTell DEF Leads, Holds
<1>3. PICK e : e = ChangeInsert(NoChange, i)
  OBVIOUS
<1>4. MarksGo(NoChange, m, e, u) /\ OneNew(m, v, u)
  BY <1>1, <1>2, <1>3, InsertMarks
<1>5. u \in Seq(Nat) /\ Distinct(u)
  BY <1>4 DEF OneNew
<1>6. ASSUME NEW n \in 1 .. Len(u)
      PROVE  ~Unknown(u[n], q)
  <2>1. u[n] = v \/ \E k \in 1 .. Len(m) : u[n] = m[k]
    BY <1>4 DEF OneNew
  <2> QED
    BY <2>1
<1> QED
  BY <1>5, <1>6 DEF Some

\* Without an entry.
LEMMA ExcludingSome ==
    ASSUME NEW m \in Seq(Nat), Distinct(m), NEW e, NEW u, u = Excluding(m, e)
    PROVE  Some(u, m) /\ Unknown(e, u)
<1>1. PICK K : K = {n \in DOMAIN m : m[n] # e}
  OBVIOUS
<1>2. K \in SUBSET DOMAIN m /\ u = Subsequence(m, K)
  BY <1>1 DEF Excluding
<1>3. Some(u, m)
  BY <1>2, ChosenSome
<1>4. PICK k : ChosenBy(k, u, m, K)
  BY <1>2, PartChosen
<1>5. \A i \in 1 .. Len(u) : k[i] \in K /\ u[i] = m[k[i]]
  BY <1>4 DEF ChosenBy
<1> QED
  BY <1>1, <1>3, <1>5 DEF Unknown

LEMMA SortingSome ==
    ASSUME NEW m, NEW r, Some(m, r), NEW v \in Nat, Unknown(v, m), NEW u \in Sorting(m, v),
           NEW q, ~Unknown(v, q), \A n \in 1 .. Len(m) : ~Unknown(m[n], q)
    PROVE  Some(u, q)
<1>1. CASE kind = "sorted"
  <2>1. PICK i \in 1 .. Len(m) + 1 : u = InsertAt(m, i, v)
    BY <1>1 DEF Sorting
  <2>2. Len(m) \in Nat
    BY DEF Some
  <2>3. PICK j : j = i - 1
    OBVIOUS
  <2>4. j \in 0 .. Len(m) /\ j + 1 = i
    BY <2>2, <2>3
  <2>5. u = InsertAt(m, j + 1, v)
    BY <2>1, <2>4
  <2> QED
    BY <2>4, <2>5, PutSome
<1>2. CASE kind # "sorted"
  <2>1. u = Append(m, v)
    BY <1>2 DEF Sorting
  <2> QED
    BY <2>1, AppendSome
<1> QED
  BY <1>1, <1>2

\* Every other row is still there when one is erased.
LEMMA OthersStay ==
    ASSUME NEW r \in Seq(Nat), NEW i \in 0 .. Len(r) - 1, NEW q, q = WithoutRow(r, i),
           NEW e, ~Unknown(e, r), e # r[i + 1]
    PROVE  ~Unknown(e, q)
<1>0. Len(r) \in Nat /\ i + 1 \in 1 .. Len(r)
  BY LenProperties
<1>1. LastMoved(r, i + 1, q)
  BY <1>0, LastMovedIs DEF WithoutRow
<1>2. PICK n \in 1 .. Len(r) : r[n] = e
  BY DEF Unknown
<1>3. n # i + 1
  BY <1>2
<1>4. Len(q) = Len(r) - 1 /\ \A k \in 1 .. Len(r) - 1 : q[k] = r[IF k = i + 1 THEN Len(r) ELSE k]
  BY <1>1 DEF LastMoved
<1>5. CASE n = Len(r)
  <2>1. i + 1 \in 1 .. Len(r) - 1
    BY <1>0, <1>3, <1>5
  <2>2. q[i + 1] = r[Len(r)]
    BY <1>4, <2>1
  <2> QED
    BY <1>2, <1>4, <1>5, <2>1, <2>2 DEF Unknown
<1>6. CASE n # Len(r)
  <2>1. n \in 1 .. Len(r) - 1
    BY <1>0, <1>6
  <2>2. q[n] = r[n]
    BY <1>3, <1>4, <2>1
  <2> QED
    BY <1>2, <1>4, <2>1, <2>2 DEF Unknown
<1> QED
  BY <1>5, <1>6

\* Swapped rows are all there.
LEMMA SwappedStay ==
    ASSUME NEW r \in Seq(Nat), NEW i \in 0 .. Len(r) - 1, NEW j \in 0 .. Len(r) - 1, i # j,
           NEW q, q = Exchanged(r, i + 1, j + 1), NEW e, ~Unknown(e, r)
    PROVE  ~Unknown(e, q)
<1>0. Len(r) \in Nat /\ i + 1 \in 1 .. Len(r) /\ j + 1 \in 1 .. Len(r) /\ i + 1 # j + 1
  BY LenProperties
<1>1. /\ Len(q) = Len(r) /\ q[i + 1] = r[j + 1] /\ q[j + 1] = r[i + 1]
      /\ \A n \in 1 .. Len(r) : n # i + 1 /\ n # j + 1 => q[n] = r[n]
  BY <1>0, ExchangedRows
<1>2. PICK n \in 1 .. Len(r) : r[n] = e
  BY DEF Unknown
<1>3. \E k \in 1 .. Len(q) : q[k] = e
  BY <1>0, <1>1, <1>2
<1> QED
  BY <1>3 DEF Unknown

LEMMA OrderChange ==
    ASSUME kind \in {"rows", "query", "sorted"}, NEW l, NEW z, TableHeld(l, z),
           Some(order, rows), Next, ~Run
    PROVE  Some(order', rows')
<1>1. /\ rows \in Seq(Nat) /\ Distinct(rows) /\ Given \in Nat /\ Unknown(Given + 1, rows)
      /\ Size \in Nat /\ MaxOps \in Nat /\ ops \in 0 .. MaxOps /\ Len(rows) \in Nat
  BY TableHeldFacts
<1>2. PICK v : v = Fresh
  OBVIOUS
<1>3. v \in Nat /\ Unknown(v, rows)
  <2>1. v = Given + 1
    BY <1>1, <1>2 DEF Fresh, Given
  <2> QED
    BY <1>1, <2>1
<1>4. /\ order \in Seq(Nat) /\ Distinct(order) /\ Len(order) \in Nat
      /\ \A n \in 1 .. Len(order) : ~Unknown(order[n], rows)
  BY DEF Some
<1>5. CASE AddRow
  <2>1. PICK q : q = rows'
    OBVIOUS
  <2>2. PICK u : u = order'
    OBVIOUS
  <2>3. q = Append(rows, v) /\ u \in Sorting(order, v)
    BY <1>2, <1>5, <2>1, <2>2 DEF AddRow
  <2>4. /\ q \in Seq(Nat) /\ Len(q) = Len(rows) + 1 /\ q[Len(rows) + 1] = v
        /\ \A n \in 1 .. Len(rows) : q[n] = rows[n]
    BY <1>1, <1>3, <2>3
  <2>5. ~Unknown(v, q)
    BY <1>1, <2>4 DEF Unknown
  <2>6. ASSUME NEW n \in 1 .. Len(order)
        PROVE  ~Unknown(order[n], q)
    <3>1. PICK k \in 1 .. Len(rows) : rows[k] = order[n]
      BY <1>4 DEF Unknown
    <3>2. k \in 1 .. Len(q) /\ q[k] = order[n]
      BY <1>1, <2>4, <3>1
    <3> QED
      BY <3>2 DEF Unknown
  <2>7. Unknown(v, order)
    BY <1>3, <1>4 DEF Unknown
  <2>8. Some(u, q)
    BY <1>3, <2>3, <2>5, <2>6, <2>7, SortingSome
  <2> QED
    BY <2>1, <2>2, <2>8
<1>6. ASSUME NEW i \in Positions(rows), DeleteRow(i)
      PROVE  Some(order', rows')
  <2>1. PICK q : q = rows'
    OBVIOUS
  <2>2. PICK u : u = order'
    OBVIOUS
  <2>3. i \in 0 .. Len(rows) - 1 /\ q = WithoutRow(rows, i) /\ u = Excluding(order, rows[i + 1])
    BY <1>6, <2>1, <2>2 DEF DeleteRow, Positions, At, WithoutRow
  <2>4. Some(u, order) /\ Unknown(rows[i + 1], u)
    BY <1>4, <2>3, ExcludingSome
  <2>5. Some(u, rows)
    BY <2>4, SomeOfSome
  <2>6. ASSUME NEW n \in 1 .. Len(u)
        PROVE  ~Unknown(u[n], q)
    <3>1. ~Unknown(u[n], rows)
      BY <2>5 DEF Some
    <3>2. u[n] # rows[i + 1]
      BY <2>4 DEF Unknown
    <3> QED
      BY <1>1, <2>3, <3>1, <3>2, OthersStay
  <2>7. Some(u, q)
    BY <2>4, <2>6 DEF Some
  <2> QED
    BY <2>1, <2>2, <2>7
<1>7. ASSUME NEW i \in Positions(rows), NEW j \in Positions(rows), SwapRows(i, j)
      PROVE  Some(order', rows')
  <2>1. PICK q : q = rows'
    OBVIOUS
  <2>2. /\ i \in 0 .. Len(rows) - 1 /\ j \in 0 .. Len(rows) - 1 /\ i < j
        /\ q = Exchanged(rows, i + 1, j + 1) /\ order' = order
    BY <1>7, <2>1 DEF SwapRows, Positions, At, Exchanged
  <2>3. i # j
    BY <1>1, <2>2
  <2>4. ASSUME NEW n \in 1 .. Len(order)
        PROVE  ~Unknown(order[n], q)
    <3>1. ~Unknown(order[n], rows)
      BY <1>4
    <3> QED
      BY <1>1, <2>2, <2>3, <3>1, SwappedStay
  <2>5. Some(order, q)
    BY <1>4, <2>4 DEF Some
  <2> QED
    BY <2>1, <2>2, <2>5
<1>8. ASSUME NEW i \in Positions(rows), ModifyRow(i)
      PROVE  Some(order', rows')
  <2>1. PICK u : u = order'
    OBVIOUS
  <2>2. PICK e : e = rows[i + 1]
    OBVIOUS
  <2>3. /\ i \in 0 .. Len(rows) - 1 /\ rows' = rows
        /\ u \in (IF kind = "sorted" THEN Sorting(Excluding(order, e), e) ELSE {order})
    BY <1>8, <2>1, <2>2 DEF ModifyRow, Positions, At
  <2>4. e \in Nat /\ ~Unknown(e, rows)
    BY <1>1, <2>2, <2>3 DEF Unknown
  <2>5. PICK m : m = Excluding(order, e)
    OBVIOUS
  <2>6. Some(m, order) /\ Unknown(e, m)
    BY <1>4, <2>5, ExcludingSome
  <2>7. Some(m, rows)
    BY <2>6, SomeOfSome
  <2>8. \A n \in 1 .. Len(m) : ~Unknown(m[n], rows)
    BY <2>7 DEF Some
  <2>9. CASE kind = "sorted"
    <3>1. u \in Sorting(m, e)
      BY <2>3, <2>5, <2>9
    <3>2. Some(u, rows)
      BY <2>4, <2>6, <2>7, <2>8, <3>1, SortingSome
    <3> QED
      BY <2>1, <2>3, <3>2
  <2>10. CASE kind # "sorted"
    BY <2>1, <2>3, <2>10
  <2> QED
    BY <2>9, <2>10
<1>9. CASE Clear
  <2>1. rows' = << >> /\ order' = << >>
    BY <1>9 DEF Clear
  <2>2. Some(<< >>, << >>)
    BY DEF Some, Distinct
  <2> QED
    BY <2>1, <2>2
<1>10. \A i, j : ~(InsertEntry(i) \/ EraseEntry(i) \/ SetEntry(i)
                   \/ MoveEntry(i, j) \/ SwapEntries(i, j))
  BY DEF InsertEntry, EraseEntry, SetEntry, MoveEntry, SwapEntries
<1> QED
  BY <1>5, <1>6, <1>7, <1>8, <1>9, <1>10 DEF Next

-----------------------------------------------------------------------------
(* The changes of a query's or a sort's results, through every change of the table and
   every run. *)

\* What the code takes for granted of a query: rows of its table are not swapped.
Settles == kind = "query" => "query" \notin Swapped

\* l are the rows of the last run and z the entries modified since.
ResultsHold(l, z) ==
    /\ TableHeld(l, z)
    /\ RowsAre(prev, last, l) /\ last \in Seq(Nat) /\ Distinct(last)
    /\ Some(order, rows) /\ TypedChanges(acc)
    /\ Settles => ResultsTold(base, last, acc, touched, z)
    /\ kind = "query" /\ Settles => Falls(tx, rows) /\ GoesUp(prev)
ResultsReported == kind \in {"query", "sorted"} => \E l, z : ResultsHold(l, z)

LEMMA FirstTold ==
    ASSUME NEW n \in Nat, NEW p, KnownTo(p, n)
    PROVE  ResultsTold(p, p, NoChange, {}, {})
<1>1. Told(p, p, p, NoChange, NoChange, {}, n)
  BY ToldFirst
<1>2. PICK f : f = [x \in Nat |-> x]
  OBVIOUS
<1>3. p \in Seq(Nat)
  BY DEF KnownTo
<1>4. \A i \in 1 .. Len(p) : p[i] = f[p[i]]
  BY <1>2, <1>3
<1>5. Numbers(p, p, f, {}, n, p, p, NoChange, {}, {})
  BY <1>1, <1>4 DEF Numbers, NamedBy
<1> QED
  BY <1>5 DEF ResultsTold

\* More was modified.
LEMMA MoreTold ==
    ASSUME NEW p, NEW q, NEW a, NEW y, NEW z, ResultsTold(p, q, a, y, z),
           NEW u, NEW w, z \subseteq w, u \subseteq y \cup w
    PROVE  ResultsTold(p, q, a, u, w)
<1>1. PICK s, t, f, m, n : Numbers(s, t, f, m, n, p, q, a, y, z)
  BY DEF ResultsTold
<1>2. Numbers(s, t, f, m, n, p, q, a, u, w)
  BY <1>1 DEF Numbers
<1> QED
  BY <1>2 DEF ResultsTold

\* The table, when its log is empty.
LEMMA TableFirst ==
    ASSUME NEW r \in Seq(Nat), NEW o \in 0 .. MaxOps, MaxOps \in Nat, Size \in Nat,
           Len(r) <= Size + MaxOps - o, KnownTo(r, Size + MaxOps - o)
    PROVE  Traced(r, r, NoChange, o) /\ TableTold(r, r, r, NoChange, NoChange, {}, Size + MaxOps - o)
<1>1. \A n \in 1 .. Len(r) : r[n] <= Size + MaxOps - o
  BY DEF KnownTo
<1>2. Traced(r, r, NoChange, o)
  BY <1>1, NoChangeTraced
<1>3. Told(r, r, r, NoChange, NoChange, {}, Size + MaxOps - o)
  BY ToldFirst
<1>4. NoChange.moves = << >>
  BY DEF NoChange
<1> QED
  BY <1>2, <1>3, <1>4 DEF TableTold

LEMMA FirstResultsReported == Init => ResultsReported
<1> SUFFICES ASSUME Init, kind \in {"query", "sorted"}
             PROVE  \E l, z : ResultsHold(l, z)
  BY DEF ResultsReported
<1>1. Size \in Nat /\ MaxOps \in Nat
  BY CollectionChangesAssumption
<1>2. /\ rows = [i \in 1 .. Size |-> i] /\ order = rows /\ tx = NoChange /\ acc = NoChange
      /\ touched = {} /\ ops = MaxOps /\ last = Collection /\ base = Collection
      /\ prev = RowsOf(last)
  BY DEF Init
<1>3. KnownTo(rows, Size) /\ rows \in Seq(Nat) /\ Len(rows) = Size /\ Distinct(rows)
  <2>1. rows \in Seq(Nat) /\ Len(rows) = Size /\ \A n \in 1 .. Size : rows[n] = n /\ n <= Size
    BY <1>1, <1>2
  <2> QED
    BY <2>1 DEF KnownTo, Distinct
<1>4. MaxOps \in 0 .. MaxOps /\ Size + MaxOps - MaxOps = Size
  BY <1>1
<1>5. /\ Traced(rows, rows, NoChange, MaxOps)
      /\ TableTold(rows, rows, rows, NoChange, NoChange, {}, Size + MaxOps - MaxOps)
  BY <1>1, <1>3, <1>4, TableFirst
<1>6. TableHeld(rows, {})
  BY <1>2, <1>4, <1>5 DEF TableHeld, Given
<1>7. Some(order, rows)
  BY <1>2, <1>3, AllOfThem
<1>8. Some(last, rows)
  BY <1>2, <1>3, <1>7, CollectionIs
<1>9. RowsAre(prev, last, rows) /\ last \in Seq(Nat) /\ Distinct(last)
  <2>1. RowsAre(prev, last, rows)
    BY <1>2, <1>3, <1>8, RowsOfIs
  <2> QED
    BY <1>8, <2>1 DEF Some
<1>10. TypedChanges(acc)
  <2>1. Builder(NoChange)
    BY <1>3, NothingToTell DEF Leads
  <2> QED
    BY <1>2, <2>1 DEF TypedChanges, NoChange
<1>11. ResultsTold(base, last, acc, touched, {})
  <2>1. ASSUME NEW i \in 1 .. Len(last)
        PROVE  last[i] <= Size
    <3>1. \E k \in 1 .. Len(rows) : rows[k] = last[i]
      BY <1>8 DEF Some, Unknown
    <3> QED
      BY <1>3, <3>1 DEF KnownTo
  <2>2. KnownTo(last, Size)
    BY <1>9, <2>1 DEF KnownTo
  <2>3. ResultsTold(last, last, NoChange, {}, {})
    BY <1>1, <2>2, FirstTold
  <2> QED
    BY <1>2, <2>3
<1>12. kind = "query" => Falls(tx, rows) /\ GoesUp(prev)
  <2>1. Falls(NoChange, rows)
    BY <1>1, <1>3, FirstFalls
  <2>2. ASSUME kind = "query"
        PROVE  GoesUp(prev)
    <3>1. last = Matching(rows)
      BY <1>2, <2>2 DEF Collection
    <3> QED
      BY <1>2, <1>3, <3>1, MatchingGoesUp
  <2> QED
    BY <1>2, <2>1, <2>2
<1>13. ResultsHold(rows, {})
  BY <1>6, <1>7, <1>9, <1>10, <1>11, <1>12 DEF ResultsHold
<1> QED
  BY <1>13

\* A change of the table.
LEMMA ResultsChange ==
    ASSUME kind \in {"query", "sorted"}, NEW l, NEW z, ResultsHold(l, z), Next, ~Run
    PROVE  \E y : ResultsHold(l, y)'
<1>1. /\ TableHeld(l, z) /\ RowsAre(prev, last, l) /\ last \in Seq(Nat) /\ Distinct(last)
      /\ Some(order, rows) /\ TypedChanges(acc)
      /\ Settles => ResultsTold(base, last, acc, touched, z)
      /\ kind = "query" /\ Settles => Falls(tx, rows) /\ GoesUp(prev)
  BY DEF ResultsHold
<1>2. kind' = kind /\ last' = last /\ prev' = prev /\ acc' = acc /\ base' = base
  BY DEF Next, InsertEntry, EraseEntry, SetEntry, MoveEntry, SwapEntries, AddRow, DeleteRow,
         SwapRows, ModifyRow, Clear, observed
<1>3. PICK y : TableChanged(l, y) /\ z \subseteq y /\ touched' \subseteq touched \cup y
  BY <1>1, TableChange
<1>4. TableHeld(l, y)'
  BY <1>3 DEF TableChanged, TableHeld
<1>5. Some(order', rows')
  BY <1>1, OrderChange
<1>6. ASSUME Settles
      PROVE  ResultsTold(base, last, acc, touched', y)
  <2>1. ResultsTold(base, last, acc, touched, z)
    BY <1>1, <1>6
  <2> QED
    BY <1>3, <2>1, MoreTold
<1>7. ASSUME kind = "query", Settles
      PROVE  Falls(tx', rows')
  <2>1. kind \notin Swapped /\ Falls(tx, rows)
    BY <1>1, <1>7 DEF Settles
  <2> QED
    BY <1>1, <2>1, TableFalls
<1>8. Settles' <=> Settles
  BY <1>2 DEF Settles
<1>9. ResultsHold(l, y)'
  BY <1>1, <1>2, <1>4, <1>5, <1>6, <1>7, <1>8 DEF ResultsHold
<1> QED
  BY <1>9

\* The entries modified since the last run are marked, or they are new or gone.
LEMMA MarkedRows ==
    ASSUME NEW l, NEW z, TableHeld(l, z)
    PROVE  RowsMarked(z, l, rows, tx.mod)
<1>1. Told(l, l, rows, NoChange, tx, z, Given) /\ Holds(tx, rows)
  BY TableHeldFacts
<1>2. \A v \in z : ToldOf(v, l, l, rows, NoChange, tx)
  BY <1>1 DEF Told
<1>3. ASSUME NEW v \in z
      PROVE  Unknown(v, rows) \/ Unknown(v, l)
             \/ \E x \in tx.mod : x \in 0 .. Len(rows) - 1 /\ rows[x + 1] = v
  <2>1. ~Marked(v, NoChange, l)
    BY DEF Marked, NoChange
  <2>2. Marked(v, tx, rows) => \E x \in tx.mod : x \in 0 .. Len(rows) - 1 /\ rows[x + 1] = v
    BY <1>1 DEF Marked, Holds
  <2> QED
    BY <1>2, <2>1, <2>2 DEF ToldOf
<1> QED
  BY <1>3 DEF RowsMarked

\* What a run calculates of results.
ResultsRan(c, l, r, q, g, u, next, changed) ==
    /\ TypedChanges(c)
    /\ Settles => \E old : RunOf(c, l, r, q, g, old, u, next) /\ ChangedRows(c, next, changed)

LEMMA RunCalculates ==
    ASSUME kind \in {"query", "sorted"}, NEW l, NEW z, ResultsHold(l, z),
           NEW u, u = Collection, NEW next, next = RowsOf(u), NEW c, c = ResultsChanges(next)
    PROVE  /\ ResultsRan(c, l, rows, last, prev, u, next, tx.mod)
           /\ Some(u, rows) /\ RowsAre(next, u, rows) /\ (kind = "query" => GoesUp(next))
<1>1. /\ TableHeld(l, z) /\ RowsAre(prev, last, l) /\ last \in Seq(Nat) /\ Distinct(last)
      /\ Some(order, rows)
      /\ kind = "query" /\ Settles => Falls(tx, rows) /\ GoesUp(prev)
  BY DEF ResultsHold
<1>2. /\ rows \in Seq(Nat) /\ l \in Seq(Nat) /\ Distinct(rows) /\ Distinct(l)
      /\ TableLog(tx, Len(l), Len(rows)) /\ RowsFrom(tx, l, rows) /\ tx.moves = << >>
  BY <1>1, TableHeldFacts
<1>3. PICK info : info = ParseComplete(tx)
  OBVIOUS
<1>4. Leads(info, l, rows) /\ info.map = << >> /\ info.mod = tx.mod
  BY <1>2, <1>3, ParsedLeads
<1>5. PICK old : old = [i \in DOMAIN prev |-> FollowRow(info, prev[i])]
  OBVIOUS
<1>6. NowAt(old, prev, l, rows) /\ OnceEach(old)
  BY <1>1, <1>2, <1>4, <1>5, FollowedRows
<1>7. Some(u, rows)
  BY <1>1, <1>2, CollectionIs
<1>8. RowsAre(next, u, rows)
  BY <1>2, <1>7, RowsOfIs
<1>9. Distinct(u) /\ Distinct(next)
  <2>1. Distinct(u)
    BY <1>7 DEF Some
  <2> QED
    BY <1>8, <2>1, RowsOnce
<1>10. old \in Seq(Int) /\ next \in Seq(Nat)
  BY <1>6, <1>8 DEF NowAt, RowsAre
<1>11. kind = "query" => GoesUp(next)
  <2>1. kind = "query" => u = Matching(rows)
    BY DEF Collection
  <2> QED
    BY <1>2, <2>1, MatchingGoesUp
<1>12. c = Calculate(old, next, tx.mod, kind = "query", info.ins)
  BY <1>3, <1>4, <1>5 DEF ResultsChanges
<1>13. ASSUME Accounts(c, old, next), ChangedRows(c, next, tx.mod)
       PROVE  \E x : RunOf(c, l, rows, last, prev, x, u, next) /\ ChangedRows(c, next, tx.mod)
  <2>1. RunOf(c, l, rows, last, prev, old, u, next)
    BY <1>1, <1>2, <1>6, <1>8, <1>9, <1>13 DEF RunOf
  <2> QED
    BY <1>13, <2>1
<1>14. CASE kind = "sorted"
  <2>1. c = Calculate(old, next, tx.mod, FALSE, info.ins)
    BY <1>12, <1>14
  <2>2. Calculated(c, old, next, tx.mod, FALSE, info.ins)
    BY <1>6, <1>9, <1>10, <2>1, CalculateIs
  <2>3. TypedChanges(c) /\ Accounts(c, old, next) /\ ChangedRows(c, next, tx.mod)
    BY <1>6, <1>9, <1>10, <2>2, AnyOrderAccounts
  <2> QED
    BY <1>7, <1>8, <1>11, <1>13, <2>3 DEF ResultsRan
<1>15. CASE kind = "query"
  <2>1. c = Calculate(old, next, tx.mod, TRUE, info.ins)
    BY <1>12, <1>15
  <2>2. Calculated(c, old, next, tx.mod, TRUE, info.ins)
    BY <1>6, <1>9, <1>10, <2>1, CalculateIs
  <2>3. TypedChanges(c)
    BY <1>6, <1>9, <1>10, <2>2, TableOrderTypes
  <2>4. ASSUME Settles
        PROVE  Accounts(c, old, next) /\ ChangedRows(c, next, tx.mod)
    <3>1. Falls(tx, rows) /\ GoesUp(prev) /\ GoesUp(next)
      BY <1>1, <1>11, <1>15, <2>4
    <3>2. SettledRows(old, next, info.ins)
      BY <1>1, <1>2, <1>3, <1>6, <1>8, <3>1, QuerySettled
    <3> QED
      BY <1>6, <1>9, <1>10, <2>2, <3>2, TableOrderAccounts
  <2> QED
    BY <1>7, <1>8, <1>11, <1>13, <2>3, <2>4 DEF ResultsRan
<1> QED
  BY <1>14, <1>15

\* A run.
LEMMA ResultsRunStep ==
    ASSUME kind \in {"query", "sorted"}, NEW l, NEW z, ResultsHold(l, z), Run
    PROVE  ResultsHold(rows, {})'
<1>1. /\ TableHeld(l, z) /\ Some(order, rows) /\ TypedChanges(acc)
      /\ Settles => ResultsTold(base, last, acc, touched, z)
  BY DEF ResultsHold
<1>2. PICK u : u = Collection
  OBVIOUS
<1>3. PICK next : next = RowsOf(u)
  OBVIOUS
<1>4. PICK c : c = ResultsChanges(next)
  OBVIOUS
<1>5. /\ ResultsRan(c, l, rows, last, prev, u, next, tx.mod)
      /\ Some(u, rows) /\ RowsAre(next, u, rows) /\ (kind = "query" => GoesUp(next))
  BY <1>2, <1>3, <1>4, RunCalculates
<1>6. c = RunChanges
  BY <1>2, <1>3, <1>4 DEF RunChanges
<1>7. /\ acc' = Merge(acc, c) /\ tx' = NoChange /\ last' = u /\ prev' = RowsOf(last')
      /\ kind' = kind /\ rows' = rows /\ order' = order /\ base' = base
      /\ touched' = touched /\ ops' = ops
  BY <1>2, <1>6 DEF Run
<1>8. prev' = next
  BY <1>3, <1>7
<1>9. /\ Size \in Nat /\ MaxOps \in Nat /\ ops \in 0 .. MaxOps /\ rows \in Seq(Nat)
      /\ Len(rows) \in Nat /\ KnownTo(rows, Given) /\ Len(rows) <= Size + MaxOps - ops
  <2>1. Traced(rows, l, tx, ops)
    BY <1>1 DEF TableHeld
  <2>2. Len(rows) <= Size + MaxOps - ops
    BY <2>1 DEF Traced
  <2> QED
    BY <1>1, <2>2, TableHeldFacts
<1>10. /\ Traced(rows, rows, NoChange, ops)
       /\ TableTold(rows, rows, rows, NoChange, NoChange, {}, Size + MaxOps - ops)
  BY <1>9, TableFirst DEF Given
<1>11. TableHeld(rows, {})'
  BY <1>7, <1>9, <1>10 DEF TableHeld, Given
<1>12. TypedChanges(acc')
  <2>1. TypedChanges(c)
    BY <1>5 DEF ResultsRan
  <2> QED
    BY <1>1, <1>7, <2>1, MergeTyped
<1>13. Distinct(u) /\ u \in Seq(Nat)
  BY <1>5 DEF Some
<1>14. RowsMarked(z, l, rows, tx.mod)
  BY <1>1, MarkedRows
<1>15. ASSUME Settles
       PROVE  ResultsTold(base, u, acc', touched, {})
  <2>1. PICK old : RunOf(c, l, rows, last, prev, old, u, next) /\ ChangedRows(c, next, tx.mod)
    BY <1>5, <1>15 DEF ResultsRan
  <2>2. TypedChanges(c)
    BY <1>5 DEF ResultsRan
  <2>3. ResultsTold(base, last, acc, touched, z)
    BY <1>1, <1>15
  <2> QED
    BY <1>7, <1>14, <2>1, <2>2, <2>3, ResultsRun
<1>16. kind = "query" => Falls(NoChange, rows)
  BY <1>9, FirstFalls
<1>17. Settles' <=> Settles
  BY <1>7 DEF Settles
<1> QED
  BY <1>1, <1>5, <1>7, <1>8, <1>11, <1>12, <1>13, <1>15, <1>16, <1>17 DEF ResultsHold

LEMMA ResultsReportedStep ==
    ASSUME ResultsReported, [Next]_vars
    PROVE  ResultsReported'
<1>1. kind' = kind
  BY DEF Next, InsertEntry, EraseEntry, SetEntry, MoveEntry, SwapEntries, AddRow, DeleteRow,
         SwapRows, ModifyRow, Clear, Run, observed, vars
<1>2. CASE kind \notin {"query", "sorted"}
  BY <1>1, <1>2 DEF ResultsReported
<1>3. CASE kind \in {"query", "sorted"}
  <2>1. PICK l, z : ResultsHold(l, z)
    BY <1>3 DEF ResultsReported
  <2>2. CASE Run
    <3>1. ResultsHold(rows, {})'
      BY <1>3, <2>1, <2>2, ResultsRunStep
    <3> QED
      BY <3>1 DEF ResultsReported
  <2>3. CASE Next /\ ~Run
    <3>1. PICK y : ResultsHold(l, y)'
      BY <1>3, <2>1, <2>3, ResultsChange
    <3> QED
      BY <3>1 DEF ResultsReported
  <2>4. CASE UNCHANGED vars
    <3>1. ResultsHold(l, z)'
      BY <2>1, <2>4 DEF vars, ResultsHold, TableHeld, Settles, Given
    <3> QED
      BY <3>1 DEF ResultsReported
  <2> QED
    BY <2>2, <2>3, <2>4
<1> QED
  BY <1>2, <1>3

(* The inductive invariant of queries and sorted results: the rows of the last run are
   known, and where the table's log leads them; what has accumulated leads from the
   callback's results to those of the last run, an entry that left and came back
   counting as another; an entry modified is marked in it, or in the log
   (results_notifier.cpp: run, calculate_changes and prepare_handover). *)
THEOREM AlwaysResultsReported == Spec => []ResultsReported
<1>1. Init => ResultsReported
  BY FirstResultsReported
<1>2. ResultsReported /\ [Next]_vars => ResultsReported'
  BY ResultsReportedStep
<1> QED
  BY <1>1, <1>2, PTL DEF Spec

-----------------------------------------------------------------------------
(* Types. *)
Entries == 1 .. Size + MaxOps

LEMMA ExcludingTyped ==
    ASSUME NEW T, NEW s \in Seq(T), NEW e
    PROVE  Excluding(s, e) \in Seq(T)
<1>1. PICK K : K = {n \in DOMAIN s : s[n] # e}
  OBVIOUS
<1>2. K \in SUBSET DOMAIN s
  BY <1>1
<1>3. PICK u : u = Subsequence(s, K)
  OBVIOUS
<1>4. u \in Seq(T)
  BY <1>2, <1>3, PartChosen
<1> QED
  BY <1>1, <1>3, <1>4 DEF Excluding

LEMMA MatchingTyped ==
    ASSUME NEW T, NEW s \in Seq(T)
    PROVE  Matching(s) \in Seq(T)
<1>1. PICK K : K = {n \in DOMAIN s : s[n] \in fits}
  OBVIOUS
<1>2. K \in SUBSET DOMAIN s
  BY <1>1
<1>3. PICK u : u = Subsequence(s, K)
  OBVIOUS
<1>4. u \in Seq(T)
  BY <1>2, <1>3, PartChosen
<1> QED
  BY <1>1, <1>3, <1>4 DEF Matching

LEMMA InsertedTyped ==
    ASSUME NEW T, NEW s \in Seq(T), NEW i \in 1 .. Len(s) + 1, NEW v \in T
    PROVE  InsertAt(s, i, v) \in Seq(T)
<1>1. Len(s) \in Nat
  BY LenProperties
<1>2. PICK j : j = i - 1
  OBVIOUS
<1>3. j \in 0 .. Len(s) /\ j + 1 = i
  BY <1>1, <1>2
<1>4. PICK u : u = InsertAt(s, j + 1, v)
  OBVIOUS
<1>5. u \in Seq(T)
  BY <1>3, <1>4, InsertAtFacts
<1> QED
  BY <1>3, <1>4, <1>5

LEMMA RemovedTyped ==
    ASSUME NEW T, NEW s \in Seq(T), NEW i \in 0 .. Len(s) - 1
    PROVE  RemoveAt(s, i + 1) \in Seq(T) /\ Len(RemoveAt(s, i + 1)) = Len(s) - 1
<1>1. PICK u : u = RemoveAt(s, i + 1)
  OBVIOUS
<1>2. u \in Seq(T) /\ TakenOut(s, i, u)
  BY <1>1, RemoveAtFacts
<1> QED
  BY <1>1, <1>2 DEF TakenOut

LEMMA SortingTyped ==
    ASSUME NEW T, NEW s \in Seq(T), NEW v \in T, NEW u \in Sorting(s, v)
    PROVE  u \in Seq(T)
<1>1. CASE kind = "sorted"
  <2>1. PICK i \in 1 .. Len(s) + 1 : u = InsertAt(s, i, v)
    BY <1>1 DEF Sorting
  <2> QED
    BY <2>1, InsertedTyped
<1>2. CASE kind # "sorted"
  <2>1. u = Append(s, v)
    BY <1>2 DEF Sorting
  <2> QED
    BY <2>1
<1> QED
  BY <1>1, <1>2

LEMMA ReplacedTyped ==
    ASSUME NEW T, NEW s \in Seq(T), NEW x, NEW y, NEW a \in T, NEW b \in T
    PROVE  [s EXCEPT ![x] = a, ![y] = b] \in Seq(T)
<1>1. PICK n \in Nat : n = Len(s)
  BY LenProperties
<1>2. s \in [1 .. n -> T]
  BY <1>1
<1>3. PICK f : f = [s EXCEPT ![x] = a, ![y] = b]
  OBVIOUS
<1>4. f \in [1 .. n -> T]
  BY <1>2, <1>3
<1>5. f \in Seq(T)
  BY <1>4, SeqIs
<1> QED
  BY <1>3, <1>5

LEMMA RowsOfRows ==
    ASSUME NEW T, rows \in Seq(T)
    PROVE  RowsOf(rows) \in Seq(Nat)
<1>1. Len(rows) \in Nat /\ DOMAIN rows = 1 .. Len(rows)
  BY LenProperties
<1>2. ASSUME NEW i \in 1 .. Len(rows)
      PROVE  PositionOf(rows, rows[i]) \in Nat
  <2>1. PICK x : x = PositionOf(rows, rows[i])
    OBVIOUS
  <2>2. i - 1 \in Positions(rows) /\ At(rows, i - 1) = rows[i]
    BY <1>1 DEF Positions, At
  <2>3. x \in Positions(rows)
    BY <2>1, <2>2 DEF PositionOf
  <2> QED
    BY <1>1, <2>1, <2>3 DEF Positions
<1> QED
  BY <1>1, <1>2 DEF RowsOf

\* What the types of the collections rest on.
Typed ==
    /\ kind \in Kinds
    /\ rows \in Seq(Entries) /\ order \in Seq(Entries)
    /\ last \in Seq(Entries) /\ base \in Seq(Entries)
    /\ fits \subseteq Entries /\ touched \subseteq Entries
    /\ ops \in 0 .. MaxOps /\ runs \in 0 .. MaxRuns
    /\ kind \in {"list", "rows"} => prev \in Seq(Nat)

LEMMA CollectionTyped ==
    ASSUME Typed
    PROVE  Collection \in Seq(Entries)
<1>1. kind \in {"list", "rows", "query", "sorted"} /\ rows \in Seq(Entries) /\ order \in Seq(Entries)
  BY CollectionChangesAssumption DEF Typed
<1>2. Matching(rows) \in Seq(Entries) /\ Matching(order) \in Seq(Entries)
  BY <1>1, MatchingTyped
<1> QED
  BY <1>1, <1>2 DEF Collection

LEMMA FirstTyped == Init => Typed
<1> SUFFICES ASSUME Init
             PROVE  Typed
  OBVIOUS
<1>1. Size \in Nat /\ MaxOps \in Nat /\ MaxRuns \in Nat /\ Kinds \subseteq {"list", "rows", "query", "sorted"}
  BY CollectionChangesAssumption
<1>2. /\ rows = [i \in 1 .. Size |-> i] /\ order = rows /\ kind \in Kinds
      /\ touched = {} /\ ops = MaxOps /\ runs = MaxRuns /\ last = Collection /\ base = Collection
      /\ prev = RowsOf(last)
  BY DEF Init
<1>3. rows \in Seq(Entries)
  BY <1>1, <1>2 DEF Entries
<1>4. Range(rows) \subseteq Entries
  <2>1. DOMAIN rows = 1 .. Len(rows) /\ \A n \in 1 .. Len(rows) : rows[n] \in Entries
    BY <1>3
  <2> QED
    BY <2>1 DEF Range
<1>5. fits \subseteq Entries
  BY <1>4 DEF Init
<1>6. Matching(rows) \in Seq(Entries)
  BY <1>3, MatchingTyped
<1>7. Collection \in Seq(Entries)
  BY <1>1, <1>2, <1>3, <1>6 DEF Collection
<1>8. kind \in {"list", "rows"} => prev \in Seq(Nat)
  <2>1. kind \in {"list", "rows"} => last = rows
    BY <1>2 DEF Collection
  <2>2. RowsOf(rows) \in Seq(Nat)
    BY <1>3, RowsOfRows
  <2> QED
    BY <1>2, <2>1, <2>2
<1> QED
  BY <1>1, <1>2, <1>3, <1>5, <1>7, <1>8 DEF Typed

LEMMA TypedStep ==
    ASSUME Typed, [Next]_vars
    PROVE  Typed'
<1>1. Size \in Nat /\ MaxOps \in Nat /\ MaxRuns \in Nat
  BY CollectionChangesAssumption
<1>2. /\ kind \in Kinds /\ rows \in Seq(Entries) /\ order \in Seq(Entries)
      /\ last \in Seq(Entries) /\ base \in Seq(Entries)
      /\ fits \subseteq Entries /\ touched \subseteq Entries
      /\ ops \in 0 .. MaxOps /\ runs \in 0 .. MaxRuns
      /\ kind \in {"list", "rows"} => prev \in Seq(Nat)
  BY DEF Typed
<1>3. Len(rows) \in Nat /\ Positions(rows) = 0 .. Len(rows) - 1
  BY <1>2 DEF Positions
<1>4. PICK v : v = Fresh
  OBVIOUS
<1>5. ops > 0 => v \in Entries /\ ops - 1 \in 0 .. MaxOps
  BY <1>1, <1>2, <1>4 DEF Fresh, Entries
<1>6. \A i \in Positions(rows) : At(rows, i) \in Entries
  BY <1>2, <1>3 DEF At
<1>7. ASSUME observed' = observed, ops > 0, ops' = ops - 1, rows' \in Seq(Entries), order' \in Seq(Entries),
             fits' \subseteq Entries, touched' \subseteq Entries
      PROVE  Typed'
  <2>1. kind' = kind /\ last' = last /\ prev' = prev /\ base' = base /\ runs' = runs
    BY <1>7 DEF observed
  <2> QED
    BY <1>2, <1>5, <1>7, <2>1 DEF Typed, Entries
<1>8. ASSUME NEW i \in 0 .. Len(rows), InsertEntry(i)
      PROVE  Typed'
  <2>1. /\ ops > 0 /\ ops' = ops - 1 /\ rows' = InsertAt(rows, i + 1, v) /\ order' = rows'
        /\ fits' = fits \cup {v} /\ touched' = touched /\ observed' = observed
    BY <1>4, <1>8 DEF InsertEntry
  <2>2. i + 1 \in 1 .. Len(rows) + 1
    BY <1>3
  <2>3. InsertAt(rows, i + 1, v) \in Seq(Entries)
    BY <1>2, <1>5, <2>1, <2>2, InsertedTyped
  <2>4. fits' \subseteq Entries
    BY <1>2, <1>5, <2>1
  <2> QED
    BY <1>2, <1>7, <2>1, <2>3, <2>4
<1>9. ASSUME NEW i \in Positions(rows), EraseEntry(i)
      PROVE  Typed'
  <2>1. /\ ops > 0 /\ ops' = ops - 1 /\ rows' = RemoveAt(rows, i + 1) /\ order' = rows'
        /\ fits' = fits /\ touched' = touched /\ observed' = observed
    BY <1>9 DEF EraseEntry
  <2>2. RemoveAt(rows, i + 1) \in Seq(Entries)
    BY <1>2, <1>3, RemovedTyped
  <2> QED
    BY <1>2, <1>7, <2>1, <2>2
<1>10. ASSUME NEW i \in Positions(rows), NEW j \in Positions(rows), MoveEntry(i, j)
       PROVE  Typed'
  <2>1. PICK m : m = RemoveAt(rows, i + 1)
    OBVIOUS
  <2>2. /\ ops > 0 /\ ops' = ops - 1 /\ rows' = InsertAt(m, j + 1, At(rows, i)) /\ order' = rows'
        /\ fits' = fits /\ touched' = touched /\ observed' = observed
    BY <1>10, <2>1 DEF MoveEntry
  <2>3. m \in Seq(Entries) /\ Len(m) = Len(rows) - 1
    BY <1>2, <1>3, <2>1, RemovedTyped
  <2>4. j + 1 \in 1 .. Len(m) + 1
    BY <1>3, <2>3
  <2>5. InsertAt(m, j + 1, At(rows, i)) \in Seq(Entries)
    BY <1>6, <2>3, <2>4, InsertedTyped
  <2> QED
    BY <1>2, <1>7, <2>2, <2>5
<1>11. ASSUME NEW i \in Positions(rows), NEW j \in Positions(rows)
       PROVE  [rows EXCEPT ![i + 1] = At(rows, j), ![j + 1] = At(rows, i)] \in Seq(Entries)
  <2>1. At(rows, i) \in Entries /\ At(rows, j) \in Entries
    BY <1>6
  <2> QED
    BY <1>2, <2>1, ReplacedTyped
<1>12. ASSUME NEW i \in Positions(rows), NEW j \in Positions(rows), SwapEntries(i, j)
       PROVE  Typed'
  <2>1. /\ ops > 0 /\ ops' = ops - 1 /\ order' = rows'
        /\ rows' = [rows EXCEPT ![i + 1] = At(rows, j), ![j + 1] = At(rows, i)]
        /\ fits' = fits /\ touched' = touched /\ observed' = observed
    BY <1>12 DEF SwapEntries
  <2> QED
    BY <1>2, <1>7, <1>11, <2>1
<1>13. ASSUME NEW i \in Positions(rows), SetEntry(i)
       PROVE  Typed'
  <2>1. /\ ops > 0 /\ ops' = ops - 1 /\ rows' = rows /\ order' = order
        /\ fits' = fits /\ touched' = touched \cup {At(rows, i)} /\ observed' = observed
    BY <1>13 DEF SetEntry
  <2>2. touched' \subseteq Entries
    BY <1>2, <1>6, <2>1
  <2> QED
    BY <1>2, <1>7, <2>1, <2>2
<1>14. ASSUME NEW e \in Entries
       PROVE  \A f \in Fitting(e) : f \subseteq Entries
  BY <1>2 DEF Fitting
<1>15. CASE AddRow
  <2>1. /\ ops > 0 /\ ops' = ops - 1 /\ rows' = Append(rows, v) /\ order' \in Sorting(order, v)
        /\ fits' \in Fitting(v) /\ touched' = touched /\ observed' = observed
    BY <1>4, <1>15 DEF AddRow, IsTable
  <2>2. v \in Entries
    BY <1>5, <2>1
  <2>3. fits' \subseteq Entries
    BY <1>14, <2>1, <2>2
  <2>4. order' \in Seq(Entries)
    BY <1>2, <2>1, <2>2, SortingTyped
  <2>5. rows' \in Seq(Entries)
    BY <1>2, <2>1, <2>2
  <2> QED
    BY <1>2, <1>7, <2>1, <2>3, <2>4, <2>5
<1>16. ASSUME NEW i \in Positions(rows), DeleteRow(i)
       PROVE  Typed'
  <2>1. PICK q : q = Front([rows EXCEPT ![i + 1] = Last(rows)])
    OBVIOUS
  <2>2. /\ ops > 0 /\ ops' = ops - 1 /\ rows' = q /\ order' = Excluding(order, At(rows, i))
        /\ fits' = fits /\ touched' = touched /\ observed' = observed
    BY <1>16, <2>1 DEF DeleteRow, IsTable
  <2>3. i + 1 \in 1 .. Len(rows)
    BY <1>3
  <2>4. q \in Seq(Entries)
    BY <1>2, <2>1, <2>3, LastMovedIs
  <2>5. order' \in Seq(Entries)
    BY <1>2, <2>2, ExcludingTyped
  <2> QED
    BY <1>2, <1>7, <2>2, <2>4, <2>5
<1>17. ASSUME NEW i \in Positions(rows), NEW j \in Positions(rows), SwapRows(i, j)
       PROVE  Typed'
  <2>1. /\ ops > 0 /\ ops' = ops - 1 /\ order' = order
        /\ rows' = [rows EXCEPT ![i + 1] = At(rows, j), ![j + 1] = At(rows, i)]
        /\ fits' = fits /\ touched' = touched /\ observed' = observed
    BY <1>17 DEF SwapRows, IsTable
  <2> QED
    BY <1>2, <1>7, <1>11, <2>1
<1>18. ASSUME NEW i \in Positions(rows), ModifyRow(i)
       PROVE  Typed'
  <2>1. PICK e : e = At(rows, i)
    OBVIOUS
  <2>2. /\ ops > 0 /\ ops' = ops - 1 /\ rows' = rows
        /\ order' \in (IF kind = "sorted" THEN Sorting(Excluding(order, e), e) ELSE {order})
        /\ fits' \in Fitting(e) /\ touched' = touched \cup {e} /\ observed' = observed
    BY <1>18, <2>1 DEF ModifyRow, IsTable
  <2>3. e \in Entries
    BY <1>6, <2>1
  <2>4. fits' \subseteq Entries /\ touched' \subseteq Entries
    BY <1>2, <1>14, <2>2, <2>3
  <2>5. Excluding(order, e) \in Seq(Entries)
    BY <1>2, ExcludingTyped
  <2>6. order' \in Seq(Entries)
    <3>1. CASE kind = "sorted"
      <4>1. order' \in Sorting(Excluding(order, e), e)
        BY <2>2, <3>1
      <4> QED
        BY <2>3, <2>5, <4>1, SortingTyped
    <3>2. CASE kind # "sorted"
      BY <1>2, <2>2, <3>2
    <3> QED
      BY <3>1, <3>2
  <2> QED
    BY <1>2, <1>7, <2>2, <2>4, <2>6
<1>19. CASE Clear
  <2>1. /\ ops > 0 /\ ops' = ops - 1 /\ rows' = << >> /\ order' = << >>
        /\ fits' = fits /\ touched' = touched /\ observed' = observed
    BY <1>19 DEF Clear
  <2>2. << >> \in Seq(Entries)
    OBVIOUS
  <2> QED
    BY <1>2, <1>7, <2>1, <2>2
<1>20. CASE Run
  <2>1. /\ runs > 0 /\ runs' = runs - 1 /\ last' = Collection /\ prev' = RowsOf(last')
        /\ kind' = kind /\ rows' = rows /\ order' = order /\ fits' = fits /\ base' = base
        /\ touched' = touched /\ ops' = ops
    BY <1>20 DEF Run
  <2>2. Collection \in Seq(Entries)
    BY CollectionTyped
  <2>3. kind \in {"list", "rows"} => prev' \in Seq(Nat)
    <3>1. kind \in {"list", "rows"} => last' = rows
      BY <2>1 DEF Collection
    <3>2. RowsOf(rows) \in Seq(Nat)
      BY <1>2, RowsOfRows
    <3> QED
      BY <2>1, <3>1, <3>2
  <2>4. runs' \in 0 .. MaxRuns
    BY <1>1, <1>2, <2>1
  <2> QED
    BY <1>2, <2>1, <2>2, <2>3, <2>4 DEF Typed, Entries
<1>21. CASE UNCHANGED vars
  BY <1>2, <1>21 DEF Typed, Entries, vars
<1> QED
  BY <1>8, <1>9, <1>10, <1>12, <1>13, <1>15, <1>16, <1>17, <1>18, <1>19, <1>20, <1>21 DEF Next

\* What the change sets are when they hold what they should.
LEMMA ChangesTyped ==
    ASSUME Typed, Reported, RowsTraced, ResultsReported
    PROVE  TypeOK
<1>1. kind \in {"list", "rows", "query", "sorted"}
  BY CollectionChangesAssumption DEF Typed
<1>2. ASSUME NEW b, Builder(b), b.moves \in Seq(MovePairs), b.mod \subseteq Nat
      PROVE  IsBuilder(b)
  BY <1>2 DEF Builder, Sets, PositionSet, IsBuilder, MovePairs
<1>3. ASSUME NEW b, NEW n, Holds(b, n), n \in Seq(Nat)
      PROVE  b.mod \subseteq Nat
  <2>1. Len(n) \in Nat
    BY <1>3
  <2> QED
    BY <1>3, <2>1 DEF Holds
<1>4. kind \in {"list", "rows"} => IsBuilder(acc) /\ acc.map = << >>
  <2> SUFFICES ASSUME kind \in {"list", "rows"}
               PROVE  IsBuilder(acc) /\ acc.map = << >>
    OBVIOUS
  <2>1. Told(base, last, rows, acc, tx, touched, Given)
    BY ReportedTold
  <2>2. /\ Leads(acc, base, last) /\ acc.map = << >> /\ Holds(acc, last) /\ last \in Seq(Nat)
    BY <2>1 DEF Told, KnownTo
  <2>3. Builder(acc) /\ acc.moves \in Seq(MovePairs)
    BY <2>2 DEF Leads, TrueMoves
  <2>4. acc.mod \subseteq Nat
    BY <1>3, <2>2
  <2> QED
    BY <1>2, <2>2, <2>3, <2>4
<1>5. kind = "list" => IsBuilder(tx)
  <2> SUFFICES ASSUME kind = "list"
               PROVE  IsBuilder(tx)
    OBVIOUS
  <2>1. ListTold(base, last, rows, acc, tx, touched, Given)
    BY DEF Reported
  <2>2. Leads(tx, last, rows) /\ Holds(tx, rows) /\ rows \in Seq(Nat)
    BY <2>1 DEF ListTold, Told, KnownTo
  <2>3. Builder(tx) /\ tx.moves \in Seq(MovePairs)
    BY <2>2 DEF Leads, TrueMoves
  <2>4. tx.mod \subseteq Nat
    BY <1>3, <2>2
  <2> QED
    BY <1>2, <2>3, <2>4
<1>6. << >> \in Seq(MovePairs)
  OBVIOUS
<1>7. kind = "rows" => IsBuilder(tx)
  <2> SUFFICES ASSUME kind = "rows"
               PROVE  IsBuilder(tx)
    OBVIOUS
  <2>1. TableTold(base, last, rows, acc, tx, touched, Given) /\ Traced(rows, last, tx, ops)
    BY DEF Reported, RowsTraced
  <2>2. Holds(tx, rows) /\ rows \in Seq(Nat) /\ tx.moves = << >>
    BY <2>1, TableToldFacts
  <2>3. Builder(tx)
    BY <2>1 DEF Traced, TableLog
  <2>4. tx.mod \subseteq Nat
    BY <1>3, <2>2
  <2> QED
    BY <1>2, <1>6, <2>2, <2>3, <2>4
<1>8. kind \in {"query", "sorted"} =>
        IsBuilder(tx) /\ IsBuilder(acc) /\ acc.map = << >> /\ prev \in Seq(Nat)
  <2> SUFFICES ASSUME kind \in {"query", "sorted"}
               PROVE  IsBuilder(tx) /\ IsBuilder(acc) /\ acc.map = << >> /\ prev \in Seq(Nat)
    OBVIOUS
  <2>1. PICK l, z : ResultsHold(l, z)
    BY DEF ResultsReported
  <2>2. TableHeld(l, z) /\ RowsAre(prev, last, l) /\ TypedChanges(acc)
    BY <2>1 DEF ResultsHold
  <2>3. Builder(tx) /\ tx.moves = << >> /\ Holds(tx, rows) /\ rows \in Seq(Nat)
    BY <2>2, TableHeldFacts
  <2>4. tx.mod \subseteq Nat
    BY <1>3, <2>3
  <2>5. IsBuilder(tx)
    BY <1>2, <1>6, <2>3, <2>4
  <2>6. IsBuilder(acc) /\ acc.map = << >>
    BY <1>2, <2>2 DEF TypedChanges
  <2> QED
    BY <2>2, <2>5, <2>6 DEF RowsAre
<1>9. /\ kind \in Kinds /\ {rows, order, last, base} \subseteq Seq(1 .. Size + MaxOps)
      /\ fits \cup touched \subseteq 1 .. Size + MaxOps
      /\ ops \in 0 .. MaxOps /\ runs \in 0 .. MaxRuns
      /\ kind \in {"list", "rows"} => prev \in Seq(Nat)
  BY DEF Typed, Entries
<1> QED
  BY <1>1, <1>4, <1>5, <1>7, <1>8, <1>9 DEF TypeOK

LEMMA AlwaysTyped == Spec => []Typed
<1>1. Init => Typed
  BY FirstTyped
<1>2. Typed /\ [Next]_vars => Typed'
  BY TypedStep
<1> QED
  BY <1>1, <1>2, PTL DEF Spec

(* Whatever is done and however the runs fall, every variable has its type: a change
   set is made of positions, and what is kept of a table's log between its changes
   (m_move_mapping) does not outlive parse_complete
   (collection_change_builder.cpp:156-172, results_notifier.cpp: run). *)
THEOREM ChangesTypeCorrect == Spec => []TypeOK
<1>1. Typed /\ Reported /\ RowsTraced /\ ResultsReported => TypeOK
  BY ChangesTyped
<1> QED
  BY <1>1, AlwaysTyped, AlwaysReported, TableRowsTraced, AlwaysResultsReported, PTL

-----------------------------------------------------------------------------
(* What it means that the changes of results are told. *)

\* r is s without the positions in S.
StayIn(T, r, s, S) ==
    /\ r \in Seq(T) /\ Len(r) = Unshift(S, Len(s))
    /\ \A n \in 1 .. Len(r) : /\ Shift(S, n - 1) \in 0 .. Len(s) - 1
                              /\ r[n] = s[Shift(S, n - 1) + 1]

LEMMA StayInIs ==
    ASSUME NEW T, NEW s \in Seq(T), NEW S, PositionSet(S), NEW r, r = Without(s, S)
    PROVE  StayIn(T, r, s, S)
<1>1. /\ r \in Seq(T) /\ Len(r) = Unshift(S, Len(s))
      /\ \A n \in 1 .. Len(r) : Shift(S, n - 1) \in 0 .. Len(s) - 1 /\ r[n] = s[Shift(S, n - 1) + 1]
  BY WithoutIs
<1> QED
  BY <1>1 DEF StayIn

\* o is r with every number taken for the entry it names.
Named(f, r, o) == o \in Seq(Nat) /\ Len(o) = Len(r) /\ \A n \in 1 .. Len(r) : o[n] = f[r[n]]

LEMMA WithoutNamed ==
    ASSUME NEW f, NEW s \in Seq(Nat), NEW p \in Seq(Nat), NamedBy(f, s, p), NEW S, PositionSet(S),
           NEW r, r = Without(s, S), NEW o, o = Without(p, S)
    PROVE  Named(f, r, o)
<1>0. StayIn(Nat, r, s, S) /\ StayIn(Nat, o, p, S)
  BY StayInIs
<1>1. /\ r \in Seq(Nat) /\ Len(r) = Unshift(S, Len(s))
      /\ \A n \in 1 .. Len(r) : Shift(S, n - 1) \in 0 .. Len(s) - 1 /\ r[n] = s[Shift(S, n - 1) + 1]
  BY <1>0 DEF StayIn
<1>2. /\ o \in Seq(Nat) /\ Len(o) = Unshift(S, Len(p))
      /\ \A n \in 1 .. Len(o) : Shift(S, n - 1) \in 0 .. Len(p) - 1 /\ o[n] = p[Shift(S, n - 1) + 1]
  BY <1>0 DEF StayIn
<1>3. Len(p) = Len(s) /\ \A i \in 1 .. Len(s) : p[i] = f[s[i]]
  BY DEF NamedBy
<1>4. Len(o) = Len(r)
  BY <1>1, <1>2, <1>3
<1>5. ASSUME NEW n \in 1 .. Len(r)
      PROVE  o[n] = f[r[n]]
  <2>1. PICK x : x = Shift(S, n - 1)
    OBVIOUS
  <2>2. x \in 0 .. Len(s) - 1 /\ r[n] = s[x + 1]
    BY <1>1, <2>1
  <2>3. o[n] = p[x + 1]
    BY <1>2, <1>4, <2>1
  <2>4. x + 1 \in 1 .. Len(s)
    BY <2>2, LenProperties
  <2> QED
    BY <1>3, <2>2, <2>3, <2>4
<1> QED
  BY <1>2, <1>4, <1>5 DEF Named

LEMMA ResultsLineUp ==
    ASSUME NEW p \in Seq(Nat), NEW q \in Seq(Nat), NEW a, NEW y, NEW z, ResultsTold(p, q, a, y, z)
    PROVE  Without(p, a.del) = Without(q, a.ins)
<1>1. PICK s, t, f, m, n : Numbers(s, t, f, m, n, p, q, a, y, z)
  BY DEF ResultsTold
<1>2. Told(s, t, t, a, NoChange, m, n) /\ NamedBy(f, s, p) /\ NamedBy(f, t, q)
  BY <1>1 DEF Numbers
<1>3. s \in Seq(Nat) /\ t \in Seq(Nat) /\ PositionSet(a.del) /\ PositionSet(a.ins)
  BY <1>2 DEF Told, KnownTo, Leads, Builder, Sets
<1>4. PICK r : r = Without(s, a.del)
  OBVIOUS
<1>5. r = Without(t, a.ins)
  BY <1>2, <1>4, ToldLinesUp
<1>6. PICK o : o = Without(p, a.del)
  OBVIOUS
<1>7. PICK w : w = Without(q, a.ins)
  OBVIOUS
<1>8. Named(f, r, o)
  BY <1>2, <1>3, <1>4, <1>6, WithoutNamed
<1>9. Named(f, r, w)
  BY <1>2, <1>3, <1>5, <1>7, WithoutNamed
<1>10. o = w
  <2>1. o \in Seq(Nat) /\ Len(o) = Len(r) /\ \A k \in 1 .. Len(r) : o[k] = f[r[k]]
    BY <1>8 DEF Named
  <2>2. w \in Seq(Nat) /\ Len(w) = Len(r) /\ \A k \in 1 .. Len(r) : w[k] = f[r[k]]
    BY <1>9 DEF Named
  <2>3. Len(o) = Len(w) /\ \A k \in 1 .. Len(o) : o[k] = w[k]
    BY <2>1, <2>2
  <2> QED
    BY <2>1, <2>2, <2>3, SeqEqual
<1> QED
  BY <1>6, <1>7, <1>10

LEMMA ResultsMoves ==
    ASSUME NEW p \in Seq(Nat), NEW q \in Seq(Nat), NEW a, NEW y, NEW z, ResultsTold(p, q, a, y, z),
           NEW k \in DOMAIN a.moves, NEW d, d = a.moves[k]
    PROVE  /\ d.from \in a.del /\ d.to \in a.ins
           /\ d.from \in Positions(p) /\ d.to \in Positions(q) /\ At(p, d.from) = At(q, d.to)
<1>1. PICK s, t, f, m, n : Numbers(s, t, f, m, n, p, q, a, y, z)
  BY DEF ResultsTold
<1>2. Told(s, t, t, a, NoChange, m, n) /\ NamedBy(f, s, p) /\ NamedBy(f, t, q)
  BY <1>1 DEF Numbers
<1>3. TrueMoves(a, s, t) /\ s \in Seq(Nat) /\ t \in Seq(Nat)
  BY <1>2 DEF Told, Leads, KnownTo
<1>4. TrueMove(a, d, s, t)
  BY <1>3 DEF TrueMoves
<1>5. /\ d.from \in a.del /\ d.to \in a.ins
      /\ d.from \in 0 .. Len(s) - 1 /\ d.to \in 0 .. Len(t) - 1
      /\ s[d.from + 1] = t[d.to + 1]
  BY <1>4 DEF TrueMove
<1>6. d.from + 1 \in 1 .. Len(s) /\ d.to + 1 \in 1 .. Len(t)
  <2>1. Len(s) \in Nat /\ Len(t) \in Nat
    BY <1>3
  <2>2. PICK x : x = d.from
    OBVIOUS
  <2>3. PICK w : w = d.to
    OBVIOUS
  <2>4. x \in 0 .. Len(s) - 1 /\ w \in 0 .. Len(t) - 1
    BY <1>5, <2>2, <2>3
  <2>5. x + 1 \in 1 .. Len(s) /\ w + 1 \in 1 .. Len(t)
    BY <2>1, <2>4
  <2> QED
    BY <2>2, <2>3, <2>5
<1>7. Len(p) = Len(s) /\ Len(q) = Len(t) /\ p[d.from + 1] = f[s[d.from + 1]] /\ q[d.to + 1] = f[t[d.to + 1]]
  BY <1>2, <1>6 DEF NamedBy
<1> QED
  BY <1>5, <1>7 DEF Positions, At

\* The modified entries are the same at their old positions and at the new ones.
SameModified(a, p, q) ==
    /\ {i \in ModifiedInOld(a) : i \notin Positions(p)} = {}
    /\ {At(p, i) : i \in ModifiedInOld(a)} = {At(q, i) : i \in ModifiedInNew(a)}

LEMMA ToldSameModified ==
    ASSUME NEW s, NEW t, NEW r, NEW a, NEW b, NEW m, NEW n, Told(s, t, r, a, b, m, n)
    PROVE  SameModified(a, s, t)
BY ToldModifications DEF SameModified

LEMMA ResultsAgree ==
    ASSUME NEW p \in Seq(Nat), NEW q \in Seq(Nat), NEW a, NEW y, NEW z, ResultsTold(p, q, a, y, z)
    PROVE  SameModified(a, p, q)
<1>1. PICK s, t, f, m, n : Numbers(s, t, f, m, n, p, q, a, y, z)
  BY DEF ResultsTold
<1>2. Told(s, t, t, a, NoChange, m, n) /\ NamedBy(f, s, p) /\ NamedBy(f, t, q)
  BY <1>1 DEF Numbers
<1>3. /\ {i \in ModifiedInOld(a) : i \notin Positions(s)} = {}
      /\ {At(s, i) : i \in ModifiedInOld(a)} = {At(t, i) : i \in ModifiedInNew(a)}
  <2>1. SameModified(a, s, t)
    BY <1>2, ToldSameModified
  <2> QED
    BY <2>1 DEF SameModified
<1>4. s \in Seq(Nat) /\ t \in Seq(Nat) /\ Holds(a, t)
  BY <1>2 DEF Told, KnownTo
<1>5. Len(s) \in Nat /\ Len(t) \in Nat /\ Len(p) = Len(s) /\ Len(q) = Len(t)
  BY <1>2, <1>4, LenProperties DEF NamedBy
<1>6. Positions(p) = Positions(s) /\ Positions(s) = 0 .. Len(s) - 1
  BY <1>5 DEF Positions
<1>7. ASSUME NEW i \in ModifiedInOld(a)
      PROVE  At(p, i) = f[At(s, i)]
  <2>1. i \in 0 .. Len(s) - 1
    BY <1>3, <1>6
  <2>2. i + 1 \in 1 .. Len(s)
    BY <1>5, <2>1
  <2> QED
    BY <1>2, <2>2 DEF NamedBy, At
<1>8. ASSUME NEW i \in ModifiedInNew(a)
      PROVE  At(q, i) = f[At(t, i)]
  <2>1. i \in 0 .. Len(t) - 1
    BY <1>4 DEF Holds, ModifiedInNew
  <2>2. i + 1 \in 1 .. Len(t)
    BY <1>5, <2>1
  <2> QED
    BY <1>2, <2>2 DEF NamedBy, At
<1>9. ASSUME NEW i \in ModifiedInOld(a)
      PROVE  \E j \in ModifiedInNew(a) : At(p, i) = At(q, j)
  <2>1. PICK j \in ModifiedInNew(a) : At(s, i) = At(t, j)
    BY <1>3
  <2> QED
    BY <1>7, <1>8, <2>1
<1>10. ASSUME NEW j \in ModifiedInNew(a)
       PROVE  \E i \in ModifiedInOld(a) : At(q, j) = At(p, i)
  <2>1. PICK i \in ModifiedInOld(a) : At(t, j) = At(s, i)
    BY <1>3
  <2> QED
    BY <1>7, <1>8, <2>1
<1>11. {At(p, i) : i \in ModifiedInOld(a)} = {At(q, i) : i \in ModifiedInNew(a)}
  BY <1>9, <1>10
<1> QED
  BY <1>3, <1>6, <1>11 DEF SameModified

\* When the log is empty, the entries modified since the last run are not in the results.
LEMMA ResultsModified ==
    ASSUME kind \in {"query", "sorted"}, NEW l, NEW z, ResultsHold(l, z), Settles, Ran,
           NEW i \in Positions(last), At(last, i) \in touched
    PROVE  i \in acc.mod \cup acc.ins
<1>1. /\ TableHeld(l, z) /\ RowsAre(prev, last, l) /\ last \in Seq(Nat) /\ Some(order, rows)
      /\ ResultsTold(base, last, acc, touched, z)
  BY DEF ResultsHold
<1>2. PICK s, t, f, m, n : Numbers(s, t, f, m, n, base, last, acc, touched, z)
  BY <1>1 DEF ResultsTold
<1>3. /\ Told(s, t, t, acc, NoChange, m, n) /\ NamedBy(f, t, last)
      /\ \A k \in 1 .. Len(last) : last[k] \in touched => t[k] \in m \/ last[k] \in z
  BY <1>2 DEF Numbers
<1>4. i \in 0 .. Len(last) - 1 /\ i + 1 \in 1 .. Len(last) /\ last[i + 1] \in touched
  <2>1. Len(last) \in Nat
    BY <1>1
  <2> QED
    BY <2>1 DEF Positions, At
<1>5. t[i + 1] \in m \/ last[i + 1] \in z
  BY <1>3, <1>4
<1>6. ASSUME last[i + 1] \in z
      PROVE  FALSE
  <2>1. tx = NoChange /\ last = Collection
    BY DEF Ran
  <2>2. RowsMarked(z, l, rows, tx.mod)
    BY <1>1, MarkedRows
  <2>3. tx.mod = {}
    BY <2>1 DEF NoChange
  <2>4. Unknown(last[i + 1], rows) \/ Unknown(last[i + 1], l)
    BY <1>6, <2>2, <2>3 DEF RowsMarked
  <2>5. rows \in Seq(Nat) /\ Distinct(rows) /\ Len(l) \in Nat
    BY <1>1, TableHeldFacts
  <2>6. Some(last, rows)
    BY <1>1, <2>1, <2>5, CollectionIs
  <2>7. ~Unknown(last[i + 1], rows)
    BY <1>4, <2>6 DEF Some
  <2>8. PICK x : x = prev[i + 1]
    OBVIOUS
  <2>9. x \in 0 .. Len(l) - 1 /\ l[x + 1] = last[i + 1]
    BY <1>1, <1>4, <2>8 DEF RowsAre
  <2>10. x + 1 \in 1 .. Len(l)
    BY <2>5, <2>9
  <2> QED
    BY <2>4, <2>7, <2>9, <2>10 DEF Unknown
<1>7. i \in Positions(t) /\ At(t, i) \in m
  BY <1>3, <1>4, <1>5, <1>6 DEF NamedBy, Positions, At
<1>8. NoChange.mod = {}
  BY DEF NoChange
<1>9. \A k \in Positions(t) : At(t, k) \in m => k \in acc.mod \cup acc.ins
  BY <1>3, <1>8, ToldReported
<1> QED
  BY <1>7, <1>9

\* Where rows of a query's table are not swapped, all of it holds of results.
LEMMA ResultsProperties ==
    ASSUME "query" \notin Swapped, Typed, ResultsReported, kind \in {"query", "sorted"}
    PROVE  ChangesLineUp /\ MovesAreMoves /\ ModificationsReported /\ OldAndNewAgree
<1>1. PICK l, z : ResultsHold(l, z)
  BY DEF ResultsReported
<1>2. Settles
  BY DEF Settles
<1>3. ResultsTold(base, last, acc, touched, z) /\ last \in Seq(Nat)
  BY <1>1, <1>2 DEF ResultsHold
<1>4. base \in Seq(Nat)
  <2>1. Entries \subseteq Nat
    BY CollectionChangesAssumption DEF Entries
  <2>2. base \in Seq(Entries)
    BY DEF Typed
  <2> QED
    BY <2>1, <2>2, SeqMonotonic
<1>5. ChangesLineUp
  BY <1>3, <1>4, ResultsLineUp DEF ChangesLineUp
<1>6. MovesAreMoves
  BY <1>3, <1>4, ResultsMoves DEF MovesAreMoves
<1>7. ModificationsReported
  BY <1>1, <1>2, ResultsModified DEF ModificationsReported
<1>8. OldAndNewAgree
  BY <1>3, <1>4, ResultsAgree DEF OldAndNewAgree, SameModified
<1> QED
  BY <1>5, <1>6, <1>7, <1>8

LEMMA KindsAre ==
    ASSUME Typed
    PROVE  kind \in {"list", "rows"} \/ kind \in {"query", "sorted"}
BY CollectionChangesAssumption DEF Typed

(* For a list, a table, a query in table order and sorted results, of any size, after
   any changes and runs: what the callback knew without the deletions is what there
   is without the insertions.  Of a query this needs that the rows of its table are
   not swapped, as the code takes for granted (collection_change_builder.cpp:460-544,
   546-766, 768-830, results_notifier.cpp: calculate_changes). *)
THEOREM ChangesAlwaysLineUp ==
    ASSUME "query" \notin Swapped
    PROVE  Spec => []ChangesLineUp
<1>1. Typed /\ ResultsReported /\ (kind \in {"list", "rows"} => ChangesLineUp) => ChangesLineUp
  BY ResultsProperties, KindsAre
<1> QED
  BY <1>1, AlwaysTyped, AlwaysResultsReported, ListAndTableLineUp, PTL

(* For all of them: a reported move is one entry, from where the callback knew it to
   where it is, deleted there and inserted here (collection_change_builder.cpp:41-140,
   460-544, 768-830). *)
THEOREM MovesAreAlwaysMoves ==
    ASSUME "query" \notin Swapped
    PROVE  Spec => []MovesAreMoves
<1>1. Typed /\ ResultsReported /\ (kind \in {"list", "rows"} => MovesAreMoves) => MovesAreMoves
  BY ResultsProperties, KindsAre
<1> QED
  BY <1>1, AlwaysTyped, AlwaysResultsReported, ListAndTableMoves, PTL

(* For all of them: once a run has seen it, an entry that was modified since the
   callback knew it is marked, or it is reported as new: also one that left the
   results and came back, of which the callback is told as of another
   (collection_change_builder.cpp:41-140, 768-830). *)
THEOREM ModificationsAlwaysReported ==
    ASSUME "query" \notin Swapped
    PROVE  Spec => []ModificationsReported
<1>1. Typed /\ ResultsReported /\ (kind \in {"list", "rows"} => ModificationsReported)
        => ModificationsReported
  BY ResultsProperties, KindsAre
<1> QED
  BY <1>1, AlwaysTyped, AlwaysResultsReported, ListAndTableModifications, PTL

(* For all of them: the modified entries at their old positions are those at their
   new ones (collection_change_builder.cpp:862-887: finalize). *)
THEOREM OldAndNewAlwaysAgree ==
    ASSUME "query" \notin Swapped
    PROVE  Spec => []OldAndNewAgree
<1>1. Typed /\ ResultsReported /\ (kind \in {"list", "rows"} => OldAndNewAgree) => OldAndNewAgree
  BY ResultsProperties, KindsAre
<1> QED
  BY <1>1, AlwaysTyped, AlwaysResultsReported, ListAndTableAgree, PTL
==============================================================================
