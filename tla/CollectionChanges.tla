-------------------------- MODULE CollectionChanges --------------------------
(***************************************************************************)
(* What a notification callback is told about a collection.  Write         *)
(* transactions change a list, a table, or a table some query looks at;    *)
(* the transaction log observer records the changes of a table or list in  *)
(* a change builder; each run of the notifier (ListNotifier,               *)
(* ResultsNotifier) turns them into the changes of ITS collection and      *)
(* merges these into what has accumulated for a callback that has not been *)
(* called yet.                                                             *)
(*                                                                         *)
(* The entries of lists and tables are numbers, for their whole life: a    *)
(* collection is a sequence of them, its positions counted from 0.         *)
(***************************************************************************)
EXTENDS ChangeBuilder

CONSTANTS Kinds,      \* of "list", "rows", "query" (table order), "sorted"
          Swapped,    \* the kinds whose table rows may be swapped
          Size,       \* entries in the beginning
          MaxOps,     \* bound: changes in all
          MaxRuns     \* bound: runs of the notifier

ASSUME CollectionChangesAssumption ==
    /\ Kinds \subseteq {"list", "rows", "query", "sorted"}
    /\ Swapped \subseteq Kinds
    /\ Size \in Nat /\ MaxOps \in Nat /\ MaxRuns \in Nat

VARIABLES
    kind,     \* which collection is observed
    rows,     \* the entries of the list, or of the table
    order,    \* a table's entries as the sort descriptor orders them
    fits,     \* the entries the query matches
    tx,       \* changes of the list or table since the last run
    last,     \* the collection as of the last run
    prev,     \* m_previous_rows: the rows of its entries, then
    acc,      \* accumulated_changes of the callback
    base,     \* the collection the callback knows
    touched,  \* entries modified since then
    ops, runs \* changes and runs left

vars == <<kind, rows, order, fits, tx, last, prev, acc, base, touched, ops, runs>>
observed == <<kind, last, prev, acc, base, runs>>

Positions(s) == 0 .. Len(s) - 1
At(s, i) == s[i + 1]
PositionOf(s, e) == CHOOSE i \in Positions(s) : At(s, i) = e

(* The entries of s at the positions that are not in S. *)
Without(s, S) == Subsequence(s, {n \in DOMAIN s : n - 1 \notin S})
Excluding(s, e) == Subsequence(s, {n \in DOMAIN s : s[n] # e})

(* A query's results. *)
Matching(s) == Subsequence(s, {n \in DOMAIN s : s[n] \in fits})
Collection == CASE kind \in {"list", "rows"} -> rows
                [] kind = "query" -> Matching(rows)
                [] kind = "sorted" -> Matching(order)
RowsOf(c) == [i \in DOMAIN c |-> PositionOf(rows, c[i])]

Init ==
    /\ kind \in Kinds
    /\ rows = [i \in 1 .. Size |-> i] /\ order = rows
    /\ fits \in (IF kind = "query" THEN SUBSET Range(rows) ELSE {Range(rows)})
    /\ tx = NoChange /\ acc = NoChange
    /\ last = Collection /\ base = Collection /\ prev = RowsOf(last)
    /\ touched = {} /\ ops = MaxOps /\ runs = MaxRuns

-----------------------------------------------------------------------------
(* Changes of a list. *)

Fresh == 1 + Size + MaxOps - ops

InsertEntry(i) ==
    /\ kind = "list" /\ ops > 0
    /\ rows' = InsertAt(rows, i + 1, Fresh) /\ tx' = ChangeInsert(tx, i)
    /\ ops' = ops - 1 /\ order' = rows' /\ fits' = fits \cup {Fresh}
    /\ UNCHANGED <<observed, touched>>

EraseEntry(i) ==
    /\ kind = "list" /\ ops > 0
    /\ rows' = RemoveAt(rows, i + 1) /\ tx' = ChangeErase(tx, i)
    /\ ops' = ops - 1 /\ order' = rows'
    /\ UNCHANGED <<observed, fits, touched>>

MoveEntry(from, to) ==
    /\ kind = "list" /\ ops > 0 /\ from # to
    /\ rows' = InsertAt(RemoveAt(rows, from + 1), to + 1, At(rows, from))
    /\ tx' = ChangeMove(tx, from, to)
    /\ ops' = ops - 1 /\ order' = rows'
    /\ UNCHANGED <<observed, fits, touched>>

(* A list of primitives: the log's swap of two rows is two moves. *)
SwapEntries(i, j) ==
    /\ kind = "list" /\ ops > 0 /\ i < j
    /\ rows' = [rows EXCEPT ![i + 1] = At(rows, j), ![j + 1] = At(rows, i)]
    /\ LET there == ChangeMove(tx, i, j)
       IN tx' = IF i + 1 = j THEN there ELSE ChangeMove(there, j - 1, i)
    /\ ops' = ops - 1 /\ order' = rows'
    /\ UNCHANGED <<observed, fits, touched>>

SetEntry(i) ==
    /\ kind = "list" /\ ops > 0
    /\ tx' = ChangeModify(tx, i) /\ touched' = touched \cup {At(rows, i)}
    /\ ops' = ops - 1
    /\ UNCHANGED <<observed, rows, order, fits>>

-----------------------------------------------------------------------------
(* Changes of a table.  Rows are added at the end, erased by moving the last
   row over them, and swapped; a modified row may match the query or not, and
   sort anywhere. *)

IsTable == kind \in {"rows", "query", "sorted"} /\ ops > 0
Fitting(e) == IF kind = "query" THEN {fits \cup {e}, fits \ {e}} ELSE {fits \cup {e}}
Sorting(s, e) == IF kind = "sorted" THEN {InsertAt(s, i, e) : i \in 1 .. Len(s) + 1}
                                    ELSE {Append(s, e)}

AddRow ==
    /\ IsTable
    /\ rows' = Append(rows, Fresh) /\ tx' = ChangeInsert(tx, Len(rows))
    /\ order' \in Sorting(order, Fresh) /\ fits' \in Fitting(Fresh)
    /\ ops' = ops - 1
    /\ UNCHANGED <<observed, touched>>

DeleteRow(i) ==
    /\ IsTable
    /\ rows' = Front([rows EXCEPT ![i + 1] = Last(rows)])
    /\ tx' = ChangeMoveOver(tx, i, Len(rows) - 1)
    /\ order' = Excluding(order, At(rows, i))
    /\ ops' = ops - 1
    /\ UNCHANGED <<observed, fits, touched>>

SwapRows(i, j) ==
    /\ IsTable /\ kind \in Swapped /\ i < j
    /\ rows' = [rows EXCEPT ![i + 1] = At(rows, j), ![j + 1] = At(rows, i)]
    /\ tx' = ChangeSwap(tx, i, j)
    /\ ops' = ops - 1
    /\ UNCHANGED <<observed, order, fits, touched>>

ModifyRow(i) ==
    /\ IsTable
    /\ LET e == At(rows, i)
       IN /\ touched' = touched \cup {e} /\ fits' \in Fitting(e)
          /\ order' \in (IF kind = "sorted" THEN Sorting(Excluding(order, e), e)
                                            ELSE {order})
    /\ tx' = ChangeModify(tx, i)
    /\ ops' = ops - 1
    /\ UNCHANGED <<observed, rows>>

(* Clearing a table, or a list: the log of a table does not know how many rows
   there were, the largest number stands for it. *)
Far == 2 * (Size + MaxOps)
Clear ==
    /\ ops > 0
    /\ rows' = << >> /\ order' = << >> /\ ops' = ops - 1
    /\ tx' = IF kind = "list" THEN ChangeClear(tx, Len(rows))
                              ELSE [NoChange EXCEPT !.del = 0 .. Far]
    /\ UNCHANGED <<observed, fits, touched>>

-----------------------------------------------------------------------------
(* calculate(prev, next): from the rows that made the results to those that
   make them now. *)

Gone == -1

(* Where the row of each old result is now. *)
FollowRow(info, i) ==
    IF i \notin info.del THEN Shift(info.ins, Unshift(info.del, i))
    ELSE LET n == SelectInSeq(info.moves, LAMBDA m : m.from = i)
         IN IF n = 0 THEN Gone ELSE info.moves[n].to

(* Table order: a result that is not where the one before it leaves it, and
   that can have moved, is a move unless what was inserted and removed before
   it accounts for its place. *)
PlaceRow(sofar, row, candidates) ==
    LET place == row.at - CountIn(sofar.ins, 0, row.at) + CountIn(sofar.del, 0, row.was)
    IN CASE row.shifted = sofar.expected -> [sofar EXCEPT !.expected = @ + 1]
         [] row.shifted # sofar.expected /\ (row.index \notin candidates \/ row.shifted = place) ->
                [sofar EXCEPT !.expected = row.shifted + 1]
         [] OTHER -> [sofar EXCEPT !.ins = @ \cup {row.at}, !.del = @ \cup {row.was},
                                   !.moves = Append(@, [from |-> row.was, to |-> row.at])]
MovesUnsorted(kept, removed, candidates, ins) ==
    LET after[n \in 0 .. Len(kept)] ==
            IF n = 0 THEN [expected |-> 0, ins |-> ins, del |-> removed, moves |-> << >>]
                     ELSE PlaceRow(after[n - 1], kept[n], candidates)
    IN after[Len(kept)]

(* Blocks of a that are in b as they are: the longest, then to the left and to
   the right of it.  (Of blocks of one length the code takes one with the fewest
   modified rows, here it is the first.) *)
LongestMatches(a, b, from) ==
    LET block(i, j, n) == \A k \in 0 .. n - 1 : At(a, i + k) = At(b, j + k)
        within[w \in [begin1 : Nat, end1 : Nat, begin2 : Nat, end2 : Nat]] ==
            LET blocks == {x \in (w.begin1 .. w.end1 - 1) \X (w.begin2 .. w.end2 - 1) \X (1 .. Len(a)) :
                              /\ x[1] + x[3] <= w.end1 /\ x[2] + x[3] <= w.end2
                              /\ block(x[1], x[2], x[3])}
                longest == {x \in blocks : \A y \in blocks :
                                y[3] < x[3] \/ (y[3] = x[3] /\ x[1] <= y[1])}
            IN IF blocks = {} THEN {}
               ELSE LET m == CHOOSE x \in longest : TRUE
                        i == m[1] j == m[2] n == m[3]
                    IN {m} \cup (IF i > w.begin1 /\ j > w.begin2
                                 THEN within[[w EXCEPT !.end1 = i, !.end2 = j]] ELSE {})
                           \cup (IF i + n < w.end2 /\ j + n < w.end2
                                 THEN within[[w EXCEPT !.begin1 = i + n, !.begin2 = j + n]] ELSE {})
    IN within[[begin1 |-> from, end1 |-> Len(a), begin2 |-> from, end2 |-> Len(b)]]

(* Any order: what no block accounts for is deleted and inserted. *)
MovesSorted(old, kept, removed, ins) ==
    LET b == [n \in DOMAIN kept |-> kept[n].index]
        was == InOrder({kept[n].was : n \in DOMAIN kept})
        a == [n \in DOMAIN was |-> At(old, was[n])]
        first == CHOOSE n \in 0 .. Len(a) : /\ n < Len(a) => At(a, n) # At(b, n)
                                            /\ \A m \in 0 .. n - 1 : At(a, m) = At(b, m)
        matches == LongestMatches(a, b, first)
        inA == UNION {m[1] .. m[1] + m[3] - 1 : m \in matches}
        inB == UNION {m[2] .. m[2] + m[3] - 1 : m \in matches}
    IN [ins |-> ins \cup {At(kept, n).at : n \in (first .. Len(b) - 1) \ inB},
        del |-> removed \cup {At(was, n) : n \in (first .. Len(a) - 1) \ inA},
        moves |-> << >>]

Calculate(old, next, changed, inTableOrder, candidates) ==
    LET deleted == {i \in Positions(old) : At(old, i) = Gone}
        removed == {i \in Positions(old) \ deleted : At(old, i) \notin Range(next)}
        ins == {i \in Positions(next) : At(next, i) \notin Range(old)}
        row(i) == LET was == PositionOf(old, At(next, i))
                  IN [index |-> At(next, i), at |-> i, was |-> was, shifted |-> Unshift(deleted, was)]
        stays == InOrder(Positions(next) \ ins)
        kept == [n \in DOMAIN stays |-> row(stays[n])]
        moved == IF inTableOrder THEN MovesUnsorted(kept, removed, candidates, ins)
                                 ELSE MovesSorted(old, kept, removed, ins)
    IN [NoChange EXCEPT !.del = deleted \cup moved.del, !.ins = moved.ins, !.moves = moved.moves,
                        !.mod = {i \in Positions(next) \ ins : At(next, i) \in changed}]

-----------------------------------------------------------------------------
(* ResultsNotifier::calculate_changes *)
ResultsChanges(next) ==
    LET info == ParseComplete(tx)
        followed == [i \in DOMAIN prev |-> FollowRow(info, prev[i])]
    IN Calculate(followed, next, info.mod, kind = "query", info.ins)

(* The changes of the observed collection since the last run. *)
RunChanges == CASE kind = "list" -> CleanUpStaleMoves(tx)
                [] kind = "rows" -> ParseComplete(tx)
                [] OTHER -> ResultsChanges(RowsOf(Collection))

(* A run of the notifier and its prepare_handover. *)
Run ==
    /\ runs > 0
    /\ acc' = Merge(acc, RunChanges)
    /\ tx' = NoChange /\ last' = Collection /\ prev' = RowsOf(last')
    /\ runs' = runs - 1
    /\ UNCHANGED <<kind, rows, order, fits, base, touched, ops>>

Next == \/ \E i \in 0 .. Len(rows) : InsertEntry(i)
        \/ \E i \in Positions(rows) : EraseEntry(i) \/ SetEntry(i) \/ DeleteRow(i) \/ ModifyRow(i)
        \/ \E i, j \in Positions(rows) : MoveEntry(i, j) \/ SwapEntries(i, j) \/ SwapRows(i, j)
        \/ AddRow \/ Clear \/ Run

Spec == Init /\ [][Next]_vars
-----------------------------------------------------------------------------
(* Properties.  After a run, acc leads from base to last; tx leads from the
   list or table of the last run to that of now. *)

Ran == tx = NoChange /\ last = Collection

IsBuilder(b) == /\ b.del \cup b.ins \cup b.mod \subseteq Nat
                /\ b.moves \in Seq([from : Nat, to : Nat])

(* Every variable has its type. *)
TypeOK ==
    /\ kind \in Kinds
    /\ {rows, order, last, base} \subseteq Seq(1 .. Size + MaxOps)
    /\ fits \cup touched \subseteq 1 .. Size + MaxOps
    /\ IsBuilder(tx) /\ IsBuilder(acc) /\ acc.map = << >>
    /\ prev \in Seq(Nat) /\ ops \in 0 .. MaxOps /\ runs \in 0 .. MaxRuns

(* Deleting the reported deletions from the collection the callback knows and
   inserting the reported insertions gives the collection of the last run:
   what UITableView demands of batch updates. *)
ChangesLineUp == Without(base, acc.del) = Without(last, acc.ins)

(* "A reported move will always actually be a move", and its ends are reported
   as a deletion and an insertion. *)
MovesAreMoves ==
    \A n \in DOMAIN acc.moves :
        LET m == acc.moves[n]
        IN /\ m.from \in acc.del /\ m.to \in acc.ins
           /\ m.from \in Positions(base) /\ m.to \in Positions(last)
           /\ At(base, m.from) = At(last, m.to)

(* No modification is lost: an entry that was modified since the callback last
   knew it is reported modified, or new. *)
ModificationsReported ==
    Ran => \A i \in Positions(last) : At(last, i) \in touched => i \in acc.mod \cup acc.ins

(* "modifications_new ... conceptually represents the same entries": the old and
   the new positions of the modified entries name the same entries. *)
OldAndNewAgree ==
    {i \in ModifiedInOld(acc) : i \notin Positions(base)} = {}
    /\ {At(base, i) : i \in ModifiedInOld(acc)} = {At(last, i) : i \in ModifiedInNew(acc)}
=============================================================================
