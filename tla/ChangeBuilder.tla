---------------------------- MODULE ChangeBuilder ----------------------------
(***************************************************************************)
(* CollectionChangeBuilder of Realm's ObjectStore: what happened to a      *)
(* collection, as positions.  A builder is a record                        *)
(*   del    positions of the old collection that are gone                  *)
(*   ins    positions of the new one that are new                          *)
(*   mod    positions of the new one that were modified                    *)
(*   moves  the pairs [from, to] of del and ins that are one entry         *)
(*   map    m_move_mapping: moves of table rows while a log is parsed, new *)
(*          position to old                                                *)
(* The modifications per column run along with mod and are left out.       *)
(***************************************************************************)
EXTENDS IndexSets, Sequences, SequencesExt, Functions

NoChange == [del |-> {}, ins |-> {}, mod |-> {}, moves |-> << >>, map |-> << >>]

IsEmpty(b) == b.del = {} /\ b.ins = {} /\ b.mod = {} /\ b.moves = << >>

(* a function without k, and with k mapped to v *)
Drop(f, k) == Restrict(f, DOMAIN f \ {k})
Put(f, k, v) == [x \in DOMAIN f \cup {k} |-> IF x = k THEN v ELSE f[x]]

(* The elements of s at the indices in K. *)
Subsequence(s, K) == LET k == InOrder(K) IN [n \in DOMAIN k |-> s[k[n]]]

-----------------------------------------------------------------------------
(* Every collection. *)

ChangeModify(b, i) == [b EXCEPT !.mod = @ \cup {i}]

ChangeInsert(b, i) ==
    LET up(k) == IF k >= i THEN k + 1 ELSE k
        down(k) == IF k > i THEN k - 1 ELSE k
    IN [b EXCEPT !.mod = ShiftForInsertAt(@, i),
                 !.ins = InsertPosition(@, i),
                 !.moves = [n \in DOMAIN @ |-> [b.moves[n] EXCEPT !.to = up(@)]],
                 !.map = [k \in {up(x) : x \in DOMAIN @} |-> @[down(k)]]]

(* An erased insertion leaves no trace, another entry is a deletion. *)
Deleting(b, i) == IF i \in b.ins THEN b.del ELSE AddShifted(b.del, Unshift(b.ins, i))

ChangeErase(b, i) ==
    [b EXCEPT !.mod = ErasePosition(@, i),
              !.del = Deleting(b, i),
              !.ins = ErasePosition(@, i),
              !.moves = LET kept == Subsequence(@, {n \in DOMAIN @ : @[n].to # i})
                        IN [n \in DOMAIN kept |-> [kept[n] EXCEPT !.to = IF @ > i THEN @ - 1 ELSE @]]]

(* size: of the collection before; the log of a table does not know it. *)
ChangeClear(b, size) ==
    [NoChange EXCEPT !.del = 0 .. size + Cardinality(b.del) - Cardinality(b.ins) - 1]

-----------------------------------------------------------------------------
(* Lists. *)

ChangeMove(b, from, to) ==
    LET again == \E n \in DOMAIN b.moves : b.moves[n].to = from
        aside(end) == CASE end = from -> to
                        [] end >= to /\ end < from -> end + 1
                        [] end <= to /\ end > from -> end - 1
                        [] OTHER -> end
        moved == [n \in DOMAIN b.moves |-> [b.moves[n] EXCEPT !.to = aside(@)]]
        fresh == from \in b.ins
    IN [b EXCEPT !.ins = InsertPosition(ErasePosition(@, from), to),
                 !.del = IF again THEN @ ELSE Deleting(b, from),
                 !.moves = IF again \/ fresh THEN moved
                           ELSE Append(moved, [from |-> Shift(b.del, Unshift(b.ins, from)), to |-> to]),
                 !.mod = IF from \in @ THEN InsertPosition(ErasePosition(@, from), to)
                                       ELSE ShiftForInsertAt(ErasePosition(@, from), to)]

(* A move that moves nothing, counting what was inserted and deleted before
   it, is dropped with its insertion and its deletion. *)
CleanUpMove(b, m) ==
    IF Unshift(b.del, m.from) = Unshift(b.ins, m.to)
    THEN [b EXCEPT !.del = @ \ {m.from}, !.ins = @ \ {m.to}]
    ELSE [b EXCEPT !.moves = Append(@, m)]

CleanUpStaleMoves(b) ==
    LET after[n \in 0 .. Len(b.moves)] ==
            IF n = 0 THEN [b EXCEPT !.moves = << >>] ELSE CleanUpMove(after[n - 1], b.moves[n])
    IN after[Len(b.moves)]

-----------------------------------------------------------------------------
(* Rows of a table: its last row takes the place of one that goes. *)

MoveOverForgetsLast(b, row, last) ==
    [b EXCEPT !.mod = @ \ {row, last}, !.del = Deleting(b, row), !.ins = ErasePosition(@, row)]
ChangeMoveOver(b, row, last) ==
    IF row = last
    THEN [b EXCEPT !.del = Deleting(b, row), !.ins = ErasePosition(@, row),
                   !.map = Drop(@, row), !.mod = @ \ {row}]
    ELSE LET lastNew == last \in b.ins
             rowNew == row \in b.ins
             again == lastNew /\ last \in DOMAIN b.map
             source == Shift(b.del, Unshift(b.ins, last))
             del == IF lastNew THEN b.del ELSE b.del \cup {source}
             ins == b.ins \ {last}
         IN [b EXCEPT
               !.mod = (@ \ {row, last}) \cup (IF last \in @ THEN {row} ELSE {}),
               !.map = CASE again -> Put(Drop(@, last), row, b.map[last])
                         [] ~lastNew -> Put(@, row, source)
                         [] OTHER -> Drop(@, row),
               !.del = IF rowNew THEN del ELSE AddShifted(del, Unshift(ins, row)),
               !.ins = ins \cup {row}]

(* An existing move to "b2" now ends at "b1", where the row of b1 came from. *)
Redirect(b, b1, b2) ==
    LET source == Shift(b.del, Unshift(b.ins, b1))
        map == Put(Drop(b.map, b2), b1, b.map[b2])
    IN IF b1 \in b.ins THEN [b EXCEPT !.map = map]
       ELSE [b EXCEPT !.map = Put(map, b2, source), !.del = @ \cup {source}, !.ins = @ \cup {b1}]

(* A row that was not moved yet goes from "here" to "there". *)
SwapOut(b, here, there) ==
    IF here \in b.ins THEN b
    ELSE LET source == Shift(b.del, Unshift(b.ins, here))
         IN [b EXCEPT !.map = Put(@, there, source), !.del = @ \cup {source}, !.ins = @ \cup {here}]

ChangeSwap(b, one, two) ==
    LET marked == [b EXCEPT !.mod = (@ \ {one, two}) \cup (IF one \in @ THEN {two} ELSE {})
                                                     \cup (IF two \in @ THEN {one} ELSE {})]
    IN CASE {one, two} \subseteq DOMAIN b.map ->
                [marked EXCEPT !.map = [@ EXCEPT ![one] = b.map[two], ![two] = b.map[one]]]
         [] one \in DOMAIN b.map /\ two \notin DOMAIN b.map -> Redirect(marked, two, one)
         [] two \in DOMAIN b.map /\ one \notin DOMAIN b.map -> Redirect(marked, one, two)
         [] OTHER -> SwapOut(SwapOut(marked, two, one), one, two)

SortedBySource(M) ==
    LET froms == InOrder({m.from : m \in M})
    IN [n \in DOMAIN froms |-> CHOOSE m \in M : m.from = froms[n]]

(* The mapping becomes moves, sorted by their source; a row back where it was
   has not changed. *)
ParseKeepsMapping(b) ==
    [b EXCEPT !.moves = SortedBySource({[from |-> b.map[k], to |-> k] : k \in DOMAIN b.map})]
ParseComplete(b) ==
    LET back == {k \in DOMAIN b.map : b.map[k] = k}
        moved == {[from |-> b.map[k], to |-> k] : k \in DOMAIN b.map \ back}
    IN [b EXCEPT !.del = @ \ back, !.ins = @ \ back, !.map = << >>,
                 !.moves = SortedBySource(Range(@) \cup moved)]

-----------------------------------------------------------------------------
(* merge(c): b, then c. *)

(* The old moves, taken through c: one moved again ends where c ends it, and is
   no move of c any more; one deleted is dropped; another is shifted. *)
FollowDeletedMove(acc, old, b, c) ==
    [acc EXCEPT !.kept = Append(@, [old EXCEPT !.to = Shift(c.ins, @)])]
FollowMove(acc, old, b, c) ==
    LET again == SelectInSeq(acc.next, LAMBDA m : m.from = old.to)
    IN CASE again # 0 ->
                LET m == acc.next[again]
                IN [kept |-> Append(acc.kept, [old EXCEPT !.to = m.to]),
                    next |-> Front([acc.next EXCEPT ![again] = Last(acc.next)]),
                    mod  |-> acc.mod \cup (IF m.from \in b.mod THEN {m.to} ELSE {})]
         [] again = 0 /\ old.to \in c.del -> acc
         [] OTHER -> [acc EXCEPT !.kept = Append(@, [old EXCEPT !.to = Shift(c.ins, Unshift(c.del, @))])]

FollowMoves(b, c) ==
    LET after[n \in 0 .. Len(b.moves)] ==
            IF n = 0 THEN [kept |-> << >>, next |-> c.moves, mod |-> c.mod]
                     ELSE FollowMove(after[n - 1], b.moves[n], b, c)
    IN after[Len(b.moves)]

(* deletions.add_shifted_by(insertions, c.deletions);
   insertions.erase_at(c.deletions), insert_at(c.insertions) *)
MergedDeletions(b, c) == AddShiftedBy(b.del, b.ins, c.del)
MergedInsertions(b, c) == InsertPositions(ErasePositions(b.ins, c.del), c.ins)

Merge(b, c) ==
    IF IsEmpty(c) THEN b
    ELSE IF IsEmpty(b) THEN c
    ELSE LET followed == FollowMoves(b, c)
             news == Subsequence(followed.next,
                                 {n \in DOMAIN followed.next : followed.next[n].from \notin b.ins})
             before(i) == Shift(b.del, Unshift(b.ins, i))
             carried == [n \in DOMAIN news |-> [news[n] EXCEPT !.from = before(@)]]
         IN LET all == CleanUpStaleMoves([NoChange EXCEPT !.del = MergedDeletions(b, c),
                                                          !.ins = MergedInsertions(b, c),
                                                          !.moves = followed.kept \o carried])
            IN [all EXCEPT
                  !.mod = ShiftForInsertPositions(ErasePositions(b.mod, c.del), c.ins) \cup followed.mod
                            \cup {news[n].to : n \in {k \in DOMAIN news : news[k].from \in b.mod}}]

(* finalize: the modified entries by their old position and by their new one;
   an inserted entry is not a modified one. *)
ModifiedInOldTooLate(b) == ErasePositions(ShiftForInsertPositions(b.mod, b.del), b.ins)
ModifiedInOld(b) == ShiftForInsertPositions(ErasePositions(b.mod, b.ins), b.del)
ModifiedInNew(b) == b.mod \ b.ins
=============================================================================
