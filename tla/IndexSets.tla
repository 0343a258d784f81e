------------------------------ MODULE IndexSets ------------------------------
(***************************************************************************)
(* IndexSet of Realm's ObjectStore: a set of positions, kept by the code   *)
(* as chunks of sorted ranges and here as the set itself.  Positions count *)
(* from 0.  An operator returns the set after the call; the position a     *)
(* call returns has an operator of its own.                                *)
(***************************************************************************)
EXTENDS Integers, FiniteSets

(* count(a, b): members in a .. b-1 *)
CountIn(S, a, b) == Cardinality({x \in S : a <= x /\ x < b})

(* The members in order, as as_indexes() goes through them. *)
InOrder(S) == [n \in 1 .. Cardinality(S) |-> CHOOSE i \in S : Cardinality({x \in S : x < i}) = n - 1]

(* unshift(i): where position i, not a member, was before the members were
   inserted. *)
Unshift(S, i) == i - CountIn(S, 0, i)

(* shift(i): where position i is once the members have been inserted; the code
   adds the size of each range that begins at or before the position reached;
   the slip only looks at the position given. *)
ShiftByMembersBefore(S, i) == i + CountIn(S, 0, i)
Shift(S, i) ==
    CHOOSE n \in i .. i + Cardinality(S) : n \notin S /\ Unshift(S, n) = i

(* add_shifted(i): adds shift(i), and returns it. *)
AddShifted(S, i) == S \cup {Shift(S, i)}

(* add_shifted_by(by, values): values that are not in "by", moved back over it
   and then over the old members. *)
AddShiftedBy(S, by, values) == S \cup {Shift(S, Unshift(by, v)) : v \in values \ by}

(* shift_for_insert_at(i) and of a set of positions *)
ShiftForInsertAt(S, i) == {IF x < i THEN x ELSE x + 1 : x \in S}
ShiftForInsertPositions(S, positions) == {Shift(positions, x) : x \in S}

(* insert_at(i) and of a set of positions *)
InsertPosition(S, i) == ShiftForInsertAt(S, i) \cup {i}
InsertPositions(S, positions) == ShiftForInsertPositions(S, positions) \cup positions

(* erase_at(i) and of a set of positions *)
ErasePosition(S, i) == {IF x < i THEN x ELSE x - 1 : x \in S \ {i}}
ErasePositions(S, positions) == {Unshift(positions, x) : x \in S \ positions}
=============================================================================
