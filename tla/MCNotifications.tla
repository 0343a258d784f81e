--------------------------- MODULE MCNotifications ---------------------------
(* Bounds for Notifications: one collection with two callbacks and three
   versions of the file, two collections with one callback and two versions. *)
EXTENDS Notifications

CONSTANTS n1, n2, c1, c2

OneCollection == [ns |-> {n1}, cs |-> {c1, c2}, top |-> 3]
TwoCollections == [ns |-> {n1, n2}, cs |-> {c1}, top |-> 2]
MCScopes == {OneCollection, TwoCollections}
=============================================================================
