---------------------------- MODULE MCLosTrouvee ----------------------------
(* LosTrouvee on small instances. *)
EXTENDS LosTrouvee, TLC

\* Accounts are interchangeable, and so are call slots.
AnyNames == Permutations(Users) \cup Permutations(Calls)
=============================================================================
