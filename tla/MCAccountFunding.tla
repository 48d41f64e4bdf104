--------------------------- MODULE MCAccountFunding ---------------------------
(* Voters are interchangeable. *)
EXTENDS AccountFunding, TLC

Interchangeable == Permutations(Rolls)
=============================================================================
