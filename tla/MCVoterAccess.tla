---------------------------- MODULE MCVoterAccess ----------------------------
(* Tabs are interchangeable, and so are students. *)
EXTENDS VoterAccess, TLC

Interchangeable == Permutations(Tabs) \cup Permutations(Rolls)
=============================================================================
