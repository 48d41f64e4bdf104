--------------------------- MODULE MCRevealPanel ---------------------------
(* Ballots of two posts, one of them contested: up to two votes in the     *)
(* box.                                                                    *)
EXTENDS RevealPanel
MCTwoPosts == {"president", "secretary"}
MCContested == [p \in MCTwoPosts |-> IF p = "president" THEN {1, 2} ELSE {3}]
=============================================================================
