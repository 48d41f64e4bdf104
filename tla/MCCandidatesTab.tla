--------------------------- MODULE MCCandidatesTab ---------------------------
(* The rows hold a candidate for each post, one that repeats a name and    *)
(* post, and one that repeats a candidate_id.                              *)
EXTENDS CandidatesTab

MCRow(n, p, i) == [name |-> n, post |-> p, candidate_id |-> i]
MCPosts == {"president", "secretary"}
MCRows == {MCRow("a", "president", 1), MCRow("b", "secretary", 2),
           MCRow("a", "president", 3), MCRow("c", "president", 2)}
=============================================================================
