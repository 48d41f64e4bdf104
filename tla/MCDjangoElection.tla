-------------------------- MODULE MCDjangoElection --------------------------
(* A small instance of DjangoElection: one candidate, for the one post.    *)
EXTENDS DjangoElection, TLC

CONSTANTS v1, v2

MCOnePost == {"president"}
MCOneRow == {[name |-> "a", post |-> "president", candidate_id |-> 1]}
=============================================================================
