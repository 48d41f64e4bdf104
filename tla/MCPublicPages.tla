---------------------------- MODULE MCPublicPages ----------------------------
(* Two candidates for one post. *)
EXTENDS PublicPages
MCPosts == {"president"}
MCCandidatesFor == [p \in MCPosts |-> {1, 2}]
=============================================================================
