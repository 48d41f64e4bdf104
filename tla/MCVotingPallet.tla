--------------------------- MODULE MCVotingPallet ---------------------------
(* Small instances of VotingPallet: two good ballots that share nothing,   *)
(* one that reuses the first one's signature, and one too long in each     *)
(* field.  With MaxU32 = 2 and four accounts both counters saturate.       *)
EXTENDS VotingPallet, TLC

CONSTANTS a1, a2, a3, a4

MCAccounts == {a1, a2, a3, a4}
MCSymmetry == Permutations(MCAccounts)
MCBytes == {"c1", "s1", "s2", "h1", "h2", "long"}
MCSize == [b \in MCBytes |-> IF b = "long" THEN 2 ELSE 1]
MCBallot(c, s, h) ==
  [encrypted_vote |-> c, blind_signature |-> s, vote_hash |-> h]
MCBallots == {MCBallot("c1", "s1", "h1"), MCBallot("c1", "s2", "h2"),
              MCBallot("long", "s1", "h1"), MCBallot("c1", "long", "h1"),
              MCBallot("c1", "s1", "long")}
=============================================================================
