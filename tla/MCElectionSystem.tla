-------------------------- MODULE MCElectionSystem --------------------------
(* Two voters, two choices: they may agree or disagree.                    *)
EXTENDS ElectionSystem, TLC
CONSTANTS v1, v2, x, y, a1, a2
MCVoters == {v1, v2}
MCChoices == {x, y}
MCSymmetry == Permutations(MCVoters) \cup Permutations(MCChoices)
=============================================================================
