SPECIFICATION Spec
CONSTANTS
  Voters = {"v1", "v2"}
  Posts <- MCTwoPosts
  CandidatesFor <- MCContested
  MaxU32 = 20
  MaxReveals = 4
  MaxAdminTx = 2
INVARIANT
  FinalTallyCorrect
