SPECIFICATION Spec
CONSTANTS
  a1 = a1
  a2 = a2
  a3 = a3
  a4 = a4
  Accounts <- MCAccounts
  Bytes <- MCBytes
  Size <- MCSize
  Ballots <- MCBallots
  CandidateIds = {1, 2}
  MaxEncryptedVoteSize = 1
  MaxBlindSignatureSize = 1
  MaxVoteHashSize = 1
  MaxU32 = 2
  MaxU64 = 3
  MaxReveals = 4
SYMMETRY MCSymmetry
INVARIANTS
  TypeOK
  OneSlotPerVoter
  TallyMatchesReveals
  RevealsMatchStoredVotes
  CleanSlate

PROPERTIES
  StoredVotesFinal
  ClosedStaysClosed
