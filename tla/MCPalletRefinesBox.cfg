SPECIFICATION Spec
CONSTANTS
  a1 = a1
  a2 = a2
  a3 = a3
  a4 = a4
  Accounts = {a1, a2, a3}
  Bytes <- MCBytes
  Size <- MCSize
  Ballots <- MCBallots
  CandidateIds = {1, 2}
  MaxEncryptedVoteSize = 1
  MaxBlindSignatureSize = 1
  MaxVoteHashSize = 1
  MaxU32 = 3
  MaxU64 = 3
  MaxReveals = 3
PROPERTIES
  ImplementsBallotBox
