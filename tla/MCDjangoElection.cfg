SPECIFICATION FairSpec
CONSTANTS
  v1 = v1
  v2 = v2
  NoVoter = NoVoter
  NoBlinded = NoBlinded
  NoCandidate = NoCandidate
  Voters = {v1, v2}
  Blinded = {"x", "y"}
  Posts <- MCOnePost
  CandidateRows <- MCOneRow
  SignRequests = {"s1", "s2"}
  AdminRequests = {"a1"}
  SaveRequests = {"w1", "w2"}
  DEBUG = FALSE
  MaxElections = 2
INVARIANTS
  OneSignaturePerElection
  VotedHasSignature
PROPERTIES
  RequestsAnswered
