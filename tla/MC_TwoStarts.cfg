SPECIFICATION Spec
CONSTANTS
  v1 = v1
  v2 = v2
  NoVoter = NoVoter
  NoBlinded = NoBlinded
  NoCandidate = NoCandidate
  Voters = {v1}
  Blinded = {"x", "y"}
  Posts <- MCOnePost
  CandidateRows <- MCOneRow
  SignRequests = {"s1"}
  AdminRequests = {"a1", "a2"}
  SaveRequests = {"w1"}
  DEBUG = FALSE
  MaxElections = 2
INVARIANT
  OneSignaturePerElection
