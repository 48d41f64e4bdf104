SPECIFICATION Spec
CONSTANTS
  NoVoter = NoVoter
  NoBlinded = NoBlinded
  NoCandidate = NoCandidate
  Posts <- MCPosts
  CandidateRows <- MCRows
  AdminRequests = {"a1", "a2"}
  MaxElections = 2
INVARIANT
  QuietListIsTable
