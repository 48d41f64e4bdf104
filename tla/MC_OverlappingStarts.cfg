\* Two elections with one voter: two starts' POSTs are at Django at once, and
\* the dashboard may believe an election started that is not.
SPECIFICATION Spec
CONSTANTS
  v1 = v1
  v2 = v2
  Voters = {v1}
  x = x
  y = y
  a1 = a1
  a2 = a2
  Choices = {x}
  MaxElections = 2
  MaxAdminTx = 2
  AdminPosts = {a1, a2}
  MaxU32 = 10
  Orderly = FALSE
  NoVoter = NoVoter
  NoBlinded = NoBlinded
  NoCandidate = NoCandidate
  NoChoice = NoChoice
  NoPost = NoPost
INVARIANTS
  TypeOK
  OneVotePerVoter
  DoneMeansRecorded
  ChainLeads
