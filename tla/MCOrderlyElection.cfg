SPECIFICATION FairSpec
CONSTANTS
  v1 = v1
  v2 = v2
  Voters <- MCVoters
  x = x
  y = y
  a1 = a1
  a2 = a2
  Choices <- MCChoices
  MaxElections = 1
  MaxAdminTx = 2
  AdminPosts = {a1}
  MaxU32 = 10
  Orderly = TRUE
  NoVoter = NoVoter
  NoBlinded = NoBlinded
  NoCandidate = NoCandidate
  NoChoice = NoChoice
  NoPost = NoPost
PROPERTIES
  EndGoesThrough
  SentVoteSettles

\* Once the last election of the bound is over nothing more need happen.
CHECK_DEADLOCK FALSE
