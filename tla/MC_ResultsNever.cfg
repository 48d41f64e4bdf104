\* Opens the results page a moment before Django ends the election.
CONSTANTS
  Voters = {"v1", "v2"}
  Posts <- MCPosts
  CandidatesFor <- MCCandidatesFor
  MaxU32 = 20
  MaxReveals = 2
  MaxPolls = 2
  MAX_BLOCKS = 2
  MaxHead = 3
  MaxLost = 1
  Emails = {"e1"}
  Admin = "admin"
  Tabs = {"t1", "t2"}
  Browsers = {"b1"}
  NoOne = "nobody"
SPECIFICATION Spec
PROPERTY WaitingIsOver
CHECK_DEADLOCK FALSE
