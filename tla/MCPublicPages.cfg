\* Up to two votes, a vote too many revealed where there is one, two polls at a
\* time; three blocks, two rows, one loss of the explorer's connection;
\* two tabs of one browser, a voter and the admin.
CONSTANTS
  Voters = {"v1", "v2"}
  Posts <- MCPosts
  CandidatesFor <- MCCandidatesFor
  MaxU32 = 20
  MaxReveals = 2
  MaxPolls = 2
  MAX_BLOCKS = 2
  MaxHead = 3
  MaxLost = 1
  Emails = {"e1"}
  Admin = "admin"
  Tabs = {"t1", "t2"}
  Browsers = {"b1"}
  NoOne = "nobody"
SPECIFICATION Spec
INVARIANTS TypeOK NeverAhead FeedSound ShownSinceLoaded
PROPERTIES WinnersSettle FeedSettles

\* A visit is over when the page is left.
CHECK_DEADLOCK FALSE
