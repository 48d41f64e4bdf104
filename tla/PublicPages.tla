----------------------------- MODULE PublicPages -----------------------------
(***************************************************************************)
(* A visit to one of the pages that App.tsx opens to everybody: /results,  *)
(* /blockexplorer, or those where one logs in, /login and /admin.  The     *)
(* first two follow the chain, each on a connection of its own - App's and *)
(* the explorer's -, the others the session; they share nothing else:      *)
(* leaving one for another unmounts it, and nothing of it is kept.  So a   *)
(* visit is a behaviour of the one page that is routed to.  The explorer   *)
(* at the foot of the results page is the same component.                  *)
(***************************************************************************)
EXTENDS Integers, Sequences, FiniteSets

CONSTANTS
  Voters, Posts, CandidatesFor, MaxU32, MaxReveals, MaxPolls,  \* ResultsPage
  MAX_BLOCKS, MaxHead, MaxLost,                                \* BlockExplorer
  Emails, Admin, Tabs, Browsers, NoOne                         \* SessionPages

VARIABLES
  route,
  currentPhase, encryptedVotes, voteCounter, hasVoted, tally, revealedCount,
  revealLog, django, page, polls, api, orderly,                \* ResultsPage
  strict, head, mounted, connected, connecting, latestBlock, blocks, links,
  apiRef, unsubRef, lost,                                      \* BlockExplorer
  browser, session, tab, user, auth, admin, had                \* SessionPages

Results == INSTANCE ResultsPage
Explorer == INSTANCE BlockExplorer
Sessions == INSTANCE SessionPages

ASSUME PagesConstants ==
  Results!ResultsConstants /\ Explorer!ExplorerConstants /\ Sessions!SessionConstants

resultsVars == <<currentPhase, encryptedVotes, voteCounter, hasVoted, tally,
                 revealedCount, revealLog, django, page, polls, api, orderly>>
explorerVars == <<strict, head, mounted, connected, connecting, latestBlock, blocks,
                  links, apiRef, unsubRef, lost>>
sessionVars == <<browser, session, tab, user, auth, admin, had>>
vars == <<route, resultsVars, explorerVars, sessionVars>>

(* A page that is not routed to is closed, and nothing happens to it: no *)
(* step of it that a fairness condition asks for is ever enabled.          *)
Init ==
  /\ route \in {"/results", "/blockexplorer", "/login"}
  /\ Results!Init /\ Explorer!Init /\ Sessions!Init
  /\ route # "/blockexplorer" => ~strict
  /\ route # "/results" => api /\ orderly /\ hasVoted = {} /\ django = "ended"

ResultsStep ==
  route = "/results" /\ Results!Next /\ UNCHANGED <<route, explorerVars, sessionVars>>

ExplorerStep ==
  route = "/blockexplorer" /\ Explorer!Next /\ UNCHANGED <<route, resultsVars, sessionVars>>

SessionStep ==
  route = "/login" /\ Sessions!Next /\ UNCHANGED <<route, resultsVars, explorerVars>>

Next == ResultsStep \/ ExplorerStep \/ SessionStep

Spec == Init /\ [][Next]_vars /\ Results!Fairness /\ Explorer!Fairness

-----------------------------------------------------------------------------
TypeOK == Results!TypeOK /\ Explorer!TypeOK /\ Sessions!TypeOK

(* The properties of the pages, each stated in its own module.             *)
NeverAhead == Results!NeverAhead
WinnersSettle == Results!WinnersSettle
WaitingIsOver == Results!WaitingIsOver
FeedSound == Explorer!FeedSound
FeedSettles == Explorer!FeedSettles
NothingLeftOpen == Explorer!NothingLeftOpen
ShownSinceLoaded == Sessions!ShownSinceLoaded
ShownIsServed == Sessions!ShownIsServed
ShownStaysServed == Sessions!ShownStaysServed
LogoutEndsSession == Sessions!LogoutEndsSession
=============================================================================
