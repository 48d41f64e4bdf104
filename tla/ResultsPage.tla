----------------------------- MODULE ResultsPage -----------------------------
(***************************************************************************)
(* The public results page (Frontend/.../Results.tsx) while the votes are  *)
(* counted on the chain.                                                   *)
(*                                                                         *)
(* The page asks Django for the election's status and candidates once,     *)
(* when it is opened.  If it gets the candidates, then every three         *)
(* seconds, whether or not the last poll has finished, it asks the chain   *)
(* for VoteCounter, RevealedCount and every candidate's Tally, one query   *)
(* after another, and shows what has come: the counters at once, the tally *)
(* when its last entry is there.  The connection is the one App.tsx opens  *)
(* when the site is loaded; until it is there the page shows that it is    *)
(* loading, and polls nothing.                                             *)
(*                                                                         *)
(* The page looks at no ballot, so all of them are alike here, and a       *)
(* reveal may credit any candidate.                                        *)
(***************************************************************************)
EXTENDS Integers, Sequences, FiniteSets, SequencesExt

CONSTANTS
  Voters, Posts,
  CandidatesFor,   \* the chain ids of each post's candidates
  MaxU32, MaxReveals,
  MaxPolls         \* bound on the polls that overlap

(* An election starts with a candidate for every post, and its voters'     *)
(* votes fit the counter.                                                  *)
ResultsConstants ==
  /\ IsFiniteSet(Voters) /\ IsFiniteSet(Posts) /\ Posts # {}
  /\ \A p \in Posts : IsFiniteSet(CandidatesFor[p]) /\ CandidatesFor[p] # {}
  /\ MaxU32 \in Nat \ {0} /\ Cardinality(Voters) <= MaxU32
  /\ MaxReveals \in Nat /\ MaxPolls \in Nat

VARIABLES
  currentPhase, encryptedVotes, voteCounter, hasVoted, tally, revealedCount,
  revealLog,  \* the chain
  django,     \* ElectionState.status
  page,       \* what the page shows
  polls,      \* the fetchTally calls under way
  api,        \* App.tsx has its connection to the chain
  orderly     \* chosen once: every vote is revealed once, no request or query
              \* fails, and the page stays open

chain == <<currentPhase, encryptedVotes, voteCounter, hasVoted, tally,
           revealedCount, revealLog>>
vars == <<chain, django, page, polls, api, orderly>>

Candidates == UNION {CandidatesFor[p] : p \in Posts}
Ballot == [encrypted_vote |-> 1, blind_signature |-> 1, vote_hash |-> 1]

Chain == INSTANCE VotingPallet
  WITH Accounts <- Voters, Bytes <- {1}, Size <- [b \in {1} |-> 1],
       Ballots <- {Ballot}, CandidateIds <- Candidates, MaxEncryptedVoteSize <- 1,
       MaxBlindSignatureSize <- 1, MaxVoteHashSize <- 1, MaxU64 <- MaxU32

NoTally == [c \in Candidates |-> 0]
Closed == [pc |-> "closed", listed |-> FALSE, total |-> 0, revealed |-> 0, tally |-> NoTally]

(* Voting has ended on the chain, and perhaps in Django; the site may have *)
(* been loaded long before this page of it is opened.                      *)
Init ==
  /\ hasVoted \in SUBSET Voters
  /\ voteCounter = Cardinality(hasVoted)
  /\ encryptedVotes = [i \in 0..(voteCounter - 1) |-> Ballot]
  /\ currentPhase = "Ended"
  /\ tally = NoTally
  /\ revealedCount = 0 /\ revealLog = << >>
  /\ django \in {"active", "ended"}
  /\ page = Closed
  /\ polls = << >>
  /\ api \in BOOLEAN
  /\ orderly \in BOOLEAN

-----------------------------------------------------------------------------
(* Counting, as the admin's panel does it (module RevealPanel).            *)
Reveal(i, c) ==
  /\ orderly => i = revealedCount
  /\ Chain!RevealVote(i, c, encryptedVotes[i].vote_hash)
  /\ UNCHANGED <<django, page, polls, api, orderly>>

Finalize ==
  /\ voteCounter > 0 /\ revealedCount >= voteCounter
  /\ Chain!FinalizeTally
  /\ UNCHANGED <<django, page, polls, api, orderly>>

DjangoEnds ==
  /\ django = "active"
  /\ django' = "ended"
  /\ UNCHANGED <<chain, page, polls, api, orderly>>

-----------------------------------------------------------------------------
(* ApiPromise.create in App.tsx, which the library repeats until it works. *)
Connect ==
  /\ ~api
  /\ api' = TRUE
  /\ UNCHANGED <<chain, django, page, polls, orderly>>

(* fetchElectionData asks for the status and for the candidates.  A page   *)
(* whose status request fails waits like one told that the election is on; *)
(* one that has no list of candidates never polls.                         *)
Open ==
  /\ page.pc = "closed"
  /\ \E status \in {django, "none"}, listed \in BOOLEAN :
       /\ orderly => status = django /\ listed
       /\ page' = [page EXCEPT !.pc = IF status = "ended" THEN "results" ELSE "waiting",
                              !.listed = listed]
  /\ UNCHANGED <<chain, django, polls, api, orderly>>

Close ==
  /\ page.pc # "closed" /\ (orderly => page.pc = "waiting")
  /\ page' = Closed
  /\ polls' = << >>
  /\ UNCHANGED <<chain, django, api, orderly>>

(* fetchTally's queries are numbered: VoteCounter, RevealedCount, and then *)
(* the candidates' tallies in the order of the list.                       *)
Listed == SetToSeq(Candidates)
LastQuery == 2 + Len(Listed)
CandidateAt(at) == Listed[at - 2]

Current(at) ==
  CASE at = 1 -> voteCounter
    [] at = 2 -> revealedCount
    [] OTHER -> tally[CandidateAt(at)]

NewPoll == [at |-> 1, answered |-> FALSE, value |-> 0, tallyData |-> NoTally]

(* Mutant: the page is fetched once and not polled.                        *)
PollOnce ==
  /\ api /\ page.listed /\ page.total = 0 /\ polls = << >>
  /\ polls' = <<NewPoll>>
  /\ UNCHANGED <<chain, django, page, api, orderly>>

Poll ==
  /\ api /\ page.listed /\ Len(polls) < MaxPolls
  /\ polls' = Append(polls, NewPoll)
  /\ UNCHANGED <<chain, django, page, api, orderly>>

(* The node answers a poll's query ...                                     *)
Answer(p) ==
  /\ ~polls[p].answered
  /\ polls' = [polls EXCEPT ![p].answered = TRUE,
                            ![p].value = Current(polls[p].at)]
  /\ UNCHANGED <<chain, django, page, api, orderly>>

Received(p) == [polls[p].tallyData EXCEPT ![CandidateAt(polls[p].at)] = polls[p].value]
NextQuery(p) == [polls[p] EXCEPT !.at = @ + 1, !.answered = FALSE, !.value = 0]

Shown(p) ==
  CASE polls[p].at = 1 -> [page EXCEPT !.total = polls[p].value]
    [] polls[p].at = 2 -> [page EXCEPT !.revealed = polls[p].value]
    [] polls[p].at = LastQuery -> [page EXCEPT !.tally = Received(p)]
    [] OTHER -> page

(* Mutants: the loop runs one query too far; the counts are added up.      *)
ArriveRunsOn(p) ==
  /\ polls[p].answered
  /\ page' = Shown(p)
  /\ polls' = [polls EXCEPT ![p] = NextQuery(p)]
  /\ UNCHANGED <<chain, django, api, orderly>>

ArriveAddsUp(p) ==
  /\ polls[p].answered
  /\ page' = IF polls[p].at <= 2 THEN Shown(p)
             ELSE [page EXCEPT !.tally[CandidateAt(polls[p].at)] = @ + polls[p].value]
  /\ polls' = IF polls[p].at = LastQuery THEN RemoveAt(polls, p)
                                            ELSE [polls EXCEPT ![p] = NextQuery(p)]
  /\ UNCHANGED <<chain, django, api, orderly>>

(* ... and the answer arrives: what it says is shown or kept, and the next *)
(* query sent.                                                             *)
Arrive(p) ==
  LET at == polls[p].at
  IN  /\ polls[p].answered
      /\ page' = Shown(p)
      /\ polls' = IF at = LastQuery THEN RemoveAt(polls, p)
                  ELSE [polls EXCEPT ![p] =
                          [NextQuery(p) EXCEPT !.tallyData = IF at > 2 THEN Received(p)
                                                                       ELSE @]]
      /\ UNCHANGED <<chain, django, api, orderly>>

(* A query fails, and its poll ends there.                                 *)
Fail(p) ==
  /\ ~orderly
  /\ polls' = RemoveAt(polls, p)
  /\ UNCHANGED <<chain, django, page, api, orderly>>

Next ==
  \/ \E i \in DOMAIN encryptedVotes, c \in Candidates : Reveal(i, c)
  \/ Finalize \/ DjangoEnds
  \/ Connect \/ Open \/ Close \/ Poll
  \/ \E p \in DOMAIN polls : Answer(p) \/ Arrive(p) \/ Fail(p)

Spec == Init /\ [][Next]_vars

(* Counting goes on (RevealPanel!CountingEnds), the timer ticks, and the   *)
(* node answers.                                                           *)
Fairness ==
  /\ WF_vars(\E i \in DOMAIN encryptedVotes, c \in Candidates : Reveal(i, c))
  /\ WF_vars(Connect) /\ WF_vars(Poll)
  /\ WF_vars(\E p \in DOMAIN polls : Answer(p) \/ Arrive(p))

-----------------------------------------------------------------------------
Top(counts, p) ==
  {c \in CandidatesFor[p] : counts[c] > 0 /\ \A d \in CandidatesFor[p] : counts[d] <= counts[c]}

Winners(counts) == [p \in Posts |-> Top(counts, p)]

isElectionFinished ==
  page.pc = "results" /\ page.total > 0 /\ page.revealed = page.total

winnersList == IF isElectionFinished THEN Winners(page.tally)
                                     ELSE [p \in Posts |-> {}]

(* The tag next to a candidate's name.                                     *)
Badge(p, c) ==
  IF page.pc # "results" \/ c \notin Top(page.tally, p) \/ page.revealed = 0 THEN "none"
  ELSE IF Top(page.tally, p) # {c} THEN "TIED"
  ELSE IF page.revealed = page.total THEN "WINNER"
  ELSE IF page.revealed < page.total THEN "LEADING"
  ELSE "none"

(* The chain keeps its types; the page and its polls have theirs.          *)
TypeOK ==
  /\ Chain!TypeOK
  /\ page \in [pc : {"closed", "waiting", "results"}, listed : BOOLEAN, total : 0..MaxU32,
               revealed : 0..MaxU32, tally : [Candidates -> 0..MaxU32]]
  /\ \A p \in DOMAIN polls :
       polls[p] \in [at : 1..LastQuery, answered : BOOLEAN, value : 0..MaxU32,
                     tallyData : [Candidates -> 0..MaxU32]]
  /\ django \in {"active", "ended"} /\ {api, orderly} \subseteq BOOLEAN

(* However polls overlap and fail, the page never shows more counted votes *)
(* than the chain has, nor "Elected Candidates" (Results.tsx) before as    *)
(* many votes have been revealed as were cast.                             *)
NeverAhead ==
  /\ page.revealed <= revealedCount
  /\ \A c \in Candidates : page.tally[c] <= tally[c]
  /\ isElectionFinished => revealedCount >= voteCounter

(* Late answers may replace newer ones, and the counters are shown before  *)
(* the tally they belong to: for a while the wrong winners may be on the   *)
(* screen.  Not for ever: in the end a page that has been told of the end  *)
(* of the election shows the winners the chain has, and the tags next to   *)
(* the candidates agree with them.                                         *)
WinnersSettle ==
  <>[](orderly /\ page.pc = "results" /\ voteCounter > 0
         => /\ isElectionFinished /\ winnersList = Winners(tally)
            /\ \A p \in Posts : \A c \in Top(tally, p) :
                 Badge(p, c) = IF Top(tally, p) = {c} THEN "WINNER" ELSE "TIED")

(* The page says "Results will be available once the election ends and     *)
(* votes are decrypted." (Results.tsx): whoever waits for it gets them.    *)
(* Not so, even when nothing fails: see the README.                        *)
WaitingIsOver == orderly /\ page.pc = "waiting" /\ django = "ended" ~> page.pc # "waiting"
=============================================================================
