-------------------------- MODULE PublicPagesProofs --------------------------
(***************************************************************************)
(* Theorems about the public pages, for any number of votes, candidates,   *)
(* blocks, polls and fetches under way, users, tabs and browsers.          *)
(***************************************************************************)
EXTENDS PublicPages, FiniteSetTheorems, SequenceTheorems, TLAPS

-----------------------------------------------------------------------------
(* The results page.  What holds of the chain while votes are counted.     *)
Reveals == [vote_id : 0..MaxU32, candidate_id : Results!Candidates, vote_hash : {1}]

Counting ==
  /\ currentPhase \in {"Ended", "TallyComplete"}
  /\ voteCounter \in 0..MaxU32 /\ hasVoted \subseteq Voters
  /\ encryptedVotes \in [0..(voteCounter - 1) -> {Results!Ballot}]
  /\ tally \in [Results!Candidates -> 0..MaxU32] /\ revealedCount \in 0..MaxU32
  /\ revealLog \in Seq(Reveals)

Tallies == [Results!Candidates -> 0..MaxU32]
Pages == [pc : {"closed", "waiting", "results"}, listed : BOOLEAN, total : 0..MaxU32,
          revealed : 0..MaxU32, tally : Tallies]
Polls == [at : 1..Results!LastQuery, answered : BOOLEAN, value : 0..MaxU32,
          tallyData : Tallies]

PageTypes ==
  /\ page \in Pages /\ polls \in Seq(Polls)
  /\ django \in {"active", "ended"} /\ api \in BOOLEAN /\ orderly \in BOOLEAN

(* What a poll has been told is no more than the chain says by now, and    *)
(* VoteCounter is the same in every answer.                                *)
Behind(counts) == \A c \in Results!Candidates : counts[c] <= tally[c]

PollBehind(poll) ==
  /\ Behind(poll.tallyData)
  /\ poll.answered /\ poll.at = 1 => poll.value = voteCounter
  /\ poll.answered /\ poll.at = 2 => poll.value <= revealedCount
  /\ poll.answered /\ poll.at > 2 => poll.value <= tally[Results!CandidateAt(poll.at)]

PageBehind(shown) ==
  /\ shown.total \in {0, voteCounter}
  /\ shown.revealed <= revealedCount /\ Behind(shown.tally)

AllBehind == PageBehind(page) /\ \A p \in DOMAIN polls : PollBehind(polls[p])

ResultsInv == Counting /\ PageTypes /\ AllBehind

-----------------------------------------------------------------------------
(* The explorer.  What holds of its state whoever uses it.                 *)
Heads == 1..head
Rows == [number : Heads, isNew : BOOLEAN]
Links == [pc : {"creating", "asking", "live", "over"}, seen : 0..head,
          steady : BOOLEAN, fetching : SUBSET Heads]

ExplorerTypes ==
  /\ strict \in BOOLEAN /\ mounted \in BOOLEAN /\ connected \in BOOLEAN
  /\ connecting \in BOOLEAN
  /\ head \in 1..MaxHead /\ latestBlock \in 0..head /\ lost \in 0..MaxLost
  /\ blocks \in Seq(Rows) /\ Len(blocks) <= MAX_BLOCKS
  /\ links \in Seq(Links)
  /\ apiRef \in 0..Len(links) /\ unsubRef \in 0..Len(links)

(* An open page that is not of the development build is served by the last *)
(* connection it made; one before it failed and has told nothing.          *)
last == Len(links)

Idle(l) == links[l].seen = 0 /\ links[l].fetching = {}

OneLink ==
  /\ last \in {1, 2} /\ unsubRef \in {0, last}
  /\ \A l \in 1..(last - 1) : links[l].pc = "over" /\ Idle(l)
  /\ links[last].pc = "creating" =>
       ~connected /\ connecting /\ Idle(last) /\ blocks = << >> /\ unsubRef = 0
  /\ links[last].pc = "over" =>
       ~connected /\ ~connecting /\ Idle(last) /\ blocks = << >> /\ unsubRef = 0
  /\ links[last].pc \in {"asking", "live"} => connected

(* The blocks it knows of are those the connection told: each has a row or *)
(* is fetched, not both.  The last one told is not pushed out: there is    *)
(* room below its row for all that is still fetched.                       *)
RowsFollow ==
  /\ latestBlock = links[last].seen
  /\ Cardinality(links[last].fetching) <= MAX_BLOCKS
  /\ \A n \in links[last].fetching : n <= latestBlock
  /\ \A i \in DOMAIN blocks : /\ blocks[i].number \notin links[last].fetching
                              /\ blocks[i].number <= latestBlock
  /\ \A i, j \in DOMAIN blocks : blocks[i].number = blocks[j].number => i = j
  /\ latestBlock > 0 => latestBlock \in Explorer!Numbers \cup links[last].fetching
  /\ \A i \in DOMAIN blocks : blocks[i].number = latestBlock =>
       i + Cardinality(links[last].fetching) <= MAX_BLOCKS

Feed ==
  /\ ~mounted => ~connected /\ ~connecting /\ latestBlock = 0 /\ blocks = << >>
  /\ mounted /\ ~strict => OneLink /\ RowsFollow

-----------------------------------------------------------------------------
(* A visit is a behaviour of one page; the others are left as they are.    *)
LEMMA VisitSteps ==
  ASSUME [Next]_vars
  PROVE  /\ Results!Next \/ UNCHANGED resultsVars
         /\ Explorer!Next \/ UNCHANGED explorerVars
         /\ Sessions!Next \/ UNCHANGED sessionVars
  BY DEF Next, ResultsStep, ExplorerStep, SessionStep, vars

-----------------------------------------------------------------------------
(* The candidates, and the order in which fetchTally asks for them.        *)
LEMMA CandidatesFinite == IsFiniteSet(Results!Candidates) /\ Results!Candidates # {}
<1>0. /\ IsFiniteSet(Posts) /\ Posts # {}
      /\ \A p \in Posts : IsFiniteSet(CandidatesFor[p]) /\ CandidatesFor[p] # {}
  BY PagesConstants DEF Results!ResultsConstants, Results!IsFiniteSet, IsFiniteSet
<1>1. IsFiniteSet({CandidatesFor[p] : p \in Posts})
  <2> DEFINE f == [p \in Posts |-> CandidatesFor[p]]
  <2>1. f \in Surjection(Posts, {CandidatesFor[p] : p \in Posts})
    BY DEF Surjection
  <2> HIDE DEF f
  <2>2. QED
    BY <2>1, <1>0, FS_Surjection
<1>2. IsFiniteSet(Results!Candidates)
  BY <1>0, <1>1, FS_UNION DEF Results!Candidates
<1>3. QED
  BY <1>0, <1>2 DEF Results!Candidates

LEMMA Queries ==
  /\ Results!LastQuery \in Nat /\ Results!LastQuery > 2
  /\ \A at \in 3..Results!LastQuery : Results!CandidateAt(at) \in Results!Candidates
<1> DEFINE N == Cardinality(Results!Candidates)
<1>1. N \in Nat /\ ExistsBijection(1..N, Results!Candidates) /\ N # 0
  BY CandidatesFinite, FS_CardinalityType, FS_EmptySet
<1> HIDE DEF N
<1>2. \E f \in [1..N -> Results!Candidates] : IsInjective(f)
  BY <1>1 DEF ExistsBijection, Bijection, Injection
<1>3. Results!Listed \in [1..N -> Results!Candidates]
  BY <1>2 DEF Results!Listed, Results!SetToSeq, N, Results!IsInjective, IsInjective,
     Results!Cardinality, Cardinality
<1>4. Len(Results!Listed) = N
  BY <1>1, <1>3, SeqDef
<1>5. Results!LastQuery = N + 2
  BY <1>1, <1>4 DEF Results!LastQuery
<1>6. ASSUME NEW at \in 3..Results!LastQuery
      PROVE  Results!CandidateAt(at) \in Results!Candidates
  <2>1. at - 2 \in 1..N
    BY <1>1, <1>5
  <2>2. QED
    BY <1>3, <2>1 DEF Results!CandidateAt
<1>7. QED
  BY <1>1, <1>5, <1>6

(* While votes are counted the counts only grow, and no vote is added.     *)
LEMMA CountingStep ==
  ASSUME Counting, Results!Next \/ UNCHANGED resultsVars
  PROVE  /\ Counting' /\ voteCounter' = voteCounter
         /\ revealedCount <= revealedCount'
         /\ \A c \in Results!Candidates : tally[c] <= tally'[c]
<1> USE DEF Counting
<1>0. /\ MaxU32 \in Nat \ {0} /\ revealedCount \in 0..MaxU32
      /\ \A c \in Results!Candidates : tally[c] \in 0..MaxU32
  BY PagesConstants DEF Results!ResultsConstants
<1>1. \A k \in 0..MaxU32 : /\ Results!Chain!SaturatingInc(k, MaxU32) \in 0..MaxU32
                           /\ k <= Results!Chain!SaturatingInc(k, MaxU32)
  BY <1>0 DEF Results!Chain!SaturatingInc, Results!Chain!Lesser
<1>2. CASE UNCHANGED Results!chain
  BY <1>0, <1>2 DEF Results!chain
<1>3. ASSUME NEW i \in DOMAIN encryptedVotes, NEW c \in Results!Candidates, Results!Reveal(i, c)
      PROVE  /\ Counting' /\ voteCounter' = voteCounter
             /\ revealedCount <= revealedCount'
             /\ \A d \in Results!Candidates : tally[d] <= tally'[d]
  <2> DEFINE reveal == [vote_id |-> i, candidate_id |-> c,
                        vote_hash |-> encryptedVotes[i].vote_hash]
  <2>1. /\ tally' = [tally EXCEPT ![c] = Results!Chain!SaturatingInc(tally[c], MaxU32)]
        /\ revealedCount' = Results!Chain!SaturatingInc(revealedCount, MaxU32)
        /\ revealLog' = Append(revealLog, reveal)
        /\ UNCHANGED <<currentPhase, encryptedVotes, voteCounter, hasVoted>>
    BY <1>3 DEF Results!Reveal, Results!Chain!RevealVote
  <2>2. reveal \in Reveals
    <3>1. i \in 0..MaxU32
      BY <1>0
    <3>2. encryptedVotes[i].vote_hash = 1
      BY DEF Results!Ballot
    <3>3. QED
      BY <3>1, <3>2 DEF Reveals
  <2> HIDE DEF reveal
  <2>3. revealLog' \in Seq(Reveals)
    BY <2>1, <2>2
  <2>4. tally' \in [Results!Candidates -> 0..MaxU32]
    BY <1>0, <1>1, <2>1
  <2>5. \A d \in Results!Candidates : tally[d] <= tally'[d]
    <3>0. tally \in [Results!Candidates -> 0..MaxU32]
      OBVIOUS
    <3> HIDE DEF Counting
    <3>1. \A d \in Results!Candidates :
            tally'[d] \in {tally[d], Results!Chain!SaturatingInc(tally[d], MaxU32)}
      BY <2>1, <3>0
    <3>2. QED
      BY <1>0, <1>1, <3>1
  <2>6. QED
    BY <1>0, <1>1, <2>1, <2>3, <2>4, <2>5 DEF Reveals
<1>4. CASE Results!Finalize
  <2>1. /\ UNCHANGED <<encryptedVotes, voteCounter, hasVoted, tally, revealedCount, revealLog>>
        /\ currentPhase' = "TallyComplete"
    BY <1>4 DEF Results!Finalize, Results!Chain!FinalizeTally
  <2>2. QED
    BY <1>0, <2>1 DEF Reveals
<1>5. CASE UNCHANGED resultsVars
  BY <1>2, <1>5 DEF resultsVars, Results!chain
<1>6. QED
  BY <1>2, <1>3, <1>4, <1>5 DEF Results!Next, Results!DjangoEnds, Results!Connect,
     Results!Open, Results!Close, Results!Poll, Results!Answer, Results!Arrive, Results!Fail

-----------------------------------------------------------------------------
(* What a page shows and its polls hold is behind the chain after a step,  *)
(* if it is behind the chain before it.                                    *)
LEMMA StillBehind ==
  ASSUME Counting, Results!Next \/ UNCHANGED resultsVars
  PROVE  /\ \A q \in Polls : PollBehind(q) => PollBehind(q)'
         /\ \A g \in Pages : PageBehind(g) => PageBehind(g)'
<1>1. /\ voteCounter' = voteCounter /\ revealedCount <= revealedCount'
      /\ \A c \in Results!Candidates : tally[c] <= tally'[c]
      /\ \A c \in Results!Candidates : tally[c] \in Nat /\ tally'[c] \in Nat
      /\ revealedCount \in Nat /\ revealedCount' \in Nat
  <2>1. Counting'
    BY CountingStep
  <2>2. MaxU32 \in Nat
    BY PagesConstants DEF Results!ResultsConstants
  <2>3. /\ tally \in [Results!Candidates -> 0..MaxU32] /\ revealedCount \in 0..MaxU32
        /\ tally' \in [Results!Candidates -> 0..MaxU32] /\ revealedCount' \in 0..MaxU32
    BY <2>1 DEF Counting
  <2>4. QED
    BY <2>2, <2>3, CountingStep
<1>2. ASSUME NEW counts \in Tallies, Behind(counts)
      PROVE  Behind(counts)'
  <2>1. MaxU32 \in Nat
    BY PagesConstants DEF Results!ResultsConstants
  <2>2. \A c \in Results!Candidates : counts[c] \in Nat
    BY <2>1 DEF Tallies
  <2>3. QED
    BY <1>1, <1>2, <2>2 DEF Behind
<1>3. ASSUME NEW q \in Polls, PollBehind(q)
      PROVE  PollBehind(q)'
  <2>1. q.value \in Nat /\ q.tallyData \in Tallies /\ q.at \in 1..Results!LastQuery
    BY PagesConstants DEF Results!ResultsConstants, Polls
  <2>2. Behind(q.tallyData)'
    BY <1>2, <1>3, <2>1 DEF PollBehind
  <2>3. q.at > 2 => Results!CandidateAt(q.at) \in Results!Candidates
    BY <2>1, Queries
  <2>4. q.answered /\ q.at > 2 => q.value <= tally'[Results!CandidateAt(q.at)]
    <3> DEFINE c == Results!CandidateAt(q.at)
    <3>1. q.answered /\ q.at > 2 => q.value <= tally[c]
      BY <1>3 DEF PollBehind
    <3> HIDE DEF c
    <3>2. QED
      BY <1>1, <2>1, <2>3, <3>1 DEF c
  <2>5. /\ q.answered /\ q.at = 1 => q.value = voteCounter'
        /\ q.answered /\ q.at = 2 => q.value <= revealedCount'
    BY <1>1, <1>3, <2>1 DEF PollBehind
  <2>6. QED
    BY <2>2, <2>4, <2>5 DEF PollBehind, Results!CandidateAt
<1>4. ASSUME NEW g \in Pages, PageBehind(g)
      PROVE  PageBehind(g)'
  <2>1. g.revealed \in Nat /\ g.tally \in Tallies
    BY PagesConstants DEF Results!ResultsConstants, Pages
  <2>2. Behind(g.tally)'
    BY <1>2, <1>4, <2>1 DEF PageBehind
  <2>3. QED
    BY <1>1, <1>4, <2>1, <2>2 DEF PageBehind
<1>5. QED
  BY <1>3, <1>4

(* What is left when a poll is over.                                       *)
LEMMA RemovedAt ==
  ASSUME NEW S, NEW s \in Seq(S), NEW i \in DOMAIN s
  PROVE  /\ Results!RemoveAt(s, i) \in Seq(S)
         /\ \A j \in DOMAIN Results!RemoveAt(s, i) :
              \E k \in DOMAIN s : Results!RemoveAt(s, i)[j] = s[k]
<1> DEFINE t == SubSeq(s, 1, i - 1)
           u == SubSeq(s, i + 1, Len(s))
<1>1. i \in 1..Len(s) /\ Len(s) \in Nat /\ DOMAIN s = 1..Len(s)
  OBVIOUS
<1>2. t \in Seq(S) /\ Len(t) = i - 1 /\ \A j \in 1..Len(t) : j \in 1..Len(s) /\ t[j] = s[j]
  BY <1>1
<1>3. u \in Seq(S) /\ Len(u) = Len(s) - i
      /\ \A j \in 1..Len(u) : i + j \in 1..Len(s) /\ u[j] = s[i + j]
  BY <1>1, SMTT(30)
<1> HIDE DEF t, u
<1>4. /\ t \o u \in Seq(S) /\ Len(t \o u) = Len(t) + Len(u) /\ DOMAIN (t \o u) = 1..(Len(t) + Len(u))
      /\ \A j \in 1..(Len(t) + Len(u)) : (t \o u)[j] = IF j <= Len(t) THEN t[j] ELSE u[j - Len(t)]
  <2>1. /\ t \o u \in Seq(S) /\ Len(t \o u) = Len(t) + Len(u)
        /\ \A j \in 1..(Len(t) + Len(u)) : (t \o u)[j] = IF j <= Len(t) THEN t[j] ELSE u[j - Len(t)]
    BY <1>2, <1>3, ConcatProperties
  <2>2. DOMAIN (t \o u) = 1..Len(t \o u)
    BY <2>1, LenProperties
  <2>3. QED
    BY <2>1, <2>2
<1>5. ASSUME NEW j \in DOMAIN (t \o u)
      PROVE  \E k \in DOMAIN s : (t \o u)[j] = s[k]
  <2>0. j \in Nat /\ Len(t) \in Nat /\ Len(u) \in Nat /\ j >= 1 /\ j <= Len(t) + Len(u)
    BY <1>1, <1>2, <1>3, <1>4
  <2>1. CASE j <= Len(t)
    <3>1. j \in 1..Len(t) /\ (t \o u)[j] = t[j]
      BY <1>4, <2>0, <2>1
    <3>2. QED
      BY <1>1, <1>2, <3>1
  <2>2. CASE ~ (j <= Len(t))
    <3>1. j - Len(t) \in 1..Len(u) /\ (t \o u)[j] = u[j - Len(t)]
      BY <1>4, <2>0, <2>2
    <3>2. QED
      BY <1>1, <1>3, <3>1
  <2>3. QED
    BY <2>1, <2>2
<1>6. Results!RemoveAt(s, i) = t \o u
  BY DEF Results!RemoveAt, t, u
<1>7. QED
  BY <1>4, <1>5, <1>6

(* A poll that is begun, answered or told, and the page it tells.          *)
LEMMA NothingYet ==
  /\ Results!NoTally \in Tallies /\ Results!NewPoll \in Polls /\ Results!Closed \in Pages
  /\ Counting => PollBehind(Results!NewPoll) /\ PageBehind(Results!Closed)
<1>1. MaxU32 \in Nat /\ 0 \in 0..MaxU32 /\ 1 \in 1..Results!LastQuery
  BY PagesConstants, Queries DEF Results!ResultsConstants
<1>2. Results!NoTally \in Tallies
  BY <1>1 DEF Results!NoTally, Tallies
<1>3. Results!NewPoll \in Polls /\ Results!Closed \in Pages
  BY <1>1, <1>2 DEF Results!NewPoll, Polls, Results!Closed, Pages
<1>4. ASSUME Counting PROVE Behind(Results!NoTally)
  BY <1>1, <1>4 DEF Counting, Behind, Results!NoTally
<1>5. ASSUME Counting PROVE PollBehind(Results!NewPoll) /\ PageBehind(Results!Closed)
  BY <1>1, <1>4, <1>5 DEF PollBehind, PageBehind, Results!NewPoll, Results!Closed, Counting
<1>6. QED
  BY <1>2, <1>3, <1>5

LEMMA Answered ==
  ASSUME Counting, NEW poll \in Polls, PollBehind(poll)
  PROVE  LET told == [poll EXCEPT !.answered = TRUE, !.value = Results!Current(poll.at)]
         IN  told \in Polls /\ PollBehind(told)
<1> DEFINE now == Results!Current(poll.at)
           told == [poll EXCEPT !.answered = TRUE, !.value = now]
<1>1. poll.at \in 1..Results!LastQuery /\ Results!LastQuery \in Nat
  BY Queries DEF Polls
<1>2. /\ poll.at = 1 => now = voteCounter
      /\ poll.at = 2 => now = revealedCount
      /\ poll.at > 2 => now = tally[Results!CandidateAt(poll.at)]
  BY <1>1 DEF Results!Current
<1>3. poll.at > 2 => Results!CandidateAt(poll.at) \in Results!Candidates
  BY <1>1, Queries
<1>4. now \in 0..MaxU32
  <2>1. poll.at = 1 \/ poll.at = 2 \/ poll.at > 2
    BY <1>1
  <2>2. QED
    BY <1>2, <1>3, <2>1 DEF Counting
<1> HIDE DEF now
<1>5. told \in Polls /\ told.at = poll.at /\ told.value = now
      /\ told.tallyData = poll.tallyData
  BY <1>4 DEF Polls
<1>6. now \in Nat
  BY <1>4, PagesConstants DEF Results!ResultsConstants
<1>7. PollBehind(told)
  BY <1>2, <1>5, <1>6 DEF PollBehind
<1>8. QED
  BY <1>5, <1>7 DEF now

(* What an answer adds to the tally a poll gathers.                        *)
LEMMA Gathered ==
  ASSUME Counting, NEW poll \in Polls, PollBehind(poll), poll.answered, poll.at > 2
  PROVE  LET more == [poll.tallyData EXCEPT ![Results!CandidateAt(poll.at)] = poll.value]
         IN  more \in Tallies /\ Behind(more)
<1> DEFINE c == Results!CandidateAt(poll.at)
           more == [poll.tallyData EXCEPT ![c] = poll.value]
<1>1. poll.tallyData \in Tallies /\ poll.value \in 0..MaxU32
  BY DEF Polls
<1>2. poll.value <= tally[c] /\ Behind(poll.tallyData)
  BY DEF PollBehind
<1> HIDE DEF c
<1>3. more \in Tallies
  BY <1>1 DEF Tallies
<1>4. Behind(more)
  BY <1>1, <1>2 DEF Tallies, Behind
<1>5. QED
  BY <1>3, <1>4 DEF c

(* What the polls hold after a step is behind the chain before it.         *)
Sound(some) == some \in Seq(Polls) /\ \A k \in DOMAIN some : PollBehind(some[k])

LEMMA OneReplaced ==
  ASSUME Sound(polls), NEW p \in DOMAIN polls, NEW poll \in Polls, PollBehind(poll),
         polls' = [polls EXCEPT ![p] = poll]
  PROVE  Sound(polls')
<1>1. DOMAIN polls' = DOMAIN polls
  OBVIOUS
<1>2. \A k \in DOMAIN polls : polls'[k] = IF k = p THEN poll ELSE polls[k]
  OBVIOUS
<1>3. polls' \in Seq(Polls)
  BY DEF Sound
<1>4. QED
  BY <1>1, <1>2, <1>3 DEF Sound

LEMMA OneRemoved ==
  ASSUME Sound(polls), NEW p \in DOMAIN polls, polls' = Results!RemoveAt(polls, p)
  PROVE  Sound(polls')
<1>1. polls \in Seq(Polls)
  BY DEF Sound
<1>2. /\ polls' \in Seq(Polls)
      /\ \A j \in DOMAIN polls' : \E k \in DOMAIN polls : polls'[j] = polls[k]
  BY <1>1, RemovedAt
<1>3. QED
  BY <1>2 DEF Sound

LEMMA PollsStep ==
  ASSUME ResultsInv, Results!Next \/ UNCHANGED resultsVars
  PROVE  Sound(polls')
<1>0. Sound(polls) /\ Counting
  BY DEF ResultsInv, PageTypes, AllBehind, Sound
<1>1. CASE UNCHANGED polls
  BY <1>0, <1>1 DEF Sound
<1>2. CASE Results!Close
  <2>1. polls' = << >>
    BY <1>2 DEF Results!Close
  <2>2. QED
    BY <2>1 DEF Sound
<1>3. CASE Results!Poll
  <2>1. polls' = Append(polls, Results!NewPoll) /\ polls \in Seq(Polls)
    BY <1>0, <1>3 DEF Results!Poll, Sound
  <2>2. Results!NewPoll \in Polls /\ PollBehind(Results!NewPoll)
    BY <1>0, NothingYet
  <2>3. polls' \in Seq(Polls)
    BY <2>1, <2>2
  <2>4. ASSUME NEW k \in DOMAIN polls'
        PROVE  polls'[k] = Results!NewPoll \/ (k \in DOMAIN polls /\ polls'[k] = polls[k])
    BY <2>1, <2>2
  <2>5. QED
    BY <1>0, <2>2, <2>3, <2>4 DEF Sound
<1>4. ASSUME NEW p \in DOMAIN polls, Results!Answer(p)
      PROVE  Sound(polls')
  <2>1. PICK poll \in Polls : poll = polls[p] /\ PollBehind(poll)
    BY <1>0 DEF Sound
  <2> DEFINE told == [poll EXCEPT !.answered = TRUE, !.value = Results!Current(poll.at)]
  <2>2. told \in Polls /\ PollBehind(told)
    BY <1>0, <2>1, Answered
  <2>3. polls' = [polls EXCEPT ![p] = told]
    BY <1>4, <2>1 DEF Results!Answer
  <2> HIDE DEF told
  <2>4. QED
    BY <1>0, <2>2, <2>3, OneReplaced
<1>5. ASSUME NEW p \in DOMAIN polls, Results!Arrive(p)
      PROVE  Sound(polls')
  <2>1. PICK poll \in Polls : poll = polls[p] /\ PollBehind(poll)
    BY <1>0 DEF Sound
  <2>2. CASE poll.at = Results!LastQuery
    <3>1. polls' = Results!RemoveAt(polls, p)
      BY <1>5, <2>1, <2>2 DEF Results!Arrive
    <3>2. QED
      BY <1>0, <3>1, OneRemoved
  <2>3. CASE poll.at # Results!LastQuery
    <3> DEFINE more == IF poll.at > 2
                       THEN [poll.tallyData EXCEPT ![Results!CandidateAt(poll.at)] = poll.value]
                       ELSE poll.tallyData
               next == [poll EXCEPT !.at = poll.at + 1, !.answered = FALSE, !.value = 0,
                                    !.tallyData = more]
    <3>1. more \in Tallies /\ Behind(more)
      <4>1. poll.answered
        BY <1>5, <2>1 DEF Results!Arrive
      <4>2. poll.tallyData \in Tallies /\ Behind(poll.tallyData)
        BY <2>1 DEF Polls, PollBehind
      <4>3. QED
        BY <1>0, <2>1, <4>1, <4>2, Gathered
    <3>2. polls' = [polls EXCEPT ![p] = next]
      BY <1>5, <2>1, <2>3 DEF Results!Arrive, Results!NextQuery, Results!Received
    <3> HIDE DEF more
    <3>3. poll.at + 1 \in 1..Results!LastQuery /\ 0 \in 0..MaxU32
      BY <2>3, Queries, PagesConstants DEF Polls, Results!ResultsConstants
    <3>4. next \in Polls
      BY <3>1, <3>3 DEF Polls
    <3>5. PollBehind(next)
      BY <3>1 DEF PollBehind, Polls
    <3> HIDE DEF next
    <3>6. QED
      BY <1>0, <3>2, <3>4, <3>5, OneReplaced
  <2>4. QED
    BY <2>2, <2>3
<1>6. ASSUME NEW p \in DOMAIN polls, Results!Fail(p)
      PROVE  Sound(polls')
  <2>1. polls' = Results!RemoveAt(polls, p)
    BY <1>6 DEF Results!Fail
  <2>2. QED
    BY <1>0, <2>1, OneRemoved
<1>7. QED
  <2>1. Results!Connect \/ Results!Open \/ Results!Finalize \/ Results!DjangoEnds
        \/ UNCHANGED resultsVars => UNCHANGED polls
    BY DEF Results!Connect, Results!Open, Results!Finalize, Results!DjangoEnds, resultsVars
  <2>2. \A i, c : Results!Reveal(i, c) => UNCHANGED polls
    BY DEF Results!Reveal
  <2>3. QED
    BY <1>1, <1>2, <1>3, <1>4, <1>5, <1>6, <2>1, <2>2 DEF Results!Next

(* So is what the page shows.                                              *)
LEMMA PageStep ==
  ASSUME ResultsInv, Results!Next \/ UNCHANGED resultsVars
  PROVE  page' \in Pages /\ PageBehind(page')
<1>0. Counting /\ page \in Pages /\ PageBehind(page) /\ MaxU32 \in Nat
  BY PagesConstants DEF ResultsInv, PageTypes, AllBehind, Results!ResultsConstants
<1>1. CASE UNCHANGED page
  BY <1>0, <1>1 DEF PageBehind
<1>2. CASE Results!Close
  <2>1. page' = Results!Closed
    BY <1>2 DEF Results!Close
  <2>2. QED
    BY <1>0, <2>1, NothingYet
<1>3. CASE Results!Open
  <2>1. PICK status \in {django, "none"}, listed \in BOOLEAN :
          page' = [page EXCEPT !.pc = IF status = "ended" THEN "results" ELSE "waiting",
                               !.listed = listed]
    BY <1>3 DEF Results!Open
  <2>2. page' \in Pages /\ page'.total = page.total /\ page'.revealed = page.revealed
        /\ page'.tally = page.tally
    BY <1>0, <2>1 DEF Pages
  <2>3. QED
    BY <1>0, <2>2 DEF PageBehind
<1>4. ASSUME NEW p \in DOMAIN polls, Results!Arrive(p)
      PROVE  page' \in Pages /\ PageBehind(page')
  <2>1. PICK poll \in Polls : poll = polls[p] /\ PollBehind(poll) /\ poll.answered
    BY <1>4 DEF ResultsInv, PageTypes, AllBehind, Results!Arrive
  <2>2. page' = Results!Shown(p)
    BY <1>4 DEF Results!Arrive
  <2>3. poll.value \in 0..MaxU32 /\ poll.at \in 1..Results!LastQuery
    BY DEF Polls
  <2>4. CASE poll.at = 1
    <3>1. page' = [page EXCEPT !.total = poll.value]
      BY <2>1, <2>2, <2>4, Queries DEF Results!Shown
    <3>2. page' \in Pages /\ page'.total = poll.value /\ page'.revealed = page.revealed
          /\ page'.tally = page.tally
      BY <1>0, <2>3, <3>1 DEF Pages
    <3>3. QED
      BY <1>0, <2>1, <2>4, <3>2 DEF PageBehind, PollBehind
  <2>5. CASE poll.at = 2
    <3>1. page' = [page EXCEPT !.revealed = poll.value]
      BY <2>1, <2>2, <2>5, Queries DEF Results!Shown
    <3>2. page' \in Pages /\ page'.total = page.total /\ page'.revealed = poll.value
          /\ page'.tally = page.tally
      BY <1>0, <2>3, <3>1 DEF Pages
    <3>3. QED
      BY <1>0, <2>1, <2>5, <3>2 DEF PageBehind, PollBehind
  <2>6. CASE poll.at = Results!LastQuery
    <3> DEFINE more == [poll.tallyData EXCEPT ![Results!CandidateAt(poll.at)] = poll.value]
    <3>1. poll.at > 2
      BY <2>6, Queries
    <3>2. more \in Tallies /\ Behind(more)
      BY <1>0, <2>1, <3>1, Gathered
    <3>3. page' = [page EXCEPT !.tally = more]
      BY <2>1, <2>2, <2>6, Queries DEF Results!Shown, Results!Received
    <3> HIDE DEF more
    <3>4. page' \in Pages /\ page'.total = page.total /\ page'.revealed = page.revealed
          /\ page'.tally = more
      BY <1>0, <3>2, <3>3 DEF Pages
    <3>5. QED
      BY <1>0, <3>2, <3>4 DEF PageBehind
  <2>7. CASE poll.at \notin {1, 2, Results!LastQuery}
    BY <1>1, <2>1, <2>2, <2>7 DEF Results!Shown
  <2>8. QED
    BY <2>4, <2>5, <2>6, <2>7
<1>5. QED
  <2>1. Results!Connect \/ Results!Poll \/ Results!Finalize \/ Results!DjangoEnds
        \/ UNCHANGED resultsVars => UNCHANGED page
    BY DEF Results!Connect, Results!Poll, Results!Finalize, Results!DjangoEnds, resultsVars
  <2>2. /\ \A i, c : Results!Reveal(i, c) => UNCHANGED page
        /\ \A p : Results!Answer(p) \/ Results!Fail(p) => UNCHANGED page
    BY DEF Results!Reveal, Results!Answer, Results!Fail
  <2>3. QED
    BY <1>1, <1>2, <1>3, <1>4, <2>1, <2>2 DEF Results!Next

LEMMA ResultsInvInit == Init => ResultsInv
<1> SUFFICES ASSUME Init PROVE ResultsInv
  OBVIOUS
<1> USE DEF Init, Results!Init
<1>1. MaxU32 \in Nat \ {0} /\ IsFiniteSet(Voters) /\ Cardinality(Voters) <= MaxU32
  BY PagesConstants DEF Results!ResultsConstants, Results!IsFiniteSet, IsFiniteSet,
     Results!Cardinality, Cardinality
<1>2. voteCounter \in 0..MaxU32
  <2>1. hasVoted \subseteq Voters /\ voteCounter = Cardinality(hasVoted)
    BY DEF Results!Cardinality, Cardinality
  <2>2. Cardinality(hasVoted) \in Nat /\ Cardinality(hasVoted) <= Cardinality(Voters)
        /\ Cardinality(Voters) \in Nat
    BY <1>1, <2>1, FS_Subset, FS_CardinalityType
  <2>3. QED
    BY <1>1, <2>1, <2>2
<1>3. Counting
  <2>1. tally \in [Results!Candidates -> 0..MaxU32]
    BY <1>1 DEF Results!NoTally
  <2>2. QED
    BY <1>1, <1>2, <2>1 DEF Counting
<1>4. PageTypes
  <2>1. polls \in Seq(Polls)
    OBVIOUS
  <2>2. QED
    BY <2>1, NothingYet DEF PageTypes
<1>5. AllBehind
  BY <1>3, NothingYet DEF AllBehind
<1>6. QED
  BY <1>3, <1>4, <1>5 DEF ResultsInv

LEMMA ResultsInvStep ==
  ASSUME ResultsInv, Results!Next \/ UNCHANGED resultsVars
  PROVE  ResultsInv'
<1>1. Counting' /\ Counting
  BY CountingStep DEF ResultsInv
<1>2. Sound(polls') /\ page' \in Pages /\ PageBehind(page')
  BY PollsStep, PageStep
<1>3. PageTypes'
  <2>1. polls' \in Seq(Polls)
    BY <1>2 DEF Sound
  <2>2. django' \in {"active", "ended"} /\ api' \in BOOLEAN /\ orderly' \in BOOLEAN
    BY DEF ResultsInv, PageTypes, resultsVars, Results!Next, Results!Reveal,
       Results!Finalize, Results!DjangoEnds, Results!Connect, Results!Open,
       Results!Close, Results!Poll, Results!Answer, Results!Arrive, Results!Fail
  <2>3. QED
    BY <1>2, <2>1, <2>2 DEF PageTypes, Pages, Polls, Tallies
<1>4. PageBehind(page)'
  <2>1. PICK g \in Pages : g = page' /\ PageBehind(g)
    BY <1>2
  <2>2. PageBehind(g)'
    BY <1>1, <2>1, StillBehind
  <2>3. QED
    BY <2>1, <2>2 DEF PageBehind, Behind
<1>5. ASSUME NEW p \in DOMAIN polls'
      PROVE  PollBehind(polls[p])'
  <2>1. PICK q \in Polls : q = polls'[p] /\ PollBehind(q)
    BY <1>2 DEF Sound
  <2>2. PollBehind(q)'
    BY <1>1, <2>1, StillBehind
  <2>3. QED
    BY <2>1, <2>2 DEF PollBehind, Behind
<1>6. QED
  BY <1>1, <1>3, <1>4, <1>5 DEF ResultsInv, AllBehind

LEMMA ResultsInvariant == Spec => []ResultsInv
<1>1. ResultsInv /\ [Next]_vars => ResultsInv'
  BY ResultsInvStep, VisitSteps
<1>2. QED
  BY <1>1, ResultsInvInit, PTL DEF Spec

(* The results page never shows more counted votes than the chain has, and *)
(* no winners before as many votes were revealed as were cast, however     *)
(* many polls overlap, fail or arrive out of order.                        *)
THEOREM PagesNeverAhead == Spec => []NeverAhead
<1>1. ResultsInv => NeverAhead
  <2> SUFFICES ASSUME ResultsInv PROVE NeverAhead
    OBVIOUS
  <2>1. /\ page.total \in {0, voteCounter} /\ page.revealed <= revealedCount
        /\ \A c \in Results!Candidates : page.tally[c] <= tally[c]
    BY DEF ResultsInv, AllBehind, PageBehind, Behind
  <2>2. voteCounter \in Nat /\ revealedCount \in Nat
    BY PagesConstants DEF ResultsInv, Counting, Results!ResultsConstants
  <2>3. Results!isElectionFinished => revealedCount >= voteCounter
    BY <2>1, <2>2 DEF Results!isElectionFinished
  <2>4. QED
    BY <2>1, <2>3 DEF NeverAhead, Results!NeverAhead
<1>2. QED
  BY <1>1, ResultsInvariant, PTL

-----------------------------------------------------------------------------
(* The explorer.  The chain grows, and what was a block stays one.         *)
ExplorerStepOrNot == Explorer!Next \/ UNCHANGED explorerVars

LEMMA HeadGrows ==
  ASSUME ExplorerTypes, ExplorerStepOrNot
  PROVE  /\ head' \in 1..MaxHead /\ head <= head' /\ head \in Nat /\ head' \in Nat
         /\ Rows \subseteq Rows' /\ Links \subseteq Links'
<1>1. MaxHead \in Nat
  BY PagesConstants DEF Explorer!ExplorerConstants
<1>2. head' = head \/ (head < MaxHead /\ head' = head + 1)
  BY DEF ExplorerStepOrNot, explorerVars, Explorer!Next, Explorer!NewBlock, Explorer!Mount,
     Explorer!Reconnect, Explorer!Leave, Explorer!LinkStep, Explorer!Created,
     Explorer!NewHead, Explorer!Fetched, Explorer!CreateFails, Explorer!LoseLink,
     Explorer!Unmark
<1>3. head' \in 1..MaxHead /\ head <= head' /\ head \in Nat /\ head' \in Nat
  BY <1>1, <1>2 DEF ExplorerTypes
<1>4. 1..head \subseteq 1..head' /\ 0..head \subseteq 0..head'
  BY <1>3
<1>5. Rows \subseteq Rows'
  BY <1>4 DEF Rows, Heads
<1>6. Links \subseteq Links'
  BY <1>4 DEF Links, Heads
<1>7. QED
  BY <1>3, <1>5, <1>6

(* The head a subscription tells is a block later than the last it told.   *)
Told(l) == IF links[l].steady THEN links[l].seen + 1 ELSE head

LEMMA TellsNext ==
  ASSUME ExplorerTypes, NEW l \in DOMAIN links, links[l].seen < head
  PROVE  /\ Told(l) \in Heads /\ Told(l) \in 0..head /\ Told(l) > links[l].seen
         /\ links[l].seen \in Nat
<1>1. links[l] \in Links /\ head \in Nat
  BY PagesConstants DEF ExplorerTypes, Explorer!ExplorerConstants
<1>2. links[l].seen \in 0..head
  BY <1>1 DEF Links
<1>3. QED
  BY <1>1, <1>2 DEF Told, Heads

(* What a step makes of a connection is one.                               *)
LEMMA LinkFields ==
  ASSUME NEW link \in Links
  PROVE  /\ \A pc \in {"over", "asking"} : [link EXCEPT !.pc = pc] \in Links
         /\ [link EXCEPT !.steady = FALSE] \in Links
         /\ \A told \in Heads \cap (0..head) :
              [link EXCEPT !.pc = "live", !.seen = told, !.steady = TRUE,
                           !.fetching = link.fetching \cup {told}] \in Links
         /\ \A n : [link EXCEPT !.fetching = link.fetching \ {n}] \in Links
<1>1. link.fetching \subseteq Heads
  BY DEF Links
<1>2. /\ \A told \in Heads : link.fetching \cup {told} \in SUBSET Heads
      /\ \A n : link.fetching \ {n} \in SUBSET Heads
  BY <1>1
<1> HIDE DEF Heads
<1>3. \A pc \in {"over", "asking"} : [link EXCEPT !.pc = pc] \in Links
  BY DEF Links
<1>4. [link EXCEPT !.steady = FALSE] \in Links
  BY DEF Links
<1>5. ASSUME NEW told \in Heads \cap (0..head)
      PROVE  [link EXCEPT !.pc = "live", !.seen = told, !.steady = TRUE,
                          !.fetching = link.fetching \cup {told}] \in Links
  BY <1>2 DEF Links
<1>6. \A n : [link EXCEPT !.fetching = link.fetching \ {n}] \in Links
  BY <1>2 DEF Links
<1>7. QED
  BY <1>3, <1>4, <1>5, <1>6

LEMMA NewLinkTyped == ASSUME ExplorerTypes PROVE Explorer!NewLink \in Links
<1>1. 0 \in 0..head
  BY PagesConstants DEF ExplorerTypes, Explorer!ExplorerConstants
<1>2. QED
  BY <1>1 DEF Explorer!NewLink, Links, Heads

LEMMA LinksStep ==
  ASSUME ExplorerTypes, ExplorerStepOrNot
  PROVE  links' \in Seq(Links) /\ Len(links) <= Len(links')
<1> DEFINE Kept(new) == new \in [1..Len(links) -> Links]
<1>0. /\ links \in Seq(Links) /\ Len(links) \in Nat /\ DOMAIN links = 1..Len(links)
      /\ \A l \in DOMAIN links : links[l] \in Links
  BY DEF ExplorerTypes
<1>1. ASSUME NEW new, Kept(new), links' = new
      PROVE  links' \in Seq(Links) /\ Len(links) <= Len(links')
  BY <1>0, <1>1
<1>2. CASE UNCHANGED links
  BY <1>0, <1>2
<1>3. CASE Explorer!Mount
  <2>1. links' \in {<<Explorer!NewLink, Explorer!NewLink>>, <<Explorer!NewLink>>}
        /\ links = << >>
    BY <1>3 DEF Explorer!Mount
  <2>2. Len(links) = 0
    BY <2>1
  <2>3. Explorer!NewLink \in Links
    BY NewLinkTyped
  <2>4. CASE links' = <<Explorer!NewLink>>
    <3>1. links' \in Seq(Links) /\ Len(links') = 1
      BY <2>3, <2>4
    <3>2. QED
      BY <2>2, <3>1
  <2>5. CASE links' = <<Explorer!NewLink, Explorer!NewLink>>
    <3>1. links' \in Seq(Links) /\ Len(links') = 2
      BY <2>3, <2>5
    <3>2. QED
      BY <2>2, <3>1
  <2>6. QED
    BY <2>1, <2>4, <2>5
<1>4. CASE Explorer!Reconnect
  <2>1. links' = Append(links, Explorer!NewLink)
    BY <1>4 DEF Explorer!Reconnect
  <2>2. QED
    BY <1>0, <2>1, NewLinkTyped
<1>5. CASE Explorer!Leave
  <2> DEFINE new == [l \in DOMAIN links |-> IF l \in {apiRef, unsubRef}
                                           THEN Explorer!Stopped(l) ELSE links[l]]
  <2>1. links' = new
    BY <1>5 DEF Explorer!Leave
  <2>2. \A l \in DOMAIN links : Explorer!Stopped(l) \in Links
    BY <1>0, LinkFields DEF Explorer!Stopped
  <2>3. Kept(new)
    BY <1>0, <2>2
  <2> HIDE DEF new, Kept
  <2>4. QED
    BY <1>1, <2>1, <2>3
<1>6. ASSUME NEW l \in DOMAIN links, Explorer!Created(l)
      PROVE  links' \in Seq(Links) /\ Len(links) <= Len(links')
  <2> DEFINE new == [k \in DOMAIN links |->
                       IF k = l THEN [links[l] EXCEPT !.pc = "asking"]
                       ELSE IF k = unsubRef THEN Explorer!Stopped(k) ELSE links[k]]
  <2>1. links' = new
    BY <1>6 DEF Explorer!Created
  <2>2. \A k \in DOMAIN links : Explorer!Stopped(k) \in Links
    BY <1>0, LinkFields DEF Explorer!Stopped
  <2>3. [links[l] EXCEPT !.pc = "asking"] \in Links
    BY <1>0, LinkFields
  <2>4. Kept(new)
    BY <1>0, <2>2, <2>3
  <2> HIDE DEF new, Kept
  <2>5. QED
    BY <1>1, <2>1, <2>4
<1>7. ASSUME NEW l \in DOMAIN links, NEW link \in Links, links' = [links EXCEPT ![l] = link]
      PROVE  links' \in Seq(Links) /\ Len(links) <= Len(links')
  <2>1. Kept([links EXCEPT ![l] = link])
    BY <1>0
  <2> HIDE DEF Kept
  <2>2. QED
    BY <1>1, <1>7, <2>1
<1>8. ASSUME NEW l \in DOMAIN links, Explorer!CreateFails(l)
      PROVE  links' \in Seq(Links) /\ Len(links) <= Len(links')
  <2>1. links' = [links EXCEPT ![l] = [links[l] EXCEPT !.pc = "over"]]
    BY <1>0, <1>8 DEF Explorer!CreateFails
  <2>2. QED
    BY <1>0, <1>7, <2>1, LinkFields
<1>9. ASSUME NEW l \in DOMAIN links, Explorer!LoseLink(l)
      PROVE  links' \in Seq(Links) /\ Len(links) <= Len(links')
  <2>1. links' = [links EXCEPT ![l] = [links[l] EXCEPT !.steady = FALSE]]
    BY <1>0, <1>9 DEF Explorer!LoseLink
  <2>2. QED
    BY <1>0, <1>7, <2>1, LinkFields
<1>10. ASSUME NEW l \in DOMAIN links, NEW n, Explorer!Fetched(l, n)
       PROVE  links' \in Seq(Links) /\ Len(links) <= Len(links')
  <2>1. links' = [links EXCEPT ![l] = [links[l] EXCEPT !.fetching = links[l].fetching \ {n}]]
    BY <1>0, <1>10 DEF Explorer!Fetched
  <2>2. QED
    BY <1>0, <1>7, <2>1, LinkFields
<1>11. ASSUME NEW l \in DOMAIN links, Explorer!NewHead(l)
       PROVE  links' \in Seq(Links) /\ Len(links) <= Len(links')
  <2> DEFINE told == Told(l)
             link == [links[l] EXCEPT !.pc = "live", !.seen = told, !.steady = TRUE,
                                      !.fetching = links[l].fetching \cup {told}]
  <2>1. links' = [links EXCEPT ![l] = link]
    BY <1>0, <1>11 DEF Explorer!NewHead, Told
  <2>2. told \in Heads \cap (0..head)
    BY <1>11, TellsNext DEF Explorer!NewHead
  <2> HIDE DEF told
  <2>3. link \in Links
    BY <1>0, <2>2, LinkFields
  <2> HIDE DEF link
  <2>4. QED
    BY <1>7, <2>1, <2>3
<1>12. QED
  <2>1. \/ Explorer!NewBlock \/ UNCHANGED explorerVars \/ \E n \in 1..MaxHead : Explorer!Unmark(n)
        => UNCHANGED links
    BY DEF Explorer!NewBlock, explorerVars, Explorer!Unmark
  <2> HIDE DEF Kept
  <2>2. QED
    BY <1>2, <1>3, <1>4, <1>5, <1>6, <1>8, <1>9, <1>10, <1>11, <2>1
    DEF ExplorerStepOrNot, Explorer!Next, Explorer!LinkStep

(* A row that comes in front, with the last one pushed out when there is   *)
(* no room for it.                                                         *)
Pushed(n) == <<Explorer!Row(n)>> \o
               IF Len(blocks) < MAX_BLOCKS THEN blocks ELSE Explorer!Front(blocks)

LEMMA RowPushed ==
  ASSUME ExplorerTypes, NEW n \in Heads
  PROVE  /\ Pushed(n) \in Seq(Rows) /\ Len(Pushed(n)) <= MAX_BLOCKS
         /\ Len(Pushed(n)) <= Len(blocks) + 1 /\ Len(blocks) \in Nat
         /\ DOMAIN Pushed(n) = 1..Len(Pushed(n)) /\ Len(Pushed(n)) \in Nat \ {0}
         /\ Pushed(n)[1] = Explorer!Row(n)
         /\ \A i \in DOMAIN Pushed(n) : i > 1 =>
              i - 1 \in DOMAIN blocks /\ Pushed(n)[i] = blocks[i - 1]
         /\ \A i \in DOMAIN blocks : i < MAX_BLOCKS =>
              i + 1 \in DOMAIN Pushed(n) /\ Pushed(n)[i + 1] = blocks[i]
<1> DEFINE row == Explorer!Row(n)
           kept == IF Len(blocks) < MAX_BLOCKS THEN blocks ELSE Explorer!Front(blocks)
<1>1. /\ MAX_BLOCKS \in Nat \ {0} /\ blocks \in Seq(Rows) /\ Len(blocks) <= MAX_BLOCKS
      /\ Len(blocks) \in Nat /\ DOMAIN blocks = 1..Len(blocks)
  BY PagesConstants DEF ExplorerTypes, Explorer!ExplorerConstants
<1>2. row \in Rows
  BY DEF Explorer!Row, Rows
<1> HIDE DEF row
<1>3. /\ kept \in Seq(Rows) /\ Len(kept) < MAX_BLOCKS /\ Len(kept) \in Nat
      /\ Len(kept) <= Len(blocks)
      /\ \A i \in 1..Len(kept) : i \in DOMAIN blocks /\ kept[i] = blocks[i]
      /\ \A i \in DOMAIN blocks : i < MAX_BLOCKS => i \in 1..Len(kept)
  <2>1. CASE Len(blocks) < MAX_BLOCKS
    BY <1>1, <2>1
  <2>2. CASE ~(Len(blocks) < MAX_BLOCKS)
    <3> DEFINE front == SubSeq(blocks, 1, Len(blocks) - 1)
    <3>0. Explorer!Front(blocks) = front
      BY DEF Explorer!Front
    <3> HIDE DEF front
    <3>1. Len(blocks) = MAX_BLOCKS /\ kept = front
      <4>0. Len(blocks) \in Nat /\ MAX_BLOCKS \in Nat /\ Len(blocks) <= MAX_BLOCKS
        BY <1>1
      <4>1. Len(blocks) = MAX_BLOCKS
        BY <2>2, <4>0
      <4>2. kept = Explorer!Front(blocks)
        BY <2>2
      <4>3. QED
        BY <3>0, <4>1, <4>2
    <3>2. front \in Seq(Rows) /\ Len(front) = Len(blocks) - 1
          /\ \A i \in 1..(Len(blocks) - 1) : front[i] = blocks[i]
      BY <1>1, <3>1 DEF front
    <3> HIDE DEF kept
    <3>3. QED
      BY <1>1, <3>1, <3>2
  <2>3. QED
    BY <2>1, <2>2
<1> HIDE DEF kept
<1>4. <<row>> \in Seq(Rows) /\ Len(<<row>>) = 1 /\ <<row>>[1] = row
  BY <1>2
<1> DEFINE one == <<row>>
<1>5. one \in Seq(Rows) /\ Len(one) = 1 /\ one[1] = row
  BY <1>4
<1> HIDE DEF one
<1>6. /\ one \o kept \in Seq(Rows) /\ Len(one \o kept) = 1 + Len(kept)
      /\ \A i \in 1..(1 + Len(kept)) : (one \o kept)[i] = IF i <= 1 THEN one[i] ELSE kept[i - 1]
  <2>1. /\ one \o kept \in Seq(Rows) /\ Len(one \o kept) = Len(one) + Len(kept)
        /\ \A i \in 1..(Len(one) + Len(kept)) :
             (one \o kept)[i] = IF i <= Len(one) THEN one[i] ELSE kept[i - Len(one)]
    BY <1>3, <1>5, ConcatProperties
  <2>2. QED
    BY <1>5, <2>1
<1> DEFINE new == one \o kept
<1>7. DOMAIN new = 1..(1 + Len(kept))
  BY <1>6, LenProperties
<1>8. new[1] = row
  BY <1>3, <1>5, <1>6
<1>9. ASSUME NEW i \in DOMAIN new, i > 1
      PROVE  i - 1 \in DOMAIN blocks /\ new[i] = blocks[i - 1]
  <2>1. i - 1 \in 1..Len(kept) /\ i \in 1..(1 + Len(kept)) /\ ~(i <= 1)
    BY <1>3, <1>7, <1>9
  <2>2. QED
    BY <1>3, <1>6, <2>1
<1>10. ASSUME NEW i \in DOMAIN blocks, i < MAX_BLOCKS
       PROVE  i + 1 \in DOMAIN new /\ new[i + 1] = blocks[i]
  <2>1. i \in 1..Len(kept)
    BY <1>3, <1>10
  <2>2. i + 1 \in 1..(1 + Len(kept)) /\ ~(i + 1 <= 1) /\ (i + 1) - 1 = i
    BY <1>3, <2>1
  <2>3. QED
    BY <1>3, <1>6, <1>7, <2>1, <2>2
<1>11. Pushed(n) = new
  BY DEF Pushed, row, kept, one
<1> HIDE DEF new
<1>12. new \in Seq(Rows) /\ Len(new) = 1 + Len(kept)
  BY <1>6 DEF new
<1>13. QED
  BY <1>1, <1>3, <1>7, <1>8, <1>9, <1>10, <1>11, <1>12 DEF row

(* Rows that are no longer NEW keep their places and numbers.              *)
LEMMA RowsUnmarked ==
  ASSUME ExplorerTypes, NEW n, Explorer!Unmark(n)
  PROVE  /\ blocks' \in Seq(Rows) /\ Len(blocks') = Len(blocks)
         /\ DOMAIN blocks' = DOMAIN blocks
         /\ \A i \in DOMAIN blocks : blocks'[i].number = blocks[i].number
<1>1. /\ blocks \in Seq(Rows) /\ Len(blocks) \in Nat /\ DOMAIN blocks = 1..Len(blocks)
      /\ \A i \in DOMAIN blocks : blocks[i] \in Rows
  BY DEF ExplorerTypes
<1>2. blocks' = [i \in DOMAIN blocks |->
                  IF blocks[i].number = n THEN [blocks[i] EXCEPT !.isNew = FALSE]
                                          ELSE blocks[i]]
  BY DEF Explorer!Unmark
<1>3. ASSUME NEW i \in DOMAIN blocks
      PROVE  blocks'[i] \in Rows /\ blocks'[i].number = blocks[i].number
  <2>1. blocks[i] \in Rows
    BY <1>1
  <2>2. [blocks[i] EXCEPT !.isNew = FALSE] \in Rows
        /\ [blocks[i] EXCEPT !.isNew = FALSE].number = blocks[i].number
    BY <2>1 DEF Rows
  <2>3. QED
    BY <1>2, <2>1, <2>2
<1>4. blocks' \in [1..Len(blocks) -> Rows]
  BY <1>1, <1>2, <1>3
<1>5. QED
  BY <1>1, <1>3, <1>4

LEMMA FaceStep ==
  ASSUME ExplorerTypes, ExplorerStepOrNot
  PROVE  /\ strict' = strict /\ mounted' \in BOOLEAN /\ connected' \in BOOLEAN
         /\ connecting' \in BOOLEAN
         /\ latestBlock' \in 0..head /\ lost' \in 0..MaxLost
<1>0. /\ strict \in BOOLEAN /\ mounted \in BOOLEAN /\ connected \in BOOLEAN
      /\ connecting \in BOOLEAN /\ latestBlock \in 0..head /\ 0 \in 0..head
      /\ lost \in 0..MaxLost /\ MaxLost \in Nat
  BY PagesConstants DEF ExplorerTypes, Explorer!ExplorerConstants
<1> DEFINE Fine == /\ strict' = strict /\ mounted' \in BOOLEAN /\ connected' \in BOOLEAN
                   /\ connecting' \in BOOLEAN
                   /\ latestBlock' \in 0..head /\ lost' \in 0..MaxLost
<1>1. CASE Explorer!NewBlock \/ Explorer!Mount \/ Explorer!Reconnect \/ Explorer!Leave
           \/ UNCHANGED explorerVars
  BY <1>0, <1>1 DEF Explorer!NewBlock, Explorer!Mount, Explorer!Reconnect, Explorer!Leave,
     explorerVars, Explorer!face
<1>2. ASSUME NEW l \in DOMAIN links, Explorer!CreateFails(l) \/ Explorer!Created(l)
      PROVE  Fine
  BY <1>0, <1>2 DEF Explorer!CreateFails, Explorer!Created, Explorer!Set
<1>3. ASSUME NEW l \in DOMAIN links, Explorer!LoseLink(l)
      PROVE  Fine
  BY <1>0, <1>3 DEF Explorer!LoseLink, Explorer!face
<1>4. ASSUME NEW l \in DOMAIN links, NEW n, Explorer!Fetched(l, n)
      PROVE  Fine
  BY <1>0, <1>4 DEF Explorer!Fetched
<1>5. ASSUME NEW l \in DOMAIN links, Explorer!NewHead(l)
      PROVE  Fine
  <2>1. latestBlock' = latestBlock \/ latestBlock' = Told(l)
    BY <1>5 DEF Explorer!NewHead, Explorer!Set, Told
  <2>2. Told(l) \in 0..head
    BY <1>5, TellsNext DEF Explorer!NewHead
  <2>3. QED
    BY <1>0, <1>5, <2>1, <2>2 DEF Explorer!NewHead
<1>6. ASSUME NEW n, Explorer!Unmark(n)
      PROVE  Fine
  BY <1>0, <1>6 DEF Explorer!Unmark
<1>7. QED
  BY <1>1, <1>2, <1>3, <1>4, <1>5, <1>6
  DEF ExplorerStepOrNot, Explorer!Next, Explorer!LinkStep

LEMMA RowsStep ==
  ASSUME ExplorerTypes, ExplorerStepOrNot
  PROVE  blocks' \in Seq(Rows) /\ Len(blocks') <= MAX_BLOCKS
<1>0. blocks \in Seq(Rows) /\ Len(blocks) <= MAX_BLOCKS /\ MAX_BLOCKS \in Nat
  BY PagesConstants DEF ExplorerTypes, Explorer!ExplorerConstants
<1> DEFINE Kept == blocks' \in Seq(Rows) /\ Len(blocks') <= MAX_BLOCKS
<1>1. UNCHANGED blocks => Kept
  BY <1>0
<1>2. blocks' = << >> => Kept
  BY <1>0
<1>3. ASSUME NEW l \in DOMAIN links, NEW n \in links[l].fetching, Explorer!Fetched(l, n)
      PROVE  Kept
  <2>1. n \in Heads
    <3>1. links[l] \in Links
      BY DEF ExplorerTypes
    <3>2. QED
      BY <3>1 DEF Links
  <2>2. blocks' = blocks \/ blocks' = Pushed(n)
    BY <1>3 DEF Explorer!Fetched, Explorer!Set, Pushed
  <2> HIDE DEF Heads
  <2>3. QED
    BY <1>0, <2>1, <2>2, RowPushed
<1>4. ASSUME NEW n, Explorer!Unmark(n)
      PROVE  Kept
  BY <1>0, <1>4, RowsUnmarked
<1> HIDE DEF Kept
<1>5. Kept
  <2>1. \/ Explorer!NewBlock \/ Explorer!Mount \/ UNCHANGED explorerVars
        \/ \E l \in DOMAIN links : \/ Explorer!CreateFails(l) \/ Explorer!Created(l)
                                   \/ Explorer!LoseLink(l) \/ Explorer!NewHead(l)
        => UNCHANGED blocks
    BY Zenon
    DEF Explorer!NewBlock, Explorer!Mount, Explorer!CreateFails, Explorer!Created,
        Explorer!LoseLink, Explorer!NewHead, explorerVars, Explorer!face
  <2>2. Explorer!Reconnect \/ Explorer!Leave => blocks' = << >>
    BY DEF Explorer!Reconnect, Explorer!Leave
  <2>3. ASSUME NEW l \in DOMAIN links,
               Explorer!LinkStep(l) \/ Explorer!CreateFails(l) \/ Explorer!LoseLink(l)
        PROVE  Kept
    BY <1>1, <1>3, <2>1, <2>3 DEF Explorer!LinkStep
  <2>4. QED
    BY <1>1, <1>2, <1>4, <2>1, <2>2, <2>3 DEF ExplorerStepOrNot, Explorer!Next
<1>6. QED
  BY <1>5 DEF Kept

LEMMA ExplorerTypesStep ==
  ASSUME ExplorerTypes, ExplorerStepOrNot
  PROVE  ExplorerTypes'
<1>1. /\ head' \in 1..MaxHead /\ head <= head' /\ head \in Nat /\ head' \in Nat
      /\ Rows \subseteq Rows' /\ Links \subseteq Links'
  BY HeadGrows
<1>2. blocks' \in Seq(Rows') /\ Len(blocks') <= MAX_BLOCKS
  <2>1. blocks' \in Seq(Rows) /\ Len(blocks') <= MAX_BLOCKS
    BY RowsStep
  <2>2. QED
    BY <1>1, <2>1, SeqMonotonic
<1>3. links' \in Seq(Links') /\ Len(links) <= Len(links') /\ Len(links) \in Nat
      /\ Len(links') \in Nat
  <2>1. links' \in Seq(Links) /\ Len(links) <= Len(links') /\ links \in Seq(Links)
    BY LinksStep DEF ExplorerTypes
  <2>2. QED
    BY <1>1, <2>1
<1>4. latestBlock' \in 0..head'
  BY <1>1, FaceStep
<1>5. ASSUME NEW r \in {apiRef', unsubRef'}
      PROVE  r \in {apiRef, unsubRef, 0} \cup DOMAIN links
    BY DEF ExplorerStepOrNot, Explorer!Next, Explorer!NewBlock, Explorer!Mount,
       Explorer!Reconnect, Explorer!Leave, Explorer!LinkStep, Explorer!Created,
       Explorer!NewHead, Explorer!Fetched, Explorer!CreateFails, Explorer!LoseLink,
       Explorer!Unmark, Explorer!refs, explorerVars
<1>6. apiRef' \in 0..Len(links') /\ unsubRef' \in 0..Len(links')
  <2>1. DOMAIN links = 1..Len(links) /\ apiRef \in 0..Len(links) /\ unsubRef \in 0..Len(links)
    BY DEF ExplorerTypes
  <2>2. \A r \in {apiRef, unsubRef, 0} \cup DOMAIN links : r \in 0..Len(links')
    BY <1>3, <2>1
  <2>3. QED
    BY <1>5, <2>2
<1>7. strict' \in BOOLEAN
  BY FaceStep DEF ExplorerTypes
<1> HIDE DEF Rows, Links
<1>8. QED
  BY <1>1, <1>2, <1>3, <1>4, <1>6, <1>7, FaceStep DEF ExplorerTypes

-----------------------------------------------------------------------------
(* The feed of an open page.  Only the last connection does anything.      *)
LEMMA ServedByLast ==
  ASSUME ExplorerTypes, OneLink
  PROVE  /\ last \in {1, 2} /\ last \in DOMAIN links /\ DOMAIN links = 1..last
         /\ links[last] \in Links
         /\ \A l \in DOMAIN links :
              links[l].pc # "over" \/ links[l].fetching # {} => l = last
<1>1. last \in {1, 2} /\ links \in Seq(Links) /\ DOMAIN links = 1..last
  BY DEF OneLink, ExplorerTypes, last
<1>2. last \in DOMAIN links /\ links[last] \in Links
  BY <1>1
<1>3. ASSUME NEW l \in DOMAIN links, l # last
      PROVE  links[l].pc = "over" /\ links[l].fetching = {}
  <2>1. l \in 1..(last - 1)
    BY <1>1, <1>3
  <2>2. QED
    BY <2>1 DEF OneLink, Idle
<1>4. QED
  BY <1>1, <1>2, <1>3

LEMMA FeedStays ==
  ASSUME Feed, UNCHANGED <<strict, mounted, connected, connecting, latestBlock, blocks,
                           links, unsubRef>>
  PROVE  Feed'
BY DEF Feed, OneLink, RowsFollow, Idle, last, Explorer!Numbers

LEMMA FeedBegins ==
  ASSUME latestBlock' = 0, blocks' = << >>, Idle(last)'
  PROVE  RowsFollow'
<1>1. DOMAIN blocks' = {}
  OBVIOUS
<1>2. Cardinality({}) = 0 /\ MAX_BLOCKS \in Nat
  BY FS_EmptySet, PagesConstants DEF Explorer!ExplorerConstants
<1>3. links'[last'].seen = 0 /\ links'[last'].fetching = {}
  BY DEF Idle
<1>4. QED
  BY <1>1, <1>2, <1>3 DEF RowsFollow

LEMMA FeedMount ==
  ASSUME ExplorerTypes, Feed, Explorer!Mount
  PROVE  Feed'
<1>1. mounted' /\ strict' = strict
  BY DEF Explorer!Mount
<1>2. ASSUME ~strict PROVE OneLink' /\ RowsFollow'
  <2>1. links' = <<Explorer!NewLink>> /\ links = << >>
        /\ UNCHANGED <<connected, latestBlock, blocks, unsubRef>> /\ connecting'
    BY <1>2 DEF Explorer!Mount, Explorer!refs
  <2>2. last' = 1 /\ links'[1] = Explorer!NewLink
    BY <2>1 DEF last
  <2>3. ~connected /\ latestBlock = 0 /\ blocks = << >> /\ unsubRef = 0
    BY <2>1 DEF Feed, Explorer!Mount, ExplorerTypes
  <2>4. Explorer!NewLink.fetching = {} /\ Explorer!NewLink.seen = 0
        /\ Explorer!NewLink.pc = "creating"
    BY DEF Explorer!NewLink
  <2>5. OneLink'
    BY <2>1, <2>2, <2>3, <2>4 DEF OneLink, Idle
  <2>6. Idle(last)' /\ latestBlock' = 0 /\ blocks' = << >>
    BY <2>1, <2>2, <2>3, <2>4 DEF Idle
  <2>7. RowsFollow'
    BY <2>6, FeedBegins
  <2>8. QED
    BY <2>5, <2>7
<1>3. QED
  BY <1>1, <1>2 DEF Feed

LEMMA FeedReconnect ==
  ASSUME ExplorerTypes, Feed, Explorer!Reconnect
  PROVE  Feed'
<1>1. /\ mounted /\ ~connected /\ ~connecting /\ Len(links) < 2
      /\ connecting' /\ blocks' = << >> /\ links' = Append(links, Explorer!NewLink)
      /\ UNCHANGED <<strict, mounted, connected, latestBlock, unsubRef>>
  BY DEF Explorer!Reconnect, Explorer!refs
<1>2. ASSUME ~strict PROVE OneLink' /\ RowsFollow'
  <2>1. OneLink /\ RowsFollow
    BY <1>1, <1>2 DEF Feed
  <2>2. last = 1 /\ links[1].pc = "over" /\ links[1] \in Links
    <3>1. links[last].pc \in {"creating", "asking", "live", "over"} /\ last \in {1, 2}
          /\ links[last] \in Links
      BY <2>1, ServedByLast DEF Links
    <3>2. last = 1
      <4>1. last < 2
        BY <1>1 DEF last
      <4>2. QED
        BY <3>1, <4>1
    <3>3. links[last].pc = "over"
      <4>1. links[last].pc # "creating"
        BY <1>1, <2>1 DEF OneLink
      <4>2. links[last].pc \notin {"asking", "live"}
        BY <1>1, <2>1 DEF OneLink
      <4>3. QED
        BY <3>1, <4>1, <4>2
    <3>4. QED
      BY <3>1, <3>2, <3>3
  <2>3. Idle(1) /\ unsubRef = 0 /\ latestBlock = 0
    BY <2>1, <2>2 DEF OneLink, RowsFollow, Idle
  <2>4. last' = 2 /\ links'[2] = Explorer!NewLink /\ links'[1] = links[1]
    <3>1. links \in Seq(Links) /\ Len(links) = 1 /\ Explorer!NewLink \in Links
      BY <2>2, NewLinkTyped DEF ExplorerTypes, last
    <3> HIDE DEF Links
    <3>2. Len(links') = 2 /\ links'[2] = Explorer!NewLink /\ links'[1] = links[1]
      <4>1. /\ Len(links') = Len(links) + 1
            /\ \A i \in 1..Len(links) : links'[i] = links[i]
            /\ links'[Len(links) + 1] = Explorer!NewLink
        <5>1. ASSUME NEW s \in Seq(Links), NEW e \in Links
              PROVE  /\ Len(Append(s, e)) = Len(s) + 1
                     /\ \A i \in 1..Len(s) : Append(s, e)[i] = s[i]
                     /\ Append(s, e)[Len(s) + 1] = e
          BY AppendProperties
        <5>2. QED
          BY <1>1, <3>1, <5>1
      <4>2. QED
        BY <3>1, <4>1
    <3>3. QED
      BY <3>2 DEF last
  <2>5. Explorer!NewLink.fetching = {} /\ Explorer!NewLink.seen = 0
        /\ Explorer!NewLink.pc = "creating"
    BY DEF Explorer!NewLink
  <2>6. OneLink'
    BY <1>1, <2>2, <2>3, <2>4, <2>5 DEF OneLink, Idle
  <2>7. Idle(last)' /\ latestBlock' = 0 /\ blocks' = << >>
    BY <1>1, <2>3, <2>4, <2>5 DEF Idle
  <2>8. RowsFollow'
    BY <2>7, FeedBegins
  <2>9. QED
    BY <2>6, <2>8
<1>3. QED
  BY <1>1, <1>2 DEF Feed

(* A step of the last connection, which leaves the others alone.           *)
LastBecomes(link) ==
  /\ DOMAIN links' = DOMAIN links /\ last' = last
  /\ links'[last] = link
  /\ \A l \in DOMAIN links \ {last} : links'[l] = links[l]

LEMMA ChangedLast ==
  ASSUME ExplorerTypes, OneLink, NEW link, links' = [links EXCEPT ![last] = link]
  PROVE  LastBecomes(link)
<1>1. last \in DOMAIN links /\ links \in Seq(Links)
  BY ServedByLast DEF ExplorerTypes
<1>2. DOMAIN links' = DOMAIN links /\ links'[last] = link
      /\ \A l \in DOMAIN links \ {last} : links'[l] = links[l]
  BY <1>1
<1>3. Len(links') = Len(links)
  <2>1. DOMAIN links' = 1..Len(links) /\ Len(links) \in Nat
    BY <1>1, <1>2
  <2>2. links' = [i \in 1..Len(links) |-> links'[i]]
    BY <2>1
  <2>3. QED
    BY <2>1, <2>2
<1>4. QED
  BY <1>2, <1>3 DEF LastBecomes, last

LEMMA OthersIdle ==
  ASSUME ExplorerTypes, OneLink, NEW link, LastBecomes(link)
  PROVE  /\ last' = last /\ links'[last'] = link /\ last' \in {1, 2}
         /\ \A l \in 1..(last' - 1) : links'[l].pc = "over" /\ Idle(l)'
<1>1. last \in {1, 2} /\ DOMAIN links = 1..last
  BY ServedByLast
<1>2. \A l \in 1..(last - 1) : l \in DOMAIN links \ {last}
  BY <1>1
<1>3. \A l \in 1..(last - 1) : links'[l] = links[l]
  BY <1>2 DEF LastBecomes
<1>4. last' = last /\ links'[last'] = link
  BY DEF LastBecomes
<1>5. QED
  BY <1>1, <1>3, <1>4 DEF OneLink, Idle

LEMMA FeedCreateFails ==
  ASSUME ExplorerTypes, Feed, NEW l \in DOMAIN links, Explorer!CreateFails(l)
  PROVE  Feed'
<1>1. /\ UNCHANGED <<strict, mounted, connected, latestBlock, blocks, unsubRef>>
      /\ connecting' = (IF mounted THEN FALSE ELSE connecting)
      /\ links[l].pc = "creating"
      /\ links' = [links EXCEPT ![l] = [links[l] EXCEPT !.pc = "over"]]
  BY DEF Explorer!CreateFails, Explorer!Set, Explorer!refs
<1>2. ASSUME mounted, ~strict PROVE OneLink' /\ RowsFollow'
  <2>1. OneLink /\ RowsFollow
    BY <1>2 DEF Feed
  <2>2. l = last /\ links[last] \in Links
    BY <1>1, <2>1, ServedByLast
  <2> DEFINE link == [links[last] EXCEPT !.pc = "over"]
  <2>3. LastBecomes(link)
    BY <1>1, <2>1, <2>2, ChangedLast
  <2>4. link.pc = "over" /\ link.seen = links[last].seen /\ link.fetching = links[last].fetching
    BY <2>2 DEF Links
  <2> HIDE DEF link
  <2>5. ~connected /\ Idle(last) /\ blocks = << >> /\ unsubRef = 0
    BY <1>1, <2>1, <2>2 DEF OneLink
  <2>6. /\ last' = last /\ links'[last'] = link /\ last' \in {1, 2}
        /\ \A k \in 1..(last' - 1) : links'[k].pc = "over" /\ Idle(k)'
    BY <2>1, <2>3, OthersIdle
  <2>7. Idle(last)'
    BY <2>4, <2>5, <2>6 DEF Idle
  <2>8. OneLink'
    BY <1>1, <1>2, <2>4, <2>5, <2>6, <2>7 DEF OneLink
  <2>9. latestBlock' = 0 /\ blocks' = << >>
    BY <1>1, <2>1, <2>5 DEF RowsFollow, Idle
  <2>10. RowsFollow'
    BY <2>7, <2>9, FeedBegins
  <2>11. QED
    BY <2>8, <2>10
<1>3. QED
  BY <1>1, <1>2 DEF Feed

LEMMA FeedCreated ==
  ASSUME ExplorerTypes, Feed, NEW l \in DOMAIN links, Explorer!Created(l)
  PROVE  Feed'
<1>1. /\ UNCHANGED <<strict, mounted, latestBlock, blocks>>
      /\ connecting' = (IF mounted THEN FALSE ELSE connecting)
      /\ connected' = (IF mounted THEN TRUE ELSE connected)
      /\ links[l].pc = "creating" /\ unsubRef' = 0
      /\ links' = [k \in DOMAIN links |->
                     IF k = l THEN [links[l] EXCEPT !.pc = "asking"]
                     ELSE IF k = unsubRef THEN Explorer!Stopped(k) ELSE links[k]]
  BY DEF Explorer!Created, Explorer!Set
<1>2. ASSUME mounted, ~strict PROVE OneLink' /\ RowsFollow'
  <2>1. OneLink /\ RowsFollow
    BY <1>2 DEF Feed
  <2>2. l = last /\ links[last] \in Links /\ DOMAIN links = 1..last /\ last \in DOMAIN links
    BY <1>1, <2>1, ServedByLast
  <2>3. ~connected /\ Idle(last) /\ blocks = << >> /\ unsubRef = 0
    BY <1>1, <2>1, <2>2 DEF OneLink
  <2> DEFINE link == [links[last] EXCEPT !.pc = "asking"]
  <2>4. links' = [links EXCEPT ![last] = link]
    <3>1. \A k \in DOMAIN links : k # unsubRef
      BY <2>1, <2>2, <2>3
    <3>2. links \in Seq(Links)
      BY DEF ExplorerTypes
    <3>3. QED
      BY <1>1, <2>2, <3>1, <3>2
  <2>5. link.pc = "asking" /\ link.seen = links[last].seen /\ link.fetching = links[last].fetching
    BY <2>2 DEF Links
  <2> HIDE DEF link
  <2>6. LastBecomes(link)
    BY <2>1, <2>4, ChangedLast
  <2>7. /\ last' = last /\ links'[last'] = link /\ last' \in {1, 2}
        /\ \A k \in 1..(last' - 1) : links'[k].pc = "over" /\ Idle(k)'
    BY <2>1, <2>6, OthersIdle
  <2>8. OneLink'
    BY <1>1, <1>2, <2>5, <2>7 DEF OneLink
  <2>9. Idle(last)' /\ latestBlock' = 0 /\ blocks' = << >>
    BY <1>1, <2>1, <2>3, <2>5, <2>7 DEF RowsFollow, Idle
  <2>10. RowsFollow'
    BY <2>9, FeedBegins
  <2>11. QED
    BY <2>8, <2>10
<1>3. QED
  BY <1>1, <1>2 DEF Feed

LEMMA FeedLoseLink ==
  ASSUME ExplorerTypes, Feed, NEW l \in DOMAIN links, Explorer!LoseLink(l)
  PROVE  Feed'
<1>1. /\ UNCHANGED <<strict, mounted, connected, connecting, latestBlock, blocks, unsubRef>>
      /\ links[l].pc \in {"asking", "live"}
      /\ links' = [links EXCEPT ![l] = [links[l] EXCEPT !.steady = FALSE]]
  BY DEF Explorer!LoseLink, Explorer!face, Explorer!refs
<1>2. ASSUME mounted, ~strict PROVE OneLink' /\ RowsFollow'
  <2>1. OneLink /\ RowsFollow
    BY <1>2 DEF Feed
  <2>2. l = last /\ links[last] \in Links
    BY <1>1, <2>1, ServedByLast
  <2> DEFINE link == [links[last] EXCEPT !.steady = FALSE]
  <2>3. LastBecomes(link)
    BY <1>1, <2>1, <2>2, ChangedLast
  <2>4. link.pc = links[last].pc /\ link.seen = links[last].seen
        /\ link.fetching = links[last].fetching
    BY <2>2 DEF Links
  <2> HIDE DEF link
  <2>5. /\ last' = last /\ links'[last'] = link /\ last' \in {1, 2}
        /\ \A k \in 1..(last' - 1) : links'[k].pc = "over" /\ Idle(k)'
    BY <2>1, <2>3, OthersIdle
  <2>6. OneLink'
    BY <1>1, <2>1, <2>2, <2>4, <2>5 DEF OneLink, Idle
  <2>7. RowsFollow'
    BY <1>1, <2>1, <2>4, <2>5 DEF RowsFollow, Explorer!Numbers
  <2>8. QED
    BY <2>6, <2>7
<1>3. QED
  BY <1>1, <1>2 DEF Feed

LEMMA FeedNewHead ==
  ASSUME ExplorerTypes, Feed, NEW l \in DOMAIN links, Explorer!NewHead(l)
  PROVE  Feed'
<1> DEFINE n == Told(l)
<1>1. /\ UNCHANGED <<strict, mounted, connected, connecting, blocks>>
      /\ links[l].pc \in {"asking", "live"} /\ links[l].seen < head
      /\ Explorer!Cardinality(links[l].fetching) < MAX_BLOCKS
      /\ latestBlock' = (IF mounted THEN n ELSE latestBlock)
      /\ unsubRef' \in {l, unsubRef}
      /\ links' = [links EXCEPT ![l] = [links[l] EXCEPT !.pc = "live", !.seen = n,
                     !.steady = TRUE, !.fetching = links[l].fetching \cup {n}]]
  <2>1. links \in Seq(Links)
    BY DEF ExplorerTypes
  <2>2. QED
    BY <2>1 DEF Explorer!NewHead, Explorer!Set, Told
<1>2. n \in Heads /\ n > links[l].seen /\ links[l].seen \in Nat /\ n \in Nat
  BY <1>1, TellsNext DEF Heads
<1> HIDE DEF n
<1>3. ASSUME mounted, ~strict PROVE OneLink' /\ RowsFollow'
  <2>1. OneLink /\ RowsFollow
    BY <1>3 DEF Feed
  <2>2. l = last /\ links[last] \in Links
    BY <1>1, <2>1, ServedByLast
  <2> DEFINE f == links[last].fetching
             link == [links[last] EXCEPT !.pc = "live", !.seen = n, !.steady = TRUE,
                                         !.fetching = f \cup {n}]
  <2>3. LastBecomes(link)
    BY <1>1, <2>1, <2>2, ChangedLast
  <2>4. link.pc = "live" /\ link.seen = n /\ link.fetching = f \cup {n}
    BY <2>2 DEF Links
  <2> HIDE DEF link
  <2>5. /\ last' = last /\ links'[last'] = link /\ last' \in {1, 2}
        /\ \A k \in 1..(last' - 1) : links'[k].pc = "over" /\ Idle(k)'
    BY <2>1, <2>3, OthersIdle
  <2>6. connected
    BY <1>1, <2>1, <2>2 DEF OneLink
  <2>7. OneLink'
    BY <1>1, <2>1, <2>2, <2>4, <2>5, <2>6 DEF OneLink
  <2>8. /\ latestBlock' = n /\ latestBlock < n /\ latestBlock \in Nat
        /\ \A m \in f : m <= latestBlock
        /\ \A i \in DOMAIN blocks : blocks[i].number \notin f /\ blocks[i].number <= latestBlock
        /\ \A i, j \in DOMAIN blocks : blocks[i].number = blocks[j].number => i = j
    BY <1>1, <1>2, <1>3, <2>1, <2>2 DEF RowsFollow
  <2>9. /\ f \subseteq Heads /\ head \in Nat
        /\ \A i \in DOMAIN blocks : blocks[i].number \in Heads
    <3>1. \A i \in DOMAIN blocks : blocks[i] \in Rows
      BY DEF ExplorerTypes
    <3>2. head \in Nat
      BY PagesConstants DEF ExplorerTypes, Explorer!ExplorerConstants
    <3>3. QED
      BY <2>2, <3>1, <3>2 DEF Links, Rows
  <2>10. Cardinality(f \cup {n}) <= MAX_BLOCKS
    <3>1. IsFiniteSet(f)
      <4>1. IsFiniteSet(1..head)
        BY <2>9, FS_Interval
      <4>2. QED
        BY <2>9, <4>1, FS_Subset DEF Heads
    <3>2. Cardinality(f) \in Nat /\ Cardinality(f) < MAX_BLOCKS /\ MAX_BLOCKS \in Nat
      BY <1>1, <2>2, <3>1, FS_CardinalityType, PagesConstants
      DEF Explorer!ExplorerConstants, Explorer!Cardinality, Cardinality
    <3>3. Cardinality(f \cup {n}) = IF n \in f THEN Cardinality(f) ELSE Cardinality(f) + 1
      BY <3>1, FS_AddElement
    <3>4. QED
      BY <3>2, <3>3
  <2>11. \A i \in DOMAIN blocks : blocks[i].number # n /\ blocks[i].number <= n
    BY <1>2, <2>8, <2>9 DEF Heads
  <2>12. \A m \in f \cup {n} : m <= n
    BY <1>2, <2>8, <2>9 DEF Heads
  <2> HIDE DEF f
  <2>13. RowsFollow'
    BY <1>1, <2>4, <2>5, <2>8, <2>10, <2>11, <2>12 DEF RowsFollow
  <2>14. QED
    BY <2>7, <2>13
<1>4. QED
  BY <1>1, <1>3 DEF Feed

LEMMA FeedUnmark ==
  ASSUME ExplorerTypes, Feed, NEW n, Explorer!Unmark(n)
  PROVE  Feed'
<1>1. UNCHANGED <<strict, mounted, connected, connecting, latestBlock, links, unsubRef>>
  BY DEF Explorer!Unmark, Explorer!refs
<1>2. /\ DOMAIN blocks' = DOMAIN blocks /\ Len(blocks') = Len(blocks)
      /\ blocks \in Seq(Rows) /\ blocks' \in Seq(Rows)
      /\ \A i \in DOMAIN blocks : blocks'[i].number = blocks[i].number
  BY RowsUnmarked DEF ExplorerTypes
<1>3. blocks # << >>
  BY DEF Explorer!Unmark
<1>4. Explorer!Numbers' = Explorer!Numbers
  BY <1>2 DEF Explorer!Numbers
<1>5. ASSUME mounted, ~strict PROVE OneLink' /\ RowsFollow'
  <2>1. OneLink /\ RowsFollow
    BY <1>5 DEF Feed
  <2>2. OneLink'
    BY <1>1, <1>3, <2>1 DEF OneLink, Idle, last
  <2>3. RowsFollow'
    BY <1>1, <1>2, <1>4, <2>1 DEF RowsFollow, last
  <2>4. QED
    BY <2>2, <2>3
<1>6. QED
  BY <1>1, <1>3, <1>5 DEF Feed

LEMMA FeedFetched ==
  ASSUME ExplorerTypes, Feed, NEW l \in DOMAIN links, NEW n \in links[l].fetching,
         Explorer!Fetched(l, n)
  PROVE  Feed'
<1>1. /\ UNCHANGED <<strict, mounted, connected, connecting, latestBlock, unsubRef>>
      /\ blocks' = IF mounted THEN Pushed(n) ELSE blocks
      /\ links' = [links EXCEPT ![l] = [links[l] EXCEPT !.fetching = links[l].fetching \ {n}]]
  <2>1. links \in Seq(Links)
    BY DEF ExplorerTypes
  <2>2. QED
    BY <2>1 DEF Explorer!Fetched, Explorer!Set, Explorer!refs, Pushed
<1>2. ASSUME mounted, ~strict PROVE OneLink' /\ RowsFollow'
  <2>1. OneLink /\ RowsFollow
    BY <1>2 DEF Feed
  <2>2. l = last /\ links[last] \in Links
    BY <2>1, ServedByLast
  <2> DEFINE f == links[last].fetching
             link == [links[last] EXCEPT !.fetching = f \ {n}]
             new == Pushed(n)
             room == Cardinality(f)
  <2>3. LastBecomes(link)
    BY <1>1, <2>1, <2>2, ChangedLast
  <2>4. link.pc = links[last].pc /\ link.seen = links[last].seen /\ link.fetching = f \ {n}
    BY <2>2 DEF Links
  <2> HIDE DEF link
  <2>5. /\ last' = last /\ links'[last'] = link /\ last' \in {1, 2}
        /\ \A k \in 1..(last' - 1) : links'[k].pc = "over" /\ Idle(k)'
    BY <2>1, <2>3, OthersIdle
  <2>6. ~Idle(last)
    BY <2>2 DEF Idle
  <2>7. OneLink'
    BY <1>1, <2>1, <2>4, <2>5, <2>6 DEF OneLink
  <2>8. n \in f /\ f \subseteq Heads /\ n \in Heads /\ head \in Nat
    BY <2>2, PagesConstants DEF Links, ExplorerTypes, Explorer!ExplorerConstants
  <2>9. /\ IsFiniteSet(f) /\ room \in Nat /\ Cardinality(f \ {n}) = room - 1
    <3>1. IsFiniteSet(1..head)
      BY <2>8, FS_Interval
    <3>2. IsFiniteSet(f)
      BY <2>8, <3>1, FS_Subset DEF Heads
    <3>3. QED
      BY <2>8, <3>2, FS_CardinalityType, FS_RemoveElement
  <2>10. /\ new \in Seq(Rows) /\ DOMAIN new = 1..Len(new) /\ Len(new) \in Nat \ {0}
         /\ new[1] = Explorer!Row(n)
         /\ \A i \in DOMAIN new : i > 1 => i - 1 \in DOMAIN blocks /\ new[i] = blocks[i - 1]
         /\ \A i \in DOMAIN blocks : i < MAX_BLOCKS =>
              i + 1 \in DOMAIN new /\ new[i + 1] = blocks[i]
         /\ DOMAIN blocks = 1..Len(blocks) /\ Len(blocks) \in Nat
    <3> HIDE DEF Heads
    <3>1. DOMAIN blocks = 1..Len(blocks) /\ Len(blocks) \in Nat
      BY DEF ExplorerTypes
    <3>2. QED
      BY <2>8, <3>1, RowPushed
  <2>11. new[1].number = n
    BY <2>10 DEF Explorer!Row
  <2> HIDE DEF new
  <2>12. blocks' = new
    BY <1>1, <1>2 DEF new
  <2>13. /\ latestBlock = links[last].seen /\ room <= MAX_BLOCKS
         /\ \A m \in f : m <= latestBlock
         /\ \A i \in DOMAIN blocks : blocks[i].number \notin f /\ blocks[i].number <= latestBlock
         /\ \A i, j \in DOMAIN blocks : blocks[i].number = blocks[j].number => i = j
         /\ latestBlock > 0 => latestBlock \in Explorer!Numbers \cup f
         /\ \A i \in DOMAIN blocks : blocks[i].number = latestBlock => i + room <= MAX_BLOCKS
    BY <2>1 DEF RowsFollow
  <2> HIDE DEF room, f
  <2>14. MAX_BLOCKS \in Nat /\ n \in Nat /\ room >= 1
    <3>1. Cardinality(f \ {n}) \in Nat
      BY <2>9, FS_Subset, FS_CardinalityType
    <3>2. QED
      BY <2>8, <2>9, <3>1, PagesConstants DEF Explorer!ExplorerConstants, Heads
  <2>15. \A i \in DOMAIN new : i = 1 \/ (i > 1 /\ i - 1 \in DOMAIN blocks /\ new[i] = blocks[i - 1])
    BY <2>10
  <2>16. ASSUME NEW i \in DOMAIN new
         PROVE  new[i].number \notin f \ {n} /\ new[i].number <= latestBlock
    BY <2>8, <2>11, <2>13, <2>15
  <2>17. ASSUME NEW i \in DOMAIN new, NEW j \in DOMAIN new, new[i].number = new[j].number
         PROVE  i = j
    <3>1. i \in Nat /\ j \in Nat
      BY <2>10
    <3>2. ASSUME NEW k \in DOMAIN new, k # 1 PROVE new[k].number # n
      BY <2>8, <2>13, <2>15, <3>2
    <3>3. CASE i # 1 /\ j # 1
      <4>1. i - 1 = j - 1
        BY <2>13, <2>15, <2>17, <3>3
      <4>2. QED
        BY <3>1, <4>1
    <3>4. QED
      BY <2>11, <2>17, <3>2, <3>3
  <2>18. ASSUME NEW i \in DOMAIN new, new[i].number = latestBlock
         PROVE  i + (room - 1) <= MAX_BLOCKS
    <3>1. CASE i = 1
      BY <2>9, <2>13, <2>14, <3>1
    <3>2. CASE i > 1 /\ i - 1 \in DOMAIN blocks /\ new[i] = blocks[i - 1]
      <4>1. (i - 1) + room <= MAX_BLOCKS
        BY <2>13, <2>18, <3>2
      <4>2. i \in Nat
        BY <2>10
      <4>3. QED
        BY <2>9, <2>14, <4>1, <4>2
    <3>3. QED
      BY <2>15, <3>1, <3>2
  <2>19. ASSUME latestBlock > 0
         PROVE  (\E i \in DOMAIN new : new[i].number = latestBlock) \/ latestBlock \in f \ {n}
    <3>1. CASE latestBlock = n
      <4>1. 1 \in DOMAIN new
        BY <2>10
      <4>2. QED
        BY <2>11, <3>1, <4>1
    <3>2. CASE latestBlock \in f /\ latestBlock # n
      BY <3>2
    <3>3. CASE latestBlock \in Explorer!Numbers
      <4>1. PICK i \in DOMAIN blocks : blocks[i].number = latestBlock
        BY <3>3 DEF Explorer!Numbers
      <4>2. i < MAX_BLOCKS
        <5>1. i + room <= MAX_BLOCKS /\ i \in Nat
          BY <2>10, <2>13, <4>1
        <5>2. QED
          BY <2>9, <2>14, <5>1
      <4>3. i + 1 \in DOMAIN new /\ new[i + 1] = blocks[i]
        BY <2>10, <4>2
      <4>4. QED
        BY <4>1, <4>3
    <3>4. QED
      BY <2>13, <2>19, <3>1, <3>2, <3>3
  <2>20. latestBlock > 0 => latestBlock \in Explorer!Numbers' \cup (f \ {n})
    BY <2>12, <2>19 DEF Explorer!Numbers
  <2>21. /\ links'[last'].seen = links[last].seen /\ links'[last'].fetching = f \ {n}
         /\ latestBlock' = latestBlock
    BY <1>1, <2>4, <2>5
  <2>22. RowsFollow'
    <3>1. latestBlock' = links'[last'].seen /\ Cardinality(links'[last'].fetching) <= MAX_BLOCKS
      BY <2>9, <2>13, <2>14, <2>21
    <3>2. \A m \in links'[last'].fetching : m <= latestBlock'
      BY <2>13, <2>21
    <3>3. \A i \in DOMAIN blocks' : /\ blocks'[i].number \notin links'[last'].fetching
                                  /\ blocks'[i].number <= latestBlock'
      BY <2>12, <2>16, <2>21
    <3>4. \A i, j \in DOMAIN blocks' : blocks'[i].number = blocks'[j].number => i = j
      BY <2>12, <2>17
    <3>5. \A i \in DOMAIN blocks' : blocks'[i].number = latestBlock' =>
            i + Cardinality(links'[last'].fetching) <= MAX_BLOCKS
      BY <2>9, <2>12, <2>18, <2>21
    <3>6. latestBlock' > 0 => latestBlock' \in Explorer!Numbers' \cup links'[last'].fetching
      BY <2>20, <2>21
    <3>7. QED
      BY <3>1, <3>2, <3>3, <3>4, <3>5, <3>6 DEF RowsFollow
  <2>23. QED
    BY <2>7, <2>22
<1>3. QED
  BY <1>1, <1>2 DEF Feed

LEMMA FeedStep ==
  ASSUME ExplorerTypes, Feed, ExplorerStepOrNot
  PROVE  Feed'
<1>1. CASE Explorer!NewBlock \/ UNCHANGED explorerVars
  <2>1. UNCHANGED <<strict, mounted, connected, connecting, latestBlock, blocks, links, unsubRef>>
    BY <1>1 DEF Explorer!NewBlock, Explorer!face, Explorer!refs, explorerVars
  <2>2. QED
    BY <2>1, FeedStays
<1>2. CASE Explorer!Leave
  BY <1>2 DEF Explorer!Leave, Feed
<1>3. QED
  BY <1>1, <1>2, FeedMount, FeedReconnect, FeedCreateFails, FeedCreated, FeedLoseLink,
     FeedNewHead, FeedFetched, FeedUnmark
  DEF ExplorerStepOrNot, Explorer!Next, Explorer!LinkStep

LEMMA ExplorerInit == Init => ExplorerTypes /\ Feed
<1> SUFFICES ASSUME Init PROVE ExplorerTypes /\ Feed
  OBVIOUS
<1> USE DEF Init, Explorer!Init
<1>1. MAX_BLOCKS \in Nat \ {0} /\ MaxHead \in Nat \ {0} /\ MaxLost \in Nat
  BY PagesConstants DEF Explorer!ExplorerConstants
<1>2. links = << >> /\ blocks = << >> /\ Len(links) = 0 /\ Len(blocks) = 0
  OBVIOUS
<1>3. ExplorerTypes
  <2>1. blocks \in Seq(Rows) /\ links \in Seq(Links)
    OBVIOUS
  <2>2. 1 \in 1..MaxHead /\ 0 \in 0..head /\ 0 \in 0..MaxLost /\ 0 \in 0..Len(links)
    BY <1>1, <1>2
  <2>3. strict \in BOOLEAN /\ mounted \in BOOLEAN /\ connected \in BOOLEAN /\ connecting \in BOOLEAN
    OBVIOUS
  <2>4. head \in 1..MaxHead /\ latestBlock \in 0..head /\ lost \in 0..MaxLost
        /\ Len(blocks) <= MAX_BLOCKS /\ apiRef \in 0..Len(links) /\ unsubRef \in 0..Len(links)
    BY <1>1, <1>2, <2>2
  <2> HIDE DEF Rows, Links, Init, Explorer!Init
  <2>5. QED
    BY <2>1, <2>3, <2>4 DEF ExplorerTypes
<1>4. Feed
  BY DEF Feed
<1>5. QED
  BY <1>3, <1>4

LEMMA ExplorerInvariant == Spec => [](ExplorerTypes /\ Feed)
<1>1. ExplorerTypes /\ Feed /\ [Next]_vars => (ExplorerTypes /\ Feed)'
  <2> SUFFICES ASSUME ExplorerTypes, Feed, [Next]_vars PROVE ExplorerTypes' /\ Feed'
    OBVIOUS
  <2>1. ExplorerStepOrNot
    BY VisitSteps DEF ExplorerStepOrNot
  <2>2. QED
    BY <2>1, ExplorerTypesStep, FeedStep
<1>2. QED
  BY <1>1, ExplorerInit, PTL DEF Spec

(* Rows with different numbers are as many numbers as rows.                *)
LEMMA RowsCounted ==
  ASSUME ExplorerTypes, \A i, j \in DOMAIN blocks : blocks[i].number = blocks[j].number => i = j
  PROVE  Explorer!Cardinality(Explorer!Numbers) = Len(blocks)
<1> DEFINE number == [i \in 1..Len(blocks) |-> blocks[i].number]
<1>1. DOMAIN blocks = 1..Len(blocks) /\ Len(blocks) \in Nat
  BY DEF ExplorerTypes
<1>2. number \in Bijection(1..Len(blocks), Explorer!Numbers)
  <2>1. number \in [1..Len(blocks) -> Explorer!Numbers]
    BY <1>1 DEF Explorer!Numbers
  <2>2. \A i, j \in 1..Len(blocks) : number[i] = number[j] => i = j
    BY <1>1
  <2>3. \A n \in Explorer!Numbers : \E i \in 1..Len(blocks) : number[i] = n
    BY <1>1 DEF Explorer!Numbers
  <2> HIDE DEF number
  <2>4. QED
    BY <2>1, <2>2, <2>3 DEF Bijection, Injection, Surjection, IsInjective
<1> HIDE DEF number
<1>3. IsFiniteSet(1..Len(blocks)) /\ Cardinality(1..Len(blocks)) = Len(blocks)
  BY <1>1, FS_Interval
<1>4. Cardinality(Explorer!Numbers) = Len(blocks)
  <2>1. ExistsBijection(1..Len(blocks), Explorer!Numbers)
    BY <1>2 DEF ExistsBijection
  <2>2. QED
    BY <1>3, <2>1, FS_Bijection
<1>5. QED
  BY <1>4 DEF Explorer!Cardinality, Cardinality

(* Unless it was connected twice, an open page has a row for the block it  *)
(* calls the latest, or is fetching it, and no block has two rows, however *)
(* late the blocks come and in whatever order.                             *)
THEOREM PagesFeedSound == Spec => []FeedSound
<1>1. ExplorerTypes /\ Feed => FeedSound
  <2> SUFFICES ASSUME ExplorerTypes, Feed, mounted, ~strict
               PROVE  /\ latestBlock > 0 =>
                           latestBlock \in Explorer!Numbers \cup Explorer!Fetching
                      /\ Explorer!Cardinality(Explorer!Numbers) = Len(blocks)
    BY DEF FeedSound, Explorer!FeedSound
  <2>1. OneLink /\ RowsFollow
    BY DEF Feed
  <2>2. links[last].fetching \subseteq Explorer!Fetching
    BY <2>1, ServedByLast DEF Explorer!Fetching
  <2>3. latestBlock > 0 => latestBlock \in Explorer!Numbers \cup Explorer!Fetching
    BY <2>1, <2>2 DEF RowsFollow
  <2>4. QED
    BY <2>1, <2>3, RowsCounted DEF RowsFollow
<1>2. QED
  BY <1>1, ExplorerInvariant, PTL

-----------------------------------------------------------------------------
(* The login pages.  Whatever a tab is told, or is about to be told, has   *)
(* been true of its browser's session since its page was loaded.           *)
TabRecords == [pc : {"idle", "submitted", "profile", "told", "checking", "admin"},
               who : Sessions!Users \cup {NoOne}, sent : Sessions!Users \cup {NoOne}]
AuthRecords == [pc : {"settled", "asking", "told"}, voter : Emails \cup {NoOne}]

HadOrNobody(t) == had[t] \cup {NoOne}

Seen(t) ==
  /\ Sessions!Session(t) \in HadOrNobody(t)
  /\ tab[t].pc = "told" => tab[t].who \in HadOrNobody(t) /\ tab[t].who \in Emails \cup {NoOne}
  /\ tab[t].pc = "admin" => Admin \in had[t]
  /\ auth[t].pc = "told" => auth[t].voter \in HadOrNobody(t)
  /\ user[t] \in HadOrNobody(t)
  /\ t \in admin => Admin \in had[t]

SessionsInv == Sessions!TypeOK /\ \A t \in Tabs : Seen(t)

(* What a tab's own step leaves of the other tabs.                         *)
LEMMA TabAlone ==
  ASSUME Sessions!TypeOK, NEW u \in Tabs, Sessions!TabStep(u), NEW t \in Tabs, t # u
  PROVE  /\ tab'[t] = tab[t] /\ user'[t] = user[t] /\ auth'[t] = auth[t]
         /\ t \in admin' <=> t \in admin
<1>1. /\ tab \in [Tabs -> TabRecords] /\ user \in [Tabs -> Emails \cup {NoOne}]
      /\ auth \in [Tabs -> AuthRecords]
  BY DEF Sessions!TypeOK, TabRecords, AuthRecords
<1>2. QED
  BY <1>1 DEF Sessions!TabStep, Sessions!Submit, Sessions!LogIn, Sessions!NoLogin,
     Sessions!Profile, Sessions!ShowProfile, Sessions!Reload, Sessions!CheckAuth,
     Sessions!ShowAuth, Sessions!Logout, Sessions!OpenAdmin, Sessions!CheckAdmin,
     Sessions!ShowAdmin, Sessions!AdminLogout, Sessions!ToPage, Sessions!GoTo

(* A session that is replaced or ended is remembered, and only a reload    *)
(* forgets.                                                                *)
LEMMA SessionSet ==
  ASSUME SessionsInv, NEW u \in Tabs, NEW v \in Sessions!Users \cup {NoOne},
         Sessions!SetSession(u, v), browser' = browser
  PROVE  /\ session' \in [Browsers -> Sessions!Users \cup {NoOne}]
         /\ had' \in [Tabs -> SUBSET Sessions!Users]
         /\ v # NoOne => v \in had'[u]
         /\ \A t \in Tabs : had[t] \subseteq had'[t] /\ Sessions!Session(t)' \in HadOrNobody(t)'
<1>1. /\ browser \in [Tabs -> Browsers] /\ session \in [Browsers -> Sessions!Users \cup {NoOne}]
      /\ had \in [Tabs -> SUBSET Sessions!Users]
      /\ \A t \in Tabs : Sessions!Session(t) \in HadOrNobody(t)
  BY DEF SessionsInv, Seen, Sessions!TypeOK
<1>2. /\ session' = [session EXCEPT ![browser[u]] = v]
      /\ had' = [s \in Tabs |-> IF browser[s] = browser[u] THEN had[s] \cup ({v} \ {NoOne})
                                                          ELSE had[s]]
  BY DEF Sessions!SetSession
<1>3. ASSUME NEW t \in Tabs
      PROVE  had[t] \subseteq had'[t] /\ Sessions!Session(t)' \in HadOrNobody(t)'
  <2>1. CASE browser[t] = browser[u]
    BY <1>1, <1>2, <2>1 DEF Sessions!Session, HadOrNobody
  <2>2. CASE browser[t] # browser[u]
    BY <1>1, <1>2, <2>2 DEF Sessions!Session, HadOrNobody
  <2>3. QED
    BY <2>1, <2>2
<1>4. QED
  BY <1>1, <1>2, <1>3

LEMMA SessionKept ==
  ASSUME SessionsInv, UNCHANGED <<browser, session, had>>
  PROVE  /\ session' \in [Browsers -> Sessions!Users \cup {NoOne}]
         /\ had' \in [Tabs -> SUBSET Sessions!Users]
         /\ \A t \in Tabs : had[t] \subseteq had'[t] /\ Sessions!Session(t)' \in HadOrNobody(t)'
  BY DEF SessionsInv, Seen, Sessions!TypeOK, Sessions!Session, HadOrNobody

LEMMA SessionAfter ==
  ASSUME SessionsInv, NEW u \in Tabs, Sessions!TabStep(u), ~Sessions!Reload(u)
  PROVE  /\ browser' = browser
         /\ session' \in [Browsers -> Sessions!Users \cup {NoOne}]
         /\ had' \in [Tabs -> SUBSET Sessions!Users]
         /\ \A t \in Tabs : had[t] \subseteq had'[t] /\ Sessions!Session(t)' \in HadOrNobody(t)'
<1>1. browser' = browser
  BY DEF Sessions!TabStep, Sessions!Submit, Sessions!LogIn, Sessions!NoLogin,
     Sessions!Profile, Sessions!ShowProfile, Sessions!Reload, Sessions!CheckAuth,
     Sessions!ShowAuth, Sessions!Logout, Sessions!OpenAdmin, Sessions!CheckAdmin,
     Sessions!ShowAdmin, Sessions!AdminLogout
<1>2. \/ UNCHANGED <<session, had>> \/ Sessions!SetSession(u, NoOne)
      \/ Sessions!SetSession(u, tab[u].who)
  BY DEF Sessions!TabStep, Sessions!Submit, Sessions!LogIn, Sessions!NoLogin,
     Sessions!Profile, Sessions!ShowProfile, Sessions!Reload, Sessions!CheckAuth,
     Sessions!ShowAuth, Sessions!Logout, Sessions!OpenAdmin, Sessions!CheckAdmin,
     Sessions!ShowAdmin, Sessions!AdminLogout
<1>3. tab[u].who \in Sessions!Users \cup {NoOne}
  BY DEF SessionsInv, Sessions!TypeOK
<1>4. QED
  BY <1>1, <1>2, <1>3, SessionSet, SessionKept

(* The tab that takes the step: what it is told and shows.                 *)
LEMMA OwnStep ==
  ASSUME SessionsInv, NEW u \in Tabs, Sessions!TabStep(u), ~Sessions!Reload(u)
  PROVE  /\ tab' \in [Tabs -> TabRecords] /\ user' \in [Tabs -> Emails \cup {NoOne}]
         /\ auth' \in [Tabs -> AuthRecords] /\ admin' \subseteq Tabs
         /\ Seen(u)'
<1> DEFINE Claim == /\ tab' \in [Tabs -> TabRecords] /\ user' \in [Tabs -> Emails \cup {NoOne}]
                    /\ auth' \in [Tabs -> AuthRecords] /\ admin' \subseteq Tabs
                    /\ Seen(u)'
<1>0. /\ tab \in [Tabs -> TabRecords] /\ user \in [Tabs -> Emails \cup {NoOne}]
      /\ auth \in [Tabs -> AuthRecords] /\ admin \subseteq Tabs
      /\ browser \in [Tabs -> Browsers] /\ session \in [Browsers -> Sessions!Users \cup {NoOne}]
      /\ Seen(u)
  BY DEF SessionsInv, Sessions!TypeOK, TabRecords, AuthRecords
<1>1. had[u] \subseteq had'[u] /\ Sessions!Session(u)' \in HadOrNobody(u)'
  BY SessionAfter
<1>2. Sessions!Idle \in TabRecords /\ Sessions!Idle.pc = "idle"
  BY DEF Sessions!Idle, TabRecords
<1>3. Sessions!Session(u) \in Sessions!Users \cup {NoOne}
  BY <1>0 DEF Sessions!Session
<1>4. Sessions!Profiles(u) \subseteq Emails \cup {NoOne}
      /\ Sessions!Profiles(u) \subseteq HadOrNobody(u)
  BY <1>0, <1>3 DEF Sessions!Profiles, Sessions!Users, Seen, HadOrNobody
<1>5. ASSUME Sessions!ToPage(u)
      PROVE  tab' \in [Tabs -> TabRecords] /\ tab'[u].pc = "idle"
  BY <1>0, <1>2, <1>5 DEF Sessions!ToPage
<1>6. ASSUME NEW v \in Sessions!Users, Sessions!Submit(u, v)
      PROVE  Claim
  <2>1. tab' = [tab EXCEPT ![u] = [pc |-> "submitted", who |-> v, sent |-> Sessions!Session(u)]]
    BY <1>6 DEF Sessions!Submit
  <2>2. tab' \in [Tabs -> TabRecords] /\ tab'[u].pc = "submitted"
    BY <1>0, <1>3, <2>1 DEF TabRecords
  <2>3. UNCHANGED <<user, auth, admin>>
    BY <1>6 DEF Sessions!Submit
  <2>4. QED
    BY <1>0, <1>1, <2>2, <2>3 DEF Seen, HadOrNobody
<1>7. CASE Sessions!LogIn(u)
  <2>1. UNCHANGED <<browser, user, auth, admin>>
    BY <1>7 DEF Sessions!LogIn
  <2>2. CASE Sessions!ToPage(u)
    BY <1>0, <1>1, <1>5, <2>1, <2>2 DEF Seen, HadOrNobody
  <2>3. CASE ~Sessions!ToPage(u)
    <3> DEFINE pc == IF tab[u].who = Admin THEN "admin" ELSE "profile"
               record == [Sessions!Idle EXCEPT !.pc = pc]
    <3>1. tab' = [tab EXCEPT ![u] = record] /\ Sessions!SetSession(u, tab[u].who)
      BY <1>7, <2>3 DEF Sessions!LogIn
    <3>2. record \in TabRecords /\ record.pc = pc
      BY <1>2 DEF TabRecords
    <3> HIDE DEF record
    <3>3. tab' \in [Tabs -> TabRecords] /\ tab'[u].pc = pc
      BY <1>0, <3>1, <3>2
    <3>4. tab[u].who \in Sessions!Users \cup {NoOne}
      BY <1>0 DEF TabRecords
    <3>5. pc = "admin" => Admin \in had'[u]
      BY <2>1, <3>1, <3>4, SessionSet, PagesConstants DEF Sessions!SessionConstants
    <3>6. QED
      BY <1>0, <1>1, <2>1, <3>3, <3>5 DEF Seen, HadOrNobody
  <2>4. QED
    BY <2>2, <2>3
<1>8. CASE Sessions!NoLogin(u)
  BY <1>0, <1>1, <1>5, <1>8 DEF Sessions!NoLogin, Seen, HadOrNobody
<1>9. CASE Sessions!Profile(u)
  <2>1. PICK v \in Sessions!Profiles(u) :
              tab' = [tab EXCEPT ![u] = [Sessions!Idle EXCEPT !.pc = "told", !.who = v]]
    BY <1>9 DEF Sessions!Profile
  <2> DEFINE record == [Sessions!Idle EXCEPT !.pc = "told", !.who = v]
  <2>2. record \in TabRecords /\ record.pc = "told" /\ record.who = v
    BY <1>2, <1>4 DEF Sessions!Idle, TabRecords, Sessions!Users
  <2> HIDE DEF record
  <2>3. tab' \in [Tabs -> TabRecords] /\ tab'[u].pc = "told" /\ tab'[u].who = v
    BY <1>0, <2>1, <2>2 DEF record
  <2>4. UNCHANGED <<user, auth, admin>>
    BY <1>9 DEF Sessions!Profile
  <2>5. QED
    BY <1>0, <1>1, <1>4, <2>3, <2>4 DEF Seen, HadOrNobody
<1>10. CASE Sessions!ShowProfile(u)
  <2>1. tab[u].who \in HadOrNobody(u) /\ tab[u].who \in Emails \cup {NoOne}
    BY <1>0, <1>10 DEF Sessions!ShowProfile, Sessions!At, Seen
  <2>2. user' \in [Tabs -> Emails \cup {NoOne}] /\ user'[u] \in HadOrNobody(u)
    <3>1. CASE user' = user
      BY <1>0, <3>1 DEF Seen
    <3>2. CASE user' = [user EXCEPT ![u] = tab[u].who]
      BY <1>0, <2>1, <3>2
    <3>3. QED
      BY <1>10, <3>1, <3>2 DEF Sessions!ShowProfile
  <2>3. UNCHANGED <<auth, admin>> /\ Sessions!ToPage(u)
    BY <1>10 DEF Sessions!ShowProfile
  <2>4. QED
    BY <1>0, <1>1, <1>5, <2>2, <2>3 DEF Seen, HadOrNobody
<1>11. CASE Sessions!CheckAuth(u)
  <2>1. PICK v \in Sessions!Profiles(u) :
              auth' = [auth EXCEPT ![u] = [pc |-> "told", voter |-> v]]
    BY <1>11 DEF Sessions!CheckAuth
  <2>2. auth' \in [Tabs -> AuthRecords] /\ auth'[u].voter = v
    BY <1>0, <1>4, <2>1 DEF AuthRecords
  <2>3. UNCHANGED <<tab, user, admin>>
    BY <1>11 DEF Sessions!CheckAuth
  <2>4. QED
    BY <1>0, <1>1, <1>4, <2>2, <2>3 DEF Seen, HadOrNobody
<1>12. CASE Sessions!ShowAuth(u)
  <2>1. /\ user' = [user EXCEPT ![u] = auth[u].voter]
        /\ auth' = [auth EXCEPT ![u] = Sessions!Settled] /\ UNCHANGED <<tab, admin>>
        /\ auth[u].pc = "told"
    BY <1>12 DEF Sessions!ShowAuth
  <2>2. Sessions!Settled \in AuthRecords /\ Sessions!Settled.pc = "settled"
    BY DEF Sessions!Settled, AuthRecords
  <2>3. auth[u].voter \in Emails \cup {NoOne} /\ auth[u].voter \in HadOrNobody(u)
    BY <1>0, <2>1 DEF AuthRecords, Seen
  <2>4. /\ auth' \in [Tabs -> AuthRecords] /\ auth'[u].pc = "settled"
        /\ user' \in [Tabs -> Emails \cup {NoOne}] /\ user'[u] = auth[u].voter
    BY <1>0, <2>1, <2>2, <2>3
  <2>5. QED
    BY <1>0, <1>1, <2>1, <2>3, <2>4 DEF Seen, HadOrNobody
<1>13. CASE Sessions!Logout(u)
  <2>1. user' \in {user, [user EXCEPT ![u] = NoOne]} /\ UNCHANGED <<tab, auth, admin>>
    BY <1>13 DEF Sessions!Logout
  <2>2. user' \in [Tabs -> Emails \cup {NoOne}] /\ user'[u] \in {user[u], NoOne}
    BY <1>0, <2>1
  <2>3. QED
    BY <1>0, <1>1, <2>1, <2>2 DEF Seen, HadOrNobody
<1>14. CASE Sessions!OpenAdmin(u) \/ Sessions!CheckAdmin(u)
  <2>1. UNCHANGED <<browser, session, had, user, auth, admin>>
    BY <1>14 DEF Sessions!OpenAdmin, Sessions!CheckAdmin
  <2>2. CASE Sessions!ToPage(u)
    BY <1>0, <1>1, <1>5, <2>1, <2>2 DEF Seen, HadOrNobody
  <2>3. CASE Sessions!GoTo(u, "checking")
    <3>1. tab' \in [Tabs -> TabRecords] /\ tab'[u].pc = "checking"
      BY <1>0, <2>3 DEF Sessions!GoTo, TabRecords
    <3>2. QED
      BY <1>0, <1>1, <2>1, <3>1 DEF Seen, HadOrNobody
  <2>4. CASE Sessions!check_admin_auth(u) /\ Sessions!GoTo(u, "admin")
    <3>1. tab' \in [Tabs -> TabRecords] /\ tab'[u].pc = "admin"
      BY <1>0, <2>4 DEF Sessions!GoTo, TabRecords
    <3>2. Admin \in had[u]
      BY <1>0, <2>4, PagesConstants
         DEF Seen, HadOrNobody, Sessions!check_admin_auth, Sessions!SessionConstants
    <3>3. QED
      BY <1>0, <1>1, <2>1, <3>1, <3>2 DEF Seen, HadOrNobody
  <2>5. QED
    BY <1>14, <2>2, <2>3, <2>4 DEF Sessions!OpenAdmin, Sessions!CheckAdmin
<1>15. CASE Sessions!ShowAdmin(u)
  <2>1. admin' = admin \cup {u} /\ Sessions!ToPage(u) /\ UNCHANGED <<user, auth>>
        /\ Admin \in had[u]
    BY <1>0, <1>15 DEF Sessions!ShowAdmin, Sessions!At, Seen
  <2>2. QED
    BY <1>0, <1>1, <1>5, <2>1 DEF Seen, HadOrNobody
<1>16. CASE Sessions!AdminLogout(u)
  BY <1>0, <1>1, <1>16 DEF Sessions!AdminLogout, Seen, HadOrNobody
<1>17. QED
  BY <1>6, <1>7, <1>8, <1>9, <1>10, <1>11, <1>12, <1>13, <1>14, <1>15, <1>16
     DEF Sessions!TabStep

(* A reload forgets all that was seen, the session excepted.               *)
LEMMA ReloadStep ==
  ASSUME SessionsInv, NEW u \in Tabs, Sessions!Reload(u)
  PROVE  SessionsInv'
<1>0. /\ tab \in [Tabs -> TabRecords] /\ user \in [Tabs -> Emails \cup {NoOne}]
      /\ auth \in [Tabs -> AuthRecords] /\ admin \subseteq Tabs
      /\ browser \in [Tabs -> Browsers] /\ session \in [Browsers -> Sessions!Users \cup {NoOne}]
      /\ had \in [Tabs -> SUBSET Sessions!Users]
  BY DEF SessionsInv, Sessions!TypeOK, TabRecords, AuthRecords
<1>1. /\ tab' = [tab EXCEPT ![u] = Sessions!Idle] /\ user' = [user EXCEPT ![u] = NoOne]
      /\ admin' = admin \ {u}
      /\ auth' = [auth EXCEPT ![u] = [pc |-> "asking", voter |-> NoOne]]
      /\ had' = [had EXCEPT ![u] = {Sessions!Session(u)} \ {NoOne}]
      /\ UNCHANGED <<browser, session>>
  BY DEF Sessions!Reload, Sessions!ToPage
<1>2. Sessions!Session(u) \in Sessions!Users \cup {NoOne}
  BY <1>0 DEF Sessions!Session
<1>3. Sessions!Idle \in TabRecords /\ [pc |-> "asking", voter |-> NoOne] \in AuthRecords
  BY DEF Sessions!Idle, TabRecords, AuthRecords
<1>4. Sessions!TypeOK'
  <2>1. tab' \in [Tabs -> TabRecords] /\ auth' \in [Tabs -> AuthRecords]
    BY <1>0, <1>1, <1>3
  <2>2. had' \in [Tabs -> SUBSET Sessions!Users]
    BY <1>0, <1>1, <1>2
  <2>3. QED
    BY <1>0, <1>1, <2>1, <2>2 DEF Sessions!TypeOK, TabRecords, AuthRecords
<1>5. Seen(u)'
  <2>1. /\ tab'[u] = Sessions!Idle /\ user'[u] = NoOne /\ u \notin admin'
        /\ auth'[u] = [pc |-> "asking", voter |-> NoOne]
        /\ had'[u] = {Sessions!Session(u)} \ {NoOne}
    BY <1>0, <1>1
  <2>2. QED
    BY <1>1, <2>1 DEF Seen, HadOrNobody, Sessions!Idle, Sessions!Session
<1>6. ASSUME NEW t \in Tabs, t # u
      PROVE  Seen(t)'
  <2>1. /\ tab'[t] = tab[t] /\ user'[t] = user[t] /\ auth'[t] = auth[t] /\ had'[t] = had[t]
        /\ t \in admin' <=> t \in admin
    BY <1>0, <1>1, <1>6
  <2>2. Seen(t)
    BY DEF SessionsInv
  <2>3. QED
    BY <1>1, <2>1, <2>2 DEF Seen, HadOrNobody, Sessions!Session
<1>7. QED
  BY <1>4, <1>5, <1>6 DEF SessionsInv

LEMMA SessionsStep ==
  ASSUME SessionsInv, Sessions!Next \/ UNCHANGED sessionVars
  PROVE  SessionsInv'
<1>1. CASE UNCHANGED sessionVars
  BY <1>1 DEF SessionsInv, sessionVars, Seen, HadOrNobody, Sessions!TypeOK, Sessions!Session
<1>2. ASSUME NEW u \in Tabs, Sessions!TabStep(u), ~Sessions!Reload(u)
      PROVE  SessionsInv'
  <2>1. browser' = browser /\ browser \in [Tabs -> Browsers]
    BY <1>2, SessionAfter DEF SessionsInv, Sessions!TypeOK
  <2>2. Sessions!TypeOK'
    BY <1>2, <2>1, SessionAfter, OwnStep DEF Sessions!TypeOK, TabRecords, AuthRecords
  <2>3. ASSUME NEW t \in Tabs, t # u
        PROVE  Seen(t)'
    <3>1. /\ tab'[t] = tab[t] /\ user'[t] = user[t] /\ auth'[t] = auth[t]
          /\ t \in admin' <=> t \in admin
      BY <1>2, <2>3, TabAlone DEF SessionsInv
    <3>2. had[t] \subseteq had'[t] /\ Sessions!Session(t)' \in HadOrNobody(t)'
      BY <1>2, SessionAfter
    <3>3. Seen(t)
      BY DEF SessionsInv
    <3>4. QED
      BY <3>1, <3>2, <3>3 DEF Seen, HadOrNobody
  <2>4. QED
    BY <1>2, <2>2, <2>3, OwnStep DEF SessionsInv
<1>3. QED
  BY <1>1, <1>2, ReloadStep DEF Sessions!Next

LEMMA SessionsInvariant == Spec => []SessionsInv
<1>1. Init => SessionsInv
  <2> SUFFICES ASSUME Init PROVE SessionsInv
    OBVIOUS
  <2>1. Sessions!Init
    BY DEF Init
  <2>2. Sessions!TypeOK
    BY <2>1 DEF Sessions!Init, Sessions!TypeOK, Sessions!Idle, Sessions!Settled
  <2>3. ASSUME NEW t \in Tabs
        PROVE  Seen(t)
    BY <2>1 DEF Sessions!Init, Seen, HadOrNobody, Sessions!Idle, Sessions!Settled,
       Sessions!Session
  <2>4. QED
    BY <2>2, <2>3 DEF SessionsInv
<1>2. SessionsInv /\ [Next]_vars => SessionsInv'
  BY SessionsStep, VisitSteps
<1>3. QED
  BY <1>1, <1>2, PTL DEF Spec

(* Whom a page shows has had the session of its browser since the page was *)
(* loaded, however requests, answers and other tabs' logins interleave.    *)
THEOREM PagesShownSinceLoaded == Spec => []ShownSinceLoaded
<1>1. SessionsInv => ShownSinceLoaded
  BY DEF SessionsInv, Seen, HadOrNobody, ShownSinceLoaded, Sessions!ShownSinceLoaded
<1>2. QED
  BY <1>1, SessionsInvariant, PTL

-----------------------------------------------------------------------------
(* The chain, the pages, their polls, connections and sessions keep their  *)
(* types.                                                                  *)
THEOREM PagesTypeCorrect == Spec => []TypeOK
<1>1. ResultsInv => Results!TypeOK
  <2> SUFFICES ASSUME ResultsInv PROVE Results!TypeOK
    OBVIOUS
  <2>1. MaxU32 \in Nat /\ Counting /\ PageTypes
    BY PagesConstants DEF ResultsInv, Results!ResultsConstants
  <2>2. Results!Ballot \in Results!Chain!EncryptedVote
    BY DEF Results!Ballot, Results!Chain!EncryptedVote, Results!Chain!BoundedVec
  <2>3. Results!Chain!TypeOK
    <3>1. DOMAIN encryptedVotes \subseteq 0..MaxU32
      BY <2>1 DEF Counting
    <3>2. \A i \in DOMAIN encryptedVotes : encryptedVotes[i] \in Results!Chain!EncryptedVote
      BY <2>1, <2>2 DEF Counting
    <3>3. QED
      BY <2>1, <3>1, <3>2 DEF Counting, Reveals, Results!Chain!TypeOK,
         Results!Chain!ElectionPhase
  <2>4. \A p \in DOMAIN polls : polls[p] \in Polls
    BY <2>1 DEF PageTypes
  <2>5. QED
    BY <2>1, <2>3, <2>4 DEF PageTypes, Pages, Polls, Tallies, Results!TypeOK
<1>2. ExplorerTypes => Explorer!TypeOK
  BY DEF ExplorerTypes, Rows, Links, Heads, Explorer!TypeOK
<1>3. SessionsInv => Sessions!TypeOK
  BY DEF SessionsInv
<1>4. QED
  BY <1>1, <1>2, <1>3, ResultsInvariant, ExplorerInvariant, SessionsInvariant, PTL DEF TypeOK
=============================================================================
