-------------------------- MODULE RevealPanelProofs --------------------------
(***************************************************************************)
(* Theorems about counting, for any number of votes, posts and candidates. *)
(***************************************************************************)
EXTENDS RevealPanel, FiniteSetTheorems, SequenceTheorems, TLAPS

-----------------------------------------------------------------------------
(* What holds of every count, whoever counts.  The box is closed; the log  *)
(* names stored votes and candidates these name.                           *)
Named(i) == {decryptVote(i)[p] : p \in Posts}
Counted == revealedCount >= voteCounter /\ voteCounter > 0

Reveals == [vote_id : DOMAIN encryptedVotes, candidate_id : Candidates,
            vote_hash : RevealBytes]

Box ==
  /\ voteCounter \in 0..MaxU32 /\ hasVoted \subseteq Voters
  /\ encryptedVotes \in [0..(voteCounter - 1) -> Ballots]

Count ==
  /\ currentPhase \in {"Ended", "TallyComplete"}
  /\ tally \in [Candidates -> 0..MaxU32] /\ revealedCount \in 0..MaxU32
  /\ revealLog \in Seq(Reveals)
  /\ currentPhase = "TallyComplete" => Counted
  /\ \A n \in DOMAIN revealLog : revealLog[n].candidate_id \in Named(revealLog[n].vote_id)

(* The panel's count is never ahead of the chain's, and what it shows of   *)
(* the selected vote is what that vote names.                              *)
Panels ==
  [pc : {"off", "idle", "revealing"}, total : 0..MaxU32, revealed : 0..MaxU32,
   pendingVotes : SUBSET DOMAIN encryptedVotes, vote : DOMAIN encryptedVotes \cup {NoVote},
   plain : SUBSET Candidates, picked : SUBSET Candidates]

PanelInv ==
  /\ panel \in Panels /\ (panel.pc = "off" => panel = Off)
  /\ panel.revealed <= revealedCount /\ panel.total \in {0, voteCounter}
  /\ panel.vote = NoVote => panel.plain = {}
  /\ panel.vote # NoVote => panel.plain \subseteq Named(panel.vote)
  /\ panel.picked \subseteq panel.plain

RevealTx == [call : {"reveal"}, id : DOMAIN encryptedVotes, candidate : Candidates,
             hash : RevealBytes]
FinalizeTx == [call : {"finalize"}]

PoolInv ==
  /\ alice \in Seq(RevealTx \cup FinalizeTx) /\ Len(alice) <= MaxAdminTx
  /\ \A n \in DOMAIN alice :
       /\ alice[n].call = "reveal" => alice[n].candidate \in Named(alice[n].id)
       /\ alice[n].call = "finalize" => Counted

DisplayInv ==
  /\ display = NoDisplay \/ display \in [pc : {"on"}, subscribed : BOOLEAN,
                                         tally : [Candidates -> 0..MaxU32]]
  /\ panel = Off \/ display = NoDisplay
  /\ display = NoDisplay => reads = << >>
  /\ reads \in Seq(Seq(0..MaxU32))
  /\ \A k \in DOMAIN reads : Len(reads[k]) < Len(Listed)

CountInv == Box /\ Count /\ PanelInv /\ PoolInv

(* An orderly count: the votes are revealed one after the other, and a     *)
(* reveal is alone in the pool.                                            *)
PanelInOrder ==
  panel.pc # "off" =>
    /\ panel.total = voteCounter /\ panel.revealed = revealedCount
    /\ panel.pendingVotes = {i \in DOMAIN encryptedVotes : i >= revealedCount}
    /\ panel.vote \in {NoVote, revealedCount}

PoolInOrder ==
  \A n \in DOMAIN alice : alice[n].call = "reveal" =>
    /\ Len(alice) = 1 /\ panel.pc = "revealing"
    /\ alice[n].id = revealedCount

LogInOrder ==
  /\ Len(revealLog) = revealedCount /\ revealedCount <= voteCounter
  /\ \A n \in DOMAIN revealLog : revealLog[n].vote_id = n - 1

InOrder == PanelInOrder /\ PoolInOrder /\ LogInOrder

(* The votes counted so far whose reveal credited c.                       *)
CountedFor(c) == {i \in 0..(revealedCount - 1) : revealLog[i + 1].candidate_id = c}
TallyInOrder == \A c \in Candidates : tally[c] = Cardinality(CountedFor(c))

(* While results are shown nothing is counted, so what is read is current. *)
DisplayInOrder ==
  /\ \A k \in DOMAIN reads : \A j \in DOMAIN reads[k] : reads[k][j] = tally[Listed[j]]
  /\ display.pc = "on" /\ reads = << >> => display.tally = tally

-----------------------------------------------------------------------------
(* The candidates, and the order in which fetchTally asks for them.        *)
LEMMA CandidatesFinite == IsFiniteSet(Candidates) /\ Candidates # {}
<1>1. IsFiniteSet({CandidatesFor[p] : p \in Posts})
  <2> DEFINE f == [p \in Posts |-> CandidatesFor[p]]
  <2>1. f \in Surjection(Posts, {CandidatesFor[p] : p \in Posts})
    BY DEF Surjection
  <2> HIDE DEF f
  <2>2. QED
    BY <2>1, FS_Surjection, RevealConstants
<1>2. IsFiniteSet(Candidates)
  BY <1>1, FS_UNION, RevealConstants DEF Candidates
<1>3. QED
  BY <1>2, RevealConstants DEF Candidates

LEMMA ListedAll ==
  /\ Len(Listed) \in Nat \ {0} /\ DOMAIN Listed = 1..Len(Listed)
  /\ Listed \in Seq(Candidates)
  /\ \A c \in Candidates : \E n \in DOMAIN Listed : Listed[n] = c
<1> DEFINE N == Cardinality(Candidates)
<1>1. N \in Nat /\ ExistsBijection(1..N, Candidates) /\ N # 0
  BY CandidatesFinite, FS_CardinalityType, FS_EmptySet
<1> HIDE DEF N
<1>2. \E f \in [1..N -> Candidates] : IsInjective(f)
  BY <1>1 DEF ExistsBijection, Bijection, Injection
<1>3. Listed \in [1..N -> Candidates] /\ IsInjective(Listed)
  BY <1>2 DEF Listed, SetToSeq, N
<1>4. Listed \in Injection(1..N, Candidates)
  BY <1>3 DEF Injection
<1>5. IsFiniteSet(1..N) /\ Cardinality(1..N) = Cardinality(Candidates)
  BY <1>1, FS_Interval DEF N
<1>6. Listed \in Surjection(1..N, Candidates)
  BY <1>4, <1>5, CandidatesFinite, FS_Injection
<1>7. \A c \in Candidates : \E n \in 1..N : Listed[n] = c
  BY <1>6 DEF Surjection
<1>8. Listed \in Seq(Candidates) /\ Len(Listed) = N /\ DOMAIN Listed = 1..N
  BY <1>1, <1>3, SeqDef
<1>9. QED
  BY <1>1, <1>7, <1>8

(* A stored vote names one candidate of each post.                         *)
LEMMA BallotFields ==
  ASSUME NEW b \in Ballots
  PROVE  /\ b.encrypted_vote[2] \in Decrypted
         /\ b.encrypted_vote \in RevealBytes /\ b.blind_signature \in RevealBytes
         /\ b.vote_hash \in RevealBytes
         /\ b \in Chain!EncryptedVote
<1>1. PICK d \in Decrypted : b = [encrypted_vote |-> Cipher(d), blind_signature |-> Signature(d),
                                 vote_hash |-> Hash(d)]
  BY DEF Ballots
<1>2. {Cipher(d), Hash(d), Signature(d)} \subseteq RevealBytes
  BY DEF RevealBytes
<1>3. b.encrypted_vote[2] = d
  BY <1>1 DEF Cipher
<1>4. \A x \in RevealBytes : x \in Chain!BoundedVec(1)
  BY DEF Chain!BoundedVec
<1>5. b \in Chain!EncryptedVote
  BY <1>1, <1>2, <1>4 DEF Chain!EncryptedVote
<1>6. QED
  BY <1>1, <1>2, <1>3, <1>5

LEMMA StoredVotes ==
  ASSUME Box, NEW i \in DOMAIN encryptedVotes
  PROVE  /\ decryptVote(i) \in [Posts -> Candidates]
         /\ \A p \in Posts : decryptVote(i)[p] \in CandidatesFor[p]
         /\ Named(i) \subseteq Candidates
         /\ encryptedVotes[i].vote_hash \in RevealBytes
         /\ i \in Nat /\ i < voteCounter
         /\ \A c : c \in Named(i) <=> i \in BallotsFor(c)
<1>1. encryptedVotes[i] \in Ballots /\ i \in 0..(voteCounter - 1) /\ voteCounter \in Nat
  BY DEF Box
<1>2. decryptVote(i) \in Decrypted /\ encryptedVotes[i].vote_hash \in RevealBytes
  BY <1>1, BallotFields DEF decryptVote
<1>3. decryptVote(i) \in [Posts -> Candidates]
      /\ \A p \in Posts : decryptVote(i)[p] \in CandidatesFor[p]
  BY <1>2 DEF Decrypted
<1>4. \A c : c \in Named(i) <=> i \in BallotsFor(c)
  BY DEF Named, BallotsFor
<1>5. QED
  BY <1>1, <1>2, <1>3, <1>4 DEF Named

-----------------------------------------------------------------------------
(* What a sudo call does to the chain.                                     *)
Revealed(tx) ==
  /\ tx.call = "reveal" /\ currentPhase = "Ended"
  /\ tx.id \in DOMAIN encryptedVotes
  /\ tally' = [tally EXCEPT ![tx.candidate] = Chain!SaturatingInc(@, MaxU32)]
  /\ revealedCount' = Chain!SaturatingInc(revealedCount, MaxU32)
  /\ revealLog' = Append(revealLog, [vote_id |-> tx.id, candidate_id |-> tx.candidate,
                                     vote_hash |-> tx.hash])
  /\ UNCHANGED <<currentPhase, encryptedVotes, voteCounter, hasVoted>>

Finalized(tx) ==
  /\ tx.call = "finalize" /\ currentPhase' = "TallyComplete"
  /\ UNCHANGED <<encryptedVotes, voteCounter, hasVoted, tally, revealedCount, revealLog>>

LEMMA SudoEffect ==
  ASSUME NEW tx, RunSudo(tx)
  PROVE  UNCHANGED chain \/ Revealed(tx) \/ Finalized(tx)
<1>1. CASE tx.call = "reveal" /\ Chain!RevealVoteResult(tx.id, tx.hash) = "Ok"
  <2>1. currentPhase = "Ended" /\ tx.id \in DOMAIN encryptedVotes
    BY <1>1 DEF Chain!RevealVoteResult
  <2>2. Chain!RevealVote(tx.id, tx.candidate, tx.hash)
    BY <1>1 DEF RunSudo
  <2>3. QED
    BY <1>1, <2>1, <2>2 DEF Chain!RevealVote, Revealed
<1>2. CASE tx.call = "finalize" /\ Chain!PhaseResult("Ended") = "Ok"
  BY <1>2 DEF RunSudo, Chain!FinalizeTally, Finalized
<1>3. QED
  BY <1>1, <1>2 DEF RunSudo

(* The chain changes only when a sudo call comes into a block.             *)
LEMMA OnlySudo ==
  ASSUME [Next]_vars
  PROVE  UNCHANGED chain \/ IncludeSudo
  BY DEF Next, vars, Mount, MountFails, Leave, Finalize, VoteStep, DisplayStep, Offer, MountAs,
     SelectVote, DecryptVote, RevealSelected, Pick, Subscribe, ReadTally, ReadFails

LEMMA PoolHead ==
  ASSUME PoolInv, alice # << >>
  PROVE  /\ Head(alice) = alice[1] /\ 1 \in DOMAIN alice
         /\ alice[1] \in RevealTx \cup FinalizeTx
         /\ alice[1].call = "reveal" => alice[1] \in RevealTx
         /\ Len(alice) \in Nat /\ Len(Tail(alice)) = Len(alice) - 1
         /\ Tail(alice) \in Seq(RevealTx \cup FinalizeTx)
         /\ \A n \in DOMAIN Tail(alice) : n + 1 \in DOMAIN alice /\ Tail(alice)[n] = alice[n + 1]
<1> DEFINE T == RevealTx \cup FinalizeTx
<1>1. alice \in Seq(T)
  BY DEF PoolInv
<1> HIDE DEF T
<1>2. /\ Head(alice) = alice[1] /\ 1 \in DOMAIN alice /\ alice[1] \in T
      /\ Len(alice) \in Nat /\ Len(Tail(alice)) = Len(alice) - 1
      /\ Tail(alice) \in Seq(T)
      /\ \A n \in DOMAIN Tail(alice) : n + 1 \in DOMAIN alice /\ Tail(alice)[n] = alice[n + 1]
  BY <1>1
<1>3. \A tx \in T : tx.call = "reveal" => tx \in RevealTx
  BY DEF T, RevealTx, FinalizeTx
<1>4. QED
  BY <1>2, <1>3 DEF T

LEMMA BoxStep ==
  ASSUME CountInv, [Next]_vars
  PROVE  /\ UNCHANGED <<encryptedVotes, voteCounter, hasVoted>>
         /\ revealedCount \in Nat /\ revealedCount' \in Nat
         /\ revealedCount <= revealedCount'
         /\ Counted => Counted'
<1>0. /\ revealedCount \in 0..MaxU32 /\ MaxU32 \in Nat \ {0} /\ voteCounter \in Nat
  BY RevealConstants DEF CountInv, Count, Box
<1>1. CASE UNCHANGED chain
  BY <1>0, <1>1 DEF chain, Counted
<1>2. CASE IncludeSudo
  <2>1. UNCHANGED chain \/ Revealed(Head(alice)) \/ Finalized(Head(alice))
    BY <1>2, SudoEffect DEF IncludeSudo
  <2>2. QED
    BY <1>0, <1>1, <2>1 DEF Revealed, Finalized, Chain!SaturatingInc, Chain!Lesser, Counted
<1>3. QED
  BY <1>1, <1>2, OnlySudo

LEMMA CountStep ==
  ASSUME CountInv, [Next]_vars
  PROVE  Box' /\ Count'
<1>0. /\ revealedCount \in 0..MaxU32 /\ MaxU32 \in Nat \ {0} /\ Box /\ Count /\ PoolInv
  BY RevealConstants DEF CountInv, Count
<1>1. Box'
  BY BoxStep DEF CountInv, Box
<1>2. Reveals' = Reveals /\ encryptedVotes' = encryptedVotes
  BY BoxStep DEF Reveals
<1>3. CASE UNCHANGED chain
  <2>1. UNCHANGED <<currentPhase, tally, revealedCount, revealLog, voteCounter>>
    BY <1>3 DEF chain
  <2>2. \A n \in DOMAIN revealLog' : revealLog'[n].candidate_id \in Named(revealLog[n].vote_id)'
    BY <1>0, <1>2, <2>1 DEF Count, Named, decryptVote
  <2>3. QED
    BY <1>0, <1>1, <1>2, <2>1, <2>2 DEF Count, Counted
<1>4. CASE IncludeSudo /\ Revealed(Head(alice))
  <2> DEFINE tx == alice[1]
             reveal == [vote_id |-> tx.id, candidate_id |-> tx.candidate,
                        vote_hash |-> tx.hash]
  <2>1. /\ tx \in RevealTx /\ Revealed(tx) /\ tx.candidate \in Named(tx.id)
    BY <1>0, <1>4, PoolHead DEF IncludeSudo, Revealed, PoolInv
  <2>2. reveal \in Reveals
    BY <2>1 DEF RevealTx, Reveals
  <2>3. /\ revealLog' = Append(revealLog, reveal)
        /\ currentPhase' = currentPhase /\ currentPhase = "Ended"
    BY <2>1 DEF Revealed
  <2>4. reveal.candidate_id \in Named(reveal.vote_id)
    BY <2>1
  <2>5. /\ tally' = [tally EXCEPT ![tx.candidate] = Chain!SaturatingInc(@, MaxU32)]
        /\ revealedCount' = Chain!SaturatingInc(revealedCount, MaxU32)
    BY <2>1 DEF Revealed
  <2> HIDE DEF reveal, tx
  <2>6. revealLog \in Seq(Reveals) /\ revealLog' \in Seq(Reveals)
    BY <1>0, <2>2, <2>3 DEF Count
  <2>7. \A n \in DOMAIN revealLog' :
          revealLog'[n] = reveal \/ (n \in DOMAIN revealLog /\ revealLog'[n] = revealLog[n])
    <3>1. Len(revealLog) \in Nat /\ DOMAIN revealLog = 1..Len(revealLog)
      BY <2>6
    <3>2. /\ DOMAIN revealLog' = 1..(Len(revealLog) + 1)
          /\ revealLog'[Len(revealLog) + 1] = reveal
          /\ \A n \in 1..Len(revealLog) : revealLog'[n] = revealLog[n]
      BY <2>2, <2>3, <2>6, <3>1
    <3>3. \A n \in 1..(Len(revealLog) + 1) : n \in 1..Len(revealLog) \/ n = Len(revealLog) + 1
      BY <3>1
    <3>4. QED
      BY <3>1, <3>2, <3>3
  <2>8. \A n \in DOMAIN revealLog' : revealLog'[n].candidate_id \in Named(revealLog[n].vote_id)'
    BY <1>0, <1>2, <2>4, <2>7 DEF Count, Named, decryptVote
  <2>9. \A k \in 0..MaxU32 : Chain!SaturatingInc(k, MaxU32) \in 0..MaxU32
    BY <1>0 DEF Chain!SaturatingInc, Chain!Lesser
  <2>10. tally' \in [Candidates -> 0..MaxU32] /\ revealedCount' \in 0..MaxU32
    <3>1. tally \in [Candidates -> 0..MaxU32]
      BY <1>0 DEF Count
    <3>2. \A c \in Candidates : tally'[c] \in {tally[c], Chain!SaturatingInc(tally[c], MaxU32)}
      BY <2>5, <3>1
    <3>3. DOMAIN tally' = Candidates /\ tally' = [c \in Candidates |-> tally'[c]]
      BY <2>5, <3>1
    <3>4. \A c \in Candidates : tally'[c] \in 0..MaxU32
      BY <2>9, <3>1, <3>2
    <3>5. QED
      BY <1>0, <2>5, <2>9, <3>3, <3>4
  <2>11. QED
    <3>1. currentPhase' \in {"Ended", "TallyComplete"} /\ currentPhase' # "TallyComplete"
      BY <2>3
    <3>2. QED
      BY <1>1, <1>2, <2>6, <2>8, <2>10, <3>1 DEF Count
<1>5. CASE IncludeSudo /\ Finalized(Head(alice))
  <2>1. Counted
    BY <1>0, <1>5, PoolHead DEF IncludeSudo, Finalized, PoolInv
  <2>2. UNCHANGED <<tally, revealedCount, revealLog, voteCounter>> /\ currentPhase' = "TallyComplete"
    BY <1>5 DEF Finalized
  <2>3. \A n \in DOMAIN revealLog' : revealLog'[n].candidate_id \in Named(revealLog[n].vote_id)'
    BY <1>0, <1>2, <2>2 DEF Count, Named, decryptVote
  <2>4. QED
    BY <1>0, <1>1, <1>2, <2>1, <2>2, <2>3 DEF Count, Counted
<1>6. QED
  BY <1>1, <1>3, <1>4, <1>5, OnlySudo, SudoEffect DEF IncludeSudo

-----------------------------------------------------------------------------
(* The panel keeps to what the votes name.                                 *)
LEMMA OffPanel == Off \in Panels /\ Off.pc = "off" /\ Off.revealed = 0 /\ Off.total = 0
                  /\ Off.vote = NoVote /\ Off.plain = {} /\ Off.picked = {}
  BY RevealConstants DEF Off, Panels

LEMMA ShownPanel ==
  ASSUME CountInv, NEW shown \in Panels,
         shown.revealed <= revealedCount, shown.total \in {0, voteCounter},
         shown.vote = NoVote, shown.plain = {}, shown.picked = {},
         MountAs(shown), UNCHANGED <<encryptedVotes, voteCounter, revealedCount>>
  PROVE  PanelInv'
<1>1. panel' = [shown EXCEPT !.pc = "idle"]
  BY DEF MountAs
<1>2. panel' \in Panels
  BY <1>1 DEF Panels
<1>3. /\ panel'.pc = "idle" /\ panel'.revealed = shown.revealed /\ panel'.total = shown.total
      /\ panel'.vote = NoVote /\ panel'.plain = {} /\ panel'.picked = {}
  BY <1>1 DEF Panels
<1>4. Panels' = Panels
  BY DEF Panels
<1>5. QED
  BY <1>2, <1>3, <1>4 DEF PanelInv

LEMMA OffersPending ==
  ASSUME CountInv, NEW votes \in SUBSET DOMAIN encryptedVotes, Offer(votes),
         UNCHANGED <<encryptedVotes, voteCounter, revealedCount>>
  PROVE  PanelInv'
<1> DEFINE shown == [Off EXCEPT !.total = voteCounter, !.revealed = revealedCount,
                               !.pendingVotes = votes]
<1>1. voteCounter \in 0..MaxU32 /\ revealedCount \in 0..MaxU32
  BY DEF CountInv, Box, Count
<1>2. shown \in Panels
  BY <1>1, OffPanel DEF Panels
<1>3. /\ shown.revealed = revealedCount /\ shown.total = voteCounter
      /\ shown.vote = NoVote /\ shown.plain = {} /\ shown.picked = {}
  BY OffPanel DEF Panels
<1>4. MountAs(shown)
  BY DEF Offer
<1> HIDE DEF shown
<1>5. QED
  BY <1>1, <1>2, <1>3, <1>4, ShownPanel

LEMMA PanelStep ==
  ASSUME CountInv, [Next]_vars
  PROVE  PanelInv'
<1>0. /\ UNCHANGED <<encryptedVotes, voteCounter>> /\ Panels' = Panels /\ PanelInv
      /\ revealedCount \in Nat /\ revealedCount' \in Nat /\ revealedCount <= revealedCount'
      /\ voteCounter \in Nat /\ panel.revealed \in Nat
  <2>1. UNCHANGED <<encryptedVotes, voteCounter>> /\ revealedCount \in Nat
        /\ revealedCount' \in Nat /\ revealedCount <= revealedCount'
    BY BoxStep
  <2>2. Panels' = Panels
    BY <2>1 DEF Panels
  <2>3. PanelInv /\ voteCounter \in Nat
    BY DEF CountInv, Box
  <2>4. panel.revealed \in Nat
    BY <2>3 DEF PanelInv, Panels
  <2>5. QED
    BY <2>1, <2>2, <2>3, <2>4
<1>1. CASE panel' = Off
  BY <1>0, <1>1, OffPanel DEF PanelInv
<1>2. CASE panel' = panel
  BY <1>0, <1>2 DEF PanelInv, Named, decryptVote
<1>3. ASSUME UNCHANGED chain, Mount \/ MountFails
      PROVE  PanelInv'
  <2>0. UNCHANGED <<encryptedVotes, voteCounter, revealedCount>>
    BY <1>3 DEF chain
  <2>1. ASSUME NEW votes \in SUBSET DOMAIN encryptedVotes, Offer(votes)
        PROVE  PanelInv'
    BY <2>0, <2>1, OffersPending
  <2>2. ASSUME NEW total \in {0, voteCounter}, MountAs([Off EXCEPT !.total = total])
        PROVE  PanelInv'
    <3> DEFINE shown == [Off EXCEPT !.total = total]
    <3>1. total \in 0..MaxU32
      BY RevealConstants DEF CountInv, Box
    <3>2. /\ shown \in Panels /\ shown.revealed = 0 /\ shown.total = total
          /\ shown.vote = NoVote /\ shown.plain = {} /\ shown.picked = {}
      BY <3>1, OffPanel DEF Panels
    <3>3. MountAs(shown)
      BY <2>2
    <3> HIDE DEF shown
    <3>4. QED
      BY <1>0, <2>0, <3>2, <3>3, ShownPanel
  <2>3. QED
    BY <1>3, <2>1, <2>2 DEF Mount, MountFails
<1>4. ASSUME NEW i \in DOMAIN encryptedVotes, SelectVote(i)
      PROVE  PanelInv'
  <2>1. panel' = [panel EXCEPT !.vote = i, !.plain = {}, !.picked = {}] /\ panel.pc # "off"
    BY <1>4 DEF SelectVote
  <2>2. /\ panel' \in Panels /\ panel'.pc = panel.pc /\ panel'.revealed = panel.revealed
        /\ panel'.total = panel.total /\ panel'.plain = {} /\ panel'.picked = {}
    BY <1>0, <2>1 DEF PanelInv, Panels
  <2>3. QED
    BY <1>0, <2>1, <2>2 DEF PanelInv
<1>5. CASE DecryptVote
  <2>1. panel' = [panel EXCEPT !.plain = Named(panel.vote)] /\ panel.vote # NoVote
    BY <1>5 DEF DecryptVote, Named
  <2>2. panel.vote \in DOMAIN encryptedVotes
    BY <1>0, <2>1 DEF PanelInv, Panels
  <2>3. Named(panel.vote) \subseteq Candidates
    BY <2>2, StoredVotes DEF CountInv
  <2>4. /\ panel' \in Panels /\ panel'.pc = panel.pc /\ panel'.revealed = panel.revealed
        /\ panel'.total = panel.total /\ panel'.plain = Named(panel.vote)
        /\ panel'.picked = panel.picked /\ panel'.vote = panel.vote
    BY <1>0, <2>1, <2>3 DEF PanelInv, Panels
  <2>5. panel.pc # "off"
    BY <1>0, <2>1, OffPanel DEF PanelInv
  <2>6. panel'.plain \subseteq Named(panel.vote)'
    BY <1>0, <2>4 DEF Named, decryptVote
  <2>7. panel'.picked \subseteq panel'.plain
    BY <1>0, <2>1, <2>4 DEF PanelInv
  <2>8. QED
    BY <1>0, <2>1, <2>4, <2>5, <2>6, <2>7 DEF PanelInv
<1>6. ASSUME NEW p \in Posts, Pick(p)
      PROVE  PanelInv'
  <2>1. PICK ids \in SUBSET (panel.plain \cap CandidatesFor[p]) :
          panel' = [panel EXCEPT !.picked = (@ \ CandidatesFor[p]) \cup ids]
    BY <1>6 DEF Pick
  <2> DEFINE picks == (panel.picked \ CandidatesFor[p]) \cup ids
  <2>2. picks \subseteq panel.plain /\ panel' = [panel EXCEPT !.picked = picks]
    BY <1>0, <2>1 DEF PanelInv, Panels
  <2> HIDE DEF picks
  <2>3. /\ panel' \in Panels /\ panel'.pc = panel.pc /\ panel'.revealed = panel.revealed
        /\ panel'.total = panel.total /\ panel'.plain = panel.plain
        /\ panel'.picked = picks /\ panel'.vote = panel.vote
    BY <1>0, <2>2 DEF PanelInv, Panels
  <2>4. panel.pc # "off"
    BY <1>0, <1>6, OffPanel DEF PanelInv, Pick
  <2>5. QED
    BY <1>0, <2>2, <2>3, <2>4 DEF PanelInv, Named, decryptVote
<1>7. CASE RevealSelected
  <2>1. panel' = [panel EXCEPT !.pc = "revealing"]
    BY <1>7 DEF RevealSelected
  <2>2. /\ panel' \in Panels /\ panel'.pc = "revealing" /\ panel'.revealed = panel.revealed
        /\ panel'.total = panel.total /\ panel'.plain = panel.plain
        /\ panel'.picked = panel.picked /\ panel'.vote = panel.vote
    BY <1>0, <2>1 DEF PanelInv, Panels
  <2>3. QED
    BY <1>0, <2>2 DEF PanelInv, Named, decryptVote
<1>8. Mount \/ MountFails => UNCHANGED chain
  BY DEF Mount, MountFails, Offer, MountAs
<1>9. Leave \/ IncludeSudo => panel' = Off
  BY DEF Leave, IncludeSudo, ShowResults
<1>10. Finalize \/ DisplayStep \/ UNCHANGED vars => panel' = panel
  BY DEF Finalize, DisplayStep, Subscribe, ReadTally, ReadFails, vars, ui
<1>11. QED
  BY <1>1, <1>2, <1>3, <1>4, <1>5, <1>6, <1>7, <1>8, <1>9, <1>10 DEF Next, VoteStep

-----------------------------------------------------------------------------
(* What is in the pool was clicked on a panel that named it.               *)
LEMMA PoolStep ==
  ASSUME CountInv, [Next]_vars
  PROVE  PoolInv'
<1> DEFINE T == RevealTx \cup FinalizeTx
<1>0. /\ UNCHANGED <<encryptedVotes, voteCounter>> /\ T' = T
      /\ PoolInv /\ PanelInv /\ Box /\ Count /\ alice \in Seq(T)
      /\ Len(alice) \in Nat /\ DOMAIN alice = 1..Len(alice) /\ MaxAdminTx \in Nat
  <2>1. UNCHANGED <<encryptedVotes, voteCounter>>
    BY BoxStep
  <2>2. T' = T
    BY <2>1 DEF RevealTx, FinalizeTx
  <2>3. PoolInv /\ PanelInv /\ Box /\ Count /\ alice \in Seq(T)
    BY DEF CountInv, PoolInv
  <2>4. Len(alice) \in Nat /\ DOMAIN alice = 1..Len(alice)
    <3> HIDE DEF T
    <3>1. QED
      BY <2>3
  <2>5. QED
    BY <2>1, <2>2, <2>3, <2>4, RevealConstants
<1>1. ASSUME alice' \in Seq(T), Len(alice') <= MaxAdminTx,
             \A n \in DOMAIN alice' :
               /\ alice'[n].call = "reveal" => alice'[n].candidate \in Named(alice'[n].id)
               /\ alice'[n].call = "finalize" => Counted
      PROVE  PoolInv'
  <2>1. Counted => Counted'
    BY BoxStep
  <2>2. alice' \in Seq(T')
    BY <1>0, <1>1
  <2>3. \A n \in DOMAIN alice' : alice'[n].call = "reveal"
          => alice'[n].candidate \in Named(alice[n].id)'
    BY <1>0, <1>1 DEF Named, decryptVote
  <2>4. QED
    BY <1>1, <2>1, <2>2, <2>3 DEF PoolInv
<1>2. CASE alice' = alice
  BY <1>0, <1>1, <1>2 DEF PoolInv
<1>3. ASSUME NEW tx \in T, alice' = Append(alice, tx), Len(alice) < MaxAdminTx,
             tx.call = "reveal" => tx.candidate \in Named(tx.id),
             tx.call = "finalize" => Counted
      PROVE  PoolInv'
  <2> HIDE DEF T
  <2>1. alice' \in Seq(T) /\ Len(alice') = Len(alice) + 1 /\ Len(alice') <= MaxAdminTx
    BY <1>0, <1>3
  <2>2. \A n \in DOMAIN alice' : alice'[n] = tx \/ (n \in DOMAIN alice /\ alice'[n] = alice[n])
    BY <1>0, <1>3, <2>1
  <2>3. QED
    BY <1>0, <1>1, <1>3, <2>1, <2>2 DEF PoolInv
<1>4. CASE RevealSelected
  <2> DEFINE tx == [call |-> "reveal", id |-> panel.vote,
                    candidate |-> CHOOSE c \in panel.picked : TRUE,
                    hash |-> encryptedVotes[panel.vote].vote_hash]
  <2>1. alice' = Append(alice, tx) /\ Len(alice) < MaxAdminTx
        /\ panel.plain # {} /\ panel.picked # {}
    BY <1>4 DEF RevealSelected, RevealButton
  <2>2. panel.vote \in DOMAIN encryptedVotes /\ panel.plain \subseteq Named(panel.vote)
        /\ panel.picked \subseteq panel.plain /\ panel.picked \subseteq Candidates
    BY <1>0, <2>1 DEF PanelInv, Panels
  <2>3. (CHOOSE c \in panel.picked : TRUE) \in panel.picked
    BY <2>1
  <2>4. encryptedVotes[panel.vote].vote_hash \in RevealBytes
    BY <1>0, <2>2, StoredVotes
  <2>5. tx \in RevealTx
    BY <2>2, <2>3, <2>4 DEF RevealTx
  <2>6. tx.call = "reveal" /\ tx.candidate \in Named(tx.id)
    BY <2>2, <2>3
  <2> HIDE DEF tx
  <2>7. QED
    BY <1>3, <2>1, <2>5, <2>6
<1>5. CASE Finalize
  <2>1. Counted
    BY <1>0, <1>5 DEF Finalize, allRevealed, PanelInv, Panels, Counted, Count, Box
  <2>2. [call |-> "finalize"] \in T /\ [call |-> "finalize"].call = "finalize"
    BY DEF FinalizeTx
  <2>3. QED
    BY <1>3, <1>5, <2>1, <2>2 DEF Finalize
<1>6. CASE IncludeSudo
  <2>1. alice # << >> /\ alice' = Tail(alice)
    BY <1>6 DEF IncludeSudo
  <2>2. /\ alice' \in Seq(T) /\ Len(alice') <= MaxAdminTx
        /\ \A n \in DOMAIN alice' : n + 1 \in DOMAIN alice /\ alice'[n] = alice[n + 1]
    BY <1>0, <2>1, PoolHead DEF PoolInv
  <2>3. QED
    BY <1>0, <1>1, <2>2 DEF PoolInv
<1>7. RevealSelected \/ Finalize \/ IncludeSudo \/ alice' = alice
  BY DEF Next, vars, Mount, MountFails, Offer, MountAs, Leave, VoteStep, SelectVote, DecryptVote,
     Pick, DisplayStep, Subscribe, ReadTally, ReadFails
<1>8. QED
  BY <1>2, <1>4, <1>5, <1>6, <1>7

LEMMA CountInvInit == Init => CountInv
<1> SUFFICES ASSUME Init PROVE CountInv
  OBVIOUS
<1>1. Cardinality(hasVoted) \in Nat /\ Cardinality(hasVoted) <= Cardinality(Voters)
      /\ Cardinality(Voters) \in Nat
  BY FS_Subset, FS_CardinalityType, RevealConstants DEF Init
<1>2. Box
  BY <1>1, RevealConstants DEF Init, Box
<1>3. Count
  <2>1. revealLog = << >> /\ revealedCount = 0 /\ currentPhase = "Ended"
        /\ tally = [c \in Candidates |-> 0]
    BY DEF Init
  <2>2. tally \in [Candidates -> 0..MaxU32]
    BY <2>1, RevealConstants
  <2>3. revealLog \in Seq(Reveals) /\ DOMAIN revealLog = {}
    BY <2>1, EmptySeq
  <2>4. QED
    BY <2>1, <2>2, <2>3, RevealConstants DEF Count
<1>4. PanelInv
  <2>1. panel = Off
    BY DEF Init
  <2>2. QED
    BY <1>2, <1>3, <2>1, OffPanel DEF PanelInv, Count
<1>5. PoolInv
  <2>1. alice = << >>
    BY DEF Init
  <2>2. QED
    BY <2>1, EmptySeq, RevealConstants DEF PoolInv
<1>6. QED
  BY <1>2, <1>3, <1>4, <1>5 DEF CountInv

LEMMA CountInvStep == CountInv /\ [Next]_vars => CountInv'
  BY CountStep, PanelStep, PoolStep DEF CountInv

LEMMA CountInvariant == Spec => []CountInv
  BY CountInvInit, CountInvStep, PTL DEF Spec

(* At least as many reveals as votes precede a finalized tally, and a      *)
(* reveal credits a candidate its own ballot names, whatever the admin     *)
(* clicks and whenever queries fail.                                       *)
THEOREM RevealEnoughReveals == Spec => []EnoughReveals
<1>1. CountInv => EnoughReveals
  <2> SUFFICES ASSUME CountInv PROVE EnoughReveals
    OBVIOUS
  <2>1. \A n \in DOMAIN revealLog : revealLog[n].vote_id \in BallotsFor(revealLog[n].candidate_id)
    <3> SUFFICES ASSUME NEW n \in DOMAIN revealLog
                 PROVE  revealLog[n].vote_id \in BallotsFor(revealLog[n].candidate_id)
      OBVIOUS
    <3>1. revealLog[n] \in Reveals /\ revealLog[n].candidate_id \in Named(revealLog[n].vote_id)
      BY ElementOfSeq DEF CountInv, Count
    <3>2. QED
      BY <3>1 DEF Reveals, Named, BallotsFor
  <2>2. QED
    BY <2>1 DEF CountInv, Count, Counted, PanelInv, EnoughReveals
<1>2. QED
  BY <1>1, CountInvariant, PTL

-----------------------------------------------------------------------------
(* The results tab.                                                        *)
LEMMA RemovedAt ==
  ASSUME NEW S, NEW s \in Seq(S), NEW i \in DOMAIN s
  PROVE  /\ RemoveAt(s, i) \in Seq(S)
         /\ \A j \in DOMAIN RemoveAt(s, i) : \E k \in DOMAIN s : RemoveAt(s, i)[j] = s[k]
<1> DEFINE t == SubSeq(s, 1, i - 1)
           u == SubSeq(s, i + 1, Len(s))
<1>1. i \in 1..Len(s) /\ Len(s) \in Nat /\ DOMAIN s = 1..Len(s)
  OBVIOUS
<1>2. t \in Seq(S) /\ Len(t) = i - 1 /\ \A j \in 1..Len(t) : j \in 1..Len(s) /\ t[j] = s[j]
  BY <1>1
<1>3. u \in Seq(S) /\ Len(u) = Len(s) - i
      /\ \A j \in 1..Len(u) : i + j \in 1..Len(s) /\ u[j] = s[i + j]
  BY <1>1
<1> HIDE DEF t, u
<1>4. /\ t \o u \in Seq(S) /\ Len(t \o u) = Len(t) + Len(u) /\ DOMAIN (t \o u) = 1..(Len(t) + Len(u))
      /\ \A j \in 1..(Len(t) + Len(u)) : (t \o u)[j] = IF j <= Len(t) THEN t[j] ELSE u[j - Len(t)]
  <2>1. /\ t \o u \in Seq(S) /\ Len(t \o u) = Len(t) + Len(u)
        /\ \A j \in 1..(Len(t) + Len(u)) : (t \o u)[j] = IF j <= Len(t) THEN t[j] ELSE u[j - Len(t)]
    BY <1>2, <1>3, ConcatProperties
  <2>2. DOMAIN (t \o u) = 1..Len(t \o u)
    BY <2>1, LenProperties
  <2>3. QED
    BY <2>1, <2>2
<1>5. ASSUME NEW j \in DOMAIN (t \o u)
      PROVE  \E k \in DOMAIN s : (t \o u)[j] = s[k]
  <2>0. j \in Nat /\ Len(t) \in Nat /\ Len(u) \in Nat /\ j >= 1 /\ j <= Len(t) + Len(u)
    BY <1>1, <1>2, <1>3, <1>4
  <2>1. CASE j <= Len(t)
    <3>1. j \in 1..Len(t) /\ (t \o u)[j] = t[j]
      BY <1>4, <2>0, <2>1
    <3>2. QED
      BY <1>1, <1>2, <3>1
  <2>2. CASE ~ (j <= Len(t))
    <3>1. j - Len(t) \in 1..Len(u) /\ (t \o u)[j] = u[j - Len(t)]
      BY <1>4, <2>0, <2>2
    <3>2. QED
      BY <1>1, <1>3, <3>1
  <2>3. QED
    BY <2>1, <2>2
<1>6. RemoveAt(s, i) = t \o u
  BY DEF RemoveAt, t, u
<1>7. QED
  BY <1>4, <1>5, <1>6

(* One count more of a fetchTally under way.                               *)
Counts(k) == Append(reads[k], tally[Listed[Len(reads[k]) + 1]])

LEMMA CountRead ==
  ASSUME CountInv, DisplayInv, NEW k \in DOMAIN reads
  PROVE  /\ reads[k] \in Seq(0..MaxU32) /\ Len(reads[k]) \in Nat
         /\ Len(reads[k]) + 1 \in DOMAIN Listed /\ Listed[Len(reads[k]) + 1] \in Candidates
         /\ Counts(k) \in Seq(0..MaxU32) /\ Len(Counts(k)) = Len(reads[k]) + 1
         /\ \A j \in DOMAIN Counts(k) :
              \/ j \in DOMAIN reads[k] /\ Counts(k)[j] = reads[k][j]
              \/ j = Len(reads[k]) + 1 /\ Counts(k)[j] = tally[Listed[j]]
<1> DEFINE n == Len(reads[k])
<1>1. reads[k] \in Seq(0..MaxU32) /\ n < Len(Listed)
  BY ElementOfSeq DEF DisplayInv
<1>2. n \in Nat /\ DOMAIN reads[k] = 1..n
  BY <1>1
<1>3. n + 1 \in DOMAIN Listed
  BY <1>1, <1>2, ListedAll
<1>4. Listed[n + 1] \in Candidates
  BY <1>3, ListedAll, ElementOfSeq
<1>5. tally[Listed[n + 1]] \in 0..MaxU32
  BY <1>4 DEF CountInv, Count
<1>6. Counts(k) \in Seq(0..MaxU32) /\ Len(Counts(k)) = n + 1
  BY <1>1, <1>5 DEF Counts
<1>7. /\ DOMAIN Counts(k) = 1..(n + 1) /\ Counts(k)[n + 1] = tally[Listed[n + 1]]
      /\ \A j \in 1..n : Counts(k)[j] = reads[k][j]
  BY <1>1, <1>2, <1>5 DEF Counts
<1>8. \A j \in 1..(n + 1) : j \in 1..n \/ j = n + 1
  BY <1>2
<1>9. QED
  BY <1>1, <1>2, <1>3, <1>4, <1>6, <1>7, <1>8

(* All counts read, in the order of Listed, are shown by candidate.        *)
ShownTally(counts) == [c \in Candidates |-> counts[CHOOSE n \in DOMAIN Listed : Listed[n] = c]]

LEMMA ShownCounts ==
  ASSUME NEW counts \in Seq(0..MaxU32), Len(counts) = Len(Listed)
  PROVE  /\ ShownTally(counts) \in [Candidates -> 0..MaxU32]
         /\ (\A j \in DOMAIN counts : counts[j] = tally[Listed[j]])
              => \A c \in Candidates : ShownTally(counts)[c] = tally[c]
<1> DEFINE at(c) == CHOOSE n \in DOMAIN Listed : Listed[n] = c
<1>1. \A c \in Candidates : at(c) \in DOMAIN Listed /\ Listed[at(c)] = c
  BY ListedAll
<1>2. DOMAIN counts = DOMAIN Listed
  BY ListedAll
<1>3. \A c \in Candidates : ShownTally(counts)[c] = counts[at(c)]
  BY DEF ShownTally
<1> HIDE DEF at
<1>4. \A c \in Candidates : counts[at(c)] \in 0..MaxU32
  <2>1. \A j \in DOMAIN counts : counts[j] \in 0..MaxU32
    <3>1. counts \in [1..Len(counts) -> 0..MaxU32] /\ DOMAIN counts = 1..Len(counts)
      BY LenProperties
    <3>2. QED
      BY <3>1
  <2>2. QED
    BY <1>1, <1>2, <2>1
<1>5. ShownTally(counts) \in [Candidates -> 0..MaxU32]
  BY <1>3, <1>4 DEF ShownTally
<1>6. QED
  BY <1>1, <1>2, <1>3, <1>5

Displays == [pc : {"on"}, subscribed : BOOLEAN, tally : [Candidates -> 0..MaxU32]]

LEMMA ReadStep ==
  ASSUME CountInv, DisplayInv, NEW k \in DOMAIN reads, ReadTally(k)
  PROVE  DisplayInv'
<1>0. /\ display \in Displays /\ panel = Off /\ panel' = panel
      /\ reads \in Seq(Seq(0..MaxU32)) /\ display # NoDisplay
      /\ Len(reads) \in Nat /\ DOMAIN reads = 1..Len(reads)
      /\ \A j \in DOMAIN reads : Len(reads[j]) < Len(Listed)
  BY DEF DisplayInv, Displays, ReadTally
<1>1. CASE Len(Counts(k)) = Len(Listed)
  <2>1. reads' = RemoveAt(reads, k) /\ display' = [display EXCEPT !.tally = ShownTally(Counts(k))]
    BY <1>1 DEF ReadTally, Counts, ShownTally
  <2>2. ShownTally(Counts(k)) \in [Candidates -> 0..MaxU32]
    BY <1>1, CountRead, ShownCounts
  <2>3. display' \in Displays /\ display'.pc = "on"
    BY <1>0, <2>1, <2>2 DEF Displays
  <2>4. display' # NoDisplay
    BY <2>3 DEF NoDisplay
  <2>5. /\ reads' \in Seq(Seq(0..MaxU32))
        /\ \A j \in DOMAIN reads' : \E i \in DOMAIN reads : reads'[j] = reads[i]
    <3> DEFINE S == Seq(0..MaxU32)
    <3>1. reads \in Seq(S) /\ k \in DOMAIN reads
      BY <1>0
    <3> HIDE DEF S
    <3>2. /\ RemoveAt(reads, k) \in Seq(S)
          /\ \A j \in DOMAIN RemoveAt(reads, k) :
               \E i \in DOMAIN reads : RemoveAt(reads, k)[j] = reads[i]
      BY <3>1, RemovedAt
    <3>3. QED
      BY <2>1, <3>2 DEF S
  <2>6. \A j \in DOMAIN reads' : Len(reads'[j]) < Len(Listed)
    BY <1>0, <2>5
  <2>7. QED
    BY <1>0, <2>3, <2>4, <2>5, <2>6 DEF DisplayInv, Displays
<1>2. CASE Len(Counts(k)) # Len(Listed)
  <2>1. reads' = [reads EXCEPT ![k] = Counts(k)] /\ display' = display
    BY <1>2 DEF ReadTally, Counts
  <2>2. Counts(k) \in Seq(0..MaxU32) /\ Len(Counts(k)) < Len(Listed)
    BY <1>0, <1>2, CountRead, ListedAll
  <2> DEFINE S == Seq(0..MaxU32)
  <2>3. reads \in Seq(S) /\ Counts(k) \in S /\ k \in 1..Len(reads)
    BY <1>0, <2>2
  <2> HIDE DEF S
  <2>4. /\ reads' \in Seq(S) /\ Len(reads') = Len(reads)
        /\ \A j \in 1..Len(reads) : reads'[j] = IF j = k THEN Counts(k) ELSE reads[j]
    BY <2>1, <2>3, ExceptSeq
  <2>5. \A j \in DOMAIN reads' : Len(reads'[j]) < Len(Listed)
    BY <1>0, <2>1, <2>2, <2>4
  <2>6. reads' \in Seq(Seq(0..MaxU32))
    BY <2>4 DEF S
  <2>7. QED
    BY <1>0, <2>1, <2>5, <2>6 DEF DisplayInv, Displays
<1>3. QED
  BY <1>1, <1>2

LEMMA EmptyRead == << << >> >> \in Seq(Seq(0..MaxU32)) /\ << >> \in Seq(Seq(0..MaxU32))
                   /\ Len(<< << >> >>) = 1 /\ << << >> >>[1] = << >> /\ Len(<< >>) = 0
<1> DEFINE S == Seq(0..MaxU32)
<1>1. << >> \in S
  BY EmptySeq
<1> HIDE DEF S
<1>2. << << >> >> \in Seq(S) /\ << >> \in Seq(S)
  BY <1>1, EmptySeq
<1>3. QED
  BY <1>2 DEF S

LEMMA NewDisplay ==
  [NoDisplay EXCEPT !.pc = "on"] \in Displays /\ NoDisplay.pc = "off"
<1>1. [c \in Candidates |-> 0] \in [Candidates -> 0..MaxU32]
  BY RevealConstants
<1>2. QED
  BY <1>1 DEF Displays, NoDisplay

LEMMA DisplayedStep ==
  ASSUME CountInv, DisplayInv, [Next]_vars
  PROVE  DisplayInv'
<1> USE DEF Displays
<1>1. CASE display' = NoDisplay /\ reads' = << >>
  BY <1>1, EmptyRead DEF DisplayInv
<1>2. CASE ShowResults
  <2>1. CASE display.pc = "on"
    BY <1>2, <2>1, NewDisplay DEF ShowResults, DisplayInv
  <2>2. CASE display.pc # "on"
    <3>1. panel' = Off /\ display' = [NoDisplay EXCEPT !.pc = "on"] /\ reads' = << << >> >>
      BY <1>2, <2>2 DEF ShowResults
    <3>2. \A k \in DOMAIN reads' : Len(reads'[k]) < Len(Listed)
      BY <3>1, EmptyRead, ListedAll
    <3>3. display' \in Displays /\ display' # NoDisplay
      BY <3>1, NewDisplay
    <3>4. QED
      BY <3>1, <3>2, <3>3, EmptyRead DEF DisplayInv
  <2>3. QED
    BY <2>1, <2>2
<1>3. CASE UNCHANGED <<display, reads>> /\ (panel' = panel \/ panel # Off)
  BY <1>3 DEF DisplayInv
<1>4. CASE Subscribe
  <2> DEFINE S == Seq(0..MaxU32)
  <2>1. /\ display' = [display EXCEPT !.subscribed = TRUE] /\ reads' = Append(reads, << >>)
        /\ panel' = panel /\ display \in Displays /\ panel = Off
    BY <1>4, NewDisplay DEF Subscribe, DisplayInv
  <2>2. display' \in Displays /\ display'.pc = "on"
    BY <2>1
  <2>3. reads \in Seq(S) /\ << >> \in S
    BY EmptySeq DEF DisplayInv
  <2> HIDE DEF S
  <2>4. /\ reads' \in Seq(S)
        /\ \A k \in DOMAIN reads' : reads'[k] = << >> \/ (k \in DOMAIN reads /\ reads'[k] = reads[k])
    BY <2>1, <2>3
  <2>5. \A k \in DOMAIN reads' : Len(reads'[k]) < Len(Listed)
    BY <2>4, ListedAll, EmptyRead DEF DisplayInv
  <2>6. QED
    BY <2>1, <2>2, <2>4, <2>5, NewDisplay DEF DisplayInv, S
<1>5. ASSUME NEW k \in DOMAIN reads, ReadFails(k)
      PROVE  DisplayInv'
  <2>1. /\ reads' \in Seq(Seq(0..MaxU32)) /\ UNCHANGED <<panel, display>>
        /\ \A j \in DOMAIN reads' : \E i \in DOMAIN reads : reads'[j] = reads[i]
    BY <1>5, RemovedAt DEF ReadFails, DisplayInv
  <2>2. QED
    BY <2>1 DEF DisplayInv
<1>6. ASSUME Leave
      PROVE  DisplayInv'
  BY <1>1, <1>2, <1>6 DEF Leave
<1>7. VoteStep => UNCHANGED <<display, reads>> /\ panel # Off
  BY OffPanel DEF VoteStep, SelectVote, DecryptVote, Pick, RevealSelected, RevealButton
<1>8. QED
  BY <1>1, <1>2, <1>3, <1>4, <1>5, <1>6, <1>7, ReadStep DEF Next, Mount, MountFails, Offer, MountAs,
     Finalize, IncludeSudo, DisplayStep, vars, ui

LEMMA DisplayInvariant == Spec => []DisplayInv
<1>1. Init => DisplayInv
  BY EmptyRead DEF Init, DisplayInv
<1>2. CountInv /\ DisplayInv /\ [Next]_vars => DisplayInv'
  BY DisplayedStep
<1>3. QED
  BY <1>1, <1>2, CountInvariant, PTL DEF Spec

(* The storage, the panel, the results tab and the pool are well typed.    *)
THEOREM RevealTypeCorrect == Spec => []TypeOK
<1>1. CountInv /\ DisplayInv /\ orderly \in BOOLEAN => TypeOK
  <2> SUFFICES ASSUME CountInv, DisplayInv, orderly \in BOOLEAN PROVE TypeOK
    OBVIOUS
  <2>1. Chain!TypeOK
    <3>1. \A i \in DOMAIN encryptedVotes : encryptedVotes[i] \in Chain!EncryptedVote
      BY BallotFields DEF CountInv, Box
    <3>2. DOMAIN encryptedVotes \subseteq 0..MaxU32
      BY RevealConstants DEF CountInv, Box
    <3>3. Reveals \subseteq [vote_id : 0..MaxU32, candidate_id : Candidates, vote_hash : RevealBytes]
      BY <3>2 DEF Reveals
    <3>4. revealLog \in Seq([vote_id : 0..MaxU32, candidate_id : Candidates, vote_hash : RevealBytes])
      BY <3>3, SeqMonotonic DEF CountInv, Count
    <3>5. QED
      BY <3>1, <3>2, <3>4 DEF CountInv, Box, Count, Chain!TypeOK, Chain!ElectionPhase
  <2>2. panel = Off \/ panel \in [pc : {"idle", "revealing"}, total : 0..MaxU32,
                               revealed : 0..MaxU32,
                               pendingVotes : SUBSET DOMAIN encryptedVotes,
                               vote : DOMAIN encryptedVotes \cup {NoVote},
                               plain : SUBSET Candidates, picked : SUBSET Candidates]
    BY DEF CountInv, PanelInv, Panels
  <2>3. QED
    BY <2>1, <2>2 DEF CountInv, PoolInv, DisplayInv, TypeOK, RevealTx, FinalizeTx
<1>2. Init => orderly \in BOOLEAN
  BY DEF Init
<1>3. orderly \in BOOLEAN /\ [Next]_vars => (orderly \in BOOLEAN)'
  BY DEF Next, vars, Mount, MountFails, Offer, MountAs, Leave, Finalize, IncludeSudo, VoteStep,
     SelectVote, DecryptVote, Pick, RevealSelected, DisplayStep, Subscribe, ReadTally, ReadFails
<1>4. QED
  BY <1>1, <1>2, <1>3, CountInvariant, DisplayInvariant, PTL DEF Spec

-----------------------------------------------------------------------------
(* An orderly count.                                                       *)
LEMMA OrderlyFixed == [Next]_vars => orderly' = orderly
  BY DEF Next, vars, Mount, MountFails, Offer, MountAs, Leave, Finalize, IncludeSudo, VoteStep,
     SelectVote, DecryptVote, Pick, RevealSelected, DisplayStep, Subscribe, ReadTally, ReadFails

(* The reveal that comes into a block is the next one, and was alone.      *)
LEMMA NextReveal ==
  ASSUME CountInv, InOrder, IncludeSudo, Revealed(Head(alice))
  PROVE  /\ alice[1] \in RevealTx /\ alice[1].id = revealedCount
         /\ alice[1].candidate \in Named(revealedCount)
         /\ revealedCount \in DOMAIN encryptedVotes /\ revealedCount < voteCounter
         /\ revealedCount' = revealedCount + 1
         /\ alice' = << >> /\ panel.pc = "revealing"
         /\ Revealed(alice[1])
<1>1. /\ Head(alice) = alice[1] /\ 1 \in DOMAIN alice /\ alice # << >> /\ alice' = Tail(alice)
      /\ alice \in Seq(RevealTx \cup FinalizeTx)
      /\ alice[1].call = "reveal" /\ alice[1] \in RevealTx
  BY PoolHead DEF IncludeSudo, CountInv, PoolInv, Revealed
<1>2. /\ Len(alice) = 1 /\ panel.pc = "revealing" /\ alice[1].id = revealedCount
  BY <1>1 DEF InOrder, PoolInOrder
<1>3. alice[1].candidate \in Named(revealedCount) /\ revealedCount \in DOMAIN encryptedVotes
  BY <1>1, <1>2 DEF CountInv, PoolInv, Revealed
<1>4. revealedCount < voteCounter /\ revealedCount \in 0..MaxU32 /\ voteCounter \in 0..MaxU32
  BY <1>3, StoredVotes DEF CountInv, Count, Box
<1>5. revealedCount' = revealedCount + 1
  BY <1>1, <1>4, RevealConstants DEF Revealed, Chain!SaturatingInc, Chain!Lesser
<1>6. alice' = << >>
  <2> DEFINE T == RevealTx \cup FinalizeTx
  <2>1. alice \in Seq(T)
    BY <1>1
  <2> HIDE DEF T
  <2>2. Tail(alice) \in Seq(T) /\ Len(Tail(alice)) = 0
    BY <1>1, <1>2, <2>1
  <2>3. QED
    BY <1>1, <2>2, EmptySeq
<1>7. QED
  BY <1>1, <1>2, <1>3, <1>4, <1>5, <1>6

LEMMA LogOrderStep ==
  ASSUME CountInv, InOrder, [Next]_vars
  PROVE  LogInOrder'
<1>1. CASE UNCHANGED <<revealLog, revealedCount, voteCounter>>
  BY <1>1 DEF InOrder, LogInOrder
<1>2. CASE IncludeSudo /\ Revealed(Head(alice))
  <2> DEFINE reveal == [vote_id |-> alice[1].id, candidate_id |-> alice[1].candidate,
                        vote_hash |-> alice[1].hash]
  <2>1. /\ revealLog' = Append(revealLog, reveal) /\ voteCounter' = voteCounter
        /\ revealedCount' = revealedCount + 1 /\ revealedCount < voteCounter
        /\ alice[1].id = revealedCount /\ revealLog \in Seq(Reveals)
        /\ revealedCount \in Nat /\ voteCounter \in Nat
    BY <1>2, NextReveal DEF Revealed, CountInv, Count, Box
  <2>2. reveal.vote_id = revealedCount
    BY <2>1
  <2> HIDE DEF reveal
  <2>3. /\ Len(revealLog) = revealedCount /\ Len(revealLog) \in Nat
        /\ DOMAIN revealLog = 1..Len(revealLog)
        /\ \A n \in DOMAIN revealLog : revealLog[n].vote_id = n - 1
    BY <2>1 DEF InOrder, LogInOrder
  <2>4. /\ Len(revealLog') = Len(revealLog) + 1 /\ DOMAIN revealLog' = 1..(Len(revealLog) + 1)
        /\ revealLog'[Len(revealLog) + 1] = reveal
        /\ \A n \in 1..Len(revealLog) : revealLog'[n] = revealLog[n]
    BY <2>1, <2>3
  <2>5. \A n \in 1..(Len(revealLog) + 1) : n \in 1..Len(revealLog) \/ n = Len(revealLog) + 1
    BY <2>3
  <2>6. \A n \in DOMAIN revealLog' : revealLog'[n].vote_id = n - 1
    BY <2>1, <2>2, <2>3, <2>4, <2>5
  <2>7. QED
    BY <2>1, <2>3, <2>4, <2>6 DEF LogInOrder
<1>3. QED
  BY <1>1, <1>2, OnlySudo, SudoEffect DEF IncludeSudo, Finalized, chain

(* While there is a vote at the count, not all are counted.                *)
LEMMA NotYetCounted ==
  ASSUME CountInv, revealedCount \in DOMAIN encryptedVotes
  PROVE  revealedCount < voteCounter /\ ~Counted
<1>1. Box /\ revealedCount \in Nat /\ voteCounter \in Nat
  BY DEF CountInv, Box, Count
<1>2. revealedCount < voteCounter
  BY <1>1, StoredVotes
<1>3. QED
  BY <1>1, <1>2 DEF Counted

(* A reveal that is in the pool stands for an uncounted vote, so nothing   *)
(* is finalized meanwhile.                                                 *)
LEMMA RevealAlone ==
  ASSUME CountInv, InOrder, NEW n \in DOMAIN alice, alice[n].call = "reveal"
  PROVE  ~Counted
<1>1. alice[n] \in RevealTx \cup FinalizeTx
  BY ElementOfSeq DEF CountInv, PoolInv
<1>2. alice[n].id \in DOMAIN encryptedVotes /\ alice[n].id = revealedCount
  BY <1>1 DEF RevealTx, FinalizeTx, InOrder, PoolInOrder
<1>3. QED
  BY <1>2, NotYetCounted

LEMMA PoolOrderStep ==
  ASSUME CountInv, orderly, InOrder, [Next]_vars
  PROVE  PoolInOrder'
<1> DEFINE T == RevealTx \cup FinalizeTx
<1>0. /\ alice \in Seq(T) /\ PanelInv /\ panel \in Panels
      /\ \A n \in DOMAIN alice : alice[n] \in T
      /\ revealedCount \in Nat /\ voteCounter \in Nat
  BY ElementOfSeq DEF CountInv, PoolInv, PanelInv, Count, Box
<1>1. CASE IncludeSudo
  <2>1. /\ alice # << >> /\ alice' = Tail(alice)
    BY <1>1 DEF IncludeSudo
  <2>2. Len(alice) \in Nat /\ Len(Tail(alice)) = Len(alice) - 1 /\ Tail(alice) \in Seq(T)
        /\ \A n \in DOMAIN Tail(alice) : n + 1 \in DOMAIN alice /\ Tail(alice)[n] = alice[n + 1]
    BY <2>1, PoolHead DEF CountInv
  <2>3. ASSUME NEW n \in DOMAIN alice', alice'[n].call = "reveal"
        PROVE  FALSE
    <3>1. n + 1 \in DOMAIN alice /\ alice[n + 1].call = "reveal"
      BY <2>1, <2>2, <2>3
    <3>2. Len(alice) = 1
      BY <3>1 DEF InOrder, PoolInOrder
    <3>3. DOMAIN Tail(alice) = 1..0
      BY <2>2, <3>2, LenProperties
    <3>4. QED
      BY <2>1, <2>3, <3>3
  <2>4. QED
    BY <2>3 DEF PoolInOrder
<1>2. CASE RevealSelected
  <2> DEFINE tx == [call |-> "reveal", id |-> panel.vote,
                    candidate |-> CHOOSE c \in panel.picked : TRUE,
                    hash |-> encryptedVotes[panel.vote].vote_hash]
  <2>1. /\ alice' = Append(alice, tx) /\ panel.pc = "idle" /\ panel.plain # {}
        /\ panel' = [panel EXCEPT !.pc = "revealing"] /\ UNCHANGED chain
    BY <1>2 DEF RevealSelected, RevealButton
  <2>2. tx.id = panel.vote
    OBVIOUS
  <2> HIDE DEF tx
  <2>3. panel.vote = revealedCount /\ panel.vote \in DOMAIN encryptedVotes
    BY <1>0, <2>1 DEF InOrder, PanelInOrder, PanelInv, Panels
  <2>4. ~Counted
    BY <2>3, NotYetCounted
  <2>5. alice = << >>
    <3>1. ASSUME NEW n \in DOMAIN alice
          PROVE  FALSE
      <4>1. alice[n].call = "reveal" \/ alice[n].call = "finalize"
        BY <1>0 DEF RevealTx, FinalizeTx
      <4>2. QED
        BY <2>1, <2>4, <4>1 DEF InOrder, PoolInOrder, CountInv, PoolInv
    <3>2. DOMAIN alice = 1..Len(alice) /\ Len(alice) \in Nat
      <4> HIDE DEF T
      <4>1. QED
        BY <1>0
    <3>3. ~ (1 <= Len(alice))
      BY <3>1, <3>2
    <3>4. Len(alice) = 0
      BY <3>2, <3>3
    <3>5. QED
      BY <1>0, <3>4, EmptySeq
  <2>6. alice' = <<tx>> /\ panel'.pc = "revealing" /\ revealedCount' = revealedCount
    BY <1>0, <2>1, <2>5 DEF Panels, chain
  <2>7. QED
    BY <2>2, <2>3, <2>6 DEF PoolInOrder
<1>3. CASE Finalize
  <2>1. Counted
    BY <1>0, <1>3 DEF Finalize, allRevealed, PanelInv, Panels, Counted
  <2>2. \A n \in DOMAIN alice : alice[n].call # "reveal"
    BY <2>1, RevealAlone
  <2> DEFINE tx == [call |-> "finalize"]
  <2>3. alice' = Append(alice, tx) /\ tx.call # "reveal" /\ tx \in T
    BY <1>3 DEF Finalize, FinalizeTx
  <2> HIDE DEF tx, T
  <2>4. \A n \in DOMAIN alice' : alice'[n] = tx \/ (n \in DOMAIN alice /\ alice'[n] = alice[n])
    BY <1>0, <2>3
  <2>5. QED
    BY <2>2, <2>3, <2>4 DEF PoolInOrder
<1>4. CASE alice' = alice /\ UNCHANGED chain
  <2>1. revealedCount' = revealedCount
    BY <1>4 DEF chain
  <2>2. CASE panel'.pc = panel.pc
    BY <1>4, <2>1, <2>2 DEF InOrder, PoolInOrder
  <2>3. CASE panel.pc = "off" \/ alice = << >>
    BY <1>4, <2>1, <2>3 DEF InOrder, PoolInOrder
  <2>4. CASE Mount \/ Leave
    BY <2>3, <2>4 DEF Mount, Offer, MountAs, Leave
  <2>5. CASE VoteStep
    <3>1. ASSUME NEW i, SelectVote(i)
          PROVE  panel'.pc = panel.pc
      BY <1>0, <3>1 DEF SelectVote, Panels
    <3>2. ASSUME DecryptVote
          PROVE  panel'.pc = panel.pc
      <4>1. PICK names : panel' = [panel EXCEPT !.plain = names]
        BY <3>2 DEF DecryptVote
      <4>2. panel \in Panels
        BY <1>0
      <4>3. QED
        BY <4>1, <4>2 DEF Panels
    <3>3. ASSUME NEW p \in Posts, Pick(p)
          PROVE  panel'.pc = panel.pc
      BY <1>0, <3>3 DEF Pick, Panels
    <3>4. QED
      BY <1>2, <2>2, <2>5, <3>1, <3>2, <3>3 DEF VoteStep
  <2>6. CASE DisplayStep \/ UNCHANGED vars
    BY <2>2, <2>6 DEF DisplayStep, Subscribe, ReadTally, ReadFails, vars, ui
  <2>7. ~MountFails
    BY DEF MountFails
  <2>8. QED
    BY <1>1, <1>3, <2>4, <2>5, <2>6, <2>7 DEF Next
<1>5. QED
  BY <1>1, <1>2, <1>3, <1>4 DEF Next, vars, chain, Mount, MountFails, Offer, MountAs, Leave, VoteStep,
     SelectVote, DecryptVote, Pick, DisplayStep, Subscribe, ReadTally, ReadFails

(* The first vote offered is the next to be counted.                       *)
LEMMA FirstOffered ==
  ASSUME CountInv, NEW votes, votes = {i \in DOMAIN encryptedVotes : i >= revealedCount},
         votes # {}
  PROVE  Min(votes) = revealedCount
<1>1. /\ revealedCount \in Nat /\ voteCounter \in Nat
      /\ DOMAIN encryptedVotes = 0..(voteCounter - 1)
  BY DEF CountInv, Count, Box
<1>2. revealedCount \in votes /\ \A i \in votes : i \in Nat /\ revealedCount <= i
  BY <1>1
<1>3. Min(votes) \in votes /\ \A i \in votes : Min(votes) <= i
  BY <1>2 DEF Min
<1>4. QED
  BY <1>1, <1>2, <1>3

LEMMA PanelOrderStep ==
  ASSUME CountInv, orderly, InOrder, [Next]_vars
  PROVE  PanelInOrder'
<1> DEFINE same(f, g) == /\ f.pc # "off" => g.pc # "off"
                         /\ f.total = g.total /\ f.revealed = g.revealed
                         /\ f.pendingVotes = g.pendingVotes
<1>0. PanelInOrder /\ panel \in Panels
  BY DEF InOrder, CountInv, PanelInv
<1>1. CASE panel' = Off
  BY <1>1, OffPanel DEF PanelInOrder
<1>2. ASSUME UNCHANGED chain, same(panel', panel), panel'.vote \in {panel.vote, revealedCount}
      PROVE  PanelInOrder'
  BY <1>0, <1>2 DEF PanelInOrder, chain
<1>3. CASE Mount
  <2> DEFINE votes == {i \in DOMAIN encryptedVotes : i >= revealedCount}
             shown == [Off EXCEPT !.total = voteCounter, !.revealed = revealedCount,
                                  !.pendingVotes = votes]
  <2>1. panel' = [shown EXCEPT !.pc = "idle"] /\ UNCHANGED chain
    BY <1>3 DEF Mount, Offer, MountAs
  <2>2. /\ panel'.total = voteCounter /\ panel'.revealed = revealedCount
        /\ panel'.pendingVotes = votes /\ panel'.vote = NoVote
    BY <2>1 DEF Off
  <2>3. QED
    BY <2>1, <2>2 DEF PanelInOrder, chain
<1>4. ASSUME NEW i \in DOMAIN encryptedVotes, SelectVote(i)
      PROVE  PanelInOrder'
  <2>1. /\ panel' = [panel EXCEPT !.vote = i, !.plain = {}, !.picked = {}] /\ UNCHANGED chain
        /\ panel.pc # "off" /\ i \in panel.pendingVotes /\ i = Min(panel.pendingVotes)
    BY <1>4 DEF SelectVote
  <2>2. i = revealedCount
    BY <1>0, <2>1, FirstOffered DEF PanelInOrder
  <2>3. same(panel', panel) /\ panel'.vote = i
    BY <1>0, <2>1 DEF Panels
  <2> HIDE DEF same
  <2>4. QED
    BY <1>2, <2>1, <2>2, <2>3
<1>5. ASSUME DecryptVote
      PROVE  PanelInOrder'
  <2>1. PICK names : panel' = [panel EXCEPT !.plain = names]
    BY <1>5 DEF DecryptVote
  <2>2. same(panel', panel) /\ panel'.vote = panel.vote
    BY <1>0, <2>1 DEF Panels
  <2> HIDE DEF same
  <2>3. QED
    BY <1>2, <1>5, <2>2 DEF DecryptVote
<1>6. ASSUME NEW p \in Posts, Pick(p)
      PROVE  PanelInOrder'
  <2>1. PICK ids : panel' = [panel EXCEPT !.picked = ids]
    BY <1>0, <1>6 DEF Pick, Panels
  <2>2. same(panel', panel) /\ panel'.vote = panel.vote
    BY <1>0, <2>1 DEF Panels
  <2> HIDE DEF same
  <2>3. QED
    BY <1>2, <1>6, <2>2 DEF Pick
<1>7. ASSUME RevealSelected
      PROVE  PanelInOrder'
  <2>1. panel' = [panel EXCEPT !.pc = "revealing"] /\ panel.pc = "idle" /\ UNCHANGED chain
    BY <1>7 DEF RevealSelected, RevealButton
  <2>2. same(panel', panel) /\ panel'.vote = panel.vote
    BY <1>0, <2>1 DEF Panels
  <2> HIDE DEF same
  <2>3. QED
    BY <1>2, <2>1, <2>2
<1>8. CASE panel' = panel /\ UNCHANGED chain
  BY <1>2, <1>8
<1>9. ~MountFails
  BY DEF MountFails
<1>10. Leave \/ IncludeSudo => panel' = Off
  BY DEF Leave, IncludeSudo, ShowResults
<1>11. Finalize \/ DisplayStep \/ UNCHANGED vars => panel' = panel /\ UNCHANGED chain
  BY DEF Finalize, DisplayStep, Subscribe, ReadTally, ReadFails, vars, ui
<1>12. QED
  BY <1>1, <1>3, <1>4, <1>5, <1>6, <1>7, <1>8, <1>9, <1>10, <1>11 DEF Next, VoteStep

LEMMA InOrderInvariant == Spec => [](orderly => InOrder)
<1>1. Init => (orderly => InOrder)
  <2> SUFFICES ASSUME Init PROVE InOrder
    OBVIOUS
  <2>1. /\ panel.pc = "off" /\ alice = << >> /\ revealLog = << >> /\ revealedCount = 0
        /\ voteCounter \in Nat
    BY FS_Subset, FS_CardinalityType, RevealConstants, OffPanel DEF Init
  <2>2. DOMAIN << >> = {} /\ Len(<< >>) = 0
    BY EmptySeq
  <2>3. QED
    BY <2>1, <2>2 DEF InOrder, PanelInOrder, PoolInOrder, LogInOrder
<1>2. CountInv /\ (orderly => InOrder) /\ [Next]_vars => (orderly => InOrder)'
  BY OrderlyFixed, PanelOrderStep, PoolOrderStep, LogOrderStep DEF InOrder
<1>3. QED
  BY <1>1, <1>2, CountInvariant, PTL DEF Spec

(* When the panel says that all votes are revealed, each of them has been, *)
(* once, if they are taken as they are offered: a panel that remembers     *)
(* nothing, over a chain that marks nothing.                               *)
THEOREM RevealAllRevealed == Spec => []AllRevealedIsTrue
<1>1. CountInv /\ (orderly => InOrder) => AllRevealedIsTrue
  <2> SUFFICES ASSUME CountInv, InOrder, allRevealed, NEW i \in DOMAIN encryptedVotes
               PROVE  Cardinality(RevealsOf(i)) = 1
    BY DEF AllRevealedIsTrue
  <2>1. /\ voteCounter \in Nat /\ revealedCount \in Nat /\ i \in 0..(voteCounter - 1)
        /\ revealLog \in Seq(Reveals)
    BY DEF CountInv, Box, Count
  <2>2. revealedCount = voteCounter
    BY <2>1 DEF allRevealed, InOrder, PanelInOrder, LogInOrder
  <2>3. DOMAIN revealLog = 1..voteCounter /\ \A n \in DOMAIN revealLog : revealLog[n].vote_id = n - 1
    BY <2>1, <2>2 DEF InOrder, LogInOrder
  <2>4. RevealsOf(i) = {i + 1}
    BY <2>1, <2>3 DEF RevealsOf
  <2>5. QED
    BY <2>4, FS_Singleton
<1>2. QED
  BY <1>1, CountInvariant, InOrderInvariant, PTL

-----------------------------------------------------------------------------
(* The tally is what the log says, vote by vote.                           *)
LEMMA CountedFinite ==
  ASSUME CountInv, NEW c
  PROVE  /\ IsFiniteSet(CountedFor(c)) /\ Cardinality(CountedFor(c)) \in Nat
         /\ Cardinality(CountedFor(c)) <= revealedCount
<1>1. revealedCount \in Nat
  BY DEF CountInv, Count
<1>2. CountedFor(c) \in SUBSET (0..(revealedCount - 1))
  BY DEF CountedFor
<1>3. IsFiniteSet(0..(revealedCount - 1)) /\ Cardinality(0..(revealedCount - 1)) = revealedCount
  BY <1>1, FS_Interval
<1>4. QED
  BY <1>2, <1>3, FS_Subset, FS_CardinalityType

(* The next reveal adds its ballot to the candidate it credits.            *)
LEMMA CountedStep ==
  ASSUME CountInv, InOrder, IncludeSudo, Revealed(Head(alice)), NEW c \in Candidates
  PROVE  Cardinality(CountedFor(c)') =
           IF c = alice[1].candidate THEN Cardinality(CountedFor(c)) + 1
                                     ELSE Cardinality(CountedFor(c))
<1> DEFINE reveal == [vote_id |-> alice[1].id, candidate_id |-> alice[1].candidate,
                      vote_hash |-> alice[1].hash]
<1>1. /\ revealLog' = Append(revealLog, reveal) /\ revealedCount' = revealedCount + 1
      /\ revealedCount \in Nat /\ revealLog \in Seq(Reveals) /\ Len(revealLog) = revealedCount
  BY NextReveal DEF Revealed, CountInv, Count, InOrder, LogInOrder
<1>2. reveal.candidate_id = alice[1].candidate
  BY DEF reveal
<1> HIDE DEF reveal
<1>3. /\ revealLog'[revealedCount + 1] = reveal
      /\ \A n \in 1..revealedCount : revealLog'[n] = revealLog[n]
  BY <1>1
<1>4. \A i \in 0..(revealedCount - 1) : revealLog'[i + 1] = revealLog[i + 1]
  BY <1>1, <1>3
<1>5. 0..((revealedCount + 1) - 1) = (0..(revealedCount - 1)) \cup {revealedCount}
  BY <1>1
<1>6. /\ revealedCount \notin CountedFor(c)
      /\ CountedFor(c)' = {i \in (0..(revealedCount - 1)) \cup {revealedCount} :
                             revealLog'[i + 1].candidate_id = c}
  BY <1>1, <1>5 DEF CountedFor
<1>7. CASE c = alice[1].candidate
  <2>1. CountedFor(c)' = CountedFor(c) \cup {revealedCount}
    BY <1>2, <1>3, <1>4, <1>6, <1>7 DEF CountedFor
  <2>2. QED
    BY <1>6, <1>7, <2>1, CountedFinite, FS_AddElement
<1>8. CASE c # alice[1].candidate
  <2>1. CountedFor(c)' = CountedFor(c)
    BY <1>2, <1>3, <1>4, <1>6, <1>8 DEF CountedFor
  <2>2. QED
    BY <1>8, <2>1
<1>9. QED
  BY <1>7, <1>8

LEMMA TallyOrderStep ==
  ASSUME CountInv, InOrder, TallyInOrder, [Next]_vars
  PROVE  TallyInOrder'
<1>1. CASE UNCHANGED <<tally, revealedCount, revealLog>>
  <2>1. \A c : CountedFor(c)' = CountedFor(c)
    BY <1>1 DEF CountedFor
  <2>2. QED
    BY <1>1, <2>1 DEF TallyInOrder
<1>2. CASE IncludeSudo /\ Revealed(Head(alice))
  <2> DEFINE named == alice[1].candidate
  <2>1. /\ tally' = [tally EXCEPT ![named] = Chain!SaturatingInc(@, MaxU32)]
        /\ revealedCount < voteCounter
    BY <1>2, NextReveal DEF Revealed
  <2> HIDE DEF named
  <2>2. /\ tally \in [Candidates -> 0..MaxU32] /\ MaxU32 \in Nat
        /\ voteCounter \in 0..MaxU32 /\ revealedCount \in 0..MaxU32
    BY RevealConstants DEF CountInv, Count, Box
  <2>3. ASSUME NEW c \in Candidates
        PROVE  tally'[c] = Cardinality(CountedFor(c)')
    <3>1. /\ tally[c] = Cardinality(CountedFor(c)) /\ tally[c] \in Nat
          /\ tally[c] <= revealedCount
      BY CountedFinite DEF TallyInOrder
    <3>2. Chain!SaturatingInc(tally[c], MaxU32) = tally[c] + 1
      BY <2>1, <2>2, <3>1 DEF Chain!SaturatingInc, Chain!Lesser
    <3>3. tally'[c] = IF c = named THEN Chain!SaturatingInc(tally[c], MaxU32) ELSE tally[c]
      BY <2>1, <2>2
    <3>4. Cardinality(CountedFor(c)') = IF c = named THEN tally[c] + 1 ELSE tally[c]
      BY <1>2, <3>1, CountedStep DEF named
    <3>5. QED
      BY <3>2, <3>3, <3>4
  <2>4. QED
    BY <2>3 DEF TallyInOrder, Candidates
<1>3. QED
  BY <1>1, <1>2, OnlySudo, SudoEffect DEF IncludeSudo, Finalized, chain

-----------------------------------------------------------------------------
(* The results shown.                                                      *)
LEMMA DisplayOrderStep ==
  ASSUME CountInv, DisplayInv, InOrder, orderly, DisplayInOrder, [Next]_vars
  PROVE  DisplayInOrder'
<1>0. DOMAIN << >> = {} /\ NoDisplay.pc = "off"
  BY EmptySeq, NewDisplay
<1>1. CASE display' = NoDisplay /\ reads' = << >>
  BY <1>0, <1>1 DEF DisplayInOrder
<1>2. CASE UNCHANGED <<display, reads, tally>>
  BY <1>2 DEF DisplayInOrder
<1>3. CASE ShowResults /\ display.pc # "on"
  <2>1. display' = [NoDisplay EXCEPT !.pc = "on"] /\ reads' = << << >> >>
    BY <1>3 DEF ShowResults
  <2>2. DOMAIN reads' = {1} /\ reads'[1] = << >> /\ reads' # << >>
    BY <2>1, EmptyRead
  <2>3. QED
    BY <1>0, <2>2 DEF DisplayInOrder
<1>4. CASE IncludeSudo
  <2>1. UNCHANGED tally \/ Revealed(Head(alice))
    BY <1>4, SudoEffect DEF IncludeSudo, Finalized, chain
  <2>2. CASE Revealed(Head(alice))
    <3>1. panel # Off
      BY <1>4, <2>2, NextReveal, OffPanel
    <3>2. display.pc # "on"
      BY <1>0, <3>1 DEF DisplayInv
    <3>3. QED
      BY <1>3, <1>4, <3>2 DEF IncludeSudo
  <2>3. QED
    BY <1>2, <1>3, <1>4, <2>1, <2>2 DEF IncludeSudo, ShowResults
<1>5. CASE Leave
  <2>1. UNCHANGED tally
    BY <1>5 DEF Leave, chain
  <2>2. QED
    BY <1>1, <1>2, <1>3, <1>5, <2>1 DEF Leave, ShowResults
<1>6. CASE Subscribe
  <2> DEFINE S == Seq(0..MaxU32)
  <2>1. reads' = Append(reads, << >>) /\ UNCHANGED tally /\ reads \in Seq(S) /\ << >> \in S
    BY <1>6, EmptySeq DEF Subscribe, DisplayInv, chain
  <2> HIDE DEF S
  <2>2. /\ \A k \in DOMAIN reads' : reads'[k] = << >> \/ (k \in DOMAIN reads /\ reads'[k] = reads[k])
        /\ Len(reads') \in Nat \ {0}
    BY <2>1
  <2>3. reads' # << >>
    BY <2>2, EmptySeq
  <2>4. QED
    BY <1>0, <2>1, <2>2, <2>3 DEF DisplayInOrder
<1>7. ASSUME NEW k \in DOMAIN reads, ReadTally(k)
      PROVE  DisplayInOrder'
  <2>0. /\ UNCHANGED tally /\ reads \in Seq(Seq(0..MaxU32)) /\ display \in Displays
        /\ tally \in [Candidates -> 0..MaxU32]
    BY <1>7 DEF ReadTally, DisplayInv, Displays, chain, CountInv, Count
  <2>1. \A j \in DOMAIN Counts(k) : Counts(k)[j] = tally[Listed[j]]
    BY CountRead DEF DisplayInOrder
  <2>2. CASE Len(Counts(k)) = Len(Listed)
    <3>1. reads' = RemoveAt(reads, k) /\ display' = [display EXCEPT !.tally = ShownTally(Counts(k))]
      BY <2>2, <1>7 DEF ReadTally, Counts, ShownTally
    <3>2. /\ ShownTally(Counts(k)) \in [Candidates -> 0..MaxU32]
          /\ \A c \in Candidates : ShownTally(Counts(k))[c] = tally[c]
      BY <2>1, <2>2, CountRead, ShownCounts
    <3>3. ShownTally(Counts(k)) = tally
      BY <2>0, <3>2
    <3>4. display'.tally = tally
      BY <2>0, <3>1, <3>3 DEF Displays
    <3>5. \A j \in DOMAIN reads' : \E i \in DOMAIN reads : reads'[j] = reads[i]
      BY <2>0, <3>1, RemovedAt
    <3>6. QED
      BY <2>0, <3>4, <3>5 DEF DisplayInOrder
  <2>3. CASE Len(Counts(k)) # Len(Listed)
    <3>1. reads' = [reads EXCEPT ![k] = Counts(k)] /\ display' = display
      BY <1>7, <2>3 DEF ReadTally, Counts
    <3>2. /\ DOMAIN reads' = DOMAIN reads
          /\ \A j \in DOMAIN reads : reads'[j] = IF j = k THEN Counts(k) ELSE reads[j]
      BY <2>0, <3>1
    <3>3. reads' # << >>
      BY <1>0, <1>7, <3>2
    <3>4. ASSUME NEW j \in DOMAIN reads
          PROVE  \A i \in DOMAIN reads'[j] : reads'[j][i] = tally[Listed[i]]
      <4>1. CASE j = k
        BY <2>1, <3>2, <4>1
      <4>2. CASE j # k
        BY <3>2, <4>2 DEF DisplayInOrder
      <4>3. QED
        BY <4>1, <4>2
    <3>5. Listed' = Listed
      BY DEF Listed, Candidates
    <3>6. QED
      BY <2>0, <3>2, <3>3, <3>4, <3>5 DEF DisplayInOrder
  <2>4. QED
    BY <2>2, <2>3
<1>8. \A k : ~ReadFails(k)
  BY DEF ReadFails
<1>9. Mount \/ MountFails => display' = NoDisplay /\ reads' = << >>
  BY DEF Mount, MountFails, Offer, MountAs
<1>10. VoteStep \/ Finalize \/ UNCHANGED vars => UNCHANGED <<display, reads, tally>>
  BY DEF VoteStep, SelectVote, DecryptVote, Pick, RevealSelected, Finalize, vars, ui, chain
<1>11. QED
  BY <1>1, <1>2, <1>4, <1>5, <1>6, <1>7, <1>8, <1>9, <1>10 DEF Next, DisplayStep

(* An orderly count credits every ballot once, to a candidate it names,    *)
(* and the results tab comes to show that tally, although no reveal tells  *)
(* it: for any number of posts, of which the other ones go uncounted.      *)
THEOREM RevealOneCredit == Spec => []OneCreditPerBallot
<1> DEFINE Inv == orderly => TallyInOrder /\ DisplayInOrder
<1>1. Init => Inv
  <2> SUFFICES ASSUME Init PROVE TallyInOrder /\ DisplayInOrder
    OBVIOUS
  <2>1. /\ revealedCount = 0 /\ tally = [c \in Candidates |-> 0] /\ reads = << >>
        /\ display = NoDisplay
    BY DEF Init
  <2>3. \A c \in Candidates : CountedFor(c) = {}
    BY <2>1 DEF CountedFor
  <2>4. TallyInOrder
    BY <2>1, <2>3, FS_EmptySet DEF TallyInOrder
  <2>5. DisplayInOrder
    BY <2>1, EmptySeq, NewDisplay DEF DisplayInOrder
  <2>6. QED
    BY <2>4, <2>5
<1>2. CountInv /\ DisplayInv /\ (orderly => InOrder) /\ Inv /\ [Next]_vars => Inv'
  BY OrderlyFixed, TallyOrderStep, DisplayOrderStep
<1>3. CountInv /\ DisplayInv /\ (orderly => InOrder) /\ Inv => OneCreditPerBallot
  <2> DEFINE credited == [i \in DOMAIN encryptedVotes |-> revealLog[i + 1].candidate_id]
  <2>1. SUFFICES ASSUME CountInv, DisplayInv, InOrder, TallyInOrder, DisplayInOrder,
                        currentPhase = "TallyComplete"
                 PROVE  /\ credited \in [DOMAIN encryptedVotes -> Candidates]
                        /\ \A i \in DOMAIN encryptedVotes : i \in BallotsFor(credited[i])
                        /\ \A c \in Candidates :
                             tally[c] = Cardinality({i \in DOMAIN encryptedVotes : credited[i] = c})
                        /\ display.subscribed /\ reads = << >> => display.tally = tally
    BY DEF OneCreditPerBallot
  <2>2. /\ revealedCount = voteCounter /\ voteCounter \in Nat
        /\ DOMAIN encryptedVotes = 0..(voteCounter - 1)
        /\ revealLog \in Seq(Reveals) /\ Len(revealLog) = voteCounter
        /\ \A n \in DOMAIN revealLog : revealLog[n].vote_id = n - 1
    BY <2>1 DEF CountInv, Count, Box, Counted, InOrder, LogInOrder
  <2>3. ASSUME NEW i \in DOMAIN encryptedVotes
        PROVE  credited[i] \in Candidates /\ i \in BallotsFor(credited[i])
    <3>1. i + 1 \in DOMAIN revealLog /\ (i + 1) - 1 = i
      BY <2>2
    <3>2. revealLog[i + 1] \in Reveals /\ revealLog[i + 1].vote_id = i
      BY <2>2, <3>1, ElementOfSeq
    <3>3. credited[i] \in Named(i)
      BY <2>1, <3>1, <3>2 DEF CountInv, Count
    <3>4. QED
      BY <3>2, <3>3 DEF Reveals, Named, BallotsFor
  <2>4. ASSUME NEW c \in Candidates
        PROVE  tally[c] = Cardinality({i \in DOMAIN encryptedVotes : credited[i] = c})
    <3>1. CountedFor(c) = {i \in DOMAIN encryptedVotes : credited[i] = c}
      BY <2>2 DEF CountedFor
    <3>2. QED
      BY <2>1, <3>1 DEF TallyInOrder
  <2>5. ASSUME display.subscribed, reads = << >>
        PROVE  display.tally = tally
    <3>1. display # NoDisplay
      BY <2>5 DEF NoDisplay
    <3>2. display.pc = "on"
      BY <2>1, <3>1 DEF DisplayInv
    <3>3. QED
      BY <2>1, <2>5, <3>2 DEF DisplayInOrder
  <2>6. QED
    BY <2>3, <2>4, <2>5
<1>4. QED
  BY <1>1, <1>2, <1>3, CountInvariant, DisplayInvariant, InOrderInvariant, PTL DEF Spec
=============================================================================
