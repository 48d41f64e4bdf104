------------------------- MODULE VotingPalletProofs -------------------------
(***************************************************************************)
(* Theorems about the voting pallet, for every set of accounts, ballots    *)
(* and candidates, and every width of the counters, and that it implements *)
(* the append-only BallotBox when these are wide enough.                   *)
(***************************************************************************)
EXTENDS PalletRefinesBox, FiniteSetTheorems, SequenceTheorems, TLAPS

(* The types of all the storage items are preserved by every call.         *)
LEMMA TypeStep == TypeOK /\ [Next]_pallet => TypeOK'
<1> SUFFICES ASSUME TypeOK, [Next]_pallet PROVE TypeOK'
  OBVIOUS
<1> USE WidthsOK
<1>1. CASE StartElection
  BY <1>1 DEF StartElection, TypeOK, ElectionPhase
<1>2. CASE EndElection
  BY <1>2 DEF EndElection, TypeOK, ElectionPhase
<1>3. ASSUME NEW who \in Accounts, NEW ballot \in Ballots, SubmitVote(who, ballot)
      PROVE  TypeOK'
  <2>1. ballot \in EncryptedVote
    BY <1>3 DEF SubmitVote, SubmitVoteResult
  <2>2. voteCounter' \in 0..MaxU32
    BY <1>3 DEF SubmitVote, SaturatingInc, Lesser, TypeOK
  <2>3. DOMAIN encryptedVotes' = DOMAIN encryptedVotes \cup {voteCounter}
    BY <1>3 DEF SubmitVote
  <2>4. \A i \in DOMAIN encryptedVotes' : encryptedVotes'[i] \in EncryptedVote
    BY <1>3, <2>1 DEF SubmitVote, TypeOK
  <2>5. QED
    BY <1>3, <2>2, <2>3, <2>4 DEF SubmitVote, TypeOK
<1>4. ASSUME NEW id \in 0..MaxU32, NEW c \in CandidateIds, NEW hash \in Bytes,
             RevealVote(id, c, hash)
      PROVE  TypeOK'
  <2>1. tally' \in [CandidateIds -> 0..MaxU64]
    BY <1>4 DEF RevealVote, SaturatingInc, Lesser, TypeOK
  <2>2. revealedCount' \in 0..MaxU32
    BY <1>4 DEF RevealVote, SaturatingInc, Lesser, TypeOK
  <2>3. revealLog' \in Seq([vote_id : 0..MaxU32, candidate_id : CandidateIds,
                            vote_hash : Bytes])
    BY <1>4 DEF RevealVote, TypeOK
  <2>4. QED
    BY <1>4, <2>1, <2>2, <2>3 DEF RevealVote, TypeOK
<1>5. CASE FinalizeTally
  BY <1>5 DEF FinalizeTally, TypeOK, ElectionPhase
<1>6. CASE ResetElection
  BY <1>6 DEF ResetElection, TypeOK, ElectionPhase, NoVotes
<1>7. CASE UNCHANGED pallet
  BY <1>7 DEF pallet, TypeOK
<1>8. QED
  BY <1>1, <1>2, <1>3, <1>4, <1>5, <1>6, <1>7 DEF Next

(* Every reachable storage is well typed: no counter leaves its width and  *)
(* no stored vote exceeds its BoundedVecs.                                 *)
THEOREM PalletTypeCorrect == Spec => []TypeOK
<1>1. Init => TypeOK
  BY WidthsOK DEF Init, EmptyStorage, NoVotes, TypeOK, ElectionPhase
<1>2. QED
  BY <1>1, TypeStep, PTL DEF Spec

-----------------------------------------------------------------------------
(* HasVoted holds finitely many accounts, so it can be counted.            *)
LEMMA HasVotedFinite ==
  ASSUME TypeOK
  PROVE  IsFiniteSet(hasVoted) /\ Cardinality(hasVoted) \in Nat
BY AccountsFinite, FS_Subset, FS_CardinalityType DEF TypeOK

(* OneSlotPerVoter is inductive given the types: a first vote of an        *)
(* account takes the next slot, and a saturated counter keeps pointing at  *)
(* the last one.                                                           *)
LEMMA SlotStep == TypeOK /\ OneSlotPerVoter /\ [Next]_pallet => OneSlotPerVoter'
<1> SUFFICES ASSUME TypeOK, OneSlotPerVoter, [Next]_pallet PROVE OneSlotPerVoter'
  OBVIOUS
<1> USE WidthsOK
<1>1. CASE UNCHANGED <<encryptedVotes, voteCounter, hasVoted>>
  BY <1>1 DEF OneSlotPerVoter, Lesser
<1>2. ASSUME NEW who \in Accounts, NEW ballot \in Ballots, SubmitVote(who, ballot)
      PROVE  OneSlotPerVoter'
  <2> DEFINE n == Cardinality(hasVoted)
  <2>1. who \notin hasVoted
    BY <1>2 DEF SubmitVote, SubmitVoteResult
  <2>2. n \in Nat /\ Cardinality(hasVoted') = n + 1
    BY <1>2, <2>1, HasVotedFinite, FS_AddElement DEF SubmitVote
  <2>3. voteCounter = Lesser(n, MaxU32)
        /\ DOMAIN encryptedVotes = 0..(Lesser(n, MaxU32 + 1) - 1)
    BY DEF OneSlotPerVoter
  <2>4. voteCounter' = Lesser(voteCounter + 1, MaxU32)
        /\ DOMAIN encryptedVotes' = DOMAIN encryptedVotes \cup {voteCounter}
    BY <1>2 DEF SubmitVote, SaturatingInc
  <2> HIDE DEF n
  <2>5. voteCounter' = Lesser(n + 1, MaxU32)
    BY <2>2, <2>3, <2>4 DEF Lesser
  <2>6. DOMAIN encryptedVotes' = 0..(Lesser(n + 1, MaxU32 + 1) - 1)
    BY <2>2, <2>3, <2>4 DEF Lesser
  <2>7. QED
    BY <2>2, <2>5, <2>6 DEF OneSlotPerVoter
<1>3. CASE ResetElection
  <2>1. Cardinality(hasVoted') = 0
    BY <1>3, FS_EmptySet DEF ResetElection
  <2>2. QED
    BY <1>3, <2>1 DEF ResetElection, NoVotes, OneSlotPerVoter, Lesser
<1>4. QED
  BY <1>1, <1>2, <1>3 DEF Next, pallet, StartElection, EndElection, RevealVote,
     FinalizeTally

(* Every voter has a slot and every slot a voter, in every reachable state *)
(* and for any counter width.                                              *)
THEOREM PalletOneSlotPerVoter == Spec => []OneSlotPerVoter
<1>1. Init => OneSlotPerVoter
  BY FS_EmptySet, WidthsOK DEF Init, EmptyStorage, NoVotes, OneSlotPerVoter, Lesser
<1>2. QED
  BY <1>1, SlotStep, PalletTypeCorrect, PTL DEF Spec

-----------------------------------------------------------------------------
(* Appending one reveal adds exactly its number to the reveals of its      *)
(* candidate and to no other's.                                            *)
LEMMA RevealsForStep ==
  ASSUME TypeOK, NEW id \in 0..MaxU32, NEW c \in CandidateIds, NEW hash \in Bytes,
         RevealVote(id, c, hash), NEW d \in CandidateIds
  PROVE  /\ Cardinality(RevealsFor(d)) \in Nat
         /\ Cardinality(RevealsFor(d)') =
              IF d = c THEN Cardinality(RevealsFor(d)) + 1
                       ELSE Cardinality(RevealsFor(d))
<1> DEFINE k == Len(revealLog)
<1>1. k \in Nat /\ Len(revealLog') = k + 1
  BY DEF TypeOK, RevealVote
<1>2. \A n \in 1..k : revealLog'[n] = revealLog[n]
  BY DEF TypeOK, RevealVote
<1>3. revealLog'[k + 1].candidate_id = c
  BY DEF TypeOK, RevealVote
<1>4. IsFiniteSet(RevealsFor(d)) /\ Cardinality(RevealsFor(d)) \in Nat
  <2>1. IsFiniteSet(1..k)
    BY <1>1, FS_Interval
  <2>2. QED
    BY <2>1, FS_Subset, FS_CardinalityType DEF RevealsFor
<1>5. k + 1 \notin RevealsFor(d)
  BY <1>1 DEF RevealsFor
<1>6. RevealsFor(d)' = IF d = c THEN RevealsFor(d) \cup {k + 1} ELSE RevealsFor(d)
  BY <1>1, <1>2, <1>3 DEF RevealsFor
<1>7. QED
  BY <1>4, <1>5, <1>6, FS_AddElement

(* TallyMatchesReveals is inductive given the types.                       *)
LEMMA TallyStep ==
  TypeOK /\ TallyMatchesReveals /\ [Next]_pallet => TallyMatchesReveals'
<1> SUFFICES ASSUME TypeOK, TallyMatchesReveals, [Next]_pallet
             PROVE  TallyMatchesReveals'
  OBVIOUS
<1> USE WidthsOK
<1>1. CASE UNCHANGED <<tally, revealedCount, revealLog>>
  BY <1>1 DEF TallyMatchesReveals, RevealsFor, Lesser
<1>2. ASSUME NEW id \in 0..MaxU32, NEW c \in CandidateIds, NEW hash \in Bytes,
             RevealVote(id, c, hash)
      PROVE  TallyMatchesReveals'
  <2>1. Len(revealLog) \in Nat /\ Len(revealLog') = Len(revealLog) + 1
    BY <1>2 DEF TypeOK, RevealVote
  <2>2. revealedCount' = Lesser(Len(revealLog'), MaxU32)
    BY <1>2, <2>1 DEF TallyMatchesReveals, RevealVote, SaturatingInc, Lesser
  <2>3. ASSUME NEW d \in CandidateIds
        PROVE  tally'[d] = Lesser(Cardinality(RevealsFor(d)'), MaxU64)
    <3>1. tally[d] = Lesser(Cardinality(RevealsFor(d)), MaxU64)
      BY DEF TallyMatchesReveals
    <3>2. tally'[d] = IF d = c THEN Lesser(tally[d] + 1, MaxU64) ELSE tally[d]
      BY <1>2 DEF RevealVote, SaturatingInc, TypeOK
    <3>3. /\ Cardinality(RevealsFor(d)) \in Nat
          /\ Cardinality(RevealsFor(d)') =
               IF d = c THEN Cardinality(RevealsFor(d)) + 1
                        ELSE Cardinality(RevealsFor(d))
      BY <1>2, RevealsForStep
    <3>4. QED
      BY <3>1, <3>2, <3>3 DEF Lesser
  <2>4. QED
    BY <2>2, <2>3 DEF TallyMatchesReveals
<1>3. CASE ResetElection
  <2>1. Len(revealLog') = 0
    BY <1>3 DEF ResetElection
  <2>2. \A d \in CandidateIds : RevealsFor(d)' = {}
    BY <2>1 DEF RevealsFor
  <2>3. \A d \in CandidateIds : Cardinality(RevealsFor(d)') = 0
    BY <2>2, FS_EmptySet
  <2>4. QED
    BY <1>3, <2>1, <2>3 DEF ResetElection, TallyMatchesReveals, Lesser
<1>4. QED
  BY <1>1, <1>2, <1>3 DEF Next, pallet, StartElection, EndElection, SubmitVote,
     FinalizeTally

(* The tally is always the count of the reveals recorded in the blocks.    *)
THEOREM PalletTallyMatchesReveals == Spec => []TallyMatchesReveals
<1>1. ASSUME Init PROVE TallyMatchesReveals
  <2>1. Len(revealLog) = 0 /\ revealedCount = 0
    BY <1>1 DEF Init, EmptyStorage
  <2>2. \A c \in CandidateIds : RevealsFor(c) = {}
    BY <2>1 DEF RevealsFor
  <2>3. \A c \in CandidateIds : tally[c] = 0 /\ Cardinality(RevealsFor(c)) = 0
    BY <1>1, <2>2, FS_EmptySet DEF Init, EmptyStorage
  <2>4. QED
    BY <2>1, <2>3, WidthsOK DEF TallyMatchesReveals, Lesser
<1>2. QED
  BY <1>1, TallyStep, PalletTypeCorrect, PTL DEF Spec

-----------------------------------------------------------------------------
(* RevealsMatchStoredVotes alone is not inductive: a vote stored after a   *)
(* reveal could overwrite the revealed one.  It needs that no reveal       *)
(* precedes the closing of the box, which in turn needs that an election   *)
(* starts from an empty storage.                                           *)
RevealInv == CleanSlate /\ NoEarlyCount /\ RevealsMatchStoredVotes

LEMMA RevealStep == TypeOK /\ RevealInv /\ [Next]_pallet => RevealInv'
<1> SUFFICES ASSUME TypeOK, RevealInv, [Next]_pallet PROVE RevealInv'
  OBVIOUS
<1> USE DEF RevealInv, CleanSlate, NoEarlyCount, RevealsMatchStoredVotes
<1>1. CASE StartElection
  <2>1. EmptyStorage
    BY <1>1 DEF StartElection, PhaseResult
  <2>2. QED
    BY <1>1, <2>1 DEF StartElection, EmptyStorage
<1>2. CASE EndElection
  BY <1>2 DEF EndElection, PhaseResult
<1>3. ASSUME NEW who \in Accounts, NEW ballot \in Ballots, SubmitVote(who, ballot)
      PROVE  RevealInv'
  <2>1. currentPhase = "Voting" /\ currentPhase' = "Voting"
    BY <1>3 DEF SubmitVote, SubmitVoteResult
  <2>2. revealLog' = << >>
    BY <1>3, <2>1 DEF SubmitVote
  <2>3. QED
    BY <2>1, <2>2
<1>4. ASSUME NEW id \in 0..MaxU32, NEW c \in CandidateIds, NEW hash \in Bytes,
             RevealVote(id, c, hash)
      PROVE  RevealInv'
  <2> DEFINE r == [vote_id |-> id, candidate_id |-> c, vote_hash |-> hash]
             k == Len(revealLog)
  <2>1. currentPhase' = "Ended" /\ UNCHANGED encryptedVotes
    BY <1>4 DEF RevealVote, RevealVoteResult
  <2>2. id \in DOMAIN encryptedVotes /\ encryptedVotes[id].vote_hash = hash
    BY <1>4 DEF RevealVote, RevealVoteResult
  <2>3. k \in Nat /\ Len(revealLog') = k + 1 /\ revealLog'[k + 1] = r
        /\ \A n \in 1..k : revealLog'[n] = revealLog[n]
    BY <1>4 DEF RevealVote, TypeOK
  <2>4. ASSUME NEW n \in 1..Len(revealLog')
        PROVE  /\ revealLog'[n].vote_id \in DOMAIN encryptedVotes'
               /\ encryptedVotes'[revealLog'[n].vote_id].vote_hash
                    = revealLog'[n].vote_hash
    <3>1. CASE n = k + 1
      BY <3>1, <2>1, <2>2, <2>3
    <3>2. CASE n \in 1..k
      BY <3>2, <2>1, <2>3
    <3>3. QED
      BY <3>1, <3>2, <2>3
  <2>5. QED
    BY <2>1, <2>4
<1>5. CASE FinalizeTally
  BY <1>5 DEF FinalizeTally, PhaseResult
<1>6. CASE ResetElection
  BY <1>6 DEF ResetElection, EmptyStorage, NoVotes
<1>7. CASE UNCHANGED pallet
  BY <1>7 DEF pallet, EmptyStorage
<1>8. QED
  BY <1>1, <1>2, <1>3, <1>4, <1>5, <1>6, <1>7 DEF Next

LEMMA RevealInvariant == Spec => []RevealInv
<1>1. Init => RevealInv
  BY DEF Init, EmptyStorage, RevealInv, CleanSlate, NoEarlyCount,
     RevealsMatchStoredVotes
<1>2. QED
  BY <1>1, RevealStep, PalletTypeCorrect, PTL DEF Spec

(* Every counted vote can be rechecked against the stored one.             *)
THEOREM PalletRevealsMatchStoredVotes == Spec => []RevealsMatchStoredVotes
<1>1. RevealInv => RevealsMatchStoredVotes
  BY DEF RevealInv
<1>2. QED
  BY <1>1, RevealInvariant, PTL

(* A reset leaves nothing of the old election behind.                      *)
THEOREM PalletCleanSlate == Spec => []CleanSlate
<1>1. RevealInv => CleanSlate
  BY DEF RevealInv
<1>2. QED
  BY <1>1, RevealInvariant, PTL

(* Nothing is counted while votes can still come in.                       *)
THEOREM PalletNoEarlyCount == Spec => []NoEarlyCount
<1>1. RevealInv => NoEarlyCount
  BY DEF RevealInv
<1>2. QED
  BY <1>1, RevealInvariant, PTL

-----------------------------------------------------------------------------
(* Until the counter saturates no call but a reset touches a stored vote:  *)
(* the slot a new vote takes is a fresh one, by OneSlotPerVoter.           *)
THEOREM PalletStoredVotesFinal == Spec => StoredVotesFinal
<1> DEFINE Final == \/ currentPhase' = "NotStarted"
                    \/ voteCounter = MaxU32
                    \/ \A i \in DOMAIN encryptedVotes :
                         i \in DOMAIN encryptedVotes' /\ encryptedVotes'[i] = encryptedVotes[i]
<1>1. TypeOK /\ OneSlotPerVoter /\ [Next]_pallet => [Final]_pallet
  <2> SUFFICES ASSUME TypeOK, OneSlotPerVoter, Next PROVE Final
    OBVIOUS
  <2>1. CASE UNCHANGED encryptedVotes
    BY <2>1
  <2>2. ASSUME NEW who \in Accounts, NEW ballot \in Ballots,
               SubmitVote(who, ballot), voteCounter # MaxU32
        PROVE  Final
    <3>1. voteCounter \notin DOMAIN encryptedVotes
      BY <2>2, HasVotedFinite, WidthsOK DEF OneSlotPerVoter, Lesser
    <3>2. QED
      BY <2>2, <3>1 DEF SubmitVote
  <2>3. CASE ResetElection
    BY <2>3 DEF ResetElection
  <2>4. QED
    BY <2>1, <2>2, <2>3 DEF Next, StartElection, EndElection, RevealVote,
       FinalizeTally
<1>2. QED
  BY <1>1, PalletTypeCorrect, PalletOneSlotPerVoter, PTL DEF Spec, StoredVotesFinal

(* The closed box and the finalized count change only by a reset.          *)
THEOREM PalletClosedStaysClosed == Spec => ClosedStaysClosed
<1> DEFINE Closed ==
      /\ currentPhase \in {"Ended", "TallyComplete"} /\ currentPhase' # "NotStarted"
           => UNCHANGED <<encryptedVotes, voteCounter, hasVoted>>
      /\ currentPhase = "TallyComplete" /\ currentPhase' # "NotStarted"
           => UNCHANGED <<currentPhase, tally, revealedCount>>
<1>1. [Next]_pallet => [Closed]_pallet
  <2> SUFFICES ASSUME Next PROVE Closed
    OBVIOUS
  <2> QED
    BY DEF Next, StartElection, EndElection, SubmitVote, SubmitVoteResult,
       RevealVote, RevealVoteResult, FinalizeTally, PhaseResult, ResetElection
<1>2. QED
  BY <1>1, PTL DEF Spec, ClosedStaysClosed

-----------------------------------------------------------------------------
(* The pallet as an append-only ballot box.  The step simulation needs     *)
(* that VoteCounter is the number of occupied slots (OneSlotPerVoter) and  *)
(* that Tally is the number of reveals (TallyMatchesReveals), so that      *)
(* neither saturates.                                                      *)

(* Without saturation the counter leaves room for one more voter.          *)
LEMMA RoomForVoter ==
  ASSUME NoSaturation, TypeOK, OneSlotPerVoter
  PROVE  /\ voteCounter = Cardinality(hasVoted)
         /\ DOMAIN encryptedVotes = 0..(voteCounter - 1)
         /\ voteCounter \in Nat
         /\ \A who \in Accounts \ hasVoted : voteCounter < MaxU32
<1> DEFINE n == Cardinality(hasVoted)
<1>1. n \in Nat /\ n <= Cardinality(Accounts) /\ Cardinality(Accounts) \in Nat
  BY AccountsFinite, FS_Subset, FS_CardinalityType DEF TypeOK
<1>2. n <= MaxU32
  BY <1>1, WidthsOK DEF NoSaturation
<1>3. voteCounter = n /\ DOMAIN encryptedVotes = 0..(n - 1)
  BY <1>1, <1>2, WidthsOK DEF OneSlotPerVoter, Lesser
<1>4. ASSUME NEW who \in Accounts \ hasVoted PROVE n < MaxU32
  <2>1. n = Cardinality(Accounts) => hasVoted = Accounts
    BY AccountsFinite, FS_Subset DEF TypeOK
  <2>2. QED
    BY <1>1, <2>1, WidthsOK DEF NoSaturation
<1>5. QED
  BY <1>1, <1>3, <1>4

(* Every call of the pallet is a step of the box or leaves it unchanged.   *)
LEMMA BoxStep ==
  ASSUME NoSaturation
  PROVE  TypeOK /\ OneSlotPerVoter /\ TallyMatchesReveals /\ [Next]_pallet
           => [Box!Next]_(Box!vars)
<1> SUFFICES ASSUME TypeOK, OneSlotPerVoter, TallyMatchesReveals, [Next]_pallet
             PROVE  [Box!Next]_(Box!vars)
  OBVIOUS
<1> USE WidthsOK
<1>1. CASE StartElection
  <2>1. Box!Move("sealed", "open")
    BY <1>1 DEF StartElection, PhaseResult, Box!Move, stageOf, boxOf
  <2>2. QED
    BY <2>1 DEF Box!Next
<1>2. CASE EndElection
  <2>1. Box!Move("open", "closed")
    BY <1>2 DEF EndElection, PhaseResult, Box!Move, stageOf, boxOf
  <2>2. QED
    BY <2>1 DEF Box!Next
<1>3. ASSUME NEW who \in Accounts, NEW ballot \in Ballots, SubmitVote(who, ballot)
      PROVE  [Box!Next]_(Box!vars)
  <2>1. /\ currentPhase = "Voting" /\ who \notin hasVoted
        /\ ballot \in EncryptedVote
    BY <1>3 DEF SubmitVote, SubmitVoteResult
  <2>2. voteCounter \in Nat /\ voteCounter < MaxU32
        /\ DOMAIN encryptedVotes = 0..(voteCounter - 1)
    BY <2>1, RoomForVoter
  <2>3. voteCounter' = voteCounter + 1
    BY <1>3, <2>2 DEF SubmitVote, SaturatingInc, Lesser
  <2>4. boxOf' = Append(boxOf, ballot)
    <3>1. boxOf' = [i \in 1..(voteCounter + 1) |-> encryptedVotes'[i - 1]]
      BY <2>3 DEF boxOf
    <3>2. \A i \in 1..(voteCounter + 1) : encryptedVotes'[i - 1] =
            IF i = voteCounter + 1 THEN ballot ELSE encryptedVotes[i - 1]
      BY <1>3, <2>2 DEF SubmitVote
    <3>3. boxOf \in Seq(EncryptedVote) /\ Len(boxOf) = voteCounter
      <4>1. \A k \in 0..(voteCounter - 1) : encryptedVotes[k] \in EncryptedVote
        <5>1. \A k \in DOMAIN encryptedVotes : encryptedVotes[k] \in EncryptedVote
          BY DEF TypeOK
        <5>2. QED
          BY <2>2, <5>1
      <4>2. ASSUME NEW i \in 1..voteCounter PROVE encryptedVotes[i - 1] \in EncryptedVote
        <5>1. i - 1 \in 0..(voteCounter - 1)
          BY <2>2
        <5>2. QED
          BY <4>1, <5>1
      <4>3. boxOf \in [1..voteCounter -> EncryptedVote]
        BY <4>2 DEF boxOf
      <4>4. QED
        BY <2>2, <4>3
    <3>4. /\ boxOf' \in Seq(EncryptedVote) /\ Len(boxOf') = voteCounter + 1
      <4>1. ASSUME NEW i \in 1..(voteCounter + 1)
            PROVE  encryptedVotes'[i - 1] \in EncryptedVote
        <5>1. i # voteCounter + 1 => i - 1 \in DOMAIN encryptedVotes
          BY <2>2
        <5>2. QED
          BY <2>1, <3>2, <5>1 DEF TypeOK
      <4>2. boxOf' \in [1..(voteCounter + 1) -> EncryptedVote]
        BY <3>1, <4>1
      <4>3. QED
        BY <2>2, <4>2
    <3>5. /\ Append(boxOf, ballot) \in Seq(EncryptedVote)
          /\ Len(Append(boxOf, ballot)) = voteCounter + 1
          /\ \A i \in 1..(voteCounter + 1) : Append(boxOf, ballot)[i] =
               IF i = voteCounter + 1 THEN ballot ELSE boxOf[i]
      BY <2>1, <2>2, <3>3, AppendProperties
    <3>6. ASSUME NEW i \in 1..(voteCounter + 1)
          PROVE  boxOf'[i] = Append(boxOf, ballot)[i]
      <4>1. boxOf'[i] = encryptedVotes'[i - 1]
        BY <3>1
      <4>2. i # voteCounter + 1 => boxOf[i] = encryptedVotes[i - 1]
        BY <2>2 DEF boxOf
      <4>3. QED
        BY <3>2, <3>5, <4>1, <4>2
    <3>7. QED
      BY <3>4, <3>5, <3>6, SeqEqual
  <2>5. Box!Cast(who, ballot)
    BY <1>3, <2>1, <2>4 DEF SubmitVote, Box!Cast, stageOf
  <2>6. QED
    BY <2>1, <2>5 DEF Box!Next
<1>4. ASSUME NEW id \in 0..MaxU32, NEW c \in CandidateIds, NEW hash \in Bytes,
             RevealVote(id, c, hash)
      PROVE  [Box!Next]_(Box!vars)
  <2>1. currentPhase = "Ended" /\ id \in DOMAIN encryptedVotes
    BY <1>4 DEF RevealVote, RevealVoteResult
  <2>2. voteCounter \in Nat \ {0}
    BY <2>1, RoomForVoter
  <2>3. boxOf # << >>
    BY <2>2 DEF boxOf
  <2>4. tally[c] < MaxU64 /\ tally[c] \in Nat
    <3> DEFINE k == Len(revealLog)
    <3>1. k \in Nat /\ k < MaxReveals
      BY <1>4 DEF RevealVote, TypeOK
    <3>2. Cardinality(RevealsFor(c)) \in Nat /\ Cardinality(RevealsFor(c)) <= k
      <4>1. RevealsFor(c) \subseteq 1..k
        BY DEF RevealsFor
      <4> HIDE DEF k
      <4>2. IsFiniteSet(1..k) /\ Cardinality(1..k) = k
        BY <3>1, FS_Interval
      <4>3. QED
        BY <4>1, <4>2, FS_Subset, FS_CardinalityType
    <3>3. tally[c] = Lesser(Cardinality(RevealsFor(c)), MaxU64)
      BY DEF TallyMatchesReveals
    <3>4. QED
      BY <3>1, <3>2, <3>3 DEF NoSaturation, Lesser
  <2>5. tally' = [tally EXCEPT ![c] = @ + 1]
    <3>1. SaturatingInc(tally[c], MaxU64) = tally[c] + 1
      BY <2>4 DEF SaturatingInc, Lesser
    <3>2. QED
      BY <1>4, <3>1 DEF RevealVote
  <2>6. Box!Count(c)
    BY <1>4, <2>1, <2>3, <2>5 DEF RevealVote, Box!Count, stageOf, boxOf
  <2>7. QED
    BY <2>6 DEF Box!Next
<1>5. CASE FinalizeTally
  <2>1. Box!Move("closed", "published")
    BY <1>5 DEF FinalizeTally, PhaseResult, Box!Move, stageOf, boxOf
  <2>2. QED
    BY <2>1 DEF Box!Next
<1>6. CASE ResetElection
  <2>1. boxOf' = << >>
    BY <1>6 DEF ResetElection, boxOf
  <2>2. Box!Clear
    BY <1>6, <2>1 DEF ResetElection, Box!Clear, Box!ZeroCounts, stageOf
  <2>3. QED
    BY <2>2 DEF Box!Next
<1>7. CASE UNCHANGED pallet
  BY <1>7 DEF pallet, Box!vars, boxOf, stageOf
<1>8. QED
  BY <1>1, <1>2, <1>3, <1>4, <1>5, <1>6, <1>7 DEF Next

(* The pallet implements the append-only ballot box, when all voters and   *)
(* all reveals fit the counters.                                           *)
THEOREM PalletImplementsBallotBox ==
  ASSUME NoSaturation
  PROVE  Spec => ImplementsBallotBox
<1>1. Init => Box!Init
  <2>1. Init => boxOf = << >>
    BY DEF Init, EmptyStorage, boxOf
  <2>2. QED
    BY <2>1 DEF Init, EmptyStorage, Box!Init, Box!ZeroCounts, stageOf
<1>2. QED
  BY <1>1, BoxStep, PalletTypeCorrect, PalletOneSlotPerVoter,
     PalletTallyMatchesReveals, PTL DEF Spec, ImplementsBallotBox, Box!Spec
=============================================================================
