---------------------------- MODULE VotingPallet ----------------------------
(***************************************************************************)
(* The on-chain voting pallet, Blockchain/pallets/voting/src/lib.rs.       *)
(*                                                                         *)
(* One action per dispatchable call.  A call that fails one of its         *)
(* `ensure!`s leaves the storage as it was, so only the accepted calls are *)
(* actions; what a caller is told is given by the *Result operators, which *)
(* keep the order of the checks.                                           *)
(*                                                                         *)
(* A byte string is a member of Bytes; all the pallet asks of one is its   *)
(* length and whether two are equal.  UsedNullifiers is left out: the two  *)
(* lines that would read and write it are commented out in the source, so  *)
(* it is empty for ever.                                                   *)
(***************************************************************************)
EXTENDS Integers, Sequences, FiniteSets

CONSTANTS
  Accounts,       \* the AccountIds that sign submit_vote
  Bytes,          \* the byte strings a call may carry
  Size,           \* their lengths
  Ballots,        \* the argument triples submit_vote is called with
  CandidateIds,   \* the u32 keys of Tally that an admin uses
  MaxEncryptedVoteSize, MaxBlindSignatureSize, MaxVoteHashSize,
  MaxU32,         \* u32::MAX
  MaxU64,         \* u64::MAX
  MaxReveals      \* bound on the accepted reveal_vote calls of one election

ASSUME AccountsFinite == IsFiniteSet(Accounts)
ASSUME WidthsOK == /\ MaxU32 \in Nat \ {0}
                   /\ MaxU64 \in Nat
                   /\ MaxU32 <= MaxU64
                   /\ MaxReveals \in Nat
ASSUME SizesOK == /\ Size \in [Bytes -> Nat]
                  /\ MaxEncryptedVoteSize \in Nat
                  /\ MaxBlindSignatureSize \in Nat
                  /\ MaxVoteHashSize \in Nat
ASSUME BallotsOK ==
  Ballots \subseteq [encrypted_vote : Bytes, blind_signature : Bytes,
                     vote_hash : Bytes]

VARIABLES
  currentPhase,    \* CurrentPhase
  encryptedVotes,  \* EncryptedVotes: a function on the occupied vote ids
  voteCounter,     \* VoteCounter
  hasVoted,        \* HasVoted: the accounts mapped to true
  tally,           \* Tally
  revealedCount,   \* RevealedCount
  revealLog        \* the accepted reveal_vote calls, as the blocks record them

pallet == <<currentPhase, encryptedVotes, voteCounter, hasVoted, tally,
            revealedCount, revealLog>>

ElectionPhase == {"NotStarted", "Voting", "Ended", "TallyComplete"}

BoundedVec(max) == {b \in Bytes : Size[b] <= max}

EncryptedVote == [encrypted_vote  : BoundedVec(MaxEncryptedVoteSize),
                  blind_signature : BoundedVec(MaxBlindSignatureSize),
                  vote_hash       : BoundedVec(MaxVoteHashSize)]

Lesser(a, b) == IF a <= b THEN a ELSE b

(* A definition marked as a mutant is a bug this code could have had.      *)

(* Mutant: a wrapping add.                                                 *)
WrappingInc(n, max) == (n + 1) % (max + 1)

SaturatingInc(n, max) == Lesser(n + 1, max)

(***************************************************************************)
(* What a call answers.  The order is the order of the checks.             *)
(***************************************************************************)
PhaseResult(needed) == IF currentPhase = needed THEN "Ok" ELSE "WrongPhase"

(* Mutants: one of the three checks is missing.                            *)
SubmitVoteAnyPhase(who, ballot) ==
  IF who \in hasVoted THEN "AlreadyVoted"
  ELSE IF ballot \notin EncryptedVote THEN "TooLarge" ELSE "Ok"

SubmitVoteTwice(who, ballot) ==
  IF currentPhase # "Voting" THEN "WrongPhase"
  ELSE IF ballot \notin EncryptedVote THEN "TooLarge" ELSE "Ok"

SubmitVoteAnySize(who, ballot) ==
  IF currentPhase # "Voting" THEN "WrongPhase"
  ELSE IF who \in hasVoted THEN "AlreadyVoted" ELSE "Ok"

SubmitVoteResult(who, ballot) ==
  IF currentPhase # "Voting" THEN "WrongPhase"
  ELSE IF who \in hasVoted THEN "AlreadyVoted"
  ELSE IF ballot \notin EncryptedVote THEN "TooLarge"
  ELSE "Ok"

RevealVoteResult(id, hash) ==
  IF currentPhase # "Ended" THEN "WrongPhase"
  ELSE IF id \notin DOMAIN encryptedVotes THEN "VoteNotFound"
  ELSE IF encryptedVotes[id].vote_hash # hash THEN "VoteHashMismatch"
  ELSE "Ok"

-----------------------------------------------------------------------------
NoVotes == [i \in {} |-> {}]

EmptyStorage ==
  /\ encryptedVotes = NoVotes
  /\ voteCounter = 0
  /\ hasVoted = {}
  /\ tally = [c \in CandidateIds |-> 0]
  /\ revealedCount = 0
  /\ revealLog = << >>

Init == currentPhase = "NotStarted" /\ EmptyStorage

StartElection ==
  /\ PhaseResult("NotStarted") = "Ok"
  /\ currentPhase' = "Voting"
  /\ UNCHANGED <<encryptedVotes, voteCounter, hasVoted, tally, revealedCount,
                 revealLog>>

EndElection ==
  /\ PhaseResult("Voting") = "Ok"
  /\ currentPhase' = "Ended"
  /\ UNCHANGED <<encryptedVotes, voteCounter, hasVoted, tally, revealedCount,
                 revealLog>>

(* Mutant: the HasVoted insert is missing.                                 *)
SubmitVoteUnmarked(who, ballot) ==
  /\ SubmitVoteResult(who, ballot) = "Ok"
  /\ encryptedVotes' = [i \in DOMAIN encryptedVotes \cup {voteCounter} |->
                          IF i = voteCounter THEN ballot ELSE encryptedVotes[i]]
  /\ voteCounter' = SaturatingInc(voteCounter, MaxU32)
  /\ UNCHANGED <<currentPhase, hasVoted, tally, revealedCount, revealLog>>

SubmitVote(who, ballot) ==
  /\ SubmitVoteResult(who, ballot) = "Ok"
  /\ encryptedVotes' = [i \in DOMAIN encryptedVotes \cup {voteCounter} |->
                          IF i = voteCounter THEN ballot ELSE encryptedVotes[i]]
  /\ voteCounter' = SaturatingInc(voteCounter, MaxU32)
  /\ hasVoted' = hasVoted \cup {who}
  /\ UNCHANGED <<currentPhase, tally, revealedCount, revealLog>>

(* Mutant: the remove() that the source has commented out.                 *)
RevealVoteRemoves(id, candidate, hash) ==
  /\ RevealVoteResult(id, hash) = "Ok"
  /\ Len(revealLog) < MaxReveals
  /\ encryptedVotes' = [i \in DOMAIN encryptedVotes \ {id} |-> encryptedVotes[i]]
  /\ tally' = [tally EXCEPT ![candidate] = SaturatingInc(@, MaxU64)]
  /\ revealedCount' = SaturatingInc(revealedCount, MaxU32)
  /\ revealLog' = Append(revealLog, [vote_id |-> id, candidate_id |-> candidate,
                                     vote_hash |-> hash])
  /\ UNCHANGED <<currentPhase, voteCounter, hasVoted>>

RevealVote(id, candidate, hash) ==
  /\ RevealVoteResult(id, hash) = "Ok"
  /\ Len(revealLog) < MaxReveals
  /\ tally' = [tally EXCEPT ![candidate] = SaturatingInc(@, MaxU64)]
  /\ revealedCount' = SaturatingInc(revealedCount, MaxU32)
  /\ revealLog' = Append(revealLog, [vote_id |-> id, candidate_id |-> candidate,
                                     vote_hash |-> hash])
  /\ UNCHANGED <<currentPhase, encryptedVotes, voteCounter, hasVoted>>

FinalizeTally ==
  /\ PhaseResult("Ended") = "Ok"
  /\ currentPhase' = "TallyComplete"
  /\ UNCHANGED <<encryptedVotes, voteCounter, hasVoted, tally, revealedCount,
                 revealLog>>

(* Mutant: HasVoted is not cleared.                                        *)
ResetKeepsVoters ==
  /\ encryptedVotes' = NoVotes
  /\ voteCounter' = 0
  /\ revealedCount' = 0
  /\ tally' = [c \in CandidateIds |-> 0]
  /\ revealLog' = << >>
  /\ currentPhase' = "NotStarted"
  /\ UNCHANGED hasVoted

ResetElection ==
  /\ encryptedVotes' = NoVotes
  /\ voteCounter' = 0
  /\ revealedCount' = 0
  /\ hasVoted' = {}
  /\ tally' = [c \in CandidateIds |-> 0]
  /\ revealLog' = << >>
  /\ currentPhase' = "NotStarted"

Next ==
  \/ StartElection
  \/ EndElection
  \/ \E who \in Accounts, ballot \in Ballots : SubmitVote(who, ballot)
  \/ \E id \in 0..MaxU32, c \in CandidateIds, hash \in Bytes :
       RevealVote(id, c, hash)
  \/ FinalizeTally
  \/ ResetElection

Spec == Init /\ [][Next]_pallet

-----------------------------------------------------------------------------
(* The storage keeps the types the runtime gives it; in particular every   *)
(* stored vote fits its BoundedVecs and the counters fit their widths.     *)
TypeOK ==
  /\ currentPhase \in ElectionPhase
  /\ DOMAIN encryptedVotes \subseteq 0..MaxU32
  /\ \A i \in DOMAIN encryptedVotes : encryptedVotes[i] \in EncryptedVote
  /\ voteCounter \in 0..MaxU32
  /\ hasVoted \subseteq Accounts
  /\ tally \in [CandidateIds -> 0..MaxU64]
  /\ revealedCount \in 0..MaxU32
  /\ revealLog \in Seq([vote_id : 0..MaxU32, candidate_id : CandidateIds,
                        vote_hash : Bytes])

(* Every account marked as having voted has a vote of its own in the box,  *)
(* and nobody else has: up to u32::MAX + 1 voters the occupied slots are   *)
(* as many as the voters, and VoteCounter is their number until it         *)
(* saturates (submit_vote, the saturating_add).                            *)
OneSlotPerVoter ==
  LET n == Cardinality(hasVoted)
  IN  /\ voteCounter = Lesser(n, MaxU32)
      /\ DOMAIN encryptedVotes = 0..(Lesser(n, MaxU32 + 1) - 1)

(* The published result can be recomputed from the reveals in the blocks:  *)
(* each Tally entry is the number of accepted reveal_vote calls naming it  *)
(* and RevealedCount is the number of all of them (up to saturation).      *)
RevealsFor(c) == {n \in 1..Len(revealLog) : revealLog[n].candidate_id = c}

TallyMatchesReveals ==
  /\ \A c \in CandidateIds :
       tally[c] = Lesser(Cardinality(RevealsFor(c)), MaxU64)
  /\ revealedCount = Lesser(Len(revealLog), MaxU32)

(* Whoever counted a vote presented the hash stored with it, and that vote *)
(* is still stored for anyone to recheck, however many calls lie between   *)
(* (reveal_vote no longer removes it).                                     *)
RevealsMatchStoredVotes ==
  \A n \in 1..Len(revealLog) :
    LET r == revealLog[n]
    IN  /\ r.vote_id \in DOMAIN encryptedVotes
        /\ encryptedVotes[r.vote_id].vote_hash = r.vote_hash

(* Nothing of an earlier election survives into the next one: before an    *)
(* election starts the storage is as it was at genesis (reset_election     *)
(* clears every item, "allows reuse without purging chain").               *)
CleanSlate == currentPhase = "NotStarted" => EmptyStorage

(* No vote is counted while votes can still come in (reveal_vote needs the *)
(* Ended phase, which only a reset leaves towards Voting).                 *)
NoEarlyCount == currentPhase = "Voting" => revealLog = << >>

(* Short of counter saturation a stored vote is final: no call but         *)
(* reset_election changes or removes it.                                   *)
StoredVotesFinal ==
  [][\/ currentPhase' = "NotStarted"
     \/ voteCounter = MaxU32
     \/ \A i \in DOMAIN encryptedVotes :
          i \in DOMAIN encryptedVotes' /\ encryptedVotes'[i] = encryptedVotes[i]]_pallet

(* Once end_election has been accepted the box is closed, and once         *)
(* finalize_tally has, so is the count: only a reset changes them.         *)
ClosedStaysClosed ==
  [][/\ currentPhase \in {"Ended", "TallyComplete"} /\ currentPhase' # "NotStarted"
          => UNCHANGED <<encryptedVotes, voteCounter, hasVoted>>
     /\ currentPhase = "TallyComplete" /\ currentPhase' # "NotStarted"
          => UNCHANGED <<currentPhase, tally, revealedCount>>]_pallet
=============================================================================
