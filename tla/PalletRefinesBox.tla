--------------------------- MODULE PalletRefinesBox ---------------------------
(***************************************************************************)
(* The voting pallet read as a BallotBox: the slots of EncryptedVotes in   *)
(* the order of their ids are the box.  The reading is right as long as    *)
(* the counters do not saturate, which NoSaturation says: no more accounts *)
(* than u32::MAX, and room for all the reveals.                            *)
(***************************************************************************)
EXTENDS VotingPallet

NoSaturation ==
  /\ Cardinality(Accounts) <= MaxU32
  /\ MaxReveals <= MaxU32

stageOf == [NotStarted |-> "sealed", Voting |-> "open", Ended |-> "closed",
            TallyComplete |-> "published"]

boxOf == [i \in 1..voteCounter |-> encryptedVotes[i - 1]]

Box == INSTANCE BallotBox
         WITH Voters <- Accounts, Ballots <- EncryptedVote,
              Choices <- CandidateIds, stage <- stageOf[currentPhase],
              box <- boxOf, voters <- hasVoted, counts <- tally

(* Every behaviour of the pallet is a behaviour of the append-only ballot  *)
(* box: saturating counters, slot numbers and byte bounds are invisible.   *)
ImplementsBallotBox == Box!Spec
=============================================================================
