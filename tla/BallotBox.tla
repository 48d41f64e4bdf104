------------------------------ MODULE BallotBox ------------------------------
(***************************************************************************)
(* What the voting pallet promises, with no storage layout: an append-only *)
(* box of ballots that takes one ballot from each voter while it is open,  *)
(* is never touched again once it is closed, and is counted only then.     *)
(* The promise is about the box.  How often one ballot may be counted is   *)
(* left open on purpose: the code does not limit it.                       *)
(***************************************************************************)
EXTENDS Integers, Sequences

CONSTANTS Voters, Ballots, Choices

VARIABLES
  stage,   \* "sealed" before voting, then "open", "closed", "published"
  box,     \* the ballots in the order they were cast
  voters,  \* who has cast one
  counts   \* how often each choice was counted

vars == <<stage, box, voters, counts>>

ZeroCounts == [c \in Choices |-> 0]

Init == stage = "sealed" /\ box = << >> /\ voters = {} /\ counts = ZeroCounts

Move(from, to) == stage = from /\ stage' = to /\ UNCHANGED <<box, voters, counts>>

Cast(v, b) ==
  /\ stage = "open" /\ v \notin voters
  /\ box' = Append(box, b)
  /\ voters' = voters \cup {v}
  /\ UNCHANGED <<stage, counts>>

Count(c) ==
  /\ stage = "closed" /\ box # << >>
  /\ counts' = [counts EXCEPT ![c] = @ + 1]
  /\ UNCHANGED <<stage, box, voters>>

Clear ==
  stage' = "sealed" /\ box' = << >> /\ voters' = {} /\ counts' = ZeroCounts

Next ==
  \/ Move("sealed", "open") \/ Move("open", "closed") \/ Move("closed", "published")
  \/ \E v \in Voters, b \in Ballots : Cast(v, b)
  \/ \E c \in Choices : Count(c)
  \/ Clear

Spec == Init /\ [][Next]_vars
=============================================================================
