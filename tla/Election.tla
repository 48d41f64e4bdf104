------------------------------ MODULE Election ------------------------------
(***************************************************************************)
(* What voters and admin are promised of one election, with no browser,    *)
(* backend, chain or message in sight: who may vote is granted it one by   *)
(* one and for good, whoever was granted it casts at most one vote while   *)
(* voting is open, and what was cast stays as it is.                       *)
(* A grant may come after the close - it is of no use then - because a     *)
(* signature is issued by a server that read the status a moment ago.      *)
(***************************************************************************)
EXTENDS Sequences

CONSTANTS Voters, Choices

VARIABLES
  stage,    \* "before", "open" or "closed"
  granted,  \* the voters who were given leave to vote
  box       \* the votes, each with its voter, in the order they were cast

vars == <<stage, granted, box>>

Init == stage = "before" /\ granted = {} /\ box = << >>

Open == stage = "before" /\ stage' = "open" /\ UNCHANGED <<granted, box>>

Grant(v) ==
  /\ stage # "before" /\ v \notin granted
  /\ granted' = granted \cup {v}
  /\ UNCHANGED <<stage, box>>

Voted == {box[i].voter : i \in DOMAIN box}

Cast(v, c) ==
  /\ stage = "open" /\ v \in granted \ Voted
  /\ box' = Append(box, [voter |-> v, choice |-> c])
  /\ UNCHANGED <<stage, granted>>

Close == stage = "open" /\ stage' = "closed" /\ UNCHANGED <<granted, box>>

Next ==
  \/ Open \/ Close
  \/ \E v \in Voters : Grant(v) \/ \E c \in Choices : Cast(v, c)

Spec == Init /\ [][Next]_vars
=============================================================================
