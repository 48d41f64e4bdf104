--------------------------- MODULE DjangoElection ---------------------------
(***************************************************************************)
(* The Django side of an election: Backend/voting (election state,         *)
(* candidates, blind signatures) and the two views of Backend/voter that   *)
(* write the same Voter rows.                                              *)
(*                                                                         *)
(* The requests run concurrently against one Postgres database at READ     *)
(* COMMITTED: every statement sees what was committed before it, and a     *)
(* transaction's own writes appear at once at its commit.  A request is    *)
(* cut where another one's commit can fall between two of its statements   *)
(* and matter.  Nothing in the views takes a row lock by hand; the locks   *)
(* that exist are those of the UPDATE in start_election, kept in `locked`. *)
(* A request whose guard fails answers with an error and changes nothing:  *)
(* it is not a step.                                                       *)
(***************************************************************************)
EXTENDS Integers, FiniteSets

CONSTANTS
  Voters,         \* Voter rows (registered students)
  Blinded,        \* blinded votes, up to their blinded_hash
  Posts,          \* Candidate.POST_CHOICES
  CandidateRows,  \* what an admin may post: name, post, candidate_id
  SignRequests, AdminRequests, SaveRequests,  \* concurrent request slots
  DEBUG,          \* settings.DEBUG, which opens dev_verify_voter
  MaxElections,   \* bound on the starts of an election
  NoVoter, NoBlinded, NoCandidate

ASSUME DjangoConstants ==
  /\ IsFiniteSet(Voters) /\ NoVoter \notin Voters
  /\ IsFiniteSet(AdminRequests)
  /\ NoBlinded \notin Blinded /\ NoCandidate \notin CandidateRows
  /\ DEBUG \in BOOLEAN
  /\ MaxElections \in Nat
  /\ \A c \in CandidateRows : {"name", "post", "candidate_id"} \subseteq DOMAIN c

VARIABLES
  status,      \* ElectionState.status
  candidates,  \* Candidate table
  verified,    \* Voter.is_verified
  voted,       \* Voter.is_voted
  signatures,  \* BlindSignature table: voter -> blinded_hash
  sign,        \* the sign_blind_vote requests
  admin,       \* the admin requests
  save,        \* the verify_email and dev_verify_voter requests
  elections,   \* number of starts, for the bound
  issued       \* history: signatures handed out to a voter since the
               \* election last became active

tables == <<status, candidates, verified, voted, signatures>>
vars == <<status, candidates, verified, voted, signatures, sign, admin, save,
          elections, issued>>

Status == {"not_started", "active", "ended"}

IdleSign == [pc |-> "idle", voter |-> NoVoter, blinded |-> NoBlinded]
IdleAdmin == [pc |-> "idle", candidate |-> NoCandidate, locked |-> {}]
IdleSave == [pc |-> "idle", voter |-> NoVoter, voted |-> FALSE]

(* Rows another transaction has updated and not yet committed.             *)
locked == UNION {admin[a].locked : a \in AdminRequests}

Init ==
  /\ status = "not_started"
  /\ candidates = {} /\ verified = {} /\ voted = {}
  /\ signatures = [v \in {} |-> NoBlinded]
  /\ sign = [r \in SignRequests |-> IdleSign]
  /\ admin = [a \in AdminRequests |-> IdleAdmin]
  /\ save = [s \in SaveRequests |-> IdleSave]
  /\ elections = 0
  /\ issued = [v \in Voters |-> 0]

-----------------------------------------------------------------------------
(* sign_blind_vote                                                         *)

(* The checks before the transaction: the voter's row and the election's   *)
(* status are read here and the status is never read again.                *)
SignReceive(r, v, b) ==
  /\ sign[r].pc = "idle"
  /\ status = "active" /\ v \in verified /\ v \notin voted
  /\ sign' = [sign EXCEPT ![r] = [pc |-> "validated", voter |-> v, blinded |-> b]]
  /\ UNCHANGED <<tables, admin, save, elections, issued>>

(* Inside the transaction: refresh_from_db, is_voted again, and whether a  *)
(* BlindSignature row exists.  Failing one answers 403 or 409.             *)
SignRecheck(r) ==
  LET v == sign[r].voter
      clear == v \notin voted /\ v \notin DOMAIN signatures
  IN  /\ sign[r].pc = "validated"
      /\ sign' = [sign EXCEPT ![r] = IF clear THEN [@ EXCEPT !.pc = "cleared"]
                                              ELSE IdleSign]
      /\ UNCHANGED <<tables, admin, save, elections, issued>>

(* Mutant: BlindSignature without its unique columns.                      *)
SignCommitUnconstrained(r) ==
  LET v == sign[r].voter
  IN  /\ sign[r].pc = "cleared" /\ v \notin locked
      /\ signatures' = [w \in DOMAIN signatures \cup {v} |->
                          IF w = v THEN sign[r].blinded ELSE signatures[w]]
      /\ voted' = voted \cup {v}
      /\ issued' = [issued EXCEPT ![v] = @ + 1]
      /\ sign' = [sign EXCEPT ![r] = IdleSign]
      /\ UNCHANGED <<status, candidates, verified, admin, save, elections>>

(* The INSERT of the BlindSignature row, the UPDATE of is_voted and the    *)
(* commit.  Either unique column may refuse the INSERT (IntegrityError,    *)
(* answered 500, everything rolled back); the UPDATE waits for the row.    *)
SignCommit(r) ==
  LET v == sign[r].voter
      b == sign[r].blinded
      unique == /\ v \notin DOMAIN signatures
                /\ \A w \in DOMAIN signatures : signatures[w] # b
  IN  /\ sign[r].pc = "cleared"
      /\ v \notin locked
      /\ IF unique
           THEN /\ signatures' = [w \in DOMAIN signatures \cup {v} |->
                                    IF w = v THEN b ELSE signatures[w]]
                /\ voted' = voted \cup {v}
                /\ issued' = [issued EXCEPT ![v] = @ + 1]
           ELSE UNCHANGED <<signatures, voted, issued>>
      /\ sign' = [sign EXCEPT ![r] = IdleSign]
      /\ UNCHANGED <<status, candidates, verified, admin, save, elections>>

-----------------------------------------------------------------------------
(* start_election and end_election                                         *)

AllPostsHaveCandidates == \A p \in Posts : \E c \in candidates : c.post = p

StartsInFlight == {x \in AdminRequests : admin[x].pc \in {"starting", "resetting"}}

StartReceive(a) ==
  /\ admin[a].pc = "idle"
  /\ elections + Cardinality(StartsInFlight) < MaxElections
  /\ status # "active" /\ AllPostsHaveCandidates
  /\ admin' = [admin EXCEPT ![a].pc = "starting"]
  /\ UNCHANGED <<tables, sign, save, elections, issued>>

(* UPDATE ... SET is_voted = false WHERE is_verified: the rows verified by *)
(* now are changed when the transaction commits and locked until then.     *)
StartResetVoters(a) ==
  /\ admin[a].pc = "starting"
  /\ locked \cap verified = {}
  /\ admin' = [admin EXCEPT ![a].pc = "resetting", ![a].locked = verified]
  /\ UNCHANGED <<tables, sign, save, elections, issued>>

(* Mutant: the update that resets is_voted is missing.                     *)
StartKeepsVoted(a) ==
  /\ admin[a].pc = "resetting"
  /\ signatures' = [v \in {} |-> NoBlinded]
  /\ status' = "active"
  /\ elections' = elections + 1
  /\ issued' = [v \in Voters |-> 0]
  /\ admin' = [admin EXCEPT ![a] = IdleAdmin]
  /\ UNCHANGED <<voted, candidates, verified, sign, save>>

(* Mutant: the transaction is left open, with its locks.                   *)
StartKeepsLocks(a) ==
  /\ admin[a].pc = "resetting"
  /\ voted' = voted \ admin[a].locked
  /\ signatures' = [v \in {} |-> NoBlinded]
  /\ status' = "active"
  /\ elections' = elections + 1
  /\ issued' = [v \in Voters |-> 0]
  /\ admin' = [admin EXCEPT ![a].pc = "idle"]
  /\ UNCHANGED <<candidates, verified, sign, save>>

(* DELETE of all BlindSignature rows, election.start() and the commit.     *)
StartCommit(a) ==
  /\ admin[a].pc = "resetting"
  /\ voted' = voted \ admin[a].locked
  /\ signatures' = [v \in {} |-> NoBlinded]
  /\ status' = "active"
  /\ elections' = elections + 1
  /\ issued' = IF status = "active" THEN issued ELSE [v \in Voters |-> 0]
  /\ admin' = [admin EXCEPT ![a] = IdleAdmin]
  /\ UNCHANGED <<candidates, verified, sign, save>>

EndReceive(a) ==
  /\ admin[a].pc = "idle"
  /\ status = "active"
  /\ admin' = [admin EXCEPT ![a].pc = "ending"]
  /\ UNCHANGED <<tables, sign, save, elections, issued>>

(* election.end() writes the status whatever it has become since.          *)
EndCommit(a) ==
  /\ admin[a].pc = "ending"
  /\ status' = "ended"
  /\ admin' = [admin EXCEPT ![a] = IdleAdmin]
  /\ UNCHANGED <<candidates, verified, voted, signatures, sign, save, elections,
                 issued>>

-----------------------------------------------------------------------------
(* admin_candidates (POST) and delete_candidate                            *)

RegisterReceive(a, c) ==
  /\ admin[a].pc = "idle"
  /\ status # "active"
  /\ \A d \in candidates : d.candidate_id # c.candidate_id
  /\ c.post \in Posts
  /\ admin' = [admin EXCEPT ![a].pc = "registering", ![a].candidate = c]
  /\ UNCHANGED <<tables, sign, save, elections, issued>>

(* get_or_create on (name, post): an existing row answers 409, a clash on  *)
(* candidate_id with a row created meanwhile is an IntegrityError.         *)
RegisterCommit(a) ==
  LET c == admin[a].candidate
      unique == \A d \in candidates : /\ <<d.name, d.post>> # <<c.name, c.post>>
                                      /\ d.candidate_id # c.candidate_id
  IN  /\ admin[a].pc = "registering"
      /\ candidates' = IF unique THEN candidates \cup {c} ELSE candidates
      /\ admin' = [admin EXCEPT ![a] = IdleAdmin]
      /\ UNCHANGED <<status, verified, voted, signatures, sign, save, elections,
                     issued>>

DeleteReceive(a, c) ==
  /\ admin[a].pc = "idle"
  /\ status # "active"
  /\ c \in candidates
  /\ admin' = [admin EXCEPT ![a].pc = "deleting", ![a].candidate = c]
  /\ UNCHANGED <<tables, sign, save, elections, issued>>

DeleteCommit(a) ==
  /\ admin[a].pc = "deleting"
  /\ candidates' = candidates \ {admin[a].candidate}
  /\ admin' = [admin EXCEPT ![a] = IdleAdmin]
  /\ UNCHANGED <<status, verified, voted, signatures, sign, save, elections,
                 issued>>

-----------------------------------------------------------------------------
(* verify_email and dev_verify_voter read a whole Voter row and save() all *)
(* of it, is_voted included.  Only the first looks at is_verified.         *)

SaveReceive(s, v) ==
  /\ save[s].pc = "idle"
  /\ v \notin verified \/ DEBUG
  /\ save' = [save EXCEPT ![s] = [pc |-> "saving", voter |-> v,
                                  voted |-> v \in voted]]
  /\ UNCHANGED <<tables, sign, admin, elections, issued>>

SaveCommit(s) ==
  LET v == save[s].voter
  IN  /\ save[s].pc = "saving"
      /\ v \notin locked
      /\ verified' = verified \cup {v}
      /\ voted' = IF save[s].voted THEN voted \cup {v} ELSE voted \ {v}
      /\ save' = [save EXCEPT ![s] = IdleSave]
      /\ UNCHANGED <<status, candidates, signatures, sign, admin, elections, issued>>

-----------------------------------------------------------------------------
SignStep(r) == SignRecheck(r) \/ SignCommit(r)

AdminStep(a) == \/ StartResetVoters(a) \/ StartCommit(a) \/ EndCommit(a)
                \/ RegisterCommit(a) \/ DeleteCommit(a)

Next ==
  \/ \E r \in SignRequests :
       \/ \E v \in Voters, b \in Blinded : SignReceive(r, v, b)
       \/ SignStep(r)
  \/ \E a \in AdminRequests :
       \/ StartReceive(a) \/ EndReceive(a)
       \/ \E c \in CandidateRows : RegisterReceive(a, c) \/ DeleteReceive(a, c)
       \/ AdminStep(a)
  \/ \E s \in SaveRequests : (\E v \in Voters : SaveReceive(s, v)) \/ SaveCommit(s)

Spec == Init /\ [][Next]_vars

(* A request the server has accepted runs on: its thread is scheduled and  *)
(* the database grants a lock that stays available.  That somebody sends a *)
(* request is not assumed.                                                 *)
FairSpec ==
  /\ Spec
  /\ \A r \in SignRequests : WF_vars(SignStep(r))
  /\ \A a \in AdminRequests : WF_vars(AdminStep(a))
  /\ \A s \in SaveRequests : WF_vars(SaveCommit(s))

-----------------------------------------------------------------------------
(* The tables and the requests in flight are well typed, and a request is  *)
(* idle exactly when it holds nothing.                                     *)
TypeOK ==
  /\ status \in Status
  /\ candidates \subseteq {c \in CandidateRows : c.post \in Posts}
  /\ verified \subseteq Voters /\ voted \subseteq Voters
  /\ DOMAIN signatures \subseteq Voters
  /\ \A v \in DOMAIN signatures : signatures[v] \in Blinded
  /\ sign \in [SignRequests -> {IdleSign} \cup
       [pc : {"validated", "cleared"}, voter : Voters, blinded : Blinded]]
  /\ admin \in [AdminRequests ->
       [pc : {"idle", "starting", "resetting", "ending", "registering", "deleting"},
        candidate : CandidateRows \cup {NoCandidate}, locked : SUBSET Voters]]
  /\ save \in [SaveRequests -> {IdleSave} \cup
       [pc : {"saving"}, voter : Voters, voted : BOOLEAN]]
  /\ elections \in 0..MaxElections
  /\ issued \in [Voters -> Nat]

(* What some properties below are about: admins who do not start twice at  *)
(* once.                                                                   *)
OneStartAtATime == \A a, b \in StartsInFlight : a = b

(* While one election is active no voter is given two signatures, however  *)
(* the requests of the voter interleave with each other, with the admin's  *)
(* and with late saves of the voter's row (sign_blind_vote: only the       *)
(* unique OneToOne column serialises the requests).                        *)
OneSignaturePerElection == \A v \in Voters : issued[v] <= 1

(* A voter who is told "You have already voted" has been given a signature *)
(* in this election: is_voted is set and reset together with the           *)
(* BlindSignature row.                                                     *)
VotedHasSignature == voted \subseteq DOMAIN signatures

(* A started election has a candidate for every post, as start_election's  *)
(* "Register candidates for all posts before starting election" and        *)
(* delete_candidate's "Cannot remove candidates while election is active"  *)
(* say.  It does not hold: each of the two checks first and writes later,  *)
(* so a deletion that has passed its check may come after the start's own  *)
(* check (MC_LostCandidate.cfg).                                           *)
ActiveHasAllPosts == status = "active" => AllPostsHaveCandidates

(* Every accepted request is answered: nobody waits for a row for ever.    *)
RequestsAnswered ==
  /\ \A r \in SignRequests : sign[r].pc # "idle" ~> sign[r].pc = "idle"
  /\ \A a \in AdminRequests : admin[a].pc # "idle" ~> admin[a].pc = "idle"
  /\ \A s \in SaveRequests : save[s].pc # "idle" ~> save[s].pc = "idle"
=============================================================================
