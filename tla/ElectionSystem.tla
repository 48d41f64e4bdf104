--------------------------- MODULE ElectionSystem ---------------------------
(***************************************************************************)
(* One election end to end: the voters' browsers                           *)
(* (Frontend/.../Mergedvoting.tsx), the admin's dashboard (Admin.tsx), the *)
(* Django backend (DjangoElection) and the chain (VotingPallet).           *)
(*                                                                         *)
(* The two backends never talk to each other.  A browser carries a voter's *)
(* vote from one to the other, in React state that a reload throws away;   *)
(* the dashboard drives both through an election, the chain first and      *)
(* Django second, with nothing that undoes the first if the second fails.  *)
(* An extrinsic waits in the pool until a block includes it, whatever has  *)
(* become of the page that sent it.                                        *)
(*                                                                         *)
(* Outside the repository, and modelled from how it is used: the pool      *)
(* (signAndSend) and pallet_sudo, which answers Ok to the outer call even  *)
(* when the inner call fails, so that the dashboard goes on regardless.    *)
(* Candidate registration, counting and account funding are left to other  *)
(* modules: the voters here are verified and funded.                       *)
(***************************************************************************)
EXTENDS Integers, Sequences, FiniteSets

Lists == INSTANCE SequencesExt

CONSTANTS
  Voters,        \* each with one account of the same name
  Choices,       \* complete choices, one candidate for each post
  MaxElections,  \* bound on Django's starts
  MaxAdminTx,    \* bound on the dashboard's extrinsics in the pool
  AdminPosts,    \* bound on its POSTs that Django has at a time: a slot each
  MaxU32,        \* u32::MAX, here as in VotingPallet
  Orderly,       \* no request, answer or extrinsic gets lost, and no page is
                 \* reloaded or closed
  NoVoter, NoBlinded, NoCandidate, NoChoice, NoPost

ASSUME SystemConstants ==
  /\ IsFiniteSet(Voters) /\ IsFiniteSet(AdminPosts) /\ NoPost \notin AdminPosts
  /\ MaxElections \in Nat /\ MaxAdminTx \in Nat /\ MaxU32 \in Nat \ {0}
  /\ Orderly \in BOOLEAN
  /\ NoVoter \notin Voters /\ NoBlinded \notin Voters /\ NoChoice \notin Choices

VARIABLES
  currentPhase, encryptedVotes, voteCounter, hasVoted, tally, revealedCount,
  revealLog,                                   \* the chain
  status, candidates, verified, voted, signatures, sign, admin, save,
  elections, issued,                           \* Django
  page,     \* each voter's VoteProcessing page
  pending,  \* each voter's submit_vote in the pool
  dash,     \* the admin's dashboard
  fetches,  \* its election/status requests under way: "asked", then the
            \* status that was read, on its way back
  alice     \* the sudo calls in the pool, in the order of their nonces

chain == <<currentPhase, encryptedVotes, voteCounter, hasVoted, tally,
           revealedCount, revealLog>>
django == <<status, candidates, verified, voted, signatures, sign, admin, save,
            elections, issued>>
vars == <<chain, django, page, pending, dash, fetches, alice>>

(* The hash is over JSON.stringify(votes) and the unblinded RSA signature  *)
(* is a function of the hash, so two voters who agree have the same ones;  *)
(* the RSA-OAEP ciphertext is different every time.                        *)
Hash(c) == <<"hash", c>>
Signature(c) == <<"signature", c>>
Cipher(v, c) == <<"cipher", v, c>>
Ballot(v, c) == [encrypted_vote |-> Cipher(v, c), blind_signature |-> Signature(c),
                 vote_hash |-> Hash(c)]
SystemBytes == {Hash(c) : c \in Choices} \cup {Signature(c) : c \in Choices}
                 \cup {Cipher(v, c) : v \in Voters, c \in Choices}

Chain == INSTANCE VotingPallet
  WITH Accounts <- Voters, Bytes <- SystemBytes, Size <- [b \in SystemBytes |-> 1],
       Ballots <- {Ballot(v, c) : v \in Voters, c \in Choices},
       CandidateIds <- {}, MaxEncryptedVoteSize <- 1, MaxBlindSignatureSize <- 1,
       MaxVoteHashSize <- 1, MaxU32 <- MaxU32, MaxU64 <- MaxU32, MaxReveals <- 0

Django == INSTANCE DjangoElection
  WITH Blinded <- Voters, Posts <- {}, CandidateRows <- {},
       SignRequests <- Voters, AdminRequests <- AdminPosts,
       SaveRequests <- {}, DEBUG <- FALSE

ClosedPage == [pc |-> "closed", choice |-> NoChoice]

Init ==
  /\ Chain!Init
  /\ status = "not_started" /\ candidates = {} /\ voted = {} /\ elections = 0
  /\ verified = Voters
  /\ signatures = [v \in {} |-> NoBlinded]
  /\ sign = [v \in Voters |-> Django!IdleSign]
  /\ admin = [a \in AdminPosts |-> Django!IdleAdmin]
  /\ save = [s \in {} |-> Django!IdleSave]
  /\ issued = [v \in Voters |-> 0]
  /\ page = [v \in Voters |-> ClosedPage]
  /\ pending = [v \in Voters |-> NoChoice]
  /\ dash = [pc |-> "idle", seen |-> "not_started", post |-> NoPost]
  /\ fetches = << >>
  /\ alice = << >>

-----------------------------------------------------------------------------
(* The voter's browser                                                     *)

PageAt(v, pc) == page[v].pc = pc
PageTo(v, pc) == page' = [page EXCEPT ![v].pc = pc]

(* What of VoteProcessing can be clicked: "Verify Vote" and, once there is *)
(* a signature, "Submit to Blockchain" in its place.                       *)
VerifyButton(v) == PageAt(v, "ready")
SubmitButton(v) == PageAt(v, "signed")

(* MergedVotingFlow reads the status once, when it is opened, and shows    *)
(* nothing to vote with unless the election is active.                     *)
OpenFlow(v) ==
  /\ PageAt(v, "closed") /\ status = "active"
  /\ PageTo(v, "gate")
  /\ UNCHANGED <<chain, django, pending, dash, fetches, alice>>

(* MnemonicGate: a phrase that is none leaves the gate closed.             *)
ImportAccount(v) ==
  /\ PageAt(v, "gate")
  /\ PageTo(v, "choosing")
  /\ UNCHANGED <<chain, django, pending, dash, fetches, alice>>

(* VotingPortal: post by post, in any order, until there is a choice for   *)
(* every one.                                                              *)
ReviewVote(v, c) ==
  /\ PageAt(v, "choosing")
  /\ page' = [page EXCEPT ![v] = [pc |-> "summary", choice |-> c]]
  /\ UNCHANGED <<chain, django, pending, dash, fetches, alice>>

EditVotes(v) ==
  /\ PageAt(v, "summary")
  /\ page' = [page EXCEPT ![v] = [pc |-> "choosing", choice |-> NoChoice]]
  /\ UNCHANGED <<chain, django, pending, dash, fetches, alice>>

(* VoteProcessing takes over with the votes as they are, and hashes,       *)
(* encrypts and blinds them.                                               *)
Proceed(v) ==
  /\ PageAt(v, "summary")
  /\ PageTo(v, "ready")
  /\ UNCHANGED <<chain, django, pending, dash, fetches, alice>>

(* verifyVote sends the blinded vote; a request Django refuses leaves the  *)
(* page ready to try again.                                                *)
SendSign(v) ==
  /\ VerifyButton(v)
  /\ Django!SignReceive(v, v, v)
  /\ PageTo(v, "signing")
  /\ UNCHANGED <<chain, pending, dash, fetches, alice>>

(* The answer reaches the page that waits for it; an error, and an answer  *)
(* lost on the way, bring it back to where it was.                         *)
AnswerSign(v, to) ==
  IF PageAt(v, "signing") THEN PageTo(v, to) ELSE UNCHANGED page

SignRecheck(v) ==
  /\ Django!SignRecheck(v)
  /\ IF sign'[v].pc = "idle" THEN AnswerSign(v, "ready") ELSE UNCHANGED page
  /\ UNCHANGED <<chain, pending, dash, fetches, alice>>

SignCommit(v) ==
  /\ Django!SignCommit(v)
  /\ AnswerSign(v, IF issued' # issued THEN "signed" ELSE "ready")
  /\ UNCHANGED <<chain, pending, dash, fetches, alice>>

SignAnswerLost(v) ==
  /\ ~Orderly
  /\ Django!SignCommit(v)
  /\ AnswerSign(v, "ready")
  /\ UNCHANGED <<chain, pending, dash, fetches, alice>>

(* Mutant: the button works before the vote is verified.                   *)
SubmitUnsigned(v) ==
  /\ page[v].pc \in {"ready", "signed"} /\ status = "active"
  /\ pending' = [pending EXCEPT ![v] = page[v].choice]
  /\ PageTo(v, "submitting")
  /\ UNCHANGED <<chain, django, dash, fetches, alice>>

(* submitBlockchain asks Django for the status first and stops if it is    *)
(* not active; if that request itself fails it goes on without it.         *)
Submit(v) ==
  /\ SubmitButton(v)
  /\ status = "active" \/ ~Orderly
  /\ pending' = [pending EXCEPT ![v] = page[v].choice]
  /\ PageTo(v, "submitting")
  /\ UNCHANGED <<chain, django, dash, fetches, alice>>

(* Mutants: the callback ignores dispatchError, or waits for a status that *)
(* never comes.                                                            *)
IncludeUnchecked(v) ==
  LET ballot == Ballot(v, pending[v])
  IN  /\ pending[v] # NoChoice
      /\ IF Chain!SubmitVoteResult(v, ballot) = "Ok"
           THEN Chain!SubmitVote(v, ballot) ELSE UNCHANGED chain
      /\ pending' = [pending EXCEPT ![v] = NoChoice]
      /\ IF PageAt(v, "submitting") THEN PageTo(v, "done") ELSE UNCHANGED page
      /\ UNCHANGED <<django, dash, fetches, alice>>

IncludeUnheard(v) ==
  LET ballot == Ballot(v, pending[v])
  IN  /\ pending[v] # NoChoice
      /\ IF Chain!SubmitVoteResult(v, ballot) = "Ok"
           THEN Chain!SubmitVote(v, ballot) ELSE UNCHANGED chain
      /\ pending' = [pending EXCEPT ![v] = NoChoice]
      /\ UNCHANGED <<django, page, dash, fetches, alice>>

(* A block includes the extrinsic; the page, if still there, hears whether *)
(* it was dispatched.                                                      *)
IncludeVote(v) ==
  LET ballot == Ballot(v, pending[v])
      ok == Chain!SubmitVoteResult(v, ballot) = "Ok"
  IN  /\ pending[v] # NoChoice
      /\ IF ok THEN Chain!SubmitVote(v, ballot) ELSE UNCHANGED chain
      /\ pending' = [pending EXCEPT ![v] = NoChoice]
      /\ IF PageAt(v, "submitting") THEN PageTo(v, IF ok THEN "done" ELSE "signed")
                                    ELSE UNCHANGED page
      /\ UNCHANGED <<django, dash, fetches, alice>>

(* The pool drops the extrinsic (Invalid, Dropped, Usurped, or a node      *)
(* restart): the callback has no branch for that and the page hears        *)
(* nothing it reacts to.                                                   *)
DropVote(v) ==
  /\ ~Orderly /\ pending[v] # NoChoice
  /\ pending' = [pending EXCEPT ![v] = NoChoice]
  /\ UNCHANGED <<chain, django, page, dash, fetches, alice>>

(* Mutant: the choice survives the page.                                   *)
ReloadKeepsChoice(v) ==
  /\ ~Orderly /\ ~PageAt(v, "closed")
  /\ PageTo(v, "closed")
  /\ UNCHANGED <<chain, django, pending, dash, fetches, alice>>

ReloadPage(v) ==
  /\ ~Orderly /\ ~PageAt(v, "closed")
  /\ page' = [page EXCEPT ![v] = ClosedPage]
  /\ UNCHANGED <<chain, django, pending, dash, fetches, alice>>

(* Three seconds after its success message the page goes to the home page. *)
Redirect(v) ==
  /\ PageAt(v, "done")
  /\ page' = [page EXCEPT ![v] = ClosedPage]
  /\ UNCHANGED <<chain, django, pending, dash, fetches, alice>>

-----------------------------------------------------------------------------
(* The admin's dashboard: startElection and endElection                    *)

(* The buttons of the dashboard; what is confirmed in between, and the     *)
(* posts without a candidate, are in DjangoElection.                       *)
StartButton == dash.pc = "idle" /\ dash.seen # "active"
EndButton == dash.pc = "idle" /\ dash.seen = "active"

DashTo(pc) == dash' = [pc |-> pc, seen |-> dash.seen, post |-> NoPost]
Sudo(call) == alice' = Append(alice, [call |-> call, watched |-> TRUE])

(* Mutant: Django first, without waiting for the chain.                    *)
StartDjangoFirst ==
  /\ StartButton /\ Len(alice) < MaxAdminTx
  /\ elections < MaxElections \/ status = "active"
  /\ Sudo("start")
  /\ DashTo("startPost")
  /\ UNCHANGED <<chain, django, page, pending, fetches>>

ClickStart ==
  /\ StartButton /\ Len(alice) < MaxAdminTx
  /\ elections < MaxElections \/ status = "active"  \* bound: no start too many
  /\ Sudo("start")
  /\ DashTo("startChain")
  /\ UNCHANGED <<chain, django, page, pending, fetches>>

ClickEnd ==
  /\ EndButton /\ Len(alice) < MaxAdminTx
  /\ Sudo("end")
  /\ DashTo("endChain")
  /\ UNCHANGED <<chain, django, page, pending, fetches>>

(* The outcome of the inner call is in an event nobody reads: in a block   *)
(* means done.  Every change of CurrentPhase also comes to the dashboard's *)
(* subscription, which asks Django for the status on the side.             *)
RunSudo(call) ==
  /\ IF call = "start"
       THEN IF Chain!PhaseResult("NotStarted") = "Ok"
              THEN Chain!StartElection ELSE UNCHANGED chain
       ELSE IF Chain!PhaseResult("Voting") = "Ok"
              THEN Chain!EndElection ELSE UNCHANGED chain
  /\ fetches' = IF currentPhase' # currentPhase THEN Append(fetches, "asked")
                                                ELSE fetches

(* Mutant: the POST to Django is forgotten.                                *)
IncludeSudoOnly ==
  /\ alice # << >>
  /\ RunSudo(Head(alice).call)
  /\ IF Head(alice).watched
       THEN DashTo(IF Head(alice).call = "start" THEN "startPost" ELSE "idle")
       ELSE UNCHANGED dash
  /\ alice' = Tail(alice)
  /\ UNCHANGED <<django, page, pending>>

IncludeSudo ==
  /\ alice # << >>
  /\ RunSudo(Head(alice).call)
  /\ IF Head(alice).watched
       THEN DashTo(IF Head(alice).call = "start" THEN "startPost" ELSE "endPost")
       ELSE UNCHANGED dash
  /\ alice' = Tail(alice)
  /\ UNCHANGED <<django, page, pending>>

(* A node restart empties the pool; nothing tells the dashboard.           *)
DropSudo ==
  /\ ~Orderly /\ alice # << >>
  /\ alice' = << >>
  /\ UNCHANGED <<chain, django, page, pending, dash, fetches>>

(* The status requests of the subscription: read at some time, shown at    *)
(* some later time, in any order; a failed one is ignored.                 *)
ReadStatus(i) ==
  /\ fetches[i] = "asked"
  /\ fetches' = [fetches EXCEPT ![i] = status]
  /\ UNCHANGED <<chain, django, page, pending, dash, alice>>

ShowStatus(i) ==
  /\ fetches[i] # "asked" \/ ~Orderly
  /\ dash' = IF fetches[i] = "asked" THEN dash ELSE [dash EXCEPT !.seen = fetches[i]]
  /\ fetches' = Lists!RemoveAt(fetches, i)
  /\ UNCHANGED <<chain, django, page, pending, alice>>

(* The POST that follows; Django takes it, also while it has one that an   *)
(* earlier dashboard sent ...                                              *)
WaitFor(pc, a) == dash' = [pc |-> pc, seen |-> dash.seen, post |-> a]

PostStart(a) ==
  /\ dash.pc = "startPost"
  /\ Django!StartReceive(a)
  /\ WaitFor("startWait", a)
  /\ UNCHANGED <<chain, page, pending, fetches, alice>>

PostEnd(a) ==
  /\ dash.pc = "endPost"
  /\ Django!EndReceive(a)
  /\ WaitFor("endWait", a)
  /\ UNCHANGED <<chain, page, pending, fetches, alice>>

(* ... or refuses it, or it is lost; either way an error is shown.         *)
PostFails ==
  /\ \/ dash.pc = "startPost" /\ status = "active"
     \/ dash.pc = "endPost" /\ status # "active"
     \/ dash.pc \in {"startPost", "endPost"} /\ ~Orderly
  /\ DashTo("idle")
  /\ UNCHANGED <<chain, django, page, pending, fetches, alice>>

StartResetVoters(a) ==
  /\ Django!StartResetVoters(a)
  /\ UNCHANGED <<chain, page, pending, dash, fetches, alice>>

(* The answer reaches the dashboard that waits for it.  A success ends     *)
(* with fetchElectionStatus; a lost answer shows an error and leaves the   *)
(* dashboard with the status it had.                                       *)
AnswerDash(a) ==
  IF dash.post # a THEN UNCHANGED dash
  ELSE \/ dash' = [pc |-> "idle", seen |-> status', post |-> NoPost]
       \/ ~Orderly /\ DashTo("idle")

StartCommit(a) ==
  /\ Django!StartCommit(a)
  /\ AnswerDash(a)
  /\ UNCHANGED <<chain, page, pending, fetches, alice>>

EndCommit(a) ==
  /\ Django!EndCommit(a)
  /\ AnswerDash(a)
  /\ UNCHANGED <<chain, page, pending, fetches, alice>>

(* A new dashboard has no status until its first request is answered, and  *)
(* takes that for one that is not active.                                  *)
ReloadDash ==
  /\ ~Orderly
  /\ dash' = [pc |-> "idle", seen |-> "unknown", post |-> NoPost]
  /\ fetches' = <<"asked">>
  /\ alice' = [i \in DOMAIN alice |-> [alice[i] EXCEPT !.watched = FALSE]]
  /\ UNCHANGED <<chain, django, page, pending>>

-----------------------------------------------------------------------------
SignStep(v) == SignRecheck(v) \/ SignCommit(v) \/ SignAnswerLost(v)
DjangoAdminStep(a) == StartResetVoters(a) \/ StartCommit(a) \/ EndCommit(a)
DashStep == (\E a \in AdminPosts : PostStart(a) \/ PostEnd(a)) \/ PostFails

Next ==
  \/ \E v \in Voters :
       \/ OpenFlow(v) \/ ImportAccount(v)
       \/ \E c \in Choices : ReviewVote(v, c)
       \/ EditVotes(v) \/ Proceed(v)
       \/ SendSign(v) \/ SignStep(v)
       \/ Submit(v) \/ IncludeVote(v) \/ DropVote(v)
       \/ ReloadPage(v) \/ Redirect(v)
  \/ ClickStart \/ ClickEnd \/ IncludeSudo \/ DropSudo
  \/ \E i \in DOMAIN fetches : ReadStatus(i) \/ ShowStatus(i)
  \/ DashStep \/ \E a \in AdminPosts : DjangoAdminStep(a)
  \/ ReloadDash

Spec == Init /\ [][Next]_vars

(* Servers answer, blocks are produced, and an open dashboard carries on   *)
(* with a click once confirmed.  No click, and nothing a voter does, is    *)
(* assumed to happen.                                                      *)
FairSpec ==
  /\ Spec
  /\ \A v \in Voters : WF_vars(SignStep(v)) /\ WF_vars(IncludeVote(v))
  /\ WF_vars(IncludeSudo) /\ WF_vars(DashStep)
  /\ \A a \in AdminPosts : WF_vars(DjangoAdminStep(a))

-----------------------------------------------------------------------------
(* Pages, pool and dashboard are well typed, and so are both backends.     *)
TypeOK ==
  /\ Chain!TypeOK /\ Django!TypeOK
  /\ page \in [Voters ->
       [pc : {"closed", "gate", "choosing"}, choice : {NoChoice}] \cup
       [pc : {"summary", "ready", "signing", "signed", "submitting", "done"},
        choice : Choices]]
  /\ pending \in [Voters -> Choices \cup {NoChoice}]
  /\ dash \in [pc : {"idle", "startChain", "startPost", "startWait", "endChain",
                     "endPost", "endWait"}, seen : Django!Status \cup {"unknown"},
               post : AdminPosts \cup {NoPost}]
  /\ fetches \in Seq(Django!Status \cup {"asked"})
  /\ alice \in Seq([call : {"start", "end"}, watched : BOOLEAN])
  /\ Len(alice) <= MaxAdminTx

(* The box holds one ballot for each account that voted, and that ballot   *)
(* was made by that voter: whatever pages are reloaded, answers lost and   *)
(* votes resubmitted, nobody's vote is recorded twice.                     *)
VotesOf(v) == {i \in DOMAIN encryptedVotes :
                 \E c \in Choices : encryptedVotes[i] = Ballot(v, c)}

OneVotePerVoter ==
  \A v \in Voters : Cardinality(VotesOf(v)) = IF v \in hasVoted THEN 1 ELSE 0

(* A page that says "Your vote has been securely recorded on the           *)
(* blockchain" tells the truth, about the choice made on that page.        *)
DoneMeansRecorded ==
  \A v \in Voters : PageAt(v, "done") =>
    \E i \in DOMAIN encryptedVotes : encryptedVotes[i] = Ballot(v, page[v].choice)

(* Chain first, Django second: during one election Django never says that  *)
(* voting is open before the chain takes votes, nor that it has ended      *)
(* while the chain still takes them - whatever clicks, posts and answers   *)
(* are lost or repeated.                                                   *)
ChainLeads ==
  /\ status = "active" => currentPhase \in {"Voting", "Ended"}
  /\ status = "ended" => currentPhase = "Ended"

(* Chain, backend and pages together read as one Election.  It is open     *)
(* while both backends say so: the chain opens first and closes first.     *)
(* One Election is one start in Django (MaxElections = 1).                 *)
stageOf ==
  IF currentPhase \notin {"NotStarted", "Voting"} THEN "closed"
  ELSE IF status = "not_started" THEN "before"
  ELSE IF currentPhase = "Voting" /\ status = "active" THEN "open"
  ELSE "closed"

voteOf(ballot) ==
  [voter |-> ballot.encrypted_vote[2], choice |-> ballot.encrypted_vote[3]]

boxOf == [i \in 1..voteCounter |-> voteOf(encryptedVotes[i - 1])]

Whole == INSTANCE Election
           WITH stage <- stageOf, granted <- DOMAIN signatures, box <- boxOf

(* Two backends that never talk to each other, and pages that forget, are  *)
(* to the voters one election: whatever is lost, repeated or late, a vote  *)
(* enters the box only from a voter Django signed for - which the chain    *)
(* cannot check - and only while both say that voting is open, it stays    *)
(* there as it was cast, and no signature is ever taken back or doubled.   *)
ImplementsElection == Whole!Spec

(* A started end goes through: once the admin has confirmed, both the      *)
(* chain and Django come to be ended (with nothing lost or reloaded).      *)
EndGoesThrough ==
  dash.pc = "endChain" ~> currentPhase = "Ended" /\ status = "ended"

(* A vote sent while nothing is lost is recorded, unless the box was       *)
(* closed first, and its page is told.                                     *)
SentVoteSettles ==
  \A v \in Voters :
    PageAt(v, "submitting") ~> PageAt(v, "done") \/ currentPhase = "Ended"

(* Mergedvoting.tsx says of its finally clause: "Always reset in finally   *)
(* so button never stays stuck".                                           *)
SubmitButtonReset ==
  \A v \in Voters : PageAt(v, "submitting") ~> ~PageAt(v, "submitting")

(* verifyVote ends a failure with "Please try again.": a page left ready   *)
(* while the election runs belongs to a voter who can still be signed for, *)
(* or whose vote is in the box or the pool.                                *)
CanTryAgain ==
  \A v \in DOMAIN signatures :
    PageAt(v, "ready") /\ currentPhase = "Voting" =>
      v \in hasVoted \/ pending[v] # NoChoice

(* Admin.tsx asks the admin to confirm "This will start the election on    *)
(* blockchain ..." and reports "Election started successfully": when it    *)
(* does, the chain takes votes; nothing need go wrong for this to fail.    *)
StartedMeansVoting ==
  [][dash.pc = "startWait" /\ dash'.pc = "idle" /\ dash'.seen = "active"
       => currentPhase = "Voting"]_vars
=============================================================================
