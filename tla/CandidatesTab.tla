---------------------------- MODULE CandidatesTab ----------------------------
(***************************************************************************)
(* A dashboard's list of candidates (Frontend/.../Admin.tsx) over Django's *)
(* requests: registering, removing and starting from what the list shows.  *)
(*                                                                         *)
(* The list is fetched when the dashboard is loaded, and again after each  *)
(* request to register or remove was answered.  Only registrations wait    *)
(* for one another; removals do not, nor do the fetches that follow them.  *)
(* Other dashboards send Django the same requests meanwhile.  Voters are   *)
(* left out: what they ask for touches neither candidates nor the status.  *)
(***************************************************************************)
EXTENDS Integers, FiniteSets

CONSTANTS
  Posts, CandidateRows, AdminRequests, MaxElections, NoVoter, NoBlinded,
  NoCandidate  \* as in DjangoElection

VARIABLES
  status, candidates, verified, voted, signatures, sign, admin, save, elections,
  issued,   \* DjangoElection
  list,     \* the dashboard's `candidates`
  handler,  \* what the dashboard does about each admin request that is its own
  admins    \* chosen once: "one" dashboard, of which nothing is lost; "orderly":
            \* and its admin does one thing at a time; "any" number, anyhow

Django == INSTANCE DjangoElection WITH
  Voters <- {}, Blinded <- {}, SignRequests <- {}, SaveRequests <- {}, DEBUG <- FALSE

ASSUME TabConstants == Django!DjangoConstants

django == <<status, candidates, verified, voted, signatures, sign, admin, save,
            elections, issued>>
vars == <<django, list, handler, admins>>

(* A handler awaits the answer to its request, has it and asks for the     *)
(* list, or awaits the list that was read.                                 *)
None == [pc |-> "none", kind |-> "none", data |-> {}]
Posted(kind) == [None EXCEPT !.pc = "posted", !.kind = kind]
Asking == [None EXCEPT !.pc = "asking"]
AskingFor(kind) == [Asking EXCEPT !.kind = kind]

Init == Django!Init /\ list = {} /\ handler = [a \in AdminRequests |-> None]
        /\ admins \in {"orderly", "one", "any"}

Quiet == \A a \in AdminRequests : handler[a] = None /\ admin[a] = Django!IdleAdmin
Free(a) == handler[a] = None /\ (admins = "orderly" => Quiet)
Handle(a, h) == handler' = [handler EXCEPT ![a] = h]

(* initializeSystem, and a reload: the page knows nothing at first, and     *)
(* the answers to what the last one had asked for find nobody.             *)
Load(a) ==
  /\ Free(a)
  /\ list' = {}
  /\ handler' = [[b \in AdminRequests |-> None] EXCEPT ![a] = Asking]
  /\ UNCHANGED <<django, admins>>

(* The form is disabled while a candidate is being submitted; both it and  *)
(* the Remove buttons also while the election is shown as active, which    *)
(* Django asks about again.                                                *)
candidateSubmitting == \E a \in AdminRequests : handler[a].kind = "register"

RegisterCandidate(a, c) ==
  /\ Free(a) /\ ~candidateSubmitting
  /\ Django!RegisterReceive(a, c)
  /\ Handle(a, Posted("register"))
  /\ UNCHANGED <<list, admins>>

(* Mutant: the list is asked for before the answer is there.               *)
RemoveUnawaited(a, c) ==
  /\ Free(a) /\ c \in list
  /\ Django!DeleteReceive(a, c)
  /\ Handle(a, Asking)
  /\ UNCHANGED <<list, admins>>

RemoveCandidate(a, c) ==
  /\ Free(a) /\ c \in list
  /\ Django!DeleteReceive(a, c)
  /\ Handle(a, Posted("remove"))
  /\ UNCHANGED <<list, admins>>

missingCandidatePosts == {p \in Posts : \A c \in list : c.post # p}

(* The chain has been started by now (module ElectionSystem).              *)
StartElection(a) ==
  /\ Free(a) /\ missingCandidatePosts = {}
  /\ Django!StartReceive(a)
  /\ UNCHANGED <<list, handler, admins>>

(* Whatever other dashboards ask for, and the end of the election.         *)
OtherRequest(a) ==
  /\ Free(a)
  /\ \/ Django!EndReceive(a)
     \/ /\ admins = "any"
        /\ \/ Django!StartReceive(a)
           \/ \E c \in CandidateRows : Django!RegisterReceive(a, c) \/ Django!DeleteReceive(a, c)
  /\ UNCHANGED <<list, handler, admins>>

(* The request comes to its end.  The handler goes on only if it was a     *)
(* success whose answer arrives; registering what is there already is not. *)
Finished(a) ==
  /\ Django!AdminStep(a)
  /\ IF handler[a].pc # "posted" THEN UNCHANGED handler
     ELSE \/ handler[a].kind = "register" /\ candidates' = candidates /\ Handle(a, None)
          \/ (handler[a].kind = "register" => candidates' # candidates)
             /\ Handle(a, AskingFor(handler[a].kind))
          \/ admins = "any" /\ Handle(a, None)
  /\ UNCHANGED <<list, admins>>

ReadList(a) ==
  /\ handler[a].pc = "asking"
  /\ Handle(a, [handler[a] EXCEPT !.pc = "listed", !.data = candidates])
  /\ UNCHANGED <<django, list, admins>>

ListFails(a) ==
  /\ admins = "any" /\ handler[a].pc \in {"asking", "listed"}
  /\ Handle(a, None)
  /\ UNCHANGED <<django, list, admins>>

ListArrives(a) ==
  /\ handler[a].pc = "listed"
  /\ list' = handler[a].data
  /\ Handle(a, None)
  /\ UNCHANGED <<django, admins>>

Next ==
  \E a \in AdminRequests :
    \/ Load(a) \/ StartElection(a) \/ OtherRequest(a)
    \/ Finished(a) \/ ReadList(a) \/ ListFails(a) \/ ListArrives(a)
    \/ \E c \in CandidateRows : RegisterCandidate(a, c) \/ RemoveCandidate(a, c)

Spec == Init /\ [][Next]_vars

-----------------------------------------------------------------------------
(* Django's tables stay well typed, and the dashboard shows candidates.    *)
TypeOK ==
  /\ Django!TypeOK
  /\ list \subseteq CandidateRows
  /\ handler \in [AdminRequests -> {None} \cup
       [pc : {"posted", "asking", "listed"}, kind : {"none", "register", "remove"},
        data : SUBSET CandidateRows]]

(* What the dashboard lists is what voters choose from, by ids that the    *)
(* chain counts by.  However requests interleave, each id on it is one     *)
(* candidate's, and each name is once for a post; and an admin who waits   *)
(* for the list after each change has the whole table before him, so that  *)
(* Django does not refuse a start that the list has let through to the     *)
(* chain.                                                                  *)
ListIsTable ==
  /\ \A c, d \in list :
       c.candidate_id = d.candidate_id \/ <<c.name, c.post>> = <<d.name, d.post>> => c = d
  /\ admins = "orderly" /\ Quiet => list = candidates

(* The same for one who does not wait for the list: does not hold, since   *)
(* the list that arrives last may have been read first.                    *)
QuietListIsTable == admins = "one" /\ Quiet => list = candidates
=============================================================================
