------------------------- MODULE CandidatesTabProofs -------------------------
(***************************************************************************)
(* Theorems about the dashboard's list of candidates, for every set of     *)
(* candidates and posts, and any number of requests at a time.             *)
(***************************************************************************)
EXTENDS CandidatesTab, TLAPS

DjangoReceive(a) ==
  \/ Django!StartReceive(a) \/ Django!EndReceive(a)
  \/ \E c \in CandidateRows : Django!RegisterReceive(a, c) \/ Django!DeleteReceive(a, c)

AdminTypes ==
  admin \in [AdminRequests ->
    [pc : {"idle", "starting", "resetting", "ending", "registering", "deleting"},
     candidate : CandidateRows \cup {NoCandidate}, locked : {{}}]]

Handlers ==
  {None} \cup [pc : {"posted", "asking", "listed"}, kind : {"none", "register", "remove"},
              data : SUBSET CandidateRows]

HandlerTypes == handler \in [AdminRequests -> Handlers]

(* Which requests are under way, and what becomes of the dashboard's own.  *)
Types ==
  /\ AdminTypes
  /\ \A a \in AdminRequests :
       admin[a].pc = "registering" => admin[a].candidate \in CandidateRows
  /\ HandlerTypes
  /\ candidates \subseteq CandidateRows /\ list \subseteq CandidateRows
  /\ verified = {}

(* What a request received, and a request that ends, do to the tables.     *)
LEMMA DjangoReceives ==
  ASSUME Types, NEW a \in AdminRequests, DjangoReceive(a)
  PROVE  /\ UNCHANGED <<candidates, verified>>
         /\ admin[a].pc = "idle" /\ admin'[a].pc # "idle"
         /\ \A b \in AdminRequests \ {a} : admin'[b] = admin[b]
         /\ admin'[a].pc = "registering" => admin'[a].candidate \in CandidateRows
         /\ AdminTypes'
<1>1. CASE Django!StartReceive(a)
  BY <1>1 DEF Types, AdminTypes, Django!StartReceive, Django!tables
<1>2. CASE Django!EndReceive(a)
  BY <1>2 DEF Types, AdminTypes, Django!EndReceive, Django!tables
<1>3. ASSUME NEW c \in CandidateRows,
             Django!RegisterReceive(a, c) \/ Django!DeleteReceive(a, c),
             NEW pc \in {"registering", "deleting"},
             admin' = [admin EXCEPT ![a].pc = pc, ![a].candidate = c]
      PROVE  /\ admin[a].pc = "idle" /\ admin'[a].pc # "idle"
             /\ \A b \in AdminRequests \ {a} : admin'[b] = admin[b]
             /\ admin'[a].candidate \in CandidateRows
             /\ AdminTypes'
  BY <1>3 DEF Types, AdminTypes, Django!RegisterReceive, Django!DeleteReceive
<1>4. ASSUME NEW c \in CandidateRows,
             Django!RegisterReceive(a, c) \/ Django!DeleteReceive(a, c)
      PROVE  /\ UNCHANGED <<candidates, verified>>
             /\ \E pc \in {"registering", "deleting"} :
                  admin' = [admin EXCEPT ![a].pc = pc, ![a].candidate = c]
  BY <1>4 DEF Django!RegisterReceive, Django!DeleteReceive, Django!tables
<1>5. QED
  BY <1>1, <1>2, <1>3, <1>4 DEF DjangoReceive

(* One id for each candidate and one candidate for each name and post, as  *)
(* the unique columns and get_or_create have it.                           *)
Distinct(S) ==
  \A c, d \in S :
    c.candidate_id = d.candidate_id \/ <<c.name, c.post>> = <<d.name, d.post>> => c = d

LEMMA DjangoEnds ==
  ASSUME Types, NEW a \in AdminRequests, Django!AdminStep(a)
  PROVE  /\ verified' = verified
         /\ candidates' \subseteq CandidateRows
         /\ Distinct(candidates) => Distinct(candidates')
         /\ candidates' # candidates => admin[a].pc \in {"registering", "deleting"}
         /\ admin[a].pc # "idle"
         /\ admin'[a] = Django!IdleAdmin \/ admin'[a].pc = "resetting"
         /\ admin'[a] # Django!IdleAdmin => admin[a].pc = "starting"
         /\ \A b \in AdminRequests \ {a} : admin'[b] = admin[b]
         /\ AdminTypes'
<1>1. CASE Django!StartResetVoters(a)
  <2>1. admin' = [admin EXCEPT ![a].pc = "resetting", ![a].locked = {}]
    BY <1>1 DEF Types, Django!StartResetVoters
  <2>2. AdminTypes' /\ admin'[a].pc = "resetting"
        /\ \A b \in AdminRequests \ {a} : admin'[b] = admin[b]
    BY <2>1 DEF Types, AdminTypes
  <2>3. UNCHANGED <<candidates, verified>> /\ admin[a].pc = "starting"
    BY <1>1 DEF Django!StartResetVoters, Django!tables
  <2>4. QED
    BY <2>2, <2>3 DEF Types
<1>2. CASE admin' = [admin EXCEPT ![a] = Django!IdleAdmin]
  <2>1. AdminTypes' /\ admin'[a] = Django!IdleAdmin
        /\ \A b \in AdminRequests \ {a} : admin'[b] = admin[b]
    BY <1>2 DEF Types, AdminTypes, Django!IdleAdmin
  <2>2. CASE Django!StartCommit(a)
    BY <2>1, <2>2 DEF Django!StartCommit, Types
  <2>3. CASE Django!EndCommit(a)
    BY <2>1, <2>3 DEF Django!EndCommit, Types
  <2>4. CASE Django!RegisterCommit(a)
    BY <2>1, <2>4 DEF Django!RegisterCommit, Types, Distinct
  <2>5. CASE Django!DeleteCommit(a)
    BY <2>1, <2>5 DEF Django!DeleteCommit, Types, Distinct
  <2>6. CASE Django!StartResetVoters(a)
    BY <1>1, <2>6
  <2>7. QED
    BY <2>2, <2>3, <2>4, <2>5, <2>6 DEF Django!AdminStep
<1>3. QED
  BY <1>1, <1>2 DEF Django!AdminStep, Django!StartCommit, Django!EndCommit,
     Django!RegisterCommit, Django!DeleteCommit

-----------------------------------------------------------------------------
(* What a handler may become.                                              *)
LEMMA HandlerRecords ==
  ASSUME NEW kind \in {"none", "register", "remove"}
  PROVE  /\ Posted(kind) = [pc |-> "posted", kind |-> kind, data |-> {}]
         /\ AskingFor(kind) = [pc |-> "asking", kind |-> kind, data |-> {}]
         /\ Asking = [pc |-> "asking", kind |-> "none", data |-> {}]
         /\ {None, Posted(kind), AskingFor(kind), Asking} \subseteq Handlers
<1>1. Posted(kind) = [pc |-> "posted", kind |-> kind, data |-> {}]
  <2>1. Posted(kind) = [[pc |-> "none", kind |-> "none", data |-> {}]
                          EXCEPT !.pc = "posted", !.kind = kind]
    BY DEF Posted, None
  <2>2. QED
    BY <2>1
<1>2. Asking = [pc |-> "asking", kind |-> "none", data |-> {}]
  BY DEF Asking, None
<1>3. AskingFor(kind) = [pc |-> "asking", kind |-> kind, data |-> {}]
  BY <1>2 DEF AskingFor
<1>4. QED
  BY <1>1, <1>2, <1>3 DEF Handlers

(* The requests of the model, by what they do to the tables.               *)
Asked(a) == /\ Free(a) /\ UNCHANGED <<list, admins>>
            /\ \/ \E c \in CandidateRows : Django!RegisterReceive(a, c) /\ Handle(a, Posted("register"))
               \/ \E c \in CandidateRows : Django!DeleteReceive(a, c) /\ Handle(a, Posted("remove"))
               \/ (Django!StartReceive(a) \/ Django!EndReceive(a)) /\ UNCHANGED handler
               \/ admins = "any" /\ DjangoReceive(a) /\ UNCHANGED handler

Fetch(a) == Load(a) \/ ReadList(a) \/ ListFails(a) \/ ListArrives(a)

LEMMA TabSteps ==
  ASSUME Next
  PROVE  \E a \in AdminRequests : Asked(a) \/ Finished(a) \/ Fetch(a)
BY DEF Next, Asked, Fetch, DjangoReceive, RegisterCandidate, RemoveCandidate, StartElection,
   OtherRequest

LEMMA TypesStep ==
  ASSUME Types, Next
  PROVE  Types'
<1>1. PICK a \in AdminRequests : Asked(a) \/ Finished(a) \/ Fetch(a)
  BY TabSteps
<1>2. CASE Asked(a)
  <2>1. DjangoReceive(a) /\ UNCHANGED list
    BY <1>2 DEF Asked, DjangoReceive
  <2>2. handler' = handler \/ \E kind \in {"register", "remove"} : Handle(a, Posted(kind))
    BY <1>2 DEF Asked
  <2>3. HandlerTypes'
    BY <2>2, HandlerRecords DEF Types, HandlerTypes, Handle
  <2>4. QED
    BY <2>1, <2>3, DjangoReceives DEF Types
<1>3. CASE Finished(a)
  <2>1. Django!AdminStep(a) /\ UNCHANGED list
    BY <1>3 DEF Finished
  <2>2. HandlerTypes'
    <3>1. CASE UNCHANGED handler
      BY <3>1 DEF Types, HandlerTypes
    <3>2. CASE handler[a].pc = "posted" /\ Handle(a, AskingFor(handler[a].kind))
      <4>1. handler[a].kind \in {"none", "register", "remove"}
        BY <3>2 DEF Types, HandlerTypes, Handlers, None
      <4>2. QED
        BY <3>2, <4>1, HandlerRecords DEF Types, HandlerTypes, Handle
    <3>3. CASE Handle(a, None)
      BY <3>3 DEF Types, HandlerTypes, Handlers, Handle
    <3>4. QED
      BY <1>3, <3>1, <3>2, <3>3 DEF Finished
  <2>3. QED
    BY <2>1, <2>2, DjangoEnds DEF Types, Django!IdleAdmin
<1>4. CASE Fetch(a)
  <2>1. UNCHANGED <<candidates, verified, admin>>
    BY <1>4 DEF Fetch, Load, ReadList, ListFails, ListArrives, django
  <2>2. /\ HandlerTypes'
        /\ list' \subseteq CandidateRows
    <3>1. CASE Load(a)
      BY <3>1, HandlerRecords DEF Load, Types, HandlerTypes
    <3>2. CASE ReadList(a)
      <4>1. handler[a] \in [pc : {"posted", "asking", "listed"}, kind : {"none", "register", "remove"},
                            data : SUBSET CandidateRows]
        BY <3>2 DEF ReadList, Types, HandlerTypes, Handlers, None
      <4>2. [handler[a] EXCEPT !.pc = "listed", !.data = candidates] \in Handlers
        BY <4>1 DEF Types, Handlers
      <4>3. QED
        BY <3>2, <4>2 DEF ReadList, Handle, Types, HandlerTypes
    <3>3. CASE ListFails(a) \/ ListArrives(a)
      BY <3>3 DEF ListFails, ListArrives, Handle, Types, HandlerTypes, Handlers, None
    <3>4. QED
      BY <1>4, <3>1, <3>2, <3>3 DEF Fetch
  <2>3. QED
    BY <2>1, <2>2 DEF Types, AdminTypes
<1>5. QED
  BY <1>1, <1>2, <1>3, <1>4

(* Each list on its way names each candidate once.                         *)
AllDistinct ==
  Distinct(candidates) /\ Distinct(list) /\ \A a \in AdminRequests : Distinct(handler[a].data)

LEMMA DistinctStep ==
  ASSUME Types, AllDistinct, Next
  PROVE  AllDistinct'
<1>1. PICK a \in AdminRequests : Asked(a) \/ Finished(a) \/ Fetch(a)
  BY TabSteps
<1>2. Distinct(None.data) /\ Distinct({})
  BY DEF Distinct, None
<1>3. CASE Asked(a)
  <2>1. DjangoReceive(a) /\ UNCHANGED list
    BY <1>3 DEF Asked, DjangoReceive
  <2>2. handler' = handler \/ \E kind \in {"register", "remove"} : Handle(a, Posted(kind))
    BY <1>3 DEF Asked
  <2>3. \A b \in AdminRequests : handler'[b].data \in {handler[b].data, {}}
    BY <2>2, HandlerRecords DEF Types, HandlerTypes, Handle
  <2>4. QED
    BY <1>2, <2>1, <2>3, DjangoReceives DEF AllDistinct
<1>4. CASE Finished(a)
  <2>1. Django!AdminStep(a) /\ UNCHANGED list
    BY <1>4 DEF Finished
  <2>2. \A b \in AdminRequests : handler'[b].data \in {handler[b].data, {}}
    <3>1. CASE UNCHANGED handler
      BY <3>1
    <3>2. CASE handler[a].pc = "posted" /\ Handle(a, AskingFor(handler[a].kind))
      <4>1. handler[a].kind \in {"none", "register", "remove"}
        BY <3>2 DEF Types, HandlerTypes, Handlers, None
      <4>2. QED
        BY <3>2, <4>1, HandlerRecords DEF Types, HandlerTypes, Handle
    <3>3. CASE Handle(a, None)
      BY <3>3 DEF Types, HandlerTypes, Handle, None
    <3>4. QED
      BY <1>4, <3>1, <3>2, <3>3 DEF Finished
  <2>3. QED
    BY <1>2, <2>1, <2>2, DjangoEnds DEF AllDistinct
<1>5. CASE Fetch(a)
  <2>1. UNCHANGED candidates
    BY <1>5 DEF Fetch, Load, ReadList, ListFails, ListArrives, django
  <2>2. \A b \in AdminRequests : handler'[b].data \in {handler[b].data, candidates, {}}
    <3>1. CASE Load(a)
      BY <3>1, HandlerRecords DEF Load, Types, HandlerTypes, None
    <3>2. CASE ReadList(a)
      BY <3>2 DEF ReadList, Handle, Types, HandlerTypes, Handlers, None
    <3>3. CASE ListFails(a) \/ ListArrives(a)
      BY <3>3 DEF ListFails, ListArrives, Handle, Types, HandlerTypes, None
    <3>4. QED
      BY <1>5, <3>1, <3>2, <3>3 DEF Fetch
  <2>3. list' \in {list, {}} \/ list' = handler[a].data
    BY <1>5 DEF Fetch, Load, ReadList, ListFails, ListArrives
  <2>4. QED
    BY <1>2, <2>1, <2>2, <2>3 DEF AllDistinct
<1>6. QED
  BY <1>1, <1>3, <1>4, <1>5

-----------------------------------------------------------------------------
(* An orderly admin has one thing on the way.  As long as no list is, the  *)
(* dashboard's is the table; and a table that changes is one that a list   *)
(* will be read of.                                                        *)
Busy(a) == handler[a] # None \/ admin[a] # Django!IdleAdmin

Orderly ==
  /\ \A a, b \in AdminRequests : Busy(a) /\ Busy(b) => a = b
  /\ (\A a \in AdminRequests : handler[a].pc \notin {"asking", "listed"}) => list = candidates
  /\ \A a \in AdminRequests :
       /\ handler[a].pc = "listed" => handler[a].data = candidates
       /\ handler[a].pc = "posted" <=> admin[a].pc \in {"registering", "deleting"}
       /\ handler[a].pc \in {"asking", "listed"} => admin[a] = Django!IdleAdmin

(* What is left to be shown of a step after which all requests but one are *)
(* idle.                                                                   *)
LEMMA OneBusy ==
  ASSUME NEW a \in AdminRequests,
         \A b \in AdminRequests \ {a} : handler'[b] = None /\ admin'[b] = Django!IdleAdmin,
         handler'[a].pc \notin {"asking", "listed"} => list' = candidates',
         handler'[a].pc = "listed" => handler'[a].data = candidates',
         handler'[a].pc = "posted" <=> admin'[a].pc \in {"registering", "deleting"},
         handler'[a].pc \in {"asking", "listed"} => admin'[a] = Django!IdleAdmin
  PROVE  Orderly'
<1>1. \A b \in AdminRequests \ {a} :
        ~Busy(b)' /\ handler'[b].pc = "none" /\ admin'[b].pc = "idle"
  BY DEF Busy, None, Django!IdleAdmin
<1>2. \A b, c \in AdminRequests : Busy(b)' /\ Busy(c)' => b = c
  BY <1>1
<1>3. \A b \in AdminRequests :
       /\ handler'[b].pc = "listed" => handler'[b].data = candidates'
       /\ handler'[b].pc = "posted" <=> admin'[b].pc \in {"registering", "deleting"}
       /\ handler'[b].pc \in {"asking", "listed"} => admin'[b] = Django!IdleAdmin
  BY <1>1
<1>4. QED
  BY <1>2, <1>3 DEF Orderly

LEMMA OrderlyStep ==
  ASSUME Types, Orderly, admins = "orderly", Next
  PROVE  Orderly'
<1>1. PICK a \in AdminRequests : Asked(a) \/ Finished(a) \/ Fetch(a)
  BY TabSteps
<1>2. CASE Asked(a)
  <2>1. DjangoReceive(a) /\ UNCHANGED list /\ Quiet
    BY <1>2 DEF Asked, DjangoReceive, Free
  <2>2. CASE \E kind \in {"register", "remove"} : Handle(a, Posted(kind))
             /\ \E c \in CandidateRows : Django!RegisterReceive(a, c) \/ Django!DeleteReceive(a, c)
    <3>1. handler'[a].pc = "posted" /\ \A b \in AdminRequests \ {a} : handler'[b] = None
      BY <2>1, <2>2, HandlerRecords DEF Quiet, Handle, Types, HandlerTypes
    <3>2. admin'[a].pc \in {"registering", "deleting"}
      BY <2>2 DEF Django!RegisterReceive, Django!DeleteReceive, Types, AdminTypes
    <3>3. /\ candidates' = candidates /\ list' = candidates'
          /\ \A b \in AdminRequests \ {a} : admin'[b] = Django!IdleAdmin
      BY <2>1, DjangoReceives DEF Orderly, Quiet, None
    <3>4. QED
      BY <3>1, <3>2, <3>3, OneBusy
  <2>3. CASE UNCHANGED handler /\ (Django!StartReceive(a) \/ Django!EndReceive(a))
    <3>1. admin'[a].pc \in {"starting", "ending"}
      BY <2>3 DEF Django!StartReceive, Django!EndReceive, Types, AdminTypes
    <3>2. \A b \in AdminRequests : handler'[b] = None /\ handler[b] = None /\ None.pc = "none"
      BY <2>1, <2>3 DEF Quiet, None
    <3>3. /\ candidates' = candidates /\ list' = candidates'
          /\ \A b \in AdminRequests \ {a} : admin'[b] = Django!IdleAdmin
      BY <2>1, <3>2, DjangoReceives DEF Orderly, Quiet
    <3>4. QED
      BY <3>1, <3>2, <3>3, OneBusy
  <2>4. QED
    BY <1>2, <2>2, <2>3 DEF Asked
<1>3. CASE Finished(a)
  <2>1. Django!AdminStep(a) /\ UNCHANGED list /\ admin[a] # Django!IdleAdmin
    BY <1>3, DjangoEnds DEF Finished, Django!IdleAdmin
  <2>2. \A b \in AdminRequests \ {a} : handler[b] = None /\ admin[b] = Django!IdleAdmin
    BY <2>1 DEF Orderly, Busy
  <2>3. CASE handler[a].pc # "posted"
    <3>1. UNCHANGED <<handler, candidates>> /\ handler[a].pc \notin {"asking", "listed"}
      BY <1>3, <2>1, <2>3, DjangoEnds DEF Finished, Orderly
    <3>2. admin'[a].pc \notin {"registering", "deleting"}
      BY <2>1, DjangoEnds DEF Django!IdleAdmin
    <3>3. \A b \in AdminRequests \ {a} : /\ handler'[b] = None /\ admin'[b] = Django!IdleAdmin
                                          /\ None.pc = "none"
      BY <2>1, <2>2, <3>1, DjangoEnds DEF None
    <3>4. list' = candidates'
      BY <2>1, <2>2, <3>1, <3>3 DEF Orderly
    <3>5. QED
      BY <2>3, <3>1, <3>2, <3>3, <3>4, OneBusy
  <2>4. CASE handler[a].pc = "posted"
    <3>1. admin'[a] = Django!IdleAdmin
      BY <2>1, <2>4, DjangoEnds DEF Orderly
    <3>2. \A b \in AdminRequests \ {a} : handler'[b] = handler[b]
      BY <1>3 DEF Finished, Handle, Types, HandlerTypes
    <3>3. CASE handler'[a] = None /\ candidates' = candidates
      <4>1. \A b \in AdminRequests \ {a} : handler'[b] = None /\ admin'[b] = Django!IdleAdmin
        BY <2>1, <2>2, <3>2, DjangoEnds
      <4>2. admin'[a].pc = "idle" /\ None.pc = "none"
        BY <3>1 DEF None, Django!IdleAdmin
      <4>3. list' = candidates'
        <5>1. \A b \in AdminRequests : handler[b].pc \notin {"asking", "listed"}
          BY <2>2, <2>4, <4>2
        <5>2. QED
          BY <2>1, <3>3, <5>1 DEF Orderly
      <4>4. QED
        BY <3>1, <3>3, <4>1, <4>2, <4>3, OneBusy
    <3>4. CASE handler'[a].pc = "asking"
      <4>1. \A b \in AdminRequests \ {a} : handler'[b] = None /\ admin'[b] = Django!IdleAdmin
        BY <2>1, <2>2, <3>2, DjangoEnds
      <4>2. admin'[a].pc = "idle"
        BY <3>1 DEF Django!IdleAdmin
      <4>3. QED
        BY <3>1, <3>4, <4>1, <4>2, OneBusy
    <3>5. (handler'[a] = None /\ candidates' = candidates) \/ handler'[a].pc = "asking"
      <4>1. handler[a].kind \in {"none", "register", "remove"}
        BY <2>4 DEF Types, HandlerTypes, Handlers, None
      <4>2. QED
        BY <1>3, <2>4, <4>1, HandlerRecords DEF Finished, Handle, Types, HandlerTypes
    <3>6. QED
      BY <3>3, <3>4, <3>5
  <2>5. QED
    BY <2>3, <2>4
<1>4. CASE Fetch(a)
  <2>1. UNCHANGED <<candidates, admin>>
    BY <1>4 DEF Fetch, Load, ReadList, ListFails, ListArrives, django
  <2>2. CASE Load(a)
    <3>1. handler'[a].pc = "asking" /\ \A b \in AdminRequests \ {a} : handler'[b] = None
      BY <2>2, HandlerRecords DEF Load
    <3>2. \A b \in AdminRequests : admin'[b] = Django!IdleAdmin
      BY <2>1, <2>2 DEF Load, Free, Quiet
    <3>3. admin'[a].pc = "idle"
      BY <3>2 DEF Django!IdleAdmin
    <3>4. QED
      BY <3>1, <3>2, <3>3, OneBusy
  <2>3. CASE ReadList(a)
    <3>1. handler'[a].pc = "listed" /\ handler'[a].data = candidates
          /\ \A b \in AdminRequests \ {a} : handler'[b] = handler[b]
      <4>1. handler[a] \in [pc : {"posted", "asking", "listed"},
                            kind : {"none", "register", "remove"}, data : SUBSET CandidateRows]
        BY <2>3 DEF ReadList, Types, HandlerTypes, Handlers, None
      <4>2. QED
        BY <2>3, <4>1 DEF ReadList, Handle, Types, HandlerTypes
    <3>2. handler[a].pc = "asking" /\ list' = list
      BY <2>3 DEF ReadList
    <3>3. QED
      BY <2>1, <3>1, <3>2 DEF Orderly, Busy, None
  <2>4. CASE ListArrives(a)
    <3>1. handler[a].pc = "listed" /\ list' = handler[a].data
      BY <2>4 DEF ListArrives
    <3>2. handler'[a] = None /\ \A b \in AdminRequests \ {a} : handler'[b] = handler[b]
      BY <2>4 DEF ListArrives, Handle, Types, HandlerTypes
    <3>3. QED
      BY <2>1, <3>1, <3>2 DEF Orderly, Busy, None, Django!IdleAdmin
  <2>5. QED
    BY <1>4, <2>2, <2>3, <2>4 DEF Fetch, ListFails
<1>5. QED
  BY <1>1, <1>2, <1>3, <1>4

(* However requests and answers interleave, no list ever shows an id or a  *)
(* name of a post twice; and the list of an admin who does one thing at a  *)
(* time is the table whenever nothing is on the way.                       *)
THEOREM ListsAreTables == Spec => []ListIsTable
<1> DEFINE Inv == Types /\ AllDistinct /\ (admins = "orderly" => Orderly)
<1>1. Init => Inv
  BY DEF Init, Django!Init, Types, AdminTypes, HandlerTypes, Handlers, AllDistinct, Distinct,
     None, Orderly, Busy, Django!IdleAdmin
<1>2. Inv /\ [Next]_vars => Inv'
  <2> SUFFICES ASSUME Inv, [Next]_vars PROVE Inv'
    OBVIOUS
  <2>1. CASE Next
    <3>1. admins' = admins
      <4>1. PICK a \in AdminRequests : Asked(a) \/ Finished(a) \/ Fetch(a)
        BY <2>1, TabSteps
      <4>2. QED
        BY <4>1 DEF Asked, Finished, Fetch, Load, ReadList, ListFails, ListArrives
    <3>2. QED
      BY <2>1, <3>1, TypesStep, DistinctStep, OrderlyStep
  <2>2. CASE UNCHANGED vars
    BY <2>2 DEF vars, django, Types, AdminTypes, HandlerTypes, AllDistinct, Distinct, Orderly, Busy
  <2>3. QED
    BY <2>1, <2>2
<1>3. Inv => ListIsTable
  BY DEF ListIsTable, AllDistinct, Distinct, Orderly, Quiet, None
<1>4. QED
  BY <1>1, <1>2, <1>3, PTL DEF Spec
=============================================================================
