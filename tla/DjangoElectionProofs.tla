------------------------ MODULE DjangoElectionProofs ------------------------
(***************************************************************************)
(* Theorems about Django's side of an election, for every set of voters,   *)
(* candidates and posts, and any number of requests at a time.             *)
(***************************************************************************)
EXTENDS DjangoElection, FiniteSetTheorems, TLAPS

-----------------------------------------------------------------------------
(* How the starts under way change.                                        *)
LEMMA StartsFinite ==
  IsFiniteSet(StartsInFlight) /\ Cardinality(StartsInFlight) \in Nat
BY DjangoConstants, FS_Subset, FS_CardinalityType DEF StartsInFlight

LEMMA StartsReceived ==
  ASSUME TypeOK, NEW a \in AdminRequests, StartReceive(a)
  PROVE  /\ StartsInFlight' = StartsInFlight \cup {a}
         /\ a \notin StartsInFlight
BY DEF TypeOK, StartReceive, StartsInFlight

LEMMA StartsCommitted ==
  ASSUME TypeOK, NEW a \in AdminRequests, StartCommit(a)
  PROVE  /\ StartsInFlight' = StartsInFlight \ {a}
         /\ a \in StartsInFlight
BY DEF TypeOK, StartCommit, StartsInFlight, IdleAdmin

LEMMA StartsStay ==
  ASSUME TypeOK, NEW a \in AdminRequests,
         \/ StartResetVoters(a) \/ EndReceive(a) \/ EndCommit(a)
         \/ \E c \in CandidateRows : RegisterReceive(a, c) \/ DeleteReceive(a, c)
         \/ RegisterCommit(a) \/ DeleteCommit(a)
  PROVE  StartsInFlight' = StartsInFlight
BY DEF TypeOK, StartResetVoters, EndReceive, EndCommit, RegisterReceive,
   DeleteReceive, RegisterCommit, DeleteCommit, StartsInFlight, IdleAdmin

AdminTypes ==
  admin \in [AdminRequests ->
    [pc : {"idle", "starting", "resetting", "ending", "registering", "deleting"},
     candidate : CandidateRows \cup {NoCandidate}, locked : SUBSET Voters]]

(* The bound on elections counts the starts under way, so that each of     *)
(* them still fits when it commits; and a registration's post was checked  *)
(* when it was received.                                                   *)
Bounded == elections + Cardinality(StartsInFlight) <= MaxElections

PostsChecked ==
  \A a \in AdminRequests : admin[a].pc = "registering" =>
    admin[a].candidate \in {c \in CandidateRows : c.post \in Posts}

TypeInv == TypeOK /\ Bounded /\ PostsChecked

LEMMA TypeStep == TypeInv /\ [Next]_vars => TypeInv'
<1> SUFFICES ASSUME TypeInv, [Next]_vars PROVE TypeInv'
  OBVIOUS
<1> USE DjangoConstants
<1>a. TypeOK /\ Bounded /\ PostsChecked
  BY DEF TypeInv
<1>1. ASSUME NEW r \in SignRequests, NEW v \in Voters, NEW b \in Blinded,
             SignReceive(r, v, b)
      PROVE  TypeInv'
  BY <1>a, <1>1 DEF TypeInv, TypeOK, Bounded, PostsChecked, SignReceive, tables,
     StartsInFlight
<1>2. ASSUME NEW r \in SignRequests, SignRecheck(r) PROVE TypeInv'
  BY <1>a, <1>2 DEF TypeInv, TypeOK, Bounded, PostsChecked, SignRecheck, tables,
     IdleSign, StartsInFlight
<1>3. ASSUME NEW r \in SignRequests, SignCommit(r) PROVE TypeInv'
  <2>1. sign[r].voter \in Voters /\ sign[r].blinded \in Blinded
    BY <1>a, <1>3 DEF TypeOK, SignCommit, IdleSign
  <2>2. sign' \in [SignRequests -> {IdleSign} \cup
          [pc : {"validated", "cleared"}, voter : Voters, blinded : Blinded]]
    BY <1>a, <1>3 DEF TypeOK, SignCommit
  <2>3. /\ DOMAIN signatures' \subseteq Voters /\ voted' \subseteq Voters
        /\ \A v \in DOMAIN signatures' : signatures'[v] \in Blinded
        /\ issued' \in [Voters -> Nat]
    BY <1>a, <1>3, <2>1 DEF TypeOK, SignCommit
  <2>4. QED
    BY <1>a, <1>3, <2>2, <2>3 DEF TypeInv, TypeOK, Bounded, PostsChecked, SignCommit,
       StartsInFlight
<1>4. ASSUME NEW a \in AdminRequests, StartReceive(a) PROVE TypeInv'
  <2>1. Cardinality(StartsInFlight') = Cardinality(StartsInFlight) + 1
    BY <1>a, <1>4, StartsFinite, StartsReceived, FS_AddElement
  <2>2. Bounded'
    BY <1>a, <1>4, <2>1, StartsFinite DEF StartReceive, Bounded, TypeOK
  <2>3. TypeOK'
    BY <1>a, <1>4 DEF TypeOK, StartReceive, tables
  <2>4. PostsChecked'
    BY <1>a, <1>4 DEF TypeOK, StartReceive, PostsChecked
  <2>5. QED
    BY <2>2, <2>3, <2>4 DEF TypeInv
<1>5. ASSUME NEW a \in AdminRequests, StartResetVoters(a) PROVE TypeInv'
  <2>1. /\ admin' = [admin EXCEPT ![a].pc = "resetting", ![a].locked = verified]
        /\ verified \subseteq Voters
        /\ AdminTypes
    BY <1>a, <1>5 DEF TypeOK, StartResetVoters, AdminTypes
  <2>2. AdminTypes'
    BY <2>1, ZenonT(40) DEF AdminTypes
  <2>3. TypeOK'
    BY <1>a, <1>5, <2>2 DEF TypeOK, StartResetVoters, tables, AdminTypes
  <2>4. PostsChecked'
    BY <1>a, <2>1 DEF AdminTypes, PostsChecked
  <2>5. QED
    BY <1>a, <1>5, <2>3, <2>4, StartsStay DEF TypeInv, Bounded, StartResetVoters
<1>6. ASSUME NEW a \in AdminRequests, StartCommit(a) PROVE TypeInv'
  <2>1. Cardinality(StartsInFlight') = Cardinality(StartsInFlight) - 1
    BY <1>a, <1>6, StartsFinite, StartsCommitted, FS_RemoveElement
  <2>2. elections' = elections + 1
    BY <1>6 DEF StartCommit
  <2>3. Cardinality(StartsInFlight') \in Nat
    BY StartsFinite, <1>a, <1>6, StartsCommitted, FS_Subset, FS_CardinalityType
  <2>4. Bounded' /\ elections' \in 0..MaxElections
    BY <1>a, <2>1, <2>2, <2>3, StartsFinite DEF TypeOK, Bounded
  <2>5. TypeOK'
    BY <1>a, <1>6, <2>4 DEF TypeOK, StartCommit, Status, IdleAdmin
  <2>6. PostsChecked'
    BY <1>a, <1>6 DEF TypeOK, StartCommit, PostsChecked, IdleAdmin
  <2>7. QED
    BY <2>4, <2>5, <2>6 DEF TypeInv
<1>7. ASSUME NEW a \in AdminRequests, EndReceive(a) \/ EndCommit(a) PROVE TypeInv'
  <2>1. TypeOK'
    BY <1>a, <1>7 DEF TypeOK, EndReceive, EndCommit, tables, Status, IdleAdmin
  <2>2. PostsChecked'
    <3>1. CASE EndReceive(a)
      BY <1>a, <3>1 DEF TypeOK, EndReceive, PostsChecked
    <3>2. CASE EndCommit(a)
      BY <1>a, <3>2 DEF TypeOK, EndCommit, IdleAdmin, PostsChecked
    <3>3. QED
      BY <1>7, <3>1, <3>2
  <2>3. QED
    BY <1>a, <1>7, <2>1, <2>2, StartsStay DEF TypeInv, Bounded, EndReceive, EndCommit
<1>8. ASSUME NEW a \in AdminRequests, NEW c \in CandidateRows,
             RegisterReceive(a, c) \/ DeleteReceive(a, c)
      PROVE  TypeInv'
  <2>1. AdminTypes'
    BY <1>a, <1>8 DEF TypeOK, RegisterReceive, DeleteReceive, AdminTypes
  <2>2. PostsChecked'
    BY <1>a, <1>8 DEF TypeOK, RegisterReceive, DeleteReceive, PostsChecked
  <2>3. TypeOK'
    BY <1>a, <1>8, <2>1 DEF TypeOK, RegisterReceive, DeleteReceive, tables, AdminTypes
  <2>4. QED
    BY <1>a, <1>8, <2>2, <2>3, StartsStay DEF TypeInv, Bounded, RegisterReceive,
       DeleteReceive
<1>9. ASSUME NEW a \in AdminRequests, RegisterCommit(a) \/ DeleteCommit(a)
      PROVE  TypeInv'
  <2>1. AdminTypes' /\ PostsChecked'
    BY <1>a, <1>9 DEF TypeOK, RegisterCommit, DeleteCommit, IdleAdmin, AdminTypes,
       PostsChecked
  <2>2. candidates' \subseteq {c \in CandidateRows : c.post \in Posts}
    BY <1>a, <1>9 DEF RegisterCommit, DeleteCommit, TypeOK, PostsChecked
  <2>3. TypeOK'
    BY <1>a, <1>9, <2>1, <2>2 DEF TypeOK, RegisterCommit, DeleteCommit, AdminTypes
  <2>4. QED
    BY <1>a, <1>9, <2>1, <2>3, StartsStay DEF TypeInv, Bounded, RegisterCommit,
       DeleteCommit
<1>10. ASSUME NEW s \in SaveRequests, NEW v \in Voters, SaveReceive(s, v)
       PROVE  TypeInv'
  BY <1>a, <1>10 DEF TypeInv, TypeOK, Bounded, PostsChecked, SaveReceive, tables,
     StartsInFlight
<1>11. ASSUME NEW s \in SaveRequests, SaveCommit(s) PROVE TypeInv'
  BY <1>a, <1>11 DEF TypeInv, TypeOK, Bounded, PostsChecked, SaveCommit, IdleSave,
     StartsInFlight
<1>12. CASE UNCHANGED vars
  BY <1>a, <1>12 DEF TypeInv, TypeOK, Bounded, PostsChecked, vars, StartsInFlight
<1>13. QED
  BY <1>1, <1>2, <1>3, <1>4, <1>5, <1>6, <1>7, <1>8, <1>9, <1>10, <1>11, <1>12
     DEF Next, SignStep, AdminStep

(* The tables and the requests in flight are well typed.                   *)
THEOREM DjangoTypeCorrect == Spec => []TypeOK
<1>1. Init => TypeInv
  <2>1. ASSUME Init PROVE StartsInFlight = {}
    BY <2>1 DEF Init, StartsInFlight, IdleAdmin
  <2>2. ASSUME Init PROVE TypeOK
    BY <2>2, DjangoConstants DEF Init, TypeOK, IdleAdmin, Status
  <2>3. ASSUME Init PROVE Bounded
    <3>1. Cardinality(StartsInFlight) = 0
      BY <2>1, <2>3, FS_EmptySet
    <3>2. QED
      BY <2>3, <3>1, DjangoConstants DEF Init, Bounded
  <2>4. ASSUME Init PROVE PostsChecked
    BY <2>4 DEF Init, PostsChecked, IdleAdmin
  <2>5. QED
    BY <2>2, <2>3, <2>4 DEF TypeInv
<1>2. TypeInv => TypeOK
  BY DEF TypeInv
<1>3. QED
  BY <1>1, <1>2, TypeStep, PTL DEF Spec

-----------------------------------------------------------------------------
(* One signature for each voter and election.  A voter who has been given  *)
(* one has the row that refuses the next; the rows are deleted by a start  *)
(* only, and while a start is under way the election is not active, so     *)
(* that its commit begins a new one.  That is lost if two starts overlap.  *)
OneSignatureInv ==
  /\ \A v \in Voters : issued[v] <= 1 /\ (issued[v] # 0 => v \in DOMAIN signatures)
  /\ StartsInFlight # {} => status # "active"

LEMMA OneSignatureStep ==
  TypeOK /\ OneStartAtATime /\ OneSignatureInv /\ [Next]_vars => OneSignatureInv'
<1> SUFFICES ASSUME TypeOK, OneStartAtATime, OneSignatureInv, [Next]_vars
             PROVE  OneSignatureInv'
  OBVIOUS
<1>1. CASE UNCHANGED <<issued, signatures, status, StartsInFlight>>
  BY <1>1 DEF OneSignatureInv
<1>2. ASSUME NEW r \in SignRequests, SignCommit(r) PROVE OneSignatureInv'
  <2>1. sign[r].voter \in Voters
    BY <1>2 DEF TypeOK, SignCommit, IdleSign
  <2>2. StartsInFlight' = StartsInFlight /\ status' = status
    BY <1>2 DEF SignCommit, StartsInFlight
  <2>3. ASSUME NEW v \in Voters
        PROVE  issued'[v] <= 1 /\ (issued'[v] # 0 => v \in DOMAIN signatures')
    BY <1>2, <2>1 DEF SignCommit, OneSignatureInv, TypeOK
  <2>4. QED
    BY <2>2, <2>3 DEF OneSignatureInv
<1>3. ASSUME NEW a \in AdminRequests, StartReceive(a) PROVE OneSignatureInv'
  BY <1>3 DEF StartReceive, tables, OneSignatureInv
<1>4. ASSUME NEW a \in AdminRequests, StartCommit(a) PROVE OneSignatureInv'
  <2>1. StartsInFlight' = {} /\ status # "active"
    BY <1>4, StartsCommitted DEF OneStartAtATime, OneSignatureInv
  <2>2. issued' = [v \in Voters |-> 0]
    BY <1>4, <2>1 DEF StartCommit
  <2>3. QED
    BY <2>1, <2>2 DEF OneSignatureInv
<1>5. ASSUME NEW a \in AdminRequests, EndCommit(a) PROVE OneSignatureInv'
  BY <1>5 DEF EndCommit, OneSignatureInv
<1>6. ASSUME NEW a \in AdminRequests,
             \/ StartResetVoters(a) \/ EndReceive(a)
             \/ \E c \in CandidateRows : RegisterReceive(a, c) \/ DeleteReceive(a, c)
             \/ RegisterCommit(a) \/ DeleteCommit(a)
      PROVE  OneSignatureInv'
  <2>1. StartsInFlight' = StartsInFlight
    BY <1>6, StartsStay
  <2>2. UNCHANGED <<issued, signatures, status>>
    BY <1>6 DEF StartResetVoters, EndReceive, RegisterReceive, DeleteReceive,
       RegisterCommit, DeleteCommit, tables
  <2>3. QED
    BY <1>1, <2>1, <2>2
<1>7. CASE \/ \E r \in SignRequests, v \in Voters, b \in Blinded : SignReceive(r, v, b)
           \/ \E r \in SignRequests : SignRecheck(r)
           \/ \E s \in SaveRequests, v \in Voters : SaveReceive(s, v)
           \/ \E s \in SaveRequests : SaveCommit(s)
           \/ UNCHANGED vars
  BY <1>1, <1>7 DEF SignReceive, SignRecheck, SaveReceive, SaveCommit, tables, vars,
     StartsInFlight
<1>8. QED
  BY <1>2, <1>3, <1>4, <1>5, <1>6, <1>7 DEF Next, SignStep, AdminStep

(* However requests interleave, no voter is given two signatures in one    *)
(* election, as long as no two starts of it overlap.                       *)
THEOREM DjangoOneSignature == Spec /\ []OneStartAtATime => []OneSignaturePerElection
<1>1. Init => OneSignatureInv
  BY DEF Init, OneSignatureInv
<1>2. TypeOK /\ OneSignatureInv => OneSignaturePerElection
  BY DEF OneSignatureInv, OneSignaturePerElection
<1>3. QED
  BY <1>1, <1>2, OneSignatureStep, DjangoTypeCorrect, PTL DEF Spec

-----------------------------------------------------------------------------
(* Who is marked as voted has been signed for.  What the UPDATE of a start *)
(* has locked is all there is to reset by the time of its commit: whoever  *)
(* may still be marked was verified when asking for a signature, hence     *)
(* before the UPDATE, and has to wait for the lock.  A late save never     *)
(* writes is_voted back, as verify_email refuses who is verified.          *)
VotedInv ==
  /\ voted \subseteq DOMAIN signatures /\ voted \subseteq verified
  /\ \A r \in SignRequests : sign[r].pc # "idle" => sign[r].voter \in verified
  /\ \A s \in SaveRequests : save[s].pc = "saving" => ~save[s].voted
  /\ StartsInFlight # {} => status # "active"
  /\ \A a \in AdminRequests : admin[a].pc = "resetting" =>
       /\ voted \subseteq admin[a].locked
       /\ \A r \in SignRequests : sign[r].pc # "idle" => sign[r].voter \in admin[a].locked

LEMMA VotedStep ==
  ASSUME DEBUG = FALSE
  PROVE  TypeOK /\ OneStartAtATime /\ VotedInv /\ [Next]_vars => VotedInv'
<1> SUFFICES ASSUME TypeOK, OneStartAtATime, VotedInv, [Next]_vars PROVE VotedInv'
  OBVIOUS
<1>0. \A a \in AdminRequests : admin[a].pc = "resetting" =>
        a \in StartsInFlight /\ status # "active"
  BY DEF VotedInv, StartsInFlight
<1>1. ASSUME NEW r \in SignRequests, NEW v \in Voters, NEW b \in Blinded,
             SignReceive(r, v, b)
      PROVE  VotedInv'
  <2>1. \A a \in AdminRequests : admin[a].pc # "resetting"
    BY <1>0, <1>1 DEF SignReceive
  <2>2. StartsInFlight' = StartsInFlight
    BY <1>1 DEF SignReceive, StartsInFlight
  <2>3. QED
    BY <1>1, <2>1, <2>2 DEF SignReceive, tables, VotedInv, TypeOK
<1>2. ASSUME NEW r \in SignRequests, SignRecheck(r) PROVE VotedInv'
  <2>1. sign[r].pc # "idle" /\ StartsInFlight' = StartsInFlight
    BY <1>2 DEF SignRecheck, StartsInFlight
  <2>2. \A q \in SignRequests : sign'[q].pc # "idle" =>
          sign[q].pc # "idle" /\ sign'[q].voter = sign[q].voter
    BY <1>2, <2>1 DEF SignRecheck, TypeOK, IdleSign
  <2>3. QED
    BY <1>2, <2>1, <2>2 DEF SignRecheck, tables, VotedInv
<1>3. ASSUME NEW r \in SignRequests, SignCommit(r) PROVE VotedInv'
  <2>1. sign[r].pc # "idle" /\ sign[r].voter \in verified /\ sign[r].voter \notin locked
    BY <1>3 DEF SignCommit, VotedInv
  <2>2. \A a \in AdminRequests : admin[a].pc # "resetting"
    BY <2>1 DEF VotedInv, locked
  <2>3. \A q \in SignRequests : sign'[q].pc # "idle" => sign'[q] = sign[q]
    BY <1>3 DEF SignCommit, TypeOK, IdleSign
  <2>4. voted' \subseteq DOMAIN signatures' /\ voted' \subseteq verified'
    BY <1>3, <2>1 DEF SignCommit, VotedInv
  <2>5. StartsInFlight' = StartsInFlight
    BY <1>3 DEF SignCommit, StartsInFlight
  <2>6. QED
    BY <1>3, <2>2, <2>3, <2>4, <2>5 DEF SignCommit, VotedInv
<1>4. ASSUME NEW a \in AdminRequests, StartReceive(a) PROVE VotedInv'
  <2>1. \A b \in AdminRequests : admin'[b].pc = "resetting" => admin'[b] = admin[b]
    BY <1>4 DEF StartReceive, TypeOK
  <2>2. QED
    BY <1>4, <2>1 DEF StartReceive, tables, VotedInv
<1>5. ASSUME NEW a \in AdminRequests, StartResetVoters(a) PROVE VotedInv'
  <2>1. StartsInFlight' = StartsInFlight
    BY <1>5, StartsStay
  <2>2. \A b \in AdminRequests : admin'[b].pc = "resetting" =>
          admin'[b] = admin[b] \/ admin'[b].locked = verified
    BY <1>5 DEF StartResetVoters, TypeOK
  <2>3. QED
    BY <1>5, <2>1, <2>2 DEF StartResetVoters, tables, VotedInv
<1>6. ASSUME NEW a \in AdminRequests, StartCommit(a) PROVE VotedInv'
  <2>1. StartsInFlight' = {}
    BY <1>6, StartsCommitted DEF OneStartAtATime
  <2>2. voted' = {}
    BY <1>6 DEF StartCommit, VotedInv
  <2>3. \A b \in AdminRequests : admin'[b].pc # "resetting"
    BY <2>1 DEF StartsInFlight
  <2>4. QED
    BY <1>6, <2>1, <2>2, <2>3 DEF StartCommit, VotedInv
<1>7. ASSUME NEW a \in AdminRequests,
             \/ EndReceive(a) \/ EndCommit(a)
             \/ \E c \in CandidateRows : RegisterReceive(a, c) \/ DeleteReceive(a, c)
             \/ RegisterCommit(a) \/ DeleteCommit(a)
      PROVE  VotedInv'
  <2>1. StartsInFlight' = StartsInFlight
    BY <1>7, StartsStay
  <2>2. \A b \in AdminRequests : admin'[b].pc = "resetting" => admin'[b] = admin[b]
    BY <1>7 DEF EndReceive, EndCommit, RegisterReceive, DeleteReceive, RegisterCommit,
       DeleteCommit, TypeOK, IdleAdmin
  <2>3. UNCHANGED <<voted, signatures, verified, sign, save>>
        /\ (status' = status \/ status' = "ended")
    BY <1>7 DEF EndReceive, EndCommit, RegisterReceive, DeleteReceive, RegisterCommit,
       DeleteCommit, tables
  <2>4. QED
    BY <2>1, <2>2, <2>3 DEF VotedInv
<1>8. ASSUME NEW s \in SaveRequests, NEW v \in Voters, SaveReceive(s, v)
      PROVE  VotedInv'
  <2>1. v \notin voted /\ StartsInFlight' = StartsInFlight
    BY <1>8 DEF SaveReceive, VotedInv, StartsInFlight
  <2>2. QED
    BY <1>8, <2>1 DEF SaveReceive, tables, VotedInv, TypeOK
<1>9. ASSUME NEW s \in SaveRequests, SaveCommit(s) PROVE VotedInv'
  <2>1. voted' \subseteq voted /\ verified \subseteq verified'
        /\ StartsInFlight' = StartsInFlight
    BY <1>9 DEF SaveCommit, VotedInv, StartsInFlight
  <2>2. \A t \in SaveRequests : save'[t].pc = "saving" => save'[t] = save[t]
    BY <1>9 DEF SaveCommit, TypeOK, IdleSave
  <2>3. QED
    BY <1>9, <2>1, <2>2 DEF SaveCommit, VotedInv
<1>10. CASE UNCHANGED vars
  BY <1>10 DEF vars, VotedInv, StartsInFlight
<1>11. QED
  BY <1>1, <1>2, <1>3, <1>4, <1>5, <1>6, <1>7, <1>8, <1>9, <1>10
     DEF Next, SignStep, AdminStep

(* Nobody is told "You have already voted" without a signature to show for *)
(* it, whatever the sign requests, the start and the verifications that    *)
(* are under way do to one another - with dev_verify_voter closed.         *)
THEOREM DjangoVotedHasSignature ==
  ASSUME DEBUG = FALSE
  PROVE  Spec /\ []OneStartAtATime => []VotedHasSignature
<1>1. Init => VotedInv
  BY DEF Init, VotedInv, IdleSign, IdleSave, IdleAdmin
<1>2. VotedInv => VotedHasSignature
  BY DEF VotedInv, VotedHasSignature
<1>3. TypeOK /\ OneStartAtATime /\ VotedInv /\ [Next]_vars => VotedInv'
  BY VotedStep
<1>4. QED
  BY <1>1, <1>2, <1>3, DjangoTypeCorrect, PTL DEF Spec

=============================================================================
