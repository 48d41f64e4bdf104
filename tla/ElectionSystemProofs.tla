------------------------ MODULE ElectionSystemProofs ------------------------
(***************************************************************************)
(* Theorems about one election end to end, for every set of voters and     *)
(* choices, whatever is lost, repeated, reloaded or late.                  *)
(***************************************************************************)
EXTENDS ElectionSystem, FiniteSetTheorems, SequenceTheorems, TLAPS

(* Django on its own, with what DjangoElectionProofs proves of it.         *)
DP == INSTANCE DjangoElectionProofs
  WITH Blinded <- Voters, Posts <- {}, CandidateRows <- {},
       SignRequests <- Voters, AdminRequests <- AdminPosts,
       SaveRequests <- {}, DEBUG <- FALSE

LEMMA DjangoConstantsHold == DP!DjangoConstants
BY SystemConstants DEF DP!DjangoConstants, IsFiniteSet, DP!IsFiniteSet

-----------------------------------------------------------------------------
(* What a step of the system is to Django, and to the chain.               *)
LEMMA DjangoSteps == [Next]_vars => [DP!Next]_(DP!vars)
<1> SUFFICES ASSUME Next PROVE DP!Next \/ UNCHANGED django
  BY DEF vars, django, DP!vars
<1>1. ASSUME NEW v \in Voters, Django!SignReceive(v, v, v) PROVE DP!Next
  <2>1. DP!SignReceive(v, v, v)
    BY <1>1 DEF Django!SignReceive, DP!SignReceive, Django!tables, DP!tables
  <2>2. QED
    BY <2>1 DEF DP!Next
<1>2. ASSUME NEW v \in Voters, Django!SignRecheck(v) PROVE DP!Next
  <2>1. DP!SignRecheck(v)
    BY <1>2 DEF Django!SignRecheck, DP!SignRecheck, Django!tables, DP!tables,
       Django!IdleSign, DP!IdleSign
  <2>2. QED
    BY <2>1 DEF DP!Next, DP!SignStep
<1>3. ASSUME NEW v \in Voters, Django!SignCommit(v) PROVE DP!Next
  <2>1. DP!SignCommit(v)
    BY <1>3 DEF Django!SignCommit, DP!SignCommit, Django!IdleSign, DP!IdleSign,
       Django!locked, DP!locked
  <2>2. QED
    BY <2>1 DEF DP!Next, DP!SignStep
<1>4. ASSUME NEW a \in AdminPosts, Django!StartReceive(a) PROVE DP!Next
  <2>1. DP!StartReceive(a)
    BY <1>4 DEF Django!StartReceive, DP!StartReceive, Django!tables, DP!tables,
       Django!StartsInFlight, DP!StartsInFlight, Django!AllPostsHaveCandidates,
       DP!AllPostsHaveCandidates, Django!Cardinality, DP!Cardinality
  <2>2. QED
    BY <2>1 DEF DP!Next
<1>5. ASSUME NEW a \in AdminPosts, Django!EndReceive(a) PROVE DP!Next
  <2>1. DP!EndReceive(a)
    BY <1>5 DEF Django!EndReceive, DP!EndReceive, Django!tables, DP!tables
  <2>2. QED
    BY <2>1 DEF DP!Next
<1>6. ASSUME NEW a \in AdminPosts, Django!StartResetVoters(a) PROVE DP!Next
  <2>1. DP!StartResetVoters(a)
    BY <1>6 DEF Django!StartResetVoters, DP!StartResetVoters, Django!tables, DP!tables,
       Django!locked, DP!locked
  <2>2. QED
    BY <2>1 DEF DP!Next, DP!AdminStep
<1>7. ASSUME NEW a \in AdminPosts, Django!StartCommit(a) PROVE DP!Next
  <2>1. DP!StartCommit(a)
    BY <1>7 DEF Django!StartCommit, DP!StartCommit, Django!IdleAdmin, DP!IdleAdmin
  <2>2. QED
    BY <2>1 DEF DP!Next, DP!AdminStep
<1>8. ASSUME NEW a \in AdminPosts, Django!EndCommit(a) PROVE DP!Next
  <2>1. DP!EndCommit(a)
    BY <1>8 DEF Django!EndCommit, DP!EndCommit, Django!IdleAdmin, DP!IdleAdmin
  <2>2. QED
    BY <2>1 DEF DP!Next, DP!AdminStep
<1>9. QED
  BY <1>1, <1>2, <1>3, <1>4, <1>5, <1>6, <1>7, <1>8
     DEF Next, OpenFlow, ImportAccount, ReviewVote, EditVotes, Proceed, SendSign, SignStep,
     SignRecheck, SignCommit, SignAnswerLost, Submit, IncludeVote, DropVote, ReloadPage,
     Redirect, ClickStart, ClickEnd, IncludeSudo, DropSudo, ReadStatus, ShowStatus, DashStep,
     PostStart, PostEnd, PostFails, DjangoAdminStep, StartResetVoters, StartCommit, EndCommit,
     ReloadDash

LEMMA DjangoTypes == DP!TypeInv /\ [Next]_vars => DP!TypeInv'
BY DjangoConstantsHold, DjangoSteps, DP!TypeStep

LEMMA DjangoTypeOK == (DP!TypeInv => Django!TypeOK) /\ (DP!TypeInv' => Django!TypeOK')
BY DEF DP!TypeInv, DP!TypeOK, Django!TypeOK, DP!Status, Django!Status, DP!IdleSign,
   Django!IdleSign, DP!IdleSave, Django!IdleSave

(* Only accepted starts, ends and votes change the chain.                  *)
ChainCast(v, c) == Chain!SubmitVote(v, Ballot(v, c))

LEMMA ChainSteps ==
  ASSUME Next
  PROVE  \/ UNCHANGED chain
         \/ Chain!StartElection
         \/ Chain!EndElection
         \/ \E v \in Voters : pending[v] # NoChoice /\ ChainCast(v, pending[v])
BY DEF Next, OpenFlow, ImportAccount, ReviewVote, EditVotes, Proceed, SendSign, SignStep,
   SignRecheck, SignCommit, SignAnswerLost, Submit, IncludeVote, DropVote, ReloadPage,
   Redirect, ClickStart, ClickEnd, IncludeSudo, RunSudo, DropSudo, ReadStatus, ShowStatus,
   DashStep, PostStart, PostEnd, PostFails, DjangoAdminStep, StartResetVoters, StartCommit,
   EndCommit, ReloadDash, ChainCast

ChainTypes ==
  /\ currentPhase \in {"NotStarted", "Voting", "Ended"}
  /\ DOMAIN encryptedVotes \subseteq 0..MaxU32
  /\ \A i \in DOMAIN encryptedVotes : \E v \in Voters, c \in Choices : encryptedVotes[i] = Ballot(v, c)
  /\ voteCounter \in 0..MaxU32
  /\ hasVoted \subseteq Voters
  /\ tally = [c \in {} |-> 0] /\ revealedCount = 0 /\ revealLog = << >>

PageTypes ==
  /\ page \in [Voters ->
       [pc : {"closed", "gate", "choosing"}, choice : {NoChoice}] \cup
       [pc : {"summary", "ready", "signing", "signed", "submitting", "done"},
        choice : Choices]]
  /\ pending \in [Voters -> Choices \cup {NoChoice}]

Sudos == [call : {"start", "end"}, watched : BOOLEAN]

DashTypes ==
  /\ dash \in [pc : {"idle", "startChain", "startPost", "startWait", "endChain",
                     "endPost", "endWait"}, seen : Django!Status \cup {"unknown"},
               post : AdminPosts \cup {NoPost}]
  /\ fetches \in Seq(Django!Status \cup {"asked"})
  /\ alice \in Seq(Sudos)
  /\ Len(alice) <= MaxAdminTx

LEMMA ChainTypesStep == ChainTypes /\ PageTypes /\ [Next]_vars => ChainTypes'
<1> SUFFICES ASSUME ChainTypes, PageTypes, [Next]_vars PROVE ChainTypes'
  OBVIOUS
<1>1. CASE UNCHANGED chain
  BY <1>1 DEF chain, ChainTypes
<1>2. CASE Chain!StartElection
  BY <1>2 DEF Chain!StartElection, ChainTypes
<1>3. CASE Chain!EndElection
  BY <1>3 DEF Chain!EndElection, ChainTypes
<1>4. ASSUME NEW v \in Voters, NEW c \in Choices, ChainCast(v, c) PROVE ChainTypes'
  <2>1. /\ DOMAIN encryptedVotes' = DOMAIN encryptedVotes \cup {voteCounter}
        /\ \A i \in DOMAIN encryptedVotes' :
             encryptedVotes'[i] = IF i = voteCounter THEN Ballot(v, c) ELSE encryptedVotes[i]
        /\ hasVoted' = hasVoted \cup {v}
        /\ UNCHANGED <<currentPhase, tally, revealedCount, revealLog>>
    BY <1>4 DEF ChainCast, Chain!SubmitVote
  <2>2. voteCounter' \in 0..MaxU32
    BY <1>4, SystemConstants DEF ChainCast, Chain!SubmitVote, Chain!SaturatingInc,
       Chain!Lesser, ChainTypes
  <2>3. \A i \in DOMAIN encryptedVotes' :
          \E w \in Voters, d \in Choices : encryptedVotes'[i] = Ballot(w, d)
    BY <2>1 DEF ChainTypes
  <2>4. QED
    BY <2>1, <2>2, <2>3 DEF ChainTypes
<1>5. CASE UNCHANGED vars
  BY <1>1, <1>5 DEF vars
<1>6. QED
  BY <1>1, <1>2, <1>3, <1>4, <1>5, ChainSteps DEF PageTypes

LEMMA ChainTypeOK == ChainTypes => Chain!TypeOK
<1> SUFFICES ASSUME ChainTypes PROVE Chain!TypeOK
  OBVIOUS
<1>1. ASSUME NEW v \in Voters, NEW c \in Choices PROVE Ballot(v, c) \in Chain!EncryptedVote
  <2>1. {Hash(c), Signature(c), Cipher(v, c)} \subseteq SystemBytes
    BY DEF SystemBytes
  <2>2. \A b \in SystemBytes : b \in Chain!BoundedVec(1)
    BY DEF Chain!BoundedVec
  <2>3. QED
    BY <2>1, <2>2 DEF Ballot, Chain!EncryptedVote
<1>2. revealLog \in Seq([vote_id : 0..MaxU32, candidate_id : {}, vote_hash : SystemBytes])
  BY DEF ChainTypes
<1>3. tally \in [{} -> 0..MaxU32]
  BY DEF ChainTypes
<1>4. revealedCount \in 0..MaxU32
  BY SystemConstants DEF ChainTypes
<1>5. QED
  BY <1>1, <1>2, <1>3, <1>4 DEF ChainTypes, Chain!TypeOK, Chain!ElectionPhase

-----------------------------------------------------------------------------
(* The pages and the dashboard.                                            *)
PageChange == \/ \E v \in Voters :
                  \/ OpenFlow(v) \/ ImportAccount(v)
                  \/ \E c \in Choices : ReviewVote(v, c)
                  \/ EditVotes(v) \/ Proceed(v)
                  \/ SendSign(v) \/ SignStep(v)
                  \/ Submit(v) \/ IncludeVote(v) \/ DropVote(v)
                  \/ ReloadPage(v) \/ Redirect(v)

DashChange ==
  \/ ClickStart \/ ClickEnd \/ IncludeSudo \/ DropSudo
  \/ \E i \in DOMAIN fetches : ReadStatus(i) \/ ShowStatus(i)
  \/ DashStep \/ (\E a \in AdminPosts : DjangoAdminStep(a)) \/ ReloadDash

LEMMA Steps ==
  ASSUME Next
  PROVE  \/ PageChange /\ UNCHANGED <<dash, fetches, alice, admin, status, elections>>
         \/ DashChange /\ UNCHANGED <<page, pending>>
<1>1. CASE PageChange
  <2>1. UNCHANGED <<dash, fetches, alice>>
    BY <1>1 DEF PageChange, OpenFlow, ImportAccount, ReviewVote, EditVotes, Proceed, SendSign,
       SignStep, SignRecheck, SignCommit, SignAnswerLost, Submit, IncludeVote, DropVote,
       ReloadPage, Redirect
  <2>2. \/ UNCHANGED django
        \/ \E v \in Voters : \/ Django!SignReceive(v, v, v)
                            \/ Django!SignRecheck(v) \/ Django!SignCommit(v)
    BY <1>1 DEF PageChange, OpenFlow, ImportAccount, ReviewVote, EditVotes, Proceed, SendSign,
       SignStep, SignRecheck, SignCommit, SignAnswerLost, Submit, IncludeVote, DropVote,
       ReloadPage, Redirect
  <2>3. UNCHANGED <<admin, status, elections>>
    BY <2>2 DEF django, Django!SignReceive, Django!SignRecheck, Django!SignCommit, Django!tables
  <2>4. QED
    BY <1>1, <2>1, <2>3
<1>2. CASE DashChange
  BY <1>2 DEF DashChange, ClickStart, ClickEnd, IncludeSudo, DropSudo, ReadStatus, ShowStatus,
     DashStep, PostStart, PostEnd, PostFails, DjangoAdminStep, StartResetVoters, StartCommit,
     EndCommit, ReloadDash
<1>3. QED
  BY <1>1, <1>2 DEF Next, PageChange, DashChange

LEMMA PageTypesStep == PageTypes /\ [Next]_vars => PageTypes'
<1> SUFFICES ASSUME PageTypes, [Next]_vars PROVE PageTypes'
  OBVIOUS
<1>1. ASSUME NEW v \in Voters,
             \/ OpenFlow(v) \/ ImportAccount(v) \/ \E c \in Choices : ReviewVote(v, c)
             \/ EditVotes(v) \/ Proceed(v) \/ SendSign(v)
      PROVE  PageTypes'
  BY <1>1 DEF PageTypes, OpenFlow, ImportAccount, ReviewVote, EditVotes, Proceed, SendSign,
     VerifyButton, PageAt, PageTo
<1>2. ASSUME NEW v \in Voters, SignStep(v) PROVE PageTypes'
  <2>1. UNCHANGED <<page, pending>>
        \/ /\ UNCHANGED pending /\ page[v].pc = "signing"
           /\ PageTo(v, "ready") \/ PageTo(v, "signed")
    <3>1. CASE SignRecheck(v)
      BY <3>1 DEF SignRecheck, AnswerSign, PageAt
    <3>2. CASE SignCommit(v)
      BY <3>2 DEF SignCommit, AnswerSign, PageAt
    <3>3. CASE SignAnswerLost(v)
      BY <3>3 DEF SignAnswerLost, AnswerSign, PageAt
    <3>4. QED
      BY <1>2, <3>1, <3>2, <3>3 DEF SignStep
  <2>2. QED
    BY <2>1 DEF PageTypes, PageTo
<1>3. ASSUME NEW v \in Voters, Submit(v) \/ IncludeVote(v) PROVE PageTypes'
  BY <1>3 DEF PageTypes, Submit, IncludeVote, SubmitButton, PageAt, PageTo
<1>4. ASSUME NEW v \in Voters, DropVote(v) \/ ReloadPage(v) \/ Redirect(v) PROVE PageTypes'
  BY <1>4 DEF PageTypes, DropVote, ReloadPage, Redirect, ClosedPage
<1>5. CASE UNCHANGED <<page, pending>>
  BY <1>5 DEF PageTypes
<1>6. QED
  BY <1>1, <1>2, <1>3, <1>4, <1>5, Steps DEF PageChange, vars

(* Taking one request's answer off the list leaves the others.             *)
LEMMA RemoveAtElements ==
  ASSUME NEW S, NEW s \in Seq(S), NEW i \in DOMAIN s
  PROVE  /\ Lists!RemoveAt(s, i) \in Seq(S)
         /\ \A j \in DOMAIN Lists!RemoveAt(s, i) :
              \E k \in DOMAIN s : Lists!RemoveAt(s, i)[j] = s[k]
<1>1. i \in 1..Len(s) /\ Len(s) \in Nat /\ DOMAIN s = 1..Len(s)
  OBVIOUS
<1> DEFINE t == SubSeq(s, 1, i - 1)
           u == SubSeq(s, i + 1, Len(s))
<1>2. t \in Seq(S) /\ Len(t) = i - 1 /\ \A j \in 1..(i - 1) : t[j] = s[j]
  BY <1>1
<1>3. u \in Seq(S) /\ Len(u) = Len(s) - i /\ \A j \in 1..(Len(s) - i) : u[j] = s[i + j]
  BY <1>1
<1> DEFINE r == Lists!RemoveAt(s, i)
<1>4. r = t \o u
  BY DEF Lists!RemoveAt
<1> HIDE DEF t, u, r
<1>5. /\ r \in Seq(S) /\ Len(r) = Len(t) + Len(u)
      /\ \A j \in 1..Len(t) + Len(u) : r[j] = IF j <= Len(t) THEN t[j] ELSE u[j - Len(t)]
  BY <1>2, <1>3, <1>4, ConcatProperties
<1>6. DOMAIN r = 1..(Len(s) - 1)
  BY <1>1, <1>2, <1>3, <1>5
<1>7. ASSUME NEW j \in 1..(Len(s) - 1)
      PROVE  r[j] = s[j] \/ r[j] = s[j + 1]
  <2>1. r[j] = IF j <= i - 1 THEN t[j] ELSE u[j - (i - 1)]
    BY <1>1, <1>2, <1>3, <1>5
  <2>2. CASE j <= i - 1
    BY <1>1, <1>2, <2>1, <2>2
  <2>3. CASE ~(j <= i - 1)
    <3>1. j - (i - 1) \in 1..(Len(s) - i) /\ i + (j - (i - 1)) = j + 1
      BY <1>1, <2>3
    <3>2. u[j - (i - 1)] = s[i + (j - (i - 1))]
      BY <1>3, <3>1
    <3>3. QED
      BY <2>1, <2>3, <3>1, <3>2
  <2>4. QED
    BY <2>2, <2>3
<1>8. \A j \in DOMAIN r : \E k \in DOMAIN s : r[j] = s[k]
  <2>1. \A j \in 1..(Len(s) - 1) : j \in DOMAIN s /\ j + 1 \in DOMAIN s
    BY <1>1
  <2>2. QED
    BY <1>6, <1>7, <2>1
<1>9. QED
  BY <1>5, <1>8 DEF r

LEMMA DashTypesStep == DashTypes /\ Django!TypeOK /\ Django!TypeOK' /\ [Next]_vars => DashTypes'
<1> SUFFICES ASSUME DashTypes, Django!TypeOK, Django!TypeOK', [Next]_vars PROVE DashTypes'
  OBVIOUS
<1>1. status \in Django!Status /\ status' \in Django!Status
  BY DEF Django!TypeOK
<1>2. CASE ClickStart \/ ClickEnd
  <2>1. \E call \in {"start", "end"} : Sudo(call) /\ Len(alice) < MaxAdminTx
    BY <1>2 DEF ClickStart, ClickEnd
  <2>2. alice' \in Seq(Sudos) /\ Len(alice') <= MaxAdminTx
    BY <2>1, SystemConstants DEF Sudo, Sudos, DashTypes
  <2>3. QED
    BY <1>2, <2>2 DEF ClickStart, ClickEnd, DashTo, DashTypes
<1>3. CASE IncludeSudo
  <2>1. fetches' \in Seq(Django!Status \cup {"asked"})
    BY <1>3 DEF IncludeSudo, RunSudo, DashTypes
  <2>2. alice' \in Seq(Sudos) /\ Len(alice') <= MaxAdminTx
    BY <1>3, SystemConstants DEF IncludeSudo, DashTypes
  <2>3. QED
    BY <1>3, <2>1, <2>2 DEF IncludeSudo, DashTo, DashTypes
<1>4. CASE DropSudo
  BY <1>4, SystemConstants DEF DropSudo, DashTypes
<1>5. ASSUME NEW i \in DOMAIN fetches, ReadStatus(i) PROVE DashTypes'
  BY <1>1, <1>5 DEF ReadStatus, DashTypes
<1>6. ASSUME NEW i \in DOMAIN fetches, ShowStatus(i) PROVE DashTypes'
  <2>1. fetches' \in Seq(Django!Status \cup {"asked"})
    BY <1>6, RemoveAtElements DEF ShowStatus, DashTypes
  <2>2. fetches[i] \in Django!Status \cup {"asked"}
    BY DEF DashTypes
  <2>3. QED
    BY <1>6, <2>1, <2>2 DEF ShowStatus, DashTypes
<1>7. ASSUME NEW a \in AdminPosts, PostStart(a) \/ PostEnd(a) PROVE DashTypes'
  BY <1>7 DEF PostStart, PostEnd, WaitFor, DashTypes
<1>7a. CASE PostFails
  BY <1>7a DEF PostFails, DashTo, DashTypes
<1>7b. ASSUME NEW a \in AdminPosts, DjangoAdminStep(a) PROVE DashTypes'
  <2>1. UNCHANGED <<fetches, alice>> /\ (UNCHANGED dash \/ AnswerDash(a))
    BY <1>7b DEF DjangoAdminStep, StartResetVoters, StartCommit, EndCommit
  <2>2. QED
    BY <1>1, <2>1 DEF AnswerDash, DashTo, DashTypes
<1>8. CASE ReloadDash
  <2>1. alice' \in Seq(Sudos) /\ Len(alice') = Len(alice)
    <3>1. \A i \in 1..Len(alice) :
            [alice[i] EXCEPT !.watched = FALSE] \in Sudos
      <4>1. ASSUME NEW i \in 1..Len(alice)
            PROVE  alice[i] \in Sudos
        BY ElementOfSeq DEF DashTypes
      <4>2. ASSUME NEW sudo \in Sudos
            PROVE  [sudo EXCEPT !.watched = FALSE] \in Sudos
        BY DEF Sudos
      <4>3. QED
        BY <4>1, <4>2
    <3>2. alice' = [i \in 1..Len(alice) |-> [alice[i] EXCEPT !.watched = FALSE]]
          /\ Len(alice) \in Nat
      BY <1>8 DEF ReloadDash, DashTypes
    <3>3. QED
      BY <3>1, <3>2
  <2>2. QED
    BY <1>8, <2>1 DEF ReloadDash, DashTypes
<1>9. CASE UNCHANGED <<dash, fetches, alice>>
  BY <1>9 DEF DashTypes
<1>10. QED
  BY <1>2, <1>3, <1>4, <1>5, <1>6, <1>7, <1>7a, <1>7b, <1>8, <1>9, Steps
     DEF DashChange, DashStep, vars

Types == DP!TypeInv /\ ChainTypes /\ PageTypes /\ DashTypes

LEMMA TypesInit == Init => Types
<1> SUFFICES ASSUME Init PROVE Types
  OBVIOUS
<1>1. DP!TypeOK
  BY SystemConstants DEF Init, DP!TypeOK, DP!Status, Django!IdleSign, DP!IdleSign,
     Django!IdleAdmin, DP!IdleAdmin, Django!IdleSave, DP!IdleSave
<1>2. DP!TypeInv
  <2>1. (\A a \in AdminPosts : admin[a].pc = "idle") /\ DP!StartsInFlight = {}
    BY DEF Init, Django!IdleAdmin, DP!StartsInFlight
  <2>2. DP!Cardinality(DP!StartsInFlight) = 0
    BY <2>1, FS_EmptySet DEF DP!Cardinality, Cardinality, DP!IsFiniteSet, IsFiniteSet
  <2>3. DP!Bounded /\ DP!PostsChecked
    BY <2>1, <2>2, SystemConstants DEF Init, DP!Bounded, DP!PostsChecked
  <2>4. QED
    BY <1>1, <2>3 DEF DP!TypeInv
<1>3. ChainTypes
  BY SystemConstants DEF Init, Chain!Init, Chain!EmptyStorage, Chain!NoVotes, ChainTypes
<1>4. PageTypes
  BY DEF Init, PageTypes, ClosedPage
<1>5. DashTypes
  BY SystemConstants DEF Init, DashTypes, Django!Status
<1>6. QED
  BY <1>2, <1>3, <1>4, <1>5 DEF Types

LEMMA TypesStep == Types /\ [Next]_vars => Types'
BY DjangoTypes, DjangoTypeOK, ChainTypesStep, PageTypesStep, DashTypesStep DEF Types

LEMMA SystemTypes == Types => TypeOK
BY DjangoTypeOK, ChainTypeOK DEF Types, TypeOK, PageTypes, DashTypes, Sudos

(* Both backends, the pages, the pool and the dashboard are well typed in  *)
(* every reachable state, however many voters there are.                   *)
THEOREM SystemTypeCorrect == Spec => []TypeOK
BY TypesInit, TypesStep, SystemTypes, PTL DEF Spec

-----------------------------------------------------------------------------
(* Chain first, Django second: what is under way on the dashboard, in the  *)
(* pool and in Django already knows how far the chain is.  A dashboard     *)
(* that was ever shown an active election can end it, so that no end is    *)
(* sent before the first start has gone all the way through.               *)
Shown == {dash.seen} \cup {fetches[i] : i \in DOMAIN fetches}

LeadsInv ==
  /\ ChainLeads
  /\ \A a \in AdminPosts :
       /\ admin[a].pc \in {"starting", "resetting"} => currentPhase # "NotStarted"
       /\ admin[a].pc = "ending" => currentPhase = "Ended" /\ status # "not_started"
  /\ dash.pc = "startPost" => currentPhase # "NotStarted"
  /\ dash.pc = "endPost" => currentPhase = "Ended"
  /\ "active" \in Shown \/ (\E i \in DOMAIN alice : alice[i].call = "end")
       => status # "not_started"

LEMMA LeadsStep == Types /\ LeadsInv /\ [Next]_vars => LeadsInv'
<1> SUFFICES ASSUME Types, LeadsInv, [Next]_vars PROVE LeadsInv'
  OBVIOUS
<1>a. /\ DashTypes /\ status \in Django!Status
      /\ currentPhase \in {"NotStarted", "Voting", "Ended"}
      /\ admin = [a \in AdminPosts |-> admin[a]]
      /\ \A a \in AdminPosts : "pc" \in DOMAIN admin[a]
  <2>1. Django!TypeOK
    BY DjangoTypeOK DEF Types
  <2>2. QED
    BY <2>1 DEF Types, ChainTypes, Django!TypeOK
<1>1. CASE UNCHANGED <<currentPhase, status, admin, dash, fetches, alice>>
  BY <1>1 DEF LeadsInv, ChainLeads, Shown
<1>2. CASE PageChange /\ UNCHANGED <<dash, fetches, alice, admin, status, elections>>
  <2>1. currentPhase' = currentPhase
    BY <1>2 DEF PageChange, OpenFlow, ImportAccount, ReviewVote, EditVotes, Proceed, SendSign,
       SignStep, SignRecheck, SignCommit, SignAnswerLost, Submit, IncludeVote, DropVote,
       ReloadPage, Redirect, chain, Chain!SubmitVote
  <2>2. QED
    BY <1>1, <1>2, <2>1
<1>3. CASE ClickStart \/ ClickEnd
  <2>1. UNCHANGED <<currentPhase, status, admin, fetches>> /\ dash'.seen = dash.seen
        /\ dash'.pc \notin {"startPost", "endPost"}
    BY <1>a, <1>3 DEF ClickStart, ClickEnd, DashTo, chain, django, DashTypes
  <2>2. Shown' = Shown
    BY <2>1 DEF Shown
  <2>3. ASSUME NEW i \in DOMAIN alice', alice'[i].call = "end"
        PROVE  dash.seen = "active" \/ \E j \in DOMAIN alice : alice[j].call = "end"
    <3>1. PICK call \in {"start", "end"} :
            alice' = Append(alice, [call |-> call, watched |-> TRUE])
            /\ (call = "end" => dash.seen = "active")
      BY <1>3 DEF ClickStart, ClickEnd, Sudo, EndButton
    <3>2. alice \in Seq(Sudos)
      BY <1>a DEF DashTypes
    <3>3. i \in 1..(Len(alice) + 1) /\ Len(alice) \in Nat
      BY <3>1, <3>2
    <3>4. CASE i = Len(alice) + 1
      BY <2>3, <3>1, <3>2, <3>4
    <3>5. CASE i \in 1..Len(alice)
      BY <2>3, <3>1, <3>2, <3>5
    <3>6. QED
      BY <3>3, <3>4, <3>5
  <2>4. QED
    BY <2>1, <2>2, <2>3 DEF LeadsInv, ChainLeads, Shown
<1>4. CASE IncludeSudo
  <2>1. alice \in Seq(Sudos) /\ alice # << >>
    BY <1>a, <1>4 DEF DashTypes, IncludeSudo
  <2> DEFINE sudo == Head(alice)
  <2>2. sudo.call \in {"start", "end"} /\ 1 \in DOMAIN alice /\ sudo = alice[1]
    <3>1. sudo \in Sudos /\ sudo = alice[1] /\ Len(alice) \in Nat \ {0}
      BY <2>1
    <3>2. QED
      BY <2>1, <3>1 DEF Sudos
  <2>3. UNCHANGED <<status, admin>>
    BY <1>4 DEF IncludeSudo, django
  <2>4. IF sudo.call = "start"
          THEN currentPhase' = IF currentPhase = "NotStarted" THEN "Voting" ELSE currentPhase
          ELSE currentPhase' = IF currentPhase = "Voting" THEN "Ended" ELSE currentPhase
    BY <1>4 DEF IncludeSudo, RunSudo, chain, Chain!PhaseResult, Chain!StartElection,
       Chain!EndElection
  <2>5. sudo.call = "end" => currentPhase \in {"Voting", "Ended"}
    BY <1>a, <2>2 DEF LeadsInv, ChainLeads, Django!Status
  <2>6. currentPhase' # "NotStarted" /\ (sudo.call = "end" => currentPhase' = "Ended")
        /\ (currentPhase = "Ended" => currentPhase' = "Ended")
    BY <1>a, <2>2, <2>4, <2>5
  <2>7. /\ dash'.seen = dash.seen
        /\ dash'.pc = "endPost" => dash.pc = "endPost" \/ sudo.call = "end"
    BY <1>a, <1>4, <2>2 DEF IncludeSudo, DashTo, DashTypes
  <2>8. "active" \in Shown' => "active" \in Shown
    BY <1>a, <1>4, <2>7 DEF IncludeSudo, RunSudo, DashTypes, Shown
  <2>9. \A i \in DOMAIN alice' : \E j \in DOMAIN alice : alice'[i] = alice[j]
    BY <1>4, <2>1 DEF IncludeSudo
  <2>10. ChainLeads'
    BY <1>a, <2>3, <2>4, <2>6 DEF LeadsInv, ChainLeads
  <2>11. QED
    BY <2>3, <2>6, <2>7, <2>8, <2>9, <2>10 DEF LeadsInv
<1>5. CASE DropSudo
  BY <1>5 DEF DropSudo, LeadsInv, ChainLeads, Shown, chain, django
<1>6. ASSUME NEW k \in DOMAIN fetches, ReadStatus(k) \/ ShowStatus(k) PROVE LeadsInv'
  <2>1. UNCHANGED <<currentPhase, status, admin, alice>> /\ dash'.pc = dash.pc
    BY <1>a, <1>6 DEF ReadStatus, ShowStatus, chain, django, DashTypes
  <2>2. ASSUME "active" \in Shown' PROVE "active" \in Shown \/ status = "active"
    <3>1. CASE ReadStatus(k)
      BY <1>a, <2>2, <3>1 DEF ReadStatus, Shown, DashTypes
    <3>2. CASE ShowStatus(k)
      <4>1. \A j \in DOMAIN fetches' : \E i \in DOMAIN fetches : fetches'[j] = fetches[i]
        BY <1>a, <3>2, RemoveAtElements DEF ShowStatus, DashTypes
      <4>2. dash'.seen \in {dash.seen, fetches[k]}
        BY <1>a, <3>2 DEF ShowStatus, DashTypes
      <4>3. QED
        BY <2>2, <4>1, <4>2 DEF Shown
    <3>3. QED
      BY <1>6, <3>1, <3>2
  <2>3. QED
    BY <2>1, <2>2 DEF LeadsInv, ChainLeads
<1>7. ASSUME NEW a \in AdminPosts, PostStart(a) \/ PostEnd(a) PROVE LeadsInv'
  <2>1. /\ UNCHANGED <<currentPhase, status, fetches, alice>> /\ dash'.seen = dash.seen
        /\ dash'.pc \notin {"startPost", "endPost"}
    BY <1>a, <1>7 DEF PostStart, PostEnd, WaitFor, DashTypes, chain,
       Django!StartReceive, Django!EndReceive, Django!tables
  <2>2. /\ \/ admin'[a].pc = "starting" /\ dash.pc = "startPost"
           \/ admin'[a].pc = "ending" /\ dash.pc = "endPost" /\ status = "active"
        /\ \A b \in AdminPosts \ {a} : admin'[b] = admin[b]
    BY <1>a, <1>7 DEF PostStart, PostEnd, Django!StartReceive, Django!EndReceive
  <2>3. QED
    BY <2>1, <2>2 DEF LeadsInv, ChainLeads, Shown
<1>7a. CASE PostFails
  <2>1. /\ UNCHANGED <<currentPhase, status, admin, fetches, alice>>
        /\ dash'.seen = dash.seen /\ dash'.pc = "idle"
    BY <1>a, <1>7a DEF PostFails, DashTo, DashTypes, chain, django
  <2>2. QED
    BY <2>1 DEF LeadsInv, ChainLeads, Shown
<1>8. ASSUME NEW a \in AdminPosts, StartResetVoters(a) PROVE LeadsInv'
  <2>1. UNCHANGED <<currentPhase, status, dash, fetches, alice>>
    BY <1>8 DEF StartResetVoters, Django!StartResetVoters, Django!tables, chain
  <2>2. admin[a].pc = "starting"
    BY <1>8 DEF StartResetVoters, Django!StartResetVoters
  <2>3. admin'[a].pc = "resetting" /\ \A b \in AdminPosts \ {a} : admin'[b] = admin[b]
    BY <1>a, <1>8 DEF StartResetVoters, Django!StartResetVoters
  <2>4. QED
    BY <2>1, <2>2, <2>3 DEF LeadsInv, ChainLeads, Shown
<1>9. ASSUME NEW a \in AdminPosts, StartCommit(a) \/ EndCommit(a) PROVE LeadsInv'
  <2>1. UNCHANGED <<currentPhase, fetches, alice>> /\ dash'.seen \in {dash.seen, status'}
        /\ (dash'.pc = dash.pc \/ dash'.pc = "idle")
    BY <1>a, <1>9 DEF StartCommit, EndCommit, AnswerDash, DashTo, DashTypes, chain
  <2>2. \/ admin[a].pc = "resetting" /\ status' = "active"
        \/ admin[a].pc = "ending" /\ status' = "ended"
    BY <1>9 DEF StartCommit, EndCommit, Django!StartCommit, Django!EndCommit
  <2>3. admin'[a].pc = "idle" /\ \A b \in AdminPosts \ {a} : admin'[b] = admin[b]
    BY <1>a, <1>9 DEF StartCommit, EndCommit, Django!StartCommit, Django!EndCommit,
       Django!IdleAdmin
  <2>4. ChainLeads'
    BY <1>a, <2>1, <2>2 DEF LeadsInv, ChainLeads
  <2>5. QED
    BY <2>1, <2>2, <2>3, <2>4 DEF LeadsInv
<1>10. CASE ReloadDash
  <2>1. UNCHANGED <<currentPhase, status, admin>> /\ dash'.pc = "idle"
        /\ "active" \notin Shown'
    BY <1>10 DEF ReloadDash, chain, django, Shown
  <2>2. \A i \in DOMAIN alice' : i \in DOMAIN alice /\ alice'[i].call = alice[i].call
    <3>1. \A i \in DOMAIN alice : alice[i] \in Sudos
      BY <1>a, ElementOfSeq DEF DashTypes
    <3>2. \A sudo \in Sudos : [sudo EXCEPT !.watched = FALSE].call = sudo.call
      BY DEF Sudos
    <3>3. QED
      BY <1>10, <3>1, <3>2 DEF ReloadDash
  <2>3. QED
    BY <2>1, <2>2 DEF LeadsInv, ChainLeads
<1>11. QED
  BY <1>1, <1>2, <1>3, <1>4, <1>5, <1>6, <1>7, <1>7a, <1>8, <1>9, <1>10, Steps
     DEF DashChange, DashStep, DjangoAdminStep, vars, chain, django

(* During one election, or several in a row, Django never says that voting *)
(* is open before the chain takes votes, nor that it has ended while the   *)
(* chain still takes them, whatever is lost, repeated or reloaded.         *)
THEOREM SystemChainLeads == Spec => []ChainLeads
<1>1. Init => LeadsInv
  BY DEF Init, Chain!Init, Django!IdleAdmin, LeadsInv, ChainLeads, Shown
<1>2. LeadsInv => ChainLeads
  BY DEF LeadsInv
<1>3. QED
  BY <1>1, <1>2, LeadsStep, TypesInit, TypesStep, PTL DEF Spec

-----------------------------------------------------------------------------
(* The first start is also the last.  Nobody is signed for before it, and  *)
(* whoever has a vote to send, or sent one, was signed for.                *)
SignedInv ==
  /\ elections = 0 => status = "not_started"
  /\ status = "not_started" => signatures = [v \in {} |-> NoBlinded]
  /\ \A v \in Voters :
       /\ sign[v].pc # "idle" => sign[v].voter = v /\ status # "not_started"
       /\ page[v].pc \in {"signed", "submitting"} \/ pending[v] # NoChoice
            => v \in DOMAIN signatures

LEMMA OnlyStart ==
  ASSUME Types, MaxElections = 1, NEW a \in AdminPosts, Django!StartCommit(a)
  PROVE  elections = 0 /\ elections' = 1
<1>1. admin[a].pc = "resetting" /\ elections' = elections + 1
  BY DEF Django!StartCommit
<1>2. {a} \subseteq DP!StartsInFlight /\ DP!StartsInFlight \subseteq AdminPosts
  BY <1>1 DEF DP!StartsInFlight
<1>3. Cardinality(DP!StartsInFlight) \in Nat \ {0}
  <2>1. IsFiniteSet(DP!StartsInFlight)
    BY <1>2, SystemConstants, FS_Subset
  <2>2. QED
    BY <1>2, <2>1, FS_EmptySet, FS_CardinalityType
<1>4. elections + Cardinality(DP!StartsInFlight) <= 1 /\ elections \in Nat
  BY DEF Types, DP!TypeInv, DP!Bounded, DP!TypeOK, DP!Cardinality, Cardinality,
     DP!IsFiniteSet, IsFiniteSet
<1>5. QED
  BY <1>1, <1>3, <1>4

LEMMA SignedStep ==
  ASSUME MaxElections = 1
  PROVE  Types /\ LeadsInv /\ SignedInv /\ [Next]_vars => SignedInv'
<1> SUFFICES ASSUME Types, LeadsInv, SignedInv, [Next]_vars PROVE SignedInv'
  OBVIOUS
<1>a. Django!TypeOK /\ PageTypes
  BY DjangoTypeOK DEF Types
<1>1. CASE UNCHANGED <<elections, status, signatures, sign, page, pending>>
  BY <1>1 DEF SignedInv
<1>2. ASSUME NEW v \in Voters, UNCHANGED <<elections, status>>,
             \/ OpenFlow(v) \/ ImportAccount(v) \/ \E c \in Choices : ReviewVote(v, c)
             \/ EditVotes(v) \/ Proceed(v) \/ ReloadPage(v) \/ Redirect(v)
      PROVE  SignedInv'
  <2>1. UNCHANGED <<signatures, sign, pending>>
    BY <1>2 DEF OpenFlow, ImportAccount, ReviewVote, EditVotes, Proceed, ReloadPage, Redirect,
       django
  <2>2. page'[v].pc \notin {"signed", "submitting"}
        /\ \A w \in Voters \ {v} : page'[w] = page[w]
    BY <1>a, <1>2 DEF OpenFlow, ImportAccount, ReviewVote, EditVotes, Proceed, ReloadPage,
       Redirect, PageTo, ClosedPage, PageTypes
  <2>3. QED
    BY <1>2, <2>1, <2>2 DEF SignedInv
<1>3. ASSUME NEW v \in Voters, UNCHANGED <<elections, status>>, SendSign(v) PROVE SignedInv'
  <2>1. UNCHANGED <<signatures, pending>> /\ status # "not_started"
    BY <1>3 DEF SendSign, Django!SignReceive, Django!tables
  <2>2. page'[v].pc = "signing" /\ \A w \in Voters \ {v} : page'[w] = page[w]
    BY <1>a, <1>3 DEF SendSign, PageTo, PageTypes
  <2>3. sign'[v].voter = v /\ \A w \in Voters \ {v} : sign'[w] = sign[w]
    BY <1>a, <1>3 DEF SendSign, Django!SignReceive, Django!TypeOK
  <2>4. QED
    BY <1>3, <2>1, <2>2, <2>3 DEF SignedInv
<1>4. ASSUME NEW v \in Voters, UNCHANGED <<elections, status>>, SignRecheck(v) PROVE SignedInv'
  <2>1. UNCHANGED <<signatures, pending>> /\ sign[v].pc # "idle"
    BY <1>4 DEF SignRecheck, Django!SignRecheck, Django!tables
  <2>2. \A w \in Voters : page'[w] = page[w] \/ page'[w].pc = "ready"
    BY <1>a, <1>4 DEF SignRecheck, AnswerSign, PageTo, PageTypes
  <2>3. sign'[v].pc = "idle" \/ sign'[v].voter = sign[v].voter
    BY <1>a, <1>4 DEF SignRecheck, Django!SignRecheck, Django!TypeOK, Django!IdleSign
  <2>4. \A w \in Voters \ {v} : sign'[w] = sign[w]
    BY <1>a, <1>4 DEF SignRecheck, Django!SignRecheck, Django!TypeOK
  <2>5. QED
    BY <1>4, <2>1, <2>2, <2>3, <2>4 DEF SignedInv
<1>5. ASSUME NEW v \in Voters, UNCHANGED <<elections, status>>,
             SignCommit(v) \/ SignAnswerLost(v)
      PROVE  SignedInv'
  <2>1. Django!SignCommit(v) /\ UNCHANGED pending
    BY <1>5 DEF SignCommit, SignAnswerLost
  <2>2. sign[v].voter = v /\ status # "not_started"
    BY <2>1 DEF SignedInv, Django!SignCommit
  <2>3. \/ DOMAIN signatures' = DOMAIN signatures \cup {v}
        \/ signatures' = signatures /\ issued' = issued
    BY <2>1, <2>2 DEF Django!SignCommit
  <2>4. ASSUME NEW w \in Voters
        PROVE  page'[w] = page[w] \/ page'[w].pc = "ready" \/ (w = v /\ issued' # issued)
    <3>1. CASE UNCHANGED page
      BY <3>1
    <3>2. CASE PageTo(v, "ready")
      BY <1>a, <3>2 DEF PageTo, PageTypes
    <3>3. CASE PageTo(v, "signed") /\ issued' # issued
      BY <1>a, <3>3 DEF PageTo, PageTypes
    <3>4. CASE SignCommit(v)
      BY <3>1, <3>2, <3>3, <3>4 DEF SignCommit, AnswerSign
    <3>5. CASE SignAnswerLost(v)
      BY <3>1, <3>2, <3>5 DEF SignAnswerLost, AnswerSign
    <3>6. QED
      BY <1>5, <3>4, <3>5
  <2>5. \A w \in Voters : sign'[w] = sign[w] \/ sign'[w].pc = "idle"
    BY <1>a, <2>1 DEF Django!SignCommit, Django!TypeOK, Django!IdleSign
  <2>6. QED
    BY <1>5, <2>1, <2>2, <2>3, <2>4, <2>5 DEF SignedInv
<1>6. ASSUME NEW v \in Voters, UNCHANGED <<elections, status>>,
             Submit(v) \/ IncludeVote(v) \/ DropVote(v)
      PROVE  SignedInv'
  <2>1. UNCHANGED <<signatures, sign>>
    BY <1>6 DEF Submit, IncludeVote, DropVote, django
  <2>2. ASSUME NEW w \in Voters, w # v PROVE page'[w] = page[w] /\ pending'[w] = pending[w]
    BY <1>a, <1>6, <2>2 DEF Submit, IncludeVote, DropVote, PageTo, PageTypes
  <2>3. CASE Submit(v)
    <3>1. page[v].pc = "signed"
      BY <2>3 DEF Submit, SubmitButton, PageAt
    <3>2. QED
      BY <1>6, <2>1, <2>2, <3>1 DEF SignedInv
  <2>4. CASE IncludeVote(v)
    <3>1. pending[v] # NoChoice
      BY <2>4 DEF IncludeVote
    <3>2. QED
      BY <1>6, <2>1, <2>2, <3>1 DEF SignedInv
  <2>5. CASE DropVote(v)
    <3>1. pending[v] # NoChoice
      BY <2>5 DEF DropVote
    <3>2. QED
      BY <1>6, <2>1, <2>2, <3>1 DEF SignedInv
  <2>6. QED
    BY <1>6, <2>3, <2>4, <2>5
<1>7. ASSUME NEW a \in AdminPosts, StartCommit(a) PROVE SignedInv'
  <2>1. Django!StartCommit(a) /\ UNCHANGED <<page, pending, sign>>
        /\ signatures' = [v \in {} |-> NoBlinded] /\ status' = "active"
    BY <1>7 DEF StartCommit, Django!StartCommit
  <2>2. elections = 0 /\ elections' = 1
    BY <2>1, OnlyStart
  <2>3. DOMAIN signatures = {}
    BY <2>2 DEF SignedInv
  <2>4. QED
    BY <2>1, <2>2, <2>3 DEF SignedInv
<1>8. ASSUME NEW a \in AdminPosts, EndCommit(a), UNCHANGED <<page, pending>> PROVE SignedInv'
  <2>1. UNCHANGED <<elections, signatures, sign>> /\ status' = "ended" /\ status # "not_started"
    BY <1>8 DEF EndCommit, Django!EndCommit, LeadsInv
  <2>2. QED
    BY <1>8, <2>1 DEF SignedInv
<1>9. CASE DashChange /\ UNCHANGED <<page, pending>>
  <2>1. \/ UNCHANGED <<elections, status, signatures, sign>>
        \/ \E a \in AdminPosts : StartCommit(a) \/ EndCommit(a)
    BY <1>9 DEF DashChange, ClickStart, ClickEnd, IncludeSudo, DropSudo, ReadStatus, ShowStatus,
       DashStep, PostStart, PostEnd, PostFails, DjangoAdminStep, StartResetVoters, ReloadDash,
       Django!StartReceive, Django!EndReceive, Django!StartResetVoters, Django!tables, django
  <2>2. QED
    BY <1>1, <1>7, <1>8, <1>9, <2>1
<1>10. QED
  BY <1>1, <1>2, <1>3, <1>4, <1>5, <1>6, <1>9, Steps DEF PageChange, SignStep, vars, django

-----------------------------------------------------------------------------
(* A ballot tells whose it is and for what, by its ciphertext.             *)
LEMMA BallotIsVoters ==
  ASSUME NEW v \in Voters, NEW w \in Voters, NEW c \in Choices, NEW d \in Choices,
         Ballot(v, c) = Ballot(w, d)
  PROVE  v = w /\ c = d
<1>1. Ballot(v, c).encrypted_vote = Cipher(v, c) /\ Ballot(w, d).encrypted_vote = Cipher(w, d)
  BY DEF Ballot
<1>2. QED
  BY <1>1 DEF Cipher

(* With no more voters than u32::MAX no slot of the box is written twice.  *)
(* The slots are those of the voters who voted, one each.                  *)
SlotsInv ==
  /\ voteCounter = Cardinality(hasVoted)
  /\ DOMAIN encryptedVotes = 0..(voteCounter - 1)
  /\ \A i \in DOMAIN encryptedVotes :
       \E v \in hasVoted, c \in Choices : encryptedVotes[i] = Ballot(v, c)
  /\ \A v \in hasVoted : VotesOf(v) # {}
  /\ \A v \in Voters : \A i, j \in VotesOf(v) : i = j

LEMMA CastStep ==
  ASSUME Types, SlotsInv, Cardinality(Voters) <= MaxU32,
         NEW v \in Voters, NEW c \in Choices, ChainCast(v, c)
  PROVE  /\ SlotsInv'
         /\ currentPhase = "Voting" /\ v \notin hasVoted /\ hasVoted' = hasVoted \cup {v}
         /\ voteCounter \in Nat /\ voteCounter' = voteCounter + 1
         /\ encryptedVotes'[voteCounter] = Ballot(v, c)
         /\ \A i \in DOMAIN encryptedVotes : encryptedVotes'[i] = encryptedVotes[i]
<1> DEFINE n == Cardinality(hasVoted)
<1>1. /\ currentPhase = "Voting" /\ v \notin hasVoted /\ hasVoted' = hasVoted \cup {v}
      /\ DOMAIN encryptedVotes' = DOMAIN encryptedVotes \cup {voteCounter}
      /\ \A i \in DOMAIN encryptedVotes' :
           encryptedVotes'[i] = IF i = voteCounter THEN Ballot(v, c) ELSE encryptedVotes[i]
      /\ voteCounter' = Chain!Lesser(voteCounter + 1, MaxU32)
  BY DEF ChainCast, Chain!SubmitVote, Chain!SubmitVoteResult, Chain!SaturatingInc
<1>2. hasVoted \subseteq Voters
  BY DEF Types, ChainTypes
<1>3. n \in Nat /\ n < MaxU32 /\ Cardinality(hasVoted') = n + 1
  <2>1. IsFiniteSet(hasVoted) /\ IsFiniteSet(hasVoted') /\ hasVoted' \subseteq Voters
    BY <1>1, <1>2, SystemConstants, FS_Subset
  <2>2. Cardinality(hasVoted') = n + 1 /\ n \in Nat
    BY <1>1, <2>1, FS_AddElement, FS_CardinalityType
  <2>3. Cardinality(hasVoted') <= Cardinality(Voters) /\ Cardinality(Voters) \in Nat
    BY <2>1, SystemConstants, FS_Subset, FS_CardinalityType
  <2>4. QED
    BY <2>2, <2>3, SystemConstants
<1>4. voteCounter = n /\ voteCounter' = n + 1
  BY <1>1, <1>3, SystemConstants DEF SlotsInv, Chain!Lesser
<1> HIDE DEF n
<1>5. DOMAIN encryptedVotes = 0..(n - 1) /\ DOMAIN encryptedVotes' = 0..n
  BY <1>1, <1>3, <1>4 DEF SlotsInv
<1>6. /\ encryptedVotes'[n] = Ballot(v, c)
      /\ \A i \in 0..(n - 1) : encryptedVotes'[i] = encryptedVotes[i]
  BY <1>1, <1>3, <1>4, <1>5
<1>7. ASSUME NEW w \in Voters
      PROVE  VotesOf(w)' = IF w = v THEN {n} ELSE VotesOf(w)
  <2>1. n \in VotesOf(w)' <=> w = v
    BY <1>3, <1>5, <1>6, BallotIsVoters DEF VotesOf
  <2>2. ASSUME NEW i \in 0..(n - 1) PROVE i \in VotesOf(w)' <=> i \in VotesOf(w)
    BY <1>3, <1>5, <1>6, <2>2 DEF VotesOf
  <2>3. VotesOf(v) = {}
    BY <1>1, <1>2, BallotIsVoters DEF SlotsInv, VotesOf
  <2>4. VotesOf(w)' \subseteq 0..n /\ VotesOf(w) \subseteq 0..(n - 1)
    BY <1>5 DEF VotesOf
  <2>5. \A i \in 0..n : i \in 0..(n - 1) \/ i = n
    BY <1>3
  <2>6. CASE w = v
    <3>1. \A i : i \in VotesOf(w)' <=> i = n
      BY <2>1, <2>2, <2>3, <2>4, <2>5, <2>6
    <3>2. QED
      BY <2>6, <3>1
  <2>7. CASE w # v
    <3>1. n \notin 0..(n - 1)
      BY <1>3
    <3>2. \A i : i \in VotesOf(w)' <=> i \in VotesOf(w)
      BY <2>1, <2>2, <2>4, <2>5, <2>7, <3>1
    <3>3. QED
      BY <2>7, <3>2
  <2>8. QED
    BY <2>6, <2>7
<1>8. \A i \in 0..n : \E w \in hasVoted', d \in Choices : encryptedVotes'[i] = Ballot(w, d)
  <2>1. \A i \in 0..(n - 1) : \E w \in hasVoted, d \in Choices : encryptedVotes[i] = Ballot(w, d)
    BY <1>5 DEF SlotsInv
  <2>2. \A i \in 0..n : i \in 0..(n - 1) \/ i = n
    BY <1>3
  <2>3. QED
    BY <1>1, <1>6, <2>1, <2>2
<1>9. SlotsInv'
  <2>1. Cardinality(hasVoted') = n + 1 /\ DOMAIN encryptedVotes' = 0..(voteCounter' - 1)
    BY <1>3, <1>4, <1>5
  <2>2. \A w \in hasVoted' : VotesOf(w)' # {}
    BY <1>1, <1>2, <1>7 DEF SlotsInv
  <2>3. \A w \in Voters : \A i, j \in VotesOf(w)' : i = j
    BY <1>7 DEF SlotsInv
  <2>4. QED
    BY <1>4, <1>5, <1>8, <2>1, <2>2, <2>3 DEF SlotsInv
<1>10. QED
  BY <1>1, <1>3, <1>4, <1>5, <1>6, <1>9

LEMMA SlotsStep ==
  ASSUME Cardinality(Voters) <= MaxU32
  PROVE  Types /\ SlotsInv /\ [Next]_vars => SlotsInv'
<1> SUFFICES ASSUME Types, SlotsInv, [Next]_vars PROVE SlotsInv'
  OBVIOUS
<1>1. CASE UNCHANGED <<encryptedVotes, voteCounter, hasVoted>>
  BY <1>1 DEF SlotsInv, VotesOf
<1>2. CASE Chain!StartElection \/ Chain!EndElection
  BY <1>1, <1>2 DEF Chain!StartElection, Chain!EndElection
<1>3. ASSUME NEW v \in Voters, pending[v] # NoChoice, ChainCast(v, pending[v]) PROVE SlotsInv'
  <2>1. pending[v] \in Choices
    BY <1>3 DEF Types, PageTypes
  <2>2. QED
    BY <1>3, <2>1, CastStep
<1>4. QED
  BY <1>1, <1>2, <1>3, ChainSteps DEF vars, chain

(* Every voter who voted has one ballot in the box and it is that voter's, *)
(* up to u32::MAX voters; the others have none.                            *)
THEOREM SystemOneVotePerVoter ==
  ASSUME Cardinality(Voters) <= MaxU32
  PROVE  Spec => []OneVotePerVoter
<1>1. Init => SlotsInv
  BY FS_EmptySet DEF Init, Chain!Init, Chain!EmptyStorage, Chain!NoVotes, SlotsInv, VotesOf
<1>2. Types /\ SlotsInv => OneVotePerVoter
  <2> SUFFICES ASSUME Types, SlotsInv, NEW v \in Voters
               PROVE  Cardinality(VotesOf(v)) = IF v \in hasVoted THEN 1 ELSE 0
    BY DEF OneVotePerVoter
  <2>1. CASE v \in hasVoted
    <3>1. PICK i : i \in VotesOf(v)
      BY <2>1 DEF SlotsInv
    <3>2. VotesOf(v) = {i}
      BY <3>1 DEF SlotsInv
    <3>3. QED
      BY <2>1, <3>2, FS_Singleton
  <2>2. CASE v \notin hasVoted
    <3>1. hasVoted \subseteq Voters
      BY DEF Types, ChainTypes
    <3>2. VotesOf(v) = {}
      BY <2>2, <3>1, BallotIsVoters DEF SlotsInv, VotesOf
    <3>3. QED
      BY <2>2, <3>2, FS_EmptySet
  <2>3. QED
    BY <2>1, <2>2
<1>3. QED
  BY <1>1, <1>2, SlotsStep, TypesInit, TypesStep, PTL DEF Spec

-----------------------------------------------------------------------------
(* What a page has sent is the choice made on it, so that what its         *)
(* extrinsic recorded is the choice the page shows.                        *)
SentInv ==
  /\ DoneMeansRecorded
  /\ \A v \in Voters : page[v].pc = "submitting" => pending[v] \in {page[v].choice, NoChoice}

LEMMA BoxGrows ==
  ASSUME Types, SlotsInv, Cardinality(Voters) <= MaxU32, [Next]_vars,
         NEW i \in DOMAIN encryptedVotes
  PROVE  i \in DOMAIN encryptedVotes' /\ encryptedVotes'[i] = encryptedVotes[i]
<1>1. CASE UNCHANGED encryptedVotes
  BY <1>1
<1>2. CASE Chain!StartElection \/ Chain!EndElection
  BY <1>2 DEF Chain!StartElection, Chain!EndElection
<1>3. ASSUME NEW v \in Voters, pending[v] # NoChoice, ChainCast(v, pending[v])
      PROVE  i \in DOMAIN encryptedVotes' /\ encryptedVotes'[i] = encryptedVotes[i]
  <2>1. pending[v] \in Choices
    BY <1>3 DEF Types, PageTypes
  <2>2. i \in DOMAIN encryptedVotes'
    BY <1>3 DEF ChainCast, Chain!SubmitVote
  <2>3. QED
    BY <1>3, <2>1, <2>2, CastStep
<1>4. QED
  BY <1>1, <1>2, <1>3, ChainSteps DEF vars, chain

LEMMA SentStep ==
  ASSUME Cardinality(Voters) <= MaxU32
  PROVE  Types /\ SlotsInv /\ SentInv /\ [Next]_vars => SentInv'
<1> SUFFICES ASSUME Types, SlotsInv, SentInv, [Next]_vars, NEW w \in Voters
             PROVE  /\ page'[w].pc = "submitting" => pending'[w] \in {page'[w].choice, NoChoice}
                    /\ page'[w].pc = "done" =>
                         \E i \in DOMAIN encryptedVotes' : encryptedVotes'[i] = Ballot(w, page'[w].choice)
  BY DEF SentInv, DoneMeansRecorded, PageAt
<1>a. PageTypes
  BY DEF Types
<1>b. page[w].pc = "done" =>
        \E i \in DOMAIN encryptedVotes' : encryptedVotes'[i] = Ballot(w, page[w].choice)
  BY BoxGrows DEF SentInv, DoneMeansRecorded, PageAt
<1>1. CASE UNCHANGED <<page, pending>>
  BY <1>1, <1>b DEF SentInv
<1>2. CASE page'[w].pc \notin {"submitting", "done"}
  BY <1>2
<1>3. ASSUME NEW v \in Voters, v # w, page'[w] = page[w], pending'[w] = pending[w]
      PROVE  /\ page'[w].pc = "submitting" => pending'[w] \in {page'[w].choice, NoChoice}
             /\ page'[w].pc = "done" =>
                  \E i \in DOMAIN encryptedVotes' : encryptedVotes'[i] = Ballot(w, page'[w].choice)
  BY <1>3, <1>b DEF SentInv
<1>4. CASE Submit(w)
  BY <1>4, <1>a DEF Submit, PageTo, PageTypes
<1>5. CASE IncludeVote(w)
  <2>1. pending[w] \in Choices /\ pending'[w] = NoChoice
    BY <1>5, <1>a DEF IncludeVote, PageTypes
  <2>2. CASE page'[w].pc = "done"
    <3>1. CASE page[w].pc = "done"
      BY <1>5, <1>b, <3>1 DEF IncludeVote, PageAt
    <3>2. CASE page[w].pc # "done"
      <4>1. /\ ChainCast(w, pending[w]) /\ page[w].pc = "submitting"
            /\ page'[w].choice = page[w].choice
        BY <1>5, <1>a, <2>2, <3>2 DEF IncludeVote, PageAt, PageTo, PageTypes, ChainCast
      <4>2. pending[w] = page[w].choice
        BY <2>1, <4>1, SystemConstants DEF SentInv
      <4>3. voteCounter \in DOMAIN encryptedVotes'
            /\ encryptedVotes'[voteCounter] = Ballot(w, page[w].choice)
        BY <2>1, <4>1, <4>2, CastStep DEF ChainCast, Chain!SubmitVote
      <4>4. QED
        BY <2>2, <4>1, <4>3
    <3>3. QED
      BY <3>1, <3>2
  <2>3. CASE page'[w].pc # "done"
    BY <2>1, <2>3
  <2>4. QED
    BY <2>2, <2>3
<1>6. CASE DropVote(w)
  BY <1>6, <1>a, <1>b DEF DropVote, SentInv, PageTypes
<1>7. ASSUME NEW v \in Voters,
             \/ OpenFlow(v) \/ ImportAccount(v) \/ \E c \in Choices : ReviewVote(v, c)
             \/ EditVotes(v) \/ Proceed(v) \/ SendSign(v) \/ SignStep(v)
             \/ Submit(v) \/ IncludeVote(v) \/ DropVote(v)
             \/ ReloadPage(v) \/ Redirect(v)
      PROVE  v # w => page'[w] = page[w] /\ pending'[w] = pending[w]
  <2>1. \/ pending' = pending
        \/ \E c : pending' = [pending EXCEPT ![v] = c]
    BY <1>7 DEF OpenFlow, ImportAccount, ReviewVote, EditVotes, Proceed, SendSign, SignStep,
       SignRecheck, SignCommit, SignAnswerLost, Submit, IncludeVote, DropVote, ReloadPage, Redirect
  <2>2. page' = page \/ \E h : page' = [page EXCEPT ![v] = h]
    BY <1>7, <1>a DEF OpenFlow, ImportAccount, ReviewVote, EditVotes, Proceed, SendSign, SignStep,
       SignRecheck, SignCommit, SignAnswerLost, AnswerSign, Submit, IncludeVote, DropVote,
       ReloadPage, Redirect, PageTo
  <2>3. QED
    BY <1>a, <2>1, <2>2 DEF PageTypes
<1>8. CASE \/ OpenFlow(w) \/ ImportAccount(w) \/ \E c \in Choices : ReviewVote(w, c)
           \/ EditVotes(w) \/ Proceed(w) \/ SendSign(w) \/ ReloadPage(w) \/ Redirect(w)
  BY <1>8, <1>a DEF OpenFlow, ImportAccount, ReviewVote, EditVotes, Proceed, SendSign,
     ReloadPage, Redirect, PageTo, ClosedPage, PageTypes
<1>9. CASE SignStep(w)
  <2>1. UNCHANGED <<page, pending>> \/ PageTo(w, "ready") \/ PageTo(w, "signed")
    <3>1. CASE SignRecheck(w)
      BY <3>1 DEF SignRecheck, AnswerSign
    <3>2. CASE SignCommit(w)
      BY <3>2 DEF SignCommit, AnswerSign
    <3>3. CASE SignAnswerLost(w)
      BY <3>3 DEF SignAnswerLost, AnswerSign
    <3>4. QED
      BY <1>9, <3>1, <3>2, <3>3 DEF SignStep
  <2>2. PageTo(w, "ready") \/ PageTo(w, "signed") => page'[w].pc \in {"ready", "signed"}
    BY <1>a DEF PageTo, PageTypes
  <2>3. QED
    BY <1>1, <1>2, <2>1, <2>2
<1>10. QED
  BY <1>1, <1>2, <1>3, <1>4, <1>5, <1>6, <1>7, <1>8, <1>9, Steps DEF PageChange, vars

(* A page that says the vote is recorded tells the truth, about the choice *)
(* made on it.                                                             *)
THEOREM SystemDoneMeansRecorded ==
  ASSUME Cardinality(Voters) <= MaxU32
  PROVE  Spec => []DoneMeansRecorded
<1>1. Init => SlotsInv
  BY FS_EmptySet DEF Init, Chain!Init, Chain!EmptyStorage, Chain!NoVotes, SlotsInv, VotesOf
<1>2. Init => SentInv
  BY DEF Init, ClosedPage, SentInv, DoneMeansRecorded, PageAt
<1>3. SentInv => DoneMeansRecorded
  BY DEF SentInv
<1>4. QED
  BY <1>1, <1>2, <1>3, SlotsStep, SentStep, TypesInit, TypesStep, PTL DEF Spec

-----------------------------------------------------------------------------
(* What of a step matters to the abstract election.                        *)
LEMMA VisibleSteps ==
  ASSUME Next
  PROVE  \/ UNCHANGED <<chain, status, signatures>>
         \/ UNCHANGED django /\ \E v \in Voters : pending[v] # NoChoice /\ ChainCast(v, pending[v])
         \/ UNCHANGED chain /\ \E v \in Voters : Django!SignCommit(v)
         \/ UNCHANGED django /\ IncludeSudo
         \/ UNCHANGED chain /\ \E a \in AdminPosts : Django!StartCommit(a) \/ Django!EndCommit(a)
<1>1. CASE PageChange
  BY <1>1 DEF PageChange, OpenFlow, ImportAccount, ReviewVote, EditVotes, Proceed, SendSign,
     SignStep, SignRecheck, SignCommit, SignAnswerLost, Submit, IncludeVote, DropVote,
     ReloadPage, Redirect, ChainCast, Django!SignReceive, Django!SignRecheck, Django!tables,
     django
<1>2. CASE DashChange
  BY <1>2 DEF DashChange, ClickStart, ClickEnd, IncludeSudo, DropSudo, ReadStatus, ShowStatus,
     DashStep, PostStart, PostEnd, PostFails, DjangoAdminStep, StartResetVoters, StartCommit,
     EndCommit, ReloadDash, Django!StartReceive, Django!EndReceive, Django!StartResetVoters,
     Django!tables, django
<1>3. QED
  BY <1>1, <1>2, Steps

LEMMA WholeStep ==
  ASSUME MaxElections = 1, Cardinality(Voters) <= MaxU32
  PROVE  Types /\ LeadsInv /\ SignedInv /\ SlotsInv /\ [Next]_vars => [Whole!Next]_(Whole!vars)
<1> SUFFICES ASSUME Types, LeadsInv, SignedInv, SlotsInv, [Next]_vars
             PROVE  Whole!Next \/ UNCHANGED <<stageOf, DOMAIN signatures, boxOf>>
  BY DEF Whole!vars
<1>a. /\ status \in {"not_started", "active", "ended"}
      /\ currentPhase \in {"NotStarted", "Voting", "Ended"}
      /\ DOMAIN signatures \subseteq Voters
  <2>1. Django!TypeOK
    BY DjangoTypeOK DEF Types
  <2>2. QED
    BY <2>1 DEF Types, ChainTypes, Django!TypeOK, Django!Status
<1>1. CASE UNCHANGED <<chain, status, signatures>>
  BY <1>1 DEF chain, stageOf, boxOf
<1>2. ASSUME NEW v \in Voters, pending[v] # NoChoice, ChainCast(v, pending[v]), UNCHANGED django
      PROVE  Whole!Next
  <2> DEFINE c == pending[v]
  <2>1. c \in Choices
    BY <1>2 DEF Types, PageTypes
  <2>2. /\ currentPhase = "Voting" /\ v \notin hasVoted
        /\ voteCounter \in Nat /\ voteCounter' = voteCounter + 1
        /\ encryptedVotes'[voteCounter] = Ballot(v, c)
        /\ DOMAIN encryptedVotes = 0..(voteCounter - 1)
        /\ \A i \in DOMAIN encryptedVotes : encryptedVotes'[i] = encryptedVotes[i]
    BY <1>2, <2>1, CastStep DEF SlotsInv
  <2>3. v \in DOMAIN signatures /\ status = "active"
    BY <1>a, <1>2, <2>2 DEF SignedInv, LeadsInv, ChainLeads
  <2>4. stageOf = "open" /\ stageOf' = "open" /\ DOMAIN signatures' = DOMAIN signatures
    BY <1>2, <2>2, <2>3 DEF stageOf, ChainCast, Chain!SubmitVote, django
  <2>5. voteOf(Ballot(v, c)) = [voter |-> v, choice |-> c]
    BY DEF voteOf, Ballot, Cipher
  <2>6. v \notin Whole!Voted
    <3>1. ASSUME NEW i \in 1..voteCounter PROVE boxOf[i].voter \in hasVoted
      <4>1. i - 1 \in 0..(voteCounter - 1)
        BY <2>2
      <4>2. PICK w \in hasVoted, d \in Choices : encryptedVotes[i - 1] = Ballot(w, d)
        BY <2>2, <4>1 DEF SlotsInv
      <4>3. QED
        BY <4>2 DEF boxOf, voteOf, Ballot, Cipher
    <3>2. DOMAIN boxOf = 1..voteCounter
      BY DEF boxOf
    <3>3. QED
      BY <2>2, <3>1, <3>2 DEF Whole!Voted
  <2>7. boxOf' = Append(boxOf, [voter |-> v, choice |-> c])
    <3>1. boxOf' = [i \in 1..(voteCounter + 1) |-> voteOf(encryptedVotes'[i - 1])]
      BY <2>2 DEF boxOf, voteOf
    <3>2. \A i \in 1..voteCounter : voteOf(encryptedVotes'[i - 1]) = voteOf(encryptedVotes[i - 1])
      BY <2>2
    <3>3. voteOf(encryptedVotes'[voteCounter]) = [voter |-> v, choice |-> c]
      BY <2>2, <2>5
    <3>4. QED
      BY <2>2, <3>1, <3>2, <3>3 DEF boxOf
  <2>8. Whole!Cast(v, c)
    BY <2>3, <2>4, <2>6, <2>7 DEF Whole!Cast
  <2>9. QED
    BY <2>1, <2>8 DEF Whole!Next
<1>3. ASSUME NEW v \in Voters, Django!SignCommit(v), UNCHANGED chain
      PROVE  Whole!Next \/ UNCHANGED <<stageOf, DOMAIN signatures, boxOf>>
  <2>1. sign[v].voter = v /\ status # "not_started" /\ status' = status
    BY <1>3 DEF SignedInv, Django!SignCommit
  <2>2. UNCHANGED <<stageOf, boxOf>> /\ stageOf # "before"
    BY <1>3, <2>1 DEF stageOf, boxOf, chain
  <2>3. \/ v \notin DOMAIN signatures /\ DOMAIN signatures' = DOMAIN signatures \cup {v}
        \/ signatures' = signatures
    BY <1>3, <2>1 DEF Django!SignCommit
  <2>4. CASE v \notin DOMAIN signatures /\ DOMAIN signatures' = DOMAIN signatures \cup {v}
    <3>1. Whole!Grant(v)
      BY <2>2, <2>4 DEF Whole!Grant
    <3>2. QED
      BY <3>1 DEF Whole!Next
  <2>5. QED
    BY <2>2, <2>3, <2>4
<1>4. CASE IncludeSudo /\ UNCHANGED django
  <2>1. UNCHANGED <<status, signatures, voteCounter, encryptedVotes>>
    BY <1>4 DEF IncludeSudo, RunSudo, django, chain, Chain!StartElection, Chain!EndElection
  <2>2. UNCHANGED boxOf
    BY <2>1 DEF boxOf
  <2>3. \/ currentPhase' = currentPhase
        \/ currentPhase = "NotStarted" /\ currentPhase' = "Voting"
        \/ currentPhase = "Voting" /\ currentPhase' = "Ended" /\ Head(alice).call # "start"
    BY <1>4 DEF IncludeSudo, RunSudo, chain, Chain!PhaseResult, Chain!StartElection,
       Chain!EndElection
  <2>4. CASE currentPhase' = currentPhase
    BY <2>1, <2>2, <2>4 DEF stageOf
  <2>5. CASE currentPhase = "NotStarted" /\ currentPhase' = "Voting"
    <3>1. status = "not_started"
      BY <1>a, <2>5 DEF LeadsInv, ChainLeads
    <3>2. QED
      BY <2>1, <2>2, <2>5, <3>1 DEF stageOf
  <2>6. CASE currentPhase = "Voting" /\ currentPhase' = "Ended" /\ Head(alice).call # "start"
    <3>1. alice \in Seq(Sudos) /\ alice # << >>
      BY <1>4 DEF Types, DashTypes, IncludeSudo
    <3>2. Head(alice) \in Sudos /\ Head(alice) = alice[1] /\ 1 \in DOMAIN alice
      BY <3>1
    <3>3. alice[1].call = "end"
      BY <2>6, <3>2 DEF Sudos
    <3>4. status = "active"
      BY <1>a, <2>6, <3>2, <3>3 DEF LeadsInv, ChainLeads
    <3>5. Whole!Close
      BY <2>1, <2>2, <2>6, <3>4 DEF stageOf, Whole!Close
    <3>6. QED
      BY <3>5 DEF Whole!Next
  <2>7. QED
    BY <2>3, <2>4, <2>5, <2>6
<1>5. ASSUME NEW a \in AdminPosts, Django!StartCommit(a), UNCHANGED chain
      PROVE  Whole!Next \/ UNCHANGED <<stageOf, DOMAIN signatures, boxOf>>
  <2>1. elections = 0
    BY <1>5, OnlyStart
  <2>2. /\ status = "not_started" /\ status' = "active" /\ currentPhase # "NotStarted"
        /\ DOMAIN signatures = {} /\ DOMAIN signatures' = {}
    BY <1>5, <2>1 DEF SignedInv, LeadsInv, Django!StartCommit
  <2>3. UNCHANGED <<currentPhase, boxOf>>
    BY <1>5 DEF chain, boxOf
  <2>4. CASE currentPhase = "Voting"
    <3>1. Whole!Open
      BY <2>2, <2>3, <2>4 DEF stageOf, Whole!Open
    <3>2. QED
      BY <3>1 DEF Whole!Next
  <2>5. CASE currentPhase = "Ended"
    BY <2>2, <2>3, <2>5 DEF stageOf
  <2>6. QED
    BY <1>a, <2>2, <2>4, <2>5
<1>6. ASSUME NEW a \in AdminPosts, Django!EndCommit(a), UNCHANGED chain
      PROVE  UNCHANGED <<stageOf, DOMAIN signatures, boxOf>>
  <2>1. currentPhase = "Ended" /\ UNCHANGED <<signatures, currentPhase, boxOf>>
    BY <1>6 DEF Django!EndCommit, LeadsInv, chain, boxOf
  <2>2. QED
    BY <2>1 DEF stageOf
<1>7. QED
  BY <1>1, <1>2, <1>3, <1>4, <1>5, <1>6, VisibleSteps DEF vars, django, chain

(* Two backends that never talk to each other, and pages that forget, are  *)
(* one election to its voters, for one start and no more voters than       *)
(* u32::MAX: a vote enters the box only from a voter who was signed for,   *)
(* only while both backends have voting open, and once; it stays as cast,  *)
(* and no signature is taken back.                                         *)
THEOREM SystemImplementsElection ==
  ASSUME MaxElections = 1, Cardinality(Voters) <= MaxU32
  PROVE  Spec => ImplementsElection
<1>1. Init => Whole!Init
  BY DEF Init, Chain!Init, Chain!EmptyStorage, Whole!Init, stageOf, boxOf
<1>2. Init => LeadsInv
  BY DEF Init, Chain!Init, Django!IdleAdmin, LeadsInv, ChainLeads, Shown
<1>3. Init => SignedInv
  BY DEF Init, Django!IdleSign, ClosedPage, SignedInv
<1>4. Init => SlotsInv
  BY FS_EmptySet DEF Init, Chain!Init, Chain!EmptyStorage, Chain!NoVotes, SlotsInv, VotesOf
<1>5. QED
  BY <1>1, <1>2, <1>3, <1>4, TypesInit, TypesStep, LeadsStep, SignedStep, SlotsStep, WholeStep,
     PTL DEF Spec, ImplementsElection, Whole!Spec

-----------------------------------------------------------------------------
(* What the two backends were proved to promise on their own they keep in  *)
(* the system.  The calls that reach the pallet are calls it was proved    *)
(* for, whatever is lost on their way, so that its theorems apply.         *)
THEOREM SystemRunsPallet == Spec => Chain!Spec
<1>1. Init => Chain!Init
  BY DEF Init
<1>2. Types /\ [Next]_vars => [Chain!Next]_chain
  <2> SUFFICES ASSUME Types, Next PROVE Chain!Next \/ UNCHANGED chain
    BY DEF vars, chain
  <2>1. ASSUME NEW v \in Voters, pending[v] # NoChoice, ChainCast(v, pending[v])
        PROVE  Chain!Next
    <3>1. pending[v] \in Choices
      BY <2>1 DEF Types, PageTypes
    <3>2. Ballot(v, pending[v]) \in {Ballot(w, c) : w \in Voters, c \in Choices}
      BY <3>1
    <3>3. QED
      BY <2>1, <3>2 DEF ChainCast, Chain!Next
  <2>2. QED
    BY <2>1, ChainSteps DEF Chain!Next
<1>3. QED
  BY <1>1, <1>2, TypesInit, TypesStep, PTL DEF Spec, Chain!Spec, chain, Chain!pallet

(* While no two starts overlap at Django - a dashboard that is reloaded    *)
(* during a start, and starts again, may make them overlap - no voter of   *)
(* the system is signed for twice in an election, and who is told to have  *)
(* voted has a signature on record: whatever the pages send, lose, repeat. *)
THEOREM SystemOneSignature ==
  Spec /\ []Django!OneStartAtATime
    => [](Django!OneSignaturePerElection /\ Django!VotedHasSignature)
<1> DEFINE Signed == DP!OneSignatureInv /\ DP!VotedInv
<1>1. Init => Signed
  BY DEF Init, DP!OneSignatureInv, DP!VotedInv, Django!IdleSign, Django!IdleSave,
     Django!IdleAdmin, DP!StartsInFlight
<1>2. Django!OneStartAtATime => DP!OneStartAtATime
  BY DEF DP!OneStartAtATime, DP!StartsInFlight, Django!OneStartAtATime, Django!StartsInFlight
<1>3. Types /\ Django!OneStartAtATime /\ Signed /\ [Next]_vars => Signed'
  <2>1. Types => DP!TypeOK
    BY DEF Types, DP!TypeInv
  <2>2. Types /\ Django!OneStartAtATime /\ DP!OneSignatureInv /\ [Next]_vars => DP!OneSignatureInv'
    BY <1>2, <2>1, DjangoSteps, DjangoConstantsHold, DP!OneSignatureStep
  <2>3. Types /\ Django!OneStartAtATime /\ DP!VotedInv /\ [Next]_vars => DP!VotedInv'
    BY <1>2, <2>1, DjangoSteps, DjangoConstantsHold, DP!VotedStep
  <2>4. QED
    BY <2>2, <2>3
<1>4. Types /\ Signed => Django!OneSignaturePerElection /\ Django!VotedHasSignature
  BY DEF DP!OneSignatureInv, DP!VotedInv, Django!OneSignaturePerElection,
     Django!VotedHasSignature
<1>5. QED
  BY <1>1, <1>3, <1>4, TypesInit, TypesStep, PTL DEF Spec
=============================================================================
