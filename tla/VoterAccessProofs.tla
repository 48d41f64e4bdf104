-------------------------- MODULE VoterAccessProofs --------------------------
(***************************************************************************)
(* Theorems about registration and login, for every set of students,       *)
(* emails and tabs.                                                        *)
(***************************************************************************)
EXTENDS VoterAccess, FiniteSetTheorems, SequenceTheorems, TLAPS

-----------------------------------------------------------------------------
(* What each request may change.                                           *)
LEMMA TabChanges ==
  ASSUME NEW t \in Tabs, TabStep(t)
  PROVE  /\ UNCHANGED registry \/ RegisterCommit(t)
         /\ \/ UNCHANGED <<otps, opened>>
            \/ LoginInvalidate(t) \/ LoginCreate(t)
            \/ OTPExpire(t) \/ OTPMark(t) \/ OTPLogIn(t)
         /\ UNCHANGED mailed \/ LoginMail(t)
         /\ now' = now
  BY DEF TabStep, RegisterCheck, LoginCheck, RegisterCommit, LoginInvalidate,
     LoginCreate, LoginMail, OTPCheck, OTPExpire, OTPMark, OTPLogIn, Reload, registry

LEMMA StudentChanges ==
  ASSUME NEW r \in Rolls, StudentStep(r)
  PROVE  UNCHANGED <<users, otps, mailed, tab, now, opened>>
  BY DEF StudentStep, StudentSave, StudentDelete, VerifyEmail

LEMMA TickChanges ==
  ASSUME Tick
  PROVE  UNCHANGED <<registry, otps, mailed, tab, opened>>
  BY DEF Tick

-----------------------------------------------------------------------------
(* The tables: students, users and voters.                                 *)
RegistryTypes ==
  /\ DOMAIN students \subseteq Rolls /\ students \in [DOMAIN students -> Emails]
  /\ users \subseteq Emails
  /\ voters \in [DOMAIN voters -> [user : Emails, verified : BOOLEAN]]

Registering ==
  \A t \in Tabs : At(t, "registering") => tab[t].who \in Rolls /\ tab[t].email \in Emails

Registry == RegistryTypes /\ OneAccountEach

(* What a registration leaves in the tables.                               *)
LEMMA NewVoter ==
  ASSUME NEW e \in Emails, NEW v, v = [user |-> e, verified |-> FALSE]
  PROVE  v \in [user : Emails, verified : BOOLEAN] /\ v.user = e
  OBVIOUS

LEMMA RegistrationKeepsRegistry ==
  ASSUME Registry, NEW r \in DOMAIN students, NEW e \in Emails,
         e \notin users, r \notin DOMAIN voters,
         users' = users \cup {e},
         voters' = With(voters, r, [user |-> e, verified |-> FALSE]),
         students' = students
  PROVE  Registry'
<1>1. /\ DOMAIN voters' = DOMAIN voters \cup {r}
      /\ voters'[r] = [user |-> e, verified |-> FALSE]
      /\ \A s \in DOMAIN voters : voters'[s] = voters[s]
  BY DEF With
<1>2. voters' \in [DOMAIN voters' -> [user : Emails, verified : BOOLEAN]]
  <2>1. voters'[r] \in [user : Emails, verified : BOOLEAN]
    BY <1>1, NewVoter
  <2>2. \A s \in DOMAIN voters : voters[s] \in [user : Emails, verified : BOOLEAN]
    BY DEF Registry, RegistryTypes
  <2>3. \A s \in DOMAIN voters' : voters'[s] \in [user : Emails, verified : BOOLEAN]
    BY <1>1, <2>1, <2>2
  <2>4. QED
    BY <2>3 DEF With
<1>3. OneAccountEach'
  <2>1. voters'[r].user = e /\ \A s \in DOMAIN voters : voters'[s].user = voters[s].user
    BY <1>1, NewVoter
  <2>2. \A s \in DOMAIN voters : voters[s].user # e
    BY DEF Registry, OneAccountEach
  <2>3. ASSUME NEW s \in DOMAIN voters', NEW q \in DOMAIN voters',
               voters'[s].user = voters'[q].user
        PROVE  s = q
    <3>1. CASE s = r
      <4>1. q \notin DOMAIN voters
        BY <2>1, <2>2, <2>3, <3>1
      <4>2. QED
        BY <1>1, <3>1, <4>1
    <3>2. CASE s # r
      <4>1. s \in DOMAIN voters
        BY <1>1, <3>2
      <4>2. q \in DOMAIN voters
        BY <1>1, <2>1, <2>2, <2>3, <4>1
      <4>3. voters[s].user = voters[q].user
        BY <2>1, <2>3, <4>1, <4>2
      <4>4. QED
        BY <4>1, <4>2, <4>3 DEF Registry, OneAccountEach
    <3>3. QED
      BY <3>1, <3>2
  <2>4. DOMAIN voters' \subseteq DOMAIN students'
    BY <1>1 DEF Registry, OneAccountEach
  <2>5. \A s \in DOMAIN voters' : voters'[s].user \in users'
    BY <1>1, <2>1 DEF Registry, OneAccountEach
  <2>6. QED
    BY <2>3, <2>4, <2>5 DEF OneAccountEach
<1>4. QED
  BY <1>2, <1>3 DEF Registry, RegistryTypes

LEMMA RegistryStep ==
  ASSUME Registry, Registering, [Next]_vars
  PROVE  Registry'
<1>1. CASE UNCHANGED registry
  BY <1>1 DEF registry, Registry, RegistryTypes, OneAccountEach
<1>2. ASSUME NEW r \in Rolls, NEW e \in Emails, StudentSave(r, e)
      PROVE  Registry'
  <2>1. /\ students' = With(students, r, e)
        /\ UNCHANGED <<users, voters>>
    BY <1>2 DEF StudentSave
  <2>2. DOMAIN students' = DOMAIN students \cup {r}
    BY <2>1 DEF With
  <2>3. students' \in [DOMAIN students' -> Emails]
    BY <2>1, <2>2 DEF With, Registry, RegistryTypes
  <2>4. QED
    BY <2>1, <2>2, <2>3 DEF Registry, RegistryTypes, OneAccountEach
<1>3. ASSUME NEW r \in Rolls, StudentDelete(r)
      PROVE  Registry'
  <2>1. /\ students' = Without(students, r) /\ voters' = Without(voters, r)
        /\ UNCHANGED users
    BY <1>3 DEF StudentDelete
  <2>2. /\ DOMAIN students' = DOMAIN students \ {r}
        /\ DOMAIN voters' = DOMAIN voters \ {r}
        /\ \A s \in DOMAIN voters' : voters'[s] = voters[s]
    BY <2>1 DEF Without
  <2>3. students' \in [DOMAIN students' -> Emails]
    BY <2>1, <2>2 DEF Without, Registry, RegistryTypes
  <2>4. voters' \in [DOMAIN voters' -> [user : Emails, verified : BOOLEAN]]
    BY <2>1, <2>2 DEF Without, Registry, RegistryTypes
  <2>5. QED
    BY <2>1, <2>2, <2>3, <2>4 DEF Registry, RegistryTypes, OneAccountEach
<1>4. ASSUME NEW r \in Rolls, VerifyEmail(r)
      PROVE  Registry'
  <2>1. /\ voters' = [voters EXCEPT ![r].verified = TRUE]
        /\ r \in DOMAIN voters /\ UNCHANGED <<students, users>>
    BY <1>4 DEF VerifyEmail
  <2>2. /\ DOMAIN voters' = DOMAIN voters
        /\ \A s \in DOMAIN voters : voters'[s].user = voters[s].user
    BY <2>1 DEF Registry, RegistryTypes
  <2>3. voters' \in [DOMAIN voters' -> [user : Emails, verified : BOOLEAN]]
    BY <2>1, <2>2 DEF Registry, RegistryTypes
  <2>4. QED
    BY <2>1, <2>2, <2>3 DEF Registry, RegistryTypes, OneAccountEach
<1>5. ASSUME NEW t \in Tabs, RegisterCommit(t)
      PROVE  Registry'
  <2>1. CASE UNCHANGED registry
    BY <1>1, <2>1
  <2>2. CASE ~UNCHANGED registry
    BY <1>5, <2>2, RegistrationKeepsRegistry DEF RegisterCommit, registry, Registering
  <2>3. QED
    BY <2>1, <2>2
<1>6. CASE UNCHANGED vars
  BY <1>1, <1>6 DEF vars
<1>7. QED
  BY <1>1, <1>2, <1>3, <1>4, <1>5, <1>6, TabChanges, TickChanges DEF Next, StudentStep

-----------------------------------------------------------------------------
(* A nonempty set of positions has a last one.                             *)
LEMMA LastOfPositions ==
  ASSUME NEW n \in Nat, NEW S \in SUBSET (1..n), S # {}
  PROVE  Max(S) \in S /\ \A i \in S : i <= Max(S)
<1> DEFINE After(i) == {j \in S : j > i}
           Afters == {A \in SUBSET (1..n) : \E i \in S : A = After(i)}
<1>1. IsWellFoundedOn(StrictSubsetOrdering(1..n), FiniteSubsetsOf(1..n))
  BY FS_StrictSubsetOrderingWellFounded
<1>2. FiniteSubsetsOf(1..n) = SUBSET (1..n)
  <2>1. IsFiniteSet(1..n)
    BY FS_Interval
  <2>2. QED
    BY <2>1, FS_FiniteSubsetsOfFinite
<1>3. Afters \subseteq FiniteSubsetsOf(1..n) /\ Afters # {}
  <2>1. PICK i \in S : TRUE
    OBVIOUS
  <2>2. After(i) \in SUBSET (1..n)
    OBVIOUS
  <2>3. After(i) \in Afters
    BY <2>2
  <2>4. QED
    BY <1>2, <2>3
<1>4. PICK A \in Afters : \A B \in Afters : ~ (<<B, A>> \in StrictSubsetOrdering(1..n))
  <2> HIDE DEF Afters
  <2>1. QED
    BY <1>1, <1>3, WFMin
<1>5. PICK m \in S : A = After(m)
  BY <1>4
<1>6. ASSUME NEW i \in S, i > m
      PROVE  FALSE
  <2>1. m \in Int /\ i \in Int /\ \A j \in S : j \in Int
    OBVIOUS
  <2>2. After(i) \subseteq After(m)
    <3>1. \A j \in S : j > i => j > m
      BY <1>6, <2>1
    <3>2. QED
      BY <3>1
  <2>3. i \in After(m) /\ i \notin After(i)
    <3>1. i \in After(m)
      BY <1>6
    <3>2. ~ (i > i)
      BY <2>1
    <3>3. i \notin After(i)
      BY <3>2
    <3>4. QED
      BY <3>1, <3>3
  <2>4. After(i) \in Afters /\ After(m) \in SUBSET (1..n) /\ After(i) \in SUBSET (1..n)
    OBVIOUS
  <2>5. <<After(i), A>> \in StrictSubsetOrdering(1..n)
    <3> HIDE DEF After, Afters
    <3>1. QED
      BY <1>5, <2>2, <2>3, <2>4 DEF StrictSubsetOrdering
  <2>6. QED
    BY <1>4, <2>4, <2>5
<1>7. m \in S /\ \A i \in S : m >= i
  BY <1>6
<1>8. QED
  BY <1>7 DEF Max

-----------------------------------------------------------------------------
(* The OTPs, and what every tab waits for.                                 *)
OTPs == [user : users, created : 0..now, used : BOOLEAN]

OTPTypes ==
  /\ now \in 0..MaxTime
  /\ otps \in Seq(OTPs)
  /\ mailed \subseteq DOMAIN otps
  /\ opened \in Seq(Nat) /\ Len(opened) = Len(otps)

TabRecords ==
  [pc : {"form", "registering", "checked", "cleared", "mailing", "otp", "expiring",
         "accepted", "marked"},
   who : Rolls \cup {NoOne}, email : Emails \cup {NoOne}, otp : 0..Len(otps)]

(* The row a tab's request has read is still there when it goes on.        *)
WaitsFor(t) ==
  /\ At(t, "registering") => tab[t].who \in Rolls /\ tab[t].email \in Emails
  /\ tab[t].pc \notin {"form", "registering"} => tab[t].email \in users
  /\ tab[t].pc \in {"mailing", "expiring", "accepted", "marked"} => tab[t].otp \in DOMAIN otps

Types ==
  /\ Registry
  /\ OTPTypes
  /\ tab \in [Tabs -> TabRecords] /\ \A t \in Tabs : WaitsFor(t)

(* A table whose rows are updated and not added to.                        *)
LEMMA RowsUpdated ==
  ASSUME NEW S, NEW T, NEW s \in Seq(S), NEW f,
         f = [i \in DOMAIN s |-> f[i]], \A i \in DOMAIN s : f[i] \in T
  PROVE  f \in Seq(T) /\ Len(f) = Len(s) /\ DOMAIN f = DOMAIN s
<1>1. Len(s) \in Nat /\ DOMAIN s = 1..Len(s)
  OBVIOUS
<1>2. f \in [1..Len(s) -> T]
  BY <1>1
<1>3. QED
  BY <1>1, <1>2, SeqDef

LEMMA RegistersStudents ==
  ASSUME Types PROVE Registering
  BY DEF Types, Registering, WaitsFor

(* Nothing is ever taken out of the tables of users and of OTPs.           *)
LEMMA TablesGrow ==
  ASSUME Types, [Next]_vars
  PROVE  users \subseteq users' /\ DOMAIN otps \subseteq DOMAIN otps'
         /\ Len(otps) <= Len(otps') /\ now <= now'
<1>0. Len(otps) \in Nat /\ DOMAIN otps = 1..Len(otps) /\ now \in Int
  BY DEF Types, OTPTypes
<1>1. CASE UNCHANGED vars
  BY <1>0, <1>1 DEF vars, registry
<1>2. ASSUME NEW r \in Rolls, StudentStep(r)
      PROVE  UNCHANGED <<users, otps, now>>
  BY <1>2, StudentChanges
<1>3. CASE Tick
  BY <1>0, <1>3, TickChanges DEF Tick, registry
<1>4. ASSUME NEW t \in Tabs, TabStep(t)
      PROVE  users \subseteq users' /\ now' = now
             /\ DOMAIN otps \subseteq DOMAIN otps' /\ Len(otps) <= Len(otps')
  <2>1. users \subseteq users'
    BY <1>4, TabChanges DEF registry, RegisterCommit
  <2>2. now' = now
    BY <1>4, TabChanges
  <2>3. CASE LoginInvalidate(t) \/ OTPExpire(t) \/ OTPMark(t) \/ UNCHANGED otps
    <3>1. otps' = [i \in DOMAIN otps |-> otps'[i]]
      BY <1>0, <2>3 DEF LoginInvalidate, OTPExpire, OTPMark, Types, OTPTypes
    <3>2. otps \in Seq(OTPs)
      BY DEF Types, OTPTypes
    <3>3. Len(otps') = Len(otps) /\ DOMAIN otps' = DOMAIN otps
      <4>1. \A i \in DOMAIN otps : otps'[i] \in {otps'[j] : j \in DOMAIN otps}
        OBVIOUS
      <4>2. QED
        BY <3>1, <3>2, <4>1, RowsUpdated
    <3>4. QED
      BY <1>0, <2>1, <2>2, <3>3
  <2>4. CASE LoginCreate(t)
    BY <1>0, <2>1, <2>2, <2>4 DEF LoginCreate, Types, OTPTypes
  <2>5. CASE OTPLogIn(t)
    BY <2>3, <2>5 DEF OTPLogIn
  <2>6. QED
    BY <1>4, <2>1, <2>2, <2>3, <2>4, <2>5, TabChanges
<1>5. QED
  BY <1>0, <1>1, <1>2, <1>3, <1>4 DEF Next

LEMMA TypesWiden ==
  ASSUME Types, [Next]_vars
  PROVE  OTPs \subseteq OTPs' /\ TabRecords \subseteq TabRecords'
<1>1. /\ users \subseteq users' /\ Len(otps) <= Len(otps') /\ now <= now'
      /\ Len(otps) \in Nat /\ now \in Nat
  BY TablesGrow DEF Types, OTPTypes
<1>2. now' \in Int /\ Len(otps') \in Int
  <2>1. CASE UNCHANGED <<now, otps>>
    BY <1>1, <2>1
  <2>2. CASE Tick
    BY <1>1, <2>2, TickChanges DEF Tick
  <2>3. ASSUME NEW t \in Tabs, TabStep(t)
        PROVE  now' \in Int /\ Len(otps') \in Int
    <3>1. now' \in Int
      BY <1>1, <2>3, TabChanges
    <3>2. CASE LoginInvalidate(t) \/ OTPExpire(t) \/ OTPMark(t) \/ UNCHANGED otps
      <4>1. otps' = [i \in DOMAIN otps |-> otps'[i]] /\ otps \in Seq(OTPs)
        BY <3>2 DEF LoginInvalidate, OTPExpire, OTPMark, Types, OTPTypes
      <4>2. \A i \in DOMAIN otps : otps'[i] \in {otps'[j] : j \in DOMAIN otps}
        OBVIOUS
      <4>3. QED
        BY <1>1, <3>1, <4>1, <4>2, RowsUpdated
    <3>3. CASE LoginCreate(t)
      BY <3>1, <3>3 DEF LoginCreate, Types, OTPTypes
    <3>4. CASE OTPLogIn(t)
      BY <3>2, <3>4 DEF OTPLogIn
    <3>5. QED
      BY <2>3, <3>2, <3>3, <3>4, TabChanges
  <2>4. ASSUME NEW r \in Rolls, StudentStep(r)
        PROVE  UNCHANGED <<now, otps>>
    BY <2>4, StudentChanges
  <2>5. QED
    BY <2>1, <2>2, <2>3, <2>4 DEF Next, vars
<1>3. 0..now \subseteq 0..now' /\ 0..Len(otps) \subseteq 0..Len(otps')
  BY <1>1, <1>2
<1>4. QED
  BY <1>1, <1>3 DEF OTPs, TabRecords

LEMMA OTPStep ==
  ASSUME Types, [Next]_vars
  PROVE  OTPTypes'
<1> USE DEF OTPTypes
<1>0. /\ OTPs \subseteq OTPs' /\ DOMAIN otps \subseteq DOMAIN otps'
      /\ OTPTypes
  BY TypesWiden, TablesGrow DEF Types
<1>1. CASE UNCHANGED <<otps, mailed, opened>> /\ now' \in 0..MaxTime
  <2>1. otps' \in Seq(OTPs')
    BY <1>0, <1>1, SeqMonotonic
  <2>2. QED
    BY <1>0, <1>1, <2>1
<1>2. ASSUME NEW r \in Rolls, StudentStep(r)
      PROVE  OTPTypes'
  BY <1>0, <1>1, <1>2, StudentChanges
<1>3. CASE Tick
  BY <1>0, <1>1, <1>3, AccessConstants DEF Tick
<1>4. CASE UNCHANGED vars
  BY <1>0, <1>1, <1>4 DEF vars
<1>5. ASSUME NEW t \in Tabs, TabStep(t)
      PROVE  OTPTypes'
  <2>0. now' = now /\ WaitsFor(t) /\ tab[t] \in TabRecords
    BY <1>5, TabChanges DEF Types
  <2>1. CASE UNCHANGED <<otps, mailed, opened>>
    BY <1>0, <1>1, <2>0, <2>1
  <2>2. CASE LoginMail(t)
    <3>1. UNCHANGED <<otps, opened>> /\ mailed' \subseteq DOMAIN otps'
      BY <1>0, <2>0, <2>2 DEF LoginMail, WaitsFor, At
    <3>2. otps' \in Seq(OTPs')
      BY <1>0, <3>1, SeqMonotonic
    <3>3. QED
      BY <1>0, <2>0, <3>1, <3>2
  <2>3. CASE LoginCreate(t)
    <3> DEFINE otp == [user |-> tab[t].email, created |-> now, used |-> FALSE]
    <3>1. /\ otps' = Append(otps, otp) /\ opened' = Append(opened, 0) /\ mailed' = mailed
          /\ users' = users
      BY <2>3 DEF LoginCreate, registry
    <3>2. otp \in OTPs
      BY <1>0, <2>0, <2>3 DEF LoginCreate, WaitsFor, At, OTPs
    <3> HIDE DEF otp
    <3>3. otps' \in Seq(OTPs)
      BY <1>0, <3>1, <3>2
    <3>4. otps' \in Seq(OTPs')
      BY <1>0, <3>3, SeqMonotonic
    <3>5. opened' \in Seq(Nat) /\ Len(opened') = Len(otps')
      BY <1>0, <3>1
    <3>6. QED
      BY <1>0, <2>0, <3>1, <3>4, <3>5
  <2>4. CASE LoginInvalidate(t) \/ OTPExpire(t) \/ OTPMark(t)
    <3>1. /\ otps' = [i \in DOMAIN otps |-> otps'[i]]
          /\ \A i \in DOMAIN otps : otps'[i] = otps[i] \/ otps'[i] = [otps[i] EXCEPT !.used = TRUE]
      BY <1>0, <2>4 DEF LoginInvalidate, OTPExpire, OTPMark
    <3>2. \A i \in DOMAIN otps : otps[i] \in OTPs
      BY <1>0, ElementOfSeq
    <3>3. \A i \in DOMAIN otps : otps'[i] \in OTPs'
      <4>1. \A i \in DOMAIN otps : [otps[i] EXCEPT !.used = TRUE] \in OTPs
        BY <3>2 DEF OTPs
      <4>2. QED
        BY <1>0, <3>1, <3>2, <4>1
    <3>4. otps' \in Seq(OTPs') /\ Len(otps') = Len(otps)
      <4>1. otps \in Seq(OTPs) /\ otps' = [i \in DOMAIN otps |-> otps'[i]]
        BY <1>0, <3>1
      <4>2. QED
        BY <4>1, <3>3, RowsUpdated
    <3>5. UNCHANGED <<mailed, opened>>
      BY <2>4 DEF LoginInvalidate, OTPExpire, OTPMark
    <3>6. QED
      BY <1>0, <2>0, <3>4, <3>5
  <2>5. CASE OTPLogIn(t)
    <3>1. /\ UNCHANGED <<otps, mailed>>
          /\ opened' = [opened EXCEPT ![tab[t].otp] = @ + 1]
      BY <2>5 DEF OTPLogIn
    <3>2. opened \in Seq(Nat) /\ opened' = [i \in DOMAIN opened |-> opened'[i]]
      BY <1>0, <3>1
    <3>3. \A i \in DOMAIN opened : opened[i] \in Nat
      BY <3>2, ElementOfSeq
    <3>4. \A i \in DOMAIN opened : opened'[i] \in Nat
      BY <3>1, <3>3
    <3>5. opened' \in Seq(Nat) /\ Len(opened') = Len(opened)
      BY <3>2, <3>4, RowsUpdated
    <3>6. otps' \in Seq(OTPs')
      BY <1>0, <3>1, SeqMonotonic
    <3>7. QED
      BY <1>0, <2>0, <3>1, <3>5, <3>6
  <2>6. QED
    BY <1>5, <2>1, <2>2, <2>3, <2>4, <2>5, TabChanges DEF LoginMail, LoginCreate,
       LoginInvalidate, OTPExpire, OTPMark
<1>6. QED
  BY <1>2, <1>3, <1>4, <1>5 DEF Next

(* What a request's tab does after each of its steps.                      *)
LEMMA TabMoves ==
  ASSUME Types, NEW t \in Tabs, TabStep(t)
  PROVE  /\ tab' = [tab EXCEPT ![t] = tab'[t]]
         /\ tab'[t] \in TabRecords'
         /\ WaitsFor(t)'
<1> USE DEF At
<1>0. /\ tab \in [Tabs -> TabRecords] /\ tab[t] \in TabRecords /\ WaitsFor(t)
      /\ TabRecords \subseteq TabRecords'
      /\ users \subseteq users' /\ DOMAIN otps \subseteq DOMAIN otps'
  BY TypesWiden, TablesGrow DEF Types, Next
<1>1. OpenTab \in TabRecords'
  BY <1>0 DEF OpenTab, TabRecords, Types, OTPTypes
<1>2. CASE ToForm(t)
  BY <1>0, <1>1, <1>2 DEF ToForm, OpenTab, WaitsFor
<1>3. CASE tab' = tab
  BY <1>0, <1>3 DEF WaitsFor
<1>4. CASE ToOTPForm(t) /\ tab[t].pc \in {"mailing", "expiring", "marked"}
  <2>1. /\ tab' = [tab EXCEPT ![t] = [OpenTab EXCEPT !.pc = "otp", !.email = tab[t].email]]
        /\ tab'[t] = [OpenTab EXCEPT !.pc = "otp", !.email = tab[t].email]
    BY <1>0, <1>4 DEF ToOTPForm
  <2>2. tab'[t] \in TabRecords' /\ tab'[t].pc = "otp" /\ tab'[t].email = tab[t].email
    BY <1>0, <1>1, <2>1 DEF TabRecords
  <2>3. WaitsFor(t)'
    BY <1>0, <1>4, <2>2 DEF WaitsFor
  <2>4. QED
    BY <1>0, <2>1, <2>2, <2>3
<1>5. ASSUME NEW pc \in {"cleared", "marked"}, GoTo(t, pc),
             tab[t].pc = IF pc = "cleared" THEN "checked" ELSE "accepted"
      PROVE  /\ tab' = [tab EXCEPT ![t] = tab'[t]]
             /\ tab'[t] \in TabRecords'
             /\ WaitsFor(t)'
  <2>1. /\ tab' = [tab EXCEPT ![t] = [tab[t] EXCEPT !.pc = pc]]
        /\ tab'[t] = [tab[t] EXCEPT !.pc = pc]
    BY <1>0, <1>5 DEF GoTo
  <2>2. tab'[t] \in TabRecords
    BY <1>0, <2>1 DEF TabRecords
  <2>3. WaitsFor(t)'
    BY <1>0, <1>5, <2>1 DEF WaitsFor, TabRecords
  <2>4. QED
    BY <1>0, <2>1, <2>2, <2>3
<1>6. ASSUME NEW r \in Rolls, RegisterCheck(t, r)
      PROVE  /\ tab' = [tab EXCEPT ![t] = tab'[t]]
             /\ tab'[t] \in TabRecords'
             /\ WaitsFor(t)'
  <2>1. students[r] \in Emails
    BY <1>6 DEF RegisterCheck, Types, Registry, RegistryTypes
  <2>2. tab' = [tab EXCEPT ![t] = [OpenTab EXCEPT !.pc = "registering", !.who = r,
                                                  !.email = students[r]]]
    BY <1>6 DEF RegisterCheck
  <2>3. /\ tab'[t] \in TabRecords' /\ tab'[t].pc = "registering"
        /\ tab'[t].who = r /\ tab'[t].email = students[r]
    <3>1. tab'[t] = [OpenTab EXCEPT !.pc = "registering", !.who = r, !.email = students[r]]
      BY <1>0, <2>2
    <3>2. QED
      BY <1>1, <2>1, <3>1 DEF TabRecords
  <2>4. WaitsFor(t)'
    BY <2>1, <2>3 DEF WaitsFor
  <2>5. QED
    BY <1>0, <2>2, <2>3, <2>4
<1>7. ASSUME NEW e \in Emails, LoginCheck(t, e)
      PROVE  /\ tab' = [tab EXCEPT ![t] = tab'[t]]
             /\ tab'[t] \in TabRecords'
             /\ WaitsFor(t)'
  <2>1. tab' = [tab EXCEPT ![t] = [OpenTab EXCEPT !.pc = "checked", !.email = e]]
    BY <1>7 DEF LoginCheck
  <2>2. tab'[t] \in TabRecords' /\ tab'[t].pc = "checked" /\ tab'[t].email = e
    <3>1. tab'[t] = [OpenTab EXCEPT !.pc = "checked", !.email = e]
      BY <1>0, <2>1
    <3>2. QED
      BY <1>1, <3>1 DEF TabRecords
  <2>3. e \in users'
    BY <1>0, <1>7 DEF LoginCheck
  <2>4. WaitsFor(t)'
    BY <2>2, <2>3 DEF WaitsFor
  <2>5. QED
    BY <1>0, <2>1, <2>2, <2>4
<1>8. CASE LoginCreate(t)
  <2>1. /\ tab' = [tab EXCEPT ![t] = [tab[t] EXCEPT !.pc = "mailing", !.otp = Len(otps) + 1]]
        /\ tab'[t] = [tab[t] EXCEPT !.pc = "mailing", !.otp = Len(otps) + 1]
    BY <1>0, <1>8 DEF LoginCreate
  <2>2. Len(otps') = Len(otps) + 1 /\ DOMAIN otps' = 1..(Len(otps) + 1) /\ Len(otps) \in Nat
    BY <1>8 DEF LoginCreate, Types, OTPTypes
  <2>3. tab'[t] \in TabRecords'
    <3>1. [tab[t] EXCEPT !.pc = "mailing"] \in TabRecords'
      BY <1>0 DEF TabRecords
    <3>2. Len(otps) + 1 \in 0..Len(otps')
      BY <2>2
    <3>3. tab'[t] = [[tab[t] EXCEPT !.pc = "mailing"] EXCEPT !.otp = Len(otps) + 1]
      BY <1>0, <2>1 DEF TabRecords
    <3>4. QED
      BY <3>1, <3>2, <3>3 DEF TabRecords
  <2>4. WaitsFor(t)'
    BY <1>0, <1>8, <2>1, <2>2 DEF WaitsFor, TabRecords, LoginCreate
  <2>5. QED
    BY <1>0, <2>1, <2>3, <2>4
<1>9. ASSUME NEW i \in mailed, OTPCheck(t, i)
      PROVE  /\ tab' = [tab EXCEPT ![t] = tab'[t]]
             /\ tab'[t] \in TabRecords'
             /\ WaitsFor(t)'
  <2> DEFINE latest == Max(Unused(tab[t].email))
             pc == IF is_expired(latest) THEN "expiring" ELSE "accepted"
  <2>1. latest \in DOMAIN otps
    <3>1. Unused(tab[t].email) \in SUBSET (1..Len(otps)) /\ Len(otps) \in Nat
      BY DEF Unused, Types, OTPTypes
    <3>2. Unused(tab[t].email) # {}
      BY <1>9 DEF OTPCheck
    <3>3. latest \in Unused(tab[t].email)
      BY <3>1, <3>2, LastOfPositions
    <3>4. QED
      BY <3>3 DEF Unused
  <2>2. /\ tab' = [tab EXCEPT ![t] = [tab[t] EXCEPT !.pc = pc, !.otp = latest]]
        /\ tab'[t] = [tab[t] EXCEPT !.pc = pc, !.otp = latest]
    BY <1>0, <1>9 DEF OTPCheck
  <2>3. latest \in 0..Len(otps) /\ pc \in {"expiring", "accepted"}
    BY <2>1 DEF Types, OTPTypes
  <2> HIDE DEF latest, pc
  <2>4. tab'[t] \in TabRecords
    BY <1>0, <2>2, <2>3 DEF TabRecords
  <2>5. WaitsFor(t)'
    BY <1>0, <1>9, <2>1, <2>2, <2>3 DEF WaitsFor, TabRecords, OTPCheck, OTPForm
  <2>6. QED
    BY <1>0, <2>2, <2>4, <2>5
<1>10. CASE LoginInvalidate(t) \/ OTPMark(t)
  BY <1>5, <1>10 DEF LoginInvalidate, OTPMark
<1>11. CASE LoginMail(t) \/ OTPExpire(t) \/ OTPLogIn(t) \/ RegisterCommit(t) \/ Reload(t)
  BY <1>2, <1>4, <1>11 DEF LoginMail, OTPExpire, OTPLogIn, RegisterCommit, Reload
<1>12. QED
  BY <1>6, <1>7, <1>8, <1>9, <1>10, <1>11 DEF TabStep

LEMMA TabsStep ==
  ASSUME Types, [Next]_vars
  PROVE  tab' \in [Tabs -> TabRecords'] /\ \A t \in Tabs : WaitsFor(t)'
<1>0. /\ tab \in [Tabs -> TabRecords] /\ \A t \in Tabs : WaitsFor(t)
      /\ TabRecords \subseteq TabRecords'
      /\ users \subseteq users' /\ DOMAIN otps \subseteq DOMAIN otps'
  BY TypesWiden, TablesGrow DEF Types
<1>1. ASSUME NEW u \in Tabs, tab'[u] = tab[u]
      PROVE  tab'[u] \in TabRecords' /\ WaitsFor(u)'
  BY <1>0, <1>1 DEF WaitsFor, At
<1>2. CASE tab' = tab
  BY <1>0, <1>1, <1>2
<1>3. ASSUME NEW t \in Tabs, TabStep(t)
      PROVE  tab' \in [Tabs -> TabRecords'] /\ \A u \in Tabs : WaitsFor(u)'
  <2>1. /\ tab' = [tab EXCEPT ![t] = tab'[t]]
        /\ tab'[t] \in TabRecords' /\ WaitsFor(t)'
    BY <1>3, TabMoves
  <2>2. \A u \in Tabs : u # t => tab'[u] = tab[u]
    BY <1>0, <2>1
  <2>3. \A u \in Tabs : tab'[u] \in TabRecords' /\ WaitsFor(u)'
    BY <1>1, <2>1, <2>2
  <2>4. tab' \in [Tabs -> TabRecords']
    BY <1>0, <2>1, <2>3
  <2>5. QED
    BY <2>3, <2>4
<1>4. QED
  BY <1>2, <1>3, StudentChanges, TickChanges DEF Next, vars

LEMMA TypesInit == Init => Types
<1> SUFFICES ASSUME Init PROVE Types
  OBVIOUS
<1>1. Registry
  BY DEF Init, Registry, RegistryTypes, OneAccountEach
<1>2. OTPTypes
  BY AccessConstants DEF Init, OTPTypes
<1>3. OpenTab \in TabRecords
  BY <1>2 DEF OpenTab, TabRecords, OTPTypes
<1>4. /\ tab \in [Tabs -> TabRecords]
      /\ \A t \in Tabs : tab[t].pc = "form"
  BY <1>3 DEF Init, OpenTab
<1>5. \A t \in Tabs : WaitsFor(t)
  BY <1>4 DEF WaitsFor, At
<1>6. QED
  BY <1>1, <1>2, <1>4, <1>5 DEF Types

LEMMA TypesStep == Types /\ [Next]_vars => Types'
<1> SUFFICES ASSUME Types, [Next]_vars PROVE Types'
  OBVIOUS
<1>1. Registry'
  BY RegistryStep, RegistersStudents DEF Types
<1>2. QED
  BY <1>1, OTPStep, TabsStep DEF Types

LEMMA AccessTypes == Spec => []Types
  BY TypesInit, TypesStep, PTL DEF Spec

(* The tables are well typed and so is what every tab waits for: a row     *)
(* that a request has read is there when it goes on.                       *)
THEOREM AccessTypeCorrect == Spec => []TypeOK
<1>1. Types => TypeOK
  BY DEF Types, TypeOK, Registry, RegistryTypes, OTPTypes, OTPs, TabRecords
<1>2. QED
  BY <1>1, AccessTypes, PTL

(* One student, one voter, one user, however registrations interleave.     *)
THEOREM AccessOneAccountEach == Spec => []OneAccountEach
<1>1. Types => OneAccountEach
  BY DEF Types, Registry
<1>2. QED
  BY <1>1, AccessTypes, PTL

-----------------------------------------------------------------------------
(* A login that has marked the older OTPs and not yet made its own counts  *)
(* for the one it will make.                                               *)
Cleared(e) == {t \in Tabs : At(t, "cleared") /\ tab[t].email = e}

FewInv ==
  \A e \in Emails : Cardinality(Unused(e)) + Cardinality(Cleared(e)) <= Cardinality(Tabs)

LEMMA FiniteCounts ==
  ASSUME Types
  PROVE  \A e : /\ IsFiniteSet(Unused(e)) /\ Cardinality(Unused(e)) \in Nat
                /\ IsFiniteSet(Cleared(e)) /\ Cardinality(Cleared(e)) \in Nat
                /\ Cardinality(Cleared(e)) <= Cardinality(Tabs) /\ Cardinality(Tabs) \in Nat
<1> SUFFICES ASSUME NEW e
             PROVE  /\ IsFiniteSet(Unused(e)) /\ Cardinality(Unused(e)) \in Nat
                    /\ IsFiniteSet(Cleared(e)) /\ Cardinality(Cleared(e)) \in Nat
                    /\ Cardinality(Cleared(e)) <= Cardinality(Tabs) /\ Cardinality(Tabs) \in Nat
  OBVIOUS
<1>1. IsFiniteSet(Unused(e))
  <2>1. Unused(e) \in SUBSET (1..Len(otps)) /\ Len(otps) \in Nat
    BY DEF Unused, Types, OTPTypes
  <2>2. IsFiniteSet(1..Len(otps))
    BY <2>1, FS_Interval
  <2>3. QED
    BY <2>1, <2>2, FS_Subset
<1>2. Cleared(e) \in SUBSET Tabs
  BY DEF Cleared
<1>3. IsFiniteSet(Cleared(e)) /\ Cardinality(Cleared(e)) <= Cardinality(Tabs)
  BY <1>2, FS_Subset, AccessConstants
<1>4. QED
  BY <1>1, <1>3, FS_CardinalityType, AccessConstants

(* Only the request that has just marked the older ones is at "cleared",   *)
(* and only it adds an OTP.                                                *)
LEMMA FewerUnlessLogin ==
  ASSUME Types, NEW t \in Tabs, TabStep(t), ~LoginInvalidate(t), ~LoginCreate(t), NEW e
  PROVE  Unused(e)' \subseteq Unused(e) /\ Cleared(e)' \subseteq Cleared(e)
<1>1. CASE UNCHANGED otps
  <2>1. Unused(e)' \subseteq Unused(e)
    BY <1>1 DEF Unused
  <2>2. /\ tab \in [Tabs -> TabRecords] /\ tab' = [tab EXCEPT ![t] = tab'[t]]
    BY TabMoves DEF Types
  <2>3. tab'[t] = tab[t] \/ tab'[t].pc # "cleared"
    <3>1. CASE ToForm(t)
      BY <2>2, <3>1 DEF ToForm, OpenTab
    <3>2. CASE ToOTPForm(t)
      BY <2>2, <3>2 DEF ToOTPForm, OpenTab
    <3>3. CASE OTPMark(t)
      BY <2>2, <3>3 DEF OTPMark, GoTo, TabRecords
    <3>4. CASE LoginMail(t) \/ OTPExpire(t) \/ OTPLogIn(t) \/ RegisterCommit(t) \/ Reload(t)
      BY <3>1, <3>2, <3>4 DEF LoginMail, OTPExpire, OTPLogIn, RegisterCommit, Reload
    <3>5. ASSUME NEW r \in Rolls, RegisterCheck(t, r)
          PROVE  tab'[t].pc # "cleared"
      BY <2>2, <3>5 DEF RegisterCheck, OpenTab
    <3>6. ASSUME NEW d \in Emails, LoginCheck(t, d)
          PROVE  tab'[t].pc # "cleared"
      BY <2>2, <3>6 DEF LoginCheck, OpenTab
    <3>7. ASSUME NEW i \in mailed, OTPCheck(t, i)
          PROVE  tab'[t].pc # "cleared"
      BY <2>2, <3>7 DEF OTPCheck, TabRecords
    <3>8. QED
      BY <3>3, <3>4, <3>5, <3>6, <3>7 DEF TabStep
  <2>4. \A u \in Tabs : u # t => tab'[u] = tab[u]
    BY <2>2
  <2>5. QED
    BY <2>1, <2>3, <2>4 DEF Cleared, At
<1>2. CASE OTPExpire(t) \/ OTPMark(t)
  <2>1. /\ DOMAIN otps' = DOMAIN otps
        /\ \A i \in DOMAIN otps : otps'[i] = otps[i] \/ otps'[i] = [otps[i] EXCEPT !.used = TRUE]
    BY <1>2 DEF OTPExpire, OTPMark, Types, OTPTypes
  <2>2. \A i \in DOMAIN otps : otps[i] \in OTPs
    BY ElementOfSeq DEF Types, OTPTypes
  <2>3. Unused(e)' \subseteq Unused(e)
    BY <2>1, <2>2 DEF Unused, OTPs
  <2>4. /\ tab \in [Tabs -> TabRecords] /\ tab' = [tab EXCEPT ![t] = tab'[t]]
    BY TabMoves DEF Types
  <2>5. tab'[t].pc # "cleared"
    BY <1>2, <2>4 DEF OTPExpire, OTPMark, ToOTPForm, GoTo, OpenTab, TabRecords
  <2>6. \A u \in Tabs : u # t => tab'[u] = tab[u]
    BY <2>4
  <2>7. QED
    BY <2>3, <2>5, <2>6 DEF Cleared, At
<1>3. QED
  BY <1>1, <1>2, TabChanges DEF OTPLogIn

LEMMA FewStep ==
  ASSUME Types, FewInv, [Next]_vars
  PROVE  FewInv'
<1> SUFFICES ASSUME NEW e \in Emails
             PROVE  Cardinality(Unused(e)') + Cardinality(Cleared(e)') <= Cardinality(Tabs)
  BY DEF FewInv
<1>0. Types'
  BY TypesStep
<1>1. /\ IsFiniteSet(Unused(e)) /\ Cardinality(Unused(e)) \in Nat
      /\ IsFiniteSet(Cleared(e)) /\ Cardinality(Cleared(e)) \in Nat
      /\ Cardinality(Tabs) \in Nat
      /\ Cardinality(Unused(e)) + Cardinality(Cleared(e)) <= Cardinality(Tabs)
  BY FiniteCounts DEF FewInv
<1>2. /\ IsFiniteSet(Unused(e)') /\ Cardinality(Unused(e)') \in Nat
      /\ IsFiniteSet(Cleared(e)') /\ Cardinality(Cleared(e)') \in Nat
  <2>1. Cleared(e)' \in SUBSET Tabs
    BY DEF Cleared
  <2>2. Unused(e)' \in SUBSET (1..Len(otps')) /\ Len(otps') \in Nat
    BY <1>0 DEF Unused, Types, OTPTypes
  <2>3. IsFiniteSet(1..Len(otps'))
    BY <2>2, FS_Interval
  <2>4. IsFiniteSet(Unused(e)') /\ IsFiniteSet(Cleared(e)')
    BY <2>1, <2>2, <2>3, FS_Subset, AccessConstants
  <2>5. QED
    BY <2>4, FS_CardinalityType
<1>3. CASE Unused(e)' \subseteq Unused(e) /\ Cleared(e)' \subseteq Cleared(e)
  <2>1. Cardinality(Unused(e)') <= Cardinality(Unused(e))
    BY <1>1, <1>3, FS_Subset
  <2>2. Cardinality(Cleared(e)') <= Cardinality(Cleared(e))
    BY <1>1, <1>3, FS_Subset
  <2>3. QED
    BY <1>1, <1>2, <2>1, <2>2
<1>4. CASE UNCHANGED <<otps, tab>>
  BY <1>3, <1>4 DEF Unused, Cleared, At
<1>5. ASSUME NEW t \in Tabs, LoginInvalidate(t)
      PROVE  Cardinality(Unused(e)') + Cardinality(Cleared(e)') <= Cardinality(Tabs)
  <2>0. /\ tab \in [Tabs -> TabRecords] /\ \A i \in DOMAIN otps : otps[i] \in OTPs
    BY ElementOfSeq DEF Types, OTPTypes
  <2>1. CASE tab[t].email = e
    <3>1. Unused(e)' = {}
      BY <1>5, <2>0, <2>1 DEF LoginInvalidate, Unused, OTPs
    <3>2. Cardinality(Unused(e)') = 0
      BY <3>1, FS_EmptySet
    <3>3. Cleared(e)' \in SUBSET Tabs
      BY DEF Cleared
    <3>4. Cardinality(Cleared(e)') <= Cardinality(Tabs)
      BY <3>3, FS_Subset, AccessConstants
    <3>5. QED
      BY <1>1, <1>2, <3>2, <3>4
  <2>2. CASE tab[t].email # e
    <3>1. Unused(e)' \subseteq Unused(e)
      BY <1>5, <2>0, <2>2 DEF LoginInvalidate, Unused, OTPs
    <3>2. Cleared(e)' \subseteq Cleared(e)
      BY <1>5, <2>0, <2>2 DEF LoginInvalidate, Cleared, At, GoTo, TabRecords
    <3>3. QED
      BY <1>3, <3>1, <3>2
  <2>3. QED
    BY <2>1, <2>2
<1>6. ASSUME NEW t \in Tabs, LoginCreate(t)
      PROVE  Cardinality(Unused(e)') + Cardinality(Cleared(e)') <= Cardinality(Tabs)
  <2> DEFINE n == Len(otps) + 1
             otp == [user |-> tab[t].email, created |-> now, used |-> FALSE]
  <2>0. /\ tab \in [Tabs -> TabRecords] /\ otps' = Append(otps, otp)
        /\ otps \in Seq(OTPs)
        /\ tab' = [tab EXCEPT ![t] = [tab[t] EXCEPT !.pc = "mailing", !.otp = n]]
        /\ tab[t].pc = "cleared"
    BY <1>6 DEF LoginCreate, Types, OTPTypes, At
  <2>1. /\ DOMAIN otps' = DOMAIN otps \cup {n} /\ otps'[n] = otp /\ n \notin DOMAIN otps
        /\ \A i \in DOMAIN otps : otps'[i] = otps[i]
    <3> HIDE DEF otp
    <3>1. QED
      BY <2>0
  <2>2. otp.user = tab[t].email /\ otp.used = FALSE
    OBVIOUS
  <2>3. tab'[t].pc = "mailing" /\ \A u \in Tabs : u # t => tab'[u] = tab[u]
    BY <2>0 DEF TabRecords
  <2> HIDE DEF n, otp
  <2>4. CASE tab[t].email = e
    <3>1. Unused(e)' \subseteq Unused(e) \cup {n}
      BY <2>1, <2>2, <2>4 DEF Unused
    <3>2. Cleared(e)' \subseteq Cleared(e) \ {t} /\ t \in Cleared(e)
      BY <2>0, <2>3, <2>4 DEF Cleared, At
    <3>3. /\ IsFiniteSet(Unused(e) \cup {n})
          /\ Cardinality(Unused(e) \cup {n}) <= Cardinality(Unused(e)) + 1
          /\ Cardinality(Unused(e) \cup {n}) \in Nat
      <4>1. /\ IsFiniteSet(Unused(e) \cup {n})
            /\ Cardinality(Unused(e) \cup {n}) \in {Cardinality(Unused(e)), Cardinality(Unused(e)) + 1}
        BY <1>1, FS_AddElement
      <4>2. QED
        BY <1>1, <4>1
    <3>4. /\ IsFiniteSet(Cleared(e) \ {t})
          /\ Cardinality(Cleared(e) \ {t}) = Cardinality(Cleared(e)) - 1
      BY <1>1, <3>2, FS_RemoveElement
    <3>5. Cardinality(Unused(e)') <= Cardinality(Unused(e) \cup {n})
      BY <3>1, <3>3, FS_Subset
    <3>6. Cardinality(Cleared(e)') <= Cardinality(Cleared(e) \ {t})
      BY <3>2, <3>4, FS_Subset
    <3>7. QED
      BY <1>1, <1>2, <3>3, <3>4, <3>5, <3>6
  <2>5. CASE tab[t].email # e
    <3>1. Unused(e)' \subseteq Unused(e)
      BY <2>1, <2>2, <2>5 DEF Unused
    <3>2. Cleared(e)' \subseteq Cleared(e)
      BY <2>3 DEF Cleared, At
    <3>3. QED
      BY <1>3, <3>1, <3>2
  <2>6. QED
    BY <2>4, <2>5
<1>7. ASSUME NEW t \in Tabs, TabStep(t), ~LoginInvalidate(t), ~LoginCreate(t)
      PROVE  Cardinality(Unused(e)') + Cardinality(Cleared(e)') <= Cardinality(Tabs)
  BY <1>3, <1>7, FewerUnlessLogin
<1>8. QED
  BY <1>4, <1>5, <1>6, <1>7, StudentChanges, TickChanges DEF Next, vars

(* OTPs do not pile up: there are never more unused ones of a user than    *)
(* tabs can log in at a time.                                              *)
THEOREM AccessFewUnused == Spec => []FewUnused
<1>1. Init => FewInv
  <2> SUFFICES ASSUME Init, NEW e \in Emails
               PROVE  Cardinality(Unused(e)) + Cardinality(Cleared(e)) <= Cardinality(Tabs)
    BY DEF FewInv
  <2>1. Unused(e) = {}
    BY DEF Init, Unused
  <2>2. Cardinality(Unused(e)) = 0
    BY <2>1, FS_EmptySet
  <2>3. QED
    BY <2>2, TypesInit, FiniteCounts
<1>2. Types /\ FewInv /\ [Next]_vars => FewInv'
  BY FewStep
<1>3. Types /\ FewInv => FewUnused
  <2> SUFFICES ASSUME Types, FewInv, NEW e \in Emails
               PROVE  Cardinality(Unused(e)) <= Cardinality(Tabs)
    BY DEF FewUnused
  <2>1. QED
    BY FiniteCounts DEF FewInv
<1>4. QED
  BY <1>1, <1>2, <1>3, AccessTypes, PTL DEF Spec

-----------------------------------------------------------------------------
(* An OTP is accepted by OTPCheck alone, and it is an unused one.          *)
LEMMA Acceptance ==
  ASSUME Types, [Next]_vars, NEW t \in Tabs, Accepted(t)
  PROVE  /\ tab'[t].otp \in Unused(tab[t].email) /\ tab'[t].otp \in DOMAIN otps
         /\ ~is_expired(tab'[t].otp)
<1> USE DEF Accepted, At
<1>0. tab \in [Tabs -> TabRecords]
  BY DEF Types
<1>1. ASSUME NEW u \in Tabs, TabStep(u)
      PROVE  u = t
  BY <1>0, <1>1, TabMoves
<1>2. TabStep(t)
  BY <1>1, StudentChanges, TickChanges DEF Next, vars
<1>3. tab[t].pc = "otp" /\ tab'[t].pc = "accepted"
  OBVIOUS
<1>4. CASE \E i \in mailed : OTPCheck(t, i)
  <2> DEFINE latest == Max(Unused(tab[t].email))
             pc == IF is_expired(latest) THEN "expiring" ELSE "accepted"
  <2>1. tab' = [tab EXCEPT ![t].pc = pc, ![t].otp = latest]
        /\ Unused(tab[t].email) # {}
    BY <1>4 DEF OTPCheck
  <2>2. Unused(tab[t].email) \in SUBSET (1..Len(otps)) /\ Len(otps) \in Nat
    BY DEF Unused, Types, OTPTypes
  <2>3. latest \in Unused(tab[t].email)
    BY <2>1, <2>2, LastOfPositions
  <2>4. tab'[t].pc = pc /\ tab'[t].otp = latest
    <3> HIDE DEF pc, latest
    <3>1. QED
      BY <1>0, <2>1 DEF TabRecords
  <2>5. ~is_expired(latest)
    BY <1>3, <2>4
  <2>6. QED
    BY <2>3, <2>4, <2>5 DEF Unused
<1>5. CASE ~ \E i \in mailed : OTPCheck(t, i)
  <2>1. CASE ToForm(t)
    BY <1>0, <1>3, <2>1 DEF ToForm, OpenTab
  <2>2. CASE tab' = tab
    BY <1>3, <2>2
  <2>3. CASE tab[t].pc # "otp"
    BY <1>3, <2>3
  <2>4. CASE Reload(t)
    BY <2>1, <2>4 DEF Reload
  <2>5. CASE ~Reload(t)
    BY <1>2, <1>5, <2>3, <2>5 DEF TabStep, RegisterCheck, LoginCheck, RegisterCommit,
       LoginInvalidate, LoginCreate, LoginMail, OTPExpire, OTPMark, OTPLogIn, Form
  <2>6. QED
    BY <2>4, <2>5
<1>6. QED
  BY <1>4, <1>5

(* An OTP is marked before it opens a session, and a mark stays.           *)
UsedInv ==
  /\ \A i \in DOMAIN otps : opened[i] > 0 => otps[i].used
  /\ \A t \in Tabs : At(t, "marked") => otps[tab[t].otp].used

(* A request comes to "marked" by marking its OTP.                         *)
LEMMA MarkedByMark ==
  ASSUME Types, [Next]_vars, NEW t \in Tabs, At(t, "marked")'
  PROVE  OTPMark(t) \/ tab'[t] = tab[t]
<1> USE DEF At
<1>0. tab \in [Tabs -> TabRecords]
  BY DEF Types
<1>1. ASSUME NEW u \in Tabs, TabStep(u), u # t
      PROVE  tab'[t] = tab[t]
  BY <1>0, <1>1, TabMoves
<1>2. ASSUME TabStep(t), ~OTPMark(t)
      PROVE  FALSE
  <2>1. CASE ToForm(t) \/ ToOTPForm(t)
    <3>1. OpenTab.pc # "marked" /\ [OpenTab EXCEPT !.pc = "otp", !.email = tab[t].email].pc # "marked"
      BY DEF OpenTab
    <3>2. QED
      BY <1>0, <2>1, <3>1 DEF ToForm, ToOTPForm
  <2>2. CASE LoginInvalidate(t)
    BY <1>0, <2>2 DEF LoginInvalidate, GoTo, TabRecords
  <2>3. CASE LoginCreate(t)
    BY <1>0, <2>3 DEF LoginCreate, TabRecords
  <2>4. ASSUME NEW r \in Rolls, RegisterCheck(t, r)
        PROVE  FALSE
    BY <1>0, <2>4 DEF RegisterCheck, OpenTab
  <2>5. ASSUME NEW e \in Emails, LoginCheck(t, e)
        PROVE  FALSE
    BY <1>0, <2>5 DEF LoginCheck, OpenTab
  <2>6. ASSUME NEW i \in mailed, OTPCheck(t, i)
        PROVE  FALSE
    BY <1>0, <2>6 DEF OTPCheck, TabRecords
  <2>7. QED
    BY <1>2, <2>1, <2>2, <2>3, <2>4, <2>5, <2>6
       DEF TabStep, RegisterCommit, LoginMail, OTPExpire, OTPLogIn, Reload
<1>3. QED
  BY <1>1, <1>2, StudentChanges, TickChanges DEF Next, vars

LEMMA UsedStep ==
  ASSUME Types, UsedInv, [Next]_vars
  PROVE  UsedInv'
<1>0. /\ DOMAIN otps = 1..Len(otps) /\ Len(otps) \in Nat
      /\ DOMAIN opened = DOMAIN otps
      /\ \A i \in DOMAIN otps : otps[i] \in OTPs /\ opened[i] \in Nat
      /\ otps \in Seq(OTPs) /\ opened \in Seq(Nat) /\ Len(opened) = Len(otps)
  <2>1. otps \in Seq(OTPs) /\ opened \in Seq(Nat) /\ Len(opened) = Len(otps)
    BY DEF Types, OTPTypes
  <2>2. QED
    BY <2>1, ElementOfSeq
<1> DEFINE Kept == /\ \A i \in DOMAIN otps' : opened'[i] > 0 => otps'[i].used
                   /\ \A i \in DOMAIN otps : otps[i].used => otps'[i].used
<1>1. ASSUME UNCHANGED <<otps, opened>>
      PROVE  Kept
  BY <1>1 DEF UsedInv
<1>2. ASSUME NEW t \in Tabs, LoginInvalidate(t) \/ OTPExpire(t) \/ OTPMark(t)
      PROVE  Kept
  <2>1. /\ DOMAIN otps' = DOMAIN otps /\ opened' = opened
        /\ \A i \in DOMAIN otps : otps'[i] = otps[i] \/ otps'[i] = [otps[i] EXCEPT !.used = TRUE]
    BY <1>0, <1>2 DEF LoginInvalidate, OTPExpire, OTPMark
  <2>2. \A i \in DOMAIN otps : [otps[i] EXCEPT !.used = TRUE].used
    BY <1>0 DEF OTPs
  <2>3. QED
    BY <2>1, <2>2 DEF UsedInv
<1>3. ASSUME NEW t \in Tabs, OTPLogIn(t)
      PROVE  Kept
  <2> DEFINE k == tab[t].otp
  <2>1. otps' = otps /\ opened' = [opened EXCEPT ![k] = @ + 1]
    BY <1>3 DEF OTPLogIn
  <2>2. otps[k].used
    BY <1>3 DEF OTPLogIn, UsedInv
  <2> HIDE DEF k
  <2>3. \A i \in DOMAIN otps : i # k => opened'[i] = opened[i]
    BY <1>0, <2>1
  <2>4. QED
    BY <2>1, <2>2, <2>3 DEF UsedInv
<1>4. ASSUME NEW t \in Tabs, LoginCreate(t)
      PROVE  Kept
  <2> DEFINE otp == [user |-> tab[t].email, created |-> now, used |-> FALSE]
  <2>1. otps' = Append(otps, otp) /\ opened' = Append(opened, 0)
    BY <1>4 DEF LoginCreate
  <2> HIDE DEF otp
  <2>2. /\ DOMAIN otps' = 1..(Len(otps) + 1) /\ opened'[Len(otps) + 1] = 0
        /\ \A i \in 1..Len(otps) : otps'[i] = otps[i] /\ opened'[i] = opened[i]
    BY <1>0, <2>1
  <2>3. QED
    BY <1>0, <2>2 DEF UsedInv
<1>5. Kept
  <2> HIDE DEF Kept
  <2>1. QED
    BY <1>1, <1>2, <1>3, <1>4, TabChanges, StudentChanges, TickChanges DEF Next, vars
<1>6. ASSUME NEW t \in Tabs, At(t, "marked")'
      PROVE  otps'[tab'[t].otp].used
  <2>1. /\ tab \in [Tabs -> TabRecords] /\ WaitsFor(t)
    BY DEF Types
  <2>2. CASE tab'[t] = tab[t]
    <3>1. At(t, "marked") /\ tab[t].otp \in DOMAIN otps
      BY <1>6, <2>1, <2>2 DEF At, WaitsFor
    <3>2. QED
      BY <1>5, <2>2, <3>1 DEF UsedInv
  <2>3. CASE OTPMark(t)
    <3> DEFINE k == tab[t].otp
    <3>1. k \in DOMAIN otps /\ otps' = [otps EXCEPT ![k].used = TRUE]
      BY <2>1, <2>3 DEF OTPMark, WaitsFor, At
    <3>2. tab'[t].otp = k
      BY <2>1, <2>3 DEF OTPMark, GoTo, TabRecords
    <3> HIDE DEF k
    <3>3. otps'[k] = [otps[k] EXCEPT !.used = TRUE]
      BY <1>0, <3>1
    <3>4. otps'[k].used
      BY <1>0, <3>1, <3>3 DEF OTPs
    <3>5. QED
      BY <3>2, <3>4
  <2>4. QED
    BY <1>6, <2>2, <2>3, MarkedByMark
<1>7. QED
  BY <1>5, <1>6 DEF UsedInv

LEMMA OpenedAreUsed == Spec => []UsedInv
<1>1. Init => UsedInv
  BY DEF Init, UsedInv, At, OpenTab
<1>2. Types /\ UsedInv /\ [Next]_vars => UsedInv'
  BY UsedStep
<1>3. QED
  BY <1>1, <1>2, AccessTypes, PTL DEF Spec

(* An OTP that has opened a session is accepted for no later request.      *)
THEOREM AccessNoReuse == Spec => NoReuse
<1>1. Types /\ UsedInv /\ [Next]_vars
        => [\A t \in Tabs : At(t, "otp") /\ tab'[t].pc = "accepted"
              => opened[tab'[t].otp] = 0]_vars
  <2> SUFFICES ASSUME Types, UsedInv, [Next]_vars, NEW t \in Tabs,
                      At(t, "otp"), tab'[t].pc = "accepted"
               PROVE  opened[tab'[t].otp] = 0
    OBVIOUS
  <2>1. /\ tab'[t].otp \in Unused(tab[t].email) /\ tab'[t].otp \in DOMAIN otps
    BY Acceptance DEF Accepted
  <2>2. ~ (opened[tab'[t].otp] > 0)
    BY <2>1 DEF UsedInv, Unused
  <2>3. opened[tab'[t].otp] \in Nat
    <3>1. opened \in Seq(Nat) /\ DOMAIN opened = DOMAIN otps
      BY DEF Types, OTPTypes
    <3>2. QED
      BY <2>1, <3>1, ElementOfSeq
  <2>4. QED
    BY <2>2, <2>3
<1>2. QED
  BY <1>1, AccessTypes, OpenedAreUsed, PTL DEF Spec, NoReuse

LEMMA SmallRemainder ==
  ASSUME NEW a \in Nat, NEW d \in Nat, a < d
  PROVE  a % d = a
  OBVIOUS

(* An OTP is accepted in its first five minutes, or not before the day is  *)
(* over: the age that is_expired looks at forgets whole days.              *)
THEOREM AccessExpiresForTheDay == Spec => ExpiresForTheDay
<1>1. Types /\ [Next]_vars
        => [\A t \in Tabs : Accepted(t) =>
              \/ Age(tab'[t].otp) <= OTPLife
              \/ Age(tab'[t].otp) >= Day]_vars
  <2> SUFFICES ASSUME Types, [Next]_vars, NEW t \in Tabs, Accepted(t)
               PROVE  Age(tab'[t].otp) <= OTPLife \/ Age(tab'[t].otp) >= Day
    OBVIOUS
  <2> DEFINE k == tab'[t].otp
  <2>1. k \in DOMAIN otps /\ ~is_expired(k)
    BY Acceptance
  <2> HIDE DEF k
  <2>2. otps[k] \in OTPs /\ now \in Nat
    BY <2>1, ElementOfSeq DEF Types, OTPTypes
  <2>3. Age(k) \in Nat /\ Age(k) = now - otps[k].created
    BY <2>2 DEF Age, OTPs
  <2>4. CASE Age(k) < Day
    <3>1. Age(k) % Day = Age(k)
      BY <2>3, <2>4, SmallRemainder, AccessConstants
    <3>2. ~ (Age(k) > OTPLife)
      BY <2>1, <2>3, <3>1 DEF is_expired
    <3>3. Age(k) <= OTPLife
      BY <2>3, <3>2 DEF OTPLife
    <3>4. QED
      BY <3>3 DEF k
  <2>5. CASE ~ (Age(k) < Day)
    <3>1. Age(k) >= Day
      BY <2>3, <2>5, AccessConstants, SMTT(30)
    <3>2. QED
      BY <3>1 DEF k
  <2>6. QED
    BY <2>4, <2>5
<1>2. QED
  BY <1>1, AccessTypes, PTL DEF Spec, ExpiresForTheDay
=============================================================================
