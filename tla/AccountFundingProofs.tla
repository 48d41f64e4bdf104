------------------------- MODULE AccountFundingProofs -------------------------
(***************************************************************************)
(* Theorems about the voters' accounts, for any number of voters, mails,   *)
(* transfers and requests under way.                                       *)
(***************************************************************************)
EXTENDS AccountFunding, FiniteSetTheorems, SequenceTheorems, WellFoundedInduction, TLAPS

-----------------------------------------------------------------------------
(* Which steps change what.                                                *)
Arrives == \E f \in DOMAIN fetches : Arrive(f)
Fails == \E f \in DOMAIN fetches : FetchFails(f)
Reads == \E f \in DOMAIN fetches : ReadVoters(f)
Sends == \E k \in start.todo : SendCredentials(k)
Opens == \E k \in DOMAIN accounts : Select(k)
SendsLate == \E acc \in mails : SendLate(acc)
Deletes == \E r \in Rolls : StudentDelete(r)
Verifies == \E r \in Rolls : Verify(r)

LEMMA WhatChanges ==
  ASSUME [Next]_vars
  PROVE  /\ \/ UNCHANGED <<accounts, stored, minted>>
            \/ Arrives \/ IncludeTransfer \/ FundDone \/ ResetFunding \/ Refresh \/ Reload
         /\ UNCHANGED fetches \/ Reads \/ Arrives \/ Fails \/ Refresh \/ StartPosted \/ Reload
         /\ \/ UNCHANGED <<fund, pool>>
            \/ FundClick \/ FundNext \/ IncludeTransfer \/ DropTransfer \/ FundDone \/ Reload
         /\ UNCHANGED paid \/ IncludeTransfer
         /\ \/ UNCHANGED start
            \/ Arrives \/ Fails \/ StartClick \/ StartPosted \/ Sends \/ Reload
         /\ UNCHANGED active \/ StartPosted \/ LateStart \/ End
         /\ UNCHANGED mailed \/ StartPosted \/ LateStart \/ Sends \/ SendsLate \/ End
         /\ UNCHANGED selected \/ Opens \/ Deselect \/ Reload
         /\ UNCHANGED latePosts \/ StartPosted \/ LateStart \/ Reload
         /\ UNCHANGED mails \/ EmailSelected \/ SendsLate \/ Reload
         /\ UNCHANGED starts \/ StartClick
         /\ UNCHANGED verified \/ Verifies \/ Deletes
         /\ UNCHANGED deleted \/ Deletes
<1> USE DEF vars, ui, late, history
<1>1. CASE UNCHANGED vars
  BY <1>1
<1>2. CASE Verifies \/ Deletes
  BY <1>2 DEF Verifies, Verify, Deletes, StudentDelete
<1>3. CASE Reads
  BY <1>3 DEF Reads, ReadVoters
<1>4. CASE Arrives
  BY <1>4 DEF Arrives, Arrive
<1>5. CASE Fails
  BY <1>5 DEF Fails, FetchFails
<1>6. CASE FundClick \/ FundNext \/ IncludeTransfer \/ DropTransfer \/ FundDone
  BY <1>6 DEF FundClick, FundNext, IncludeTransfer, DropTransfer, FundDone
<1>7. CASE ResetFunding \/ Refresh
  BY <1>7 DEF ResetFunding, Refresh
<1>8. CASE StartClick \/ StartPosted \/ LateStart
  BY <1>8 DEF StartClick, StartPosted, LateStart
<1>9. CASE Sends \/ SendsLate \/ End
  BY <1>9 DEF Sends, SendCredentials, SendsLate, SendLate, End
<1>10. CASE Opens \/ EmailSelected \/ Deselect
  BY <1>10 DEF Opens, Select, EmailSelected, Deselect
<1>11. CASE Reload
  BY <1>11 DEF Reload
<1>12. QED
  BY <1>1, <1>2, <1>3, <1>4, <1>5, <1>6, <1>7, <1>8, <1>9, <1>10, <1>11
     DEF Next, Reads, Arrives, Fails, Sends, Opens, SendsLate, Verifies, Deletes

(* What goes wrong is never forgotten.                                     *)
LEMMA UpsetsStay == ASSUME [Next]_vars PROVE upsets \subseteq upsets'
<1> USE DEF vars, history, Upset
<1>1. Arrives \/ Fails \/ Reads => upsets \subseteq upsets'
  BY DEF Arrives, Fails, Reads, Arrive, FetchFails, ReadVoters
<1>2. ResetFunding \/ Refresh \/ StartClick \/ Reload => upsets \subseteq upsets'
  BY DEF ResetFunding, Refresh, StartClick, Reload
<1>3. FundClick \/ FundNext \/ IncludeTransfer \/ DropTransfer \/ FundDone => UNCHANGED upsets
  BY DEF FundClick, FundNext, IncludeTransfer, DropTransfer, FundDone
<1>4. Sends \/ SendsLate \/ Opens \/ EmailSelected \/ Deselect => UNCHANGED upsets
  BY DEF Sends, SendsLate, Opens, SendCredentials, SendLate, Select, EmailSelected, Deselect
<1>5. End \/ StartPosted \/ LateStart \/ Verifies \/ Deletes => UNCHANGED upsets
  BY DEF End, StartPosted, LateStart, Verifies, Verify, Deletes, StudentDelete
<1>6. QED
  BY <1>1, <1>2, <1>3, <1>4, <1>5
     DEF Next, Reads, Arrives, Fails, Sends, Opens, SendsLate, Verifies, Deletes

-----------------------------------------------------------------------------
(* The voters the dashboard may know of: those verified, and those of      *)
(* students that were deleted.                                             *)
Known == verified \cup deleted

(* A list of accounts names voters it may know of, each of them once.      *)
Lists(voters) ==
  {list \in Seq(Account) :
     /\ \A k \in DOMAIN list : list[k].roll \in voters
     /\ \A j, k \in DOMAIN list : list[j].roll = list[k].roll => j = k}

LEMMA ListElements ==
  ASSUME NEW voters, NEW list \in Lists(voters)
  PROVE  /\ Len(list) \in Nat /\ DOMAIN list = 1..Len(list)
         /\ list \in Seq(Account) /\ list \in [1..Len(list) -> Account]
         /\ \A k \in DOMAIN list : list[k] \in Account /\ list[k].roll \in voters
         /\ \A j, k \in DOMAIN list : list[j].roll = list[k].roll => j = k
<1>1. list \in Seq(Account)
  BY DEF Lists
<1>2. Len(list) \in Nat /\ DOMAIN list = 1..Len(list) /\ list \in [1..Len(list) -> Account]
  BY <1>1, LenProperties
<1>3. \A k \in DOMAIN list : list[k] \in Account
  BY <1>2
<1>4. QED
  BY <1>1, <1>2, <1>3 DEF Lists

(* The same voters in the same order.                                      *)
LEMMA Relisted ==
  ASSUME NEW voters, NEW list \in Lists(voters), NEW t, t = [k \in DOMAIN list |-> t[k]],
         \A k \in DOMAIN list : t[k] \in Account /\ t[k].roll = list[k].roll
  PROVE  t \in Lists(voters)
<1>1. t \in [1..Len(list) -> Account] /\ Len(list) \in Nat /\ DOMAIN t = DOMAIN list
  BY ListElements
<1>2. t \in Seq(Account)
  BY <1>1, SeqDef
<1>3. QED
  BY <1>1, <1>2, ListElements DEF Lists

LEMMA MoreVoters ==
  ASSUME NEW voters, NEW more, voters \subseteq more
  PROVE  Lists(voters) \subseteq Lists(more) /\ << >> \in Lists(voters)
<1>1. << >> \in Seq(Account) /\ DOMAIN << >> = {}
  BY EmptySeq
<1>2. QED
  BY <1>1 DEF Lists

NoRepeats(s) == \A j, k \in DOMAIN s : s[j] = s[k] => j = k

(* The requests for the voters that may be under way.                      *)
Requests(voters) ==
  {fetch \in [origin : {"load", "refresh", "start"}, pc : {"asked", "read"},
              list : Seq(voters)] : NoRepeats(fetch.list)}

AccountTypes ==
  /\ accounts \in Lists(Known) /\ stored \in Lists(Known)
  /\ minted \in 0..MaxMnemonics

FetchTypes == fetches \in Seq(Requests(Known))

FundTypes ==
  /\ fund \in [pc : {"idle", "next", "waiting"}, list : Lists(Known), i : Nat]
  /\ fund.pc = "waiting" => fund.i \in DOMAIN fund.list
  /\ pool \in Seq([mnemonic : 1..MaxMnemonics, watched : BOOLEAN])

StartTypes ==
  /\ start \in [pc : {"idle", "posting", "listing", "mailing"}, list : Lists(Known),
                todo : SUBSET Nat]
  /\ start.todo \subseteq DOMAIN start.list /\ (start.todo # {} => start.pc = "mailing")
  /\ active \in BOOLEAN

LateTypes ==
  /\ latePosts \in Nat /\ starts \in 0..MaxStarts /\ latePosts <= starts
  /\ start.pc = "posting" => latePosts < starts

MailTypes ==
  /\ \A acc \in mails : acc \in Account /\ acc.roll \in Known
  /\ DOMAIN mailed \subseteq Known /\ mailed \in [DOMAIN mailed -> Mail]
  /\ selected = << >> \/ \E a \in Account : a.roll \in Known /\ selected = <<a>>

Types ==
  /\ verified \subseteq Rolls /\ deleted \subseteq Rolls
  /\ AccountTypes /\ FetchTypes /\ FundTypes /\ StartTypes /\ LateTypes /\ MailTypes
  /\ paid \in [1..MaxMnemonics -> 0..2]
  /\ loading \in BOOLEAN /\ upsets \subseteq {"replaced", "unflagged", "regenerated"}

LEMMA KnownRolls == Types => Known \subseteq Rolls /\ verified \subseteq Known
  BY DEF Types, Known

LEMMA KnownSame == UNCHANGED <<verified, deleted>> => Known' = Known
  BY DEF Known

-----------------------------------------------------------------------------
(* What is generated: the stored account of a voter who has one, and a new *)
(* mnemonic for everybody else.                                            *)
Fresh(names, k) == {n \in 1..k : Cached(names[n]) = {}}

LEMMA FreshGrows ==
  ASSUME NEW names, NEW k \in Nat
  PROVE  /\ IsFiniteSet(Fresh(names, k)) /\ Cardinality(Fresh(names, k)) \in Nat
         /\ k > 0 /\ Cached(names[k]) = {} => Cardinality(Fresh(names, k)) > 0
         /\ \A j \in 1..k : Cached(names[k]) = {} /\ j < k =>
              Cardinality(Fresh(names, j)) < Cardinality(Fresh(names, k))
<1>1. IsFiniteSet(1..k) /\ Fresh(names, k) \subseteq 1..k
  BY FS_Interval DEF Fresh
<1>2. IsFiniteSet(Fresh(names, k)) /\ Cardinality(Fresh(names, k)) \in Nat
  BY <1>1, FS_Subset, FS_CardinalityType
<1>3. ASSUME k > 0, Cached(names[k]) = {}
      PROVE  k \in Fresh(names, k) /\ Cardinality(Fresh(names, k)) > 0
  <2>1. k \in Fresh(names, k)
    BY <1>3 DEF Fresh
  <2>2. QED
    BY <1>2, <2>1, FS_EmptySet
<1>4. ASSUME NEW j \in 1..k, Cached(names[k]) = {}, j < k
      PROVE  Cardinality(Fresh(names, j)) < Cardinality(Fresh(names, k))
  <2>1. Fresh(names, j) \subseteq Fresh(names, k) /\ k \notin Fresh(names, j)
    BY <1>4 DEF Fresh
  <2>2. Fresh(names, j) # Fresh(names, k)
    BY <1>3, <1>4, <2>1
  <2>3. QED
    BY <1>2, <2>1, <2>2, FS_Subset, FS_CardinalityType
<1>5. QED
  BY <1>2, <1>3, <1>4

LEMMA GeneratedAccounts ==
  ASSUME AccountTypes, NEW names \in Seq(Known), NoRepeats(names), Known \subseteq Rolls,
         MaxMinted(Generated(names)) \subseteq 0..MaxMnemonics
  PROVE  LET list == Generated(names)
         IN  /\ list \in Lists(Known) /\ DOMAIN list = DOMAIN names
             /\ \A k \in DOMAIN list :
                  /\ list[k].roll = names[k]
                  /\ \/ \E j \in DOMAIN stored : list[k] = stored[j]
                     \/ /\ Cached(names[k]) = {} /\ ~list[k].funded
                        /\ list[k].mnemonic = minted + Cardinality(Fresh(names, k))
                        /\ list[k].mnemonic > minted
<1> DEFINE list == Generated(names)
<1>0. /\ minted \in Nat /\ MaxMnemonics \in Nat /\ Len(names) \in Nat
      /\ DOMAIN names = 1..Len(names) /\ \A k \in DOMAIN names : names[k] \in Known
  BY FundingConstants DEF AccountTypes
<1>1. /\ list = [k \in DOMAIN names |-> list[k]]
      /\ \A k \in DOMAIN names :
           list[k] = IF Cached(names[k]) # {}
                       THEN stored[CHOOSE j \in Cached(names[k]) : TRUE]
                       ELSE [roll |-> names[k], mnemonic |-> minted + Cardinality(Fresh(names, k)),
                             funded |-> FALSE]
  BY DEF Generated, Fresh
<1>2. \A k \in DOMAIN names : list[k].mnemonic \in 0..MaxMnemonics
  BY <1>1 DEF MaxMinted
<1> HIDE DEF list
<1>3. ASSUME NEW k \in DOMAIN names, Cached(names[k]) # {}
      PROVE  /\ list[k] \in Account /\ list[k].roll = names[k]
             /\ \E j \in DOMAIN stored : list[k] = stored[j]
  <2>1. PICK j \in Cached(names[k]) : list[k] = stored[j]
    BY <1>1, <1>3
  <2>2. j \in DOMAIN stored /\ stored[j].roll = names[k]
    BY DEF Cached
  <2>3. QED
    BY <2>1, <2>2, ListElements DEF AccountTypes
<1>4. ASSUME NEW k \in DOMAIN names, Cached(names[k]) = {}
      PROVE  /\ list[k] \in Account /\ list[k].roll = names[k] /\ ~list[k].funded
             /\ list[k].mnemonic = minted + Cardinality(Fresh(names, k))
             /\ list[k].mnemonic > minted
  <2>1. list[k] = [roll |-> names[k], mnemonic |-> minted + Cardinality(Fresh(names, k)),
                   funded |-> FALSE]
    BY <1>1, <1>4
  <2>2. Cardinality(Fresh(names, k)) \in Nat /\ Cardinality(Fresh(names, k)) > 0
    BY <1>0, <1>4, FreshGrows
  <2>3. names[k] \in Rolls /\ list[k].mnemonic \in 1..MaxMnemonics
    BY <1>0, <1>2, <2>1, <2>2
  <2>4. QED
    BY <1>0, <2>1, <2>2, <2>3 DEF Account
<1>5. list \in Seq(Account)
  <2>1. list \in [1..Len(names) -> Account]
    BY <1>0, <1>1, <1>3, <1>4
  <2>2. QED
    BY <1>0, <2>1, SeqDef
<1>6. list \in Lists(Known)
  <2>1. \A k \in DOMAIN list : list[k].roll = names[k] /\ names[k] \in Known
    BY <1>0, <1>1, <1>3, <1>4
  <2>2. QED
    BY <1>1, <1>5, <2>1 DEF Lists, NoRepeats
<1>7. QED
  BY <1>1, <1>3, <1>4, <1>6 DEF list

(* The last mnemonic made: a bounded set of numbers has a greatest.        *)
LEMMA Greatest ==
  ASSUME NEW n \in Nat, NEW S \in SUBSET (0..n), S # {}
  PROVE  \E m \in S : \A i \in S : i <= m
<1> DEFINE After(i) == {j \in S : j > i}
           Afters == {A \in SUBSET (0..n) : \E i \in S : A = After(i)}
<1>1. IsWellFoundedOn(StrictSubsetOrdering(0..n), FiniteSubsetsOf(0..n))
  BY FS_StrictSubsetOrderingWellFounded
<1>2. FiniteSubsetsOf(0..n) = SUBSET (0..n)
  <2>1. IsFiniteSet(0..n)
    BY FS_Interval
  <2>2. QED
    BY <2>1, FS_FiniteSubsetsOfFinite
<1>3. Afters \subseteq FiniteSubsetsOf(0..n) /\ Afters # {}
  <2>1. PICK i \in S : TRUE
    OBVIOUS
  <2>2. After(i) \in SUBSET (0..n)
    OBVIOUS
  <2>3. After(i) \in Afters
    BY <2>2
  <2>4. QED
    BY <1>2, <2>3
<1>4. PICK A \in Afters : \A B \in Afters : ~ (<<B, A>> \in StrictSubsetOrdering(0..n))
  <2> HIDE DEF Afters
  <2>1. QED
    BY <1>1, <1>3, WFMin
<1>5. PICK m \in S : A = After(m)
  BY <1>4
<1>6. ASSUME NEW i \in S, i > m
      PROVE  FALSE
  <2>1. m \in Int /\ i \in Int /\ \A j \in S : j \in Int
    OBVIOUS
  <2>2. \A j \in S : j > i => j > m
    BY <1>6, <2>1
  <2>3. i \in After(m) /\ i \notin After(i) /\ After(i) \subseteq After(m)
    <3>1. i \in After(m) /\ After(i) \subseteq After(m)
      BY <1>6, <2>2
    <3>2. ~ (i > i)
      BY <2>1
    <3>3. i \notin After(i)
      BY <3>2
    <3>4. QED
      BY <3>1, <3>3
  <2>4. After(i) \in Afters /\ After(m) \in SUBSET (0..n) /\ After(i) \in SUBSET (0..n)
    OBVIOUS
  <2>5. <<After(i), A>> \in StrictSubsetOrdering(0..n)
    <3> HIDE DEF After, Afters
    <3>1. QED
      BY <1>5, <2>3, <2>4 DEF StrictSubsetOrdering
  <2>6. QED
    BY <1>4, <2>4, <2>5
<1>7. \A i \in S : i <= m
  BY <1>6
<1>8. QED
  BY <1>7

LEMMA ArrivesTyped ==
  ASSUME Types, NEW f \in DOMAIN fetches, Arrive(f)
  PROVE  /\ Known' = Known /\ accounts' = Generated(fetches[f].list) /\ stored' = accounts'
         /\ fetches[f].list \in Seq(Known) /\ NoRepeats(fetches[f].list)
         /\ MaxMinted(accounts') \subseteq 0..MaxMnemonics
         /\ AccountTypes'
         /\ minted <= minted' /\ \A k \in DOMAIN accounts' : accounts'[k].mnemonic <= minted'
<1>1. /\ accounts' = Generated(fetches[f].list) /\ stored' = accounts'
      /\ UNCHANGED <<verified, deleted>>
      /\ MaxMinted(accounts') \subseteq 0..MaxMnemonics
      /\ minted' = CHOOSE m \in MaxMinted(accounts') : \A n \in MaxMinted(accounts') : n <= m
  BY DEF Arrive
<1>2. fetches[f].list \in Seq(Known) /\ NoRepeats(fetches[f].list)
  <2>1. fetches[f] \in Requests(Known)
    BY ElementOfSeq DEF Types, FetchTypes
  <2>2. QED
    BY <2>1 DEF Requests
<1>3. accounts' \in Lists(Known)
  BY <1>1, <1>2, GeneratedAccounts, KnownRolls DEF Types
<1>4. minted \in MaxMinted(accounts')
      /\ \A k \in DOMAIN accounts' : accounts'[k].mnemonic \in MaxMinted(accounts')
  BY DEF MaxMinted
<1>5. MaxMnemonics \in Nat
  BY FundingConstants
<1>6. \E m \in MaxMinted(accounts') : \A n \in MaxMinted(accounts') : n <= m
  <2> DEFINE S == MaxMinted(accounts')
  <2>1. S \in SUBSET (0..MaxMnemonics) /\ S # {}
    BY <1>1, <1>4
  <2> HIDE DEF S
  <2>2. \E m \in S : \A n \in S : n <= m
    BY <1>5, <2>1, Greatest
  <2>3. QED
    BY <2>2 DEF S
<1>7. minted' \in MaxMinted(accounts') /\ \A n \in MaxMinted(accounts') : n <= minted'
  BY <1>1, <1>6
<1>8. QED
  BY <1>1, <1>2, <1>3, <1>4, <1>7, KnownSame DEF AccountTypes

LEMMA KnownGrows ==
  ASSUME Types, [Next]_vars
  PROVE  Known \subseteq Known' /\ Known \subseteq Rolls /\ Known' \subseteq Rolls
<1>1. CASE Verifies
  <2>1. PICK r \in Rolls : verified' = verified \cup {r} /\ deleted' = deleted
    BY <1>1 DEF Verifies, Verify
  <2>2. QED
    BY <2>1 DEF Types, Known
<1>2. CASE Deletes
  <2>1. PICK r \in verified : verified' = verified \ {r} /\ deleted' = deleted \cup {r}
    BY <1>2 DEF Deletes, StudentDelete
  <2>2. QED
    BY <2>1 DEF Types, Known
<1>3. CASE UNCHANGED <<verified, deleted>>
  BY <1>3 DEF Types, Known
<1>4. QED
  BY <1>1, <1>2, <1>3, WhatChanges

(* What a mark changes.                                                    *)
LEMMA MarkedAccounts ==
  ASSUME Types, NEW i, NEW ok \in BOOLEAN
  PROVE  LET list == Marked(i, ok)
         IN  /\ list \in Lists(Known) /\ DOMAIN list = DOMAIN accounts
             /\ \A k \in DOMAIN accounts :
                  /\ list[k].roll = accounts[k].roll /\ list[k].mnemonic = accounts[k].mnemonic
                  /\ list[k].funded = (accounts[k].funded \/ (k = i /\ ok))
<1> DEFINE list == Marked(i, ok)
<1>0. accounts \in Lists(Known) /\ \A k \in DOMAIN accounts : accounts[k] \in Account
  BY ListElements DEF Types, AccountTypes
<1>1. /\ list = [k \in DOMAIN accounts |-> list[k]] /\ DOMAIN list = DOMAIN accounts
      /\ \A k \in DOMAIN accounts :
           list[k] = IF k = i /\ ok THEN [accounts[k] EXCEPT !.funded = TRUE] ELSE accounts[k]
  BY DEF Marked
<1> HIDE DEF list
<1>2. ASSUME NEW k \in DOMAIN accounts
      PROVE  /\ list[k] \in Account
             /\ list[k].roll = accounts[k].roll /\ list[k].mnemonic = accounts[k].mnemonic
             /\ list[k].funded = (accounts[k].funded \/ (k = i /\ ok))
  <2>1. CASE k = i /\ ok
    <3>1. accounts[k] \in Account /\ list[k] = [accounts[k] EXCEPT !.funded = TRUE]
      BY <1>0, <1>1, <2>1
    <3>2. QED
      BY <2>1, <3>1 DEF Account
  <2>2. CASE ~ (k = i /\ ok)
    <3>1. list[k] = accounts[k] /\ accounts[k].funded \in BOOLEAN
      BY <1>0, <1>1, <2>2 DEF Account
    <3>2. QED
      BY <1>0, <2>2, <3>1
  <2>3. QED
    BY <2>1, <2>2
<1>3. list \in Lists(Known)
  BY <1>0, <1>1, <1>2, Relisted
<1>4. QED
  BY <1>1, <1>2, <1>3 DEF list

LEMMA ResetAccounts ==
  ASSUME Types, ResetFunding
  PROVE  /\ accounts' \in Lists(Known) /\ DOMAIN accounts' = DOMAIN accounts
         /\ stored' = accounts' /\ UNCHANGED <<minted, verified, deleted>>
         /\ \A k \in DOMAIN accounts :
              /\ accounts'[k].roll = accounts[k].roll
              /\ accounts'[k].mnemonic = accounts[k].mnemonic /\ ~accounts'[k].funded
<1>0. accounts \in Lists(Known) /\ \A k \in DOMAIN accounts : accounts[k] \in Account
  BY ListElements DEF Types, AccountTypes
<1>1. /\ accounts' = [k \in DOMAIN accounts |-> [accounts[k] EXCEPT !.funded = FALSE]]
      /\ stored' = accounts' /\ UNCHANGED <<minted, verified, deleted>>
  BY DEF ResetFunding
<1>2. /\ accounts' = [k \in DOMAIN accounts |-> accounts'[k]]
      /\ \A k \in DOMAIN accounts : accounts'[k] = [accounts[k] EXCEPT !.funded = FALSE]
  BY <1>1
<1>3. ASSUME NEW k \in DOMAIN accounts
      PROVE  /\ accounts'[k] \in Account /\ accounts'[k].roll = accounts[k].roll
             /\ accounts'[k].mnemonic = accounts[k].mnemonic /\ ~accounts'[k].funded
  <2>1. accounts[k] \in Account /\ accounts'[k] = [accounts[k] EXCEPT !.funded = FALSE]
    BY <1>0, <1>2
  <2>2. QED
    BY <2>1 DEF Account
<1>4. accounts' \in Lists(Known)
  BY <1>0, <1>2, <1>3, Relisted
<1>5. QED
  BY <1>1, <1>3, <1>4

LEMMA AccountTypesStep ==
  ASSUME Types, [Next]_vars
  PROVE  AccountTypes'
<1>0. /\ Lists(Known) \subseteq Lists(Known') /\ << >> \in Lists(Known')
      /\ accounts \in Lists(Known) /\ stored \in Lists(Known) /\ minted \in 0..MaxMnemonics
  BY KnownGrows, MoreVoters DEF Types, AccountTypes
<1>1. CASE UNCHANGED <<accounts, stored, minted>>
  BY <1>0, <1>1 DEF AccountTypes
<1>2. CASE Arrives
  BY <1>2, ArrivesTyped DEF Arrives
<1>3. CASE IncludeTransfer
  <2>1. accounts' \in Lists(Known) /\ UNCHANGED <<stored, minted>>
    <3>1. accounts' = accounts \/ \E ok \in BOOLEAN : accounts' = Marked(fund.i, ok)
      BY <1>3 DEF IncludeTransfer
    <3>2. QED
      BY <1>0, <1>3, <3>1, MarkedAccounts DEF IncludeTransfer
  <2>2. QED
    BY <1>0, <2>1 DEF AccountTypes
<1>4. CASE FundDone \/ Refresh \/ Reload
  BY <1>0, <1>4 DEF FundDone, Refresh, Reload, AccountTypes
<1>5. CASE ResetFunding
  <2>1. accounts' \in Lists(Known) /\ stored' = accounts' /\ minted' = minted
    BY <1>5, ResetAccounts
  <2>2. QED
    BY <1>0, <2>1 DEF AccountTypes
<1>6. QED
  BY <1>1, <1>2, <1>3, <1>4, <1>5, WhatChanges

(* What is left of a list of requests without one of them.                 *)
LEMMA RemovedAt ==
  ASSUME NEW S, NEW s \in Seq(S), NEW i \in DOMAIN s
  PROVE  /\ RemoveAt(s, i) \in Seq(S)
         /\ Len(s) \in Nat /\ DOMAIN s = 1..Len(s) /\ DOMAIN RemoveAt(s, i) = 1..(Len(s) - 1)
         /\ \A j \in 1..(Len(s) - 1) : RemoveAt(s, i)[j] = s[IF j < i THEN j ELSE j + 1]
<1> DEFINE t == SubSeq(s, 1, i - 1)
           u == SubSeq(s, i + 1, Len(s))
<1>1. i \in 1..Len(s) /\ Len(s) \in Nat /\ DOMAIN s = 1..Len(s)
  OBVIOUS
<1>2. t \in Seq(S) /\ Len(t) = i - 1 /\ \A j \in 1..Len(t) : t[j] = s[j]
  BY <1>1
<1>3. u \in Seq(S) /\ Len(u) = Len(s) - i /\ \A j \in 1..Len(u) : u[j] = s[i + j]
  BY <1>1
<1> HIDE DEF t, u
<1>4. /\ t \o u \in Seq(S) /\ Len(t \o u) = Len(t) + Len(u)
      /\ \A j \in 1..(Len(t) + Len(u)) : (t \o u)[j] = IF j <= Len(t) THEN t[j] ELSE u[j - Len(t)]
  BY <1>2, <1>3, ConcatProperties
<1>5. DOMAIN (t \o u) = 1..Len(t \o u)
  BY <1>4, LenProperties
<1>6. Len(t) + Len(u) = Len(s) - 1
  BY <1>1, <1>2, <1>3
<1>7. ASSUME NEW j \in 1..(Len(s) - 1)
      PROVE  (t \o u)[j] = s[IF j < i THEN j ELSE j + 1]
  <2>1. (t \o u)[j] = IF j <= Len(t) THEN t[j] ELSE u[j - Len(t)]
    BY <1>4, <1>6
  <2>2. CASE j < i
    <3>1. j \in 1..Len(t) /\ j <= Len(t)
      BY <1>1, <1>2, <2>2
    <3>2. QED
      BY <1>2, <2>1, <2>2, <3>1
  <2>3. CASE ~ (j < i)
    <3>1. ~ (j <= Len(t)) /\ j - Len(t) \in 1..Len(u) /\ i + (j - Len(t)) = j + 1
      BY <1>1, <1>2, <1>3, <2>3
    <3>2. QED
      BY <1>3, <2>1, <2>3, <3>1
  <2>4. QED
    BY <2>2, <2>3
<1>8. RemoveAt(s, i) = t \o u
  BY Zenon DEF RemoveAt, t, u
<1>9. /\ RemoveAt(s, i) \in Seq(S) /\ DOMAIN RemoveAt(s, i) = 1..(Len(s) - 1)
      /\ \A j \in 1..(Len(s) - 1) : RemoveAt(s, i)[j] = s[IF j < i THEN j ELSE j + 1]
  BY Zenon, <1>4, <1>5, <1>6, <1>7, <1>8
<1>10. QED
  BY <1>1, <1>9

LEMMA MoreRequests ==
  ASSUME NEW voters, NEW more, voters \subseteq more
  PROVE  Requests(voters) \subseteq Requests(more)
<1>1. Seq(voters) \subseteq Seq(more)
  BY SeqMonotonic
<1>2. QED
  BY <1>1 DEF Requests

LEMMA AskedRequest ==
  ASSUME NEW origin \in {"load", "refresh", "start"}, NEW voters
  PROVE  [origin |-> origin, pc |-> "asked", list |-> << >>] \in Requests(voters)
<1>1. << >> \in Seq(voters) /\ NoRepeats(<< >>)
  BY EmptySeq DEF NoRepeats
<1>2. QED
  BY <1>1 DEF Requests

(* An answer names every verified voter, each of them once.                *)
LEMMA AnsweredRequest ==
  ASSUME Types, NEW f \in DOMAIN fetches, NEW list \in SetToSeqs(verified)
  PROVE  /\ list \in Seq(Known) /\ NoRepeats(list)
         /\ [fetches[f] EXCEPT !.pc = "read", !.list = list] \in Requests(Known)
<1>1. IsFiniteSet(verified) /\ Cardinality(verified) \in Nat
  BY FundingConstants, FS_Subset, FS_CardinalityType DEF Types
<1>2. list \in [1..Cardinality(verified) -> verified] /\ NoRepeats(list)
  BY DEF SetToSeqs, NoRepeats
<1>3. list \in Seq(Known)
  <2>1. list \in Seq(verified)
    BY <1>1, <1>2, SeqDef
  <2>2. QED
    BY <2>1, KnownRolls, SeqMonotonic
<1>4. fetches[f] \in Requests(Known)
  BY ElementOfSeq DEF Types, FetchTypes
<1>5. QED
  BY <1>2, <1>3, <1>4 DEF Requests

(* Each request under way was so before, or is new, or has just been       *)
(* answered.                                                               *)
LEMMA RequestsStep ==
  ASSUME Types, [Next]_vars
  PROVE  /\ FetchTypes'
         /\ \A g \in DOMAIN fetches' :
              \/ \E f \in DOMAIN fetches : fetches'[g] = fetches[f]
              \/ fetches'[g].pc = "asked"
              \/ /\ UNCHANGED <<verified, deleted, accounts, stored>>
                 /\ fetches'[g].list \in SetToSeqs(verified)
<1> DEFINE Good == Requests(Known)
<1>0. /\ fetches \in Seq(Good) /\ Len(fetches) \in Nat /\ DOMAIN fetches = 1..Len(fetches)
      /\ Good \subseteq Requests(Known')
  BY KnownGrows, MoreRequests, LenProperties DEF Types, FetchTypes
<1>1. CASE UNCHANGED fetches
  BY <1>0, <1>1, SeqMonotonic DEF FetchTypes
<1>2. ASSUME NEW origin \in {"load", "refresh", "start"}, fetches' = Ask(origin)
      PROVE  /\ fetches' \in Seq(Good)
             /\ \A g \in DOMAIN fetches' :
                  (\E f \in DOMAIN fetches : fetches'[g] = fetches[f]) \/ fetches'[g].pc = "asked"
  <2> DEFINE ask == [origin |-> origin, pc |-> "asked", list |-> << >>]
  <2>1. ask \in Good /\ ask.pc = "asked" /\ fetches' = Append(fetches, ask)
    BY <1>2, AskedRequest DEF Ask
  <2> HIDE DEF Good, ask
  <2>2. /\ fetches' \in Seq(Good) /\ Len(fetches') = Len(fetches) + 1
        /\ \A i \in 1..Len(fetches) : fetches'[i] = fetches[i]
        /\ fetches'[Len(fetches) + 1] = ask
    BY <1>0, <2>1, AppendProperties
  <2>3. DOMAIN fetches' = 1..(Len(fetches) + 1)
    BY <2>2, LenProperties
  <2>4. ASSUME NEW g \in DOMAIN fetches'
        PROVE  (\E f \in DOMAIN fetches : fetches'[g] = fetches[f]) \/ fetches'[g].pc = "asked"
    <3>1. g \in 1..Len(fetches) \/ g = Len(fetches) + 1
      BY <1>0, <2>3
    <3>2. QED
      BY <1>0, <2>1, <2>2, <3>1
  <2>5. QED
    BY <2>2, <2>4
<1>3. CASE Reads
  <2>1. PICK f \in DOMAIN fetches : ReadVoters(f)
    BY <1>3 DEF Reads
  <2>2. PICK list \in SetToSeqs(verified) :
          fetches' = [fetches EXCEPT ![f].pc = "read", ![f].list = list]
    BY <2>1 DEF ReadVoters
  <2> DEFINE answer == [fetches[f] EXCEPT !.pc = "read", !.list = list]
  <2>3. answer \in Good /\ fetches' = [fetches EXCEPT ![f] = answer]
    BY <1>0, <2>2, AnsweredRequest
  <2>4. answer.list = list
    BY <2>3, ElementOfSeq, <1>0 DEF Requests
  <2> HIDE DEF Good, answer
  <2>5. /\ fetches' \in Seq(Good) /\ Len(fetches') = Len(fetches)
        /\ \A g \in 1..Len(fetches) : fetches'[g] = IF g = f THEN answer ELSE fetches[g]
    BY <1>0, <2>3, ExceptSeq
  <2>6. DOMAIN fetches' = 1..Len(fetches) /\ UNCHANGED <<verified, deleted, accounts, stored>>
    BY <2>1, <2>5, LenProperties DEF ReadVoters
  <2>7. QED
    BY <1>0, <2>4, <2>5, <2>6, SeqMonotonic DEF FetchTypes, Good
<1>4. CASE Arrives \/ Fails
  <2>1. PICK f \in DOMAIN fetches : fetches' = RemoveAt(fetches, f)
    BY <1>4 DEF Arrives, Arrive, Fails, FetchFails
  <2> HIDE DEF Good
  <2>2. /\ fetches' \in Seq(Good) /\ DOMAIN fetches' = 1..(Len(fetches) - 1)
        /\ \A g \in DOMAIN fetches' : fetches'[g] = fetches[IF g < f THEN g ELSE g + 1]
    BY <1>0, <2>1, RemovedAt
  <2>3. \A g \in DOMAIN fetches' : (IF g < f THEN g ELSE g + 1) \in DOMAIN fetches
    BY <1>0, <2>2
  <2>4. \A g \in DOMAIN fetches' : \E e \in DOMAIN fetches : fetches'[g] = fetches[e]
    BY <2>2, <2>3
  <2>5. QED
    BY <1>0, <2>2, <2>4, SeqMonotonic DEF FetchTypes
<1>5. CASE Refresh \/ StartPosted
  <2>1. UNCHANGED fetches \/ \E origin \in {"load", "refresh", "start"} : fetches' = Ask(origin)
    BY <1>5 DEF Refresh, StartPosted
  <2> HIDE DEF Good
  <2>2. QED
    BY <1>0, <1>1, <1>2, <2>1, SeqMonotonic DEF FetchTypes
<1>6. CASE Reload
  <2> DEFINE ask == [origin |-> "load", pc |-> "asked", list |-> << >>]
  <2>1. fetches' = <<ask>> /\ ask.pc = "asked"
    BY <1>6 DEF Reload
  <2>2. ask \in Requests(Known')
    BY AskedRequest
  <2> HIDE DEF ask
  <2>3. DOMAIN fetches' = {1} /\ fetches'[1] = ask /\ fetches' \in Seq(Requests(Known'))
    BY <2>1, <2>2
  <2>4. QED
    BY <2>1, <2>3 DEF FetchTypes
<1>7. QED
  BY <1>1, <1>3, <1>4, <1>5, <1>6, WhatChanges

-----------------------------------------------------------------------------
(* What becomes of the pool.                                               *)
Transfers == [mnemonic : 1..MaxMnemonics, watched : BOOLEAN]

LEMMA PoolFields ==
  ASSUME Types
  PROVE  /\ pool \in Seq(Transfers) /\ Len(pool) \in Nat /\ DOMAIN pool = 1..Len(pool)
         /\ \A n \in DOMAIN pool : pool[n] \in Transfers
<1>1. pool \in Seq(Transfers)
  BY DEF Types, FundTypes, Transfers
<1>2. QED
  BY <1>1, LenProperties, ElementOfSeq

LEMMA PoolLeft ==
  ASSUME Types, IncludeTransfer \/ DropTransfer
  PROVE  /\ pool # << >> /\ Head(pool) = pool[1] /\ 1 \in DOMAIN pool
         /\ pool' \in Seq(Transfers)
         /\ \A n \in DOMAIN pool' : n + 1 \in DOMAIN pool /\ pool'[n] = pool[n + 1]
<1>0. /\ pool \in Seq(Transfers) /\ Len(pool) \in Nat /\ DOMAIN pool = 1..Len(pool)
  BY PoolFields
<1>1. pool # << >> /\ pool' = Tail(pool)
  BY DEF IncludeTransfer, DropTransfer
<1>2. Len(pool) > 0
  BY <1>0, <1>1, EmptySeq
<1>3. /\ pool' \in Seq(Transfers) /\ Len(pool') = Len(pool) - 1
      /\ \A n \in 1..Len(pool') : pool'[n] = pool[n + 1]
  BY <1>0, <1>1, HeadTailProperties
<1>4. DOMAIN pool' = 1..(Len(pool) - 1) /\ Head(pool) = pool[1]
  BY <1>0, <1>1, <1>3, LenProperties
<1>5. QED
  BY <1>0, <1>1, <1>2, <1>3, <1>4

LEMMA FundNextEffect ==
  ASSUME Types, FundNext
  PROVE  \E k \in UnfundedFrom(fund.list, fund.i) :
           /\ k \in DOMAIN fund.list /\ ~fund.list[k].funded /\ k \in Nat /\ k >= fund.i
           /\ fund.pc = "next" /\ fund' = [fund EXCEPT !.pc = "waiting", !.i = k]
           /\ fund'.pc = "waiting" /\ fund'.list = fund.list /\ fund'.i = k
           /\ UNCHANGED <<accounts, stored, minted, paid, upsets, verified, deleted>>
           /\ pool' \in Seq(Transfers) /\ DOMAIN pool' = 1..(Len(pool) + 1)
           /\ \A n \in DOMAIN pool : pool'[n] = pool[n]
           /\ pool'[Len(pool) + 1] = [mnemonic |-> fund.list[k].mnemonic, watched |-> TRUE]
<1>0. /\ pool \in Seq(Transfers) /\ Len(pool) \in Nat /\ DOMAIN pool = 1..Len(pool)
  BY PoolFields
<1>1. PICK k \in UnfundedFrom(fund.list, fund.i) :
        /\ fund' = [fund EXCEPT !.pc = "waiting", !.i = k]
        /\ pool' = Append(pool, [mnemonic |-> fund.list[k].mnemonic, watched |-> TRUE])
  BY DEF FundNext
<1>2. /\ fund.pc = "next"
      /\ UNCHANGED <<accounts, stored, minted, paid, upsets, verified, deleted>>
  BY DEF FundNext, history
<1>3. /\ k \in DOMAIN fund.list /\ ~fund.list[k].funded /\ k >= fund.i
  BY <1>1 DEF UnfundedFrom
<1>4. fund.list \in Lists(Known)
  BY DEF Types, FundTypes
<1>5. k \in Nat /\ fund.list[k] \in Account
  BY <1>3, <1>4, ListElements
<1>6. fund'.pc = "waiting" /\ fund'.list = fund.list /\ fund'.i = k
  BY <1>1 DEF Types, FundTypes
<1> DEFINE sent == [mnemonic |-> fund.list[k].mnemonic, watched |-> TRUE]
<1>7. sent \in Transfers
  BY <1>5 DEF Account, Transfers
<1>8. pool' = Append(pool, sent)
  BY <1>1
<1> HIDE DEF sent
<1>9. /\ pool' \in Seq(Transfers) /\ Len(pool') = Len(pool) + 1
      /\ \A n \in 1..Len(pool) : pool'[n] = pool[n] /\ pool'[Len(pool) + 1] = sent
  BY <1>0, <1>7, <1>8, AppendProperties
<1>10. DOMAIN pool' = 1..(Len(pool) + 1) /\ pool'[Len(pool) + 1] = sent
  BY <1>0, <1>7, <1>8, <1>9, LenProperties, AppendProperties
<1>11. QED
  BY <1>0, <1>1, <1>2, <1>3, <1>5, <1>6, <1>9, <1>10 DEF sent

LEMMA ReloadEffect ==
  ASSUME Types, Reload
  PROVE  /\ pool' \in Seq(Transfers) /\ DOMAIN pool' = DOMAIN pool
         /\ \A n \in DOMAIN pool : pool'[n].mnemonic = pool[n].mnemonic /\ ~pool'[n].watched
         /\ fund' = NotFunding /\ accounts' = << >>
         /\ UNCHANGED <<verified, deleted, stored, minted, paid, active, mailed>>
<1>0. /\ pool \in Seq(Transfers) /\ Len(pool) \in Nat /\ DOMAIN pool = 1..Len(pool)
      /\ \A n \in DOMAIN pool : pool[n] \in Transfers
  BY PoolFields
<1>1. /\ pool' = [n \in DOMAIN pool |-> [pool[n] EXCEPT !.watched = FALSE]]
      /\ fund' = NotFunding /\ accounts' = << >>
      /\ UNCHANGED <<verified, deleted, stored, minted, paid, active, mailed>>
  BY DEF Reload
<1>2. \A n \in DOMAIN pool :
        /\ pool'[n] \in Transfers
        /\ pool'[n].mnemonic = pool[n].mnemonic /\ ~pool'[n].watched
  BY <1>0, <1>1 DEF Transfers
<1>3. pool' \in [1..Len(pool) -> Transfers]
  BY <1>0, <1>1, <1>2
<1>4. pool' \in Seq(Transfers)
  BY <1>0, <1>3, SeqDef
<1>5. QED
  BY <1>0, <1>1, <1>2, <1>3, <1>4

(* A block includes a transfer, which succeeds or not.                     *)
LEMMA IncludeEffect ==
  ASSUME Types, IncludeTransfer
  PROVE  \E ok \in BOOLEAN :
           /\ paid' = IF ok THEN [paid EXCEPT ![pool[1].mnemonic] = IF @ = 0 THEN 1 ELSE 2]
                            ELSE paid
           /\ pool[1].mnemonic \in 1..MaxMnemonics /\ paid' \in [1..MaxMnemonics -> 0..2]
           /\ \A m \in 1..MaxMnemonics : m # pool[1].mnemonic \/ ~ok => paid'[m] = paid[m]
           /\ ok /\ paid[pool[1].mnemonic] = 0 => paid'[pool[1].mnemonic] = 1
           /\ ok => paid'[pool[1].mnemonic] > 0
           /\ pool[1].watched =>
                /\ accounts' = Marked(fund.i, ok)
                /\ fund' = [fund EXCEPT !.pc = "next", !.i = fund.i + 1]
                /\ fund'.pc = "next" /\ fund'.i = fund.i + 1 /\ fund'.list = fund.list
           /\ ~pool[1].watched => UNCHANGED <<accounts, fund>>
           /\ UNCHANGED <<verified, deleted, stored, minted, upsets>>
<1>0. /\ Head(pool) = pool[1] /\ pool[1] \in Transfers
      /\ paid \in [1..MaxMnemonics -> 0..2]
  BY PoolLeft, PoolFields DEF Types
<1>1. pool[1].mnemonic \in 1..MaxMnemonics /\ pool[1].watched \in BOOLEAN
  BY <1>0 DEF Transfers
<1>2. PICK ok \in BOOLEAN :
        /\ paid' = IF ok THEN [paid EXCEPT ![pool[1].mnemonic] = IF @ = 0 THEN 1 ELSE 2]
                         ELSE paid
        /\ IF pool[1].watched
             THEN /\ accounts' = Marked(fund.i, ok)
                  /\ fund' = [fund EXCEPT !.pc = "next", !.i = fund.i + 1]
             ELSE UNCHANGED <<accounts, fund>>
  BY <1>0 DEF IncludeTransfer
<1>3. /\ paid' \in [1..MaxMnemonics -> 0..2]
      /\ \A m \in 1..MaxMnemonics : m # pool[1].mnemonic \/ ~ok => paid'[m] = paid[m]
      /\ ok /\ paid[pool[1].mnemonic] = 0 => paid'[pool[1].mnemonic] = 1
      /\ ok => paid'[pool[1].mnemonic] > 0
  BY <1>0, <1>1, <1>2
<1>4. ASSUME pool[1].watched
      PROVE  fund'.pc = "next" /\ fund'.i = fund.i + 1 /\ fund'.list = fund.list
  BY <1>2, <1>4 DEF Types, FundTypes
<1>5. UNCHANGED <<verified, deleted, stored, minted, upsets>>
  BY DEF IncludeTransfer, history
<1>6. QED
  BY <1>1, <1>2, <1>3, <1>4, <1>5

LEMMA FundTypesStep ==
  ASSUME Types, [Next]_vars
  PROVE  FundTypes'
<1>0. /\ Lists(Known) \subseteq Lists(Known') /\ << >> \in Lists(Known')
      /\ accounts \in Lists(Known)
      /\ fund \in [pc : {"idle", "next", "waiting"}, list : Lists(Known), i : Nat]
      /\ fund.pc = "waiting" => fund.i \in DOMAIN fund.list
      /\ pool \in Seq(Transfers)
  BY KnownGrows, MoreVoters, PoolFields DEF Types, AccountTypes, FundTypes
<1>1. CASE UNCHANGED <<fund, pool>>
  BY <1>0, <1>1 DEF FundTypes, Transfers
<1>2. CASE FundClick
  BY <1>0, <1>2 DEF FundClick, FundTypes, Transfers
<1>3. CASE FundNext
  <2>1. PICK k \in UnfundedFrom(fund.list, fund.i) :
          /\ k \in DOMAIN fund.list /\ k \in Nat
          /\ fund' = [fund EXCEPT !.pc = "waiting", !.i = k]
          /\ pool' \in Seq(Transfers)
    BY <1>3, FundNextEffect
  <2>2. fund' \in [pc : {"idle", "next", "waiting"}, list : Lists(Known'), i : Nat]
        /\ fund'.i = k /\ fund'.list = fund.list
    BY <1>0, <2>1
  <2>3. QED
    BY <2>1, <2>2 DEF FundTypes, Transfers
<1>4. CASE IncludeTransfer
  <2>1. fund' = fund \/ (fund' = [fund EXCEPT !.pc = "next", !.i = fund.i + 1])
    BY <1>4, IncludeEffect
  <2>2. /\ fund' \in [pc : {"idle", "next", "waiting"}, list : Lists(Known'), i : Nat]
        /\ fund'.pc = "waiting" => fund'.i \in DOMAIN fund'.list
    <3>1. CASE fund' = fund
      BY <1>0, <3>1
    <3>2. CASE fund' = [fund EXCEPT !.pc = "next", !.i = fund.i + 1]
      <4>1. fund.i + 1 \in Nat /\ fund.list \in Lists(Known')
        BY <1>0
      <4>2. fund'.pc = "next" /\ fund' = [pc |-> "next", list |-> fund.list, i |-> fund.i + 1]
        BY <1>0, <3>2
      <4>3. QED
        BY <4>1, <4>2
    <3>3. QED
      BY <2>1, <3>1, <3>2
  <2>3. QED
    BY <1>4, <2>2, PoolLeft DEF FundTypes, Transfers
<1>5. CASE DropTransfer
  BY <1>0, <1>5, PoolLeft DEF DropTransfer, FundTypes, Transfers
<1>6. CASE FundDone
  BY <1>0, <1>6 DEF FundDone, NotFunding, FundTypes, Transfers
<1>7. CASE Reload
  BY <1>0, <1>7, ReloadEffect DEF NotFunding, FundTypes, Transfers
<1>8. QED
  BY <1>1, <1>2, <1>3, <1>4, <1>5, <1>6, <1>7, WhatChanges

LEMMA StartTypesStep ==
  ASSUME Types, [Next]_vars
  PROVE  StartTypes'
<1>0. /\ Lists(Known) \subseteq Lists(Known') /\ << >> \in Lists(Known')
      /\ accounts \in Lists(Known) /\ AccountTypes'
      /\ start \in [pc : {"idle", "posting", "listing", "mailing"}, list : Lists(Known),
                    todo : SUBSET Nat]
      /\ start.todo \subseteq DOMAIN start.list /\ (start.todo # {} => start.pc = "mailing")
  BY KnownGrows, MoreVoters, AccountTypesStep DEF Types, AccountTypes, StartTypes
<1>1. \A list \in Lists(Known') : DOMAIN list \subseteq Nat
  BY ListElements
<1>2. active' \in BOOLEAN
  <2>1. active \in BOOLEAN
    BY DEF Types, StartTypes
  <2>2. StartPosted \/ LateStart \/ End => active' \in BOOLEAN
    BY <2>1 DEF StartPosted, LateStart, Started, End
  <2>3. QED
    BY <2>1, <2>2, WhatChanges
<1>3. ASSUME start'.pc \in {"idle", "posting", "listing", "mailing"},
             start'.list \in Lists(Known'), start'.todo \in SUBSET Nat,
             start' = [pc |-> start'.pc, list |-> start'.list, todo |-> start'.todo],
             start'.todo \subseteq DOMAIN start'.list, start'.todo # {} => start'.pc = "mailing"
      PROVE  StartTypes'
  BY <1>2, <1>3 DEF StartTypes
<1>4. CASE UNCHANGED start
  BY <1>0, <1>2, <1>4 DEF StartTypes
<1>5. CASE Arrives
  <2>1. \/ start' = start
        \/ start' = [pc |-> IF accounts' = << >> THEN "idle" ELSE "mailing",
                     list |-> accounts', todo |-> DOMAIN accounts']
    BY <1>5 DEF Arrives, Arrive
  <2>2. accounts' \in Lists(Known') /\ (accounts' = << >> => DOMAIN accounts' = {})
    BY <1>0 DEF AccountTypes
  <2>3. CASE start' = [pc |-> IF accounts' = << >> THEN "idle" ELSE "mailing",
                       list |-> accounts', todo |-> DOMAIN accounts']
    BY <1>1, <1>3, <2>2, <2>3
  <2>4. QED
    BY <1>4, <2>1, <2>3
<1>6. CASE Fails \/ Reload
  <2>1. start' = start \/ start' = NotStarting
    BY <1>6 DEF Fails, FetchFails, Reload
  <2>2. QED
    BY <1>0, <1>3, <1>4, <2>1 DEF NotStarting
<1>7. CASE StartClick
  BY <1>0, <1>3, <1>7 DEF StartClick
<1>8. CASE StartPosted
  <2>1. /\ start.pc = "posting"
        /\ \/ start' = [start EXCEPT !.pc = "listing"]
           \/ start' = [start EXCEPT !.pc = "mailing", !.todo = DOMAIN start.list]
           \/ start' = NotStarting
    BY <1>8 DEF StartPosted
  <2>2. start.list \in Lists(Known') /\ start.todo = {}
    BY <1>0, <2>1
  <2>3. CASE start' = [start EXCEPT !.pc = "listing"]
    <3>1. start' = [pc |-> "listing", list |-> start.list, todo |-> start.todo]
      BY <1>0, <2>3
    <3>2. QED
      BY <1>3, <2>2, <3>1
  <2>4. CASE start' = [start EXCEPT !.pc = "mailing", !.todo = DOMAIN start.list]
    <3>1. start' = [pc |-> "mailing", list |-> start.list, todo |-> DOMAIN start.list]
      BY <1>0, <2>4
    <3>2. QED
      BY <1>1, <1>3, <2>2, <3>1
  <2>5. CASE start' = NotStarting
    BY <1>0, <1>3, <2>5 DEF NotStarting
  <2>6. QED
    BY <2>1, <2>3, <2>4, <2>5
<1>9. CASE Sends
  <2>1. PICK k \in start.todo :
          /\ start.pc = "mailing"
          /\ start' = NotStarting \/ start' = [start EXCEPT !.todo = @ \ {k}]
    BY <1>9 DEF Sends, SendCredentials
  <2>2. CASE start' = NotStarting
    BY <1>0, <1>3, <2>2 DEF NotStarting
  <2>3. CASE start' = [start EXCEPT !.todo = @ \ {k}]
    <3>1. start' = [pc |-> "mailing", list |-> start.list, todo |-> start.todo \ {k}]
      BY <1>0, <2>1, <2>3
    <3>2. QED
      BY <1>0, <1>3, <3>1
  <2>4. QED
    BY <2>1, <2>2, <2>3
<1>10. QED
  BY <1>4, <1>5, <1>6, <1>7, <1>8, <1>9, WhatChanges

(* A POST that no dashboard waits for was sent by a start of its own.      *)
LEMMA LateTypesStep ==
  ASSUME Types, [Next]_vars
  PROVE  LateTypes'
<1>0. /\ latePosts \in Nat /\ starts \in 0..MaxStarts /\ latePosts <= starts
      /\ start.pc = "posting" => latePosts < starts
      /\ MaxStarts \in Nat
  BY FundingConstants DEF Types, LateTypes
<1>1. CASE StartClick
  <2>1. starts' = starts + 1 /\ starts < MaxStarts
    BY <1>1 DEF StartClick
  <2>2. latePosts' = latePosts
    BY <1>1 DEF StartClick, late
  <2>3. QED
    BY <1>0, <2>1, <2>2 DEF LateTypes
<1>2. CASE StartPosted
  <2>1. start.pc = "posting" /\ latePosts' \in {latePosts, latePosts + 1} /\ starts' = starts
    BY <1>2 DEF StartPosted
  <2>2. start'.pc # "posting"
    <3>1. start \in [pc : {"idle", "posting", "listing", "mailing"}, list : Lists(Known),
                     todo : SUBSET Nat]
      BY DEF Types, StartTypes
    <3>2. \/ start' = [start EXCEPT !.pc = "listing"] \/ start' = NotStarting
          \/ start' = [start EXCEPT !.pc = "mailing", !.todo = DOMAIN start.list]
      BY <1>2 DEF StartPosted
    <3>3. /\ [start EXCEPT !.pc = "listing"].pc = "listing" /\ NotStarting.pc = "idle"
          /\ [start EXCEPT !.pc = "mailing", !.todo = DOMAIN start.list].pc = "mailing"
      BY <3>1 DEF NotStarting
    <3>4. QED
      BY <3>2, <3>3
  <2>3. QED
    BY <1>0, <2>1, <2>2 DEF LateTypes
<1>3. CASE Reload
  <2>1. latePosts' \in {latePosts} \cup {n \in {latePosts + 1} : start.pc = "posting"}
        /\ starts' = starts /\ start' = NotStarting
    BY <1>3 DEF Reload
  <2>2. start'.pc # "posting"
    BY <2>1 DEF NotStarting
  <2>3. QED
    BY <1>0, <2>1, <2>2 DEF LateTypes
<1>4. CASE LateStart
  <2>1. latePosts > 0 /\ latePosts' = latePosts - 1 /\ UNCHANGED <<start, starts>>
    BY <1>4 DEF LateStart
  <2>2. QED
    BY <1>0, <2>1 DEF LateTypes
<1>5. CASE Arrives \/ Fails \/ Sends
  <2>1. UNCHANGED <<latePosts, starts>>
    BY <1>5 DEF Arrives, Arrive, Fails, FetchFails, Sends, SendCredentials, late
  <2>2. start'.pc = "posting" => start.pc = "posting"
    <3>1. start \in [pc : {"idle", "posting", "listing", "mailing"}, list : Lists(Known),
                     todo : SUBSET Nat]
      BY DEF Types, StartTypes
    <3>2. QED
      BY <1>5, <3>1 DEF Arrives, Arrive, Fails, FetchFails, Sends, SendCredentials, NotStarting
  <2>3. QED
    BY <1>0, <2>1, <2>2 DEF LateTypes
<1>6. CASE UNCHANGED <<start, latePosts, starts>>
  BY <1>0, <1>6 DEF LateTypes
<1>7. QED
  BY <1>1, <1>2, <1>3, <1>4, <1>5, <1>6, WhatChanges

(* What mailing an account leaves in the voters' mailboxes.                *)
LEMMA MailedMails ==
  ASSUME Types, NEW acc \in Account, acc.roll \in Known
  PROVE  /\ DOMAIN Mailed(acc) = DOMAIN mailed \cup {acc.roll}
         /\ Mailed(acc) \in [DOMAIN Mailed(acc) -> Mail]
         /\ \A r \in DOMAIN Mailed(acc) :
              Mailed(acc)[r] = IF r = acc.roll
                                 THEN [mnemonic |-> acc.mnemonic, funded |-> acc.funded]
                                 ELSE mailed[r]
<1>1. mailed \in [DOMAIN mailed -> Mail]
  BY DEF Types, MailTypes
<1>2. [mnemonic |-> acc.mnemonic, funded |-> acc.funded] \in Mail
  BY DEF Account, Mail
<1>3. \A r \in DOMAIN mailed : mailed[r] \in Mail
  BY <1>1
<1>4. QED
  BY <1>2, <1>3 DEF Mailed

(* Whose account is mailed.                                                *)
LEMMA WhoIsMailed ==
  ASSUME Types, Sends \/ SendsLate
  PROVE  mailed' = mailed \/
         \E acc \in Account :
           /\ acc.roll \in Known /\ mailed' = Mailed(acc)
           /\ \/ /\ Sends /\ start.pc = "mailing"
                 /\ \E k \in DOMAIN start.list : acc = start.list[k]
              \/ SendsLate /\ acc \in mails
<1>1. CASE Sends
  <2>1. PICK k \in start.todo : start.pc = "mailing" /\ mailed' \in {mailed, Mailed(start.list[k])}
    BY <1>1 DEF Sends, SendCredentials
  <2>2. k \in DOMAIN start.list /\ start.list \in Lists(Known)
    BY DEF Types, StartTypes
  <2>3. start.list[k] \in Account /\ start.list[k].roll \in Known
    BY <2>2, ListElements
  <2>4. QED
    BY <1>1, <2>1, <2>2, <2>3
<1>2. CASE SendsLate
  <2>1. PICK acc \in mails : mailed' \in {mailed, Mailed(acc)}
    BY <1>2 DEF SendsLate, SendLate
  <2>2. acc \in Account /\ acc.roll \in Known
    BY DEF Types, MailTypes
  <2>3. QED
    BY <1>2, <2>1, <2>2
<1>3. QED
  BY <1>1, <1>2

(* Which mails are asked for.                                              *)
LEMMA AskedMails ==
  ASSUME Types, [Next]_vars, NEW acc \in mails', acc \notin mails
  PROVE  /\ acc \in Account /\ acc.roll \in Known
         /\ \/ EmailSelected /\ active /\ selected = <<acc>>
            \/ /\ Reload /\ start.pc = "mailing"
               /\ \E k \in DOMAIN start.list : acc = start.list[k]
<1>1. CASE EmailSelected
  <2>1. selected # << >> /\ active /\ mails' = mails \cup {selected[1]}
    BY <1>1 DEF EmailSelected, EmailButton
  <2>2. PICK a \in Account : a.roll \in Known /\ selected = <<a>>
    BY <2>1 DEF Types, MailTypes
  <2>3. QED
    BY <1>1, <2>1, <2>2
<1>2. CASE Reload
  <2>1. PICK k \in start.todo : acc = start.list[k]
    BY <1>2 DEF Reload
  <2>2. k \in DOMAIN start.list /\ start.list \in Lists(Known) /\ start.pc = "mailing"
    BY DEF Types, StartTypes
  <2>3. start.list[k] \in Account /\ start.list[k].roll \in Known
    BY <2>2, ListElements
  <2>4. QED
    BY <1>2, <2>1, <2>2, <2>3
<1>3. CASE SendsLate
  BY <1>3 DEF SendsLate, SendLate
<1>4. QED
  BY <1>1, <1>2, <1>3, WhatChanges

LEMMA MailTypesStep ==
  ASSUME Types, [Next]_vars
  PROVE  MailTypes'
<1>0. /\ Known \subseteq Known'
      /\ DOMAIN mailed \subseteq Known /\ mailed \in [DOMAIN mailed -> Mail]
      /\ selected = << >> \/ \E a \in Account : a.roll \in Known /\ selected = <<a>>
      /\ \A acc \in mails : acc \in Account /\ acc.roll \in Known
  BY KnownGrows DEF Types, MailTypes
<1>1. DOMAIN mailed' \subseteq Known /\ mailed' \in [DOMAIN mailed' -> Mail]
  <2>1. CASE UNCHANGED mailed
    BY <1>0, <2>1
  <2>2. CASE StartPosted \/ LateStart \/ End
    <3>1. mailed' = mailed \/ mailed' = NoMail
      BY <2>2 DEF StartPosted, LateStart, Started, End
    <3>2. DOMAIN NoMail = {} /\ NoMail \in [DOMAIN NoMail -> Mail]
      BY DEF NoMail
    <3>3. QED
      BY <1>0, <3>1, <3>2
  <2>3. CASE Sends \/ SendsLate
    <3>1. CASE mailed' = mailed
      BY <1>0, <3>1
    <3>2. ASSUME NEW acc \in Account, acc.roll \in Known, mailed' = Mailed(acc)
          PROVE  DOMAIN mailed' \subseteq Known /\ mailed' \in [DOMAIN mailed' -> Mail]
      <4>1. /\ DOMAIN Mailed(acc) = DOMAIN mailed \cup {acc.roll}
            /\ Mailed(acc) \in [DOMAIN Mailed(acc) -> Mail]
        BY <3>2, MailedMails
      <4>2. DOMAIN Mailed(acc) \subseteq Known
        BY <1>0, <3>2, <4>1
      <4>3. QED
        BY <3>2, <4>1, <4>2
    <3>3. QED
      BY <2>3, <3>1, <3>2, WhoIsMailed
  <2>4. QED
    BY <2>1, <2>2, <2>3, WhatChanges
<1>2. selected' = << >> \/ \E a \in Account : a.roll \in Known /\ selected' = <<a>>
  <2>1. CASE UNCHANGED selected
    BY <1>0, <2>1
  <2>2. CASE Opens
    <3>1. PICK k \in DOMAIN accounts : selected' = <<accounts[k]>>
      BY <2>2 DEF Opens, Select
    <3>2. accounts[k] \in Account /\ accounts[k].roll \in Known
      BY ListElements DEF Types, AccountTypes
    <3>3. QED
      BY <3>1, <3>2
  <2>3. CASE Deselect \/ Reload
    BY <2>3 DEF Deselect, Reload
  <2>4. QED
    BY <2>1, <2>2, <2>3, WhatChanges
<1>3. \A acc \in mails' : acc \in Account /\ acc.roll \in Known
  BY <1>0, AskedMails
<1>4. QED
  BY <1>0, <1>1, <1>2, <1>3 DEF MailTypes

LEMMA RestTypesStep ==
  ASSUME Types, [Next]_vars
  PROVE  /\ verified' \subseteq Rolls /\ deleted' \subseteq Rolls
         /\ paid' \in [1..MaxMnemonics -> 0..2] /\ loading' \in BOOLEAN
         /\ upsets' \subseteq {"replaced", "unflagged", "regenerated"}
<1> USE DEF vars, ui, history, Upset
<1>0. paid' \in [1..MaxMnemonics -> 0..2]
  BY IncludeEffect, WhatChanges DEF Types
<1>1. Arrives \/ Fails \/ Reads =>
        loading' \in BOOLEAN /\ upsets' \subseteq {"replaced", "unflagged", "regenerated"}
  BY DEF Types, Arrives, Fails, Reads, Arrive, FetchFails, ReadVoters
<1>2. ResetFunding \/ Refresh \/ StartClick \/ Reload =>
        loading' \in BOOLEAN /\ upsets' \subseteq {"replaced", "unflagged", "regenerated"}
  BY DEF Types, ResetFunding, Refresh, StartClick, Reload
<1>3. FundClick \/ FundNext \/ IncludeTransfer \/ DropTransfer \/ FundDone =>
        UNCHANGED <<loading, upsets>>
  BY DEF FundClick, FundNext, IncludeTransfer, DropTransfer, FundDone
<1>4. /\ Sends \/ Opens \/ EmailSelected \/ Deselect \/ End => UNCHANGED <<loading, upsets>>
      /\ StartPosted => loading' \in {loading, TRUE} /\ UNCHANGED upsets
  BY DEF Sends, Opens, SendCredentials, Select, EmailSelected, Deselect, End, StartPosted
<1>5. SendsLate \/ LateStart \/ Verifies \/ Deletes => UNCHANGED <<loading, upsets>>
  BY DEF SendsLate, SendLate, LateStart, Verifies, Verify, Deletes, StudentDelete
<1>6. verified' \subseteq Rolls /\ deleted' \subseteq Rolls
  BY KnownGrows DEF Known
<1>7. QED
  BY <1>0, <1>1, <1>2, <1>3, <1>4, <1>5, <1>6
     DEF Types, Next, Reads, Arrives, Fails, Sends, Opens, SendsLate, Verifies, Deletes

LEMMA TypesInit == Init => Types
<1> SUFFICES ASSUME Init PROVE Types
  OBVIOUS
<1>0. \A voters : << >> \in Lists(voters)
  BY MoreVoters
<1>1. /\ verified \subseteq Rolls /\ deleted \subseteq Rolls /\ paid \in [1..MaxMnemonics -> 0..2]
      /\ loading \in BOOLEAN /\ upsets \subseteq {"replaced", "unflagged", "regenerated"}
  BY DEF Init
<1>2. AccountTypes
  BY <1>0, FundingConstants DEF Init, AccountTypes
<1>3. FetchTypes
  <2> DEFINE ask == [origin |-> "load", pc |-> "asked", list |-> << >>]
  <2>1. ask \in Requests(Known) /\ fetches = <<ask>>
    BY AskedRequest DEF Init
  <2> HIDE DEF ask
  <2>2. QED
    BY <2>1 DEF FetchTypes
<1>4. FundTypes
  BY <1>0 DEF Init, NotFunding, FundTypes
<1>5. StartTypes
  BY <1>0 DEF Init, NotStarting, StartTypes
<1>6. MailTypes /\ LateTypes
  BY FundingConstants DEF Init, NoMail, NotStarting, MailTypes, LateTypes
<1>7. QED
  BY <1>1, <1>2, <1>3, <1>4, <1>5, <1>6 DEF Types

LEMMA TypesInvariant == Spec => []Types
<1>1. Types /\ [Next]_vars => Types'
  BY AccountTypesStep, RequestsStep, FundTypesStep, StartTypesStep, LateTypesStep,
     MailTypesStep, RestTypesStep DEF Types
<1>2. QED
  BY <1>1, TypesInit, PTL DEF Spec

(* Accounts, their copy, lists and mails are well typed, and a list names  *)
(* a voter once (fetchAndGenerateAccounts goes through the rows of         *)
(* get_verified_voters, and looks each roll up in localStorage).           *)
THEOREM FundingTypeCorrect == Spec => []TypeOK
<1>1. Types => TypeOK
  <2> SUFFICES ASSUME Types PROVE TypeOK
    OBVIOUS
  <2>1. \A list \in {accounts, stored, fund.list, start.list} : list \in Lists(Known)
    BY DEF Types, AccountTypes, FundTypes, StartTypes
  <2>2. \A list \in {accounts, stored, fund.list, start.list} :
          /\ list \in Seq(Account)
          /\ \A j, k \in DOMAIN list : list[j].roll = list[k].roll => j = k
    BY <2>1, ListElements
  <2>3. /\ \A r \in DOMAIN mailed : r \in verified \cup deleted /\ mailed[r] \in Mail
        /\ latePosts \in 0..MaxStarts /\ mails \subseteq Account
    BY FundingConstants DEF Types, MailTypes, LateTypes, Known
  <2>4. selected \in {<< >>} \cup {<<a>> : a \in Account}
    BY DEF Types, MailTypes
  <2>5. /\ fund.pc \in {"idle", "next", "waiting"}
        /\ start.pc \in {"idle", "posting", "listing", "mailing"}
        /\ start.todo \subseteq DOMAIN start.list /\ active \in BOOLEAN
    BY DEF Types, FundTypes, StartTypes
  <2>6. QED
    BY <2>2, <2>3, <2>4, <2>5 DEF Types, AccountTypes, TypeOK
<1>2. QED
  BY <1>1, TypesInvariant, PTL

-----------------------------------------------------------------------------
(* While the loop runs, its list and the dashboard's name the same         *)
(* accounts in the same order, and it waits for at most one transfer: the  *)
(* one to the account at its index.                                        *)
SameAccounts(a, b) ==
  /\ DOMAIN a = DOMAIN b
  /\ \A k \in DOMAIN a : a[k].roll = b[k].roll /\ a[k].mnemonic = b[k].mnemonic

AwaitsTransfer ==
  \A n \in DOMAIN pool : pool[n].watched =>
    /\ fund.pc = "waiting" /\ pool[n].mnemonic = fund.list[fund.i].mnemonic
    /\ \A m \in DOMAIN pool : pool[m].watched => m = n

InStep == "replaced" \notin upsets /\ fund.pc # "idle" => SameAccounts(fund.list, accounts)

LEMMA AwaitsStep ==
  ASSUME Types, AwaitsTransfer, [Next]_vars
  PROVE  AwaitsTransfer'
<1>0. /\ Len(pool) \in Nat /\ DOMAIN pool = 1..Len(pool)
      /\ fund.pc # "waiting" => \A n \in DOMAIN pool : ~pool[n].watched
  BY PoolFields DEF AwaitsTransfer
<1>1. CASE UNCHANGED <<fund, pool>>
  BY <1>1 DEF AwaitsTransfer
<1>2. CASE FundClick
  BY <1>0, <1>2 DEF FundClick, FundButton, AwaitsTransfer
<1>3. CASE FundNext
  <2>1. PICK k \in UnfundedFrom(fund.list, fund.i) :
          /\ fund.pc = "next" /\ fund'.pc = "waiting" /\ fund'.list = fund.list /\ fund'.i = k
          /\ DOMAIN pool' = 1..(Len(pool) + 1) /\ \A n \in DOMAIN pool : pool'[n] = pool[n]
          /\ pool'[Len(pool) + 1] = [mnemonic |-> fund.list[k].mnemonic, watched |-> TRUE]
    BY <1>3, FundNextEffect
  <2>2. \A n \in DOMAIN pool' : pool'[n].watched => n = Len(pool) + 1
    BY <1>0, <2>1
  <2>3. QED
    BY <2>1, <2>2 DEF AwaitsTransfer
<1>4. CASE IncludeTransfer \/ DropTransfer
  <2>1. /\ 1 \in DOMAIN pool
        /\ \A n \in DOMAIN pool' : n + 1 \in DOMAIN pool /\ pool'[n] = pool[n + 1]
    BY <1>4, PoolLeft
  <2>2. \A n \in DOMAIN pool' : n \in Nat /\ n > 0
    BY <1>4, PoolLeft, LenProperties
  <2>3. \A m, n \in DOMAIN pool' : pool'[m].watched /\ pool'[n].watched => m = n
    BY <2>1, <2>2 DEF AwaitsTransfer
  <2>4. ASSUME NEW n \in DOMAIN pool', pool'[n].watched
        PROVE  /\ fund' = fund /\ fund.pc = "waiting"
               /\ pool'[n].mnemonic = fund.list[fund.i].mnemonic
    <3>1. pool[n + 1].watched /\ n + 1 # 1 /\ n + 1 \in DOMAIN pool
      BY <2>1, <2>2, <2>4
    <3>2. ~pool[1].watched
      BY <2>1, <3>1 DEF AwaitsTransfer
    <3>3. fund' = fund
      BY <1>4, <3>2, IncludeEffect DEF DropTransfer
    <3>4. QED
      BY <2>1, <3>1, <3>3 DEF AwaitsTransfer
  <2>5. QED
    BY <2>3, <2>4 DEF AwaitsTransfer
<1>5. CASE FundDone
  BY <1>0, <1>5 DEF FundDone, AwaitsTransfer
<1>6. CASE Reload
  BY <1>6, ReloadEffect DEF AwaitsTransfer
<1>7. QED
  BY <1>1, <1>2, <1>3, <1>4, <1>5, <1>6, WhatChanges

(* A list that comes in while the loop runs is noted.                      *)
LEMMA ReplacedNoted ==
  ASSUME Arrives, "replaced" \notin upsets'
  PROVE  fund.pc = "idle" /\ UNCHANGED <<fund, pool, paid>>
  BY DEF Arrives, Arrive, Upset

LEMMA InStepStep ==
  ASSUME Types, AwaitsTransfer, InStep, [Next]_vars
  PROVE  InStep'
<1> SUFFICES ASSUME "replaced" \notin upsets', fund'.pc # "idle"
             PROVE  SameAccounts(fund'.list, accounts')
  BY DEF InStep, SameAccounts
<1>0. "replaced" \notin upsets
  BY UpsetsStay
<1>1. CASE UNCHANGED <<fund, accounts>>
  BY <1>0, <1>1 DEF InStep, SameAccounts
<1>2. CASE Arrives
  BY <1>2, ReplacedNoted
<1>3. CASE FundClick
  BY <1>3 DEF FundClick, SameAccounts
<1>4. CASE FundNext
  <2>1. fund.pc = "next" /\ fund'.list = fund.list /\ accounts' = accounts
    BY <1>4, FundNextEffect
  <2>2. QED
    BY <1>0, <2>1 DEF InStep, SameAccounts
<1>5. CASE IncludeTransfer
  <2>1. PICK ok \in BOOLEAN :
          /\ pool[1].watched => accounts' = Marked(fund.i, ok) /\ fund'.list = fund.list
          /\ ~pool[1].watched => UNCHANGED <<accounts, fund>>
    BY <1>5, IncludeEffect
  <2>2. CASE pool[1].watched
    <3>1. fund.pc = "waiting" /\ 1 \in DOMAIN pool
      BY <1>5, <2>2, PoolLeft DEF AwaitsTransfer
    <3>2. SameAccounts(fund.list, accounts)
      BY <1>0, <3>1 DEF InStep
    <3>3. QED
      BY <2>1, <2>2, <3>2, MarkedAccounts DEF SameAccounts
  <2>3. CASE ~pool[1].watched
    BY <1>0, <2>1, <2>3 DEF InStep, SameAccounts
  <2>4. QED
    BY <2>2, <2>3
<1>6. CASE ResetFunding
  <2>1. fund' = fund
    BY <1>6 DEF ResetFunding
  <2>2. QED
    BY <1>0, <1>6, <2>1, ResetAccounts DEF InStep, SameAccounts
<1>7. CASE FundDone \/ Reload
  BY <1>7 DEF FundDone, Reload, NotFunding
<1>8. CASE DropTransfer \/ Refresh
  BY <1>0, <1>8 DEF DropTransfer, Refresh, InStep, SameAccounts
<1>9. QED
  BY <1>1, <1>2, <1>3, <1>4, <1>5, <1>6, <1>7, <1>8, WhatChanges

(* What is paid stays paid.                                                *)
LEMMA PaidStays ==
  ASSUME Types, [Next]_vars, NEW m \in 1..MaxMnemonics, paid[m] > 0
  PROVE  paid'[m] > 0
<1>1. CASE IncludeTransfer
  <2>1. PICK ok \in BOOLEAN :
          /\ m # pool[1].mnemonic \/ ~ok => paid'[m] = paid[m]
          /\ ok => paid'[pool[1].mnemonic] > 0
    BY <1>1, IncludeEffect
  <2>2. QED
    BY <2>1
<1>2. QED
  BY <1>1, WhatChanges

(* Whatever is marked as funded is paid.                                   *)
MarksPaid(list, payments) ==
  \A k \in DOMAIN list : list[k].funded => payments[list[k].mnemonic] > 0

AllMarksPaid ==
  "replaced" \notin upsets =>
    /\ \A list \in {accounts, stored, start.list, selected} : MarksPaid(list, paid)
    /\ \A r \in DOMAIN mailed : mailed[r].funded => paid[mailed[r].mnemonic] > 0
    /\ \A acc \in mails : acc.funded => paid[acc.mnemonic] > 0

LEMMA MarksStay ==
  ASSUME Types, [Next]_vars, NEW list \in Seq(Account), MarksPaid(list, paid)
  PROVE  MarksPaid(list, paid')
<1>0. DOMAIN list = 1..Len(list) /\ \A k \in 1..Len(list) : list[k] \in Account
  BY LenProperties, ElementOfSeq
<1>1. \A k \in DOMAIN list : list[k].mnemonic \in 1..MaxMnemonics
  BY <1>0 DEF Account
<1>2. QED
  BY <1>1, PaidStays DEF MarksPaid

LEMMA SelectedAccount ==
  ASSUME Types
  PROVE  /\ selected \in Seq(Account) /\ DOMAIN selected \subseteq {1}
         /\ selected # << >> => selected[1] \in Account /\ 1 \in DOMAIN selected
<1>1. CASE selected = << >>
  BY <1>1, EmptySeq
<1>2. ASSUME NEW a \in Account, selected = <<a>>
      PROVE  selected \in Seq(Account) /\ DOMAIN selected = {1} /\ selected[1] = a
  BY <1>2
<1>3. QED
  BY <1>1, <1>2 DEF Types, MailTypes

LEMMA AllMarksPaidStep ==
  ASSUME Types, Types', AwaitsTransfer, InStep, AllMarksPaid, [Next]_vars
  PROVE  AllMarksPaid'
<1> SUFFICES ASSUME "replaced" \notin upsets'
             PROVE  /\ MarksPaid(accounts', paid') /\ MarksPaid(stored', paid')
                    /\ MarksPaid(start'.list, paid') /\ MarksPaid(selected', paid')
                    /\ \A r \in DOMAIN mailed' :
                         mailed'[r].funded => paid'[mailed'[r].mnemonic] > 0
                    /\ \A acc \in mails' : acc.funded => paid'[acc.mnemonic] > 0
  BY DEF AllMarksPaid
<1>0. /\ accounts \in Seq(Account) /\ stored \in Seq(Account) /\ start.list \in Seq(Account)
      /\ selected \in Seq(Account)
  BY SelectedAccount DEF Types, AccountTypes, StartTypes, Lists
<1>1. /\ "replaced" \notin upsets
      /\ MarksPaid(accounts, paid) /\ MarksPaid(stored, paid)
      /\ MarksPaid(start.list, paid) /\ MarksPaid(selected, paid)
      /\ \A r \in DOMAIN mailed : mailed[r].funded => paid[mailed[r].mnemonic] > 0
      /\ \A acc \in mails : acc.funded => paid[acc.mnemonic] > 0
  BY UpsetsStay DEF AllMarksPaid
<1>2. /\ MarksPaid(accounts, paid') /\ MarksPaid(stored, paid')
      /\ MarksPaid(start.list, paid') /\ MarksPaid(selected, paid')
  BY <1>0, <1>1, MarksStay
<1>3. /\ \A r \in DOMAIN mailed : mailed[r].funded => paid'[mailed[r].mnemonic] > 0
      /\ \A acc \in mails : acc.funded => paid'[acc.mnemonic] > 0
  <2>1. /\ \A r \in DOMAIN mailed : mailed[r].mnemonic \in 1..MaxMnemonics
        /\ \A acc \in mails : acc.mnemonic \in 1..MaxMnemonics
    BY DEF Types, MailTypes, Mail, Account
  <2>2. QED
    BY <1>1, <2>1, PaidStays
<1>4. MarksPaid(<< >>, paid')
  BY DEF MarksPaid
<1>5. MarksPaid(accounts', paid') /\ MarksPaid(stored', paid')
  <2>1. CASE Arrives
    <3>1. PICK f \in DOMAIN fetches : Arrive(f)
      BY <2>1 DEF Arrives
    <3>2. /\ accounts' = Generated(fetches[f].list) /\ stored' = accounts'
          /\ fetches[f].list \in Seq(Known) /\ NoRepeats(fetches[f].list)
          /\ MaxMinted(accounts') \subseteq 0..MaxMnemonics
      BY <3>1, ArrivesTyped
    <3>3. \A k \in DOMAIN accounts' :
            (\E j \in DOMAIN stored : accounts'[k] = stored[j]) \/ ~accounts'[k].funded
      BY <3>2, GeneratedAccounts, KnownRolls DEF Types
    <3>4. QED
      BY <1>2, <3>2, <3>3 DEF MarksPaid
  <2>2. CASE IncludeTransfer
    <3>1. PICK ok \in BOOLEAN :
            /\ ok => paid'[pool[1].mnemonic] > 0
            /\ pool[1].watched => accounts' = Marked(fund.i, ok)
            /\ ~pool[1].watched => UNCHANGED accounts
            /\ UNCHANGED stored
      BY <2>2, IncludeEffect
    <3>2. CASE pool[1].watched
      <4>1. /\ fund.pc = "waiting" /\ pool[1].mnemonic = fund.list[fund.i].mnemonic
            /\ fund.i \in DOMAIN fund.list
        BY <2>2, <3>2, PoolLeft DEF AwaitsTransfer, Types, FundTypes
      <4>2. fund.i \in DOMAIN accounts /\ accounts[fund.i].mnemonic = pool[1].mnemonic
        BY <1>1, <4>1 DEF InStep, SameAccounts
      <4>3. /\ DOMAIN accounts' = DOMAIN accounts
            /\ \A k \in DOMAIN accounts :
                 /\ accounts'[k].mnemonic = accounts[k].mnemonic
                 /\ accounts'[k].funded = (accounts[k].funded \/ (k = fund.i /\ ok))
        BY <3>1, <3>2, MarkedAccounts
      <4>4. ASSUME NEW k \in DOMAIN accounts, accounts'[k].funded
            PROVE  paid'[accounts'[k].mnemonic] > 0
        <5>1. CASE k = fund.i /\ ok
          BY <3>1, <4>2, <4>3, <5>1
        <5>2. CASE accounts[k].funded
          BY <1>2, <4>3, <5>2 DEF MarksPaid
        <5>3. QED
          BY <4>3, <4>4, <5>1, <5>2
      <4>5. QED
        BY <1>2, <3>1, <4>3, <4>4 DEF MarksPaid
    <3>3. CASE ~pool[1].watched
      BY <1>2, <3>1, <3>3
    <3>4. QED
      BY <3>2, <3>3
  <2>3. CASE FundDone
    BY <1>2, <2>3 DEF FundDone
  <2>4. CASE ResetFunding
    BY <2>4, ResetAccounts DEF MarksPaid
  <2>5. CASE Refresh \/ Reload
    BY <1>2, <1>4, <2>5 DEF Refresh, Reload
  <2>6. CASE UNCHANGED <<accounts, stored>>
    BY <1>2, <2>6
  <2>7. QED
    BY <2>1, <2>2, <2>3, <2>4, <2>5, <2>6, WhatChanges
<1>6. MarksPaid(start'.list, paid')
  <2>1. CASE UNCHANGED start
    BY <1>2, <2>1
  <2>2. CASE Arrives
    BY <1>2, <1>5, <2>2 DEF Arrives, Arrive
  <2>3. CASE Fails \/ StartClick \/ Reload
    BY <1>2, <1>4, <2>3 DEF Fails, FetchFails, StartClick, Reload, NotStarting
  <2>4. CASE StartPosted \/ Sends
    <3>1. start'.list = start.list \/ start'.list = << >>
      <4>1. \/ start' = start \/ start' = NotStarting
            \/ start' = [start EXCEPT !.pc = "listing"]
            \/ start' = [start EXCEPT !.pc = "mailing", !.todo = DOMAIN start.list]
            \/ \E k \in start.todo : start' = [start EXCEPT !.todo = @ \ {k}]
        BY <2>4 DEF StartPosted, Sends, SendCredentials
      <4>2. start \in [pc : {"idle", "posting", "listing", "mailing"}, list : Lists(Known),
                      todo : SUBSET Nat]
        BY DEF Types, StartTypes
      <4>3. QED
        <5>1. start' = NotStarting => start'.list = << >>
          BY DEF NotStarting
        <5>2. start' = [start EXCEPT !.pc = "listing"] => start'.list = start.list
          BY <4>2
        <5>3. start' = [start EXCEPT !.pc = "mailing", !.todo = DOMAIN start.list]
                => start'.list = start.list
          BY <4>2
        <5>4. ASSUME NEW k \in start.todo, start' = [start EXCEPT !.todo = @ \ {k}]
              PROVE  start'.list = start.list
          BY <4>2, <5>4
        <5>5. QED
          BY <4>1, <5>1, <5>2, <5>3, <5>4
    <3>2. QED
      BY <1>2, <1>4, <3>1
  <2>5. QED
    BY <2>1, <2>2, <2>3, <2>4, WhatChanges
<1>7. MarksPaid(selected', paid')
  <2>1. CASE Opens
    <3>1. PICK k \in DOMAIN accounts : selected' = <<accounts[k]>>
      BY <2>1 DEF Opens, Select
    <3>2. DOMAIN selected' = {1} /\ selected'[1] = accounts[k]
      BY <3>1
    <3>3. QED
      BY <1>2, <3>2 DEF MarksPaid
  <2>2. CASE Deselect \/ Reload
    BY <1>4, <2>2 DEF Deselect, Reload
  <2>3. QED
    BY <1>2, <2>1, <2>2, WhatChanges
<1>8. \A r \in DOMAIN mailed' : mailed'[r].funded => paid'[mailed'[r].mnemonic] > 0
  <2>1. CASE mailed' = mailed
    BY <1>3, <2>1
  <2>2. CASE StartPosted \/ LateStart \/ End
    BY <1>3, <2>2 DEF StartPosted, LateStart, Started, End, NoMail
  <2>3. CASE Sends \/ SendsLate
    <3>1. ASSUME NEW acc \in Account, acc.roll \in Known, mailed' = Mailed(acc),
                 acc.funded => paid'[acc.mnemonic] > 0
          PROVE  \A r \in DOMAIN mailed' : mailed'[r].funded => paid'[mailed'[r].mnemonic] > 0
      <4>1. \A r \in DOMAIN mailed' :
              \/ r = acc.roll /\ mailed'[r] = [mnemonic |-> acc.mnemonic, funded |-> acc.funded]
              \/ r \in DOMAIN mailed /\ mailed'[r] = mailed[r]
        <5>1. DOMAIN mailed' = DOMAIN mailed \cup {acc.roll}
              /\ \A r \in DOMAIN mailed' :
                   mailed'[r] = IF r = acc.roll
                                  THEN [mnemonic |-> acc.mnemonic, funded |-> acc.funded]
                                  ELSE mailed[r]
          BY <3>1, MailedMails
        <5>2. QED
          BY <5>1
      <4>2. QED
        BY <1>3, <3>1, <4>1
    <3>2. \A k \in DOMAIN start.list : start.list[k].funded => paid'[start.list[k].mnemonic] > 0
      BY <1>2 DEF MarksPaid
    <3>3. QED
      BY <1>3, <2>1, <2>3, <3>1, <3>2, WhoIsMailed
  <2>4. QED
    BY <2>1, <2>2, <2>3, WhatChanges
<1>9. ASSUME NEW acc \in mails', acc.funded
      PROVE  paid'[acc.mnemonic] > 0
  <2>1. CASE acc \in mails
    BY <1>3, <1>9, <2>1
  <2>2. ASSUME NEW k \in DOMAIN start.list, acc = start.list[k]
        PROVE  paid'[acc.mnemonic] > 0
    BY <1>2, <1>9, <2>2 DEF MarksPaid
  <2>3. ASSUME selected = <<acc>>
        PROVE  paid'[acc.mnemonic] > 0
    BY <1>2, <1>9, <2>3 DEF MarksPaid
  <2>4. QED
    BY <2>1, <2>2, <2>3, AskedMails
<1>10. QED
  BY <1>5, <1>6, <1>7, <1>8, <1>9

LEMMA AllMarksPaidInit == Init => AwaitsTransfer /\ InStep /\ AllMarksPaid
  BY DEF Init, NotFunding, NotStarting, NoMail, AwaitsTransfer, InStep, AllMarksPaid, MarksPaid

LEMMA AllMarksPaidInvariant == Spec => [](Types /\ AwaitsTransfer /\ InStep /\ AllMarksPaid)
<1>1. /\ Types /\ Types' /\ AwaitsTransfer /\ InStep /\ AllMarksPaid /\ [Next]_vars
           => AwaitsTransfer' /\ InStep' /\ AllMarksPaid'
  BY AwaitsStep, InStepStep, AllMarksPaidStep
<1>2. QED
  BY <1>1, AllMarksPaidInit, TypesInvariant, PTL DEF Spec

(* An account the dashboard or its localStorage has marked, and one a      *)
(* voter has been mailed as "FUNDED - Ready to vote", has received a       *)
(* transfer, unless a list came in while fundAllAccounts marked accounts   *)
(* by their index.                                                         *)
THEOREM FundingFundedIsPaid == Spec => []FundedIsPaid
<1>1. AllMarksPaid => FundedIsPaid
  BY DEF AllMarksPaid, FundedIsPaid, MarksPaid
<1>2. QED
  BY <1>1, AllMarksPaidInvariant, PTL

-----------------------------------------------------------------------------
(* No two accounts of a list have the same mnemonic, and none has one that *)
(* is still to be made; only mnemonics that have been made are paid to.    *)
OwnMnemonics(list, made) ==
  /\ \A k \in DOMAIN list : list[k].mnemonic <= made
  /\ \A j, k \in DOMAIN list : list[j].mnemonic = list[k].mnemonic => j = k

OnlyMade ==
  /\ \A list \in {accounts, stored, fund.list} : OwnMnemonics(list, minted)
  /\ \A n \in DOMAIN pool : pool[n].mnemonic <= minted
  /\ \A m \in 1..MaxMnemonics : m > minted => paid[m] = 0

LEMMA OwnStays ==
  ASSUME NEW voters, NEW list \in Lists(voters), NEW t, SameAccounts(list, t),
         NEW made \in Nat, NEW more \in Nat, made <= more, OwnMnemonics(list, made)
  PROVE  OwnMnemonics(t, more)
<1>1. \A k \in DOMAIN list : list[k].mnemonic \in Nat
  <2>1. \A k \in DOMAIN list : list[k] \in Account
    BY ListElements
  <2>2. QED
    BY <2>1 DEF Account
<1>2. QED
  BY <1>1 DEF SameAccounts, OwnMnemonics

LEMMA GeneratedOwn ==
  ASSUME Types, OwnMnemonics(stored, minted), NEW f \in DOMAIN fetches, Arrive(f)
  PROVE  OwnMnemonics(accounts', minted')
<1> DEFINE names == fetches[f].list
           list == accounts'
<1>1. /\ list = Generated(names) /\ names \in Seq(Known) /\ NoRepeats(names)
      /\ MaxMinted(list) \subseteq 0..MaxMnemonics
      /\ \A k \in DOMAIN list : list[k].mnemonic <= minted'
  BY ArrivesTyped
<1>2. /\ DOMAIN list = DOMAIN names /\ DOMAIN names = 1..Len(names) /\ Len(names) \in Nat
      /\ \A k \in DOMAIN list :
           /\ list[k].roll = names[k]
           /\ \/ \E j \in DOMAIN stored : list[k] = stored[j]
              \/ /\ Cached(names[k]) = {}
                 /\ list[k].mnemonic = minted + Cardinality(Fresh(names, k))
                 /\ list[k].mnemonic > minted
  <2>0. AccountTypes /\ Known \subseteq Rolls
    BY KnownRolls DEF Types
  <2> HIDE DEF list, names
  <2>1. DOMAIN names = 1..Len(names) /\ Len(names) \in Nat
    BY <1>1, LenProperties
  <2>2. QED
    BY <1>1, <2>0, <2>1, GeneratedAccounts
<1>3. minted \in Nat /\ \A k \in DOMAIN stored : stored[k].mnemonic \in Nat
  <2>1. \A k \in DOMAIN stored : stored[k] \in Account
    BY ListElements DEF Types, AccountTypes
  <2>2. QED
    BY <2>1, FundingConstants DEF Types, AccountTypes, Account
<1> HIDE DEF list, names
<1>4. ASSUME NEW j \in DOMAIN list, NEW k \in DOMAIN list, j < k
      PROVE  list[j].mnemonic # list[k].mnemonic
  <2>0. j \in 1..k /\ k \in Nat /\ k \in 1..Len(names) /\ j # k
    BY <1>2, <1>4
  <2>1. CASE \E a \in DOMAIN stored : list[j] = stored[a]
    <3>1. PICK a \in DOMAIN stored : list[j] = stored[a]
      BY <2>1
    <3>2. ASSUME NEW b \in DOMAIN stored, list[k] = stored[b]
          PROVE  list[j].mnemonic # list[k].mnemonic
      <4>1. list[j].roll # list[k].roll
        BY <1>1, <1>2, <2>0 DEF NoRepeats
      <4>2. a # b
        BY <3>1, <3>2, <4>1
      <4>3. QED
        BY <3>1, <3>2, <4>2 DEF OwnMnemonics
    <3>3. ASSUME list[k].mnemonic > minted
          PROVE  list[j].mnemonic # list[k].mnemonic
      BY <1>3, <3>1, <3>3 DEF OwnMnemonics
    <3>4. QED
      BY <1>2, <3>2, <3>3
  <2>2. CASE \E b \in DOMAIN stored : list[k] = stored[b]
    <3>1. PICK b \in DOMAIN stored : list[k] = stored[b]
      BY <2>2
    <3>2. ASSUME list[j].mnemonic > minted
          PROVE  list[j].mnemonic # list[k].mnemonic
      BY <1>3, <3>1, <3>2 DEF OwnMnemonics
    <3>3. QED
      BY <1>2, <2>1, <3>2
  <2>3. CASE /\ Cached(names[j]) = {} /\ list[j].mnemonic = minted + Cardinality(Fresh(names, j))
             /\ Cached(names[k]) = {} /\ list[k].mnemonic = minted + Cardinality(Fresh(names, k))
    <3>1. /\ Cardinality(Fresh(names, j)) < Cardinality(Fresh(names, k))
          /\ Cardinality(Fresh(names, k)) \in Nat
      BY <1>4, <2>0, <2>3, FreshGrows
    <3>2. Cardinality(Fresh(names, j)) \in Nat
      BY <2>0, FreshGrows
    <3>3. QED
      BY <1>3, <2>3, <3>1, <3>2
  <2>4. QED
    BY <1>2, <2>1, <2>2, <2>3
<1>5. \A j, k \in DOMAIN list : list[j].mnemonic = list[k].mnemonic => j = k
  <2>1. \A j \in DOMAIN list : j \in Nat
    BY <1>2
  <2>2. \A j, k \in DOMAIN list : j < k \/ k < j \/ j = k
    BY <2>1
  <2>3. QED
    BY <1>4, <2>2
<1>6. \A k \in DOMAIN list : list[k].mnemonic <= minted'
  BY <1>1 DEF list
<1>7. OwnMnemonics(list, minted')
  BY <1>5, <1>6 DEF OwnMnemonics
<1>8. QED
  BY <1>7 DEF list

LEMMA OnlyMadeStep ==
  ASSUME Types, Types', AwaitsTransfer, OnlyMade, [Next]_vars
  PROVE  OnlyMade'
<1>0. /\ accounts \in Lists(Known) /\ stored \in Lists(Known)
      /\ fund.list \in Lists(Known)
      /\ minted \in Nat /\ minted' \in Nat /\ paid \in [1..MaxMnemonics -> 0..2]
      /\ \A n \in DOMAIN pool : pool[n].mnemonic \in Nat
  <2>1. \A n \in DOMAIN pool : pool[n] \in Transfers
    BY PoolFields
  <2>2. \A n \in DOMAIN pool : pool[n].mnemonic \in Nat
    BY <2>1 DEF Transfers
  <2>3. minted \in Nat /\ minted' \in Nat
    BY FundingConstants DEF Types, AccountTypes
  <2>4. QED
    BY <2>2, <2>3 DEF Types, AccountTypes, FundTypes
<1>1. /\ OwnMnemonics(accounts, minted) /\ OwnMnemonics(stored, minted)
      /\ OwnMnemonics(fund.list, minted)
  BY DEF OnlyMade
<1>2. minted <= minted'
  <2>1. Arrives => minted <= minted'
    BY ArrivesTyped DEF Arrives
  <2>2. IncludeTransfer \/ FundDone \/ ResetFunding \/ Refresh \/ Reload => minted' = minted
    BY DEF IncludeTransfer, FundDone, ResetFunding, Refresh, Reload
  <2>3. QED
    BY <1>0, <2>1, <2>2, WhatChanges
<1>3. /\ OwnMnemonics(accounts, minted') /\ OwnMnemonics(stored, minted')
      /\ OwnMnemonics(fund.list, minted') /\ OwnMnemonics(<< >>, minted')
  <2>1. \A list : SameAccounts(list, list)
    BY DEF SameAccounts
  <2>2. OwnMnemonics(<< >>, minted')
    BY DEF OwnMnemonics
  <2>3. QED
    BY <1>0, <1>1, <1>2, <2>1, <2>2, OwnStays
<1>4. OwnMnemonics(accounts', minted') /\ OwnMnemonics(stored', minted')
  <2>1. CASE UNCHANGED <<accounts, stored>>
    BY <1>3, <2>1
  <2>2. CASE Arrives
    BY <1>1, <2>2, GeneratedOwn, ArrivesTyped DEF Arrives
  <2>3. CASE IncludeTransfer
    <3>1. stored' = stored
      BY <2>3, IncludeEffect
    <3>2. ASSUME NEW ok \in BOOLEAN, accounts' = Marked(fund.i, ok)
          PROVE  OwnMnemonics(accounts', minted')
      <4>1. SameAccounts(accounts, accounts')
        BY <3>2, MarkedAccounts DEF SameAccounts
      <4>2. QED
        BY <1>0, <1>1, <1>2, <4>1, OwnStays
    <3>3. QED
      BY <1>3, <2>3, <3>1, <3>2, IncludeEffect
  <2>4. CASE ResetFunding
    <3>1. SameAccounts(accounts, accounts') /\ stored' = accounts'
      BY <2>4, ResetAccounts DEF SameAccounts
    <3>2. QED
      BY <1>0, <1>1, <1>2, <3>1, OwnStays
  <2>5. CASE FundDone \/ Refresh \/ Reload
    BY <1>3, <2>5 DEF FundDone, Refresh, Reload
  <2>6. QED
    BY <2>1, <2>2, <2>3, <2>4, <2>5, WhatChanges
<1>5. /\ OwnMnemonics(fund'.list, minted')
      /\ \A n \in DOMAIN pool' : pool'[n].mnemonic <= minted'
  <2>0. \A n \in DOMAIN pool : pool[n].mnemonic <= minted'
    BY <1>0, <1>2 DEF OnlyMade
  <2>1. CASE UNCHANGED <<fund, pool>>
    BY <1>3, <2>0, <2>1
  <2>2. CASE FundClick
    BY <1>3, <2>0, <2>2 DEF FundClick
  <2>3. CASE FundNext
    <3>1. PICK k \in UnfundedFrom(fund.list, fund.i) :
            /\ k \in DOMAIN fund.list /\ fund'.list = fund.list
            /\ DOMAIN pool' = 1..(Len(pool) + 1) /\ \A n \in DOMAIN pool : pool'[n] = pool[n]
            /\ pool'[Len(pool) + 1] = [mnemonic |-> fund.list[k].mnemonic, watched |-> TRUE]
      BY <2>3, FundNextEffect
    <3>2. /\ Len(pool) \in Nat /\ DOMAIN pool = 1..Len(pool)
          /\ fund.list[k].mnemonic <= minted'
      BY <1>3, <3>1, PoolFields DEF OwnMnemonics
    <3>3. \A n \in DOMAIN pool' : n \in DOMAIN pool \/ n = Len(pool) + 1
      BY <3>1, <3>2
    <3>4. QED
      BY <1>3, <2>0, <3>1, <3>2, <3>3
  <2>4. CASE IncludeTransfer
    <3>1. fund'.list = fund.list
      BY <2>4, IncludeEffect
    <3>2. QED
      BY <1>3, <2>0, <2>4, <3>1, PoolLeft
  <2>5. CASE DropTransfer
    BY <1>3, <2>0, <2>5, PoolLeft DEF DropTransfer
  <2>6. CASE FundDone
    BY <1>3, <2>0, <2>6 DEF FundDone, NotFunding
  <2>7. CASE Reload
    BY <1>3, <2>0, <2>7, ReloadEffect DEF NotFunding
  <2>8. QED
    BY <2>1, <2>2, <2>3, <2>4, <2>5, <2>6, <2>7, WhatChanges
<1>6. \A m \in 1..MaxMnemonics : m > minted' => paid'[m] = 0
  <2>0. \A m \in 1..MaxMnemonics : m > minted' => paid[m] = 0 /\ m > minted
    BY <1>0, <1>2 DEF OnlyMade
  <2>1. CASE UNCHANGED paid
    BY <2>0, <2>1
  <2>2. CASE IncludeTransfer
    <3>1. 1 \in DOMAIN pool /\ pool[1].mnemonic <= minted /\ pool[1].mnemonic \in Nat
      BY <1>0, <2>2, PoolLeft DEF OnlyMade
    <3>2. \A m \in 1..MaxMnemonics : m # pool[1].mnemonic => paid'[m] = paid[m]
      BY <2>2, IncludeEffect
    <3>3. QED
      BY <1>0, <2>0, <3>1, <3>2
  <2>3. QED
    BY <2>1, <2>2, WhatChanges
<1>7. QED
  BY <1>4, <1>5, <1>6 DEF OnlyMade

(* Without a reload or a reset during the loop, and without a list coming  *)
(* in during it, an account without a mark has not been paid for: in the   *)
(* dashboard always, in localStorage between the loops.  From the loop's   *)
(* index on the marks are as they were when the loop was started.          *)
Calm == upsets \cap {"replaced", "unflagged"} = {}

UnmarkedUnpaid(list, payments) ==
  \A k \in DOMAIN list : ~list[k].funded => payments[list[k].mnemonic] = 0

UnmarkedIsUnpaid ==
  Calm =>
    /\ \A m \in 1..MaxMnemonics : paid[m] <= 1
    /\ \A n \in DOMAIN pool : pool[n].watched
    /\ UnmarkedUnpaid(accounts, paid)
    /\ fund.pc = "idle" => UnmarkedUnpaid(stored, paid)
    /\ fund.pc # "idle" =>
         \A k \in DOMAIN accounts : k >= fund.i => accounts[k].funded = fund.list[k].funded
    /\ fund.pc = "waiting" => ~fund.list[fund.i].funded

LEMMA CalmBefore ==
  ASSUME [Next]_vars, Calm'
  PROVE  Calm /\ "replaced" \notin upsets /\ "replaced" \notin upsets'
  BY UpsetsStay DEF Calm

(* A transfer that is included: the account it is for has not been paid    *)
(* for before, and gets its mark if the transfer succeeds.                 *)
LEMMA UnpaidInclude ==
  ASSUME Types, AwaitsTransfer, InStep, OnlyMade, UnmarkedIsUnpaid, Calm, IncludeTransfer
  PROVE  /\ \A m \in 1..MaxMnemonics : paid'[m] <= 1
         /\ \A n \in DOMAIN pool' : pool'[n].watched
         /\ UnmarkedUnpaid(accounts', paid')
         /\ fund.pc = "waiting" /\ fund'.pc = "next"
         /\ \A k \in DOMAIN accounts' : k >= fund'.i => accounts'[k].funded = fund'.list[k].funded
<1>0. /\ "replaced" \notin upsets
      /\ \A m \in 1..MaxMnemonics : paid[m] <= 1
      /\ \A n \in DOMAIN pool : pool[n].watched
      /\ UnmarkedUnpaid(accounts, paid)
      /\ fund.pc # "idle" =>
           \A k \in DOMAIN accounts : k >= fund.i => accounts[k].funded = fund.list[k].funded
      /\ fund.pc = "waiting" => ~fund.list[fund.i].funded
  BY DEF UnmarkedIsUnpaid, Calm
<1>1. /\ 1 \in DOMAIN pool /\ pool[1].watched
      /\ \A n \in DOMAIN pool' : pool'[n].watched
  BY <1>0, PoolLeft
<1>2. /\ fund.pc = "waiting" /\ pool[1].mnemonic = fund.list[fund.i].mnemonic
      /\ fund.i \in DOMAIN fund.list /\ SameAccounts(fund.list, accounts)
  BY <1>0, <1>1 DEF AwaitsTransfer, InStep, Types, FundTypes
<1> DEFINE i == fund.i
<1>3. /\ i \in DOMAIN accounts /\ accounts[i].mnemonic = pool[1].mnemonic
      /\ ~accounts[i].funded /\ paid[pool[1].mnemonic] = 0
      /\ DOMAIN accounts = 1..Len(accounts) /\ Len(accounts) \in Nat
  <2>1. DOMAIN accounts = 1..Len(accounts) /\ Len(accounts) \in Nat
    BY ListElements DEF Types, AccountTypes
  <2>2. i \in DOMAIN accounts /\ accounts[i].mnemonic = pool[1].mnemonic
    BY <1>2 DEF SameAccounts
  <2>3. i >= i
    BY <2>1, <2>2
  <2>4. ~accounts[i].funded
    BY <1>0, <1>2, <2>2, <2>3
  <2>5. QED
    BY <1>0, <2>1, <2>2, <2>4 DEF UnmarkedUnpaid
<1>4. PICK ok \in BOOLEAN :
        /\ pool[1].mnemonic \in 1..MaxMnemonics
        /\ \A m \in 1..MaxMnemonics : m # pool[1].mnemonic \/ ~ok => paid'[m] = paid[m]
        /\ ok /\ paid[pool[1].mnemonic] = 0 => paid'[pool[1].mnemonic] = 1
        /\ accounts' = Marked(i, ok)
        /\ fund'.pc = "next" /\ fund'.i = i + 1 /\ fund'.list = fund.list
  BY <1>1, IncludeEffect
<1>5. /\ DOMAIN accounts' = DOMAIN accounts
      /\ \A k \in DOMAIN accounts :
           /\ accounts'[k].mnemonic = accounts[k].mnemonic
           /\ accounts'[k].funded = (accounts[k].funded \/ (k = i /\ ok))
  BY <1>4, MarkedAccounts
<1>6. \A m \in 1..MaxMnemonics : paid'[m] <= 1
  BY <1>0, <1>3, <1>4
<1>7. UnmarkedUnpaid(accounts', paid')
  <2> SUFFICES ASSUME NEW k \in DOMAIN accounts, ~accounts'[k].funded
               PROVE  paid'[accounts[k].mnemonic] = 0
    BY <1>5 DEF UnmarkedUnpaid
  <2>1. ~accounts[k].funded /\ ~ (k = i /\ ok)
    BY <1>5
  <2>2. paid[accounts[k].mnemonic] = 0
    BY <1>0, <2>1 DEF UnmarkedUnpaid
  <2>3. accounts[k].mnemonic # pool[1].mnemonic \/ ~ok
    BY <1>3, <2>1 DEF OnlyMade, OwnMnemonics
  <2>4. accounts[k] \in Account
    BY ListElements DEF Types, AccountTypes
  <2>5. QED
    BY <1>4, <2>2, <2>3, <2>4 DEF Account
<1>8. \A k \in DOMAIN accounts' : k >= fund'.i => accounts'[k].funded = fund'.list[k].funded
  <2> SUFFICES ASSUME NEW k \in DOMAIN accounts, k >= i + 1
               PROVE  accounts'[k].funded = fund.list[k].funded
    BY <1>4, <1>5
  <2>1. k # i /\ k >= i
    BY <1>3
  <2>2. accounts[k].funded = fund.list[k].funded
    BY <1>0, <1>2, <2>1
  <2>3. accounts'[k].funded = (accounts[k].funded \/ FALSE)
    BY <1>5, <2>1
  <2>4. accounts[k] \in Account
    BY ListElements DEF Types, AccountTypes
  <2>5. accounts[k].funded \in BOOLEAN
    BY <2>4 DEF Account
  <2>6. QED
    BY <2>2, <2>3, <2>5
<1>9. QED
  BY <1>1, <1>2, <1>4, <1>6, <1>7, <1>8

LEMMA UnpaidStep ==
  ASSUME Types, Types', AwaitsTransfer, InStep, OnlyMade, UnmarkedIsUnpaid, [Next]_vars
  PROVE  UnmarkedIsUnpaid'
<1> SUFFICES ASSUME Calm'
             PROVE  /\ \A m \in 1..MaxMnemonics : paid'[m] <= 1
                    /\ \A n \in DOMAIN pool' : pool'[n].watched
                    /\ UnmarkedUnpaid(accounts', paid')
                    /\ fund'.pc = "idle" => UnmarkedUnpaid(stored', paid')
                    /\ fund'.pc # "idle" =>
                         \A k \in DOMAIN accounts' :
                           k >= fund'.i => accounts'[k].funded = fund'.list[k].funded
                    /\ fund'.pc = "waiting" => ~fund'.list[fund'.i].funded
  BY DEF UnmarkedIsUnpaid
<1>0. /\ \A m \in 1..MaxMnemonics : paid[m] <= 1
      /\ \A n \in DOMAIN pool : pool[n].watched
      /\ UnmarkedUnpaid(accounts, paid)
      /\ fund.pc = "idle" => UnmarkedUnpaid(stored, paid)
      /\ fund.pc # "idle" =>
           \A k \in DOMAIN accounts : k >= fund.i => accounts[k].funded = fund.list[k].funded
      /\ fund.pc = "waiting" => ~fund.list[fund.i].funded
      /\ UnmarkedUnpaid(<< >>, paid) /\ Calm
  BY CalmBefore DEF UnmarkedIsUnpaid, UnmarkedUnpaid
<1>1. CASE UNCHANGED <<accounts, stored, fund, pool, paid>>
  BY <1>0, <1>1
<1>2. CASE Arrives
  <2>1. PICK f \in DOMAIN fetches : Arrive(f)
    BY <1>2 DEF Arrives
  <2>2. fund.pc = "idle" /\ UNCHANGED <<fund, pool, paid>>
    BY <1>2, CalmBefore, ReplacedNoted
  <2>3. /\ accounts' = Generated(fetches[f].list) /\ stored' = accounts'
        /\ fetches[f].list \in Seq(Known) /\ NoRepeats(fetches[f].list)
        /\ MaxMinted(accounts') \subseteq 0..MaxMnemonics /\ accounts' \in Lists(Known)
    BY <2>1, ArrivesTyped DEF AccountTypes
  <2>4. \A k \in DOMAIN accounts' :
          \/ \E j \in DOMAIN stored : accounts'[k] = stored[j]
          \/ accounts'[k].mnemonic > minted
    BY <2>3, GeneratedAccounts, KnownRolls DEF Types
  <2>5. \A k \in DOMAIN accounts' : accounts'[k].mnemonic \in 1..MaxMnemonics
    <3>1. \A k \in DOMAIN accounts' : accounts'[k] \in Account
      BY <2>3, ListElements
    <3>2. QED
      BY <3>1 DEF Account
  <2>6. UnmarkedUnpaid(accounts', paid)
    BY <1>0, <2>2, <2>4, <2>5 DEF UnmarkedUnpaid, OnlyMade
  <2>7. QED
    BY <1>0, <2>2, <2>3, <2>6
<1>3. CASE FundClick
  BY <1>0, <1>3 DEF FundClick
<1>4. CASE FundNext
  <2>1. PICK k \in UnfundedFrom(fund.list, fund.i) :
          /\ k \in DOMAIN fund.list /\ ~fund.list[k].funded /\ k \in Nat /\ k >= fund.i
          /\ fund.pc = "next" /\ fund'.pc = "waiting" /\ fund'.list = fund.list /\ fund'.i = k
          /\ UNCHANGED <<accounts, paid>>
          /\ DOMAIN pool' = 1..(Len(pool) + 1) /\ \A n \in DOMAIN pool : pool'[n] = pool[n]
          /\ pool'[Len(pool) + 1] = [mnemonic |-> fund.list[k].mnemonic, watched |-> TRUE]
    BY <1>4, FundNextEffect
  <2>2. \A n \in DOMAIN pool' : n \in DOMAIN pool \/ n = Len(pool) + 1
    BY <2>1, PoolFields
  <2>3. fund.i \in Nat /\ \A j \in DOMAIN accounts : j \in Nat
    BY ListElements DEF Types, AccountTypes, FundTypes
  <2>4. \A j \in DOMAIN accounts : j >= k => j >= fund.i
    BY <2>1, <2>3
  <2>5. \A n \in DOMAIN pool' : pool'[n].watched
    BY <1>0, <2>1, <2>2
  <2>6. QED
    BY <1>0, <2>1, <2>4, <2>5
<1>5. CASE IncludeTransfer
  <2>1. /\ \A m \in 1..MaxMnemonics : paid'[m] <= 1
        /\ \A n \in DOMAIN pool' : pool'[n].watched
        /\ UnmarkedUnpaid(accounts', paid') /\ fund'.pc = "next"
        /\ \A k \in DOMAIN accounts' : k >= fund'.i => accounts'[k].funded = fund'.list[k].funded
    BY <1>0, <1>5, UnpaidInclude
  <2>2. QED
    BY <2>1
<1>6. CASE DropTransfer
  <2>1. UNCHANGED <<accounts, stored, fund, paid>>
    BY <1>6 DEF DropTransfer
  <2>2. \A n \in DOMAIN pool' : pool'[n].watched
    BY <1>0, <1>6, PoolLeft
  <2>3. QED
    BY <1>0, <2>1, <2>2
<1>7. CASE FundDone
  BY <1>0, <1>7 DEF FundDone, NotFunding
<1>8. CASE ResetFunding
  BY <1>8 DEF ResetFunding, Upset, Calm
<1>9. CASE Refresh
  BY <1>0, <1>9 DEF Refresh
<1>10. CASE Reload
  <2>1. fund.pc = "idle" /\ pool = << >>
    BY <1>10 DEF Reload, Upset, Calm
  <2>2. /\ DOMAIN pool' = {} /\ fund'.pc = "idle" /\ accounts' = << >>
        /\ stored' = stored /\ paid' = paid
    BY <1>10, <2>1, ReloadEffect DEF NotFunding
  <2>3. QED
    BY <1>0, <2>1, <2>2
<1>11. QED
  <2>1. IncludeTransfer \/ UNCHANGED paid
    BY WhatChanges
  <2>2. QED
    BY <2>1, <1>1, <1>2, <1>3, <1>4, <1>5, <1>6, <1>7, <1>8, <1>9, <1>10, WhatChanges

LEMMA UnpaidInit == Init => OnlyMade /\ UnmarkedIsUnpaid
  BY FundingConstants
     DEF Init, NotFunding, OnlyMade, OwnMnemonics, UnmarkedIsUnpaid, UnmarkedUnpaid

LEMMA UnpaidInvariant == Spec => [](OnlyMade /\ UnmarkedIsUnpaid)
<1>1. /\ Types /\ Types' /\ AwaitsTransfer /\ InStep /\ OnlyMade /\ UnmarkedIsUnpaid /\ [Next]_vars
           => OnlyMade' /\ UnmarkedIsUnpaid'
  BY OnlyMadeStep, UnpaidStep
<1>2. QED
  BY <1>1, UnpaidInit, AllMarksPaidInvariant, PTL DEF Spec

(* Nobody is funded twice, through all reloads and lists, as long as no    *)
(* list came in, and no reload or reset fell, between a payment of         *)
(* fundAllAccounts and the write of its marks to localStorage.             *)
THEOREM FundingPaidOnce == Spec => []PaidOnce
<1>1. UnmarkedIsUnpaid => PaidOnce
  BY DEF UnmarkedIsUnpaid, Calm, PaidOnce
<1>2. QED
  BY <1>1, UnpaidInvariant, PTL

-----------------------------------------------------------------------------
(* The start of an election that found no accounts has one request for the *)
(* voters under way.                                                       *)
AskedForStart ==
  \A f \in DOMAIN fetches : fetches[f].origin = "start" =>
    /\ start.pc = "listing"
    /\ \A g \in DOMAIN fetches : fetches[g].origin = "start" => g = f

(* The requests under way, by what a step does to them.                    *)
LEMMA Answering ==
  ASSUME Types, NEW f \in DOMAIN fetches, ReadVoters(f)
  PROVE  /\ DOMAIN fetches' = DOMAIN fetches
         /\ \A g \in DOMAIN fetches : fetches'[g].origin = fetches[g].origin
         /\ \A g \in DOMAIN fetches : g # f => fetches'[g] = fetches[g]
         /\ fetches'[f].list \in SetToSeqs(verified)
<1>1. fetches \in Seq(Requests(Known)) /\ DOMAIN fetches = 1..Len(fetches)
  BY LenProperties DEF Types, FetchTypes
<1>2. \A g \in DOMAIN fetches : fetches[g] \in Requests(Known)
  BY <1>1, ElementOfSeq
<1>3. PICK list \in SetToSeqs(verified) :
        fetches' = [fetches EXCEPT ![f].pc = "read", ![f].list = list]
  BY DEF ReadVoters
<1>4. \A g \in DOMAIN fetches :
        fetches'[g] = IF g = f THEN [fetches[f] EXCEPT !.pc = "read", !.list = list]
                               ELSE fetches[g]
  BY <1>3
<1>5. /\ [fetches[f] EXCEPT !.pc = "read", !.list = list].origin = fetches[f].origin
      /\ [fetches[f] EXCEPT !.pc = "read", !.list = list].list = list
  BY <1>2 DEF Requests
<1>6. QED
  BY <1>3, <1>4, <1>5

LEMMA Asking ==
  ASSUME Types, NEW origin, fetches' = Ask(origin)
  PROVE  /\ Len(fetches) \in Nat /\ DOMAIN fetches = 1..Len(fetches)
         /\ DOMAIN fetches' = 1..(Len(fetches) + 1)
         /\ \A g \in DOMAIN fetches : fetches'[g] = fetches[g]
         /\ fetches'[Len(fetches) + 1].origin = origin
         /\ fetches'[Len(fetches) + 1].pc = "asked"
<1> DEFINE ask == [origin |-> origin, pc |-> "asked", list |-> << >>]
           S == Requests(Known) \cup {ask}
<1>1. fetches \in Seq(S) /\ ask \in S /\ fetches' = Append(fetches, ask)
  BY SeqMonotonic DEF Types, FetchTypes, Ask
<1>2. ask.origin = origin /\ ask.pc = "asked"
  OBVIOUS
<1> HIDE DEF S, ask
<1>3. /\ Len(fetches') = Len(fetches) + 1 /\ fetches' \in Seq(S)
      /\ \A g \in 1..Len(fetches) : fetches'[g] = fetches[g]
      /\ fetches'[Len(fetches) + 1] = ask
  BY <1>1, AppendProperties
<1>4. QED
  BY <1>1, <1>2, <1>3, LenProperties

LEMMA AskedForStartStep ==
  ASSUME Types, AskedForStart, [Next]_vars
  PROVE  AskedForStart'
<1>1. CASE Reads
  <2>1. PICK f \in DOMAIN fetches : ReadVoters(f)
    BY <1>1 DEF Reads
  <2>2. /\ DOMAIN fetches' = DOMAIN fetches /\ start' = start
        /\ \A g \in DOMAIN fetches : fetches'[g].origin = fetches[g].origin
    BY <2>1, Answering DEF ReadVoters
  <2>3. QED
    BY <2>2 DEF AskedForStart
<1>2. CASE Arrives \/ Fails
  <2>1. PICK f \in DOMAIN fetches :
          /\ fetches' = RemoveAt(fetches, f)
          /\ fetches[f].origin # "start" => start' = start
    BY <1>2 DEF Arrives, Arrive, Fails, FetchFails
  <2>2. fetches \in Seq(Requests(Known))
    BY DEF Types, FetchTypes
  <2>3. /\ Len(fetches) \in Nat /\ DOMAIN fetches = 1..Len(fetches)
        /\ DOMAIN fetches' = 1..(Len(fetches) - 1)
        /\ \A g \in DOMAIN fetches' : fetches'[g] = fetches[IF g < f THEN g ELSE g + 1]
    BY <2>1, <2>2, RemovedAt
  <2> DEFINE was(g) == IF g < f THEN g ELSE g + 1
  <2>4. \A g \in DOMAIN fetches' :
          was(g) \in DOMAIN fetches /\ was(g) # f /\ fetches'[g] = fetches[was(g)]
    BY <2>3
  <2>5. \A g, h \in DOMAIN fetches' : was(g) = was(h) => g = h
    BY <2>3
  <2> HIDE DEF was
  <2>6. ASSUME NEW g \in DOMAIN fetches', fetches'[g].origin = "start"
        PROVE  start'.pc = "listing" /\
               \A h \in DOMAIN fetches' : fetches'[h].origin = "start" => h = g
    <3>1. start.pc = "listing" /\ fetches[f].origin # "start"
      BY <2>4, <2>6 DEF AskedForStart
    <3>2. QED
      BY <2>1, <2>4, <2>5, <2>6, <3>1 DEF AskedForStart
  <2>7. QED
    BY <2>6 DEF AskedForStart
<1>3. CASE Refresh
  <2>1. fetches' = Ask("refresh") /\ start' = start
    BY <1>3 DEF Refresh
  <2>2. /\ \A g \in DOMAIN fetches' : g \in DOMAIN fetches \/ g = Len(fetches) + 1
        /\ \A g \in DOMAIN fetches : fetches'[g] = fetches[g]
        /\ fetches'[Len(fetches) + 1].origin = "refresh"
    BY <2>1, Asking
  <2>3. \A g \in DOMAIN fetches' : fetches'[g].origin = "start" =>
          g \in DOMAIN fetches /\ fetches'[g] = fetches[g]
    BY <2>2
  <2>4. QED
    BY <2>1, <2>3 DEF AskedForStart
<1>4. CASE StartPosted
  <2>1. start.pc = "posting" /\ \A f \in DOMAIN fetches : fetches[f].origin # "start"
    BY <1>4 DEF StartPosted, AskedForStart
  <2>2. \/ fetches' = fetches
        \/ fetches' = Ask("start") /\ start'.pc = "listing"
    BY <1>4 DEF StartPosted, Types, StartTypes
  <2>3. CASE fetches' = fetches
    BY <2>1, <2>3 DEF AskedForStart
  <2>4. CASE fetches' = Ask("start") /\ start'.pc = "listing"
    <3>1. /\ \A g \in DOMAIN fetches' : g \in DOMAIN fetches \/ g = Len(fetches) + 1
          /\ \A g \in DOMAIN fetches : fetches'[g] = fetches[g]
      BY <2>4, Asking
    <3>2. \A g \in DOMAIN fetches' : fetches'[g].origin = "start" => g = Len(fetches) + 1
      BY <2>1, <3>1
    <3>3. QED
      BY <2>4, <3>2 DEF AskedForStart
  <2>5. QED
    BY <2>2, <2>3, <2>4
<1>5. CASE Reload
  <2>1. fetches' = <<[origin |-> "load", pc |-> "asked", list |-> << >>]>>
    BY <1>5 DEF Reload
  <2>2. \A g \in DOMAIN fetches' : fetches'[g].origin # "start"
    BY <2>1
  <2>3. QED
    BY <2>2 DEF AskedForStart
<1>6. CASE UNCHANGED fetches
  <2>1. CASE UNCHANGED start
    BY <1>6, <2>1 DEF AskedForStart
  <2>2. CASE StartClick \/ Sends
    BY <1>6, <2>2 DEF StartClick, StartButton, Sends, SendCredentials, AskedForStart
  <2>3. QED
    BY <1>2, <1>4, <1>5, <2>1, <2>2, WhatChanges
<1>7. QED
  BY <1>1, <1>2, <1>3, <1>4, <1>5, <1>6, WhatChanges

-----------------------------------------------------------------------------
(* The accounts of b are in a, whatever is marked, but for the voters that *)
(* are gone.                                                               *)
Has(a, acc) == \E j \in DOMAIN a : a[j].roll = acc.roll /\ a[j].mnemonic = acc.mnemonic
Covers(gone, a, b) == \A k \in DOMAIN b : b[k].roll \in gone \/ Has(a, b[k])

LEMMA CoversAll ==
  ASSUME NEW gone
  PROVE  /\ \A a, b, c : Covers(gone, a, b) /\ Covers(gone, b, c) => Covers(gone, a, c)
         /\ \A a : Covers(gone, a, a) /\ Covers(gone, a, << >>)
         /\ \A a, b : SameAccounts(a, b) => Covers(gone, a, b) /\ Covers(gone, b, a)
<1>1. ASSUME NEW a, NEW b, NEW c, Covers(gone, a, b), Covers(gone, b, c)
      PROVE  Covers(gone, a, c)
  <2> SUFFICES ASSUME NEW k \in DOMAIN c, c[k].roll \notin gone
               PROVE  Has(a, c[k])
    BY DEF Covers
  <2>1. PICK j \in DOMAIN b : b[j].roll = c[k].roll /\ b[j].mnemonic = c[k].mnemonic
    BY <1>1 DEF Covers, Has
  <2>2. Has(a, b[j])
    BY <1>1, <2>1 DEF Covers
  <2>3. QED
    BY <2>1, <2>2 DEF Has
<1>2. \A a : Covers(gone, a, a) /\ Covers(gone, a, << >>)
  BY DEF Covers, Has
<1>3. \A a, b : SameAccounts(a, b) => Covers(gone, a, b) /\ Covers(gone, b, a)
  BY DEF SameAccounts, Covers, Has
<1>4. QED
  BY <1>1, <1>2, <1>3

(* An answer that names every account of the list, but for the voters that *)
(* are gone.                                                               *)
Names(gone, answer, list) ==
  \A k \in DOMAIN list : list[k].roll \in gone \/ \E j \in DOMAIN answer : answer[j] = list[k].roll

LEMMA SameNames ==
  ASSUME NEW gone, NEW answer, NEW a, NEW b, Covers(gone, a, b), Names(gone, answer, a)
  PROVE  Names(gone, answer, b)
  BY DEF Covers, Has, Names

(* An election is active or being started, or has left mails behind.       *)
Running == active \/ Starting \/ mails # {}

(* Nothing that was mailed, or is about to be, is lost from localStorage:  *)
(* the dashboard's list and localStorage have the same accounts unless a   *)
(* refresh is under way, none is while an election runs, and an answer on  *)
(* its way back names all of them; the voters of deleted students aside.   *)
SameAsStored ==
  /\ Running => ~Refreshing
  /\ ~Refreshing /\ (accounts # << >> \/ fund.pc # "idle") =>
       Covers(deleted, stored, accounts) /\ Covers(deleted, accounts, stored)

AnswersNameAll ==
  \A f \in DOMAIN fetches : fetches[f].pc = "read" =>
    Names(deleted, fetches[f].list, accounts) /\ Names(deleted, fetches[f].list, stored)

MailsAreStored ==
  /\ start.pc # "idle" => Covers(deleted, stored, start.list)
  /\ Running => Covers(deleted, stored, selected)
  /\ \A acc \in mails : acc.roll \in deleted \/ Has(stored, acc)
  /\ active => \A r \in DOMAIN mailed :
                 r \in deleted \/ Has(stored, [roll |-> r, mnemonic |-> mailed[r].mnemonic])

NothingLost ==
  "regenerated" \notin upsets => SameAsStored /\ AnswersNameAll /\ MailsAreStored

(* An answer names every verified voter.                                   *)
LEMMA AnswerComplete ==
  ASSUME Types, NEW answer \in SetToSeqs(verified), NEW list \in Lists(Known)
  PROVE  Names(deleted, answer, list)
<1> DEFINE n == Cardinality(verified)
<1>1. IsFiniteSet(verified) /\ n \in Nat
  BY FundingConstants, FS_Subset, FS_CardinalityType DEF Types
<1>2. answer \in [1..n -> verified] /\ \A i, j \in 1..n : i # j => answer[i] # answer[j]
  BY DEF SetToSeqs
<1>3. answer \in Injection(1..n, verified)
  BY <1>2 DEF Injection, IsInjective
<1>4. Cardinality(1..n) = n
  BY <1>1, FS_Interval
<1>5. answer \in Surjection(1..n, verified)
  BY <1>1, <1>3, <1>4, FS_Injection
<1>6. \A v \in verified : \E j \in DOMAIN answer : answer[j] = v
  BY <1>5 DEF Surjection
<1>7. \A k \in DOMAIN list : list[k].roll \in deleted \/ list[k].roll \in verified
  BY ListElements DEF Known
<1>8. QED
  BY <1>6, <1>7 DEF Names

(* The voters an answer names keep the accounts they have in localStorage. *)
LEMMA GeneratedCovers ==
  ASSUME Types, NEW f \in DOMAIN fetches, Arrive(f), Names(deleted, fetches[f].list, stored)
  PROVE  Covers(deleted, accounts', stored)
<1> DEFINE names == fetches[f].list
<1>1. accounts' = Generated(names)
  BY ArrivesTyped
<1>2. /\ DOMAIN accounts' = DOMAIN names
      /\ \A k \in DOMAIN names : Cached(names[k]) # {} =>
           \E j \in Cached(names[k]) : accounts'[k] = stored[j]
  BY <1>1 DEF Generated
<1>3. ASSUME NEW i \in DOMAIN stored, stored[i].roll \notin deleted
      PROVE  Has(accounts', stored[i])
  <2>1. PICK k \in DOMAIN names : names[k] = stored[i].roll
    BY <1>3 DEF Names
  <2>2. i \in Cached(names[k])
    BY <2>1 DEF Cached
  <2>3. PICK j \in Cached(names[k]) : accounts'[k] = stored[j]
    BY <1>2, <2>2
  <2>4. j = i
    BY <2>1, <2>3, ListElements DEF Cached, Types, AccountTypes
  <2>5. QED
    BY <1>2, <2>3, <2>4 DEF Has
<1>4. QED
  BY <1>3 DEF Covers

(* What is not noted as an upset.                                          *)
LEMMA NotRegenerated ==
  ASSUME Types, [Next]_vars, "regenerated" \notin upsets'
  PROVE  /\ "regenerated" \notin upsets
         /\ Arrives => DOMAIN fetches' = {}
         /\ \A f \in DOMAIN fetches : FetchFails(f) => fetches[f].origin # "refresh"
         /\ Refresh => ~Running
         /\ StartClick \/ Reload => ~Refreshing
<1>1. "regenerated" \notin upsets
  BY UpsetsStay
<1>2. ASSUME NEW f \in DOMAIN fetches, Arrive(f)
      PROVE  DOMAIN fetches' = {}
  <2>1. fetches' = RemoveAt(fetches, f) /\ ~ (Len(fetches) > 1)
    BY <1>2 DEF Arrive, Upset
  <2>2. fetches \in Seq(Requests(Known))
    BY DEF Types, FetchTypes
  <2>3. DOMAIN fetches' = 1..(Len(fetches) - 1) /\ Len(fetches) \in Nat
    BY <2>1, <2>2, RemovedAt
  <2>4. QED
    BY <2>1, <2>3
<1>3. \A f \in DOMAIN fetches : FetchFails(f) => fetches[f].origin # "refresh"
  BY DEF FetchFails, Upset
<1>4. Refresh => ~Running
  BY DEF Refresh, Upset, Running
<1>5. StartClick \/ Reload => ~Refreshing
  BY DEF StartClick, Reload, Upset
<1>6. QED
  BY <1>1, <1>2, <1>3, <1>4, <1>5 DEF Arrives

(* When a refresh begins and ends.                                         *)
LEMMA RefreshingStep ==
  ASSUME Types, [Next]_vars, "regenerated" \notin upsets'
  PROVE  /\ Refreshing' => Refreshing \/ Refresh
         /\ Refreshing => Refreshing' \/ Arrives
         /\ Refresh => Refreshing'
<1>1. CASE UNCHANGED fetches
  <2>1. ~Refresh
    <3>1. ASSUME Refresh PROVE FALSE
      <4>1. fetches' = Ask("refresh")
        BY <3>1 DEF Refresh
      <4>2. /\ DOMAIN fetches = 1..Len(fetches) /\ DOMAIN fetches' = 1..(Len(fetches) + 1)
            /\ Len(fetches) \in Nat
        BY <4>1, Asking
      <4>3. Len(fetches) + 1 \in DOMAIN fetches' /\ Len(fetches) + 1 \notin DOMAIN fetches
        BY <4>2
      <4>4. QED
        BY <1>1, <4>3
    <3>2. QED
      BY <3>1
  <2>2. QED
    BY <1>1, <2>1 DEF Refreshing
<1>2. CASE Refresh
  <2>1. fetches' = Ask("refresh")
    BY <1>2 DEF Refresh
  <2>2. Len(fetches) + 1 \in DOMAIN fetches' /\ fetches'[Len(fetches) + 1].origin = "refresh"
    BY <2>1, Asking
  <2>3. QED
    BY <1>2, <2>2 DEF Refreshing
<1>3. CASE Reads
  <2>1. PICK f \in DOMAIN fetches : ReadVoters(f)
    BY <1>3 DEF Reads
  <2>2. /\ DOMAIN fetches' = DOMAIN fetches
        /\ \A g \in DOMAIN fetches : fetches'[g].origin = fetches[g].origin
    BY <2>1, Answering
  <2>3. Refreshing' <=> Refreshing
    BY <2>2 DEF Refreshing
  <2>4. QED
    BY <1>2, <2>3
<1>4. CASE Arrives
  <2>1. ~Refreshing'
    BY <1>4, NotRegenerated DEF Refreshing
  <2>2. QED
    BY <1>2, <1>4, <2>1
<1>5. CASE Fails
  <2>1. PICK f \in DOMAIN fetches : fetches' = RemoveAt(fetches, f) /\ fetches[f].origin # "refresh"
    BY <1>5, NotRegenerated DEF Fails, FetchFails
  <2>2. fetches \in Seq(Requests(Known))
    BY DEF Types, FetchTypes
  <2>3. /\ Len(fetches) \in Nat /\ DOMAIN fetches = 1..Len(fetches)
        /\ DOMAIN fetches' = 1..(Len(fetches) - 1)
        /\ \A g \in DOMAIN fetches' : fetches'[g] = fetches[IF g < f THEN g ELSE g + 1]
    BY <2>1, <2>2, RemovedAt
  <2>4. \A g \in DOMAIN fetches' : (IF g < f THEN g ELSE g + 1) \in DOMAIN fetches
    BY <2>3
  <2>5. ASSUME NEW g \in DOMAIN fetches, g # f
        PROVE  \E h \in DOMAIN fetches' : fetches'[h] = fetches[g]
    <3>1. CASE g < f
      BY <2>3, <3>1
    <3>2. CASE ~ (g < f)
      <4>1. g - 1 \in DOMAIN fetches' /\ ~ (g - 1 < f) /\ (g - 1) + 1 = g
        BY <2>3, <2>5, <3>2
      <4>2. QED
        BY <2>3, <4>1
    <3>3. QED
      BY <3>1, <3>2
  <2>6. Refreshing' <=> Refreshing
    BY <2>1, <2>3, <2>4, <2>5 DEF Refreshing
  <2>7. QED
    BY <1>2, <2>6
<1>6. CASE StartPosted
  <2>1. fetches' = fetches \/ fetches' = Ask("start")
    BY <1>6 DEF StartPosted
  <2>2. ASSUME fetches' = Ask("start")
        PROVE  Refreshing' <=> Refreshing
    <3>1. /\ Len(fetches) \in Nat /\ DOMAIN fetches = 1..Len(fetches)
          /\ DOMAIN fetches' = 1..(Len(fetches) + 1)
          /\ \A g \in DOMAIN fetches : fetches'[g] = fetches[g]
          /\ fetches'[Len(fetches) + 1].origin = "start"
      BY <2>2, Asking
    <3>2. DOMAIN fetches \subseteq DOMAIN fetches'
          /\ \A g \in DOMAIN fetches' : g \in DOMAIN fetches \/ g = Len(fetches) + 1
      BY <3>1
    <3>3. QED
      BY <3>1, <3>2 DEF Refreshing
  <2>3. QED
    BY <1>1, <1>2, <2>1, <2>2
<1>7. CASE Reload
  <2>1. fetches' = <<[origin |-> "load", pc |-> "asked", list |-> << >>]>> /\ ~Refreshing
    BY <1>7, NotRegenerated DEF Reload
  <2>2. ~Refreshing'
    BY <2>1 DEF Refreshing
  <2>3. QED
    BY <1>2, <2>1, <2>2
<1>8. QED
  BY <1>1, <1>2, <1>3, <1>4, <1>5, <1>6, <1>7, WhatChanges

(* How an election comes to run.                                           *)
LEMMA RunningStep ==
  ASSUME Types, AskedForStart, [Next]_vars
  PROVE  /\ Running' => Running \/ StartClick
         /\ active' => active \/ StartPosted \/ LateStart
         /\ StartPosted \/ LateStart \/ EmailSelected => Running
<1>1. active' => active \/ StartPosted \/ LateStart
  <2>1. End => ~active'
    BY DEF End
  <2>2. QED
    BY <2>1, WhatChanges
<1>2. StartPosted \/ LateStart \/ EmailSelected => Running
  BY DEF StartPosted, LateStart, EmailSelected, Starting, Running
<1>3. start'.pc # "idle" => Running \/ StartClick
  <2>1. CASE Arrives
    <3>1. PICK f \in DOMAIN fetches : Arrive(f)
      BY <2>1 DEF Arrives
    <3>2. CASE fetches[f].origin = "start"
      BY <3>2 DEF AskedForStart, Starting, Running
    <3>3. CASE fetches[f].origin # "start"
      BY <3>1, <3>3 DEF Arrive, Starting, Running
    <3>4. QED
      BY <3>2, <3>3
  <2>2. CASE Fails \/ Reload
    BY <2>2 DEF Fails, FetchFails, Reload, NotStarting, Starting, Running
  <2>3. CASE Sends
    BY <2>3 DEF Sends, SendCredentials, Starting, Running
  <2>4. CASE UNCHANGED start
    BY <2>4 DEF Starting, Running
  <2>5. QED
    BY <1>2, <2>1, <2>2, <2>3, <2>4, WhatChanges
<1>4. latePosts' > 0 => Running
  <2>1. CASE Reload
    <3>1. latePosts' = latePosts \/ start.pc = "posting"
      BY <2>1 DEF Reload
    <3>2. QED
      BY <3>1 DEF Starting, Running
  <2>2. CASE UNCHANGED latePosts
    BY <2>2 DEF Starting, Running
  <2>3. QED
    BY <1>2, <2>1, <2>2, WhatChanges
<1>5. mails' # {} => Running
  <2>1. ASSUME NEW acc \in mails'
        PROVE  Running
    <3>1. CASE acc \in mails
      BY <3>1 DEF Running
    <3>2. CASE acc \notin mails
      BY <3>2, AskedMails DEF Starting, Running
    <3>3. QED
      BY <3>1, <3>2
  <2>2. QED
    BY <2>1
<1>6. active' => Running
  BY <1>1, <1>2 DEF Running
<1>7. QED
  BY <1>1, <1>2, <1>3, <1>4, <1>5, <1>6 DEF Running, Starting

LEMMA NotEmpty ==
  ASSUME NEW voters, NEW list \in Lists(voters)
  PROVE  list # << >> <=> DOMAIN list # {}
<1>1. list \in Seq(Account) /\ DOMAIN list = 1..Len(list) /\ Len(list) \in Nat
  BY ListElements
<1>2. list # << >> => Len(list) > 0
  BY <1>1, EmptySeq
<1>3. list = << >> => Len(list) = 0
  BY EmptySeq
<1>4. QED
  BY <1>1, <1>2, <1>3

(* What becomes of the dashboard's list if no new one comes in.            *)
LEMMA AccountsKept ==
  ASSUME Types, [Next]_vars, ~Arrives
  PROVE  SameAccounts(accounts, accounts') \/ (Reload /\ accounts' = << >>)
<1>1. CASE UNCHANGED accounts
  BY <1>1 DEF SameAccounts
<1>2. CASE IncludeTransfer
  <2>1. ASSUME NEW ok \in BOOLEAN, accounts' = Marked(fund.i, ok)
        PROVE  SameAccounts(accounts, accounts')
    BY <2>1, MarkedAccounts DEF SameAccounts
  <2>2. QED
    BY <1>1, <1>2, <2>1, IncludeEffect
<1>3. CASE ResetFunding
  BY <1>3, ResetAccounts DEF SameAccounts
<1>4. CASE Reload
  BY <1>4, ReloadEffect
<1>5. CASE FundDone \/ Refresh
  BY <1>1, <1>5 DEF FundDone, Refresh
<1>6. QED
  BY <1>1, <1>2, <1>3, <1>4, <1>5, WhatChanges

(* What becomes of localStorage if no new list comes in.                   *)
LEMMA StoredChanges ==
  ASSUME Types, [Next]_vars
  PROVE  \/ stored' = stored
         \/ Arrives
         \/ FundDone /\ fund.pc # "idle" /\ accounts' = accounts /\ stored' = accounts
         \/ ResetFunding /\ stored' = accounts' /\ SameAccounts(accounts, accounts')
              /\ DOMAIN accounts # {}
         \/ Refresh /\ stored' = << >>
<1>1. FundDone => fund.pc # "idle" /\ accounts' = accounts /\ stored' = accounts
  BY DEF FundDone
<1>2. ASSUME ResetFunding
      PROVE  stored' = accounts' /\ SameAccounts(accounts, accounts') /\ DOMAIN accounts # {}
  <2>1. DOMAIN accounts # {}
    BY <1>2 DEF ResetFunding, ResetButton
  <2>2. QED
    BY <1>2, <2>1, ResetAccounts DEF SameAccounts
<1>3. Refresh => stored' = << >>
  BY DEF Refresh
<1>4. IncludeTransfer \/ Reload => stored' = stored
  BY DEF IncludeTransfer, Reload
<1>5. QED
  BY <1>1, <1>2, <1>3, <1>4, WhatChanges

LEMMA ListsTyped == Types => accounts \in Lists(Known) /\ stored \in Lists(Known)
  BY DEF Types, AccountTypes

LEMMA StoredKept ==
  ASSUME Types, SameAsStored, AnswersNameAll, [Next]_vars, "regenerated" \notin upsets', Running
  PROVE  Covers(deleted, stored', stored)
<1>0. /\ ~Refreshing
      /\ accounts # << >> \/ fund.pc # "idle" => Covers(deleted, accounts, stored)
  BY DEF SameAsStored
<1>1. CASE stored' = stored
  BY <1>1, CoversAll
<1>2. CASE Arrives
  <2>1. PICK f \in DOMAIN fetches : Arrive(f)
    BY <1>2 DEF Arrives
  <2>2. fetches[f].pc = "read" /\ stored' = accounts'
    BY <2>1 DEF Arrive
  <2>3. Names(deleted, fetches[f].list, stored)
    BY <2>2 DEF AnswersNameAll
  <2>4. QED
    BY <2>1, <2>2, <2>3, GeneratedCovers
<1>3. CASE fund.pc # "idle" /\ stored' = accounts
  BY <1>0, <1>3
<1>4. CASE stored' = accounts' /\ SameAccounts(accounts, accounts') /\ DOMAIN accounts # {}
  <2>1. accounts # << >>
    BY <1>4, ListsTyped, NotEmpty
  <2>2. Covers(deleted, accounts', accounts) /\ Covers(deleted, accounts, stored)
    BY <1>0, <1>4, <2>1, CoversAll
  <2>3. QED
    BY <1>4, <2>2, CoversAll
<1>5. QED
  BY <1>1, <1>2, <1>3, <1>4, StoredChanges, NotRegenerated

LEMMA SameAsStoredStep ==
  ASSUME Types, Types', AwaitsTransfer, AskedForStart, SameAsStored, AnswersNameAll,
         [Next]_vars, deleted' = deleted, "regenerated" \notin upsets'
  PROVE  SameAsStored'
<1>1. Running' => ~Refreshing'
  <2>1. Refresh => ~Running'
    BY NotRegenerated DEF Refresh, Starting, Running, late
  <2>2. Running' => ~Refreshing
    BY RunningStep, NotRegenerated DEF SameAsStored
  <2>3. QED
    BY <2>1, <2>2, RefreshingStep
<1>2. ASSUME ~Refreshing', accounts' # << >> \/ fund'.pc # "idle"
      PROVE  Covers(deleted, stored', accounts') /\ Covers(deleted, accounts', stored')
  <2>1. CASE Arrives
    <3>1. stored' = accounts'
      BY <2>1, ArrivesTyped DEF Arrives
    <3>2. QED
      BY <3>1, CoversAll
  <2>2. CASE ~Arrives
    <3>1. ~Refreshing /\ ~Refresh
      BY <1>2, <2>2, RefreshingStep
    <3>2. SameAccounts(accounts, accounts')
      BY <1>2, <2>2, AccountsKept, ReloadEffect DEF NotFunding
    <3>3. accounts # << >> \/ fund.pc # "idle"
      <4>1. CASE accounts' # << >>
        <5>1. accounts' \in Lists(Known') /\ DOMAIN accounts = DOMAIN accounts'
          BY <3>2 DEF Types, AccountTypes, SameAccounts
        <5>2. DOMAIN accounts # {}
          BY <4>1, <5>1, NotEmpty
        <5>3. QED
          BY <5>2, ListsTyped, NotEmpty
      <4>2. CASE fund'.pc # "idle" /\ FundClick
        <5>1. UnfundedFrom(accounts, 1) # {}
          BY <4>2 DEF FundClick, FundButton
        <5>2. DOMAIN accounts # {}
          BY <5>1 DEF UnfundedFrom
        <5>3. QED
          BY <5>2, ListsTyped, NotEmpty
      <4>3. CASE fund'.pc # "idle" /\ ~FundClick
        <5>1. FundNext \/ FundDone => fund.pc # "idle"
          BY DEF FundNext, FundDone
        <5>2. DropTransfer => fund' = fund
          BY DEF DropTransfer
        <5>3. Reload => fund'.pc = "idle"
          BY ReloadEffect DEF NotFunding
        <5>4. IncludeTransfer => fund' = fund \/ fund.pc = "waiting"
          BY PoolLeft, IncludeEffect DEF AwaitsTransfer
        <5>5. QED
          BY <4>3, <5>1, <5>2, <5>3, <5>4, WhatChanges
      <4>4. QED
        BY <1>2, <4>1, <4>2, <4>3
    <3>4. Covers(deleted, stored, accounts) /\ Covers(deleted, accounts, stored)
      BY <3>1, <3>3 DEF SameAsStored
    <3>5. Covers(deleted, accounts, accounts') /\ Covers(deleted, accounts', accounts)
      BY <3>2, CoversAll
    <3>6. CASE stored' = stored
      BY <3>4, <3>5, <3>6, CoversAll
    <3>7. CASE stored' = accounts \/ stored' = accounts'
      BY <3>5, <3>7, CoversAll
    <3>8. QED
      BY <2>2, <3>1, <3>6, <3>7, StoredChanges
  <2>3. QED
    BY <2>1, <2>2
<1>3. QED
  BY <1>1, <1>2 DEF SameAsStored

LEMMA AnswersNameAllStep ==
  ASSUME Types, Types', AnswersNameAll, [Next]_vars, deleted' = deleted,
         "regenerated" \notin upsets'
  PROVE  AnswersNameAll'
<1> SUFFICES ASSUME NEW g \in DOMAIN fetches', fetches'[g].pc = "read"
             PROVE  /\ Names(deleted, fetches'[g].list, accounts')
                    /\ Names(deleted, fetches'[g].list, stored')
  BY DEF AnswersNameAll
<1> DEFINE answer == fetches'[g].list
<1>0. ~Arrives
  BY NotRegenerated
<1>1. CASE \E f \in DOMAIN fetches : fetches'[g] = fetches[f]
  <2>1. Names(deleted, answer, accounts) /\ Names(deleted, answer, stored)
    BY <1>1 DEF AnswersNameAll
  <2> HIDE DEF answer
  <2>2. Names(deleted, answer, << >>)
    BY DEF Names
  <2>3. Names(deleted, answer, accounts')
    BY <1>0, <2>1, <2>2, AccountsKept, CoversAll, SameNames
  <2>4. Names(deleted, answer, stored')
    BY <1>0, <2>1, <2>2, <2>3, StoredChanges
  <2>5. QED
    BY <2>3, <2>4 DEF answer
<1>2. CASE UNCHANGED <<verified, deleted, accounts, stored>> /\ answer \in SetToSeqs(verified)
  <2> HIDE DEF answer
  <2>1. Names(deleted, answer, accounts) /\ Names(deleted, answer, stored)
    BY <1>2, ListsTyped, AnswerComplete
  <2>2. QED
    BY <1>2, <2>1 DEF answer
<1>3. QED
  BY <1>1, <1>2, RequestsStep

(* An account that is stored, unless its voter is gone.                    *)
Safe(gone, list, acc) == acc.roll \in gone \/ Has(list, acc)

LEMMA StillStored ==
  ASSUME NEW gone, NEW a, NEW b, Covers(gone, a, b), NEW acc, Safe(gone, b, acc)
  PROVE  Safe(gone, a, acc)
<1>1. CASE acc.roll \in gone
  BY <1>1 DEF Safe
<1>2. CASE acc.roll \notin gone
  <2>1. PICK j \in DOMAIN b : b[j].roll = acc.roll /\ b[j].mnemonic = acc.mnemonic
    BY <1>2 DEF Safe, Has
  <2>2. Has(a, b[j])
    BY <1>2, <2>1 DEF Covers
  <2>3. QED
    BY <2>1, <2>2 DEF Safe, Has
<1>3. QED
  BY <1>1, <1>2

MailsSafe == \A r \in DOMAIN mailed :
  Safe(deleted, stored, [roll |-> r, mnemonic |-> mailed[r].mnemonic])

(* Whose account a step mails is stored.                                   *)
LEMMA MailedIsStored ==
  ASSUME Types, MailsSafe, NEW acc \in Account, acc.roll \in Known,
         mailed' = Mailed(acc), Safe(deleted, stored, acc)
  PROVE  \A r \in DOMAIN mailed' :
           Safe(deleted, stored, [roll |-> r, mnemonic |-> mailed'[r].mnemonic])
<1> SUFFICES ASSUME NEW r \in DOMAIN mailed'
             PROVE  Safe(deleted, stored, [roll |-> r, mnemonic |-> mailed'[r].mnemonic])
  OBVIOUS
<1>1. /\ DOMAIN mailed' = DOMAIN mailed \cup {acc.roll}
      /\ mailed'[r] = IF r = acc.roll THEN [mnemonic |-> acc.mnemonic, funded |-> acc.funded]
                                      ELSE mailed[r]
  BY MailedMails
<1>2. CASE r = acc.roll
  BY <1>1, <1>2 DEF Safe, Has
<1>3. CASE r # acc.roll
  BY <1>1, <1>3 DEF MailsSafe
<1>4. QED
  BY <1>2, <1>3

LEMMA MailsAreStoredStep ==
  ASSUME Types, Types', AskedForStart, SameAsStored, AnswersNameAll, MailsAreStored,
         [Next]_vars, deleted' = deleted, "regenerated" \notin upsets'
  PROVE  MailsAreStored'
<1>0. /\ start.pc # "idle" => Covers(deleted, stored, start.list)
      /\ Running => Covers(deleted, stored, selected) /\ Covers(deleted, stored', stored)
      /\ \A acc \in mails : Safe(deleted, stored, acc)
      /\ active => MailsSafe
      /\ ~Refreshing => Covers(deleted, stored, accounts)
  BY StoredKept, CoversAll DEF MailsAreStored, SameAsStored, Safe, MailsSafe
<1>1. ASSUME start'.pc # "idle"
      PROVE  Covers(deleted, stored', start'.list)
  <2>1. CASE start.pc # "idle" /\ start'.list = start.list
    BY <1>0, <2>1, CoversAll DEF Starting, Running
  <2>2. CASE Arrives
    <3>1. start' = start \/ start'.list = stored'
      BY <2>2 DEF Arrives, Arrive
    <3>2. QED
      BY <1>1, <2>1, <3>1, CoversAll
  <2>3. CASE StartClick
    <3>1. start'.list = accounts /\ stored' = stored
      BY <2>3 DEF StartClick
    <3>2. QED
      BY <1>0, <2>3, <3>1, NotRegenerated
  <2>4. CASE StartPosted \/ Sends
    <3>1. start \in [pc : {"idle", "posting", "listing", "mailing"}, list : Lists(Known),
                     todo : SUBSET Nat]
      BY DEF Types, StartTypes
    <3>2. /\ start.pc # "idle"
          /\ \/ start' = NotStarting
             \/ start' = [start EXCEPT !.pc = "listing"]
             \/ start' = [start EXCEPT !.pc = "mailing", !.todo = DOMAIN start.list]
             \/ \E k \in start.todo : start' = [start EXCEPT !.todo = @ \ {k}]
      BY <2>4 DEF StartPosted, Sends, SendCredentials
    <3>3. start' # NotStarting
      BY <1>1 DEF NotStarting
    <3>4. start' = [start EXCEPT !.pc = "listing"] => start'.list = start.list
      BY <3>1
    <3>5. start' = [start EXCEPT !.pc = "mailing", !.todo = DOMAIN start.list]
            => start'.list = start.list
      BY <3>1
    <3>6. ASSUME NEW k \in start.todo, start' = [start EXCEPT !.todo = @ \ {k}]
          PROVE  start'.list = start.list
      BY <3>1, <3>6
    <3>7. QED
      BY <2>1, <3>2, <3>3, <3>4, <3>5, <3>6
  <2>5. CASE Fails \/ Reload
    BY <1>1, <2>1, <2>5 DEF Fails, FetchFails, Reload, NotStarting
  <2>6. CASE UNCHANGED start
    BY <1>1, <2>1, <2>6
  <2>7. QED
    BY <2>2, <2>3, <2>4, <2>5, <2>6, WhatChanges
<1>2. ASSUME Running'
      PROVE  Covers(deleted, stored', selected')
  <2>1. CASE StartClick
    <3>1. selected' = << >>
      BY <2>1 DEF StartClick, StartButton, Clickable, ui
    <3>2. QED
      BY <3>1, CoversAll
  <2>2. CASE Running /\ UNCHANGED selected
    BY <1>0, <2>2, CoversAll
  <2>3. CASE Opens
    <3>1. PICK k \in DOMAIN accounts : selected' = <<accounts[k]>> /\ stored' = stored
      BY <2>3 DEF Opens, Select
    <3>2. Running
      BY <2>3 DEF Opens, Select, Starting, Running
    <3>3. Covers(deleted, stored, accounts)
      BY <1>0, <3>2 DEF SameAsStored
    <3>4. DOMAIN selected' = {1} /\ selected'[1] = accounts[k]
      BY <3>1
    <3>5. QED
      BY <3>1, <3>3, <3>4 DEF Covers
  <2>4. CASE Deselect \/ Reload
    <3>1. selected' = << >>
      BY <2>4 DEF Deselect, Reload
    <3>2. QED
      BY <3>1, CoversAll
  <2>5. QED
    BY <1>2, <2>1, <2>2, <2>3, <2>4, RunningStep, WhatChanges
<1>3. ASSUME active'
      PROVE  MailsSafe'
  <2>1. CASE active /\ mailed' = mailed
    BY <1>0, <2>1, StillStored DEF Running, MailsSafe
  <2>2. CASE StartPosted \/ LateStart
    <3>1. mailed' = NoMail \/ (active /\ mailed' = mailed)
      BY <1>3, <2>2 DEF StartPosted, LateStart, Started
    <3>2. mailed' = NoMail => MailsSafe'
      BY DEF NoMail, MailsSafe
    <3>3. QED
      BY <2>1, <3>1, <3>2
  <2>3. CASE Sends \/ SendsLate
    <3>1. stored' = stored /\ active' = active
      BY <2>3 DEF Sends, SendCredentials, SendsLate, SendLate
    <3>2. CASE mailed' = mailed
      BY <1>3, <2>1, <3>1, <3>2
    <3>3. ASSUME NEW acc \in Account, acc.roll \in Known, mailed' = Mailed(acc),
                 \/ /\ Sends /\ start.pc = "mailing"
                    /\ \E k \in DOMAIN start.list : acc = start.list[k]
                 \/ SendsLate /\ acc \in mails
          PROVE  MailsSafe'
      <4>1. ASSUME start.pc = "mailing", NEW k \in DOMAIN start.list, acc = start.list[k]
            PROVE  Safe(deleted, stored, acc)
        BY <1>0, <4>1 DEF Covers, Safe
      <4>2. Safe(deleted, stored, acc)
        BY <1>0, <3>3, <4>1
      <4>3. QED
        BY <1>0, <1>3, <3>1, <3>3, <4>2, MailedIsStored DEF MailsSafe
    <3>4. QED
      BY <2>3, <3>2, <3>3, WhoIsMailed
  <2>4. CASE End
    BY <1>3, <2>4 DEF End
  <2>5. QED
    BY <1>3, <2>1, <2>2, <2>3, <2>4, RunningStep, WhatChanges
<1>4. ASSUME NEW acc \in mails'
      PROVE  Safe(deleted, stored', acc)
  <2>1. CASE acc \in mails
    BY <1>0, <2>1, StillStored DEF Running
  <2>2. CASE acc \notin mails
    <3>1. Running /\ Safe(deleted, stored, acc)
      <4>1. ASSUME active, selected = <<acc>>
            PROVE  Running /\ Safe(deleted, stored, acc)
        <5>1. Running /\ 1 \in DOMAIN selected /\ selected[1] = acc
          BY <4>1 DEF Running
        <5>2. QED
          BY <1>0, <5>1 DEF Covers, Safe
      <4>2. ASSUME start.pc = "mailing", NEW k \in DOMAIN start.list, acc = start.list[k]
            PROVE  Running /\ Safe(deleted, stored, acc)
        BY <1>0, <4>2 DEF Covers, Safe, Starting, Running
      <4>3. QED
        BY <2>2, <4>1, <4>2, AskedMails
    <3>2. QED
      BY <1>0, <3>1, StillStored
  <2>3. QED
    BY <2>1, <2>2
<1>5. QED
  BY <1>1, <1>2, <1>3, <1>4 DEF MailsAreStored, MailsSafe, Safe

(* A student is deleted: less is asked of the lists.                       *)
LEMMA MoreGone ==
  ASSUME NEW gone, NEW more, gone \subseteq more
  PROVE  /\ \A a, b : Covers(gone, a, b) => Covers(more, a, b)
         /\ \A answer, list : Names(gone, answer, list) => Names(more, answer, list)
  BY DEF Covers, Names

LEMMA DeletionStep ==
  ASSUME AskedForStart, SameAsStored, AnswersNameAll, MailsAreStored, Deletes
  PROVE  AskedForStart' /\ SameAsStored' /\ AnswersNameAll' /\ MailsAreStored'
<1>1. /\ deleted \subseteq deleted'
      /\ UNCHANGED <<active, accounts, selected, stored, fetches, fund, start, latePosts,
                     mails, mailed>>
  BY DEF Deletes, StudentDelete, ui, late
<1>2. /\ \A a, b : Covers(deleted, a, b) => Covers(deleted', a, b)
      /\ \A answer, list : Names(deleted, answer, list) => Names(deleted', answer, list)
  BY <1>1, MoreGone
<1>3. AskedForStart'
  BY <1>1 DEF AskedForStart
<1>4. (Refreshing' <=> Refreshing) /\ (Running' <=> Running)
  BY <1>1 DEF Refreshing, Running, Starting
<1>5. SameAsStored'
  BY <1>1, <1>2, <1>4 DEF SameAsStored
<1>6. AnswersNameAll'
  BY <1>1, <1>2 DEF AnswersNameAll
<1>7. MailsAreStored'
  BY <1>1, <1>2, <1>4 DEF MailsAreStored
<1>8. QED
  BY <1>3, <1>5, <1>6, <1>7

LEMMA NothingLostInit == Init => AskedForStart /\ NothingLost
<1> SUFFICES ASSUME Init PROVE AskedForStart /\ NothingLost
  OBVIOUS
<1>1. /\ DOMAIN fetches = {1} /\ fetches[1].origin = "load" /\ fetches[1].pc = "asked"
      /\ accounts = << >> /\ stored = << >> /\ selected = << >> /\ ~active
      /\ fund.pc = "idle" /\ start.pc = "idle" /\ latePosts = 0 /\ mails = {}
  BY DEF Init, NotFunding, NotStarting
<1>2. AskedForStart
  BY <1>1 DEF AskedForStart
<1>3. SameAsStored /\ AnswersNameAll /\ MailsAreStored
  BY <1>1 DEF SameAsStored, AnswersNameAll, MailsAreStored, Running, Starting, Refreshing
<1>4. QED
  BY <1>2, <1>3 DEF NothingLost

LEMMA NothingLostInvariant == Spec => []NothingLost
<1>1. ASSUME Types, Types', AwaitsTransfer, AskedForStart, NothingLost, [Next]_vars
      PROVE  AskedForStart' /\ NothingLost'
  <2>1. AskedForStart'
    BY <1>1, AskedForStartStep
  <2>2. ASSUME "regenerated" \notin upsets'
        PROVE  SameAsStored' /\ AnswersNameAll' /\ MailsAreStored'
    <3>1. SameAsStored /\ AnswersNameAll /\ MailsAreStored
      BY <1>1, <2>2, UpsetsStay DEF NothingLost
    <3>2. CASE Deletes
      BY <1>1, <3>1, <3>2, DeletionStep
    <3>3. CASE deleted' = deleted
      BY <1>1, <2>2, <3>1, <3>3, SameAsStoredStep, AnswersNameAllStep, MailsAreStoredStep
    <3>4. QED
      BY <1>1, <3>2, <3>3, WhatChanges
  <2>3. QED
    BY <2>1, <2>2 DEF NothingLost
<1>2. QED
  BY <1>1, NothingLostInit, AllMarksPaidInvariant, PTL DEF Spec

(* While an election is active localStorage holds the mnemonics that were  *)
(* mailed in it, so that the dashboard can send and export them again,     *)
(* through reloads, late starts and late mails - unless the voter's        *)
(* student was deleted, a refreshAccounts was still under way at the       *)
(* start, was let through by a failed status request or clicked while a    *)
(* start or a mail was under way, or lists overtook each other.            *)
THEOREM FundingMailIsCurrent == Spec => []MailIsCurrent
<1>1. NothingLost => MailIsCurrent
  BY DEF NothingLost, MailsAreStored, Has, MailIsCurrent
<1>2. QED
  BY <1>1, NothingLostInvariant, PTL
=============================================================================
