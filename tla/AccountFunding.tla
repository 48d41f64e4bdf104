---------------------------- MODULE AccountFunding ----------------------------
(***************************************************************************)
(* The voters' chain accounts (Frontend/.../Admin.tsx): generated in the   *)
(* dashboard for the voters verified so far, cached in localStorage,       *)
(* funded one by one, and mailed when an election starts.                  *)
(*                                                                         *)
(* The dashboard holds the accounts in React state and copies them to      *)
(* localStorage; nothing else knows them.  Its handlers run interleaved at *)
(* their awaits, and each goes on with the list it was started with:       *)
(* fundAllAccounts marks entries of the state by their index in that list, *)
(* startElection mails that list.  The buttons of the one are not disabled *)
(* by the other.  What a reloaded dashboard has sent goes on without it:   *)
(* transfers, mails and the POST that starts the election.                 *)
(*                                                                         *)
(* The dashboard's status of the election is taken to be Django's (what    *)
(* becomes of a stale one is in ElectionSystem).                           *)
(* get_verified_voters gives the rows in no particular order.              *)
(***************************************************************************)
EXTENDS Integers, Sequences, FiniteSets, SequencesExt

CONSTANTS
  Rolls,
  MaxMnemonics,  \* bound on the mnemonics generated
  MaxStarts,     \* bound on the elections started
  MaxFetches,    \* bound on the requests under way at once
  MaxPool,       \* bound on the transfers in the pool
  MaxMails,      \* bound on the mails under way that the modal adds to
  MaxMishaps     \* bound on the upsets and the students deleted

ASSUME FundingConstants ==
  /\ IsFiniteSet(Rolls)
  /\ {MaxMnemonics, MaxStarts, MaxFetches, MaxPool, MaxMails, MaxMishaps}
       \subseteq Nat

VARIABLES
  verified,  \* the verified voters (Django)
  deleted,   \* history: the verified voters whose student was ever deleted
  active,    \* whether Django's election is active
  accounts,  \* the dashboard's accounts, in the order of the last answer
  loading,   \* with no account to show the dashboard is a spinner meanwhile
  selected,  \* the account in the detail modal as it was when clicked, or none
  stored,    \* localStorage "blockchain_accounts"
  minted,    \* the mnemonics made so far are 1..minted
  fetches,   \* requests for the verified voters under way, each "asked" or
             \* with its answer on the way back
  fund,      \* the running fundAllAccounts: its list, and where it is
  pool,      \* the transfers in the pool
  paid,      \* chain: the transfers each mnemonic's address has received,
             \* 2 for two or more
  start,     \* the running startElection
  latePosts, \* the POSTs of starts that no dashboard waits for any more
  mails,     \* the mails asked for, and not sent yet, that no start waits for
  mailed,    \* the last credentials mailed to each voter since Django's
             \* election was started
  starts,    \* elections started, for the bound
  upsets,    \* history: what has happened that the dashboard is no match for
  mishaps    \* upsets and deletions so far, for the bound

ui == <<loading, selected>>
late == <<latePosts, mails>>
history == <<upsets, mishaps>>
vars == <<verified, deleted, active, accounts, ui, stored, minted, fetches, fund, pool,
          paid, start, late, mailed, starts, history>>

Account == [roll : Rolls, mnemonic : 1..MaxMnemonics, funded : BOOLEAN]
Mail == [mnemonic : 1..MaxMnemonics, funded : BOOLEAN]

NotFunding == [pc |-> "idle", list |-> << >>, i |-> 0]
NotStarting == [pc |-> "idle", list |-> << >>, todo |-> {}]

NoMail == [r \in {} |-> {}]

(* Neither the spinner nor the modal is in the way.                        *)
Clickable == selected = << >> /\ (accounts # << >> \/ ~loading)

Ask(origin) == Append(fetches, [origin |-> origin, pc |-> "asked", list |-> << >>])

Upset(kinds) ==
  /\ upsets' = upsets \cup kinds
  /\ mishaps' = mishaps + Cardinality(kinds) /\ mishaps' <= MaxMishaps

(* The dashboard has just been opened.                                     *)
Init ==
  /\ verified \in SUBSET Rolls /\ deleted = {}
  /\ active = FALSE
  /\ accounts = << >> /\ stored = << >> /\ minted = 0
  /\ loading = TRUE /\ selected = << >>
  /\ fetches = <<[origin |-> "load", pc |-> "asked", list |-> << >>]>>
  /\ fund = NotFunding /\ pool = << >>
  /\ paid = [m \in 1..MaxMnemonics |-> 0]
  /\ start = NotStarting /\ latePosts = 0 /\ mails = {}
  /\ mailed = NoMail
  /\ starts = 0
  /\ upsets = {} /\ mishaps = 0

Verify(r) ==
  /\ r \notin verified
  /\ verified' = verified \cup {r}
  /\ UNCHANGED <<ui, deleted, active, accounts, stored, minted, fetches, fund, pool, paid,
                 start, late, mailed, starts, history>>

(* The student is deleted, at any time, and the voter with it; the same    *)
(* roll may register and be verified again.                                *)
StudentDelete(r) ==
  /\ r \in verified
  /\ verified' = verified \ {r} /\ deleted' = deleted \cup {r}
  /\ mishaps' = mishaps + 1 /\ mishaps' <= MaxMishaps
  /\ UNCHANGED <<ui, active, accounts, stored, minted, fetches, fund, pool, paid,
                 start, late, mailed, starts, upsets>>

-----------------------------------------------------------------------------
(* fetchAndGenerateAccounts                                                *)

(* get_verified_voters                                                     *)
ReadVoters(f) ==
  /\ fetches[f].pc = "asked"
  /\ \E list \in SetToSeqs(verified) :
       fetches' = [fetches EXCEPT ![f].pc = "read", ![f].list = list]
  /\ UNCHANGED <<ui, verified, deleted, active, accounts, stored, minted, fund, pool,
                 paid, start, late, mailed, starts, history>>

Cached(r) == {j \in DOMAIN stored : stored[j].roll = r}

(* A voter whose account is in localStorage keeps it; the others get one.  *)
Generated(list) ==
  LET Uncached(k) == {n \in 1..k : Cached(list[n]) = {}}
  IN  [k \in DOMAIN list |->
         IF Cached(list[k]) # {}
           THEN stored[CHOOSE j \in Cached(list[k]) : TRUE]
           ELSE [roll |-> list[k], mnemonic |-> minted + Cardinality(Uncached(k)),
                 funded |-> FALSE]]

MaxMinted(list) == {minted} \cup {list[k].mnemonic : k \in DOMAIN list}

(* A list comes in; the start of an election that had none goes on with    *)
(* it.  It comes at a bad moment if accounts are being funded, or if it    *)
(* may be older than another one.                                          *)
Arrive(f) ==
  LET list == Generated(fetches[f].list)
  IN  /\ fetches[f].pc = "read"
      /\ MaxMinted(list) \subseteq 0..MaxMnemonics
      /\ accounts' = list /\ stored' = list
      /\ minted' = CHOOSE m \in MaxMinted(list) : \A n \in MaxMinted(list) : n <= m
      /\ start' = IF fetches[f].origin = "start"
                    THEN [pc |-> IF list = << >> THEN "idle" ELSE "mailing",
                          list |-> list, todo |-> DOMAIN list]
                    ELSE start
      /\ fetches' = RemoveAt(fetches, f)
      /\ Upset({u \in {"replaced"} : fund.pc # "idle"}
                 \cup {u \in {"regenerated"} : Len(fetches) > 1})
      /\ loading' = FALSE
      /\ UNCHANGED <<selected, verified, deleted, active, fund, pool, paid, late,
                     mailed, starts>>

(* The request fails: the accounts stay as they are.                       *)
FetchFails(f) ==
  /\ fetches' = RemoveAt(fetches, f)
  /\ start' = IF fetches[f].origin = "start" THEN NotStarting ELSE start
  /\ Upset({u \in {"regenerated"} : fetches[f].origin = "refresh"})
  /\ loading' = FALSE
  /\ UNCHANGED <<selected, verified, deleted, active, accounts, stored, minted, fund,
                 pool, paid, late, mailed, starts>>

-----------------------------------------------------------------------------
(* fundAllAccounts, resetFundedStatus and refreshAccounts                  *)

Refreshing == \E f \in DOMAIN fetches : fetches[f].origin = "refresh"

UnfundedFrom(list, i) == {k \in DOMAIN list : k >= i /\ ~list[k].funded}

FundButton == Clickable /\ fund.pc = "idle" /\ UnfundedFrom(accounts, 1) # {}
ResetButton == Clickable /\ \E k \in DOMAIN accounts : accounts[k].funded

FundClick ==
  /\ FundButton
  /\ fund' = [pc |-> "next", list |-> accounts, i |-> 1]
  /\ UNCHANGED <<ui, verified, deleted, active, accounts, stored, minted, fetches,
                 pool, paid, start, late, mailed, starts, history>>

FundNext ==
  LET left == UnfundedFrom(fund.list, fund.i)
  IN  /\ fund.pc = "next" /\ Len(pool) < MaxPool
      /\ \E k \in left :
           /\ \A n \in left : k <= n
           /\ fund' = [fund EXCEPT !.pc = "waiting", !.i = k]
           /\ pool' = Append(pool, [mnemonic |-> fund.list[k].mnemonic, watched |-> TRUE])
      /\ UNCHANGED <<ui, verified, deleted, active, accounts, stored, minted, fetches,
                     paid, start, late, mailed, starts, history>>

(* Mutant: the account is marked even if the transfer has failed.          *)
MarkedAnyway(i, ok) ==
  [k \in DOMAIN accounts |->
     IF k = i THEN [accounts[k] EXCEPT !.funded = TRUE] ELSE accounts[k]]

Marked(i, ok) ==
  [k \in DOMAIN accounts |->
     IF k = i /\ ok THEN [accounts[k] EXCEPT !.funded = TRUE] ELSE accounts[k]]

(* A block includes a transfer, which succeeds or not; the loop goes on.   *)
IncludeTransfer ==
  /\ pool # << >>
  /\ pool' = Tail(pool)
  /\ \E ok \in BOOLEAN :
       /\ paid' = IF ok THEN [paid EXCEPT ![Head(pool).mnemonic] = IF @ = 0 THEN 1 ELSE 2]
                       ELSE paid
       /\ IF Head(pool).watched
            THEN /\ accounts' = Marked(fund.i, ok)
                 /\ fund' = [fund EXCEPT !.pc = "next", !.i = @ + 1]
            ELSE UNCHANGED <<accounts, fund>>
  /\ UNCHANGED <<ui, verified, deleted, active, stored, minted, fetches, start, late,
                 mailed, starts, history>>

(* A transfer the pool drops: signAndSend's own failure settles nothing,   *)
(* so the loop waits until the page is reloaded.                           *)
DropTransfer ==
  /\ pool # << >>
  /\ pool' = Tail(pool)
  /\ UNCHANGED <<ui, verified, deleted, active, accounts, stored, minted, fetches,
                 fund, paid, start, late, mailed, starts, history>>

(* Mutant: the flags are not written back to localStorage.                 *)
FundForgets ==
  /\ fund.pc = "next" /\ UnfundedFrom(fund.list, fund.i) = {}
  /\ fund' = NotFunding
  /\ UNCHANGED <<ui, verified, deleted, active, accounts, stored, minted, fetches,
                 pool, paid, start, late, mailed, starts, history>>

FundDone ==
  /\ fund.pc = "next" /\ UnfundedFrom(fund.list, fund.i) = {}
  /\ stored' = accounts
  /\ fund' = NotFunding
  /\ UNCHANGED <<ui, verified, deleted, active, accounts, minted, fetches, pool, paid,
                 start, late, mailed, starts, history>>

(* "Use this after purging the chain to re-fund accounts"                  *)
ResetFunding ==
  LET unfunded == [k \in DOMAIN accounts |-> [accounts[k] EXCEPT !.funded = FALSE]]
  IN  /\ ResetButton
      /\ accounts' = unfunded /\ stored' = unfunded
      /\ Upset({"unflagged"})
      /\ UNCHANGED <<ui, verified, deleted, active, minted, fetches, fund, pool, paid,
                     start, late, mailed, starts>>

(* Mutant: the election's status is not asked for.                         *)
RefreshAnytime ==
  /\ Len(fetches) < MaxFetches
  /\ stored' = << >>
  /\ fetches' = Ask("refresh")
  /\ loading' = TRUE
  /\ UNCHANGED <<selected, verified, deleted, active, accounts, minted, fund, pool,
                 paid, start, late, mailed, starts, history>>

(* A start is under way, on this dashboard or on one that is gone.         *)
Starting == start.pc # "idle" \/ latePosts > 0

(* A status request that fails counts as an election that is not active.   *)
(* Clicked before that request, so whatever covers the button now.         *)
Refresh ==
  /\ Len(fetches) < MaxFetches
  /\ stored' = << >>
  /\ fetches' = Ask("refresh")
  /\ Upset({u \in {"regenerated"} : active \/ Starting \/ mails # {}})
  /\ loading' = TRUE
  /\ UNCHANGED <<selected, verified, deleted, active, accounts, minted, fund, pool,
                 paid, start, late, mailed, starts>>

-----------------------------------------------------------------------------
(* startElection (its chain and Django parts are in ElectionSystem)        *)

StartButton == Clickable /\ ~active /\ start.pc = "idle"
EndButton == Clickable /\ active /\ start.pc = "idle"

StartClick ==
  /\ StartButton /\ starts < MaxStarts
  /\ start' = [pc |-> "posting", list |-> accounts, todo |-> {}]
  /\ starts' = starts + 1
  /\ Upset({u \in {"regenerated"} : Refreshing})
  /\ UNCHANGED <<ui, verified, deleted, active, accounts, stored, minted, fetches,
                 fund, pool, paid, late, mailed>>

(* Mutant: as many mails as the dashboard has accounts now.                *)
StartPostedForShown ==
  /\ start.pc = "posting"
  /\ active' = TRUE
  /\ start' = [start EXCEPT !.pc = "mailing", !.todo = DOMAIN accounts]
  /\ UNCHANGED <<ui, verified, deleted, accounts, stored, minted, fetches, fund, pool,
                 paid, late, mailed, starts, history>>

Started ==
  /\ active' = TRUE
  /\ mailed' = IF active THEN mailed ELSE NoMail

(* Started, with no account in the list once it is fetched; or refused, or *)
(* the answer is lost, when Django may yet start it.                       *)
StartPosted ==
  /\ start.pc = "posting"
  /\ \/ /\ Started /\ latePosts' = latePosts
        /\ IF start.list = << >>
             THEN /\ start' = [start EXCEPT !.pc = "listing"]
                  /\ Len(fetches) < MaxFetches
                  /\ fetches' = Ask("start") /\ loading' = TRUE
             ELSE /\ start' = [start EXCEPT !.pc = "mailing", !.todo = DOMAIN start.list]
                  /\ UNCHANGED <<fetches, loading>>
     \/ /\ start' = NotStarting /\ latePosts' \in {latePosts, latePosts + 1}
        /\ UNCHANGED <<active, mailed, fetches, loading>>
  /\ UNCHANGED <<selected, verified, deleted, accounts, stored, minted, fund, pool, paid,
                 mails, starts, history>>

(* A POST whose dashboard is gone; Django has it, whatever has become of   *)
(* the election since, or never gets it.                                   *)
LateStart ==
  /\ latePosts > 0
  /\ latePosts' = latePosts - 1
  /\ Started \/ UNCHANGED <<active, mailed>>
  /\ UNCHANGED <<ui, verified, deleted, accounts, stored, minted, fetches, fund, pool,
                 paid, start, mails, starts, history>>

Mailed(acc) == [r \in DOMAIN mailed \cup {acc.roll} |->
  IF r = acc.roll THEN [mnemonic |-> acc.mnemonic, funded |-> acc.funded] ELSE mailed[r]]

(* sendCredentialsForAccount, for every account of the list at once; a     *)
(* mail that fails is only counted.                                        *)
SendCredentials(k) ==
  /\ start.pc = "mailing" /\ k \in start.todo
  /\ mailed' \in {mailed, Mailed(start.list[k])}
  /\ start' = IF start.todo = {k} THEN NotStarting
                                  ELSE [start EXCEPT !.todo = @ \ {k}]
  /\ UNCHANGED <<ui, verified, deleted, active, accounts, stored, minted, fetches,
                 fund, pool, paid, late, starts, history>>

SendLate(acc) ==
  /\ acc \in mails
  /\ mails' = mails \ {acc}
  /\ mailed' \in {mailed, Mailed(acc)}
  /\ UNCHANGED <<ui, verified, deleted, active, accounts, stored, minted, fetches, fund,
                 pool, paid, start, latePosts, starts, history>>

(* The detail modal keeps the account it was opened with, whatever becomes *)
(* of the list behind it; "Email to Student" mails that.  It has to be     *)
(* closed before an election can be started, and `mailed` has nothing of   *)
(* what was mailed before, so it is not opened earlier here.               *)
EmailButton == selected # << >>

Select(k) ==
  /\ Clickable
  /\ active \/ Starting
  /\ selected' = <<accounts[k]>>
  /\ UNCHANGED <<loading, verified, deleted, active, accounts, stored, minted, fetches,
                 fund, pool, paid, start, late, mailed, starts, history>>

EmailSelected ==
  /\ EmailButton /\ active /\ Cardinality(mails) < MaxMails
  /\ mails' = mails \cup {selected[1]}
  /\ UNCHANGED <<ui, verified, deleted, active, accounts, stored, minted, fetches, fund,
                 pool, paid, start, latePosts, mailed, starts, history>>

Deselect ==
  /\ selected # << >>
  /\ selected' = << >>
  /\ UNCHANGED <<loading, verified, deleted, active, accounts, stored, minted,
                 fetches, fund, pool, paid, start, late, mailed, starts, history>>

End ==
  /\ EndButton
  /\ active' = FALSE
  /\ mailed' = NoMail
  /\ UNCHANGED <<ui, verified, deleted, accounts, stored, minted, fetches, fund, pool,
                 paid, start, late, starts, history>>

(* The page is reloaded, at any moment: what was in React state is gone,   *)
(* what it has sent is not.  A start may be waiting for the chain, with    *)
(* its POST to Django not sent yet.                                        *)
Reload ==
  /\ accounts' = << >>
  /\ fetches' = <<[origin |-> "load", pc |-> "asked", list |-> << >>]>>
  /\ fund' = NotFunding
  /\ pool' = [n \in DOMAIN pool |-> [pool[n] EXCEPT !.watched = FALSE]]
  /\ start' = NotStarting
  /\ latePosts' \in {latePosts} \cup {n \in {latePosts + 1} : start.pc = "posting"}
  /\ mails' = mails \cup {start.list[k] : k \in start.todo}
  /\ Upset({u \in {"unflagged"} : fund.pc # "idle" \/ pool # << >>}
             \cup {u \in {"regenerated"} : Refreshing})
  /\ loading' = TRUE /\ selected' = << >>
  /\ UNCHANGED <<verified, deleted, active, stored, minted, paid, mailed, starts>>

Next ==
  \/ \E r \in Rolls : Verify(r) \/ StudentDelete(r)
  \/ \E f \in DOMAIN fetches : ReadVoters(f) \/ Arrive(f) \/ FetchFails(f)
  \/ FundClick \/ FundNext \/ IncludeTransfer \/ DropTransfer \/ FundDone
  \/ ResetFunding \/ Refresh
  \/ StartClick \/ StartPosted \/ LateStart \/ End
  \/ (\E k \in start.todo : SendCredentials(k)) \/ (\E acc \in mails : SendLate(acc))
  \/ (\E k \in DOMAIN accounts : Select(k)) \/ EmailSelected \/ Deselect
  \/ Reload

Spec == Init /\ [][Next]_vars

-----------------------------------------------------------------------------
(* Accounts, their copy, lists and mails are well typed; a list names a    *)
(* voter once.                                                             *)
TypeOK ==
  /\ verified \subseteq Rolls /\ deleted \subseteq Rolls /\ active \in BOOLEAN
  /\ \A list \in {accounts, stored, fund.list, start.list} :
       /\ list \in Seq(Account)
       /\ \A j, k \in DOMAIN list : list[j].roll = list[k].roll => j = k
  /\ loading \in BOOLEAN /\ selected \in {<< >>} \cup {<<a>> : a \in Account}
  /\ minted \in 0..MaxMnemonics
  /\ fund.pc \in {"idle", "next", "waiting"}
  /\ start.pc \in {"idle", "posting", "listing", "mailing"}
  /\ start.todo \subseteq DOMAIN start.list
  /\ latePosts \in 0..MaxStarts /\ mails \subseteq Account
  /\ paid \in [1..MaxMnemonics -> 0..2]
  /\ \A r \in DOMAIN mailed : r \in verified \cup deleted /\ mailed[r] \in Mail
  /\ upsets \subseteq {"replaced", "unflagged", "regenerated"}

(* "FUNDED - Ready to vote" (send_credentials_email): an account the       *)
(* dashboard or its localStorage has marked, and one a voter has been      *)
(* mailed as funded, has received a transfer - unless a list came in while *)
(* the loop was marking accounts by their index.                           *)
FundedIsPaid ==
  "replaced" \notin upsets =>
    /\ \A list \in {accounts, stored} : \A k \in DOMAIN list :
         list[k].funded => paid[list[k].mnemonic] > 0
    /\ \A r \in DOMAIN mailed : mailed[r].funded => paid[mailed[r].mnemonic] > 0

(* Nobody is funded twice, through all reloads and lists - as long as no   *)
(* list came in, and no reload or reset fell, between a payment and the    *)
(* end of the loop that writes the marks to localStorage.                  *)
PaidOnce ==
  upsets \cap {"replaced", "unflagged"} = {} =>
    \A m \in 1..MaxMnemonics : paid[m] <= 1

(* While an election is active localStorage holds the mnemonic that was    *)
(* last mailed in it to each voter, so that the dashboard can send and     *)
(* export it again, through reloads, late starts, late mails and lists -   *)
(* unless the voter's student was deleted, a refresh was still under way   *)
(* at the start, let through by a failed status request or clicked while a *)
(* start or a mail was under way, or lists overtook each other.            *)
MailIsCurrent ==
  active /\ "regenerated" \notin upsets =>
    \A r \in DOMAIN mailed \ deleted : \E j \in DOMAIN stored :
      stored[j].roll = r /\ stored[j].mnemonic = mailed[r].mnemonic

(* "Starting election will immediately email 12-word mnemonic credentials  *)
(* to all registered and verified voters." (Admin.tsx): the list a start   *)
(* goes on with names every voter verified by then.                        *)
EveryoneMailed ==
  [][start.pc = "posting" /\ start'.pc = "mailing" =>
       \A r \in verified : \E k \in DOMAIN start.list : start.list[k].roll = r]_vars
=============================================================================
