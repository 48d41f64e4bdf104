# Chainballot in TLA+

A verification project for Chainballot, an online voting system: a Substrate
pallet that stores encrypted votes, a Django backend that knows who may vote,
and a React frontend that carries each vote from the one to the other. The
modules here are translated from the source under `src/`; TLC checks safety
and liveness on small instances, and TLAPS proves the safety properties for
every size.

Paths below are short: `lib.rs` is `src/Blockchain/pallets/voting/src/lib.rs`,
`voting/views.py`, `voter/views.py` and `student/views.py` are under
`src/Backend/`, and the `.tsx` files are under
`src/Frontend/chain_ballot_frontend/src/` (mostly `components/`).

## The system

| Part | State | Operations |
|---|---|---|
| Voting pallet, `lib.rs` | CurrentPhase, EncryptedVotes, VoteCounter, HasVoted, Tally, RevealedCount | start_election, end_election, reset_election, reveal_vote, finalize_tally (root, through sudo); submit_vote (any signed account) |
| Election, candidates and signatures, `voting/views.py` | ElectionState.status, Candidate, BlindSignature, Voter.is_voted | start_election, end_election, election_status, register_candidate, delete_candidate, get_candidates, sign_blind_vote |
| Voters and students, `voter/views.py`, `student/views.py` | Student, User, Voter, VoterOTP, sessions | registration, verify_email, voter_login, verify_voter_otp, logout, adding and deleting students, get_verified_voters, send_credentials_email |
| Voting page, `Mergedvoting.tsx` | React state: account, choice, signature, steps | import the account, choose, review, verify (Django), submit (chain) |
| Admin dashboard, `Admin.tsx` | React state and localStorage | start and end an election, accounts and funding, credentials, reveal panel, results tab, candidates, students |
| Registration and login pages, admin login | React state of each tab, session cookie of the browser | register, log in, OTP, show the profile, admin login, logouts |
| Results page, `Results.tsx`, on `App.tsx`'s connection | React state | asks Django once and polls the chain every three seconds |
| Block explorer, `Blockexplorer.tsx` | React state, a connection and its subscription | connect, follow the heads, fetch each block, reconnect, leave |
| Contact form, static pages | | not modelled, see below |
| Node and runtime | pool, blocks, balances, sudo key | Substrate; modelled only as far as the program relies on it |

**How the parts meet.** The two backends never talk to each other. A vote goes
from the page to Django, which checks the session, the status and whether the
voter has voted, and signs; then from the page to the chain, which checks the
phase and whether the account has voted, and stores it. The chain does not look
at the signature. The dashboard starts and ends an election on the chain first
and in Django second. It generates the voters' chain accounts, keeps them in
localStorage, funds them and mails them. It reveals votes one by one and
finalizes the count; the results tab and the public page read the counters.

**What is hard about it.**

- Two stores changed one after the other, no transaction over both, and a
  browser in between whose state a reload throws away.
- Django requests that interleave between their statements (READ COMMITTED, no
  `select_for_update`); only unique columns and the row locks of an UPDATE
  serialise them.
- Extrinsics that are included late, dropped, or included after their page is
  gone; `sudo` answers Ok when the inner call failed.
- Pages that share something behind each other's back: the tabs of a browser
  its session, a page mounted twice its refs.
- Answers that come in any order, over a connection that is lost and rejoined.
- Handlers in the dashboard that go on with a list, a selection or counters
  read before an `await`; overlapping polls and status requests.
- Counters that saturate; a chain that remembers neither which votes have been
  revealed nor, after a reset, anything at all.

PROJECT.json lists the hazards one by one, at their lines, with the properties
aimed at each.

## What makes each part correct

- **Pallet**: one slot for each voter and nobody else; a stored vote is final;
  the tally is what the reveals add up to; nothing is counted early, nothing
  changes after the close, nothing survives a reset.
- **Django election**: one signature for each voter and election; a voter who
  is told to have voted has been signed for; the candidate table has no
  collisions, nor has the list an admin decides by; every request is answered.
  (That an active election has candidates for all posts is checked by
  start_election, but does not hold: see below.)
- **The whole election** implements what voters and admin are promised: leave
  to vote is given once and for good, each who has it casts at most one vote
  while voting is open, no vote is lost or changed. "Recorded" is true when it
  is shown; chain and Django change phase in step; what was begun ends.
- **Counting**: the panel says that all votes are revealed only if they are;
  a reveal credits what its own ballot says, to one candidate of it and no more;
  a finalized tally was preceded by as many reveals as votes; the count comes to
  its end.
- **Results page**: never ahead of the chain, right in the end.
- **Block explorer**: the block it calls the latest gets its row, once; in the
  end it has the last block, also after its connection was lost.
- **Access**: one student, one voter, one user; OTPs expire, are used once and
  do not pile up; whom a page shows has had the session since it was loaded.
- **Accounts**: what is marked as funded is; nobody is funded twice; the mailed
  mnemonics are the stored ones.

## Modules

```
BallotBox <-- PalletRefinesBox
                     |
                VotingPallet
                  ^   ^   ^
   DjangoElection |   |   |
    ^       ^     |   |   |
    |    ElectionSystem  RevealPanel  ResultsPage   BlockExplorer   SessionPages
    |       |                               ^         ^               ^
    |       v                               |         |               |
    |    Election                           +---- PublicPages --------+
CandidatesTab                                                  VoterAccess  AccountFunding
```

An arrow points to the module that is instantiated or extended. `BallotBox` and
`Election` are abstract specifications; the others model code.

`MC*` modules hold the constants of the TLC instances and nothing else; that of
`pallet_is_box` also has TLC evaluate the hypothesis of its theorem.

Proofs are in modules of their own. `XProofs` extends `X`, for DjangoElection,
CandidatesTab, ElectionSystem, RevealPanel, VoterAccess, AccountFunding and
PublicPages, the last with the proofs about the three pages it composes;
`VotingPalletProofs` extends `PalletRefinesBox`, hence the pallet.
`ElectionSystemProofs` instantiates `DjangoElectionProofs` and with it Django's
inductive invariant.

**VotingPallet** (`lib.rs`). The variables are the storage items, plus
`revealLog`, the accepted reveal_vote calls, which the blocks record as events.
One action for each call. A call that fails an `ensure!` changes nothing, so
the actions are the accepted calls; `PhaseResult`, `SubmitVoteResult` and
`RevealVoteResult` keep the order of the checks and the errors. A byte string
is a model value with a length: the pallet looks at nothing else, but for the
equality of two hashes. `saturating_add` is `SaturatingInc`. `UsedNullifiers`
is left out, because the lines that would use it are commented out.

**BallotBox** is the abstract specification: an append-only sequence of
ballots, one from each voter while it is open, counted only when it is closed.
**PalletRefinesBox** reads the pallet's storage as such a box: `boxOf` lists the
slots in the order of their ids.

**DjangoElection** (`voting/views.py`, and `verify_email` and
`dev_verify_voter`, which write the same rows). Each request is cut into the
points where another request's commit can fall between two of its statements:
sign_blind_vote into the checks, the second look inside the transaction and the commit;
start_election into the check, its UPDATE of the voters (whose row locks are
`locked`) and the commit; and so on. A transaction's writes appear at its
commit. `issued` is a history variable: signatures given in this election.

**CandidatesTab** has a dashboard's `candidates` (`list`) over Django's requests
about them: each admin slot that is the dashboard's own has a handler that
awaits the answer, asks for the list and takes what comes. `admins` says what
kind of day it is: one admin who does one thing at a time, one in a hurry, or
several dashboards with requests and answers lost. Voters are left out (the
constants of DjangoElection that are theirs are empty): nothing they ask for
touches candidates or status.

**ElectionSystem** instantiates both backends and adds the browsers
(`page`, `pending`), the dashboard (`dash`, `fetches`) and the sudo calls in the
pool (`alice`). The dashboard's POSTs each take a slot of Django's
(`AdminPosts`): a dashboard that was reloaded may send one while Django still has
the one it sent before. Pages may be reloaded and closed, requests and answers lost,
extrinsics dropped - unless `Orderly`. Voters are verified and funded here, and
candidates registered.

**Election** is what all of that is for, in four actions: Open, Grant, Cast,
Close. ElectionSystem reads itself as one: `stageOf` is the chain's phase, the
voters granted are those with a BlindSignature row, and `boxOf` lists the slots
of the chain, each with the voter whose account filled it and the choice in its
ballot (`voteOf`). `ImplementsElection` is the refinement, checked over every
loss, crash and reload of the run. Grant is allowed after Close: a signature is
committed by a request that read the status earlier, and the abstract
specification says that it is of no use then.

**RevealPanel** drives the pallet from `VoteRevealPanel`: mounting (which reads
the counters and takes the votes with ids from RevealedCount up for the
unrevealed ones), selecting, decrypting, picking, revealing, finalizing, leaving
the tab. Next to it, `ResultsDisplay` with its subscription to VoteCounter and
overlapping fetches, every query of them a step.

**ResultsPage** has the public page's `fetchTally`, query by query, with the
polls under way in `polls`. Ballots are all alike here, and a reveal may credit
any candidate. Nothing is polled before App's connection is there (`api`). The
status and the candidates are asked for once, together; where the one fails the
page waits for ever, where the other does it has nothing to poll for (`listed`).

**BlockExplorer** has the page's two refs, the connections made (`links`), the
heads each has told and the blocks it has asked for. `LoseLink` is what the
client library does about a lost connection: it rejoins, and the next head it
tells is the present one. `strict` is the development build, whose StrictMode
mounts the page twice.

**SessionPages** has the session of each browser on the server and what the
tabs of a browser show of it. Every question about it is a request, an answer
and, later, its arrival at the page: verifyOtp's profile (`Profile`,
`ShowProfile`), checkAuth's (`CheckAuth`, `ShowAuth`), the admin's checkAuthStatus
(`CheckAdmin`, `ShowAdmin`) and both logins. Other tabs go on in between. login()
replaces the session the request came with; when its answer is lost the browser
is left with a key that opens nothing. `AdminLogout` leaves the session alone:
the request carries no CSRF token and the middleware refuses it before
`admin_logout` runs. `had` is a history variable: who has had the browser's
session since the tab's page was loaded. Which OTPs open a session is not
decided here: a login that was submitted may succeed or fail.

**PublicPages** is a visit to one of these three pages. They share nothing but
the router, which unmounts one before it mounts another; so a visit is a
behaviour of one of them.

**VoterAccess** has the student list, registration (one transaction), login
(statement by statement, no transaction), the OTP (read and compared, marked as
used, logged in with: three steps), the pages in front of them and the clock. A
tab is a page with the request it waits for.

**AccountFunding** has the accounts in React state (`accounts`), their copy
(`stored`), the loop of fundAllAccounts, startElection with its mails, refresh,
reset, the detail modal and the transfers in the pool. A student may be deleted
and the voter with it. A reload comes at any moment, also in the middle of a
start: the POST it has sent, or was about to send, may still start the election
(`latePosts`, `LateStart`), and its mails still go out (`mails`, `SendLate`).

No module has a RECURSIVE operator, and the invariants are conjunctions of named
parts, so that they can be proved about as they are checked.

## Runs

Each run checks its invariants and temporal properties together. Every property
has a mutant in PROJECT.json, a plausible bug in a mapped definition under which
the same run finds it violated.

| Run | Instance | Shows |
|---|---|---|
| `pallet` | 4 accounts, `u32::MAX` = 2, `u64::MAX` = 3, 4 reveals, ballots that share a hash or are too long, resets at any point | Storage stays consistent, and does so when each of the three counters saturates |
| `pallet_is_box` | 3 accounts, both widths 3, 3 reveals | Without saturation the pallet implements BallotBox |
| `django_signing` | 2 voters, 2 blinded votes, 2 sign requests, 1 admin request, 2 save requests, 2 elections, DEBUG off, `FairSpec` | No second signature, no voter marked without one; every request is answered |
| `django_admin` | 2 admin requests at a time, 2 posts, 4 candidate rows that collide by id and by name and post, 2 elections | The list never collides, and is the table for an admin who waits |
| `election` | 2 voters, 2 choices, 1 election, 2 extrinsics of the admin in the pool, losses and reloads everywhere | The whole implements Election; what a page says was recorded is; the chain leads |
| `orderly_election` | the same, nothing lost, `FairSpec` | An end goes through; a vote that was sent settles |
| `counting` | up to 2 votes, 2 posts, 4 reveals, 2 extrinsics in the pool, `DiligentSpec` | The panel's "all revealed" is true, every ballot credits one of its candidates, the results tab shows that; counting ends |
| `public_pages` | /results: up to 2 votes, 1 post, 2 reveals, 2 polls at a time; /blockexplorer: 3 blocks, 2 rows, 2 fetches on each of 2 connections, 1 loss; logging in: 2 tabs of one browser, a voter and the admin; fair | Results never ahead of the chain; latest block never without its row; both pages right in the end; nobody shown from before a reload |
| `voter_access` | 2 students with one email, 2 tabs, 3 OTPs, time 0..4, a day of 3 units | Unique accounts; OTPs used once, expiring within the day and not piling up |
| `account_funding` | 2 voters, 2 mnemonics, 1 start, 2 requests at a time, 1 transfer in the pool, 1 mail of the modal under way, 1 upset or deletion | Marks, transfers and mails agree, up to the upsets and deletions each property names |
| `second_election` | 2 elections, nothing lost | Violation: reported as started, chain still Ended |
| `one_id_of_two` | 2 posts | Violation: one post of a ballot is counted |

**Why the bounds are enough.** Four accounts and a `u32::MAX` of 2 give one
vote that fills the last slot and one that overwrites it. Four reveals are one
more than the widest counter. In Django two requests of a kind are what any race here
takes: each is between one reader and one writer of a row, and the third slot
kind supplies the other party. Two elections let a request of the first commit
in the second. Two voters in the election give two browsers, one of which may
be reloaded while the other submits; two choices let a voter come back with
another choice. Two votes let one be revealed twice and the other be left out
with the counters equal, and four reveals every order of the two with repetitions;
two posts give a ballot a candidate that goes uncounted. Two polls are the least that overlap, and three heads with room for
two rows the least that come in the wrong order and push a row out. Two tabs
of one browser are what it takes to change a session under a request; tabs of
different browsers share only the tables. A voter and the admin are two users
who may follow each other in a session. A day of three units
of five minutes has an expired OTP before the wrap, and a clock up to 4 goes
beyond the wrap. Two mnemonics are two voters, or one whose account is made again.
One upset or deletion is what an exception of a property takes; what happens
without one is checked by the behaviours that have none, and the theorems hold for
any number. All
bounds appear in guards under their names (`MaxReveals`, `MaxElections`,
`MaxAdminTx`, `MaxPolls`, `MaxTime`, `MaxOTPs`, `MaxMnemonics`, `MaxStarts`,
`MaxFetches`, `MaxPool`, `MaxMails`, `MaxMishaps`, `MAX_BLOCKS`, `MaxHead`, `MaxLost`); symmetry is used only in runs of safety
properties.

`CHECK_DEADLOCK FALSE` stands in `orderly_election`, where nothing need happen after the last
election of the bound, in `public_pages`, whose visit ends with leaving a page
when no more happens on the chain, and in `account_funding`, where a promise that is never settled leaves nothing more to do within the bounds.

**Fairness.**

- `DjangoElection!FairSpec`: every step of an accepted request is weakly fair.
  Request threads are scheduled and Postgres grants a lock that is free.
- `ElectionSystem!FairSpec`: the same, blocks are produced, and an open
  dashboard goes on with a click once it was confirmed. No click and nothing a
  voter does is assumed. The losses of a network are excluded by `Orderly`,
  not by fairness, and the invariants are checked with them.
- `RevealPanel!DiligentSpec`: blocks are produced, and the admin goes on
  counting, coming in the end to leave one dropdown set, as a reveal needs it. Strong fairness is needed because what the admin does is disabled
  whenever the tab is left. It is an assumption about a person: without one
  who counts nothing is counted.
- `ResultsPage!Fairness`: App connects, counting goes on, the three-second timer ticks and
  the node answers. `WinnersSettle` claims its conclusion for the behaviours in
  which the votes are revealed once each, no query fails and the page stays open.
- `BlockExplorer!Fairness`: the node answers and timers run out. Nothing is
  assumed of the chain, of a lost connection or of who reads the page.

**Preconditions of some properties.** `AllRevealedIsTrue`, `OneCreditPerBallot`
and `CountingEnds` are about an orderly admin, chosen at the start of a
behaviour, who takes the first vote offered and waits for its block;
`EnoughReveals` is about any. The second half of `ListIsTable` is about an
orderly admin too, its first half about any number. `FundedIsPaid`, `PaidOnce` and `MailIsCurrent`
name the upsets that do break them (see below) and hold in all other orders;
`MailIsCurrent` is not about voters whose student was deleted, whose account the
next list leaves out. `ExpiresForTheDay` names the exception of the day's wrap.
`FeedSound` is not about the page that StrictMode connected twice, which gives a
block two rows, and needs fewer fetches under way than rows kept.
`ShownSinceLoaded` does not say that the session is still his whom the page shows,
nor that it was when he came to be shown: neither holds (`MC_ShownServed.cfg`,
`MC_ShownStays.cfg`). `OneSignaturePerElection` and `VotedHasSignature` are checked
with one admin request at a time and with DEBUG off; their theorems say what of
that they need. `ImplementsElection` is about the first election only; two starts
at Django at once are a matter of two elections, and are in
`MC_OverlappingStarts.cfg` and in the theorems, which hold for any number of slots.

## Where code and text disagree

Two runs expect a violation; PROJECT.json quotes the lines.

- **A second election does not start** (`second_election`). start_election
  needs NotStarted, and nothing in the frontend calls reset_election. `sudo`
  answers Ok for the refused inner call, so the dashboard starts Django and
  reports success.
- **One reveal, one post** (`one_id_of_two`). The panel sends "array of
  candidate IDs" to a call that takes a single u32.

More configurations give counterexamples, each in seconds to a minute
(`tlc -config X.cfg M`):

| Configuration, module | Property | What the source says |
|---|---|---|
| `MC_StuckButton.cfg`, MCElectionSystem | SubmitButtonReset | `Mergedvoting.tsx:655` "Always reset in finally so button never stays stuck": signAndSend resolves before the block, and a dropped extrinsic never calls back |
| `MC_NoRetry.cfg`, MCElectionSystem | CanTryAgain | `Mergedvoting.tsx:564` "Please try again.": once the answer with the signature is lost, Django refuses every further try |
| `MC_LostCandidate.cfg`, MCDjangoElection | ActiveHasAllPosts | `voting/views.py:93` and `:246`: a deletion and a start that race leave an active election with an empty post |
| `MC_TwoStarts.cfg`, MCDjangoElection | OneSignaturePerElection | `voting/views.py:83` "Election is already active": two starts received at once both find that it is not; the second commits when votes are being signed, deletes the signatures and lets each voter have another |
| `MC_StaleList.cfg`, MCCandidatesTab | QuietListIsTable | `Admin.tsx:1171` and `:1361` fetch the list after each change: fetches overlap, and one that was read earlier may arrive later |
| `MC_EveryoneMailed.cfg`, MCAccountFunding | EveryoneMailed | `Admin.tsx:1677` "will immediately email ... all registered and verified voters": it mails the list it has |
| `MC_ResultsNever.cfg`, MCPublicPages | WaitingIsOver | `Results.tsx:92`: the status is asked for once; a page opened during the election goes on waiting after its end |
| `MC_LeftOpen.cfg`, MCPublicPages | NothingLeftOpen | `Blockexplorer.tsx:294` cleans up what the refs know of: a page left while it connects leaves a live connection behind |
| `MC_AdminLogout.cfg`, SessionPages | LogoutEndsSession | `voter/views.py:411` "Logged out successfully": `Admin.tsx:1514` sends no CSRF token, the middleware (`settings.py:40`) refuses the request, its answer is ignored, and a reload shows the dashboard again |
| `MC_ShownServed.cfg`, SessionPages | ShownIsServed | `AuthContext.tsx:121` "Fetch profile AFTER OTP login": the answer is awaited (122-129), another tab logs in or out meanwhile, and the page comes to show one user with the session of another |
| `MC_ShownStays.cfg`, SessionPages | ShownStaysServed | `AuthContext.tsx:38-74` asks for the profile once: a page shows a voter after another tab logged out |
| `MC_OTPDayWrap.cfg`, MCVoterAccess | ExpiresInFiveMinutes | `voter/views.py:146` "It expires in 5 minutes.": `models.py:37` uses `.seconds`, which wraps every day |

Two more pass, and show on other bounds what the runs above leave out:
`MC_OverlappingStarts.cfg` (MCElectionSystem; two elections of one voter, with two
starts at Django at once: the chain still leads, the box has one ballot for each
voter, and what a page says was recorded is) and `MC_FundingAgain.cfg`
(MCAccountFunding; one voter, a second election with what the first has left on
its way).

Met while modelling and not given a run: `lib.rs:6-7` announces blind-signature
verification and nullifiers, neither of which is done; a signature may be
committed after the election has ended, as the status is read before the
transaction; `dev_verify_voter`, with DEBUG, may write an old `is_voted` back;
deleting a student leaves its user, whose email then blocks registration
(`voter/views.py:48`); status requests answered out of order can disable the
End button; a reveal that finishes after the tab was reopened closes the new
panel; refreshAccounts takes a failed status request for an inactive election
(`Admin.tsx:1481`); a list that arrives during funding makes marks and "FUNDED"
mails wrong; the results page wants RevealedCount equal to VoteCounter where the panel wants at
least as many; "Total Votes Casted" in the results tab divides by four
whatever was credited (`Admin.tsx:740`); the mail of a new OTP may fail after
the old ones were invalidated.

## Proofs

Every safety property that a passing run checks is also a theorem, for all
accounts, voters, posts, candidates, ballots, counter widths, requests, tabs and
bounds. The runs found what the theorems should say, and most of the inductive
invariants below were invariants of a run before they were proved.

| Theorem | Says |
|---|---|
| **VotingPalletProofs** | |
| PalletTypeCorrect | the storage keeps its types |
| PalletOneSlotPerVoter | slots and voters correspond, saturated or not |
| PalletTallyMatchesReveals | Tally and RevealedCount are the counts of the reveals, up to saturation |
| PalletRevealsMatchStoredVotes | every reveal presented the hash of a vote still stored |
| PalletCleanSlate | an election starts from the storage of genesis |
| PalletNoEarlyCount | nothing is counted while voting is open |
| PalletStoredVotesFinal | short of saturation only a reset changes a stored vote |
| PalletClosedStaysClosed | box after the end, and count after finalization, change only by a reset |
| PalletImplementsBallotBox | with `NoSaturation`, `Spec => Box!Spec` |
| **DjangoElectionProofs** | |
| DjangoTypeCorrect | tables and requests keep their types; the bound leaves room for the starts under way |
| DjangoOneSignature | one signature for each voter and election, if no two starts overlap |
| DjangoVotedHasSignature | who is marked has a signature, if no two starts overlap and DEBUG is off |
| **CandidatesTabProofs** | |
| ListsAreTables | no list shows an id, or a name of a post, twice; an orderly admin's list is the table |
| **ElectionSystemProofs** | |
| SystemTypeCorrect | both backends, pages, pool and dashboard keep their types |
| SystemChainLeads | Django is never ahead of the chain, in starting or in ending |
| SystemOneVotePerVoter | up to `u32::MAX` voters, one ballot in the box for each who voted |
| SystemDoneMeansRecorded | up to `u32::MAX` voters, a page that says "recorded" is right, about this choice |
| SystemImplementsElection | one election of up to `u32::MAX` voters implements `Election` |
| SystemRunsPallet | `Spec => Chain!Spec`: to the chain, the system is a run of the pallet |
| SystemOneSignature | in the whole system too, one signature for each voter and election, and who is marked has one, if no two starts overlap |
| **RevealPanelProofs** | |
| RevealTypeCorrect | chain, panel, results tab and pool keep their types |
| RevealEnoughReveals | whoever picks: as many reveals as votes before the end, each for a candidate its ballot names |
| RevealAllRevealed | the panel says that all is revealed only when an orderly admin has revealed each vote once |
| RevealOneCredit | for any number of posts, an orderly count credits each ballot to exactly one candidate it names, and the tab shows that |
| **VoterAccessProofs** | |
| AccessTypeCorrect | tables and tabs keep their types |
| AccessOneAccountEach | one student, one voter, one user |
| AccessFewUnused | no more unused OTPs of a user than tabs |
| AccessNoReuse | once an OTP has opened a session, no request that comes later is let in by it |
| AccessExpiresForTheDay | an OTP works for five minutes, and not again before the day is over |
| **AccountFundingProofs** | |
| FundingTypeCorrect | accounts, loop, requests, mails and pool keep their types |
| FundingFundedIsPaid, FundingPaidOnce, FundingMailIsCurrent | marks are of paid accounts, nobody is paid twice, mails say what is stored: each but for the upsets, and the last for the deleted students, it names |
| **PublicPagesProofs** | |
| PagesTypeCorrect | the three pages, polls, connections, fetches and sessions keep their types |
| PagesNeverAhead | the results page is never ahead of the chain, for any number of overlapping polls |
| PagesFeedSound | the explorer's latest block has its row, or is being fetched; no block has two |
| PagesShownSinceLoaded | whom a page shows has had its browser's session since the page was loaded |

**Assumptions.** All are named in the modules and evaluated by TLC.
`AccountsFinite`, `WidthsOK`, `SizesOK`, `BallotsOK` (pallet), `DjangoConstants`,
`TabConstants`, `SystemConstants`, `AccessConstants`, `FundingConstants`,
`RevealConstants`, `ResultsConstants`, `ExplorerConstants` and `SessionConstants`
(the last three by way of `PagesConstants`) say that there are finitely many of what a database and a
chain have finitely many of, that bounds are numbers, that "none" is not one of
the things it stands in for, and that a day is longer than an OTP lives. Two say
more. `RevealConstants` and `ResultsConstants` have a candidate for every post, as
start_election asks for (`voting/views.py:93`; the elections in which a deletion
that races with the start leaves a post empty, `MC_LostCandidate.cfg`, are not
those counted here), and no more voters than `u32::MAX`. `ExplorerConstants` has a
positive MAX_BLOCKS.

Three things are not assumed of the constants but are hypotheses of the theorems
that need them. Without saturation (`NoSaturation`, `Cardinality(Voters) <=
MaxU32`): a saturated counter makes a vote overwrite another, as the run
`pallet` has it. `OneStartAtATime`, about Django: two starts that overlap do give a
second signature (`MC_TwoStarts.cfg`), and nothing in the code keeps a dashboard
that was reloaded from sending the second. `MaxElections = 1`, for `Election`: a
second start in Django takes every leave to vote back.

### The arguments

**Pallet.** `TypeOK` is inductive by itself (`TypeStep`). So is
`OneSlotPerVoter` given `TypeOK` (`SlotStep`): submit_vote adds one voter and
fills slot voteCounter, which is new unless the counter is saturated, and the
cases below, at and above `u32::MAX` are split; the count of `hasVoted` is a
natural number by `HasVotedFinite`. `TallyStep` follows one appended reveal
through `RevealsForStep`, which says how the reveals for one candidate grow.
Neither `RevealsMatchStoredVotes` nor `NoEarlyCount` nor `CleanSlate` is
inductive: a vote stored over a saturated counter could change a revealed slot
if reveals could exist while voting is open; that they cannot needs the phase
order; and that Voting starts without reveals needs the clean slate. Their
conjunction `RevealInv` is inductive (`RevealStep`). The two action properties
follow from the actions and the invariants. For the refinement, `RoomForVoter`
shows that below the bound the counter is the number of voters and never
saturates, and `BoxStep` maps every call to a step of the box or to a stutter,
using `TallyMatchesReveals` to know that `tally` does not saturate either.

**Django.** `TypeInv` adds to the types that the elections started and the starts
under way stay within the bound, and that what is being registered is for a post
there is. `OneSignatureInv`:
whoever has a signature of this election has the row that refuses the next one,
rows go only with a start, and while a start is under way the status is not
active. `VotedInv` is about the row locks: the UPDATE of a start has locked
everybody who is marked or has a sign request under way, so that its commit
resets them all, and a save that read the voter earlier does not write an
`is_voted` back, because verify_email refuses who is verified - which is what
DEBUG would open.

**Dashboard's candidates.** Any two rows of the table, and hence of any list
that was read from it, differ (`AllDistinct`, by the unique columns at the
commit of a registration). For an orderly admin at most one slot is busy, and what its
handler holds is the table (`Orderly`).

**The whole election.** Every step of the system is a step of Django or leaves it
alone (`DjangoSteps`), and the same of the chain (`ChainSteps`), so Django's
`TypeInv` comes from its own proof through an instance of it. `LeadsInv` says of
everything under way - dashboard, pool, requests, answers with a status - how far
the chain must be; a dashboard that has ever seen an active election can end
it, so no end is sent before the first start has gone all the way through. In
`SlotsInv` every ballot in the box is the one of a voter who has voted.
`SentInv` ties what is in the pool to what its page shows. For the refinement
`SignedInv` says that whoever may still send a vote has a signature row, which
holds because Django's first start is its last (`OnlyStart`); `WholeStep` then
takes the steps that the abstract state can see (`VisibleSteps`) one at a time.
Steps of the system are steps of Django, so `OneSignatureInv` and `VotedInv` hold in
it as far as they do there: while no two starts overlap.

**Counting.** `CountInv` holds whoever counts: what the panel offers, decrypts
and picks, and what is in the pool, is of a stored vote and of a candidate it
names, and the panel's counters are not ahead of the chain's. `DisplayInv` types
the overlapping fetches of the results tab. `InOrder` is the orderly count: the
log has votes 0, 1, 2 up to revealedCount, the next reveal is of that very vote
and alone in the pool, and the panel's pending votes are those from there up. The tally
is then what the reveals credited, one of each ballot below revealedCount
(`TallyInOrder`), and since nothing is counted while results are shown, what
fetches have read is current (`DisplayInOrder`).

**Access.** `Types` include that a request that has read a row still has it
(`WaitsFor`), and that users, voters and students correspond. `AccessFewUnused`
needs a count over two kinds of things: a login that has invalidated the older OTPs
and has not made its own yet counts for the one it will make (`FewInv`). Whoever
has opened a session with an OTP has used it up (`UsedInv`); the two action
properties then follow from the one action that accepts an OTP, with the
remainder of the day in `SmallRemainder`.

**Funding.** While the loop runs, its list and the dashboard's have the same
accounts in the same places (`InStep`), and it waits for at most the transfer to
the account at its index (`AwaitsTransfer`); so a mark goes to an account that
was paid (`AllMarksPaid`). For PaidOnce, mnemonics are each one account's own and none
is paid that is still to be made (`OnlyMade`), and an account without a mark has
been paid only between its transfer and the loop's next step (`UnmarkedIsUnpaid`).
For MailIsCurrent, `NothingLost`, all but for the voters that were ever deleted:
outside a refresh the dashboard's list and its copy have the same mnemonics
(`SameAsStored`), every answer on its way back names everybody the copy does
(`AnswersNameAll`), and whatever has been mailed or is about to be - the list of a
start, the account in the modal, the mails left behind by a page that was
reloaded - is in the copy (`MailsAreStored`). So nothing is generated anew for
somebody who has a mnemonic.

**Pages.** Counting only adds (`CountingStep`): the page counts after the end, so
VoteCounter stands still and every count grows. So what any answer under way has, in any
order, is at most what the chain has now (`AllBehind`), which is inductive where
`NeverAhead` alone is not. In the explorer only the last connection serves
(`OneLink`); rows and blocks being fetched are disjoint and without repetition,
and the row of the latest block is too near the top to be pushed out by what is
still being fetched (`RowsFollow`).
For the login pages `Seen` says of a tab what `ShownSinceLoaded` says of what it
shows, and also of what it has been told and not shown yet, and of the session
that the next answer will be about; a reload empties `had` but for that session,
and with it all that the tab was told.

### Only model-checked

All liveness - `RequestsAnswered`, `EndGoesThrough`, `SentVoteSettles`,
`CountingEnds`, `WinnersSettle` and `FeedSettles` - which is beyond the prover, as
is ENABLED. That the second election and two posts go wrong is shown by TLC's
counterexamples. `PalletNoEarlyCount` and `DjangoTypeCorrect` are proved and
checked by no run: they are parts of the invariants the others rest on.

## What is not modelled

- **Contact form, static pages**: no state that any other part's logic reads.
- **The end of a session by age**, and forks of the chain the explorer follows.
- **Consensus, finality, balances, transaction payment, pallet-template**:
  Substrate's. The pool keeps the order of one account's nonces, a block includes
  or the pool drops an extrinsic, `sudo` reports Ok.
- **Cryptography**: a decrypted ballot is what was encrypted; two hashes are
  equal if their votes are. What a signature proves is not used by the code.
- **Wrong passwords, wrong private keys**: refused without a change.
- **The Django admin site**, which can write any row.
- Layout, wording, downloads, percentages.

Choices within the models: one dashboard at a time, but for what others ask of
Django in CandidatesTab and for what a reloaded one has left at Django; in
AccountFunding the dashboard's status is Django's, and what was mailed before an
election started is not kept apart from it; StrictMode's second checkAuth, which
asks the same in development builds, is left out; a tab whose login is at the
server is not reloaded, another tab stands for the page that comes after; candidates and posts are
few and alike; a candidate removed and registered again is the same row, where
the code gives it a new id; the mnemonic a voter imports is the voter's own; the admin picks
what the decrypted text says; a mail from the modal is asked for only while an
election is active, since only then a property speaks of it.

## Order of work

The modules were written in the order of how much hangs on them: the pallet and
its theorems, the abstract box and the refinement, Django's requests, the whole
election, counting, the public page, access, accounts, then the abstract
election with its refinement, the explorer, the sessions that tabs share, the
dashboard's list of candidates, and what a reloaded dashboard leaves behind.
What is left:

1. Two dashboards at once on the chain too, and counting after an election with
   losses: `ElectionSystem` and `RevealPanel` have one of each.
2. `SystemImplementsElection` for more than one election, which needs an
   abstract specification of what a reset throws away.
