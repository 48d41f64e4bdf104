---------------------------- MODULE RevealPanel ----------------------------
(***************************************************************************)
(* Counting: the admin's VoteRevealPanel (Frontend/.../Admin.tsx) driving  *)
(* reveal_vote and finalize_tally on the chain, once voting has ended, and *)
(* the ResultsDisplay of the tab next to it.                               *)
(*                                                                         *)
(* The panel keeps no record of which votes were revealed.  Each time it   *)
(* is mounted - when the tab is opened, and so after every reveal, which   *)
(* switches to the results tab - it takes the votes whose id is at least   *)
(* RevealedCount to be the unrevealed ones, and it calls the election      *)
(* counted when RevealedCount has reached VoteCounter.  The chain does not *)
(* mark revealed votes either.                                             *)
(*                                                                         *)
(* The admin is honest, has the right key, and picks in the dropdowns what *)
(* the decrypted text above them says.                                     *)
(***************************************************************************)
EXTENDS Integers, Sequences, FiniteSets, SequencesExt

CONSTANTS
  Voters, Posts,
  CandidatesFor,   \* the candidate ids of each post
  MaxU32, MaxReveals,
  MaxAdminTx       \* bound on the panel's extrinsics in the pool

ASSUME RevealConstants ==
  /\ IsFiniteSet(Voters) /\ IsFiniteSet(Posts) /\ Posts # {}
  /\ \A p \in Posts : IsFiniteSet(CandidatesFor[p]) /\ CandidatesFor[p] # {}
  /\ MaxU32 \in Nat \ {0} /\ Cardinality(Voters) <= MaxU32
  /\ MaxReveals \in Nat /\ MaxAdminTx \in Nat

VARIABLES
  currentPhase, encryptedVotes, voteCounter, hasVoted, tally, revealedCount,
  revealLog,  \* the chain
  panel,      \* VoteRevealPanel, in the tab "reveal"
  display,    \* ResultsDisplay, in the tab "results"
  reads,      \* its fetchTally calls under way: the counts each has read
  alice,      \* the sudo calls in the pool, in the order of their nonces
  orderly     \* chosen once: the admin takes the first vote offered and stays
              \* until its reveal is in a block, and no query fails

chain == <<currentPhase, encryptedVotes, voteCounter, hasVoted, tally,
           revealedCount, revealLog>>
ui == <<panel, display, reads>>
vars == <<chain, ui, alice, orderly>>

Candidates == UNION {CandidatesFor[p] : p \in Posts}

(* What a vote decrypts to: one candidate for each post.                   *)
Decrypted == {f \in [Posts -> Candidates] : \A p \in Posts : f[p] \in CandidatesFor[p]}

Cipher(d) == <<"cipher", d>>
Hash(d) == <<"hash", d>>
Signature(d) == <<"signature", d>>
RevealBytes == UNION {{Cipher(d), Hash(d), Signature(d)} : d \in Decrypted}
Ballots == {[encrypted_vote |-> Cipher(d), blind_signature |-> Signature(d),
             vote_hash |-> Hash(d)] : d \in Decrypted}

Chain == INSTANCE VotingPallet
  WITH Accounts <- Voters, Bytes <- RevealBytes, Size <- [b \in RevealBytes |-> 1],
       CandidateIds <- Candidates, MaxEncryptedVoteSize <- 1,
       MaxBlindSignatureSize <- 1, MaxVoteHashSize <- 1, MaxU64 <- MaxU32

decryptVote(i) == encryptedVotes[i].encrypted_vote[2]

(* An unmounted panel, and one that shows nothing of any vote.  `plain` is *)
(* what the decrypted text names, `picked` what the dropdowns are set to.  *)
NoVote == -1
Off == [pc |-> "off", total |-> 0, revealed |-> 0, pendingVotes |-> {},
        vote |-> NoVote, plain |-> {}, picked |-> {}]

NoDisplay == [pc |-> "off", subscribed |-> FALSE, tally |-> [c \in Candidates |-> 0]]

(* Selecting the tab "results" mounts its display, which fetches the tally *)
(* at once - unless it is the tab already shown.                           *)
ShowResults ==
  /\ panel' = Off
  /\ IF display.pc = "on"
       THEN UNCHANGED <<display, reads>>
       ELSE display' = [NoDisplay EXCEPT !.pc = "on"] /\ reads' = << << >> >>

(* Voting has ended with some votes in the box and none revealed.          *)
Init ==
  /\ hasVoted \in SUBSET Voters
  /\ voteCounter = Cardinality(hasVoted)
  /\ encryptedVotes \in [0..(voteCounter - 1) -> Ballots]
  /\ currentPhase = "Ended"
  /\ tally = [c \in Candidates |-> 0]
  /\ revealedCount = 0 /\ revealLog = << >>
  /\ panel = Off /\ display = NoDisplay /\ reads = << >>
  /\ alice = << >>
  /\ orderly \in BOOLEAN

-----------------------------------------------------------------------------
(* The panel is mounted in place of the display.                           *)
MountAs(shown) ==
  /\ panel.pc = "off"
  /\ panel' = [shown EXCEPT !.pc = "idle"]
  /\ display' = NoDisplay /\ reads' = << >>
  /\ UNCHANGED <<chain, alice, orderly>>

Offer(votes) == MountAs([Off EXCEPT !.total = voteCounter, !.revealed = revealedCount,
                                    !.pendingVotes = votes])

(* Mutants: the votes already revealed are not filtered out, or one more   *)
(* is.                                                                     *)
MountUnfiltered == Offer(DOMAIN encryptedVotes)
MountOffByOne == Offer({i \in DOMAIN encryptedVotes : i > revealedCount})

(* Mounting runs initialFetch.  Of what it reads only RevealedCount can    *)
(* change while votes are counted, so its queries are one step.            *)
Mount == Offer({i \in DOMAIN encryptedVotes : i >= revealedCount})

(* A query that fails: a vote slot's is caught and the slot skipped, that  *)
(* of a counter ends the fetch with an error and with what was set before. *)
MountFails ==
  /\ ~orderly
  /\ \/ \E fetched \in SUBSET {i \in DOMAIN encryptedVotes : i >= revealedCount} :
          Offer(fetched)
     \/ \E total \in {0, voteCounter} : MountAs([Off EXCEPT !.total = total])

(* The admin turns to another tab: the results or one of the others.       *)
Leave ==
  /\ panel.pc # "off" \/ display.pc # "off"
  /\ ~orderly \/ alice = << >>
  /\ \/ ShowResults
     \/ panel' = Off /\ display' = NoDisplay /\ reads' = << >>
  /\ UNCHANGED <<chain, alice, orderly>>

-----------------------------------------------------------------------------
(* One vote: selected in the list, decrypted, its candidates picked in the *)
(* dropdowns, revealed.                                                    *)

(* Mutant: the selections survive when another vote is selected.           *)
SelectKeepsPicks(i) ==
  /\ panel.pc # "off" /\ i \in panel.pendingVotes
  /\ orderly => i = Min(panel.pendingVotes)
  /\ panel' = [panel EXCEPT !.vote = i, !.plain = {}]
  /\ UNCHANGED <<chain, display, reads, alice, orderly>>

(* The list stays clickable while a reveal is in the pool.                 *)
SelectVote(i) ==
  /\ panel.pc # "off" /\ i \in panel.pendingVotes
  /\ orderly => i = Min(panel.pendingVotes)
  /\ panel' = [panel EXCEPT !.vote = i, !.plain = {}, !.picked = {}]
  /\ UNCHANGED <<chain, display, reads, alice, orderly>>

DecryptVote ==
  /\ panel.vote # NoVote
  /\ panel' = [panel EXCEPT !.plain = {decryptVote(panel.vote)[p] : p \in Posts}]
  /\ UNCHANGED <<chain, display, reads, alice, orderly>>

(* The dropdown of a post, shown once the vote is decrypted: its candidate *)
(* or, again, nobody.                                                      *)
Pick(p) ==
  /\ panel.plain # {}
  /\ \E ids \in SUBSET (panel.plain \cap CandidatesFor[p]) :
       panel' = [panel EXCEPT !.picked = (@ \ CandidatesFor[p]) \cup ids]
  /\ UNCHANGED <<chain, display, reads, alice, orderly>>

RevealButton == panel.pc = "idle" /\ panel.plain # {} /\ panel.picked # {}

(* handleRevealVote.  The ids are passed as an array where the pallet has  *)
(* one u32: with one id the client library takes its only element, with    *)
(* several it throws, and an error is shown.                               *)
RevealSelected ==
  /\ RevealButton /\ Len(alice) < MaxAdminTx
  /\ Cardinality(panel.picked) = 1
  /\ alice' = Append(alice, [call |-> "reveal", id |-> panel.vote,
                             candidate |-> CHOOSE c \in panel.picked : TRUE,
                             hash |-> encryptedVotes[panel.vote].vote_hash])
  /\ panel' = [panel EXCEPT !.pc = "revealing"]
  /\ UNCHANGED <<chain, display, reads, orderly>>

(* Mutant: one vote short.                                                 *)
allRevealedEarly == panel.pc # "off" /\ panel.total > 0 /\ panel.revealed + 1 >= panel.total

allRevealed == panel.pc # "off" /\ panel.total > 0 /\ panel.revealed >= panel.total

(* handleFinalizeTally: its button is there once allRevealed is true and   *)
(* stays enabled while the extrinsic is in the pool.                       *)
Finalize ==
  /\ allRevealed /\ Len(alice) < MaxAdminTx
  /\ alice' = Append(alice, [call |-> "finalize"])
  /\ UNCHANGED <<chain, ui, orderly>>

RunSudo(tx) ==
  \/ /\ tx.call = "reveal"
     /\ IF Chain!RevealVoteResult(tx.id, tx.hash) = "Ok"
          THEN Chain!RevealVote(tx.id, tx.candidate, tx.hash) ELSE UNCHANGED chain
  \/ /\ tx.call = "finalize"
     /\ IF Chain!PhaseResult("Ended") = "Ok"
          THEN Chain!FinalizeTally ELSE UNCHANGED chain

(* Mutant: the panel is hidden and keeps what it showed.                   *)
IncludeSudoHides ==
  /\ alice # << >>
  /\ RunSudo(Head(alice))
  /\ alice' = Tail(alice)
  /\ panel' = [panel EXCEPT !.pc = "off"]
  /\ UNCHANGED <<display, reads, orderly>>

(* In a block means done, whatever became of the inner call; both handlers *)
(* then call onRevealComplete, which shows the results tab and unmounts    *)
(* whichever panel is on the screen.                                       *)
IncludeSudo ==
  /\ alice # << >>
  /\ RunSudo(Head(alice))
  /\ alice' = Tail(alice)
  /\ ShowResults
  /\ UNCHANGED orderly

-----------------------------------------------------------------------------
(* ResultsDisplay                                                          *)

(* The subscription to VoteCounter answers with the present value, and so  *)
(* the tally is fetched once more; the counter does not change afterwards. *)
Subscribe ==
  /\ display.pc = "on" /\ ~display.subscribed
  /\ display' = [display EXCEPT !.subscribed = TRUE]
  /\ reads' = Append(reads, << >>)
  /\ UNCHANGED <<chain, panel, alice, orderly>>

(* fetchTally reads one candidate after the other, and shows all at once.  *)
Listed == SetToSeq(Candidates)

ReadTally(k) ==
  LET counts == Append(reads[k], tally[Listed[Len(reads[k]) + 1]])
      complete == Len(counts) = Len(Listed)
  IN  /\ reads' = IF complete THEN RemoveAt(reads, k) ELSE [reads EXCEPT ![k] = counts]
      /\ display' = IF complete
                      THEN [display EXCEPT !.tally = [c \in Candidates |->
                              counts[CHOOSE n \in DOMAIN Listed : Listed[n] = c]]]
                      ELSE display
      /\ UNCHANGED <<chain, panel, alice, orderly>>

ReadFails(k) ==
  /\ ~orderly
  /\ reads' = RemoveAt(reads, k)
  /\ UNCHANGED <<chain, panel, display, alice, orderly>>

-----------------------------------------------------------------------------
VoteStep ==
  \/ \E i \in DOMAIN encryptedVotes : SelectVote(i)
  \/ DecryptVote \/ RevealSelected
  \/ \E p \in Posts : Pick(p)

DisplayStep ==
  \/ Subscribe
  \/ \E k \in DOMAIN reads : ReadTally(k) \/ ReadFails(k)

Next ==
  \/ Mount \/ MountFails \/ Leave \/ Finalize \/ IncludeSudo
  \/ VoteStep \/ DisplayStep

Spec == Init /\ [][Next]_vars

(* Blocks are produced, and an admin who counts goes on counting: opens    *)
(* the panel, selects, decrypts, picks and reveals what it offers, and     *)
(* finalizes when it says so.                                              *)
DiligentSpec ==
  /\ Spec
  /\ WF_vars(IncludeSudo) /\ WF_vars(Mount)
  /\ SF_vars(\E i \in DOMAIN encryptedVotes : SelectVote(i))
  /\ SF_vars(DecryptVote) /\ SF_vars(\E p \in Posts : Pick(p))
  /\ SF_vars(RevealSelected) /\ SF_vars(Finalize)

-----------------------------------------------------------------------------
(* The chain keeps its types; the panel and the pool have theirs.          *)
TypeOK ==
  /\ Chain!TypeOK
  /\ panel = Off \/ panel \in [pc : {"idle", "revealing"}, total : 0..MaxU32,
                               revealed : 0..MaxU32,
                               pendingVotes : SUBSET DOMAIN encryptedVotes,
                               vote : DOMAIN encryptedVotes \cup {NoVote},
                               plain : SUBSET Candidates, picked : SUBSET Candidates]
  /\ display = NoDisplay \/ display \in [pc : {"on"}, subscribed : BOOLEAN,
                                         tally : [Candidates -> 0..MaxU32]]
  /\ panel = Off \/ display = NoDisplay
  /\ reads \in Seq(Seq(0..MaxU32))
  /\ \A k \in DOMAIN reads : Len(reads[k]) < Len(Listed)
  /\ alice \in Seq([call : {"reveal"}, id : DOMAIN encryptedVotes,
                    candidate : Candidates, hash : RevealBytes] \cup [call : {"finalize"}])
  /\ Len(alice) <= MaxAdminTx
  /\ orderly \in BOOLEAN

RevealsOf(i) == {n \in DOMAIN revealLog : revealLog[n].vote_id = i}

(* "All N votes revealed. Ready to finalize." (Admin.tsx): when the panel  *)
(* says so every vote has been revealed, each of them once - for an admin  *)
(* who takes the votes as they are offered, although the panel remembers   *)
(* nothing and the chain lets a vote be revealed again.                    *)
AllRevealedIsTrue ==
  orderly /\ allRevealed =>
    \A i \in DOMAIN encryptedVotes : Cardinality(RevealsOf(i)) = 1

(* A finalized tally is the count of the votes: every candidate has one    *)
(* vote for each ballot that names it ("Send array of candidate IDs",      *)
(* Admin.tsx: one reveal credits all the posts of a ballot).  It does not  *)
(* hold: a reveal credits one candidate (MC_OneIdOfTwo.cfg).               *)
BallotsFor(c) == {i \in DOMAIN encryptedVotes : \E p \in Posts : decryptVote(i)[p] = c}

FinalTallyCorrect ==
  orderly /\ currentPhase = "TallyComplete" =>
    tally = [c \in Candidates |-> Cardinality(BallotsFor(c))]

(* What a finalized tally is instead, when the admin is orderly: every     *)
(* ballot credits exactly one of the candidates it names, whichever the    *)
(* admin had picked, none is left out or counted twice, and its other      *)
(* posts are never counted.  The results tab, which nothing tells of a     *)
(* reveal, comes to show that tally and no earlier one.                    *)
OneCreditPerBallot ==
  orderly /\ currentPhase = "TallyComplete" =>
    /\ \E credited \in [DOMAIN encryptedVotes -> Candidates] :
         /\ \A i \in DOMAIN encryptedVotes : i \in BallotsFor(credited[i])
         /\ \A c \in Candidates :
              tally[c] = Cardinality({i \in DOMAIN encryptedVotes : credited[i] = c})
    /\ display.subscribed /\ reads = << >> => display.tally = tally

(* Even if votes are picked in any order, queries fail and tabs are left   *)
(* at any moment, as many reveals as votes precede a finalized tally,      *)
(* although finalize_tally does not ask for it: the count a panel shows is *)
(* never ahead of the chain.  And whatever is clicked while a reveal is in *)
(* the pool, a reveal credits a candidate its own ballot names.            *)
EnoughReveals ==
  /\ currentPhase = "TallyComplete" => revealedCount >= voteCounter /\ voteCounter > 0
  /\ panel.pc # "off" => panel.revealed <= revealedCount
  /\ \A n \in DOMAIN revealLog :
       revealLog[n].vote_id \in BallotsFor(revealLog[n].candidate_id)

(* A diligent and orderly admin gets every election with votes finalized:  *)
(* the panel never runs out of votes to offer before its count says it is  *)
(* done.                                                                   *)
CountingEnds == orderly /\ voteCounter > 0 ~> currentPhase = "TallyComplete"
=============================================================================
