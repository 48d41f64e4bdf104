---------------------------- MODULE BlockExplorer ----------------------------
(***************************************************************************)
(* The public block explorer (Frontend/.../Blockexplorer.tsx): the newest  *)
(* blocks of the chain, as they come.                                      *)
(*                                                                         *)
(* The page opens a connection of its own and subscribes to the new heads. *)
(* Each head is shown as "Latest Block" at once and gets its row when the  *)
(* block has been fetched, so rows come in the order of the answers.  Two  *)
(* refs, apiRef and unsubRef, are all that the page can close a connection *)
(* and a subscription by, and both are set only when an answer is there.   *)
(*                                                                         *)
(* main.tsx renders under StrictMode, in whose development build React     *)
(* runs every first effect twice: the page connects twice.                 *)
(*                                                                         *)
(* Outside the repository: the client library rejoins a lost connection    *)
(* and its subscription by itself, and tells a head once.  A failed fetch  *)
(* gives a row all the same, without its extrinsics; the modal for one     *)
(* block and the averages only read.  One chain without forks is assumed.  *)
(***************************************************************************)
EXTENDS Integers, Sequences, FiniteSets, SequencesExt

CONSTANTS
  MAX_BLOCKS,  \* rows kept; also taken for the bound on the fetches under way
  MaxHead,     \* bound on the blocks
  MaxLost      \* bound on the times a connection is lost

ExplorerConstants ==
  MAX_BLOCKS \in Nat \ {0} /\ MaxHead \in Nat \ {0} /\ MaxLost \in Nat

VARIABLES
  strict,      \* chosen once: the development build under StrictMode
  head,        \* the number of the best block
  mounted,     \* the page is open
  connected,   \* what its badge says: "Connected", else "Connecting..." or
  connecting,  \* "Disconnected" with a "Reconnect" button
  latestBlock, \* 0 for none
  blocks,      \* the rows, newest first
  links,       \* the connections, in the order of the calls of connect
  apiRef, unsubRef,  \* each the number of a connection, 0 for null
  lost         \* connections lost so far, for the bound

face == <<mounted, connected, connecting, latestBlock, blocks>>
refs == <<apiRef, unsubRef>>
vars == <<strict, head, face, links, refs, lost>>

(* A connection is being made, has asked for the heads, is sent them, or   *)
(* is over; `seen` is the last head it told, `steady` that none is missed  *)
(* since, `fetching` the blocks asked for.                                 *)
NewLink == [pc |-> "creating", seen |-> 0, steady |-> FALSE, fetching |-> {}]
Row(n) == [number |-> n, isNew |-> TRUE]

Init ==
  /\ strict \in BOOLEAN
  /\ head = 1
  /\ mounted = FALSE /\ connected = FALSE /\ connecting = FALSE
  /\ latestBlock = 0 /\ blocks = << >>
  /\ links = << >>
  /\ apiRef = 0 /\ unsubRef = 0
  /\ lost = 0

NewBlock ==
  /\ head < MaxHead
  /\ head' = head + 1
  /\ UNCHANGED <<strict, face, links, refs, lost>>

(* The effect of the first rendering; under StrictMode it is cleaned up    *)
(* and run again, while both refs are still null.                          *)
Mount ==
  /\ ~mounted /\ links = << >>
  /\ mounted' = TRUE /\ connecting' = TRUE
  /\ links' = IF strict THEN <<NewLink, NewLink>> ELSE <<NewLink>>
  /\ UNCHANGED <<strict, head, connected, latestBlock, blocks, refs, lost>>

(* connect, from the button.                                               *)
Reconnect ==
  /\ mounted /\ ~connected /\ ~connecting
  /\ Len(links) < 2  \* bound on the tries
  /\ connecting' = TRUE /\ blocks' = << >>
  /\ links' = Append(links, NewLink)
  /\ UNCHANGED <<strict, head, mounted, connected, latestBlock, refs, lost>>

(* What an open page does with a state update a closed one ignores.        *)
Set(field, value) == IF mounted THEN value ELSE field

CreateFails(l) ==
  /\ links[l].pc = "creating"
  /\ links' = [links EXCEPT ![l].pc = "over"]
  /\ connecting' = Set(connecting, FALSE)
  /\ UNCHANGED <<strict, head, mounted, connected, latestBlock, blocks, refs, lost>>

Stopped(l) == [links[l] EXCEPT !.pc = "over"]

(* The connection is there: connect goes on with startSubscription, which  *)
(* ends the subscription unsubRef knows of.                                *)
Created(l) ==
  /\ links[l].pc = "creating"
  /\ apiRef' = l /\ unsubRef' = 0
  /\ connected' = Set(connected, TRUE) /\ connecting' = Set(connecting, FALSE)
  /\ links' = [k \in DOMAIN links |->
                 IF k = l THEN [links[l] EXCEPT !.pc = "asking"]
                 ELSE IF k = unsubRef THEN Stopped(k) ELSE links[k]]
  /\ UNCHANGED <<strict, head, mounted, latestBlock, blocks, lost>>

(* Mutant: the number is shown once its block is there.                    *)
NewHeadQuietly(l) ==
  LET n == IF links[l].steady THEN links[l].seen + 1 ELSE head
  IN  /\ links[l].pc \in {"asking", "live"} /\ links[l].seen < head
      /\ Cardinality(links[l].fetching) < MAX_BLOCKS
      /\ links' = [links EXCEPT ![l].pc = "live", ![l].seen = n, ![l].steady = TRUE]
      /\ unsubRef' = IF links[l].pc = "asking" THEN l ELSE unsubRef
      /\ latestBlock' = Set(latestBlock, n)
      /\ UNCHANGED <<strict, head, mounted, connected, connecting, blocks, apiRef, lost>>

(* The subscription tells a head: the present one first, and then each in  *)
(* turn.  With the first one the call is resolved and unsubRef is set.     *)
NewHead(l) ==
  LET n == IF links[l].steady THEN links[l].seen + 1 ELSE head
  IN  /\ links[l].pc \in {"asking", "live"} /\ links[l].seen < head
      /\ Cardinality(links[l].fetching) < MAX_BLOCKS
      /\ links' = [links EXCEPT ![l].pc = "live", ![l].seen = n, ![l].steady = TRUE,
                                ![l].fetching = @ \cup {n}]
      /\ unsubRef' = IF links[l].pc = "asking" THEN l ELSE unsubRef
      /\ latestBlock' = Set(latestBlock, n)
      /\ UNCHANGED <<strict, head, mounted, connected, connecting, blocks, apiRef, lost>>

(* A block has come, or could not be fetched; in any order.                *)
Fetched(l, n) ==
  /\ n \in links[l].fetching
  /\ links' = [links EXCEPT ![l].fetching = @ \ {n}]
  /\ blocks' = Set(blocks, <<Row(n)>> \o
                 IF Len(blocks) < MAX_BLOCKS THEN blocks ELSE Front(blocks))
  /\ UNCHANGED <<strict, head, mounted, connected, connecting, latestBlock, refs, lost>>

(* Mutant: only the newest row is looked at.                               *)
UnmarkTop(n) ==
  /\ blocks # << >> /\ blocks[1] = Row(n)
  /\ blocks' = [blocks EXCEPT ![1].isNew = FALSE]
  /\ UNCHANGED <<strict, head, mounted, connected, connecting, latestBlock, links,
                 refs, lost>>

(* 1.8 seconds later the row is no longer NEW, nor any of that number.     *)
Unmark(n) ==
  /\ \E i \in DOMAIN blocks : blocks[i] = Row(n)
  /\ blocks' = [i \in DOMAIN blocks |->
                  IF blocks[i].number = n THEN [blocks[i] EXCEPT !.isNew = FALSE]
                                          ELSE blocks[i]]
  /\ UNCHANGED <<strict, head, mounted, connected, connecting, latestBlock, links,
                 refs, lost>>

(* The connection is lost and rejoined with the next head it tells; the    *)
(* heads in between are missed, and nothing changes the badge.             *)
LoseLink(l) ==
  /\ lost < MaxLost /\ links[l].pc \in {"asking", "live"} /\ links[l].steady
  /\ links' = [links EXCEPT ![l].steady = FALSE]
  /\ lost' = lost + 1
  /\ UNCHANGED <<strict, head, face, refs>>

(* The clean-up: what the refs know of is closed.                          *)
Leave ==
  /\ mounted
  /\ mounted' = FALSE /\ connected' = FALSE /\ connecting' = FALSE
  /\ latestBlock' = 0 /\ blocks' = << >>
  /\ links' = [l \in DOMAIN links |->
                 IF l \in {apiRef, unsubRef} THEN Stopped(l) ELSE links[l]]
  /\ UNCHANGED <<strict, head, refs, lost>>

LinkStep(l) ==
  Created(l) \/ NewHead(l) \/ \E n \in links[l].fetching : Fetched(l, n)

Next ==
  \/ NewBlock \/ Mount \/ Reconnect \/ Leave
  \/ \E l \in DOMAIN links : LinkStep(l) \/ CreateFails(l) \/ LoseLink(l)
  \/ \E n \in 1..MaxHead : Unmark(n)

Spec == Init /\ [][Next]_vars

(* The node answers and the timers run out.  Neither goes on for ever when *)
(* no more blocks come, so that one fairness does for all of them.         *)
Fairness ==
  WF_vars(\/ \E l \in DOMAIN links : LinkStep(l)
          \/ \E n \in 1..MaxHead : Unmark(n))

-----------------------------------------------------------------------------
Numbers == {blocks[i].number : i \in DOMAIN blocks}
Fetching == UNION {links[l].fetching : l \in DOMAIN links}

TypeOK ==
  /\ {strict, mounted, connected, connecting} \subseteq BOOLEAN
  /\ head \in 1..MaxHead /\ latestBlock \in 0..head /\ lost \in 0..MaxLost
  /\ blocks \in Seq([number : 1..head, isNew : BOOLEAN]) /\ Len(blocks) <= MAX_BLOCKS
  /\ links \in Seq([pc : {"creating", "asking", "live", "over"}, seen : 0..head,
                    steady : BOOLEAN, fetching : SUBSET (1..head)])
  /\ {apiRef, unsubRef} \subseteq 0..Len(links)

(* However late the blocks come, and in whatever order: the block the page *)
(* calls the latest has its row, or is being fetched for it, and no block  *)
(* has two (the rows' key is the number).  Both as long as fewer fetches   *)
(* than rows are under way, and not for the page that connected twice.     *)
FeedSound ==
  mounted /\ ~strict =>
    /\ latestBlock > 0 => latestBlock \in Numbers \cup Fetching
    /\ Cardinality(Numbers) = Len(blocks)

(* A "Live view of the ChainBallot blockchain" (Blockexplorer.tsx): when   *)
(* no more blocks come, a connected page has the last one, also after its  *)
(* connection was lost, has its row, and nothing stays marked as NEW.      *)
FeedSettles ==
  <>[](mounted /\ connected =>
         /\ latestBlock = head
         /\ ~strict => head \in Numbers
         /\ \A i \in DOMAIN blocks : ~blocks[i].isNew)

(* A page that was left comes to close its connection.  Not so: see the    *)
(* README.                                                                 *)
NothingLeftOpen ==
  ~mounted /\ links # << >> ~> \A l \in DOMAIN links : links[l].pc = "over"
=============================================================================
