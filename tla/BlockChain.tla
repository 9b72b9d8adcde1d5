----------------------------- MODULE BlockChain -----------------------------
(***************************************************************************)
(* The block chain that BRPeerManager.c follows: the tree of headers it    *)
(* holds, the orphans that wait for a parent, the tip, forks and           *)
(* reorganisations, rescans, what is saved and how a restart resumes.      *)
(* Every handler runs under the manager's lock; after the lock is released *)
(* a peer's thread still has a save callback to make and possibly an       *)
(* orphan to relay to itself, and other peers' handlers come in between.   *)
(*                                                                         *)
(* The blocks, what they build on and what they confirm are constants: the *)
(* tree of every block that peers may relay.  Header-only sync below the   *)
(* wallet's birthday is left out, and all transactions are the wallet's.   *)
(***************************************************************************)
EXTENDS Integers, FiniteSets, Sequences

CONSTANTS
  Block,           \* every block that is relayed
  NoBlock,
  Prev,            \* Prev[b]: the block that b builds on
  Height,          \* Height[b]: its distance from the genesis block
  Invalid,         \* wrong difficulty target, or differs from a checkpoint
  Checkpoint,      \* the hardcoded blocks
  Birthday,        \* the checkpoint a fresh wallet starts from
  Interval,        \* BLOCK_DIFFICULTY_INTERVAL
  Tx,              \* the wallet's transactions
  TxIn,            \* TxIn[b]: the wallet's transactions in b
  TX_UNCONFIRMED,  \* above the height of any block
  Peer, NoPeer,
  PeerLastBlock,   \* PeerLastBlock[p]: the height p reported when it connected
  MaxOrphans,      \* bound on the orphans held at once
  MaxConnects,     \* bound on the connections made
  MaxFilters,      \* bound on the times that the filter runs out of addresses
  MaxRescans, MaxRestarts

ASSUME BlockChainAssumption ==
  /\ NoBlock \notin Block /\ NoPeer \notin Peer
  /\ IsFiniteSet(Block)
  /\ Prev \in [Block -> Block \cup {NoBlock}]
  /\ Height \in [Block -> Nat]
  /\ \A b \in Block : Prev[b] # NoBlock => Height[b] = Height[Prev[b]] + 1
  /\ Invalid \subseteq Block
  /\ Checkpoint \subseteq Block \ Invalid /\ Birthday \in Checkpoint
  /\ Interval \in Nat \ {0}
  /\ \A b \in Checkpoint : Height[b] % Interval = 0
  /\ TxIn \in [Block -> SUBSET Tx]
  /\ TX_UNCONFIRMED \in Nat /\ \A b \in Block : Height[b] < TX_UNCONFIRMED
  /\ PeerLastBlock \in [Peer -> Nat]
  /\ MaxOrphans \in Nat /\ MaxConnects \in Nat /\ MaxFilters \in Nat
  /\ MaxRescans \in Nat /\ MaxRestarts \in Nat

\* the peer manager
VARIABLES
  blocks,          \* the blocks held, hashed by blockHash
  orphans,         \* blocks without a place yet, hashed by prevBlock
  lastBlock,       \* the tip of the main chain
  estimatedHeight, \* the height the download is expected to reach
  connected,       \* the peers whose handshake is over
  downloadPeer,
  filter,          \* bloomFilter: "loaded", or "none" while NULL
  filterPing       \* the ping of a peer's filter update that is under way

\* one thread per peer, outside of the lock
VARIABLE thread    \* thread[p]: the save callback and the relay still to be made

\* the wallet
VARIABLE txHeight

\* the application: one executor thread writes the blocks to its database
VARIABLES saveQueue, saved, deleted

\* bookkeeping of the model
VARIABLES
  crashed,         \* a handler followed a null or freed block
  unjoined,        \* a reorganisation went on without having found the join
  connects, filters, rescans, restarts

treeVars  == <<blocks, orphans, lastBlock>>
peerVars  == <<connected, downloadPeer, filter, filterPing>>
storeVars == <<saveQueue, saved, deleted>>
faultVars == <<crashed, unjoined>>
countVars == <<connects, filters, rescans, restarts>>
vars == <<treeVars, estimatedHeight, peerVars, thread, txHeight, storeVars, faultVars, countVars>>

NoSave == [replace |-> FALSE, blocks |-> {}]
Idle   == [save |-> NoSave, next |-> NoBlock]

-----------------------------------------------------------------------------
(***************************************************************************)
(* The tree.  Walking back with BRSetGet(blocks, &b->prevBlock) stops at   *)
(* the first block that is not held.                                       *)
(***************************************************************************)
ClosedUnderPrev(S) == \A c \in S : Prev[c] # NoBlock => Prev[c] \in S

\* b and what it builds on: the least set that holds b and is closed under Prev
Ancestors == [b \in Block |->
  {a \in Block : \A S \in SUBSET Block : b \in S /\ ClosedUnderPrev(S) => a \in S}]

\* a chain confirms a transaction at most once
ASSUME ConfirmedOnce ==
  \A b \in Block : \A a1, a2 \in Ancestors[b] : a1 # a2 => TxIn[a1] \cap TxIn[a2] = {}

\* the wallet's first key is at least a week younger than the birthday
ASSUME NothingBeforeBirthday == \A a \in Ancestors[Birthday] : TxIn[a] = {}

Held(bs, b) ==
  LET gaps == Ancestors[b] \ (bs \cup {b})
  IN {a \in Ancestors[b] : \A c \in gaps : Height[c] < Height[a]}

IsTransition(b) == Height[b] % Interval = 0

\* the block one difficulty interval before b, if every step to it is held
TransitionBefore(bs, b) == {a \in Held(bs, b) : Height[a] + Interval = Height[b]}

\* mutant: starts freeing at the previous transition itself
Pruned_All(bs, b) ==
  IF IsTransition(b) /\ TransitionBefore(bs, b) # {}
    THEN {a \in bs : a \notin Held(bs, b) \/ Height[a] + Interval > Height[b]}
    ELSE bs

(***************************************************************************)
(* _BRPeerManagerVerifyBlock frees, at a transition, every block below the *)
(* previous one but the transitions, whether or not b turns out valid.     *)
(***************************************************************************)
Pruned(bs, b) ==
  IF IsTransition(b) /\ TransitionBefore(bs, b) # {}
    THEN {a \in bs : \/ a \notin Held(bs, b)
                     \/ Height[a] + Interval >= Height[b]
                     \/ IsTransition(a)}
    ELSE bs

Verifies(bs, b) ==
  /\ b \notin Invalid
  /\ IsTransition(b) => TransitionBefore(bs, b) # {}

\* orphans are hashed by parent: a second one replaces the first
WithOrphan(b) == {o \in orphans : Prev[o] # Prev[b]} \cup {b}

\* the highest block on both walks back, none when a walk ends before
Joins(bs, b, tip) ==
  LET common == Held(bs, b) \cap Held(bs, tip)
  IN {j \in common : \A c \in common : Height[c] <= Height[j]}

\* where the branch's walk stops when the main chain's ends above it
StopsAt(bs, b, tip) ==
  {a \in Held(bs, b) : /\ \A c \in Held(bs, tip) : Height[a] < Height[c]
                       /\ \E c \in Held(bs, tip) : Height[c] = Height[a] + 1}

Confirm(heights, b) == [t \in Tx |-> IF t \in TxIn[b] THEN Height[b] ELSE heights[t]]

UnconfirmedAfter(heights, h) ==
  [t \in Tx |-> IF heights[t] > h THEN TX_UNCONFIRMED ELSE heights[t]]

\* mutant: forgets what the abandoned branch had confirmed
Reorganised_Keep(heights, bs, b, join) ==
  LET branch == {a \in Held(bs, b) : Height[a] > Height[join]}
  IN [t \in Tx |-> IF \E a \in branch : t \in TxIn[a]
                     THEN Height[CHOOSE a \in branch : t \in TxIn[a]]
                     ELSE heights[t]]

(***************************************************************************)
(* BRWalletSetTxUnconfirmedAfter the join, then BRWalletUpdateTransactions *)
(* for every block of the new branch.                                      *)
(***************************************************************************)
Reorganised(heights, bs, b, join) ==
  LET branch == {a \in Held(bs, b) : Height[a] > Height[join]}
  IN [t \in Tx |-> IF \E a \in branch : t \in TxIn[a]
                     THEN Height[CHOOSE a \in branch : t \in TxIn[a]]
                     ELSE UnconfirmedAfter(heights, Height[join])[t]]

\* mutant: cuts one block too many
SaveJob_Short(bs, b, count) ==
  LET walked == {a \in Held(bs, b) : Height[a] + count > Height[b]}
      chosen == {a \in walked :
                   \E s \in walked : IsTransition(s) /\ Height[s] < Height[a]}
  IN [replace |-> Cardinality(chosen) > 1, blocks |-> chosen]

(***************************************************************************)
(* The blocks to save: count of them back from b, cut to start at a        *)
(* transition.  More than one replace what was saved before.               *)
(***************************************************************************)
SaveJob(bs, b, count) ==
  LET walked == {a \in Held(bs, b) : Height[a] + count > Height[b]}
      chosen == {a \in walked :
                   \E s \in walked : IsTransition(s) /\ Height[s] <= Height[a]}
  IN [replace |-> Cardinality(chosen) > 1, blocks |-> chosen]

SaveCount(b, extends) ==
  IF Height[b] = estimatedHeight THEN (Height[b] % Interval) + Interval + 1
  ELSE IF extends /\ IsTransition(b) THEN 1
  ELSE 0

-----------------------------------------------------------------------------
TypeOK ==
  /\ blocks \subseteq Block /\ orphans \subseteq Block /\ lastBlock \in Block
  /\ estimatedHeight \in Nat
  /\ connected \subseteq Peer /\ downloadPeer \in Peer \cup {NoPeer}
  /\ filter \in {"loaded", "none"}
  /\ filterPing \in [Peer -> {"none", "update", "load", "lost"}]
  /\ thread \in [Peer -> [save : [replace : BOOLEAN, blocks : SUBSET Block],
                          next : Block \cup {NoBlock}]]
  /\ txHeight \in [Tx -> Nat]
  /\ saveQueue \in Seq([replace : BOOLEAN, blocks : SUBSET Block])
  /\ saved \subseteq Block /\ deleted \in BOOLEAN
  /\ crashed \in BOOLEAN /\ unjoined \in BOOLEAN
  /\ connects \in Nat /\ filters \in Nat /\ rescans \in Nat /\ restarts \in Nat

Init ==
  /\ blocks = Checkpoint /\ orphans = {} /\ lastBlock = Birthday
  /\ estimatedHeight = 0
  /\ connected = {} /\ downloadPeer = NoPeer
  /\ filter = "none" /\ filterPing = [p \in Peer |-> "none"]
  /\ thread = [p \in Peer |-> Idle]
  /\ txHeight = [t \in Tx |-> TX_UNCONFIRMED]
  /\ saveQueue = <<>> /\ saved = {} /\ deleted = FALSE
  /\ crashed = FALSE /\ unjoined = FALSE
  /\ connects = 0 /\ filters = 0 /\ rescans = 0 /\ restarts = 0

(***************************************************************************)
(* _peerRelayedBlock, by what becomes of the block.  The handler's last    *)
(* act under the lock is to look for an orphan that builds on the block.   *)
(***************************************************************************)
Dropped(p) ==
  /\ thread' = [thread EXCEPT ![p] = Idle]
  /\ UNCHANGED <<orphans, lastBlock, estimatedHeight, txHeight, crashed>>

\* mutant: looks for an orphan that has the block's own parent
Waiting_Sibling(os, b) == {o \in os : Prev[o] = Prev[b]}

Waiting(os, b) == {o \in os : Prev[o] = b}

Placed(p, b, os, save) ==
  LET next == Waiting(os, b)
  IN /\ estimatedHeight' = IF Height[b] > estimatedHeight THEN Height[b] ELSE estimatedHeight
     /\ orphans' = os \ next
     /\ thread' = [thread EXCEPT ![p] =
                     [save |-> save,
                      next |-> IF next = {} THEN NoBlock ELSE CHOOSE o \in next : TRUE]]

Fault == crashed' = TRUE /\ UNCHANGED <<orphans, lastBlock, estimatedHeight, thread, txHeight>>

\* _BRPeerManagerLoadMempools reloads the filter, which clears the orphans, for
\* every peer but the download peer; for that one when its matches are poor
AfterMempools ==
  {os \in {orphans, {}} : os = {} \/ connected \subseteq {downloadPeer}}

OrphansOnceDone(b) == IF Height[b] = estimatedHeight THEN AfterMempools ELSE {orphans}

FilterMissing(p, b) ==
  /\ filter = "none"
  /\ Dropped(p)
  /\ UNCHANGED blocks

\* an orphan older than a week is dropped
Orphaned(p, b) ==
  /\ filter = "loaded" /\ Prev[b] \notin blocks
  /\ \/ Dropped(p)
     \/ /\ orphans' = WithOrphan(b)
        /\ Cardinality(orphans') <= MaxOrphans
        /\ thread' = [thread EXCEPT ![p] = Idle]
        /\ UNCHANGED <<lastBlock, estimatedHeight, txHeight, crashed>>
  /\ UNCHANGED blocks

Verified(b) == filter = "loaded" /\ Prev[b] \in blocks /\ Verifies(blocks, b)

\* the tip itself may be among the blocks that verification frees
TipFreed(b) == lastBlock \in blocks \ blocks'

Rejected(p, b) ==
  /\ filter = "loaded" /\ Prev[b] \in blocks /\ ~Verifies(blocks, b)
  /\ blocks' = Pruned(blocks, b)
  /\ IF TipFreed(b) THEN Fault ELSE Dropped(p)

ExtendsChain(p, b) ==
  /\ Verified(b)
  /\ Prev[b] = lastBlock
  /\ blocks' = Pruned(blocks, b) \cup {b}
  /\ IF TipFreed(b) THEN Fault
     ELSE /\ lastBlock' = b
          /\ txHeight' = Confirm(txHeight, b)
          /\ \E os \in OrphansOnceDone(b) :
               Placed(p, b, os, SaveJob(blocks', b, SaveCount(b, TRUE)))
          /\ UNCHANGED crashed

AlreadyHeld(p, b) ==
  /\ Verified(b)
  /\ Prev[b] # lastBlock /\ b \in blocks
  /\ blocks' = Pruned(blocks, b)
  /\ LET atHeight == {a \in Held(blocks', lastBlock) : Height[a] = Height[b]}
     IN IF TipFreed(b) \/ (atHeight = {} /\ Height[b] <= Height[lastBlock]) THEN Fault
        ELSE /\ txHeight' = IF b \in atHeight THEN Confirm(txHeight, b) ELSE txHeight
             /\ Placed(p, b, orphans, NoSave)
             /\ UNCHANGED <<lastBlock, crashed>>

\* a block mined during a rescan waits among the orphans
Postponed(p, b) ==
  /\ Height[lastBlock] < PeerLastBlock[p] /\ Height[b] > Height[lastBlock] + 1

MinedDuringRescan(p, b) ==
  /\ Verified(b)
  /\ Prev[b] # lastBlock /\ b \notin blocks /\ Postponed(p, b)
  /\ blocks' = Pruned(blocks, b)
  /\ IF TipFreed(b) THEN Fault
     ELSE /\ Placed(p, b, WithOrphan(b), NoSave)
          /\ Cardinality(orphans') <= MaxOrphans
          /\ UNCHANGED <<lastBlock, txHeight, crashed>>

\* mutant: wants a lead of two
Longer_Two(b) == Height[b] > Height[lastBlock] + 1

\* mutant: a tie is enough
Longer_Equal(b) == Height[b] >= Height[lastBlock]

Longer(b) == Height[b] > Height[lastBlock]

BelowCheckpoint(b) == \E c \in Checkpoint : Height[b] <= Height[c]

ForksBelowCheckpoint(p, b) ==
  /\ Verified(b)
  /\ Prev[b] # lastBlock /\ b \notin blocks /\ ~Postponed(p, b) /\ BelowCheckpoint(b)
  /\ blocks' = Pruned(blocks, b)
  /\ IF TipFreed(b) THEN Fault ELSE Dropped(p)

IsFork(p, b) ==
  /\ Verified(b)
  /\ Prev[b] # lastBlock /\ b \notin blocks /\ ~Postponed(p, b) /\ ~BelowCheckpoint(b)
  /\ blocks' = Pruned(blocks, b) \cup {b}

ForksChain(p, b) ==
  /\ IsFork(p, b)
  /\ ~Longer(b)
  /\ IF TipFreed(b) THEN Fault
     ELSE Placed(p, b, orphans, NoSave) /\ UNCHANGED <<lastBlock, txHeight, crashed>>

(***************************************************************************)
(* When the walk from the tip ends first there is no join, and the new     *)
(* branch's transactions do not get their heights.  When the walk from the *)
(* block ends first its last step is to a null block.                      *)
(***************************************************************************)
SwitchesTo(b, join, stop) ==
  \/ /\ \E j \in join : txHeight' = Reorganised(txHeight, blocks', b, j)
     /\ UNCHANGED unjoined
  \/ /\ join = {}
     /\ \E a \in stop : txHeight' = UnconfirmedAfter(txHeight, Height[a])
     /\ unjoined' = TRUE

Reorganises(p, b) ==
  /\ IsFork(p, b)
  /\ Longer(b)
  /\ LET join == Joins(blocks', b, lastBlock)
         stop == StopsAt(blocks', b, lastBlock)
     IN IF TipFreed(b) \/ join \cup stop = {} THEN Fault /\ UNCHANGED unjoined
        ELSE /\ lastBlock' = b
             /\ SwitchesTo(b, join, stop)
             /\ \E os \in OrphansOnceDone(b) :
                  Placed(p, b, os, SaveJob(blocks', b, SaveCount(b, FALSE)))
             /\ UNCHANGED crashed

Deliver(p, b) ==
  /\ ~crashed
  /\ \/ /\ \/ FilterMissing(p, b) \/ Orphaned(p, b) \/ Rejected(p, b)
           \/ ExtendsChain(p, b) \/ AlreadyHeld(p, b)
           \/ MinedDuringRescan(p, b) \/ ForksBelowCheckpoint(p, b)
           \/ ForksChain(p, b)
        /\ UNCHANGED unjoined
     \/ Reorganises(p, b)
  /\ UNCHANGED <<peerVars, storeVars, countVars>>

RelayedBlock(p, b) ==
  /\ p \in connected /\ thread[p] = Idle
  /\ Deliver(p, b)

\* the recursive call for the orphan, once the save callback has returned
RelayNext(p) ==
  /\ thread[p].save = NoSave /\ thread[p].next # NoBlock
  /\ Deliver(p, thread[p].next)

\* the saveBlocks callback hands the blocks to the executor's queue
SaveBlocks(p) ==
  /\ ~crashed /\ thread[p].save # NoSave
  /\ saveQueue' = Append(saveQueue, thread[p].save)
  /\ thread' = [thread EXCEPT ![p].save = NoSave]
  /\ UNCHANGED <<treeVars, estimatedHeight, peerVars, txHeight, saved, deleted, faultVars,
                 countVars>>

-----------------------------------------------------------------------------
(***************************************************************************)
(* The application's saveBlocks deletes and inserts in two transactions of *)
(* its database.                                                           *)
(***************************************************************************)
DeleteSaved ==
  /\ ~crashed /\ saveQueue # <<>> /\ Head(saveQueue).replace /\ ~deleted
  /\ saved' = {} /\ deleted' = TRUE
  /\ UNCHANGED <<treeVars, estimatedHeight, peerVars, thread, txHeight, saveQueue,
                 faultVars, countVars>>

InsertSaved ==
  /\ ~crashed /\ saveQueue # <<>> /\ (Head(saveQueue).replace => deleted)
  /\ saved' = saved \cup Head(saveQueue).blocks
  /\ saveQueue' = Tail(saveQueue) /\ deleted' = FALSE
  /\ UNCHANGED <<treeVars, estimatedHeight, peerVars, thread, txHeight, faultVars, countVars>>

(***************************************************************************)
(* The process dies and BRPeerManagerNew starts from what was saved: the   *)
(* last saved transition and what builds on it.  Every other saved block   *)
(* stays among the orphans, one per parent.                                *)
(***************************************************************************)
OnePerParent(bs) == {os \in SUBSET bs : \A b \in bs : \E o \in os : Prev[o] = Prev[b]
                                        /\ \A x \in os : Prev[x] = Prev[b] => x = o}

\* mutant: resumes from the last saved block, whatever its height
LastTransitions_Any(bs) == {b \in bs : \A c \in bs : Height[c] <= Height[b]}

LastTransitions(bs) ==
  {b \in bs : IsTransition(b) /\ \A c \in bs : IsTransition(c) => Height[c] <= Height[b]}

Rebuilt(os, first) ==
  {b \in os \cup {first} : /\ first \in Ancestors[b]
                           /\ \A a \in Ancestors[b] : Height[a] > Height[first] => a \in os}

Restart ==
  /\ restarts < MaxRestarts
  /\ restarts' = restarts + 1
  /\ \E os \in OnePerParent(saved) :
       \/ /\ LastTransitions(saved) = {}
          /\ blocks' = Checkpoint /\ lastBlock' = Birthday /\ orphans' = os
       \/ \E first \in LastTransitions(saved) :
            LET chain == Rebuilt(os, first)
            IN /\ blocks' = Checkpoint \cup chain
               /\ lastBlock' \in {b \in chain : \A c \in chain : Height[c] <= Height[b]}
               /\ orphans' = {o \in os : \A b \in chain : Prev[b] # Prev[o]}
  /\ estimatedHeight' = 0
  /\ connected' = {} /\ downloadPeer' = NoPeer
  /\ filter' = "none" /\ filterPing' = [p \in Peer |-> "none"]
  /\ thread' = [p \in Peer |-> Idle]
  /\ saveQueue' = <<>> /\ deleted' = FALSE
  /\ crashed' = FALSE
  /\ UNCHANGED <<txHeight, saved, unjoined, connects, filters, rescans>>

-----------------------------------------------------------------------------
(***************************************************************************)
(* Peers.  _BRPeerManagerLoadBloomFilter clears the orphans.               *)
(***************************************************************************)
LoadBloomFilter == filter' = "loaded" /\ orphans' = {}

StaysWith(p) ==
  /\ downloadPeer # NoPeer
  /\ \/ PeerLastBlock[downloadPeer] >= PeerLastBlock[p]
     \/ Height[lastBlock] >= PeerLastBlock[p]

PeerConnected(p) ==
  /\ ~crashed /\ p \notin connected /\ thread[p] = Idle /\ connects < MaxConnects
  /\ connects' = connects + 1
  /\ connected' = connected \cup {p}
  /\ IF StaysWith(p)
       THEN /\ IF Height[lastBlock] >= PeerLastBlock[p] THEN LoadBloomFilter
                                                        ELSE UNCHANGED <<filter, orphans>>
            /\ UNCHANGED <<downloadPeer, estimatedHeight>>
       ELSE \E q \in connected' :
              /\ \A r \in connected' : PeerLastBlock[r] <= PeerLastBlock[q]
              /\ downloadPeer' = q
              /\ estimatedHeight' = PeerLastBlock[q]
              /\ LoadBloomFilter
  /\ UNCHANGED <<blocks, lastBlock, filterPing, thread, txHeight, storeVars, faultVars,
                 filters, rescans, restarts>>

PeerDisconnected(p) ==
  /\ ~crashed /\ p \in connected /\ thread[p] = Idle
  /\ connected' = connected \ {p}
  /\ downloadPeer' = IF p = downloadPeer THEN NoPeer ELSE downloadPeer
  /\ filterPing' = [filterPing EXCEPT ![p] = "none"]
  /\ UNCHANGED <<treeVars, estimatedHeight, filter, thread, txHeight, storeVars, faultVars,
                 countVars>>

\* the wallet's next unused addresses are no longer in the filter: it is reset,
\* and rebuilt once the download peer has answered a ping
FilterOutdated ==
  /\ ~crashed /\ filter = "loaded" /\ filters < MaxFilters /\ connected # {}
  /\ filters' = filters + 1
  /\ filter' = "none"
  /\ filterPing' = IF downloadPeer # NoPeer /\ filterPing[downloadPeer] = "none"
                     THEN [filterPing EXCEPT ![downloadPeer] = "update"] ELSE filterPing
  /\ UNCHANGED <<treeVars, estimatedHeight, connected, downloadPeer, thread, txHeight,
                 storeVars,
                 faultVars, connects, rescans, restarts>>

\* _updateFilterPingDone
UpdateFilter(p) ==
  /\ ~crashed /\ filterPing[p] = "update" /\ thread[p] = Idle
  /\ IF Height[lastBlock] < estimatedHeight /\ downloadPeer = NoPeer
       THEN /\ filter' = "none" /\ filterPing' = [filterPing EXCEPT ![p] = "lost"]
            /\ UNCHANGED orphans
       ELSE LoadBloomFilter /\ filterPing' = [filterPing EXCEPT ![p] = "load"]
  /\ UNCHANGED <<blocks, lastBlock, estimatedHeight, connected, downloadPeer, thread, txHeight,
                 storeVars, faultVars, countVars>>

\* _updateFilterLoadDone
FilterLoadDone(p) ==
  /\ ~crashed /\ filterPing[p] = "load" /\ thread[p] = Idle
  /\ filterPing' = [filterPing EXCEPT ![p] = "none"]
  /\ UNCHANGED <<treeVars, estimatedHeight, connected, downloadPeer, filter, thread, txHeight,
                 storeVars, faultVars, countVars>>

\* BRPeerManagerRescan and its variants: back to a held block of the main chain,
\* or to a checkpoint
Rescan(b) ==
  /\ ~crashed /\ downloadPeer # NoPeer /\ rescans < MaxRescans
  /\ rescans' = rescans + 1
  /\ b \in Held(blocks, lastBlock) \cup Checkpoint
  /\ lastBlock' = b
  /\ UNCHANGED <<blocks, orphans, estimatedHeight, peerVars, thread, txHeight, storeVars,
                 faultVars, connects, filters, restarts>>

Next ==
  \/ \E p \in Peer : \/ \E b \in Block : RelayedBlock(p, b)
                     \/ RelayNext(p) \/ SaveBlocks(p)
                     \/ PeerConnected(p) \/ PeerDisconnected(p)
                     \/ UpdateFilter(p) \/ FilterLoadDone(p)
  \/ FilterOutdated \/ DeleteSaved \/ InsertSaved \/ Restart
  \/ \E b \in Block : Rescan(b)

Spec == Init /\ [][Next]_vars

-----------------------------------------------------------------------------
(***************************************************************************)
(* Properties.                                                             *)
(***************************************************************************)

\* Under no order of blocks, forks and disconnections is a transaction's height
\* other than that of its block in the main chain: a reorganisation that finds its
\* join unconfirms what only the abandoned branch had.
HeightsFollowMainChain ==
  rescans = 0 /\ restarts = 0 /\ ~unjoined =>
    \A t \in Tx : \/ \E a \in Ancestors[lastBlock] : t \in TxIn[a] /\ txHeight[t] = Height[a]
                  \/ /\ \A a \in Ancestors[lastBlock] : t \notin TxIn[a]
                     /\ txHeight[t] = TX_UNCONFIRMED

\* Without a rescan no block that is held is higher than the tip, whichever
\* branch it is on and whatever order the branches arrived in.
TipIsHighest ==
  rescans = 0 /\ ~crashed => \A b \in blocks \ Checkpoint : Height[b] <= Height[lastBlock]

\* The tip moves to another block only for a higher one; ties keep the branch
\* that was first.
TipOnlyRises ==
  [][lastBlock' = lastBlock \/ Height[lastBlock'] > Height[lastBlock]
     \/ rescans' # rescans \/ restarts' # restarts]_vars

\* An orphan whose parent was received has been handed to a handler: none is
\* left behind by two threads that relay blocks between each other's steps.
NoStrandedOrphan ==
  rescans = 0 /\ restarts = 0 /\ ~crashed =>
    \A o \in orphans : Prev[o] \notin blocks \ Checkpoint

\* Without a rescan, verification never frees the tip.
TipHeld == rescans = 0 => lastBlock \in blocks

LastTransition(h) == h - (h % Interval)

\* No walk that starts at the tip or just above it ends above this height.
WalkLimit == LastTransition(Height[lastBlock] + 1) - Interval

\* Whatever branches there are and however a restart cut them, no pruning leaves the
\* main chain without the transition that starts its interval: the next one can be
\* verified.
TipReachesTransition ==
  rescans = 0 /\ ~crashed => \E a \in Held(blocks, lastBlock) : IsTransition(a)

\* The transition before one that would become the tip is held, on the main chain
\* and on every branch: no honest block is taken for an invalid one because what it
\* is verified with was freed or not saved.
TransitionsVerifiable ==
  rescans = 0 /\ ~crashed =>
    \A b \in Block : Prev[b] \in blocks /\ IsTransition(b) /\ Height[b] > Height[lastBlock]
                     => TransitionBefore(blocks, b) # {}

\* b's branch leaves the main chain where it is still held, not below the interval
\* before the last and not below a checkpoint
Recent(b) ==
  \E a \in Ancestors[b] \cap Held(blocks, lastBlock) :
    Height[a] >= WalkLimit /\ \A c \in Checkpoint : Height[c] <= Height[a]

Handles(p, b) == RelayedBlock(p, b) \/ (thread[p].next = b /\ RelayNext(p))

\* No handler of a recent block walks off the tree, whatever was pruned, forked,
\* orphaned or lost in a restart before: the walk from the tip meets a block that is
\* relayed again, a reorganisation finds its join, and the tip is never freed.
NoCrash ==
  [][rescans = 0 /\ ~unjoined /\ faultVars' # faultVars =>
       \A p \in Peer, b \in Block : Handles(p, b) => ~Recent(b)]_vars

\* What is saved reaches back to a transition from every block, at every
\* moment at which the process may die.
FromTransition(bs) == \A b \in bs : IsTransition(b) \/ Prev[b] \in bs

SavedFromTransition == FromTransition(saved)

\* Orphans are hashed by parent: the set never holds two of one parent.
OneOrphanPerParent == \A o1, o2 \in orphans : Prev[o1] = Prev[o2] => o1 = o2

\* What the proofs need of the saves that are still on their way.
JobsFromTransition ==
  /\ \A p \in Peer : FromTransition(thread[p].save.blocks)
  /\ \A i \in DOMAIN saveQueue : FromTransition(saveQueue[i].blocks)

\* What the proofs need of the branches: above the limit every held block has its
\* parent, but a transition that a restart began the main chain with.
BranchesHeld ==
  rescans = 0 /\ ~crashed =>
    \A b \in blocks \ Checkpoint :
      Height[b] > WalkLimit =>
        \/ Prev[b] \in blocks
        \/ IsTransition(b) /\ (~unjoined => b \in Ancestors[lastBlock])

TreeInv ==
  /\ TypeOK
  /\ OneOrphanPerParent
  /\ TipIsHighest
  /\ TipHeld
  /\ NoStrandedOrphan
  /\ SavedFromTransition
  /\ JobsFromTransition

\* The inductive invariant.
IInv == TreeInv /\ BranchesHeld /\ HeightsFollowMainChain
=============================================================================
