# TLA+ verification of MSM-Android

MSM-Android is a light wallet for Bitcoin, Bitcoin Cash and EtherZero on Android. Its core is
the C library `app/src/main/jni/msmwallet-core`; a Java application drives it through JNI.
This directory holds TLA+ modules translated from that code, TLC configurations that
model-check them on small instances, and proofs that TLAPS checks for every instance.

Paths below are relative to `src/app/src/main/jni/msmwallet-core/` (C) and
`src/app/src/main/java/com/` (Java). A name such as `BRWallet.c:757` is a file and a line.

## 1. Inventory

### 1.1 The parts, their state and their operations

| Part | State | Operations | What makes it hard |
|---|---|---|---|
| Bitcoin wallet, `BRWallet.c` | ordered list of transactions, the set of all it holds, heights and timestamps, address chains, caches of balance, coins, invalid and pending sets | register, remove with dependents, update heights, unconfirm after a fork, generate addresses, create and sign | a partial order kept by insertion; recursion that releases the lock; caches computed in list order |
| Block chain of the peer manager, `BRPeerManager.c:1087-1363` | tree of headers, orphans, tip, estimated height, filter | relayed block (nine outcomes), rescan, filter update, save, rebuild | branches in any order, pruning, callbacks after the unlock, restart from what was saved |
| Peer manager: connections and publishing | peers, connected peers, download peer, failure count, published transactions with callbacks, relays and requests per transaction | connect, disconnect, peer connected / disconnected, relayed / has / rejected transaction, publish | a callback that must be called exactly once; timeouts that are mistaken for others; locks released in the middle |
| Peer, `BRPeer.c` | handshake flags, queue of pong callbacks, the block that waits for its transactions | one handler per message, scheduled disconnects | order of messages, flush at disconnect |
| Hash set, merkle block, bloom filter, transaction | data structures | insert, remove, walk, size, fee | index arithmetic and boundaries |
| Event handler, `ethereum/event` | status, queue, handler lock, thread | create, start, stop, signal, dispatch | the queue's lock is a copy of the handler's: lost wake-ups, a lost stop, a lock kept at exit |
| Ethereum light node, `ethereum/BREthereumLightNode*.c` | connection status, wallets, transactions, blocks, listeners | connect, disconnect, announce, submit | answers in any order and more than once; status set by two threads |
| Key value store, `platform/kvstore` | versions per key, remote version, tombstones | set, delete, sync one or all keys | last-write-wins between devices, a sync that runs beside local writes |
| Wallet managers, `wallet/wallets/**` | stores of transactions, blocks and peers, listeners | callbacks of the core, load at start | two database transactions where one is meant, executors that reorder |
| PIN, sending, key store, `tools/security`, `tools/manager` | fail count, lock-out time, sending flags | check PIN, authorise, send | flags shared by threads without a lock |
| Platform API, HTTP server, UI, services, stores | files, preferences, screens | network and file I/O | little state that properties speak of |
| Keys, encodings, payment protocol, RLP, LES client, vendored secp256k1 | none | cryptography and conversions | not a subject for a state machine |

`PROJECT.json` lists every part with its sources and what is done about it.

### 1.2 How they interact

* A peer has one thread. It parses messages and calls the peer manager's handlers
  (`_peerConnected`, `_peerRelayedTx`, `_peerRelayedBlock`, ...). Each handler takes the
  manager's lock, and most release it before they make their callbacks.
* Under that lock the peer manager calls the wallet: register, update, unconfirm, remove. The
  wallet has its own lock, so the user interface, which creates transactions and asks for
  addresses, comes between any two of the wallet's critical sections.
* Callbacks go up through JNI to Java. A single-threaded executor writes blocks and transactions
  to SQLite; at the next start `BRPeerManagerNew` and `BRWalletNew` rebuild from these.
* The light node does not speak to a peer. Its thread asks, Java sends the JSON-RPC requests, and
  each answer is announced by a thread of its own: in any order, and as often as it was asked for.
* The key value store talks to its server through `RemoteKVStore`, one request at a time, while
  the application goes on writing.

### 1.3 The hard behaviours, and what makes each part correct

* Wallet: whatever the order of registrations, blocks, forks and removals, the list is ordered,
  conflicting transactions do not both count, offered coins exist and are not spent by a
  confirmed transaction, and a settled balance is exact.
* Block chain: the tip is a highest block, heights are those of the main chain, no orphan is
  forgotten, pruning never takes what is still needed, and a restart at any moment finds a
  chain it can extend.
* Connections: there are never too many, the download peer is never a freed one, and a sync that
  was started has someone who works for it.
* Publishing: each accepted publish is answered at most once; retries and timeouts never answer
  for another transaction, and one that waits for a peer has that peer's timer.
* Peer: a node that keeps to the protocol is not dropped, what a pong is taken for is what the
  node has done, and each callback is called however the connection ends.
* Events: every signalled event is dispatched once, in order, under the lock; a stop stops.
* Light node: whatever the order of announcements and answers, a wallet lists what is blocked in
  the order of the chain, each once, and no two signed transactions share a nonce.
* Key value store: devices that go on syncing agree; what one wrote is lost only to a later
  write; a sync that failed half-way repeats without harm.

## 2. Plan

In order of importance; each item is a set of modules.

1. `Wallet`, `WalletProofs` - done (sections 3.1, 5.1). Left: coin selection and fees.
2. `BlockChain`, `BlockChainProofs` - done (3.2, 5.2). Left: header-only sync below the
   wallet's birthday, and heights across a restart.
3. `PeerManager` with the abstract `PublishPromise`, `PeerManagerProofs` - done (3.3, 5.3). `Peer`,
   `PeerProofs`: handshake, messages, pong queue - done (3.4, 5.4). Left: relay counts and the
   removal of transactions that nobody relays, composed with `Wallet`.
4. `EventHandler` with the abstract `EventDelivery`, `EventHandlerProofs` - done (3.5, 5.5).
   `LightNode`, `LightNodeProofs`: life cycle, nonces and announcements - done (3.6, 5.6).
5. `KVStore`, `KVStoreProofs` - done (3.7, 5.7). Left: `WalletStore`: transactions and blocks in
   SQLite across restarts; `Auth`: fail count, lock-out and sending flags.
6. Left: pure algorithms against reference definitions: `HashSet` (removal by re-insertion),
   `MerkleTree` (matched leaves), `CoinSelection`, the 256-bit checked arithmetic.

Runs are one per question, with instances of two or three actors and the smallest tree, list
or interval that has the case. Theorems: type correctness and the inductive invariant of every
state machine, the step properties that follow, and the refinements of items 3 and 4. The modules are
written for both tools: parameters with named assumptions, one action per operation, invariants
as conjunctions of named parts, and recursive functions where the code recurses.

## 3. The modules

### 3.1 `Wallet` - BRWallet.c

State: `transactions`, `allTx`, `txHeight`, `txTime`, `blockHeight` and `chainLen` are the
wallet's fields; `utxos`, `balanceHist`, `spentOutputs`, `invalidTx`, `pendingTx` and
`usedAddrs` what `_BRWalletUpdateBalance` caches. `extending`, `doomed` and `update` are calls
that span several critical sections: a registration that still has to extend the address
chains, the call stack of a removal, the loop of an update. `mined` and `tip` are the chain as
the peer manager has told the wallet. Amounts are abstracted to the outputs that carry them.

| Code | Actions and operators |
|---|---|
| `BRWalletRegisterTransaction` | `Register`, then `ExtendChain` once per chain |
| `BRWalletUnusedAddrs`, `BRWalletReceiveAddress` | `UnusedAddrs`, `RequestAddrs` |
| `BRWalletRemoveTransaction` | `RemoveTransaction` (find dependents), `RemoveDependents` (recursive call), `RemoveLast` |
| `BRWalletUpdateTransactions` | `BeginUpdate`, `UpdateOne` per hash, `EndUpdate`; called by `BlockConnected`, `MarkVerified`, `MarkUnverified` |
| `BRWalletSetTxUnconfirmedAfter` | `SetTxUnconfirmedAfter` |
| `_BRWalletTxCompare`, `_BRWalletInsertTx` | `SortsAfter`, `InsertTx` |
| `_BRWalletUpdateBalance` | `UpdateBalance` with `Verdicts` (validity, pending and coins in list order) |

Which transactions a block contains is the choice of the network's miners: any set without
conflicts whose parents are mined (`Blocks`, external). Two guards of `Register` are not in
`BRWalletRegisterTransaction` but are what its callers do. It waits for `Ready`: the application
registers and removes only through the peer manager, which holds its lock for the whole call
(`BRPeerManager.c:491`, `:946`, `:1029`, `:1428`), so only address requests come between the steps
of a removal; the native `registerTransaction` and `removeTransaction` have no caller. And a
transaction that is registered is not mined yet, as peers relay a block's transactions ahead of
the block; one that is presented first after its block stays unconfirmed in the wallet, which no
property here speaks of.

### 3.2 `BlockChain` - the chain in BRPeerManager.c

State: `blocks`, `orphans`, `lastBlock`, `estimatedHeight`, `downloadPeer` and `filter` (loaded
or `NULL`) are the manager's fields; `filterPing` is where each peer's filter update stands;
`thread[p]` is what peer `p`'s thread has still to do after it has released the lock - a save
callback, and the relay of an orphan to itself; `txHeight` is the effect on the wallet;
`saveQueue`, `saved` and `deleted` are the executor and the database. The tree of all blocks
that may be relayed is constant.

| Code | Actions and operators |
|---|---|
| `_peerRelayedBlock` | `RelayedBlock` and `RelayNext` (the recursive call), both through `Deliver`, with one disjunct per branch: `FilterMissing`, `Orphaned`, `Rejected`, `ExtendsChain`, `AlreadyHeld`, `MinedDuringRescan`, `ForksBelowCheckpoint`, `ForksChain`, `Reorganises` |
| `_BRPeerManagerVerifyBlock` | `Verifies` and `Pruned`: at a transition it frees the blocks below the previous one, for an invalid block too |
| end of `_peerRelayedBlock` | `Placed` (estimated height, next orphan), `SaveJob` (what is saved), `SaveBlocks` (callback) |
| `_BRPeerManagerLoadMempools`, `_BRPeerManagerLoadBloomFilter` | `AfterMempools`, `LoadBloomFilter`: a reload clears the orphans |
| `BRPeerManagerRescan` and its variants | `Rescan` |
| `_peerConnected`, `_peerDisconnected` | `PeerConnected`, `PeerDisconnected` (their effect on the tree, the filter and the download peer) |
| `_peerRelayedTx`, `_updateFilterPingDone`, `_updateFilterLoadDone` | `FilterOutdated`, `UpdateFilter`, `FilterLoadDone` |
| `BaseBitcoinWalletManager.saveBlocks` | `DeleteSaved`, `InsertSaved` |
| `BRPeerManagerNew` | `Restart`: a process that dies at any step starts from `saved` |

A walk that the code makes with `BRSetGet(blocks, &b->prevBlock)` is the set `Held(bs, b)`: the
ancestors down to the first that is not held. A reorganisation (`:1291-1324`) walks both branches
back until they meet, and has three outcomes. The walks meet (`Joins`): `Reorganised`. The walk from
the tip ends first (`StopsAt`): the code goes on without a join, unconfirms what is above the
place where the branch stands and gives none of the new branch's transactions a height; the model
does the same and remembers it in `unjoined`. The walk from the new block ends first: its last
step is to a null block. Where the code follows a null or freed block the model goes to `crashed`,
from which only a restart leads on.

### 3.3 `PeerManager`, `PublishPromise` - connections and publishing in BRPeerManager.c

State: `stage[p]` is where peer `p` and its thread stand, `"none"` when it is not in
`connectedPeers`; `timed` the peers whose timer is set; `known[p][t]` what was announced to `p` or
heard from it; `asked[p]` the pongs and mempools its callbacks wait for. `download`, `failures`,
`syncing`, `height`, `estimated` and `published` are the manager's `downloadPeer`,
`connectFailureCount`, `syncStartHeight > 0`, `lastBlock->height`, `estimatedHeight` and
`publishedTx`. `pc[t]` is where a thread stands in `BRPeerManagerConnect` or in
`BRPeerManagerDisconnect`, and `answer[c]` what has become of a call of `BRPeerManagerPublishTx`.

A handler holds the manager's lock from its first to its last line, so it is one step. What
releases the lock on its way is split there.

| Code | Actions and operators |
|---|---|
| `BRPeerManagerConnect` | `ConnectBegin` (until `syncStarted` is called), `ConnectDial` (until the lookup of addresses), `ConnectPick` (which looks at the list again) |
| `BRPeerManagerDisconnect`, `BRPeerManagerRescan` | `AppDisconnect` and `Disconnected`; `AppRescan` |
| `_peerThreadRoutine` | `Open`, `Leave`, `Flush` (callbacks that fail), then `PeerDisconnected` |
| `_peerDisconnected` | `PeerDisconnected` with `NewDownload`, `Failures`, `GivesUp`, `PublishExpires`; it goes on to `ConnectBegin` |
| `_peerConnected` | `RejectPeer`, `JoinPeer`, `ChooseDownload` |
| `_peerRelayedBlock`, `_BRPeerManagerLoadMempools` | `RelayBlock`, `LoadMempools` |
| `_loadBloomFilterDone`, `_mempoolDone`, `_BRPeerManagerSyncStopped` | `FilterLoaded`, `MempoolDone`, `SyncStoppedTimed` |
| `_peerRequestedTx`, `_peerHasTx`, `_peerRelayedTx` | `RequestedTx`, `HasTx`, `RelayedTx` |
| `BRPeerManagerPublishTx` | `Publish`, `ListAndSend`; `NetworkChecked` when the lock was released to ask for the network |

`PublishPromise` is what a caller may rely on: its callback is called once at most, after the call,
and only a call for a transaction that is already listed loses its callback (`BRPeerManager.c:228`,
the callback is dropped silently). `PromiseSpec` maps `answer` and the listed transactions to it.

What the model shows beside its properties: a disconnect that finds peers waiting for the network
waits until the network is back, which may be never; a call whose network check ended while
the manager was disconnected is listed and waits for the next connection; a Connect that finds no
address stops the sync but answers no publish; a connect timeout fails the publishes that wait
(`:828`); failures may jump over `MAX_CONNECT_FAILURES`, after which neither the test for giving
up (`:847`) nor the one for another try (`:856`) holds and the sync is never reported as stopped -
the exception in `SyncHasWorker`; a peer that is behind but served its mempool ends the sync with
success (`:556`).

### 3.4 `Peer` - BRPeer.c

State: the peer's fields (`status`, `sentVerack`, `sentMempool`, `known` for `knownTxHashSet`,
`current` and `missing` for the block that waits for its transactions, `pongs` and `mempool` for
the callbacks), both directions of the connection, the node at its other end, and what the manager
was given. The node keeps to the protocol: it serves in order, and announces, mines and answers as
it likes, one block or transaction at a time in what it announces. Once in a behaviour it may send a
pong or a block unasked (`Stray`); properties of honest nodes then no longer apply. Messages carry
what is sent and a tag that is not: the call of a ping, a pong or a mempool request and the number
of a filter, which only properties look at. What is under way when the connection closes is dropped.

| Code | Actions |
|---|---|
| `BRPeerSendFilterload`, `BRPeerSendPing`, `BRPeerSendMempool`, `BRPeerSendInv` | `SendFilterload`, `SendPing`, `SendMempool`, `SendInv`, from the manager's threads at any time, also while the peer's thread is ending |
| `_BRPeerAcceptMessage` and its handlers | `AcceptVersion`, `AcceptVerack`, `AcceptInv`, `AcceptTx`, `AcceptMerkleblock`, `AcceptGetdata`, `AcceptPong`, `AcceptNotfound`, and the messages that end the connection, `Unexpected` and `IncompleteBlock` |
| `_peerThreadRoutine` | `MempoolTimeout`, `Fail`, `Flush` (pong callbacks in order, then the mempool's), `Disconnected` |
| the node (external) | `ServeNext`, which takes the next message and answers it with `ServePing`, `ServeGetdata`, ..., and `Announce`, `AnnounceBlock`, `Mine`, `Stray` |

A callback added after the flush is never called. The model keeps these apart as `"stranded"`:
the manager frees the peer in `Disconnected`, and what it still asked for is lost with it.

### 3.5 `EventHandler`, `EventDelivery` - ethereum/event

State: `status`, `pending`, `scratch`, `timeout` (the timeout dispatcher) and `lock` are the
handler's record and its queue's list; `pc[t]` is where the `t`-th thread that
`eventHandlerStart` created stands between two lock operations; `signalling` and `sent` are the
callers of `eventHandlerSignalEvent`; `dispatched` is the history of dispatched events.

| Code | Actions |
|---|---|
| `eventHandlerStart`, `eventHandlerStop` | `Start`, `Stop`; each reads and sets `status` without the lock |
| `eventHandlerSignalEvent` | `Enqueue` (under the queue's own lock), then `Signal` |
| `eventHandlerSetTimeoutDispatcher` | `SetTimeoutDispatcher` (under the handler's lock), then `SignalTimeout` |
| `eventHandlerThread` | `Begin`, `Test`, `Look` (`eventQueueHasPending`), `Dequeue`, `Dispatch`, `Park`, `Reacquire`, `DispatchTimeout` |
| `pthread_cond_timedwait_relative_np` | `RefuseDeadline`: the sum of nanoseconds is not normalised, so a deadline may be invalid |

`EventDelivery` is the promise: a queue whose first event is handled next. The mapping takes
`scratch \o pending` for its queue, so that taking an event out is a stutter and dispatching it
is the step that handles it. The light node starts its handler once and sets no timeout
dispatcher (`BREthereumLightNode.c:96`); the rest is the interface of `BREvent.h`.

### 3.6 `LightNode` - ethereum/BREthereumLightNode.c, ...Announce.c

State: `state` and `thread` are the node's state and its polling thread; `nonce` is the address's;
`raising` the nonces that `addressSetNonce` has tested and not yet written; `signer` where
`signAndPublishTransaction` stands; `transactions` and `wallets` the node's records and each
wallet's list. `nonces`, `toAnnounce` and `answers` are replies that wait to be applied, `chain`
and `height` the network.

| Code | Actions and operators |
|---|---|
| `lightNodeConnect`, `lightNodeDisconnect`, `lightNodeThreadRoutine` | `Connect`, `Disconnect`, `ThreadStart`, `Poll`, `ThreadEnd` |
| `lightNodeWalletCreateTransaction`, `...SignTransaction`, `...SubmitTransaction`, called in that order by one thread of the application | `CreateTransaction` (up to reading the nonce), `SignAssign` (writing it), `Submit` |
| `lightNodeAnnounceNonce`, `addressSetNonce` | `TestNonce`, `WriteNonce` |
| `lightNodeAnnounceTransaction`, `lightNodeAnnounceLog` | `AnnounceTransaction` (found by `Match`: by hash, then by nonce), `AnnounceLog` (by hash only) |
| `lightNodeAnnounceSubmitTransaction` | `AnnounceSubmitTransaction` |
| `transactionCompare`, `walletInsertTransactionSorted`, `walletUpdateTransactionSorted` | `Less`, `InsertedSorted`, `UpdatedSorted` |

What the model shows beside its properties: a disconnect before the thread runs is overwritten
with `CONNECTED`, and one while nothing is connected leaves the node `DISCONNECTING`, in which
it can never connect again (the application never disconnects); a list as a whole is not sorted
(`BREthereumWallet.c:111` says "sorted from oldest to newest"), as signing sets a nonce and a late
answer a status without moving the entry; a token transfer of ours whose log overtakes the
answer to its submission is held twice (the exception in `HeldOnce`), and two logs of one
transaction are taken as one; a transaction found by its nonce may take the block of another
device's transaction with the same nonce, which is then never shown itself; the announced nonce
leaves out what is pending, and after a start the address's is 0 until one is announced; a
failed submission leaves a gap; a blocked transaction is never moved by a later announcement.

### 3.7 `KVStore` - platform/kvstore

State: `local[d]` is the last row of device `d`'s table, which is the only one that is read;
`server` the versions of the key at the server; `reader[d]` the version a writer has read;
`job[d]` where the device's sync stands between reading, asking and writing. Keys do not depend
on each other, so there is one.

| Code | Actions |
|---|---|
| `set`, `delete`, after `localVersion` | `ReadVersion`, then `Set` or `Delete` |
| `syncAllKeys`, `syncKey`, `_syncKey` | `List`, `Compare`, then `Fetch`, `FetchGone` or `Replace` (get, put, del at the server), `StoreFetched`, and `SetRemoteVersion` |
| a lost or refused request, a process that dies | `Abandon`; the answer to what the server took may be lost too (`Replace`) |

The server's answers are those that `RemoteKVStore.java` makes of its responses, not those of the
mock of `KVStoreTests`: every unsuccessful response is `unknown`, and `keys()` does not look at the
byte that marks a deletion. So a deletion on another device is never replicated - a get of the
deleted key fails and with it every sync of the key (`FetchGone`), where `testRemoteDeleteReplicates`
(`KVStoreTests.java:475-491`) has the mock return a tombstone - and `ver()` always is unknown.

The other way round a deletion wins where it should not. A device deletes the key, another then
writes a newer value, and the first one's sync fetches it: `_set` stores it with the deleted flag
of the row that was there (`:586`), and `setRemoteVersion` records the server's version
(`:590-592`). The device has the key deleted, the server has it live, and no later sync looks at it
again until the server has yet another version; `_syncKey` says "if their last-modified date is
newer than ours, overwrite ours" (`:479`). One device is enough, when it deletes what it is just
sending and the server gives the sent value a later time than the deletion. Without the exception
for such rows (`Buried`) TLC finds both `RecordedAgrees` and `SyncedIsCurrent` violated. With it
they say that nothing else goes wrong: a recorded row that is not deleted is the server's value,
and one that is deleted is deleted there too or has the very value that the server has live.

A row's time is that of its recording, so what another device wrote between a
put and its record can be overwritten; and a change made while an older one is being sent can lose
to the server's time of the older one. `LaterWriteWins` says what remains true: only something that
the server got later replaces a change, and never one made after the sync read the row.

### 3.8 `ListLemmas`

Facts about sequences and least elements that `WalletProofs`, `LightNodeProofs` and `PeerProofs`
share: the least and the greatest element of a set of naturals, and what removing and inserting an
entry do to the elements of a list.

### 3.9 MC modules

`MCWallet` has four transactions, two of them in conflict, and a chain of three spends;
`MCBlockChain` a forked tree with an invalid block, once over two and once over three difficulty
intervals; `MCPeerManager` two peers, one of them a block behind, and two transactions of which the
second spends the first; `MCPeer` one transaction of the node's, one of ours and a block with both;
`MCEventHandler` two signalling threads; `MCLightNode` two transactions of ours, a token transfer
and one that is received; `MCKVStore` two devices. They only define constants.

## 4. The runs

### 4.1 Wallet

| Run | Question |
|---|---|
| `wallet_conflicts` | Four transactions, two of them conflicting, one pending until height 3: do order, uniqueness, conflicts, coins and removals stay right in every interleaving of one block and one reorganisation? |
| `wallet_reorg` | Chain of three spends, two blocks, reorganisations two deep, addresses generated at any time: are heights those of the chain, is the settled balance exact, and does the inductive invariant hold? |

Two things that a comment or a test would not lead one to expect show in these instances and are
stated here without a run of their own:

* `BRWallet.h:141` says that registering adds a transaction to the wallet; one that was removed, or
  registered before it was the wallet's, stays in `allTx`, and registering it again succeeds and
  lists nothing.
* Marking an unconfirmed transaction (`BRWallet.c:939`) sets the wallet's height to
  `TX_UNCONFIRMED`, after which no lock height lies in the future (`:201`).

Bounds: `MaxHeight` 1 or 2 with `TX_UNCONFIRMED` above, two timestamps, two transactions per
block, gap limit 1. Heights only matter by their order and by equality with `TX_UNCONFIRMED`,
and two confirmed heights give every order of a spender and what it spends; two timestamps tell
"unverified" from "verified"; a gap of one is the tightest chain, and every further address
repeats the same step.

### 4.2 Block chain

| Run | Question |
|---|---|
| `chain_forks` | Two peers relay a chain of five blocks, a fork of two across a transition and an invalid block, with both threads between lock and callback at any time, and one filter update: tip, heights and orphans. |
| `chain_restart` | A tree over three intervals with two branches that overtake each other, a second checkpoint, one peer, a rescan to any block, and a process that dies at any step, also between deletion and insertion of saved blocks: the inductive invariant, every next transition can be verified, saves and the main chain reach back to a transition, and no handler of a recent block walks off the tree. |

What comments leave out and these instances, or larger ones with an interval of three, show:

* Heights that an abandoned branch gave are kept when the switch happens block by block after a
  restart, and never as a fork (`:1302`).
* A new transition block that arrives during a rescan frees the chain the rescan is on (`:1278`),
  and the tip of a branch that is not the main chain then loses the transition it needs. What a
  tip reaches is therefore stated without rescans.
* An old block that is relayed once more, further back than the interval before the last, is
  looked for on a walk that pruning has cut: the walk ends in a null block (`:1263-1265`).
* A fork from below what a restart has kept has no join that is held: depending on which branch
  ends first the reorganisation reads a null block or goes on unjoined (`:1295-1302`).
* A filter that runs out of addresses between its reload and the last pong is reset and never
  rebuilt; blocks are ignored until a peer changes (`:1192`).

The third and the fourth are why `NoCrash` speaks of recent blocks (`Recent`): those whose branch
leaves the main chain where it is still held, not below the interval before the last and not below
a checkpoint. That is what pruning takes for granted; the property says that nothing else is needed,
after any forks and restarts.

Bounds: a difficulty interval of 2 instead of 2016 - the code uses it as a modulus and a distance,
and 2 is the smallest value at which a transition and an ordinary block differ. One or two peers:
two are enough for every pair of threads between lock and callback, and `chain_restart`, which asks
about trees and not about threads, has one; that two threads' saves reach the executor in either
order is therefore covered by the proofs of 5 and not by a run. Two connections in total, one
rescan, one restart, one or two orphans at once, one filter update in `chain_forks` (filters change
which orphans are kept, not the tree, so `chain_restart` has none). The branch of `chain_restart`
is longer than what a restart keeps of the main chain, so that blind reorganisations happen, and
its invalid block is left to `chain_forks`. Heights stay below 10, so the check for peers that are
not synced, which compares with `lastBlock - 10`, never rejects one. When the bounds are used up
and every block is relayed the model has nothing left to do, so these runs do not check deadlock.

### 4.3 Peer manager

| Run | Question |
|---|---|
| `peers_sync` | Two peers, one of them a block behind, are dialled, fail, expire, are disconnected and dialled again by several threads at once, with a rescan at any time: is the download peer listed (`DownloadPeerListed`), and has a sync that goes on someone who works for it (`SyncHasWorker`)? |
| `peers_publish` | Two transactions, the second spending the first, are published while the only connection comes and goes: is each call answered at most once (`PromiseSpec`), does a peer that was told of what is pending have its timer set (`AnnouncedIsTimed`), do several threads that connect keep to the limit (`ConnectionsBounded`), and does the inductive invariant hold? |

Bounds: one block, so that a peer is behind or is not; one failure instead of 20, which is the
smallest limit that can be reached and jumped over; two connections where a download peer and
another matter, one where the publish list does. A peer's thread dials again only when its last
Connect is over. A disconnect may wait for ever for peers that wait for the network, so deadlock
is not checked.

### 4.4 Peer

| Run | Question |
|---|---|
| `peer_messages` | A node that announces, mines and serves in any order and may once send something unasked, a manager that loads two filters, pings, asks for the mempool and publishes, and a connection that may end at any time: the five properties of `Peer`. |

`peer_block_complete` refutes a comment: `BRPeer.c:731` says that a block waits for all its
transactions. It waits for those not in `knownTxHashSet`, into which a hash goes when it is asked
for; one that is mined before it is served is answered with `notfound`, and the block is handed
over without it. `BlockAskedFor` is what does hold.

Bounds: one ping, one mempool request and two filters give every order of the two kinds of
callback and a filter between them; a block with one transaction of each side gives the four
combinations of announced and received. Both directions hold as many messages as there are.
When all is said the model stops, so deadlock is not checked.

### 4.5 Event handler

| Run | Question |
|---|---|
| `events_delivery` | Two threads signal two events each; the handler is started, stopped and started again, and may get a timeout dispatcher at any time: is every event dispatched once and in order (`DeliverySpec`), do two threads that a stop and a start leave behind exclude each other (`IInv`), and does a timeout dispatcher leave no event behind (`TimedDelivery`)? |

`events_event_handled` refutes the header: `EventHandled` (`BREvent.h:110`). The queue's lock is a
copy of the handler's, so an event may be queued and signalled between the thread's look at the
queue and its wait. It stays until another event is signalled, and the light node has no timeout
dispatcher that would end the wait.

Bounds: two signals of each thread give a queue of more than one event and an event that comes
while another is dispatched; one stop and two starts are what it takes for two threads in the
loop. When all events are dispatched the thread waits for ever, so deadlock is not checked.

### 4.6 Light node

| Run | Question |
|---|---|
| `lightnode_announced` | Two transactions of ours, a token transfer of ours, or one that is received - sent by the app or by another device - are submitted and mined in two blocks while rounds of answers are applied in any order: is what is blocked listed in the chain's order (`BlockedInOrder`), once (`HeldOnce`), and with a block that the network mined (`BlockedIsMined`); is a nonce used twice only when the one known race gives it (`NonceReuse`); and is what is mined shown in the end (`MinedIsShown`)? |

Bounds: two blocks and two transactions of ours give every order of two blocked transactions, and
one of another device gives the match by nonce. Which transactions a behaviour may see together
is a constant (`Seen`), as a transfer and a payment do not meet in one wallet. A round begins
when all answers of the last are applied (`MaxWaiting = 0`), but submissions, and a nonce between
its test and its writing, overtake rounds; four calls of the app suffice for a connect, two sends
and a disconnect. When all is mined and shown only polling goes on, and after a disconnect
nothing: deadlock is not checked.

### 4.7 Key value store

| Run | Question |
|---|---|
| `kvstore_sync` | Two devices write, delete and sync one key while requests and answers are lost and processes die: is what a device has recorded as synced what the server has, value and deletion (`RecordedAgrees`), does no sync undo a change made since it read the row (`LaterWriteWins`), and has the device after a sync that went through what the server has, or a change of its own (`SyncedIsCurrent`)? The first and the last except a value that was fetched over a deletion, which stays marked as deleted (3.7). |

Bounds: three writes and two syncs of each device let a change come before, between and after
the other device's; three moments give earlier, equal and later. When all writes and syncs are
used up the model stops, so deadlock is not checked. The two devices are symmetric.

### 4.8 Mutants

Every property of a passing run has a mutant: an operator beside the original with a plausible
mistake (an append instead of an ordered insertion, no conflict check, an off-by-one at the fork,
pruning at the previous transition itself, a restart from the last saved block whatever its height,
a tie that wins, two orphans of one parent, a save that is cut one block too short, a wait that
ends without the lock, a timer cancelled while another callback waits, the room for peers counted
before the lookup, a pong given to the latest callback, a version check that always passes, an
entry updated in place, a match by nonce of what is not ours). With the mutant in place of the
original, TLC finds the property violated.

### 4.9 Fairness

`Wallet`, `BlockChain`, `PeerManager` and `KVStore` are safety specifications, `Init /\
[][Next]_vars`. Nothing in the code forces a peer or a server to answer, and their properties ask
for nothing to happen. Where a property does, the fairness is that of a thread that runs:

* `EventHandler`: a thread that can run runs, a call that has begun goes on to its signal, a timed
  wait ends, and the handler is started, as `createLightNode` does. No fairness makes anyone
  signal, stop or wake without reason.
* `Peer`: the thread reads what has arrived, looks at the clock, and calls the callbacks when it
  ends; the node serves what it was sent. Nothing else of the node is fair, and the connection
  need not break.
* `LightNode`: the thread goes on polling and what it is told is applied. The answer to a
  submission may never come, and nothing makes the network mine.

## 5. The proofs

### 5.1 `WalletProofs`

Assumption: `WalletAssumption` in `Wallet` (types of the constants, a finite set of
transactions, positive gap limits), which TLC evaluates in every run.

`Invariance` proves `Spec => []IInv`. `SortedByHeight` is not inductive by itself: an update
inserts a transaction whose height it has just changed, so the proof needs that the list has no
duplicates (`ListedOnce`: removing leaves none behind), that an update's remaining work is exactly
where the list and the chain differ (`UpdateFollowsChain`), that only unconfirmed transactions are
on a removal's stack (`DoomedUnconfirmed`), and that the chain confirms parents first
(`ChainInOrder`); that the search for dependents may stop at the first older transaction follows
from these. `ListedContained` keeps an update from forgetting a listed transaction. The lemmas
about the list (removal, insertion at a free place, position of a transaction) are proved from the
sequence theorems and `ListLemmas`; that the address chains' `CHOOSE` has a witness rests on the
least element of a set of naturals.

The second half of the invariant (`BalanceInv`) is about what the last pass over the list left in
`invalidTx`, `pendingTx` and `utxos`. The pass is a recursive function over the list (`Verdicts`).
Its equation is not given but has to be shown to have a solution: `VerdictsUnfold` does this without
an induction principle, by taking the shortest prefix on which it would fail (`LeastNat`). What each
entry's verdict says then carries from one pass to the states after it: registering, confirming
and lowering heights either compute the balance again or change nothing that it depends on. For
this the invariant follows the update under way: a listed transaction that the last pass left
out and that has confirmed since makes the update compute the balance (`SettlesWhenConfirmed`),
and a block or a reorganisation never leaves two confirmed transactions with one output
(`ChainHasNoConflict`). Between two passes `utxos` lies between the outputs that nothing listed
spends and those that nothing counted spends (`UtxosBetween`); once everything has confirmed the two
meet.

From it: `TypeCorrect`, `ListIsSorted`, `ListHasNoDuplicates`, `HeightsAgree`, `CoinsAreBacked`,
`DoubleSpendsAreMarked`, `ConfirmedSpendsAreGone`, `SettledBalanceIsExact`, and the step property
`RemovalsComplete`.

### 5.2 `BlockChainProofs`

Assumptions, all in `BlockChain`: `BlockChainAssumption` (a finite set of blocks, heights that
grow by one along `Prev`, checkpoints at transitions, a positive interval); `ConfirmedOnce` (a chain
confirms a transaction at most once, which is the network's rule); `NothingBeforeBirthday` (the
checkpoint a fresh wallet starts from has none of its transactions: it is the last one a week
before the earliest key, `BRPeerManager.c:1488`). Forks may be as deep as they like.

`Invariance` proves `Spec => []IInv` for any tree, any number of peers, rescans and restarts.
The argument:

* `TipHeld` and `TipIsHighest` need each other. Verification frees the tip only if the new
  block is more than an interval above it (`TipSurvives`). Its parent is held, so by
  `TipIsHighest` it is at most one above the tip - or the parent is a checkpoint, itself a
  transition, and two transitions in a row mean an interval of one, in which nothing is freed.
* `NoStrandedOrphan`: a block joins the tree only together with the removal of the orphan that
  waits for it. A postponed block has its parent in the tree, but is more than one above the
  tip, which by `TipIsHighest` only a checkpoint's child can be.
* `SavedFromTransition` needs the same of what is still in a thread or in the queue
  (`JobsFromTransition`), and of each save (`SaveJobFromTransition`): a chosen block that is no
  transition has a transition strictly below it in the walk, so its parent is walked and chosen
  too. That the block has a parent at all follows from `RootIsLowest`: a root is the lowest
  block of any branch it is on.
* `Ancestors` is the least set closed under `Prev`, so facts along a branch are proved by
  giving the closed set (`AncestorIn`), without induction over data: the ancestors of a block are
  a chain (`AncestorsAreChain`), one per height (`OneAncestorPerHeight`) and without gaps
  (`AncestorAtHeight`).
* `BranchesHeld` is the strengthening behind everything that walks the tree. Above `WalkLimit`,
  one interval below the last transition at or just above the tip, a held block has its parent held
  too, unless it is the transition a restart began with, and that one is on the main chain until a
  reorganisation goes on unjoined. Pruning keeps this because it only frees below the limit
  (`FreedBelowLimit`) and the tip, and with it the limit, never falls; a reorganisation that finds
  its join keeps what the main chain began with (`JoinKeepsRoot`); a restart rebuilds from one
  transition (`RestartBranches`).
* From `BranchesHeld`, `WalkToTransition`: from a held block as high as the tip every step
  down to its transition is held. This is `TipReachesTransition` at the tip, and
  `TransitionsVerifiable` at the parent of a transition above it, which is as high as the tip unless
  the interval is one (`TransitionNearTip`).
* `NoCrash`: a recent block leaves the main chain at or above the limit. A block relayed again meets
  the tip's chain at its height (`RepetitionMeets`); for a reorganisation the highest block both
  branches share is held on both (`RecentJoin`), because the branch above it is not on the main
  chain, so the exception of `BranchesHeld` does not apply.
* `HeightsFollowMainChain` is part of the invariant: an extension, a repetition and a joined
  reorganisation each keep it (`ExtensionConfirms`, `RepetitionConfirms`, `ReorganisationConfirms`),
  the last because heights above the join are exactly those of the abandoned branch.

From it: `TypeCorrect`, `HighestTip`, `HeldTip`, `NoOrphanStranded`, `SavedReachTransition`,
`HeightsAreMainChains`, `TipReaches`, `NextTransitionVerifiable`, and the step properties `TipRises`
and `RecentBlocksAreSafe`.

### 5.3 `PeerManagerProofs`

Assumption: `PeerManagerAssumption` in `PeerManager` (a finite set of addresses, the types of the
constants, positive limits).

`Invariance` proves `Spec => []IInv` for any number of peers, transactions and calls.
`ConnectionsBounded` holds because the list of peers changes only in `ConnectPick`, which counts
it again under the lock, and in `PeerDisconnected`. `SyncHasWorker` rests on what
`PeerDisconnected` does with the last peer: it gives up, connects again, or the failures are over
the limit; that the download peer is counted among those listed needs `DownloadPeerListed`.
`AnnouncedIsTimed` needs `ToldListed` - only listed transactions are announced, so a new publish
finds no peer that was told of it before - and that a timer is cancelled only when nothing else is
pending; and `CallsListed`, that a callback waits exactly when its transaction is listed with it,
needs `ListedAsOwn`.

`PublishKeepsPromise` proves `Spec => PromiseSpec`. `CallStep` summarises what any step may do to
the list and to the answers, and is used for the invariants as well as for the refinement.
From the invariant: `DownloadIsListed`, `FewEnoughPeers`, `WaitingIsListed`, `SyncIsWorkedFor`,
`PublishIsTimed`.

### 5.4 `PeerProofs`

Assumption: `PeerAssumption` in `Peer` (a finite set of transactions, the types of the constants).

`Invariance` proves `Spec => []IInv` for any transactions, blocks, calls and filters, and however
many messages are under way in both directions. `BlockAskedFor` needs only that what a waiting block
waits for is all that is neither received nor known (`CurrentAskedFor`), and holds of any node. The
other properties tell of a state at the other end of the connection, and are inductive only with
`UnderWay`, which says what each message tells when it is read:

* what the node or the peer has announced is known, or in an inv that is read before what depends
  on it (`ToldIsKnown`); so each transaction that the node leaves out of its answer for a block is
  known, announced before the block or sent right after it (`BlocksCovered`), and the block never
  waits while something else comes - which would end the connection (`NothingWrong`);
* pings and pongs are under way for exactly the callbacks that wait, and in their order
  (`PongsInOrder`), so the pong that is read is for the callback at the head, though all pings have
  the same nonce (`PongsInOrderAnswered`);
* a ping is behind the filters and the mempool request sent before it, and its pong tells that they
  were loaded and served (`FiltersInOrder`, `MempoolsInOrder`).

Every step takes at most one message from the head of a queue and adds some at its end.
`ManagerMoves`, `PeerMoves`, `NodeMoves` and `DataMoves` say of each action which (`Moving`), and
`Places` where each message then is. Each part of `UnderWay` has a lemma for the steps that do not
disturb it, and one for each that does. After the end of an open connection only `PromisesClosed`
is left: what the thread and the manager still do calls nobody with success.

From it: `TypeCorrect`, `HonestNodeNotDropped`, `PongTellsOfFilter`, `MempoolTellsOfAll`,
`BlocksAreAskedFor`.

### 5.5 `EventHandlerProofs`

Assumption: `EventHandlerAssumption` in `EventHandler` (the bounds are naturals, one start at
least).

`Invariance` proves `Spec => []IInv` for any number of signalling threads, events, starts and
stops. Its core is `LockHeld`: a thread at a point between two lock operations holds the lock,
so no two are there (`OneHolder`). From that, nobody empties the queue between a look and a
dequeue (`DequeueFindsEvent`), and the scratch event is free when an event is taken
(`ScratchInUse`). `OnlySent` bounds the numbers of the events in the queue, so that an event
that is queued is new. Steps that only move a thread are proved together (`QuietStepKept`).

`Implementation` proves `Spec => Delivery!Spec`: `Dispatch` handles the head of the mapped
queue (`DispatchHandles`), `Enqueue` announces an event that was not announced before
(`EnqueueAnnounces`), `Dequeue` and all others stutter (`DequeueStutters`).
`DequeueNeverEmpty` follows from the invariant.

### 5.6 `LightNodeProofs`

Assumptions: `HashAssumption` (a finite set of transactions) and `BoundAssumption` in `LightNode`.

`Invariance` proves `Spec => []IInv` for any transactions, blocks and calls of the application. The
argument has four parts:

* Lists. `InsertedKeeps`, `RemovedKeeps` and `UpdatedKeeps` show that an insertion keeps each
  entry once (`ListedOnce`) and what is blocked in order: the new entry goes after the last one
  it is not less than, all blocked entries behind it have a later place, and those that are
  pending are passed. `Blocks` summarises every announcement that changes something: it blocks one
  entry and moves it.
* The chain. What is mined never changes (`ChainKept`), and only what is mined is announced
  (`AnnouncedIsMined`), so a match by hash or nonce stays one (`BlockedIsMined`). A nonce is
  only given to an entry that has none, which therefore is not blocked (`SignerOK`).
* Hashes. Every hash that is held is pending or mined, and no two submissions have one
  (`HashesOK`). An answer still to come is the only one with its hash (`AnswersOK`): what the
  network took was fresh, so nothing had the hash then, and what has it since came from an
  announcement. In the ether wallet there is none: the announcement finds the submission by its
  nonce, the one the network took it with (`ByNonceMisses`), and blocks it. Only a log, matched by
  hash alone, adds a second entry. So when `lightNodeAnnounceSubmitTransaction` writes the hash, the
  entry is alone with it in its wallet, or it is the exception that `HeldOnce` names (`HashAdded`,
  `HashesKept`, `HashInvariance`).
* Nonces. `NonceBelow` keeps each nonce that was given outside of a raise below the address's,
  below every raise under way and below what the signer has read; two equal ones then need the
  race, as `NonceReuse` states.

From it: `BlockedAlwaysInOrder`, `BlockedAlwaysMined`, `HashHeldOnce`, `NonceGivenOnce`,
`NeverTwoThreads` (a node that may be connected has no thread left).

### 5.7 `KVStoreProofs`

Assumption: `KVStoreAssumption` (the bounds are naturals).

`Invariance` proves `Spec => []IInv`. `RecordedAgrees` is not inductive: a sync still holds a row
and a version that it read before its request. `JobOK` says, for each step of a sync, what it may
still rely on: the row it has read is the table's, or the table has had a change of its own since
(`Tracks`), which the version check then sees; and a fetched value is later than the row it
replaces, as versions of the server are ordered in time (`TimesOrdered`). Of what a sync is about to
record `JobOK` says that the row agrees with the server's version, deletion included, or is a value
fetched over a deletion; a put sends no deleted row and a del no other. From it:
`RecordedIsTrue`, `SyncIsCurrent`, and the step property `NoChangeUndone`.

### 5.8 Only model-checked

`TimedDelivery`, `CallbackAnswered` and `MinedIsShown`: liveness and `ENABLED` are outside of what
the prover does. Every safety invariant and action property of the passing runs is proved.

## 6. What is not modelled

* Of the wallet: coin selection, fees and signing; `BRWalletTransactionIsValid`, which changes
  nothing but releases its lock between parents. Three things the model shows and no property
  asks for: an update that makes a pending transaction counted does not extend the address
  chains, so the last `GapLimit` addresses need not be unused until the next registration; the
  history entry of a transaction listed after its spender lacks its outputs; and what a pending
  transaction spends stays among the coins until a counted one follows it in the list. `LockTime`
  is a height; a lock by wall clock that runs out while the wallet looks on (`BRWallet.c:202`) is not
  modelled: it defers like `Replaceable` until then and not at all afterwards.
* Of the event handler: `eventHandlerDestroy`, which nothing calls and which frees what a waiting
  thread still uses; what listeners do with an event.
* Of the block chain: header-only sync before the wallet's birthday and `getblocks` requests,
  which leave the manager's state alone; the false-positive rate; object lifetimes beyond freed
  tree blocks (a relayed block that replaces and frees an equal one).
* Of the peer manager: relay counts, requests for transactions that nobody relays and their removal
  from the wallet, rejected transactions, and the exchange of addresses; the manager's Java side
  retries a failed sync, which is a counter outside of the library. A restarted sync does not set
  the download peer's timer again; the model has that and no property asks for it.
* Of a peer: `getheaders` and `getblocks`, `needsFilterUpdate`, addresses, rejects and the limits on
  sizes. `pongCallback` is an array that two threads change without a lock (`BRPeer.h:108`); each
  addition and removal is a step, and what a torn one would do is not modelled.
* Of the light node: listeners, balances, gas prices and estimates, block heights (read, compared
  and written without a lock), two threads that connect at once, and `lightNodeDeleteTransaction`,
  which nothing calls.
* Of the key value store: encryption, the cache of keys, and syncing at once after a write, which the
  application has switched off; only `APIClient.syncKvStore` syncs.
* The parts of section 1 for which `PROJECT.json` says `not_modelled`: the ones that
  section 2 leaves, and cryptography, encodings, I/O, user interface and vendored code, which have no
  state for these properties to speak of.
