----------------------------- MODULE PeerManager ----------------------------
(***************************************************************************)
(* The connections of the peer manager, BRPeerManager.c: choosing peers    *)
(* and the one to download from, the start and the end of a sync, and the  *)
(* life of a publish callback.  BlockChain has its blocks.                 *)
(*                                                                         *)
(* Every peer has a thread (BRPeer.c) that calls the manager's handlers.   *)
(* A handler holds the manager's lock, so it is one step; the functions    *)
(* that release the lock on their way are steps of their own: Connect      *)
(* around syncStarted and the DNS lookups, PublishTx around                *)
(* networkIsReachable, and the end of _peerDisconnected, which calls       *)
(* Connect.  Every peer has one timer, which connecting, publishing and    *)
(* downloading all set and cancel.  networkIsReachable, the false positive *)
(* rate, the ping times and the remote nodes answer anything at any time.  *)
(***************************************************************************)
EXTENDS Naturals, FiniteSets, FiniteSetsExt

CONSTANTS
  Peer, NoPeer,    \* addresses, and a null pointer
  LastBlock,       \* LastBlock[p]: the height p reports when it connects
  Tx,              \* the wallet's own transactions, unconfirmed
  Inputs,          \* Inputs[t]: those that t spends from, directly or not
  Call, NoCall,    \* calls of BRPeerManagerPublishTx with a callback, and none
  TxOf,            \* TxOf[c]: what c publishes
  MaxConnectCount, \* PEER_MAX_CONNECTIONS, or 1 with a fixed peer
  MaxFailures,     \* MAX_CONNECT_FAILURES
  App              \* the application's thread

Unlisted == "unlisted"

ASSUME PeerManagerAssumption ==
  /\ IsFiniteSet(Peer) /\ NoPeer \notin Peer /\ App \notin Peer
  /\ LastBlock \in [Peer -> Nat]
  /\ TxOf \in [Call -> Tx] /\ NoCall \notin Call /\ Unlisted \notin Call /\ NoCall # Unlisted
  /\ Inputs \in [Tx -> SUBSET Tx]
  /\ MaxConnectCount \in Nat \ {0} /\ MaxFailures \in Nat \ {0}

Thread == Peer \cup {App}

\* connectedPeers and their threads
VARIABLES
  stage,           \* stage[p]: "none" unless p is in connectedPeers
  timed,           \* peers whose disconnectTime is set
  known,           \* known[p][t]: "no", "told" (announced to p) or "known"
  asked            \* asked[p]: pongs and mempools that p's callbacks wait for

\* the manager
VARIABLES
  download,        \* downloadPeer; isConnected says whether there is one
  failures,        \* connectFailureCount
  syncing,         \* syncStartHeight > 0
  height,          \* lastBlock->height
  estimated,       \* estimatedHeight
  published        \* published[t]: Unlisted, or its callback's call, or NoCall

\* the application
VARIABLES
  pc,              \* pc[t]: how far t is in Connect or Disconnect
  answer           \* answer[c]: what has become of c

peerVars == <<stage, timed, known, asked>>
syncVars == <<download, failures, syncing, height, estimated>>
vars == <<peerVars, syncVars, published, pc, answer>>

Gone == {"quiet", "failed", "expired"}   \* the thread's error: none or EPROTO, any other, ETIMEDOUT
Running == {"opening", "handshake", "connected"}

InList == {p \in Peer : stage[p] # "none"}
Up     == {p \in Peer : stage[p] = "connected"}
Pending == {t \in Tx : published[t] \in Call}

Init ==
  /\ stage = [p \in Peer |-> "none"] /\ timed = {}
  /\ known = [p \in Peer |-> [t \in Tx |-> "no"]]
  /\ asked = [p \in Peer |-> {}]
  /\ download = NoPeer /\ failures = 0 /\ syncing = FALSE /\ height = 0 /\ estimated = 0
  /\ published = [t \in Tx |-> Unlisted]
  /\ pc = [t \in Thread |-> "idle"] /\ answer = [c \in Call |-> "none"]

-----------------------------------------------------------------------------
(***************************************************************************)
(* What the handlers share.                                                *)
(***************************************************************************)

\* _BRPeerManagerAddTxToPublishList: with its unconfirmed inputs, unless listed
Listed(t, c) ==
  IF published[t] # Unlisted THEN published
  ELSE [u \in Tx |-> IF u = t THEN c
                     ELSE IF u \in Inputs[t] /\ published[u] = Unlisted THEN NoCall
                     ELSE published[u]]

\* BRPeerSendInv announces what p does not know; SendMempool only notes it
Informed(ps, list, how) ==
  [p \in Peer |-> [t \in Tx |->
     IF p \in ps /\ list[t] # Unlisted /\ known[p][t] = "no" THEN how ELSE known[p][t]]]

\* the peers whose timer _BRPeerManagerPublishPendingTx sets
PublishTimed(ps, list) == IF \E t \in Tx : list[t] \in Call THEN ps ELSE {}

\* mutant: cancels the timeout although callbacks are pending
SyncStoppedTimed_Always(d) == IF d = NoPeer THEN timed ELSE timed \ {d}

\* _BRPeerManagerSyncStopped, with d the download peer
SyncStoppedTimed(d) == IF d = NoPeer \/ Pending # {} THEN timed ELSE timed \ {d}

\* _BRPeerManagerLoadMempools, with up connected and d the download peer
LoadMempools(up, d, fpHigh) ==
  LET filtered == IF fpHigh THEN up ELSE up \ {d}
  IN /\ known' = [p \in Peer |->
          IF p \in filtered THEN Informed(up, published, "told")[p]
          ELSE Informed(up, published, "known")[p]]
     /\ asked' = [p \in Peer |-> IF p \in filtered THEN asked[p] \cup {"filter"}
                                 ELSE IF p \in up THEN asked[p] \cup {"mempool"} ELSE asked[p]]
     /\ timed' = timed \cup PublishTimed(filtered, published)

-----------------------------------------------------------------------------
(***************************************************************************)
(* Connecting and disconnecting.                                           *)
(***************************************************************************)

\* BRPeerManagerConnect once it has reported a sync: peers that wait for the
\* network are connected if it is there, and others are looked for if there is room
Redial(t) ==
  /\ \E retried \in {{}, {p \in Peer : stage[p] = "waiting"}} :
       /\ stage' = [p \in Peer |-> IF p \in retried THEN "opening" ELSE stage[p]]
       /\ timed' = timed \cup retried
  /\ pc' = [pc EXCEPT ![t] = IF Cardinality(InList) < MaxConnectCount THEN "pick" ELSE "idle"]
  /\ UNCHANGED <<known, asked>>

\* BRPeerManagerConnect: a manual retry forgets the failures; without a
\* download peer, or behind it, a sync starts
ConnectBegin(t) ==
  /\ pc[t] = "connect"
  /\ failures' = IF failures >= MaxFailures THEN 0 ELSE failures
  /\ IF (download = NoPeer \/ height < estimated) /\ ~syncing
     THEN /\ syncing' = TRUE
          /\ pc' = [pc EXCEPT ![t] = "dial"]
          /\ UNCHANGED peerVars
     ELSE Redial(t) /\ UNCHANGED syncing
  /\ UNCHANGED <<download, height, estimated, published, answer>>

ConnectDial(t) ==
  /\ pc[t] = "dial"
  /\ Redial(t)
  /\ UNCHANGED <<syncVars, published, answer>>

\* mutant: fills the room there was before the lookups
Room_Stale == MaxConnectCount

\* peers that may still be added
Room == IF Cardinality(InList) < MaxConnectCount THEN MaxConnectCount - Cardinality(InList) ELSE 0

\* the end of BRPeerManagerConnect: any addresses that manager->peers holds
\* after the lookups; without any connection the sync has failed
ConnectPick(t) ==
  /\ pc[t] = "pick"
  /\ \E ps \in SUBSET (Peer \ InList), reachable \in BOOLEAN :
       /\ Cardinality(ps) <= Room
       /\ stage' = [p \in Peer |-> IF p \notin ps THEN stage[p]
                                  ELSE IF reachable THEN "opening" ELSE "waiting"]
       /\ timed' = IF reachable THEN timed \cup ps ELSE timed
       /\ syncing' = (syncing /\ InList \cup ps # {})
  /\ pc' = [pc EXCEPT ![t] = "idle"]
  /\ UNCHANGED <<known, asked, download, failures, height, estimated, published, answer>>

AppConnect ==
  /\ pc[App] = "idle"
  /\ pc' = [pc EXCEPT ![App] = "connect"]
  /\ UNCHANGED <<peerVars, syncVars, published, answer>>

\* BRPeerManagerDisconnect, until connectedPeers is empty
AppDisconnect ==
  /\ pc[App] = "idle" /\ InList # {}
  /\ failures' = MaxFailures
  /\ pc' = [pc EXCEPT ![App] = "wait"]
  /\ UNCHANGED <<peerVars, download, syncing, height, estimated, published, answer>>

Disconnected ==
  /\ pc[App] = "wait" /\ InList = {}
  /\ pc' = [pc EXCEPT ![App] = "idle"]
  /\ UNCHANGED <<peerVars, syncVars, published, answer>>

\* a rescan drops the download peer, goes back to an earlier block, and connects
AppRescan(h) ==
  /\ pc[App] = "idle" /\ download # NoPeer /\ h < height
  /\ height' = h /\ syncing' = FALSE
  /\ pc' = [pc EXCEPT ![App] = "connect"]
  /\ UNCHANGED <<stage, timed, known, asked, download, failures, estimated, published,
                 answer>>

-----------------------------------------------------------------------------
(***************************************************************************)
(* A peer's thread.                                                        *)
(***************************************************************************)

\* _BRPeerOpenSocket succeeds and the version message is sent
Open(p) ==
  /\ stage[p] = "opening"
  /\ stage' = [stage EXCEPT ![p] = "handshake"]
  /\ UNCHANGED <<timed, known, asked, syncVars, published, pc, answer>>

\* the loop of _peerThreadRoutine ends, for the reason e
Leave(p, e) ==
  /\ stage[p] \in Running
  /\ stage' = [stage EXCEPT ![p] = e]
  /\ UNCHANGED <<timed, known, asked, syncVars, published, pc, answer>>

\* callbacks that wait for a pong are told of the failure: a filter that the
\* download peer did not confirm counts as the end of the sync
Flush(p) ==
  /\ stage[p] \in Gone /\ asked[p] # {}
  /\ asked' = [asked EXCEPT ![p] = {}]
  /\ IF "filter" \in asked[p] /\ p = download
     THEN syncing' = FALSE /\ timed' = SyncStoppedTimed(download)
     ELSE UNCHANGED <<syncing, timed>>
  /\ UNCHANGED <<stage, known, download, failures, height, estimated, published, pc, answer>>

\* mutant: the download peer stays when its thread is gone
NewDownload_Kept(p) == download

NewDownload(p) == IF p = download THEN NoPeer ELSE download

\* connectFailureCount without p: an error that is not the protocol's counts
Failures(p) ==
  LET count == IF stage[p] = "quiet" THEN failures ELSE failures + 1
  IN IF p = download /\ count > MaxFailures THEN MaxFailures ELSE count

\* mutant: looks at the download peer before p is taken from it
GivesUp_Before(p) == download = NoPeer /\ Failures(p) = MaxFailures

GivesUp(p) == NewDownload(p) = NoPeer /\ Failures(p) = MaxFailures

\* a timeout that fails the publishes
PublishExpires(p) ==
  stage[p] = "expired" /\ (p # download \/ ~syncing \/ Cardinality(InList) = 1)

\* _peerDisconnected; the address is dialled again by this thread only when
\* its last Connect is over (a bound)
PeerDisconnected(p) ==
  /\ stage[p] \in Gone /\ asked[p] = {} /\ pc[p] = "idle"
  /\ download' = NewDownload(p)
  /\ failures' = Failures(p)
  /\ syncing' = (syncing /\ ~GivesUp(p))
  /\ IF GivesUp(p) \/ PublishExpires(p)
     THEN /\ published' = [t \in Tx |-> IF t \in Pending THEN NoCall ELSE published[t]]
          /\ answer' = [c \in Call |-> IF published[TxOf[c]] # c THEN answer[c]
                                       ELSE IF GivesUp(p) THEN "notconn" ELSE "timeout"]
     ELSE UNCHANGED <<published, answer>>
  /\ stage' = [stage EXCEPT ![p] = "none"]
  /\ timed' = timed \ {p}
  /\ known' = [known EXCEPT ![p] = [t \in Tx |-> "no"]]
  /\ pc' = [pc EXCEPT ![p] = IF Failures(p) < MaxFailures THEN "connect" ELSE "idle"]
  /\ UNCHANGED <<asked, height, estimated>>

-----------------------------------------------------------------------------
(***************************************************************************)
(* _peerConnected: the handshake is over and the timer cancelled.          *)
(***************************************************************************)

DidConnect(p) ==
  /\ stage[p] = "handshake"
  /\ stage' = [stage EXCEPT ![p] = "connected"]
  /\ UNCHANGED <<published, pc, answer>>

\* a node without the services, or that is not synced
RejectPeer(p) ==
  /\ DidConnect(p)
  /\ timed' = timed \ {p}
  /\ UNCHANGED <<known, asked, syncVars>>

\* whether the download peer is kept
KeepsDownload(p) ==
  download # NoPeer /\ (LastBlock[download] >= LastBlock[p] \/ height >= LastBlock[p])

\* the download peer is kept; a peer that has nothing new serves the mempool
JoinPeer(p) ==
  /\ DidConnect(p)
  /\ KeepsDownload(p)
  /\ IF height >= LastBlock[p]
     THEN /\ failures' = 0
          /\ timed' = (timed \ {p}) \cup PublishTimed({p}, published)
          /\ known' = Informed({p}, published, "told")
          /\ asked' = [asked EXCEPT ![p] = @ \cup {"filter"}]
     ELSE timed' = timed \ {p} /\ UNCHANGED <<failures, known, asked>>
  /\ UNCHANGED <<download, syncing, height, estimated>>

\* a new download peer: of those connected, one that reports the most blocks
ChooseDownload(p, q) ==
  /\ DidConnect(p)
  /\ ~KeepsDownload(p)
  /\ q \in Up \cup {p} /\ \A r \in Up \cup {p} : LastBlock[r] <= LastBlock[q]
  /\ download' = q /\ estimated' = LastBlock[q]
  /\ IF height < LastBlock[q]
     THEN /\ timed' = (timed \ {p}) \cup {q}
          /\ known' = Informed({q}, published, "told")
          /\ UNCHANGED <<failures, asked>>
     ELSE /\ failures' = 0
          /\ timed' = (timed \ {p}) \cup PublishTimed(Up \cup {p}, published)
          /\ known' = Informed(Up \cup {p}, published, "told")
          /\ asked' = [r \in Peer |-> IF r \in Up \cup {p}
                         THEN asked[r] \cup {IF r = q THEN "mempool" ELSE "filter"} ELSE asked[r]]
  /\ UNCHANGED <<syncing, height>>

-----------------------------------------------------------------------------
(***************************************************************************)
(* Messages.                                                               *)
(***************************************************************************)

\* _peerRelayedBlock, of its next block
RelayBlock(p, fpHigh) ==
  /\ stage[p] = "connected" /\ height < LastBlock[p]
  /\ height' = height + 1
  /\ estimated' = IF height' > estimated THEN height' ELSE estimated
  /\ failures' = IF p = download /\ height' < estimated THEN 0 ELSE failures
  /\ IF height' = estimated THEN LoadMempools(Up, download, fpHigh)
     ELSE /\ timed' = IF p = download /\ height' < estimated THEN timed \cup {p} ELSE timed
          /\ UNCHANGED <<known, asked>>
  /\ UNCHANGED <<stage, download, syncing, published, pc, answer>>

\* _loadBloomFilterDone, after the pong
FilterLoaded(p) ==
  /\ stage[p] = "connected" /\ "filter" \in asked[p]
  /\ asked' = [asked EXCEPT ![p] = (@ \ {"filter"}) \cup {"mempool"}]
  /\ known' = Informed({p}, published, "known")
  /\ UNCHANGED <<stage, timed, syncVars, published, pc, answer>>

\* _mempoolDone
MempoolDone(p) ==
  /\ stage[p] = "connected" /\ "mempool" \in asked[p]
  /\ asked' = [asked EXCEPT ![p] = @ \ {"mempool"}]
  /\ IF syncing THEN syncing' = FALSE /\ timed' = SyncStoppedTimed(download)
     ELSE UNCHANGED <<syncing, timed>>
  /\ UNCHANGED <<stage, known, download, failures, height, estimated, published, pc, answer>>

\* mutant: the callback stays on the list
Answered_Kept(t, r) ==
  /\ published' = published
  /\ answer' = IF published[t] \in Call THEN [answer EXCEPT ![published[t]] = r] ELSE answer

\* the callback of t is called with r
Answered(t, r) ==
  /\ published' = [published EXCEPT ![t] = IF @ = Unlisted THEN @ ELSE NoCall]
  /\ answer' = IF published[t] \in Call THEN [answer EXCEPT ![published[t]] = r] ELSE answer

\* mutant: looks at no other callback
AnswerTimed_Alone(p, t) == IF ~syncing \/ p # download THEN timed \ {p} ELSE timed

\* the publish timeout is cancelled once no other callback is pending
AnswerTimed(p, t) ==
  IF Pending \subseteq {t} /\ (~syncing \/ p # download) THEN timed \ {p} ELSE timed

\* _peerRequestedTx: p asks for what it was told of
RequestedTx(p, t, r) ==
  /\ stage[p] = "connected" /\ known[p][t] = "told" /\ r \in {"ok", "invalid"}
  /\ Answered(t, r)
  /\ timed' = AnswerTimed(p, t)
  /\ UNCHANGED <<stage, known, asked, syncVars, pc>>

\* what p's having t does to its timer; the wallet may refuse t
Seen(p, t) ==
  /\ stage[p] = "connected"
  /\ \E again \in {{}, {p}} :
       timed' = AnswerTimed(p, t) \cup (IF syncing /\ p = download THEN again ELSE {})
  /\ known' = [known EXCEPT ![p][t] = IF @ = "no" THEN "known" ELSE @]
  /\ UNCHANGED <<stage, asked, syncVars, pc>>

\* _peerHasTx, or _peerRelayedTx of a listed one
HasTx(p, t) == Seen(p, t) /\ Answered(t, "ok")

\* _peerRelayedTx, of a transaction that is not listed and that the wallet takes
RelayedTx(p, t) ==
  /\ published[t] = Unlisted
  /\ Seen(p, t)
  /\ published' = Listed(t, NoCall)
  /\ UNCHANGED answer

-----------------------------------------------------------------------------
(***************************************************************************)
(* BRPeerManagerPublishTx.                                                 *)
(***************************************************************************)

\* to all but the download peer, unless it is the only one
PublishTo == IF Cardinality(Up) = 1 THEN Up ELSE Up \ {download}

ListAndSend(c) ==
  /\ published' = Listed(TxOf[c], c)
  /\ answer' = [answer EXCEPT ![c] = IF published'[TxOf[c]] = c THEN "accepted" ELSE "lost"]
  /\ known' = Informed(PublishTo, published', "told")
  /\ timed' = timed \cup PublishTimed(PublishTo, published')
  /\ UNCHANGED <<stage, asked, syncVars, pc>>

\* connected: the transaction goes out at once.  Not connected: the lock is
\* released to ask for the network, unless there were too many failures.
Publish(c) ==
  /\ answer[c] = "none"
  /\ IF download # NoPeer THEN ListAndSend(c)
     ELSE /\ answer' = [answer EXCEPT ![c] = IF failures >= MaxFailures THEN "notconn" ELSE "checking"]
          /\ UNCHANGED <<peerVars, syncVars, published, pc>>

\* whatever has happened since, the transaction is listed if there is a network
NetworkChecked(c) ==
  /\ answer[c] = "checking"
  /\ \/ ListAndSend(c)
     \/ /\ answer' = [answer EXCEPT ![c] = "notconn"]
        /\ UNCHANGED <<peerVars, syncVars, published, pc>>

-----------------------------------------------------------------------------
ThreadStep(t) == ConnectBegin(t) \/ ConnectDial(t) \/ ConnectPick(t)

AppStep == AppConnect \/ AppDisconnect \/ \E h \in 0..height : AppRescan(h)

PeerStep(p) ==
  \/ Open(p) \/ (\E e \in Gone : Leave(p, e)) \/ Flush(p) \/ PeerDisconnected(p)
  \/ RejectPeer(p) \/ JoinPeer(p) \/ (\E q \in Peer : ChooseDownload(p, q))
  \/ (\E fpHigh \in BOOLEAN : RelayBlock(p, fpHigh)) \/ FilterLoaded(p) \/ MempoolDone(p)
  \/ \E t \in Tx : (\E r \in {"ok", "invalid"} : RequestedTx(p, t, r)) \/ HasTx(p, t) \/ RelayedTx(p, t)

Next ==
  \/ \E t \in Thread : ThreadStep(t)
  \/ AppStep \/ Disconnected
  \/ \E p \in Peer : PeerStep(p)
  \/ \E c \in Call : Publish(c) \/ NetworkChecked(c)

Spec == Init /\ [][Next]_vars

-----------------------------------------------------------------------------
Underway == {"connect", "dial", "pick"}          \* where a thread is in Connect
Results  == {"ok", "invalid", "timeout", "notconn"}

TypeOK ==
  /\ stage \in [Peer -> {"none", "waiting"} \cup Running \cup Gone]
  /\ timed \subseteq Peer
  /\ known \in [Peer -> [Tx -> {"no", "told", "known"}]]
  /\ asked \in [Peer -> SUBSET {"filter", "mempool"}]
  /\ download \in Peer \cup {NoPeer} /\ failures \in Nat /\ syncing \in BOOLEAN
  /\ height \in Nat /\ estimated \in Nat
  /\ published \in [Tx -> Call \cup {NoCall, Unlisted}]
  /\ pc \in [Thread -> {"idle", "wait"} \cup Underway]
  /\ answer \in [Call -> {"none", "checking", "accepted", "lost"} \cup Results]

\* The download peer, which every handler and PublishTx use, is one that has
\* not been freed: it is in connectedPeers, past its handshake.
DownloadPeerListed == download # NoPeer => stage[download] \in {"connected"} \cup Gone

\* However many threads connect at once, and whatever happened while each had
\* released the lock, there are never more peers than allowed.
ConnectionsBounded == Cardinality(InList) <= MaxConnectCount

\* A peer to which a transaction was announced has its timer set as long as
\* the callback of the transaction is pending: whatever else sets or cancels
\* the one timer of the peer, a publish does not wait for an answer for ever.
AnnouncedIsTimed == \A p \in Up, t \in Pending : known[p][t] = "told" => p \in timed

\* A sync that was reported as started has a peer or a Connect that works for
\* it, unless the failures went past MAX_CONNECT_FAILURES, which the test for
\* giving up (:847) misses and the one for another try (:856) too.
SyncHasWorker ==
  syncing => InList # {} \/ (\E t \in Thread : pc[t] \in Underway) \/ failures > MaxFailures

\* A call waits exactly when its transaction is listed with it.
CallsListed == \A c \in Call : answer[c] = "accepted" <=> published[TxOf[c]] = c

\* A listed call publishes the transaction that it is listed with.
ListedAsOwn == \A t \in Tx : published[t] \in Call => TxOf[published[t]] = t

\* A peer is told only of what is listed, and knows nothing before it is connected.
ToldListed ==
  /\ \A p \in Peer, t \in Tx : known[p][t] = "told" => published[t] # Unlisted
  /\ \A p \in Peer : stage[p] \notin {"connected"} \cup Gone => \A t \in Tx : known[p][t] = "no"

\* The inductive invariant.
IInv ==
  /\ TypeOK
  /\ DownloadPeerListed /\ ConnectionsBounded /\ SyncHasWorker
  /\ ListedAsOwn /\ CallsListed
  /\ ToldListed /\ AnnouncedIsTimed

\* The publish list keeps the promise of PublishPromise: one answer for every
\* call, and none lost but for a transaction that is listed already.
Promise == INSTANCE PublishPromise WITH
  answer <- [c \in Call |-> IF answer[c] = "checking" THEN "none" ELSE answer[c]],
  listed <- {t \in Tx : published[t] # Unlisted}
PromiseSpec == Promise!Spec
=============================================================================
