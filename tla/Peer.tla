-------------------------------- MODULE Peer --------------------------------
(***************************************************************************)
(* One connection of BRPeer.c to a node that keeps to the protocol, or     *)
(* once does not: the handshake, transactions and merkle blocks asked for  *)
(* and received, and the callbacks that wait for a pong or for the         *)
(* mempool.                                                                *)
(*                                                                         *)
(* The peer's thread reads one message after the other; the manager sends  *)
(* from other threads too.  It looks at the status of the peer before it   *)
(* sends, so it may still send while the thread is ending.  Both           *)
(* directions of the connection are first in, first out.  Adding to the    *)
(* array of pong callbacks and taking from it are taken to be atomic.      *)
(***************************************************************************)
EXTENDS Naturals, Sequences, FiniteSets, SequencesExt

CONSTANTS
  Tx,              \* transactions that match the filter
  Own,             \* those of them that the manager publishes
  Block, NoBlock,
  TxsOf,           \* TxsOf[b]: the transactions of b that match
  PingCall,        \* calls of BRPeerSendPing
  MempoolCall,     \* calls of BRPeerSendMempool
  NoCall,
  MaxFilters       \* how often the manager loads a filter

ASSUME PeerAssumption ==
  /\ IsFiniteSet(Tx) /\ Own \subseteq Tx
  /\ NoBlock \notin Block /\ Tx \cap Block = {}
  /\ TxsOf \in [Block -> SUBSET Tx]
  /\ PingCall \cap MempoolCall = {} /\ NoCall \notin PingCall \cup MempoolCall
  /\ MaxFilters \in Nat

Call == PingCall \cup MempoolCall

\* the peer
VARIABLES
  stage,           \* of its thread: "running", "closed", "flushed", "done"
  status,          \* "connecting" or "connected", as long as it runs
  error,           \* "none", "protocol" or "other": why the loop ended
  sentVerack,
  filters,         \* filters sent (sentFilter is filters > 0)
  sentMempool,
  known,           \* knownTxHashSet
  current,         \* currentBlock
  missing,         \* currentBlockTxHashes
  pongs,           \* pongCallback
  mempool          \* mempoolCallback

\* the connection and the node at its other end
VARIABLES
  toNode, toPeer,
  pool,            \* the transactions in the node's memory pool
  mined,           \* the blocks it has
  told,            \* what it knows that the peer was told of
  loaded,          \* the filter that it has loaded, 0 before the first
  strayed          \* it has sent what it was not asked for

\* what was given to the manager
VARIABLES
  result,          \* result[c]: "none", "waiting", "ok", "failed" or "stranded"
  got,             \* transactions relayed
  relayed,         \* blocks relayed
  after,           \* after[c]: filters sent before c's ping
  listed           \* listed[c]: what the node had when it served c's mempool request

peerVars == <<stage, status, error, sentVerack, filters, sentMempool, known, current, missing, pongs, mempool>>
nodeVars == <<pool, mined, told, loaded, strayed>>
outVars  == <<result, got, relayed, after>>
vars == <<peerVars, toNode, toPeer, nodeVars, outVars, listed>>

\* Messages.  The call of a ping, a pong or a mempool and the number of a filter
\* are not sent: every ping has the same nonce.  Only properties look at them.
Inv(txs, b)     == [type |-> "inv", txs |-> txs, block |-> b]
Getdata(txs, b) == [type |-> "getdata", txs |-> txs, block |-> b]
TxMsg(t)        == [type |-> "tx", tx |-> t]
TxMsgs(txs)     == [i \in 1..Cardinality(txs) |-> TxMsg(SetToSeq(txs)[i])]
Merkleblock(b)  == [type |-> "merkleblock", block |-> b]
Mempool(c)      == [type |-> "mempool", call |-> c]
Ping(c)         == [type |-> "ping", call |-> c]
Pong(c)         == [type |-> "pong", call |-> c]
Filterload(n)   == [type |-> "filterload", number |-> n]
Bare(type)      == [type |-> type]

Init ==
  /\ stage = "running" /\ status = "connecting" /\ error = "none" /\ sentVerack = FALSE
  /\ filters = 0 /\ sentMempool = FALSE
  /\ known = {} /\ current = NoBlock /\ missing = {} /\ pongs = <<>> /\ mempool = NoCall
  /\ toNode = <<Bare("version")>> /\ toPeer = <<>>
  /\ pool \in SUBSET (Tx \ Own) /\ mined = {} /\ told = {} /\ loaded = 0 /\ strayed = FALSE
  /\ result = [c \in Call |-> "none"] /\ got = {} /\ relayed = {}
  /\ after = [c \in PingCall |-> 0] /\ listed = [c \in MempoolCall |-> {}]

-----------------------------------------------------------------------------
(***************************************************************************)
(* The manager's calls.                                                    *)
(***************************************************************************)

\* the manager has seen the status connected; disconnected() waits for its lock
MaySend == status = "connected" /\ stage # "done"

\* BRPeerSendMessage: nothing goes out once the socket is closed
Sent(ms) == IF stage = "running" THEN toNode \o ms ELSE toNode

\* a callback added after the thread has called those there were is not called
Registered == IF stage = "flushed" THEN "stranded" ELSE "waiting"

\* BRPeerSendFilterload
SendFilterload ==
  /\ MaySend /\ filters < MaxFilters
  /\ filters' = filters + 1 /\ sentMempool' = FALSE
  /\ toNode' = Sent(<<Filterload(filters')>>)
  /\ UNCHANGED <<stage, status, error, sentVerack, known, current, missing, pongs, mempool,
                 toPeer, nodeVars, outVars, listed>>

\* BRPeerSendPing
SendPing(c) ==
  /\ MaySend /\ result[c] = "none"
  /\ pongs' = Append(pongs, c)
  /\ result' = [result EXCEPT ![c] = Registered]
  /\ toNode' = Sent(<<Ping(c)>>)
  /\ after' = [after EXCEPT ![c] = filters]
  /\ UNCHANGED <<stage, status, error, sentVerack, filters, sentMempool, known, current, missing,
                 mempool, toPeer, nodeVars, got, relayed, listed>>

\* BRPeerSendMempool, with what the manager has published; a request that was
\* made already fails at once
SendMempool(c, published) ==
  /\ MaySend /\ filters > 0 /\ result[c] = "none" /\ published \subseteq Own
  /\ sentMempool' = TRUE
  /\ IF sentMempool \/ mempool # NoCall
     THEN /\ result' = [result EXCEPT ![c] = "failed"]
          /\ UNCHANGED <<known, mempool, toNode>>
     ELSE /\ known' = known \cup published
          /\ mempool' = c
          /\ result' = [result EXCEPT ![c] = Registered]
          /\ toNode' = Sent(<<Mempool(c)>>)
  /\ UNCHANGED <<stage, status, error, sentVerack, filters, current, missing, pongs, toPeer, nodeVars,
                 got, relayed, after, listed>>

\* BRPeerSendInv, of a transaction published
SendInv(t) ==
  /\ MaySend /\ t \in Own \ known
  /\ known' = known \cup {t}
  /\ toNode' = Sent(<<Inv({t}, NoBlock)>>)
  /\ UNCHANGED <<stage, status, error, sentVerack, filters, sentMempool, current, missing, pongs,
                 mempool, toPeer, nodeVars, outVars, listed>>

-----------------------------------------------------------------------------
(***************************************************************************)
(* The messages received.                                                  *)
(***************************************************************************)

Msg == Head(toPeer)

\* the thread reads a message of the type; while a block waits for its
\* transactions, any other message ends the connection (IncompleteBlock)
Receive(type) ==
  /\ stage = "running" /\ toPeer # <<>> /\ Msg.type = type
  /\ current # NoBlock => type = "tx"
  /\ toPeer' = Tail(toPeer)
  /\ UNCHANGED <<stage, error, filters, nodeVars, after, listed>>

\* the loop ends with an error, after a message or at any time, and the socket
\* is closed: what is under way no longer matters
Fail(e) ==
  /\ stage = "running"
  /\ stage' = "closed" /\ error' = e
  /\ toNode' = <<>> /\ toPeer' = <<>>
  /\ UNCHANGED <<status, sentVerack, filters, sentMempool, known, current, missing, pongs, mempool,
                 nodeVars, outVars, listed>>

\* _BRPeerAcceptMessage while a block is incomplete
IncompleteBlock ==
  toPeer # <<>> /\ current # NoBlock /\ Msg.type # "tx" /\ Fail("protocol")

\* messages that the peer has not asked for
Unexpected ==
  /\ toPeer # <<>> /\ current = NoBlock
  /\ \/ Msg.type = "inv" /\ Msg.txs # {} /\ filters = 0 /\ ~sentMempool
     \/ Msg.type \in {"tx", "merkleblock"} /\ filters = 0
     \/ Msg.type = "pong" /\ pongs = <<>>
  /\ Fail("protocol")

AcceptVersion ==
  /\ Receive("version")
  /\ sentVerack' = TRUE /\ toNode' = Append(toNode, Bare("verack"))
  /\ UNCHANGED <<status, sentMempool, known, current, missing, pongs, mempool, result, got, relayed>>

\* _BRPeerDidConnect if both are through
AcceptVerack ==
  /\ Receive("verack")
  /\ status' = IF sentVerack THEN "connected" ELSE status
  /\ UNCHANGED <<sentVerack, sentMempool, known, current, missing, pongs, mempool, toNode, result, got, relayed>>

\* mutant: does not remember what it asks for
Asked_Forgotten(txs) == known

\* _BRPeerAddKnownTxHashes for what is asked for
Asked(txs) == known \cup txs

\* what is not known is asked for, and then a callback that waits for the
\* mempool goes to the end of those that wait for a pong
AcceptInv ==
  LET new   == Msg.txs \ known
      block == IF filters > 0 THEN Msg.block ELSE NoBlock
      first == Msg.txs # {} /\ mempool # NoCall
  IN /\ Receive("inv")
     /\ Msg.txs # {} => filters > 0 \/ sentMempool
     /\ known' = Asked(new)
     /\ toNode' = toNode \o (IF new # {} \/ block # NoBlock THEN <<Getdata(new, block)>> ELSE <<>>)
                         \o (IF first THEN <<Ping(mempool)>> ELSE <<>>)
     /\ pongs' = IF first THEN Append(pongs, mempool) ELSE pongs
     /\ mempool' = IF first THEN NoCall ELSE mempool
     /\ UNCHANGED <<status, sentVerack, sentMempool, current, missing, result, got, relayed>>

MempoolDue == mempool # NoCall

\* the ten seconds for an answer to the mempool request are over
MempoolTimeout ==
  /\ stage = "running" /\ MempoolDue
  /\ pongs' = Append(pongs, mempool) /\ mempool' = NoCall
  /\ toNode' = Append(toNode, Ping(mempool))
  /\ UNCHANGED <<stage, status, error, sentVerack, filters, sentMempool, known, current, missing,
                 toPeer, nodeVars, outVars, listed>>

AcceptTx ==
  /\ Receive("tx") /\ filters > 0
  /\ got' = got \cup {Msg.tx}
  /\ missing' = missing \ {Msg.tx}
  /\ IF current # NoBlock /\ missing' = {}
     THEN current' = NoBlock /\ relayed' = relayed \cup {current}
     ELSE UNCHANGED <<current, relayed>>
  /\ UNCHANGED <<status, sentVerack, sentMempool, known, pongs, mempool, toNode, result>>

\* the transactions of b that it waits for
MissingOf(b) == TxsOf[b] \ known

\* mutant: does not wait for any
HandsOver_AtOnce(txs) == TRUE

\* whether the block is relayed at once
HandsOver(txs) == txs = {}

AcceptMerkleblock ==
  /\ Receive("merkleblock") /\ filters > 0
  /\ missing' = MissingOf(Msg.block)
  /\ IF HandsOver(missing') THEN relayed' = relayed \cup {Msg.block} /\ UNCHANGED current
     ELSE current' = Msg.block /\ UNCHANGED relayed
  /\ UNCHANGED <<status, sentVerack, sentMempool, known, pongs, mempool, toNode, result, got>>

\* the transactions that the node asks for
AcceptGetdata ==
  /\ Receive("getdata")
  /\ toNode' = toNode \o TxMsgs(Msg.txs)
  /\ UNCHANGED <<status, sentVerack, sentMempool, known, current, missing, pongs, mempool, result, got, relayed>>

\* mutant: the latest
Answers_Last == Len(pongs)

\* the place of the callback that a pong is for
Answers == 1

AcceptPong ==
  /\ Receive("pong") /\ pongs # <<>>
  /\ result' = [result EXCEPT ![pongs[Answers]] = "ok"]
  /\ pongs' = RemoveAt(pongs, Answers)
  /\ UNCHANGED <<status, sentVerack, sentMempool, known, current, missing, mempool, toNode, got, relayed>>

\* _peerDataNotfound only notes it
AcceptNotfound ==
  /\ Receive("notfound")
  /\ UNCHANGED <<status, sentVerack, sentMempool, known, current, missing, pongs, mempool, toNode, result, got, relayed>>

-----------------------------------------------------------------------------
(***************************************************************************)
(* The end of _peerThreadRoutine.                                          *)
(***************************************************************************)

\* mutant: only those that wait for a pong are called
LastCalled_None == NoCall

\* the callback called last
LastCalled == mempool

\* a callback that waits for a pong, and at last the one for the mempool
Flush ==
  /\ stage = "closed"
  /\ IF pongs # <<>>
     THEN /\ result' = [result EXCEPT ![Head(pongs)] = "failed"]
          /\ pongs' = Tail(pongs)
          /\ UNCHANGED <<stage, mempool>>
     ELSE /\ result' = [c \in Call |-> IF c = LastCalled THEN "failed" ELSE result[c]]
          /\ mempool' = NoCall
          /\ stage' = "flushed"
          /\ UNCHANGED pongs
  /\ UNCHANGED <<status, error, sentVerack, filters, sentMempool, known, current, missing,
                 toNode, toPeer, nodeVars, got, relayed, after, listed>>

\* disconnected(), which takes the manager's lock and frees the peer
Disconnected ==
  /\ stage = "flushed"
  /\ stage' = "done"
  /\ UNCHANGED <<status, error, sentVerack, filters, sentMempool, known, current, missing, pongs, mempool,
                 toNode, toPeer, nodeVars, outVars, listed>>

-----------------------------------------------------------------------------
(***************************************************************************)
(* The node: it answers in order, announces what matches the filter, one   *)
(* block or transaction at a time, and sends a block with the transactions *)
(* that the peer may not have.                                             *)
(***************************************************************************)

NodeSends(ms) == stage = "running" /\ toPeer' = toPeer \o ms /\ UNCHANGED <<peerVars, outVars>>

Mine(b) ==
  /\ b \notin mined /\ TxsOf[b] \subseteq pool
  /\ mined' = mined \cup {b} /\ pool' = pool \ TxsOf[b]
  /\ NodeSends(<<>>)
  /\ UNCHANGED <<toNode, told, loaded, strayed, listed>>

Announce(t) ==
  /\ loaded > 0 /\ t \in pool \ told
  /\ told' = told \cup {t}
  /\ NodeSends(<<Inv({t}, NoBlock)>>)
  /\ UNCHANGED <<toNode, pool, mined, loaded, strayed, listed>>

AnnounceBlock(b) ==
  /\ loaded > 0 /\ b \in mined \ told
  /\ told' = told \cup {b}
  /\ NodeSends(<<Inv({}, b)>>)
  /\ UNCHANGED <<toNode, pool, mined, loaded, strayed, listed>>

ServeVersion == NodeSends(<<Bare("version"), Bare("verack")>>) /\ UNCHANGED <<nodeVars, listed>>

ServeVerack == NodeSends(<<>>) /\ UNCHANGED <<nodeVars, listed>>

ServePing(c) == NodeSends(<<Pong(c)>>) /\ UNCHANGED <<nodeVars, listed>>

ServeFilterload(n) ==
  /\ NodeSends(<<>>)
  /\ loaded' = n
  /\ UNCHANGED <<pool, mined, told, strayed, listed>>

ServeMempool(c) ==
  /\ NodeSends(IF pool = {} THEN <<>> ELSE <<Inv(pool, NoBlock)>>)
  /\ told' = told \cup pool
  /\ listed' = [listed EXCEPT ![c] = pool]
  /\ UNCHANGED <<pool, mined, loaded, strayed>>

\* the node asks for what is new to it
ServeInv(txs) ==
  /\ NodeSends(<<Getdata(txs, NoBlock)>>)
  /\ told' = told \cup txs
  /\ UNCHANGED <<pool, mined, loaded, strayed, listed>>

ServeTx(t) ==
  /\ NodeSends(<<>>)
  /\ pool' = IF \E b \in mined : t \in TxsOf[b] THEN pool ELSE pool \cup {t}
  /\ UNCHANGED <<mined, told, loaded, strayed, listed>>

\* the transactions that it still has, and a block with all of its transactions
\* or those it has not told the peer of
ServeGetdata(txs, b, all) ==
  /\ NodeSends(TxMsgs(txs \cap pool)
               \o (IF txs \subseteq pool THEN <<>> ELSE <<Bare("notfound")>>)
               \o (IF b = NoBlock THEN <<>>
                   ELSE <<Merkleblock(b)>> \o TxMsgs(IF all THEN TxsOf[b] ELSE TxsOf[b] \ told)))
  /\ UNCHANGED <<nodeVars, listed>>

\* a node that does not keep to the protocol: a pong, or a block without its
\* transactions, that it was not asked for
Stray ==
  /\ ~strayed /\ strayed' = TRUE
  /\ \E m \in {Pong(NoCall)} \cup {Merkleblock(b) : b \in IF loaded > 0 THEN mined \ told ELSE {}} :
       NodeSends(<<m>>)
  /\ UNCHANGED <<toNode, pool, mined, told, loaded, listed>>

\* m is the next message the node reads
Serve(m) ==
  \/ m.type = "version" /\ ServeVersion
  \/ m.type = "verack" /\ ServeVerack
  \/ m.type = "ping" /\ ServePing(m.call)
  \/ m.type = "filterload" /\ ServeFilterload(m.number)
  \/ m.type = "mempool" /\ ServeMempool(m.call)
  \/ m.type = "inv" /\ ServeInv(m.txs)
  \/ m.type = "tx" /\ ServeTx(m.tx)
  \/ m.type = "getdata" /\ \E all \in BOOLEAN : ServeGetdata(m.txs, m.block, all)

ServeNext ==
  /\ toNode # <<>> /\ toNode' = Tail(toNode)
  /\ Serve(Head(toNode))

-----------------------------------------------------------------------------
Manager ==
  \/ SendFilterload
  \/ \E c \in PingCall : SendPing(c)
  \/ \E c \in MempoolCall, published \in SUBSET Own : SendMempool(c, published)
  \/ \E t \in Own : SendInv(t)

Accept ==
  \/ AcceptVersion \/ AcceptVerack \/ AcceptInv \/ AcceptTx \/ AcceptMerkleblock
  \/ AcceptGetdata \/ AcceptPong \/ AcceptNotfound \/ IncompleteBlock \/ Unexpected

Close == Fail("other")

Node == ServeNext \/ Stray \/ (\E b \in Block : Mine(b) \/ AnnounceBlock(b)) \/ \E t \in Tx : Announce(t)

Next == Manager \/ Accept \/ MempoolTimeout \/ Close \/ Flush \/ Disconnected \/ Node

\* the thread reads what there is, looks at the clock and ends; the node answers
Fairness == WF_vars(Accept) /\ WF_vars(MempoolTimeout) /\ WF_vars(Flush) /\ WF_vars(ServeNext)

Spec == Init /\ [][Next]_vars /\ Fairness

-----------------------------------------------------------------------------
Calls(type, C)    == [type : {type}, call : C]
Inventories(type) == [type : {type}, txs : SUBSET Tx, block : Block \cup {NoBlock}]
TxMessages        == [type : {"tx"}, tx : Tx]

MessageToNode ==
  [type : {"version", "verack"}] \cup [type : {"filterload"}, number : 1..MaxFilters]
    \cup Calls("ping", Call) \cup Calls("mempool", MempoolCall)
    \cup Inventories("inv") \cup Inventories("getdata") \cup TxMessages

MessageToPeer ==
  [type : {"version", "verack", "notfound"}] \cup [type : {"merkleblock"}, block : Block]
    \cup Calls("pong", Call \cup {NoCall})
    \cup Inventories("inv") \cup Inventories("getdata") \cup TxMessages

TypeOK ==
  /\ stage \in {"running", "closed", "flushed", "done"}
  /\ status \in {"connecting", "connected"} /\ error \in {"none", "protocol", "other"}
  /\ sentVerack \in BOOLEAN /\ sentMempool \in BOOLEAN /\ filters \in 0..MaxFilters
  /\ known \subseteq Tx /\ current \in Block \cup {NoBlock} /\ missing \subseteq Tx
  /\ pongs \in Seq(Call) /\ mempool \in MempoolCall \cup {NoCall}
  /\ toNode \in Seq(MessageToNode) /\ toPeer \in Seq(MessageToPeer)
  /\ pool \subseteq Tx /\ mined \subseteq Block /\ told \subseteq Tx \cup Block
  /\ loaded \in 0..MaxFilters /\ strayed \in BOOLEAN
  /\ result \in [Call -> {"none", "waiting", "ok", "failed", "stranded"}]
  /\ got \subseteq Tx /\ relayed \subseteq Block
  /\ after \in [PingCall -> 0..MaxFilters] /\ listed \in [MempoolCall -> SUBSET Tx]

\* A node that keeps to the protocol is never taken for one that does not
\* (BRPeerManager.c:817), though what it may leave out of a block is decided
\* by what it announced and what was announced to it.
HonestNodeKept == ~strayed => error # "protocol"

\* A pong tells that the node has loaded the filters sent before the ping:
\* "load mempool after updating bloomfilter" (BRPeerManager.c:611).
PongAfterFilter == ~strayed => \A c \in PingCall : result[c] = "ok" => loaded >= after[c]

\* When a mempool request is reported as finished the node has served it, and
\* all that it had then has been asked for or was known.
MempoolAnnounced ==
  ~strayed => \A c \in MempoolCall : result[c] = "ok" =>
    /\ \A i \in DOMAIN toNode : toNode[i] # Mempool(c)
    /\ listed[c] \subseteq known

\* A block is handed over once each of its transactions was received, or at
\* least announced by one of the two sides.
BlockAskedFor == \A b \in relayed : TxsOf[b] \subseteq got \cup known

\* "wait til we get all tx messages before processing the block" (BRPeer.c:731):
\* each of its transactions was received or is one that the manager published.
BlockComplete == \A b \in relayed : TxsOf[b] \subseteq got \cup Own

\* Every callback that was added before the thread had called those there were
\* is called, whether the node answers, or the connection ends.
CallbackAnswered ==
  \A c \in Call : result[c] = "waiting" ~> result[c] \in {"ok", "failed"}

-----------------------------------------------------------------------------
(***************************************************************************)
(* The inductive invariant.  As long as the connection is open and the     *)
(* node keeps to the protocol, what is under way tells what will be known  *)
(* when it arrives.                                                        *)
(***************************************************************************)

Is(q, i, type) == i \in DOMAIN q /\ q[i].type = type

\* t is announced in the messages to the peer before position n
InvBefore(t, n) == \E j \in DOMAIN toPeer : j < n /\ toPeer[j].type = "inv" /\ t \in toPeer[j].txs

\* t is among the transactions that follow position i of the messages to the peer
Follows(t, i) ==
  \E j \in DOMAIN toPeer : j > i /\ toPeer[j] = TxMsg(t) /\ \A k \in (i + 1)..j : toPeer[k].type = "tx"

\* no message comes that needs a filter before there is one
NothingEarly ==
  filters = 0 =>
    /\ ~sentMempool /\ loaded = 0
    /\ \A i \in DOMAIN toPeer : toPeer[i].type \notin {"inv", "tx", "merkleblock"}
    /\ \A i \in DOMAIN toNode : toNode[i].type \notin {"mempool", "getdata", "filterload"}

\* the peer knows, or will before it reads on, what it and the node have announced
ToldIsKnown ==
  /\ \A t \in Tx : t \in told => t \in known \/ InvBefore(t, Len(toPeer) + 1)
  /\ \A i \in DOMAIN toNode : toNode[i].type = "inv" => toNode[i].txs \subseteq known
  /\ \A c \in MempoolCall : \A t \in listed[c] : t \in known \/ InvBefore(t, Len(toPeer) + 1)

\* what a block waits for comes right after it
BlocksCovered ==
  /\ current # NoBlock => missing # {} /\ \A t \in missing : Follows(t, 0)
  /\ \A i \in DOMAIN toPeer : toPeer[i].type = "merkleblock" =>
       \A t \in TxsOf[toPeer[i].block] : t \in known \/ InvBefore(t, i) \/ Follows(t, i)

\* of pings and pongs under way, p comes before q
Earlier(p, q) == \A i, j \in DOMAIN pongs : p.call = pongs[i] /\ q.call = pongs[j] => i < j

\* pings and pongs are under way for those callbacks that wait, and in their order
PongsInOrder ==
  /\ \A i, j \in DOMAIN pongs : i # j => pongs[i] # pongs[j]
  /\ \A i \in DOMAIN pongs :
       \/ \E j \in DOMAIN toPeer : toPeer[j] = Pong(pongs[i])
       \/ \E j \in DOMAIN toNode : toNode[j] = Ping(pongs[i])
  /\ \A i \in DOMAIN toPeer : toPeer[i].type = "pong" => \E k \in DOMAIN pongs : pongs[k] = toPeer[i].call
  /\ \A i \in DOMAIN toNode : toNode[i].type = "ping" => \E k \in DOMAIN pongs : pongs[k] = toNode[i].call
  /\ \A i, j \in DOMAIN toPeer : i < j /\ Is(toPeer, i, "pong") /\ Is(toPeer, j, "pong") => Earlier(toPeer[i], toPeer[j])
  /\ \A i, j \in DOMAIN toNode : i < j /\ Is(toNode, i, "ping") /\ Is(toNode, j, "ping") => Earlier(toNode[i], toNode[j])
  /\ \A i \in DOMAIN toPeer, j \in DOMAIN toNode : Is(toPeer, i, "pong") /\ Is(toNode, j, "ping") => Earlier(toPeer[i], toNode[j])

\* a ping is behind the filters that were sent before it
FiltersInOrder ==
  /\ loaded <= filters
  /\ loaded = filters \/ \E i \in DOMAIN toNode : toNode[i] = Filterload(filters)
  /\ \A i \in DOMAIN toNode : toNode[i].type = "filterload" => loaded < toNode[i].number /\ toNode[i].number <= filters
  /\ \A i, j \in DOMAIN toNode : i < j /\ Is(toNode, i, "filterload") /\ Is(toNode, j, "filterload") =>
       toNode[i].number < toNode[j].number
  /\ \A j \in DOMAIN toNode : Is(toNode, j, "ping") /\ toNode[j].call \in PingCall =>
       \/ after[toNode[j].call] <= loaded
       \/ \E i \in DOMAIN toNode : i < j /\ Is(toNode, i, "filterload") /\ after[toNode[j].call] <= toNode[i].number
  /\ \A i \in DOMAIN toPeer : Is(toPeer, i, "pong") /\ toPeer[i].call \in PingCall => after[toPeer[i].call] <= loaded

\* the ping of a mempool callback is behind its request
MempoolsInOrder ==
  /\ \A i, j \in DOMAIN toNode : Is(toNode, i, "mempool") /\ Is(toNode, j, "ping") /\ toNode[i].call = toNode[j].call => i < j
  /\ \A i \in DOMAIN toPeer : Is(toPeer, i, "pong") /\ toPeer[i].call \in MempoolCall =>
       /\ \A j \in DOMAIN toNode : toNode[j] # Mempool(toPeer[i].call)
       /\ \A t \in listed[toPeer[i].call] : t \in known \/ InvBefore(t, i)

\* what is registered was asked for, and only once
Registrations ==
  /\ \A i \in DOMAIN pongs : result[pongs[i]] = "waiting"
  /\ mempool # NoCall => result[mempool] = "waiting" /\ \A i \in DOMAIN pongs : pongs[i] # mempool
  /\ \A i \in DOMAIN toNode : toNode[i].type = "mempool" => result[toNode[i].call] # "none"

\* each transaction of the block that waits was received, is known or is waited for
CurrentAskedFor == current # NoBlock => TxsOf[current] \subseteq got \cup known \cup missing

UnderWay ==
  /\ NothingEarly /\ ToldIsKnown /\ BlocksCovered
  /\ PongsInOrder /\ FiltersInOrder /\ MempoolsInOrder /\ Registrations

IInv ==
  /\ TypeOK
  /\ CurrentAskedFor /\ BlockAskedFor
  /\ HonestNodeKept /\ PongAfterFilter /\ MempoolAnnounced
  /\ stage = "running" /\ ~strayed => UnderWay
=============================================================================
