----------------------------- MODULE PeerProofs -----------------------------
(***************************************************************************)
(* A node that keeps to the protocol is never taken for one that does not, *)
(* pongs and mempool callbacks mean what the manager takes them for, and   *)
(* no block is handed over with a transaction that nobody announced: for   *)
(* any transactions, blocks, calls and filters, and for queues of messages *)
(* of any length.                                                          *)
(***************************************************************************)
EXTENDS Peer, ListLemmas, FiniteSetTheorems

-----------------------------------------------------------------------------
(***************************************************************************)
(* Messages and queues.                                                    *)
(***************************************************************************)

\* What the messages of a type carry.
LEMMA MessagesToPeer ==
  ASSUME NEW m \in MessageToPeer
  PROVE  /\ m.type = "inv" => m.txs \subseteq Tx /\ m.block \in Block \cup {NoBlock}
         /\ m.type = "getdata" => m.txs \subseteq Tx
         /\ m.type = "tx" => m.tx \in Tx /\ m = TxMsg(m.tx)
         /\ m.type = "merkleblock" => m.block \in Block
         /\ m.type = "pong" => m.call \in Call \cup {NoCall} /\ m = Pong(m.call)
BY DEF MessageToPeer, Calls, Inventories, TxMessages, TxMsg, Pong

\* What the messages of a type to the node carry.
LEMMA MessagesToNode ==
  ASSUME NEW m \in MessageToNode
  PROVE  /\ m.type \in {"inv", "getdata"} => m.txs \subseteq Tx /\ m.block \in Block \cup {NoBlock}
         /\ m.type = "tx" => m.tx \in Tx
         /\ m.type = "filterload" => m.number \in 1..MaxFilters /\ m = Filterload(m.number)
         /\ m.type = "mempool" => m.call \in MempoolCall /\ m = Mempool(m.call)
         /\ m.type = "ping" => m.call \in Call /\ m = Ping(m.call)
         /\ m.type \in {"version", "verack", "ping", "filterload", "mempool", "inv", "getdata", "tx"}
BY DEF MessageToNode, Calls, Inventories, TxMessages, Filterload, Mempool, Ping

\* All transactions of a set are sent, and no others.
LEMMA TxMsgsSend ==
  ASSUME NEW S \in SUBSET Tx
  PROVE  /\ TxMsgs(S) \in Seq(MessageToNode) /\ TxMsgs(S) \in Seq(MessageToPeer)
         /\ \A i \in 1..Len(TxMsgs(S)) : TxMsgs(S)[i].type = "tx"
         /\ \A t \in S : \E i \in 1..Len(TxMsgs(S)) : TxMsgs(S)[i] = TxMsg(t)
<1> DEFINE n == Cardinality(S)
           s == SetToSeq(S)
<1>1. IsFiniteSet(S) /\ n \in Nat
  BY PeerAssumption, FS_Subset, FS_CardinalityType
<1>2. \E f \in [1..n -> S] : IsInjective(f)
  BY <1>1, FS_CardinalityType DEF ExistsBijection, Bijection, Injection
<1>3. s \in [1..n -> S] /\ IsInjective(s)
  BY <1>2 DEF SetToSeq
<1> HIDE DEF s
<1>4. s \in Surjection(1..n, S)
  <2>1. IsFiniteSet(1..n) /\ Cardinality(1..n) = n
    BY <1>1, FS_Interval
  <2>2. s \in Injection(1..n, S)
    BY <1>3 DEF Injection
  <2>3. QED
    BY <1>1, <2>1, <2>2, FS_Injection
<1>5. TxMsgs(S) = [i \in 1..n |-> TxMsg(s[i])]
  BY DEF TxMsgs, s
<1>6. \A t \in Tx : TxMsg(t) \in MessageToNode /\ TxMsg(t) \in MessageToPeer /\ TxMsg(t).type = "tx"
  BY DEF TxMsg, TxMessages, MessageToNode, MessageToPeer
<1>7. /\ TxMsgs(S) \in Seq(MessageToNode) /\ TxMsgs(S) \in Seq(MessageToPeer) /\ Len(TxMsgs(S)) = n
      /\ \A i \in 1..n : TxMsgs(S)[i].type = "tx"
  <2> HIDE DEF n
  <2>1. TxMsgs(S) \in [1..n -> MessageToNode] /\ TxMsgs(S) \in [1..n -> MessageToPeer]
    BY <1>3, <1>5, <1>6
  <2>2. TxMsgs(S) \in Seq(MessageToNode) /\ TxMsgs(S) \in Seq(MessageToPeer) /\ Len(TxMsgs(S)) = n
    BY <1>1, <2>1
  <2>3. \A i \in 1..n : TxMsgs(S)[i].type = "tx"
    BY <1>3, <1>5, <1>6
  <2>4. QED
    BY <2>2, <2>3
<1>8. ASSUME NEW t \in S PROVE \E i \in 1..n : s[i] = t
  BY <1>4 DEF Surjection
<1>9. ASSUME NEW t \in S PROVE \E i \in 1..Len(TxMsgs(S)) : TxMsgs(S)[i] = TxMsg(t)
  <2> HIDE DEF n
  <2>1. PICK i \in 1..n : s[i] = t
    BY <1>8
  <2>2. TxMsgs(S)[i] = TxMsg(t)
    BY <1>5, <2>1
  <2>3. QED
    BY <1>7, <2>2
<1>10. QED
  BY <1>7, <1>9

\* how many messages go when one of the type goes, "none" for none
Goes(type) == IF type = "none" THEN 0 ELSE 1

\* queue r is q after a message of type gone, if any, was taken from its head
\* and messages of the types in new were added at its end
Moves(q, r, gone, new) ==
  /\ gone # "none" => Len(q) > 0 /\ q[1].type = gone
  /\ \A i \in 1..Len(q) : i > Goes(gone) => i - Goes(gone) <= Len(r) /\ r[i - Goes(gone)] = q[i]
  /\ \A i \in 1..Len(r) : \/ i + Goes(gone) <= Len(q) /\ r[i] = q[i + Goes(gone)]
                          \/ i + Goes(gone) > Len(q) /\ r[i].type \in new

\* A queue that stays as it is.
LEMMA Kept ==
  ASSUME NEW S, NEW q \in Seq(S)
  PROVE  Moves(q, q, "none", {})
BY DEF Moves, Goes

\* A queue of which the head is read.
LEMMA Taken ==
  ASSUME NEW S, NEW q \in Seq(S), q # <<>>
  PROVE  /\ Moves(q, Tail(q), Head(q).type, {}) \/ Head(q).type = "none"
         /\ Tail(q) \in Seq(S) /\ Head(q) = q[1] /\ Len(q) > 0 /\ Len(Tail(q)) = Len(q) - 1
<1>1. Len(q) > 0 /\ Head(q) = q[1]
  OBVIOUS
<1>2. /\ Tail(q) \in Seq(S) /\ Len(Tail(q)) = Len(q) - 1
      /\ \A i \in 1 .. Len(Tail(q)) : Tail(q)[i] = q[i + 1]
  BY HeadTailProperties
<1>3. ASSUME NEW i \in 1..Len(q), i > 1
      PROVE  i - 1 <= Len(Tail(q)) /\ Tail(q)[i - 1] = q[i]
  <2>1. i - 1 \in 1..Len(Tail(q)) /\ (i - 1) + 1 = i
    BY <1>2, <1>3
  <2>2. QED
    BY <1>2, <2>1
<1>4. QED
  BY <1>1, <1>2, <1>3 DEF Moves, Goes

\* A queue to which messages are added.
LEMMA Added ==
  ASSUME NEW S, NEW q \in Seq(S), NEW s \in Seq(S), NEW new,
         \A i \in 1..Len(s) : s[i].type \in new
  PROVE  /\ Moves(q, q \o s, "none", new)
         /\ q \o s \in Seq(S) /\ Len(q \o s) = Len(q) + Len(s)
         /\ \A i \in 1..Len(s) : (q \o s)[Len(q) + i] = s[i]
<1>1. /\ q \o s \in Seq(S)
      /\ Len(q \o s) = Len(q) + Len(s)
      /\ \A i \in 1 .. Len(q) + Len(s) : (q \o s)[i] = IF i <= Len(q) THEN q[i] ELSE s[i - Len(q)]
  BY ConcatProperties
<1>2. Len(q) \in Nat /\ Len(s) \in Nat
  OBVIOUS
<1>3. ASSUME NEW i \in 1..Len(s) PROVE (q \o s)[Len(q) + i] = s[i]
  <2>1. Len(q) + i \in 1 .. Len(q) + Len(s) /\ ~(Len(q) + i <= Len(q)) /\ (Len(q) + i) - Len(q) = i
    BY <1>2
  <2>2. QED
    BY <1>1, <2>1
<1>4. ASSUME NEW i \in 1..Len(q \o s), i > Len(q) PROVE (q \o s)[i].type \in new
  <2>1. i - Len(q) \in 1..Len(s)
    BY <1>1, <1>2, <1>4
  <2>2. QED
    BY <1>1, <1>4, <2>1
<1>5. ASSUME NEW i \in 1..Len(q) PROVE i <= Len(q \o s) /\ (q \o s)[i] = q[i]
  BY <1>1, <1>2
<1>6. Moves(q, q \o s, "none", new)
  BY <1>1, <1>2, <1>4, <1>5 DEF Moves, Goes
<1>7. QED
  BY <1>1, <1>3, <1>6

\* One message added.
LEMMA AddedOne ==
  ASSUME NEW S, NEW q \in Seq(S), NEW m \in S
  PROVE  /\ Moves(q, Append(q, m), "none", {m.type})
         /\ Append(q, m) \in Seq(S) /\ Len(Append(q, m)) = Len(q) + 1
         /\ Append(q, m)[Len(q) + 1] = m
BY AppendProperties DEF Moves, Goes

-----------------------------------------------------------------------------
(***************************************************************************)
(* The steps of an open connection to a node that keeps to the protocol.   *)
(***************************************************************************)
\* the connection is open, and the node has kept to the protocol
Open == stage = "running" /\ ~strayed

\* the node reads a message of the type
Served(type) == toNode # <<>> /\ toNode' = Tail(toNode) /\ Head(toNode).type = type

\* messages of types taken from and added to either direction
Moving(received, toPeerNew, served, toNodeNew) ==
  /\ Moves(toPeer, toPeer', received, toPeerNew)
  /\ Moves(toNode, toNode', served, toNodeNew)

\* the steps, one by one, after which it is still open
OpenStep ==
  \/ SendFilterload
  \/ \E c \in PingCall : SendPing(c)
  \/ \E c \in MempoolCall, published \in SUBSET Own : SendMempool(c, published)
  \/ \E t \in Own : SendInv(t)
  \/ AcceptVersion \/ AcceptVerack \/ AcceptInv \/ AcceptTx \/ AcceptMerkleblock
  \/ AcceptGetdata \/ AcceptPong \/ AcceptNotfound
  \/ MempoolTimeout
  \/ Served("version") /\ ServeVersion
  \/ Served("verack") /\ ServeVerack
  \/ Served("ping") /\ ServePing(Head(toNode).call)
  \/ Served("filterload") /\ ServeFilterload(Head(toNode).number)
  \/ Served("mempool") /\ ServeMempool(Head(toNode).call)
  \/ Served("inv") /\ ServeInv(Head(toNode).txs)
  \/ Served("tx") /\ ServeTx(Head(toNode).tx)
  \/ Served("getdata") /\ \E all \in BOOLEAN : ServeGetdata(Head(toNode).txs, Head(toNode).block, all)
  \/ \E b \in Block : Mine(b) \/ AnnounceBlock(b)
  \/ \E t \in Tx : Announce(t)

\* Any step after which the connection is open is one of OpenStep.
LEMMA OpenSteps ==
  ASSUME Next, Open'
  PROVE  Open /\ OpenStep
<1>1. CASE Manager
  <2>1. OpenStep
    BY <1>1 DEF Manager, OpenStep
  <2>2. stage' = stage /\ strayed' = strayed
    BY <1>1 DEF Manager, SendFilterload, SendPing, SendMempool, SendInv, nodeVars
  <2>3. QED
    BY <2>1, <2>2 DEF Open
<1>2. CASE Accept
  <2>1. ASSUME NEW e, Fail(e) PROVE FALSE
    BY <2>1 DEF Fail, Open
  <2>2. ~IncompleteBlock /\ ~Unexpected
    BY <2>1 DEF IncompleteBlock, Unexpected
  <2>3. OpenStep
    BY <1>2, <2>2 DEF Accept, OpenStep
  <2>4. \E type : Receive(type)
    BY <1>2, <2>2 DEF Accept, AcceptVersion, AcceptVerack, AcceptInv, AcceptTx,
      AcceptMerkleblock, AcceptGetdata, AcceptPong, AcceptNotfound
  <2>5. stage' = stage /\ strayed' = strayed
    BY <2>4 DEF Receive, nodeVars
  <2>6. QED
    BY <2>3, <2>5 DEF Open
<1>3. CASE MempoolTimeout
  BY <1>3 DEF OpenStep, MempoolTimeout, Open, nodeVars
<1>4. CASE Close \/ Flush \/ Disconnected
  BY <1>4 DEF Close, Fail, Flush, Disconnected, Open
<1>5. CASE ServeNext
  <2>1. OpenStep
    BY <1>5 DEF ServeNext, Serve, OpenStep, Served
  <2>2. stage = "running"
    BY <1>5 DEF ServeNext, Serve, ServeVersion, ServeVerack, ServePing, ServeFilterload, ServeMempool,
      ServeInv, ServeTx, ServeGetdata, NodeSends
  <2>3. ~strayed
    BY <1>5 DEF Open, ServeNext, Serve, ServeVersion, ServeVerack, ServePing, ServeFilterload, ServeMempool,
      ServeInv, ServeTx, ServeGetdata, nodeVars
  <2>4. QED
    BY <2>1, <2>2, <2>3 DEF Open
<1>6. CASE Stray
  BY <1>6 DEF Stray, Open
<1>7. CASE (\E b \in Block : Mine(b) \/ AnnounceBlock(b)) \/ \E t \in Tx : Announce(t)
  <2>1. OpenStep
    BY <1>7 DEF OpenStep
  <2>2. stage = "running" /\ strayed' = strayed
    BY <1>7 DEF Mine, AnnounceBlock, Announce, NodeSends
  <2>3. QED
    BY <2>1, <2>2 DEF Open
<1>8. QED
  BY <1>1, <1>2, <1>3, <1>4, <1>5, <1>6, <1>7 DEF Next, Node

\* m is the last message of r and the only one of its type added to q
Gains(q, r, m) ==
  /\ Len(r) > Len(q) /\ r[Len(r)] = m
  /\ \A i \in 1..Len(r) : i > Len(q) /\ i < Len(r) => r[i].type # m.type

\* One message added is the last one.
LEMMA GainsOne ==
  ASSUME NEW S, NEW q \in Seq(S), NEW m \in S
  PROVE  /\ Moves(q, q \o <<m>>, "none", {m.type}) /\ Gains(q, q \o <<m>>, m)
         /\ Moves(q, Append(q, m), "none", {m.type}) /\ Gains(q, Append(q, m), m)
<1>1. q \o <<m>> = Append(q, m)
  BY AppendIsConcat
<1>2. Gains(q, Append(q, m), m)
  BY AppendProperties DEF Gains
<1>3. QED
  BY <1>1, <1>2, AddedOne

\* What the manager's calls add.
LEMMA ManagerMoves ==
  ASSUME TypeOK, Open
  PROVE  /\ SendFilterload => /\ Moving("none", {}, "none", {"filterload"})
                              /\ Gains(toNode, toNode', Filterload(filters'))
         /\ \A c \in PingCall : SendPing(c) =>
              Moving("none", {}, "none", {"ping"}) /\ Gains(toNode, toNode', Ping(c))
         /\ \A c \in MempoolCall, published \in SUBSET Own : SendMempool(c, published) =>
              \/ Moving("none", {}, "none", {}) /\ mempool' = mempool
              \/ /\ Moving("none", {}, "none", {"mempool"}) /\ Gains(toNode, toNode', Mempool(c))
                 /\ mempool = NoCall /\ mempool' = c
         /\ \A t \in Own : SendInv(t) =>
              Moving("none", {}, "none", {"inv"}) /\ Gains(toNode, toNode', Inv({t}, NoBlock))
<1>1. Moves(toPeer, toPeer, "none", {}) /\ Moves(toNode, toNode, "none", {})
  BY Kept DEF TypeOK
<1>2. toNode \in Seq(MessageToNode) /\ filters \in 0..MaxFilters /\ MaxFilters \in Nat
  BY PeerAssumption DEF TypeOK
<1>3. ASSUME SendFilterload
      PROVE  Moving("none", {}, "none", {"filterload"}) /\ Gains(toNode, toNode', Filterload(filters'))
  <2>1. Filterload(filters') \in MessageToNode /\ Filterload(filters').type = "filterload"
    BY <1>2, <1>3 DEF SendFilterload, Filterload, MessageToNode
  <2>2. toNode' = toNode \o <<Filterload(filters')>> /\ toPeer' = toPeer
    BY <1>3 DEF SendFilterload, Sent, Open
  <2>3. QED
    BY <1>1, <1>2, <2>1, <2>2, GainsOne DEF Moving
<1>4. ASSUME NEW c \in PingCall, SendPing(c)
      PROVE  Moving("none", {}, "none", {"ping"}) /\ Gains(toNode, toNode', Ping(c))
  <2>1. Ping(c) \in MessageToNode /\ Ping(c).type = "ping"
    BY DEF Ping, MessageToNode, Calls, Call
  <2>2. toNode' = toNode \o <<Ping(c)>> /\ toPeer' = toPeer
    BY <1>4 DEF SendPing, Sent, Open
  <2>3. QED
    BY <1>1, <1>2, <2>1, <2>2, GainsOne DEF Moving
<1>5. ASSUME NEW c \in MempoolCall, NEW published \in SUBSET Own, SendMempool(c, published)
      PROVE  \/ Moving("none", {}, "none", {}) /\ mempool' = mempool
             \/ /\ Moving("none", {}, "none", {"mempool"}) /\ Gains(toNode, toNode', Mempool(c))
                /\ mempool = NoCall /\ mempool' = c
  <2>1. Mempool(c) \in MessageToNode /\ Mempool(c).type = "mempool"
    BY DEF Mempool, MessageToNode, Calls
  <2>2. \/ toNode' = toNode /\ mempool' = mempool
        \/ toNode' = toNode \o <<Mempool(c)>> /\ mempool = NoCall /\ mempool' = c
    BY <1>5 DEF SendMempool, Sent, Open
  <2>3. toPeer' = toPeer
    BY <1>5 DEF SendMempool
  <2>4. QED
    BY <1>1, <1>2, <2>1, <2>2, <2>3, GainsOne DEF Moving
<1>6. ASSUME NEW t \in Own, SendInv(t)
      PROVE  Moving("none", {}, "none", {"inv"}) /\ Gains(toNode, toNode', Inv({t}, NoBlock))
  <2>1. Inv({t}, NoBlock) \in MessageToNode /\ Inv({t}, NoBlock).type = "inv"
    BY PeerAssumption DEF Inv, MessageToNode, Inventories
  <2>2. toNode' = toNode \o <<Inv({t}, NoBlock)>> /\ toPeer' = toPeer
    BY <1>6 DEF SendInv, Sent, Open
  <2>3. QED
    BY <1>1, <1>2, <2>1, <2>2, GainsOne DEF Moving
<1>7. QED
  BY <1>3, <1>4, <1>5, <1>6

\* Reading takes the message at the head.
LEMMA ReceiveMoves ==
  ASSUME TypeOK, NEW type, type # "none", Receive(type)
  PROVE  /\ Moves(toPeer, toPeer', type, {})
         /\ Msg = toPeer[1] /\ Msg \in MessageToPeer /\ Msg.type = type /\ Len(toPeer) > 0
BY Taken, HeadTailProperties DEF TypeOK, Receive, Msg

\* What the peer's thread takes and adds.
LEMMA PeerMoves ==
  ASSUME TypeOK, Open
  PROVE  /\ AcceptVersion => Moving("version", {}, "none", {"verack"})
         /\ AcceptVerack => Moving("verack", {}, "none", {})
         /\ AcceptInv => /\ Moving("inv", {}, "none", {"getdata", "ping"})
                         /\ IF Msg.txs # {} /\ mempool # NoCall THEN Gains(toNode, toNode', Ping(mempool))
                            ELSE Moves(toNode, toNode', "none", {"getdata"})
         /\ AcceptTx => Moving("tx", {}, "none", {})
         /\ AcceptMerkleblock => Moving("merkleblock", {}, "none", {})
         /\ AcceptGetdata => Moving("getdata", {}, "none", {"tx"})
         /\ AcceptPong => Moving("pong", {}, "none", {})
         /\ AcceptNotfound => Moving("notfound", {}, "none", {})
         /\ MempoolTimeout => /\ Moving("none", {}, "none", {"ping"})
                              /\ Gains(toNode, toNode', Ping(mempool))
<1>1. Moves(toPeer, toPeer, "none", {}) /\ Moves(toNode, toNode, "none", {})
  BY Kept DEF TypeOK
<1>2. toNode \in Seq(MessageToNode)
  BY DEF TypeOK
<1>3. ASSUME AcceptVersion PROVE Moving("version", {}, "none", {"verack"})
  <2>1. Bare("verack") \in MessageToNode /\ Bare("verack").type = "verack"
    BY DEF Bare, MessageToNode
  <2>2. Moves(toPeer, toPeer', "version", {}) /\ toNode' = Append(toNode, Bare("verack"))
    BY <1>3, ReceiveMoves DEF AcceptVersion
  <2>3. QED
    BY <1>2, <2>1, <2>2, AddedOne DEF Moving
<1>4. ASSUME AcceptVerack PROVE Moving("verack", {}, "none", {})
  BY <1>1, <1>4, ReceiveMoves DEF AcceptVerack, Moving
<1>5. ASSUME AcceptInv
      PROVE  /\ Moving("inv", {}, "none", {"getdata", "ping"})
             /\ IF Msg.txs # {} /\ mempool # NoCall THEN Gains(toNode, toNode', Ping(mempool))
                ELSE Moves(toNode, toNode', "none", {"getdata"})
  <2> DEFINE new   == Msg.txs \ known
             block == IF filters > 0 THEN Msg.block ELSE NoBlock
             first == Msg.txs # {} /\ mempool # NoCall
             asks  == IF new # {} \/ block # NoBlock THEN <<Getdata(new, block)>> ELSE <<>>
             pings == IF first THEN <<Ping(mempool)>> ELSE <<>>
  <2>1. Moves(toPeer, toPeer', "inv", {}) /\ Msg \in MessageToPeer /\ Msg.type = "inv"
    BY <1>5, ReceiveMoves DEF AcceptInv
  <2>2. toNode' = (toNode \o asks) \o pings
    BY <1>5 DEF AcceptInv
  <2>3. asks \in Seq(MessageToNode) /\ \A i \in 1..Len(asks) : asks[i].type \in {"getdata"}
    <3>1. Msg.txs \subseteq Tx /\ Msg.block \in Block \cup {NoBlock}
      BY <2>1, MessagesToPeer
    <3>2. Getdata(new, block) \in MessageToNode /\ Getdata(new, block).type = "getdata"
      BY <3>1 DEF Getdata, MessageToNode, Inventories
    <3>3. \A m \in MessageToNode : m.type = "getdata" =>
            <<m>> \in Seq(MessageToNode) /\ \A i \in 1..Len(<<m>>) : <<m>>[i].type \in {"getdata"}
      OBVIOUS
    <3>4. <<>> \in Seq(MessageToNode) /\ \A i \in 1..Len(<<>>) : <<>>[i].type \in {"getdata"}
      OBVIOUS
    <3>5. asks = <<>> \/ asks = <<Getdata(new, block)>>
      OBVIOUS
    <3> HIDE DEF asks
    <3>6. QED
      BY <3>2, <3>3, <3>4, <3>5, Zenon
  <2> DEFINE mid == toNode \o asks
  <2> HIDE DEF asks
  <2>4. mid \in Seq(MessageToNode) /\ Moves(toNode, mid, "none", {"getdata"}) /\ Len(mid) >= Len(toNode)
    BY <1>2, <2>3, Added
  <2> HIDE DEF mid, new, block
  <2>5. CASE first
    <3>1. Ping(mempool) \in MessageToNode /\ Ping(mempool).type = "ping"
      BY <2>5 DEF TypeOK, Ping, MessageToNode, Calls, Call
    <3>2. toNode' = mid \o <<Ping(mempool)>>
      BY <2>2, <2>5 DEF mid
    <3>3. Moves(mid, toNode', "none", {"ping"}) /\ Gains(mid, toNode', Ping(mempool)) /\ toNode' \in Seq(MessageToNode)
      BY <2>4, <3>1, <3>2, GainsOne, ConcatProperties
    <3>4. Moves(toNode, toNode', "none", {"getdata", "ping"})
      BY <1>2, <2>4, <3>3 DEF Moves, Goes
    <3>5. Gains(toNode, toNode', Ping(mempool))
      BY <1>2, <2>4, <3>1, <3>3 DEF Moves, Goes, Gains
    <3>6. QED
      BY <2>1, <2>5, <3>4, <3>5 DEF Moving
  <2>6. CASE ~first
    <3>1. toNode' = mid
      BY <2>2, <2>4, <2>6 DEF mid
    <3>2. Moves(toNode, toNode', "none", {"getdata", "ping"})
      BY <2>4, <3>1 DEF Moves
    <3>3. QED
      BY <2>1, <2>4, <2>6, <3>1, <3>2 DEF Moving
  <2>7. QED
    BY <2>5, <2>6
<1>6. ASSUME AcceptTx PROVE Moving("tx", {}, "none", {})
  BY <1>1, <1>6, ReceiveMoves DEF AcceptTx, Moving
<1>7. ASSUME AcceptMerkleblock PROVE Moving("merkleblock", {}, "none", {})
  BY <1>1, <1>7, ReceiveMoves DEF AcceptMerkleblock, Moving
<1>8. ASSUME AcceptGetdata PROVE Moving("getdata", {}, "none", {"tx"})
  <2>1. Moves(toPeer, toPeer', "getdata", {}) /\ Msg \in MessageToPeer /\ Msg.type = "getdata"
    BY <1>8, ReceiveMoves DEF AcceptGetdata
  <2>2. Msg.txs \in SUBSET Tx
    BY <2>1, MessagesToPeer
  <2>3. /\ TxMsgs(Msg.txs) \in Seq(MessageToNode)
        /\ \A i \in 1..Len(TxMsgs(Msg.txs)) : TxMsgs(Msg.txs)[i].type \in {"tx"}
    BY <2>2, TxMsgsSend
  <2>4. toNode' = toNode \o TxMsgs(Msg.txs)
    BY <1>8 DEF AcceptGetdata
  <2>5. QED
    BY <1>2, <2>1, <2>3, <2>4, Added DEF Moving
<1>9. ASSUME AcceptPong PROVE Moving("pong", {}, "none", {})
  BY <1>1, <1>9, ReceiveMoves DEF AcceptPong, Moving
<1>10. ASSUME AcceptNotfound PROVE Moving("notfound", {}, "none", {})
  BY <1>1, <1>10, ReceiveMoves DEF AcceptNotfound, Moving
<1>11. ASSUME MempoolTimeout
       PROVE  Moving("none", {}, "none", {"ping"}) /\ Gains(toNode, toNode', Ping(mempool))
  <2>1. Ping(mempool) \in MessageToNode /\ Ping(mempool).type = "ping"
    BY <1>11 DEF MempoolTimeout, MempoolDue, TypeOK, Ping, MessageToNode, Calls, Call
  <2>2. toNode' = Append(toNode, Ping(mempool)) /\ toPeer' = toPeer
    BY <1>11 DEF MempoolTimeout
  <2>3. QED
    BY <1>1, <1>2, <2>1, <2>2, GainsOne DEF Moving
<1>12. QED
  BY <1>3, <1>4, <1>5, <1>6, <1>7, <1>8, <1>9, <1>10, <1>11

\* Serving takes the message at the head.
LEMMA ServedMoves ==
  ASSUME TypeOK, NEW type, type # "none", Served(type)
  PROVE  /\ Moves(toNode, toNode', type, {})
         /\ Head(toNode) = toNode[1] /\ Head(toNode) \in MessageToNode /\ toNode[1].type = type /\ Len(toNode) > 0
BY Taken, HeadTailProperties DEF TypeOK, Served

\* the transactions of txs come after the messages there are, and after block b
BlockComes(b, txs) ==
  \A i \in DOMAIN toPeer' : i > Len(toPeer) /\ toPeer'[i].type = "merkleblock" =>
    toPeer'[i].block = b /\ \A t \in txs : Follows(t, i)'

\* A block, and after it its transactions.
BlockAt(all, p, b, S) ==
  /\ p \in 1..Len(all) /\ all[p].type = "merkleblock" /\ all[p].block = b
  /\ \A i \in 1..Len(all) : /\ i < p => all[i].type \in {"tx", "notfound"}
                            /\ i > p => all[i].type = "tx"
  /\ \A t \in S : \E i \in 1..Len(all) : i > p /\ all[i] = TxMsg(t)

\* The node's answer holds the block, and after it only its transactions.
LEMMA BlockAnswer ==
  ASSUME NEW txs \in Seq(MessageToPeer), NEW rest \in Seq(MessageToPeer), NEW b \in Block, NEW S \in SUBSET Tx,
         \A i \in 1..Len(txs) : txs[i].type = "tx", \A i \in 1..Len(rest) : rest[i].type = "notfound"
  PROVE  LET all == (txs \o rest) \o (<<Merkleblock(b)>> \o TxMsgs(S))
         IN  all \in Seq(MessageToPeer) /\ \E p \in 1..Len(all) : BlockAt(all, p, b, S)
<1> DEFINE front == txs \o rest
           tail == <<Merkleblock(b)>> \o TxMsgs(S)
           all == front \o tail
<1>1. /\ front \in Seq(MessageToPeer) /\ Len(front) \in Nat
      /\ \A i \in 1..Len(front) : front[i].type \in {"tx", "notfound"}
  <2>1. /\ front \in Seq(MessageToPeer) /\ Len(front) = Len(txs) + Len(rest)
        /\ \A i \in 1..(Len(txs) + Len(rest)) : front[i] = IF i <= Len(txs) THEN txs[i] ELSE rest[i - Len(txs)]
    BY ConcatProperties
  <2>2. ASSUME NEW i \in 1..Len(front) PROVE front[i].type \in {"tx", "notfound"}
    <3>1. CASE i <= Len(txs)
      BY <2>1, <3>1
    <3>2. CASE i > Len(txs)
      <4>1. i - Len(txs) \in 1..Len(rest)
        BY <2>1, <3>2
      <4>2. QED
        BY <2>1, <3>2, <4>1
    <3>3. QED
      BY <2>1, <3>1, <3>2
  <2>3. QED
    BY <2>1, <2>2
<1> DEFINE m == Merkleblock(b)
           ts == TxMsgs(S)
<1>2. m \in MessageToPeer /\ m.type = "merkleblock" /\ m.block = b /\ <<m>> \in Seq(MessageToPeer)
      /\ Len(<<m>>) = 1 /\ <<m>>[1] = m
  BY DEF Merkleblock, MessageToPeer
<1>3. /\ ts \in Seq(MessageToPeer) /\ Len(ts) \in Nat
      /\ \A i \in 1..Len(ts) : ts[i].type = "tx"
      /\ \A t \in S : \E i \in 1..Len(ts) : ts[i] = TxMsg(t)
  BY TxMsgsSend
<1> HIDE DEF front, m, ts
<1>4. /\ tail \in Seq(MessageToPeer) /\ Len(tail) = 1 + Len(ts)
      /\ tail[1] = m /\ \A i \in 1..Len(ts) : tail[i + 1] = ts[i]
  <2>1. tail = <<m>> \o ts
    BY DEF m, ts
  <2> HIDE DEF tail
  <2>2. /\ tail \in Seq(MessageToPeer) /\ Len(tail) = 1 + Len(ts)
        /\ \A i \in 1..(1 + Len(ts)) : tail[i] = IF i <= 1 THEN <<m>>[i] ELSE ts[i - 1]
    BY <1>2, <1>3, <2>1, ConcatProperties
  <2>3. tail[1] = m
    BY <1>2, <1>3, <2>2
  <2>4. ASSUME NEW i \in 1..Len(ts) PROVE tail[i + 1] = ts[i]
    <3>1. i + 1 \in 1..(1 + Len(ts)) /\ ~(i + 1 <= 1) /\ (i + 1) - 1 = i
      BY <1>3
    <3>2. QED
      BY <2>2, <3>1
  <2>5. QED
    BY <2>2, <2>3, <2>4
<1> HIDE DEF tail
<1>5. /\ all \in Seq(MessageToPeer) /\ Len(all) = Len(front) + Len(tail)
      /\ \A i \in 1..(Len(front) + Len(tail)) : all[i] = IF i <= Len(front) THEN front[i] ELSE tail[i - Len(front)]
  <2>1. front \in Seq(MessageToPeer) /\ tail \in Seq(MessageToPeer)
    BY <1>1, <1>4
  <2>2. QED
    BY ONLY <2>1, ConcatProperties
<1> DEFINE p == Len(front) + 1
<1>6. p \in 1..Len(all) /\ all[p] = m /\ Len(all) = p + Len(ts)
  <2>1. p \in 1..(Len(front) + Len(tail)) /\ ~(p <= Len(front)) /\ p - Len(front) = 1
    BY <1>1, <1>3, <1>4
  <2>2. QED
    BY <1>1, <1>3, <1>4, <1>5, <2>1
<1>7. ASSUME NEW i \in 1..Len(ts) PROVE all[p + i] = ts[i]
  <2>1. p + i \in 1..(Len(front) + Len(tail)) /\ ~(p + i <= Len(front)) /\ (p + i) - Len(front) = i + 1
    BY <1>1, <1>3, <1>4
  <2>2. QED
    BY <1>1, <1>4, <1>5, <2>1
<1>8. ASSUME NEW i \in 1..Len(all)
      PROVE  /\ i < p => all[i].type \in {"tx", "notfound"}
             /\ i > p => all[i].type = "tx"
  <2>1. CASE i < p
    BY <1>1, <1>3, <1>4, <1>5, <2>1
  <2>2. CASE i > p
    <3>1. i - p \in 1..Len(ts) /\ p + (i - p) = i
      BY <1>1, <1>3, <1>6, <2>2
    <3>2. QED
      BY <1>3, <1>7, <2>2, <3>1
  <2>3. QED
    BY <1>1, <2>1, <2>2
<1>9. ASSUME NEW t \in S PROVE \E i \in 1..Len(all) : i > p /\ all[i] = TxMsg(t)
  <2>1. PICK k \in 1..Len(ts) : ts[k] = TxMsg(t)
    BY <1>3
  <2>2. p \in Nat /\ p + k \in 1..Len(all) /\ p + k > p
    BY <1>1, <1>3, <1>6
  <2>3. all[p + k] = TxMsg(t)
    BY <1>7, <2>1
  <2>4. QED
    BY <2>2, <2>3
<1> HIDE DEF p
<1>10. all = (txs \o rest) \o (<<Merkleblock(b)>> \o TxMsgs(S))
  BY DEF front, tail
<1> HIDE DEF all
<1>11. BlockAt(all, p, b, S)
  BY <1>2, <1>6, <1>8, <1>9 DEF BlockAt
<1>12. QED
  BY <1>5, <1>6, <1>10, <1>11

\* What the node sends for a getdata comes in that order after what was there.
LEMMA BlockSent ==
  ASSUME TypeOK, NEW all \in Seq(MessageToPeer), NEW p \in 1..Len(all), NEW b, NEW S,
         BlockAt(all, p, b, S), toPeer' = toPeer \o all
  PROVE  /\ Moves(toPeer, toPeer', "none", {"tx", "notfound", "merkleblock"})
         /\ BlockComes(b, S)
<1> DEFINE n == Len(toPeer)
           r == toPeer \o all
<1>1. toPeer \in Seq(MessageToPeer) /\ n \in Nat /\ Len(all) \in Nat
  BY DEF TypeOK
<1>2. \A i \in 1..Len(all) : all[i].type \in {"tx", "notfound", "merkleblock"}
  BY DEF BlockAt
<1>3. /\ Moves(toPeer, r, "none", {"tx", "notfound", "merkleblock"})
      /\ r \in Seq(MessageToPeer) /\ Len(r) = n + Len(all)
      /\ \A i \in 1..Len(all) : r[n + i] = all[i]
  BY <1>1, <1>2, Added
<1>4. toPeer' = r
  OBVIOUS
<1> HIDE DEF n, r
<1>5. n + p \in 1..Len(r) /\ r[n + p] = all[p]
  BY <1>1, <1>3
<1>6. ASSUME NEW i \in 1..Len(r), i > n
      PROVE  /\ i - n \in 1..Len(all) /\ r[i] = all[i - n]
  <2>1. i - n \in 1..Len(all) /\ n + (i - n) = i
    BY <1>1, <1>3, <1>6
  <2>2. QED
    BY <1>3, <2>1
<1>7. ASSUME NEW i \in 1..Len(r), i > n, r[i].type = "merkleblock"
      PROVE  i = n + p
  <2>1. i - n \in 1..Len(all) /\ all[i - n].type = "merkleblock"
    BY <1>6, <1>7
  <2>2. ~(i - n < p) /\ ~(i - n > p)
    BY <2>1 DEF BlockAt
  <2>3. QED
    BY <1>1, <2>2
<1>8. ASSUME NEW t \in S
      PROVE  \E j \in 1..Len(r) : j > n + p /\ r[j] = TxMsg(t) /\ \A k \in (n + p + 1)..j : r[k].type = "tx"
  <2>1. PICK i \in 1..Len(all) : i > p /\ all[i] = TxMsg(t)
    BY DEF BlockAt
  <2>2. n + i \in 1..Len(r) /\ n + i > n + p /\ r[n + i] = TxMsg(t)
    BY <1>1, <1>3, <2>1
  <2>3. ASSUME NEW k \in (n + p + 1)..(n + i) PROVE r[k].type = "tx"
    <3>1. k \in 1..Len(r) /\ k > n /\ k - n > p
      BY <1>1, <2>2
    <3>2. QED
      BY <1>6, <3>1 DEF BlockAt
  <2>4. QED
    BY <2>2, <2>3
<1>9. ASSUME NEW i \in DOMAIN toPeer', i > Len(toPeer), toPeer'[i].type = "merkleblock", NEW t \in S
      PROVE  toPeer'[i].block = b /\ Follows(t, i)'
  <2>1. i = n + p
    BY <1>3, <1>4, <1>7, <1>9 DEF n
  <2>2. toPeer'[i].block = b
    BY <1>4, <1>5, <2>1 DEF BlockAt
  <2>3. Follows(t, i)'
    BY <1>3, <1>4, <1>8, <2>1 DEF Follows
  <2>4. QED
    BY <2>2, <2>3
<1>10. ASSUME NEW i \in DOMAIN toPeer', i > Len(toPeer), toPeer'[i].type = "merkleblock"
       PROVE  toPeer'[i].block = b
  BY <1>3, <1>4, <1>5, <1>7, <1>10 DEF BlockAt, n
<1>11. QED
  BY <1>3, <1>4, <1>9, <1>10 DEF BlockComes

\* What the node takes and adds.
LEMMA NodeMoves ==
  ASSUME TypeOK
  PROVE  /\ Served("version") /\ ServeVersion => Moving("none", {"version", "verack"}, "version", {})
         /\ Served("verack") /\ ServeVerack => Moving("none", {}, "verack", {})
         /\ Served("ping") /\ ServePing(Head(toNode).call) =>
              Moving("none", {"pong"}, "ping", {}) /\ Gains(toPeer, toPeer', Pong(toNode[1].call))
         /\ Served("filterload") /\ ServeFilterload(Head(toNode).number) => Moving("none", {}, "filterload", {})
         /\ Served("mempool") /\ ServeMempool(Head(toNode).call) =>
              /\ Moving("none", {"inv"}, "mempool", {})
              /\ pool # {} => Gains(toPeer, toPeer', Inv(pool, NoBlock))
         /\ Served("inv") /\ ServeInv(Head(toNode).txs) => Moving("none", {"getdata"}, "inv", {})
         /\ Served("tx") /\ ServeTx(Head(toNode).tx) => Moving("none", {}, "tx", {})
         /\ \A b \in Block : Mine(b) => Moving("none", {}, "none", {})
         /\ \A b \in Block : AnnounceBlock(b) => Moving("none", {"inv"}, "none", {})
         /\ \A t \in Tx : Announce(t) =>
              Moving("none", {"inv"}, "none", {}) /\ Gains(toPeer, toPeer', Inv({t}, NoBlock))
<1>1. Moves(toPeer, toPeer, "none", {}) /\ Moves(toNode, toNode, "none", {})
  BY Kept DEF TypeOK
<1>2. /\ toPeer \in Seq(MessageToPeer) /\ toPeer \o <<>> = toPeer
      /\ toNode \in Seq(MessageToNode) /\ pool \subseteq Tx
  BY ConcatEmptySeq DEF TypeOK
<1>3. ASSUME Served("version"), ServeVersion PROVE Moving("none", {"version", "verack"}, "version", {})
  <2> DEFINE s == <<Bare("version"), Bare("verack")>>
  <2>1. s \in Seq(MessageToPeer) /\ \A i \in 1..Len(s) : s[i].type \in {"version", "verack"}
    <3>1. Bare("version") \in MessageToPeer /\ Bare("verack") \in MessageToPeer
      BY DEF Bare, MessageToPeer
    <3>2. Bare("version").type = "version" /\ Bare("verack").type = "verack"
      BY DEF Bare
    <3>3. QED
      BY <3>1, <3>2
  <2>2. toPeer' = toPeer \o s
    BY <1>3 DEF ServeVersion, NodeSends
  <2> HIDE DEF s
  <2>3. QED
    BY <1>2, <1>3, <2>1, <2>2, Added, ServedMoves DEF Moving
<1>4. ASSUME Served("verack"), ServeVerack PROVE Moving("none", {}, "verack", {})
  <2>1. toPeer' = toPeer
    BY <1>2, <1>4 DEF ServeVerack, NodeSends
  <2>2. QED
    BY <1>1, <1>4, <2>1, ServedMoves DEF Moving
<1>5. ASSUME Served("ping"), ServePing(Head(toNode).call)
      PROVE  Moving("none", {"pong"}, "ping", {}) /\ Gains(toPeer, toPeer', Pong(toNode[1].call))
  <2>1. Moves(toNode, toNode', "ping", {}) /\ Head(toNode) = toNode[1] /\ Head(toNode) \in MessageToNode
        /\ Head(toNode).type = "ping"
    BY <1>5, ServedMoves
  <2> DEFINE m == Pong(toNode[1].call)
  <2>2. m \in MessageToPeer /\ m.type = "pong"
    BY <2>1, MessagesToNode DEF Pong, MessageToPeer, Calls
  <2>3. toPeer' = toPeer \o <<m>>
    BY <1>5, <2>1 DEF ServePing, NodeSends
  <2> HIDE DEF m
  <2>4. Moves(toPeer, toPeer', "none", {"pong"}) /\ Gains(toPeer, toPeer', m)
    BY <1>2, <2>2, <2>3, GainsOne
  <2>5. QED
    BY <2>1, <2>4 DEF Moving, m
<1>6. ASSUME Served("filterload"), ServeFilterload(Head(toNode).number)
      PROVE  Moving("none", {}, "filterload", {})
  <2>1. toPeer' = toPeer
    BY <1>2, <1>6 DEF ServeFilterload, NodeSends
  <2>2. QED
    BY <1>1, <1>6, <2>1, ServedMoves DEF Moving
<1>7. ASSUME Served("mempool"), ServeMempool(Head(toNode).call)
      PROVE  /\ Moving("none", {"inv"}, "mempool", {})
             /\ pool # {} => Gains(toPeer, toPeer', Inv(pool, NoBlock))
  <2> DEFINE m == Inv(pool, NoBlock)
  <2>1. Moves(toNode, toNode', "mempool", {})
    BY <1>7, ServedMoves
  <2>2. m \in MessageToPeer /\ m.type = "inv"
    BY <1>2 DEF Inv, MessageToPeer, Inventories
  <2>3. IF pool = {} THEN toPeer' = toPeer ELSE toPeer' = toPeer \o <<m>>
    BY <1>2, <1>7 DEF ServeMempool, NodeSends
  <2> HIDE DEF m
  <2>4. CASE pool = {}
    <3>1. Moves(toPeer, toPeer', "none", {"inv"})
      BY <1>1, <2>3, <2>4 DEF Moves
    <3>2. QED
      BY <2>1, <2>4, <3>1 DEF Moving
  <2>5. CASE pool # {}
    <3>1. Moves(toPeer, toPeer', "none", {"inv"}) /\ Gains(toPeer, toPeer', m)
      BY <1>2, <2>2, <2>3, <2>5, GainsOne
    <3>2. QED
      BY <2>1, <3>1 DEF Moving, m
  <2>6. QED
    BY <2>4, <2>5
<1>8. ASSUME Served("inv"), ServeInv(Head(toNode).txs) PROVE Moving("none", {"getdata"}, "inv", {})
  <2>1. Moves(toNode, toNode', "inv", {}) /\ Head(toNode) \in MessageToNode /\ Head(toNode).type = "inv"
    BY <1>8, ServedMoves
  <2> DEFINE m == Getdata(Head(toNode).txs, NoBlock)
  <2>2. m \in MessageToPeer /\ m.type = "getdata"
    BY <2>1, MessagesToNode DEF Getdata, MessageToPeer, Inventories
  <2>3. toPeer' = toPeer \o <<m>>
    BY <1>8 DEF ServeInv, NodeSends
  <2> HIDE DEF m
  <2>4. Moves(toPeer, toPeer', "none", {"getdata"})
    BY <1>2, <2>2, <2>3, GainsOne
  <2>5. QED
    BY <2>1, <2>4 DEF Moving
<1>9. ASSUME Served("tx"), ServeTx(Head(toNode).tx) PROVE Moving("none", {}, "tx", {})
  <2>1. toPeer' = toPeer
    BY <1>2, <1>9 DEF ServeTx, NodeSends
  <2>2. QED
    BY <1>1, <1>9, <2>1, ServedMoves DEF Moving
<1>10. ASSUME NEW b \in Block, Mine(b) PROVE Moving("none", {}, "none", {})
  <2>1. toPeer' = toPeer /\ toNode' = toNode
    BY <1>2, <1>10 DEF Mine, NodeSends
  <2>2. QED
    BY <1>1, <2>1 DEF Moving
<1>11. ASSUME NEW b \in Block, AnnounceBlock(b) PROVE Moving("none", {"inv"}, "none", {})
  <2> DEFINE m == Inv({}, b)
  <2>1. m \in MessageToPeer /\ m.type = "inv"
    BY DEF Inv, MessageToPeer, Inventories
  <2>2. toPeer' = toPeer \o <<m>> /\ toNode' = toNode
    BY <1>11 DEF AnnounceBlock, NodeSends
  <2> HIDE DEF m
  <2>3. QED
    BY <1>1, <1>2, <2>1, <2>2, GainsOne DEF Moving
<1>12. ASSUME NEW t \in Tx, Announce(t)
       PROVE  Moving("none", {"inv"}, "none", {}) /\ Gains(toPeer, toPeer', Inv({t}, NoBlock))
  <2> DEFINE m == Inv({t}, NoBlock)
  <2>1. m \in MessageToPeer /\ m.type = "inv"
    BY DEF Inv, MessageToPeer, Inventories
  <2>2. toPeer' = toPeer \o <<m>> /\ toNode' = toNode
    BY <1>12 DEF Announce, NodeSends
  <2> HIDE DEF m
  <2>3. Moving("none", {"inv"}, "none", {}) /\ Gains(toPeer, toPeer', m)
    BY <1>1, <1>2, <2>1, <2>2, GainsOne DEF Moving
  <2>4. QED
    BY <2>3 DEF m
<1>13. QED
  BY <1>3, <1>4, <1>5, <1>6, <1>7, <1>8, <1>9, <1>10, <1>11, <1>12

\* What it sends when it is asked for data.
LEMMA DataMoves ==
  ASSUME TypeOK, NEW all \in BOOLEAN, Served("getdata"),
         ServeGetdata(Head(toNode).txs, Head(toNode).block, all)
  PROVE  LET b == Head(toNode).block
         IN  /\ Moving("none", {"tx", "notfound", "merkleblock"}, "getdata", {})
             /\ IF b = NoBlock THEN Moves(toPeer, toPeer', "none", {"tx", "notfound"})
                ELSE b \in Block /\ BlockComes(b, IF all THEN TxsOf[b] ELSE TxsOf[b] \ told)
<1> DEFINE b == Head(toNode).block
           asked == Head(toNode).txs
           txs == TxMsgs(asked \cap pool)
           rest == IF asked \subseteq pool THEN <<>> ELSE <<Bare("notfound")>>
           S == IF all THEN TxsOf[b] ELSE TxsOf[b] \ told
<1>1. /\ Moves(toNode, toNode', "getdata", {})
      /\ asked \subseteq Tx /\ b \in Block \cup {NoBlock}
  BY ServedMoves, MessagesToNode
<1>2. txs \in Seq(MessageToPeer) /\ \A i \in 1..Len(txs) : txs[i].type = "tx"
  BY <1>1, TxMsgsSend
<1>3. rest \in Seq(MessageToPeer) /\ \A i \in 1..Len(rest) : rest[i].type = "notfound"
  <2>1. Bare("notfound") \in MessageToPeer /\ Bare("notfound").type = "notfound"
    BY DEF Bare, MessageToPeer
  <2>2. \A m \in MessageToPeer : m.type = "notfound" =>
          <<m>> \in Seq(MessageToPeer) /\ \A i \in 1..Len(<<m>>) : <<m>>[i].type = "notfound"
    OBVIOUS
  <2>3. <<>> \in Seq(MessageToPeer) /\ \A i \in 1..Len(<<>>) : <<>>[i].type = "notfound"
    OBVIOUS
  <2>4. rest = <<>> \/ rest = <<Bare("notfound")>>
    OBVIOUS
  <2> HIDE DEF rest
  <2>5. QED
    BY <2>1, <2>2, <2>3, <2>4, Zenon
<1>4. toPeer' = toPeer \o ((txs \o rest) \o (IF b = NoBlock THEN <<>> ELSE <<Merkleblock(b)>> \o TxMsgs(S)))
  BY DEF ServeGetdata, NodeSends
<1>5. toPeer \in Seq(MessageToPeer)
  BY DEF TypeOK
<1> HIDE DEF txs, rest, asked
<1>6. CASE b = NoBlock
  <2> DEFINE front == txs \o rest
  <2>1. /\ front \in Seq(MessageToPeer) /\ Len(front) = Len(txs) + Len(rest)
        /\ \A i \in 1..(Len(txs) + Len(rest)) : front[i] = IF i <= Len(txs) THEN txs[i] ELSE rest[i - Len(txs)]
    BY <1>2, <1>3, ConcatProperties
  <2>2. ASSUME NEW i \in 1..Len(front) PROVE front[i].type \in {"tx", "notfound"}
    <3>1. CASE i <= Len(txs)
      BY <1>2, <1>3, <2>1, <3>1
    <3>2. CASE i > Len(txs)
      <4>1. i - Len(txs) \in 1..Len(rest)
        BY <1>2, <1>3, <2>1, <3>2
      <4>2. QED
        BY <1>2, <1>3, <2>1, <3>2, <4>1
    <3>3. QED
      BY <1>2, <2>1, <3>1, <3>2
  <2> HIDE DEF front
  <2>3. toPeer' = toPeer \o front
    BY <1>4, <1>6, <2>1, ConcatEmptySeq DEF front
  <2>4. Moves(toPeer, toPeer', "none", {"tx", "notfound"})
    BY <1>5, <2>1, <2>2, <2>3, Added
  <2>5. Moves(toPeer, toPeer', "none", {"tx", "notfound", "merkleblock"})
    BY <2>4 DEF Moves
  <2>6. QED
    BY <1>1, <1>6, <2>4, <2>5 DEF Moving
<1>7. CASE b # NoBlock
  <2>1. b \in Block /\ S \in SUBSET Tx
    BY <1>1, <1>7, PeerAssumption
  <2> DEFINE full == (txs \o rest) \o (<<Merkleblock(b)>> \o TxMsgs(S))
  <2> HIDE DEF b, S
  <2>2. full \in Seq(MessageToPeer) /\ \E p \in 1..Len(full) : BlockAt(full, p, b, S)
    BY <1>2, <1>3, <2>1, BlockAnswer
  <2>3. toPeer' = toPeer \o full
    BY <1>4, <1>7
  <2> HIDE DEF full
  <2>4. Moves(toPeer, toPeer', "none", {"tx", "notfound", "merkleblock"}) /\ BlockComes(b, S)
    BY <2>2, <2>3, BlockSent
  <2>5. QED
    BY <1>1, <1>7, <2>1, <2>4 DEF Moving, b, S
<1>8. QED
  BY <1>6, <1>7

-----------------------------------------------------------------------------
(***************************************************************************)
(* Types.                                                                  *)
(***************************************************************************)
\* the types of the queues
ToNodeOK == toNode \in Seq(MessageToNode)
ToPeerOK == toPeer \in Seq(MessageToPeer)

\* The initial state has the types.
LEMMA InitType == Init => TypeOK
<1>1. ASSUME Init PROVE TypeOK
  <2>1. toNode \in Seq(MessageToNode) /\ toPeer \in Seq(MessageToPeer)
    BY <1>1 DEF Init, Bare, MessageToNode
  <2>2. pongs \in Seq(Call) /\ MaxFilters \in Nat /\ NoBlock \in Block \cup {NoBlock}
    BY <1>1, PeerAssumption DEF Init
  <2>3. /\ result \in [Call -> {"none", "waiting", "ok", "failed", "stranded"}]
        /\ listed \in [MempoolCall -> SUBSET Tx]
    BY <1>1 DEF Init
  <2>4. after \in [PingCall -> 0..MaxFilters] /\ filters \in 0..MaxFilters /\ loaded \in 0..MaxFilters
    BY <1>1, <2>2 DEF Init
  <2>5. pool \subseteq Tx /\ mined \subseteq Block /\ told \subseteq Tx \cup Block
        /\ got \subseteq Tx /\ relayed \subseteq Block /\ known \subseteq Tx /\ missing \subseteq Tx
    BY <1>1 DEF Init
  <2>6. /\ stage = "running" /\ status = "connecting" /\ error = "none" /\ sentVerack = FALSE
        /\ sentMempool = FALSE /\ strayed = FALSE /\ current = NoBlock /\ mempool = NoCall
    BY <1>1 DEF Init
  <2>7. QED
    BY <2>1, <2>2, <2>3, <2>4, <2>5, <2>6 DEF TypeOK
<1>2. QED
  BY <1>1

\* The manager's calls keep the types.
LEMMA ManagerType ==
  ASSUME TypeOK, Manager
  PROVE  TypeOK'
<1>1. ASSUME NEW m \in MessageToNode
      PROVE  Sent(<<m>>) \in Seq(MessageToNode)
  BY DEF TypeOK, Sent
<1>2. CASE SendFilterload
  <2>1. filters' \in 0..MaxFilters /\ filters' \in 1..MaxFilters
    BY <1>2, PeerAssumption DEF SendFilterload, TypeOK
  <2>2. Filterload(filters') \in MessageToNode
    BY <2>1 DEF Filterload, MessageToNode
  <2>3. ToNodeOK'
    BY <1>1, <1>2, <2>2 DEF SendFilterload, ToNodeOK
  <2>4. QED
    BY <1>2, <2>1, <2>3 DEF SendFilterload, TypeOK, ToNodeOK, nodeVars, outVars
<1>3. ASSUME NEW c \in PingCall, SendPing(c) PROVE TypeOK'
  <2>1. Ping(c) \in MessageToNode /\ c \in Call
    BY DEF Ping, MessageToNode, Calls, Call
  <2>2. ToNodeOK'
    BY <1>1, <1>3, <2>1 DEF SendPing, ToNodeOK
  <2>3. pongs' \in Seq(Call)
    BY <1>3, <2>1 DEF SendPing, TypeOK
  <2>4. result' \in [Call -> {"none", "waiting", "ok", "failed", "stranded"}]
    BY <1>3, <2>1 DEF SendPing, TypeOK, Registered
  <2>5. after' \in [PingCall -> 0..MaxFilters]
    BY <1>3 DEF SendPing, TypeOK
  <2>6. QED
    BY <1>3, <2>2, <2>3, <2>4, <2>5 DEF SendPing, TypeOK, ToNodeOK, nodeVars
<1>4. ASSUME NEW c \in MempoolCall, NEW published \in SUBSET Own, SendMempool(c, published) PROVE TypeOK'
  <2>1. Mempool(c) \in MessageToNode /\ c \in Call
    BY DEF Mempool, MessageToNode, Calls, Call
  <2>2. ToNodeOK'
    BY <1>1, <1>4, <2>1 DEF SendMempool, ToNodeOK, TypeOK
  <2>3. result' \in [Call -> {"none", "waiting", "ok", "failed", "stranded"}]
    BY <1>4, <2>1 DEF SendMempool, TypeOK, Registered
  <2>4. known' \subseteq Tx /\ mempool' \in MempoolCall \cup {NoCall} /\ sentMempool' \in BOOLEAN
    BY <1>4, PeerAssumption DEF SendMempool, TypeOK
  <2>5. QED
    BY <1>4, <2>2, <2>3, <2>4 DEF SendMempool, TypeOK, ToNodeOK, nodeVars
<1>5. ASSUME NEW t \in Own, SendInv(t) PROVE TypeOK'
  <2>1. Inv({t}, NoBlock) \in MessageToNode
    BY PeerAssumption DEF Inv, MessageToNode, Inventories
  <2>2. ToNodeOK'
    BY <1>1, <1>5, <2>1 DEF SendInv, ToNodeOK
  <2>3. known' \subseteq Tx
    BY <1>5, PeerAssumption DEF SendInv, TypeOK
  <2>4. QED
    BY <1>5, <2>2, <2>3 DEF SendInv, TypeOK, ToNodeOK, nodeVars, outVars
<1>6. QED
  BY <1>2, <1>3, <1>4, <1>5 DEF Manager

\* Reading a message keeps the types, whatever the message.
LEMMA AcceptType ==
  ASSUME TypeOK, Accept \/ MempoolTimeout \/ Close \/ Flush \/ Disconnected
  PROVE  TypeOK'
<1>1. ASSUME NEW type, Receive(type)
      PROVE  ToPeerOK' /\ Msg \in MessageToPeer /\ Msg.type = type
  BY <1>1, HeadTailProperties DEF Receive, TypeOK, ToPeerOK, Msg
<1>2. ASSUME NEW m \in MessageToNode
      PROVE  toNode \o <<m>> \in Seq(MessageToNode) /\ Append(toNode, m) \in Seq(MessageToNode)
  BY DEF TypeOK
<1>3. ASSUME NEW e \in {"protocol", "other"}, Fail(e) PROVE TypeOK'
  BY <1>3 DEF Fail, TypeOK, nodeVars, outVars
<1>4. CASE AcceptVersion
  <2>1. Bare("verack") \in MessageToNode
    BY DEF Bare, MessageToNode
  <2>2. ToNodeOK' /\ ToPeerOK'
    BY <1>1, <1>2, <1>4, <2>1 DEF AcceptVersion, ToNodeOK
  <2>3. QED
    BY <1>4, <2>2 DEF AcceptVersion, Receive, TypeOK, ToNodeOK, ToPeerOK, nodeVars
<1>5. CASE AcceptVerack
  <2>1. ToPeerOK'
    BY <1>1, <1>5 DEF AcceptVerack
  <2>2. QED
    BY <1>5, <2>1 DEF AcceptVerack, Receive, TypeOK, ToPeerOK, nodeVars
<1>6. CASE AcceptInv
  <2> DEFINE new   == Msg.txs \ known
             block == IF filters > 0 THEN Msg.block ELSE NoBlock
             first == Msg.txs # {} /\ mempool # NoCall
             asks  == IF new # {} \/ block # NoBlock THEN <<Getdata(new, block)>> ELSE <<>>
             pings == IF first THEN <<Ping(mempool)>> ELSE <<>>
  <2>1. ToPeerOK' /\ Msg.txs \subseteq Tx /\ Msg.block \in Block \cup {NoBlock}
    BY <1>1, <1>6, MessagesToPeer DEF AcceptInv
  <2>2. Getdata(new, block) \in MessageToNode
    BY <2>1 DEF Getdata, MessageToNode, Inventories
  <2>3. asks \in Seq(MessageToNode)
    BY <2>2
  <2>4. first => Ping(mempool) \in MessageToNode /\ mempool \in Call
    BY DEF TypeOK, Ping, MessageToNode, Calls, Call
  <2>5. pings \in Seq(MessageToNode)
    BY <2>4
  <2> HIDE DEF asks, pings
  <2>6. (toNode \o asks) \o pings \in Seq(MessageToNode)
    BY <2>3, <2>5, ConcatProperties DEF TypeOK
  <2>7. ToNodeOK'
    BY <1>6, <2>6 DEF AcceptInv, ToNodeOK, asks, pings
  <2>8. pongs' \in Seq(Call) /\ mempool' \in MempoolCall \cup {NoCall}
    BY <1>6, <2>4 DEF AcceptInv, TypeOK
  <2>9. known' \subseteq Tx
    BY <1>6, <2>1 DEF AcceptInv, Asked, TypeOK
  <2> HIDE DEF new, block, first
  <2>10. QED
    BY <1>6, <2>1, <2>7, <2>8, <2>9 DEF AcceptInv, Receive, TypeOK, ToNodeOK, ToPeerOK, nodeVars
<1>7. CASE AcceptTx
  <2>1. ToPeerOK' /\ Msg.tx \in Tx
    BY <1>1, <1>7, MessagesToPeer DEF AcceptTx
  <2>2. got' \subseteq Tx /\ missing' \subseteq Tx
    BY <1>7, <2>1 DEF AcceptTx, TypeOK
  <2>3. current' \in Block \cup {NoBlock} /\ relayed' \subseteq Block
    BY <1>7 DEF AcceptTx, TypeOK
  <2>4. QED
    BY <1>7, <2>1, <2>2, <2>3 DEF AcceptTx, Receive, TypeOK, ToPeerOK, nodeVars
<1>8. CASE AcceptMerkleblock
  <2>1. ToPeerOK' /\ Msg.block \in Block
    BY <1>1, <1>8, MessagesToPeer DEF AcceptMerkleblock
  <2>2. missing' \subseteq Tx
    BY <1>8, <2>1, PeerAssumption DEF AcceptMerkleblock, MissingOf
  <2>3. current' \in Block \cup {NoBlock} /\ relayed' \subseteq Block
    BY <1>8, <2>1 DEF AcceptMerkleblock, TypeOK
  <2>4. QED
    BY <1>8, <2>1, <2>2, <2>3 DEF AcceptMerkleblock, Receive, TypeOK, ToPeerOK, nodeVars
<1>9. CASE AcceptGetdata
  <2>1. ToPeerOK' /\ Msg.txs \in SUBSET Tx
    BY <1>1, <1>9, MessagesToPeer DEF AcceptGetdata
  <2>2. TxMsgs(Msg.txs) \in Seq(MessageToNode)
    BY <2>1, TxMsgsSend
  <2>3. ToNodeOK'
    BY <1>9, <2>2, ConcatProperties DEF AcceptGetdata, TypeOK, ToNodeOK
  <2>4. QED
    BY <1>9, <2>1, <2>3 DEF AcceptGetdata, Receive, TypeOK, ToPeerOK, ToNodeOK, nodeVars
<1>10. CASE AcceptPong
  <2>1. ToPeerOK'
    BY <1>1, <1>10 DEF AcceptPong
  <2>2. pongs \in Seq(Call) /\ 1 \in 1..Len(pongs)
    BY <1>10 DEF AcceptPong, TypeOK
  <2>3. pongs' \in Seq(Call)
    BY <1>10, <2>2, RemoveAtElements DEF AcceptPong, Answers
  <2>4. result' \in [Call -> {"none", "waiting", "ok", "failed", "stranded"}]
    BY <1>10, <2>2 DEF AcceptPong, Answers, TypeOK
  <2>5. QED
    BY <1>10, <2>1, <2>3, <2>4 DEF AcceptPong, Receive, TypeOK, ToPeerOK, nodeVars
<1>11. CASE AcceptNotfound
  <2>1. ToPeerOK'
    BY <1>1, <1>11 DEF AcceptNotfound
  <2>2. QED
    BY <1>11, <2>1 DEF AcceptNotfound, Receive, TypeOK, ToPeerOK, nodeVars
<1>12. CASE MempoolTimeout
  <2>1. mempool \in Call /\ Ping(mempool) \in MessageToNode
    BY <1>12 DEF MempoolTimeout, MempoolDue, TypeOK, Ping, MessageToNode, Calls, Call
  <2>2. ToNodeOK' /\ pongs' \in Seq(Call)
    BY <1>2, <1>12, <2>1 DEF MempoolTimeout, TypeOK, ToNodeOK
  <2>3. QED
    BY <1>12, <2>2 DEF MempoolTimeout, TypeOK, ToNodeOK, nodeVars, outVars
<1>13. CASE Flush
  <2>1. pongs # <<>> => Head(pongs) \in Call /\ Tail(pongs) \in Seq(Call)
    BY HeadTailProperties DEF TypeOK
  <2>2. pongs' \in Seq(Call) /\ mempool' \in MempoolCall \cup {NoCall}
    BY <1>13, <2>1 DEF Flush, TypeOK
  <2>3. result' \in [Call -> {"none", "waiting", "ok", "failed", "stranded"}]
    BY <1>13, <2>1 DEF Flush, TypeOK
  <2>4. QED
    BY <1>13, <2>2, <2>3 DEF Flush, TypeOK, nodeVars
<1>14. CASE Disconnected
  BY <1>14 DEF Disconnected, TypeOK, nodeVars, outVars
<1>15. CASE IncompleteBlock \/ Unexpected \/ Close
  BY <1>3, <1>15 DEF IncompleteBlock, Unexpected, Close
<1>16. QED
  BY <1>4, <1>5, <1>6, <1>7, <1>8, <1>9, <1>10, <1>11, <1>12, <1>13, <1>14, <1>15 DEF Accept

\* The node sends messages of the types only.
LEMMA NodeType ==
  ASSUME TypeOK, Node
  PROVE  TypeOK'
<1>1. ASSUME NEW m \in MessageToPeer PROVE toPeer \o <<m>> \in Seq(MessageToPeer)
  BY DEF TypeOK
<1>2. toPeer \o <<>> \in Seq(MessageToPeer)
  BY DEF TypeOK
<1>3. ASSUME toPeer' \in Seq(MessageToPeer), toNode' \in Seq(MessageToNode), UNCHANGED <<peerVars, outVars>>,
             pool' \subseteq Tx, mined' \subseteq Block, told' \subseteq Tx \cup Block, loaded' \in 0..MaxFilters,
             strayed' \in BOOLEAN, listed' \in [MempoolCall -> SUBSET Tx]
      PROVE  TypeOK'
  BY <1>3 DEF TypeOK, peerVars, outVars
<1>4. /\ pool \subseteq Tx /\ mined \subseteq Block /\ told \subseteq Tx \cup Block /\ loaded \in 0..MaxFilters
      /\ strayed \in BOOLEAN /\ listed \in [MempoolCall -> SUBSET Tx]
      /\ toNode \in Seq(MessageToNode) /\ toPeer \in Seq(MessageToPeer)
  BY DEF TypeOK
<1>5. CASE ServeNext
  <2> DEFINE m == Head(toNode)
  <2>1. m \in MessageToNode /\ toNode' \in Seq(MessageToNode) /\ Serve(m)
    BY <1>4, <1>5, HeadTailProperties DEF ServeNext
  <2> HIDE DEF m
  <2>2. CASE m.type = "version" /\ ServeVersion
    <3>1. <<Bare("version"), Bare("verack")>> \in Seq(MessageToPeer)
      BY DEF Bare, MessageToPeer
    <3>2. toPeer' \in Seq(MessageToPeer)
      BY <1>4, <2>2, <3>1, ConcatProperties DEF ServeVersion, NodeSends
    <3>3. QED
      BY <1>3, <1>4, <2>1, <2>2, <3>2 DEF ServeVersion, NodeSends, nodeVars
  <2>3. CASE m.type = "verack" /\ ServeVerack
    BY <1>2, <1>3, <1>4, <2>1, <2>3 DEF ServeVerack, NodeSends, nodeVars
  <2>4. CASE m.type = "ping" /\ ServePing(m.call)
    <3>1. Pong(m.call) \in MessageToPeer
      BY <2>1, <2>4, MessagesToNode DEF Pong, MessageToPeer, Calls
    <3>2. QED
      BY <1>1, <1>3, <1>4, <2>1, <2>4, <3>1 DEF ServePing, NodeSends, nodeVars
  <2>5. CASE m.type = "filterload" /\ ServeFilterload(m.number)
    <3>1. m.number \in 0..MaxFilters
      BY <2>1, <2>5, MessagesToNode, PeerAssumption
    <3>2. QED
      BY <1>2, <1>3, <1>4, <2>1, <2>5, <3>1 DEF ServeFilterload, NodeSends
  <2>6. CASE m.type = "mempool" /\ ServeMempool(m.call)
    <3>1. Inv(pool, NoBlock) \in MessageToPeer
      BY <1>4 DEF Inv, MessageToPeer, Inventories
    <3>2. listed' \in [MempoolCall -> SUBSET Tx] /\ told' \subseteq Tx \cup Block
      BY <1>4, <2>6 DEF ServeMempool
    <3>3. QED
      BY <1>1, <1>2, <1>3, <1>4, <2>1, <2>6, <3>1, <3>2 DEF ServeMempool, NodeSends
  <2>7. CASE m.type = "inv" /\ ServeInv(m.txs)
    <3>1. Getdata(m.txs, NoBlock) \in MessageToPeer /\ m.txs \subseteq Tx
      BY <2>1, <2>7, MessagesToNode DEF Getdata, MessageToPeer, Inventories
    <3>2. told' \subseteq Tx \cup Block
      BY <1>4, <2>7, <3>1 DEF ServeInv
    <3>3. QED
      BY <1>1, <1>3, <1>4, <2>1, <2>7, <3>1, <3>2 DEF ServeInv, NodeSends
  <2>8. CASE m.type = "tx" /\ ServeTx(m.tx)
    <3>1. pool' \subseteq Tx
      BY <1>4, <2>1, <2>8, MessagesToNode DEF ServeTx
    <3>2. QED
      BY <1>2, <1>3, <1>4, <2>1, <2>8, <3>1 DEF ServeTx, NodeSends
  <2>9. ASSUME m.type = "getdata", NEW all \in BOOLEAN, ServeGetdata(m.txs, m.block, all) PROVE TypeOK'
    <3> DEFINE txs == TxMsgs(m.txs \cap pool)
               rest == IF m.txs \subseteq pool THEN <<>> ELSE <<Bare("notfound")>>
               S == IF all THEN TxsOf[m.block] ELSE TxsOf[m.block] \ told
               end == IF m.block = NoBlock THEN <<>> ELSE <<Merkleblock(m.block)>> \o TxMsgs(S)
    <3>1. m.txs \cap pool \in SUBSET Tx /\ m.block \in Block \cup {NoBlock}
      BY <2>1, <2>9, MessagesToNode
    <3>2. txs \in Seq(MessageToPeer)
      BY <3>1, TxMsgsSend
    <3>3. rest \in Seq(MessageToPeer)
      <4>1. Bare("notfound") \in MessageToPeer
        BY DEF Bare, MessageToPeer
      <4>2. QED
        BY <4>1
    <3>4. end \in Seq(MessageToPeer)
      <4>1. CASE m.block = NoBlock
        BY <4>1
      <4>2. CASE m.block # NoBlock
        <5>1. S \in SUBSET Tx /\ m.block \in Block
          BY <3>1, <4>2, PeerAssumption
        <5>2. TxMsgs(S) \in Seq(MessageToPeer)
          BY <5>1, TxMsgsSend
        <5>3. <<Merkleblock(m.block)>> \in Seq(MessageToPeer)
          BY <5>1 DEF Merkleblock, MessageToPeer
        <5>4. QED
          BY <4>2, <5>2, <5>3, ConcatProperties
      <4>3. QED
        BY <4>1, <4>2
    <3>5. toPeer' = toPeer \o ((txs \o rest) \o end)
      BY <2>9 DEF ServeGetdata, NodeSends
    <3> HIDE DEF txs, rest, end
    <3>6. (txs \o rest) \o end \in Seq(MessageToPeer)
      BY <3>2, <3>3, <3>4, ConcatProperties
    <3>7. toPeer' \in Seq(MessageToPeer)
      BY <1>4, <3>5, <3>6, ConcatProperties
    <3>8. UNCHANGED <<peerVars, outVars>> /\ UNCHANGED <<nodeVars, listed>>
      BY <2>9 DEF ServeGetdata, NodeSends
    <3>9. QED
      BY <1>3, <1>4, <2>1, <3>7, <3>8 DEF nodeVars
  <2>10. QED
    BY <2>1, <2>2, <2>3, <2>4, <2>5, <2>6, <2>7, <2>8, <2>9 DEF Serve
<1>6. CASE Stray
  <2>1. PICK m \in {Pong(NoCall)} \cup {Merkleblock(b) : b \in IF loaded > 0 THEN mined \ told ELSE {}} : NodeSends(<<m>>)
    BY <1>6 DEF Stray
  <2>2. m \in MessageToPeer
    <3>1. Pong(NoCall) \in MessageToPeer /\ \A b \in Block : Merkleblock(b) \in MessageToPeer
      BY DEF Pong, Merkleblock, MessageToPeer, Calls
    <3>2. QED
      BY <1>4, <3>1
  <2>3. QED
    BY <1>1, <1>3, <1>4, <1>6, <2>1, <2>2 DEF Stray, NodeSends
<1>7. ASSUME NEW b \in Block, Mine(b) PROVE TypeOK'
  BY <1>2, <1>3, <1>4, <1>7 DEF Mine, NodeSends
<1>8. ASSUME NEW b \in Block, AnnounceBlock(b) PROVE TypeOK'
  <2>1. Inv({}, b) \in MessageToPeer
    BY DEF Inv, MessageToPeer, Inventories
  <2>2. QED
    BY <1>1, <1>3, <1>4, <1>8, <2>1 DEF AnnounceBlock, NodeSends
<1>9. ASSUME NEW t \in Tx, Announce(t) PROVE TypeOK'
  <2>1. Inv({t}, NoBlock) \in MessageToPeer
    BY DEF Inv, MessageToPeer, Inventories
  <2>2. QED
    BY <1>1, <1>3, <1>4, <1>9, <2>1 DEF Announce, NodeSends
<1>10. QED
  BY <1>5, <1>6, <1>7, <1>8, <1>9 DEF Node

\* Every step keeps the types.
LEMMA StepType == TypeOK /\ [Next]_vars => TypeOK'
<1>1. ASSUME TypeOK, Next PROVE TypeOK'
  BY <1>1, ManagerType, AcceptType, NodeType DEF Next
<1>2. ASSUME TypeOK, UNCHANGED vars PROVE TypeOK'
  BY <1>2 DEF TypeOK, vars, peerVars, nodeVars, outVars
<1>3. QED
  BY <1>1, <1>2

-----------------------------------------------------------------------------
(***************************************************************************)
(* Blocks handed over.                                                     *)
(***************************************************************************)
\* what is relayed, and what waits
BlocksAskedFor == CurrentAskedFor /\ BlockAskedFor

\* A block is relayed when it waits for nothing, and what it no longer waits
\* for was received.  That holds of any node, and whatever is sent.
LEMMA BlocksStep == TypeOK /\ BlocksAskedFor /\ [Next]_vars => BlocksAskedFor'
<1> SUFFICES ASSUME TypeOK, BlocksAskedFor, [Next]_vars PROVE BlocksAskedFor'
  OBVIOUS
<1>1. ASSUME current' = current, relayed' = relayed, got' = got, missing' = missing, known \subseteq known'
      PROVE  BlocksAskedFor'
  BY <1>1 DEF BlocksAskedFor, CurrentAskedFor, BlockAskedFor
<1>2. CASE Manager
  <2>1. known \subseteq known'
    BY <1>2 DEF Manager, SendFilterload, SendPing, SendMempool, SendInv
  <2>2. UNCHANGED <<current, relayed, got, missing>>
    BY <1>2 DEF Manager, SendFilterload, SendPing, SendMempool, SendInv, outVars
  <2>3. QED
    BY <1>1, <2>1, <2>2
<1>3. CASE AcceptTx
  <2>1. known' = known /\ got' = got \cup {Msg.tx} /\ missing' = missing \ {Msg.tx}
    BY <1>3 DEF AcceptTx
  <2>2. \/ current # NoBlock /\ missing' = {} /\ current' = NoBlock /\ relayed' = relayed \cup {current}
        \/ current' = current /\ relayed' = relayed
    BY <1>3 DEF AcceptTx
  <2>3. BlockAskedFor'
    BY <2>1, <2>2 DEF BlocksAskedFor, CurrentAskedFor, BlockAskedFor
  <2>4. CurrentAskedFor'
    BY <2>1, <2>2 DEF BlocksAskedFor, CurrentAskedFor
  <2>5. QED
    BY <2>3, <2>4 DEF BlocksAskedFor
<1>4. CASE AcceptMerkleblock
  <2>1. known' = known /\ got' = got /\ missing' = TxsOf[Msg.block] \ known /\ current = NoBlock
    BY <1>4 DEF AcceptMerkleblock, MissingOf, Receive
  <2>2. \/ missing' = {} /\ current' = current /\ relayed' = relayed \cup {Msg.block}
        \/ current' = Msg.block /\ relayed' = relayed
    BY <1>4 DEF AcceptMerkleblock, HandsOver
  <2>3. BlockAskedFor'
    BY <2>1, <2>2 DEF BlocksAskedFor, BlockAskedFor
  <2>4. CurrentAskedFor'
    BY <2>1, <2>2 DEF CurrentAskedFor
  <2>5. QED
    BY <2>3, <2>4 DEF BlocksAskedFor
<1>5. CASE AcceptInv
  <2>1. known \subseteq known'
    BY <1>5 DEF AcceptInv, Asked
  <2>2. QED
    BY <1>1, <1>5, <2>1 DEF AcceptInv
<1>6. CASE AcceptVersion \/ AcceptVerack \/ AcceptGetdata \/ AcceptPong \/ AcceptNotfound
  BY <1>1, <1>6 DEF AcceptVersion, AcceptVerack, AcceptGetdata, AcceptPong, AcceptNotfound
<1>7. ASSUME NEW e, Fail(e) PROVE BlocksAskedFor'
  BY <1>1, <1>7 DEF Fail, outVars
<1>8. CASE IncompleteBlock \/ Unexpected \/ Close
  BY <1>7, <1>8 DEF IncompleteBlock, Unexpected, Close
<1>9. CASE MempoolTimeout \/ Flush \/ Disconnected
  BY <1>1, <1>9 DEF MempoolTimeout, Flush, Disconnected, outVars
<1>10. CASE Node
  <2>1. UNCHANGED <<peerVars, outVars>>
    BY <1>10 DEF Node, ServeNext, Serve, ServeVersion, ServeVerack, ServePing, ServeFilterload, ServeMempool,
      ServeInv, ServeTx, ServeGetdata, Stray, Mine, AnnounceBlock, Announce, NodeSends
  <2>2. QED
    BY <1>1, <2>1 DEF peerVars, outVars
<1>11. CASE UNCHANGED vars
  BY <1>1, <1>11 DEF vars, peerVars, outVars
<1>12. QED
  BY <1>2, <1>3, <1>4, <1>5, <1>6, <1>8, <1>9, <1>10, <1>11 DEF Next, Accept

-----------------------------------------------------------------------------
(***************************************************************************)
(* What is under way.                                                      *)
(***************************************************************************)

\* The positions in the queues.
QueuesOK ==
  /\ toPeer \in Seq(MessageToPeer) /\ DOMAIN toPeer = 1..Len(toPeer) /\ Len(toPeer) \in Nat
  /\ toNode \in Seq(MessageToNode) /\ DOMAIN toNode = 1..Len(toNode) /\ Len(toNode) \in Nat
  /\ pongs \in Seq(Call) /\ DOMAIN pongs = 1..Len(pongs) /\ Len(pongs) \in Nat

\* The queues are sequences, before and after a step.
LEMMA Queues ==
  ASSUME TypeOK, TypeOK'
  PROVE  QueuesOK /\ QueuesOK'
BY DEF TypeOK, QueuesOK

\* Where the messages of the queues come from, and where they go.
LEMMA Places ==
  ASSUME QueuesOK, QueuesOK', NEW r, NEW P, NEW s, NEW N, Moving(r, P, s, N)
  PROVE  /\ Goes(r) \in {0, 1} /\ Goes(s) \in {0, 1} /\ (Goes(r) = 0 <=> r = "none") /\ (Goes(s) = 0 <=> s = "none")
         /\ \A i \in DOMAIN toPeer' :
              \/ i + Goes(r) \in DOMAIN toPeer /\ toPeer'[i] = toPeer[i + Goes(r)]
              \/ i + Goes(r) > Len(toPeer) /\ toPeer'[i].type \in P
         /\ \A i \in DOMAIN toPeer :
              \/ i = 1 /\ Goes(r) = 1 /\ toPeer[1].type = r
              \/ i - Goes(r) \in DOMAIN toPeer' /\ toPeer'[i - Goes(r)] = toPeer[i]
         /\ \A i \in DOMAIN toNode' :
              \/ i + Goes(s) \in DOMAIN toNode /\ toNode'[i] = toNode[i + Goes(s)]
              \/ i + Goes(s) > Len(toNode) /\ toNode'[i].type \in N
         /\ \A i \in DOMAIN toNode :
              \/ i = 1 /\ Goes(s) = 1 /\ toNode[1].type = s
              \/ i - Goes(s) \in DOMAIN toNode' /\ toNode'[i - Goes(s)] = toNode[i]
<1>1. Goes(r) \in {0, 1} /\ Goes(s) \in {0, 1} /\ (Goes(r) = 0 <=> r = "none") /\ (Goes(s) = 0 <=> s = "none")
  BY DEF Goes
<1>2. Moves(toPeer, toPeer', r, P) /\ Moves(toNode, toNode', s, N)
  BY DEF Moving
<1> HIDE DEF Goes
<1>0. ASSUME NEW i \in DOMAIN toPeer
      PROVE  i > Goes(r) => i - Goes(r) <= Len(toPeer') /\ toPeer'[i - Goes(r)] = toPeer[i]
  BY <1>2 DEF QueuesOK, Moves
<1>3. ASSUME NEW i \in DOMAIN toPeer'
      PROVE  \/ i + Goes(r) \in DOMAIN toPeer /\ toPeer'[i] = toPeer[i + Goes(r)]
             \/ i + Goes(r) > Len(toPeer) /\ toPeer'[i].type \in P
  BY <1>1, <1>2 DEF QueuesOK, Moves
<1>4. ASSUME NEW i \in DOMAIN toNode'
      PROVE  \/ i + Goes(s) \in DOMAIN toNode /\ toNode'[i] = toNode[i + Goes(s)]
             \/ i + Goes(s) > Len(toNode) /\ toNode'[i].type \in N
  BY <1>1, <1>2 DEF QueuesOK, Moves
<1>5. ASSUME NEW i \in DOMAIN toPeer
      PROVE  \/ i = 1 /\ Goes(r) = 1 /\ toPeer[1].type = r
             \/ i - Goes(r) \in DOMAIN toPeer' /\ toPeer'[i - Goes(r)] = toPeer[i]
  <2>1. i \in Nat /\ i >= 1 /\ (r # "none" => toPeer[1].type = r) /\ Len(toPeer') \in Nat
        /\ DOMAIN toPeer' = 1..Len(toPeer')
    BY <1>2 DEF QueuesOK, Moves
  <2>2. CASE i > Goes(r)
    <3>1. i - Goes(r) \in DOMAIN toPeer'
      BY <1>0, <1>1, <2>1, <2>2
    <3>2. QED
      BY <1>0, <2>2, <3>1
  <2>3. CASE ~(i > Goes(r))
    BY <1>1, <2>1, <2>3
  <2>4. QED
    BY <2>2, <2>3
<1>6. ASSUME NEW i \in DOMAIN toNode
      PROVE  \/ i = 1 /\ Goes(s) = 1 /\ toNode[1].type = s
             \/ i - Goes(s) \in DOMAIN toNode' /\ toNode'[i - Goes(s)] = toNode[i]
  BY <1>1, <1>2 DEF QueuesOK, Moves
<1>7. QED
  BY <1>1, <1>3, <1>4, <1>5, <1>6

\* What is new has the type of what was added.
LEMMA Newcomers ==
  ASSUME QueuesOK, QueuesOK', NEW r, NEW P, NEW s, NEW N, Moving(r, P, s, N)
  PROVE  /\ \A i \in DOMAIN toPeer' : i + Goes(r) > Len(toPeer) => toPeer'[i].type \in P
         /\ \A i \in DOMAIN toNode' : i + Goes(s) > Len(toNode) => toNode'[i].type \in N
<1>1. ASSUME NEW i \in DOMAIN toPeer', i + Goes(r) > Len(toPeer) PROVE toPeer'[i].type \in P
  <2>1. i + Goes(r) \notin DOMAIN toPeer
    BY <1>1 DEF QueuesOK
  <2>2. QED
    BY <2>1, Places
<1>2. ASSUME NEW i \in DOMAIN toNode', i + Goes(s) > Len(toNode) PROVE toNode'[i].type \in N
  <2>1. i + Goes(s) \notin DOMAIN toNode
    BY <1>2 DEF QueuesOK
  <2>2. QED
    BY <2>1, Places
<1>3. QED
  BY <1>1, <1>2

\* NothingEarly stays if nothing is sent that needs a filter.
LEMMA NothingEarlyQuiet ==
  ASSUME QueuesOK, QueuesOK', NothingEarly, NEW r, NEW P, NEW s, NEW N, Moving(r, P, s, N),
         filters' = 0 => filters = 0, sentMempool' => sentMempool, loaded' = loaded,
         "inv" \notin P, "tx" \notin P, "merkleblock" \notin P,
         "mempool" \notin N, "getdata" \notin N, "filterload" \notin N
  PROVE  NothingEarly'
<1>1. ASSUME filters' = 0, NEW i \in DOMAIN toPeer'
      PROVE  toPeer'[i].type \notin {"inv", "tx", "merkleblock"}
  BY <1>1, Places DEF NothingEarly
<1>2. ASSUME filters' = 0, NEW i \in DOMAIN toNode'
      PROVE  toNode'[i].type \notin {"mempool", "getdata", "filterload"}
  BY <1>2, Places DEF NothingEarly
<1>3. QED
  BY <1>1, <1>2 DEF NothingEarly

\* Before the first filter neither side has such a message.
LEMMA NothingEarlyHeads ==
  ASSUME QueuesOK, NothingEarly, filters = 0
  PROVE  /\ Len(toPeer) > 0 => toPeer[1].type \notin {"inv", "tx", "merkleblock"}
         /\ Len(toNode) > 0 => toNode[1].type \notin {"mempool", "getdata", "filterload"}
         /\ ~sentMempool /\ loaded = 0
BY DEF QueuesOK, NothingEarly

\* NothingEarly is kept by each step of an open connection.
LEMMA NothingEarlyStep ==
  ASSUME TypeOK, TypeOK', Open, NothingEarly, OpenStep
  PROVE  NothingEarly'
<1>z. ASSUME filters' > 0 PROVE NothingEarly'
  BY <1>z DEF NothingEarly
<1>y. filters \in Nat
  BY PeerAssumption DEF TypeOK
<1>1. ASSUME SendFilterload PROVE NothingEarly'
  BY <1>1, <1>y, <1>z DEF SendFilterload
<1>2. ASSUME NEW c \in PingCall, SendPing(c) PROVE NothingEarly'
  BY Queues, <1>2, ManagerMoves, NothingEarlyQuiet DEF SendPing, nodeVars
<1>3. ASSUME NEW c \in MempoolCall, NEW published \in SUBSET Own, SendMempool(c, published) PROVE NothingEarly'
  BY <1>3, <1>y, <1>z DEF SendMempool
<1>4. ASSUME NEW t \in Own, SendInv(t) PROVE NothingEarly'
  BY Queues, <1>4, ManagerMoves, NothingEarlyQuiet DEF SendInv, nodeVars, outVars
<1>5. ASSUME AcceptVersion PROVE NothingEarly'
  BY Queues, <1>5, PeerMoves, NothingEarlyQuiet DEF AcceptVersion, Receive, nodeVars
<1>6. ASSUME AcceptVerack PROVE NothingEarly'
  BY Queues, <1>6, PeerMoves, NothingEarlyQuiet DEF AcceptVerack, Receive, nodeVars
<1>7. ASSUME AcceptInv PROVE NothingEarly'
  BY <1>7, <1>y, <1>z, Queues, ReceiveMoves, NothingEarlyHeads DEF AcceptInv, Receive
<1>8. ASSUME AcceptTx PROVE NothingEarly'
  BY <1>8, <1>y, <1>z DEF AcceptTx, Receive
<1>9. ASSUME AcceptMerkleblock PROVE NothingEarly'
  BY <1>9, <1>y, <1>z DEF AcceptMerkleblock, Receive
<1>10. ASSUME AcceptGetdata PROVE NothingEarly'
  BY Queues, <1>10, PeerMoves, NothingEarlyQuiet DEF AcceptGetdata, Receive, nodeVars
<1>11. ASSUME AcceptPong PROVE NothingEarly'
  BY Queues, <1>11, PeerMoves, NothingEarlyQuiet DEF AcceptPong, Receive, nodeVars
<1>12. ASSUME AcceptNotfound PROVE NothingEarly'
  BY Queues, <1>12, PeerMoves, NothingEarlyQuiet DEF AcceptNotfound, Receive, nodeVars
<1>13. ASSUME MempoolTimeout PROVE NothingEarly'
  BY Queues, <1>13, PeerMoves, NothingEarlyQuiet DEF MempoolTimeout, nodeVars, outVars
<1>14. ASSUME Served("version"), ServeVersion PROVE NothingEarly'
  BY Queues, <1>14, NodeMoves, NothingEarlyQuiet DEF ServeVersion, NodeSends, peerVars, nodeVars, outVars
<1>15. ASSUME Served("verack"), ServeVerack PROVE NothingEarly'
  BY Queues, <1>15, NodeMoves, NothingEarlyQuiet DEF ServeVerack, NodeSends, peerVars, nodeVars, outVars
<1>16. ASSUME Served("ping"), ServePing(Head(toNode).call) PROVE NothingEarly'
  BY Queues, <1>16, NodeMoves, NothingEarlyQuiet DEF ServePing, NodeSends, peerVars, nodeVars, outVars
<1>17. ASSUME Served("filterload"), ServeFilterload(Head(toNode).number) PROVE NothingEarly'
  BY <1>17, <1>y, <1>z, Queues, ServedMoves, NothingEarlyHeads DEF ServeFilterload, NodeSends, peerVars
<1>18. ASSUME Served("mempool"), ServeMempool(Head(toNode).call) PROVE NothingEarly'
  BY <1>18, <1>y, <1>z, Queues, ServedMoves, NothingEarlyHeads DEF ServeMempool, NodeSends, peerVars
<1>19. ASSUME Served("inv"), ServeInv(Head(toNode).txs) PROVE NothingEarly'
  BY Queues, <1>19, NodeMoves, NothingEarlyQuiet DEF ServeInv, NodeSends, peerVars, outVars
<1>20. ASSUME Served("tx"), ServeTx(Head(toNode).tx) PROVE NothingEarly'
  BY Queues, <1>20, NodeMoves, NothingEarlyQuiet DEF ServeTx, NodeSends, peerVars, outVars
<1>21. ASSUME NEW all \in BOOLEAN, Served("getdata"), ServeGetdata(Head(toNode).txs, Head(toNode).block, all) PROVE NothingEarly'
  BY <1>21, <1>y, <1>z, Queues, ServedMoves, NothingEarlyHeads DEF ServeGetdata, NodeSends, peerVars
<1>22. ASSUME NEW b \in Block, Mine(b) PROVE NothingEarly'
  BY Queues, <1>22, NodeMoves, NothingEarlyQuiet DEF Mine, NodeSends, peerVars, outVars
<1>23. ASSUME NEW b \in Block, AnnounceBlock(b) PROVE NothingEarly'
  BY <1>23, <1>y, <1>z, Queues, NothingEarlyHeads DEF AnnounceBlock, NodeSends, peerVars
<1>24. ASSUME NEW t \in Tx, Announce(t) PROVE NothingEarly'
  BY <1>24, <1>y, <1>z, Queues, NothingEarlyHeads DEF Announce, NodeSends, peerVars
<1>25. QED
  BY <1>1, <1>2, <1>3, <1>4, <1>5, <1>6, <1>7, <1>8, <1>9, <1>10, <1>11, <1>12, <1>13, <1>14, <1>15, <1>16,
      <1>17, <1>18, <1>19, <1>20, <1>21, <1>22, <1>23, <1>24 DEF OpenStep

\* An announcement under way stays before what it was before, or is read.
LEMMA InvBeforeMoves ==
  ASSUME QueuesOK, QueuesOK', NEW r, NEW P, NEW s, NEW N, Moving(r, P, s, N),
         NEW t, NEW n \in Nat, InvBefore(t, n)
  PROVE  (r = "inv" /\ t \in toPeer[1].txs) \/ InvBefore(t, n - Goes(r))'
<1>1. PICK j \in DOMAIN toPeer : j < n /\ toPeer[j].type = "inv" /\ t \in toPeer[j].txs
  BY DEF InvBefore
<1>2. CASE j = 1 /\ Goes(r) = 1 /\ toPeer[1].type = r
  BY <1>1, <1>2
<1>3. CASE j - Goes(r) \in DOMAIN toPeer' /\ toPeer'[j - Goes(r)] = toPeer[j]
  <2>1. Goes(r) \in {0, 1} /\ j \in Nat
    BY Places DEF QueuesOK
  <2>2. j - Goes(r) < n - Goes(r)
    BY <1>1, <2>1
  <2>3. QED
    BY <1>1, <1>3, <2>2 DEF InvBefore
<1>4. QED
  BY <1>2, <1>3, Places

\* t is announced in the messages to the peer
Told(t) == InvBefore(t, Len(toPeer) + 1)

\* Told looks at all messages to the peer.
LEMMA ToldEverywhere ==
  ASSUME QueuesOK, QueuesOK'
  PROVE  /\ \A t : Told(t) <=> \E j \in DOMAIN toPeer : toPeer[j].type = "inv" /\ t \in toPeer[j].txs
         /\ \A t : Told(t)' <=> \E j \in DOMAIN toPeer' : toPeer'[j].type = "inv" /\ t \in toPeer'[j].txs
<1>1. \A t : Told(t) <=> \E j \in DOMAIN toPeer : toPeer[j].type = "inv" /\ t \in toPeer[j].txs
  BY DEF QueuesOK, Told, InvBefore
<1>2. \A t : Told(t)' <=> \E j \in DOMAIN toPeer' : toPeer'[j].type = "inv" /\ t \in toPeer'[j].txs
  BY DEF QueuesOK, Told, InvBefore
<1>3. QED
  BY <1>1, <1>2

\* What is announced stays announced until it is read.
LEMMA ToldMoves ==
  ASSUME QueuesOK, QueuesOK', NEW r, NEW P, NEW s, NEW N, Moving(r, P, s, N), NEW t, Told(t)
  PROVE  (r = "inv" /\ t \in toPeer[1].txs) \/ Told(t)'
<1>1. PICK j \in DOMAIN toPeer : toPeer[j].type = "inv" /\ t \in toPeer[j].txs
  BY ToldEverywhere
<1>2. CASE j = 1 /\ Goes(r) = 1 /\ toPeer[1].type = r
  BY <1>1, <1>2
<1>3. CASE j - Goes(r) \in DOMAIN toPeer' /\ toPeer'[j - Goes(r)] = toPeer[j]
  BY <1>1, <1>3, ToldEverywhere
<1>4. QED
  BY <1>2, <1>3, Places

\* ToldIsKnown stays if what is read, announced or listed is known or announced.
LEMMA ToldIsKnownMoves ==
  ASSUME QueuesOK, QueuesOK', ToldIsKnown, NEW r, NEW P, NEW s, NEW N, Moving(r, P, s, N),
         known \subseteq known', r = "inv" => toPeer[1].txs \subseteq known',
         \A t \in Tx : t \in told' => t \in told \/ t \in known' \/ Told(t)',
         \A i \in DOMAIN toNode' : i + Goes(s) > Len(toNode) /\ toNode'[i].type = "inv" => toNode'[i].txs \subseteq known',
         \A c \in MempoolCall : \A t \in listed'[c] : t \in listed[c] \/ t \in known' \/ Told(t)'
  PROVE  ToldIsKnown'
<1>1. ASSUME NEW t, t \in known \/ Told(t) PROVE t \in known' \/ Told(t)'
  BY <1>1, ToldMoves
<1>2. ASSUME NEW t \in Tx, t \in told' PROVE t \in known' \/ Told(t)'
  BY <1>1, <1>2 DEF ToldIsKnown, Told
<1>3. ASSUME NEW i \in DOMAIN toNode', toNode'[i].type = "inv" PROVE toNode'[i].txs \subseteq known'
  BY <1>3, Places DEF ToldIsKnown
<1>4. ASSUME NEW c \in MempoolCall, NEW t \in listed'[c] PROVE t \in known' \/ Told(t)'
  BY <1>1, <1>4 DEF ToldIsKnown, Told
<1>5. QED
  BY <1>2, <1>3, <1>4 DEF ToldIsKnown, Told

\* ToldIsKnown stays if nothing is announced by the node, and no inv read or sent.
LEMMA ToldIsKnownQuiet ==
  ASSUME QueuesOK, QueuesOK', ToldIsKnown, NEW r, NEW P, NEW s, NEW N, Moving(r, P, s, N),
         known \subseteq known', r # "inv", "inv" \notin N, told' = told, listed' = listed
  PROVE  ToldIsKnown'
<1>1. ASSUME NEW i \in DOMAIN toNode', i + Goes(s) > Len(toNode), toNode'[i].type = "inv" PROVE FALSE
  BY <1>1, Newcomers
<1>2. QED
  BY <1>1, ToldIsKnownMoves

\* ToldIsKnown is kept by each step of an open connection.
LEMMA ToldIsKnownStep ==
  ASSUME TypeOK, TypeOK', Open, ToldIsKnown, OpenStep
  PROVE  ToldIsKnown'
<1>1. ASSUME SendFilterload PROVE ToldIsKnown'
  BY Queues, <1>1, ManagerMoves, ToldIsKnownQuiet DEF SendFilterload, nodeVars, outVars
<1>2. ASSUME NEW c \in PingCall, SendPing(c) PROVE ToldIsKnown'
  BY Queues, <1>2, ManagerMoves, ToldIsKnownQuiet DEF SendPing, nodeVars
<1>3. ASSUME NEW c \in MempoolCall, NEW published \in SUBSET Own, SendMempool(c, published) PROVE ToldIsKnown'
  BY Queues, <1>3, ManagerMoves, ToldIsKnownQuiet DEF SendMempool, nodeVars
<1>4. ASSUME NEW t \in Own, SendInv(t) PROVE ToldIsKnown'
  <2>1. Moving("none", {}, "none", {"inv"}) /\ Gains(toNode, toNode', Inv({t}, NoBlock))
    BY <1>4, ManagerMoves
  <2>2. known' = known \cup {t} /\ told' = told /\ listed' = listed
    BY <1>4 DEF SendInv, nodeVars
  <2>3. ASSUME NEW i \in DOMAIN toNode', i + Goes("none") > Len(toNode), toNode'[i].type = "inv"
        PROVE  toNode'[i].txs \subseteq known'
    <3>1. toNode'[i] = Inv({t}, NoBlock)
      BY <2>1, <2>3, Queues DEF QueuesOK, Gains, Goes, Inv
    <3>2. QED
      BY <2>2, <3>1 DEF Inv
  <2>4. QED
    BY <2>1, <2>2, <2>3, Queues, ToldIsKnownMoves
<1>5. ASSUME AcceptVersion PROVE ToldIsKnown'
  BY Queues, <1>5, PeerMoves, ToldIsKnownQuiet DEF AcceptVersion, Receive, nodeVars
<1>6. ASSUME AcceptVerack PROVE ToldIsKnown'
  BY Queues, <1>6, PeerMoves, ToldIsKnownQuiet DEF AcceptVerack, Receive, nodeVars
<1>7. ASSUME AcceptInv PROVE ToldIsKnown'
  <2>1. Moving("inv", {}, "none", {"getdata", "ping"})
    BY <1>7, PeerMoves
  <2>2. known' = known \cup toPeer[1].txs /\ told' = told /\ listed' = listed
    BY <1>7, ReceiveMoves DEF AcceptInv, Asked, Receive, nodeVars
  <2>3. ASSUME NEW i \in DOMAIN toNode', i + Goes("none") > Len(toNode), toNode'[i].type = "inv" PROVE FALSE
    BY <2>1, <2>3, Newcomers, Queues
  <2>4. QED
    BY <2>1, <2>2, <2>3, Queues, ToldIsKnownMoves
<1>8. ASSUME AcceptTx PROVE ToldIsKnown'
  BY Queues, <1>8, PeerMoves, ToldIsKnownQuiet DEF AcceptTx, Receive, nodeVars
<1>9. ASSUME AcceptMerkleblock PROVE ToldIsKnown'
  BY Queues, <1>9, PeerMoves, ToldIsKnownQuiet DEF AcceptMerkleblock, Receive, nodeVars
<1>10. ASSUME AcceptGetdata PROVE ToldIsKnown'
  BY Queues, <1>10, PeerMoves, ToldIsKnownQuiet DEF AcceptGetdata, Receive, nodeVars
<1>11. ASSUME AcceptPong PROVE ToldIsKnown'
  BY Queues, <1>11, PeerMoves, ToldIsKnownQuiet DEF AcceptPong, Receive, nodeVars
<1>12. ASSUME AcceptNotfound PROVE ToldIsKnown'
  BY Queues, <1>12, PeerMoves, ToldIsKnownQuiet DEF AcceptNotfound, Receive, nodeVars
<1>13. ASSUME MempoolTimeout PROVE ToldIsKnown'
  BY Queues, <1>13, PeerMoves, ToldIsKnownQuiet DEF MempoolTimeout, nodeVars, outVars
<1>14. ASSUME Served("version"), ServeVersion PROVE ToldIsKnown'
  BY Queues, <1>14, NodeMoves, ToldIsKnownQuiet DEF ServeVersion, NodeSends, peerVars, nodeVars, outVars
<1>15. ASSUME Served("verack"), ServeVerack PROVE ToldIsKnown'
  BY Queues, <1>15, NodeMoves, ToldIsKnownQuiet DEF ServeVerack, NodeSends, peerVars, nodeVars, outVars
<1>16. ASSUME Served("ping"), ServePing(Head(toNode).call) PROVE ToldIsKnown'
  BY Queues, <1>16, NodeMoves, ToldIsKnownQuiet DEF ServePing, NodeSends, peerVars, nodeVars, outVars
<1>17. ASSUME Served("filterload"), ServeFilterload(Head(toNode).number) PROVE ToldIsKnown'
  BY Queues, <1>17, NodeMoves, ToldIsKnownQuiet DEF ServeFilterload, NodeSends, peerVars, outVars
<1>18. ASSUME Served("mempool"), ServeMempool(Head(toNode).call) PROVE ToldIsKnown'
  <2>1. Moving("none", {"inv"}, "mempool", {}) /\ (pool # {} => Gains(toPeer, toPeer', Inv(pool, NoBlock)))
    BY <1>18, NodeMoves
  <2>2. /\ known' = known /\ told' = told \cup pool
        /\ listed' = [listed EXCEPT ![Head(toNode).call] = pool] /\ listed \in [MempoolCall -> SUBSET Tx]
    BY <1>18 DEF ServeMempool, NodeSends, peerVars, TypeOK
  <2>3. ASSUME NEW t \in pool PROVE Told(t)'
    <3>1. Len(toPeer') \in DOMAIN toPeer' /\ toPeer'[Len(toPeer')] = Inv(pool, NoBlock)
      BY <2>1, Queues DEF QueuesOK, Gains
    <3>2. QED
      BY <3>1, Queues, ToldEverywhere DEF Inv
  <2>4. ASSUME NEW i \in DOMAIN toNode', i + Goes("mempool") > Len(toNode), toNode'[i].type = "inv" PROVE FALSE
    BY <2>1, <2>4, Newcomers, Queues
  <2>5. \A c \in MempoolCall : \A t \in listed'[c] : t \in listed[c] \/ Told(t)'
    BY <2>2, <2>3
  <2>6. QED
    BY <2>1, <2>2, <2>3, <2>4, <2>5, Queues, ToldIsKnownMoves
<1>19. ASSUME Served("inv"), ServeInv(Head(toNode).txs) PROVE ToldIsKnown'
  <2>1. Moving("none", {"getdata"}, "inv", {})
    BY <1>19, NodeMoves
  <2>2. known' = known /\ told' = told \cup toNode[1].txs /\ listed' = listed
    BY <1>19, ServedMoves DEF ServeInv, NodeSends, peerVars
  <2>3. toNode[1].txs \subseteq known
    BY <1>19, ServedMoves, Queues DEF ToldIsKnown, QueuesOK
  <2>4. ASSUME NEW i \in DOMAIN toNode', i + Goes("inv") > Len(toNode), toNode'[i].type = "inv" PROVE FALSE
    BY <2>1, <2>4, Newcomers, Queues
  <2>5. QED
    BY <2>1, <2>2, <2>3, <2>4, Queues, ToldIsKnownMoves
<1>20. ASSUME Served("tx"), ServeTx(Head(toNode).tx) PROVE ToldIsKnown'
  BY Queues, <1>20, NodeMoves, ToldIsKnownQuiet DEF ServeTx, NodeSends, peerVars, outVars
<1>21. ASSUME NEW all \in BOOLEAN, Served("getdata"), ServeGetdata(Head(toNode).txs, Head(toNode).block, all) PROVE ToldIsKnown'
  BY Queues, <1>21, DataMoves, ToldIsKnownQuiet DEF ServeGetdata, NodeSends, peerVars, nodeVars, outVars
<1>22. ASSUME NEW b \in Block, Mine(b) PROVE ToldIsKnown'
  BY Queues, <1>22, NodeMoves, ToldIsKnownQuiet DEF Mine, NodeSends, peerVars, outVars
<1>23. ASSUME NEW b \in Block, AnnounceBlock(b) PROVE ToldIsKnown'
  <2>1. Moving("none", {"inv"}, "none", {})
    BY <1>23, NodeMoves
  <2>2. known' = known /\ told' = told \cup {b} /\ listed' = listed /\ b \notin Tx
    BY <1>23, PeerAssumption DEF AnnounceBlock, NodeSends, peerVars
  <2>3. ASSUME NEW i \in DOMAIN toNode', i + Goes("none") > Len(toNode), toNode'[i].type = "inv" PROVE FALSE
    BY <2>1, <2>3, Newcomers, Queues
  <2>4. QED
    BY <2>1, <2>2, <2>3, Queues, ToldIsKnownMoves
<1>24. ASSUME NEW t \in Tx, Announce(t) PROVE ToldIsKnown'
  <2>1. Moving("none", {"inv"}, "none", {}) /\ Gains(toPeer, toPeer', Inv({t}, NoBlock))
    BY <1>24, NodeMoves
  <2>2. known' = known /\ told' = told \cup {t} /\ listed' = listed
    BY <1>24 DEF Announce, NodeSends, peerVars
  <2>3. Told(t)'
    <3>1. Len(toPeer') \in DOMAIN toPeer' /\ toPeer'[Len(toPeer')] = Inv({t}, NoBlock)
      BY <2>1, Queues DEF QueuesOK, Gains
    <3>2. QED
      BY <3>1, Queues, ToldEverywhere DEF Inv
  <2>4. ASSUME NEW i \in DOMAIN toNode', i + Goes("none") > Len(toNode), toNode'[i].type = "inv" PROVE FALSE
    BY <2>1, <2>4, Newcomers, Queues
  <2>5. QED
    BY <2>1, <2>2, <2>3, <2>4, Queues, ToldIsKnownMoves
<1>25. QED
  BY <1>1, <1>2, <1>3, <1>4, <1>5, <1>6, <1>7, <1>8, <1>9, <1>10, <1>11, <1>12, <1>13, <1>14, <1>15, <1>16,
      <1>17, <1>18, <1>19, <1>20, <1>21, <1>22, <1>23, <1>24 DEF OpenStep

\* What follows a message still follows it when both move on.
LEMMA FollowsMoves ==
  ASSUME QueuesOK, QueuesOK', NEW r, NEW P, NEW s, NEW N, Moving(r, P, s, N),
         NEW t, NEW i \in Nat, i >= Goes(r), Follows(t, i)
  PROVE  Follows(t, i - Goes(r))'
<1>1. PICK j \in DOMAIN toPeer : j > i /\ toPeer[j] = TxMsg(t) /\ \A k \in (i + 1)..j : toPeer[k].type = "tx"
  BY DEF Follows
<1>2. Goes(r) \in {0, 1} /\ j \in Nat /\ j >= 1 /\ j <= Len(toPeer) /\ Len(toPeer) \in Nat
  BY Places DEF QueuesOK
<1>3. \A k \in (i + 1)..j : k \in DOMAIN toPeer /\ k - Goes(r) \in DOMAIN toPeer' /\ toPeer'[k - Goes(r)] = toPeer[k]
  <2>1. ASSUME NEW k \in (i + 1)..j PROVE k \in DOMAIN toPeer /\ ~(k = 1 /\ Goes(r) = 1)
    BY <1>2 DEF QueuesOK
  <2>2. QED
    BY <2>1, Places
<1>4. j - Goes(r) \in DOMAIN toPeer' /\ toPeer'[j - Goes(r)] = TxMsg(t) /\ j - Goes(r) > i - Goes(r)
  <2>1. j \in (i + 1)..j
    BY <1>1, <1>2
  <2>2. QED
    BY <1>1, <1>2, <1>3, <2>1
<1>5. ASSUME NEW k \in ((i - Goes(r)) + 1)..(j - Goes(r)) PROVE toPeer'[k].type = "tx"
  <2>1. k + Goes(r) \in (i + 1)..j /\ (k + Goes(r)) - Goes(r) = k
    BY <1>2
  <2>2. QED
    BY <1>1, <1>3, <2>1
<1>6. QED
  BY <1>4, <1>5 DEF Follows

\* no transaction of the block at position i is missed
Covered(i) == \A t \in TxsOf[toPeer[i].block] : t \in known \/ InvBefore(t, i) \/ Follows(t, i)
\* the conjuncts of BlocksCovered
AllCovered == \A i \in DOMAIN toPeer : toPeer[i].type = "merkleblock" => Covered(i)
WaitsForNext == current # NoBlock => missing # {} /\ \A t \in missing : Follows(t, 0)

\* BlocksCovered is the two conjuncts.
LEMMA BlocksCoveredParts ==
  /\ BlocksCovered <=> WaitsForNext /\ AllCovered
  /\ BlocksCovered' <=> WaitsForNext' /\ AllCovered'
BY DEF BlocksCovered, WaitsForNext, AllCovered, Covered

\* A block under way stays covered when messages are read before it or added after it.
LEMMA AllCoveredMoves ==
  ASSUME QueuesOK, QueuesOK', AllCovered, NEW r, NEW P, NEW s, NEW N, Moving(r, P, s, N),
         known \subseteq known', r = "inv" => toPeer[1].txs \subseteq known',
         \A i \in DOMAIN toPeer' : i + Goes(r) > Len(toPeer) /\ toPeer'[i].type = "merkleblock" => Covered(i)'
  PROVE  AllCovered'
<1>1. ASSUME NEW i \in DOMAIN toPeer', toPeer'[i].type = "merkleblock",
             i + Goes(r) \in DOMAIN toPeer, toPeer'[i] = toPeer[i + Goes(r)]
      PROVE  Covered(i)'
  <2> DEFINE j == i + Goes(r)
  <2>1. Goes(r) \in {0, 1} /\ i \in Nat /\ i >= 1 /\ j \in Nat /\ j - Goes(r) = i /\ j >= Goes(r)
    BY Places DEF QueuesOK
  <2>2. toPeer[j].block = toPeer'[i].block /\ Covered(j)
    BY <1>1 DEF AllCovered
  <2> HIDE DEF j
  <2>3. ASSUME NEW t \in TxsOf[toPeer'[i].block] PROVE t \in known' \/ InvBefore(t, i)' \/ Follows(t, i)'
    <3>1. CASE t \in known
      BY <3>1
    <3>2. CASE InvBefore(t, j)
      <4>1. (r = "inv" /\ t \in toPeer[1].txs) \/ InvBefore(t, j - Goes(r))'
        BY <2>1, <3>2, InvBeforeMoves
      <4>2. QED
        BY <2>1, <4>1
    <3>3. CASE Follows(t, j)
      <4>1. Follows(t, j - Goes(r))'
        BY <2>1, <3>3, FollowsMoves
      <4>2. QED
        BY <2>1, <4>1
    <3>4. QED
      BY <2>2, <2>3, <3>1, <3>2, <3>3 DEF Covered
  <2>4. QED
    BY <2>3 DEF Covered
<1>2. QED
  BY <1>1, Places DEF AllCovered

\* BlocksCovered stays if no block is sent, what is read becomes known, and nothing is read while a block waits.
LEMMA BlocksCoveredQuiet ==
  ASSUME QueuesOK, QueuesOK', BlocksCovered, NEW r, NEW P, NEW s, NEW N, Moving(r, P, s, N),
         known \subseteq known', r = "inv" => toPeer[1].txs \subseteq known', "merkleblock" \notin P,
         current' = current, missing' = missing, r = "none" \/ current = NoBlock
  PROVE  BlocksCovered'
<1>1. AllCovered'
  <2>1. ASSUME NEW i \in DOMAIN toPeer', i + Goes(r) > Len(toPeer), toPeer'[i].type = "merkleblock" PROVE FALSE
    BY <2>1, Newcomers
  <2>2. QED
    BY <2>1, AllCoveredMoves, BlocksCoveredParts
<1>2. ASSUME current # NoBlock, NEW t \in missing PROVE Follows(t, 0)'
  <2>0. r = "none"
    BY <1>2
  <2>1. Goes(r) = 0 /\ 0 - Goes(r) = 0 /\ 0 \in Nat
    BY <2>0 DEF Goes
  <2>2. Follows(t, 0)
    BY <1>2 DEF BlocksCovered
  <2>3. Follows(t, 0 - Goes(r))'
    BY <2>1, <2>2, FollowsMoves
  <2>4. QED
    BY <2>1, <2>3
<1>3. QED
  BY <1>1, <1>2, BlocksCoveredParts DEF WaitsForNext, BlocksCovered

\* BlocksCovered is kept by each step of an open connection.
LEMMA BlocksCoveredStep ==
  ASSUME TypeOK, TypeOK', Open, ToldIsKnown, BlocksCovered, OpenStep
  PROVE  BlocksCovered'
<1>1. ASSUME SendFilterload PROVE BlocksCovered'
  BY Queues, <1>1, ManagerMoves, BlocksCoveredQuiet DEF SendFilterload, nodeVars, outVars
<1>2. ASSUME NEW c \in PingCall, SendPing(c) PROVE BlocksCovered'
  BY Queues, <1>2, ManagerMoves, BlocksCoveredQuiet DEF SendPing, nodeVars
<1>3. ASSUME NEW c \in MempoolCall, NEW published \in SUBSET Own, SendMempool(c, published) PROVE BlocksCovered'
  BY Queues, <1>3, ManagerMoves, BlocksCoveredQuiet DEF SendMempool, nodeVars
<1>4. ASSUME NEW t \in Own, SendInv(t) PROVE BlocksCovered'
  BY Queues, <1>4, ManagerMoves, BlocksCoveredQuiet DEF SendInv, nodeVars, outVars
<1>5. ASSUME AcceptVersion PROVE BlocksCovered'
  BY Queues, <1>5, PeerMoves, BlocksCoveredQuiet DEF AcceptVersion, Receive, nodeVars
<1>6. ASSUME AcceptVerack PROVE BlocksCovered'
  BY Queues, <1>6, PeerMoves, BlocksCoveredQuiet DEF AcceptVerack, Receive, nodeVars
<1>7. ASSUME AcceptInv PROVE BlocksCovered'
  <2>1. Moving("inv", {}, "none", {"getdata", "ping"})
    BY <1>7, PeerMoves
  <2>2. known' = known \cup toPeer[1].txs /\ current' = current /\ missing' = missing /\ current = NoBlock
    BY <1>7, ReceiveMoves DEF AcceptInv, Asked, Receive
  <2>3. QED
    BY <2>1, <2>2, Queues, BlocksCoveredQuiet
<1>8. ASSUME AcceptTx PROVE BlocksCovered'
  <2>1. Moving("tx", {}, "none", {}) /\ toPeer[1] = Msg /\ toPeer[1] = TxMsg(Msg.tx)
    BY <1>8, PeerMoves, ReceiveMoves, MessagesToPeer DEF AcceptTx
  <2>2. known' = known /\ missing' = missing \ {Msg.tx}
    BY <1>8 DEF AcceptTx
  <2>3. AllCovered'
    <3>1. \A i \in DOMAIN toPeer' : i + Goes("tx") > Len(toPeer) => toPeer'[i].type \in {}
      BY <2>1, Queues, Newcomers
    <3>2. QED
      BY <2>1, <2>2, <3>1, Queues, AllCoveredMoves, BlocksCoveredParts
  <2>4. ASSUME current' # NoBlock PROVE current # NoBlock /\ missing' # {}
    BY <1>8, <2>4 DEF AcceptTx
  <2>5. ASSUME current # NoBlock, NEW t \in missing' PROVE Follows(t, 0)'
    <3>1. Follows(t, 0) /\ t # Msg.tx
      BY <2>2, <2>5 DEF BlocksCovered
    <3>2. PICK j \in DOMAIN toPeer : j > 0 /\ toPeer[j] = TxMsg(t) /\ \A k \in (0 + 1)..j : toPeer[k].type = "tx"
      BY <3>1 DEF Follows
    <3>3. j \in Nat /\ j > 1 /\ 1 \in Nat
      <4>1. toPeer[1] # TxMsg(t)
        BY <2>1, <3>1 DEF TxMsg
      <4>2. QED
        BY <3>2, <4>1, Queues DEF QueuesOK
    <3>4. Follows(t, 1)
      BY <3>2, <3>3 DEF Follows
    <3>5. Goes("tx") = 1 /\ 1 - Goes("tx") = 0
      BY DEF Goes
    <3>6. Follows(t, 1 - Goes("tx"))'
      BY <2>1, <3>3, <3>4, <3>5, Queues, FollowsMoves
    <3>7. QED
      BY <3>5, <3>6
  <2>6. WaitsForNext'
    BY <2>4, <2>5 DEF WaitsForNext
  <2>7. QED
    BY <2>3, <2>6, BlocksCoveredParts
<1>9. ASSUME AcceptMerkleblock PROVE BlocksCovered'
  <2>1. Moving("merkleblock", {}, "none", {}) /\ toPeer[1] = Msg /\ toPeer[1].type = "merkleblock" /\ Len(toPeer) > 0
    BY <1>9, PeerMoves, ReceiveMoves DEF AcceptMerkleblock
  <2>2. /\ known' = known /\ missing' = TxsOf[toPeer[1].block] \ known
        /\ current' # NoBlock => missing' # {}
    BY <1>9, <2>1 DEF AcceptMerkleblock, MissingOf, HandsOver, Receive
  <2>3. AllCovered'
    <3>1. \A i \in DOMAIN toPeer' : i + Goes("merkleblock") > Len(toPeer) => toPeer'[i].type \in {}
      BY <2>1, Queues, Newcomers
    <3>2. QED
      BY <2>1, <2>2, <3>1, Queues, AllCoveredMoves, BlocksCoveredParts
  <2>4. ASSUME NEW t \in missing' PROVE Follows(t, 0)'
    <3>1. 1 \in DOMAIN toPeer /\ 1 \in Nat
      BY <2>1, Queues DEF QueuesOK
    <3>2. ~InvBefore(t, 1)
      BY Queues DEF InvBefore, QueuesOK
    <3>3. Follows(t, 1)
      BY <2>1, <2>2, <2>4, <3>1, <3>2, BlocksCoveredParts DEF AllCovered, Covered
    <3>4. Goes("merkleblock") = 1 /\ 1 - Goes("merkleblock") = 0
      BY DEF Goes
    <3>5. Follows(t, 1 - Goes("merkleblock"))'
      BY <2>1, <3>1, <3>3, <3>4, Queues, FollowsMoves
    <3>6. QED
      BY <3>4, <3>5
  <2>5. WaitsForNext'
    BY <2>2, <2>4 DEF WaitsForNext
  <2>6. QED
    BY <2>3, <2>5, BlocksCoveredParts
<1>10. ASSUME AcceptGetdata PROVE BlocksCovered'
  BY Queues, <1>10, PeerMoves, BlocksCoveredQuiet DEF AcceptGetdata, Receive, nodeVars
<1>11. ASSUME AcceptPong PROVE BlocksCovered'
  BY Queues, <1>11, PeerMoves, BlocksCoveredQuiet DEF AcceptPong, Receive, nodeVars
<1>12. ASSUME AcceptNotfound PROVE BlocksCovered'
  BY Queues, <1>12, PeerMoves, BlocksCoveredQuiet DEF AcceptNotfound, Receive, nodeVars
<1>13. ASSUME MempoolTimeout PROVE BlocksCovered'
  BY Queues, <1>13, PeerMoves, BlocksCoveredQuiet DEF MempoolTimeout, nodeVars, outVars
<1>14. ASSUME Served("version"), ServeVersion PROVE BlocksCovered'
  BY Queues, <1>14, NodeMoves, BlocksCoveredQuiet DEF ServeVersion, NodeSends, peerVars, nodeVars, outVars
<1>15. ASSUME Served("verack"), ServeVerack PROVE BlocksCovered'
  BY Queues, <1>15, NodeMoves, BlocksCoveredQuiet DEF ServeVerack, NodeSends, peerVars, nodeVars, outVars
<1>16. ASSUME Served("ping"), ServePing(Head(toNode).call) PROVE BlocksCovered'
  BY Queues, <1>16, NodeMoves, BlocksCoveredQuiet DEF ServePing, NodeSends, peerVars, nodeVars, outVars
<1>17. ASSUME Served("filterload"), ServeFilterload(Head(toNode).number) PROVE BlocksCovered'
  BY Queues, <1>17, NodeMoves, BlocksCoveredQuiet DEF ServeFilterload, NodeSends, peerVars, outVars
<1>18. ASSUME Served("mempool"), ServeMempool(Head(toNode).call) PROVE BlocksCovered'
  BY Queues, <1>18, NodeMoves, BlocksCoveredQuiet DEF ServeMempool, NodeSends, peerVars, outVars
<1>19. ASSUME Served("inv"), ServeInv(Head(toNode).txs) PROVE BlocksCovered'
  BY Queues, <1>19, NodeMoves, BlocksCoveredQuiet DEF ServeInv, NodeSends, peerVars, outVars
<1>20. ASSUME Served("tx"), ServeTx(Head(toNode).tx) PROVE BlocksCovered'
  BY Queues, <1>20, NodeMoves, BlocksCoveredQuiet DEF ServeTx, NodeSends, peerVars, outVars
<1>21. ASSUME NEW all \in BOOLEAN, Served("getdata"), ServeGetdata(Head(toNode).txs, Head(toNode).block, all) PROVE BlocksCovered'
  <2> DEFINE b == Head(toNode).block
  <2>1. /\ Moving("none", {"tx", "notfound", "merkleblock"}, "getdata", {})
        /\ IF b = NoBlock THEN Moves(toPeer, toPeer', "none", {"tx", "notfound"})
           ELSE b \in Block /\ BlockComes(b, IF all THEN TxsOf[b] ELSE TxsOf[b] \ told)
    BY <1>21, DataMoves
  <2>2. known' = known /\ current' = current /\ missing' = missing
    BY <1>21 DEF ServeGetdata, NodeSends, peerVars
  <2> HIDE DEF b
  <2>3. ASSUME NEW i \in DOMAIN toPeer', i + Goes("none") > Len(toPeer), toPeer'[i].type = "merkleblock"
        PROVE  Covered(i)'
    <3>1. i > Len(toPeer) /\ i \in Nat /\ Len(toPeer) \in Nat
      BY <2>3, Queues DEF Goes, QueuesOK
    <3>2. b # NoBlock
      <4>1. ASSUME Moves(toPeer, toPeer', "none", {"tx", "notfound"}) PROVE FALSE
        <5>1. Moving("none", {"tx", "notfound"}, "getdata", {})
          BY <2>1, <4>1 DEF Moving
        <5>2. toPeer'[i].type \in {"tx", "notfound"}
          BY <2>3, <5>1, Queues, Newcomers
        <5>3. QED
          BY <2>3, <5>2
      <4>2. QED
        BY <2>1, <4>1
    <3>3. toPeer'[i].block = b /\ b \in Block /\ \A t \in (IF all THEN TxsOf[b] ELSE TxsOf[b] \ told) : Follows(t, i)'
      BY <2>1, <2>3, <3>1, <3>2 DEF BlockComes
    <3>4. ASSUME NEW t \in TxsOf[b] PROVE t \in known' \/ InvBefore(t, i)' \/ Follows(t, i)'
      <4>1. CASE t \notin told
        BY <3>3, <4>1
      <4>2. CASE t \in told
        <5>1. t \in known \/ Told(t)
          BY <3>3, <4>2, PeerAssumption DEF ToldIsKnown, Told
        <5>2. ASSUME Told(t) PROVE InvBefore(t, i)'
          <6>1. PICK j \in DOMAIN toPeer : toPeer[j].type = "inv" /\ t \in toPeer[j].txs
            BY <5>2, Queues, ToldEverywhere
          <6>2. j \in DOMAIN toPeer' /\ toPeer'[j] = toPeer[j] /\ j < i
            <7>1. Goes("none") = 0 /\ j - 0 = j /\ j \in Nat /\ j <= Len(toPeer)
              BY Queues DEF Goes, QueuesOK
            <7>2. j - Goes("none") \in DOMAIN toPeer' /\ toPeer'[j - Goes("none")] = toPeer[j]
              BY <2>1, <7>1, Queues, Places
            <7>3. QED
              BY <3>1, <7>1, <7>2
          <6>3. QED
            BY <6>1, <6>2 DEF InvBefore
        <5>3. QED
          BY <2>2, <5>1, <5>2
      <4>3. QED
        BY <4>1, <4>2
    <3>5. QED
      BY <3>3, <3>4 DEF Covered
  <2>4. AllCovered'
    BY <2>1, <2>2, <2>3, Queues, AllCoveredMoves, BlocksCoveredParts
  <2>5. ASSUME current # NoBlock, NEW t \in missing PROVE Follows(t, 0)'
    <3>1. Goes("none") = 0 /\ 0 - Goes("none") = 0 /\ 0 \in Nat
      BY DEF Goes
    <3>2. Follows(t, 0)
      BY <2>5 DEF BlocksCovered
    <3>3. Follows(t, 0 - Goes("none"))'
      BY <2>1, <3>1, <3>2, Queues, FollowsMoves
    <3>4. QED
      BY <3>1, <3>3
  <2>6. WaitsForNext'
    BY <2>2, <2>5, BlocksCoveredParts DEF WaitsForNext
  <2>7. QED
    BY <2>4, <2>6, BlocksCoveredParts
<1>22. ASSUME NEW b \in Block, Mine(b) PROVE BlocksCovered'
  BY Queues, <1>22, NodeMoves, BlocksCoveredQuiet DEF Mine, NodeSends, peerVars, outVars
<1>23. ASSUME NEW b \in Block, AnnounceBlock(b) PROVE BlocksCovered'
  BY Queues, <1>23, NodeMoves, BlocksCoveredQuiet DEF AnnounceBlock, NodeSends, peerVars, outVars
<1>24. ASSUME NEW t \in Tx, Announce(t) PROVE BlocksCovered'
  BY Queues, <1>24, NodeMoves, BlocksCoveredQuiet DEF Announce, NodeSends, peerVars, outVars
<1>25. QED
  BY <1>1, <1>2, <1>3, <1>4, <1>5, <1>6, <1>7, <1>8, <1>9, <1>10, <1>11, <1>12, <1>13, <1>14, <1>15, <1>16,
      <1>17, <1>18, <1>19, <1>20, <1>21, <1>22, <1>23, <1>24 DEF OpenStep

-----------------------------------------------------------------------------
(***************************************************************************)
(* The callbacks that wait.                                                *)
(***************************************************************************)

\* Whether a mempool request finds others pending or not, it changes these so.
LEMMA RequestedMempool ==
  ASSUME TypeOK, Open, NEW c \in MempoolCall, NEW published \in SUBSET Own, SendMempool(c, published)
  PROVE  /\ pongs' = pongs /\ listed' = listed /\ after' = after /\ loaded' = loaded /\ filters' = filters
         /\ known \subseteq known' /\ result[c] = "none" /\ result' = [result EXCEPT ![c] = result'[c]]
         /\ \/ mempool' = mempool /\ result'[c] = "failed"
            \/ mempool' = c /\ mempool = NoCall /\ result'[c] = "waiting"
BY DEF SendMempool, Registered, Open, TypeOK, Call, nodeVars

\* A pong is given to the callback at the head, and the others move up.
LEMMA AnsweredPong ==
  ASSUME TypeOK, TypeOK', AcceptPong
  PROVE  /\ 1 \in DOMAIN pongs /\ pongs[1] \in Call
         /\ result' = [result EXCEPT ![pongs[1]] = "ok"]
         /\ mempool' = mempool /\ known' = known /\ listed' = listed /\ after' = after
         /\ filters' = filters /\ loaded' = loaded
         /\ \A k \in DOMAIN pongs' : k + 1 \in DOMAIN pongs /\ pongs'[k] = pongs[k + 1]
         /\ \A k \in DOMAIN pongs : k > 1 => k - 1 \in DOMAIN pongs' /\ pongs'[k - 1] = pongs[k]
<1>1. pongs \in Seq(Call) /\ pongs # <<>> /\ pongs' = RemoveAt(pongs, 1)
  BY DEF TypeOK, AcceptPong, Answers
<1>2. 1 \in 1..Len(pongs) /\ Len(pongs) \in Nat
  BY <1>1
<1>3. /\ pongs' \in Seq(Call) /\ Len(pongs') = Len(pongs) - 1
      /\ \A k \in 1..(Len(pongs) - 1) : pongs'[k] = IF k < 1 THEN pongs[k] ELSE pongs[k + 1]
  BY <1>1, <1>2, RemoveAtElements
<1>4. DOMAIN pongs = 1..Len(pongs) /\ DOMAIN pongs' = 1..(Len(pongs) - 1)
  BY <1>1, <1>3
<1>5. ASSUME NEW k \in 1..(Len(pongs) - 1) PROVE k + 1 \in 1..Len(pongs) /\ pongs'[k] = pongs[k + 1]
  BY <1>2, <1>3
<1>6. ASSUME NEW k \in 1..Len(pongs), k > 1 PROVE k - 1 \in 1..(Len(pongs) - 1) /\ pongs'[k - 1] = pongs[k]
  <2>1. k - 1 \in 1..(Len(pongs) - 1) /\ (k - 1) + 1 = k
    BY <1>2, <1>6
  <2>2. QED
    BY <1>5, <2>1
<1>7. pongs[1] \in Call
  BY <1>1, <1>2
<1>8. /\ result' = [result EXCEPT ![pongs[1]] = "ok"]
      /\ mempool' = mempool /\ known' = known /\ listed' = listed /\ after' = after
      /\ filters' = filters /\ loaded' = loaded
  BY DEF AcceptPong, Answers, Receive, nodeVars
<1>9. QED
  BY <1>2, <1>4, <1>5, <1>6, <1>7, <1>8

\* What is registered stays registered.
LEMMA RegistrationsQuiet ==
  ASSUME QueuesOK, QueuesOK', Registrations, NEW r, NEW P, NEW s, NEW N, Moving(r, P, s, N),
         pongs' = pongs, result' = result, mempool' = mempool, "mempool" \notin N
  PROVE  Registrations'
<1>1. ASSUME NEW i \in DOMAIN toNode', toNode'[i].type = "mempool" PROVE result'[toNode'[i].call] # "none"
  BY <1>1, Places DEF Registrations
<1>2. QED
  BY <1>1 DEF Registrations

\* A callback that joins those that wait for a pong.
LEMMA RegistrationsJoin ==
  ASSUME QueuesOK, QueuesOK', Registrations, NEW r, NEW P, NEW s, NEW N, Moving(r, P, s, N),
         NEW c \in Call, pongs' = Append(pongs, c), "mempool" \notin N,
         result[c] = "none" \/ (c = mempool /\ mempool # NoCall),
         result'[c] = "waiting", \A d \in Call : d # c => result'[d] = result[d],
         c # mempool', mempool' = NoCall \/ (mempool' = mempool /\ mempool \in Call \cup {NoCall})
  PROVE  Registrations' /\ \A i \in DOMAIN pongs : pongs[i] # c
<1>1. \A i \in DOMAIN pongs : pongs[i] # c
  BY DEF Registrations
<1>2. ASSUME NEW i \in DOMAIN pongs' PROVE pongs'[i] = c \/ \E j \in DOMAIN pongs : pongs'[i] = pongs[j]
  BY AppendProperties DEF QueuesOK
<1>3. \A i \in DOMAIN pongs : pongs[i] \in Call
  BY DEF QueuesOK
<1>4. ASSUME NEW i \in DOMAIN pongs' PROVE result'[pongs'[i]] = "waiting" /\ (mempool' # NoCall => pongs'[i] # mempool')
  BY <1>1, <1>2, <1>3 DEF Registrations
<1>5. mempool' # NoCall => result'[mempool'] = "waiting"
  BY DEF Registrations
<1>6. ASSUME NEW i \in DOMAIN toNode', toNode'[i].type = "mempool" PROVE result'[toNode'[i].call] # "none"
  <2>1. i + Goes(s) \in DOMAIN toNode /\ toNode'[i] = toNode[i + Goes(s)]
    BY <1>6, Places
  <2>2. result[toNode'[i].call] # "none"
    BY <1>6, <2>1 DEF Registrations
  <2>3. toNode'[i].call \in Call
    BY <1>6, MessagesToNode DEF QueuesOK, Call
  <2>4. QED
    BY <2>2, <2>3
<1>7. QED
  BY <1>1, <1>4, <1>5, <1>6 DEF Registrations

\* Registrations is kept by each step of an open connection.
LEMMA RegistrationsStep ==
  ASSUME TypeOK, TypeOK', Open, Registrations, PongsInOrder, OpenStep
  PROVE  Registrations'
<1>t. /\ result \in [Call -> {"none", "waiting", "ok", "failed", "stranded"}]
      /\ mempool \in MempoolCall \cup {NoCall} /\ NoCall \notin Call /\ PingCall \subseteq Call /\ MempoolCall \subseteq Call
      /\ PingCall \cap MempoolCall = {}
  BY PeerAssumption DEF TypeOK, Call
<1>1. ASSUME SendFilterload PROVE Registrations'
  BY Queues, <1>1, ManagerMoves, RegistrationsQuiet DEF SendFilterload, nodeVars, outVars
<1>2. ASSUME NEW c \in PingCall, SendPing(c) PROVE Registrations'
  <2>1. Moving("none", {}, "none", {"ping"})
    BY <1>2, ManagerMoves
  <2>2. c \in Call /\ pongs' = Append(pongs, c) /\ result[c] = "none" /\ mempool' = mempool
        /\ result' = [result EXCEPT ![c] = "waiting"]
    BY <1>2, <1>t DEF SendPing, Registered, Open
  <2>3. result'[c] = "waiting" /\ \A d \in Call : d # c => result'[d] = result[d]
    BY <1>t, <2>2
  <2>4. c # mempool'
    BY <1>t, <2>2
  <2>5. QED
    BY <1>t, <2>1, <2>2, <2>3, <2>4, Queues, RegistrationsJoin
<1>3. ASSUME NEW c \in MempoolCall, NEW published \in SUBSET Own, SendMempool(c, published) PROVE Registrations'
  <2>1. /\ pongs' = pongs /\ result[c] = "none" /\ result' = [result EXCEPT ![c] = result'[c]]
        /\ \/ mempool' = mempool /\ result'[c] = "failed"
           \/ mempool' = c /\ mempool = NoCall /\ result'[c] = "waiting"
    BY <1>3, RequestedMempool
  <2>2. result'[c] # "none" /\ \A d \in Call : d # c => result'[d] = result[d]
    BY <1>t, <2>1
  <2>3. \A i \in DOMAIN pongs' : result'[pongs'[i]] = "waiting" /\ pongs'[i] # c
    BY <2>1, <2>2, Queues DEF Registrations, QueuesOK
  <2>4. mempool' # NoCall => result'[mempool'] = "waiting" /\ \A i \in DOMAIN pongs' : pongs'[i] # mempool'
    BY <1>t, <2>1, <2>2, <2>3 DEF Registrations
  <2>5. ASSUME NEW i \in DOMAIN toNode', toNode'[i].type = "mempool" PROVE result'[toNode'[i].call] # "none"
    <3>1. toNode'[i].call \in MempoolCall
      BY <2>5, Queues, MessagesToNode DEF QueuesOK
    <3>2. CASE toNode'[i].call = c
      BY <2>2, <3>2
    <3>3. CASE toNode'[i].call # c
      <4>1. toNode'[i] # Mempool(c)
        BY <3>3 DEF Mempool
      <4>2. \E j \in DOMAIN toNode : toNode'[i] = toNode[j]
        <5>1. CASE Moving("none", {}, "none", {})
          BY <5>1, Queues, Places
        <5>2. CASE Moving("none", {}, "none", {"mempool"}) /\ Gains(toNode, toNode', Mempool(c))
          <6>1. i # Len(toNode')
            BY <4>1, <5>2 DEF Gains
          <6>2. Mempool(c).type = "mempool"
            BY DEF Mempool
          <6>3. ~(i > Len(toNode))
            BY <2>5, <5>2, <6>1, <6>2, Queues DEF Gains, QueuesOK
          <6>4. QED
            BY <5>2, <6>3, Queues, Places DEF Goes, QueuesOK
        <5>3. QED
          BY <1>3, <5>1, <5>2, ManagerMoves
      <4>3. QED
        BY <1>t, <2>2, <2>5, <3>1, <3>3, <4>2 DEF Registrations
    <3>4. QED
      BY <3>2, <3>3
  <2>6. QED
    BY <2>3, <2>4, <2>5 DEF Registrations
<1>4. ASSUME NEW t \in Own, SendInv(t) PROVE Registrations'
  BY Queues, <1>4, ManagerMoves, RegistrationsQuiet DEF SendInv, nodeVars, outVars
<1>5. ASSUME AcceptVersion PROVE Registrations'
  BY Queues, <1>5, PeerMoves, RegistrationsQuiet DEF AcceptVersion, Receive, nodeVars
<1>6. ASSUME AcceptVerack PROVE Registrations'
  BY Queues, <1>6, PeerMoves, RegistrationsQuiet DEF AcceptVerack, Receive, nodeVars
<1>7. ASSUME AcceptInv PROVE Registrations'
  <2>1. Moving("inv", {}, "none", {"getdata", "ping"})
    BY <1>7, PeerMoves
  <2>2. CASE Msg.txs # {} /\ mempool # NoCall
    <3>1. pongs' = Append(pongs, mempool) /\ mempool' = NoCall /\ result' = result
      BY <1>7, <2>2 DEF AcceptInv
    <3>2. mempool \in Call /\ result[mempool] = "waiting"
      BY <1>t, <2>2 DEF Registrations
    <3>3. QED
      BY <2>1, <2>2, <3>1, <3>2, Queues, RegistrationsJoin
  <2>3. CASE ~(Msg.txs # {} /\ mempool # NoCall)
    <3>1. pongs' = pongs /\ mempool' = mempool /\ result' = result
      BY <1>7, <2>3 DEF AcceptInv
    <3>2. QED
      BY <2>1, <3>1, Queues, RegistrationsQuiet
  <2>4. QED
    BY <2>2, <2>3
<1>8. ASSUME AcceptTx PROVE Registrations'
  BY Queues, <1>8, PeerMoves, RegistrationsQuiet DEF AcceptTx, Receive, nodeVars
<1>9. ASSUME AcceptMerkleblock PROVE Registrations'
  BY Queues, <1>9, PeerMoves, RegistrationsQuiet DEF AcceptMerkleblock, Receive, nodeVars
<1>10. ASSUME AcceptGetdata PROVE Registrations'
  BY Queues, <1>10, PeerMoves, RegistrationsQuiet DEF AcceptGetdata, Receive, nodeVars
<1>11. ASSUME AcceptPong PROVE Registrations'
  <2>1. Moving("pong", {}, "none", {})
    BY <1>11, PeerMoves
  <2>2. /\ 1 \in DOMAIN pongs /\ pongs[1] \in Call /\ result' = [result EXCEPT ![pongs[1]] = "ok"] /\ mempool' = mempool
        /\ \A k \in DOMAIN pongs' : k + 1 \in DOMAIN pongs /\ pongs'[k] = pongs[k + 1]
    BY <1>11, AnsweredPong
  <2>3. \A d \in Call : d # pongs[1] => result'[d] = result[d]
    BY <1>t, <2>2
  <2>4. ASSUME NEW k \in DOMAIN pongs'
        PROVE  k + 1 \in DOMAIN pongs /\ pongs'[k] = pongs[k + 1] /\ pongs[k + 1] # pongs[1] /\ pongs[k + 1] \in Call
    <3>1. k + 1 \in DOMAIN pongs /\ pongs'[k] = pongs[k + 1] /\ k + 1 # 1
      BY <2>2, Queues DEF QueuesOK
    <3>2. pongs[k + 1] # pongs[1]
      BY <2>2, <3>1 DEF PongsInOrder
    <3>3. pongs[k + 1] \in Call
      BY <3>1, Queues DEF QueuesOK
    <3>4. QED
      BY <3>1, <3>2, <3>3
  <2>5. ASSUME NEW k \in DOMAIN pongs' PROVE result'[pongs'[k]] = "waiting"
    BY <2>3, <2>4 DEF Registrations
  <2>6. mempool' # NoCall => result'[mempool'] = "waiting" /\ \A k \in DOMAIN pongs' : pongs'[k] # mempool'
    BY <1>t, <2>2, <2>3, <2>4 DEF Registrations
  <2>7. ASSUME NEW i \in DOMAIN toNode', toNode'[i].type = "mempool" PROVE result'[toNode'[i].call] # "none"
    <3>1. \E j \in DOMAIN toNode : toNode'[i] = toNode[j]
      BY <2>1, Queues, Places
    <3>2. toNode'[i].call \in Call /\ result[toNode'[i].call] # "none"
      BY <1>t, <2>7, <3>1, Queues, MessagesToNode DEF Registrations, QueuesOK
    <3>3. QED
      BY <1>t, <2>2, <3>2
  <2>8. QED
    BY <2>5, <2>6, <2>7 DEF Registrations
<1>12. ASSUME AcceptNotfound PROVE Registrations'
  BY Queues, <1>12, PeerMoves, RegistrationsQuiet DEF AcceptNotfound, Receive, nodeVars
<1>13. ASSUME MempoolTimeout PROVE Registrations'
  <2>1. Moving("none", {}, "none", {"ping"})
    BY <1>13, PeerMoves
  <2>2. pongs' = Append(pongs, mempool) /\ mempool' = NoCall /\ result' = result /\ mempool # NoCall
    BY <1>13 DEF MempoolTimeout, MempoolDue, outVars
  <2>3. mempool \in Call /\ result[mempool] = "waiting"
    BY <1>t, <2>2 DEF Registrations
  <2>4. QED
    BY <2>1, <2>2, <2>3, Queues, RegistrationsJoin
<1>14. ASSUME Served("version"), ServeVersion PROVE Registrations'
  BY Queues, <1>14, NodeMoves, RegistrationsQuiet DEF ServeVersion, NodeSends, peerVars, nodeVars, outVars
<1>15. ASSUME Served("verack"), ServeVerack PROVE Registrations'
  BY Queues, <1>15, NodeMoves, RegistrationsQuiet DEF ServeVerack, NodeSends, peerVars, nodeVars, outVars
<1>16. ASSUME Served("ping"), ServePing(Head(toNode).call) PROVE Registrations'
  BY Queues, <1>16, NodeMoves, RegistrationsQuiet DEF ServePing, NodeSends, peerVars, nodeVars, outVars
<1>17. ASSUME Served("filterload"), ServeFilterload(Head(toNode).number) PROVE Registrations'
  BY Queues, <1>17, NodeMoves, RegistrationsQuiet DEF ServeFilterload, NodeSends, peerVars, outVars
<1>18. ASSUME Served("mempool"), ServeMempool(Head(toNode).call) PROVE Registrations'
  BY Queues, <1>18, NodeMoves, RegistrationsQuiet DEF ServeMempool, NodeSends, peerVars, outVars
<1>19. ASSUME Served("inv"), ServeInv(Head(toNode).txs) PROVE Registrations'
  BY Queues, <1>19, NodeMoves, RegistrationsQuiet DEF ServeInv, NodeSends, peerVars, outVars
<1>20. ASSUME Served("tx"), ServeTx(Head(toNode).tx) PROVE Registrations'
  BY Queues, <1>20, NodeMoves, RegistrationsQuiet DEF ServeTx, NodeSends, peerVars, outVars
<1>21. ASSUME NEW all \in BOOLEAN, Served("getdata"), ServeGetdata(Head(toNode).txs, Head(toNode).block, all) PROVE Registrations'
  BY Queues, <1>21, DataMoves, RegistrationsQuiet DEF ServeGetdata, NodeSends, peerVars, nodeVars, outVars
<1>22. ASSUME NEW b \in Block, Mine(b) PROVE Registrations'
  BY Queues, <1>22, NodeMoves, RegistrationsQuiet DEF Mine, NodeSends, peerVars, outVars
<1>23. ASSUME NEW b \in Block, AnnounceBlock(b) PROVE Registrations'
  BY Queues, <1>23, NodeMoves, RegistrationsQuiet DEF AnnounceBlock, NodeSends, peerVars, outVars
<1>24. ASSUME NEW t \in Tx, Announce(t) PROVE Registrations'
  BY Queues, <1>24, NodeMoves, RegistrationsQuiet DEF Announce, NodeSends, peerVars, outVars
<1>25. QED
  BY <1>1, <1>2, <1>3, <1>4, <1>5, <1>6, <1>7, <1>8, <1>9, <1>10, <1>11, <1>12, <1>13, <1>14, <1>15, <1>16,
      <1>17, <1>18, <1>19, <1>20, <1>21, <1>22, <1>23, <1>24 DEF OpenStep

\* the conjuncts of PongsInOrder
AwaitedOnce == \A i, j \in DOMAIN pongs : i # j => pongs[i] # pongs[j]
AwaitedComes ==
  \A i \in DOMAIN pongs : \/ \E j \in DOMAIN toPeer : toPeer[j] = Pong(pongs[i])
                          \/ \E j \in DOMAIN toNode : toNode[j] = Ping(pongs[i])
PongsAwaited == \A i \in DOMAIN toPeer : toPeer[i].type = "pong" => \E k \in DOMAIN pongs : pongs[k] = toPeer[i].call
PingsAwaited == \A i \in DOMAIN toNode : toNode[i].type = "ping" => \E k \in DOMAIN pongs : pongs[k] = toNode[i].call
PongsOrdered ==
  \A i, j \in DOMAIN toPeer : i < j /\ Is(toPeer, i, "pong") /\ Is(toPeer, j, "pong") => Earlier(toPeer[i], toPeer[j])
PingsOrdered ==
  \A i, j \in DOMAIN toNode : i < j /\ Is(toNode, i, "ping") /\ Is(toNode, j, "ping") => Earlier(toNode[i], toNode[j])
PongsFirst ==
  \A i \in DOMAIN toPeer, j \in DOMAIN toNode :
    Is(toPeer, i, "pong") /\ Is(toNode, j, "ping") => Earlier(toPeer[i], toNode[j])

\* PongsInOrder is its conjuncts.
LEMMA PongsInOrderParts ==
  /\ PongsInOrder <=> /\ AwaitedOnce /\ AwaitedComes /\ PongsAwaited /\ PingsAwaited
                      /\ PongsOrdered /\ PingsOrdered /\ PongsFirst
  /\ PongsInOrder' <=> /\ AwaitedOnce' /\ AwaitedComes' /\ PongsAwaited' /\ PingsAwaited'
                       /\ PongsOrdered' /\ PingsOrdered' /\ PongsFirst'
BY DEF PongsInOrder, AwaitedOnce, AwaitedComes, PongsAwaited, PingsAwaited, PongsOrdered, PingsOrdered, PongsFirst

\* Where the pings and pongs come from and go to if none is read or added.
LEMMA PingsMove ==
  ASSUME QueuesOK, QueuesOK', NEW r, NEW P, NEW s, NEW N, Moving(r, P, s, N),
         NEW type, type # "none"
  PROVE  /\ type \notin P => \A i \in DOMAIN toPeer' : toPeer'[i].type = type =>
              i + Goes(r) \in DOMAIN toPeer /\ toPeer'[i] = toPeer[i + Goes(r)]
         /\ type # r => \A i \in DOMAIN toPeer : toPeer[i].type = type =>
              i - Goes(r) \in DOMAIN toPeer' /\ toPeer'[i - Goes(r)] = toPeer[i]
         /\ type \notin N => \A i \in DOMAIN toNode' : toNode'[i].type = type =>
              i + Goes(s) \in DOMAIN toNode /\ toNode'[i] = toNode[i + Goes(s)]
         /\ type # s => \A i \in DOMAIN toNode : toNode[i].type = type =>
              i - Goes(s) \in DOMAIN toNode' /\ toNode'[i - Goes(s)] = toNode[i]
<1>1. ASSUME type \notin P, NEW i \in DOMAIN toPeer', toPeer'[i].type = type
      PROVE  i + Goes(r) \in DOMAIN toPeer /\ toPeer'[i] = toPeer[i + Goes(r)]
  BY <1>1, Places
<1>2. ASSUME type # r, NEW i \in DOMAIN toPeer, toPeer[i].type = type
      PROVE  i - Goes(r) \in DOMAIN toPeer' /\ toPeer'[i - Goes(r)] = toPeer[i]
  BY <1>2, Places
<1>3. ASSUME type \notin N, NEW i \in DOMAIN toNode', toNode'[i].type = type
      PROVE  i + Goes(s) \in DOMAIN toNode /\ toNode'[i] = toNode[i + Goes(s)]
  BY <1>3, Places
<1>4. ASSUME type # s, NEW i \in DOMAIN toNode, toNode[i].type = type
      PROVE  i - Goes(s) \in DOMAIN toNode' /\ toNode'[i - Goes(s)] = toNode[i]
  BY <1>4, Places
<1>5. QED
  BY <1>1, <1>2, <1>3, <1>4

\* PongsInOrder stays if no callback, ping or pong comes or goes.
LEMMA PongsInOrderQuiet ==
  ASSUME QueuesOK, QueuesOK', PongsInOrder, NEW r, NEW P, NEW s, NEW N, Moving(r, P, s, N),
         r # "pong", "pong" \notin P, s # "ping", "ping" \notin N, pongs' = pongs
  PROVE  PongsInOrder'
<1>1. /\ \A i \in DOMAIN toPeer' : toPeer'[i].type = "pong" => i + Goes(r) \in DOMAIN toPeer /\ toPeer'[i] = toPeer[i + Goes(r)]
      /\ \A i \in DOMAIN toPeer : toPeer[i].type = "pong" => i - Goes(r) \in DOMAIN toPeer' /\ toPeer'[i - Goes(r)] = toPeer[i]
      /\ \A i \in DOMAIN toNode' : toNode'[i].type = "ping" => i + Goes(s) \in DOMAIN toNode /\ toNode'[i] = toNode[i + Goes(s)]
      /\ \A i \in DOMAIN toNode : toNode[i].type = "ping" => i - Goes(s) \in DOMAIN toNode' /\ toNode'[i - Goes(s)] = toNode[i]
  BY PingsMove
<1>2. AwaitedOnce' /\ PongsAwaited' /\ PingsAwaited'
  BY <1>1, PongsInOrderParts DEF AwaitedOnce, PongsAwaited, PingsAwaited
<1>3. AwaitedComes'
  BY <1>1, PongsInOrderParts DEF AwaitedComes, Pong, Ping
<1>4. Goes(r) \in Nat /\ Goes(s) \in Nat /\ \A p, q : Earlier(p, q) => Earlier(p, q)'
  BY Places DEF Earlier
<1>5. PongsOrdered'
  <2> SUFFICES ASSUME NEW i \in DOMAIN toPeer', NEW j \in DOMAIN toPeer', i < j,
                      toPeer'[i].type = "pong", toPeer'[j].type = "pong"
               PROVE  Earlier(toPeer[i], toPeer[j])'
    BY DEF PongsOrdered, Is
  <2>1. i + Goes(r) < j + Goes(r)
    BY <1>4 DEF QueuesOK
  <2>2. Earlier(toPeer[i + Goes(r)], toPeer[j + Goes(r)])
    BY <1>1, <2>1, PongsInOrderParts DEF PongsOrdered, Is
  <2>3. QED
    BY <1>1, <2>2 DEF Earlier
<1>6. PingsOrdered'
  <2> SUFFICES ASSUME NEW i \in DOMAIN toNode', NEW j \in DOMAIN toNode', i < j,
                      toNode'[i].type = "ping", toNode'[j].type = "ping"
               PROVE  Earlier(toNode[i], toNode[j])'
    BY DEF PingsOrdered, Is
  <2>1. i + Goes(s) < j + Goes(s)
    BY <1>4 DEF QueuesOK
  <2>2. Earlier(toNode[i + Goes(s)], toNode[j + Goes(s)])
    BY <1>1, <2>1, PongsInOrderParts DEF PingsOrdered, Is
  <2>3. QED
    BY <1>1, <2>2 DEF Earlier
<1>7. PongsFirst'
  <2> SUFFICES ASSUME NEW i \in DOMAIN toPeer', NEW j \in DOMAIN toNode',
                      toPeer'[i].type = "pong", toNode'[j].type = "ping"
               PROVE  Earlier(toPeer[i], toNode[j])'
    BY DEF PongsFirst, Is
  <2>1. Earlier(toPeer[i + Goes(r)], toNode[j + Goes(s)])
    BY <1>1, PongsInOrderParts DEF PongsFirst, Is
  <2>2. QED
    BY <1>1, <2>1 DEF Earlier
<1>8. QED
  BY <1>2, <1>3, <1>5, <1>6, <1>7, PongsInOrderParts

\* A callback and its ping join at the ends.
LEMMA PongsInOrderJoin ==
  ASSUME QueuesOK, QueuesOK', PongsInOrder, NEW r, NEW P, NEW N, Moving(r, P, "none", N),
         r # "pong", "pong" \notin P, NEW c \in Call, pongs' = Append(pongs, c),
         \A i \in DOMAIN pongs : pongs[i] # c, Gains(toNode, toNode', Ping(c))
  PROVE  PongsInOrder'
<1> DEFINE m == Len(toNode')
<1>1. /\ \A i \in DOMAIN toPeer' : toPeer'[i].type = "pong" => i + Goes(r) \in DOMAIN toPeer /\ toPeer'[i] = toPeer[i + Goes(r)]
      /\ \A i \in DOMAIN toPeer : toPeer[i].type = "pong" => i - Goes(r) \in DOMAIN toPeer' /\ toPeer'[i - Goes(r)] = toPeer[i]
  BY PingsMove
<1>2. \A i \in DOMAIN toNode : i \in DOMAIN toNode' /\ toNode'[i] = toNode[i] /\ i < m
  BY Places DEF Goes, Gains, QueuesOK
<1>3. m \in DOMAIN toNode' /\ toNode'[m] = Ping(c) /\ Ping(c).type = "ping" /\ Ping(c).call = c
  BY DEF Gains, QueuesOK, Ping
<1>4. ASSUME NEW i \in DOMAIN toNode', toNode'[i].type = "ping", i # m
      PROVE  i \in DOMAIN toNode /\ toNode'[i] = toNode[i] /\ toNode'[i].call # c
  <2>1. ~(i > Len(toNode))
    BY <1>3, <1>4 DEF Gains, QueuesOK
  <2>2. i \in DOMAIN toNode
    BY <2>1 DEF QueuesOK
  <2>3. toNode'[i] = toNode[i]
    BY <1>2, <2>2
  <2>4. QED
    BY <1>4, <2>2, <2>3, PongsInOrderParts DEF PingsAwaited
<1>5. ASSUME NEW i \in DOMAIN toPeer', toPeer'[i].type = "pong"
      PROVE  toPeer'[i].call # c /\ \E k \in DOMAIN pongs : pongs[k] = toPeer'[i].call
  BY <1>1, <1>5, PongsInOrderParts DEF PongsAwaited
<1>6. /\ \A i \in DOMAIN pongs : i \in DOMAIN pongs' /\ pongs'[i] = pongs[i]
      /\ Len(pongs) + 1 \in DOMAIN pongs' /\ pongs'[Len(pongs) + 1] = c
      /\ \A i \in DOMAIN pongs' : \/ i \in DOMAIN pongs /\ pongs'[i] = pongs[i] /\ pongs[i] # c /\ i <= Len(pongs)
                                  \/ i = Len(pongs) + 1 /\ pongs'[i] = c
  BY AppendProperties DEF QueuesOK
<1> HIDE DEF m
<1>7. /\ \A p, q : p.call # c /\ q.call # c /\ Earlier(p, q) => Earlier(p, q)'
      /\ \A p, q : p.call # c /\ q.call = c => Earlier(p, q)'
  <2>1. ASSUME NEW p, NEW q, p.call # c, q.call # c, Earlier(p, q),
               NEW i \in DOMAIN pongs', NEW j \in DOMAIN pongs', p.call = pongs'[i], q.call = pongs'[j]
        PROVE  i < j
    BY <1>6, <2>1 DEF Earlier
  <2>2. ASSUME NEW p, NEW q, p.call # c, q.call = c,
               NEW i \in DOMAIN pongs', NEW j \in DOMAIN pongs', p.call = pongs'[i], q.call = pongs'[j]
        PROVE  i < j
    BY <1>6, <2>2 DEF QueuesOK
  <2>3. QED
    BY <2>1, <2>2 DEF Earlier
<1>8. AwaitedOnce'
  BY <1>6, PongsInOrderParts DEF AwaitedOnce
<1>9. AwaitedComes'
  <2>1. ASSUME NEW i \in DOMAIN pongs
        PROVE  \/ \E j \in DOMAIN toPeer' : toPeer'[j] = Pong(pongs[i])
               \/ \E j \in DOMAIN toNode' : toNode'[j] = Ping(pongs[i])
    <3>1. CASE \E j \in DOMAIN toPeer : toPeer[j] = Pong(pongs[i])
      BY <1>1, <3>1 DEF Pong
    <3>2. CASE \E j \in DOMAIN toNode : toNode[j] = Ping(pongs[i])
      BY <1>2, <3>2
    <3>3. QED
      BY <3>1, <3>2, PongsInOrderParts DEF AwaitedComes
  <2>2. QED
    BY <1>3, <1>6, <2>1 DEF AwaitedComes
<1>10. PongsAwaited' /\ PingsAwaited'
  <2>1. PongsAwaited'
    BY <1>5, <1>6 DEF PongsAwaited
  <2>2. PingsAwaited'
    BY <1>3, <1>4, <1>6, PongsInOrderParts DEF PingsAwaited
  <2>3. QED
    BY <2>1, <2>2
<1>11. PongsOrdered'
  <2> SUFFICES ASSUME NEW i \in DOMAIN toPeer', NEW j \in DOMAIN toPeer', i < j,
                      toPeer'[i].type = "pong", toPeer'[j].type = "pong"
               PROVE  Earlier(toPeer[i], toPeer[j])'
    BY DEF PongsOrdered, Is
  <2>1. i + Goes(r) < j + Goes(r)
    <3>1. Goes(r) \in Nat
      BY Places
    <3>2. QED
      BY <3>1 DEF QueuesOK
  <2>2. Earlier(toPeer[i + Goes(r)], toPeer[j + Goes(r)])
    BY <1>1, <2>1, PongsInOrderParts DEF PongsOrdered, Is
  <2>3. QED
    BY <1>1, <1>5, <1>7, <2>2
<1>12. PingsOrdered'
  <2> SUFFICES ASSUME NEW i \in DOMAIN toNode', NEW j \in DOMAIN toNode', i < j,
                      toNode'[i].type = "ping", toNode'[j].type = "ping"
               PROVE  Earlier(toNode[i], toNode[j])'
    BY DEF PingsOrdered, Is
  <2>1. i # m /\ i \in DOMAIN toNode
    BY <1>2, <1>4 DEF QueuesOK, m
  <2>2. CASE j = m
    BY <1>3, <1>4, <1>7, <2>1, <2>2
  <2>3. CASE j # m
    BY <1>4, <1>7, <2>1, <2>3, PongsInOrderParts DEF PingsOrdered, Is
  <2>4. QED
    BY <2>2, <2>3
<1>13. PongsFirst'
  <2> SUFFICES ASSUME NEW i \in DOMAIN toPeer', NEW j \in DOMAIN toNode',
                      toPeer'[i].type = "pong", toNode'[j].type = "ping"
               PROVE  Earlier(toPeer[i], toNode[j])'
    BY DEF PongsFirst, Is
  <2>1. CASE j = m
    BY <1>3, <1>5, <1>7, <2>1
  <2>2. CASE j # m
    <3>1. Earlier(toPeer[i + Goes(r)], toNode[j])
      BY <1>1, <1>4, <2>2, PongsInOrderParts DEF PongsFirst, Is
    <3>2. QED
      BY <1>1, <1>4, <1>5, <1>7, <2>2, <3>1
  <2>3. QED
    BY <2>1, <2>2
<1>14. QED
  BY <1>8, <1>9, <1>10, <1>11, <1>12, <1>13, PongsInOrderParts

\* The node answers the ping at the head.
LEMMA PongsInOrderServed ==
  ASSUME QueuesOK, QueuesOK', PongsInOrder, Moving("none", {"pong"}, "ping", {}), pongs' = pongs,
         Gains(toPeer, toPeer', Pong(toNode[1].call)), toNode[1].type = "ping", Len(toNode) > 0,
         toNode[1] = Ping(toNode[1].call)
  PROVE  PongsInOrder'
<1> DEFINE m == Len(toPeer')
           c == toNode[1].call
<1>1. /\ \A i \in DOMAIN toNode' : i + 1 \in DOMAIN toNode /\ toNode'[i] = toNode[i + 1]
      /\ \A i \in DOMAIN toNode : i = 1 \/ (i - 1 \in DOMAIN toNode' /\ toNode'[i - 1] = toNode[i])
  BY Places DEF Goes
<1>2. \A i \in DOMAIN toPeer : i \in DOMAIN toPeer' /\ toPeer'[i] = toPeer[i] /\ i < m
  BY Places DEF Goes, Gains, QueuesOK
<1>3. m \in DOMAIN toPeer' /\ toPeer'[m] = Pong(c) /\ Pong(c).type = "pong" /\ Pong(c).call = c
  BY DEF Gains, QueuesOK, Pong
<1>4. ASSUME NEW i \in DOMAIN toPeer', toPeer'[i].type = "pong", i # m
      PROVE  i \in DOMAIN toPeer /\ toPeer'[i] = toPeer[i]
  <2>1. ~(i > Len(toPeer))
    BY <1>3, <1>4 DEF Gains, QueuesOK
  <2>2. i \in DOMAIN toPeer
    BY <2>1 DEF QueuesOK
  <2>3. QED
    BY <1>2, <2>2
<1>5. 1 \in DOMAIN toNode
  BY DEF QueuesOK
<1> HIDE DEF m, c
<1>6. \A p, q : Earlier(p, q) => Earlier(p, q)'
  BY DEF Earlier
<1>7. \A p, q, n : Earlier(p, q) /\ p.call = n.call => Earlier(n, q)
  BY DEF Earlier
<1>8. \A p, q, n : Earlier(p, q) /\ q.call = n.call => Earlier(p, n)
  BY DEF Earlier
<1>9. AwaitedOnce' /\ PongsAwaited' /\ PingsAwaited'
  <2>1. AwaitedOnce'
    BY PongsInOrderParts DEF AwaitedOnce
  <2>2. \E k \in DOMAIN pongs : pongs[k] = c
    BY <1>5, PongsInOrderParts DEF PingsAwaited, c
  <2>3. PongsAwaited'
    BY <1>3, <1>4, <2>2, PongsInOrderParts DEF PongsAwaited
  <2>4. PingsAwaited'
    BY <1>1, PongsInOrderParts DEF PingsAwaited
  <2>5. QED
    BY <2>1, <2>3, <2>4
<1>10. AwaitedComes'
  <2>1. ASSUME NEW i \in DOMAIN pongs
        PROVE  \/ \E j \in DOMAIN toPeer' : toPeer'[j] = Pong(pongs[i])
               \/ \E j \in DOMAIN toNode' : toNode'[j] = Ping(pongs[i])
    <3>1. CASE \E j \in DOMAIN toPeer : toPeer[j] = Pong(pongs[i])
      BY <1>2, <3>1
    <3>2. ASSUME NEW j \in DOMAIN toNode, toNode[j] = Ping(pongs[i])
          PROVE  \/ \E k \in DOMAIN toPeer' : toPeer'[k] = Pong(pongs[i])
                 \/ \E k \in DOMAIN toNode' : toNode'[k] = Ping(pongs[i])
      <4>1. CASE j = 1
        <5>1. pongs[i] = c
          BY <3>2, <4>1 DEF Ping, c
        <5>2. QED
          BY <1>3, <5>1
      <4>2. CASE j # 1
        BY <1>1, <3>2, <4>2
      <4>3. QED
        BY <4>1, <4>2
    <3>3. QED
      BY <3>1, <3>2, PongsInOrderParts DEF AwaitedComes
  <2>2. QED
    BY <2>1 DEF AwaitedComes
<1>11. PongsOrdered'
  <2> SUFFICES ASSUME NEW i \in DOMAIN toPeer', NEW j \in DOMAIN toPeer', i < j,
                      toPeer'[i].type = "pong", toPeer'[j].type = "pong"
               PROVE  Earlier(toPeer[i], toPeer[j])'
    BY DEF PongsOrdered, Is
  <2>1. i # m
    BY DEF QueuesOK, m
  <2>2. CASE j = m
    <3>1. Earlier(toPeer[i], toNode[1])
      BY <1>4, <1>5, <2>1, PongsInOrderParts DEF PongsFirst, Is
    <3>2. Earlier(toPeer'[i], toPeer'[j])
      BY <1>3, <1>4, <1>8, <2>1, <2>2, <3>1 DEF c
    <3>3. QED
      BY <3>2 DEF Earlier
  <2>3. CASE j # m
    <3>1. Earlier(toPeer'[i], toPeer'[j])
      BY <1>4, <2>1, <2>3, PongsInOrderParts DEF PongsOrdered, Is
    <3>2. QED
      BY <3>1 DEF Earlier
  <2>4. QED
    BY <2>2, <2>3
<1>12. PingsOrdered'
  <2> SUFFICES ASSUME NEW i \in DOMAIN toNode', NEW j \in DOMAIN toNode', i < j,
                      toNode'[i].type = "ping", toNode'[j].type = "ping"
               PROVE  Earlier(toNode[i], toNode[j])'
    BY DEF PingsOrdered, Is
  <2>1. i + 1 < j + 1
    BY DEF QueuesOK
  <2>2. Earlier(toNode'[i], toNode'[j])
    BY <1>1, <2>1, PongsInOrderParts DEF PingsOrdered, Is
  <2>3. QED
    BY <2>2 DEF Earlier
<1>13. PongsFirst'
  <2> SUFFICES ASSUME NEW i \in DOMAIN toPeer', NEW j \in DOMAIN toNode',
                      toPeer'[i].type = "pong", toNode'[j].type = "ping"
               PROVE  Earlier(toPeer[i], toNode[j])'
    BY DEF PongsFirst, Is
  <2>1. CASE i = m
    <3>1. 1 < j + 1
      BY DEF QueuesOK
    <3>2. Earlier(toNode[1], toNode'[j])
      BY <1>1, <1>5, <3>1, PongsInOrderParts DEF PingsOrdered, Is
    <3>3. Earlier(toPeer'[i], toNode'[j])
      BY <1>3, <1>7, <2>1, <3>2 DEF c
    <3>4. QED
      BY <3>3 DEF Earlier
  <2>2. CASE i # m
    <3>1. Earlier(toPeer'[i], toNode'[j])
      BY <1>1, <1>4, <2>2, PongsInOrderParts DEF PongsFirst, Is
    <3>2. QED
      BY <3>1 DEF Earlier
  <2>3. QED
    BY <2>1, <2>2
<1>14. QED
  BY <1>9, <1>10, <1>11, <1>12, <1>13, PongsInOrderParts

\* The peer reads a pong: it is for the callback at the head.
LEMMA PongsInOrderAnswered ==
  ASSUME TypeOK, TypeOK', PongsInOrder, Moving("pong", {}, "none", {}), AcceptPong
  PROVE  PongsInOrder' /\ 1 \in DOMAIN toPeer /\ toPeer[1].type = "pong" /\ toPeer[1].call = pongs[1]
<1>0. QueuesOK /\ QueuesOK'
  BY Queues
<1>1. /\ 1 \in DOMAIN pongs
      /\ \A k \in DOMAIN pongs' : k + 1 \in DOMAIN pongs /\ pongs'[k] = pongs[k + 1]
      /\ \A k \in DOMAIN pongs : k > 1 => k - 1 \in DOMAIN pongs' /\ pongs'[k - 1] = pongs[k]
  BY AnsweredPong
<1>2. /\ \A i \in DOMAIN toPeer' : i + 1 \in DOMAIN toPeer /\ toPeer'[i] = toPeer[i + 1]
      /\ \A i \in DOMAIN toPeer : i = 1 \/ (i - 1 \in DOMAIN toPeer' /\ toPeer'[i - 1] = toPeer[i])
      /\ \A i \in DOMAIN toNode' : i \in DOMAIN toNode /\ toNode'[i] = toNode[i]
      /\ \A i \in DOMAIN toNode : i \in DOMAIN toNode' /\ toNode'[i] = toNode[i]
  <2>1. \A i \in DOMAIN toPeer' : i + 1 \in DOMAIN toPeer /\ toPeer'[i] = toPeer[i + 1]
    BY <1>0, Places DEF Goes
  <2>2. \A i \in DOMAIN toPeer : i = 1 \/ (i - 1 \in DOMAIN toPeer' /\ toPeer'[i - 1] = toPeer[i])
    BY <1>0, Places DEF Goes
  <2>3. \A i \in DOMAIN toNode' : i \in DOMAIN toNode /\ toNode'[i] = toNode[i]
    BY <1>0, Places DEF Goes, QueuesOK
  <2>4. \A i \in DOMAIN toNode : i \in DOMAIN toNode' /\ toNode'[i] = toNode[i]
    BY <1>0, Places DEF Goes, QueuesOK
  <2>5. QED
    BY <2>1, <2>2, <2>3, <2>4
<1>3. 1 \in DOMAIN toPeer /\ toPeer[1].type = "pong"
  BY <1>0 DEF Moving, Moves, QueuesOK
<1>4. PICK h \in DOMAIN pongs : pongs[h] = toPeer[1].call
  BY <1>3, PongsInOrderParts DEF PongsAwaited
<1>5. /\ \A j \in DOMAIN toPeer : j > 1 /\ toPeer[j].type = "pong" => Earlier(toPeer[1], toPeer[j])
      /\ \A j \in DOMAIN toNode : toNode[j].type = "ping" => Earlier(toPeer[1], toNode[j])
  BY <1>3, PongsInOrderParts DEF PongsOrdered, PongsFirst, Is
<1>6. h = 1
  <2>0. h \in Nat /\ h >= 1
    BY <1>0 DEF QueuesOK
  <2>1. ASSUME NEW j \in DOMAIN toPeer, toPeer[j] = Pong(pongs[1]) PROVE h = 1
    <3>1. CASE j = 1
      BY <1>1, <1>4, <2>1, <3>1, PongsInOrderParts DEF AwaitedOnce, Pong
    <3>2. CASE j > 1
      BY <1>1, <1>4, <1>5, <2>0, <2>1, <3>2 DEF Pong, Earlier
    <3>3. QED
      BY <1>0, <3>1, <3>2 DEF QueuesOK
  <2>2. ASSUME NEW j \in DOMAIN toNode, toNode[j] = Ping(pongs[1]) PROVE h = 1
    BY <1>1, <1>4, <1>5, <2>0, <2>2 DEF Ping, Earlier
  <2>3. QED
    BY <1>1, <2>1, <2>2, PongsInOrderParts DEF AwaitedComes
<1>7. toPeer[1].call = pongs[1]
  BY <1>4, <1>6
<1>8. \A p, q : Earlier(p, q) => Earlier(p, q)'
  <2>1. \A i, j \in DOMAIN pongs' : i \in Nat /\ j \in Nat /\ (i + 1 < j + 1 => i < j)
    BY <1>0 DEF QueuesOK
  <2>2. QED
    BY <1>1, <2>1 DEF Earlier
<1>9. AwaitedOnce'
  <2>1. \A i, j \in DOMAIN pongs' : i # j => i + 1 # j + 1
    BY <1>0 DEF QueuesOK
  <2>2. QED
    BY <1>1, <2>1, PongsInOrderParts DEF AwaitedOnce
<1>10. AwaitedComes'
  <2> SUFFICES ASSUME NEW i \in DOMAIN pongs'
               PROVE  \/ \E j \in DOMAIN toPeer' : toPeer'[j] = Pong(pongs'[i])
                      \/ \E j \in DOMAIN toNode' : toNode'[j] = Ping(pongs'[i])
    BY DEF AwaitedComes
  <2>1. i + 1 \in DOMAIN pongs /\ pongs'[i] = pongs[i + 1] /\ i + 1 # 1
    BY <1>0, <1>1 DEF QueuesOK
  <2>2. pongs[i + 1] # pongs[1]
    BY <1>1, <2>1, PongsInOrderParts DEF AwaitedOnce
  <2>3. CASE \E j \in DOMAIN toNode : toNode[j] = Ping(pongs[i + 1])
    BY <1>2, <2>1, <2>3
  <2>4. ASSUME NEW j \in DOMAIN toPeer, toPeer[j] = Pong(pongs[i + 1])
        PROVE  \E k \in DOMAIN toPeer' : toPeer'[k] = Pong(pongs'[i])
    <3>1. j # 1
      BY <1>7, <2>2, <2>4 DEF Pong
    <3>2. QED
      BY <1>2, <2>1, <2>4, <3>1
  <2>5. QED
    BY <2>1, <2>3, <2>4, PongsInOrderParts DEF AwaitedComes
<1>11. PongsAwaited'
  <2> SUFFICES ASSUME NEW i \in DOMAIN toPeer', toPeer'[i].type = "pong"
               PROVE  \E k \in DOMAIN pongs' : pongs'[k] = toPeer'[i].call
    BY DEF PongsAwaited
  <2>1. i + 1 \in DOMAIN toPeer /\ toPeer'[i] = toPeer[i + 1] /\ i + 1 > 1
    BY <1>0, <1>2 DEF QueuesOK
  <2>2. PICK k \in DOMAIN pongs : pongs[k] = toPeer[i + 1].call
    BY <2>1, PongsInOrderParts DEF PongsAwaited
  <2>3. 1 < k
    BY <1>1, <1>5, <1>7, <2>1, <2>2 DEF Earlier
  <2>4. k - 1 \in DOMAIN pongs' /\ pongs'[k - 1] = pongs[k]
    BY <1>0, <1>1, <2>3 DEF QueuesOK
  <2>5. QED
    BY <2>1, <2>2, <2>4
<1>12. PingsAwaited'
  <2> SUFFICES ASSUME NEW i \in DOMAIN toNode', toNode'[i].type = "ping"
               PROVE  \E k \in DOMAIN pongs' : pongs'[k] = toNode'[i].call
    BY DEF PingsAwaited
  <2>1. i \in DOMAIN toNode /\ toNode'[i] = toNode[i]
    BY <1>2
  <2>2. PICK k \in DOMAIN pongs : pongs[k] = toNode[i].call
    BY <2>1, PongsInOrderParts DEF PingsAwaited
  <2>3. 1 < k
    BY <1>1, <1>5, <1>7, <2>1, <2>2 DEF Earlier
  <2>4. k - 1 \in DOMAIN pongs' /\ pongs'[k - 1] = pongs[k]
    BY <1>0, <1>1, <2>3 DEF QueuesOK
  <2>5. QED
    BY <2>1, <2>2, <2>4
<1>13. PongsOrdered'
  <2> SUFFICES ASSUME NEW i \in DOMAIN toPeer', NEW j \in DOMAIN toPeer', i < j,
                      toPeer'[i].type = "pong", toPeer'[j].type = "pong"
               PROVE  Earlier(toPeer[i], toPeer[j])'
    BY DEF PongsOrdered, Is
  <2>1. i + 1 < j + 1
    BY <1>0 DEF QueuesOK
  <2>2. Earlier(toPeer'[i], toPeer'[j])
    BY <1>2, <2>1, PongsInOrderParts DEF PongsOrdered, Is
  <2>3. QED
    BY <1>1, <1>8, <2>2
<1>14. PingsOrdered'
  <2> SUFFICES ASSUME NEW i \in DOMAIN toNode', NEW j \in DOMAIN toNode', i < j,
                      toNode'[i].type = "ping", toNode'[j].type = "ping"
               PROVE  Earlier(toNode[i], toNode[j])'
    BY DEF PingsOrdered, Is
  <2>1. Earlier(toNode[i], toNode[j])
    BY <1>2, PongsInOrderParts DEF PingsOrdered, Is
  <2>2. QED
    BY <1>2, <1>8, <2>1
<1>15. PongsFirst'
  <2> SUFFICES ASSUME NEW i \in DOMAIN toPeer', NEW j \in DOMAIN toNode',
                      toPeer'[i].type = "pong", toNode'[j].type = "ping"
               PROVE  Earlier(toPeer[i], toNode[j])'
    BY DEF PongsFirst, Is
  <2>1. Earlier(toPeer'[i], toNode'[j])
    BY <1>2, PongsInOrderParts DEF PongsFirst, Is
  <2>2. QED
    BY <1>8, <2>1
<1>16. QED
  BY <1>3, <1>7, <1>9, <1>10, <1>11, <1>12, <1>13, <1>14, <1>15, PongsInOrderParts

\* PongsInOrder is kept by each step of an open connection.
LEMMA PongsInOrderStep ==
  ASSUME TypeOK, TypeOK', Open, PongsInOrder, Registrations, OpenStep
  PROVE  PongsInOrder'
<1>t. /\ mempool \in MempoolCall \cup {NoCall} /\ NoCall \notin Call /\ PingCall \subseteq Call /\ MempoolCall \subseteq Call
      /\ \A c : Ping(c).type = "ping"
  BY PeerAssumption DEF TypeOK, Call, Ping
<1>1. ASSUME SendFilterload PROVE PongsInOrder'
  BY Queues, <1>1, ManagerMoves, PongsInOrderQuiet DEF SendFilterload, nodeVars, outVars
<1>2. ASSUME NEW c \in PingCall, SendPing(c) PROVE PongsInOrder'
  <2>1. Moving("none", {}, "none", {"ping"}) /\ Gains(toNode, toNode', Ping(c))
    BY <1>2, ManagerMoves
  <2>2. c \in Call /\ pongs' = Append(pongs, c) /\ result[c] = "none"
    BY <1>2, <1>t DEF SendPing
  <2>3. \A i \in DOMAIN pongs : pongs[i] # c
    BY <2>2 DEF Registrations
  <2>4. QED
    BY <2>1, <2>2, <2>3, Queues, PongsInOrderJoin
<1>3. ASSUME NEW c \in MempoolCall, NEW published \in SUBSET Own, SendMempool(c, published) PROVE PongsInOrder'
  <2>1. Moving("none", {}, "none", {}) \/ Moving("none", {}, "none", {"mempool"})
    BY <1>3, ManagerMoves
  <2>2. pongs' = pongs
    BY <1>3, RequestedMempool
  <2>3. QED
    BY <2>1, <2>2, Queues, PongsInOrderQuiet
<1>4. ASSUME NEW t \in Own, SendInv(t) PROVE PongsInOrder'
  BY Queues, <1>4, ManagerMoves, PongsInOrderQuiet DEF SendInv, nodeVars, outVars
<1>5. ASSUME AcceptVersion PROVE PongsInOrder'
  BY Queues, <1>5, PeerMoves, PongsInOrderQuiet DEF AcceptVersion, Receive, nodeVars
<1>6. ASSUME AcceptVerack PROVE PongsInOrder'
  BY Queues, <1>6, PeerMoves, PongsInOrderQuiet DEF AcceptVerack, Receive, nodeVars
<1>7. ASSUME AcceptInv PROVE PongsInOrder'
  <2>1. CASE Msg.txs # {} /\ mempool # NoCall
    <3>1. Moving("inv", {}, "none", {"getdata", "ping"}) /\ Gains(toNode, toNode', Ping(mempool))
      BY <1>7, <2>1, PeerMoves
    <3>2. mempool \in Call /\ pongs' = Append(pongs, mempool) /\ \A i \in DOMAIN pongs : pongs[i] # mempool
      BY <1>7, <1>t, <2>1 DEF AcceptInv, Registrations
    <3>3. QED
      BY <3>1, <3>2, Queues, PongsInOrderJoin
  <2>2. CASE ~(Msg.txs # {} /\ mempool # NoCall)
    <3>1. Moving("inv", {}, "none", {"getdata"})
      BY <1>7, <2>2, PeerMoves DEF Moving
    <3>2. pongs' = pongs
      BY <1>7, <2>2 DEF AcceptInv
    <3>3. QED
      BY <3>1, <3>2, Queues, PongsInOrderQuiet
  <2>3. QED
    BY <2>1, <2>2
<1>8. ASSUME AcceptTx PROVE PongsInOrder'
  BY Queues, <1>8, PeerMoves, PongsInOrderQuiet DEF AcceptTx, Receive, nodeVars
<1>9. ASSUME AcceptMerkleblock PROVE PongsInOrder'
  BY Queues, <1>9, PeerMoves, PongsInOrderQuiet DEF AcceptMerkleblock, Receive, nodeVars
<1>10. ASSUME AcceptGetdata PROVE PongsInOrder'
  BY Queues, <1>10, PeerMoves, PongsInOrderQuiet DEF AcceptGetdata, Receive, nodeVars
<1>11. ASSUME AcceptPong PROVE PongsInOrder'
  BY <1>11, PeerMoves, PongsInOrderAnswered
<1>12. ASSUME AcceptNotfound PROVE PongsInOrder'
  BY Queues, <1>12, PeerMoves, PongsInOrderQuiet DEF AcceptNotfound, Receive, nodeVars
<1>13. ASSUME MempoolTimeout PROVE PongsInOrder'
  <2>1. Moving("none", {}, "none", {"ping"}) /\ Gains(toNode, toNode', Ping(mempool))
    BY <1>13, PeerMoves
  <2>2. mempool \in Call /\ pongs' = Append(pongs, mempool) /\ \A i \in DOMAIN pongs : pongs[i] # mempool
    BY <1>13, <1>t DEF MempoolTimeout, MempoolDue, Registrations
  <2>3. QED
    BY <2>1, <2>2, Queues, PongsInOrderJoin
<1>14. ASSUME Served("version"), ServeVersion PROVE PongsInOrder'
  BY Queues, <1>14, NodeMoves, PongsInOrderQuiet DEF ServeVersion, NodeSends, peerVars, nodeVars, outVars
<1>15. ASSUME Served("verack"), ServeVerack PROVE PongsInOrder'
  BY Queues, <1>15, NodeMoves, PongsInOrderQuiet DEF ServeVerack, NodeSends, peerVars, nodeVars, outVars
<1>16. ASSUME Served("ping"), ServePing(Head(toNode).call) PROVE PongsInOrder'
  <2>1. Moving("none", {"pong"}, "ping", {}) /\ Gains(toPeer, toPeer', Pong(toNode[1].call))
    BY <1>16, NodeMoves
  <2>2. toNode[1].type = "ping" /\ Len(toNode) > 0 /\ toNode[1] = Ping(toNode[1].call)
    BY <1>16, ServedMoves, MessagesToNode
  <2>3. pongs' = pongs
    BY <1>16 DEF ServePing, NodeSends, peerVars
  <2>4. QED
    BY <2>1, <2>2, <2>3, Queues, PongsInOrderServed
<1>17. ASSUME Served("filterload"), ServeFilterload(Head(toNode).number) PROVE PongsInOrder'
  BY Queues, <1>17, NodeMoves, PongsInOrderQuiet DEF ServeFilterload, NodeSends, peerVars, outVars
<1>18. ASSUME Served("mempool"), ServeMempool(Head(toNode).call) PROVE PongsInOrder'
  BY Queues, <1>18, NodeMoves, PongsInOrderQuiet DEF ServeMempool, NodeSends, peerVars, outVars
<1>19. ASSUME Served("inv"), ServeInv(Head(toNode).txs) PROVE PongsInOrder'
  BY Queues, <1>19, NodeMoves, PongsInOrderQuiet DEF ServeInv, NodeSends, peerVars, outVars
<1>20. ASSUME Served("tx"), ServeTx(Head(toNode).tx) PROVE PongsInOrder'
  BY Queues, <1>20, NodeMoves, PongsInOrderQuiet DEF ServeTx, NodeSends, peerVars, outVars
<1>21. ASSUME NEW all \in BOOLEAN, Served("getdata"), ServeGetdata(Head(toNode).txs, Head(toNode).block, all) PROVE PongsInOrder'
  BY Queues, <1>21, DataMoves, PongsInOrderQuiet DEF ServeGetdata, NodeSends, peerVars, nodeVars, outVars
<1>22. ASSUME NEW b \in Block, Mine(b) PROVE PongsInOrder'
  BY Queues, <1>22, NodeMoves, PongsInOrderQuiet DEF Mine, NodeSends, peerVars, outVars
<1>23. ASSUME NEW b \in Block, AnnounceBlock(b) PROVE PongsInOrder'
  BY Queues, <1>23, NodeMoves, PongsInOrderQuiet DEF AnnounceBlock, NodeSends, peerVars, outVars
<1>24. ASSUME NEW t \in Tx, Announce(t) PROVE PongsInOrder'
  BY Queues, <1>24, NodeMoves, PongsInOrderQuiet DEF Announce, NodeSends, peerVars, outVars
<1>25. QED
  BY <1>1, <1>2, <1>3, <1>4, <1>5, <1>6, <1>7, <1>8, <1>9, <1>10, <1>11, <1>12, <1>13, <1>14, <1>15, <1>16,
      <1>17, <1>18, <1>19, <1>20, <1>21, <1>22, <1>23, <1>24 DEF OpenStep

\* the conjuncts of FiltersInOrder
FiltersAhead ==
  /\ loaded <= filters
  /\ loaded = filters \/ \E i \in DOMAIN toNode : toNode[i] = Filterload(filters)
FiltersNew == \A i \in DOMAIN toNode : toNode[i].type = "filterload" => loaded < toNode[i].number /\ toNode[i].number <= filters
FiltersOrdered ==
  \A i, j \in DOMAIN toNode : i < j /\ Is(toNode, i, "filterload") /\ Is(toNode, j, "filterload") =>
    toNode[i].number < toNode[j].number
PingsBehind ==
  \A j \in DOMAIN toNode : Is(toNode, j, "ping") /\ toNode[j].call \in PingCall =>
    \/ after[toNode[j].call] <= loaded
    \/ \E i \in DOMAIN toNode : i < j /\ Is(toNode, i, "filterload") /\ after[toNode[j].call] <= toNode[i].number
PongsBehind == \A i \in DOMAIN toPeer : Is(toPeer, i, "pong") /\ toPeer[i].call \in PingCall => after[toPeer[i].call] <= loaded

\* FiltersInOrder is its conjuncts.
LEMMA FiltersInOrderParts ==
  /\ FiltersInOrder <=> /\ FiltersAhead /\ FiltersNew /\ FiltersOrdered /\ PingsBehind /\ PongsBehind
  /\ FiltersInOrder' <=> /\ FiltersAhead' /\ FiltersNew' /\ FiltersOrdered' /\ PingsBehind' /\ PongsBehind'
BY DEF FiltersInOrder, FiltersAhead, FiltersNew, FiltersOrdered, PingsBehind, PongsBehind

\* FiltersInOrder stays if no filter is sent or loaded, what a ping comes with
\* were the filters sent before it, and what is answered is behind its filters.
LEMMA FiltersInOrderMoves ==
  ASSUME TypeOK, TypeOK', FiltersInOrder, NEW r, NEW P, NEW s, NEW N, Moving(r, P, s, N),
         s # "filterload", "filterload" \notin N, filters' = filters, loaded' = loaded,
         \A i \in DOMAIN toNode : toNode[i].type = "ping" /\ toNode[i].call \in PingCall =>
           after'[toNode[i].call] = after[toNode[i].call],
         \A i \in DOMAIN toPeer : toPeer[i].type = "pong" /\ toPeer[i].call \in PingCall =>
           after'[toPeer[i].call] = after[toPeer[i].call],
         \A i \in DOMAIN toNode' : i + Goes(s) > Len(toNode) /\ toNode'[i].type = "ping" /\ toNode'[i].call \in PingCall =>
           after'[toNode'[i].call] <= filters,
         \A i \in DOMAIN toPeer' : i + Goes(r) > Len(toPeer) /\ toPeer'[i].type = "pong" /\ toPeer'[i].call \in PingCall =>
           after'[toPeer'[i].call] <= loaded
  PROVE  FiltersInOrder'
<1>0. QueuesOK /\ QueuesOK'
  BY Queues
<1>1. /\ \A i \in DOMAIN toNode' : toNode'[i].type = "filterload" => i + Goes(s) \in DOMAIN toNode /\ toNode'[i] = toNode[i + Goes(s)]
      /\ \A i \in DOMAIN toNode : toNode[i].type = "filterload" => i - Goes(s) \in DOMAIN toNode' /\ toNode'[i - Goes(s)] = toNode[i]
  BY <1>0, PingsMove
<1>2. Goes(s) \in Nat /\ Goes(r) \in Nat
  BY <1>0, Places
<1>3. \A i, j \in Nat : i < j => i + Goes(s) < j + Goes(s) /\ i - Goes(s) < j - Goes(s)
  BY <1>2
<1>4. /\ DOMAIN toNode \subseteq Nat /\ DOMAIN toNode' \subseteq Nat
      /\ \A n : Filterload(n).type = "filterload" /\ Filterload(n).number = n
  BY <1>0 DEF QueuesOK, Filterload
<1>5. FiltersAhead'
  <2>1. CASE loaded = filters
    BY <2>1, FiltersInOrderParts DEF FiltersAhead
  <2>2. ASSUME NEW i \in DOMAIN toNode, toNode[i] = Filterload(filters) PROVE FiltersAhead'
    BY <1>1, <1>4, <2>2, FiltersInOrderParts DEF FiltersAhead
  <2>3. QED
    BY <2>1, <2>2, FiltersInOrderParts DEF FiltersAhead
<1>6. FiltersNew'
  BY <1>1, FiltersInOrderParts DEF FiltersNew
<1>7. FiltersOrdered'
  <2> SUFFICES ASSUME NEW i \in DOMAIN toNode', NEW j \in DOMAIN toNode', i < j,
                      toNode'[i].type = "filterload", toNode'[j].type = "filterload"
               PROVE  toNode'[i].number < toNode'[j].number
    BY DEF FiltersOrdered, Is
  <2>1. i + Goes(s) < j + Goes(s)
    BY <1>3, <1>4
  <2>2. QED
    BY <1>1, <2>1, FiltersInOrderParts DEF FiltersOrdered, Is
<1>8. PingsBehind'
  <2> SUFFICES ASSUME NEW j \in DOMAIN toNode', toNode'[j].type = "ping", toNode'[j].call \in PingCall
               PROVE  \/ after'[toNode'[j].call] <= loaded
                      \/ \E i \in DOMAIN toNode' : /\ i < j /\ toNode'[i].type = "filterload"
                                                   /\ after'[toNode'[j].call] <= toNode'[i].number
    BY DEF PingsBehind, Is
  <2>1. ASSUME j + Goes(s) \in DOMAIN toNode, toNode'[j] = toNode[j + Goes(s)]
        PROVE  \/ after'[toNode'[j].call] <= loaded
               \/ \E i \in DOMAIN toNode' : /\ i < j /\ toNode'[i].type = "filterload"
                                            /\ after'[toNode'[j].call] <= toNode'[i].number
    <3>1. after'[toNode'[j].call] = after[toNode[j + Goes(s)].call]
      BY <2>1
    <3>2. CASE after[toNode[j + Goes(s)].call] <= loaded
      BY <3>1, <3>2
    <3>3. ASSUME NEW i \in DOMAIN toNode, i < j + Goes(s), Is(toNode, i, "filterload"),
                 after[toNode[j + Goes(s)].call] <= toNode[i].number
          PROVE  \E k \in DOMAIN toNode' : /\ k < j /\ toNode'[k].type = "filterload"
                                           /\ after'[toNode'[j].call] <= toNode'[k].number
      <4>1. i - Goes(s) \in DOMAIN toNode' /\ toNode'[i - Goes(s)] = toNode[i]
        BY <1>1, <3>3 DEF Is
      <4>2. i - Goes(s) < j
        BY <1>2, <1>4, <3>3
      <4>3. QED
        BY <3>1, <3>3, <4>1, <4>2 DEF Is
    <3>4. QED
      BY <2>1, <3>2, <3>3, FiltersInOrderParts DEF PingsBehind, Is
  <2>2. ASSUME j + Goes(s) > Len(toNode)
        PROVE  \/ after'[toNode'[j].call] <= loaded
               \/ \E i \in DOMAIN toNode' : /\ i < j /\ toNode'[i].type = "filterload"
                                            /\ after'[toNode'[j].call] <= toNode'[i].number
    <3>1. after'[toNode'[j].call] <= filters
      BY <2>2
    <3>2. ASSUME NEW i \in DOMAIN toNode, toNode[i] = Filterload(filters)
          PROVE  \E k \in DOMAIN toNode' : /\ k < j /\ toNode'[k].type = "filterload"
                                           /\ after'[toNode'[j].call] <= toNode'[k].number
      <4>1. i - Goes(s) \in DOMAIN toNode' /\ toNode'[i - Goes(s)] = Filterload(filters)
        BY <1>1, <1>4, <3>2
      <4>2. i - Goes(s) < j
        BY <1>0, <1>2, <1>4, <2>2 DEF QueuesOK
      <4>3. QED
        BY <1>4, <3>1, <4>1, <4>2 DEF Is
    <3>3. QED
      BY <3>1, <3>2, FiltersInOrderParts DEF FiltersAhead
  <2>3. QED
    BY <1>0, <2>1, <2>2, Places
<1>9. PongsBehind'
  <2> SUFFICES ASSUME NEW i \in DOMAIN toPeer', toPeer'[i].type = "pong", toPeer'[i].call \in PingCall
               PROVE  after'[toPeer'[i].call] <= loaded
    BY DEF PongsBehind, Is
  <2>1. CASE i + Goes(r) \in DOMAIN toPeer /\ toPeer'[i] = toPeer[i + Goes(r)]
    BY <2>1, FiltersInOrderParts DEF PongsBehind, Is
  <2>2. QED
    BY <1>0, <2>1, Places
<1>10. QED
  BY <1>5, <1>6, <1>7, <1>8, <1>9, FiltersInOrderParts

\* FiltersInOrder stays if no filter, ping or pong is added.
LEMMA FiltersInOrderQuiet ==
  ASSUME TypeOK, TypeOK', FiltersInOrder, NEW r, NEW P, NEW s, NEW N, Moving(r, P, s, N),
         s # "filterload", "filterload" \notin N, "ping" \notin N, "pong" \notin P,
         filters' = filters, loaded' = loaded, after' = after
  PROVE  FiltersInOrder'
<1>1. ASSUME NEW i \in DOMAIN toNode', i + Goes(s) > Len(toNode), toNode'[i].type = "ping" PROVE FALSE
  BY <1>1, Queues, Newcomers
<1>2. ASSUME NEW i \in DOMAIN toPeer', i + Goes(r) > Len(toPeer), toPeer'[i].type = "pong" PROVE FALSE
  BY <1>2, Queues, Newcomers
<1>3. QED
  BY <1>1, <1>2, FiltersInOrderMoves

\* The ping of a mempool callback is behind no filter in particular.
LEMMA FiltersInOrderMempool ==
  ASSUME TypeOK, TypeOK', FiltersInOrder, NEW r, NEW N, Moving(r, {}, "none", N), NEW c \in MempoolCall,
         "filterload" \notin N, Gains(toNode, toNode', Ping(c)),
         filters' = filters, loaded' = loaded, after' = after
  PROVE  FiltersInOrder'
<1>1. ASSUME NEW i \in DOMAIN toNode', i + Goes("none") > Len(toNode), toNode'[i].type = "ping"
      PROVE  toNode'[i].call \notin PingCall
  <2>1. toNode'[i] = Ping(c)
    BY <1>1, Queues DEF QueuesOK, Gains, Goes, Ping
  <2>2. QED
    BY <2>1, PeerAssumption DEF Ping
<1>2. ASSUME NEW i \in DOMAIN toPeer', i + Goes(r) > Len(toPeer), toPeer'[i].type = "pong" PROVE FALSE
  BY <1>2, Queues, Newcomers
<1>3. QED
  BY <1>1, <1>2, FiltersInOrderMoves

\* A filter joins at the end.
LEMMA FiltersInOrderSent ==
  ASSUME TypeOK, TypeOK', Open, FiltersInOrder, SendFilterload
  PROVE  FiltersInOrder'
<1> DEFINE m == Len(toNode')
<1>0. QueuesOK /\ QueuesOK'
  BY Queues
<1>1. Moving("none", {}, "none", {"filterload"}) /\ Gains(toNode, toNode', Filterload(filters'))
  BY ManagerMoves
<1>2. filters' = filters + 1 /\ loaded' = loaded /\ after' = after /\ toPeer' = toPeer
  BY DEF SendFilterload, nodeVars, outVars
<1>3. filters \in Nat /\ loaded \in Nat
  BY PeerAssumption DEF TypeOK
<1>4. \A i \in DOMAIN toNode : i \in DOMAIN toNode' /\ toNode'[i] = toNode[i] /\ i < m
  BY <1>0, <1>1, Places DEF Goes, Gains, QueuesOK
<1>5. m \in DOMAIN toNode' /\ toNode'[m] = Filterload(filters')
  BY <1>0, <1>1 DEF Gains, QueuesOK
<1>6. Filterload(filters').type = "filterload" /\ Filterload(filters').number = filters'
  BY DEF Filterload
<1>7. ASSUME NEW i \in DOMAIN toNode', i # m PROVE i \in DOMAIN toNode /\ toNode'[i] = toNode[i]
  <2>1. CASE i \in DOMAIN toNode
    BY <1>4, <2>1
  <2>2. CASE i \notin DOMAIN toNode
    <3>1. i > Len(toNode)
      BY <1>0, <2>2 DEF QueuesOK
    <3>2. toNode'[i].type = "filterload"
      <4>1. i + Goes("none") > Len(toNode)
        BY <1>0, <3>1 DEF Goes, QueuesOK
      <4>2. QED
        BY <1>0, <1>1, <4>1, Newcomers
    <3>3. toNode'[i].type # "filterload"
      BY <1>0, <1>1, <1>6, <1>7, <3>1 DEF Gains, QueuesOK
    <3>4. QED
      BY <3>2, <3>3
  <2>3. QED
    BY <2>1, <2>2
<1>8. FiltersAhead'
  BY <1>2, <1>3, <1>5, FiltersInOrderParts DEF FiltersAhead
<1>9. FiltersNew'
  <2> SUFFICES ASSUME NEW i \in DOMAIN toNode', toNode'[i].type = "filterload"
               PROVE  loaded < toNode'[i].number /\ toNode'[i].number <= filters + 1
    BY <1>2 DEF FiltersNew
  <2>1. CASE i = m
    BY <1>2, <1>3, <1>5, <1>6, <2>1, FiltersInOrderParts DEF FiltersAhead
  <2>2. CASE i # m
    <3>1. loaded < toNode[i].number /\ toNode[i].number <= filters /\ toNode'[i] = toNode[i]
      BY <1>7, <2>2, FiltersInOrderParts DEF FiltersNew
    <3>2. toNode[i].number \in Nat
      BY <1>0, <1>7, <2>2, MessagesToNode, PeerAssumption DEF QueuesOK
    <3>3. QED
      BY <1>3, <3>1, <3>2
  <2>3. QED
    BY <2>1, <2>2
<1>10. FiltersOrdered'
  <2> SUFFICES ASSUME NEW i \in DOMAIN toNode', NEW j \in DOMAIN toNode', i < j,
                      toNode'[i].type = "filterload", toNode'[j].type = "filterload"
               PROVE  toNode'[i].number < toNode'[j].number
    BY DEF FiltersOrdered, Is
  <2>1. i # m
    BY <1>0 DEF QueuesOK
  <2>2. i \in DOMAIN toNode /\ toNode'[i] = toNode[i]
    BY <1>7, <2>1
  <2>3. CASE j = m
    <3>1. toNode[i].number <= filters /\ toNode[i].number \in Nat
      BY <1>0, <2>2, MessagesToNode, PeerAssumption, FiltersInOrderParts DEF QueuesOK, FiltersNew
    <3>2. QED
      BY <1>2, <1>3, <1>5, <1>6, <2>2, <2>3, <3>1
  <2>4. CASE j # m
    BY <1>7, <2>2, <2>4, FiltersInOrderParts DEF FiltersOrdered, Is
  <2>5. QED
    BY <2>3, <2>4
<1>11. PingsBehind'
  <2> SUFFICES ASSUME NEW j \in DOMAIN toNode', toNode'[j].type = "ping", toNode'[j].call \in PingCall
               PROVE  \/ after[toNode'[j].call] <= loaded
                      \/ \E i \in DOMAIN toNode' : /\ i < j /\ toNode'[i].type = "filterload"
                                                   /\ after[toNode'[j].call] <= toNode'[i].number
    BY <1>2 DEF PingsBehind, Is
  <2>1. j \in DOMAIN toNode /\ toNode'[j] = toNode[j]
    BY <1>5, <1>6, <1>7
  <2>2. QED
    BY <1>4, <2>1, FiltersInOrderParts DEF PingsBehind, Is
<1>12. PongsBehind'
  BY <1>2, FiltersInOrderParts DEF PongsBehind, Is
<1>13. QED
  BY <1>8, <1>9, <1>10, <1>11, <1>12, FiltersInOrderParts

\* The node loads the filter at the head.
LEMMA FiltersInOrderServed ==
  ASSUME TypeOK, TypeOK', FiltersInOrder, Served("filterload"), ServeFilterload(Head(toNode).number)
  PROVE  FiltersInOrder'
<1> DEFINE n == toNode[1].number
<1>0. QueuesOK /\ QueuesOK'
  BY Queues
<1>1. Moving("none", {}, "filterload", {})
  BY NodeMoves
<1>2. /\ toNode[1].type = "filterload" /\ n \in Nat /\ toNode[1] = Filterload(n) /\ loaded' = n
      /\ filters' = filters /\ after' = after /\ Len(toNode) > 0
  BY ServedMoves, MessagesToNode, PeerAssumption DEF ServeFilterload, NodeSends, peerVars, outVars
<1>3. filters \in Nat /\ loaded \in Nat /\ \A c \in PingCall : after[c] \in Nat
  BY PeerAssumption DEF TypeOK
<1>4. /\ \A i \in DOMAIN toNode' : i + 1 \in DOMAIN toNode /\ toNode'[i] = toNode[i + 1]
      /\ \A i \in DOMAIN toNode : i = 1 \/ (i - 1 \in DOMAIN toNode' /\ toNode'[i - 1] = toNode[i])
  BY <1>0, <1>1, Places DEF Goes
<1>5. \A i \in DOMAIN toPeer' : i \in DOMAIN toPeer /\ toPeer'[i] = toPeer[i]
  BY <1>0, <1>1, Places DEF Goes, QueuesOK
<1>6. 1 \in DOMAIN toNode /\ DOMAIN toNode \subseteq Nat /\ DOMAIN toNode' \subseteq Nat
      /\ \A i \in DOMAIN toNode' : i + 1 > 1
  BY <1>0, <1>2 DEF QueuesOK
<1>7. loaded < n /\ n <= filters
  BY <1>2, <1>6, FiltersInOrderParts DEF FiltersNew
<1>8. ASSUME NEW i \in DOMAIN toNode', toNode'[i].type = "filterload"
      PROVE  n < toNode'[i].number /\ toNode'[i].number <= filters
  BY <1>2, <1>4, <1>6, <1>8, FiltersInOrderParts DEF FiltersOrdered, FiltersNew, Is
<1> HIDE DEF n
<1>9. FiltersAhead'
  <2>1. loaded # filters
    BY <1>2, <1>3, <1>7
  <2>2. PICK i \in DOMAIN toNode : toNode[i] = Filterload(filters)
    BY <2>1, FiltersInOrderParts DEF FiltersAhead
  <2>3. CASE i = 1
    <3>1. n = filters
      BY <1>2, <2>2, <2>3 DEF Filterload
    <3>2. QED
      BY <1>2, <1>3, <3>1 DEF FiltersAhead
  <2>4. CASE i # 1
    BY <1>2, <1>4, <1>7, <2>2, <2>4 DEF FiltersAhead
  <2>5. QED
    BY <2>3, <2>4
<1>10. FiltersNew'
  BY <1>2, <1>8 DEF FiltersNew
<1>11. FiltersOrdered'
  <2>1. \A i, j \in DOMAIN toNode' : i < j => i + 1 < j + 1
    BY <1>6
  <2>2. QED
    BY <1>4, <2>1, FiltersInOrderParts DEF FiltersOrdered, Is
<1>12. PingsBehind'
  <2> SUFFICES ASSUME NEW j \in DOMAIN toNode', toNode'[j].type = "ping", toNode'[j].call \in PingCall
               PROVE  \/ after[toNode'[j].call] <= n
                      \/ \E i \in DOMAIN toNode' : /\ i < j /\ toNode'[i].type = "filterload"
                                                   /\ after[toNode'[j].call] <= toNode'[i].number
    BY <1>2 DEF PingsBehind, Is
  <2>1. j + 1 \in DOMAIN toNode /\ toNode'[j] = toNode[j + 1] /\ after[toNode'[j].call] \in Nat
    BY <1>3, <1>4
  <2>2. CASE after[toNode'[j].call] <= loaded
    BY <1>2, <1>3, <1>7, <2>1, <2>2
  <2>3. ASSUME NEW i \in DOMAIN toNode, i < j + 1, Is(toNode, i, "filterload"),
               after[toNode'[j].call] <= toNode[i].number
        PROVE  \/ after[toNode'[j].call] <= n
               \/ \E k \in DOMAIN toNode' : /\ k < j /\ toNode'[k].type = "filterload"
                                            /\ after[toNode'[j].call] <= toNode'[k].number
    <3>1. CASE i = 1
      BY <2>3, <3>1 DEF n
    <3>2. CASE i # 1
      <4>1. i - 1 \in DOMAIN toNode' /\ toNode'[i - 1] = toNode[i] /\ i - 1 < j
        BY <1>4, <1>6, <2>3, <3>2
      <4>2. QED
        BY <2>3, <4>1 DEF Is
    <3>3. QED
      BY <3>1, <3>2
  <2>4. QED
    BY <2>1, <2>2, <2>3, FiltersInOrderParts DEF PingsBehind, Is
<1>13. PongsBehind'
  <2> SUFFICES ASSUME NEW i \in DOMAIN toPeer', toPeer'[i].type = "pong", toPeer'[i].call \in PingCall
               PROVE  after[toPeer'[i].call] <= n
    BY <1>2 DEF PongsBehind, Is
  <2>1. after[toPeer'[i].call] <= loaded
    BY <1>5, FiltersInOrderParts DEF PongsBehind, Is
  <2>2. QED
    BY <1>2, <1>3, <1>7, <2>1
<1>14. QED
  BY <1>9, <1>10, <1>11, <1>12, <1>13, FiltersInOrderParts

\* FiltersInOrder is kept by each step of an open connection.
LEMMA FiltersInOrderStep ==
  ASSUME TypeOK, TypeOK', Open, FiltersInOrder, PongsInOrder, Registrations, OpenStep
  PROVE  FiltersInOrder'
<1>t. /\ mempool \in MempoolCall \cup {NoCall} /\ filters \in Nat /\ loaded \in Nat
      /\ PingCall \subseteq Call /\ after \in [PingCall -> 0..MaxFilters]
  BY PeerAssumption DEF TypeOK, Call
<1>1. ASSUME SendFilterload PROVE FiltersInOrder'
  BY <1>1, FiltersInOrderSent
<1>2. ASSUME NEW c \in PingCall, SendPing(c) PROVE FiltersInOrder'
  <2>1. Moving("none", {}, "none", {"ping"}) /\ Gains(toNode, toNode', Ping(c))
    BY <1>2, ManagerMoves
  <2>2. /\ result[c] = "none" /\ after' = [after EXCEPT ![c] = filters]
        /\ filters' = filters /\ loaded' = loaded
    BY <1>2 DEF SendPing, nodeVars
  <2>3. \A i \in DOMAIN pongs : pongs[i] # c
    BY <2>2 DEF Registrations
  <2>4. /\ \A i \in DOMAIN toNode : toNode[i].type = "ping" => toNode[i].call # c
        /\ \A i \in DOMAIN toPeer : toPeer[i].type = "pong" => toPeer[i].call # c
    BY <2>3, PongsInOrderParts DEF PingsAwaited, PongsAwaited
  <2>5. ASSUME NEW i \in DOMAIN toNode', i + Goes("none") > Len(toNode), toNode'[i].type = "ping"
        PROVE  after'[toNode'[i].call] <= filters
    <3>1. toNode'[i] = Ping(c)
      BY <2>1, <2>5, Queues DEF QueuesOK, Gains, Goes, Ping
    <3>2. QED
      BY <1>t, <2>2, <3>1 DEF Ping
  <2>6. ASSUME NEW i \in DOMAIN toPeer', i + Goes("none") > Len(toPeer), toPeer'[i].type = "pong" PROVE FALSE
    BY <2>1, <2>6, Queues, Newcomers
  <2>7. \A d \in PingCall : d # c => after'[d] = after[d]
    BY <1>t, <2>2
  <2>8. QED
    BY <2>1, <2>2, <2>4, <2>5, <2>6, <2>7, FiltersInOrderMoves
<1>3. ASSUME NEW c \in MempoolCall, NEW published \in SUBSET Own, SendMempool(c, published) PROVE FiltersInOrder'
  <2>1. Moving("none", {}, "none", {}) \/ Moving("none", {}, "none", {"mempool"})
    BY <1>3, ManagerMoves
  <2>2. after' = after /\ filters' = filters /\ loaded' = loaded
    BY <1>3, RequestedMempool
  <2>3. QED
    BY <2>1, <2>2, FiltersInOrderQuiet
<1>4. ASSUME NEW t \in Own, SendInv(t) PROVE FiltersInOrder'
  BY Queues, <1>4, ManagerMoves, FiltersInOrderQuiet DEF SendInv, nodeVars, outVars
<1>5. ASSUME AcceptVersion PROVE FiltersInOrder'
  BY Queues, <1>5, PeerMoves, FiltersInOrderQuiet DEF AcceptVersion, Receive, nodeVars
<1>6. ASSUME AcceptVerack PROVE FiltersInOrder'
  BY Queues, <1>6, PeerMoves, FiltersInOrderQuiet DEF AcceptVerack, Receive, nodeVars
<1>7. ASSUME AcceptInv PROVE FiltersInOrder'
  <2>0. after' = after /\ filters' = filters /\ loaded' = loaded
    BY <1>7 DEF AcceptInv, Receive, nodeVars
  <2>1. CASE Msg.txs # {} /\ mempool # NoCall
    <3>1. Moving("inv", {}, "none", {"getdata", "ping"}) /\ Gains(toNode, toNode', Ping(mempool))
      BY <1>7, <2>1, PeerMoves
    <3>2. QED
      BY <1>t, <2>0, <2>1, <3>1, FiltersInOrderMempool
  <2>2. CASE ~(Msg.txs # {} /\ mempool # NoCall)
    <3>1. Moving("inv", {}, "none", {"getdata"})
      BY <1>7, <2>2, PeerMoves DEF Moving
    <3>2. QED
      BY <2>0, <3>1, FiltersInOrderQuiet
  <2>3. QED
    BY <2>1, <2>2
<1>8. ASSUME AcceptTx PROVE FiltersInOrder'
  BY Queues, <1>8, PeerMoves, FiltersInOrderQuiet DEF AcceptTx, Receive, nodeVars
<1>9. ASSUME AcceptMerkleblock PROVE FiltersInOrder'
  BY Queues, <1>9, PeerMoves, FiltersInOrderQuiet DEF AcceptMerkleblock, Receive, nodeVars
<1>10. ASSUME AcceptGetdata PROVE FiltersInOrder'
  BY Queues, <1>10, PeerMoves, FiltersInOrderQuiet DEF AcceptGetdata, Receive, nodeVars
<1>11. ASSUME AcceptPong PROVE FiltersInOrder'
  BY Queues, <1>11, PeerMoves, FiltersInOrderQuiet DEF AcceptPong, Receive, nodeVars
<1>12. ASSUME AcceptNotfound PROVE FiltersInOrder'
  BY Queues, <1>12, PeerMoves, FiltersInOrderQuiet DEF AcceptNotfound, Receive, nodeVars
<1>13. ASSUME MempoolTimeout PROVE FiltersInOrder'
  <2>1. Moving("none", {}, "none", {"ping"}) /\ Gains(toNode, toNode', Ping(mempool))
    BY <1>13, PeerMoves
  <2>2. mempool \in MempoolCall /\ after' = after /\ filters' = filters /\ loaded' = loaded
    BY <1>13, <1>t DEF MempoolTimeout, MempoolDue, nodeVars, outVars
  <2>3. QED
    BY <2>1, <2>2, FiltersInOrderMempool
<1>14. ASSUME Served("version"), ServeVersion PROVE FiltersInOrder'
  BY Queues, <1>14, NodeMoves, FiltersInOrderQuiet DEF ServeVersion, NodeSends, peerVars, nodeVars, outVars
<1>15. ASSUME Served("verack"), ServeVerack PROVE FiltersInOrder'
  BY Queues, <1>15, NodeMoves, FiltersInOrderQuiet DEF ServeVerack, NodeSends, peerVars, nodeVars, outVars
<1>16. ASSUME Served("ping"), ServePing(Head(toNode).call) PROVE FiltersInOrder'
  <2>1. Moving("none", {"pong"}, "ping", {}) /\ Gains(toPeer, toPeer', Pong(toNode[1].call))
    BY <1>16, NodeMoves
  <2>2. toNode[1].type = "ping" /\ Len(toNode) > 0
    BY <1>16, ServedMoves
  <2>3. after' = after /\ filters' = filters /\ loaded' = loaded
    BY <1>16 DEF ServePing, NodeSends, peerVars, nodeVars, outVars
  <2>4. toNode[1].call \in PingCall => after[toNode[1].call] <= loaded
    <3>1. 1 \in DOMAIN toNode /\ \A i \in DOMAIN toNode : ~(i < 1)
      BY <2>2, Queues DEF QueuesOK
    <3>2. QED
      BY <2>2, <3>1, FiltersInOrderParts DEF PingsBehind, Is
  <2>5. ASSUME NEW i \in DOMAIN toPeer', i + Goes("none") > Len(toPeer), toPeer'[i].type = "pong", toPeer'[i].call \in PingCall
        PROVE  after'[toPeer'[i].call] <= loaded
    <3>1. toPeer'[i] = Pong(toNode[1].call)
      BY <2>1, <2>5, Queues DEF QueuesOK, Gains, Goes, Pong
    <3>2. QED
      BY <2>3, <2>4, <2>5, <3>1 DEF Pong
  <2>6. ASSUME NEW i \in DOMAIN toNode', i + Goes("ping") > Len(toNode), toNode'[i].type = "ping" PROVE FALSE
    BY <2>1, <2>6, Queues, Newcomers
  <2>7. QED
    BY <2>1, <2>3, <2>5, <2>6, FiltersInOrderMoves
<1>17. ASSUME Served("filterload"), ServeFilterload(Head(toNode).number) PROVE FiltersInOrder'
  BY <1>17, FiltersInOrderServed
<1>18. ASSUME Served("mempool"), ServeMempool(Head(toNode).call) PROVE FiltersInOrder'
  BY Queues, <1>18, NodeMoves, FiltersInOrderQuiet DEF ServeMempool, NodeSends, peerVars, outVars
<1>19. ASSUME Served("inv"), ServeInv(Head(toNode).txs) PROVE FiltersInOrder'
  BY Queues, <1>19, NodeMoves, FiltersInOrderQuiet DEF ServeInv, NodeSends, peerVars, outVars
<1>20. ASSUME Served("tx"), ServeTx(Head(toNode).tx) PROVE FiltersInOrder'
  BY Queues, <1>20, NodeMoves, FiltersInOrderQuiet DEF ServeTx, NodeSends, peerVars, outVars
<1>21. ASSUME NEW all \in BOOLEAN, Served("getdata"), ServeGetdata(Head(toNode).txs, Head(toNode).block, all) PROVE FiltersInOrder'
  BY Queues, <1>21, DataMoves, FiltersInOrderQuiet DEF ServeGetdata, NodeSends, peerVars, nodeVars, outVars
<1>22. ASSUME NEW b \in Block, Mine(b) PROVE FiltersInOrder'
  BY Queues, <1>22, NodeMoves, FiltersInOrderQuiet DEF Mine, NodeSends, peerVars, outVars
<1>23. ASSUME NEW b \in Block, AnnounceBlock(b) PROVE FiltersInOrder'
  BY Queues, <1>23, NodeMoves, FiltersInOrderQuiet DEF AnnounceBlock, NodeSends, peerVars, outVars
<1>24. ASSUME NEW t \in Tx, Announce(t) PROVE FiltersInOrder'
  BY Queues, <1>24, NodeMoves, FiltersInOrderQuiet DEF Announce, NodeSends, peerVars, outVars
<1>25. QED
  BY <1>1, <1>2, <1>3, <1>4, <1>5, <1>6, <1>7, <1>8, <1>9, <1>10, <1>11, <1>12, <1>13, <1>14, <1>15, <1>16,
      <1>17, <1>18, <1>19, <1>20, <1>21, <1>22, <1>23, <1>24 DEF OpenStep

\* the conjuncts of MempoolsInOrder
RequestsFirst ==
  \A i, j \in DOMAIN toNode : Is(toNode, i, "mempool") /\ Is(toNode, j, "ping") /\ toNode[i].call = toNode[j].call => i < j
PongsAfterRequests ==
  \A i \in DOMAIN toPeer : Is(toPeer, i, "pong") /\ toPeer[i].call \in MempoolCall =>
    /\ \A j \in DOMAIN toNode : toNode[j] # Mempool(toPeer[i].call)
    /\ \A t \in listed[toPeer[i].call] : t \in known \/ InvBefore(t, i)

\* MempoolsInOrder is its conjuncts.
LEMMA MempoolsInOrderParts ==
  /\ MempoolsInOrder <=> RequestsFirst /\ PongsAfterRequests
  /\ MempoolsInOrder' <=> RequestsFirst' /\ PongsAfterRequests'
BY DEF MempoolsInOrder, RequestsFirst, PongsAfterRequests

\* MempoolsInOrder stays if no request is made, what is read becomes known, and
\* what is answered had its request served.
LEMMA MempoolsInOrderMoves ==
  ASSUME QueuesOK, QueuesOK', MempoolsInOrder, NEW r, NEW P, NEW s, NEW N, Moving(r, P, s, N),
         "mempool" \notin N, known \subseteq known', r = "inv" => toPeer[1].txs \subseteq known',
         \A i \in DOMAIN toPeer : toPeer[i].type = "pong" /\ toPeer[i].call \in MempoolCall =>
           listed'[toPeer[i].call] = listed[toPeer[i].call],
         \A i \in DOMAIN toPeer' : i + Goes(r) > Len(toPeer) /\ toPeer'[i].type = "pong" /\ toPeer'[i].call \in MempoolCall =>
           /\ \A j \in DOMAIN toNode : toNode[j] # Mempool(toPeer'[i].call)
           /\ \A t \in listed'[toPeer'[i].call] : t \in known' \/ InvBefore(t, i)'
  PROVE  MempoolsInOrder'
<1>1. \A i \in DOMAIN toNode' : toNode'[i].type = "mempool" => i + Goes(s) \in DOMAIN toNode /\ toNode'[i] = toNode[i + Goes(s)]
  BY PingsMove
<1>2. /\ Goes(s) \in Nat /\ Goes(r) \in Nat /\ DOMAIN toNode \subseteq Nat /\ DOMAIN toNode' \subseteq Nat
      /\ DOMAIN toPeer \subseteq Nat /\ DOMAIN toPeer' \subseteq Nat
  <2>1. Goes(s) \in Nat /\ Goes(r) \in Nat
    BY Places
  <2>2. /\ DOMAIN toNode \subseteq Nat /\ DOMAIN toNode' \subseteq Nat
        /\ DOMAIN toPeer \subseteq Nat /\ DOMAIN toPeer' \subseteq Nat
    BY DEF QueuesOK
  <2>3. QED
    BY <2>1, <2>2
<1>3. RequestsFirst'
  <2> SUFFICES ASSUME NEW i \in DOMAIN toNode', NEW j \in DOMAIN toNode', toNode'[i].type = "mempool",
                      toNode'[j].type = "ping", toNode'[i].call = toNode'[j].call
               PROVE  i < j
    BY DEF RequestsFirst, Is
  <2>1. i + Goes(s) \in DOMAIN toNode /\ toNode'[i] = toNode[i + Goes(s)]
    BY <1>1
  <2>2. CASE j + Goes(s) \in DOMAIN toNode /\ toNode'[j] = toNode[j + Goes(s)]
    <3>1. i + Goes(s) < j + Goes(s)
      BY <2>1, <2>2, MempoolsInOrderParts DEF RequestsFirst, Is
    <3>2. QED
      BY <1>2, <3>1
  <2>3. CASE j + Goes(s) > Len(toNode)
    BY <1>2, <2>1, <2>3 DEF QueuesOK
  <2>4. QED
    BY <2>2, <2>3, Places
<1>4. ASSUME NEW c PROVE (\A j \in DOMAIN toNode : toNode[j] # Mempool(c)) => \A j \in DOMAIN toNode' : toNode'[j] # Mempool(c)
  BY <1>1 DEF Mempool
<1>5. PongsAfterRequests'
  <2> SUFFICES ASSUME NEW i \in DOMAIN toPeer', toPeer'[i].type = "pong", toPeer'[i].call \in MempoolCall
               PROVE  /\ \A j \in DOMAIN toNode' : toNode'[j] # Mempool(toPeer'[i].call)
                      /\ \A t \in listed'[toPeer'[i].call] : t \in known' \/ InvBefore(t, i)'
    BY DEF PongsAfterRequests, Is
  <2>1. CASE i + Goes(r) > Len(toPeer)
    BY <1>4, <2>1
  <2>2. CASE i + Goes(r) \in DOMAIN toPeer /\ toPeer'[i] = toPeer[i + Goes(r)]
    <3>1. /\ \A j \in DOMAIN toNode : toNode[j] # Mempool(toPeer'[i].call)
          /\ \A t \in listed'[toPeer'[i].call] : t \in known \/ InvBefore(t, i + Goes(r))
      BY <2>2, MempoolsInOrderParts DEF PongsAfterRequests, Is
    <3>2. ASSUME NEW t, InvBefore(t, i + Goes(r)) PROVE t \in known' \/ InvBefore(t, i)'
      <4>1. i + Goes(r) \in Nat /\ (i + Goes(r)) - Goes(r) = i
        BY <1>2
      <4>2. (r = "inv" /\ t \in toPeer[1].txs) \/ InvBefore(t, (i + Goes(r)) - Goes(r))'
        BY <3>2, <4>1, InvBeforeMoves
      <4>3. QED
        BY <4>1, <4>2
    <3>3. QED
      BY <1>4, <3>1, <3>2
  <2>3. QED
    BY <2>1, <2>2, Places
<1>6. QED
  BY <1>3, <1>5, MempoolsInOrderParts

\* MempoolsInOrder stays if neither a request nor a pong is added.
LEMMA MempoolsInOrderQuiet ==
  ASSUME QueuesOK, QueuesOK', MempoolsInOrder, NEW r, NEW P, NEW s, NEW N, Moving(r, P, s, N),
         "mempool" \notin N, "pong" \notin P, known \subseteq known', r # "inv", listed' = listed
  PROVE  MempoolsInOrder'
<1>1. ASSUME NEW i \in DOMAIN toPeer', i + Goes(r) > Len(toPeer), toPeer'[i].type = "pong" PROVE FALSE
  BY <1>1, Newcomers
<1>2. QED
  BY <1>1, MempoolsInOrderMoves

\* A request joins at the end: its callback does not wait for a pong yet.
LEMMA MempoolsInOrderSent ==
  ASSUME QueuesOK, QueuesOK', MempoolsInOrder, PongsInOrder, Registrations, NEW c \in MempoolCall,
         Moving("none", {}, "none", {"mempool"}), Gains(toNode, toNode', Mempool(c)),
         result[c] = "none", known \subseteq known', listed' = listed
  PROVE  MempoolsInOrder'
<1> DEFINE m == Len(toNode')
<1>1. \A i \in DOMAIN pongs : pongs[i] # c
  BY DEF Registrations
<1>2. /\ \A i \in DOMAIN toNode : toNode[i].type = "ping" => toNode[i].call # c
      /\ \A i \in DOMAIN toPeer : toPeer[i].type = "pong" => toPeer[i].call # c
  BY <1>1, PongsInOrderParts DEF PingsAwaited, PongsAwaited
<1>3. \A i \in DOMAIN toNode : i \in DOMAIN toNode' /\ toNode'[i] = toNode[i] /\ i < m
  BY Places DEF Goes, Gains, QueuesOK
<1>4. m \in DOMAIN toNode' /\ toNode'[m] = Mempool(c)
  BY DEF Gains, QueuesOK
<1>5. \A d : Mempool(d).type = "mempool" /\ Mempool(d).call = d
  BY DEF Mempool
<1>6. ASSUME NEW i \in DOMAIN toNode', i # m PROVE i \in DOMAIN toNode /\ toNode'[i] = toNode[i]
  <2>1. CASE i \in DOMAIN toNode
    BY <1>3, <2>1
  <2>2. CASE i \notin DOMAIN toNode
    <3>1. i > Len(toNode)
      BY <2>2 DEF QueuesOK
    <3>2. i + Goes("none") > Len(toNode)
      BY <3>1 DEF Goes, QueuesOK
    <3>3. toNode'[i].type = "mempool"
      BY <3>2, Newcomers
    <3>4. toNode'[i].type # "mempool"
      <4>1. i \in 1..Len(toNode') /\ i < Len(toNode')
        BY <1>6 DEF QueuesOK
      <4>2. QED
        BY <1>5, <3>1, <4>1 DEF Gains
    <3>5. QED
      BY <3>3, <3>4
  <2>3. QED
    BY <2>1, <2>2
<1>7. \A i \in DOMAIN toPeer' : i \in DOMAIN toPeer /\ toPeer'[i] = toPeer[i]
  BY Places DEF Goes, QueuesOK
<1> HIDE DEF m
<1>8. RequestsFirst'
  <2> SUFFICES ASSUME NEW i \in DOMAIN toNode', NEW j \in DOMAIN toNode', toNode'[i].type = "mempool",
                      toNode'[j].type = "ping", toNode'[i].call = toNode'[j].call
               PROVE  i < j
    BY DEF RequestsFirst, Is
  <2>1. j \in DOMAIN toNode /\ toNode'[j] = toNode[j]
    BY <1>4, <1>5, <1>6
  <2>2. i # m
    BY <1>2, <1>4, <1>5, <2>1
  <2>3. QED
    BY <1>6, <2>1, <2>2, MempoolsInOrderParts DEF RequestsFirst, Is
<1>9. PongsAfterRequests'
  <2> SUFFICES ASSUME NEW i \in DOMAIN toPeer', toPeer'[i].type = "pong", toPeer'[i].call \in MempoolCall
               PROVE  /\ \A j \in DOMAIN toNode' : toNode'[j] # Mempool(toPeer'[i].call)
                      /\ \A t \in listed'[toPeer'[i].call] : t \in known' \/ InvBefore(t, i)'
    BY DEF PongsAfterRequests, Is
  <2>1. /\ \A j \in DOMAIN toNode : toNode[j] # Mempool(toPeer'[i].call)
        /\ \A t \in listed'[toPeer'[i].call] : t \in known \/ InvBefore(t, i)
    BY <1>7, MempoolsInOrderParts DEF PongsAfterRequests, Is
  <2>2. \A t : InvBefore(t, i) => InvBefore(t, i)'
    <3>1. \A j \in DOMAIN toPeer : j \in DOMAIN toPeer' /\ toPeer'[j] = toPeer[j]
      BY Places DEF Goes, QueuesOK
    <3>2. QED
      BY <3>1 DEF InvBefore
  <2>3. ASSUME NEW j \in DOMAIN toNode', toNode'[j] = Mempool(toPeer'[i].call) PROVE FALSE
    <3>1. CASE j = m
      <4>1. Mempool(toPeer'[i].call) = Mempool(c)
        BY <1>4, <2>3, <3>1
      <4>2. toPeer'[i].call = c
        BY <1>5, <4>1
      <4>3. i \in DOMAIN toPeer /\ toPeer[i].type = "pong" /\ toPeer[i].call = c
        BY <1>7, <4>2
      <4>4. QED
        BY <1>2, <4>3
    <3>2. CASE j # m
      BY <1>6, <2>1, <2>3, <3>2
    <3>3. QED
      BY <3>1, <3>2
  <2>4. QED
    BY <2>1, <2>2, <2>3
<1>10. QED
  BY <1>8, <1>9, MempoolsInOrderParts

\* The node answers the ping at the head: the request of its callback is served.
LEMMA MempoolsInOrderServed ==
  ASSUME TypeOK, TypeOK', MempoolsInOrder, ToldIsKnown, Served("ping"), ServePing(Head(toNode).call)
  PROVE  MempoolsInOrder'
<1> DEFINE c == toNode[1].call
<1>0. QueuesOK /\ QueuesOK'
  BY Queues
<1>1. Moving("none", {"pong"}, "ping", {}) /\ Gains(toPeer, toPeer', Pong(c))
  BY NodeMoves
<1>2. toNode[1].type = "ping" /\ 1 \in DOMAIN toNode
  BY <1>0, ServedMoves DEF QueuesOK
<1>3. known' = known /\ listed' = listed
  BY DEF ServePing, NodeSends, peerVars
<1>4. ASSUME NEW j \in DOMAIN toNode, toNode[j] = Mempool(c) PROVE FALSE
  <2>1. toNode[j].type = "mempool" /\ toNode[j].call = c
    BY <1>4 DEF Mempool
  <2>2. j < 1
    BY <1>2, <2>1, MempoolsInOrderParts DEF RequestsFirst, Is
  <2>3. QED
    BY <1>0, <2>2 DEF QueuesOK
<1> HIDE DEF c
<1>5. ASSUME NEW i \in DOMAIN toPeer', i + Goes("none") > Len(toPeer), toPeer'[i].type = "pong",
             toPeer'[i].call \in MempoolCall
      PROVE  /\ \A j \in DOMAIN toNode : toNode[j] # Mempool(toPeer'[i].call)
             /\ \A t \in listed'[toPeer'[i].call] : t \in known' \/ InvBefore(t, i)'
  <2>1. i > Len(toPeer)
    BY <1>0, <1>5 DEF Goes, QueuesOK
  <2>2. toPeer'[i] = Pong(c)
    BY <1>0, <1>1, <1>5, <2>1 DEF QueuesOK, Gains, Pong
  <2>3. toPeer'[i].call = c
    BY <2>2 DEF Pong
  <2>4. ASSUME NEW t, InvBefore(t, Len(toPeer) + 1) PROVE InvBefore(t, i)'
    <3>1. PICK j \in DOMAIN toPeer : toPeer[j].type = "inv" /\ t \in toPeer[j].txs
      BY <2>4 DEF InvBefore
    <3>2. j \in DOMAIN toPeer' /\ toPeer'[j] = toPeer[j] /\ j < i
      BY <1>0, <1>1, <2>1, Places DEF Goes, QueuesOK
    <3>3. QED
      BY <3>1, <3>2 DEF InvBefore
  <2>5. QED
    BY <1>3, <1>4, <1>5, <2>3, <2>4 DEF ToldIsKnown
<1>6. QED
  BY <1>0, <1>1, <1>3, <1>5, MempoolsInOrderMoves

\* MempoolsInOrder is kept by each step of an open connection.
LEMMA MempoolsInOrderStep ==
  ASSUME TypeOK, TypeOK', Open, MempoolsInOrder, ToldIsKnown, PongsInOrder, Registrations, OpenStep
  PROVE  MempoolsInOrder'
<1>1. ASSUME SendFilterload PROVE MempoolsInOrder'
  BY Queues, <1>1, ManagerMoves, MempoolsInOrderQuiet DEF SendFilterload, nodeVars, outVars
<1>2. ASSUME NEW c \in PingCall, SendPing(c) PROVE MempoolsInOrder'
  BY Queues, <1>2, ManagerMoves, MempoolsInOrderQuiet DEF SendPing, nodeVars
<1>3. ASSUME NEW c \in MempoolCall, NEW published \in SUBSET Own, SendMempool(c, published) PROVE MempoolsInOrder'
  <2>1. known \subseteq known' /\ listed' = listed /\ result[c] = "none"
    BY <1>3, RequestedMempool
  <2>2. CASE Moving("none", {}, "none", {})
    BY <2>1, <2>2, Queues, MempoolsInOrderQuiet
  <2>3. CASE Moving("none", {}, "none", {"mempool"}) /\ Gains(toNode, toNode', Mempool(c))
    BY <2>1, <2>3, Queues, MempoolsInOrderSent
  <2>4. QED
    BY <1>3, <2>2, <2>3, ManagerMoves
<1>4. ASSUME NEW t \in Own, SendInv(t) PROVE MempoolsInOrder'
  BY Queues, <1>4, ManagerMoves, MempoolsInOrderQuiet DEF SendInv, nodeVars, outVars
<1>5. ASSUME AcceptVersion PROVE MempoolsInOrder'
  BY Queues, <1>5, PeerMoves, MempoolsInOrderQuiet DEF AcceptVersion, Receive, nodeVars
<1>6. ASSUME AcceptVerack PROVE MempoolsInOrder'
  BY Queues, <1>6, PeerMoves, MempoolsInOrderQuiet DEF AcceptVerack, Receive, nodeVars
<1>7. ASSUME AcceptInv PROVE MempoolsInOrder'
  <2>1. Moving("inv", {}, "none", {"getdata", "ping"})
    BY <1>7, PeerMoves
  <2>2. known' = known \cup toPeer[1].txs /\ listed' = listed
    BY <1>7, ReceiveMoves DEF AcceptInv, Asked, Receive, nodeVars
  <2>3. ASSUME NEW i \in DOMAIN toPeer', i + Goes("inv") > Len(toPeer), toPeer'[i].type = "pong" PROVE FALSE
    BY <2>1, <2>3, Newcomers, Queues
  <2>4. QED
    BY <2>1, <2>2, <2>3, Queues, MempoolsInOrderMoves
<1>8. ASSUME AcceptTx PROVE MempoolsInOrder'
  BY Queues, <1>8, PeerMoves, MempoolsInOrderQuiet DEF AcceptTx, Receive, nodeVars
<1>9. ASSUME AcceptMerkleblock PROVE MempoolsInOrder'
  BY Queues, <1>9, PeerMoves, MempoolsInOrderQuiet DEF AcceptMerkleblock, Receive, nodeVars
<1>10. ASSUME AcceptGetdata PROVE MempoolsInOrder'
  BY Queues, <1>10, PeerMoves, MempoolsInOrderQuiet DEF AcceptGetdata, Receive, nodeVars
<1>11. ASSUME AcceptPong PROVE MempoolsInOrder'
  BY Queues, <1>11, PeerMoves, MempoolsInOrderQuiet DEF AcceptPong, Receive, nodeVars
<1>12. ASSUME AcceptNotfound PROVE MempoolsInOrder'
  BY Queues, <1>12, PeerMoves, MempoolsInOrderQuiet DEF AcceptNotfound, Receive, nodeVars
<1>13. ASSUME MempoolTimeout PROVE MempoolsInOrder'
  BY Queues, <1>13, PeerMoves, MempoolsInOrderQuiet DEF MempoolTimeout, nodeVars, outVars
<1>14. ASSUME Served("version"), ServeVersion PROVE MempoolsInOrder'
  BY Queues, <1>14, NodeMoves, MempoolsInOrderQuiet DEF ServeVersion, NodeSends, peerVars, nodeVars, outVars
<1>15. ASSUME Served("verack"), ServeVerack PROVE MempoolsInOrder'
  BY Queues, <1>15, NodeMoves, MempoolsInOrderQuiet DEF ServeVerack, NodeSends, peerVars, nodeVars, outVars
<1>16. ASSUME Served("ping"), ServePing(Head(toNode).call) PROVE MempoolsInOrder'
  BY <1>16, MempoolsInOrderServed
<1>17. ASSUME Served("filterload"), ServeFilterload(Head(toNode).number) PROVE MempoolsInOrder'
  BY Queues, <1>17, NodeMoves, MempoolsInOrderQuiet DEF ServeFilterload, NodeSends, peerVars, outVars
<1>18. ASSUME Served("mempool"), ServeMempool(Head(toNode).call) PROVE MempoolsInOrder'
  <2>1. Moving("none", {"inv"}, "mempool", {})
    BY <1>18, NodeMoves
  <2>2. /\ known' = known /\ listed' = [listed EXCEPT ![Head(toNode).call] = pool]
        /\ listed \in [MempoolCall -> SUBSET Tx]
    BY <1>18 DEF ServeMempool, NodeSends, peerVars, TypeOK
  <2>3. 1 \in DOMAIN toNode /\ toNode[1] = Mempool(Head(toNode).call)
    BY <1>18, Queues, ServedMoves, MessagesToNode DEF QueuesOK
  <2>4. ASSUME NEW i \in DOMAIN toPeer, toPeer[i].type = "pong", toPeer[i].call \in MempoolCall
        PROVE  listed'[toPeer[i].call] = listed[toPeer[i].call]
    <3>1. toPeer[i].call # Head(toNode).call
      BY <2>3, <2>4, MempoolsInOrderParts DEF PongsAfterRequests, Is
    <3>2. QED
      BY <2>2, <2>4, <3>1
  <2>5. ASSUME NEW i \in DOMAIN toPeer', i + Goes("none") > Len(toPeer), toPeer'[i].type = "pong" PROVE FALSE
    BY <2>1, <2>5, Newcomers, Queues
  <2>6. QED
    BY <2>1, <2>2, <2>4, <2>5, Queues, MempoolsInOrderMoves
<1>19. ASSUME Served("inv"), ServeInv(Head(toNode).txs) PROVE MempoolsInOrder'
  BY Queues, <1>19, NodeMoves, MempoolsInOrderQuiet DEF ServeInv, NodeSends, peerVars, outVars
<1>20. ASSUME Served("tx"), ServeTx(Head(toNode).tx) PROVE MempoolsInOrder'
  BY Queues, <1>20, NodeMoves, MempoolsInOrderQuiet DEF ServeTx, NodeSends, peerVars, outVars
<1>21. ASSUME NEW all \in BOOLEAN, Served("getdata"), ServeGetdata(Head(toNode).txs, Head(toNode).block, all) PROVE MempoolsInOrder'
  BY Queues, <1>21, DataMoves, MempoolsInOrderQuiet DEF ServeGetdata, NodeSends, peerVars, nodeVars, outVars
<1>22. ASSUME NEW b \in Block, Mine(b) PROVE MempoolsInOrder'
  BY Queues, <1>22, NodeMoves, MempoolsInOrderQuiet DEF Mine, NodeSends, peerVars, outVars
<1>23. ASSUME NEW b \in Block, AnnounceBlock(b) PROVE MempoolsInOrder'
  BY Queues, <1>23, NodeMoves, MempoolsInOrderQuiet DEF AnnounceBlock, NodeSends, peerVars, outVars
<1>24. ASSUME NEW t \in Tx, Announce(t) PROVE MempoolsInOrder'
  BY Queues, <1>24, NodeMoves, MempoolsInOrderQuiet DEF Announce, NodeSends, peerVars, outVars
<1>25. QED
  BY <1>1, <1>2, <1>3, <1>4, <1>5, <1>6, <1>7, <1>8, <1>9, <1>10, <1>11, <1>12, <1>13, <1>14, <1>15, <1>16,
      <1>17, <1>18, <1>19, <1>20, <1>21, <1>22, <1>23, <1>24 DEF OpenStep

-----------------------------------------------------------------------------
(***************************************************************************)
(* What is promised, as long as the connection is open.                    *)
(***************************************************************************)

\* All that is under way stays as it should be.
LEMMA UnderWayStep ==
  ASSUME TypeOK, TypeOK', Open, UnderWay, OpenStep
  PROVE  UnderWay'
BY NothingEarlyStep, ToldIsKnownStep, BlocksCoveredStep, PongsInOrderStep, FiltersInOrderStep, MempoolsInOrderStep,
   RegistrationsStep DEF UnderWay

\* No message ends the connection.
LEMMA NothingWrong ==
  ASSUME TypeOK, Open, UnderWay
  PROVE  ~IncompleteBlock /\ ~Unexpected
<1>0. /\ DOMAIN toPeer = 1..Len(toPeer) /\ DOMAIN pongs = 1..Len(pongs)
      /\ toPeer # <<>> => 1 \in DOMAIN toPeer /\ Msg = toPeer[1]
  BY DEF TypeOK, Msg
<1>1. ASSUME toPeer # <<>>, current # NoBlock PROVE Msg.type = "tx"
  <2>1. PICK t \in missing : Follows(t, 0)
    BY <1>1 DEF UnderWay, BlocksCovered
  <2>2. PICK j \in DOMAIN toPeer : j > 0 /\ toPeer[j] = TxMsg(t) /\ \A k \in (0 + 1)..j : toPeer[k].type = "tx"
    BY <2>1 DEF Follows
  <2>3. 1 \in (0 + 1)..j
    BY <1>0, <2>2
  <2>4. QED
    BY <1>0, <1>1, <2>2, <2>3
<1>2. ASSUME toPeer # <<>>, filters = 0 PROVE Msg.type \notin {"inv", "tx", "merkleblock"}
  BY <1>0, <1>2 DEF UnderWay, NothingEarly
<1>3. ASSUME toPeer # <<>>, Msg.type = "pong" PROVE pongs # <<>>
  <2>1. \E k \in DOMAIN pongs : pongs[k] = toPeer[1].call
    BY <1>0, <1>3, PongsInOrderParts DEF UnderWay, PongsAwaited
  <2>2. QED
    BY <1>0, <2>1
<1>4. QED
  BY <1>1, <1>2, <1>3 DEF IncompleteBlock, Unexpected

\* PongAfterFilter stays if nobody is called and no filter is loaded.
LEMMA PongAfterFilterQuiet ==
  ASSUME Open, PongAfterFilter, after' = after, loaded' = loaded,
         \A c \in PingCall : result'[c] = "ok" => result[c] = "ok"
  PROVE  PongAfterFilter'
BY DEF Open, PongAfterFilter

\* PongAfterFilter is kept by each step of an open connection.
LEMMA PongAfterFilterStep ==
  ASSUME TypeOK, TypeOK', Open, UnderWay, PongAfterFilter, OpenStep
  PROVE  PongAfterFilter'
<1>t. /\ result \in [Call -> {"none", "waiting", "ok", "failed", "stranded"}]
      /\ PingCall \subseteq Call /\ MempoolCall \subseteq Call /\ PingCall \cap MempoolCall = {}
      /\ after \in [PingCall -> 0..MaxFilters] /\ loaded \in Nat /\ MaxFilters \in Nat
  BY PeerAssumption DEF TypeOK, Call
<1>1. ASSUME SendFilterload PROVE PongAfterFilter'
  BY Queues, <1>1, ManagerMoves, PongAfterFilterQuiet DEF SendFilterload, nodeVars, outVars
<1>2. ASSUME NEW c \in PingCall, SendPing(c) PROVE PongAfterFilter'
  <2>1. /\ result' = [result EXCEPT ![c] = "waiting"] /\ after' = [after EXCEPT ![c] = filters]
        /\ loaded' = loaded
    BY <1>2 DEF SendPing, Registered, Open, nodeVars
  <2>2. ASSUME NEW d \in PingCall, result'[d] = "ok" PROVE result[d] = "ok" /\ after'[d] = after[d]
    BY <1>t, <2>1, <2>2
  <2>3. QED
    BY <2>1, <2>2 DEF Open, PongAfterFilter
<1>3. ASSUME NEW c \in MempoolCall, NEW published \in SUBSET Own, SendMempool(c, published) PROVE PongAfterFilter'
  <2>1. /\ result' = [result EXCEPT ![c] = result'[c]] /\ after' = after /\ loaded' = loaded
    BY <1>3, RequestedMempool
  <2>2. \A d \in PingCall : result'[d] = result[d]
    BY <1>t, <2>1
  <2>3. QED
    BY <2>1, <2>2, PongAfterFilterQuiet
<1>4. ASSUME NEW t \in Own, SendInv(t) PROVE PongAfterFilter'
  BY Queues, <1>4, ManagerMoves, PongAfterFilterQuiet DEF SendInv, nodeVars, outVars
<1>5. ASSUME AcceptVersion PROVE PongAfterFilter'
  BY Queues, <1>5, PeerMoves, PongAfterFilterQuiet DEF AcceptVersion, Receive, nodeVars
<1>6. ASSUME AcceptVerack PROVE PongAfterFilter'
  BY Queues, <1>6, PeerMoves, PongAfterFilterQuiet DEF AcceptVerack, Receive, nodeVars
<1>7. ASSUME AcceptInv PROVE PongAfterFilter'
  BY Queues, <1>7, PeerMoves, PongAfterFilterQuiet DEF AcceptInv, Receive, nodeVars
<1>8. ASSUME AcceptTx PROVE PongAfterFilter'
  BY Queues, <1>8, PeerMoves, PongAfterFilterQuiet DEF AcceptTx, Receive, nodeVars
<1>9. ASSUME AcceptMerkleblock PROVE PongAfterFilter'
  BY Queues, <1>9, PeerMoves, PongAfterFilterQuiet DEF AcceptMerkleblock, Receive, nodeVars
<1>10. ASSUME AcceptGetdata PROVE PongAfterFilter'
  BY Queues, <1>10, PeerMoves, PongAfterFilterQuiet DEF AcceptGetdata, Receive, nodeVars
<1>11. ASSUME AcceptPong PROVE PongAfterFilter'
  <2>1. /\ result' = [result EXCEPT ![pongs[1]] = "ok"] /\ after' = after /\ loaded' = loaded
    BY <1>11, AnsweredPong
  <2>2. 1 \in DOMAIN toPeer /\ toPeer[1].type = "pong" /\ toPeer[1].call = pongs[1]
    BY <1>11, PeerMoves, PongsInOrderAnswered DEF UnderWay
  <2>3. pongs[1] \in PingCall => after[pongs[1]] <= loaded
    BY <2>2, FiltersInOrderParts DEF UnderWay, PongsBehind, Is
  <2>4. \A d \in PingCall : d # pongs[1] => result'[d] = result[d]
    BY <1>t, <2>1
  <2>5. ASSUME NEW d \in PingCall, result'[d] = "ok" PROVE loaded' >= after'[d]
    <3>1. CASE d = pongs[1]
      BY <1>t, <2>1, <2>3, <3>1
    <3>2. CASE d # pongs[1]
      BY <2>1, <2>4, <2>5, <3>2 DEF Open, PongAfterFilter
    <3>3. QED
      BY <3>1, <3>2
  <2>6. QED
    BY <2>5 DEF PongAfterFilter
<1>12. ASSUME AcceptNotfound PROVE PongAfterFilter'
  BY Queues, <1>12, PeerMoves, PongAfterFilterQuiet DEF AcceptNotfound, Receive, nodeVars
<1>13. ASSUME MempoolTimeout PROVE PongAfterFilter'
  BY Queues, <1>13, PeerMoves, PongAfterFilterQuiet DEF MempoolTimeout, nodeVars, outVars
<1>14. ASSUME Served("version"), ServeVersion PROVE PongAfterFilter'
  BY Queues, <1>14, NodeMoves, PongAfterFilterQuiet DEF ServeVersion, NodeSends, peerVars, nodeVars, outVars
<1>15. ASSUME Served("verack"), ServeVerack PROVE PongAfterFilter'
  BY Queues, <1>15, NodeMoves, PongAfterFilterQuiet DEF ServeVerack, NodeSends, peerVars, nodeVars, outVars
<1>16. ASSUME Served("ping"), ServePing(Head(toNode).call) PROVE PongAfterFilter'
  BY Queues, <1>16, NodeMoves, PongAfterFilterQuiet DEF ServePing, NodeSends, peerVars, nodeVars, outVars
<1>17. ASSUME Served("filterload"), ServeFilterload(Head(toNode).number) PROVE PongAfterFilter'
  <2>1. /\ result' = result /\ after' = after /\ loaded' = toNode[1].number /\ toNode[1].type = "filterload"
        /\ 1 \in DOMAIN toNode /\ toNode[1].number \in Nat
    BY <1>17, ServedMoves, Queues, MessagesToNode, PeerAssumption DEF ServeFilterload, NodeSends, outVars, QueuesOK
  <2>2. loaded < toNode[1].number
    BY <2>1, FiltersInOrderParts DEF UnderWay, FiltersNew
  <2>3. \A d \in PingCall : after[d] \in Nat
    BY <1>t
  <2>4. ASSUME NEW d \in PingCall, result[d] = "ok" PROVE toNode[1].number >= after[d]
    <3>1. loaded >= after[d]
      BY <2>4 DEF Open, PongAfterFilter
    <3>2. QED
      BY <1>t, <2>1, <2>2, <2>3, <3>1
  <2>5. QED
    BY <2>1, <2>4 DEF PongAfterFilter
<1>18. ASSUME Served("mempool"), ServeMempool(Head(toNode).call) PROVE PongAfterFilter'
  BY Queues, <1>18, NodeMoves, PongAfterFilterQuiet DEF ServeMempool, NodeSends, peerVars, outVars
<1>19. ASSUME Served("inv"), ServeInv(Head(toNode).txs) PROVE PongAfterFilter'
  BY Queues, <1>19, NodeMoves, PongAfterFilterQuiet DEF ServeInv, NodeSends, peerVars, outVars
<1>20. ASSUME Served("tx"), ServeTx(Head(toNode).tx) PROVE PongAfterFilter'
  BY Queues, <1>20, NodeMoves, PongAfterFilterQuiet DEF ServeTx, NodeSends, peerVars, outVars
<1>21. ASSUME NEW all \in BOOLEAN, Served("getdata"), ServeGetdata(Head(toNode).txs, Head(toNode).block, all) PROVE PongAfterFilter'
  BY Queues, <1>21, DataMoves, PongAfterFilterQuiet DEF ServeGetdata, NodeSends, peerVars, nodeVars, outVars
<1>22. ASSUME NEW b \in Block, Mine(b) PROVE PongAfterFilter'
  BY Queues, <1>22, NodeMoves, PongAfterFilterQuiet DEF Mine, NodeSends, peerVars, outVars
<1>23. ASSUME NEW b \in Block, AnnounceBlock(b) PROVE PongAfterFilter'
  BY Queues, <1>23, NodeMoves, PongAfterFilterQuiet DEF AnnounceBlock, NodeSends, peerVars, outVars
<1>24. ASSUME NEW t \in Tx, Announce(t) PROVE PongAfterFilter'
  BY Queues, <1>24, NodeMoves, PongAfterFilterQuiet DEF Announce, NodeSends, peerVars, outVars
<1>25. QED
  BY <1>1, <1>2, <1>3, <1>4, <1>5, <1>6, <1>7, <1>8, <1>9, <1>10, <1>11, <1>12, <1>13, <1>14, <1>15, <1>16,
      <1>17, <1>18, <1>19, <1>20, <1>21, <1>22, <1>23, <1>24 DEF OpenStep

\* MempoolAnnounced stays if nobody is called and no request is made or served.
LEMMA MempoolAnnouncedQuiet ==
  ASSUME QueuesOK, QueuesOK', Open, MempoolAnnounced, NEW r, NEW P, NEW s, NEW N, Moving(r, P, s, N),
         "mempool" \notin N, known \subseteq known', listed' = listed,
         \A c \in MempoolCall : result'[c] = "ok" => result[c] = "ok"
  PROVE  MempoolAnnounced'
<1> SUFFICES ASSUME NEW c \in MempoolCall, result'[c] = "ok"
             PROVE  (\A i \in DOMAIN toNode' : toNode'[i] # Mempool(c)) /\ listed'[c] \subseteq known'
  BY DEF MempoolAnnounced
<1>1. (\A i \in DOMAIN toNode : toNode[i] # Mempool(c)) /\ listed[c] \subseteq known
  BY DEF MempoolAnnounced, Open
<1>2. ASSUME NEW i \in DOMAIN toNode', toNode'[i] = Mempool(c) PROVE FALSE
  <2>1. toNode'[i].type = "mempool"
    BY <1>2 DEF Mempool
  <2>2. i + Goes(s) \in DOMAIN toNode /\ toNode'[i] = toNode[i + Goes(s)]
    BY <2>1, PingsMove
  <2>3. QED
    BY <1>1, <1>2, <2>2
<1>3. QED
  BY <1>1, <1>2

\* MempoolAnnounced is kept by each step of an open connection.
LEMMA MempoolAnnouncedStep ==
  ASSUME TypeOK, TypeOK', Open, UnderWay, MempoolAnnounced, OpenStep
  PROVE  MempoolAnnounced'
<1>t. /\ result \in [Call -> {"none", "waiting", "ok", "failed", "stranded"}] /\ listed \in [MempoolCall -> SUBSET Tx]
      /\ PingCall \subseteq Call /\ MempoolCall \subseteq Call /\ PingCall \cap MempoolCall = {}
  BY PeerAssumption DEF TypeOK, Call
<1>1. ASSUME SendFilterload PROVE MempoolAnnounced'
  BY Queues, <1>1, ManagerMoves, MempoolAnnouncedQuiet DEF SendFilterload, nodeVars, outVars
<1>2. ASSUME NEW c \in PingCall, SendPing(c) PROVE MempoolAnnounced'
  <2>1. Moving("none", {}, "none", {"ping"})
    BY <1>2, ManagerMoves
  <2>2. result' = [result EXCEPT ![c] = "waiting"] /\ known' = known /\ listed' = listed
    BY <1>2 DEF SendPing, Registered, Open
  <2>3. \A d \in MempoolCall : result'[d] = "ok" => result[d] = "ok"
    BY <1>t, <2>2
  <2>4. QED
    BY <2>1, <2>2, <2>3, Queues, MempoolAnnouncedQuiet
<1>3. ASSUME NEW c \in MempoolCall, NEW published \in SUBSET Own, SendMempool(c, published) PROVE MempoolAnnounced'
  <2>1. /\ known \subseteq known' /\ listed' = listed /\ result[c] = "none" /\ result' = [result EXCEPT ![c] = result'[c]]
        /\ result'[c] \in {"failed", "waiting"}
    BY <1>3, RequestedMempool
  <2>2. ASSUME NEW d \in MempoolCall, result'[d] = "ok" PROVE d # c /\ result[d] = "ok"
    BY <1>t, <2>1, <2>2
  <2>3. CASE Moving("none", {}, "none", {})
    BY <2>1, <2>2, <2>3, Queues, MempoolAnnouncedQuiet
  <2>4. ASSUME Moving("none", {}, "none", {"mempool"}), Gains(toNode, toNode', Mempool(c)),
               NEW d \in MempoolCall, result'[d] = "ok"
        PROVE  (\A i \in DOMAIN toNode' : toNode'[i] # Mempool(d)) /\ listed'[d] \subseteq known'
    <3>1. d # c /\ result[d] = "ok"
      BY <2>2, <2>4
    <3>2. (\A i \in DOMAIN toNode : toNode[i] # Mempool(d)) /\ listed[d] \subseteq known
      BY <3>1 DEF MempoolAnnounced, Open
    <3>3. ASSUME NEW i \in DOMAIN toNode', toNode'[i] = Mempool(d) PROVE FALSE
      <4>1. toNode'[i].type = "mempool" /\ toNode'[i].call = d /\ Mempool(c).type = "mempool" /\ Mempool(c).call = c
        BY <3>3 DEF Mempool
      <4>2. i # Len(toNode')
        BY <2>4, <3>1, <4>1 DEF Gains
      <4>3. i \in 1..Len(toNode') /\ i < Len(toNode') /\ i \in Nat
        BY <4>2, Queues DEF QueuesOK
      <4>4. ~(i > Len(toNode))
        BY <2>4, <4>1, <4>3 DEF Gains
      <4>5. i \in DOMAIN toNode /\ toNode'[i] = toNode[i]
        BY <2>4, <4>3, <4>4, Queues, Places DEF Goes, QueuesOK
      <4>6. QED
        BY <3>2, <3>3, <4>5
    <3>4. QED
      BY <2>1, <3>2, <3>3
  <2>5. CASE Moving("none", {}, "none", {"mempool"}) /\ Gains(toNode, toNode', Mempool(c))
    BY <2>4, <2>5 DEF MempoolAnnounced
  <2>6. QED
    BY <1>3, <2>3, <2>5, ManagerMoves
<1>4. ASSUME NEW t \in Own, SendInv(t) PROVE MempoolAnnounced'
  BY Queues, <1>4, ManagerMoves, MempoolAnnouncedQuiet DEF SendInv, nodeVars, outVars
<1>5. ASSUME AcceptVersion PROVE MempoolAnnounced'
  BY Queues, <1>5, PeerMoves, MempoolAnnouncedQuiet DEF AcceptVersion, Receive, nodeVars
<1>6. ASSUME AcceptVerack PROVE MempoolAnnounced'
  BY Queues, <1>6, PeerMoves, MempoolAnnouncedQuiet DEF AcceptVerack, Receive, nodeVars
<1>7. ASSUME AcceptInv PROVE MempoolAnnounced'
  <2>1. Moving("inv", {}, "none", {"getdata", "ping"})
    BY <1>7, PeerMoves
  <2>2. known \subseteq known' /\ listed' = listed /\ result' = result
    BY <1>7 DEF AcceptInv, Asked, Receive, nodeVars
  <2>3. QED
    BY <2>1, <2>2, Queues, MempoolAnnouncedQuiet
<1>8. ASSUME AcceptTx PROVE MempoolAnnounced'
  BY Queues, <1>8, PeerMoves, MempoolAnnouncedQuiet DEF AcceptTx, Receive, nodeVars
<1>9. ASSUME AcceptMerkleblock PROVE MempoolAnnounced'
  BY Queues, <1>9, PeerMoves, MempoolAnnouncedQuiet DEF AcceptMerkleblock, Receive, nodeVars
<1>10. ASSUME AcceptGetdata PROVE MempoolAnnounced'
  BY Queues, <1>10, PeerMoves, MempoolAnnouncedQuiet DEF AcceptGetdata, Receive, nodeVars
<1>11. ASSUME AcceptPong PROVE MempoolAnnounced'
  <2>1. /\ result' = [result EXCEPT ![pongs[1]] = "ok"] /\ known' = known /\ listed' = listed
    BY <1>11, AnsweredPong
  <2>2. Moving("pong", {}, "none", {})
    BY <1>11, PeerMoves
  <2>3. 1 \in DOMAIN toPeer /\ toPeer[1].type = "pong" /\ toPeer[1].call = pongs[1]
    BY <1>11, <2>2, PongsInOrderAnswered DEF UnderWay
  <2>4. \A t : ~InvBefore(t, 1)
    BY Queues DEF InvBefore, QueuesOK
  <2>5. ASSUME pongs[1] \in MempoolCall
        PROVE  (\A i \in DOMAIN toNode : toNode[i] # Mempool(pongs[1])) /\ listed[pongs[1]] \subseteq known
    BY <2>3, <2>4, <2>5, MempoolsInOrderParts DEF UnderWay, PongsAfterRequests, Is
  <2>6. \A d \in MempoolCall : d # pongs[1] => result'[d] = result[d]
    BY <1>t, <2>1
  <2>7. ASSUME NEW d \in MempoolCall, result'[d] = "ok"
        PROVE  (\A i \in DOMAIN toNode' : toNode'[i] # Mempool(d)) /\ listed'[d] \subseteq known'
    <3>1. (\A i \in DOMAIN toNode : toNode[i] # Mempool(d)) /\ listed[d] \subseteq known
      BY <2>5, <2>6, <2>7 DEF MempoolAnnounced, Open
    <3>2. \A i \in DOMAIN toNode' : \E j \in DOMAIN toNode : toNode'[i] = toNode[j]
      BY <2>2, Queues, Places
    <3>3. QED
      BY <2>1, <3>1, <3>2
  <2>8. QED
    BY <2>7 DEF MempoolAnnounced
<1>12. ASSUME AcceptNotfound PROVE MempoolAnnounced'
  BY Queues, <1>12, PeerMoves, MempoolAnnouncedQuiet DEF AcceptNotfound, Receive, nodeVars
<1>13. ASSUME MempoolTimeout PROVE MempoolAnnounced'
  BY Queues, <1>13, PeerMoves, MempoolAnnouncedQuiet DEF MempoolTimeout, nodeVars, outVars
<1>14. ASSUME Served("version"), ServeVersion PROVE MempoolAnnounced'
  BY Queues, <1>14, NodeMoves, MempoolAnnouncedQuiet DEF ServeVersion, NodeSends, peerVars, nodeVars, outVars
<1>15. ASSUME Served("verack"), ServeVerack PROVE MempoolAnnounced'
  BY Queues, <1>15, NodeMoves, MempoolAnnouncedQuiet DEF ServeVerack, NodeSends, peerVars, nodeVars, outVars
<1>16. ASSUME Served("ping"), ServePing(Head(toNode).call) PROVE MempoolAnnounced'
  BY Queues, <1>16, NodeMoves, MempoolAnnouncedQuiet DEF ServePing, NodeSends, peerVars, nodeVars, outVars
<1>17. ASSUME Served("filterload"), ServeFilterload(Head(toNode).number) PROVE MempoolAnnounced'
  BY Queues, <1>17, NodeMoves, MempoolAnnouncedQuiet DEF ServeFilterload, NodeSends, peerVars, outVars
<1>18. ASSUME Served("mempool"), ServeMempool(Head(toNode).call) PROVE MempoolAnnounced'
  <2>1. Moving("none", {"inv"}, "mempool", {})
    BY <1>18, NodeMoves
  <2>2. /\ known' = known /\ listed' = [listed EXCEPT ![Head(toNode).call] = pool] /\ result' = result
    BY <1>18 DEF ServeMempool, NodeSends, peerVars, outVars
  <2>3. 1 \in DOMAIN toNode /\ toNode[1] = Mempool(Head(toNode).call)
    BY <1>18, Queues, ServedMoves, MessagesToNode DEF QueuesOK
  <2>4. ASSUME NEW d \in MempoolCall, result'[d] = "ok"
        PROVE  (\A i \in DOMAIN toNode' : toNode'[i] # Mempool(d)) /\ listed'[d] \subseteq known'
    <3>1. (\A i \in DOMAIN toNode : toNode[i] # Mempool(d)) /\ listed[d] \subseteq known
      BY <2>2, <2>4 DEF MempoolAnnounced, Open
    <3>2. \A i \in DOMAIN toNode' : \E j \in DOMAIN toNode : toNode'[i] = toNode[j]
      BY <2>1, Queues, Places
    <3>3. d # Head(toNode).call
      BY <2>3, <3>1
    <3>4. listed'[d] = listed[d]
      BY <1>t, <2>2, <3>3
    <3>5. QED
      BY <2>2, <3>1, <3>2, <3>4
  <2>5. QED
    BY <2>4 DEF MempoolAnnounced
<1>19. ASSUME Served("inv"), ServeInv(Head(toNode).txs) PROVE MempoolAnnounced'
  BY Queues, <1>19, NodeMoves, MempoolAnnouncedQuiet DEF ServeInv, NodeSends, peerVars, outVars
<1>20. ASSUME Served("tx"), ServeTx(Head(toNode).tx) PROVE MempoolAnnounced'
  BY Queues, <1>20, NodeMoves, MempoolAnnouncedQuiet DEF ServeTx, NodeSends, peerVars, outVars
<1>21. ASSUME NEW all \in BOOLEAN, Served("getdata"), ServeGetdata(Head(toNode).txs, Head(toNode).block, all) PROVE MempoolAnnounced'
  BY Queues, <1>21, DataMoves, MempoolAnnouncedQuiet DEF ServeGetdata, NodeSends, peerVars, nodeVars, outVars
<1>22. ASSUME NEW b \in Block, Mine(b) PROVE MempoolAnnounced'
  BY Queues, <1>22, NodeMoves, MempoolAnnouncedQuiet DEF Mine, NodeSends, peerVars, outVars
<1>23. ASSUME NEW b \in Block, AnnounceBlock(b) PROVE MempoolAnnounced'
  BY Queues, <1>23, NodeMoves, MempoolAnnouncedQuiet DEF AnnounceBlock, NodeSends, peerVars, outVars
<1>24. ASSUME NEW t \in Tx, Announce(t) PROVE MempoolAnnounced'
  BY Queues, <1>24, NodeMoves, MempoolAnnouncedQuiet DEF Announce, NodeSends, peerVars, outVars
<1>25. QED
  BY <1>1, <1>2, <1>3, <1>4, <1>5, <1>6, <1>7, <1>8, <1>9, <1>10, <1>11, <1>12, <1>13, <1>14, <1>15, <1>16,
      <1>17, <1>18, <1>19, <1>20, <1>21, <1>22, <1>23, <1>24 DEF OpenStep

-----------------------------------------------------------------------------
(***************************************************************************)
(* What is promised, once the connection is closed.                        *)
(***************************************************************************)
\* the properties of a node that keeps to the protocol
Promises == HonestNodeKept /\ PongAfterFilter /\ MempoolAnnounced

\* While the node keeps to the protocol, the steps other than those of an open
\* connection are the end of the thread, and what the manager sends in vain.
LEMMA ClosedSteps ==
  ASSUME Next, ~strayed', stage' # "running"
  PROVE  /\ ~strayed
         /\ \/ Manager /\ stage # "running"
            \/ Open /\ ((IncompleteBlock \/ Unexpected) \/ Fail("other"))
            \/ Flush \/ Disconnected
<1>1. CASE Manager
  <2>1. stage' = stage /\ strayed' = strayed
    BY <1>1 DEF Manager, SendFilterload, SendPing, SendMempool, SendInv, nodeVars
  <2>2. QED
    BY <1>1, <2>1
<1>2. CASE Accept
  <2>1. ASSUME NEW type, Receive(type) PROVE FALSE
    BY <2>1 DEF Receive
  <2>2. IncompleteBlock \/ Unexpected
    BY <1>2, <2>1 DEF Accept, AcceptVersion, AcceptVerack, AcceptInv, AcceptTx, AcceptMerkleblock,
      AcceptGetdata, AcceptPong, AcceptNotfound
  <2>3. Fail("protocol")
    BY <2>2 DEF IncompleteBlock, Unexpected
  <2>4. QED
    BY <2>2, <2>3 DEF Fail, nodeVars, Open
<1>3. CASE Close
  BY <1>3 DEF Close, Fail, nodeVars, Open
<1>4. CASE Flush \/ Disconnected
  BY <1>4 DEF Flush, Disconnected, nodeVars
<1>5. CASE MempoolTimeout
  BY <1>5 DEF MempoolTimeout
<1>6. CASE Node
  <2>1. stage = "running" /\ stage' = stage
    BY <1>6 DEF Node, ServeNext, Serve, ServeVersion, ServeVerack, ServePing, ServeFilterload, ServeMempool,
      ServeInv, ServeTx, ServeGetdata, Stray, Mine, AnnounceBlock, Announce, NodeSends, peerVars
  <2>2. QED
    BY <2>1
<1>7. QED
  BY <1>1, <1>2, <1>3, <1>4, <1>5, <1>6 DEF Next

\* The promises stay if nobody is called with success, and no request is made.
LEMMA PromisesKept ==
  ASSUME Promises, ~strayed, error' = error \/ error' = "other",
         loaded' = loaded, listed' = listed, known \subseteq known',
         toNode' = toNode \/ toNode' = <<>>,
         \A c \in PingCall : result'[c] = "ok" => result[c] = "ok" /\ after'[c] = after[c],
         \A c \in MempoolCall : result'[c] = "ok" => result[c] = "ok"
  PROVE  Promises'
<1>1. HonestNodeKept'
  BY DEF Promises, HonestNodeKept
<1>2. PongAfterFilter'
  BY DEF Promises, PongAfterFilter
<1>3. ASSUME NEW c \in MempoolCall, result'[c] = "ok"
      PROVE  (\A i \in DOMAIN toNode' : toNode'[i] # Mempool(c)) /\ listed'[c] \subseteq known'
  <2>1. (\A i \in DOMAIN toNode : toNode[i] # Mempool(c)) /\ listed[c] \subseteq known
    BY <1>3 DEF Promises, MempoolAnnounced
  <2>2. DOMAIN <<>> = {}
    OBVIOUS
  <2>3. QED
    BY <2>1, <2>2
<1>4. QED
  BY <1>1, <1>2, <1>3 DEF Promises, MempoolAnnounced

\* The promises are kept by the end of the thread and by what is sent in vain.
LEMMA PromisesClosed ==
  ASSUME TypeOK, Promises, Open => UnderWay, Next, ~strayed', stage' # "running"
  PROVE  Promises'
<1>t. /\ result \in [Call -> {"none", "waiting", "ok", "failed", "stranded"}]
      /\ PingCall \subseteq Call /\ MempoolCall \subseteq Call /\ PingCall \cap MempoolCall = {}
      /\ after \in [PingCall -> 0..MaxFilters] /\ ~strayed /\ pongs \in Seq(Call)
  BY ClosedSteps, PeerAssumption DEF TypeOK, Call
<1>1. CASE Manager /\ stage # "running"
  <2>1. /\ error' = error /\ loaded' = loaded /\ listed' = listed /\ known \subseteq known'
    BY <1>1 DEF Manager, SendFilterload, SendPing, SendMempool, SendInv, nodeVars
  <2>2. toNode' = toNode
    BY <1>1 DEF Manager, SendFilterload, SendPing, SendMempool, SendInv, Sent
  <2>3. CASE result' = result /\ after' = after
    BY <1>t, <2>1, <2>2, <2>3, PromisesKept
  <2>4. ASSUME NEW c \in Call, result[c] = "none", result' = [result EXCEPT ![c] = result'[c]], result'[c] # "ok",
               \A d \in PingCall : d # c => after'[d] = after[d]
        PROVE  Promises'
    <3>1. ASSUME NEW d \in Call, result'[d] = "ok" PROVE d # c /\ result[d] = "ok"
      BY <1>t, <2>4, <3>1
    <3>2. QED
      BY <1>t, <2>1, <2>2, <2>4, <3>1, PromisesKept
  <2>5. CASE SendFilterload \/ \E t \in Own : SendInv(t)
    BY <2>3, <2>5 DEF SendFilterload, SendInv, outVars
  <2>6. ASSUME NEW c \in PingCall, SendPing(c) PROVE Promises'
    <3>1. /\ result[c] = "none" /\ result' = [result EXCEPT ![c] = Registered] /\ Registered # "ok"
          /\ after' = [after EXCEPT ![c] = filters]
      BY <2>6 DEF SendPing, Registered
    <3>2. result'[c] = Registered /\ \A d \in PingCall : d # c => after'[d] = after[d]
      BY <1>t, <3>1
    <3>3. QED
      BY <1>t, <2>4, <3>1, <3>2
  <2>7. ASSUME NEW c \in MempoolCall, NEW published \in SUBSET Own, SendMempool(c, published) PROVE Promises'
    <3>1. /\ result[c] = "none" /\ after' = after /\ Registered # "ok"
          /\ result' = [result EXCEPT ![c] = "failed"] \/ result' = [result EXCEPT ![c] = Registered]
      BY <2>7 DEF SendMempool, Registered
    <3>2. result' = [result EXCEPT ![c] = result'[c]] /\ result'[c] # "ok"
      BY <1>t, <3>1
    <3>3. QED
      BY <1>t, <2>4, <3>1, <3>2
  <2>8. QED
    BY <1>1, <2>5, <2>6, <2>7 DEF Manager
<1>2. CASE Open /\ (IncompleteBlock \/ Unexpected)
  BY <1>2, NothingWrong
<1>3. CASE Fail("other")
  <2>1. /\ error' = "other" /\ loaded' = loaded /\ listed' = listed /\ known' = known /\ toNode' = <<>>
        /\ result' = result /\ after' = after
    BY <1>3 DEF Fail, nodeVars, outVars
  <2>2. QED
    BY <1>t, <2>1, PromisesKept
<1>4. CASE Flush
  <2>1. /\ error' = error /\ loaded' = loaded /\ listed' = listed /\ known' = known /\ toNode' = toNode /\ after' = after
    BY <1>4 DEF Flush, nodeVars
  <2>2. ASSUME NEW c \in Call, result'[c] = "ok" PROVE result[c] = "ok"
    <3>1. CASE pongs # <<>>
      <4>1. result' = [result EXCEPT ![Head(pongs)] = "failed"]
        BY <1>4, <3>1 DEF Flush
      <4>2. QED
        BY <1>t, <2>2, <4>1
    <3>2. CASE pongs = <<>>
      <4>1. result' = [d \in Call |-> IF d = LastCalled THEN "failed" ELSE result[d]]
        BY <1>4, <3>2 DEF Flush
      <4>2. QED
        BY <2>2, <4>1
    <3>3. QED
      BY <3>1, <3>2
  <2>3. QED
    BY <1>t, <2>1, <2>2, PromisesKept
<1>5. CASE Disconnected
  <2>1. /\ error' = error /\ loaded' = loaded /\ listed' = listed /\ known' = known /\ toNode' = toNode
        /\ result' = result /\ after' = after
    BY <1>5 DEF Disconnected, nodeVars, outVars
  <2>2. QED
    BY <1>t, <2>1, PromisesKept
<1>6. QED
  BY <1>1, <1>2, <1>3, <1>4, <1>5, ClosedSteps

\* No step after which the connection is open sets an error.
LEMMA ErrorStep ==
  ASSUME OpenStep
  PROVE  error' = error
<1>1. ASSUME SendFilterload PROVE error' = error
  BY <1>1 DEF SendFilterload
<1>2. ASSUME NEW c \in PingCall, SendPing(c) PROVE error' = error
  BY <1>2 DEF SendPing
<1>3. ASSUME NEW c \in MempoolCall, NEW published \in SUBSET Own, SendMempool(c, published) PROVE error' = error
  BY <1>3 DEF SendMempool
<1>4. ASSUME NEW t \in Own, SendInv(t) PROVE error' = error
  BY <1>4 DEF SendInv
<1>5. ASSUME AcceptVersion PROVE error' = error
  BY <1>5 DEF AcceptVersion, Receive
<1>6. ASSUME AcceptVerack PROVE error' = error
  BY <1>6 DEF AcceptVerack, Receive
<1>7. ASSUME AcceptInv PROVE error' = error
  BY <1>7 DEF AcceptInv, Receive
<1>8. ASSUME AcceptTx PROVE error' = error
  BY <1>8 DEF AcceptTx, Receive
<1>9. ASSUME AcceptMerkleblock PROVE error' = error
  BY <1>9 DEF AcceptMerkleblock, Receive
<1>10. ASSUME AcceptGetdata PROVE error' = error
  BY <1>10 DEF AcceptGetdata, Receive
<1>11. ASSUME AcceptPong PROVE error' = error
  BY <1>11 DEF AcceptPong, Receive
<1>12. ASSUME AcceptNotfound PROVE error' = error
  BY <1>12 DEF AcceptNotfound, Receive
<1>13. ASSUME MempoolTimeout PROVE error' = error
  BY <1>13 DEF MempoolTimeout
<1>14. ASSUME Served("version"), ServeVersion PROVE error' = error
  BY <1>14 DEF ServeVersion, NodeSends, peerVars
<1>15. ASSUME Served("verack"), ServeVerack PROVE error' = error
  BY <1>15 DEF ServeVerack, NodeSends, peerVars
<1>16. ASSUME Served("ping"), ServePing(Head(toNode).call) PROVE error' = error
  BY <1>16 DEF ServePing, NodeSends, peerVars
<1>17. ASSUME Served("filterload"), ServeFilterload(Head(toNode).number) PROVE error' = error
  BY <1>17 DEF ServeFilterload, NodeSends, peerVars
<1>18. ASSUME Served("mempool"), ServeMempool(Head(toNode).call) PROVE error' = error
  BY <1>18 DEF ServeMempool, NodeSends, peerVars
<1>19. ASSUME Served("inv"), ServeInv(Head(toNode).txs) PROVE error' = error
  BY <1>19 DEF ServeInv, NodeSends, peerVars
<1>20. ASSUME Served("tx"), ServeTx(Head(toNode).tx) PROVE error' = error
  BY <1>20 DEF ServeTx, NodeSends, peerVars
<1>21. ASSUME NEW all \in BOOLEAN, Served("getdata"), ServeGetdata(Head(toNode).txs, Head(toNode).block, all) PROVE error' = error
  BY <1>21 DEF ServeGetdata, NodeSends, peerVars
<1>22. ASSUME NEW b \in Block, Mine(b) PROVE error' = error
  BY <1>22 DEF Mine, NodeSends, peerVars
<1>23. ASSUME NEW b \in Block, AnnounceBlock(b) PROVE error' = error
  BY <1>23 DEF AnnounceBlock, NodeSends, peerVars
<1>24. ASSUME NEW t \in Tx, Announce(t) PROVE error' = error
  BY <1>24 DEF Announce, NodeSends, peerVars
<1>25. QED
  BY <1>1, <1>2, <1>3, <1>4, <1>5, <1>6, <1>7, <1>8, <1>9, <1>10, <1>11, <1>12, <1>13, <1>14, <1>15, <1>16,
      <1>17, <1>18, <1>19, <1>20, <1>21, <1>22, <1>23, <1>24 DEF OpenStep

-----------------------------------------------------------------------------
(***************************************************************************)
(* The invariant and what follows from it.                                 *)
(***************************************************************************)
\* IInv by its parts.
LEMMA IInvParts ==
  /\ IInv <=> TypeOK /\ BlocksAskedFor /\ Promises /\ (Open => UnderWay)
  /\ IInv' <=> TypeOK' /\ BlocksAskedFor' /\ Promises' /\ (Open' => UnderWay')
BY DEF IInv, BlocksAskedFor, Promises, Open

\* No message but the version is under way at first, and nobody was called.
LEMMA InitHolds == Init => IInv
<1> SUFFICES ASSUME Init PROVE IInv
  OBVIOUS
<1>1. TypeOK
  BY InitType
<1>2. BlocksAskedFor
  BY DEF Init, BlocksAskedFor, CurrentAskedFor, BlockAskedFor
<1>3. Promises
  BY DEF Init, Promises, HonestNodeKept, PongAfterFilter, MempoolAnnounced, Call
<1>4. /\ DOMAIN toPeer = {} /\ DOMAIN pongs = {} /\ DOMAIN toNode = {1} /\ toNode[1].type = "version"
      /\ \A i \in DOMAIN toNode : toNode[i].type = "version"
  BY DEF Init, Bare
<1>5. NothingEarly
  BY <1>4 DEF Init, NothingEarly
<1>6. ToldIsKnown
  BY <1>4 DEF Init, ToldIsKnown
<1>7. BlocksCovered
  BY <1>4 DEF Init, BlocksCovered
<1>8. PongsInOrder
  BY <1>4 DEF PongsInOrder, Is
<1>9. FiltersInOrder
  <2>1. loaded = 0 /\ filters = 0
    BY DEF Init
  <2>2. QED
    BY <1>4, <2>1 DEF FiltersInOrder, Is
<1>10. MempoolsInOrder
  BY <1>4 DEF MempoolsInOrder, Is
<1>11. Registrations
  BY <1>4 DEF Init, Registrations
<1>12. QED
  BY <1>1, <1>2, <1>3, <1>5, <1>6, <1>7, <1>8, <1>9, <1>10, <1>11, IInvParts DEF UnderWay

\* The inductive step.
LEMMA NextKeeps == IInv /\ [Next]_vars => IInv'
<1> SUFFICES ASSUME IInv, [Next]_vars PROVE IInv'
  OBVIOUS
<1>1. TypeOK /\ BlocksAskedFor /\ Promises /\ (Open => UnderWay)
  BY IInvParts
<1>2. TypeOK' /\ BlocksAskedFor'
  BY <1>1, StepType, BlocksStep
<1>3. CASE UNCHANGED vars
  <2>1. Promises'
    BY <1>1, <1>3 DEF vars, peerVars, nodeVars, outVars, Promises, HonestNodeKept, PongAfterFilter, MempoolAnnounced
  <2>2. ASSUME Open' PROVE UnderWay'
    <3>1. UnderWay
      BY <1>1, <1>3, <2>2 DEF Open, vars, peerVars, nodeVars
    <3>2. NothingEarly' /\ ToldIsKnown' /\ BlocksCovered'
      BY <1>3, <3>1 DEF UnderWay, vars, peerVars, nodeVars, NothingEarly, ToldIsKnown, BlocksCovered, InvBefore, Follows
    <3>3. PongsInOrder' /\ FiltersInOrder' /\ MempoolsInOrder' /\ Registrations'
      BY <1>3, <3>1 DEF UnderWay, vars, peerVars, nodeVars, outVars, PongsInOrder, FiltersInOrder, MempoolsInOrder,
        Registrations, InvBefore, Earlier, Is
    <3>4. QED
      BY <3>2, <3>3 DEF UnderWay
  <2>3. QED
    BY <1>2, <2>1, <2>2, IInvParts
<1>4. CASE Next /\ Open'
  <2>1. Open /\ OpenStep
    BY <1>4, OpenSteps
  <2>2. UnderWay'
    BY <1>1, <1>2, <2>1, UnderWayStep
  <2>3. error' = error
    BY <1>1, <2>1, ErrorStep
  <2>4. Promises'
    BY <1>1, <1>2, <2>1, <2>3, PongAfterFilterStep, MempoolAnnouncedStep DEF Promises, HonestNodeKept, Open
  <2>5. QED
    BY <1>2, <2>2, <2>4, IInvParts
<1>5. CASE Next /\ ~Open' /\ ~strayed'
  <2>1. Promises'
    BY <1>1, <1>5, PromisesClosed DEF Open
  <2>2. QED
    BY <1>2, <1>5, <2>1, IInvParts
<1>6. CASE strayed'
  <2>1. Promises' /\ ~Open'
    BY <1>6 DEF Promises, HonestNodeKept, PongAfterFilter, MempoolAnnounced, Open
  <2>2. QED
    BY <1>2, <2>1, IInvParts
<1>7. QED
  BY <1>3, <1>4, <1>5, <1>6

\* The inductive invariant, for any transactions, blocks, calls and filters and
\* however many messages are under way: TypeOK, what was asked for of each
\* block, the three promises below and, as long as the connection is open and
\* the node keeps to the protocol, what the messages under way tell.
THEOREM Invariance == Spec => []IInv
BY InitHolds, NextKeeps, PTL DEF Spec

\* Messages, callbacks and sets keep their types.
THEOREM TypeCorrect == Spec => []TypeOK
<1>1. IInv => TypeOK
  BY DEF IInv
<1> QED BY <1>1, Invariance, PTL

\* A node that keeps to the protocol is never dropped for a protocol error
\* (_BRPeerAcceptMessage, _BRPeerAcceptInvMessage and the other handlers).
THEOREM HonestNodeNotDropped == Spec => []HonestNodeKept
<1>1. IInv => HonestNodeKept
  BY DEF IInv
<1> QED BY <1>1, Invariance, PTL

\* When the callback of BRPeerSendPing is called with success the node has
\* loaded every filter that was sent before the ping, though all pings carry
\* the same nonce and other callbacks wait (_BRPeerAcceptPongMessage).
THEOREM PongTellsOfFilter == Spec => []PongAfterFilter
<1>1. IInv => PongAfterFilter
  BY DEF IInv
<1> QED BY <1>1, Invariance, PTL

\* When the callback of BRPeerSendMempool is called with success the node has
\* served the request and all that it listed is known.
THEOREM MempoolTellsOfAll == Spec => []MempoolAnnounced
<1>1. IInv => MempoolAnnounced
  BY DEF IInv
<1> QED BY <1>1, Invariance, PTL

\* No block is handed over with a transaction that nobody announced, whatever
\* the node sends (_BRPeerAcceptMerkleblockMessage, _BRPeerAcceptTxMessage).
THEOREM BlocksAreAskedFor == Spec => []BlockAskedFor
<1>1. IInv => BlockAskedFor
  BY DEF IInv
<1> QED BY <1>1, Invariance, PTL

=============================================================================
