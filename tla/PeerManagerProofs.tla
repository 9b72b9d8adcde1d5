-------------------------- MODULE PeerManagerProofs -------------------------
(***************************************************************************)
(* The peer manager keeps its inductive invariant: a download peer that is *)
(* listed, bounded connections, a sync that someone works for, and publish *)
(* callbacks that are listed once and timed, for any number of peers,      *)
(* transactions and calls.  The publish list implements PublishPromise.    *)
(***************************************************************************)
EXTENDS PeerManager, FiniteSetTheorems, TLAPS

-----------------------------------------------------------------------------
(***************************************************************************)
(* The operators that the handlers share.                                  *)
(***************************************************************************)
Knowledge == [Peer -> [Tx -> {"no", "told", "known"}]]

LEMMA ListedType ==
  ASSUME TypeOK, NEW t \in Tx, NEW c \in Call \cup {NoCall}
  PROVE  Listed(t, c) \in [Tx -> Call \cup {NoCall, Unlisted}]
BY DEF TypeOK, Listed

LEMMA InformedType ==
  ASSUME TypeOK, NEW ps, NEW list, NEW how \in {"told", "known"}
  PROVE  Informed(ps, list, how) \in Knowledge
BY DEF TypeOK, Informed, Knowledge

LEMMA PublishTimedType ==
  ASSUME NEW ps \in SUBSET Peer, NEW list
  PROVE  PublishTimed(ps, list) \subseteq Peer
BY DEF PublishTimed

LEMMA SyncStoppedTimedType ==
  ASSUME TypeOK, NEW d
  PROVE  SyncStoppedTimed(d) \subseteq Peer
BY DEF TypeOK, SyncStoppedTimed

LEMMA AnswerTimedType ==
  ASSUME TypeOK, NEW p, NEW t
  PROVE  AnswerTimed(p, t) \subseteq Peer
BY DEF TypeOK, AnswerTimed

LEMMA AnsweredType ==
  ASSUME TypeOK, NEW t \in Tx, NEW r \in {"ok", "invalid"}, Answered(t, r)
  PROVE  /\ published' \in [Tx -> Call \cup {NoCall, Unlisted}]
         /\ answer' \in [Call -> {"none", "checking", "accepted", "lost"} \cup Results]
BY DEF TypeOK, Answered, Results

LEMMA LoadMempoolsType ==
  ASSUME TypeOK, NEW d, NEW fpHigh \in BOOLEAN, LoadMempools(Up, d, fpHigh)
  PROVE  /\ known' \in Knowledge /\ timed' \subseteq Peer
         /\ asked' \in [Peer -> SUBSET {"filter", "mempool"}]
<1> DEFINE filtered == IF fpHigh THEN Up ELSE Up \ {d}
<1>1. Up \subseteq Peer /\ filtered \subseteq Peer
  BY DEF Up
<1> HIDE DEF filtered
<1>2. timed' = timed \cup PublishTimed(filtered, published)
  BY DEF LoadMempools, filtered
<1>3. timed' \subseteq Peer
  BY <1>1, <1>2, PublishTimedType DEF TypeOK
<1>4. known' \in Knowledge
  <2> DEFINE a == Informed(Up, published, "told")
             b == Informed(Up, published, "known")
  <2>1. a \in Knowledge /\ b \in Knowledge
    BY InformedType
  <2>2. known' = [p \in Peer |-> IF p \in filtered THEN a[p] ELSE b[p]]
    BY DEF LoadMempools, filtered
  <2> HIDE DEF a, b
  <2> QED BY <2>1, <2>2 DEF Knowledge
<1>5. asked' \in [Peer -> SUBSET {"filter", "mempool"}]
  <2>1. asked' = [p \in Peer |-> IF p \in filtered THEN asked[p] \cup {"filter"}
                                 ELSE IF p \in Up THEN asked[p] \cup {"mempool"} ELSE asked[p]]
    BY DEF LoadMempools, filtered
  <2> QED BY <2>1 DEF TypeOK
<1> QED BY <1>3, <1>4, <1>5

-----------------------------------------------------------------------------
(***************************************************************************)
(* Types.                                                                  *)
(***************************************************************************)
LEMMA ThreadKeepsType ==
  ASSUME TypeOK, NEW t \in Thread, ThreadStep(t)
  PROVE  TypeOK'
<1>1. ASSUME Redial(t)
      PROVE  /\ stage' \in [Peer -> {"none", "waiting"} \cup Running \cup Gone]
             /\ timed' \subseteq Peer /\ pc' \in [Thread -> {"idle", "wait"} \cup Underway]
             /\ UNCHANGED <<known, asked>>
  BY <1>1 DEF TypeOK, Redial, Running, Underway
<1>2. CASE ConnectBegin(t)
  <2>1. failures' \in Nat
    BY <1>2 DEF ConnectBegin, TypeOK
  <2>2. CASE Redial(t) /\ UNCHANGED syncing
    <3> HIDE DEF Redial
    <3> QED BY <1>1, <1>2, <2>1, <2>2 DEF TypeOK, ConnectBegin
  <2>3. CASE syncing' = TRUE /\ pc' = [pc EXCEPT ![t] = "dial"] /\ UNCHANGED peerVars
    <3>1. pc' \in [Thread -> {"idle", "wait"} \cup Underway]
      BY <2>3 DEF TypeOK, Underway
    <3>2. UNCHANGED <<stage, timed, known, asked>> /\ syncing' \in BOOLEAN
      BY <2>3 DEF peerVars
    <3>3. UNCHANGED <<download, height, estimated, published, answer>>
      BY <1>2 DEF ConnectBegin
    <3> QED BY <2>1, <3>1, <3>2, <3>3 DEF TypeOK
  <2> QED BY <1>2, <2>2, <2>3 DEF ConnectBegin
<1>3. CASE ConnectDial(t)
  BY <1>1, <1>3 DEF TypeOK, ConnectDial, syncVars
<1>4. CASE ConnectPick(t)
  <2>1. stage' \in [Peer -> {"none", "waiting"} \cup Running \cup Gone] /\ timed' \subseteq Peer
        /\ syncing' \in BOOLEAN
    BY <1>4 DEF TypeOK, ConnectPick, Running, InList
  <2>2. pc' \in [Thread -> {"idle", "wait"} \cup Underway]
    BY <1>4 DEF TypeOK, ConnectPick
  <2> QED BY <1>4, <2>1, <2>2 DEF TypeOK, ConnectPick
<1> QED BY <1>2, <1>3, <1>4 DEF ThreadStep

LEMMA AppKeepsType ==
  ASSUME TypeOK, AppStep \/ Disconnected
  PROVE  TypeOK'
<1>1. CASE AppConnect \/ Disconnected
  BY <1>1 DEF TypeOK, AppConnect, Disconnected, peerVars, syncVars, Underway
<1>2. CASE AppDisconnect
  BY <1>2, PeerManagerAssumption DEF TypeOK, AppDisconnect, peerVars
<1>3. ASSUME NEW h \in 0..height, AppRescan(h) PROVE TypeOK'
  <2>1. pc' \in [Thread -> {"idle", "wait"} \cup Underway]
    BY <1>3 DEF TypeOK, AppRescan, Underway
  <2>3. h \in Nat
    BY DEF TypeOK
  <2>4. height' = h /\ syncing' = FALSE
    BY <1>3 DEF AppRescan
  <2>2. height' \in Nat /\ syncing' \in BOOLEAN
    BY <2>3, <2>4
  <2> QED BY <1>3, <2>1, <2>2 DEF TypeOK, AppRescan
<1> QED BY <1>1, <1>2, <1>3 DEF AppStep

LEMMA LinkKeepsType ==
  ASSUME TypeOK, NEW p \in Peer,
         Open(p) \/ (\E e \in Gone : Leave(p, e)) \/ Flush(p) \/ PeerDisconnected(p)
  PROVE  TypeOK'
<1>1. CASE Open(p)
  BY <1>1 DEF TypeOK, Open, syncVars, Running
<1>2. ASSUME NEW e \in Gone, Leave(p, e) PROVE TypeOK'
  BY <1>2 DEF TypeOK, Leave, syncVars
<1>3. CASE Flush(p)
  <2>1. SyncStoppedTimed(download) \subseteq Peer
    BY SyncStoppedTimedType
  <2>2. timed' \subseteq Peer
    BY <1>3, <2>1 DEF TypeOK, Flush
  <2>3. syncing' \in BOOLEAN
    BY <1>3 DEF TypeOK, Flush
  <2>4. asked' \in [Peer -> SUBSET {"filter", "mempool"}]
    BY <1>3 DEF TypeOK, Flush
  <2> QED BY <1>3, <2>2, <2>3, <2>4 DEF TypeOK, Flush
<1>4. CASE PeerDisconnected(p)
  <2>1. Failures(p) \in Nat /\ NewDownload(p) \in Peer \cup {NoPeer}
    BY PeerManagerAssumption DEF TypeOK, Failures, NewDownload
  <2>2. /\ published' \in [Tx -> Call \cup {NoCall, Unlisted}]
        /\ answer' \in [Call -> {"none", "checking", "accepted", "lost"} \cup Results]
    BY <1>4 DEF TypeOK, PeerDisconnected, Results
  <2>3. /\ stage' \in [Peer -> {"none", "waiting"} \cup Running \cup Gone] /\ timed' \subseteq Peer
        /\ known' \in Knowledge /\ asked' = asked /\ syncing' \in BOOLEAN
    BY <1>4 DEF TypeOK, PeerDisconnected, Knowledge
  <2>4. pc' \in [Thread -> {"idle", "wait"} \cup Underway]
    BY <1>4 DEF TypeOK, PeerDisconnected, Underway
  <2> QED BY <1>4, <2>1, <2>2, <2>3, <2>4 DEF TypeOK, PeerDisconnected, Knowledge
<1> QED BY <1>1, <1>2, <1>3, <1>4

LEMMA ConnectedKeepsType ==
  ASSUME TypeOK, NEW p \in Peer,
         RejectPeer(p) \/ JoinPeer(p) \/ (\E q \in Peer : ChooseDownload(p, q))
  PROVE  TypeOK'
<1>1. ASSUME DidConnect(p)
      PROVE  /\ stage' \in [Peer -> {"none", "waiting"} \cup Running \cup Gone]
             /\ UNCHANGED <<published, pc, answer>>
  BY <1>1 DEF TypeOK, DidConnect, Running
<1>2. CASE RejectPeer(p)
  BY <1>1, <1>2 DEF TypeOK, RejectPeer, syncVars
<1>3. CASE JoinPeer(p)
  <2>1. known' \in Knowledge
    BY <1>3, InformedType DEF JoinPeer, TypeOK, Knowledge
  <2>2. timed' \subseteq Peer
    BY <1>3, PublishTimedType DEF JoinPeer, TypeOK
  <2>3. asked' \in [Peer -> SUBSET {"filter", "mempool"}] /\ failures' \in Nat
    BY <1>3 DEF JoinPeer, TypeOK
  <2> QED BY <1>1, <1>3, <2>1, <2>2, <2>3 DEF TypeOK, JoinPeer, Knowledge
<1>4. ASSUME NEW q \in Peer, ChooseDownload(p, q) PROVE TypeOK'
  <2>1. known' \in Knowledge
    BY <1>4, InformedType DEF ChooseDownload
  <2>2. timed' \subseteq Peer
    <3>1. Up \cup {p} \in SUBSET Peer
      BY DEF Up
    <3> QED BY <3>1, <1>4, PublishTimedType DEF ChooseDownload, TypeOK
  <2>3. asked' \in [Peer -> SUBSET {"filter", "mempool"}]
    <3>1. CASE height < LastBlock[q]
      BY <3>1, <1>4 DEF ChooseDownload, TypeOK
    <3>2. CASE ~(height < LastBlock[q])
      <4>1. asked' = [r \in Peer |-> IF r \in Up \cup {p}
                        THEN asked[r] \cup {IF r = q THEN "mempool" ELSE "filter"} ELSE asked[r]]
        BY <3>2, <1>4 DEF ChooseDownload
      <4> QED BY <4>1 DEF TypeOK
    <3> QED BY <3>1, <3>2
  <2>5. failures' \in Nat
    BY <1>4 DEF ChooseDownload, TypeOK
  <2>4. download' \in Peer \cup {NoPeer} /\ estimated' \in Nat
    BY <1>4, PeerManagerAssumption DEF ChooseDownload
  <2> QED BY <1>1, <1>4, <2>1, <2>2, <2>3, <2>4, <2>5 DEF TypeOK, ChooseDownload, Knowledge
<1> QED BY <1>2, <1>3, <1>4

LEMMA MessageKeepsType ==
  ASSUME TypeOK, NEW p \in Peer,
         \/ (\E fpHigh \in BOOLEAN : RelayBlock(p, fpHigh)) \/ FilterLoaded(p) \/ MempoolDone(p)
         \/ \E t \in Tx : \/ \E r \in {"ok", "invalid"} : RequestedTx(p, t, r)
                          \/ HasTx(p, t) \/ RelayedTx(p, t)
  PROVE  TypeOK'
<1>1. ASSUME NEW fpHigh \in BOOLEAN, RelayBlock(p, fpHigh) PROVE TypeOK'
  <2>1. height' \in Nat /\ estimated' \in Nat /\ failures' \in Nat
    BY <1>1, PeerManagerAssumption DEF RelayBlock, TypeOK
  <2>2. /\ known' \in Knowledge /\ timed' \subseteq Peer
        /\ asked' \in [Peer -> SUBSET {"filter", "mempool"}]
    <3>1. CASE height' = estimated
      BY <3>1, <1>1, LoadMempoolsType DEF RelayBlock
    <3>2. CASE height' # estimated
      BY <3>2, <1>1 DEF RelayBlock, TypeOK, Knowledge
    <3> QED BY <3>1, <3>2
  <2> QED BY <1>1, <2>1, <2>2 DEF RelayBlock, TypeOK, Knowledge
<1>2. CASE FilterLoaded(p)
  <2>1. known' \in Knowledge
    BY <1>2, InformedType DEF FilterLoaded
  <2>2. asked' \in [Peer -> SUBSET {"filter", "mempool"}]
    BY <1>2 DEF FilterLoaded, TypeOK
  <2> QED BY <1>2, <2>1, <2>2 DEF FilterLoaded, TypeOK, Knowledge, syncVars
<1>3. CASE MempoolDone(p)
  <2>1. SyncStoppedTimed(download) \subseteq Peer
    BY SyncStoppedTimedType
  <2>3. timed' \subseteq Peer
    BY <1>3, <2>1 DEF TypeOK, MempoolDone
  <2>4. syncing' \in BOOLEAN
    BY <1>3 DEF TypeOK, MempoolDone
  <2>2. asked' \in [Peer -> SUBSET {"filter", "mempool"}]
    BY <1>3 DEF MempoolDone, TypeOK
  <2> QED BY <1>3, <2>2, <2>3, <2>4 DEF TypeOK, MempoolDone
<1>4. ASSUME NEW t \in Tx, NEW r \in {"ok", "invalid"}, RequestedTx(p, t, r) PROVE TypeOK'
  BY <1>4, AnsweredType, AnswerTimedType DEF RequestedTx, TypeOK, syncVars
<1>5. ASSUME NEW t \in Tx, Seen(p, t)
      PROVE  /\ timed' \subseteq Peer /\ known' \in Knowledge
             /\ UNCHANGED <<stage, asked, download, failures, syncing, height, estimated, pc>>
  <2>1. timed' \subseteq Peer
    BY <1>5, AnswerTimedType DEF Seen
  <2>2. known' \in Knowledge
    BY <1>5 DEF Seen, TypeOK, Knowledge
  <2> QED BY <1>5, <2>1, <2>2 DEF Seen, syncVars
<1>6. ASSUME NEW t \in Tx, HasTx(p, t) PROVE TypeOK'
  <2>1. Seen(p, t) /\ Answered(t, "ok")
    BY <1>6 DEF HasTx
  <2> QED BY <1>5, <2>1, AnsweredType DEF TypeOK, Knowledge
<1>7. ASSUME NEW t \in Tx, RelayedTx(p, t) PROVE TypeOK'
  <2>1. Seen(p, t) /\ published' = Listed(t, NoCall) /\ answer' = answer
    BY <1>7 DEF RelayedTx
  <2> QED BY <1>5, <2>1, ListedType DEF TypeOK, Knowledge
<1> QED BY <1>1, <1>2, <1>3, <1>4, <1>6, <1>7

LEMMA PublishKeepsType ==
  ASSUME TypeOK, NEW c \in Call, Publish(c) \/ NetworkChecked(c)
  PROVE  TypeOK'
<1>1. CASE ListAndSend(c)
  <2>1. TxOf[c] \in Tx /\ PublishTo \in SUBSET Peer
    BY PeerManagerAssumption DEF PublishTo, Up
  <2>2. published' \in [Tx -> Call \cup {NoCall, Unlisted}]
    BY <1>1, <2>1, ListedType DEF ListAndSend
  <2>3. known' \in Knowledge /\ timed' \subseteq Peer
    BY <1>1, <2>1, InformedType, PublishTimedType DEF ListAndSend, TypeOK
  <2>4. answer' \in [Call -> {"none", "checking", "accepted", "lost"} \cup Results]
    BY <1>1 DEF ListAndSend, TypeOK
  <2> QED BY <1>1, <2>2, <2>3, <2>4 DEF ListAndSend, TypeOK, Knowledge, syncVars
<1>2. CASE ~ListAndSend(c)
  <2>1. answer' \in [Call -> {"none", "checking", "accepted", "lost"} \cup Results]
        /\ UNCHANGED <<peerVars, syncVars, published, pc>>
    BY <1>2 DEF Publish, NetworkChecked, TypeOK, Results
  <2> QED BY <2>1 DEF TypeOK, peerVars, syncVars
<1> QED BY <1>1, <1>2

LEMMA NextKeepsType == TypeOK /\ [Next]_vars => TypeOK'
<1> SUFFICES ASSUME TypeOK, [Next]_vars PROVE TypeOK'
  OBVIOUS
<1>1. CASE UNCHANGED vars
  BY <1>1 DEF TypeOK, vars, peerVars, syncVars
<1>2. CASE Next
  BY <1>2, ThreadKeepsType, AppKeepsType, LinkKeepsType, ConnectedKeepsType, MessageKeepsType,
     PublishKeepsType DEF Next, PeerStep
<1> QED BY <1>1, <1>2

-----------------------------------------------------------------------------
(***************************************************************************)
(* What a step may do to the publish list and to the answers of the calls. *)
(***************************************************************************)
Dropped(r) ==
  /\ published' = [t \in Tx |-> IF t \in Pending THEN NoCall ELSE published[t]]
  /\ answer' = [c \in Call |-> IF published[TxOf[c]] = c THEN r ELSE answer[c]]

ListedUncalled(t) ==
  published[t] = Unlisted /\ published' = Listed(t, NoCall) /\ UNCHANGED answer

ListedCall(c) ==
  /\ answer[c] \in {"none", "checking"}
  /\ published' = Listed(TxOf[c], c)
  /\ answer' = [answer EXCEPT ![c] = IF published'[TxOf[c]] = c THEN "accepted" ELSE "lost"]

Unaccepted(c) ==
  /\ answer[c] \in {"none", "checking"}
  /\ \E a \in {"checking", "notconn"} :
       (a = "checking" => answer[c] = "none") /\ answer' = [answer EXCEPT ![c] = a]
  /\ UNCHANGED published

CallStep ==
  \/ UNCHANGED <<published, answer>>
  \/ \E r \in {"notconn", "timeout"} : Dropped(r)
  \/ \E t \in Tx : (\E r \in {"ok", "invalid"} : Answered(t, r)) \/ ListedUncalled(t)
  \/ \E c \in Call : ListedCall(c) \/ Unaccepted(c)

LEMMA NextIsCallStep == [Next]_vars => CallStep
<1> SUFFICES ASSUME [Next]_vars PROVE CallStep
  OBVIOUS
<1>1. CASE UNCHANGED vars
  BY <1>1 DEF CallStep, vars
<1>2. ASSUME NEW t \in Thread, ThreadStep(t) PROVE CallStep
  BY <1>2 DEF CallStep, ThreadStep, ConnectBegin, ConnectDial, ConnectPick
<1>3. CASE AppStep \/ Disconnected
  BY <1>3 DEF CallStep, AppStep, AppConnect, AppDisconnect, AppRescan, Disconnected
<1>4. ASSUME NEW p \in Peer, PeerStep(p) PROVE CallStep
  <2>1. CASE PeerDisconnected(p)
    <3>1. CASE UNCHANGED <<published, answer>>
      BY <3>1 DEF CallStep
    <3>2. CASE ~UNCHANGED <<published, answer>> /\ GivesUp(p)
      BY <2>1, <3>2 DEF PeerDisconnected, CallStep, Dropped
    <3>3. CASE ~UNCHANGED <<published, answer>> /\ ~GivesUp(p)
      BY <2>1, <3>3 DEF PeerDisconnected, CallStep, Dropped
    <3> QED BY <3>1, <3>2, <3>3
  <2>2. ASSUME NEW t \in Tx, NEW r \in {"ok", "invalid"}, RequestedTx(p, t, r) PROVE CallStep
    BY <2>2 DEF RequestedTx, CallStep
  <2>3. ASSUME NEW t \in Tx, HasTx(p, t) \/ RelayedTx(p, t) PROVE CallStep
    BY <2>3 DEF HasTx, RelayedTx, CallStep, ListedUncalled
  <2>4. CASE Open(p) \/ (\E e \in Gone : Leave(p, e)) \/ Flush(p)
    BY <2>4 DEF CallStep, Open, Leave, Flush
  <2>5. CASE RejectPeer(p) \/ JoinPeer(p) \/ (\E q \in Peer : ChooseDownload(p, q))
    BY <2>5 DEF CallStep, RejectPeer, JoinPeer, ChooseDownload, DidConnect
  <2>6. CASE (\E fpHigh \in BOOLEAN : RelayBlock(p, fpHigh)) \/ FilterLoaded(p) \/ MempoolDone(p)
    BY <2>6 DEF CallStep, RelayBlock, FilterLoaded, MempoolDone
  <2> QED BY <1>4, <2>1, <2>2, <2>3, <2>4, <2>5, <2>6 DEF PeerStep
<1>5. ASSUME NEW c \in Call, Publish(c) \/ NetworkChecked(c) PROVE CallStep
  <2>1. CASE ListAndSend(c)
    BY <1>5, <2>1 DEF Publish, NetworkChecked, ListAndSend, ListedCall, CallStep
  <2>2. CASE Publish(c) /\ ~ListAndSend(c)
    BY <2>2 DEF Publish, Unaccepted, CallStep
  <2>3. CASE NetworkChecked(c) /\ ~ListAndSend(c)
    BY <2>3 DEF NetworkChecked, Unaccepted, CallStep
  <2> QED BY <1>5, <2>1, <2>2, <2>3
<1> QED BY <1>1, <1>2, <1>3, <1>4, <1>5 DEF Next

LEMMA KeepsListedAsOwn ==
  ASSUME TypeOK, ListedAsOwn, CallStep
  PROVE  ListedAsOwn'
<1>1. CASE UNCHANGED <<published, answer>>
  BY <1>1 DEF ListedAsOwn
<1>2. ASSUME NEW r, Dropped(r) PROVE ListedAsOwn'
  BY <1>2, PeerManagerAssumption DEF Dropped, ListedAsOwn
<1>3. ASSUME NEW t \in Tx, NEW r, Answered(t, r) PROVE ListedAsOwn'
  BY <1>3, PeerManagerAssumption DEF Answered, ListedAsOwn, TypeOK
<1>4. ASSUME NEW t \in Tx, ListedUncalled(t) PROVE ListedAsOwn'
  BY <1>4, PeerManagerAssumption DEF ListedUncalled, Listed, ListedAsOwn
<1>5. ASSUME NEW c \in Call, ListedCall(c) PROVE ListedAsOwn'
  BY <1>5, PeerManagerAssumption DEF ListedCall, Listed, ListedAsOwn
<1>6. ASSUME NEW c \in Call, Unaccepted(c) PROVE ListedAsOwn'
  BY <1>6 DEF Unaccepted, ListedAsOwn
<1> QED BY <1>1, <1>2, <1>3, <1>4, <1>5, <1>6 DEF CallStep

LEMMA KeepsCallsListed ==
  ASSUME TypeOK, ListedAsOwn, CallsListed, CallStep
  PROVE  CallsListed'
<1>1. CASE UNCHANGED <<published, answer>>
  BY <1>1 DEF CallsListed
<1>2. ASSUME NEW r \in {"notconn", "timeout"}, Dropped(r) PROVE CallsListed'
  BY <1>2, PeerManagerAssumption DEF Dropped, CallsListed, Pending, TypeOK
<1>3. ASSUME NEW t \in Tx, NEW r \in {"ok", "invalid"}, Answered(t, r) PROVE CallsListed'
  BY <1>3, PeerManagerAssumption DEF Answered, ListedAsOwn, CallsListed, TypeOK
<1>4. ASSUME NEW t \in Tx, ListedUncalled(t) PROVE CallsListed'
  BY <1>4, PeerManagerAssumption DEF ListedUncalled, Listed, CallsListed
<1>5. ASSUME NEW c \in Call, ListedCall(c) PROVE CallsListed'
  <2> PICK t \in Tx : t = TxOf[c]
    BY PeerManagerAssumption
  <2>1. published[t] # c
    BY <1>5 DEF ListedCall, CallsListed
  <2> SUFFICES ASSUME NEW d \in Call PROVE answer'[d] = "accepted" <=> published'[TxOf[d]] = d
    BY DEF CallsListed
  <2>2. CASE d = c
    <3>1. answer'[c] = IF published'[t] = c THEN "accepted" ELSE "lost"
      BY <1>5 DEF ListedCall, TypeOK
    <3> QED BY <2>2, <3>1
  <2>3. CASE d # c
    <3>1. answer'[d] = answer[d]
      BY <1>5, <2>3 DEF ListedCall, TypeOK
    <3>2. published'[TxOf[d]] = published[TxOf[d]] \/ published[TxOf[d]] = Unlisted
      BY <1>5, PeerManagerAssumption DEF ListedCall, Listed
    <3>3. published'[TxOf[d]] \in {c, NoCall, published[TxOf[d]]}
      BY <1>5, PeerManagerAssumption DEF ListedCall, Listed
    <3> QED BY <2>3, <3>1, <3>2, <3>3, PeerManagerAssumption DEF CallsListed
  <2> QED BY <2>2, <2>3
<1>6. ASSUME NEW c \in Call, Unaccepted(c) PROVE CallsListed'
  BY <1>6, PeerManagerAssumption DEF Unaccepted, CallsListed, TypeOK
<1> QED BY <1>1, <1>2, <1>3, <1>4, <1>5, <1>6 DEF CallStep

\* What is listed stays listed, with its call or with none.
LEMMA ListOnlyGrows ==
  ASSUME TypeOK, CallStep
  PROVE  \A t \in Tx : published[t] # Unlisted => published'[t] \in {published[t], NoCall}
<1>1. ASSUME NEW t \in Tx, NEW r, Answered(t, r)
      PROVE  \A u \in Tx : published[u] # Unlisted => published'[u] \in {published[u], NoCall}
  BY <1>1 DEF Answered, TypeOK
<1>2. ASSUME NEW t \in Tx, NEW c, published' = Listed(t, c)
      PROVE  \A u \in Tx : published[u] # Unlisted => published'[u] \in {published[u], NoCall}
  BY <1>2 DEF Listed, TypeOK
<1> QED BY <1>1, <1>2, PeerManagerAssumption
        DEF CallStep, Dropped, ListedUncalled, ListedCall, Unaccepted

-----------------------------------------------------------------------------
(***************************************************************************)
(* What a step may do to the stages of the peers.                          *)
(***************************************************************************)

\* a peer that is listed moves on, or stays where it is
Moves(p) ==
  \/ stage'[p] = stage[p]
  \/ stage[p] = "waiting" /\ stage'[p] = "opening"
  \/ stage[p] = "opening" /\ stage'[p] = "handshake"
  \/ stage[p] = "handshake" /\ stage'[p] = "connected"
  \/ stage[p] \in Running /\ stage'[p] \in Gone


\* all but the end of Connect and the end of a thread
LEMMA StepMoves ==
  ASSUME TypeOK,
         \/ \E t \in Thread : ConnectBegin(t) \/ ConnectDial(t)
         \/ AppStep \/ Disconnected
         \/ \E p \in Peer : PeerStep(p) /\ ~PeerDisconnected(p)
         \/ \E c \in Call : Publish(c) \/ NetworkChecked(c)
  PROVE  \A p \in Peer : Moves(p)
<1>1. ASSUME NEW t \in Thread, ConnectBegin(t) \/ ConnectDial(t) PROVE \A p \in Peer : Moves(p)
  <2>1. CASE Redial(t)
    BY <2>1 DEF Redial, Moves
  <2>2. CASE UNCHANGED peerVars
    BY <2>2 DEF peerVars, Moves
  <2> QED BY <1>1, <2>1, <2>2 DEF ConnectBegin, ConnectDial
<1>2. CASE AppStep \/ Disconnected
  BY <1>2 DEF AppStep, AppConnect, AppDisconnect, AppRescan, Disconnected, peerVars, Moves
<1>3. ASSUME NEW p \in Peer, PeerStep(p), ~PeerDisconnected(p) PROVE \A q \in Peer : Moves(q)
  <2>1. CASE Open(p) \/ (\E e \in Gone : Leave(p, e)) \/ DidConnect(p)
    BY <2>1 DEF Open, Leave, DidConnect, Moves, TypeOK
  <2>2. CASE stage' = stage
    BY <2>2 DEF Moves
  <2>3. DidConnect(p) \/ Open(p) \/ (\E e \in Gone : Leave(p, e)) \/ stage' = stage
    BY <1>3 DEF PeerStep, Flush, RejectPeer, JoinPeer, ChooseDownload, RelayBlock, FilterLoaded,
                MempoolDone, RequestedTx, Seen, HasTx, RelayedTx
  <2> QED BY <2>1, <2>2, <2>3
<1>4. ASSUME NEW c \in Call, Publish(c) \/ NetworkChecked(c) PROVE \A p \in Peer : Moves(p)
  BY <1>4 DEF Publish, NetworkChecked, ListAndSend, peerVars, Moves
<1> QED BY <1>1, <1>2, <1>3, <1>4

\* the steps that only move peers on leave the list as it is
LEMMA MovesKeepList ==
  ASSUME TypeOK, \A p \in Peer : Moves(p)
  PROVE  InList' = InList
BY DEF InList, Moves, Running, Gone

LEMMA PickAdds ==
  ASSUME TypeOK, NEW t \in Thread, ConnectPick(t)
  PROVE  \E ps \in SUBSET (Peer \ InList) :
           /\ Cardinality(ps) <= Room /\ InList' = InList \cup ps
           /\ \A p \in InList : stage'[p] = stage[p]
           /\ syncing' = (syncing /\ InList' # {})
<1> PICK ps \in SUBSET (Peer \ InList), reachable \in BOOLEAN :
       /\ Cardinality(ps) <= Room
       /\ stage' = [p \in Peer |-> IF p \notin ps THEN stage[p]
                                  ELSE IF reachable THEN "opening" ELSE "waiting"]
       /\ syncing' = (syncing /\ InList \cup ps # {})
  BY DEF ConnectPick
<1>1. InList' = InList \cup ps
  BY DEF InList
<1>2. \A p \in InList : stage'[p] = stage[p]
  BY DEF InList
<1> QED BY <1>1, <1>2

LEMMA LeavesList ==
  ASSUME TypeOK, NEW p \in Peer, PeerDisconnected(p)
  PROVE  InList' = InList \ {p} /\ \A q \in Peer \ {p} : stage'[q] = stage[q]
BY DEF TypeOK, PeerDisconnected, InList

\* The download peer is set by ChooseDownload and taken by PeerDisconnected.
LEMMA DownloadMoves ==
  ASSUME TypeOK, Next
  PROVE  \/ download' = download
         \/ \E p, q \in Peer : ChooseDownload(p, q)
         \/ \E p \in Peer : PeerDisconnected(p)
<1>1. ASSUME NEW t \in Thread, ThreadStep(t) PROVE download' = download
  BY <1>1 DEF ThreadStep, ConnectBegin, ConnectDial, ConnectPick, syncVars
<1>2. CASE AppStep \/ Disconnected
  BY <1>2 DEF AppStep, AppConnect, AppDisconnect, AppRescan, Disconnected, syncVars
<1>3. ASSUME NEW p \in Peer, PeerStep(p), ~PeerDisconnected(p),
             ~\E q \in Peer : ChooseDownload(p, q)
      PROVE  download' = download
  BY <1>3 DEF PeerStep, Open, Leave, Flush, RejectPeer, JoinPeer, RelayBlock, FilterLoaded,
              MempoolDone, RequestedTx, Seen, HasTx, RelayedTx, syncVars
<1>4. ASSUME NEW c \in Call, Publish(c) \/ NetworkChecked(c) PROVE download' = download
  BY <1>4 DEF Publish, NetworkChecked, ListAndSend, syncVars
<1> QED BY <1>1, <1>2, <1>3, <1>4 DEF Next

LEMMA KeepsDownloadListed ==
  ASSUME TypeOK, DownloadPeerListed, Next
  PROVE  DownloadPeerListed'
<1>1. ASSUME NEW p \in Peer, NEW q \in Peer, ChooseDownload(p, q) PROVE DownloadPeerListed'
  BY <1>1 DEF ChooseDownload, DidConnect, Up, DownloadPeerListed, TypeOK
<1>2. ASSUME NEW p \in Peer, PeerDisconnected(p) PROVE DownloadPeerListed'
  BY <1>2, LeavesList DEF PeerDisconnected, NewDownload, DownloadPeerListed, TypeOK
<1>3. ASSUME download' = download, NEW t \in Thread, ConnectPick(t) PROVE DownloadPeerListed'
  BY <1>3, PickAdds DEF DownloadPeerListed, InList, TypeOK, Gone
<1>4. ASSUME download' = download, \A p \in Peer : Moves(p) PROVE DownloadPeerListed'
  BY <1>4 DEF DownloadPeerListed, Moves, Gone, Running, TypeOK
<1> QED BY <1>1, <1>2, <1>3, <1>4, DownloadMoves, StepMoves DEF Next, ThreadStep

LEMMA ListIsFinite == TypeOK => IsFiniteSet(InList) /\ Cardinality(InList) \in Nat
BY PeerManagerAssumption, FS_Subset, FS_CardinalityType DEF InList

LEMMA KeepsBounded ==
  ASSUME TypeOK, ConnectionsBounded, Next
  PROVE  ConnectionsBounded'
<1>1. IsFiniteSet(InList) /\ Cardinality(InList) \in Nat
  BY ListIsFinite
<1>2. ASSUME NEW t \in Thread, ConnectPick(t) PROVE ConnectionsBounded'
  <2> PICK ps \in SUBSET (Peer \ InList) : Cardinality(ps) <= Room /\ InList' = InList \cup ps
    BY <1>2, PickAdds
  <2>1. IsFiniteSet(ps) /\ Cardinality(ps) \in Nat
    BY PeerManagerAssumption, FS_Subset, FS_CardinalityType
  <2>2. Cardinality(InList \cup ps) = Cardinality(InList) + Cardinality(ps) - Cardinality(InList \cap ps)
    BY <1>1, <2>1, FS_Union
  <2>3. Cardinality(InList \cap ps) = 0
    <3>1. InList \cap ps = {}
      OBVIOUS
    <3> QED BY <3>1, FS_EmptySet
  <2>4. Cardinality(InList') = Cardinality(InList) + Cardinality(ps)
    BY <1>1, <2>1, <2>2, <2>3
  <2>5. MaxConnectCount \in Nat
    BY PeerManagerAssumption
  <2>6. Cardinality(ps) <= MaxConnectCount - Cardinality(InList) \/ Cardinality(ps) = 0
    BY <1>1, <2>1, <2>5 DEF Room
  <2> QED BY <1>1, <2>1, <2>4, <2>5, <2>6 DEF ConnectionsBounded
<1>3. ASSUME InList' \subseteq InList PROVE ConnectionsBounded'
  <2>1. Cardinality(InList') <= Cardinality(InList) /\ Cardinality(InList') \in Nat
    BY <1>1, <1>3, FS_Subset, FS_CardinalityType
  <2> QED BY <1>1, <2>1, PeerManagerAssumption DEF ConnectionsBounded
<1>4. ASSUME NEW p \in Peer, PeerDisconnected(p) PROVE InList' \subseteq InList
  BY <1>4, LeavesList
<1>5. ASSUME \A p \in Peer : Moves(p) PROVE InList' \subseteq InList
  BY <1>5, MovesKeepList
<1> QED BY <1>2, <1>3, <1>4, <1>5, StepMoves DEF Next, ThreadStep

-----------------------------------------------------------------------------
(***************************************************************************)
(* A sync that someone works for.                                          *)
(***************************************************************************)
Worked == InList # {} \/ (\E t \in Thread : pc[t] \in Underway) \/ failures > MaxFailures

\* after Redial someone is there, or still looking
LEMMA RedialWorks ==
  ASSUME TypeOK, NEW t \in Thread, Redial(t), InList' = InList
  PROVE  Worked'
<1>1. CASE Cardinality(InList) < MaxConnectCount
  <2>1. pc'[t] = "pick"
    BY <1>1 DEF Redial, TypeOK
  <2> QED BY <2>1 DEF Worked, Underway
<1>2. CASE ~(Cardinality(InList) < MaxConnectCount)
  <2>1. Cardinality({}) = 0
    BY FS_EmptySet
  <2>2. MaxConnectCount \in Nat \ {0}
    BY PeerManagerAssumption
  <2>3. InList # {}
    BY <1>2, <2>1, <2>2
  <2> QED BY <2>3 DEF Worked
<1> QED BY <1>1, <1>2

LEMMA KeepsWorker ==
  ASSUME TypeOK, DownloadPeerListed, SyncHasWorker, Next
  PROVE  SyncHasWorker'
<1> SUFFICES ASSUME syncing' PROVE Worked'
  BY DEF SyncHasWorker, Worked
<1>a. syncing => Worked
  BY DEF SyncHasWorker, Worked
<1>1. ASSUME NEW t \in Thread, ConnectBegin(t) \/ ConnectDial(t) PROVE Worked'
  <2>1. InList' = InList
    BY <1>1, StepMoves, MovesKeepList
  <2>2. CASE Redial(t)
    BY <2>1, <2>2, RedialWorks
  <2>3. CASE pc' = [pc EXCEPT ![t] = "dial"]
    BY <2>3 DEF Worked, Underway, TypeOK
  <2> QED BY <1>1, <2>2, <2>3 DEF ConnectBegin, ConnectDial
<1>2. ASSUME NEW t \in Thread, ConnectPick(t) PROVE Worked'
  BY <1>2, PickAdds DEF Worked
<1>3. CASE AppConnect
  BY <1>3 DEF AppConnect, Worked, Underway, TypeOK, Thread
<1>4. CASE Disconnected
  <2>1. ASSUME NEW t \in Thread, pc[t] \in Underway PROVE pc'[t] \in Underway
    BY <1>4, <2>1 DEF Disconnected, Underway, TypeOK
  <2>2. InList' = InList /\ failures' = failures /\ syncing' = syncing
    BY <1>4 DEF Disconnected, InList, peerVars, syncVars
  <2> QED BY <1>a, <2>1, <2>2 DEF Worked
<1>5. CASE AppDisconnect
  BY <1>5 DEF AppDisconnect, InList, peerVars, Worked
<1>6. CASE \E h \in 0..height : AppRescan(h)
  BY <1>6 DEF AppRescan
<1>7. ASSUME NEW p \in Peer, PeerDisconnected(p) PROVE Worked'
  <2>a. Failures(p) \in Nat
    BY PeerManagerAssumption DEF Failures, TypeOK
  <2>1. syncing /\ ~GivesUp(p) /\ failures' = Failures(p) /\ Failures(p) \in Nat
    BY <1>7, <2>a DEF PeerDisconnected
  <2>2. CASE NewDownload(p) # NoPeer
    <3>1. download \in InList /\ download # p
      BY <2>2 DEF NewDownload, DownloadPeerListed, InList, Gone, TypeOK
    <3> QED BY <1>7, <3>1, LeavesList DEF Worked
  <2>3. CASE Failures(p) < MaxFailures
    <3>1. p \in Thread /\ pc'[p] = "connect"
      BY <1>7, <2>3 DEF PeerDisconnected, Thread, TypeOK
    <3> QED BY <3>1 DEF Worked, Underway
  <2>4. CASE NewDownload(p) = NoPeer /\ ~(Failures(p) < MaxFailures)
    BY <2>1, <2>4, PeerManagerAssumption DEF GivesUp, Worked
  <2> QED BY <2>2, <2>3, <2>4
<1>8. ASSUME NEW p \in Peer, PeerStep(p), ~PeerDisconnected(p) PROVE Worked'
  <2>1. InList' = InList
    BY <1>8, StepMoves, MovesKeepList
  <2>2. p \in InList
    BY <1>8 DEF PeerStep, Open, Leave, Flush, RejectPeer, JoinPeer, ChooseDownload, DidConnect,
                RelayBlock, FilterLoaded, MempoolDone, RequestedTx, Seen, HasTx, RelayedTx,
                InList, Running, Gone
  <2> QED BY <2>1, <2>2 DEF Worked
<1>9. ASSUME NEW c \in Call, Publish(c) \/ NetworkChecked(c) PROVE Worked'
  <2>1. UNCHANGED <<stage, syncing, pc, failures>>
    BY <1>9 DEF Publish, NetworkChecked, ListAndSend, peerVars, syncVars
  <2> QED BY <1>a, <2>1 DEF Worked, InList
<1> QED BY <1>1, <1>2, <1>3, <1>4, <1>5, <1>6, <1>7, <1>8, <1>9 DEF Next, ThreadStep, AppStep

-----------------------------------------------------------------------------
(***************************************************************************)
(* What the peers were told, and the timers of those who were.             *)
(***************************************************************************)

\* Informed tells only those it is for, and only of what is listed.
LEMMA InformedTells ==
  ASSUME TypeOK, NEW ps, NEW list, NEW how \in {"told", "known"}, NEW p \in Peer, NEW t \in Tx
  PROVE  /\ Informed(ps, list, how)[p][t] = "told" =>
              known[p][t] = "told" \/ (p \in ps /\ list[t] # Unlisted /\ how = "told")
         /\ p \notin ps => Informed(ps, list, how)[p][t] = known[p][t]
BY DEF Informed, TypeOK

\* The peers that learn in a step are connected after it, and are told only of
\* what is listed after it.
Tells ==
  \A p \in Peer, t \in Tx :
    /\ known'[p][t] = "told" =>
         known[p][t] = "told" \/ (stage'[p] = "connected" /\ published'[t] # Unlisted)
    /\ known'[p][t] # known[p][t] => stage'[p] = "connected" \/ known'[p][t] = "no"

LEMMA SharedTells ==
  ASSUME TypeOK, NEW ps, NEW how \in {"told", "known"}, known' = Informed(ps, published', how),
         \A p \in ps : stage'[p] = "connected"
  PROVE  Tells
<1> SUFFICES ASSUME NEW p \in Peer, NEW t \in Tx
    PROVE  /\ known'[p][t] = "told" =>
                known[p][t] = "told" \/ (stage'[p] = "connected" /\ published'[t] # Unlisted)
           /\ known'[p][t] # known[p][t] => stage'[p] = "connected"
  BY DEF Tells
<1> QED BY InformedTells

LEMMA NextTells == ASSUME TypeOK, Next PROVE Tells
<1>1. ASSUME known' = known PROVE Tells
  BY <1>1 DEF Tells
<1>2. ASSUME NEW t \in Thread, ThreadStep(t) PROVE known' = known
  BY <1>2 DEF ThreadStep, ConnectBegin, ConnectDial, ConnectPick, Redial, peerVars
<1>3. CASE AppStep \/ Disconnected
  BY <1>1, <1>3 DEF AppStep, AppConnect, AppDisconnect, AppRescan, Disconnected, peerVars
<1>4. ASSUME NEW p \in Peer, PeerStep(p) PROVE Tells
  <2>1. CASE Open(p) \/ (\E e \in Gone : Leave(p, e)) \/ Flush(p) \/ RejectPeer(p) \/ MempoolDone(p)
             \/ \E t \in Tx, r \in {"ok", "invalid"} : RequestedTx(p, t, r)
    BY <1>1, <2>1 DEF Open, Leave, Flush, RejectPeer, MempoolDone, RequestedTx
  <2>2. CASE PeerDisconnected(p)
    BY <2>2 DEF PeerDisconnected, Tells, TypeOK
  <2>3. CASE JoinPeer(p)
    <3>1. stage'[p] = "connected" /\ published' = published
      BY <2>3 DEF JoinPeer, DidConnect, TypeOK
    <3>2. known' = known \/ known' = Informed({p}, published', "told")
      BY <2>3, <3>1 DEF JoinPeer
    <3> QED BY <1>1, <3>1, <3>2, SharedTells
  <2>4. ASSUME NEW q \in Peer, ChooseDownload(p, q) PROVE Tells
    <3>1. \A r \in Up \cup {p} : stage'[r] = "connected"
      BY <2>4 DEF ChooseDownload, DidConnect, Up, TypeOK
    <3>2. q \in Up \cup {p} /\ published' = published
      BY <2>4 DEF ChooseDownload, DidConnect
    <3>3. known' = Informed({q}, published', "told") \/ known' = Informed(Up \cup {p}, published', "told")
      BY <2>4, <3>2 DEF ChooseDownload
    <3> QED BY <3>1, <3>2, <3>3, SharedTells
  <2>5. ASSUME NEW fpHigh \in BOOLEAN, RelayBlock(p, fpHigh) PROVE Tells
    <3>1. stage' = stage /\ published' = published
      BY <2>5 DEF RelayBlock
    <3>2. CASE LoadMempools(Up, download, fpHigh)
      <4> DEFINE a == Informed(Up, published, "told")
                 b == Informed(Up, published, "known")
      <4>1. \A q \in Peer : known'[q] = a[q] \/ known'[q] = b[q]
        BY <3>2 DEF LoadMempools
      <4>2. \A q \in Peer, t \in Tx :
              /\ a[q][t] = "told" => known[q][t] = "told" \/ (q \in Up /\ published[t] # Unlisted)
              /\ b[q][t] = "told" => known[q][t] = "told"
              /\ q \notin Up => a[q][t] = known[q][t] /\ b[q][t] = known[q][t]
        BY InformedTells
      <4> HIDE DEF a, b
      <4> QED BY <3>1, <4>1, <4>2 DEF Tells, Up
    <3>3. LoadMempools(Up, download, fpHigh) \/ known' = known
      BY <2>5 DEF RelayBlock
    <3> QED BY <1>1, <3>2, <3>3
  <2>6. CASE FilterLoaded(p)
    <3>1. stage'[p] = "connected" /\ known' = Informed({p}, published', "known")
      BY <2>6 DEF FilterLoaded
    <3> QED BY <3>1, SharedTells
  <2>7. ASSUME NEW t \in Tx, Seen(p, t) PROVE Tells
    BY <2>7 DEF Seen, Tells, TypeOK
  <2> QED BY <1>4, <2>1, <2>2, <2>3, <2>4, <2>5, <2>6, <2>7 DEF PeerStep, HasTx, RelayedTx
<1>5. ASSUME NEW c \in Call, Publish(c) \/ NetworkChecked(c) PROVE Tells
  <2>1. CASE ListAndSend(c)
    <3>1. stage' = stage /\ known' = Informed(PublishTo, published', "told")
      BY <2>1 DEF ListAndSend
    <3>2. \A p \in PublishTo : stage'[p] = "connected"
      BY <3>1 DEF PublishTo, Up
    <3> QED BY <3>1, <3>2, SharedTells
  <2>2. CASE known' = known
    BY <1>1, <2>2
  <2> QED BY <1>5, <2>1, <2>2 DEF Publish, NetworkChecked, peerVars
<1> QED BY <1>1, <1>2, <1>3, <1>4, <1>5 DEF Next

LEMMA KeepsToldListed ==
  ASSUME TypeOK, TypeOK', ToldListed, CallStep, Next
  PROVE  ToldListed'
<1>1. Tells
  BY NextTells
<1>2. \A t \in Tx : published[t] # Unlisted => published'[t] # Unlisted
  BY ListOnlyGrows, PeerManagerAssumption
<1>3. \A p \in Peer, t \in Tx : known'[p][t] = "told" => published'[t] # Unlisted
  BY <1>1, <1>2 DEF ToldListed, Tells
<1>4. ASSUME NEW p \in Peer, stage'[p] \notin {"connected"} \cup Gone, NEW t \in Tx
      PROVE  known'[p][t] = "no"
  <2>1. CASE stage[p] \notin {"connected"} \cup Gone
    BY <1>1, <1>4, <2>1 DEF ToldListed, Tells
  <2>2. CASE stage[p] \in {"connected"} \cup Gone
    <3>1. ~Moves(p)
      BY <1>4, <2>2 DEF Moves, Running, Gone, TypeOK
    <3>2. ASSUME NEW u \in Thread, ConnectPick(u) PROVE stage'[p] = stage[p]
      BY <3>2, <2>2, PickAdds DEF InList, Gone
    <3>3. ASSUME NEW q \in Peer, PeerDisconnected(q) PROVE known'[p][t] = "no"
      BY <1>4, <2>2, <3>3, LeavesList DEF PeerDisconnected, TypeOK
    <3> QED BY <1>4, <2>2, <3>1, <3>2, <3>3, StepMoves DEF Next, ThreadStep
  <2> QED BY <2>1, <2>2
<1> QED BY <1>3, <1>4 DEF ToldListed

\* No timer is lost of a peer that stays connected while a callback waits.
LEMMA StoppedKeepsTimers ==
  ASSUME TypeOK, Pending # {}, NEW d
  PROVE  SyncStoppedTimed(d) = timed
BY DEF SyncStoppedTimed

LEMMA AnswerKeepsTimers ==
  ASSUME TypeOK, NEW p, NEW t, ~(Pending \subseteq {t})
  PROVE  AnswerTimed(p, t) = timed
BY DEF AnswerTimed

\* Steps that announce nothing, and keep the timers as long as callbacks wait.
LEMMA StillTimed ==
  ASSUME TypeOK, AnnouncedIsTimed, Up' \subseteq Up, Pending' \subseteq Pending,
         \A p \in Up', t \in Tx : known'[p][t] = "told" => known[p][t] = "told",
         Pending' # {} => \A p \in Up' : p \in timed => p \in timed'
  PROVE  AnnouncedIsTimed'
BY DEF AnnouncedIsTimed, Pending

\* Announcing to ps sets their timers while a callback waits.
LEMMA AnnouncedTimed ==
  ASSUME TypeOK, TypeOK', AnnouncedIsTimed, ToldListed,
         NEW ps \in SUBSET Peer, known' = Informed(ps, published', "told"),
         PublishTimed(ps, published') \subseteq timed',
         \A p \in Up' \ ps : p \in Up /\ (p \in timed => p \in timed'),
         \A t \in Tx : published[t] # Unlisted => published'[t] \in {published[t], NoCall}
  PROVE  AnnouncedIsTimed'
<1> SUFFICES ASSUME NEW p \in Up', NEW t \in Pending', known'[p][t] = "told"
             PROVE  p \in timed'
  BY DEF AnnouncedIsTimed
<1>1. p \in Peer /\ t \in Tx /\ published'[t] \in Call
  BY DEF Up, Pending
<1>2. CASE p \in ps
  BY <1>1, <1>2 DEF PublishTimed
<1>3. CASE p \notin ps
  <2>1. known[p][t] = "told"
    BY <1>1, <1>3, InformedTells
  <2>2. published[t] = published'[t]
    BY <1>1, <2>1, PeerManagerAssumption DEF ToldListed
  <2> QED BY <1>1, <1>3, <2>1, <2>2 DEF AnnouncedIsTimed, Pending
<1> QED BY <1>2, <1>3

LEMMA KeepsAnnouncedTimed ==
  ASSUME TypeOK, TypeOK', AnnouncedIsTimed, ToldListed, CallStep, Next
  PROVE  AnnouncedIsTimed'
<1>a. \A t \in Tx : published[t] # Unlisted => published'[t] \in {published[t], NoCall}
  BY ListOnlyGrows
<1>b. \A t \in Tx : published'[t] = published[t] => (t \in Pending' <=> t \in Pending)
  BY DEF Pending
<1>1. ASSUME NEW t \in Thread, ThreadStep(t) PROVE AnnouncedIsTimed'
  <2>1. known' = known /\ published' = published /\ timed \subseteq timed'
    BY <1>1 DEF ThreadStep, ConnectBegin, ConnectDial, ConnectPick, Redial, peerVars
  <2>2. Up' \subseteq Up
    BY <1>1 DEF ThreadStep, ConnectBegin, ConnectDial, ConnectPick, Redial, peerVars, Up
  <2> QED BY <2>1, <2>2, StillTimed DEF Pending
<1>2. CASE AppStep \/ Disconnected
  <2>1. UNCHANGED <<known, published, timed, stage>>
    BY <1>2 DEF AppStep, AppConnect, AppDisconnect, AppRescan, Disconnected, peerVars
  <2> QED BY <2>1, StillTimed DEF Pending, Up
<1>3. ASSUME NEW p \in Peer, Open(p) \/ (\E e \in Gone : Leave(p, e)) PROVE AnnouncedIsTimed'
  <2>1. UNCHANGED <<known, published, timed>> /\ Up' \subseteq Up
    BY <1>3 DEF Open, Leave, Up, Gone, TypeOK
  <2> QED BY <2>1, StillTimed DEF Pending
<1>4. ASSUME NEW p \in Peer, Flush(p) \/ MempoolDone(p) PROVE AnnouncedIsTimed'
  <2>1. UNCHANGED <<known, published, stage>> /\ timed' \in {timed, SyncStoppedTimed(download)}
    BY <1>4 DEF Flush, MempoolDone
  <2>2. Pending' = Pending /\ Up' = Up
    BY <2>1 DEF Pending, Up
  <2> QED BY <2>1, <2>2, StoppedKeepsTimers, StillTimed
<1>5. ASSUME NEW p \in Peer, PeerDisconnected(p) PROVE AnnouncedIsTimed'
  <2>1. Up' = Up /\ p \notin Up
    BY <1>5 DEF PeerDisconnected, Up, Gone, TypeOK
  <2>2. \A q \in Up : known'[q] = known[q] /\ (q \in timed => q \in timed')
    BY <1>5, <2>1 DEF PeerDisconnected, TypeOK
  <2>3. Pending' \subseteq Pending
    BY <1>5, PeerManagerAssumption DEF PeerDisconnected, Pending
  <2> QED BY <2>1, <2>2, <2>3, StillTimed
<1>6. ASSUME NEW p \in Peer, DidConnect(p)
      PROVE  /\ Up' = Up \cup {p} /\ published' = published /\ Pending' = Pending
             /\ \A t \in Tx : known[p][t] = "no"
  <2>1. Up' = Up \cup {p}
    BY <1>6 DEF DidConnect, Up, TypeOK
  <2>2. \A t \in Tx : known[p][t] = "no"
    BY <1>6 DEF DidConnect, ToldListed, Gone
  <2> QED BY <1>6, <2>1, <2>2 DEF DidConnect, Pending
<1>7. ASSUME NEW p \in Peer, DidConnect(p), known' = known, timed' = timed \ {p}
      PROVE  AnnouncedIsTimed'
  <2>1. Up' = Up \cup {p} /\ Pending' = Pending /\ \A t \in Tx : known[p][t] = "no"
    BY <1>6, <1>7
  <2> SUFFICES ASSUME NEW q \in Up', NEW t \in Pending', known'[q][t] = "told"
               PROVE  q \in timed'
    BY DEF AnnouncedIsTimed
  <2>2. q \in Up /\ t \in Pending /\ known[q][t] = "told" /\ q # p
    BY <1>7, <2>1 DEF Pending
  <2> QED BY <1>7, <2>2 DEF AnnouncedIsTimed
<1>8. ASSUME NEW p \in Peer, JoinPeer(p) PROVE AnnouncedIsTimed'
  <2>1. DidConnect(p)
    BY <1>8 DEF JoinPeer
  <2>2. CASE height >= LastBlock[p]
    <3>1. /\ known' = Informed({p}, published', "told")
          /\ timed' = (timed \ {p}) \cup PublishTimed({p}, published')
      BY <1>6, <1>8, <2>1, <2>2 DEF JoinPeer
    <3> QED BY <1>a, <1>6, <2>1, <3>1, AnnouncedTimed
  <2>3. CASE ~(height >= LastBlock[p])
    BY <1>7, <1>8, <2>1, <2>3 DEF JoinPeer
  <2> QED BY <2>2, <2>3
<1>9. ASSUME NEW p \in Peer, NEW q \in Peer, ChooseDownload(p, q) PROVE AnnouncedIsTimed'
  <2>1. DidConnect(p) /\ q \in Up \cup {p}
    BY <1>9 DEF ChooseDownload
  <2>2. CASE height < LastBlock[q]
    <3>1. known' = Informed({q}, published', "told") /\ timed' = (timed \ {p}) \cup {q}
      BY <1>6, <1>9, <2>1, <2>2 DEF ChooseDownload
    <3> SUFFICES ASSUME NEW r \in Up', NEW t \in Pending', known'[r][t] = "told"
                 PROVE  r \in timed'
      BY DEF AnnouncedIsTimed
    <3>2. r \in Peer /\ t \in Tx
      BY DEF Up, Pending
    <3>3. CASE r = q
      BY <3>1, <3>3
    <3>4. CASE r # q
      <4>1. known[r][t] = "told"
        BY <3>1, <3>2, <3>4, InformedTells
      <4>2. r # p /\ r \in Up /\ t \in Pending
        BY <1>6, <2>1, <3>2, <4>1
      <4> QED BY <3>1, <4>1, <4>2 DEF AnnouncedIsTimed
    <3> QED BY <3>3, <3>4
  <2>3. CASE ~(height < LastBlock[q])
    <3>1. /\ known' = Informed(Up \cup {p}, published', "told")
          /\ timed' = (timed \ {p}) \cup PublishTimed(Up \cup {p}, published')
      BY <1>6, <1>9, <2>1, <2>3 DEF ChooseDownload
    <3>2. Up \cup {p} \in SUBSET Peer
      BY DEF Up
    <3> QED BY <1>a, <1>6, <2>1, <3>1, <3>2, AnnouncedTimed
  <2> QED BY <2>2, <2>3
<1>10. ASSUME NEW p \in Peer, NEW fpHigh \in BOOLEAN, RelayBlock(p, fpHigh)
       PROVE  AnnouncedIsTimed'
  <2>1. UNCHANGED <<stage, published>>
    BY <1>10 DEF RelayBlock
  <2>2. Up' = Up /\ Pending' = Pending /\ Up \subseteq Peer
    BY <2>1 DEF Up, Pending
  <2>3. CASE LoadMempools(Up, download, fpHigh)
    <3> DEFINE filtered == IF fpHigh THEN Up ELSE Up \ {download}
               a == Informed(Up, published, "told")
               b == Informed(Up, published, "known")
    <3>1. \A q \in Peer : known'[q] = IF q \in filtered THEN a[q] ELSE b[q]
      BY <2>3 DEF LoadMempools
    <3>2. timed' = timed \cup PublishTimed(filtered, published)
      BY <2>3 DEF LoadMempools
    <3>3. \A q \in Peer, t \in Tx : b[q][t] = "told" => known[q][t] = "told"
      BY InformedTells
    <3> HIDE DEF filtered, a, b
    <3> SUFFICES ASSUME NEW r \in Up, NEW t \in Pending, known'[r][t] = "told"
                 PROVE  r \in timed'
      BY <2>2 DEF AnnouncedIsTimed
    <3>4. CASE r \in filtered
      BY <3>2, <3>4 DEF PublishTimed, Pending
    <3>5. CASE r \notin filtered
      <4>1. known[r][t] = "told"
        BY <2>2, <3>1, <3>3, <3>5 DEF Pending
      <4> QED BY <3>2, <4>1 DEF AnnouncedIsTimed
    <3> QED BY <3>4, <3>5
  <2>4. CASE known' = known /\ timed \subseteq timed'
    BY <2>2, <2>4, StillTimed
  <2> QED BY <1>10, <2>3, <2>4 DEF RelayBlock
<1>11. ASSUME NEW p \in Peer, FilterLoaded(p) PROVE AnnouncedIsTimed'
  <2>1. UNCHANGED <<stage, published, timed>> /\ known' = Informed({p}, published, "known")
    BY <1>11 DEF FilterLoaded
  <2>2. \A q \in Peer, t \in Tx : known'[q][t] = "told" => known[q][t] = "told"
    BY <2>1, InformedTells
  <2> QED BY <2>1, <2>2, StillTimed DEF Up, Pending
<1>12. ASSUME NEW p \in Peer, NEW t \in Tx, NEW r \in {"ok", "invalid"}, RequestedTx(p, t, r)
       PROVE  AnnouncedIsTimed'
  <2>1. /\ UNCHANGED <<stage, known>> /\ timed' = AnswerTimed(p, t) /\ Answered(t, r)
    BY <1>12 DEF RequestedTx, syncVars
  <2>2. Pending' \subseteq Pending \ {t}
    BY <2>1, PeerManagerAssumption DEF Answered, Pending, TypeOK
  <2> QED BY <2>1, <2>2, AnswerKeepsTimers, StillTimed DEF Up
<1>13. ASSUME NEW p \in Peer, NEW t \in Tx, Seen(p, t), Pending' \subseteq Pending \ {t}
       PROVE  AnnouncedIsTimed'
  <2>1. stage' = stage /\ AnswerTimed(p, t) \subseteq timed'
    BY <1>13 DEF Seen
  <2>2. \A q \in Peer, u \in Tx : known'[q][u] = "told" => known[q][u] = "told"
    BY <1>13 DEF Seen, TypeOK
  <2> QED BY <1>13, <2>1, <2>2, AnswerKeepsTimers, StillTimed DEF Up
<1>14. ASSUME NEW p \in Peer, NEW t \in Tx, HasTx(p, t) PROVE AnnouncedIsTimed'
  <2>1. Seen(p, t) /\ Answered(t, "ok")
    BY <1>14 DEF HasTx
  <2>2. Pending' \subseteq Pending \ {t}
    BY <2>1, PeerManagerAssumption DEF Answered, Pending, TypeOK
  <2> QED BY <1>13, <2>1, <2>2
<1>15. ASSUME NEW p \in Peer, NEW t \in Tx, RelayedTx(p, t) PROVE AnnouncedIsTimed'
  <2>1. Seen(p, t) /\ published[t] = Unlisted /\ published' = Listed(t, NoCall)
    BY <1>15 DEF RelayedTx
  <2>2. Pending' \subseteq Pending \ {t}
    BY <2>1, PeerManagerAssumption DEF Listed, Pending
  <2> QED BY <1>13, <2>1, <2>2
<1>16. ASSUME NEW c \in Call, Publish(c) \/ NetworkChecked(c) PROVE AnnouncedIsTimed'
  <2>1. CASE ListAndSend(c)
    <3>1. /\ stage' = stage /\ known' = Informed(PublishTo, published', "told")
          /\ timed' = timed \cup PublishTimed(PublishTo, published')
      BY <2>1 DEF ListAndSend
    <3>2. PublishTo \in SUBSET Peer /\ Up' = Up
      BY <3>1 DEF PublishTo, Up
    <3> QED BY <1>a, <3>1, <3>2, AnnouncedTimed
  <2>2. CASE UNCHANGED <<known, published, timed, stage>>
    BY <2>2, StillTimed DEF Pending, Up
  <2> QED BY <1>16, <2>1, <2>2 DEF Publish, NetworkChecked, peerVars
<1>17. ASSUME NEW p \in Peer, PeerStep(p) PROVE AnnouncedIsTimed'
  <2>1. CASE RejectPeer(p)
    BY <1>7, <2>1 DEF RejectPeer
  <2> QED BY <1>17, <2>1, <1>8, <1>3, <1>4, <1>5, <1>9, <1>10, <1>11, <1>12, <1>14, <1>15
          DEF PeerStep
<1> QED BY <1>1, <1>2, <1>16, <1>17 DEF Next

-----------------------------------------------------------------------------
(***************************************************************************)
(* Together.                                                               *)
(***************************************************************************)
LEMMA InitHolds == Init => IInv
<1> SUFFICES ASSUME Init PROVE IInv
  OBVIOUS
<1>1. TypeOK
  BY DEF Init, TypeOK, Thread
<1>2. DownloadPeerListed /\ SyncHasWorker
  BY DEF Init, DownloadPeerListed, SyncHasWorker
<1>3. ConnectionsBounded
  <2>1. InList = {} /\ Cardinality({}) = 0
    BY FS_EmptySet DEF Init, InList
  <2> QED BY <2>1, PeerManagerAssumption DEF ConnectionsBounded
<1>4. ListedAsOwn /\ CallsListed /\ ToldListed /\ AnnouncedIsTimed
  BY PeerManagerAssumption DEF Init, ListedAsOwn, CallsListed, ToldListed, AnnouncedIsTimed, Up
<1> QED BY <1>1, <1>2, <1>3, <1>4 DEF IInv

LEMMA StutterKeeps == IInv /\ UNCHANGED vars => IInv'
BY DEF IInv, vars, peerVars, syncVars, TypeOK, DownloadPeerListed, ConnectionsBounded, InList,
       SyncHasWorker, ListedAsOwn, CallsListed, ToldListed, AnnouncedIsTimed, Up, Pending

LEMMA NextKeeps == IInv /\ [Next]_vars => IInv'
<1> SUFFICES ASSUME IInv, Next PROVE IInv'
  BY StutterKeeps
<1>1. TypeOK' /\ CallStep
  BY NextKeepsType, NextIsCallStep DEF IInv
<1>2. DownloadPeerListed' /\ ConnectionsBounded' /\ SyncHasWorker'
  BY KeepsDownloadListed, KeepsBounded, KeepsWorker DEF IInv
<1>3. ListedAsOwn' /\ CallsListed'
  BY <1>1, KeepsListedAsOwn, KeepsCallsListed DEF IInv
<1>4. ToldListed' /\ AnnouncedIsTimed'
  BY <1>1, KeepsToldListed, KeepsAnnouncedTimed DEF IInv
<1> QED BY <1>1, <1>2, <1>3, <1>4 DEF IInv

\* The inductive invariant of the peer manager, for any number of peers,
\* transactions and calls: whatever the threads, the nodes and the application
\* do between the manager's locks, IInv holds.
THEOREM Invariance == Spec => []IInv
BY InitHolds, NextKeeps, PTL DEF Spec

\* The peer that every handler uses as downloadPeer is listed and has not been freed.
THEOREM DownloadIsListed == Spec => []DownloadPeerListed
<1>1. IInv => DownloadPeerListed
  BY DEF IInv
<1> QED BY <1>1, Invariance, PTL

\* There are never more peers than PEER_MAX_CONNECTIONS, however many threads
\* connect at once and whatever happened while each had released the lock.
THEOREM FewEnoughPeers == Spec => []ConnectionsBounded
<1>1. IInv => ConnectionsBounded
  BY DEF IInv
<1> QED BY <1>1, Invariance, PTL

\* A call waits for its callback exactly when its transaction is listed with it.
THEOREM WaitingIsListed == Spec => []CallsListed
<1>1. IInv => CallsListed
  BY DEF IInv
<1> QED BY <1>1, Invariance, PTL

\* A sync that was reported as started is never left without a peer or a
\* Connect, but for failures that went past MAX_CONNECT_FAILURES.
THEOREM SyncIsWorkedFor == Spec => []SyncHasWorker
<1>1. IInv => SyncHasWorker
  BY DEF IInv
<1> QED BY <1>1, Invariance, PTL

\* A peer to which a transaction with a waiting callback was announced has its
\* timer set, so that the callback is not kept waiting by a silent peer.
THEOREM PublishIsTimed == Spec => []AnnouncedIsTimed
<1>1. IInv => AnnouncedIsTimed
  BY DEF IInv
<1> QED BY <1>1, Invariance, PTL

-----------------------------------------------------------------------------
(***************************************************************************)
(* The publish list implements PublishPromise: a step of the manager is    *)
(* one of the promise or does not show.                                    *)
(***************************************************************************)
Shown == [c \in Call |-> IF answer[c] = "checking" THEN "none" ELSE answer[c]]
OnList == {t \in Tx : published[t] # Unlisted}

LEMMA PromiseInit == Init => Promise!Init
BY DEF Init, Promise!Init

LEMMA ListNeverShrinks ==
  ASSUME TypeOK, CallStep
  PROVE  OnList \subseteq OnList'
BY ListOnlyGrows, PeerManagerAssumption DEF OnList

LEMMA AnswerAll ==
  ASSUME TypeOK, NEW C \in SUBSET Call, NEW r \in Promise!Results,
         \A c \in C : answer[c] \in {"none", "checking", "accepted"},
         answer' = [c \in Call |-> IF c \in C THEN r ELSE answer[c]]
  PROVE  Promise!AnswerSome \/ Shown' = Shown
<1>1. Shown' = [c \in Call |-> IF c \in C THEN r ELSE Shown[c]]
  BY DEF Shown, Promise!Results
<1>2. CASE C = {}
  BY <1>1, <1>2 DEF Shown
<1>3. CASE C # {}
  <2>1. \A c \in C : Shown[c] \in {"none", "accepted"}
    BY DEF Shown
  <2> QED BY <1>1, <1>3, <2>1 DEF Promise!AnswerSome, Shown
<1> QED BY <1>2, <1>3

LEMMA CallStepIsPromised ==
  ASSUME TypeOK, ListedAsOwn, CallsListed, CallStep
  PROVE  Promise!Next
<1>1. OnList \subseteq OnList'
  BY ListNeverShrinks
<1>2. ASSUME Promise!AnswerSome \/ Shown' = Shown \/ \E c \in Call : Promise!Accept(c) \/ Promise!Lose(c)
      PROVE  Promise!Next
  BY <1>1, <1>2 DEF Promise!Next, OnList, Shown
<1>3. CASE answer' = answer
  BY <1>2, <1>3 DEF Shown
<1>4. ASSUME NEW r \in {"notconn", "timeout"}, Dropped(r) PROVE Promise!Next
  <2> DEFINE C == {c \in Call : published[TxOf[c]] = c}
  <2>1. answer' = [c \in Call |-> IF c \in C THEN r ELSE answer[c]]
    BY <1>4 DEF Dropped
  <2>2. \A c \in C : answer[c] = "accepted"
    BY DEF CallsListed
  <2>3. r \in Promise!Results /\ C \in SUBSET Call
    BY DEF Promise!Results
  <2> HIDE DEF C
  <2> QED BY <1>2, <2>1, <2>2, <2>3, AnswerAll
<1>5. ASSUME NEW t \in Tx, NEW r \in {"ok", "invalid"}, Answered(t, r) PROVE Promise!Next
  <2>1. CASE published[t] \notin Call
    BY <1>3, <1>5, <2>1 DEF Answered
  <2>2. CASE published[t] \in Call
    <3>1. answer' = [c \in Call |-> IF c \in {published[t]} THEN r ELSE answer[c]]
      BY <1>5, <2>2 DEF Answered, TypeOK
    <3>2. answer[published[t]] = "accepted"
      BY <2>2 DEF CallsListed, ListedAsOwn
    <3>3. r \in Promise!Results /\ {published[t]} \in SUBSET Call
      BY <2>2 DEF Promise!Results
    <3> QED BY <1>2, <3>1, <3>2, <3>3, AnswerAll
  <2> QED BY <2>1, <2>2
<1>6. ASSUME NEW c \in Call, ListedCall(c) PROVE Promise!Next
  <2>1. /\ answer[c] \in {"none", "checking"} /\ published' = Listed(TxOf[c], c)
        /\ answer' = [answer EXCEPT ![c] = IF published'[TxOf[c]] = c THEN "accepted" ELSE "lost"]
    BY <1>6 DEF ListedCall
  <2>2. Shown[c] = "none"
    BY <2>1 DEF Shown
  <2>3. CASE published'[TxOf[c]] = c
    <3>1. Shown' = [Shown EXCEPT ![c] = "accepted"]
      BY <2>1, <2>3 DEF Shown, TypeOK
    <3> QED BY <1>2, <2>2, <3>1 DEF Promise!Accept, Shown
  <2>4. CASE published'[TxOf[c]] # c
    <3>1. Shown' = [Shown EXCEPT ![c] = "lost"]
      BY <2>1, <2>4 DEF Shown, TypeOK
    <3>2. TxOf[c] \in OnList
      BY <2>1, <2>4, PeerManagerAssumption DEF Listed, OnList
    <3> QED BY <1>2, <2>2, <3>1, <3>2 DEF Promise!Lose, Shown, OnList
  <2> QED BY <2>3, <2>4
<1>7. ASSUME NEW c \in Call, Unaccepted(c) PROVE Promise!Next
  <2> PICK a \in {"checking", "notconn"} :
        (a = "checking" => answer[c] = "none") /\ answer' = [answer EXCEPT ![c] = a]
    BY <1>7 DEF Unaccepted
  <2>1. CASE a = "checking"
    <3>1. Shown' = Shown
      BY <2>1 DEF Shown, TypeOK
    <3> QED BY <1>2, <3>1
  <2>2. CASE a = "notconn"
    <3>1. answer' = [d \in Call |-> IF d \in {c} THEN a ELSE answer[d]]
      BY DEF TypeOK
    <3>2. a \in Promise!Results /\ {c} \in SUBSET Call /\ answer[c] \in {"none", "checking"}
      BY <1>7, <2>2 DEF Promise!Results, Unaccepted
    <3> QED BY <1>2, <3>1, <3>2, AnswerAll
  <2> QED BY <2>1, <2>2
<1> QED BY <1>3, <1>4, <1>5, <1>6, <1>7 DEF CallStep, ListedUncalled

\* BRPeerManagerPublishTx keeps its promise: one answer for every call at most,
\* and none lost but for a transaction that was on the list before.
THEOREM PublishKeepsPromise == Spec => PromiseSpec
<1>1. IInv /\ [Next]_vars => [Promise!Next]_<<Shown, OnList>>
  BY NextIsCallStep, CallStepIsPromised DEF IInv
<1>2. [Promise!Next]_<<Shown, OnList>> =>
        [Promise!Next]_<<[c \in Call |-> IF answer[c] = "checking" THEN "none" ELSE answer[c]],
                         {t \in Tx : published[t] # Unlisted}>>
  BY DEF Shown, OnList
<1> QED BY <1>1, <1>2, PromiseInit, Invariance, PTL DEF Spec, PromiseSpec, Promise!Spec

=============================================================================
