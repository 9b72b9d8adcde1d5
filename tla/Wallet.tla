------------------------------- MODULE Wallet -------------------------------
(***************************************************************************)
(* The bitcoin wallet of msmwallet-core/BRWallet.c: the transactions it    *)
(* knows, the order it keeps them in, the balance it derives from them,    *)
(* and the address chains it extends.  Callers are the peer manager, whose *)
(* calls its own lock serialises, and the user interface, which reaches    *)
(* the wallet between any two of the wallet's critical sections.           *)
(*                                                                         *)
(* Amounts are abstracted to the outputs that carry them: the balance is   *)
(* the set utxos, and an entry of balanceHist is the set of outputs that   *)
(* was unspent after the transaction at the same position.                 *)
(***************************************************************************)
EXTENDS Integers, Sequences, FiniteSets, SequencesExt

CONSTANTS
  Tx,              \* the signed transactions that peers or the user may present
  NoTx,            \* stands for every transaction outside Tx (others' funds)
  Ins,             \* Ins[t]: the outputs that t spends, as <<transaction, index>>
  Outs,            \* Outs[t]: the addresses that t pays, in output order
  Replaceable,     \* oversized, dust, replace-by-fee: pending until confirmed
  LockTime,        \* LockTime[t]: the height t is locked to, 0 when it is final
  GapLimit,        \* GapLimit[c]: unused addresses kept at the end of chain c
  FilterGap,       \* the wider gap asked for before a bloom filter is built
  MaxIndex,        \* the highest address index that Outs mentions
  MaxHeight,       \* bound on the block heights explored
  MaxTime,         \* bound on the timestamps explored
  MaxBlockTx,      \* bound on the wallet's transactions in one block
  TX_UNCONFIRMED   \* the height of an unconfirmed transaction: above any block

Chain    == {"external", "internal"}
Address  == (Chain \X (0..MaxIndex)) \cup {<<"foreign", 0>>}
Outpoint == (Tx \cup {NoTx}) \X (Nat \ {0})
Height   == (0..MaxHeight) \cup {TX_UNCONFIRMED}

ASSUME WalletAssumption ==
  /\ NoTx \notin Tx
  /\ IsFiniteSet(Tx)
  /\ \A t \in Tx : Outs[t] \in Seq(Address)
  /\ \A t \in Tx : \A o \in Ins[t] : o \in Outpoint
  /\ DOMAIN Ins = Tx /\ DOMAIN Outs = Tx
  /\ Replaceable \subseteq Tx
  /\ \A t \in Tx : LockTime[t] \in Nat
  /\ GapLimit \in [Chain -> Nat \ {0}]
  /\ FilterGap \in Nat \ {0}
  /\ MaxIndex \in Nat /\ MaxTime \in Nat /\ MaxBlockTx \in Nat
  /\ MaxHeight \in Nat
  /\ TX_UNCONFIRMED \in Nat /\ TX_UNCONFIRMED > MaxHeight

\* the wallet struct
VARIABLES
  transactions,    \* the listed transactions, oldest first
  allTx,           \* every transaction the wallet holds, listed or not
  txHeight,        \* the blockHeight field of each transaction
  txTime,          \* its timestamp field, 0 when unverified
  blockHeight,     \* the wallet's idea of the height of the chain
  chainLen         \* how many addresses each chain has generated

\* what _BRWalletUpdateBalance caches in it
VARIABLES utxos, balanceHist, spentOutputs, invalidTx, pendingTx, usedAddrs

\* calls of the peer manager that span several critical sections, or a loop
VARIABLES
  extending,       \* chains a registration has still to extend
  doomed,          \* call stack of BRWalletRemoveTransaction, innermost first
  update           \* the loop of BRWalletUpdateTransactions (lock held)

\* the block chain as the peer manager has followed it so far
VARIABLES
  mined,           \* mined[t]: the height of t in the best chain
  tip              \* height of the best chain

listVars  == <<transactions, allTx, txHeight, txTime, blockHeight>>
cacheVars == <<utxos, balanceHist, spentOutputs, invalidTx, pendingTx, usedAddrs>>
callVars  == <<extending, doomed, update>>
envVars   == <<mined, tip>>
vars      == <<listVars, chainLen, cacheVars, callVars, envVars>>

NoUpdate == [running |-> FALSE, todo |-> <<>>, height |-> 0, time |-> 0, dirty |-> FALSE]

Listed == ToSet(transactions)
Parents(t) == {o[1] : o \in Ins[t]} \cap Tx
AllAddrs == {a \in Address : a[1] \in Chain /\ a[2] < chainLen[a[1]]}
OutpointsOf(t) == {<<t, n>> : n \in DOMAIN Outs[t]}
OwnOutputs(t) == {o \in OutpointsOf(t) : Outs[t][o[2]] \in AllAddrs}

(***************************************************************************)
(* A transaction belongs to the wallet when it pays a generated address,   *)
(* or spends such an output of a transaction in allTx.                     *)
(***************************************************************************)
ContainsTx(known, t) ==
  \/ OwnOutputs(t) # {}
  \/ \E o \in Ins[t] : o[1] \in known /\ o \in OwnOutputs(o[1])

-----------------------------------------------------------------------------
(***************************************************************************)
(* The order of the list.  Height decides; at equal heights spending       *)
(* decides, directly or through inputs the wallet knows; failing that, the *)
(* position of the paid addresses in the wallet's chains.                  *)
(***************************************************************************)
SpendsAtHeight(known, h, t1, t2) ==
  LET asc[t \in Tx] ==
        \/ t2 \in Parents(t)
        \/ /\ t \notin Parents(t2)
           /\ \E p \in Parents(t) \cap known :
                h[p] > h[t2] \/ (h[p] = h[t2] /\ asc[p])
  IN asc[t1]

IsAscending(known, h, t1, t2) ==
  \/ h[t1] > h[t2]
  \/ h[t1] = h[t2] /\ SpendsAtHeight(known, h, t1, t2)

PaidIndexes(t, c) == {i \in 0..(chainLen[c] - 1) : \E n \in DOMAIN Outs[t] : Outs[t][n] = <<c, i>>}

\* t1 pays a later address than t2, in the internal chain when t1 pays into it
PaysLater(t1, t2) ==
  LET chain == IF PaidIndexes(t1, "internal") # {} THEN "internal" ELSE "external"
  IN /\ PaidIndexes(t2, chain) # {}
     /\ \E i \in PaidIndexes(t1, chain) : \A j \in PaidIndexes(t2, chain) : i > j

\* _BRWalletTxCompare(t1, t2) > 0
SortsAfter(known, h, t1, t2) ==
  \/ IsAscending(known, h, t1, t2)
  \/ ~IsAscending(known, h, t2, t1) /\ PaysLater(t1, t2)

\* mutant: appends without looking for the place
InsertTx_Append(known, h, s, t) == Append(s, t)

(***************************************************************************)
(* Insertion from the end of the list: every transaction of the longest    *)
(* suffix that sorts after t moves up by one, and t takes the free place.  *)
(***************************************************************************)
InsertTx(known, h, s, t) ==
  LET moves(k) == \A j \in k..Len(s) : SortsAfter(known, h, s[j], t)
  IN [k \in 1..(Len(s) + 1) |->
        IF k <= Len(s) /\ ~moves(k) THEN s[k]
        ELSE IF k > 1 /\ moves(k - 1) THEN s[k - 1]
        ELSE t]

RemoveTx(s, t) ==
  IF t \in ToSet(s) THEN RemoveAt(s, CHOOSE i \in 1..Len(s) : s[i] = t) ELSE s

-----------------------------------------------------------------------------
(***************************************************************************)
(* _BRWalletUpdateBalance.  One pass over the list, oldest first, sorts    *)
(* the transactions into invalid (spends what an earlier one spends, or    *)
(* spends from an invalid one), pending, and counted.                      *)
(***************************************************************************)
\* Wall-clock locks (line 202) are left out: one whose time does not come defers
\* as Replaceable does, one whose time has come not at all.
Defers(t, bh) == t \in Replaceable \/ LockTime[t] > bh + 1

\* mutant: looks only for invalid parents, not for outputs spent before
Verdicts_NoConflict(s, h, bh) ==
  LET v[i \in 1..Len(s)] ==
        LET t     == s[i]
            after(verdict) == {s[j] : j \in {k \in 1..(i - 1) : v[k] = verdict}}
        IN IF h[t] = TX_UNCONFIRMED /\ Parents(t) \cap after("invalid") # {} THEN "invalid"
           ELSE IF h[t] = TX_UNCONFIRMED
                   /\ (Defers(t, bh) \/ Parents(t) \cap after("pending") # {}) THEN "pending"
           ELSE "counted"
  IN v

Verdicts(s, h, bh) ==
  LET v[i \in 1..Len(s)] ==
        LET t     == s[i]
            after(verdict) == {s[j] : j \in {k \in 1..(i - 1) : v[k] = verdict}}
            spent == UNION {Ins[p] : p \in after("counted") \cup after("pending")}
        IN IF h[t] # TX_UNCONFIRMED THEN "counted"
           ELSE IF Ins[t] \cap spent # {} \/ Parents(t) \cap after("invalid") # {}
                THEN "invalid"
           ELSE IF Defers(t, bh) \/ Parents(t) \cap after("pending") # {}
                THEN "pending"
           ELSE "counted"
  IN v

With(s, v, verdicts) == {s[i] : i \in {k \in 1..Len(s) : v[k] \in verdicts}}

\* mutant: credits the outputs of pending transactions too
UnspentAfter_Pending(s, v, n) ==
  (UNION {OwnOutputs(s[i]) : i \in {j \in 1..n : v[j] # "invalid"}})
    \ UNION {Ins[s[i]] : i \in {j \in 1..n : v[j] # "invalid"}}

\* mutant: sweeps only what was there before the transaction, so that an output
\* listed after its spender stays
UnspentAfter_SweepEarlier(s, v, n) ==
  LET counted == {i \in 1..n : v[i] = "counted"}
  IN {o \in UNION {OwnOutputs(s[i]) : i \in counted} :
        \A k \in counted : o \in Ins[s[k]] => \A i \in counted : s[i] = o[1] => i > k}

(***************************************************************************)
(* The unspent outputs after the first n transactions.  Each counted       *)
(* transaction adds its outputs and then sweeps the whole set against      *)
(* every output spent so far; what a pending one spends stays until the    *)
(* next counted one.                                                       *)
(***************************************************************************)
UnspentAfter(s, v, n) ==
  LET counted == {i \in 1..n : v[i] = "counted"}
      swept   == UNION {Ins[s[i]] : i \in {j \in 1..n : /\ v[j] # "invalid"
                                                       /\ \E k \in counted : j <= k}}
  IN (UNION {OwnOutputs(s[i]) : i \in counted}) \ swept

UpdateBalance(s, h, bh) ==
  LET v == Verdicts(s, h, bh)
  IN /\ utxos'        = UnspentAfter(s, v, Len(s))
     /\ balanceHist'  = [n \in 1..Len(s) |-> UnspentAfter(s, v, n)]
     /\ spentOutputs' = UNION {Ins[t] : t \in With(s, v, {"counted", "pending"})}
     /\ invalidTx'    = With(s, v, {"invalid"})
     /\ pendingTx'    = With(s, v, {"pending"})
     /\ usedAddrs'    = UNION {ToSet(Outs[t]) : t \in With(s, v, {"counted"})}

-----------------------------------------------------------------------------
(***************************************************************************)
(* Addresses are generated until the last gap addresses of the chain are   *)
(* unused.                                                                 *)
(***************************************************************************)
ExtendedLen(c, gap) ==
  CHOOSE n \in chainLen[c]..(chainLen[c] + MaxIndex + 1 + gap) :
    /\ n >= gap
    /\ \A i \in (n - gap)..(n - 1) : <<c, i>> \notin usedAddrs
    /\ \A m \in chainLen[c]..(n - 1) :
         m < gap \/ \E i \in (m - gap)..(m - 1) : <<c, i>> \in usedAddrs

UnusedAddrs(c, gap) == chainLen' = [chainLen EXCEPT ![c] = ExtendedLen(c, gap)]

\* the peer manager is not inside a call to the wallet
Ready == extending = <<>> /\ doomed = <<>> /\ ~update.running

Init ==
  /\ transactions = <<>> /\ allTx = {} /\ blockHeight = 0
  /\ txHeight = [t \in Tx |-> TX_UNCONFIRMED] /\ txTime = [t \in Tx |-> 0]
  /\ chainLen = GapLimit
  /\ utxos = {} /\ balanceHist = <<>> /\ spentOutputs = {}
  /\ invalidTx = {} /\ pendingTx = {} /\ usedAddrs = {}
  /\ extending = <<>> /\ doomed = <<>> /\ update = NoUpdate
  /\ mined = [t \in Tx |-> TX_UNCONFIRMED] /\ tip = 0

(***************************************************************************)
(* BRWalletRegisterTransaction, for a transaction relayed by a peer or     *)
(* being published.  Two guards are its callers', not its own: it comes    *)
(* from the peer manager alone, whose lock is held through a removal too   *)
(* (Ready; BRPeerManager.c:491, 946, 1029, 1428); and it arrives           *)
(* unconfirmed, as peers relay a block's transactions ahead of the block.  *)
(***************************************************************************)
Register(t, time) ==
  /\ Ready
  /\ t \notin allTx
  /\ mined[t] = TX_UNCONFIRMED
  /\ allTx' = allTx \cup {t}
  /\ txHeight' = [txHeight EXCEPT ![t] = TX_UNCONFIRMED]
  /\ txTime' = [txTime EXCEPT ![t] = time]
  /\ IF ContainsTx(allTx, t)
       THEN /\ transactions' = InsertTx(allTx', txHeight', transactions, t)
            /\ UpdateBalance(transactions', txHeight', blockHeight)
            /\ extending' = <<"external", "internal">>
       ELSE UNCHANGED <<transactions, cacheVars, extending>>
  /\ UNCHANGED <<blockHeight, chainLen, doomed, update, envVars>>

\* the registration's own calls of BRWalletUnusedAddrs, each under its own lock
ExtendChain ==
  /\ extending # <<>>
  /\ UnusedAddrs(Head(extending), GapLimit[Head(extending)])
  /\ extending' = Tail(extending)
  /\ UNCHANGED <<listVars, cacheVars, doomed, update, envVars>>

\* the user asks for a receive or change address, or the peer manager for the
\* addresses of a bloom filter
RequestAddrs(c, gap) ==
  /\ ~update.running
  /\ UnusedAddrs(c, gap)
  /\ UNCHANGED <<listVars, cacheVars, callVars, envVars>>

(***************************************************************************)
(* BRWalletRemoveTransaction.  The call for a transaction that others      *)
(* spend from removes those first, each by a call of its own with the lock *)
(* released in between, and then calls itself again.                       *)
(***************************************************************************)
RemoveTransaction(t) ==
  /\ Ready
  /\ t \in Listed /\ txHeight[t] = TX_UNCONFIRMED
  /\ doomed' = <<t>>
  /\ UNCHANGED <<listVars, chainLen, cacheVars, extending, update, envVars>>

\* mutant: stops at the first transaction that is not younger
Dependents_Younger(t) ==
  {transactions[i] : i \in {j \in 1..Len(transactions) :
     /\ transactions[j] # t /\ t \in Parents(transactions[j])
     /\ \A k \in j..Len(transactions) : txHeight[transactions[k]] > txHeight[t]}}

\* the scan runs from the end of the list down to the first older transaction
Dependents(t) ==
  {transactions[i] : i \in {j \in 1..Len(transactions) :
     /\ transactions[j] # t /\ t \in Parents(transactions[j])
     /\ \A k \in j..Len(transactions) : txHeight[transactions[k]] >= txHeight[t]}}

InListOrder(q) ==
  \A i, j \in DOMAIN q : i < j =>
    \E m, n \in 1..Len(transactions) : m < n /\ transactions[m] = q[i] /\ transactions[n] = q[j]

RemoveDependents ==
  /\ doomed # <<>>
  /\ Dependents(Head(doomed)) # {}
  /\ \E q \in SetToSeqs(Dependents(Head(doomed))) :
       InListOrder(q) /\ doomed' = q \o doomed
  /\ UNCHANGED <<listVars, chainLen, cacheVars, extending, update, envVars>>

RemoveLast ==
  /\ doomed # <<>>
  /\ Dependents(Head(doomed)) = {}
  /\ transactions' = RemoveTx(transactions, Head(doomed))
  /\ UpdateBalance(transactions', txHeight, blockHeight)
  /\ doomed' = Tail(doomed)
  /\ UNCHANGED <<allTx, txHeight, txTime, blockHeight, chainLen, extending, update, envVars>>

(***************************************************************************)
(* BRWalletUpdateTransactions.  The loop runs under the wallet's lock, one *)
(* transaction per step; the balance is recomputed at its end, and only    *)
(* when the loop met a pending or invalid transaction.                     *)
(***************************************************************************)
BeginUpdate(txHashes, height, time) ==
  /\ Ready
  /\ blockHeight' = IF height > blockHeight THEN height ELSE blockHeight
  /\ update' = [running |-> TRUE, todo |-> txHashes, height |-> height,
                time |-> time, dirty |-> FALSE]
  /\ UNCHANGED <<transactions, allTx, txHeight, txTime, chainLen, cacheVars, extending, doomed>>

\* mutant: compares the timestamps alone
UpToDate_SameTime(t) == txTime[t] = update.time

\* mutant: recomputes the balance only when an invalid transaction confirms
Unsettled_Invalid(t) == t \in invalidTx

UpToDate(t) == txHeight[t] = update.height /\ txTime[t] = update.time

Unsettled(t) == t \in pendingTx \cup invalidTx

UpdateOne ==
  /\ update.todo # <<>>
  /\ LET t == Head(update.todo)
     IN IF t \notin allTx \/ UpToDate(t)
          THEN /\ update' = [update EXCEPT !.todo = Tail(@)]
               /\ UNCHANGED <<transactions, allTx, txHeight, txTime>>
        ELSE IF ContainsTx(allTx, t)
          THEN /\ txHeight' = [txHeight EXCEPT ![t] = update.height]
               /\ txTime' = [txTime EXCEPT ![t] = update.time]
               /\ transactions' = IF t \in Listed
                                    THEN InsertTx(allTx, txHeight', RemoveTx(transactions, t), t)
                                    ELSE transactions
               /\ update' = [update EXCEPT !.todo = Tail(@),
                                           !.dirty = @ \/ Unsettled(t)]
               /\ UNCHANGED allTx
        ELSE \* a transaction of others: forgotten once it confirms
             /\ txHeight' = [txHeight EXCEPT ![t] = update.height]
             /\ txTime' = [txTime EXCEPT ![t] = update.time]
             /\ allTx' = IF update.height # TX_UNCONFIRMED THEN allTx \ {t} ELSE allTx
             /\ update' = [update EXCEPT !.todo = Tail(@)]
             /\ UNCHANGED transactions
  /\ UNCHANGED <<blockHeight, chainLen, cacheVars, extending, doomed, envVars>>

EndUpdate ==
  /\ update.running /\ update.todo = <<>>
  /\ IF update.dirty THEN UpdateBalance(transactions, txHeight, blockHeight)
                     ELSE UNCHANGED cacheVars
  /\ update' = NoUpdate
  /\ UNCHANGED <<listVars, chainLen, extending, doomed, envVars>>

-----------------------------------------------------------------------------
(***************************************************************************)
(* Who calls BRWalletUpdateTransactions, and when.                         *)
(***************************************************************************)

\* the transactions a block may confirm, in block order: spenders after what
\* they spend, no conflict among them or with the chain below
Blocks ==
  {q \in UNION {[1..n -> Tx] : n \in 0..MaxBlockTx} :
     /\ \A i, j \in DOMAIN q : i # j => Ins[q[i]] \cap Ins[q[j]] = {} /\ q[i] # q[j]
     /\ \A i \in DOMAIN q :
          /\ mined[q[i]] = TX_UNCONFIRMED
          /\ \A p \in Parents(q[i]) : mined[p] # TX_UNCONFIRMED
                                      \/ \E j \in 1..(i - 1) : q[j] = p
          /\ \A t \in Tx : mined[t] # TX_UNCONFIRMED => Ins[t] \cap Ins[q[i]] = {}}

\* _peerRelayedBlock extends the main chain; a block without transactions of
\* the wallet makes no call
BlockConnected(time) ==
  /\ Ready
  /\ tip < MaxHeight
  /\ tip' = tip + 1
  /\ \E q \in Blocks :
       /\ mined' = [t \in Tx |-> IF t \in ToSet(q) THEN tip + 1 ELSE mined[t]]
       /\ IF q = <<>> THEN UNCHANGED <<listVars, chainLen, cacheVars, callVars>>
                      ELSE BeginUpdate(q, tip + 1, time)

\* _peerRelayedTx, _peerHasTx: enough peers relay t, it counts as verified
MarkVerified(t, time) ==
  /\ t \in allTx /\ txHeight[t] = TX_UNCONFIRMED /\ txTime[t] = 0
  /\ time > 0
  /\ BeginUpdate(<<t>>, TX_UNCONFIRMED, time)
  /\ UNCHANGED envVars

\* _peerRejectedTx, _requestUnrelayedTxGetdataDone: no longer verified
MarkUnverified(t) ==
  /\ t \in allTx /\ txHeight[t] = TX_UNCONFIRMED
  /\ BeginUpdate(<<t>>, TX_UNCONFIRMED, 0)
  /\ UNCHANGED envVars

(***************************************************************************)
(* BRWalletSetTxUnconfirmedAfter, called by _peerRelayedBlock when a fork  *)
(* that leaves the main chain at height join has become the longer chain.  *)
(***************************************************************************)
\* mutant: off by one at the fork
TxAbove_Next(height) ==
  {transactions[i] : i \in {j \in 1..Len(transactions) :
     \A k \in j..Len(transactions) : txHeight[transactions[k]] > height + 1}}

TxAbove(height) ==
  {transactions[i] : i \in {j \in 1..Len(transactions) :
     \A k \in j..Len(transactions) : txHeight[transactions[k]] > height}}

SetTxUnconfirmedAfter(join) ==
  /\ Ready
  /\ join < tip
  /\ tip' = join
  /\ mined' = [t \in Tx |-> IF mined[t] > join THEN TX_UNCONFIRMED ELSE mined[t]]
  /\ blockHeight' = join
  /\ txHeight' = [t \in Tx |-> IF t \in TxAbove(join) THEN TX_UNCONFIRMED ELSE txHeight[t]]
  /\ IF TxAbove(join) # {} THEN UpdateBalance(transactions, txHeight', join)
                           ELSE UNCHANGED cacheVars
  /\ UNCHANGED <<transactions, allTx, txTime, chainLen, callVars>>

Next ==
  \/ \E t \in Tx, time \in 0..MaxTime : Register(t, time)
  \/ ExtendChain
  \/ \E c \in Chain, gap \in {1, FilterGap} : RequestAddrs(c, gap)
  \/ \E t \in Tx : RemoveTransaction(t)
  \/ RemoveDependents
  \/ RemoveLast
  \/ \E time \in 1..MaxTime : BlockConnected(time)
  \/ \E t \in Tx, time \in 0..MaxTime : MarkVerified(t, time)
  \/ \E t \in Tx : MarkUnverified(t)
  \/ UpdateOne
  \/ EndUpdate
  \/ \E join \in 0..MaxHeight : SetTxUnconfirmedAfter(join)

Spec == Init /\ [][Next]_vars
-----------------------------------------------------------------------------
(***************************************************************************)
(* Properties.                                                             *)
(***************************************************************************)

\* Every variable stays in its type, whatever the callers do.
TypeOK ==
  /\ transactions \in Seq(Tx)
  /\ allTx \subseteq Tx
  /\ txHeight \in [Tx -> Height] /\ txTime \in [Tx -> 0..MaxTime]
  /\ blockHeight \in Height
  /\ chainLen \in [Chain -> Nat]
  /\ utxos \subseteq Outpoint /\ spentOutputs \subseteq Outpoint
  /\ balanceHist \in Seq(SUBSET Outpoint)
  /\ invalidTx \subseteq Tx /\ pendingTx \subseteq Tx
  /\ usedAddrs \subseteq Address
  /\ extending \in Seq(Chain) /\ doomed \in Seq(Tx)
  /\ update \in [running : BOOLEAN, todo : Seq(Tx), height : Height,
                 time : 0..MaxTime, dirty : BOOLEAN]
  /\ mined \in [Tx -> Height] /\ tip \in 0..MaxHeight

\* s is in ascending order of the heights h
Ordered(h, s) == \A i, j \in 1..Len(s) : i < j => h[s[i]] <= h[s[j]]

\* The list is ordered by height, unconfirmed last: the reorganisation's walk
\* from the end, the search for dependents and BRWalletTxUnconfirmedBefore all
\* stop at the first older transaction.
SortedByHeight == Ordered(txHeight, transactions)

\* No transaction is listed twice, and the wallet holds every listed one: the
\* remove-and-insert of an update neither duplicates nor leaks an entry.
ListedOnce == Listed \subseteq allTx /\ IsInjective(transactions)

\* A listed transaction has the height the best chain gives it, across
\* registrations, blocks and reorganisations, whenever no update is under way.
HeightsFollowChain ==
  ~update.running => \A t \in Listed : txHeight[t] = mined[t]

\* Of two listed transactions that spend the same output one is marked invalid,
\* in the middle of an update too: the wallet never counts both.
NoDoubleSpend ==
  \A t1, t2 \in Listed :
    t1 # t2 /\ Ins[t1] \cap Ins[t2] # {} => t1 \in invalidTx \/ t2 \in invalidTx

\* A coin that is offered for spending comes from a listed transaction that is
\* neither invalid nor pending.
UtxosBacked ==
  \A o \in utxos : o[1] \in Listed /\ o[1] \notin invalidTx \cup pendingTx

\* A listed transaction never stops belonging to the wallet, so the update that
\* forgets the transactions of others does not forget a listed one.
ListedContained == \A t \in Listed : ContainsTx(allTx, t)

\* HeightsFollowChain in the middle of an update: only the transactions still to
\* do may differ, and the update brings them where the chain has them.
UpdateFollowsChain ==
  /\ \A t \in Listed : t \in ToSet(update.todo) \/ txHeight[t] = mined[t]
  /\ \A t \in Listed \cap ToSet(update.todo) : mined[t] = update.height
  /\ ~update.running => update = NoUpdate

\* Only transactions that the chain does not have are ever removed, the ones a
\* removal finds as dependents included.
DoomedUnconfirmed ==
  /\ doomed # <<>> => ~update.running
  /\ \A t \in ToSet(doomed) : mined[t] = TX_UNCONFIRMED /\ txHeight[t] = TX_UNCONFIRMED

\* The chain confirms nothing above its tip and no spender before what it spends.
ChainInOrder ==
  \A t \in Tx : /\ mined[t] <= tip \/ mined[t] = TX_UNCONFIRMED
                /\ \A p \in Parents(t) : mined[p] <= mined[t]

\* The chain confirms no two transactions that spend the same output.
ChainHasNoConflict ==
  \A t1, t2 \in Tx :
    t1 # t2 /\ mined[t1] # TX_UNCONFIRMED /\ mined[t2] # TX_UNCONFIRMED => Ins[t1] \cap Ins[t2] = {}

\* What the last pass counted.
Counted == Listed \ (invalidTx \cup pendingTx)

\* The output pays one of the wallet's first addresses, there from the start.
Early(o) == \E c \in Chain : \E i \in 0..(GapLimit[c] - 1) : Outs[o[1]][o[2]] = <<c, i>>

\* A listed transaction that the last pass left out and that has confirmed since
\* makes the update under way compute the balance again.
SettlesWhenConfirmed ==
  \A t \in Listed \ Counted : txHeight[t] # TX_UNCONFIRMED => update.dirty

\* The chains never lose the addresses they began with.
KeepsFirstAddresses == \A c \in Chain : chainLen[c] >= GapLimit[c]

\* utxos lies between the outputs that nothing listed spends and those that
\* nothing counted spends.
UtxosBetween ==
  /\ \A o \in utxos : o \in OwnOutputs(o[1]) /\ \A t \in Counted : o \notin Ins[t]
  /\ \A t \in Counted : \A o \in OutpointsOf(t) :
       Early(o) /\ (\A u \in Listed : o \notin Ins[u]) => o \in utxos

\* What every step of the list and of the calls relies on.
ListInv ==
  /\ TypeOK /\ ListedOnce /\ SortedByHeight /\ UtxosBacked
  /\ ListedContained /\ UpdateFollowsChain /\ DoomedUnconfirmed /\ ChainInOrder

\* What the cached balance has to do with the list, computed just now or not.
BalanceInv ==
  /\ ChainHasNoConflict /\ SettlesWhenConfirmed /\ KeepsFirstAddresses
  /\ NoDoubleSpend /\ UtxosBetween

\* The inductive invariant: what a listed transaction, an update and a removal
\* under way may rely on, and what the balance may, in every state between two
\* critical sections.
IInv == ListInv /\ BalanceInv

\* A coin that a listed, confirmed transaction spends is never offered again.
ConfirmedSpendsExcluded ==
  ~update.running =>
    \A t \in Listed : mined[t] # TX_UNCONFIRMED => Ins[t] \cap utxos = {}

\* When a removal is over no listed transaction spends from the removed one.
RemovalIsComplete ==
  [][doomed # <<>> /\ doomed' = <<>> =>
       \A t \in Listed' : Head(doomed) \notin Parents(t)]_vars

\* Once every listed transaction is confirmed, the balance is exactly the
\* outputs on the wallet's first addresses that no listed transaction spends,
\* in whatever order registrations, blocks and reorganisations came.
SettledBalance ==
  LET paid == {o \in UNION {OwnOutputs(t) : t \in Listed} : Early(o)}
  IN Ready /\ (\A t \in Listed : mined[t] # TX_UNCONFIRMED) =>
       {o \in utxos : Early(o)} = paid \ UNION {Ins[t] : t \in Listed}
=============================================================================
