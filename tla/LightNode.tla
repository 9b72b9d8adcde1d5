----------------------------- MODULE LightNode -----------------------------
(***************************************************************************)
(* The Ethereum light node (BREthereumLightNode.c, ...Announce.c), the     *)
(* transactions and wallets it keeps (BREthereumTransaction.c,             *)
(* BREthereumWallet.c) and the nonce of its address (BREthereumAccount.c). *)
(* A thread polls a server; the answers are applied by threads of their    *)
(* own, in any order, each announcement under the node's lock.  Signing    *)
(* and the nonce take no lock.  The server and the chain are external.     *)
(*                                                                         *)
(* A transaction is known to the network by its hash.  What the node holds *)
(* is a record at an index (tid) of node->transactions, and each wallet's  *)
(* list holds tids.  Every start of the program begins with Init, while    *)
(* the chain may hold transactions of an earlier run or another device.    *)
(***************************************************************************)
EXTENDS Integers, FiniteSets, SequencesExt

CONSTANTS
  Hash,          \* the transactions from or to our address the network may see
  Ours,          \* those whose source is our address
  Token,         \* those that are token transfers, which emit a log
  Seen,          \* which of them a behaviour may see together (sets of Hash)
  NoHash,        \* hashCreateEmpty
  NOT_ASSIGNED,  \* TRANSACTION_NONCE_IS_NOT_ASSIGNED, 2^64 - 1 in the code
  MaxBlock,      \* bound on the number of blocks
  MaxWaiting,    \* bound on what is still to be applied when a round begins
  MaxCalls       \* bound on the app's calls: connect, disconnect and send

ASSUME HashAssumption == Ours \subseteq Hash /\ Token \subseteq Hash /\ NoHash \notin Hash /\ Seen \subseteq SUBSET Hash /\ IsFiniteSet(Hash)
ASSUME BoundAssumption ==
  /\ NOT_ASSIGNED \in Nat \ {0}
  /\ {MaxBlock, MaxWaiting, MaxCalls} \subseteq Nat

VARIABLES
  state,         \* node->state
  thread,        \* the polling thread: "none", "starting" or "polling"
  nonce,         \* address->nonce
  raising,       \* nonces that addressSetNonce has tested and not yet written
  signer,        \* where signAndPublishTransaction is
  transactions,  \* node->transactions
  wallets,       \* wallet->transactions of the ether and of the token wallet
  nonces, toAnnounce, answers,   \* answers that are still to be applied
  chain, height, \* what the network made of each hash, its last block (external)
  calls

node == <<state, thread, calls>>
held == <<transactions, wallets>>
replies == <<nonces, toAnnounce>>
network == <<answers, chain, height>>
vars == <<node, nonce, raising, signer, held, replies, network>>

Wallet == {"ether", "token"}
Place == Nat \X Nat             \* block number and index within the block
Tid == DOMAIN transactions
NoOne == 0                      \* no transaction: tids start at 1

\* A transaction: who made it (the app or an announcement) and whether its
\* source is our address, then the fields of BREthereumTransactionRecord.
\* windowed is history: it was given its nonce while a raise was under way.
Transaction ==
  [made : {"app", "announced"}, ours : BOOLEAN, nonce : Nat, hash : Hash \cup {NoHash},
   status : {"CREATED", "SIGNED", "SUBMITTED", "BLOCKED"}, place : Place, windowed : BOOLEAN]

-----------------------------------------------------------------------------
(* The network, external: each hash is unknown, pending or mined.          *)

\* the hashes with a status on the network
With(s) == {h \in Hash : chain[h].status = s}
Mined == With("mined")

\* A hash that nothing has yet, of its kind (which one is the same to everyone)
Kind(h) == {g \in Hash : (g \in Ours <=> h \in Ours) /\ (g \in Token <=> h \in Token)}
Fresh(h) ==
  /\ h \in With("unknown")
  /\ h = CHOOSE g \in With("unknown") \cap Kind(h) : TRUE

\* eth_getTransactionCount, "latest"
TransactionCount == Cardinality(Mined \cap Ours)

\* What a block can hold next after n transactions of ours: a pending one of
\* ours with the next nonce, one another device sent, or one sent to us.
Mineable(h, n) ==
  \/ Fresh(h)
  \/ h \in With("pending") /\ chain[h].nonce = n

-----------------------------------------------------------------------------
(* The wallet's list.                                                      *)

\* the fields transactionCompare looks at
Before(p, q) == p[1] < q[1] \/ (p[1] = q[1] /\ p[2] < q[2])

\* ETHEREUM_COMPARISON_LT = transactionCompare(t, u)
Less(t, u) ==
  CASE t.status = "BLOCKED" /\ u.status = "BLOCKED" -> Before(t.place, u.place)
    [] t.status = "BLOCKED" /\ u.status # "BLOCKED" -> TRUE
    [] t.status # "BLOCKED" /\ u.status = "BLOCKED" -> FALSE
    [] OTHER -> t.nonce < u.nonce

\* walletInsertTransactionSorted: after the last one that t is not less than
InsertedSorted(list, tid, ts) ==
  LET last == CHOOSE k \in 0..Len(list) :
                /\ k = 0 \/ ~ Less(ts[tid], ts[list[k]])
                /\ \A i \in (k + 1)..Len(list) : Less(ts[tid], ts[list[i]])
  IN  InsertAt(list, last + 1, tid)

\* walletUpdateTransactionSorted: remove it wherever it is, then insert
UpdatedSorted_Stays(list, tid, ts) == list
UpdatedSorted(list, tid, ts) ==
  LET index == CHOOSE i \in 1..Len(list) : list[i] = tid
  IN  InsertedSorted(RemoveAt(list, index), tid, ts)

\* the first entry of a wallet's list at one of the positions found
FirstOf(w, found) ==
  IF found = {} THEN NoOne
  ELSE wallets[w][CHOOSE i \in found : \A j \in found : i <= j]

\* walletGetTransactionByHash, walletGetTransactionByNonce
ByHash(w, h) == FirstOf(w, {i \in DOMAIN wallets[w] : transactions[wallets[w][i]].hash = h})
ByNonce(w, n) ==
  FirstOf(w, {i \in DOMAIN wallets[w] :
                LET t == transactions[wallets[w][i]] IN t.nonce = n /\ t.ours})

-----------------------------------------------------------------------------
Init ==
  /\ state = "CREATED" /\ thread = "none" /\ calls = 0
  /\ nonce = 0 /\ raising = {}
  /\ signer = [step |-> "idle", tid |-> NoOne, read |-> 0]
  /\ transactions = <<>>
  /\ wallets = [w \in Wallet |-> <<>>]
  /\ nonces = {} /\ toAnnounce = {}
  /\ answers = {} /\ height = 0
  /\ \E seen \in Seen :
       chain = [h \in Hash |-> [status |-> IF h \in seen THEN "unknown" ELSE "never",
                                nonce |-> 0, place |-> <<0, 0>>]]

(* The life of the connection.                                             *)

\* lightNodeConnect
Startable == {"CREATED", "DISCONNECTED"}
Connect ==
  /\ calls < MaxCalls
  /\ state \in Startable
  /\ calls' = calls + 1
  /\ state' = "CONNECTING" /\ thread' = "starting"
  /\ UNCHANGED <<nonce, raising, signer, held, replies, network>>

\* lightNodeDisconnect, whatever the state is
Stopped == "DISCONNECTING"

Disconnect ==
  /\ calls < MaxCalls
  /\ calls' = calls + 1
  /\ state' = Stopped
  /\ UNCHANGED <<thread, nonce, raising, signer, held, replies, network>>

\* the first line of lightNodeThreadRoutine, whatever the state is
ThreadStart ==
  /\ thread = "starting"
  /\ state' = "CONNECTED" /\ thread' = "polling"
  /\ UNCHANGED <<calls, nonce, raising, signer, held, replies, network>>

\* One round of the loop: the nonce, the transactions and the logs are asked
\* for.  The answers are what the chain holds now and wait to be applied; an
\* answer that is computed later is that of a later round.
Poll ==
  /\ thread = "polling" /\ state = "CONNECTED"
  /\ Cardinality(nonces) + Cardinality(toAnnounce) <= MaxWaiting
  /\ nonces' = nonces \cup {TransactionCount}
  /\ toAnnounce' = toAnnounce \cup {<<"ether", h>> : h \in Mined \ (Token \ Ours)}
                              \cup {<<"token", h>> : h \in Mined \cap Token}
  /\ UNCHANGED <<node, nonce, raising, signer, held, network>>

\* the test at the head and at the end of a round
ThreadEnd ==
  /\ thread = "polling" /\ state = "DISCONNECTING"
  /\ state' = "DISCONNECTED" /\ thread' = "none"
  /\ UNCHANGED <<calls, nonce, raising, signer, held, replies, network>>

(* The app sends: createTransaction, then signAndPublishTransaction on the  *)
(* same thread, which takes no lock until it submits.                      *)

\* lightNodeWalletCreateTransaction, then addressGetThenIncrementNonce reads the
\* nonce (which a bound keeps below NOT_ASSIGNED) ...
CreateTransaction(w) ==
  LET tid == Len(transactions) + 1
      new == [made |-> "app", ours |-> TRUE, nonce |-> NOT_ASSIGNED, hash |-> NoHash,
              status |-> "CREATED", place |-> <<0, 0>>, windowed |-> FALSE]
  IN  /\ signer.step = "idle"
      /\ calls < MaxCalls
      /\ calls' = calls + 1
      /\ nonce + 1 < NOT_ASSIGNED
      /\ transactions' = Append(transactions, new)
      /\ wallets' = [wallets EXCEPT ![w] = InsertedSorted(@, tid, transactions')]
      /\ signer' = [step |-> "assign", tid |-> tid, read |-> nonce]
      /\ UNCHANGED <<state, thread, nonce, raising, replies, network>>

\* ... writes it incremented, and transactionSetNonce
Incremented_Not(n) == n
Incremented(n) == n + 1

SignAssign ==
  /\ signer.step = "assign"
  /\ nonce' = Incremented(signer.read)
  /\ transactions' = [transactions EXCEPT ![signer.tid].nonce = signer.read,
                                          ![signer.tid].windowed = raising # {}]
  /\ signer' = [signer EXCEPT !.step = "sign"]
  /\ UNCHANGED <<node, raising, wallets, replies, network>>

\* transactionSign, then lightNodeWalletSubmitTransaction.  The server may
\* refuse: the app shows the error and the node hears nothing, as when the raw
\* transaction is lost.  It never takes a nonce that is used.  What it takes
\* has a hash that was never seen, and the answer says so.
Submit ==
  /\ signer.step = "sign"
  /\ transactions' = [transactions EXCEPT ![signer.tid].status = "SIGNED"]
  /\ signer' = [signer EXCEPT !.step = "idle"]
  /\ \/ UNCHANGED network
     \/ /\ transactions[signer.tid].nonce >= TransactionCount
        /\ \E h \in Ours :
             /\ Fresh(h)
             /\ (h \in Token) <=> (signer.tid \in ToSet(wallets["token"]))
             /\ chain' = [chain EXCEPT ![h].status = "pending",
                                       ![h].nonce = transactions[signer.tid].nonce]
             /\ answers' = answers \cup {[tid |-> signer.tid, hash |-> h]}
             /\ UNCHANGED height
  /\ UNCHANGED <<node, nonce, raising, wallets, replies>>

(* The chain, external.                                                    *)

\* a block of one or two transactions
Mine(hs) ==
  LET count(i) == TransactionCount + Cardinality({j \in 1..(i - 1) : hs[j] \in Ours})
      index(h) == CHOOSE i \in DOMAIN hs : hs[i] = h
  IN  /\ height < MaxBlock
      /\ height' = height + 1
      /\ \A i \in DOMAIN hs : Mineable(hs[i], count(i)) /\ count(i) < NOT_ASSIGNED
      /\ chain' = [h \in Hash |->
                     IF h \notin ToSet(hs) THEN chain[h]
                     ELSE [status |-> "mined", nonce |-> IF h \in Ours THEN count(index(h)) ELSE 0,
                           place |-> <<height', index(h) - 1>>]]
      /\ UNCHANGED <<node, nonce, raising, signer, held, replies, answers>>
Block == {<<h>> : h \in Hash} \cup {<<p[1], p[2]>> : p \in {q \in Hash \X Hash : q[1] # q[2]}}

(* Applying the answers.                                                   *)

\* lightNodeAnnounceNonce: addressSetNonce tests ...
TestNonce(n) ==
  /\ n \in nonces
  /\ nonces' = nonces \ {n}
  /\ raising' = IF n > nonce THEN raising \cup {n} ELSE raising
  /\ UNCHANGED <<node, nonce, signer, held, toAnnounce, network>>
\* ... and writes
WriteNonce(n) ==
  /\ n \in raising
  /\ nonce' = n
  /\ raising' = raising \ {n}
  /\ UNCHANGED <<node, signer, held, replies, network>>

\* lightNodeAnnounceSubmitTransaction
AnnounceSubmitTransaction(a) ==
  /\ a \in answers
  /\ answers' = answers \ {a}
  /\ transactions' = [transactions EXCEPT ![a.tid].status = "SUBMITTED", ![a.tid].hash = a.hash]
  /\ UNCHANGED <<node, nonce, raising, signer, wallets, replies, chain, height>>

\* An announcement changes nothing of a transaction that is blocked already
Settled_Known(t) == t.status = "BLOCKED" \/ (t.status = "SUBMITTED" /\ t.made = "app")
Settled(t) == t.status = "BLOCKED"

\* What an announcement of h does to wallet w when it found a transaction or
\* NoOne.  One that is created is inserted, submitted and then blocked, which
\* takes it out and inserts it again: where it was in between does not matter.
Announced(w, h, found, n) ==
  LET tid == IF found = NoOne THEN Len(transactions) + 1 ELSE found
      new == [made |-> "announced", ours |-> h \in Ours, nonce |-> n, hash |-> h,
              status |-> "SUBMITTED", place |-> <<0, 0>>, windowed |-> FALSE]
      all == IF found = NoOne THEN Append(transactions, new) ELSE transactions
      list == IF found = NoOne THEN Append(wallets[w], tid) ELSE wallets[w]
  IN  /\ <<w, h>> \in toAnnounce
      /\ toAnnounce' = toAnnounce \ {<<w, h>>}
      /\ IF Settled(all[tid])
         THEN UNCHANGED held
         ELSE /\ transactions' = [all EXCEPT ![tid].status = "BLOCKED",
                                             ![tid].place = chain[h].place]
              /\ wallets' = [wallets EXCEPT ![w] = UpdatedSorted(list, tid, transactions')]
      /\ UNCHANGED <<node, nonce, raising, signer, nonces, network>>

\* lightNodeAnnounceTransaction: by hash, then, when we are the source, by nonce
Match_HashOnly(h) == ByHash("ether", h)
Match_Nonce(h) ==
  IF ByHash("ether", h) = NoOne THEN ByNonce("ether", chain[h].nonce) ELSE ByHash("ether", h)
Match(h) ==
  IF ByHash("ether", h) = NoOne /\ h \in Ours THEN ByNonce("ether", chain[h].nonce)
  ELSE ByHash("ether", h)

AnnounceTransaction(h) == Announced("ether", h, Match(h), chain[h].nonce)

\* lightNodeAnnounceLog: by hash only
AnnounceLog(h) == Announced("token", h, ByHash("token", h), 0)

Next ==
  \/ Connect \/ Disconnect \/ ThreadStart \/ Poll \/ ThreadEnd
  \/ \E w \in Wallet : CreateTransaction(w)
  \/ SignAssign \/ Submit
  \/ \E hs \in Block : Mine(hs)
  \/ \E n \in nonces : TestNonce(n)
  \/ \E n \in raising : WriteNonce(n)
  \/ \E a \in answers : AnnounceSubmitTransaction(a)
  \/ \E h \in Hash : AnnounceTransaction(h) \/ AnnounceLog(h)

\* The thread goes on and what it is told is applied.  The answer to a
\* submission may never come.
Fairness ==
  /\ WF_vars(ThreadStart \/ Poll)
  /\ WF_vars(\/ \E n \in nonces : TestNonce(n)
             \/ \E h \in Hash : AnnounceTransaction(h) \/ AnnounceLog(h))

Spec == Init /\ [][Next]_vars
FairSpec == Spec /\ Fairness

-----------------------------------------------------------------------------
TypeOK ==
  /\ state \in {"CREATED", "CONNECTING", "CONNECTED", "DISCONNECTING", "DISCONNECTED"}
  /\ thread \in {"none", "starting", "polling"}
  /\ nonce \in Nat /\ raising \subseteq Nat
  /\ signer \in [step : {"idle", "assign", "sign"}, tid : Tid \cup {NoOne}, read : Nat]
  /\ transactions \in Seq(Transaction)
  /\ wallets \in [Wallet -> Seq(Tid)]
  /\ nonces \subseteq Nat
  /\ toAnnounce \subseteq Wallet \X Hash
  /\ answers \subseteq [tid : Tid, hash : Ours]
  /\ chain \in [Hash -> [status : {"never", "unknown", "pending", "mined"}, nonce : Nat, place : Place]]
  /\ height \in Nat /\ calls \in 0..MaxCalls

\* Whatever the order in which announcements and answers arrive, and however
\* often, the blocked transactions of a wallet are listed in the order of the
\* chain (walletInsertTransactionSorted passes those that are pending again).
BlockedInOrder ==
  \A w \in Wallet : \A i, j \in DOMAIN wallets[w] :
    LET t == transactions[wallets[w][i]]
        u == transactions[wallets[w][j]]
    IN  i < j /\ t.status = "BLOCKED" /\ u.status = "BLOCKED" => ~ Before(u.place, t.place)

\* A wallet never holds two entries for the same hash, except that a token
\* transfer of ours whose log overtook the answer to its submission is held
\* twice: as created and as announced.
HeldOnce ==
  \A w \in Wallet : \A i, j \in DOMAIN wallets[w] :
    LET t == transactions[wallets[w][i]]
        u == transactions[wallets[w][j]]
    IN  i # j /\ t.hash # NoHash /\ t.hash = u.hash => w = "token" /\ t.made # u.made

\* A transaction shown as blocked stands where the network mined one that has
\* its hash or, if it is ours, its nonce.  By the nonce it may be the block of
\* another device's transaction that used the same one.
BlockedIsMined ==
  \A tid \in Tid :
    LET t == transactions[tid]
    IN  t.status = "BLOCKED" =>
          \E h \in Mined : /\ t.place = chain[h].place
                           /\ t.hash = h \/ (t.ours /\ h \in Ours /\ t.nonce = chain[h].nonce)

\* Two transactions that are signed get the same nonce only if one of them got
\* it while an announced nonce was tested and not yet written.
NonceReuse ==
  \A t, u \in Tid :
    /\ t # u
    /\ transactions[t].made = "app" /\ transactions[u].made = "app"
    /\ transactions[t].nonce # NOT_ASSIGNED
    /\ transactions[t].nonce = transactions[u].nonce
    => transactions[t].windowed \/ transactions[u].windowed

\* A node that may be connected has no polling thread, so that connecting
\* never starts a second one.
OneThread == state \in Startable => thread = "none"

\* the wallet shows h as blocked, or an entry of ours with the nonce of h
Shown(w, h) ==
  \E i \in DOMAIN wallets[w] :
    LET t == transactions[wallets[w][i]]
    IN  /\ t.status = "BLOCKED"
        /\ t.hash = h \/ (w = "ether" /\ t.ours /\ h \in Ours /\ t.nonce = chain[h].nonce)

\* While the node stays connected, again and again all that the network mined
\* from or to our address is shown as blocked, also what a late answer to its
\* submission turned back to submitted; of two devices' transactions with one
\* nonce the entry of the other may stand for the one that was mined.
MinedIsShown ==
  []<>(\/ state # "CONNECTED"
       \/ \A h \in Mined : Shown(IF h \in Token THEN "token" ELSE "ether", h))

(* What makes the safety properties inductive.                             *)

\* a transaction is listed once, in one wallet
ListedOnce ==
  \A v, w \in Wallet : \A i \in DOMAIN wallets[v], j \in DOMAIN wallets[w] :
    wallets[v][i] = wallets[w][j] => v = w /\ i = j

\* A nonce that was given outside a raise is below all that can become the next.
NonceBelow ==
  \A tid \in Tid :
    LET t == transactions[tid]
    IN  t.made = "app" /\ t.nonce # NOT_ASSIGNED /\ ~ t.windowed =>
          /\ t.nonce < nonce
          /\ \A n \in raising : t.nonce < n
          /\ signer.step = "assign" => t.nonce < signer.read

\* the one that is being signed, and those that were
SignerOK ==
  /\ signer.step # "idle" =>
       signer.tid \in Tid /\ transactions[signer.tid].made = "app" /\ signer.read < NOT_ASSIGNED
  /\ signer.step = "assign" =>
       transactions[signer.tid].nonce = NOT_ASSIGNED /\ transactions[signer.tid].hash = NoHash
  /\ signer.step = "sign" => transactions[signer.tid].nonce # NOT_ASSIGNED
  /\ \A a \in answers : transactions[a.tid].nonce # NOT_ASSIGNED

\* only what is mined is announced, and its nonce is one
AnnouncedIsMined ==
  /\ \A p \in toAnnounce : p[2] \in Mined
  /\ \A h \in Mined : chain[h].nonce < NOT_ASSIGNED

\* every hash that is held came from the network, and no two submissions got the same
HashesOK ==
  /\ \A tid \in Tid :
       LET t == transactions[tid]
       IN  /\ t.made = "app" => t.ours
           /\ t.hash # NoHash => t.hash \in With("pending") \cup Mined
  /\ \A t, u \in Tid :
       t # u /\ transactions[t].made = "app" /\ transactions[u].made = "app" =>
         transactions[t].hash = NoHash \/ transactions[t].hash # transactions[u].hash

\* An answer still to come is the only one with its hash.  Nothing has the hash
\* already but what was announced, and not in the ether wallet, where the
\* announcement found the submission by its nonce.
AnswersOK ==
  \A a \in answers :
    /\ transactions[a.tid].made = "app"
    /\ a.hash \in With("pending") \cup Mined /\ chain[a.hash].nonce = transactions[a.tid].nonce
    /\ \A b \in answers : b.hash = a.hash => b = a
    /\ \A tid \in Tid : transactions[tid].hash = a.hash =>
         /\ transactions[tid].made = "announced"
         /\ ~ {tid, a.tid} \subseteq ToSet(wallets["ether"])

IInv ==
  /\ TypeOK
  /\ OneThread
  /\ ListedOnce /\ BlockedInOrder
  /\ SignerOK /\ NonceBelow /\ NonceReuse
  /\ AnnouncedIsMined /\ BlockedIsMined
  /\ HashesOK /\ AnswersOK /\ HeldOnce

=============================================================================
