------------------------------ MODULE MCWallet ------------------------------
(***************************************************************************)
(* Small instances of Wallet: two transactions spend the coin that funds   *)
(* the wallet and a third spends from one of them, or a chain of three.    *)
(***************************************************************************)
EXTENDS Wallet

CONSTANTS a, b, c, d

Receive(i) == <<"external", i>>
Change(i)  == <<"internal", i>>
Stranger   == <<"foreign", 0>>

\* a funds the wallet; b and c both spend a; d spends the change of b
SpendIns  == (a :> {<<NoTx, 1>>}) @@ (b :> {<<a, 1>>}) @@ (c :> {<<a, 1>>}) @@ (d :> {<<b, 2>>})
SpendOuts == (a :> <<Receive(0)>>) @@ (b :> <<Stranger, Change(0)>>)
             @@ (c :> <<Receive(1)>>) @@ (d :> <<Change(1)>>)
SpendLock == (a :> 0) @@ (b :> 0) @@ (c :> 0) @@ (d :> 3)

\* three of them, for longer chains: a funds, b spends a, d spends b
Three(f)   == [t \in {a, b, d} |-> f[t]]
ThreeIns   == Three(SpendIns)
ThreeOuts  == Three(SpendOuts)
ThreeLock  == Three(SpendLock)

GapOne  == ("external" :> 1) @@ ("internal" :> 1)
=============================================================================
