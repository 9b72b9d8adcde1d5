CONSTANTS
  a = a
  b = b
  c = c
  d = d
  NoTx = NoTx
  Tx = {a, b, d}
  Ins <- ThreeIns
  Outs <- ThreeOuts
  Replaceable = {d}
  LockTime <- ThreeLock
  GapLimit <- GapOne
  FilterGap = 2
  MaxIndex = 1
  MaxHeight = 2
  MaxTime = 1
  MaxBlockTx = 2
  TX_UNCONFIRMED = 9
SPECIFICATION Spec
INVARIANTS
  IInv
  HeightsFollowChain
  SettledBalance
