CONSTANTS
  a = a
  b = b
  c = c
  d = d
  NoTx = NoTx
  Tx = {a, b, c, d}
  Ins <- SpendIns
  Outs <- SpendOuts
  Replaceable = {d}
  LockTime <- SpendLock
  GapLimit <- GapOne
  FilterGap = 1
  MaxIndex = 1
  MaxHeight = 1
  MaxTime = 1
  MaxBlockTx = 2
  TX_UNCONFIRMED = 9
SPECIFICATION Spec
INVARIANTS
  SortedByHeight
  NoDoubleSpend
  UtxosBacked
  ConfirmedSpendsExcluded
PROPERTIES
  RemovalIsComplete
