CONSTANTS
  t1 = t1  t2 = t2  b1 = b1
  Tx = {t1, t2}
  Own = {t2}
  Block = {b1}
  NoBlock = NoBlock
  TxsOf <- BlockOfBoth
  NoCall = NoCall
  PingCall = {}
  MempoolCall = {}
  MaxFilters = 1
SPECIFICATION Spec
CHECK_DEADLOCK FALSE
INVARIANTS
  BlockComplete
