CONSTANTS
  G = G  A1 = A1  A2 = A2  A3 = A3  A4 = A4  A5 = A5  A6 = A6  B3 = B3  B4 = B4  B5 = B5  X3 = X3
  t1 = t1  t2 = t2  p1 = p1  p2 = p2
  NoBlock = NoBlock  NoPeer = NoPeer
  Block <- LongBlock
  Prev <- LongPrev
  Height <- LongHeight
  TxIn <- LongTxIn
  Invalid = {}
  Checkpoint <- GenesisAndA2
  Birthday = A2
  Interval = 2
  Tx <- OneTx
  TX_UNCONFIRMED = 99
  Peer <- OnePeer
  PeerLastBlock <- PeerHeights
  MaxOrphans = 1
  MaxConnects = 2
  MaxFilters = 0
  MaxRescans = 1
  MaxRestarts = 1
SPECIFICATION Spec
CHECK_DEADLOCK FALSE
INVARIANTS 
  IInv TransitionsVerifiable SavedFromTransition TipReachesTransition
PROPERTIES NoCrash
