CONSTANTS
  G = G  A1 = A1  A2 = A2  A3 = A3  A4 = A4  A5 = A5  A6 = A6  B3 = B3  B4 = B4  B5 = B5  X3 = X3
  t1 = t1  t2 = t2  p1 = p1  p2 = p2
  NoBlock = NoBlock  NoPeer = NoPeer
  Block <- ForkBlock
  Prev <- ForkPrev
  Height <- ForkHeight
  TxIn <- ForkTxIn
  Invalid <- ForkInvalid
  Checkpoint <- Genesis
  Birthday = G
  Interval = 2
  Tx <- TwoTx
  TX_UNCONFIRMED = 99
  Peer <- Peers
  PeerLastBlock <- PeerHeights
  MaxOrphans = 2
  MaxConnects = 2
  MaxFilters = 1
  MaxRescans = 0
  MaxRestarts = 0
SPECIFICATION Spec
CHECK_DEADLOCK FALSE
INVARIANTS HeightsFollowMainChain TipIsHighest NoStrandedOrphan
PROPERTIES TipOnlyRises
