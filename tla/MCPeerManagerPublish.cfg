CONSTANTS
  p1 = p1  p2 = p2  c1 = c1  c2 = c2  t1 = t1  t2 = t2
  Peer = {p1, p2}
  NoPeer = NoPeer
  NoCall = NoCall
  App = App
  TxOf <- OneCallEach
  Inputs <- SecondSpendsFirst
  MaxFailures = 1
  LastBlock <- NoNewBlocks
  Tx = {t1, t2}
  Call = {c1, c2}
  MaxConnectCount = 1
SPECIFICATION Spec
SYMMETRY Peers
CHECK_DEADLOCK FALSE
INVARIANTS
  IInv
  ConnectionsBounded
  AnnouncedIsTimed
PROPERTIES
  PromiseSpec
