CONSTANTS
  a = a  b = b  k = k  x = x
  NoHash = NoHash
  Hash <- AllHashes
  Ours <- SentHashes
  Token <- TokenHashes
  Seen <- SeenTogether
  NOT_ASSIGNED = 9
  MaxBlock = 2
  MaxWaiting = 0
  MaxCalls = 4
SPECIFICATION FairSpec
CHECK_DEADLOCK FALSE
INVARIANTS
  IInv BlockedInOrder HeldOnce BlockedIsMined NonceReuse
PROPERTIES
  MinedIsShown
