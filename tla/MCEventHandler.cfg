CONSTANTS
  p1 = p1  p2 = p2
  Signaller <- TwoSignallers
  MaxSignals = 2
  MaxStarts = 2
  MaxStops = 1
  UsesTimeout = TRUE
SPECIFICATION Spec
CHECK_DEADLOCK FALSE
INVARIANTS
  IInv
PROPERTIES
  DeliverySpec
  TimedDelivery
