CONSTANTS
  p1 = p1  p2 = p2
  Signaller <- TwoSignallers
  MaxSignals = 1
  MaxStarts = 1
  MaxStops = 0
  UsesTimeout = FALSE
SPECIFICATION Spec
CHECK_DEADLOCK FALSE
PROPERTIES EventHandled
