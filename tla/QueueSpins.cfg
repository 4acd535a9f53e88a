SPECIFICATION FairSpec
CONSTANTS
  Entries = {e1, e2}
  Drain = Drain
  Threshold = 1
  Faults = {}
  MaxFaults = 0

PROPERTIES
  EnqueueReturns
CHECK_DEADLOCK FALSE
