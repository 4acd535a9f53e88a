SPECIFICATION FairSpec
CONSTANTS
  p1 = p1
  p2 = p2
  e1 = e1
  e2 = e2
  d1 = d1
  d2 = d2
  d3 = d3
  Procs = {p1}
  Endpoints = {e1, e2}
  Rows = {d1, d2}
  NoRow = NoRow
  Target <- TwoTargets
  MaxAttempts = 2
  Threshold = 2
  Batch = 2
  Faults = {"delete", "record", "release", "crash", "stop"}
  MaxFaults = 2
PROPERTIES
  Settles
CHECK_DEADLOCK FALSE
