SPECIFICATION FairSpec
CONSTANTS
  p1 = p1
  p2 = p2
  w1 = w1
  w2 = w2
  k1 = k1
  k2 = k2
  Procs = {p1, p2}
  Writers = {w1, w2}
  Conns = {k1}
  NoConn = NoConn
  Host <- MCHost
  Wanted <- AllWanted
  MaxSeq = 2
  MaxBatch = 1
  Page = 2
  Window = 1
  MaxStreams = 2
  WireCap = 1
  MaxFaults = 1
PROPERTIES
  CaughtUp
  KeepsPromise
  VisibleInOrder
  AtMostOnceInOrder
CHECK_DEADLOCK FALSE
