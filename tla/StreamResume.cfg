SPECIFICATION Spec
CONSTANTS
  p1 = p1
  p2 = p2
  w1 = w1
  w2 = w2
  k1 = k1
  k2 = k2
  Procs = {p1}
  Writers = {w1}
  Conns = {k1, k2}
  NoConn = NoConn
  Host <- OneHost
  Wanted <- MCWanted
  MaxSeq = 3
  MaxBatch = 2
  Page = 2
  Window = 2
  MaxStreams = 1
  WireCap = 1
  MaxFaults = 1
SYMMETRY ConnSymmetry
INVARIANTS
  NoEventLost
  
  WindowContiguous
CHECK_DEADLOCK FALSE
