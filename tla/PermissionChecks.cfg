SPECIFICATION MCFairSpec
CONSTANTS
  g1 = g1
  g2 = g2
  g3 = g3
  w1 = w1
  w2 = w2
  c1 = c1
  c2 = c2
  Groups = {g1, g2, g3}
  NoGroup = NoGroup
  Ttl = 2
  MaxEntries = 2
  Checkers = {c1}
  Writers = {w1, w2}
  Batches <- MCBatches
  Ops <- MCOps
  MaxDepth = 2
INVARIANTS
  TypeOK
  IndexExact
  StaleForCause
  NoParentCycle
PROPERTIES
  StaleLeaves
CHECK_DEADLOCK FALSE
