SPECIFICATION FairSpec
CONSTANTS
  w1 = w1
  w2 = w2
  w3 = w3
  k1 = k1
  k2 = k2
  r1 = r1
  r2 = r2
  r3 = r3
  r4 = r4
  None = None
  Writes = {w1, w2, w3}
  Keys = {k1, k2}
  Reqs = {r1, r2, r3, r4}
  Kind <- MCKind
  KeyOf <- MCKeyOf
  IfMatch <- MCIfMatch
  WriteOf <- MCWriteOf
  Start = 1
  Faults = {"lost", "late", "error", "record", "crash", "slow", "expire"}
  MaxFaults = 1
INVARIANTS
  ConditionalOnce
  RunsBounded
  HonestAnswers
  LiftDone
PROPERTIES
  Answered
CHECK_DEADLOCK FALSE
