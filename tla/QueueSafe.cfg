SPECIFICATION FairSpec
CONSTANTS
  Entries = {e1, e2}
  Drain = Drain
  Threshold = 1
  Faults = {"crash", "force", "write", "dead", "torn", "replace", "reopen"}
  MaxFaults = 1
INVARIANTS
  AcceptedKept
PROPERTIES
  KeepsPromise
  SettledForGood
  Drained
CHECK_DEADLOCK FALSE
