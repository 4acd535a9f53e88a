\* The mirror against every order of two writes of any kind, one call of track
\* or resolve, and one failed request, crash or sweep.
CONSTANTS
  a = a
  b = b
  Ids = {a, b}
  Starts <- MCStarts
  Lists = {"bans", "mutes"}
  Kinds = {"moderate", "link", "unlink", "member", "group", "delete"}
  Changes = {{"roles"}, {"status", "overrides"}}
  MaxWrites = 2
  MaxCalls = 1
  MaxFaults = 1
SPECIFICATION Spec
INVARIANTS
  MarksHold
  AccessHolds
  CurrentAtRest
CHECK_DEADLOCK FALSE
