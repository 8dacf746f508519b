SPECIFICATION FairSpec
CONSTANTS
  Clients = {c1, c2}
  Ids = {i1, i2}
  Slots = {s1, s2}
  None = None
  Size = 2
  MaxAttempts = 2
  MaxCalls = 2
  MaxIncidents = 2
INVARIANTS TypeOK DoneIsCommitted OneOpenItem
PROPERTIES ShownIsDurable CallsEnd
CHECK_DEADLOCK FALSE
