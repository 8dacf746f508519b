SPECIFICATION FairSpec
CONSTANTS
  Handlers = {h1, h2}
  Items = {i1, i2, i3, i4, i5}
  Enders = {reset, sweep}
  Reset = reset
  TTL = 3
  HardTTL = 4
  Patience = 1
  HashPatience = 1
  MaxFiles = 2
  Keep = 1
  MaxTime = 4
  MaxRequests = 3
  MaxCrashes = 1
INVARIANTS ActivityKeepsRoom NothingLeftBehind FilesNearLimit
PROPERTIES GoneForGood EndedRoomGoes
CHECK_DEADLOCK FALSE
