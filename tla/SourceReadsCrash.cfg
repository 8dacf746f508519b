SPECIFICATION Spec
CONSTANTS
  Files = {f, g}
  Downloads = {d1, d2}
  Starts <- SmallRooms
  Size = 2
  MaxItems = 2
  MaxEdits = 0
  MaxEvents = 2
  MaxReads = 2
  MaxWorkers = 1
  MaxCache = 1
  MaxSafe = 5
INVARIANTS DownloadsAreHarmless
CHECK_DEADLOCK FALSE
