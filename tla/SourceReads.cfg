SPECIFICATION Spec
CONSTANTS
  Files = {f, g}
  Downloads = {d1, d2}
  Starts <- SmallRooms
  Size = 2
  MaxItems = 2
  MaxEdits = 1
  MaxEvents = 2
  MaxReads = 1
  MaxWorkers = 1
  MaxCache = 1
  MaxSafe = 5
SYMMETRY Symmetry
INVARIANTS SlotsCounted  ResumedFromOneVersion DigestsOfOneVersion NobodyWaitsForNothing
CHECK_DEADLOCK FALSE
