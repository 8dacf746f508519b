SPECIFICATION FairSpec
CONSTANTS
  MaxRooms = 2
  MaxLaunches = 2
INVARIANTS RoomsNeverMixed OneService
PROPERTIES NeverBackToALeftRoom OperationsEnd
CHECK_DEADLOCK FALSE
