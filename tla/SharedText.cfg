SPECIFICATION Spec
CONSTANTS
  Browsers = {b1, b2}
  Texts = {Empty, t1}
  Empty = Empty
  NoNote = NoNote
  MaxCalls = 2
  MaxShares = 2
  MayFail = TRUE
INVARIANTS NotesAreAccepted
PROPERTIES NothingOverwrittenUnseen
CHECK_DEADLOCK FALSE
SYMMETRY Symmetry
