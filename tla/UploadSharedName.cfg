SPECIFICATION Spec
CONSTANTS
  a = a
  b = b
  n1 = n1
  n2 = n2
  Items = {a, b}
  Requests = {r1, r2}
  Boot = Boot
  NoOne = NoOne
  Nobody = Nobody
  User = User
  Names = {n1, n2}
  NameOf <- OneName
  Size <- SizeOne
  MaxChunk = 1
  MaxSuffix = 2
  MaxCommits = 1
  MaxActiveWrites = 2
  MaxCrashes = 1
  ForeignPaths <- FirstPath
  Cancellable = {}
SYMMETRY RequestSymmetry
PROPERTIES OnlyWholeFilesPublished ReadyNeverReopened
