SPECIFICATION Spec
CONSTANTS
  a = a
  b = b
  n1 = n1
  n2 = n2
  Items = {a, b}
  Requests = {r1, r2}
  Boot = Boot
  NoOne = NoOne
  Nobody = Nobody
  User = User
  Names = {n1, n2}
  NameOf <- OwnNames
  Size <- SizeThreeNone
  MaxChunk = 2
  MaxSuffix = 1
  MaxCommits = 1
  MaxActiveWrites = 2
  MaxCrashes = 1
  ForeignPaths = {}
  Cancellable = {a}
SYMMETRY RequestSymmetry
INVARIANTS TypeOK OneWriterPerItem CommittedBytesOnDisk CommitsPartitionPrefix AckedOffsetKept ReadyIsDelivered
