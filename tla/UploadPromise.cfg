SPECIFICATION FairSpec
CONSTANTS
  a = a
  b = b
  n1 = n1
  n2 = n2
  Items = {a}
  Requests = {r1, r2}
  Boot = Boot
  NoOne = NoOne
  Nobody = Nobody
  User = User
  Names = {n1, n2}
  NameOf <- OwnNames
  Size <- SizeTwo
  MaxChunk = 2
  MaxSuffix = 1
  MaxCommits = 2
  MaxActiveWrites = 2
  MaxCrashes = 1
  ForeignPaths = {}
  Cancellable = {a}
PROPERTIES ImplementsDurableUpload WriteLocksReturned StartupCompletes
