SPECIFICATION FairSpec
CONSTANTS
  Uploaders = {u1, u2}
  Browsers = {d1}
  Files = {f}
  Size = 3
  Chunk = 2
  MaxFiles = 1
  MaxAttempts = 2
  MaxPolls = 1
  MaxStarts = 1
  MaxDownloads = 1
  MaxSafe = 5
INVARIANTS ReceivedIsKept NoBytesLeft RangesServed
PROPERTIES UploadsEnd
