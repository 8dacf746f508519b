SPECIFICATION FairSpec
CONSTANTS
  Handlers = {h1, h2}
  Clients = {c1}
  NoView = NoView
  Keep = 5
  MaxStreams = 1
  MaxPolls = 1
  MaxBudget = 4
INVARIANTS TypeOK AnnouncedReachesBrowser
PROPERTIES PublishedReachesStreams PageConverges
