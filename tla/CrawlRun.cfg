\* Five pages on three small sites, two fetches at a time.
SPECIFICATION Spec
CONSTANTS
  Urls = {"a", "b", "c", "d", "e"}
  Seed = "a"
  Sites <- SmallSites
  MaxPages = 4
  MaxDepth = 3
  Concurrency = 2
  ProgressEvery = 1
  CancelEvery = 2
  MaxSkips = 2
  MaxFaults = 2
INVARIANTS
  TypeOK
  WithinMaxPages
  NothingInFlight
  StopIsTimely
  ExhaustedMeansAll
CHECK_DEADLOCK FALSE
