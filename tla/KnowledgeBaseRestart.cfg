\* One worker process that crashes and is restarted.
SPECIFICATION FairSpec
CONSTANTS
  t1 = t1
  t2 = t2
  w1 = w1
  w2 = w2
  r1 = r1
  r2 = r2
  Tenants = {t1}
  Workers = {w1}
  Requests = {r1}
  Slots <- MCSlots
  WorkerOf <- MCWorkerOf
  KindOf <- MCKindOf
  MaxJobs = 2
  MaxStarts = 2
  MaxCalls = 3
  MaxFaults = 2
  MaxKB = 2
  MaxPages = 2
  ProgressEvery = 1
  CancelEvery = 2
  BatchSize = 1
  IndexCancelEvery = 1
INVARIANTS
  NoStrandedJob
PROPERTIES
  DeletedFeedsNothing
  EveryJobSettles
CHECK_DEADLOCK FALSE
