\* Two worker processes: the second starts while the first runs jobs.
SPECIFICATION Spec
CONSTANTS
  t1 = t1
  t2 = t2
  w1 = w1
  w2 = w2
  r1 = r1
  r2 = r2
  Tenants = {t1, t2}
  Workers = {w1, w2}
  Requests = {r1, r2}
  Slots <- MCSlots
  WorkerOf <- MCWorkerOf
  KindOf <- MCKindOf
  MaxJobs = 2
  MaxStarts = 2
  MaxCalls = 2
  MaxFaults = 1
  MaxKB = 2
  MaxPages = 2
  ProgressEvery = 1
  CancelEvery = 2
  BatchSize = 2
  IndexCancelEvery = 2
SYMMETRY Symmetry
INVARIANTS
  TypeOK
  ClaimExclusive
  TenantIsolation
  VectorsFromFinishedCrawl
PROPERTIES
  SettledStays
  KeepsQueuePromise
CHECK_DEADLOCK FALSE
