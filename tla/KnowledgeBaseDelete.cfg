\* One worker, no failures: delete_crawl against a running index job.
SPECIFICATION Spec
CONSTANTS
  t1 = t1
  t2 = t2
  w1 = w1
  w2 = w2
  r1 = r1
  r2 = r2
  Tenants = {t1}
  Workers = {w1}
  Requests = {r1}
  Slots <- MCSlots
  WorkerOf <- MCWorkerOf
  KindOf <- MCKindOf
  MaxJobs = 2
  MaxStarts = 1
  MaxCalls = 2
  MaxFaults = 0
  MaxKB = 2
  MaxPages = 2
  ProgressEvery = 1
  CancelEvery = 2
  BatchSize = 2
  IndexCancelEvery = 2
INVARIANTS
  DeleteLeavesNoVectors
CHECK_DEADLOCK FALSE
