--------------------------- MODULE KnowledgeBase ---------------------------
(***************************************************************************)
(* The life of a knowledge base: a crawl job stores the pages of a site, an *)
(* index job turns them into vectors, and the API lets the tenant start,    *)
(* stop and delete them meanwhile.  Three parties share the jobs table,     *)
(* crawl_pages and the tenant's Qdrant collection:                          *)
(*   - API handlers (services/crawl.py, services/index.py), each a sequence *)
(*     of separately committed statements with awaits between them;         *)
(*   - worker processes (worker_main.py), which claim pending jobs, run     *)
(*     them, time them out, crash and are restarted by Cloud Run;           *)
(*   - the running jobs themselves (_run_crawl, run_index_job).             *)
(* One action is one database statement, one vector-store call or one       *)
(* process event.  Fetching, parsing and chunking are left out.             *)
(***************************************************************************)
EXTENDS Integers, FiniteSets

CONSTANTS
  Tenants,          \* rows of the tenants table
  Workers,          \* worker instances Cloud Run may keep at the same time
  Slots,            \* places for a running job, _MAX_CONCURRENT a pool
  WorkerOf,         \* [Slots -> Workers]
  KindOf,           \* [Slots -> Kinds]: the pool the place belongs to
  Requests,         \* API handlers in flight at the same time
  MaxJobs,          \* bound: rows ever inserted into jobs
  MaxStarts,        \* bound: worker processes ever started
  MaxCalls,         \* bound: API calls ever made
  MaxFaults,        \* bound: failed calls, time-outs and aborted handlers
  MaxKB,            \* knowledge bases a tenant may have (9)
  MaxPages,         \* max_pages of every crawl
  ProgressEvery,    \* _PROGRESS_EVERY
  CancelEvery,      \* _CANCEL_CHECK_EVERY
  BatchSize,        \* _INDEX_PAGE_BATCH, also the LIMIT of iter_crawl_pages
  IndexCancelEvery  \* _INDEX_CANCEL_EVERY

Kinds == {"crawl", "index"}

ASSUME BoundsAssumption ==
  /\ MaxJobs \in Nat
  /\ MaxStarts \in Nat
  /\ MaxCalls \in Nat
  /\ MaxFaults \in Nat
  /\ MaxKB \in Nat
  /\ MaxPages \in Nat
  /\ ProgressEvery \in Nat \ {0}
  /\ CancelEvery \in Nat \ {0}
  /\ BatchSize \in Nat \ {0}
  /\ IndexCancelEvery \in Nat \ {0}

ASSUME SlotsAssumption ==
  /\ WorkerOf \in [Slots -> Workers]
  /\ KindOf \in [Slots -> Kinds]

VARIABLES
  status,    \* jobs.status; "none": not inserted yet, "deleted": row removed
  cancel,    \* jobs.cancel_requested
  row,       \* the columns no UPDATE touches: job_type, tenant_id, url (index)
  nextId,    \* the next job_id; ids grow in the order of jobs.created
  pages,     \* crawl_pages rows of each job
  vectors,   \* page vectors in Qdrant whose payload names the job
  up,        \* which worker processes run
  starts,    \* worker processes started so far
  task,      \* what each slot runs
  req,       \* what each API handler is about to do
  calls,     \* API calls made so far, to bound them
  faults,    \* faults so far, to bound them
  lost,      \* history: jobs whose last status write was lost
  finished   \* history: jobs some run of which reached its final write

table   == <<status, cancel, row, nextId>>
stores  == <<pages, vectors>>
workers == <<up, starts>>
history == <<lost, finished>>
bounds  == <<calls, faults>>
vars    == <<table, stores, workers, task, req, bounds, history>>

----------------------------------------------------------------------------
(* The jobs table.                                                          *)

JobIds   == 1..MaxJobs
Active   == {"pending", "running"}
Terminal == {"completed", "failed"}
Gone     == {"none", "deleted"}
Statuses == Active \cup Terminal \cup Gone

NoRow == [kind |-> "crawl", owner |-> "none", src |-> 0]

Exists(j) == status[j] \notin Gone

\* Variant: the row is put back when it is missing (an upsert).
UpsertJobStatus(j, s) ==
  /\ status' = [status EXCEPT ![j] = s]
  /\ cancel' = IF s \in Terminal THEN [cancel EXCEPT ![j] = FALSE] ELSE cancel
  /\ UNCHANGED <<row, nextId>>

\* An UPDATE of a missing row changes nothing; a terminal status clears the flag.
UpdateJobStatus(j, s) ==
  /\ status' = IF Exists(j) THEN [status EXCEPT ![j] = s] ELSE status
  /\ cancel' = IF Exists(j) /\ s \in Terminal
                 THEN [cancel EXCEPT ![j] = FALSE] ELSE cancel
  /\ UNCHANGED <<row, nextId>>

RequestCancel(j) ==
  /\ cancel' = IF Exists(j) THEN [cancel EXCEPT ![j] = TRUE] ELSE cancel
  /\ UNCHANGED <<status, row, nextId>>

CreateJob(t, k, source) ==
  /\ nextId <= MaxJobs
  /\ status' = [status EXCEPT ![nextId] = "pending"]
  /\ row' = [row EXCEPT ![nextId] = [kind |-> k, owner |-> t, src |-> source]]
  /\ nextId' = nextId + 1
  /\ UNCHANGED cancel

\* Variant: the tenant is left out of the WHERE clause.
GetJobOfAnyTenant(t, j) == Exists(j)

\* SELECT ... WHERE job_id = $1 AND tenant_id = $2: any type of job.
GetJob(t, j) == Exists(j) /\ row[j].owner = t

ActiveJobs(t, k) ==
  {j \in JobIds : status[j] \in Active /\ row[j].kind = k /\ row[j].owner = t}

CountActiveCrawlJobs(t) ==
  Cardinality({j \in JobIds : /\ Exists(j) /\ status[j] # "failed"
                              /\ row[j].kind = "crawl" /\ row[j].owner = t})

\* One more failure, as long as the bound allows it.
Fault == faults < MaxFaults /\ faults' = faults + 1

----------------------------------------------------------------------------
(* API handlers: req[r] holds the statement the handler runs next.          *)

NoRequest == [pc |-> "idle", owner |-> "none", job |-> 0]

Goto(r, pc) == req' = [req EXCEPT ![r].pc = pc]
Return(r)   == req' = [req EXCEPT ![r] = NoRequest]

Begin(r, pc, t, j) ==
  /\ req[r].pc = "idle"
  /\ calls < MaxCalls
  /\ calls' = calls + 1
  /\ req' = [req EXCEPT ![r] = [pc |-> pc, owner |-> t, job |-> j]]
  /\ UNCHANGED <<table, stores, workers, task, faults, history>>

\* start_crawl: the knowledge-base count, then the check for an active crawl,
\* then the INSERT; nothing holds between them.
StartCrawl(r, t) ==
  /\ CountActiveCrawlJobs(t) < MaxKB
  /\ Begin(r, "crawl_check", t, 0)

CheckActiveCrawl(r) ==
  /\ req[r].pc = "crawl_check"
  /\ IF ActiveJobs(req[r].owner, "crawl") = {}
       THEN Goto(r, "crawl_create") ELSE Return(r)
  /\ UNCHANGED <<table, stores, workers, task, bounds, history>>

CreateCrawl(r) ==
  /\ req[r].pc = "crawl_create"
  /\ CreateJob(req[r].owner, "crawl", 0)
  /\ Return(r)
  /\ UNCHANGED <<stores, workers, task, bounds, history>>

\* stop_crawl only raises the flag.
StopCrawl(r, t, j) ==
  /\ GetJob(t, j) /\ status[j] \in Active
  /\ Begin(r, "stop_request", t, j)

StopCrawlRequest(r) ==
  /\ req[r].pc = "stop_request"
  /\ RequestCancel(req[r].job)
  /\ Return(r)
  /\ UNCHANGED <<stores, workers, task, bounds, history>>

\* Variant: the crawl need not be completed.
StartIndexAnyStatus(r, t, j) ==
  /\ GetJob(t, j)
  /\ Begin(r, "index_check", t, j)

\* start_index: crawl completed, no active index job, INSERT.
StartIndex(r, t, j) ==
  /\ GetJob(t, j) /\ status[j] = "completed"
  /\ Begin(r, "index_check", t, j)

CheckActiveIndex(r) ==
  /\ req[r].pc = "index_check"
  /\ IF ActiveJobs(req[r].owner, "index") = {}
       THEN Goto(r, "index_create") ELSE Return(r)
  /\ UNCHANGED <<table, stores, workers, task, bounds, history>>

CreateIndex(r) ==
  /\ req[r].pc = "index_create"
  /\ CreateJob(req[r].owner, "index", req[r].job)
  /\ Return(r)
  /\ UNCHANGED <<stores, workers, task, bounds, history>>

\* stop_index raises the flag and then writes 'failed', which clears it again.
StopIndex(r, t, j) ==
  /\ GetJob(t, j) /\ status[j] \in Active
  /\ Begin(r, "stop_index_request", t, j)

StopIndexRequest(r) ==
  /\ req[r].pc = "stop_index_request"
  /\ RequestCancel(req[r].job)
  /\ Goto(r, "stop_index_fail")
  /\ UNCHANGED <<stores, workers, task, bounds, history>>

StopIndexFail(r) ==
  /\ req[r].pc = "stop_index_fail"
  /\ UpdateJobStatus(req[r].job, "failed")
  /\ Return(r)
  /\ UNCHANGED <<stores, workers, task, bounds, history>>

\* delete_crawl: flag, vectors, index rows, crawl row: four separate commits.
DeleteCrawl(r, t, j) ==
  /\ GetJob(t, j)
  /\ Begin(r, IF status[j] \in Active THEN "delete_request" ELSE "delete_vectors", t, j)

DeleteRequest(r) ==
  /\ req[r].pc = "delete_request"
  /\ RequestCancel(req[r].job)
  /\ Goto(r, "delete_vectors")
  /\ UNCHANGED <<stores, workers, task, bounds, history>>

\* A failing Qdrant call is swallowed: the rows go and the vectors stay.
DeleteVectorsByCrawlJob(r) ==
  /\ req[r].pc = "delete_vectors"
  /\ \/ vectors' = [vectors EXCEPT ![req[r].job] = 0] /\ UNCHANGED faults
     \/ UNCHANGED vectors /\ Fault
  /\ Goto(r, "delete_index_rows")
  /\ UNCHANGED <<table, pages, workers, task, calls, history>>

DeleteIndexRows(r) ==
  /\ req[r].pc = "delete_index_rows"
  /\ status' = [j \in JobIds |->
                  IF /\ Exists(j) /\ row[j].kind = "index"
                     /\ row[j].owner = req[r].owner /\ row[j].src = req[r].job
                    THEN "deleted" ELSE status[j]]
  /\ Goto(r, "delete_crawl_row")
  /\ UNCHANGED <<cancel, row, nextId, stores, workers, task, bounds, history>>

\* crawl_pages rows go with the crawl row (ON DELETE CASCADE).
DeleteCrawlRow(r) ==
  /\ req[r].pc = "delete_crawl_row"
  /\ LET j == req[r].job IN
       IF GetJob(req[r].owner, j) /\ row[j].kind = "crawl"
         THEN /\ status' = [status EXCEPT ![j] = "deleted"]
              /\ pages' = [pages EXCEPT ![j] = 0]
         ELSE UNCHANGED <<status, pages>>
  /\ Return(r)
  /\ UNCHANGED <<cancel, row, nextId, vectors, workers, task, bounds, history>>

\* The API instance goes away, or a statement raises and the handler answers 500.
Abort(r) ==
  /\ Fault
  /\ req[r].pc # "idle"
  /\ Return(r)
  /\ UNCHANGED <<table, stores, workers, task, calls, history>>

----------------------------------------------------------------------------
(* Worker processes.                                                        *)

NoTask == [pc |-> "idle", job |-> 0, n |-> 0, batch |-> 0, epoch |-> 0]

Busy(s)  == task[s].pc # "idle"
Holds(s, j) == Busy(s) /\ task[s].job = j

\* Variant: rows left 'running' stay as they are.
WorkerStartNoReset(w) ==
  /\ ~up[w] /\ starts < MaxStarts
  /\ up' = [up EXCEPT ![w] = TRUE]
  /\ starts' = starts + 1
  /\ lost' = {}
  /\ UNCHANGED <<table, stores, task, req, bounds, finished>>

\* Variant: failed jobs are tried again after a restart.
WorkerStartRetryFailed(w) ==
  /\ ~up[w] /\ starts < MaxStarts
  /\ up' = [up EXCEPT ![w] = TRUE]
  /\ starts' = starts + 1
  /\ status' = [j \in JobIds |->
                  IF status[j] \in {"running", "failed"} THEN "pending" ELSE status[j]]
  /\ lost' = {}
  /\ UNCHANGED <<cancel, row, nextId, stores, task, req, bounds, finished>>

\* _worker_loop: every row left 'running' is made 'pending', whoever runs it.
WorkerStart(w) ==
  /\ ~up[w] /\ starts < MaxStarts
  /\ up' = [up EXCEPT ![w] = TRUE]
  /\ starts' = starts + 1
  /\ status' = [j \in JobIds |-> IF status[j] = "running" THEN "pending" ELSE status[j]]
  /\ lost' = {}
  /\ UNCHANGED <<cancel, row, nextId, stores, task, req, bounds, finished>>

\* The bound leaves a start for every process that is down (restart: always).
WorkerCrash(w) ==
  /\ up[w]
  /\ starts + Cardinality({v \in Workers : ~up[v]}) < MaxStarts
  /\ up' = [up EXCEPT ![w] = FALSE]
  /\ task' = [s \in Slots |-> IF WorkerOf[s] = w THEN NoTask ELSE task[s]]
  /\ UNCHANGED <<table, stores, starts, req, bounds, history>>

Waiting(k) == {j \in JobIds : status[j] = "pending" /\ row[j].kind = k}

\* Another worker's claim or a handler's statement may hold the lock of row i.
MayBeLocked(s, i) ==
  \/ \E w \in Workers \ {WorkerOf[s]} : up[w]
  \/ \E r \in Requests : req[r].pc # "idle" /\ req[r].job \in {i, row[i].src}

\* ORDER BY created LIMIT 1 FOR UPDATE SKIP LOCKED: the oldest row not locked.
Claimable(s, j) ==
  /\ j \in Waiting(KindOf[s])
  /\ \A i \in Waiting(KindOf[s]) : i < j => MayBeLocked(s, i)

\* Variant: SELECT without the UPDATE in the same transaction.
ClaimRowNoUpdate(s, j) ==
  /\ up[WorkerOf[s]] /\ ~Busy(s) /\ Claimable(s, j)
  /\ UNCHANGED <<table, stores, workers, req, calls, finished>>

ClaimRow(s, j) ==
  /\ up[WorkerOf[s]] /\ ~Busy(s) /\ Claimable(s, j)
  /\ status' = [status EXCEPT ![j] = "running"]
  /\ UNCHANGED <<cancel, row, nextId, stores, workers, req, calls, finished>>

\* _pool: claim the oldest pending job of the pool's type and start its task.
ClaimPendingJob(s, j) ==
  /\ ClaimRow(s, j)
  /\ task' = [task EXCEPT ![s] =
                [pc |-> IF KindOf[s] = "crawl" THEN "store" ELSE "read",
                 job |-> j, n |-> 0, batch |-> 0, epoch |-> starts]]
  /\ UNCHANGED <<faults, lost>>

\* The claim commits but the pool never sees the answer (loop error, retried later).
ClaimLost(s, j) ==
  /\ Fault
  /\ ClaimRow(s, j)
  /\ lost' = lost \cup {j}
  /\ UNCHANGED task

At(s, pc)   == task[s].pc = pc
Step(s, pc) == task' = [task EXCEPT ![s].pc = pc]
EndTask(s)  == task' = [task EXCEPT ![s] = NoTask]
Job(s)      == task[s].job
Source(s)   == row[Job(s)].src

----------------------------------------------------------------------------
(* A crawl: store pages until max_pages or the queue is empty.              *)

AfterProgress(n) == IF n % CancelEvery = 0 THEN "check" ELSE "store"
AfterStore(n)    == IF n % ProgressEvery = 0 THEN "progress" ELSE AfterProgress(n)

\* Variant: crawl_pages.job_id without the foreign key.
InsertCrawlPageNoKey(s) ==
  /\ At(s, "store") /\ task[s].n < MaxPages
  /\ pages' = [pages EXCEPT ![Job(s)] = @ + 1]
  /\ task' = [task EXCEPT ![s].n = @ + 1, ![s].pc = AfterStore(task[s].n + 1)]
  /\ UNCHANGED <<table, vectors, workers, req, bounds, history>>

\* insert_crawl_page; the foreign key refuses it once the crawl row is gone.
InsertCrawlPage(s) ==
  /\ At(s, "store") /\ task[s].n < MaxPages /\ Exists(Job(s))
  /\ pages' = [pages EXCEPT ![Job(s)] = @ + 1]
  /\ task' = [task EXCEPT ![s].n = @ + 1, ![s].pc = AfterStore(task[s].n + 1)]
  /\ UNCHANGED <<table, vectors, workers, req, bounds, history>>

CrawlProgress(s) ==
  /\ At(s, "progress")
  /\ UpdateJobStatus(Job(s), "running")
  /\ Step(s, AfterProgress(task[s].n))
  /\ UNCHANGED <<stores, workers, req, bounds, history>>

\* A missing row reads as "not cancelled".
CrawlCancelCheck(s) ==
  /\ At(s, "check") /\ KindOf[s] = "crawl"
  /\ Step(s, IF Exists(Job(s)) /\ cancel[Job(s)] THEN "stopped" ELSE "store")
  /\ UNCHANGED <<table, stores, workers, req, bounds, history>>

\* Statements that raise inside the loop's try are counted and the crawl goes on,
\* past the progress write and the cancel check that would have followed.
CrawlStoreFailed(s) ==
  /\ Fault
  /\ task[s].pc \in {"progress", "check"} /\ KindOf[s] = "crawl"
  /\ Step(s, "store")
  /\ UNCHANGED <<table, stores, workers, req, calls, history>>

CrawlDone(s) ==
  /\ At(s, "store")
  /\ Step(s, "complete")
  /\ UNCHANGED <<table, stores, workers, req, bounds, history>>

\* After 'completed' the crawl inserts an index job for itself, unchecked.
QueueIndex(s) ==
  /\ At(s, "queue_index")
  /\ CreateJob(row[Job(s)].owner, "index", Job(s))
  /\ EndTask(s)
  /\ UNCHANGED <<stores, workers, req, bounds, history>>

\* The INSERT raised: logged, and the crawl is over.  At the bound on rows too.
QueueIndexFailed(s) ==
  /\ At(s, "queue_index")
  /\ Fault \/ (nextId > MaxJobs /\ UNCHANGED faults)
  /\ EndTask(s)
  /\ UNCHANGED <<table, stores, workers, req, calls, history>>

----------------------------------------------------------------------------
(* An index run: load a batch of pages, embed and upsert it, report.        *)

Least(a, b) == IF a <= b THEN a ELSE b

\* Variant: the empty result that ends the iteration is not looked at.
ReadBatchNoEnd(s) ==
  /\ At(s, "read")
  /\ task' = [task EXCEPT ![s].batch = Least(BatchSize, pages[Source(s)] - task[s].n),
                           ![s].pc = "flush"]
  /\ UNCHANGED <<table, stores, workers, req, bounds, history>>

\* iter_crawl_pages: LIMIT BatchSize OFFSET n over the rows there are now.  The
\* empty SELECT that follows a short batch is taken together with the batch.
ReadBatch(s) ==
  /\ At(s, "read")
  /\ LET left == pages[Source(s)] - task[s].n IN
       task' = IF left > 0
                 THEN [task EXCEPT ![s].batch = Least(BatchSize, left), ![s].pc = "flush"]
                 ELSE [task EXCEPT ![s].pc = "complete"]
  /\ UNCHANGED <<table, stores, workers, req, bounds, history>>

AfterFlush(s) ==
  task' = [task EXCEPT ![s].n = @ + task[s].batch, ![s].batch = 0,
                       ![s].pc = IF task[s].batch = BatchSize THEN "report" ELSE "complete"]

\* _flush: the batch loaded earlier is written whatever happened to the crawl.
Flush(s) ==
  /\ At(s, "flush")
  /\ vectors' = [vectors EXCEPT ![Source(s)] = @ + task[s].batch]
  /\ AfterFlush(s)
  /\ UNCHANGED <<table, pages, workers, req, bounds, history>>

\* Embedding or upserting raised: the batch counts as failed and the run goes on.
FlushFailed(s) ==
  /\ Fault
  /\ At(s, "flush")
  /\ AfterFlush(s)
  /\ UNCHANGED <<table, stores, workers, req, calls, history>>

IndexProgress(s) ==
  /\ At(s, "report")
  /\ UpdateJobStatus(Job(s), "running")
  /\ Step(s, IF task[s].n % IndexCancelEvery = 0 THEN "check" ELSE "read")
  /\ UNCHANGED <<stores, workers, req, bounds, history>>

IndexCancelCheck(s) ==
  /\ At(s, "check") /\ KindOf[s] = "index"
  /\ Step(s, IF Exists(Job(s)) /\ cancel[Job(s)] THEN "stopped" ELSE "read")
  /\ UNCHANGED <<table, stores, workers, req, bounds, history>>

----------------------------------------------------------------------------
(* How a run ends.                                                          *)

WriteCompleted(s) ==
  /\ At(s, "complete")
  /\ UpdateJobStatus(Job(s), "completed")
  /\ IF KindOf[s] = "crawl" THEN Step(s, "queue_index") ELSE EndTask(s)
  /\ finished' = finished \cup {Job(s)}
  /\ UNCHANGED <<stores, workers, req, bounds, lost>>

\* 'failed', for a stop seen by the run ("stopped") or an exception ("fail").
WriteFailed(s) ==
  /\ task[s].pc \in {"stopped", "fail"}
  /\ UpdateJobStatus(Job(s), "failed")
  /\ EndTask(s)
  /\ UNCHANGED <<stores, workers, req, bounds, history>>

\* The 'failed' write itself raised, each time it was tried; it is given up.
WriteFailedLost(s) ==
  /\ Fault
  /\ At(s, "fail")
  /\ EndTask(s)
  /\ lost' = lost \cup {Job(s)}
  /\ UNCHANGED <<table, stores, workers, req, calls, finished>>

\* Variant: a run that is cut short writes nothing.
FailSilently(s) ==
  /\ Fault
  /\ Busy(s)
  /\ EndTask(s)
  /\ UNCHANGED <<table, stores, workers, req, calls, history>>

\* An exception the run does not handle, or wait_for cancelling it after
\* _JOB_TIMEOUT wherever it stands: also between its 'completed' write and the
\* index job it was about to queue.
Fail(s) ==
  /\ Fault
  /\ Busy(s) /\ ~At(s, "fail")
  /\ Step(s, "fail")
  /\ UNCHANGED <<table, stores, workers, req, calls, history>>

----------------------------------------------------------------------------
Init ==
  /\ status = [j \in JobIds |-> "none"]
  /\ cancel = [j \in JobIds |-> FALSE]
  /\ row = [j \in JobIds |-> NoRow]
  /\ nextId = 1
  /\ pages = [j \in JobIds |-> 0]
  /\ vectors = [j \in JobIds |-> 0]
  /\ up = [w \in Workers |-> FALSE]
  /\ starts = 0
  /\ task = [s \in Slots |-> NoTask]
  /\ req = [r \in Requests |-> NoRequest]
  /\ lost = {}
  /\ calls = 0
  /\ faults = 0
  /\ finished = {}

Arrive(r) ==
  \E t \in Tenants :
    \/ StartCrawl(r, t)
    \/ \E j \in JobIds : \/ StopCrawl(r, t, j)  \/ StartIndex(r, t, j)
                         \/ StopIndex(r, t, j)  \/ DeleteCrawl(r, t, j)

Handle(r) ==
  \/ CheckActiveCrawl(r)  \/ CreateCrawl(r)  \/ StopCrawlRequest(r)
  \/ CheckActiveIndex(r)  \/ CreateIndex(r)
  \/ StopIndexRequest(r)  \/ StopIndexFail(r)
  \/ DeleteRequest(r)     \/ DeleteVectorsByCrawlJob(r)
  \/ DeleteIndexRows(r)   \/ DeleteCrawlRow(r)

\* The calls of a task return, one way or the other.
Work(s) ==
  \/ InsertCrawlPage(s)  \/ CrawlProgress(s)  \/ CrawlCancelCheck(s)
  \/ CrawlDone(s)        \/ QueueIndex(s)     \/ QueueIndexFailed(s)
  \/ ReadBatch(s)        \/ Flush(s)          \/ IndexProgress(s)
  \/ IndexCancelCheck(s) \/ WriteCompleted(s) \/ WriteFailed(s)

Trouble(s) ==
  CrawlStoreFailed(s) \/ FlushFailed(s) \/ WriteFailedLost(s) \/ Fail(s)

Claim(s) == \E j \in JobIds : ClaimPendingJob(s, j)

Next ==
  \/ \E r \in Requests : Arrive(r) \/ Handle(r) \/ Abort(r)
  \/ \E s \in Slots : Claim(s) \/ Work(s) \/ Trouble(s) \/ \E j \in JobIds : ClaimLost(s, j)
  \/ \E w \in Workers : WorkerStart(w) \/ WorkerCrash(w)

Spec == Init /\ [][Next]_vars

\* The event loop of a live worker keeps polling and keeps running its tasks, and
\* Cloud Run restarts a worker that is down.  Users and failures owe nothing.
FairSpec ==
  /\ Spec
  /\ \A s \in Slots : WF_vars(Claim(s)) /\ WF_vars(Work(s))
  /\ \A w \in Workers : WF_vars(WorkerStart(w))

----------------------------------------------------------------------------
(* Properties.                                                              *)

CrawlPcs == {"store", "progress", "check", "complete", "queue_index", "stopped", "fail"}
IndexPcs == {"read", "flush", "report", "check", "complete", "stopped", "fail"}
RequestPcs == {"idle", "crawl_check", "crawl_create", "stop_request",
               "index_check", "index_create", "stop_index_request", "stop_index_fail",
               "delete_request", "delete_vectors", "delete_index_rows", "delete_crawl_row"}

TaskType == [pc : {"idle"} \cup CrawlPcs \cup IndexPcs, job : 0..MaxJobs,
             n : Nat, batch : Nat, epoch : Nat]

\* The type of every variable.
TypeOK ==
  /\ status \in [JobIds -> Statuses]
  /\ cancel \in [JobIds -> BOOLEAN]
  /\ row \in [JobIds -> [kind : Kinds, owner : Tenants \cup {"none"}, src : 0..MaxJobs]]
  /\ nextId \in 1..(MaxJobs + 1)
  /\ pages \in [JobIds -> Nat]
  /\ vectors \in [JobIds -> Nat]
  /\ up \in [Workers -> BOOLEAN]
  /\ starts \in Nat
  /\ task \in [Slots -> TaskType]
  /\ req \in [Requests -> [pc : RequestPcs, owner : Tenants \cup {"none"}, job : 0..MaxJobs]]
  /\ calls \in Nat
  /\ faults \in Nat
  /\ lost \subseteq JobIds
  /\ finished \subseteq JobIds

\* claim_pending_job hands a job out once per worker start: two tasks run the
\* same job only if some worker process started, and made running rows pending
\* again, between their claims.
ClaimExclusive ==
  \A s, z \in Slots, j \in JobIds :
    Holds(s, j) /\ Holds(z, j) /\ task[s].epoch = task[z].epoch => s = z

\* A 'running' row has a task that still owes it a status write, unless the
\* worker that ran it is down (its restart makes the row pending) or the write
\* itself was lost.  A row outside these cases would answer 409 to the tenant's
\* next crawl for ever.
NoStrandedJob ==
  \A j \in JobIds : status[j] = "running" =>
    \/ \E s \in Slots : Holds(s, j) /\ ~At(s, "queue_index")
    \/ \E w \in Workers : ~up[w]
    \/ j \in lost

\* The statements that follow get_job name the job alone, without its tenant: they
\* stay inside the tenant because the job was read as the tenant's, and an index
\* job never reads the pages of another tenant's crawl.
TenantIsolation ==
  /\ \A r \in Requests : req[r].job # 0 => row[req[r].job].owner = req[r].owner
  /\ \A j \in JobIds : row[j].src # 0 => row[row[j].src].owner = row[j].owner

\* Only a crawl that reached its end feeds the answers: no vector names a crawl
\* all of whose runs were stopped, failed or are still storing pages.
VectorsFromFinishedCrawl ==
  \A j \in JobIds : vectors[j] > 0 => j \in finished

\* No task runs the job and no stop_index that saw it active is in flight.
Settled(j) ==
  /\ status[j] \in Terminal
  /\ \A s \in Slots : ~Holds(s, j)
  /\ \A r \in Requests :
       req[r].pc \in {"stop_index_request", "stop_index_fail"} => req[r].job # j

\* A settled job keeps its status and its pages until it is deleted: claims,
\* worker starts, requests and the runs of other jobs leave it alone.
SettledStays ==
  [][\A j \in JobIds : Settled(j) =>
       \/ status'[j] = "deleted"
       \/ status'[j] = status[j] /\ pages'[j] = pages[j] /\ Settled(j)']_vars

\* Once a knowledge base is deleted its pages are gone for good, however long its
\* crawl goes on, and an index run loads none of them: what can still reach
\* Qdrant is the batch each run had loaded before.
DeletedFeedsNothing ==
  [][\A j \in JobIds : status[j] = "deleted" =>
       /\ pages'[j] = 0
       /\ \A s \in Slots : Busy(s) /\ Source(s) = j => task'[s].batch <= task[s].batch]_vars

\* Every job that waits or runs comes to an end (or loses its last status write),
\* across crashes and restarts of the worker.
EveryJobSettles ==
  \A j \in JobIds : status[j] \in Active ~> (status[j] \notin Active \/ j \in lost)

\* The jobs table as JobQueue sees it.
QueueState ==
  [j \in JobIds |->
    CASE status[j] = "pending" -> "waiting"
      [] status[j] = "running" -> "taken"
      [] status[j] = "deleted" -> "removed"
      [] OTHER                 -> status[j]]

QueueRun == [s \in Slots |-> IF Busy(s) THEN Job(s) ELSE 0]

Queue == INSTANCE JobQueue WITH Runners <- Slots, state <- QueueState, run <- QueueRun

\* The jobs table keeps what JobQueue promises, whatever handlers and workers
\* do in between: a job is handed out only while it waits, its end is written
\* by the run it was given to or by a stop, only a worker start sends it back,
\* and a removed job is never written again.
KeepsQueuePromise == Queue!Spec

\* "Job stopped" (204): a job that was marked failed is not run on.
StopIndexSticks ==
  [][\A j \in JobIds : status[j] = "failed" /\ row[j].kind = "index"
                          => status'[j] \in {"failed", "deleted"}]_vars

\* "Performs a full KB removal": no vector of a deleted knowledge base is left.
DeleteLeavesNoVectors ==
  \A j \in JobIds : status[j] = "deleted" => vectors[j] = 0

=============================================================================
