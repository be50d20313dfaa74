------------------------ MODULE KnowledgeBaseProofs ------------------------
(***************************************************************************)
(* Proofs that the properties of KnowledgeBase hold for every number of     *)
(* tenants, workers, slots, handlers, jobs, starts, calls and faults, and   *)
(* that it implements JobQueue.                                             *)
(*                                                                          *)
(* Most actions leave the columns of a row alone and move one handler or    *)
(* one task: RowsKept, RequestMoved and TaskMoved say so.  The lemmas about *)
(* the helpers establish these three, and the inductive steps use them.     *)
(***************************************************************************)
EXTENDS KnowledgeBase, TLAPS

RowType     == [kind : Kinds, owner : Tenants \cup {"none"}, src : 0..MaxJobs]
RequestType == [pc : RequestPcs, owner : Tenants \cup {"none"}, job : 0..MaxJobs]
Pcs(k)      == IF k = "crawl" THEN CrawlPcs ELSE IndexPcs

\* Handlers that have no job yet.
Unborn == {"idle", "crawl_check", "crawl_create"}

\* Ids from nextId on belong to no row.
Fresh == \A j \in JobIds : j >= nextId => status[j] = "none"

\* An index row names a crawl inserted before it.
RowShape ==
  \A j \in JobIds :
    /\ row[j].src < nextId
    /\ j < nextId /\ row[j].kind = "index" => row[j].src # 0

\* A task runs on a live worker, at a program point of its own kind of job.
TaskShape ==
  \A s \in Slots : Busy(s) =>
    /\ task[s].job # 0 /\ task[s].job < nextId
    /\ row[task[s].job].kind = KindOf[s]
    /\ task[s].pc \in Pcs(KindOf[s])
    /\ task[s].epoch <= starts
    /\ up[WorkerOf[s]]

RequestShape ==
  \A r \in Requests :
    /\ req[r].job < nextId
    /\ req[r].pc \notin Unborn => req[r].job # 0

\* The inductive invariant every other proof starts from.
Shape == TypeOK /\ Fresh /\ RowShape /\ TaskShape /\ RequestShape

----------------------------------------------------------------------------
(* What steps do to the three parts.                                        *)

RowsKept ==
  /\ row' = row /\ nextId' = nextId
  /\ status' \in [JobIds -> Statuses]
  /\ cancel' \in [JobIds -> BOOLEAN]
  /\ \A j \in JobIds : /\ status[j] = "none" <=> status'[j] = "none"
                       /\ status'[j] = "pending" => status[j] = "pending"

RequestMoved(r) ==
  /\ req' \in [Requests -> RequestType]
  /\ \A z \in Requests : z # r => req'[z] = req[z]
  /\ \/ req'[r] = NoRequest
     \/ /\ req[r].pc # "idle" /\ req'[r].pc # "idle"
        /\ req'[r].job = req[r].job /\ req'[r].owner = req[r].owner
        /\ req[r].pc \in Unborn => req'[r].pc \in Unborn

TaskMoved(s) ==
  /\ task' \in [Slots -> TaskType]
  /\ \A z \in Slots : z # s => task'[z] = task[z]
  /\ \/ task'[s] = NoTask
     \/ /\ Busy(s)
        /\ task'[s].job = task[s].job /\ task'[s].epoch = task[s].epoch
        /\ task'[s].pc \in Pcs(KindOf[s])

\* The program points of a kind are never the idle one.
LEMMA PcsAreNotIdle == \A k \in Kinds : "idle" \notin Pcs(k) /\ Pcs(k) \subseteq CrawlPcs \cup IndexPcs
BY DEF Kinds, Pcs, CrawlPcs, IndexPcs

\* The idle values have the types of their variables.
LEMMA NoTaskTyped == NoTask \in TaskType
BY BoundsAssumption DEF NoTask, TaskType

\* The idle values have the types of their variables.
LEMMA NoRequestTyped == NoRequest \in RequestType
BY BoundsAssumption DEF NoRequest, RequestType, RequestPcs

\* update_job_status inserts no row and makes none pending.
LEMMA UpdateKeepsRows ==
  ASSUME Shape, NEW j \in JobIds, NEW s \in {"running", "completed", "failed"}, UpdateJobStatus(j, s)
  PROVE  RowsKept
BY DEF Shape, TypeOK, UpdateJobStatus, RowsKept, Exists, Gone, Terminal, Active, Statuses

\* request_cancel touches the flag alone.
LEMMA CancelKeepsRows ==
  ASSUME Shape, NEW j \in JobIds, RequestCancel(j)
  PROVE  RowsKept
BY DEF Shape, TypeOK, RequestCancel, RowsKept

\* A step that leaves the table alone keeps its rows.
LEMMA SameTableKeepsRows == Shape /\ UNCHANGED table => RowsKept
BY DEF Shape, TypeOK, table, RowsKept

\* A handler that goes on to its next statement keeps its tenant and job.
LEMMA GotoMoves ==
  ASSUME Shape, NEW r \in Requests, NEW pc \in RequestPcs, Goto(r, pc),
         req[r].pc # "idle", pc # "idle", req[r].pc \in Unborn => pc \in Unborn
  PROVE  RequestMoved(r)
<1>1. req \in [Requests -> RequestType] BY DEF Shape, TypeOK, RequestType
<1>2. [req[r] EXCEPT !.pc = pc] \in RequestType BY <1>1 DEF RequestType
<1> QED BY <1>1, <1>2 DEF Goto, RequestMoved, RequestType

\* A handler that returns is idle.
LEMMA ReturnMoves ==
  ASSUME Shape, NEW r \in Requests, Return(r)
  PROVE  RequestMoved(r)
<1>1. req \in [Requests -> RequestType] BY DEF Shape, TypeOK, RequestType
<1> QED BY <1>1, NoRequestTyped DEF Return, RequestMoved

\* A task that goes on to a point of its own kind keeps its job and epoch.
LEMMA StepMoves ==
  ASSUME Shape, NEW s \in Slots, Busy(s), NEW pc \in Pcs(KindOf[s]), Step(s, pc)
  PROVE  TaskMoved(s)
<1>1. task[s] \in TaskType BY DEF Shape, TypeOK
<1>2. pc \in CrawlPcs \cup IndexPcs BY SlotsAssumption, PcsAreNotIdle
<1>3. [task[s] EXCEPT !.pc = pc] \in TaskType BY <1>1, <1>2 DEF TaskType
<1> QED BY <1>1, <1>3 DEF Shape, TypeOK, Step, TaskMoved, TaskType

\* A task that ends leaves its slot idle.
LEMMA EndTaskMoves ==
  ASSUME Shape, NEW s \in Slots, EndTask(s)
  PROVE  TaskMoved(s)
BY NoTaskTyped DEF Shape, TypeOK, EndTask, TaskMoved

\* A step that keeps the rows and moves at most one handler and one task.
Routine ==
  /\ RowsKept
  /\ UNCHANGED workers
  /\ req' = req \/ \E r \in Requests : RequestMoved(r)
  /\ task' = task \/ \E s \in Slots : TaskMoved(s)
  /\ pages' \in [JobIds -> Nat] /\ vectors' \in [JobIds -> Nat]
  /\ calls' \in Nat /\ faults' \in Nat
  /\ lost' \subseteq JobIds /\ finished' \subseteq JobIds

\* A routine step keeps the shape.
LEMMA RoutineShape == Shape /\ Routine => Shape'
<1> SUFFICES ASSUME Shape, Routine PROVE Shape' OBVIOUS
<1> USE DEF Shape, Routine
<1>1. TypeOK' BY DEF TypeOK, RowsKept, RequestMoved, TaskMoved, RequestType, workers
<1>2. Fresh' BY DEF Fresh, RowsKept
<1>3. RowShape' BY DEF RowShape, RowsKept
<1>4. TaskShape'
  <2>1. CASE task' = task BY <2>1 DEF TaskShape, RowsKept, Busy, workers
  <2>2. ASSUME NEW s \in Slots, TaskMoved(s) PROVE TaskShape'
    BY <2>2, SlotsAssumption DEF TaskShape, TaskMoved, RowsKept, Busy, workers, NoTask
  <2> QED BY <2>1, <2>2
<1>5. RequestShape'
  <2>1. CASE req' = req BY <2>1 DEF RequestShape, RowsKept
  <2>2. ASSUME NEW r \in Requests, RequestMoved(r) PROVE RequestShape'
    BY <2>2 DEF RequestShape, RequestMoved, RowsKept, NoRequest, TypeOK, Unborn
  <2> QED BY <2>1, <2>2
<1> QED BY <1>1, <1>2, <1>3, <1>4, <1>5

----------------------------------------------------------------------------
(* Init, and every action.                                                  *)

\* Empty tables have the shape.
LEMMA InitShape == Init => Shape
BY BoundsAssumption, NoTaskTyped, NoRequestTyped
DEF Init, NoRow, Shape, TypeOK, Fresh, RowShape, TaskShape, RequestShape, RowType, RequestType,
    Busy, NoTask, NoRequest, JobIds, Kinds, Statuses, Gone, Unborn

\* A handler starts on behalf of a tenant, with a job that is in the table.
LEMMA BeginShape ==
  ASSUME Shape, NEW r \in Requests, NEW pc \in RequestPcs \ {"idle"}, NEW t \in Tenants,
         NEW j \in 0..MaxJobs, j < nextId, pc \notin Unborn => j # 0, Begin(r, pc, t, j)
  PROVE  Shape'
<1> USE DEF Shape, Begin, table, stores, workers, history
<1>1. req' \in [Requests -> RequestType]
  BY DEF TypeOK, RequestType
<1>2. TypeOK' BY <1>1 DEF TypeOK, RequestType
<1>3. Fresh' /\ RowShape' /\ TaskShape' BY DEF Fresh, RowShape, TaskShape, Busy
<1>4. RequestShape' BY DEF TypeOK, RequestShape
<1> QED BY <1>2, <1>3, <1>4

\* A new row: its source, if it has one, is an older row.
LEMMA CreateShape ==
  ASSUME Shape, NEW t \in Tenants \cup {"none"}, NEW k \in Kinds, NEW source \in 0..MaxJobs,
         source < nextId, k = "index" => source # 0, CreateJob(t, k, source),
         UNCHANGED <<stores, workers, bounds, history>>,
         req' = req \/ \E r \in Requests : RequestMoved(r),
         task' = task \/ \E s \in Slots : TaskMoved(s)
  PROVE  Shape'
<1> USE DEF Shape
<1>1. nextId \in JobIds BY BoundsAssumption DEF TypeOK, CreateJob, JobIds
<1>2. TypeOK'
  <2>1. /\ status' \in [JobIds -> Statuses]
        /\ cancel' \in [JobIds -> BOOLEAN]
        /\ row' \in [JobIds -> RowType]
        /\ nextId' \in 1..(MaxJobs + 1)
    BY <1>1, BoundsAssumption DEF TypeOK, CreateJob, RowType, JobIds, Statuses, Active
  <2>2. req' \in [Requests -> RequestType] BY DEF TypeOK, RequestType, RequestMoved
  <2>3. task' \in [Slots -> TaskType] BY DEF TypeOK, TaskMoved
  <2> QED BY <2>1, <2>2, <2>3 DEF TypeOK, RowType, RequestType, stores, workers, bounds, history
<1>3. Fresh' BY <1>1 DEF Fresh, CreateJob, TypeOK, JobIds
<1>4. RowShape' BY <1>1 DEF RowShape, CreateJob, TypeOK, JobIds
<1>5. TaskShape'
  <2>1. \A j \in JobIds : j < nextId => row'[j] = row[j] BY <1>1 DEF CreateJob, TypeOK
  <2>2. nextId' = nextId + 1 /\ nextId \in Nat BY <1>1 DEF CreateJob, JobIds
  <2>3. \A s \in Slots : Busy(s) => task[s].job \in JobIds
    BY DEF TypeOK, TaskShape, TaskType, JobIds
  <2>4. CASE task' = task
    BY <2>1, <2>2, <2>3, <2>4 DEF TaskShape, Busy, workers, TypeOK, TaskType
  <2>5. ASSUME NEW s \in Slots, TaskMoved(s) PROVE TaskShape'
    BY <2>1, <2>2, <2>3, <2>5 DEF TaskShape, TaskMoved, Busy, workers, NoTask, TypeOK, TaskType
  <2> QED BY <2>4, <2>5
<1>6. RequestShape'
  <2>1. nextId' = nextId + 1 /\ nextId \in Nat BY <1>1 DEF CreateJob, JobIds
  <2>2. CASE req' = req BY <2>1, <2>2 DEF RequestShape, TypeOK
  <2>3. ASSUME NEW r \in Requests, RequestMoved(r) PROVE RequestShape'
    BY <2>1, <2>3 DEF RequestShape, RequestMoved, NoRequest, TypeOK, Unborn
  <2> QED BY <2>2, <2>3
<1> QED BY <1>2, <1>3, <1>4, <1>5, <1>6

\* The facts about a busy slot and about a handler that the steps below use.
LEMMA BusyFacts ==
  ASSUME Shape, NEW s \in Slots, Busy(s)
  PROVE  /\ Job(s) \in JobIds /\ Job(s) < nextId
         /\ task[s] \in TaskType /\ row[Job(s)] \in RowType
         /\ KindOf[s] = "index" => Source(s) \in JobIds
BY BoundsAssumption, SlotsAssumption
DEF Shape, TypeOK, TaskShape, RowShape, Job, Source, JobIds, TaskType, RowType

\* A handler past its first check names a row of the table.
LEMMA RequestFacts ==
  ASSUME Shape, NEW r \in Requests, req[r].pc \notin Unborn
  PROVE  req[r].job \in JobIds /\ req[r].job < nextId
BY BoundsAssumption DEF Shape, TypeOK, RequestShape, JobIds

\* The fault counter stays a number.
LEMMA FaultTyped == Shape /\ Fault => faults' \in Nat
BY DEF Shape, TypeOK, Fault

\* Every statement of a handler but an INSERT is routine.
LEMMA HandleRoutine ==
  ASSUME Shape, NEW r \in Requests, Handle(r)
  PROVE  Routine \/ CreateCrawl(r) \/ CreateIndex(r)
<1> USE DEF stores, workers, bounds, history
<1>0. req[r].pc # "idle"
  BY DEF Handle, CheckActiveCrawl, CreateCrawl, StopCrawlRequest, CheckActiveIndex, CreateIndex,
     StopIndexRequest, StopIndexFail, DeleteRequest, DeleteVectorsByCrawlJob, DeleteIndexRows, DeleteCrawlRow
<1>1. ASSUME CheckActiveCrawl(r) PROVE Routine
  <2>1. Goto(r, "crawl_create") \/ Return(r) BY <1>1 DEF CheckActiveCrawl
  <2>2. RequestMoved(r) BY <2>1, <1>0, GotoMoves, ReturnMoves DEF RequestPcs, Unborn
  <2> QED BY <1>1, <2>2, SameTableKeepsRows DEF CheckActiveCrawl, Routine, Shape, TypeOK
<1>2. ASSUME CheckActiveIndex(r) PROVE Routine
  <2>1. req[r].pc \notin Unborn BY <1>2 DEF CheckActiveIndex, Unborn
  <2>2. Goto(r, "index_create") \/ Return(r) BY <1>2 DEF CheckActiveIndex
  <2>3. RequestMoved(r) BY <2>1, <2>2, <1>0, GotoMoves, ReturnMoves DEF RequestPcs
  <2> QED BY <1>2, <2>3, SameTableKeepsRows DEF CheckActiveIndex, Routine, Shape, TypeOK
<1>3. ASSUME StopCrawlRequest(r) PROVE Routine
  <2>1. req[r].job \in JobIds BY <1>3, RequestFacts DEF StopCrawlRequest, Unborn
  <2>2. RowsKept BY <1>3, <2>1, CancelKeepsRows DEF StopCrawlRequest
  <2>3. RequestMoved(r) BY <1>3, ReturnMoves DEF StopCrawlRequest
  <2> QED BY <1>3, <2>2, <2>3 DEF StopCrawlRequest, Routine, Shape, TypeOK
<1>4. ASSUME StopIndexRequest(r) PROVE Routine
  <2>1. req[r].job \in JobIds /\ req[r].pc \notin Unborn
    BY <1>4, RequestFacts DEF StopIndexRequest, Unborn
  <2>2. RowsKept BY <1>4, <2>1, CancelKeepsRows DEF StopIndexRequest
  <2>3. RequestMoved(r) BY <1>4, <1>0, <2>1, GotoMoves DEF StopIndexRequest, RequestPcs
  <2> QED BY <1>4, <2>2, <2>3 DEF StopIndexRequest, Routine, Shape, TypeOK
<1>5. ASSUME StopIndexFail(r) PROVE Routine
  <2>1. req[r].job \in JobIds BY <1>5, RequestFacts DEF StopIndexFail, Unborn
  <2>2. RowsKept BY <1>5, <2>1, UpdateKeepsRows DEF StopIndexFail
  <2>3. RequestMoved(r) BY <1>5, ReturnMoves DEF StopIndexFail
  <2> QED BY <1>5, <2>2, <2>3 DEF StopIndexFail, Routine, Shape, TypeOK
<1>6. ASSUME DeleteRequest(r) PROVE Routine
  <2>1. req[r].job \in JobIds /\ req[r].pc \notin Unborn
    BY <1>6, RequestFacts DEF DeleteRequest, Unborn
  <2>2. RowsKept BY <1>6, <2>1, CancelKeepsRows DEF DeleteRequest
  <2>3. RequestMoved(r) BY <1>6, <1>0, <2>1, GotoMoves DEF DeleteRequest, RequestPcs
  <2> QED BY <1>6, <2>2, <2>3 DEF DeleteRequest, Routine, Shape, TypeOK
<1>7. ASSUME DeleteVectorsByCrawlJob(r) PROVE Routine
  <2>1. req[r].pc \notin Unborn BY <1>7 DEF DeleteVectorsByCrawlJob, Unborn
  <2>2. RequestMoved(r) BY <1>7, <1>0, <2>1, GotoMoves DEF DeleteVectorsByCrawlJob, RequestPcs
  <2>3. vectors' \in [JobIds -> Nat] BY <1>7 DEF DeleteVectorsByCrawlJob, Shape, TypeOK
  <2>4. faults' \in Nat BY <1>7, FaultTyped DEF DeleteVectorsByCrawlJob, Shape, TypeOK
  <2> QED BY <1>7, <2>2, <2>3, <2>4, SameTableKeepsRows DEF DeleteVectorsByCrawlJob, Routine, Shape, TypeOK
<1>8. ASSUME DeleteIndexRows(r) PROVE Routine
  <2>1. req[r].pc \notin Unborn BY <1>8 DEF DeleteIndexRows, Unborn
  <2>2. RequestMoved(r) BY <1>8, <1>0, <2>1, GotoMoves DEF DeleteIndexRows, RequestPcs
  <2>3. RowsKept BY <1>8 DEF DeleteIndexRows, RowsKept, Shape, TypeOK, Statuses, Gone, Exists
  <2> QED BY <1>8, <2>2, <2>3 DEF DeleteIndexRows, Routine, Shape, TypeOK
<1>9. ASSUME DeleteCrawlRow(r) PROVE Routine
  <2>1. req[r].job \in JobIds BY <1>9, RequestFacts DEF DeleteCrawlRow, Unborn
  <2>2. RequestMoved(r) BY <1>9, ReturnMoves DEF DeleteCrawlRow
  <2>3. RowsKept BY <1>9, <2>1 DEF DeleteCrawlRow, RowsKept, Shape, TypeOK, Statuses, Gone, Exists, GetJob
  <2>4. pages' \in [JobIds -> Nat] BY <1>9, <2>1 DEF DeleteCrawlRow, Shape, TypeOK
  <2> QED BY <1>9, <2>2, <2>3, <2>4 DEF DeleteCrawlRow, Routine, Shape, TypeOK
<1> QED BY <1>1, <1>2, <1>3, <1>4, <1>5, <1>6, <1>7, <1>8, <1>9 DEF Handle

\* An aborted handler is routine.
LEMMA AbortRoutine ==
  ASSUME Shape, NEW r \in Requests, Abort(r)
  PROVE  Routine
BY ReturnMoves, FaultTyped, SameTableKeepsRows
DEF Abort, Routine, Shape, TypeOK, stores, workers, history

\* Moves of a task other than a change of its program point alone.
LEMMA StoreMoves ==
  ASSUME Shape, NEW s \in Slots, At(s, "store"), KindOf[s] = "crawl",
         task' = [task EXCEPT ![s].n = @ + 1, ![s].pc = AfterStore(task[s].n + 1)]
  PROVE  TaskMoved(s)
<1> DEFINE m  == task[s].n + 1
           pc == AfterStore(task[s].n + 1)
<1>1. task[s] \in TaskType /\ Busy(s) BY DEF Shape, TypeOK, Busy, At
<1>2. m \in Nat BY <1>1 DEF TaskType
<1>3. pc \in CrawlPcs BY DEF AfterStore, AfterProgress, CrawlPcs
<1>4. task' = [task EXCEPT ![s].n = m, ![s].pc = pc] OBVIOUS
<1> HIDE DEF m, pc
<1>5. [task[s] EXCEPT !.n = m, !.pc = pc] \in TaskType BY <1>1, <1>2, <1>3 DEF TaskType
<1>6. task'[s] = [task[s] EXCEPT !.n = m, !.pc = pc] BY <1>4 DEF Shape, TypeOK
<1>7. task'[s].job = task[s].job /\ task'[s].epoch = task[s].epoch /\ task'[s].pc = pc
  BY <1>1, <1>6 DEF TaskType
<1>8. task' \in [Slots -> TaskType] /\ \A z \in Slots : z # s => task'[z] = task[z]
  BY <1>4, <1>5 DEF Shape, TypeOK
<1> QED BY <1>1, <1>3, <1>7, <1>8 DEF TaskMoved, Pcs

\* The same for the batch an index run reads.
LEMMA ReadMoves ==
  ASSUME Shape, NEW s \in Slots, ReadBatch(s)
  PROVE  TaskMoved(s)
<1>1. /\ task[s] \in TaskType /\ Busy(s) /\ KindOf[s] = "index"
      /\ Source(s) \in JobIds
  <2>1. Busy(s) BY DEF ReadBatch, Busy, At
  <2>2. KindOf[s] = "index"
    BY <2>1, SlotsAssumption DEF Shape, TaskShape, ReadBatch, At, Pcs, CrawlPcs, Kinds
  <2> QED BY <2>1, <2>2, BusyFacts
<1> DEFINE left == pages[Source(s)] - task[s].n
           b    == Least(BatchSize, left)
<1>2. CASE left > 0
  <2>1. b \in Nat BY <1>1, <1>2, BoundsAssumption DEF Least, Shape, TypeOK, TaskType
  <2>2. task' = [task EXCEPT ![s].batch = b, ![s].pc = "flush"] BY <1>2 DEF ReadBatch
  <2> HIDE DEF b
  <2>3. [task[s] EXCEPT !.batch = b, !.pc = "flush"] \in TaskType
    BY <1>1, <2>1 DEF TaskType, IndexPcs
  <2>4. task'[s] = [task[s] EXCEPT !.batch = b, !.pc = "flush"]
    BY <2>2 DEF Shape, TypeOK
  <2>5. /\ task'[s].job = task[s].job /\ task'[s].epoch = task[s].epoch
        /\ task'[s].pc = "flush"
    BY <1>1, <2>4 DEF TaskType
  <2>6. task' \in [Slots -> TaskType] /\ \A z \in Slots : z # s => task'[z] = task[z]
    BY <2>2, <2>3 DEF Shape, TypeOK
  <2> QED BY <1>1, <2>5, <2>6 DEF TaskMoved, Pcs, IndexPcs
<1>3. CASE ~(left > 0)
  <2>1. Step(s, "complete") BY <1>3 DEF ReadBatch, Step
  <2> QED BY <1>1, <2>1, StepMoves DEF Pcs, IndexPcs
<1> QED BY <1>2, <1>3

\* The same for the batch an index run has flushed.
LEMMA FlushMoves ==
  ASSUME Shape, NEW s \in Slots, At(s, "flush"), AfterFlush(s)
  PROVE  TaskMoved(s)
<1> DEFINE m  == task[s].n + task[s].batch
           pc == IF task[s].batch = BatchSize THEN "report" ELSE "complete"
<1>1. task[s] \in TaskType /\ Busy(s) BY DEF Shape, TypeOK, Busy, At
<1>2. KindOf[s] = "index"
  BY <1>1, SlotsAssumption DEF Shape, TaskShape, At, Pcs, CrawlPcs, Kinds
<1>3. m \in Nat BY <1>1 DEF TaskType
<1>4. pc \in IndexPcs BY DEF IndexPcs
<1>5. task' = [task EXCEPT ![s].n = m, ![s].batch = 0, ![s].pc = pc] BY DEF AfterFlush
<1> HIDE DEF m, pc
<1>6. [task[s] EXCEPT !.n = m, !.batch = 0, !.pc = pc] \in TaskType
  BY <1>1, <1>3, <1>4 DEF TaskType
<1>7. task'[s] = [task[s] EXCEPT !.n = m, !.batch = 0, !.pc = pc]
  BY <1>5 DEF Shape, TypeOK
<1>8. task'[s].job = task[s].job /\ task'[s].epoch = task[s].epoch /\ task'[s].pc = pc
  BY <1>1, <1>7 DEF TaskType
<1>9. task' \in [Slots -> TaskType] /\ \A z \in Slots : z # s => task'[z] = task[z]
  BY <1>5, <1>6 DEF Shape, TypeOK
<1> QED BY <1>1, <1>2, <1>4, <1>8, <1>9 DEF TaskMoved, Pcs

\* Points only a crawl has are held by crawl slots.
LEMMA CrawlPoint ==
  ASSUME Shape, NEW s \in Slots, task[s].pc \in {"store", "progress", "queue_index"}
  PROVE  KindOf[s] = "crawl"
BY SlotsAssumption DEF Shape, TaskShape, Busy, Pcs, IndexPcs, Kinds

\* Points only an index run has are held by index slots.
LEMMA IndexPoint ==
  ASSUME Shape, NEW s \in Slots, task[s].pc \in {"read", "flush", "report"}
  PROVE  KindOf[s] = "index"
BY SlotsAssumption DEF Shape, TaskShape, Busy, Pcs, CrawlPcs, Kinds

\* Every step of a run moves that run; all but its INSERT are routine.
LEMMA WorkRoutine ==
  ASSUME Shape, NEW s \in Slots, Work(s)
  PROVE  TaskMoved(s) /\ (Routine \/ QueueIndex(s))
<1> USE DEF stores, workers, bounds, history
<1>0. Busy(s) /\ Job(s) \in JobIds /\ task[s] \in TaskType
  <2>1. Busy(s)
    BY DEF Work, Busy, At, InsertCrawlPage, CrawlProgress, CrawlCancelCheck, CrawlDone, QueueIndex,
       QueueIndexFailed, ReadBatch, Flush, IndexProgress, IndexCancelCheck, WriteCompleted, WriteFailed
  <2> QED BY <2>1, BusyFacts
<1>1. ASSUME InsertCrawlPage(s) PROVE TaskMoved(s) /\ Routine
  <2>1. KindOf[s] = "crawl" BY <1>1, CrawlPoint DEF InsertCrawlPage, At
  <2>2. TaskMoved(s) BY <1>1, <2>1, StoreMoves DEF InsertCrawlPage
  <2>3. pages' \in [JobIds -> Nat] BY <1>0, <1>1 DEF InsertCrawlPage, Shape, TypeOK
  <2> QED BY <1>1, <2>2, <2>3, SameTableKeepsRows DEF InsertCrawlPage, Routine, Shape, TypeOK
<1>2. ASSUME CrawlProgress(s) PROVE TaskMoved(s) /\ Routine
  <2>1. KindOf[s] = "crawl" BY <1>2, CrawlPoint DEF CrawlProgress, At
  <2>2. AfterProgress(task[s].n) \in Pcs(KindOf[s]) BY <2>1 DEF AfterProgress, Pcs, CrawlPcs
  <2>3. TaskMoved(s) BY <1>0, <1>2, <2>2, StepMoves DEF CrawlProgress
  <2>4. RowsKept BY <1>0, <1>2, UpdateKeepsRows DEF CrawlProgress
  <2> QED BY <1>2, <2>3, <2>4 DEF CrawlProgress, Routine, Shape, TypeOK
<1>3. ASSUME CrawlCancelCheck(s) PROVE TaskMoved(s) /\ Routine
  <2>1. Step(s, "stopped") \/ Step(s, "store") BY <1>3 DEF CrawlCancelCheck
  <2>2. TaskMoved(s) BY <1>0, <1>3, <2>1, StepMoves DEF CrawlCancelCheck, Pcs, CrawlPcs
  <2> QED BY <1>3, <2>2, SameTableKeepsRows DEF CrawlCancelCheck, Routine, Shape, TypeOK
<1>4. ASSUME CrawlDone(s) PROVE TaskMoved(s) /\ Routine
  <2>1. KindOf[s] = "crawl" BY <1>4, CrawlPoint DEF CrawlDone, At
  <2>2. TaskMoved(s) BY <1>0, <1>4, <2>1, StepMoves DEF CrawlDone, Pcs, CrawlPcs
  <2> QED BY <1>4, <2>2, SameTableKeepsRows DEF CrawlDone, Routine, Shape, TypeOK
<1>5. ASSUME QueueIndexFailed(s) PROVE TaskMoved(s) /\ Routine
  <2>1. TaskMoved(s) BY <1>5, EndTaskMoves DEF QueueIndexFailed
  <2>2. faults' \in Nat BY <1>5, FaultTyped DEF QueueIndexFailed, Shape, TypeOK
  <2> QED BY <1>5, <2>1, <2>2, SameTableKeepsRows DEF QueueIndexFailed, Routine, Shape, TypeOK
<1>6. ASSUME ReadBatch(s) PROVE TaskMoved(s) /\ Routine
  BY <1>6, ReadMoves, SameTableKeepsRows DEF ReadBatch, Routine, Shape, TypeOK
<1>7. ASSUME Flush(s) PROVE TaskMoved(s) /\ Routine
  <2>1. Source(s) \in JobIds BY <1>0, <1>7, IndexPoint, BusyFacts DEF Flush, At
  <2>2. vectors' \in [JobIds -> Nat] BY <1>0, <1>7, <2>1 DEF Flush, Shape, TypeOK, TaskType
  <2> QED BY <1>7, <2>2, FlushMoves, SameTableKeepsRows DEF Flush, Routine, Shape, TypeOK
<1>8. ASSUME IndexProgress(s) PROVE TaskMoved(s) /\ Routine
  <2>1. KindOf[s] = "index" BY <1>8, IndexPoint DEF IndexProgress, At
  <2>2. Step(s, "check") \/ Step(s, "read") BY <1>8 DEF IndexProgress
  <2>3. TaskMoved(s) BY <1>0, <2>1, <2>2, StepMoves DEF Pcs, IndexPcs
  <2>4. RowsKept BY <1>0, <1>8, UpdateKeepsRows DEF IndexProgress
  <2> QED BY <1>8, <2>3, <2>4 DEF IndexProgress, Routine, Shape, TypeOK
<1>9. ASSUME IndexCancelCheck(s) PROVE TaskMoved(s) /\ Routine
  <2>1. Step(s, "stopped") \/ Step(s, "read") BY <1>9 DEF IndexCancelCheck
  <2>2. TaskMoved(s) BY <1>0, <1>9, <2>1, StepMoves DEF IndexCancelCheck, Pcs, IndexPcs
  <2> QED BY <1>9, <2>2, SameTableKeepsRows DEF IndexCancelCheck, Routine, Shape, TypeOK
<1>10. ASSUME WriteCompleted(s) PROVE TaskMoved(s) /\ Routine
  <2>1. TaskMoved(s)
    BY <1>0, <1>10, StepMoves, EndTaskMoves DEF WriteCompleted, Pcs, CrawlPcs
  <2>2. RowsKept BY <1>0, <1>10, UpdateKeepsRows DEF WriteCompleted
  <2> QED BY <1>0, <1>10, <2>1, <2>2 DEF WriteCompleted, Routine, Shape, TypeOK
<1>11. ASSUME WriteFailed(s) PROVE TaskMoved(s) /\ Routine
  <2>1. TaskMoved(s) BY <1>11, EndTaskMoves DEF WriteFailed
  <2>2. RowsKept BY <1>0, <1>11, UpdateKeepsRows DEF WriteFailed
  <2> QED BY <1>11, <2>1, <2>2 DEF WriteFailed, Routine, Shape, TypeOK
<1>12. QueueIndex(s) => TaskMoved(s) BY EndTaskMoves DEF QueueIndex
<1> QED
  BY <1>1, <1>2, <1>3, <1>4, <1>5, <1>6, <1>7, <1>8, <1>9, <1>10, <1>11, <1>12 DEF Work

\* Every failure of a run moves that run and is routine.
LEMMA TroubleRoutine ==
  ASSUME Shape, NEW s \in Slots, Trouble(s)
  PROVE  TaskMoved(s) /\ Routine
<1> USE DEF stores, workers, bounds, history
<1>0. Busy(s) /\ Job(s) \in JobIds /\ KindOf[s] \in Kinds /\ faults' \in Nat
  <2>1. Busy(s) BY DEF Trouble, CrawlStoreFailed, FlushFailed, WriteFailedLost, Fail, Busy, At
  <2>2. Fault BY DEF Trouble, CrawlStoreFailed, FlushFailed, WriteFailedLost, Fail
  <2> QED BY <2>1, <2>2, FaultTyped, BusyFacts, SlotsAssumption
<1>1. RowsKept
  BY SameTableKeepsRows DEF Trouble, CrawlStoreFailed, FlushFailed, WriteFailedLost, Fail
<1>2. TaskMoved(s)
  <2>1. ASSUME CrawlStoreFailed(s) PROVE TaskMoved(s)
    BY <1>0, <2>1, StepMoves DEF CrawlStoreFailed, Pcs, CrawlPcs
  <2>2. ASSUME FlushFailed(s) PROVE TaskMoved(s) BY <2>2, FlushMoves DEF FlushFailed
  <2>3. ASSUME WriteFailedLost(s) PROVE TaskMoved(s) BY <2>3, EndTaskMoves DEF WriteFailedLost
  <2>4. ASSUME Fail(s) PROVE TaskMoved(s)
    BY <1>0, <2>4, StepMoves DEF Fail, Pcs, CrawlPcs, IndexPcs
  <2> QED BY <2>1, <2>2, <2>3, <2>4 DEF Trouble
<1>3. /\ UNCHANGED <<stores, workers, req, calls, finished>>
      /\ lost' \subseteq lost \cup {Job(s)}
  BY DEF Trouble, CrawlStoreFailed, FlushFailed, WriteFailedLost, Fail
<1> QED BY <1>0, <1>1, <1>2, <1>3 DEF Routine, Shape, TypeOK

\* A handler that begins has a job of the table, or none yet.
LEMMA ArriveShape ==
  ASSUME Shape, NEW r \in Requests, Arrive(r)
  PROVE  Shape'
<1>1. PICK t \in Tenants :
        \/ StartCrawl(r, t)
        \/ \E j \in JobIds : \/ StopCrawl(r, t, j) \/ StartIndex(r, t, j)
                             \/ StopIndex(r, t, j) \/ DeleteCrawl(r, t, j)
  BY DEF Arrive
<1>2. CASE StartCrawl(r, t)
  <2>1. Begin(r, "crawl_check", t, 0) /\ 0 < nextId /\ 0 \in 0..MaxJobs
    BY <1>2, BoundsAssumption DEF StartCrawl, Shape, TypeOK
  <2> QED BY <2>1, BeginShape DEF RequestPcs, Unborn
<1>3. ASSUME NEW j \in JobIds,
             \/ StopCrawl(r, t, j) \/ StartIndex(r, t, j)
             \/ StopIndex(r, t, j) \/ DeleteCrawl(r, t, j)
      PROVE  Shape'
  <2>1. GetJob(t, j) BY <1>3 DEF StopCrawl, StartIndex, StopIndex, DeleteCrawl
  <2>2. j < nextId /\ j \in 0..MaxJobs /\ j # 0
    BY <2>1, BoundsAssumption DEF GetJob, Exists, Gone, Shape, TypeOK, Fresh, JobIds
  <2>3. \E pc \in RequestPcs \ {"idle"} : Begin(r, pc, t, j)
    BY <1>3 DEF StopCrawl, StartIndex, StopIndex, DeleteCrawl, RequestPcs
  <2> QED BY <2>2, <2>3, BeginShape
<1> QED BY <1>1, <1>2, <1>3

\* The INSERT of start_crawl.
LEMMA CreateCrawlShape ==
  ASSUME Shape, NEW r \in Requests, CreateCrawl(r)
  PROVE  Shape'
<1>1. req[r].owner \in Tenants \cup {"none"} BY DEF Shape, TypeOK
<1>2. RequestMoved(r) BY ReturnMoves DEF CreateCrawl
<1>3. 0 \in 0..MaxJobs /\ 0 < nextId BY BoundsAssumption DEF Shape, TypeOK
<1> QED BY <1>1, <1>2, <1>3, CreateShape DEF CreateCrawl, Kinds, stores, workers, bounds, history

\* The INSERT of start_index, whose source its handler has checked.
LEMMA CreateIndexShape ==
  ASSUME Shape, NEW r \in Requests, CreateIndex(r)
  PROVE  Shape'
<1>1. req[r].owner \in Tenants \cup {"none"} BY DEF Shape, TypeOK
<1>2. RequestMoved(r) BY ReturnMoves DEF CreateIndex
<1>3. req[r].job \in 0..MaxJobs /\ req[r].job < nextId /\ req[r].job # 0
  BY RequestFacts, BoundsAssumption DEF CreateIndex, Unborn, JobIds
<1> QED BY <1>1, <1>2, <1>3, CreateShape DEF CreateIndex, Kinds, stores, workers, bounds, history

\* The INSERT of a crawl that has completed.
LEMMA QueueIndexShape ==
  ASSUME Shape, NEW s \in Slots, QueueIndex(s)
  PROVE  Shape'
<1>1. Busy(s) BY DEF QueueIndex, Busy, At
<1>2. row[Job(s)].owner \in Tenants \cup {"none"} BY <1>1, BusyFacts DEF RowType
<1>3. TaskMoved(s) BY EndTaskMoves DEF QueueIndex
<1>4. Job(s) \in 0..MaxJobs /\ Job(s) < nextId /\ Job(s) # 0
  BY <1>1, BusyFacts, BoundsAssumption DEF JobIds
<1> QED BY <1>2, <1>3, <1>4, CreateShape DEF QueueIndex, Kinds, stores, workers, bounds, history

\* A claim, answered or not, takes a pending row for a live worker.
LEMMA ClaimShape ==
  ASSUME Shape, NEW s \in Slots, NEW j \in JobIds, ClaimRow(s, j),
         faults' \in Nat, lost' \subseteq JobIds,
         \/ task' = task
         \/ task' = [task EXCEPT ![s] =
                       [pc |-> IF KindOf[s] = "crawl" THEN "store" ELSE "read",
                        job |-> j, n |-> 0, batch |-> 0, epoch |-> starts]]
  PROVE  Shape'
<1> USE DEF Shape, ClaimRow, stores, workers
<1>1. status[j] = "pending" /\ row[j].kind = KindOf[s] /\ up[WorkerOf[s]]
  BY DEF Claimable, Waiting
<1>2. j < nextId /\ j # 0 /\ j \in 0..MaxJobs
  <2>1. ~(j >= nextId) BY <1>1 DEF Fresh
  <2>2. j \in 1..MaxJobs /\ nextId \in Nat BY BoundsAssumption DEF JobIds, TypeOK
  <2> QED BY <2>1, <2>2, BoundsAssumption
<1>3. task' = task \/ /\ task' \in [Slots -> TaskType]
                      /\ \A z \in Slots : z # s => task'[z] = task[z]
                      /\ task'[s].job = j /\ task'[s].epoch = starts
                      /\ task'[s].pc \in Pcs(KindOf[s])
  <2> DEFINE new == [pc |-> IF KindOf[s] = "crawl" THEN "store" ELSE "read",
                     job |-> j, n |-> 0, batch |-> 0, epoch |-> starts]
  <2>1. new.pc \in Pcs(KindOf[s]) BY DEF Pcs, CrawlPcs, IndexPcs
  <2>2. new \in TaskType BY <1>2, <2>1, PcsAreNotIdle, SlotsAssumption DEF TaskType, TypeOK
  <2>3. new.job = j /\ new.epoch = starts OBVIOUS
  <2> HIDE DEF new
  <2>4. task' = task \/ task' = [task EXCEPT ![s] = new] BY DEF new
  <2> QED BY <2>1, <2>2, <2>3, <2>4 DEF TypeOK
<1>4. status' \in [JobIds -> Statuses] BY DEF TypeOK, Statuses, Active
<1>5. TypeOK' BY <1>3, <1>4 DEF TypeOK
<1>6. Fresh' BY <1>1, <1>2 DEF Fresh, TypeOK
<1>7. RowShape' /\ RequestShape' BY DEF RowShape, RequestShape
<1>8. TaskShape' BY <1>1, <1>2, <1>3 DEF TaskShape, Busy, TypeOK
<1> QED BY <1>5, <1>6, <1>7, <1>8

\* The reset of a starting worker.
LEMMA WorkerStartShape ==
  ASSUME Shape, NEW w \in Workers, WorkerStart(w)
  PROVE  Shape'
<1> USE DEF Shape, WorkerStart, stores, bounds
<1>1. status' \in [JobIds -> Statuses] BY DEF TypeOK, Statuses, Active
<1>2. TypeOK' BY <1>1 DEF TypeOK
<1>3. Fresh' BY DEF Fresh
<1>4. RowShape' /\ RequestShape' BY DEF RowShape, RequestShape
<1>5. TaskShape' BY SlotsAssumption DEF TaskShape, Busy, TypeOK, TaskType
<1> QED BY <1>2, <1>3, <1>4, <1>5

\* A crash empties the slots of the worker.
LEMMA WorkerCrashShape ==
  ASSUME Shape, NEW w \in Workers, WorkerCrash(w)
  PROVE  Shape'
<1> USE DEF Shape, WorkerCrash, table, stores, bounds, history
<1>1. task' \in [Slots -> TaskType] BY NoTaskTyped DEF TypeOK
<1>2. TypeOK' BY <1>1 DEF TypeOK
<1>3. Fresh' /\ RowShape' /\ RequestShape' BY DEF Fresh, RowShape, RequestShape
<1>4. TaskShape' BY SlotsAssumption DEF TaskShape, Busy, NoTask, TypeOK
<1> QED BY <1>2, <1>3, <1>4

\* Every step keeps the shape.
LEMMA ShapeStep == Shape /\ [Next]_vars => Shape'
<1> SUFFICES ASSUME Shape, [Next]_vars PROVE Shape' OBVIOUS
<1>1. ASSUME NEW r \in Requests, Arrive(r) PROVE Shape' BY <1>1, ArriveShape
<1>2. ASSUME NEW r \in Requests, Handle(r) PROVE Shape'
  BY <1>2, HandleRoutine, RoutineShape, CreateCrawlShape, CreateIndexShape
<1>3. ASSUME NEW r \in Requests, Abort(r) PROVE Shape' BY <1>3, AbortRoutine, RoutineShape
<1>4. ASSUME NEW s \in Slots, Claim(s) PROVE Shape'
  BY <1>4, ClaimShape DEF Claim, ClaimPendingJob, Shape, TypeOK
<1>5. ASSUME NEW s \in Slots, NEW j \in JobIds, ClaimLost(s, j) PROVE Shape'
  BY <1>5, ClaimShape, FaultTyped DEF ClaimLost, Shape, TypeOK
<1>6. ASSUME NEW s \in Slots, Work(s) PROVE Shape'
  BY <1>6, WorkRoutine, RoutineShape, QueueIndexShape
<1>7. ASSUME NEW s \in Slots, Trouble(s) PROVE Shape' BY <1>7, TroubleRoutine, RoutineShape
<1>8. ASSUME NEW w \in Workers, WorkerStart(w) PROVE Shape' BY <1>8, WorkerStartShape
<1>9. ASSUME NEW w \in Workers, WorkerCrash(w) PROVE Shape' BY <1>9, WorkerCrashShape
<1>10. CASE UNCHANGED vars
  BY <1>10 DEF vars, table, stores, workers, bounds, history, Shape, TypeOK, Fresh, RowShape,
     TaskShape, RequestShape, Busy
<1> QED
  BY <1>1, <1>2, <1>3, <1>4, <1>5, <1>6, <1>7, <1>8, <1>9, <1>10 DEF Next

\* The strengthened type invariant holds of the jobs table, tasks and handlers.
THEOREM ShapeInvariant == Spec => []Shape
BY InitShape, ShapeStep, PTL DEF Spec

\* Every variable keeps its type.
THEOREM TypeCorrect == Spec => []TypeOK
<1>1. Shape => TypeOK BY DEF Shape
<1> QED BY <1>1, ShapeInvariant, PTL

-----------------------------------------------------------------------------
(***************************************************************************)
(* The safety properties, proved from Shape.  The first lemmas say what     *)
(* each kind of step may do to a job; each property then has an inductive   *)
(* strengthening and one step for each kind.                                *)
(***************************************************************************)

Same(j) == status'[j] = status[j] /\ pages'[j] = pages[j] /\ row'[j] = row[j]

\* A row is inserted under the next id.
Created(t, k, source) ==
  /\ nextId \in JobIds
  /\ nextId' = nextId + 1
  /\ status' = [status EXCEPT ![nextId] = "pending"]
  /\ row' = [row EXCEPT ![nextId] = [kind |-> k, owner |-> t, src |-> source]]
  /\ status[nextId] = "none"

\* create_job inserts a row that was not there.
LEMMA CreateJobCreates ==
  ASSUME Shape, NEW t \in Tenants \cup {"none"}, NEW k \in Kinds, NEW source \in 0..MaxJobs,
         CreateJob(t, k, source)
  PROVE  Created(t, k, source)
<1>1. nextId \in JobIds BY BoundsAssumption DEF CreateJob, JobIds, Shape, TypeOK
<1>2. nextId >= nextId BY <1>1 DEF JobIds
<1> QED BY <1>1, <1>2 DEF CreateJob, Created, Shape, Fresh

\* A handler begins with what its get_job has just seen.
LEMMA ArriveEffect ==
  ASSUME NEW r \in Requests, Arrive(r)
  PROVE  /\ UNCHANGED <<table, stores, workers, task, history>>
         /\ \E t \in Tenants, pc \in RequestPcs \ {"idle"}, j \in JobIds \cup {0} :
              /\ Begin(r, pc, t, j)
              /\ j # 0 => GetJob(t, j)
              /\ pc \in {"stop_index_request", "stop_index_fail"} => j # 0 /\ status[j] \in Active
              /\ pc \in {"index_check", "index_create"} => j # 0 /\ status[j] = "completed"
<1>1. PICK t \in Tenants :
        \/ StartCrawl(r, t)
        \/ \E j \in JobIds : \/ StopCrawl(r, t, j) \/ StartIndex(r, t, j)
                             \/ StopIndex(r, t, j) \/ DeleteCrawl(r, t, j)
  BY DEF Arrive
<1>2. CASE StartCrawl(r, t)
  <2>1. Begin(r, "crawl_check", t, 0) BY <1>2 DEF StartCrawl
  <2>2. "crawl_check" \in RequestPcs \ {"idle"} BY DEF RequestPcs
  <2> QED BY <2>1, <2>2 DEF Begin
<1>3. ASSUME NEW j \in JobIds,
             \/ StopCrawl(r, t, j) \/ StartIndex(r, t, j)
             \/ StopIndex(r, t, j) \/ DeleteCrawl(r, t, j)
      PROVE  /\ UNCHANGED <<table, stores, workers, task, history>>
             /\ \E pc \in RequestPcs \ {"idle"} :
                  /\ Begin(r, pc, t, j) /\ GetJob(t, j)
                  /\ pc \in {"stop_index_request", "stop_index_fail"} => status[j] \in Active
                  /\ pc \in {"index_check", "index_create"} => status[j] = "completed"
  BY <1>3 DEF StopCrawl, StartIndex, StopIndex, DeleteCrawl, RequestPcs, Begin
<1>4. 0 \notin JobIds BY BoundsAssumption DEF JobIds
<1> QED BY <1>1, <1>2, <1>3, <1>4

\* A statement of a handler: of the rows there are it deletes some, or it is the
\* 'failed' of a stop_index.
LEMMA HandleEffect ==
  ASSUME Shape, NEW r \in Requests, Handle(r)
  PROVE  /\ UNCHANGED <<workers, task, history>>
         /\ \A j \in JobIds : j < nextId =>
              /\ row'[j] = row[j]
              /\ \/ Same(j)
                 \/ status'[j] = "deleted" /\ (row[j].kind = "index" \/ pages'[j] = 0)
                 \/ /\ status'[j] = "failed" /\ pages'[j] = pages[j]
                    /\ req[r].pc = "stop_index_fail" /\ req[r].job = j
              /\ status[j] = "deleted" => status'[j] = "deleted"
         /\ \A j \in JobIds : vectors'[j] = vectors[j] \/ vectors'[j] = 0
         /\ \A j \in JobIds : pages'[j] = pages[j] \/ pages'[j] = 0
         /\ \A j \in JobIds : status'[j] \in {"running", "completed"} => status'[j] = status[j]
<1> USE DEF stores, workers, bounds, history, table, Shape, TypeOK
<1>1. ASSUME \/ CheckActiveCrawl(r) \/ CheckActiveIndex(r) \/ StopCrawlRequest(r)
             \/ StopIndexRequest(r) \/ DeleteRequest(r)
      PROVE  UNCHANGED <<status, row, stores, workers, task, history>>
  BY <1>1 DEF CheckActiveCrawl, CheckActiveIndex, StopCrawlRequest, StopIndexRequest, DeleteRequest, RequestCancel
<1>2. ASSUME CreateCrawl(r) \/ CreateIndex(r)
      PROVE  /\ UNCHANGED <<stores, workers, task, history>>
             /\ \A j \in JobIds : j < nextId => Same(j)
             /\ \A j \in JobIds : status'[j] \in {"running", "completed"} => status'[j] = status[j]
  <2>1. \E k \in Kinds, source \in 0..MaxJobs : CreateJob(req[r].owner, k, source)
    BY <1>2, BoundsAssumption DEF CreateCrawl, CreateIndex, Kinds
  <2>2. \E k \in Kinds, source \in 0..MaxJobs : Created(req[r].owner, k, source)
    BY <2>1, CreateJobCreates
  <2> QED BY <1>2, <2>2 DEF Created, Same, CreateCrawl, CreateIndex
<1>3. ASSUME DeleteVectorsByCrawlJob(r)
      PROVE  /\ UNCHANGED <<table, pages, workers, task, history>>
             /\ \A j \in JobIds : vectors'[j] = vectors[j] \/ vectors'[j] = 0
  BY <1>3 DEF DeleteVectorsByCrawlJob
<1>4. ASSUME DeleteIndexRows(r)
      PROVE  /\ UNCHANGED <<row, stores, workers, task, history>>
             /\ \A j \in JobIds : status'[j] # status[j] => status'[j] = "deleted" /\ row[j].kind = "index"
  BY <1>4 DEF DeleteIndexRows
<1>5. ASSUME DeleteCrawlRow(r)
      PROVE  /\ UNCHANGED <<row, vectors, workers, task, history>>
             /\ \A j \in JobIds : \/ status'[j] = status[j] /\ pages'[j] = pages[j]
                                  \/ status'[j] = "deleted" /\ pages'[j] = 0
  BY <1>5 DEF DeleteCrawlRow
<1>6. ASSUME StopIndexFail(r)
      PROVE  /\ UNCHANGED <<row, stores, workers, task, history>>
             /\ req[r].pc = "stop_index_fail"
             /\ \A j \in JobIds : \/ status'[j] = status[j]
                                  \/ j = req[r].job /\ status'[j] = "failed" /\ Exists(j)
  BY <1>6 DEF StopIndexFail, UpdateJobStatus
<1> QED BY <1>1, <1>2, <1>3, <1>4, <1>5, <1>6 DEF Handle, Same, Exists, Gone

\* A step of a task: it concerns its own job, and a row it writes is not settled.
LEMMA WorkEffect ==
  ASSUME Shape, NEW s \in Slots, Work(s)
  PROVE  /\ UNCHANGED <<workers, req, lost>>
         /\ Busy(s) /\ Job(s) \in JobIds /\ Job(s) < nextId
         /\ \A j \in JobIds : j < nextId =>
              /\ row'[j] = row[j]
              /\ j # Job(s) => Same(j)
              /\ ~Exists(j) => Same(j)
         /\ \A j \in JobIds : j >= nextId => pages'[j] = pages[j]
         /\ \A j \in JobIds : j # Job(s) /\ status'[j] \in {"running", "completed"}
                               => status'[j] = status[j]
<1> USE DEF stores, workers, bounds, history, table, Shape, TypeOK
<1>0. Busy(s) /\ Job(s) \in JobIds /\ Job(s) < nextId
  <2>1. Busy(s)
    BY DEF Work, Busy, At, InsertCrawlPage, CrawlProgress, CrawlCancelCheck, CrawlDone, QueueIndex,
       QueueIndexFailed, ReadBatch, Flush, IndexProgress, IndexCancelCheck, WriteCompleted, WriteFailed
  <2> QED BY <2>1, BusyFacts
<1>1. ASSUME \/ CrawlCancelCheck(s) \/ CrawlDone(s) \/ QueueIndexFailed(s) \/ ReadBatch(s)
             \/ Flush(s) \/ IndexCancelCheck(s)
      PROVE  UNCHANGED <<status, row, pages, workers, req, lost>>
  BY <1>1 DEF CrawlCancelCheck, CrawlDone, QueueIndexFailed, ReadBatch, Flush, IndexCancelCheck
<1>2. ASSUME InsertCrawlPage(s)
      PROVE  /\ UNCHANGED <<status, row, workers, req, lost>> /\ Exists(Job(s))
             /\ \A j \in JobIds : j # Job(s) => pages'[j] = pages[j]
  BY <1>2 DEF InsertCrawlPage
<1>3. ASSUME \/ CrawlProgress(s) \/ IndexProgress(s) \/ WriteCompleted(s) \/ WriteFailed(s)
      PROVE  /\ UNCHANGED <<row, pages, workers, req, lost>>
             /\ \A j \in JobIds : status'[j] # status[j] => j = Job(s) /\ Exists(j)
  BY <1>3 DEF CrawlProgress, IndexProgress, WriteCompleted, WriteFailed, UpdateJobStatus
<1>4. ASSUME QueueIndex(s)
      PROVE  /\ UNCHANGED <<stores, workers, req, lost>>
             /\ \A j \in JobIds : j < nextId => Same(j)
             /\ \A j \in JobIds : status'[j] \in {"running", "completed"} => status'[j] = status[j]
  <2>0. row[Job(s)].owner \in Tenants \cup {"none"} /\ Job(s) \in 0..MaxJobs /\ "index" \in Kinds
    <3>1. row[Job(s)].owner \in Tenants \cup {"none"} BY <1>0
    <3>2. Job(s) \in 0..MaxJobs BY <1>0, BoundsAssumption DEF JobIds
    <3> QED BY <3>1, <3>2 DEF Kinds
  <2>1. CreateJob(row[Job(s)].owner, "index", Job(s)) BY <1>4 DEF QueueIndex
  <2>2. Created(row[Job(s)].owner, "index", Job(s)) BY <2>0, <2>1, CreateJobCreates
  <2> QED BY <1>4, <2>2 DEF Created, Same, QueueIndex
<1>5. \/ /\ UNCHANGED <<row, workers, req, lost>>
         /\ \A j \in JobIds : status'[j] # status[j] \/ pages'[j] # pages[j]
                                => j = Job(s) /\ Exists(j)
      \/ /\ UNCHANGED <<stores, workers, req, lost>>
         /\ \A j \in JobIds : j < nextId => Same(j)
         /\ \A j \in JobIds : status'[j] \in {"running", "completed"} => status'[j] = status[j]
  BY <1>1, <1>2, <1>3, <1>4 DEF Work
<1>6. UNCHANGED <<workers, req, lost>> BY <1>5
<1>7. ASSUME NEW j \in JobIds, j < nextId
      PROVE  row'[j] = row[j] /\ (j # Job(s) => Same(j)) /\ (~Exists(j) => Same(j))
  BY <1>5, <1>7 DEF Same
<1>8. ASSUME NEW j \in JobIds, j >= nextId PROVE pages'[j] = pages[j]
  <2>1. j # Job(s) BY <1>0, <1>8 DEF JobIds
  <2> QED BY <1>5, <2>1
<1>9. \A j \in JobIds : j # Job(s) /\ status'[j] \in {"running", "completed"} => status'[j] = status[j]
  BY <1>5
<1> QED BY <1>0, <1>6, <1>7, <1>8, <1>9

\* A failure writes nothing.
LEMMA TroubleEffect ==
  ASSUME NEW s \in Slots, Trouble(s)
  PROVE  /\ UNCHANGED <<table, stores, workers, req, finished>>
         /\ lost \subseteq lost'
BY DEF Trouble, CrawlStoreFailed, FlushFailed, WriteFailedLost, Fail, history

\* Where handlers and tasks go.
LEMMA HandleMoves ==
  ASSUME Shape, NEW r \in Requests, Handle(r)
  PROVE  /\ RequestMoved(r)
         /\ req'[r].pc \in {"stop_index_request", "stop_index_fail"} => req[r].pc = "stop_index_request"
         /\ req'[r].pc \in {"index_check", "index_create"} => req[r].pc = "index_check"
<1>1. \A pc : Goto(r, pc) => req'[r].pc = pc BY DEF Goto, Shape, TypeOK
<1>2. Return(r) => req'[r].pc = "idle" BY DEF Return, NoRequest, Shape, TypeOK
<1> USE <1>1, <1>2, GotoMoves, ReturnMoves DEF RequestPcs, Unborn
<1>3. ASSUME CheckActiveCrawl(r) PROVE RequestMoved(r) /\ req'[r].pc \in {"idle", "crawl_create"}
  BY <1>3 DEF CheckActiveCrawl
<1>4. ASSUME CheckActiveIndex(r)
      PROVE  RequestMoved(r) /\ req[r].pc = "index_check" /\ req'[r].pc \in {"idle", "index_create"}
  BY <1>4 DEF CheckActiveIndex
<1>5. ASSUME StopIndexRequest(r)
      PROVE  /\ RequestMoved(r) /\ req[r].pc = "stop_index_request"
             /\ req'[r].pc = "stop_index_fail"
  BY <1>5 DEF StopIndexRequest
<1>6. ASSUME DeleteRequest(r) PROVE RequestMoved(r) /\ req'[r].pc = "delete_vectors"
  BY <1>6 DEF DeleteRequest
<1>7. ASSUME DeleteVectorsByCrawlJob(r) PROVE RequestMoved(r) /\ req'[r].pc = "delete_index_rows"
  BY <1>7 DEF DeleteVectorsByCrawlJob
<1>8. ASSUME DeleteIndexRows(r) PROVE RequestMoved(r) /\ req'[r].pc = "delete_crawl_row"
  BY <1>8 DEF DeleteIndexRows
<1>9. ASSUME \/ CreateCrawl(r) \/ CreateIndex(r) \/ StopCrawlRequest(r) \/ StopIndexFail(r)
             \/ DeleteCrawlRow(r)
      PROVE  RequestMoved(r) /\ req'[r].pc = "idle"
  BY <1>9 DEF CreateCrawl, CreateIndex, StopCrawlRequest, StopIndexFail, DeleteCrawlRow
<1> QED BY <1>3, <1>4, <1>5, <1>6, <1>7, <1>8, <1>9 DEF Handle

\* An aborted handler leaves everything else alone.
LEMMA AbortMoves ==
  ASSUME Shape, NEW r \in Requests, Abort(r)
  PROVE  /\ UNCHANGED <<table, stores, workers, task, history>>
         /\ RequestMoved(r) /\ req'[r] = NoRequest
BY ReturnMoves DEF Abort, Return, Shape, TypeOK

\* A run that goes on keeps its job and epoch; other runs do not move.
LEMMA WorkMoves ==
  ASSUME Shape, NEW s \in Slots, Work(s)
  PROVE  /\ \A z \in Slots : z # s => task'[z] = task[z]
         /\ Busy(s)' => Job(s)' = Job(s) /\ task'[s].epoch = task[s].epoch
<1>1. ASSUME TaskMoved(s) PROVE Busy(s)' => Job(s)' = Job(s) /\ task'[s].epoch = task[s].epoch
  BY <1>1 DEF TaskMoved, Busy, NoTask, Job
<1>2. TaskMoved(s) BY WorkRoutine
<1> QED BY <1>1, <1>2 DEF TaskMoved

\* The same for a failing run.
LEMMA TroubleMoves ==
  ASSUME Shape, NEW s \in Slots, Trouble(s)
  PROVE  /\ Busy(s) /\ Job(s) \in JobIds
         /\ \A z \in Slots : z # s => task'[z] = task[z]
         /\ Busy(s)' => Job(s)' = Job(s) /\ task'[s].epoch = task[s].epoch
<1>1. Busy(s)
  BY DEF Trouble, CrawlStoreFailed, FlushFailed, WriteFailedLost, Fail, Busy, At
<1>2. TaskMoved(s) BY TroubleRoutine
<1> QED BY <1>1, <1>2, BusyFacts DEF TaskMoved, Busy, NoTask, Job

\* A failing run never reaches its index job and loads no batch.
LEMMA TroubleEnds ==
  ASSUME Shape, NEW s \in Slots, Trouble(s)
  PROVE  task'[s].pc # "queue_index" /\ task'[s].batch <= task[s].batch
<1>0. task[s].batch \in Nat BY DEF Shape, TypeOK, TaskType
<1>1. \A pc : Step(s, pc) => task'[s].pc = pc /\ task'[s].batch = task[s].batch
  BY DEF Step, Shape, TypeOK
<1>2. EndTask(s) => task'[s].pc = "idle" /\ task'[s].batch = 0
  BY DEF EndTask, NoTask, Shape, TypeOK
<1>3. AfterFlush(s) => task'[s].pc \in {"report", "complete"} /\ task'[s].batch = 0
  BY DEF AfterFlush, Shape, TypeOK
<1> QED
  BY <1>0, <1>1, <1>2, <1>3 DEF Trouble, CrawlStoreFailed, FlushFailed, WriteFailedLost, Fail

\* What the event loop does when a claim answers.
LEMMA ClaimMoves ==
  ASSUME Shape, NEW s \in Slots, NEW j \in JobIds, ClaimPendingJob(s, j)
  PROVE  /\ ClaimRow(s, j) /\ lost' = lost
         /\ \A z \in Slots : z # s => task'[z] = task[z]
         /\ Busy(s)' /\ Job(s)' = j /\ task'[s].epoch = starts
         /\ task'[s].pc \in {"store", "read"} /\ task'[s].batch = 0
BY DEF ClaimPendingJob, Shape, TypeOK, Busy, Job

\* A claimed row was pending, of the kind of the slot, and is running now.
LEMMA ClaimRowEffect ==
  ASSUME Shape, NEW s \in Slots, NEW j \in JobIds, ClaimRow(s, j)
  PROVE  /\ up[WorkerOf[s]] /\ ~Busy(s) /\ status[j] = "pending" /\ row[j].kind = KindOf[s]
         /\ j < nextId
         /\ status' = [status EXCEPT ![j] = "running"]
         /\ UNCHANGED <<cancel, row, nextId, stores, workers, req, calls, finished>>
<1>1. status[j] = "pending" /\ row[j].kind = KindOf[s]
  BY DEF ClaimRow, Claimable, Waiting
<1>2. ~(j >= nextId) BY <1>1 DEF Shape, Fresh
<1>3. j < nextId BY <1>2, BoundsAssumption DEF JobIds, Shape, TypeOK
<1> QED BY <1>1, <1>3 DEF ClaimRow

----------------------------------------------------------------------------
(* A job is claimed once per worker start.                                  *)

\* A job some task of the current epoch holds does not wait to be claimed.
HeldNotPending ==
  \A s \in Slots : Busy(s) /\ task[s].epoch = starts => status[Job(s)] # "pending"

\* No task appears, no held job goes back to pending.
ClaimsKept ==
  /\ starts' = starts
  /\ \A s \in Slots : Busy(s)' => Busy(s) /\ Job(s)' = Job(s) /\ task'[s].epoch = task[s].epoch
  /\ \A j \in JobIds : j < nextId /\ status'[j] = "pending" => status[j] = "pending"

\* Steps that give out no job keep the invariant.
LEMMA ClaimsKeptSuffices ==
  ASSUME Shape, HeldNotPending, ClaimExclusive, ClaimsKept
  PROVE  HeldNotPending' /\ ClaimExclusive'
<1>1. \A s \in Slots : Busy(s) => Job(s) \in JobIds /\ Job(s) < nextId BY BusyFacts
<1>2. HeldNotPending'
  BY <1>1 DEF HeldNotPending, ClaimsKept
<1>3. ClaimExclusive'
  BY DEF ClaimExclusive, ClaimsKept, Holds, Job
<1> QED BY <1>2, <1>3

\* Every step keeps claims exclusive.
LEMMA ClaimStep ==
  ASSUME Shape, HeldNotPending, ClaimExclusive, [Next]_vars
  PROVE  HeldNotPending' /\ ClaimExclusive'
<1> USE DEF workers
<1>1. ASSUME NEW r \in Requests, Arrive(r) PROVE ClaimsKept
  BY <1>1, ArriveEffect DEF ClaimsKept, table, Busy, Job
<1>2. ASSUME NEW r \in Requests, Handle(r) PROVE ClaimsKept
  BY <1>2, HandleEffect DEF ClaimsKept, Busy, Job, Same
<1>3. ASSUME NEW r \in Requests, Abort(r) PROVE ClaimsKept
  BY <1>3 DEF Abort, ClaimsKept, table, Busy, Job
<1>4. ASSUME NEW s \in Slots, NEW j \in JobIds, ClaimPendingJob(s, j)
      PROVE  HeldNotPending' /\ ClaimExclusive'
  <2>1. /\ status[j] = "pending" /\ ~Busy(s) /\ starts' = starts
        /\ status' = [status EXCEPT ![j] = "running"]
    BY <1>4, ClaimMoves, ClaimRowEffect
  <2>2. /\ \A z \in Slots : z # s => task'[z] = task[z]
        /\ Busy(s)' /\ Job(s)' = j /\ task'[s].epoch = starts
    BY <1>4, ClaimMoves
  <2>3. \A z \in Slots : Busy(z) /\ task[z].epoch = starts => Job(z) # j
    BY <2>1 DEF HeldNotPending
  <2>4. status'[j] = "running" /\ \A i \in JobIds : i # j => status'[i] = status[i]
    BY <2>1 DEF Shape, TypeOK
  <2>5. \A z \in Slots : Busy(z) => Job(z) \in JobIds BY BusyFacts
  <2>6. HeldNotPending' BY <2>1, <2>2, <2>4, <2>5 DEF HeldNotPending, Busy, Job
  <2>7. ClaimExclusive' BY <2>2, <2>3 DEF ClaimExclusive, Holds, Busy, Job
  <2> QED BY <2>6, <2>7
<1>5. ASSUME NEW s \in Slots, NEW j \in JobIds, ClaimLost(s, j) PROVE ClaimsKept
  <2>1. status' = [status EXCEPT ![j] = "running"] /\ task' = task /\ starts' = starts
    BY <1>5, ClaimRowEffect DEF ClaimLost
  <2> QED BY <2>1 DEF ClaimsKept, Busy, Job, Shape, TypeOK
<1>6. ASSUME NEW s \in Slots, Work(s) PROVE ClaimsKept
  <2>1. ASSUME Routine PROVE ClaimsKept
    BY <1>6, <2>1, WorkEffect, WorkMoves DEF Routine, RowsKept, ClaimsKept, Busy, Job
  <2>2. ASSUME QueueIndex(s) PROVE ClaimsKept
    <3>1. \A j \in JobIds : j < nextId => status'[j] = status[j]
      BY <2>2 DEF QueueIndex, CreateJob, Shape, TypeOK
    <3> QED BY <1>6, <3>1, WorkEffect, WorkMoves DEF ClaimsKept, Busy, Job
  <2> QED BY <1>6, <2>1, <2>2, WorkRoutine
<1>7. ASSUME NEW s \in Slots, Trouble(s) PROVE ClaimsKept
  BY <1>7, TroubleEffect, TroubleMoves DEF ClaimsKept, table, Busy, Job
<1>8. ASSUME NEW w \in Workers, WorkerStart(w) PROVE HeldNotPending' /\ ClaimExclusive'
  <2>1. \A s \in Slots : Busy(s) => task[s].epoch # starts'
    BY <1>8 DEF WorkerStart, Shape, TaskShape, TypeOK, TaskType
  <2> QED BY <1>8, <2>1 DEF WorkerStart, HeldNotPending, ClaimExclusive, Holds, Busy, Job
<1>9. ASSUME NEW w \in Workers, WorkerCrash(w) PROVE ClaimsKept
  <2>1. \A s \in Slots : task'[s] = NoTask \/ task'[s] = task[s] BY <1>9 DEF WorkerCrash
  <2> QED BY <1>9, <2>1 DEF WorkerCrash, ClaimsKept, table, Busy, NoTask, Job
<1>10. ASSUME UNCHANGED vars PROVE ClaimsKept BY <1>10 DEF vars, table, ClaimsKept, Busy, Job
<1> QED
  BY <1>1, <1>2, <1>3, <1>4, <1>5, <1>6, <1>7, <1>8, <1>9, <1>10, ClaimsKeptSuffices DEF Next, Claim

\* claim_pending_job never gives one job to two tasks unless a worker process
\* started between the two claims.
THEOREM ClaimsAreExclusive == Spec => []ClaimExclusive
<1>1. Init => HeldNotPending /\ ClaimExclusive
  BY DEF Init, HeldNotPending, ClaimExclusive, Holds, Busy, NoTask
<1> QED BY <1>1, ClaimStep, ShapeInvariant, PTL DEF Spec

----------------------------------------------------------------------------
(* No running row without a task that owes it a write.                      *)

\* Where the run of s stands after one of its steps.
LEMMA WorkOwes ==
  ASSUME Shape, NEW s \in Slots, Work(s)
  PROVE  \/ Busy(s)' /\ Job(s)' = Job(s) /\ task'[s].pc # "queue_index"
         \/ status'[Job(s)] # "running"
         \/ At(s, "queue_index") /\ status'[Job(s)] = status[Job(s)]
<1>0. Busy(s) /\ Job(s) \in JobIds /\ Job(s) < nextId /\ task[s] \in TaskType
  BY WorkEffect, BusyFacts
<1>1. ASSUME WriteCompleted(s) \/ WriteFailed(s) PROVE status'[Job(s)] # "running"
  BY <1>0, <1>1 DEF WriteCompleted, WriteFailed, UpdateJobStatus, Shape, TypeOK, Exists, Gone
<1>2. ASSUME QueueIndexFailed(s) PROVE At(s, "queue_index") /\ status'[Job(s)] = status[Job(s)]
  BY <1>2 DEF QueueIndexFailed, table
<1>3. ASSUME QueueIndex(s) PROVE At(s, "queue_index") /\ status'[Job(s)] = status[Job(s)]
  BY <1>0, <1>3 DEF QueueIndex, CreateJob, Shape, TypeOK
<1>4. ASSUME NEW pc \in {"store", "progress", "check", "complete", "stopped", "fail", "read", "flush", "report"},
             task'[s].pc = pc
      PROVE  Busy(s)' /\ Job(s)' = Job(s) /\ task'[s].pc # "queue_index"
  BY <1>4, WorkMoves DEF Busy
<1>5. \A pc : Step(s, pc) => task'[s].pc = pc BY DEF Step, Shape, TypeOK
<1>6. ASSUME \/ CrawlProgress(s) \/ CrawlCancelCheck(s) \/ CrawlDone(s) \/ IndexProgress(s)
             \/ IndexCancelCheck(s)
      PROVE  task'[s].pc \in {"store", "progress", "check", "complete", "stopped", "read"}
  BY <1>5, <1>6 DEF CrawlProgress, CrawlCancelCheck, CrawlDone, IndexProgress, IndexCancelCheck, AfterProgress
<1>7. ASSUME InsertCrawlPage(s) PROVE task'[s].pc \in {"store", "progress", "check"}
  BY <1>7 DEF InsertCrawlPage, AfterStore, AfterProgress, Shape, TypeOK
<1>8. ASSUME ReadBatch(s) PROVE task'[s].pc \in {"flush", "complete"}
  BY <1>8 DEF ReadBatch, Shape, TypeOK
<1>9. ASSUME Flush(s) PROVE task'[s].pc \in {"report", "complete"}
  BY <1>9 DEF Flush, AfterFlush, Shape, TypeOK
<1> QED BY <1>1, <1>2, <1>3, <1>4, <1>6, <1>7, <1>8, <1>9 DEF Work

\* Where a failing run stands: it will write, or its write is lost.
LEMMA TroubleOwes ==
  ASSUME Shape, NEW s \in Slots, Trouble(s)
  PROVE  \/ Busy(s)' /\ Job(s)' = Job(s) /\ task'[s].pc # "queue_index"
         \/ Job(s) \in lost'
<1>1. ASSUME NEW pc \in {"store", "complete", "report", "fail"}, task'[s].pc = pc
      PROVE  Busy(s)' /\ Job(s)' = Job(s) /\ task'[s].pc # "queue_index"
  BY <1>1, TroubleMoves DEF Busy
<1>2. \A pc : Step(s, pc) => task'[s].pc = pc BY DEF Step, Shape, TypeOK
<1>3. ASSUME CrawlStoreFailed(s) \/ Fail(s) PROVE task'[s].pc \in {"store", "fail"}
  BY <1>2, <1>3 DEF CrawlStoreFailed, Fail
<1>4. ASSUME FlushFailed(s) PROVE task'[s].pc \in {"report", "complete"}
  BY <1>4 DEF FlushFailed, AfterFlush, Shape, TypeOK
<1>5. ASSUME WriteFailedLost(s) PROVE Job(s) \in lost' BY <1>5 DEF WriteFailedLost
<1> QED BY <1>1, <1>3, <1>4, <1>5 DEF Trouble

Owed(j) ==
  \/ \E s \in Slots : Holds(s, j) /\ ~At(s, "queue_index")
  \/ \E w \in Workers : ~up[w]
  \/ j \in lost

\* Every step keeps running rows accounted for.
LEMMA OwedStep ==
  ASSUME Shape, NoStrandedJob, [Next]_vars
  PROVE  NoStrandedJob'
<1> SUFFICES ASSUME NEW j \in JobIds, status'[j] = "running" PROVE Owed(j)'
  BY DEF NoStrandedJob, Owed
<1> USE DEF workers, history
<1>0. status[j] = "running" => Owed(j) BY DEF NoStrandedJob, Owed
<1>1. ASSUME status[j] = "running", UNCHANGED <<task, up, lost>> PROVE Owed(j)'
  BY <1>0, <1>1 DEF Owed, Holds, Busy, At
<1>2. ASSUME NEW r \in Requests, Arrive(r) PROVE Owed(j)'
  BY <1>1, <1>2, ArriveEffect DEF table
<1>3. ASSUME NEW r \in Requests, Handle(r) PROVE Owed(j)'
  BY <1>1, <1>3, HandleEffect
<1>4. ASSUME NEW r \in Requests, Abort(r) PROVE Owed(j)'
  BY <1>1, <1>4, AbortMoves DEF table
<1>5. ASSUME NEW s \in Slots, NEW i \in JobIds, ClaimPendingJob(s, i) PROVE Owed(j)'
  <2>1. /\ ~Busy(s) /\ up' = up /\ lost' = lost
        /\ status' = [status EXCEPT ![i] = "running"]
    BY <1>5, ClaimMoves, ClaimRowEffect
  <2>2. /\ \A z \in Slots : z # s => task'[z] = task[z]
        /\ Busy(s)' /\ Job(s)' = i /\ task'[s].pc # "queue_index"
    BY <1>5, ClaimMoves
  <2>3. CASE i = j BY <2>2, <2>3 DEF Owed, Holds, At, Job
  <2>4. CASE i # j
    <3>1. status[j] = "running" BY <2>1, <2>4 DEF Shape, TypeOK
    <3> QED BY <1>0, <2>1, <2>2, <3>1 DEF Owed, Holds, Busy, At
  <2> QED BY <2>3, <2>4
<1>6. ASSUME NEW s \in Slots, NEW i \in JobIds, ClaimLost(s, i) PROVE Owed(j)'
  <2>1. /\ task' = task /\ up' = up /\ lost' = lost \cup {i}
        /\ status' = [status EXCEPT ![i] = "running"]
    BY <1>6, ClaimRowEffect DEF ClaimLost
  <2>2. j # i => status[j] = "running" BY <2>1 DEF Shape, TypeOK
  <2> QED BY <1>0, <2>1, <2>2 DEF Owed, Holds, Busy, At
<1>7. ASSUME NEW s \in Slots, Work(s) PROVE Owed(j)'
  <2>1. /\ up' = up /\ lost' = lost
        /\ \A z \in Slots : z # s => task'[z] = task[z]
    BY <1>7, WorkEffect, WorkMoves
  <2>2. CASE j = Job(s)
    <3>1. CASE Busy(s)' /\ Job(s)' = Job(s) /\ task'[s].pc # "queue_index"
      BY <2>2, <3>1 DEF Owed, Holds, At, Job
    <3>2. CASE At(s, "queue_index") /\ status[j] = "running"
      BY <1>0, <2>1, <3>2 DEF Owed, Holds, Busy, At
    <3> QED BY <1>7, <2>2, <3>1, <3>2, WorkOwes
  <2>3. CASE j # Job(s)
    <3>1. status[j] = "running" BY <1>7, <2>3, WorkEffect
    <3> QED BY <1>0, <2>1, <2>3, <3>1 DEF Owed, Holds, Busy, At, Job
  <2> QED BY <2>2, <2>3
<1>8. ASSUME NEW s \in Slots, Trouble(s) PROVE Owed(j)'
  <2>1. /\ up' = up /\ lost \subseteq lost' /\ status[j] = "running"
        /\ \A z \in Slots : z # s => task'[z] = task[z]
    BY <1>8, TroubleEffect, TroubleMoves DEF table
  <2>2. CASE j = Job(s)
    BY <1>8, <2>2, TroubleOwes DEF Owed, Holds, At, Job
  <2>3. CASE j # Job(s)
    BY <1>0, <2>1, <2>3 DEF Owed, Holds, Busy, At, Job
  <2> QED BY <2>2, <2>3
<1>9. ASSUME NEW w \in Workers, WorkerStart(w) PROVE Owed(j)'
  BY <1>9 DEF WorkerStart
<1>10. ASSUME NEW w \in Workers, WorkerCrash(w) PROVE Owed(j)'
  BY <1>10 DEF WorkerCrash, Owed, Shape, TypeOK
<1>11. CASE UNCHANGED vars BY <1>1, <1>11 DEF vars, table
<1> QED
  BY <1>2, <1>3, <1>4, <1>5, <1>6, <1>7, <1>8, <1>9, <1>10, <1>11 DEF Next, Claim

\* A running row is always accounted for: a task owes it a status write, a worker
\* is down and its start will reset the row, or its write was lost.
THEOREM NoJobIsStranded == Spec => []NoStrandedJob
<1>1. Init => NoStrandedJob BY DEF Init, NoStrandedJob
<1> QED BY <1>1, OwedStep, ShapeInvariant, PTL DEF Spec

----------------------------------------------------------------------------
(* A settled job stays as it is until it is deleted.                        *)

StopPcs == {"stop_index_request", "stop_index_fail"}

SettledKept(j) ==
  \/ status'[j] = "deleted"
  \/ status'[j] = status[j] /\ pages'[j] = pages[j] /\ Settled(j)'

\* The tasks shrink and no other handler is about to fail the job.
LEMMA SettledSuffices ==
  ASSUME NEW j \in JobIds, Settled(j), status'[j] = status[j], pages'[j] = pages[j],
         \A s \in Slots : Busy(s)' /\ Job(s)' = j => Busy(s) /\ Job(s) = j,
         \A r \in Requests : req'[r].pc \in StopPcs /\ req'[r].job = j
                                => req[r].pc \in StopPcs /\ req[r].job = j
  PROVE  SettledKept(j)
BY DEF Settled, SettledKept, Holds, Job, StopPcs, Terminal

\* Every step keeps a settled job, or deletes it.
LEMMA SettledStep ==
  ASSUME Shape, [Next]_vars, NEW j \in JobIds, Settled(j)
  PROVE  SettledKept(j)
<1> USE DEF workers, stores, StopPcs
<1>0. /\ status[j] \in Terminal /\ j < nextId
      /\ \A s \in Slots : Busy(s) => Job(s) # j
      /\ \A r \in Requests : req[r].pc \in StopPcs => req[r].job # j
  <2>1. ~(j >= nextId) BY DEF Settled, Terminal, Shape, Fresh
  <2>2. j \in Nat /\ nextId \in Nat BY BoundsAssumption DEF JobIds, Shape, TypeOK
  <2> QED BY <2>1, <2>2 DEF Settled, Holds, Job
<1>1. ASSUME NEW r \in Requests, Arrive(r) PROVE SettledKept(j)
  <2>1. PICK t \in Tenants, pc \in RequestPcs \ {"idle"}, i \in JobIds \cup {0} :
          Begin(r, pc, t, i) /\ (pc \in StopPcs => i # 0 /\ status[i] \in Active)
    BY <1>1, ArriveEffect
  <2>2. /\ req'[r].pc = pc /\ req'[r].job = i
        /\ \A z \in Requests : z # r => req'[z] = req[z]
    BY <2>1 DEF Begin, Shape, TypeOK
  <2>3. pc \in StopPcs => i # j BY <2>1, <1>0 DEF Active, Terminal
  <2> QED BY <1>1, <2>2, <2>3, ArriveEffect, SettledSuffices DEF table, Busy, Job
<1>2. ASSUME NEW r \in Requests, Handle(r) PROVE SettledKept(j)
  <2>1. status'[j] = "deleted" \/ (status'[j] = status[j] /\ pages'[j] = pages[j])
    BY <1>0, <1>2, HandleEffect DEF Same
  <2>2. \A z \in Requests : req'[z].pc \in StopPcs /\ req'[z].job = j
                               => req[z].pc \in StopPcs /\ req[z].job = j
    BY <1>2, HandleMoves DEF RequestMoved, NoRequest
  <2> QED BY <1>2, <2>1, <2>2, HandleEffect, SettledSuffices DEF SettledKept, Busy, Job
<1>3. ASSUME NEW r \in Requests, Abort(r) PROVE SettledKept(j)
  BY <1>3, AbortMoves, SettledSuffices DEF RequestMoved, NoRequest, table, Busy, Job
<1>4. ASSUME NEW s \in Slots, NEW i \in JobIds, ClaimPendingJob(s, i) PROVE SettledKept(j)
  <2>1. i # j BY <1>0, <1>4, ClaimMoves, ClaimRowEffect DEF Terminal
  <2>2. status'[j] = status[j] /\ pages'[j] = pages[j] /\ req' = req
    BY <1>4, <2>1, ClaimMoves, ClaimRowEffect DEF Shape, TypeOK
  <2> QED BY <1>4, <2>1, <2>2, ClaimMoves, SettledSuffices DEF Busy, Job
<1>5. ASSUME NEW s \in Slots, NEW i \in JobIds, ClaimLost(s, i) PROVE SettledKept(j)
  <2>1. ClaimRow(s, i) /\ task' = task BY <1>5 DEF ClaimLost
  <2>2. i # j BY <1>0, <2>1, ClaimRowEffect DEF Terminal
  <2>3. status'[j] = status[j] /\ pages'[j] = pages[j] /\ req' = req
    BY <2>1, <2>2, ClaimRowEffect DEF Shape, TypeOK
  <2> QED BY <2>1, <2>3, SettledSuffices DEF Busy, Job
<1>6. ASSUME NEW s \in Slots, Work(s) PROVE SettledKept(j)
  <2>1. j # Job(s) /\ req' = req BY <1>0, <1>6, WorkEffect
  <2>2. Same(j) BY <1>0, <1>6, <2>1, WorkEffect
  <2>3. \A z \in Slots : Busy(z)' /\ Job(z)' = j => Busy(z) /\ Job(z) = j
    BY <1>6, <2>1, WorkMoves DEF Busy, Job
  <2> QED BY <2>1, <2>2, <2>3, SettledSuffices DEF Same
<1>7. ASSUME NEW s \in Slots, Trouble(s) PROVE SettledKept(j)
  <2>1. \A z \in Slots : Busy(z)' /\ Job(z)' = j => Busy(z) /\ Job(z) = j
    BY <1>7, TroubleMoves DEF Busy, Job
  <2> QED BY <1>7, <2>1, TroubleEffect, SettledSuffices DEF table
<1>8. ASSUME NEW w \in Workers, WorkerStart(w) PROVE SettledKept(j)
  <2>1. status'[j] = status[j] BY <1>0, <1>8 DEF WorkerStart, Terminal
  <2> QED BY <1>8, <2>1, SettledSuffices DEF WorkerStart, Busy, Job
<1>9. ASSUME NEW w \in Workers, WorkerCrash(w) PROVE SettledKept(j)
  <2>1. \A s \in Slots : task'[s] = NoTask \/ task'[s] = task[s] BY <1>9 DEF WorkerCrash
  <2> QED BY <1>9, <2>1, SettledSuffices DEF WorkerCrash, table, Busy, NoTask, Job
<1>10. CASE UNCHANGED vars BY <1>10, SettledSuffices DEF vars, table, Busy, Job
<1> QED
  BY <1>1, <1>2, <1>3, <1>4, <1>5, <1>6, <1>7, <1>8, <1>9, <1>10 DEF Next, Claim

\* No step of another job, of a worker start or of a handler that saw the job
\* settled changes the status or the pages of a settled job.
THEOREM SettledJobsStay == Spec => SettledStays
<1>1. Shape /\ [Next]_vars
        => [\A j \in JobIds : Settled(j) =>
              \/ status'[j] = "deleted"
              \/ status'[j] = status[j] /\ pages'[j] = pages[j] /\ Settled(j)']_vars
  BY SettledStep DEF SettledKept
<1> QED BY <1>1, ShapeInvariant, PTL DEF Spec, SettledStays

----------------------------------------------------------------------------
(* Tenants do not reach each other's jobs.                                  *)

\* Steps that insert no row keep tenants apart.
LEMMA IsolationRoutine ==
  ASSUME Shape, TenantIsolation, row' = row, req' = req \/ \E r \in Requests : RequestMoved(r)
  PROVE  TenantIsolation'
BY DEF TenantIsolation, RequestMoved, NoRequest

\* So does an INSERT whose source belongs to the same tenant.
LEMMA IsolationCreate ==
  ASSUME Shape, TenantIsolation, NEW t \in Tenants \cup {"none"}, NEW k \in Kinds,
         NEW source \in 0..MaxJobs, CreateJob(t, k, source),
         source # 0 => source < nextId /\ row[source].owner = t,
         req' = req \/ \E r \in Requests : RequestMoved(r)
  PROVE  TenantIsolation'
<1>1. /\ nextId \in JobIds
      /\ row' = [row EXCEPT ![nextId] = [kind |-> k, owner |-> t, src |-> source]]
  BY CreateJobCreates DEF Created
<1>2. \A j \in JobIds : j < nextId => row'[j] = row[j] BY <1>1 DEF Shape, TypeOK
<1>3. \A j \in JobIds : row[j].src \in 0..MaxJobs /\ row[j].src < nextId
  BY DEF Shape, TypeOK, RowShape
<1>4. \A j \in 0..MaxJobs : j # 0 => j \in JobIds BY BoundsAssumption DEF JobIds
<1>5. \A j \in JobIds : row[j].src # 0 => row'[row[j].src] = row[row[j].src]
  BY <1>2, <1>3, <1>4
<1>6. \A r \in Requests : req[r].job # 0 => row'[req[r].job] = row[req[r].job]
  BY <1>2, <1>4 DEF Shape, TypeOK, RequestShape
<1>7. /\ row'[nextId].src = source /\ row'[nextId].owner = t
      /\ \A j \in JobIds : j # nextId => row'[j] = row[j]
      /\ source # 0 => row'[source] = row[source]
  BY <1>1, <1>2, <1>4 DEF Shape, TypeOK
<1>8. \A j \in JobIds : row'[j].src # 0 => row'[row'[j].src].owner = row'[j].owner
  BY <1>5, <1>7 DEF TenantIsolation
<1>9. \A r \in Requests : req'[r].job # 0 => row'[req'[r].job].owner = req'[r].owner
  BY <1>6 DEF TenantIsolation, RequestMoved, NoRequest
<1> QED BY <1>8, <1>9 DEF TenantIsolation

\* Every step keeps tenants apart.
LEMMA IsolationStep ==
  ASSUME Shape, TenantIsolation, [Next]_vars
  PROVE  TenantIsolation'
<1> USE DEF table
<1>1. ASSUME NEW r \in Requests, Arrive(r) PROVE TenantIsolation'
  <2>1. PICK t \in Tenants, pc \in RequestPcs \ {"idle"}, i \in JobIds \cup {0} :
          Begin(r, pc, t, i) /\ (i # 0 => GetJob(t, i))
    BY <1>1, ArriveEffect
  <2>2. /\ req'[r].owner = t /\ req'[r].job = i
        /\ \A z \in Requests : z # r => req'[z] = req[z]
    BY <2>1 DEF Begin, Shape, TypeOK
  <2> QED BY <1>1, <2>1, <2>2, ArriveEffect DEF TenantIsolation, GetJob
<1>2. ASSUME NEW r \in Requests, Handle(r) PROVE TenantIsolation'
  <2>1. RequestMoved(r) BY <1>2, HandleMoves
  <2>2. CASE Routine BY <2>1, <2>2, IsolationRoutine DEF Routine, RowsKept
  <2>3. CASE CreateCrawl(r)
    <3>1. req[r].owner \in Tenants \cup {"none"} /\ 0 \in 0..MaxJobs /\ "crawl" \in Kinds
      BY BoundsAssumption DEF Shape, TypeOK, Kinds
    <3> QED BY <2>1, <2>3, <3>1, IsolationCreate DEF CreateCrawl
  <2>4. CASE CreateIndex(r)
    <3>1. req[r].owner \in Tenants \cup {"none"} /\ req[r].job \in 0..MaxJobs /\ "index" \in Kinds
      BY DEF Shape, TypeOK, Kinds
    <3>2. req[r].job < nextId /\ (req[r].job # 0 => row[req[r].job].owner = req[r].owner)
      BY DEF Shape, RequestShape, TenantIsolation
    <3> QED BY <2>1, <2>4, <3>1, <3>2, IsolationCreate DEF CreateIndex
  <2> QED BY <1>2, <2>2, <2>3, <2>4, HandleRoutine
<1>3. ASSUME NEW r \in Requests, Abort(r) PROVE TenantIsolation'
  BY <1>3, AbortMoves, IsolationRoutine
<1>4. ASSUME NEW s \in Slots, NEW j \in JobIds, ClaimPendingJob(s, j) \/ ClaimLost(s, j)
      PROVE  TenantIsolation'
  <2>1. ClaimRow(s, j) BY <1>4 DEF ClaimPendingJob, ClaimLost
  <2> QED BY <2>1, ClaimRowEffect, IsolationRoutine
<1>5. ASSUME NEW s \in Slots, Work(s) PROVE TenantIsolation'
  <2>1. req' = req BY <1>5, WorkEffect
  <2>2. CASE Routine BY <2>1, <2>2, IsolationRoutine DEF Routine, RowsKept
  <2>3. CASE QueueIndex(s)
    <3>1. Job(s) \in JobIds /\ Job(s) < nextId BY <1>5, WorkEffect
    <3>2. row[Job(s)].owner \in Tenants \cup {"none"} BY <3>1 DEF Shape, TypeOK
    <3>3. Job(s) \in 0..MaxJobs /\ "index" \in Kinds BY <3>1, BoundsAssumption DEF JobIds, Kinds
    <3>4. CreateJob(row[Job(s)].owner, "index", Job(s)) BY <2>3 DEF QueueIndex
    <3> QED BY <2>1, <3>1, <3>2, <3>3, <3>4, IsolationCreate
  <2> QED BY <1>5, <2>2, <2>3, WorkRoutine
<1>6. ASSUME NEW s \in Slots, Trouble(s) PROVE TenantIsolation'
  BY <1>6, TroubleEffect, IsolationRoutine
<1>7. ASSUME NEW w \in Workers, WorkerStart(w) \/ WorkerCrash(w) PROVE TenantIsolation'
  BY <1>7, IsolationRoutine DEF WorkerStart, WorkerCrash
<1>8. CASE UNCHANGED vars BY <1>8, IsolationRoutine DEF vars
<1> QED BY <1>1, <1>2, <1>3, <1>4, <1>5, <1>6, <1>7, <1>8 DEF Next, Claim

\* Every handler works on its own tenant's job, every index job on its own
\* tenant's crawl.
THEOREM TenantsAreIsolated == Spec => []TenantIsolation
<1>1. Init => TenantIsolation
  BY DEF Init, NoRow, TenantIsolation, NoRequest
<1> QED BY <1>1, IsolationStep, ShapeInvariant, PTL DEF Spec

----------------------------------------------------------------------------
(* Only finished crawls reach the vector store.                             *)

FinishedKnown ==
  /\ \A j \in JobIds : status[j] = "completed" => j \in finished
  /\ \A j \in JobIds : j < nextId /\ row[j].kind = "index" => row[j].src \in finished
  /\ \A r \in Requests : req[r].pc \in {"index_check", "index_create"} => req[r].job \in finished
  /\ \A s \in Slots : At(s, "queue_index") => Job(s) \in finished
  /\ VectorsFromFinishedCrawl

\* What a run may add to the finished crawls and to the vectors.
LEMMA WorkFinishes ==
  ASSUME Shape, NEW s \in Slots, Work(s)
  PROVE  /\ finished \subseteq finished'
         /\ status'[Job(s)] = "completed" => status[Job(s)] = "completed" \/ Job(s) \in finished'
         /\ At(s, "queue_index")' => Job(s) \in finished' /\ Job(s)' = Job(s)
         /\ \A j \in JobIds : vectors'[j] = vectors[j] \/ (At(s, "flush") /\ j = Source(s))
<1> USE DEF stores, history
<1>0. Busy(s) /\ Job(s) \in JobIds /\ Job(s) < nextId BY WorkEffect
<1>1. Busy(s)' => Job(s)' = Job(s) BY WorkMoves
<1>2. \A pc : Step(s, pc) => task'[s].pc = pc BY DEF Step, Shape, TypeOK
<1>3. EndTask(s) => task'[s].pc = "idle" BY DEF EndTask, NoTask, Shape, TypeOK
<1>4. ASSUME WriteCompleted(s)
      PROVE  UNCHANGED vectors /\ finished' = finished \cup {Job(s)}
  BY <1>4 DEF WriteCompleted
<1>5. ASSUME CrawlProgress(s) \/ IndexProgress(s) \/ WriteFailed(s)
      PROVE  /\ UNCHANGED <<vectors, finished>>
             /\ status'[Job(s)] = "completed" => status[Job(s)] = "completed"
             /\ task'[s].pc # "queue_index"
  BY <1>0, <1>2, <1>3, <1>5
  DEF CrawlProgress, IndexProgress, WriteFailed, UpdateJobStatus, AfterProgress, Shape, TypeOK
<1>6. ASSUME QueueIndex(s) \/ QueueIndexFailed(s)
      PROVE  /\ UNCHANGED <<vectors, finished>> /\ status'[Job(s)] = status[Job(s)]
             /\ task'[s].pc # "queue_index"
  BY <1>0, <1>3, <1>6 DEF QueueIndex, QueueIndexFailed, CreateJob, table, Shape, TypeOK
<1>7. ASSUME CrawlCancelCheck(s) \/ CrawlDone(s) \/ IndexCancelCheck(s)
      PROVE  UNCHANGED <<status, vectors, finished>> /\ task'[s].pc # "queue_index"
  BY <1>2, <1>7 DEF CrawlCancelCheck, CrawlDone, IndexCancelCheck, table
<1>8. ASSUME InsertCrawlPage(s) \/ ReadBatch(s)
      PROVE  UNCHANGED <<status, vectors, finished>> /\ task'[s].pc # "queue_index"
  <2>1. AfterStore(task[s].n + 1) # "queue_index" BY DEF AfterStore, AfterProgress
  <2>2. InsertCrawlPage(s) => task'[s].pc = AfterStore(task[s].n + 1)
    BY DEF InsertCrawlPage, Shape, TypeOK
  <2>3. ReadBatch(s) => task'[s].pc \in {"flush", "complete"} BY DEF ReadBatch, Shape, TypeOK
  <2> QED BY <1>8, <2>1, <2>2, <2>3 DEF InsertCrawlPage, ReadBatch, table
<1>9. ASSUME Flush(s)
      PROVE  /\ UNCHANGED <<status, finished>> /\ task'[s].pc # "queue_index" /\ At(s, "flush")
             /\ \A j \in JobIds : j # Source(s) => vectors'[j] = vectors[j]
  BY <1>9 DEF Flush, AfterFlush, table, Shape, TypeOK
<1>10. At(s, "queue_index")' => Busy(s)' BY DEF At, Busy
<1> QED BY <1>1, <1>4, <1>5, <1>6, <1>7, <1>8, <1>9, <1>10 DEF Work, At

\* A row that is inserted is a crawl, or its source is a finished crawl.
LEMMA FinishedCreate ==
  ASSUME Shape, FinishedKnown, NEW t \in Tenants \cup {"none"}, NEW k \in Kinds,
         NEW source \in 0..MaxJobs, CreateJob(t, k, source), k = "index" => source \in finished
  PROVE  /\ \A j \in JobIds : j < nextId' /\ row'[j].kind = "index" => row'[j].src \in finished
         /\ \A j \in JobIds : status'[j] = "completed" => j \in finished
<1>1. Created(t, k, source) BY CreateJobCreates
<1>2. /\ row'[nextId].src = source /\ row'[nextId].kind = k /\ status'[nextId] = "pending"
      /\ \A j \in JobIds : j # nextId => row'[j] = row[j] /\ status'[j] = status[j]
  BY <1>1 DEF Created, Shape, TypeOK
<1>3. \A j \in JobIds : j < nextId' => j < nextId \/ j = nextId
  BY <1>1, BoundsAssumption DEF Created, JobIds
<1> QED BY <1>2, <1>3 DEF FinishedKnown

\* Every step keeps vectors, index rows and handlers on finished crawls.
LEMMA FinishedStep ==
  ASSUME Shape, FinishedKnown, [Next]_vars
  PROVE  FinishedKnown'
<1> USE DEF FinishedKnown, VectorsFromFinishedCrawl, history, stores
<1>1. ASSUME NEW r \in Requests, Arrive(r) PROVE FinishedKnown'
  <2>1. PICK t \in Tenants, pc \in RequestPcs \ {"idle"}, i \in JobIds \cup {0} :
          /\ Begin(r, pc, t, i)
          /\ pc \in {"index_check", "index_create"} => i # 0 /\ status[i] = "completed"
    BY <1>1, ArriveEffect
  <2>2. /\ req'[r].pc = pc /\ req'[r].job = i
        /\ \A z \in Requests : z # r => req'[z] = req[z]
    BY <2>1 DEF Begin, Shape, TypeOK
  <2>3. i # 0 => i \in JobIds BY <2>1
  <2> QED BY <1>1, <2>1, <2>2, <2>3, ArriveEffect DEF table, At, Job
<1>2. ASSUME NEW r \in Requests, Handle(r) PROVE FinishedKnown'
  <2>1. /\ finished' = finished /\ task' = task
        /\ \A j \in JobIds : vectors'[j] = vectors[j] \/ vectors'[j] = 0
        /\ \A j \in JobIds : status'[j] = "completed" => status[j] = "completed"
    BY <1>2, HandleEffect
  <2>2. \A z \in Requests : req'[z].pc \in {"index_check", "index_create"} => req'[z].job \in finished
    BY <1>2, HandleMoves DEF RequestMoved, NoRequest
  <2>3. \A j \in JobIds : j < nextId' /\ row'[j].kind = "index" => row'[j].src \in finished
    <3>1. CASE Routine BY <3>1 DEF Routine, RowsKept
    <3>2. CASE CreateCrawl(r)
      <4>1. req[r].owner \in Tenants \cup {"none"} /\ 0 \in 0..MaxJobs /\ "crawl" \in Kinds
        BY BoundsAssumption DEF Shape, TypeOK, Kinds
      <4> QED BY <3>2, <4>1, FinishedCreate DEF CreateCrawl
    <3>3. CASE CreateIndex(r)
      <4>1. req[r].owner \in Tenants \cup {"none"} /\ req[r].job \in 0..MaxJobs /\ "index" \in Kinds
        BY DEF Shape, TypeOK, Kinds
      <4>2. req[r].job \in finished BY <3>3 DEF CreateIndex
      <4> QED BY <3>3, <4>1, <4>2, FinishedCreate DEF CreateIndex
    <3> QED BY <1>2, <3>1, <3>2, <3>3, HandleRoutine
  <2>4. \A j \in JobIds : vectors'[j] > 0 => vectors[j] > 0 BY <2>1
  <2> QED BY <2>1, <2>2, <2>3, <2>4 DEF At, Job
<1>3. ASSUME NEW r \in Requests, Abort(r) PROVE FinishedKnown'
  BY <1>3, AbortMoves DEF RequestMoved, NoRequest, table, At, Job
<1>4. ASSUME NEW s \in Slots, NEW j \in JobIds, ClaimPendingJob(s, j) PROVE FinishedKnown'
  <2>1. \A i \in JobIds : status'[i] = "completed" => status[i] = "completed"
    BY <1>4, ClaimMoves, ClaimRowEffect DEF Shape, TypeOK
  <2> QED BY <1>4, <2>1, ClaimMoves, ClaimRowEffect DEF At, Job
<1>5. ASSUME NEW s \in Slots, NEW j \in JobIds, ClaimLost(s, j) PROVE FinishedKnown'
  <2>1. ClaimRow(s, j) /\ task' = task BY <1>5 DEF ClaimLost
  <2>2. \A i \in JobIds : status'[i] = "completed" => status[i] = "completed"
    BY <2>1, ClaimRowEffect DEF Shape, TypeOK
  <2> QED BY <2>1, <2>2, ClaimRowEffect DEF At, Job
<1>6. ASSUME NEW s \in Slots, Work(s) PROVE FinishedKnown'
  <2>1. finished \subseteq finished' /\ req' = req BY <1>6, WorkFinishes, WorkEffect
  <2>2. \A j \in JobIds : status'[j] = "completed" => j \in finished'
    BY <1>6, <2>1, WorkFinishes, WorkEffect
  <2>3. \A z \in Slots : At(z, "queue_index")' => Job(z)' \in finished'
    BY <1>6, <2>1, WorkFinishes, WorkMoves DEF At, Job
  <2>4. \A j \in JobIds : vectors'[j] > 0 => j \in finished'
    <3>1. ASSUME At(s, "flush") PROVE Source(s) \in finished
      <4>1. Busy(s) /\ KindOf[s] = "index" BY <3>1, IndexPoint DEF At, Busy
      <4>2. Job(s) \in JobIds /\ Job(s) < nextId /\ row[Job(s)].kind = "index"
        BY <4>1, BusyFacts DEF Shape, TaskShape, Job
      <4> QED BY <4>2 DEF Source
    <3> QED BY <1>6, <2>1, <3>1, WorkFinishes
  <2>5. \A j \in JobIds : j < nextId' /\ row'[j].kind = "index" => row'[j].src \in finished
    <3>1. CASE Routine BY <3>1 DEF Routine, RowsKept
    <3>2. CASE QueueIndex(s)
      <4>1. Job(s) \in JobIds /\ Job(s) \in finished BY <1>6, <3>2, WorkEffect DEF QueueIndex
      <4>2. row[Job(s)].owner \in Tenants \cup {"none"} BY <4>1 DEF Shape, TypeOK
      <4>3. Job(s) \in 0..MaxJobs /\ "index" \in Kinds BY <4>1, BoundsAssumption DEF JobIds, Kinds
      <4>4. CreateJob(row[Job(s)].owner, "index", Job(s)) BY <3>2 DEF QueueIndex
      <4> QED BY <4>1, <4>2, <4>3, <4>4, FinishedCreate
    <3> QED BY <1>6, <3>1, <3>2, WorkRoutine
  <2> QED BY <2>1, <2>2, <2>3, <2>4, <2>5
<1>7. ASSUME NEW s \in Slots, Trouble(s) PROVE FinishedKnown'
  <2>1. task'[s].pc # "queue_index" BY <1>7, TroubleEnds
  <2> QED BY <1>7, <2>1, TroubleEffect, TroubleMoves DEF table, At, Job
<1>8. ASSUME NEW w \in Workers, WorkerStart(w) PROVE FinishedKnown'
  BY <1>8 DEF WorkerStart, At, Job
<1>9. ASSUME NEW w \in Workers, WorkerCrash(w) PROVE FinishedKnown'
  <2>1. \A s \in Slots : task'[s] = NoTask \/ task'[s] = task[s] BY <1>9 DEF WorkerCrash
  <2> QED BY <1>9, <2>1 DEF WorkerCrash, table, At, NoTask, Job
<1>10. CASE UNCHANGED vars BY <1>10 DEF vars, table, At, Job
<1> QED
  BY <1>1, <1>2, <1>3, <1>4, <1>5, <1>6, <1>7, <1>8, <1>9, <1>10 DEF Next, Claim

\* No vector comes from a crawl that never reached its end.
THEOREM VectorsComeFromFinishedCrawls == Spec => []VectorsFromFinishedCrawl
<1>1. Init => FinishedKnown
  BY DEF Init, NoRow, FinishedKnown, VectorsFromFinishedCrawl, NoRequest, NoTask, At
<1>2. FinishedKnown => VectorsFromFinishedCrawl BY DEF FinishedKnown
<1> QED BY <1>1, <1>2, FinishedStep, ShapeInvariant, PTL DEF Spec

----------------------------------------------------------------------------
(* A deleted knowledge base feeds nothing.                                  *)

PagesGone ==
  \A j \in JobIds :
    /\ status[j] = "deleted" => pages[j] = 0
    /\ row[j].kind = "index" => pages[j] = 0
    /\ j >= nextId => pages[j] = 0

\* A run stores pages of its own crawl only, and loads no batch of missing pages.
LEMMA WorkPages ==
  ASSUME Shape, NEW s \in Slots, Work(s)
  PROVE  /\ \A j \in JobIds : pages'[j] # pages[j] => j = Job(s) /\ Exists(j) /\ row[j].kind = "crawl"
         /\ task'[s].batch <= task[s].batch \/ (At(s, "read") /\ pages[Source(s)] > task[s].n)
<1> USE DEF stores
<1>0. Busy(s) /\ Job(s) \in JobIds /\ task[s] \in TaskType BY WorkEffect, BusyFacts
<1>1. \A pc : Step(s, pc) => task'[s].batch = task[s].batch BY DEF Step, Shape, TypeOK
<1>2. EndTask(s) => task'[s].batch <= task[s].batch
  BY <1>0 DEF EndTask, NoTask, Shape, TypeOK, TaskType
<1>3. ASSUME InsertCrawlPage(s)
      PROVE  /\ \A j \in JobIds : pages'[j] # pages[j] => j = Job(s) /\ Exists(j) /\ row[j].kind = "crawl"
             /\ task'[s].batch <= task[s].batch
  <2>1. KindOf[s] = "crawl" BY <1>3, CrawlPoint DEF InsertCrawlPage, At
  <2>2. row[Job(s)].kind = "crawl" BY <1>0, <2>1 DEF Shape, TaskShape, Job
  <2>3. task'[s].batch = task[s].batch BY <1>3 DEF InsertCrawlPage, Shape, TypeOK
  <2>4. \A j \in JobIds : j # Job(s) => pages'[j] = pages[j] BY <1>3 DEF InsertCrawlPage, Shape, TypeOK
  <2> QED BY <1>0, <1>3, <2>2, <2>3, <2>4 DEF InsertCrawlPage, TaskType
<1>4. ASSUME ReadBatch(s)
      PROVE  /\ UNCHANGED pages
             /\ task'[s].batch <= task[s].batch \/ (At(s, "read") /\ pages[Source(s)] > task[s].n)
  <2>1. KindOf[s] = "index" BY <1>4, IndexPoint DEF ReadBatch, At
  <2>2. pages[Source(s)] \in Nat /\ task[s].n \in Nat /\ task[s].batch \in Nat
    BY <1>0, <2>1, BusyFacts DEF Shape, TypeOK, TaskType
  <2>3. CASE pages[Source(s)] - task[s].n > 0 BY <1>4, <2>2, <2>3 DEF ReadBatch
  <2>4. CASE ~(pages[Source(s)] - task[s].n > 0)
    <3>1. task'[s].batch = task[s].batch BY <1>4, <2>4 DEF ReadBatch, Shape, TypeOK
    <3> QED BY <1>4, <2>2, <3>1 DEF ReadBatch
  <2> QED BY <2>3, <2>4
<1>5. ASSUME Flush(s) PROVE UNCHANGED pages /\ task'[s].batch <= task[s].batch
  <2>1. task'[s].batch = 0 BY <1>5 DEF Flush, AfterFlush, Shape, TypeOK
  <2> QED BY <1>0, <1>5, <2>1 DEF Flush, TaskType
<1>6. ASSUME \/ CrawlProgress(s) \/ CrawlCancelCheck(s) \/ CrawlDone(s) \/ QueueIndex(s)
             \/ QueueIndexFailed(s) \/ IndexProgress(s) \/ IndexCancelCheck(s)
             \/ WriteCompleted(s) \/ WriteFailed(s)
      PROVE  UNCHANGED pages /\ task'[s].batch <= task[s].batch
  <2>1. UNCHANGED pages
    BY <1>6 DEF CrawlProgress, CrawlCancelCheck, CrawlDone, QueueIndex, QueueIndexFailed,
       IndexProgress, IndexCancelCheck, WriteCompleted, WriteFailed
  <2>2. EndTask(s) \/ \E pc : Step(s, pc)
    BY <1>6 DEF CrawlProgress, CrawlCancelCheck, CrawlDone, QueueIndex, QueueIndexFailed,
       IndexProgress, IndexCancelCheck, WriteCompleted, WriteFailed
  <2> QED BY <1>0, <1>1, <1>2, <2>1, <2>2 DEF TaskType
<1> QED BY <1>3, <1>4, <1>5, <1>6 DEF Work

\* Storing a page writes no status.
LEMMA PagesWriteAlone ==
  ASSUME Shape, NEW s \in Slots, Work(s), NEW j \in JobIds, pages'[j] # pages[j]
  PROVE  status'[j] = status[j]
<1>1. InsertCrawlPage(s)
  BY DEF Work, CrawlProgress, CrawlCancelCheck, CrawlDone, QueueIndex, QueueIndexFailed, ReadBatch,
     Flush, IndexProgress, IndexCancelCheck, WriteCompleted, WriteFailed, stores
<1> QED BY <1>1 DEF InsertCrawlPage, table

\* A run deletes no row.
LEMMA StatusWriteAlone ==
  ASSUME Shape, NEW s \in Slots, Work(s), NEW j \in JobIds, j < nextId, status'[j] = "deleted"
  PROVE  status[j] = "deleted"
<1>1. ASSUME QueueIndex(s) PROVE status'[j] = status[j]
  BY <1>1 DEF QueueIndex, CreateJob, Shape, TypeOK
<1>2. ASSUME CrawlProgress(s) \/ IndexProgress(s) \/ WriteCompleted(s) \/ WriteFailed(s)
      PROVE  \E i \in JobIds : UpdateJobStatus(i, "running") \/ UpdateJobStatus(i, "completed")
                                \/ UpdateJobStatus(i, "failed")
  BY <1>2, WorkEffect DEF CrawlProgress, IndexProgress, WriteCompleted, WriteFailed
<1>3. ASSUME CrawlProgress(s) \/ IndexProgress(s) \/ WriteCompleted(s) \/ WriteFailed(s)
      PROVE  status'[j] = "deleted" => status[j] = "deleted"
  BY <1>2, <1>3 DEF UpdateJobStatus, Shape, TypeOK
<1>4. ASSUME \/ InsertCrawlPage(s) \/ CrawlCancelCheck(s) \/ CrawlDone(s) \/ QueueIndexFailed(s)
             \/ ReadBatch(s) \/ Flush(s) \/ IndexCancelCheck(s)
      PROVE  status' = status
  BY <1>4 DEF InsertCrawlPage, CrawlCancelCheck, CrawlDone, QueueIndexFailed, ReadBatch, Flush,
     IndexCancelCheck, table
<1> QED BY <1>1, <1>3, <1>4 DEF Work

FeedsNothing(j) ==
  /\ pages'[j] = 0
  /\ \A s \in Slots : Busy(s) /\ Source(s) = j => task'[s].batch <= task[s].batch

\* Steps that write no page and delete no row keep deleted pages gone.
LEMMA PagesGoneSuffices ==
  ASSUME PagesGone, UNCHANGED <<row, pages>>, nextId' >= nextId, nextId \in Nat, nextId' \in Nat,
         \A j \in JobIds : status'[j] = "deleted" => status[j] = "deleted"
  PROVE  PagesGone'
BY BoundsAssumption DEF PagesGone, JobIds

\* Every step keeps deleted pages gone, and loads none of them.
LEMMA PagesGoneStep ==
  ASSUME Shape, PagesGone, [Next]_vars
  PROVE  PagesGone' /\ \A j \in JobIds : status[j] = "deleted" => FeedsNothing(j)
<1> USE DEF stores, table
<1>0. \A s \in Slots : task[s].batch \in Nat /\ task[s].n \in Nat BY DEF Shape, TypeOK, TaskType
<1>1. nextId \in Nat BY BoundsAssumption DEF Shape, TypeOK
<1>2. ASSUME UNCHANGED pages, \A s \in Slots : Busy(s) => task'[s].batch <= task[s].batch
      PROVE  \A j \in JobIds : status[j] = "deleted" => FeedsNothing(j)
  BY <1>2 DEF FeedsNothing, PagesGone
<1>3. ASSUME NEW r \in Requests, Arrive(r) \/ Abort(r)
      PROVE  PagesGone' /\ \A j \in JobIds : status[j] = "deleted" => FeedsNothing(j)
  <2>1. UNCHANGED <<table, stores, task>> BY <1>3, ArriveEffect, AbortMoves
  <2> QED BY <1>0, <1>1, <1>2, <2>1, PagesGoneSuffices
<1>4. ASSUME NEW r \in Requests, Handle(r)
      PROVE  PagesGone' /\ \A j \in JobIds : status[j] = "deleted" => FeedsNothing(j)
  <2>1. /\ task' = task /\ nextId' \in Nat /\ nextId' >= nextId
    <3>1. task' = task BY <1>4, HandleEffect
    <3>2. CASE Routine BY <1>1, <3>1, <3>2 DEF Routine, RowsKept
    <3>3. CASE CreateCrawl(r) \/ CreateIndex(r)
      BY <1>1, <3>1, <3>3 DEF CreateCrawl, CreateIndex, CreateJob
    <3> QED BY <1>4, <3>2, <3>3, HandleRoutine
  <2>2. ASSUME NEW j \in JobIds
        PROVE  /\ status'[j] = "deleted" => pages'[j] = 0
               /\ row'[j].kind = "index" => pages'[j] = 0
               /\ j >= nextId' => pages'[j] = 0
               /\ status[j] = "deleted" => pages'[j] = 0
    <3>1. pages'[j] = pages[j] \/ pages'[j] = 0 BY <1>4, HandleEffect
    <3>2. j \in Nat BY BoundsAssumption DEF JobIds
    <3>3. CASE j >= nextId BY <3>1, <3>3 DEF PagesGone
    <3>4. CASE j < nextId
      <4>1. row'[j] = row[j] /\ (status'[j] = "deleted" => Same(j) \/ pages'[j] = 0 \/ row[j].kind = "index")
        BY <1>4, <3>4, HandleEffect
      <4>2. ~(j >= nextId') BY <1>1, <2>1, <3>2, <3>4
      <4> QED BY <3>1, <4>1, <4>2 DEF PagesGone, Same
    <3> QED BY <1>1, <3>2, <3>3, <3>4
  <2> QED BY <1>0, <2>1, <2>2 DEF PagesGone, FeedsNothing
<1>5. ASSUME NEW s \in Slots, NEW j \in JobIds, ClaimPendingJob(s, j) \/ ClaimLost(s, j)
      PROVE  PagesGone' /\ \A i \in JobIds : status[i] = "deleted" => FeedsNothing(i)
  <2>1. ClaimRow(s, j) BY <1>5 DEF ClaimPendingJob, ClaimLost
  <2>2. \A i \in JobIds : status'[i] = "deleted" => status[i] = "deleted"
    BY <2>1, ClaimRowEffect DEF Shape, TypeOK
  <2>3. \A z \in Slots : Busy(z) => task'[z] = task[z]
    BY <1>5, <2>1, ClaimRowEffect, ClaimMoves DEF ClaimLost
  <2> QED BY <1>0, <1>1, <1>2, <2>1, <2>2, <2>3, ClaimRowEffect, PagesGoneSuffices
<1>6. ASSUME NEW s \in Slots, Work(s)
      PROVE  PagesGone' /\ \A j \in JobIds : status[j] = "deleted" => FeedsNothing(j)
  <2>1. nextId' \in Nat /\ nextId' >= nextId
    <3>1. CASE Routine BY <1>1, <3>1 DEF Routine, RowsKept
    <3>2. CASE QueueIndex(s) BY <1>1, <3>2 DEF QueueIndex, CreateJob
    <3> QED BY <1>6, <3>1, <3>2, WorkRoutine
  <2>2. ASSUME NEW j \in JobIds
        PROVE  /\ status'[j] = "deleted" => pages'[j] = 0
               /\ row'[j].kind = "index" => pages'[j] = 0
               /\ j >= nextId' => pages'[j] = 0
               /\ status[j] = "deleted" => pages'[j] = 0
    <3>1. j \in Nat BY BoundsAssumption DEF JobIds
    <3>2. CASE j >= nextId
      <4>1. pages'[j] = pages[j] BY <1>6, <3>2, WorkEffect
      <4> QED BY <3>2, <4>1 DEF PagesGone
    <3>3. CASE j < nextId
      <4>1. row'[j] = row[j] BY <1>6, <3>3, WorkEffect
      <4>2. pages'[j] # pages[j] => Exists(j) /\ row[j].kind = "crawl" BY <1>6, WorkPages
      <4>3. pages'[j] # pages[j] => status'[j] # "deleted"
        <5>1. ASSUME pages'[j] # pages[j] PROVE status'[j] = status[j]
          BY <1>6, <5>1, PagesWriteAlone
        <5> QED BY <4>2, <5>1 DEF Exists, Gone
      <4>4. status'[j] = "deleted" => status[j] = "deleted"
        BY <1>6, <3>3, StatusWriteAlone
      <4>5. ~(j >= nextId') BY <1>1, <2>1, <3>1, <3>3
      <4> QED BY <4>1, <4>2, <4>3, <4>4, <4>5 DEF PagesGone, Exists, Gone
    <3> QED BY <1>1, <3>1, <3>2, <3>3
  <2>3. \A j \in JobIds, z \in Slots :
           status[j] = "deleted" /\ Busy(z) /\ Source(z) = j => task'[z].batch <= task[z].batch
    BY <1>0, <1>6, WorkPages, WorkMoves DEF PagesGone
  <2> QED BY <2>2, <2>3 DEF PagesGone, FeedsNothing
<1>7. ASSUME NEW s \in Slots, Trouble(s)
      PROVE  PagesGone' /\ \A j \in JobIds : status[j] = "deleted" => FeedsNothing(j)
  <2>1. task'[s].batch <= task[s].batch BY <1>7, TroubleEnds
  <2> QED BY <1>0, <1>1, <1>2, <1>7, <2>1, TroubleEffect, TroubleMoves, PagesGoneSuffices
<1>8. ASSUME NEW w \in Workers, WorkerStart(w)
      PROVE  PagesGone' /\ \A j \in JobIds : status[j] = "deleted" => FeedsNothing(j)
  <2>1. \A j \in JobIds : status'[j] = "deleted" => status[j] = "deleted" BY <1>8 DEF WorkerStart
  <2> QED BY <1>0, <1>1, <1>2, <1>8, <2>1, PagesGoneSuffices DEF WorkerStart
<1>9. ASSUME NEW w \in Workers, WorkerCrash(w)
      PROVE  PagesGone' /\ \A j \in JobIds : status[j] = "deleted" => FeedsNothing(j)
  <2>1. \A s \in Slots : task'[s] = NoTask \/ task'[s] = task[s] BY <1>9 DEF WorkerCrash
  <2>2. \A s \in Slots : task'[s].batch <= task[s].batch BY <1>0, <2>1 DEF NoTask
  <2> QED BY <1>1, <1>2, <1>9, <2>2, PagesGoneSuffices DEF WorkerCrash
<1>10. CASE UNCHANGED vars
  BY <1>0, <1>1, <1>2, <1>10, PagesGoneSuffices DEF vars
<1> QED
  BY <1>3, <1>4, <1>5, <1>6, <1>7, <1>8, <1>9, <1>10 DEF Next, Claim

\* The pages of a deleted knowledge base stay gone, and no index run loads more.
THEOREM DeletedFeedsNothingHolds == Spec => DeletedFeedsNothing
<1>1. Init => PagesGone BY DEF Init, PagesGone
<1>2. Shape /\ PagesGone /\ [Next]_vars
        => [\A j \in JobIds : status[j] = "deleted" =>
              /\ pages'[j] = 0
              /\ \A s \in Slots : Busy(s) /\ Source(s) = j => task'[s].batch <= task[s].batch]_vars
  BY PagesGoneStep DEF FeedsNothing
<1>3. Shape /\ PagesGone /\ [Next]_vars => PagesGone' BY PagesGoneStep
<1> QED BY <1>1, <1>2, <1>3, ShapeInvariant, PTL DEF Spec, DeletedFeedsNothing

-----------------------------------------------------------------------------
(***************************************************************************)
(* KnowledgeBase implements JobQueue: the initial state is an initial state *)
(* of the queue, and every statement of a handler, every step of a run and  *)
(* every event of a worker process is a step of the queue or leaves it      *)
(* alone.                                                                   *)
(***************************************************************************)

\* What the queue knows of a row.
View(x) ==
  CASE x = "pending" -> "waiting"
    [] x = "running" -> "taken"
    [] x = "deleted" -> "removed"
    [] OTHER         -> x

\* Ids are given out in order.
Issued == \A j \in JobIds : j < nextId => status[j] # "none"

\* The inductive invariant of the refinement.
Ordered == Shape /\ Issued

\* The queue stands still.
Stutter == UNCHANGED <<QueueState, QueueRun>>

-----------------------------------------------------------------------------
(* The two mapped variables.                                                 *)

\* The state of the queue is the view of the status column.
LEMMA StateIs ==
  /\ QueueState = [j \in JobIds |-> View(status[j])]
  /\ QueueState' = [j \in JobIds |-> View(status'[j])]
BY DEF QueueState, View

\* The runs of the queue are the jobs of the busy slots.
LEMMA RunIs ==
  /\ QueueRun = [s \in Slots |-> IF Busy(s) THEN Job(s) ELSE 0]
  /\ QueueRun' = [s \in Slots |-> IF Busy(s)' THEN Job(s)' ELSE 0]
BY DEF QueueRun

\* The jobs of the queue are the rows of the table.
LEMMA SameJobs == Queue!Jobs = JobIds
BY DEF Queue!Jobs, JobIds

\* A row is in the table exactly when its job is in the queue.
LEMMA PresentIs == ASSUME Shape, NEW j \in JobIds PROVE Queue!Present(j) <=> Exists(j)
<1>1. status[j] \in Statuses BY DEF Shape, TypeOK
<1>2. QueueState[j] = View(status[j]) BY StateIs
<1> QED BY <1>1, <1>2 DEF Queue!Present, Exists, Gone, View, Statuses, Active, Terminal

\* A status that is written is seen.
LEMMA StateWritten ==
  ASSUME Shape, NEW j \in JobIds, NEW x, status' = [status EXCEPT ![j] = x]
  PROVE  QueueState' = [QueueState EXCEPT ![j] = View(x)]
<1>1. status \in [JobIds -> Statuses] BY DEF Shape, TypeOK
<1>2. \A i \in JobIds : status'[i] = IF i = j THEN x ELSE status[i] BY <1>1
<1> QED BY <1>2, StateIs

\* No status, no change of state.
LEMMA StateKept == status' = status => QueueState' = QueueState
BY StateIs

\* No task, no change of runs.
LEMMA RunsKept == task' = task => QueueRun' = QueueRun
BY DEF QueueRun, Busy, Job

\* A run that goes on is at the same job.
LEMMA RunKept ==
  ASSUME NEW s \in Slots, TaskMoved(s), Busy(s)'
  PROVE  QueueRun' = QueueRun
<1>1. task'[s] # NoTask BY DEF Busy, NoTask
<1>2. /\ Busy(s) /\ Job(s)' = Job(s)
      /\ \A z \in Slots : z # s => task'[z] = task[z]
  BY <1>1 DEF TaskMoved, Job
<1>3. \A z \in Slots : z # s => (Busy(z)' <=> Busy(z)) /\ Job(z)' = Job(z)
  BY <1>2 DEF Busy, Job
<1> QED BY <1>2, <1>3, RunIs

\* A run that ends leaves its place.
LEMMA RunLeft ==
  ASSUME NEW s \in Slots, TaskMoved(s), ~Busy(s)'
  PROVE  Queue!Leaves(s)
<1>1. \A z \in Slots : z # s => task'[z] = task[z] BY DEF TaskMoved
<1>2. \A z \in Slots : z # s => (Busy(z)' <=> Busy(z)) /\ Job(z)' = Job(z)
  BY <1>1 DEF Busy, Job
<1> QED BY <1>2, RunIs DEF Queue!Leaves

\* A busy slot is at a job, an idle one at none.
LEMMA RunOf ==
  ASSUME Shape, NEW s \in Slots
  PROVE  /\ Busy(s) => QueueRun[s] = Job(s) /\ QueueRun[s] # 0
         /\ ~Busy(s) => QueueRun[s] = 0
BY RunIs DEF Shape, TaskShape, Job

-----------------------------------------------------------------------------
(* The three writes.                                                         *)

\* An INSERT is a submission: the next id is the next job.
LEMMA CreateIsQueued ==
  ASSUME Ordered, NEW t, NEW k, NEW source, CreateJob(t, k, source)
  PROVE  nextId \in JobIds /\ Queue!Queued(nextId)
<1>1. nextId \in JobIds BY BoundsAssumption DEF CreateJob, JobIds, Ordered, Shape, TypeOK
<1>2. status[nextId] = "none"
  <2>1. nextId >= nextId BY <1>1 DEF JobIds
  <2> QED BY <1>1, <2>1 DEF Ordered, Shape, Fresh
<1>3. \A i \in JobIds : i < nextId => QueueState[i] # "none"
  BY StateIs DEF Ordered, Issued, View
<1>4. QueueState[nextId] = "none" BY <1>1, <1>2, StateIs DEF View
<1>5. QueueState' = [QueueState EXCEPT ![nextId] = "waiting"]
  BY <1>1, StateWritten DEF CreateJob, Ordered, View
<1> QED BY <1>1, <1>3, <1>4, <1>5, SameJobs DEF Queue!Queued

\* update_job_status by a run writes about the job the run was given.
LEMMA UpdateIsWrite ==
  ASSUME Shape, NEW s \in Slots, Busy(s), NEW x, UpdateJobStatus(Job(s), x)
  PROVE  Queue!Writes(s, View(x))
<1>1. Job(s) \in JobIds BY BusyFacts
<1>2. QueueRun[s] = Job(s) /\ QueueRun[s] # 0 BY RunOf
<1>3. CASE Exists(Job(s))
  <2>1. status' = [status EXCEPT ![Job(s)] = x] BY <1>3 DEF UpdateJobStatus
  <2>2. QueueState' = [QueueState EXCEPT ![Job(s)] = View(x)] BY <1>1, <2>1, StateWritten
  <2>3. Queue!Present(Job(s)) BY <1>1, <1>3, PresentIs
  <2> QED BY <1>2, <2>2, <2>3 DEF Queue!Writes
<1>4. CASE ~Exists(Job(s))
  <2>1. QueueState' = QueueState BY <1>4, StateKept DEF UpdateJobStatus
  <2>2. ~Queue!Present(Job(s)) BY <1>1, <1>4, PresentIs
  <2> QED BY <1>2, <2>1, <2>2 DEF Queue!Writes
<1> QED BY <1>3, <1>4

\* Rows that are deleted are removed.
LEMMA DeleteIsRemove ==
  ASSUME Shape, NEW S \in SUBSET JobIds, \A j \in S : Exists(j), task' = task,
         status' = [j \in JobIds |-> IF j \in S THEN "deleted" ELSE status[j]]
  PROVE  Queue!Next
<1>1. \A j \in S : Queue!Present(j) BY PresentIs
<1>2. \A j \in JobIds : View(status'[j]) = IF j \in S THEN "removed" ELSE View(status[j])
  BY DEF View
<1>3. QueueState' = [j \in JobIds |-> IF j \in S THEN "removed" ELSE QueueState[j]]
  BY <1>2, StateIs
<1>4. QueueRun' = QueueRun BY RunsKept
<1>5. Queue!Remove(S) BY <1>1, <1>3, <1>4, SameJobs DEF Queue!Remove
<1> QED BY <1>5, SameJobs DEF Queue!Next

-----------------------------------------------------------------------------
(* Every action.                                                             *)

\* Empty tables are an empty queue.
LEMMA InitIsInit == Init => Queue!Init
<1> SUFFICES ASSUME Init PROVE Queue!Init OBVIOUS
<1>1. QueueState = [j \in JobIds |-> "none"] BY StateIs DEF Init, View
<1>2. QueueRun = [s \in Slots |-> 0] BY RunIs DEF Init, Busy, NoTask
<1> QED BY <1>1, <1>2, SameJobs DEF Queue!Init

\* No handler moves a run; the rows it touches are submitted, withdrawn or removed.
LEMMA HandleIsStep ==
  ASSUME Ordered, NEW r \in Requests, Handle(r)
  PROVE  Queue!Next \/ Stutter
<1> USE DEF stores, workers, bounds, history
<1>0. Shape BY DEF Ordered
<1>1. ASSUME \/ CheckActiveCrawl(r) \/ CheckActiveIndex(r) \/ StopCrawlRequest(r)
             \/ StopIndexRequest(r) \/ DeleteRequest(r) \/ DeleteVectorsByCrawlJob(r)
      PROVE  Stutter
  <2>1. status' = status /\ task' = task
    BY <1>1 DEF CheckActiveCrawl, CheckActiveIndex, StopCrawlRequest, StopIndexRequest,
       DeleteRequest, DeleteVectorsByCrawlJob, RequestCancel, table
  <2> QED BY <2>1, StateKept, RunsKept DEF Stutter
<1>2. ASSUME CreateCrawl(r) \/ CreateIndex(r) PROVE Queue!Next
  <2>1. task' = task /\ \E k, source : CreateJob(req[r].owner, k, source)
    BY <1>2 DEF CreateCrawl, CreateIndex
  <2>2. nextId \in JobIds /\ Queue!Queued(nextId) BY <2>1, CreateIsQueued
  <2>3. Queue!Submit(nextId) BY <2>1, <2>2, RunsKept DEF Queue!Submit
  <2> QED BY <2>2, <2>3, SameJobs DEF Queue!Next
<1>3. ASSUME StopIndexFail(r) PROVE Queue!Next \/ Stutter
  <2> DEFINE j == req[r].job
  <2>1. j \in JobIds BY <1>0, <1>3, RequestFacts DEF StopIndexFail, Unborn
  <2>2. QueueRun' = QueueRun BY <1>3, RunsKept DEF StopIndexFail
  <2>3. CASE Exists(j)
    <3>1. status' = [status EXCEPT ![j] = "failed"] BY <1>3, <2>3 DEF StopIndexFail, UpdateJobStatus
    <3>2. QueueState' = [QueueState EXCEPT ![j] = "failed"]
      BY <1>0, <2>1, <3>1, StateWritten DEF View
    <3>3. Queue!Withdraw(j) BY <1>0, <2>1, <2>2, <2>3, <3>2, PresentIs DEF Queue!Withdraw
    <3> QED BY <2>1, <3>3, SameJobs DEF Queue!Next
  <2>4. CASE ~Exists(j)
    BY <1>3, <2>2, <2>4, StateKept DEF StopIndexFail, UpdateJobStatus, Stutter
  <2> QED BY <2>3, <2>4
<1>4. ASSUME DeleteIndexRows(r) PROVE Queue!Next
  <2> DEFINE S == {j \in JobIds : /\ Exists(j) /\ row[j].kind = "index"
                                  /\ row[j].owner = req[r].owner /\ row[j].src = req[r].job}
  <2>1. status' = [j \in JobIds |-> IF j \in S THEN "deleted" ELSE status[j]] /\ task' = task
    BY <1>4 DEF DeleteIndexRows
  <2>2. S \in SUBSET JobIds /\ \A j \in S : Exists(j) OBVIOUS
  <2> HIDE DEF S
  <2> QED BY <1>0, <2>1, <2>2, DeleteIsRemove
<1>5. ASSUME DeleteCrawlRow(r) PROVE Queue!Next \/ Stutter
  <2> DEFINE j == req[r].job
  <2>1. j \in JobIds BY <1>0, <1>5, RequestFacts DEF DeleteCrawlRow, Unborn
  <2>2. task' = task BY <1>5 DEF DeleteCrawlRow
  <2>3. CASE GetJob(req[r].owner, j) /\ row[j].kind = "crawl"
    <3>1. status' = [status EXCEPT ![j] = "deleted"] /\ Exists(j)
      BY <1>5, <2>3 DEF DeleteCrawlRow, GetJob
    <3>2. status' = [i \in JobIds |-> IF i \in {j} THEN "deleted" ELSE status[i]]
      BY <1>0, <2>1, <3>1 DEF Shape, TypeOK
    <3>3. {j} \in SUBSET JobIds /\ \A i \in {j} : Exists(i) BY <2>1, <3>1
    <3> QED BY <1>0, <2>2, <3>2, <3>3, DeleteIsRemove
  <2>4. CASE ~(GetJob(req[r].owner, j) /\ row[j].kind = "crawl")
    <3>1. status' = status BY <1>5, <2>4 DEF DeleteCrawlRow
    <3> QED BY <2>2, <3>1, StateKept, RunsKept DEF Stutter
  <2> QED BY <2>3, <2>4
<1> QED BY <1>1, <1>2, <1>3, <1>4, <1>5 DEF Handle

\* A claim takes a job that waits, for a slot that is free or for nobody.
LEMMA ClaimIsStep ==
  ASSUME Shape, NEW s \in Slots, NEW j \in JobIds, ClaimPendingJob(s, j) \/ ClaimLost(s, j)
  PROVE  Queue!Next
<1>1. ~Busy(s) /\ status[j] = "pending" /\ status' = [status EXCEPT ![j] = "running"]
  BY DEF ClaimPendingJob, ClaimLost, ClaimRow, Claimable, Waiting
<1>2. QueueState[j] = "waiting" BY <1>1, StateIs DEF View
<1>3. QueueState' = [QueueState EXCEPT ![j] = "taken"] BY <1>1, StateWritten DEF View
<1>4. CASE ClaimPendingJob(s, j)
  <2>1. /\ \A z \in Slots : z # s => task'[z] = task[z]
        /\ task'[s].job = j /\ task'[s].pc \in {"store", "read"}
    BY <1>4 DEF ClaimPendingJob, Shape, TypeOK
  <2>2. \A z \in Slots : z # s => (Busy(z)' <=> Busy(z)) /\ Job(z)' = Job(z)
    BY <2>1 DEF Busy, Job
  <2>3. Busy(s)' /\ Job(s)' = j BY <2>1 DEF Busy, Job
  <2>4. QueueRun' = [QueueRun EXCEPT ![s] = j] BY <2>2, <2>3, RunIs
  <2>5. Queue!Take(s, j) BY <1>1, <1>2, <1>3, <2>4, RunOf DEF Queue!Take
  <2> QED BY <2>5, SameJobs DEF Queue!Next
<1>5. CASE ClaimLost(s, j)
  <2>1. QueueRun' = QueueRun BY <1>5, RunsKept DEF ClaimLost
  <2>2. Queue!TakeInVain(j) BY <1>2, <1>3, <2>1 DEF Queue!TakeInVain
  <2> QED BY <2>2, SameJobs DEF Queue!Next
<1> QED BY <1>4, <1>5

\* Where the task of a slot is after its step.
LEMMA Points ==
  ASSUME Shape, NEW s \in Slots
  PROVE  /\ \A pc : pc # "idle" /\ Step(s, pc) => Busy(s)'
         /\ EndTask(s) => ~Busy(s)'
<1>1. task \in [Slots -> TaskType] BY DEF Shape, TypeOK
<1>2. ASSUME NEW pc, pc # "idle", Step(s, pc) PROVE Busy(s)'
  <2>1. task'[s] = [task[s] EXCEPT !.pc = pc] /\ task[s] \in TaskType BY <1>1, <1>2 DEF Step
  <2>2. task'[s].pc = pc BY <2>1 DEF TaskType
  <2> QED BY <1>2, <2>2 DEF Busy
<1>3. EndTask(s) => ~Busy(s)' BY <1>1 DEF EndTask, Busy, NoTask
<1> QED BY <1>2, <1>3

\* A step of a run reports, ends, gives up, or does not concern the queue.
LEMMA WorkIsStep ==
  ASSUME Ordered, NEW s \in Slots, Work(s)
  PROVE  Queue!Next \/ Stutter
<1> USE DEF stores, workers, bounds, history
<1>0. Shape /\ TaskMoved(s) BY WorkRoutine DEF Ordered
<1>1. ASSUME \/ InsertCrawlPage(s) \/ CrawlCancelCheck(s) \/ CrawlDone(s) \/ ReadBatch(s)
             \/ Flush(s) \/ IndexCancelCheck(s)
      PROVE  Stutter
  <2>1. status' = status
    BY <1>1 DEF InsertCrawlPage, CrawlCancelCheck, CrawlDone, ReadBatch, Flush, IndexCancelCheck, table
  <2>2. Busy(s)'
    <3>1. ASSUME InsertCrawlPage(s) PROVE Busy(s)'
      <4>1. task'[s].pc = AfterStore(task[s].n + 1) BY <1>0, <3>1 DEF InsertCrawlPage, Shape, TypeOK
      <4> QED BY <4>1 DEF Busy, AfterStore, AfterProgress
    <3>2. ASSUME CrawlCancelCheck(s) \/ CrawlDone(s) \/ IndexCancelCheck(s) PROVE Busy(s)'
      <4>1. Step(s, "stopped") \/ Step(s, "store") \/ Step(s, "complete") \/ Step(s, "read")
        BY <3>2 DEF CrawlCancelCheck, CrawlDone, IndexCancelCheck
      <4> QED BY <1>0, <4>1, Points
    <3>3. ASSUME ReadBatch(s) PROVE Busy(s)'
      <4>1. task'[s].pc \in {"flush", "complete"} BY <1>0, <3>3 DEF ReadBatch, Shape, TypeOK
      <4> QED BY <4>1 DEF Busy
    <3>4. ASSUME Flush(s) PROVE Busy(s)'
      <4>1. task'[s].pc \in {"report", "complete"} BY <1>0, <3>4 DEF Flush, AfterFlush, Shape, TypeOK
      <4> QED BY <4>1 DEF Busy
    <3> QED BY <1>1, <3>1, <3>2, <3>3, <3>4
  <2> QED BY <1>0, <2>1, <2>2, StateKept, RunKept DEF Stutter
<1>2. ASSUME CrawlProgress(s) \/ IndexProgress(s) PROVE Queue!Next
  <2>1. /\ UpdateJobStatus(Job(s), "running") /\ Busy(s)
        /\ Step(s, AfterProgress(task[s].n)) \/ Step(s, "check") \/ Step(s, "read")
    BY <1>2 DEF CrawlProgress, IndexProgress, At, Busy
  <2>2. Busy(s)' BY <1>0, <2>1, Points DEF AfterProgress
  <2>3. Queue!Writes(s, "taken") BY <1>0, <2>1, UpdateIsWrite DEF View
  <2>4. Queue!Report(s) BY <1>0, <2>2, <2>3, RunKept DEF Queue!Report
  <2> QED BY <2>4 DEF Queue!Next
<1>3. ASSUME WriteCompleted(s) PROVE Queue!Next
  <2>1. /\ UpdateJobStatus(Job(s), "completed") /\ Busy(s)
        /\ Step(s, "queue_index") \/ EndTask(s)
    BY <1>3 DEF WriteCompleted, At, Busy
  <2>2. Queue!Writes(s, "completed") BY <1>0, <2>1, UpdateIsWrite DEF View
  <2>3. QueueRun' = QueueRun \/ Queue!Leaves(s) BY <1>0, <2>1, Points, RunKept, RunLeft
  <2>4. Queue!End(s) BY <2>2, <2>3 DEF Queue!End, Queue!Ends
  <2> QED BY <2>4 DEF Queue!Next
<1>4. ASSUME WriteFailed(s) PROVE Queue!Next
  <2>1. UpdateJobStatus(Job(s), "failed") /\ Busy(s) /\ EndTask(s)
    BY <1>4 DEF WriteFailed, Busy
  <2>2. Queue!Writes(s, "failed") BY <1>0, <2>1, UpdateIsWrite DEF View
  <2>3. Queue!Leaves(s) BY <1>0, <2>1, Points, RunLeft
  <2>4. Queue!End(s) BY <2>2, <2>3 DEF Queue!End, Queue!Ends
  <2> QED BY <2>4 DEF Queue!Next
<1>5. ASSUME QueueIndex(s) PROVE Queue!Next
  <2>1. /\ CreateJob(row[Job(s)].owner, "index", Job(s)) /\ EndTask(s) /\ Busy(s)
    BY <1>5 DEF QueueIndex, At, Busy
  <2>2. nextId \in JobIds /\ Queue!Queued(nextId) BY <2>1, CreateIsQueued
  <2>3. Queue!Leaves(s) /\ QueueRun[s] # 0 BY <1>0, <2>1, Points, RunLeft, RunOf
  <2>4. Queue!Follow(s, nextId) BY <2>2, <2>3 DEF Queue!Follow
  <2> QED BY <2>2, <2>4, SameJobs DEF Queue!Next
<1>6. ASSUME QueueIndexFailed(s) PROVE Queue!Next
  <2>1. status' = status /\ EndTask(s) /\ Busy(s)
    BY <1>6 DEF QueueIndexFailed, At, Busy, table
  <2>2. Queue!GiveUp(s) BY <1>0, <2>1, Points, RunLeft, RunOf, StateKept DEF Queue!GiveUp
  <2> QED BY <2>2 DEF Queue!Next
<1> QED BY <1>1, <1>2, <1>3, <1>4, <1>5, <1>6 DEF Work

\* A failing run gives up its job without a word, or goes on.
LEMMA TroubleIsStep ==
  ASSUME Shape, NEW s \in Slots, Trouble(s)
  PROVE  Queue!Next \/ Stutter
<1>0. TaskMoved(s) BY TroubleRoutine
<1>1. status' = status
  BY DEF Trouble, CrawlStoreFailed, FlushFailed, WriteFailedLost, Fail, table
<1>2. ASSUME WriteFailedLost(s) PROVE Queue!Next
  <2>1. EndTask(s) /\ Busy(s) BY <1>2 DEF WriteFailedLost, At, Busy
  <2>2. Queue!GiveUp(s) BY <1>0, <1>1, <2>1, Points, RunLeft, RunOf, StateKept DEF Queue!GiveUp
  <2> QED BY <2>2 DEF Queue!Next
<1>3. ASSUME CrawlStoreFailed(s) \/ FlushFailed(s) \/ Fail(s) PROVE Stutter
  <2>1. ASSUME CrawlStoreFailed(s) \/ Fail(s) PROVE Busy(s)'
    <3>1. Step(s, "store") \/ Step(s, "fail") BY <2>1 DEF CrawlStoreFailed, Fail
    <3> QED BY <3>1, Points
  <2>2. ASSUME FlushFailed(s) PROVE Busy(s)'
    <3>1. task'[s].pc \in {"report", "complete"} BY <2>2 DEF FlushFailed, AfterFlush, Shape, TypeOK
    <3> QED BY <3>1 DEF Busy
  <2> QED BY <1>0, <1>1, <1>3, <2>1, <2>2, StateKept, RunKept DEF Stutter
<1> QED BY <1>2, <1>3 DEF Trouble

\* A start sends what was taken back; a crash empties the places of the worker.
LEMMA WorkerIsStep ==
  ASSUME Shape, NEW w \in Workers, WorkerStart(w) \/ WorkerCrash(w)
  PROVE  Queue!Next
<1>1. CASE WorkerStart(w)
  <2>1. /\ status' = [j \in JobIds |-> IF status[j] = "running" THEN "pending" ELSE status[j]]
        /\ task' = task
    BY <1>1 DEF WorkerStart
  <2>2. \A j \in JobIds : status[j] \in Statuses BY DEF Shape, TypeOK
  <2>3. \A j \in JobIds : View(status'[j]) = IF View(status[j]) = "taken" THEN "waiting" ELSE View(status[j])
    BY <2>1, <2>2 DEF View, Statuses, Active, Terminal, Gone
  <2>4. QueueState' = [j \in JobIds |-> IF QueueState[j] = "taken" THEN "waiting" ELSE QueueState[j]]
    BY <2>3, StateIs
  <2>5. Queue!Requeue BY <2>1, <2>4, RunsKept, SameJobs DEF Queue!Requeue
  <2> QED BY <2>5 DEF Queue!Next
<1>2. CASE WorkerCrash(w)
  <2> DEFINE R == {s \in Slots : WorkerOf[s] = w}
  <2>1. status' = status /\ task' = [s \in Slots |-> IF WorkerOf[s] = w THEN NoTask ELSE task[s]]
    BY <1>2 DEF WorkerCrash, table
  <2>2. \A s \in R : ~Busy(s)' BY <2>1 DEF Busy, NoTask
  <2>3. \A s \in Slots : s \notin R => (Busy(s)' <=> Busy(s)) /\ Job(s)' = Job(s)
    BY <2>1 DEF Busy, Job
  <2>4. QueueRun' = [s \in Slots |-> IF s \in R THEN 0 ELSE QueueRun[s]]
    BY <2>2, <2>3, RunIs
  <2>5. Queue!Crash(R) BY <2>1, <2>4, StateKept DEF Queue!Crash
  <2>6. R \in SUBSET Slots OBVIOUS
  <2> HIDE DEF R
  <2> QED BY <2>5, <2>6 DEF Queue!Next
<1> QED BY <1>1, <1>2

\* Every step of KnowledgeBase is a step of the queue or none.
LEMMA StepIsStep == Ordered /\ [Next]_vars => Queue!Next \/ Stutter
<1> SUFFICES ASSUME Ordered, [Next]_vars PROVE Queue!Next \/ Stutter OBVIOUS
<1>0. Shape BY DEF Ordered
<1>1. ASSUME NEW r \in Requests, Arrive(r) \/ Abort(r) PROVE Stutter
  <2>1. status' = status /\ task' = task
    BY <1>1 DEF Arrive, Abort, StartCrawl, StopCrawl, StartIndex, StopIndex, DeleteCrawl, Begin, table
  <2> QED BY <2>1, StateKept, RunsKept DEF Stutter
<1>2. ASSUME NEW r \in Requests, Handle(r) PROVE Queue!Next \/ Stutter BY <1>2, HandleIsStep
<1>3. ASSUME NEW s \in Slots, Claim(s) \/ \E j \in JobIds : ClaimLost(s, j) PROVE Queue!Next
  BY <1>0, <1>3, ClaimIsStep DEF Claim
<1>4. ASSUME NEW s \in Slots, Work(s) PROVE Queue!Next \/ Stutter BY <1>4, WorkIsStep
<1>5. ASSUME NEW s \in Slots, Trouble(s) PROVE Queue!Next \/ Stutter BY <1>0, <1>5, TroubleIsStep
<1>6. ASSUME NEW w \in Workers, WorkerStart(w) \/ WorkerCrash(w) PROVE Queue!Next
  BY <1>0, <1>6, WorkerIsStep
<1>7. CASE UNCHANGED vars
  <2>1. status' = status /\ task' = task BY <1>7 DEF vars, table
  <2> QED BY <2>1, StateKept, RunsKept DEF Stutter
<1> QED BY <1>1, <1>2, <1>3, <1>4, <1>5, <1>6, <1>7 DEF Next

\* Rows stay in the table, or what is left of them: no id is given out twice.
LEMMA IssuedStep == Ordered /\ [Next]_vars => Ordered'
<1> SUFFICES ASSUME Ordered, [Next]_vars PROVE Issued'
  BY ShapeStep DEF Ordered
<1>0. Shape /\ Issued BY DEF Ordered
<1>1. ASSUME RowsKept PROVE Issued' BY <1>0, <1>1 DEF RowsKept, Issued
<1>2. ASSUME NEW t, NEW k, NEW source, CreateJob(t, k, source) PROVE Issued'
  <2>1. nextId \in JobIds BY <1>2, BoundsAssumption DEF CreateJob, JobIds, Ordered, Shape, TypeOK
  <2>2. status' = [status EXCEPT ![nextId] = "pending"] /\ nextId' = nextId + 1
    BY <1>2 DEF CreateJob
  <2>3. \A j \in JobIds : status'[j] = IF j = nextId THEN "pending" ELSE status[j]
    BY <1>0, <2>1, <2>2 DEF Shape, TypeOK
  <2>4. \A j \in JobIds : j < nextId' => j = nextId \/ j < nextId
    BY <2>1, <2>2 DEF JobIds
  <2> QED BY <1>0, <2>3, <2>4 DEF Issued
<1>3. ASSUME UNCHANGED <<status, nextId>> PROVE Issued' BY <1>0, <1>3 DEF Issued
<1>4. ASSUME NEW r \in Requests, Arrive(r) \/ Abort(r) PROVE Issued'
  <2>1. UNCHANGED <<status, nextId>>
    BY <1>4 DEF Arrive, Abort, StartCrawl, StopCrawl, StartIndex, StopIndex, DeleteCrawl, Begin, table
  <2> QED BY <1>3, <2>1
<1>5. ASSUME NEW r \in Requests, Handle(r) PROVE Issued'
  BY <1>0, <1>1, <1>2, <1>5, HandleRoutine DEF Routine, CreateCrawl, CreateIndex
<1>6. ASSUME NEW s \in Slots, Work(s) PROVE Issued'
  BY <1>0, <1>1, <1>2, <1>6, WorkRoutine DEF Routine, QueueIndex
<1>7. ASSUME NEW s \in Slots, Trouble(s) PROVE Issued'
  BY <1>0, <1>1, <1>7, TroubleRoutine DEF Routine
<1>8. ASSUME NEW s \in Slots, Claim(s) \/ \E j \in JobIds : ClaimLost(s, j) PROVE Issued'
  <2>1. PICK j \in JobIds : ClaimRow(s, j) BY <1>8 DEF Claim, ClaimPendingJob, ClaimLost
  <2>2. status' = [status EXCEPT ![j] = "running"] /\ nextId' = nextId BY <2>1 DEF ClaimRow
  <2> QED BY <1>0, <2>2 DEF Issued, Shape, TypeOK
<1>9. ASSUME NEW w \in Workers, WorkerStart(w) PROVE Issued'
  BY <1>0, <1>9 DEF WorkerStart, Issued
<1>10. ASSUME NEW w \in Workers, WorkerCrash(w) PROVE Issued'
  BY <1>3, <1>10 DEF WorkerCrash, table
<1>11. CASE UNCHANGED vars BY <1>3, <1>11 DEF vars, table
<1> QED BY <1>4, <1>5, <1>6, <1>7, <1>8, <1>9, <1>10, <1>11 DEF Next

\* A table without rows has given out no id.
LEMMA InitOrdered == Init => Ordered
<1> SUFFICES ASSUME Init PROVE Ordered OBVIOUS
<1>1. \A j \in JobIds : ~(j < nextId) BY BoundsAssumption DEF Init, JobIds
<1> QED BY <1>1, InitShape DEF Ordered, Issued

-----------------------------------------------------------------------------
(* The theorem.                                                              *)

\* The jobs table keeps what JobQueue promises: a job is handed out only while
\* it waits, its end is written by the run it was given to or by a stop, only a
\* worker start sends it back, and a removed job is never written again.
THEOREM TableIsQueue == Spec => KeepsQueuePromise
<1>1. Ordered /\ [Next]_vars => [Queue!Next]_(Queue!vars)
  BY StepIsStep DEF Stutter, Queue!vars
<1> QED BY InitOrdered, IssuedStep, InitIsInit, <1>1, PTL DEF Spec, KeepsQueuePromise, Queue!Spec
=============================================================================
