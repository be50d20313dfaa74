# Answerer: specification, model checking and proofs

Answerer is a question-answering service for many tenants: a tenant's web site
is crawled, its pages are turned into vectors, and a widget answers questions
from them.  This directory holds TLA+ models of the parts of it that are hard
to test, the TLC configurations that check them on small instances, and TLAPS
proofs of their central properties for every instance.  Paths below are
relative to `src/`.

## 1. The system

| Part | State | Operations | Talks to |
|---|---|---|---|
| `answerer` API (`answerer/routers`, `services`) | Postgres: `tenants`, `settings`, `jobs`, `crawl_pages`, `curated_answers`, `guardrails`, `question_log`; Qdrant: one collection a tenant | start/stop/delete crawl, start/stop index, ask, curated answers, guardrails, settings, create/delete/suspend tenant, reports | Qdrant, Vertex AI |
| `worker` (`answerer/worker_main.py`) | the tasks it runs; heartbeat row | reset at start, claim, run with a time-out, settle | `jobs` table, Qdrant, the tenant's site |
| crawl run (`services/crawl.py`, `_run_crawl`) | queue, visited, fetches in flight, counters | fetch, store, follow links, report, stop | the site, `crawl_pages`, `jobs` |
| index run (`services/index.py`, `run_index_job`) | page offset, batch in hand, texts and calls, counters | read batch, chunk, embed, upsert, report, stop | `crawl_pages`, Vertex AI, Qdrant |
| reports (`services/analytics.py`, `recommendations.py`, `insights.py`, `gaplist.py`, `qlog.py`) | none; what a page has read so far | sections of a page, clusters, leafing | `question_log`, Vertex AI |
| `vendor_console` | `orders`, `tenant_quotas`, vendor users and refresh tokens | LemonSqueezy webhook, enterprise order, payment event, set quota, delete/suspend tenant, checkout | answerer, admin console |
| `admin_console` | `admin_users`, `refresh_tokens`, `quotas` | login/refresh/logout, create user, take a pushed quota, delete a tenant's data | vendor console |
| `widget_gateway` | time stamps per tenant, in memory of each instance | rate limit, proxy of questions | answerer |

All services are asyncio programs on Cloud Run with several instances
(README.md:74), deployed by overlapping revisions.  Almost nothing spans a
transaction: a handler is a sequence of separately committed statements and
HTTP calls with awaits between them, and between any two of them other
handlers, other instances, the worker and crashes happen.

What is hard here, and what must hold all the same:

* **jobs and worker**: claims race, a second worker process starts while the
  first still runs, time-outs fire between two writes, status writes fail.
  A job is run by one task at a time, never stranded, never revived once it is
  settled, and always settles in the end; together: the table is a queue.
* **knowledge base**: a delete or a stop arrives at any statement of a run.
  A deleted knowledge base is not read again; vectors come only from crawls
  that reached their end; no statement crosses tenants, although most of them
  name only a job id.
* **crawl run**: fetches return in any order.  The page limit, the stop and
  "queue exhausted" must mean what they say.
* **index run**: counters and vectors kept right over calls that are halved,
  fail, or take effect and fail, while others make the collection and the
  tenant goes away.
* **provisioning**: webhooks are repeated, also concurrently; one of two
  concurrent creations may fail.  One tenant an order, nothing half-made
  reported as done, no tenant back after its delete.
* **quota**: two consoles hold a copy each and are written one after the
  other.  They may differ only for a reason that is known.
* **tenant lifecycle, curated answers, guardrails**: two stores without a
  transaction, swallowed failures.
* **ask**: checks made before a long answer, log written by a task nobody
  waits for, disabled guardrails among the hits of one search.
* **sessions**: a refresh is three statements, and another refresh, a logout
  or the delete of the account comes in between.  A login has one token and an
  ended one does not come back.
* **rate limit**: the edges of the window, what counts, and what a replaced
  instance forgets.
* **reports**: a page is read piece by piece while the log grows.  Its pieces
  may not contradict each other, leafing may not skip, no average may divide
  by zero.

`PROJECT.json` lists every hazard at its line with the properties that cover
it, or the reason why none does.

## 2. How the project is laid out

| Module | Question | Proofs |
|---|---|---|
| `JobQueue` | abstract: what the jobs table promises | implemented by `KnowledgeBase`: `KnowledgeBaseProofs` |
| `KnowledgeBase` | jobs, workers, API handlers and both stores together | `KnowledgeBaseProofs` |
| `CrawlRun` | one crawl, with its fetches in flight | `CrawlRunProofs` |
| `Chunker`, `Indexing` | one index run: the cut of a page, calls that are halved, counters, the tenant's end | `IndexingProofs` |
| `Answers` | curated answers and guardrails in two stores, questions and their log, the tenant's end | `AnswersProofs` |
| `Provisioning` | orders, tenants, quotas over three services | `ProvisioningProofs` |
| `Sessions` | accounts and refresh tokens of the consoles | `SessionsProofs` |
| `Gateway` | sliding windows of several instances | `GatewayProofs` |
| `Reports` | pages drawn from a log that grows | `ReportsProofs` |

`KnowledgeBase` instantiates `JobQueue` with a refinement mapping; `Indexing`
extends `Chunker`.  The other modules stand alone and are joined by the
statements they share: `KnowledgeBase` has the writes of a crawl or index run
among all other actors, `CrawlRun` and `Indexing` look inside one run;
`Provisioning` has the delete of a tenant over three services, `Answers` and
`Indexing` what it does inside the answerer.

## 3. The modules

### JobQueue
What a user of `storage/jobs.py` relies on, without the statements that make
it so.  A job is `none`, `waiting`, `taken`, `completed`, `failed` or
`removed`; a runner has a job or not.  A job is taken only while it waits, its
end is written by the runner it was given to or by a withdrawal, only a
worker's start sends taken jobs back, ids are handed out in order, and what was
removed is never written again, although its runner may still be at it.
`KnowledgeBase!KeepsQueuePromise` maps `status` to `state` and the job of a
busy slot to `run`.  Two things the abstraction had to allow show what the
code does *not* promise: `Withdraw` acts on a job that is taken or has ended
(`stop_index`), and `TakeInVain` takes a job that no runner learns of (a claim
whose answer is lost, until the next start).

### KnowledgeBase
Models `storage/jobs.py`, `worker_main.py`, the start/stop/delete handlers of
`services/crawl.py` and `services/index.py`, the status writes of both kinds
of run, and the chunk vectors of `storage/qdrant.py`.

| Variable | Code |
|---|---|
| `status`, `cancel`, `row`, `nextId` | rows of `jobs`; `row` holds the columns no UPDATE touches |
| `pages`, `vectors` | number of `crawl_pages` rows of a crawl, number of page vectors whose payload names it |
| `up`, `starts` | worker processes |
| `task` | what each slot of a pool runs: statement, job, pages done, batch in hand |
| `req` | the statement each API handler runs next |
| `lost`, `finished` | history |

One action is one committed statement, one Qdrant call or one process event.
`update_job_status` is an UPDATE: it changes nothing when the row is gone, and
clears the stop flag with a terminal status.  `SKIP LOCKED` lets a claim pass
over a row that another worker's claim or a handler's statement may hold.
Every failure is a `Fault`: a swallowed Qdrant error, a status write that is
lost, an exception or a time-out at any point of a run, a handler that stops.
A crawl whose page budget is spent and one whose queue is empty are the same
here (`CrawlDone`); a fetched page is one `InsertCrawlPage`.

### CrawlRun
Models `_run_crawl`: the fill loop, `asyncio.wait(FIRST_COMPLETED)`, the
handling of each finished fetch in any order, counters, the progress write and
the flag's SELECT at their moduli, the enqueueing of links, and its endings.
A site is a function from pages to their links in document order; the retries
of one fetch and the HTML are abstracted to its outcome (a body, no body, an
exception).  `since` and `parsed` are history variables.

### Provisioning
Models the webhook, `provision_from_order` and `provision_enterprise` (the
order claim, the two concurrent creations of `asyncio.gather` and what remains
of one when the other raises), `handle_payment_event`, `set_quota`, and
`delete_tenant` over the three services.  Every handler is a record with the
call it makes next; a lost answer is a call that took effect and a handler
that then failed.  A creation whose caller gave up waiting (10 seconds) may
also be executed later: `HandlerFails` leaves it behind as `stray`, like the
creation that goes on when the other of the two raises.  Other calls that time
out took effect by then or never do.  `tenant_created_at` is left out;
`payments.py:48` passes a string where the column is a TIMESTAMPTZ, which the
driver may refuse, so `PaymentEvent` has more successful upserts than the code
may have, and the refused ones as handlers that fail.  `drawnFor`, `ever`, `fulfilled`, `deleting` and `doubt` are
history.

### Answers
Models `services/curated.py`, `services/guardrails.py`, both ask flows of
`services/ask.py`, suspend, reinstate and delete of `services/tenants.py`, and
the calls of `storage/postgres.py` and `storage/qdrant.py` they make.  One
tenant: rows and points carry its id, and its collection is its own.

| Variable | Code |
|---|---|
| `tenant`, `rows`, `log` | rows of `tenants`, of `curated_answers` and `guardrails`, of `question_log` |
| `collection`, `points` | the tenant's collection and the payloads of the points of each item |
| `task` | what each console request awaits next, with the row it read or was given |
| `ask`, `pending` | what each question does next; log tasks that were created and not run yet |
| `drawn`, `doubt`, `lost`, `clean` | ids drawn; history |

Every await on a store is an action.  It may raise before or after it took
effect (`CallFails`, `RaiseAfter`); a request that raises stops where it is,
except `drop_collection`, whose failures the delete swallows.  An item is in
doubt once two of its requests overlapped or one failed, and is settled by the
next request that finishes undisturbed.  A similarity above its threshold is
membership of a phrase in `Near[question]`.  The search of guardrails is over
all their points, near or not and enabled or not, since its `score_threshold`
is 0.0, and returns `TopK` of them: any, once there are more, because a point
below its own guardrail's threshold may score higher than one above another's.
A point of a guardrail has a fresh id, so overlapping or failed requests leave
copies, which take places of their own (`Added`); a third copy counts as the
second.  `AllFit` says that one search returns every point there is.
`delete_tenant` looks for no row, so a repeated delete runs in full, also for
a tenant that is gone (`BeginDeleteTenant`).

Left out: a guardrail created with no seed or with one seed twice; names,
responses and thresholds of guardrails, which are edited like the rest and not
told apart; an update of a curated answer that names no field
(`curated.py:76`), which writes the point of the row it read, as an update
that changes nothing does; prompts, chunks, scores.

### Chunker
`_chunk_text` as operators over sequences of words: paragraphs gathered up to
the chunk size, longer ones cut at sentences with an overlap carried over,
longer sentences cut into windows.  `Covers` is the reference definition: what
chunks of a page must be, without saying how they are cut.

### Indexing
Models `run_index_job`, its `_flush` and `_embed_texts`, over the pages of
`iter_crawl_pages`.  `texts`, `taken`, `calls` and `embeddings` are
`flat_chunks`, the position of the gathering loop, the stack of calls that
`_embed_batch` makes by recursion, and `results`; an embedding is named by the
text it was made of.  `SplitBatch` is the API finding a call too long,
`CallFails` and `UpsertLost` the exceptions of a flush (the time-out of 120
seconds is one), `RunFails` those of the loop.  `status` is the job's row as
anybody writes it: the last write of a run may raise after or without effect,
the `failed` that the except writes instead may be lost as well (`ReportLost`),
`wait_for` may cancel the run or its process die at any statement
(`Interrupted`), and `stop_index`, the reset at a worker's start and the run
that follows it write the row of a run that is still going (`OthersReport`).
Whose row it is in the end is `KnowledgeBase`'s subject.  `FindCollection`,
`CreateCollection` and `OthersCreate` are the two calls of
`_ensure_collection` here and in any other request of the tenant: the second
of two creations raises, and so does an upsert into a collection that was
dropped since (`UpsertNowhere`).  `DropCollection` and `DeleteTenant` are the
tenant's end: after it the pages and the row of the job are gone, the next
batch is empty, and status writes change nothing.  `models.py:41` takes any
integer for both sizes; a chunk size of at least one and an overlap that is
not negative are assumed.  At a size of zero no chunk is made and the pages
count as vectorized; with a negative overlap the windows of a long sentence
leave words out between them.
The cut of a page is a constant-level table (`Chunked`), computed once.

### Sessions
Models `services/auth.py` and `routers/auth.py` of the admin console with
their statements in `storage/postgres.py`, and the vendor console's, which are
the same for accounts that never go away.  `users` and `tokens` are
`admin_users` and `refresh_tokens`; `handler` is what a request keeps between
two awaits; `signedIn` are the addresses in access tokens, which outlive
everything.  A login is named by its first token (`login`), and `ended` are
those whose token a logout deleted.  `consume_refresh_token` is a DELETE ...
RETURNING, one action; the lookup of the account and the INSERT of the next
token follow as actions of their own.  UNIQUE addresses, the foreign key and
ON DELETE CASCADE are part of the statements.  Passwords are left out, since
they change no session.

### Gateway
Models `services/ratelimit.py` and both routes of `routers/ask.py`.  `window`
holds, for each instance and tenant, the requests whose stamps its deque has;
`ask` tells what became of each request.  `check_rate_limit` has no await, so
it is one action, with a guard for each outcome.  It is called before the
question is looked at, so an empty question that is answered 400 counts.
`Start` is a new process in the place of another, with empty windows.

### Reports
Models the statements of `services/analytics.py` (nine),
`services/recommendations.py` (two) and `query_question_log` (two for each
page), one action each, with rows logged and the tenant deleted between them,
and the clustering of `services/insights.py` and `services/gaplist.py`.  A row
has what the sections tell apart: source, words, time, tokens, scores,
question; the calendar is three constants.  Leafing is what
`static/index.html` of the admin console does: the next page is offered unless
`offset + Limit >= total`.  A row is named by its time, so no two rows have
the same time stamp: `postgres.py:850` orders by the stamp alone, and where two
rows share one that lies on the edge of a page, Postgres may give them in
another order for the next page and leafing may miss one.  That is outside the
model and outside `PagesMissOnlyLateRows`.  KMeans and the silhouette are external: a
clustering is any assignment that leaves no cluster empty that could have a
row, and the scores are any, except that they do not change beyond the number
of different questions.  Costs in money, labels, badges and wording are left
out.

## 4. Runs

| Run | Instance | Shows |
|---|---|---|
| `kb_overlap` | 2 tenants, 2 handlers, 2 workers, 2 jobs, 2 starts, 1 fault | `TypeOK`, `ClaimExclusive`, `TenantIsolation`, `VectorsFromFinishedCrawl`, `SettledStays`, and `KeepsQueuePromise`: the refinement |
| `kb_restart` | 1 tenant, 1 handler, 1 worker, 2 starts, 3 calls, 2 faults | `NoStrandedJob`, `DeletedFeedsNothing`, and `EveryJobSettles` under `FairSpec` |
| `kb_stop_index` (violation) | 1 worker, no fault | `stop_index` does not stop a live run |
| `kb_delete_vectors` (violation) | 1 worker, no fault | a delete leaves vectors of a batch in hand |
| `crawl_run` | 5 pages on 3 sites, limit 4, 2 fetches, 2 skips, 2 faults | `TypeOK`, `WithinMaxPages`, `NothingInFlight`, `StopIsTimely`, `ExhaustedMeansAll` |
| `indexing` | pages of up to 2 paragraphs of 3 sentences of 3 words and three short pages, 4 pairs of sizes, 1 failure; the tenant's end, a run that is cut short and writes of others for the pages of one or two chunks | `TypeOK`, `ChunksCoverPages`, `VectorsMatchTexts`, `CountersTellTheTruth`, `OneBatchOutlivesTenant`, and `RunEnds` |
| `answers` | 1 curated answer, 2 guardrails of two seeds, 2 console requests at a time and 4 in all, 1 question, 1 failure, a search of 4 points | `TypeOK`, `StoresAgree`, `CountedOnce`, `DeletedTenantLeavesNothing`, `AnswersFollowRows` |
| `answers_top_k` (violation) | guardrails of five seeds and of one, no failure | an enabled guardrail that matches does not answer |
| `provisioning` | 2 orders of one customer, 2 handlers, 4 calls, 1 fault | `TypeOK`, `OneTenantPerOrder`, `FulfilledIsComplete`, `DivergenceIsExplained`, `DeletedStaysAway` |
| `sessions` | 2 addresses, 2 tenants, 3 requests at once and 7 in all, 3 accounts, 4 tokens, 1 that breaks off | `TypeOK` (with one account an address and tokens of their own accounts), `OneTokenPerLogin`, `EndedLoginsStayEnded` |
| `gateway` | 2 instances, 3 processes, 2 tenants, limit 2, window of 2 ticks, 4 requests in 5 ticks | `TypeOK`, `WithinLimit`, `RefusedOnlyWhenFull` |
| `reports` | every log of rows of 3 kinds at 5 times on 3 days of two weeks, 1 row that arrives, 2 periods | `TypeOK`, `SectionsTellOneLog`, `PagesMissOnlyLateRows`, `NoEmptyCluster` |

**Bounds.** The bounds are in the guards and named among the CONSTANTS.  The
races above need two actors and one repetition each: two workers and two
starts give a start beside a live process; two handlers and two calls give an
overlap of any two requests; two jobs give a crawl and the index job it
queues.  One tenant suffices where a run is not about isolation.  With
`MaxPages = 2`, `CancelEvery = 2` and `BatchSize` 1 or 2 each modulus both
hits and misses.  In `crawl_run` every site has more pages than fetches, so
completions are reordered, and pages more than the limit, so the limit is met
with fetches in flight; `CancelEvery = 2` below the limit lets a stop be seen
and be missed.  In `provisioning` two handlers of one order give the duplicate
delivery, the enterprise order of the same customer the refused login, the
third and fourth call a delete and a redelivery.  In `answers`
four requests are a create of each of two items and two that overlap, or a
create, an edit, a failed request and the one that mends it, or a delete that
is repeated; one phrase is near the question and one is not.  `TopK = 4` is
what two guardrails of two seeds fill exactly, so the copies that an overlap
or a failure leaves go beyond it and the case in which a near seed is pushed
out occurs (without `AllFit` the run refutes `AnswersFollowRows`, as
`answers_top_k` does with the code's 5).  In `indexing` the pages reach every branch
of the cut (a sentence above the size, a paragraph above it, a paragraph that
does not fit beside the one before), and the sizes cover no overlap, some, and
one above the size; a batch of two pages, three texts and six tokens a call
make full and partial batches and both limits bite; four pages make the
tenant's end meet a batch before the last.  In `sessions` three requests are
two refreshes of one token and a logout, or a login, a delete and a creation
of the same address; seven calls are enough to create an account, sign in,
refresh, delete and create it again.  In `gateway` stamps lie at every
distance up to twice the window, both edges included, and one process is
replaced with its window full.  In `reports` five rows are more than two pages
of two and more than each LIMIT; two rows share an hour and one lies a week
later, so that heat map cells gather two slots; three questions are fewer than
rows, so that clusters are tried up to and beyond the number of different
questions.  Symmetry is
used over tenants, workers, handlers, guardrails, instances and requests, in
runs without liveness only (the refinement has no fairness).

**Deadlock** is not checked: every model stops when its bounds are used up or
its run has ended.

**Fairness** is assumed of `kb_restart` and `indexing`.  A pool polls every few seconds
for ever and asyncio runs every task that can run (weak fairness of a slot's
claim and of its work), and Cloud Run restarts an instance that is down (weak
fairness of `WorkerStart`).  Users, failures, time-outs and crashes owe
nothing.  The bound on crashes leaves a start for each process that is down.
`indexing` assumes weak fairness of the run itself, one coroutine whose calls
are answered or time out; halving and failures are never owed, and `RunEnds`
shows that halving cannot go on for ever.  It says that the coroutine ends, by
itself or cut short, and nothing of the row, whose last write may be lost:
that a job settles all the same is `EveryJobSettles`.

### What the failing runs show
* `services/index.py:231`: `stop_index` raises the flag, then writes `failed`,
  and that write clears the flag; the live run never sees it, writes `running`
  and completes.
* `services/crawl.py:92`: a delete raises the flag of the crawl only, so an
  index run upserts the batch it holds after the vectors were deleted.
* `services/ask.py:206`: the search for guardrails keeps the five nearest
  seeds and skips disabled guardrails afterwards, so a disabled guardrail with
  five seeds hides an enabled one.

### What was met on the way
Read in the code while modelling it, and stated by no property, because no
doc promises otherwise or because no order of events is involved:

* `services/crawl.py:273`: a link keeps the depth of the first fetch that
  returned with it; pages within `max_depth` are cut off when a longer path
  was faster, in what line 105 calls a concurrent BFS.
* `vendor_console/services/payments.py:48`, `quota.py:29`: upsert and push of
  two concurrent changes may take effect in different orders, and a push that
  fails is only logged, so the consoles differ until the next change.
  `DivergenceIsExplained` allows both as a doubt and would not catch them;
  specs/vendor-console.yaml:17 asks for a push on every change and is silent
  on their order and on a push that fails.
* `answerer/services/tenants.py:68`: a failed drop of the collection is
  swallowed and the vectors stay until the delete is repeated.
  `DeletedTenantLeavesNothing` is about a delete whose drop took effect, the
  repeated one included.
* Updates of one item that overlap may leave its row and its points apart, or
  the seeds of two edits together, until the next undisturbed request;
  `StoresAgree` and `AnswersFollowRows` excuse them as a doubt.
* `vendor_console/services/quota.py:40`: `set_quota` reads
  `tenant_created_at`, which `get_tenant_quota` does not select, so it raises
  where a row exists; `Provisioning!SetQuota` is guarded accordingly.
* `vendor_console/storage/postgres.py:52`: `create_tables` creates `orders`,
  then alters `ls_orders`, which raises wherever that table does not exist, and
  renames it only where `orders` does not, which was just created.
* `admin_console/services/auth.py:63`: logout finds the account by the address
  in the access token, so an old token also logs out an account that was
  deleted and created again (`Sessions!Logout`).
* A tenant that is deleted while an index run of it is upserting gets a new
  collection with the vectors of that batch, and of no other
  (`OneBatchOutlivesTenant`).
* The rate limit is one of each process: the fleet lets through as many times
  the limit as processes serve a tenant (`WithinLimit` is stated of one).

## 5. Proofs

TLAPS checks these for every value of the constants that meets the named
ASSUMEs (bounds are naturals, moduli and batch sizes positive, slots have a
worker and a kind, orders of the two sorts are disjoint, the seed is a page,
the log has finitely many rows).  `IndexingAssumption` also numbers the words
of a page in reading order.  That loses nothing: which words they are makes no
difference to the cut, only how many a section or a line has does, and a
word that is lost, repeated or out of place shows in the numbers.

Sums, folds and texts of any length need induction, and the induction theorems
of the library take a predicate as a parameter, which no installed prover can
instantiate.  Where a lemma is about all numbers, all positions of a sequence
or all subsets of a finite set, it is proved by the least counterexample
instead: `<` on the naturals and proper inclusion of subsets of a finite set
are well-founded (`NatLessThanWellFounded`,
`FS_StrictSubsetOrderingWellFounded`), so a set of counterexamples that is not
empty has a minimal element (`WFMin`), and the step leads from it to a smaller
one.

| Module | Theorem | Argument |
|---|---|---|
| `KnowledgeBaseProofs` | `TypeCorrect`, `ShapeInvariant` | `Shape` ties every task, handler and row to the job it names: rows from `nextId` on are untouched, a task's kind is that of its slot and of its row, sources are older crawls.  Types alone are not inductive enough for the rest. |
| | `ClaimsAreExclusive` | while a task holds a job in the current epoch its row is not `pending`; a worker start, which makes it so, begins a new epoch |
| | `NoJobIsStranded` | every action that leaves a row `running` leaves a holder, a dead worker or an entry in `lost` |
| | `SettledJobsStay` | an action property: claims need `pending`, writes need a holder, `stop_index` is excluded while in flight |
| | `TenantsAreIsolated` | the owner of a handler's job is fixed by `get_job` and columns no UPDATE touches |
| | `VectorsComeFromFinishedCrawls` | an index job's source is a crawl that was `completed` when it was queued, and `finished` only grows |
| | `DeletedFeedsNothingHolds` | an action property: the foreign key refuses pages once the row is gone |
| | `TableIsQueue` | the refinement: initial states map to initial states, and under `Ordered` (`Shape`, and every id below `nextId` was issued) each action of handlers, workers and trouble maps to a step of `JobQueue!Next` or a stutter; one lemma for each kind of statement (`CreateIsQueued`, `UpdateIsWrite`, `DeleteIsRemove`) and one for each kind of actor |
| `CrawlRunProofs` | `CrawlStaysWithinMaxPages` | `crawled + in flight + waiting to be handled <= MaxPages` (cardinalities of finite sets) and `rows <= crawled + failures` |
| | `CompletedCrawlIsQuiet` | from the same bound: at `MaxPages` nothing can be in flight |
| | `StopsAreTimely` | `since` is bounded by the pages since the last multiple of `CancelEvery`; each failure skips at most one check (uniqueness of division) |
| | `TypeCorrect`, `ExhaustedCrawlsFetchAll` | `Coverage`: what was ever queued waits or has been fetched, every link of a page that came within the depth is queued unless `max_pages` was reached, and a run that completes below that limit has an empty queue |
| `IndexingProofs` | `TypeCorrect` | `Run` (the types, and what the run has in hand at each step), `JobRow` (the row goes with the tenant and no UPDATE brings it back), `Kept` (points are in a collection and of pages of the crawl) and `CallsBounded` (halving never makes a call that is larger than the API takes) |
| | `ChunksCoverAllPages` | a cut is a chain of stretches of the numbered words: each begins no later than one after the end of the last and ends further on; sections, lines and windows of words each keep that, from the pieces to the whole |
| | `OneBatchAtMost` | `Late`: nothing is stored between the tenant's end and the next upsert, and what that one stores is of at most `PageBatch` pages in a row; the run ends at the check that follows |
| | `VectorsMatch` | `Ordered`: the embeddings answered so far, followed by the texts of the calls still owed, are the texts taken so far, in order, however the halving went |
| | `CountersTrue` | `Counted`: at each step of a batch the pages counted as vectorized or failed, with those of it still to be counted, are the pages handled; `StoredAll`: unless a write's outcome is not known `chunks_created` is the number of points, and if nothing failed the points are the chunks of the pages handled, each once |
| `ReportsProofs` | `TypeCorrect` | `Typed` |
| | `LeafingMissesOnlyLateRows` | `Leafed`: of the rows of the beginning those not shown yet lie behind the next page, save the late ones; a row's rank among those of the period is one to one with `0..n-1`, so a page is a stretch of ranks and an arrival moves a rank by one at most |
| | `PagesTellOneLog` | `SectionsSoFar`: each number a section gave lies between that of the rows there at the beginning and that of the rows there now, which an arrival only raises, so the next section's is no smaller; the slots, the series and the scores of the section just read are kept against the log until the section they are compared with is read.  What a section says comes from lemmas about sums: groups by any key have as many rows as there are, days have the tokens of the period, the buckets every score that is not negative, the slowest rows the longest time |
| | `ClustersHaveRows` | the score is the same from the number of different questions on and the first best number is taken, so it is at most that number, and `KMeans` leaves no cluster empty that could have a row |
| `ProvisioningProofs` | `TypeCorrect` | `Pursuit`, which holds `Matching`, the ranges of the copies the three services keep, and what each handler has done so far |
| | `OrdersAreProvisionedOnce` | `Matching`: order rows and tenant ids drawn belong together one to one, and a creating handler carries the pair |
| | `DeletedTenantsStayAway` | an action property over `Matching`: a new claim draws an id above every deleted one |
| | `FulfilledOrdersAreComplete` | `Pursuit`: what a handler has done so far for its tenant (drawn the id, created one copy, both) still stands unless somebody deletes the tenant; every step keeps the copies of tenants nobody deletes and moves a handler on only past a call that took effect |
| | `DivergenceHasAReason` | `Accounted`: two copies of a tenant's quota differ only while the tenant is in doubt or exactly one handler is half-way through writing both; a second handler, a failed call or a crash half-way puts it in doubt |
| `AnswersProofs` | `QuestionsAreCountedOnce` | `Counting`: a log task that is pending belongs to a question answered and not logged, and a dropped entry is never written; the console touches the log only by deleting it, which is told in `lost` |
| | `PeacefulDeleteLeavesNothing` | `Deleting`: while a delete of the tenant is alone no request has an item and no question is on its way, so each of its steps still holds at the next; afterwards only the insert of a curated answer can run, and it is refused |
| | `TypeCorrect` | `Typed`: each request carries rows and fields of its item's kind, and the row of an item is there only once its id is drawn |
| | `RowsAndPointsAgree` | `Agreeing`: requests that meet on an item leave it in doubt and are not alone, and what a request that nothing has spoilt did so far for its item still holds at each of its steps (`OnCourse`), so its last call makes points and row agree |
| | `AnswersComeFromRows` | from `Agreeing` alone, for any `TopK`: a point that answers is one of its guardrail's row (`GuardrailChecked`).  That a guardrail in force answers is stated of the states in which `AllFit`; of the others the run `answers_top_k` refutes it |
| `SessionsProofs` | `TypeCorrect`, `LoginHasOneToken`, `LogoutEndsLogins` | one invariant of all three with `Numbered` (a token descends from an older one) and `Knows` (a request that refreshes acts for the account that owns its login): a login is in one row, or with one request, or nowhere, so a logout that finds it in a row finds all of it |
| `GatewayProofs` | `TypeCorrect`, `LimitHolds`, `RefusalsAreJust` | `Covers`: the window of a serving process still has every request it let in during the last sixty seconds, so what it counts is what `LastMinute` counts, and a request that is let in adds one to sixty seconds that had less than the limit (cardinalities of finite sets) |

Each module with a state machine is extended by an MC module that TLC runs, so
TLC evaluates the ASSUMEs as well.

**Model-checked only**: `EveryJobSettles` and `RunEnds`, which are liveness
and out of reach of the prover.  Every invariant and every action property that
a passing run checks is also a theorem, and so is the refinement.

## 6. Not modelled

* Settings, prompt and demo questions: one-statement upserts.
* Costs and usage: one statement and its arithmetic in floating point.
* Checkout and the gateway's proxy keep no state.
* Heartbeats and health are about wall-clock time: both pools of a worker
  write one heartbeat, so one that hangs is masked by the other.
* The vendor schema's migration: statements in a row without another actor.
* Passwords, their reset, and impersonation, which write no session.
* Browser code, except leafing through the question log, shares no state.
* HTML, prompts, wording and logging are never a property's subject.
