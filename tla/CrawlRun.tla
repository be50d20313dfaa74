------------------------------ MODULE CrawlRun ------------------------------
(***************************************************************************)
(* One run of _run_crawl (services/crawl.py): up to Concurrency fetches in  *)
(* flight at once, the finished ones handled one after another while the    *)
(* others go on.  A URL stands for its canonical form; the site says which  *)
(* in-scope links each page carries, in document order.  The outcome of a   *)
(* fetch (a body, a page skipped, an exception) is decided when the loop    *)
(* takes its result: nothing looks at it before.                            *)
(***************************************************************************)
EXTENDS Integers, Sequences, FiniteSets, SequencesExt

CONSTANTS
  Urls,           \* canonical URLs in the scope of the crawl
  Seed,           \* seed_canonical
  Sites,          \* the sites the run may meet, each in [Urls -> Seq(Urls)]
  MaxPages,       \* max_pages
  MaxDepth,       \* max_depth
  Concurrency,    \* _CRAWL_CONCURRENCY
  ProgressEvery,  \* _PROGRESS_EVERY
  CancelEvery,    \* _CANCEL_CHECK_EVERY
  MaxSkips,       \* bound: fetches that bring no body
  MaxFaults       \* bound: statements and fetches that raise, time-outs

ASSUME CrawlAssumption ==
  /\ IsFiniteSet(Urls)
  /\ Seed \in Urls
  /\ Sites \subseteq [Urls -> Seq(Urls)]
  /\ MaxPages \in Nat \ {0}
  /\ MaxDepth \in Nat
  /\ Concurrency \in Nat \ {0}
  /\ ProgressEvery \in Nat \ {0}
  /\ CancelEvery \in Nat \ {0}
  /\ MaxSkips \in Nat
  /\ MaxFaults \in Nat

VARIABLES
  site,        \* the link structure of this run
  queue,       \* URLs to fetch, with the depth each was found at
  queued,      \* every URL ever put in queue
  visited,     \* every URL a fetch was started for
  pending,     \* fetches in flight
  done,        \* fetches that have returned and are not handled yet
  current,     \* the fetch being handled
  crawled,     \* pages_crawled
  failures,    \* pages_store_failed
  rows,        \* crawl_pages rows of the job
  pc,          \* the statement the loop is about to run
  cancel,      \* jobs.cancel_requested
  since,       \* history: pages stored since the flag was raised
  parsed,      \* history: fetches that brought a body
  skips,       \* fetches that brought no body so far, to bound them
  faults       \* faults so far, to bound them

frontier == <<queue, queued, visited>>
counters == <<crawled, failures, rows, since, parsed>>
bounds   == <<skips, faults>>
vars == <<site, frontier, pending, done, current, counters, pc, cancel, bounds>>

Ended == {"completed", "stopped", "failed"}
Skip  == skips < MaxSkips /\ skips' = skips + 1 /\ UNCHANGED faults
Fault == faults < MaxFaults /\ faults' = faults + 1 /\ UNCHANGED skips
Found(url, depth) == [url |-> url, depth |-> depth]

Init ==
  /\ site \in Sites
  /\ queue = <<Found(Seed, 0)>>
  /\ queued = {Seed}
  /\ visited = {}
  /\ pending = {}
  /\ done = {}
  /\ current = Found(Seed, 0)
  /\ crawled = 0 /\ failures = 0 /\ rows = 0
  /\ pc = "fill"
  /\ cancel = FALSE
  /\ since = 0
  /\ parsed = {}
  /\ skips = 0 /\ faults = 0

----------------------------------------------------------------------------
(* The main loop.                                                           *)

\* Variant: fetches in flight are not counted against max_pages.
MayFetchUncounted ==
  /\ queue # <<>>
  /\ crawled < MaxPages
  /\ Cardinality(pending) < Concurrency

\* Fill up to the concurrency limit, and never beyond what max_pages leaves.
MayFetch ==
  /\ queue # <<>>
  /\ crawled + Cardinality(pending) < MaxPages
  /\ Cardinality(pending) < Concurrency

\* One turn of the inner while: a URL fetched before is dropped.
StartFetch ==
  /\ pc = "fill" /\ MayFetch
  /\ queue' = Tail(queue)
  /\ IF Head(queue).url \in visited
       THEN UNCHANGED <<visited, pending>>
       ELSE /\ visited' = visited \cup {Head(queue).url}
            /\ pending' = pending \cup {Head(queue)}
  /\ UNCHANGED <<site, queued, done, current, counters, pc, cancel, bounds>>

\* asyncio.wait(FIRST_COMPLETED): some of the fetches have returned.
Wait(D) ==
  /\ pc = "fill" /\ ~MayFetch
  /\ D \subseteq pending /\ D # {}
  /\ pending' = pending \ D
  /\ done' = D
  /\ pc' = "handle"
  /\ UNCHANGED <<site, frontier, current, counters, cancel, bounds>>

\* The outer condition fails, or there is nothing to wait for.
Complete ==
  /\ pc = "fill" /\ ~MayFetch
  /\ pending = {} \/ crawled >= MaxPages
  /\ pc' = "completed"
  /\ UNCHANGED <<site, frontier, pending, done, current, counters, cancel, bounds>>

NextRound ==
  /\ pc = "handle" /\ done = {}
  /\ pc' = "fill"
  /\ UNCHANGED <<site, frontier, pending, done, current, counters, cancel, bounds>>

----------------------------------------------------------------------------
(* Handling a fetch that has returned.                                      *)

Take(t) ==
  /\ pc = "handle" /\ t \in done
  /\ done' = done \ {t}
  /\ current' = t

Noted == IF cancel THEN since + 1 ELSE since

AfterCount(n) ==
  IF n % ProgressEvery = 0 THEN "progress"
  ELSE IF n % CancelEvery = 0 THEN "check" ELSE "links"

PageStored(t) ==
  /\ Take(t)
  /\ rows' = rows + 1
  /\ crawled' = crawled + 1
  /\ since' = Noted
  /\ parsed' = parsed \cup {t}
  /\ pc' = AfterCount(crawled + 1)
  /\ UNCHANGED <<site, frontier, pending, failures, cancel, bounds>>

\* The INSERT raised, before or after its commit: the page is not counted.
PageStoreRaised(t) ==
  /\ Fault
  /\ Take(t)
  /\ \/ rows' = rows /\ since' = since
     \/ rows' = rows + 1 /\ since' = Noted
  /\ failures' = failures + 1
  /\ parsed' = parsed \cup {t}
  /\ pc' = "links"
  /\ UNCHANGED <<site, frontier, pending, crawled, cancel>>

\* A status other than 200, a time-out, another content type: no body, no links.
PageSkipped(t) ==
  /\ Skip
  /\ Take(t)
  /\ UNCHANGED <<site, frontier, pending, counters, pc, cancel>>

\* task.result() raises (a Retry-After that is a date, an error row that is
\* refused): the crawl fails and the other fetches are left to themselves.
FetchRaised(t) ==
  /\ Fault
  /\ Take(t)
  /\ pc' = "failed"
  /\ UNCHANGED <<site, frontier, pending, counters, cancel>>

ProgressWritten ==
  /\ pc = "progress"
  /\ pc' = IF crawled % CancelEvery = 0 THEN "check" ELSE "links"
  /\ UNCHANGED <<site, frontier, pending, done, current, counters, cancel, bounds>>

\* Variant: the flag ends the handling of this round and not the crawl.
CancelCheckedBreakOnly ==
  /\ pc = "check"
  /\ IF cancel THEN pc' = "fill" /\ pending' = {} /\ done' = {}
               ELSE pc' = "links" /\ UNCHANGED <<pending, done>>
  /\ UNCHANGED <<site, frontier, current, counters, cancel, bounds>>

\* The flag is seen: every other fetch is cancelled and the run ends.
CancelChecked ==
  /\ pc = "check"
  /\ IF cancel THEN pc' = "stopped" /\ pending' = {} /\ done' = {}
               ELSE pc' = "links" /\ UNCHANGED <<pending, done>>
  /\ UNCHANGED <<site, frontier, current, counters, cancel, bounds>>

\* The progress write or the flag's SELECT raised inside the same try.
ReportRaised ==
  /\ Fault
  /\ pc \in {"progress", "check"}
  /\ failures' = failures + 1
  /\ pc' = "links"
  /\ UNCHANGED <<site, frontier, pending, done, current, crawled, rows, since, parsed, cancel>>

\* Variant: links are followed from every depth.
NewLinksAnyDepth == site[current.url]

NewLinks == IF current.depth < MaxDepth THEN site[current.url] ELSE <<>>

\* A link is queued the first time it is met.
Enqueue(link, f) ==
  IF link \in f.queued THEN f
  ELSE [queue |-> Append(f.queue, Found(link, current.depth + 1)),
        queued |-> f.queued \cup {link}]

\* Variant: links are dropped once the pages in flight could fill max_pages.
LinksQueuedCountPending ==
  /\ pc = "links"
  /\ LET f == FoldLeft(LAMBDA g, link : Enqueue(link, g),
                       [queue |-> queue, queued |-> queued], NewLinks) IN
       IF crawled + Cardinality(pending) < MaxPages
         THEN queue' = f.queue /\ queued' = f.queued
         ELSE UNCHANGED <<queue, queued>>
  /\ pc' = "handle"
  /\ UNCHANGED <<site, visited, pending, done, current, counters, cancel, bounds>>

LinksQueued ==
  /\ pc = "links"
  /\ LET f == FoldLeft(LAMBDA g, link : Enqueue(link, g),
                       [queue |-> queue, queued |-> queued], NewLinks) IN
       IF crawled < MaxPages
         THEN queue' = f.queue /\ queued' = f.queued
         ELSE UNCHANGED <<queue, queued>>
  /\ pc' = "handle"
  /\ UNCHANGED <<site, visited, pending, done, current, counters, cancel, bounds>>

----------------------------------------------------------------------------
\* stop_crawl, at any moment.
RequestCancel ==
  /\ ~cancel /\ pc \notin Ended
  /\ cancel' = TRUE
  /\ UNCHANGED <<site, frontier, pending, done, current, counters, pc, bounds>>

\* wait_for gives up after _JOB_TIMEOUT, or an exception outside the inner try.
RunCutShort ==
  /\ Fault
  /\ pc \notin Ended
  /\ pc' = "failed"
  /\ UNCHANGED <<site, frontier, pending, done, current, counters, cancel>>

Next ==
  \/ StartFetch
  \/ \E D \in SUBSET pending : Wait(D)
  \/ Complete
  \/ NextRound
  \/ \E t \in done : PageStored(t) \/ PageStoreRaised(t) \/ PageSkipped(t) \/ FetchRaised(t)
  \/ ProgressWritten
  \/ CancelChecked
  \/ ReportRaised
  \/ LinksQueued
  \/ RequestCancel
  \/ RunCutShort

Spec == Init /\ [][Next]_vars

----------------------------------------------------------------------------
(* Properties.                                                              *)

Fetches == [url : Urls, depth : 0..MaxDepth]

\* The type of every variable.
TypeOK ==
  /\ site \in Sites
  /\ queue \in Seq(Fetches)
  /\ queued \subseteq Urls
  /\ visited \subseteq Urls
  /\ pending \subseteq Fetches
  /\ done \subseteq Fetches
  /\ current \in Fetches
  /\ crawled \in Nat
  /\ failures \in Nat
  /\ rows \in Nat
  /\ since \in Nat
  /\ parsed \subseteq Fetches
  /\ pc \in {"fill", "handle", "progress", "check", "links"} \cup Ended
  /\ cancel \in BOOLEAN
  /\ skips \in Nat
  /\ faults \in Nat

\* However many fetches finish together, a crawl stores no more than max_pages
\* pages, but for those whose INSERT committed and still raised.
WithinMaxPages == rows <= MaxPages + failures

\* A crawl that completes leaves no fetch behind that could still write for it.
NothingInFlight == pc = "completed" => pending = {} /\ done = {}

\* A raised flag is seen before CancelEvery more pages are stored, later only by
\* what statements that raised made the run skip.
StopIsTimely == since <= CancelEvery * (1 + failures)

\* "queue exhausted": a crawl that completes short of max_pages has fetched every
\* link of every page it got, up to max_depth; failed fetches do not close the
\* queue early.
ExhaustedMeansAll ==
  pc = "completed" /\ crawled < MaxPages =>
    \A t \in parsed : t.depth < MaxDepth => Range(site[t.url]) \subseteq visited

=============================================================================
