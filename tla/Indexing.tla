------------------------------ MODULE Indexing ------------------------------
(***************************************************************************)
(* One run of run_index_job over the pages of a crawl: pages are loaded in  *)
(* batches, cut into chunks, embedded in calls of bounded size that are     *)
(* halved when the API finds them too long, and upserted in one call; the   *)
(* counters of the progress record are kept beside.  KnowledgeBase has the  *)
(* same run as one actor among others and leaves all this out.              *)
(*                                                                         *)
(* An embedding is named by the text it was made from.  The API answers a   *)
(* call, finds it too long, or fails; the time-out of 120 seconds is one of *)
(* the failures.                                                            *)
(*                                                                         *)
(* Meanwhile other requests of the tenant make its collection as well and   *)
(* other processes write the job's row; the run may be cut short anywhere;  *)
(* and the tenant may be deleted: its collection is dropped first, and with *)
(* its row the pages and the job go.                                        *)
(***************************************************************************)
EXTENDS Chunker

CONSTANTS
  Corpora,     \* the pages a crawl may have stored: sequences of pages
  Disturbed,   \* bound: those whose run others come across, or that is cut short
  Sizes,       \* settings: <<chunk_size, chunk_overlap>>
  PageBatch,   \* _INDEX_PAGE_BATCH
  CancelEvery, \* _INDEX_CANCEL_EVERY
  MaxTexts,    \* _EMBED_MAX_TEXTS
  MaxTokens,   \* _EMBED_MAX_TOKENS
  MaxFailures  \* bound: calls that fail

\* The words of a page are numbered in reading order, so that a word that is lost,
\* repeated or moved shows.  Settings takes any integer for the two sizes: a chunk_size
\* below one and a negative chunk_overlap are outside this model.
ASSUME IndexingAssumption ==
  /\ Corpora \subseteq Seq(Seq(Seq(Seq(Nat))))
  /\ \A c \in Corpora : \A p \in DOMAIN c :
       AllWords(c[p]) = [i \in 1..Len(AllWords(c[p])) |-> i]
  /\ Disturbed \subseteq Corpora
  /\ \A s \in Sizes : s[1] \in Nat \ {0} /\ s[2] \in Nat
  /\ {PageBatch, CancelEvery, MaxTexts, MaxTokens} \subseteq Nat \ {0}
  /\ MaxFailures \in Nat

VARIABLES
  pages,      \* the rows of crawl_pages, in order
  settings,   \* <<chunk_size, chunk_overlap>> read at the start
  pc,         \* where the run stands
  idx,        \* pages handled
  batch,      \* pages of the flush that is going on
  texts,      \* its chunks, <<page, chunk>>, in order
  taken,      \* how many of them have been gathered into calls
  calls,      \* the calls to make: a call, or the halves of one
  embeddings, \* embeddings returned so far, in order
  vectorized, failed, chunks, \* counters of the progress record
  points,     \* what was upserted, in order: <<page, chunk, embedding>>
  status,     \* of the job, by whomever it was written; "gone" without its row
  collection, \* the tenant has a collection
  tenant,     \* how far its deletion is
  left,       \* history: points there were when its row went
  failures,   \* calls that failed so far, to bound them
  unsure      \* history: an upsert took effect and yet raised

counters == <<vectorized, failed, chunks>>
fixed    == <<pages, settings>>
others   == <<collection, tenant, left>>
work     == <<batch, texts, taken, calls, embeddings>>
vars     == <<fixed, pc, idx, work, counters, points, status, others, failures, unsure>>

Init ==
  /\ pages \in Corpora
  /\ settings \in Sizes
  /\ pc = "load"
  /\ idx = 0 /\ batch = 0
  /\ texts = <<>> /\ taken = 0 /\ calls = <<>> /\ embeddings = <<>>
  /\ vectorized = 0 /\ failed = 0 /\ chunks = 0
  /\ points = <<>>
  /\ status = "running"
  /\ collection = FALSE /\ tenant = "here" /\ left = 0
  /\ failures = 0
  /\ unsure = FALSE

-----------------------------------------------------------------------------
(* Texts are gathered into calls of at most MaxTexts texts and MaxTokens      *)
(* estimated tokens; a text that is longer by itself has a call of its own.  *)

\* _chunk_text of every page under every setting, in one table
Chunked ==
  [s \in Sizes |-> [page \in UNION {ToSet(c) : c \in Corpora} |->
                      ChunkText(page, s[1], s[2])]]

ChunksOf(p) == Chunked[settings][pages[p]]

\* int(words * _EMBED_TOKENS_PER_WORD), at least one
Estimate(text) == Max({1, (3 * Len(text[2])) \div 2})

Tokens(call) == FoldLeft(LAMBDA sum, text : sum + Estimate(text), 0, call)

\* Variant: the limits are looked at after the text was put in.
FitsLate(call) == Len(call) = 1 \/ Tokens(Front(call)) <= MaxTokens

\* Variant: a text above the limit has no call at all.
FitsStrict(call) == Len(call) <= MaxTexts /\ Tokens(call) <= MaxTokens

Fits(call) ==
  Len(call) = 1 \/ (Len(call) <= MaxTexts /\ Tokens(call) <= MaxTokens)

-----------------------------------------------------------------------------
(* The flush of a batch of pages.                                            *)

TextsOf(first, last) ==
  FlattenSeq([k \in 1..(last - first + 1) |->
    LET cs == ChunksOf(first + k - 1)
    IN [c \in DOMAIN cs |-> <<first + k - 1, cs[c]>>]])

WithText(first, last) == {p \in first..last : ChunksOf(p) # <<>>}

\* Variant: the pages are fetched at once, when the run begins.
RemainingAtStart == Len(pages) - idx

\* The rows of crawl_pages from OFFSET idx on; they go with the tenant.
Remaining == IF tenant = "gone" THEN 0 ELSE Len(pages) - idx

\* iter_crawl_pages fills a batch and _flush cuts it; pages without any text
\* count as vectorized, and a batch without any is done.
LoadBatch ==
  LET size == Min({PageBatch, Remaining})
      ts   == TextsOf(idx + 1, idx + size)
  IN /\ pc = "load" /\ size > 0
     /\ batch' = size
     /\ texts' = ts
     /\ UNCHANGED <<taken, calls, embeddings>>
     /\ vectorized' = vectorized + size - Cardinality(WithText(idx + 1, idx + size))
     /\ pc' = IF ts = <<>> THEN "flushed" ELSE "embed"
     /\ UNCHANGED <<fixed, idx, failed, chunks, points, status, others, failures, unsure>>

\* As many of the next texts as one call takes.
GatherBatch ==
  LET next(n) == SubSeq(texts, taken + 1, taken + n) IN
  /\ pc = "embed" /\ calls = <<>>
  /\ \E n \in 1..(Len(texts) - taken) :
       /\ Fits(next(n))
       /\ taken + n < Len(texts) => ~Fits(next(n + 1))
       /\ calls' = <<next(n)>>
       /\ taken' = taken + n
  /\ UNCHANGED <<fixed, pc, idx, batch, texts, embeddings, counters, points, status, others,
                 failures, unsure>>

\* get_embeddings answers: one vector for each text, in order.
EmbedBatch ==
  /\ pc = "embed" /\ calls # <<>>
  /\ embeddings' = embeddings \o Head(calls)
  /\ calls' = Tail(calls)
  /\ UNCHANGED <<fixed, pc, idx, batch, texts, taken, counters, points, status, others, failures, unsure>>

\* Variant: the second half goes first.
HalvesSwapped(call) ==
  LET mid == Len(call) \div 2
  IN <<SubSeq(call, mid + 1, Len(call)), SubSeq(call, 1, mid)>>

Halves(call) ==
  LET mid == Len(call) \div 2
  IN <<SubSeq(call, 1, mid), SubSeq(call, mid + 1, Len(call))>>

\* The API finds a call of several texts too long: both halves are tried.
SplitBatch ==
  /\ pc = "embed" /\ calls # <<>>
  /\ Len(Head(calls)) > 1
  /\ calls' = Halves(Head(calls)) \o Tail(calls)
  /\ UNCHANGED <<fixed, pc, idx, batch, texts, taken, embeddings, counters, points, status,
                 others, failures, unsure>>

\* What fails for good fails the flush: its pages with text count as failed, and
\* the run goes on.
FlushFails ==
  /\ failed' = failed + Cardinality(WithText(idx + 1, idx + batch))
  /\ pc' = "flushed"
  /\ UNCHANGED <<fixed, idx, work, vectorized, chunks, status, tenant, left>>

\* What a create_collection that raises, or that nobody waits for, may have done.
MayCreate == collection' \in {collection, collection \/ pc = "create"}

\* A call to the model, or to Qdrant, is not answered or raises.
CallFails ==
  /\ pc \in {"embed", "ensure", "create", "upsert"}
  /\ failures < MaxFailures
  /\ failures' = failures + 1
  /\ FlushFails
  /\ MayCreate
  /\ UNCHANGED <<points, unsure>>

Embedded ==
  /\ pc = "embed" /\ calls = <<>> /\ taken = Len(texts)
  /\ pc' = "ensure"
  /\ UNCHANGED <<fixed, idx, work, counters, points, status, others, failures, unsure>>

\* _ensure_collection looks whether the collection is there,
FindCollection ==
  /\ pc = "ensure"
  /\ pc' = IF collection THEN "upsert" ELSE "create"
  /\ UNCHANGED <<fixed, idx, work, counters, points, status, others, failures, unsure>>

\* and creates it, which raises if somebody else has done so since.
CreateCollection ==
  /\ pc = "create"
  /\ IF collection
     THEN FlushFails
     ELSE pc' = "upsert" /\ UNCHANGED <<fixed, idx, work, counters, status, tenant, left>>
  /\ collection' = TRUE
  /\ UNCHANGED <<points, failures, unsure>>

\* zip(flat_urls, flat_chunks, embeddings): the shortest decides.
Vectors ==
  [k \in 1..Min({Len(texts), Len(embeddings)}) |-> Append(texts[k], embeddings[k])]

\* Variant: pages without any text are counted again.
UpsertCountsAll ==
  /\ pc = "upsert" /\ collection
  /\ points' = points \o Vectors
  /\ chunks' = chunks + Len(Vectors)
  /\ vectorized' = vectorized + batch
  /\ pc' = "flushed"
  /\ UNCHANGED <<fixed, idx, work, failed, status, others, failures, unsure>>

Upsert ==
  /\ pc = "upsert" /\ collection
  /\ points' = points \o Vectors
  /\ chunks' = chunks + Len(Vectors)
  /\ vectorized' = vectorized + Cardinality(WithText(idx + 1, idx + batch))
  /\ pc' = "flushed"
  /\ UNCHANGED <<fixed, idx, work, failed, status, others, failures, unsure>>

\* The collection was dropped since it was looked for: the upsert raises.
UpsertNowhere ==
  /\ pc = "upsert" /\ ~collection
  /\ FlushFails
  /\ UNCHANGED <<collection, points, failures, unsure>>

\* The answer of an upsert that took effect is lost.
UpsertLost ==
  /\ pc = "upsert" /\ collection
  /\ failures < MaxFailures
  /\ failures' = failures + 1
  /\ FlushFails
  /\ points' = points \o Vectors
  /\ unsure' = TRUE
  /\ UNCHANGED collection

-----------------------------------------------------------------------------
(* Between two flushes, and the end.                                         *)

\* Only its last status is left for the run to write.
AtEnd == pc = "end" \/ (pc = "load" /\ Remaining = 0)

\* An UPDATE of the job's row finds none once the tenant is gone.
Report(outcome) == status' = IF tenant = "gone" THEN status ELSE outcome

\* A report that fails: the status at hand may have been written before it raised,
\* the "failed" that the except writes instead may be lost too, and with it the one
\* that _run_job writes.
ReportLost ==
  \/ UNCHANGED status
  \/ pc = "progress" /\ Report("running")
  \/ AtEnd /\ Report("completed")

Work0 == batch' = 0 /\ texts' = <<>> /\ taken' = 0 /\ calls' = <<>> /\ embeddings' = <<>>

\* idx moves; after a full batch the progress is written and, now and then, the
\* cancel flag is read, after the last, partial one neither is.
AfterFlush ==
  /\ pc = "flushed"
  /\ idx' = idx + batch
  /\ pc' = IF batch < PageBatch THEN "end" ELSE "progress"
  /\ Work0
  /\ UNCHANGED <<fixed, counters, points, status, others, failures, unsure>>

\* update_job_status(job_id, "running", ...), whatever others wrote since.
WriteProgress ==
  /\ pc = "progress"
  /\ pc' = IF idx % CancelEvery = 0 THEN "check" ELSE "load"
  /\ Report("running")
  /\ UNCHANGED <<fixed, idx, work, counters, points, others, failures, unsure>>

\* is_cancel_requested: the flag, which others set, is gone with the row.
CheckCancelled ==
  /\ pc = "check"
  /\ \/ pc' = "load" /\ UNCHANGED status
     \/ tenant # "gone" /\ pc' = "done" /\ Report("failed")
  /\ UNCHANGED <<fixed, idx, work, counters, points, others, failures, unsure>>

\* No further page: the job is completed whatever failed on the way.
Complete ==
  /\ AtEnd
  /\ pc' = "done"
  /\ Report("completed")
  /\ UNCHANGED <<fixed, idx, work, counters, points, others, failures, unsure>>

\* A statement of the loop raises: the run is over, the points stay and the job
\* fails, unless that cannot be written either.
RunFails ==
  /\ pc \in {"load", "progress", "check", "end"}
  /\ failures < MaxFailures
  /\ failures' = failures + 1
  /\ pc' = "done"
  /\ Report("failed") \/ ReportLost
  /\ UNCHANGED <<fixed, idx, work, counters, points, others, unsure>>

-----------------------------------------------------------------------------
(* What others do meanwhile.                                                 *)

Ended     == {"done", "interrupted"}
Meanwhile == pc \notin Ended /\ pages \in Disturbed

\* wait_for cancels the run after _JOB_TIMEOUT, which no except of it catches, or the
\* process dies: the statement at hand may still take effect, and what the run kept
\* in memory is gone.  Of the two only the time-out is reported, unless that is lost.
Interrupted ==
  /\ Meanwhile
  /\ failures < MaxFailures
  /\ failures' = failures + 1
  /\ pc' = "interrupted"
  /\ Work0
  /\ Report("failed") \/ ReportLost
  /\ MayCreate
  /\ \/ UNCHANGED <<points, unsure>>
     \/ pc = "upsert" /\ collection /\ points' = points \o Vectors /\ unsure' = TRUE
  /\ UNCHANGED <<fixed, idx, counters, tenant, left>>

\* stop_index writes "failed", a worker that starts resets a running job to "pending",
\* and the run that it then makes of the same job writes what it comes to.
OthersReport ==
  /\ Meanwhile /\ tenant # "gone"
  /\ status' \in {"pending", "running", "completed", "failed"} \ {status}
  /\ UNCHANGED <<fixed, pc, idx, work, counters, points, others, failures, unsure>>

\* Every search and every other upsert of the tenant ensures the collection too.
OthersCreate ==
  /\ Meanwhile /\ ~collection
  /\ collection' = TRUE
  /\ UNCHANGED <<fixed, pc, idx, work, counters, points, status, tenant, left, failures, unsure>>

\* delete_tenant drops the collection; when that raises, it goes on all the same.
DropCollection ==
  /\ Meanwhile /\ tenant = "here"
  /\ tenant' = "dropped"
  /\ \/ collection' = FALSE /\ points' = <<>>
     \/ UNCHANGED <<collection, points>>
  /\ UNCHANGED <<fixed, pc, idx, work, counters, status, left, failures, unsure>>

\* DELETE FROM tenants: the rows of its crawls, pages and jobs go with it.
DeleteTenant ==
  /\ Meanwhile /\ tenant = "dropped"
  /\ tenant' = "gone" /\ status' = "gone"
  /\ left' = Len(points)
  /\ UNCHANGED <<fixed, pc, idx, work, counters, points, collection, failures, unsure>>

\* What the run does by itself, when every call is answered.
Proceed ==
  \/ LoadBatch \/ GatherBatch \/ EmbedBatch \/ Embedded
  \/ FindCollection \/ CreateCollection \/ Upsert \/ UpsertNowhere
  \/ AfterFlush \/ WriteProgress \/ CheckCancelled \/ Complete

Next ==
  \/ Proceed \/ SplitBatch \/ CallFails \/ UpsertLost \/ RunFails \/ Interrupted
  \/ OthersReport \/ OthersCreate \/ DropCollection \/ DeleteTenant

\* The run is one coroutine, and no call lasts for ever: each is answered or
\* runs into its time-out.  No failure is ever needed to go on.
Spec == Init /\ [][Next]_vars /\ WF_vars(Proceed)

-----------------------------------------------------------------------------
(* Correctness.                                                              *)

\* The type of every variable; a job's row goes with its tenant and no report of a
\* run brings it back, and no call asks for more than the API takes: at most MaxTexts
\* texts, and more than MaxTokens estimated tokens only for a single text.
TypeOK ==
  /\ pc \in {"load", "embed", "ensure", "create", "upsert", "flushed", "progress", "check",
            "end"} \cup Ended
  /\ tenant \in {"here", "dropped", "gone"} /\ collection \in BOOLEAN
  /\ status \in {"pending", "running", "completed", "failed", "gone"}
  /\ tenant = "gone" <=> status = "gone"
  /\ idx + batch <= Len(pages)
  /\ left <= Len(points) /\ (~collection => points = <<>>)
  /\ \A k \in DOMAIN points : points[k][1] \in DOMAIN pages
  /\ {vectorized, failed, chunks} \subseteq Nat
  /\ \A k \in DOMAIN calls :
       Len(calls[k]) <= MaxTexts /\ (Len(calls[k]) > 1 => Tokens(calls[k]) <= MaxTokens)

\* No word of a page is lost and no chunk is out of order: the chunks of every
\* page are an overlapping cover of it, in reading order, whatever the lengths of
\* its paragraphs and sentences and however large the overlap.
ChunksCoverPages ==
  \A p \in DOMAIN pages :
    Covers(ChunksOf(p), Len(AllWords(pages[p])), settings[1], settings[2])

Flushing == {"embed", "ensure", "create", "upsert"}

\* A point carries the embedding of its own chunk, however its call was halved:
\* what is embedded, then what the calls still hold, is the texts gathered, in order.
VectorsMatchTexts ==
  /\ pc \in Flushing => embeddings \o FlattenSeq(calls) = SubSeq(texts, 1, taken)
  /\ \A k \in DOMAIN points : points[k][3] = <<points[k][1], points[k][2]>>

Pages(p) == {k \in DOMAIN points : points[k][1] = p}

\* No batch is in hand, and the run was not cut short.
BetweenBatches == pc \notin Flushing \cup {"flushed", "interrupted"}

\* The counters tell the truth: between two batches every page handled is counted
\* once, as vectorized or as failed, be it that a call failed, that somebody else was
\* the first to create the collection, or that it was dropped; and, of a tenant that
\* is not being deleted, chunks_created is the number of points, and when nothing
\* failed every page handled is in the collection, each chunk once.
CountersTellTheTruth ==
  /\ BetweenBatches => vectorized + failed = idx
  /\ ~unsure /\ tenant = "here" => chunks = Len(points)
  /\ BetweenBatches /\ failed = 0 /\ tenant = "here" =>
       \A p \in 1..idx : Cardinality(Pages(p)) = Len(ChunksOf(p))

\* A run outlives its tenant by one batch: what it still upserts when the tenant's
\* row is gone, into the collection or into one that it makes anew, are the pages
\* it had in hand, never any that it had still to fetch.
OneBatchOutlivesTenant ==
  tenant = "gone" =>
    \A j, k \in (left + 1)..Len(points) : points[k][1] - points[j][1] < PageBatch

\* Halving comes to an end and so does the gathering of calls: the coroutine of every
\* index run ends, by itself or because it is cut short.  What the job's row says then
\* is another matter: the last report may be lost.
RunEnds == <>(pc \in Ended)
=============================================================================
