--------------------------- MODULE CrawlRunProofs ---------------------------
(***************************************************************************)
(* For every site, every max_pages and every number of parallel fetches: a  *)
(* crawl stays within max_pages, completes with no fetch in flight, sees a  *)
(* stop in time, and when it runs out of links has followed them all.       *)
(***************************************************************************)
EXTENDS CrawlRun, FiniteSetTheorems, WellFoundedInduction, TLAPS

\* The budget of a crawl: the pages counted, in flight and waiting to be handled
\* never exceed max_pages together; only statements that raised add rows to them.
Budget ==
  /\ crawled \in Nat /\ failures \in Nat /\ rows \in Nat
  /\ IsFiniteSet(pending) /\ IsFiniteSet(done)
  /\ crawled + Cardinality(pending) + Cardinality(done) <= MaxPages
  /\ rows <= crawled + failures
  /\ crawled <= MaxPages
  /\ pc = "fill" => done = {}
  /\ pc = "completed" => pending = {} /\ done = {}

\* An empty crawl keeps its budget.
LEMMA InitBudget == Init => Budget
BY CrawlAssumption, FS_EmptySet DEF Init, Budget

\* Starting a fetch takes one page of what is left.
LEMMA StartFetchBudget ==
  ASSUME Budget, StartFetch
  PROVE  Budget'
<1>1. /\ Cardinality(pending) \in Nat /\ Cardinality(done) \in Nat
  BY FS_CardinalityType DEF Budget
<1>2. done = {} /\ Cardinality(done) = 0
  BY FS_EmptySet DEF Budget, StartFetch
<1>3. crawled + Cardinality(pending) < MaxPages BY DEF StartFetch, MayFetch
<1>4. CASE Head(queue).url \in visited
  BY <1>4 DEF StartFetch, Budget, counters
<1>5. CASE Head(queue).url \notin visited
  <2> DEFINE P == pending \cup {Head(queue)}
  <2>1. pending' = P BY <1>5 DEF StartFetch
  <2>2. IsFiniteSet(P) /\ Cardinality(P) <= Cardinality(pending) + 1
    BY <1>1, FS_AddElement DEF Budget
  <2>3. Cardinality(P) \in Nat BY <2>2, FS_CardinalityType
  <2> HIDE DEF P
  <2>4. UNCHANGED <<done, counters, pc>> /\ pc = "fill" BY DEF StartFetch
  <2>5. crawled + Cardinality(P) + Cardinality(done) <= MaxPages
    BY <1>1, <1>2, <1>3, <2>2, <2>3, CrawlAssumption DEF Budget
  <2> QED BY <2>1, <2>2, <2>4, <2>5 DEF Budget, counters
<1> QED BY <1>4, <1>5

\* Fetches that return move from pending to done, none gained or lost.
LEMMA WaitBudget ==
  ASSUME Budget, NEW D \in SUBSET pending, Wait(D)
  PROVE  Budget'
<1>1. IsFiniteSet(D) /\ IsFiniteSet(pending \ D) BY FS_Subset DEF Budget
<1>2. Cardinality(pending \ D) = Cardinality(pending) - Cardinality(D)
  <2>1. pending \cap D = D OBVIOUS
  <2> QED BY <2>1, FS_Difference DEF Budget
<1>3. Cardinality(D) \in Nat /\ Cardinality(pending) \in Nat
  BY <1>1, FS_CardinalityType DEF Budget
<1>4. done = {} /\ Cardinality(done) = 0 BY FS_EmptySet DEF Budget, Wait
<1>5. pending' = pending \ D /\ done' = D /\ pc' = "handle" /\ UNCHANGED counters
  BY DEF Wait
<1> QED BY <1>1, <1>2, <1>3, <1>4, <1>5, CrawlAssumption DEF Budget, counters

\* A crawl completes only with everything handled.
LEMMA CompleteBudget ==
  ASSUME Budget, Complete
  PROVE  Budget'
<1>1. done = {} BY DEF Budget, Complete
<1>2. pending = {}
  <2>1. CASE crawled >= MaxPages
    <3>1. Cardinality(pending) \in Nat /\ Cardinality(done) \in Nat
      BY FS_CardinalityType DEF Budget
    <3>2. Cardinality(pending) = 0 BY <2>1, <3>1, CrawlAssumption DEF Budget
    <3> QED BY <3>2, FS_EmptySet DEF Budget
  <2> QED BY <2>1 DEF Complete
<1> QED BY <1>1, <1>2 DEF Complete, Budget, counters

\* What is taken from done leaves room for the page it may be counted as.
LEMMA TakeRoom ==
  ASSUME Budget, NEW t, Take(t)
  PROVE  /\ IsFiniteSet(done')
         /\ crawled + Cardinality(pending) + Cardinality(done') + 1 <= MaxPages
         /\ crawled + 1 <= MaxPages
<1>1. IsFiniteSet(done \ {t}) /\ Cardinality(done \ {t}) = Cardinality(done) - 1
  BY FS_RemoveElement DEF Budget, Take
<1>2. /\ Cardinality(pending) \in Nat /\ Cardinality(done) \in Nat
      /\ Cardinality(done \ {t}) \in Nat
  BY <1>1, FS_CardinalityType DEF Budget
<1>3. done' = done \ {t} BY DEF Take
<1> QED BY <1>1, <1>2, <1>3, CrawlAssumption DEF Budget

\* Handling a fetch, whatever it brought.
LEMMA HandleBudget ==
  ASSUME Budget, NEW t \in done,
         PageStored(t) \/ PageStoreRaised(t) \/ PageSkipped(t) \/ FetchRaised(t)
  PROVE  Budget'
<1>0. Take(t) BY DEF PageStored, PageStoreRaised, PageSkipped, FetchRaised
<1>1. pending' = pending BY DEF PageStored, PageStoreRaised, PageSkipped, FetchRaised
<1>2. /\ IsFiniteSet(done')
      /\ crawled + Cardinality(pending) + Cardinality(done') + 1 <= MaxPages
      /\ crawled + 1 <= MaxPages
  BY <1>0, TakeRoom
<1>3. Cardinality(pending) \in Nat /\ Cardinality(done') \in Nat
  BY <1>2, FS_CardinalityType DEF Budget
<1>4. pc' # "fill" /\ pc' # "completed"
  BY <1>0 DEF PageStored, PageStoreRaised, PageSkipped, FetchRaised, Take, AfterCount
<1>5. CASE PageStored(t)
  <2>1. crawled' = crawled + 1 /\ rows' = rows + 1 /\ failures' = failures
    BY <1>5 DEF PageStored
  <2> QED BY <1>1, <1>2, <1>3, <1>4, <2>1, CrawlAssumption DEF Budget
<1>6. CASE PageStoreRaised(t)
  <2>1. crawled' = crawled /\ rows' \in {rows, rows + 1} /\ failures' = failures + 1
    BY <1>6 DEF PageStoreRaised
  <2> QED BY <1>1, <1>2, <1>3, <1>4, <2>1, CrawlAssumption DEF Budget
<1>7. CASE PageSkipped(t) \/ FetchRaised(t)
  <2>1. UNCHANGED counters BY <1>7 DEF PageSkipped, FetchRaised
  <2> QED BY <1>1, <1>2, <1>3, <1>4, <2>1, CrawlAssumption DEF Budget, counters
<1> QED BY <1>5, <1>6, <1>7

\* A flag that is seen empties both sets; one that is not changes neither.
LEMMA CancelCheckedBudget ==
  ASSUME Budget, CancelChecked
  PROVE  Budget'
<1>1. CASE cancel
  <2>1. pending' = {} /\ done' = {} /\ pc' = "stopped" /\ UNCHANGED counters
    BY <1>1 DEF CancelChecked
  <2> QED BY <2>1, FS_EmptySet, CrawlAssumption DEF Budget, counters
<1>2. CASE ~cancel BY <1>2 DEF CancelChecked, Budget, counters
<1> QED BY <1>1, <1>2

\* The other steps store nothing and start nothing.
LEMMA QuietBudget ==
  ASSUME Budget,
         \/ NextRound \/ ProgressWritten \/ ReportRaised \/ LinksQueued
         \/ RequestCancel \/ RunCutShort \/ UNCHANGED vars
  PROVE  Budget'
<1>1. /\ UNCHANGED <<pending, done, crawled, rows>>
      /\ failures' \in {failures, failures + 1}
      /\ pc' # pc => pc' # "completed" /\ (pc' = "fill" => done = {})
  BY DEF NextRound, ProgressWritten, ReportRaised, LinksQueued, RequestCancel,
         RunCutShort, vars, counters
<1>2. /\ pending' = pending /\ done' = done /\ crawled' = crawled /\ rows' = rows
      /\ failures' \in Nat /\ rows <= crawled + failures'
  <2>1. rows \in Nat /\ crawled \in Nat /\ failures \in Nat /\ rows <= crawled + failures
    BY DEF Budget
  <2>2. failures' = failures \/ failures' = failures + 1 BY <1>1
  <2>3. failures' \in Nat /\ rows <= crawled + failures' BY <2>1, <2>2
  <2> QED BY <1>1, <2>3
<1>3. Cardinality(pending') = Cardinality(pending) /\ Cardinality(done') = Cardinality(done)
  BY <1>2
<1>4. /\ pc' = "fill" => done = {}
      /\ pc' = "completed" => pending = {} /\ done = {}
  BY <1>1 DEF Budget
<1> QED BY <1>2, <1>3, <1>4 DEF Budget

\* The budget is inductive.
LEMMA NextBudget == Budget /\ [Next]_vars => Budget'
<1> SUFFICES ASSUME Budget, [Next]_vars PROVE Budget' OBVIOUS
<1>1. CASE StartFetch BY <1>1, StartFetchBudget
<1>2. ASSUME NEW D \in SUBSET pending, Wait(D) PROVE Budget' BY <1>2, WaitBudget
<1>3. CASE Complete BY <1>3, CompleteBudget
<1>4. ASSUME NEW t \in done,
             PageStored(t) \/ PageStoreRaised(t) \/ PageSkipped(t) \/ FetchRaised(t)
      PROVE  Budget'
  BY <1>4, HandleBudget
<1>5. CASE CancelChecked BY <1>5, CancelCheckedBudget
<1>6. CASE \/ NextRound \/ ProgressWritten \/ ReportRaised \/ LinksQueued
           \/ RequestCancel \/ RunCutShort \/ UNCHANGED vars
  BY <1>6, QuietBudget
<1> QED BY <1>1, <1>2, <1>3, <1>4, <1>5, <1>6 DEF Next

\* A crawl stores at most max_pages pages, but for INSERTs that raised after commit.
THEOREM CrawlStaysWithinMaxPages == Spec => []WithinMaxPages
<1>1. Budget => WithinMaxPages
  BY CrawlAssumption DEF Budget, WithinMaxPages
<1> QED BY <1>1, InitBudget, NextBudget, PTL DEF Spec

\* A completed crawl has no fetch in flight.
THEOREM CompletedCrawlIsQuiet == Spec => []NothingInFlight
<1>1. Budget => NothingInFlight BY DEF Budget, NothingInFlight
<1> QED BY <1>1, InitBudget, NextBudget, PTL DEF Spec
----------------------------------------------------------------------------
(* How late a stop may be.                                                  *)

\* Pages stored since the last multiple of CancelEvery, the one that is about to
\* be checked included.
Lag ==
  IF crawled % CancelEvery = 0 /\ pc \in {"progress", "check"} \cup Ended
    THEN CancelEvery ELSE crawled % CancelEvery

\* What a raised flag has let through: a full round for each failure, and the lag.
Timely ==
  /\ crawled \in Nat /\ failures \in Nat /\ since \in Nat
  /\ pc = "check" => crawled % CancelEvery = 0
  /\ pc \in {"links", "handle", "fill"} \/ pc \in {"progress", "check"} \/ pc \in Ended
  /\ ~cancel => since = 0
  /\ since <= CancelEvery * failures + Lag

\* Division with remainder.
LEMMA Division ==
  ASSUME NEW n \in Int, NEW c \in Int, c > 0
  PROVE  n = c * (n \div c) + (n % c) /\ n \div c \in Int /\ n % c \in 0..(c - 1)
BY SMTT(30)

\* Quotient and remainder are unique.
LEMMA DivisionUnique ==
  ASSUME NEW c \in Nat \ {0}, NEW a \in Int, NEW b \in 0..(c - 1),
         NEW d \in Int, NEW e \in 0..(c - 1), c * a + b = c * d + e
  PROVE  b = e
OBVIOUS

\* Remainders count up to CancelEvery and start again.
LEMMA NextRemainder ==
  ASSUME NEW n \in Nat, NEW c \in Nat \ {0}
  PROVE  /\ n % c \in 0..(c - 1)
         /\ (n + 1) % c = IF (n % c) + 1 = c THEN 0 ELSE (n % c) + 1
<1> DEFINE q == n \div c
           r == n % c
           p == (n + 1) \div c
           s == (n + 1) % c
<1>1. n = c * q + r /\ q \in Int /\ r \in 0..(c - 1) BY Division
<1>2. n + 1 = c * p + s /\ p \in Int /\ s \in 0..(c - 1) BY Division
<1> HIDE DEF q, r, p, s
<1>3. CASE r + 1 = c
  <2>1. c * (q + 1) = c * q + c BY <1>1
  <2>2. c * (q + 1) + 0 = c * p + s BY <1>1, <1>2, <1>3, <2>1
  <2>3. s = 0 BY <1>1, <1>2, <2>2, DivisionUnique
  <2> QED BY <1>1, <1>3, <2>3 DEF r, s
<1>4. CASE r + 1 # c
  <2>1. c * q \in Int BY <1>1
  <2>2. c * q + (r + 1) = c * p + s BY <1>1, <1>2, <2>1
  <2>3. r + 1 \in 0..(c - 1) BY <1>1, <1>4
  <2>4. s = r + 1 BY <1>1, <1>2, <2>2, <2>3, DivisionUnique
  <2> QED BY <1>1, <1>4, <2>4 DEF r, s
<1> QED BY <1>3, <1>4

\* One more failure is one more round.
LEMMA OneMoreRound ==
  ASSUME NEW n \in Nat, NEW c \in Nat
  PROVE  c * (n + 1) = c * n + c /\ c * n \in Nat
OBVIOUS

\* No page is stored and no flag has been raised yet.
LEMMA InitTimely == Init => Timely
<1> SUFFICES ASSUME Init PROVE Timely OBVIOUS
<1>1. 0 % CancelEvery \in 0..(CancelEvery - 1) BY NextRemainder, CrawlAssumption
<1>2. CancelEvery * 0 = 0 BY CrawlAssumption
<1> QED BY <1>1, <1>2, CrawlAssumption DEF Init, Timely, Lag

\* The lag of a state, by where the run stands.
LEMMA LagRange ==
  ASSUME Timely
  PROVE  Lag \in 0..CancelEvery /\ crawled % CancelEvery \in 0..(CancelEvery - 1)
<1>1. crawled % CancelEvery \in 0..(CancelEvery - 1)
  BY NextRemainder, CrawlAssumption DEF Timely
<1> QED BY <1>1, CrawlAssumption DEF Lag

\* A page that is counted adds one to the lag; at a multiple the check is next.
LEMMA PageStoredTimely ==
  ASSUME Timely, NEW t, PageStored(t)
  PROVE  Timely'
<1> DEFINE r == crawled % CancelEvery
           s == (crawled + 1) % CancelEvery
<1>1. r \in 0..(CancelEvery - 1) /\ s = IF r + 1 = CancelEvery THEN 0 ELSE r + 1
  BY NextRemainder, CrawlAssumption DEF Timely
<1>2. Lag = r
  BY DEF Lag, PageStored, Take, Ended
<1>3. /\ crawled' = crawled + 1 /\ failures' = failures /\ cancel' = cancel
      /\ since' = (IF cancel THEN since + 1 ELSE since)
      /\ pc' = AfterCount(crawled + 1)
  BY DEF PageStored, Noted
<1> HIDE DEF r, s
<1>4. Lag' = IF s = 0 THEN CancelEvery ELSE s
  <2>1. crawled' % CancelEvery = s BY <1>3 DEF s
  <2>2. pc' \in {"progress", "check"} <=> pc' # "links" BY <1>3 DEF AfterCount
  <2>3. s = 0 => pc' \in {"progress", "check"} BY <1>3 DEF AfterCount, s
  <2> QED BY <2>1, <2>2, <2>3 DEF Lag
<1>5. Lag' = r + 1 BY <1>1, <1>4, CrawlAssumption
<1>6. pc' = "check" => crawled' % CancelEvery = 0 BY <1>3 DEF AfterCount
<1>7. pc' \in {"progress", "check", "links"} BY <1>3 DEF AfterCount
<1>8. CancelEvery * failures \in Nat BY OneMoreRound, CrawlAssumption DEF Timely
<1>9. since' \in Nat /\ (~cancel' => since' = 0) BY <1>3 DEF Timely
<1>10. since' <= CancelEvery * failures' + Lag'
  BY <1>1, <1>2, <1>3, <1>5, <1>8 DEF Timely
<1> QED BY <1>3, <1>6, <1>7, <1>9, <1>10 DEF Timely

\* A statement that raised forfeits a round at most.
LEMMA FailureTimely ==
  ASSUME Timely, failures' = failures + 1, crawled' = crawled, cancel' = cancel,
         since' = since \/ (since' = since + 1 /\ cancel /\ pc = "handle"), pc' = "links"
  PROVE  Timely'
<1>1. /\ Lag \in 0..CancelEvery /\ crawled % CancelEvery \in 0..(CancelEvery - 1)
      /\ pc = "handle" => Lag = crawled % CancelEvery
  BY LagRange DEF Lag, Ended
<1>2. Lag' = crawled % CancelEvery BY DEF Lag, Ended
<1>3. CancelEvery * (failures + 1) = CancelEvery * failures + CancelEvery
      /\ CancelEvery * failures \in Nat
  BY OneMoreRound, CrawlAssumption DEF Timely
<1>4. since' <= CancelEvery * failures + CancelEvery + Lag'
  BY <1>1, <1>2, <1>3, CrawlAssumption DEF Timely
<1>5. since' \in Nat /\ failures' \in Nat /\ (~cancel' => since' = 0) BY DEF Timely
<1>6. since' <= CancelEvery * failures' + Lag' BY <1>3, <1>4
<1> QED BY <1>5, <1>6 DEF Timely

\* The check lets a run go on only when no flag is up.
LEMMA CancelCheckedTimely ==
  ASSUME Timely, CancelChecked
  PROVE  Timely'
<1>0. UNCHANGED <<crawled, failures, since, cancel>> BY DEF CancelChecked, counters
<1>1. CASE cancel
  <2>1. Lag' = Lag BY <1>0, <1>1 DEF CancelChecked, Lag, Ended, Timely
  <2>2. pc' = "stopped" BY <1>1 DEF CancelChecked
  <2> QED BY <1>0, <2>1, <2>2 DEF Timely, Ended
<1>2. CASE ~cancel
  <2>1. pc' = "links" /\ since' = 0 BY <1>0, <1>2 DEF CancelChecked, Timely
  <2>2. Lag' \in Nat BY <1>0, <2>1, LagRange DEF Lag, Ended
  <2>3. CancelEvery * failures \in Nat BY OneMoreRound, CrawlAssumption DEF Timely
  <2>4. since' <= CancelEvery * failures' + Lag' BY <1>0, <2>1, <2>2, <2>3
  <2> QED BY <1>0, <2>1, <2>4 DEF Timely
<1> QED BY <1>1, <1>2

\* Steps that store nothing and skip no check leave the lag alone or cut it off
\* where it stands.
LEMMA QuietTimely ==
  ASSUME Timely,
         UNCHANGED <<crawled, failures, since>>,
         cancel' = cancel \/ (~cancel /\ cancel'),
         \/ pc' = pc
         \/ pc \in {"fill", "handle"} /\ pc' \in {"fill", "handle"} \cup Ended
         \/ pc' \in Ended
         \/ pc = "links" /\ pc' = "handle"
         \/ pc = "progress" /\ pc' = IF crawled % CancelEvery = 0 THEN "check" ELSE "links"
  PROVE  Timely'
<1>1. /\ Lag \in 0..CancelEvery /\ crawled % CancelEvery \in 0..(CancelEvery - 1)
      /\ CancelEvery * failures \in Nat
  BY LagRange, OneMoreRound, CrawlAssumption DEF Timely
<1>2. Lag' >= Lag /\ Lag' \in 0..CancelEvery
  BY <1>1, CrawlAssumption DEF Lag, Ended
<1>3. since' <= CancelEvery * failures' + Lag' BY <1>1, <1>2 DEF Timely
<1>4. pc' = "check" => crawled' % CancelEvery = 0 BY DEF Timely, Ended
<1>5. pc' \in {"links", "handle", "fill"} \/ pc' \in {"progress", "check"} \/ pc' \in Ended
  BY DEF Timely
<1> QED BY <1>3, <1>4, <1>5 DEF Timely

\* The lag is inductive.
LEMMA NextTimely == Timely /\ [Next]_vars => Timely'
<1> SUFFICES ASSUME Timely, [Next]_vars PROVE Timely' OBVIOUS
<1>1. CASE StartFetch \/ NextRound \/ Complete
  BY <1>1, QuietTimely DEF StartFetch, NextRound, Complete, counters, Ended
<1>2. ASSUME NEW D \in SUBSET pending, Wait(D) PROVE Timely'
  BY <1>2, QuietTimely DEF Wait, counters
<1>3. ASSUME NEW t \in done, PageStored(t) PROVE Timely' BY <1>3, PageStoredTimely
<1>4. ASSUME NEW t \in done, PageStoreRaised(t) PROVE Timely'
  <2>1. since' = since \/ (since' = since + 1 /\ cancel)
    BY <1>4 DEF PageStoreRaised, Noted
  <2> QED BY <1>4, <2>1, FailureTimely DEF PageStoreRaised, Take
<1>5. ASSUME NEW t \in done, PageSkipped(t) \/ FetchRaised(t) PROVE Timely'
  BY <1>5, QuietTimely DEF PageSkipped, FetchRaised, counters, Take, Ended
<1>6. CASE ProgressWritten \/ LinksQueued
  BY <1>6, QuietTimely DEF ProgressWritten, LinksQueued, counters
<1>7. CASE CancelChecked BY <1>7, CancelCheckedTimely
<1>8. CASE ReportRaised BY <1>8, FailureTimely DEF ReportRaised
<1>9. CASE RequestCancel \/ RunCutShort \/ UNCHANGED vars
  BY <1>9, QuietTimely DEF RequestCancel, RunCutShort, vars, counters, Ended
<1> QED BY <1>1, <1>2, <1>3, <1>4, <1>5, <1>6, <1>7, <1>8, <1>9 DEF Next

\* A stop is seen within one round of pages, and one more for each failure.
THEOREM StopsAreTimely == Spec => []StopIsTimely
<1>1. Timely => StopIsTimely
  <2> SUFFICES ASSUME Timely PROVE StopIsTimely OBVIOUS
  <2>1. CancelEvery * (failures + 1) = CancelEvery * failures + CancelEvery
    BY OneMoreRound, CrawlAssumption DEF Timely
  <2>2. CancelEvery * failures \in Nat BY OneMoreRound, CrawlAssumption DEF Timely
  <2>3. since <= CancelEvery * (failures + 1)
    BY <2>1, <2>2, LagRange, CrawlAssumption DEF Timely
  <2>4. failures + 1 = 1 + failures BY DEF Timely
  <2> QED BY <2>3, <2>4 DEF StopIsTimely
<1> QED BY <1>1, InitTimely, NextTimely, PTL DEF Spec

----------------------------------------------------------------------------
(* Induction over numbers, and with it what a fold over a sequence computes. *)

\* Every set of natural numbers that is not empty has a least element.
LEMMA LeastNumber ==
  ASSUME NEW S \in SUBSET Nat, S # {}
  PROVE  \E n \in S : \A m \in S : n <= m
<1> DEFINE R == OpToRel(<, Nat)
<1>1. IsWellFoundedOn(R, Nat) BY NatLessThanWellFounded
<1>2. \A x, y \in Nat : x < y => <<x, y>> \in R BY DEF OpToRel
<1> HIDE DEF R
<1>3. PICK n \in S : \A y \in S : ~ (<<y, n>> \in R) BY <1>1, WFMin
<1>4. \A m \in S : ~ (m < n) BY <1>2, <1>3, Zenon
<1>5. \A m \in S : n <= m BY <1>4
<1> QED BY <1>5

\* Induction over the natural numbers, for a set of them.
LEMMA InductionOverNat ==
  ASSUME NEW S \in SUBSET Nat, 0 \in S, \A n \in S : n + 1 \in S
  PROVE  S = Nat
<1> SUFFICES ASSUME Nat \ S # {} PROVE FALSE OBVIOUS
<1>1. PICK n \in Nat \ S : \A m \in Nat \ S : n <= m BY LeastNumber
<1>2. n - 1 \in Nat /\ n - 1 \in S BY <1>1
<1> QED BY <1>1, <1>2

\* A set of numbers up to n has a largest one.
LEMMA LargestNumber ==
  ASSUME NEW n \in Nat, NEW T \in SUBSET (1..n), T # {}
  PROVE  Max(T) \in T /\ \A y \in T : Max(T) >= y
<1> DEFINE S == {n - x : x \in T}
<1>1. S \in SUBSET Nat /\ S # {}
  <2>1. \A x \in T : x \in 1..n /\ n - x \in Nat OBVIOUS
  <2> QED BY <2>1
<1>2. PICK m \in S : \A k \in S : m <= k BY <1>1, LeastNumber
<1>3. PICK x \in T : m = n - x BY <1>2
<1>4. \A y \in T : x >= y
  <2> SUFFICES ASSUME NEW y \in T PROVE x >= y OBVIOUS
  <2>1. n - y \in S OBVIOUS
  <2> QED BY <1>2, <1>3, <2>1
<1> QED BY <1>3, <1>4 DEF Max

\* A set of numbers up to k + 1: without k + 1 it is one up to k.
LEMMA TopOfSet ==
  ASSUME NEW k \in Nat, NEW T \in SUBSET (1..(k + 1))
  PROVE  /\ T \ {k + 1} \in SUBSET (1..k)
         /\ T \notin SUBSET (1..k) => T # {} /\ Max(T) = k + 1
         /\ T \in SUBSET (1..k) => T \ {Max(T)} \in SUBSET (1..k)
<1>1. T \ {k + 1} \in SUBSET (1..k) OBVIOUS
<1>2. ASSUME T \notin SUBSET (1..k) PROVE T # {} /\ Max(T) = k + 1
  <2>1. PICK x \in T : x \notin 1..k BY <1>2
  <2>2. x = k + 1 BY <2>1
  <2>3. k + 1 \in Nat /\ T # {} /\ k + 1 \in T BY <2>1, <2>2
  <2>4. Max(T) \in T /\ \A y \in T : Max(T) >= y BY <2>3, LargestNumber
  <2>5. Max(T) \in 1..(k + 1) /\ Max(T) >= k + 1 BY <2>3, <2>4
  <2> QED BY <2>3, <2>5
<1>3. ASSUME T \in SUBSET (1..k) PROVE T \ {Max(T)} \in SUBSET (1..k) BY <1>3
<1> QED BY <1>1, <1>2, <1>3

\* h is the function of a fold of s, on the sets of its first k positions.
Folds(h, k, F, base, s) ==
  \A T \in SUBSET (1..k) :
    h[T] = IF T = {} THEN base ELSE F[h[T \ {Max(T)}]][s[Max(T)]]

\* One more element of the sequence.
LEMMA FoldExtends ==
  ASSUME NEW V, NEW E, NEW F \in [V -> [E -> V]], NEW base, NEW s,
         NEW k \in Nat, s[k + 1] \in E, NEW g \in [SUBSET (1..k) -> V],
         Folds(g, k, F, base, s)
  PROVE  \E h \in [SUBSET (1..(k + 1)) -> V] : Folds(h, k + 1, F, base, s)
<1> DEFINE D == SUBSET (1..k)
           D1 == SUBSET (1..(k + 1))
           h == [T \in D1 |-> IF T \in D THEN g[T] ELSE F[g[T \ {k + 1}]][s[k + 1]]]
<1>1. /\ \A T \in D1 : T \ {k + 1} \in D
      /\ \A T \in D1 : T \notin D => T # {} /\ Max(T) = k + 1
      /\ \A T \in D1 : T \in D => T \ {Max(T)} \in D
  BY TopOfSet
<1>2. D \subseteq D1 OBVIOUS
<1>3. g \in [D -> V] OBVIOUS
<1>4. \A T \in D : g[T] = IF T = {} THEN base ELSE F[g[T \ {Max(T)}]][s[Max(T)]] BY DEF Folds
<1> HIDE DEF D, D1
<1>5. \A T \in D : h[T] = g[T] BY <1>2
<1>6. \A T \in D1 : T \notin D => h[T] = F[g[T \ {k + 1}]][s[k + 1]] OBVIOUS
<1>7. h \in [D1 -> V] BY <1>1, <1>3
<1> HIDE DEF h
<1>8. ASSUME NEW T \in D1
      PROVE  h[T] = IF T = {} THEN base ELSE F[h[T \ {Max(T)}]][s[Max(T)]]
  <2>1. CASE T \in D
    <3>1. T \ {Max(T)} \in D BY <1>1, <2>1
    <3> QED BY <1>4, <1>5, <2>1, <3>1
  <2>2. CASE T \notin D
    <3>1. T # {} /\ Max(T) = k + 1 /\ T \ {k + 1} \in D BY <1>1, <2>2
    <3> QED BY <1>5, <1>6, <2>2, <3>1
  <2> QED BY <2>1, <2>2
<1> QED BY <1>7, <1>8 DEF Folds, D1

\* A fold over a sequence is well defined: its function exists.
LEMMA FoldExists ==
  ASSUME NEW V, NEW E, NEW F \in [V -> [E -> V]], NEW base \in V, NEW s \in Seq(E)
  PROVE  \E h \in [SUBSET (1..Len(s)) -> V] : Folds(h, Len(s), F, base, s)
<1> DEFINE P(k) == \E h \in [SUBSET (1..k) -> V] : Folds(h, k, F, base, s)
           S == {k \in Nat : k <= Len(s) => P(k)}
<1>0. Len(s) \in Nat /\ \A k \in Nat : k + 1 <= Len(s) => s[k + 1] \in E OBVIOUS
<1>1. P(0)
  <2> DEFINE h == [T \in SUBSET (1..0) |-> base]
  <2>1. h \in [SUBSET (1..0) -> V] OBVIOUS
  <2>2. 1..0 = {} OBVIOUS
  <2>3. Folds(h, 0, F, base, s) BY <2>2 DEF Folds
  <2> QED BY <2>1, <2>3
<1>2. ASSUME NEW k \in Nat, s[k + 1] \in E, P(k) PROVE P(k + 1)
  <2>1. PICK g \in [SUBSET (1..k) -> V] : Folds(g, k, F, base, s) BY <1>2
  <2> QED BY <1>2, <2>1, FoldExtends
<1> HIDE DEF P
<1>3. 0 \in S BY <1>1
<1>4. ASSUME NEW k \in S PROVE k + 1 \in S BY <1>0, <1>2
<1>5. S = Nat BY <1>3, <1>4, InductionOverNat
<1>6. P(Len(s)) BY <1>0, <1>5
<1> QED BY <1>6 DEF P

\* An interval from 1, and what is left of it without its largest number.
LEMMA IntervalMax ==
  ASSUME NEW k \in Nat
  PROVE  Max(1..(k + 1)) = k + 1 /\ (1..(k + 1)) \ {Max(1..(k + 1))} = 1..k
<1> DEFINE I == 1..(k + 1)
<1>1. I \in SUBSET (1..(k + 1)) /\ I # {} /\ k + 1 \in I /\ k + 1 \in Nat OBVIOUS
<1>2. Max(I) \in I /\ Max(I) >= k + 1
  <2> HIDE DEF I
  <2> QED BY <1>1, LargestNumber
<1>3. Max(I) = k + 1 BY <1>2
<1> QED BY <1>3

\* g is the function of a fold of s wherever its values are in V.
FoldsWithin(g, V, F, base, s) ==
  /\ g[{}] = base
  /\ \A T \in SUBSET (1..Len(s)) :
       T # {} /\ g[T \ {Max(T)}] \in V => g[T] = F[g[T \ {Max(T)}]][s[Max(T)]]

\* a holds what a fold of s has after each element, from base on.
Accumulates(a, V, F, base, s) ==
  /\ a \in [0..Len(s) -> V]
  /\ a[0] = base
  /\ \A k \in 1..Len(s) : a[k] = F[a[k - 1]][s[k]]

\* The values of a fold of s after each element.
Values(g, s) == [k \in 0..Len(s) |-> g[1..k]]

\* A fold goes through the sequence from the first element to the last.
LEMMA FoldSteps ==
  ASSUME NEW V, NEW E, NEW F \in [V -> [E -> V]], NEW base \in V, NEW s \in Seq(E),
         NEW g, FoldsWithin(g, V, F, base, s)
  PROVE  Accumulates(Values(g, s), V, F, base, s)
<1> DEFINE n == Len(s)
           a == Values(g, s)
           S == {k \in Nat : k <= n => a[k] \in V}
<1>0. n \in Nat /\ \A k \in 1..n : s[k] \in E OBVIOUS
<1>1. a[0] = base
  <2>1. 1..0 = {} OBVIOUS
  <2> QED BY <1>0, <2>1 DEF FoldsWithin, Values
<1>2. ASSUME NEW k \in Nat, k + 1 <= n, a[k] \in V
      PROVE  a[k + 1] = F[a[k]][s[k + 1]] /\ a[k + 1] \in V
  <2>1. Max(1..(k + 1)) = k + 1 /\ (1..(k + 1)) \ {Max(1..(k + 1))} = 1..k BY IntervalMax
  <2>2. k \in 0..n /\ k + 1 \in 0..n /\ k + 1 \in 1..n BY <1>0, <1>2
  <2>3. 1..(k + 1) \in SUBSET (1..n) /\ 1..(k + 1) # {}
    <3>1. \A x \in 1..(k + 1) : x \in 1..n BY <1>0, <1>2
    <3>2. k + 1 \in 1..(k + 1) OBVIOUS
    <3> QED BY <3>1, <3>2
  <2>4. a[k] = g[1..k] /\ a[k + 1] = g[1..(k + 1)] BY <2>2 DEF Values
  <2>5. g[1..(k + 1)] = F[g[1..k]][s[k + 1]]
    <3>1. g[(1..(k + 1)) \ {Max(1..(k + 1))}] \in V BY <1>2, <2>1, <2>4
    <3> QED BY <2>1, <2>3, <3>1 DEF FoldsWithin
  <2>6. F[a[k]][s[k + 1]] \in V BY <1>0, <1>2, <2>2
  <2> HIDE DEF a
  <2> QED BY <2>4, <2>5, <2>6
<1> HIDE DEF a
<1>3. 0 \in S BY <1>1
<1>4. ASSUME NEW k \in S PROVE k + 1 \in S
  <2>1. k \in Nat OBVIOUS
  <2> SUFFICES ASSUME k + 1 <= n PROVE a[k + 1] \in V BY <2>1
  <2>2. a[k] \in V BY <1>0, <2>1
  <2> QED BY <1>2, <2>1, <2>2
<1>5. S = Nat BY <1>3, <1>4, InductionOverNat
<1>6. \A k \in 0..n : a[k] \in V
  <2>1. \A k \in 0..n : k \in Nat /\ k <= n BY <1>0
  <2>2. \A k \in S : k <= n => a[k] \in V OBVIOUS
  <2> HIDE DEF S
  <2> QED BY <1>5, <2>1, <2>2
<1>7. a \in [0..n -> V] BY <1>6 DEF a, Values
<1>8. ASSUME NEW k \in 1..n PROVE a[k] = F[a[k - 1]][s[k]]
  <2>1. k - 1 \in Nat /\ k - 1 \in 0..n /\ (k - 1) + 1 = k /\ k <= n BY <1>0
  <2>2. a[k - 1] \in V BY <1>6, <2>1
  <2>3. a[(k - 1) + 1] = F[a[k - 1]][s[(k - 1) + 1]] BY <1>2, <2>1, <2>2
  <2> QED BY <2>1, <2>3
<1>9. Accumulates(a, V, F, base, s) BY <1>1, <1>7, <1>8 DEF Accumulates
<1> QED BY <1>9 DEF a

----------------------------------------------------------------------------
(* The links of a page, queued one after the other.                         *)

Frontiers == [queue : Seq(Fetches), queued : SUBSET Urls]

\* The links that may be queued behind the current page
Followable == IF current.depth < MaxDepth THEN Urls ELSE {}

Frontier0 == [queue |-> queue, queued |-> queued]

\* The fold of LinksQueued
Filled == FoldLeft(LAMBDA g, link : Enqueue(link, g), Frontier0, NewLinks)

\* The links of the current page are among those that may be queued.
LEMMA NewLinksType == TypeOK => NewLinks \in Seq(Followable)
<1> SUFFICES ASSUME TypeOK PROVE NewLinks \in Seq(Followable) OBVIOUS
<1>1. site \in [Urls -> Seq(Urls)] BY CrawlAssumption DEF TypeOK
<1>2. current.url \in Urls BY DEF TypeOK, Fetches
<1>3. site[current.url] \in Seq(Urls) BY <1>1, <1>2
<1>4. <<>> \in Seq({}) OBVIOUS
<1>5. CASE current.depth < MaxDepth BY <1>3, <1>5 DEF NewLinks, Followable
<1>6. CASE ~(current.depth < MaxDepth) BY <1>4, <1>6 DEF NewLinks, Followable
<1> QED BY <1>5, <1>6

\* Queueing one link keeps the shape of the frontier.
LEMMA EnqueueType ==
  ASSUME TypeOK, NEW f \in Frontiers, NEW link \in Followable
  PROVE  Enqueue(link, f) \in Frontiers
<1>1. current.depth + 1 \in 0..MaxDepth /\ link \in Urls
  BY CrawlAssumption DEF TypeOK, Fetches, Followable
<1>2. Found(link, current.depth + 1) \in Fetches BY <1>1 DEF Found, Fetches
<1>3. f.queue \in Seq(Fetches) /\ f.queued \in SUBSET Urls BY DEF Frontiers
<1>4. Append(f.queue, Found(link, current.depth + 1)) \in Seq(Fetches) BY <1>2, <1>3
<1>5. f.queued \cup {link} \in SUBSET Urls BY <1>1, <1>3
<1> QED BY <1>4, <1>5 DEF Enqueue, Frontiers

\* The fold enqueues the links from the first to the last.
LEMMA FillSteps ==
  ASSUME TypeOK
  PROVE  \E a \in [0..Len(NewLinks) -> Frontiers] :
           /\ a[0] = Frontier0
           /\ \A k \in 1..Len(NewLinks) : a[k] = Enqueue(NewLinks[k], a[k - 1])
           /\ a[Len(NewLinks)] = Filled
<1> DEFINE s == NewLinks
           n == Len(s)
           F == [f \in Frontiers |-> [link \in Followable |-> Enqueue(link, f)]]
           IsFold(g) == g = [T \in SUBSET DOMAIN s |->
                              IF T = {} THEN Frontier0
                              ELSE Enqueue(s[Max(T)], g[T \ {Max(T)}])]
           g == CHOOSE g : IsFold(g)
<1>1. s \in Seq(Followable) /\ n \in Nat /\ DOMAIN s = 1..n
      /\ \A k \in 1..n : s[k] \in Followable
  <2>1. s \in Seq(Followable) BY NewLinksType
  <2> HIDE DEF s
  <2> QED BY <2>1
<1>2. F \in [Frontiers -> [Followable -> Frontiers]] BY EnqueueType
<1>3. Frontier0 \in Frontiers BY DEF Frontier0, Frontiers, TypeOK
<1>4. \A f \in Frontiers, link \in Followable : F[f][link] = Enqueue(link, f) OBVIOUS
<1>5. Filled = g[DOMAIN s] BY DEF Filled, FoldLeft, MapThenFoldSet, Max
<1> HIDE DEF s, F
<1>6. \A T \in SUBSET (1..n) : T # {} => Max(T) \in T BY <1>1, LargestNumber
<1>7. PICK h \in [SUBSET (1..n) -> Frontiers] : Folds(h, n, F, Frontier0, s)
  BY <1>1, <1>2, <1>3, FoldExists
<1>8. IsFold(h)
  <2>1. ASSUME NEW T \in SUBSET (1..n)
        PROVE  h[T] = IF T = {} THEN Frontier0 ELSE Enqueue(s[Max(T)], h[T \ {Max(T)}])
    <3>1. CASE T = {} BY <1>7, <3>1 DEF Folds
    <3>2. CASE T # {}
      <4>1. s[Max(T)] \in Followable BY <1>1, <1>6, <3>2
      <4>2. T \ {Max(T)} \in SUBSET (1..n) OBVIOUS
      <4>3. h[T \ {Max(T)}] \in Frontiers BY <1>7, <4>2
      <4>4. h[T] = F[h[T \ {Max(T)}]][s[Max(T)]] BY <1>7, <3>2 DEF Folds
      <4> QED BY <1>4, <3>2, <4>1, <4>3, <4>4
    <3> QED BY <3>1, <3>2
  <2> QED BY <1>1, <1>7, <2>1
<1>9. IsFold(g)
  <2> HIDE DEF IsFold
  <2> QED BY <1>8
<1> HIDE DEF g
<1>10. g[{}] = Frontier0 BY <1>9
<1>11. ASSUME NEW T \in SUBSET (1..n), T # {}, g[T \ {Max(T)}] \in Frontiers
       PROVE  g[T] = F[g[T \ {Max(T)}]][s[Max(T)]]
  <2>1. s[Max(T)] \in Followable BY <1>1, <1>6, <1>11
  <2>2. g[T] = Enqueue(s[Max(T)], g[T \ {Max(T)}]) BY <1>1, <1>9, <1>11
  <2> QED BY <1>4, <1>11, <2>1, <2>2
<1> HIDE DEF IsFold
<1>12. \A T \in SUBSET (1..Len(s)) :
         T # {} /\ g[T \ {Max(T)}] \in Frontiers => g[T] = F[g[T \ {Max(T)}]][s[Max(T)]]
  BY <1>11
<1>13. FoldsWithin(g, Frontiers, F, Frontier0, s) BY <1>10, <1>12 DEF FoldsWithin
<1> DEFINE a == Values(g, s)
<1>14. Accumulates(a, Frontiers, F, Frontier0, s) BY <1>1, <1>2, <1>3, <1>13, FoldSteps
<1>15. a[n] = g[1..n] BY <1>1 DEF Values
<1> HIDE DEF a
<1>16. \A k \in 1..n : a[k] = Enqueue(s[k], a[k - 1])
  <2> SUFFICES ASSUME NEW k \in 1..n PROVE a[k] = Enqueue(s[k], a[k - 1]) OBVIOUS
  <2>1. k - 1 \in 0..n BY <1>1
  <2>2. a[k - 1] \in Frontiers /\ a[k] = F[a[k - 1]][s[k]] BY <1>14, <2>1 DEF Accumulates
  <2> QED BY <1>1, <1>4, <2>2
<1> QED BY <1>1, <1>5, <1>14, <1>15, <1>16 DEF s, Accumulates

\* The URLs waiting in a queue
Waiting(q) == {q[k].url : k \in DOMAIN q}

\* After the first k links: nothing that was queued or waits is lost, each of these
\* links is queued, and whatever was queued anew waits.
Gathers(f, k) ==
  /\ queued \cup {NewLinks[j] : j \in 1..k} \subseteq f.queued
  /\ Waiting(queue) \subseteq Waiting(f.queue)
  /\ f.queued \subseteq queued \cup Waiting(f.queue)

\* What waits after an Append is what waited before and the URL appended.
LEMMA AppendWaits ==
  ASSUME NEW q \in Seq(Fetches), NEW t \in Fetches
  PROVE  Waiting(Append(q, t)) = Waiting(q) \cup {t.url}
<1> DEFINE r == Append(q, t)
<1>1. /\ Len(q) \in Nat /\ DOMAIN q = 1..Len(q) /\ DOMAIN r = 1..(Len(q) + 1)
      /\ \A k \in 1..Len(q) : r[k] = q[k]
      /\ r[Len(q) + 1] = t
  OBVIOUS
<1> HIDE DEF r
<1>2. \A k \in DOMAIN q : k \in DOMAIN r /\ r[k].url = q[k].url BY <1>1
<1>3. Len(q) + 1 \in DOMAIN r /\ r[Len(q) + 1].url = t.url BY <1>1
<1>4. \A k \in DOMAIN r : k \in DOMAIN q \/ k = Len(q) + 1 BY <1>1
<1> QED BY <1>2, <1>3, <1>4 DEF Waiting, r

\* One link more.
LEMMA EnqueueGathers ==
  ASSUME TypeOK, NEW f \in Frontiers, NEW k \in 1..Len(NewLinks), Gathers(f, k - 1)
  PROVE  Gathers(Enqueue(NewLinks[k], f), k)
<1> DEFINE link == NewLinks[k]
           t == Found(link, current.depth + 1)
<1>0. k \in Nat BY NewLinksType
<1>1. link \in Followable BY NewLinksType
<1>2. t \in Fetches /\ t.url = link
  BY <1>1, CrawlAssumption DEF TypeOK, Fetches, Followable, Found
<1>3. \A j \in 1..k : j \in 1..(k - 1) \/ j = k BY <1>0
<1>4. {NewLinks[j] : j \in 1..k} \subseteq {NewLinks[j] : j \in 1..(k - 1)} \cup {link}
  BY <1>3
<1> HIDE DEF link, t
<1>5. CASE link \in f.queued
  <2>1. Enqueue(link, f) = f BY <1>5 DEF Enqueue
  <2> QED BY <1>4, <1>5, <2>1 DEF Gathers, link
<1>6. CASE link \notin f.queued
  <2> DEFINE e == Enqueue(link, f)
  <2>1. e.queue = Append(f.queue, t) /\ e.queued = f.queued \cup {link}
    BY <1>6 DEF Enqueue, t
  <2>2. f.queue \in Seq(Fetches) BY DEF Frontiers
  <2>3. Waiting(e.queue) = Waiting(f.queue) \cup {link} BY <1>2, <2>1, <2>2, AppendWaits
  <2> HIDE DEF e
  <2>4. Gathers(e, k) BY <1>4, <2>1, <2>3 DEF Gathers
  <2> QED BY <2>4 DEF e, link
<1> QED BY <1>5, <1>6

\* What the fold of LinksQueued leaves behind.
LEMMA FillGathers ==
  ASSUME TypeOK
  PROVE  Filled \in Frontiers /\ Gathers(Filled, Len(NewLinks))
<1> DEFINE n == Len(NewLinks)
<1>0. n \in Nat BY NewLinksType
<1>1. PICK a \in [0..n -> Frontiers] :
        /\ a[0] = Frontier0
        /\ \A k \in 1..n : a[k] = Enqueue(NewLinks[k], a[k - 1])
        /\ a[n] = Filled
  BY FillSteps
<1> DEFINE S == {k \in Nat : k <= n => Gathers(a[k], k)}
<1>2. Gathers(a[0], 0) BY <1>1 DEF Gathers, Frontier0
<1>3. ASSUME NEW k \in Nat, k + 1 <= n, Gathers(a[k], k) PROVE Gathers(a[k + 1], k + 1)
  <2>1. k \in 0..n /\ k + 1 \in 1..n /\ (k + 1) - 1 = k BY <1>0, <1>3
  <2>2. a[k] \in Frontiers /\ a[k + 1] = Enqueue(NewLinks[k + 1], a[k]) BY <1>1, <2>1
  <2> QED BY <1>3, <2>1, <2>2, EnqueueGathers
<1> HIDE DEF n
<1>4. 0 \in S BY <1>2
<1>5. ASSUME NEW k \in S PROVE k + 1 \in S
  <2>1. k \in Nat /\ (k + 1 <= n => k <= n) BY <1>0
  <2> QED BY <1>3, <2>1
<1>6. S = Nat BY <1>4, <1>5, InductionOverNat
<1>7. Gathers(a[n], n)
  <2>1. \A k \in S : k <= n => Gathers(a[k], k) OBVIOUS
  <2> HIDE DEF S
  <2> QED BY <1>0, <1>6, <2>1
<1> QED BY <1>0, <1>1, <1>7 DEF n

\* Every link of the page is queued then.
LEMMA FillFollows ==
  ASSUME TypeOK, current.depth < MaxDepth
  PROVE  Range(site[current.url]) \subseteq Filled.queued
<1>1. NewLinks = site[current.url] BY DEF NewLinks
<1>2. NewLinks \in Seq(Followable) BY NewLinksType
<1>3. Range(NewLinks) = {NewLinks[j] : j \in 1..Len(NewLinks)} BY <1>2 DEF Range
<1> QED BY <1>1, <1>3, FillGathers DEF Gathers

----------------------------------------------------------------------------
(* The type of every variable.                                              *)

\* The initial values have their types.
LEMMA InitTypeOK == Init => TypeOK
<1> SUFFICES ASSUME Init PROVE TypeOK OBVIOUS
<1>1. Found(Seed, 0) \in Fetches BY CrawlAssumption DEF Found, Fetches
<1>2. <<Found(Seed, 0)>> \in Seq(Fetches) BY <1>1
<1> QED BY <1>1, <1>2, CrawlAssumption DEF Init, TypeOK

\* A fetch comes from the head of the queue.
LEMMA StartFetchTypeOK ==
  ASSUME TypeOK, StartFetch
  PROVE  TypeOK'
<1>1. Head(queue) \in Fetches /\ Tail(queue) \in Seq(Fetches)
  BY DEF TypeOK, StartFetch, MayFetch
<1>2. Head(queue).url \in Urls BY <1>1 DEF Fetches
<1>3. queue' \in Seq(Fetches) BY <1>1 DEF StartFetch
<1>4. visited' \subseteq Urls /\ pending' \subseteq Fetches
  BY <1>1, <1>2 DEF StartFetch, TypeOK
<1> QED BY <1>3, <1>4 DEF StartFetch, TypeOK, counters, bounds

\* What is handled was done, and the counters count.
LEMMA HandleTypeOK ==
  ASSUME TypeOK, NEW t \in done,
         PageStored(t) \/ PageStoreRaised(t) \/ PageSkipped(t) \/ FetchRaised(t)
  PROVE  TypeOK'
<1>1. t \in Fetches /\ done' \subseteq Fetches /\ current' = t
  BY DEF TypeOK, PageStored, PageStoreRaised, PageSkipped, FetchRaised, Take
<1>2. Noted \in Nat BY DEF Noted, TypeOK
<1>3. AfterCount(crawled + 1) \in {"progress", "check", "links"} BY DEF AfterCount
<1>4. CASE PageStored(t)
  BY <1>1, <1>2, <1>3, <1>4 DEF PageStored, TypeOK, frontier, bounds
<1>5. CASE PageStoreRaised(t)
  BY <1>1, <1>2, <1>5 DEF PageStoreRaised, Fault, TypeOK, frontier
<1>6. CASE PageSkipped(t)
  BY <1>1, <1>6 DEF PageSkipped, Skip, TypeOK, frontier, counters
<1>7. CASE FetchRaised(t)
  BY <1>1, <1>7 DEF FetchRaised, Fault, TypeOK, frontier, counters, Ended
<1> QED BY <1>4, <1>5, <1>6, <1>7

\* Links are queued with a depth within max_depth.
LEMMA LinksQueuedTypeOK ==
  ASSUME TypeOK, LinksQueued
  PROVE  TypeOK'
<1>1. Filled.queue \in Seq(Fetches) /\ Filled.queued \subseteq Urls
  BY FillGathers DEF Frontiers
<1>2. queue' \in {queue, Filled.queue} /\ queued' \in {queued, Filled.queued}
  BY DEF LinksQueued, Filled, Frontier0
<1>3. queue' \in Seq(Fetches) /\ queued' \subseteq Urls BY <1>1, <1>2 DEF TypeOK
<1>4. pc' = "handle" /\ UNCHANGED <<site, visited, pending, done, current, counters, cancel, bounds>>
  BY DEF LinksQueued
<1> QED BY <1>3, <1>4 DEF TypeOK, counters, bounds

\* Every step keeps the types.
LEMMA NextTypeOK == TypeOK /\ [Next]_vars => TypeOK'
<1> SUFFICES ASSUME TypeOK, [Next]_vars PROVE TypeOK' OBVIOUS
<1>1. CASE StartFetch BY <1>1, StartFetchTypeOK
<1>2. ASSUME NEW D \in SUBSET pending, Wait(D) PROVE TypeOK'
  <2>1. pending' \subseteq Fetches /\ done' \subseteq Fetches BY <1>2 DEF Wait, TypeOK
  <2> QED BY <1>2, <2>1 DEF Wait, TypeOK, frontier, counters, bounds
<1>3. CASE Complete \/ NextRound
  BY <1>3 DEF Complete, NextRound, TypeOK, Ended, frontier, counters, bounds
<1>4. ASSUME NEW t \in done,
             PageStored(t) \/ PageStoreRaised(t) \/ PageSkipped(t) \/ FetchRaised(t)
      PROVE  TypeOK'
  BY <1>4, HandleTypeOK
<1>5. CASE ProgressWritten BY <1>5 DEF ProgressWritten, TypeOK, frontier, counters, bounds
<1>6. CASE CancelChecked
  <2>1. pending' \subseteq Fetches /\ done' \subseteq Fetches BY <1>6 DEF CancelChecked, TypeOK
  <2>2. pc' \in {"stopped", "links"} BY <1>6 DEF CancelChecked
  <2> QED BY <1>6, <2>1, <2>2 DEF CancelChecked, TypeOK, Ended, frontier, counters, bounds
<1>7. CASE ReportRaised BY <1>7 DEF ReportRaised, Fault, TypeOK, frontier
<1>8. CASE LinksQueued BY <1>8, LinksQueuedTypeOK
<1>9. CASE RequestCancel BY <1>9 DEF RequestCancel, TypeOK, frontier, counters, bounds
<1>10. CASE RunCutShort BY <1>10 DEF RunCutShort, Fault, TypeOK, Ended, frontier, counters
<1>11. CASE UNCHANGED vars BY <1>11 DEF vars, TypeOK, frontier, counters, bounds
<1> QED BY <1>1, <1>2, <1>3, <1>4, <1>5, <1>6, <1>7, <1>8, <1>9, <1>10, <1>11 DEF Next

\* Every variable keeps its type, whatever the sites of a crawl link to.
THEOREM TypeCorrect == Spec => []TypeOK
BY InitTypeOK, NextTypeOK, PTL DEF Spec

----------------------------------------------------------------------------
(* A crawl that runs out of links has followed them all.                     *)

\* Every link of a page waits or was fetched, but for those of the page at hand.
Follows(t) ==
  \/ Range(site[t.url]) \subseteq queued
  \/ t = current /\ pc \in {"progress", "check", "links"}

\* What was ever queued waits or has been fetched; and as long as max_pages is not
\* reached, every link of a page that came is queued and the run goes on until
\* nothing waits.
Coverage ==
  /\ queued \subseteq visited \cup Waiting(queue)
  /\ crawled < MaxPages /\ pc \notin {"stopped", "failed"} =>
       \A t \in parsed : t.depth < MaxDepth => Follows(t)
  /\ pc = "completed" /\ crawled < MaxPages => queue = <<>>

\* The seed waits.
LEMMA InitCoverage == Init => Coverage
<1> SUFFICES ASSUME Init PROVE Coverage OBVIOUS
<1>1. queue[1].url = Seed /\ 1 \in DOMAIN queue BY DEF Init, Found
<1>2. Seed \in Waiting(queue) BY <1>1 DEF Waiting
<1> QED BY <1>2 DEF Init, Coverage

\* The head of the queue was fetched before, or is now.
LEMMA StartFetchCoverage ==
  ASSUME TypeOK, Coverage, StartFetch
  PROVE  Coverage'
<1>1. /\ queue \in Seq(Fetches) /\ queue # <<>> /\ queue' = Tail(queue)
      /\ UNCHANGED <<site, queued, current, counters, pc>>
      /\ visited \cup {Head(queue).url} = visited'
  BY DEF TypeOK, StartFetch, MayFetch
<1>2. Waiting(queue) \subseteq Waiting(Tail(queue)) \cup {Head(queue).url}
  <2> SUFFICES ASSUME NEW k \in DOMAIN queue
               PROVE  queue[k].url \in Waiting(Tail(queue)) \cup {Head(queue).url}
    BY DEF Waiting
  <2>1. CASE k = 1 BY <1>1, <2>1
  <2>2. CASE k # 1
    <3>1. k - 1 \in DOMAIN Tail(queue) /\ Tail(queue)[k - 1] = queue[k] BY <1>1, <2>2
    <3> QED BY <3>1 DEF Waiting
  <2> QED BY <2>1, <2>2
<1>3. queued' \subseteq visited' \cup Waiting(queue') BY <1>1, <1>2 DEF Coverage
<1>4. \A t : Follows(t)' <=> Follows(t) BY <1>1 DEF Follows
<1> QED BY <1>1, <1>3, <1>4 DEF Coverage, counters

\* The links of the page at hand are queued.
LEMMA LinksQueuedCoverage ==
  ASSUME TypeOK, Coverage, LinksQueued
  PROVE  Coverage'
<1>1. /\ pc = "links" /\ pc' = "handle"
      /\ UNCHANGED <<site, visited, current, counters>>
      /\ IF crawled < MaxPages THEN queue' = Filled.queue /\ queued' = Filled.queued
         ELSE UNCHANGED <<queue, queued>>
  BY DEF LinksQueued, Filled, Frontier0
<1>2. /\ queued \subseteq Filled.queued /\ Waiting(queue) \subseteq Waiting(Filled.queue)
      /\ Filled.queued \subseteq queued \cup Waiting(Filled.queue)
  BY FillGathers DEF Gathers
<1>3. queued' \subseteq visited' \cup Waiting(queue') BY <1>1, <1>2 DEF Coverage
<1>4. ASSUME crawled' < MaxPages, NEW t \in parsed', t.depth < MaxDepth
      PROVE  Range(site'[t.url]) \subseteq queued'
  <2>1. crawled < MaxPages /\ t \in parsed BY <1>1, <1>4 DEF counters
  <2>2. Follows(t) BY <1>1, <1>4, <2>1 DEF Coverage
  <2>3. CASE Range(site[t.url]) \subseteq queued BY <1>1, <1>2, <2>1, <2>3
  <2>4. CASE t = current BY <1>1, <1>4, <2>1, <2>4, FillFollows
  <2> QED BY <2>2, <2>3, <2>4 DEF Follows
<1> QED BY <1>1, <1>3, <1>4 DEF Coverage, Follows

\* A page that came is at hand until its links are queued.
LEMMA HandleCoverage ==
  ASSUME TypeOK, Coverage, NEW t \in done,
         PageStored(t) \/ PageStoreRaised(t) \/ PageSkipped(t) \/ FetchRaised(t)
  PROVE  Coverage'
<1>1. pc = "handle" /\ current' = t /\ UNCHANGED <<site, queue, queued, visited>>
  BY DEF PageStored, PageStoreRaised, PageSkipped, FetchRaised, Take, frontier
<1>2. queued' \subseteq visited' \cup Waiting(queue') BY <1>1 DEF Coverage
<1>3. \A u \in parsed : crawled < MaxPages /\ u.depth < MaxDepth =>
        Range(site[u.url]) \subseteq queued
  BY <1>1 DEF Coverage, Follows
<1>4. CASE PageStored(t) \/ PageStoreRaised(t)
  <2>1. /\ crawled' \in {crawled, crawled + 1} /\ parsed' = parsed \cup {t}
        /\ pc' \in {"progress", "check", "links"}
    BY <1>4 DEF PageStored, PageStoreRaised, AfterCount
  <2>2. crawled' < MaxPages => crawled < MaxPages BY <2>1, CrawlAssumption DEF TypeOK
  <2>3. ASSUME crawled' < MaxPages, NEW u \in parsed', u.depth < MaxDepth
        PROVE  Follows(u)'
    <3>1. CASE u \in parsed BY <1>1, <1>3, <2>2, <2>3, <3>1 DEF Follows
    <3>2. CASE u = t BY <1>1, <2>1, <3>2 DEF Follows
    <3> QED BY <2>1, <2>3, <3>1, <3>2
  <2>4. pc' # "completed" BY <2>1
  <2> QED BY <1>2, <2>3, <2>4 DEF Coverage
<1>5. CASE PageSkipped(t)
  <2>1. crawled' = crawled /\ parsed' = parsed /\ pc' = "handle"
    BY <1>1, <1>5 DEF PageSkipped, counters
  <2>2. \A u \in parsed' : crawled' < MaxPages /\ u.depth < MaxDepth =>
          Range(site'[u.url]) \subseteq queued'
    BY <1>1, <1>3, <2>1
  <2> QED BY <1>2, <2>1, <2>2 DEF Coverage, Follows
<1>6. CASE FetchRaised(t)
  <2>1. pc' = "failed" BY <1>6 DEF FetchRaised
  <2> QED BY <1>2, <2>1 DEF Coverage
<1> QED BY <1>4, <1>5, <1>6

\* The other steps queue nothing and take no page in hand.
LEMMA QuietCoverage ==
  ASSUME TypeOK, Coverage,
         UNCHANGED <<site, queue, queued, visited, current, crawled, parsed>>,
         \/ pc' = pc
         \/ pc \notin {"stopped", "failed"} /\ pc' \in {"progress", "check", "links"}
         \/ pc \in {"fill", "handle"} /\ pc' \in {"fill", "handle"}
         \/ pc' \in {"stopped", "failed"}
  PROVE  Coverage'
BY DEF Coverage, Follows

\* A run completes short of max_pages only when nothing waits.
LEMMA CompleteCoverage ==
  ASSUME TypeOK, Coverage, Complete
  PROVE  Coverage'
<1>1. /\ pc = "fill" /\ pc' = "completed"
      /\ UNCHANGED <<site, queue, queued, visited, current, crawled, parsed>>
  BY DEF Complete, frontier, counters
<1>2. ASSUME crawled < MaxPages PROVE queue = <<>>
  <2>1. pending = {} BY <1>2, CrawlAssumption DEF Complete, TypeOK
  <2>2. Cardinality(pending) = 0 BY <2>1, FS_EmptySet
  <2>3. crawled + Cardinality(pending) < MaxPages /\ Cardinality(pending) < Concurrency
    BY <1>2, <2>2, CrawlAssumption DEF TypeOK
  <2> QED BY <2>3 DEF Complete, MayFetch
<1> QED BY <1>1, <1>2 DEF Coverage, Follows

\* Coverage is inductive.
LEMMA NextCoverage == TypeOK /\ Coverage /\ [Next]_vars => Coverage'
<1> SUFFICES ASSUME TypeOK, Coverage, [Next]_vars PROVE Coverage' OBVIOUS
<1>1. CASE StartFetch BY <1>1, StartFetchCoverage
<1>2. ASSUME NEW D \in SUBSET pending, Wait(D) PROVE Coverage'
  BY <1>2, QuietCoverage DEF Wait, frontier, counters
<1>3. CASE Complete BY <1>3, CompleteCoverage
<1>4. CASE NextRound BY <1>4, QuietCoverage DEF NextRound, frontier, counters
<1>5. ASSUME NEW t \in done,
             PageStored(t) \/ PageStoreRaised(t) \/ PageSkipped(t) \/ FetchRaised(t)
      PROVE  Coverage'
  BY <1>5, HandleCoverage
<1>6. CASE ProgressWritten \/ CancelChecked \/ ReportRaised
  BY <1>6, QuietCoverage
  DEF ProgressWritten, CancelChecked, ReportRaised, frontier, counters
<1>7. CASE LinksQueued BY <1>7, LinksQueuedCoverage
<1>8. CASE RequestCancel \/ RunCutShort \/ UNCHANGED vars
  BY <1>8, QuietCoverage DEF RequestCancel, RunCutShort, vars, frontier, counters
<1> QED BY <1>1, <1>2, <1>3, <1>4, <1>5, <1>6, <1>7, <1>8 DEF Next

\* A crawl that completes short of max_pages has fetched every link of every page
\* it got, up to max_depth.
THEOREM ExhaustedCrawlsFetchAll == Spec => []ExhaustedMeansAll
<1> DEFINE Inv == TypeOK /\ Coverage
<1>1. Init => Inv BY InitTypeOK, InitCoverage
<1>2. Inv /\ [Next]_vars => Inv' BY NextTypeOK, NextCoverage
<1>3. Inv => ExhaustedMeansAll
  <2> SUFFICES ASSUME Inv, pc = "completed", crawled < MaxPages,
                      NEW t \in parsed, t.depth < MaxDepth
               PROVE  Range(site[t.url]) \subseteq visited
    BY DEF ExhaustedMeansAll
  <2>1. Range(site[t.url]) \subseteq queued BY DEF Coverage, Follows
  <2>2. queue = <<>> BY DEF Coverage
  <2>3. Waiting(queue) = {} BY <2>2 DEF Waiting
  <2> QED BY <2>1, <2>3 DEF Coverage
<1> QED BY <1>1, <1>2, <1>3, PTL DEF Spec

=============================================================================
