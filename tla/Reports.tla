------------------------------ MODULE Reports ------------------------------
(***************************************************************************)
(* The pages an administrator looks at, all drawn from question_log while   *)
(* questions go on being logged and the tenant may be deleted.  A page is   *)
(* put together from several statements without a transaction: nine for the *)
(* analytics, two for the recommendations, two for each page of the         *)
(* question log.  Insights and gap list read once and then cluster what     *)
(* they read.                                                               *)
(*                                                                         *)
(* A row is named by its time stamp, taken when the entry is made; the task *)
(* that inserts it may run later than that of a younger row.  Stamps are    *)
(* all different: the order of rows with one stamp is the database's choice *)
(* in every statement anew, and is not modelled.                            *)
(***************************************************************************)
EXTENDS Integers, FiniteSets, SequencesExt

CONSTANTS
  Times,        \* the time stamps, in ticks, all different
  Rows,         \* the rows: [source, words, ms, tokens, scores, question]
  NoMs,         \* a row without timing
  Ranges,       \* the periods that can be asked for: <<from, to>>
  TicksPerHour, HoursPerDay, DaysPerWeek,   \* the calendar
  SeriesRows,   \* the 200 of the latency series
  SlowestRows,  \* the 10 slowest
  LowRows,      \* the 200 of the recommendations
  Limit,        \* of the question log: rows on a page
  ClusterRows,  \* the 500 of the insights, the 400 of the gap list
  MinRows,      \* fewer rows are not clustered: 5
  MinLow,       \* fewer low rows are not clustered: 3
  PerCluster,   \* rows for each further cluster tried: 5, 3
  MaxClusters,  \* clusters tried at most: 10, 8
  Silhouettes,  \* the silhouette scores told apart; -1 is the least there is
  MaxWrites     \* bound: rows that arrive while a page is put together

ASSUME ReportsAssumption ==
  /\ Times \subseteq Nat /\ IsFiniteSet(Times)
  /\ {TicksPerHour, HoursPerDay, DaysPerWeek, SlowestRows, Limit, PerCluster} \subseteq Nat \ {0}
  /\ \A row \in Rows :
       row.tokens \in Nat /\ row.ms \in Nat \cup {NoMs} /\ row.scores \in Seq(Int)
  /\ \A n \in {MinRows, MinLow} : \A m \in n..Cardinality(Times) :
       2 < n /\ Min({MaxClusters, m \div PerCluster}) < m
  /\ Silhouettes \subseteq Int /\ -1 \in Silhouettes
  /\ {MaxClusters, MaxWrites} \subseteq Nat

NoRow == [source |-> "none"]

VARIABLES
  log,      \* question_log: the row of each time stamp, NoRow if there is none
  page,     \* the page asked for, "none" before
  range,    \* its period
  got,      \* the answers of its statements so far, in order
  groups,   \* the clusters of the insights or of the gap list
  done,     \* the page is shown, or has failed
  offset, total, shown,  \* the question log: how far it was leafed through
  writes,   \* rows that arrived since the page was asked for
  before,   \* history: the rows of the period when the page was asked for
  late,     \* history: rows that arrived since the last COUNT
  emptied   \* history: the tenant's log was deleted

request == <<page, range>>
leaf    == <<offset, total, shown>>
history == <<before, late, emptied>>
vars    == <<log, request, got, groups, done, leaf, writes, history>>

Logged  == {t \in Times : log[t] # NoRow}
InRange == {t \in Logged : t \in range[1]..range[2]}

Init ==
  /\ log \in [Times -> Rows \cup {NoRow}]
  /\ page = "none" /\ range = <<0, 0>>
  /\ got = <<>> /\ groups = <<>> /\ done = FALSE
  /\ offset = 0 /\ total = 0 /\ shown = {}
  /\ writes = 0
  /\ before = {} /\ late = 0 /\ emptied = FALSE

-----------------------------------------------------------------------------
(* What goes on meanwhile.                                                   *)

\* insert_question_log_entry: a row of any time that was still missing.
LogEntry ==
  /\ page # "none" /\ ~done /\ writes < MaxWrites
  /\ \E t \in Times \ Logged, row \in Rows : log' = [log EXCEPT ![t] = row]
  /\ writes' = writes + 1
  /\ late' = late + 1
  /\ UNCHANGED <<request, got, groups, done, leaf, before, emptied>>

\* DELETE FROM question_log WHERE tenant_id, when the tenant is deleted
DeleteTenantLog ==
  /\ page # "none" /\ ~done /\ ~emptied
  /\ log' = [t \in Times |-> NoRow]
  /\ emptied' = TRUE
  /\ UNCHANGED <<request, got, groups, done, leaf, writes, before, late>>

-----------------------------------------------------------------------------
(* Pages of several statements.                                              *)

\* GROUP BY key: how many rows of S there are in each group.
Tally(S, key(_)) ==
  [g \in {key(t) : t \in S} |-> Cardinality({t \in S : key(t) = g})]

AddUp(f)  == FoldFunction(+, 0, f)
Tokens(S) == AddUp([t \in S |-> log[t].tokens])
Timed(S)  == {t \in S : log[t].ms # NoMs}

\* ORDER BY timestamp DESC LIMIT n
Newest(S, n) == {t \in S : Cardinality({u \in S : u > t}) < n}

Slot(t) == t \div TicksPerHour
Day(t)  == Slot(t) \div HoursPerDay

\* Variant: grouped by the hour slot, so that one week overwrites the other.
CellsOfLastWeek ==
  LET cell(t) == <<Day(t) % DaysPerWeek, Slot(t) % HoursPerDay>>
      last(c) == Max({Slot(t) : t \in {u \in InRange : cell(u) = c}})
  IN [c \in {cell(t) : t \in InRange} |-> Cardinality({t \in InRange : Slot(t) = last(c)})]

\* EXTRACT(DOW), EXTRACT(HOUR): the same hour of all weeks together
Heatmap == Tally(InRange, LAMBDA t : <<Day(t) % DaysPerWeek, Slot(t) % HoursPerDay>>)

\* A score in tenths of a thousandth: FLOOR(LEAST(score, 0.9999) / 0.05)
Bucket(score) == Min({score, 9999}) \div 500

\* The scores of the rows S, each by its place
Scores(S) == UNION {{<<t, n>> : n \in DOMAIN log[t].scores} : t \in S}
Score(c)  == log[c[1]].scores[c[2]]

\* The 20 buckets; a score below zero falls into none of them.
ScoreBuckets ==
  Tally({c \in Scores(InRange) : Bucket(Score(c)) \in 0..19}, LAMBDA c : Bucket(Score(c)))

WordLabel(w) ==
  CASE w \in 0..4 -> 0 [] w \in 5..9 -> 1 [] w \in 10..14 -> 2
    [] w \in 15..19 -> 3 [] w \in 20..29 -> 4 [] OTHER -> 5

\* ORDER BY timing_total_ms DESC LIMIT: among equals, any
Slowest(T) ==
  /\ T \subseteq Timed(InRange)
  /\ Cardinality(T) = Min({SlowestRows, Cardinality(Timed(InRange))})
  /\ \A t \in T, u \in Timed(InRange) \ T : log[t].ms >= log[u].ms

Longest(S) == Max({0} \cup {log[t].ms : t \in Timed(S)})

\* The chunks of a rag answer score below 0.55 on average.
IsLow(t) == FoldLeft(+, 0, log[t].scores) < 5500 * Len(log[t].scores)

WithChunks == {t \in InRange : log[t].source = "rag" /\ log[t].scores # <<>>}

Totals ==
  [of |-> Tally(InRange, LAMBDA t : log[t].source),
   tokens |-> Tokens(InRange), longest |-> Longest(InRange)]

Volumes(key(_)) == [of |-> Tally(InRange, key)]

\* What each statement of a page answers, in order; several answers are possible
\* only where rows are equally slow.
Answer(statement) ==
  CASE statement = "summary"  -> {Totals}
    [] statement = "by_day"   -> {Volumes(LAMBDA t : <<Day(t), log[t].source>>)}
    [] statement = "by_hour"  -> {Volumes(Slot)}
    [] statement = "heatmap"  -> {[of |-> Heatmap]}
    [] statement = "latency"  -> {[ms |-> {log[t].ms : t \in Newest(Timed(InRange), SeriesRows)}]}
    [] statement = "tokens"   -> {[tokens |-> AddUp([d \in {Day(t) : t \in InRange} |->
                                     Tokens({t \in InRange : Day(t) = d})])]}
    [] statement = "scores"   -> {[scored |-> AddUp(ScoreBuckets)]}
    [] statement = "words"    -> {Volumes(LAMBDA t : WordLabel(log[t].words))}
    [] statement = "slowest"  -> {[longest |-> Longest(T)] : T \in {S \in SUBSET InRange : Slowest(S)}}
    [] statement = "stats"    -> {Totals}
    [] statement = "low"      -> {[low |-> Cardinality({t \in Newest(WithChunks, LowRows) : IsLow(t)})]}

Statements ==
  [analytics |-> <<"summary", "by_day", "by_hour", "heatmap", "latency", "tokens",
                   "scores", "words", "slowest">>,
   recommendations |-> <<"stats", "low">>]

\* A page is asked for.
Ask ==
  /\ page = "none"
  /\ page' \in {"analytics", "recommendations", "insights", "gaplist", "qlog"}
  /\ range' \in Ranges
  /\ before' = {t \in Logged : t \in range'[1]..range'[2]}
  /\ UNCHANGED <<log, got, groups, done, leaf, writes, late, emptied>>

\* Its next statement; the last one completes it.
Read ==
  /\ page \in DOMAIN Statements /\ ~done
  /\ \E answer \in Answer(Statements[page][Len(got) + 1]) : got' = Append(got, answer)
  /\ done' = (Len(got') = Len(Statements[page]))
  /\ UNCHANGED <<log, request, groups, leaf, writes, history>>

-----------------------------------------------------------------------------
(* Clusters.                                                                 *)

\* Variant: a tie goes to the larger number of clusters.
BestKLast(maxK, sc) ==
  CHOOSE k \in 2..maxK : \A j \in 2..maxK : sc[j] < sc[k] \/ (sc[j] = sc[k] /\ j <= k)

\* The first number of clusters with the best silhouette, 2 if none is above -1
BestK(maxK, sc) ==
  CHOOSE k \in 2..maxK : \A j \in 2..maxK : sc[j] < sc[k] \/ (sc[j] = sc[k] /\ k <= j)

\* With as many clusters as there are different questions each is a cluster, and
\* a larger number only leaves clusters without rows: the score stays.
Silhouette(maxK, different) ==
  {sc \in [2..maxK -> Silhouettes] : \A j, k \in different..maxK : sc[j] = sc[k]}

\* KMeans: equal questions together, and no cluster empty that could have a row
Labels(S, k) ==
  LET asked == {log[t].question : t \in S}
  IN {f \in [asked -> 0..(k - 1)] :
        Cardinality({f[q] : q \in asked}) = Min({k, Cardinality(asked)})}

\* The rows S of one statement: too few are not clustered; the silhouette of
\* questions that are all the same raises, and so does an embedding call that fails.
Cluster(S, least) ==
  LET different == Cardinality({log[t].question : t \in S})
      maxK == Max({2, Min({MaxClusters, Cardinality(S) \div PerCluster})})
  IN \/ groups' = <<>>
     \/ /\ Cardinality(S) >= least /\ different > 1
        /\ \E sc \in Silhouette(maxK, different) : \E f \in Labels(S, BestK(maxK, sc)) :
             groups' = [c \in 0..(BestK(maxK, sc) - 1) |-> {t \in S : f[log[t].question] = c}]

Clustering(S, least) ==
  /\ ~done
  /\ Cluster(S, least)
  /\ done' = TRUE
  /\ UNCHANGED <<log, request, got, leaf, writes, history>>

GetInsights == page = "insights" /\ Clustering(Newest(InRange, ClusterRows), MinRows)

GetGaplist ==
  LET rows == Newest(WithChunks, ClusterRows)
  IN /\ page = "gaplist"
     /\ Clustering(IF Cardinality(rows) < MinRows THEN {} ELSE {t \in rows : IsLow(t)}, MinLow)

-----------------------------------------------------------------------------
(* Leafing through the question log.                                         *)

\* SELECT COUNT(*) of the page at offset
CountRows ==
  /\ page = "qlog" /\ ~done /\ got = <<>>
  /\ total' = Cardinality(InRange)
  /\ got' = <<"counted">>
  /\ late' = 0
  /\ UNCHANGED <<log, request, groups, done, offset, shown, writes, before, emptied>>

\* LIMIT Limit OFFSET offset, newest first
PageRows == Newest(InRange, offset + Limit) \ Newest(InRange, offset)

\* Variant: the button is greyed out one row early.
IsLastEarly == offset + Limit + 1 >= total

\* Variant: the button looks at the page before.
IsLastLate == offset >= total

\* qlog-next is disabled
IsLast == offset + Limit >= total

\* The rows of the page come; the next one is asked for while the button allows,
\* and an empty page ends it.
ShowPage ==
  /\ page = "qlog" /\ ~done /\ got # <<>>
  /\ shown' = shown \cup PageRows
  /\ done' = (IsLast \/ PageRows = {})
  /\ offset' = IF done' THEN offset ELSE offset + Limit
  /\ got' = <<>>
  /\ UNCHANGED <<log, request, groups, total, writes, history>>

Next ==
  \/ Ask \/ LogEntry \/ DeleteTenantLog
  \/ Read \/ GetInsights \/ GetGaplist \/ CountRows \/ ShowPage

Spec == Init /\ [][Next]_vars

-----------------------------------------------------------------------------
(* Properties.                                                               *)

\* The type of every variable; no page of the question log is asked for that
\* begins after the last row counted.
TypeOK ==
  /\ log \in [Times -> Rows \cup {NoRow}]
  /\ page \in DOMAIN Statements => Len(got) <= Len(Statements[page])
  /\ shown \subseteq Times /\ before \subseteq Times
  /\ page \in DOMAIN Statements => (done <=> Len(got) = Len(Statements[page]))
  /\ writes \in 0..MaxWrites /\ late \in 0..writes
  /\ offset = 0 \/ offset < total \/ emptied

\* The sections so far that have a number of a kind, and the number
Sections(field)  == {k \in DOMAIN got : field \in DOMAIN got[k]}
Number(field, k) == IF field = "of" THEN AddUp(got[k].of) ELSE got[k][field]

\* The sections of a page tell of one log although each reads it anew: as long as
\* the tenant is there, whatever the rows are grouped by (source, day, hour, hour
\* of the week, words), the sums, the tokens and the longest time never fall from
\* one section to the next, begin with what was there when the page was asked for,
\* and end with what is there now; no slot is larger than its cell of the heat map,
\* no time of the series longer than the slowest; the buckets hold every score that
\* is not negative, and the low questions are among the rows.
SectionsTellOneLog ==
  page \in DOMAIN Statements /\ ~emptied =>
    /\ \A field \in {"of", "tokens", "longest"} :
         \A j, k \in Sections(field) : j <= k => Number(field, j) <= Number(field, k)
    /\ \A k \in Sections("of") : Number("of", k) \in Cardinality(before)..Cardinality(InRange)
    /\ \A k \in Sections("tokens") : Number("tokens", k) \in Tokens(before)..Tokens(InRange)
    /\ \A k \in Sections("longest") : Number("longest", k) \in Longest(before)..Longest(InRange)
    /\ page = "analytics" /\ Len(got) > 3 =>
         \A s \in DOMAIN got[3].of :
           got[3].of[s] <= got[4].of[<<(s \div HoursPerDay) % DaysPerWeek, s % HoursPerDay>>]
    /\ page = "analytics" /\ done => \A ms \in got[5].ms : ms <= got[9].longest
    /\ page = "analytics" /\ Len(got) > 6 =>
         got[7].scored >= Cardinality({c \in Scores(before) : Score(c) >= 0})
    /\ page = "recommendations" /\ done => got[2].low <= Cardinality(InRange)

\* Leafing to the end shows every row that was there at the beginning, however
\* many arrive on the way and push others to later pages: only those are missed
\* that rows arriving between the COUNT of the last page and its SELECT push off it.
\* This rests on time stamps that differ: the SELECT orders by nothing else, and two
\* rows of one stamp on the edge of a page might change places.
PagesMissOnlyLateRows ==
  page = "qlog" /\ done /\ ~emptied => Cardinality(before \ shown) <= late

\* No cluster is without a row: its averages are divided by their number.  (The
\* number of clusters tried may be larger than that of the different questions.)
NoEmptyCluster == \A c \in DOMAIN groups : groups[c] # {}

=============================================================================
