------------------------------- MODULE Answers -------------------------------
(***************************************************************************)
(* One tenant's curated answers and guardrails, each kept twice: as a row   *)
(* in Postgres, which the admin console lists, and as points in the         *)
(* tenant's Qdrant collection, which the ask flow searches.  No transaction *)
(* spans the two, and requests for one item run side by side.  Beside them  *)
(* questions are asked, plain or streamed, and logged by a task nobody      *)
(* awaits, and the tenant may be suspended, reinstated or deleted.          *)
(*                                                                         *)
(* Every await on a store is a step.  It may raise without effect, or after *)
(* it took effect (a time-out, a lost connection, a process that stops).    *)
(* Texts are members of small sets and a similarity above its threshold is  *)
(* membership in Near.  A guardrail point has a fresh id, so one seed may be *)
(* indexed twice; a third copy counts as the second.  Names, responses and   *)
(* thresholds of guardrails are edited like the rest and not told apart.     *)
(***************************************************************************)
EXTENDS Naturals, FiniteSets

CONSTANTS
  Curateds,    \* curated_id values ever drawn
  Guardrails,  \* guardrail_id values ever drawn
  Phrases,     \* questions of curated answers and seeds of guardrails
  Texts,       \* answers of curated answers
  SeedLists,   \* the lists of seeds an admin enters
  Near,        \* Near[q]: the phrases similar enough to question q
  Admins,      \* console requests in flight at the same time
  Asks,        \* questions asked, by request_id
  TopK,        \* top_k of the guardrail search (5 in the code)
  MaxCalls,    \* bound: console requests
  MaxFailures, \* bound: calls that raise
  None

Items     == Curateds \cup Guardrails
Questions == DOMAIN Near

ASSUME AnswersAssumption ==
  /\ Curateds \cap Guardrails = {}
  /\ SeedLists \subseteq SUBSET Phrases
  /\ Near \in [Questions -> SUBSET Phrases]
  /\ TopK \in Nat /\ MaxCalls \in Nat /\ MaxFailures \in Nat
  /\ None \notin Texts \cup Items

VARIABLES
  tenant,     \* the row of tenants: "active", "suspended" or "gone"
  rows,       \* the row of each item, None when there is none
  collection, \* does the tenant's Qdrant collection exist
  points,     \* each item's points, by their payloads
  task,       \* what each console request does next
  drawn,      \* ids already drawn by uuid4
  ask,        \* what each question does next
  pending,    \* log tasks created and not yet run
  log,        \* question_log: the source logged for each request_id
  calls,      \* console requests so far, to bound them
  failures,   \* calls that raised so far, to bound them
  doubt,      \* history: items whose requests overlapped or failed since the last clean one
  lost,       \* history: questions whose log entry was dropped
  clean       \* history: the tenant was deleted with nothing else going on

stores == <<rows, collection, points>>
asking == <<ask, pending, log, lost>>
vars   == <<tenant, stores, task, drawn, asking, calls, failures, doubt, clean>>

CuratedRows   == [question : Phrases, answer : Texts]
GuardrailRows == [seeds : SeedLists, enabled : BOOLEAN]
Rows          == CuratedRows \cup GuardrailRows

\* Where the answer of a question comes from; an error is logged as well.
Sources == {"guardrail", "curated", "rag", "error"}

ASSUME NoneAssumption == None \notin Rows \cup Sources

\* The payloads the row of an item is indexed under: a curated answer has one
\* point with its own id, a guardrail one fresh point for each seed.
Payloads(row) ==
  IF row \in CuratedRows THEN {row}
  ELSE {[seed |-> s, enabled |-> row.enabled, copy |-> 1] : s \in row.seeds}

\* Guardrail points upserted beside those there are: an equal one stays as well.
Added(old, new) == old \cup new \cup {[p EXCEPT !.copy = 2] : p \in old \cap new}

\* Fields of an update request; what is left out keeps its value.
CuratedFields   == [question : Phrases] \cup [answer : Texts] \cup CuratedRows
GuardrailFields == [seeds : SeedLists] \cup [enabled : BOOLEAN] \cup GuardrailRows
Set(row, fields) ==
  [f \in DOMAIN row |-> IF f \in DOMAIN fields THEN fields[f] ELSE row[f]]

Job(pc, item, row) ==
  [pc |-> pc, item |-> item, row |-> row, fields |-> None, alone |-> TRUE]
Idle == Job("idle", None, None)

UpsertPcs == {"upsert", "upsert_first", "upsert_lost"}

\* The items a request reads or writes: all of them for a delete of the tenant.
Touched(t) == {i \in Items : t.pc # "idle" /\ t.item \in {None, i}}

Settled(i) == i \notin doubt /\ \A h \in Admins : i \notin Touched(task[h])

NotAsked  == [pc |-> "new", question |-> None, stream |-> FALSE,
              source |-> None, text |-> None]
AskEnded  == {"new", "logged", "refused", "failed", "left"}

Init ==
  /\ tenant = "active"
  /\ rows = [i \in Items |-> None]
  /\ collection = FALSE
  /\ points = [i \in Items |-> {}]
  /\ task = [h \in Admins |-> Idle]
  /\ drawn = {}
  /\ ask = [a \in Asks |-> NotAsked]
  /\ pending = {}
  /\ log = [a \in Asks |-> None]
  /\ calls = 0
  /\ failures = 0
  /\ doubt = {}
  /\ lost = {}
  /\ clean = FALSE

-----------------------------------------------------------------------------
(* A console request: it begins, moves on, ends, or raises.                  *)

\* A request begins.  One that meets another on the same item leaves the item
\* in doubt, and neither of the two can settle it.
Begin(h, t) ==
  LET others == {g \in Admins : Touched(task[g]) \cap Touched(t) # {}} IN
  /\ task[h].pc = "idle"
  /\ calls < MaxCalls
  /\ calls' = calls + 1
  /\ task' = [g \in Admins |->
       IF g = h THEN [t EXCEPT !.alone = t.alone /\ others = {}]
       ELSE [task[g] EXCEPT !.alone = @ /\ g \notin others]]
  /\ doubt' = doubt \cup (Touched(t) \cap UNION {Touched(task[g]) : g \in others})

Goto(h, pc) ==
  /\ task' = [task EXCEPT ![h].pc = pc]
  /\ UNCHANGED <<doubt, failures>>

\* The request succeeds; if nobody interfered its item is settled again.
Finish(h) ==
  /\ task' = [task EXCEPT ![h] = Idle]
  /\ doubt' = IF task[h].alone THEN doubt \ Touched(task[h]) ELSE doubt
  /\ UNCHANGED failures

Raise(h) ==
  /\ task' = [task EXCEPT ![h] = Idle]
  /\ doubt' = doubt \cup Touched(task[h])

\* A call that takes effect and yet raises.
RaiseAfter(h) == failures < MaxFailures /\ failures' = failures + 1 /\ Raise(h)

\* A call that raises without effect; an upsert may have made the collection.
CallFails(h) ==
  /\ task[h].pc \notin {"idle", "drop_collection"}
  /\ RaiseAfter(h)
  /\ collection' \in {collection, collection \/ task[h].pc \in UpsertPcs}
  /\ UNCHANGED <<tenant, rows, points, drawn, asking, calls, clean>>

-----------------------------------------------------------------------------
(* Curated answers: the row first, then the point.                           *)

BeginCreateCurated(h) ==
  /\ \E c \in Curateds \ drawn, row \in CuratedRows :
       /\ drawn' = drawn \cup {c}
       /\ Begin(h, Job("insert_curated", c, row))
  /\ UNCHANGED <<tenant, stores, asking, failures, clean>>

\* insert_curated_answer: the foreign key needs the tenant.
InsertCurated(h) ==
  /\ task[h].pc = "insert_curated"
  /\ \/ /\ tenant # "gone"
        /\ rows' = [rows EXCEPT ![task[h].item] = task[h].row]
        /\ Goto(h, "upsert") \/ RaiseAfter(h)
     \/ tenant = "gone" /\ Raise(h) /\ UNCHANGED <<rows, failures>>
  /\ UNCHANGED <<tenant, collection, points, drawn, asking, calls, clean>>

\* get_curated_answer: the point to write is computed from this row.
BeginUpdateCurated(h) ==
  /\ \E c \in Curateds, fields \in CuratedFields :
       /\ rows[c] # None
       /\ Begin(h, [Job("update_curated", c, Set(rows[c], fields)) EXCEPT !.fields = fields])
  /\ UNCHANGED <<tenant, stores, drawn, asking, failures, clean>>

\* UPDATE curated_answers, of the fields given; no row any more is no error yet.
UpdateCurated(h) ==
  LET c == task[h].item IN
  /\ task[h].pc = "update_curated"
  /\ rows' = IF rows[c] = None THEN rows
             ELSE [rows EXCEPT ![c] = Set(rows[c], task[h].fields)]
  /\ Goto(h, IF rows[c] = None THEN "upsert_lost" ELSE "upsert") \/ RaiseAfter(h)
  /\ UNCHANGED <<tenant, collection, points, drawn, asking, calls, clean>>

BeginDeleteCurated(h) ==
  /\ \E c \in Curateds : rows[c] # None /\ Begin(h, Job("delete_row", c, None))
  /\ UNCHANGED <<tenant, stores, drawn, asking, failures, clean>>

-----------------------------------------------------------------------------
(* Guardrails: created points first, updated row first, deleted points first.*)

BeginCreateGuardrail(h) ==
  /\ \E g \in Guardrails \ drawn, seeds \in SeedLists \ {{}} :
       /\ drawn' = drawn \cup {g}
       /\ Begin(h, Job("upsert_first", g, [seeds |-> seeds, enabled |-> TRUE]))
  /\ clean' = FALSE
  /\ UNCHANGED <<tenant, stores, asking, failures>>

InsertGuardrail(h) ==
  /\ task[h].pc = "insert_guardrail"
  /\ \/ /\ tenant # "gone"
        /\ rows' = [rows EXCEPT ![task[h].item] = task[h].row]
        /\ Finish(h) \/ RaiseAfter(h)
     \/ tenant = "gone" /\ Raise(h) /\ UNCHANGED <<rows, failures>>
  /\ UNCHANGED <<tenant, collection, points, drawn, asking, calls, clean>>

\* Variant: the row indexed is the one read before the update.
BeginUpdateGuardrailStale(h) ==
  /\ \E g \in Guardrails, fields \in GuardrailFields :
       /\ rows[g] # None
       /\ rows' = [rows EXCEPT ![g] = Set(rows[g], fields)]
       /\ Begin(h, Job("clear_points", g, rows[g]))
  /\ UNCHANGED <<tenant, collection, points, drawn, asking, failures, clean>>

\* UPDATE guardrails ... RETURNING: the row it returns is the one indexed.
BeginUpdateGuardrail(h) ==
  /\ \E g \in Guardrails, fields \in GuardrailFields :
       LET row == Set(rows[g], fields) IN
       /\ rows[g] # None
       /\ rows' = [rows EXCEPT ![g] = row]
       /\ Begin(h, Job("clear_points", g, row))
  /\ UNCHANGED <<tenant, collection, points, drawn, asking, failures, clean>>

BeginDeleteGuardrail(h) ==
  /\ \E g \in Guardrails : rows[g] # None /\ Begin(h, Job("delete_points", g, None))
  /\ UNCHANGED <<tenant, stores, drawn, asking, failures, clean>>

-----------------------------------------------------------------------------
(* The calls on the two stores that both kinds of items share.               *)

\* Variant: every curated point gets a fresh id.
IndexedAfresh(h) ==
  [points EXCEPT ![task[h].item] = @ \cup Payloads(task[h].row)]

\* upsert_vectors: a curated point is replaced, guardrail points are added.
Indexed(h) ==
  LET i == task[h].item IN
  [points EXCEPT ![i] = IF i \in Curateds THEN Payloads(task[h].row)
                        ELSE Added(@, Payloads(task[h].row))]

\* The last call but for a create of a guardrail.  An update of a curated answer
\* that found no row to write raises only now, with the point written.
UpsertVectors(h) ==
  /\ task[h].pc \in UpsertPcs
  /\ collection' = TRUE
  /\ points' = Indexed(h)
  /\ \/ task[h].pc = "upsert_first" /\ Goto(h, "insert_guardrail")
     \/ task[h].pc = "upsert" /\ Finish(h)
     \/ task[h].pc = "upsert_lost" /\ Raise(h) /\ UNCHANGED failures
     \/ RaiseAfter(h)
  /\ UNCHANGED <<tenant, rows, drawn, asking, calls, clean>>

\* delete_vectors, delete_guardrail_vectors: they raise without a collection.
DeleteVectors(h) ==
  /\ task[h].pc \in {"clear_points", "delete_points", "delete_last"}
  /\ \/ /\ collection
        /\ points' = [points EXCEPT ![task[h].item] = {}]
        /\ \/ task[h].pc = "clear_points" /\ task[h].row.seeds # {} /\ Goto(h, "upsert")
           \/ task[h].pc = "clear_points" /\ task[h].row.seeds = {} /\ Finish(h)
           \/ task[h].pc = "delete_points" /\ Goto(h, "delete_row")
           \/ task[h].pc = "delete_last" /\ Finish(h)
           \/ RaiseAfter(h)
     \/ ~collection /\ Raise(h) /\ UNCHANGED <<points, failures>>
  /\ UNCHANGED <<tenant, rows, collection, drawn, asking, calls, clean>>

\* delete_curated_answer, delete_guardrail
DeleteRow(h) ==
  LET i == task[h].item IN
  /\ task[h].pc = "delete_row"
  /\ rows' = [rows EXCEPT ![i] = None]
  /\ \/ i \in Curateds /\ Goto(h, "delete_last")
     \/ i \in Guardrails /\ Finish(h)
     \/ RaiseAfter(h)
  /\ UNCHANGED <<tenant, collection, points, drawn, asking, calls, clean>>

-----------------------------------------------------------------------------
(* The tenant: suspended, reinstated, deleted.                               *)

Suspend(h) ==
  /\ task[h].pc = "idle" /\ calls < MaxCalls /\ tenant = "active"
  /\ tenant' = "suspended"
  /\ calls' = calls + 1
  /\ UNCHANGED <<stores, task, drawn, asking, failures, doubt, clean>>

Reinstate(h) ==
  /\ task[h].pc = "idle" /\ calls < MaxCalls /\ tenant = "suspended"
  /\ tenant' = "active"
  /\ calls' = calls + 1
  /\ UNCHANGED <<stores, task, drawn, asking, failures, doubt, clean>>

Quiet == pending = {} /\ \A a \in Asks : ask[a].pc \in AskEnded

\* delete_tenant looks for no row first: a repeated delete runs in full.
BeginDeleteTenant(h) ==
  /\ Begin(h, [Job("drop_collection", None, None) EXCEPT !.alone = Quiet])
  /\ UNCHANGED <<tenant, stores, drawn, asking, failures, clean>>

\* drop_collection; whatever it raises is swallowed.
DropCollection(h) ==
  /\ task[h].pc = "drop_collection"
  /\ \/ /\ collection' = FALSE
        /\ points' = [i \in Items |-> {}]
        /\ Goto(h, "delete_log")
     \/ /\ failures < MaxFailures
        /\ failures' = failures + 1
        /\ task' = [task EXCEPT ![h].pc = "delete_log", ![h].alone = FALSE]
        /\ doubt' = Items
        /\ UNCHANGED <<collection, points>>
  /\ UNCHANGED <<tenant, rows, drawn, asking, calls, clean>>

\* Variant: the log is left to the cascade.
DeleteLogCascade(h) ==
  /\ task[h].pc = "delete_log"
  /\ Goto(h, "delete_tenant") \/ RaiseAfter(h)
  /\ UNCHANGED <<tenant, stores, drawn, asking, calls, clean>>

\* DELETE FROM question_log, which has no foreign key
DeleteLog(h) ==
  /\ task[h].pc = "delete_log"
  /\ lost' = lost \cup {a \in Asks : log[a] # None}
  /\ log' = [a \in Asks |-> None]
  /\ Goto(h, "delete_tenant") \/ RaiseAfter(h)
  /\ UNCHANGED <<tenant, stores, drawn, ask, pending, calls, clean>>

\* DELETE FROM tenants: the rows of both tables go with it.
DeleteTenantRow(h) ==
  /\ task[h].pc = "delete_tenant"
  /\ tenant' = "gone"
  /\ rows' = [i \in Items |-> None]
  /\ clean' = (clean \/ task[h].alone)
  /\ Finish(h) \/ RaiseAfter(h)
  /\ UNCHANGED <<collection, points, drawn, asking, calls>>

-----------------------------------------------------------------------------
(* Asking a question.                                                        *)

Move(a, pc) == ask' = [ask EXCEPT ![a].pc = pc]

\* require_widget_key and _validate_request
Admit(a) ==
  /\ ask[a].pc = "new"
  /\ \E q \in Questions, stream \in BOOLEAN :
       ask' = [ask EXCEPT ![a] = [NotAsked EXCEPT !.question = q, !.stream = stream,
                 !.pc = IF tenant = "active" THEN "guardrail" ELSE "refused"]]
  /\ task' = [h \in Admins |->
       [task[h] EXCEPT !.alone = @ /\ (task[h].pc = "idle" \/ task[h].item # None)]]
  /\ UNCHANGED <<tenant, stores, drawn, pending, log, calls, failures, doubt, lost, clean>>

\* Variant: the early return of a curated answer forgets the log.
ReplyUnlogged(a, source, text) ==
  /\ ask' = [ask EXCEPT ![a].source = source, ![a].text = text,
                        ![a].pc = IF ask[a].stream THEN "sent" ELSE "logged"]
  /\ pending' = IF ask[a].stream \/ source = "curated" THEN pending ELSE pending \cup {a}

\* The answer is found: a plain request logs and replies, a stream replies
\* and logs afterwards.
Reply(a, source, text) ==
  /\ ask' = [ask EXCEPT ![a].source = source, ![a].text = text,
                        ![a].pc = IF ask[a].stream THEN "sent" ELSE "logged"]
  /\ pending' = IF ask[a].stream THEN pending ELSE pending \cup {a}

GuardrailPoints == UNION {{g} \X points[g] : g \in Guardrails}
IsNear(p, q)    == p.seed \in Near[q]

\* One search returns every guardrail point.
AllFit == Cardinality(GuardrailPoints) <= TopK

\* similarity_search of guardrail points: the TopK best, enabled or not and near
\* or not, since score_threshold is 0.0 and each has a threshold of its own.  A
\* point of a negative score is left out, but never one that is near.
GuardrailHits(q) ==
  LET near == {x \in GuardrailPoints : IsNear(x[2], q)} IN
  {hits \in SUBSET GuardrailPoints :
     \/ near \subseteq hits /\ Cardinality(hits) <= TopK
     \/ ~AllFit /\ Cardinality(hits) = TopK}

\* Variant: disabled guardrails answer too.
AppliesDisabled(p, q) == IsNear(p, q)

Applies(p, q) == p.enabled /\ IsNear(p, q)

\* The guardrail check; _ensure_collection makes a collection that is not there.
CheckGuardrails(a) ==
  LET q == ask[a].question IN
  /\ ask[a].pc = "guardrail"
  /\ collection' = TRUE
  /\ \E hits \in GuardrailHits(q) :
       \/ (\E x \in hits : Applies(x[2], q)) /\ Reply(a, "guardrail", None)
       \/ (\A x \in hits : ~Applies(x[2], q)) /\ Move(a, "curated") /\ UNCHANGED pending
  /\ UNCHANGED <<tenant, rows, points, task, drawn, log, calls, failures, doubt, lost, clean>>

CuratedHits(q) == {p \in UNION {points[c] : c \in Curateds} : p.question \in Near[q]}

\* The curated answer check, with top_k = 1: one of the nearest.
CheckCurated(a) ==
  LET q == ask[a].question IN
  /\ ask[a].pc = "curated"
  /\ collection' = TRUE
  /\ \/ \E p \in CuratedHits(q) : Reply(a, "curated", p.answer)
     \/ CuratedHits(q) = {} /\ Move(a, "rag") /\ UNCHANGED pending
  /\ UNCHANGED <<tenant, rows, points, task, drawn, log, calls, failures, doubt, lost, clean>>

\* Retrieval and _generate: an answer, or an error that is logged as well.
Generate(a) ==
  /\ ask[a].pc = "rag"
  /\ collection' = TRUE
  /\ \E source \in {"rag", "error"} : Reply(a, source, None)
  /\ UNCHANGED <<tenant, rows, points, task, drawn, log, calls, failures, doubt, lost, clean>>

\* A search or an embedding raises: nothing is logged.
SearchFails(a) ==
  /\ ask[a].pc \in {"guardrail", "curated", "rag"}
  /\ failures < MaxFailures
  /\ failures' = failures + 1
  /\ collection' \in {collection, TRUE}
  /\ Move(a, "failed")
  /\ UNCHANGED <<tenant, rows, points, task, drawn, pending, log, calls, doubt, lost, clean>>

\* ask_stream goes on after its last event.
LogStream(a) ==
  /\ ask[a].pc = "sent"
  /\ Move(a, "logged")
  /\ pending' = pending \cup {a}
  /\ UNCHANGED <<tenant, stores, task, drawn, log, calls, failures, doubt, lost, clean>>

\* The client of a stream is gone and the generator is closed where it stands.
Disconnect(a) ==
  /\ ask[a].stream
  /\ ask[a].pc \in {"guardrail", "curated", "rag", "sent"}
  /\ Move(a, "left")
  /\ lost' = IF ask[a].pc = "sent" THEN lost \cup {a} ELSE lost
  /\ UNCHANGED <<tenant, stores, task, drawn, pending, log, calls, failures, doubt, clean>>

\* insert_question_log_entry: ON CONFLICT (request_id) DO NOTHING
InsertLogEntry(a) ==
  /\ a \in pending
  /\ pending' = pending \ {a}
  /\ log' = [log EXCEPT ![a] = IF @ = None THEN ask[a].source ELSE @]
  /\ UNCHANGED <<tenant, stores, task, drawn, ask, calls, failures, doubt, lost, clean>>

\* The task raises or dies with its process, and nobody awaits it.
LoseLogEntry(a) ==
  /\ a \in pending
  /\ failures < MaxFailures
  /\ failures' = failures + 1
  /\ pending' = pending \ {a}
  /\ lost' = lost \cup {a}
  /\ UNCHANGED <<tenant, stores, task, drawn, ask, log, calls, doubt, clean>>

Next ==
  \/ \E h \in Admins :
       \/ CallFails(h)
       \/ BeginCreateCurated(h) \/ InsertCurated(h)
       \/ BeginUpdateCurated(h) \/ UpdateCurated(h) \/ BeginDeleteCurated(h)
       \/ BeginCreateGuardrail(h) \/ InsertGuardrail(h)
       \/ BeginUpdateGuardrail(h) \/ BeginDeleteGuardrail(h)
       \/ UpsertVectors(h) \/ DeleteVectors(h) \/ DeleteRow(h)
       \/ Suspend(h) \/ Reinstate(h) \/ BeginDeleteTenant(h)
       \/ DropCollection(h) \/ DeleteLog(h) \/ DeleteTenantRow(h)
  \/ \E a \in Asks :
       \/ Admit(a) \/ CheckGuardrails(a) \/ CheckCurated(a) \/ Generate(a)
       \/ SearchFails(a) \/ LogStream(a) \/ Disconnect(a)
       \/ InsertLogEntry(a) \/ LoseLogEntry(a)

Spec == Init /\ [][Next]_vars

-----------------------------------------------------------------------------
(* Correctness.                                                              *)

Indexable(i, row) == IF row = None THEN {} ELSE Payloads(row)

\* Rows and points are well formed, each item keeps to its own kind, a curated
\* answer never has two points, and points need a collection.
TypeOK ==
  /\ tenant \in {"active", "suspended", "gone"}
  /\ \A c \in Curateds : rows[c] \in CuratedRows \cup {None}
  /\ \A g \in Guardrails : rows[g] \in GuardrailRows \cup {None}
  /\ \A c \in Curateds : points[c] \subseteq CuratedRows /\ Cardinality(points[c]) <= 1
  /\ \A g \in Guardrails : points[g] \subseteq [seed : Phrases, enabled : BOOLEAN, copy : {1, 2}]
  /\ (\E i \in Items : points[i] # {}) => collection
  /\ pending \cup lost \subseteq Asks
  /\ \A i \in Items \ drawn : rows[i] = None /\ points[i] = {}
  /\ tenant = "gone" => \A i \in Items : rows[i] = None

\* What the console lists is what the ask flow finds: an item no request is
\* working on, and whose last requests neither overlapped nor failed, is indexed
\* exactly as its row says.  One undisturbed update or delete is enough to mend
\* an item that came apart, as long as its row is still there.
StoresAgree == \A i \in Items : Settled(i) => points[i] = Indexable(i, rows[i])

InForce(g, q) == rows[g] # None /\ rows[g].enabled /\ rows[g].seeds \cap Near[q] # {}

\* The guardrail check passed with every call answered.
Checked(a, pc) == ask[a].pc = pc /\ ask'[a].pc \notin {pc, "failed", "left"}

\* An enabled guardrail that the console lists, and nobody is editing, answers
\* every question near one of its seeds, before any curated answer or model.
EnabledGuardrailsAnswer ==
  [][\A a \in Asks : Checked(a, "guardrail") =>
       \A g \in Guardrails :
         Settled(g) /\ InForce(g, ask[a].question) => ask'[a].source = "guardrail"]_vars

\* Answers come from what the console lists: a question near no enabled guardrail
\* gets no refusal from a disabled, changed or deleted one, and a curated answer is
\* the text now listed for a near question.  As long as the collection holds no
\* more than TopK guardrail points, left-over ones and copies included, a question
\* near an enabled guardrail is answered by one; with more it may be missed.
AnswersFollowRows ==
  [][\A a \in Asks :
       LET q == ask[a].question IN
       /\ Checked(a, "guardrail") =>
            /\ AllFit /\ (\E g \in Guardrails : Settled(g) /\ InForce(g, q)) =>
                 ask'[a].source = "guardrail"
            /\ ask'[a].source = "guardrail" =>
                 \E g \in Guardrails : (~Settled(g) \/ InForce(g, q))
       /\ Checked(a, "curated") =>
            \/ \E c \in Curateds : ~Settled(c)
            \/ /\ ask'[a].source = "curated"
               /\ \E c \in Curateds : /\ rows[c] # None /\ rows[c].question \in Near[q]
                                      /\ rows[c].answer = ask'[a].text
            \/ /\ ask'[a].source # "curated"
               /\ \A c \in Curateds : rows[c] # None => rows[c].question \notin Near[q]]_vars

\* Usage counts rows of question_log: every question answered is counted, once
\* and under the source that answered it, unless its entry was dropped on the way;
\* a question that was refused or failed is never counted.
CountedOnce ==
  \A a \in Asks :
    /\ ask[a].pc = "logged" => \/ a \in pending /\ log[a] = None
                               \/ a \in lost /\ log[a] = None
                               \/ a \notin pending \cup lost /\ log[a] = ask[a].source
    /\ ask[a].pc # "logged" => a \notin pending /\ log[a] = None

\* A delete of the tenant that met nothing else, with the collection really
\* dropped, leaves no row, no log entry and no collection, and no later request
\* but the creation of a guardrail brings any of them back.  It may be the first
\* delete or a repeated one: that one finds no tenant and still mends what a
\* swallowed drop or a guardrail created since has left.
DeletedTenantLeavesNothing ==
  clean => /\ tenant = "gone" /\ ~collection
           /\ \A i \in Items : rows[i] = None /\ points[i] = {}
           /\ \A a \in Asks : log[a] = None
=============================================================================
