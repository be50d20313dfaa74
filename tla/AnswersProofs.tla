---------------------------- MODULE AnswersProofs ----------------------------
(***************************************************************************)
(* For any number of items, console requests and questions: a question      *)
(* answered is counted once, a tenant deleted with nothing else going on    *)
(* leaves nothing behind, rows and points agree, and answers come from the  *)
(* rows.                                                                    *)
(***************************************************************************)
EXTENDS Answers, FiniteSetTheorems, TLAPS

-----------------------------------------------------------------------------
(* Questions are counted once.                                               *)

\* A record of one question.
IsAsk(r) == r = [pc |-> r.pc, question |-> r.question, stream |-> r.stream,
                 source |-> r.source, text |-> r.text]

\* What the two sets and the log know of one question.
Counted(a) ==
  /\ ask[a].pc = "logged" => \/ a \in pending /\ log[a] = None
                             \/ a \in lost /\ log[a] = None
                             \/ a \notin pending \cup lost /\ log[a] = ask[a].source
  /\ ask[a].pc # "logged" => a \notin pending /\ log[a] = None
  /\ a \in lost => ask[a].pc \in {"logged", "left"} /\ a \notin pending

Counting ==
  /\ ask = [a \in Asks |-> ask[a]]
  /\ \A a \in Asks : IsAsk(ask[a])
  /\ log = [a \in Asks |-> log[a]]
  /\ \A a \in Asks : Counted(a)

\* One question moves on and the other questions and the log stay as they are.
OneAsk(a) ==
  /\ ask' = [b \in Asks |-> ask'[b]]
  /\ IsAsk(ask'[a])
  /\ \A b \in Asks \ {a} : ask'[b] = ask[b]

\* A question that goes to another step.
LEMMA MoveOneAsk ==
  ASSUME Counting, NEW a \in Asks, NEW pc, Move(a, pc)
  PROVE  OneAsk(a) /\ ask'[a].pc = pc /\ ask'[a].source = ask[a].source
<1>1. ask[a] = [pc |-> ask[a].pc, question |-> ask[a].question, stream |-> ask[a].stream,
                source |-> ask[a].source, text |-> ask[a].text]
  BY DEF Counting, IsAsk
<1>2. [ask[a] EXCEPT !.pc = pc] =
        [pc |-> pc, question |-> ask[a].question, stream |-> ask[a].stream,
         source |-> ask[a].source, text |-> ask[a].text]
  BY <1>1
<1>3. ask' = [ask EXCEPT ![a] = [ask[a] EXCEPT !.pc = pc]] BY DEF Move
<1>4. ask = [b \in Asks |-> ask[b]] BY DEF Counting
<1> QED BY <1>2, <1>3, <1>4 DEF OneAsk, IsAsk

\* An answer: a stream is sent and not logged yet, a plain reply has its task.
LEMMA ReplyOneAsk ==
  ASSUME Counting, NEW a \in Asks, NEW source, NEW text, Reply(a, source, text)
  PROVE  /\ OneAsk(a) /\ ask'[a].source = source /\ ask'[a].text = text
         /\ \/ ask'[a].pc = "sent" /\ pending' = pending
            \/ ask'[a].pc = "logged" /\ pending' = pending \cup {a}
<1> DEFINE next == IF ask[a].stream THEN "sent" ELSE "logged"
<1>1. ask[a] = [pc |-> ask[a].pc, question |-> ask[a].question, stream |-> ask[a].stream,
                source |-> ask[a].source, text |-> ask[a].text]
  BY DEF Counting, IsAsk
<1>3. ask' = [ask EXCEPT ![a] = [ask[a] EXCEPT !.source = source, !.text = text, !.pc = next]]
  BY DEF Reply
<1>6. \/ next = "sent" /\ pending' = pending
      \/ next = "logged" /\ pending' = pending \cup {a}
  BY DEF Reply
<1> HIDE DEF next
<1>2. [ask[a] EXCEPT !.source = source, !.text = text, !.pc = next] =
        [pc |-> next, question |-> ask[a].question, stream |-> ask[a].stream,
         source |-> source, text |-> text]
  <2> DEFINE r == [ask[a] EXCEPT !.source = source]
             t == [r EXCEPT !.text = text]
  <2>1. r = [pc |-> ask[a].pc, question |-> ask[a].question, stream |-> ask[a].stream,
             source |-> source, text |-> ask[a].text]
    BY <1>1
  <2>2. t = [r EXCEPT !.text = text] OBVIOUS
  <2>3. [ask[a] EXCEPT !.source = source, !.text = text, !.pc = next] = [t EXCEPT !.pc = next]
    OBVIOUS
  <2> HIDE DEF r, t
  <2>4. t = [pc |-> ask[a].pc, question |-> ask[a].question, stream |-> ask[a].stream,
             source |-> source, text |-> text]
    BY <2>1, <2>2
  <2> QED BY <2>3, <2>4
<1>4. ask = [b \in Asks |-> ask[b]] BY DEF Counting
<1>5. OneAsk(a) /\ ask'[a].pc = next /\ ask'[a].source = source /\ ask'[a].text = text
  BY <1>2, <1>3, <1>4 DEF OneAsk, IsAsk
<1> QED BY <1>5, <1>6

\* A step that touches neither the questions nor their log keeps the count.
LEMMA CountingFrame ==
  ASSUME Counting, UNCHANGED asking
  PROVE  Counting'
BY DEF Counting, Counted, asking

\* Nothing has been asked.
LEMMA InitCounting == Init => Counting
<1> SUFFICES ASSUME Init PROVE Counting OBVIOUS
<1>1. /\ ask = [a \in Asks |-> NotAsked] /\ log = [a \in Asks |-> None]
      /\ pending = {} /\ lost = {}
  BY DEF Init
<1>2. IsAsk(NotAsked) /\ NotAsked.pc = "new" BY DEF IsAsk, NotAsked
<1> HIDE DEF NotAsked
<1>3. \A a \in Asks : IsAsk(ask[a])
  <2> TAKE a \in Asks
  <2>1. ask[a] = NotAsked BY <1>1
  <2> QED BY <2>1, <1>2
<1>4. \A a \in Asks : Counted(a) BY <1>1, <1>2 DEF Counted
<1> QED BY <1>1, <1>3, <1>4 DEF Counting

\* A question whose record and task change, with the log left alone.
LEMMA AskCounting ==
  ASSUME Counting, NEW a \in Asks, OneAsk(a), UNCHANGED log,
         pending' \in SUBSET (pending \cup {a}), pending \subseteq pending' \cup {a},
         lost' \in SUBSET (lost \cup {a}), lost \subseteq lost' \cup {a},
         Counted(a)'
  PROVE  Counting'
<1>1. \A b \in Asks \ {a} : Counted(b)' BY DEF Counting, Counted, OneAsk
<1>2. \A b \in Asks \ {a} : IsAsk(ask'[b]) BY DEF Counting, OneAsk, IsAsk
<1> QED BY <1>1, <1>2 DEF Counting, OneAsk

\* Every step of a question or of its log task keeps the count.
LEMMA AskStepCounting ==
  ASSUME Counting, NEW a \in Asks,
         \/ Admit(a) \/ CheckGuardrails(a) \/ CheckCurated(a) \/ Generate(a)
         \/ SearchFails(a) \/ LogStream(a) \/ Disconnect(a)
         \/ InsertLogEntry(a) \/ LoseLogEntry(a)
  PROVE  Counting'
<1> USE DEF Counted
<1>0. Counted(a) BY DEF Counting
<1>1. CASE Admit(a)
  <2>1. PICK q \in Questions, stream \in BOOLEAN :
          ask' = [ask EXCEPT ![a] = [NotAsked EXCEPT !.question = q, !.stream = stream,
                    !.pc = IF tenant = "active" THEN "guardrail" ELSE "refused"]]
    BY <1>1 DEF Admit
  <2>2. OneAsk(a) /\ ask'[a].pc \in {"guardrail", "refused"}
    BY <2>1 DEF OneAsk, IsAsk, NotAsked, Counting
  <2> QED BY <1>0, <1>1, <2>2, AskCounting DEF Admit
<1>2. ASSUME NEW source, NEW text, Reply(a, source, text),
             ask[a].pc \in {"guardrail", "curated", "rag"}, UNCHANGED <<log, lost>>
      PROVE  Counting'
  BY <1>0, <1>2, ReplyOneAsk, AskCounting
<1>3. ASSUME NEW pc \in {"curated", "rag", "failed"}, Move(a, pc),
             ask[a].pc \in {"guardrail", "curated", "rag"}, UNCHANGED <<pending, log, lost>>
      PROVE  Counting'
  BY <1>0, <1>3, MoveOneAsk, AskCounting
<1>4. CASE CheckGuardrails(a)
  BY <1>2, <1>3, <1>4 DEF CheckGuardrails
<1>5. CASE CheckCurated(a)
  BY <1>2, <1>3, <1>5 DEF CheckCurated
<1>6. CASE Generate(a)
  BY <1>2, <1>6 DEF Generate
<1>7. CASE SearchFails(a)
  BY <1>3, <1>7 DEF SearchFails
<1>8. CASE LogStream(a)
  BY <1>0, <1>8, MoveOneAsk, AskCounting DEF LogStream
<1>9. CASE Disconnect(a)
  BY <1>0, <1>9, MoveOneAsk, AskCounting DEF Disconnect
<1>10. CASE InsertLogEntry(a)
  <2>1. ask[a].pc = "logged" /\ log[a] = None /\ a \notin lost
    BY <1>0, <1>10 DEF InsertLogEntry
  <2>2. log' = [log EXCEPT ![a] = ask[a].source] BY <1>10, <2>1 DEF InsertLogEntry, Counting
  <2>3. log' = [b \in Asks |-> log'[b]] /\ log'[a] = ask[a].source
        /\ \A b \in Asks \ {a} : log'[b] = log[b]
    BY <2>2 DEF Counting
  <2>4. \A b \in Asks : Counted(b)'
    BY <1>10, <2>1, <2>3 DEF InsertLogEntry, Counting
  <2> QED BY <1>10, <2>3, <2>4 DEF InsertLogEntry, Counting
<1>11. CASE LoseLogEntry(a)
  BY <1>0, <1>11 DEF LoseLogEntry, Counting
<1> QED BY <1>1, <1>4, <1>5, <1>6, <1>7, <1>8, <1>9, <1>10, <1>11

\* Every step of a console request keeps the count; a delete of the log is told.
LEMMA AdminStepCounting ==
  ASSUME Counting, NEW h \in Admins, DeleteLog(h) \/ UNCHANGED asking
  PROVE  Counting'
<1>1. CASE DeleteLog(h)
  BY <1>1 DEF DeleteLog, Counting, Counted
<1> QED BY <1>1, CountingFrame

\* The count is kept by every step.
LEMMA NextCounting == Counting /\ [Next]_vars => Counting'
<1> SUFFICES ASSUME Counting, [Next]_vars PROVE Counting' OBVIOUS
<1>1. CASE UNCHANGED vars BY <1>1, CountingFrame DEF vars
<1>2. ASSUME NEW h \in Admins,
             \/ CallFails(h)
             \/ BeginCreateCurated(h) \/ InsertCurated(h)
             \/ BeginUpdateCurated(h) \/ UpdateCurated(h) \/ BeginDeleteCurated(h)
             \/ BeginCreateGuardrail(h) \/ InsertGuardrail(h)
             \/ BeginUpdateGuardrail(h) \/ BeginDeleteGuardrail(h)
             \/ UpsertVectors(h) \/ DeleteVectors(h) \/ DeleteRow(h)
             \/ Suspend(h) \/ Reinstate(h) \/ BeginDeleteTenant(h)
             \/ DropCollection(h) \/ DeleteLog(h) \/ DeleteTenantRow(h)
      PROVE  Counting'
  <2>1. DeleteLog(h) \/ UNCHANGED asking
    BY <1>2 DEF CallFails, BeginCreateCurated, InsertCurated, BeginUpdateCurated, UpdateCurated,
         BeginDeleteCurated, BeginCreateGuardrail, InsertGuardrail, BeginUpdateGuardrail,
         BeginDeleteGuardrail, UpsertVectors, DeleteVectors, DeleteRow, Suspend, Reinstate,
         BeginDeleteTenant, DropCollection, DeleteTenantRow
  <2> QED BY <2>1, AdminStepCounting
<1> QED BY <1>1, <1>2, AskStepCounting DEF Next

\* Usage is right for every number of questions: whatever the console does, a
\* question answered is in the log once, under the source that answered it, unless
\* its entry was dropped; one that was refused or failed never is.
THEOREM QuestionsAreCountedOnce == Spec => []CountedOnce
<1>1. Counting => CountedOnce BY DEF Counting, Counted, CountedOnce
<1> QED BY <1>1, InitCounting, NextCounting, PTL DEF Spec

-----------------------------------------------------------------------------
(* A tenant deleted in peace leaves nothing.                                 *)

\* The steps of a delete of the tenant.
DeletePcs == {"drop_collection", "delete_log", "delete_tenant"}

\* A record of one console request: only a delete of the tenant and an idle
\* request have no item.
IsTask(t) ==
  /\ t = [pc |-> t.pc, item |-> t.item, row |-> t.row, fields |-> t.fields, alone |-> t.alone]
  /\ t.alone \in BOOLEAN
  /\ t.item = None => t.pc \in {"idle"} \cup DeletePcs
  /\ t.item # None => t.item \in Items /\ t.pc \notin {"idle"} \cup DeletePcs

\* A delete of the tenant that nothing has met so far.
Peaceful(h) == task[h].pc \in DeletePcs /\ task[h].alone

NothingIndexed == ~collection /\ \A i \in Items : points[i] = {}
NothingLogged  == \A a \in Asks : log[a] = None

\* While such a delete runs nothing else does, and each of its steps has held.
PeacefulSoFar(h) ==
  /\ Quiet
  /\ \A g \in Admins : task[g].item = None
  /\ task[h].pc \in {"delete_log", "delete_tenant"} => NothingIndexed
  /\ task[h].pc = "delete_tenant" => NothingLogged

\* After it only a creation of a curated answer may run, up to its insert.
LeftAlone ==
  /\ Quiet /\ tenant = "gone"
  /\ NothingIndexed /\ NothingLogged
  /\ \A i \in Items : rows[i] = None
  /\ \A g \in Admins : task[g].item # None => task[g].pc = "insert_curated"

\* The inductive invariant.
Deleting ==
  /\ task = [g \in Admins |-> task[g]]
  /\ log = [a \in Asks |-> log[a]]
  /\ ask = [a \in Asks |-> ask[a]]
  /\ \A h \in Admins : IsTask(task[h])
  /\ \A h \in Admins : Peaceful(h) => PeacefulSoFar(h)
  /\ clean => LeftAlone

\* The records of the requests, as far as Deleting says something of each.
Requests == task = [g \in Admins |-> task[g]] /\ \A g \in Admins : IsTask(task[g])

\* One field of such a record changed.
LEMMA OneField ==
  ASSUME NEW p, NEW i, NEW w, NEW f, NEW a, NEW v, NEW r,
         r = [pc |-> p, item |-> i, row |-> w, fields |-> f, alone |-> a]
  PROVE  /\ [r EXCEPT !.fields = v] = [pc |-> p, item |-> i, row |-> w, fields |-> v, alone |-> a]
         /\ [r EXCEPT !.alone = v] = [pc |-> p, item |-> i, row |-> w, fields |-> f, alone |-> v]
OBVIOUS

\* Nothing has been asked for.
LEMMA InitDeleting == Init => Deleting
<1> SUFFICES ASSUME Init PROVE Deleting OBVIOUS
<1>1. /\ task = [h \in Admins |-> Idle] /\ ask = [a \in Asks |-> NotAsked]
      /\ log = [a \in Asks |-> None] /\ clean = FALSE
  BY DEF Init
<1>2. IsTask(Idle) /\ Idle.pc = "idle" BY DEF Idle, Job, IsTask
<1> HIDE DEF Idle, NotAsked
<1>3. \A h \in Admins : task[h] = Idle BY <1>1
<1> QED BY <1>1, <1>2, <1>3 DEF Deleting, Peaceful, DeletePcs

\* A request that goes to another step keeps its item and whether it is alone.
LEMMA TaskMoves ==
  ASSUME Deleting, NEW h \in Admins, NEW pc, Goto(h, pc),
         task[h].item = None => pc \in DeletePcs,
         task[h].item # None => pc \notin {"idle"} \cup DeletePcs
  PROVE  /\ Requests' /\ task'[h].pc = pc
         /\ task'[h].item = task[h].item /\ task'[h].alone = task[h].alone
         /\ task'[h].row = task[h].row /\ task'[h].fields = task[h].fields
         /\ \A g \in Admins \ {h} : task'[g] = task[g]
<1>1. task[h] = [pc |-> task[h].pc, item |-> task[h].item, row |-> task[h].row,
                 fields |-> task[h].fields, alone |-> task[h].alone]
  BY DEF Deleting, IsTask
<1>2. [task[h] EXCEPT !.pc = pc] =
        [pc |-> pc, item |-> task[h].item, row |-> task[h].row,
         fields |-> task[h].fields, alone |-> task[h].alone]
  BY <1>1
<1>3. task' = [task EXCEPT ![h] = [task[h] EXCEPT !.pc = pc]] BY DEF Goto
<1>4. task = [g \in Admins |-> task[g]] BY DEF Deleting
<1>5. /\ task' = [g \in Admins |-> task'[g]]
      /\ task'[h] = [pc |-> pc, item |-> task[h].item, row |-> task[h].row,
                     fields |-> task[h].fields, alone |-> task[h].alone]
      /\ \A g \in Admins \ {h} : task'[g] = task[g]
  BY <1>2, <1>3, <1>4
<1>6. IsTask(task'[h]) BY <1>5 DEF Deleting, IsTask
<1>7. \A g \in Admins \ {h} : IsTask(task'[g]) BY <1>5 DEF Deleting
<1> QED BY <1>5, <1>6, <1>7 DEF Requests

\* A request that ends.
LEMMA TaskEnds ==
  ASSUME Deleting, NEW h \in Admins, Finish(h) \/ Raise(h) \/ RaiseAfter(h)
  PROVE  /\ Requests' /\ task'[h].pc = "idle" /\ task'[h].item = None
         /\ \A g \in Admins \ {h} : task'[g] = task[g]
<1>1. task' = [task EXCEPT ![h] = Idle] BY DEF Finish, Raise, RaiseAfter
<1>2. IsTask(Idle) /\ Idle.pc = "idle" /\ Idle.item = None BY DEF Idle, Job, IsTask
<1> HIDE DEF Idle
<1>3. task = [g \in Admins |-> task[g]] BY DEF Deleting
<1>4. /\ task' = [g \in Admins |-> task'[g]] /\ task'[h] = Idle
      /\ \A g \in Admins \ {h} : task'[g] = task[g]
  BY <1>1, <1>3
<1> QED BY <1>2, <1>4 DEF Requests, Deleting

\* A request on an item moves or ends: no delete of the tenant is peaceful, and
\* after one only the insert of a curated answer can be what moves.
LEMMA ItemStep ==
  ASSUME Deleting, NEW h \in Admins, task[h].item # None, Requests',
         task'[h].pc \notin DeletePcs, \A g \in Admins \ {h} : task'[g] = task[g],
         UNCHANGED <<asking, clean>>,
         task[h].pc = "insert_curated" /\ tenant = "gone" =>
           /\ UNCHANGED <<tenant, rows, points>> /\ (~collection => ~collection')
           /\ task'[h].item = None
  PROVE  Deleting'
<1>1. \A g \in Admins : ~Peaceful(g) BY DEF Deleting, PeacefulSoFar
<1>2. \A g \in Admins : ~Peaceful(g)' BY <1>1 DEF Peaceful
<1>3. clean => LeftAlone'
  BY DEF Deleting, LeftAlone, NothingIndexed, NothingLogged, Quiet, asking, stores
<1> QED BY <1>2, <1>3 DEF Deleting, Requests, asking

\* A request at any step but those of a delete of the tenant has an item.
LEMMA ItemPc ==
  ASSUME Deleting, NEW h \in Admins, task[h].pc \notin {"idle"} \cup DeletePcs
  PROVE  task[h].item # None /\ task[h].item \in Items
BY DEF Deleting, IsTask

\* A delete of the tenant has none.
LEMMA NoItemPc ==
  ASSUME Deleting, NEW h \in Admins, task[h].pc \in DeletePcs
  PROVE  task[h].item = None
BY DEF Deleting, IsTask, DeletePcs

\* The records a beginning request leaves behind: nothing but "alone" changes in
\* the others, and it may only be lost.
LEMMA Beginning ==
  ASSUME Deleting, NEW h \in Admins, NEW t, IsTask(t), Begin(h, t)
  PROVE  /\ Requests'
         /\ task'[h].item = t.item /\ task'[h].pc = t.pc
         /\ task'[h].row = t.row /\ task'[h].fields = t.fields
         /\ task'[h].alone =>
              t.alone /\ \A g \in Admins : Touched(task[g]) \cap Touched(t) = {}
         /\ \A g \in Admins \ {h} :
              /\ task'[g].item = task[g].item /\ task'[g].pc = task[g].pc
              /\ task'[g].row = task[g].row /\ task'[g].fields = task[g].fields
              /\ task'[g].alone => task[g].alone /\ Touched(task[g]) \cap Touched(t) = {}
<1> DEFINE others == {g \in Admins : Touched(task[g]) \cap Touched(t) # {}}
           with(r, b) == [pc |-> r.pc, item |-> r.item, row |-> r.row,
                          fields |-> r.fields, alone |-> b]
<1>1. task' = [g \in Admins |->
        IF g = h THEN [t EXCEPT !.alone = t.alone /\ others = {}]
        ELSE [task[g] EXCEPT !.alone = task[g].alone /\ g \notin others]]
  BY DEF Begin
<1>2. ASSUME NEW r, IsTask(r), NEW b \in BOOLEAN
      PROVE  [r EXCEPT !.alone = b] = with(r, b) /\ IsTask(with(r, b))
  <2>1. r = with(r, r.alone) BY <1>2 DEF IsTask
  <2>2. [r EXCEPT !.alone = b] = with(r, b) BY <2>1
  <2> QED BY <1>2, <2>2 DEF IsTask
<1> DEFINE lone == t.alone /\ others = {}
           stays(g) == task[g].alone /\ g \notin others
<1>3. lone \in BOOLEAN /\ (\A g \in Admins : stays(g) \in BOOLEAN) OBVIOUS
<1>4. task' = [g \in Admins |-> IF g = h THEN [t EXCEPT !.alone = lone]
                                ELSE [task[g] EXCEPT !.alone = stays(g)]]
  BY <1>1
<1>5. /\ lone => t.alone /\ \A g \in Admins : Touched(task[g]) \cap Touched(t) = {}
      /\ \A g \in Admins : stays(g) => task[g].alone /\ Touched(task[g]) \cap Touched(t) = {}
  OBVIOUS
<1> HIDE DEF lone, stays, with
<1>6. task'[h] = with(t, lone) /\ IsTask(task'[h]) BY <1>2, <1>3, <1>4
<1>7. \A g \in Admins \ {h} : task'[g] = with(task[g], stays(g)) /\ IsTask(task'[g])
  <2> TAKE g \in Admins \ {h}
  <2>1. task'[g] = [task[g] EXCEPT !.alone = stays(g)] BY <1>4
  <2>2. IsTask(task[g]) BY DEF Deleting
  <2>3. stays(g) \in BOOLEAN BY <1>3
  <2> QED BY <1>2, <2>1, <2>2, <2>3
<1>8. task' = [g \in Admins |-> task'[g]] BY <1>4
<1>9. \A r, b : /\ with(r, b).item = r.item /\ with(r, b).pc = r.pc
                /\ with(r, b).row = r.row /\ with(r, b).fields = r.fields
                /\ with(r, b).alone = b
  BY DEF with
<1> QED BY <1>5, <1>6, <1>7, <1>8, <1>9 DEF Requests

\* A request on one item begins: no delete of the tenant that runs is alone any more.
LEMMA BeginItem ==
  ASSUME Deleting, NEW h \in Admins, NEW t, IsTask(t), t.item # None, Begin(h, t),
         UNCHANGED asking,
         clean' => clean /\ UNCHANGED <<tenant, stores>> /\ t.pc = "insert_curated"
  PROVE  Deleting'
<1>1. t.item \in Items /\ t.pc \notin {"idle"} \cup DeletePcs BY DEF IsTask
<1>2. ASSUME NEW g \in Admins, Peaceful(g)' PROVE FALSE
  <2>1. task'[g].pc \in DeletePcs /\ task'[g].alone BY <1>2 DEF Peaceful
  <2>2. g # h /\ task[g].pc \in DeletePcs /\ Touched(task[g]) \cap Touched(t) = {}
    BY <1>1, <2>1, Beginning
  <2>3. t.item \in Touched(task[g]) BY <1>1, <2>2, NoItemPc DEF Touched, DeletePcs
  <2>4. t.item \in Touched(t) BY <1>1 DEF Touched
  <2> QED BY <1>1, <2>2, <2>3, <2>4
<1>4. clean' => LeftAlone'
  BY Beginning DEF Deleting, LeftAlone, NothingIndexed, NothingLogged, Quiet, asking, stores
<1> QED BY <1>2, <1>4, Beginning DEF Deleting, Requests, asking

\* Every step of a request on one item, and every one that raises.
LEMMA RequestStep ==
  ASSUME Deleting, NEW h \in Admins,
         \/ CallFails(h) /\ task[h].pc \notin DeletePcs
         \/ InsertCurated(h) \/ UpdateCurated(h) \/ InsertGuardrail(h)
         \/ UpsertVectors(h) \/ DeleteVectors(h) \/ DeleteRow(h)
  PROVE  Deleting'
<1>1. task[h].pc \notin {"idle"} \cup DeletePcs
  BY DEF CallFails, InsertCurated, UpdateCurated, InsertGuardrail, UpsertVectors, DeleteVectors,
         DeleteRow, UpsertPcs, DeletePcs
<1>2. task[h].item # None BY <1>1, ItemPc
<1>3. \/ \E pc \in {"upsert", "upsert_lost", "insert_guardrail", "delete_row", "delete_last"} : Goto(h, pc)
      \/ Finish(h) \/ Raise(h) \/ RaiseAfter(h)
  BY Zenon DEF CallFails, InsertCurated, UpdateCurated, InsertGuardrail, UpsertVectors,
         DeleteVectors, DeleteRow
<1>4. Requests' /\ task'[h].pc \notin DeletePcs /\ \A g \in Admins \ {h} : task'[g] = task[g]
  <2>1. ASSUME NEW pc \in {"upsert", "upsert_lost", "insert_guardrail", "delete_row", "delete_last"},
               Goto(h, pc)
        PROVE  Requests' /\ task'[h].pc \notin DeletePcs /\ \A g \in Admins \ {h} : task'[g] = task[g]
    BY <1>2, <2>1, TaskMoves DEF DeletePcs
  <2>2. ASSUME Finish(h) \/ Raise(h) \/ RaiseAfter(h)
        PROVE  Requests' /\ task'[h].pc \notin DeletePcs /\ \A g \in Admins \ {h} : task'[g] = task[g]
    BY <2>2, TaskEnds DEF DeletePcs
  <2> QED BY <1>3, <2>1, <2>2
<1>5. UNCHANGED <<asking, clean>>
  BY DEF CallFails, InsertCurated, UpdateCurated, InsertGuardrail, UpsertVectors, DeleteVectors,
         DeleteRow
<1>6. ASSUME task[h].pc = "insert_curated", tenant = "gone"
      PROVE  /\ UNCHANGED <<tenant, rows, points>> /\ (~collection => ~collection')
             /\ task'[h].item = None
  <2>1. CallFails(h) \/ InsertCurated(h)
    BY <1>6 DEF UpdateCurated, InsertGuardrail, UpsertVectors, DeleteVectors, DeleteRow, UpsertPcs
  <2>2. Raise(h) \/ RaiseAfter(h) BY <1>6, <2>1 DEF CallFails, InsertCurated
  <2>3. task'[h].item = None BY <2>2, TaskEnds
  <2>4. task[h].pc \notin UpsertPcs BY <1>6 DEF UpsertPcs
  <2>5. CASE CallFails(h)
    <3>1. collection' = collection \/ collection' = (collection \/ task[h].pc \in UpsertPcs)
      BY <2>5 DEF CallFails
    <3>2. ~collection => ~collection' BY <2>4, <3>1, Zenon
    <3> QED BY <2>3, <2>5, <3>2 DEF CallFails
  <2>6. CASE InsertCurated(h)
    BY <1>6, <2>3, <2>6 DEF InsertCurated
  <2> QED BY <2>1, <2>5, <2>6
<1> QED BY <1>2, <1>4, <1>5, <1>6, ItemStep

\* The record of a new request, and of an update with its fields.
LEMMA NewJob ==
  ASSUME NEW pc, NEW i, NEW row
  PROVE  /\ Job(pc, i, row) = [pc |-> pc, item |-> i, row |-> row, fields |-> None, alone |-> TRUE]
         /\ \A fields : [Job(pc, i, row) EXCEPT !.fields = fields] =
              [pc |-> pc, item |-> i, row |-> row, fields |-> fields, alone |-> TRUE]
<1> DEFINE yes == TRUE
<1>1. Job(pc, i, row) = [pc |-> pc, item |-> i, row |-> row, fields |-> None, alone |-> yes]
  BY DEF Job
<1> HIDE DEF yes
<1>2. ASSUME NEW fields
      PROVE  [Job(pc, i, row) EXCEPT !.fields = fields] =
               [pc |-> pc, item |-> i, row |-> row, fields |-> fields, alone |-> yes]
  BY <1>1, OneField
<1> QED BY <1>1, <1>2 DEF yes

\* Every request on one item that begins.
LEMMA RequestBegins ==
  ASSUME Deleting, NEW h \in Admins,
         \/ BeginCreateCurated(h) \/ BeginUpdateCurated(h) \/ BeginDeleteCurated(h)
         \/ BeginCreateGuardrail(h) \/ BeginUpdateGuardrail(h) \/ BeginDeleteGuardrail(h)
  PROVE  Deleting'
<1>1. UNCHANGED asking
  BY DEF BeginCreateCurated, BeginUpdateCurated, BeginDeleteCurated,
         BeginCreateGuardrail, BeginUpdateGuardrail, BeginDeleteGuardrail
<1>2. clean => tenant = "gone" /\ \A i \in Items : rows[i] = None
  BY DEF Deleting, LeftAlone
<1>3. ASSUME NEW pc \in {"insert_curated", "update_curated", "delete_row", "upsert_first",
                         "clear_points", "delete_points"},
             NEW i \in Items, NEW row, NEW fields
      PROVE  /\ IsTask(Job(pc, i, row)) /\ Job(pc, i, row).pc = pc /\ Job(pc, i, row).item # None
             /\ LET t == [Job(pc, i, row) EXCEPT !.fields = fields]
                IN  IsTask(t) /\ t.pc = pc /\ t.item # None
  <2> DEFINE t == [pc |-> pc, item |-> i, row |-> row, fields |-> fields, alone |-> TRUE]
             u == [pc |-> pc, item |-> i, row |-> row, fields |-> None, alone |-> TRUE]
  <2>1. IsTask(t) /\ t.pc = pc /\ t.item # None
    BY AnswersAssumption DEF IsTask, DeletePcs
  <2>2. IsTask(u) /\ u.pc = pc /\ u.item # None
    BY AnswersAssumption DEF IsTask, DeletePcs
  <2> HIDE DEF t, u
  <2>3. Job(pc, i, row) = u /\ [Job(pc, i, row) EXCEPT !.fields = fields] = t
    BY NewJob DEF t, u
  <2> QED BY <2>1, <2>2, <2>3
<1>4. Curateds \subseteq Items /\ Guardrails \subseteq Items BY DEF Items
<1>5. CASE BeginCreateCurated(h)
  <2>1. PICK c \in Curateds, row \in CuratedRows : Begin(h, Job("insert_curated", c, row))
    BY <1>5 DEF BeginCreateCurated
  <2> QED BY <1>1, <1>3, <1>4, <1>5, <2>1, BeginItem DEF BeginCreateCurated
<1>6. CASE BeginUpdateCurated(h)
  <2>1. PICK c \in Curateds, fields \in CuratedFields :
          /\ rows[c] # None
          /\ Begin(h, [Job("update_curated", c, Set(rows[c], fields)) EXCEPT !.fields = fields])
    BY <1>6 DEF BeginUpdateCurated
  <2>2. ~clean /\ clean' = clean BY <1>2, <1>4, <1>6, <2>1 DEF BeginUpdateCurated
  <2> QED BY <1>1, <1>3, <1>4, <2>1, <2>2, BeginItem
<1>7. CASE BeginDeleteCurated(h)
  <2>1. PICK c \in Curateds : rows[c] # None /\ Begin(h, Job("delete_row", c, None))
    BY <1>7 DEF BeginDeleteCurated
  <2>2. ~clean /\ clean' = clean BY <1>2, <1>4, <1>7, <2>1 DEF BeginDeleteCurated
  <2> QED BY <1>1, <1>3, <1>4, <2>1, <2>2, BeginItem
<1>8. CASE BeginCreateGuardrail(h)
  <2>1. PICK g \in Guardrails, seeds \in SeedLists :
          Begin(h, Job("upsert_first", g, [seeds |-> seeds, enabled |-> TRUE]))
    BY <1>8 DEF BeginCreateGuardrail
  <2>2. ~clean' BY <1>8 DEF BeginCreateGuardrail
  <2> QED BY <1>1, <1>3, <1>4, <2>1, <2>2, BeginItem
<1>9. CASE BeginUpdateGuardrail(h)
  <2>1. PICK g \in Guardrails, fields \in GuardrailFields :
          rows[g] # None /\ Begin(h, Job("clear_points", g, Set(rows[g], fields)))
    BY <1>9 DEF BeginUpdateGuardrail
  <2>2. ~clean /\ clean' = clean BY <1>2, <1>4, <1>9, <2>1 DEF BeginUpdateGuardrail
  <2> QED BY <1>1, <1>3, <1>4, <2>1, <2>2, BeginItem
<1>10. CASE BeginDeleteGuardrail(h)
  <2>1. PICK g \in Guardrails : rows[g] # None /\ Begin(h, Job("delete_points", g, None))
    BY <1>10 DEF BeginDeleteGuardrail
  <2>2. ~clean /\ clean' = clean BY <1>2, <1>4, <1>10, <2>1 DEF BeginDeleteGuardrail
  <2> QED BY <1>1, <1>3, <1>4, <2>1, <2>2, BeginItem
<1> QED BY <1>5, <1>6, <1>7, <1>8, <1>9, <1>10

\* A delete of the tenant begins: it is alone only if nothing else goes on.
LEMMA DeleteBegins ==
  ASSUME Deleting, NEW h \in Admins, BeginDeleteTenant(h)
  PROVE  Deleting'
<1> DEFINE t == [Job("drop_collection", None, None) EXCEPT !.alone = Quiet]
<1>1. clean' = clean /\ UNCHANGED <<tenant, stores, asking>> /\ Begin(h, t)
  BY DEF BeginDeleteTenant
<1>2. IsTask(t) /\ t.pc = "drop_collection" /\ t.item = None /\ (t.alone <=> Quiet)
  <2> DEFINE b == Quiet
  <2>1. b \in BOOLEAN /\ (b <=> Quiet) BY DEF Quiet
  <2>2. t = [Job("drop_collection", None, None) EXCEPT !.alone = b] OBVIOUS
  <2> HIDE DEF b, t
  <2>3. t = [pc |-> "drop_collection", item |-> None, row |-> None, fields |-> None, alone |-> b]
    BY <2>2, NewJob
  <2>4. IsTask(t) /\ t.pc = "drop_collection" /\ t.item = None /\ t.alone = b
    BY <2>1, <2>3 DEF IsTask, DeletePcs
  <2> QED BY <2>1, <2>4
<1> HIDE DEF t
<1>3. \A g \in Admins : Touched(task[g]) \cap Touched(t) = {} => task[g].item = None
  <2> TAKE g \in Admins
  <2>1. SUFFICES ASSUME task[g].item # None PROVE task[g].item \in Touched(task[g]) \cap Touched(t)
    OBVIOUS
  <2>2. task[g].item \in Items /\ task[g].pc # "idle" BY <2>1 DEF Deleting, IsTask
  <2> QED BY <1>2, <2>2 DEF Touched
<1>4. ASSUME NEW k \in Admins, Peaceful(k)' PROVE PeacefulSoFar(k)'
  <2>1. CASE k = h
    <3>1. Quiet /\ \A g \in Admins : task[g].item = None
      BY <1>1, <1>2, <1>3, <1>4, <2>1, Beginning DEF Peaceful
    <3>2. task'[h].pc = "drop_collection" /\ \A g \in Admins : task'[g].item = None
      BY <1>1, <1>2, <3>1, Beginning
    <3> QED BY <1>1, <2>1, <3>1, <3>2 DEF PeacefulSoFar, Quiet, asking
  <2>2. CASE k # h
    <3>1. Peaceful(k) /\ task'[k].pc = task[k].pc
      BY <1>1, <1>2, <1>4, <2>2, Beginning DEF Peaceful
    <3>2. PeacefulSoFar(k) BY <3>1 DEF Deleting
    <3>3. \A g \in Admins : task'[g].item = None
      BY <1>1, <1>2, <3>2, Beginning DEF PeacefulSoFar
    <3> QED BY <1>1, <3>1, <3>2, <3>3
            DEF PeacefulSoFar, Quiet, NothingIndexed, NothingLogged, asking, stores
  <2> QED BY <2>1, <2>2
<1>5. clean' => LeftAlone'
  <2>1. SUFFICES ASSUME LeftAlone PROVE LeftAlone' BY <1>1 DEF Deleting
  <2>2. \A g \in Admins : task'[g].item # None => task'[g].pc = "insert_curated"
    BY <1>1, <1>2, <2>1, Beginning DEF LeftAlone
  <2> QED BY <1>1, <2>1, <2>2 DEF LeftAlone, NothingIndexed, NothingLogged, Quiet, asking, stores
<1> QED BY <1>1, <1>2, <1>4, <1>5, Beginning DEF Deleting, Requests, asking

\* A delete of the tenant that goes on after a drop that raised has lost its peace.
LEMMA DropSwallowed ==
  ASSUME Deleting, NEW h \in Admins, task[h].pc \in DeletePcs,
         task' = [task EXCEPT ![h].pc = "delete_log", ![h].alone = FALSE]
  PROVE  /\ Requests' /\ task'[h].pc = "delete_log" /\ task'[h].item = None
         /\ ~task'[h].alone /\ \A g \in Admins \ {h} : task'[g] = task[g]
<1> DEFINE r == [task[h] EXCEPT !.pc = "delete_log"]
<1>1. task[h] = [pc |-> task[h].pc, item |-> task[h].item, row |-> task[h].row,
                 fields |-> task[h].fields, alone |-> task[h].alone]
  BY DEF Deleting, IsTask
<1>2. r = [pc |-> "delete_log", item |-> task[h].item, row |-> task[h].row,
           fields |-> task[h].fields, alone |-> task[h].alone]
  BY <1>1
<1>3. task' = [task EXCEPT ![h] = [r EXCEPT !.alone = FALSE]] OBVIOUS
<1> DEFINE no == FALSE
<1> HIDE DEF r, no
<1>40. [r EXCEPT !.alone = no] =
        [pc |-> "delete_log", item |-> task[h].item, row |-> task[h].row,
         fields |-> task[h].fields, alone |-> no]
  BY <1>2, OneField
<1>4. [r EXCEPT !.alone = FALSE] =
        [pc |-> "delete_log", item |-> task[h].item, row |-> task[h].row,
         fields |-> task[h].fields, alone |-> FALSE]
  BY <1>40 DEF no
<1>5. task = [g \in Admins |-> task[g]] BY DEF Deleting
<1>6. /\ task' = [g \in Admins |-> task'[g]]
      /\ task'[h] = [pc |-> "delete_log", item |-> task[h].item, row |-> task[h].row,
                     fields |-> task[h].fields, alone |-> FALSE]
      /\ \A g \in Admins \ {h} : task'[g] = task[g]
  BY <1>3, <1>4, <1>5
<1>7. IsTask(task'[h]) /\ task'[h].item = None /\ ~task'[h].alone
  BY <1>6, NoItemPc DEF IsTask, DeletePcs
<1>8. \A g \in Admins \ {h} : IsTask(task'[g]) BY <1>6 DEF Deleting
<1> QED BY <1>6, <1>7, <1>8 DEF Requests

\* The steps of a delete of the tenant: each does what the next relies on.
LEMMA DeleteStep ==
  ASSUME Deleting, NEW h \in Admins,
         \/ CallFails(h) /\ task[h].pc \in DeletePcs
         \/ DropCollection(h) \/ DeleteLog(h) \/ DeleteTenantRow(h)
  PROVE  Deleting'
<1>1. task[h].pc \in DeletePcs /\ task[h].item = None
  <2>1. task[h].pc \in DeletePcs BY DEF DropCollection, DeleteLog, DeleteTenantRow, DeletePcs
  <2> QED BY <2>1, NoItemPc
<1>2. UNCHANGED <<ask, pending>>
  BY DEF CallFails, DropCollection, DeleteLog, DeleteTenantRow, asking
<1>3. log' = [a \in Asks |-> log'[a]] /\ (NothingLogged => NothingLogged')
  BY DEF CallFails, DropCollection, DeleteLog, DeleteTenantRow, asking, Deleting, NothingLogged
<1>4. NothingIndexed => NothingIndexed'
  <2>1. CASE CallFails(h)
    <3>1. collection' = collection \/ collection' = (collection \/ task[h].pc \in UpsertPcs)
      BY <2>1 DEF CallFails
    <3>2. task[h].pc \notin UpsertPcs BY <1>1 DEF UpsertPcs, DeletePcs
    <3>3. ~collection => ~collection' BY <3>1, <3>2, Zenon
    <3> QED BY <2>1, <3>3 DEF CallFails, NothingIndexed
  <2>2. CASE DropCollection(h) BY <2>2 DEF DropCollection, NothingIndexed
  <2>3. CASE DeleteLog(h) BY <2>3 DEF DeleteLog, NothingIndexed, stores
  <2>4. CASE DeleteTenantRow(h) BY <2>4 DEF DeleteTenantRow, NothingIndexed
  <2> QED BY <2>1, <2>2, <2>3, <2>4
<1>5. \/ task[h].pc = "drop_collection" /\ Goto(h, "delete_log") /\ NothingIndexed'
      \/ DropCollection(h) /\ task' = [task EXCEPT ![h].pc = "delete_log", ![h].alone = FALSE]
      \/ task[h].pc = "delete_log" /\ Goto(h, "delete_tenant") /\ NothingLogged'
      \/ Finish(h) \/ RaiseAfter(h)
  <2>1. CASE CallFails(h) BY <2>1 DEF CallFails
  <2>2. CASE DropCollection(h) BY <2>2 DEF DropCollection, NothingIndexed
  <2>3. CASE DeleteLog(h) BY <2>3 DEF DeleteLog, NothingLogged
  <2>4. CASE DeleteTenantRow(h) BY <2>4 DEF DeleteTenantRow
  <2> QED BY <2>1, <2>2, <2>3, <2>4
<1>6. /\ Requests' /\ task'[h].item = None /\ \A g \in Admins \ {h} : task'[g] = task[g]
      /\ Peaceful(h)' => /\ Peaceful(h)
                         /\ task'[h].pc = "delete_log" => NothingIndexed'
                         /\ task'[h].pc = "delete_tenant" =>
                              task[h].pc = "delete_log" /\ NothingLogged'
                         /\ task'[h].pc \in {"delete_log", "delete_tenant"}
  <2>1. CASE task[h].pc = "drop_collection" /\ Goto(h, "delete_log") /\ NothingIndexed'
    BY <1>1, <2>1, TaskMoves DEF DeletePcs, Peaceful
  <2>2. CASE DropCollection(h) /\ task' = [task EXCEPT ![h].pc = "delete_log", ![h].alone = FALSE]
    BY <1>1, <2>2, DropSwallowed DEF Peaceful
  <2>3. CASE task[h].pc = "delete_log" /\ Goto(h, "delete_tenant") /\ NothingLogged'
    BY <1>1, <2>3, TaskMoves DEF DeletePcs, Peaceful
  <2>4. CASE Finish(h) \/ RaiseAfter(h)
    BY <2>4, TaskEnds DEF Peaceful, DeletePcs
  <2> QED BY <1>5, <2>1, <2>2, <2>3, <2>4
<1>7. ASSUME NEW k \in Admins, Peaceful(k)' PROVE PeacefulSoFar(k)'
  <2>1. Peaceful(k) BY <1>6, <1>7 DEF Peaceful
  <2>2. PeacefulSoFar(k) BY <2>1 DEF Deleting
  <2>3. Quiet' BY <1>2, <2>2 DEF PeacefulSoFar, Quiet
  <2>4. \A g \in Admins : task'[g].item = None BY <1>6, <2>2 DEF PeacefulSoFar
  <2>5. CASE k = h BY <1>4, <1>6, <1>7, <2>2, <2>3, <2>4, <2>5 DEF PeacefulSoFar
  <2>6. CASE k # h
    <3>1. task'[k].pc = task[k].pc BY <1>6, <2>6
    <3> QED BY <1>3, <1>4, <2>2, <2>3, <2>4, <3>1 DEF PeacefulSoFar
  <2> QED BY <2>5, <2>6
<1>8. ASSUME clean PROVE LeftAlone'
  <2>1. LeftAlone BY <1>8 DEF Deleting
  <2>2. tenant' = "gone" /\ \A i \in Items : rows'[i] = None
    BY <2>1 DEF LeftAlone, CallFails, DropCollection, DeleteLog, DeleteTenantRow, stores
  <2>3. \A g \in Admins : task'[g].item # None => task'[g].pc = "insert_curated"
    BY <1>6, <2>1 DEF LeftAlone
  <2> QED BY <1>2, <1>3, <1>4, <2>1, <2>2, <2>3 DEF LeftAlone, Quiet
<1>9. ASSUME clean', ~clean PROVE LeftAlone'
  <2>1. DeleteTenantRow(h) /\ task[h].alone
    BY <1>9 DEF CallFails, DropCollection, DeleteLog, DeleteTenantRow
  <2>2. task[h].pc = "delete_tenant" /\ PeacefulSoFar(h)
    BY <2>1 DEF DeleteTenantRow, Deleting, Peaceful, DeletePcs
  <2>3. tenant' = "gone" /\ \A i \in Items : rows'[i] = None
    BY <2>1 DEF DeleteTenantRow
  <2>4. \A g \in Admins : task'[g].item = None BY <1>6, <2>2 DEF PeacefulSoFar
  <2>5. Quiet' BY <1>2, <2>2 DEF PeacefulSoFar, Quiet
  <2> QED BY <1>3, <1>4, <2>2, <2>3, <2>4, <2>5 DEF LeftAlone, PeacefulSoFar
<1> QED BY <1>2, <1>3, <1>6, <1>7, <1>8, <1>9 DEF Deleting, Requests

\* A step of a question or of a log task when the tenant is not quiet.
LEMMA BusyAsk ==
  ASSUME Deleting, ~Quiet, UNCHANGED <<task, clean>>,
         ask' = [a \in Asks |-> ask'[a]], log' = [a \in Asks |-> log'[a]]
  PROVE  Deleting'
<1>1. ~clean /\ \A h \in Admins : ~Peaceful(h) BY DEF Deleting, LeftAlone, PeacefulSoFar
<1>2. \A h \in Admins : ~Peaceful(h)' BY <1>1 DEF Peaceful
<1> QED BY <1>1, <1>2 DEF Deleting, IsTask

\* A question asked takes the peace from the deletes of the tenant that run.
LEMMA AdmitTasks ==
  ASSUME Deleting, NEW a \in Asks, Admit(a)
  PROVE  /\ task' = [h \in Admins |-> task'[h]]
         /\ \A h \in Admins :
              /\ IsTask(task'[h])
              /\ task'[h].pc = task[h].pc /\ task'[h].item = task[h].item
              /\ task'[h].row = task[h].row /\ task'[h].fields = task[h].fields
              /\ task'[h].alone => task[h].alone /\ task[h].pc \notin DeletePcs
<1> DEFINE b(h) == task[h].alone /\ (task[h].pc = "idle" \/ task[h].item # None)
<1>1. task' = [h \in Admins |-> [task[h] EXCEPT !.alone = b(h)]] BY DEF Admit
<1>2. \A h \in Admins : b(h) \in BOOLEAN /\ (b(h) => task[h].alone /\ task[h].pc \notin DeletePcs)
  BY NoItemPc DEF DeletePcs
<1> HIDE DEF b
<1>3. ASSUME NEW h \in Admins
      PROVE  /\ task'[h] = [pc |-> task[h].pc, item |-> task[h].item, row |-> task[h].row,
                            fields |-> task[h].fields, alone |-> b(h)]
             /\ IsTask(task'[h])
             /\ task'[h].pc = task[h].pc /\ task'[h].item = task[h].item
             /\ task'[h].row = task[h].row /\ task'[h].fields = task[h].fields
             /\ task'[h].alone = b(h)
  <2>1. task[h] = [pc |-> task[h].pc, item |-> task[h].item, row |-> task[h].row,
                   fields |-> task[h].fields, alone |-> task[h].alone]
    BY DEF Deleting, IsTask
  <2>2. [task[h] EXCEPT !.alone = b(h)] =
          [pc |-> task[h].pc, item |-> task[h].item, row |-> task[h].row,
           fields |-> task[h].fields, alone |-> b(h)]
    BY <2>1
  <2>3. task'[h] = [pc |-> task[h].pc, item |-> task[h].item, row |-> task[h].row,
                    fields |-> task[h].fields, alone |-> b(h)]
    BY <1>1, <2>2
  <2> QED BY <1>2, <2>3 DEF Deleting, IsTask
<1>4. task' = [h \in Admins |-> task'[h]] BY <1>1
<1> QED BY <1>2, <1>3, <1>4

\* A question asked takes the peace from every delete that runs; when the tenant
\* is gone it is refused.
LEMMA AdmitDeleting ==
  ASSUME Deleting, NEW a \in Asks, Admit(a)
  PROVE  Deleting'
<1>1. Requests' BY AdmitTasks DEF Requests
<1>2. \A h \in Admins : ~Peaceful(h)' BY AdmitTasks DEF Peaceful
<1>3. PICK q \in Questions, stream \in BOOLEAN :
        ask' = [ask EXCEPT ![a] = [NotAsked EXCEPT !.question = q, !.stream = stream,
                  !.pc = IF tenant = "active" THEN "guardrail" ELSE "refused"]]
  BY DEF Admit
<1>4. /\ ask' = [c \in Asks |-> ask'[c]] /\ \A c \in Asks \ {a} : ask'[c] = ask[c]
      /\ tenant # "active" => ask'[a].pc = "refused"
  BY <1>3 DEF NotAsked, Deleting
<1>5. ASSUME clean PROVE LeftAlone'
  <2>1. LeftAlone BY <1>5 DEF Deleting
  <2>2. Quiet' BY <1>4, <2>1 DEF LeftAlone, Quiet, AskEnded, Admit
  <2>3. ASSUME NEW h \in Admins
        PROVE  task'[h].item = task[h].item /\ task'[h].pc = task[h].pc
    BY AdmitTasks
  <2> QED BY <2>1, <2>2, <2>3 DEF LeftAlone, Admit, stores, NothingIndexed, NothingLogged
<1> QED BY <1>1, <1>2, <1>4, <1>5 DEF Deleting, Requests, Admit

\* Every step of a question or of its log task.
LEMMA AskDeleting ==
  ASSUME Deleting, NEW a \in Asks,
         \/ Admit(a) \/ CheckGuardrails(a) \/ CheckCurated(a) \/ Generate(a)
         \/ SearchFails(a) \/ LogStream(a) \/ Disconnect(a)
         \/ InsertLogEntry(a) \/ LoseLogEntry(a)
  PROVE  Deleting'
<1>1. CASE Admit(a) BY <1>1, AdmitDeleting
<1>2. CASE \/ CheckGuardrails(a) \/ CheckCurated(a) \/ Generate(a)
           \/ SearchFails(a) \/ LogStream(a) \/ Disconnect(a)
  <2>1. ask[a].pc \in {"guardrail", "curated", "rag", "sent"}
    BY <1>2 DEF CheckGuardrails, CheckCurated, Generate, SearchFails, LogStream, Disconnect
  <2>2. ~Quiet BY <2>1 DEF Quiet, AskEnded
  <2>3. UNCHANGED <<task, clean, log>>
    BY <1>2 DEF CheckGuardrails, CheckCurated, Generate, SearchFails, LogStream, Disconnect
  <2>4. \/ \E pc \in {"curated", "rag", "failed", "logged", "left"} : Move(a, pc)
        \/ \E source \in {"guardrail", "curated", "rag", "error"} : \E text : Reply(a, source, text)
    BY <1>2 DEF CheckGuardrails, CheckCurated, Generate, SearchFails, LogStream, Disconnect
  <2>5. \E r : ask' = [ask EXCEPT ![a] = r] BY <2>4 DEF Move, Reply
  <2>6. ask' = [c \in Asks |-> ask'[c]] BY <2>5 DEF Deleting
  <2> QED BY <2>2, <2>3, <2>6, BusyAsk DEF Deleting
<1>3. CASE InsertLogEntry(a) \/ LoseLogEntry(a)
  <2>1. ~Quiet /\ UNCHANGED <<task, clean, ask>>
    BY <1>3 DEF InsertLogEntry, LoseLogEntry, Quiet
  <2>2. log' = [c \in Asks |-> log'[c]]
    BY <1>3 DEF InsertLogEntry, LoseLogEntry, Deleting
  <2> QED BY <2>1, <2>2, BusyAsk DEF Deleting
<1> QED BY <1>1, <1>2, <1>3

\* Suspending and reinstating a tenant that is there.
LEMMA SuspendDeleting ==
  ASSUME Deleting, NEW h \in Admins, Suspend(h) \/ Reinstate(h)
  PROVE  Deleting'
<1>1. ~clean /\ UNCHANGED <<stores, task, asking, clean>>
  BY DEF Suspend, Reinstate, Deleting, LeftAlone
<1> QED BY <1>1 DEF Deleting, Peaceful, PeacefulSoFar, IsTask, Quiet, NothingIndexed,
                   NothingLogged, stores, asking

\* The invariant is kept by every step.
LEMMA NextDeleting == Deleting /\ [Next]_vars => Deleting'
<1> SUFFICES ASSUME Deleting, [Next]_vars PROVE Deleting' OBVIOUS
<1>1. CASE UNCHANGED vars
  BY <1>1 DEF vars, Deleting, Peaceful, PeacefulSoFar, IsTask, Quiet, NothingIndexed,
              NothingLogged, LeftAlone, stores, asking
<1>2. ASSUME NEW h \in Admins, CallFails(h) PROVE Deleting'
  BY <1>2, RequestStep, DeleteStep
<1> QED BY <1>1, <1>2, RequestStep, RequestBegins, DeleteBegins, DeleteStep, SuspendDeleting,
           AskDeleting DEF Next

\* A tenant deleted in peace leaves nothing, for any number of items, console
\* requests and questions: while its delete runs alone nothing can write, and
\* afterwards only the insert of a curated answer can still run, which fails.
THEOREM PeacefulDeleteLeavesNothing == Spec => []DeletedTenantLeavesNothing
<1>1. Deleting => DeletedTenantLeavesNothing
  BY DEF Deleting, LeftAlone, NothingIndexed, NothingLogged, DeletedTenantLeavesNothing
<1> QED BY <1>1, InitDeleting, NextDeleting, PTL DEF Spec

-----------------------------------------------------------------------------
(* Rows and points are well formed.                                          *)

\* What a request on an item of each kind carries to its steps.
CuratedTask(t) ==
  /\ t.pc \in {"insert_curated", "update_curated", "upsert", "upsert_lost",
               "delete_row", "delete_last"}
  /\ t.pc \notin {"delete_row", "delete_last"} => t.row \in CuratedRows
  /\ t.pc = "update_curated" => t.fields \in CuratedFields
GuardrailTask(t) ==
  /\ t.pc \in {"upsert_first", "insert_guardrail", "clear_points", "upsert",
               "delete_points", "delete_row"}
  /\ t.pc \notin {"delete_points", "delete_row"} => t.row \in GuardrailRows
Carries(h) ==
  /\ task[h].item \in Curateds => CuratedTask(task[h])
  /\ task[h].item \in Guardrails => GuardrailTask(task[h])
  /\ task[h].item \in Items => task[h].item \in drawn

\* The points of an item of either kind.
SeedPoints == [seed : Phrases, enabled : BOOLEAN, copy : {1, 2}]
PointsFit(i) ==
  /\ i \in Curateds => points[i] = {} \/ \E row \in CuratedRows : points[i] = {row}
  /\ i \in Guardrails => points[i] \subseteq SeedPoints
RowFits(i) ==
  /\ i \in Curateds => rows[i] \in CuratedRows \cup {None}
  /\ i \in Guardrails => rows[i] \in GuardrailRows \cup {None}

\* The inductive invariant.
Stored ==
  /\ rows = [i \in Items |-> rows[i]] /\ points = [i \in Items |-> points[i]]
  /\ tenant \in {"active", "suspended", "gone"}
  /\ \A i \in Items : RowFits(i) /\ PointsFit(i)
  /\ (\E i \in Items : points[i] # {}) => collection
  /\ \A i \in Items \ drawn : rows[i] = None /\ points[i] = {}
  /\ tenant = "gone" => \A i \in Items : rows[i] = None
Logs  == pending \subseteq Asks /\ lost \subseteq Asks
Typed == Stored /\ Logs /\ \A h \in Admins : Carries(h)

\* Rows are not None, and a row of one kind is no row of the other.
LEMMA RowKinds ==
  ASSUME NEW row
  PROVE  /\ row \in CuratedRows => row # None /\ row \notin GuardrailRows
         /\ row \in GuardrailRows => row # None /\ row \notin CuratedRows
<1>1. row \in CuratedRows => DOMAIN row = {"question", "answer"} BY DEF CuratedRows
<1>2. row \in GuardrailRows => DOMAIN row = {"seeds", "enabled"} BY DEF GuardrailRows
<1>3. "question" \notin {"seeds", "enabled"} /\ "question" \in {"question", "answer"} OBVIOUS
<1>4. {"question", "answer"} # {"seeds", "enabled"} BY <1>3
<1> QED BY <1>1, <1>2, <1>4, NoneAssumption DEF Rows

\* An update gives a row of the same kind.
LEMMA SetKinds ==
  ASSUME NEW row, NEW fields
  PROVE  /\ row \in CuratedRows /\ fields \in CuratedFields => Set(row, fields) \in CuratedRows
         /\ row \in GuardrailRows /\ fields \in GuardrailFields => Set(row, fields) \in GuardrailRows
<1>1. ASSUME row \in CuratedRows, fields \in CuratedFields
      PROVE  Set(row, fields) \in CuratedRows
  <2>1. DOMAIN row = {"question", "answer"} /\ row.question \in Phrases /\ row.answer \in Texts
    BY <1>1 DEF CuratedRows
  <2>2. /\ "question" \in DOMAIN fields => fields["question"] \in Phrases
        /\ "answer" \in DOMAIN fields => fields["answer"] \in Texts
    BY <1>1 DEF CuratedFields, CuratedRows
  <2>3. Set(row, fields) = [f \in {"question", "answer"} |->
                              IF f \in DOMAIN fields THEN fields[f] ELSE row[f]]
    BY <2>1 DEF Set
  <2> DEFINE s == Set(row, fields)
  <2>4. s["question"] \in Phrases /\ s["answer"] \in Texts BY <2>1, <2>2, <2>3
  <2>5. s = [f \in {"question", "answer"} |-> s[f]] BY <2>3
  <2> HIDE DEF s
  <2>6. s \in CuratedRows BY <2>4, <2>5 DEF CuratedRows
  <2> QED BY <2>6 DEF s
<1>2. ASSUME row \in GuardrailRows, fields \in GuardrailFields
      PROVE  Set(row, fields) \in GuardrailRows
  <2>1. DOMAIN row = {"seeds", "enabled"} /\ row.seeds \in SeedLists /\ row.enabled \in BOOLEAN
    BY <1>2 DEF GuardrailRows
  <2>2. /\ "seeds" \in DOMAIN fields => fields["seeds"] \in SeedLists
        /\ "enabled" \in DOMAIN fields => fields["enabled"] \in BOOLEAN
    BY <1>2 DEF GuardrailFields, GuardrailRows
  <2>3. Set(row, fields) = [f \in {"seeds", "enabled"} |->
                              IF f \in DOMAIN fields THEN fields[f] ELSE row[f]]
    BY <2>1 DEF Set
  <2> DEFINE s == Set(row, fields)
  <2>4. s["seeds"] \in SeedLists /\ s["enabled"] \in BOOLEAN BY <2>1, <2>2, <2>3
  <2>5. s = [f \in {"seeds", "enabled"} |-> s[f]] BY <2>3
  <2> HIDE DEF s
  <2>6. s \in GuardrailRows BY <2>4, <2>5 DEF GuardrailRows
  <2> QED BY <2>6 DEF s
<1> QED BY <1>1, <1>2

\* What a row of each kind is indexed under.
LEMMA PayloadKinds ==
  ASSUME NEW row
  PROVE  /\ row \in CuratedRows => Payloads(row) = {row}
         /\ row \in GuardrailRows => /\ Payloads(row) \subseteq SeedPoints
                                     /\ row.seeds = {} => Payloads(row) = {}
<1>1. row \in CuratedRows => Payloads(row) = {row} BY DEF Payloads
<1>2. ASSUME row \in GuardrailRows
      PROVE  Payloads(row) \subseteq SeedPoints /\ (row.seeds = {} => Payloads(row) = {})
  <2>1. row.seeds \subseteq Phrases /\ row.enabled \in BOOLEAN
    BY <1>2, AnswersAssumption DEF GuardrailRows
  <2>2. Payloads(row) = {[seed |-> s, enabled |-> row.enabled, copy |-> 1] : s \in row.seeds}
    BY <1>2, RowKinds DEF Payloads
  <2> QED BY <2>1, <2>2 DEF SeedPoints
<1> QED BY <1>1, <1>2

\* Points upserted beside others are well formed, and beside none just themselves.
LEMMA AddedPoints ==
  ASSUME NEW old, NEW new
  PROVE  /\ old \subseteq SeedPoints /\ new \subseteq SeedPoints => Added(old, new) \subseteq SeedPoints
         /\ old = {} => Added(old, new) = new
<1>1. ASSUME NEW p \in SeedPoints PROVE [p EXCEPT !.copy = 2] \in SeedPoints
  BY DEF SeedPoints
<1>2. ASSUME old \subseteq SeedPoints, new \subseteq SeedPoints
      PROVE  Added(old, new) \subseteq SeedPoints
  <2> HIDE DEF SeedPoints
  <2> QED BY <1>1, <1>2 DEF Added
<1>3. ASSUME old = {} PROVE Added(old, new) = new
  <2>1. {[p EXCEPT !.copy = 2] : p \in old \cap new} = {} BY <1>3
  <2> QED BY <1>3, <2>1 DEF Added
<1> QED BY <1>2, <1>3

\* The items a request touches.
LEMMA TouchedItems ==
  ASSUME NEW t, IsTask(t)
  PROVE  /\ t.item # None => Touched(t) = {t.item} /\ t.item \in Items
         /\ t.pc \in DeletePcs => Touched(t) = Items
         /\ t.pc = "idle" => Touched(t) = {}
         /\ Touched(t) \subseteq Items
BY DEF IsTask, Touched, DeletePcs

\* Nothing is stored.
LEMMA InitTyped == Init => Typed
<1> SUFFICES ASSUME Init PROVE Typed OBVIOUS
<1>1. \A h \in Admins : task[h].item = None
  <2>1. task = [h \in Admins |-> Idle] /\ Idle.item = None BY DEF Init, Idle, Job
  <2> HIDE DEF Idle
  <2> QED BY <2>1
<1>2. None \notin Items BY AnswersAssumption
<1>3. \A h \in Admins : Carries(h) BY <1>1, <1>2 DEF Carries, Items
<1>4. Stored BY DEF Init, Stored, RowFits, PointsFit
<1>5. Logs BY DEF Init, Logs
<1> QED BY <1>3, <1>4, <1>5 DEF Typed

\* One item's row and points change.
LEMMA OneItemStored ==
  ASSUME Stored, NEW i \in drawn \cap Items,
         \A j \in Items \ {i} : rows'[j] = rows[j] /\ points'[j] = points[j],
         rows' = [j \in Items |-> rows'[j]], points' = [j \in Items |-> points'[j]],
         RowFits(i)', PointsFit(i)', collection => collection',
         points'[i] # {} => collection \/ collection',
         rows'[i] # None => tenant # "gone",
         UNCHANGED <<tenant, drawn>>
  PROVE  Stored'
<1>1. \A j \in Items \ {i} : RowFits(j)' /\ PointsFit(j)' BY DEF Stored, RowFits, PointsFit
<1>2. \A j \in Items : RowFits(j)' /\ PointsFit(j)' BY <1>1
<1>3. (\E j \in Items : points'[j] # {}) => collection' BY DEF Stored
<1>4. \A j \in Items \ drawn' : rows'[j] = None /\ points'[j] = {} BY DEF Stored
<1>5. tenant' = "gone" => \A j \in Items : rows'[j] = None BY DEF Stored
<1> QED BY <1>2, <1>3, <1>4, <1>5 DEF Stored

\* A request moves on or ends: it still carries what its next steps need.
LEMMA TasksCarry ==
  ASSUME Deleting, Typed, NEW h \in Admins, UNCHANGED drawn,
         \/ Finish(h) \/ Raise(h) \/ RaiseAfter(h)
         \/ \E pc : /\ Goto(h, pc)
                    /\ task[h].item = None => pc \in DeletePcs
                    /\ task[h].item # None => pc \notin {"idle"} \cup DeletePcs
                    /\ LET t == [pc |-> pc, item |-> task[h].item, row |-> task[h].row,
                                 fields |-> task[h].fields, alone |-> task[h].alone]
                       IN  /\ task[h].item \in Curateds => CuratedTask(t)
                           /\ task[h].item \in Guardrails => GuardrailTask(t)
  PROVE  \A g \in Admins : Carries(g)'
<1>1. \A g \in Admins : Carries(g) BY DEF Typed
<1>2. None \notin Items BY AnswersAssumption
<1>3. CASE Finish(h) \/ Raise(h) \/ RaiseAfter(h)
  BY <1>1, <1>2, <1>3, TaskEnds DEF Carries, Items
<1>4. ASSUME NEW pc, Goto(h, pc),
             task[h].item = None => pc \in DeletePcs,
             task[h].item # None => pc \notin {"idle"} \cup DeletePcs,
             LET t == [pc |-> pc, item |-> task[h].item, row |-> task[h].row,
                       fields |-> task[h].fields, alone |-> task[h].alone]
             IN  /\ task[h].item \in Curateds => CuratedTask(t)
                 /\ task[h].item \in Guardrails => GuardrailTask(t)
      PROVE  \A g \in Admins : Carries(g)'
  <2>1. \A g \in Admins \ {h} : Carries(g)' BY <1>1, <1>4, TaskMoves DEF Carries
  <2>2. /\ task'[h].pc = pc /\ task'[h].item = task[h].item
        /\ task'[h].row = task[h].row /\ task'[h].fields = task[h].fields
    BY <1>4, TaskMoves
  <2>3. Carries(h)' BY <1>1, <1>4, <2>2 DEF Carries, CuratedTask, GuardrailTask
  <2> QED BY <2>1, <2>3
<1> QED BY <1>3, <1>4

\* The item of a request that is past its beginning.
LEMMA ItemDrawn ==
  ASSUME Deleting, Typed, NEW h \in Admins, task[h].pc \notin {"idle"} \cup DeletePcs
  PROVE  /\ task[h].item \in drawn \cap Items
         /\ task[h].item \in Curateds => CuratedTask(task[h])
         /\ task[h].item \in Guardrails => GuardrailTask(task[h])
         /\ Touched(task[h]) = {task[h].item}
<1>1. task[h].item \in Items /\ task[h].item # None /\ IsTask(task[h])
  BY ItemPc DEF Deleting
<1> QED BY <1>1, TouchedItems DEF Typed, Carries

\* A call that raises without effect leaves the stores as they are.
LEMMA CallFailsTyped ==
  ASSUME Deleting, Typed, NEW h \in Admins, CallFails(h)
  PROVE  Typed'
<1>1. UNCHANGED <<tenant, rows, points, drawn, pending, lost>> BY DEF CallFails, asking
<1>2. collection => collection'
  <2>1. collection' = collection \/ collection' = (collection \/ task[h].pc \in UpsertPcs)
    BY DEF CallFails
  <2> QED BY <2>1, Zenon
<1>3. Stored' BY <1>1, <1>2 DEF Typed, Stored, RowFits, PointsFit
<1>4. \A g \in Admins : Carries(g)' BY <1>1, TasksCarry DEF CallFails
<1> QED BY <1>1, <1>3, <1>4 DEF Typed, Logs

\* An insert, an update or a delete of a row.
LEMMA RowTyped ==
  ASSUME Deleting, Typed, NEW h \in Admins,
         InsertCurated(h) \/ UpdateCurated(h) \/ InsertGuardrail(h) \/ DeleteRow(h)
  PROVE  Typed'
<1> DEFINE i == task[h].item
<1>1. task[h].pc \in {"insert_curated", "update_curated", "insert_guardrail", "delete_row"}
  BY DEF InsertCurated, UpdateCurated, InsertGuardrail, DeleteRow
<1>2. /\ i \in drawn \cap Items
      /\ i \in Curateds => CuratedTask(task[h])
      /\ i \in Guardrails => GuardrailTask(task[h])
  BY <1>1, ItemDrawn DEF DeletePcs
<1>3. Curateds \cap Guardrails = {} /\ Items = Curateds \cup Guardrails /\ i # None
  BY <1>2, AnswersAssumption DEF Items
<1>4. RowFits(i) /\ PointsFit(i) BY <1>2 DEF Typed, Stored
<1>5. UNCHANGED <<tenant, collection, points, drawn, pending, lost>>
  BY DEF InsertCurated, UpdateCurated, InsertGuardrail, DeleteRow, asking
<1>6. \E row : /\ rows' = rows \/ rows' = [rows EXCEPT ![i] = row]
               /\ i \in Curateds => row \in CuratedRows \cup {None}
               /\ i \in Guardrails => row \in GuardrailRows \cup {None}
               /\ row # None => tenant # "gone"
  <2>1. CASE InsertCurated(h) \/ InsertGuardrail(h)
    <3>1. \/ tenant # "gone" /\ rows' = [rows EXCEPT ![i] = task[h].row]
          \/ rows' = rows
      BY <2>1 DEF InsertCurated, InsertGuardrail
    <3>2. /\ i \in Curateds => task[h].row \in CuratedRows
          /\ i \in Guardrails => task[h].row \in GuardrailRows
      BY <1>2, <2>1 DEF InsertCurated, InsertGuardrail, CuratedTask, GuardrailTask
    <3> QED BY <3>1, <3>2
  <2>2. CASE UpdateCurated(h)
    <3>1. i \in Curateds /\ task[h].fields \in CuratedFields
      BY <1>2, <1>3, <2>2 DEF UpdateCurated, CuratedTask, GuardrailTask
    <3>2. rows[i] # None => Set(rows[i], task[h].fields) \in CuratedRows /\ tenant # "gone"
      BY <1>2, <1>4, <3>1, SetKinds DEF RowFits, Typed, Stored
    <3>3. \/ rows' = rows
          \/ rows[i] # None /\ rows' = [rows EXCEPT ![i] = Set(rows[i], task[h].fields)]
      BY <2>2 DEF UpdateCurated
    <3> QED BY <1>3, <3>1, <3>2, <3>3
  <2>3. CASE DeleteRow(h)
    <3>1. rows' = [rows EXCEPT ![i] = None] BY <2>3 DEF DeleteRow
    <3> QED BY <3>1
  <2> QED BY <2>1, <2>2, <2>3
<1>7. Stored'
  <2>1. PICK row : /\ rows' = rows \/ rows' = [rows EXCEPT ![i] = row]
                   /\ i \in Curateds => row \in CuratedRows \cup {None}
                   /\ i \in Guardrails => row \in GuardrailRows \cup {None}
                   /\ row # None => tenant # "gone"
    BY <1>6
  <2>2. CASE rows' = rows BY <1>5, <2>2 DEF Typed, Stored, RowFits, PointsFit
  <2>3. CASE rows' = [rows EXCEPT ![i] = row]
    <3>1. /\ rows' = [j \in Items |-> rows'[j]] /\ rows'[i] = row
          /\ \A j \in Items \ {i} : rows'[j] = rows[j]
      BY <1>2, <2>3 DEF Typed, Stored
    <3> HIDE DEF i
    <3>2. ASSUME NEW c \in drawn \cap Items, c = i PROVE Stored'
      <4>1. RowFits(c)' BY <2>1, <3>1, <3>2 DEF RowFits
      <4>2. PointsFit(c)' BY <1>4, <1>5, <3>2 DEF PointsFit
      <4>3. points' = [j \in Items |-> points'[j]] BY <1>5 DEF Typed, Stored
      <4>4. points'[c] # {} => collection BY <1>5 DEF Typed, Stored
      <4> QED BY <1>5, <2>1, <3>1, <3>2, <4>1, <4>2, <4>3, <4>4, OneItemStored DEF Typed
    <3> QED BY <1>2, <3>2
  <2> QED BY <2>1, <2>2, <2>3
<1>8. \A g \in Admins : Carries(g)'
  <2>1. \/ Finish(h) \/ Raise(h) \/ RaiseAfter(h)
        \/ task[h].pc \in {"insert_curated", "update_curated"}
             /\ \E pc \in {"upsert", "upsert_lost"} : Goto(h, pc)
        \/ task[h].pc = "delete_row" /\ i \in Curateds /\ Goto(h, "delete_last")
    BY Zenon DEF InsertCurated, UpdateCurated, InsertGuardrail, DeleteRow
  <2>2. ASSUME NEW pc \in {"upsert", "upsert_lost"}, Goto(h, pc),
               task[h].pc \in {"insert_curated", "update_curated"}
        PROVE  \A g \in Admins : Carries(g)'
    BY <1>2, <1>3, <1>5, <2>2, TasksCarry DEF DeletePcs, CuratedTask, GuardrailTask
  <2>3. ASSUME task[h].pc = "delete_row", i \in Curateds, Goto(h, "delete_last")
        PROVE  \A g \in Admins : Carries(g)'
    BY <1>2, <1>3, <1>5, <2>3, TasksCarry DEF DeletePcs, CuratedTask, GuardrailTask
  <2> QED BY <1>5, <2>1, <2>2, <2>3, TasksCarry
<1> QED BY <1>5, <1>7, <1>8 DEF Typed, Logs

\* An upsert or a delete of points.
LEMMA PointsTyped ==
  ASSUME Deleting, Typed, NEW h \in Admins, UpsertVectors(h) \/ DeleteVectors(h)
  PROVE  Typed'
<1> DEFINE i == task[h].item
<1>1. task[h].pc \in UpsertPcs \cup {"clear_points", "delete_points", "delete_last"}
  BY DEF UpsertVectors, DeleteVectors
<1>2. /\ i \in drawn \cap Items
      /\ i \in Curateds => CuratedTask(task[h])
      /\ i \in Guardrails => GuardrailTask(task[h])
  BY <1>1, ItemDrawn DEF DeletePcs, UpsertPcs
<1>3. Curateds \cap Guardrails = {} /\ Items = Curateds \cup Guardrails /\ i # None
  BY <1>2, AnswersAssumption DEF Items
<1>4. RowFits(i) /\ PointsFit(i) BY <1>2 DEF Typed, Stored
<1>5. UNCHANGED <<tenant, rows, drawn, pending, lost>> /\ (collection => collection')
  BY DEF UpsertVectors, DeleteVectors, asking
<1>6. \E set : /\ points' = points \/ points' = [points EXCEPT ![i] = set]
               /\ i \in Curateds => set = {} \/ \E row \in CuratedRows : set = {row}
               /\ i \in Guardrails => set \subseteq SeedPoints
               /\ set # {} => collection'
  <2>1. CASE UpsertVectors(h)
    <3> DEFINE set == IF i \in Curateds THEN Payloads(task[h].row)
                      ELSE Added(points[i], Payloads(task[h].row))
    <3>1. points' = [points EXCEPT ![i] = set] /\ collection'
      BY <2>1 DEF UpsertVectors, Indexed
    <3>2. task[h].pc \in UpsertPcs BY <2>1 DEF UpsertVectors
    <3>3. i \in Curateds => \E row \in CuratedRows : set = {row}
      <4>1. i \in Curateds => task[h].row \in CuratedRows
        BY <1>2, <3>2 DEF CuratedTask, UpsertPcs
      <4> QED BY <4>1, PayloadKinds
    <3>4. i \in Guardrails => set \subseteq SeedPoints
      <4>1. i \in Guardrails => task[h].row \in GuardrailRows /\ i \notin Curateds
        BY <1>2, <1>3, <3>2 DEF GuardrailTask, UpsertPcs
      <4>2. i \in Guardrails => points[i] \subseteq SeedPoints BY <1>4 DEF PointsFit
      <4> QED BY <4>1, <4>2, PayloadKinds, AddedPoints
    <3> QED BY <3>1, <3>3, <3>4
  <2>2. CASE DeleteVectors(h)
    <3>1. points' = points \/ points' = [points EXCEPT ![i] = {}]
      BY <2>2 DEF DeleteVectors
    <3> QED BY <3>1
  <2> QED BY <2>1, <2>2
<1>7. Stored'
  <2>1. PICK set : /\ points' = points \/ points' = [points EXCEPT ![i] = set]
                   /\ i \in Curateds => set = {} \/ \E row \in CuratedRows : set = {row}
                   /\ i \in Guardrails => set \subseteq SeedPoints
                   /\ set # {} => collection'
    BY <1>6
  <2>2. CASE points' = points BY <1>5, <2>2 DEF Typed, Stored, RowFits, PointsFit
  <2>3. CASE points' = [points EXCEPT ![i] = set]
    <3>1. /\ points' = [j \in Items |-> points'[j]] /\ points'[i] = set
          /\ \A j \in Items \ {i} : points'[j] = points[j]
      BY <1>2, <2>3 DEF Typed, Stored
    <3> HIDE DEF i
    <3>2. ASSUME NEW c \in drawn \cap Items, c = i PROVE Stored'
      <4>1. PointsFit(c)' BY <2>1, <3>1, <3>2 DEF PointsFit
      <4>2. RowFits(c)' BY <1>4, <1>5, <3>2 DEF RowFits
      <4>3. rows' = [j \in Items |-> rows'[j]] BY <1>5 DEF Typed, Stored
      <4>4. rows'[c] # None => tenant # "gone" BY <1>5 DEF Typed, Stored
      <4> QED BY <1>5, <2>1, <3>1, <3>2, <4>1, <4>2, <4>3, <4>4, OneItemStored DEF Typed
    <3> QED BY <1>2, <3>2
  <2> QED BY <2>1, <2>2, <2>3
<1>8. \A g \in Admins : Carries(g)'
  <2>1. \/ Finish(h) \/ Raise(h) \/ RaiseAfter(h)
        \/ task[h].pc = "upsert_first" /\ Goto(h, "insert_guardrail")
        \/ task[h].pc = "clear_points" /\ Goto(h, "upsert")
        \/ task[h].pc = "delete_points" /\ Goto(h, "delete_row")
    BY Zenon DEF UpsertVectors, DeleteVectors
  <2>2. ASSUME task[h].pc = "upsert_first", Goto(h, "insert_guardrail")
        PROVE  \A g \in Admins : Carries(g)'
    BY <1>2, <1>3, <1>5, <2>2, TasksCarry DEF DeletePcs, CuratedTask, GuardrailTask
  <2>3. ASSUME task[h].pc = "clear_points", Goto(h, "upsert")
        PROVE  \A g \in Admins : Carries(g)'
    BY <1>2, <1>3, <1>5, <2>3, TasksCarry DEF DeletePcs, CuratedTask, GuardrailTask
  <2>4. ASSUME task[h].pc = "delete_points", Goto(h, "delete_row")
        PROVE  \A g \in Admins : Carries(g)'
    BY <1>2, <1>3, <1>5, <2>4, TasksCarry DEF DeletePcs, CuratedTask, GuardrailTask
  <2> QED BY <1>5, <2>1, <2>2, <2>3, <2>4, TasksCarry
<1> QED BY <1>5, <1>7, <1>8 DEF Typed, Logs

\* The steps of a delete of the tenant.
LEMMA DeleteTyped ==
  ASSUME Deleting, Typed, NEW h \in Admins,
         DropCollection(h) \/ DeleteLog(h) \/ DeleteTenantRow(h)
  PROVE  Typed'
<1>1. task[h].pc \in DeletePcs /\ task[h].item = None
  <2>1. task[h].pc \in DeletePcs BY DEF DropCollection, DeleteLog, DeleteTenantRow, DeletePcs
  <2> QED BY <2>1, NoItemPc
<1>2. UNCHANGED <<drawn, pending>> /\ lost' \subseteq lost \cup Asks
  BY DEF DropCollection, DeleteLog, DeleteTenantRow, asking
<1>3. \A g \in Admins : Carries(g)'
  <2>1. None \notin Curateds \cup Guardrails BY AnswersAssumption DEF Items
  <2>2. CASE DropCollection(h) /\ task' = [task EXCEPT ![h].pc = "delete_log", ![h].alone = FALSE]
    <3>1. task'[h].item = None /\ \A g \in Admins \ {h} : task'[g] = task[g]
      BY <1>1, <2>2, DropSwallowed
    <3> QED BY <1>2, <2>1, <3>1 DEF Typed, Carries, Items
  <2>3. \/ DropCollection(h) /\ task' = [task EXCEPT ![h].pc = "delete_log", ![h].alone = FALSE]
        \/ Finish(h) \/ RaiseAfter(h)
        \/ \E pc \in {"delete_log", "delete_tenant"} : Goto(h, pc)
    BY DEF DropCollection, DeleteLog, DeleteTenantRow
  <2>4. ASSUME NEW pc \in {"delete_log", "delete_tenant"}, Goto(h, pc)
        PROVE  \A g \in Admins : Carries(g)'
    BY <1>1, <1>2, <2>1, <2>4, TasksCarry DEF DeletePcs
  <2> QED BY <1>2, <2>2, <2>3, <2>4, TasksCarry
<1>4. Stored'
  <2>1. CASE UNCHANGED <<tenant, stores>>
    BY <1>2, <2>1 DEF stores, Typed, Stored, RowFits, PointsFit
  <2>2. CASE /\ collection' = FALSE /\ points' = [i \in Items |-> {}]
             /\ UNCHANGED <<tenant, rows>>
    BY <1>2, <2>2 DEF Typed, Stored, RowFits, PointsFit
  <2>3. CASE DeleteTenantRow(h)
    <3>1. /\ tenant' = "gone" /\ rows' = [i \in Items |-> None]
          /\ UNCHANGED <<collection, points>>
      BY <2>3 DEF DeleteTenantRow
    <3> QED BY <1>2, <3>1 DEF Typed, Stored, RowFits, PointsFit
  <2> QED BY <2>1, <2>2, <2>3 DEF DropCollection, DeleteLog, stores
<1> QED BY <1>2, <1>3, <1>4 DEF Typed, Logs

\* The record of a new request.
LEMMA JobRecord ==
  ASSUME NEW pc, NEW i, NEW row, NEW t, t = Job(pc, i, row)
  PROVE  /\ t.pc = pc /\ t.item = i /\ t.row = row
         /\ i \in Items /\ pc \notin {"idle"} \cup DeletePcs => IsTask(t)
<1>1. t = [pc |-> pc, item |-> i, row |-> row, fields |-> None, alone |-> TRUE] BY NewJob
<1>2. None \notin Items BY AnswersAssumption
<1> QED BY <1>1, <1>2 DEF IsTask

\* The record of a new update of a curated answer.
LEMMA UpdateRecord ==
  ASSUME NEW i \in Items, NEW row, NEW fields, NEW t,
         t = [pc |-> "update_curated", item |-> i, row |-> row, fields |-> fields, alone |-> TRUE]
  PROVE  /\ t.pc = "update_curated" /\ t.item = i /\ t.row = row /\ t.fields = fields
         /\ IsTask(t)
BY AnswersAssumption DEF IsTask, DeletePcs

\* The record of a new delete of the tenant.
LEMMA DeleteRecord ==
  ASSUME NEW t, t = [Job("drop_collection", None, None) EXCEPT !.alone = Quiet]
  PROVE  t.pc = "drop_collection" /\ t.item = None /\ IsTask(t)
<1> DEFINE q == Quiet
<1>1. q \in BOOLEAN BY DEF Quiet
<1>2. t = [Job("drop_collection", None, None) EXCEPT !.alone = q] OBVIOUS
<1> HIDE DEF q
<1>3. t = [pc |-> "drop_collection", item |-> None, row |-> None, fields |-> None, alone |-> q]
  BY <1>2, NewJob, OneField
<1> QED BY <1>1, <1>3 DEF IsTask, DeletePcs

\* A request that begins, and what it has read of the stores or has written.
Opens(h, t) ==
  /\ IsTask(t) /\ Begin(h, t)
  /\ \/ t.item \in Curateds /\ CuratedTask(t)
     \/ t.item \in Guardrails /\ GuardrailTask(t)
     \/ t.item = None /\ t.pc = "drop_collection"
  /\ \/ /\ t.pc \in {"insert_curated", "upsert_first"}
        /\ t.item \notin drawn /\ drawn' = drawn \cup {t.item} /\ UNCHANGED rows
     \/ /\ t.pc = "update_curated" /\ UNCHANGED <<rows, drawn>>
        /\ rows[t.item] # None /\ Set(rows[t.item], t.fields) = t.row
     \/ /\ t.pc = "clear_points" /\ UNCHANGED drawn
        /\ rows[t.item] # None /\ rows' = [rows EXCEPT ![t.item] = t.row]
     \/ /\ t.pc \in {"delete_row", "delete_points"} /\ UNCHANGED <<rows, drawn>>
        /\ rows[t.item] # None /\ (t.pc = "delete_row" => t.item \in Curateds)
     \/ t.pc = "drop_collection" /\ UNCHANGED <<rows, drawn>>

\* Every request that begins is one of these.
LEMMA BeginsWith ==
  ASSUME Deleting, Typed, NEW h \in Admins,
         \/ BeginCreateCurated(h) \/ BeginUpdateCurated(h) \/ BeginDeleteCurated(h)
         \/ BeginCreateGuardrail(h) \/ BeginUpdateGuardrail(h) \/ BeginDeleteGuardrail(h)
         \/ BeginDeleteTenant(h)
  PROVE  \E t : Opens(h, t)
<1>1. None \notin Items /\ Curateds \cap Guardrails = {} /\ Items = Curateds \cup Guardrails
  BY AnswersAssumption DEF Items
<1>2. \A c \in Curateds : rows[c] \in CuratedRows \cup {None}
  BY <1>1 DEF Typed, Stored, RowFits
<1>3. \A g \in Guardrails : rows[g] \in GuardrailRows \cup {None}
  BY <1>1 DEF Typed, Stored, RowFits
<1>4. CASE BeginCreateCurated(h)
  <2>1. PICK c \in Curateds \ drawn, row \in CuratedRows :
          drawn' = drawn \cup {c} /\ Begin(h, Job("insert_curated", c, row))
    BY <1>4 DEF BeginCreateCurated
  <2>2. ASSUME NEW t, t = Job("insert_curated", c, row) PROVE Opens(h, t)
    <3>1. t.pc = "insert_curated" /\ t.item = c /\ t.row = row /\ IsTask(t)
      BY <1>1, <2>2, JobRecord DEF DeletePcs
    <3>2. CuratedTask(t) BY <3>1 DEF CuratedTask
    <3> QED BY <1>4, <2>1, <2>2, <3>1, <3>2 DEF Opens, BeginCreateCurated, stores
  <2> QED BY <2>2
<1>5. CASE BeginUpdateCurated(h)
  <2>1. PICK c \in Curateds, fields \in CuratedFields :
          /\ rows[c] # None
          /\ Begin(h, [Job("update_curated", c, Set(rows[c], fields)) EXCEPT !.fields = fields])
    BY <1>5 DEF BeginUpdateCurated
  <2> DEFINE row == Set(rows[c], fields)
  <2>2. row \in CuratedRows /\ row = Set(rows[c], fields) BY <1>2, <2>1, SetKinds
  <2>3. Begin(h, [Job("update_curated", c, row) EXCEPT !.fields = fields]) BY <2>1
  <2> HIDE DEF row
  <2>4. [Job("update_curated", c, row) EXCEPT !.fields = fields]
          = [pc |-> "update_curated", item |-> c, row |-> row, fields |-> fields, alone |-> TRUE]
    BY NewJob
  <2>5. ASSUME NEW t,
               t = [pc |-> "update_curated", item |-> c, row |-> row, fields |-> fields,
                    alone |-> TRUE]
        PROVE  Opens(h, t)
    <3>1. t.pc = "update_curated" /\ t.item = c /\ t.row = row /\ t.fields = fields /\ IsTask(t)
      BY <1>1, <2>5, UpdateRecord
    <3>2. CuratedTask(t) BY <2>2, <3>1 DEF CuratedTask
    <3>3. UNCHANGED <<rows, drawn>> BY <1>5 DEF BeginUpdateCurated, stores
    <3>4. Begin(h, t) BY <2>3, <2>4, <2>5
    <3> QED BY <2>1, <2>2, <3>1, <3>2, <3>3, <3>4 DEF Opens
  <2> QED BY <2>5
<1>6. CASE BeginDeleteCurated(h)
  <2>1. PICK c \in Curateds : rows[c] # None /\ Begin(h, Job("delete_row", c, None))
    BY <1>6 DEF BeginDeleteCurated
  <2>2. ASSUME NEW t, t = Job("delete_row", c, None) PROVE Opens(h, t)
    <3>1. t.pc = "delete_row" /\ t.item = c /\ IsTask(t)
      BY <1>1, <2>2, JobRecord DEF DeletePcs
    <3>2. CuratedTask(t) BY <3>1 DEF CuratedTask
    <3> QED BY <1>6, <2>1, <2>2, <3>1, <3>2 DEF Opens, BeginDeleteCurated, stores
  <2> QED BY <2>2
<1>7. CASE BeginCreateGuardrail(h)
  <2>1. PICK g \in Guardrails \ drawn, seeds \in SeedLists \ {{}} :
          /\ drawn' = drawn \cup {g}
          /\ Begin(h, Job("upsert_first", g, [seeds |-> seeds, enabled |-> TRUE]))
    BY <1>7 DEF BeginCreateGuardrail
  <2> DEFINE row == [seeds |-> seeds, enabled |-> TRUE]
  <2>2. row \in GuardrailRows BY DEF GuardrailRows
  <2>3. Begin(h, Job("upsert_first", g, row)) BY <2>1
  <2> HIDE DEF row
  <2>4. ASSUME NEW t, t = Job("upsert_first", g, row) PROVE Opens(h, t)
    <3>1. t.pc = "upsert_first" /\ t.item = g /\ t.row = row /\ IsTask(t)
      BY <1>1, <2>4, JobRecord DEF DeletePcs
    <3>2. GuardrailTask(t) BY <2>2, <3>1 DEF GuardrailTask
    <3>3. UNCHANGED rows BY <1>7 DEF BeginCreateGuardrail, stores
    <3> QED BY <2>1, <2>3, <2>4, <3>1, <3>2, <3>3 DEF Opens
  <2> QED BY <2>4
<1>8. CASE BeginUpdateGuardrail(h)
  <2>1. PICK g \in Guardrails, fields \in GuardrailFields :
          /\ rows[g] # None /\ rows' = [rows EXCEPT ![g] = Set(rows[g], fields)]
          /\ Begin(h, Job("clear_points", g, Set(rows[g], fields)))
    BY <1>8 DEF BeginUpdateGuardrail
  <2> DEFINE row == Set(rows[g], fields)
  <2>2. row \in GuardrailRows BY <1>3, <2>1, SetKinds
  <2>3. rows' = [rows EXCEPT ![g] = row] /\ Begin(h, Job("clear_points", g, row)) BY <2>1
  <2> HIDE DEF row
  <2>4. ASSUME NEW t, t = Job("clear_points", g, row) PROVE Opens(h, t)
    <3>1. t.pc = "clear_points" /\ t.item = g /\ t.row = row /\ IsTask(t)
      BY <1>1, <2>4, JobRecord DEF DeletePcs
    <3>2. GuardrailTask(t) BY <2>2, <3>1 DEF GuardrailTask
    <3>3. UNCHANGED drawn BY <1>8 DEF BeginUpdateGuardrail
    <3> QED BY <2>1, <2>3, <2>4, <3>1, <3>2, <3>3 DEF Opens
  <2> QED BY <2>4
<1>9. CASE BeginDeleteGuardrail(h)
  <2>1. PICK g \in Guardrails : rows[g] # None /\ Begin(h, Job("delete_points", g, None))
    BY <1>9 DEF BeginDeleteGuardrail
  <2>2. ASSUME NEW t, t = Job("delete_points", g, None) PROVE Opens(h, t)
    <3>1. t.pc = "delete_points" /\ t.item = g /\ IsTask(t)
      BY <1>1, <2>2, JobRecord DEF DeletePcs
    <3>2. GuardrailTask(t) BY <3>1 DEF GuardrailTask
    <3> QED BY <1>9, <2>1, <2>2, <3>1, <3>2 DEF Opens, BeginDeleteGuardrail, stores
  <2> QED BY <2>2
<1>10. CASE BeginDeleteTenant(h)
  <2>1. ASSUME NEW t, t = [Job("drop_collection", None, None) EXCEPT !.alone = Quiet]
        PROVE  Opens(h, t)
    <3>1. t.pc = "drop_collection" /\ t.item = None /\ IsTask(t) BY <2>1, DeleteRecord
    <3> QED BY <1>10, <2>1, <3>1 DEF Opens, BeginDeleteTenant, stores
  <2> QED BY <2>1
<1> QED BY <1>4, <1>5, <1>6, <1>7, <1>8, <1>9, <1>10

\* A request that begins.
LEMMA BeginTyped ==
  ASSUME Deleting, Typed, NEW h \in Admins,
         \/ BeginCreateCurated(h) \/ BeginUpdateCurated(h) \/ BeginDeleteCurated(h)
         \/ BeginCreateGuardrail(h) \/ BeginUpdateGuardrail(h) \/ BeginDeleteGuardrail(h)
         \/ BeginDeleteTenant(h)
  PROVE  Typed'
<1>1. PICK t : Opens(h, t) BY BeginsWith
<1>2. UNCHANGED <<tenant, collection, points, pending, lost>>
  BY DEF BeginCreateCurated, BeginUpdateCurated, BeginDeleteCurated, BeginCreateGuardrail,
         BeginUpdateGuardrail, BeginDeleteGuardrail, BeginDeleteTenant, stores, asking
<1>3. None \notin Items /\ Curateds \cap Guardrails = {} /\ Items = Curateds \cup Guardrails
  BY AnswersAssumption DEF Items
<1>4. drawn \subseteq drawn' /\ (t.item # None => t.item \in drawn')
  <2>1. ASSUME t.item # None, rows[t.item] # None PROVE t.item \in drawn
    <3>1. t.item \in Items BY <1>1, <1>3, <2>1 DEF Opens
    <3> QED BY <2>1, <3>1 DEF Typed, Stored
  <2>2. t.item = None => t.pc = "drop_collection"
    BY <1>1, <1>3 DEF Opens
  <2>3. t.pc = "drop_collection" => t.item = None
    BY <1>1 DEF Opens, CuratedTask, GuardrailTask
  <2> QED BY <1>1, <2>1, <2>2, <2>3 DEF Opens
<1>5. \A g \in Admins : Carries(g)'
  <2>1. ASSUME NEW g \in Admins \ {h} PROVE Carries(g)'
    <3>1. /\ task'[g].item = task[g].item /\ task'[g].pc = task[g].pc
          /\ task'[g].row = task[g].row /\ task'[g].fields = task[g].fields
      BY <1>1, Beginning DEF Opens
    <3> QED BY <1>4, <3>1 DEF Typed, Carries, CuratedTask, GuardrailTask
  <2>2. Carries(h)'
    <3>1. /\ task'[h].item = t.item /\ task'[h].pc = t.pc
          /\ task'[h].row = t.row /\ task'[h].fields = t.fields
      BY <1>1, Beginning DEF Opens
    <3>2. /\ t.item \in Curateds => CuratedTask(t)
          /\ t.item \in Guardrails => GuardrailTask(t)
      BY <1>1, <1>3 DEF Opens
    <3> QED BY <1>3, <1>4, <3>1, <3>2 DEF Carries, CuratedTask, GuardrailTask
  <2> QED BY <2>1, <2>2
<1>6. Stored'
  <2>1. CASE rows' = rows
    BY <1>2, <1>4, <2>1 DEF Typed, Stored, RowFits, PointsFit
  <2>2. CASE t.pc = "clear_points"
    <3>1. /\ t.item \in Guardrails /\ t.row \in GuardrailRows
          /\ UNCHANGED drawn /\ rows[t.item] # None
          /\ rows' = [rows EXCEPT ![t.item] = t.row]
      BY <1>1, <2>2 DEF Opens, CuratedTask, GuardrailTask
    <3>2. ASSUME NEW i \in Guardrails, i = t.item PROVE Stored'
      <4>1. i \in drawn \cap Items BY <1>3, <3>1, <3>2 DEF Typed, Stored
      <4>2. /\ rows' = [j \in Items |-> rows'[j]] /\ rows'[i] = t.row
            /\ \A j \in Items \ {i} : rows'[j] = rows[j]
        BY <3>1, <3>2, <4>1 DEF Typed, Stored
      <4>3. RowFits(i)' BY <1>3, <3>1, <4>2 DEF RowFits
      <4>4. PointsFit(i)' BY <1>2, <4>1 DEF Typed, Stored, PointsFit
      <4>5. tenant # "gone" BY <3>1, <3>2, <4>1 DEF Typed, Stored
      <4>6. points' = [j \in Items |-> points'[j]] /\ (points'[i] # {} => collection)
        BY <1>2, <4>1 DEF Typed, Stored
      <4> QED BY <1>2, <3>1, <4>1, <4>2, <4>3, <4>4, <4>5, <4>6, OneItemStored DEF Typed
    <3> QED BY <3>1, <3>2
  <2> QED BY <1>1, <2>1, <2>2 DEF Opens
<1> QED BY <1>2, <1>5, <1>6 DEF Typed, Logs

\* A step of a question, of its log task, or of the tenant's standing.
LEMMA OutsideTyped ==
  ASSUME Deleting, Typed,
         \/ \E h \in Admins : Suspend(h) \/ Reinstate(h)
         \/ \E a \in Asks :
              \/ Admit(a) \/ CheckGuardrails(a) \/ CheckCurated(a) \/ Generate(a)
              \/ SearchFails(a) \/ LogStream(a) \/ Disconnect(a)
              \/ InsertLogEntry(a) \/ LoseLogEntry(a)
  PROVE  Typed'
<1>1. CASE \E h \in Admins : Suspend(h) \/ Reinstate(h)
  <2>1. /\ tenant' \in {"active", "suspended"} /\ tenant # "gone"
        /\ UNCHANGED <<rows, collection, points, task, drawn, pending, lost>>
    BY <1>1 DEF Suspend, Reinstate, stores, asking
  <2> QED BY <2>1 DEF Typed, Stored, Logs, Carries, RowFits, PointsFit
<1>2. ASSUME NEW a \in Asks,
             \/ Admit(a) \/ CheckGuardrails(a) \/ CheckCurated(a) \/ Generate(a)
             \/ SearchFails(a) \/ LogStream(a) \/ Disconnect(a)
             \/ InsertLogEntry(a) \/ LoseLogEntry(a)
      PROVE  Typed'
  <2>1. UNCHANGED <<tenant, rows, points, drawn>> /\ (collection => collection')
    <3>1. CASE SearchFails(a)
      <4>1. collection' = collection \/ collection' = TRUE BY <3>1 DEF SearchFails
      <4>2. collection => collection' BY <4>1, Zenon
      <4> QED BY <3>1, <4>2 DEF SearchFails
    <3>2. CASE CheckGuardrails(a) \/ CheckCurated(a) \/ Generate(a)
      BY <3>2 DEF CheckGuardrails, CheckCurated, Generate
    <3>3. CASE Admit(a) \/ LogStream(a) \/ Disconnect(a)
      <4>1. UNCHANGED <<tenant, stores, drawn>> BY <3>3, Zenon DEF Admit, LogStream, Disconnect
      <4> QED BY <4>1 DEF stores
    <3>4. CASE InsertLogEntry(a) \/ LoseLogEntry(a)
      BY <3>4 DEF InsertLogEntry, LoseLogEntry, stores
    <3> QED BY <1>2, <3>1, <3>2, <3>3, <3>4
  <2>2. Stored' BY <2>1 DEF Typed, Stored, RowFits, PointsFit
  <2>3. \A h \in Admins : /\ task'[h].pc = task[h].pc /\ task'[h].item = task[h].item
                          /\ task'[h].row = task[h].row /\ task'[h].fields = task[h].fields
    <3>1. CASE Admit(a) BY <3>1, AdmitTasks
    <3>2. CASE ~Admit(a)
      <4>1. task' = task
        BY <1>2, <3>2 DEF CheckGuardrails, CheckCurated, Generate, SearchFails, LogStream,
             Disconnect, InsertLogEntry, LoseLogEntry
      <4> QED BY <4>1
    <3> QED BY <3>1, <3>2
  <2>4. \A h \in Admins : Carries(h)'
    BY <2>1, <2>3 DEF Typed, Carries, CuratedTask, GuardrailTask
  <2>5. pending' \subseteq pending \cup {a} /\ lost' \subseteq lost \cup {a}
    <3>1. ASSUME NEW source, NEW text, Reply(a, source, text)
          PROVE  pending' \subseteq pending \cup {a}
      BY <3>1 DEF Reply
    <3>2. CASE CheckGuardrails(a) \/ CheckCurated(a) \/ Generate(a)
      BY <3>1, <3>2 DEF CheckGuardrails, CheckCurated, Generate
    <3>3. CASE Admit(a) \/ SearchFails(a)
      BY <3>3 DEF Admit, SearchFails
    <3>4. CASE LogStream(a) \/ Disconnect(a) \/ InsertLogEntry(a) \/ LoseLogEntry(a)
      BY <3>4 DEF LogStream, Disconnect, InsertLogEntry, LoseLogEntry
    <3> QED BY <1>2, <3>2, <3>3, <3>4
  <2> QED BY <2>2, <2>4, <2>5 DEF Typed, Logs
<1> QED BY <1>1, <1>2

\* Every step keeps rows and points well formed.
LEMMA NextTyped == Deleting /\ Typed /\ [Next]_vars => Typed'
<1> SUFFICES ASSUME Deleting, Typed, [Next]_vars PROVE Typed' OBVIOUS
<1>1. CASE UNCHANGED vars
  BY <1>1 DEF vars, stores, asking, Typed, Stored, Logs, Carries, RowFits, PointsFit
<1> QED BY <1>1, CallFailsTyped, BeginTyped, RowTyped, PointsTyped, DeleteTyped, OutsideTyped
        DEF Next

\* Rows and points are well formed for any number of items, requests and
\* questions: in particular a curated answer never has two points, however its
\* updates overlap, and no point is left where no collection is.
THEOREM TypeCorrect == Spec => []TypeOK
<1>1. Typed => TypeOK
  <2> SUFFICES ASSUME Typed PROVE TypeOK OBVIOUS
  <2>1. Items = Curateds \cup Guardrails BY DEF Items
  <2>2. \A c \in Curateds : points[c] \subseteq CuratedRows /\ Cardinality(points[c]) <= 1
    <3> TAKE c \in Curateds
    <3>1. points[c] = {} \/ \E row \in CuratedRows : points[c] = {row}
      BY <2>1 DEF Typed, Stored, PointsFit
    <3>2. CASE points[c] = {}
      <4>1. Cardinality(points[c]) = 0 BY <3>2, FS_EmptySet
      <4> QED BY <3>2, <4>1
    <3>3. ASSUME NEW row \in CuratedRows, points[c] = {row}
          PROVE  points[c] \subseteq CuratedRows /\ Cardinality(points[c]) <= 1
      <4>1. Cardinality(points[c]) = 1 BY <3>3, FS_Singleton
      <4> QED BY <3>3, <4>1
    <3> QED BY <3>1, <3>2, <3>3
  <2> QED BY <2>1, <2>2 DEF Typed, Stored, Logs, RowFits, PointsFit, SeedPoints, TypeOK
<1>2. Init => Deleting /\ Typed BY InitDeleting, InitTyped
<1>3. (Deleting /\ Typed) /\ [Next]_vars => (Deleting /\ Typed)' BY NextDeleting, NextTyped
<1> QED BY <1>1, <1>2, <1>3, PTL DEF Spec

-----------------------------------------------------------------------------
(* What the console lists is what the ask flow finds.                        *)

Agreement(i) == points[i] = Indexable(i, rows[i])

\* A request whose work on an item nothing has spoilt.
Trusted(h, i) == i \in Touched(task[h]) /\ (task[h].alone \/ i \notin doubt)

\* What such a request has done so far for the item.
OnCourse(h, i) ==
  /\ task[h].pc = "update_curated" =>
       rows[i] # None /\ Set(rows[i], task[h].fields) = task[h].row
  /\ task[h].pc \in {"upsert", "clear_points"} => rows[i] = task[h].row
  /\ task[h].pc # "upsert_lost"
  /\ task[h].pc = "delete_last" => rows[i] = None
  /\ i \in Guardrails /\ task[h].pc \in {"upsert_first", "upsert", "delete_row"} => points[i] = {}
  /\ task[h].pc = "insert_guardrail" => points[i] = Payloads(task[h].row)
  /\ task[h].pc \in {"delete_log", "delete_tenant"} => points[i] = {}

\* Requests that meet on an item leave it in doubt and neither can settle it.
Apart ==
  \A g, h \in Admins : \A i \in Items :
    g # h /\ i \in Touched(task[g]) /\ i \in Touched(task[h]) =>
      i \in doubt /\ ~task[g].alone /\ ~task[h].alone

\* The inductive invariant.
Agreeing ==
  /\ Apart
  /\ \A h \in Admins : \A i \in Items : Trusted(h, i) => OnCourse(h, i)
  /\ \A i \in Items : Settled(i) => Agreement(i)

\* One request moves on or ends; it writes nothing but the items it works on.
LEMMA OneRequest ==
  ASSUME Deleting, Agreeing, NEW h \in Admins, Requests',
         \A g \in Admins \ {h} : task'[g] = task[g],
         Touched(task'[h]) \subseteq Touched(task[h]),
         Touched(task'[h]) # {} /\ task'[h].alone => task[h].alone,
         \A j \in Items \ Touched(task[h]) :
           rows'[j] = rows[j] /\ points'[j] = points[j] /\ (j \in doubt' <=> j \in doubt),
         \A j \in Touched(task[h]) : j \in doubt => j \in doubt' \/ task[h].alone,
         \A j \in Items : Trusted(h, j)' => OnCourse(h, j)',
         \A j \in Touched(task[h]) \ Touched(task'[h]) : j \notin doubt' => Agreement(j)'
  PROVE  Agreeing'
<1>1. Apart'
  <2> SUFFICES ASSUME NEW g \in Admins, NEW k \in Admins, NEW i \in Items,
                      g # k, i \in Touched(task'[g]), i \in Touched(task'[k])
               PROVE  i \in doubt' /\ ~task'[g].alone /\ ~task'[k].alone
    BY DEF Apart
  <2>1. i \in Touched(task[g]) /\ i \in Touched(task[k])
    BY DEF Agreeing
  <2>2. i \in doubt /\ ~task[g].alone /\ ~task[k].alone BY <2>1 DEF Agreeing, Apart
  <2>3. ~task'[g].alone /\ ~task'[k].alone BY <2>2
  <2>4. i \in doubt'
    <3>1. CASE i \in Touched(task[h])
      <4>1. ~task[h].alone BY <2>1, <2>2, <3>1 DEF Agreeing, Apart
      <4> QED BY <2>2, <3>1, <4>1
    <3>2. CASE i \notin Touched(task[h]) BY <2>2, <3>2
    <3> QED BY <3>1, <3>2
  <2> QED BY <2>3, <2>4
<1>2. ASSUME NEW g \in Admins \ {h}, NEW i \in Items, Trusted(g, i)' PROVE OnCourse(g, i)'
  <2>1. i \in Touched(task[g]) /\ (task[g].alone \/ i \notin doubt') BY <1>2 DEF Trusted
  <2>2. CASE i \in Touched(task[h])
    <3>1. i \in doubt /\ ~task[g].alone /\ ~task[h].alone BY <2>1, <2>2 DEF Agreeing, Apart
    <3> QED BY <2>1, <2>2, <3>1
  <2>3. CASE i \notin Touched(task[h])
    <3>1. Trusted(g, i) BY <2>1, <2>3 DEF Trusted
    <3>2. OnCourse(g, i) BY <3>1 DEF Agreeing
    <3> QED BY <2>3, <3>2 DEF OnCourse
  <2> QED BY <2>2, <2>3
<1>3. ASSUME NEW i \in Items, Settled(i)' PROVE Agreement(i)'
  <2>1. i \notin doubt' /\ \A g \in Admins : i \notin Touched(task'[g]) BY <1>3 DEF Settled
  <2>2. CASE i \in Touched(task[h]) BY <2>1, <2>2
  <2>3. CASE i \notin Touched(task[h])
    <3>1. Settled(i) BY <2>1, <2>3 DEF Settled
    <3>2. Agreement(i) BY <3>1 DEF Agreeing
    <3> QED BY <2>3, <3>2 DEF Agreement
  <2> QED BY <2>2, <2>3
<1> QED BY <1>1, <1>2, <1>3 DEF Agreeing

\* A request on one item moves on: it stays on course.
LEMMA MovesOn ==
  ASSUME Deleting, Agreeing, NEW h \in Admins, NEW pc, Goto(h, pc),
         task[h].pc # "idle",
         task[h].item = None => pc \in DeletePcs,
         task[h].item # None => pc \notin {"idle"} \cup DeletePcs,
         \A j \in Items \ Touched(task[h]) : rows'[j] = rows[j] /\ points'[j] = points[j],
         \A j \in Items : Trusted(h, j) => OnCourse(h, j)'
  PROVE  Agreeing'
<1>1. /\ Requests' /\ task'[h].pc = pc
      /\ task'[h].item = task[h].item /\ task'[h].alone = task[h].alone
      /\ \A g \in Admins \ {h} : task'[g] = task[g]
  BY TaskMoves
<1>2. doubt' = doubt BY DEF Goto
<1>3. pc # "idle" BY DEF DeletePcs
<1>4. Touched(task'[h]) = Touched(task[h]) BY <1>1, <1>3 DEF Touched
<1>5. \A j \in Items : Trusted(h, j)' => OnCourse(h, j)' BY <1>1, <1>2, <1>4 DEF Trusted
<1> QED BY <1>1, <1>2, <1>4, <1>5, OneRequest

\* A request succeeds: the items it settles agree.
LEMMA Finishes ==
  ASSUME Deleting, Agreeing, NEW h \in Admins, Finish(h),
         \A j \in Items \ Touched(task[h]) : rows'[j] = rows[j] /\ points'[j] = points[j],
         \A j \in Items : Trusted(h, j) => Agreement(j)'
  PROVE  Agreeing'
<1>1. /\ Requests' /\ task'[h].pc = "idle" /\ \A g \in Admins \ {h} : task'[g] = task[g]
  BY TaskEnds
<1>2. Touched(task'[h]) = {} /\ Touched(task[h]) \subseteq Items BY <1>1 DEF Touched
<1>3. doubt' = IF task[h].alone THEN doubt \ Touched(task[h]) ELSE doubt BY DEF Finish
<1>4. \A j \in Touched(task[h]) : j \notin doubt' => Trusted(h, j)
  BY <1>3 DEF Trusted
<1> QED BY <1>1, <1>2, <1>3, <1>4, OneRequest DEF Trusted

\* A request raises: its items are in doubt.
LEMMA Raises ==
  ASSUME Deleting, Agreeing, NEW h \in Admins, Raise(h),
         \A j \in Items \ Touched(task[h]) : rows'[j] = rows[j] /\ points'[j] = points[j]
  PROVE  Agreeing'
<1>1. /\ Requests' /\ task'[h].pc = "idle" /\ \A g \in Admins \ {h} : task'[g] = task[g]
  BY TaskEnds
<1>2. Touched(task'[h]) = {} /\ Touched(task[h]) \subseteq Items BY <1>1 DEF Touched
<1>3. doubt' = doubt \cup Touched(task[h]) BY DEF Raise
<1> QED BY <1>1, <1>2, <1>3, OneRequest DEF Trusted

\* Nothing has been asked for.
LEMMA InitAgreeing == Init => Agreeing
<1> SUFFICES ASSUME Init PROVE Agreeing OBVIOUS
<1>1. task = [h \in Admins |-> Idle] /\ Idle.pc = "idle" BY DEF Init, Idle, Job
<1> HIDE DEF Idle
<1>2. \A h \in Admins : Touched(task[h]) = {} BY <1>1 DEF Touched
<1>3. \A i \in Items : rows[i] = None /\ points[i] = {} BY DEF Init
<1> QED BY <1>2, <1>3 DEF Agreeing, Apart, Trusted, Agreement, Indexable

\* Peace is lost at most, and the stores stay as they are.
LEMMA AgreeingFrame ==
  ASSUME Agreeing, UNCHANGED <<rows, points, doubt>>,
         \A h \in Admins : /\ task'[h].pc = task[h].pc /\ task'[h].item = task[h].item
                           /\ task'[h].row = task[h].row /\ task'[h].fields = task[h].fields
                           /\ task'[h].alone => task[h].alone
  PROVE  Agreeing'
<1>1. \A h \in Admins : Touched(task'[h]) = Touched(task[h]) BY DEF Touched
<1>2. Apart' BY <1>1 DEF Agreeing, Apart
<1>3. ASSUME NEW h \in Admins, NEW i \in Items, Trusted(h, i)' PROVE OnCourse(h, i)'
  <2>1. Trusted(h, i) BY <1>1, <1>3 DEF Trusted
  <2>2. OnCourse(h, i) BY <2>1 DEF Agreeing
  <2> QED BY <2>2 DEF OnCourse
<1>4. \A i \in Items : Settled(i)' => Agreement(i)'
  BY <1>1 DEF Agreeing, Settled, Agreement
<1> QED BY <1>2, <1>3, <1>4 DEF Agreeing

\* A request begins: where it meets another both are out of the race.
LEMMA BeginAgreeing ==
  ASSUME Deleting, Typed, Agreeing, NEW h \in Admins, UNCHANGED points,
         \/ BeginCreateCurated(h) \/ BeginUpdateCurated(h) \/ BeginDeleteCurated(h)
         \/ BeginCreateGuardrail(h) \/ BeginUpdateGuardrail(h) \/ BeginDeleteGuardrail(h)
         \/ BeginDeleteTenant(h)
  PROVE  Agreeing'
<1>1. PICK t : Opens(h, t) BY BeginsWith
<1>2. IsTask(t) /\ Begin(h, t) /\ task[h].pc = "idle" BY <1>1 DEF Opens, Begin
<1>3. /\ task'[h].item = t.item /\ task'[h].pc = t.pc
      /\ task'[h].row = t.row /\ task'[h].fields = t.fields
      /\ task'[h].alone => \A g \in Admins : Touched(task[g]) \cap Touched(t) = {}
      /\ \A g \in Admins \ {h} :
           /\ task'[g].item = task[g].item /\ task'[g].pc = task[g].pc
           /\ task'[g].row = task[g].row /\ task'[g].fields = task[g].fields
           /\ task'[g].alone => task[g].alone /\ Touched(task[g]) \cap Touched(t) = {}
  BY <1>2, Beginning
<1>4. /\ doubt \subseteq doubt' /\ doubt' \subseteq doubt \cup Touched(t)
      /\ \A g \in Admins : Touched(t) \cap Touched(task[g]) \subseteq doubt'
  BY <1>2 DEF Begin
<1>5. Touched(task[h]) = {} BY <1>2 DEF Touched
<1>6. Touched(task'[h]) = Touched(t) /\ \A g \in Admins \ {h} : Touched(task'[g]) = Touched(task[g])
  BY <1>3 DEF Touched
<1>7. None \notin Items /\ Curateds \cap Guardrails = {} /\ Items = Curateds \cup Guardrails
  BY AnswersAssumption DEF Items
<1>8. \A j \in Items \ Touched(t) : rows'[j] = rows[j]
  <2> TAKE j \in Items \ Touched(t)
  <2>1. CASE t.item # None
    <3>1. j # t.item BY <1>2, <2>1, TouchedItems
    <3>2. rows' = rows \/ rows' = [rows EXCEPT ![t.item] = t.row] BY <1>1 DEF Opens
    <3>3. rows = [i \in Items |-> rows[i]] BY DEF Typed, Stored
    <3> QED BY <3>1, <3>2, <3>3
  <2>2. CASE t.item = None
    <3>1. t.pc = "drop_collection" BY <1>1, <1>7, <2>2 DEF Opens
    <3>2. rows' = rows BY <1>1, <3>1 DEF Opens
    <3> QED BY <3>2
  <2> QED BY <2>1, <2>2
<1>9. Apart'
  <2> SUFFICES ASSUME NEW g \in Admins, NEW k \in Admins, NEW i \in Items,
                      g # k, i \in Touched(task'[g]), i \in Touched(task'[k])
               PROVE  i \in doubt' /\ ~task'[g].alone /\ ~task'[k].alone
    BY DEF Apart
  <2>1. CASE g # h /\ k # h
    <3>1. i \in doubt /\ ~task[g].alone /\ ~task[k].alone
      BY <1>6, <2>1 DEF Agreeing, Apart
    <3> QED BY <1>3, <1>4, <2>1, <3>1
  <2>2. CASE g = h \/ k = h
    BY <1>3, <1>4, <1>6, <2>2
  <2> QED BY <2>1, <2>2
<1>10. ASSUME NEW g \in Admins \ {h}, NEW i \in Items, Trusted(g, i)' PROVE OnCourse(g, i)'
  <2>1. i \in Touched(task[g]) /\ i \notin Touched(t) /\ (task[g].alone \/ i \notin doubt)
    BY <1>3, <1>4, <1>6, <1>10 DEF Trusted
  <2>2. OnCourse(g, i) BY <2>1 DEF Agreeing, Trusted
  <2> QED BY <1>3, <1>8, <2>1, <2>2 DEF OnCourse
<1>11. ASSUME NEW i \in Items, Trusted(h, i)' PROVE OnCourse(h, i)'
  <2>1. i \in Touched(t) BY <1>6, <1>11 DEF Trusted
  <2>2. t.item # None => i = t.item BY <1>2, <2>1, TouchedItems
  <2>3. CASE t.pc \in {"insert_curated", "upsert_first"}
    <3>1. i = t.item /\ i \notin drawn
      BY <1>1, <1>7, <2>2, <2>3 DEF Opens, CuratedTask, GuardrailTask
    <3>2. points[i] = {} BY <3>1 DEF Typed, Stored
    <3> QED BY <1>3, <2>3, <3>2 DEF OnCourse
  <2>4. CASE t.pc = "update_curated"
    <3>1. rows[t.item] # None /\ Set(rows[t.item], t.fields) = t.row /\ rows' = rows
      BY <1>1, <2>4 DEF Opens
    <3>2. i = t.item BY <1>1, <1>7, <2>2, <2>4 DEF Opens, CuratedTask, GuardrailTask
    <3> QED BY <1>3, <2>4, <3>1, <3>2 DEF OnCourse
  <2>5. CASE t.pc = "clear_points"
    <3>1. i = t.item BY <1>1, <1>7, <2>2, <2>5 DEF Opens, CuratedTask, GuardrailTask
    <3>2. rows' = [rows EXCEPT ![t.item] = t.row] BY <1>1, <2>5 DEF Opens
    <3>3. rows = [j \in Items |-> rows[j]] BY DEF Typed, Stored
    <3>4. rows'[i] = t.row BY <3>1, <3>2, <3>3
    <3> QED BY <1>3, <2>5, <3>4 DEF OnCourse
  <2>6. CASE t.pc \in {"delete_row", "delete_points"}
    <3>1. t.pc = "delete_row" => i \in Curateds
      BY <1>1, <1>7, <2>2, <2>6 DEF Opens, CuratedTask, GuardrailTask
    <3> QED BY <1>3, <1>7, <2>6, <3>1 DEF OnCourse
  <2>7. CASE t.pc = "drop_collection"
    BY <1>3, <2>7 DEF OnCourse
  <2> QED BY <1>1, <2>3, <2>4, <2>5, <2>6, <2>7 DEF Opens
<1>12. ASSUME NEW i \in Items, Settled(i)' PROVE Agreement(i)'
  <2>1. i \notin doubt' /\ \A g \in Admins : i \notin Touched(task'[g]) BY <1>12 DEF Settled
  <2>2. i \notin Touched(t) /\ i \notin doubt BY <1>4, <1>6, <2>1
  <2>3. Settled(i) BY <1>5, <1>6, <2>1, <2>2 DEF Settled
  <2> QED BY <1>8, <2>2, <2>3 DEF Agreeing, Agreement
<1> QED BY <1>9, <1>10, <1>11, <1>12 DEF Agreeing

\* How a delete of a row goes on.
LEMMA RowDeleted ==
  ASSUME NEW h \in Admins, DeleteRow(h)
  PROVE  \/ task[h].item \in Curateds /\ Goto(h, "delete_last")
         \/ task[h].item \in Guardrails /\ Finish(h)
         \/ RaiseAfter(h)
BY DEF DeleteRow

\* A call on a row: of an insert or an update of a curated answer, of the insert
\* of a guardrail, of a delete of either.
LEMMA RowAgreeing ==
  ASSUME Deleting, Typed, Agreeing, NEW h \in Admins,
         InsertCurated(h) \/ UpdateCurated(h) \/ InsertGuardrail(h) \/ DeleteRow(h)
  PROVE  Agreeing'
<1> DEFINE c == task[h].item
<1>1. task[h].pc \in {"insert_curated", "update_curated", "insert_guardrail", "delete_row"}
  BY DEF InsertCurated, UpdateCurated, InsertGuardrail, DeleteRow
<1>2. PICK i \in drawn \cap Items : i = c BY <1>1, ItemDrawn DEF DeletePcs
<1>3. /\ i \in Curateds => CuratedTask(task[h])
      /\ i \in Guardrails => GuardrailTask(task[h])
      /\ Touched(task[h]) = {i}
  BY <1>1, <1>2, ItemDrawn DEF DeletePcs
<1>4. None \notin Items /\ Curateds \cap Guardrails = {} /\ Items = Curateds \cup Guardrails
  BY AnswersAssumption DEF Items
<1>5. points' = points
  BY DEF InsertCurated, UpdateCurated, InsertGuardrail, DeleteRow
<1>6. rows = [j \in Items |-> rows[j]] BY DEF Typed, Stored
<1>7. \E row : rows' = rows \/ rows' = [rows EXCEPT ![c] = row]
  <2>1. \/ rows' = rows \/ rows' = [rows EXCEPT ![c] = task[h].row]
        \/ rows' = [rows EXCEPT ![c] = Set(rows[c], task[h].fields)]
        \/ rows' = [rows EXCEPT ![c] = None]
    BY DEF InsertCurated, UpdateCurated, InsertGuardrail, DeleteRow
  <2> QED BY <2>1
<1>8. \A j \in Items \ Touched(task[h]) : rows'[j] = rows[j] /\ points'[j] = points[j]
  <2>1. PICK row : rows' = rows \/ rows' = [rows EXCEPT ![c] = row] BY <1>7
  <2> HIDE DEF c
  <2> QED BY <1>2, <1>3, <1>5, <1>6, <2>1
<1>9. task[h].item # None /\ task[h].pc # "idle" BY <1>1, <1>2, <1>4
<1>10. RaiseAfter(h) => Agreeing' BY <1>8, Raises DEF RaiseAfter
<1>11. Raise(h) => Agreeing' BY <1>8, Raises
<1>12. Trusted(h, i) => OnCourse(h, i) BY DEF Agreeing
<1>13. ASSUME NEW pc \in {"upsert", "upsert_lost", "delete_last"}, Goto(h, pc),
              Trusted(h, i) => OnCourse(h, i)'
       PROVE  Agreeing'
  <2>1. \A j \in Items : Trusted(h, j) => OnCourse(h, j)' BY <1>3, <1>13 DEF Trusted
  <2> QED BY <1>8, <1>9, <1>13, <2>1, MovesOn DEF DeletePcs
<1>14. ASSUME Finish(h), Trusted(h, i) => Agreement(i)' PROVE Agreeing'
  <2>1. \A j \in Items : Trusted(h, j) => Agreement(j)' BY <1>3, <1>14 DEF Trusted
  <2> QED BY <1>8, <1>14, <2>1, Finishes
<1>15. ASSUME NEW pc, Goto(h, pc), pc \in {"upsert", "upsert_lost", "delete_last"}
       PROVE  task'[h].pc = pc /\ task'[h].row = task[h].row
  BY <1>9, <1>15, TaskMoves DEF DeletePcs
<1>16. CASE InsertCurated(h)
  <2>1. i \in Curateds BY <1>3, <1>4, <1>16 DEF InsertCurated, GuardrailTask
  <2>2. \/ Raise(h) \/ RaiseAfter(h)
        \/ rows' = [rows EXCEPT ![c] = task[h].row] /\ Goto(h, "upsert")
    BY <1>16 DEF InsertCurated
  <2>3. ASSUME rows' = [rows EXCEPT ![c] = task[h].row], Goto(h, "upsert") PROVE Agreeing'
    <3>1. rows'[i] = task[h].row BY <1>2, <1>6, <2>3
    <3>2. OnCourse(h, i)' BY <1>4, <1>15, <2>1, <2>3, <3>1 DEF OnCourse
    <3> QED BY <1>13, <2>3, <3>2
  <2> QED BY <1>10, <1>11, <2>2, <2>3
<1>17. CASE UpdateCurated(h)
  <2>1. i \in Curateds /\ task[h].pc = "update_curated"
    BY <1>3, <1>4, <1>17 DEF UpdateCurated, GuardrailTask
  <2>2. CASE rows[i] = None
    <3>1. \/ RaiseAfter(h) \/ Goto(h, "upsert_lost")
      BY <1>2, <1>17, <2>2 DEF UpdateCurated
    <3>2. ~Trusted(h, i) BY <1>12, <2>1, <2>2 DEF OnCourse
    <3> QED BY <1>10, <1>13, <3>1, <3>2
  <2>3. CASE rows[i] # None
    <3>1. /\ rows' = [rows EXCEPT ![c] = Set(rows[c], task[h].fields)]
          /\ RaiseAfter(h) \/ Goto(h, "upsert")
      BY <1>2, <1>17, <2>3 DEF UpdateCurated
    <3>2. rows'[i] = Set(rows[i], task[h].fields) BY <1>2, <1>6, <3>1
    <3>3. ASSUME Goto(h, "upsert"), Trusted(h, i) PROVE OnCourse(h, i)'
      <4>1. rows'[i] = task[h].row BY <1>12, <2>1, <3>2, <3>3 DEF OnCourse
      <4> QED BY <1>4, <1>15, <2>1, <3>3, <4>1 DEF OnCourse
    <3> QED BY <1>10, <1>13, <3>1, <3>3
  <2> QED BY <2>2, <2>3
<1>18. CASE InsertGuardrail(h)
  <2>1. i \in Guardrails /\ task[h].pc = "insert_guardrail"
    BY <1>3, <1>4, <1>18 DEF InsertGuardrail, CuratedTask
  <2>2. \/ Raise(h) \/ RaiseAfter(h)
        \/ rows' = [rows EXCEPT ![c] = task[h].row] /\ Finish(h)
    BY <1>18 DEF InsertGuardrail
  <2>3. ASSUME rows' = [rows EXCEPT ![c] = task[h].row], Finish(h) PROVE Agreeing'
    <3>1. rows'[i] = task[h].row BY <1>2, <1>6, <2>3
    <3>2. task[h].row # None BY <1>3, <2>1, RowKinds DEF GuardrailTask
    <3>3. Trusted(h, i) => Agreement(i)'
      BY <1>5, <1>12, <2>1, <3>1, <3>2 DEF OnCourse, Agreement, Indexable
    <3> QED BY <1>14, <2>3, <3>3
  <2> QED BY <1>10, <1>11, <2>2, <2>3
<1>19. CASE DeleteRow(h)
  <2>1. task[h].pc = "delete_row" /\ rows'[i] = None
    BY <1>2, <1>6, <1>19 DEF DeleteRow
  <2>2. \/ i \in Curateds /\ Goto(h, "delete_last")
        \/ i \in Guardrails /\ Finish(h)
        \/ RaiseAfter(h)
    <3>1. \/ c \in Curateds /\ Goto(h, "delete_last")
          \/ c \in Guardrails /\ Finish(h)
          \/ RaiseAfter(h)
      BY <1>19, RowDeleted
    <3> HIDE DEF c
    <3> QED BY <1>2, <3>1
  <2>3. ASSUME i \in Curateds, Goto(h, "delete_last") PROVE Agreeing'
    <3>1. OnCourse(h, i)' BY <1>4, <1>15, <2>1, <2>3 DEF OnCourse
    <3> QED BY <1>13, <2>3, <3>1
  <2>4. ASSUME i \in Guardrails, Finish(h) PROVE Agreeing'
    <3>1. Trusted(h, i) => Agreement(i)'
      BY <1>5, <1>12, <2>1, <2>4 DEF OnCourse, Agreement, Indexable
    <3> QED BY <1>14, <2>4, <3>1
  <2> QED BY <1>10, <2>2, <2>3, <2>4
<1> QED BY <1>16, <1>17, <1>18, <1>19

\* A call on the points of an item.
LEMMA PointsAgreeing ==
  ASSUME Deleting, Typed, Agreeing, NEW h \in Admins, UpsertVectors(h) \/ DeleteVectors(h)
  PROVE  Agreeing'
<1> DEFINE c == task[h].item
<1>1. task[h].pc \in UpsertPcs \cup {"clear_points", "delete_points", "delete_last"}
  BY DEF UpsertVectors, DeleteVectors
<1>2. PICK i \in drawn \cap Items : i = c BY <1>1, ItemDrawn DEF DeletePcs, UpsertPcs
<1>3. /\ i \in Curateds => CuratedTask(task[h])
      /\ i \in Guardrails => GuardrailTask(task[h])
      /\ Touched(task[h]) = {i}
  BY <1>1, <1>2, ItemDrawn DEF DeletePcs, UpsertPcs
<1>4. None \notin Items /\ Curateds \cap Guardrails = {} /\ Items = Curateds \cup Guardrails
  BY AnswersAssumption DEF Items
<1>5. rows' = rows BY DEF UpsertVectors, DeleteVectors
<1>6. points = [j \in Items |-> points[j]] BY DEF Typed, Stored
<1> DEFINE full == IF c \in Curateds THEN Payloads(task[h].row)
                   ELSE Added(points[c], Payloads(task[h].row))
<1>7. /\ UpsertVectors(h) => points' = [points EXCEPT ![c] = full]
      /\ DeleteVectors(h) => points' = points \/ points' = [points EXCEPT ![c] = {}]
  BY DEF UpsertVectors, DeleteVectors, Indexed
<1>8. UpsertVectors(h) /\ (i \in Curateds \/ points[i] = {})
        => points'[i] = Payloads(task[h].row)
  BY <1>2, <1>6, <1>7, AddedPoints
<1>9. \A j \in Items \ Touched(task[h]) : rows'[j] = rows[j] /\ points'[j] = points[j]
  <2> HIDE DEF full, c
  <2> QED BY <1>2, <1>3, <1>5, <1>6, <1>7
<1>10. task[h].item # None /\ task[h].pc # "idle" BY <1>1, <1>2, <1>4 DEF UpsertPcs
<1>11. RaiseAfter(h) => Agreeing' BY <1>9, Raises DEF RaiseAfter
<1>12. Raise(h) => Agreeing' BY <1>9, Raises
<1>13. Trusted(h, i) => OnCourse(h, i) BY DEF Agreeing
<1>14. ASSUME NEW pc \in {"insert_guardrail", "upsert", "delete_row"}, Goto(h, pc),
              Trusted(h, i) => OnCourse(h, i)'
       PROVE  Agreeing'
  <2>1. \A j \in Items : Trusted(h, j) => OnCourse(h, j)' BY <1>3, <1>14 DEF Trusted
  <2> QED BY <1>9, <1>10, <1>14, <2>1, MovesOn DEF DeletePcs
<1>15. ASSUME Finish(h), Trusted(h, i) => Agreement(i)' PROVE Agreeing'
  <2>1. \A j \in Items : Trusted(h, j) => Agreement(j)' BY <1>3, <1>15 DEF Trusted
  <2> QED BY <1>9, <1>15, <2>1, Finishes
<1>16. ASSUME NEW pc, Goto(h, pc), pc \in {"insert_guardrail", "upsert", "delete_row"}
       PROVE  task'[h].pc = pc /\ task'[h].row = task[h].row
  BY <1>10, <1>16, TaskMoves DEF DeletePcs
<1>17. CASE UpsertVectors(h)
  <2>1. \/ task[h].pc = "upsert_first" /\ Goto(h, "insert_guardrail")
        \/ task[h].pc = "upsert" /\ Finish(h)
        \/ Raise(h) \/ RaiseAfter(h)
    BY <1>17, Zenon DEF UpsertVectors
  <2>2. ASSUME task[h].pc = "upsert_first", Goto(h, "insert_guardrail") PROVE Agreeing'
    <3>1. i \in Guardrails BY <1>3, <1>4, <2>2 DEF CuratedTask
    <3>2. ASSUME Trusted(h, i) PROVE OnCourse(h, i)'
      <4>1. points[i] = {} BY <1>13, <2>2, <3>1, <3>2 DEF OnCourse
      <4>2. points'[i] = Payloads(task[h].row) BY <1>4, <1>8, <1>17, <3>1, <4>1
      <4> QED BY <1>16, <2>2, <4>2 DEF OnCourse
    <3> QED BY <1>14, <2>2, <3>2
  <2>3. ASSUME task[h].pc = "upsert", Finish(h) PROVE Agreeing'
    <3>1. task[h].row # None
      <4>1. task[h].row \in CuratedRows \/ task[h].row \in GuardrailRows
        BY <1>2, <1>3, <1>4, <2>3 DEF CuratedTask, GuardrailTask
      <4> QED BY <4>1, RowKinds
    <3>2. ASSUME Trusted(h, i) PROVE Agreement(i)'
      <4>1. rows'[i] = task[h].row /\ (i \in Guardrails => points[i] = {})
        BY <1>5, <1>13, <2>3, <3>2 DEF OnCourse
      <4>2. points'[i] = Payloads(task[h].row) BY <1>2, <1>4, <1>8, <1>17, <4>1
      <4> QED BY <3>1, <4>1, <4>2 DEF Agreement, Indexable
    <3> QED BY <1>15, <2>3, <3>2
  <2> QED BY <1>11, <1>12, <2>1, <2>2, <2>3
<1>18. CASE DeleteVectors(h)
  <2>1. \/ Raise(h) \/ RaiseAfter(h)
        \/ /\ points' = [points EXCEPT ![c] = {}]
           /\ \/ task[h].pc = "clear_points" /\ task[h].row.seeds # {} /\ Goto(h, "upsert")
              \/ task[h].pc = "clear_points" /\ task[h].row.seeds = {} /\ Finish(h)
              \/ task[h].pc = "delete_points" /\ Goto(h, "delete_row")
              \/ task[h].pc = "delete_last" /\ Finish(h)
    BY <1>18, Zenon DEF DeleteVectors
  <2>2. points' = [points EXCEPT ![c] = {}] => points'[i] = {}
    BY <1>2, <1>6
  <2>3. ASSUME points'[i] = {}, task[h].pc = "clear_points", Goto(h, "upsert") PROVE Agreeing'
    <3>1. i \in Guardrails BY <1>2, <1>3, <1>4, <2>3 DEF CuratedTask
    <3>2. Trusted(h, i) => rows'[i] = task[h].row BY <1>5, <1>13, <2>3 DEF OnCourse
    <3>3. Trusted(h, i) => OnCourse(h, i)' BY <1>16, <2>3, <3>2 DEF OnCourse
    <3> QED BY <1>14, <2>3, <3>3
  <2>4. ASSUME points'[i] = {}, task[h].pc = "clear_points", task[h].row.seeds = {}, Finish(h)
        PROVE  Agreeing'
    <3>1. task[h].row \in GuardrailRows
      BY <1>2, <1>3, <1>4, <2>4 DEF CuratedTask, GuardrailTask
    <3>2. Payloads(task[h].row) = {} BY <2>4, <3>1, PayloadKinds
    <3>3. Trusted(h, i) => rows'[i] = task[h].row BY <1>5, <1>13, <2>4 DEF OnCourse
    <3>4. Trusted(h, i) => Agreement(i)' BY <2>4, <3>2, <3>3 DEF Agreement, Indexable
    <3> QED BY <1>15, <2>4, <3>4
  <2>5. ASSUME points'[i] = {}, task[h].pc = "delete_points", Goto(h, "delete_row")
        PROVE  Agreeing'
    <3>1. OnCourse(h, i)' BY <1>16, <2>5 DEF OnCourse
    <3> QED BY <1>14, <2>5, <3>1
  <2>6. ASSUME points'[i] = {}, task[h].pc = "delete_last", Finish(h) PROVE Agreeing'
    <3>1. Trusted(h, i) => rows'[i] = None BY <1>5, <1>13, <2>6 DEF OnCourse
    <3>2. Trusted(h, i) => Agreement(i)' BY <2>6, <3>1 DEF Agreement, Indexable
    <3> QED BY <1>15, <2>6, <3>2
  <2> HIDE DEF c
  <2> QED BY <1>11, <1>12, <2>1, <2>2, <2>3, <2>4, <2>5, <2>6
<1> QED BY <1>17, <1>18

\* The steps of a delete of the tenant, which works on every item.
LEMMA DeleteAgreeing ==
  ASSUME Deleting, Typed, Agreeing, NEW h \in Admins,
         DropCollection(h) \/ DeleteLog(h) \/ DeleteTenantRow(h)
  PROVE  Agreeing'
<1>1. task[h].pc \in DeletePcs /\ task[h].item = None /\ task[h].pc # "idle"
  <2>1. task[h].pc \in DeletePcs BY DEF DropCollection, DeleteLog, DeleteTenantRow, DeletePcs
  <2> QED BY <2>1, NoItemPc DEF DeletePcs
<1>2. Touched(task[h]) = Items BY <1>1, TouchedItems DEF Deleting
<1>3. \A i \in Items : Trusted(h, i) => OnCourse(h, i) BY DEF Agreeing
<1>4. RaiseAfter(h) => Agreeing' BY <1>2, Raises DEF RaiseAfter
<1>5. ASSUME NEW pc \in {"delete_log", "delete_tenant"}, Goto(h, pc),
             \A i \in Items : Trusted(h, i) => OnCourse(h, i)'
      PROVE  Agreeing'
  BY <1>1, <1>2, <1>5, MovesOn DEF DeletePcs
<1>6. ASSUME NEW pc \in {"delete_log", "delete_tenant"}, Goto(h, pc)
      PROVE  task'[h].pc = pc
  BY <1>1, <1>6, TaskMoves DEF DeletePcs
<1>7. CASE DropCollection(h)
  <2>1. CASE points' = [i \in Items |-> {}] /\ Goto(h, "delete_log")
    <3>1. \A i \in Items : OnCourse(h, i)' BY <1>6, <2>1 DEF OnCourse
    <3> QED BY <1>5, <2>1, <3>1
  <2>2. CASE /\ task' = [task EXCEPT ![h].pc = "delete_log", ![h].alone = FALSE]
             /\ doubt' = Items
    <3>1. /\ Requests' /\ task'[h].pc = "delete_log" /\ task'[h].item = None
          /\ ~task'[h].alone /\ \A g \in Admins \ {h} : task'[g] = task[g]
      BY <1>1, <2>2, DropSwallowed
    <3>2. IsTask(task'[h]) BY <3>1 DEF Requests
    <3>3. Touched(task'[h]) = Items BY <3>1, <3>2, TouchedItems DEF DeletePcs
    <3>4. \A i \in Items : ~Trusted(h, i)' BY <2>2, <3>1 DEF Trusted
    <3>5. \A i \in Items : i \in doubt' BY <2>2
    <3>6. \A j \in Items \ Touched(task[h]) : FALSE BY <1>2
    <3> HIDE DEF Trusted
    <3> QED BY <1>2, <3>1, <3>3, <3>4, <3>5, <3>6, OneRequest
  <2> QED BY <1>7, <2>1, <2>2 DEF DropCollection
<1>8. CASE DeleteLog(h)
  <2>1. Goto(h, "delete_tenant") \/ RaiseAfter(h) BY <1>8 DEF DeleteLog
  <2>2. task[h].pc = "delete_log" /\ UNCHANGED points BY <1>8 DEF DeleteLog, stores
  <2>3. ASSUME Goto(h, "delete_tenant") PROVE Agreeing'
    <3>1. ASSUME NEW i \in Items, Trusted(h, i) PROVE OnCourse(h, i)'
      <4>1. points[i] = {} BY <1>3, <2>2, <3>1 DEF OnCourse
      <4> QED BY <1>6, <2>2, <2>3, <4>1 DEF OnCourse
    <3> QED BY <1>5, <2>3, <3>1
  <2> QED BY <1>4, <2>1, <2>3
<1>9. CASE DeleteTenantRow(h)
  <2>1. Finish(h) \/ RaiseAfter(h) BY <1>9 DEF DeleteTenantRow
  <2>2. /\ task[h].pc = "delete_tenant" /\ UNCHANGED points
        /\ rows' = [i \in Items |-> None]
    BY <1>9 DEF DeleteTenantRow
  <2>3. ASSUME NEW i \in Items, Trusted(h, i) PROVE Agreement(i)'
    <3>1. points[i] = {} BY <1>3, <2>2, <2>3 DEF OnCourse
    <3> QED BY <2>2, <3>1 DEF Agreement, Indexable
  <2>4. \A j \in Items \ Touched(task[h]) : rows'[j] = rows[j] /\ points'[j] = points[j]
    BY <1>2
  <2> QED BY <1>4, <2>1, <2>3, <2>4, Finishes
<1> QED BY <1>7, <1>8, <1>9

\* Every step keeps rows and points in agreement.
LEMMA NextAgreeing == Deleting /\ Typed /\ Agreeing /\ [Next]_vars => Agreeing'
<1> SUFFICES ASSUME Deleting, Typed, Agreeing, [Next]_vars PROVE Agreeing' OBVIOUS
<1>1. CASE UNCHANGED vars
  BY <1>1, AgreeingFrame DEF vars, stores
<1>2. ASSUME NEW h \in Admins, CallFails(h) PROVE Agreeing'
  BY <1>2, Raises DEF CallFails, RaiseAfter
<1>3. ASSUME NEW h \in Admins,
             \/ BeginCreateCurated(h) \/ BeginUpdateCurated(h) \/ BeginDeleteCurated(h)
             \/ BeginCreateGuardrail(h) \/ BeginUpdateGuardrail(h) \/ BeginDeleteGuardrail(h)
             \/ BeginDeleteTenant(h)
      PROVE  Agreeing'
  <2>1. UNCHANGED points
    BY <1>3 DEF BeginCreateCurated, BeginUpdateCurated, BeginDeleteCurated, BeginCreateGuardrail,
         BeginUpdateGuardrail, BeginDeleteGuardrail, BeginDeleteTenant, stores
  <2> QED BY <1>3, <2>1, BeginAgreeing
<1>4. ASSUME NEW h \in Admins, Suspend(h) \/ Reinstate(h) PROVE Agreeing'
  <2>1. UNCHANGED <<rows, points, task, doubt>> BY <1>4 DEF Suspend, Reinstate, stores
  <2> QED BY <2>1, AgreeingFrame
<1>5. ASSUME NEW a \in Asks,
             \/ Admit(a) \/ CheckGuardrails(a) \/ CheckCurated(a) \/ Generate(a)
             \/ SearchFails(a) \/ LogStream(a) \/ Disconnect(a)
             \/ InsertLogEntry(a) \/ LoseLogEntry(a)
      PROVE  Agreeing'
  <2>1. UNCHANGED <<rows, points, doubt>>
    <3>1. CASE CheckGuardrails(a) \/ CheckCurated(a) \/ Generate(a)
      BY <3>1 DEF CheckGuardrails, CheckCurated, Generate
    <3>2. CASE Admit(a) \/ LogStream(a) \/ Disconnect(a)
      <4>1. UNCHANGED <<stores, doubt>> BY <3>2, Zenon DEF Admit, LogStream, Disconnect
      <4> QED BY <4>1 DEF stores
    <3>3. CASE SearchFails(a) \/ InsertLogEntry(a) \/ LoseLogEntry(a)
      BY <3>3 DEF SearchFails, InsertLogEntry, LoseLogEntry, stores
    <3> QED BY <1>5, <3>1, <3>2, <3>3
  <2>2. CASE Admit(a) BY <2>1, <2>2, AdmitTasks, AgreeingFrame
  <2>3. CASE ~Admit(a)
    <3>1. task' = task
      BY <1>5, <2>3 DEF CheckGuardrails, CheckCurated, Generate, SearchFails, LogStream,
           Disconnect, InsertLogEntry, LoseLogEntry
    <3> QED BY <2>1, <3>1, AgreeingFrame
  <2> QED BY <2>2, <2>3
<1> QED BY <1>1, <1>2, <1>3, <1>4, <1>5, RowAgreeing, PointsAgreeing, DeleteAgreeing DEF Next

\* What the console lists is what the ask flow finds, for any number of items and
\* of requests side by side: an item whose requests neither overlapped nor failed
\* since the last one that ran alone is indexed exactly as its row says.
THEOREM RowsAndPointsAgree == Spec => []StoresAgree
<1>1. Agreeing => StoresAgree BY DEF Agreeing, Agreement, StoresAgree
<1>2. Init => Deleting /\ Typed /\ Agreeing BY InitDeleting, InitTyped, InitAgreeing
<1>3. (Deleting /\ Typed /\ Agreeing) /\ [Next]_vars => (Deleting /\ Typed /\ Agreeing)'
  BY NextDeleting, NextTyped, NextAgreeing
<1> QED BY <1>1, <1>2, <1>3, PTL DEF Spec

-----------------------------------------------------------------------------
(* Answers come from what the console lists.                                 *)

\* A question that is not answered has no source yet.
Unanswered ==
  \A a \in Asks : ask[a].pc \in {"guardrail", "curated", "rag"} => ask[a].source = None

\* A step that leaves a question where it is, or ends it, or answers it.
LEMMA NextUnanswered == Counting /\ Unanswered /\ [Next]_vars => Unanswered'
<1> SUFFICES ASSUME Counting, Unanswered, [Next]_vars PROVE Unanswered' OBVIOUS
<1>1. CASE UNCHANGED ask BY <1>1 DEF Unanswered
<1>2. ASSUME NEW a \in Asks, OneAsk(a),
             ask'[a].pc \in {"guardrail", "curated", "rag"} => ask'[a].source = None
      PROVE  Unanswered'
  BY <1>2 DEF OneAsk, Unanswered
<1>3. ASSUME NEW a \in Asks, NEW source, NEW text, Reply(a, source, text) PROVE Unanswered'
  BY <1>2, <1>3, ReplyOneAsk
<1>4. ASSUME NEW a \in Asks, NEW pc, Move(a, pc),
             ask[a].pc \in {"guardrail", "curated", "rag"}
                \/ pc \notin {"guardrail", "curated", "rag"}
      PROVE  Unanswered'
  <2>1. OneAsk(a) /\ ask'[a].pc = pc /\ ask'[a].source = ask[a].source
    BY <1>4, MoveOneAsk
  <2> QED BY <1>2, <1>4, <2>1 DEF Unanswered
<1>5. ASSUME NEW a \in Asks, Admit(a) PROVE Unanswered'
  <2>1. PICK q \in Questions, stream \in BOOLEAN :
          ask' = [ask EXCEPT ![a] = [NotAsked EXCEPT !.question = q, !.stream = stream,
                    !.pc = IF tenant = "active" THEN "guardrail" ELSE "refused"]]
    BY <1>5 DEF Admit
  <2>2. OneAsk(a) /\ ask'[a].source = None
    BY <2>1 DEF OneAsk, IsAsk, NotAsked, Counting
  <2> QED BY <1>2, <2>2
<1>6. ASSUME NEW a \in Asks, CheckGuardrails(a) \/ CheckCurated(a) \/ Generate(a)
      PROVE  Unanswered'
  BY <1>3, <1>4, <1>6 DEF CheckGuardrails, CheckCurated, Generate
<1>7. ASSUME NEW a \in Asks, SearchFails(a) \/ LogStream(a) \/ Disconnect(a)
      PROVE  Unanswered'
  <2>1. \E pc \in {"failed", "logged", "left"} : Move(a, pc)
    BY <1>7 DEF SearchFails, LogStream, Disconnect
  <2> QED BY <1>4, <2>1
<1>8. ASSUME NEW a \in Asks, InsertLogEntry(a) \/ LoseLogEntry(a) PROVE Unanswered'
  BY <1>1, <1>8 DEF InsertLogEntry, LoseLogEntry
<1>9. ASSUME NEW h \in Admins,
             \/ CallFails(h)
             \/ BeginCreateCurated(h) \/ InsertCurated(h)
             \/ BeginUpdateCurated(h) \/ UpdateCurated(h) \/ BeginDeleteCurated(h)
             \/ BeginCreateGuardrail(h) \/ InsertGuardrail(h)
             \/ BeginUpdateGuardrail(h) \/ BeginDeleteGuardrail(h)
             \/ UpsertVectors(h) \/ DeleteVectors(h) \/ DeleteRow(h)
             \/ Suspend(h) \/ Reinstate(h) \/ BeginDeleteTenant(h)
             \/ DropCollection(h) \/ DeleteLog(h) \/ DeleteTenantRow(h)
      PROVE  UNCHANGED ask
  BY <1>9 DEF CallFails, BeginCreateCurated, InsertCurated, BeginUpdateCurated, UpdateCurated,
       BeginDeleteCurated, BeginCreateGuardrail, InsertGuardrail, BeginUpdateGuardrail,
       BeginDeleteGuardrail, UpsertVectors, DeleteVectors, DeleteRow, Suspend, Reinstate,
       BeginDeleteTenant, DropCollection, DeleteLog, DeleteTenantRow, asking
<1> QED BY <1>1, <1>5, <1>6, <1>7, <1>8, <1>9 DEF Next, vars, asking

\* A question that passes a check passes it in the step that runs the check.
LEMMA CheckedBy ==
  ASSUME Counting, [Next]_vars, NEW a \in Asks
  PROVE  /\ Checked(a, "guardrail") => CheckGuardrails(a)
         /\ Checked(a, "curated") => CheckCurated(a)
<1>1. SUFFICES ASSUME ask[a].pc \in {"guardrail", "curated"},
                      ask'[a].pc \notin {ask[a].pc, "failed", "left"}
               PROVE  \/ ask[a].pc = "guardrail" /\ CheckGuardrails(a)
                      \/ ask[a].pc = "curated" /\ CheckCurated(a)
  BY DEF Checked, CheckGuardrails, CheckCurated
<1>2. ask'[a] # ask[a] BY <1>1
<1>3. ~UNCHANGED vars BY <1>2 DEF vars, asking
<1>4. ASSUME NEW h \in Admins,
             \/ CallFails(h)
             \/ BeginCreateCurated(h) \/ InsertCurated(h)
             \/ BeginUpdateCurated(h) \/ UpdateCurated(h) \/ BeginDeleteCurated(h)
             \/ BeginCreateGuardrail(h) \/ InsertGuardrail(h)
             \/ BeginUpdateGuardrail(h) \/ BeginDeleteGuardrail(h)
             \/ UpsertVectors(h) \/ DeleteVectors(h) \/ DeleteRow(h)
             \/ Suspend(h) \/ Reinstate(h) \/ BeginDeleteTenant(h)
             \/ DropCollection(h) \/ DeleteLog(h) \/ DeleteTenantRow(h)
      PROVE  FALSE
  <2>1. UNCHANGED ask
    BY <1>4 DEF CallFails, BeginCreateCurated, InsertCurated, BeginUpdateCurated, UpdateCurated,
         BeginDeleteCurated, BeginCreateGuardrail, InsertGuardrail, BeginUpdateGuardrail,
         BeginDeleteGuardrail, UpsertVectors, DeleteVectors, DeleteRow, Suspend, Reinstate,
         BeginDeleteTenant, DropCollection, DeleteLog, DeleteTenantRow, asking
  <2> QED BY <1>2, <2>1
<1>5. ASSUME NEW b \in Asks, OneAsk(b) PROVE b = a BY <1>2, <1>5 DEF OneAsk
<1>6. ASSUME NEW b \in Asks, NEW pc, Move(b, pc) PROVE b = a /\ ask'[a].pc = pc
  BY <1>5, <1>6, MoveOneAsk
<1>7. ASSUME NEW b \in Asks, NEW source, NEW text, Reply(b, source, text) PROVE b = a
  BY <1>5, <1>7, ReplyOneAsk
<1>8. ASSUME NEW b \in Asks, Admit(b) PROVE FALSE
  <2>1. PICK q \in Questions, stream \in BOOLEAN :
          ask' = [ask EXCEPT ![b] = [NotAsked EXCEPT !.question = q, !.stream = stream,
                    !.pc = IF tenant = "active" THEN "guardrail" ELSE "refused"]]
    BY <1>8 DEF Admit
  <2>2. OneAsk(b) BY <2>1 DEF OneAsk, IsAsk, NotAsked, Counting
  <2>3. a = b /\ ask[b].pc = "new" BY <1>5, <1>8, <2>2 DEF Admit
  <2> QED BY <1>1, <2>3
<1>9. ASSUME NEW b \in Asks, CheckGuardrails(b)
      PROVE  ask[a].pc = "guardrail" /\ CheckGuardrails(a)
  <2>1. b = a BY <1>6, <1>7, <1>9 DEF CheckGuardrails
  <2>2. ask[b].pc = "guardrail" BY <1>9 DEF CheckGuardrails
  <2> QED BY <1>9, <2>1, <2>2
<1>10. ASSUME NEW b \in Asks, CheckCurated(b)
       PROVE  ask[a].pc = "curated" /\ CheckCurated(a)
  <2>1. b = a BY <1>6, <1>7, <1>10 DEF CheckCurated
  <2>2. ask[b].pc = "curated" BY <1>10 DEF CheckCurated
  <2> QED BY <1>10, <2>1, <2>2
<1>11. ASSUME NEW b \in Asks, Generate(b) \/ LogStream(b) PROVE FALSE
  <2>1. b = a BY <1>6, <1>7, <1>11 DEF Generate, LogStream
  <2>2. ask[b].pc \in {"rag", "sent"} BY <1>11 DEF Generate, LogStream
  <2> QED BY <1>1, <2>1, <2>2
<1>12. ASSUME NEW b \in Asks, SearchFails(b) \/ Disconnect(b) PROVE FALSE
  <2>1. Move(b, "failed") \/ Move(b, "left") BY <1>12 DEF SearchFails, Disconnect
  <2> QED BY <1>1, <1>6, <2>1
<1>13. ASSUME NEW b \in Asks, InsertLogEntry(b) \/ LoseLogEntry(b) PROVE FALSE
  BY <1>2, <1>13 DEF InsertLogEntry, LoseLogEntry
<1> QED BY <1>3, <1>4, <1>8, <1>9, <1>10, <1>11, <1>12, <1>13 DEF Next

\* The guardrail check gives no refusal but of a guardrail in force; while the
\* search returns every near point, it gives one whenever there is such a guardrail.
LEMMA GuardrailChecked ==
  ASSUME Counting, Typed, Agreeing, Unanswered, NEW a \in Asks, CheckGuardrails(a)
  PROVE  /\ AllFit /\ (\E g \in Guardrails : Settled(g) /\ InForce(g, ask[a].question)) =>
              ask'[a].source = "guardrail"
         /\ ask'[a].source = "guardrail" =>
              \E g \in Guardrails : ~Settled(g) \/ InForce(g, ask[a].question)
<1> DEFINE q == ask[a].question
           near == {x \in GuardrailPoints : IsNear(x[2], q)}
<1>1. Guardrails \subseteq Items /\ Curateds \cap Guardrails = {}
  BY AnswersAssumption DEF Items
<1>2. \A g \in Guardrails : rows[g] \in GuardrailRows \cup {None}
  BY <1>1 DEF Typed, Stored, RowFits
<1>3. PICK hits \in GuardrailHits(q) :
        \/ (\E x \in hits : Applies(x[2], q)) /\ Reply(a, "guardrail", None)
        \/ (\A x \in hits : ~Applies(x[2], q)) /\ Move(a, "curated") /\ UNCHANGED pending
  BY DEF CheckGuardrails
<1>4. /\ hits \subseteq GuardrailPoints
      /\ AllFit => near \subseteq hits
  BY <1>3 DEF GuardrailHits
<1>5. ASSUME NEW x PROVE x \in GuardrailPoints <=> \E g \in Guardrails : x \in {g} \X points[g]
  BY DEF GuardrailPoints
<1>6. \A x \in GuardrailPoints : \E g \in Guardrails : x[2] \in points[g] BY <1>5
<1>7. \A g \in Guardrails : \A p \in points[g] : <<g, p>> \in GuardrailPoints
  <2> TAKE g \in Guardrails
  <2> TAKE p \in points[g]
  <2>1. <<g, p>> \in {g} \X points[g] OBVIOUS
  <2> QED BY <1>5, <2>1
<1> HIDE DEF near
<1>8. ask'[a].source = "guardrail" => \E x \in hits : Applies(x[2], q)
  <2>1. SUFFICES ASSUME \A x \in hits : ~Applies(x[2], q) PROVE ask'[a].source # "guardrail"
    OBVIOUS
  <2>2. Move(a, "curated") BY <1>3, <2>1
  <2>3. ask'[a].source = ask[a].source BY <2>2, MoveOneAsk
  <2>4. ask[a].source = None BY DEF CheckGuardrails, Unanswered
  <2> QED BY <2>3, <2>4, NoneAssumption DEF Sources
<1>9. ASSUME NEW g \in Guardrails, Settled(g)
      PROVE  InForce(g, q) <=> \E p \in points[g] : Applies(p, q)
  <2>1. points[g] = Indexable(g, rows[g]) BY <1>1, <1>9 DEF Agreeing, Agreement
  <2>2. CASE rows[g] = None BY <2>1, <2>2 DEF InForce, Indexable
  <2>3. CASE rows[g] # None
    <3>1. rows[g] \in GuardrailRows BY <1>2, <2>3
    <3>2. points[g] = {[seed |-> s, enabled |-> rows[g].enabled, copy |-> 1] : s \in rows[g].seeds}
      BY <2>1, <2>3, <3>1, RowKinds DEF Indexable, Payloads
    <3> DEFINE seeds == rows[g].seeds
               on == rows[g].enabled
    <3>3. on \in BOOLEAN BY <3>1 DEF GuardrailRows
    <3>4. points[g] = {[seed |-> s, enabled |-> on, copy |-> 1] : s \in seeds} BY <3>2
    <3>5. InForce(g, q) <=> on /\ \E s \in seeds : s \in Near[q] BY <2>3 DEF InForce
    <3> HIDE DEF q, seeds, on
    <3>6. ASSUME NEW s \in seeds
          PROVE  /\ [seed |-> s, enabled |-> on, copy |-> 1] \in points[g]
                 /\ Applies([seed |-> s, enabled |-> on, copy |-> 1], q) <=> on /\ s \in Near[q]
      BY <3>3, <3>4 DEF Applies, IsNear
    <3>7. \A p \in points[g] : \E s \in seeds : p = [seed |-> s, enabled |-> on, copy |-> 1]
      BY <3>4
    <3> QED BY <3>5, <3>6, <3>7
  <2> QED BY <2>2, <2>3
<1>10. \A p : Applies(p, q) => IsNear(p, q) BY DEF Applies
<1>11. ASSUME NEW g \in Guardrails, Settled(g), InForce(g, q), AllFit
       PROVE  ask'[a].source = "guardrail"
  <2>1. PICK p \in points[g] : Applies(p, q) BY <1>9, <1>11
  <2>2. <<g, p>> \in near BY <1>7, <1>10, <2>1 DEF near
  <2>3. \E x \in hits : Applies(x[2], q) BY <1>4, <1>11, <2>1, <2>2
  <2> QED BY <1>3, <2>3, ReplyOneAsk
<1>12. ASSUME ask'[a].source = "guardrail"
       PROVE  \E g \in Guardrails : ~Settled(g) \/ InForce(g, q)
  <2>1. PICK x \in hits : Applies(x[2], q) BY <1>8, <1>12
  <2>2. PICK g \in Guardrails : x[2] \in points[g] BY <1>4, <1>6, <2>1
  <2> QED BY <1>9, <2>1, <2>2
<1> QED BY <1>11, <1>12

\* The curated answer check gives the text that is listed.
LEMMA CuratedChecked ==
  ASSUME Counting, Typed, Agreeing, Unanswered, NEW a \in Asks, CheckCurated(a),
         \A c \in Curateds : Settled(c)
  PROVE  \/ /\ ask'[a].source = "curated"
            /\ \E c \in Curateds : /\ rows[c] # None /\ rows[c].question \in Near[ask[a].question]
                                   /\ rows[c].answer = ask'[a].text
         \/ /\ ask'[a].source # "curated"
            /\ \A c \in Curateds : rows[c] # None => rows[c].question \notin Near[ask[a].question]
<1> DEFINE q == ask[a].question
<1>1. Curateds \subseteq Items BY DEF Items
<1>2. \A c \in Curateds : rows[c] # None => points[c] = {rows[c]}
  <2> TAKE c \in Curateds
  <2> HAVE rows[c] # None
  <2>1. rows[c] \in CuratedRows BY <1>1 DEF Typed, Stored, RowFits
  <2>2. points[c] = Indexable(c, rows[c]) BY <1>1 DEF Agreeing, Agreement
  <2> QED BY <2>1, <2>2, PayloadKinds DEF Indexable
<1>3. \A c \in Curateds : rows[c] = None => points[c] = {}
  BY <1>1 DEF Agreeing, Agreement, Indexable
<1>4. CASE \E p \in CuratedHits(q) : Reply(a, "curated", p.answer)
  <2>1. PICK p \in CuratedHits(q) : Reply(a, "curated", p.answer) BY <1>4
  <2>2. ask'[a].source = "curated" /\ ask'[a].text = p.answer BY <2>1, ReplyOneAsk
  <2>3. PICK c \in Curateds : p \in points[c] /\ p.question \in Near[q]
    BY <2>1 DEF CuratedHits
  <2>4. rows[c] # None /\ p = rows[c] BY <1>2, <1>3, <2>3
  <2> QED BY <2>2, <2>3, <2>4
<1>5. CASE CuratedHits(q) = {} /\ Move(a, "rag")
  <2>1. ask'[a].source = None
    <3>1. ask[a].source = None BY DEF CheckCurated, Unanswered
    <3> QED BY <1>5, <3>1, MoveOneAsk
  <2>2. ask'[a].source # "curated" BY <2>1, NoneAssumption DEF Sources
  <2>3. ASSUME NEW c \in Curateds, rows[c] # None PROVE rows[c].question \notin Near[q]
    <3>1. rows[c] \in points[c] BY <1>2, <2>3
    <3> HIDE DEF q
    <3> QED BY <1>5, <3>1 DEF CuratedHits
  <2> QED BY <2>2, <2>3
<1> QED BY <1>4, <1>5 DEF CheckCurated

\* Answers come from what the console lists, for any number of items, points,
\* requests and questions: no refusal without a guardrail in force, and of curated
\* answers the text now listed.  A guardrail in force answers in every state of no
\* more than TopK guardrail points; with more of them the search may miss it.
THEOREM AnswersComeFromRows == Spec => AnswersFollowRows
<1> DEFINE Inv == Counting /\ Deleting /\ Typed /\ Agreeing /\ Unanswered
           Follows(a) ==
             LET q == ask[a].question IN
             /\ Checked(a, "guardrail") =>
                  /\ AllFit /\ (\E g \in Guardrails : Settled(g) /\ InForce(g, q)) =>
                       ask'[a].source = "guardrail"
                  /\ ask'[a].source = "guardrail" =>
                       \E g \in Guardrails : (~Settled(g) \/ InForce(g, q))
             /\ Checked(a, "curated") =>
                  \/ \E c \in Curateds : ~Settled(c)
                  \/ /\ ask'[a].source = "curated"
                     /\ \E c \in Curateds : /\ rows[c] # None /\ rows[c].question \in Near[q]
                                            /\ rows[c].answer = ask'[a].text
                  \/ /\ ask'[a].source # "curated"
                     /\ \A c \in Curateds : rows[c] # None => rows[c].question \notin Near[q]
<1>1. Init => Inv
  <2>1. Init => Unanswered BY DEF Init, Unanswered, NotAsked
  <2> QED BY <2>1, InitCounting, InitDeleting, InitTyped, InitAgreeing
<1>2. Inv /\ [Next]_vars => Inv'
  BY NextCounting, NextDeleting, NextTyped, NextAgreeing, NextUnanswered
<1>3. ASSUME Inv, [Next]_vars, NEW a \in Asks PROVE Follows(a)
  <2>1. Checked(a, "guardrail") => CheckGuardrails(a) BY <1>3, CheckedBy
  <2>2. Checked(a, "curated") => CheckCurated(a) BY <1>3, CheckedBy
  <2> QED BY <1>3, <2>1, <2>2, GuardrailChecked, CuratedChecked
<1>4. Inv /\ [Next]_vars => [\A a \in Asks : Follows(a)]_vars BY <1>3
<1> QED BY <1>1, <1>2, <1>4, PTL DEF Spec, AnswersFollowRows
=============================================================================
