------------------------------ MODULE Gateway ------------------------------
(***************************************************************************)
(* The public door of the widget: instances of the gateway, each with its   *)
(* own sliding windows of time stamps in memory.  A request is counted      *)
(* before its question is looked at; what the answerer makes of it changes  *)
(* nothing here.  Cloud Run replaces instances, and their windows go with   *)
(* them.  Time is in ticks.                                                 *)
(***************************************************************************)
EXTENDS Integers, FiniteSets

CONSTANTS
  Tenants,     \* keys of _windows
  Instances,   \* gateway instances Cloud Run keeps at the same time
  Limit,       \* RATE_LIMIT_PER_MINUTE
  Window,      \* the sixty seconds, in ticks
  MaxTime,     \* bound: the last tick
  MaxAsks,     \* bound: requests
  MaxStarts    \* bound: processes started

ASSUME BoundsAssumption ==
  /\ Limit \in Nat
  /\ Window \in Nat
  /\ MaxTime \in Nat
  /\ MaxAsks \in Nat
  /\ MaxStarts \in Nat

VARIABLES
  now,      \* time.monotonic()
  window,   \* _windows of each instance: the requests whose stamps it holds
  process,  \* the process that serves as each instance, 0 if none
  starts,   \* processes started so far
  ask,      \* what became of each request
  nextAsk   \* the next request

vars == <<now, window, process, starts, ask, nextAsk>>

Asks      == 1..MaxAsks
Processes == 1..MaxStarts
Empty     == [t \in Tenants |-> {}]
Unasked   == [tenant |-> "none", via |-> 0, at |-> 0, answer |-> "none"]

Init ==
  /\ now = 0
  /\ window = [i \in Instances |-> Empty]
  /\ process = [i \in Instances |-> 0]
  /\ starts = 0
  /\ ask = [a \in Asks |-> Unasked]
  /\ nextAsk = 1

Tick ==
  /\ now < MaxTime
  /\ now' = now + 1
  /\ UNCHANGED <<window, process, starts, ask, nextAsk>>

\* Variant: a stamp of exactly sixty seconds ago no longer counts.
RecentUpToTheEdge(i, t) == {a \in window[i][t] : ask[a].at > now - Window}

\* The deque without what lies before the cutoff; the clock never goes back, so
\* popping from the left while the first is too old leaves just these.
Recent(i, t) == {a \in window[i][t] : ask[a].at >= now - Window}

Arrives(i, t, answer) ==
  /\ nextAsk <= MaxAsks /\ process[i] # 0
  /\ ask' = [ask EXCEPT ![nextAsk] =
       [tenant |-> t, via |-> process[i], at |-> now, answer |-> answer]]
  /\ nextAsk' = nextAsk + 1
  /\ UNCHANGED <<now, process, starts>>

Keeps(i, t, S) == window' = [window EXCEPT ![i] = [@ EXCEPT ![t] = S]]

\* Variant: a refused request leaves its stamp too.
RefuseStamped(i, t) ==
  /\ Cardinality(Recent(i, t)) >= Limit
  /\ Keeps(i, t, Recent(i, t) \cup {nextAsk})
  /\ Arrives(i, t, "refused")

\* 429: the old stamps go, and the request leaves none.
Refuse(i, t) ==
  /\ Cardinality(Recent(i, t)) >= Limit
  /\ Keeps(i, t, Recent(i, t))
  /\ Arrives(i, t, "refused")

\* Posted to the answerer, or 400 for an empty question, which counts as well.
Admit(i, t) ==
  /\ Cardinality(Recent(i, t)) < Limit
  /\ Keeps(i, t, Recent(i, t) \cup {nextAsk})
  /\ \E answer \in {"posted", "empty"} : Arrives(i, t, answer)

\* Variant: the windows of the process before are still there.
StartWarm(i) ==
  /\ starts < MaxStarts
  /\ starts' = starts + 1
  /\ process' = [process EXCEPT ![i] = starts + 1]
  /\ UNCHANGED <<now, window, ask, nextAsk>>

\* A process takes the place of another; its windows are empty.
Start(i) ==
  /\ starts < MaxStarts
  /\ starts' = starts + 1
  /\ process' = [process EXCEPT ![i] = starts + 1]
  /\ window' = [window EXCEPT ![i] = Empty]
  /\ UNCHANGED <<now, ask, nextAsk>>

Next ==
  \/ Tick
  \/ \E i \in Instances : Start(i) \/ \E t \in Tenants : Refuse(i, t) \/ Admit(i, t)

Spec == Init /\ [][Next]_vars

----------------------------------------------------------------------------
(* Properties.                                                              *)

AskType == [tenant : Tenants \cup {"none"}, via : 0..MaxStarts, at : Nat,
            answer : {"none", "posted", "empty", "refused"}]

\* The type of every variable; a window holds requests that its own process let
\* in for its own tenant, at most Limit of them.
TypeOK ==
  /\ now \in Nat
  /\ window \in [Instances -> [Tenants -> SUBSET Asks]]
  /\ process \in [Instances -> 0..MaxStarts]
  /\ starts \in 0..MaxStarts
  /\ ask \in [Asks -> AskType]
  /\ nextAsk \in 1..(MaxAsks + 1)
  /\ \A i \in Instances, t \in Tenants : \A a \in window[i][t] :
       ask[a].via = process[i] /\ ask[a].tenant = t
  /\ \A i \in Instances, t \in Tenants : Cardinality(window[i][t]) <= Limit

\* What a process let through to tenant t, from tick x on, for sixty seconds.
Admitted(p, t)    == {a \in Asks : /\ ask[a].via = p /\ ask[a].tenant = t
                                   /\ ask[a].answer \in {"posted", "empty"}}
Within(p, t, x)   == {a \in Admitted(p, t) : ask[a].at \in x..(x + Window)}
LastMinute(p, t, y) == {a \in Admitted(p, t) : ask[a].at \in (y - Window)..y}

\* No sixty seconds, wherever they begin, see more than RATE_LIMIT_PER_MINUTE
\* questions of a tenant pass one process, both ends included.  (A restart
\* starts afresh, and the instances do not know of each other: the fleet lets
\* through as many times Limit as processes serve the tenant.)
WithinLimit ==
  \A p \in Processes, t \in Tenants, x \in 0..MaxTime : Cardinality(Within(p, t, x)) <= Limit

\* A refusal is never spurious: the process did let Limit questions of the tenant
\* through in the sixty seconds before; refused requests, other tenants and other
\* processes do not count.
RefusedOnlyWhenFull ==
  \A r \in Asks : ask[r].answer = "refused" =>
    Cardinality(LastMinute(ask[r].via, ask[r].tenant, ask[r].at)) = Limit

=============================================================================
