---------------------------- MODULE GatewayProofs ----------------------------
(***************************************************************************)
(* The limit of the widget gateway, for any number of tenants, instances    *)
(* and requests, any limit and any window.  The window of an instance is a  *)
(* cache of what its process let through: Covers says that it has lost      *)
(* nothing the next sixty seconds could still need.                         *)
(***************************************************************************)
EXTENDS Gateway, FiniteSetTheorems, TLAPS

\* Requests are numbered in the order of time, processes in that of their start.
Numbered ==
  /\ \A a \in Asks : a >= nextAsk => ask[a].answer = "none"
  /\ \A a \in Asks : ask[a].answer # "none" => ask[a].at <= now /\ ask[a].via \in 1..starts
  /\ \A i, j \in Instances : process[i] # 0 /\ process[i] = process[j] => i = j
  /\ \A i \in Instances : process[i] <= starts

\* A window holds requests that were let in, all those of the last sixty seconds.
Covers ==
  \A i \in Instances, t \in Tenants :
    /\ window[i][t] \subseteq Admitted(process[i], t)
    /\ process[i] # 0 => \A a \in Admitted(process[i], t) :
                           ask[a].at >= now - Window => a \in window[i][t]

\* The inductive invariant.
Inv == TypeOK /\ Numbered /\ Covers /\ WithinLimit /\ RefusedOnlyWhenFull

-----------------------------------------------------------------------------
(* Sets of requests are finite.                                              *)

\* Every set of requests has a size, and a part of it has no larger one.
LEMMA AskSets ==
  ASSUME NEW S \in SUBSET Asks
  PROVE  /\ IsFiniteSet(S) /\ Cardinality(S) \in Nat
         /\ \A T \in SUBSET S : IsFiniteSet(T) /\ Cardinality(T) <= Cardinality(S)
<1>1. IsFiniteSet(Asks) BY FS_Interval, BoundsAssumption DEF Asks
<1>2. IsFiniteSet(S) BY <1>1, FS_Subset
<1> QED BY <1>2, FS_Subset, FS_CardinalityType

\* One more request makes a set larger by one at most.
LEMMA OneMore ==
  ASSUME NEW S \in SUBSET Asks, NEW a \in Asks
  PROVE  Cardinality(S \cup {a}) <= Cardinality(S) + 1
<1>1. IsFiniteSet(S) /\ Cardinality(S) \in Nat BY AskSets
<1> QED BY <1>1, FS_AddElement

\* Nobody is in an empty set.
LEMMA NoneAtAll == Cardinality({}) = 0
BY FS_EmptySet

-----------------------------------------------------------------------------
(* A request arrives.                                                        *)

\* The new request is the only one that changes, and it counts when it was let in.
LEMMA Arrival ==
  ASSUME Inv, NEW i \in Instances, NEW t \in Tenants,
         NEW answer \in {"posted", "empty", "refused"}, Arrives(i, t, answer)
  PROVE  /\ nextAsk \in Asks /\ nextAsk' = nextAsk + 1
         /\ ask' \in [Asks -> AskType]
         /\ process[i] # 0 /\ process[i] \in 1..starts
         /\ UNCHANGED <<now, process, starts>>
         /\ ask[nextAsk].answer = "none"
         /\ ask'[nextAsk].tenant = t /\ ask'[nextAsk].via = process[i]
         /\ ask'[nextAsk].at = now /\ ask'[nextAsk].answer = answer
         /\ \A a \in Asks : a # nextAsk => ask'[a] = ask[a]
<1> DEFINE r == [tenant |-> t, via |-> process[i], at |-> now, answer |-> answer]
<1>1. /\ nextAsk <= MaxAsks /\ process[i] # 0
      /\ ask' = [ask EXCEPT ![nextAsk] = r]
      /\ nextAsk' = nextAsk + 1
      /\ UNCHANGED <<now, process, starts>>
  BY DEF Arrives
<1>2. /\ process[i] \in 0..MaxStarts /\ process[i] <= starts /\ starts \in 0..MaxStarts
      /\ now \in Nat /\ nextAsk \in 1..(MaxAsks + 1)
      /\ ask \in [Asks -> AskType]
  BY DEF Inv, TypeOK, Numbered
<1>3. nextAsk \in Asks /\ process[i] \in 1..starts BY <1>1, <1>2, BoundsAssumption DEF Asks
<1>4. r \in AskType BY <1>2 DEF AskType
<1>5. r.tenant = t /\ r.via = process[i] /\ r.at = now /\ r.answer = answer OBVIOUS
<1> HIDE DEF r
<1>6. ask[nextAsk].answer = "none" BY <1>3 DEF Inv, Numbered, Asks
<1> QED BY <1>1, <1>2, <1>3, <1>4, <1>5, <1>6

\* Who has been let in after an arrival.
LEMMA AdmittedNow ==
  ASSUME Inv, NEW i \in Instances, NEW t \in Tenants,
         NEW answer \in {"posted", "empty", "refused"}, Arrives(i, t, answer), NEW p, NEW u
  PROVE  /\ Admitted(p, u) \subseteq Admitted(p, u)'
         /\ Admitted(p, u)' \subseteq Admitted(p, u) \cup {nextAsk}
         /\ nextAsk \in Admitted(p, u)' <=> answer # "refused" /\ p = process[i] /\ u = t
         /\ nextAsk \notin Admitted(p, u)
BY Arrival DEF Admitted

\* Numbering goes on.
LEMMA ArrivalNumbered ==
  ASSUME Inv, NEW i \in Instances, NEW t \in Tenants,
         NEW answer \in {"posted", "empty", "refused"}, Arrives(i, t, answer)
  PROVE  Numbered'
<1>1. nextAsk \in Nat /\ now \in Nat BY DEF Inv, TypeOK
<1>2. \A a \in Asks : a >= nextAsk' => ask'[a].answer = "none"
  <2> TAKE a \in Asks
  <2>1. a >= nextAsk + 1 => a >= nextAsk /\ a # nextAsk BY <1>1 DEF Asks
  <2> QED BY <2>1, Arrival DEF Inv, Numbered
<1>3. \A a \in Asks : ask'[a].answer # "none" => ask'[a].at <= now' /\ ask'[a].via \in 1..starts'
  <2> TAKE a \in Asks
  <2>1. CASE a = nextAsk BY <1>1, <2>1, Arrival
  <2>2. CASE a # nextAsk BY <2>2, Arrival DEF Inv, Numbered
  <2> QED BY <2>1, <2>2
<1>4. /\ \A k, j \in Instances : process'[k] # 0 /\ process'[k] = process'[j] => k = j
      /\ \A k \in Instances : process'[k] <= starts'
  BY Arrival DEF Inv, Numbered
<1> QED BY <1>2, <1>3, <1>4 DEF Numbered

\* What the instance keeps: its other windows and those of other instances stay.
LEMMA Kept ==
  ASSUME Inv, NEW i \in Instances, NEW t \in Tenants, NEW S \in SUBSET Asks, Keeps(i, t, S)
  PROVE  /\ window' \in [Instances -> [Tenants -> SUBSET Asks]]
         /\ window'[i][t] = S
         /\ \A j \in Instances, u \in Tenants : j # i \/ u # t => window'[j][u] = window[j][u]
<1>1. window \in [Instances -> [Tenants -> SUBSET Asks]] BY DEF Inv, TypeOK
<1>2. window' = [window EXCEPT ![i] = [window[i] EXCEPT ![t] = S]] BY <1>1 DEF Keeps
<1> QED BY <1>1, <1>2

\* The recent requests are those the process let in within the last minute.
LEMMA RecentIs ==
  ASSUME Inv, NEW i \in Instances, NEW t \in Tenants, process[i] # 0
  PROVE  /\ Recent(i, t) \in SUBSET Asks
         /\ Recent(i, t) = {a \in Admitted(process[i], t) : ask[a].at >= now - Window}
         /\ Recent(i, t) = LastMinute(process[i], t, now)
         /\ Cardinality(Recent(i, t)) \in Nat /\ Cardinality(Recent(i, t)) <= Limit
<1>1. window[i][t] \in SUBSET Asks /\ Cardinality(window[i][t]) <= Limit BY DEF Inv, TypeOK
<1>2. Recent(i, t) \in SUBSET window[i][t] /\ Recent(i, t) \in SUBSET Asks BY <1>1 DEF Recent
<1>3. Recent(i, t) = {a \in Admitted(process[i], t) : ask[a].at >= now - Window}
  BY DEF Inv, Covers, Recent
<1>4. \A a \in Admitted(process[i], t) : ask[a].at \in Nat /\ ask[a].at <= now
  BY DEF Admitted, Inv, TypeOK, AskType, Numbered
<1>5. now \in Nat /\ Window \in Nat /\ Limit \in Nat BY BoundsAssumption DEF Inv, TypeOK
<1>6. Recent(i, t) = LastMinute(process[i], t, now) BY <1>3, <1>4, <1>5 DEF LastMinute
<1>7. /\ Cardinality(window[i][t]) \in Nat /\ Cardinality(Recent(i, t)) \in Nat
      /\ Cardinality(Recent(i, t)) <= Cardinality(window[i][t])
  BY <1>1, <1>2, AskSets
<1>8. Cardinality(Recent(i, t)) <= Limit BY <1>1, <1>5, <1>7
<1> QED BY <1>2, <1>3, <1>6, <1>7, <1>8

-----------------------------------------------------------------------------
(* Every action.                                                             *)

\* Nothing has been asked yet.
LEMMA InitInv == Init => Inv
<1> SUFFICES ASSUME Init PROVE Inv OBVIOUS
<1>1. Unasked \in AskType /\ Unasked.answer = "none" BY BoundsAssumption DEF Unasked, AskType
<1>2. \A a \in Asks : ask[a] = Unasked BY DEF Init
<1>3. \A p, t : Admitted(p, t) = {} BY <1>1, <1>2 DEF Admitted
<1>4. \A i \in Instances, t \in Tenants : window[i][t] = {} BY DEF Init, Empty
<1>5. TypeOK
  <2>1. \A i \in Instances, t \in Tenants : Cardinality(window[i][t]) <= Limit
    BY <1>4, NoneAtAll, BoundsAssumption
  <2>2. /\ now \in Nat /\ process \in [Instances -> 0..MaxStarts] /\ starts \in 0..MaxStarts
        /\ nextAsk \in 1..(MaxAsks + 1)
    BY BoundsAssumption DEF Init
  <2>3. window \in [Instances -> [Tenants -> SUBSET Asks]] /\ ask \in [Asks -> AskType]
    BY <1>1 DEF Init, Empty
  <2> QED BY <1>4, <2>1, <2>2, <2>3 DEF TypeOK
<1>6. Numbered BY <1>1, <1>2 DEF Numbered, Init
<1>7. Covers BY <1>3, <1>4 DEF Covers
<1>8. WithinLimit
  <2>1. \A p, t, x : Within(p, t, x) = {} BY <1>3 DEF Within
  <2> QED BY <2>1, NoneAtAll, BoundsAssumption DEF WithinLimit
<1>9. RefusedOnlyWhenFull BY <1>1, <1>2 DEF RefusedOnlyWhenFull
<1> QED BY <1>5, <1>6, <1>7, <1>8, <1>9 DEF Inv

\* Time passes: a window may hold more than it needs, never less.
LEMMA TickStep == Inv /\ Tick => Inv'
<1> SUFFICES ASSUME Inv, Tick PROVE Inv' OBVIOUS
<1>1. now' = now + 1 /\ UNCHANGED <<window, process, starts, ask, nextAsk>> BY DEF Tick
<1>2. now \in Nat /\ Window \in Nat BY BoundsAssumption DEF Inv, TypeOK
<1>3. TypeOK' BY <1>1 DEF Inv, TypeOK
<1>4. \A a \in Asks : ask[a].at \in Nat BY DEF Inv, TypeOK, AskType
<1>5. Numbered' BY <1>1, <1>2, <1>4 DEF Inv, Numbered
<1>6. Covers'
  <2>1. \A p, t : Admitted(p, t)' = Admitted(p, t) /\ Admitted(p, t) \subseteq Asks BY <1>1 DEF Admitted
  <2>2. \A a \in Asks : ask'[a].at >= now' - Window => ask[a].at >= now - Window
    BY <1>1, <1>2, <1>4
  <2> QED BY <1>1, <2>1, <2>2 DEF Inv, Covers
<1>7. WithinLimit' /\ RefusedOnlyWhenFull'
  BY <1>1 DEF Inv, WithinLimit, RefusedOnlyWhenFull, Within, LastMinute, Admitted
<1> QED BY <1>3, <1>5, <1>6, <1>7 DEF Inv

\* A new process has let nothing in, and its windows are empty.
LEMMA StartStep ==
  ASSUME Inv, NEW i \in Instances, Start(i)
  PROVE  Inv'
<1>1. /\ starts < MaxStarts /\ starts' = starts + 1
      /\ process' = [process EXCEPT ![i] = starts + 1]
      /\ window' = [window EXCEPT ![i] = Empty]
      /\ UNCHANGED <<now, ask, nextAsk>>
  BY DEF Start
<1>2. /\ starts \in 0..MaxStarts /\ process \in [Instances -> 0..MaxStarts]
      /\ window \in [Instances -> [Tenants -> SUBSET Asks]]
      /\ ask \in [Asks -> AskType]
  BY DEF Inv, TypeOK
<1>3. starts + 1 \in 0..MaxStarts /\ starts + 1 # 0 /\ starts \in Nat BY <1>1, <1>2, BoundsAssumption
<1>4. /\ process' \in [Instances -> 0..MaxStarts] /\ process'[i] = starts + 1
      /\ \A j \in Instances : j # i => process'[j] = process[j]
  BY <1>1, <1>2, <1>3
<1>5. /\ window' \in [Instances -> [Tenants -> SUBSET Asks]]
      /\ \A t \in Tenants : window'[i][t] = {}
      /\ \A j \in Instances : j # i => window'[j] = window[j]
  BY <1>1, <1>2 DEF Empty
<1>6. \A p, t : Admitted(p, t)' = Admitted(p, t) BY <1>1 DEF Admitted
<1>7. \A t : Admitted(starts + 1, t) = {}
  <2>1. \A a \in Asks : ask[a].answer # "none" => ask[a].via # starts + 1
    <3> TAKE a \in Asks
    <3>1. ask[a].answer # "none" => ask[a].via \in 1..starts BY DEF Inv, Numbered
    <3> QED BY <1>3, <3>1
  <2> QED BY <2>1 DEF Admitted
<1>8. TypeOK'
  <2>1. \A j \in Instances, t \in Tenants : \A a \in window'[j][t] :
          ask'[a].via = process'[j] /\ ask'[a].tenant = t
    BY <1>1, <1>4, <1>5 DEF Inv, TypeOK
  <2>2. \A j \in Instances, t \in Tenants : Cardinality(window'[j][t]) <= Limit
    <3> TAKE j \in Instances, t \in Tenants
    <3>1. CASE j = i
      <4>1. window'[j][t] = {} BY <1>5, <3>1
      <4>2. Cardinality(window'[j][t]) = 0 BY <4>1, NoneAtAll
      <4> QED BY <4>2, BoundsAssumption
    <3>2. CASE j # i BY <1>5, <3>2 DEF Inv, TypeOK
    <3> QED BY <3>1, <3>2
  <2> QED BY <1>1, <1>3, <1>4, <1>5, <2>1, <2>2 DEF Inv, TypeOK
<1>9. Numbered'
  <2>1. \A j \in Instances : process[j] \in 0..MaxStarts /\ process[j] <= starts BY <1>2 DEF Inv, Numbered
  <2>2. \A j \in Instances : j # i => process'[j] # starts + 1 /\ process'[j] <= starts + 1
    BY <1>3, <1>4, <2>1
  <2>3. \A a \in Asks : ask'[a].answer # "none" => ask'[a].at <= now' /\ ask'[a].via \in 1..starts'
    <3> TAKE a \in Asks
    <3>1. ask[a].answer # "none" => ask[a].at <= now /\ ask[a].via \in 1..starts BY DEF Inv, Numbered
    <3> QED BY <1>1, <1>3, <3>1
  <2>4. \A k, j \in Instances : process'[k] # 0 /\ process'[k] = process'[j] => k = j
    BY <1>4, <2>2 DEF Inv, Numbered
  <2> QED BY <1>1, <1>3, <1>4, <2>2, <2>3, <2>4 DEF Inv, Numbered
<1>10. Covers'
  <2> SUFFICES ASSUME NEW j \in Instances, NEW t \in Tenants
               PROVE  /\ window'[j][t] \subseteq Admitted(process'[j], t)
                      /\ process'[j] # 0 => \A a \in Admitted(process'[j], t) :
                                              ask[a].at >= now - Window => a \in window'[j][t]
    BY <1>1, <1>6 DEF Covers, Admitted
  <2>1. CASE j = i BY <1>4, <1>5, <1>7, <2>1
  <2>2. CASE j # i BY <1>4, <1>5, <2>2 DEF Inv, Covers
  <2> QED BY <2>1, <2>2
<1>11. WithinLimit' /\ RefusedOnlyWhenFull'
  BY <1>1 DEF Inv, WithinLimit, RefusedOnlyWhenFull, Within, LastMinute, Admitted
<1> QED BY <1>8, <1>9, <1>10, <1>11 DEF Inv

\* A refusal finds the window full, and leaves no stamp.
LEMMA RefuseStep ==
  ASSUME Inv, NEW i \in Instances, NEW t \in Tenants, Refuse(i, t)
  PROVE  Inv'
<1> DEFINE p == process[i]
           n == nextAsk
           R == Recent(i, t)
<1>1. Cardinality(R) >= Limit /\ Keeps(i, t, R) /\ Arrives(i, t, "refused") BY DEF Refuse
<1>2. /\ n \in Asks /\ nextAsk' = n + 1 /\ ask' \in [Asks -> AskType]
      /\ p # 0 /\ UNCHANGED <<now, process, starts>>
      /\ ask[n].answer = "none"
      /\ ask'[n].tenant = t /\ ask'[n].via = p /\ ask'[n].at = now /\ ask'[n].answer = "refused"
      /\ \A a \in Asks : a # n => ask'[a] = ask[a]
  BY <1>1, Arrival
<1>3. /\ R \in SUBSET Asks
      /\ R = {a \in Admitted(p, t) : ask[a].at >= now - Window}
      /\ R = LastMinute(p, t, now)
      /\ Cardinality(R) \in Nat /\ Cardinality(R) <= Limit
  BY <1>2, RecentIs
<1>4. /\ window' \in [Instances -> [Tenants -> SUBSET Asks]]
      /\ window'[i][t] = R
      /\ \A j \in Instances, u \in Tenants : j # i \/ u # t => window'[j][u] = window[j][u]
  BY <1>1, <1>3, Kept
<1>5. \A q, u : Admitted(q, u)' = Admitted(q, u) /\ n \notin Admitted(q, u)
  BY <1>1, AdmittedNow
<1>6. R \subseteq window[i][t] BY DEF Recent
<1> HIDE DEF R
<1>7. \A j \in Instances, u \in Tenants : window'[j][u] \subseteq window[j][u] BY <1>4, <1>6
<1>8. \A j \in Instances, u \in Tenants : window[j][u] \subseteq Admitted(process[j], u)
  BY DEF Inv, Covers
<1>9. \A q, u : \A a \in Admitted(q, u) : a \in Asks /\ ask'[a] = ask[a]
  BY <1>2, <1>5 DEF Admitted
<1>10. TypeOK'
  <2>1. \A j \in Instances, u \in Tenants : \A a \in window'[j][u] :
          ask'[a].via = process'[j] /\ ask'[a].tenant = u
    BY <1>2, <1>7, <1>8, <1>9 DEF Inv, TypeOK
  <2>2. \A j \in Instances, u \in Tenants : Cardinality(window'[j][u]) <= Limit
    <3> TAKE j \in Instances, u \in Tenants
    <3>1. CASE j = i /\ u = t BY <1>3, <1>4, <3>1
    <3>2. CASE j # i \/ u # t BY <1>4, <3>2 DEF Inv, TypeOK
    <3> QED BY <3>1, <3>2
  <2>3. n + 1 \in 1..(MaxAsks + 1) BY <1>2, BoundsAssumption DEF Asks
  <2> QED BY <1>2, <1>4, <2>1, <2>2, <2>3 DEF Inv, TypeOK
<1>11. Numbered' BY <1>1, ArrivalNumbered
<1>12. Covers'
  <2> SUFFICES ASSUME NEW j \in Instances, NEW u \in Tenants
               PROVE  /\ window'[j][u] \subseteq Admitted(process[j], u)
                      /\ process[j] # 0 => \A a \in Admitted(process[j], u) :
                                             ask[a].at >= now - Window => a \in window'[j][u]
    BY <1>2, <1>5, <1>9 DEF Covers
  <2>1. window'[j][u] \subseteq Admitted(process[j], u) BY <1>7, <1>8
  <2>2. CASE j = i /\ u = t BY <1>3, <1>4, <2>1, <2>2
  <2>3. CASE j # i \/ u # t BY <1>4, <2>1, <2>3 DEF Inv, Covers
  <2> QED BY <2>2, <2>3
<1>13. WithinLimit'
  <2>1. \A q, u, x : Within(q, u, x)' = Within(q, u, x) BY <1>5, <1>9 DEF Within
  <2> QED BY <2>1 DEF Inv, WithinLimit
<1>14. RefusedOnlyWhenFull'
  <2>1. \A q, u, y : LastMinute(q, u, y)' = LastMinute(q, u, y) BY <1>5, <1>9 DEF LastMinute
  <2>2. ASSUME NEW r \in Asks, ask'[r].answer = "refused"
        PROVE  Cardinality(LastMinute(ask'[r].via, ask'[r].tenant, ask'[r].at)) = Limit
    <3>1. CASE r = n
      <4>1. ask'[r].via = p /\ ask'[r].tenant = t /\ ask'[r].at = now BY <1>2, <3>1
      <4>2. LastMinute(ask'[r].via, ask'[r].tenant, ask'[r].at) = R BY <1>3, <4>1
      <4>3. Cardinality(R) = Limit BY <1>1, <1>3, BoundsAssumption
      <4> QED BY <4>2, <4>3
    <3>2. CASE r # n BY <1>2, <2>2, <3>2 DEF Inv, RefusedOnlyWhenFull
    <3> QED BY <3>1, <3>2
  <2>3. \A r \in Asks : LastMinute(ask[r].via, ask[r].tenant, ask[r].at)'
                          = LastMinute(ask'[r].via, ask'[r].tenant, ask'[r].at)
    BY <1>5, <1>9 DEF LastMinute
  <2> QED BY <2>2, <2>3 DEF RefusedOnlyWhenFull
<1> QED BY <1>10, <1>11, <1>12, <1>13, <1>14 DEF Inv

\* A request that is let in finds room in every minute it belongs to.
LEMMA AdmitStep ==
  ASSUME Inv, NEW i \in Instances, NEW t \in Tenants, Admit(i, t)
  PROVE  Inv'
<1> DEFINE p == process[i]
           n == nextAsk
           R == Recent(i, t)
<1>0. PICK answer \in {"posted", "empty"} : Arrives(i, t, answer) BY DEF Admit
<1>1. Cardinality(R) < Limit /\ Keeps(i, t, R \cup {n}) BY DEF Admit
<1>2. /\ n \in Asks /\ nextAsk' = n + 1 /\ ask' \in [Asks -> AskType]
      /\ p # 0 /\ UNCHANGED <<now, process, starts>>
      /\ ask[n].answer = "none"
      /\ ask'[n].tenant = t /\ ask'[n].via = p /\ ask'[n].at = now /\ ask'[n].answer = answer
      /\ \A a \in Asks : a # n => ask'[a] = ask[a]
  BY <1>0, Arrival
<1>3. /\ R \in SUBSET Asks
      /\ R = {a \in Admitted(p, t) : ask[a].at >= now - Window}
      /\ R = LastMinute(p, t, now)
      /\ Cardinality(R) \in Nat
  BY <1>2, RecentIs
<1>n. now \in Nat /\ Window \in Nat /\ Limit \in Nat BY BoundsAssumption DEF Inv, TypeOK
<1>4. /\ window' \in [Instances -> [Tenants -> SUBSET Asks]]
      /\ window'[i][t] = R \cup {n}
      /\ \A j \in Instances, u \in Tenants : j # i \/ u # t => window'[j][u] = window[j][u]
  <2>1. R \cup {n} \in SUBSET Asks BY <1>2, <1>3
  <2> HIDE DEF R
  <2> QED BY <1>1, <2>1, Kept
<1>5. \A q, u : /\ n \notin Admitted(q, u)
                /\ Admitted(q, u)' = IF q = p /\ u = t THEN Admitted(q, u) \cup {n} ELSE Admitted(q, u)
  <2> TAKE q, u
  <2>1. /\ Admitted(q, u) \subseteq Admitted(q, u)'
        /\ Admitted(q, u)' \subseteq Admitted(q, u) \cup {n}
        /\ n \in Admitted(q, u)' <=> q = p /\ u = t
        /\ n \notin Admitted(q, u)
    BY <1>0, AdmittedNow
  <2> QED BY <2>1
<1>6. Cardinality(R \cup {n}) <= Limit /\ \A S \in SUBSET (R \cup {n}) : Cardinality(S) <= Limit
  <2>1. Cardinality(R \cup {n}) <= Cardinality(R) + 1 BY <1>2, <1>3, OneMore
  <2>2. R \cup {n} \in SUBSET Asks BY <1>2, <1>3
  <2> HIDE DEF R, n
  <2>3. Cardinality(R \cup {n}) \in Nat BY <2>2, AskSets
  <2>4. \A S \in SUBSET (R \cup {n}) : Cardinality(S) <= Cardinality(R \cup {n}) BY <2>2, AskSets
  <2>5. \A S \in SUBSET (R \cup {n}) : Cardinality(S) \in Nat BY <2>2, AskSets
  <2>6. Cardinality(R \cup {n}) <= Limit BY <1>1, <1>3, <1>n, <2>1, <2>3
  <2> QED BY <1>n, <2>3, <2>4, <2>5, <2>6
<1> HIDE DEF R
<1>8. \A j \in Instances, u \in Tenants : window[j][u] \subseteq Admitted(process[j], u)
  BY DEF Inv, Covers
<1>9. \A q, u : \A a \in Admitted(q, u) : /\ a \in Asks /\ a # n /\ ask'[a] = ask[a]
                                          /\ ask[a].at \in Nat /\ ask[a].at <= now
  BY <1>2, <1>5 DEF Admitted, Inv, TypeOK, AskType, Numbered
<1>10. TypeOK'
  <2>1. ASSUME NEW j \in Instances, NEW u \in Tenants, NEW a \in window'[j][u]
        PROVE  ask'[a].via = process'[j] /\ ask'[a].tenant = u
    <3>1. CASE a = n /\ j = i /\ u = t BY <1>2, <3>1
    <3>2. CASE ~(a = n /\ j = i /\ u = t)
      <4>1. a \in Admitted(process[j], u) BY <1>3, <1>4, <1>8, <2>1, <3>2
      <4> QED BY <1>2, <1>9, <4>1 DEF Admitted
    <3> QED BY <3>1, <3>2
  <2>2. \A j \in Instances, u \in Tenants : Cardinality(window'[j][u]) <= Limit
    <3> TAKE j \in Instances, u \in Tenants
    <3>1. CASE j = i /\ u = t BY <1>4, <1>6, <3>1
    <3>2. CASE j # i \/ u # t BY <1>4, <3>2 DEF Inv, TypeOK
    <3> QED BY <3>1, <3>2
  <2>3. n + 1 \in 1..(MaxAsks + 1) BY <1>2, BoundsAssumption DEF Asks
  <2> QED BY <1>2, <1>4, <2>1, <2>2, <2>3 DEF Inv, TypeOK
<1>11. Numbered' BY <1>0, ArrivalNumbered
<1>12. Covers'
  <2> SUFFICES ASSUME NEW j \in Instances, NEW u \in Tenants
               PROVE  /\ window'[j][u] \subseteq Admitted(process[j], u)'
                      /\ process[j] # 0 => \A a \in Admitted(process[j], u)' :
                                             ask'[a].at >= now - Window => a \in window'[j][u]
    BY <1>2 DEF Covers, Admitted
  <2>1. CASE j = i /\ u = t
    <3>1. Admitted(process[j], u)' = Admitted(p, t) \cup {n} BY <1>2, <1>5, <2>1
    <3> QED BY <1>3, <1>4, <1>9, <2>1, <3>1
  <2>2. CASE j # i \/ u # t
    <3>1. process[j] # 0 => ~(process[j] = p /\ u = t) BY <2>2 DEF Inv, Numbered
    <3>2. window'[j][u] = window[j][u] BY <1>4, <2>2
    <3>3. window[j][u] \subseteq Admitted(process[j], u)' BY <1>2, <1>5, <1>8
    <3>4. process[j] # 0 => Admitted(process[j], u)' = Admitted(process[j], u) BY <1>2, <1>5, <3>1
    <3>5. process[j] # 0 => \A a \in Admitted(process[j], u) :
                              ask[a].at >= now - Window => a \in window[j][u]
      BY DEF Inv, Covers
    <3> QED BY <1>9, <3>2, <3>3, <3>4, <3>5
  <2> QED BY <2>1, <2>2
<1>13. WithinLimit'
  <2> SUFFICES ASSUME NEW q \in Processes, NEW u \in Tenants, NEW x \in 0..MaxTime
               PROVE  Cardinality(Within(q, u, x)') <= Limit
    BY DEF WithinLimit, Processes
  <2>1. Cardinality(Within(q, u, x)) <= Limit BY DEF Inv, WithinLimit
  <2>2. CASE ~(q = p /\ u = t /\ now \in x..(x + Window))
    <3>1. Within(q, u, x)' = Within(q, u, x)
      <4>1. ~(q = p /\ u = t) \/ ask'[n].at \notin x..(x + Window) BY <1>2, <2>2
      <4> QED BY <1>5, <1>9, <4>1 DEF Within
    <3> QED BY <2>1, <3>1
  <2>3. CASE q = p /\ u = t /\ now \in x..(x + Window)
    <3>1. Within(q, u, x)' \subseteq R \cup {n}
      <4> SUFFICES ASSUME NEW a \in Admitted(p, t), ask[a].at \in x..(x + Window)
                   PROVE  a \in R
        BY <1>5, <1>9, <2>3 DEF Within
      <4>1. ask[a].at \in Nat /\ x \in Nat /\ MaxTime \in Nat BY <1>9, BoundsAssumption
      <4>2. ask[a].at >= now - Window BY <1>n, <2>3, <4>1
      <4> QED BY <1>3, <4>2
    <3> QED BY <1>6, <3>1
  <2> QED BY <2>2, <2>3
<1>14. RefusedOnlyWhenFull'
  <2> SUFFICES ASSUME NEW r \in Asks, ask'[r].answer = "refused"
               PROVE  Cardinality(LastMinute(ask[r].via, ask[r].tenant, ask[r].at)') = Limit
    BY DEF RefusedOnlyWhenFull
  <2>1. r # n /\ ask'[r] = ask[r] /\ ask[r].answer = "refused" BY <1>2
  <2>2. Cardinality(LastMinute(ask[r].via, ask[r].tenant, ask[r].at)) = Limit
    BY <2>1 DEF Inv, RefusedOnlyWhenFull
  <2>q. PICK q, u, y : q = ask[r].via /\ u = ask[r].tenant /\ y = ask[r].at OBVIOUS
  <2>3. y \in Nat /\ y <= now BY <2>1, <2>q DEF Inv, TypeOK, AskType, Numbered
  <2>4. ~(q = p /\ u = t /\ y = now)
    <3> SUFFICES ASSUME q = p, u = t, y = now PROVE FALSE OBVIOUS
    <3>1. Cardinality(R) = Limit BY <1>3, <2>2, <2>q
    <3> QED BY <1>1, <1>3, <1>n, <3>1
  <2>5. {a \in Admitted(q, u)' : ask'[a].at \in (y - Window)..y} = LastMinute(q, u, y)
    <3>1. CASE q = p /\ u = t
      <4>1. ask'[n].at \notin (y - Window)..y BY <1>2, <1>n, <2>3, <2>4, <3>1
      <4> QED BY <1>5, <1>9, <4>1 DEF LastMinute
    <3>2. CASE ~(q = p /\ u = t)
      BY <1>5, <1>9, <3>2 DEF LastMinute
    <3> QED BY <3>1, <3>2
  <2>6. LastMinute(ask[r].via, ask[r].tenant, ask[r].at)'
          = {a \in Admitted(q, u)' : ask'[a].at \in (y - Window)..y}
    BY <2>1, <2>q DEF LastMinute, Admitted
  <2> QED BY <2>2, <2>5, <2>6, <2>q
<1> QED BY <1>10, <1>11, <1>12, <1>13, <1>14 DEF Inv

\* Every step keeps the invariant.
LEMMA NextInv == Inv /\ [Next]_vars => Inv'
<1> SUFFICES ASSUME Inv, [Next]_vars PROVE Inv' OBVIOUS
<1>1. CASE UNCHANGED vars
  BY <1>1 DEF vars, Inv, TypeOK, Numbered, Covers, WithinLimit, RefusedOnlyWhenFull, Within,
     LastMinute, Admitted
<1> QED BY <1>1, TickStep, StartStep, RefuseStep, AdmitStep DEF Next

-----------------------------------------------------------------------------
(* The theorems.                                                             *)

\* Every variable keeps its type, and a window holds requests its own process let
\* in for its own tenant, at most as many as the limit.
THEOREM TypeCorrect == Spec => []TypeOK
<1>1. Inv => TypeOK BY DEF Inv
<1> QED BY InitInv, NextInv, <1>1, PTL DEF Spec

\* No sixty seconds see more questions of a tenant pass one process than the limit.
THEOREM LimitHolds == Spec => []WithinLimit
<1>1. Inv => WithinLimit BY DEF Inv
<1> QED BY InitInv, NextInv, <1>1, PTL DEF Spec

\* A request is refused only after as many as the limit in the sixty seconds before.
THEOREM RefusalsAreJust == Spec => []RefusedOnlyWhenFull
<1>1. Inv => RefusedOnlyWhenFull BY DEF Inv
<1> QED BY InitInv, NextInv, <1>1, PTL DEF Spec

=============================================================================
