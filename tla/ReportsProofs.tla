---------------------------- MODULE ReportsProofs ----------------------------
(***************************************************************************)
(* Proofs about Reports, for every log, period and limit.                   *)
(*                                                                         *)
(* The invariants are Typed, Leafed and SectionsSoFar.  A sum is proved     *)
(* about through a function on the sets of its positions that grows with    *)
(* each position by what is added there: there is one such function, so any *)
(* cardinality that grows in this way is the sum.                           *)
(***************************************************************************)
EXTENDS Reports, FiniteSetTheorems, WellFoundedInduction, TLAPS

-----------------------------------------------------------------------------
(* Clusters.                                                                 *)

\* The greater and the smaller of two numbers.
LEMMA TwoNumbers ==
  ASSUME NEW a \in Int, NEW b \in Int
  PROVE  /\ Max({a, b}) = IF a >= b THEN a ELSE b
         /\ Min({a, b}) = IF a <= b THEN a ELSE b
<1>1. CASE a = b
  <2>1. {a, b} = {a} BY <1>1
  <2> QED BY <1>1, <2>1 DEF Max, Min
<1>2. CASE a < b
  <2>1. Max({a, b}) = b BY <1>2 DEF Max
  <2>2. Min({a, b}) = a BY <1>2 DEF Min
  <2> QED BY <1>2, <2>1, <2>2
<1>3. CASE a > b
  <2>1. Max({a, b}) = a BY <1>3 DEF Max
  <2>2. Min({a, b}) = b BY <1>3 DEF Min
  <2> QED BY <1>3, <2>1, <2>2
<1> QED BY <1>1, <1>2, <1>3

\* Times and their sets are finite.
LEMMA TimesFinite ==
  ASSUME NEW S \in SUBSET Times
  PROVE  IsFiniteSet(S) /\ Cardinality(S) \in Nat /\ S \in SUBSET Nat
<1>1. IsFiniteSet(Times) /\ Times \subseteq Nat BY ReportsAssumption
<1>2. IsFiniteSet(S) BY <1>1, FS_Subset
<1> QED BY <1>1, <1>2, FS_CardinalityType

\* k is the first number with the best score.
IsBest(k, maxK, sc) ==
  k \in 2..maxK /\ \A j \in 2..maxK : sc[j] < sc[k] \/ (sc[j] = sc[k] /\ k <= j)

\* There is one, since each that is not has fewer better ones than a better one.
LEMMA BestKIsBest ==
  ASSUME NEW maxK \in Int, maxK >= 2, NEW sc \in [2..maxK -> Int]
  PROVE  IsBest(BestK(maxK, sc), maxK, sc)
<1> DEFINE K == 2..maxK
           U(k) == {j \in K : ~ (sc[j] < sc[k] \/ (sc[j] = sc[k] /\ k <= j))}
           T == {U(k) : k \in K}
<1>1. IsFiniteSet(K) BY FS_Interval
<1>2. \A k \in K : U(k) \in FiniteSubsetsOf(K)
  <2>1. \A k \in K : U(k) \in SUBSET K OBVIOUS
  <2>2. \A k \in K : IsFiniteSet(U(k)) BY <1>1, <2>1, FS_Subset
  <2> QED BY <2>1, <2>2 DEF FiniteSubsetsOf
<1>3. 2 \in K OBVIOUS
<1>4. \E k \in K : U(k) = {}
  <2>1. T # {} /\ T \in SUBSET FiniteSubsetsOf(K)
    <3> HIDE DEF U, K
    <3>1. T # {} BY <1>3
    <3>2. \A V \in T : V \in FiniteSubsetsOf(K) BY <1>2
    <3> QED BY <3>1, <3>2
  <2>2. IsWellFoundedOn(StrictSubsetOrdering(K), FiniteSubsetsOf(K))
    BY FS_StrictSubsetOrderingWellFounded
  <2> HIDE DEF T
  <2>3. PICK V \in T : \A W \in T : ~ (<<W, V>> \in StrictSubsetOrdering(K))
    BY <2>1, <2>2, WFMin
  <2>4. PICK k \in K : V = U(k) BY <2>3 DEF T
  <2>5. ASSUME NEW j \in U(k) PROVE FALSE
    <3>1. j \in K /\ sc[j] \in Int /\ sc[k] \in Int
          /\ (sc[j] > sc[k] \/ (sc[j] = sc[k] /\ j < k))
      OBVIOUS
    <3>2. U(j) \subseteq U(k) /\ j \notin U(j)
      <4>1. \A i \in K : sc[i] \in Int /\ i \in Int OBVIOUS
      <4> QED BY <3>1, <4>1
    <3>3. U(j) \in T BY <3>1 DEF T
    <3>4. U(j) \in FiniteSubsetsOf(K) /\ U(k) \in FiniteSubsetsOf(K) BY <1>2, <3>1
    <3>5. U(j) # U(k) BY <3>2
    <3> HIDE DEF U
    <3>6. <<U(j), U(k)>> \in StrictSubsetOrdering(K)
      BY <3>2, <3>4, <3>5 DEF StrictSubsetOrdering, FiniteSubsetsOf
    <3> QED BY <2>3, <2>4, <3>3, <3>6
  <2> QED BY <2>5
<1>5. \E k \in K : \A j \in K : sc[j] < sc[k] \/ (sc[j] = sc[k] /\ k <= j) BY <1>4
<1> QED BY <1>5 DEF BestK, IsBest

\* With k clusters, for k up to the number of different questions, no cluster is empty.
LEMMA LabelsCover ==
  ASSUME NEW S \in SUBSET Times, NEW k \in Nat,
         k <= Cardinality({log[t].question : t \in S}), NEW f \in Labels(S, k),
         NEW c \in 0..(k - 1)
  PROVE  {t \in S : f[log[t].question] = c} # {}
<1> DEFINE asked == {log[t].question : t \in S}
           F == {f[q] : q \in asked}
<1>1. IsFiniteSet(asked)
  <2>1. IsFiniteSet(S) BY TimesFinite
  <2> DEFINE g == [t \in S |-> log[t].question]
  <2>2. g \in Surjection(S, asked) BY DEF Surjection
  <2> HIDE DEF g, asked
  <2> QED BY <2>1, <2>2, FS_Surjection
<1>2. Cardinality(asked) \in Nat BY <1>1, FS_CardinalityType
<1>3. Min({k, Cardinality(asked)}) = k
  <2> DEFINE n == Cardinality(asked)
  <2>1. n \in Nat /\ k <= n BY <1>2
  <2> HIDE DEF n
  <2>2. Min({k, n}) = IF k <= n THEN k ELSE n BY <2>1, TwoNumbers
  <2> QED BY <2>1, <2>2 DEF n
<1>4. f \in [asked -> 0..(k - 1)] /\ Cardinality(F) = Min({k, Cardinality(asked)})
  BY DEF Labels
<1>5. F \subseteq 0..(k - 1) BY <1>4
<1>6. Cardinality(F) = k BY <1>3, <1>4
<1>7. IsFiniteSet(0..(k - 1)) /\ Cardinality(0..(k - 1)) = k
  <2>1. IsFiniteSet(0..(k - 1))
        /\ Cardinality(0..(k - 1)) = IF 0 > k - 1 THEN 0 ELSE k - 1 - 0 + 1
    BY FS_Interval
  <2> QED BY <2>1
<1>8. F = 0..(k - 1)
  <2> HIDE DEF F
  <2> QED BY <1>5, <1>6, <1>7, FS_Subset
<1>9. PICK q \in asked : f[q] = c BY <1>8
<1> QED BY <1>9

\* What is clustered has no empty cluster: the score is the same from the number of
\* different questions on, and of equal scores the first is taken.
LEMMA ClusterFull ==
  ASSUME NEW S \in SUBSET Times, NEW least, Cluster(S, least)
  PROVE  NoEmptyCluster'
<1> DEFINE asked == {log[t].question : t \in S}
           different == Cardinality(asked)
           n == Min({MaxClusters, Cardinality(S) \div PerCluster})
           maxK == Max({2, n})
<1>1. CASE groups' = <<>> BY <1>1 DEF NoEmptyCluster
<1>2. CASE groups' # <<>>
  <2>0. PICK sc \in Silhouette(maxK, different) :
          /\ different > 1
          /\ \E f \in Labels(S, BestK(maxK, sc)) :
               groups' = [c \in 0..(BestK(maxK, sc) - 1) |-> {t \in S : f[log[t].question] = c}]
    BY <1>2, Zenon DEF Cluster
  <2>1. PICK f \in Labels(S, BestK(maxK, sc)) :
          groups' = [c \in 0..(BestK(maxK, sc) - 1) |-> {t \in S : f[log[t].question] = c}]
    BY <2>0
  <2>2. n \in Int
    <3>1. MaxClusters \in Int /\ PerCluster \in Nat \ {0} BY ReportsAssumption
    <3>2. Cardinality(S) \in Nat BY TimesFinite
    <3> DEFINE d == Cardinality(S) \div PerCluster
    <3>3. d \in Int BY <3>1, <3>2
    <3> HIDE DEF d
    <3>4. Min({MaxClusters, d}) = IF MaxClusters <= d THEN MaxClusters ELSE d
      BY <3>1, <3>3, TwoNumbers
    <3> QED BY <3>1, <3>3, <3>4 DEF d
  <2>3. maxK \in Int /\ maxK >= 2
    <3> HIDE DEF n
    <3>1. maxK = IF 2 >= n THEN 2 ELSE n BY <2>2, TwoNumbers
    <3> QED BY <2>2, <3>1
  <2>4. different \in Nat
    <3>1. IsFiniteSet(S) BY TimesFinite
    <3> DEFINE g == [t \in S |-> log[t].question]
    <3>2. g \in Surjection(S, asked) BY DEF Surjection
    <3> HIDE DEF g, asked
    <3>3. IsFiniteSet(asked) BY <3>1, <3>2, FS_Surjection
    <3> QED BY <3>3, FS_CardinalityType
  <2> HIDE DEF n, maxK, different
  <2>5. /\ sc \in [2..maxK -> Int]
        /\ \A j, k \in different..maxK : sc[j] = sc[k]
    BY ReportsAssumption DEF Silhouette
  <2> DEFINE b == BestK(maxK, sc)
  <2>6. IsBest(b, maxK, sc) BY <2>3, <2>5, BestKIsBest
  <2> HIDE DEF b
  <2>7. b \in Nat /\ b <= different
    <3>1. b \in 2..maxK /\ \A j \in 2..maxK : sc[j] < sc[b] \/ (sc[j] = sc[b] /\ b <= j)
      BY <2>6 DEF IsBest
    <3>2. ASSUME b > different PROVE FALSE
      <4>1. different \in 2..maxK /\ different \in different..maxK /\ b \in different..maxK
        BY <2>0, <2>3, <2>4, <3>1, <3>2
      <4>2. sc[different] = sc[b] /\ sc[b] \in Int BY <2>5, <3>1, <4>1
      <4>3. b <= different BY <3>1, <4>1, <4>2
      <4> QED BY <2>3, <2>4, <3>1, <3>2, <4>3
    <3> QED BY <2>3, <2>4, <3>1, <3>2
  <2>8. f \in Labels(S, b) BY DEF b
  <2>9. \A c \in 0..(b - 1) : {t \in S : f[log[t].question] = c} # {}
    BY <2>7, <2>8, LabelsCover DEF different, asked
  <2>10. groups' = [c \in 0..(b - 1) |-> {t \in S : f[log[t].question] = c}]
    BY <2>1 DEF b
  <2> QED BY <2>9, <2>10 DEF NoEmptyCluster
<1> QED BY <1>1, <1>2

-----------------------------------------------------------------------------
(* Rows by rank, newest first.                                               *)

\* Rows newest first: how many rows of S are newer than one of them
Rank(S, t) == Cardinality({u \in S : u > t})

\* Ranks are different, and smaller than the number of rows.
LEMMA RankFacts ==
  ASSUME NEW S \in SUBSET Times
  PROVE  /\ \A t \in S : Rank(S, t) \in 0..(Cardinality(S) - 1)
         /\ \A t, u \in S : Rank(S, t) = Rank(S, u) => t = u
<1> DEFINE U(t) == {u \in S : u > t}
<1>1. IsFiniteSet(S) /\ Cardinality(S) \in Nat /\ S \in SUBSET Nat BY TimesFinite
<1>2. ASSUME NEW t \in S
      PROVE  /\ U(t) \subseteq S \ {t} /\ IsFiniteSet(U(t)) /\ Cardinality(U(t)) \in Nat
             /\ Cardinality(U(t)) <= Cardinality(S) - 1
  <2>1. U(t) \subseteq S \ {t} BY <1>1
  <2>2. IsFiniteSet(S \ {t}) /\ Cardinality(S \ {t}) = Cardinality(S) - 1
    BY <1>1, FS_RemoveElement
  <2> DEFINE V == U(t)
             W == S \ {t}
  <2> HIDE DEF V, W
  <2>3. IsFiniteSet(V) /\ Cardinality(V) <= Cardinality(W)
    <3>1. V \in SUBSET W /\ IsFiniteSet(W) BY <2>1, <2>2 DEF V, W
    <3> QED BY <3>1, FS_Subset
  <2>4. Cardinality(V) \in Nat BY <2>3, FS_CardinalityType
  <2> QED BY <2>1, <2>2, <2>3, <2>4 DEF V, W
<1>3. ASSUME NEW t \in S, NEW u \in S, t < u PROVE Cardinality(U(t)) # Cardinality(U(u))
  <2>0. t \in Nat /\ u \in Nat /\ \A x \in S : x \in Nat BY <1>1
  <2>1. /\ U(u) \subseteq U(t)
        /\ u \in U(t) /\ u \notin U(u)
    <3>1. \A x \in S : x > u => x > t BY <1>3, <2>0
    <3>2. u > t /\ ~(u > u) BY <1>3, <2>0
    <3> QED BY <3>1, <3>2, Zenon
  <2>2. IsFiniteSet(U(t)) BY <1>2
  <2> DEFINE V == U(u)
             W == U(t)
  <2>3. V \in SUBSET W /\ IsFiniteSet(W) /\ V # W BY <2>1, <2>2
  <2> HIDE DEF V, W
  <2>4. Cardinality(W) # Cardinality(V) BY <2>3, FS_Subset
  <2> QED BY <2>4 DEF V, W
<1>4. \A t \in S : Rank(S, t) = Cardinality(U(t)) BY DEF Rank
<1> HIDE DEF U
<1>5. \A t \in S : Rank(S, t) \in 0..(Cardinality(S) - 1) BY <1>1, <1>2, <1>4
<1>6. ASSUME NEW t \in S, NEW u \in S, Rank(S, t) = Rank(S, u) PROVE t = u
  <2>1. t \in Nat /\ u \in Nat BY <1>1
  <2>2. ~(t < u) /\ ~(u < t) BY <1>3, <1>4, <1>6
  <2> QED BY <2>1, <2>2
<1> QED BY <1>5, <1>6

\* The newest n rows are those of rank below n.
LEMMA NewestRanks ==
  ASSUME NEW S, NEW n
  PROVE  Newest(S, n) = {t \in S : Rank(S, t) < n}
BY Zenon DEF Newest, Rank

\* All but the newest n rows are not more than the others.
LEMMA OlderRows ==
  ASSUME NEW S \in SUBSET Times, NEW n \in Nat, NEW m \in Nat, Cardinality(S) <= n + m
  PROVE  Cardinality(S \ Newest(S, n)) <= m /\ IsFiniteSet(S \ Newest(S, n))
<1> DEFINE c == Cardinality(S)
           O == S \ Newest(S, n)
           f == [t \in O |-> Rank(S, t)]
<1>1. IsFiniteSet(S) /\ c \in Nat BY TimesFinite
<1>2. /\ \A t \in S : Rank(S, t) \in 0..(c - 1)
      /\ \A t, u \in S : Rank(S, t) = Rank(S, u) => t = u
  BY RankFacts
<1>3. O = {t \in S : ~(Rank(S, t) < n)} BY NewestRanks
<1> HIDE DEF O
<1>4. f \in Injection(O, n..(c - 1))
  <2>1. \A t \in O : Rank(S, t) \in n..(c - 1) BY <1>1, <1>2, <1>3
  <2>2. \A t, u \in O : f[t] = f[u] => t = u BY <1>2, <1>3
  <2> QED BY <2>1, <2>2 DEF Injection, IsInjective
<1>5. IsFiniteSet(n..(c - 1)) /\ Cardinality(n..(c - 1)) <= m
  <2>1. /\ IsFiniteSet(n..(c - 1))
        /\ Cardinality(n..(c - 1)) = IF n > c - 1 THEN 0 ELSE c - 1 - n + 1
    <3> DEFINE d == c - 1
    <3>1. n \in Int /\ d \in Int BY <1>1
    <3> HIDE DEF d
    <3>2. IsFiniteSet(n..d) /\ Cardinality(n..d) = IF n > d THEN 0 ELSE d - n + 1
      BY <3>1, FS_Interval
    <3> QED BY <3>2 DEF d
  <2> QED BY <1>1, <2>1
<1> HIDE DEF f
<1> DEFINE I == n..(c - 1)
<1> HIDE DEF I
<1>6. IsFiniteSet(O) /\ Cardinality(O) <= Cardinality(I) BY <1>4, <1>5, FS_Injection DEF I
<1>7. Cardinality(O) \in Nat /\ Cardinality(I) \in Nat
  BY <1>5, <1>6, FS_CardinalityType DEF I
<1>8. Cardinality(O) <= m BY <1>5, <1>6, <1>7 DEF I
<1> QED BY <1>6, <1>8 DEF O

\* A page without rows lies behind the last one.
LEMMA EmptyPage ==
  ASSUME NEW S \in SUBSET Times, NEW n \in Nat, NEW l \in Nat \ {0},
         Newest(S, n + l) \ Newest(S, n) = {}
  PROVE  S \subseteq Newest(S, n)
<1> DEFINE c == Cardinality(S)
           f == [t \in S |-> Rank(S, t)]
           I == 0..(c - 1)
<1>1. IsFiniteSet(S) /\ c \in Nat BY TimesFinite
<1>2. /\ \A t \in S : Rank(S, t) \in 0..(c - 1)
      /\ \A t, u \in S : Rank(S, t) = Rank(S, u) => t = u
  BY RankFacts
<1>3. /\ Newest(S, n) = {t \in S : Rank(S, t) < n}
      /\ Newest(S, n + l) = {t \in S : Rank(S, t) < n + l}
  BY NewestRanks
<1>4. CASE c <= n BY <1>1, <1>2, <1>3, <1>4
<1>5. CASE c > n
  <2>1. f \in Injection(S, I) BY <1>2 DEF Injection, IsInjective
  <2>2. IsFiniteSet(I) /\ Cardinality(I) = c
    <3>1. IsFiniteSet(I) /\ Cardinality(I) = IF 0 > c - 1 THEN 0 ELSE c - 1 - 0 + 1
      BY <1>1, FS_Interval
    <3> QED BY <1>1, <3>1
  <2>3. f \in Surjection(S, I)
    <3> HIDE DEF f, I
    <3> QED BY <2>1, <2>2, FS_Injection DEF c
  <2>4. n \in I BY <1>1, <1>5
  <2>5. PICK t \in S : f[t] = n BY <2>3, <2>4 DEF Surjection
  <2>6. Rank(S, t) = n BY <2>5
  <2>7. t \in Newest(S, n + l) /\ t \notin Newest(S, n) BY <1>3, <2>6
  <2> QED BY <2>7
<1> QED BY <1>1, <1>4, <1>5

\* Rows that arrive push rows back and none forward.
LEMMA RowsPushedBack ==
  ASSUME NEW T \in SUBSET Times, NEW S \in SUBSET T, NEW n \in Nat
  PROVE  S \cap Newest(T, n) \subseteq Newest(S, n)
<1> SUFFICES ASSUME NEW t \in S, Rank(T, t) < n PROVE Rank(S, t) < n BY NewestRanks
<1> DEFINE U == {u \in S : u > t}
           V == {u \in T : u > t}
<1>1. U \in SUBSET V /\ IsFiniteSet(V) BY TimesFinite
<1>2. Cardinality(U) <= Cardinality(V) /\ IsFiniteSet(U)
  <2> HIDE DEF U, V
  <2> QED BY <1>1, FS_Subset
<1>3. Cardinality(U) \in Nat /\ Cardinality(V) \in Nat BY <1>1, <1>2, FS_CardinalityType
<1>4. Rank(S, t) = Cardinality(U) /\ Rank(T, t) = Cardinality(V) BY DEF Rank
<1> QED BY <1>2, <1>3, <1>4

-----------------------------------------------------------------------------
(* Types, and leafing through the question log.                              *)

\* The type of every variable, and how far a page of several statements is
Typed ==
  /\ log \in [Times -> Rows \cup {NoRow}]
  /\ shown \subseteq Times /\ before \subseteq Times
  /\ offset \in Nat /\ total \in Nat
  /\ writes \in 0..MaxWrites /\ late \in 0..writes
  /\ \E S : got \in Seq(S)
  /\ page = "none" => got = <<>> /\ ~done /\ total = 0
  /\ page # "qlog" => offset = 0
  /\ page \in DOMAIN Statements =>
       Len(got) <= Len(Statements[page]) /\ (done <=> Len(got) = Len(Statements[page]))

\* The pages of several statements
LEMMA StatementsDomain ==
  /\ DOMAIN Statements = {"analytics", "recommendations"}
  /\ \A p \in DOMAIN Statements : Len(Statements[p]) \in Nat \ {0}
<1>1. DOMAIN Statements = {"analytics", "recommendations"} BY DEF Statements
<1>2. /\ Statements["analytics"] = <<"summary", "by_day", "by_hour", "heatmap", "latency",
                                     "tokens", "scores", "words", "slowest">>
      /\ Statements["recommendations"] = <<"stats", "low">>
  BY DEF Statements
<1>3. Len(Statements["analytics"]) = 9 /\ Len(Statements["recommendations"]) = 2 BY <1>2
<1>4. \A p \in DOMAIN Statements : p = "analytics" \/ p = "recommendations" BY <1>1
<1>5. 9 \in Nat \ {0} /\ 2 \in Nat \ {0} OBVIOUS
<1>6. \A p \in DOMAIN Statements : Len(Statements[p]) \in Nat \ {0}
  BY <1>3, <1>4, <1>5, Zenon
<1> QED BY <1>1, <1>6

\* One answer more.
LEMMA AppendLength ==
  ASSUME NEW s, NEW x, \E S : s \in Seq(S)
  PROVE  /\ \E S : Append(s, x) \in Seq(S)
         /\ Len(Append(s, x)) = Len(s) + 1 /\ Len(s) \in Nat
<1>1. PICK S : s \in Seq(S) OBVIOUS
<1>2. s \in Seq(S \cup {x}) BY <1>1
<1>3. Append(s, x) \in Seq(S \cup {x}) /\ Len(Append(s, x)) = Len(s) + 1 /\ Len(s) \in Nat
  BY <1>2
<1> QED BY <1>3

\* The rows of a period are some of the times, few enough to count.
LEMMA InRangeFacts ==
  /\ InRange \in SUBSET Times /\ InRange' \in SUBSET Times
  /\ Cardinality(InRange) \in Nat /\ Cardinality(InRange') \in Nat
<1>1. InRange \in SUBSET Times /\ InRange' \in SUBSET Times BY DEF InRange, Logged
<1> QED BY <1>1, TimesFinite

\* Every step keeps the types.
LEMMA TypedInductive == Typed /\ [Next]_vars => Typed'
<1> SUFFICES ASSUME Typed, [Next]_vars PROVE Typed' OBVIOUS
<1>0. /\ MaxWrites \in Nat /\ Limit \in Nat \ {0} /\ writes \in Nat /\ late \in Nat
  BY ReportsAssumption DEF Typed
<1>1. CASE UNCHANGED vars BY <1>1 DEF vars, request, leaf, history, Typed
<1>2. CASE Ask
  <2>1. /\ page = "none" /\ page' # "none" /\ got = <<>> /\ ~done /\ offset = 0
        /\ UNCHANGED <<log, got, done, offset, total, shown, writes, late>>
    BY <1>2 DEF Ask, leaf, Typed
  <2>2. before' \subseteq Times BY <1>2 DEF Ask, Logged
  <2>3. Len(<<>>) = 0 OBVIOUS
  <2>4. \E S : got' \in Seq(S) BY <2>1 DEF Typed
  <2>5. page' \in DOMAIN Statements =>
          Len(got') <= Len(Statements[page']) /\ (done' <=> Len(got') = Len(Statements[page']))
    BY <2>1, <2>3, StatementsDomain
  <2> QED BY <2>1, <2>2, <2>4, <2>5 DEF Typed
<1>3. CASE LogEntry
  <2>1. PICK t \in Times, row \in Rows : log' = [log EXCEPT ![t] = row]
    BY <1>3 DEF LogEntry, Logged
  <2>2. log' \in [Times -> Rows \cup {NoRow}] BY <2>1 DEF Typed
  <2> QED BY <1>0, <1>3, <2>2 DEF LogEntry, request, leaf, Typed
<1>4. CASE DeleteTenantLog
  <2>1. log' \in [Times -> Rows \cup {NoRow}] BY <1>4 DEF DeleteTenantLog
  <2> QED BY <1>4, <2>1 DEF DeleteTenantLog, request, leaf, Typed
<1>5. CASE Read
  <2>1. PICK a : got' = Append(got, a) BY <1>5 DEF Read
  <2>2. /\ page \in DOMAIN Statements /\ ~done /\ done' = (Len(got') = Len(Statements[page]))
        /\ UNCHANGED <<log, page, offset, total, shown, writes, before, late>>
    BY <1>5 DEF Read, request, leaf, history
  <2>3. \E S : got \in Seq(S) BY DEF Typed
  <2>4. (\E S : got' \in Seq(S)) /\ Len(got') = Len(got) + 1 /\ Len(got) \in Nat
    BY <2>1, <2>3, AppendLength
  <2>5. Len(Statements[page]) \in Nat BY <2>2, StatementsDomain
  <2>6. Len(got) < Len(Statements[page]) BY <2>2, <2>4, <2>5 DEF Typed
  <2>7. Len(got') <= Len(Statements[page'])
        /\ (done' <=> Len(got') = Len(Statements[page']))
    <3> DEFINE n == Len(Statements[page])
    <3>1. Len(got') <= n BY <2>4, <2>5, <2>6
    <3>2. done' <=> Len(got') = n BY <2>2, Zenon
    <3> QED BY <2>2, <3>1, <3>2, Zenon
  <2>8. page # "none" BY <2>2, StatementsDomain
  <2> QED BY <2>2, <2>4, <2>7, <2>8 DEF Typed
<1>6. CASE GetInsights \/ GetGaplist
  <2>1. /\ page \in {"insights", "gaplist"}
        /\ UNCHANGED <<log, page, got, offset, total, shown, writes, before, late>>
    BY <1>6 DEF GetInsights, GetGaplist, Clustering, request, leaf, history
  <2> QED BY <2>1, StatementsDomain DEF Typed
<1>7. CASE CountRows
  <2>1. /\ page = "qlog" /\ total' = Cardinality(InRange) /\ got' = <<"counted">> /\ late' = 0
        /\ UNCHANGED <<log, page, done, offset, shown, writes, before>>
    BY <1>7 DEF CountRows, request
  <2>2. total' \in Nat BY <2>1, InRangeFacts
  <2>3. <<"counted">> \in Seq({"counted"}) OBVIOUS
  <2>4. \E S : got' \in Seq(S) BY <2>1, <2>3
  <2> QED BY <1>0, <2>1, <2>2, <2>4, StatementsDomain DEF Typed
<1>8. CASE ShowPage
  <2>1. /\ page = "qlog" /\ shown' = shown \cup PageRows /\ got' = <<>>
        /\ offset' \in {offset, offset + Limit}
        /\ UNCHANGED <<log, page, total, writes, before, late>>
    BY <1>8 DEF ShowPage, request, history
  <2>2. PageRows \subseteq Times BY InRangeFacts DEF PageRows, Newest
  <2>3. \E S : got' \in Seq(S)
    <3>1. <<>> \in Seq({}) OBVIOUS
    <3> QED BY <2>1, <3>1
  <2>4. offset' \in Nat BY <1>0, <2>1 DEF Typed
  <2> QED BY <1>0, <2>1, <2>2, <2>3, <2>4, StatementsDomain DEF Typed
<1> QED BY <1>1, <1>2, <1>3, <1>4, <1>5, <1>6, <1>7, <1>8 DEF Next

\* How far the question log was leafed through: while the tenant is there no row goes,
\* rows since the last COUNT are in late, and of those there at the beginning only such
\* are missing that lie behind the next page.
Leafed ==
  page = "qlog" /\ ~emptied =>
    /\ before \subseteq InRange
    /\ offset = 0 \/ offset < total
    /\ total <= Cardinality(InRange)
    /\ got # <<>> => Cardinality(InRange) <= total + late
    /\ ~done => before \cap Newest(InRange, offset) \subseteq shown
    /\ done => Cardinality(before \ shown) <= late

\* A row that is logged.
LEMMA LogEntryLeafed ==
  ASSUME Typed, Leafed, LogEntry
  PROVE  Leafed'
<1> SUFFICES ASSUME page = "qlog", ~emptied
             PROVE  /\ before \subseteq InRange'
                    /\ offset = 0 \/ offset < total
                    /\ total <= Cardinality(InRange')
                    /\ got # <<>> => Cardinality(InRange') <= total + late + 1
                    /\ before \cap Newest(InRange', offset) \subseteq shown
  <2>1. late' = late + 1 /\ ~done
        /\ UNCHANGED <<page, got, done, offset, total, shown, before, emptied>>
    BY DEF LogEntry, request, leaf
  <2>2. late \in Nat
    <3>1. writes \in Int BY DEF Typed
    <3> QED BY <3>1 DEF Typed
  <2>3. total + (late + 1) = total + late + 1 BY <2>2 DEF Typed
  <2>4. Newest(InRange', offset') = Newest(InRange', offset) BY <2>1
  <2>5. Newest(InRange, offset)' = Newest(InRange', offset') BY DEF Newest
  <2> QED BY <2>1, <2>3, <2>4, <2>5 DEF Leafed
<1>0. /\ late \in Nat /\ total \in Nat /\ offset \in Nat
  <2>1. writes \in Int BY DEF Typed
  <2> QED BY <2>1 DEF Typed
<1>1. PICK t \in Times \ Logged, row \in Rows : log' = [log EXCEPT ![t] = row]
  BY DEF LogEntry
<1>2. range' = range /\ ~done BY DEF LogEntry, request
<1>3. \A u \in Times : u # t => log'[u] = log[u] BY <1>1 DEF Typed
<1>4. log[t] = NoRow BY <1>1 DEF Logged
<1>5. InRange \subseteq InRange' /\ InRange' \subseteq InRange \cup {t}
  BY <1>2, <1>3, <1>4 DEF InRange, Logged
<1>6. /\ Cardinality(InRange) <= Cardinality(InRange')
      /\ Cardinality(InRange') <= Cardinality(InRange) + 1
  <2> DEFINE A == InRange
             B == InRange'
  <2>1. A \in SUBSET Times /\ B \in SUBSET Times /\ A \in SUBSET B /\ B \in SUBSET (A \cup {t})
    BY <1>5, InRangeFacts
  <2> HIDE DEF A, B
  <2>2. IsFiniteSet(A) /\ IsFiniteSet(B) /\ Cardinality(A) \in Nat /\ Cardinality(B) \in Nat
    BY <2>1, TimesFinite
  <2>3. Cardinality(A) <= Cardinality(B) BY <2>1, <2>2, FS_Subset
  <2>4. IsFiniteSet(A \cup {t}) /\ Cardinality(A \cup {t}) <= Cardinality(A) + 1
    <3>1. /\ IsFiniteSet(A \cup {t})
          /\ Cardinality(A \cup {t}) = IF t \in A THEN Cardinality(A) ELSE Cardinality(A) + 1
      BY <2>2, FS_AddElement
    <3> QED BY <2>2, <3>1
  <2>5. Cardinality(B) <= Cardinality(A \cup {t}) BY <2>1, <2>4, FS_Subset
  <2>6. Cardinality(A \cup {t}) \in Nat BY <2>4, FS_CardinalityType
  <2> QED BY <2>2, <2>3, <2>4, <2>5, <2>6 DEF A, B
<1>7. InRange \cap Newest(InRange', offset) \subseteq Newest(InRange, offset)
  <2> DEFINE A == InRange
             B == InRange'
  <2>1. B \in SUBSET Times /\ A \in SUBSET B BY <1>5, InRangeFacts
  <2> HIDE DEF A, B
  <2>2. A \cap Newest(B, offset) \subseteq Newest(A, offset) BY <1>0, <2>1, RowsPushedBack
  <2> QED BY <2>2 DEF A, B
<1>8. /\ before \subseteq InRange /\ (offset = 0 \/ offset < total)
      /\ total <= Cardinality(InRange)
      /\ got # <<>> => Cardinality(InRange) <= total + late
      /\ before \cap Newest(InRange, offset) \subseteq shown
  BY <1>2 DEF Leafed
<1>9. before \cap Newest(InRange', offset) \subseteq shown BY <1>7, <1>8
<1>10. before \subseteq InRange' BY <1>5, <1>8
<1> QED BY <1>0, <1>6, <1>8, <1>9, <1>10, InRangeFacts

\* A page of the question log that is shown.
LEMMA ShowPageLeafed ==
  ASSUME Typed, Leafed, ShowPage
  PROVE  Leafed'
<1>0. /\ offset \in Nat /\ total \in Nat /\ late \in Nat /\ Limit \in Nat \ {0}
  <2>1. writes \in Int BY DEF Typed
  <2> QED BY <2>1, ReportsAssumption DEF Typed
<1>1. /\ page = "qlog" /\ ~done /\ got # <<>> /\ got' = <<>>
      /\ shown' = shown \cup PageRows /\ done' = (IsLast \/ PageRows = {})
      /\ offset' = IF done' THEN offset ELSE offset + Limit
      /\ UNCHANGED <<log, page, range, total, before, late, emptied>>
  BY DEF ShowPage, request, history
<1>2. InRange' = InRange BY <1>1 DEF InRange, Logged
<1>3. CASE emptied BY <1>1, <1>3 DEF Leafed
<1>4. CASE ~emptied
  <2> DEFINE S == InRange
             O == S \ Newest(S, offset + Limit)
  <2>1. /\ before \subseteq S /\ (offset = 0 \/ offset < total)
        /\ total <= Cardinality(S) /\ Cardinality(S) <= total + late
        /\ before \cap Newest(S, offset) \subseteq shown
    BY <1>1, <1>4 DEF Leafed
  <2>2. S \in SUBSET Times /\ Cardinality(S) \in Nat BY InRangeFacts
  <2>3. PageRows = Newest(S, offset + Limit) \ Newest(S, offset) BY DEF PageRows
  <2>4. Newest(InRange, offset)' = Newest(S, offset') BY <1>2 DEF Newest
  <2> HIDE DEF S
  <2>5. before \ shown' \subseteq O /\ before \cap Newest(S, offset + Limit) \subseteq shown'
    BY <1>1, <2>1, <2>3
  <2>6. CASE IsLast
    <3>1. Cardinality(S) <= (offset + Limit) + late
      BY <1>0, <2>1, <2>2, <2>6 DEF IsLast
    <3>2. offset + Limit \in Nat BY <1>0
    <3>3. Cardinality(O) <= late /\ IsFiniteSet(O) BY <1>0, <2>2, <3>1, <3>2, OlderRows
    <3>4. Cardinality(before \ shown') <= late
      <4> DEFINE A == before \ shown'
      <4>1. A \in SUBSET O BY <2>5
      <4> HIDE DEF A, O
      <4>2. Cardinality(A) <= Cardinality(O) /\ IsFiniteSet(A) BY <3>3, <4>1, FS_Subset
      <4>3. Cardinality(A) \in Nat /\ Cardinality(O) \in Nat
        BY <3>3, <4>2, FS_CardinalityType
      <4> QED BY <1>0, <3>3, <4>2, <4>3 DEF A
    <3>5. done' BY <1>1, <2>6
    <3> QED BY <1>1, <1>2, <2>1, <3>4, <3>5 DEF Leafed, S
  <2>7. CASE PageRows = {}
    <3>1. S \subseteq Newest(S, offset) BY <1>0, <2>2, <2>3, <2>7, EmptyPage
    <3>2. before \ shown' = {} BY <1>1, <2>1, <3>1
    <3>3. Cardinality(before \ shown') <= late BY <1>0, <3>2, FS_EmptySet
    <3>4. done' BY <1>1, <2>7
    <3> QED BY <1>1, <1>2, <2>1, <3>3, <3>4 DEF Leafed, S
  <2>8. CASE ~IsLast /\ PageRows # {}
    <3>1. ~done' /\ offset' = offset + Limit BY <1>1, <2>8
    <3>2. offset + Limit < total BY <1>0, <2>8 DEF IsLast
    <3>3. before' \cap Newest(InRange, offset)' \subseteq shown'
      BY <1>1, <2>4, <2>5, <3>1
    <3> QED BY <1>1, <1>2, <2>1, <3>1, <3>2, <3>3 DEF Leafed, S
  <2> QED BY <2>6, <2>7, <2>8
<1> QED BY <1>3, <1>4

\* Every step keeps that.
LEMMA LeafedInductive == Typed /\ Leafed /\ [Next]_vars => Leafed'
<1> SUFFICES ASSUME Typed, Leafed, [Next]_vars PROVE Leafed' OBVIOUS
<1>1. CASE UNCHANGED vars
  BY <1>1 DEF vars, request, leaf, history, Leafed, Newest, InRange, Logged
<1>2. CASE Ask
  <2>1. /\ page = "none" /\ before' = InRange'
        /\ UNCHANGED <<got, done, offset, total, shown, emptied>>
    BY <1>2 DEF Ask, InRange, Logged, leaf
  <2>2. got = <<>> /\ ~done /\ offset = 0 /\ total = 0 BY <2>1 DEF Typed
  <2>3. Newest(InRange', 0) = {}
    <3> DEFINE S == InRange'
    <3>1. S \in SUBSET Times BY InRangeFacts
    <3> HIDE DEF S
    <3>2. \A t \in S : Rank(S, t) \in Nat BY <3>1, RankFacts, TimesFinite
    <3>3. \A t \in S : ~(Rank(S, t) < 0) BY <3>2
    <3>4. Newest(S, 0) = {} BY <3>3, NewestRanks
    <3> QED BY <3>4 DEF S
  <2>4. Newest(InRange, offset)' = {} BY <2>1, <2>2, <2>3 DEF Newest
  <2>5. Cardinality(InRange') \in Nat BY InRangeFacts
  <2> QED BY <2>1, <2>2, <2>4, <2>5 DEF Leafed
<1>3. CASE LogEntry BY <1>3, LogEntryLeafed
<1>4. CASE DeleteTenantLog BY <1>4 DEF DeleteTenantLog, Leafed
<1>5. CASE Read \/ GetInsights \/ GetGaplist
  <2>1. page # "qlog" /\ page' = page
    BY <1>5, StatementsDomain DEF Read, GetInsights, GetGaplist, Clustering, request
  <2> QED BY <2>1 DEF Leafed
<1>6. CASE CountRows
  <2>1. /\ ~done /\ total' = Cardinality(InRange) /\ late' = 0
        /\ UNCHANGED <<page, done, offset, shown, before, emptied>> /\ InRange' = InRange
    BY <1>6 DEF CountRows, request, InRange, Logged
  <2>2. Cardinality(InRange) \in Nat /\ total \in Nat /\ offset \in Nat
    BY InRangeFacts DEF Typed
  <2>3. Newest(InRange, offset)' = Newest(InRange, offset) BY <2>1 DEF Newest
  <2> QED BY <2>1, <2>2, <2>3 DEF Leafed
<1>7. CASE ShowPage BY <1>7, ShowPageLeafed
<1> QED BY <1>1, <1>2, <1>3, <1>4, <1>5, <1>6, <1>7 DEF Next

\* Before the first page is asked for.
LEMMA InitTyped == Init => Typed /\ Leafed /\ NoEmptyCluster
<1> SUFFICES ASSUME Init PROVE Typed /\ Leafed /\ NoEmptyCluster OBVIOUS
<1>1. /\ log \in [Times -> Rows \cup {NoRow}] /\ page = "none" /\ got = <<>> /\ groups = <<>>
      /\ ~done /\ offset = 0 /\ total = 0 /\ shown = {} /\ writes = 0 /\ before = {}
      /\ late = 0
  BY DEF Init
<1>2. <<>> \in Seq({}) OBVIOUS
<1>3. MaxWrites \in Nat BY ReportsAssumption
<1>4. Typed BY <1>1, <1>2, <1>3, StatementsDomain DEF Typed
<1>5. Leafed BY <1>1 DEF Leafed
<1>6. NoEmptyCluster BY <1>1 DEF NoEmptyCluster
<1> QED BY <1>4, <1>5, <1>6

\* The types of the variables; no page of the question log is asked for that begins
\* after the last row counted.
THEOREM TypeCorrect == Spec => []TypeOK
<1>1. Init => Typed /\ Leafed BY InitTyped
<1>2. Typed /\ Leafed /\ [Next]_vars => (Typed /\ Leafed)'
  BY TypedInductive, LeafedInductive
<1>3. Typed /\ Leafed => TypeOK BY DEF Typed, Leafed, TypeOK
<1> QED BY <1>1, <1>2, <1>3, PTL DEF Spec

\* Leafing through the question log to the end misses no more rows than arrived between
\* the last COUNT and its SELECT, however many rows, pages and periods there are.
THEOREM LeafingMissesOnlyLateRows == Spec => []PagesMissOnlyLateRows
<1>1. Init => Typed /\ Leafed BY InitTyped
<1>2. Typed /\ Leafed /\ [Next]_vars => (Typed /\ Leafed)'
  BY TypedInductive, LeafedInductive
<1>3. Typed /\ Leafed => PagesMissOnlyLateRows BY DEF Leafed, PagesMissOnlyLateRows
<1> QED BY <1>1, <1>2, <1>3, PTL DEF Spec

\* No cluster of the insights or of the gap list is without a row, whatever the scores
\* of the silhouettes and although more clusters may be tried than questions differ.
THEOREM ClustersHaveRows == Spec => []NoEmptyCluster
<1>1. Init => NoEmptyCluster BY InitTyped
<1>2. NoEmptyCluster /\ [Next]_vars => NoEmptyCluster'
  <2> SUFFICES ASSUME NoEmptyCluster, [Next]_vars PROVE NoEmptyCluster' OBVIOUS
  <2>1. CASE GetInsights
    <3>1. Newest(InRange, ClusterRows) \in SUBSET Times BY InRangeFacts DEF Newest
    <3>2. Cluster(Newest(InRange, ClusterRows), MinRows)
      BY <2>1 DEF GetInsights, Clustering
    <3> QED BY <3>1, <3>2, ClusterFull
  <2>2. CASE GetGaplist
    <3> DEFINE rows == Newest(WithChunks, ClusterRows)
               S == IF Cardinality(rows) < MinRows THEN {} ELSE {t \in rows : IsLow(t)}
    <3>1. Cluster(S, MinLow) BY <2>2 DEF GetGaplist, Clustering
    <3>2. S \in SUBSET Times
      <4>1. rows \subseteq Times BY InRangeFacts DEF Newest, WithChunks
      <4> HIDE DEF rows
      <4> QED BY <4>1
    <3> QED BY <3>1, <3>2, ClusterFull
  <2>3. CASE UNCHANGED vars \/ Ask \/ LogEntry \/ DeleteTenantLog \/ Read \/ CountRows
             \/ ShowPage
    <3>1. UNCHANGED groups
      BY <2>3 DEF vars, Ask, LogEntry, DeleteTenantLog, Read, CountRows, ShowPage
    <3> QED BY <3>1 DEF NoEmptyCluster
  <2> QED BY <2>1, <2>2, <2>3 DEF Next
<1> QED BY <1>1, <1>2, PTL DEF Spec

-----------------------------------------------------------------------------
(* Sums as cardinalities.                                                    *)

\* Among sets of elements of a finite set one contains no other of them.
LEMMA SmallestSet ==
  ASSUME NEW D, IsFiniteSet(D), NEW T \in SUBSET SUBSET D, T # {}
  PROVE  \E V \in T : \A W \in T : W \subseteq V => W = V
<1>1. FiniteSubsetsOf(D) = SUBSET D BY FS_FiniteSubsetsOfFinite
<1>2. IsWellFoundedOn(StrictSubsetOrdering(D), SUBSET D)
  BY <1>1, FS_StrictSubsetOrderingWellFounded
<1>3. PICK V \in T : \A W \in T : ~ (<<W, V>> \in StrictSubsetOrdering(D))
  BY <1>2, WFMin
<1>4. ASSUME NEW W \in T, W \subseteq V, W # V PROVE FALSE
  <2>1. <<W, V>> \in StrictSubsetOrdering(D) BY <1>3, <1>4 DEF StrictSubsetOrdering
  <2> QED BY <1>3, <1>4, <2>1
<1> QED BY <1>3, <1>4

\* A sum is what any function on the sets of positions says that grows by f[x] with x.
LEMMA AddUpIs ==
  ASSUME NEW D, IsFiniteSet(D), NEW f \in [D -> Nat], NEW h \in [SUBSET D -> Nat],
         h[{}] = 0, \A s \in SUBSET D : \A x \in s : h[s] = f[x] + h[s \ {x}]
  PROVE  AddUp(f) = h[D]
<1> DEFINE IsFold(g) == g = [s \in SUBSET DOMAIN f |->
                              IF s = {} THEN 0
                              ELSE f[CHOOSE x \in s : TRUE] + g[s \ {CHOOSE x \in s : TRUE}]]
           g == CHOOSE g : IsFold(g)
<1>1. AddUp(f) = g[DOMAIN f]
  BY DEF AddUp, FoldFunction, FoldFunctionOnSet, MapThenFoldSet
<1>2. DOMAIN f = D OBVIOUS
<1>3. IsFold(h)
  <2>1. ASSUME NEW s \in SUBSET D
        PROVE  h[s] = IF s = {} THEN 0
                      ELSE f[CHOOSE x \in s : TRUE] + h[s \ {CHOOSE x \in s : TRUE}]
    <3>1. s # {} => (CHOOSE x \in s : TRUE) \in s OBVIOUS
    <3> QED BY <3>1
  <2> QED BY <1>2, <2>1
<1>4. IsFold(g)
  <2> HIDE DEF IsFold
  <2> QED BY <1>3
<1> HIDE DEF g
<1> DEFINE T == {s \in SUBSET D : g[s] # h[s]}
<1>5. T = {}
  <2> SUFFICES ASSUME T # {} PROVE FALSE OBVIOUS
  <2>1. T \in SUBSET SUBSET D OBVIOUS
  <2>2. PICK V \in T : \A W \in T : W \subseteq V => W = V
    <3> HIDE DEF T
    <3> QED BY <2>1, SmallestSet
  <2>3. V \in SUBSET D /\ g[V] # h[V] OBVIOUS
  <2>4. CASE V = {} BY <1>2, <1>4, <2>3, <2>4
  <2>5. CASE V # {}
    <3> DEFINE x == CHOOSE x \in V : TRUE
    <3>1. x \in V BY <2>5
    <3>2. g[V] = f[x] + g[V \ {x}] BY <1>2, <1>4, <2>3, <2>5
    <3> HIDE DEF x
    <3>3. V \ {x} \notin T BY <2>2, <3>1
    <3>4. g[V \ {x}] = h[V \ {x}] BY <2>3, <3>3
    <3>5. h[V] = f[x] + h[V \ {x}] BY <2>3, <3>1
    <3> QED BY <2>3, <3>2, <3>4, <3>5
  <2> QED BY <2>4, <2>5
<1>6. D \notin T BY <1>5
<1> QED BY <1>1, <1>2, <1>6

\* GROUP BY a key, and its COUNT.
ByKey(S, h) == [g \in {h[t] : t \in S} |-> Cardinality({t \in S : h[t] = g})]

\* The groups have the rows.
LEMMA CountedByKey ==
  ASSUME NEW S, IsFiniteSet(S), NEW h, DOMAIN h = S
  PROVE  AddUp(ByKey(S, h)) = Cardinality(S)
<1> DEFINE D == {h[t] : t \in S}
           Of(C) == {t \in S : h[t] \in C}
           f == ByKey(S, h)
           m == [C \in SUBSET D |-> Cardinality(Of(C))]
<1>1. IsFiniteSet(D)
  <2> DEFINE k == [t \in S |-> h[t]]
  <2>1. k \in Surjection(S, D) BY DEF Surjection
  <2> HIDE DEF k, D
  <2> QED BY <2>1, FS_Surjection
<1>2. \A X \in SUBSET S : IsFiniteSet(X) /\ Cardinality(X) \in Nat
  BY FS_Subset, FS_CardinalityType
<1>3. f \in [D -> Nat]
  <2>1. \A g \in D : Cardinality({t \in S : h[t] = g}) \in Nat BY <1>2
  <2> QED BY <2>1 DEF ByKey
<1>4. m \in [SUBSET D -> Nat]
  <2>1. \A C \in SUBSET D : Of(C) \in SUBSET S OBVIOUS
  <2> HIDE DEF Of
  <2> QED BY <1>2, <2>1
<1>5. m[{}] = 0
  <2>1. Of({}) = {} OBVIOUS
  <2> HIDE DEF Of
  <2> QED BY <2>1, FS_EmptySet
<1>6. ASSUME NEW C \in SUBSET D, NEW x \in C PROVE m[C] = f[x] + m[C \ {x}]
  <2> DEFINE A == {t \in S : h[t] = x}
             B == Of(C \ {x})
  <2>1. Of(C) = A \cup B /\ A \cap B = {} OBVIOUS
  <2>2. A \in SUBSET S /\ B \in SUBSET S OBVIOUS
  <2>3. f[x] = Cardinality(A) BY DEF ByKey
  <2>4. m[C] = Cardinality(Of(C)) /\ m[C \ {x}] = Cardinality(B) OBVIOUS
  <2> HIDE DEF A, B, Of, m, f
  <2>5. Cardinality(A \cup B) = Cardinality(A) + Cardinality(B) - Cardinality(A \cap B)
    BY <1>2, <2>2, FS_Union
  <2>6. Cardinality(A \cap B) = 0 BY <2>1, FS_EmptySet
  <2>7. Cardinality(A) \in Nat /\ Cardinality(B) \in Nat BY <1>2, <2>2
  <2> QED BY <2>1, <2>3, <2>4, <2>5, <2>6, <2>7
<1>7. Of(D) = S OBVIOUS
<1>8. m[D] = Cardinality(S) BY <1>7
<1> HIDE DEF D, m, f
<1>9. AddUp(f) = m[D]
  <2>1. \A C \in SUBSET D : \A x \in C : m[C] = f[x] + m[C \ {x}] BY <1>6
  <2> QED BY <1>1, <1>3, <1>4, <1>5, <2>1, AddUpIs
<1> QED BY <1>8, <1>9 DEF f

\* w[t] units of each t
Units(w, X) == UNION {{t} \X (1..w[t]) : t \in X}

\* They are as many as the numbers add up to.
LEMMA UnitsAddUp ==
  ASSUME NEW S, IsFiniteSet(S), NEW w \in [S -> Nat], NEW X \in SUBSET S
  PROVE  /\ IsFiniteSet(Units(w, X)) /\ Cardinality(Units(w, X)) \in Nat
         /\ AddUp([t \in X |-> w[t]]) = Cardinality(Units(w, X))
<1>1. IsFiniteSet(X) BY FS_Subset
<1>2. ASSUME NEW t \in S
      PROVE  IsFiniteSet({t} \X (1..w[t])) /\ Cardinality({t} \X (1..w[t])) = w[t]
  <2> DEFINE n == w[t]
  <2>1. n \in Nat OBVIOUS
  <2> HIDE DEF n
  <2>2. IsFiniteSet(1..n) /\ Cardinality(1..n) = n
    <3>1. IsFiniteSet(1..n) /\ Cardinality(1..n) = IF 1 > n THEN 0 ELSE n - 1 + 1
      BY <2>1, FS_Interval
    <3> QED BY <2>1, <3>1
  <2>3. IsFiniteSet({t}) /\ Cardinality({t}) = 1 BY FS_Singleton
  <2>4. /\ IsFiniteSet({t} \X (1..n))
        /\ Cardinality({t} \X (1..n)) = Cardinality({t}) * Cardinality(1..n)
    BY <2>2, <2>3, FS_Product
  <2>5. 1 * n = n BY <2>1
  <2> QED BY <2>2, <2>3, <2>4, <2>5 DEF n
<1>3. ASSUME NEW Y \in SUBSET X PROVE IsFiniteSet(Units(w, Y))
  <2> DEFINE P(t) == {t} \X (1..w[t])
             Q == {P(t) : t \in Y}
             k == [t \in Y |-> P(t)]
  <2>1. IsFiniteSet(Y) BY <1>1, FS_Subset
  <2>2. \A t \in Y : IsFiniteSet(P(t)) BY <1>2
  <2>3. k \in Surjection(Y, Q)
    <3> HIDE DEF P
    <3> QED BY DEF Surjection
  <2>4. \A p \in Q : IsFiniteSet(p)
    <3> HIDE DEF P
    <3> QED BY <2>2
  <2> HIDE DEF Q, k
  <2>5. IsFiniteSet(Q) BY <2>1, <2>3, FS_Surjection
  <2>6. IsFiniteSet(UNION Q) BY <2>4, <2>5, FS_UNION
  <2> QED BY <2>6, Zenon DEF Units, Q
<1> DEFINE m == [Y \in SUBSET X |-> Cardinality(Units(w, Y))]
           f == [t \in X |-> w[t]]
<1>4. m \in [SUBSET X -> Nat] BY <1>3, FS_CardinalityType
<1>5. m[{}] = 0
  <2>1. Units(w, {}) = {} BY DEF Units
  <2> QED BY <2>1, FS_EmptySet
<1>6. ASSUME NEW Y \in SUBSET X, NEW x \in Y PROVE m[Y] = f[x] + m[Y \ {x}]
  <2> DEFINE A == {x} \X (1..w[x])
             Z == Y \ {x}
             B == Units(w, Z)
  <2>1. Units(w, Y) = A \cup B BY DEF Units
  <2>2. A \cap B = {} BY DEF Units
  <2>3. IsFiniteSet(A) /\ Cardinality(A) = w[x] BY <1>2
  <2>4. Z \in SUBSET X /\ x \in S /\ Y \in SUBSET X OBVIOUS
  <2>5. IsFiniteSet(B) BY <1>3, <2>4
  <2>6. m[Y] = Cardinality(Units(w, Y)) /\ m[Z] = Cardinality(B) BY <2>4
  <2>7. f[x] = w[x] OBVIOUS
  <2> HIDE DEF A, B, m, f
  <2>8. Cardinality(A \cup B) = Cardinality(A) + Cardinality(B) - Cardinality(A \cap B)
    BY <2>3, <2>5, FS_Union
  <2>9. Cardinality(A \cap B) = 0 BY <2>2, FS_EmptySet
  <2>10. Cardinality(A) \in Nat /\ Cardinality(B) \in Nat BY <2>3, <2>5, FS_CardinalityType
  <2>11. Cardinality(A \cup B) = Cardinality(A) + Cardinality(B) BY <2>8, <2>9, <2>10
  <2>12. m[Z] = m[Y \ {x}] OBVIOUS
  <2> HIDE DEF Z
  <2> QED BY <2>1, <2>3, <2>6, <2>7, <2>11, <2>12
<1>7. f \in [X -> Nat] OBVIOUS
<1>8. m[X] = Cardinality(Units(w, X)) OBVIOUS
<1> HIDE DEF m, f
<1>9. AddUp(f) = m[X]
  <2>1. \A Y \in SUBSET X : \A x \in Y : m[Y] = f[x] + m[Y \ {x}] BY <1>6
  <2> QED BY <1>1, <1>4, <1>5, <1>7, <2>1, AddUpIs
<1>10. IsFiniteSet(Units(w, X)) BY <1>3
<1> QED BY <1>8, <1>9, <1>10, FS_CardinalityType DEF f

\* More rows, a larger sum.
LEMMA AddUpGrows ==
  ASSUME NEW S, IsFiniteSet(S), NEW w \in [S -> Nat], NEW Y \in SUBSET S, NEW X \in SUBSET Y
  PROVE  AddUp([t \in X |-> w[t]]) <= AddUp([t \in Y |-> w[t]])
<1>1. X \in SUBSET S OBVIOUS
<1>2. Units(w, X) \in SUBSET Units(w, Y) BY DEF Units
<1>3. Cardinality(Units(w, X)) <= Cardinality(Units(w, Y)) BY <1>2, UnitsAddUp, FS_Subset
<1>4. AddUp([t \in X |-> w[t]]) = Cardinality(Units(w, X)) BY <1>1, UnitsAddUp
<1>5. AddUp([t \in Y |-> w[t]]) = Cardinality(Units(w, Y)) BY UnitsAddUp
<1> QED BY <1>3, <1>4, <1>5

\* The sums of the groups add up to the sum.
LEMMA AddedUpByKey ==
  ASSUME NEW S, IsFiniteSet(S), NEW w \in [S -> Nat], NEW key, DOMAIN key = S
  PROVE  AddUp([d \in {key[t] : t \in S} |->
                  AddUp([t \in {u \in S : key[u] = d} |-> w[t]])])
           = AddUp([t \in S |-> w[t]])
<1> DEFINE D == {key[t] : t \in S}
           One(d) == {u \in S : key[u] = d}
           Of(C) == {t \in S : key[t] \in C}
           Sum(X) == AddUp([t \in X |-> w[t]])
           f == [d \in D |-> Sum(One(d))]
           m == [C \in SUBSET D |-> Cardinality(Units(w, Of(C)))]
<1>1. IsFiniteSet(D)
  <2> DEFINE k == [t \in S |-> key[t]]
  <2>1. k \in Surjection(S, D) BY DEF Surjection
  <2> HIDE DEF k, D
  <2> QED BY <2>1, FS_Surjection
<1>2. ASSUME NEW X \in SUBSET S
      PROVE  /\ Sum(X) = Cardinality(Units(w, X))
             /\ IsFiniteSet(Units(w, X)) /\ Cardinality(Units(w, X)) \in Nat
  BY <1>2, UnitsAddUp
<1>3. \A d \in D : One(d) \in SUBSET S OBVIOUS
<1>4. \A C \in SUBSET D : Of(C) \in SUBSET S OBVIOUS
<1>5. ASSUME NEW C \in SUBSET D, NEW x \in C PROVE m[C] = f[x] + m[C \ {x}]
  <2> DEFINE R == C \ {x}
             A == Units(w, One(x))
             B == Units(w, Of(R))
  <2>1. R \in SUBSET D /\ x \in D OBVIOUS
  <2>2. Of(C) = One(x) \cup Of(R) /\ One(x) \cap Of(R) = {} OBVIOUS
  <2>3. One(x) \in SUBSET S /\ Of(R) \in SUBSET S OBVIOUS
  <2>4. m[C] = Cardinality(Units(w, Of(C))) /\ m[R] = Cardinality(B)
    <3> HIDE DEF Of
    <3> QED BY <2>1
  <2>5. f[x] = Sum(One(x))
    <3> HIDE DEF One, Sum
    <3> QED BY <2>1
  <2>6. m[R] = m[C \ {x}] OBVIOUS
  <2> HIDE DEF One, Of, Sum, m, f, R
  <2>7. Units(w, Of(C)) = A \cup B BY <2>2 DEF Units
  <2>8. A \cap B = {} BY <2>2 DEF Units
  <2>9. f[x] = Cardinality(A) /\ Cardinality(A) \in Nat /\ IsFiniteSet(A) BY <1>2, <2>3, <2>5
  <2>10. Cardinality(B) \in Nat /\ IsFiniteSet(B) BY <1>2, <2>3
  <2> HIDE DEF A, B
  <2>11. Cardinality(A \cup B) = Cardinality(A) + Cardinality(B) - Cardinality(A \cap B)
    BY <2>9, <2>10, FS_Union
  <2>12. Cardinality(A \cap B) = 0 BY <2>8, FS_EmptySet
  <2>13. Cardinality(A \cup B) = Cardinality(A) + Cardinality(B) BY <2>9, <2>10, <2>11, <2>12
  <2> QED BY <2>4, <2>6, <2>7, <2>9, <2>13
<1>6. Of(D) = S OBVIOUS
<1>7. Of({}) = {} OBVIOUS
<1>8. f \in [D -> Nat]
  <2>1. \A d \in D : Sum(One(d)) \in Nat
    <3> HIDE DEF One, Sum, D
    <3> QED BY <1>2, <1>3
  <2> HIDE DEF One, Sum, D
  <2> QED BY <2>1
<1> HIDE DEF Of, D
<1>9. m \in [SUBSET D -> Nat] BY <1>2, <1>4
<1>10. m[{}] = 0
  <2>1. Units(w, {}) = {} BY DEF Units
  <2> QED BY <1>7, <2>1, FS_EmptySet
<1>11. m[D] = Cardinality(Units(w, S)) BY <1>6
<1> HIDE DEF m, f
<1>12. AddUp(f) = m[D]
  <2>1. \A C \in SUBSET D : \A x \in C : m[C] = f[x] + m[C \ {x}] BY <1>5
  <2> QED BY <1>1, <1>8, <1>9, <1>10, <2>1, AddUpIs
<1>13. Sum(S) = Cardinality(Units(w, S)) BY <1>2
<1> QED BY <1>11, <1>12, <1>13, Zenon DEF f, D

-----------------------------------------------------------------------------
(* Tokens, times and scores of the rows of a log.                            *)

\* Each element of a finite set has a subset of it; one has a smallest.
LEMMA SmallestOf ==
  ASSUME NEW M, IsFiniteSet(M), M # {}, NEW U \in [M -> SUBSET M]
  PROVE  \E k \in M : \A j \in M : U[j] \subseteq U[k] => U[j] = U[k]
<1> DEFINE T == {U[k] : k \in M}
<1>1. T \in SUBSET SUBSET M /\ T # {} OBVIOUS
<1>2. PICK V \in T : \A W \in T : W \subseteq V => W = V
  <2> HIDE DEF T
  <2> QED BY <1>1, SmallestSet
<1>3. PICK k \in M : V = U[k] BY <1>2
<1> QED BY <1>2, <1>3

\* The largest of some numbers.
LEMMA LargestNumber ==
  ASSUME NEW M, M \subseteq Nat, IsFiniteSet(M), M # {}
  PROVE  Max(M) \in M /\ \A y \in M : y <= Max(M)
<1> DEFINE U == [k \in M |-> {j \in M : j > k}]
<1>1. U \in [M -> SUBSET M] OBVIOUS
<1>2. PICK k \in M : \A j \in M : U[j] \subseteq U[k] => U[j] = U[k]
  <2> DEFINE D == M
  <2>1. IsFiniteSet(D) /\ D # {} /\ U \in [D -> SUBSET D] BY <1>1
  <2> HIDE DEF D, U
  <2>2. \E k \in D : \A j \in D : U[j] \subseteq U[k] => U[j] = U[k]
    BY <2>1, SmallestOf
  <2> QED BY <2>2 DEF D
<1>3. ASSUME NEW j \in M, j > k PROVE FALSE
  <2>1. \A i \in M : i > j => i > k BY <1>3
  <2>2. U[j] \subseteq U[k] BY <2>1
  <2>3. j \in U[k] /\ j \notin U[j] BY <1>3
  <2> QED BY <1>2, <2>2, <2>3
<1>4. \A j \in M : k >= j
  <2> SUFFICES ASSUME NEW j \in M PROVE k >= j OBVIOUS
  <2>1. ~ (j > k) BY <1>3
  <2> QED BY <2>1
<1>5. Max(M) = CHOOSE x \in M : \A y \in M : x >= y BY DEF Max
<1>6. Max(M) \in M /\ \A y \in M : Max(M) >= y BY <1>4, <1>5
<1> QED BY <1>6

\* S are rows of the log l.
AreRows(l, S) == S \in SUBSET Times /\ \A t \in S : l[t] \in Rows

\* The tokens, the longest time and the scores not below zero of the rows S of a log l
TokensOf(l, S)  == AddUp([t \in S |-> l[t].tokens])
TimedOf(l, S)   == {t \in S : l[t].ms # NoMs}
LongestOf(l, S) == Max({0} \cup {l[t].ms : t \in TimedOf(l, S)})
ScoresOf(l, S)  == UNION {{<<t, n>> : n \in DOMAIN l[t].scores} : t \in S}
ScoredOf(l, S)  == Cardinality({c \in ScoresOf(l, S) : l[c[1]].scores[c[2]] >= 0})

\* They are those of the model.
LEMMA OfTheLog ==
  ASSUME NEW S
  PROVE  /\ Tokens(S) = TokensOf(log, S) /\ Longest(S) = LongestOf(log, S)
         /\ Timed(S) = TimedOf(log, S) /\ Scores(S) = ScoresOf(log, S)
         /\ Cardinality({c \in Scores(S) : Score(c) >= 0}) = ScoredOf(log, S)
<1>1. Tokens(S) = TokensOf(log, S) BY Zenon DEF Tokens, TokensOf
<1>2. Timed(S) = TimedOf(log, S) BY Zenon DEF Timed, TimedOf
<1>3. Longest(S) = LongestOf(log, S) BY <1>2, Zenon DEF Longest, LongestOf
<1>4. Scores(S) = ScoresOf(log, S) BY Zenon DEF Scores, ScoresOf
<1>5. Cardinality({c \in Scores(S) : Score(c) >= 0}) = ScoredOf(log, S)
  BY <1>4, Zenon DEF Score, ScoredOf
<1> QED BY <1>1, <1>2, <1>3, <1>4, <1>5

\* Of rows that the log still has as they were, they stay.
LEMMA OldRowsStay ==
  ASSUME NEW l, NEW m, NEW S, \A t \in S : m[t] = l[t]
  PROVE  /\ TokensOf(m, S) = TokensOf(l, S) /\ LongestOf(m, S) = LongestOf(l, S)
         /\ ScoredOf(m, S) = ScoredOf(l, S)
<1>1. [t \in S |-> m[t].tokens] = [t \in S |-> l[t].tokens] OBVIOUS
<1>2. TokensOf(m, S) = TokensOf(l, S) BY <1>1, Zenon DEF TokensOf
<1>3. TimedOf(m, S) = TimedOf(l, S) BY DEF TimedOf
<1>4. {m[t].ms : t \in TimedOf(m, S)} = {l[t].ms : t \in TimedOf(l, S)} BY <1>3 DEF TimedOf
<1>5. LongestOf(m, S) = LongestOf(l, S) BY <1>4, Zenon DEF LongestOf
<1>6. ScoresOf(m, S) = ScoresOf(l, S) BY DEF ScoresOf
<1>7. \A c \in ScoresOf(l, S) : c[1] \in S BY DEF ScoresOf
<1>8. {c \in ScoresOf(m, S) : m[c[1]].scores[c[2]] >= 0}
        = {c \in ScoresOf(l, S) : l[c[1]].scores[c[2]] >= 0}
  BY <1>6, <1>7
<1>9. ScoredOf(m, S) = ScoredOf(l, S) BY <1>8, Zenon DEF ScoredOf
<1> QED BY <1>2, <1>5, <1>9

\* Rows have tokens, perhaps a time, and scores.
LEMMA RowFacts ==
  ASSUME NEW l, NEW S, AreRows(l, S)
  PROVE  \A t \in S : /\ l[t].tokens \in Nat /\ l[t].ms \in Nat \cup {NoMs}
                      /\ l[t].scores \in Seq(Int)
BY ReportsAssumption DEF AreRows

\* More rows have no fewer tokens.
LEMMA TokensGrow ==
  ASSUME NEW l, NEW S, AreRows(l, S), NEW X \in SUBSET S
  PROVE  TokensOf(l, X) \in Nat /\ TokensOf(l, X) <= TokensOf(l, S)
<1> DEFINE w == [t \in S |-> l[t].tokens]
<1>1. IsFiniteSet(S) BY TimesFinite DEF AreRows
<1>2. w \in [S -> Nat] BY RowFacts
<1>3. ASSUME NEW Y \in SUBSET S PROVE TokensOf(l, Y) = AddUp([t \in Y |-> w[t]])
  <2>1. [t \in Y |-> w[t]] = [t \in Y |-> l[t].tokens] OBVIOUS
  <2> QED BY <2>1, Zenon DEF TokensOf
<1> HIDE DEF w
<1>4. \A Y \in SUBSET S : AddUp([t \in Y |-> w[t]]) \in Nat BY <1>1, <1>2, UnitsAddUp
<1>5. TokensOf(l, X) \in Nat BY <1>3, <1>4
<1>6. AddUp([t \in X |-> w[t]]) <= AddUp([t \in S |-> w[t]]) BY <1>1, <1>2, AddUpGrows
<1> QED BY <1>3, <1>5, <1>6

\* The longest time is a number, of one of the rows or zero, and none is longer.
LEMMA LongestFacts ==
  ASSUME NEW l, NEW S, AreRows(l, S)
  PROVE  /\ LongestOf(l, S) \in Nat
         /\ \A t \in TimedOf(l, S) : l[t].ms \in Nat /\ l[t].ms <= LongestOf(l, S)
         /\ LongestOf(l, S) = 0 \/ \E t \in TimedOf(l, S) : l[t].ms = LongestOf(l, S)
<1> DEFINE T == TimedOf(l, S)
           M == {l[t].ms : t \in T}
           N == {0} \cup M
           f == [t \in T |-> l[t].ms]
<1>1. \A t \in T : l[t].ms \in Nat BY RowFacts DEF TimedOf
<1>2. T \in SUBSET Times BY DEF AreRows, TimedOf
<1>3. IsFiniteSet(T) BY <1>2, TimesFinite
<1>4. f \in Surjection(T, M)
  <2> HIDE DEF T
  <2> QED BY DEF Surjection
<1> HIDE DEF T
<1>5. M \in SUBSET Nat BY <1>1
<1> HIDE DEF f, M
<1>6. IsFiniteSet(M) BY <1>3, <1>4, FS_Surjection
<1>7. IsFiniteSet(M \cup {0}) BY <1>6, FS_AddElement
<1>8. N = M \cup {0} OBVIOUS
<1>9. N \in SUBSET Nat /\ N # {} /\ IsFiniteSet(N) BY <1>5, <1>7, <1>8
<1> HIDE DEF N
<1>10. Max(N) \in N /\ \A y \in N : y <= Max(N) BY <1>9, LargestNumber
<1>11. LongestOf(l, S) = Max(N) BY Zenon DEF LongestOf, N, M, T
<1>12. \A t \in T : l[t].ms \in N BY DEF N, M
<1>13. LongestOf(l, S) = 0 \/ LongestOf(l, S) \in M BY <1>10, <1>11 DEF N
<1>14. LongestOf(l, S) = 0 \/ \E t \in T : l[t].ms = LongestOf(l, S) BY <1>13 DEF M
<1> QED BY <1>1, <1>9, <1>10, <1>11, <1>12, <1>14 DEF T

\* Of more rows it is no shorter.
LEMMA LongestGrows ==
  ASSUME NEW l, NEW S, AreRows(l, S), NEW X \in SUBSET S
  PROVE  LongestOf(l, X) <= LongestOf(l, S)
<1>1. AreRows(l, X) BY DEF AreRows
<1>2. LongestOf(l, S) \in Nat /\ \A t \in TimedOf(l, S) : l[t].ms <= LongestOf(l, S)
  BY LongestFacts
<1>3. LongestOf(l, X) = 0 \/ \E t \in TimedOf(l, X) : l[t].ms = LongestOf(l, X)
  BY <1>1, LongestFacts
<1>4. TimedOf(l, X) \in SUBSET TimedOf(l, S) BY DEF TimedOf
<1> QED BY <1>2, <1>3, <1>4

\* The slowest rows have the longest time.
LEMMA SlowestHaveLongest ==
  ASSUME NEW T, Slowest(T), AreRows(log, InRange)
  PROVE  Longest(T) = Longest(InRange)
<1> DEFINE S == InRange
           R == TimedOf(log, S)
<1>1. T \in SUBSET R /\ R \in SUBSET S /\ S \in SUBSET Times
      /\ Cardinality(T) = Min({SlowestRows, Cardinality(R)})
      /\ \A t \in T, u \in R \ T : log[t].ms >= log[u].ms
  BY OfTheLog DEF Slowest, AreRows, TimedOf
<1>2. AreRows(log, S) OBVIOUS
<1>3. T \in SUBSET S /\ TimedOf(log, T) = T BY <1>1 DEF TimedOf
<1> HIDE DEF S
<1>4. AreRows(log, T) BY <1>1, <1>2 DEF AreRows
<1>5. LongestOf(log, T) <= LongestOf(log, S) BY <1>2, <1>3, LongestGrows
<1>6. LongestOf(log, S) = 0 \/ \E u \in R : log[u].ms = LongestOf(log, S)
  BY <1>2, LongestFacts
<1>7. LongestOf(log, S) \in Nat /\ LongestOf(log, T) \in Nat BY <1>2, <1>4, LongestFacts
<1>8. ASSUME NEW u \in R PROVE log[u].ms <= LongestOf(log, T)
  <2>1. \A t \in R : log[t].ms \in Nat BY <1>2, LongestFacts
  <2>2. \A t \in T : log[t].ms <= LongestOf(log, T) BY <1>3, <1>4, LongestFacts
  <2>3. CASE u \in T BY <2>2, <2>3
  <2>4. CASE u \notin T
    <3> DEFINE n == Cardinality(R)
    <3>1. IsFiniteSet(R) /\ n \in Nat BY <1>1, TimesFinite
    <3>2. n # 0
      <4> HIDE DEF R
      <4> QED BY <3>1, FS_EmptySet
    <3>3. SlowestRows \in Nat \ {0} BY ReportsAssumption
    <3> HIDE DEF n
    <3>4. Min({SlowestRows, n}) = IF SlowestRows <= n THEN SlowestRows ELSE n
      BY <3>1, <3>3, TwoNumbers
    <3>5. Cardinality(T) # 0 BY <1>1, <3>1, <3>2, <3>3, <3>4 DEF n
    <3>6. T # {} BY <3>5, FS_EmptySet
    <3>7. PICK t \in T : TRUE BY <3>6
    <3>8. log[t].ms >= log[u].ms BY <1>1, <2>4
    <3>9. t \in R /\ u \in R BY <1>1
    <3> QED BY <1>7, <2>1, <2>2, <3>8, <3>9
  <2> QED BY <2>3, <2>4
<1>9. LongestOf(log, S) <= LongestOf(log, T) BY <1>6, <1>7, <1>8
<1>10. LongestOf(log, S) = LongestOf(log, T) BY <1>5, <1>7, <1>9
<1> QED BY <1>10, OfTheLog DEF S

\* The scores of some rows are finitely many, and more rows have no fewer.
LEMMA ScoredGrows ==
  ASSUME NEW l, NEW S, AreRows(l, S), NEW X \in SUBSET S
  PROVE  /\ IsFiniteSet(ScoresOf(l, S)) /\ ScoredOf(l, X) \in Nat
         /\ ScoredOf(l, X) <= ScoredOf(l, S)
<1> DEFINE P(t) == {<<t, n>> : n \in DOMAIN l[t].scores}
           Q == {P(t) : t \in S}
           k == [t \in S |-> P(t)]
<1>1. IsFiniteSet(S) BY TimesFinite DEF AreRows
<1>2. ASSUME NEW t \in S PROVE IsFiniteSet(P(t))
  <2> DEFINE s == l[t].scores
             n == Len(s)
             f == [i \in 1..n |-> <<t, i>>]
  <2>1. s \in Seq(Int) BY RowFacts
  <2> HIDE DEF s
  <2>2. n \in Nat /\ DOMAIN s = 1..n BY <2>1
  <2>3. P(t) = {<<t, i>> : i \in 1..n} BY <2>2 DEF s
  <2> HIDE DEF n, P
  <2>4. f \in Surjection(1..n, P(t)) BY <2>3 DEF Surjection
  <2> HIDE DEF f
  <2>5. IsFiniteSet(1..n) BY <2>2, FS_Interval
  <2> QED BY <2>4, <2>5, FS_Surjection
<1>3. k \in Surjection(S, Q)
  <2> HIDE DEF P
  <2> QED BY DEF Surjection
<1>4. \A p \in Q : IsFiniteSet(p)
  <2> HIDE DEF P
  <2> QED BY <1>2
<1> HIDE DEF Q, k
<1>5. IsFiniteSet(Q) BY <1>1, <1>3, FS_Surjection
<1>6. IsFiniteSet(UNION Q) BY <1>4, <1>5, FS_UNION
<1>7. IsFiniteSet(ScoresOf(l, S)) BY <1>6, Zenon DEF ScoresOf, Q
<1> DEFINE A == {c \in ScoresOf(l, X) : l[c[1]].scores[c[2]] >= 0}
           B == {c \in ScoresOf(l, S) : l[c[1]].scores[c[2]] >= 0}
<1>8. ScoresOf(l, X) \in SUBSET ScoresOf(l, S) BY DEF ScoresOf
<1>9. A \in SUBSET B /\ B \in SUBSET ScoresOf(l, S) BY <1>8
<1>10. ScoredOf(l, X) = Cardinality(A) /\ ScoredOf(l, S) = Cardinality(B)
  BY Zenon DEF ScoredOf
<1> HIDE DEF A, B
<1>11. IsFiniteSet(B) BY <1>7, <1>9, FS_Subset
<1>12. IsFiniteSet(A) /\ Cardinality(A) <= Cardinality(B) BY <1>9, <1>11, FS_Subset
<1> QED BY <1>7, <1>10, <1>12, FS_CardinalityType

-----------------------------------------------------------------------------
(* What the sections of a page say.                                          *)

\* The rows of the period, grouped in whatever way, are as many as they are.
LEMMA GroupsHaveRows ==
  /\ AddUp(Tally(InRange, LAMBDA t : log[t].source)) = Cardinality(InRange)
  /\ AddUp(Tally(InRange, LAMBDA t : <<Day(t), log[t].source>>)) = Cardinality(InRange)
  /\ AddUp(Tally(InRange, Slot)) = Cardinality(InRange)
  /\ AddUp(Heatmap) = Cardinality(InRange)
  /\ AddUp(Tally(InRange, LAMBDA t : WordLabel(log[t].words))) = Cardinality(InRange)
<1> DEFINE S == InRange
<1>1. IsFiniteSet(S) BY InRangeFacts, TimesFinite
<1> HIDE DEF S
<1>2. AddUp(Tally(S, LAMBDA t : log[t].source)) = Cardinality(S)
  <2> DEFINE h == [t \in S |-> log[t].source]
  <2>1. Tally(S, LAMBDA t : log[t].source) = ByKey(S, h) BY DEF Tally, ByKey
  <2>2. DOMAIN h = S OBVIOUS
  <2> HIDE DEF h
  <2> QED BY <1>1, <2>1, <2>2, CountedByKey
<1>3. AddUp(Tally(S, LAMBDA t : <<Day(t), log[t].source>>)) = Cardinality(S)
  <2> DEFINE h == [t \in S |-> <<Day(t), log[t].source>>]
  <2>1. Tally(S, LAMBDA t : <<Day(t), log[t].source>>) = ByKey(S, h) BY DEF Tally, ByKey
  <2>2. DOMAIN h = S OBVIOUS
  <2> HIDE DEF h
  <2> QED BY <1>1, <2>1, <2>2, CountedByKey
<1>4. AddUp(Tally(S, Slot)) = Cardinality(S)
  <2> DEFINE h == [t \in S |-> Slot(t)]
  <2>1. Tally(S, Slot) = ByKey(S, h) BY DEF Tally, ByKey
  <2>2. DOMAIN h = S OBVIOUS
  <2> HIDE DEF h
  <2> QED BY <1>1, <2>1, <2>2, CountedByKey
<1>5. AddUp(Tally(S, LAMBDA t : <<Day(t) % DaysPerWeek, Slot(t) % HoursPerDay>>))
        = Cardinality(S)
  <2> DEFINE h == [t \in S |-> <<Day(t) % DaysPerWeek, Slot(t) % HoursPerDay>>]
  <2>1. Tally(S, LAMBDA t : <<Day(t) % DaysPerWeek, Slot(t) % HoursPerDay>>) = ByKey(S, h)
    BY DEF Tally, ByKey
  <2>2. DOMAIN h = S OBVIOUS
  <2> HIDE DEF h
  <2> QED BY <1>1, <2>1, <2>2, CountedByKey
<1>6. AddUp(Tally(S, LAMBDA t : WordLabel(log[t].words))) = Cardinality(S)
  <2> DEFINE h == [t \in S |-> WordLabel(log[t].words)]
  <2>1. Tally(S, LAMBDA t : WordLabel(log[t].words)) = ByKey(S, h) BY DEF Tally, ByKey
  <2>2. DOMAIN h = S OBVIOUS
  <2> HIDE DEF h
  <2> QED BY <1>1, <2>1, <2>2, CountedByKey
<1> QED BY <1>2, <1>3, <1>4, <1>5, <1>6, Zenon DEF S, Heatmap

\* A score falls into a bucket unless it is below zero.
LEMMA Buckets ==
  ASSUME NEW s \in Int
  PROVE  Bucket(s) \in 0..19 <=> s >= 0
<1>1. Min({s, 9999}) = IF s <= 9999 THEN s ELSE 9999 BY TwoNumbers
<1>2. CASE s <= 9999
  <2>1. Bucket(s) = s \div 500 BY <1>1, <1>2 DEF Bucket
  <2> QED BY <1>2, <2>1
<1>3. CASE s > 9999
  <2>1. Bucket(s) = 9999 \div 500 BY <1>1, <1>3 DEF Bucket
  <2>2. 9999 \div 500 = 19 OBVIOUS
  <2> QED BY <1>3, <2>1, <2>2
<1> QED BY <1>2, <1>3

\* The buckets have every score that is not below zero.
LEMMA BucketsHaveScores ==
  ASSUME AreRows(log, InRange)
  PROVE  AddUp(ScoreBuckets) = ScoredOf(log, InRange)
<1> DEFINE S == InRange
           C == {c \in Scores(S) : Bucket(Score(c)) \in 0..19}
           h == [c \in C |-> Bucket(Score(c))]
<1>1. Scores(S) = ScoresOf(log, S) BY OfTheLog
<1>2. ASSUME NEW c \in ScoresOf(log, S) PROVE Score(c) \in Int
  <2>1. PICK t \in S : c \in {<<t, n>> : n \in DOMAIN log[t].scores} BY DEF ScoresOf
  <2> DEFINE s == log[t].scores
  <2>2. PICK n \in DOMAIN s : c = <<t, n>> BY <2>1
  <2>3. s \in Seq(Int) BY RowFacts
  <2>4. c[1] = t /\ c[2] = n BY <2>2
  <2>5. Score(c) = s[n] BY <2>4, Zenon DEF Score
  <2> HIDE DEF s
  <2>6. s[n] \in Int BY <2>2, <2>3
  <2> QED BY <2>5, <2>6
<1>3. C = {c \in ScoresOf(log, S) : Score(c) >= 0} BY <1>1, <1>2, Buckets
<1>4. IsFiniteSet(C)
  <2>1. C \in SUBSET ScoresOf(log, S) BY <1>3
  <2>2. S \in SUBSET S OBVIOUS
  <2>3. IsFiniteSet(ScoresOf(log, S)) BY <2>2, ScoredGrows
  <2> HIDE DEF C, S
  <2> QED BY <2>1, <2>3, FS_Subset
<1>5. Cardinality(C) = ScoredOf(log, S) BY <1>3, Zenon DEF ScoredOf, Score
<1>6. ScoreBuckets = Tally(C, LAMBDA c : Bucket(Score(c))) BY Zenon DEF ScoreBuckets
<1> HIDE DEF C
<1>7. DOMAIN h = C OBVIOUS
<1>8. Tally(C, LAMBDA c : Bucket(Score(c))) = ByKey(C, h) BY DEF Tally, ByKey
<1> HIDE DEF h
<1>9. AddUp(ByKey(C, h)) = Cardinality(C) BY <1>4, <1>7, CountedByKey
<1> QED BY <1>5, <1>6, <1>8, <1>9 DEF S

\* The tokens of the days are those of the period.
LEMMA DaysHaveTokens ==
  ASSUME AreRows(log, InRange)
  PROVE  AddUp([d \in {Day(t) : t \in InRange} |-> Tokens({t \in InRange : Day(t) = d})])
           = TokensOf(log, InRange)
<1> DEFINE S == InRange
           w == [t \in S |-> log[t].tokens]
           key == [t \in S |-> Day(t)]
<1>1. IsFiniteSet(S) BY InRangeFacts, TimesFinite
<1>2. w \in [S -> Nat] BY RowFacts
<1>3. DOMAIN key = S OBVIOUS
<1>4. AddUp([d \in {key[t] : t \in S} |-> AddUp([t \in {u \in S : key[u] = d} |-> w[t]])])
        = AddUp([t \in S |-> w[t]])
  <2> HIDE DEF S, w, key
  <2> QED BY <1>1, <1>2, <1>3, AddedUpByKey
<1>5. {key[t] : t \in S} = {Day(t) : t \in S}
  <2> HIDE DEF S
  <2> QED OBVIOUS
<1>6. ASSUME NEW d
      PROVE  AddUp([t \in {u \in S : key[u] = d} |-> w[t]]) = Tokens({t \in S : Day(t) = d})
  <2> HIDE DEF S
  <2>1. {u \in S : key[u] = d} = {t \in S : Day(t) = d} OBVIOUS
  <2>2. [t \in {u \in S : key[u] = d} |-> w[t]]
          = [t \in {u \in S : Day(u) = d} |-> log[t].tokens]
    BY <2>1
  <2> QED BY <2>2, Zenon DEF Tokens
<1>7. AddUp([t \in S |-> w[t]]) = TokensOf(log, S) BY Zenon DEF TokensOf, w
<1> HIDE DEF S, w, key
<1>8. [d \in {key[t] : t \in S} |-> AddUp([t \in {u \in S : key[u] = d} |-> w[t]])]
        = [d \in {Day(t) : t \in S} |-> Tokens({t \in S : Day(t) = d})]
  BY <1>5, <1>6
<1> QED BY <1>4, <1>7, <1>8 DEF S

\* The numbers that several sections have
Kinds == {"of", "tokens", "longest"}

\* The number of a kind that an answer gives, and what it is for the rows S of the log l
Gives(a, field) == IF field = "of" THEN AddUp(a.of) ELSE a[field]
Worth(l, field, S) ==
  CASE field = "of"     -> Cardinality(S)
    [] field = "tokens" -> TokensOf(l, S)
    [] OTHER            -> LongestOf(l, S)

\* Rows S in the slot s, and in the cell c of the heat map
InSlot(S, s) == {t \in S : Slot(t) = s}
Cell(s)      == <<(s \div HoursPerDay) % DaysPerWeek, s % HoursPerDay>>
InCell(S, c) == {t \in S : Cell(Slot(t)) = c}

\* What an answer says of the rows S of the log l.
Tells(a, statement, l, S) ==
  /\ \A field \in Kinds \cap DOMAIN a : Gives(a, field) = Worth(l, field, S)
  /\ statement = "by_hour" =>
       a.of = [s \in {Slot(t) : t \in S} |-> Cardinality(InSlot(S, s))]
  /\ statement = "heatmap" =>
       \A t \in S : a.of[Cell(Slot(t))] = Cardinality(InCell(S, Cell(Slot(t))))
  /\ statement = "latency" => \A ms \in a.ms : ms \in 0..LongestOf(l, S)
  /\ statement = "scores"  => a.scored = ScoredOf(l, S)
  /\ statement = "slowest" => "longest" \in DOMAIN a
  /\ statement = "low"     => a.low \in 0..Cardinality(S)

\* An answer with the number of its rows alone.
LEMMA VolumesTell ==
  ASSUME NEW f, AddUp(f) = Cardinality(InRange), NEW a, a = [of |-> f]
  PROVE  \A field \in Kinds \cap DOMAIN a : Gives(a, field) = Worth(log, field, InRange)
<1>1. DOMAIN a = {"of"} /\ a.of = f OBVIOUS
<1> SUFFICES ASSUME NEW field \in DOMAIN a
             PROVE  Gives(a, field) = Worth(log, field, InRange)
  OBVIOUS
<1>2. field = "of" BY <1>1
<1> QED BY <1>1, <1>2, Zenon DEF Gives, Worth

\* The summary has all three.
LEMMA TotalsTell ==
  \A field \in Kinds \cap DOMAIN Totals : Gives(Totals, field) = Worth(log, field, InRange)
<1> DEFINE S == InRange
           f == Tally(S, LAMBDA t : log[t].source)
<1>1. Totals = [of |-> f, tokens |-> Tokens(S), longest |-> Longest(S)] BY Zenon DEF Totals
<1>2. AddUp(f) = Cardinality(S) BY GroupsHaveRows
<1>3. Tokens(S) = TokensOf(log, S) /\ Longest(S) = LongestOf(log, S) BY OfTheLog
<1> HIDE DEF f, S
<1>4. Totals.of = f /\ Totals["tokens"] = Tokens(S) /\ Totals["longest"] = Longest(S)
  BY <1>1
<1>5. Gives(Totals, "of") = Worth(log, "of", S) BY <1>2, <1>4, Zenon DEF Gives, Worth
<1>6. Gives(Totals, "tokens") = Worth(log, "tokens", S)
  <2>1. "tokens" # "of" OBVIOUS
  <2>2. Gives(Totals, "tokens") = Tokens(S) BY <1>4, <2>1, Zenon DEF Gives
  <2>3. Worth(log, "tokens", S) = TokensOf(log, S) BY DEF Worth
  <2> QED BY <1>3, <2>2, <2>3
<1>7. Gives(Totals, "longest") = Worth(log, "longest", S)
  <2>1. "longest" # "of" /\ "longest" # "tokens" OBVIOUS
  <2>2. Gives(Totals, "longest") = Longest(S) BY <1>4, <2>1, Zenon DEF Gives
  <2>3. Worth(log, "longest", S) = LongestOf(log, S) BY <2>1 DEF Worth
  <2> QED BY <1>3, <2>2, <2>3
<1>8. \A field \in Kinds : Gives(Totals, field) = Worth(log, field, S)
  BY <1>5, <1>6, <1>7, Zenon DEF Kinds
<1> QED BY <1>8, Zenon DEF S

\* Each statement tells of the rows there are when it runs.
LEMMA AnswersTell ==
  ASSUME AreRows(log, InRange), NEW statement, NEW a \in Answer(statement),
         statement \in {"summary", "by_day", "by_hour", "heatmap", "latency", "tokens",
                        "scores", "words", "slowest", "stats", "low"}
  PROVE  Tells(a, statement, log, InRange)
<1> DEFINE S == InRange
<1>1. CASE statement \in {"summary", "stats"}
  <2>1. a = Totals BY <1>1 DEF Answer
  <2> QED BY <1>1, <2>1, TotalsTell DEF Tells
<1>2. CASE statement = "by_day"
  <2> DEFINE f == Tally(S, LAMBDA t : <<Day(t), log[t].source>>)
  <2>1. a = [of |-> f] BY <1>2 DEF Answer, Volumes
  <2>2. AddUp(f) = Cardinality(S) BY GroupsHaveRows
  <2> HIDE DEF f
  <2>3. \A field \in Kinds \cap DOMAIN a : Gives(a, field) = Worth(log, field, InRange)
    BY <2>1, <2>2, VolumesTell
  <2> QED BY <1>2, <2>3 DEF Tells
<1>3. CASE statement = "by_hour"
  <2> DEFINE f == Tally(S, Slot)
  <2>1. a = [of |-> f] BY <1>3 DEF Answer, Volumes
  <2>2. AddUp(f) = Cardinality(S) BY GroupsHaveRows
  <2>3. f = [s \in {Slot(t) : t \in S} |-> Cardinality(InSlot(S, s))] BY DEF Tally, InSlot
  <2> HIDE DEF f
  <2>4. \A field \in Kinds \cap DOMAIN a : Gives(a, field) = Worth(log, field, InRange)
    BY <2>1, <2>2, VolumesTell
  <2>5. a.of = f BY <2>1
  <2> QED BY <1>3, <2>3, <2>4, <2>5 DEF Tells
<1>4. CASE statement = "heatmap"
  <2> DEFINE f == Heatmap
             c(t) == <<Day(t) % DaysPerWeek, Slot(t) % HoursPerDay>>
  <2>1. a = [of |-> f] BY <1>4 DEF Answer
  <2>2. AddUp(f) = Cardinality(S) BY GroupsHaveRows
  <2>3. ASSUME NEW t PROVE c(t) = Cell(Slot(t)) BY Zenon DEF Cell, Day
  <2>4. f = [g \in {c(t) : t \in S} |-> Cardinality({t \in S : c(t) = g})]
    BY DEF Heatmap, Tally
  <2> HIDE DEF f, c
  <2>5. \A t \in S : f[c(t)] = Cardinality({u \in S : c(u) = c(t)})
    <3> HIDE DEF S
    <3> QED BY <2>4
  <2>6. ASSUME NEW t \in S PROVE f[Cell(Slot(t))] = Cardinality(InCell(S, Cell(Slot(t))))
    <3>1. {u \in S : c(u) = c(t)} = InCell(S, Cell(Slot(t)))
      <4> HIDE DEF S
      <4> QED BY <2>3 DEF InCell
    <3> QED BY <2>3, <2>5, <3>1, Zenon
  <2>7. \A field \in Kinds \cap DOMAIN a : Gives(a, field) = Worth(log, field, InRange)
    BY <2>1, <2>2, VolumesTell
  <2>8. a.of = f BY <2>1
  <2> QED BY <1>4, <2>6, <2>7, <2>8 DEF Tells
<1>5. CASE statement = "latency"
  <2>1. a = [ms |-> {log[t].ms : t \in Newest(Timed(S), SeriesRows)}] BY <1>5 DEF Answer
  <2>2. DOMAIN a = {"ms"} /\ a.ms = {log[t].ms : t \in Newest(Timed(S), SeriesRows)}
    BY <2>1
  <2>3. Newest(Timed(S), SeriesRows) \in SUBSET TimedOf(log, S)
    BY OfTheLog DEF Newest
  <2>4. /\ LongestOf(log, S) \in Nat
        /\ \A t \in TimedOf(log, S) : log[t].ms \in Nat /\ log[t].ms <= LongestOf(log, S)
    BY LongestFacts
  <2>5. \A ms \in a.ms : ms \in 0..LongestOf(log, S) BY <2>2, <2>3, <2>4
  <2>6. Kinds \cap DOMAIN a = {} BY <2>2 DEF Kinds
  <2> QED BY <1>5, <2>5, <2>6 DEF Tells
<1>6. CASE statement = "tokens"
  <2> DEFINE n == AddUp([d \in {Day(t) : t \in S} |-> Tokens({t \in S : Day(t) = d})])
  <2>1. a = [tokens |-> n] BY <1>6 DEF Answer
  <2>2. n = TokensOf(log, S) BY DaysHaveTokens
  <2> HIDE DEF n
  <2>3. DOMAIN a = {"tokens"} /\ a["tokens"] = n BY <2>1
  <2>4. "tokens" # "of" OBVIOUS
  <2>5. Gives(a, "tokens") = n BY <2>3, <2>4, Zenon DEF Gives
  <2>6. Worth(log, "tokens", S) = TokensOf(log, S) BY DEF Worth
  <2>7. \A field \in Kinds \cap DOMAIN a : Gives(a, field) = Worth(log, field, S)
    BY <2>2, <2>3, <2>5, <2>6
  <2> QED BY <1>6, <2>7 DEF Tells
<1>7. CASE statement = "scores"
  <2> DEFINE n == AddUp(ScoreBuckets)
  <2>1. a = [scored |-> n] BY <1>7 DEF Answer
  <2>2. n = ScoredOf(log, S) BY BucketsHaveScores
  <2> HIDE DEF n
  <2>3. DOMAIN a = {"scored"} /\ a.scored = n BY <2>1
  <2>4. Kinds \cap DOMAIN a = {} BY <2>3 DEF Kinds
  <2> QED BY <1>7, <2>2, <2>3, <2>4 DEF Tells
<1>8. CASE statement = "words"
  <2> DEFINE f == Tally(S, LAMBDA t : WordLabel(log[t].words))
  <2>1. a = [of |-> f] BY <1>8 DEF Answer, Volumes
  <2>2. AddUp(f) = Cardinality(S) BY GroupsHaveRows
  <2> HIDE DEF f
  <2>3. \A field \in Kinds \cap DOMAIN a : Gives(a, field) = Worth(log, field, InRange)
    BY <2>1, <2>2, VolumesTell
  <2> QED BY <1>8, <2>3 DEF Tells
<1>9. CASE statement = "slowest"
  <2>1. a \in {[longest |-> Longest(T)] : T \in {R \in SUBSET S : Slowest(R)}}
    BY <1>9 DEF Answer
  <2>2. PICK T \in SUBSET S : Slowest(T) /\ a = [longest |-> Longest(T)] BY <2>1
  <2>3. Longest(T) = Longest(S) BY <2>2, SlowestHaveLongest
  <2>4. Longest(S) = LongestOf(log, S) BY OfTheLog
  <2>5. DOMAIN a = {"longest"} /\ a["longest"] = Longest(T) BY <2>2
  <2>6. "longest" # "of" /\ "longest" # "tokens" OBVIOUS
  <2>7. Gives(a, "longest") = Longest(T) BY <2>5, <2>6, Zenon DEF Gives
  <2>8. Worth(log, "longest", S) = LongestOf(log, S) BY <2>6 DEF Worth
  <2>9. \A field \in Kinds \cap DOMAIN a : Gives(a, field) = Worth(log, field, S)
    BY <2>3, <2>4, <2>5, <2>7, <2>8
  <2> QED BY <1>9, <2>5, <2>9 DEF Tells
<1>10. CASE statement = "low"
  <2> DEFINE L == {t \in Newest(WithChunks, LowRows) : IsLow(t)}
  <2>1. a = [low |-> Cardinality(L)] BY <1>10 DEF Answer
  <2>2. L \in SUBSET S BY DEF Newest, WithChunks
  <2>3. IsFiniteSet(S) BY InRangeFacts, TimesFinite
  <2> HIDE DEF L, S
  <2>4. Cardinality(L) \in 0..Cardinality(S)
    <3>1. IsFiniteSet(L) /\ Cardinality(L) <= Cardinality(S) BY <2>2, <2>3, FS_Subset
    <3>2. Cardinality(L) \in Nat /\ Cardinality(S) \in Nat BY <2>3, <3>1, FS_CardinalityType
    <3> QED BY <3>1, <3>2
  <2>5. DOMAIN a = {"low"} /\ a.low = Cardinality(L) BY <2>1
  <2>6. Kinds \cap DOMAIN a = {} BY <2>5 DEF Kinds
  <2> QED BY <1>10, <2>4, <2>5, <2>6 DEF Tells, S
<1> QED BY <1>1, <1>2, <1>3, <1>4, <1>5, <1>6, <1>7, <1>8, <1>9, <1>10

-----------------------------------------------------------------------------
(* Sections that are read one after the other.                               *)

\* Sections g with a number of a kind
Has(g, field) == {k \in DOMAIN g : field \in DOMAIN g[k]}

\* Numbers of a kind never fall, and they lie between those for the rows b that were
\* there at the beginning and those for the rows S there are now.
Rising(g) ==
  \A field \in Kinds : \A j, k \in Has(g, field) : j <= k => Gives(g[j], field) <= Gives(g[k], field)
Between(l, g, b, S) ==
  \A field \in Kinds : \A k \in Has(g, field) :
    Gives(g[k], field) \in Worth(l, field, b)..Worth(l, field, S)

\* The slots have no more rows than now, and then no more than their cells.
SlotsTold(g, S) ==
  \A s \in DOMAIN g[3].of : s \in {Slot(t) : t \in S} /\ g[3].of[s] \in 0..Cardinality(InSlot(S, s))
CellsTold(g) == \A s \in DOMAIN g[3].of : g[3].of[s] <= g[4].of[Cell(s)]

\* The series has no longer time than there is now.
SeriesTold(l, g, S) == \A ms \in g[5].ms : ms \in 0..LongestOf(l, S)

\* What n sections g of the page p have told, of rows b at the beginning and S now
Told(l, g, n, p, b, S) ==
  /\ Rising(g) /\ Between(l, g, b, S)
  /\ p = "analytics" =>
       /\ n = 3 => SlotsTold(g, S)
       /\ n > 3 => CellsTold(g)
       /\ n \in 5..8 => SeriesTold(l, g, S)
       /\ n = 9 => \A ms \in g[5].ms : ms <= g[9].longest
       /\ n > 6 => g[7].scored >= ScoredOf(l, b)
  /\ p = "recommendations" /\ n = 2 => g[2].low \in 0..Cardinality(S)

\* The sections of a page tell of one log whose rows only become more.
SectionsSoFar ==
  page \in DOMAIN Statements /\ ~emptied =>
    before \subseteq InRange /\ Told(log, got, Len(got), page, before, InRange)

\* The rows are numbers of all kinds.
LEMMA WorthFacts ==
  ASSUME NEW l, NEW S, AreRows(l, S), NEW X \in SUBSET S, NEW field \in Kinds
  PROVE  /\ Worth(l, field, X) \in Int /\ Worth(l, field, S) \in Int
         /\ Worth(l, field, X) <= Worth(l, field, S)
<1>1. AreRows(l, X) BY DEF AreRows
<1>2. CASE field = "of"
  <2>1. Worth(l, field, X) = Cardinality(X) /\ Worth(l, field, S) = Cardinality(S)
    BY <1>2, Zenon DEF Worth
  <2>2. X \in SUBSET Times /\ S \in SUBSET Times BY DEF AreRows
  <2>3. Cardinality(X) \in Nat /\ Cardinality(S) \in Nat /\ IsFiniteSet(S)
    BY <2>2, TimesFinite
  <2>4. Cardinality(X) <= Cardinality(S) BY <2>3, FS_Subset
  <2> QED BY <2>1, <2>3, <2>4
<1>3. CASE field = "tokens"
  <2>1. Worth(l, field, X) = TokensOf(l, X) /\ Worth(l, field, S) = TokensOf(l, S)
    <3>1. "tokens" # "of" OBVIOUS
    <3> QED BY <1>3, <3>1 DEF Worth
  <2>2. S \in SUBSET S OBVIOUS
  <2> QED BY <2>1, <2>2, TokensGrow
<1>4. CASE field = "longest"
  <2>1. Worth(l, field, X) = LongestOf(l, X) /\ Worth(l, field, S) = LongestOf(l, S)
    <3>1. "longest" # "of" /\ "longest" # "tokens" OBVIOUS
    <3> QED BY <1>4, <3>1 DEF Worth
  <2>2. LongestOf(l, X) \in Nat /\ LongestOf(l, S) \in Nat BY <1>1, LongestFacts
  <2> QED BY <2>1, <2>2, LongestGrows
<1> QED BY <1>2, <1>3, <1>4 DEF Kinds

\* Of rows the log still has as they were they are the same.
LEMMA WorthStays ==
  ASSUME NEW l, NEW m, NEW S, \A t \in S : m[t] = l[t], NEW field \in Kinds
  PROVE  Worth(m, field, S) = Worth(l, field, S)
<1>1. TokensOf(m, S) = TokensOf(l, S) /\ LongestOf(m, S) = LongestOf(l, S) BY OldRowsStay
<1> QED BY <1>1 DEF Worth

\* What was told stays true when rows arrive.
LEMMA ToldOfMore ==
  ASSUME NEW l, NEW m, NEW g, NEW n, NEW p, NEW b, NEW S, NEW R,
         AreRows(m, R), b \in SUBSET S, S \in SUBSET R, \A t \in S : m[t] = l[t],
         Told(l, g, n, p, b, S)
  PROVE  Told(m, g, n, p, b, R)
<1>1. Rising(g) /\ Between(l, g, b, S) BY DEF Told
<1>2. \A t \in b : m[t] = l[t] OBVIOUS
<1>3. Between(m, g, b, R)
  <2> SUFFICES ASSUME NEW field \in Kinds, NEW k \in Has(g, field)
               PROVE  Gives(g[k], field) \in Worth(m, field, b)..Worth(m, field, R)
    BY DEF Between
  <2>1. Gives(g[k], field) \in Worth(l, field, b)..Worth(l, field, S) BY <1>1 DEF Between
  <2>2. Worth(m, field, b) = Worth(l, field, b) BY <1>2, WorthStays
  <2>3. Worth(m, field, S) = Worth(l, field, S) BY WorthStays
  <2>4. Worth(m, field, S) \in Int /\ Worth(m, field, R) \in Int
        /\ Worth(m, field, S) <= Worth(m, field, R)
    BY WorthFacts
  <2>5. Worth(m, field, b) \in Int
    <3>1. b \in SUBSET R OBVIOUS
    <3> QED BY <3>1, WorthFacts
  <2> QED BY <2>1, <2>2, <2>3, <2>4, <2>5
<1>4. R \in SUBSET Times BY DEF AreRows
<1>5. ASSUME SlotsTold(g, S) PROVE SlotsTold(g, R)
  <2> SUFFICES ASSUME NEW s \in DOMAIN g[3].of
               PROVE  s \in {Slot(t) : t \in R} /\ g[3].of[s] \in 0..Cardinality(InSlot(R, s))
    BY DEF SlotsTold
  <2>1. s \in {Slot(t) : t \in S} /\ g[3].of[s] \in 0..Cardinality(InSlot(S, s))
    BY <1>5 DEF SlotsTold
  <2>2. InSlot(S, s) \in SUBSET InSlot(R, s) /\ InSlot(R, s) \in SUBSET Times
    BY <1>4 DEF InSlot
  <2>3. InSlot(S, s) \in SUBSET Times BY <2>2
  <2>4. /\ IsFiniteSet(InSlot(R, s)) /\ Cardinality(InSlot(R, s)) \in Nat
        /\ Cardinality(InSlot(S, s)) \in Nat
    BY <2>2, <2>3, TimesFinite
  <2>5. Cardinality(InSlot(S, s)) <= Cardinality(InSlot(R, s)) BY <2>2, <2>4, FS_Subset
  <2>6. s \in {Slot(t) : t \in R} BY <2>1
  <2> QED BY <2>1, <2>4, <2>5, <2>6
<1>6. ASSUME SeriesTold(l, g, S) PROVE SeriesTold(m, g, R)
  <2>1. LongestOf(m, S) = LongestOf(l, S) BY OldRowsStay
  <2>2. AreRows(m, S) BY DEF AreRows
  <2>3. LongestOf(m, S) \in Nat /\ LongestOf(m, R) \in Nat BY <2>2, LongestFacts
  <2>4. LongestOf(m, S) <= LongestOf(m, R) BY LongestGrows
  <2> QED BY <1>6, <2>1, <2>3, <2>4 DEF SeriesTold
<1>7. ScoredOf(m, b) = ScoredOf(l, b) BY <1>2, OldRowsStay
<1>8. ASSUME g[2].low \in 0..Cardinality(S) PROVE g[2].low \in 0..Cardinality(R)
  <2>1. S \in SUBSET Times BY <1>4
  <2>2. IsFiniteSet(R) /\ Cardinality(R) \in Nat /\ Cardinality(S) \in Nat
    BY <1>4, <2>1, TimesFinite
  <2>3. Cardinality(S) <= Cardinality(R) BY <2>2, FS_Subset
  <2> QED BY <1>8, <2>2, <2>3
<1> QED BY <1>1, <1>3, <1>5, <1>6, <1>7, <1>8 DEF Told

\* The statements whose answers are compared
LEMMA StatementNames ==
  /\ Len(Statements["analytics"]) = 9 /\ Len(Statements["recommendations"]) = 2
  /\ Statements["analytics"][3] = "by_hour" /\ Statements["analytics"][4] = "heatmap"
  /\ Statements["analytics"][5] = "latency" /\ Statements["analytics"][7] = "scores"
  /\ Statements["analytics"][9] = "slowest" /\ Statements["recommendations"][2] = "low"
  /\ \A p \in DOMAIN Statements : \A n \in 1..Len(Statements[p]) :
       Statements[p][n] \in {"summary", "by_day", "by_hour", "heatmap", "latency", "tokens",
                             "scores", "words", "slowest", "stats", "low"}
<1>1. /\ Statements["analytics"] = <<"summary", "by_day", "by_hour", "heatmap", "latency",
                                     "tokens", "scores", "words", "slowest">>
      /\ Statements["recommendations"] = <<"stats", "low">>
      /\ DOMAIN Statements = {"analytics", "recommendations"}
  BY DEF Statements
<1>2. Len(Statements["analytics"]) = 9 /\ Len(Statements["recommendations"]) = 2 BY <1>1
<1> DEFINE N == {"summary", "by_day", "by_hour", "heatmap", "latency", "tokens",
                 "scores", "words", "slowest", "stats", "low"}
<1>3. \A n \in 1..9 : Statements["analytics"][n] \in N
  <2>1. \A n \in 1..9 : n \in {1, 2, 3, 4, 5, 6, 7, 8, 9} OBVIOUS
  <2> QED BY <1>1, <2>1
<1>4. \A n \in 1..2 : Statements["recommendations"][n] \in N
  <2>1. \A n \in 1..2 : n \in {1, 2} OBVIOUS
  <2> QED BY <1>1, <2>1
<1> HIDE DEF N
<1>5. \A p \in DOMAIN Statements : p = "analytics" \/ p = "recommendations" BY <1>1
<1>6. \A p \in DOMAIN Statements : \A n \in 1..Len(Statements[p]) : Statements[p][n] \in N
  BY <1>2, <1>3, <1>4, <1>5, Zenon
<1> QED BY <1>1, <1>2, <1>6 DEF N

\* The next section tells of the rows there are now.
LEMMA ToldOneMore ==
  ASSUME NEW l, NEW g, NEW h, NEW n \in Nat, NEW p, NEW b, NEW S,
         AreRows(l, S), b \in SUBSET S,
         DOMAIN g = 1..n, DOMAIN h = 1..(n + 1), \A k \in 1..n : h[k] = g[k],
         p \in DOMAIN Statements, n < Len(Statements[p]),
         Tells(h[n + 1], Statements[p][n + 1], l, S), Told(l, g, n, p, b, S)
  PROVE  Told(l, h, n + 1, p, b, S)
<1> DEFINE a == h[n + 1]
           st == Statements[p][n + 1]
<1>1. \A field \in Kinds \cap DOMAIN a : Gives(a, field) = Worth(l, field, S) BY DEF Tells
<1>2. Rising(g) /\ Between(l, g, b, S) BY DEF Told
<1>3. ASSUME NEW field \in Kinds, NEW k \in Has(h, field)
      PROVE  \/ k = n + 1 /\ Gives(h[k], field) = Worth(l, field, S)
             \/ k \in 1..n /\ k \in Has(g, field) /\ Gives(h[k], field) = Gives(g[k], field)
  <2>1. k \in 1..(n + 1) /\ field \in DOMAIN h[k] BY DEF Has
  <2>2. CASE k = n + 1 BY <1>1, <2>1, <2>2
  <2>3. CASE k # n + 1
    <3>1. k \in 1..n BY <2>1, <2>3
    <3>2. h[k] = g[k] BY <3>1
    <3>3. k \in Has(g, field) BY <2>1, <3>1, <3>2 DEF Has
    <3> QED BY <3>1, <3>2, <3>3
  <2> QED BY <2>2, <2>3
<1>4. ASSUME NEW field \in Kinds
      PROVE  /\ Worth(l, field, b) \in Int /\ Worth(l, field, S) \in Int
             /\ Worth(l, field, b) <= Worth(l, field, S)
  BY WorthFacts
<1>5. ASSUME NEW field \in Kinds, NEW k \in Has(h, field)
      PROVE  Gives(h[k], field) \in Worth(l, field, b)..Worth(l, field, S)
  <2>1. CASE k = n + 1 /\ Gives(h[k], field) = Worth(l, field, S) BY <1>4, <2>1
  <2>2. CASE k \in 1..n /\ k \in Has(g, field) /\ Gives(h[k], field) = Gives(g[k], field)
    BY <1>2, <2>2 DEF Between
  <2> QED BY <1>3, <2>1, <2>2
<1>6. Between(l, h, b, S) BY <1>5 DEF Between
<1>7. Rising(h)
  <2> SUFFICES ASSUME NEW field \in Kinds, NEW j \in Has(h, field), NEW k \in Has(h, field),
                      j <= k
               PROVE  Gives(h[j], field) <= Gives(h[k], field)
    BY DEF Rising
  <2>1. CASE k = n + 1 /\ Gives(h[k], field) = Worth(l, field, S)
    BY <1>4, <1>5, <2>1
  <2>2. CASE k \in 1..n /\ k \in Has(g, field) /\ Gives(h[k], field) = Gives(g[k], field)
    <3>1. j # n + 1 BY <2>2
    <3>2. j \in Has(g, field) /\ Gives(h[j], field) = Gives(g[j], field) BY <1>3, <3>1
    <3> QED BY <1>2, <2>2, <3>2 DEF Rising
  <2> QED BY <1>3, <2>1, <2>2
<1>8. S \in SUBSET Times BY DEF AreRows
<1>9. ASSUME p = "analytics", n + 1 = 3 PROVE SlotsTold(h, S)
  <2>1. st = "by_hour" BY <1>9, StatementNames
  <2>2. a.of = [s \in {Slot(t) : t \in S} |-> Cardinality(InSlot(S, s))] BY <2>1 DEF Tells
  <2>3. \A s : Cardinality(InSlot(S, s)) \in Nat
    <3>1. \A s : InSlot(S, s) \in SUBSET Times BY <1>8 DEF InSlot
    <3> QED BY <3>1, TimesFinite
  <2>4. h[3] = a BY <1>9
  <2> HIDE DEF a
  <2> QED BY <2>2, <2>3, <2>4 DEF SlotsTold
<1>10. ASSUME p = "analytics", n + 1 > 3 PROVE CellsTold(h)
  <2>1. CASE n + 1 = 4
    <3>1. st = "heatmap" /\ h[3] = g[3] /\ h[4] = a BY <1>10, <2>1, StatementNames
    <3>2. \A t \in S : a.of[Cell(Slot(t))] = Cardinality(InCell(S, Cell(Slot(t))))
      BY <3>1 DEF Tells
    <3>3. SlotsTold(g, S)
      <4>1. n = 3 BY <2>1
      <4> QED BY <1>10, <4>1 DEF Told
    <3> SUFFICES ASSUME NEW s \in DOMAIN g[3].of PROVE g[3].of[s] <= a.of[Cell(s)]
      BY <3>1 DEF CellsTold
    <3>4. s \in {Slot(t) : t \in S} /\ g[3].of[s] \in 0..Cardinality(InSlot(S, s))
      BY <3>3 DEF SlotsTold
    <3>5. PICK t \in S : s = Slot(t) BY <3>4
    <3>6. a.of[Cell(s)] = Cardinality(InCell(S, Cell(s))) BY <3>2, <3>5
    <3>7. InSlot(S, s) \in SUBSET InCell(S, Cell(s)) BY DEF InSlot, InCell
    <3>8. InSlot(S, s) \in SUBSET Times /\ InCell(S, Cell(s)) \in SUBSET Times
      BY <1>8 DEF InSlot, InCell
    <3>9. /\ IsFiniteSet(InCell(S, Cell(s))) /\ Cardinality(InCell(S, Cell(s))) \in Nat
          /\ Cardinality(InSlot(S, s)) \in Nat
      BY <3>8, TimesFinite
    <3>10. Cardinality(InSlot(S, s)) <= Cardinality(InCell(S, Cell(s)))
      BY <3>7, <3>9, FS_Subset
    <3> HIDE DEF a
    <3> QED BY <3>4, <3>6, <3>9, <3>10
  <2>2. CASE n + 1 # 4
    <3>1. n > 3 /\ 3 \in 1..n /\ 4 \in 1..n BY <1>10, <2>2
    <3>2. h[3] = g[3] /\ h[4] = g[4] BY <3>1
    <3>3. CellsTold(g) BY <1>10, <3>1 DEF Told
    <3> QED BY <3>2, <3>3 DEF CellsTold
  <2> QED BY <2>1, <2>2
<1>11. ASSUME p = "analytics", n + 1 \in 5..8 PROVE SeriesTold(l, h, S)
  <2>1. CASE n + 1 = 5
    <3>1. st = "latency" /\ h[5] = a BY <1>11, <2>1, StatementNames
    <3>2. \A ms \in a.ms : ms \in 0..LongestOf(l, S) BY <3>1 DEF Tells
    <3> QED BY <3>1, <3>2 DEF SeriesTold
  <2>2. CASE n + 1 # 5
    <3>1. n \in 5..8 /\ 5 \in 1..n BY <1>11, <2>2
    <3>2. SeriesTold(l, g, S) /\ h[5] = g[5] BY <1>11, <3>1 DEF Told
    <3> QED BY <3>2 DEF SeriesTold
  <2> QED BY <2>1, <2>2
<1>12. ASSUME p = "analytics", n + 1 = 9 PROVE \A ms \in h[5].ms : ms <= h[9].longest
  <2>1. st = "slowest" /\ h[9] = a BY <1>12, StatementNames
  <2>2. "longest" \in DOMAIN a BY <2>1 DEF Tells
  <2>3. "longest" \in Kinds BY DEF Kinds
  <2>4. Gives(a, "longest") = Worth(l, "longest", S) BY <1>1, <2>2, <2>3
  <2>5. "longest" # "of" /\ "longest" # "tokens" OBVIOUS
  <2>6. Worth(l, "longest", S) = LongestOf(l, S) BY <2>5 DEF Worth
  <2>7. Gives(a, "longest") = a.longest BY <2>5, Zenon DEF Gives
  <2>8. n = 8 /\ 5 \in 1..n BY <1>12
  <2>9. SeriesTold(l, g, S) /\ h[5] = g[5] BY <1>12, <2>8 DEF Told
  <2>10. \A ms \in h[5].ms : ms \in 0..LongestOf(l, S) BY <2>9 DEF SeriesTold
  <2>11. h[9].longest = LongestOf(l, S) BY <2>1, <2>4, <2>6, <2>7
  <2> QED BY <2>10, <2>11
<1>13. ASSUME p = "analytics", n + 1 > 6 PROVE h[7].scored >= ScoredOf(l, b)
  <2>1. CASE n + 1 = 7
    <3>1. st = "scores" /\ h[7] = a BY <1>13, <2>1, StatementNames
    <3>2. a.scored = ScoredOf(l, S) BY <3>1 DEF Tells
    <3>3. ScoredOf(l, b) \in Nat /\ ScoredOf(l, b) <= ScoredOf(l, S) BY ScoredGrows
    <3>4. ScoredOf(l, S) \in Nat
      <4>1. S \in SUBSET S OBVIOUS
      <4> QED BY <4>1, ScoredGrows
    <3> QED BY <3>1, <3>2, <3>3, <3>4
  <2>2. CASE n + 1 # 7
    <3>1. n > 6 /\ 7 \in 1..n BY <1>13, <2>2
    <3>2. g[7].scored >= ScoredOf(l, b) /\ h[7] = g[7] BY <1>13, <3>1 DEF Told
    <3> QED BY <3>2
  <2> QED BY <2>1, <2>2
<1>14. ASSUME p = "recommendations", n + 1 = 2 PROVE h[2].low \in 0..Cardinality(S)
  <2>1. st = "low" /\ h[2] = a BY <1>14, StatementNames
  <2> QED BY <2>1 DEF Tells
<1> QED BY <1>6, <1>7, <1>9, <1>10, <1>11, <1>12, <1>13, <1>14, Zenon DEF Told

\* What is logged in the period are rows.
LEMMA RowsInRange == Typed => AreRows(log, InRange)
<1>1. Typed => \A t \in InRange : log[t] \in Rows BY DEF Typed, InRange, Logged
<1> QED BY <1>1, InRangeFacts DEF AreRows

\* A page that is asked for has told nothing yet.
LEMMA NothingTold ==
  ASSUME NEW l, NEW g, DOMAIN g = {}, NEW p, NEW b, NEW S
  PROVE  Told(l, g, 0, p, b, S)
<1>1. \A field \in Kinds : Has(g, field) = {} BY DEF Has
<1> QED BY <1>1 DEF Told, Rising, Between

\* An answer more, by position.
LEMMA AppendPlaces ==
  ASSUME NEW s, NEW x, \E S : s \in Seq(S)
  PROVE  /\ DOMAIN s = 1..Len(s) /\ Len(s) \in Nat /\ Len(Append(s, x)) = Len(s) + 1
         /\ DOMAIN Append(s, x) = 1..(Len(s) + 1)
         /\ \A k \in 1..Len(s) : Append(s, x)[k] = s[k]
         /\ Append(s, x)[Len(s) + 1] = x
<1>1. PICK S : s \in Seq(S) OBVIOUS
<1>2. s \in Seq(S \cup {x}) BY <1>1
<1> QED BY <1>2

\* Every step keeps what was told.
LEMMA SectionsInductive == Typed /\ SectionsSoFar /\ [Next]_vars => SectionsSoFar'
<1> SUFFICES ASSUME Typed, SectionsSoFar, [Next]_vars, page' \in DOMAIN Statements, ~emptied'
             PROVE  /\ before' \subseteq InRange'
                    /\ Told(log', got', Len(got'), page', before', InRange')
  BY DEF SectionsSoFar
<1>1. AreRows(log, InRange) BY RowsInRange
<1>2. page' \in {"analytics", "recommendations"} BY StatementsDomain
<1>3. CASE UNCHANGED vars
  <2>1. UNCHANGED <<log, page, range, got, before, emptied>>
    BY <1>3 DEF vars, request, history
  <2>2. InRange' = InRange BY <2>1 DEF InRange, Logged
  <2>3. before \subseteq InRange /\ Told(log, got, Len(got), page, before, InRange)
    BY <2>1 DEF SectionsSoFar
  <2> QED BY <2>1, <2>2, <2>3
<1>4. CASE Ask
  <2>1. /\ got = <<>> /\ UNCHANGED <<log, got>>
        /\ before' = {t \in Logged : t \in range'[1]..range'[2]}
    BY <1>4 DEF Ask, Typed
  <2>2. before' = InRange' BY <2>1 DEF InRange, Logged
  <2>3. DOMAIN got' = {} /\ Len(got') = 0 BY <2>1
  <2>4. Told(log', got', 0, page', before', InRange') BY <2>3, NothingTold
  <2> QED BY <2>2, <2>3, <2>4
<1>5. CASE LogEntry
  <2>1. PICK t \in Times \ Logged, row \in Rows : log' = [log EXCEPT ![t] = row]
    BY <1>5 DEF LogEntry
  <2>2. UNCHANGED <<page, range, got, before, emptied>>
    BY <1>5 DEF LogEntry, request
  <2>3. before \subseteq InRange /\ Told(log, got, Len(got), page, before, InRange)
    BY <2>2 DEF SectionsSoFar
  <2>4. /\ log \in [Times -> Rows \cup {NoRow}] /\ log' \in [Times -> Rows \cup {NoRow}]
        /\ \A u \in Logged : log'[u] = log[u] /\ log[u] # NoRow /\ u \in Times
    BY <2>1 DEF Typed, Logged
  <2>5. \A u \in InRange : log'[u] = log[u] BY <2>4 DEF InRange
  <2>6. InRange \subseteq InRange' BY <2>2, <2>4 DEF InRange, Logged
  <2>7. AreRows(log', InRange')
    <3>1. \A u \in InRange' : log'[u] \in Rows BY <2>4 DEF InRange, Logged
    <3> QED BY <3>1, InRangeFacts DEF AreRows
  <2>8. Told(log', got, Len(got), page, before, InRange')
    BY <2>3, <2>5, <2>6, <2>7, ToldOfMore
  <2> QED BY <2>2, <2>3, <2>6, <2>8
<1>6. CASE DeleteTenantLog BY <1>6 DEF DeleteTenantLog
<1>7. CASE Read
  <2> DEFINE n == Len(got)
             st == Statements[page][n + 1]
  <2>1. PICK a \in Answer(st) : got' = Append(got, a) BY <1>7 DEF Read
  <2>2. /\ page \in DOMAIN Statements /\ ~done
        /\ UNCHANGED <<log, page, range, before, emptied>>
    BY <1>7 DEF Read, request, history
  <2>3. before \subseteq InRange /\ Told(log, got, n, page, before, InRange)
    BY <2>2 DEF SectionsSoFar
  <2>4. InRange' = InRange BY <2>2 DEF InRange, Logged
  <2>5. \E S : got \in Seq(S) BY DEF Typed
  <2>6. /\ DOMAIN got = 1..n /\ n \in Nat /\ Len(got') = n + 1
        /\ DOMAIN got' = 1..(n + 1) /\ got'[n + 1] = a
        /\ \A k \in 1..n : got'[k] = got[k]
    BY <2>1, <2>5, AppendPlaces
  <2>7. n < Len(Statements[page]) /\ Len(Statements[page]) \in Nat
    BY <2>2, <2>6, StatementsDomain DEF Typed
  <2>8. n + 1 \in 1..Len(Statements[page]) BY <2>6, <2>7
  <2>9. Tells(a, st, log, InRange)
    <3>1. st \in {"summary", "by_day", "by_hour", "heatmap", "latency", "tokens",
                  "scores", "words", "slowest", "stats", "low"}
      BY <2>2, <2>8, StatementNames
    <3> HIDE DEF st
    <3> QED BY <1>1, <2>1, <3>1, AnswersTell
  <2>10. Told(log, got', n + 1, page, before, InRange)
    <3> DEFINE h == got'
    <3>1. Tells(h[n + 1], Statements[page][n + 1], log, InRange) BY <2>6, <2>9
    <3>2. DOMAIN h = 1..(n + 1) /\ \A k \in 1..n : h[k] = got[k] BY <2>6
    <3> HIDE DEF h, n, st
    <3>3. Told(log, h, n + 1, page, before, InRange)
      BY <1>1, <2>2, <2>3, <2>6, <2>7, <3>1, <3>2, ToldOneMore
    <3> QED BY <3>3 DEF h
  <2> QED BY <2>2, <2>3, <2>4, <2>6, <2>10
<1>8. CASE GetInsights \/ GetGaplist
  BY <1>2, <1>8 DEF GetInsights, GetGaplist, Clustering, request
<1>9. CASE CountRows \/ ShowPage BY <1>2, <1>9 DEF CountRows, ShowPage, request
<1> QED BY <1>3, <1>4, <1>5, <1>6, <1>7, <1>8, <1>9 DEF Next

\* The property is what was told.
LEMMA SectionsAgree == Typed /\ SectionsSoFar => SectionsTellOneLog
<1> SUFFICES ASSUME Typed, SectionsSoFar, page \in DOMAIN Statements, ~emptied
             PROVE  SectionsTellOneLog
  BY DEF SectionsTellOneLog
<1>1. Told(log, got, Len(got), page, before, InRange) BY DEF SectionsSoFar
<1>2. Rising(got) /\ Between(log, got, before, InRange) BY <1>1 DEF Told
<1>3. \A field : Sections(field) = Has(got, field) BY DEF Sections, Has
<1>4. \A field, k : Number(field, k) = Gives(got[k], field) BY Zenon DEF Number, Gives
<1>5. \A field \in Kinds : \A j, k \in Sections(field) :
        j <= k => Number(field, j) <= Number(field, k)
  BY <1>2, <1>3, <1>4 DEF Rising
<1>6. \A field \in Kinds : \A k \in Sections(field) :
        Number(field, k) \in Worth(log, field, before)..Worth(log, field, InRange)
  BY <1>2, <1>3, <1>4 DEF Between
<1>7. \A S : /\ Worth(log, "of", S) = Cardinality(S) /\ Worth(log, "tokens", S) = Tokens(S)
             /\ Worth(log, "longest", S) = Longest(S)
  <2> TAKE S
  <2>1. Worth(log, "of", S) = Cardinality(S) BY DEF Worth
  <2>2. "tokens" # "of" /\ "longest" # "of" /\ "longest" # "tokens" OBVIOUS
  <2>3. Worth(log, "tokens", S) = TokensOf(log, S) BY <2>2 DEF Worth
  <2>4. Worth(log, "longest", S) = LongestOf(log, S) BY <2>2 DEF Worth
  <2> QED BY <2>1, <2>3, <2>4, OfTheLog
<1>8. \A field \in {"of", "tokens", "longest"} : field \in Kinds BY DEF Kinds
<1>9. /\ \A k \in Sections("of") : Number("of", k) \in Cardinality(before)..Cardinality(InRange)
      /\ \A k \in Sections("tokens") : Number("tokens", k) \in Tokens(before)..Tokens(InRange)
      /\ \A k \in Sections("longest") :
           Number("longest", k) \in Longest(before)..Longest(InRange)
  BY <1>6, <1>7, <1>8
<1>10. \A field \in {"of", "tokens", "longest"} : \A j, k \in Sections(field) :
         j <= k => Number(field, j) <= Number(field, k)
  BY <1>5, <1>8
<1>11. ASSUME page = "analytics", Len(got) > 3
       PROVE  \A s \in DOMAIN got[3].of :
                got[3].of[s] <= got[4].of[<<(s \div HoursPerDay) % DaysPerWeek, s % HoursPerDay>>]
  <2>1. CellsTold(got) BY <1>1, <1>11 DEF Told
  <2> QED BY <2>1 DEF CellsTold, Cell
<1>12. done <=> Len(got) = Len(Statements[page]) BY DEF Typed
<1>13. ASSUME page = "analytics", done PROVE \A ms \in got[5].ms : ms <= got[9].longest
  <2>1. Len(got) = 9 BY <1>12, <1>13, StatementNames
  <2> QED BY <1>1, <1>13, <2>1 DEF Told
<1>14. ASSUME page = "analytics", Len(got) > 6
       PROVE  got[7].scored >= Cardinality({c \in Scores(before) : Score(c) >= 0})
  BY <1>1, <1>14, OfTheLog DEF Told
<1>15. ASSUME page = "recommendations", done PROVE got[2].low <= Cardinality(InRange)
  <2>1. Len(got) = 2 BY <1>12, <1>15, StatementNames
  <2>2. got[2].low \in 0..Cardinality(InRange) BY <1>1, <1>15, <2>1 DEF Told
  <2>3. Cardinality(InRange) \in Nat BY InRangeFacts
  <2> QED BY <2>2, <2>3
<1> QED BY <1>9, <1>10, <1>11, <1>13, <1>14, <1>15, Zenon DEF SectionsTellOneLog

\* SectionsTellOneLog: a page is put together from statements that each read the log
\* anew, yet as long as the tenant is there no section contradicts another.
THEOREM PagesTellOneLog == Spec => []SectionsTellOneLog
<1>1. Init => Typed /\ SectionsSoFar
  <2>1. Init => page = "none" BY DEF Init
  <2> QED BY <2>1, InitTyped, StatementsDomain DEF SectionsSoFar
<1>2. Typed /\ SectionsSoFar /\ [Next]_vars => (Typed /\ SectionsSoFar)'
  BY TypedInductive, SectionsInductive
<1>3. Typed /\ SectionsSoFar => SectionsTellOneLog BY SectionsAgree
<1> QED BY <1>1, <1>2, <1>3, PTL DEF Spec

=============================================================================
