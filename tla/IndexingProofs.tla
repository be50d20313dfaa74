--------------------------- MODULE IndexingProofs ---------------------------
(***************************************************************************)
(* Proofs about Chunker and Indexing, for every crawl, chunk size, overlap, *)
(* batch size and limit on the calls.                                       *)
(*                                                                         *)
(* A fold is proved about through the sequence of the values that it goes   *)
(* through, whose existence and properties are shown by least               *)
(* counterexample.  A page whose words are numbered in reading order makes  *)
(* a chunk that loses nothing a stretch of numbers, and a chunking that     *)
(* covers the page a chain of stretches, each beginning where the last one  *)
(* ended or, by the overlap, before.                                        *)
(*                                                                         *)
(* The run's invariants are Run (types, and what is in hand), Late, Ordered,*)
(* JobRow, Kept, CallsBounded, Counted and StoredAll.                       *)
(***************************************************************************)
EXTENDS Indexing, FiniteSetTheorems, WellFoundedInduction, SequenceTheorems, TLAPS

(* Induction over numbers, and with it what a fold over a sequence computes. *)

\* Every set of natural numbers that is not empty has a least element.
LEMMA LeastNumber ==
  ASSUME NEW S \in SUBSET Nat, S # {}
  PROVE  \E n \in S : \A m \in S : n <= m
<1> DEFINE R == OpToRel(<, Nat)
<1>1. IsWellFoundedOn(R, Nat) BY NatLessThanWellFounded
<1>2. \A x, y \in Nat : x < y => <<x, y>> \in R BY DEF OpToRel
<1> HIDE DEF R
<1>3. PICK n \in S : \A y \in S : ~ (<<y, n>> \in R) BY <1>1, WFMin
<1>4. \A m \in S : ~ (m < n) BY <1>2, <1>3, Zenon
<1>5. \A m \in S : n <= m BY <1>4
<1> QED BY <1>5

\* Induction over the natural numbers, for a set of them.
LEMMA InductionOverNat ==
  ASSUME NEW S \in SUBSET Nat, 0 \in S, \A n \in S : n + 1 \in S
  PROVE  S = Nat
<1> SUFFICES ASSUME Nat \ S # {} PROVE FALSE OBVIOUS
<1>1. PICK n \in Nat \ S : \A m \in Nat \ S : n <= m BY LeastNumber
<1>2. n - 1 \in Nat /\ n - 1 \in S BY <1>1
<1> QED BY <1>1, <1>2

\* A set of numbers up to n has a largest one.
LEMMA LargestNumber ==
  ASSUME NEW n \in Nat, NEW T \in SUBSET (1..n), T # {}
  PROVE  Max(T) \in T /\ \A y \in T : Max(T) >= y
<1> DEFINE S == {n - x : x \in T}
<1>1. S \in SUBSET Nat /\ S # {}
  <2>1. \A x \in T : x \in 1..n /\ n - x \in Nat OBVIOUS
  <2> QED BY <2>1
<1>2. PICK m \in S : \A k \in S : m <= k BY <1>1, LeastNumber
<1>3. PICK x \in T : m = n - x BY <1>2
<1>4. \A y \in T : x >= y
  <2> SUFFICES ASSUME NEW y \in T PROVE x >= y OBVIOUS
  <2>1. n - y \in S OBVIOUS
  <2> QED BY <1>2, <1>3, <2>1
<1> QED BY <1>3, <1>4 DEF Max

\* A set of numbers up to k + 1: without k + 1 it is one up to k.
LEMMA TopOfSet ==
  ASSUME NEW k \in Nat, NEW T \in SUBSET (1..(k + 1))
  PROVE  /\ T \ {k + 1} \in SUBSET (1..k)
         /\ T \notin SUBSET (1..k) => T # {} /\ Max(T) = k + 1
         /\ T \in SUBSET (1..k) => T \ {Max(T)} \in SUBSET (1..k)
<1>1. T \ {k + 1} \in SUBSET (1..k) OBVIOUS
<1>2. ASSUME T \notin SUBSET (1..k) PROVE T # {} /\ Max(T) = k + 1
  <2>1. PICK x \in T : x \notin 1..k BY <1>2
  <2>2. x = k + 1 BY <2>1
  <2>3. k + 1 \in Nat /\ T # {} /\ k + 1 \in T BY <2>1, <2>2
  <2>4. Max(T) \in T /\ \A y \in T : Max(T) >= y BY <2>3, LargestNumber
  <2>5. Max(T) \in 1..(k + 1) /\ Max(T) >= k + 1 BY <2>3, <2>4
  <2> QED BY <2>3, <2>5
<1>3. ASSUME T \in SUBSET (1..k) PROVE T \ {Max(T)} \in SUBSET (1..k) BY <1>3
<1> QED BY <1>1, <1>2, <1>3

\* h is the function of a fold of s, on the sets of its first k positions.
Folds(h, k, F, base, s) ==
  \A T \in SUBSET (1..k) :
    h[T] = IF T = {} THEN base ELSE F[h[T \ {Max(T)}]][s[Max(T)]]

\* One more element of the sequence.
LEMMA FoldExtends ==
  ASSUME NEW V, NEW E, NEW F \in [V -> [E -> V]], NEW base, NEW s,
         NEW k \in Nat, s[k + 1] \in E, NEW g \in [SUBSET (1..k) -> V],
         Folds(g, k, F, base, s)
  PROVE  \E h \in [SUBSET (1..(k + 1)) -> V] : Folds(h, k + 1, F, base, s)
<1> DEFINE D == SUBSET (1..k)
           D1 == SUBSET (1..(k + 1))
           h == [T \in D1 |-> IF T \in D THEN g[T] ELSE F[g[T \ {k + 1}]][s[k + 1]]]
<1>1. /\ \A T \in D1 : T \ {k + 1} \in D
      /\ \A T \in D1 : T \notin D => T # {} /\ Max(T) = k + 1
      /\ \A T \in D1 : T \in D => T \ {Max(T)} \in D
  BY TopOfSet
<1>2. D \subseteq D1 OBVIOUS
<1>3. g \in [D -> V] OBVIOUS
<1>4. \A T \in D : g[T] = IF T = {} THEN base ELSE F[g[T \ {Max(T)}]][s[Max(T)]] BY DEF Folds
<1> HIDE DEF D, D1
<1>5. \A T \in D : h[T] = g[T] BY <1>2
<1>6. \A T \in D1 : T \notin D => h[T] = F[g[T \ {k + 1}]][s[k + 1]] OBVIOUS
<1>7. h \in [D1 -> V] BY <1>1, <1>3
<1> HIDE DEF h
<1>8. ASSUME NEW T \in D1
      PROVE  h[T] = IF T = {} THEN base ELSE F[h[T \ {Max(T)}]][s[Max(T)]]
  <2>1. CASE T \in D
    <3>1. T \ {Max(T)} \in D BY <1>1, <2>1
    <3> QED BY <1>4, <1>5, <2>1, <3>1
  <2>2. CASE T \notin D
    <3>1. T # {} /\ Max(T) = k + 1 /\ T \ {k + 1} \in D BY <1>1, <2>2
    <3> QED BY <1>5, <1>6, <2>2, <3>1
  <2> QED BY <2>1, <2>2
<1> QED BY <1>7, <1>8 DEF Folds, D1

\* A fold over a sequence is well defined: its function exists.
LEMMA FoldExists ==
  ASSUME NEW V, NEW E, NEW F \in [V -> [E -> V]], NEW base \in V, NEW s \in Seq(E)
  PROVE  \E h \in [SUBSET (1..Len(s)) -> V] : Folds(h, Len(s), F, base, s)
<1> DEFINE P(k) == \E h \in [SUBSET (1..k) -> V] : Folds(h, k, F, base, s)
           S == {k \in Nat : k <= Len(s) => P(k)}
<1>0. Len(s) \in Nat /\ \A k \in Nat : k + 1 <= Len(s) => s[k + 1] \in E OBVIOUS
<1>1. P(0)
  <2> DEFINE h == [T \in SUBSET (1..0) |-> base]
  <2>1. h \in [SUBSET (1..0) -> V] OBVIOUS
  <2>2. 1..0 = {} OBVIOUS
  <2>3. Folds(h, 0, F, base, s) BY <2>2 DEF Folds
  <2> QED BY <2>1, <2>3
<1>2. ASSUME NEW k \in Nat, s[k + 1] \in E, P(k) PROVE P(k + 1)
  <2>1. PICK g \in [SUBSET (1..k) -> V] : Folds(g, k, F, base, s) BY <1>2
  <2> QED BY <1>2, <2>1, FoldExtends
<1> HIDE DEF P
<1>3. 0 \in S BY <1>1
<1>4. ASSUME NEW k \in S PROVE k + 1 \in S BY <1>0, <1>2
<1>5. S = Nat BY <1>3, <1>4, InductionOverNat
<1>6. P(Len(s)) BY <1>0, <1>5
<1> QED BY <1>6 DEF P

\* An interval from 1, and what is left of it without its largest number.
LEMMA IntervalMax ==
  ASSUME NEW k \in Nat
  PROVE  Max(1..(k + 1)) = k + 1 /\ (1..(k + 1)) \ {Max(1..(k + 1))} = 1..k
<1> DEFINE I == 1..(k + 1)
<1>1. I \in SUBSET (1..(k + 1)) /\ I # {} /\ k + 1 \in I /\ k + 1 \in Nat OBVIOUS
<1>2. Max(I) \in I /\ Max(I) >= k + 1
  <2> HIDE DEF I
  <2> QED BY <1>1, LargestNumber
<1>3. Max(I) = k + 1 BY <1>2
<1> QED BY <1>3

\* g is the function of a fold of s wherever its values are in V.
FoldsWithin(g, V, F, base, s) ==
  /\ g[{}] = base
  /\ \A T \in SUBSET (1..Len(s)) :
       T # {} /\ g[T \ {Max(T)}] \in V => g[T] = F[g[T \ {Max(T)}]][s[Max(T)]]

\* a holds what a fold of s has after each element, from base on.
Accumulates(a, V, F, base, s) ==
  /\ a \in [0..Len(s) -> V]
  /\ a[0] = base
  /\ \A k \in 1..Len(s) : a[k] = F[a[k - 1]][s[k]]

\* The values of a fold of s after each element.
Values(g, s) == [k \in 0..Len(s) |-> g[1..k]]

\* A fold goes through the sequence from the first element to the last.
LEMMA FoldSteps ==
  ASSUME NEW V, NEW E, NEW F \in [V -> [E -> V]], NEW base \in V, NEW s \in Seq(E),
         NEW g, FoldsWithin(g, V, F, base, s)
  PROVE  Accumulates(Values(g, s), V, F, base, s)
<1> DEFINE n == Len(s)
           a == Values(g, s)
           S == {k \in Nat : k <= n => a[k] \in V}
<1>0. n \in Nat /\ \A k \in 1..n : s[k] \in E OBVIOUS
<1>1. a[0] = base
  <2>1. 1..0 = {} OBVIOUS
  <2> QED BY <1>0, <2>1 DEF FoldsWithin, Values
<1>2. ASSUME NEW k \in Nat, k + 1 <= n, a[k] \in V
      PROVE  a[k + 1] = F[a[k]][s[k + 1]] /\ a[k + 1] \in V
  <2>1. Max(1..(k + 1)) = k + 1 /\ (1..(k + 1)) \ {Max(1..(k + 1))} = 1..k BY IntervalMax
  <2>2. k \in 0..n /\ k + 1 \in 0..n /\ k + 1 \in 1..n BY <1>0, <1>2
  <2>3. 1..(k + 1) \in SUBSET (1..n) /\ 1..(k + 1) # {}
    <3>1. \A x \in 1..(k + 1) : x \in 1..n BY <1>0, <1>2
    <3>2. k + 1 \in 1..(k + 1) OBVIOUS
    <3> QED BY <3>1, <3>2
  <2>4. a[k] = g[1..k] /\ a[k + 1] = g[1..(k + 1)] BY <2>2 DEF Values
  <2>5. g[1..(k + 1)] = F[g[1..k]][s[k + 1]]
    <3>1. g[(1..(k + 1)) \ {Max(1..(k + 1))}] \in V BY <1>2, <2>1, <2>4
    <3> QED BY <2>1, <2>3, <3>1 DEF FoldsWithin
  <2>6. F[a[k]][s[k + 1]] \in V BY <1>0, <1>2, <2>2
  <2> HIDE DEF a
  <2> QED BY <2>4, <2>5, <2>6
<1> HIDE DEF a
<1>3. 0 \in S BY <1>1
<1>4. ASSUME NEW k \in S PROVE k + 1 \in S
  <2>1. k \in Nat OBVIOUS
  <2> SUFFICES ASSUME k + 1 <= n PROVE a[k + 1] \in V BY <2>1
  <2>2. a[k] \in V BY <1>0, <2>1
  <2> QED BY <1>2, <2>1, <2>2
<1>5. S = Nat BY <1>3, <1>4, InductionOverNat
<1>6. \A k \in 0..n : a[k] \in V
  <2>1. \A k \in 0..n : k \in Nat /\ k <= n BY <1>0
  <2>2. \A k \in S : k <= n => a[k] \in V OBVIOUS
  <2> HIDE DEF S
  <2> QED BY <1>5, <2>1, <2>2
<1>7. a \in [0..n -> V] BY <1>6 DEF a, Values
<1>8. ASSUME NEW k \in 1..n PROVE a[k] = F[a[k - 1]][s[k]]
  <2>1. k - 1 \in Nat /\ k - 1 \in 0..n /\ (k - 1) + 1 = k /\ k <= n BY <1>0
  <2>2. a[k - 1] \in V BY <1>6, <2>1
  <2>3. a[(k - 1) + 1] = F[a[k - 1]][s[(k - 1) + 1]] BY <1>2, <2>1, <2>2
  <2> QED BY <2>1, <2>3
<1>9. Accumulates(a, V, F, base, s) BY <1>1, <1>7, <1>8 DEF Accumulates
<1> QED BY <1>9 DEF a

\* What a fold of a sequence goes through exists.
LEMMA StepsExist ==
  ASSUME NEW V, NEW E, NEW F \in [V -> [E -> V]], NEW base \in V, NEW s \in Seq(E)
  PROVE  \E a : Accumulates(a, V, F, base, s)
<1>1. PICK h \in [SUBSET (1..Len(s)) -> V] : Folds(h, Len(s), F, base, s) BY FoldExists
<1>2. h[{}] = base BY <1>1 DEF Folds
<1>3. \A T \in SUBSET (1..Len(s)) : T # {} => h[T] = F[h[T \ {Max(T)}]][s[Max(T)]]
  BY <1>1 DEF Folds
<1>4. FoldsWithin(h, V, F, base, s) BY <1>2, <1>3 DEF FoldsWithin
<1> QED BY <1>4, FoldSteps

\* a holds what has been put together of s after each of its sequences.
Flattens(a, s, S) ==
  /\ a \in [0..Len(s) -> Seq(S)]
  /\ a[0] = <<>>
  /\ \A k \in 1..Len(s) : a[k] = a[k - 1] \o s[k]

\* FlattenSeq puts its sequences together from the first to the last.
LEMMA FlattenSteps ==
  ASSUME NEW S, NEW s \in Seq(Seq(S))
  PROVE  \E a : Flattens(a, s, S) /\ a[Len(s)] = FlattenSeq(s)
<1> DEFINE n == Len(s)
           V == Seq(S)
           F == [x \in V |-> [y \in V |-> x \o y]]
<1>0. n \in Nat /\ \A k \in 1..n : s[k] \in V OBVIOUS
<1>1. F \in [V -> [V -> V]] /\ <<>> \in V /\ s \in Seq(V) OBVIOUS
<1>2. \A x, y \in V : F[x][y] = x \o y OBVIOUS
<1> HIDE DEF F
<1>3. PICK a : Accumulates(a, V, F, <<>>, s) BY <1>1, StepsExist
<1>4. /\ a \in [0..n -> V] /\ a[0] = <<>>
      /\ \A k \in 1..n : a[k] = F[a[k - 1]][s[k]]
  BY <1>3 DEF Accumulates
<1>5. ASSUME NEW k \in 1..n PROVE a[k] = a[k - 1] \o s[k]
  <2>1. k - 1 \in 0..n BY <1>0
  <2>2. a[k - 1] \in V /\ s[k] \in V BY <1>0, <1>4, <2>1
  <2> QED BY <1>2, <1>4, <2>2
<1>6. Flattens(a, s, S) BY <1>4, <1>5 DEF Flattens
<1>7. a[n] = FlattenSeq(s)
  <2>1. CASE n = 0 BY <1>4, <2>1 DEF FlattenSeq
  <2>2. CASE n # 0
    <3> DEFINE Is(f) == f = [i \in 1..n |-> IF i = 1 THEN s[i] ELSE f[i - 1] \o s[i]]
               g == CHOOSE f : Is(f)
               h == [i \in 1..n |-> a[i]]
    <3>1. FlattenSeq(s) = g[n] BY <2>2 DEF FlattenSeq
    <3>2. Is(h)
      <4>1. ASSUME NEW i \in 1..n PROVE h[i] = IF i = 1 THEN s[i] ELSE h[i - 1] \o s[i]
        <5>1. CASE i = 1
          <6>1. 1 \in 1..n /\ 1 - 1 = 0 BY <5>1
          <6>2. a[1] = a[0] \o s[1] /\ s[1] \in Seq(S)
            <7>1. a[1] = a[1 - 1] \o s[1] BY <1>5, <6>1
            <7> QED BY <1>0, <6>1, <7>1
          <6> QED BY <1>4, <5>1, <6>2
        <5>2. CASE i # 1
          <6>1. i - 1 \in 1..n BY <1>0, <5>2
          <6> QED BY <1>5, <5>2, <6>1
        <5> QED BY <5>1, <5>2
      <4> QED BY <4>1
    <3>3. Is(g)
      <4> HIDE DEF Is, h
      <4> QED BY <3>2
    <3> HIDE DEF g
    <3> DEFINE R == {k \in Nat : k + 1 <= n => g[k + 1] = a[k + 1]}
    <3>4. 0 \in R
      <4>1. 0 + 1 \in 1..n BY <1>0, <2>2
      <4>2. g[1] = s[1] BY <3>3, <4>1
      <4>3. h[1] = s[1]
        <5> HIDE DEF h
        <5> QED BY <3>2, <4>1
      <4> QED BY <4>1, <4>2, <4>3
    <3>5. ASSUME NEW k \in R PROVE k + 1 \in R
      <4>1. k \in Nat OBVIOUS
      <4> SUFFICES ASSUME (k + 1) + 1 <= n PROVE g[(k + 1) + 1] = a[(k + 1) + 1] BY <4>1
      <4>2. k + 1 \in 1..n /\ (k + 1) + 1 \in 1..n /\ (k + 1) + 1 # 1
            /\ ((k + 1) + 1) - 1 = k + 1 /\ k + 1 <= n
        BY <1>0, <4>1
      <4>3. g[k + 1] = a[k + 1] BY <4>2
      <4>4. g[(k + 1) + 1] = g[k + 1] \o s[(k + 1) + 1] BY <3>3, <4>2
      <4>5. a[(k + 1) + 1] = a[k + 1] \o s[(k + 1) + 1] BY <1>5, <4>2
      <4> QED BY <4>3, <4>4, <4>5
    <3>6. R = Nat BY <3>4, <3>5, InductionOverNat
    <3>7. n - 1 \in Nat /\ (n - 1) + 1 = n BY <1>0, <2>2
    <3>8. \A k \in R : k + 1 <= n => g[k + 1] = a[k + 1] OBVIOUS
    <3> HIDE DEF R
    <3>9. (n - 1) + 1 <= n BY <1>0
    <3>10. g[(n - 1) + 1] = a[(n - 1) + 1] BY <3>6, <3>7, <3>8, <3>9
    <3> QED BY <3>1, <3>7, <3>10
  <2> QED BY <2>1, <2>2
<1> QED BY <1>6, <1>7

\* It is the only one: what is put together after each sequence is determined.
LEMMA FlattensUnique ==
  ASSUME NEW S, NEW s \in Seq(Seq(S)), NEW t \in Seq(Seq(S)), NEW a, NEW b,
         Flattens(a, s, S), Flattens(b, t, S), NEW n \in Nat,
         n <= Len(s), n <= Len(t), \A k \in 1..n : s[k] = t[k]
  PROVE  a[n] = b[n]
<1> DEFINE R == {k \in Nat : k <= n => a[k] = b[k]}
<1>1. 0 \in R BY DEF Flattens
<1>2. ASSUME NEW k \in R PROVE k + 1 \in R
  <2>1. k \in Nat OBVIOUS
  <2> SUFFICES ASSUME k + 1 <= n PROVE a[k + 1] = b[k + 1] BY <2>1
  <2>2. k + 1 \in 1..n /\ k + 1 \in 1..Len(s) /\ k + 1 \in 1..Len(t) /\ (k + 1) - 1 = k
    BY <2>1
  <2>3. a[k] = b[k] BY <2>1
  <2> QED BY <2>2, <2>3 DEF Flattens
<1>3. R = Nat BY <1>1, <1>2, InductionOverNat
<1>4. n \in R BY <1>3
<1> QED BY <1>4

\* What FlattenSeq returns is a sequence.
LEMMA FlattenType ==
  ASSUME NEW S, NEW s \in Seq(Seq(S))
  PROVE  FlattenSeq(s) \in Seq(S)
<1>1. PICK a : Flattens(a, s, S) /\ a[Len(s)] = FlattenSeq(s) BY FlattenSteps
<1>2. Len(s) \in 0..Len(s) OBVIOUS
<1> QED BY <1>1, <1>2 DEF Flattens

\* One sequence more at the end.
LEMMA FlattenAppend ==
  ASSUME NEW S, NEW s \in Seq(Seq(S)), NEW x \in Seq(S)
  PROVE  FlattenSeq(Append(s, x)) = FlattenSeq(s) \o x
<1> DEFINE t == Append(s, x)
           n == Len(s)
<1>1. t \in Seq(Seq(S)) /\ Len(t) = n + 1 /\ n \in Nat /\ t[n + 1] = x
      /\ \A k \in 1..n : t[k] = s[k]
  OBVIOUS
<1> HIDE DEF t
<1>2. PICK a : Flattens(a, s, S) /\ a[Len(s)] = FlattenSeq(s) BY FlattenSteps
<1>3. PICK b : Flattens(b, t, S) /\ b[Len(t)] = FlattenSeq(t) BY <1>1, FlattenSteps
<1>4. b[n] = a[n]
  <2>1. n \in Nat /\ n <= Len(s) /\ n <= Len(t) BY <1>1
  <2>2. \A k \in 1..n : t[k] = s[k] BY <1>1
  <2> HIDE DEF n
  <2> QED BY <1>1, <1>2, <1>3, <2>1, <2>2, FlattensUnique
<1>5. b[n + 1] = b[n] \o t[n + 1]
  <2>1. n + 1 \in 1..Len(t) /\ (n + 1) - 1 = n BY <1>1
  <2> QED BY <1>3, <2>1 DEF Flattens
<1>6. FlattenSeq(t) = FlattenSeq(s) \o x BY <1>1, <1>2, <1>3, <1>4, <1>5
<1> QED BY <1>6 DEF t

\* No sequence, and one.
LEMMA FlattenEmpty == FlattenSeq(<<>>) = <<>>
BY DEF FlattenSeq

\* A single sequence.
LEMMA FlattenOne ==
  ASSUME NEW S, NEW x \in Seq(S)
  PROVE  FlattenSeq(<<x>>) = x
<1>1. <<x>> = Append(<<>>, x) /\ <<>> \in Seq(Seq(S)) OBVIOUS
<1>2. FlattenSeq(<<x>>) = FlattenSeq(<<>>) \o x BY <1>1, FlattenAppend
<1> QED BY <1>2, FlattenEmpty

-----------------------------------------------------------------------------
(* Chunks as stretches of the numbered words of a page.                      *)

\* The words after the first a, up to the b-th.
Stretch(a, b) == [i \in 1..(b - a) |-> a + i]

\* What a stretch is.
LEMMA StretchFacts ==
  ASSUME NEW a \in Nat, NEW b \in Nat, a <= b
  PROVE  /\ Stretch(a, b) \in Seq(Nat) /\ Len(Stretch(a, b)) = b - a
         /\ \A i \in 1..(b - a) : Stretch(a, b)[i] = a + i
         /\ Stretch(a, b) = <<>> <=> a = b
<1>1. b - a \in Nat /\ \A i \in 1..(b - a) : a + i \in Nat OBVIOUS
<1> DEFINE n == b - a
<1>2. [i \in 1..n |-> a + i] \in [1..n -> Nat] BY <1>1
<1> QED BY <1>1, <1>2 DEF Stretch

\* Two sequences of one length with the same elements are one.
LEMMA SameSeq ==
  ASSUME NEW S, NEW x \in Seq(S), NEW y \in Seq(S), Len(x) = Len(y),
         \A i \in 1..Len(x) : x[i] = y[i]
  PROVE  x = y
BY SeqEqual

\* Two stretches that meet.
LEMMA StretchConcat ==
  ASSUME NEW a \in Nat, NEW b \in Nat, NEW c \in Nat, a <= b, b <= c
  PROVE  Stretch(a, b) \o Stretch(b, c) = Stretch(a, c)
<1> DEFINE x == Stretch(a, b)
           y == Stretch(b, c)
           z == Stretch(a, c)
<1>1. x \in Seq(Nat) /\ Len(x) = b - a /\ \A i \in 1..(b - a) : x[i] = a + i
  BY StretchFacts
<1>2. y \in Seq(Nat) /\ Len(y) = c - b /\ \A i \in 1..(c - b) : y[i] = b + i
  BY StretchFacts
<1>3. z \in Seq(Nat) /\ Len(z) = c - a /\ \A i \in 1..(c - a) : z[i] = a + i
  BY StretchFacts
<1> HIDE DEF x, y, z
<1>4. x \o y \in Seq(Nat) /\ Len(x \o y) = c - a BY <1>1, <1>2
<1>5. ASSUME NEW i \in 1..(c - a) PROVE (x \o y)[i] = z[i]
  <2>1. CASE i <= b - a
    <3>1. (x \o y)[i] = x[i] BY <1>1, <1>2, <2>1
    <3> QED BY <1>1, <1>3, <2>1, <3>1
  <2>2. CASE i > b - a
    <3>1. (x \o y)[i] = y[i - (b - a)] BY <1>1, <1>2, <2>2
    <3>2. i - (b - a) \in 1..(c - b) BY <2>2
    <3>3. y[i - (b - a)] = b + (i - (b - a)) BY <1>2, <3>2
    <3> QED BY <1>3, <3>1, <3>3
  <2>3. i <= b - a \/ i > b - a OBVIOUS
  <2> QED BY <2>1, <2>2, <2>3
<1>6. x \o y = z BY <1>3, <1>4, <1>5, SameSeq
<1> QED BY <1>6 DEF x, y, z

\* A part of a sequence, by a name of its own.
Cut(x, m, n) == SubSeq(x, m, n)

\* A part of a stretch.
LEMMA StretchCut ==
  ASSUME NEW a \in Nat, NEW b \in Nat, a <= b,
         NEW m \in Nat, NEW n \in Nat, 1 <= m, m <= n + 1, n <= b - a
  PROVE  Cut(Stretch(a, b), m, n) = Stretch(a + m - 1, a + n)
<1> DEFINE x == Stretch(a, b)
           y == SubSeq(x, m, n)
           z == Stretch(a + m - 1, a + n)
<1>1. x \in Seq(Nat) /\ Len(x) = b - a /\ \A i \in 1..(b - a) : x[i] = a + i
  BY StretchFacts
<1>2. /\ z \in Seq(Nat) /\ Len(z) = n - m + 1
      /\ \A i \in 1..(n - m + 1) : z[i] = a + m - 1 + i
  <2> DEFINE p == a + m - 1
             q == a + n
  <2>1. p \in Nat /\ q \in Nat /\ p <= q /\ q - p = n - m + 1 OBVIOUS
  <2> HIDE DEF p, q
  <2>2. /\ Stretch(p, q) \in Seq(Nat) /\ Len(Stretch(p, q)) = q - p
        /\ \A i \in 1..(q - p) : Stretch(p, q)[i] = p + i
    BY <2>1, StretchFacts
  <2>3. /\ Stretch(p, q) \in Seq(Nat) /\ Len(Stretch(p, q)) = n - m + 1
        /\ \A i \in 1..(n - m + 1) : Stretch(p, q)[i] = p + i
    BY <2>1, <2>2
  <2> QED BY <2>3 DEF p, q
<1> HIDE DEF x, z
<1>3. y \in Seq(Nat) /\ Len(y) = n - m + 1 /\ \A i \in 1..(n - m + 1) : y[i] = x[m + i - 1]
  <2>1. m \in 1..(Len(x) + 1) /\ n \in (m - 1)..Len(x) BY <1>1
  <2> QED BY <1>1, <2>1, SubSeqProperties
<1>4. ASSUME NEW i \in 1..(n - m + 1) PROVE y[i] = z[i]
  <2>1. m + i - 1 \in 1..(b - a) OBVIOUS
  <2> QED BY <1>1, <1>2, <1>3, <2>1
<1>5. y = z
  <2> HIDE DEF y
  <2> QED BY <1>2, <1>3, <1>4, SameSeq
<1> QED BY <1>5 DEF x, z, Cut

\* A chunk is a stretch from one word to another.
Lo(x) == x[1] - 1
Hi(x) == x[Len(x)]

IsChunk(x, m) ==
  /\ Lo(x) \in Nat /\ Hi(x) \in Nat /\ Lo(x) < Hi(x)
  /\ x = Stretch(Lo(x), Hi(x))
  /\ Hi(x) - Lo(x) <= m

\* y begins inside x or right after it, and ends no earlier.
Follows(x, y) == Lo(x) <= Lo(y) /\ Lo(y) <= Hi(x) /\ Hi(x) <= Hi(y)

\* Chunks that follow each other from word a + 1 to word e.
Chain(c, a, e, m) ==
  /\ c \in Seq(Seq(Nat))
  /\ \A k \in 1..Len(c) : IsChunk(c[k], m)
  /\ \A k \in 2..Len(c) : Follows(c[k - 1], c[k])
  /\ c # <<>> => Lo(c[1]) = a /\ Hi(c[Len(c)]) = e
  /\ c = <<>> => a = e

\* A stretch of some words is a chunk.
LEMMA StretchIsChunk ==
  ASSUME NEW a \in Nat, NEW b \in Nat, a < b, NEW m \in Int, b - a <= m
  PROVE  /\ IsChunk(Stretch(a, b), m)
         /\ Lo(Stretch(a, b)) = a /\ Hi(Stretch(a, b)) = b
<1>1. /\ Stretch(a, b) \in Seq(Nat) /\ Len(Stretch(a, b)) = b - a
      /\ \A i \in 1..(b - a) : Stretch(a, b)[i] = a + i
  BY StretchFacts
<1>2. 1 \in 1..(b - a) /\ b - a \in 1..(b - a) /\ a + (b - a) = b OBVIOUS
<1>3. Lo(Stretch(a, b)) = a /\ Hi(Stretch(a, b)) = b BY <1>1, <1>2 DEF Lo, Hi
<1> QED BY <1>3 DEF IsChunk

\* A chunk is a sequence of words.
LEMMA ChunkFacts ==
  ASSUME NEW x, NEW m \in Int, IsChunk(x, m)
  PROVE  /\ x \in Seq(Nat) /\ x # <<>> /\ Len(x) = Hi(x) - Lo(x) /\ Len(x) <= m
         /\ Lo(x) \in Nat /\ Hi(x) \in Nat /\ Lo(x) < Hi(x)
         /\ x = Stretch(Lo(x), Hi(x))
<1> DEFINE a == Lo(x)
           b == Hi(x)
<1>1. a \in Nat /\ b \in Nat /\ a < b /\ x = Stretch(a, b) /\ b - a <= m BY DEF IsChunk
<1> HIDE DEF a, b
<1>2. x \in Seq(Nat) /\ Len(x) = b - a /\ (x = <<>> <=> a = b)
  <2> DEFINE z == Stretch(a, b)
  <2>0. a \in Nat /\ b \in Nat /\ a <= b BY <1>1
  <2>1. z \in Seq(Nat) /\ Len(z) = b - a /\ (z = <<>> <=> a = b) BY <2>0, StretchFacts
  <2>2. x = z BY <1>1
  <2> HIDE DEF z
  <2> QED BY <2>1, <2>2
<1>3. x # <<>> /\ Len(x) <= m BY <1>1, <1>2
<1> QED BY <1>1, <1>2, <1>3 DEF a, b

\* Nothing, and from a to a.
LEMMA EmptyChain == ASSUME NEW a, NEW m PROVE Chain(<<>>, a, a, m)
BY DEF Chain

\* A chain whose chunks are a little longer at most.
LEMMA ChainWidens ==
  ASSUME NEW c, NEW a, NEW e, NEW m \in Int, NEW n \in Int, m <= n, Chain(c, a, e, m)
  PROVE  Chain(c, a, e, n)
<1>1. ASSUME NEW x, IsChunk(x, m) PROVE IsChunk(x, n) BY <1>1 DEF IsChunk
<1> QED BY <1>1 DEF Chain

\* One chain continued by another.
LEMMA ChainConcat ==
  ASSUME NEW c, NEW d, NEW a, NEW b, NEW e, NEW f, NEW m,
         Chain(c, a, e, m), Chain(d, b, f, m), d # <<>>,
         c = <<>> => a = b,
         c # <<>> => Follows(c[Len(c)], d[1])
  PROVE  Chain(c \o d, a, f, m)
<1>1. c \in Seq(Seq(Nat)) /\ d \in Seq(Seq(Nat)) BY DEF Chain
<1> DEFINE x == c \o d
           p == Len(c)
           q == Len(d)
<1>2. /\ x \in Seq(Seq(Nat)) /\ Len(x) = p + q /\ p \in Nat /\ q \in Nat /\ q > 0
      /\ \A k \in 1..p : x[k] = c[k]
      /\ \A k \in 1..q : x[p + k] = d[k]
      /\ c = <<>> <=> p = 0
  BY <1>1
<1> HIDE DEF x, p, q
<1>3. \A k \in 1..(p + q) : k \in 1..p \/ (k - p \in 1..q /\ p + (k - p) = k) BY <1>2
<1>4. ASSUME NEW k \in 1..Len(x) PROVE IsChunk(x[k], m)
  <2>1. CASE k \in 1..p BY <1>2, <2>1 DEF Chain, p
  <2>2. CASE k - p \in 1..q /\ p + (k - p) = k
    <3>1. x[k] = d[k - p] BY <1>2, <2>2
    <3> QED BY <2>2, <3>1 DEF Chain, q
  <2> QED BY <1>2, <1>3, <2>1, <2>2
<1>5. ASSUME NEW k \in 2..Len(x) PROVE Follows(x[k - 1], x[k])
  <2>1. CASE k \in 1..p
    <3>1. k \in 2..p /\ k - 1 \in 1..p BY <1>2, <2>1
    <3>2. Follows(c[k - 1], c[k]) BY <3>1 DEF Chain, p
    <3> QED BY <1>2, <2>1, <3>1, <3>2
  <2>2. CASE k = p + 1
    <3>1. p \in 1..p /\ 1 \in 1..q /\ k - 1 = p /\ p # 0 BY <1>2, <2>2
    <3>2. x[k] = d[1] BY <1>2, <2>2, <3>1
    <3>3. x[k - 1] = c[p] BY <1>2, <3>1
    <3> QED BY <1>2, <3>1, <3>2, <3>3 DEF p
  <2>3. CASE k > p + 1
    <3>1. k - p \in 2..q /\ k - p \in 1..q /\ (k - p) - 1 \in 1..q
          /\ p + (k - p) = k /\ p + ((k - p) - 1) = k - 1
      BY <1>2, <2>3
    <3>2. x[k] = d[k - p] /\ x[k - 1] = d[(k - p) - 1] BY <1>2, <3>1
    <3>3. Follows(d[(k - p) - 1], d[k - p]) BY <3>1 DEF Chain, q
    <3> QED BY <3>2, <3>3
  <2> QED BY <1>2, <2>1, <2>2, <2>3
<1>6. Lo(x[1]) = a
  <2>1. CASE p = 0
    <3>1. 1 \in 1..q /\ p + 1 = 1 BY <1>2, <2>1
    <3>2. x[1] = d[1] BY <1>2, <3>1
    <3> QED BY <1>2, <2>1, <3>2 DEF Chain
  <2>2. CASE p # 0
    <3>1. x[1] = c[1] BY <1>2, <2>2
    <3> QED BY <1>2, <2>2, <3>1 DEF Chain
  <2> QED BY <2>1, <2>2
<1>7. Hi(x[Len(x)]) = f
  <2>1. q \in 1..q BY <1>2
  <2>2. x[Len(x)] = d[q] BY <1>2, <2>1
  <2> QED BY <2>2 DEF Chain, q
<1>8. x # <<>>
  <2>1. Len(x) # 0 BY <1>2
  <2> QED BY <2>1
<1>9. Chain(x, a, f, m) BY <1>2, <1>4, <1>5, <1>6, <1>7, <1>8 DEF Chain
<1> QED BY <1>9 DEF x

\* One chunk is a chain.
LEMMA OneChunk ==
  ASSUME NEW x, NEW m \in Int, IsChunk(x, m)
  PROVE  Chain(<<x>>, Lo(x), Hi(x), m)
<1>1. x \in Seq(Nat) BY ChunkFacts
<1> DEFINE c == <<x>>
<1>2. c \in Seq(Seq(Nat)) /\ Len(c) = 1 /\ c[1] = x /\ c # <<>> BY <1>1
<1> HIDE DEF c
<1>3. 2..1 = {} /\ 1..1 = {1} OBVIOUS
<1>4. Chain(c, Lo(x), Hi(x), m) BY <1>2, <1>3 DEF Chain
<1> QED BY <1>4 DEF c

\* One chunk more.
LEMMA ChainAppend ==
  ASSUME NEW c, NEW x, NEW a, NEW e, NEW m \in Int,
         Chain(c, a, e, m), IsChunk(x, m),
         c = <<>> => a = Lo(x),
         c # <<>> => Follows(c[Len(c)], x)
  PROVE  Chain(Append(c, x), a, Hi(x), m)
<1>1. x \in Seq(Nat) /\ c \in Seq(Seq(Nat)) BY ChunkFacts DEF Chain
<1>2. Append(c, x) = c \o <<x>> /\ <<x>> # <<>> /\ <<x>>[1] = x BY <1>1, AppendIsConcat
<1>3. Chain(<<x>>, Lo(x), Hi(x), m) BY OneChunk
<1> QED BY <1>2, <1>3, ChainConcat

\* The last chunk of a chain ends where the chain does.
LEMMA ChainEnd ==
  ASSUME NEW c, NEW a \in Nat, NEW e \in Nat, NEW m \in Int, Chain(c, a, e, m)
  PROVE  /\ c # <<>> => c[Len(c)] \in Seq(Nat) /\ Hi(c[Len(c)]) = e /\ Lo(c[Len(c)]) < e
                        /\ Lo(c[Len(c)]) \in Nat
<1> SUFFICES ASSUME c # <<>>
             PROVE  /\ c[Len(c)] \in Seq(Nat) /\ Hi(c[Len(c)]) = e
                    /\ Lo(c[Len(c)]) < e /\ Lo(c[Len(c)]) \in Nat
  OBVIOUS
<1>1. c \in Seq(Seq(Nat)) BY DEF Chain
<1>2. Len(c) \in 1..Len(c) BY <1>1
<1>3. IsChunk(c[Len(c)], m) /\ Hi(c[Len(c)]) = e BY <1>2 DEF Chain
<1> QED BY <1>3, ChunkFacts

\* The last n words of a stretch.
LEMMA LastWordsOf ==
  ASSUME NEW a \in Nat, NEW b \in Nat, a <= b, NEW n \in Nat
  PROVE  \E p \in Nat : /\ a <= p /\ p <= b /\ b - p <= n
                        /\ LastWords(Stretch(a, b), n) = Stretch(p, b)
<1>1. Len(Stretch(a, b)) = b - a BY StretchFacts
<1>2. CASE n = 0
  <2>1. LastWords(Stretch(a, b), n) = <<>> BY <1>2 DEF LastWords
  <2>2. Stretch(b, b) = <<>> BY StretchFacts
  <2> QED BY <1>2, <2>1, <2>2
<1>3. CASE n > 0 /\ b - a > n
  <2>1. LastWords(Stretch(a, b), n) = Cut(Stretch(a, b), (b - a) - n + 1, b - a)
    BY <1>1, <1>3 DEF LastWords, Cut
  <2> DEFINE m == (b - a) - n + 1
             k == b - a
  <2>2. /\ m \in Nat /\ k \in Nat /\ 1 <= m /\ m <= k + 1 /\ k <= b - a
        /\ a + m - 1 = b - n /\ a + k = b
    BY <1>3
  <2>3. Cut(Stretch(a, b), m, k) = Stretch(a + m - 1, a + k)
    <3>1. m \in Nat /\ k \in Nat /\ 1 <= m /\ m <= k + 1 /\ k <= b - a BY <2>2
    <3> HIDE DEF m, k
    <3> QED BY <3>1, StretchCut
  <2>4. LastWords(Stretch(a, b), n) = Stretch(b - n, b) BY <2>1, <2>2, <2>3
  <2>5. b - n \in Nat /\ a <= b - n /\ b - n <= b /\ b - (b - n) <= n BY <1>3
  <2> QED BY <2>4, <2>5
<1>4. CASE n > 0 /\ ~(b - a > n)
  <2>1. LastWords(Stretch(a, b), n) = SubSeq(Stretch(a, b), 1, b - a)
    BY <1>1, <1>4 DEF LastWords
  <2>2. Stretch(a, b) \in Seq(Nat) BY StretchFacts
  <2>3. SubSeq(Stretch(a, b), 1, b - a) = Stretch(a, b) BY <1>1, <2>2, SubSeqFull
  <2> QED BY <1>4, <2>1, <2>3
<1> QED BY <1>2, <1>3, <1>4

\* The greater and the smaller of two numbers.
LEMMA TwoNumbers ==
  ASSUME NEW a \in Int, NEW b \in Int
  PROVE  /\ Max({a, b}) = IF a >= b THEN a ELSE b
         /\ Min({a, b}) = IF a <= b THEN a ELSE b
<1>1. CASE a = b
  <2>1. {a, b} = {a} BY <1>1
  <2> QED BY <1>1, <2>1 DEF Max, Min
<1>2. CASE a < b
  <2>1. Max({a, b}) = b BY <1>2 DEF Max
  <2>2. Min({a, b}) = a BY <1>2 DEF Min
  <2> QED BY <1>2, <2>1, <2>2
<1>3. CASE a > b
  <2>1. Max({a, b}) = a BY <1>3 DEF Max
  <2>2. Min({a, b}) = b BY <1>3 DEF Min
  <2> QED BY <1>3, <2>1, <2>2
<1> QED BY <1>1, <1>2, <1>3

\* Division with remainder.
LEMMA Division ==
  ASSUME NEW n \in Int, NEW c \in Int, c > 0
  PROVE  n = c * (n \div c) + (n % c) /\ n \div c \in Int /\ n % c \in 0..(c - 1)
BY SMTT(30)

\* Products grow with their factors.
LEMMA ProductGrows ==
  ASSUME NEW c \in Nat, NEW i \in Int, NEW j \in Int, i <= j
  PROVE  i * c <= j * c /\ i * c \in Int /\ j * c \in Int
OBVIOUS

\* One factor less.
LEMMA OneLess ==
  ASSUME NEW c \in Int, NEW i \in Int
  PROVE  (i - 1) * c = i * c - c /\ i * c \in Int
OBVIOUS

StepOf(size, overlap) == Max({1, size - overlap})
CountOf(n, step)      == (n + step - 1) \div step

\* The windows begin before the end of the sentence, and the last one reaches it.
LEMMA WindowsReach ==
  ASSUME NEW n \in Nat, NEW step \in Nat \ {0}
  PROVE  /\ CountOf(n, step) \in Nat
         /\ n > 0 => CountOf(n, step) > 0
         /\ \A k \in 1..CountOf(n, step) : (k - 1) * step \in Nat /\ (k - 1) * step < n
         /\ n <= CountOf(n, step) * step
<1> DEFINE q == CountOf(n, step)
           r == (n + step - 1) % step
<1>1. n + step - 1 = step * q + r /\ q \in Int /\ r \in 0..(step - 1)
  BY Division DEF CountOf
<1> HIDE DEF q, r
<1>2. step * q = q * step /\ q * step \in Int BY <1>1
<1>3. q * step >= n /\ q * step - step < n
  BY <1>1, <1>2
<1>4. q >= 0
  <2> SUFFICES ASSUME q <= -1 PROVE FALSE BY <1>1
  <2>1. q * step <= (0 - 1) * step BY <1>1, ProductGrows
  <2>2. (0 - 1) * step = 0 * step - step /\ 0 * step = 0 BY OneLess
  <2> DEFINE x == q * step
             y == (0 - 1) * step
  <2>3. x >= n /\ x <= y /\ y = 0 * step - step /\ 0 * step = 0 /\ x \in Int
    BY <1>2, <1>3, <2>1, <2>2
  <2> HIDE DEF x, y
  <2> QED BY <2>3
<1>5. n > 0 => q > 0
  <2> SUFFICES ASSUME n > 0, q = 0 PROVE FALSE BY <1>1, <1>4
  <2> QED BY <1>3
<1>6. ASSUME NEW k \in 1..q PROVE (k - 1) * step \in Nat /\ (k - 1) * step < n
  <2>1. k - 1 <= q - 1 /\ 0 <= k - 1 /\ k - 1 \in Int /\ q - 1 \in Int BY <1>1
  <2>2. (k - 1) * step <= (q - 1) * step BY <2>1, ProductGrows
  <2>3. (q - 1) * step = q * step - step BY <1>1, OneLess
  <2>4. 0 * step <= (k - 1) * step /\ (k - 1) * step \in Int BY <2>1, ProductGrows
  <2>5. 0 * step = 0 OBVIOUS
  <2> QED BY <1>2, <1>3, <2>2, <2>3, <2>4, <2>5
<1> QED BY <1>1, <1>3, <1>4, <1>5, <1>6 DEF q

\* A window begins at every step, which is not longer than a window.
LEMMA StepFacts ==
  ASSUME NEW size \in Nat \ {0}, NEW overlap \in Nat
  PROVE  StepOf(size, overlap) \in Nat \ {0} /\ StepOf(size, overlap) <= size
<1>1. StepOf(size, overlap) = IF 1 >= size - overlap THEN 1 ELSE size - overlap
  BY TwoNumbers DEF StepOf
<1> QED BY <1>1

\* The window after u words.
Window(words, size, u) == Cut(words, u + 1, Min({u + size, Len(words)}))

\* w are the windows of a sentence at every step.
AreWindows(w, words, size, step) ==
  /\ w \in Seq(Seq(Nat))
  /\ Len(w) = CountOf(Len(words), step)
  /\ \A k \in 1..Len(w) : w[k] = Window(words, size, (k - 1) * step)

\* A window is a sequence of words.
LEMMA WindowType ==
  ASSUME NEW words \in Seq(Nat), NEW size \in Nat, NEW u \in Nat
  PROVE  Window(words, size, u) \in Seq(Nat)
<1> DEFINE n == Min({u + size, Len(words)})
           t == u + size
<1>1. t \in Int /\ Len(words) \in Int /\ u + 1 \in Int OBVIOUS
<1>2. n = IF t <= Len(words) THEN t ELSE Len(words)
  <2> HIDE DEF t
  <2>1. Min({t, Len(words)}) = IF t <= Len(words) THEN t ELSE Len(words)
    BY <1>1, TwoNumbers
  <2> QED BY <2>1 DEF t
<1> HIDE DEF n, t
<1>3. n \in Int /\ n <= Len(words) BY <1>1, <1>2
<1>4. \A i \in (u + 1)..n : words[i] \in Nat BY <1>3
<1>5. SubSeq(words, u + 1, n) \in Seq(Nat) BY <1>1, <1>3, <1>4, SubSeqProperties
<1> QED BY <1>5 DEF Window, Cut, n

\* What _word_sliding_window returns for any sentence.
LEMMA WindowsAre ==
  ASSUME NEW words \in Seq(Nat), NEW size \in Nat \ {0}, NEW overlap \in Nat
  PROVE  AreWindows(Windows(words, size, overlap), words, size, StepOf(size, overlap))
<1> DEFINE step == StepOf(size, overlap)
           count == CountOf(Len(words), step)
           V == Seq(Nat)
           f == [k \in 1..count |-> Window(words, size, (k - 1) * step)]
<1>0. Len(words) \in Nat OBVIOUS
<1>1. step \in Nat \ {0} BY StepFacts
<1>2. Windows(words, size, overlap) = f
  BY DEF Windows, StepOf, CountOf, Window, Cut
<1> HIDE DEF step
<1>3. count \in Nat /\ \A k \in 1..count : (k - 1) * step \in Nat
  BY <1>0, <1>1, WindowsReach
<1>4. \A k \in 1..count : Window(words, size, (k - 1) * step) \in V
  BY <1>3, WindowType
<1> HIDE DEF V
<1>5. f \in [1..count -> V] BY <1>4
<1>6. \A k \in 1..count : f[k] = Window(words, size, (k - 1) * step) OBVIOUS
<1> HIDE DEF f
<1>7. f \in Seq(V) BY <1>3, <1>5, SeqDef
<1>8. Len(f) = count BY <1>3, <1>5, <1>7
<1> QED BY <1>2, <1>6, <1>7, <1>8 DEF AreWindows, V, step

-----------------------------------------------------------------------------
(* A sentence that is cut into windows.                                      *)

\* One window of a stretch.
LEMMA WindowIsChunk ==
  ASSUME NEW e \in Nat, NEW f \in Nat, e <= f, NEW size \in Nat \ {0},
         NEW u \in Nat, u < f - e
  PROVE  /\ IsChunk(Window(Stretch(e, f), size, u), size)
         /\ Lo(Window(Stretch(e, f), size, u)) = e + u
         /\ Hi(Window(Stretch(e, f), size, u)) = IF e + u + size <= f THEN e + u + size ELSE f
<1> DEFINE x == Stretch(e, f)
           n == f - e
           t == u + size
           m == Min({t, n})
           k == u + 1
           a == e + u
           b == e + m
<1>1. Len(x) = n BY StretchFacts
<1>2. Window(x, size, u) = Cut(x, k, m) BY <1>1 DEF Window
<1>3. t \in Int /\ n \in Nat /\ k \in Nat /\ 1 <= k OBVIOUS
<1>4. m = IF t <= n THEN t ELSE n
  <2>1. t \in Int /\ n \in Int OBVIOUS
  <2> HIDE DEF t, n
  <2>2. Min({t, n}) = IF t <= n THEN t ELSE n BY <2>1, TwoNumbers
  <2> QED BY <2>2
<1> HIDE DEF m
<1>5. m \in Nat /\ k <= m + 1 /\ m <= f - e /\ a \in Nat /\ b \in Nat /\ a < b /\ b - a <= size
      /\ e + k - 1 = a
  BY <1>3, <1>4
<1>6. b = IF e + u + size <= f THEN e + u + size ELSE f BY <1>4
<1> HIDE DEF k, b, a
<1>7. Cut(x, k, m) = Stretch(e + k - 1, e + m) BY <1>3, <1>5, StretchCut
<1>8. Window(x, size, u) = Stretch(a, b) BY <1>2, <1>5, <1>7, Zenon DEF b
<1>9. IsChunk(Stretch(a, b), size) /\ Lo(Stretch(a, b)) = a /\ Hi(Stretch(a, b)) = b
  BY <1>5, StretchIsChunk
<1> HIDE DEF x
<1>10. IsChunk(Window(x, size, u), size) /\ Lo(Window(x, size, u)) = a
       /\ Hi(Window(x, size, u)) = b
  BY <1>8, <1>9, Zenon
<1> QED BY <1>6, <1>10 DEF a, x

\* The windows of a sentence follow each other from its first word to its last.
LEMMA WindowsChain ==
  ASSUME NEW e \in Nat, NEW f \in Nat, e < f, NEW size \in Nat \ {0}, NEW overlap \in Nat
  PROVE  /\ Chain(Windows(Stretch(e, f), size, overlap), e, f, size)
         /\ Windows(Stretch(e, f), size, overlap) # <<>>
<1> DEFINE x == Stretch(e, f)
           w == Windows(x, size, overlap)
           step == StepOf(size, overlap)
           count == CountOf(f - e, step)
           hi(u) == IF e + u + size <= f THEN e + u + size ELSE f
<1>1. x \in Seq(Nat) /\ Len(x) = f - e BY StretchFacts
<1>2. AreWindows(w, x, size, step)
  <2> HIDE DEF x
  <2> QED BY <1>1, WindowsAre
<1>3. step \in Nat \ {0} /\ step <= size BY StepFacts
<1> HIDE DEF w, step
<1>4. f - e \in Nat /\ f - e > 0 OBVIOUS
<1>5. /\ count \in Nat /\ count > 0 /\ f - e <= count * step
      /\ \A k \in 1..count : (k - 1) * step \in Nat /\ (k - 1) * step < f - e
  BY <1>3, <1>4, WindowsReach
<1>6. /\ w \in Seq(Seq(Nat)) /\ Len(w) = count
      /\ \A k \in 1..count : w[k] = Window(x, size, (k - 1) * step)
  <2> HIDE DEF x
  <2> QED BY <1>1, <1>2 DEF AreWindows
<1> HIDE DEF count
<1>7. ASSUME NEW k \in 1..count
      PROVE  IsChunk(w[k], size) /\ Lo(w[k]) = e + (k - 1) * step
             /\ Hi(w[k]) = hi((k - 1) * step)
  <2> DEFINE u == (k - 1) * step
  <2>1. u \in Nat /\ u < f - e /\ e <= f BY <1>5
  <2>2. w[k] = Window(x, size, u) BY <1>6
  <2> HIDE DEF u
  <2>3. IsChunk(Window(x, size, u), size) /\ Lo(Window(x, size, u)) = e + u
        /\ Hi(Window(x, size, u)) = hi(u)
    BY <2>1, WindowIsChunk
  <2> HIDE DEF x
  <2> QED BY <2>2, <2>3 DEF u
<1>8. ASSUME NEW k \in 2..count PROVE Follows(w[k - 1], w[k])
  <2> DEFINE u == (k - 1) * step
             r == ((k - 1) - 1) * step
  <2>1. k - 1 \in 1..count /\ k \in 1..count BY <1>5
  <2>2. r = u - step /\ r \in Nat /\ u \in Nat /\ u < f - e BY <1>3, <1>5, <2>1, OneLess
  <2>3. Lo(w[k]) = e + u /\ Hi(w[k]) = hi(u) BY <1>7, <2>1
  <2>4. Lo(w[k - 1]) = e + r /\ Hi(w[k - 1]) = hi(r) BY <1>7, <2>1
  <2> HIDE DEF u, r
  <2>5. e + r <= e + u /\ e + u <= hi(r) /\ hi(r) <= hi(u) BY <1>3, <2>2
  <2> HIDE DEF hi
  <2> QED BY <2>3, <2>4, <2>5 DEF Follows
<1>9. Lo(w[1]) = e
  <2>1. 1 \in 1..count /\ (1 - 1) * step = 0 BY <1>3, <1>5
  <2> QED BY <1>7, <2>1
<1>10. Hi(w[count]) = f
  <2> DEFINE u == (count - 1) * step
             p == count * step
  <2>1. count \in 1..count BY <1>5
  <2>2. u = p - step /\ u \in Nat /\ p >= f - e /\ p \in Int BY <1>3, <1>5, <2>1, OneLess
  <2>3. Hi(w[count]) = hi(u) BY <1>7, <2>1
  <2> HIDE DEF u, p
  <2>4. hi(u) = f BY <1>3, <2>2
  <2> QED BY <2>3, <2>4
<1>11. w # <<>> BY <1>5, <1>6
<1>12. Chain(w, e, f, size) BY <1>5, <1>6, <1>7, <1>8, <1>9, <1>10, <1>11 DEF Chain
<1> QED BY <1>11, <1>12 DEF w, x

\* The words carried over go into the first chunk.
Carried(x, c) == <<x \o Head(c)>> \o Tail(c)

\* A chain that begins with the words from p on, in a chunk that reaches e.
Begins(d, p, e, f, m) == Chain(d, p, f, m) /\ d # <<>> /\ Lo(d[1]) = p /\ Hi(d[1]) >= e

\* The words of the overlap before the first chunk of a chain.
LEMMA ChainWithPrefix ==
  ASSUME NEW c, NEW e, NEW f, NEW size, NEW p, NEW m,
         Chain(c, e, f, size), c # <<>>, e \in Nat, f \in Nat, size \in Nat, m \in Nat,
         p \in Nat, p <= e, size + (e - p) <= m
  PROVE  Begins(Carried(Stretch(p, e), c), p, e, f, m)
<1> DEFINE x == Stretch(p, e) \o Head(c)
           n == Len(c)
<1>0. m \in Int /\ size <= m OBVIOUS
<1>1. /\ c \in Seq(Seq(Nat)) /\ Head(c) = c[1] /\ n \in Nat /\ n > 0
      /\ Tail(c) \in Seq(Seq(Nat)) /\ Len(Tail(c)) = n - 1
      /\ \A k \in 1..(n - 1) : Tail(c)[k] = c[k + 1]
  BY DEF Chain
<1>2. 1 \in 1..n /\ IsChunk(c[1], size) /\ Lo(c[1]) = e /\ Hi(c[n]) = f BY <1>1 DEF Chain
<1> DEFINE h == Hi(c[1])
<1>3. c[1] = Stretch(e, h) /\ h \in Nat /\ e < h /\ h - e <= size
  BY <1>2 DEF IsChunk
<1> HIDE DEF h
<1>4. x = Stretch(p, h)
  <2>1. h \in Nat /\ e <= h BY <1>3
  <2>2. Stretch(p, e) \o Stretch(e, h) = Stretch(p, h) BY <2>1, StretchConcat
  <2> QED BY <1>1, <1>3, <2>2
<1>5. p < h /\ h - p <= m BY <1>3
<1> HIDE DEF x
<1>6. IsChunk(x, m) /\ Lo(x) = p /\ Hi(x) = h
  BY <1>0, <1>3, <1>4, <1>5, StretchIsChunk
<1> DEFINE d == <<x>> \o Tail(c)
<1>7. x \in Seq(Nat) BY <1>0, <1>6, ChunkFacts
<1>8. /\ d \in Seq(Seq(Nat)) /\ Len(d) = n /\ d[1] = x
      /\ \A k \in 2..n : d[k] = c[k]
  <2> DEFINE t == Tail(c)
             V == Seq(Nat)
  <2>1. t \in Seq(V) /\ Len(t) = n - 1 /\ \A k \in 1..(n - 1) : t[k] = c[k + 1] BY <1>1
  <2>2. x \in V BY <1>7
  <2> HIDE DEF t, V, n
  <2>3. <<x>> \in Seq(V) /\ Len(<<x>>) = 1 /\ <<x>>[1] = x BY <2>2
  <2> DEFINE q == <<x>>
             y == q \o t
  <2>4. y \in Seq(V) /\ Len(y) = n /\ y[1] = x BY <1>1, <2>1, <2>3
  <2>5. ASSUME NEW k \in 2..n PROVE y[k] = c[k]
    <3>1. k - 1 \in 1..(n - 1) /\ (k - 1) + 1 = k BY <1>1
    <3>2. y[k] = t[k - 1] BY <1>1, <2>1, <2>3
    <3> QED BY <2>1, <3>1, <3>2
  <2> QED BY <2>4, <2>5 DEF V, t
<1> HIDE DEF d, n
<1>9. \A k \in 1..Len(d) : IsChunk(d[k], m)
  <2> SUFFICES ASSUME NEW k \in 1..n PROVE IsChunk(d[k], m) BY <1>8
  <2>1. CASE k = 1 BY <1>6, <1>8, <2>1
  <2>2. CASE k # 1
    <3>1. d[k] = c[k] /\ IsChunk(c[k], size) BY <1>1, <1>8, <2>2 DEF Chain, n
    <3> QED BY <1>0, <3>1 DEF IsChunk
  <2> QED BY <2>1, <2>2
<1>10. \A k \in 2..Len(d) : Follows(d[k - 1], d[k])
  <2> SUFFICES ASSUME NEW k \in 2..n PROVE Follows(d[k - 1], d[k]) BY <1>8
  <2>1. Follows(c[k - 1], c[k]) /\ d[k] = c[k] BY <1>1, <1>8 DEF Chain, n
  <2>2. CASE k = 2
    <3>1. k - 1 = 1 /\ d[k - 1] = x BY <1>8, <2>2
    <3>2. Follows(c[1], c[2]) BY <2>1, <2>2
    <3>3. IsChunk(c[2], size) BY <1>1, <2>2 DEF Chain, n
    <3>4. Lo(c[2]) \in Nat BY <3>3 DEF IsChunk
    <3>5. Follows(x, c[2]) BY <1>2, <1>6, <3>2, <3>4 DEF Follows, h
    <3> QED BY <2>1, <2>2, <3>1, <3>5
  <2>3. CASE k # 2
    <3>1. k - 1 \in 2..n BY <1>1, <2>3
    <3>2. d[k - 1] = c[k - 1] BY <1>8, <3>1
    <3> QED BY <2>1, <3>2
  <2> QED BY <2>2, <2>3
<1>11. Hi(d[n]) = f
  <2>1. CASE n = 1 BY <1>2, <1>6, <1>8, <2>1 DEF h
  <2>2. CASE n # 1
    <3>1. n \in 2..n BY <1>1, <2>2
    <3> QED BY <1>2, <1>8, <3>1
  <2> QED BY <2>1, <2>2
<1>12. d # <<>> BY <1>1, <1>8
<1>13. Chain(d, p, f, m) BY <1>6, <1>8, <1>9, <1>10, <1>11, <1>12 DEF Chain
<1>14. Lo(d[1]) = p /\ Hi(d[1]) >= e BY <1>3, <1>6, <1>8
<1>15. Begins(d, p, e, f, m) BY <1>12, <1>13, <1>14 DEF Begins
<1> QED BY <1>15, Zenon DEF d, x, Carried

-----------------------------------------------------------------------------
(* A paragraph that is cut by its sentences.                                 *)

\* What _split_paragraph holds between two sentences
Cuts == [out : Seq(Seq(Nat)), current : Seq(Nat), prefix : Seq(Nat)]

\* The last words of a sequence of words.
LEMMA LastWordsType ==
  ASSUME NEW words \in Seq(Nat), NEW n \in Nat
  PROVE  LastWords(words, n) \in Seq(Nat)
<1> DEFINE m == IF Len(words) > n THEN Len(words) - n + 1 ELSE 1
           k == Len(words)
<1>1. m \in Int /\ m >= 1 /\ k \in Int OBVIOUS
<1> HIDE DEF m
<1>2. \A i \in m..k : words[i] \in Nat BY <1>1
<1>3. SubSeq(words, m, k) \in Seq(Nat) BY <1>1, <1>2, SubSeqProperties
<1>4. CASE n <= 0 BY <1>4 DEF LastWords
<1>5. CASE ~(n <= 0)
  <2>1. LastWords(words, n) = SubSeq(words, m, k) BY <1>5, Zenon DEF LastWords, m
  <2> QED BY <1>3, <2>1, Zenon
<1> QED BY <1>4, <1>5

\* Closing a chunk keeps the shape.
LEMMA FlushType ==
  ASSUME NEW s \in Cuts, NEW overlap \in Nat
  PROVE  /\ Flush(s, overlap) \in Cuts /\ Flush(s, overlap).current = <<>>
         /\ Flushed(s) \in Seq(Nat)
<1>1. s.out \in Seq(Seq(Nat)) /\ s.current \in Seq(Nat) /\ s.prefix \in Seq(Nat) BY DEF Cuts
<1>2. Flushed(s) \in Seq(Nat) BY <1>1 DEF Flushed
<1>3. LastWords(Flushed(s), overlap) \in Seq(Nat) BY <1>2, LastWordsType
<1>4. Append(s.out, Flushed(s)) \in Seq(Seq(Nat)) BY <1>1, <1>2
<1>5. CASE s.current = <<>> BY <1>2, <1>5 DEF Flush
<1>6. CASE s.current # <<>> BY <1>2, <1>3, <1>4, <1>6 DEF Flush, Cuts
<1> QED BY <1>5, <1>6

\* A chunk of the words carried over and the first window, then the other windows.
LEMMA WithPrefixType ==
  ASSUME NEW c \in Seq(Seq(Nat)), c # <<>>, NEW x \in Seq(Nat)
  PROVE  /\ <<x \o Head(c)>> \o Tail(c) \in Seq(Seq(Nat))
         /\ Last(<<x \o Head(c)>> \o Tail(c)) \in Seq(Nat)
<1> DEFINE V == Seq(Nat)
           y == x \o Head(c)
           q == <<y>>
           t == Tail(c)
           d == q \o t
<1>1. Head(c) \in V /\ t \in Seq(V) OBVIOUS
<1>2. y \in V BY <1>1
<1> HIDE DEF y, t, V
<1>3. q \in Seq(V) /\ Len(q) = 1 BY <1>2
<1> HIDE DEF q
<1>4. d \in Seq(V) /\ Len(d) = 1 + Len(t) /\ Len(t) \in Nat
  <2>1. d \in Seq(V) /\ Len(d) = Len(q) + Len(t) BY <1>1, <1>3, ConcatProperties
  <2> QED BY <1>1, <1>3, <2>1
<1> HIDE DEF d
<1>5. Len(d) \in 1..Len(d) BY <1>4
<1>6. d[Len(d)] \in V BY <1>4, <1>5
<1> QED BY <1>4, <1>6 DEF Last, d, q, t, y, V

\* Adding a long sentence keeps the shape.
LEMMA AddLongSentenceType ==
  ASSUME NEW s \in Cuts, NEW x \in Seq(Nat), NEW size \in Nat \ {0}, NEW overlap \in Nat,
         Len(x) > size
  PROVE  AddLongSentence(s, x, size, overlap) \in Cuts
<1> DEFINE t == Flush(s, overlap)
           c == Windows(x, size, overlap)
           d == <<t.prefix \o Head(c)>> \o Tail(c)
<1>1. t \in Cuts BY FlushType
<1> HIDE DEF t
<1>2. t.out \in Seq(Seq(Nat)) /\ t.prefix \in Seq(Nat) BY <1>1 DEF Cuts
<1>3. AreWindows(c, x, size, StepOf(size, overlap)) BY WindowsAre
<1>4. StepOf(size, overlap) \in Nat \ {0} /\ Len(x) \in Nat /\ Len(x) > 0
  <2>1. Len(x) \in Nat OBVIOUS
  <2>2. Len(x) > 0 BY <2>1
  <2>3. StepOf(size, overlap) \in Nat \ {0} BY StepFacts
  <2> QED BY <2>1, <2>2, <2>3, Zenon
<1>5. CountOf(Len(x), StepOf(size, overlap)) > 0 BY <1>4, WindowsReach
<1> HIDE DEF c
<1>6. c \in Seq(Seq(Nat)) /\ c # <<>> BY <1>3, <1>5 DEF AreWindows
<1>7. d \in Seq(Seq(Nat)) /\ Last(d) \in Seq(Nat) BY <1>2, <1>6, WithPrefixType
<1>8. AddLongSentence(s, x, size, overlap) =
        [out |-> t.out \o d, current |-> <<>>, prefix |-> LastWords(Last(d), overlap)]
  BY Zenon DEF AddLongSentence, t, c
<1> HIDE DEF d
<1>9. t.out \o d \in Seq(Seq(Nat)) BY <1>2, <1>7
<1>10. LastWords(Last(d), overlap) \in Seq(Nat) BY <1>7, LastWordsType
<1>11. <<>> \in Seq(Nat) OBVIOUS
<1> QED BY <1>8, <1>9, <1>10, <1>11 DEF Cuts

\* Adding a sentence keeps the shape.
LEMMA AddSentenceType ==
  ASSUME NEW s \in Cuts, NEW x \in Seq(Nat), NEW size \in Nat \ {0}, NEW overlap \in Nat
  PROVE  AddSentence(s, x, size, overlap) \in Cuts
<1>1. s.current \in Seq(Nat) BY DEF Cuts
<1>2. CASE Len(x) > size
  <2>1. AddSentence(s, x, size, overlap) = AddLongSentence(s, x, size, overlap)
    BY <1>2 DEF AddSentence
  <2> QED BY <1>2, <2>1, AddLongSentenceType
<1>3. CASE Len(x) <= size /\ Len(s.current) + Len(x) <= size
  <2>1. AddSentence(s, x, size, overlap) = [s EXCEPT !.current = @ \o x]
    BY <1>1, <1>3 DEF AddSentence
  <2>2. s.current \o x \in Seq(Nat) BY <1>1
  <2> QED BY <2>1, <2>2 DEF Cuts
<1>4. CASE Len(x) <= size /\ ~(Len(s.current) + Len(x) <= size)
  <2>1. AddSentence(s, x, size, overlap) = [Flush(s, overlap) EXCEPT !.current = x]
    BY <1>1, <1>4 DEF AddSentence
  <2>2. Flush(s, overlap) \in Cuts BY FlushType
  <2> QED BY <2>1, <2>2 DEF Cuts
<1>5. Len(x) \in Nat /\ Len(s.current) \in Nat BY <1>1
<1> QED BY <1>2, <1>3, <1>4, <1>5

\* What was appended is the last element.
LEMMA AppendLast ==
  ASSUME NEW V, NEW o \in Seq(V), NEW x \in V
  PROVE  Append(o, x) # <<>> /\ Append(o, x)[Len(Append(o, x))] = x
<1>1. Len(o) \in Nat /\ Len(Append(o, x)) = Len(o) + 1 OBVIOUS
<1>2. Append(o, x)[Len(o) + 1] = x BY <1>1
<1>3. Append(o, x) # <<>> BY <1>1
<1> QED BY <1>1, <1>2, <1>3

\* Of the words after the first a, the chunks reach up to word e, the words after it
\* up to m are gathered, and those after p are carried over.
Halfway(s, a, m, size, overlap, p, e) ==
  /\ p \in Nat /\ e \in Nat /\ p <= e /\ e <= m
  /\ e - p <= overlap /\ m - e <= size
  /\ Chain(s.out, a, e, size + overlap)
  /\ s.prefix = Stretch(p, e) /\ s.current = Stretch(e, m)
  /\ s.out = <<>> => p = e
  /\ s.out # <<>> => Lo(s.out[Len(s.out)]) <= p

\* That is where a paragraph stands after the first m words of the page.
Splitting(s, a, m, size, overlap) ==
  s \in Cuts /\ \E p, e : Halfway(s, a, m, size, overlap, p, e)

\* A chunk that is closed takes the words carried over and the words gathered.
LEMMA FlushSplits ==
  ASSUME NEW a \in Nat, NEW m \in Nat, NEW size \in Nat \ {0}, NEW overlap \in Nat,
         NEW s, Splitting(s, a, m, size, overlap)
  PROVE  \E p : Halfway(Flush(s, overlap), a, m, size, overlap, p, m)
<1> DEFINE t == Flush(s, overlap)
           n == size + overlap
<1>1. PICK p, e : Halfway(s, a, m, size, overlap, p, e) BY DEF Splitting
<1>2. s \in Cuts BY DEF Splitting
<1>3. p \in Nat /\ e \in Nat /\ p <= e /\ e <= m /\ e - p <= overlap /\ m - e <= size
      /\ Chain(s.out, a, e, n) /\ s.prefix = Stretch(p, e) /\ s.current = Stretch(e, m)
      /\ (s.out = <<>> => p = e) /\ (s.out # <<>> => Lo(s.out[Len(s.out)]) <= p)
  BY <1>1, Zenon DEF Halfway
<1>4. s.current = <<>> <=> e = m
  <2>1. Stretch(e, m) = <<>> <=> e = m BY <1>3, StretchFacts
  <2> QED BY <1>3, <2>1, Zenon
<1>5. CASE e = m
  <2>1. t = s BY <1>4, <1>5 DEF Flush
  <2> QED BY <1>1, <1>5, <2>1
<1>6. CASE e # m
  <2>0. e < m BY <1>3, <1>6
  <2>1. Flushed(s) = Stretch(p, m)
    <3>1. Flushed(s) = Stretch(p, e) \o Stretch(e, m) BY <1>3, Zenon DEF Flushed
    <3>2. Stretch(p, e) \o Stretch(e, m) = Stretch(p, m) BY <1>3, StretchConcat
    <3> QED BY <3>1, <3>2, Zenon
  <2>2. /\ t.out = Append(s.out, Stretch(p, m)) /\ t.current = <<>>
        /\ t.prefix = LastWords(Stretch(p, m), overlap)
    <3>1. s.current # <<>> BY <1>4, <1>6
    <3> HIDE DEF t
    <3>2. t = [out |-> Append(s.out, Flushed(s)), current |-> <<>>,
               prefix |-> LastWords(Flushed(s), overlap)]
      BY <3>1, Zenon DEF Flush, t
    <3>3. t = [out |-> Append(s.out, Stretch(p, m)), current |-> <<>>,
               prefix |-> LastWords(Stretch(p, m), overlap)]
      BY <2>1, <3>2, Zenon
    <3> QED BY <3>3
  <2> HIDE DEF t
  <2> DEFINE x == Stretch(p, m)
  <2>3. IsChunk(x, n) /\ Lo(x) = p /\ Hi(x) = m
    <3>1. p < m /\ m - p <= n /\ n \in Int BY <1>3, <2>0
    <3> HIDE DEF n
    <3> QED BY <1>3, <3>1, StretchIsChunk
  <2>4. s.out = <<>> => a = p BY <1>3 DEF Chain
  <2>5. s.out # <<>> => Follows(s.out[Len(s.out)], x)
    <3> SUFFICES ASSUME s.out # <<>> PROVE Follows(s.out[Len(s.out)], x) OBVIOUS
    <3> DEFINE y == s.out[Len(s.out)]
    <3>1. Hi(y) = e /\ Lo(y) <= p BY <1>3 DEF Chain
    <3> HIDE DEF x, y
    <3> QED BY <1>3, <2>0, <2>3, <3>1 DEF Follows, y
  <2> HIDE DEF x
  <2>6. Chain(Append(s.out, x), a, m, n)
    <3>1. n \in Int OBVIOUS
    <3> HIDE DEF n
    <3>2. Chain(Append(s.out, x), a, Hi(x), n) BY <1>3, <2>3, <2>4, <2>5, <3>1, ChainAppend
    <3> QED BY <2>3, <3>2
  <2>7. PICK q \in Nat : /\ p <= q /\ q <= m /\ m - q <= overlap
                         /\ LastWords(Stretch(p, m), overlap) = Stretch(q, m)
    <3>1. p <= m BY <1>3, <2>0
    <3> QED BY <1>3, <3>1, LastWordsOf
  <2>8. t.out # <<>> /\ t.out[Len(t.out)] = x
    <3>1. s.out \in Seq(Seq(Nat)) BY <1>2 DEF Cuts
    <3>2. t.out = Append(s.out, x) BY <2>2 DEF x
    <3>3. x \in Seq(Nat)
      <4>1. n \in Int OBVIOUS
      <4> QED BY <2>3, <4>1, ChunkFacts
    <3>4. /\ Append(s.out, x) # <<>>
          /\ Append(s.out, x)[Len(Append(s.out, x))] = x
      BY <3>1, <3>3, AppendLast, Zenon
    <3> QED BY <3>2, <3>4, Zenon
  <2>9. Stretch(m, m) = <<>> /\ m - m <= size BY StretchFacts
  <2>10. Chain(t.out, a, m, n) BY <2>2, <2>6, Zenon DEF x
  <2>11. Lo(t.out[Len(t.out)]) <= q BY <1>3, <2>3, <2>7, <2>8
  <2>12. t.prefix = Stretch(q, m) /\ t.current = Stretch(m, m) BY <2>2, <2>7, <2>9, Zenon
  <2>13. Halfway(t, a, m, size, overlap, q, m)
    <3>1. m <= m OBVIOUS
    <3> QED BY <2>7, <2>8, <2>9, <2>10, <2>11, <2>12, <3>1, Zenon DEF Halfway, n
  <2> QED BY <2>13 DEF t
<1> QED BY <1>5, <1>6

\* The last chunk of two chains together is that of the second.
LEMMA ConcatLast ==
  ASSUME NEW V, NEW c \in Seq(V), NEW d \in Seq(V), d # <<>>
  PROVE  c \o d # <<>> /\ (c \o d)[Len(c \o d)] = d[Len(d)]
<1>1. Len(c) \in Nat /\ Len(d) \in Nat /\ Len(d) > 0 /\ Len(c \o d) = Len(c) + Len(d)
  OBVIOUS
<1>2. (c \o d)[Len(c) + Len(d)] = d[Len(d)] BY <1>1
<1>3. c \o d # <<>> BY <1>1
<1> QED BY <1>1, <1>2, <1>3

\* A long sentence: its windows, the first of them with the words carried over.
LEMMA LongSentenceSplits ==
  ASSUME NEW a \in Nat, NEW m \in Nat, NEW f \in Nat, NEW size \in Nat \ {0}, NEW overlap \in Nat,
         NEW s, Splitting(s, a, m, size, overlap), m <= f, f - m > size
  PROVE  Splitting(AddLongSentence(s, Stretch(m, f), size, overlap), a, f, size, overlap)
<1> DEFINE x == Stretch(m, f)
           t == Flush(s, overlap)
           c == Windows(x, size, overlap)
           n == size + overlap
           u == AddLongSentence(s, x, size, overlap)
<1>1. PICK p : Halfway(t, a, m, size, overlap, p, m) BY FlushSplits
<1>2. /\ p \in Nat /\ p <= m /\ m - p <= overlap /\ Chain(t.out, a, m, n)
      /\ t.prefix = Stretch(p, m) /\ (t.out = <<>> => p = m)
      /\ (t.out # <<>> => Lo(t.out[Len(t.out)]) <= p)
  BY <1>1, Zenon DEF Halfway
<1>3. Chain(c, m, f, size) /\ c # <<>>
  <2>1. m < f OBVIOUS
  <2> QED BY <2>1, WindowsChain
<1> DEFINE d == Carried(Stretch(p, m), c)
<1>4. Chain(d, p, f, n) /\ d # <<>> /\ Lo(d[1]) = p /\ Hi(d[1]) >= m
  <2>1. size \in Nat /\ m \in Nat /\ f \in Nat OBVIOUS
  <2> HIDE DEF c
  <2>2. p \in Nat /\ p <= m /\ size + (m - p) <= n /\ n \in Nat BY <1>2
  <2> HIDE DEF n
  <2>3. Begins(Carried(Stretch(p, m), c), p, m, f, n)
    BY <1>3, <2>1, <2>2, ChainWithPrefix, Zenon
  <2> QED BY <2>3 DEF Begins
<1>5. u = [out |-> t.out \o d, current |-> <<>>, prefix |-> LastWords(Last(d), overlap)]
  BY <1>2, Zenon DEF AddLongSentence, Carried
<1> HIDE DEF t, c, u, d
<1>6. t.out = <<>> => a = p BY <1>2 DEF Chain
<1>7. t.out # <<>> => Follows(t.out[Len(t.out)], d[1])
  <2> SUFFICES ASSUME t.out # <<>> PROVE Follows(t.out[Len(t.out)], d[1]) OBVIOUS
  <2> DEFINE y == t.out[Len(t.out)]
             z == d[1]
  <2>1. Hi(y) = m /\ Lo(y) <= p BY <1>2 DEF Chain
  <2>2. Lo(z) = p /\ Hi(z) >= m /\ p <= m BY <1>2, <1>4
  <2> HIDE DEF y, z
  <2>3. Follows(y, z) BY <1>2, <2>1, <2>2 DEF Follows
  <2> QED BY <2>3 DEF y, z
<1>8. Chain(t.out \o d, a, f, n) BY <1>2, <1>4, <1>6, <1>7, ChainConcat
<1>9. n \in Int OBVIOUS
<1> HIDE DEF n
<1> DEFINE l == d[Len(d)]
<1>10. IsChunk(l, n) /\ Hi(l) = f
  <2>1. d \in Seq(Seq(Nat)) BY <1>4 DEF Chain
  <2>2. Len(d) \in 1..Len(d) BY <1>4, <2>1
  <2> QED BY <1>4, <2>2 DEF Chain
<1>11. Last(d) = l BY DEF Last
<1> HIDE DEF l
<1> DEFINE b == Lo(l)
<1>12. b \in Nat /\ b <= f /\ l = Stretch(b, f)
  <2>1. Lo(l) \in Nat /\ Lo(l) < Hi(l) /\ l = Stretch(Lo(l), Hi(l)) BY <1>9, <1>10, ChunkFacts
  <2> QED BY <1>10, <2>1
<1> HIDE DEF b
<1>13. PICK q \in Nat : /\ b <= q /\ q <= f /\ f - q <= overlap
                        /\ LastWords(Stretch(b, f), overlap) = Stretch(q, f)
  BY <1>12, LastWordsOf
<1> DEFINE o == t.out \o d
<1>14. o # <<>> /\ o[Len(o)] = l
  <2>1. t.out \in Seq(Seq(Nat)) /\ d \in Seq(Seq(Nat)) BY <1>2, <1>4 DEF Chain
  <2>2. t.out \o d # <<>> /\ (t.out \o d)[Len(t.out \o d)] = d[Len(d)]
    BY <1>4, <2>1, ConcatLast
  <2> QED BY <2>2 DEF l
<1> HIDE DEF o
<1>15. u.out = o /\ u.current = <<>> /\ u.prefix = Stretch(q, f)
  <2>1. LastWords(Last(d), overlap) = Stretch(q, f) BY <1>11, <1>12, <1>13, Zenon
  <2>2. u = [out |-> o, current |-> <<>>, prefix |-> Stretch(q, f)]
    BY <1>5, <2>1, Zenon DEF o
  <2> QED BY <2>2
<1>16. Stretch(f, f) = <<>> /\ f - f <= size /\ f <= f BY StretchFacts
<1>17. Chain(u.out, a, f, n) BY <1>8, <1>15, Zenon DEF o
<1>18. Lo(u.out[Len(u.out)]) <= q BY <1>13, <1>14, <1>15 DEF b
<1>19. Halfway(u, a, f, size, overlap, q, f)
  BY <1>13, <1>14, <1>15, <1>16, <1>17, <1>18, Zenon DEF Halfway, n
<1>20. u \in Cuts
  <2>1. Stretch(m, f) \in Seq(Nat) /\ Len(Stretch(m, f)) = f - m BY StretchFacts
  <2>2. s \in Cuts BY DEF Splitting
  <2> HIDE DEF x
  <2>3. x \in Seq(Nat) /\ Len(x) > size BY <2>1 DEF x
  <2> QED BY <2>2, <2>3, AddLongSentenceType DEF u
<1> QED BY <1>19, <1>20 DEF Splitting, u

\* One sentence more.
LEMMA SentenceSplits ==
  ASSUME NEW a \in Nat, NEW m \in Nat, NEW f \in Nat, NEW size \in Nat \ {0}, NEW overlap \in Nat,
         NEW s, Splitting(s, a, m, size, overlap), m <= f
  PROVE  Splitting(AddSentence(s, Stretch(m, f), size, overlap), a, f, size, overlap)
<1> DEFINE x == Stretch(m, f)
           n == size + overlap
           u == AddSentence(s, x, size, overlap)
<1>1. x \in Seq(Nat) /\ Len(x) = f - m BY StretchFacts
<1>2. s \in Cuts BY DEF Splitting
<1>3. u \in Cuts
  <2> HIDE DEF x
  <2> QED BY <1>1, <1>2, AddSentenceType
<1>4. PICK p, e : Halfway(s, a, m, size, overlap, p, e) BY DEF Splitting
<1>5. p \in Nat /\ e \in Nat /\ p <= e /\ e <= m /\ e - p <= overlap /\ m - e <= size
      /\ Chain(s.out, a, e, n) /\ s.prefix = Stretch(p, e) /\ s.current = Stretch(e, m)
      /\ (s.out = <<>> => p = e) /\ (s.out # <<>> => Lo(s.out[Len(s.out)]) <= p)
  BY <1>4, Zenon DEF Halfway
<1>6. Len(s.current) = m - e
  <2>1. Len(Stretch(e, m)) = m - e BY <1>5, StretchFacts
  <2> QED BY <1>5, <2>1, Zenon
<1> HIDE DEF x
<1>7. CASE f - m > size
  <2>1. u = AddLongSentence(s, x, size, overlap) BY <1>1, <1>7 DEF AddSentence
  <2>2. Splitting(AddLongSentence(s, x, size, overlap), a, f, size, overlap)
    BY <1>7, LongSentenceSplits DEF x
  <2> QED BY <2>1, <2>2, Zenon DEF x
<1>8. CASE f - m <= size /\ (m - e) + (f - m) <= size
  <2>1. u = [s EXCEPT !.current = @ \o x] BY <1>1, <1>6, <1>8 DEF AddSentence
  <2>2. s.current \o x = Stretch(e, f)
    <3>1. Stretch(e, m) \o Stretch(m, f) = Stretch(e, f) BY <1>5, StretchConcat
    <3> QED BY <1>5, <3>1, Zenon DEF x
  <2> DEFINE v == s.current \o x
  <2>3. u = [s EXCEPT !.current = v] BY <2>1
  <2> HIDE DEF v, u
  <2>4. u.out = s.out /\ u.prefix = s.prefix /\ u.current = v BY <1>2, <2>3 DEF Cuts
  <2>5. u.current = Stretch(e, f) BY <2>2, <2>4, Zenon DEF v
  <2>6. e <= f /\ f - e <= size BY <1>5, <1>8
  <2>7. Halfway(u, a, f, size, overlap, p, e)
    BY <1>5, <2>4, <2>5, <2>6, Zenon DEF Halfway, n
  <2> QED BY <1>3, <2>7 DEF Splitting, u, x
<1>9. CASE f - m <= size /\ ~((m - e) + (f - m) <= size)
  <2> DEFINE t == Flush(s, overlap)
  <2>1. u = [t EXCEPT !.current = x] BY <1>1, <1>6, <1>9 DEF AddSentence
  <2>2. PICK q : Halfway(t, a, m, size, overlap, q, m) BY FlushSplits
  <2>3. t \in Cuts BY <1>2, FlushType
  <2> HIDE DEF t, u
  <2>4. u.out = t.out /\ u.prefix = t.prefix /\ u.current = x BY <2>1, <2>3 DEF Cuts
  <2>5. Halfway(u, a, f, size, overlap, q, m)
    <3>1. q \in Nat /\ q <= m /\ m - q <= overlap /\ Chain(t.out, a, m, n)
          /\ t.prefix = Stretch(q, m) /\ (t.out = <<>> => q = m)
          /\ (t.out # <<>> => Lo(t.out[Len(t.out)]) <= q)
      BY <2>2, Zenon DEF Halfway
    <3> QED BY <1>9, <2>4, <3>1, Zenon DEF Halfway, n, x
  <2> QED BY <1>3, <2>5 DEF Splitting, u, x
<1>10. f - m \in Int /\ m - e \in Int BY <1>5
<1> QED BY <1>7, <1>8, <1>9, <1>10

\* Two sequences that make up a stretch are stretches that meet.
LEMMA StretchParts ==
  ASSUME NEW a \in Nat, NEW b \in Nat, a <= b, NEW x \in Seq(Nat), NEW y \in Seq(Nat),
         x \o y = Stretch(a, b)
  PROVE  \E c \in Nat : a <= c /\ c <= b /\ x = Stretch(a, c) /\ y = Stretch(c, b)
<1> DEFINE z == Stretch(a, b)
           c == a + Len(x)
           u == Stretch(a, c)
           v == Stretch(c, b)
<1>1. z \in Seq(Nat) /\ Len(z) = b - a /\ \A i \in 1..(b - a) : z[i] = a + i
  BY StretchFacts
<1>2. Len(x) \in Nat /\ Len(y) \in Nat /\ x \o y = z OBVIOUS
<1> HIDE DEF z
<1>3. /\ Len(x) + Len(y) = b - a
      /\ \A i \in 1..Len(x) : x[i] = z[i]
      /\ \A i \in 1..Len(y) : y[i] = z[Len(x) + i]
  <2> DEFINE w == x \o y
  <2>1. /\ Len(w) = Len(x) + Len(y)
        /\ \A i \in 1..Len(x) : x[i] = w[i]
        /\ \A i \in 1..Len(y) : y[i] = w[Len(x) + i]
    OBVIOUS
  <2>2. w = z BY <1>2
  <2> HIDE DEF w
  <2> QED BY <1>1, <2>1, <2>2
<1>4. c \in Nat /\ a <= c /\ c <= b BY <1>2, <1>3
<1> HIDE DEF c
<1>5. u \in Seq(Nat) /\ Len(u) = c - a /\ \A i \in 1..(c - a) : u[i] = a + i
  BY <1>4, StretchFacts
<1>6. v \in Seq(Nat) /\ Len(v) = b - c /\ \A i \in 1..(b - c) : v[i] = c + i
  BY <1>4, StretchFacts
<1> HIDE DEF u, v
<1>7. Len(x) = c - a /\ Len(y) = b - c BY <1>2, <1>3 DEF c
<1>8. \A i \in 1..Len(x) : x[i] = u[i] BY <1>1, <1>3, <1>4, <1>5, <1>7
<1>9. \A i \in 1..Len(y) : y[i] = v[i]
  <2> SUFFICES ASSUME NEW i \in 1..Len(y) PROVE y[i] = v[i] OBVIOUS
  <2>1. Len(x) + i \in 1..(b - a) /\ a + (Len(x) + i) = c + i BY <1>2, <1>3, <1>4, <1>7
  <2> QED BY <1>1, <1>3, <1>6, <1>7, <2>1
<1>10. x = u BY <1>5, <1>7, <1>8, SameSeq
<1>11. y = v BY <1>6, <1>7, <1>9, SameSeq
<1> QED BY <1>4, <1>10, <1>11 DEF u, v

\* o holds the word at which each of the parts s of a stretch ends.
Offsets(o, s, lo, hi) ==
  /\ o \in [0..Len(s) -> Nat]
  /\ o[0] = lo /\ o[Len(s)] = hi
  /\ \A k \in 1..Len(s) : o[k - 1] <= o[k] /\ s[k] = Stretch(o[k - 1], o[k])

\* Sequences that make up a stretch are stretches that meet.
LEMMA StretchFlattened ==
  ASSUME NEW lo \in Nat, NEW hi \in Nat, lo <= hi, NEW s \in Seq(Seq(Nat)),
         FlattenSeq(s) = Stretch(lo, hi)
  PROVE  \E o : Offsets(o, s, lo, hi)
<1> DEFINE n == Len(s)
<1>1. PICK a : Flattens(a, s, Nat) /\ a[Len(s)] = FlattenSeq(s) BY FlattenSteps
<1>2. /\ a \in [0..n -> Seq(Nat)] /\ a[0] = <<>> /\ a[n] = Stretch(lo, hi)
      /\ \A k \in 1..n : a[k] = a[k - 1] \o s[k]
  BY <1>1 DEF Flattens
<1>3. n \in Nat /\ \A k \in 1..n : s[k] \in Seq(Nat) OBVIOUS
<1> HIDE DEF n
<1> DEFINE o == [k \in 0..n |-> lo + Len(a[k])]
           Good(k) == lo <= o[k] /\ o[k] <= hi /\ a[k] = Stretch(lo, o[k])
           Back(k) == o[k - 1] <= o[k] /\ s[k] = Stretch(o[k - 1], o[k])
           S == {j \in Nat : j <= n => Good(n - j)}
<1>4. \A k \in 0..n : o[k] = lo + Len(a[k]) /\ o[k] \in Nat BY <1>2
<1>5. o \in [0..n -> Nat] BY <1>2
<1> HIDE DEF o
<1>6. ASSUME NEW c \in Nat, lo <= c, NEW k \in 0..n, a[k] = Stretch(lo, c)
      PROVE  o[k] = c
  <2>1. Len(Stretch(lo, c)) = c - lo BY <1>6, StretchFacts
  <2> QED BY <1>4, <1>6, <2>1
<1>7. Good(n)
  <2>1. n \in 0..n BY <1>3
  <2>2. o[n] = hi BY <1>2, <1>6, <2>1
  <2> QED BY <1>2, <2>2
<1>8. ASSUME NEW k \in 1..n, Good(k) PROVE Good(k - 1) /\ Back(k)
  <2>1. k - 1 \in 0..n /\ k \in 0..n BY <1>3
  <2>2. a[k - 1] \in Seq(Nat) /\ s[k] \in Seq(Nat) /\ o[k] \in Nat BY <1>2, <1>3, <1>4, <2>1
  <2>3. a[k - 1] \o s[k] = Stretch(lo, o[k]) BY <1>2, <1>8
  <2>4. PICK c \in Nat : lo <= c /\ c <= o[k] /\ a[k - 1] = Stretch(lo, c)
                         /\ s[k] = Stretch(c, o[k])
    BY <1>8, <2>2, <2>3, StretchParts
  <2>5. o[k - 1] = c BY <1>6, <2>1, <2>4
  <2>6. c <= hi BY <1>8, <2>2, <2>4
  <2> QED BY <2>4, <2>5, <2>6
<1> HIDE DEF Good, Back
<1>9. 0 \in S BY <1>3, <1>7
<1>10. ASSUME NEW j \in S PROVE j + 1 \in S
  <2>1. j \in Nat OBVIOUS
  <2> SUFFICES ASSUME j + 1 <= n PROVE Good(n - (j + 1)) BY <2>1
  <2>2. Good(n - j) BY <1>3, <2>1
  <2>3. n - j \in 1..n /\ (n - j) - 1 = n - (j + 1) BY <1>3, <2>1
  <2> QED BY <1>8, <2>2, <2>3
<1>11. S = Nat BY <1>9, <1>10, InductionOverNat
<1>12. \A k \in 0..n : Good(k)
  <2>1. \A j \in S : j <= n => Good(n - j) OBVIOUS
  <2> HIDE DEF S
  <2>2. \A k \in 0..n : n - k \in Nat /\ n - k <= n /\ n - (n - k) = k BY <1>3
  <2> QED BY <1>11, <2>1, <2>2
<1>13. \A k \in 1..n : Back(k)
  <2>1. \A k \in 1..n : k \in 0..n BY <1>3
  <2> QED BY <1>8, <1>12, <2>1
<1>14. o[0] = lo
  <2>1. 0 \in 0..n BY <1>3
  <2>2. Stretch(lo, lo) = <<>> BY StretchFacts
  <2> QED BY <1>2, <1>6, <2>1, <2>2
<1>15. o[n] = hi
  <2>1. n \in 0..n BY <1>3
  <2> QED BY <1>2, <1>6, <2>1
<1>16. Offsets(o, s, lo, hi) BY <1>5, <1>13, <1>14, <1>15 DEF Offsets, Back, n
<1> QED BY <1>16

\* A chunk that is closed at the end, and what is left open: the sentences of a
\* paragraph one after the other.
SplitFolds(a, paragraph, size, overlap) ==
  /\ a \in [0..Len(paragraph) -> Cuts]
  /\ a[0] = [out |-> <<>>, current |-> <<>>, prefix |-> <<>>]
  /\ \A k \in 1..Len(paragraph) : a[k] = AddSentence(a[k - 1], paragraph[k], size, overlap)

\* What _split_paragraph goes through.
LEMMA SplitSteps ==
  ASSUME NEW s \in Seq(Seq(Nat)), NEW size \in Nat \ {0}, NEW overlap \in Nat
  PROVE  \E a : /\ SplitFolds(a, s, size, overlap)
                /\ SplitParagraph(s, size, overlap) = Flush(a[Len(s)], overlap).out
<1> DEFINE n == Len(s)
           V == Seq(Nat)
           base == [out |-> <<>>, current |-> <<>>, prefix |-> <<>>]
           F == [u \in Cuts |-> [x \in V |-> AddSentence(u, x, size, overlap)]]
           IsFold(g) == g = [T \in SUBSET DOMAIN s |->
                              IF T = {} THEN base
                              ELSE AddSentence(g[T \ {Max(T)}], s[Max(T)], size, overlap)]
           g == CHOOSE g : IsFold(g)
<1>1. s \in Seq(V) /\ n \in Nat /\ DOMAIN s = 1..n /\ \A k \in 1..n : s[k] \in V OBVIOUS
<1>2. F \in [Cuts -> [V -> Cuts]] BY AddSentenceType
<1>3. base \in Cuts BY DEF Cuts
<1>4. \A u \in Cuts, x \in V : F[u][x] = AddSentence(u, x, size, overlap) OBVIOUS
<1>5. SplitParagraph(s, size, overlap) = Flush(g[DOMAIN s], overlap).out
  BY DEF SplitParagraph, FoldLeft, MapThenFoldSet, Max
<1> HIDE DEF F, V, base
<1>6. \A T \in SUBSET (1..n) : T # {} => Max(T) \in T BY <1>1, LargestNumber
<1>7. PICK h \in [SUBSET (1..n) -> Cuts] : Folds(h, n, F, base, s)
  BY <1>1, <1>2, <1>3, FoldExists
<1>8. IsFold(h)
  <2>1. ASSUME NEW T \in SUBSET (1..n)
        PROVE  h[T] = IF T = {} THEN base
                      ELSE AddSentence(h[T \ {Max(T)}], s[Max(T)], size, overlap)
    <3>1. CASE T = {} BY <1>7, <3>1 DEF Folds
    <3>2. CASE T # {}
      <4>1. s[Max(T)] \in V BY <1>1, <1>6, <3>2
      <4>2. T \ {Max(T)} \in SUBSET (1..n) OBVIOUS
      <4>3. h[T \ {Max(T)}] \in Cuts BY <1>7, <4>2
      <4>4. h[T] = F[h[T \ {Max(T)}]][s[Max(T)]] BY <1>7, <3>2 DEF Folds
      <4> QED BY <1>4, <3>2, <4>1, <4>3, <4>4
    <3> QED BY <3>1, <3>2
  <2> QED BY <1>1, <1>7, <2>1
<1>9. IsFold(g)
  <2> HIDE DEF IsFold
  <2> QED BY <1>8
<1> HIDE DEF g
<1>10. g[{}] = base BY <1>9
<1>11. ASSUME NEW T \in SUBSET (1..n), T # {}, g[T \ {Max(T)}] \in Cuts
       PROVE  g[T] = F[g[T \ {Max(T)}]][s[Max(T)]]
  <2>1. s[Max(T)] \in V BY <1>1, <1>6, <1>11
  <2>2. g[T] = AddSentence(g[T \ {Max(T)}], s[Max(T)], size, overlap) BY <1>1, <1>9, <1>11
  <2> QED BY <1>4, <1>11, <2>1, <2>2
<1> HIDE DEF IsFold
<1>12. FoldsWithin(g, Cuts, F, base, s) BY <1>10, <1>11 DEF FoldsWithin
<1> DEFINE a == Values(g, s)
<1>13. Accumulates(a, Cuts, F, base, s) BY <1>1, <1>2, <1>3, <1>12, FoldSteps
<1>14. a[n] = g[1..n] BY <1>1 DEF Values
<1> HIDE DEF a
<1>15. \A k \in 1..n : a[k] = AddSentence(a[k - 1], s[k], size, overlap)
  <2> SUFFICES ASSUME NEW k \in 1..n
               PROVE  a[k] = AddSentence(a[k - 1], s[k], size, overlap)
    OBVIOUS
  <2>1. k - 1 \in 0..n BY <1>1
  <2>2. a[k - 1] \in Cuts /\ a[k] = F[a[k - 1]][s[k]] BY <1>13, <2>1 DEF Accumulates
  <2> QED BY <1>1, <1>4, <2>2
<1>16. SplitFolds(a, s, size, overlap)
  BY <1>13, <1>15 DEF SplitFolds, Accumulates, base
<1>17. SplitParagraph(s, size, overlap) = Flush(a[Len(s)], overlap).out
  BY <1>1, <1>5, <1>14, Zenon
<1> QED BY <1>16, <1>17

\* _split_paragraph loses no word and keeps the order: its chunks are a chain from the
\* first word of the paragraph to the last.
LEMMA SplitParagraphChain ==
  ASSUME NEW lo \in Nat, NEW hi \in Nat, lo <= hi, NEW s \in Seq(Seq(Nat)),
         FlattenSeq(s) = Stretch(lo, hi), NEW size \in Nat \ {0}, NEW overlap \in Nat
  PROVE  Chain(SplitParagraph(s, size, overlap), lo, hi, size + overlap)
<1> DEFINE n == Len(s)
<1>0. n \in Nat OBVIOUS
<1>1. PICK o : Offsets(o, s, lo, hi) BY StretchFlattened
<1>2. PICK a : /\ SplitFolds(a, s, size, overlap)
               /\ SplitParagraph(s, size, overlap) = Flush(a[n], overlap).out
  BY SplitSteps
<1>3. /\ o \in [0..n -> Nat] /\ o[0] = lo /\ o[n] = hi
      /\ \A k \in 1..n : o[k - 1] <= o[k] /\ s[k] = Stretch(o[k - 1], o[k])
  BY <1>1 DEF Offsets
<1>4. /\ a \in [0..n -> Cuts]
      /\ a[0] = [out |-> <<>>, current |-> <<>>, prefix |-> <<>>]
      /\ \A k \in 1..n : a[k] = AddSentence(a[k - 1], s[k], size, overlap)
  BY <1>2 DEF SplitFolds
<1> HIDE DEF n
<1> DEFINE S == {k \in Nat : k <= n => Splitting(a[k], lo, o[k], size, overlap)}
<1>5. Splitting(a[0], lo, o[0], size, overlap)
  <2> DEFINE u == a[0]
  <2>1. u.out = <<>> /\ u.current = <<>> /\ u.prefix = <<>> /\ u \in Cuts
    <3>1. 0 \in 0..n BY <1>0
    <3> QED BY <1>4, <3>1
  <2> HIDE DEF u
  <2>2. Stretch(lo, lo) = <<>> BY StretchFacts
  <2>3. Chain(u.out, lo, lo, size + overlap) BY <2>1, EmptyChain, Zenon
  <2>4. lo - lo <= overlap /\ lo - lo <= size /\ lo <= lo OBVIOUS
  <2>5. Halfway(u, lo, lo, size, overlap, lo, lo)
    BY <2>1, <2>2, <2>3, <2>4, Zenon DEF Halfway
  <2> QED BY <1>3, <2>1, <2>5 DEF Splitting, u
<1>6. ASSUME NEW k \in Nat, k + 1 <= n, Splitting(a[k], lo, o[k], size, overlap)
      PROVE  Splitting(a[k + 1], lo, o[k + 1], size, overlap)
  <2> DEFINE m == o[k]
             f == o[k + 1]
             u == a[k]
  <2>1. k + 1 \in 1..n /\ k + 1 \in 0..n /\ k \in 0..n /\ (k + 1) - 1 = k BY <1>0, <1>6
  <2>2. m \in Nat /\ f \in Nat /\ m <= f /\ s[k + 1] = Stretch(m, f) BY <1>3, <2>1
  <2>3. a[k + 1] = AddSentence(u, s[k + 1], size, overlap) BY <1>4, <2>1
  <2>4. Splitting(u, lo, m, size, overlap) BY <1>6
  <2> HIDE DEF m, f, u
  <2>5. Splitting(AddSentence(u, Stretch(m, f), size, overlap), lo, f, size, overlap)
    BY <2>2, <2>4, SentenceSplits
  <2>6. a[k + 1] = AddSentence(u, Stretch(m, f), size, overlap) BY <2>2, <2>3, Zenon
  <2> QED BY <2>5, <2>6, Zenon DEF f
<1>7. 0 \in S BY <1>5
<1>8. ASSUME NEW k \in S PROVE k + 1 \in S
  <2>1. k \in Nat OBVIOUS
  <2> SUFFICES ASSUME k + 1 <= n PROVE Splitting(a[k + 1], lo, o[k + 1], size, overlap)
    BY <2>1
  <2>2. Splitting(a[k], lo, o[k], size, overlap) BY <1>0, <2>1
  <2> QED BY <1>6, <2>1, <2>2
<1>9. S = Nat BY <1>7, <1>8, InductionOverNat
<1>10. Splitting(a[n], lo, hi, size, overlap)
  <2>1. \A k \in S : k <= n => Splitting(a[k], lo, o[k], size, overlap) OBVIOUS
  <2> HIDE DEF S
  <2> QED BY <1>0, <1>3, <1>9, <2>1
<1>11. PICK p : Halfway(Flush(a[n], overlap), lo, hi, size, overlap, p, hi)
  BY <1>10, FlushSplits
<1>12. Chain(Flush(a[n], overlap).out, lo, hi, size + overlap) BY <1>11, Zenon DEF Halfway
<1> QED BY <1>2, <1>12, Zenon

-----------------------------------------------------------------------------
(* A page that is cut by its paragraphs.                                     *)

\* What _chunk_text holds between two paragraphs
Gathered == [out : Seq(Seq(Nat)), current : Seq(Nat)]

\* What _split_paragraph returns has its type.
LEMMA SplitParagraphType ==
  ASSUME NEW s \in Seq(Seq(Nat)), NEW size \in Nat \ {0}, NEW overlap \in Nat
  PROVE  SplitParagraph(s, size, overlap) \in Seq(Seq(Nat))
<1>1. PICK a : /\ SplitFolds(a, s, size, overlap)
               /\ SplitParagraph(s, size, overlap) = Flush(a[Len(s)], overlap).out
  BY SplitSteps
<1>2. Len(s) \in 0..Len(s) OBVIOUS
<1>3. a[Len(s)] \in Cuts BY <1>1, <1>2 DEF SplitFolds
<1>4. Flush(a[Len(s)], overlap) \in Cuts BY <1>3, FlushType
<1> QED BY <1>1, <1>4 DEF Cuts

\* The chunks after the words gathered have been made one of them.
Closed(s) == IF s.current = <<>> THEN s.out ELSE Append(s.out, s.current)

\* Adding a paragraph: it is cut, or gathered, or closes what was gathered.
AddCut(s, x, size, overlap) ==
  [out |-> Closed(s) \o SplitParagraph(x, size, overlap), current |-> <<>>]

\* The three cases of a paragraph whose words are these.
ParagraphCases(u, s, x, words, size, overlap) ==
  /\ words \in Seq(Nat)
  /\ Len(words) > size => u = AddCut(s, x, size, overlap)
  /\ Len(words) <= size /\ Len(s.current) + Len(words) <= size =>
       u = [s EXCEPT !.current = @ \o words]
  /\ Len(words) <= size /\ ~(Len(s.current) + Len(words) <= size) =>
       u = [out |-> Closed(s), current |-> words]

\* A paragraph is one of them.
LEMMA AddParagraphCases ==
  ASSUME NEW s, NEW x, NEW size, NEW overlap, s \in Gathered, x \in Seq(Seq(Nat)),
         size \in Nat \ {0}, overlap \in Nat
  PROVE  ParagraphCases(AddParagraph(s, x, size, overlap), s, x, FlattenSeq(x), size, overlap)
<1> DEFINE words == FlattenSeq(x)
           p == Len(words)
           q == Len(s.current)
           u == AddParagraph(s, x, size, overlap)
<1>1. words \in Seq(Nat) BY FlattenType
<1>2. p \in Nat /\ q \in Nat /\ size \in Nat
  <2>1. s.current \in Seq(Nat) BY DEF Gathered
  <2> HIDE DEF words
  <2> QED BY <1>1, <2>1
<1>3. u = CASE p > size -> AddCut(s, x, size, overlap)
            [] p <= size /\ q + p <= size -> [s EXCEPT !.current = @ \o words]
            [] OTHER -> [out |-> Closed(s), current |-> words]
  BY DEF AddParagraph, AddCut, Closed
<1> HIDE DEF u, p, q, words
<1>4. p > size => u = AddCut(s, x, size, overlap) BY <1>2, <1>3
<1>5. p <= size /\ q + p <= size => u = [s EXCEPT !.current = @ \o words]
  BY <1>2, <1>3
<1>6. p <= size /\ ~(q + p <= size) => u = [out |-> Closed(s), current |-> words]
  BY <1>2, <1>3
<1>7. ParagraphCases(u, s, x, words, size, overlap)
  BY <1>1, <1>4, <1>5, <1>6, Zenon DEF ParagraphCases, p, q
<1> QED BY <1>7 DEF u, words

\* Adding a paragraph keeps the shape.
LEMMA AddParagraphType ==
  ASSUME NEW s, NEW x, s \in Gathered, x \in Seq(Seq(Nat)),
         NEW size \in Nat \ {0}, NEW overlap \in Nat
  PROVE  AddParagraph(s, x, size, overlap) \in Gathered
<1> DEFINE words == FlattenSeq(x)
           u == AddParagraph(s, x, size, overlap)
           d == SplitParagraph(x, size, overlap)
<1>1. /\ words \in Seq(Nat)
      /\ Len(words) > size => u = AddCut(s, x, size, overlap)
      /\ Len(words) <= size /\ Len(s.current) + Len(words) <= size =>
           u = [s EXCEPT !.current = @ \o words]
      /\ Len(words) <= size /\ ~(Len(s.current) + Len(words) <= size) =>
           u = [out |-> Closed(s), current |-> words]
  <2>1. ParagraphCases(u, s, x, words, size, overlap)
    BY AddParagraphCases, Zenon
  <2> HIDE DEF u, words
  <2> QED BY <2>1, Zenon DEF ParagraphCases
<1>2. d \in Seq(Seq(Nat)) BY SplitParagraphType
<1> HIDE DEF words, u
<1>3. s.out \in Seq(Seq(Nat)) /\ s.current \in Seq(Nat) BY DEF Gathered
<1>4. Closed(s) \in Seq(Seq(Nat)) BY <1>3 DEF Closed
<1>5. AddCut(s, x, size, overlap) \in Gathered
  <2> DEFINE y == Closed(s) \o d
  <2> HIDE DEF d
  <2>1. y \in Seq(Seq(Nat)) BY <1>2, <1>4
  <2>2. AddCut(s, x, size, overlap) = [out |-> y, current |-> <<>>] BY Zenon DEF AddCut, d, y
  <2> HIDE DEF y
  <2> QED BY <2>1, <2>2 DEF Gathered
<1>6. [s EXCEPT !.current = @ \o words] \in Gathered
  <2> DEFINE y == s.current \o words
  <2>1. y \in Seq(Nat) BY <1>1, <1>3
  <2> HIDE DEF y
  <2>2. [s EXCEPT !.current = y] \in Gathered BY <2>1 DEF Gathered
  <2> QED BY <2>2 DEF y
<1>7. [out |-> Closed(s), current |-> words] \in Gathered BY <1>1, <1>4 DEF Gathered
<1>8. Len(words) \in Nat BY <1>1
<1>9. Len(words) > size \/ Len(words) <= size BY <1>8
<1> SUFFICES u \in Gathered BY DEF u
<1>10. CASE Len(words) > size BY <1>1, <1>5, <1>10
<1>11. CASE Len(words) <= size /\ Len(s.current) + Len(words) <= size BY <1>1, <1>6, <1>11
<1>12. CASE Len(words) <= size /\ ~(Len(s.current) + Len(words) <= size)
  BY <1>1, <1>7, <1>12
<1> QED BY <1>9, <1>10, <1>11, <1>12

\* After the first m words the chunks reach word e, and the words after it are gathered.
Gathering(s, m, size, overlap, e) ==
  /\ s \in Gathered
  /\ e \in Nat /\ e <= m /\ m - e <= size
  /\ Chain(s.out, 0, e, size + overlap)
  /\ s.current = Stretch(e, m)

\* The words gathered make one chunk more.
LEMMA ClosedChain ==
  ASSUME NEW s, NEW m \in Nat, NEW size \in Nat \ {0}, NEW overlap \in Nat, NEW e,
         Gathering(s, m, size, overlap, e)
  PROVE  Chain(Closed(s), 0, m, size + overlap)
<1> DEFINE n == size + overlap
<1>1. e \in Nat /\ e <= m /\ m - e <= size /\ Chain(s.out, 0, e, n) /\ s.current = Stretch(e, m)
  BY DEF Gathering
<1>2. s.current = <<>> <=> e = m
  <2>1. Stretch(e, m) = <<>> <=> e = m BY <1>1, StretchFacts
  <2> QED BY <1>1, <2>1, Zenon
<1>3. n \in Nat OBVIOUS
<1>4. CASE e = m BY <1>1, <1>2, <1>4, Zenon DEF Closed
<1>5. CASE e # m
  <2> DEFINE x == Stretch(e, m)
             c == s.out
  <2>1. Closed(s) = Append(c, x) BY <1>1, <1>2, <1>5, Zenon DEF Closed
  <2>2. IsChunk(x, n) /\ Lo(x) = e /\ Hi(x) = m
    <3>1. e < m /\ m - e <= n /\ n \in Int BY <1>1, <1>5
    <3> HIDE DEF n
    <3> QED BY <1>1, <3>1, StretchIsChunk
  <2>3. Chain(c, 0, e, n) BY <1>1
  <2> HIDE DEF x, c, n
  <2>4. c = <<>> => 0 = Lo(x) BY <2>2, <2>3 DEF Chain
  <2>5. c # <<>> => Follows(c[Len(c)], x)
    <3> SUFFICES ASSUME c # <<>> PROVE Follows(c[Len(c)], x) OBVIOUS
    <3> DEFINE y == c[Len(c)]
    <3>1. n \in Int /\ 0 \in Nat BY <1>3
    <3>2. Hi(y) = e /\ Lo(y) < e /\ Lo(y) \in Nat BY <1>1, <2>3, <3>1, ChainEnd
    <3> HIDE DEF y
    <3>3. Follows(y, x) BY <1>1, <2>2, <3>2 DEF Follows
    <3> QED BY <3>3 DEF y
  <2>6. Chain(Append(c, x), 0, Hi(x), n)
    <3>1. n \in Int BY <1>3
    <3> QED BY <2>2, <2>3, <2>4, <2>5, <3>1, ChainAppend
  <2> QED BY <2>1, <2>2, <2>6, Zenon DEF n
<1> QED BY <1>4, <1>5

\* A paragraph that is cut continues the chain.
LEMMA CutContinues ==
  ASSUME NEW c, NEW d, NEW m \in Nat, NEW f \in Nat, NEW n \in Nat, m < f,
         Chain(c, 0, m, n), Chain(d, m, f, n)
  PROVE  Chain(c \o d, 0, f, n)
<1>1. d # <<>> BY DEF Chain
<1>2. d \in Seq(Seq(Nat)) /\ Lo(d[1]) = m BY <1>1 DEF Chain
<1>3. 1 \in 1..Len(d) BY <1>1, <1>2
<1>4. IsChunk(d[1], n) BY <1>3 DEF Chain
<1>5. n \in Int /\ 0 \in Nat OBVIOUS
<1> DEFINE z == d[1]
           y == c[Len(c)]
<1>6. Lo(z) = m /\ Hi(z) \in Nat /\ m < Hi(z) BY <1>2, <1>4 DEF IsChunk
<1>7. c # <<>> => Hi(y) = m /\ Lo(y) < m /\ Lo(y) \in Nat BY <1>5, ChainEnd
<1> HIDE DEF y, z
<1>8. c # <<>> => Follows(y, z) BY <1>6, <1>7 DEF Follows
<1>9. c # <<>> => Follows(c[Len(c)], d[1]) BY <1>8 DEF y, z
<1>10. c = <<>> => 0 = m BY DEF Chain
<1> QED BY <1>1, <1>9, <1>10, ChainConcat

\* One paragraph more.
LEMMA ParagraphGathers ==
  ASSUME NEW s, NEW x \in Seq(Seq(Nat)), NEW m \in Nat, NEW f \in Nat, m <= f,
         FlattenSeq(x) = Stretch(m, f),
         NEW size \in Nat \ {0}, NEW overlap \in Nat,
         \E e : Gathering(s, m, size, overlap, e)
  PROVE  \E e : Gathering(AddParagraph(s, x, size, overlap), f, size, overlap, e)
<1> DEFINE w == Stretch(m, f)
           u == AddParagraph(s, x, size, overlap)
           d == SplitParagraph(x, size, overlap)
           n == size + overlap
<1>1. PICK e : Gathering(s, m, size, overlap, e) OBVIOUS
<1>2. s \in Gathered /\ e \in Nat /\ e <= m /\ m - e <= size /\ Chain(s.out, 0, e, n)
      /\ s.current = Stretch(e, m)
  BY <1>1 DEF Gathering
<1>3. u \in Gathered BY <1>2, AddParagraphType
<1>4. /\ Len(w) > size => u = AddCut(s, x, size, overlap)
      /\ Len(w) <= size /\ Len(s.current) + Len(w) <= size =>
           u = [s EXCEPT !.current = @ \o w]
      /\ Len(w) <= size /\ ~(Len(s.current) + Len(w) <= size) =>
           u = [out |-> Closed(s), current |-> w]
  <2>1. ParagraphCases(u, s, x, FlattenSeq(x), size, overlap)
    <3>1. x \in Seq(Seq(Nat)) /\ size \in Nat \ {0} /\ overlap \in Nat OBVIOUS
    <3> QED BY <1>2, <3>1, AddParagraphCases, Zenon
  <2>2. ParagraphCases(u, s, x, w, size, overlap) BY <2>1, Zenon
  <2> QED BY <2>2, Zenon DEF ParagraphCases
<1>5. Len(w) = f - m /\ w \in Seq(Nat) BY StretchFacts
<1>6. Len(s.current) = m - e
  <2>1. Len(Stretch(e, m)) = m - e BY <1>2, StretchFacts
  <2> QED BY <1>2, <2>1, Zenon
<1>7. Chain(Closed(s), 0, m, n) BY <1>1, ClosedChain
<1>8. Chain(d, m, f, n) BY SplitParagraphChain
<1>9. n \in Nat OBVIOUS
<1> HIDE DEF u, w, d
<1>10. CASE f - m > size
  <2>1. u = [out |-> Closed(s) \o d, current |-> <<>>] BY <1>4, <1>5, <1>10 DEF AddCut, d
  <2> DEFINE y == Closed(s) \o d
  <2>2. m < f BY <1>10
  <2> HIDE DEF n
  <2>3. Chain(y, 0, f, n) BY <1>7, <1>8, <1>9, <2>2, CutContinues
  <2>4. u.out = y /\ u.current = <<>> BY <2>1
  <2> HIDE DEF y
  <2>5. Stretch(f, f) = <<>> /\ f <= f /\ f - f <= size BY StretchFacts
  <2>6. Gathering(u, f, size, overlap, f)
    BY <1>3, <2>3, <2>4, <2>5, Zenon DEF Gathering, n
  <2> QED BY <2>6 DEF u
<1>11. CASE f - m <= size /\ (m - e) + (f - m) <= size
  <2> DEFINE y == s.current \o w
  <2>1. u = [s EXCEPT !.current = y] BY <1>4, <1>5, <1>6, <1>11
  <2>2. y = Stretch(e, f)
    <3>1. Stretch(e, m) \o Stretch(m, f) = Stretch(e, f) BY <1>2, StretchConcat
    <3> QED BY <1>2, <3>1, Zenon DEF w
  <2> HIDE DEF y
  <2>3. u.out = s.out /\ u.current = y BY <1>2, <2>1 DEF Gathered
  <2>4. e <= f /\ f - e <= size BY <1>2, <1>11
  <2>5. Gathering(u, f, size, overlap, e)
    BY <1>2, <1>3, <2>2, <2>3, <2>4, Zenon DEF Gathering, n
  <2> QED BY <2>5 DEF u
<1>12. CASE f - m <= size /\ ~((m - e) + (f - m) <= size)
  <2>1. u = [out |-> Closed(s), current |-> w] BY <1>4, <1>5, <1>6, <1>12
  <2>2. u.out = Closed(s) /\ u.current = w BY <2>1
  <2>3. Gathering(u, f, size, overlap, m)
    BY <1>3, <1>7, <1>12, <2>2, Zenon DEF Gathering, n, w
  <2> QED BY <2>3 DEF u
<1>13. f - m \in Int /\ size \in Int OBVIOUS
<1>14. f - m > size \/ f - m <= size BY <1>13
<1> QED BY <1>10, <1>11, <1>12, <1>14

\* The paragraphs of a page one after the other.
ChunkFolds(a, page, size, overlap) ==
  /\ a \in [0..Len(page) -> Gathered]
  /\ a[0] = [out |-> <<>>, current |-> <<>>]
  /\ \A k \in 1..Len(page) : a[k] = AddParagraph(a[k - 1], page[k], size, overlap)

\* What _chunk_text goes through.
LEMMA ChunkSteps ==
  ASSUME NEW s \in Seq(Seq(Seq(Nat))), NEW size \in Nat \ {0}, NEW overlap \in Nat
  PROVE  \E a : /\ ChunkFolds(a, s, size, overlap)
                /\ ChunkText(s, size, overlap) = Closed(a[Len(s)])
<1> DEFINE n == Len(s)
           V == Seq(Seq(Nat))
           base == [out |-> <<>>, current |-> <<>>]
           F == [u \in Gathered |-> [x \in V |-> AddParagraph(u, x, size, overlap)]]
           IsFold(g) == g = [T \in SUBSET DOMAIN s |->
                              IF T = {} THEN base
                              ELSE AddParagraph(g[T \ {Max(T)}], s[Max(T)], size, overlap)]
           g == CHOOSE g : IsFold(g)
<1>1. s \in Seq(V) /\ n \in Nat /\ DOMAIN s = 1..n /\ \A k \in 1..n : s[k] \in V OBVIOUS
<1>2. F \in [Gathered -> [V -> Gathered]] BY AddParagraphType
<1>3. base \in Gathered BY DEF Gathered
<1>4. \A u \in Gathered, x \in V : F[u][x] = AddParagraph(u, x, size, overlap) OBVIOUS
<1>5. ChunkText(s, size, overlap) = Closed(g[DOMAIN s])
  BY DEF ChunkText, Closed, FoldLeft, MapThenFoldSet, Max
<1> HIDE DEF F, V, base
<1>6. \A T \in SUBSET (1..n) : T # {} => Max(T) \in T BY <1>1, LargestNumber
<1>7. PICK h \in [SUBSET (1..n) -> Gathered] : Folds(h, n, F, base, s)
  BY <1>1, <1>2, <1>3, FoldExists
<1>8. IsFold(h)
  <2>1. ASSUME NEW T \in SUBSET (1..n)
        PROVE  h[T] = IF T = {} THEN base
                      ELSE AddParagraph(h[T \ {Max(T)}], s[Max(T)], size, overlap)
    <3>1. CASE T = {} BY <1>7, <3>1 DEF Folds
    <3>2. CASE T # {}
      <4>1. s[Max(T)] \in V BY <1>1, <1>6, <3>2
      <4>2. T \ {Max(T)} \in SUBSET (1..n) OBVIOUS
      <4>3. h[T \ {Max(T)}] \in Gathered BY <1>7, <4>2
      <4>4. h[T] = F[h[T \ {Max(T)}]][s[Max(T)]] BY <1>7, <3>2 DEF Folds
      <4> QED BY <1>4, <3>2, <4>1, <4>3, <4>4
    <3> QED BY <3>1, <3>2
  <2> QED BY <1>1, <1>7, <2>1
<1>9. IsFold(g)
  <2> HIDE DEF IsFold
  <2> QED BY <1>8
<1> HIDE DEF g
<1>10. g[{}] = base BY <1>9
<1>11. ASSUME NEW T \in SUBSET (1..n), T # {}, g[T \ {Max(T)}] \in Gathered
       PROVE  g[T] = F[g[T \ {Max(T)}]][s[Max(T)]]
  <2>1. s[Max(T)] \in V BY <1>1, <1>6, <1>11
  <2>2. g[T] = AddParagraph(g[T \ {Max(T)}], s[Max(T)], size, overlap) BY <1>1, <1>9, <1>11
  <2> QED BY <1>4, <1>11, <2>1, <2>2
<1> HIDE DEF IsFold
<1>12. FoldsWithin(g, Gathered, F, base, s) BY <1>10, <1>11 DEF FoldsWithin
<1> DEFINE a == Values(g, s)
<1>13. Accumulates(a, Gathered, F, base, s) BY <1>1, <1>2, <1>3, <1>12, FoldSteps
<1>14. a[n] = g[1..n] BY <1>1 DEF Values
<1> HIDE DEF a
<1>15. \A k \in 1..n : a[k] = AddParagraph(a[k - 1], s[k], size, overlap)
  <2> SUFFICES ASSUME NEW k \in 1..n
               PROVE  a[k] = AddParagraph(a[k - 1], s[k], size, overlap)
    OBVIOUS
  <2>1. k - 1 \in 0..n BY <1>1
  <2>2. a[k - 1] \in Gathered /\ a[k] = F[a[k - 1]][s[k]] BY <1>13, <2>1 DEF Accumulates
  <2> QED BY <1>1, <1>4, <2>2
<1>16. ChunkFolds(a, s, size, overlap)
  BY <1>13, <1>15 DEF ChunkFolds, Accumulates, base
<1>17. ChunkText(s, size, overlap) = Closed(a[Len(s)])
  BY <1>1, <1>5, <1>14, Zenon
<1> QED BY <1>16, <1>17

\* _chunk_text loses no word and keeps the order: the chunks of a page are a chain from
\* its first word to its last.
LEMMA ChunkTextChain ==
  ASSUME NEW N \in Nat, NEW s \in Seq(Seq(Seq(Nat))), AllWords(s) = Stretch(0, N),
         NEW size \in Nat \ {0}, NEW overlap \in Nat
  PROVE  Chain(ChunkText(s, size, overlap), 0, N, size + overlap)
<1> DEFINE n == Len(s)
           V == Seq(Nat)
           q == [k \in DOMAIN s |-> FlattenSeq(s[k])]
<1>0. n \in Nat /\ DOMAIN s = 1..n /\ \A k \in 1..n : s[k] \in Seq(Seq(Nat)) OBVIOUS
<1>1. q \in Seq(V) /\ Len(q) = n /\ \A k \in 1..n : q[k] = FlattenSeq(s[k])
  <2>1. \A k \in 1..n : FlattenSeq(s[k]) \in V BY <1>0, FlattenType
  <2>2. DOMAIN q = 1..n /\ \A k \in 1..n : q[k] = FlattenSeq(s[k]) BY <1>0
  <2>3. q \in [1..n -> V] BY <1>0, <2>1
  <2> HIDE DEF V, q, n
  <2>4. q \in Seq(V) BY <1>0, <2>3, SeqDef
  <2> QED BY <1>0, <2>2, <2>4
<1>2. FlattenSeq(q) = Stretch(0, N) BY DEF AllWords
<1> HIDE DEF q
<1>3. PICK o : Offsets(o, q, 0, N)
  <2>1. 0 \in Nat /\ 0 <= N /\ q \in Seq(Seq(Nat)) BY <1>1
  <2> QED BY <1>2, <2>1, StretchFlattened
<1>4. /\ o \in [0..n -> Nat] /\ o[0] = 0 /\ o[n] = N
      /\ \A k \in 1..n : o[k - 1] <= o[k] /\ q[k] = Stretch(o[k - 1], o[k])
  BY <1>1, <1>3 DEF Offsets
<1>5. PICK a : ChunkFolds(a, s, size, overlap) /\ ChunkText(s, size, overlap) = Closed(a[n])
  BY ChunkSteps
<1>6. /\ a \in [0..n -> Gathered] /\ a[0] = [out |-> <<>>, current |-> <<>>]
      /\ \A k \in 1..n : a[k] = AddParagraph(a[k - 1], s[k], size, overlap)
  BY <1>5 DEF ChunkFolds
<1> HIDE DEF n
<1> DEFINE G(k) == \E e : Gathering(a[k], o[k], size, overlap, e)
           S == {k \in Nat : k <= n => G(k)}
<1>7. G(0)
  <2> DEFINE u == a[0]
  <2>1. u.out = <<>> /\ u.current = <<>> /\ u \in Gathered
    <3>1. 0 \in 0..n BY <1>0
    <3> QED BY <1>6, <3>1
  <2> HIDE DEF u
  <2>2. Stretch(0, 0) = <<>> /\ 0 \in Nat /\ 0 <= 0 /\ 0 - 0 <= size BY StretchFacts
  <2>3. Chain(u.out, 0, 0, size + overlap) BY <2>1, EmptyChain, Zenon
  <2>4. Gathering(u, 0, size, overlap, 0) BY <2>1, <2>2, <2>3, Zenon DEF Gathering
  <2> QED BY <1>4, <2>4 DEF u
<1>8. ASSUME NEW k \in Nat, k + 1 <= n, G(k) PROVE G(k + 1)
  <2> DEFINE m == o[k]
             f == o[k + 1]
             u == a[k]
             x == s[k + 1]
  <2>1. k + 1 \in 1..n /\ k + 1 \in 0..n /\ k \in 0..n /\ (k + 1) - 1 = k BY <1>0, <1>8
  <2>2. m \in Nat /\ f \in Nat /\ m <= f BY <1>4, <2>1
  <2>3. FlattenSeq(x) = Stretch(m, f) BY <1>1, <1>4, <2>1
  <2>4. a[k + 1] = AddParagraph(u, x, size, overlap) BY <1>6, <2>1
  <2>5. x \in Seq(Seq(Nat)) BY <1>0, <2>1
  <2>6. \E e : Gathering(u, m, size, overlap, e) BY <1>8
  <2> HIDE DEF m, f, u, x
  <2>7. \E e : Gathering(AddParagraph(u, x, size, overlap), f, size, overlap, e)
    BY <2>2, <2>3, <2>5, <2>6, ParagraphGathers
  <2> QED BY <2>4, <2>7, Zenon DEF f
<1> HIDE DEF G
<1>9. 0 \in S BY <1>7
<1>10. ASSUME NEW k \in S PROVE k + 1 \in S
  <2>1. k \in Nat OBVIOUS
  <2> SUFFICES ASSUME k + 1 <= n PROVE G(k + 1) BY <2>1
  <2>2. G(k) BY <1>0, <2>1
  <2> QED BY <1>8, <2>1, <2>2
<1>11. S = Nat BY <1>9, <1>10, InductionOverNat
<1>12. G(n)
  <2>1. \A k \in S : k <= n => G(k) OBVIOUS
  <2> HIDE DEF S
  <2> QED BY <1>0, <1>11, <2>1
<1>13. PICK e : Gathering(a[n], N, size, overlap, e) BY <1>4, <1>12 DEF G
<1>14. Chain(Closed(a[n]), 0, N, size + overlap) BY <1>13, ClosedChain
<1> QED BY <1>5, <1>14, Zenon

\* A chain from the first word to the last covers the page.
LEMMA ChainCovers ==
  ASSUME NEW c, NEW N \in Nat, NEW size \in Nat \ {0}, NEW overlap \in Nat,
         Chain(c, 0, N, size + overlap)
  PROVE  Covers(c, N, size, overlap)
<1> DEFINE n == size + overlap
           m == Max({0, overlap})
<1>1. m = overlap
  <2>1. Max({0, overlap}) = IF 0 >= overlap THEN 0 ELSE overlap BY TwoNumbers
  <2> QED BY <2>1
<1>2. n \in Int /\ n = size + m BY <1>1
<1> HIDE DEF m
<1>3. c \in Seq(Seq(Nat)) /\ DOMAIN c = 1..Len(c) /\ Len(c) \in Nat BY DEF Chain
<1>4. /\ \A k \in 1..Len(c) : IsChunk(c[k], n)
      /\ \A k \in 2..Len(c) : Follows(c[k - 1], c[k])
      /\ c # <<>> => Lo(c[1]) = 0 /\ Hi(c[Len(c)]) = N
      /\ c = <<>> => 0 = N
  BY DEF Chain
<1> HIDE DEF n
<1>5. ASSUME NEW x, IsChunk(x, n)
      PROVE  /\ x # <<>> /\ x = [i \in 1..Len(x) |-> x[1] + i - 1] /\ Len(x) <= n
             /\ x[1] = Lo(x) + 1 /\ Last(x) = Hi(x) /\ Lo(x) \in Nat /\ Hi(x) \in Nat
  <2> DEFINE a == Lo(x)
             b == Hi(x)
             z == Stretch(a, b)
  <2>1. x \in Seq(Nat) /\ x # <<>> /\ Len(x) = b - a /\ Len(x) <= n
        /\ a \in Nat /\ b \in Nat /\ a < b /\ x = z
    BY <1>2, <1>5, ChunkFacts
  <2>2. Last(x) = b BY DEF Last, Hi
  <2> HIDE DEF a, b
  <2>3. z = [i \in 1..(b - a) |-> a + i] BY DEF Stretch
  <2> HIDE DEF z
  <2>4. 1 \in 1..(b - a) BY <2>1
  <2>5. x[1] = a + 1 BY <2>1, <2>3, <2>4
  <2>6. x = [i \in 1..Len(x) |-> x[1] + i - 1]
    <3>1. \A i \in 1..(b - a) : x[1] + i - 1 = a + i BY <2>1, <2>5
    <3>2. [i \in 1..(b - a) |-> x[1] + i - 1] = [i \in 1..(b - a) |-> a + i] BY <3>1
    <3> QED BY <2>1, <2>3, <3>2
  <2> QED BY <2>1, <2>2, <2>5, <2>6 DEF a, b
<1>6. ASSUME NEW k \in 1..Len(c)
      PROVE  /\ c[k] # <<>> /\ c[k] = [i \in 1..Len(c[k]) |-> c[k][1] + i - 1]
             /\ Len(c[k]) <= size + m
             /\ IF k = 1 THEN c[k][1] = 1
                ELSE /\ c[k][1] \in c[k - 1][1]..(Last(c[k - 1]) + 1)
                     /\ Last(c[k]) >= Last(c[k - 1])
  <2>1. IsChunk(c[k], n) BY <1>4
  <2>2. /\ c[k] # <<>> /\ c[k] = [i \in 1..Len(c[k]) |-> c[k][1] + i - 1]
        /\ Len(c[k]) <= size + m
    BY <1>2, <1>5, <2>1
  <2>3. c[k][1] = Lo(c[k]) + 1 /\ Last(c[k]) = Hi(c[k])
        /\ Lo(c[k]) \in Nat /\ Hi(c[k]) \in Nat
    BY <1>5, <2>1
  <2>4. CASE k = 1
    <3>1. c # <<>> BY <1>3
    <3> QED BY <1>4, <2>2, <2>3, <2>4, <3>1
  <2>5. CASE k # 1
    <3>1. k \in 2..Len(c) /\ k - 1 \in 1..Len(c) BY <1>3, <2>5
    <3> DEFINE x == c[k - 1]
               y == c[k]
    <3>2. IsChunk(x, n) /\ Follows(x, y) BY <1>4, <3>1
    <3>3. x[1] = Lo(x) + 1 /\ Last(x) = Hi(x) /\ Lo(x) \in Nat /\ Hi(x) \in Nat
      BY <1>5, <3>2
    <3>4. y[1] = Lo(y) + 1 /\ Last(y) = Hi(y) /\ Lo(y) \in Nat /\ Hi(y) \in Nat BY <2>3
    <3> HIDE DEF x, y
    <3>5. y[1] \in x[1]..(Last(x) + 1) /\ Last(y) >= Last(x)
      BY <3>2, <3>3, <3>4 DEF Follows
    <3>6. /\ c[k][1] \in c[k - 1][1]..(Last(c[k - 1]) + 1)
          /\ Last(c[k]) >= Last(c[k - 1])
      BY <3>5 DEF x, y
    <3> QED BY <2>2, <2>5, <3>6
  <2> QED BY <2>4, <2>5
<1>7. IF c = <<>> THEN N = 0 ELSE Last(c[Len(c)]) = N
  <2>1. CASE c = <<>> BY <1>4, <2>1
  <2>2. CASE c # <<>>
    <3>1. Len(c) \in 1..Len(c) BY <1>3, <2>2
    <3> QED BY <1>4, <1>5, <2>2, <3>1
  <2> QED BY <2>1, <2>2
<1> QED BY <1>3, <1>6, <1>7 DEF Covers, m

\* _chunk_text, of any page under any setting.
LEMMA ChunkTextCovers ==
  ASSUME NEW s \in Seq(Seq(Seq(Nat))),
         AllWords(s) = [i \in 1..Len(AllWords(s)) |-> i],
         NEW size \in Nat \ {0}, NEW overlap \in Nat
  PROVE  /\ Covers(ChunkText(s, size, overlap), Len(AllWords(s)), size, overlap)
         /\ ChunkText(s, size, overlap) \in Seq(Seq(Nat))
<1> DEFINE w == AllWords(s)
           N == Len(w)
<1>1. N \in Nat
  <2> DEFINE V == Seq(Nat)
             n == Len(s)
             q == [k \in DOMAIN s |-> FlattenSeq(s[k])]
  <2>0. n \in Nat /\ DOMAIN s = 1..n /\ \A k \in 1..n : s[k] \in Seq(Seq(Nat)) OBVIOUS
  <2>1. \A k \in 1..n : FlattenSeq(s[k]) \in V BY <2>0, FlattenType
  <2>2. q \in [1..n -> V] BY <2>0, <2>1
  <2>3. w = FlattenSeq(q) BY DEF AllWords
  <2> HIDE DEF q, n, V, w
  <2>4. q \in Seq(V) BY <2>0, <2>2, SeqDef
  <2>5. w \in Seq(Nat) BY <2>3, <2>4, FlattenType DEF V
  <2> QED BY <2>5
<1>2. w = Stretch(0, N)
  <2>1. w = [i \in 1..N |-> i] OBVIOUS
  <2> HIDE DEF w, N
  <2>2. N - 0 = N /\ \A i \in 1..N : 0 + i = i BY <1>1
  <2> QED BY <2>1, <2>2 DEF Stretch
<1> HIDE DEF N
<1>3. Chain(ChunkText(s, size, overlap), 0, N, size + overlap) BY <1>1, <1>2, ChunkTextChain
<1>4. Covers(ChunkText(s, size, overlap), N, size, overlap) BY <1>1, <1>3, ChainCovers
<1>5. ChunkText(s, size, overlap) \in Seq(Seq(Nat)) BY <1>3 DEF Chain
<1> QED BY <1>4, <1>5 DEF N

-----------------------------------------------------------------------------
(* The chunks of every page of a run cover it.                               *)

\* The pages and the settings of the run, which never change
Fixed == pages \in Corpora /\ settings \in Sizes

\* A page is a sequence of paragraphs, and its words are numbered.
LEMMA PageFacts ==
  ASSUME Fixed
  PROVE  /\ Len(pages) \in Nat /\ DOMAIN pages = 1..Len(pages)
         /\ settings[1] \in Nat \ {0} /\ settings[2] \in Nat
         /\ \A p \in 1..Len(pages) :
              /\ pages[p] \in Seq(Seq(Seq(Nat)))
              /\ AllWords(pages[p]) = [i \in 1..Len(AllWords(pages[p])) |-> i]
<1> DEFINE V == Seq(Seq(Seq(Nat)))
<1>1. pages \in Seq(V) BY IndexingAssumption DEF Fixed
<1> HIDE DEF V
<1>2. /\ Len(pages) \in Nat /\ DOMAIN pages = 1..Len(pages)
      /\ \A p \in 1..Len(pages) : pages[p] \in V
  BY <1>1
<1>3. settings[1] \in Nat \ {0} /\ settings[2] \in Nat BY IndexingAssumption DEF Fixed
<1>4. \A p \in DOMAIN pages :
        AllWords(pages[p]) = [i \in 1..Len(AllWords(pages[p])) |-> i]
  BY IndexingAssumption DEF Fixed
<1> QED BY <1>2, <1>3, <1>4 DEF V

\* The table holds what _chunk_text returns.
LEMMA ChunksOfPage ==
  ASSUME Fixed, NEW p \in 1..Len(pages)
  PROVE  ChunksOf(p) = ChunkText(pages[p], settings[1], settings[2])
<1>1. p \in DOMAIN pages BY PageFacts
<1>2. pages[p] \in ToSet(pages) BY <1>1 DEF ToSet
<1>3. pages[p] \in UNION {ToSet(c) : c \in Corpora} BY <1>2 DEF Fixed
<1> DEFINE S == UNION {ToSet(c) : c \in Corpora}
           x == pages[p]
<1>4. x \in S BY <1>3
<1> HIDE DEF S, x
<1>5. settings \in Sizes BY DEF Fixed
<1>6. [s \in Sizes |-> [page \in S |-> ChunkText(page, s[1], s[2])]][settings][x]
        = ChunkText(x, settings[1], settings[2])
  BY <1>4, <1>5, Zenon
<1> QED BY <1>6, Zenon DEF ChunksOf, Chunked, S, x

\* The chunks of every page cover it.
LEMMA ChunksCover ==
  ASSUME Fixed, NEW p \in 1..Len(pages)
  PROVE  /\ ChunksOf(p) \in Seq(Seq(Nat))
         /\ Covers(ChunksOf(p), Len(AllWords(pages[p])), settings[1], settings[2])
<1>1. /\ pages[p] \in Seq(Seq(Seq(Nat)))
      /\ AllWords(pages[p]) = [i \in 1..Len(AllWords(pages[p])) |-> i]
      /\ settings[1] \in Nat \ {0} /\ settings[2] \in Nat
  BY PageFacts
<1> DEFINE x == pages[p]
           m == settings[1]
           n == settings[2]
<1> HIDE DEF x, m, n
<1>2. x \in Seq(Seq(Seq(Nat))) /\ AllWords(x) = [i \in 1..Len(AllWords(x)) |-> i]
      /\ m \in Nat \ {0} /\ n \in Nat
  BY <1>1 DEF x, m, n
<1>3. Covers(ChunkText(x, m, n), Len(AllWords(x)), m, n) /\ ChunkText(x, m, n) \in Seq(Seq(Nat))
  BY <1>2, ChunkTextCovers
<1>4. ChunksOf(p) = ChunkText(x, m, n) BY ChunksOfPage DEF x, m, n
<1> QED BY <1>3, <1>4, Zenon DEF x, m, n

\* The run never changes them.
LEMMA FixedInductive == Fixed /\ [Next]_vars => Fixed'
<1> SUFFICES ASSUME Fixed, [Next]_vars PROVE Fixed' OBVIOUS
<1>1. CASE UNCHANGED vars BY <1>1 DEF vars, fixed, Fixed
<1>2. CASE Next
  <2>1. UNCHANGED fixed
    BY <1>2 DEF Next, Proceed, LoadBatch, GatherBatch, EmbedBatch, Embedded, FindCollection,
       CreateCollection, Upsert, UpsertNowhere, AfterFlush, WriteProgress, CheckCancelled,
       Complete, SplitBatch, CallFails, UpsertLost, RunFails, Interrupted, OthersReport,
       OthersCreate, DropCollection,
       DeleteTenant, FlushFails
  <2> QED BY <2>1 DEF fixed, Fixed
<1> QED BY <1>1, <1>2

\* No word of a page is lost and no chunk is out of order, whatever the page and the
\* settings: _chunk_text, _split_paragraph and _word_sliding_window.
THEOREM ChunksCoverAllPages == Spec => []ChunksCoverPages
<1>1. Init => Fixed BY DEF Init, Fixed
<1>2. Fixed /\ [Next]_vars => Fixed' BY FixedInductive
<1>3. Fixed => ChunksCoverPages
  <2> SUFFICES ASSUME Fixed PROVE ChunksCoverPages OBVIOUS
  <2>1. DOMAIN pages = 1..Len(pages) BY PageFacts
  <2> QED BY <2>1, ChunksCover, Zenon DEF ChunksCoverPages
<1> QED BY <1>1, <1>2, <1>3, PTL DEF Spec

-----------------------------------------------------------------------------
(* The chunks of a batch: what FlattenSeq makes of those of its pages.       *)

\* One sequence more in front.
LEMMA FlattenCons ==
  ASSUME NEW S, NEW s \in Seq(Seq(S)), NEW x \in Seq(S), NEW t \in Seq(Seq(S)),
         Len(t) = Len(s) + 1, t[1] = x, \A k \in 1..Len(s) : t[k + 1] = s[k]
  PROVE  FlattenSeq(t) = x \o FlattenSeq(s)
<1> DEFINE n == Len(s)
           V == Seq(S)
<1>0. n \in Nat /\ Len(t) = n + 1 /\ \A k \in 1..n : s[k] \in V OBVIOUS
<1>1. PICK a : Flattens(a, s, S) /\ a[n] = FlattenSeq(s) BY FlattenSteps
<1>2. PICK b : Flattens(b, t, S) /\ b[n + 1] = FlattenSeq(t) BY FlattenSteps
<1>3. a \in [0..n -> V] /\ a[0] = <<>> /\ \A k \in 1..n : a[k] = a[k - 1] \o s[k]
  BY <1>1 DEF Flattens
<1>4. b \in [0..(n + 1) -> V] /\ b[0] = <<>> /\ \A k \in 1..(n + 1) : b[k] = b[k - 1] \o t[k]
  BY <1>0, <1>2 DEF Flattens
<1> HIDE DEF n
<1> DEFINE P(k) == b[k + 1] = x \o a[k]
           R == {k \in Nat : k <= n => P(k)}
<1>5. 0 \in R
  <2>1. 1 \in 1..(n + 1) /\ 1 - 1 = 0 /\ 0 + 1 = 1 BY <1>0
  <2>2. b[1] = b[0] \o t[1]
    <3>1. b[1] = b[1 - 1] \o t[1] BY <1>4, <2>1
    <3> QED BY <2>1, <3>1, Zenon
  <2>3. b[1] = <<>> \o x BY <1>4, <2>2, Zenon
  <2>4. <<>> \o x = x /\ x \o <<>> = x OBVIOUS
  <2>5. b[1] = x \o a[0] BY <1>3, <2>3, <2>4, Zenon
  <2> QED BY <2>1, <2>5
<1>6. ASSUME NEW k \in R PROVE k + 1 \in R
  <2>1. k \in Nat OBVIOUS
  <2> SUFFICES ASSUME k + 1 <= n PROVE b[(k + 1) + 1] = x \o a[k + 1] BY <2>1
  <2>2. k + 1 \in 1..n /\ (k + 1) - 1 = k /\ (k + 1) + 1 \in 1..(n + 1)
        /\ ((k + 1) + 1) - 1 = k + 1 /\ k <= n /\ k \in 0..n
    BY <1>0, <2>1
  <2>3. b[k + 1] = x \o a[k] BY <2>2
  <2>4. a[k + 1] = a[k] \o s[k + 1] BY <1>3, <2>2
  <2>5. b[(k + 1) + 1] = b[k + 1] \o t[(k + 1) + 1] BY <1>4, <2>2
  <2>6. t[(k + 1) + 1] = s[k + 1] BY <2>2 DEF n
  <2>7. a[k] \in V /\ s[k + 1] \in V BY <1>0, <1>3, <2>2
  <2>8. \A u, v, w \in V : (u \o v) \o w = u \o (v \o w) OBVIOUS
  <2>9. x \in V OBVIOUS
  <2>10. (x \o a[k]) \o s[k + 1] = x \o (a[k] \o s[k + 1]) BY <2>7, <2>8, <2>9, Zenon
  <2> QED BY <2>3, <2>4, <2>5, <2>6, <2>10, Zenon
<1>7. R = Nat BY <1>5, <1>6, InductionOverNat
<1>8. b[n + 1] = x \o a[n]
  <2> HIDE DEF P
  <2>1. \A k \in R : k <= n => P(k) OBVIOUS
  <2> HIDE DEF R
  <2>2. P(n) BY <1>0, <1>7, <2>1
  <2> QED BY <2>2, Zenon DEF P
<1> QED BY <1>1, <1>2, <1>8, Zenon

\* What has to do with its head and its tail
LEMMA FlattenHead ==
  ASSUME NEW S, NEW s \in Seq(Seq(S)), s # <<>>
  PROVE  FlattenSeq(s) = Head(s) \o FlattenSeq(Tail(s))
<1> DEFINE V == Seq(S)
           t == Tail(s)
           x == Head(s)
<1>1. t \in Seq(V) /\ Len(s) = Len(t) + 1 /\ x \in V /\ s[1] = x
      /\ \A k \in 1..Len(t) : s[k + 1] = t[k]
  OBVIOUS
<1> HIDE DEF t, x
<1>2. FlattenSeq(s) = x \o FlattenSeq(t) BY <1>1, FlattenCons
<1> QED BY <1>2 DEF t, x

\* The number of elements of x about page p
Count(x, p) == Cardinality({k \in 1..Len(x) : x[k][1] = p})

\* A chunk of a page
Text == Nat \X Seq(Nat)

\* What is counted of two sequences is what is counted of each.
LEMMA CountConcat ==
  ASSUME NEW S, NEW x \in Seq(S), NEW y \in Seq(S), NEW p
  PROVE  /\ Count(x \o y, p) = Count(x, p) + Count(y, p)
         /\ Count(x, p) \in Nat /\ Count(y, p) \in Nat
<1> DEFINE z == x \o y
           m == Len(x)
           n == Len(y)
           A == {k \in 1..m : x[k][1] = p}
           B == {k \in 1..n : y[k][1] = p}
           C == {k \in 1..(m + n) : z[k][1] = p}
           D == {m + k : k \in B}
<1>1. /\ m \in Nat /\ n \in Nat /\ Len(z) = m + n
      /\ \A k \in 1..m : z[k] = x[k]
      /\ \A k \in 1..n : z[m + k] = y[k]
  OBVIOUS
<1> HIDE DEF z, m, n
<1>2. IsFiniteSet(A) /\ IsFiniteSet(B)
  <2>1. IsFiniteSet(1..m) /\ IsFiniteSet(1..n) BY <1>1, FS_Interval
  <2>2. A \subseteq 1..m /\ B \subseteq 1..n OBVIOUS
  <2> HIDE DEF A, B
  <2> QED BY <2>1, <2>2, FS_Subset
<1>3. C = A \cup D
  <2>1. ASSUME NEW k \in C PROVE k \in A \cup D
    <3>1. CASE k \in 1..m BY <1>1, <3>1
    <3>2. CASE k \notin 1..m
      <4>1. k - m \in 1..n /\ m + (k - m) = k BY <1>1, <3>2
      <4>2. y[k - m] = z[k] BY <1>1, <4>1
      <4>3. k - m \in B BY <4>1, <4>2
      <4> QED BY <4>1, <4>3
    <3> QED BY <3>1, <3>2
  <2>2. ASSUME NEW k \in A PROVE k \in C BY <1>1
  <2>3. ASSUME NEW k \in B PROVE m + k \in C
    <3>1. m + k \in 1..(m + n) BY <1>1
    <3> QED BY <1>1, <3>1
  <2> QED BY <2>1, <2>2, <2>3
<1>4. A \cap D = {}
  <2>1. \A k \in B : m + k \notin 1..m BY <1>1
  <2> QED BY <2>1
<1>5. Cardinality(D) = Cardinality(B) /\ IsFiniteSet(D)
  <2> DEFINE f == [k \in B |-> m + k]
  <2>1. f \in Bijection(B, D)
    <3>1. f \in [B -> D] OBVIOUS
    <3>2. \A i, j \in B : f[i] = f[j] => i = j BY <1>1
    <3>3. \A d \in D : \E k \in B : f[k] = d OBVIOUS
    <3> HIDE DEF D, B, f
    <3> QED BY <3>1, <3>2, <3>3 DEF Bijection, Injection, Surjection, IsInjective
  <2> HIDE DEF D, B, f
  <2>2. ExistsBijection(B, D) BY <2>1 DEF ExistsBijection
  <2> QED BY <1>2, <2>2, FS_Bijection
<1> HIDE DEF A, B, C, D
<1>6. Cardinality(A \cup D) = Cardinality(A) + Cardinality(D) - Cardinality(A \cap D)
  BY <1>2, <1>5, FS_Union
<1>7. Cardinality(A \cap D) = 0 BY <1>4, FS_EmptySet
<1>8. Cardinality(A) \in Nat /\ Cardinality(B) \in Nat BY <1>2, FS_CardinalityType
<1>9. Cardinality(C) = Cardinality(A) + Cardinality(B) BY <1>3, <1>5, <1>6, <1>7, <1>8
<1>10. Count(x, p) = Cardinality(A) /\ Count(y, p) = Cardinality(B)
  BY DEF Count, A, B, m, n
<1>11. Count(z, p) = Cardinality(C) BY <1>1 DEF Count, C
<1>12. Count(x \o y, p) = Cardinality(C) BY <1>11 DEF z
<1> QED BY <1>8, <1>9, <1>10, <1>12

\* Of a sequence about one page each element counts, and none for another page.
LEMMA CountOfOne ==
  ASSUME NEW S, NEW x \in Seq(S), NEW q, \A k \in 1..Len(x) : x[k][1] = q
  PROVE  Count(x, q) = Len(x) /\ \A p : p # q => Count(x, p) = 0
<1>1. Len(x) \in Nat OBVIOUS
<1>2. {k \in 1..Len(x) : x[k][1] = q} = 1..Len(x) OBVIOUS
<1>3. Cardinality(1..Len(x)) = Len(x)
  <2> DEFINE n == Len(x)
  <2>1. n \in Nat BY <1>1
  <2> HIDE DEF n
  <2>2. Cardinality(1..n) = IF 1 > n THEN 0 ELSE n - 1 + 1 BY <2>1, FS_Interval
  <2>3. Cardinality(1..n) = n BY <2>1, <2>2
  <2> QED BY <2>3 DEF n
<1>4. \A p : p # q => {k \in 1..Len(x) : x[k][1] = p} = {} OBVIOUS
<1>5. \A p : p # q => Count(x, p) = 0 BY <1>4, FS_EmptySet DEF Count
<1> QED BY <1>2, <1>3, <1>5 DEF Count

\* The chunks of one page
PieceOf(p) == LET cs == ChunksOf(p) IN [c \in DOMAIN cs |-> <<p, cs[c]>>]

\* What they are.
LEMMA PieceFacts ==
  ASSUME Fixed, NEW p \in 1..Len(pages)
  PROVE  /\ PieceOf(p) \in Seq(Text)
         /\ \A k \in 1..Len(PieceOf(p)) : PieceOf(p)[k][1] = p
         /\ Count(PieceOf(p), p) = Len(ChunksOf(p))
         /\ \A q : q # p => Count(PieceOf(p), q) = 0
<1> DEFINE cs == ChunksOf(p)
           n == Len(cs)
           V == Seq(Nat)
           x == [c \in DOMAIN cs |-> <<p, cs[c]>>]
<1>1. cs \in Seq(V) BY ChunksCover
<1>2. p \in Nat
  <2>1. Len(pages) \in Nat BY PageFacts
  <2> QED BY <2>1
<1> HIDE DEF cs, V
<1>3. n \in Nat /\ DOMAIN cs = 1..n /\ \A k \in 1..n : cs[k] \in V BY <1>1
<1>4. \A k \in 1..n : <<p, cs[k]>> \in Text BY <1>2, <1>3 DEF Text, V
<1>5. DOMAIN x = 1..n /\ \A k \in 1..n : x[k] = <<p, cs[k]>> BY <1>3
<1>6. x \in [1..n -> Text] BY <1>3, <1>4
<1> HIDE DEF x, n
<1>7. x \in Seq(Text) /\ Len(x) = n
  <2>1. x \in Seq(Text) BY <1>3, <1>6, SeqDef
  <2>2. Len(x) = n BY <1>3, <1>5, <2>1
  <2> QED BY <2>1, <2>2
<1>8. \A k \in 1..Len(x) : x[k][1] = p BY <1>5, <1>7
<1>9. Count(x, p) = Len(x) /\ \A q : q # p => Count(x, q) = 0 BY <1>7, <1>8, CountOfOne
<1>10. PieceOf(p) = x BY Zenon DEF PieceOf, x, cs
<1> QED BY <1>7, <1>8, <1>9, <1>10 DEF n, cs

\* t holds every chunk of the pages from first to last, and nothing else.
AreTexts(t, first, last) ==
  /\ t \in Seq(Text)
  /\ \A k \in 1..Len(t) : t[k][1] \in first..last
  /\ \A p \in first..last : Count(t, p) = Len(ChunksOf(p))

\* One page more.
LEMMA TextsConcat ==
  ASSUME Fixed, NEW t, NEW first \in Nat, NEW last \in Nat, NEW p,
         first <= p, p \in 1..Len(pages), p = last + 1, AreTexts(t, first, last)
  PROVE  AreTexts(t \o PieceOf(p), first, p)
<1> DEFINE y == PieceOf(p)
           z == t \o y
<1>1. /\ y \in Seq(Text) /\ \A k \in 1..Len(y) : y[k][1] = p
      /\ Count(y, p) = Len(ChunksOf(p)) /\ \A q : q # p => Count(y, q) = 0
  BY PieceFacts
<1>2. /\ t \in Seq(Text) /\ \A k \in 1..Len(t) : t[k][1] \in first..last
      /\ \A q \in first..last : Count(t, q) = Len(ChunksOf(q))
  BY DEF AreTexts
<1> HIDE DEF y
<1>3. p \in Nat /\ p = last + 1 OBVIOUS
<1>4. z \in Seq(Text) BY <1>1, <1>2
<1>5. /\ Len(t) \in Nat /\ Len(y) \in Nat /\ Len(z) = Len(t) + Len(y)
      /\ \A k \in 1..Len(t) : z[k] = t[k]
      /\ \A k \in 1..Len(y) : z[Len(t) + k] = y[k]
  BY <1>1, <1>2
<1>6. \A q : Count(z, q) = Count(t, q) + Count(y, q)
             /\ Count(t, q) \in Nat /\ Count(y, q) \in Nat
  BY <1>1, <1>2, CountConcat
<1> HIDE DEF z
<1>7. ASSUME NEW k \in 1..Len(z) PROVE z[k][1] \in first..p
  <2>1. CASE k \in 1..Len(t)
    <3>1. z[k] = t[k] /\ t[k][1] \in first..last BY <1>2, <1>5, <2>1
    <3> QED BY <1>3, <3>1
  <2>2. CASE k \notin 1..Len(t)
    <3>1. k - Len(t) \in 1..Len(y) /\ Len(t) + (k - Len(t)) = k BY <1>5, <2>2
    <3>2. z[k] = y[k - Len(t)] BY <1>5, <3>1
    <3>3. z[k][1] = p BY <1>1, <3>1, <3>2
    <3> QED BY <1>3, <3>3
  <2> QED BY <2>1, <2>2
<1>8. Count(t, p) = 0
  <2>1. \A k \in 1..Len(t) : t[k][1] # p BY <1>2, <1>3
  <2>2. {k \in 1..Len(t) : t[k][1] = p} = {} BY <2>1
  <2> QED BY <2>2, FS_EmptySet DEF Count
<1>9. ASSUME NEW q \in first..p PROVE Count(z, q) = Len(ChunksOf(q))
  <2>1. CASE q = p
    <3>1. Count(z, p) = Count(y, p) BY <1>6, <1>8
    <3> QED BY <1>1, <2>1, <3>1
  <2>2. CASE q # p
    <3>1. q \in first..last BY <1>3, <2>2
    <3>2. Count(z, q) = Count(t, q) BY <1>1, <1>6, <2>2
    <3> QED BY <1>2, <3>1, <3>2
  <2> QED BY <2>1, <2>2
<1>10. AreTexts(z, first, p) BY <1>4, <1>7, <1>9 DEF AreTexts
<1> QED BY <1>10 DEF z, y

\* The chunks a flush gathers are those of its pages.
LEMMA TextsAre ==
  ASSUME Fixed, NEW first, NEW last, first \in Nat \ {0}, last \in Nat,
         first <= last + 1, last <= Len(pages)
  PROVE  AreTexts(TextsOf(first, last), first, last)
<1> DEFINE n == last - first + 1
           s == [k \in 1..n |-> PieceOf(first + k - 1)]
           V == Seq(Text)
<1>0. n \in Nat /\ Len(pages) \in Nat /\ first + n = last + 1 BY PageFacts
<1>1. TextsOf(first, last) = FlattenSeq(s) BY DEF TextsOf, PieceOf
<1>2. \A k \in 1..n : first + k - 1 \in 1..Len(pages) BY <1>0
<1>3. \A k \in 1..n : PieceOf(first + k - 1) \in V BY <1>2, PieceFacts
<1>4. s \in Seq(V) /\ Len(s) = n /\ \A k \in 1..n : s[k] = PieceOf(first + k - 1)
  <2>1. s \in [1..n -> V] BY <1>3
  <2>2. DOMAIN s = 1..n /\ \A k \in 1..n : s[k] = PieceOf(first + k - 1) OBVIOUS
  <2> HIDE DEF s, n, V
  <2>3. s \in Seq(V) BY <1>0, <2>1, SeqDef
  <2> QED BY <1>0, <2>2, <2>3
<1> HIDE DEF s, n
<1>5. PICK a : Flattens(a, s, Text) /\ a[n] = FlattenSeq(s) BY <1>4, FlattenSteps
<1>6. a[0] = <<>> /\ \A k \in 1..n : a[k] = a[k - 1] \o PieceOf(first + k - 1)
  BY <1>4, <1>5 DEF Flattens
<1> DEFINE P(k) == AreTexts(a[k], first, first + k - 1)
           S == {k \in Nat : k <= n => P(k)}
<1>7. P(0)
  <2>1. first..(first + 0 - 1) = {} OBVIOUS
  <2>2. <<>> \in Seq(Text) /\ 1..Len(<<>>) = {} OBVIOUS
  <2> QED BY <1>6, <2>1, <2>2 DEF AreTexts
<1>8. ASSUME NEW k \in Nat, k + 1 <= n, P(k) PROVE P(k + 1)
  <2> DEFINE p == first + (k + 1) - 1
             l == first + k - 1
  <2>1. k + 1 \in 1..n /\ (k + 1) - 1 = k /\ l \in Nat /\ p = l + 1 /\ first <= p
    BY <1>0, <1>8
  <2>2. p \in 1..Len(pages) BY <1>2, <2>1
  <2>3. AreTexts(a[k], first, l) BY <1>8
  <2>4. a[k + 1] = a[(k + 1) - 1] \o PieceOf(p) BY <1>6, <2>1
  <2>5. a[k + 1] = a[k] \o PieceOf(p) BY <2>1, <2>4, Zenon
  <2> HIDE DEF p, l
  <2> DEFINE t == a[k]
  <2> HIDE DEF t
  <2>6. AreTexts(t \o PieceOf(p), first, p)
    <3>1. AreTexts(t, first, l) BY <2>3 DEF t
    <3>2. first \in Nat OBVIOUS
    <3> QED BY <2>1, <2>2, <3>1, <3>2, TextsConcat
  <2> QED BY <2>5, <2>6, Zenon DEF p, t
<1> HIDE DEF P
<1>9. 0 \in S BY <1>7
<1>10. ASSUME NEW k \in S PROVE k + 1 \in S
  <2>1. k \in Nat OBVIOUS
  <2> SUFFICES ASSUME k + 1 <= n PROVE P(k + 1) BY <2>1
  <2>2. P(k) BY <1>0, <2>1
  <2> QED BY <1>8, <2>1, <2>2
<1>11. S = Nat BY <1>9, <1>10, InductionOverNat
<1>12. P(n)
  <2>1. \A k \in S : k <= n => P(k) OBVIOUS
  <2> HIDE DEF S
  <2> QED BY <1>0, <1>11, <2>1
<1>13. AreTexts(a[n], first, last)
  <2>1. first + n - 1 = last BY <1>0
  <2> QED BY <1>12, <2>1, Zenon DEF P
<1> QED BY <1>1, <1>5, <1>13, Zenon

\* The pages of a flush with text: there are some if there is any chunk.
LEMMA WithTextFacts ==
  ASSUME Fixed, NEW t, NEW first, NEW last, first \in Nat \ {0}, last \in Nat,
         first <= last + 1, last <= Len(pages), AreTexts(t, first, last)
  PROVE  /\ Cardinality(WithText(first, last)) \in Nat
         /\ Cardinality(WithText(first, last)) <= last - first + 1
         /\ t = <<>> => Cardinality(WithText(first, last)) = 0
         /\ t # <<>> => Cardinality(WithText(first, last)) > 0
<1> DEFINE W == WithText(first, last)
           c == Cardinality(W)
<1>0. Len(pages) \in Nat BY PageFacts
<1>1. W = {p \in first..last : ChunksOf(p) # <<>>} BY DEF WithText
<1>2. IsFiniteSet(first..last) /\ Cardinality(first..last) = last - first + 1
  <2>1. first \in Int /\ last \in Int OBVIOUS
  <2>2. /\ IsFiniteSet(first..last)
        /\ Cardinality(first..last) = IF first > last THEN 0 ELSE last - first + 1
    BY <2>1, FS_Interval
  <2> QED BY <2>2
<1> HIDE DEF W
<1>3. W \subseteq first..last BY <1>1
<1>4. IsFiniteSet(W) /\ c <= Cardinality(first..last)
  <2> DEFINE I == first..last
  <2>1. IsFiniteSet(I) /\ W \subseteq I BY <1>2, <1>3
  <2> HIDE DEF I
  <2>2. IsFiniteSet(W) /\ Cardinality(W) <= Cardinality(I) BY <2>1, FS_Subset
  <2> QED BY <2>2 DEF I
<1>5. c \in Nat BY <1>4, FS_CardinalityType
<1>6. /\ t \in Seq(Text) /\ \A k \in 1..Len(t) : t[k][1] \in first..last
      /\ \A p \in first..last : Count(t, p) = Len(ChunksOf(p))
  BY DEF AreTexts
<1>7. \A p \in first..last : p \in 1..Len(pages) BY <1>0
<1>8. \A p \in first..last : ChunksOf(p) \in Seq(Seq(Nat)) BY <1>7, ChunksCover
<1>9. ASSUME t = <<>> PROVE c = 0
  <2>1. 1..Len(t) = {} BY <1>9
  <2>2. \A p : {k \in 1..Len(t) : t[k][1] = p} = {} BY <2>1
  <2>3. \A p : Count(t, p) = 0 BY <2>2, FS_EmptySet DEF Count
  <2>4. \A p \in first..last : Len(ChunksOf(p)) = 0 BY <1>6, <2>3
  <2>5. \A p \in first..last : ChunksOf(p) = <<>> BY <1>8, <2>4
  <2>6. W = {} BY <1>1, <2>5
  <2> QED BY <2>6, FS_EmptySet
<1>10. ASSUME t # <<>> PROVE c > 0
  <2>1. 1 \in 1..Len(t) BY <1>6, <1>10
  <2> DEFINE p == t[1][1]
             K == {k \in 1..Len(t) : t[k][1] = p}
  <2>2. p \in first..last /\ 1 \in K BY <1>6, <2>1
  <2>3. Count(t, p) = Cardinality(K) BY DEF Count
  <2>4. Len(t) \in Nat BY <1>6
  <2>5. IsFiniteSet(K)
    <3>1. IsFiniteSet(1..Len(t)) BY <2>4, FS_Interval
    <3>2. K \subseteq 1..Len(t) OBVIOUS
    <3> HIDE DEF K
    <3> QED BY <3>1, <3>2, FS_Subset
  <2> HIDE DEF K, p
  <2>6. Cardinality(K) # 0 BY <2>2, <2>5, FS_EmptySet
  <2>7. Len(ChunksOf(p)) # 0 BY <1>6, <2>2, <2>3, <2>6
  <2>8. p \in W BY <1>1, <2>2, <2>7
  <2>9. c # 0 BY <1>4, <2>8, FS_EmptySet
  <2> QED BY <1>5, <2>9
<1>11. c <= last - first + 1 BY <1>2, <1>4
<1> QED BY <1>5, <1>9, <1>10, <1>11 DEF W

-----------------------------------------------------------------------------
(* The types of the variables, and what is in hand during a flush.           *)

\* A page, a chunk and its embedding
Point == Seq(Nat \cup Seq(Nat) \cup Text)

\* z is t and one element more.
Extends(z, t, e, S) ==
  /\ z \in Seq(S) /\ \A i \in 1..Len(t) : z[i] = t[i]
  /\ z[Len(t) + 1] = e

\* That is what Append returns.
LEMMA AppendExtends ==
  ASSUME NEW S, NEW t, NEW e, t \in Seq(S), e \in S
  PROVE  Extends(Append(t, e), t, e, S)
<1>1. Len(t) \in Nat /\ Append(t, e) \in Seq(S) /\ Len(Append(t, e)) = Len(t) + 1 OBVIOUS
<1>2. Append(t, e)[Len(t) + 1] = e BY <1>1
<1>3. \A i \in 1..Len(t) : Append(t, e)[i] = t[i] BY <1>1
<1> QED BY <1>1, <1>2, <1>3, Zenon DEF Extends

\* A point is put together from a chunk and an embedding.
LEMMA PointOf ==
  ASSUME NEW t, NEW e, t \in Text, e \in Text
  PROVE  /\ Append(t, e) \in Point /\ Append(t, e)[1] = t[1]
         /\ Append(t, e)[2] = t[2] /\ Append(t, e)[3] = e
<1> DEFINE S == Nat \cup Seq(Nat) \cup Text
<1>1. PICK x \in Nat, y \in Seq(Nat) : t = <<x, y>> BY DEF Text
<1>2. x \in S /\ y \in S /\ e \in S OBVIOUS
<1> HIDE DEF S
<1>3. <<x, y>> \in Seq(S) /\ Len(<<x, y>>) = 2 BY <1>2
<1>4. t \in Seq(S) /\ Len(t) = 2 BY <1>1, <1>3, Zenon
<1> DEFINE z == Append(t, e)
<1>5. z \in Seq(S) /\ z[1] = t[1] /\ z[2] = t[2] /\ z[3] = e
  <2>1. Extends(z, t, e, S) BY <1>2, <1>4, AppendExtends, Zenon
  <2> HIDE DEF z
  <2>2. 1 \in 1..Len(t) /\ 2 \in 1..Len(t) /\ Len(t) + 1 = 3 BY <1>4
  <2> QED BY <2>1, <2>2 DEF Extends
<1> QED BY <1>5, Zenon DEF z, S, Point

\* The number of points an upsert makes: zip stops at the shortest.
Zipped == IF Len(texts) <= Len(embeddings) THEN Len(texts) ELSE Len(embeddings)

\* Each point is about the page of its chunk.
LEMMA VectorsFacts ==
  ASSUME texts \in Seq(Text), embeddings \in Seq(Text)
  PROVE  /\ Vectors \in Seq(Point) /\ Len(Vectors) = Zipped
         /\ \A k \in 1..Len(Vectors) :
              /\ k \in 1..Len(texts) /\ k \in 1..Len(embeddings)
              /\ Vectors[k][1] = texts[k][1] /\ Vectors[k][2] = texts[k][2]
              /\ Vectors[k][3] = embeddings[k]
<1> DEFINE a == Len(texts)
           b == Len(embeddings)
           n == Min({a, b})
           v == [k \in 1..n |-> Append(texts[k], embeddings[k])]
<1>1. a \in Nat /\ b \in Nat /\ a \in Int /\ b \in Int OBVIOUS
<1>2. n = Zipped
  <2> HIDE DEF a, b
  <2>1. n = IF a <= b THEN a ELSE b BY <1>1, TwoNumbers
  <2> QED BY <2>1 DEF Zipped, a, b
<1> HIDE DEF n
<1>3. n \in Nat /\ n <= a /\ n <= b BY <1>1, <1>2 DEF Zipped
<1>4. \A k \in 1..n : k \in 1..a /\ k \in 1..b BY <1>1, <1>3
<1>5. \A k \in 1..n : texts[k] \in Text /\ embeddings[k] \in Text BY <1>4
<1>6. DOMAIN v = 1..n /\ \A k \in 1..n : v[k] = Append(texts[k], embeddings[k]) OBVIOUS
<1>7. Vectors = v BY Zenon DEF Vectors, v, n, a, b
<1> HIDE DEF v
<1>8. ASSUME NEW k \in 1..n
      PROVE  /\ v[k] \in Point /\ v[k][1] = texts[k][1] /\ v[k][2] = texts[k][2]
             /\ v[k][3] = embeddings[k]
  <2> DEFINE t == texts[k]
             e == embeddings[k]
  <2>1. t \in Text /\ e \in Text /\ v[k] = Append(t, e) BY <1>5, <1>6
  <2> HIDE DEF t, e
  <2>2. /\ Append(t, e) \in Point /\ Append(t, e)[1] = t[1]
        /\ Append(t, e)[2] = t[2] /\ Append(t, e)[3] = e
    BY <2>1, PointOf, Zenon
  <2> QED BY <2>1, <2>2, Zenon DEF t, e
<1>9. v \in Seq(Point) /\ Len(v) = n
  <2>1. \E f : f = v /\ f \in [1..n -> Point]
    <3>1. v = [k \in 1..n |-> v[k]] BY <1>6 DEF v
    <3>2. v \in [1..n -> Point] BY <1>8, <3>1
    <3> QED BY <3>2
  <2>2. v \in Seq(Point) BY <1>3, <2>1, SeqDef
  <2>3. Len(v) = n BY <1>3, <1>6, <2>2
  <2> QED BY <2>2, <2>3
<1> QED BY <1>2, <1>4, <1>7, <1>8, <1>9 DEF a, b

Places == {"load", "embed", "ensure", "create", "upsert", "flushed", "progress", "check",
           "end"} \cup Ended

\* The type of every variable
Typed ==
  /\ Fixed
  /\ pc \in Places /\ idx \in Nat /\ batch \in Nat
  /\ texts \in Seq(Text) /\ taken \in Nat /\ taken <= Len(texts)
  /\ calls \in Seq(Seq(Text)) /\ embeddings \in Seq(Text)
  /\ vectorized \in Nat /\ failed \in Nat /\ chunks \in Nat
  /\ points \in Seq(Point)
  /\ collection \in BOOLEAN /\ tenant \in {"here", "dropped", "gone"} /\ left \in Nat
  /\ status \in {"pending", "running", "completed", "failed", "gone"}
  /\ failures \in Nat

\* What is gathered is reset between two batches.
Idle == taken = 0 /\ calls = <<>> /\ embeddings = <<>>

\* The chunks in hand are those of the pages in hand.
Hand == AreTexts(texts, idx + 1, idx + batch) /\ texts # <<>>

\* The pages and the chunks in hand during a flush
InHand ==
  /\ batch <= PageBatch /\ idx + batch <= Len(pages)
  /\ pc \in Flushing => Hand
  /\ pc \notin Flushing \cup {"flushed"} => Idle

Run == Typed /\ InHand

\* The pages of the next batch.
LEMMA BatchSize ==
  ASSUME Run, NEW size, size = Min({PageBatch, Remaining}), size > 0
  PROVE  /\ size \in Nat /\ size <= PageBatch /\ idx + size <= Len(pages) /\ tenant # "gone"
         /\ AreTexts(TextsOf(idx + 1, idx + size), idx + 1, idx + size)
         /\ Cardinality(WithText(idx + 1, idx + size)) \in 0..size
<1> DEFINE a == PageBatch
           b == Remaining
<1>1. a \in Int /\ a > 0 BY IndexingAssumption
<1>2. idx \in Nat /\ Len(pages) \in Nat BY PageFacts DEF Run, Typed
<1>3. b \in Int /\ (tenant = "gone" => b = 0) /\ (tenant # "gone" => b = Len(pages) - idx)
  BY <1>2 DEF Remaining
<1> HIDE DEF a, b
<1>4. size = IF a <= b THEN a ELSE b
  <2>1. Min({a, b}) = IF a <= b THEN a ELSE b BY <1>1, <1>3, TwoNumbers
  <2> QED BY <2>1 DEF a, b
<1>5. size \in Nat /\ size <= a /\ idx + size <= Len(pages) /\ tenant # "gone"
  BY <1>1, <1>2, <1>3, <1>4
<1> DEFINE f == idx + 1
           l == idx + size
<1>6. f \in Nat \ {0} /\ l \in Nat /\ f <= l + 1 /\ l <= Len(pages) /\ l - f + 1 = size
  BY <1>2, <1>5
<1>7. Fixed BY DEF Run, Typed
<1> HIDE DEF f, l
<1>8. AreTexts(TextsOf(f, l), f, l) BY <1>6, <1>7, TextsAre
<1>9. Cardinality(WithText(f, l)) \in Nat /\ Cardinality(WithText(f, l)) <= l - f + 1
  BY <1>6, <1>7, <1>8, WithTextFacts
<1>10. Cardinality(WithText(f, l)) \in 0..size BY <1>5, <1>6, <1>9
<1> QED BY <1>5, <1>8, <1>10 DEF a, f, l

\* Of the pages of a flush that is going on, some have text.
LEMMA FlushPages ==
  ASSUME Run, pc \in Flushing
  PROVE  /\ Cardinality(WithText(idx + 1, idx + batch)) \in 1..batch
         /\ \A k \in 1..Len(texts) : texts[k][1] \in (idx + 1)..(idx + batch)
<1> DEFINE f == idx + 1
           l == idx + batch
<1>1. AreTexts(texts, f, l) /\ texts # <<>> BY DEF Run, InHand, Hand
<1>2. idx \in Nat /\ batch \in Nat /\ l <= Len(pages) /\ Fixed BY DEF Run, InHand, Typed
<1>3. f \in Nat \ {0} /\ l \in Nat /\ f <= l + 1 /\ l - f + 1 = batch BY <1>2
<1> HIDE DEF f, l
<1>4. Cardinality(WithText(f, l)) \in Nat /\ Cardinality(WithText(f, l)) <= l - f + 1
      /\ Cardinality(WithText(f, l)) > 0
  BY <1>1, <1>2, <1>3, WithTextFacts
<1>5. Cardinality(WithText(f, l)) \in 1..batch BY <1>2, <1>3, <1>4
<1>6. \A k \in 1..Len(texts) : texts[k][1] \in f..l BY <1>1 DEF AreTexts
<1> QED BY <1>5, <1>6 DEF f, l

\* The chunks in hand stay what they are while nothing of it changes.
LEMMA HandKept ==
  ASSUME Hand, UNCHANGED <<fixed, texts, idx, batch>>
  PROVE  Hand'
BY DEF Hand, fixed, AreTexts, Count, ChunksOf, Chunked

\* Before its first step.
LEMMA InitRun == Init => Run
<1> SUFFICES ASSUME Init PROVE Run OBVIOUS
<1>1. Fixed BY DEF Init, Fixed
<1>2. Len(pages) \in Nat BY <1>1, PageFacts
<1>3. PageBatch \in Nat BY IndexingAssumption
<1>4. /\ pc = "load" /\ idx = 0 /\ batch = 0 /\ texts = <<>> /\ taken = 0 /\ calls = <<>>
      /\ embeddings = <<>> /\ vectorized = 0 /\ failed = 0 /\ chunks = 0 /\ points = <<>>
      /\ status = "running" /\ collection = FALSE /\ tenant = "here" /\ left = 0
      /\ failures = 0
  BY DEF Init
<1>5. Typed
  <2>1. <<>> \in Seq(Text) /\ <<>> \in Seq(Seq(Text)) /\ <<>> \in Seq(Point) /\ Len(<<>>) = 0
    OBVIOUS
  <2>2. texts \in Seq(Text) /\ calls \in Seq(Seq(Text)) /\ embeddings \in Seq(Text)
        /\ points \in Seq(Point) /\ Len(texts) = 0
    BY <1>4, <2>1, Zenon
  <2>3. taken \in Nat /\ taken <= Len(texts) BY <1>4, <2>2
  <2>4. pc \in Places /\ idx \in Nat /\ batch \in Nat /\ vectorized \in Nat /\ failed \in Nat
        /\ chunks \in Nat /\ failures \in Nat /\ left \in Nat /\ collection \in BOOLEAN
        /\ tenant \in {"here", "dropped", "gone"}
        /\ status \in {"pending", "running", "completed", "failed", "gone"}
    BY <1>4 DEF Places
  <2> QED BY <1>1, <2>2, <2>3, <2>4, Zenon DEF Typed
<1>6. InHand BY <1>2, <1>3, <1>4 DEF InHand, Idle, Flushing
<1> QED BY <1>5, <1>6 DEF Run

\* The steps in which nothing is gathered, embedded or stored.
LEMMA QuietSteps ==
  ASSUME Run,
         \/ Embedded \/ FindCollection \/ WriteProgress \/ CheckCancelled \/ Complete
         \/ RunFails \/ OthersReport \/ OthersCreate \/ DropCollection \/ DeleteTenant
         \/ AfterFlush
         \/ UNCHANGED vars
  PROVE  Run'
<1>0. /\ Typed /\ Len(pages) \in Nat /\ <<>> \in Seq(Point) /\ <<>> \in Seq(Text)
      /\ <<>> \in Seq(Seq(Text)) /\ Len(points) \in Nat /\ Len(<<>>) = 0
  BY PageFacts DEF Run, Typed
<1>1. UNCHANGED <<pages, settings>> /\ Fixed' /\ Fixed
  BY <1>0 DEF Typed, Fixed, vars, fixed, Embedded, FindCollection, WriteProgress,
     CheckCancelled, Complete, RunFails, OthersReport, OthersCreate, DropCollection,
     DeleteTenant, AfterFlush
<1> USE DEF Run, Typed, InHand, Idle, Places, Ended, Flushing, fixed, work, counters, others,
            Report, ReportLost
<1>2. CASE Embedded
  <2>1. Hand' BY <1>2, HandKept DEF Embedded
  <2> QED BY <1>0, <1>1, <1>2, <2>1 DEF Embedded
<1>3. CASE FindCollection
  <2>1. Hand' BY <1>3, HandKept DEF FindCollection
  <2> QED BY <1>0, <1>1, <1>3, <2>1 DEF FindCollection
<1>4. CASE WriteProgress BY <1>0, <1>1, <1>4 DEF WriteProgress
<1>5. CASE CheckCancelled BY <1>0, <1>1, <1>5 DEF CheckCancelled
<1>6. CASE Complete BY <1>0, <1>1, <1>6 DEF Complete, AtEnd
<1>7. CASE RunFails BY <1>0, <1>1, <1>7 DEF RunFails
<1>8. CASE OthersCreate
  <2>1. Hand => Hand' BY <1>8, HandKept DEF OthersCreate
  <2> QED BY <1>0, <1>1, <1>8, <2>1 DEF OthersCreate, Meanwhile
<1>13. CASE OthersReport
  <2>1. Hand => Hand' BY <1>13, HandKept DEF OthersReport
  <2> QED BY <1>0, <1>1, <1>13, <2>1 DEF OthersReport, Meanwhile
<1>9. CASE DropCollection
  <2>1. Hand => Hand' BY <1>9, HandKept DEF DropCollection
  <2> QED BY <1>0, <1>1, <1>9, <2>1 DEF DropCollection, Meanwhile
<1>10. CASE DeleteTenant
  <2>1. Hand => Hand' BY <1>10, HandKept DEF DeleteTenant
  <2> QED BY <1>0, <1>1, <1>10, <2>1 DEF DeleteTenant, Meanwhile
<1>11. CASE AfterFlush
  <2>1. /\ pc = "flushed" /\ idx' = idx + batch /\ pc' \in {"end", "progress"}
        /\ batch' = 0 /\ texts' = <<>> /\ taken' = 0 /\ calls' = <<>> /\ embeddings' = <<>>
        /\ UNCHANGED <<counters, points, status, others, failures, unsure>>
    BY <1>11 DEF AfterFlush, Work0
  <2>2. Typed' BY <1>0, <1>1, <2>1
  <2>3. PageBatch \in Nat BY IndexingAssumption
  <2>4. InHand' BY <1>0, <1>1, <2>1, <2>3
  <2> QED BY <2>2, <2>4
<1>12. CASE UNCHANGED vars
  <2>1. Hand => Hand' BY <1>12, HandKept DEF vars
  <2> QED BY <1>0, <1>1, <1>12, <2>1 DEF vars
<1> QED BY <1>2, <1>3, <1>4, <1>5, <1>6, <1>7, <1>8, <1>9, <1>10, <1>11, <1>12, <1>13

\* The next batch of pages.
LEMMA LoadBatchRun ==
  ASSUME Run, LoadBatch
  PROVE  Run'
<1> DEFINE size == Min({PageBatch, Remaining})
           ts == TextsOf(idx + 1, idx + size)
           c == Cardinality(WithText(idx + 1, idx + size))
<1>0. Typed /\ pc = "load" /\ Idle BY DEF Run, InHand, LoadBatch, Flushing
<1>1. size > 0 BY DEF LoadBatch
<1>2. /\ size \in Nat /\ size <= PageBatch /\ idx + size <= Len(pages) /\ tenant # "gone"
      /\ AreTexts(ts, idx + 1, idx + size) /\ c \in 0..size
  <2> HIDE DEF size
  <2>1. size = Min({PageBatch, Remaining}) BY DEF size
  <2> QED BY <1>1, <2>1, BatchSize
<1>3. /\ batch' = size /\ texts' = ts /\ UNCHANGED <<taken, calls, embeddings>>
      /\ vectorized' = vectorized + size - c
      /\ pc' = IF ts = <<>> THEN "flushed" ELSE "embed"
      /\ UNCHANGED <<fixed, idx, failed, chunks, points, status, others, failures, unsure>>
  BY DEF LoadBatch
<1> HIDE DEF size, ts, c
<1>4. ts \in Seq(Text) BY <1>2 DEF AreTexts
<1>5. AreTexts(texts, idx + 1, idx + batch)'
  <2>1. UNCHANGED <<pages, settings, idx>> BY <1>3 DEF fixed
  <2> QED BY <1>2, <1>3, <2>1 DEF AreTexts, Count, ChunksOf, Chunked
<1>6. Fixed' /\ Len(pages') = Len(pages) BY <1>0, <1>3 DEF Typed, Fixed, fixed
<1>7. Len(ts) \in Nat BY <1>4
<1>8. vectorized' \in Nat BY <1>0, <1>2, <1>3 DEF Typed
<1>9. Typed' BY <1>0, <1>2, <1>3, <1>4, <1>6, <1>7, <1>8
      DEF Typed, Idle, Places, fixed, others
<1>10. InHand' BY <1>0, <1>2, <1>3, <1>5, <1>6 DEF InHand, Hand, Idle, Flushing, fixed
<1> QED BY <1>9, <1>10 DEF Run

\* The next texts for one call.
LEMMA GatherBatchRun ==
  ASSUME Run, GatherBatch
  PROVE  Run'
<1>0. Typed /\ InHand BY DEF Run
<1>1. /\ pc = "embed" /\ calls = <<>>
      /\ UNCHANGED <<fixed, pc, idx, batch, texts, embeddings, counters, points, status,
                     others, failures, unsure>>
  BY DEF GatherBatch
<1>2. PICK n \in 1..(Len(texts) - taken) :
        calls' = <<SubSeq(texts, taken + 1, taken + n)>> /\ taken' = taken + n
  BY DEF GatherBatch
<1>3. Hand' BY <1>0, <1>1, HandKept DEF InHand, Flushing
<1>4. texts \in Seq(Text) /\ taken \in Nat /\ Len(texts) \in Nat BY <1>0 DEF Typed
<1>5. taken + n \in Nat /\ taken + n <= Len(texts) BY <1>4
<1> DEFINE c == SubSeq(texts, taken + 1, taken + n)
<1>6. c \in Seq(Text)
  <2>1. \A i \in (taken + 1)..(taken + n) : texts[i] \in Text BY <1>4, <1>5
  <2>2. taken + 1 \in Int /\ taken + n \in Int /\ taken + 1 >= 1 BY <1>4
  <2> QED BY <2>1, <2>2, SubSeqProperties
<1> HIDE DEF c
<1>7. calls' \in Seq(Seq(Text)) BY <1>2, <1>6 DEF c
<1>8. Fixed' /\ Len(pages') = Len(pages) BY <1>0, <1>1 DEF Typed, Fixed, fixed
<1>9. Typed' BY <1>0, <1>1, <1>2, <1>4, <1>5, <1>7, <1>8 DEF Typed, counters, others
<1>10. InHand' BY <1>0, <1>1, <1>3, <1>8 DEF InHand, Flushing
<1> QED BY <1>9, <1>10 DEF Run

\* A call that is answered, and one that is halved.
LEMMA EmbedBatchRun ==
  ASSUME Run, EmbedBatch \/ SplitBatch
  PROVE  Run'
<1>0. Typed /\ InHand BY DEF Run
<1>1. /\ pc = "embed" /\ calls # <<>>
      /\ UNCHANGED <<fixed, pc, idx, batch, texts, taken, counters, points, status,
                     others, failures, unsure>>
  BY DEF EmbedBatch, SplitBatch
<1>2. Hand' BY <1>0, <1>1, HandKept DEF InHand, Flushing
<1> DEFINE V == Seq(Text)
           x == Head(calls)
           t == Tail(calls)
           m == Len(x) \div 2
           a == SubSeq(x, 1, m)
           b == SubSeq(x, m + 1, Len(x))
<1>3. calls \in Seq(V) /\ embeddings \in V BY <1>0 DEF Typed
<1>4. x \in V /\ t \in Seq(V)
  <2> HIDE DEF V
  <2> QED BY <1>1, <1>3
<1>5. Len(x) \in Nat BY <1>4
<1> HIDE DEF x, t
<1>6. m \in Nat /\ m <= Len(x) BY <1>5, Division
<1>7. a \in V /\ b \in V
  <2>1. \A i \in 1..m : x[i] \in Text BY <1>4, <1>6
  <2>2. \A i \in (m + 1)..Len(x) : x[i] \in Text BY <1>4, <1>6
  <2>3. m \in Int /\ m + 1 \in Int /\ Len(x) \in Int BY <1>5, <1>6
  <2> HIDE DEF m
  <2>4. a \in V BY <2>1, <2>3, SubSeqProperties
  <2>5. b \in V BY <1>6, <2>2, <2>3, SubSeqProperties
  <2> QED BY <2>4, <2>5
<1> HIDE DEF a, b, V
<1>8. <<a, b>> \o t \in Seq(V)
  <2>1. <<a, b>> \in Seq(V) BY <1>7
  <2> QED BY <1>4, <2>1
<1>9. embeddings' \in V /\ calls' \in Seq(V)
  <2>1. CASE EmbedBatch
    <3>1. embeddings' = embeddings \o x /\ calls' = t BY <2>1 DEF EmbedBatch, x, t
    <3> QED BY <1>3, <1>4, <3>1 DEF V
  <2>2. CASE SplitBatch
    <3>1. embeddings' = embeddings /\ calls' = <<a, b>> \o t
      BY <2>2 DEF SplitBatch, Halves, x, t, a, b
    <3> QED BY <1>3, <1>8, <3>1
  <2> QED BY <2>1, <2>2
<1>10. Fixed' /\ Len(pages') = Len(pages) BY <1>0, <1>1 DEF Typed, Fixed, fixed
<1>11. Typed' BY <1>0, <1>1, <1>9, <1>10 DEF Typed, counters, others, V
<1>12. InHand' BY <1>0, <1>1, <1>2, <1>10 DEF InHand, Flushing
<1> QED BY <1>11, <1>12 DEF Run

\* What a flush that fails, or that stores its points, leaves of the run.
LEMMA EndOfFlush ==
  ASSUME Run, pc \in Flushing,
         \/ FlushFails
         \/ pc' \in Flushing \cup {"flushed"} /\ UNCHANGED <<fixed, idx, work, failed, status>>,
         chunks' \in Nat, vectorized' \in Nat, points' \in Seq(Point), collection' \in BOOLEAN,
         failures' \in Nat, UNCHANGED <<tenant, left>>
  PROVE  Run'
<1>0. Typed /\ InHand BY DEF Run
<1>1. pc' \in Flushing \cup {"flushed"} /\ UNCHANGED <<fixed, idx, work, status>>
  BY DEF FlushFails
<1>2. Hand' BY <1>0, <1>1, HandKept DEF InHand, work
<1>3. failed' \in Nat
  <2>1. Cardinality(WithText(idx + 1, idx + batch)) \in Nat BY FlushPages
  <2> QED BY <1>0, <2>1 DEF Typed, FlushFails
<1>4. Fixed' /\ Len(pages') = Len(pages) BY <1>0, <1>1 DEF Typed, Fixed, fixed
<1>5. Typed' BY <1>0, <1>1, <1>3, <1>4 DEF Typed, Places, Flushing, work
<1>6. InHand' BY <1>0, <1>1, <1>2, <1>4 DEF InHand, Flushing, work
<1> QED BY <1>5, <1>6 DEF Run

\* The steps of a flush after the embeddings.
LEMMA FlushSteps ==
  ASSUME Run, CallFails \/ CreateCollection \/ Upsert \/ UpsertNowhere \/ UpsertLost
  PROVE  Run'
<1>0. Typed BY DEF Run
<1>1. pc \in Flushing
  BY DEF Flushing, CallFails, CreateCollection, Upsert, UpsertNowhere, UpsertLost
<1>2. points \o Vectors \in Seq(Point) /\ Len(Vectors) \in Nat
  <2>1. Vectors \in Seq(Point) BY <1>0, VectorsFacts DEF Typed
  <2> DEFINE v == Vectors
  <2> HIDE DEF v
  <2>2. points \o v \in Seq(Point) /\ Len(v) \in Nat BY <1>0, <2>1 DEF Typed, v
  <2> QED BY <2>2 DEF v
<1>3. Cardinality(WithText(idx + 1, idx + batch)) \in Nat BY <1>1, FlushPages
<1>4. /\ chunks \in Nat /\ vectorized \in Nat /\ failures \in Nat /\ collection \in BOOLEAN
      /\ points \in Seq(Point)
  BY <1>0 DEF Typed
<1>5. CASE CallFails
  <2>1. FlushFails /\ failures' = failures + 1 /\ UNCHANGED points BY <1>5 DEF CallFails
  <2>2. collection' \in BOOLEAN BY <1>4, <1>5 DEF CallFails, MayCreate
  <2> QED BY <1>1, <1>4, <2>1, <2>2, EndOfFlush DEF FlushFails
<1>6. CASE UpsertNowhere BY <1>1, <1>4, <1>6, EndOfFlush DEF UpsertNowhere, FlushFails
<1>7. CASE UpsertLost
  <2>1. FlushFails /\ points' = points \o Vectors /\ failures' = failures + 1
        /\ UNCHANGED collection
    BY <1>7 DEF UpsertLost
  <2>2. points' \in Seq(Point) BY <1>2, <2>1
  <2> QED BY <1>1, <1>4, <2>1, <2>2, EndOfFlush DEF FlushFails
<1>8. CASE Upsert
  <2>1. /\ points' = points \o Vectors /\ chunks' = chunks + Len(Vectors)
        /\ vectorized' = vectorized + Cardinality(WithText(idx + 1, idx + batch))
        /\ pc' = "flushed" /\ UNCHANGED <<fixed, idx, work, failed, status>>
        /\ UNCHANGED <<collection, tenant, left>> /\ UNCHANGED failures
    BY <1>8 DEF Upsert, others
  <2>2. points' \in Seq(Point) BY <1>2, <2>1
  <2>3. chunks' \in Nat /\ vectorized' \in Nat BY <1>2, <1>3, <1>4, <2>1
  <2> QED BY <1>1, <1>4, <2>1, <2>2, <2>3, EndOfFlush
<1>9. CASE CreateCollection
  <2>1. CASE FlushFails
    BY <1>1, <1>4, <1>9, <2>1, EndOfFlush DEF CreateCollection, FlushFails
  <2>2. CASE ~collection
    BY <1>1, <1>4, <1>9, <2>2, EndOfFlush DEF CreateCollection, Flushing, counters
  <2> QED BY <1>4, <1>9, <2>1, <2>2 DEF CreateCollection
<1> QED BY <1>5, <1>6, <1>7, <1>8, <1>9

\* What a run that is cut short leaves behind.
LEMMA InterruptedRun ==
  ASSUME Run, Interrupted
  PROVE  Run'
<1>0. Typed /\ Len(pages) \in Nat /\ PageBatch \in Nat /\ idx \in Nat /\ idx <= Len(pages)
  BY PageFacts, IndexingAssumption DEF Run, Typed, InHand
<1>1. /\ pc' = "interrupted" /\ batch' = 0 /\ texts' = <<>> /\ taken' = 0 /\ calls' = <<>>
      /\ embeddings' = <<>> /\ failures' = failures + 1
      /\ UNCHANGED <<pages, settings, idx, vectorized, failed, chunks, tenant, left>>
  BY DEF Interrupted, Work0, fixed, counters
<1>2. points' \in Seq(Point)
  <2>1. Vectors \in Seq(Point) BY <1>0, VectorsFacts DEF Typed
  <2> DEFINE v == Vectors
  <2> HIDE DEF v
  <2>2. points \o v \in Seq(Point) BY <1>0, <2>1 DEF Typed, v
  <2>3. points' = points \/ points' = points \o v BY DEF Interrupted, v
  <2> QED BY <1>0, <2>2, <2>3 DEF Typed
<1>3. status' \in {"pending", "running", "completed", "failed", "gone"}
  BY <1>0 DEF Interrupted, Report, ReportLost, Typed
<1>4. collection' \in BOOLEAN BY <1>0 DEF Interrupted, MayCreate, Typed
<1>5. Fixed' /\ Len(pages') = Len(pages) BY <1>0, <1>1 DEF Typed, Fixed
<1>6. Typed'
  <2>1. <<>> \in Seq(Text) /\ <<>> \in Seq(Seq(Text)) /\ Len(<<>>) = 0 OBVIOUS
  <2>2. texts' \in Seq(Text) /\ calls' \in Seq(Seq(Text)) /\ embeddings' \in Seq(Text)
        /\ Len(texts') = 0
    BY <1>1, <2>1, Zenon
  <2>3. taken' \in Nat /\ taken' <= Len(texts') BY <1>1, <2>2
  <2>4. pc' \in Places /\ batch' \in Nat /\ failures' \in Nat
    BY <1>0, <1>1 DEF Places, Ended, Typed
  <2>5. /\ idx' \in Nat /\ vectorized' \in Nat /\ failed' \in Nat /\ chunks' \in Nat
        /\ tenant' \in {"here", "dropped", "gone"} /\ left' \in Nat
    BY <1>0, <1>1 DEF Typed
  <2> QED BY <1>2, <1>3, <1>4, <1>5, <2>2, <2>3, <2>4, <2>5, Zenon DEF Typed
<1>7. InHand' BY <1>0, <1>1, <1>5 DEF InHand, Idle, Flushing
<1> QED BY <1>6, <1>7 DEF Run

\* Every step of the run and of the others.
LEMMA RunInductive == Run /\ [Next]_vars => Run'
<1> SUFFICES ASSUME Run, [Next]_vars PROVE Run' OBVIOUS
<1> QED BY QuietSteps, LoadBatchRun, GatherBatchRun, EmbedBatchRun, FlushSteps, InterruptedRun
    DEF Next, Proceed

-----------------------------------------------------------------------------
(* What is stored after the tenant is gone.                                  *)

\* After the tenant's row is gone, at most the batch in hand is still stored.
Late ==
  tenant = "gone" =>
    /\ left <= Len(points)
    /\ pc \in Flushing => Len(points) = left
    /\ \E b \in Nat : \A k \in (left + 1)..Len(points) :
         points[k][1] \in (b + 1)..(b + PageBatch)

\* An upsert stores points of the pages in hand.
LEMMA UpsertLate ==
  ASSUME Run, Late, pc \in Flushing, points' = points \o Vectors, pc' \notin Flushing,
         UNCHANGED <<tenant, left>>
  PROVE  Late'
<1> SUFFICES ASSUME tenant = "gone"
             PROVE  /\ left <= Len(points')
                    /\ \E b \in Nat : \A k \in (left + 1)..Len(points') :
                         points'[k][1] \in (b + 1)..(b + PageBatch)
  BY DEF Late
<1> DEFINE v == Vectors
<1>1. Typed /\ batch <= PageBatch BY DEF Run, InHand
<1>2. Len(points) = left BY DEF Late
<1>3. texts \in Seq(Text) /\ embeddings \in Seq(Text) /\ points \in Seq(Point)
      /\ left \in Nat /\ idx \in Nat /\ batch \in Nat
  BY <1>1 DEF Typed
<1>4. /\ v \in Seq(Point)
      /\ \A k \in 1..Len(v) : k \in 1..Len(texts) /\ v[k][1] = texts[k][1]
  BY <1>3, VectorsFacts
<1>5. \A k \in 1..Len(texts) : texts[k][1] \in (idx + 1)..(idx + batch) BY FlushPages
<1> HIDE DEF v
<1>6. /\ Len(v) \in Nat /\ Len(points') = left + Len(v)
      /\ \A k \in 1..Len(v) : points'[left + k] = v[k]
  <2>1. points' = points \o v BY DEF v
  <2> DEFINE z == points \o v
  <2>2. Len(v) \in Nat /\ Len(z) = Len(points) + Len(v)
        /\ \A k \in 1..Len(v) : z[Len(points) + k] = v[k]
    BY <1>3, <1>4
  <2>3. points' = z BY <2>1
  <2> HIDE DEF z
  <2> QED BY <1>2, <2>2, <2>3
<1>7. PageBatch \in Nat BY IndexingAssumption
<1>8. ASSUME NEW k \in (left + 1)..Len(points')
      PROVE  points'[k][1] \in (idx + 1)..(idx + PageBatch)
  <2>1. k - left \in 1..Len(v) /\ left + (k - left) = k BY <1>3, <1>6
  <2>2. points'[k] = v[k - left] BY <1>6, <2>1
  <2>3. points'[k][1] = texts[k - left][1] /\ k - left \in 1..Len(texts) BY <1>4, <2>1, <2>2
  <2>4. points'[k][1] \in (idx + 1)..(idx + batch) BY <1>5, <2>3
  <2> QED BY <1>1, <1>3, <1>7, <2>4
<1>9. left <= Len(points')
  <2>1. left \in Nat /\ Len(v) \in Nat /\ Len(points') = left + Len(v) BY <1>3, <1>6
  <2> QED BY <2>1
<1>10. idx \in Nat BY <1>3
<1>11. \E b \in Nat : \A k \in (left + 1)..Len(points') :
         points'[k][1] \in (b + 1)..(b + PageBatch)
  BY <1>8, <1>10, Zenon
<1> QED BY <1>9, <1>11

\* The tenant's row is gone from now on.
LEMMA DeleteLate ==
  ASSUME Run, DeleteTenant
  PROVE  Late'
<1>1. points \in Seq(Point) BY DEF Run, Typed
<1>2. Len(points) \in Nat BY <1>1
<1>3. left' = Len(points) /\ points' = points BY DEF DeleteTenant
<1>4. (left' + 1)..Len(points') = {} BY <1>2, <1>3
<1> QED BY <1>2, <1>3, <1>4 DEF Late

\* No step starts a batch, drops points or forgets how many there were.
LEMMA LateInductive == Run /\ Late /\ [Next]_vars => Late'
<1> SUFFICES ASSUME Run, Late, [Next]_vars PROVE Late' OBVIOUS
<1>1. ASSUME UNCHANGED <<points, tenant, left>>, pc' \in Flushing => pc \in Flushing
      PROVE  Late'
  BY <1>1 DEF Late
<1>2. CASE UNCHANGED vars BY <1>1, <1>2 DEF vars, others
<1>3. CASE LoadBatch
  <2>1. tenant # "gone"
    <3> DEFINE size == Min({PageBatch, Remaining})
    <3>1. size > 0 BY <1>3 DEF LoadBatch
    <3> HIDE DEF size
    <3>2. size = Min({PageBatch, Remaining}) BY DEF size
    <3> QED BY <3>1, <3>2, BatchSize
  <2> QED BY <1>3, <2>1 DEF LoadBatch, others, Late
<1>4. CASE DeleteTenant BY <1>4, DeleteLate
<1>5. CASE DropCollection BY <1>5 DEF DropCollection, Late
<1>6. CASE Upsert \/ UpsertLost
  BY <1>6, UpsertLate DEF Upsert, UpsertLost, FlushFails, others, Flushing
<1>7. CASE GatherBatch \/ EmbedBatch \/ Embedded \/ FindCollection \/ CreateCollection
           \/ UpsertNowhere \/ AfterFlush \/ WriteProgress \/ CheckCancelled \/ Complete
           \/ SplitBatch \/ CallFails \/ RunFails \/ OthersReport \/ OthersCreate
  <2>1. UNCHANGED <<points, tenant, left>>
    BY <1>7 DEF GatherBatch, EmbedBatch, Embedded, FindCollection, CreateCollection,
       UpsertNowhere, AfterFlush, WriteProgress, CheckCancelled, Complete, SplitBatch,
       CallFails, RunFails, OthersReport, OthersCreate, FlushFails, others
  <2>2. pc' \in Flushing => pc \in Flushing
    BY <1>7 DEF GatherBatch, EmbedBatch, Embedded, FindCollection, CreateCollection,
       UpsertNowhere, AfterFlush, WriteProgress, CheckCancelled, Complete, SplitBatch,
       CallFails, RunFails, OthersReport, OthersCreate, FlushFails, Flushing
  <2> QED BY <1>1, <2>1, <2>2
<1>8. CASE Interrupted
  <2>1. pc' = "interrupted" /\ UNCHANGED <<tenant, left>> BY <1>8 DEF Interrupted
  <2>2. pc' \notin Flushing BY <2>1 DEF Flushing
  <2>3. CASE UNCHANGED points BY <1>1, <2>1, <2>2, <2>3
  <2>4. CASE pc = "upsert" /\ points' = points \o Vectors
    BY <2>1, <2>2, <2>4, UpsertLate DEF Flushing
  <2> QED BY <1>8, <2>3, <2>4 DEF Interrupted
<1> QED BY <1>2, <1>3, <1>4, <1>5, <1>6, <1>7, <1>8 DEF Next, Proceed

\* Whatever follows the deletion of a tenant, the index run stores no page that it had
\* not loaded before: the points it adds are of one batch.
THEOREM OneBatchAtMost == Spec => []OneBatchOutlivesTenant
<1>1. Init => Run /\ Late
  <2>1. Init => Late BY DEF Init, Late
  <2> QED BY <2>1, InitRun
<1>2. Run /\ Late /\ [Next]_vars => (Run /\ Late)' BY RunInductive, LateInductive
<1>3. Run /\ Late => OneBatchOutlivesTenant
  <2> SUFFICES ASSUME Late, tenant = "gone",
                      NEW j \in (left + 1)..Len(points), NEW k \in (left + 1)..Len(points)
               PROVE  points[k][1] - points[j][1] < PageBatch
    BY DEF OneBatchOutlivesTenant
  <2>1. PICK b \in Nat : \A i \in (left + 1)..Len(points) :
                           points[i][1] \in (b + 1)..(b + PageBatch)
    BY DEF Late
  <2>2. points[j][1] \in (b + 1)..(b + PageBatch) /\ points[k][1] \in (b + 1)..(b + PageBatch)
    BY <2>1
  <2>3. PageBatch \in Nat BY IndexingAssumption
  <2> QED BY <2>2, <2>3
<1> QED BY <1>1, <1>2, <1>3, PTL DEF Spec

-----------------------------------------------------------------------------
(* Embeddings in the order of their texts.                                   *)

\* What is embedded, then what the calls still hold, are the first k texts, in order.
Matches(e, c, t, k) == e \o FlattenSeq(c) = Cut(t, 1, k)

\* Nothing is gathered yet.
LEMMA MatchesNothing ==
  ASSUME NEW t \in Seq(Text)
  PROVE  Matches(<<>>, <<>>, t, 0)
<1>1. SubSeq(t, 1, 0) = <<>> OBVIOUS
<1>2. <<>> \o <<>> = <<>> OBVIOUS
<1> QED BY <1>1, <1>2, FlattenEmpty, Zenon DEF Matches, Cut

\* A sequence up to one place, and from there to another
CutsJoin(t, k, n, S) ==
  /\ Cut(t, 1, k) \o Cut(t, k + 1, k + n) = Cut(t, 1, k + n)
  /\ Cut(t, 1, k) \in Seq(S) /\ Cut(t, k + 1, k + n) \in Seq(S)

\* Every sequence can be cut in two.
LEMMA CutConcat ==
  ASSUME NEW S, NEW t, NEW k, NEW n, t \in Seq(S), k \in Nat, n \in Nat, k + n <= Len(t)
  PROVE  CutsJoin(t, k, n, S)
<1> DEFINE x == SubSeq(t, 1, k)
           y == SubSeq(t, k + 1, k + n)
           z == SubSeq(t, 1, k + n)
<1>0. Len(t) \in Nat /\ 1 \in Int /\ k \in Int /\ k + 1 \in Int /\ k + n \in Int OBVIOUS
<1>1. x \in Seq(S) /\ Len(x) = k /\ \A i \in 1..k : x[i] = t[i]
  <2>1. \A i \in 1..k : t[i] \in S BY <1>0
  <2> QED BY <1>0, <2>1, SubSeqProperties
<1>2. y \in Seq(S) /\ Len(y) = n /\ \A i \in 1..n : y[i] = t[k + i]
  <2>1. \A i \in (k + 1)..(k + n) : t[i] \in S BY <1>0
  <2>2. /\ y \in Seq(S)
        /\ Len(y) = IF k + 1 <= k + n THEN (k + n) - (k + 1) + 1 ELSE 0
        /\ \A i \in 1..((k + n) - (k + 1) + 1) : y[i] = t[(k + 1) + i - 1]
    BY <1>0, <2>1, SubSeqProperties
  <2> HIDE DEF y
  <2>3. (k + n) - (k + 1) + 1 = n /\ \A i \in 1..n : (k + 1) + i - 1 = k + i BY <1>0
  <2> QED BY <2>2, <2>3
<1>3. z \in Seq(S) /\ Len(z) = k + n /\ \A i \in 1..(k + n) : z[i] = t[i]
  <2>1. \A i \in 1..(k + n) : t[i] \in S BY <1>0
  <2> QED BY <1>0, <2>1, SubSeqProperties
<1> HIDE DEF x, y, z
<1>4. x \o y \in Seq(S) /\ Len(x \o y) = k + n
  <2>1. x \o y \in Seq(S) /\ Len(x \o y) = Len(x) + Len(y) BY <1>1, <1>2, ConcatProperties
  <2> QED BY <1>1, <1>2, <2>1, Zenon
<1>5. ASSUME NEW i \in 1..(k + n) PROVE (x \o y)[i] = z[i]
  <2>1. CASE i \in 1..k
    <3>1. (x \o y)[i] = x[i] BY <1>1, <1>2, <2>1
    <3> QED BY <1>1, <1>3, <2>1, <3>1
  <2>2. CASE i \notin 1..k
    <3>1. i - k \in 1..n /\ k + (i - k) = i BY <1>0, <2>2
    <3>2. (x \o y)[i] = y[i - k] BY <1>1, <1>2, <2>2, <3>1
    <3> QED BY <1>2, <1>3, <3>1, <3>2
  <2> QED BY <2>1, <2>2
<1>6. x \o y = z BY <1>3, <1>4, <1>5, SameSeq
<1> QED BY <1>1, <1>2, <1>6, Zenon DEF x, y, z, Cut, CutsJoin

\* A call is gathered when the calls before it have been answered.
LEMMA MatchesGathered ==
  ASSUME NEW e, NEW t, NEW k, NEW n, e \in Seq(Text), t \in Seq(Text), k \in Nat, n \in Nat,
         k + n <= Len(t), Matches(e, <<>>, t, k)
  PROVE  Matches(e, <<Cut(t, k + 1, k + n)>>, t, k + n)
<1> DEFINE c == Cut(t, k + 1, k + n)
           x == Cut(t, 1, k)
<1>1. x \o c = Cut(t, 1, k + n) /\ c \in Seq(Text)
  <2>1. CutsJoin(t, k, n, Text) BY CutConcat
  <2> QED BY <2>1, Zenon DEF CutsJoin
<1>2. e = x
  <2>1. e \o <<>> = x BY FlattenEmpty, Zenon DEF Matches
  <2>2. e \o <<>> = e OBVIOUS
  <2> QED BY <2>1, <2>2, Zenon
<1> HIDE DEF c
<1>3. FlattenSeq(<<c>>) = c BY <1>1, FlattenOne
<1>4. e \o FlattenSeq(<<c>>) = Cut(t, 1, k + n) BY <1>1, <1>2, <1>3, Zenon
<1> QED BY <1>4, Zenon DEF Matches, c

\* The first call is answered.
LEMMA MatchesAnswered ==
  ASSUME NEW e, NEW c, NEW t, NEW k, e \in Seq(Text), c \in Seq(Seq(Text)), c # <<>>,
         Matches(e, c, t, k)
  PROVE  Matches(e \o Head(c), Tail(c), t, k)
<1> DEFINE x == Head(c)
           y == FlattenSeq(Tail(c))
<1>1. FlattenSeq(c) = x \o y BY FlattenHead
<1>2. x \in Seq(Text) /\ Tail(c) \in Seq(Seq(Text)) OBVIOUS
<1>3. y \in Seq(Text) BY <1>2, FlattenType
<1> HIDE DEF x, y
<1>4. (e \o x) \o y = e \o (x \o y)
  <2>1. \A u, v, w \in Seq(Text) : (u \o v) \o w = u \o (v \o w) OBVIOUS
  <2> QED BY <1>2, <1>3, <2>1, Zenon DEF x
<1>5. (e \o x) \o y = Cut(t, 1, k) BY <1>1, <1>4, Zenon DEF Matches
<1> QED BY <1>5, Zenon DEF Matches, x, y

\* z is x and y after it.
Joins(z, x, y, S) ==
  /\ z \in Seq(S) /\ Len(z) = Len(x) + Len(y)
  /\ \A i \in 1..Len(x) : z[i] = x[i]
  /\ \A i \in 1..Len(y) : z[Len(x) + i] = y[i]

\* That is what concatenation returns.
LEMMA ConcatJoins ==
  ASSUME NEW S, NEW x, NEW y, x \in Seq(S), y \in Seq(S)
  PROVE  Joins(x \o y, x, y, S)
<1>1. x \o y \in Seq(S) /\ Len(x \o y) = Len(x) + Len(y) /\ Len(x) \in Nat /\ Len(y) \in Nat
  BY ConcatProperties
<1>2. \A i \in 1..Len(x) : (x \o y)[i] = x[i] OBVIOUS
<1>3. \A i \in 1..Len(y) : (x \o y)[Len(x) + i] = y[i] OBVIOUS
<1> QED BY <1>1, <1>2, <1>3, Zenon DEF Joins

\* The first call is halved.
LEMMA MatchesHalved ==
  ASSUME NEW e, NEW c, NEW t, NEW k, e \in Seq(Text), c \in Seq(Seq(Text)), c # <<>>,
         Matches(e, c, t, k)
  PROVE  Matches(e, Halves(Head(c)) \o Tail(c), t, k)
<1> DEFINE V == Seq(Text)
           x == Head(c)
           s == Tail(c)
           m == Len(x) \div 2
           a == Cut(x, 1, m)
           b == Cut(x, m + 1, Len(x))
           d == <<a, b>> \o s
           r == <<b>> \o s
<1>1. x \in V /\ s \in Seq(V)
  <2> HIDE DEF V
  <2> QED BY DEF V
<1>2. FlattenSeq(c) = x \o FlattenSeq(s) BY FlattenHead
<1>3. Halves(Head(c)) \o Tail(c) = d BY Zenon DEF Halves, Cut
<1> HIDE DEF x, s
<1>4. Len(x) \in Nat BY <1>1
<1>5. m \in Nat /\ m <= Len(x) BY <1>4, Division
<1> DEFINE n == Len(x) - m
<1>6. n \in Nat /\ m + n = Len(x) BY <1>4, <1>5
<1> HIDE DEF m, n
<1>7. a \o b = x /\ a \in V /\ b \in V
  <2>1. Cut(x, 1, m) \o Cut(x, m + 1, m + n) = Cut(x, 1, m + n)
        /\ Cut(x, 1, m) \in V /\ Cut(x, m + 1, m + n) \in V
    <3>1. x \in Seq(Text) /\ m + n <= Len(x) BY <1>1, <1>4, <1>6
    <3>2. CutsJoin(x, m, n, Text) BY <1>5, <1>6, <3>1, CutConcat
    <3> QED BY <3>2, Zenon DEF CutsJoin
  <2>2. SubSeq(x, 1, Len(x)) = x BY <1>1, SubSeqFull
  <2> QED BY <1>6, <2>1, <2>2, Zenon DEF Cut
<1> HIDE DEF a, b, V
<1>8. /\ r \in Seq(V) /\ Len(r) = Len(s) + 1 /\ r[1] = b
      /\ \A i \in 1..Len(s) : r[i + 1] = s[i]
  BY <1>1, <1>7
<1>9. /\ d \in Seq(V) /\ Len(d) = Len(r) + 1 /\ d[1] = a
      /\ \A i \in 1..Len(r) : d[i + 1] = r[i]
  <2>1. <<a, b>> \in Seq(V) /\ Len(<<a, b>>) = 2 /\ <<a, b>>[1] = a /\ <<a, b>>[2] = b
    BY <1>7
  <2> DEFINE q == <<a, b>>
  <2> HIDE DEF q
  <2>2. q \in Seq(V) /\ Len(q) = 2 /\ q[1] = a /\ q[2] = b BY <2>1 DEF q
  <2>4. d = q \o s BY DEF q
  <2> HIDE DEF d, r
  <2>5. Len(s) \in Nat BY <1>1
  <2>3. /\ q \o s \in Seq(V) /\ Len(q \o s) = 2 + Len(s) /\ (q \o s)[1] = a /\ (q \o s)[2] = b
        /\ \A i \in 1..Len(s) : (q \o s)[2 + i] = s[i]
    <3>1. Joins(q \o s, q, s, V) BY <1>1, <2>2, ConcatJoins
    <3> DEFINE z == q \o s
    <3> HIDE DEF z
    <3>2. Joins(z, q, s, V) BY <3>1 DEF z
    <3>3. 1 \in 1..Len(q) /\ 2 \in 1..Len(q) BY <2>2
    <3>4. z[1] = a /\ z[2] = b BY <2>2, <3>2, <3>3 DEF Joins
    <3>5. z \in Seq(V) /\ Len(z) = 2 + Len(s) /\ \A i \in 1..Len(s) : z[2 + i] = s[i]
      BY <2>2, <3>2, Zenon DEF Joins
    <3> QED BY <3>4, <3>5, Zenon DEF z
  <2>6. /\ d \in Seq(V) /\ Len(d) = 2 + Len(s) /\ d[1] = a /\ d[2] = b
        /\ \A i \in 1..Len(s) : d[2 + i] = s[i]
    BY <2>3, <2>4, Zenon
  <2>7. Len(d) = Len(r) + 1 BY <1>8, <2>5, <2>6
  <2>8. ASSUME NEW j \in 1..Len(r) PROVE d[j + 1] = r[j]
    <3>1. CASE j = 1 BY <1>8, <2>6, <3>1
    <3>2. CASE j # 1
      <4>1. j - 1 \in 1..Len(s) /\ (j - 1) + 1 = j /\ 2 + (j - 1) = j + 1
        <5>1. Len(r) = Len(s) + 1 BY <1>8
        <5> QED BY <2>5, <3>2, <5>1
      <4>2. d[2 + (j - 1)] = s[j - 1] BY <2>6, <4>1
      <4>3. r[(j - 1) + 1] = s[j - 1] BY <1>8, <4>1
      <4> QED BY <4>1, <4>2, <4>3, Zenon
    <3> QED BY <3>1, <3>2
  <2> QED BY <2>6, <2>7, <2>8
<1> HIDE DEF d, r
<1>10. FlattenSeq(r) = b \o FlattenSeq(s) BY <1>1, <1>7, <1>8, FlattenCons DEF V
<1>11. FlattenSeq(d) = a \o FlattenSeq(r) BY <1>7, <1>8, <1>9, FlattenCons DEF V
<1>12. FlattenSeq(s) \in V BY <1>1, FlattenType DEF V
<1>13. (a \o b) \o FlattenSeq(s) = a \o (b \o FlattenSeq(s))
  <2>1. \A u, v, w \in V : (u \o v) \o w = u \o (v \o w) BY DEF V
  <2> QED BY <1>7, <1>12, <2>1, Zenon
<1>14. FlattenSeq(d) = FlattenSeq(c) BY <1>2, <1>7, <1>10, <1>11, <1>13, Zenon
<1>15. Matches(e, d, t, k) BY <1>14, Zenon DEF Matches
<1> QED BY <1>3, <1>15, Zenon

\* All are gathered and answered.
LEMMA MatchesAll ==
  ASSUME NEW e, NEW t, NEW k, e \in Seq(Text), t \in Seq(Text), k = Len(t),
         Matches(e, <<>>, t, k)
  PROVE  e = t
<1>1. e \o <<>> = Cut(t, 1, k) BY FlattenEmpty, Zenon DEF Matches
<1>2. e \o <<>> = e OBVIOUS
<1>3. SubSeq(t, 1, Len(t)) = t BY SubSeqFull
<1> QED BY <1>1, <1>2, <1>3, Zenon DEF Cut

\* A point is of the text that it was made from.
Stored == \A k \in 1..Len(points) : points[k][3] = <<points[k][1], points[k][2]>>

\* Embeddings come in the order of their texts, and points carry their own.
Ordered ==
  /\ pc \in Flushing => Matches(embeddings, calls, texts, taken)
  /\ pc \in {"ensure", "create", "upsert"} => embeddings = texts
  /\ Stored

\* The points of an upsert carry the embeddings of their chunks.
LEMMA UpsertOrdered ==
  ASSUME Run, Ordered, pc = "upsert", points' = points \o Vectors
  PROVE  Stored'
<1> DEFINE v == Vectors
           z == points \o v
<1>1. texts \in Seq(Text) /\ embeddings \in Seq(Text) /\ points \in Seq(Point)
  BY DEF Run, Typed
<1>2. /\ v \in Seq(Point)
      /\ \A k \in 1..Len(v) : /\ k \in 1..Len(texts)
                              /\ v[k][1] = texts[k][1] /\ v[k][2] = texts[k][2]
                              /\ v[k][3] = embeddings[k]
  BY <1>1, VectorsFacts
<1>3. embeddings = texts BY DEF Ordered
<1> HIDE DEF v
<1>4. \A k \in 1..Len(v) : v[k][3] = <<v[k][1], v[k][2]>>
  <2> SUFFICES ASSUME NEW k \in 1..Len(v) PROVE v[k][3] = <<v[k][1], v[k][2]>> OBVIOUS
  <2> DEFINE t == texts[k]
  <2>1. t \in Text /\ v[k][3] = t /\ v[k][1] = t[1] /\ v[k][2] = t[2] BY <1>1, <1>2, <1>3
  <2> HIDE DEF t
  <2>2. t = <<t[1], t[2]>> BY <2>1 DEF Text
  <2> QED BY <2>1, <2>2, Zenon
<1>5. Joins(z, points, v, Point) BY <1>1, <1>2, ConcatJoins
<1> HIDE DEF z
<1>6. points' = z BY DEF z, v
<1>7. Len(points) \in Nat /\ Len(v) \in Nat BY <1>1, <1>2
<1>8. ASSUME NEW k \in 1..Len(z) PROVE z[k][3] = <<z[k][1], z[k][2]>>
  <2>1. CASE k \in 1..Len(points)
    <3>1. z[k] = points[k] BY <1>5, <2>1 DEF Joins
    <3>2. points[k][3] = <<points[k][1], points[k][2]>> BY <2>1 DEF Ordered, Stored
    <3> QED BY <3>1, <3>2, Zenon
  <2>2. CASE k \notin 1..Len(points)
    <3>1. Len(z) = Len(points) + Len(v) BY <1>5 DEF Joins
    <3>2. k - Len(points) \in 1..Len(v) /\ Len(points) + (k - Len(points)) = k
      BY <1>7, <2>2, <3>1
    <3>3. z[Len(points) + (k - Len(points))] = v[k - Len(points)]
      BY <1>5, <3>2 DEF Joins
    <3>4. z[k] = v[k - Len(points)] BY <3>2, <3>3, Zenon
    <3> QED BY <1>4, <3>2, <3>4, Zenon
  <2> QED BY <2>1, <2>2
<1> QED BY <1>6, <1>8, Zenon DEF Stored

\* Every step keeps the order.
LEMMA OrderedInductive == Run /\ Ordered /\ [Next]_vars => Ordered'
<1> SUFFICES ASSUME Run, Ordered, [Next]_vars PROVE Ordered' OBVIOUS
<1>0. /\ texts \in Seq(Text) /\ embeddings \in Seq(Text) /\ calls \in Seq(Seq(Text))
      /\ taken \in Nat /\ Len(texts) \in Nat
      /\ (pc \notin Flushing \cup {"flushed"} => Idle)
  BY DEF Run, Typed, InHand
<1>1. ASSUME UNCHANGED <<pc, texts, taken, calls, embeddings, points>> PROVE Ordered'
  BY <1>1 DEF Ordered, Stored
<1>2. ASSUME pc' \notin Flushing, Stored' PROVE Ordered' BY <1>2 DEF Ordered, Flushing
<1>3. CASE UNCHANGED vars BY <1>1, <1>3 DEF vars, work
<1>4. CASE LoadBatch
  <2> DEFINE size == Min({PageBatch, Remaining})
             ts == TextsOf(idx + 1, idx + size)
  <2>1. ts \in Seq(Text)
    <3>1. size > 0 BY <1>4 DEF LoadBatch
    <3> HIDE DEF size
    <3>2. size = Min({PageBatch, Remaining}) BY DEF size
    <3>3. AreTexts(ts, idx + 1, idx + size) BY <3>1, <3>2, BatchSize
    <3> QED BY <3>3 DEF AreTexts
  <2>2. pc = "load" /\ texts' = ts /\ UNCHANGED <<taken, calls, embeddings, points>>
        /\ pc' \in {"flushed", "embed"}
    BY <1>4 DEF LoadBatch
  <2> HIDE DEF ts
  <2>3. taken = 0 /\ calls = <<>> /\ embeddings = <<>> BY <1>0, <2>2 DEF Idle, Flushing
  <2>4. Matches(<<>>, <<>>, ts, 0) BY <2>1, MatchesNothing
  <2>5. Matches(embeddings', calls', texts', taken') BY <2>2, <2>3, <2>4, Zenon
  <2>6. Stored' BY <2>2 DEF Ordered, Stored
  <2> QED BY <2>2, <2>5, <2>6 DEF Ordered, Flushing
<1>5. CASE GatherBatch
  <2>1. /\ pc = "embed" /\ calls = <<>>
        /\ UNCHANGED <<pc, texts, embeddings, points>>
    BY <1>5 DEF GatherBatch
  <2>2. PICK n \in 1..(Len(texts) - taken) :
          calls' = <<SubSeq(texts, taken + 1, taken + n)>> /\ taken' = taken + n
    BY <1>5 DEF GatherBatch
  <2>3. n \in Nat /\ taken + n <= Len(texts) BY <1>0
  <2>4. Matches(embeddings, <<>>, texts, taken) BY <2>1 DEF Ordered, Flushing
  <2>5. Matches(embeddings, <<Cut(texts, taken + 1, taken + n)>>, texts, taken + n)
    BY <1>0, <2>3, <2>4, MatchesGathered
  <2>6. calls' = <<Cut(texts, taken + 1, taken + n)>> BY <2>2, Zenon DEF Cut
  <2>7. Matches(embeddings', calls', texts', taken') BY <2>1, <2>2, <2>5, <2>6, Zenon
  <2> QED BY <2>1, <2>7 DEF Ordered, Flushing, Stored
<1>6. CASE EmbedBatch
  <2>1. /\ pc = "embed" /\ calls # <<>>
        /\ UNCHANGED <<pc, texts, taken, points>>
        /\ embeddings' = embeddings \o Head(calls) /\ calls' = Tail(calls)
    BY <1>6 DEF EmbedBatch
  <2>2. Matches(embeddings, calls, texts, taken) BY <2>1 DEF Ordered, Flushing
  <2>3. Matches(embeddings \o Head(calls), Tail(calls), texts, taken)
    BY <1>0, <2>1, <2>2, MatchesAnswered
  <2>4. Matches(embeddings', calls', texts', taken') BY <2>1, <2>3, Zenon
  <2> QED BY <2>1, <2>4 DEF Ordered, Flushing, Stored
<1>7. CASE SplitBatch
  <2>1. /\ pc = "embed" /\ calls # <<>>
        /\ UNCHANGED <<pc, texts, taken, embeddings, points>>
        /\ calls' = Halves(Head(calls)) \o Tail(calls)
    BY <1>7, Zenon DEF SplitBatch
  <2>2. Matches(embeddings, calls, texts, taken) BY <2>1 DEF Ordered, Flushing
  <2>3. Matches(embeddings, Halves(Head(calls)) \o Tail(calls), texts, taken)
    BY <1>0, <2>1, <2>2, MatchesHalved
  <2>4. Matches(embeddings', calls', texts', taken') BY <2>1, <2>3, Zenon
  <2> QED BY <2>1, <2>4 DEF Ordered, Flushing, Stored
<1>8. CASE Embedded
  <2>1. /\ pc = "embed" /\ calls = <<>> /\ taken = Len(texts) /\ pc' = "ensure"
        /\ UNCHANGED <<texts, taken, calls, embeddings, points>>
    BY <1>8 DEF Embedded, work
  <2>2. Matches(embeddings, <<>>, texts, taken) BY <2>1 DEF Ordered, Flushing
  <2>3. embeddings = texts BY <1>0, <2>1, <2>2, MatchesAll
  <2>4. Matches(embeddings', calls', texts', taken') BY <2>1, <2>2, Zenon
  <2> QED BY <2>1, <2>3, <2>4 DEF Ordered, Flushing, Stored
<1>9. CASE FindCollection
  <2>1. /\ pc = "ensure" /\ pc' \in {"upsert", "create"}
        /\ UNCHANGED <<texts, taken, calls, embeddings, points>>
    BY <1>9 DEF FindCollection, work
  <2> QED BY <2>1 DEF Ordered, Flushing, Stored
<1>10. CASE CreateCollection
  <2>1. /\ pc = "create" /\ pc' \in {"upsert", "flushed"}
        /\ UNCHANGED <<texts, taken, calls, embeddings, points>>
    BY <1>10 DEF CreateCollection, FlushFails, work
  <2> QED BY <2>1 DEF Ordered, Flushing, Stored
<1>11. CASE Upsert \/ UpsertLost
  <2>1. pc = "upsert" /\ pc' = "flushed" /\ points' = points \o Vectors
    BY <1>11 DEF Upsert, UpsertLost, FlushFails
  <2>2. Stored' BY <2>1, UpsertOrdered
  <2> QED BY <1>2, <2>1, <2>2 DEF Flushing
<1>12. CASE DropCollection
  <2>1. UNCHANGED <<pc, texts, taken, calls, embeddings>> /\ (points' = <<>> \/ points' = points)
    BY <1>12 DEF DropCollection, work
  <2>2. Stored'
    <3>1. 1..Len(<<>>) = {} OBVIOUS
    <3> QED BY <2>1, <3>1 DEF Ordered, Stored
  <2> QED BY <2>1, <2>2 DEF Ordered
<1>13. CASE CallFails \/ UpsertNowhere \/ AfterFlush \/ WriteProgress \/ CheckCancelled
            \/ Complete \/ RunFails
  <2>1. UNCHANGED points /\ pc' \notin Flushing
    BY <1>13 DEF CallFails, UpsertNowhere, AfterFlush, WriteProgress, CheckCancelled, Complete,
       RunFails, FlushFails, Flushing
  <2> QED BY <1>2, <2>1 DEF Ordered, Stored
<1>14. CASE OthersReport \/ OthersCreate \/ DeleteTenant
  <2>1. UNCHANGED <<pc, texts, taken, calls, embeddings, points>>
    BY <1>14 DEF OthersReport, OthersCreate, DeleteTenant, work
  <2> QED BY <1>1, <2>1
<1>15. CASE Interrupted
  <2>1. pc' \notin Flushing BY <1>15 DEF Interrupted, Flushing
  <2>2. CASE UNCHANGED points BY <1>2, <2>1, <2>2 DEF Ordered, Stored
  <2>3. CASE pc = "upsert" /\ points' = points \o Vectors
    <3>1. Stored' BY <2>3, UpsertOrdered
    <3> QED BY <1>2, <2>1, <3>1
  <2> QED BY <1>15, <2>2, <2>3 DEF Interrupted
<1> QED BY <1>3, <1>4, <1>5, <1>6, <1>7, <1>8, <1>9, <1>10, <1>11, <1>12, <1>13, <1>14, <1>15
        DEF Next, Proceed

\* A point carries the embedding of its own chunk, however often the call that embedded
\* it was halved.
THEOREM VectorsMatch == Spec => []VectorsMatchTexts
<1>1. Init => Run /\ Ordered
  <2>1. Init => Ordered
    <3>1. 1..Len(<<>>) = {} OBVIOUS
    <3> QED BY <3>1 DEF Init, Ordered, Stored, Flushing
  <2> QED BY <2>1, InitRun
<1>2. Run /\ Ordered /\ [Next]_vars => (Run /\ Ordered)' BY RunInductive, OrderedInductive
<1>3. Run /\ Ordered => VectorsMatchTexts
  <2> SUFFICES ASSUME Run, Ordered PROVE VectorsMatchTexts OBVIOUS
  <2>1. points \in Seq(Point) BY DEF Run, Typed
  <2>2. DOMAIN points = 1..Len(points) BY <2>1
  <2>3. pc \in Flushing => embeddings \o FlattenSeq(calls) = SubSeq(texts, 1, taken)
    BY Zenon DEF Ordered, Matches, Cut
  <2>4. \A k \in DOMAIN points : points[k][3] = <<points[k][1], points[k][2]>>
    BY <2>2, Zenon DEF Ordered, Stored
  <2> QED BY <2>3, <2>4, Zenon DEF VectorsMatchTexts
<1> QED BY <1>1, <1>2, <1>3, PTL DEF Spec

-----------------------------------------------------------------------------
(* The size of the calls, the row of the job and the type of every variable. *)

\* An estimate is a number.
LEMMA EstimateType == ASSUME NEW t, t \in Text PROVE Estimate(t) \in Nat
<1> DEFINE n == Len(t[2])
           q == (3 * n) \div 2
<1>1. n \in Nat
  <2>1. t[2] \in Seq(Nat) BY DEF Text
  <2> DEFINE y == t[2]
  <2> HIDE DEF y
  <2>2. y \in Seq(Nat) BY <2>1 DEF y
  <2>3. Len(y) \in Nat BY <2>2
  <2> QED BY <2>3 DEF y
<1> HIDE DEF n
<1>2. q \in Int BY <1>1, Division
<1>3. Estimate(t) = Max({1, q}) BY Zenon DEF Estimate, n
<1> HIDE DEF q
<1>4. Max({1, q}) = IF 1 >= q THEN 1 ELSE q BY <1>2, TwoNumbers
<1> QED BY <1>2, <1>3, <1>4

\* a holds the tokens of the first texts of s.
Sums(a, s) ==
  /\ a \in [0..Len(s) -> Nat]
  /\ a[0] = 0
  /\ \A k \in 1..Len(s) : a[k] = a[k - 1] + Estimate(s[k])

\* What is summed up.
LEMMA TokenSteps ==
  ASSUME NEW s, s \in Seq(Text)
  PROVE  \E a : Sums(a, s) /\ Tokens(s) = a[Len(s)]
<1> DEFINE n == Len(s)
           F == [u \in Nat |-> [x \in Text |-> u + Estimate(x)]]
           IsFold(g) == g = [T \in SUBSET DOMAIN s |->
                              IF T = {} THEN 0
                              ELSE g[T \ {Max(T)}] + Estimate(s[Max(T)])]
           g == CHOOSE g : IsFold(g)
<1>1. s \in Seq(Text) /\ n \in Nat /\ DOMAIN s = 1..n /\ \A k \in 1..n : s[k] \in Text
  OBVIOUS
<1>2. F \in [Nat -> [Text -> Nat]]
  <2>1. \A u \in Nat, x \in Text : u + Estimate(x) \in Nat BY EstimateType
  <2> QED BY <2>1
<1>3. 0 \in Nat OBVIOUS
<1>4. \A u \in Nat, x \in Text : F[u][x] = u + Estimate(x) OBVIOUS
<1>5. Tokens(s) = g[DOMAIN s]
  BY DEF Tokens, FoldLeft, MapThenFoldSet, Max
<1> HIDE DEF F
<1>6. \A T \in SUBSET (1..n) : T # {} => Max(T) \in T BY <1>1, LargestNumber
<1>7. PICK h \in [SUBSET (1..n) -> Nat] : Folds(h, n, F, 0, s)
  BY <1>1, <1>2, <1>3, FoldExists
<1>8. IsFold(h)
  <2>1. ASSUME NEW T \in SUBSET (1..n)
        PROVE  h[T] = IF T = {} THEN 0
                      ELSE h[T \ {Max(T)}] + Estimate(s[Max(T)])
    <3>1. CASE T = {} BY <1>7, <3>1 DEF Folds
    <3>2. CASE T # {}
      <4>1. s[Max(T)] \in Text BY <1>1, <1>6, <3>2
      <4>2. T \ {Max(T)} \in SUBSET (1..n) OBVIOUS
      <4>3. h[T \ {Max(T)}] \in Nat BY <1>7, <4>2
      <4>4. h[T] = F[h[T \ {Max(T)}]][s[Max(T)]] BY <1>7, <3>2 DEF Folds
      <4> QED BY <1>4, <3>2, <4>1, <4>3, <4>4
    <3> QED BY <3>1, <3>2
  <2> QED BY <1>1, <1>7, <2>1
<1>9. IsFold(g)
  <2> HIDE DEF IsFold
  <2> QED BY <1>8
<1> HIDE DEF g
<1>10. g[{}] = 0 BY <1>9
<1>11. ASSUME NEW T \in SUBSET (1..n), T # {}, g[T \ {Max(T)}] \in Nat
       PROVE  g[T] = F[g[T \ {Max(T)}]][s[Max(T)]]
  <2>1. s[Max(T)] \in Text BY <1>1, <1>6, <1>11
  <2>2. g[T] = g[T \ {Max(T)}] + Estimate(s[Max(T)]) BY <1>1, <1>9, <1>11
  <2> QED BY <1>4, <1>11, <2>1, <2>2
<1> HIDE DEF IsFold
<1>12. FoldsWithin(g, Nat, F, 0, s) BY <1>10, <1>11 DEF FoldsWithin
<1> DEFINE a == Values(g, s)
<1>13. Accumulates(a, Nat, F, 0, s) BY <1>1, <1>2, <1>3, <1>12, FoldSteps
<1>14. a[n] = g[1..n] BY <1>1 DEF Values
<1> HIDE DEF a
<1>15. \A k \in 1..n : a[k] = a[k - 1] + Estimate(s[k])
  <2> SUFFICES ASSUME NEW k \in 1..n
               PROVE  a[k] = a[k - 1] + Estimate(s[k])
    OBVIOUS
  <2>1. k - 1 \in 0..n BY <1>1
  <2>2. a[k - 1] \in Nat /\ a[k] = F[a[k - 1]][s[k]] BY <1>13, <2>1 DEF Accumulates
  <2> QED BY <1>1, <1>4, <2>2
<1>16. Sums(a, s) BY <1>13, <1>15 DEF Sums, Accumulates
<1>17. Tokens(s) = a[Len(s)] BY <1>1, <1>5, <1>14, Zenon
<1> QED BY <1>16, <1>17

\* The tokens of two sequences of texts are those of each.
LEMMA TokensJoin ==
  ASSUME NEW x, NEW y, NEW z, x \in Seq(Text), y \in Seq(Text), Joins(z, x, y, Text)
  PROVE  Tokens(z) = Tokens(x) + Tokens(y) /\ Tokens(x) \in Nat /\ Tokens(y) \in Nat
<1> DEFINE p == Len(x)
           q == Len(y)
<1>0. p \in Nat /\ q \in Nat OBVIOUS
<1>1. z \in Seq(Text) /\ Len(z) = p + q /\ (\A i \in 1..p : z[i] = x[i])
      /\ \A i \in 1..q : z[p + i] = y[i]
  BY DEF Joins
<1>2. PICK a : Sums(a, z) /\ Tokens(z) = a[Len(z)] BY <1>1, TokenSteps
<1>3. PICK b : Sums(b, x) /\ Tokens(x) = b[p] BY TokenSteps
<1>4. PICK c : Sums(c, y) /\ Tokens(y) = c[q] BY TokenSteps
<1>5. a \in [0..(p + q) -> Nat] /\ a[0] = 0
      /\ \A k \in 1..(p + q) : a[k] = a[k - 1] + Estimate(z[k])
  BY <1>1, <1>2 DEF Sums
<1>6. b \in [0..p -> Nat] /\ b[0] = 0 /\ \A k \in 1..p : b[k] = b[k - 1] + Estimate(x[k])
  BY <1>3 DEF Sums
<1>7. c \in [0..q -> Nat] /\ c[0] = 0 /\ \A k \in 1..q : c[k] = c[k - 1] + Estimate(y[k])
  BY <1>4 DEF Sums
<1> HIDE DEF p, q
<1> DEFINE R == {k \in Nat : k <= p => a[k] = b[k]}
           S == {k \in Nat : k <= q => a[p + k] = a[p] + c[k]}
<1>8. R = Nat
  <2>1. 0 \in R BY <1>5, <1>6
  <2>2. ASSUME NEW k \in R PROVE k + 1 \in R
    <3>1. k \in Nat OBVIOUS
    <3> SUFFICES ASSUME k + 1 <= p PROVE a[k + 1] = b[k + 1] BY <3>1
    <3>2. k + 1 \in 1..p /\ k + 1 \in 1..(p + q) /\ (k + 1) - 1 = k BY <1>0, <3>1
    <3>3. a[k] = b[k] BY <1>0, <3>1
    <3>4. a[k + 1] = a[k] + Estimate(z[k + 1]) BY <1>5, <3>2
    <3>5. b[k + 1] = b[k] + Estimate(x[k + 1]) BY <1>6, <3>2
    <3>6. z[k + 1] = x[k + 1] BY <1>1, <3>2
    <3> QED BY <3>3, <3>4, <3>5, <3>6, Zenon
  <2> QED BY <2>1, <2>2, InductionOverNat
<1>9. a[p] = b[p]
  <2>1. \A k \in R : k <= p => a[k] = b[k] OBVIOUS
  <2> HIDE DEF R
  <2> QED BY <1>0, <1>8, <2>1
<1>10. a[p] \in Nat /\ c[q] \in Nat
  <2>1. p \in 0..(p + q) /\ q \in 0..q BY <1>0
  <2> QED BY <1>5, <1>7, <2>1
<1>11. S = Nat
  <2>1. 0 \in S
    <3>1. p + 0 = p /\ a[p] + 0 = a[p] BY <1>0, <1>10
    <3> QED BY <1>7, <3>1
  <2>2. ASSUME NEW k \in S PROVE k + 1 \in S
    <3>1. k \in Nat OBVIOUS
    <3> SUFFICES ASSUME k + 1 <= q PROVE a[p + (k + 1)] = a[p] + c[k + 1] BY <3>1
    <3>2. k + 1 \in 1..q /\ p + (k + 1) \in 1..(p + q) /\ (k + 1) - 1 = k
          /\ (p + (k + 1)) - 1 = p + k /\ k \in 0..q
      BY <1>0, <3>1
    <3>3. a[p + k] = a[p] + c[k] BY <1>0, <3>1
    <3>4. a[p + (k + 1)] = a[p + k] + Estimate(z[p + (k + 1)]) BY <1>5, <3>2
    <3>5. c[k + 1] = c[k] + Estimate(y[k + 1]) BY <1>7, <3>2
    <3>6. z[p + (k + 1)] = y[k + 1] BY <1>1, <3>2
    <3> DEFINE e == Estimate(y[k + 1])
    <3>7. e \in Nat
      <4>1. y[k + 1] \in Text BY <3>2 DEF q
      <4> QED BY <4>1, EstimateType
    <3>8. a[p + (k + 1)] = a[p + k] + e /\ c[k + 1] = c[k] + e BY <3>4, <3>5, <3>6, Zenon
    <3> HIDE DEF e
    <3>9. c[k] \in Nat BY <1>7, <3>2
    <3> QED BY <1>10, <3>3, <3>7, <3>8, <3>9
  <2> QED BY <2>1, <2>2, InductionOverNat
<1>12. a[p + q] = a[p] + c[q]
  <2>1. \A k \in S : k <= q => a[p + k] = a[p] + c[k] OBVIOUS
  <2> HIDE DEF S
  <2> QED BY <1>0, <1>11, <2>1
<1>13. Tokens(z) = Tokens(x) + Tokens(y) BY <1>1, <1>2, <1>3, <1>4, <1>9, <1>12, Zenon
<1>14. Tokens(x) \in Nat /\ Tokens(y) \in Nat BY <1>3, <1>4, <1>9, <1>10, Zenon
<1> QED BY <1>13, <1>14

\* What the API takes in one call
Bounded(c) == Len(c) <= MaxTexts /\ (Len(c) > 1 => Tokens(c) <= MaxTokens)

\* The halves of a call are no longer than the call.
LEMMA HalvesBounded ==
  ASSUME NEW x, NEW m, x \in Seq(Text), Len(x) > 1, m \in Nat, m <= Len(x), Bounded(x)
  PROVE  Bounded(Cut(x, 1, m)) /\ Bounded(Cut(x, m + 1, Len(x)))
<1> DEFINE n == Len(x) - m
           a == Cut(x, 1, m)
           b == Cut(x, m + 1, Len(x))
<1>0. Len(x) \in Nat OBVIOUS
<1>1. n \in Nat /\ m + n = Len(x) BY <1>0
<1> HIDE DEF n
<1>2. CutsJoin(x, m, n, Text)
  <2>1. m + n <= Len(x) BY <1>0, <1>1
  <2> QED BY <1>1, <2>1, CutConcat
<1>3. a \o b = x /\ a \in Seq(Text) /\ b \in Seq(Text)
  <2>1. SubSeq(x, 1, Len(x)) = x BY SubSeqFull
  <2> QED BY <1>1, <1>2, <2>1, Zenon DEF CutsJoin, Cut
<1> HIDE DEF a, b
<1>4. Joins(x, a, b, Text)
  <2>1. Joins(a \o b, a, b, Text) BY <1>3, ConcatJoins
  <2> QED BY <1>3, <2>1, Zenon
<1>5. Tokens(x) = Tokens(a) + Tokens(b) /\ Tokens(a) \in Nat /\ Tokens(b) \in Nat
  BY <1>3, <1>4, TokensJoin
<1>6. Len(x) = Len(a) + Len(b) BY <1>4 DEF Joins
<1>7. Len(a) \in Nat /\ Len(b) \in Nat BY <1>3
<1>8. MaxTexts \in Nat /\ MaxTokens \in Nat BY IndexingAssumption
<1>9. Len(x) <= MaxTexts /\ Tokens(x) <= MaxTokens BY DEF Bounded
<1>10. Bounded(a) /\ Bounded(b) BY <1>5, <1>6, <1>7, <1>8, <1>9 DEF Bounded
<1> QED BY <1>10 DEF a, b

\* The job's row goes with its tenant, and whoever reports finds none to write.
JobRow ==
  /\ tenant = "gone" <=> status = "gone"
  /\ tenant # "gone" => left = 0

\* Every step keeps that.
LEMMA JobRowInductive == Run /\ JobRow /\ [Next]_vars => JobRow'
<1> SUFFICES ASSUME Run, JobRow, [Next]_vars PROVE JobRow' OBVIOUS
<1>1. ASSUME UNCHANGED <<status, tenant, left>> PROVE JobRow' BY <1>1 DEF JobRow
<1>2. CASE UNCHANGED vars BY <1>1, <1>2 DEF vars, others
<1>3. CASE LoadBatch \/ GatherBatch \/ EmbedBatch \/ Embedded \/ FindCollection
           \/ CreateCollection \/ Upsert \/ UpsertNowhere \/ AfterFlush
           \/ SplitBatch \/ CallFails \/ UpsertLost \/ OthersCreate
  <2>1. UNCHANGED <<status, tenant, left>>
    BY <1>3 DEF LoadBatch, GatherBatch, EmbedBatch, Embedded, FindCollection, CreateCollection,
       Upsert, UpsertNowhere, AfterFlush, SplitBatch, CallFails, UpsertLost, OthersCreate,
       FlushFails, others
  <2> QED BY <1>1, <2>1
<1>4. CASE CheckCancelled \/ Complete \/ WriteProgress
  BY <1>4 DEF CheckCancelled, Complete, WriteProgress, Report, others, JobRow
<1>5. CASE RunFails BY <1>5 DEF RunFails, Report, ReportLost, others, JobRow
<1>6. CASE Interrupted BY <1>6 DEF Interrupted, Report, ReportLost, JobRow
<1>7. CASE OthersReport BY <1>7 DEF OthersReport, others, JobRow
<1>8. CASE DropCollection BY <1>8 DEF DropCollection, JobRow
<1>9. CASE DeleteTenant BY <1>9 DEF DeleteTenant, JobRow
<1> QED BY <1>2, <1>3, <1>4, <1>5, <1>6, <1>7, <1>8, <1>9 DEF Next, Proceed

\* Points are in a collection, and they are about pages of the crawl.
PagesStored == \A k \in 1..Len(points) : points[k][1] \in 1..Len(pages)

\* Together
Kept == (~collection => points = <<>>) /\ PagesStored

\* An upsert stores pages of the crawl.
LEMMA UpsertKept ==
  ASSUME Run, PagesStored, pc \in Flushing, points' = points \o Vectors, UNCHANGED pages
  PROVE  PagesStored'
<1> DEFINE v == Vectors
           z == points \o v
           n == Len(pages)
<1>1. /\ texts \in Seq(Text) /\ embeddings \in Seq(Text) /\ points \in Seq(Point)
      /\ idx \in Nat /\ batch \in Nat /\ idx + batch <= n /\ n \in Nat
  BY PageFacts DEF Run, Typed, InHand
<1>2. /\ v \in Seq(Point)
      /\ \A k \in 1..Len(v) : k \in 1..Len(texts) /\ v[k][1] = texts[k][1]
  BY <1>1, VectorsFacts
<1>3. \A k \in 1..Len(texts) : texts[k][1] \in (idx + 1)..(idx + batch) BY FlushPages
<1> HIDE DEF v, n
<1>4. \A k \in 1..Len(v) : v[k][1] \in 1..n
  <2> SUFFICES ASSUME NEW k \in 1..Len(v) PROVE v[k][1] \in 1..n OBVIOUS
  <2>1. v[k][1] \in (idx + 1)..(idx + batch) BY <1>2, <1>3
  <2> QED BY <1>1, <2>1
<1>5. Joins(z, points, v, Point) BY <1>1, <1>2, ConcatJoins
<1>6. points' = z BY DEF v
<1> HIDE DEF z
<1>7. Len(points) \in Nat /\ Len(v) \in Nat BY <1>1, <1>2
<1>8. ASSUME NEW k \in 1..Len(z) PROVE z[k][1] \in 1..n
  <2>1. CASE k \in 1..Len(points)
    <3>1. z[k] = points[k] BY <1>5, <2>1 DEF Joins
    <3>2. points[k][1] \in 1..n BY <2>1 DEF PagesStored, n
    <3> QED BY <3>1, <3>2, Zenon
  <2>2. CASE k \notin 1..Len(points)
    <3>1. Len(z) = Len(points) + Len(v) BY <1>5 DEF Joins
    <3>2. k - Len(points) \in 1..Len(v) /\ Len(points) + (k - Len(points)) = k
      BY <1>7, <2>2, <3>1
    <3>3. z[Len(points) + (k - Len(points))] = v[k - Len(points)]
      BY <1>5, <3>2 DEF Joins
    <3>4. z[k] = v[k - Len(points)] BY <3>2, <3>3, Zenon
    <3> QED BY <1>4, <3>2, <3>4, Zenon
  <2> QED BY <2>1, <2>2
<1> QED BY <1>6, <1>8, Zenon DEF PagesStored, n

\* Every step keeps that.
LEMMA KeptInductive == Run /\ Kept /\ [Next]_vars => Kept'
<1> SUFFICES ASSUME Run, Kept, [Next]_vars PROVE Kept' OBVIOUS
<1>1. UNCHANGED pages
  BY DEF Next, Proceed, LoadBatch, GatherBatch, EmbedBatch, Embedded, FindCollection,
     CreateCollection, Upsert, UpsertNowhere, AfterFlush, WriteProgress, CheckCancelled,
     Complete, SplitBatch, CallFails, UpsertLost, RunFails, Interrupted, OthersReport,
     OthersCreate, DropCollection, DeleteTenant, FlushFails, vars, fixed
<1>2. ASSUME UNCHANGED points, collection => collection' PROVE Kept'
  BY <1>1, <1>2 DEF Kept, PagesStored
<1>3. CASE UNCHANGED vars BY <1>2, <1>3 DEF vars, others
<1>4. CASE \/ LoadBatch \/ GatherBatch \/ EmbedBatch \/ Embedded \/ FindCollection
           \/ UpsertNowhere \/ AfterFlush \/ WriteProgress \/ CheckCancelled \/ Complete
           \/ SplitBatch \/ RunFails \/ OthersReport \/ DeleteTenant
  <2>1. UNCHANGED <<points, collection>>
    BY <1>4 DEF LoadBatch, GatherBatch, EmbedBatch, Embedded, FindCollection,
       UpsertNowhere, AfterFlush, WriteProgress, CheckCancelled, Complete, SplitBatch,
       RunFails, OthersReport, DeleteTenant, others
  <2> QED BY <1>2, <2>1
<1>7. CASE CallFails BY <1>2, <1>7 DEF CallFails, MayCreate
<1>8. CASE Interrupted
  <2>1. collection => collection' BY <1>8 DEF Interrupted, MayCreate
  <2>2. CASE UNCHANGED points BY <1>2, <2>1, <2>2
  <2>3. CASE pc = "upsert" /\ collection /\ points' = points \o Vectors
    <3>1. PagesStored' BY <1>1, <2>3, UpsertKept DEF Kept, Flushing
    <3> QED BY <2>1, <2>3, <3>1 DEF Kept
  <2> QED BY <1>8, <2>2, <2>3 DEF Interrupted
<1>9. CASE CreateCollection \/ OthersCreate
  <2>1. UNCHANGED points /\ collection' = TRUE
    BY <1>9 DEF CreateCollection, OthersCreate
  <2> QED BY <1>2, <2>1
<1>5. CASE Upsert \/ UpsertLost
  <2>1. /\ collection /\ UNCHANGED collection /\ pc \in Flushing
        /\ points' = points \o Vectors
    BY <1>5 DEF Upsert, UpsertLost, others, Flushing
  <2>2. PagesStored' BY <1>1, <2>1, UpsertKept DEF Kept
  <2> QED BY <2>1, <2>2 DEF Kept
<1>6. CASE DropCollection
  <2>1. \/ collection' = FALSE /\ points' = <<>>
        \/ UNCHANGED <<collection, points>>
    BY <1>6 DEF DropCollection
  <2>2. 1..Len(<<>>) = {} OBVIOUS
  <2> QED BY <1>1, <2>1, <2>2 DEF Kept, PagesStored
<1> QED BY <1>3, <1>4, <1>5, <1>6, <1>7, <1>8, <1>9 DEF Next, Proceed

\* No call is larger than the API takes.
CallsBounded == \A k \in 1..Len(calls) : Bounded(calls[k])

\* A call that is halved is replaced by two smaller ones.
LEMMA SplitBounded ==
  ASSUME Run, CallsBounded, SplitBatch
  PROVE  CallsBounded'
<1> DEFINE V == Seq(Text)
           x == Head(calls)
           s == Tail(calls)
           m == Len(x) \div 2
           a == Cut(x, 1, m)
           b == Cut(x, m + 1, Len(x))
           q == <<a, b>>
           d == q \o s
<1>1. calls \in Seq(V) /\ calls # <<>> BY DEF Run, Typed, SplitBatch
<1>2. calls' = d /\ Len(x) > 1 BY Zenon DEF SplitBatch, Halves, Cut
<1> HIDE DEF V
<1>3. /\ x \in V /\ s \in Seq(V) /\ x = calls[1] /\ 1 \in 1..Len(calls)
      /\ \A k \in 1..Len(s) : s[k] = calls[k + 1] /\ k + 1 \in 1..Len(calls)
  BY <1>1
<1> HIDE DEF x, s
<1>4. Bounded(x) /\ \A k \in 1..Len(s) : Bounded(s[k]) BY <1>3 DEF CallsBounded
<1>5. Len(x) \in Nat BY <1>3 DEF V
<1>6. m \in Nat /\ m <= Len(x) BY <1>5, Division
<1> HIDE DEF m
<1>7. Bounded(a) /\ Bounded(b) BY <1>2, <1>3, <1>4, <1>6, HalvesBounded DEF V
<1>8. a \in V /\ b \in V
  <2> DEFINE n == Len(x) - m
  <2>1. n \in Nat /\ m + n = Len(x) /\ m + n <= Len(x) BY <1>5, <1>6
  <2> HIDE DEF n
  <2>2. CutsJoin(x, m, n, Text) BY <1>3, <1>6, <2>1, CutConcat DEF V
  <2> QED BY <2>1, <2>2, Zenon DEF CutsJoin, V
<1> HIDE DEF a, b
<1>9. q \in Seq(V) /\ Len(q) = 2 /\ q[1] = a /\ q[2] = b BY <1>8
<1> HIDE DEF q
<1>10. Joins(d, q, s, V) BY <1>3, <1>9, ConcatJoins
<1> HIDE DEF d
<1>11. Len(s) \in Nat BY <1>3
<1>12. ASSUME NEW k \in 1..Len(d) PROVE Bounded(d[k])
  <2>1. CASE k \in 1..2
    <3>1. d[k] = q[k] BY <1>9, <1>10, <2>1 DEF Joins
    <3>2. k = 1 \/ k = 2 BY <2>1
    <3>3. d[k] = a \/ d[k] = b BY <1>9, <3>1, <3>2
    <3> QED BY <1>7, <3>3
  <2>2. CASE k \notin 1..2
    <3>1. Len(d) = 2 + Len(s) BY <1>9, <1>10 DEF Joins
    <3>2. k - 2 \in 1..Len(s) /\ 2 + (k - 2) = k BY <1>11, <2>2, <3>1
    <3>3. d[2 + (k - 2)] = s[k - 2] BY <1>9, <1>10, <3>2 DEF Joins
    <3> QED BY <1>4, <3>2, <3>3, Zenon
  <2> QED BY <2>1, <2>2
<1> QED BY <1>2, <1>12, Zenon DEF CallsBounded

\* Every step keeps the calls within the limits.
LEMMA CallsInductive == Run /\ CallsBounded /\ [Next]_vars => CallsBounded'
<1> SUFFICES ASSUME Run, CallsBounded, [Next]_vars PROVE CallsBounded' OBVIOUS
<1>0. /\ calls \in Seq(Seq(Text)) /\ texts \in Seq(Text) /\ taken \in Nat
      /\ Len(texts) \in Nat
  BY DEF Run, Typed
<1>1. ASSUME UNCHANGED calls PROVE CallsBounded' BY <1>1 DEF CallsBounded
<1>2. CASE UNCHANGED vars BY <1>1, <1>2 DEF vars, work
<1>3. CASE GatherBatch
  <2> DEFINE c(n) == SubSeq(texts, taken + 1, taken + n)
  <2>1. PICK n \in 1..(Len(texts) - taken) : Fits(c(n)) /\ calls' = <<c(n)>>
    BY <1>3 DEF GatherBatch
  <2> DEFINE x == c(n)
  <2>2. Fits(x) /\ calls' = <<x>> BY <2>1
  <2> HIDE DEF x
  <2>3. MaxTexts \in Nat \ {0} BY IndexingAssumption
  <2>4. Bounded(x)
    <3>1. CASE Len(x) = 1 BY <2>3, <3>1 DEF Bounded
    <3>2. CASE Len(x) # 1 BY <2>2, <3>2 DEF Bounded, Fits
    <3> QED BY <3>1, <3>2
  <2>5. Len(<<x>>) = 1 /\ <<x>>[1] = x /\ 1..1 = {1} OBVIOUS
  <2>6. \A k \in 1..Len(<<x>>) : Bounded(<<x>>[k])
    <3> DEFINE y == <<x>>
    <3>1. Len(y) = 1 /\ y[1] = x BY <2>5
    <3> HIDE DEF y
    <3>2. \A k \in 1..Len(y) : Bounded(y[k]) BY <2>4, <3>1
    <3> QED BY <3>2 DEF y
  <2> QED BY <2>2, <2>6, Zenon DEF CallsBounded
<1>4. CASE EmbedBatch
  <2> DEFINE s == Tail(calls)
  <2>1. calls' = s /\ calls # <<>> BY <1>4 DEF EmbedBatch
  <2>2. \A k \in 1..Len(s) : s[k] = calls[k + 1] /\ k + 1 \in 1..Len(calls)
    <3> DEFINE V == Seq(Text)
    <3>1. calls \in Seq(V) BY <1>0
    <3> HIDE DEF V
    <3> QED BY <2>1, <3>1
  <2> HIDE DEF s
  <2>3. \A k \in 1..Len(s) : Bounded(s[k]) BY <2>2 DEF CallsBounded
  <2> QED BY <2>1, <2>3, Zenon DEF CallsBounded
<1>5. CASE SplitBatch BY <1>5, SplitBounded
<1>6. CASE AfterFlush \/ Interrupted
  <2>1. calls' = <<>> BY <1>6 DEF AfterFlush, Interrupted, Work0
  <2>2. 1..Len(<<>>) = {} OBVIOUS
  <2> QED BY <2>1, <2>2 DEF CallsBounded
<1>7. CASE LoadBatch \/ Embedded \/ FindCollection \/ CreateCollection \/ Upsert
           \/ UpsertNowhere \/ WriteProgress \/ CheckCancelled \/ Complete \/ CallFails
           \/ UpsertLost \/ RunFails \/ OthersReport \/ OthersCreate \/ DropCollection
           \/ DeleteTenant
  <2>1. UNCHANGED calls
    BY <1>7 DEF LoadBatch, Embedded, FindCollection, CreateCollection, Upsert, UpsertNowhere,
       WriteProgress, CheckCancelled, Complete, CallFails, UpsertLost, RunFails, OthersReport,
       OthersCreate, DropCollection, DeleteTenant, FlushFails, work
  <2> QED BY <1>1, <2>1
<1> QED BY <1>2, <1>3, <1>4, <1>5, <1>6, <1>7 DEF Next, Proceed

\* The types of the variables, the limits of the API and the job's row.
THEOREM TypeCorrect == Spec => []TypeOK
<1> DEFINE Inv == Run /\ Late /\ JobRow /\ Kept /\ CallsBounded
<1>1. Init => Inv
  <2>1. 1..Len(<<>>) = {} OBVIOUS
  <2>2. Init => Late /\ JobRow /\ Kept /\ CallsBounded
    BY <2>1 DEF Init, Late, JobRow, Kept, PagesStored, CallsBounded
  <2> QED BY <2>2, InitRun
<1>2. Inv /\ [Next]_vars => Inv'
  BY RunInductive, LateInductive, JobRowInductive, KeptInductive, CallsInductive
<1>3. Inv => TypeOK
  <2> SUFFICES ASSUME Inv PROVE TypeOK OBVIOUS
  <2>1. /\ points \in Seq(Point) /\ calls \in Seq(Seq(Text))
        /\ DOMAIN pages = 1..Len(pages)
    BY PageFacts DEF Run, Typed
  <2>2. DOMAIN points = 1..Len(points) /\ DOMAIN calls = 1..Len(calls)
        /\ Len(points) \in Nat
    BY <2>1
  <2>3. \A k \in DOMAIN calls :
          Len(calls[k]) <= MaxTexts /\ (Len(calls[k]) > 1 => Tokens(calls[k]) <= MaxTokens)
    BY <2>2 DEF CallsBounded, Bounded
  <2>4. \A k \in DOMAIN points : points[k][1] \in DOMAIN pages
    BY <2>1, <2>2 DEF Kept, PagesStored
  <2>5. left <= Len(points) BY <2>2 DEF Late, JobRow
  <2>6. /\ pc \in Places /\ tenant \in {"here", "dropped", "gone"} /\ collection \in BOOLEAN
        /\ status \in {"pending", "running", "completed", "failed", "gone"}
        /\ idx + batch <= Len(pages)
        /\ vectorized \in Nat /\ failed \in Nat /\ chunks \in Nat
    BY DEF Run, Typed, InHand
  <2>7. /\ tenant = "gone" <=> status = "gone"
        /\ ~collection => points = <<>>
    BY DEF JobRow, Kept
  <2> QED BY <2>3, <2>4, <2>5, <2>6, <2>7, Zenon DEF TypeOK, Places
<1>4. Spec => []Inv BY <1>1, <1>2, PTL DEF Spec
<1> QED BY <1>3, <1>4, PTL

-----------------------------------------------------------------------------
(* The counters of the progress record.                                      *)

\* How many pages of the batch have text
Full == Cardinality(WithText(idx + 1, idx + batch))

\* It does not change while the batch is the same.
LEMMA FullKept ==
  ASSUME UNCHANGED <<fixed, idx, batch>>
  PROVE  Full' = Full
BY DEF Full, WithText, ChunksOf, Chunked, fixed

\* Every page handled is counted, and of the batch in hand those without text.
Counted ==
  /\ pc \in Flushing => vectorized + failed + Full = idx + batch
  /\ pc = "flushed" => vectorized + failed = idx + batch
  /\ BetweenBatches => vectorized + failed = idx

\* The pages of a batch are counted when it is loaded, those with text excepted.
LEMMA LoadCounted ==
  ASSUME Run, Counted, LoadBatch
  PROVE  Counted'
<1> DEFINE size == Min({PageBatch, Remaining})
           f == idx + 1
           l == idx + size
           ts == TextsOf(f, l)
           c == Cardinality(WithText(f, l))
<1>0. idx \in Nat /\ vectorized \in Nat /\ failed \in Nat /\ pc = "load" /\ Fixed
  BY DEF Run, Typed, LoadBatch
<1>1. size > 0 BY DEF LoadBatch
<1>2. /\ size \in Nat /\ l <= Len(pages) /\ AreTexts(ts, f, l) /\ c \in 0..size
  <2> HIDE DEF size
  <2>1. size = Min({PageBatch, Remaining}) BY DEF size
  <2> QED BY <1>1, <2>1, BatchSize
<1>3. /\ batch' = size /\ vectorized' = vectorized + size - c
      /\ pc' = IF ts = <<>> THEN "flushed" ELSE "embed"
      /\ UNCHANGED <<pages, settings, idx, failed>>
  BY DEF LoadBatch, fixed
<1> HIDE DEF size
<1>4. Full' = c
  BY <1>3 DEF Full, WithText, ChunksOf, Chunked
<1>5. f \in Nat \ {0} /\ l \in Nat /\ f <= l + 1 BY <1>0, <1>2
<1> HIDE DEF f, l
<1>6. ts = <<>> => c = 0
  <2> HIDE DEF ts
  <2> QED BY <1>0, <1>2, <1>5, WithTextFacts
<1> HIDE DEF ts, c
<1>7. vectorized + failed = idx BY <1>0 DEF Counted, Flushing, BetweenBatches
<1> QED BY <1>0, <1>2, <1>3, <1>4, <1>6, <1>7 DEF Counted, Flushing, BetweenBatches

\* A flush that ends counts its pages with text, as vectorized or as failed.
LEMMA FlushCounted ==
  ASSUME Run, Counted, pc \in Flushing, pc' = "flushed", UNCHANGED <<idx, batch>>,
         vectorized' + failed' = vectorized + failed + Full
  PROVE  Counted'
BY DEF Counted, Flushing, BetweenBatches

\* Every step counts what it handles.
LEMMA CountedInductive == Run /\ Counted /\ [Next]_vars => Counted'
<1> SUFFICES ASSUME Run, Counted, [Next]_vars PROVE Counted' OBVIOUS
<1>0. /\ vectorized \in Nat /\ failed \in Nat /\ idx \in Nat /\ batch \in Nat
  BY DEF Run, Typed
<1>1. ASSUME pc \in Flushing PROVE Full \in Nat BY <1>1, FlushPages DEF Full
<1>2. ASSUME UNCHANGED <<fixed, idx, batch, vectorized, failed>>,
             \/ pc' = pc
             \/ {pc, pc'} \subseteq Flushing
             \/ {pc, pc'} \cap (Flushing \cup {"flushed", "interrupted"}) = {}
      PROVE  Counted'
  <2>1. Full' = Full BY <1>2, FullKept
  <2> QED BY <1>2, <2>1 DEF Counted, Flushing, BetweenBatches
<1>3. CASE UNCHANGED vars BY <1>2, <1>3 DEF vars, work, counters
<1>4. CASE LoadBatch BY <1>4, LoadCounted
<1>5. ASSUME FlushFails, pc \in Flushing PROVE Counted'
  <2>1. /\ failed' = failed + Full /\ pc' = "flushed"
        /\ UNCHANGED <<idx, batch, vectorized>>
    BY <1>5 DEF FlushFails, work, Full
  <2>2. vectorized' + failed' = vectorized + failed + Full BY <1>0, <1>1, <1>5, <2>1
  <2> QED BY <1>5, <2>1, <2>2, FlushCounted
<1>6. CASE CallFails \/ UpsertNowhere \/ UpsertLost
  BY <1>5, <1>6 DEF CallFails, UpsertNowhere, UpsertLost, Flushing
<1>7. CASE CreateCollection
  <2>1. CASE collection BY <1>5, <1>7, <2>1 DEF CreateCollection, Flushing
  <2>2. CASE ~collection
    <3>1. /\ pc = "create" /\ pc' = "upsert"
          /\ UNCHANGED <<fixed, idx, batch, vectorized, failed>>
      BY <1>7, <2>2 DEF CreateCollection, work, counters
    <3> QED BY <1>2, <3>1 DEF Flushing
  <2> QED BY <2>1, <2>2
<1>8. CASE Upsert
  <2>1. /\ vectorized' = vectorized + Full /\ pc = "upsert" /\ pc' = "flushed"
        /\ UNCHANGED <<idx, batch, failed>>
    BY <1>8 DEF Upsert, work, Full
  <2>2. pc \in Flushing BY <2>1 DEF Flushing
  <2>3. vectorized' + failed' = vectorized + failed + Full BY <1>0, <1>1, <2>1, <2>2
  <2> QED BY <2>1, <2>2, <2>3, FlushCounted
<1>9. CASE AfterFlush
  <2>1. /\ pc = "flushed" /\ pc' \in {"end", "progress"} /\ idx' = idx + batch
        /\ UNCHANGED <<vectorized, failed>>
    BY <1>9 DEF AfterFlush, counters
  <2> QED BY <2>1 DEF Counted, Flushing, BetweenBatches
<1>10. CASE GatherBatch \/ EmbedBatch \/ SplitBatch \/ Embedded \/ FindCollection
            \/ OthersReport \/ OthersCreate \/ DropCollection \/ DeleteTenant
  <2>1. UNCHANGED <<fixed, idx, batch, vectorized, failed>>
    BY <1>10 DEF GatherBatch, EmbedBatch, SplitBatch, Embedded, FindCollection,
       OthersReport, OthersCreate, DropCollection, DeleteTenant, work, counters
  <2>2. pc' = pc \/ {pc, pc'} \subseteq Flushing
    BY <1>10 DEF GatherBatch, EmbedBatch, SplitBatch, Embedded, FindCollection,
       OthersReport, OthersCreate, DropCollection, DeleteTenant, Flushing
  <2> QED BY <1>2, <2>1, <2>2
<1>11. CASE WriteProgress \/ CheckCancelled \/ Complete \/ RunFails
  <2>1. UNCHANGED <<fixed, idx, batch, vectorized, failed>>
    BY <1>11 DEF WriteProgress, CheckCancelled, Complete, RunFails, work, counters
  <2>2. {pc, pc'} \cap (Flushing \cup {"flushed", "interrupted"}) = {}
    BY <1>11 DEF WriteProgress, CheckCancelled, Complete, AtEnd, RunFails, Flushing
  <2> QED BY <1>2, <2>1, <2>2
<1>12. CASE Interrupted BY <1>12 DEF Interrupted, Counted, Flushing, BetweenBatches
<1> QED BY <1>3, <1>4, <1>6, <1>7, <1>8, <1>9, <1>10, <1>11, <1>12 DEF Next, Proceed

\* Of the texts of a flush each page has its chunks and no other page has any.
LEMMA TextsCounted ==
  ASSUME NEW t, NEW f, NEW l, NEW p, AreTexts(t, f, l)
  PROVE  Count(t, p) = IF p \in f..l THEN Len(ChunksOf(p)) ELSE 0
<1>1. CASE p \in f..l BY <1>1 DEF AreTexts
<1>2. CASE p \notin f..l
  <2>1. {k \in 1..Len(t) : t[k][1] = p} = {} BY <1>2 DEF AreTexts
  <2> QED BY <1>2, <2>1, FS_EmptySet DEF Count
<1> QED BY <1>1, <1>2

\* With every text embedded a flush makes one point of each.
LEMMA VectorsCounted ==
  ASSUME texts \in Seq(Text), embeddings = texts
  PROVE  /\ Vectors \in Seq(Point) /\ Len(Vectors) = Len(texts)
         /\ \A p : Count(Vectors, p) = Count(texts, p)
<1> DEFINE v == Vectors
<1>1. /\ v \in Seq(Point) /\ Len(v) = Zipped
      /\ \A k \in 1..Len(v) : v[k][1] = texts[k][1]
  BY VectorsFacts
<1>2. Len(texts) \in Nat OBVIOUS
<1>3. Zipped = Len(texts) BY <1>2 DEF Zipped
<1> HIDE DEF v
<1>4. \A p : {k \in 1..Len(v) : v[k][1] = p} = {k \in 1..Len(texts) : texts[k][1] = p}
  BY <1>1, <1>3
<1>5. \A p : Count(v, p) = Count(texts, p) BY <1>4, Zenon DEF Count
<1> QED BY <1>1, <1>3, <1>5 DEF v

\* Of the first r pages s holds every chunk once, and none of the others.
Whole(s, r) ==
  \A p \in 1..Len(pages) : Count(s, p) = IF p <= r THEN Len(ChunksOf(p)) ELSE 0

\* An upsert in full stores the pages of its batch.
LEMMA WholeUpserted ==
  ASSUME Run, pc \in Flushing, embeddings = texts, Whole(points, idx)
  PROVE  Whole(points \o Vectors, idx + batch)
<1> DEFINE v == Vectors
<1>1. /\ texts \in Seq(Text) /\ points \in Seq(Point) /\ idx \in Nat /\ batch \in Nat
      /\ Fixed /\ AreTexts(texts, idx + 1, idx + batch)
  BY DEF Run, Typed, InHand, Hand
<1>2. /\ v \in Seq(Point) /\ \A p : Count(v, p) = Count(texts, p) BY <1>1, VectorsCounted
<1> HIDE DEF v
<1>3. Len(pages) \in Nat BY <1>1, PageFacts
<1> SUFFICES ASSUME NEW p \in 1..Len(pages)
             PROVE  Count(points \o v, p) = IF p <= idx + batch THEN Len(ChunksOf(p)) ELSE 0
  BY DEF Whole, v
<1>4. p \in Nat BY <1>3
<1>5. Count(points \o v, p) = Count(points, p) + Count(v, p)
      /\ Count(points, p) \in Nat /\ Count(v, p) \in Nat
  BY <1>1, <1>2, CountConcat
<1>6. Count(v, p) = IF p \in (idx + 1)..(idx + batch) THEN Len(ChunksOf(p)) ELSE 0
  <2>1. Count(texts, p) = IF p \in (idx + 1)..(idx + batch) THEN Len(ChunksOf(p)) ELSE 0
    BY <1>1, TextsCounted
  <2> QED BY <1>2, <2>1, Zenon
<1>7. Count(points, p) = IF p <= idx THEN Len(ChunksOf(p)) ELSE 0 BY DEF Whole
<1> DEFINE n == Len(ChunksOf(p))
           a == Count(points, p)
           b == Count(v, p)
           z == Count(points \o v, p)
<1>8. /\ z = a + b /\ a \in Nat /\ b \in Nat
      /\ b = (IF p \in (idx + 1)..(idx + batch) THEN n ELSE 0)
      /\ a = (IF p <= idx THEN n ELSE 0)
  BY <1>5, <1>6, <1>7, Zenon
<1> HIDE DEF n, a, b, z
<1>9. z = IF p <= idx + batch THEN n ELSE 0 BY <1>1, <1>4, <1>8
<1> QED BY <1>9, Zenon DEF z, n

\* A batch without any text is stored when it is loaded.
LEMMA WholeLoaded ==
  ASSUME Run, NEW r, r \in Nat, r <= Len(pages), idx <= r,
         AreTexts(<<>>, idx + 1, r), Whole(points, idx)
  PROVE  Whole(points, r)
<1>1. idx \in Nat /\ Len(pages) \in Nat BY PageFacts DEF Run, Typed
<1> SUFFICES ASSUME NEW p \in 1..Len(pages)
             PROVE  Count(points, p) = IF p <= r THEN Len(ChunksOf(p)) ELSE 0
  BY DEF Whole
<1>2. Count(points, p) = IF p <= idx THEN Len(ChunksOf(p)) ELSE 0 BY DEF Whole
<1>3. CASE p \in (idx + 1)..r
  <2>1. Count(<<>>, p) = Len(ChunksOf(p)) BY <1>3 DEF AreTexts
  <2>2. Count(<<>>, p) = 0
    <3>1. {k \in 1..Len(<<>>) : <<>>[k][1] = p} = {} OBVIOUS
    <3> QED BY <3>1, FS_EmptySet DEF Count
  <2>3. ~(p <= idx) /\ p <= r BY <1>1, <1>3
  <2> QED BY <1>2, <2>1, <2>2, <2>3
<1>4. CASE p \notin (idx + 1)..r
  <2>1. p <= idx <=> p <= r BY <1>1, <1>4
  <2> QED BY <1>2, <2>1
<1> QED BY <1>3, <1>4

\* The pages that are handled, with the batch that is done
Reached == IF pc = "flushed" THEN idx + batch ELSE idx

\* Of a tenant that is not being deleted: what chunks_created says, and the points
\* of a run that was not cut short
StoredAll ==
  tenant = "here" =>
    /\ ~unsure => chunks = Len(points)
    /\ failed = 0 /\ pc # "interrupted" => ~unsure /\ Whole(points, Reached)

\* Every step keeps that.
LEMMA StoredAllInductive == Run /\ Ordered /\ StoredAll /\ [Next]_vars => StoredAll'
<1> SUFFICES ASSUME Run, Ordered, StoredAll, [Next]_vars, tenant' = "here"
             PROVE  /\ ~unsure' => chunks' = Len(points')
                    /\ failed' = 0 /\ pc' # "interrupted" =>
                         ~unsure' /\ Whole(points, Reached)'
  BY DEF StoredAll
<1>0. /\ failed \in Nat /\ idx \in Nat /\ batch \in Nat /\ points \in Seq(Point)
      /\ texts \in Seq(Text) /\ Fixed
  BY DEF Run, Typed
<1>1. tenant = "here"
  BY DEF Next, Proceed, LoadBatch, GatherBatch, EmbedBatch, Embedded, FindCollection,
     CreateCollection, Upsert, UpsertNowhere, AfterFlush, WriteProgress, CheckCancelled,
     Complete, SplitBatch, CallFails, UpsertLost, RunFails, Interrupted, OthersReport,
     OthersCreate, DropCollection, DeleteTenant, FlushFails, vars, others
<1>2. /\ ~unsure => chunks = Len(points)
      /\ failed = 0 /\ pc # "interrupted" => ~unsure /\ Whole(points, Reached)
  BY <1>1 DEF StoredAll
<1>3. ASSUME UNCHANGED <<fixed, points>>, NEW r, Reached' = r, Whole(points, r)
      PROVE  Whole(points, Reached)'
  BY <1>3 DEF Whole, Count, ChunksOf, Chunked, fixed
<1>4. ASSUME UNCHANGED <<fixed, points, failed, chunks, unsure>>, Reached' = Reached,
             pc = "interrupted" => pc' = "interrupted"
      PROVE  /\ ~unsure' => chunks' = Len(points')
             /\ failed' = 0 /\ pc' # "interrupted" => ~unsure' /\ Whole(points, Reached)'
  <2>1. Whole(points, Reached) => Whole(points, Reached)' BY <1>3, <1>4
  <2> QED BY <1>2, <1>4, <2>1
<1>5. CASE UNCHANGED vars BY <1>4, <1>5 DEF vars, counters, work, Reached
<1>6. CASE LoadBatch
  <2> DEFINE size == Min({PageBatch, Remaining})
             l == idx + size
             ts == TextsOf(idx + 1, l)
  <2>1. size > 0 BY <1>6 DEF LoadBatch
  <2>2. size \in Nat /\ l <= Len(pages) /\ AreTexts(ts, idx + 1, l)
    <3> HIDE DEF size
    <3>1. size = Min({PageBatch, Remaining}) BY DEF size
    <3> QED BY <2>1, <3>1, BatchSize
  <2>3. /\ pc = "load" /\ batch' = size
        /\ pc' = IF ts = <<>> THEN "flushed" ELSE "embed"
        /\ UNCHANGED <<fixed, idx, points, failed, chunks, unsure>>
    BY <1>6 DEF LoadBatch
  <2>4. l \in Nat /\ idx <= l BY <1>0, <2>2
  <2>5. ts = <<>> => Reached' = l BY <2>3 DEF Reached
  <2> HIDE DEF size, l
  <2>6. Reached = idx BY <2>3 DEF Reached
  <2>7. CASE ts = <<>>
    <3>1. AreTexts(<<>>, idx + 1, l) BY <2>2, <2>7, Zenon
    <3>2. Whole(points, Reached) => Whole(points, l) BY <2>2, <2>4, <2>6, <3>1, WholeLoaded
    <3>3. Whole(points, Reached) => Whole(points, Reached)'
      BY <1>3, <2>3, <2>5, <2>7, <3>2
    <3> QED BY <1>2, <2>3, <3>3
  <2>8. CASE ts # <<>>
    <3>1. Reached' = Reached BY <2>3, <2>6, <2>8 DEF Reached
    <3> QED BY <1>4, <2>3, <3>1
  <2> QED BY <2>7, <2>8
<1>7. ASSUME FlushFails, pc \in Flushing PROVE failed' # 0 /\ UNCHANGED chunks
  <2>1. Full \in 1..batch BY <1>7, FlushPages DEF Full
  <2>2. failed' = failed + Full BY <1>7 DEF FlushFails, Full
  <2>3. UNCHANGED chunks BY <1>7 DEF FlushFails
  <2> QED BY <1>0, <2>1, <2>2, <2>3
<1>8. CASE CallFails \/ UpsertNowhere
  <2>1. FlushFails /\ pc \in Flushing /\ UNCHANGED <<points, unsure>>
    BY <1>8 DEF CallFails, UpsertNowhere, Flushing
  <2> QED BY <1>2, <1>7, <2>1
<1>9. CASE UpsertLost
  <2>1. FlushFails /\ pc \in Flushing /\ unsure' = TRUE BY <1>9 DEF UpsertLost, Flushing
  <2> QED BY <1>7, <2>1
<1>10. CASE CreateCollection
  <2>1. CASE FlushFails
    <3>1. pc \in Flushing /\ UNCHANGED <<points, unsure>>
      BY <1>10 DEF CreateCollection, Flushing
    <3> QED BY <1>2, <1>7, <2>1, <3>1
  <2>2. CASE ~FlushFails
    <3>1. /\ pc = "create" /\ pc' = "upsert"
          /\ UNCHANGED <<fixed, idx, points, failed, chunks, unsure>>
      BY <1>10, <2>2 DEF CreateCollection, counters
    <3>2. Reached' = Reached BY <3>1 DEF Reached
    <3> QED BY <1>4, <3>1, <3>2
  <2> QED BY <2>1, <2>2
<1>11. CASE Upsert
  <2> DEFINE v == Vectors
  <2>1. /\ pc = "upsert" /\ pc' = "flushed" /\ points' = points \o v
        /\ chunks' = chunks + Len(v) /\ UNCHANGED <<pages, settings, idx, batch, failed, unsure>>
    BY <1>11 DEF Upsert, fixed, work
  <2>2. pc \in Flushing /\ embeddings = texts BY <2>1 DEF Flushing, Ordered
  <2>3. v \in Seq(Point) BY <1>0, <2>2, VectorsCounted
  <2>4. Reached = idx /\ Reached' = idx + batch BY <2>1 DEF Reached
  <2>5. Whole(points, idx) => Whole(points \o v, idx + batch) BY <2>2, WholeUpserted
  <2> HIDE DEF v
  <2>6. Len(points \o v) = Len(points) + Len(v) BY <1>0, <2>3
  <2>7. ~unsure' => chunks' = Len(points') BY <1>2, <2>1, <2>6
  <2> DEFINE z == points \o v
             r == idx + batch
  <2>8. points' = z /\ Reached' = r BY <2>1, <2>4
  <2> HIDE DEF z, r
  <2>9. Whole(z, r) => Whole(points, Reached)'
    BY <2>1, <2>8 DEF Whole, Count, ChunksOf, Chunked
  <2>10. failed' = 0 => ~unsure' /\ Whole(points, Reached)'
    BY <1>2, <2>1, <2>4, <2>5, <2>9, Zenon DEF z, r
  <2> QED BY <2>7, <2>10
<1>12. CASE AfterFlush
  <2>1. /\ pc = "flushed" /\ pc' \in {"end", "progress"} /\ idx' = idx + batch
        /\ UNCHANGED <<fixed, points, failed, chunks, unsure>>
    BY <1>12 DEF AfterFlush, counters
  <2>2. Reached' = Reached BY <2>1 DEF Reached
  <2> QED BY <1>4, <2>1, <2>2
<1>13. CASE OthersCreate \/ OthersReport
  <2>1. UNCHANGED <<fixed, pc, idx, batch, points, failed, chunks, unsure>>
    BY <1>13 DEF OthersCreate, OthersReport, work, counters
  <2>2. Reached' = Reached BY <2>1 DEF Reached
  <2> QED BY <1>4, <2>1, <2>2
<1>14. CASE DropCollection \/ DeleteTenant BY <1>14 DEF DropCollection, DeleteTenant
<1>15. CASE GatherBatch \/ EmbedBatch \/ SplitBatch \/ Embedded \/ FindCollection
            \/ WriteProgress \/ CheckCancelled \/ Complete \/ RunFails
  <2>1. UNCHANGED <<fixed, idx, points, failed, chunks, unsure>>
    BY <1>15 DEF GatherBatch, EmbedBatch, SplitBatch, Embedded, FindCollection,
       WriteProgress, CheckCancelled, Complete, RunFails, counters
  <2>2. pc # "flushed" /\ pc' # "flushed" /\ pc # "interrupted"
    BY <1>15 DEF GatherBatch, EmbedBatch, SplitBatch, Embedded, FindCollection,
       WriteProgress, CheckCancelled, Complete, AtEnd, RunFails
  <2>3. Reached' = Reached BY <2>1, <2>2 DEF Reached
  <2> QED BY <1>4, <2>1, <2>2, <2>3
<1>16. CASE Interrupted
  <2>1. pc' = "interrupted" /\ UNCHANGED chunks BY <1>16 DEF Interrupted, counters
  <2>2. UNCHANGED <<points, unsure>> \/ unsure' = TRUE BY <1>16 DEF Interrupted
  <2> QED BY <1>2, <2>1, <2>2
<1> QED BY <1>5, <1>6, <1>8, <1>9, <1>10, <1>11, <1>12, <1>13, <1>14, <1>15, <1>16
        DEF Next, Proceed

\* The counters of the progress record tell the truth, whatever fails, whoever else makes
\* or drops the collection and however the calls are halved.
THEOREM CountersTrue == Spec => []CountersTellTheTruth
<1> DEFINE Inv == Run /\ Ordered /\ Counted /\ StoredAll
<1>1. Init => Inv
  <2> SUFFICES ASSUME Init PROVE Inv OBVIOUS
  <2>1. /\ pc = "load" /\ idx = 0 /\ vectorized = 0 /\ failed = 0 /\ chunks = 0
        /\ points = <<>> /\ unsure = FALSE
    BY DEF Init
  <2>2. 1..Len(<<>>) = {} /\ Len(<<>>) = 0 OBVIOUS
  <2>3. Run BY InitRun
  <2>4. Ordered BY <2>1, <2>2 DEF Ordered, Stored, Flushing
  <2>5. Counted BY <2>1 DEF Counted, Flushing, BetweenBatches
  <2>6. Whole(points, Reached)
    <3>1. \A p : {k \in 1..Len(points) : points[k][1] = p} = {} BY <2>1, <2>2
    <3>2. \A p : Count(points, p) = 0 BY <3>1, FS_EmptySet DEF Count
    <3>3. Reached = 0 BY <2>1 DEF Reached
    <3>4. Len(pages) \in Nat BY <2>3, PageFacts DEF Run, Typed
    <3> QED BY <3>2, <3>3, <3>4 DEF Whole
  <2>7. StoredAll BY <2>1, <2>2, <2>6 DEF StoredAll
  <2> QED BY <2>3, <2>4, <2>5, <2>7
<1>2. Inv /\ [Next]_vars => Inv'
  BY RunInductive, OrderedInductive, CountedInductive, StoredAllInductive
<1>3. Inv => CountersTellTheTruth
  <2> SUFFICES ASSUME Inv PROVE CountersTellTheTruth OBVIOUS
  <2>1. BetweenBatches => vectorized + failed = idx BY DEF Counted
  <2>2. ~unsure /\ tenant = "here" => chunks = Len(points) BY DEF StoredAll
  <2>3. ASSUME BetweenBatches, failed = 0, tenant = "here",
               NEW p \in 1..idx
        PROVE  Cardinality(Pages(p)) = Len(ChunksOf(p))
    <3>1. /\ points \in Seq(Point) /\ idx \in Nat /\ batch \in Nat /\ idx + batch <= Len(pages)
          /\ Len(pages) \in Nat
      BY PageFacts DEF Run, Typed, InHand
    <3>2. p \in 1..Len(pages) /\ p <= idx BY <3>1
    <3>3. Whole(points, idx) BY <2>3 DEF StoredAll, Reached, BetweenBatches
    <3>4. Count(points, p) = Len(ChunksOf(p)) BY <3>2, <3>3 DEF Whole
    <3>5. DOMAIN points = 1..Len(points) BY <3>1
    <3> QED BY <3>4, <3>5, Zenon DEF Count, Pages
  <2> QED BY <2>1, <2>2, <2>3 DEF CountersTellTheTruth
<1> QED BY <1>1, <1>2, <1>3, PTL DEF Spec

=============================================================================
