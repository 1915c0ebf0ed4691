------------------------------ MODULE DataLemmas ------------------------------
(***************************************************************************)
(* What the proofs need of natural numbers, finite sets and sequences,      *)
(* whatever they are about.                                                 *)
(***************************************************************************)
EXTENDS Integers, SequencesExt, WellFoundedInduction, FiniteSetTheorems, TLAPS

\* A set of natural numbers that is not empty has a least element.
LEMMA LeastNat ==
  ASSUME NEW S \in SUBSET Nat, S # {}
  PROVE  \E m \in S : \A n \in S : m <= n
<1> DEFINE R == OpToRel(<, Nat)
<1>1. IsWellFoundedOn(R, Nat)
  BY NatLessThanWellFounded, Zenon
<1>2. \A m, n \in Nat : <<m, n>> \in R <=> m < n
  BY Zenon DEF OpToRel
<1> HIDE DEF R
<1>3. PICK m \in S : \A n \in S : ~ (<<n, m>> \in R)
  BY <1>1, WFMin, Zenon
<1>4. \A n \in S : <<n, m>> \notin R
  BY <1>3
<1>5. \A n \in S : ~(n < m)
  BY <1>4, <1>2
<1> QED BY <1>3, <1>5

\* Induction up to a bound, on membership of a set.
LEMMA InductionUpTo ==
  ASSUME NEW N \in Nat, NEW G, 0 \in G, \A n \in 0 .. N - 1 : n \in G => n + 1 \in G
  PROVE  0 .. N \subseteq G
<1> DEFINE bad == {n \in 0 .. N : n \notin G}
<1>1. SUFFICES ASSUME bad # {} PROVE FALSE
  OBVIOUS
<1>2. bad \in SUBSET Nat
  OBVIOUS
<1>3. PICK m \in bad : \A n \in bad : m <= n
  BY <1>2, <1>1, LeastNat
<1>4. m \in 0 .. N /\ m # 0
  BY <1>3
<1>5. m - 1 \in 0 .. N - 1 /\ m - 1 \in G
  BY <1>3, <1>4
<1> QED BY <1>3, <1>4, <1>5

\* A function of the numbers up to N may be defined by its value for 0 and, for every
\* other number, by its value for a smaller one.
PointsDown(below, N) == below \in [1 .. N -> Nat] /\ \A k \in 1 .. N : below[k] < k

IsStep(step, N, S) == step \in [(1 .. N) \X S -> S]

FollowsSteps(f, N, start, below, step) ==
  f[0] = start /\ \A k \in 1 .. N : f[k] = step[<<k, f[below[k]]>>]

LEMMA RecursionBelow ==
  ASSUME NEW N \in Nat, NEW S, NEW start \in S, NEW below, NEW step,
         PointsDown(below, N), IsStep(step, N, S)
  PROVE  \E f \in [0 .. N -> S] : FollowsSteps(f, N, start, below, step)
<1>1. /\ below \in [1 .. N -> Nat] /\ \A k \in 1 .. N : below[k] < k
      /\ step \in [(1 .. N) \X S -> S]
  BY DEF PointsDown, IsStep
<1> DEFINE Fits(f, n) == f[0] = start /\ \A k \in 1 .. n : f[k] = step[<<k, f[below[k]]>>]
           G == {n \in 0 .. N : \E f \in [0 .. n -> S] : Fits(f, n)}
<1>2. 0 \in G
  <2>1. [k \in 0 .. 0 |-> start] \in [0 .. 0 -> S] /\ Fits([k \in 0 .. 0 |-> start], 0)
    OBVIOUS
  <2>2. 0 \in 0 .. N
    OBVIOUS
  <2> HIDE DEF Fits
  <2> QED BY <2>1, <2>2
<1>3. ASSUME NEW n \in 0 .. N - 1, n \in G PROVE n + 1 \in G
  <2>1. PICK f \in [0 .. n -> S] : Fits(f, n)
    BY <1>3
  <2> DEFINE m == n + 1
             g == [k \in 0 .. m |-> IF k = m THEN step[<<m, f[below[m]]>>] ELSE f[k]]
  <2>2. m \in 1 .. N /\ m \in 1 .. m /\ m \notin 0 .. n /\ 0 \in 0 .. n /\ 0 .. m = 0 .. n \cup {m}
    OBVIOUS
  <2>3. \A k \in 1 .. m : below[k] \in 0 .. n
    BY <1>1
  <2> HIDE DEF m
  <2>4. step[<<m, f[below[m]]>>] \in S
    BY <1>1, <2>2, <2>3
  <2>5. g \in [0 .. m -> S]
    BY <2>2, <2>4
  <2>6. \A k \in 0 .. n : g[k] = f[k]
    BY <2>2
  <2>7. g[m] = step[<<m, f[below[m]]>>]
    BY <2>2
  <2> HIDE DEF g
  <2>8. \A k \in 1 .. m : g[below[k]] = f[below[k]]
    BY <2>3, <2>6
  <2>9. \A k \in 1 .. m : k = m \/ k \in 1 .. n
    BY DEF m
  <2>10. Fits(g, m)
    <3>1. \A k \in 1 .. n : g[k] = step[<<k, g[below[k]]>>]
      <4> TAKE k \in 1 .. n
      <4>1. k \in 0 .. n /\ k \in 1 .. m
        BY DEF m
      <4> QED BY <2>1, <2>6, <2>8, <4>1
    <3>2. g[m] = step[<<m, g[below[m]]>>]
      BY <2>2, <2>7, <2>8
    <3>3. g[0] = start
      BY <2>1, <2>2, <2>6
    <3> QED BY <2>9, <3>1, <3>2, <3>3
  <2>11. m \in 0 .. N
    BY <2>2
  <2> QED BY <2>5, <2>10, <2>11 DEF m
<1> HIDE DEF Fits
<1>4. 0 .. N \subseteq G
  BY <1>2, <1>3, InductionUpTo
<1>5. N \in G
  BY <1>4
<1> QED BY <1>5 DEF Fits, FollowsSteps

\* A set of integers between bounds has a greatest element.
LEMMA MaxOfSome ==
  ASSUME NEW a \in Int, NEW b \in Int, NEW S \in SUBSET (a .. b), S # {}
  PROVE  Max(S) \in S /\ \A x \in S : x <= Max(S)
<1> DEFINE room == {b - x : x \in S}
<1>1. room \in SUBSET Nat /\ room # {}
  <2>1. \A x \in S : x \in a .. b
    OBVIOUS
  <2>2. \A x \in S : b - x \in Nat
    BY <2>1
  <2>3. room # {}
    OBVIOUS
  <2> QED BY <2>2, <2>3
<1>2. PICK r \in room : \A s \in room : r <= s
  BY <1>1, LeastNat
<1>3. PICK m \in S : r = b - m
  BY <1>2
<1>4. \A x \in S : b - m <= b - x
  BY <1>2, <1>3
<1>5. \A x \in S : m >= x
  BY <1>4
<1>6. Max(S) = CHOOSE x \in S : \A y \in S : x >= y
  BY DEF Max
<1>7. Max(S) \in S /\ \A x \in S : Max(S) >= x
  BY <1>5, <1>6
<1> QED BY <1>7

\* A function has no more values than arguments.
LEMMA FewValues ==
  ASSUME NEW f, NEW S, IsFiniteSet(S)
  PROVE  LET T == {f[x] : x \in S}
         IN  IsFiniteSet(T) /\ Cardinality(T) <= Cardinality(S)
<1> DEFINE T == {f[x] : x \in S}
           g == [x \in S |-> f[x]]
<1>1. g \in Surjection(S, T)
  BY DEF Surjection
<1> QED BY <1>1, FS_Surjection DEF ExistsSurjection

\* Two sets have no more elements together than one by one.
LEMMA FewTogether ==
  ASSUME NEW S, NEW T, IsFiniteSet(S), IsFiniteSet(T), NEW m \in Nat, NEW n \in Nat,
         Cardinality(S) <= m, Cardinality(T) <= n
  PROVE  IsFiniteSet(S \cup T) /\ Cardinality(S \cup T) <= m + n
<1>1. IsFiniteSet(S \cap T)
  BY FS_Subset
<1>2. IsFiniteSet(S \cup T)
  BY FS_Union
<1>3. Cardinality(S \cup T) = Cardinality(S) + Cardinality(T) - Cardinality(S \cap T)
  BY FS_Union
<1>4. Cardinality(S) \in Nat /\ Cardinality(T) \in Nat /\ Cardinality(S \cap T) \in Nat
  BY <1>1, FS_CardinalityType
<1> QED BY <1>2, <1>3, <1>4

\* A set that is let in one element at a time, while there is room, stays in its bound.
LEMMA RoomForOne ==
  ASSUME NEW S, NEW T, NEW n \in Nat, IsFiniteSet(S), Cardinality(S) <= n,
         T \subseteq S \/ (Cardinality(S) < n /\ \E x : T \subseteq S \cup {x})
  PROVE  IsFiniteSet(T) /\ Cardinality(T) <= n
<1>1. CASE T \subseteq S
  BY <1>1, FS_Subset, FS_CardinalityType
<1>2. CASE Cardinality(S) < n /\ \E x : T \subseteq S \cup {x}
  <2>1. PICK x : T \subseteq S \cup {x}
    BY <1>2
  <2>2. /\ IsFiniteSet(S \cup {x})
        /\ Cardinality(S \cup {x}) = IF x \in S THEN Cardinality(S) ELSE Cardinality(S) + 1
    BY FS_AddElement
  <2>3. Cardinality(S) \in Nat
    BY FS_CardinalityType
  <2>4. Cardinality(S \cup {x}) <= n
    BY <1>2, <2>2, <2>3
  <2>5. IsFiniteSet(T) /\ Cardinality(T) <= Cardinality(S \cup {x})
    BY <2>1, <2>2, FS_Subset
  <2>6. Cardinality(T) \in Nat /\ Cardinality(S \cup {x}) \in Nat
    BY <2>2, <2>5, FS_CardinalityType
  <2> QED BY <2>4, <2>5, <2>6
<1> QED BY <1>1, <1>2

\* A sequence without its last element, and that element.
LEMMA FrontOf ==
  ASSUME NEW S, NEW s \in Seq(S), s # <<>>
  PROVE  /\ Front(s) \in Seq(S) /\ Len(Front(s)) = Len(s) - 1
         /\ \A k \in 1 .. Len(s) - 1 : Front(s)[k] = s[k]
         /\ Last(s) = s[Len(s)] /\ Len(s) \in 1 .. Len(s)
<1>1. Len(s) \in Nat /\ Len(s) # 0 /\ \A k \in 1 .. Len(s) : s[k] \in S
  OBVIOUS
<1>2. Len(s) - 1 \in Nat /\ \A k \in 1 .. Len(s) - 1 : k \in 1 .. Len(s)
  BY <1>1
<1>3. Front(s) = [k \in 1 .. Len(s) - 1 |-> s[k]]
  BY <1>1, <1>2 DEF Front
<1> QED BY <1>1, <1>2, <1>3 DEF Last

\* A sequence is the function of its places.
LEMMA SeqIsItsValues ==
  ASSUME NEW S, NEW s \in Seq(S)
  PROVE  s = [k \in 1 .. Len(s) |-> s[k]]
OBVIOUS

LEMMA ValuesAreASeq ==
  ASSUME NEW n \in Nat, NEW S, NEW f, \A k \in 1 .. n : f[k] \in S
  PROVE  [k \in 1 .. n |-> f[k]] \in Seq(S) /\ Len([k \in 1 .. n |-> f[k]]) = n
OBVIOUS

\* A sequence is one of its own elements.
LEMMA SeqOfItsOwn ==
  ASSUME NEW S, NEW s \in Seq(S)
  PROVE  s \in Seq(ToSet(s)) /\ ToSet(s) = {s[k] : k \in 1 .. Len(s)}
<1>1. Len(s) \in Nat /\ DOMAIN s = 1 .. Len(s) /\ s = [k \in 1 .. Len(s) |-> s[k]]
  OBVIOUS
<1>2. ToSet(s) = {s[k] : k \in 1 .. Len(s)}
  BY <1>1 DEF ToSet
<1>3. \A k \in 1 .. Len(s) : s[k] \in ToSet(s)
  BY <1>2
<1> QED BY <1>1, <1>2, <1>3

\* A function of the numbers up to N may be defined by its values for all smaller ones.
StepsOnAll(step, N, S) == \A k \in 1 .. N : \A s \in [1 .. k - 1 -> S] : step[k][s] \in S

LEMMA RecursionOnAll ==
  ASSUME NEW N \in Nat, NEW S, NEW step, StepsOnAll(step, N, S)
  PROVE  \E f \in [1 .. N -> S] : \A k \in 1 .. N : f[k] = step[k][[j \in 1 .. k - 1 |-> f[j]]]
<1> DEFINE T == Seq(S)
           start == <<>>
           below == [k \in 1 .. N |-> k - 1]
           grown(k, s) == IF Len(s) = k - 1 THEN Append(s, step[k][s]) ELSE <<>>
           more == [p \in (1 .. N) \X T |-> grown(p[1], p[2])]
<1>1. start \in T /\ PointsDown(below, N)
  BY DEF PointsDown
<1>2. ASSUME NEW k \in 1 .. N, NEW s \in T, Len(s) = k - 1
      PROVE  s \in [1 .. k - 1 -> S] /\ step[k][s] \in S
  <2>1. s \in [1 .. k - 1 -> S]
    BY <1>2
  <2> QED BY <2>1 DEF StepsOnAll
<1>3. IsStep(more, N, T)
  <2>1. \A k \in 1 .. N : \A s \in T : grown(k, s) \in T
    BY <1>2
  <2> HIDE DEF grown, T
  <2> QED BY <2>1 DEF IsStep
<1>4. PICK h \in [0 .. N -> T] : FollowsSteps(h, N, start, below, more)
  <2> HIDE DEF T, start, below, more
  <2> QED BY <1>1, <1>3, RecursionBelow
<1>5. h[0] = <<>> /\ \A k \in 1 .. N : h[k - 1] \in T /\ h[k] = grown(k, h[k - 1])
  <2> HIDE DEF T, grown
  <2>1. ASSUME NEW k \in 1 .. N PROVE h[k - 1] \in T /\ h[k] = grown(k, h[k - 1])
    <3>1. below[k] = k - 1 /\ k - 1 \in 0 .. N /\ h[k - 1] \in T
      OBVIOUS
    <3>2. h[k] = more[<<k, h[k - 1]>>]
      BY <1>4, <3>1 DEF FollowsSteps
    <3>3. <<k, h[k - 1]>> \in (1 .. N) \X T
      BY <3>1
    <3> QED BY <3>1, <3>2, <3>3
  <2> QED BY <1>4, <2>1 DEF FollowsSteps
<1> DEFINE f == [k \in 1 .. N |-> h[k][k]]
           G == {n \in 0 .. N : h[n] = [j \in 1 .. n |-> f[j]] /\ Len(h[n]) = n}
<1>6. 0 \in G
  <2>1. h[0] = [j \in 1 .. 0 |-> f[j]] /\ Len(h[0]) = 0
    <3>1. <<>> = [j \in 1 .. 0 |-> f[j]]
      OBVIOUS
    <3> QED BY <1>5, <3>1
  <2> QED BY <2>1
<1>7. ASSUME NEW n \in 0 .. N - 1, n \in G PROVE n + 1 \in G
  <2> DEFINE m == n + 1
             e == step[m][h[n]]
  <2>1. m \in 1 .. N /\ m - 1 = n /\ m \in 0 .. N
    OBVIOUS
  <2>2. h[n] \in T /\ Len(h[n]) = n /\ h[m] = Append(h[n], e) /\ e \in S
    <3>1. h[n] \in T /\ Len(h[n]) = n /\ h[m] = grown(m, h[n])
      BY <1>5, <1>7, <2>1
    <3> HIDE DEF T, m
    <3> QED BY <1>2, <2>1, <3>1
  <2> HIDE DEF e
  <2>3. Len(h[m]) = m /\ DOMAIN h[m] = 1 .. m /\ h[m][m] = e /\ \A j \in 1 .. n : h[m][j] = h[n][j]
    BY <2>2
  <2>4. \A j \in 1 .. n : h[n][j] = f[j]
    <3> HIDE DEF f
    <3> QED BY <1>7
  <2>5. f[m] = h[m][m]
    BY <2>1
  <2>6. \A j \in 1 .. m : h[m][j] = f[j]
    <3>1. \A j \in 1 .. m : j \in 1 .. n \/ j = m
      OBVIOUS
    <3> HIDE DEF f, m
    <3> QED BY <2>3, <2>4, <2>5, <3>1
  <2>7. h[m] = [j \in 1 .. m |-> f[j]]
    <3>1. h[m] \in T
      BY <2>2
    <3>2. h[m] = [j \in 1 .. Len(h[m]) |-> h[m][j]]
      <4> HIDE DEF m
      <4> QED BY <3>1, SeqIsItsValues
    <3> HIDE DEF f, m
    <3> QED BY <2>3, <2>6, <3>2
  <2> QED BY <2>1, <2>3, <2>7
<1>8. \A n \in 0 .. N : n \in G
  <2>1. 0 .. N \subseteq G
    <3> HIDE DEF G
    <3> QED BY <1>6, <1>7, InductionUpTo
  <2> QED BY <2>1
<1>9. ASSUME NEW k \in 1 .. N PROVE f[k] \in S /\ f[k] = step[k][[j \in 1 .. k - 1 |-> f[j]]]
  <2>1. k - 1 \in 0 .. N
    OBVIOUS
  <2>2. h[k - 1] = [j \in 1 .. k - 1 |-> f[j]] /\ Len(h[k - 1]) = k - 1
    <3> HIDE DEF f
    <3> QED BY <1>8, <2>1
  <2>3. h[k] = Append(h[k - 1], step[k][h[k - 1]]) /\ step[k][h[k - 1]] \in S
    <3>1. h[k - 1] \in T /\ h[k] = grown(k, h[k - 1])
      BY <1>5
    <3> QED BY <1>2, <2>2, <3>1
  <2>4. h[k][k] = step[k][h[k - 1]]
    <3>1. h[k - 1] \in T
      BY <1>5
    <3> HIDE DEF f
    <3> QED BY <2>2, <2>3, <3>1
  <2>5. f[k] = h[k][k]
    OBVIOUS
  <2> HIDE DEF f
  <2> QED BY <2>2, <2>3, <2>4, <2>5
<1>10. f \in [1 .. N -> S]
  BY <1>9
<1> HIDE DEF f
<1> QED BY <1>9, <1>10

\* Sequences are concatenated one after the other.
LEMMA Flattened ==
  ASSUME NEW S, NEW ss \in Seq(Seq(S))
  PROVE  \E flat \in [0 .. Len(ss) -> Seq(S)] :
           /\ flat[0] = <<>> /\ \A k \in 1 .. Len(ss) : flat[k] = flat[k - 1] \o ss[k]
           /\ FlattenSeq(ss) = flat[Len(ss)]
<1> DEFINE N == Len(ss)
           T == Seq(S)
           start == <<>>
           below == [k \in 1 .. N |-> k - 1]
           step == [p \in (1 .. N) \X T |-> p[2] \o ss[p[1]]]
           body(g) == [k \in 1 .. N |-> IF k = 1 THEN ss[k] ELSE g[k - 1] \o ss[k]]
<1>1. N \in Nat /\ start \in T /\ \A k \in 1 .. N : ss[k] \in T
  OBVIOUS
<1>2. PointsDown(below, N)
  BY <1>1 DEF PointsDown
<1>3. IsStep(step, N, T)
  <2>1. \A k \in 1 .. N : \A s \in T : s \o ss[k] \in T
    BY <1>1
  <2> HIDE DEF T
  <2> QED BY <2>1 DEF IsStep
<1>4. PICK flat \in [0 .. N -> T] : FollowsSteps(flat, N, start, below, step)
  <2> HIDE DEF N, T, start, below, step
  <2> QED BY <1>1, <1>2, <1>3, RecursionBelow
<1>5. flat[0] = <<>> /\ \A k \in 1 .. N : flat[k] = flat[k - 1] \o ss[k]
  <2>1. ASSUME NEW k \in 1 .. N PROVE flat[k] = flat[k - 1] \o ss[k]
    <3>1. below[k] = k - 1 /\ k - 1 \in 0 .. N
      <4> HIDE DEF N
      <4> QED BY <1>1
    <3>2. flat[k] = step[<<k, flat[k - 1]>>]
      <4> HIDE DEF N, T, step, below
      <4> QED BY <1>4, <3>1 DEF FollowsSteps
    <3>3. <<k, flat[k - 1]>> \in (1 .. N) \X T
      <4> HIDE DEF N, T
      <4> QED BY <3>1
    <3> HIDE DEF N, T
    <3> QED BY <3>2, <3>3
  <2>2. flat[0] = <<>>
    <3> HIDE DEF N, T, step, below
    <3> QED BY <1>4 DEF FollowsSteps
  <2> HIDE DEF N, T
  <2> QED BY <2>1, <2>2
<1>6. CASE N = 0
  <2>1. FlattenSeq(ss) = ss /\ ss = <<>>
    BY <1>6 DEF FlattenSeq
  <2> QED BY <1>5, <1>6, <2>1
<1>7. CASE N # 0
  <2> DEFINE f == [k \in 1 .. N |-> flat[k]]
             flatten == CHOOSE g : g = body(g)
  <2>1. f = body(f)
    <3>1. \A k \in 1 .. N : k # 1 => k - 1 \in 1 .. N
      BY <1>1
    <3>2. flat[1] = ss[1]
      <4>1. 1 \in 1 .. N /\ 1 - 1 = 0
        BY <1>1, <1>7
      <4>2. flat[1] = <<>> \o ss[1] /\ ss[1] \in T
        BY <1>1, <1>5, <4>1
      <4> QED BY <4>2
    <3>3. \A k \in 1 .. N : f[k] = body(f)[k]
      BY <1>5, <3>1, <3>2
    <3> QED BY <3>3
  <2>2. flatten = body(flatten)
    <3> HIDE DEF body, f
    <3> QED BY <2>1
  <2>3. FlattenSeq(ss) = flatten[N]
    BY <1>7 DEF FlattenSeq
  <2> HIDE DEF flatten, f
  <2>4. /\ flatten[1] = ss[1]
        /\ \A k \in 1 .. N : k # 1 => flatten[k] = flatten[k - 1] \o ss[k]
    <3>1. 1 \in 1 .. N
      BY <1>1, <1>7
    <3>2. \A k \in 1 .. N : flatten[k] = IF k = 1 THEN ss[k] ELSE flatten[k - 1] \o ss[k]
      <4> HIDE DEF N
      <4> QED BY <2>2
    <3> HIDE DEF N, body
    <3> QED BY <3>1, <3>2
  <2> HIDE DEF N, body, T
  <2> DEFINE G == {n \in 0 .. N : n # 0 => flatten[n] = flat[n]}
  <2>5. 0 \in G
    BY <1>1
  <2>6. ASSUME NEW n \in 0 .. N - 1, n \in G PROVE n + 1 \in G
    <3>1. n + 1 \in 1 .. N /\ n + 1 \in 0 .. N /\ (n + 1) - 1 = n
      BY <1>1
    <3>2. CASE n = 0
      <4>1. 1 \in 1 .. N /\ 1 - 1 = 0 /\ n + 1 = 1
        BY <3>1, <3>2
      <4>2. flat[1] = ss[1]
        <5>1. flat[1] = <<>> \o ss[1] /\ ss[1] \in T
          BY <1>1, <1>5, <4>1
        <5> QED BY <5>1 DEF T
      <4> QED BY <2>4, <3>1, <4>1, <4>2
    <3>3. CASE n # 0
      <4>1. flatten[n + 1] = flatten[n] \o ss[n + 1] /\ flat[n + 1] = flat[n] \o ss[n + 1]
        <5>1. n + 1 # 1
          BY <3>3
        <5>2. flatten[n + 1] = flatten[(n + 1) - 1] \o ss[n + 1]
          BY <2>4, <3>1, <5>1
        <5>3. flat[n + 1] = flat[(n + 1) - 1] \o ss[n + 1]
          BY <1>5, <3>1
        <5> QED BY <3>1, <5>2, <5>3
      <4>2. flatten[n] = flat[n]
        BY <2>6, <3>3
      <4> QED BY <3>1, <4>1, <4>2
    <3> QED BY <3>2, <3>3
  <2>7. flatten[N] = flat[N]
    <3>1. 0 .. N \subseteq G
      <4> HIDE DEF G, N
      <4> QED BY <1>1, <2>5, <2>6, InductionUpTo
    <3>2. N \in 0 .. N
      BY <1>1
    <3> QED BY <1>7, <3>1, <3>2
  <2> QED BY <1>5, <2>3, <2>7 DEF N, T
<1> QED BY <1>6, <1>7

\* What is in a sequence with one element before it.
LEMMA ToSetOfFirst ==
  ASSUME NEW S, NEW x \in S, NEW s \in Seq(S)
  PROVE  ToSet(<<x>> \o s) = {x} \cup ToSet(s) /\ <<x>> \o s \in Seq(S)
<1> DEFINE t == <<x>> \o s
<1>1. t \in Seq(S) /\ Len(t) = Len(s) + 1 /\ Len(s) \in Nat
  OBVIOUS
<1>2. t[1] = x /\ \A k \in 1 .. Len(s) : t[k + 1] = s[k]
  OBVIOUS
<1> HIDE DEF t
<1>3. \A k \in 1 .. Len(t) : k = 1 \/ (k - 1 \in 1 .. Len(s) /\ (k - 1) + 1 = k)
  BY <1>1
<1>4. 1 \in 1 .. Len(t) /\ \A k \in 1 .. Len(s) : k + 1 \in 1 .. Len(t)
  BY <1>1
<1>5. ToSet(t) = {t[k] : k \in 1 .. Len(t)} /\ ToSet(s) = {s[k] : k \in 1 .. Len(s)}
  <2>1. ToSet(t) = {t[k] : k \in 1 .. Len(t)}
    BY <1>1, SeqOfItsOwn, SMTT(30)
  <2>2. ToSet(s) = {s[k] : k \in 1 .. Len(s)}
    BY SeqOfItsOwn, SMTT(30)
  <2> QED BY <2>1, <2>2
<1>6. ToSet(t) \subseteq {x} \cup ToSet(s)
  <2>1. ASSUME NEW k \in 1 .. Len(t) PROVE t[k] \in {x} \cup ToSet(s)
    <3>1. k = 1 \/ (k - 1 \in 1 .. Len(s) /\ t[k] = s[k - 1])
      BY <1>2, <1>3
    <3> QED BY <1>2, <1>5, <3>1
  <2> QED BY <1>5, <2>1
<1>7. {x} \cup ToSet(s) \subseteq ToSet(t)
  <2>1. x \in ToSet(t)
    BY <1>2, <1>4, <1>5
  <2>2. \A k \in 1 .. Len(s) : s[k] \in ToSet(t)
    BY <1>2, <1>4, <1>5
  <2> QED BY <1>5, <2>1, <2>2
<1> QED BY <1>1, <1>6, <1>7 DEF t

\* The beginning of a sequence, up to a limit if there is one.
IsBeginning(first, s, limit) ==
  \E l \in 0 .. Len(s) : /\ Len(first) = l /\ DOMAIN first = 1 .. l
                         /\ \A k \in 1 .. l : first[k] = s[k]
                         /\ first = [k \in 1 .. l |-> first[k]]
                         /\ l = Len(s) \/ limit = {l}
                         /\ l = Min({Len(s)} \cup limit)

LEMMA BeginningIs ==
  ASSUME NEW S, NEW s \in Seq(S), NEW limit, limit \in SUBSET Nat, \A a, b \in limit : a = b,
         NEW first, first = SubSeq(s, 1, Min({Len(s)} \cup limit))
  PROVE  IsBeginning(first, s, limit)
<1> DEFINE l == Min({Len(s)} \cup limit)
<1>1. Len(s) \in Nat
  OBVIOUS
<1>2. l \in {Len(s)} \cup limit /\ \A k \in {Len(s)} \cup limit : l <= k
  <2> DEFINE A == {Len(s)} \cup limit
  <2>1. A \in SUBSET Nat /\ A # {}
    BY <1>1
  <2> HIDE DEF A
  <2>2. \E m \in A : \A k \in A : m <= k
    BY <2>1, LeastNat
  <2>3. Min(A) \in A /\ \A k \in A : Min(A) <= k
    BY <2>2 DEF Min
  <2> QED BY <2>3 DEF A
<1>3. l = Min({Len(s)} \cup limit)
  OBVIOUS
<1> HIDE DEF l
<1>4. l \in 0 .. Len(s) /\ (l = Len(s) \/ limit = {l})
  <2>1. l \in Nat /\ l <= Len(s)
    BY <1>1, <1>2
  <2>2. l = Len(s) \/ l \in limit
    BY <1>2
  <2>3. l \in limit => limit = {l}
    OBVIOUS
  <2> QED BY <1>1, <2>1, <2>2, <2>3
<1>5. Len(SubSeq(s, 1, l)) = l /\ \A k \in 1 .. l : SubSeq(s, 1, l)[k] = s[k]
  BY <1>1, <1>4
<1>6. DOMAIN SubSeq(s, 1, l) = 1 .. l /\ SubSeq(s, 1, l) = [k \in 1 .. l |-> SubSeq(s, 1, l)[k]]
  BY <1>1, <1>4
<1>7. first = SubSeq(s, 1, l)
  BY DEF l
<1> QED BY <1>3, <1>4, <1>5, <1>6, <1>7 DEF IsBeginning

\* before[n] are the elements of S that come before n, in an order of all of them.
Orders(before, S) ==
  /\ before \in [S -> SUBSET S]
  /\ \A n \in S : n \notin before[n]
  /\ \A m, n \in S : m \in before[n] => before[m] \subseteq before[n]
  /\ \A m, n \in S : m = n \/ m \in before[n] \/ n \in before[m]

\* The place of an element, the number of those before it, is its own, and every place
\* is taken.
LEMMA PlacesAre ==
  ASSUME NEW S, IsFiniteSet(S), NEW before, Orders(before, S)
  PROVE  /\ Cardinality(S) \in Nat
         /\ \A n \in S : Cardinality(before[n]) \in 0 .. Cardinality(S) - 1
         /\ \A m, n \in S : m \in before[n] <=> Cardinality(before[m]) < Cardinality(before[n])
         /\ \A m, n \in S : Cardinality(before[m]) = Cardinality(before[n]) => m = n
         /\ \A k \in 1 .. Cardinality(S) : \E n \in S : Cardinality(before[n]) = k - 1
<1> DEFINE N == Cardinality(S)
           place == [n \in S |-> Cardinality(before[n])]
<1>1. N \in Nat
  BY FS_CardinalityType
<1>2. ASSUME NEW n \in S PROVE IsFiniteSet(before[n]) /\ Cardinality(before[n]) \in 0 .. N - 1
  <2>1. before[n] \subseteq S /\ n \notin before[n]
    BY DEF Orders
  <2>2. IsFiniteSet(before[n]) /\ Cardinality(before[n]) <= N /\ (N = Cardinality(before[n]) => S = before[n])
    BY <2>1, FS_Subset
  <2>3. Cardinality(before[n]) \in Nat
    BY <2>2, FS_CardinalityType
  <2> QED BY <1>1, <2>1, <2>2, <2>3
<1>3. ASSUME NEW m \in S, NEW n \in S, m \in before[n]
      PROVE  Cardinality(before[m]) < Cardinality(before[n])
  <2>1. before[m] \subseteq before[n] /\ m \notin before[m]
    BY <1>3 DEF Orders
  <2>2. /\ Cardinality(before[m]) <= Cardinality(before[n])
        /\ Cardinality(before[n]) = Cardinality(before[m]) => before[n] = before[m]
    BY <1>2, <2>1, FS_Subset
  <2>3. Cardinality(before[m]) # Cardinality(before[n])
    BY <1>3, <2>1, <2>2
  <2>4. Cardinality(before[m]) \in Int /\ Cardinality(before[n]) \in Int
    BY <1>1, <1>2
  <2> QED BY <2>2, <2>3, <2>4
<1>4. \A m, n \in S : Cardinality(before[m]) \in Int
  BY <1>1, <1>2
<1>5. ASSUME NEW m \in S, NEW n \in S, Cardinality(before[m]) < Cardinality(before[n])
      PROVE  m \in before[n]
  <2>1. m # n
    BY <1>4, <1>5
  <2>2. n \notin before[m]
    BY <1>3, <1>4, <1>5
  <2> QED BY <2>1, <2>2 DEF Orders
<1>6. ASSUME NEW m \in S, NEW n \in S, Cardinality(before[m]) = Cardinality(before[n])
      PROVE  m = n
  <2>1. m \notin before[n] /\ n \notin before[m]
    BY <1>3, <1>4, <1>6
  <2> QED BY <2>1 DEF Orders
<1>7. place \in Injection(S, 0 .. N - 1)
  <2>1. place \in [S -> 0 .. N - 1]
    BY <1>2
  <2> QED BY <1>6, <2>1 DEF Injection, IsInjective
<1>8. IsFiniteSet(0 .. N - 1) /\ Cardinality(0 .. N - 1) = N
  <2>1. 0 \in Int /\ N - 1 \in Int
    BY <1>1
  <2>2. IsFiniteSet(0 .. N - 1) /\ Cardinality(0 .. N - 1) = IF 0 > N - 1 THEN 0 ELSE ((N - 1) - 0) + 1
    BY <2>1, FS_Interval
  <2> QED BY <1>1, <2>2
<1>9. place \in Surjection(S, 0 .. N - 1)
  <2> HIDE DEF place
  <2> QED BY <1>7, <1>8, FS_Injection
<1>10. ASSUME NEW k \in 1 .. N PROVE \E n \in S : Cardinality(before[n]) = k - 1
  <2>1. k - 1 \in 0 .. N - 1
    BY <1>1
  <2>2. PICK n \in S : place[n] = k - 1
    BY <1>9, <2>1 DEF Surjection
  <2> QED BY <2>2
<1> QED BY <1>1, <1>2, <1>3, <1>5, <1>6, <1>10

\* s has the elements of S by their places.
ByPlaces(s, S, place) == s = [k \in 1 .. Cardinality(S) |-> CHOOSE n \in S : place[n] = k - 1]

\* The elements by their places are sorted.
LEMMA ByTheirPlaces ==
  ASSUME NEW S, IsFiniteSet(S), NEW before, Orders(before, S),
         NEW place, \A n \in S : place[n] = Cardinality(before[n]),
         NEW s, ByPlaces(s, S, place)
  PROVE  /\ s \in Seq(S) /\ Len(s) = Cardinality(S) /\ Cardinality(S) \in Nat
         /\ \A n \in S : \E k \in 1 .. Len(s) : s[k] = n
         /\ \A j, k \in 1 .. Len(s) : j < k => s[j] \in before[s[k]]
<1> DEFINE N == Cardinality(S)
           at(n) == Cardinality(before[n])
<1>1. /\ N \in Nat
      /\ \A n \in S : at(n) \in 0 .. N - 1
      /\ \A m, n \in S : m \in before[n] <=> at(m) < at(n)
      /\ \A m, n \in S : at(m) = at(n) => m = n
      /\ \A k \in 1 .. N : \E n \in S : at(n) = k - 1
  BY PlacesAre
<1> HIDE DEF at
<1>2. ASSUME NEW k \in 1 .. N PROVE s[k] \in S /\ at(s[k]) = k - 1
  <2>1. s[k] = CHOOSE n \in S : place[n] = k - 1
    BY DEF ByPlaces
  <2>2. \E n \in S : place[n] = k - 1
    BY <1>1 DEF at
  <2>3. s[k] \in S /\ place[s[k]] = k - 1
    BY <2>1, <2>2
  <2> QED BY <2>3 DEF at
<1>3. s \in Seq(S) /\ Len(s) = N
  <2>1. \A k \in 1 .. N : s[k] \in S
    BY <1>2
  <2> DEFINE f == [k \in 1 .. N |-> s[k]]
  <2>2. s = f
    BY DEF ByPlaces
  <2>3. f \in Seq(S) /\ Len(f) = N
    <3> HIDE DEF N
    <3> QED BY <1>1, <2>1, ValuesAreASeq
  <2> HIDE DEF f, N
  <2> QED BY <2>2, <2>3
<1> HIDE DEF N
<1>4. ASSUME NEW n \in S PROVE \E k \in 1 .. N : s[k] = n
  <2> DEFINE k == at(n) + 1
  <2>1. k \in 1 .. N /\ at(n) = k - 1
    BY <1>1
  <2> HIDE DEF k
  <2>2. s[k] \in S /\ at(s[k]) = at(n)
    BY <1>2, <2>1
  <2> QED BY <1>1, <2>1, <2>2
<1>5. ASSUME NEW j \in 1 .. N, NEW k \in 1 .. N, j < k PROVE s[j] \in before[s[k]]
  <2>1. s[j] \in S /\ s[k] \in S /\ at(s[j]) = j - 1 /\ at(s[k]) = k - 1
    BY <1>2
  <2>2. j - 1 < k - 1
    BY <1>1, <1>5
  <2> QED BY <1>1, <2>1, <2>2
<1> QED BY <1>1, <1>3, <1>4, <1>5 DEF N
----------------------------------------------------------------------------
\* A function of the members of a set that have a depth may be defined by its values
\* for those that are less deep.
OfLessDeep(step, X, V, depth) ==
  \A e \in X : \A f \in [X -> V] :
    /\ step[e][f] \in V
    /\ \A g \in [X -> V] : (\A p \in X : depth[p] < depth[e] => f[p] = g[p]) => step[e][f] = step[e][g]

FitsBelow(f, n, step, X, depth) == \A e \in X : depth[e] < n => f[e] = step[e][f]

LEMMA DepthInduction ==
  ASSUME NEW X, NEW depth \in [X -> Nat], NEW G,
         \A e \in X : (\A p \in X : depth[p] < depth[e] => p \in G) => e \in G
  PROVE  X \subseteq G
<1> DEFINE bad == {d \in Nat : \E e \in X : depth[e] = d /\ e \notin G}
<1>0. \A e \in X : depth[e] \in Nat
  OBVIOUS
<1>1. SUFFICES ASSUME bad # {} PROVE FALSE
  BY <1>0
<1>2. bad \in SUBSET Nat
  OBVIOUS
<1>3. PICK d \in bad : \A c \in bad : d <= c
  BY <1>1, <1>2, LeastNat
<1>4. PICK e \in X : depth[e] = d /\ e \notin G
  BY <1>3
<1>5. ASSUME NEW p \in X, depth[p] < depth[e] PROVE p \in G
  <2>1. ~(d <= depth[p])
    BY <1>0, <1>4, <1>5
  <2> QED BY <1>0, <1>3, <2>1
<1> QED BY <1>4, <1>5

LEMMA FitsAlike ==
  ASSUME NEW X, NEW V, NEW depth \in [X -> Nat], NEW step, OfLessDeep(step, X, V, depth),
         NEW f \in [X -> V], NEW m \in Nat, FitsBelow(f, m, step, X, depth),
         NEW g \in [X -> V], NEW n \in Nat, FitsBelow(g, n, step, X, depth)
  PROVE  \A e \in X : depth[e] < m /\ depth[e] < n => f[e] = g[e]
<1> DEFINE bad == {d \in Nat : \E e \in X : depth[e] = d /\ d < m /\ d < n /\ f[e] # g[e]}
<1>1. SUFFICES ASSUME bad # {} PROVE FALSE
  <2>1. \A e \in X : depth[e] \in Nat
    OBVIOUS
  <2>2. \A e \in X : depth[e] < m /\ depth[e] < n /\ f[e] # g[e] => depth[e] \in bad
    BY <2>1
  <2> HIDE DEF bad
  <2> QED BY <2>2
<1>2. bad \in SUBSET Nat
  OBVIOUS
<1>3. PICK d \in bad : \A c \in bad : d <= c
  BY <1>1, <1>2, LeastNat
<1>4. PICK e \in X : depth[e] = d /\ d < m /\ d < n /\ f[e] # g[e]
  BY <1>3
<1>5. ASSUME NEW p \in X, depth[p] < depth[e] PROVE f[p] = g[p]
  <2>1. depth[p] \in Nat /\ d \in Nat
    BY <1>3
  <2>2. depth[p] < m /\ depth[p] < n /\ ~(d <= depth[p])
    BY <1>4, <1>5, <2>1
  <2>3. depth[p] \notin bad
    BY <1>3, <2>2
  <2> QED BY <2>1, <2>2, <2>3
<1>6. step[e][f] = step[e][g]
  BY <1>5, Zenon DEF OfLessDeep
<1>7. f[e] = step[e][f] /\ g[e] = step[e][g]
  BY <1>4, Zenon DEF FitsBelow
<1> QED BY <1>4, <1>6, <1>7

LEMMA FitsToAny ==
  ASSUME NEW X, NEW V, V # {}, NEW depth \in [X -> Nat], NEW step, OfLessDeep(step, X, V, depth), NEW n \in Nat
  PROVE  \E f \in [X -> V] : FitsBelow(f, n, step, X, depth)
<1> DEFINE G == {m \in 0 .. n : \E f \in [X -> V] : FitsBelow(f, m, step, X, depth)}
<1>1. 0 \in G
  <2>1. PICK v \in V : TRUE
    OBVIOUS
  <2>2. [e \in X |-> v] \in [X -> V]
    OBVIOUS
  <2>3. \A e \in X : ~(depth[e] < 0)
    OBVIOUS
  <2>4. FitsBelow([e \in X |-> v], 0, step, X, depth)
    BY <2>3 DEF FitsBelow
  <2> QED BY <2>2, <2>4
<1>2. ASSUME NEW m \in 0 .. n - 1, m \in G PROVE m + 1 \in G
  <2>1. PICK f \in [X -> V] : FitsBelow(f, m, step, X, depth)
    BY <1>2
  <2> DEFINE g == [e \in X |-> step[e][f]]
  <2>2. g \in [X -> V]
    BY DEF OfLessDeep
  <2>3. ASSUME NEW e \in X, depth[e] < m + 1 PROVE g[e] = step[e][g]
    <3>1. ASSUME NEW p \in X, depth[p] < depth[e] PROVE f[p] = g[p]
      <4>1. depth[p] \in Nat /\ depth[e] \in Nat
        OBVIOUS
      <4>2. depth[p] < m
        BY <2>3, <3>1, <4>1
      <4>3. f[p] = step[p][f]
        BY <2>1, <4>2, Zenon DEF FitsBelow
      <4> QED BY <4>3
    <3>2. g[e] = step[e][f]
      OBVIOUS
    <3> HIDE DEF g
    <3>3. step[e][f] = step[e][g]
      BY <2>2, <3>1, Zenon DEF OfLessDeep
    <3> QED BY <3>2, <3>3
  <2> HIDE DEF g
  <2>4. FitsBelow(g, m + 1, step, X, depth)
    BY <2>3 DEF FitsBelow
  <2>5. m + 1 \in 0 .. n
    OBVIOUS
  <2> QED BY <2>2, <2>4, <2>5
<1> HIDE DEF G
<1>3. 0 .. n \subseteq G
  BY <1>1, <1>2, InductionUpTo
<1>4. n \in G
  BY <1>3
<1> QED BY <1>4 DEF G

LEMMA RecursionOnDepth ==
  ASSUME NEW X, NEW V, V # {}, NEW depth \in [X -> Nat], NEW step, OfLessDeep(step, X, V, depth)
  PROVE  \E f \in [X -> V] : \A e \in X : f[e] = step[e][f]
<1> DEFINE F(n) == CHOOSE f \in [X -> V] : FitsBelow(f, n, step, X, depth)
           h == [e \in X |-> F(depth[e] + 1)[e]]
<1>1. \A n \in Nat : F(n) \in [X -> V] /\ FitsBelow(F(n), n, step, X, depth)
  BY FitsToAny
<1>2. \A e \in X : depth[e] \in Nat /\ depth[e] + 1 \in Nat
  OBVIOUS
<1>3. \A e \in X : h[e] = F(depth[e] + 1)[e]
  OBVIOUS
<1>4. h \in [X -> V]
  <2> HIDE DEF F
  <2> QED BY <1>1, <1>2
<1> HIDE DEF F, h
<1>5. ASSUME NEW e \in X PROVE h[e] = step[e][h]
  <2> DEFINE f == F(depth[e] + 1)
  <2>1. f \in [X -> V] /\ FitsBelow(f, depth[e] + 1, step, X, depth)
    BY <1>1, <1>2
  <2>2. ASSUME NEW p \in X, depth[p] < depth[e] PROVE f[p] = h[p]
    <3> DEFINE g == F(depth[p] + 1)
    <3>1. g \in [X -> V] /\ FitsBelow(g, depth[p] + 1, step, X, depth)
      BY <1>1, <1>2
    <3>2. depth[p] < depth[e] + 1 /\ depth[p] < depth[p] + 1
      BY <1>2, <2>2
    <3>3. h[p] = g[p]
      BY <1>3
    <3> HIDE DEF f, g
    <3>4. f[p] = g[p]
      BY <1>2, <2>1, <3>1, <3>2, FitsAlike
    <3> QED BY <3>3, <3>4
  <2>3. h[e] = f[e] /\ depth[e] < depth[e] + 1
    BY <1>2, <1>3
  <2> HIDE DEF f
  <2>4. f[e] = step[e][f]
    BY <2>1, <2>3, Zenon DEF FitsBelow
  <2>5. step[e][f] = step[e][h]
    BY <1>4, <2>1, <2>2, Zenon DEF OfLessDeep
  <2> QED BY <2>3, <2>4, <2>5
<1> QED BY <1>4, <1>5
=============================================================================
