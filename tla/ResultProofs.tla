----------------------------- MODULE ResultProofs -----------------------------
(***************************************************************************)
(* Proofs about results: the names of columns, and the reply.              *)
(***************************************************************************)
EXTENDS ResultProperties, DataLemmas

\* A function of the numbers up to N that is defined step by step exists.
LEMMA StepByStep ==
  ASSUME NEW N \in Nat, NEW T, NEW start \in T, NEW step, IsStep(step, N, T)
  PROVE  \E f \in [0 .. N -> T] :
           f[0] = start /\ \A k \in 1 .. N : f[k] = step[<<k, f[k - 1]>>] /\ f[k - 1] \in T
<1> DEFINE previous == [k \in 1 .. N |-> k - 1]
<1>1. PointsDown(previous, N)
  BY DEF PointsDown
<1>2. \A k \in 1 .. N : previous[k] = k - 1 /\ k - 1 \in 0 .. N
  OBVIOUS
<1> HIDE DEF previous
<1>3. PICK f \in [0 .. N -> T] : FollowsSteps(f, N, start, previous, step)
  BY <1>1, RecursionBelow
<1> QED BY <1>2, <1>3 DEF FollowsSteps

\* The least and the greatest of some numbers.
LEMMA MinOfSome ==
  ASSUME NEW S \in SUBSET Nat, S # {}
  PROVE  Min(S) \in S /\ \A x \in S : Min(S) <= x
<1>1. \E m \in S : \A n \in S : m <= n
  BY LeastNat
<1> QED BY <1>1 DEF Min
----------------------------------------------------------------------------
(* Names. *)

\* s is what f gives for the first Len(s) numbers from d + 1 on.
IsPart(s, f, d) == \A k \in 1 .. Len(s) : s[k] = f[k + d]

LEMMA UpToIs ==
  ASSUME NEW S, NEW s \in Seq(S), NEW X
  PROVE  /\ UpTo(s, X) \in Seq(S) /\ Len(UpTo(s, X)) <= Len(s)
         /\ \A k \in 1 .. Len(UpTo(s, X)) : UpTo(s, X)[k] = s[k]
         /\ UpTo(s, X) # <<>> => UpTo(s, X)[Len(UpTo(s, X))] \notin X
         /\ \A k \in 1 .. Len(s) : k > Len(UpTo(s, X)) => s[k] \in X
<1> DEFINE A == Solid(s, X)
<1>1. A \in SUBSET (1 .. Len(s)) /\ Len(s) \in Nat /\ \A k \in 1 .. Len(s) : k \in A <=> s[k] \notin X
  BY DEF Solid
<1>2. CASE A = {}
  <2>1. UpTo(s, X) = <<>>
    BY <1>2 DEF UpTo
  <2> QED BY <1>1, <1>2, <2>1
<1>3. CASE A # {}
  <2>1. Max(A) \in A /\ \A x \in A : x <= Max(A)
    <3>1. A \in SUBSET (1 .. Len(s)) /\ 1 \in Int /\ Len(s) \in Int
      BY <1>1
    <3> HIDE DEF A
    <3> QED BY <3>1, <1>3, MaxOfSome
  <2>2. UpTo(s, X) = SubSeq(s, 1, Max(A))
    BY <1>3 DEF UpTo
  <2> DEFINE m == Max(A)
  <2>3. m \in 1 .. Len(s) /\ m \in A /\ \A x \in A : x <= m
    BY <1>1, <2>1
  <2> HIDE DEF m, A
  <2>4. /\ SubSeq(s, 1, m) \in Seq(S) /\ Len(SubSeq(s, 1, m)) = m
        /\ \A k \in 1 .. m : SubSeq(s, 1, m)[k] = s[k]
    BY <1>1, <2>3
  <2>5. \A k \in 1 .. Len(s) : k > m => k \notin A
    BY <1>1, <2>3
  <2>6. UpTo(s, X) = SubSeq(s, 1, m)
    BY <2>2 DEF m
  <2> QED BY <1>1, <2>3, <2>4, <2>5, <2>6
<1> QED BY <1>2, <1>3

LEMMA FromIs ==
  ASSUME NEW S, NEW s \in Seq(S), NEW X
  PROVE  \E d \in 0 .. Len(s) :
           /\ From(s, X) \in Seq(S) /\ Len(From(s, X)) = Len(s) - d
           /\ \A k \in 1 .. Len(s) - d : From(s, X)[k] = s[k + d]
           /\ d < Len(s) => s[d + 1] \notin X
           /\ \A k \in 1 .. d : s[k] \in X
<1> DEFINE A == Solid(s, X)
<1>1. A \in SUBSET (1 .. Len(s)) /\ Len(s) \in Nat /\ \A k \in 1 .. Len(s) : k \in A <=> s[k] \notin X
  BY DEF Solid
<1>2. CASE A = {}
  <2>1. From(s, X) = <<>>
    BY <1>2 DEF From
  <2>2. Len(s) \in 0 .. Len(s) /\ Len(s) - Len(s) = 0
    BY <1>1
  <2> QED BY <1>1, <1>2, <2>1, <2>2
<1>3. CASE A # {}
  <2>1. Min(A) \in A /\ \A x \in A : Min(A) <= x
    <3>1. A \in SUBSET Nat
      BY <1>1
    <3> HIDE DEF A
    <3> QED BY <3>1, <1>3, MinOfSome
  <2>2. From(s, X) = SubSeq(s, Min(A), Len(s))
    BY <1>3 DEF From
  <2> DEFINE m == Min(A)
  <2>3. m \in 1 .. Len(s) /\ m \in A /\ \A x \in A : m <= x
    BY <1>1, <2>1
  <2>4. From(s, X) = SubSeq(s, m, Len(s))
    BY <2>2
  <2> HIDE DEF m, A
  <2> DEFINE d == m - 1
  <2>5. d \in 0 .. Len(s) /\ d + 1 = m /\ d < Len(s)
    BY <1>1, <2>3
  <2>6. /\ SubSeq(s, m, Len(s)) \in Seq(S) /\ Len(SubSeq(s, m, Len(s))) = Len(s) - d
        /\ \A k \in 1 .. Len(s) - d : SubSeq(s, m, Len(s))[k] = s[k + d]
    BY <1>1, <2>3
  <2>7. \A k \in 1 .. d : s[k] \in X
    BY <1>1, <2>3
  <2> QED BY <1>1, <2>3, <2>4, <2>5, <2>6, <2>7
<1> QED BY <1>2, <1>3

\* No two underscores stand side by side.
ApartIn(s, u) == \A k \in 1 .. Len(s) - 1 : ~(s[k] = u /\ s[k + 1] = u)

Apart(s) == ApartIn(s, "_")

\* One step of Collapsed.
Collapse(out, c) == IF c = "_" /\ out # <<>> /\ Last(out) = "_" THEN out ELSE Append(out, c)

LEMMA CollapseIs ==
  ASSUME NEW S, NEW out \in Seq(S), NEW c \in S, Apart(out)
  PROVE  Collapse(out, c) \in Seq(S) /\ Apart(Collapse(out, c))
<1>1. CASE c = "_" /\ out # <<>> /\ Last(out) = "_"
  BY <1>1 DEF Collapse
<1>2. CASE ~(c = "_" /\ out # <<>> /\ Last(out) = "_")
  <2>1. Collapse(out, c) = Append(out, c)
    BY <1>2 DEF Collapse
  <2>2. /\ Append(out, c) \in Seq(S) /\ Len(Append(out, c)) = Len(out) + 1 /\ Append(out, c)[Len(out) + 1] = c
        /\ \A k \in 1 .. Len(out) : Append(out, c)[k] = out[k]
        /\ Len(out) \in Nat /\ (out # <<>> <=> Len(out) # 0)
    OBVIOUS
  <2>3. ASSUME NEW k \in 1 .. Len(out)
        PROVE  ~(Append(out, c)[k] = "_" /\ Append(out, c)[k + 1] = "_")
    <3>1. CASE k = Len(out)
      <4>1. Last(out) = out[k] /\ out # <<>>
        BY <3>1, <2>2 DEF Last
      <4> QED BY <1>2, <2>2, <3>1, <4>1
    <3>2. CASE k # Len(out)
      <4>1. k \in 1 .. Len(out) - 1 /\ k + 1 \in 1 .. Len(out)
        BY <2>2, <3>2
      <4> QED BY <2>2, <4>1 DEF Apart, ApartIn
    <3> QED BY <3>1, <3>2
  <2>4. 1 .. Len(Append(out, c)) - 1 = 1 .. Len(out)
    BY <2>2
  <2>5. Apart(Append(out, c))
    BY <2>3, <2>4 DEF Apart, ApartIn
  <2> QED BY <2>1, <2>2, <2>5
<1> QED BY <1>1, <1>2

LEMMA CollapsedIs ==
  ASSUME NEW S, NEW s \in Seq(S)
  PROVE  /\ Collapsed(s) \in Seq(S) /\ Apart(Collapsed(s))
         /\ Apart(s) => Collapsed(s) = s
<1> DEFINE N == Len(s)
           T == Seq(S)
           start == <<>>
           step == [p \in (1 .. N) \X T |-> Collapse(p[2], s[p[1]])]
           body(g) == [k \in 0 .. N |->
                          IF k = 0 THEN <<>>
                          ELSE IF s[k] = "_" /\ g[k - 1] # <<>> /\ Last(g[k - 1]) = "_" THEN g[k - 1]
                          ELSE Append(g[k - 1], s[k])]
           out == CHOOSE g : g = body(g)
<1>1. N \in Nat /\ start \in T /\ \A k \in 1 .. N : s[k] \in S
  OBVIOUS
<1>2. IsStep(step, N, T)
  <2>1. \A c \in S : \A t \in T : Collapse(t, c) \in T
    <3> TAKE c \in S
    <3> TAKE t \in T
    <3>1. Collapse(t, c) \in {t, Append(t, c)}
      BY DEF Collapse
    <3>2. Append(t, c) \in T
      OBVIOUS
    <3> HIDE DEF T
    <3> QED BY <3>1, <3>2
  <2>2. \A k \in 1 .. N : \A t \in T : Collapse(t, s[k]) \in T
    BY <1>1, <2>1
  <2> HIDE DEF T, N
  <2> QED BY <2>2 DEF IsStep
<1>3. PICK f \in [0 .. N -> T] : f[0] = start /\ \A k \in 1 .. N : f[k] = step[<<k, f[k - 1]>>] /\ f[k - 1] \in T
  <2>1. N \in Nat /\ start \in T
    BY <1>1
  <2> HIDE DEF N, T, start, step, body, out
  <2> QED BY <2>1, <1>2, StepByStep, SMTT(30)
<1>4. \A k \in 1 .. N : f[k] = Collapse(f[k - 1], s[k])
  <2>1. \A k \in 1 .. N : <<k, f[k - 1]>> \in (1 .. N) \X T
    BY <1>3
  <2> HIDE DEF N, T
  <2> QED BY <1>3, <2>1
<1>5. f = body(f)
  <2>1. \A k \in 0 .. N : f[k] = body(f)[k]
    <3> TAKE k \in 0 .. N
    <3>1. CASE k = 0
      BY <1>3, <3>1
    <3>2. CASE k # 0
      <4>1. k \in 1 .. N /\ body(f)[k] = Collapse(f[k - 1], s[k])
        <5> HIDE DEF T, N
        <5> QED BY <3>2, <1>1 DEF Collapse
      <4> QED BY <1>4, <4>1
    <3> QED BY <3>1, <3>2
  <2> HIDE DEF T
  <2> QED BY <2>1
<1>6. out = body(out)
  <2> HIDE DEF body
  <2> QED BY <1>5
<1>7. Collapsed(s) = out[N]
  BY DEF Collapsed
<1> HIDE DEF out
<1>8. out[0] = <<>> /\ \A k \in 1 .. N : out[k] = Collapse(out[k - 1], s[k])
  <2>1. 0 \in 0 .. N /\ \A k \in 1 .. N : k \in 0 .. N /\ k # 0
    BY <1>1
  <2>2. \A k \in 0 .. N : out[k] = body(out)[k]
    <3> HIDE DEF body
    <3> QED BY <1>6
  <2>3. \A k \in 0 .. N : k # 0 => body(out)[k] = Collapse(out[k - 1], s[k])
    <3> HIDE DEF N
    <3> QED BY DEF Collapse
  <2>4. body(out)[0] = <<>>
    <3> HIDE DEF N
    <3> QED BY <2>1
  <2> HIDE DEF body
  <2> QED BY <2>1, <2>2, <2>3, <2>4
<1> DEFINE G == {k \in 0 .. N : out[k] \in T /\ Apart(out[k]) /\ (Apart(s) => out[k] = SubSeq(s, 1, k))}
<1>9. 0 \in G
  <2>1. <<>> \in T /\ Apart(<<>>) /\ SubSeq(s, 1, 0) = <<>>
    BY DEF Apart, ApartIn
  <2>2. 0 \in 0 .. N
    BY <1>1
  <2> HIDE DEF T, N
  <2> QED BY <1>8, <2>1, <2>2
<1>10. ASSUME NEW k \in 0 .. N - 1, k \in G PROVE k + 1 \in G
  <2>1. k + 1 \in 1 .. N /\ k + 1 \in 0 .. N /\ (k + 1) - 1 = k /\ k \in Nat
    BY <1>1
  <2>2. out[k + 1] = Collapse(out[k], s[k + 1]) /\ s[k + 1] \in S
    BY <1>1, <1>8, <2>1
  <2>3. out[k] \in Seq(S) /\ Apart(out[k])
    BY <1>10
  <2>4. out[k + 1] \in T /\ Apart(out[k + 1])
    BY <2>2, <2>3, CollapseIs
  <2>5. ASSUME Apart(s) PROVE out[k + 1] = SubSeq(s, 1, k + 1)
    <3>1. out[k] = SubSeq(s, 1, k) /\ Len(SubSeq(s, 1, k)) = k /\ \A j \in 1 .. k : SubSeq(s, 1, k)[j] = s[j]
      BY <1>1, <1>10, <2>1, <2>5
    <3>2. ~(s[k + 1] = "_" /\ out[k] # <<>> /\ Last(out[k]) = "_")
      <4>1. CASE k = 0
        BY <3>1, <4>1
      <4>2. CASE k # 0
        <5>1. Last(out[k]) = s[k] /\ k \in 1 .. Len(s) - 1
          BY <1>1, <2>1, <3>1, <4>2 DEF Last
        <5> QED BY <2>5, <5>1 DEF Apart, ApartIn
      <4> QED BY <4>1, <4>2
    <3>3. out[k + 1] = Append(SubSeq(s, 1, k), s[k + 1])
      BY <2>2, <3>1, <3>2 DEF Collapse
    <3>4. Append(SubSeq(s, 1, k), s[k + 1]) = SubSeq(s, 1, k + 1)
      BY <1>1, <2>1
    <3> QED BY <3>3, <3>4
  <2> QED BY <2>1, <2>4, <2>5
<1>11. N \in G
  <2>1. 0 .. N \subseteq G
    <3>1. N \in Nat
      BY <1>1
    <3> HIDE DEF G, N
    <3> QED BY <3>1, <1>9, <1>10, InductionUpTo
  <2>2. N \in 0 .. N
    BY <1>1
  <2> HIDE DEF G, N
  <2> QED BY <2>1, <2>2
<1>12. SubSeq(s, 1, N) = s
  OBVIOUS
<1> QED BY <1>7, <1>11, <1>12

LEMMA TrimmedIs ==
  ASSUME NEW S, NEW s \in Seq(S), NEW X, NEW t, t = From(UpTo(s, X), X)
  PROVE  /\ t \in Seq(S)
         /\ \E d \in Nat : Len(t) + d <= Len(s) /\ \A k \in 1 .. Len(t) : t[k] = s[k + d]
         /\ t # <<>> => t[1] \notin X /\ t[Len(t)] \notin X
<1> DEFINE u == UpTo(s, X)
<1>1. /\ u \in Seq(S) /\ Len(u) <= Len(s)
      /\ \A k \in 1 .. Len(u) : u[k] = s[k]
      /\ u # <<>> => u[Len(u)] \notin X
  BY UpToIs
<1> HIDE DEF u
<1>2. PICK d \in 0 .. Len(u) :
        /\ From(u, X) \in Seq(S) /\ Len(From(u, X)) = Len(u) - d
        /\ \A k \in 1 .. Len(u) - d : From(u, X)[k] = u[k + d]
        /\ d < Len(u) => u[d + 1] \notin X
  BY <1>1, FromIs
<1>3. /\ t \in Seq(S) /\ Len(t) = Len(u) - d
      /\ \A k \in 1 .. Len(t) : t[k] = u[k + d]
      /\ d < Len(u) => u[d + 1] \notin X
  BY <1>2 DEF u
<1>4. Len(u) \in Nat /\ Len(s) \in Nat /\ Len(t) \in Nat /\ d \in Nat /\ Len(t) + d = Len(u)
  BY <1>1, <1>3
<1>5. \A k \in 1 .. Len(t) : k + d \in 1 .. Len(u)
  BY <1>4
<1>6. ASSUME t # <<>> PROVE t[1] \notin X /\ t[Len(t)] \notin X
  <2>1. Len(t) # 0
    BY <1>3, <1>6
  <2>2. 1 \in 1 .. Len(t) /\ Len(t) \in 1 .. Len(t) /\ d < Len(u) /\ 1 + d = d + 1
    BY <1>4, <2>1
  <2>3. t[1] = u[d + 1] /\ t[Len(t)] = u[Len(u)]
    BY <1>3, <1>4, <2>2
  <2>4. u # <<>>
    BY <1>4, <2>2
  <2> QED BY <1>1, <1>3, <2>2, <2>3, <2>4
<1> QED BY <1>1, <1>3, <1>4, <1>5, <1>6

\* A text with something else at both of its ends stays as it is.
LEMMA NothingToTrim ==
  ASSUME NEW S, NEW s \in Seq(S), NEW X, s # <<>> => s[1] \notin X /\ s[Len(s)] \notin X
  PROVE  From(UpTo(s, X), X) = s
<1> DEFINE u == UpTo(s, X)
<1>1. /\ u \in Seq(S) /\ Len(u) <= Len(s)
      /\ \A k \in 1 .. Len(u) : u[k] = s[k]
      /\ \A k \in 1 .. Len(s) : k > Len(u) => s[k] \in X
  BY UpToIs
<1> HIDE DEF u
<1>2. Len(u) \in Nat /\ Len(s) \in Nat
  BY <1>1
<1>3. Len(u) = Len(s)
  <2>1. CASE Len(s) = 0
    BY <1>1, <1>2, <2>1
  <2>2. CASE Len(s) # 0
    <3>1. s # <<>> /\ Len(s) \in 1 .. Len(s)
      BY <1>2, <2>2
    <3> QED BY <1>1, <1>2, <3>1
  <2> QED BY <2>1, <2>2
<1>4. u = s
  BY <1>1, <1>3
<1>5. PICK d \in 0 .. Len(s) :
        /\ From(s, X) \in Seq(S) /\ Len(From(s, X)) = Len(s) - d
        /\ \A k \in 1 .. Len(s) - d : From(s, X)[k] = s[k + d]
        /\ \A k \in 1 .. d : s[k] \in X
  BY FromIs
<1>6. d = 0
  <2>1. SUFFICES ASSUME d # 0 PROVE FALSE
    OBVIOUS
  <2>2. 1 \in 1 .. d /\ Len(s) # 0
    BY <1>2, <2>1
  <2>3. s # <<>>
    BY <2>2
  <2> QED BY <1>5, <2>2, <2>3
<1>7. From(s, X) = s
  <2>1. Len(From(s, X)) = Len(s) /\ \A k \in 1 .. Len(s) : From(s, X)[k] = s[k]
    BY <1>2, <1>5, <1>6
  <2> QED BY <1>5, <2>1
<1> QED BY <1>4, <1>7 DEF u

\* What is left between the underscores u at the ends.
IsInner(s, S, u) ==
  /\ s \in Seq(S) /\ ApartIn(s, u)
  /\ Len(s) # 0 => s[1] # u /\ s[Len(s)] # u

\* A name that begins with a digit has a letter and an underscore before it.
LEMMA BehindLetter ==
  ASSUME NEW S, NEW u \in S, NEW c \in S, c # u, NEW named, IsInner(named, S, u), Len(named) # 0
  PROVE  LET b == <<c, u>> \o named
         IN  IsInner(b, S, u) /\ Len(b) = Len(named) + 2 /\ b[1] = c
<1> DEFINE b == <<c, u>> \o named
<1>1. named \in Seq(S) /\ Len(named) \in Nat
  BY DEF IsInner
<1>2. /\ b \in Seq(S) /\ Len(b) = Len(named) + 2 /\ b[1] = c /\ b[2] = u
      /\ \A k \in 1 .. Len(named) : b[k + 2] = named[k]
  <2>1. <<c, u>> \in Seq(S)
    OBVIOUS
  <2> QED BY <1>1, <2>1
<1> HIDE DEF b
<1>3. b[Len(b)] = named[Len(named)] /\ b[3] = named[1]
  <2>1. Len(named) \in 1 .. Len(named) /\ 1 \in 1 .. Len(named) /\ 1 + 2 = 3
    BY <1>1
  <2> QED BY <1>2, <2>1
<1>4. named[1] # u /\ named[Len(named)] # u /\ ApartIn(named, u)
  BY DEF IsInner
<1>5. ApartIn(b, u)
  <2>1. SUFFICES ASSUME NEW k \in 1 .. Len(b) - 1 PROVE ~(b[k] = u /\ b[k + 1] = u)
    BY DEF ApartIn
  <2>2. CASE k = 1
    BY <1>2, <2>2
  <2>3. CASE k = 2
    BY <1>3, <1>4, <2>3
  <2>4. CASE k > 2
    <3>1. k - 2 \in 1 .. Len(named) - 1 /\ k - 2 \in 1 .. Len(named) /\ (k - 2) + 1 \in 1 .. Len(named)
      BY <1>1, <1>2, <2>4
    <3>2. (k - 2) + 2 = k /\ ((k - 2) + 1) + 2 = k + 1
      BY <1>1, <1>2
    <3>3. b[k] = named[k - 2] /\ b[k + 1] = named[(k - 2) + 1]
      BY <1>2, <3>1, <3>2
    <3> QED BY <1>4, <3>1, <3>3 DEF ApartIn
  <2> QED BY <1>1, <1>2, <2>2, <2>3, <2>4
<1> QED BY <1>2, <1>3, <1>4, <1>5 DEF b, IsInner

\* A name that is a keyword has an underscore behind it.
LEMMA BeforeUnderscore ==
  ASSUME NEW S, NEW u \in S, NEW begun, IsInner(begun, S, u), Len(begun) = 1
  PROVE  LET y == begun \o <<u>>
         IN  y \in Seq(S) /\ Len(y) = 2 /\ y[1] = begun[1] /\ y[2] = u /\ ApartIn(y, u)
<1> DEFINE y == begun \o <<u>>
<1>1. begun \in Seq(S) /\ begun[1] # u
  BY DEF IsInner
<1>2. y = Append(begun, u)
  BY <1>1
<1>3. y \in Seq(S) /\ Len(y) = 2 /\ y[1] = begun[1] /\ y[2] = u
  <2>1. Append(begun, u) \in Seq(S) /\ Len(Append(begun, u)) = 2
    BY <1>1
  <2>2. Append(begun, u)[1] = begun[1] /\ Append(begun, u)[2] = u
    <3>1. /\ Append(begun, u)[Len(begun) + 1] = u
          /\ \A k \in 1 .. Len(begun) : Append(begun, u)[k] = begun[k]
      BY <1>1
    <3>2. 1 \in 1 .. Len(begun) /\ Len(begun) + 1 = 2
      OBVIOUS
    <3> QED BY <3>1, <3>2
  <2> HIDE DEF y
  <2> QED BY <2>1, <2>2, <1>2
<1> HIDE DEF y
<1>4. ApartIn(y, u)
  BY <1>1, <1>3 DEF ApartIn
<1> QED BY <1>3, <1>4 DEF y

\* What normalising makes, for its underscore u, digits D, keywords K and the pieces B
\* that no name has: words with one underscore between them, and one at the end only behind a
\* keyword.
IsName(y, u, D, K, B) ==
  /\ y \in Seq(ToSet(y)) /\ Len(y) # 0 /\ ApartIn(y, u)
  /\ ToSet(y) \cap B = {}
  /\ y[1] # u /\ y[1] \notin D
  /\ y[Len(y)] = u => Len(y) = 2 /\ y[1] \in K
  /\ Len(y) = 1 => y[1] \notin K

\* The three steps at the end: a name for nothing, one for a digit, one for a keyword.
Named(inner, col) == IF inner = <<>> THEN col ELSE inner
Begun(named, D, c, u) == IF named[1] \in D THEN <<c, u>> \o named ELSE named
Reserved(begun, K, u) == IF Len(begun) = 1 /\ begun[1] \in K THEN begun \o <<u>> ELSE begun

LEMMA NamedIs ==
  ASSUME NEW S, NEW u, NEW col, IsInner(col, S, u), Len(col) # 0, NEW inner, IsInner(inner, S, u)
  PROVE  IsInner(Named(inner, col), S, u) /\ Len(Named(inner, col)) # 0
<1>1. inner \in Seq(S)
  BY DEF IsInner
<1>2. inner = <<>> \/ Len(inner) # 0
  BY <1>1
<1> QED BY <1>2 DEF Named

LEMMA BegunIs ==
  ASSUME NEW S, NEW u \in S, NEW c \in S, c # u, NEW D, c \notin D,
         NEW named, IsInner(named, S, u), Len(named) # 0
  PROVE  /\ IsInner(Begun(named, D, c, u), S, u) /\ Len(Begun(named, D, c, u)) # 0
         /\ Begun(named, D, c, u)[1] \notin D
<1>1. LET b == <<c, u>> \o named
      IN  IsInner(b, S, u) /\ Len(b) = Len(named) + 2 /\ b[1] = c
  BY BehindLetter
<1>2. Len(named) \in Nat
  BY DEF IsInner
<1>3. CASE named[1] \in D
  <2>1. Begun(named, D, c, u) = <<c, u>> \o named
    BY <1>3 DEF Begun
  <2> QED BY <1>1, <1>2, <2>1
<1>4. CASE named[1] \notin D
  <2>1. Begun(named, D, c, u) = named
    BY <1>4 DEF Begun
  <2> QED BY <1>4, <2>1
<1> QED BY <1>3, <1>4

LEMMA ReservedIs ==
  ASSUME NEW B, NEW S, S \cap B = {}, NEW u \in S, NEW D, NEW K,
         NEW begun, IsInner(begun, S, u), Len(begun) # 0, begun[1] \notin D
  PROVE  IsName(Reserved(begun, K, u), u, D, K, B)
<1>1. begun \in Seq(S) /\ Len(begun) \in Nat /\ ApartIn(begun, u)
      /\ begun[1] # u /\ begun[Len(begun)] # u
  BY DEF IsInner
<1>2. ASSUME NEW y \in Seq(S)
      PROVE  y \in Seq(ToSet(y)) /\ ToSet(y) \cap B = {}
  <2>1. y \in Seq(ToSet(y)) /\ ToSet(y) = {y[k] : k \in 1 .. Len(y)}
    BY SeqOfItsOwn
  <2>2. \A k \in 1 .. Len(y) : y[k] \in S
    OBVIOUS
  <2> QED BY <2>1, <2>2
<1>3. CASE Len(begun) = 1 /\ begun[1] \in K
  <2> DEFINE y == begun \o <<u>>
  <2>1. y \in Seq(S) /\ Len(y) = 2 /\ y[1] = begun[1] /\ y[2] = u /\ ApartIn(y, u)
    BY <1>3, BeforeUnderscore
  <2>2. Reserved(begun, K, u) = y
    BY <1>3 DEF Reserved
  <2> HIDE DEF y
  <2>3. IsName(y, u, D, K, B)
    BY <1>1, <1>2, <1>3, <2>1 DEF IsName
  <2> QED BY <2>2, <2>3
<1>4. CASE ~(Len(begun) = 1 /\ begun[1] \in K)
  <2>1. Reserved(begun, K, u) = begun
    BY <1>4 DEF Reserved
  <2>2. IsName(begun, u, D, K, B)
    BY <1>1, <1>2, <1>4 DEF IsName
  <2> QED BY <2>1, <2>2
<1> QED BY <1>3, <1>4

\* A part of a sequence has no two underscores either.
LEMMA ApartInside ==
  ASSUME NEW S, NEW s \in Seq(S), NEW t \in Seq(S), NEW d \in Nat, Len(t) + d <= Len(s),
         \A k \in 1 .. Len(t) : t[k] = s[k + d], NEW u, ApartIn(s, u)
  PROVE  ApartIn(t, u)
<1>1. SUFFICES ASSUME NEW k \in 1 .. Len(t) - 1 PROVE ~(t[k] = u /\ t[k + 1] = u)
  BY DEF ApartIn
<1>2. Len(s) \in Nat /\ Len(t) \in Nat
  OBVIOUS
<1>3. k \in 1 .. Len(t) /\ k + 1 \in 1 .. Len(t) /\ k + d \in 1 .. Len(s) - 1 /\ (k + d) + 1 = (k + 1) + d
  BY <1>2
<1>4. t[k] = s[k + d] /\ t[k + 1] = s[(k + d) + 1]
  BY <1>3
<1> QED BY <1>3, <1>4 DEF ApartIn

LEMMA Finished ==
  ASSUME NEW S, NEW B, S \cap B = {}, NEW D, NEW K,
         NEW u \in S, NEW c \in S, NEW o \in S, NEW l \in S, c # u, l # u, o # u, c \notin D,
         NEW v \in Seq(S), ApartIn(v, u), NEW inner, inner = From(UpTo(v, {u}), {u})
  PROVE  IsName(Reserved(Begun(Named(inner, <<c, o, l>>), D, c, u), K, u), u, D, K, B)
<1>1. IsInner(inner, S, u)
  <2> DEFINE X == {u}
  <2>1. /\ From(UpTo(v, X), X) \in Seq(S)
        /\ \E d \in Nat : Len(From(UpTo(v, X), X)) + d <= Len(v)
             /\ \A k \in 1 .. Len(From(UpTo(v, X), X)) : From(UpTo(v, X), X)[k] = v[k + d]
        /\ From(UpTo(v, X), X) # <<>> => /\ From(UpTo(v, X), X)[1] \notin X
                                       /\ From(UpTo(v, X), X)[Len(From(UpTo(v, X), X))] \notin X
    <3> HIDE DEF X
    <3> QED BY TrimmedIs
  <2>2. inner \in Seq(S) /\ (inner # <<>> => inner[1] # u /\ inner[Len(inner)] # u)
    BY <2>1, Zenon
  <2>3. PICK d \in Nat : Len(inner) + d <= Len(v) /\ \A k \in 1 .. Len(inner) : inner[k] = v[k + d]
    BY <2>1, Zenon
  <2>4. ApartIn(inner, u)
    <3>1. ASSUME NEW t \in Seq(S), Len(t) + d <= Len(v), \A k \in 1 .. Len(t) : t[k] = v[k + d]
          PROVE  ApartIn(t, u)
      BY <3>1, ApartInside
    <3> QED BY <2>2, <2>3, <3>1, Zenon
  <2>5. Len(inner) # 0 => inner # <<>>
    BY <2>2
  <2> QED BY <2>2, <2>4, <2>5 DEF IsInner
<1> DEFINE col == <<c, o, l>>
<1>2. IsInner(col, S, u) /\ Len(col) # 0
  <2>1. /\ col \in Seq(S) /\ Len(col) = 3 /\ col[1] = c /\ col[2] = o /\ col[3] = l
    OBVIOUS
  <2> HIDE DEF col
  <2>2. ApartIn(col, u)
    BY <2>1 DEF ApartIn
  <2> QED BY <2>1, <2>2 DEF IsInner
<1> HIDE DEF col
<1> DEFINE named == Named(inner, col)
<1>3. IsInner(named, S, u) /\ Len(named) # 0
  BY <1>1, <1>2, NamedIs
<1> HIDE DEF named
<1> DEFINE begun == Begun(named, D, c, u)
<1>4. IsInner(begun, S, u) /\ Len(begun) # 0 /\ begun[1] \notin D
  BY <1>3, BegunIs
<1> HIDE DEF begun
<1>5. IsName(Reserved(begun, K, u), u, D, K, B)
  BY <1>4, ReservedIs
<1> QED BY <1>5 DEF begun, named, col

\* What no name has in it: capitals, spaces, hyphens and dots.
Improper == DOMAIN Small \cup Separators

Lower(c) == IF c \in DOMAIN Small THEN Small[c] ELSE c
Identified(c) == IF Lower(c) \in Separators THEN "_" ELSE Lower(c)

LEMMA ProperPieces ==
  /\ \A c : Identified(c) \notin Improper
  /\ {"_", "c", "o", "l"} \cap Improper = {}
<1>1. \A c \in {"_", "c", "o", "l"} : c \notin Separators
  BY DEF Separators, NoBreak, Blank
<1>2. {"_", "c", "o", "l"} \cap DOMAIN Small = {}
  BY NamesAssumption
<1>3. {"_", "c", "o", "l"} \cap Improper = {}
  BY <1>1, <1>2, Zenon DEF Improper
<1>4. ASSUME NEW c PROVE Identified(c) \notin Improper
  <2>1. Lower(c) \notin DOMAIN Small
    BY SmallAssumption, Zenon DEF Lower
  <2>2. CASE Lower(c) \in Separators
    <3>1. Identified(c) = "_"
      BY <2>2, Zenon DEF Identified
    <3> QED BY <3>1, <1>3, Zenon
  <2>3. CASE Lower(c) \notin Separators
    <3>1. Identified(c) = Lower(c)
      BY <2>3, Zenon DEF Identified
    <3> QED BY <2>1, <2>3, <3>1, Zenon DEF Improper
  <2> QED BY <2>2, <2>3, Zenon
<1> QED BY <1>3, <1>4, Zenon

LEMMA IdentifiedIs ==
  ASSUME NEW S, NEW raw \in Seq(S), NEW w, w = Identifying(to_lower(trim_copy(raw)))
  PROVE  w \in Seq(ToSet(w)) /\ ToSet(w) \cap Improper = {}
<1> DEFINE t == trim_copy(raw)
           v == to_lower(t)
<1>1. t \in Seq(S)
  BY TrimmedIs DEF trim_copy
<1>2. DOMAIN t = 1 .. Len(t) /\ Len(t) \in Nat
  BY <1>1
<1>3. v = [k \in 1 .. Len(t) |-> Lower(t[k])]
  BY <1>2, Zenon DEF to_lower, Lower
<1> HIDE DEF t, v
<1>4. DOMAIN v = 1 .. Len(t) /\ \A k \in 1 .. Len(t) : v[k] = Lower(t[k])
  BY <1>3
<1>5. w = [k \in 1 .. Len(t) |-> Identified(t[k])]
  <2>1. w = [k \in DOMAIN v |-> IF v[k] \in Separators THEN "_" ELSE v[k]]
    BY Zenon DEF v, t, Identifying
  <2>2. w = [k \in 1 .. Len(t) |-> IF v[k] \in Separators THEN "_" ELSE v[k]]
    BY <2>1, <1>4, Zenon
  <2> QED BY <2>2, <1>4, Zenon DEF Identified
<1> DEFINE T == {Identified(t[k]) : k \in 1 .. Len(t)}
<1>6. w \in Seq(T)
  <2>1. \A k \in 1 .. Len(t) : Identified(t[k]) \in T
    OBVIOUS
  <2> HIDE DEF T
  <2> QED BY <1>2, <1>5, <2>1
<1>7. T \cap Improper = {}
  BY ProperPieces, Zenon
<1> HIDE DEF T
<1>8. w \in Seq(ToSet(w)) /\ ToSet(w) = {w[k] : k \in 1 .. Len(w)} /\ \A k \in 1 .. Len(w) : w[k] \in T
  BY <1>6, SeqOfItsOwn
<1> QED BY <1>7, <1>8

\* normalize_colname, step by step.
LEMMA NormalizedInSteps ==
  ASSUME NEW raw, NEW v, v = Collapsed(Identifying(to_lower(trim_copy(raw))))
  PROVE  normalize_colname(raw, TRUE)
           = Reserved(Begun(Named(From(UpTo(v, {"_"}), {"_"}), <<"c", "o", "l">>), Digit, "c", "_"),
                      Keywords, "_")
BY Zenon DEF normalize_colname, Reserved, Begun, Named

\* What normalize_colname makes is a name.
LEMMA NormalizedIsName ==
  ASSUME NEW S, NEW raw \in Seq(S)
  PROVE  IsName(normalize_colname(raw, TRUE), "_", Digit, Keywords, Improper)
<1> DEFINE w == Identifying(to_lower(trim_copy(raw)))
           v == Collapsed(w)
           T == ToSet(w) \cup {"_", "c", "o", "l"}
           inner == From(UpTo(v, {"_"}), {"_"})
<1>1. w \in Seq(ToSet(w)) /\ ToSet(w) \cap Improper = {}
  BY IdentifiedIs
<1>2. normalize_colname(raw, TRUE)
        = Reserved(Begun(Named(inner, <<"c", "o", "l">>), Digit, "c", "_"), Keywords, "_")
  BY NormalizedInSteps, Zenon
<1>3. T \cap Improper = {} /\ "_" \in T /\ "c" \in T /\ "o" \in T /\ "l" \in T
  BY <1>1, ProperPieces, Zenon
<1>4. w \in Seq(T)
  <2>1. ToSet(w) \subseteq T
    OBVIOUS
  <2> HIDE DEF T, w
  <2> QED BY <1>1, <2>1
<1> HIDE DEF w, T
<1>5. v \in Seq(T) /\ ApartIn(v, "_")
  BY <1>4, CollapsedIs DEF Apart
<1> HIDE DEF v
<1>6. "c" # "_" /\ "o" # "_" /\ "l" # "_" /\ "c" \notin Digit
  BY DEF Digit
<1>7. inner = From(UpTo(v, {"_"}), {"_"})
  OBVIOUS
<1> HIDE DEF inner
<1>8. IsName(Reserved(Begun(Named(inner, <<"c", "o", "l">>), Digit, "c", "_"), Keywords, "_"),
             "_", Digit, Keywords, Improper)
  BY <1>3, <1>5, <1>6, <1>7, Finished
<1> QED BY <1>2, <1>8, Zenon

LEMMA OneOfTwo ==
  ASSUME NEW n \in Nat, n # 0, n # 2, n <= 2
  PROVE  n = 1
OBVIOUS

LEMMA Single ==
  ASSUME NEW a, NEW b
  PROVE  <<a>> # <<>> /\ Len(<<a>>) = 1 /\ <<a>>[1] = a /\ <<a>> \o <<b>> = <<a, b>>
<1>1. Len(<<a>>) = 1 /\ <<a>>[1] = a /\ Len(<<>>) = 0
  OBVIOUS
<1>2. <<a>> \o <<b>> = <<a, b>>
  <2>1. <<a>> \in Seq({a, b}) /\ <<b>> \in Seq({a, b}) /\ Len(<<b>>) = 1
    OBVIOUS
  <2>2. /\ <<a>> \o <<b>> \in Seq({a, b}) /\ Len(<<a>> \o <<b>>) = 2
        /\ (<<a>> \o <<b>>)[1] = a /\ (<<a>> \o <<b>>)[2] = b
    BY <2>1
  <2>3. ASSUME NEW v \in Seq({a, b}), Len(v) = 2 PROVE v = <<v[1], v[2]>>
    BY <2>3
  <2> QED BY <2>2, <2>3, Zenon
<1>3. <<a>> # <<>>
  BY <1>1
<1> QED BY <1>1, <1>2, <1>3

LEMMA SeqParts ==
  ASSUME NEW S, NEW s \in Seq(S)
  PROVE  /\ DOMAIN s = 1 .. Len(s) /\ Len(s) \in Nat /\ s = [k \in DOMAIN s |-> s[k]]
         /\ s # <<>> => 1 \in DOMAIN s /\ Len(s) \in DOMAIN s
OBVIOUS

\* The end of a word: what is left of it in front of one underscore.
LEMMA WordAlone ==
  ASSUME NEW S, NEW y \in Seq(S), NEW X, Len(y) = 2, y[1] \notin X, y[2] \in X
  PROVE  From(UpTo(y, X), X) = <<y[1]>>
<1> DEFINE u == UpTo(y, X)
<1>1. /\ u \in Seq(S) /\ Len(u) <= Len(y)
      /\ \A k \in 1 .. Len(u) : u[k] = y[k]
      /\ u # <<>> => u[Len(u)] \notin X
      /\ \A k \in 1 .. Len(y) : k > Len(u) => y[k] \in X
  BY UpToIs
<1> HIDE DEF u
<1>2. Len(u) \in Nat /\ Len(u) # 0
  <2>1. 1 \in 1 .. Len(y) /\ Len(u) \in Nat
    BY <1>1
  <2>2. ~(1 > Len(u))
    BY <1>1, <2>1
  <2> QED BY <2>1, <2>2
<1>3. Len(u) # 2
  <2>1. u # <<>>
    BY <1>1, <1>2
  <2>2. Len(u) \in 1 .. Len(u)
    BY <1>2
  <2>3. y[Len(u)] \notin X
    BY <1>1, <2>1, <2>2
  <2> QED BY <2>3
<1>4. Len(u) = 1 /\ u[1] = y[1]
  <2>1. Len(u) <= 2
    BY <1>1
  <2>2. Len(u) = 1
    BY <1>2, <1>3, <2>1, OneOfTwo, Zenon
  <2>3. 1 \in 1 .. Len(u)
    BY <2>2
  <2> QED BY <1>1, <2>2, <2>3
<1>5. PICK d \in 0 .. Len(u) :
        /\ From(u, X) \in Seq(S) /\ Len(From(u, X)) = Len(u) - d
        /\ \A k \in 1 .. Len(u) - d : From(u, X)[k] = u[k + d]
        /\ \A k \in 1 .. d : u[k] \in X
  BY <1>1, FromIs
<1>6. d = 0
  <2>1. d # 1
    BY <1>4, <1>5
  <2> QED BY <1>4, <2>1
<1>7. From(u, X) \in Seq(S) /\ Len(From(u, X)) = 1 /\ From(u, X)[1] = y[1]
  BY <1>4, <1>5, <1>6
<1> DEFINE w == From(u, X)
<1>8. ASSUME NEW v \in Seq(S), Len(v) = 1 PROVE v = <<v[1]>>
  BY <1>8
<1>9. From(u, X) = <<y[1]>>
  BY <1>7, <1>8
<1> QED BY <1>9 DEF u

\* The last steps of normalising leave a name as it is.
LEMMA FinishedStays ==
  ASSUME NEW u, NEW D, NEW K, NEW B, NEW y, IsName(y, u, D, K, B),
         NEW c, NEW col, NEW inner, inner = From(UpTo(y, {u}), {u})
  PROVE  Reserved(Begun(Named(inner, col), D, c, u), K, u) = y
<1> DEFINE S == ToSet(y)
<1>1. /\ y \in Seq(S) /\ Len(y) # 0 /\ Len(y) \in Nat
      /\ y[1] # u /\ y[1] \notin D
      /\ y[Len(y)] = u => Len(y) = 2 /\ y[1] \in K
      /\ Len(y) = 1 => y[1] \notin K
  <2>1. y \in Seq(S)
    BY DEF IsName
  <2>2. Len(y) \in Nat
    <3> HIDE DEF S
    <3> QED BY <2>1
  <2> QED BY <2>1, <2>2 DEF IsName
<1> HIDE DEF S
<1> DEFINE X == {u}
<1>2. CASE y[Len(y)] # u
  <2>1. inner = y
    <3> DEFINE t == From(UpTo(y, X), X)
    <3>1. y # <<>> => y[1] \notin X /\ y[Len(y)] \notin X
      BY <1>1, <1>2
    <3>2. t = y
      <4> HIDE DEF X
      <4> QED BY <1>1, <3>1, NothingToTrim
    <3> QED BY <3>2, Zenon
  <2>2. Named(inner, col) = y
    BY <1>1, <2>1 DEF Named
  <2>3. Begun(y, D, c, u) = y
    BY <1>1, Zenon DEF Begun
  <2>4. Reserved(y, K, u) = y
    BY <1>1, Zenon DEF Reserved
  <2> QED BY <2>2, <2>3, <2>4, Zenon
<1>3. CASE y[Len(y)] = u
  <2>1. Len(y) = 2 /\ y[1] \in K /\ y[2] = u
    BY <1>1, <1>3
  <2>2. inner = <<y[1]>>
    <3> DEFINE t == From(UpTo(y, X), X)
    <3>1. y[1] \notin X /\ y[2] \in X
      BY <1>1, <2>1
    <3>2. t = <<y[1]>>
      <4> HIDE DEF X
      <4> QED BY <1>1, <2>1, <3>1, WordAlone
    <3> QED BY <3>2, Zenon
  <2> DEFINE w == <<y[1]>>
  <2>3. w # <<>> /\ Len(w) = 1 /\ w[1] = y[1] /\ w \o <<u>> = <<y[1], u>>
    BY Single, Zenon
  <2>4. <<y[1], u>> = y
    BY <1>1, <2>1
  <2>5. inner = w
    BY <2>2
  <2> HIDE DEF w
  <2>6. Named(inner, col) = w
    BY <2>3, <2>5, Zenon DEF Named
  <2>7. Begun(w, D, c, u) = w
    BY <1>1, <2>3, Zenon DEF Begun
  <2>8. Reserved(w, K, u) = y
    BY <2>1, <2>3, <2>4, Zenon DEF Reserved
  <2> QED BY <2>6, <2>7, <2>8, Zenon
<1> QED BY <1>2, <1>3

LEMMA ThatNameStays ==
  ASSUME NEW u, NEW y, IsName(y, u, Digit, Keywords, Improper), NEW c, NEW col
  PROVE  Reserved(Begun(Named(From(UpTo(y, {u}), {u}), col), Digit, c, u), Keywords, u) = y
<1> DEFINE inner == From(UpTo(y, {u}), {u})
<1>1. inner = From(UpTo(y, {u}), {u})
  OBVIOUS
<1> HIDE DEF inner
<1>2. Reserved(Begun(Named(inner, col), Digit, c, u), Keywords, u) = y
  BY <1>1, FinishedStays
<1> QED BY <1>1, <1>2, Zenon

\* Normalising twice is normalising once.
LEMMA NameStays ==
  ASSUME NEW y, IsName(y, "_", Digit, Keywords, Improper)
  PROVE  normalize_colname(y, TRUE) = y
<1> DEFINE S == ToSet(y)
<1>1. y \in Seq(S) /\ Apart(y) /\ S \cap Improper = {}
  BY DEF IsName, Apart
<1>2. S = {y[k] : k \in 1 .. Len(y)}
  <2> HIDE DEF S
  <2>1. y \in Seq(S)
    BY <1>1
  <2> QED BY <2>1, SeqOfItsOwn, ZenonT(40) DEF S
<1> HIDE DEF S
<1>3. /\ DOMAIN y = 1 .. Len(y) /\ Len(y) \in Nat /\ y = [k \in DOMAIN y |-> y[k]]
      /\ y # <<>> => 1 \in DOMAIN y /\ Len(y) \in DOMAIN y
  BY <1>1, SeqParts, Zenon
<1>4. \A k \in DOMAIN y : y[k] \notin Improper
  BY <1>1, <1>2, <1>3
<1>5. trim_copy(y) = y
  <2>1. Blank \subseteq Improper
    BY DEF Improper, Separators
  <2>2. y # <<>> => y[1] \notin Blank /\ y[Len(y)] \notin Blank
    BY <1>3, <1>4, <2>1, Zenon
  <2> QED BY <1>1, <2>2, NothingToTrim DEF trim_copy
<1>6. to_lower(y) = y
  <2>1. \A k \in DOMAIN y : y[k] \notin DOMAIN Small
    BY <1>4, Zenon DEF Improper
  <2>2. to_lower(y) = [k \in DOMAIN y |-> y[k]]
    BY <2>1, Zenon DEF to_lower
  <2> QED BY <1>3, <2>2, Zenon
<1>7. Identifying(y) = y
  <2>1. \A k \in DOMAIN y : y[k] \notin Separators
    BY <1>4, Zenon DEF Improper
  <2>2. Identifying(y) = [k \in DOMAIN y |-> y[k]]
    BY <2>1, Zenon DEF Identifying
  <2> QED BY <1>3, <2>2, Zenon
<1>8. Collapsed(y) = y
  BY <1>1, CollapsedIs
<1>9. normalize_colname(y, TRUE)
        = Reserved(Begun(Named(From(UpTo(y, {"_"}), {"_"}), <<"c", "o", "l">>), Digit, "c", "_"),
                   Keywords, "_")
  <2>1. Collapsed(Identifying(to_lower(trim_copy(y)))) = y
    BY <1>5, <1>6, <1>7, <1>8, Zenon
  <2> QED BY <2>1, NormalizedInSteps, Zenon
<1>10. Reserved(Begun(Named(From(UpTo(y, {"_"}), {"_"}), <<"c", "o", "l">>), Digit, "c", "_"),
                Keywords, "_") = y
  BY ThatNameStays, Zenon
<1> QED BY <1>9, <1>10, Zenon

\* A name that was met before: two underscores and its number behind it.
Suffixed(s, u, n) == s \o <<u, u>> \o <<n>>

LEMMA SuffixedIs ==
  ASSUME NEW S, NEW s \in Seq(S), NEW u \in S, NEW n \in S
  PROVE  LET t == Suffixed(s, u, n)
         IN  /\ t \in Seq(S) /\ Len(t) = Len(s) + 3
             /\ \A k \in 1 .. Len(s) : t[k] = s[k]
             /\ t[Len(s) + 1] = u /\ t[Len(s) + 2] = u /\ t[Len(s) + 3] = n
<1> DEFINE a == s \o <<u, u>>
           t == a \o <<n>>
<1>1. /\ <<u, u>> \in Seq(S) /\ Len(<<u, u>>) = 2 /\ <<u, u>>[1] = u /\ <<u, u>>[2] = u
      /\ <<n>> \in Seq(S) /\ Len(<<n>>) = 1 /\ <<n>>[1] = n /\ Len(s) \in Nat
  OBVIOUS
<1>2. ASSUME NEW v \in Seq(S), NEW w \in Seq(S)
      PROVE  /\ v \o w \in Seq(S) /\ Len(v \o w) = Len(v) + Len(w)
             /\ \A k \in 1 .. Len(v) : (v \o w)[k] = v[k]
             /\ \A k \in 1 .. Len(w) : (v \o w)[Len(v) + k] = w[k]
  OBVIOUS
<1>3. /\ a \in Seq(S) /\ Len(a) = Len(s) + 2
      /\ \A k \in 1 .. Len(s) : a[k] = s[k]
      /\ a[Len(s) + 1] = u /\ a[Len(s) + 2] = u
  <2> DEFINE w == <<u, u>>
  <2>1. w \in Seq(S) /\ Len(w) = 2 /\ w[1] = u /\ w[2] = u
    BY <1>1
  <2> HIDE DEF w
  <2> QED BY <1>1, <1>2, <2>1 DEF w
<1> HIDE DEF a
<1>4. /\ t \in Seq(S) /\ Len(t) = Len(a) + 1 /\ t[Len(a) + 1] = n
      /\ \A k \in 1 .. Len(a) : t[k] = a[k]
  <2> DEFINE w == <<n>>
  <2>1. w \in Seq(S) /\ Len(w) = 1 /\ w[1] = n
    BY <1>1
  <2> HIDE DEF w
  <2>2. 1 \in 1 .. Len(w)
    BY <2>1
  <2> QED BY <1>2, <1>3, <2>1, <2>2 DEF w
<1> HIDE DEF t
<1>5. /\ \A k \in 1 .. Len(s) : t[k] = s[k]
      /\ t[Len(s) + 1] = u /\ t[Len(s) + 2] = u /\ t[Len(s) + 3] = n
  <2>1. /\ \A k \in 1 .. Len(s) : k \in 1 .. Len(a)
        /\ Len(s) + 1 \in 1 .. Len(a) /\ Len(s) + 2 \in 1 .. Len(a) /\ Len(a) + 1 = Len(s) + 3
    BY <1>1, <1>3
  <2> QED BY <1>3, <1>4, <2>1
<1>6. t = Suffixed(s, u, n)
  BY DEF t, a, Suffixed
<1>7. Len(t) = Len(s) + 3
  BY <1>1, <1>3, <1>4
<1> QED BY <1>4, <1>5, <1>6, <1>7

\* No name without a number is one with it.
LEMMA SuffixedNotApart ==
  ASSUME NEW S, NEW s \in Seq(S), NEW u \in S, NEW n \in S
  PROVE  ~ApartIn(Suffixed(s, u, n), u)
<1> DEFINE t == Suffixed(s, u, n)
<1>1. Len(t) = Len(s) + 3 /\ t[Len(s) + 1] = u /\ t[Len(s) + 2] = u /\ Len(s) \in Nat
  BY SuffixedIs
<1> HIDE DEF t
<1>2. Len(s) + 1 \in 1 .. Len(t) - 1 /\ (Len(s) + 1) + 1 = Len(s) + 2
  BY <1>1
<1>3. ~ApartIn(t, u)
  BY <1>1, <1>2 DEF ApartIn
<1> QED BY <1>3 DEF t

\* The name and the number can be read from it.
LEMMA SuffixedOnce ==
  ASSUME NEW S, NEW s \in Seq(S), NEW t \in Seq(S), NEW u \in S, NEW m \in S, NEW n \in S,
         Suffixed(s, u, m) = Suffixed(t, u, n)
  PROVE  s = t /\ m = n
<1> DEFINE v == Suffixed(s, u, m)
           w == Suffixed(t, u, n)
<1>1. /\ Len(v) = Len(s) + 3 /\ v[Len(s) + 3] = m
      /\ \A k \in 1 .. Len(s) : v[k] = s[k]
  BY SuffixedIs
<1>2. /\ Len(w) = Len(t) + 3 /\ w[Len(t) + 3] = n
      /\ \A k \in 1 .. Len(t) : w[k] = t[k]
  <2>1. ASSUME NEW x \in Seq(S), NEW p \in S
        PROVE  /\ Len(Suffixed(x, u, p)) = Len(x) + 3 /\ Suffixed(x, u, p)[Len(x) + 3] = p
               /\ \A k \in 1 .. Len(x) : Suffixed(x, u, p)[k] = x[k]
    BY SuffixedIs
  <2> QED BY <2>1, Zenon
<1>3. v = w /\ Len(s) \in Nat /\ Len(t) \in Nat
  OBVIOUS
<1> HIDE DEF v, w
<1>4. Len(s) = Len(t)
  BY <1>1, <1>2, <1>3
<1>5. m = n
  BY <1>1, <1>2, <1>3, <1>4
<1>6. \A k \in 1 .. Len(s) : s[k] = t[k]
  BY <1>1, <1>2, <1>3, <1>4
<1>7. s = t
  BY <1>4, <1>6
<1> QED BY <1>5, <1>7

\* How often the value at k was met up to k.
Seen(f, k) == Cardinality({j \in 1 .. k : f[j] = f[k]})

LEMMA SeenTells ==
  ASSUME NEW f, NEW j \in Nat, NEW k \in Nat, j # 0, k # 0, f[j] = f[k], Seen(f, j) = Seen(f, k)
  PROVE  j = k
<1>1. ASSUME NEW a \in Nat, NEW b \in Nat, b # 0, f[a] = f[b], Seen(f, a) = Seen(f, b), a < b
      PROVE  FALSE
  <2> DEFINE A == {x \in 1 .. a : f[x] = f[a]}
             B == {x \in 1 .. b : f[x] = f[b]}
  <2>1. A \subseteq B /\ b \in B /\ b \notin A
    BY <1>1
  <2>2. IsFiniteSet(1 .. b)
    BY FS_Interval
  <2>3. B \subseteq 1 .. b
    OBVIOUS
  <2>4. Cardinality(A) = Cardinality(B)
    BY <1>1 DEF Seen
  <2> HIDE DEF A, B
  <2>5. IsFiniteSet(B)
    BY <2>2, <2>3, FS_Subset
  <2>6. A = B
    BY <2>1, <2>4, <2>5, FS_Subset
  <2> QED BY <2>1, <2>6
<1>2. ~(j < k) /\ ~(k < j)
  BY <1>1
<1> QED BY <1>2

LEMMA SeenIs ==
  ASSUME NEW f, NEW k \in Nat
  PROVE  Seen(f, k) \in Nat
<1> DEFINE A == {x \in 1 .. k : f[x] = f[k]}
<1>1. IsFiniteSet(1 .. k)
  BY FS_Interval
<1>2. A \subseteq 1 .. k
  OBVIOUS
<1> HIDE DEF A
<1>3. Cardinality(A) \in Nat
  BY <1>1, <1>2, FS_Subset, FS_CardinalityType
<1> QED BY <1>3 DEF A, Seen

\* No two numbers have the same numeral.
NumeralsDiffer == \A m, n \in Nat : ToString(m) = ToString(n) => m = n

\* The name at k, given all of them without numbers.
NameAt(base, u, k) ==
  IF Seen(base, k) = 1 THEN base[k] ELSE Suffixed(base[k], u, ToString(Seen(base, k)))

\* Names without numbers that keep their underscores apart make different names.
LEMMA NamesAtDiffer ==
  ASSUME NumeralsDiffer, NEW base, NEW u, NEW j \in Nat, NEW k \in Nat, j # 0, k # 0,
         \A x \in {j, k} : base[x] \in Seq(ToSet(base[x])) /\ ApartIn(base[x], u),
         NameAt(base, u, j) = NameAt(base, u, k)
  PROVE  j = k
<1> DEFINE m == Seen(base, j)
           n == Seen(base, k)
           S == ToSet(base[j]) \cup ToSet(base[k]) \cup {u, ToString(m), ToString(n)}
<1>1. m \in Nat /\ n \in Nat
  BY SeenIs
<1>2. base[j] \in Seq(S) /\ base[k] \in Seq(S)
  <2>1. ASSUME NEW A, NEW B, A \subseteq B, NEW s \in Seq(A) PROVE s \in Seq(B)
    BY <2>1
  <2>2. ToSet(base[j]) \subseteq S /\ ToSet(base[k]) \subseteq S
    OBVIOUS
  <2>3. base[j] \in Seq(ToSet(base[j])) /\ base[k] \in Seq(ToSet(base[k]))
    OBVIOUS
  <2> HIDE DEF S
  <2> QED BY <2>1, <2>2, <2>3
<1>3. u \in S /\ ToString(m) \in S /\ ToString(n) \in S
  OBVIOUS
<1>4. ApartIn(base[j], u) /\ ApartIn(base[k], u)
  OBVIOUS
<1>5. /\ m = 1 => NameAt(base, u, j) = base[j]
      /\ m # 1 => NameAt(base, u, j) = Suffixed(base[j], u, ToString(m))
      /\ n = 1 => NameAt(base, u, k) = base[k]
      /\ n # 1 => NameAt(base, u, k) = Suffixed(base[k], u, ToString(n))
  BY DEF NameAt
<1> HIDE DEF S, m, n
<1>6. CASE m = 1 /\ n = 1
  <2>1. base[j] = base[k] /\ m = n
    BY <1>5, <1>6
  <2> QED BY <2>1, SeenTells DEF m, n
<1>7. CASE m = 1 /\ n # 1
  <2>1. base[j] = Suffixed(base[k], u, ToString(n))
    BY <1>5, <1>7
  <2>2. ~ApartIn(Suffixed(base[k], u, ToString(n)), u)
    BY <1>2, <1>3, SuffixedNotApart
  <2> QED BY <1>4, <2>1, <2>2
<1>8. CASE m # 1 /\ n = 1
  <2>1. base[k] = Suffixed(base[j], u, ToString(m))
    BY <1>5, <1>8
  <2>2. ~ApartIn(Suffixed(base[j], u, ToString(m)), u)
    BY <1>2, <1>3, SuffixedNotApart
  <2> QED BY <1>4, <2>1, <2>2
<1>9. CASE m # 1 /\ n # 1
  <2>1. Suffixed(base[j], u, ToString(m)) = Suffixed(base[k], u, ToString(n))
    BY <1>5, <1>9
  <2>2. base[j] = base[k] /\ ToString(m) = ToString(n)
    BY <1>2, <1>3, <2>1, SuffixedOnce
  <2>3. m = n
    BY <1>1, <2>2 DEF NumeralsDiffer
  <2> QED BY <2>2, <2>3, SeenTells DEF m, n
<1> QED BY <1>6, <1>7, <1>8, <1>9

\* The names of columns, each from what the query calls it.
LEMMA ColumnNamesAre ==
  ASSUME NEW raw, NEW L \in Nat, DOMAIN raw = 1 .. L
  PROVE  LET base == [k \in DOMAIN raw |-> base_name(raw[k], "normalize", TRUE)]
             names == build_column_name_map(raw, "normalize", TRUE)
         IN  DOMAIN names = DOMAIN raw /\ \A k \in DOMAIN raw : names[k] = NameAt(base, "_", k)
<1> DEFINE base == [k \in DOMAIN raw |-> base_name(raw[k], "normalize", TRUE)]
           names == build_column_name_map(raw, "normalize", TRUE)
           Numbered(k) == IF Seen(base, k) = 1 THEN base[k]
                          ELSE base[k] \o <<"_", "_">> \o to_string(Seen(base, k))
<1>1. names = [k \in DOMAIN base |-> Numbered(k)]
  BY Zenon DEF build_column_name_map, Seen
<1>2. DOMAIN base = DOMAIN raw
  OBVIOUS
<1>3. ASSUME NEW k \in DOMAIN raw PROVE Numbered(k) = NameAt(base, "_", k)
  <2>1. Seen(base, k) \in Nat
    <3> HIDE DEF base
    <3> QED BY SeenIs
  <2>2. to_string(Seen(base, k)) = <<ToString(Seen(base, k))>>
    <3> DEFINE n == Seen(base, k)
    <3> HIDE DEF n
    <3>1. n \in Nat => to_string(n) = <<ToString(n)>>
      BY DEF to_string
    <3> QED BY <2>1, <3>1 DEF n
  <2> QED BY <2>2, Zenon DEF NameAt, Suffixed
<1> HIDE DEF base, names, Numbered
<1>4. DOMAIN names = DOMAIN raw /\ \A k \in DOMAIN raw : names[k] = NameAt(base, "_", k)
  BY <1>1, <1>2, <1>3
<1> QED BY <1>4 DEF base, names

\* build_column_name_map normalises names to different names, and a name that is read
\* back into it stays as it is.
THEOREM NormalizedColumnsDiffer ==
  ASSUME NumeralsDiffer, NEW raw \in Seq(Seq(STRING)),
         NEW names, names = build_column_name_map(raw, "normalize", TRUE)
  PROVE  /\ IsInjective(names)
         /\ \A k \in DOMAIN names : base_name(names[k], "normalize", TRUE)
                                      = base_name(base_name(names[k], "normalize", TRUE), "normalize", TRUE)
<1> DEFINE base == [k \in DOMAIN raw |-> base_name(raw[k], "normalize", TRUE)]
<1>1. \A s : base_name(s, "normalize", TRUE) = normalize_colname(s, TRUE)
  BY Zenon DEF base_name
<1>2. DOMAIN raw = 1 .. Len(raw) /\ Len(raw) \in Nat /\ \A k \in DOMAIN raw : raw[k] \in Seq(STRING)
  OBVIOUS
<1>3. ASSUME NEW k \in DOMAIN raw
      PROVE  base[k] \in Seq(ToSet(base[k])) /\ ApartIn(base[k], "_")
  <2>1. base[k] = normalize_colname(raw[k], TRUE)
    BY <1>1, Zenon
  <2>2. IsName(normalize_colname(raw[k], TRUE), "_", Digit, Keywords, Improper)
    BY <1>2, NormalizedIsName
  <2> QED BY <2>1, <2>2, Zenon DEF IsName
<1>4. DOMAIN names = DOMAIN raw /\ \A k \in DOMAIN raw : names[k] = NameAt(base, "_", k)
  BY <1>2, ColumnNamesAre, Zenon
<1> HIDE DEF base
<1>5. IsInjective(names)
  <2>1. SUFFICES ASSUME NEW j \in DOMAIN raw, NEW k \in DOMAIN raw, names[j] = names[k] PROVE j = k
    BY <1>4, Zenon DEF IsInjective
  <2>2. NameAt(base, "_", j) = NameAt(base, "_", k)
    BY <1>4, <2>1, Zenon
  <2>3. j \in Nat /\ k \in Nat /\ j # 0 /\ k # 0
    BY <1>2
  <2>4. \A x \in {j, k} : base[x] \in Seq(ToSet(base[x])) /\ ApartIn(base[x], "_")
    BY <1>3, Zenon
  <2> QED BY <2>2, <2>3, <2>4, NamesAtDiffer, Zenon
<1>6. ASSUME NEW k \in DOMAIN names
      PROVE  normalize_colname(names[k], TRUE) = normalize_colname(normalize_colname(names[k], TRUE), TRUE)
  <2>1. names[k] = NameAt(base, "_", k) /\ k \in DOMAIN raw
    BY <1>4, <1>6, Zenon
  <2>2. \E S : names[k] \in Seq(S)
    <3> DEFINE n == ToString(Seen(base, k))
               S == ToSet(base[k]) \cup {"_", n}
    <3>1. base[k] \in Seq(ToSet(base[k]))
      BY <1>3, <2>1
    <3>2. "_" \in S /\ n \in S /\ ToSet(base[k]) \subseteq S
      OBVIOUS
    <3>3. names[k] \in {base[k], Suffixed(base[k], "_", n)}
      BY <2>1, Zenon DEF NameAt
    <3> HIDE DEF S, n
    <3>4. ASSUME NEW A, NEW B, A \subseteq B, NEW s \in Seq(A) PROVE s \in Seq(B)
      BY <3>4
    <3>5. base[k] \in Seq(S)
      BY <3>1, <3>2, <3>4
    <3>6. ASSUME NEW u \in S PROVE Suffixed(base[k], u, n) \in Seq(S)
      BY <3>2, <3>5, SuffixedIs
    <3> QED BY <3>2, <3>3, <3>5, <3>6, Zenon
  <2>3. PICK S : names[k] \in Seq(S)
    BY <2>2
  <2>4. IsName(normalize_colname(names[k], TRUE), "_", Digit, Keywords, Improper)
    BY <2>3, NormalizedIsName
  <2> QED BY <2>4, NameStays, Zenon
<1> QED BY <1>1, <1>5, <1>6, Zenon
----------------------------------------------------------------------------
(* The reply. *)

\* p has the columns, and of the rows whole the first up to a limit; it says whether that is all.
IsCut(p, columns, whole, limit) ==
  /\ p.columns = columns
  /\ p.rows = SubSeq(whole, 1, IF Len(whole) <= limit THEN Len(whole) ELSE limit)
  /\ p.truncated <=> Len(whole) > limit

\* The table after k rows.
CutAt(columns, rs, limit, k) ==
  IF k <= limit THEN [columns |-> columns, rows |-> SubSeq(rs, 1, k), truncated |-> FALSE]
  ELSE [columns |-> columns, rows |-> SubSeq(rs, 1, limit), truncated |-> TRUE]

\* One step of Emit.
EmitStep(out, row, limit) ==
  IF out.truncated THEN out
  ELSE IF Agent!limit_reached(out, limit) THEN [out EXCEPT !.truncated = TRUE]
  ELSE [out EXCEPT !.rows = Append(@, row)]

LEMMA EmitStepIs ==
  ASSUME NEW T, NEW rs \in Seq(T), NEW limit \in Nat, NEW columns, NEW k \in 1 .. Len(rs)
  PROVE  EmitStep(CutAt(columns, rs, limit, k - 1), rs[k], limit) = CutAt(columns, rs, limit, k)
<1> DEFINE out == CutAt(columns, rs, limit, k - 1)
<1>1. k - 1 \in Nat /\ k \in Nat /\ k - 1 <= Len(rs) /\ Len(rs) \in Nat
  OBVIOUS
<1>2. CASE k - 1 > limit
  <2>1. out = CutAt(columns, rs, limit, k) /\ out.truncated
    BY <1>1, <1>2 DEF CutAt
  <2> QED BY <2>1 DEF EmitStep
<1>3. CASE k - 1 <= limit
  <2>1. out = [columns |-> columns, rows |-> SubSeq(rs, 1, k - 1), truncated |-> FALSE]
    BY <1>1, <1>3 DEF CutAt
  <2>2. Len(SubSeq(rs, 1, k - 1)) = k - 1
    BY <1>1
  <2>3. Agent!limit_reached(out, limit) <=> k - 1 >= limit
    BY <2>1, <2>2 DEF Agent!limit_reached
  <2> DEFINE b == SubSeq(rs, 1, k - 1)
             p == [columns |-> columns, rows |-> b, truncated |-> FALSE]
  <2>4. CASE k - 1 = limit
    <3>1. EmitStep(out, rs[k], limit) = [out EXCEPT !.truncated = TRUE]
      BY <1>1, <2>1, <2>3, <2>4 DEF EmitStep
    <3>2. CutAt(columns, rs, limit, k) = [columns |-> columns, rows |-> b, truncated |-> TRUE]
      <4>1. limit = k - 1 /\ ~(k <= limit)
        BY <1>1, <2>4
      <4> QED BY <4>1, Zenon DEF CutAt
    <3>3. [p EXCEPT !.truncated = TRUE] = [columns |-> columns, rows |-> b, truncated |-> TRUE]
      <4> HIDE DEF b
      <4>1. ASSUME NEW c, NEW x
            PROVE  [[columns |-> columns, rows |-> b, truncated |-> c] EXCEPT !.truncated = x]
                     = [columns |-> columns, rows |-> b, truncated |-> x]
        OBVIOUS
      <4> QED BY <4>1, Zenon
    <3>4. [out EXCEPT !.truncated = TRUE] = [p EXCEPT !.truncated = TRUE]
      BY <2>1, Zenon
    <3> QED BY <3>1, <3>2, <3>3, <3>4, Zenon
  <2>5. CASE k - 1 # limit
    <3>1. k <= limit /\ ~(k - 1 >= limit)
      BY <1>1, <1>3, <2>5
    <3>2. EmitStep(out, rs[k], limit) = [out EXCEPT !.rows = Append(@, rs[k])]
      BY <2>1, <2>3, <3>1 DEF EmitStep
    <3>3. Append(b, rs[k]) = SubSeq(rs, 1, k)
      BY <1>1
    <3>4. CutAt(columns, rs, limit, k)
            = [columns |-> columns, rows |-> SubSeq(rs, 1, k), truncated |-> FALSE]
      BY <1>1, <3>1 DEF CutAt
    <3>5. ASSUME NEW row
          PROVE  [p EXCEPT !.rows = Append(@, row)]
                   = [columns |-> columns, rows |-> Append(b, row), truncated |-> FALSE]
      <4> HIDE DEF b
      <4>1. ASSUME NEW c, NEW x
            PROVE  [[columns |-> columns, rows |-> b, truncated |-> c] EXCEPT !.rows = x]
                     = [columns |-> columns, rows |-> x, truncated |-> c]
        OBVIOUS
      <4>2. p.rows = b
        OBVIOUS
      <4> QED BY <4>1, <4>2, Zenon
    <3>6. [out EXCEPT !.rows = Append(@, rs[k])] = [p EXCEPT !.rows = Append(@, rs[k])]
      BY <2>1, Zenon
    <3> QED BY <3>2, <3>3, <3>4, <3>5, <3>6, Zenon
  <2> QED BY <2>4, <2>5
<1> QED BY <1>1, <1>2, <1>3

\* The loop that all mappings share cuts the rows at the limit.
LEMMA EmitIs ==
  ASSUME NEW T, NEW rs \in Seq(T), NEW limit \in Nat, NEW columns
  PROVE  Agent!Emit(columns, rs, limit) = CutAt(columns, rs, limit, Len(rs))
<1> DEFINE N == Len(rs)
           start == [columns |-> columns, rows |-> <<>>, truncated |-> FALSE]
           body(g) == [k \in 0 .. N |-> IF k = 0 THEN start ELSE EmitStep(g[k - 1], rs[k], limit)]
           f == [k \in 0 .. N |-> CutAt(columns, rs, limit, k)]
           out == CHOOSE g : g = body(g)
<1>1. N \in Nat
  OBVIOUS
<1>2. \A k \in 1 .. N : EmitStep(f[k - 1], rs[k], limit) = CutAt(columns, rs, limit, k)
  <2>1. \A k \in 1 .. N : f[k - 1] = CutAt(columns, rs, limit, k - 1)
    BY <1>1
  <2> HIDE DEF f
  <2> QED BY <2>1, EmitStepIs
<1>3. CutAt(columns, rs, limit, 0) = start
  <2>1. 0 <= limit /\ SubSeq(rs, 1, 0) = <<>>
    OBVIOUS
  <2> QED BY <2>1, Zenon DEF CutAt
<1>4. f = body(f)
  <2>1. \A k \in 0 .. N : CutAt(columns, rs, limit, k)
                            = IF k = 0 THEN start ELSE EmitStep(f[k - 1], rs[k], limit)
    <3> HIDE DEF f, start
    <3> QED BY <1>1, <1>2, <1>3
  <2> QED BY <2>1, Zenon
<1>5. out = body(out)
  <2> HIDE DEF body, f
  <2> QED BY <1>4
<1>6. Agent!Emit(columns, rs, limit) = out[N]
  <2>1. [Agent!Nothing EXCEPT !.columns = columns] = start
    <3>1. ASSUME NEW a, NEW b, NEW c
          PROVE  [[columns |-> a, rows |-> b, truncated |-> c] EXCEPT !.columns = columns]
                   = [columns |-> columns, rows |-> b, truncated |-> c]
      OBVIOUS
    <3> QED BY <3>1, Zenon DEF Agent!Nothing
  <2> HIDE DEF start
  <2> QED BY <2>1, Zenon DEF Agent!Emit, EmitStep
<1> HIDE DEF out
<1>7. \A k \in 0 .. N : out[k] = IF k = 0 THEN start ELSE EmitStep(out[k - 1], rs[k], limit)
  <2> HIDE DEF start, N
  <2> QED BY <1>5, Zenon
<1> DEFINE G == {k \in 0 .. N : out[k] = CutAt(columns, rs, limit, k)}
<1>8. 0 \in G
  <2>1. 0 \in 0 .. N
    BY <1>1
  <2> HIDE DEF N, start
  <2> QED BY <1>3, <1>7, <2>1
<1>9. ASSUME NEW k \in 0 .. N - 1, k \in G PROVE k + 1 \in G
  <2>1. k + 1 \in 0 .. N /\ k + 1 \in 1 .. N /\ (k + 1) - 1 = k /\ k + 1 # 0
    BY <1>1
  <2>2. out[k + 1] = EmitStep(CutAt(columns, rs, limit, k), rs[k + 1], limit)
    <3> HIDE DEF N, start
    <3> QED BY <1>7, <1>9, <2>1
  <2>3. EmitStep(CutAt(columns, rs, limit, (k + 1) - 1), rs[k + 1], limit)
          = CutAt(columns, rs, limit, k + 1)
    BY <2>1, EmitStepIs
  <2> HIDE DEF N, start
  <2> QED BY <2>1, <2>2, <2>3
<1>10. N \in G
  <2>1. 0 .. N \subseteq G
    <3> HIDE DEF G, N
    <3> QED BY <1>1, <1>8, <1>9, InductionUpTo
  <2>2. N \in 0 .. N
    BY <1>1
  <2> HIDE DEF G, N
  <2> QED BY <2>1, <2>2
<1> QED BY <1>6, <1>10

LEMMA EmitCuts ==
  ASSUME NEW T, NEW rs \in Seq(T), NEW limit \in Nat, NEW columns
  PROVE  IsCut(Agent!Emit(columns, rs, limit), columns, rs, limit)
<1>1. Agent!Emit(columns, rs, limit) = CutAt(columns, rs, limit, Len(rs))
  BY EmitIs
<1>2. IsCut(CutAt(columns, rs, limit, Len(rs)), columns, rs, limit)
  BY DEF CutAt, IsCut
<1> QED BY <1>1, <1>2

LEMMA JoinedIs ==
  ASSUME NEW S, NEW v \in Seq(S), NEW w \in Seq(S)
  PROVE  /\ v \o w \in Seq(S) /\ Len(v \o w) = Len(v) + Len(w)
         /\ \A k \in 1 .. Len(v) : (v \o w)[k] = v[k]
         /\ \A k \in 1 .. Len(w) : (v \o w)[Len(v) + k] = w[k]
         /\ \A k \in 1 .. Len(v \o w) :
               k \in 1 .. Len(v) \/ (k - Len(v) \in 1 .. Len(w) /\ Len(v) + (k - Len(v)) = k)
OBVIOUS

\* Two sequences are as long as each other, and R relates their elements in pairs.
Paired(R, s, t) == Len(s) = Len(t) /\ \A k \in 1 .. Len(s) : <<s[k], t[k]>> \in R

LEMMA PairedJoined ==
  ASSUME NEW R, NEW S, NEW T, NEW s \in Seq(S), NEW t \in Seq(T), Paired(R, s, t),
         NEW x \in Seq(S), NEW y \in Seq(T), Paired(R, x, y)
  PROVE  Paired(R, s \o x, t \o y)
<1> DEFINE v == s \o x
           w == t \o y
<1>1. /\ Len(v) = Len(s) + Len(x)
      /\ \A k \in 1 .. Len(s) : v[k] = s[k]
      /\ \A k \in 1 .. Len(x) : v[Len(s) + k] = x[k]
      /\ \A k \in 1 .. Len(v) :
            k \in 1 .. Len(s) \/ (k - Len(s) \in 1 .. Len(x) /\ Len(s) + (k - Len(s)) = k)
  BY JoinedIs
<1>2. /\ Len(w) = Len(t) + Len(y)
      /\ \A k \in 1 .. Len(t) : w[k] = t[k]
      /\ \A k \in 1 .. Len(y) : w[Len(t) + k] = y[k]
  BY JoinedIs
<1> HIDE DEF v, w
<1>3. Len(s) = Len(t) /\ Len(x) = Len(y)
  BY DEF Paired
<1>4. ASSUME NEW k \in 1 .. Len(v) PROVE <<v[k], w[k]>> \in R
  <2>1. CASE k \in 1 .. Len(s)
    <3>1. v[k] = s[k] /\ w[k] = t[k]
      BY <1>1, <1>2, <1>3, <2>1
    <3>2. <<s[k], t[k]>> \in R
      BY <2>1 DEF Paired
    <3> QED BY <3>1, <3>2
  <2>2. CASE k - Len(s) \in 1 .. Len(x) /\ Len(s) + (k - Len(s)) = k
    <3>1. v[k] = x[k - Len(s)] /\ w[k] = y[k - Len(s)]
      BY <1>1, <1>2, <1>3, <2>2, ZenonT(40)
    <3>2. <<x[k - Len(s)], y[k - Len(s)]>> \in R
      BY <2>2 DEF Paired
    <3> QED BY <3>1, <3>2
  <2> QED BY <1>1, <2>1, <2>2
<1>5. Len(v) = Len(w)
  BY <1>1, <1>2, <1>3
<1>6. Paired(R, v, w)
  BY <1>4, <1>5 DEF Paired
<1> QED BY <1>6 DEF v, w

\* What is concatenated from pairs is in pairs.
LEMMA PairedFlattened ==
  ASSUME NEW R, NEW S, NEW T, NEW ss \in Seq(Seq(S)), NEW tt \in Seq(Seq(T)), Len(ss) = Len(tt),
         \A k \in 1 .. Len(ss) : Paired(R, ss[k], tt[k])
  PROVE  /\ FlattenSeq(ss) \in Seq(S) /\ FlattenSeq(tt) \in Seq(T)
         /\ Paired(R, FlattenSeq(ss), FlattenSeq(tt))
<1> DEFINE N == Len(ss)
<1>1. N \in Nat /\ \A k \in 1 .. N : ss[k] \in Seq(S)
  OBVIOUS
<1>2. \A k \in 1 .. N : tt[k] \in Seq(T)
  OBVIOUS
<1>3. PICK f \in [0 .. N -> Seq(S)] :
        f[0] = <<>> /\ (\A k \in 1 .. N : f[k] = f[k - 1] \o ss[k]) /\ FlattenSeq(ss) = f[N]
  BY Flattened
<1>4. PICK g \in [0 .. N -> Seq(T)] :
        g[0] = <<>> /\ (\A k \in 1 .. N : g[k] = g[k - 1] \o tt[k]) /\ FlattenSeq(tt) = g[N]
  BY Flattened
<1>5. \A k \in 1 .. N : Paired(R, ss[k], tt[k])
  OBVIOUS
<1> HIDE DEF N
<1> DEFINE G == {k \in 0 .. N : Paired(R, f[k], g[k])}
<1>6. 0 \in G
  <2>1. Paired(R, <<>>, <<>>)
    BY DEF Paired
  <2>2. 0 \in 0 .. N
    BY <1>1
  <2> QED BY <1>3, <1>4, <2>1, <2>2, Zenon
<1>7. ASSUME NEW k \in 0 .. N - 1, k \in G PROVE k + 1 \in G
  <2>1. k + 1 \in 0 .. N /\ k + 1 \in 1 .. N /\ (k + 1) - 1 = k /\ k \in 0 .. N
    BY <1>1
  <2>2. f[k] \in Seq(S) /\ g[k] \in Seq(T) /\ Paired(R, f[k], g[k])
    BY <1>7, <2>1
  <2>3. f[k + 1] = f[k] \o ss[k + 1] /\ g[k + 1] = g[k] \o tt[k + 1]
    BY <1>3, <1>4, <2>1
  <2>4. ss[k + 1] \in Seq(S) /\ tt[k + 1] \in Seq(T) /\ Paired(R, ss[k + 1], tt[k + 1])
    BY <1>1, <1>2, <1>5, <2>1
  <2>5. Paired(R, f[k] \o ss[k + 1], g[k] \o tt[k + 1])
    BY <2>2, <2>4, PairedJoined
  <2> QED BY <2>1, <2>3, <2>5, Zenon
<1>8. 0 .. N \subseteq G
  <2> HIDE DEF G
  <2> QED BY <1>1, <1>6, <1>7, InductionUpTo
<1>9. N \in 0 .. N
  BY <1>1
<1>10. Paired(R, f[N], g[N]) /\ f[N] \in Seq(S) /\ g[N] \in Seq(T)
  BY <1>8, <1>9
<1> QED BY <1>3, <1>4, <1>10, Zenon

\* Some numbers have a bound.
LEMMA Bounded ==
  ASSUME NEW N \in Nat, NEW f, \A k \in 1 .. N : f[k] \in Nat
  PROVE  \E b \in Nat : \A k \in 1 .. N : f[k] <= b
<1> DEFINE G == {n \in 0 .. N : \E b \in Nat : \A k \in 1 .. n : f[k] <= b}
<1>1. 0 \in G
  OBVIOUS
<1>2. ASSUME NEW n \in 0 .. N - 1, n \in G PROVE n + 1 \in G
  <2>1. PICK b \in Nat : \A k \in 1 .. n : f[k] <= b
    BY <1>2
  <2>2. n + 1 \in 1 .. N /\ n + 1 \in 0 .. N /\ \A k \in 1 .. n + 1 : k \in 1 .. n \/ k = n + 1
    OBVIOUS
  <2>3. f[n + 1] \in Nat
    BY <2>2
  <2> DEFINE c == b + f[n + 1]
  <2>4. c \in Nat /\ b <= c /\ f[n + 1] <= c
    BY <2>3
  <2> HIDE DEF c
  <2>5. \A k \in 1 .. n + 1 : f[k] <= c
    <3>1. ASSUME NEW k \in 1 .. n PROVE f[k] <= c
      <4>1. f[k] <= b /\ f[k] \in Nat
        BY <2>1, <2>2
      <4> QED BY <2>4, <4>1
    <3> QED BY <2>2, <2>4, <3>1
  <2> QED BY <2>2, <2>4, <2>5
<1> HIDE DEF G
<1>3. 0 .. N \subseteq G
  BY <1>1, <1>2, InductionUpTo
<1>4. N \in G
  BY <1>3
<1> QED BY <1>4 DEF G

LEMMA AgentFlattens ==
  ASSUME NEW s
  PROVE  Agent!FlattenSeq(s) = FlattenSeq(s)
BY DEF Agent!FlattenSeq, FlattenSeq

\* A row of a table is one of texts.
Cells == Seq(Seq(STRING))

TablesOK(r) ==
  r.tables \in Seq(ToSet(r.tables)) /\ \A t \in ToSet(r.tables) : t.rows \in Seq(Cells)

LEMMA TailIs ==
  ASSUME NEW S, NEW s \in Seq(S), s # <<>>
  PROVE  Tail(s) \in Seq(S)
OBVIOUS

LEMMA DataIs ==
  ASSUME NEW r, NEW t, t.rows \in Seq(Cells)
  PROVE  Agent!data_rows(r, t) \in Seq(Cells)
<1>1. t.rows # <<>> => Tail(t.rows) \in Seq(Cells)
  BY TailIs
<1> QED BY <1>1, Zenon DEF Agent!data_rows

LEMMA TableIs ==
  ASSUME NEW r, TablesOK(r)
  PROVE  /\ Len(r.tables) \in Nat /\ DOMAIN r.tables = 1 .. Len(r.tables)
         /\ Range(r.tables) = {r.tables[k] : k \in 1 .. Len(r.tables)}
         /\ \A k \in 1 .. Len(r.tables) : r.tables[k].rows \in Seq(Cells)
<1> DEFINE s == r.tables
           S == ToSet(r.tables)
<1>1. s \in Seq(S) /\ \A t \in S : t.rows \in Seq(Cells)
  BY DEF TablesOK
<1> HIDE DEF S, s
<1>2. /\ Len(s) \in Nat /\ DOMAIN s = 1 .. Len(s)
      /\ \A k \in 1 .. Len(s) : s[k] \in S
  BY <1>1
<1>3. Range(s) = {s[k] : k \in 1 .. Len(s)}
  BY <1>2 DEF Range
<1>4. \A k \in 1 .. Len(s) : s[k].rows \in Seq(Cells)
  BY <1>1, <1>2
<1> QED BY <1>2, <1>3, <1>4 DEF s

LEMMA HeaderIs ==
  ASSUME NEW r, TablesOK(r)
  PROVE  Len(Agent!header_of(r)) \in Nat
<1> DEFINE A == {k \in DOMAIN r.tables : r.tables[k].rows # <<>> /\ r.tables[k].rows[1] # <<>>}
<1>0. Agent!header_of(r) = IF r.table_has_header /\ A # {} THEN r.tables[Min(A)].rows[1] ELSE <<>>
  BY DEF Agent!header_of, Agent!Min, Min
<1>1. CASE r.table_has_header /\ A # {}
  <2>1. A \in SUBSET Nat /\ A \subseteq 1 .. Len(r.tables)
    BY TableIs
  <2>2. Agent!header_of(r) = r.tables[Min(A)].rows[1]
    <3> HIDE DEF A
    <3> QED BY <1>0, <1>1, Zenon
  <2>3. Min(A) \in A
    <3> HIDE DEF A
    <3> QED BY <1>1, <2>1, MinOfSome
  <2> DEFINE rs == r.tables[Min(A)].rows
  <2>4. rs \in Seq(Cells) /\ rs # <<>>
    BY <2>1, <2>3, TableIs
  <2> HIDE DEF rs
  <2>5. rs[1] \in Cells
    BY <2>4
  <2>6. Len(rs[1]) \in Nat
    BY <2>5 DEF Cells
  <2> QED BY <2>2, <2>6, Zenon DEF rs
<1>2. CASE ~(r.table_has_header /\ A # {})
  <2>1. Agent!header_of(r) = <<>>
    <3> HIDE DEF A
    <3> QED BY <1>0, <1>2, Zenon
  <2> QED BY <2>1
<1> QED BY <1>1, <1>2

\* Every row of every table has at most max_cols cells.
LEMMA WidthIs ==
  ASSUME NEW r, TablesOK(r)
  PROVE  /\ Agent!max_cols(r) \in Nat
         /\ \A k \in 1 .. Len(r.tables) : \A j \in 1 .. Len(Agent!data_rows(r, r.tables[k])) :
               Len(Agent!data_rows(r, r.tables[k])[j]) <= Agent!max_cols(r)
<1> DEFINE N == Len(r.tables)
           D == [k \in 1 .. N |-> Agent!data_rows(r, r.tables[k])]
           widths == {Len(row) : row \in UNION {Range(Agent!data_rows(r, t)) : t \in Range(r.tables)}}
           W == widths \cup {0}
           widest == Max(W)
<1>0. Agent!max_cols(r) = IF widest = 0 THEN Len(Agent!header_of(r)) ELSE widest
  BY DEF Agent!max_cols, Agent!Max, Max, Agent!Range, Range, widest
<1> HIDE DEF widest
<1>1. N \in Nat /\ Range(r.tables) = {r.tables[k] : k \in 1 .. N}
  BY TableIs
<1>2. \A k \in 1 .. N : D[k] \in Seq(Cells)
  <2>1. \A k \in 1 .. N : Agent!data_rows(r, r.tables[k]) \in Seq(Cells)
    BY TableIs, DataIs
  <2> QED BY <2>1
<1>3. UNION {Range(Agent!data_rows(r, t)) : t \in Range(r.tables)}
        = UNION {Range(D[k]) : k \in 1 .. N}
  <2>1. {Range(Agent!data_rows(r, t)) : t \in Range(r.tables)} = {Range(D[k]) : k \in 1 .. N}
    <3> HIDE DEF N
    <3> QED BY <1>1
  <2> QED BY <2>1, Zenon
<1> HIDE DEF D, N
<1>4. \A k \in 1 .. N : /\ Range(D[k]) = {D[k][j] : j \in 1 .. Len(D[k])}
                        /\ Len(D[k]) \in Nat
                        /\ \A j \in 1 .. Len(D[k]) : Len(D[k][j]) \in Nat
  <2>1. ASSUME NEW s \in Seq(Cells)
        PROVE  /\ Range(s) = {s[j] : j \in 1 .. Len(s)} /\ Len(s) \in Nat
               /\ \A j \in 1 .. Len(s) : Len(s[j]) \in Nat
    <3>1. DOMAIN s = 1 .. Len(s) /\ Len(s) \in Nat /\ \A j \in 1 .. Len(s) : s[j] \in Cells
      OBVIOUS
    <3>2. \A c \in Cells : Len(c) \in Nat
      BY DEF Cells
    <3> QED BY <3>1, <3>2, Zenon DEF Range
  <2> QED BY <1>2, <2>1, Zenon
<1>5. \A w : w \in widths <=> \E k \in 1 .. N : \E j \in 1 .. Len(D[k]) : w = Len(D[k][j])
  <2> TAKE w
  <2> DEFINE all == UNION {Range(D[k]) : k \in 1 .. N}
  <2>1. \A row : row \in all <=> \E k \in 1 .. N : row \in Range(D[k])
    OBVIOUS
  <2>2. \A row : \A k \in 1 .. N : row \in Range(D[k]) <=> \E j \in 1 .. Len(D[k]) : row = D[k][j]
    <3> TAKE row
    <3> TAKE k \in 1 .. N
    <3>1. Range(D[k]) = {D[k][j] : j \in 1 .. Len(D[k])}
      BY <1>4
    <3> QED BY <3>1, Zenon
  <2>3. widths = {Len(row) : row \in all}
    BY <1>3, Zenon
  <2> HIDE DEF all
  <2>4. w \in widths <=> \E row \in all : w = Len(row)
    BY <2>3, Zenon
  <2>5. (\E row \in all : w = Len(row)) <=> \E k \in 1 .. N : \E j \in 1 .. Len(D[k]) : w = Len(D[k][j])
    <3>1. ASSUME NEW row \in all, w = Len(row)
          PROVE  \E k \in 1 .. N : \E j \in 1 .. Len(D[k]) : w = Len(D[k][j])
      <4>1. PICK k \in 1 .. N : row \in Range(D[k])
        BY <2>1, <3>1, Zenon
      <4>2. PICK j \in 1 .. Len(D[k]) : row = D[k][j]
        BY <2>2, <4>1, Zenon
      <4> QED BY <3>1, <4>2, Zenon
    <3>2. ASSUME NEW k \in 1 .. N, NEW j \in 1 .. Len(D[k]), w = Len(D[k][j])
          PROVE  \E row \in all : w = Len(row)
      <4>1. D[k][j] \in Range(D[k])
        BY <2>2, Zenon
      <4>2. D[k][j] \in all
        BY <2>1, <4>1, Zenon
      <4> QED BY <3>2, <4>2, Zenon
    <3> QED BY <3>1, <3>2, Zenon
  <2> QED BY <2>4, <2>5, Zenon
<1> HIDE DEF widths
<1>6. PICK b \in Nat : \A k \in 1 .. N : \A j \in 1 .. Len(D[k]) : Len(D[k][j]) <= b
  <2>1. ASSUME NEW k \in 1 .. N
        PROVE  \E b \in Nat : \A j \in 1 .. Len(D[k]) : Len(D[k][j]) <= b
    <3> DEFINE M == Len(D[k])
               f == [j \in 1 .. M |-> Len(D[k][j])]
    <3>1. M \in Nat /\ \A j \in 1 .. M : f[j] \in Nat
      BY <1>4
    <3> HIDE DEF f, M
    <3>2. \E b \in Nat : \A j \in 1 .. M : f[j] <= b
      BY <3>1, Bounded
    <3> QED BY <3>2 DEF f, M
  <2> DEFINE g == [k \in 1 .. N |-> CHOOSE b \in Nat : \A j \in 1 .. Len(D[k]) : Len(D[k][j]) <= b]
  <2>2. \A k \in 1 .. N : g[k] \in Nat /\ \A j \in 1 .. Len(D[k]) : Len(D[k][j]) <= g[k]
    BY <2>1
  <2> HIDE DEF g
  <2>3. PICK b \in Nat : \A k \in 1 .. N : g[k] <= b
    BY <1>1, <2>2, Bounded
  <2>4. ASSUME NEW k \in 1 .. N, NEW j \in 1 .. Len(D[k]) PROVE Len(D[k][j]) <= b
    <3>1. Len(D[k][j]) <= g[k] /\ g[k] <= b /\ g[k] \in Nat /\ Len(D[k][j]) \in Nat
      BY <1>4, <2>2, <2>3
    <3> QED BY <3>1
  <2> QED BY <2>4
<1>7. W \in SUBSET (0 .. b) /\ W # {}
  <2>1. \A k \in 1 .. N : \A j \in 1 .. Len(D[k]) : Len(D[k][j]) \in 0 .. b
    BY <1>4, <1>6, SMTT(30)
  <2>2. ASSUME NEW w \in widths PROVE w \in 0 .. b
    <3>1. PICK k \in 1 .. N : \E j \in 1 .. Len(D[k]) : w = Len(D[k][j])
      BY <1>5, Zenon
    <3> QED BY <2>1, <3>1, Zenon
  <2> QED BY <2>2
<1>8. Max(W) \in W /\ \A x \in W : x <= Max(W)
  <2> HIDE DEF W
  <2>1. 0 \in Int /\ b \in Int
    OBVIOUS
  <2> QED BY <1>7, <2>1, MaxOfSome
<1>9. widest \in Nat /\ \A k \in 1 .. N : \A j \in 1 .. Len(D[k]) : Len(D[k][j]) <= widest
  <2>1. \A k \in 1 .. N : \A j \in 1 .. Len(D[k]) : Len(D[k][j]) \in W
    <3>1. \A w : w \in widths => w \in W
      OBVIOUS
    <3> QED BY <1>5, <3>1, Zenon
  <2> HIDE DEF W
  <2>2. widest \in Nat
    <3>1. Max(W) \in 0 .. b
      BY <1>7, <1>8, Zenon
    <3>2. widest \in 0 .. b
      BY <3>1, Zenon DEF widest
    <3> QED BY <3>2
  <2>3. \A x \in W : x <= widest
    BY <1>8, Zenon DEF widest
  <2> QED BY <2>1, <2>2, <2>3, Zenon
<1>11. Len(Agent!header_of(r)) \in Nat
  BY HeaderIs
<1>12. Agent!max_cols(r) \in Nat /\ widest <= Agent!max_cols(r)
  BY <1>0, <1>9, <1>11
<1>13. \A k \in 1 .. N : \A j \in 1 .. Len(D[k]) : Len(D[k][j]) <= Agent!max_cols(r)
  <2>1. ASSUME NEW k \in 1 .. N, NEW j \in 1 .. Len(D[k]) PROVE Len(D[k][j]) <= Agent!max_cols(r)
    <3>1. Len(D[k][j]) \in Nat /\ Len(D[k][j]) <= widest
      BY <1>4, <1>9
    <3> QED BY <1>9, <1>12, <3>1
  <2> QED BY <2>1
<1>14. \A k \in 1 .. N : D[k] = Agent!data_rows(r, r.tables[k])
  BY DEF D
<1>15. \A k \in 1 .. N : \A j \in 1 .. Len(Agent!data_rows(r, r.tables[k])) :
               Len(Agent!data_rows(r, r.tables[k])[j]) <= Agent!max_cols(r)
  BY <1>13, <1>14, Zenon
<1> QED BY <1>12, <1>15, Zenon DEF N

\* t has the cells of s, each in its place behind id others, and Null for what s has not.
Widened(s, t, id, n) ==
  /\ Len(s) <= n /\ Len(t) = id + n /\ id + Len(s) <= Len(t)
  /\ \A c \in id + 1 .. Len(t) : t[c] = IF c - id <= Len(s) THEN s[c - id] ELSE Null

LEMMA WidenedIs ==
  ASSUME NEW U, NEW front \in Seq(U), NEW s \in Cells, NEW n \in Nat, Len(s) <= n,
         Null \in U, Seq(STRING) \subseteq U
  PROVE  LET t == front \o [c \in 1 .. n |-> IF c <= Len(s) THEN s[c] ELSE Null]
         IN  t \in Seq(U) /\ Widened(s, t, Len(front), n)
<1> DEFINE w == [c \in 1 .. n |-> IF c <= Len(s) THEN s[c] ELSE Null]
           t == front \o w
           id == Len(front)
<1>1. Len(s) \in Nat /\ \A c \in 1 .. Len(s) : s[c] \in U
  BY DEF Cells
<1>2. w \in Seq(U) /\ Len(w) = n /\ \A c \in 1 .. n : w[c] = IF c <= Len(s) THEN s[c] ELSE Null
  <2>1. \A c \in 1 .. n : (IF c <= Len(s) THEN s[c] ELSE Null) \in U
    BY <1>1
  <2>2. w \in [1 .. n -> U]
    BY <2>1
  <2> QED BY <2>2
<1> HIDE DEF w
<1>3. /\ t \in Seq(U) /\ Len(t) = id + n /\ id \in Nat
      /\ \A k \in 1 .. Len(w) : t[id + k] = w[k]
  <2>1. /\ front \o w \in Seq(U) /\ Len(front \o w) = Len(front) + Len(w)
        /\ \A k \in 1 .. Len(w) : (front \o w)[Len(front) + k] = w[k]
    <3>1. front \in Seq(U) /\ w \in Seq(U)
      BY <1>2
    <3>2. front \o w \in Seq(U) /\ Len(front \o w) = Len(front) + Len(w)
      BY <3>1, JoinedIs, SMTT(30)
    <3>3. \A k \in 1 .. Len(w) : (front \o w)[Len(front) + k] = w[k]
      <4>1. ASSUME NEW v \in Seq(U) PROVE \A k \in 1 .. Len(v) : (front \o v)[Len(front) + k] = v[k]
        BY JoinedIs, SMT
      <4> QED BY <3>1, <4>1, Zenon
    <3> QED BY <3>2, <3>3
  <2>2. Len(front) \in Nat
    OBVIOUS
  <2> QED BY <1>2, <2>1, <2>2, Zenon
<1> HIDE DEF t, id
<1>4. ASSUME NEW c \in id + 1 .. Len(t)
      PROVE  t[c] = IF c - id <= Len(s) THEN s[c - id] ELSE Null
  <2>1. c - id \in 1 .. n /\ id + (c - id) = c /\ c - id \in 1 .. Len(w)
    BY <1>2, <1>3
  <2>2. t[c] = w[c - id]
    BY <1>3, <2>1
  <2>3. w[c - id] = IF c - id <= Len(s) THEN s[c - id] ELSE Null
    BY <1>2, <2>1
  <2> QED BY <2>2, <2>3, Zenon
<1>5. Widened(s, t, id, n)
  <2>1. id + Len(s) <= Len(t)
    BY <1>1, <1>3
  <2> QED BY <1>3, <1>4, <2>1, Zenon DEF Widened
<1> QED BY <1>3, <1>5, Zenon DEF t, w, id

\* The number of columns before those of the tables.
Before(r) == IF Agent!include_table_id(r) THEN 1 ELSE 0

LEMMA ColumnsOfTable ==
  ASSUME NEW r, TablesOK(r)
  PROVE  Len(Agent!TableColumns(r)) = Before(r) + Agent!max_cols(r)
<1> DEFINE n == Agent!max_cols(r)
           header == Agent!header_of(r)
           Name(k) == IF k <= Len(header) /\ header[k] # <<>> THEN header[k] ELSE <<"col_", ToString(k)>>
           first == [name |-> "table_node_id", type |-> "number"]
           front == IF Agent!include_table_id(r) THEN <<first>> ELSE <<>>
           w == [k \in 1 .. n |-> [name |-> Name(k), type |-> "string"]]
           S == {first} \cup {w[k] : k \in 1 .. n}
<1>1. Agent!TableColumns(r) = front \o w
  BY DEF Agent!TableColumns
<1>2. n \in Nat
  BY WidthIs
<1>3. front \in Seq(S) /\ Len(front) = Before(r)
  <2>1. first \in S
    OBVIOUS
  <2> HIDE DEF S, first
  <2> QED BY <2>1 DEF Before
<1>4. w \in Seq(S) /\ Len(w) = n
  <2>1. \A k \in 1 .. n : w[k] \in S
    OBVIOUS
  <2>2. DOMAIN w = 1 .. n /\ w = [k \in 1 .. n |-> w[k]]
    OBVIOUS
  <2> HIDE DEF S, w, n
  <2> QED BY <1>2, <2>1, <2>2
<1> HIDE DEF front, w, n, S
<1>5. Len(front \o w) = Before(r) + n
  <2>1. Len(front \o w) = Len(front) + Len(w)
    BY <1>3, <1>4, JoinedIs, Zenon
  <2> QED BY <1>3, <1>4, <2>1, Zenon
<1> QED BY <1>1, <1>5, Zenon DEF n

\* The rows of all tables, as they are and as they are replied.
DataOf(r) == FlattenSeq([k \in DOMAIN r.tables |-> Agent!data_rows(r, r.tables[k])])

RowsOfTable(r, t) ==
  [k \in DOMAIN Agent!data_rows(r, t) |-> Agent!TableRow(r, t, Agent!data_rows(r, t)[k])]

RowsOf(r) == FlattenSeq([k \in DOMAIN r.tables |-> RowsOfTable(r, r.tables[k])])

LEMMA RowOfTable ==
  ASSUME NEW r, TablesOK(r), NEW U, Null \in U, Seq(STRING) \subseteq U,
         NEW t, t.node_id \in U, NEW row \in Cells, Len(row) <= Agent!max_cols(r)
  PROVE  /\ Agent!TableRow(r, t, row) \in Seq(U)
         /\ Widened(row, Agent!TableRow(r, t, row), Before(r), Agent!max_cols(r))
<1> DEFINE n == Agent!max_cols(r)
           front == IF Agent!include_table_id(r) THEN <<t.node_id>> ELSE <<>>
           w == front \o [c \in 1 .. n |-> IF c <= Len(row) THEN row[c] ELSE Null]
<1>1. Agent!TableRow(r, t, row) = w
  BY DEF Agent!TableRow
<1>2. n \in Nat
  BY WidthIs
<1>3. front \in Seq(U) /\ Len(front) = Before(r)
  BY DEF Before
<1> HIDE DEF front, n
<1>4. Len(row) <= n
  BY DEF n
<1>5. w \in Seq(U) /\ Widened(row, w, Len(front), n)
  BY <1>2, <1>3, <1>4, WidenedIs
<1> QED BY <1>1, <1>3, <1>5, Zenon DEF n

\* The rows of one table as they are replied.
LEMMA RowsOfOne ==
  ASSUME NEW r, TablesOK(r), NEW U, Null \in U, Seq(STRING) \subseteq U,
         NEW k \in 1 .. Len(r.tables), r.tables[k].node_id \in U,
         NEW R, R = {p \in Cells \X Seq(U) : Widened(p[1], p[2], Before(r), Agent!max_cols(r))}
  PROVE  /\ Agent!data_rows(r, r.tables[k]) \in Seq(Cells)
         /\ RowsOfTable(r, r.tables[k]) \in Seq(Seq(U))
         /\ Paired(R, Agent!data_rows(r, r.tables[k]), RowsOfTable(r, r.tables[k]))
<1> DEFINE t == r.tables[k]
           d == Agent!data_rows(r, t)
           w == RowsOfTable(r, t)
<1>1. d \in Seq(Cells)
  BY TableIs, DataIs
<1>2. \A j \in 1 .. Len(d) : Len(d[j]) <= Agent!max_cols(r)
  BY WidthIs
<1>3. t.node_id \in U /\ w = [j \in DOMAIN d |-> Agent!TableRow(r, t, d[j])]
  BY DEF RowsOfTable
<1> HIDE DEF t, d, w
<1>4. DOMAIN d = 1 .. Len(d) /\ Len(d) \in Nat /\ \A j \in 1 .. Len(d) : d[j] \in Cells
  BY <1>1
<1>5. ASSUME NEW j \in 1 .. Len(d)
      PROVE  /\ Agent!TableRow(r, t, d[j]) \in Seq(U)
             /\ Widened(d[j], Agent!TableRow(r, t, d[j]), Before(r), Agent!max_cols(r))
  <2>1. d[j] \in Cells /\ Len(d[j]) <= Agent!max_cols(r)
    BY <1>2, <1>4
  <2> QED BY <1>3, <2>1, RowOfTable
<1>6. /\ DOMAIN w = 1 .. Len(d) /\ w = [j \in 1 .. Len(d) |-> w[j]]
      /\ \A j \in 1 .. Len(d) : w[j] = Agent!TableRow(r, t, d[j])
  BY <1>3, <1>4
<1>7. \A j \in 1 .. Len(d) : w[j] \in Seq(U) /\ Widened(d[j], w[j], Before(r), Agent!max_cols(r))
  BY <1>5, <1>6, Zenon
<1>8. w \in Seq(Seq(U)) /\ Len(w) = Len(d)
  <2> DEFINE T == Seq(U)
  <2>1. \A j \in 1 .. Len(d) : w[j] \in T
    BY <1>7
  <2> HIDE DEF T
  <2>2. w \in Seq(T) /\ Len(w) = Len(d)
    BY <1>4, <1>6, <2>1
  <2> QED BY <2>2 DEF T
<1>9. ASSUME NEW j \in 1 .. Len(d) PROVE <<d[j], w[j]>> \in R
  <2>1. d[j] \in Cells /\ w[j] \in Seq(U) /\ Widened(d[j], w[j], Before(r), Agent!max_cols(r))
    BY <1>4, <1>7
  <2>2. <<d[j], w[j]>> \in Cells \X Seq(U)
    BY <2>1
  <2> DEFINE p == <<d[j], w[j]>>
  <2>3. p \in Cells \X Seq(U) /\ p[1] = d[j] /\ p[2] = w[j]
    BY <2>2
  <2> HIDE DEF p
  <2>4. p \in R
    BY <2>1, <2>3, Zenon
  <2> QED BY <2>4 DEF p
<1>10. Paired(R, d, w)
  BY <1>8, <1>9 DEF Paired
<1> QED BY <1>1, <1>8, <1>10 DEF t, d, w

\* The rows of all tables are replied in the order of the tables, each widened to all columns.
LEMMA RowsOfAll ==
  ASSUME NEW r, TablesOK(r)
  PROVE  /\ \E T : RowsOf(r) \in Seq(T)
         /\ Len(RowsOf(r)) = Len(DataOf(r))
         /\ \A k \in 1 .. Len(RowsOf(r)) :
               Widened(DataOf(r)[k], RowsOf(r)[k], Before(r), Agent!max_cols(r))
<1> DEFINE N == Len(r.tables)
           U == {r.tables[k].node_id : k \in 1 .. N} \cup {Null} \cup Seq(STRING)
           R == {p \in Cells \X Seq(U) : Widened(p[1], p[2], Before(r), Agent!max_cols(r))}
           T == Seq(U)
           dd == [k \in DOMAIN r.tables |-> Agent!data_rows(r, r.tables[k])]
           ww == [k \in DOMAIN r.tables |-> RowsOfTable(r, r.tables[k])]
<1>1. N \in Nat /\ DOMAIN r.tables = 1 .. N
  BY TableIs
<1>2. Null \in U /\ Seq(STRING) \subseteq U /\ \A k \in 1 .. N : r.tables[k].node_id \in U
  OBVIOUS
<1>3. R = {p \in Cells \X Seq(U) : Widened(p[1], p[2], Before(r), Agent!max_cols(r))}
  OBVIOUS
<1> HIDE DEF U, R
<1>4. \A k \in 1 .. N : /\ Agent!data_rows(r, r.tables[k]) \in Seq(Cells)
                        /\ RowsOfTable(r, r.tables[k]) \in Seq(Seq(U))
                        /\ Paired(R, Agent!data_rows(r, r.tables[k]), RowsOfTable(r, r.tables[k]))
  BY <1>2, <1>3, RowsOfOne
<1>5. /\ dd = [k \in 1 .. N |-> dd[k]] /\ ww = [k \in 1 .. N |-> ww[k]]
      /\ \A k \in 1 .. N : dd[k] = Agent!data_rows(r, r.tables[k]) /\ ww[k] = RowsOfTable(r, r.tables[k])
  BY <1>1
<1> HIDE DEF dd, ww, N, T
<1>6. \A k \in 1 .. N : dd[k] \in Seq(Cells) /\ ww[k] \in Seq(T) /\ Paired(R, dd[k], ww[k])
  BY <1>4, <1>5, Zenon DEF T
<1>7. dd \in Seq(Seq(Cells)) /\ ww \in Seq(Seq(T)) /\ Len(dd) = N /\ Len(ww) = N
  <2>1. ASSUME NEW S, NEW f, f = [k \in 1 .. N |-> f[k]], \A k \in 1 .. N : f[k] \in S
        PROVE  f \in Seq(S) /\ Len(f) = N
    BY <1>1, <2>1
  <2>2. dd \in Seq(Seq(Cells)) /\ Len(dd) = N
    BY <1>5, <1>6, <2>1
  <2>3. ww \in Seq(Seq(T)) /\ Len(ww) = N
    BY <1>5, <1>6, <2>1
  <2> QED BY <2>2, <2>3
<1>8. \A k \in 1 .. Len(dd) : Paired(R, dd[k], ww[k])
  BY <1>6, <1>7
<1>9. FlattenSeq(ww) \in Seq(T) /\ Paired(R, FlattenSeq(dd), FlattenSeq(ww))
  BY <1>7, <1>8, PairedFlattened
<1>10. FlattenSeq(dd) = DataOf(r) /\ FlattenSeq(ww) = RowsOf(r)
  BY DEF DataOf, RowsOf, dd, ww
<1>11. \A k \in 1 .. Len(DataOf(r)) : <<DataOf(r)[k], RowsOf(r)[k]>> \in R
  BY <1>9, <1>10, Zenon DEF Paired
<1>12. Len(RowsOf(r)) = Len(DataOf(r)) /\ RowsOf(r) \in Seq(T)
  BY <1>9, <1>10, Zenon DEF Paired
<1>13. ASSUME NEW s, NEW t, <<s, t>> \in R
       PROVE  Widened(s, t, Before(r), Agent!max_cols(r))
  <2> DEFINE p == <<s, t>>
  <2>1. p[1] = s /\ p[2] = t
    OBVIOUS
  <2>2. p \in R
    BY <1>13
  <2> HIDE DEF p
  <2> QED BY <1>3, <2>1, <2>2, Zenon
<1> QED BY <1>11, <1>12, <1>13, Zenon

\* Whatever the limit, the reply for r is what it leaves of the same rows, one value for
\* each column.
Mapped(r, columns, whole) ==
  /\ \A limit \in Nat : IsCut(Agent!map_result(r, limit), columns, whole, limit)
  /\ \E T : whole \in Seq(T)
  /\ \A k \in 1 .. Len(whole) : Len(whole[k]) = Len(columns)

LEMMA TablesMapped ==
  ASSUME NEW r, TablesOK(r), r.to_table, r.tables # <<>>
  PROVE  Mapped(r, Agent!TableColumns(r), RowsOf(r))
<1>1. PICK T : RowsOf(r) \in Seq(T)
  BY RowsOfAll
<1>2. ASSUME NEW limit
      PROVE  Agent!map_result(r, limit) = Agent!Emit(Agent!TableColumns(r), RowsOf(r), limit)
  <2> DEFINE ww == [k \in DOMAIN r.tables |-> RowsOfTable(r, r.tables[k])]
  <2>1. Agent!map_result(r, limit) = Agent!map_table_result(r, limit)
    BY DEF Agent!map_result
  <2>2. Agent!map_table_result(r, limit) = Agent!Emit(Agent!TableColumns(r), Agent!FlattenSeq(ww), limit)
    BY DEF Agent!map_table_result, RowsOfTable
  <2>3. Agent!FlattenSeq(ww) = RowsOf(r)
    BY AgentFlattens, Zenon DEF RowsOf
  <2> QED BY <2>1, <2>2, <2>3, Zenon
<1>3. \A limit \in Nat : IsCut(Agent!Emit(Agent!TableColumns(r), RowsOf(r), limit),
                               Agent!TableColumns(r), RowsOf(r), limit)
  BY <1>1, EmitCuts
<1>4. \A k \in 1 .. Len(RowsOf(r)) : Len(RowsOf(r)[k]) = Len(Agent!TableColumns(r))
  BY RowsOfAll, ColumnsOfTable, Zenon DEF Widened
<1> QED BY <1>1, <1>2, <1>3, <1>4, Zenon DEF Mapped

RowsOK(r) == r.columns \in Seq(ToSet(r.columns)) /\ r.rows \in Seq(ToSet(r.rows))

LEMMA LengthsOf ==
  ASSUME NEW S, NEW s \in Seq(S)
  PROVE  Len(s) \in Nat /\ DOMAIN s = 1 .. Len(s)
OBVIOUS

\* A function on the places of a sequence is a sequence.
LEMMA SameLength ==
  ASSUME NEW N \in Nat, NEW f, DOMAIN f = 1 .. N, f = [k \in 1 .. N |-> f[k]]
  PROVE  Len(f) = N /\ \E T : f \in Seq(T)
<1> DEFINE T == {f[k] : k \in 1 .. N}
<1>1. \A k \in 1 .. N : f[k] \in T
  OBVIOUS
<1> HIDE DEF T
<1>2. f \in Seq(T) /\ Len(f) = N
  BY <1>1
<1> QED BY <1>2

LEMMA ListMapped ==
  ASSUME NEW r, RowsOK(r), ~r.to_table, r.to_list
  PROVE  \E columns, whole : Mapped(r, columns, whole) /\ Len(whole) = Len(r.rows)
<1> DEFINE field == IF r.columns = <<>> THEN "value" ELSE r.columns[1]
           columns == <<Agent!Column(field)>>
           N == Len(r.rows)
           whole == [k \in DOMAIN r.rows |-> <<Agent!value_for_field(field, r.rows[k])>>]
<1>1. N \in Nat /\ DOMAIN r.rows = 1 .. N
  BY LengthsOf DEF RowsOK
<1>2. ASSUME NEW limit PROVE Agent!map_result(r, limit) = Agent!Emit(columns, whole, limit)
  <2>1. Agent!map_result(r, limit) = Agent!map_list_result(r, limit)
    BY DEF Agent!map_result
  <2>2. Agent!map_list_result(r, limit) = Agent!Emit(columns, whole, limit)
    BY DEF Agent!map_list_result
  <2> QED BY <2>1, <2>2, Zenon
<1> HIDE DEF field
<1>3. /\ DOMAIN whole = 1 .. N /\ whole = [k \in 1 .. N |-> whole[k]]
      /\ \A k \in 1 .. N : whole[k] = <<Agent!value_for_field(field, r.rows[k])>>
  <2> HIDE DEF N
  <2> QED BY <1>1
<1>4. Len(columns) = 1 /\ \A k \in 1 .. N : Len(whole[k]) = 1
  BY <1>3
<1> HIDE DEF columns, whole, N
<1>5. Len(whole) = N /\ \E T : whole \in Seq(T)
  BY <1>1, <1>3, SameLength
<1>6. PICK T : whole \in Seq(T)
  BY <1>5
<1>7. \A limit \in Nat : IsCut(Agent!Emit(columns, whole, limit), columns, whole, limit)
  BY <1>6, EmitCuts
<1>8. Mapped(r, columns, whole)
  BY <1>2, <1>4, <1>5, <1>7, Zenon DEF Mapped
<1> QED BY <1>5, <1>8, Zenon DEF N

LEMMA RowsMapped ==
  ASSUME NEW r, RowsOK(r), ~r.to_table, ~r.to_list
  PROVE  \E columns, whole : Mapped(r, columns, whole) /\ Len(whole) = Len(r.rows)
<1> DEFINE fields == Agent!resolve_columns(r)
           columns == [c \in DOMAIN fields |-> Agent!Column(fields[c])]
           N == Len(r.rows)
           Values(row) == [c \in DOMAIN fields |-> Agent!value_for_field(fields[c], row)]
           whole == [k \in DOMAIN r.rows |-> Values(r.rows[k])]
<1>1. N \in Nat /\ DOMAIN r.rows = 1 .. N
  BY LengthsOf DEF RowsOK
<1>2. Len(fields) \in Nat /\ DOMAIN fields = 1 .. Len(fields)
  <2>1. CASE r.columns # <<>>
    <3>1. fields = r.columns
      BY <2>1, Zenon DEF Agent!resolve_columns
    <3>2. Len(r.columns) \in Nat /\ DOMAIN r.columns = 1 .. Len(r.columns)
      BY LengthsOf DEF RowsOK
    <3> QED BY <3>1, <3>2, Zenon
  <2>2. CASE ~(r.columns # <<>>)
    <3> DEFINE s == <<"node_id", "tag", "attributes", "parent_id", "max_depth", "doc_order">>
    <3>1. fields = s
      BY <2>2, Zenon DEF Agent!resolve_columns
    <3>2. ASSUME NEW a, NEW b, NEW c, NEW d, NEW e, NEW f
          PROVE  Len(<<a, b, c, d, e, f>>) = 6 /\ DOMAIN <<a, b, c, d, e, f>> = 1 .. 6
      OBVIOUS
    <3>3. Len(s) \in Nat /\ DOMAIN s = 1 .. Len(s)
      <4>1. Len(s) = 6 /\ DOMAIN s = 1 .. 6
        BY <3>2, Zenon
      <4> HIDE DEF s
      <4> QED BY <4>1
    <3> QED BY <3>1, <3>3, Zenon
  <2> QED BY <2>1, <2>2
<1>3. ASSUME NEW limit PROVE Agent!map_result(r, limit) = Agent!Emit(columns, whole, limit)
  <2>1. Agent!map_result(r, limit) = Agent!map_row_result(r, limit)
    BY DEF Agent!map_result
  <2>2. Agent!map_row_result(r, limit) = Agent!Emit(columns, whole, limit)
    BY DEF Agent!map_row_result
  <2> QED BY <2>1, <2>2, Zenon
<1> DEFINE M == Len(fields)
<1> HIDE DEF fields
<1>4. Len(columns) = M
  <2>1. columns = [c \in 1 .. M |-> Agent!Column(fields[c])]
    BY <1>2, Zenon
  <2>2. M \in Nat /\ DOMAIN columns = 1 .. M /\ columns = [c \in 1 .. M |-> columns[c]]
    <3>1. M \in Nat
      BY <1>2
    <3> HIDE DEF columns, M
    <3> QED BY <2>1, <3>1
  <2> HIDE DEF columns, M
  <2> QED BY <2>2, SameLength
<1>5. ASSUME NEW row PROVE Len(Values(row)) = M
  <2> DEFINE v == Values(row)
  <2>1. v = [c \in 1 .. M |-> Agent!value_for_field(fields[c], row)]
    BY <1>2, Zenon
  <2>2. M \in Nat /\ DOMAIN v = 1 .. M /\ v = [c \in 1 .. M |-> v[c]]
    <3>1. M \in Nat
      BY <1>2
    <3> HIDE DEF v, M
    <3> QED BY <2>1, <3>1
  <2>3. Len(v) = M
    <3> HIDE DEF v, M
    <3> QED BY <2>2, SameLength
  <2> QED BY <2>3
<1> HIDE DEF Values, M
<1>6. /\ DOMAIN whole = 1 .. N /\ whole = [k \in 1 .. N |-> whole[k]]
      /\ \A k \in 1 .. N : whole[k] = Values(r.rows[k])
  <2> HIDE DEF N
  <2> QED BY <1>1
<1>7. \A k \in 1 .. N : Len(whole[k]) = Len(columns)
  <2> HIDE DEF columns, whole, N
  <2> QED BY <1>4, <1>5, <1>6, Zenon
<1> HIDE DEF columns, whole, N
<1>8. Len(whole) = N /\ \E T : whole \in Seq(T)
  BY <1>1, <1>6, SameLength
<1>9. PICK T : whole \in Seq(T)
  BY <1>8
<1>10. \A limit \in Nat : IsCut(Agent!Emit(columns, whole, limit), columns, whole, limit)
  BY <1>9, EmitCuts
<1>11. Mapped(r, columns, whole)
  BY <1>3, <1>7, <1>8, <1>10, Zenon DEF Mapped
<1> QED BY <1>8, <1>11, Zenon DEF N

\* What is replied of rows that are mapped has no hole, and only a limit cuts it short.
LEMMA ReplyOfMapped ==
  ASSUME NEW columns, NEW whole, Mapped(result, columns, whole),
         Len(whole) = Len(Agent!DataRows), Agent!max_rows \in Nat,
         payload = Agent!map_result(result, Agent!max_rows)
  PROVE  Rectangular /\ CutShort /\ DOMAIN payload.rows \subseteq 1 .. Len(whole)
         /\ \A k \in DOMAIN payload.rows : payload.rows[k] = whole[k]
<1> DEFINE limit == Agent!max_rows
           N == Len(whole)
           least == IF N <= limit THEN N ELSE limit
<1>1. PICK T : whole \in Seq(T)
  BY DEF Mapped
<1>2. N \in Nat /\ limit \in Nat /\ least \in Nat /\ least <= N
  BY <1>1
<1>3. /\ payload.columns = columns /\ payload.rows = SubSeq(whole, 1, least)
      /\ payload.truncated <=> N > limit
  BY Zenon DEF Mapped, IsCut
<1> HIDE DEF limit
<1>4. /\ DOMAIN SubSeq(whole, 1, least) = 1 .. least
      /\ \A k \in 1 .. least : SubSeq(whole, 1, least)[k] = whole[k]
      /\ SubSeq(whole, 1, N) = whole
  <2> HIDE DEF least
  <2> QED BY <1>1, <1>2
<1> HIDE DEF N, least
<1>5. 1 .. least \subseteq 1 .. N
  BY <1>2
<1>6. DOMAIN payload.rows = 1 .. least /\ \A k \in 1 .. least : payload.rows[k] = whole[k]
  BY <1>3, <1>4, Zenon
<1>7. Rectangular
  <2>1. \A k \in 1 .. N : Len(whole[k]) = Len(columns)
    BY Zenon DEF Mapped, N
  <2>2. \A k \in DOMAIN payload.rows : Len(payload.rows[k]) = Len(payload.columns)
    BY <1>3, <1>5, <1>6, <2>1, Zenon
  <2> QED BY <2>2 DEF Rectangular, Agent!Rectangular
<1>8. CutShort
  <2> DEFINE p == Agent!map_result(result, N + 1)
  <2>1. IsCut(p, columns, whole, N + 1)
    <3>1. N + 1 \in Nat
      BY <1>2
    <3> QED BY <3>1, Zenon DEF Mapped
  <2>2. p.columns = columns /\ p.rows = SubSeq(whole, 1, N)
    <3>1. N <= N + 1
      BY <1>2
    <3> QED BY <2>1, <3>1, Zenon DEF IsCut, N
  <2>3. Len(Agent!DataRows) = N
    BY Zenon DEF N
  <2>4. Min({limit, N}) = least
    <3>1. {limit, N} \in SUBSET Nat /\ {limit, N} # {}
      BY <1>2
    <3>2. Min({limit, N}) \in {limit, N} /\ \A x \in {limit, N} : Min({limit, N}) <= x
      BY <3>1, MinOfSome
    <3> QED BY <1>2, <3>2 DEF least
  <2>5. Agent!Min({limit, N}) = Min({limit, N})
    BY DEF Agent!Min, Min
  <2> HIDE DEF p
  <2>6. /\ payload.columns = p.columns
        /\ payload.rows = SubSeq(p.rows, 1, Agent!Min({limit, N}))
        /\ payload.truncated <=> N > limit
    BY <1>3, <1>4, <2>2, <2>4, <2>5, Zenon
  <2> QED BY <2>3, <2>6, Zenon DEF CutShort, Agent!CutShort, p, limit
<1> QED BY <1>5, <1>6, <1>7, <1>8, Zenon DEF N
----------------------------------------------------------------------------
(* The specification: what is answered was asked, and what is replied was answered. *)

\* The answer to a question for names is what build_column_name_map makes of them; a reply is
\* what the agent maps the result to.
AnswerInv ==
  /\ page \in Pages /\ requested \in Int \cup {Null}
  /\ Asked("names") => /\ query.raw \in Seq(Seq(STRING))
                       /\ rows = build_column_name_map(query.raw, query.mode, TRUE)
  /\ payload # Agent!Nothing => phase = "replied"
  /\ phase = "replied" => payload = Agent!map_result(result, Agent!max_rows)

\* While the page is read nothing is answered.
LEMMA ReadingOn ==
  ASSUME DocNext
  PROVE  phase \notin {"answered", "replied"} /\ phase' \notin {"answered", "replied"}
<1>1. CASE ParseStep
  <2>1. phase = "parse" /\ phase' = phase
    BY <1>1 DEF ParseStep
  <2> QED BY <2>1
<1>2. CASE ParseEnds
  BY <1>2 DEF ParseEnds
<1>3. CASE NumberNode
  <2>1. phase = "order" /\ phase' = phase
    BY <1>3 DEF NumberNode
  <2> QED BY <2>1
<1>4. CASE OrderEnds
  BY <1>4 DEF OrderEnds
<1>5. CASE MeasureNode
  <2>1. phase = "depth" /\ phase' = phase
    BY <1>5 DEF MeasureNode
  <2> QED BY <2>1
<1>6. CASE DepthEnds
  BY <1>6 DEF DepthEnds
<1> QED BY <1>1, <1>2, <1>3, <1>4, <1>5, <1>6 DEF DocNext, MetadataStep

LEMMA AnswerStep ==
  ASSUME AnswerInv, [ResultsNext]_resultVars
  PROVE  AnswerInv'
<1>1. page \in Pages /\ requested \in Int \cup {Null} /\ (payload # Agent!Nothing => phase = "replied")
      /\ (phase = "replied" => payload = Agent!map_result(result, Agent!max_rows))
  BY DEF AnswerInv
<1>2. CASE DocNext /\ UNCHANGED <<query, rows, says, page, result, requested, payload>>
  <2>1. phase \notin {"answered", "replied"} /\ phase' \notin {"answered", "replied"}
    BY <1>2, ReadingOn
  <2>2. page' = page /\ requested' = requested /\ payload' = payload
    BY <1>2
  <2>3. payload = Agent!Nothing
    BY <1>1, <2>1
  <2> QED BY <1>1, <2>1, <2>2, <2>3 DEF AnswerInv, Asked, Agent!Nothing
<1>3. ASSUME NEW q \in Questions[page.of], Ask(q) PROVE AnswerInv'
  <2>1. /\ phase = "parsed" /\ phase' = "answered" /\ query' = q /\ rows' = AnswerTo(q)
        /\ page' = page /\ requested' \in Limits[page.of] /\ payload' = payload
    BY <1>3 DEF Ask
  <2>2. payload = Agent!Nothing
    BY <1>1, <2>1
  <2>3. ASSUME q.kind = "names"
        PROVE  q.raw \in Seq(Seq(STRING)) /\ AnswerTo(q) = build_column_name_map(q.raw, q.mode, TRUE)
    <3>1. page.of \in {p.of : p \in Pages}
      BY <1>1
    <3>2. q.raw \in Seq(Seq(STRING))
      BY <2>3, <3>1, ResultsAssumption
    <3>3. AnswerTo(q) = build_column_name_map(q.raw, q.mode, TRUE)
      BY <2>3 DEF AnswerTo
    <3> QED BY <3>2, <3>3
  <2>4. requested' \in Int \cup {Null}
    <3>1. page.of \in {p.of : p \in Pages}
      BY <1>1
    <3> QED BY <2>1, <3>1, ResultsAssumption
  <2> QED BY <1>1, <2>1, <2>2, <2>3, <2>4 DEF AnswerInv, Asked, Agent!Nothing
<1>4. CASE Reply
  <2>1. /\ phase' = "replied" /\ page' = page /\ result' = result /\ requested' = requested
        /\ payload' = Agent!map_result(result, Agent!max_rows)
    BY <1>4 DEF Reply, Agent!MapResult
  <2>2. (Agent!map_result(result, Agent!max_rows))' = Agent!map_result(result, Agent!max_rows)
    BY <2>1 DEF Agent!max_rows
  <2> QED BY <1>1, <2>1, <2>2 DEF AnswerInv, Asked
<1>5. CASE UNCHANGED resultVars
  <2>1. /\ phase' = phase /\ query' = query /\ rows' = rows /\ page' = page
        /\ result' = result /\ requested' = requested /\ payload' = payload
    BY <1>5 DEF resultVars, vars, docVars
  <2>2. (Agent!map_result(result, Agent!max_rows))' = Agent!map_result(result, Agent!max_rows)
    BY <2>1 DEF Agent!max_rows
  <2> QED BY <2>1, <2>2 DEF AnswerInv, Asked, Agent!Nothing
<1> QED BY <1>2, <1>3, <1>4, <1>5 DEF ResultsNext

LEMMA Answered ==
  ResultsSpec => []AnswerInv
<1>1. ResultsInit => AnswerInv
  BY DEF ResultsInit, DocInit, AnswerInv, Asked, Agent!Nothing
<1>2. AnswerInv /\ [ResultsNext]_resultVars => AnswerInv'
  BY AnswerStep
<1> QED BY <1>1, <1>2, PTL DEF ResultsSpec

\* Whatever the columns of a result are called, their normalised names are all different, and
\* stay as they are when they are normalised once more.
THEOREM NormalizedNamesSafe ==
  ASSUME NumeralsDiffer
  PROVE  ResultsSpec => []NormalizedNamesDistinct
<1>1. AnswerInv => NormalizedNamesDistinct
  <2>1. SUFFICES ASSUME AnswerInv, Asked("names"), query.mode = "normalize"
                 PROVE  /\ IsInjective(rows)
                        /\ \A k \in DOMAIN rows :
                              base_name(rows[k], "normalize", TRUE)
                                = base_name(base_name(rows[k], "normalize", TRUE), "normalize", TRUE)
    BY DEF NormalizedNamesDistinct
  <2>2. query.raw \in Seq(Seq(STRING)) /\ rows = build_column_name_map(query.raw, "normalize", TRUE)
    BY <2>1 DEF AnswerInv
  <2> QED BY <2>2, NormalizedColumnsDiffer
<1> QED BY <1>1, Answered, PTL

\* Whatever the query and its result, if that is made of sequences: the reply is a table
\* without a hole, max_rows cuts it short and does nothing else to it, and no cell of a table
\* is lost or moved.
THEOREM ReplySafe ==
  ResultsSpec => [](ResultTypeOK => ReplyInv)
<1>1. AnswerInv /\ ResultTypeOK => ReplyInv
  <2>1. SUFFICES ASSUME AnswerInv, ResultTypeOK PROVE Rectangular /\ CutShort /\ CellsKept
    BY DEF ReplyInv
  <2>2. CASE payload = Agent!Nothing
    <3>1. payload.rows = <<>> /\ DOMAIN <<>> = {}
      BY <2>2 DEF Agent!Nothing
    <3>2. Rectangular
      BY <3>1, Zenon DEF Rectangular, Agent!Rectangular
    <3>3. CutShort /\ CellsKept
      BY <2>2, Zenon DEF CutShort, Agent!CutShort, CellsKept, Agent!CellsKept
    <3> QED BY <3>2, <3>3
  <2>3. CASE payload # Agent!Nothing
    <3>1. payload = Agent!map_result(result, Agent!max_rows)
      BY <2>1, <2>3 DEF AnswerInv
    <3>2. Agent!max_rows \in Nat
      BY <2>1, ResultsAssumption DEF AnswerInv, Agent!max_rows
    <3>3. TablesOK(result) /\ RowsOK(result)
      BY <2>1, Zenon DEF ResultTypeOK, Sequence, TablesOK, RowsOK, Cells
    <3>4. CASE result.to_table
      <4>1. result.tables # <<>>
        <5>1. SUFFICES ASSUME result.tables = <<>> PROVE FALSE
          OBVIOUS
        <5>2. Agent!map_result(result, Agent!max_rows) = Agent!map_table_result(result, Agent!max_rows)
          BY <3>4 DEF Agent!map_result
        <5>3. Agent!map_table_result(result, Agent!max_rows) = Agent!Nothing
          BY <5>1, Zenon DEF Agent!map_table_result
        <5> QED BY <2>3, <3>1, <5>2, <5>3, Zenon
      <4>2. Mapped(result, Agent!TableColumns(result), RowsOf(result))
        BY <3>3, <3>4, <4>1, TablesMapped
      <4>3. Agent!DataRows = DataOf(result)
        <5> DEFINE dd == [k \in DOMAIN result.tables |-> Agent!data_rows(result, result.tables[k])]
        <5>1. Agent!DataRows = Agent!FlattenSeq(dd)
          BY <3>4 DEF Agent!DataRows
        <5>2. Agent!FlattenSeq(dd) = DataOf(result)
          BY AgentFlattens, Zenon DEF DataOf
        <5> QED BY <5>1, <5>2, Zenon
      <4>4. /\ Len(RowsOf(result)) = Len(DataOf(result))
            /\ \A k \in 1 .. Len(RowsOf(result)) :
                  Widened(DataOf(result)[k], RowsOf(result)[k], Before(result), Agent!max_cols(result))
        BY <3>3, RowsOfAll
      <4>5. /\ Rectangular /\ CutShort /\ DOMAIN payload.rows \subseteq 1 .. Len(RowsOf(result))
            /\ \A k \in DOMAIN payload.rows : payload.rows[k] = RowsOf(result)[k]
        <5>1. Len(RowsOf(result)) = Len(Agent!DataRows)
          BY <4>3, <4>4, Zenon
        <5> QED BY <3>1, <3>2, <4>2, <5>1, ReplyOfMapped
      <4>6. \A k \in DOMAIN payload.rows :
              Widened(Agent!DataRows[k], payload.rows[k], Before(result), Agent!max_cols(result))
        BY <4>3, <4>4, <4>5, Zenon
      <4>7. CellsKept
        BY <4>6, Zenon DEF CellsKept, Agent!CellsKept, Widened, Before
      <4> QED BY <4>5, <4>7
    <3>5. CASE ~result.to_table
      <4>1. PICK columns, whole : Mapped(result, columns, whole) /\ Len(whole) = Len(result.rows)
        BY <3>3, <3>5, ListMapped, RowsMapped, Zenon
      <4>2. Agent!DataRows = result.rows
        BY <3>5 DEF Agent!DataRows
      <4>3. Len(whole) = Len(Agent!DataRows)
        BY <4>1, <4>2, Zenon
      <4>4. Rectangular /\ CutShort
        BY <3>1, <3>2, <4>1, <4>3, ReplyOfMapped
      <4>5. CellsKept
        BY <3>5, Zenon DEF CellsKept, Agent!CellsKept
      <4> QED BY <4>4, <4>5
    <3> QED BY <3>4, <3>5
  <2> QED BY <2>2, <2>3
<1> QED BY <1>1, Answered, PTL
=============================================================================
