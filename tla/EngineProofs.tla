------------------------------ MODULE EngineProofs -----------------------------
(***************************************************************************)
(* The axes of every document, and the answers that are read from it.       *)
(***************************************************************************)
EXTENDS HtmlDocumentProofs
----------------------------------------------------------------------------
(* The axes. *)

\* A node's ancestors, read off its parents, are its lineage but itself.
LEMMA AncestorsAre ==
  ASSUME Table
  PROVE  \A n \in Node : Ancestors[n] \in Seq(Nat) /\ ToSet(Ancestors[n]) = lineage[n] \ {n}
<1> DEFINE L == Len(nodes)
           S == Seq(Nat)
           up(n) == nodes[n].parent
           none == <<>>
           below == [n \in 1 .. L |-> up(n)]
           next(n, s) == IF up(n) = 0 THEN <<>> ELSE <<up(n)>> \o s
           step == [p \in (1 .. L) \X S |-> next(p[1], p[2])]
           body(g) == [n \in 0 .. L |-> IF n = 0 \/ up(n) = 0 THEN <<>> ELSE <<up(n)>> \o g[up(n)]]
<1>1. /\ L \in Nat /\ none \in S
      /\ \A n \in 1 .. L : n \in Nat /\ up(n) \in 0 .. n - 1 /\ up(n) \in 0 .. L /\ up(n) \in Nat
  BY DEF Table, Node
<1>2. PointsDown(below, L)
  BY <1>1 DEF PointsDown
<1>3. IsStep(step, L, S)
  <2>1. ASSUME NEW n \in 1 .. L, NEW s \in S PROVE next(n, s) \in S
    <3>1. <<up(n)>> \in S
      BY <1>1
    <3> QED BY <3>1
  <2> HIDE DEF S, next, L
  <2> QED BY <2>1 DEF IsStep
<1>4. PICK f \in [0 .. L -> S] : FollowsSteps(f, L, none, below, step)
  <2> HIDE DEF L, S, none, below, step
  <2> QED BY <1>1, <1>2, <1>3, RecursionBelow
<1>5. f[0] = <<>> /\ \A n \in 1 .. L : f[n] = next(n, f[up(n)])
  <2>1. ASSUME NEW n \in 1 .. L PROVE f[n] = next(n, f[up(n)])
    <3>1. below[n] = up(n) /\ up(n) \in 0 .. L
      BY <1>1
    <3>2. f[n] = step[<<n, f[up(n)]>>]
      <4> HIDE DEF step, up, below, L
      <4> QED BY <1>4, <3>1 DEF FollowsSteps
    <3>3. <<n, f[up(n)]>> \in (1 .. L) \X S
      <4> HIDE DEF S, L, up
      <4> QED BY <3>1
    <3> HIDE DEF next, S, L, up
    <3> QED BY <3>2, <3>3
  <2> QED BY <1>4, <2>1 DEF FollowsSteps
<1>6. f = body(f)
  <2>1. \A n \in 0 .. L : n # 0 => n \in 1 .. L
    BY <1>1
  <2>2. \A n \in 0 .. L : f[n] = IF n = 0 \/ up(n) = 0 THEN <<>> ELSE <<up(n)>> \o f[up(n)]
    <3> HIDE DEF S, L
    <3> QED BY <1>5, <2>1
  <2> HIDE DEF S, L, up
  <2> QED BY <2>2
<1>7. Ancestors = body(Ancestors)
  <2>1. Ancestors = CHOOSE g : g = body(g)
    BY DEF Ancestors
  <2> HIDE DEF body
  <2> QED BY <1>6, <2>1
<1> DEFINE a == Ancestors
<1>8. \A n \in 1 .. L : a[n] = IF up(n) = 0 THEN <<>> ELSE <<up(n)>> \o a[up(n)]
  <2>1. \A n \in 1 .. L : n \in 0 .. L /\ n # 0
    BY <1>1
  <2>2. a = body(a)
    BY <1>7
  <2> HIDE DEF L, a, up
  <2> QED BY <2>1, <2>2
<1> HIDE DEF a
<1> DEFINE G == {n \in Node : a[n] \in Seq(Nat) /\ ToSet(a[n]) = lineage[n] \ {n}}
<1>9. ASSUME NEW n \in Node, up(n) # 0 => up(n) \in G PROVE n \in G
  <2>1. lineage[n] = {n} \cup lineage[up(n)] /\ n \in 1 .. L
    BY LineageIs DEF Node
  <2>2. CASE up(n) = 0
    <3>1. lineage[up(n)] = {} /\ a[n] = <<>>
      BY <1>8, <2>1, <2>2, LineageIs
    <3>2. ToSet(<<>>) = {} /\ <<>> \in Seq(Nat)
      BY DEF ToSet
    <3> QED BY <2>1, <3>1, <3>2
  <2>3. CASE up(n) # 0
    <3>1. a[n] = <<up(n)>> \o a[up(n)] /\ up(n) \in Node /\ up(n) \in Nat
      <4>1. up(n) \in 1 .. L /\ up(n) \in Nat
        BY <1>1, <2>1, <2>3
      <4> HIDE DEF up
      <4> QED BY <1>8, <2>1, <2>3, <4>1 DEF Node
    <3>2. a[up(n)] \in Seq(Nat) /\ ToSet(a[up(n)]) = lineage[up(n)] \ {up(n)}
      BY <1>9, <2>3
    <3>3. up(n) \in lineage[up(n)]
      BY <3>1, ThroughAChild
    <3>4. ToSet(<<up(n)>> \o a[up(n)]) = {up(n)} \cup ToSet(a[up(n)]) /\ a[n] \in Seq(Nat)
      <4>1. a[up(n)] \in Seq(Nat) /\ up(n) \in Nat
        BY <3>1, <3>2
      <4> HIDE DEF up
      <4> QED BY <3>1, <4>1, ToSetOfFirst
    <3>5. n \notin lineage[up(n)]
      <4>1. lineage[up(n)] \subseteq 1 .. up(n)
        BY <3>1, LineageGrows
      <4>2. n \notin 1 .. up(n)
        BY <1>1, <2>1
      <4> QED BY <4>1, <4>2
    <3> QED BY <2>1, <3>1, <3>2, <3>3, <3>4, <3>5
  <2> QED BY <2>2, <2>3
<1>10. Node \subseteq G
  <2> HIDE DEF G
  <2> QED BY <1>9, DownTheTree
<1> QED BY <1>10 DEF a

\* The nodes under a node are a run of the table that starts with it.
LEMMA UnderIsARun ==
  ASSUME Table, NEW n \in Node
  PROVE  \E last \in n .. Len(nodes) : Under(n) = n .. last
<1> DEFINE L == Len(nodes)
           up(m) == nodes[m].parent
<1>1. /\ L \in Nat
      /\ \A m \in Node : m \in Nat /\ m \in 1 .. L /\ up(m) \in 0 .. m - 1
      /\ \A m \in Node : \A x \in up(m) + 1 .. m : up(x) >= up(m)
  BY DEF Table, Node
<1>2. \A m \in Node : lineage[m] = {m} \cup lineage[up(m)] /\ lineage[m] \subseteq 1 .. m
  BY LineageIs, LineageGrows
<1>3. lineage[0] = {}
  BY LineageIs
<1> HIDE DEF up
<1> DEFINE G == {m \in Node : n \in lineage[m] => \A x \in n .. m : n \in lineage[x]}
<1>4. ASSUME NEW m \in Node, up(m) # 0 => up(m) \in G, n \in lineage[m]
      PROVE  \A x \in n .. m : n \in lineage[x]
  <2>1. CASE m = n
    <3>1. \A x \in n .. m : x = n
      BY <1>1, <2>1
    <3> QED BY <1>4, <2>1, <3>1
  <2>2. CASE m # n
    <3> DEFINE p == up(m)
               B == {x \in Node : x \in p + 1 .. m => n \in lineage[x]}
    <3>1. n \in lineage[p]
      BY <1>2, <1>4, <2>2
    <3>2. p # 0 /\ p \in G /\ p \in Node /\ p \in Nat /\ p < m
      BY <1>1, <1>3, <1>4, <3>1 DEF Node
    <3>3. \A x \in n .. p : n \in lineage[x]
      BY <3>1, <3>2
    <3>4. ASSUME NEW x \in Node, up(x) # 0 => up(x) \in B, x \in p + 1 .. m
          PROVE  n \in lineage[x]
      <4>1. up(x) >= p /\ up(x) < x /\ up(x) \in Nat /\ x <= m
        BY <1>1, <3>4
      <4>2. n \in lineage[up(x)]
        <5>1. CASE up(x) = p
          BY <3>1, <5>1
        <5>2. CASE up(x) # p
          <6>1. up(x) \in p + 1 .. m /\ up(x) # 0
            BY <1>1, <3>2, <4>1, <5>2
          <6> QED BY <3>4, <6>1
        <5> QED BY <5>1, <5>2
      <4> QED BY <1>2, <4>2
    <3>5. Node \subseteq B
      <4>1. \A x \in Node : (up(x) # 0 => up(x) \in B) => x \in B
        BY <3>4
      <4> HIDE DEF B
      <4> QED BY <4>1, DownTheTree DEF up
    <3>6. \A x \in n .. m : x \in n .. p \/ (x \in p + 1 .. m /\ x \in Node)
      BY <1>1, <3>2 DEF Node
    <3> QED BY <3>3, <3>5, <3>6
  <2> QED BY <2>1, <2>2
<1>5. Node \subseteq G
  <2>1. \A m \in Node : (up(m) # 0 => up(m) \in G) => m \in G
    BY <1>4
  <2> HIDE DEF G
  <2> QED BY <2>1, DownTheTree DEF up
<1> DEFINE U == Under(n)
<1>6. U \in SUBSET (n .. L) /\ n \in U
  <2>1. \A m \in U : m \in Node /\ n \in 1 .. m
    BY <1>2 DEF Under
  <2>2. \A m \in U : m \in n .. L
    BY <1>1, <2>1
  <2>3. n \in U
    BY ThroughAChild DEF Under
  <2> QED BY <2>2, <2>3
<1>7. Max(U) \in U /\ \A x \in U : x <= Max(U)
  <2>1. n \in Int /\ L \in Int /\ U # {}
    BY <1>1, <1>6
  <2> HIDE DEF U, L
  <2> QED BY <1>6, <2>1, MaxOfSome
<1>8. \A x \in n .. Max(U) : x \in U
  <2>1. Max(U) \in Node /\ n \in lineage[Max(U)]
    BY <1>7 DEF Under
  <2>2. \A x \in n .. Max(U) : n \in lineage[x]
    BY <1>5, <2>1
  <2>3. \A x \in n .. Max(U) : x \in Node
    BY <1>1, <2>1 DEF Node
  <2> QED BY <2>2, <2>3 DEF Under
<1>9. Max(U) \in n .. L /\ \A x \in U : x \in n .. Max(U)
  <2>1. \A x \in U : x \in n .. L
    BY <1>6
  <2> HIDE DEF U
  <2> QED BY <1>1, <1>7, <2>1
<1>10. U = n .. Max(U)
  BY <1>8, <1>9
<1> QED BY <1>9, <1>10

\* The last node under a node.
LastUnder(n) == CHOOSE last \in n .. Len(nodes) : Under(n) = n .. last

LEMMA RunsOfKids ==
  ASSUME Table, NEW n \in Node
  PROVE  /\ LastUnder(n) \in n .. Len(nodes) /\ Under(n) = n .. LastUnder(n)
         /\ \A k \in Kids(n) : k \in Node /\ n < k /\ LastUnder(k) \in k .. LastUnder(n)
         /\ \A j, k \in Kids(n) : j < k => LastUnder(j) < k
         /\ LastUnder(n) # n => n + 1 \in Kids(n)
         /\ \A k \in Kids(n) : LastUnder(k) # LastUnder(n) => LastUnder(k) + 1 \in Kids(n)
<1> DEFINE L == Len(nodes)
           E(m) == LastUnder(m)
<1>1. L \in Nat /\ \A m \in Node : m \in Nat /\ m \in 1 .. L
  BY DEF Table, Node
<1>2. \A m \in Node : E(m) \in m .. L /\ Under(m) = m .. E(m)
  BY UnderIsARun DEF LastUnder
<1>3. \A m \in Node : E(m) \in Nat /\ m <= E(m)
  BY <1>1, <1>2
<1>4. \A k \in Kids(n) : k \in Node /\ n < k /\ k \notin lineage[n] /\ nodes[k].parent = n
  BY ThroughAChild DEF Kids
<1>5. \A x \in Node : x # n => (x \in Under(n) <=> \E k \in Kids(n) : x \in Under(k))
  BY ThroughAChild DEF Under
<1> HIDE DEF E
<1>6. ASSUME NEW k \in Kids(n) PROVE E(k) \in k .. E(n)
  <2>1. k \in Node /\ n < k /\ E(k) \in k .. L /\ E(k) \in Nat /\ E(n) \in Nat
    BY <1>2, <1>3, <1>4
  <2>2. E(k) \in Under(k) /\ E(k) \in Node /\ E(k) # n
    BY <1>1, <1>2, <2>1 DEF Under
  <2>3. E(k) \in n .. E(n)
    BY <1>2, <1>5, <2>2
  <2> QED BY <1>1, <2>1, <2>3
<1>7. ASSUME NEW j \in Kids(n), NEW k \in Kids(n), j < k PROVE E(j) < k
  <2>1. j \in Node /\ k \in Node /\ j \in Nat /\ k \in Nat /\ E(j) \in Nat
    BY <1>1, <1>3, <1>4
  <2>2. j \notin lineage[k]
    <3>1. lineage[k] = {k} \cup lineage[n] /\ j \notin lineage[n] /\ j # k
      BY <1>4, <1>7, <2>1, LineageIs
    <3> QED BY <3>1
  <2>3. k \notin j .. E(j)
    BY <1>2, <2>1, <2>2 DEF Under
  <2> QED BY <1>7, <2>1, <2>3
<1>8. ASSUME NEW x \in Node, x \in n + 1 .. E(n)
      PROVE  \E k \in Kids(n) : x \in k .. E(k)
  <2>1. x \in n .. E(n) /\ x # n
    BY <1>1, <1>3, <1>8
  <2>2. PICK k \in Kids(n) : x \in Under(k)
    BY <1>2, <1>5, <2>1
  <2> QED BY <1>2, <1>4, <2>2
<1>9. ASSUME E(n) # n PROVE n + 1 \in Kids(n)
  <2>1. n + 1 \in Node /\ n + 1 \in n + 1 .. E(n)
    BY <1>1, <1>2, <1>9 DEF Node
  <2>2. PICK k \in Kids(n) : n + 1 \in k .. E(k)
    BY <1>8, <2>1
  <2>3. n < k /\ k \in Nat /\ n \in Nat
    BY <1>1, <1>4
  <2>4. k = n + 1
    BY <2>2, <2>3
  <2> QED BY <2>4
<1>10. ASSUME NEW k \in Kids(n), E(k) # E(n) PROVE E(k) + 1 \in Kids(n)
  <2>1. k \in Node /\ k \in Nat /\ n < k /\ n \in Nat /\ E(k) \in k .. E(n) /\ E(n) \in n .. L /\ E(k) \in Nat /\ E(n) \in Nat
    BY <1>1, <1>2, <1>3, <1>4, <1>6
  <2>2. E(k) + 1 \in Node /\ E(k) + 1 \in n + 1 .. E(n)
    BY <1>1, <1>10, <2>1 DEF Node
  <2>3. PICK c \in Kids(n) : E(k) + 1 \in c .. E(c)
    BY <1>8, <2>2
  <2>4. c \in Nat /\ E(c) \in Nat
    BY <1>1, <1>3, <1>4
  <2>5. ~(c < k)
    <3>1. c < k => E(c) < k
      BY <1>7
    <3> QED BY <2>1, <2>3, <2>4, <3>1
  <2>6. ~(c = k)
    BY <2>1, <2>3, <2>4
  <2>7. c = E(k) + 1
    <3>1. E(k) < c
      BY <1>7, <2>1, <2>4, <2>5, <2>6
    <3> QED BY <2>1, <2>3, <2>4, <3>1
  <2> QED BY <2>7
<1> QED BY <1>2, <1>4, <1>6, <1>7, <1>9, <1>10 DEF E

\* The runs of a node's children, the last first, follow each other without a gap from
\* the end of the node's own run down to the node.
Edge(kids, n, j) == IF j = 0 THEN LastUnder(n) + 1 ELSE kids[j]

LEMMA KidsTile ==
  ASSUME Table, NEW n \in Node, NEW kids, Descends(kids, Kids(n))
  PROVE  /\ kids \in Seq(Kids(n))
         /\ \A j \in 1 .. Len(kids) : LastUnder(kids[j]) + 1 = Edge(kids, n, j - 1)
         /\ Edge(kids, n, Len(kids)) = n + 1
<1> DEFINE K == Kids(n)
           N == Len(kids)
           E(m) == LastUnder(m)
<1>1. N \in Nat /\ kids \in Seq(K) /\ \A j \in 1 .. N : kids[j] \in K
  BY DEF Descends
<1>2. \A x \in K : \E j \in 1 .. N : kids[j] = x
  BY DEF Descends
<1>3. \A j, k \in 1 .. N : j < k => kids[k] < kids[j]
  BY DEF Descends
<1>4. n \in Nat /\ E(n) \in Nat /\ n <= E(n)
  <2>1. Len(nodes) \in Nat /\ n \in 1 .. Len(nodes) /\ E(n) \in n .. Len(nodes)
    BY RunsOfKids DEF Table, Node
  <2> QED BY <2>1
<1>5. \A k \in K : k \in Nat /\ n < k /\ E(k) \in Nat /\ k <= E(k) /\ E(k) <= E(n)
  <2>1. Len(nodes) \in Nat /\ \A k \in Node : k \in Nat
    BY DEF Table, Node
  <2>2. \A k \in K : k \in Nat /\ n < k /\ E(k) \in k .. E(n)
    BY <2>1, RunsOfKids
  <2> QED BY <1>4, <2>2
<1>6. /\ \A j, k \in K : j < k => E(j) < k
      /\ E(n) # n => n + 1 \in K
      /\ \A k \in K : E(k) # E(n) => E(k) + 1 \in K
  BY RunsOfKids
<1> HIDE DEF K, E
<1>7. ASSUME NEW j \in 1 .. N PROVE E(kids[j]) + 1 = IF j = 1 THEN E(n) + 1 ELSE kids[j - 1]
  <2> DEFINE e == E(kids[j])
  <2>1. kids[j] \in K /\ kids[j] \in Nat /\ e \in Nat /\ kids[j] <= e /\ e <= E(n)
    BY <1>1, <1>5
  <2>2. CASE e = E(n)
    <3>1. j = 1
      <4> SUFFICES ASSUME j # 1 PROVE FALSE
        OBVIOUS
      <4>1. j - 1 \in 1 .. N /\ j - 1 < j
        BY <1>1
      <4>2. kids[j - 1] \in K /\ kids[j] < kids[j - 1]
        BY <1>1, <1>3, <4>1
      <4>3. e < kids[j - 1]
        BY <1>6, <2>1, <4>2
      <4>4. kids[j - 1] \in Nat /\ E(kids[j - 1]) \in Nat /\ kids[j - 1] <= E(kids[j - 1]) /\ E(kids[j - 1]) <= E(n)
        BY <1>5, <4>2
      <4> QED BY <1>4, <2>1, <2>2, <4>3, <4>4
    <3> QED BY <2>2, <3>1
  <2>3. CASE e # E(n)
    <3>1. e + 1 \in K
      BY <1>6, <2>1, <2>3
    <3>2. PICK q \in 1 .. N : kids[q] = e + 1
      BY <1>2, <3>1
    <3>3. q < j
      <4>1. q = j \/ j < q => kids[q] <= kids[j]
        BY <1>3, <2>1, <3>2
      <4> QED BY <1>1, <2>1, <3>2, <4>1
    <3>4. j - 1 \in 1 .. N /\ j # 1 /\ j - 1 < j
      BY <1>1, <3>3
    <3>5. kids[j - 1] \in K /\ kids[j] < kids[j - 1] /\ kids[j - 1] \in Nat
      BY <1>1, <1>3, <1>5, <3>4
    <3>6. e < kids[j - 1]
      BY <1>6, <2>1, <3>5
    <3>7. ~(q < j - 1)
      <4>1. q < j - 1 => kids[j - 1] < e + 1
        BY <1>3, <3>2, <3>4
      <4> QED BY <2>1, <3>5, <3>6, <4>1
    <3>8. q = j - 1
      BY <1>1, <3>3, <3>7
    <3> QED BY <3>2, <3>4, <3>8
  <2> QED BY <2>2, <2>3
<1>8. CASE N = 0
  <2>1. E(n) = n
    BY <1>2, <1>6, <1>8
  <2> QED BY <1>1, <1>7, <1>8, <2>1 DEF E, Edge, K
<1>9. CASE N # 0
  <2>1. N \in 1 .. N
    BY <1>1, <1>9
  <2>2. kids[N] \in K /\ kids[N] \in Nat /\ n < kids[N] /\ kids[N] <= E(kids[N]) /\ E(kids[N]) <= E(n) /\ E(kids[N]) \in Nat
    BY <1>1, <1>5, <2>1
  <2>3. n + 1 \in K
    BY <1>4, <1>6, <2>2
  <2>4. PICK q \in 1 .. N : kids[q] = n + 1
    BY <1>2, <2>3
  <2>5. ~(q < N)
    <3>1. q < N => kids[N] < n + 1
      BY <1>3, <2>1, <2>4
    <3> QED BY <1>4, <2>2, <3>1
  <2>6. kids[N] = n + 1
    <3>1. q = N
      BY <1>1, <2>5
    <3> QED BY <2>4, <3>1
  <2>7. \A j \in 1 .. N : E(kids[j]) + 1 = Edge(kids, n, j - 1)
    <3>1. \A j \in 1 .. N : (j - 1 = 0) <=> (j = 1)
      BY <1>1
    <3> QED BY <1>7, <3>1 DEF E, Edge
  <2>8. Edge(kids, n, N) = n + 1
    BY <1>9, <2>6 DEF Edge
  <2> QED BY <1>1, <2>7, <2>8 DEF E, K
<1> QED BY <1>8, <1>9
(* The walk of the descendants. *)

\* A sequence of so many numbers, all of T and every one of T.
HeldBy(s, T, size) ==
  /\ s \in Seq(Nat) /\ Len(s) = size
  /\ \A k \in 1 .. Len(s) : s[k] \in T
  /\ \A x \in T : \E k \in 1 .. Len(s) : s[k] = x

LEMMA HoldTogether ==
  ASSUME NEW S, NEW T, NEW s, NEW t, NEW m \in Nat, NEW n \in Nat, HeldBy(s, S, m), HeldBy(t, T, n)
  PROVE  HeldBy(s \o t, S \cup T, m + n)
<1> DEFINE st == s \o t
<1>1. /\ s \in Seq(Nat) /\ Len(s) = m /\ t \in Seq(Nat) /\ Len(t) = n
      /\ \A k \in 1 .. m : s[k] \in S
      /\ \A k \in 1 .. n : t[k] \in T
      /\ \A x \in S : \E k \in 1 .. m : s[k] = x
      /\ \A x \in T : \E k \in 1 .. n : t[k] = x
  BY DEF HeldBy
<1>2. st \in Seq(Nat) /\ Len(st) = m + n
  <2>1. s \in Seq(Nat) /\ t \in Seq(Nat)
    BY <1>1
  <2>2. st \in Seq(Nat) /\ Len(st) = Len(s) + Len(t)
    BY <2>1
  <2> QED BY <1>1, <2>2
<1>3. (\A k \in 1 .. m : st[k] = s[k]) /\ \A k \in 1 .. n : st[m + k] = t[k]
  <2>1. s \in Seq(Nat) /\ t \in Seq(Nat)
    BY <1>1
  <2>2. \A k \in 1 .. Len(s) : st[k] = s[k]
    BY <2>1
  <2>3. \A k \in 1 .. Len(t) : st[Len(s) + k] = t[k]
    BY <2>1
  <2> HIDE DEF st
  <2> QED BY <1>1, <2>2, <2>3
<1>4. \A k \in 1 .. m + n : k \in 1 .. m \/ (k - m \in 1 .. n /\ m + (k - m) = k)
  OBVIOUS
<1>5. (\A k \in 1 .. m : k \in 1 .. m + n) /\ \A k \in 1 .. n : m + k \in 1 .. m + n
  OBVIOUS
<1> HIDE DEF st
<1>6. \A k \in 1 .. m + n : st[k] \in S \cup T
  <2> TAKE k \in 1 .. m + n
  <2>1. CASE k \in 1 .. m
    BY <1>1, <1>3, <2>1
  <2>2. CASE k \notin 1 .. m
    <3>1. k - m \in 1 .. n /\ st[k] = t[k - m]
      BY <1>3, <1>4, <2>2
    <3> QED BY <1>1, <3>1
  <2> QED BY <2>1, <2>2
<1>7. \A x \in S \cup T : \E k \in 1 .. m + n : st[k] = x
  <2>1. \A x \in S : \E k \in 1 .. m + n : st[k] = x
    <3> TAKE x \in S
    <3>1. PICK k \in 1 .. m : s[k] = x
      BY <1>1
    <3> QED BY <1>3, <1>5, <3>1
  <2>2. \A x \in T : \E k \in 1 .. m + n : st[k] = x
    <3> TAKE x \in T
    <3>1. PICK k \in 1 .. n : t[k] = x
      BY <1>1
    <3> QED BY <1>3, <1>5, <3>1
  <2> QED BY <2>1, <2>2
<1>8. HeldBy(st, S \cup T, m + n)
  BY <1>2, <1>6, <1>7 DEF HeldBy
<1> QED BY <1>8 DEF st

LEMMA HoldsNone == HeldBy(<<>>, {}, 0)
BY DEF HeldBy

LEMMA HoldsOne ==
  ASSUME NEW x \in Nat
  PROVE  HeldBy(<<x>>, {x}, 1)
BY DEF HeldBy

LEMMA KidsDescend ==
  ASSUME Table, NEW n \in Node
  PROVE  /\ Descends(Reverse(Children(n)), Kids(n))
         /\ Reverse(Children(n)) \in Seq(Node)
         /\ \A k \in DOMAIN Reverse(Children(n)) :
              Reverse(Children(n))[k] \in Node /\ n < Reverse(Children(n))[k]
<1> DEFINE kids == Reverse(Children(n))
<1>1. n \in 0 .. Len(nodes)
  BY DEF Table, Node
<1>2. Descends(kids, Kids(n))
  BY <1>1, ChildrenAre, ReverseDescends
<1>3. \A c \in Kids(n) : c \in Node /\ n < c
  BY ThroughAChild
<1> HIDE DEF kids
<1>4. kids \in Seq(Kids(n)) /\ DOMAIN kids = 1 .. Len(kids) /\ Len(kids) \in Nat /\ \A k \in 1 .. Len(kids) : kids[k] \in Kids(n)
  BY <1>2 DEF Descends
<1>5. kids \in Seq(Node)
  BY <1>3, <1>4
<1> QED BY <1>2, <1>3, <1>4, <1>5 DEF kids

LEMMA DescendantsIs ==
  ASSUME Table
  PROVE  \A n \in Node :
           Descendants[n] = FlattenSeq([k \in DOMAIN Reverse(Children(n)) |->
                               <<Reverse(Children(n))[k]>> \o Descendants[Reverse(Children(n))[k]]])
<1> DEFINE L == Len(nodes)
           S == Seq(Nat)
           kids(n) == Reverse(Children(n))
           parts(n, s) == [k \in DOMAIN kids(n) |-> <<kids(n)[k]>> \o s[(L + 1) - kids(n)[k]]]
           step == [j \in 1 .. L |-> [s \in [1 .. j - 1 -> S] |-> FlattenSeq(parts((L + 1) - j, s))]]
           pieces(n, g) == [k \in DOMAIN kids(n) |-> <<kids(n)[k]>> \o g[kids(n)[k]]]
           body(g) == [n \in Node |-> FlattenSeq(pieces(n, g))]
<1>1. L \in Nat /\ Node = 1 .. L /\ \A n \in Node : n \in Nat
  BY DEF Table, Node
<1>2. \A n \in Node : kids(n) \in Seq(Node) /\ \A k \in DOMAIN kids(n) : kids(n)[k] \in Node /\ n < kids(n)[k]
  BY KidsDescend
<1>3. \A j \in 1 .. L : (L + 1) - j \in Node /\ \A c \in Node : (L + 1) - j < c => (L + 1) - c \in 1 .. j - 1
  BY <1>1
<1> HIDE DEF kids, L
<1>4. ASSUME NEW n \in Node, NEW s, \A k \in DOMAIN kids(n) : s[(L + 1) - kids(n)[k]] \in S
      PROVE  FlattenSeq(parts(n, s)) \in S
  <2>1. DOMAIN kids(n) = 1 .. Len(kids(n)) /\ Len(kids(n)) \in Nat
    BY <1>2
  <2>2. ASSUME NEW k \in DOMAIN kids(n) PROVE <<kids(n)[k]>> \o s[(L + 1) - kids(n)[k]] \in S
    <3>1. kids(n)[k] \in Nat /\ s[(L + 1) - kids(n)[k]] \in Seq(Nat)
      BY <1>1, <1>2, <1>4, <2>2
    <3>2. <<kids(n)[k]>> \in Seq(Nat)
      BY <3>1
    <3> QED BY <3>1, <3>2
  <2>3. parts(n, s) \in Seq(S)
    <3> HIDE DEF S
    <3> QED BY <2>1, <2>2
  <2>4. \E flat \in [0 .. Len(parts(n, s)) -> S] : FlattenSeq(parts(n, s)) = flat[Len(parts(n, s))]
    <3> HIDE DEF parts
    <3> QED BY <2>3, Flattened
  <2>5. Len(parts(n, s)) \in 0 .. Len(parts(n, s))
    <3> HIDE DEF parts
    <3> QED BY <2>3
  <2> HIDE DEF parts, S
  <2> QED BY <2>4, <2>5
<1>5. StepsOnAll(step, L, S)
  <2>1. ASSUME NEW j \in 1 .. L, NEW s \in [1 .. j - 1 -> S] PROVE step[j][s] \in S
    <3>1. (L + 1) - j \in Node
      BY <1>3
    <3>2. \A k \in DOMAIN kids((L + 1) - j) : s[(L + 1) - kids((L + 1) - j)[k]] \in S
      <4> HIDE DEF S
      <4> QED BY <1>2, <1>3, <3>1
    <3>3. FlattenSeq(parts((L + 1) - j, s)) \in S
      <4> HIDE DEF S, parts
      <4> QED BY <1>4, <3>1, <3>2
    <3> HIDE DEF S, parts
    <3> QED BY <3>3
  <2> HIDE DEF step, S
  <2> QED BY <2>1 DEF StepsOnAll
<1>6. PICK f \in [1 .. L -> S] : \A j \in 1 .. L : f[j] = step[j][[i_ \in 1 .. j - 1 |-> f[i_]]]
  <2>1. L \in Nat
    BY <1>1
  <2> HIDE DEF step, S
  <2> QED BY <1>5, <2>1, RecursionOnAll
<1> DEFINE g == [n \in Node |-> f[(L + 1) - n]]
<1>7. ASSUME NEW n \in Node PROVE g[n] = FlattenSeq(pieces(n, g))
  <2> DEFINE j == (L + 1) - n
             s == [i_ \in 1 .. j - 1 |-> f[i_]]
  <2>1. j \in 1 .. L /\ (L + 1) - j = n /\ \A c \in Node : n < c => (L + 1) - c \in 1 .. j - 1
    BY <1>1
  <2>2. s \in [1 .. j - 1 -> S]
    <3>1. \A i_ \in 1 .. j - 1 : i_ \in 1 .. L
      BY <1>1, <2>1
    <3> HIDE DEF S, j
    <3> QED BY <3>1
  <2>3. f[j] = FlattenSeq(parts(n, s))
    <3>1. f[j] = step[j][s]
      <4> HIDE DEF step, S, j
      <4> QED BY <1>6, <2>1
    <3>2. step[j][s] = FlattenSeq(parts((L + 1) - j, s))
      <4> HIDE DEF S, j, s, parts
      <4> QED BY <2>1, <2>2
    <3> HIDE DEF step, s, parts, j
    <3> QED BY <2>1, <3>1, <3>2
  <2>4. parts(n, s) = pieces(n, g)
    <3>1. \A k \in DOMAIN kids(n) : s[(L + 1) - kids(n)[k]] = g[kids(n)[k]]
      <4> TAKE k \in DOMAIN kids(n)
      <4>1. kids(n)[k] \in Node /\ (L + 1) - kids(n)[k] \in 1 .. j - 1
        <5> HIDE DEF j
        <5> QED BY <1>2, <2>1
      <4> HIDE DEF j
      <4> QED BY <4>1
    <3> HIDE DEF s, g
    <3> QED BY <3>1
  <2>5. g[n] = f[j]
    OBVIOUS
  <2> HIDE DEF g, j, s, pieces, parts
  <2> QED BY <2>3, <2>4, <2>5
<1>8. g = body(g)
  <2> HIDE DEF pieces
  <2>1. \A n \in Node : g[n] = body(g)[n]
    <3> HIDE DEF g
    <3> QED BY <1>7
  <2> QED BY <2>1
<1>9. Descendants = CHOOSE d : d = body(d)
  BY DEF Descendants, walk_of, kids
<1>10. Descendants = body(Descendants)
  <2> HIDE DEF body, g
  <2> QED BY <1>8, <1>9
<1> DEFINE d == Descendants
<1>11. \A n \in Node : d[n] = FlattenSeq(pieces(n, d))
  <2>1. d = body(d)
    BY <1>10
  <2> HIDE DEF d, pieces
  <2> QED BY <2>1
<1> QED BY <1>11 DEF kids

\* A node's walk goes through the rest of its run, each node of it once.
Rest(n) == n + 1 .. LastUnder(n)

RestIsHeld(n) == HeldBy(Descendants[n], Rest(n), LastUnder(n) - n)

LEMMA FlattenRuns ==
  ASSUME Table, NEW n \in Node, \A c \in Node : n < c => RestIsHeld(c)
  PROVE  RestIsHeld(n)
<1> DEFINE kids == Reverse(Children(n))
           N == Len(kids)
           E(m) == LastUnder(m)
           d(k) == Descendants[kids[k]]
           pieces == [k \in DOMAIN kids |-> <<kids[k]>> \o d(k)]
<1>1. Descendants[n] = FlattenSeq(pieces)
  BY DescendantsIs
<1>2. Descends(kids, Kids(n))
  BY KidsDescend
<1>3. N \in Nat /\ DOMAIN kids = 1 .. N /\ \A k \in 1 .. N : kids[k] \in Node /\ n < kids[k]
  <2>1. kids \in Seq(Node)
    BY KidsDescend
  <2> HIDE DEF kids
  <2>2. N \in Nat /\ DOMAIN kids = 1 .. N
    BY <2>1
  <2> QED BY <2>2, KidsDescend DEF kids
<1> HIDE DEF kids
<1>4. /\ \A k \in 1 .. N : E(kids[k]) + 1 = Edge(kids, n, k - 1)
      /\ Edge(kids, n, N) = n + 1 /\ Edge(kids, n, 0) = E(n) + 1
  BY <1>2, KidsTile DEF Edge
<1>5. Len(nodes) \in Nat /\ n \in Nat /\ E(n) \in Nat /\ n <= E(n)
  <2>1. Len(nodes) \in Nat /\ n \in 1 .. Len(nodes) /\ E(n) \in n .. Len(nodes)
    BY RunsOfKids DEF Table, Node
  <2> QED BY <2>1
<1>6. ASSUME NEW k \in 1 .. N
      PROVE  /\ kids[k] \in Nat /\ E(kids[k]) \in Nat /\ kids[k] <= E(kids[k]) /\ E(kids[k]) <= E(n)
             /\ n < kids[k] /\ Edge(kids, n, k) = kids[k]
             /\ HeldBy(pieces[k], kids[k] .. E(kids[k]), (E(kids[k]) - kids[k]) + 1)
  <2> DEFINE c == kids[k]
  <2>1. c \in Kids(n) /\ c \in Node /\ n < c
    BY <1>2, <1>3 DEF Descends
  <2>2. c \in Nat /\ E(c) \in Nat /\ c <= E(c) /\ E(c) <= E(n)
    <3> HIDE DEF c
    <3>1. c \in Nat
      BY <2>1 DEF Table, Node
    <3>2. E(c) \in c .. E(n)
      BY <2>1, RunsOfKids
    <3> HIDE DEF E
    <3> QED BY <1>5, <3>1, <3>2
  <2>3. Edge(kids, n, k) = c
    BY DEF Edge
  <2>4. HeldBy(d(k), Rest(c), E(c) - c)
    BY <2>1 DEF RestIsHeld
  <2>5. HeldBy(<<c>>, {c}, 1)
    BY <2>2, HoldsOne
  <2>6. E(c) - c \in Nat /\ 1 + (E(c) - c) = (E(c) - c) + 1 /\ {c} \cup Rest(c) = c .. E(c)
    <3> HIDE DEF c
    <3>1. Rest(c) = c + 1 .. E(c)
      BY DEF Rest
    <3> HIDE DEF E
    <3>2. {c} \cup (c + 1 .. E(c)) = c .. E(c)
      BY <2>2
    <3> QED BY <2>2, <3>1, <3>2
  <2>7. HeldBy(<<c>> \o d(k), {c} \cup Rest(c), 1 + (E(c) - c))
    <3> HIDE DEF c, d, E
    <3>1. 1 \in Nat
      OBVIOUS
    <3> QED BY <2>4, <2>5, <2>6, <3>1, HoldTogether
  <2>8. pieces[k] = <<c>> \o d(k)
    BY <1>3
  <2> HIDE DEF pieces, d, c, E
  <2>9. HeldBy(pieces[k], c .. E(c), (E(c) - c) + 1)
    BY <2>6, <2>7, <2>8
  <2> QED BY <2>1, <2>2, <2>3, <2>9 DEF c
<1> HIDE DEF d
<1>7. pieces \in Seq(Seq(Nat)) /\ Len(pieces) = N
  <2>1. \A k \in 1 .. N : pieces[k] \in Seq(Nat)
    <3> HIDE DEF pieces
    <3> QED BY <1>6 DEF HeldBy
  <2> QED BY <1>3, <2>1
<1> HIDE DEF pieces
<1>8. PICK flat \in [0 .. N -> Seq(Nat)] :
        /\ flat[0] = <<>> /\ \A k \in 1 .. N : flat[k] = flat[k - 1] \o pieces[k]
        /\ FlattenSeq(pieces) = flat[N]
  <2>1. \E flat \in [0 .. Len(pieces) -> Seq(Nat)] :
          /\ flat[0] = <<>> /\ \A k \in 1 .. Len(pieces) : flat[k] = flat[k - 1] \o pieces[k]
          /\ FlattenSeq(pieces) = flat[Len(pieces)]
    BY <1>7, Flattened
  <2> HIDE DEF N
  <2> QED BY <1>7, <2>1
<1> DEFINE at(k) == Edge(kids, n, k)
           G == {k \in 0 .. N : /\ at(k) \in Nat /\ at(k) <= E(n) + 1
                                /\ HeldBy(flat[k], at(k) .. E(n), (E(n) + 1) - at(k))}
<1>9. 0 \in G
  <2>1. at(0) = E(n) + 1 /\ (E(n) + 1) - at(0) = 0 /\ at(0) .. E(n) = {} /\ 0 \in 0 .. N
    BY <1>3, <1>4, <1>5
  <2>2. HeldBy(flat[0], at(0) .. E(n), (E(n) + 1) - at(0))
    BY <1>8, <2>1, HoldsNone
  <2> QED BY <1>5, <2>1, <2>2
<1>10. ASSUME NEW j \in 0 .. N - 1, j \in G PROVE j + 1 \in G
  <2> DEFINE k == j + 1
             c == kids[k]
  <2>1. k \in 1 .. N /\ k \in 0 .. N /\ k - 1 = j
    BY <1>3
  <2> HIDE DEF k
  <2>2. /\ c \in Nat /\ E(c) \in Nat /\ c <= E(c) /\ E(c) <= E(n) /\ at(k) = c
        /\ HeldBy(pieces[k], c .. E(c), (E(c) - c) + 1)
    BY <1>6, <2>1
  <2>3. at(j) = E(c) + 1
    BY <1>4, <2>1
  <2>4. HeldBy(flat[j], at(j) .. E(n), (E(n) + 1) - at(j))
    BY <1>10
  <2>5. flat[k] = flat[j] \o pieces[k]
    BY <1>8, <2>1
  <2> HIDE DEF at, c, E
  <2>6. /\ (E(n) + 1) - at(j) \in Nat /\ (E(c) - c) + 1 \in Nat
        /\ ((E(n) + 1) - at(j)) + ((E(c) - c) + 1) = (E(n) + 1) - c
        /\ (at(j) .. E(n)) \cup (c .. E(c)) = c .. E(n)
    <3>1. E(n) \in Nat
      BY <1>5
    <3>2. (E(n) + 1) - at(j) \in Nat /\ (E(c) - c) + 1 \in Nat
      BY <2>2, <2>3, <3>1
    <3>3. ((E(n) + 1) - at(j)) + ((E(c) - c) + 1) = (E(n) + 1) - c
      BY <2>2, <2>3, <3>1
    <3>4. (at(j) .. E(n)) \cup (c .. E(c)) = c .. E(n)
      BY <2>2, <2>3, <3>1
    <3> QED BY <3>2, <3>3, <3>4
  <2>7. HeldBy(flat[k], (at(j) .. E(n)) \cup (c .. E(c)), ((E(n) + 1) - at(j)) + ((E(c) - c) + 1))
    <3> DEFINE A == at(j) .. E(n)
               B == c .. E(c)
               a == (E(n) + 1) - at(j)
               b == (E(c) - c) + 1
    <3>1. HeldBy(flat[j], A, a) /\ HeldBy(pieces[k], B, b) /\ a \in Nat /\ b \in Nat
      BY <2>2, <2>4, <2>6
    <3> HIDE DEF A, B, a, b
    <3>2. HeldBy(flat[j] \o pieces[k], A \cup B, a + b)
      BY <3>1, HoldTogether
    <3> QED BY <2>5, <3>2 DEF A, B, a, b
  <2>8. HeldBy(flat[k], at(k) .. E(n), (E(n) + 1) - at(k))
    BY <2>2, <2>6, <2>7
  <2>9. at(k) \in Nat /\ at(k) <= E(n) + 1
    BY <1>5, <2>2
  <2> QED BY <2>1, <2>8, <2>9 DEF k
<1>11. N \in G
  <2>1. N \in 0 .. N
    BY <1>3
  <2> HIDE DEF G, N
  <2> QED BY <1>3, <1>9, <1>10, <2>1, InductionUpTo
<1>12. HeldBy(Descendants[n], n + 1 .. E(n), E(n) - n)
  <2>1. (E(n) + 1) - (n + 1) = E(n) - n /\ at(N) = n + 1
    BY <1>4, <1>5
  <2> QED BY <1>1, <1>8, <1>11, <2>1
<1> QED BY <1>12 DEF RestIsHeld, Rest

LEMMA DescendantsAre ==
  ASSUME Table
  PROVE  \A n \in Node : RestIsHeld(n)
<1> DEFINE L == Len(nodes)
           G == {k \in 0 .. L : \A n \in Node : L - k < n => RestIsHeld(n)}
<1>1. L \in Nat /\ \A n \in Node : n \in Nat /\ 0 < n /\ n <= L
  BY DEF Table, Node
<1>2. 0 \in G
  BY <1>1
<1>3. ASSUME NEW k \in 0 .. L - 1, k \in G PROVE k + 1 \in G
  <2>1. k + 1 \in 0 .. L
    BY <1>1
  <2>2. ASSUME NEW n \in Node, L - (k + 1) < n PROVE RestIsHeld(n)
    <3>1. \A c \in Node : n < c => L - k < c
      BY <1>1, <2>2
    <3>2. \A c \in Node : n < c => RestIsHeld(c)
      BY <1>3, <3>1
    <3> QED BY <3>2, FlattenRuns
  <2> QED BY <2>1, <2>2
<1>4. L \in G
  <2>1. L \in 0 .. L
    BY <1>1
  <2> HIDE DEF G, L
  <2> QED BY <1>1, <1>2, <1>3, <2>1, InductionUpTo
<1>5. \A n \in Node : L - L < n
  BY <1>1
<1> QED BY <1>4, <1>5

\* The descendants are the rest of a node's run; the nodes whose ancestor it is, too.
LEMMA AxesAre == Table => AxesInverse
<1> SUFFICES ASSUME Table, NEW n \in Node
             PROVE  /\ \A m \in Node : m \in ToSet(Descendants[n]) <=> n \in ToSet(Ancestors[m])
                    /\ ToSet(Descendants[n]) = n + 1 .. n + Len(Descendants[n])
  BY DEF AxesInverse, AxisNodes
<1> DEFINE d == Descendants[n]
           last == LastUnder(n)
<1>1. HeldBy(d, n + 1 .. last, last - n)
  BY DescendantsAre DEF RestIsHeld, Rest
<1>2. Len(nodes) \in Nat /\ n \in Nat /\ last \in Nat /\ Under(n) = n .. last
  <2>1. Len(nodes) \in Nat /\ n \in 1 .. Len(nodes) /\ last \in n .. Len(nodes) /\ Under(n) = n .. last
    BY RunsOfKids DEF Table, Node
  <2> QED BY <2>1
<1> HIDE DEF d, last
<1>3. ToSet(d) = n + 1 .. last
  <2>1. ToSet(d) = {d[k] : k \in 1 .. Len(d)}
    BY <1>1, SeqOfItsOwn DEF HeldBy
  <2> QED BY <1>1, <2>1 DEF HeldBy
<1>4. n + Len(d) = last
  BY <1>1, <1>2 DEF HeldBy
<1>5. ASSUME NEW m \in Node PROVE m \in ToSet(d) <=> n \in ToSet(Ancestors[m])
  <2>1. m \in Nat
    BY DEF Table, Node
  <2>2. m \in n + 1 .. last <=> m \in n .. last /\ m # n
    BY <1>2, <2>1
  <2>3. m \in Under(n) <=> n \in lineage[m]
    BY DEF Under
  <2>4. ToSet(Ancestors[m]) = lineage[m] \ {m}
    BY AncestorsAre
  <2> QED BY <1>2, <1>3, <2>2, <2>3, <2>4
<1> QED BY <1>3, <1>4, <1>5 DEF d

\* The axes lead up and down the same tree, whatever the document: the answer of a
\* descendant test is that of the ancestor test from the other end, over the
\* consecutive nodes of the subtree, each met once.
THEOREM AxesAreInverse == Spec => []AxesInverse
<1>1. DocInv => AxesInverse
  BY ParsedTable, AxesAre
<1> QED BY <1>1, EngineInvariance, PTL
----------------------------------------------------------------------------
(* The order of ORDER BY. *)

IsKey(a) == \A f : KeyField(a, f) \in Int

IsOrderBy(order_by) == order_by \in Seq(ToSet(order_by))

Tied(order_by, a, b) ==
  \A k \in DOMAIN order_by : KeyField(a, order_by[k].field) = KeyField(b, order_by[k].field)

LEMMA OrderByParts ==
  ASSUME NEW order_by, IsOrderBy(order_by), NEW a, IsKey(a)
  PROVE  /\ Len(order_by) \in Nat /\ DOMAIN order_by = 1 .. Len(order_by)
         /\ \A k \in DOMAIN order_by : k \in Nat /\ KeyField(a, order_by[k].field) \in Int
         /\ \A k \in DOMAIN order_by : \A j \in 1 .. k : j \in DOMAIN order_by
<1>1. Len(order_by) \in Nat /\ DOMAIN order_by = 1 .. Len(order_by)
  BY DEF IsOrderBy
<1> QED BY <1>1 DEF IsKey

\* Of two keys that some field tells apart, one precedes the other.
LEMMA TiedOrNot ==
  ASSUME NEW order_by, IsOrderBy(order_by), NEW a, NEW b, IsKey(a), IsKey(b)
  PROVE  /\ Precedes(order_by, a, b) \/ Precedes(order_by, b, a) \/ Tied(order_by, a, b)
         /\ Tied(order_by, a, b) => ~Precedes(order_by, a, b) /\ Tied(order_by, b, a)
<1> DEFINE at(k) == order_by[k].field
           D == {k \in DOMAIN order_by : KeyField(a, at(k)) # KeyField(b, at(k))}
<1>1. /\ Len(order_by) \in Nat /\ DOMAIN order_by = 1 .. Len(order_by)
      /\ \A k \in DOMAIN order_by : k \in Nat /\ KeyField(a, at(k)) \in Int /\ KeyField(b, at(k)) \in Int
      /\ \A k \in DOMAIN order_by : \A j \in 1 .. k : j \in DOMAIN order_by
  BY OrderByParts
<1> HIDE DEF at
<1>2. CASE D = {}
  <2>1. Tied(order_by, a, b) /\ Tied(order_by, b, a)
    BY <1>2 DEF Tied, at
  <2>2. ~Precedes(order_by, a, b)
    <3>1. \A k \in DOMAIN order_by : ~(KeyField(a, at(k)) < KeyField(b, at(k))) /\ ~(KeyField(b, at(k)) < KeyField(a, at(k)))
      BY <1>1, <1>2
    <3> QED BY <3>1 DEF Precedes, at
  <2> QED BY <2>1, <2>2
<1>3. CASE D # {}
  <2>1. PICK k \in D : \A j \in D : k <= j
    <3>1. D \in SUBSET Nat
      BY <1>1
    <3> HIDE DEF D
    <3> QED BY <1>3, <3>1, LeastNat
  <2>2. k \in DOMAIN order_by /\ KeyField(a, at(k)) # KeyField(b, at(k)) /\ KeyField(a, at(k)) \in Int /\ KeyField(b, at(k)) \in Int
    BY <1>1
  <2>3. \A j \in 1 .. k - 1 : KeyField(a, at(j)) = KeyField(b, at(j))
    <3> TAKE j \in 1 .. k - 1
    <3>1. j \in DOMAIN order_by /\ ~(k <= j)
      BY <1>1, <2>2
    <3> QED BY <2>1, <3>1
  <2>4. ~Tied(order_by, a, b)
    BY <2>2 DEF Tied, at
  <2>5. KeyField(a, at(k)) < KeyField(b, at(k)) \/ KeyField(b, at(k)) < KeyField(a, at(k))
    BY <2>2
  <2>6. Precedes(order_by, a, b) \/ Precedes(order_by, b, a)
    BY <2>2, <2>3, <2>5 DEF Precedes, at
  <2> QED BY <2>4, <2>6
<1> QED BY <1>2, <1>3

LEMMA PrecedesOn ==
  ASSUME NEW order_by, IsOrderBy(order_by), NEW a, NEW b, NEW c, IsKey(a), IsKey(b), IsKey(c)
  PROVE  /\ Precedes(order_by, a, b) /\ Precedes(order_by, b, c) => Precedes(order_by, a, c)
         /\ Tied(order_by, a, b) /\ Precedes(order_by, b, c) => Precedes(order_by, a, c)
         /\ Precedes(order_by, a, b) /\ Tied(order_by, b, c) => Precedes(order_by, a, c)
         /\ Tied(order_by, a, b) /\ Tied(order_by, b, c) => Tied(order_by, a, c)
<1> DEFINE at(k) == order_by[k].field
           less(k, x, y) == IF order_by[k].descending THEN KeyField(y, at(k)) < KeyField(x, at(k)) ELSE KeyField(x, at(k)) < KeyField(y, at(k))
           first(k, x, y) == (\A j \in 1 .. k - 1 : KeyField(x, at(j)) = KeyField(y, at(j))) /\ less(k, x, y)
<1>1. /\ Len(order_by) \in Nat /\ DOMAIN order_by = 1 .. Len(order_by)
      /\ \A k \in DOMAIN order_by : k \in Nat /\ KeyField(a, at(k)) \in Int /\ KeyField(b, at(k)) \in Int /\ KeyField(c, at(k)) \in Int
      /\ \A k \in DOMAIN order_by : \A j \in 1 .. k : j \in DOMAIN order_by
  BY OrderByParts
<1>2. \A x, y : Precedes(order_by, x, y) <=> \E k \in DOMAIN order_by : first(k, x, y)
  BY DEF Precedes
<1>3. \A x, y : Tied(order_by, x, y) <=> \A k \in DOMAIN order_by : KeyField(x, at(k)) = KeyField(y, at(k))
  BY DEF Tied
<1>4. ASSUME NEW k \in DOMAIN order_by
      PROVE  /\ less(k, a, b) /\ less(k, b, c) => less(k, a, c)
             /\ less(k, a, b) /\ KeyField(b, at(k)) = KeyField(c, at(k)) => less(k, a, c)
             /\ KeyField(a, at(k)) = KeyField(b, at(k)) /\ less(k, b, c) => less(k, a, c)
  BY <1>1
<1> HIDE DEF at, less
<1>5. ASSUME NEW k \in DOMAIN order_by, first(k, a, b), NEW l \in DOMAIN order_by, first(l, b, c)
      PROVE  \E j \in DOMAIN order_by : first(j, a, c)
  <2>1. k \in Nat /\ l \in Nat
    BY <1>1
  <2>2. CASE k = l
    BY <1>4, <1>5, <2>2
  <2>3. CASE k < l
    <3>1. k \in 1 .. l - 1 /\ \A j \in 1 .. k - 1 : j \in 1 .. l - 1
      BY <1>1, <2>1, <2>3
    <3>2. first(k, a, c)
      BY <1>4, <1>5, <3>1
    <3> QED BY <3>2
  <2>4. CASE l < k
    <3>1. l \in 1 .. k - 1 /\ \A j \in 1 .. l - 1 : j \in 1 .. k - 1
      BY <1>1, <2>1, <2>4
    <3>2. first(l, a, c)
      BY <1>4, <1>5, <3>1
    <3> QED BY <3>2
  <2> QED BY <2>1, <2>2, <2>3, <2>4
<1>6. ASSUME Tied(order_by, a, b), NEW k \in DOMAIN order_by, first(k, b, c) PROVE first(k, a, c)
  <2>1. \A j \in 1 .. k - 1 : j \in DOMAIN order_by
    BY <1>1
  <2> QED BY <1>3, <1>4, <1>6, <2>1
<1>7. ASSUME Tied(order_by, b, c), NEW k \in DOMAIN order_by, first(k, a, b) PROVE first(k, a, c)
  <2>1. \A j \in 1 .. k - 1 : j \in DOMAIN order_by
    BY <1>1
  <2> QED BY <1>3, <1>4, <1>7, <2>1
<1> HIDE DEF first
<1> QED BY <1>2, <1>3, <1>5, <1>6, <1>7

\* doc_order numbers each node once.
LEMMA DocOrderOf ==
  ASSUME DocInv, MetadataInv, phase \notin {"parse", "order", "depth"}, NEW n \in Node
  PROVE  number_of(n, "doc_order") = {n}
<1>1. number_of(n, "doc_order") = {k \in DOMAIN doc_order : doc_order[k] = n}
  BY Zenon DEF number_of
<1>2. doc_order \in Seq(Nat) /\ Len(doc_order) = Len(nodes) /\ \A k \in 1 .. Len(doc_order) : doc_order[k] = k
  BY DEF MetadataInv, DocOrderIsNodeId
<1>3. DOMAIN doc_order = 1 .. Len(nodes) /\ n \in 1 .. Len(nodes) /\ doc_order[n] = n
  BY <1>2 DEF Node
<1> QED BY <1>1, <1>2, <1>3

\* What nodes are compared by are numbers.
LEMMA KeysOfNodes ==
  ASSUME DocInv, MetadataInv, phase \notin {"parse", "order", "depth"}, NEW n \in Node
  PROVE  IsKey(sort_key(n))
<1>1. Table /\ n \in Nat /\ Len(nodes) \in Nat
  BY ParsedTable DEF Table, Node
<1>2. Rank[nodes[n].tag] \in Int /\ nodes[n].parent \in Nat
  <2>1. nodes \in Seq(TableRecord)
    BY DEF DocInv, DocTypeOK, TableRecord
  <2>2. nodes[n] \in TableRecord
    BY <2>1 DEF Node
  <2> QED BY <2>2, RankAssumption DEF TableRecord
<1>3. max_depth[n] \in Int
  <2>1. max_depth[n] = Height(n)
    BY DEF MetadataInv, MaxDepthIsHeight
  <2> QED BY <1>1, <2>1, HeightIsMax
<1>4. Max(number_of(n, "doc_order")) \in Int
  <2>1. number_of(n, "doc_order") = {n}
    BY DocOrderOf
  <2>2. Max({n}) = n
    <3>1. {n} \in SUBSET (n .. n) /\ {n} # {} /\ n \in Int
      BY <1>1
    <3>2. Max({n}) \in {n}
      BY <3>1, MaxOfSome
    <3> QED BY <3>2
  <2>3. Max(number_of(n, "doc_order")) = n
    BY <2>1, <2>2, Zenon
  <2> QED BY <1>1, <2>3
<1>5. (IF nodes[n].parent = 0 THEN Len(nodes) + 1 ELSE nodes[n].parent) \in Int
  BY <1>1, <1>2
<1> DEFINE depth == max_depth[n]
           order == Max(number_of(n, "doc_order"))
           parent == IF nodes[n].parent = 0 THEN Len(nodes) + 1 ELSE nodes[n].parent
           rank == Rank[nodes[n].tag]
<1>6. sort_key(n) = [node_id |-> n, tag |-> rank, parent_id |-> parent, max_depth |-> depth,
                     doc_order |-> order]
  BY DEF sort_key
<1>7. depth \in Int /\ order \in Int /\ parent \in Int /\ rank \in Int /\ n \in Int
  BY <1>1, <1>2, <1>3, <1>4, <1>5
<1> HIDE DEF depth, order, parent, rank
<1>8. \A f : KeyField(sort_key(n), f) \in Int
  BY <1>6, <1>7 DEF KeyField
<1> QED BY <1>8 DEF IsKey

LEMMA QueryOrder == \A q \in Query : IsOrderBy(q.order_by)
<1> TAKE q \in Query
<1> DEFINE R == [field : NumberFields \cup {"tag", "count"}, descending : BOOLEAN]
<1>1. q.order_by \in Seq(R)
  BY DEF Query
<1> HIDE DEF R
<1> QED BY <1>1, SeqOfItsOwn DEF IsOrderBy

\* ORDER BY, with the table to decide between those it does not tell apart, orders the
\* nodes: the sort has one outcome, whatever the algorithm.
LEMMA NodesAreOrdered ==
  ASSUME DocInv, MetadataInv, phase \notin {"parse", "order", "depth"}, NEW q, IsOrderBy(q.order_by),
         NEW S \in SUBSET Node
  PROVE  Orders([n \in S |-> {m \in S : NodeBefore(q, m, n)}], S)
<1> DEFINE before == [n \in S |-> {m \in S : NodeBefore(q, m, n)}]
           ob == q.order_by
           P(m, n) == Precedes(ob, sort_key(m), sort_key(n))
           T(m, n) == Tied(ob, sort_key(m), sort_key(n))
<1>1. IsOrderBy(ob)
  BY DEF ob
<1>2. \A n \in S : n \in Nat /\ IsKey(sort_key(n))
  <2>1. \A n \in S : n \in Node /\ n \in Nat
    BY ParsedTable DEF Table, Node
  <2> QED BY <2>1, KeysOfNodes
<1>3. \A m, n \in S : /\ P(m, n) \/ P(n, m) \/ T(m, n)
                      /\ T(m, n) => ~P(m, n) /\ T(n, m)
  <2> HIDE DEF ob
  <2> QED BY <1>1, <1>2, TiedOrNot
<1>4. \A l, m, n \in S :
        /\ P(l, m) /\ P(m, n) => P(l, n)
        /\ T(l, m) /\ P(m, n) => P(l, n)
        /\ P(l, m) /\ T(m, n) => P(l, n)
        /\ T(l, m) /\ T(m, n) => T(l, n)
  <2> HIDE DEF ob
  <2> QED BY <1>1, <1>2, PrecedesOn
<1>5. \A m, n : NodeBefore(q, m, n) <=> P(m, n) \/ (~P(n, m) /\ m < n)
  BY DEF NodeBefore
<1> HIDE DEF P, T, ob
<1>6. \A n \in S : T(n, n)
  BY DEF T, Tied
<1>7. \A m, n \in S : P(m, n) => ~P(n, m)
  BY <1>3, <1>4, <1>6
<1>8. \A m, n \in S : NodeBefore(q, m, n) <=> P(m, n) \/ (T(m, n) /\ m < n)
  BY <1>3, <1>5, <1>7
<1>9. \A n \in S : ~NodeBefore(q, n, n)
  BY <1>2, <1>3, <1>6, <1>8
<1>10. ASSUME NEW l \in S, NEW m \in S, NEW n \in S, NodeBefore(q, l, m), NodeBefore(q, m, n)
       PROVE  NodeBefore(q, l, n)
  <2>1. l \in Nat /\ m \in Nat /\ n \in Nat
    BY <1>2
  <2>2. CASE P(l, m) \/ P(m, n)
    BY <1>4, <1>8, <1>10, <2>2
  <2>3. CASE T(l, m) /\ l < m /\ T(m, n) /\ m < n
    <3>1. T(l, n) /\ l < n
      BY <1>4, <2>1, <2>3
    <3> QED BY <1>8, <3>1
  <2> QED BY <1>8, <1>10, <2>2, <2>3
<1>11. \A m, n \in S : m = n \/ NodeBefore(q, m, n) \/ NodeBefore(q, n, m)
  <2> TAKE m, n \in S
  <2>1. m \in Nat /\ n \in Nat
    BY <1>2
  <2>2. m = n \/ m < n \/ n < m
    BY <2>1
  <2> QED BY <1>3, <1>8, <2>2
<1>12. \A n \in S : before[n] = {m \in S : NodeBefore(q, m, n)}
  OBVIOUS
<1>13. before \in [S -> SUBSET S]
  OBVIOUS
<1> HIDE DEF before
<1>14. \A n \in S : n \notin before[n]
  BY <1>9, <1>12
<1>15. \A m, n \in S : m \in before[n] => before[m] \subseteq before[n]
  BY <1>10, <1>12
<1>16. \A m, n \in S : m = n \/ m \in before[n] \/ n \in before[m]
  BY <1>11, <1>12
<1>17. Orders(before, S)
  BY <1>13, <1>14, <1>15, <1>16 DEF Orders
<1> QED BY <1>17 DEF before

\* The state an answer is read from is the one it was made in.
LEMMA AxesUnchanged ==
  ASSUME nodes' = nodes
  PROVE  /\ Node' = Node
         /\ \A n : SiblingPos(n)' = SiblingPos(n)
         /\ \A axis, n : AxisNodes(axis, n)' = AxisNodes(axis, n)
<1>1. Node' = Node
  BY DEF Node
<1>2. build_children' = build_children
  BY DEF build_children
<1>3. Ancestors' = Ancestors
  BY DEF Ancestors
<1>4. \A n : Children(n)' = Children(n)
  BY <1>2 DEF Children
<1>5. Descendants' = Descendants
  BY <1>1, <1>4 DEF Descendants
<1>6. \A n : SiblingPos(n)' = SiblingPos(n)
  BY <1>1 DEF SiblingPos, Kids
<1>7. \A axis, n : AxisNodes(axis, n)' = AxisNodes(axis, n)
  BY <1>3, <1>4, <1>5 DEF AxisNodes
<1> QED BY <1>1, <1>6, <1>7

LEMMA ComparisonsUnchanged ==
  ASSUME nodes' = nodes, doc_order' = doc_order, max_depth' = max_depth
  PROVE  \A e, n : CompareHolds(e, n)' = CompareHolds(e, n)
<1>1. \A axis, n : AxisNodes(axis, n)' = AxisNodes(axis, n)
  BY AxesUnchanged
<1>2. \A n, field : number_of(n, field)' = number_of(n, field)
  BY AxesUnchanged DEF number_of
<1>3. \A n, name : attribute_of(n, name)' = attribute_of(n, name)
  BY DEF attribute_of
<1>4. \A n, field, op, values : match_field(n, field, op, values)' = match_field(n, field, op, values)
  BY <1>2, <1>3, ZenonT(40) DEF match_field
<1>5. \A n, field : values_of(n, field)' = values_of(n, field)
  BY <1>2, <1>3 DEF values_of
<1>6. \A o, n : value_from_operand(o, n)' = value_from_operand(o, n)
  BY <1>1, <1>5 DEF value_from_operand
<1>7. \A e, n : CompareLiterals(e, n)' = CompareLiterals(e, n)
  BY <1>1, <1>4 DEF CompareLiterals
<1>8. \A e, n : Present(e, n)' = Present(e, n)
  BY <1>1, <1>3 DEF Present
<1>9. \A e, n : CompareComputed(e, n)' = CompareComputed(e, n)
  <2> TAKE e, n
  <2>1. value_from_operand([axis |-> e.axis, field |-> e.field], n)' = value_from_operand([axis |-> e.axis, field |-> e.field], n)
    BY <1>6
  <2>2. \A k : value_from_operand(e.operands[k], n)' = value_from_operand(e.operands[k], n)
    BY <1>6
  <2> QED BY <2>1, <2>2 DEF CompareComputed
<1> QED BY <1>7, <1>8, <1>9 DEF CompareHolds

LEMMA SelectionUnchanged ==
  ASSUME nodes' = nodes, doc_order' = doc_order, max_depth' = max_depth
  PROVE  /\ \A q, n : Selected(q, n)' = Selected(q, n)
         /\ \A q, m, n : NodeBefore(q, m, n)' = NodeBefore(q, m, n)
<1>1. eval_expr' = eval_expr
  <2>1. \A axis, n : ToSet(AxisNodes(axis, n))' = ToSet(AxisNodes(axis, n))
    BY AxesUnchanged
  <2>2. \A e, n : CompareHolds(e, n)' = CompareHolds(e, n)
    BY ComparisonsUnchanged
  <2> DEFINE body(g, e, n) ==
               CASE e.kind = "compare" -> CompareHolds(e, n)
                 [] e.kind = "exists" ->
                       \E m \in ToSet(AxisNodes(e.axis, n)) : \A f \in e.where : g[f][m]
                 [] e.kind = "and" -> g[e.left][n] /\ g[e.right][n]
                 [] OTHER -> g[e.left][n] \/ g[e.right][n]
  <2>3. \A g, e, n : body(g, e, n)' = body(g, e, n)
    BY <2>1, <2>2, ZenonT(40)
  <2>4. eval_expr = CHOOSE g : g = [e \in Exprs |-> [n \in Nat |-> body(g, e, n)]]
    BY DEF eval_expr
  <2>5. eval_expr' = CHOOSE g : g = [e \in Exprs |-> [n \in Nat |-> body(g, e, n)']]
    BY DEF eval_expr
  <2> HIDE DEF body
  <2>6. \A g : [e \in Exprs |-> [n \in Nat |-> body(g, e, n)']] = [e \in Exprs |-> [n \in Nat |-> body(g, e, n)]]
    BY <2>3
  <2> QED BY <2>4, <2>5, <2>6
<1>2. \A q, n : Selected(q, n)' = Selected(q, n)
  BY <1>1 DEF Selected
<1>3. \A n : sort_key(n)' = sort_key(n)
  BY AxesUnchanged DEF sort_key, number_of
<1>4. \A q, m, n : NodeBefore(q, m, n)' = NodeBefore(q, m, n)
  BY <1>3 DEF NodeBefore
<1> QED BY <1>2, <1>4

\* What is left of a sequence by LIMIT: its beginning, and all of it without a limit.
LEMMA TruncatedIs ==
  ASSUME NEW S, NEW s \in Seq(S), NEW q \in Queries
  PROVE  \E l \in 0 .. Len(s) : /\ Len(Truncated(q, s)) = l /\ DOMAIN Truncated(q, s) = 1 .. l
                                /\ \A k \in 1 .. l : Truncated(q, s)[k] = s[k]
                                /\ l = Len(s) \/ q.limit = {l}
                                /\ l = Min({Len(s)} \cup q.limit)
<1>1. q.limit \in SUBSET Nat /\ \A a, b \in q.limit : a = b
  BY QueriesAssumption DEF Query
<1>2. Truncated(q, s) = SubSeq(s, 1, Min({Len(s)} \cup q.limit))
  BY DEF Truncated
<1>3. IsBeginning(Truncated(q, s), s, q.limit)
  BY <1>1, <1>2, BeginningIs
<1> QED BY <1>3, Zenon DEF IsBeginning

\* What a query selects, in the order of the query: each node once, and no other.
LEMMA SortedIs ==
  ASSUME DocInv, MetadataInv, phase \notin {"parse", "order", "depth"}, NEW q, IsOrderBy(q.order_by),
         NEW S \in SUBSET Node
  PROVE  /\ Sorted(q, S) \in Seq(S) /\ Len(Sorted(q, S)) = Cardinality(S) /\ Cardinality(S) \in Nat
         /\ \A n \in S : \E k \in 1 .. Len(Sorted(q, S)) : Sorted(q, S)[k] = n
         /\ \A j, k \in 1 .. Len(Sorted(q, S)) : j < k => NodeBefore(q, Sorted(q, S)[j], Sorted(q, S)[k])
         /\ \A j, k \in 1 .. Len(Sorted(q, S)) : Sorted(q, S)[j] = Sorted(q, S)[k] => j = k
<1> DEFINE s == Sorted(q, S)
           before == [n \in S |-> {m \in S : NodeBefore(q, m, n)}]
           place == [n \in S |-> Cardinality({m \in S : NodeBefore(q, m, n)})]
<1>1. IsFiniteSet(S)
  <2>1. Len(nodes) \in Nat /\ Node = 1 .. Len(nodes)
    BY ParsedTable DEF Table, Node
  <2>2. IsFiniteSet(Node)
    BY <2>1, FS_Interval
  <2> QED BY <2>2, FS_Subset
<1>2. Orders(before, S)
  BY NodesAreOrdered
<1>3. \A n \in S : place[n] = Cardinality(before[n])
  OBVIOUS
<1>4. ByPlaces(s, S, place)
  BY DEF Sorted, ByPlaces
<1>5. \A n \in S : before[n] = {m \in S : NodeBefore(q, m, n)}
  OBVIOUS
<1> HIDE DEF s, before, place
<1>6. /\ s \in Seq(S) /\ Len(s) = Cardinality(S) /\ Cardinality(S) \in Nat
      /\ \A n \in S : \E k \in 1 .. Len(s) : s[k] = n
      /\ \A j, k \in 1 .. Len(s) : j < k => s[j] \in before[s[k]]
  BY <1>1, <1>2, <1>3, <1>4, ByTheirPlaces
<1>7. \A k \in 1 .. Len(s) : s[k] \in S
  BY <1>6
<1>8. \A j, k \in 1 .. Len(s) : j < k => NodeBefore(q, s[j], s[k])
  BY <1>5, <1>6, <1>7
<1>9. ASSUME NEW j \in 1 .. Len(s), NEW k \in 1 .. Len(s), s[j] = s[k] PROVE j = k
  <2>1. \A n \in S : n \notin before[n]
    BY <1>2 DEF Orders
  <2>2. s[j] \in S /\ ~(j < k) /\ ~(k < j)
    BY <1>6, <1>7, <1>9, <2>1
  <2>3. j \in Nat /\ k \in Nat
    BY <1>6
  <2> QED BY <2>2, <2>3
<1> QED BY <1>6, <1>8, <1>9 DEF s

\* An answer of nodes is the first of what its query selects.
LEMMA AnswerIsFirst ==
  ASSUME DocInv, MetadataInv, phase = "parsed", NEW q \in Queries
  PROVE  FirstOf(q, NodeRows(q))
<1> DEFINE S == {n \in Node : Selected(q, n)}
           s == Sorted(q, S)
           found == Truncated(q, s)
           answer == NodeRows(q)
<1>1. /\ s \in Seq(S)
      /\ \A n \in S : \E k \in 1 .. Len(s) : s[k] = n
      /\ \A j, k \in 1 .. Len(s) : j < k => NodeBefore(q, s[j], s[k])
  <2>1. IsOrderBy(q.order_by) /\ S \in SUBSET Node
    BY QueriesAssumption, QueryOrder
  <2> HIDE DEF S
  <2> QED BY <2>1, SortedIs
<1>2. PICK l \in 0 .. Len(s) : /\ DOMAIN found = 1 .. l /\ \A k \in 1 .. l : found[k] = s[k]
                               /\ l = Len(s) \/ q.limit = {l}
  <2> HIDE DEF s, S
  <2> QED BY <1>1, TruncatedIs
<1>3. Len(s) \in Nat /\ \A k \in 1 .. Len(s) : s[k] \in S
  <2> HIDE DEF s, S
  <2> QED BY <1>1
<1>4. found = execute_query(q)
  BY DEF execute_query
<1> HIDE DEF s, found
<1>5. \A k \in 1 .. l : k \in 1 .. Len(s)
  BY <1>3
<1>6. /\ DOMAIN answer = 1 .. l
      /\ \A k \in 1 .. l : answer[k].node_id = s[k]
  BY <1>2, <1>4 DEF NodeRows, Row
<1>7. Len(answer) = l
  <2>1. answer = [k \in 1 .. l |-> Row(nodes[found[k]].tag, found[k], SiblingPos(found[k]))]
    BY <1>2, <1>4 DEF NodeRows
  <2>2. l \in Nat
    BY <1>3
  <2> DEFINE row(k) == Row(nodes[found[k]].tag, found[k], SiblingPos(found[k]))
  <2> HIDE DEF row
  <2>3. Len([k \in 1 .. l |-> row(k)]) = l
    BY <2>2
  <2> QED BY <2>1, <2>3 DEF row
<1> HIDE DEF answer, S
<1>8. \A k \in DOMAIN answer : Selected(q, answer[k].node_id)
  BY <1>3, <1>5, <1>6 DEF S
<1>9. \A j, k \in DOMAIN answer : j < k => NodeBefore(q, answer[j].node_id, answer[k].node_id)
  <2> TAKE j, k \in DOMAIN answer
  <2>1. j \in 1 .. l /\ k \in 1 .. l
    BY <1>6
  <2>2. j < k => NodeBefore(q, s[j], s[k])
    BY <1>1, <1>5, <2>1
  <2> QED BY <1>6, <2>1, <2>2
<1>10. ASSUME NEW n \in Node, Selected(q, n), n \notin {answer[k].node_id : k \in DOMAIN answer}
       PROVE  {Len(answer)} = q.limit /\ \A k \in DOMAIN answer : NodeBefore(q, answer[k].node_id, n)
  <2>1. PICK m \in 1 .. Len(s) : s[m] = n
    BY <1>1, <1>10 DEF S
  <2>2. m \notin 1 .. l
    BY <1>6, <1>10, <2>1
  <2>3. l \in Nat /\ m \in Nat /\ l < m /\ m <= Len(s)
    BY <1>3, <2>2
  <2>4. q.limit = {l}
    BY <1>2, <1>3, <2>3
  <2>5. ASSUME NEW k \in 1 .. l PROVE NodeBefore(q, s[k], n)
    <3>1. k \in 1 .. Len(s) /\ k < m
      BY <1>5, <2>3
    <3> QED BY <1>1, <2>1, <3>1
  <2> QED BY <1>6, <1>7, <2>4, <2>5
<1> QED BY <1>8, <1>9, <1>10 DEF FirstOf, answer

\* The rows of a query without an aggregate are the first of what it selects, for every
\* document, every query and every order.
THEOREM AnswersAreFirst == Spec => []FirstRows
<1>1. Init => FirstRows
  BY DEF Init, DocInit, FirstRows
<1>2. ASSUME FirstRows, DocInv, MetadataInv, [Next]_vars PROVE FirstRows'
  <2>1. CASE UNCHANGED vars
    <3>1. /\ phase' = phase /\ query' = query /\ rows' = rows /\ nodes' = nodes
          /\ doc_order' = doc_order /\ max_depth' = max_depth
      BY <2>1 DEF vars, docVars
    <3>2. FirstOf(query, rows)' = FirstOf(query, rows)
      BY <3>1, AxesUnchanged, SelectionUnchanged DEF FirstOf
    <3> QED BY <1>2, <3>1, <3>2 DEF FirstRows
  <2>2. CASE DocNext /\ UNCHANGED <<query, rows>>
    <3>1. phase' # "answered"
      BY <2>2 DEF DocNext, ParseStep, MetadataStep, OpenTag, OpenRaw, CloseTag, TextRun, Skip, ParseEnds,
                  NumberNode, OrderEnds, MeasureNode, DepthEnds
    <3> QED BY <3>1 DEF FirstRows
  <2>3. ASSUME NEW q \in Queries, Execute(q) PROVE FirstRows'
    <3>1. /\ phase = "parsed" /\ query' = q /\ nodes' = nodes /\ doc_order' = doc_order
          /\ max_depth' = max_depth /\ Answer(q)
      BY <2>3 DEF Execute
    <3>2. SUFFICES ASSUME q.aggregate = "none" PROVE FirstOf(query, rows)'
      BY <3>1 DEF FirstRows
    <3>3. rows' = NodeRows(q)
      BY <3>1, <3>2 DEF Answer
    <3>4. FirstOf(q, NodeRows(q))
      BY <1>2, <3>1, AnswerIsFirst
    <3>5. FirstOf(query, rows)' = FirstOf(q, NodeRows(q))
      BY <3>1, <3>3, AxesUnchanged, SelectionUnchanged DEF FirstOf
    <3> QED BY <3>4, <3>5
  <2> QED BY <1>2, <2>1, <2>2, <2>3 DEF Next
<1>3. Spec => []DocInv /\ []MetadataInv
  BY EngineInvariance, MetadataInvariance, PTL
<1> QED BY <1>1, <1>2, <1>3, PTL DEF Spec

\* What execute_query finds: nodes the query selects, each once, as many as LIMIT lets,
\* and all of them without a limit.
FindsHits(q, found, l) ==
  /\ l \in Nat /\ DOMAIN found = 1 .. l /\ Len(found) = l
  /\ l = Min({Cardinality(Hits(q))} \cup q.limit)
  /\ \A k \in 1 .. l : found[k] \in Hits(q)
  /\ \A j, k \in 1 .. l : found[j] = found[k] => j = k
  /\ q.limit = {} => \A n \in Hits(q) : \E k \in 1 .. l : found[k] = n

LEMMA FoundIs ==
  ASSUME DocInv, MetadataInv, phase = "parsed", NEW q \in Queries
  PROVE  \E l : FindsHits(q, execute_query(q), l)
<1> DEFINE s == Sorted(q, Hits(q))
           found == Truncated(q, s)
<1>1. IsOrderBy(q.order_by) /\ Hits(q) \in SUBSET Node
  BY QueriesAssumption, QueryOrder DEF Hits
<1>2. /\ s \in Seq(Hits(q)) /\ Len(s) = Cardinality(Hits(q)) /\ Cardinality(Hits(q)) \in Nat
      /\ \A n \in Hits(q) : \E k \in 1 .. Len(s) : s[k] = n
      /\ \A j, k \in 1 .. Len(s) : s[j] = s[k] => j = k
  BY <1>1, SortedIs
<1>3. PICK l \in 0 .. Len(s) : /\ Len(found) = l /\ DOMAIN found = 1 .. l /\ \A k \in 1 .. l : found[k] = s[k]
                               /\ l = Len(s) \/ q.limit = {l}
                               /\ l = Min({Len(s)} \cup q.limit)
  <2> HIDE DEF s
  <2> QED BY <1>2, TruncatedIs, ZenonT(40)
<1>4. found = execute_query(q)
  BY DEF execute_query, Hits
<1> HIDE DEF s, found
<1>5. l \in Nat /\ (\A k \in 1 .. l : k \in 1 .. Len(s)) /\ (\A k \in 1 .. Len(s) : s[k] \in Hits(q))
  BY <1>2
<1>6. /\ \A k \in 1 .. l : found[k] \in Hits(q)
      /\ \A j, k \in 1 .. l : found[j] = found[k] => j = k
  BY <1>2, <1>3, <1>5
<1>7. q.limit = {} => l = Len(s)
  BY <1>3
<1>8. q.limit = {} => \A n \in Hits(q) : \E k \in 1 .. l : found[k] = n
  BY <1>2, <1>3, <1>7
<1>9. l = Min({Cardinality(Hits(q))} \cup q.limit)
  BY <1>2, <1>3
<1>10. FindsHits(q, found, l)
  BY <1>3, <1>5, <1>6, <1>8, <1>9 DEF FindsHits
<1> QED BY <1>4, <1>10

\* COUNT(*), by the short way and by the long one.
LEMMA CountIsOfHits ==
  ASSUME DocInv, MetadataInv, phase = "parsed", NEW q \in Queries
  PROVE  CountOf(q, CountRows(q))
<1>1. PICK l : FindsHits(q, execute_query(q), l)
  BY FoundIs
<1>2. CASE plain_count_star(q)
  <2>1. Hits(q) = Node
    BY <1>2 DEF plain_count_star, Hits, Selected
  <2>2. Len(nodes) \in Nat /\ Node = 1 .. Len(nodes)
    BY ParsedTable DEF Table, Node
  <2>3. Cardinality(Node) = Len(nodes)
    <3>1. Cardinality(1 .. Len(nodes)) = IF 1 > Len(nodes) THEN 0 ELSE Len(nodes) - 1 + 1
      BY <2>2, FS_Interval, SMTT(30)
    <3>2. Cardinality(1 .. Len(nodes)) = Len(nodes)
      BY <2>2, <3>1
    <3> QED BY <2>2, <3>2
  <2>4. {Cardinality(Hits(q))} \cup q.limit = {Len(nodes)}
    BY <1>2, <2>1, <2>3 DEF plain_count_star
  <2>5. Min({Len(nodes)}) = Len(nodes)
    BY <2>2 DEF Min
  <2>6. CountRows(q)[1].node_id = Len(nodes)
    BY <1>2 DEF CountRows, Row
  <2> QED BY <2>4, <2>5, <2>6 DEF CountOf
<1>3. CASE ~plain_count_star(q)
  <2>1. CountRows(q)[1].node_id = Len(execute_query(q))
    BY <1>3 DEF CountRows, Row
  <2> QED BY <1>1, <2>1 DEF CountOf, FindsHits
<1> QED BY <1>2, <1>3

\* The places in found of the nodes of a tag.
PlacesOfHits(found, l, tag) == {k \in 1 .. l : nodes[found[k]].tag = tag}

\* SUMMARIZE counts for a tag no more nodes than were selected, and without a limit as many.
LEMMA CountedIs ==
  ASSUME DocInv, MetadataInv, phase = "parsed", NEW q \in Queries,
         NEW l, FindsHits(q, execute_query(q), l), NEW t
  PROVE  /\ counted(q, t) = Cardinality(PlacesOfHits(execute_query(q), l, t))
         /\ counted(q, t) \in 0 .. Cardinality(HitsOf(q, t))
         /\ counted(q, t) > 0 <=> PlacesOfHits(execute_query(q), l, t) # {}
         /\ q.limit = {} => counted(q, t) = Cardinality(HitsOf(q, t))
<1> DEFINE found == execute_query(q)
           A == PlacesOfHits(found, l, t)
           B == HitsOf(q, t)
           f == [k \in A |-> found[k]]
<1>1. /\ l \in Nat /\ DOMAIN found = 1 .. l
      /\ \A k \in 1 .. l : found[k] \in Hits(q)
      /\ \A j, k \in 1 .. l : found[j] = found[k] => j = k
      /\ q.limit = {} => \A n \in Hits(q) : \E k \in 1 .. l : found[k] = n
  BY DEF FindsHits
<1>2. IsFiniteSet(A) /\ IsFiniteSet(B)
  <2>1. IsFiniteSet(1 .. l) /\ A \subseteq 1 .. l
    BY <1>1, FS_Interval DEF PlacesOfHits
  <2>2. Len(nodes) \in Nat /\ Node = 1 .. Len(nodes)
    BY ParsedTable DEF Table, Node
  <2>3. IsFiniteSet(1 .. Len(nodes)) /\ B \subseteq 1 .. Len(nodes)
    BY <2>2, FS_Interval DEF HitsOf, Hits
  <2> HIDE DEF A, B
  <2> QED BY <2>1, <2>3, FS_Subset
<1>3. counted(q, t) = Cardinality(A)
  BY <1>1 DEF counted, PlacesOfHits
<1> HIDE DEF found
<1>4. \A k \in A : k \in 1 .. l /\ f[k] = found[k] /\ f[k] \in B
  BY <1>1 DEF PlacesOfHits, HitsOf
<1>5. f \in Injection(A, B)
  <2>1. f \in [A -> B]
    <3> HIDE DEF A, B
    <3> QED BY <1>4
  <2>2. \A j, k \in A : f[j] = f[k] => j = k
    BY <1>1, <1>4
  <2> HIDE DEF f, A, B
  <2> QED BY <2>1, <2>2 DEF Injection, IsInjective
<1>6. ASSUME q.limit = {} PROVE f \in Surjection(A, B)
  <2>1. ASSUME NEW n \in B PROVE \E k \in A : f[k] = n
    <3>1. n \in Hits(q) /\ nodes[n].tag = t
      BY DEF HitsOf
    <3>2. PICK k \in 1 .. l : found[k] = n
      BY <1>1, <1>6, <3>1
    <3>3. k \in A
      BY <3>1, <3>2 DEF PlacesOfHits
    <3> QED BY <1>4, <3>2, <3>3
  <2>2. f \in [A -> B]
    BY <1>5 DEF Injection
  <2> HIDE DEF f, A, B
  <2> QED BY <2>1, <2>2 DEF Surjection
<1> HIDE DEF f, A, B
<1>7. /\ Cardinality(A) <= Cardinality(B)
      /\ q.limit = {} => Cardinality(A) = Cardinality(B)
  BY <1>2, <1>5, <1>6, FS_Injection
<1>8. Cardinality(A) \in Nat /\ Cardinality(B) \in Nat /\ (Cardinality(A) = 0 <=> A = {})
  BY <1>2, FS_CardinalityType, FS_EmptySet
<1>9. /\ Cardinality(A) \in 0 .. Cardinality(B)
      /\ Cardinality(A) > 0 <=> A # {}
  BY <1>7, <1>8
<1> QED BY <1>3, <1>7, <1>9 DEF A, B, found

\* The tags of what was found are finitely many.
LEMMA TagsOfFound ==
  ASSUME DocInv, MetadataInv, phase = "parsed", NEW q \in Queries,
         NEW l, FindsHits(q, execute_query(q), l)
  PROVE  IsFiniteSet({t \in Tag : counted(q, t) > 0})
<1> DEFINE found == execute_query(q)
           T == {t \in Tag : counted(q, t) > 0}
           K == {k \in 1 .. l : nodes[found[k]].tag \in T}
           f == [k \in K |-> nodes[found[k]].tag]
<1>1. IsFiniteSet(K)
  <2>1. l \in Nat
    BY DEF FindsHits
  <2>2. IsFiniteSet(1 .. l) /\ K \subseteq 1 .. l
    BY <2>1, FS_Interval
  <2> HIDE DEF K
  <2> QED BY <2>2, FS_Subset
<1>2. ASSUME NEW t \in T PROVE \E k \in K : f[k] = t
  <2>1. PlacesOfHits(found, l, t) # {}
    BY CountedIs
  <2>2. PICK k \in 1 .. l : nodes[found[k]].tag = t
    BY <2>1 DEF PlacesOfHits
  <2> QED BY <2>2
<1>3. f \in Surjection(K, T)
  <2>1. f \in [K -> T]
    <3> HIDE DEF T, found
    <3> QED OBVIOUS
  <2> HIDE DEF f, K, T
  <2> QED BY <1>2, <2>1 DEF Surjection
<1> HIDE DEF f, K, T
<1>4. IsFiniteSet(T)
  BY <1>1, <1>3, FS_Surjection
<1> QED BY <1>4 DEF T

LEMMA HitsUnchanged ==
  ASSUME nodes' = nodes, doc_order' = doc_order, max_depth' = max_depth
  PROVE  /\ CountOf(query, rows)' = CountOf(query', rows')
         /\ SummaryOf(query, rows)' = SummaryOf(query', rows')
<1>1. \A q : Hits(q)' = Hits(q)
  BY AxesUnchanged, SelectionUnchanged DEF Hits
<1>2. \A q, t : HitsOf(q, t)' = HitsOf(q, t)
  BY <1>1 DEF HitsOf
<1> QED BY <1>1, <1>2 DEF CountOf, SummaryOf

\* SUMMARIZE, whatever the order of its tags.
LEMMA SummaryIsOfHits ==
  ASSUME DocInv, MetadataInv, phase = "parsed", NEW q \in Queries,
         NEW tags \in SetToSeqs({t \in Tag : counted(q, t) > 0})
  PROVE  SummaryOf(q, Truncated(q, [k \in DOMAIN tags |-> Row(tags[k], counted(q, tags[k]), 0)]))
<1> DEFINE T == {t \in Tag : counted(q, t) > 0}
           N == Cardinality(T)
           row(k) == Row(tags[k], counted(q, tags[k]), 0)
           all == [k \in DOMAIN tags |-> row(k)]
           answer == Truncated(q, all)
<1>1. PICK l : FindsHits(q, execute_query(q), l)
  BY FoundIs
<1>2. \A t : /\ counted(q, t) \in 0 .. Cardinality(HitsOf(q, t))
             /\ counted(q, t) > 0 <=> PlacesOfHits(execute_query(q), l, t) # {}
             /\ q.limit = {} => counted(q, t) = Cardinality(HitsOf(q, t))
  BY <1>1, CountedIs
<1>3. IsFiniteSet(T)
  BY <1>1, TagsOfFound
<1>4. /\ tags \in [1 .. N -> T] /\ N \in Nat
      /\ \A j, k \in 1 .. N : tags[j] = tags[k] => j = k
      /\ \A t \in T : \E k \in 1 .. N : tags[k] = t
  <2>1. tags \in SetToSeqs(T)
    OBVIOUS
  <2> HIDE DEF T
  <2>2. tags \in [1 .. N -> T] /\ \A j, k \in 1 .. N : j # k => tags[j] # tags[k]
    BY <2>1 DEF SetToSeqs
  <2>3. N \in Nat /\ IsFiniteSet(1 .. N) /\ Cardinality(1 .. N) = N
    <3>1. N \in Nat
      BY <1>3, FS_CardinalityType
    <3>2. IsFiniteSet(1 .. N) /\ Cardinality(1 .. N) = IF 1 > N THEN 0 ELSE N - 1 + 1
      BY <3>1, FS_Interval
    <3> HIDE DEF N
    <3> QED BY <3>1, <3>2
  <2>4. tags \in Injection(1 .. N, T)
    BY <2>2 DEF Injection, IsInjective
  <2>5. tags \in Surjection(1 .. N, T)
    BY <1>3, <2>3, <2>4, FS_Injection
  <2> HIDE DEF N
  <2> QED BY <2>2, <2>3, <2>5 DEF Surjection
<1>5. \A k \in 1 .. N : tags[k] \in Tag /\ counted(q, tags[k]) > 0
  <2>1. \A k \in 1 .. N : tags[k] \in T
    <3> HIDE DEF T
    <3> QED BY <1>4
  <2> HIDE DEF N
  <2> QED BY <2>1
<1>6. DOMAIN tags = 1 .. N
  <2> HIDE DEF N, T
  <2> QED BY <1>4
<1>7. all \in Seq({row(k) : k \in 1 .. N}) /\ Len(all) = N
  <2> DEFINE R == {row(k) : k \in 1 .. N}
             f == [k \in 1 .. N |-> row(k)]
  <2>1. \A k \in 1 .. N : f[k] \in R
    OBVIOUS
  <2>2. all = f /\ f = [k \in 1 .. N |-> f[k]]
    BY <1>6
  <2> HIDE DEF R, f, N
  <2>3. [k \in 1 .. N |-> f[k]] \in Seq(R) /\ Len([k \in 1 .. N |-> f[k]]) = N
    BY <1>4, <2>1, ValuesAreASeq
  <2> HIDE DEF all
  <2> QED BY <2>2, <2>3 DEF R
<1>8. \A k \in 1 .. N : all[k].tag = tags[k] /\ all[k].node_id = counted(q, tags[k])
  BY <1>6 DEF Row
<1> HIDE DEF all
<1>9. PICK m \in 0 .. N : /\ DOMAIN answer = 1 .. m /\ \A k \in 1 .. m : answer[k] = all[k]
                          /\ m = N \/ q.limit = {m}
  <2> DEFINE R == {row(k) : k \in 1 .. N}
  <2>1. all \in Seq(R) /\ Len(all) = N
    BY <1>7
  <2> HIDE DEF R, N
  <2> QED BY <2>1, TruncatedIs, ZenonT(40)
<1> HIDE DEF answer, N, T
<1>10. \A k \in 1 .. m : /\ k \in 1 .. N
                         /\ answer[k].tag = tags[k] /\ answer[k].node_id = counted(q, tags[k])
  <2>1. \A k \in 1 .. m : k \in 1 .. N
    BY <1>4
  <2> QED BY <1>8, <1>9, <2>1
<1>11. \A j, k \in DOMAIN answer : answer[j].tag = answer[k].tag => j = k
  BY <1>4, <1>9, <1>10
<1>12. ASSUME NEW k \in DOMAIN answer
       PROVE  /\ answer[k].node_id \in 1 .. Cardinality(HitsOf(q, answer[k].tag))
              /\ q.limit = {} => answer[k].node_id = Cardinality(HitsOf(q, answer[k].tag))
  <2>1. k \in 1 .. N /\ answer[k].tag = tags[k] /\ answer[k].node_id = counted(q, tags[k])
    BY <1>9, <1>10
  <2>2. counted(q, tags[k]) > 0
    BY <1>5, <2>1
  <2> DEFINE c == counted(q, tags[k])
             h == Cardinality(HitsOf(q, tags[k]))
  <2>3. c \in 0 .. h /\ (q.limit = {} => c = h)
    BY <1>2
  <2>4. c \in 1 .. h
    <3>1. c > 0
      BY <2>2
    <3> HIDE DEF c, h
    <3> QED BY <2>3, <3>1
  <2> QED BY <2>1, <2>3, <2>4
<1>13. ASSUME q.limit = {}, NEW n \in Hits(q) PROVE \E k \in DOMAIN answer : answer[k].tag = nodes[n].tag
  <2>1. PICK k \in 1 .. l : execute_query(q)[k] = n
    BY <1>1, <1>13 DEF FindsHits
  <2>2. PlacesOfHits(execute_query(q), l, nodes[n].tag) # {}
    BY <2>1 DEF PlacesOfHits
  <2>3. nodes[n].tag \in Tag
    <3>1. nodes \in Seq(TableRecord)
      BY DEF DocInv, DocTypeOK, TableRecord
    <3>2. n \in 1 .. Len(nodes)
      BY DEF Hits, Node
    <3>3. nodes[n] \in TableRecord
      BY <3>1, <3>2
    <3> QED BY <3>3 DEF TableRecord
  <2>4. nodes[n].tag \in T
    BY <1>2, <2>2, <2>3 DEF T
  <2>5. PICK j \in 1 .. N : tags[j] = nodes[n].tag
    BY <1>4, <2>4
  <2>6. m = N
    BY <1>9, <1>13
  <2> QED BY <1>9, <1>10, <2>5, <2>6
<1> QED BY <1>11, <1>12, <1>13 DEF SummaryOf, answer, all

\* COUNT and SUMMARIZE, for every document and every query.
THEOREM CountsAreOfHits == Spec => []CountsAddUp
<1>1. Init => CountsAddUp
  BY DEF Init, DocInit, CountsAddUp
<1>2. ASSUME CountsAddUp, DocInv, MetadataInv, [Next]_vars PROVE CountsAddUp'
  <2>1. CASE UNCHANGED vars
    <3>1. /\ phase' = phase /\ query' = query /\ rows' = rows /\ nodes' = nodes
          /\ doc_order' = doc_order /\ max_depth' = max_depth
      BY <2>1 DEF vars, docVars
    <3>2. CountOf(query, rows)' = CountOf(query, rows) /\ SummaryOf(query, rows)' = SummaryOf(query, rows)
      BY <3>1, HitsUnchanged
    <3> QED BY <1>2, <3>1, <3>2 DEF CountsAddUp
  <2>2. CASE DocNext /\ UNCHANGED <<query, rows>>
    <3>1. phase' # "answered"
      BY <2>2 DEF DocNext, ParseStep, MetadataStep, OpenTag, OpenRaw, CloseTag, TextRun, Skip, ParseEnds,
                  NumberNode, OrderEnds, MeasureNode, DepthEnds
    <3> QED BY <3>1 DEF CountsAddUp
  <2>3. ASSUME NEW q \in Queries, Execute(q) PROVE CountsAddUp'
    <3>1. /\ phase = "parsed" /\ query' = q /\ nodes' = nodes /\ doc_order' = doc_order
          /\ max_depth' = max_depth /\ Answer(q)
      BY <2>3 DEF Execute
    <3>2. CASE q.aggregate = "count"
      <4>1. rows' = CountRows(q)
        BY <3>1, <3>2 DEF Answer
      <4>2. CountOf(q, CountRows(q))
        BY <1>2, <3>1, CountIsOfHits
      <4>3. CountOf(query, rows)' = CountOf(q, rows')
        BY <3>1, HitsUnchanged
      <4> QED BY <3>1, <3>2, <4>1, <4>2, <4>3 DEF CountsAddUp
    <3>3. CASE q.aggregate = "summarize"
      <4>1. PICK tags \in SetToSeqs({t \in Tag : counted(q, t) > 0}) : SummaryRows(q, tags)
        BY <3>1, <3>3 DEF Answer
      <4>2. rows' = Truncated(q, [k \in DOMAIN tags |-> Row(tags[k], counted(q, tags[k]), 0)])
        BY <4>1 DEF SummaryRows
      <4>3. SummaryOf(q, rows')
        BY <1>2, <3>1, <4>2, SummaryIsOfHits
      <4>4. SummaryOf(query, rows)' = SummaryOf(q, rows')
        BY <3>1, HitsUnchanged
      <4> QED BY <3>1, <3>3, <4>3, <4>4 DEF CountsAddUp
    <3> QED BY <3>1, <3>2, <3>3 DEF CountsAddUp
  <2> QED BY <1>2, <2>1, <2>2, <2>3 DEF Next
<1>3. Spec => []DocInv /\ []MetadataInv
  BY EngineInvariance, MetadataInvariance, PTL
<1> QED BY <1>1, <1>2, <1>3, PTL DEF Spec
----------------------------------------------------------------------------
(* The two paths of a comparison. *)

\* A case of CompareHolds, read off a comparison of one value.
LEMMA LiteralPath ==
  ASSUME NEW n, NEW op \in {"=", "<>", "<", "<=", ">", ">=", "in"}, NEW f, NEW v
  PROVE  CompareHolds(Comparison(op, f, <<v>>, <<>>), n) <=> match_field(n, f, op, <<v>>)
<1> DEFINE e == Comparison(op, f, <<v>>, <<>>)
<1>1. /\ e.op = op /\ e.axis = "self" /\ e.field = f /\ e.values = <<v>>
  BY DEF Comparison
<1>2. op # "is null" /\ op # "is not null" /\ <<v>> # <<>>
  OBVIOUS
<1> HIDE DEF e
<1>3. CompareHolds(e, n) <=> CompareLiterals(e, n)
  BY <1>1, <1>2, Zenon DEF CompareHolds
<1>4. AxisNodes("self", n) = <<n>>
  BY Zenon DEF AxisNodes
<1>5. ToSet(<<n>>) = {n}
  BY DEF ToSet
<1>6. CompareLiterals(e, n) <=> match_field(n, f, op, <<v>>)
  BY <1>1, <1>4, <1>5 DEF CompareLiterals
<1> QED BY <1>3, <1>6 DEF e

LEMMA OperandOfSelf ==
  ASSUME NEW n, NEW f
  PROVE  value_from_operand([axis |-> "self", field |-> f], n) = values_of(n, f)
<1> DEFINE o == [axis |-> "self", field |-> f]
           having == {k \in DOMAIN <<n>> : values_of(<<n>>[k], f) # {}}
<1>1. AxisNodes("self", n) = <<n>>
  BY Zenon DEF AxisNodes
<1>2. value_from_operand(o, n) = IF having = {} THEN {} ELSE values_of(<<n>>[Min(having)], f)
  BY <1>1 DEF value_from_operand
<1>3. CASE values_of(n, f) = {}
  <2>1. having = {}
    BY <1>3
  <2> QED BY <1>2, <1>3, <2>1
<1>4. CASE values_of(n, f) # {}
  <2>1. having = {1}
    BY <1>4
  <2>2. Min({1}) = 1
    BY DEF Min
  <2>3. <<n>>[Min(having)] = n
    BY <2>1, <2>2
  <2>4. having # {}
    BY <2>1
  <2> HIDE DEF having, o
  <2> QED BY <1>2, <2>3, <2>4 DEF o
<1> QED BY <1>3, <1>4

LEMMA ComputedPath ==
  ASSUME NEW n, NEW op \in {"=", "<>", "<", "<=", ">", ">=", "in"}, NEW f, NEW g
  PROVE  LET h == CompareHolds(Comparison(op, f, <<>>, <<[axis |-> "self", field |-> g]>>), n)
             l == values_of(n, f)
             r == values_of(n, g)
         IN  /\ op = "=" \/ op = "in" => (h <=> values_equal(l, r))
             /\ op = "<>" => (h <=> ~values_equal(l, r))
             /\ op = "<" => (h <=> values_less(l, r))
             /\ op = "<=" => (h <=> at_most(l, r))
             /\ op = ">" => (h <=> values_less(r, l))
             /\ op = ">=" => (h <=> at_most(r, l))
<1> DEFINE o == [axis |-> "self", field |-> g]
           e == Comparison(op, f, <<>>, <<o>>)
           l == values_of(n, f)
           r == values_of(n, g)
<1>1. /\ e.op = op /\ e.axis = "self" /\ e.field = f /\ e.values = <<>> /\ e.operands = <<o>>
  BY DEF Comparison
<1>2. op # "is null" /\ op # "is not null" /\ ~(<<>> # <<>>)
  OBVIOUS
<1>3. DOMAIN <<o>> = {1} /\ <<o>>[1] = o
  OBVIOUS
<1>4. value_from_operand([axis |-> "self", field |-> f], n) = l /\ value_from_operand(o, n) = r
  BY OperandOfSelf
<1> HIDE DEF e, o, l, r
<1>5. CompareHolds(e, n) <=> CompareComputed(e, n)
  BY <1>1, <1>2, Zenon DEF CompareHolds
<1>8. CompareComputed(e, n) <=> values_compare(op, l, <<r>>)
  <2>1. [k \in DOMAIN e.operands |-> value_from_operand(e.operands[k], n)] = <<r>>
    BY <1>1, <1>3, <1>4
  <2> QED BY <1>1, <1>4, <2>1 DEF CompareComputed
<1>6. CASE op = "in"
  <2>1. CompareComputed(e, n) <=> \E k \in DOMAIN <<r>> : values_equal(l, <<r>>[k])
    BY <1>8, <1>6, Zenon DEF values_compare
  <2>2. DOMAIN <<r>> = {1} /\ <<r>>[1] = r
    OBVIOUS
  <2>3. CompareComputed(e, n) <=> values_equal(l, r)
    BY <2>1, <2>2
  <2> QED BY <1>5, <1>6, <2>3 DEF e, o, l, r
<1>7. /\ op = "=" => (CompareComputed(e, n) <=> values_equal(l, r))
      /\ op = "<>" => (CompareComputed(e, n) <=> ~values_equal(l, r))
      /\ op = "<" => (CompareComputed(e, n) <=> values_less(l, r))
      /\ op = "<=" => (CompareComputed(e, n) <=> at_most(l, r))
      /\ op = ">" => (CompareComputed(e, n) <=> values_less(r, l))
      /\ op = ">=" => (CompareComputed(e, n) <=> at_most(r, l))
  <2>1. <<r>>[1] = r
    OBVIOUS
  <2>2. CASE op = "="
    BY <1>8, <2>1, <2>2, Zenon DEF values_compare
  <2>3. CASE op = "<>"
    BY <1>8, <2>1, <2>3, Zenon DEF values_compare
  <2>4. CASE op = "<"
    BY <1>8, <2>1, <2>4, Zenon DEF values_compare
  <2>5. CASE op = "<="
    BY <1>8, <2>1, <2>5, Zenon DEF values_compare
  <2>6. CASE op = ">"
    BY <1>8, <2>1, <2>6, Zenon DEF values_compare
  <2>7. CASE op = ">="
    BY <1>8, <2>1, <2>7, Zenon DEF values_compare
  <2> QED BY <2>2, <2>3, <2>4, <2>5, <2>6, <2>7
<1> QED BY <1>5, <1>6, <1>7 DEF e, o, l, r

\* A field of a number holds one, or none.
LEMMA OneNumber ==
  ASSUME DocInv, MetadataInv, phase \notin {"parse", "order", "depth"}, NEW n \in Node, NEW f \in NumberFields
  PROVE  number_of(n, f) = {} \/ \E x \in Int : number_of(n, f) = {x}
<1>1. n \in Int /\ Len(nodes) \in Nat /\ Node = 1 .. Len(nodes)
  BY ParsedTable DEF Table, Node
<1>2. CASE f = "node_id"
  <2>1. number_of(n, f) = {n}
    BY <1>2, Zenon DEF number_of
  <2> QED BY <1>1, <2>1
<1>3. CASE f = "parent_id"
  <2>1. number_of(n, f) = {nodes[n].parent} \ {0}
    BY <1>3, Zenon DEF number_of
  <2>2. nodes[n].parent \in Nat
    BY ParsedTable DEF Table
  <2> QED BY <2>1, <2>2
<1>4. CASE f = "sibling_pos"
  <2>1. number_of(n, f) = {SiblingPos(n)}
    BY <1>4, Zenon DEF number_of
  <2>2. SiblingPos(n) \in Int
    <3> DEFINE S == {k \in Kids(nodes[n].parent) : k <= n}
    <3>1. S \subseteq 1 .. Len(nodes)
      BY <1>1 DEF Kids
    <3>2. IsFiniteSet(1 .. Len(nodes))
      BY <1>1, FS_Interval
    <3> HIDE DEF S
    <3>3. Cardinality(S) \in Nat
      BY <3>1, <3>2, FS_Subset, FS_CardinalityType
    <3> QED BY <3>3 DEF SiblingPos, S
  <2> QED BY <2>1, <2>2
<1>5. CASE f = "max_depth"
  <2>1. number_of(n, f) = {max_depth[n]}
    BY <1>5, Zenon DEF number_of
  <2>2. max_depth[n] = Height(n)
    BY DEF MetadataInv, MaxDepthIsHeight
  <2>3. max_depth[n] \in Int
    BY ParsedTable, <2>2, HeightIsMax
  <2> QED BY <2>1, <2>3
<1>6. CASE f = "doc_order"
  BY <1>1, <1>6, DocOrderOf
<1> QED BY <1>2, <1>3, <1>4, <1>5, <1>6 DEF NumberFields

\* Of one number each, the two paths make the same comparison.
LEMMA AlikeOnNumbers ==
  ASSUME NEW n, NEW f \in NumberFields, NEW g \in NumberFields,
         NEW y \in Int, NEW x \in Int, number_of(n, f) = {y}, number_of(n, g) = {x},
         NEW op \in {"=", "<>", "<", "<=", ">", ">=", "in"}
  PROVE  Alike(op, n, f, g)
<1> DEFINE v == Number(x)
           literal == Literal(v)
<1>1. values_of(n, f) = {Number(y)} /\ values_of(n, g) = {v}
  <2>1. ASSUME NEW h \in NumberFields PROVE values_of(n, h) = {Number(z) : z \in number_of(n, h)}
    <3>1. h # "tag"
      BY DEF NumberFields
    <3> QED BY <3>1, Zenon DEF values_of
  <2> QED BY <2>1
<1>2. literal.number = {x}
  BY DEF Literal, Number
<1>3. Number(y).number = {y} /\ v.number = {x} /\ Number(y).string = v.string
  BY DEF Number
<1> HIDE DEF literal, v
<1>4. match_field(n, f, op, <<literal>>) <=> match_number(f, y, op, <<literal>>)
  <2>1. f # "tag"
    BY DEF NumberFields
  <2>2. match_field(n, f, op, <<literal>>) <=> \E z \in number_of(n, f) : match_number(f, z, op, <<literal>>)
    BY <2>1, Zenon DEF match_field
  <2> QED BY <2>2
<1>5. match_number(f, y, op, <<literal>>) <=> IF op = "in" THEN y = x ELSE Ordered(y, op, x)
  <2>1. <<literal>>[1] = literal /\ ToSet(<<literal>>) = {literal}
    BY DEF ToSet
  <2> QED BY <1>2, <2>1 DEF match_number
<1>6. /\ values_equal({Number(y)}, {v}) <=> y = x
      /\ values_less({Number(y)}, {v}) <=> y < x
      /\ values_less({v}, {Number(y)}) <=> x < y
      /\ values_equal({v}, {Number(y)}) <=> y = x
  BY <1>3 DEF values_equal, values_less
<1>7. /\ at_most({Number(y)}, {v}) <=> y <= x
      /\ at_most({v}, {Number(y)}) <=> x <= y
  BY <1>6 DEF at_most
<1>8. /\ Ordered(y, "=", x) <=> y = x
      /\ Ordered(y, "<>", x) <=> y # x
      /\ Ordered(y, "<", x) <=> y < x
      /\ Ordered(y, "<=", x) <=> y <= x
      /\ Ordered(y, ">", x) <=> y > x
      /\ Ordered(y, ">=", x) <=> y >= x
  BY Zenon DEF Ordered
<1> DEFINE lit == CompareHolds(Comparison(op, f, <<literal>>, <<>>), n)
           com == CompareHolds(Comparison(op, f, <<>>, <<[axis |-> "self", field |-> g]>>), n)
<1>9. lit <=> IF op = "in" THEN y = x ELSE Ordered(y, op, x)
  BY <1>4, <1>5, LiteralPath
<1>10. /\ op = "=" \/ op = "in" => (com <=> y = x)
       /\ op = "<>" => (com <=> ~(y = x))
       /\ op = "<" => (com <=> y < x)
       /\ op = "<=" => (com <=> y <= x)
       /\ op = ">" => (com <=> x < y)
       /\ op = ">=" => (com <=> x <= y)
  <2> DEFINE l == values_of(n, f)
             r == values_of(n, g)
  <2>1. /\ op = "=" \/ op = "in" => (com <=> values_equal(l, r))
        /\ op = "<>" => (com <=> ~values_equal(l, r))
        /\ op = "<" => (com <=> values_less(l, r))
        /\ op = "<=" => (com <=> at_most(l, r))
        /\ op = ">" => (com <=> values_less(r, l))
        /\ op = ">=" => (com <=> at_most(r, l))
    BY ComputedPath
  <2>2. /\ values_equal(l, r) <=> y = x
        /\ values_less(l, r) <=> y < x
        /\ values_less(r, l) <=> x < y
        /\ at_most(l, r) <=> y <= x
        /\ at_most(r, l) <=> x <= y
    BY <1>1, <1>6, <1>7
  <2> HIDE DEF l, r, com
  <2> QED BY <2>1, <2>2
<1> HIDE DEF lit, com
<1>11. lit <=> com
  <2>1. /\ op = "=" \/ op = "in" => (lit <=> y = x)
        /\ op = "<>" => (lit <=> ~(y = x))
        /\ op = "<" => (lit <=> y < x)
        /\ op = "<=" => (lit <=> y <= x)
        /\ op = ">" => (lit <=> x < y)
        /\ op = ">=" => (lit <=> x <= y)
    BY <1>8, <1>9
  <2> QED BY <1>10, <2>1
<1>12. \A w \in values_of(n, g) : w = v
  BY <1>1
<1> QED BY <1>11, <1>12 DEF Alike, lit, com, literal

LEMMA AlikeOnTags ==
  ASSUME NEW n, NEW op \in {"=", "<>", "in"}
  PROVE  Alike(op, n, "tag", "tag")
<1> DEFINE tag == nodes[n].tag
           v == Word(tag)
           literal == Literal(v)
<1>1. "tag" \notin NumberFields
  BY DEF NumberFields
<1>2. values_of(n, "tag") = {v}
  BY <1>1, Zenon DEF values_of
<1>3. v.number = {} /\ v.string = <<tag>> /\ literal = v
  BY DEF Word, Literal
<1> HIDE DEF literal, v
<1>4. match_field(n, "tag", op, <<literal>>) <=> match_tag(tag, op, <<literal>>)
  BY <1>1, Zenon DEF match_field
<1>5. match_tag(tag, op, <<literal>>) <=> op # "<>"
  <2>1. <<literal>>[1].string[1] = tag /\ Strings(<<literal>>) = {<<tag>>}
    <3>1. ToSet(<<literal>>) = {v}
      BY <1>3 DEF ToSet
    <3> QED BY <1>3, <3>1 DEF Strings
  <2>2. CASE op = "in"
    <3>1. match_tag(tag, op, <<literal>>) <=> <<tag>> \in Strings(<<literal>>)
      BY <2>2, Zenon DEF match_tag
    <3> QED BY <2>1, <2>2, <3>1
  <2>3. CASE op # "in"
    <3>1. match_tag(tag, op, <<literal>>) <=> Ordered(Rank[tag], op, Rank[tag])
      BY <2>1, <2>3, Zenon DEF match_tag
    <3>2. op = "=" => Ordered(Rank[tag], op, Rank[tag])
      BY Zenon DEF Ordered
    <3>3. op = "<>" => ~Ordered(Rank[tag], op, Rank[tag])
      BY Zenon DEF Ordered
    <3> QED BY <2>3, <3>1, <3>2, <3>3
  <2> QED BY <2>2, <2>3
<1>6. values_equal({v}, {v})
  BY <1>3 DEF values_equal
<1> DEFINE lit == CompareHolds(Comparison(op, "tag", <<literal>>, <<>>), n)
           com == CompareHolds(Comparison(op, "tag", <<>>, <<[axis |-> "self", field |-> "tag"]>>), n)
<1>7. lit <=> op # "<>"
  BY <1>4, <1>5, LiteralPath
<1>8. com <=> op # "<>"
  <2> DEFINE l == values_of(n, "tag")
  <2>1. /\ op = "=" \/ op = "in" => (com <=> values_equal(l, l))
        /\ op = "<>" => (com <=> ~values_equal(l, l))
    BY ComputedPath
  <2>2. values_equal(l, l)
    BY <1>2, <1>6
  <2> HIDE DEF l, com
  <2> QED BY <2>1, <2>2
<1>9. \A w \in values_of(n, "tag") : w = v
  BY <1>2
<1> HIDE DEF lit, com
<1> QED BY <1>7, <1>8, <1>9 DEF Alike, lit, com, literal

\* A literal and a field of the same value on the right of a comparison decide alike, for
\* every node of every document, although eval_expr_with_context evaluates them apart.
THEOREM ComparisonsAgree == Spec => []PathsAgree
<1>1. DocInv /\ MetadataInv => PathsAgree
  <2> SUFFICES ASSUME DocInv, MetadataInv, phase \notin {"parse", "order", "depth"}, NEW n \in Node
               PROVE  /\ \A op \in {"=", "<>", "<", "<=", ">", ">=", "in"}, f, g \in NumberFields : Alike(op, n, f, g)
                      /\ \A op \in {"=", "<>", "in"} : Alike(op, n, "tag", "tag")
    BY DEF PathsAgree
  <2>1. ASSUME NEW op \in {"=", "<>", "<", "<=", ">", ">=", "in"},
               NEW f \in NumberFields, NEW g \in NumberFields
        PROVE  Alike(op, n, f, g)
    <3>1. CASE number_of(n, f) = {} \/ number_of(n, g) = {}
      <4>1. ASSUME NEW h \in NumberFields PROVE values_of(n, h) = {Number(z) : z \in number_of(n, h)}
        <5>1. h # "tag"
          BY DEF NumberFields
        <5> QED BY <5>1, Zenon DEF values_of
      <4>2. values_of(n, f) = {} \/ values_of(n, g) = {}
        BY <3>1, <4>1
      <4> QED BY <4>2 DEF Alike
    <3>2. CASE number_of(n, f) # {} /\ number_of(n, g) # {}
      <4>1. PICK y \in Int : number_of(n, f) = {y}
        BY <3>2, OneNumber
      <4>2. PICK x \in Int : number_of(n, g) = {x}
        BY <3>2, OneNumber
      <4> QED BY <4>1, <4>2, AlikeOnNumbers
    <3> QED BY <3>1, <3>2
  <2> QED BY <2>1, AlikeOnTags
<1> QED BY <1>1, EngineInvariance, MetadataInvariance, PTL
=============================================================================
