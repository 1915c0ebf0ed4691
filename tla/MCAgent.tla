------------------------------ MODULE MCAgent -------------------------------
(* Instances of the agent for TLC.                                          *)
EXTENDS AgentProperties, TLC

CONSTANTS r1, r2, r3, r4, d1, d2, d3, q1, q2, good, bad

MCDigest == d1 :> "s1" @@ d2 :> "s2" @@ d3 :> "s3"

Ask(d, q) == [primary |-> good, legacy |-> Empty, html |-> d, query |-> q]

NoFailing == {}

(* Three snapshots, for a cache of two: only well-formed requests. *)
LRUMessages == {Ask(d, q1) : d \in {d1, d2, d3}}

(* Every kind of answer: two snapshots that can be queried, the query fails *)
(* over one of them, one that cannot be parsed, and two rejections.         *)
LiveMessages ==
  {Ask(d1, q1), [Ask(d2, q2) EXCEPT !.primary = Empty, !.legacy = good], Ask(d3, q1),
   [Ask(d1, q1) EXCEPT !.primary = bad, !.legacy = good], Ask(d1, Empty)}

LiveFailing == {<<d2, q2>>}

(* Requests and snapshots, where every snapshot is treated alike and its    *)
(* digest bears its name.                                                   *)
NamedDigest == [d \in Docs |-> d]
CacheSymmetry == Permutations(Requests) \cup Permutations(Docs)
=============================================================================
