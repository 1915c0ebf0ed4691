----------------------------- MODULE RelationProofs ----------------------------
(***************************************************************************)
(* For every statement over every document: the indexes that joins keep     *)
(* stay those of their CTEs, schemas cover the rows they are of, a LEFT     *)
(* JOIN keeps its rows, fields hold one known value at most, a hash join    *)
(* and a lookup make the rows of the nested loop, and the rows that the     *)
(* first source leaves out early are none that WHERE would have let by.     *)
(***************************************************************************)
EXTENDS RelationProperties, EngineProofs

FrameFields == {"query", "ctes", "outer", "step", "k", "current", "left", "next", "result"}

LEMMA NewFrameParts ==
  ASSUME NEW q, NEW ctes, NEW outer
  PROVE  DOMAIN NewFrame(q, ctes, outer) = FrameFields /\ NewFrame(q, ctes, outer).ctes = ctes
BY DEF NewFrame, FrameFields
----------------------------------------------------------------------------
(* Indexes of a relation under another alias. *)

LEMMA SingleValue ==
  ASSUME NEW row, NEW a, NEW c, DOMAIN row = {a}
  PROVE  single_alias_relation_row_value(row, c) = IF c \in DOMAIN row[a].values THEN row[a].values[c] ELSE Null
<1>1. Cardinality(DOMAIN row) = 1
  BY FS_Singleton
<1>2. single_alias_relation_row_value(row, c)
        = UNION {relation_row_key_value(row, [alias |-> b, column |-> c]) : b \in {a}}
  BY <1>1 DEF single_alias_relation_row_value
<1>3. {relation_row_key_value(row, [alias |-> b, column |-> c]) : b \in {a}}
        = {relation_row_key_value(row, [alias |-> a, column |-> c])}
  OBVIOUS
<1>4. relation_row_key_value(row, [alias |-> a, column |-> c])
        = IF c \in DOMAIN row[a].values THEN row[a].values[c] ELSE Null
  BY DEF relation_row_key_value
<1> QED BY <1>2, <1>3, <1>4

LEMMA RenamedIndex ==
  ASSUME NEW rel, NEW name, NEW alias, NEW columns,
         \A k \in DOMAIN rel.rows : DOMAIN rel.rows[k] = {name}
  PROVE  /\ CteRelation(rel, name, alias).cache_key = rel.cache_key
         /\ BuildIndex(CteRelation(rel, name, alias), columns) = BuildIndex(rel, columns)
<1> DEFINE renamed == CteRelation(rel, name, alias)
           key(r, k) == [c \in columns |-> normalize_join_key(single_alias_relation_row_value(r.rows[k], c))]
<1>1. /\ renamed.cache_key = rel.cache_key
      /\ DOMAIN renamed.rows = DOMAIN rel.rows
      /\ \A k \in DOMAIN rel.rows : renamed.rows[k] = [a \in {alias} |-> rel.rows[k][name]]
  BY DEF CteRelation, Relation
<1>2. ASSUME NEW k \in DOMAIN rel.rows
      PROVE  key(renamed, k) = key(rel, k)
  <2>1. DOMAIN renamed.rows[k] = {alias} /\ renamed.rows[k][alias] = rel.rows[k][name]
    BY <1>1
  <2>2. \A c \in columns : single_alias_relation_row_value(renamed.rows[k], c)
                             = single_alias_relation_row_value(rel.rows[k], c)
    <3> TAKE c \in columns
    <3> HIDE DEF renamed
    <3>1. single_alias_relation_row_value(renamed.rows[k], c)
            = IF c \in DOMAIN renamed.rows[k][alias].values THEN renamed.rows[k][alias].values[c] ELSE Null
      BY <2>1, SingleValue
    <3>2. DOMAIN rel.rows[k] = {name}
      OBVIOUS
    <3>3. single_alias_relation_row_value(rel.rows[k], c)
            = IF c \in DOMAIN rel.rows[k][name].values THEN rel.rows[k][name].values[c] ELSE Null
      BY <3>2, SingleValue
    <3> QED BY <2>1, <3>1, <3>3
  <2> QED BY <2>2
<1>3. BuildIndex(renamed, columns) = [k \in DOMAIN rel.rows |-> Composite(key(renamed, k))]
  BY <1>1 DEF BuildIndex
<1>4. BuildIndex(rel, columns) = [k \in DOMAIN rel.rows |-> Composite(key(rel, k))]
  BY DEF BuildIndex
<1> HIDE DEF key, renamed
<1>5. BuildIndex(renamed, columns) = BuildIndex(rel, columns)
  BY <1>2, <1>3, <1>4
<1> QED BY <1>1, <1>5 DEF renamed
----------------------------------------------------------------------------
\* Two CTEs of one key have one name and one number; no CTE has the key of a result.
LEMMA KeysDiffer ==
  ASSUME NEW a, NEW b, NEW m, NEW n
  PROVE  /\ cte_key(a, m) = cte_key(b, n) => a = b /\ m = n
         /\ cte_key(a, m) # result_key
<1>1. <<"cte", a, m>> = <<"cte", b, n>> => a = b /\ m = n
  OBVIOUS
<1>2. <<"cte", a, m>> # <<"relation_result">>
  OBVIOUS
<1> QED BY <1>1, <1>2 DEF cte_key, result_key

----------------------------------------------------------------------------
(* Frames that come from those there were. *)

LEMMA FramesFollow ==
  ASSUME IndexInv, NEW S, frames' \in Seq(S), frames' # <<>> \/ ~Running',
         \A k \in 1 .. Len(frames') :
            DOMAIN frames'[k] = FrameFields /\ \E f \in ToSet(frames) : frames'[k].ctes = f.ctes
  PROVE  FramesHaveFields' /\ CtesInScope' \subseteq CtesInScope
<1>1. frames' \in Seq(ToSet(frames')) /\ ToSet(frames') = {frames'[k] : k \in 1 .. Len(frames')}
  BY SeqOfItsOwn
<1>2. \A f \in ToSet(frames') : DOMAIN f = DOMAIN NewFrame(query', <<>>, {})
  BY <1>1, NewFrameParts
<1>3. FramesHaveFields'
  BY <1>1, <1>2 DEF FramesHaveFields
<1>4. \A f \in ToSet(frames') : \E g \in ToSet(frames) : f.ctes = g.ctes
  BY <1>1
<1>5. CtesInScope' \subseteq CtesInScope
  BY <1>4 DEF CtesInScope
<1> QED BY <1>3, <1>5

LEMMA FewerCtesKeep ==
  ASSUME IndexInv, FramesHaveFields', CtesInScope' \subseteq CtesInScope,
         UNCHANGED <<indexes, next_relation_cache_id>>
  PROVE  IndexInv'
<1>1. KeysAreNumbered' /\ KeysTellApart'
  BY DEF IndexInv, KeysAreNumbered, KeysTellApart
<1>2. IndexesAreOld' /\ IndexesAreCurrent'
  BY DEF IndexInv, IndexesAreOld, IndexesAreCurrent
<1> QED BY <1>1, <1>2 DEF IndexInv

\* The frame that is being evaluated.
LEMMA TopIs ==
  ASSUME IndexInv, Running
  PROVE  /\ frames \in Seq(ToSet(frames)) /\ frames # <<>>
         /\ Top \in ToSet(frames) /\ DOMAIN Top = FrameFields
         /\ \A f \in ToSet(frames) : DOMAIN f = FrameFields
<1>1. frames \in Seq(ToSet(frames)) /\ frames # <<>>
  BY DEF IndexInv, FramesHaveFields
<1>2. \A f \in ToSet(frames) : DOMAIN f = FrameFields
  BY NewFrameParts DEF IndexInv, FramesHaveFields
<1>3. Top = frames[Len(frames)] /\ Len(frames) \in 1 .. Len(frames)
  BY <1>1, FrontOf DEF Top
<1>4. Top \in ToSet(frames)
  BY <1>1, <1>3
<1> QED BY <1>1, <1>2, <1>4

\* Another frame in the place of the innermost.
LEMMA ReplacedFrames ==
  ASSUME IndexInv, Running, NEW f, Replace(f)
  PROVE  /\ frames' \in Seq(ToSet(frames) \cup {f}) /\ frames' # <<>>
         /\ \A k \in 1 .. Len(frames') : frames'[k] \in ToSet(frames) \cup {f}
         /\ ToSet(frames') \subseteq ToSet(frames) \cup {f}
         /\ DOMAIN f = FrameFields => FramesHaveFields'
<1>1. frames \in Seq(ToSet(frames)) /\ frames # <<>>
  BY TopIs
<1>2. Front(frames) \in Seq(ToSet(frames) \cup {f})
  BY <1>1, FrontOf
<1>3. frames' \in Seq(ToSet(frames) \cup {f}) /\ frames' # <<>>
  BY <1>2 DEF Replace
<1>4. \A k \in 1 .. Len(frames') : frames'[k] \in ToSet(frames) \cup {f}
  BY <1>3
<1>5. frames' \in Seq(ToSet(frames')) /\ ToSet(frames') = {frames'[k] : k \in 1 .. Len(frames')}
  BY <1>3, SeqOfItsOwn
<1>6. ToSet(frames') \subseteq ToSet(frames) \cup {f}
  BY <1>4, <1>5
<1>7. ASSUME DOMAIN f = FrameFields
      PROVE  \A g \in ToSet(frames') : DOMAIN g = DOMAIN NewFrame(query', <<>>, {})
  BY <1>6, <1>7, TopIs, NewFrameParts
<1> QED BY <1>3, <1>4, <1>5, <1>6, <1>7 DEF FramesHaveFields

LEMMA ReplacedKeeps ==
  ASSUME IndexInv, Running, NEW f, Replace(f), DOMAIN f = FrameFields, f.ctes = Top.ctes,
         UNCHANGED <<indexes, next_relation_cache_id>>
  PROVE  IndexInv'
<1>1. \A k \in 1 .. Len(frames') :
        DOMAIN frames'[k] = FrameFields /\ \E g \in ToSet(frames) : frames'[k].ctes = g.ctes
  BY ReplacedFrames, TopIs
<1> QED BY <1>1, ReplacedFrames, FramesFollow, FewerCtesKeep
----------------------------------------------------------------------------
(* Every step keeps the invariant. *)

\* What fails keeps its frames, but nothing goes on with them.
LEMMA FailKeeps ==
  ASSUME IndexInv, NEW what, Fail(what)
  PROVE  IndexInv'
<1>1. phase' # "running" /\ UNCHANGED <<frames, indexes, next_relation_cache_id>>
  BY DEF Fail
<1>2. FramesHaveFields'
  BY <1>1, NewFrameParts DEF IndexInv, FramesHaveFields, Running
<1>3. CtesInScope' = CtesInScope
  BY <1>1 DEF CtesInScope
<1> QED BY <1>1, <1>2, <1>3, FewerCtesKeep

LEMMA CallKeeps ==
  ASSUME IndexInv, Running, NEW q, NEW outer, Call(q, outer)
  PROVE  IndexInv'
<1>1. UNCHANGED <<indexes, next_relation_cache_id>>
  BY DEF Call
<1>2. CASE frames' = Append(frames, NewFrame(q, Top.ctes, outer))
  <2> DEFINE f == NewFrame(q, Top.ctes, outer)
  <2>1. frames \in Seq(ToSet(frames)) /\ f \in ToSet(frames) \cup {f}
    BY TopIs
  <2>2. frames \in Seq(ToSet(frames) \cup {f})
    BY <2>1
  <2>3. frames' \in Seq(ToSet(frames) \cup {f}) /\ frames' # <<>>
    BY <1>2, <2>1, <2>2
  <2>4. \A k \in 1 .. Len(frames') : frames'[k] \in ToSet(frames) \cup {f}
    BY <2>3
  <2>5. DOMAIN f = FrameFields /\ f.ctes = Top.ctes
    BY NewFrameParts
  <2>6. \A k \in 1 .. Len(frames') :
          DOMAIN frames'[k] = FrameFields /\ \E g \in ToSet(frames) : frames'[k].ctes = g.ctes
    BY <2>4, <2>5, TopIs
  <2> QED BY <1>1, <2>3, <2>6, FramesFollow, FewerCtesKeep
<1>3. CASE Replace([Top EXCEPT !.result = {LegacyResult(q)}])
  <2>1. DOMAIN Top = FrameFields
    BY TopIs
  <2>2. /\ DOMAIN [Top EXCEPT !.result = {LegacyResult(q)}] = FrameFields
        /\ [Top EXCEPT !.result = {LegacyResult(q)}].ctes = Top.ctes
    BY <2>1 DEF FrameFields
  <2> QED BY <1>1, <1>3, <2>2, ReplacedKeeps
<1> QED BY <1>2, <1>3 DEF Call

LEMMA OpenSourceKeeps == ASSUME IndexInv, Running, OpenSource PROVE IndexInv'
<1>1. CASE \E what : Fail(what)
  BY <1>1, FailKeeps
<1>2. ASSUME NEW rel, Opened(rel), ~ \E what : Fail(what) PROVE IndexInv'
  <2> DEFINE f == EntersJoin(Top, UnderOuter(rel, Top.outer))
  <2>1. Replace(f) /\ UNCHANGED <<indexes, next_relation_cache_id>>
    BY <1>2 DEF Opened, Progress
  <2>2. DOMAIN f = FrameFields /\ f.ctes = Top.ctes
    BY TopIs DEF EntersJoin, FrameFields
  <2> QED BY <2>1, <2>2, ReplacedKeeps
<1> QED BY <1>1, <1>2 DEF OpenSource

LEMMA LateralRowKeeps == ASSUME IndexInv, Running, LateralRow PROVE IndexInv'
<1>1. CASE \E what : Fail(what)
  BY <1>1, FailKeeps
<1>2. ASSUME NEW l, NEW right_rel, LateralWith(l, right_rel), ~ \E what : Fail(what) PROVE IndexInv'
  <2>1. PICK next : /\ Replace([Top EXCEPT !.left = @ + 1, !.result = {}, !.next = next])
                    /\ UNCHANGED <<indexes, next_relation_cache_id>>
    BY <1>2 DEF LateralWith, Progress
  <2> DEFINE f == [Top EXCEPT !.left = @ + 1, !.result = {}, !.next = next]
  <2>2. DOMAIN f = FrameFields /\ f.ctes = Top.ctes
    BY TopIs DEF FrameFields
  <2> QED BY <2>1, <2>2, ReplacedKeeps
<1> QED BY <1>1, <1>2 DEF LateralRow

LEMMA LateralEndsKeeps == ASSUME IndexInv, Running, LateralEnds PROVE IndexInv'
<1>1. DOMAIN EntersJoin(Top, Top.next) = FrameFields /\ EntersJoin(Top, Top.next).ctes = Top.ctes
  BY TopIs DEF EntersJoin, FrameFields
<1> QED BY <1>1, ReplacedKeeps DEF LateralEnds, Progress

LEMMA WhereKeeps == ASSUME IndexInv, Running, Where PROVE IndexInv'
<1>1. CASE \E what : Fail(what)
  BY <1>1, FailKeeps
<1>2. CASE ~ \E what : Fail(what)
  <2> DEFINE f == [Top EXCEPT !.step = "order",
                     !.current.rows = Those(@, {k \in DOMAIN @ : Holds(Top.query, @[k]) \subseteq {"true"}})]
  <2>1. Replace(f) /\ UNCHANGED <<indexes, next_relation_cache_id>>
    BY <1>2 DEF Where, Progress
  <2>2. DOMAIN f = FrameFields /\ f.ctes = Top.ctes
    BY TopIs DEF FrameFields
  <2> QED BY <2>1, <2>2, ReplacedKeeps
<1> QED BY <1>1, <1>2

\* The frame below has the result.
LEMMA AnsweredFrames ==
  ASSUME IndexInv, Running, NEW result, Answers(result), Len(frames) # 1
  PROVE  /\ frames' \in Seq(ToSet(frames) \cup {[f EXCEPT !.result = {result}] : f \in ToSet(frames)})
         /\ frames' # <<>>
<1> DEFINE S == ToSet(frames)
           below == Front(frames)
           T == S \cup {[f EXCEPT !.result = {result}] : f \in S}
<1>1. frames' = [below EXCEPT ![Len(frames) - 1].result = {result}]
  BY DEF Answers
<1>2. frames \in Seq(S) /\ frames # <<>>
  BY TopIs
<1>3. below \in Seq(S) /\ Len(below) = Len(frames) - 1
  BY <1>2, FrontOf
<1>4. Len(frames) \in Nat /\ Len(frames) # 0
  BY <1>2
<1>5. below \in Seq(S) /\ Len(below) = Len(frames) - 1 /\ Len(frames) \in Nat /\ Len(frames) >= 2
  BY <1>3, <1>4
<1>6. \A k \in 1 .. Len(below) : below[k] \in S
  BY <1>5
<1>7. DOMAIN frames' = 1 .. Len(below) /\ below = [k \in 1 .. Len(below) |-> below[k]]
  BY <1>1, <1>5
<1>8. \A k \in 1 .. Len(below) : frames'[k] = below[k] \/ frames'[k] = [below[k] EXCEPT !.result = {result}]
  <2> TAKE k \in 1 .. Len(below)
  <2>1. k \in DOMAIN below
    BY <1>5
  <2>2. CASE k = Len(frames) - 1
    BY <1>1, <2>1, <2>2
  <2>3. CASE k # Len(frames) - 1
    BY <1>1, <2>1, <2>3
  <2> QED BY <2>2, <2>3
<1>9. \A k \in 1 .. Len(below) : frames'[k] \in T
  BY <1>6, <1>8
<1>10. frames' = [k \in 1 .. Len(below) |-> frames'[k]]
  BY <1>1, <1>7
<1> QED BY <1>5, <1>9, <1>10

\* Its CTEs stay; those of the frame that ends are out of scope.
LEMMA AnswersKeep == ASSUME IndexInv, Running, NEW result, Answers(result) PROVE IndexInv'
<1>1. UNCHANGED <<indexes, next_relation_cache_id>>
  BY DEF Answers
<1>2. CASE Len(frames) = 1
  <2>1. frames' = <<>> /\ ~Running'
    BY <1>2 DEF Answers, Running
  <2>2. frames' \in Seq({}) /\ Len(frames') = 0
    BY <2>1
  <2>3. FramesHaveFields' /\ CtesInScope' \subseteq CtesInScope
    BY <2>1, <2>2, FramesFollow
  <2> QED BY <1>1, <2>3, FewerCtesKeep
<1>3. CASE Len(frames) # 1
  <2> DEFINE S == ToSet(frames)
             T == S \cup {[f EXCEPT !.result = {result}] : f \in S}
  <2>1. frames' \in Seq(T) /\ frames' # <<>>
    BY <1>3, AnsweredFrames
  <2>2. \A f \in S : DOMAIN f = FrameFields
    BY TopIs
  <2>3. \A f \in T : DOMAIN f = FrameFields /\ \E g \in S : f.ctes = g.ctes
    BY <2>2 DEF FrameFields
  <2> HIDE DEF T
  <2>4. \A k \in 1 .. Len(frames') : frames'[k] \in T
    BY <2>1
  <2> QED BY <1>1, <2>1, <2>3, <2>4, FramesFollow, FewerCtesKeep
<1> QED BY <1>2, <1>3

LEMMA FinishKeeps == ASSUME IndexInv, Running, Finish PROVE IndexInv'
BY FailKeeps, AnswersKeep DEF Finish

\* A CTE is made under a number that no CTE and no index has.
LEMMA DefineCteKeeps == ASSUME IndexInv, Running, DefineCte PROVE IndexInv'
<1> DEFINE n == next_relation_cache_id
           name == Top.query.with[Top.k].name
           rel == relation_from_query_result(CHOOSE r \in Top.result : TRUE, name, cte_key(name, n))
           f == [Top EXCEPT !.ctes = [a \in DOMAIN @ \cup {name} |-> IF a = name THEN rel ELSE @[a]],
                            !.k = @ + 1, !.result = {}]
<1>1. Replace(f) /\ n' = n + 1 /\ UNCHANGED indexes /\ n \in Nat \ {0}
  BY DEF DefineCte, Progress, IndexInv, KeysAreNumbered
<1>2. rel.cache_key = cte_key(name, n) /\ \A k \in DOMAIN rel.rows : DOMAIN rel.rows[k] = {name}
  BY DEF relation_from_query_result, Relation
<1> HIDE DEF rel, name
<1>3. /\ DOMAIN f = FrameFields
      /\ f.ctes = [a \in DOMAIN Top.ctes \cup {name} |-> IF a = name THEN rel ELSE Top.ctes[a]]
  BY TopIs DEF FrameFields
<1> HIDE DEF f
<1>4. FramesHaveFields' /\ ToSet(frames') \subseteq ToSet(frames) \cup {f}
  BY <1>1, <1>3, ReplacedFrames
<1>5. CtesInScope' \subseteq CtesInScope \cup {<<name, rel>>}
  <2>1. \A g \in ToSet(frames) : \A a \in DOMAIN g.ctes : <<a, g.ctes[a]>> \in CtesInScope
    BY DEF CtesInScope
  <2>2. \A a \in DOMAIN f.ctes : <<a, f.ctes[a]>> \in CtesInScope \cup {<<name, rel>>}
    BY <1>3, <2>1, TopIs
  <2> QED BY <1>4, <2>1, <2>2 DEF CtesInScope
<1>6. \A c \in CtesInScope : c[2].cache_key # cte_key(name, n)
  <2>1. ASSUME NEW c \in CtesInScope PROVE NumberedBelow(c, n)
    BY DEF IndexInv, KeysAreNumbered
  <2>2. n \notin 1 .. n - 1
    BY <1>1
  <2> HIDE DEF n
  <2> QED BY <2>1, <2>2, KeysDiffer DEF NumberedBelow
<1>7. KeysAreNumbered'
  <2>1. n' \in Nat \ {0} /\ n \in 1 .. n' - 1 /\ \A id \in 1 .. n - 1 : id \in 1 .. n' - 1
    BY <1>1
  <2>2. \A c \in CtesInScope : NumberedBelow(c, n)
    BY DEF IndexInv, KeysAreNumbered
  <2>3. \A c \in CtesInScope' : NumberedBelow(c, n) \/ c = <<name, rel>>
    BY <1>5, <2>2
  <2> HIDE DEF n
  <2>4. ASSUME NEW c, NumberedBelow(c, n) PROVE NumberedBelow(c, n')
    BY <2>1, <2>4 DEF NumberedBelow
  <2>5. NumberedBelow(<<name, rel>>, n')
    BY <1>2, <2>1 DEF NumberedBelow
  <2>6. \A c \in CtesInScope' : NumberedBelow(c, n')
    BY <2>3, <2>4, <2>5
  <2> QED BY <2>1, <2>6 DEF n, KeysAreNumbered
<1>8. KeysTellApart'
  BY <1>2, <1>5, <1>6 DEF IndexInv, KeysTellApart
<1>9. IndexesAreOld'
  BY <1>1 DEF IndexInv, IndexesAreOld
<1>10. \A s \in DOMAIN indexes : {s[1]} # cte_key(name, n)
  <2>1. n \notin 1 .. n - 1
    BY <1>1
  <2>2. SUFFICES ASSUME NEW s \in DOMAIN indexes, {s[1]} = cte_key(name, n) PROVE FALSE
    OBVIOUS
  <2>3. {s[1]} = result_key \/ \E id \in 1 .. n - 1 : {s[1]} = cte_key(s[1][2], id)
    BY DEF IndexInv, IndexesAreOld
  <2> HIDE DEF n
  <2>4. cte_key(name, n) # result_key
    BY KeysDiffer
  <2>5. PICK id \in 1 .. n - 1 : cte_key(name, n) = cte_key(s[1][2], id)
    BY <2>2, <2>3, <2>4
  <2>6. n = id
    BY <2>5, KeysDiffer
  <2> QED BY <2>1, <2>6
<1>11. IndexesAreCurrent'
  BY <1>1, <1>2, <1>5, <1>10 DEF IndexInv, IndexesAreCurrent
<1> QED BY <1>4, <1>7, <1>8, <1>9, <1>11 DEF IndexInv

\* A strategy is one of three; only a lookup has an index.
LEMMA StrategyIs ==
  ASSUME NEW join, NEW left_rel, NEW right_rel, NEW kept
  PROVE  LET s == StrategyOf(join, left_rel, right_rel, kept)
         IN  \/ s.strategy \in {"hash_equi", "nested_loop"} /\ s.signature = {}
             \/ /\ s.strategy = "indexed_lookup_nested"
                /\ \E p \in plan_index_lookup_join(join, left_rel, right_rel) :
                      s = LookupWith(p, relation_index_signature(right_rel, p), right_rel, kept)
<1> DEFINE hash == {[strategy |-> "hash_equi", plan |-> p, signature |-> {}] :
                      p \in plan_simple_hash_join(join, left_rel, right_rel)}
           lookup == {LookupWith(p, relation_index_signature(right_rel, p), right_rel, kept) :
                        p \in plan_index_lookup_join(join, left_rel, right_rel)}
           loop == {[strategy |-> "nested_loop", signature |-> {}]}
           chosen == StrategyOf(join, left_rel, right_rel, kept)
<1>1. chosen = CHOOSE t \in IF hash # {} THEN hash ELSE IF lookup # {} THEN lookup ELSE loop : TRUE
  BY DEF StrategyOf
<1>2. chosen \in hash \cup lookup \cup loop
  <2> HIDE DEF hash, lookup, chosen
  <2>1. \A S : S # {} => (CHOOSE t \in S : TRUE) \in S
    OBVIOUS
  <2>2. (IF hash # {} THEN hash ELSE IF lookup # {} THEN lookup ELSE loop) # {}
    OBVIOUS
  <2>3. chosen \in IF hash # {} THEN hash ELSE IF lookup # {} THEN lookup ELSE loop
    BY <1>1, <2>1, <2>2
  <2> QED BY <2>3
<1>3. \A t \in hash \cup loop : t.strategy \in {"hash_equi", "nested_loop"} /\ t.signature = {}
  OBVIOUS
<1>4. CASE chosen \in lookup
  <2>1. PICK p \in plan_index_lookup_join(join, left_rel, right_rel) :
          chosen = LookupWith(p, relation_index_signature(right_rel, p), right_rel, kept)
    BY <1>4
  <2>2. chosen.strategy = "indexed_lookup_nested"
    BY <2>1 DEF LookupWith
  <2> HIDE DEF chosen
  <2>3. /\ chosen.strategy = "indexed_lookup_nested"
        /\ \E q \in plan_index_lookup_join(join, left_rel, right_rel) :
              chosen = LookupWith(q, relation_index_signature(right_rel, q), right_rel, kept)
    BY <2>1, <2>2
  <2> QED BY <2>3 DEF chosen
<1> HIDE DEF hash, lookup, loop
<1> QED BY <1>2, <1>3, <1>4

\* What the strategy of a join keeps, if it keeps anything: an index of the right
\* relation under its key.
LEMMA WhatIsKept ==
  ASSUME NEW join, NEW left_rel, NEW right_rel, NEW kept,
         \A j, k \in right_rel.cache_key : j = k,
         NEW s \in StrategyOf(join, left_rel, right_rel, kept).signature, s \notin DOMAIN kept
  PROVE  /\ right_rel.cache_key = {s[1]}
         /\ StrategyOf(join, left_rel, right_rel, kept).index = BuildIndex(right_rel, s[2])
<1> DEFINE chosen == StrategyOf(join, left_rel, right_rel, kept)
<1>1. PICK p \in plan_index_lookup_join(join, left_rel, right_rel) :
        chosen = LookupWith(p, relation_index_signature(right_rel, p), right_rel, kept)
  BY StrategyIs
<1> DEFINE columns == {t.right_column : t \in p.terms}
           signature == relation_index_signature(right_rel, p)
<1>2. signature = {<<k, columns>> : k \in right_rel.cache_key}
  BY DEF relation_index_signature
<1>3. chosen.signature = signature
  BY <1>1 DEF LookupWith
<1>4. PICK key \in right_rel.cache_key : s = <<key, columns>>
  BY <1>2, <1>3
<1>5. right_rel.cache_key = {key} /\ signature = {s}
  BY <1>2, <1>4
<1>6. signature \cap DOMAIN kept = {}
  BY <1>5
<1>7. chosen.index = BuildIndex(right_rel, columns)
  BY <1>1, <1>6 DEF LookupWith
<1> QED BY <1>4, <1>5, <1>7

\* The relation that a join finds on its right, if it has a key: a CTE in scope
\* under another alias, or the result of a derived table.
LEMMA RightKey ==
  ASSUME IndexInv, Running, ~UnknownCte, InJoin, ~TheJoin.lateral
  PROVE  \/ RightRelation.cache_key = {}
         \/ TheJoin.source.kind = "derived" /\ RightRelation.cache_key = result_key
         \/ \E cte \in CtesInScope :
              /\ RightRelation.cache_key = cte[2].cache_key
              /\ \A columns : BuildIndex(RightRelation, columns) = BuildIndex(cte[2], columns)
<1> DEFINE source == TheJoin.source
<1>1. CASE source.kind = "cte"
  <2>1. RightRelation = CteRelation(Top.ctes[source.name], source.name, AliasOf(source))
    BY <1>1 DEF RightRelation, SourceRelation
  <2>2. Pending.source = source
    BY DEF Pending, AfterWith, InJoin
  <2>3. source.name \in DOMAIN Top.ctes
    BY <1>1, <2>2 DEF UnknownCte
  <2>4. <<source.name, Top.ctes[source.name]>> \in CtesInScope
    BY <2>3, TopIs DEF CtesInScope
  <2>5. NumberedBelow(<<source.name, Top.ctes[source.name]>>, next_relation_cache_id)
    BY <2>4 DEF IndexInv, KeysAreNumbered
  <2>6. \A k \in DOMAIN Top.ctes[source.name].rows : DOMAIN Top.ctes[source.name].rows[k] = {source.name}
    BY <2>5 DEF NumberedBelow
  <2>7. /\ RightRelation.cache_key = Top.ctes[source.name].cache_key
        /\ \A columns : BuildIndex(RightRelation, columns) = BuildIndex(Top.ctes[source.name], columns)
    BY <2>1, <2>6, RenamedIndex
  <2> QED BY <2>4, <2>7
<1>2. CASE source.kind = "derived"
  BY <1>2 DEF RightRelation, SourceRelation, relation_from_query_result, Relation
<1>3. CASE source.kind \notin {"cte", "derived"}
  BY <1>3 DEF RightRelation, SourceRelation, relation_from_document, Relation
<1> QED BY <1>1, <1>2, <1>3

\* What a join that does not fail does to the indexes.
LEMMA JoinMakes ==
  ASSUME IndexInv, Running, Join, ~ \E what : Fail(what)
  PROVE  /\ ~UnknownCte /\ InJoin /\ ~TheJoin.lateral /\ Ready
         /\ JoinWith(StrategyOf(TheJoin, Top.current, RightRelation, indexes), RightRelation)
         /\ \A s \in DOMAIN indexes' :
               \/ s \in DOMAIN indexes /\ indexes'[s] = indexes[s]
               \/ /\ RightRelation.cache_key = {s[1]}
                  /\ indexes'[s] = BuildIndex(RightRelation, s[2])
<1> DEFINE strategy == StrategyOf(TheJoin, Top.current, RightRelation, indexes)
<1>1. ~UnknownCte /\ InJoin /\ ~TheJoin.lateral /\ Ready /\ JoinWith(strategy, RightRelation)
  BY DEF Join
<1>2. indexes' = [s \in DOMAIN indexes \cup strategy.signature |->
                    IF s \in DOMAIN indexes THEN indexes[s] ELSE strategy.index]
  BY <1>1 DEF JoinWith
<1>3. \A cte \in CtesInScope : NumberedBelow(cte, next_relation_cache_id)
  BY DEF IndexInv, KeysAreNumbered
<1>4. \A j, k \in RightRelation.cache_key : j = k
  BY <1>1, <1>3, RightKey DEF NumberedBelow, cte_key, result_key
<1> HIDE DEF strategy
<1>5. ASSUME NEW s \in DOMAIN indexes', s \notin DOMAIN indexes
      PROVE  RightRelation.cache_key = {s[1]} /\ indexes'[s] = BuildIndex(RightRelation, s[2])
  <2>1. s \in strategy.signature /\ indexes'[s] = strategy.index
    BY <1>2, <1>5
  <2>2. s \in StrategyOf(TheJoin, Top.current, RightRelation, indexes).signature
    BY <2>1 DEF strategy
  <2>3. /\ RightRelation.cache_key = {s[1]}
        /\ StrategyOf(TheJoin, Top.current, RightRelation, indexes).index = BuildIndex(RightRelation, s[2])
    BY <1>4, <1>5, <2>2, WhatIsKept
  <2> QED BY <2>1, <2>3 DEF strategy
<1>6. \A s \in DOMAIN indexes' :
        \/ s \in DOMAIN indexes /\ indexes'[s] = indexes[s]
        \/ RightRelation.cache_key = {s[1]} /\ indexes'[s] = BuildIndex(RightRelation, s[2])
  BY <1>2, <1>5
<1> QED BY <1>1, <1>6 DEF strategy

\* A new index is one of a CTE in scope, or under the key of results; the others stay.
LEMMA JoinKeeps == ASSUME IndexInv, Running, Join PROVE IndexInv'
<1>1. CASE \E what : Fail(what)
  BY <1>1, FailKeeps
<1>2. CASE ~ \E what : Fail(what)
  <2>1. ~UnknownCte /\ InJoin /\ ~TheJoin.lateral
    BY <1>2, JoinMakes
  <2>2. PICK rel : Replace(EntersJoin(Top, rel)) /\ UNCHANGED next_relation_cache_id
    BY <1>2, JoinMakes DEF JoinWith, Progress
  <2>3. DOMAIN EntersJoin(Top, rel) = FrameFields /\ EntersJoin(Top, rel).ctes = Top.ctes
    BY TopIs DEF EntersJoin, FrameFields
  <2>4. \A k \in 1 .. Len(frames') :
          DOMAIN frames'[k] = FrameFields /\ \E g \in ToSet(frames) : frames'[k].ctes = g.ctes
    BY <2>2, <2>3, ReplacedFrames, TopIs
  <2>5. FramesHaveFields' /\ CtesInScope' \subseteq CtesInScope
    BY <2>2, <2>4, ReplacedFrames, FramesFollow
  <2>6. \A cte \in CtesInScope : NumberedBelow(cte, next_relation_cache_id)
    BY DEF IndexInv, KeysAreNumbered
  <2>7. \A s \in DOMAIN indexes' :
          \/ s \in DOMAIN indexes /\ indexes'[s] = indexes[s]
          \/ /\ RightRelation.cache_key = {s[1]}
             /\ indexes'[s] = BuildIndex(RightRelation, s[2])
    BY <1>2, JoinMakes
  <2>8. IndexesAreOld'
    <3> SUFFICES ASSUME NEW s \in DOMAIN indexes', RightRelation.cache_key = {s[1]}
                 PROVE  \/ {s[1]} = result_key
                        \/ \E id \in 1 .. next_relation_cache_id - 1 : {s[1]} = cte_key(s[1][2], id)
      BY <2>2, <2>7 DEF IndexInv, IndexesAreOld
    <3>1. CASE RightRelation.cache_key \in {{}, result_key}
      BY <3>1
    <3>2. ASSUME NEW cte \in CtesInScope, RightRelation.cache_key = cte[2].cache_key
          PROVE  \E id \in 1 .. next_relation_cache_id - 1 : {s[1]} = cte_key(s[1][2], id)
      <4>1. PICK id \in 1 .. next_relation_cache_id - 1 : {s[1]} = cte_key(cte[1], id)
        BY <2>6, <3>2 DEF NumberedBelow
      <4>2. s[1] = <<"cte", cte[1], id>>
        BY <4>1 DEF cte_key
      <4> QED BY <4>1, <4>2
    <3> QED BY <2>1, <3>1, <3>2, RightKey
  <2>9. ASSUME NEW cte \in CtesInScope, NEW s, RightRelation.cache_key = {s[1]}, cte[2].cache_key = {s[1]}
         PROVE  BuildIndex(RightRelation, s[2]) = BuildIndex(cte[2], s[2])
    <3>1. RightRelation.cache_key # result_key
      <4>1. PICK id : cte[2].cache_key = cte_key(cte[1], id)
        BY <2>6 DEF NumberedBelow
      <4> QED BY <2>9, <4>1, KeysDiffer
    <3>2. PICK other \in CtesInScope :
            /\ RightRelation.cache_key = other[2].cache_key
            /\ \A columns : BuildIndex(RightRelation, columns) = BuildIndex(other[2], columns)
      BY <2>1, <2>9, <3>1, RightKey
    <3>3. other[2] = cte[2]
      BY <2>9, <3>2 DEF IndexInv, KeysTellApart
    <3> QED BY <3>2, <3>3
  <2>10. IndexesAreCurrent'
    BY <2>5, <2>7, <2>9 DEF IndexInv, IndexesAreCurrent
  <2>11. KeysAreNumbered' /\ KeysTellApart'
    BY <2>2, <2>5 DEF IndexInv, KeysAreNumbered, KeysTellApart
  <2> QED BY <2>5, <2>8, <2>10, <2>11 DEF IndexInv
<1> QED BY <1>1, <1>2

LEMMA FrameStepKeeps == ASSUME IndexInv, FrameStep PROVE IndexInv'
<1>1. Running
  BY DEF FrameStep
<1>2. CASE EvaluateCte
  BY <1>1, <1>2, CallKeeps DEF EvaluateCte
<1>3. CASE EvaluateDerived
  BY <1>1, <1>3, CallKeeps DEF EvaluateDerived
<1> QED BY <1>1, <1>2, <1>3, DefineCteKeeps, OpenSourceKeeps, JoinKeeps, LateralRowKeeps,
           LateralEndsKeeps, WhereKeeps, FinishKeeps DEF FrameStep

\* A statement starts without CTEs.
LEMMA StartKeeps == ASSUME IndexInv, NEW q, Start(q) PROVE IndexInv'
<1> DEFINE f == NewFrame(q, <<>>, {})
<1>1. frames' = <<f>> /\ UNCHANGED <<indexes, next_relation_cache_id>>
  BY DEF Start
<1>2. frames' \in Seq({f}) /\ frames' # <<>> /\ ToSet(frames') = {f}
  <2>1. frames' \in Seq({f}) /\ Len(frames') = 1 /\ frames'[1] = f
    BY <1>1
  <2>2. ToSet(frames') = {frames'[k] : k \in 1 .. Len(frames')}
    BY <2>1, SeqOfItsOwn
  <2> QED BY <1>1, <2>1, <2>2
<1>3. FramesHaveFields'
  BY <1>2, NewFrameParts DEF FramesHaveFields
<1>4. CtesInScope' = {}
  BY <1>2, NewFrameParts DEF CtesInScope
<1> QED BY <1>1, <1>3, <1>4, FewerCtesKeep

LEMMA DocumentKeeps ==
  ASSUME IndexInv, DocNext \/ UNCHANGED phase, UNCHANGED runtime
  PROVE  IndexInv'
<1>1. UNCHANGED <<frames, indexes, next_relation_cache_id>>
  BY DEF runtime
<1>2. Running' => Running
  BY DEF Running, DocNext, ParseStep, MetadataStep, ParseEnds, NumberNode, OrderEnds, MeasureNode, DepthEnds
<1>3. FramesHaveFields'
  BY <1>1, <1>2, NewFrameParts DEF IndexInv, FramesHaveFields
<1>4. CtesInScope' = CtesInScope
  BY <1>1 DEF CtesInScope
<1> QED BY <1>1, <1>3, <1>4, FewerCtesKeep

LEMMA InitIndexInv == RelInit => IndexInv
<1> SUFFICES ASSUME RelInit PROVE IndexInv
  OBVIOUS
<1>0. frames = <<>> /\ indexes = <<>> /\ next_relation_cache_id = 1 /\ phase = "parse"
  BY DEF RelInit, Init, DocInit
<1>1. frames = <<>> /\ DOMAIN indexes = {} /\ next_relation_cache_id = 1 /\ ~Running
  <2>1. DOMAIN <<>> = {}
    OBVIOUS
  <2>2. DOMAIN indexes = {}
    BY <1>0, <2>1
  <2> QED BY <1>0, <2>2 DEF Running
<1>2. frames \in Seq({}) /\ ToSet(frames) = {}
  <2>1. frames \in Seq({}) /\ Len(frames) = 0
    BY <1>0
  <2>2. DOMAIN frames = {}
    BY <1>0
  <2> QED BY <2>1, <2>2 DEF ToSet
<1>3. CtesInScope = {}
  BY <1>2 DEF CtesInScope
<1> QED BY <1>1, <1>2, <1>3
        DEF IndexInv, FramesHaveFields, KeysAreNumbered, KeysTellApart, IndexesAreOld, IndexesAreCurrent

LEMMA RelNextKeeps == IndexInv /\ [RelNext]_relVars => IndexInv'
<1> SUFFICES ASSUME IndexInv, [RelNext]_relVars PROVE IndexInv'
  OBVIOUS
<1>1. CASE FrameStep
  BY <1>1, FrameStepKeeps
<1>2. CASE \E q \in Statements : Start(q)
  BY <1>2, StartKeeps
<1>3. CASE (DocNext \/ UNCHANGED phase) /\ UNCHANGED runtime
  BY <1>3, DocumentKeeps
<1> QED BY <1>1, <1>2, <1>3 DEF RelNext, relVars, docVars

\* The invariant of the kept indexes, for every statement and document
\* (execute_relation_join.cpp: relation_index_signature, and the cache key that
\* evaluate_query_relation numbers).
THEOREM IndexInvariance == RelSpec => []IndexInv
<1>1. RelInit => IndexInv
  BY InitIndexInv
<1>2. IndexInv /\ [RelNext]_relVars => IndexInv'
  BY RelNextKeeps
<1> QED BY <1>1, <1>2, PTL DEF RelSpec

\* A join that finds an index kept for a CTE finds that CTE's rows with it, whatever
\* CTEs of its name other queries defined before (execute_relation_join.cpp, the
\* lookup in relation_index_cache).
THEOREM IndexesStayCurrent == RelSpec => []IndexesAreCurrent
<1>1. IndexInv => IndexesAreCurrent
  BY DEF IndexInv
<1> QED BY <1>1, IndexInvariance, PTL
----------------------------------------------------------------------------
(* Rows and schemas. *)

\* What has the places of a sequence is one.
LEMMA OfPlaces ==
  ASSUME NEW n \in Nat, NEW t, t = [k \in 1 .. n |-> t[k]]
  PROVE  IsSequence(t) /\ Len(t) = n /\ DOMAIN t = 1 .. n
<1> DEFINE S == {t[k] : k \in 1 .. n}
           u == [k \in 1 .. n |-> t[k]]
<1>1. \A k \in 1 .. n : t[k] \in S
  OBVIOUS
<1> HIDE DEF S
<1>2. u \in Seq(S) /\ Len(u) = n
  BY <1>1, ValuesAreASeq
<1>3. DOMAIN u = 1 .. n
  OBVIOUS
<1>4. t = u
  OBVIOUS
<1> HIDE DEF u
<1>5. t \in Seq(S)
  BY <1>2, <1>4
<1> QED BY <1>2, <1>3, <1>4, <1>5, SeqOfItsOwn DEF IsSequence

LEMMA SequenceOf ==
  ASSUME NEW S, NEW s \in Seq(S)
  PROVE  IsSequence(s) /\ \A x \in ToSet(s) : x \in S
<1>1. s \in Seq(ToSet(s)) /\ ToSet(s) = {s[k] : k \in 1 .. Len(s)}
  BY SeqOfItsOwn
<1>2. \A k \in 1 .. Len(s) : s[k] \in S
  OBVIOUS
<1> QED BY <1>1, <1>2 DEF IsSequence

LEMMA SequenceIs ==
  ASSUME NEW s, IsSequence(s)
  PROVE  /\ s \in Seq(ToSet(s)) /\ DOMAIN s = 1 .. Len(s) /\ Len(s) \in Nat
         /\ s = [k \in 1 .. Len(s) |-> s[k]]
         /\ s = <<>> <=> DOMAIN s = {}
         /\ \A x \in ToSet(s) : \E k \in DOMAIN s : x = s[k]
<1>1. s \in Seq(ToSet(s))
  BY DEF IsSequence
<1>2. DOMAIN s = 1 .. Len(s) /\ Len(s) \in Nat /\ s = [k \in 1 .. Len(s) |-> s[k]]
  BY <1>1
<1>3. s = <<>> <=> Len(s) = 0
  BY <1>1
<1>4. 1 .. Len(s) = {} <=> Len(s) = 0
  BY <1>2
<1>5. ToSet(s) = {s[k] : k \in 1 .. Len(s)}
  BY <1>1, SeqOfItsOwn
<1> QED BY <1>1, <1>2, <1>3, <1>4, <1>5

LEMMA MergedParts ==
  ASSUME NEW f, NEW g
  PROVE  /\ DOMAIN MergeColumns(f, g) = DOMAIN f \cup DOMAIN g
         /\ \A a \in DOMAIN f : f[a] \subseteq MergeColumns(f, g)[a]
         /\ \A a \in DOMAIN g : g[a] \subseteq MergeColumns(f, g)[a]
BY DEF MergeColumns

\* More columns for the same aliases are columns of the row too.
LEMMA MoreColumns ==
  ASSUME NEW row, NEW f, NEW g, RowOf(row, f), DOMAIN g = DOMAIN f, \A a \in DOMAIN f : f[a] \subseteq g[a]
  PROVE  RowOf(row, g)
BY DEF RowOf

LEMMA MergedRow ==
  ASSUME NEW l, NEW r, NEW f, NEW g, RowOf(l, f), RowOf(r, g)
  PROVE  RowOf(merge_row_aliases(l, r), MergeColumns(f, g))
<1> DEFINE row == merge_row_aliases(l, r)
           cols == MergeColumns(f, g)
<1>1. DOMAIN row = DOMAIN f \cup DOMAIN g /\ DOMAIN cols = DOMAIN f \cup DOMAIN g
  BY DEF RowOf, merge_row_aliases, MergeColumns
<1>2. ASSUME NEW a \in DOMAIN row PROVE DOMAIN row[a].values \subseteq cols[a]
  <2>1. CASE a \in DOMAIN l
    <3>1. row[a] = l[a] /\ a \in DOMAIN f /\ DOMAIN l[a].values \subseteq f[a]
      BY <2>1 DEF RowOf, merge_row_aliases
    <3> QED BY <3>1, MergedParts
  <2>2. CASE a \notin DOMAIN l
    <3>1. a \in DOMAIN r
      BY <1>1, <2>2 DEF RowOf
    <3>2. row[a] = r[a] /\ a \in DOMAIN g /\ DOMAIN r[a].values \subseteq g[a]
      BY <2>2, <3>1 DEF RowOf, merge_row_aliases
    <3> QED BY <3>2, MergedParts
  <2> QED BY <2>1, <2>2
<1> HIDE DEF row, cols
<1>3. RowOf(row, cols)
  BY <1>1, <1>2 DEF RowOf
<1> QED BY <1>3 DEF row, cols

\* The row of a LEFT JOIN that matches none has NULL in every column of the right side.
LEMMA PaddedRow ==
  ASSUME NEW l, NEW f, NEW right_rel, RowOf(l, f)
  PROVE  RowOf(build_left_join_padded_row(l, right_rel), MergeColumns(f, right_rel.alias_columns))
<1> DEFINE g == right_rel.alias_columns
           row == build_left_join_padded_row(l, right_rel)
           cols == MergeColumns(f, g)
<1>1. DOMAIN row = DOMAIN cols
  BY DEF RowOf, build_left_join_padded_row, MergeColumns
<1>2. ASSUME NEW a \in DOMAIN row PROVE DOMAIN row[a].values \subseteq cols[a]
  <2>1. CASE a \in DOMAIN g
    <3>1. row[a] = Record([c \in g[a] |-> Null], <<>>)
      BY <2>1 DEF build_left_join_padded_row
    <3>2. DOMAIN row[a].values = g[a]
      BY <3>1 DEF Record
    <3> QED BY <2>1, <3>2, MergedParts
  <2>2. CASE a \notin DOMAIN g
    <3>1. row[a] = l[a] /\ a \in DOMAIN l
      BY <2>2 DEF build_left_join_padded_row
    <3>2. a \in DOMAIN f /\ DOMAIN l[a].values \subseteq f[a]
      BY <3>1 DEF RowOf
    <3> QED BY <3>1, <3>2, MergedParts
  <2> QED BY <2>1, <2>2
<1> HIDE DEF row, cols
<1>3. RowOf(row, cols)
  BY <1>1, <1>2 DEF RowOf
<1> QED BY <1>3 DEF row, cols

\* The columns of rows cover them.
LEMMA RelationParts == \A rows_, columns, key : HasParts(Relation(rows_, columns, key))
BY DEF HasParts, Relation

LEMMA ColumnsCover ==
  ASSUME NEW rows_, NEW k \in DOMAIN rows_, NEW a \in DOMAIN rows_[k]
  PROVE  a \in DOMAIN ColumnsOf(rows_) /\ DOMAIN rows_[k][a].values \subseteq ColumnsOf(rows_)[a]
BY DEF ColumnsOf

LEMMA RelationOfRows ==
  ASSUME NEW rows_, IsSequence(rows_), NEW alias, NEW key,
         \A k \in DOMAIN rows_ : DOMAIN rows_[k] = {alias}
  PROVE  OfOneAlias(Relation(rows_, ColumnsOf(rows_), key), alias)
<1> DEFINE cols == ColumnsOf(rows_)
<1>1. DOMAIN cols = {alias : k \in DOMAIN rows_}
  BY DEF ColumnsOf
<1>2. ASSUME NEW k \in DOMAIN rows_ PROVE RowOf(rows_[k], cols)
  <2>1. DOMAIN cols = {alias}
    BY <1>1
  <2> QED BY <2>1, ColumnsCover DEF RowOf
<1> HIDE DEF cols
<1>3. OfOneAlias(Relation(rows_, cols, key), alias)
  BY <1>1, <1>2, RelationParts DEF OfOneAlias, Sound, Covers, Relation
<1> QED BY <1>3 DEF cols

\* Rows that merge with one and the same have its columns too.
LEMMA OuterIsSound ==
  ASSUME NEW rel, Sound(rel), NEW outer
  PROVE  Sound(UnderOuter(rel, outer))
<1>1. CASE outer = {}
  BY <1>1 DEF UnderOuter
<1>2. CASE outer # {}
  <2> DEFINE row == CHOOSE r \in outer : TRUE
             rows_ == [k \in DOMAIN rel.rows |-> merge_row_aliases(row, rel.rows[k])]
             own == ColumnsOf(<<row>>)
             cols == MergeColumns(rel.alias_columns, own)
  <2>1. UnderOuter(rel, outer) = Relation(rows_, cols, rel.cache_key)
    BY <1>2 DEF UnderOuter
  <2> HIDE DEF row
  <2>2. RowOf(row, own)
    <3>1. DOMAIN <<row>> = {1} /\ <<row>>[1] = row
      OBVIOUS
    <3>2. DOMAIN own = DOMAIN row
      BY <3>1 DEF ColumnsOf
    <3> QED BY <3>1, <3>2, ColumnsCover DEF RowOf
  <2>3. DOMAIN rel.rows = 1 .. Len(rel.rows) /\ Len(rel.rows) \in Nat
    BY SequenceIs DEF Sound
  <2>4. IsSequence(rows_) /\ DOMAIN rows_ = DOMAIN rel.rows
    <3>1. rows_ = [k \in 1 .. Len(rel.rows) |-> rows_[k]]
      BY <2>3
    <3> HIDE DEF rows_
    <3> QED BY <2>3, <3>1, OfPlaces
  <2>5. ASSUME NEW k \in DOMAIN rel.rows PROVE RowOf(rows_[k], cols)
    <3>1. RowOf(rel.rows[k], rel.alias_columns)
      BY DEF Sound, Covers
    <3>2. RowOf(merge_row_aliases(row, rel.rows[k]), MergeColumns(own, rel.alias_columns))
      <4> HIDE DEF own
      <4> QED BY <2>2, <3>1, MergedRow
    <3>3. MergeColumns(own, rel.alias_columns) = cols
      BY DEF MergeColumns
    <3> QED BY <3>2, <3>3
  <2> HIDE DEF rows_, cols
  <2> QED BY <2>1, <2>4, <2>5, RelationParts DEF Sound, Covers, Relation
<1> QED BY <1>1, <1>2

\* A CTE has one alias whatever it is called.
LEMMA RenamedIsSound ==
  ASSUME NEW rel, NEW name, NEW alias, OfOneAlias(rel, name)
  PROVE  OfOneAlias(CteRelation(rel, name, alias), alias)
<1> DEFINE rows_ == [k \in DOMAIN rel.rows |-> [a \in {alias} |-> rel.rows[k][name]]]
           cols == [a \in {alias : c \in DOMAIN rel.alias_columns} |-> rel.alias_columns[name]]
<1>1. CteRelation(rel, name, alias) = Relation(rows_, cols, rel.cache_key)
  BY DEF CteRelation
<1>2. DOMAIN rel.rows = 1 .. Len(rel.rows) /\ Len(rel.rows) \in Nat
  BY SequenceIs DEF OfOneAlias, Sound
<1>3. IsSequence(rows_) /\ DOMAIN rows_ = DOMAIN rel.rows
  <2>1. rows_ = [k \in 1 .. Len(rel.rows) |-> rows_[k]]
    BY <1>2
  <2> HIDE DEF rows_
  <2> QED BY <1>2, <2>1, OfPlaces
<1>4. DOMAIN rel.alias_columns = {name : k \in DOMAIN rel.rows}
  BY DEF OfOneAlias
<1>5. DOMAIN cols = {alias : k \in DOMAIN rows_}
  BY <1>4
<1>6. ASSUME NEW k \in DOMAIN rel.rows PROVE RowOf(rows_[k], cols)
  <2>1. RowOf(rel.rows[k], rel.alias_columns)
    BY DEF OfOneAlias, Sound, Covers
  <2>2. DOMAIN rel.alias_columns = {name}
    BY <1>4
  <2>3. DOMAIN rel.rows[k][name].values \subseteq rel.alias_columns[name]
    BY <2>1, <2>2 DEF RowOf
  <2>4. DOMAIN cols = {alias} /\ cols[alias] = rel.alias_columns[name]
    BY <2>2
  <2>5. DOMAIN rows_[k] = {alias} /\ rows_[k][alias] = rel.rows[k][name]
    OBVIOUS
  <2> HIDE DEF rows_, cols
  <2> QED BY <2>3, <2>4, <2>5 DEF RowOf
<1> HIDE DEF rows_, cols
<1> QED BY <1>1, <1>3, <1>5, <1>6, RelationParts DEF OfOneAlias, Sound, Covers, Relation
----------------------------------------------------------------------------
(* The sequences that rows are collected in. *)

LEMMA WiderSeq ==
  ASSUME NEW S, NEW T, \A x \in S : x \in T, NEW s \in Seq(S)
  PROVE  s \in Seq(T)
<1>1. Len(s) \in Nat /\ \A k \in 1 .. Len(s) : s[k] \in T
  OBVIOUS
<1>2. s = [k \in 1 .. Len(s) |-> s[k]]
  BY SeqIsItsValues
<1>3. [k \in 1 .. Len(s) |-> s[k]] \in Seq(T)
  BY <1>1, ValuesAreASeq
<1> QED BY <1>2, <1>3

\* The numbers of a finite set, the smaller ones first.
LEMMA AscendingIs ==
  ASSUME NEW n \in Nat, NEW S \in SUBSET (1 .. n)
  PROVE  Ascending(S) \in Seq(S)
<1> DEFINE before == [m \in S |-> {j \in S : j < m}]
           place == [m \in S |-> Cardinality({j \in S : j < m})]
<1>1. IsFiniteSet(S)
  <2>1. IsFiniteSet(1 .. n)
    BY FS_Interval
  <2> QED BY <2>1, FS_Subset
<1>2. Orders(before, S)
  <2>1. \A m \in S : m \in Nat
    OBVIOUS
  <2>2. \A l, m \in S : l \in before[m] <=> l < m
    OBVIOUS
  <2>3. before \in [S -> SUBSET S]
    OBVIOUS
  <2> HIDE DEF before
  <2>4. \A m \in S : m \notin before[m]
    BY <2>1, <2>2
  <2>5. ASSUME NEW l \in S, NEW m \in S, l \in before[m] PROVE before[l] \subseteq before[m]
    <3>1. before[l] \subseteq S
      BY <2>3
    <3>2. \A j \in S : j < l => j < m
      BY <2>1, <2>2, <2>5
    <3> QED BY <2>2, <3>1, <3>2
  <2>6. \A l, m \in S : l = m \/ l \in before[m] \/ m \in before[l]
    BY <2>1, <2>2
  <2> QED BY <2>3, <2>4, <2>5, <2>6 DEF Orders
<1>3. \A m \in S : place[m] = Cardinality(before[m])
  OBVIOUS
<1>4. ByPlaces(Ascending(S), S, place)
  BY DEF Ascending, ByPlaces
<1> HIDE DEF before, place
<1> QED BY <1>1, <1>2, <1>3, <1>4, ByTheirPlaces

\* The elements of a sequence at some of its places.
LEMMA ThoseAre ==
  ASSUME NEW s, IsSequence(s), NEW P \in SUBSET (DOMAIN s)
  PROVE  /\ IsSequence(Those(s, P))
         /\ \A k \in DOMAIN Those(s, P) : \E j \in P : Those(s, P)[k] = s[j]
<1> DEFINE at == Ascending(P)
           t == Those(s, P)
<1>1. at \in Seq(P)
  BY SequenceIs, AscendingIs
<1> HIDE DEF at
<1>2. Len(at) \in Nat /\ DOMAIN at = 1 .. Len(at) /\ \A k \in 1 .. Len(at) : at[k] \in P
  BY <1>1
<1>3. t = [k \in DOMAIN at |-> s[at[k]]]
  BY DEF Those, at
<1> HIDE DEF t
<1>4. t = [k \in 1 .. Len(at) |-> t[k]] /\ \A k \in 1 .. Len(at) : t[k] = s[at[k]]
  BY <1>2, <1>3
<1>5. IsSequence(t) /\ DOMAIN t = 1 .. Len(at)
  BY <1>2, <1>4, OfPlaces
<1> QED BY <1>2, <1>4, <1>5 DEF t

\* Sequences of some elements, one after the other.
LEMMA TogetherAre ==
  ASSUME NEW n \in Nat, NEW parts, parts = [k \in 1 .. n |-> parts[k]], NEW G,
         \A k \in 1 .. n : IsSequence(parts[k]) /\ \A j \in DOMAIN parts[k] : parts[k][j] \in G
  PROVE  FlattenSeq(parts) \in Seq(G)
<1>1. ASSUME NEW k \in 1 .. n PROVE parts[k] \in Seq(G)
  <2>1. IsSequence(parts[k]) /\ \A j \in DOMAIN parts[k] : parts[k][j] \in G
    OBVIOUS
  <2>2. /\ Len(parts[k]) \in Nat /\ DOMAIN parts[k] = 1 .. Len(parts[k])
        /\ parts[k] = [j \in 1 .. Len(parts[k]) |-> parts[k][j]]
    BY <2>1, SequenceIs
  <2>3. [j \in 1 .. Len(parts[k]) |-> parts[k][j]] \in Seq(G)
    BY <2>1, <2>2, ValuesAreASeq
  <2> QED BY <2>2, <2>3
<1>2. [k \in 1 .. n |-> parts[k]] \in Seq(Seq(G))
  BY <1>1, ValuesAreASeq
<1>3. parts \in Seq(Seq(G))
  BY <1>2
<1>4. PICK flat \in [0 .. Len(parts) -> Seq(G)] : FlattenSeq(parts) = flat[Len(parts)]
  BY <1>3, Flattened
<1>5. Len(parts) \in 0 .. Len(parts)
  BY <1>3
<1> QED BY <1>4, <1>5
----------------------------------------------------------------------------
(* A join makes rows of both schemas, whatever its strategy tries them with. *)

\* The positions that a strategy may try: positions, if the index that it finds has them.
LEMMA CandidatesAre ==
  ASSUME NEW join, NEW left_rel, NEW right_rel, NEW kept, IsSequence(right_rel.rows),
         \A s \in DOMAIN kept : DOMAIN kept[s] \subseteq Nat \ {0},
         NEW row, NEW k \in Candidates(StrategyOf(join, left_rel, right_rel, kept), row, right_rel)
  PROVE  k \in Nat \ {0}
<1> DEFINE chosen == StrategyOf(join, left_rel, right_rel, kept)
<1>1. DOMAIN right_rel.rows \subseteq Nat \ {0}
  <2>1. DOMAIN right_rel.rows = 1 .. Len(right_rel.rows) /\ Len(right_rel.rows) \in Nat
    BY SequenceIs
  <2> QED BY <2>1
<1>2. "hash_equi" # "indexed_lookup_nested" /\ "hash_equi" # "nested_loop" /\ "indexed_lookup_nested" # "nested_loop"
  OBVIOUS
<1>3. CASE chosen.strategy = "hash_equi"
  <2>1. k \in HashCandidates(chosen.plan, row, right_rel)
    <3> HIDE DEF chosen
    <3>1. Candidates(chosen, row, right_rel) = HashCandidates(chosen.plan, row, right_rel)
      BY <1>2, <1>3, Zenon DEF Candidates
    <3> QED BY <3>1 DEF chosen
  <2> QED BY <1>1, <2>1 DEF HashCandidates
<1>4. CASE chosen.strategy = "indexed_lookup_nested"
  <2>1. PICK p \in plan_index_lookup_join(join, left_rel, right_rel) :
          chosen = LookupWith(p, relation_index_signature(right_rel, p), right_rel, kept)
    BY <1>4, StrategyIs
  <2>2. k \in IndexCandidates(chosen.plan, row, chosen.index)
    <3> HIDE DEF chosen
    <3>1. Candidates(chosen, row, right_rel) = IndexCandidates(chosen.plan, row, chosen.index)
      BY <1>2, <1>4, Zenon DEF Candidates
    <3> QED BY <3>1 DEF chosen
  <2> DEFINE found == relation_index_signature(right_rel, p) \cap DOMAIN kept
             columns == {t.right_column : t \in p.terms}
  <2>3. chosen.index = IF found # {} THEN kept[CHOOSE s \in found : TRUE] ELSE BuildIndex(right_rel, columns)
    BY <2>1 DEF LookupWith
  <2>4. DOMAIN BuildIndex(right_rel, columns) = DOMAIN right_rel.rows
    BY DEF BuildIndex
  <2>5. found # {} => (CHOOSE s \in found : TRUE) \in DOMAIN kept
    <3>1. found \subseteq DOMAIN kept
      OBVIOUS
    <3> HIDE DEF found
    <3> QED BY <3>1
  <2> HIDE DEF found, columns, chosen
  <2>6. DOMAIN chosen.index \subseteq Nat \ {0}
    BY <1>1, <2>3, <2>4, <2>5
  <2> QED BY <2>2, <2>6 DEF IndexCandidates
<1>5. CASE chosen.strategy = "nested_loop"
  <2>1. k \in DOMAIN right_rel.rows
    <3> HIDE DEF chosen
    <3>1. Candidates(chosen, row, right_rel) = DOMAIN right_rel.rows
      BY <1>2, <1>5, Zenon DEF Candidates
    <3> QED BY <3>1 DEF chosen
  <2> QED BY <1>1, <2>1
<1>6. chosen.strategy \in {"hash_equi", "nested_loop", "indexed_lookup_nested"}
  BY StrategyIs
<1> HIDE DEF chosen
<1> QED BY <1>3, <1>4, <1>5, <1>6

\* A pair matches only if there is such a row.
LEMMA MatchIsARow ==
  ASSUME NEW s, NEW join, NEW row, NEW right_rel, NEW k \in Nat, NEW alias, Len(right_rel.rows) \in Nat,
         TryPair(s, join, row, right_rel, k, alias) = "true"
  PROVE  k <= Len(right_rel.rows)
<1> SUFFICES ASSUME ~(k <= Len(right_rel.rows)) PROVE FALSE
  OBVIOUS
<1>1. k > Len(right_rel.rows)
  OBVIOUS
<1>2. ~(k <= Len(right_rel.rows) /\ DuplicateAlias(row, right_rel.rows[k]))
  OBVIOUS
<1>3. TryPair(s, join, row, right_rel, k, alias) = "out of range"
  BY <1>1, <1>2, Zenon DEF TryPair
<1> QED BY <1>3

LEMMA MatchesAre ==
  ASSUME NEW join, NEW left_rel, NEW right_rel, NEW kept, IsSequence(right_rel.rows),
         \A s \in DOMAIN kept : DOMAIN kept[s] \subseteq Nat \ {0},
         NEW row, NEW alias
  PROVE  MatchesOf(StrategyOf(join, left_rel, right_rel, kept), join, row, right_rel, alias)
           \in Seq(DOMAIN right_rel.rows)
<1> DEFINE s == StrategyOf(join, left_rel, right_rel, kept)
           n == Len(right_rel.rows)
           S == {k \in Candidates(s, row, right_rel) : TryPair(s, join, row, right_rel, k, alias) = "true"}
<1>1. n \in Nat /\ DOMAIN right_rel.rows = 1 .. n
  BY SequenceIs
<1>2. ASSUME NEW k \in S PROVE k \in 1 .. n
  <2>1. k \in Candidates(s, row, right_rel) /\ TryPair(s, join, row, right_rel, k, alias) = "true"
    OBVIOUS
  <2>2. k \in Nat \ {0}
    BY <2>1, CandidatesAre
  <2>3. k <= n
    <3> HIDE DEF s
    <3> QED BY <1>1, <2>1, <2>2, MatchIsARow
  <2> HIDE DEF n
  <2> QED BY <1>1, <2>2, <2>3
<1>3. MatchesOf(s, join, row, right_rel, alias) = Ascending(S)
  BY DEF MatchesOf
<1> HIDE DEF S, n
<1>4. Ascending(S) \in Seq(S)
  BY <1>1, <1>2, AscendingIs
<1>5. Ascending(S) \in Seq(1 .. n)
  BY <1>2, <1>4, WiderSeq
<1> QED BY <1>1, <1>3, <1>5

\* The rows that one left row is joined to.
LEMMA JoinedAre ==
  ASSUME NEW join, NEW row, NEW f, RowOf(row, f), NEW right_rel, Sound(right_rel),
         NEW matches \in Seq(DOMAIN right_rel.rows)
  PROVE  /\ IsSequence(JoinedRows(join, row, right_rel, matches))
         /\ \A k \in DOMAIN JoinedRows(join, row, right_rel, matches) :
               RowOf(JoinedRows(join, row, right_rel, matches)[k], MergeColumns(f, right_rel.alias_columns))
<1> DEFINE cols == MergeColumns(f, right_rel.alias_columns)
           merged == [k \in DOMAIN matches |-> merge_row_aliases(row, right_rel.rows[matches[k]])]
           padded == build_left_join_padded_row(row, right_rel)
           pad == IF join.type = "left" /\ matches = <<>> THEN <<padded>> ELSE <<>>
           G == {merged[k] : k \in DOMAIN matches} \cup {padded}
           joined == JoinedRows(join, row, right_rel, matches)
<1>1. Len(matches) \in Nat /\ DOMAIN matches = 1 .. Len(matches)
      /\ \A k \in 1 .. Len(matches) : matches[k] \in DOMAIN right_rel.rows
  OBVIOUS
<1>2. ASSUME NEW k \in DOMAIN matches PROVE RowOf(merged[k], cols)
  <2>1. merged[k] = merge_row_aliases(row, right_rel.rows[matches[k]])
    OBVIOUS
  <2>2. matches[k] \in DOMAIN right_rel.rows
    BY <1>1
  <2>3. RowOf(right_rel.rows[matches[k]], right_rel.alias_columns)
    BY <2>2 DEF Sound, Covers
  <2> HIDE DEF merged
  <2> QED BY <2>1, <2>3, MergedRow
<1>3. RowOf(padded, cols)
  BY PaddedRow
<1>4. \A r \in G : RowOf(r, cols)
  <2> HIDE DEF merged, padded, cols
  <2> QED BY <1>2, <1>3
<1>5. merged \in Seq(G)
  <2>1. merged = [k \in 1 .. Len(matches) |-> merged[k]] /\ \A k \in 1 .. Len(matches) : merged[k] \in G
    BY <1>1
  <2> HIDE DEF merged, G
  <2>2. [k \in 1 .. Len(matches) |-> merged[k]] \in Seq(G)
    BY <1>1, <2>1, ValuesAreASeq
  <2> QED BY <2>1, <2>2
<1>6. joined = merged \o pad
  BY DEF JoinedRows
<1>7. pad \in Seq(G)
  <2>1. padded \in G
    OBVIOUS
  <2> HIDE DEF G, padded
  <2> QED BY <2>1
<1> HIDE DEF merged, pad, G, joined, cols
<1>8. joined \in Seq(G)
  BY <1>5, <1>6, <1>7
<1>9. IsSequence(joined) /\ \A x \in ToSet(joined) : x \in G
  BY <1>8, SequenceOf
<1>10. \A k \in DOMAIN joined : joined[k] \in G
  BY <1>8
<1> QED BY <1>4, <1>9, <1>10 DEF joined, cols

LEMMA JoinIsSound ==
  ASSUME NEW join, NEW left_rel, Sound(left_rel), NEW right_rel, Sound(right_rel), NEW kept,
         \A s \in DOMAIN kept : DOMAIN kept[s] \subseteq Nat \ {0}, NEW alias, NEW key
  PROVE  Sound(Relation(JoinRows(StrategyOf(join, left_rel, right_rel, kept), join, left_rel, right_rel, alias),
                        MergeColumns(left_rel.alias_columns, right_rel.alias_columns), key))
<1> DEFINE s == StrategyOf(join, left_rel, right_rel, kept)
           cols == MergeColumns(left_rel.alias_columns, right_rel.alias_columns)
           matches(k) == MatchesOf(s, join, left_rel.rows[k], right_rel, alias)
           parts == [k \in DOMAIN left_rel.rows |-> JoinedRows(join, left_rel.rows[k], right_rel, matches(k))]
           n == Len(left_rel.rows)
           G == UNION {ToSet(parts[k]) : k \in 1 .. n}
           joined == JoinRows(s, join, left_rel, right_rel, alias)
<1>1. n \in Nat /\ DOMAIN left_rel.rows = 1 .. n
  BY SequenceIs DEF Sound
<1>2. joined = FlattenSeq(parts)
  BY DEF JoinRows
<1>3. ASSUME NEW k \in 1 .. n
      PROVE  /\ IsSequence(parts[k])
             /\ \A j \in DOMAIN parts[k] : RowOf(parts[k][j], cols)
  <2>1. RowOf(left_rel.rows[k], left_rel.alias_columns)
    BY <1>1 DEF Sound, Covers
  <2>2. matches(k) \in Seq(DOMAIN right_rel.rows)
    BY MatchesAre DEF Sound
  <2> DEFINE m == matches(k)
  <2>3. parts[k] = JoinedRows(join, left_rel.rows[k], right_rel, m)
    BY <1>1
  <2>4. m \in Seq(DOMAIN right_rel.rows)
    BY <2>2
  <2> HIDE DEF m, parts
  <2> QED BY <2>1, <2>3, <2>4, JoinedAre
<1>4. parts = [k \in 1 .. n |-> parts[k]]
  BY <1>1
<1> HIDE DEF parts, n, cols, joined
<1>5. ASSUME NEW k \in 1 .. n, NEW j \in DOMAIN parts[k] PROVE parts[k][j] \in G
  <2>1. parts[k][j] \in ToSet(parts[k])
    BY DEF ToSet
  <2> QED BY <2>1
<1>6. \A r \in G : RowOf(r, cols)
  BY <1>3, SequenceIs
<1> HIDE DEF G
<1>7. joined \in Seq(G)
  BY <1>1, <1>2, <1>3, <1>4, <1>5, TogetherAre
<1>8. IsSequence(joined) /\ \A k \in DOMAIN joined : RowOf(joined[k], cols)
  <2>1. IsSequence(joined)
    BY <1>7, SequenceOf
  <2>2. \A k \in DOMAIN joined : joined[k] \in G
    BY <1>7
  <2> QED BY <1>6, <2>1, <2>2
<1>9. Sound(Relation(joined, cols, key))
  BY <1>8, RelationParts DEF Sound, Covers, Relation
<1> QED BY <1>9 DEF joined, cols
----------------------------------------------------------------------------
(* The rows of sources and of results. *)

\* A sequence to which LIMIT and ORDER BY do nothing but shorten and arrange it.
LEMMA ShortenedIs ==
  ASSUME NEW q \in Statements \cup Subqueries, NEW s, IsSequence(s)
  PROVE  /\ IsSequence(Truncated(q, s)) /\ DOMAIN Truncated(q, s) \subseteq DOMAIN s
         /\ \A k \in DOMAIN Truncated(q, s) : Truncated(q, s)[k] = s[k]
<1> DEFINE t == Truncated(q, s)
           S == ToSet(s)
<1>1. q.limit \in SUBSET Nat /\ \A a, b \in q.limit : a = b
  BY StatementsAssumption
<1>2. s \in Seq(S)
  BY DEF IsSequence
<1>3. t = SubSeq(s, 1, Min({Len(s)} \cup q.limit))
  BY DEF Truncated
<1> HIDE DEF t, S
<1>4. IsBeginning(t, s, q.limit)
  BY <1>1, <1>2, <1>3, BeginningIs
<1>5. PICK l \in 0 .. Len(s) : /\ DOMAIN t = 1 .. l /\ t = [k \in 1 .. l |-> t[k]]
                             /\ \A k \in 1 .. l : t[k] = s[k]
  BY <1>4 DEF IsBeginning
<1>6. DOMAIN s = 1 .. Len(s) /\ Len(s) \in Nat /\ \A k \in 1 .. Len(s) : s[k] \in S
  BY <1>2
<1>7. t \in Seq(S)
  <2>1. [k \in 1 .. l |-> t[k]] \in Seq(S)
    BY <1>5, <1>6, ValuesAreASeq
  <2> QED BY <1>5, <2>1
<1>8. IsSequence(t)
  BY <1>7, SequenceOf
<1>9. DOMAIN t \subseteq DOMAIN s
  BY <1>5, <1>6
<1>10. \A k \in DOMAIN t : t[k] = s[k]
  BY <1>5
<1> QED BY <1>8, <1>9, <1>10 DEF t

LEMMA ArrangedIs ==
  ASSUME NEW q, NEW rows_, IsSequence(rows_), NEW t \in Arrangements(rows_, q)
  PROVE  /\ IsSequence(t) /\ DOMAIN t = DOMAIN rows_
         /\ \A k \in DOMAIN t : \E j \in DOMAIN rows_ : t[k] = rows_[j]
<1> DEFINE D == DOMAIN rows_
           keys == [k \in D |-> SortKey(rows_[k], q)]
           place == [r \in D |-> 1 + Cardinality({s \in D : ComesBefore(q.order_by, keys, s, r)})]
           at(k) == CHOOSE r \in D : place[r] = k
<1>1. t \in IF {place[r] : r \in D} = D THEN {[k \in D |-> rows_[at(k)]]}
            ELSE {[k \in D |-> rows_[p[k]]] : p \in Bijection(D, D)}
  BY DEF Arrangements
<1>2. D = 1 .. Len(rows_) /\ Len(rows_) \in Nat
  BY SequenceIs
<1> HIDE DEF D, place
<1>3. CASE {place[r] : r \in D} = D
  <2>1. t = [k \in D |-> rows_[at(k)]]
    BY <1>1, <1>3
  <2>2. \A k \in D : at(k) \in D
    BY <1>3
  <2> HIDE DEF at
  <2>3. \A k \in D : t[k] = rows_[at(k)]
    BY <2>1
  <2>4. t = [k \in 1 .. Len(rows_) |-> t[k]] /\ DOMAIN t = D
    BY <1>2, <2>1
  <2> QED BY <1>2, <2>2, <2>3, <2>4, OfPlaces DEF D
<1>4. CASE {place[r] : r \in D} # D
  <2>1. PICK p \in Bijection(D, D) : t = [k \in D |-> rows_[p[k]]]
    BY <1>1, <1>4
  <2>2. \A k \in D : p[k] \in D
    <3>1. p \in [D -> D]
      BY <2>1 DEF Bijection, Injection
    <3> QED BY <3>1
  <2>3. \A k \in D : t[k] = rows_[p[k]]
    BY <2>1
  <2>4. t = [k \in 1 .. Len(rows_) |-> t[k]] /\ DOMAIN t = D
    BY <1>2, <2>1
  <2> QED BY <1>2, <2>2, <2>3, <2>4, OfPlaces DEF D
<1> QED BY <1>3, <1>4

LEMMA SelectedIs ==
  ASSUME NEW name, NEW row, NEW active_alias
  PROVE  \E r : SelectedRow(name, row, active_alias) \in {<<>>, <<r>>}
<1> DEFINE chosen == SelectedAlias(name, row, active_alias)
           record == row[CHOOSE a \in chosen : TRUE]
           r == ResultRow(CoreOf(record), record.attributes, <<>>)
<1>1. SelectedRow(name, row, active_alias) = IF chosen = {} THEN <<>> ELSE <<r>>
  BY DEF SelectedRow
<1> HIDE DEF chosen, r
<1> QED BY <1>1

\* What a relation answers with is a sequence of rows.
LEMMA ResultIsRows ==
  ASSUME NEW q, NEW rel, IsSequence(rel.rows)
  PROVE  IsSequence(query_result_from_relation(q, rel).rows)
<1> DEFINE result == query_result_from_relation(q, rel)
           n == Len(rel.rows)
           one == <<CountRow(n)>>
           projected == [k \in DOMAIN rel.rows |-> ProjectedRow(q, rel.rows[k])]
           selected == [k \in DOMAIN rel.rows |->
                          SelectedRow(CHOOSE name \in q.select : TRUE, rel.rows[k], q.source.alias)]
<1>1. n \in Nat /\ DOMAIN rel.rows = 1 .. n
  BY SequenceIs
<1>2. result.rows \in {one, projected, FlattenSeq(selected)}
  <2> DEFINE count == [rows |-> one, columns |-> {"count"}]
             project == [rows |-> projected, columns |-> {q.project[k].name : k \in DOMAIN q.project}]
             select == [rows |-> FlattenSeq(selected), columns |-> {}]
  <2>1. result \in {count, project, select}
    <3> HIDE DEF one, projected, selected
    <3>1. CASE q.aggregate = "count"
      <4>1. result = count
        BY <3>1, Zenon DEF query_result_from_relation, count, one, n
      <4> QED BY <4>1
    <3>2. CASE q.aggregate # "count" /\ q.project # <<>>
      <4> DEFINE names == {q.project[k].name : k \in DOMAIN q.project}
      <4>1. q.aggregate # "count" /\ q.project # <<>>
        BY <3>2
      <4>2. result = [rows |-> projected, columns |-> names]
        BY <4>1, Zenon DEF query_result_from_relation, projected
      <4> QED BY <4>2
    <3>3. CASE q.aggregate # "count" /\ q.project = <<>>
      <4>1. result = select
        BY <3>3, Zenon DEF query_result_from_relation, select, selected
      <4> QED BY <4>1
    <3> QED BY <3>1, <3>2, <3>3
  <2>2. count.rows = one /\ project.rows = projected /\ select.rows = FlattenSeq(selected)
    OBVIOUS
  <2> HIDE DEF count, project, select, one, projected, selected, result
  <2> QED BY <2>1, <2>2
<1>3. IsSequence(one)
  <2>1. one \in Seq({CountRow(n)})
    OBVIOUS
  <2> QED BY <2>1, SequenceOf
<1>4. IsSequence(projected)
  <2>1. projected = [k \in 1 .. n |-> projected[k]]
    BY <1>1
  <2> HIDE DEF projected, n
  <2> QED BY <1>1, <2>1, OfPlaces
<1>5. IsSequence(FlattenSeq(selected))
  <2>1. selected = [k \in 1 .. n |-> selected[k]]
    BY <1>1
  <2>2. ASSUME NEW k \in 1 .. n PROVE \E r : selected[k] \in {<<>>, <<r>>}
    <3>1. selected[k] = SelectedRow(CHOOSE name \in q.select : TRUE, rel.rows[k], q.source.alias)
      BY <1>1
    <3>2. \E r : SelectedRow(CHOOSE name \in q.select : TRUE, rel.rows[k], q.source.alias) \in {<<>>, <<r>>}
      BY SelectedIs
    <3> HIDE DEF selected
    <3> QED BY <3>1, <3>2, Zenon
  <2> DEFINE G == UNION {ToSet(selected[k]) : k \in 1 .. n}
  <2> HIDE DEF selected, n
  <2>3. ASSUME NEW k \in 1 .. n
        PROVE  IsSequence(selected[k]) /\ \A j \in DOMAIN selected[k] : selected[k][j] \in G
    <3>1. PICK r : selected[k] \in {<<>>, <<r>>}
      BY <2>2
    <3>2. <<>> \in Seq({r}) /\ <<r>> \in Seq({r})
      OBVIOUS
    <3>3. \A j \in DOMAIN selected[k] : selected[k][j] \in ToSet(selected[k])
      BY DEF ToSet
    <3>4. selected[k] \in Seq({r})
      BY <3>1, <3>2
    <3> QED BY <3>3, <3>4, SequenceOf
  <2> HIDE DEF G
  <2>4. FlattenSeq(selected) \in Seq(G)
    BY <1>1, <2>1, <2>3, TogetherAre
  <2> QED BY <2>4, SequenceOf
<1> HIDE DEF one, projected, selected, result
<1>6. IsSequence(result.rows)
  BY <1>2, <1>3, <1>4, <1>5
<1> QED BY <1>6 DEF result

LEMMA LegacyIsRows ==
  ASSUME Len(nodes) \in Nat, NEW q \in Statements \cup Subqueries
  PROVE  IsSequence(LegacyResult(q).rows)
<1> DEFINE one == <<CountRow(CountRows(q)[1].node_id)>>
           S == {n \in Node : Selected(q, n)}
           sorted == Sorted(q, S)
           found == execute_query(q)
           rows_ == [k \in DOMAIN found |->
                       ResultRow(NodeCore(found[k]), nodes[found[k]].attributes, ComputedFields(q, found[k]))]
<1>1. LegacyResult(q).rows \in {one, rows_}
  <2>1. \E columns : LegacyResult(q) \in {[rows |-> one, columns |-> {"count"}], [rows |-> rows_, columns |-> columns]}
    BY DEF LegacyResult
  <2> HIDE DEF one, rows_
  <2> QED BY <2>1
<1>2. IsSequence(one)
  <2>1. one \in Seq({CountRow(CountRows(q)[1].node_id)})
    OBVIOUS
  <2> QED BY <2>1, SequenceOf
<1>3. IsFiniteSet(S) /\ Cardinality(S) \in Nat
  <2>1. IsFiniteSet(Node)
    BY FS_Interval DEF Node
  <2>2. IsFiniteSet(S)
    BY <2>1, FS_Subset
  <2> QED BY <2>2, FS_CardinalityType
<1>4. IsSequence(sorted)
  <2> DEFINE N == Cardinality(S)
             place == [n \in S |-> Cardinality({m \in S : NodeBefore(q, m, n)})]
  <2>1. sorted = [k \in 1 .. N |-> CHOOSE n \in S : place[n] = k - 1]
    BY DEF Sorted
  <2> HIDE DEF place, S, sorted
  <2>2. sorted = [k \in 1 .. N |-> sorted[k]]
    BY <2>1
  <2> QED BY <1>3, <2>2, OfPlaces
<1>5. IsSequence(found)
  <2>1. found = Truncated(q, sorted)
    BY DEF execute_query
  <2> HIDE DEF found, sorted
  <2> QED BY <1>4, <2>1, ShortenedIs
<1>6. IsSequence(rows_)
  <2>1. DOMAIN found = 1 .. Len(found) /\ Len(found) \in Nat
    BY <1>5, SequenceIs
  <2>2. rows_ = [k \in 1 .. Len(found) |-> rows_[k]]
    BY <2>1
  <2> HIDE DEF rows_, found
  <2> QED BY <2>1, <2>2, OfPlaces
<1> HIDE DEF one, rows_
<1> QED BY <1>1, <1>2, <1>6

\* A result, as a source, has one alias.
LEMMA ResultAsSource ==
  ASSUME NEW result, IsSequence(result.rows), NEW alias, NEW key
  PROVE  OfOneAlias(relation_from_query_result(result, alias, key), alias)
<1> DEFINE rows_ == [k \in DOMAIN result.rows |-> [a \in {alias} |-> ResultRecord(result.rows[k], result.columns)]]
<1>1. DOMAIN result.rows = 1 .. Len(result.rows) /\ Len(result.rows) \in Nat
  BY SequenceIs
<1>2. rows_ = [k \in 1 .. Len(result.rows) |-> rows_[k]] /\ DOMAIN rows_ = DOMAIN result.rows
  BY <1>1
<1>3. \A k \in DOMAIN rows_ : DOMAIN rows_[k] = {alias}
  OBVIOUS
<1>4. relation_from_query_result(result, alias, key) = Relation(rows_, ColumnsOf(rows_), key)
  BY DEF relation_from_query_result
<1> HIDE DEF rows_
<1>5. IsSequence(rows_)
  BY <1>1, <1>2, OfPlaces
<1>6. OfOneAlias(Relation(rows_, ColumnsOf(rows_), key), alias)
  BY <1>3, <1>5, RelationOfRows
<1> QED BY <1>4, <1>6

LEMMA DocumentAsSource ==
  ASSUME Len(nodes) \in Nat, NEW q, NEW outer, NEW alias, NEW prefilter
  PROVE  OfOneAlias(relation_from_document(q, outer, alias, prefilter), alias)
<1> DEFINE S == {n \in Node : ~(prefilter /\ Prefiltered(q, outer, n))}
           kept == Ascending(S)
           rows_ == [k \in DOMAIN kept |-> [a \in {alias} |-> NodeRecord(kept[k])]]
<1>1. kept \in Seq(S)
  <2>1. S \in SUBSET (1 .. Len(nodes))
    BY DEF Node
  <2> HIDE DEF S
  <2> QED BY <2>1, AscendingIs
<1>2. relation_from_document(q, outer, alias, prefilter) = Relation(rows_, ColumnsOf(rows_), {})
  BY DEF relation_from_document
<1> HIDE DEF S, kept
<1>3. DOMAIN kept = 1 .. Len(kept) /\ Len(kept) \in Nat
  BY <1>1
<1>4. rows_ = [k \in 1 .. Len(kept) |-> rows_[k]]
  BY <1>3
<1>5. \A k \in DOMAIN rows_ : DOMAIN rows_[k] = {alias}
  OBVIOUS
<1> HIDE DEF rows_
<1>6. IsSequence(rows_)
  BY <1>3, <1>4, OfPlaces
<1>7. OfOneAlias(Relation(rows_, ColumnsOf(rows_), {}), alias)
  BY <1>5, <1>6, RelationOfRows
<1> QED BY <1>2, <1>7

\* Whatever a source is, it is a relation of its alias.
LEMMA SourceIsSound ==
  ASSUME Len(nodes) \in Nat, NEW f, FrameIsSound(f), NEW source, NEW first,
         source.kind = "cte" => source.name \in DOMAIN f.ctes,
         source.kind = "derived" => f.result # {}
  PROVE  OfOneAlias(SourceRelation(f, source, first), AliasOf(source))
<1>0. "cte" # "derived"
  OBVIOUS
<1>1. CASE source.kind = "cte"
  <2>1. SourceRelation(f, source, first) = CteRelation(f.ctes[source.name], source.name, AliasOf(source))
    BY <1>1, Zenon DEF SourceRelation
  <2>2. OfOneAlias(f.ctes[source.name], source.name)
    BY <1>1 DEF FrameIsSound
  <2> QED BY <2>1, <2>2, RenamedIsSound
<1>2. CASE source.kind = "derived"
  <2> DEFINE r == CHOOSE x \in f.result : TRUE
  <2>1. SourceRelation(f, source, first) = relation_from_query_result(r, AliasOf(source), result_key)
    BY <1>0, <1>2, Zenon DEF SourceRelation
  <2>2. r \in f.result
    BY <1>2
  <2> HIDE DEF r
  <2>3. IsSequence(r.rows)
    BY <2>2 DEF FrameIsSound
  <2> QED BY <2>1, <2>3, ResultAsSource
<1>3. CASE source.kind \notin {"cte", "derived"}
  <2>1. SourceRelation(f, source, first) = relation_from_document(f.query, f.outer, AliasOf(source), first)
    BY <1>3, Zenon DEF SourceRelation
  <2> QED BY <2>1, DocumentAsSource
<1> QED BY <1>1, <1>2, <1>3
----------------------------------------------------------------------------
(* A frame stays sound. *)

\* What a frame's soundness depends on.
LEMMA SoundAsBefore ==
  ASSUME NEW f, FrameIsSound(f), NEW g,
         g.query = f.query, g.k = f.k, g.step = f.step, g.current = f.current, g.next = f.next, g.ctes = f.ctes,
         g.left = f.left, \A r \in g.result : IsSequence(r.rows)
  PROVE  FrameIsSound(g)
<1>1. g.step = "join" => Sound(g.next) /\ NextSchema(g)
  BY DEF FrameIsSound, NextSchema
<1> HIDE DEF Sound, OfOneAlias, IsSequence
<1> QED BY <1>1 DEF FrameIsSound

LEMMA NoRowsAreSound == \A columns, key : Sound(Relation(<<>>, columns, key))
<1> TAKE columns, key
<1>1. Relation(<<>>, columns, key).rows = <<>> /\ DOMAIN <<>> = {} /\ <<>> \in Seq({})
  BY DEF Relation
<1>2. IsSequence(<<>>)
  BY <1>1, SequenceOf
<1> QED BY <1>1, <1>2, RelationParts DEF Sound, Covers

LEMMA NewFrameIsSound ==
  ASSUME NEW q \in Statements \cup Subqueries, NEW ctes, NEW outer,
         \A a \in DOMAIN ctes : OfOneAlias(ctes[a], a)
  PROVE  FrameIsSound(NewFrame(q, ctes, outer))
<1> DEFINE f == NewFrame(q, ctes, outer)
<1>1. /\ f.query = q /\ f.ctes = ctes /\ f.k = 1 /\ f.left = 1 /\ f.step = "with" /\ f.result = {}
      /\ f.current = Relation(<<>>, <<>>, {})
  BY DEF NewFrame
<1> HIDE DEF f
<1> QED BY <1>1, NoRowsAreSound DEF FrameIsSound, f

\* A frame that goes on to its next join.
LEMMA EntersSound ==
  ASSUME NEW f, FrameIsSound(f), DOMAIN f = FrameFields, NEW rel, Sound(rel)
  PROVE  FrameIsSound(EntersJoin(f, rel))
<1> DEFINE g == EntersJoin(f, rel)
<1>1. /\ g.query = f.query /\ g.ctes = f.ctes /\ g.k \in {f.k + 1, 1} /\ g.left = 1 /\ g.result = {}
      /\ g.current = rel /\ g.next = Relation(<<>>, rel.alias_columns, rel.cache_key)
  BY DEF EntersJoin, FrameFields
<1> HIDE DEF g
<1>2. g.k \in Nat \ {0} /\ f.query \in Statements \cup Subqueries
  BY <1>1 DEF FrameIsSound
<1>3. Sound(g.next)
  BY <1>1, NoRowsAreSound
<1>4. g.next.rows = <<>> /\ g.next.alias_columns = rel.alias_columns
  BY <1>1 DEF Relation
<1>5. NextSchema(g)
  BY <1>1, <1>4 DEF NextSchema, MadeFrom
<1>6. \A a \in DOMAIN f.ctes : OfOneAlias(f.ctes[a], a)
  BY DEF FrameIsSound
<1> QED BY <1>1, <1>2, <1>3, <1>5, <1>6 DEF FrameIsSound, g
----------------------------------------------------------------------------
(* Every step keeps the schemas. *)

LEMMA ReplacedSound ==
  ASSUME IndexInv, SchemaInv, Running, NEW f, Replace(f), FrameIsSound(f), UNCHANGED indexes
  PROVE  SchemaInv'
<1>1. \A g \in ToSet(frames') : FrameIsSound(g)
  BY ReplacedFrames DEF SchemaInv
<1> QED BY <1>1 DEF SchemaInv

LEMMA SameFramesSound == ASSUME SchemaInv, UNCHANGED <<frames, indexes>> PROVE SchemaInv'
BY DEF SchemaInv

LEMMA TopIsSound ==
  ASSUME IndexInv, SchemaInv, Running
  PROVE  FrameIsSound(Top) /\ DOMAIN Top = FrameFields
BY TopIs DEF SchemaInv

LEMMA CallIsSound ==
  ASSUME IndexInv, SchemaInv, Running, Len(nodes) \in Nat, NEW q \in Subqueries, NEW outer, Call(q, outer)
  PROVE  SchemaInv'
<1>1. UNCHANGED indexes
  BY DEF Call
<1>2. CASE frames' = Append(frames, NewFrame(q, Top.ctes, outer))
  <2> DEFINE f == NewFrame(q, Top.ctes, outer)
  <2>1. FrameIsSound(f)
    <3>1. \A a \in DOMAIN Top.ctes : OfOneAlias(Top.ctes[a], a)
      BY TopIsSound DEF FrameIsSound
    <3> QED BY <3>1, NewFrameIsSound
  <2> HIDE DEF f
  <2>2. frames \in Seq(ToSet(frames) \cup {f})
    BY TopIs
  <2>3. frames' \in Seq(ToSet(frames) \cup {f})
    BY <1>2, <2>2 DEF f
  <2>4. \A g \in ToSet(frames') : g \in ToSet(frames) \cup {f}
    BY <2>3, SequenceOf
  <2>5. \A g \in ToSet(frames') : FrameIsSound(g)
    BY <2>1, <2>4 DEF SchemaInv
  <2> QED BY <1>1, <2>5 DEF SchemaInv
<1>3. CASE Replace([Top EXCEPT !.result = {LegacyResult(q)}])
  <2> DEFINE f == [Top EXCEPT !.result = {LegacyResult(q)}]
  <2>1. /\ f.query = Top.query /\ f.k = Top.k /\ f.step = Top.step /\ f.current = Top.current /\ f.next = Top.next
        /\ f.ctes = Top.ctes /\ f.left = Top.left /\ f.result = {LegacyResult(q)}
    BY TopIsSound DEF FrameFields
  <2>2. IsSequence(LegacyResult(q).rows)
    BY LegacyIsRows
  <2>3. \A r \in f.result : IsSequence(r.rows)
    BY <2>1, <2>2
  <2>4. Replace(f)
    BY <1>3
  <2> HIDE DEF f
  <2>5. FrameIsSound(f)
    BY <2>1, <2>3, SoundAsBefore, TopIsSound
  <2> QED BY <1>1, <2>4, <2>5, ReplacedSound
<1> QED BY <1>2, <1>3 DEF Call

\* The statements that a frame's statement has in it.
LEMMA Parts ==
  ASSUME IndexInv, SchemaInv, Running
  PROVE  /\ InWith => Top.query.with[Top.k].query \in Subqueries
         /\ Top.query.source.kind = "derived" => Top.query.source.query # {}
         /\ Top.query.source.query \subseteq Subqueries
         /\ InJoin => /\ TheJoin.source.kind = "derived" => TheJoin.source.query # {}
                      /\ TheJoin.source.query \subseteq Subqueries
                      /\ Top.k \in DOMAIN Top.query.joins
<1> DEFINE q == Top.query
<1>1. q \in Statements \cup Subqueries /\ Top.k \in Nat \ {0}
  BY TopIsSound DEF FrameIsSound
<1> HIDE DEF q
<1>2. q.with \in Seq(ToSet(q.with)) /\ q.joins \in Seq(ToSet(q.joins))
  BY <1>1, StatementsAssumption
<1>3. \A k \in DOMAIN q.with : q.with[k].query \in Subqueries
  BY <1>1, StatementsAssumption
<1>4. \A s \in SourcesOf(q) : s.query \subseteq Subqueries /\ (s.kind = "derived" => s.query # {})
  BY <1>1, StatementsAssumption
<1>5. q.source \in SourcesOf(q) /\ \A k \in DOMAIN q.joins : q.joins[k].source \in SourcesOf(q)
  BY DEF SourcesOf
<1>6. InWith => Top.k \in DOMAIN q.with
  BY <1>1, <1>2 DEF InWith, q
<1>7. InJoin => Top.k \in DOMAIN q.joins /\ TheJoin = q.joins[Top.k]
  BY <1>1, <1>2 DEF InJoin, TheJoin, q
<1> QED BY <1>3, <1>4, <1>5, <1>6, <1>7 DEF q

LEMMA PendingIs ==
  ASSUME Pending.source.kind # "none"
  PROVE  \/ AfterWith /\ Pending.source = Top.query.source
         \/ InJoin /\ Pending.source = TheJoin.source
<1>0. ~(AfterWith /\ InJoin)
  <2>1. "with" # "join"
    OBVIOUS
  <2> QED BY <2>1, Zenon DEF AfterWith, InJoin
<1>1. CASE AfterWith
  <2>1. Pending = [source |-> Top.query.source, outer |-> Top.outer]
    BY <1>0, <1>1, Zenon DEF Pending
  <2> QED BY <1>1, <2>1
<1>2. CASE InJoin /\ ~TheJoin.lateral
  <2>1. Pending = [source |-> TheJoin.source, outer |-> {}]
    BY <1>0, <1>2, Zenon DEF Pending
  <2> QED BY <1>2, <2>1
<1>3. CASE InJoin /\ TheJoin.lateral /\ Top.left <= Len(Top.current.rows)
  <2>1. Pending = [source |-> TheJoin.source, outer |-> {Top.current.rows[Top.left]}]
    BY <1>0, <1>3, Zenon DEF Pending
  <2> QED BY <1>3, <2>1
<1>4. CASE ~AfterWith /\ ~(InJoin /\ ~TheJoin.lateral)
           /\ ~(InJoin /\ TheJoin.lateral /\ Top.left <= Len(Top.current.rows))
  <2>1. Pending = [source |-> [kind |-> "none"], outer |-> {}]
    BY <1>4, Zenon DEF Pending
  <2>2. Pending.source.kind = "none"
    BY <2>1
  <2> QED BY <2>2
<1> QED BY <1>1, <1>2, <1>3, <1>4

LEMMA EvaluateSound ==
  ASSUME IndexInv, SchemaInv, Running, Len(nodes) \in Nat, EvaluateCte \/ EvaluateDerived
  PROVE  SchemaInv'
<1>1. CASE EvaluateCte
  <2>1. Call(Top.query.with[Top.k].query, {}) /\ InWith
    BY <1>1 DEF EvaluateCte
  <2> QED BY <2>1, Parts, CallIsSound
<1>2. CASE EvaluateDerived
  <2> DEFINE source == Pending.source
             q == CHOOSE x \in source.query : TRUE
  <2>1. source.kind = "derived" /\ Call(q, Pending.outer)
    BY <1>2 DEF EvaluateDerived
  <2>2. source.kind # "none"
    BY <2>1
  <2> HIDE DEF source
  <2>3. source.query # {} /\ source.query \subseteq Subqueries
    BY <2>1, <2>2, Parts, PendingIs DEF source
  <2>4. q \in Subqueries
    BY <2>3
  <2> HIDE DEF q
  <2> QED BY <2>1, <2>4, CallIsSound
<1> QED BY <1>1, <1>2

LEMMA DefineCteSound == ASSUME IndexInv, SchemaInv, Running, DefineCte PROVE SchemaInv'
<1> DEFINE name == Top.query.with[Top.k].name
           r == CHOOSE x \in Top.result : TRUE
           rel == relation_from_query_result(r, name, cte_key(name, next_relation_cache_id))
           f == [Top EXCEPT !.ctes = [a \in DOMAIN @ \cup {name} |-> IF a = name THEN rel ELSE @[a]],
                            !.k = @ + 1, !.result = {}]
<1>1. Replace(f) /\ UNCHANGED indexes /\ Top.result # {} /\ InWith
  BY DEF DefineCte, Progress
<1>2. IsSequence(r.rows)
  <2>1. r \in Top.result
    BY <1>1
  <2> HIDE DEF r
  <2> QED BY <2>1, TopIsSound DEF FrameIsSound
<1> HIDE DEF r
<1>3. OfOneAlias(rel, name)
  BY <1>2, ResultAsSource
<1> HIDE DEF rel, name
<1>4. /\ f.query = Top.query /\ f.k = Top.k + 1 /\ f.step = Top.step /\ f.current = Top.current
      /\ f.left = Top.left /\ f.result = {}
      /\ f.ctes = [a \in DOMAIN Top.ctes \cup {name} |-> IF a = name THEN rel ELSE Top.ctes[a]]
  BY TopIsSound DEF FrameFields
<1> HIDE DEF f
<1>5. f.step # "join"
  BY <1>1, <1>4 DEF InWith
<1>6. \A a \in DOMAIN f.ctes : OfOneAlias(f.ctes[a], a)
  <2>1. \A a \in DOMAIN Top.ctes : OfOneAlias(Top.ctes[a], a)
    BY TopIsSound DEF FrameIsSound
  <2> TAKE a \in DOMAIN f.ctes
  <2>2. CASE a = name
    BY <1>3, <1>4, <2>2
  <2>3. CASE a # name
    <3>1. a \in DOMAIN Top.ctes /\ f.ctes[a] = Top.ctes[a]
      BY <1>4, <2>3
    <3> QED BY <2>1, <3>1
  <2> QED BY <2>2, <2>3
<1>7. f.query \in Statements \cup Subqueries /\ f.k \in Nat \ {0} /\ f.left \in Nat \ {0} /\ Sound(f.current)
  <2>1. Top.query \in Statements \cup Subqueries /\ Top.k \in Nat \ {0} /\ Top.left \in Nat \ {0} /\ Sound(Top.current)
    BY TopIsSound DEF FrameIsSound
  <2> QED BY <1>4, <2>1
<1>8. FrameIsSound(f)
  BY <1>4, <1>5, <1>6, <1>7 DEF FrameIsSound
<1> QED BY <1>1, <1>8, ReplacedSound

\* The source that is about to be read is a relation of its alias.
LEMMA ReadySource ==
  ASSUME IndexInv, SchemaInv, Running, Len(nodes) \in Nat, Ready, ~UnknownCte, NEW first
  PROVE  OfOneAlias(SourceRelation(Top, Pending.source, first), AliasOf(Pending.source))
<1>1. /\ Pending.source.kind = "cte" => Pending.source.name \in DOMAIN Top.ctes
      /\ Pending.source.kind = "derived" => Top.result # {}
  BY DEF Ready, UnknownCte
<1> QED BY <1>1, SourceIsSound, TopIsSound

LEMMA OpenSourceSound ==
  ASSUME IndexInv, SchemaInv, Running, Len(nodes) \in Nat, OpenSource
  PROVE  SchemaInv'
<1>1. CASE \E what : Fail(what)
  BY <1>1, SameFramesSound DEF Fail
<1>2. CASE ~ \E what : Fail(what)
  <2> DEFINE bad == /\ Top.query.source.kind = "document"
                    /\ \E c \in SourceEqualities(Top.query) : EqualTo(c, Top.query, Top.outer) = Unbound
             rel == SourceRelation(Top, Top.query.source, TRUE)
             f == EntersJoin(Top, UnderOuter(rel, Top.outer))
  <2>1. AfterWith /\ Ready
    BY DEF OpenSource
  <2>2. Opened(rel) /\ ~UnknownCte
    <3>1. ~bad
      <4>0. "document" # "cte"
        OBVIOUS
      <4>1. ASSUME bad PROVE ~UnknownCte
        <5>1. Pending.source = Top.query.source
          <6>1. Pending.source.kind # "none" /\ ~InJoin
            BY <2>1 DEF Ready, AfterWith, InJoin
          <6> QED BY <6>1, PendingIs
        <5> QED BY <4>0, <4>1, <5>1 DEF UnknownCte
      <4>2. ASSUME bad PROVE Fail("unknown identifier")
        BY <4>1, <4>2, Zenon DEF OpenSource
      <4> QED BY <1>2, <4>2
    <3>2. ~UnknownCte
      <4>1. ASSUME UnknownCte PROVE Fail("unknown cte")
        BY <3>1, <4>1, Zenon DEF OpenSource
      <4> QED BY <1>2, <4>1
    <3> HIDE DEF bad, rel
    <3>3. \E r \in {rel} : Opened(r)
      BY <3>1, <3>2, Zenon DEF OpenSource, bad, rel
    <3> QED BY <3>2, <3>3
  <2>3. Pending.source = Top.query.source
    <3>1. Pending.source.kind # "none" /\ ~InJoin
      BY <2>1 DEF Ready, AfterWith, InJoin
    <3> QED BY <3>1, PendingIs
  <2>4. Sound(rel)
    BY <2>1, <2>2, <2>3, ReadySource DEF OfOneAlias
  <2> HIDE DEF rel
  <2>5. Replace(f) /\ UNCHANGED indexes
    BY <1>2, <2>2 DEF Opened, Progress
  <2>6. FrameIsSound(f)
    BY <2>4, OuterIsSound, TopIsSound, EntersSound
  <2> HIDE DEF f
  <2> QED BY <2>5, <2>6, ReplacedSound
<1> QED BY <1>1, <1>2

LEMMA RightIsSound ==
  ASSUME IndexInv, SchemaInv, Running, Len(nodes) \in Nat, InJoin, Ready, ~UnknownCte
  PROVE  OfOneAlias(RightRelation, AliasOf(TheJoin.source))
<1>1. Pending.source.kind # "none" /\ ~AfterWith
  BY DEF Ready, AfterWith, InJoin
<1>2. Pending.source = TheJoin.source
  BY <1>1, PendingIs
<1>3. RightRelation = SourceRelation(Top, TheJoin.source, FALSE)
  BY DEF RightRelation
<1> QED BY <1>2, <1>3, ReadySource

LEMMA LateralEndsSound == ASSUME IndexInv, SchemaInv, Running, LateralEnds PROVE SchemaInv'
<1>1. Replace(EntersJoin(Top, Top.next)) /\ UNCHANGED indexes /\ Top.step = "join"
  BY DEF LateralEnds, Progress, InJoin
<1>2. Sound(Top.next)
  BY <1>1, TopIsSound DEF FrameIsSound
<1>3. FrameIsSound(EntersJoin(Top, Top.next))
  BY <1>2, TopIsSound, EntersSound
<1> QED BY <1>1, <1>3, ReplacedSound

LEMMA WhereSound == ASSUME IndexInv, SchemaInv, Running, Where PROVE SchemaInv'
<1>1. CASE \E what : Fail(what)
  BY <1>1, SameFramesSound DEF Fail
<1>2. CASE ~ \E what : Fail(what)
  <2> DEFINE s == Top.current.rows
             P == {k \in DOMAIN s : Holds(Top.query, s[k]) \subseteq {"true"}}
             rel == [Top.current EXCEPT !.rows = Those(s, P)]
             f == [Top EXCEPT !.step = "order", !.current = rel]
  <2>1. Replace([Top EXCEPT !.step = "order",
                   !.current.rows = Those(@, {k \in DOMAIN @ : Holds(Top.query, @[k]) \subseteq {"true"}})])
        /\ UNCHANGED indexes
    BY <1>2 DEF Where, Progress
  <2>2. Replace(f)
    BY <2>1, TopIsSound DEF FrameFields
  <2>3. IsSequence(s) /\ Covers(Top.current) /\ HasParts(Top.current)
    BY TopIsSound DEF FrameIsSound, Sound
  <2>4. P \in SUBSET (DOMAIN s)
    OBVIOUS
  <2> HIDE DEF P
  <2>5. IsSequence(Those(s, P)) /\ \A k \in DOMAIN Those(s, P) : \E j \in P : Those(s, P)[k] = s[j]
    BY <2>3, <2>4, ThoseAre
  <2>6. rel.rows = Those(s, P) /\ rel.alias_columns = Top.current.alias_columns /\ HasParts(rel)
    BY <2>3 DEF HasParts, Relation
  <2> HIDE DEF rel
  <2>7. Sound(rel)
    <3>1. ASSUME NEW k \in DOMAIN rel.rows PROVE RowOf(rel.rows[k], rel.alias_columns)
      <4>1. PICK j \in DOMAIN s : rel.rows[k] = s[j]
        BY <2>4, <2>5, <2>6
      <4> QED BY <2>3, <2>6, <4>1 DEF Covers
    <3> QED BY <2>5, <2>6, <3>1 DEF Sound, Covers
  <2>8. /\ f.query = Top.query /\ f.k = Top.k /\ f.step = "order" /\ f.current = rel
        /\ f.left = Top.left /\ f.result = Top.result /\ f.ctes = Top.ctes
    BY TopIsSound DEF FrameFields
  <2> HIDE DEF f
  <2>9. FrameIsSound(f)
    BY <2>7, <2>8, TopIsSound DEF FrameIsSound
  <2> QED BY <2>1, <2>2, <2>9, ReplacedSound
<1> QED BY <1>1, <1>2

\* The rows that a row of the left side makes are of the schema, and make it the
\* schema of both sides once there is one.
MergedWith(row, right) == [k \in DOMAIN right.rows |-> merge_row_aliases(row, right.rows[k])]

LEMMA MoreRowsAreSound ==
  ASSUME NEW left, NEW next, Sound(next), NEW b, MadeFrom(next, left, b),
         NEW right, OfOneAlias(right, b), NEW row, RowOf(row, left), NEW key
  PROVE  LET cols == MergeColumns(next.alias_columns, right.alias_columns)
             rel == Relation(next.rows \o MergedWith(row, right), cols, key)
         IN  Sound(rel) /\ MadeFrom(rel, left, b)
<1> DEFINE made == MergedWith(row, right)
           cols == MergeColumns(next.alias_columns, right.alias_columns)
           A == next.rows
           L == left
           S == ToSet(A) \cup ToSet(made)
<1>0. /\ made = [k \in DOMAIN right.rows |-> merge_row_aliases(row, right.rows[k])]
      /\ DOMAIN next.alias_columns = DOMAIN left \cup {a \in {b} : next.rows # <<>>}
      /\ \A a \in DOMAIN left : left[a] \subseteq next.alias_columns[a]
  BY DEF MergedWith, MadeFrom
<1> HIDE DEF made
<1>1. /\ IsSequence(A) /\ Covers(next) /\ IsSequence(right.rows) /\ Covers(right)
      /\ DOMAIN right.alias_columns = {b : k \in DOMAIN right.rows}
  BY DEF Sound, OfOneAlias
<1>2. /\ A \in Seq(ToSet(A)) /\ Len(A) \in Nat /\ (A = <<>> <=> Len(A) = 0)
      /\ DOMAIN A = 1 .. Len(A)
  BY <1>1, SequenceIs
<1>3. DOMAIN right.rows = 1 .. Len(right.rows) /\ Len(right.rows) \in Nat
  BY <1>1, SequenceIs
<1>4. IsSequence(made) /\ Len(made) = Len(right.rows) /\ DOMAIN made = 1 .. Len(right.rows)
  <2>1. made = [k \in 1 .. Len(right.rows) |-> made[k]]
    BY <1>0, <1>3
  <2> QED BY <1>3, <2>1, OfPlaces
<1>5. made \in Seq(ToSet(made)) /\ \A x \in ToSet(made) : \E k \in DOMAIN made : x = made[k]
  BY <1>4, SequenceIs
<1>6. A \in Seq(S) /\ made \in Seq(S)
  BY <1>2, <1>5, WiderSeq
<1> HIDE DEF S
<1>7. A \o made \in Seq(S) /\ (A \o made = <<>> <=> A = <<>> /\ DOMAIN right.rows = {})
  <2>1. A \o made \in Seq(S) /\ Len(A \o made) = Len(A) + Len(made)
    BY <1>6
  <2>2. A \o made = <<>> <=> Len(A \o made) = 0
    BY <2>1
  <2>3. Len(made) = 0 <=> DOMAIN right.rows = {}
    BY <1>3, <1>4
  <2>4. Len(A \o made) = 0 <=> Len(A) = 0 /\ Len(made) = 0
    <3>1. Len(A) \in Nat /\ Len(made) \in Nat /\ Len(A \o made) = Len(A) + Len(made)
      BY <1>2, <1>3, <1>4, <2>1
    <3>2. \A x, y \in Nat : x + y = 0 <=> x = 0 /\ y = 0
      OBVIOUS
    <3> HIDE DEF A
    <3> QED BY <3>1, <3>2
  <2> QED BY <1>2, <2>1, <2>2, <2>3, <2>4
<1> DEFINE all == A \o made
<1> HIDE DEF all
<1>8. DOMAIN cols = DOMAIN next.alias_columns \cup DOMAIN right.alias_columns
  BY MergedParts
<1>9. DOMAIN cols = DOMAIN L \cup {a \in {b} : all # <<>>}
  BY <1>0, <1>1, <1>7, <1>8 DEF all
<1>10. \A a \in DOMAIN L : L[a] \subseteq cols[a]
  <2>1. \A a \in DOMAIN next.alias_columns : next.alias_columns[a] \subseteq cols[a]
    BY MergedParts
  <2> QED BY <1>0, <2>1
<1>11. ASSUME NEW x \in S PROVE RowOf(x, cols)
  <2>1. CASE x \in ToSet(A)
    <3>1. PICK k \in DOMAIN A : x = A[k]
      BY <1>1, <2>1, SequenceIs
    <3>2. RowOf(x, next.alias_columns)
      BY <1>1, <3>1 DEF Covers
    <3>3. A # <<>>
      BY <1>2, <3>1
    <3>4. DOMAIN cols = DOMAIN next.alias_columns
      BY <1>0, <1>1, <1>8, <3>3
    <3>5. \A a \in DOMAIN next.alias_columns : next.alias_columns[a] \subseteq cols[a]
      BY MergedParts
    <3> QED BY <3>2, <3>4, <3>5, MoreColumns
  <2>2. CASE x \in ToSet(made)
    <3>1. PICK k \in DOMAIN made : x = made[k]
      BY <1>5, <2>2
    <3>2. k \in DOMAIN right.rows /\ x = merge_row_aliases(row, right.rows[k])
      BY <1>0, <1>3, <1>4, <3>1
    <3>3. RowOf(right.rows[k], right.alias_columns)
      BY <1>1, <3>2 DEF Covers
    <3> DEFINE both == MergeColumns(L, right.alias_columns)
    <3>4. RowOf(x, both)
      BY <3>2, <3>3, MergedRow
    <3>5. DOMAIN both = DOMAIN L \cup DOMAIN right.alias_columns
      BY MergedParts
    <3>6. DOMAIN cols = DOMAIN both
      BY <1>0, <1>1, <1>8, <3>2, <3>5
    <3>7. \A a \in DOMAIN both : both[a] \subseteq cols[a]
      <4> TAKE a \in DOMAIN both
      <4>1. both[a] = (IF a \in DOMAIN L THEN L[a] ELSE {})
                        \cup (IF a \in DOMAIN right.alias_columns THEN right.alias_columns[a] ELSE {})
        BY <3>5 DEF MergeColumns
      <4>2. \A c \in DOMAIN right.alias_columns : right.alias_columns[c] \subseteq cols[c]
        BY MergedParts
      <4> HIDE DEF both
      <4> QED BY <1>10, <4>1, <4>2
    <3> HIDE DEF both
    <3> QED BY <3>4, <3>6, <3>7, MoreColumns
  <2> QED BY <2>1, <2>2 DEF S
<1>12. Sound(Relation(all, cols, key))
  <2>1. IsSequence(all) /\ \A x \in ToSet(all) : x \in S
    BY <1>7, SequenceOf DEF all
  <2>2. \A k \in DOMAIN all : all[k] \in S
    BY <2>1 DEF ToSet
  <2>3. Relation(all, cols, key).rows = all /\ Relation(all, cols, key).alias_columns = cols
    BY DEF Relation
  <2> QED BY <1>11, <2>1, <2>2, <2>3, RelationParts DEF Sound, Covers
<1>13. MadeFrom(Relation(all, cols, key), left, b)
  BY <1>9, <1>10 DEF MadeFrom, Relation
<1> QED BY <1>12, <1>13 DEF all, made

LEMMA LateralRowSound ==
  ASSUME IndexInv, SchemaInv, Running, Len(nodes) \in Nat, LateralRow
  PROVE  SchemaInv'
<1>1. CASE \E what : Fail(what)
  BY <1>1, SameFramesSound DEF Fail
<1>2. CASE ~ \E what : Fail(what)
  <2> DEFINE row == Top.current.rows[Top.left]
             right == RightRelation
             next == Top.next
             b == AliasOf(TheJoin.source)
             left == Top.current.alias_columns
             rel == Relation(next.rows \o MergedWith(row, right),
                             MergeColumns(next.alias_columns, right.alias_columns), next.cache_key)
             f == [Top EXCEPT !.left = @ + 1, !.result = {}, !.next = rel]
  <2>1. InJoin /\ TheJoin.lateral /\ Ready /\ ~UnknownCte /\ LateralWith(row, right)
    BY <1>2 DEF LateralRow
  <2>2. Replace(f) /\ UNCHANGED indexes
    BY <1>2, <2>1, TopIsSound DEF LateralWith, Progress, FrameFields, MergedWith
  <2>3. Top.left \in 1 .. Len(Top.current.rows)
    <3>1. ~AfterWith
      BY <2>1 DEF AfterWith, InJoin
    <3>2. CASE ~(Top.left <= Len(Top.current.rows))
      <4>1. Pending = [source |-> [kind |-> "none"], outer |-> {}]
        BY <2>1, <3>1, <3>2, Zenon DEF Pending
      <4>2. Pending.source.kind = "none"
        BY <4>1
      <4> QED BY <2>1, <4>2 DEF Ready
    <3>3. Top.left \in Nat \ {0} /\ Len(Top.current.rows) \in Nat
      BY TopIsSound, SequenceIs DEF FrameIsSound, Sound
    <3> QED BY <3>2, <3>3
  <2>4. RowOf(row, left)
    <3>1. Sound(Top.current)
      BY TopIsSound DEF FrameIsSound
    <3>2. Top.left \in DOMAIN Top.current.rows
      BY <2>3, <3>1, SequenceIs DEF Sound
    <3> QED BY <3>1, <3>2 DEF Sound, Covers
  <2>5. Top.step = "join" /\ Sound(next) /\ NextSchema(Top)
    BY <2>1, TopIsSound DEF FrameIsSound, InJoin
  <2>6. Top.k \in DOMAIN Top.query.joins /\ b = AliasOf(Top.query.joins[Top.k].source)
    BY <2>1, Parts DEF TheJoin
  <2>7. MadeFrom(next, left, b)
    BY <2>5, <2>6 DEF NextSchema
  <2>8. OfOneAlias(right, b)
    BY <2>1, RightIsSound
  <2> HIDE DEF row, right, b, left, next
  <2>9. Sound(rel) /\ MadeFrom(rel, left, b)
    BY <2>4, <2>5, <2>7, <2>8, MoreRowsAreSound
  <2> HIDE DEF rel
  <2>11. /\ f.query = Top.query /\ f.k = Top.k /\ f.step = Top.step /\ f.current = Top.current
         /\ f.left = Top.left + 1 /\ f.result = {} /\ f.ctes = Top.ctes /\ f.next = rel
    BY TopIsSound DEF FrameFields
  <2> HIDE DEF f
  <2>12. NextSchema(f)
    BY <2>6, <2>9, <2>11 DEF NextSchema, left
  <2>13. FrameIsSound(f)
    BY <2>9, <2>11, <2>12, TopIsSound DEF FrameIsSound
  <2> QED BY <2>2, <2>13, ReplacedSound
<1> QED BY <1>1, <1>2

LEMMA AnswersSound ==
  ASSUME IndexInv, SchemaInv, Running, NEW result, IsSequence(result.rows), Answers(result)
  PROVE  SchemaInv'
<1>1. UNCHANGED indexes
  BY DEF Answers
<1>2. CASE Len(frames) = 1
  <2>1. frames' = <<>> /\ DOMAIN <<>> = {}
    BY <1>2 DEF Answers
  <2>2. ToSet(frames') = {}
    BY <2>1 DEF ToSet
  <2> QED BY <1>1, <2>2 DEF SchemaInv
<1>3. CASE Len(frames) # 1
  <2> DEFINE S == ToSet(frames)
             T == S \cup {[f EXCEPT !.result = {result}] : f \in S}
  <2>1. frames' \in Seq(T)
    BY <1>3, AnsweredFrames
  <2>2. ASSUME NEW f \in S PROVE FrameIsSound([f EXCEPT !.result = {result}])
    <3> DEFINE g == [f EXCEPT !.result = {result}]
    <3>1. DOMAIN f = FrameFields /\ FrameIsSound(f)
      BY TopIs DEF SchemaInv
    <3>2. /\ g.query = f.query /\ g.k = f.k /\ g.step = f.step /\ g.current = f.current /\ g.next = f.next
          /\ g.ctes = f.ctes /\ g.left = f.left /\ g.result = {result}
      BY <3>1 DEF FrameFields
    <3>3. \A r \in g.result : IsSequence(r.rows)
      BY <3>2
    <3> HIDE DEF g
    <3>4. FrameIsSound(g)
      BY <3>1, <3>2, <3>3, SoundAsBefore
    <3> QED BY <3>4 DEF g
  <2>3. \A f \in T : FrameIsSound(f)
    BY <2>2 DEF SchemaInv
  <2> HIDE DEF T
  <2>4. \A f \in ToSet(frames') : FrameIsSound(f)
    BY <2>1, <2>3, SequenceOf
  <2> QED BY <1>1, <2>4 DEF SchemaInv
<1> QED BY <1>2, <1>3

LEMMA FinishSound == ASSUME IndexInv, SchemaInv, Running, Finish PROVE SchemaInv'
<1>1. CASE \E what : Fail(what)
  BY <1>1, SameFramesSound DEF Fail
<1>2. CASE ~ \E what : Fail(what)
  <2> DEFINE q == Top.query
             rel(arranged) == [Top.current EXCEPT !.rows = Truncated(q, arranged)]
  <2>1. PICK arranged \in Arrangements(Top.current.rows, q) :
          Answers(query_result_from_relation(q, rel(arranged)))
    BY <1>2 DEF Finish
  <2>2. Sound(Top.current) /\ q \in Statements \cup Subqueries
    BY TopIsSound DEF FrameIsSound
  <2> DEFINE s == Truncated(q, arranged)
             result == query_result_from_relation(q, rel(arranged))
  <2>3. IsSequence(arranged)
    BY <2>2, ArrangedIs DEF Sound
  <2>4. IsSequence(s)
    <3> HIDE DEF q
    <3> QED BY <2>2, <2>3, ShortenedIs
  <2>5. rel(arranged).rows = s
    BY <2>2 DEF Sound, HasParts, Relation
  <2> HIDE DEF rel, s, q
  <2>6. IsSequence(result.rows)
    BY <2>4, <2>5, ResultIsRows
  <2> HIDE DEF result
  <2> QED BY <2>1, <2>6, AnswersSound DEF result
<1> QED BY <1>1, <1>2

\* A join's rows have the columns of both sides, and the index it keeps has the places
\* of its right side's rows.
LEMMA JoinSound ==
  ASSUME IndexInv, SchemaInv, Running, Len(nodes) \in Nat, Join
  PROVE  SchemaInv'
<1>1. CASE \E what : Fail(what)
  BY <1>1, SameFramesSound DEF Fail
<1>2. CASE ~ \E what : Fail(what)
  <2> DEFINE join == TheJoin
             right == RightRelation
             left == Top.current
             alias == Top.query.source.alias
             rows_ == JoinRows(StrategyOf(join, left, right, indexes), join, left, right, alias)
             rel == Relation(rows_, MergeColumns(left.alias_columns, right.alias_columns), left.cache_key)
  <2>1. Replace(EntersJoin(Top, rel))
    BY <1>2, JoinMakes DEF JoinWith, Progress
  <2>2. Sound(left)
    BY TopIsSound DEF FrameIsSound
  <2>3. Sound(right)
    BY <1>2, JoinMakes, RightIsSound DEF OfOneAlias
  <2>4. \A s \in DOMAIN indexes : DOMAIN indexes[s] \subseteq Nat \ {0}
    BY DEF SchemaInv
  <2>5. \A s \in DOMAIN indexes' : DOMAIN indexes'[s] \subseteq Nat \ {0}
    <3> TAKE s \in DOMAIN indexes'
    <3>1. CASE s \in DOMAIN indexes /\ indexes'[s] = indexes[s]
      BY <2>4, <3>1
    <3>2. CASE indexes'[s] = BuildIndex(right, s[2])
      <4>1. DOMAIN BuildIndex(right, s[2]) = DOMAIN right.rows
        BY DEF BuildIndex
      <4>2. DOMAIN right.rows = 1 .. Len(right.rows) /\ Len(right.rows) \in Nat
        BY <2>3, SequenceIs DEF Sound
      <4> QED BY <3>2, <4>1, <4>2
    <3> QED BY <1>2, <3>1, <3>2, JoinMakes
  <2> HIDE DEF join, right, left, alias
  <2>6. Sound(rel)
    BY <2>2, <2>3, <2>4, JoinIsSound
  <2> HIDE DEF rel
  <2>7. FrameIsSound(EntersJoin(Top, rel))
    BY <2>6, TopIsSound, EntersSound
  <2>8. \A g \in ToSet(frames') : FrameIsSound(g)
    BY <2>1, <2>7, ReplacedFrames DEF SchemaInv
  <2> QED BY <2>5, <2>8 DEF SchemaInv
<1> QED BY <1>1, <1>2

LEMMA FrameStepSound == ASSUME IndexInv, SchemaInv, Len(nodes) \in Nat, FrameStep PROVE SchemaInv'
<1>1. Running
  BY DEF FrameStep
<1> QED BY <1>1, EvaluateSound, DefineCteSound, OpenSourceSound, JoinSound, LateralRowSound,
           LateralEndsSound, WhereSound, FinishSound DEF FrameStep

LEMMA StartSound == ASSUME SchemaInv, NEW q \in Statements, Start(q) PROVE SchemaInv'
<1> DEFINE f == NewFrame(q, <<>>, {})
<1>1. frames' = <<f>> /\ UNCHANGED indexes
  BY DEF Start
<1>2. DOMAIN <<>> = {}
  OBVIOUS
<1>3. FrameIsSound(f)
  BY <1>2, NewFrameIsSound
<1> HIDE DEF f
<1>4. frames' \in Seq({f})
  BY <1>1
<1>5. \A g \in ToSet(frames') : g \in {f}
  BY <1>4, SequenceOf
<1> QED BY <1>1, <1>3, <1>5 DEF SchemaInv

LEMMA InitSchemaInv == RelInit => SchemaInv
<1> SUFFICES ASSUME RelInit PROVE SchemaInv
  OBVIOUS
<1>0. DOMAIN <<>> = {}
  OBVIOUS
<1>1. frames = <<>> /\ indexes = <<>>
  BY DEF RelInit
<1>2. ToSet(frames) = {} /\ DOMAIN indexes = {}
  BY <1>0, <1>1 DEF ToSet
<1> QED BY <1>2 DEF SchemaInv

\* The table of nodes is the document's while a statement runs.
LEMMA RelDocInv == RelSpec => []DocInv
<1>1. RelInit => DocInv
  BY InitDocInv DEF RelInit, Init
<1>2. DocInv /\ [RelNext]_relVars => DocInv'
  <2> SUFFICES ASSUME DocInv, [RelNext]_relVars PROVE DocInv'
    OBVIOUS
  <2>1. CASE DocNext
    BY <2>1, DocNextKeeps
  <2>2. CASE UNCHANGED relVars
    BY <2>2, DocNextKeeps DEF relVars
  <2>3. CASE /\ (\E q \in Statements : Start(q)) \/ FrameStep
             /\ UNCHANGED <<html, i, nodes, stack, doc_order, max_depth, walk>>
    BY <2>3, TableUntouched
  <2> QED BY <2>1, <2>2, <2>3 DEF RelNext
<1> QED BY <1>1, <1>2, PTL DEF RelSpec

\* The invariant of schemas and rows, for every statement over every document: with
\* that of the indexes, and the table's, which say what its steps start from.
THEOREM SchemaInvariance == RelSpec => []SchemaInv
<1>1. RelInit => SchemaInv
  BY InitSchemaInv
<1>2. DocInv /\ IndexInv /\ SchemaInv /\ [RelNext]_relVars => SchemaInv'
  <2> SUFFICES ASSUME DocInv, IndexInv, SchemaInv, [RelNext]_relVars PROVE SchemaInv'
    OBVIOUS
  <2>1. Len(nodes) \in Nat
    BY ParsedTable DEF Table
  <2>2. CASE FrameStep
    BY <2>1, <2>2, FrameStepSound
  <2>3. CASE \E q \in Statements : Start(q)
    BY <2>3, StartSound
  <2>4. CASE UNCHANGED runtime
    BY <2>4, SameFramesSound DEF runtime
  <2> QED BY <2>2, <2>3, <2>4 DEF RelNext, relVars
<1> QED BY <1>1, <1>2, RelDocInv, IndexInvariance, PTL DEF RelSpec

\* The rows that joins, LATERAL joins, CTEs, derived tables and outer rows make have
\* no alias and no column but those of the schema that the next join is planned from,
\* and that a LEFT JOIN pads from (execute_relation_join.cpp).
THEOREM SchemasCover == RelSpec => []SchemaCoversRows
<1>1. SchemaInv => SchemaCoversRows
  BY DEF SchemaInv, FrameIsSound, Sound, SchemaCoversRows
<1> QED BY <1>1, SchemaInvariance, PTL
----------------------------------------------------------------------------
(* Sequences that are not empty, one after the other: where each begins. *)

Begins(firsts, n, joined, parts) ==
  /\ firsts \in SUBSET (1 .. Len(joined)) /\ IsFiniteSet(firsts) /\ Cardinality(firsts) = n
  /\ \A j \in 1 .. Len(joined) :
       LET from == Cardinality({f \in firsts : f <= j})
       IN  from \in 1 .. n /\ \E k \in DOMAIN parts[from] : joined[j] = parts[from][k]

LEMMA OneMoreBegins ==
  ASSUME NEW S, NEW n \in Nat, NEW joined \in Seq(S), NEW parts, NEW firsts, Begins(firsts, n, joined, parts),
         NEW more \in Seq(S), more # <<>>, more = parts[n + 1]
  PROVE  Begins(firsts \cup {Len(joined) + 1}, n + 1, joined \o more, parts)
<1> DEFINE l == Len(joined)
           longer == joined \o more
           G == firsts \cup {l + 1}
<1>1. l \in Nat /\ Len(longer) = l + Len(more) /\ Len(more) \in Nat /\ Len(more) > 0
      /\ DOMAIN more = 1 .. Len(more)
  OBVIOUS
<1>2. \A j \in 1 .. l : longer[j] = joined[j]
  OBVIOUS
<1>3. \A j \in 1 .. Len(more) : longer[l + j] = more[j]
  OBVIOUS
<1>4. firsts \subseteq 1 .. l /\ IsFiniteSet(firsts) /\ Cardinality(firsts) = n
  BY DEF Begins
<1> HIDE DEF longer, l
<1>5. l + 1 \notin firsts
  BY <1>1, <1>4
<1>6. IsFiniteSet(G) /\ Cardinality(G) = n + 1
  BY <1>4, <1>5, FS_AddElement
<1>7. G \in SUBSET (1 .. Len(longer))
  <2>1. \A f \in firsts : f \in 1 .. Len(longer)
    BY <1>1, <1>4
  <2>2. l + 1 \in 1 .. Len(longer)
    BY <1>1
  <2> QED BY <2>1, <2>2
<1>8. ASSUME NEW j \in 1 .. Len(longer), j <= l
      PROVE  LET from == Cardinality({f \in G : f <= j})
             IN  from \in 1 .. n + 1 /\ \E k \in DOMAIN parts[from] : longer[j] = parts[from][k]
  <2>1. {f \in G : f <= j} = {f \in firsts : f <= j}
    BY <1>1, <1>8
  <2>2. j \in 1 .. l /\ longer[j] = joined[j]
    BY <1>1, <1>2, <1>8
  <2> DEFINE from == Cardinality({f \in firsts : f <= j})
  <2>3. from \in 1 .. n /\ \E k \in DOMAIN parts[from] : joined[j] = parts[from][k]
    BY <2>2 DEF Begins, l
  <2>4. from \in 1 .. n + 1
    BY <2>3
  <2> HIDE DEF from, G
  <2>5. Cardinality({f \in G : f <= j}) = from
    BY <2>1 DEF from
  <2> QED BY <2>2, <2>3, <2>4, <2>5
<1>9. ASSUME NEW j \in 1 .. Len(longer), ~(j <= l)
      PROVE  LET from == Cardinality({f \in G : f <= j})
             IN  from \in 1 .. n + 1 /\ \E k \in DOMAIN parts[from] : longer[j] = parts[from][k]
  <2>0. \A f \in G : f <= j
    <3>1. j \in Nat /\ l + 1 <= j
      BY <1>1, <1>9
    <3>2. \A f \in firsts : f <= j
      BY <1>1, <1>4, <3>1
    <3> QED BY <3>1, <3>2
  <2>1. {f \in G : f <= j} = G
    <3> HIDE DEF G
    <3> QED BY <2>0
  <2>2. j - l \in 1 .. Len(more) /\ l + (j - l) = j
    BY <1>1, <1>9
  <2>3. longer[j] = more[j - l] /\ j - l \in DOMAIN more
    BY <1>1, <1>3, <2>2
  <2>4. n + 1 \in 1 .. n + 1
    OBVIOUS
  <2> HIDE DEF G
  <2>5. Cardinality({f \in G : f <= j}) = n + 1
    BY <1>6, <2>1
  <2> QED BY <2>3, <2>4, <2>5
<1> HIDE DEF G
<1>10. Begins(G, n + 1, longer, parts)
  BY <1>6, <1>7, <1>8, <1>9 DEF Begins
<1> QED BY <1>10 DEF G, longer, l

LEMMA WhereTheyBegin ==
  ASSUME NEW S, NEW parts \in Seq(Seq(S)), \A k \in 1 .. Len(parts) : parts[k] # <<>>
  PROVE  FlattenSeq(parts) \in Seq(S) /\ \E firsts : Begins(firsts, Len(parts), FlattenSeq(parts), parts)
<1> DEFINE N == Len(parts)
<1>1. N \in Nat /\ \A k \in 1 .. N : parts[k] \in Seq(S)
  OBVIOUS
<1>2. PICK flat \in [0 .. N -> Seq(S)] : /\ flat[0] = <<>> /\ \A k \in 1 .. N : flat[k] = flat[k - 1] \o parts[k]
                                         /\ FlattenSeq(parts) = flat[N]
  BY Flattened
<1> DEFINE G == {n \in 0 .. N : \E firsts : Begins(firsts, n, flat[n], parts)}
<1>3. 0 \in G
  <2>1. Len(flat[0]) = 0
    BY <1>2
  <2>2. IsFiniteSet({}) /\ Cardinality({}) = 0
    BY FS_EmptySet
  <2>3. Begins({}, 0, flat[0], parts)
    BY <2>1, <2>2 DEF Begins
  <2> QED BY <1>1, <2>3
<1>4. ASSUME NEW n \in 0 .. N - 1, n \in G PROVE n + 1 \in G
  <2>1. PICK firsts : Begins(firsts, n, flat[n], parts)
    BY <1>4
  <2>2. n \in Nat /\ n + 1 \in 1 .. N /\ (n + 1) - 1 = n /\ n \in 0 .. N /\ n + 1 \in 0 .. N
    BY <1>1
  <2>3. flat[n + 1] = flat[n] \o parts[n + 1] /\ flat[n] \in Seq(S)
    BY <1>2, <2>2
  <2>4. parts[n + 1] \in Seq(S) /\ parts[n + 1] # <<>>
    BY <1>1, <2>2
  <2>5. Begins(firsts \cup {Len(flat[n]) + 1}, n + 1, flat[n + 1], parts)
    <3> DEFINE joined == flat[n]
               more == parts[n + 1]
    <3>1. Begins(firsts, n, joined, parts) /\ joined \in Seq(S) /\ more \in Seq(S) /\ more # <<>> /\ n \in Nat
      BY <2>1, <2>2, <2>3, <2>4
    <3>2. more = parts[n + 1]
      OBVIOUS
    <3> HIDE DEF joined, more
    <3>3. Begins(firsts \cup {Len(joined) + 1}, n + 1, joined \o more, parts)
      BY <3>1, <3>2, OneMoreBegins
    <3> QED BY <2>3, <3>3 DEF joined, more
  <2> QED BY <2>2, <2>5
<1> HIDE DEF N
<1>5. 0 .. N \subseteq G
  BY <1>1, <1>3, <1>4, InductionUpTo
<1>6. N \in 0 .. N
  BY <1>1
<1> QED BY <1>2, <1>5, <1>6 DEF N
----------------------------------------------------------------------------
(* What a LEFT JOIN makes of the rows of its left side. *)

LEMMA HashIs ==
  ASSUME NEW join, NEW left_rel, NEW right_rel, NEW kept,
         StrategyOf(join, left_rel, right_rel, kept).strategy = "hash_equi"
  PROVE  \E p \in plan_simple_hash_join(join, left_rel, right_rel) :
            StrategyOf(join, left_rel, right_rel, kept).plan = p
<1> DEFINE hash == {[strategy |-> "hash_equi", plan |-> p, signature |-> {}] :
                      p \in plan_simple_hash_join(join, left_rel, right_rel)}
           lookup == {LookupWith(p, relation_index_signature(right_rel, p), right_rel, kept) :
                        p \in plan_index_lookup_join(join, left_rel, right_rel)}
           loop == {[strategy |-> "nested_loop", signature |-> {}]}
           chosen == StrategyOf(join, left_rel, right_rel, kept)
<1>1. chosen = CHOOSE t \in IF hash # {} THEN hash ELSE IF lookup # {} THEN lookup ELSE loop : TRUE
  BY DEF StrategyOf
<1>2. \A t \in lookup \cup loop : t.strategy # "hash_equi"
  <2>1. "indexed_lookup_nested" # "hash_equi" /\ "nested_loop" # "hash_equi"
    OBVIOUS
  <2>2. \A t \in lookup : t.strategy = "indexed_lookup_nested"
    <3>1. \A p, signature : LookupWith(p, signature, right_rel, kept).strategy = "indexed_lookup_nested"
      BY DEF LookupWith
    <3> QED BY <3>1
  <2>3. \A t \in loop : t.strategy = "nested_loop"
    OBVIOUS
  <2> HIDE DEF lookup, loop
  <2> QED BY <2>1, <2>2, <2>3
<1>3. \A t \in hash : \E p \in plan_simple_hash_join(join, left_rel, right_rel) : t.plan = p
  OBVIOUS
<1>4. chosen.strategy = "hash_equi"
  OBVIOUS
<1>5. chosen \in hash
  <2> HIDE DEF hash, lookup, loop, chosen
  <2>1. \A S : S # {} => (CHOOSE t \in S : TRUE) \in S
    OBVIOUS
  <2>2. loop # {}
    BY DEF loop
  <2>3. chosen \in hash \cup lookup \cup loop
    BY <1>1, <2>1, <2>2
  <2> QED BY <1>2, <1>4, <2>3
<1> QED BY <1>3, <1>5

LEMMA KeyOfOneSide ==
  ASSUME NEW c, NEW left_rel, NEW right_rel, NEW p \in KeyPairs(c, left_rel, right_rel)
  PROVE  OnlyIn(p[2], right_rel, left_rel)
BY DEF KeyPairs

LEMMA TermOfOneSide ==
  ASSUME NEW c, NEW left_rel, NEW right_rel, lookup_term_from_compare(c, left_rel, right_rel) # {}
  PROVE  \E key : OnlyIn(key, right_rel, left_rel)
<1>1. CASE KeyPairs(c, left_rel, right_rel) # {}
  <2>1. PICK p : p \in KeyPairs(c, left_rel, right_rel)
    BY <1>1
  <2> QED BY <2>1, KeyOfOneSide
<1>2. ASSUME NEW key, NEW literal, LiteralTerms(key, literal, left_rel, right_rel) # {}
      PROVE  \E k : OnlyIn(k, right_rel, left_rel)
  BY <1>2 DEF LiteralTerms
<1>3. CASE /\ KeyPairs(c, left_rel, right_rel) = {}
           /\ \A key, literal : LiteralTerms(key, literal, left_rel, right_rel) = {}
  <2>1. lookup_term_from_compare(c, left_rel, right_rel) = {}
    BY <1>3 DEF lookup_term_from_compare
  <2> QED BY <2>1
<1> QED BY <1>1, <1>2, <1>3

LEMMA PlanOfOneSide ==
  ASSUME NEW join, NEW left_rel, NEW right_rel, NEW p \in plan_index_lookup_join(join, left_rel, right_rel)
  PROVE  \E key : OnlyIn(key, right_rel, left_rel)
<1> DEFINE terms(on) == [k \in DOMAIN Conjuncts[on] |->
                           lookup_term_from_compare(Conjuncts[on][k], left_rel, right_rel)]
<1>1. PICK on : p \in LookupPlan(terms(on))
  BY DEF plan_index_lookup_join
<1> DEFINE ts == terms(on)
<1>2. PICK k \in DOMAIN ts : ts[k] # {}
  <2> HIDE DEF ts
  <2>1. p \in LookupPlan(ts)
    BY <1>1 DEF ts
  <2> QED BY <2>1 DEF LookupPlan
<1>3. ts[k] = lookup_term_from_compare(Conjuncts[on][k], left_rel, right_rel)
  OBVIOUS
<1> QED BY <1>2, <1>3, TermOfOneSide

\* Sides that share an alias have no row to pad: a plan has a key of only the right
\* one, and the loop fails at their first pair.
LEMMA NoSharedAlias ==
  ASSUME NEW join, NEW left_rel, Sound(left_rel), NEW right_rel, NEW a, OfOneAlias(right_rel, a), NEW kept,
         NEW alias, JoinFailures(StrategyOf(join, left_rel, right_rel, kept), join, left_rel, right_rel, alias) = {},
         NEW j \in DOMAIN left_rel.rows
  PROVE  DOMAIN left_rel.alias_columns \cap DOMAIN right_rel.alias_columns = {}
<1> DEFINE s == StrategyOf(join, left_rel, right_rel, kept)
<1>1. DOMAIN right_rel.alias_columns \subseteq {a}
  BY DEF OfOneAlias
<1>2. ASSUME NEW key, OnlyIn(key, right_rel, left_rel)
      PROVE  DOMAIN left_rel.alias_columns \cap DOMAIN right_rel.alias_columns = {}
  BY <1>1, <1>2 DEF OnlyIn
<1>3. CASE s.strategy = "hash_equi"
  <2>1. PICK p \in plan_simple_hash_join(join, left_rel, right_rel) : TRUE
    BY <1>3, HashIs
  <2>2. PICK c : p \in KeyPairs(c, left_rel, right_rel)
    BY DEF plan_simple_hash_join
  <2> QED BY <1>2, <2>2, KeyOfOneSide
<1>4. CASE s.strategy = "indexed_lookup_nested"
  <2>1. PICK p \in plan_index_lookup_join(join, left_rel, right_rel) : TRUE
    BY <1>4, StrategyIs
  <2> QED BY <1>2, <2>1, PlanOfOneSide
<1>5. CASE s.strategy = "nested_loop" /\ DOMAIN right_rel.rows # {}
  <2>1. PICK k \in DOMAIN right_rel.rows : TRUE
    BY <1>5
  <2>2. Candidates(s, left_rel.rows[j], right_rel) = DOMAIN right_rel.rows
    <3>0. "hash_equi" # "nested_loop" /\ "indexed_lookup_nested" # "nested_loop"
      OBVIOUS
    <3> HIDE DEF s
    <3> QED BY <1>5, <3>0, Zenon DEF Candidates
  <2>3. TryPair(s, join, left_rel.rows[j], right_rel, k, alias) \in {"true", "false"}
    <3> DEFINE x == TryPair(s, join, left_rel.rows[j], right_rel, k, alias)
               tried(n) == {TryPair(s, join, left_rel.rows[n], right_rel, m, alias) :
                              m \in Candidates(s, left_rel.rows[n], right_rel)}
    <3>1. x \in tried(j)
      BY <2>1, <2>2
    <3>2. (UNION {tried(n) : n \in DOMAIN left_rel.rows}) \ {"true", "false"} = {}
      BY DEF JoinFailures
    <3> HIDE DEF tried, x
    <3>3. x \in {"true", "false"}
      BY <3>1, <3>2
    <3> QED BY <3>3 DEF x
  <2>4. k <= Len(right_rel.rows) /\ ~(k > Len(right_rel.rows))
    BY SequenceIs DEF OfOneAlias, Sound
  <2>5. ~DuplicateAlias(left_rel.rows[j], right_rel.rows[k])
    <3> SUFFICES ASSUME DuplicateAlias(left_rel.rows[j], right_rel.rows[k]) PROVE FALSE
      OBVIOUS
    <3> HIDE DEF s
    <3>1. TryPair(s, join, left_rel.rows[j], right_rel, k, alias) = "duplicate alias"
      BY <2>4, Zenon DEF TryPair
    <3> QED BY <2>3, <3>1 DEF s
  <2>6. RowOf(left_rel.rows[j], left_rel.alias_columns) /\ RowOf(right_rel.rows[k], right_rel.alias_columns)
    BY DEF OfOneAlias, Sound, Covers
  <2> QED BY <2>5, <2>6 DEF DuplicateAlias, RowOf
<1>6. CASE DOMAIN right_rel.rows = {}
  BY <1>6 DEF OfOneAlias
<1>7. s.strategy \in {"hash_equi", "nested_loop", "indexed_lookup_nested"}
  BY StrategyIs
<1> HIDE DEF s
<1> QED BY <1>3, <1>4, <1>5, <1>6, <1>7

\* The rows of one left row: there is one, and each has the left row in it.
LEMMA LeftRowStays ==
  ASSUME NEW join, join.type = "left", NEW row, NEW f, RowOf(row, f), NEW right_rel,
         DOMAIN f \cap DOMAIN right_rel.alias_columns = {},
         NEW n, NEW matches \in Seq(n)
  PROVE  LET joined == JoinedRows(join, row, right_rel, matches)
         IN  /\ IsSequence(joined) /\ joined # <<>>
             /\ \A k \in DOMAIN joined : Part(joined[k], DOMAIN f) = Part(row, DOMAIN f)
<1> DEFINE merged == [k \in DOMAIN matches |-> merge_row_aliases(row, right_rel.rows[matches[k]])]
           padded == build_left_join_padded_row(row, right_rel)
           pad == IF matches = <<>> THEN <<padded>> ELSE <<>>
           joined == JoinedRows(join, row, right_rel, matches)
           G == {merged[k] : k \in DOMAIN matches} \cup {padded}
<1>1. Len(matches) \in Nat /\ DOMAIN matches = 1 .. Len(matches)
  OBVIOUS
<1>2. \A k \in DOMAIN matches : Part(merged[k], DOMAIN f) = Part(row, DOMAIN f)
  <2> TAKE k \in DOMAIN matches
  <2>1. \A a \in DOMAIN f : merged[k][a] = row[a]
    BY DEF merge_row_aliases, RowOf
  <2> HIDE DEF merged
  <2> QED BY <2>1 DEF Part
<1>3. Part(padded, DOMAIN f) = Part(row, DOMAIN f)
  <2>1. \A a \in DOMAIN f : padded[a] = row[a]
    BY DEF build_left_join_padded_row, RowOf
  <2> HIDE DEF padded
  <2> QED BY <2>1 DEF Part
<1>4. \A r \in G : Part(r, DOMAIN f) = Part(row, DOMAIN f)
  <2> HIDE DEF merged, padded
  <2> QED BY <1>2, <1>3
<1>5. merged \in Seq(G) /\ Len(merged) = Len(matches)
  <2>1. merged = [k \in 1 .. Len(matches) |-> merged[k]] /\ \A k \in 1 .. Len(matches) : merged[k] \in G
    BY <1>1
  <2> HIDE DEF merged, G
  <2>2. /\ [k \in 1 .. Len(matches) |-> merged[k]] \in Seq(G)
        /\ Len([k \in 1 .. Len(matches) |-> merged[k]]) = Len(matches)
    BY <1>1, <2>1, ValuesAreASeq
  <2> QED BY <2>1, <2>2
<1>6. joined = merged \o pad
  BY DEF JoinedRows
<1>7. pad \in Seq(G) /\ Len(pad) = IF matches = <<>> THEN 1 ELSE 0
  <2>1. padded \in G
    OBVIOUS
  <2> HIDE DEF G, padded
  <2> QED BY <2>1
<1>8. matches = <<>> <=> Len(matches) = 0
  OBVIOUS
<1> HIDE DEF merged, pad, G, joined
<1>9. joined \in Seq(G) /\ Len(joined) # 0
  BY <1>1, <1>5, <1>6, <1>7, <1>8
<1>10. IsSequence(joined) /\ joined # <<>> /\ \A k \in DOMAIN joined : joined[k] \in G
  BY <1>9, SequenceOf
<1>11. \A k \in DOMAIN joined : Part(joined[k], DOMAIN f) = Part(row, DOMAIN f)
  BY <1>4, <1>10
<1> QED BY <1>10, <1>11 DEF joined

\* A left join of any strategy, whose rows all have the row that they are of.
LEMMA LeftRowsStay ==
  ASSUME NEW join, join.type = "left", NEW left_rel, Sound(left_rel),
         NEW right_rel, NEW a, OfOneAlias(right_rel, a), NEW kept,
         \A s \in DOMAIN kept : DOMAIN kept[s] \subseteq Nat \ {0}, NEW alias,
         JoinFailures(StrategyOf(join, left_rel, right_rel, kept), join, left_rel, right_rel, alias) = {}
  PROVE  KeepsInOrder(JoinRows(StrategyOf(join, left_rel, right_rel, kept), join, left_rel, right_rel, alias),
                      left_rel.rows, DOMAIN left_rel.alias_columns)
<1> DEFINE s == StrategyOf(join, left_rel, right_rel, kept)
           aliases == DOMAIN left_rel.alias_columns
           matches(k) == MatchesOf(s, join, left_rel.rows[k], right_rel, alias)
           parts == [k \in DOMAIN left_rel.rows |-> JoinedRows(join, left_rel.rows[k], right_rel, matches(k))]
           n == Len(left_rel.rows)
           G == UNION {ToSet(parts[k]) : k \in 1 .. n}
           joined == JoinRows(s, join, left_rel, right_rel, alias)
<1>1. n \in Nat /\ DOMAIN left_rel.rows = 1 .. n
  BY SequenceIs DEF Sound
<1>2. joined = FlattenSeq(parts)
  BY DEF JoinRows
<1>3. ASSUME NEW k \in 1 .. n
      PROVE  /\ IsSequence(parts[k]) /\ parts[k] # <<>>
             /\ \A j \in DOMAIN parts[k] : Part(parts[k][j], aliases) = Part(left_rel.rows[k], aliases)
  <2>1. RowOf(left_rel.rows[k], left_rel.alias_columns)
    BY <1>1 DEF Sound, Covers
  <2>2. matches(k) \in Seq(DOMAIN right_rel.rows)
    BY MatchesAre DEF OfOneAlias, Sound
  <2>3. DOMAIN left_rel.alias_columns \cap DOMAIN right_rel.alias_columns = {}
    BY <1>1, NoSharedAlias
  <2> DEFINE m == matches(k)
             f == left_rel.alias_columns
             row == left_rel.rows[k]
             N == DOMAIN right_rel.rows
  <2>4. parts[k] = JoinedRows(join, row, right_rel, m)
    BY <1>1
  <2>5. m \in Seq(N) /\ RowOf(row, f) /\ DOMAIN f \cap DOMAIN right_rel.alias_columns = {}
    BY <2>1, <2>2, <2>3
  <2> HIDE DEF m, parts, f, row, N
  <2>6. /\ IsSequence(parts[k]) /\ parts[k] # <<>>
        /\ \A j \in DOMAIN parts[k] : Part(parts[k][j], DOMAIN f) = Part(row, DOMAIN f)
    BY <2>4, <2>5, LeftRowStays
  <2> QED BY <2>6 DEF f, row
<1>4. parts = [k \in 1 .. n |-> parts[k]]
  BY <1>1
<1> HIDE DEF parts, n, joined
<1>5. \A k \in 1 .. n : parts[k] \in Seq(G)
  <2> TAKE k \in 1 .. n
  <2> DEFINE p == parts[k]
  <2>1. p \in Seq(ToSet(p)) /\ \A x \in ToSet(p) : x \in G
    BY <1>3 DEF IsSequence
  <2> HIDE DEF G, p
  <2>2. p \in Seq(G)
    BY <2>1, WiderSeq
  <2> QED BY <2>2 DEF p
<1> HIDE DEF G
<1>6. [k \in 1 .. n |-> parts[k]] \in Seq(Seq(G)) /\ Len([k \in 1 .. n |-> parts[k]]) = n
  BY <1>1, <1>5, ValuesAreASeq
<1>7. parts \in Seq(Seq(G)) /\ Len(parts) = n /\ \A k \in 1 .. Len(parts) : parts[k] # <<>>
  BY <1>3, <1>4, <1>6
<1>8. PICK firsts : Begins(firsts, n, joined, parts) /\ joined \in Seq(G)
  BY <1>2, <1>7, WhereTheyBegin
<1>9. firsts \in kSubset(n, DOMAIN joined) /\ DOMAIN joined = 1 .. Len(joined)
  <2>1. DOMAIN joined = 1 .. Len(joined)
    BY <1>8
  <2> QED BY <1>8, <2>1 DEF Begins, kSubset
<1>10. ASSUME NEW j \in DOMAIN joined
       PROVE  LET from == Cardinality({f \in firsts : f <= j})
              IN  from \in DOMAIN left_rel.rows /\ Part(joined[j], aliases) = Part(left_rel.rows[from], aliases)
  <2> DEFINE from == Cardinality({f \in firsts : f <= j})
  <2>1. from \in 1 .. n /\ \E k \in DOMAIN parts[from] : joined[j] = parts[from][k]
    BY <1>8, <1>9 DEF Begins
  <2> HIDE DEF from, aliases
  <2>2. from \in DOMAIN left_rel.rows /\ Part(joined[j], aliases) = Part(left_rel.rows[from], aliases)
    BY <1>1, <1>3, <2>1
  <2> QED BY <2>2 DEF from
<1>11. KeepsInOrder(joined, left_rel.rows, aliases)
  BY <1>9, <1>10 DEF KeepsInOrder, n
<1> QED BY <1>11 DEF joined

\* Of the steps of a frame that is about to join, only the join goes on.
LEMMA OnlyJoinJoins ==
  ASSUME IndexInv, SchemaInv, AboutToJoin, FrameStep, phase' = "running"
  PROVE  Join /\ ~ \E what : Fail(what)
<1>1. InJoin /\ ~TheJoin.lateral /\ Ready /\ ~UnknownCte /\ Running
  BY DEF AboutToJoin
<1>2. ~ \E what : Fail(what)
  BY DEF Fail
<1>3. Top.step = "join" /\ "join" # "with" /\ "join" # "order" /\ Top.k <= Len(Top.query.joins)
  BY <1>1 DEF InJoin
<1>4. ~EvaluateCte /\ ~DefineCte /\ ~OpenSource /\ ~Finish /\ ~LateralRow /\ ~LateralEnds
  BY <1>1, <1>3 DEF EvaluateCte, DefineCte, InWith, OpenSource, AfterWith, Finish, LateralRow, LateralEnds
<1>5. ~EvaluateDerived
  BY <1>1 DEF Ready, EvaluateDerived
<1>6. ~Where
  <2>1. Top.k \in Nat /\ Top.query \in Statements \cup Subqueries
    BY <1>1, TopIsSound DEF FrameIsSound
  <2>2. Len(Top.query.joins) \in Nat
    BY <2>1, StatementsAssumption
  <2>3. ~(Top.k > Len(Top.query.joins))
    BY <1>3, <2>1, <2>2
  <2> QED BY <2>3 DEF Where
<1> QED BY <1>2, <1>4, <1>5, <1>6 DEF FrameStep

LEMMA JoinKeepsLeft ==
  ASSUME IndexInv, SchemaInv, Len(nodes) \in Nat, AboutToJoin, TheJoin.type = "left",
         Join, ~ \E what : Fail(what)
  PROVE  KeepsInOrder(frames'[Len(frames)].current.rows, Top.current.rows, DOMAIN Top.current.alias_columns)
<1> DEFINE join == TheJoin
           right == RightRelation
           left == Top.current
           alias == Top.query.source.alias
           strategy == StrategyOf(join, left, right, indexes)
           rows_ == JoinRows(strategy, join, left, right, alias)
           rel == Relation(rows_, MergeColumns(left.alias_columns, right.alias_columns), left.cache_key)
           f == EntersJoin(Top, rel)
<1>1. Running
  BY DEF AboutToJoin
<1>2. Replace(f) /\ JoinFailures(strategy, join, left, right, alias) = {}
  BY <1>1, JoinMakes DEF JoinWith, Progress
<1>3. Sound(left)
  BY <1>1, TopIsSound DEF FrameIsSound
<1>4. OfOneAlias(right, AliasOf(TheJoin.source))
  BY <1>1, JoinMakes, RightIsSound
<1>5. \A s \in DOMAIN indexes : DOMAIN indexes[s] \subseteq Nat \ {0}
  BY DEF SchemaInv
<1>6. join.type = "left"
  OBVIOUS
<1> HIDE DEF join, right, left, alias
<1>7. KeepsInOrder(rows_, left.rows, DOMAIN left.alias_columns)
  BY <1>2, <1>3, <1>4, <1>5, <1>6, LeftRowsStay
<1>8. f.current = rel /\ rel.rows = rows_
  <2> HIDE DEF rows_
  <2>1. rel.rows = rows_
    BY DEF Relation
  <2>2. DOMAIN Top = FrameFields
    BY <1>1, TopIs
  <2> HIDE DEF rel
  <2>3. f.current = rel
    BY <2>2 DEF EntersJoin, FrameFields
  <2> QED BY <2>1, <2>3
<1>9. frames'[Len(frames)] = f
  <2>1. frames \in Seq(ToSet(frames)) /\ frames # <<>>
    BY <1>1, TopIs
  <2>2. /\ Front(frames) \in Seq(ToSet(frames)) /\ Len(Front(frames)) = Len(frames) - 1
        /\ Len(frames) \in 1 .. Len(frames)
    BY <2>1, FrontOf
  <2> HIDE DEF f
  <2>3. Append(Front(frames), f)[Len(Front(frames)) + 1] = f
    BY <2>2
  <2>4. Len(Front(frames)) + 1 = Len(frames)
    BY <2>2
  <2> QED BY <1>2, <2>3, <2>4 DEF Replace
<1> HIDE DEF rows_, rel, f
<1> QED BY <1>7, <1>8, <1>9 DEF left

\* A left join, by hash, by index or by loop, after any steps of any statement over any
\* document, makes rows of each row of its left side, padded if nothing matches it, and
\* those of the first before those of the second (execute_relation_join_non_lateral).
THEOREM LeftJoinKeepsRows == RelSpec => LeftJoinKeeps
<1> DEFINE Step == AboutToJoin /\ TheJoin.type = "left" /\ phase' = "running" =>
                     KeepsInOrder(frames'[Len(frames)].current.rows, Top.current.rows,
                                  DOMAIN Top.current.alias_columns)
<1>1. DocInv /\ IndexInv /\ SchemaInv /\ [RelNext]_relVars => [Step]_relVars
  <2> SUFFICES ASSUME DocInv, IndexInv, SchemaInv, RelNext, AboutToJoin, TheJoin.type = "left", phase' = "running"
               PROVE  KeepsInOrder(frames'[Len(frames)].current.rows, Top.current.rows,
                                   DOMAIN Top.current.alias_columns)
    OBVIOUS
  <2>1. Len(nodes) \in Nat
    BY ParsedTable DEF Table
  <2>2. phase = "running"
    BY DEF AboutToJoin, Running
  <2>3. ~DocNext
    BY <2>2 DEF DocNext, ParseStep, MetadataStep, ParseEnds, NumberNode, OrderEnds, MeasureNode, DepthEnds
  <2>4. \A q : ~Start(q)
    BY <2>2 DEF Start
  <2>5. FrameStep
    BY <2>3, <2>4 DEF RelNext
  <2> QED BY <2>1, <2>5, OnlyJoinJoins, JoinKeepsLeft
<1>2. DocInv /\ IndexInv /\ SchemaInv /\ [RelNext]_relVars => [Step]_relVars
  BY <1>1
<1>3. RelSpec => [][Step]_relVars
  BY <1>2, RelDocInv, IndexInvariance, SchemaInvariance, PTL DEF RelSpec
<1> QED BY <1>3 DEF LeftJoinKeeps
----------------------------------------------------------------------------
(* What is defined by recursion on expressions is what its definition says. *)

LEMMA PartsAre ==
  ASSUME NEW e \in Exprs, e.kind \in {"and", "or"}
  PROVE  /\ e.left \in Exprs /\ e.right \in Exprs
         /\ Depth[e.left] < Depth[e] /\ Depth[e.right] < Depth[e]
<1>1. PartsOf(e) = {e.left, e.right}
  BY DEF PartsOf
<1> QED BY <1>1, ExprsAssumption

Deep == [e \in Exprs |-> Depth[e]]

LEMMA DeepIs ==
  /\ Deep \in [Exprs -> Nat]
  /\ \A e \in Exprs : e.kind \in {"and", "or"} =>
        /\ e.left \in Exprs /\ e.right \in Exprs
        /\ Deep[e.left] < Deep[e] /\ Deep[e.right] < Deep[e]
<1>1. \A e \in Exprs : Deep[e] = Depth[e]
  BY DEF Deep
<1>2. Deep \in [Exprs -> Nat]
  BY ExprsAssumption DEF Deep
<1> QED BY <1>1, <1>2, PartsAre

LEMMA ConjunctsAre ==
  \A e \in Exprs :
    /\ Conjuncts[e] \in Seq(Exprs)
    /\ Conjuncts[e] = IF e.kind = "compare" THEN <<e>>
                      ELSE IF e.kind = "and" THEN Conjuncts[e.left] \o Conjuncts[e.right] ELSE <<>>
<1> DEFINE V == Seq(Exprs)
           body(f, e) == IF e.kind = "compare" THEN <<e>>
                         ELSE IF e.kind = "and" THEN f[e.left] \o f[e.right] ELSE <<>>
           step == [e \in Exprs |-> [f \in [Exprs -> V] |-> body(f, e)]]
<1>1. OfLessDeep(step, Exprs, V, Deep)
  <2> SUFFICES ASSUME NEW e \in Exprs, NEW f \in [Exprs -> V]
               PROVE  /\ body(f, e) \in V
                      /\ \A g \in [Exprs -> V] :
                            (\A p \in Exprs : Deep[p] < Deep[e] => f[p] = g[p]) => body(f, e) = body(g, e)
    BY DEF OfLessDeep
  <2>1. e.kind = "and" => /\ e.left \in Exprs /\ e.right \in Exprs
                          /\ Deep[e.left] < Deep[e] /\ Deep[e.right] < Deep[e]
    BY DeepIs
  <2>2. e.kind = "and" => f[e.left] \in Seq(Exprs) /\ f[e.right] \in Seq(Exprs)
    BY <2>1
  <2>3. <<e>> \in Seq(Exprs) /\ <<>> \in Seq(Exprs)
        /\ (e.kind = "and" => f[e.left] \o f[e.right] \in Seq(Exprs))
    BY <2>2
  <2> HIDE DEF V
  <2>4. \A g \in [Exprs -> V] : (\A p \in Exprs : Deep[p] < Deep[e] => f[p] = g[p]) => body(f, e) = body(g, e)
    BY <2>1
  <2> QED BY <2>3, <2>4 DEF V
<1>2. \A e \in Exprs, f \in [Exprs -> V] : step[e][f] = body(f, e)
  OBVIOUS
<1>3. V # {}
  <2>1. <<>> \in V
    OBVIOUS
  <2> QED BY <2>1
<1> HIDE DEF step, V
<1>4. PICK h \in [Exprs -> V] : \A e \in Exprs : h[e] = step[e][h]
  BY <1>1, <1>3, DeepIs, RecursionOnDepth
<1>5. h = [e \in Exprs |-> h[e]] /\ \A e \in Exprs : h[e] = body(h, e)
  BY <1>2, <1>4
<1>7. Conjuncts = CHOOSE g : g = [e \in Exprs |-> body(g, e)]
  BY DEF Conjuncts
<1> HIDE DEF body
<1>6. h = [e \in Exprs |-> body(h, e)]
  BY <1>5
<1>8. Conjuncts = [e \in Exprs |-> body(Conjuncts, e)]
  BY <1>6, <1>7, Zenon
<1>9. \A e \in Exprs : Conjuncts[e] = body(Conjuncts, e)
  BY <1>8
<1> DEFINE G == {e \in Exprs : Conjuncts[e] \in Seq(Exprs)}
<1>10. ASSUME NEW e \in Exprs, \A p \in Exprs : Deep[p] < Deep[e] => p \in G PROVE e \in G
  <2>1. e.kind = "and" => e.left \in G /\ e.right \in G
    BY <1>10, DeepIs
  <2>2. <<e>> \in Seq(Exprs) /\ <<>> \in Seq(Exprs)
        /\ (e.kind = "and" => Conjuncts[e.left] \o Conjuncts[e.right] \in Seq(Exprs))
    BY <2>1
  <2> QED BY <1>9, <2>2 DEF body
<1> HIDE DEF G
<1>11. Exprs \subseteq G
  BY <1>10, DeepIs, DepthInduction
<1> QED BY <1>9, <1>11 DEF body, G
----------------------------------------------------------------------------
LEMMA OnlyAndsAre ==
  \A e \in Exprs :
    /\ OnlyAnds[e] \in BOOLEAN
    /\ OnlyAnds[e] <=> e.kind = "compare" \/ (e.kind = "and" /\ OnlyAnds[e.left] /\ OnlyAnds[e.right])
<1> DEFINE V == BOOLEAN
           body(f, e) == \/ e.kind = "compare"
                         \/ e.kind = "and" /\ f[e.left] /\ f[e.right]
           step == [e \in Exprs |-> [f \in [Exprs -> V] |-> body(f, e)]]
<1>1. OfLessDeep(step, Exprs, V, Deep)
  <2> SUFFICES ASSUME NEW e \in Exprs, NEW f \in [Exprs -> V]
               PROVE  /\ body(f, e) \in V
                      /\ \A g \in [Exprs -> V] :
                            (\A p \in Exprs : Deep[p] < Deep[e] => f[p] = g[p]) => body(f, e) = body(g, e)
    BY DEF OfLessDeep
  <2>1. e.kind = "and" => /\ e.left \in Exprs /\ e.right \in Exprs
                          /\ Deep[e.left] < Deep[e] /\ Deep[e.right] < Deep[e]
    BY DeepIs
  <2>2. ASSUME NEW g \in [Exprs -> V], \A p \in Exprs : Deep[p] < Deep[e] => f[p] = g[p]
        PROVE  body(f, e) = body(g, e)
    <3>1. CASE e.kind = "and"
      <4>1. f[e.left] = g[e.left] /\ f[e.right] = g[e.right]
        BY <2>1, <2>2, <3>1
      <4> QED BY <4>1, Zenon
    <3>2. CASE e.kind # "and"
      BY <3>2, Zenon
    <3> QED BY <3>1, <3>2
  <2> QED BY <2>2
<1>2. \A e \in Exprs, f \in [Exprs -> V] : step[e][f] = body(f, e)
  OBVIOUS
<1>3. V # {}
  OBVIOUS
<1> HIDE DEF step, V
<1>4. PICK h \in [Exprs -> V] : \A e \in Exprs : h[e] = step[e][h]
  BY <1>1, <1>3, DeepIs, RecursionOnDepth
<1>5. h = [e \in Exprs |-> h[e]] /\ \A e \in Exprs : h[e] = body(h, e)
  BY <1>2, <1>4
<1>7. OnlyAnds = CHOOSE g : g = [e \in Exprs |-> body(g, e)]
  BY DEF OnlyAnds
<1> HIDE DEF body
<1>6. h = [e \in Exprs |-> body(h, e)]
  BY <1>5
<1>8. OnlyAnds = [e \in Exprs |-> body(OnlyAnds, e)]
  BY <1>6, <1>7, Zenon
<1>9. \A e \in Exprs : OnlyAnds[e] = body(OnlyAnds, e)
  BY <1>8
<1>10. \A e \in Exprs : body(OnlyAnds, e) \in BOOLEAN
  BY DEF body
<1>11. \A e \in Exprs : OnlyAnds[e] \in BOOLEAN
  BY <1>9, <1>10, Zenon
<1> QED BY <1>9, <1>11, Zenon DEF body

Verdicts == {"true", "false", "unknown identifier"}

LEMMA TruthIs == \A b : Truth(b) \in {"true", "false"} /\ (Truth(b) = "true" <=> b)
BY DEF Truth

LEMMA OutcomeIs == \A op, lhs, rhs : Outcome(op, lhs, rhs) \in Verdicts
<1> SUFFICES ASSUME NEW op, NEW lhs, NEW rhs PROVE Outcome(op, lhs, rhs) \in Verdicts
  OBVIOUS
<1> HIDE DEF Truth
<1>1. \A b : Truth(b) \in Verdicts
  BY TruthIs DEF Verdicts
<1> QED BY <1>1 DEF Outcome, Verdicts

LEMMA EvalIs ==
  ASSUME NEW row, NEW alias
  PROVE  \A e \in Exprs :
           /\ EvalExpr(e, row, alias) \in Verdicts
           /\ EvalExpr(e, row, alias) =
                IF e.kind = "compare" THEN EvalCompare(e, row, alias)
                ELSE IF e.kind = "exists" THEN "false"
                ELSE Connected(e.kind, {EvalExpr(e.left, row, alias), EvalExpr(e.right, row, alias)})
<1> DEFINE body(f, e) == IF e.kind = "compare" THEN EvalCompare(e, row, alias)
                         ELSE IF e.kind = "exists" THEN "false"
                         ELSE Connected(e.kind, {f[e.left], f[e.right]})
           step == [e \in Exprs |-> [f \in [Exprs -> Verdicts] |-> body(f, e)]]
           eval == CHOOSE g : g = [e \in Exprs |-> body(g, e)]
<1>0. \A e, f : body(f, e) \in Verdicts
  <2>1. \A kind, sides : Connected(kind, sides) \in Verdicts
    BY TruthIs DEF Connected, Verdicts
  <2>2. \A e : EvalCompare(e, row, alias) \in Verdicts
    BY OutcomeIs DEF EvalCompare
  <2> QED BY <2>1, <2>2 DEF Verdicts
<1>1. OfLessDeep(step, Exprs, Verdicts, Deep)
  <2> SUFFICES ASSUME NEW e \in Exprs, NEW f \in [Exprs -> Verdicts]
               PROVE  /\ body(f, e) \in Verdicts
                      /\ \A g \in [Exprs -> Verdicts] :
                            (\A p \in Exprs : Deep[p] < Deep[e] => f[p] = g[p]) => body(f, e) = body(g, e)
    BY DEF OfLessDeep
  <2>1. e.kind \notin {"compare", "exists"} => e.kind \in {"and", "or"}
    BY ExprsAssumption
  <2>2. e.kind \in {"and", "or"} => /\ e.left \in Exprs /\ e.right \in Exprs
                                     /\ Deep[e.left] < Deep[e] /\ Deep[e.right] < Deep[e]
    BY DeepIs
  <2>3. ASSUME NEW g \in [Exprs -> Verdicts], \A p \in Exprs : Deep[p] < Deep[e] => f[p] = g[p]
        PROVE  body(f, e) = body(g, e)
    <3>1. CASE e.kind \in {"compare", "exists"}
      BY <3>1
    <3>2. CASE e.kind \in {"and", "or"}
      <4>1. f[e.left] = g[e.left] /\ f[e.right] = g[e.right]
        BY <2>2, <2>3, <3>2
      <4> QED BY <4>1
    <3> QED BY <2>1, <3>1, <3>2
  <2> HIDE DEF body
  <2> QED BY <1>0, <2>3
<1>2. \A e \in Exprs, f \in [Exprs -> Verdicts] : step[e][f] = body(f, e)
  OBVIOUS
<1>3. Verdicts # {}
  BY DEF Verdicts
<1> HIDE DEF step
<1>4. PICK h \in [Exprs -> Verdicts] : \A e \in Exprs : h[e] = step[e][h]
  BY <1>1, <1>3, DeepIs, RecursionOnDepth
<1>5. h = [e \in Exprs |-> h[e]] /\ \A e \in Exprs : h[e] = body(h, e)
  BY <1>2, <1>4
<1>7. \A e : EvalExpr(e, row, alias) = eval[e]
  BY DEF EvalExpr
<1> HIDE DEF body
<1>6. h = [e \in Exprs |-> body(h, e)]
  BY <1>5
<1>8. eval = [e \in Exprs |-> body(eval, e)]
  BY <1>6, Zenon
<1> HIDE DEF eval
<1>9. \A e \in Exprs : eval[e] = body(eval, e)
  BY <1>8
<1>10. \A e \in Exprs : EvalExpr(e, row, alias) = body(eval, e) /\ EvalExpr(e, row, alias) \in Verdicts
  BY <1>0, <1>7, <1>9
<1>11. \A e : eval[e.left] = EvalExpr(e.left, row, alias) /\ eval[e.right] = EvalExpr(e.right, row, alias)
  BY <1>7
<1> QED BY <1>10, <1>11, Zenon DEF body
----------------------------------------------------------------------------
LEMMA ToSetOfBoth ==
  ASSUME NEW S, NEW s \in Seq(S), NEW t \in Seq(S)
  PROVE  ToSet(s \o t) = ToSet(s) \cup ToSet(t)
<1>1. /\ DOMAIN s = 1 .. Len(s) /\ DOMAIN t = 1 .. Len(t) /\ DOMAIN (s \o t) = 1 .. Len(s) + Len(t)
      /\ Len(s) \in Nat /\ Len(t) \in Nat
  OBVIOUS
<1>2. \A k \in DOMAIN (s \o t) :
        (s \o t)[k] = IF k <= Len(s) THEN s[k] ELSE t[k - Len(s)]
  BY <1>1
<1>3. ASSUME NEW x \in ToSet(s \o t) PROVE x \in ToSet(s) \cup ToSet(t)
  <2>1. PICK k \in DOMAIN (s \o t) : x = (s \o t)[k]
    BY DEF ToSet
  <2>2. k <= Len(s) => k \in DOMAIN s
    BY <1>1
  <2>3. ~(k <= Len(s)) => k - Len(s) \in DOMAIN t
    BY <1>1
  <2>4. x = IF k <= Len(s) THEN s[k] ELSE t[k - Len(s)]
    BY <1>2, <2>1
  <2> QED BY <2>2, <2>3, <2>4 DEF ToSet
<1>4. ASSUME NEW k \in DOMAIN s PROVE s[k] \in ToSet(s \o t)
  <2>1. k \in DOMAIN (s \o t) /\ k <= Len(s)
    BY <1>1
  <2> QED BY <1>2, <2>1 DEF ToSet
<1>5. ASSUME NEW k \in DOMAIN t PROVE t[k] \in ToSet(s \o t)
  <2>1. k + Len(s) \in DOMAIN (s \o t) /\ ~(k + Len(s) <= Len(s)) /\ k + Len(s) - Len(s) = k
    BY <1>1
  <2>2. (s \o t)[k + Len(s)] = t[k]
    BY <1>2, <2>1
  <2> QED BY <2>1, <2>2 DEF ToSet
<1> QED BY <1>3, <1>4, <1>5 DEF ToSet

LEMMA ToSetOfOne == \A x : ToSet(<<x>>) = {x}
<1> SUFFICES ASSUME NEW x PROVE ToSet(<<x>>) = {x}
  OBVIOUS
<1>1. DOMAIN <<x>> = {1} /\ <<x>>[1] = x
  OBVIOUS
<1> QED BY <1>1 DEF ToSet

\* What an ON that only ANDs connect comes to, if it evaluates: each of its
\* comparisons evaluates, and it is true if they all are.
Evaluates(c, row, alias) == EvalCompare(c, row, alias) \in {"true", "false"}

LEMMA AndsMean ==
  ASSUME NEW row, NEW alias
  PROVE  \A e \in Exprs : OnlyAnds[e] =>
           /\ \A c \in ToSet(Conjuncts[e]) : c \in Exprs /\ c.kind = "compare"
           /\ EvalExpr(e, row, alias) # "unknown identifier" =>
                /\ \A c \in ToSet(Conjuncts[e]) : Evaluates(c, row, alias)
                /\ EvalExpr(e, row, alias) \in {"true", "false"}
                /\ EvalExpr(e, row, alias) = "true" <=>
                     \A c \in ToSet(Conjuncts[e]) : EvalCompare(c, row, alias) = "true"
<1> DEFINE Eval(e) == EvalExpr(e, row, alias)
           Compare(c) == EvalCompare(c, row, alias)
           parts(e) == ToSet(Conjuncts[e])
           G == {e \in Exprs : OnlyAnds[e] =>
                   /\ \A c \in parts(e) : c \in Exprs /\ c.kind = "compare"
                   /\ Eval(e) # "unknown identifier" =>
                        /\ \A c \in parts(e) : Compare(c) \in {"true", "false"}
                        /\ Eval(e) \in {"true", "false"}
                        /\ Eval(e) = "true" <=> \A c \in parts(e) : Compare(c) = "true"}
<1>1. \A e \in Exprs : Eval(e) \in Verdicts
  BY EvalIs
<1>2. ASSUME NEW e \in Exprs, \A p \in Exprs : Deep[p] < Deep[e] => p \in G PROVE e \in G
  <2>1. CASE e.kind = "compare"
    <3>1. Eval(e) = Compare(e)
      BY <2>1, EvalIs
    <3>2. parts(e) = {e}
      BY <2>1, ConjunctsAre, ToSetOfOne
    <3> HIDE DEF Eval, Compare, parts
    <3> QED BY <1>1, <2>1, <3>1, <3>2 DEF Verdicts
  <2>2. CASE e.kind = "and" /\ OnlyAnds[e.left] /\ OnlyAnds[e.right]
    <3>1. /\ e.left \in Exprs /\ e.right \in Exprs
          /\ e.left \in G /\ e.right \in G
      BY <1>2, <2>2, DeepIs
    <3>2. Conjuncts[e] = Conjuncts[e.left] \o Conjuncts[e.right]
      BY <2>2, ConjunctsAre
    <3>7. Conjuncts[e.left] \in Seq(Exprs) /\ Conjuncts[e.right] \in Seq(Exprs)
      BY <3>1, ConjunctsAre
    <3>3. parts(e) = parts(e.left) \cup parts(e.right)
      BY <3>2, <3>7, ToSetOfBoth
    <3>4. Eval(e) = Connected("and", {Eval(e.left), Eval(e.right)})
      BY <2>2, EvalIs
    <3> HIDE DEF Eval, Compare, parts
    <3>5. /\ Eval(e) # "unknown identifier" =>
               Eval(e.left) # "unknown identifier" /\ Eval(e.right) # "unknown identifier"
          /\ Eval(e) # "unknown identifier" =>
               /\ Eval(e) \in {"true", "false"}
               /\ Eval(e) = "true" <=> Eval(e.left) = "true" /\ Eval(e.right) = "true"
      <4> DEFINE x == Eval(e.left)
                 y == Eval(e.right)
      <4> HIDE DEF x, y
      <4>1. {x, y} = {"true"} <=> x = "true" /\ y = "true"
        OBVIOUS
      <4>2. LET z == Connected("and", {x, y})
            IN  z # "unknown identifier" => /\ x # "unknown identifier" /\ y # "unknown identifier"
                                           /\ z = Truth({x, y} = {"true"})
        BY DEF Connected
      <4> QED BY <3>4, <4>1, <4>2, TruthIs DEF x, y
    <3> QED BY <2>2, <3>1, <3>3, <3>5
  <2>3. CASE ~OnlyAnds[e]
    BY <2>3
  <2> QED BY <2>1, <2>2, <2>3, OnlyAndsAre
<1> HIDE DEF G
<1>3. Exprs \subseteq G
  BY <1>2, DeepIs, DepthInduction
<1> QED BY <1>3 DEF G, Evaluates
----------------------------------------------------------------------------
(* A key is of two values alike if the values compare as equal. *)

\* Values of the same letters are numbers, and the same number, or both are not.
SpelledOneWay(values) == \A v, w \in values : v.string = w.string => v.number = w.number

\* A key finds another: NULL has none.
Finds(key, other) == key # {} /\ other = key

LEMMA SameKeys ==
  ASSUME NEW V, SpelledOneWay(V), NEW l \in SUBSET V, NEW r \in SUBSET V, AtMostOne(l), AtMostOne(r)
  PROVE  Finds(normalize_join_key(l), normalize_join_key(r)) <=> \E a \in l, b \in r : SameValue(a, b)
<1> DEFINE key(v) == IF v.number # {} THEN <<"N", v.number>> ELSE <<"S", v.string>>
<1>1. \A v : normalize_join_key({v}) = {key(v)}
  BY DEF normalize_join_key
<1>2. normalize_join_key({}) = {}
  BY DEF normalize_join_key
<1>3. CASE l = {} \/ r = {}
  <2>1. \A s : s # {} => normalize_join_key(s) # {}
    BY DEF normalize_join_key
  <2> QED BY <1>2, <1>3, <2>1 DEF Finds
<1>4. CASE \E a \in l, b \in r : TRUE
  <2>1. PICK a \in l, b \in r : TRUE
    BY <1>4
  <2>2. l = {a} /\ r = {b}
    BY DEF AtMostOne
  <2>3. key(a) = key(b) <=> SameValue(a, b)
    <3>1. "N" # "S"
      OBVIOUS
    <3>2. a \in V /\ b \in V /\ (a.string = b.string => a.number = b.number)
      BY DEF SpelledOneWay
    <3>3. \A x, y : <<"N", x>> # <<"S", y>> /\ <<"S", y>> # <<"N", x>>
      BY <3>1
    <3>4. \A x, y : /\ <<"N", x>> = <<"N", y>> <=> x = y
                    /\ <<"S", x>> = <<"S", y>> <=> x = y
      OBVIOUS
    <3>5. CASE a.number # {} /\ b.number # {}
      BY <3>4, <3>5 DEF SameValue, ByNumber
    <3>6. CASE a.number = {} /\ b.number = {}
      BY <3>4, <3>6 DEF SameValue, ByNumber
    <3>7. CASE a.number # {} /\ b.number = {}
      BY <3>2, <3>3, <3>7 DEF SameValue, ByNumber
    <3>8. CASE a.number = {} /\ b.number # {}
      BY <3>2, <3>3, <3>8 DEF SameValue, ByNumber
    <3> QED BY <3>5, <3>6, <3>7, <3>8
  <2> HIDE DEF key
  <2>4. normalize_join_key(l) = {key(a)} /\ normalize_join_key(r) = {key(b)}
    BY <1>1, <2>2
  <2>5. (\E x \in l, y \in r : SameValue(x, y)) <=> SameValue(a, b)
    BY <2>2
  <2> QED BY <2>3, <2>4, <2>5 DEF Finds
<1> QED BY <1>3, <1>4

\* An operand that names its alias is read from the row of that alias.
LEMMA KeyIsRead ==
  ASSUME NEW s, AtMostOne(s.qualifier), NEW key \in join_key(s), NEW row, key.alias \in DOMAIN row, NEW alias
  PROVE  eval_relation_scalar_expr(s, row, alias) = relation_row_key_value(row, key)
<1>1. s.kind = "operand"
  BY DEF join_key
<1>2. PICK a \in s.qualifier : key = [alias |-> a, column |-> ColumnOf(s)]
  BY DEF join_key
<1>3. key.alias = a /\ key.column = ColumnOf(s) /\ s.qualifier = {a} /\ a \in DOMAIN row
  BY <1>2 DEF AtMostOne
<1>4. eval_relation_scalar_expr(s, row, alias) = relation_operand_value(s, row, alias)
  <2>1. "operand" # "literal" /\ "operand" # "coalesce"
    OBVIOUS
  <2> QED BY <1>1, <2>1, Zenon DEF eval_relation_scalar_expr
<1>5. relation_operand_value(s, row, alias) = FieldOf({a}, ColumnOf(s), row)
  BY <1>3 DEF relation_operand_value, resolve_record
<1> DEFINE column == ColumnOf(s)
           having == {b \in {a} : column \in DOMAIN row[b].values}
<1>6. FieldOf({a}, column, row) = UNION {row[b].values[column] : b \in having}
  BY <1>3 DEF FieldOf
<1> HIDE DEF column
<1>7. CASE column \in DOMAIN row[a].values
  <2>1. {row[b].values[column] : b \in having} = {row[a].values[column]}
    BY <1>7
  <2>2. FieldOf({a}, column, row) = row[a].values[column]
    BY <1>6, <2>1
  <2> QED BY <1>3, <1>4, <1>5, <1>7, <2>2 DEF relation_row_key_value, column
<1>8. CASE column \notin DOMAIN row[a].values
  <2>1. {row[b].values[column] : b \in having} = {}
    BY <1>8
  <2>2. FieldOf({a}, column, row) = {}
    BY <1>6, <2>1
  <2> QED BY <1>3, <1>4, <1>5, <1>8, <2>2 DEF relation_row_key_value, column, Null
<1> QED BY <1>7, <1>8

\* What a comparison for equality is about.
LEMMA EqualityMeans ==
  ASSUME NEW c \in Exprs, c.kind = "compare", c.op = "=", NEW row, NEW alias, Evaluates(c, row, alias)
  PROVE  EvalCompare(c, row, alias) = "true" <=>
           \E a \in eval_relation_scalar_expr(compare_lhs_scalar(c), row, alias),
              b \in eval_relation_scalar_expr(compare_rhs_scalars(c)[1], row, alias) : SameValue(a, b)
<1> DEFINE scalars == compare_rhs_scalars(c)
           lhs == eval_relation_scalar_expr(compare_lhs_scalar(c), row, alias)
           rhs == [k \in DOMAIN scalars |-> eval_relation_scalar_expr(scalars[k], row, alias)]
<1>1. EvalCompare(c, row, alias) = Outcome("=", lhs, rhs)
  BY DEF EvalCompare
<1>2. 1 \in DOMAIN scalars
  <2>1. c \in {e \in Exprs : e.kind = "compare"}
    OBVIOUS
  <2>2. /\ c.values \in Seq(ToSet(c.values)) /\ c.operands \in Seq(ToSet(c.operands))
        /\ c.values # <<>> \/ c.operands # <<>>
    BY <2>1, ComparisonsAssumption
  <2>3. (c.values # <<>> => 1 \in DOMAIN c.values) /\ (c.operands # <<>> => 1 \in DOMAIN c.operands)
    BY <2>2
  <2> QED BY <2>2, <2>3 DEF compare_rhs_scalars
<1>3. rhs[1] = eval_relation_scalar_expr(scalars[1], row, alias)
  BY <1>2
<1> HIDE DEF lhs, rhs, scalars
<1>4. Outcome("=", lhs, rhs) # "unknown identifier" => Outcome("=", lhs, rhs) = Truth(CompareValues("=", lhs, rhs[1]))
  BY DEF Outcome
<1>5. CompareValues("=", lhs, rhs[1]) <=> \E a \in lhs, b \in rhs[1] : SameValue(a, b)
  BY Zenon DEF CompareValues
<1>6. EvalCompare(c, row, alias) = Truth(CompareValues("=", lhs, rhs[1]))
  BY <1>1, <1>4 DEF Evaluates
<1>7. EvalCompare(c, row, alias) = "true" <=> CompareValues("=", lhs, rhs[1])
  BY <1>6, TruthIs
<1> QED BY <1>3, <1>5, <1>7 DEF lhs, scalars
----------------------------------------------------------------------------
\* A row whose fields have at most one value each, of some.
FieldsIn(row, values) ==
  \A a \in DOMAIN row : \A c \in DOMAIN row[a].values :
    row[a].values[c] \subseteq values /\ AtMostOne(row[a].values[c])

LEMMA KeyValueIn ==
  ASSUME NEW V, NEW row, FieldsIn(row, V), NEW key
  PROVE  relation_row_key_value(row, key) \in SUBSET V /\ AtMostOne(relation_row_key_value(row, key))
BY DEF FieldsIn, relation_row_key_value, Null, AtMostOne

\* Rows of two relations, whose fields have at most one value each, of some that are
\* spelled one way.
RowsFit(l, r, left_rel, right_rel, values) ==
  /\ DOMAIN l = DOMAIN left_rel.alias_columns /\ FieldsIn(l, values)
  /\ DOMAIN r = DOMAIN right_rel.alias_columns /\ FieldsIn(r, values)
  /\ SpelledOneWay(values)

LEMMA LeftKeyRead ==
  ASSUME NEW V, NEW l, NEW r, NEW left_rel, NEW right_rel, RowsFit(l, r, left_rel, right_rel, V),
         NEW key, OnlyIn(key, left_rel, right_rel)
  PROVE  /\ key.alias \in DOMAIN merge_row_aliases(l, r)
         /\ relation_row_key_value(merge_row_aliases(l, r), key) = relation_row_key_value(l, key)
<1> DEFINE m == merge_row_aliases(l, r)
<1>1. DOMAIN m = DOMAIN l \cup DOMAIN r /\ \A a \in DOMAIN m : m[a] = IF a \in DOMAIN l THEN l[a] ELSE r[a]
  BY DEF merge_row_aliases
<1> HIDE DEF m
<1>2. key.alias \in DOMAIN l
  BY DEF OnlyIn, RowsFit
<1>3. key.alias \in DOMAIN m /\ m[key.alias] = l[key.alias]
  BY <1>1, <1>2
<1>4. key.alias \in DOMAIN m /\ relation_row_key_value(m, key) = relation_row_key_value(l, key)
  BY <1>2, <1>3 DEF relation_row_key_value
<1> QED BY <1>4 DEF m

LEMMA RightKeyRead ==
  ASSUME NEW V, NEW l, NEW r, NEW left_rel, NEW right_rel, RowsFit(l, r, left_rel, right_rel, V),
         NEW key, OnlyIn(key, right_rel, left_rel)
  PROVE  /\ key.alias \in DOMAIN merge_row_aliases(l, r) /\ key.alias \in DOMAIN r
         /\ relation_row_key_value(merge_row_aliases(l, r), key) = relation_row_key_value(r, key)
<1> DEFINE m == merge_row_aliases(l, r)
<1>1. DOMAIN m = DOMAIN l \cup DOMAIN r /\ \A a \in DOMAIN m : m[a] = IF a \in DOMAIN l THEN l[a] ELSE r[a]
  BY DEF merge_row_aliases
<1> HIDE DEF m
<1>2. key.alias \in DOMAIN r /\ key.alias \notin DOMAIN l
  BY DEF OnlyIn, RowsFit
<1>3. key.alias \in DOMAIN m /\ m[key.alias] = r[key.alias]
  BY <1>1, <1>2
<1>4. key.alias \in DOMAIN m /\ relation_row_key_value(m, key) = relation_row_key_value(r, key)
  BY <1>2, <1>3 DEF relation_row_key_value
<1> QED BY <1>2, <1>4 DEF m

\* The sides of an equality: a column of at most one alias, or a literal.
LEMMA SidesAre ==
  ASSUME NEW c \in Exprs, c.kind = "compare", c.op = "="
  PROVE  LET lhs == compare_lhs_scalar(c)
             rhs == compare_rhs_scalars(c)[1]
         IN  /\ lhs.kind = "operand" /\ AtMostOne(lhs.qualifier)
             /\ \/ rhs.kind = "operand" /\ AtMostOne(rhs.qualifier)
                \/ /\ rhs.kind = "literal" /\ rhs.value = {Raw(c.values[1])}
                   /\ c.values # <<>> /\ 1 \in DOMAIN c.values
<1>1. c \in {e \in Exprs : e.kind = "compare"}
  OBVIOUS
<1>2. /\ AtMostOne(c.qualifier)
      /\ c.values \in Seq(ToSet(c.values)) /\ c.operands \in Seq(ToSet(c.operands))
      /\ \A k \in DOMAIN c.operands : AtMostOne(c.operands[k].qualifier)
      /\ c.values # <<>> \/ c.operands # <<>>
  BY <1>1, ComparisonsAssumption
<1>3. compare_lhs_scalar(c).kind = "operand" /\ compare_lhs_scalar(c).qualifier = c.qualifier
  BY DEF compare_lhs_scalar, OperandScalar
<1>4. CASE c.values # <<>>
  <2>1. 1 \in DOMAIN c.values
    BY <1>2, <1>4
  <2>2. compare_rhs_scalars(c)[1] = [kind |-> "literal", value |-> {Raw(c.values[1])}]
    BY <1>4, <2>1 DEF compare_rhs_scalars
  <2> QED BY <1>2, <1>3, <1>4, <2>1, <2>2
<1>5. CASE c.values = <<>>
  <2>1. 1 \in DOMAIN c.operands
    BY <1>2, <1>5
  <2>2. compare_rhs_scalars(c)[1] = OperandScalar(c.operands[1])
    BY <1>5, <2>1 DEF compare_rhs_scalars
  <2>3. OperandScalar(c.operands[1]).kind = "operand"
        /\ OperandScalar(c.operands[1]).qualifier = c.operands[1].qualifier
    BY DEF OperandScalar
  <2> QED BY <1>2, <1>3, <2>1, <2>2, <2>3
<1> QED BY <1>4, <1>5

LEMMA OneKey ==
  ASSUME NEW s, s.kind = "operand" => AtMostOne(s.qualifier)
  PROVE  AtMostOne(join_key(s)) /\ (join_key(s) # {} => s.kind = "operand")
BY DEF join_key, AtMostOne

\* A pair of keys is equal where the comparison is true.
LEMMA PairMeans ==
  ASSUME NEW c \in Exprs, c.kind = "compare", c.op = "=", NEW left_rel, NEW right_rel,
         NEW p \in KeyPairs(c, left_rel, right_rel), NEW V,
         NEW l, NEW r, RowsFit(l, r, left_rel, right_rel, V),
         NEW alias, Evaluates(c, merge_row_aliases(l, r), alias)
  PROVE  EvalCompare(c, merge_row_aliases(l, r), alias) = "true"
           <=> Finds(normalize_join_key(relation_row_key_value(l, p[1])),
                     normalize_join_key(relation_row_key_value(r, p[2])))
<1> DEFINE lhs == compare_lhs_scalar(c)
           rhs == compare_rhs_scalars(c)[1]
           m == merge_row_aliases(l, r)
           L == relation_row_key_value(l, p[1])
           R == relation_row_key_value(r, p[2])
           x == eval_relation_scalar_expr(lhs, m, alias)
           y == eval_relation_scalar_expr(rhs, m, alias)
<1>1. /\ OnlyIn(p[1], left_rel, right_rel) /\ OnlyIn(p[2], right_rel, left_rel)
      /\ \/ p[1] \in join_key(lhs) /\ p[2] \in join_key(rhs)
         \/ p[1] \in join_key(rhs) /\ p[2] \in join_key(lhs)
  BY DEF KeyPairs
<1>2. AtMostOne(lhs.qualifier) /\ (rhs.kind = "operand" => AtMostOne(rhs.qualifier))
  BY SidesAre
<1>3. join_key(rhs) # {} => rhs.kind = "operand"
  BY <1>2, OneKey
<1>4. /\ relation_row_key_value(m, p[1]) = L /\ p[1].alias \in DOMAIN m
      /\ relation_row_key_value(m, p[2]) = R /\ p[2].alias \in DOMAIN m
  BY <1>1, LeftKeyRead, RightKeyRead
<1>5. \/ x = L /\ y = R
      \/ x = R /\ y = L
  <2> HIDE DEF lhs, rhs, m, L, R
  <2>1. CASE p[1] \in join_key(lhs) /\ p[2] \in join_key(rhs)
    BY <1>2, <1>3, <1>4, <2>1, KeyIsRead
  <2>2. CASE p[1] \in join_key(rhs) /\ p[2] \in join_key(lhs)
    BY <1>2, <1>3, <1>4, <2>2, KeyIsRead
  <2> QED BY <1>1, <2>1, <2>2
<1>6. EvalCompare(c, m, alias) = "true" <=> \E a \in x, b \in y : SameValue(a, b)
  BY EqualityMeans
<1>7. \A a, b : SameValue(a, b) <=> SameValue(b, a)
  BY DEF SameValue, ByNumber
<1>8. L \in SUBSET V /\ AtMostOne(L) /\ R \in SUBSET V /\ AtMostOne(R)
  BY KeyValueIn DEF RowsFit
<1> HIDE DEF x, y, L, R, m
<1>9. EvalCompare(c, m, alias) = "true" <=> \E a \in L, b \in R : SameValue(a, b)
  BY <1>5, <1>6, <1>7
<1>10. Finds(normalize_join_key(L), normalize_join_key(R)) <=> \E a \in L, b \in R : SameValue(a, b)
  BY <1>8, SameKeys DEF RowsFit
<1> QED BY <1>9, <1>10 DEF L, R, m
----------------------------------------------------------------------------
\* What is looked up for a term, and where it is true: where the comparison is.
TermKey(t, row) ==
  normalize_join_key(t.literal \cup UNION {relation_row_key_value(row, key) : key \in t.left_key})

OfPair(t, c, left_rel, right_rel) ==
  \E p \in KeyPairs(c, left_rel, right_rel) : t = LookupTerm(p[2].column, {p[1]}, Null)

OfLiteral(t, c, left_rel, right_rel) ==
  LET rhs == compare_rhs_scalars(c)[1]
  IN  /\ rhs.kind = "literal"
      /\ \E key \in join_key(compare_lhs_scalar(c)) :
           OnlyIn(key, right_rel, left_rel) /\ t = LookupTerm(key.column, {}, rhs.value)

LEMMA TermsAre ==
  ASSUME NEW c \in Exprs, c.kind = "compare", c.op = "=", NEW left_rel, NEW right_rel,
         NEW t \in lookup_term_from_compare(c, left_rel, right_rel)
  PROVE  OfPair(t, c, left_rel, right_rel) \/ OfLiteral(t, c, left_rel, right_rel)
<1> DEFINE lhs == compare_lhs_scalar(c)
           rhs == compare_rhs_scalars(c)[1]
<1>1. lhs.kind # "literal"
  BY SidesAre
<1>2. LiteralTerms(rhs, lhs, left_rel, right_rel) = {}
  BY <1>1 DEF LiteralTerms
<1>3. \/ t \in {LookupTerm(p[2].column, {p[1]}, Null) : p \in KeyPairs(c, left_rel, right_rel)}
      \/ t \in LiteralTerms(lhs, rhs, left_rel, right_rel)
  <2> HIDE DEF lhs, rhs
  <2> DEFINE pairs == {LookupTerm(p[2].column, {p[1]}, Null) : p \in KeyPairs(c, left_rel, right_rel)}
             one == LiteralTerms(lhs, rhs, left_rel, right_rel)
             other == LiteralTerms(rhs, lhs, left_rel, right_rel)
  <2>1. lookup_term_from_compare(c, left_rel, right_rel) = (pairs \cup one) \cup other
    BY DEF lookup_term_from_compare, lhs, rhs
  <2> HIDE DEF pairs, one, other
  <2>2. t \in pairs \/ t \in one
    BY <1>2, <2>1 DEF other
  <2> QED BY <2>2 DEF pairs, one
<1>4. t \in LiteralTerms(lhs, rhs, left_rel, right_rel) =>
        /\ rhs.kind = "literal"
        /\ \E key \in join_key(lhs) : OnlyIn(key, right_rel, left_rel) /\ t = LookupTerm(key.column, {}, rhs.value)
  BY DEF LiteralTerms
<1> HIDE DEF lhs, rhs
<1> QED BY <1>3, <1>4 DEF lhs, rhs, OfPair, OfLiteral

LEMMA OneTerm ==
  ASSUME NEW c \in Exprs, c.kind = "compare", NEW left_rel, NEW right_rel
  PROVE  AtMostOne(lookup_term_from_compare(c, left_rel, right_rel))
<1> DEFINE lhs == compare_lhs_scalar(c)
           rhs == compare_rhs_scalars(c)[1]
           T == lookup_term_from_compare(c, left_rel, right_rel)
<1>1. CASE c.op # "="
  BY <1>1 DEF lookup_term_from_compare, AtMostOne
<1>2. CASE c.op = "="
  <2>1. AtMostOne(lhs.qualifier) /\ (rhs.kind = "operand" => AtMostOne(rhs.qualifier))
    BY <1>2, SidesAre
  <2>2. /\ AtMostOne(join_key(lhs)) /\ AtMostOne(join_key(rhs))
        /\ join_key(rhs) # {} => rhs.kind = "operand"
    BY <2>1, OneKey
  <2>3. ASSUME NEW p \in KeyPairs(c, left_rel, right_rel), NEW q \in KeyPairs(c, left_rel, right_rel)
        PROVE  p[1] = q[1] /\ p[2] = q[2] /\ join_key(rhs) # {}
    <3>1. \A w \in {p, q} :
            /\ OnlyIn(w[1], left_rel, right_rel) /\ OnlyIn(w[2], right_rel, left_rel)
            /\ \/ w[1] \in join_key(lhs) /\ w[2] \in join_key(rhs)
               \/ w[1] \in join_key(rhs) /\ w[2] \in join_key(lhs)
      BY DEF KeyPairs
    <3>2. \A key : ~(OnlyIn(key, left_rel, right_rel) /\ OnlyIn(key, right_rel, left_rel))
      BY DEF OnlyIn
    <3> HIDE DEF lhs, rhs
    <3> QED BY <2>2, <3>1, <3>2 DEF AtMostOne
  <2>4. ASSUME NEW t \in T, NEW u \in T PROVE t = u
    <3> DEFINE paired(x) == \E p \in KeyPairs(c, left_rel, right_rel) : x = LookupTerm(p[2].column, {p[1]}, Null)
               literal(x) == /\ rhs.kind = "literal"
                             /\ \E key \in join_key(lhs) : x = LookupTerm(key.column, {}, rhs.value)
    <3>1. \A x \in T : OfPair(x, c, left_rel, right_rel) \/ OfLiteral(x, c, left_rel, right_rel)
      BY <1>2, TermsAre
    <3>2. paired(t) /\ paired(u) => t = u
      BY <2>3
    <3>3. literal(t) /\ literal(u) => t = u
      <4> HIDE DEF lhs, rhs
      <4> QED BY <2>2 DEF AtMostOne
    <3>4. \A x : paired(x) => rhs.kind = "operand"
      BY <2>2, <2>3
    <3>5. \A x : literal(x) => rhs.kind = "literal"
      OBVIOUS
    <3>6. "literal" # "operand"
      OBVIOUS
    <3>7. \A x : /\ OfPair(x, c, left_rel, right_rel) => paired(x)
                 /\ OfLiteral(x, c, left_rel, right_rel) => literal(x)
      BY DEF OfPair, OfLiteral
    <3> HIDE DEF paired, literal, T
    <3> QED BY <3>1, <3>7, <3>2, <3>3, <3>4, <3>5, <3>6
  <2> QED BY <2>4 DEF AtMostOne
<1> QED BY <1>1, <1>2

LEMMA TermMeans ==
  ASSUME NEW c \in Exprs, c.kind = "compare", NEW left_rel, NEW right_rel,
         NEW t \in lookup_term_from_compare(c, left_rel, right_rel), NEW V,
         \A k \in DOMAIN c.values : Raw(c.values[k]) \in V,
         NEW l, NEW r, RowsFit(l, r, left_rel, right_rel, V), NEW a, DOMAIN r = {a},
         NEW alias, Evaluates(c, merge_row_aliases(l, r), alias)
  PROVE  EvalCompare(c, merge_row_aliases(l, r), alias) = "true"
           <=> Finds(TermKey(t, l), normalize_join_key(single_alias_relation_row_value(r, t.right_column)))
<1> DEFINE lhs == compare_lhs_scalar(c)
           rhs == compare_rhs_scalars(c)[1]
           m == merge_row_aliases(l, r)
<1>1. c.op = "="
  BY DEF lookup_term_from_compare
<1>2. \A key : OnlyIn(key, right_rel, left_rel) =>
         single_alias_relation_row_value(r, key.column) = relation_row_key_value(r, key)
  <2> SUFFICES ASSUME NEW key, OnlyIn(key, right_rel, left_rel)
               PROVE  single_alias_relation_row_value(r, key.column) = relation_row_key_value(r, key)
    OBVIOUS
  <2>1. key.alias = a
    BY DEF OnlyIn, RowsFit
  <2>2. single_alias_relation_row_value(r, key.column)
          = IF key.column \in DOMAIN r[a].values THEN r[a].values[key.column] ELSE Null
    BY SingleValue
  <2> QED BY <2>1, <2>2 DEF relation_row_key_value
<1>5. ASSUME NEW p \in KeyPairs(c, left_rel, right_rel)
      PROVE  EvalCompare(c, m, alias) = "true"
               <=> Finds(normalize_join_key(relation_row_key_value(l, p[1])),
                         normalize_join_key(relation_row_key_value(r, p[2])))
  BY <1>1, PairMeans
<1>3. ASSUME NEW p \in KeyPairs(c, left_rel, right_rel), t = LookupTerm(p[2].column, {p[1]}, Null)
      PROVE  EvalCompare(c, m, alias) = "true"
               <=> Finds(TermKey(t, l), normalize_join_key(single_alias_relation_row_value(r, t.right_column)))
  <2>1. t.right_column = p[2].column /\ t.left_key = {p[1]} /\ t.literal = {}
    BY <1>3 DEF LookupTerm, Null
  <2>2. {relation_row_key_value(l, key) : key \in t.left_key} = {relation_row_key_value(l, p[1])}
    BY <2>1
  <2>3. TermKey(t, l) = normalize_join_key(relation_row_key_value(l, p[1]))
    BY <2>1, <2>2 DEF TermKey
  <2>4. OnlyIn(p[2], right_rel, left_rel)
    BY KeyOfOneSide
  <2>5. single_alias_relation_row_value(r, t.right_column) = relation_row_key_value(r, p[2])
    BY <1>2, <2>1, <2>4
  <2> HIDE DEF m
  <2> QED BY <1>5, <2>3, <2>5
<1>4. ASSUME rhs.kind = "literal", NEW key \in join_key(lhs), OnlyIn(key, right_rel, left_rel),
             t = LookupTerm(key.column, {}, rhs.value)
      PROVE  EvalCompare(c, m, alias) = "true"
               <=> Finds(TermKey(t, l), normalize_join_key(single_alias_relation_row_value(r, t.right_column)))
  <2> DEFINE v == Raw(c.values[1])
             R == relation_row_key_value(r, key)
  <2>1. rhs.value = {v} /\ 1 \in DOMAIN c.values /\ AtMostOne(lhs.qualifier)
    BY <1>1, <1>4, SidesAre
  <2>2. v \in V
    BY <2>1
  <2>3. t.right_column = key.column /\ t.left_key = {} /\ t.literal = {v}
    BY <1>4, <2>1 DEF LookupTerm
  <2>4. {relation_row_key_value(l, k) : k \in t.left_key} = {}
    BY <2>3
  <2>5. TermKey(t, l) = normalize_join_key({v})
    BY <2>3, <2>4 DEF TermKey
  <2>6. single_alias_relation_row_value(r, t.right_column) = R
    BY <1>2, <1>4, <2>3
  <2>7. key.alias \in DOMAIN m /\ relation_row_key_value(m, key) = R
    BY <1>4, RightKeyRead
  <2>8. eval_relation_scalar_expr(lhs, m, alias) = R
    <3> HIDE DEF lhs, m, R
    <3> QED BY <2>1, <2>7, KeyIsRead
  <2>9. eval_relation_scalar_expr(rhs, m, alias) = {v}
    <3>1. "operand" # "literal" /\ "literal" # "coalesce"
      OBVIOUS
    <3> HIDE DEF rhs, m
    <3> QED BY <1>4, <2>1, <3>1, Zenon DEF eval_relation_scalar_expr
  <2>10. EvalCompare(c, m, alias) = "true" <=> \E x \in R, y \in {v} : SameValue(x, y)
    BY <1>1, <2>8, <2>9, EqualityMeans
  <2>11. R \in SUBSET V /\ AtMostOne(R) /\ {v} \in SUBSET V /\ AtMostOne({v})
    BY <2>2, KeyValueIn DEF AtMostOne, RowsFit
  <2> HIDE DEF v, R, m
  <2>12. Finds(normalize_join_key({v}), normalize_join_key(R)) <=> \E x \in {v}, y \in R : SameValue(x, y)
    BY <2>11, SameKeys DEF RowsFit
  <2>13. \A x, y : SameValue(x, y) <=> SameValue(y, x)
    BY DEF SameValue, ByNumber
  <2> QED BY <2>5, <2>6, <2>10, <2>12, <2>13
<1>6. OfPair(t, c, left_rel, right_rel) \/ OfLiteral(t, c, left_rel, right_rel)
  BY <1>1, TermsAre
<1> QED BY <1>3, <1>4, <1>6 DEF OfPair, OfLiteral
----------------------------------------------------------------------------
\* What a plan looks up: the terms of some of the comparisons, each of a column of its own.
LooksUp(plan, terms, first) ==
  /\ first # {} /\ first \subseteq DOMAIN terms /\ \A k \in first : terms[k] # {}
  /\ \A t : t \in plan.terms <=> \E k \in first : t \in terms[k]
  /\ plan.full_on_covered => first = DOMAIN terms
  /\ \A t, u \in plan.terms : t.right_column = u.right_column => t = u

LEMMA PlanIs ==
  ASSUME NEW n \in Nat, NEW terms, DOMAIN terms = 1 .. n, \A k \in 1 .. n : AtMostOne(terms[k]),
         NEW plan \in LookupPlan(terms)
  PROVE  \E first : LooksUp(plan, terms, first)
<1> DEFINE found == {k \in DOMAIN terms : terms[k] # {}}
           first == {k \in found : Cardinality({j \in found : j < k}) < 2}
           two == UNION {terms[k] : k \in first}
           columns == {t.right_column : t \in two}
           of == [k \in first |-> (CHOOSE t \in terms[k] : TRUE).right_column]
<1>1. /\ first # {} /\ Cardinality(columns) = Cardinality(first)
      /\ plan = [terms |-> two, full_on_covered |-> first = DOMAIN terms]
  BY DEF LookupPlan
<1>2. first \in SUBSET (1 .. n) /\ \A k \in first : terms[k] # {}
  OBVIOUS
<1>3. IsFiniteSet(first)
  <2>1. IsFiniteSet(1 .. n)
    BY FS_Interval
  <2> QED BY <1>2, <2>1, FS_Subset
<1>4. \A k \in first : (CHOOSE t \in terms[k] : TRUE) \in terms[k]
  BY <1>2
<1> HIDE DEF first
<1>5. of \in Surjection(first, columns)
  <2>1. ASSUME NEW k \in first PROVE of[k] \in columns
    <3> DEFINE t == CHOOSE t \in terms[k] : TRUE
    <3>1. t \in two
      BY <1>4
    <3>2. of[k] = t.right_column
      OBVIOUS
    <3> HIDE DEF t, two, of
    <3> QED BY <3>1, <3>2
  <2>2. ASSUME NEW x \in columns PROVE \E k \in first : of[k] = x
    <3>1. PICK t \in two : x = t.right_column
      OBVIOUS
    <3>2. PICK k \in first : t \in terms[k]
      BY <3>1
    <3>3. t = CHOOSE u \in terms[k] : TRUE
      BY <1>2, <1>4, <3>2 DEF AtMostOne
    <3> QED BY <3>1, <3>2, <3>3
  <2>3. of = [k \in first |-> of[k]]
    OBVIOUS
  <2> HIDE DEF of, columns
  <2>4. of \in [first -> columns]
    BY <2>1, <2>3
  <2> QED BY <2>2, <2>4 DEF Surjection
<1>6. of \in Injection(first, columns)
  <2> HIDE DEF of, columns
  <2> QED BY <1>1, <1>3, <1>5, FS_Surjection
<1>7. \A j, k \in first : of[j] = of[k] => j = k
  <2> HIDE DEF of, columns
  <2> QED BY <1>6 DEF Injection, IsInjective
<1>8. ASSUME NEW t \in two, NEW u \in two, t.right_column = u.right_column PROVE t = u
  <2>1. PICK j \in first, k \in first : t \in terms[j] /\ u \in terms[k]
    OBVIOUS
  <2>2. of[j] = t.right_column /\ of[k] = u.right_column
    BY <1>2, <1>4, <2>1 DEF AtMostOne
  <2>3. j = k
    <3> HIDE DEF of
    <3> QED BY <1>7, <1>8, <2>2
  <2> QED BY <1>2, <2>1, <2>3 DEF AtMostOne
<1>9. plan.terms = two /\ plan.full_on_covered = (first = 1 .. n)
  BY <1>1
<1> HIDE DEF two
<1>10. \A t, u \in plan.terms : t.right_column = u.right_column => t = u
  BY <1>8, <1>9
<1>11. \A t : t \in plan.terms <=> \E k \in first : t \in terms[k]
  BY <1>9 DEF two
<1>12. LooksUp(plan, terms, first)
  BY <1>1, <1>2, <1>9, <1>10, <1>11 DEF LooksUp
<1> QED BY <1>12

\* A composite key finds another if each of its parts finds that of its column.
LEMMA CompositeFinds ==
  ASSUME NEW C, C # {}, NEW f, NEW g, DOMAIN f = C, DOMAIN g = C,
         \A c \in C : AtMostOne(f[c]) /\ AtMostOne(g[c])
  PROVE  Finds(Composite(f), Composite(g)) <=> \A c \in C : Finds(f[c], g[c])
<1> DEFINE of(h) == [c \in DOMAIN h |-> CHOOSE key \in h[c] : TRUE]
<1>1. \A h : Composite(h) = IF \E c \in DOMAIN h : h[c] = {} THEN {} ELSE {of(h)}
  BY DEF Composite
<1>2. \A h : DOMAIN h = C => DOMAIN of(h) = C /\ \A c \in C : of(h)[c] = CHOOSE key \in h[c] : TRUE
  OBVIOUS
<1>3. ASSUME NEW h, DOMAIN h = C, \A c \in C : AtMostOne(h[c]) /\ h[c] # {}
      PROVE  \A c \in C : h[c] = {of(h)[c]}
  <2> TAKE c \in C
  <2>1. (CHOOSE key \in h[c] : TRUE) \in h[c]
    BY <1>3
  <2> QED BY <1>2, <1>3, <2>1 DEF AtMostOne
<1>4. \A h : of(h) = [c \in DOMAIN h |-> of(h)[c]]
  OBVIOUS
<1> HIDE DEF of
<1>5. CASE \E c \in C : f[c] = {} \/ g[c] = {}
  BY <1>1, <1>5 DEF Finds
<1>6. CASE \A c \in C : f[c] # {} /\ g[c] # {}
  <2>1. Composite(f) = {of(f)} /\ Composite(g) = {of(g)}
    BY <1>1, <1>6
  <2>2. \A c \in C : f[c] = {of(f)[c]} /\ g[c] = {of(g)[c]}
    BY <1>3, <1>6
  <2>3. of(f) = of(g) <=> \A c \in C : of(f)[c] = of(g)[c]
    BY <1>4
  <2> QED BY <2>1, <2>2, <2>3 DEF Finds
<1> QED BY <1>5, <1>6
----------------------------------------------------------------------------
(* A hash join tries the rows that ON holds for, a lookup those that its terms do. *)

LEMMA KeyOfOne ==
  ASSUME NEW s, AtMostOne(s)
  PROVE  AtMostOne(normalize_join_key(s))
BY DEF AtMostOne, normalize_join_key

LEMMA ComparisonIs ==
  ASSUME NEW c \in Exprs, c.kind = "compare", NEW row, NEW alias
  PROVE  EvalExpr(c, row, alias) = EvalCompare(c, row, alias)
BY EvalIs

\* A pair of rows that fit, for which the ON of the join evaluates.
Tried(on, join, left_rel, right_rel, values, l, k, alias) ==
  /\ on \in Exprs /\ join.on = {on} /\ k \in DOMAIN right_rel.rows
  /\ RowsFit(l, right_rel.rows[k], left_rel, right_rel, values)
  /\ EvalExpr(on, merge_row_aliases(l, right_rel.rows[k]), alias) # "unknown identifier"

HoldsFor(on, l, r, alias) == EvalExpr(on, merge_row_aliases(l, r), alias) = "true"

LEMMA HashFinds ==
  ASSUME NEW on, NEW join, NEW left_rel, NEW right_rel, NEW V, NEW l, NEW k, NEW alias,
         Tried(on, join, left_rel, right_rel, V, l, k, alias),
         NEW p \in plan_simple_hash_join(join, left_rel, right_rel)
  PROVE  k \in HashCandidates(p, l, right_rel) <=> HoldsFor(on, l, right_rel.rows[k], alias)
<1> USE DEF Tried
<1> DEFINE r == right_rel.rows[k]
           m == merge_row_aliases(l, r)
<1>1. p \in KeyPairs(on, left_rel, right_rel) /\ on.kind = "compare" /\ on.op = "="
  BY DEF plan_simple_hash_join
<1>2. EvalExpr(on, m, alias) = EvalCompare(on, m, alias)
  BY <1>1, ComparisonIs
<1>3. Evaluates(on, m, alias)
  BY <1>2, EvalIs DEF Evaluates, Verdicts
<1> HIDE DEF m, r
<1>4. EvalCompare(on, m, alias) = "true"
        <=> Finds(normalize_join_key(relation_row_key_value(l, p[1])), normalize_join_key(relation_row_key_value(r, p[2])))
  BY <1>1, <1>3, PairMeans DEF m, r
<1>5. k \in HashCandidates(p, l, right_rel)
        <=> Finds(normalize_join_key(relation_row_key_value(l, p[1])), normalize_join_key(relation_row_key_value(r, p[2])))
  BY DEF HashCandidates, Finds, r
<1>6. k \in HashCandidates(p, l, right_rel) <=> EvalExpr(on, m, alias) = "true"
  BY <1>2, <1>4, <1>5
<1> QED BY <1>6 DEF m, r, HoldsFor

LEMMA OneTermKey ==
  ASSUME NEW c \in Exprs, c.kind = "compare", c.op = "=", NEW left_rel, NEW right_rel,
         NEW t \in lookup_term_from_compare(c, left_rel, right_rel), NEW V, NEW l, FieldsIn(l, V)
  PROVE  AtMostOne(TermKey(t, l))
<1>1. CASE OfPair(t, c, left_rel, right_rel)
  <2>1. PICK p : t = LookupTerm(p[2].column, {p[1]}, Null)
    BY <1>1 DEF OfPair
  <2>2. t.left_key = {p[1]} /\ t.literal = {}
    BY <2>1 DEF LookupTerm, Null
  <2>3. {relation_row_key_value(l, key) : key \in t.left_key} = {relation_row_key_value(l, p[1])}
    BY <2>2
  <2>4. TermKey(t, l) = normalize_join_key(relation_row_key_value(l, p[1]))
    BY <2>2, <2>3 DEF TermKey
  <2>5. AtMostOne(relation_row_key_value(l, p[1]))
    BY KeyValueIn
  <2> QED BY <2>4, <2>5, KeyOfOne
<1>2. CASE OfLiteral(t, c, left_rel, right_rel)
  <2> DEFINE rhs == compare_rhs_scalars(c)[1]
  <2>1. rhs.kind = "literal" /\ t.left_key = {} /\ t.literal = rhs.value
    BY <1>2 DEF OfLiteral, LookupTerm
  <2>2. rhs.value = {Raw(c.values[1])}
    BY <2>1, SidesAre
  <2>3. {relation_row_key_value(l, key) : key \in t.left_key} = {}
    BY <2>1
  <2>4. TermKey(t, l) = normalize_join_key({Raw(c.values[1])})
    BY <2>1, <2>2, <2>3 DEF TermKey
  <2>5. AtMostOne({Raw(c.values[1])})
    BY DEF AtMostOne
  <2> QED BY <2>4, <2>5, KeyOfOne
<1> QED BY <1>1, <1>2, TermsAre

LiteralsIn(values) ==
  \A c \in Exprs : c.kind = "compare" => \A k \in DOMAIN c.values : Raw(c.values[k]) \in values

\* The key that is looked up finds the row's own if each term's does.
LEMMA TermsFind ==
  ASSUME NEW terms, terms # {}, \A t, u \in terms : t.right_column = u.right_column => t = u,
         NEW l, NEW r, NEW a, DOMAIN r = {a}, NEW V, FieldsIn(r, V), \A t \in terms : AtMostOne(TermKey(t, l))
  PROVE  Finds(LookupKey(terms, l),
               Composite([c \in {t.right_column : t \in terms} |->
                             normalize_join_key(single_alias_relation_row_value(r, c))]))
           <=> \A t \in terms :
                 Finds(TermKey(t, l), normalize_join_key(single_alias_relation_row_value(r, t.right_column)))
<1> DEFINE C == {t.right_column : t \in terms}
           f == [c \in C |-> UNION {TermKey(t, l) : t \in {u \in terms : u.right_column = c}}]
           g == [c \in C |-> normalize_join_key(single_alias_relation_row_value(r, c))]
<1>1. LookupKey(terms, l) = Composite(f)
  BY DEF LookupKey, TermKey
<1>2. ASSUME NEW t \in terms PROVE f[t.right_column] = TermKey(t, l)
  <2>1. t.right_column \in C
    OBVIOUS
  <2>2. {u \in terms : u.right_column = t.right_column} = {t}
    OBVIOUS
  <2>3. {TermKey(u, l) : u \in {w \in terms : w.right_column = t.right_column}} = {TermKey(t, l)}
    BY <2>2
  <2> QED BY <2>1, <2>3
<1>3. \A c \in C : AtMostOne(f[c])
  <2> TAKE c \in C
  <2>1. PICK t \in terms : c = t.right_column
    OBVIOUS
  <2> HIDE DEF f
  <2> QED BY <1>2, <2>1
<1>4. \A c : AtMostOne(single_alias_relation_row_value(r, c))
  <2> TAKE c
  <2>1. single_alias_relation_row_value(r, c) = IF c \in DOMAIN r[a].values THEN r[a].values[c] ELSE Null
    BY SingleValue
  <2>2. AtMostOne(Null)
    BY DEF Null, AtMostOne
  <2>3. c \in DOMAIN r[a].values => AtMostOne(r[a].values[c])
    BY DEF FieldsIn
  <2> QED BY <2>1, <2>2, <2>3
<1>5. \A c \in C : AtMostOne(g[c])
  BY <1>4, KeyOfOne
<1>6. C # {} /\ DOMAIN f = C /\ DOMAIN g = C
  OBVIOUS
<1>8. \A t \in terms : g[t.right_column] = normalize_join_key(single_alias_relation_row_value(r, t.right_column))
  OBVIOUS
<1>9. \A t \in terms : t.right_column \in C
  OBVIOUS
<1>10. \A c \in C : \E t \in terms : c = t.right_column
  OBVIOUS
<1> HIDE DEF f, g, C
<1>7. Finds(Composite(f), Composite(g)) <=> \A c \in C : Finds(f[c], g[c])
  BY <1>3, <1>5, <1>6, CompositeFinds
<1>11. (\A c \in C : Finds(f[c], g[c])) <=>
         \A t \in terms : Finds(TermKey(t, l), normalize_join_key(single_alias_relation_row_value(r, t.right_column)))
  BY <1>2, <1>8, <1>9, <1>10
<1> QED BY <1>1, <1>7, <1>11 DEF g, C
----------------------------------------------------------------------------
LEMMA PlacesOf ==
  ASSUME NEW S, NEW s \in Seq(S)
  PROVE  Len(s) \in Nat /\ DOMAIN s = 1 .. Len(s)
OBVIOUS

\* The rows that ON holds for are found in the index, and only they are if its plan
\* covers ON.
LEMMA LookupFinds ==
  ASSUME NEW on, NEW join, NEW left_rel, NEW right_rel, NEW V, LiteralsIn(V), NEW l, NEW k, NEW alias,
         Tried(on, join, left_rel, right_rel, V, l, k, alias), NEW a, DOMAIN right_rel.rows[k] = {a},
         NEW p \in plan_index_lookup_join(join, left_rel, right_rel),
         NEW index, index = BuildIndex(right_rel, {t.right_column : t \in p.terms})
  PROVE  /\ HoldsFor(on, l, right_rel.rows[k], alias) => k \in IndexCandidates(p, l, index)
         /\ p.full_on_covered /\ k \in IndexCandidates(p, l, index) => HoldsFor(on, l, right_rel.rows[k], alias)
<1> USE DEF Tried
<1> DEFINE r == right_rel.rows[k]
           m == merge_row_aliases(l, r)
           cs == Conjuncts[on]
           n == Len(cs)
           terms == [j \in DOMAIN cs |-> lookup_term_from_compare(cs[j], left_rel, right_rel)]
           columns == {t.right_column : t \in p.terms}
           part(j) == EvalCompare(cs[j], m, alias) = "true"
<1>1. OnlyAnds[on] /\ p \in LookupPlan(terms)
  BY DEF plan_index_lookup_join
<1>2. n \in Nat /\ DOMAIN cs = 1 .. n /\ \A j \in 1 .. n : cs[j] \in ToSet(cs)
  <2>1. cs \in Seq(Exprs)
    BY ConjunctsAre
  <2> HIDE DEF cs
  <2>2. Len(cs) \in Nat /\ DOMAIN cs = 1 .. Len(cs)
    BY <2>1, PlacesOf
  <2>3. \A j \in DOMAIN cs : cs[j] \in ToSet(cs)
    BY DEF ToSet
  <2> QED BY <2>2, <2>3
<1>18. /\ \A c \in ToSet(cs) : c \in Exprs /\ c.kind = "compare" /\ Evaluates(c, m, alias)
       /\ EvalExpr(on, m, alias) = "true" <=> \A c \in ToSet(cs) : EvalCompare(c, m, alias) = "true"
  BY <1>1, AndsMean
<1>3. \A j \in 1 .. n : cs[j] \in Exprs /\ cs[j].kind = "compare" /\ Evaluates(cs[j], m, alias)
  BY <1>2, <1>18
<1>4. EvalExpr(on, m, alias) = "true" <=> \A j \in 1 .. n : part(j)
  <2>1. ToSet(cs) = {cs[j] : j \in 1 .. n}
    BY <1>2 DEF ToSet
  <2> HIDE DEF cs, m
  <2> QED BY <1>18, <2>1
<1>5. DOMAIN terms = 1 .. n /\ \A j \in 1 .. n : terms[j] = lookup_term_from_compare(cs[j], left_rel, right_rel)
  BY <1>2
<1> HIDE DEF m, cs, n, terms
<1>6. \A j \in 1 .. n : AtMostOne(terms[j])
  <2> TAKE j \in 1 .. n
  <2>1. cs[j] \in Exprs /\ cs[j].kind = "compare" /\ terms[j] = lookup_term_from_compare(cs[j], left_rel, right_rel)
    BY <1>3, <1>5
  <2> DEFINE c == cs[j]
  <2>2. c \in Exprs /\ c.kind = "compare"
    BY <2>1
  <2> HIDE DEF c
  <2>3. AtMostOne(lookup_term_from_compare(c, left_rel, right_rel))
    BY <2>2, OneTerm
  <2> QED BY <2>1, <2>3 DEF c
<1>19. PICK first : LooksUp(p, terms, first)
  BY <1>1, <1>2, <1>5, <1>6, PlanIs
<1>7. /\ first # {} /\ first \subseteq 1 .. n /\ \A j \in first : terms[j] # {}
      /\ \A t : t \in p.terms <=> \E j \in first : t \in terms[j]
      /\ p.full_on_covered => first = 1 .. n
      /\ \A t, u \in p.terms : t.right_column = u.right_column => t = u
  BY <1>5, <1>19 DEF LooksUp
<1> DEFINE Meets(t) == Finds(TermKey(t, l), normalize_join_key(single_alias_relation_row_value(r, t.right_column)))
<1>8. ASSUME NEW j \in 1 .. n, NEW t \in terms[j]
      PROVE  AtMostOne(TermKey(t, l)) /\ (part(j) <=> Meets(t))
  <2> DEFINE c == cs[j]
  <2>1. c \in Exprs /\ c.kind = "compare" /\ Evaluates(c, m, alias)
        /\ t \in lookup_term_from_compare(c, left_rel, right_rel)
    BY <1>3, <1>5, <1>8
  <2>2. c.op = "="
    BY <2>1 DEF lookup_term_from_compare
  <2>3. \A i_ \in DOMAIN c.values : Raw(c.values[i_]) \in V
    BY <2>1 DEF LiteralsIn
  <2>4. FieldsIn(l, V)
    BY DEF RowsFit
  <2>6. RowsFit(l, r, left_rel, right_rel, V) /\ DOMAIN r = {a} /\ Evaluates(c, merge_row_aliases(l, r), alias)
    BY <2>1 DEF m
  <2> HIDE DEF c, r
  <2>5. AtMostOne(TermKey(t, l))
    BY <2>1, <2>2, <2>4, OneTermKey
  <2>7. EvalCompare(c, merge_row_aliases(l, r), alias) = "true" <=> Meets(t)
    BY <2>1, <2>3, <2>6, TermMeans
  <2> QED BY <2>5, <2>7 DEF c, m
<1>9. (\A t \in p.terms : Meets(t)) <=> \A j \in first : part(j)
  <2> HIDE DEF Meets, part
  <2>1. ASSUME NEW t \in p.terms PROVE \E j \in first : t \in terms[j]
    BY <1>7
  <2>2. ASSUME NEW j \in first PROVE \E t \in p.terms : t \in terms[j]
    <3> DEFINE T == terms[j]
    <3>3. T # {}
      BY <1>7
    <3> HIDE DEF T
    <3>4. PICK t : t \in T
      BY <3>3
    <3>1. t \in terms[j]
      BY <3>4 DEF T
    <3>2. t \in p.terms
      BY <1>7, <3>1
    <3> QED BY <3>1, <3>2
  <2>3. \A j \in first : j \in 1 .. n
    BY <1>7
  <2> QED BY <1>8, <2>1, <2>2, <2>3
<1>10. \A t \in p.terms : AtMostOne(TermKey(t, l))
  <2> TAKE t \in p.terms
  <2>1. PICK j \in first : t \in terms[j]
    BY <1>7
  <2>2. j \in 1 .. n
    BY <1>7
  <2> QED BY <1>8, <2>1, <2>2
<1>11. p.terms # {}
  BY <1>7
<1> DEFINE parts == [c \in columns |-> normalize_join_key(single_alias_relation_row_value(r, c))]
<1>12. Finds(LookupKey(p.terms, l), Composite(parts)) <=> \A t \in p.terms : Meets(t)
  <2>1. FieldsIn(r, V)
    BY DEF RowsFit
  <2>2. DOMAIN r = {a}
    OBVIOUS
  <2> DEFINE T == p.terms
  <2>3. T # {} /\ (\A t \in T : AtMostOne(TermKey(t, l))) /\ \A t, u \in T : t.right_column = u.right_column => t = u
    BY <1>7, <1>10, <1>11
  <2> HIDE DEF r, T
  <2>4. Finds(LookupKey(T, l),
               Composite([c \in {t.right_column : t \in T} |->
                             normalize_join_key(single_alias_relation_row_value(r, c))]))
           <=> \A t \in T : Meets(t)
    BY <2>1, <2>2, <2>3, TermsFind
  <2> QED BY <2>4 DEF T
<1>13. k \in IndexCandidates(p, l, index) <=> Finds(LookupKey(p.terms, l), Composite(parts))
  <2>1. k \in DOMAIN index /\ DOMAIN index = DOMAIN right_rel.rows /\ index[k] = Composite(parts)
    BY DEF BuildIndex
  <2> HIDE DEF parts
  <2> QED BY <2>1 DEF IndexCandidates, Finds
<1>14. k \in IndexCandidates(p, l, index) <=> \A j \in first : part(j)
  BY <1>9, <1>12, <1>13
<1>15. \A j \in first : j \in 1 .. n
  BY <1>7
<1> HIDE DEF part
<1>16. EvalExpr(on, m, alias) = "true" => k \in IndexCandidates(p, l, index)
  BY <1>4, <1>14, <1>15
<1>17. p.full_on_covered /\ k \in IndexCandidates(p, l, index) => EvalExpr(on, m, alias) = "true"
  BY <1>4, <1>7, <1>14
<1> QED BY <1>16, <1>17 DEF m, r, HoldsFor
----------------------------------------------------------------------------
(* A row of the left relation is matched with the same rows whatever the strategy. *)

\* A pair that can be tried: there is such a row, of other aliases.
LEMMA TriedPair ==
  ASSUME NEW s, NEW join, NEW l, NEW right_rel, NEW k \in Nat, Len(right_rel.rows) \in Nat,
         k <= Len(right_rel.rows), ~DuplicateAlias(l, right_rel.rows[k]), NEW alias
  PROVE  TryPair(s, join, l, right_rel, k, alias)
           = IF EvaluatesOn(s, join)
             THEN EvalExpr(CHOOSE e \in join.on : TRUE, merge_row_aliases(l, right_rel.rows[k]), alias)
             ELSE "true"
<1>1. ~(k > Len(right_rel.rows))
  OBVIOUS
<1> QED BY <1>1, Zenon DEF TryPair

LEMMA LoopIs ==
  ASSUME NEW s, s.strategy = "nested_loop", NEW join, NEW row, NEW right_rel
  PROVE  /\ Candidates(s, row, right_rel) = DOMAIN right_rel.rows
         /\ EvaluatesOn(s, join) <=> join.type # "cross" /\ join.on # {}
<1>1. "hash_equi" # "nested_loop" /\ "indexed_lookup_nested" # "nested_loop"
  OBVIOUS
<1>2. Candidates(s, row, right_rel) = DOMAIN right_rel.rows
  BY <1>1, Zenon DEF Candidates
<1>3. EvaluatesOn(s, join) <=> join.type # "cross" /\ join.on # {}
  BY <1>1, Zenon DEF EvaluatesOn
<1> QED BY <1>2, <1>3

\* If the loop fails for no pair, none shares an alias, and ON evaluates for all.
LEMMA LoopSucceeds ==
  ASSUME NEW join, NEW left_rel, NEW right_rel, IsSequence(right_rel.rows), NEW alias,
         JoinFailures(NestedLoop, join, left_rel, right_rel, alias) = {},
         NEW j \in DOMAIN left_rel.rows, NEW k \in DOMAIN right_rel.rows
  PROVE  /\ k \in Nat /\ Len(right_rel.rows) \in Nat /\ k <= Len(right_rel.rows)
         /\ ~DuplicateAlias(left_rel.rows[j], right_rel.rows[k])
         /\ TryPair(NestedLoop, join, left_rel.rows[j], right_rel, k, alias) \in {"true", "false"}
<1> DEFINE tried(n) == {TryPair(NestedLoop, join, left_rel.rows[n], right_rel, m, alias) :
                          m \in Candidates(NestedLoop, left_rel.rows[n], right_rel)}
           x == TryPair(NestedLoop, join, left_rel.rows[j], right_rel, k, alias)
<1>1. NestedLoop.strategy = "nested_loop"
  BY DEF NestedLoop
<1>2. Candidates(NestedLoop, left_rel.rows[j], right_rel) = DOMAIN right_rel.rows
  BY <1>1, LoopIs
<1>3. x \in tried(j)
  BY <1>2
<1>4. (UNION {tried(n) : n \in DOMAIN left_rel.rows}) \ {"true", "false"} = {}
  BY DEF JoinFailures
<1>5. k \in Nat /\ Len(right_rel.rows) \in Nat /\ k <= Len(right_rel.rows) /\ ~(k > Len(right_rel.rows))
  BY SequenceIs
<1>6. x \in {"true", "false"}
  <2> HIDE DEF tried, x
  <2> QED BY <1>3, <1>4
<1>7. ~DuplicateAlias(left_rel.rows[j], right_rel.rows[k])
  <2> SUFFICES ASSUME DuplicateAlias(left_rel.rows[j], right_rel.rows[k]) PROVE FALSE
    OBVIOUS
  <2>1. x = "duplicate alias"
    BY <1>5, Zenon DEF TryPair
  <2> HIDE DEF x
  <2> QED BY <1>6, <2>1
<1> QED BY <1>5, <1>6, <1>7

\* The index that a lookup finds is one of the right relation, as built.
LEMMA LookupIndex ==
  ASSUME NEW right_rel, AtMostOne(right_rel.cache_key), NEW kept,
         \A s \in DOMAIN kept : right_rel.cache_key = {s[1]} => kept[s] = BuildIndex(right_rel, s[2]),
         NEW p
  PROVE  LookupWith(p, relation_index_signature(right_rel, p), right_rel, kept).index
           = BuildIndex(right_rel, {t.right_column : t \in p.terms})
<1> DEFINE columns == {t.right_column : t \in p.terms}
           signature == relation_index_signature(right_rel, p)
           found == signature \cap DOMAIN kept
           s == CHOOSE s \in found : TRUE
<1>1. LookupWith(p, signature, right_rel, kept).index
        = IF found # {} THEN kept[s] ELSE BuildIndex(right_rel, columns)
  BY DEF LookupWith
<1>2. CASE found # {}
  <2>1. s \in found
    <3> HIDE DEF found
    <3> QED BY <1>2
  <2>2. signature = {<<key, columns>> : key \in right_rel.cache_key}
    BY DEF relation_index_signature
  <2> HIDE DEF s
  <2>3. s \in signature /\ s \in DOMAIN kept
    BY <2>1
  <2> HIDE DEF signature, found
  <2>4. PICK key \in right_rel.cache_key : s = <<key, columns>>
    BY <2>2, <2>3
  <2>5. right_rel.cache_key = {s[1]} /\ s[2] = columns
    BY <2>4 DEF AtMostOne
  <2>6. kept[s] = BuildIndex(right_rel, columns)
    BY <2>3, <2>5
  <2>7. LookupWith(p, signature, right_rel, kept).index = BuildIndex(right_rel, columns)
    BY <1>1, <1>2, <2>6
  <2> QED BY <2>7 DEF signature
<1>3. CASE found = {}
  BY <1>1, <1>3
<1> QED BY <1>2, <1>3
----------------------------------------------------------------------------
\* The form of a join that is planned.
LEMMA PlannedOn ==
  ASSUME NEW join, join.on \subseteq Exprs, AtMostOne(join.on), NEW left_rel, NEW right_rel,
         \/ plan_simple_hash_join(join, left_rel, right_rel) # {}
         \/ plan_index_lookup_join(join, left_rel, right_rel) # {}
  PROVE  /\ join.type # "cross" /\ join.on # {}
         /\ (CHOOSE e \in join.on : TRUE) \in Exprs /\ join.on = {CHOOSE e \in join.on : TRUE}
<1>1. Matchable(join)
  BY DEF plan_simple_hash_join, plan_index_lookup_join
<1>2. join.type # "cross" /\ join.on # {}
  BY <1>1 DEF Matchable
<1>3. (CHOOSE e \in join.on : TRUE) \in join.on
  BY <1>2
<1> QED BY <1>2, <1>3 DEF AtMostOne

MatchesOn(s, join, l, right_rel, alias) ==
  {k \in Candidates(s, l, right_rel) : TryPair(s, join, l, right_rel, k, alias) = "true"}

\* What a join may be planned for: rows of both relations whose values are spelled one way.
Comparable(left_rel, right_rel, values) ==
  /\ SpelledOneWay(values) /\ LiteralsIn(values)
  /\ \A j \in DOMAIN left_rel.rows : FieldsIn(left_rel.rows[j], values)
  /\ \A k \in DOMAIN right_rel.rows : FieldsIn(right_rel.rows[k], values)

LEMMA RowsThatFit ==
  ASSUME NEW left_rel, Sound(left_rel), NEW right_rel, NEW a, OfOneAlias(right_rel, a),
         NEW V, Comparable(left_rel, right_rel, V), NEW j \in DOMAIN left_rel.rows, NEW k \in DOMAIN right_rel.rows
  PROVE  /\ RowsFit(left_rel.rows[j], right_rel.rows[k], left_rel, right_rel, V)
         /\ DOMAIN right_rel.rows[k] = {a}
<1>1. RowOf(left_rel.rows[j], left_rel.alias_columns) /\ RowOf(right_rel.rows[k], right_rel.alias_columns)
  BY DEF OfOneAlias, Sound, Covers
<1>2. DOMAIN right_rel.alias_columns = {a}
  BY DEF OfOneAlias
<1> QED BY <1>1, <1>2 DEF RowOf, RowsFit, Comparable

\* Each row of the left relation is matched with those rows of the right one that the
\* loop matches it with.
LEMMA SameMatches ==
  ASSUME NEW join, join.on \subseteq Exprs, AtMostOne(join.on),
         NEW left_rel, Sound(left_rel), NEW right_rel, NEW a, OfOneAlias(right_rel, a),
         AtMostOne(right_rel.cache_key), NEW kept,
         \A s \in DOMAIN kept : right_rel.cache_key = {s[1]} => kept[s] = BuildIndex(right_rel, s[2]),
         NEW V, Comparable(left_rel, right_rel, V), NEW alias,
         JoinFailures(NestedLoop, join, left_rel, right_rel, alias) = {},
         NEW j \in DOMAIN left_rel.rows
  PROVE  MatchesOn(StrategyOf(join, left_rel, right_rel, kept), join, left_rel.rows[j], right_rel, alias)
           = MatchesOn(NestedLoop, join, left_rel.rows[j], right_rel, alias)
<1> DEFINE s == StrategyOf(join, left_rel, right_rel, kept)
           l == left_rel.rows[j]
           on == CHOOSE e \in join.on : TRUE
           Verdict(k) == EvalExpr(on, merge_row_aliases(l, right_rel.rows[k]), alias)
           R == DOMAIN right_rel.rows
<1>1. IsSequence(right_rel.rows)
  BY DEF OfOneAlias, Sound
<1>2. \A k \in R : /\ k \in Nat /\ Len(right_rel.rows) \in Nat /\ k <= Len(right_rel.rows)
                   /\ ~DuplicateAlias(l, right_rel.rows[k])
                   /\ TryPair(NestedLoop, join, l, right_rel, k, alias) \in {"true", "false"}
  BY <1>1, LoopSucceeds
<1>3. \A t : \A k \in R : TryPair(t, join, l, right_rel, k, alias) = IF EvaluatesOn(t, join) THEN Verdict(k) ELSE "true"
  <2> TAKE t
  <2> TAKE k \in R
  <2>1. k \in Nat /\ Len(right_rel.rows) \in Nat /\ k <= Len(right_rel.rows) /\ ~DuplicateAlias(l, right_rel.rows[k])
    BY <1>2
  <2> HIDE DEF l, R
  <2> QED BY <2>1, TriedPair
<1>4. NestedLoop.strategy = "nested_loop"
  BY DEF NestedLoop
<1>5. MatchesOn(NestedLoop, join, l, right_rel, alias)
        = {k \in R : TryPair(NestedLoop, join, l, right_rel, k, alias) = "true"}
  BY <1>4, LoopIs DEF MatchesOn
<1>6. CASE s.strategy = "nested_loop"
  <2> HIDE DEF s, l, R, Verdict
  <2>1. Candidates(s, l, right_rel) = R /\ (EvaluatesOn(s, join) <=> EvaluatesOn(NestedLoop, join))
    BY <1>4, <1>6, LoopIs DEF R
  <2>2. \A k \in R : TryPair(s, join, l, right_rel, k, alias) = TryPair(NestedLoop, join, l, right_rel, k, alias)
    BY <1>3, <2>1
  <2>3. MatchesOn(s, join, l, right_rel, alias) = MatchesOn(NestedLoop, join, l, right_rel, alias)
    BY <1>5, <2>1, <2>2 DEF MatchesOn
  <2> QED BY <2>3 DEF s, l
<1>7. ASSUME \/ plan_simple_hash_join(join, left_rel, right_rel) # {}
             \/ plan_index_lookup_join(join, left_rel, right_rel) # {}
      PROVE  /\ on \in Exprs /\ join.on = {on}
             /\ \A k \in R : Verdict(k) \in {"true", "false"}
             /\ MatchesOn(NestedLoop, join, l, right_rel, alias) = {k \in R : Verdict(k) = "true"}
  <2>1. join.type # "cross" /\ join.on # {} /\ on \in Exprs /\ join.on = {on}
    BY <1>7, PlannedOn
  <2> HIDE DEF l, R, Verdict
  <2>2. EvaluatesOn(NestedLoop, join)
    BY <1>4, <2>1, LoopIs
  <2>3. \A k \in R : TryPair(NestedLoop, join, l, right_rel, k, alias) = Verdict(k)
    BY <1>3, <2>2
  <2>4. {k \in R : TryPair(NestedLoop, join, l, right_rel, k, alias) = "true"} = {k \in R : Verdict(k) = "true"}
    BY <2>3
  <2> HIDE DEF on
  <2> QED BY <1>2, <1>5, <2>1, <2>3, <2>4
<1>8. \A k \in R : RowsFit(l, right_rel.rows[k], left_rel, right_rel, V) /\ DOMAIN right_rel.rows[k] = {a}
  BY RowsThatFit
<1>9. CASE s.strategy = "hash_equi"
  <2>1. PICK p \in plan_simple_hash_join(join, left_rel, right_rel) : s.plan = p
    BY <1>9, HashIs
  <2>2. "hash_equi" # "nested_loop" /\ "indexed_lookup_nested" # "hash_equi"
    OBVIOUS
  <2>3. Candidates(s, l, right_rel) = HashCandidates(p, l, right_rel)
    <3> HIDE DEF s
    <3> QED BY <1>9, <2>1, <2>2, Zenon DEF Candidates
  <2>4. ~EvaluatesOn(s, join)
    <3> HIDE DEF s
    <3> QED BY <1>9, <2>2, Zenon DEF EvaluatesOn
  <2>5. HashCandidates(p, l, right_rel) \subseteq R
    BY DEF HashCandidates
  <2>6. \A k \in R : k \in HashCandidates(p, l, right_rel) <=> Verdict(k) = "true"
    <3> TAKE k \in R
    <3>1. on \in Exprs /\ join.on = {on} /\ Verdict(k) # "unknown identifier"
      BY <1>7, <2>1
    <3>2. Tried(on, join, left_rel, right_rel, V, l, k, alias)
      BY <1>8, <3>1 DEF Tried
    <3> HIDE DEF l, on
    <3>3. k \in HashCandidates(p, l, right_rel) <=> HoldsFor(on, l, right_rel.rows[k], alias)
      BY <3>2, HashFinds
    <3> QED BY <3>3 DEF HoldsFor
  <2> HIDE DEF s, l, R, Verdict
  <2>7. MatchesOn(s, join, l, right_rel, alias) = {k \in R : Verdict(k) = "true"}
    BY <1>3, <2>3, <2>4, <2>5, <2>6 DEF MatchesOn
  <2>8. MatchesOn(s, join, l, right_rel, alias) = MatchesOn(NestedLoop, join, l, right_rel, alias)
    BY <1>7, <2>1, <2>7
  <2> QED BY <2>8 DEF s, l
<1>10. CASE s.strategy = "indexed_lookup_nested"
  <2>1. PICK p \in plan_index_lookup_join(join, left_rel, right_rel) :
          s = LookupWith(p, relation_index_signature(right_rel, p), right_rel, kept)
    BY <1>10, StrategyIs
  <2> DEFINE index == BuildIndex(right_rel, {t.right_column : t \in p.terms})
  <2>2. s.plan = p /\ s.index = index
    <3>1. s.plan = p
      BY <2>1 DEF LookupWith
    <3>2. s.index = index
      BY <2>1, LookupIndex
    <3> QED BY <3>1, <3>2
  <2>3. "hash_equi" # "indexed_lookup_nested" /\ "indexed_lookup_nested" # "nested_loop"
    OBVIOUS
  <2>4. Candidates(s, l, right_rel) = IndexCandidates(p, l, index)
    <3> HIDE DEF s, index
    <3> QED BY <1>10, <2>2, <2>3, Zenon DEF Candidates
  <2>5. EvaluatesOn(s, join) <=> ~p.full_on_covered
    <3> HIDE DEF s
    <3> QED BY <1>10, <2>2, <2>3, Zenon DEF EvaluatesOn
  <2>6. IndexCandidates(p, l, index) \subseteq R
    BY DEF IndexCandidates, BuildIndex
  <2>7. \A k \in R : /\ Verdict(k) = "true" => k \in IndexCandidates(p, l, index)
                     /\ p.full_on_covered /\ k \in IndexCandidates(p, l, index) => Verdict(k) = "true"
    <3> TAKE k \in R
    <3>1. on \in Exprs /\ join.on = {on} /\ Verdict(k) # "unknown identifier"
      BY <1>7, <2>1
    <3>2. Tried(on, join, left_rel, right_rel, V, l, k, alias) /\ DOMAIN right_rel.rows[k] = {a}
      BY <1>8, <3>1 DEF Tried
    <3>3. LiteralsIn(V)
      BY DEF Comparable
    <3> HIDE DEF l, on
    <3>4. /\ HoldsFor(on, l, right_rel.rows[k], alias) => k \in IndexCandidates(p, l, index)
          /\ p.full_on_covered /\ k \in IndexCandidates(p, l, index) => HoldsFor(on, l, right_rel.rows[k], alias)
      BY <3>2, <3>3, LookupFinds
    <3> QED BY <3>4 DEF HoldsFor
  <2> HIDE DEF s, l, R, Verdict, index
  <2>8. MatchesOn(s, join, l, right_rel, alias) = {k \in R : Verdict(k) = "true"}
    BY <1>3, <2>4, <2>5, <2>6, <2>7 DEF MatchesOn
  <2>9. MatchesOn(s, join, l, right_rel, alias) = MatchesOn(NestedLoop, join, l, right_rel, alias)
    BY <1>7, <2>1, <2>8
  <2> QED BY <2>9 DEF s, l
<1>11. s.strategy \in {"hash_equi", "nested_loop", "indexed_lookup_nested"}
  BY StrategyIs
<1> QED BY <1>6, <1>9, <1>10, <1>11
----------------------------------------------------------------------------
\* An index that is kept for a derived source was built of the very rows it has now: every
\* derived source has the one key of results.
DerivedIsFresh ==
  TheJoin.source.kind = "derived" =>
    \A s \in DOMAIN indexes : {s[1]} = result_key => indexes[s] = BuildIndex(RightRelation, s[2])

LEMMA KeptForTheRight ==
  ASSUME IndexInv, AboutToJoin, DerivedIsFresh
  PROVE  /\ AtMostOne(RightRelation.cache_key)
         /\ \A s \in DOMAIN indexes :
               RightRelation.cache_key = {s[1]} => indexes[s] = BuildIndex(RightRelation, s[2])
<1>1. Running /\ InJoin /\ ~TheJoin.lateral /\ Ready /\ ~UnknownCte
  BY DEF AboutToJoin
<1>2. \A cte \in CtesInScope : NumberedBelow(cte, next_relation_cache_id)
  BY DEF IndexInv, KeysAreNumbered
<1>3. AtMostOne(RightRelation.cache_key)
  BY <1>1, <1>2, RightKey DEF NumberedBelow, cte_key, result_key, AtMostOne
<1>4. ASSUME NEW s \in DOMAIN indexes, RightRelation.cache_key = {s[1]}
      PROVE  indexes[s] = BuildIndex(RightRelation, s[2])
  <2>1. RightRelation.cache_key # {}
    BY <1>4
  <2>2. CASE TheJoin.source.kind = "derived" /\ RightRelation.cache_key = result_key
    BY <1>4, <2>2 DEF DerivedIsFresh
  <2>3. ASSUME NEW cte \in CtesInScope, RightRelation.cache_key = cte[2].cache_key,
               \A columns : BuildIndex(RightRelation, columns) = BuildIndex(cte[2], columns)
        PROVE  indexes[s] = BuildIndex(RightRelation, s[2])
    BY <1>4, <2>3 DEF IndexInv, IndexesAreCurrent
  <2> QED BY <1>1, <2>1, <2>2, <2>3, RightKey
<1> QED BY <1>3, <1>4

LEMMA JoinAgrees ==
  ASSUME IndexInv, SchemaInv, Len(nodes) \in Nat, AboutToJoin, DerivedIsFresh,
         NEW V, Comparable(Top.current, RightRelation, V)
  PROVE  Agree(RightRelation)
<1>1. Running /\ InJoin /\ ~TheJoin.lateral /\ Ready /\ ~UnknownCte
  BY DEF AboutToJoin
<1>2. FrameIsSound(Top)
  BY <1>1, TopIsSound
<1>3. Sound(Top.current) /\ Top.query \in Statements \cup Subqueries /\ Top.k \in Nat \ {0}
  BY <1>2 DEF FrameIsSound
<1>4. Top.k \in DOMAIN Top.query.joins
  BY <1>1, <1>3, StatementsAssumption DEF InJoin
<1>5. TheJoin.on \subseteq Exprs /\ AtMostOne(TheJoin.on)
  BY <1>3, <1>4, StatementsAssumption DEF TheJoin
<1>6. OfOneAlias(RightRelation, AliasOf(TheJoin.source))
  BY <1>1, RightIsSound
<1>7. /\ AtMostOne(RightRelation.cache_key)
      /\ \A s \in DOMAIN indexes :
            RightRelation.cache_key = {s[1]} => indexes[s] = BuildIndex(RightRelation, s[2])
  BY KeptForTheRight
<1> DEFINE strategy == StrategyOf(TheJoin, Top.current, RightRelation, indexes)
           alias == Top.query.source.alias
           Made(s, k) == JoinedRows(TheJoin, Top.current.rows[k], RightRelation,
                                    MatchesOf(s, TheJoin, Top.current.rows[k], RightRelation, alias))
<1>8. ASSUME JoinFailures(NestedLoop, TheJoin, Top.current, RightRelation, alias) = {}
      PROVE  JoinRows(strategy, TheJoin, Top.current, RightRelation, alias)
               = JoinRows(NestedLoop, TheJoin, Top.current, RightRelation, alias)
  <2>1. \A k \in DOMAIN Top.current.rows :
          MatchesOn(strategy, TheJoin, Top.current.rows[k], RightRelation, alias)
            = MatchesOn(NestedLoop, TheJoin, Top.current.rows[k], RightRelation, alias)
    BY <1>3, <1>5, <1>6, <1>7, <1>8, SameMatches, SMTT(30)
  <2>2. \A k \in DOMAIN Top.current.rows : Made(strategy, k) = Made(NestedLoop, k)
    <3> TAKE k \in DOMAIN Top.current.rows
    <3> HIDE DEF strategy, alias
    <3>1. MatchesOf(strategy, TheJoin, Top.current.rows[k], RightRelation, alias)
            = MatchesOf(NestedLoop, TheJoin, Top.current.rows[k], RightRelation, alias)
      BY <2>1 DEF MatchesOf, MatchesOn
    <3> QED BY <3>1
  <2> HIDE DEF Made, strategy, alias
  <2>3. [k \in DOMAIN Top.current.rows |-> Made(strategy, k)] = [k \in DOMAIN Top.current.rows |-> Made(NestedLoop, k)]
    BY <2>2
  <2> QED BY <2>3 DEF JoinRows, Made
<1> QED BY <1>8 DEF Agree
----------------------------------------------------------------------------
(* The values that rows hold. *)

\* What attributes hold, and what expressions and columns are given as literals.
Held == UNION {{at[f] : f \in DOMAIN at} : at \in Attributes}

Given == UNION {{Raw(c.values[k]) : k \in DOMAIN c.values} : c \in {e \in Exprs : e.kind = "compare"}}

LiteralColumns(q) == {k \in DOMAIN q.project : q.project[k].kind = "expr" /\ q.project[k].expr.kind = "literal"}

Selectable == UNION {UNION {q.project[k].expr.value : k \in LiteralColumns(q)} : q \in Statements \cup Subqueries}

Written ==
  Held \cup Given \cup Selectable \cup {Raw(Number(n)) : n \in Int} \cup {Word(t) : t \in Tag} \cup {Blank}

AsNumber(v) == Raw([number |-> v.number, string |-> <<>>])

\* The values that there are: those, and as a field of a result keeps them.
Known == UNION {{v, Raw(v), AsNumber(v)} : v \in Written}

IsCell(v) == v \in SUBSET Known /\ AtMostOne(v)

AttributesKnown(attributes) == \A f \in DOMAIN attributes : attributes[f] \in Known

RecordKnown(r) == (\A c \in DOMAIN r.values : IsCell(r.values[c])) /\ AttributesKnown(r.attributes)

RowKnown(row) == IsFiniteSet(DOMAIN row) /\ \A a \in DOMAIN row : RecordKnown(row[a])

RowsKnown(rows_) == \A k \in DOMAIN rows_ : RowKnown(rows_[k])

AnswerKnown(r) ==
  /\ \A f \in CoreFields : IsCell(r.core[f])
  /\ \A f \in DOMAIN r.computed : IsCell(r.computed[f])
  /\ AttributesKnown(r.attributes)

ResultKnown(result) == \A k \in DOMAIN result.rows : AnswerKnown(result.rows[k])

\* Whatever a frame holds, its fields are known values, one each at most.
FrameKnown(f) ==
  /\ RowsKnown(f.current.rows) /\ RowsKnown(f.next.rows)
  /\ \A a \in DOMAIN f.ctes : RowsKnown(f.ctes[a].rows)
  /\ \A r \in f.result : ResultKnown(r)
  /\ \A row \in f.outer : RowKnown(row)

ValueInv == \A f \in ToSet(frames) : FrameKnown(f)
----------------------------------------------------------------------------
(* The values of nodes. *)

\* What a query does leaves the numbers and the depths as they are.
LEMMA QueryingKeeps ==
  ASSUME MetadataInv, phase \notin {"parse", "order", "depth"}, phase' \notin {"parse", "order", "depth"},
         nodes' = nodes, doc_order' = doc_order, max_depth' = max_depth
  PROVE  MetadataInv'
<1>1. \A n \in Node : max_depth'[n] = Height(n)'
  BY HeightsStay DEF MetadataInv, MaxDepthIsHeight
<1> QED BY <1>1 DEF MetadataInv, OrderWalk, DepthWalk, DocOrderIsNodeId, MaxDepthIsHeight, Node

LEMMA FrameStepPhase ==
  ASSUME FrameStep
  PROVE  phase = "running" /\ phase' \in {"running", "failed", "answered"}
<1>1. phase = "running"
  BY DEF FrameStep, Running
<1>2. \A q, outer : Call(q, outer) => phase' = phase
  BY DEF Call
<1>3. \A what : Fail(what) => phase' = "failed"
  BY DEF Fail
<1>4. \A f : Progress(f) => phase' = phase
  BY DEF Progress
<1>5. \A result : Answers(result) => phase' \in {phase, "answered"}
  BY DEF Answers
<1>6. EvaluateCte \/ EvaluateDerived => phase' = phase
  BY <1>2 DEF EvaluateCte, EvaluateDerived
<1>7. DefineCte \/ LateralEnds => phase' = phase
  BY <1>4 DEF DefineCte, LateralEnds
<1>8. OpenSource => phase' \in {phase, "failed"}
  BY <1>3, <1>4 DEF OpenSource, Opened
<1>9. Join => phase' \in {phase, "failed"}
  BY <1>3, <1>4 DEF Join, JoinWith
<1>10. LateralRow => phase' \in {phase, "failed"}
  BY <1>3, <1>4 DEF LateralRow, LateralWith
<1>11. Where => phase' \in {phase, "failed"}
  BY <1>3, <1>4 DEF Where
<1>12. Finish => phase' \in {phase, "failed", "answered"}
  BY <1>3, <1>5 DEF Finish
<1> QED BY <1>1, <1>6, <1>7, <1>8, <1>9, <1>10, <1>11, <1>12 DEF FrameStep

LEMMA RelMetadataInv == RelSpec => []MetadataInv
<1>1. RelInit => MetadataInv
  <2> SUFFICES ASSUME RelInit PROVE MetadataInv
    OBVIOUS
  <2>1. phase = "parse" /\ doc_order = <<>> /\ nodes = <<>>
    BY DEF RelInit, Init, DocInit
  <2>2. doc_order \in Seq(Nat) /\ Len(doc_order) = 0
    BY <2>1
  <2> QED BY <2>1, <2>2 DEF MetadataInv, OrderWalk, DepthWalk, DocOrderIsNodeId, MaxDepthIsHeight
<1>2. DocInv /\ MetadataInv /\ [RelNext]_relVars => MetadataInv'
  <2> SUFFICES ASSUME DocInv, MetadataInv, [RelNext]_relVars PROVE MetadataInv'
    OBVIOUS
  <2>1. CASE DocNext /\ UNCHANGED <<query, rows, runtime>>
    BY <2>1, WalksKeep DEF Next
  <2>2. CASE (\E q \in Statements : Start(q)) /\ UNCHANGED <<html, i, nodes, stack, doc_order, max_depth, walk>>
    <3>1. phase = "parsed" /\ phase' = "running"
      BY <2>2 DEF Start
    <3> QED BY <2>2, <3>1, QueryingKeeps
  <2>3. CASE FrameStep /\ UNCHANGED <<html, i, nodes, stack, doc_order, max_depth, walk>>
    BY <2>3, FrameStepPhase, QueryingKeeps
  <2>4. CASE UNCHANGED relVars
    <3>1. UNCHANGED docVars
      BY <2>4 DEF relVars
    <3> QED BY <3>1, StutteringKeeps
  <2> QED BY <2>1, <2>2, <2>3, <2>4 DEF RelNext
<1> QED BY <1>1, <1>2, RelDocInv, PTL DEF RelSpec

LEMMA WrittenIsKnown == \A v \in Written : v \in Known
BY DEF Known

LEMMA RawStays ==
  ASSUME NEW v
  PROVE  Raw(Raw(v)) = Raw(v) /\ Raw(v).number = v.number
<1>1. CASE v.number = {} \/ v.string # <<>>
  <2>1. Raw(v) = v
    BY <1>1 DEF Raw
  <2> QED BY <2>1
<1>2. CASE ~(v.number = {} \/ v.string # <<>>)
  <2> DEFINE w == [v EXCEPT !.string = <<ToString(CHOOSE n \in v.number : TRUE)>>]
  <2>1. Raw(v) = w
    BY <1>2, Zenon DEF Raw
  <2>2. w.number = v.number
    OBVIOUS
  <2>3. Raw(w) \in {w, [w EXCEPT !.string = <<ToString(CHOOSE n \in w.number : TRUE)>>]}
    BY Zenon DEF Raw
  <2>4. [w EXCEPT !.string = <<ToString(CHOOSE n \in v.number : TRUE)>>] = w
    <3> DEFINE c == <<ToString(CHOOSE n \in v.number : TRUE)>>
    <3> HIDE DEF c
    <3>1. \A u : [[u EXCEPT !.string = c] EXCEPT !.string = c] = [u EXCEPT !.string = c]
      OBVIOUS
    <3> QED BY <3>1 DEF c
  <2>5. Raw(w) = w
    BY <2>2, <2>3, <2>4, Zenon
  <2> QED BY <2>1, <2>2, <2>5
<1> QED BY <1>1, <1>2

LEMMA OneValue == \A v \in Known : IsCell({v})
BY DEF IsCell, AtMostOne

LEMMA NoValue == IsCell(Null)
BY DEF IsCell, AtMostOne, Null

\* The fields of a node are numbers, and its tag a word.
LEMMA NodeCells ==
  ASSUME DocInv, MetadataInv, Running, NEW n \in Node
  PROVE  /\ \A f \in CoreFields : IsCell(NodeCore(n)[f])
         /\ AttributesKnown(nodes[n].attributes)
<1>1. Table /\ n \in Nat /\ n \in 1 .. Len(nodes) /\ Len(nodes) \in Nat
  BY ParsedTable DEF Table, Node
<1>2. nodes[n].tag \in Tag /\ nodes[n].attributes \in Attributes /\ nodes[n].parent \in Nat
  <2>1. nodes \in Seq(TableRecord)
    BY DEF DocInv, DocTypeOK, TableRecord
  <2>2. nodes[n] \in TableRecord
    BY <1>1, <2>1
  <2> QED BY <2>2 DEF TableRecord
<1>3. max_depth[n] \in Int
  <2>1. max_depth[n] = Height(n)
    BY DEF MetadataInv, MaxDepthIsHeight, Running
  <2> QED BY <1>1, <2>1, HeightIsMax
<1>4. number_of(n, "doc_order") = {n}
  <2>1. number_of(n, "doc_order") = {k \in DOMAIN doc_order : doc_order[k] = n}
    BY Zenon DEF number_of
  <2>2. doc_order \in Seq(Nat) /\ Len(doc_order) = Len(nodes) /\ \A k \in 1 .. Len(doc_order) : doc_order[k] = k
    BY DEF MetadataInv, DocOrderIsNodeId, Running
  <2> QED BY <1>1, <2>1, <2>2
<1>5. SiblingPos(n) \in Int
  <2> DEFINE S == {k \in Kids(nodes[n].parent) : k <= n}
  <2>1. IsFiniteSet(S)
    <3>1. IsFiniteSet(Node)
      BY <1>1, FS_Interval DEF Node
    <3>2. S \subseteq Node
      BY DEF Kids
    <3> HIDE DEF S
    <3> QED BY <3>1, <3>2, FS_Subset
  <2>2. Cardinality(S) \in Nat
    BY <2>1, FS_CardinalityType
  <2> QED BY <2>2 DEF SiblingPos
<1>6. \A x \in Int : Raw(Number(x)) \in Known
  BY WrittenIsKnown DEF Written
<1>7. ASSUME NEW f \in NumberFields PROVE number_of(n, f) \in SUBSET Int /\ AtMostOne(number_of(n, f))
  <2>1. CASE f = "node_id"
    <3>1. number_of(n, f) = {n}
      BY <2>1, Zenon DEF number_of
    <3> QED BY <1>1, <3>1 DEF AtMostOne
  <2>2. CASE f = "parent_id"
    <3>1. number_of(n, f) = {nodes[n].parent} \ {0}
      BY <2>2, Zenon DEF number_of
    <3> QED BY <1>2, <3>1 DEF AtMostOne
  <2>3. CASE f = "sibling_pos"
    <3>1. number_of(n, f) = {SiblingPos(n)}
      BY <2>3, Zenon DEF number_of
    <3> QED BY <1>5, <3>1 DEF AtMostOne
  <2>4. CASE f = "max_depth"
    <3>1. number_of(n, f) = {max_depth[n]}
      BY <2>4, Zenon DEF number_of
    <3> QED BY <1>3, <3>1 DEF AtMostOne
  <2>5. CASE f = "doc_order"
    BY <1>1, <1>4, <2>5 DEF AtMostOne
  <2> QED BY <2>1, <2>2, <2>3, <2>4, <2>5 DEF NumberFields
<1>8. ASSUME NEW f \in CoreFields PROVE IsCell(NodeCore(n)[f])
  <2>1. NodeCore(n)[f] = {Raw(v) : v \in values_of(n, f)}
    BY DEF NodeCore
  <2>2. CASE f \in NumberFields
    <3>0. f # "tag"
      BY <2>2 DEF NumberFields
    <3>1. values_of(n, f) = {Number(x) : x \in number_of(n, f)}
      BY <2>2, <3>0, Zenon DEF values_of
    <3> DEFINE S == number_of(n, f)
    <3>2. S \in SUBSET Int /\ AtMostOne(S)
      BY <1>7, <2>2
    <3> HIDE DEF S
    <3>3. NodeCore(n)[f] = {Raw(Number(x)) : x \in S}
      BY <2>1, <3>1 DEF S
    <3>4. AtMostOne(NodeCore(n)[f])
      BY <3>2, <3>3 DEF AtMostOne
    <3>5. NodeCore(n)[f] \subseteq Known
      BY <1>6, <3>2, <3>3
    <3> QED BY <3>4, <3>5 DEF IsCell
  <2>3. CASE f = "tag"
    <3>1. f \notin NumberFields
      BY <2>3 DEF NumberFields
    <3>2. values_of(n, f) = {Word(nodes[n].tag)}
      BY <2>3, <3>1, Zenon DEF values_of
    <3>3. Raw(Word(nodes[n].tag)) = Word(nodes[n].tag)
      BY DEF Raw, Word
    <3>4. NodeCore(n)[f] = {Word(nodes[n].tag)}
      BY <2>1, <3>2, <3>3
    <3>5. Word(nodes[n].tag) \in Known
      BY <1>2, WrittenIsKnown DEF Written
    <3> QED BY <3>4, <3>5, OneValue
  <2> QED BY <2>2, <2>3 DEF CoreFields
<1>9. AttributesKnown(nodes[n].attributes)
  <2>1. \A f \in DOMAIN nodes[n].attributes : nodes[n].attributes[f] \in Held
    BY <1>2 DEF Held
  <2> QED BY <2>1, WrittenIsKnown DEF AttributesKnown, Written
<1> QED BY <1>8, <1>9
----------------------------------------------------------------------------
\* Kept as a string, or read as a number, a known value is one.
LEMMA StaysKnown ==
  ASSUME NEW v \in Known
  PROVE  Raw(v) \in Known /\ AsNumber(v) \in Known
<1>1. PICK w \in Written : v \in {w, Raw(w), AsNumber(w)}
  BY DEF Known
<1>2. w \in Known /\ Raw(w) \in Known /\ AsNumber(w) \in Known
  BY DEF Known
<1>3. Raw(w).number = w.number /\ Raw(Raw(w)) = Raw(w)
  BY RawStays
<1> DEFINE n(u) == [number |-> u.number, string |-> <<>>]
<1>4. Raw(AsNumber(w)) = AsNumber(w) /\ AsNumber(w).number = w.number
  <2>1. Raw(n(w)).number = n(w).number /\ Raw(Raw(n(w))) = Raw(n(w))
    BY RawStays
  <2>2. AsNumber(w) = Raw(n(w)) /\ n(w).number = w.number
    BY DEF AsNumber
  <2> QED BY <2>1, <2>2
<1>5. \A u : u.number = w.number => AsNumber(u) = AsNumber(w)
  BY DEF AsNumber
<1> QED BY <1>1, <1>2, <1>3, <1>4, <1>5

LEMMA ParsedKnown ==
  ASSUME NEW field, NEW value, IsCell(value)
  PROVE  IsCell(Parsed(field, value))
<1>1. CASE field \notin NumberFields
  BY <1>1 DEF Parsed
<1>2. CASE field \in NumberFields
  <2> DEFINE some == {w \in value : w.number # {}}
  <2>1. Parsed(field, value) = {AsNumber(v) : v \in some}
    BY <1>2 DEF Parsed, AsNumber
  <2>2. some \subseteq value
    OBVIOUS
  <2> HIDE DEF some
  <2>3. \A v \in some : AsNumber(v) \in Known
    BY <2>2, StaysKnown DEF IsCell
  <2>4. \A u, v \in some : u = v
    BY <2>2 DEF IsCell, AtMostOne
  <2> QED BY <2>1, <2>3, <2>4 DEF IsCell, AtMostOne
<1> QED BY <1>1, <1>2

\* At most one cell, as a union of cells is written.
LEMMA OneCell ==
  ASSUME NEW S, AtMostOne(S), \A x \in S : IsCell(x)
  PROVE  IsCell(UNION S)
<1>1. CASE S = {}
  BY <1>1, NoValue DEF Null
<1>2. ASSUME NEW y \in S PROVE IsCell(UNION S)
  <2>1. S = {y}
    BY DEF AtMostOne
  <2>2. UNION S = y
    BY <2>1
  <2> QED BY <2>2
<1> QED BY <1>1, <1>2
----------------------------------------------------------------------------
(* What is read off rows. *)

\* The records that an operand means are one at most, of those that the row has.
LEMMA ResolvedIs ==
  ASSUME NEW row, IsFiniteSet(DOMAIN row), NEW qualifier, AtMostOne(qualifier), NEW active, AtMostOne(active)
  PROVE  /\ AtMostOne(resolve_record(row, qualifier, active))
         /\ qualifier = {} => resolve_record(row, qualifier, active) \subseteq DOMAIN row
<1>1. CASE qualifier # {}
  BY <1>1 DEF resolve_record
<1>2. CASE qualifier = {} /\ active \cap DOMAIN row # {}
  BY <1>2 DEF resolve_record, AtMostOne
<1>3. CASE qualifier = {} /\ active \cap DOMAIN row = {} /\ Cardinality(DOMAIN row) = 1
  <2>1. PICK a : DOMAIN row = {a}
    BY <1>3, FS_Singleton
  <2> QED BY <1>3, <2>1 DEF resolve_record, AtMostOne
<1>4. CASE qualifier = {} /\ active \cap DOMAIN row = {} /\ Cardinality(DOMAIN row) # 1
  BY <1>4 DEF resolve_record, AtMostOne
<1> QED BY <1>1, <1>2, <1>3, <1>4

LEMMA FieldKnown ==
  ASSUME NEW row, RowKnown(row), NEW record, AtMostOne(record), NEW column
  PROVE  FieldOf(record, column, row) = Unbound \/ IsCell(FieldOf(record, column, row))
<1> SUFFICES ASSUME record \subseteq DOMAIN row PROVE IsCell(FieldOf(record, column, row))
  BY DEF FieldOf
<1> DEFINE S == {row[a].values[column] : a \in {b \in record : column \in DOMAIN row[b].values}}
<1>1. FieldOf(record, column, row) = UNION S
  BY DEF FieldOf
<1>2. AtMostOne(S)
  BY DEF AtMostOne
<1>3. ASSUME NEW x \in S PROVE IsCell(x)
  <2>1. PICK a \in record : column \in DOMAIN row[a].values /\ x = row[a].values[column]
    OBVIOUS
  <2> QED BY <2>1 DEF RowKnown, RecordKnown
<1> HIDE DEF S
<1> QED BY <1>1, <1>2, <1>3, OneCell

LEMMA OperandKnown ==
  ASSUME NEW row, RowKnown(row), NEW o, AtMostOne(o.qualifier), NEW active, AtMostOne(active)
  PROVE  relation_operand_value(o, row, active) = Unbound \/ IsCell(relation_operand_value(o, row, active))
<1>1. AtMostOne(resolve_record(row, o.qualifier, active))
  BY ResolvedIs DEF RowKnown
<1> QED BY <1>1, FieldKnown DEF relation_operand_value

\* COALESCE takes one of its operands, or nothing.
LEMMA CoalescedIs ==
  ASSUME NEW n \in Nat, NEW given, DOMAIN given = 1 .. n
  PROVE  Coalesced(given) = Null \/ \E k \in DOMAIN given : Coalesced(given) = given[k]
<1> DEFINE kept == {k \in DOMAIN given : given[k] = Unbound \/ \E v \in given[k] : v.string # <<>>}
<1>1. Coalesced(given) = IF kept = {} THEN Null ELSE given[Min(kept)]
  BY DEF Coalesced
<1>2. kept \subseteq DOMAIN given
  OBVIOUS
<1> HIDE DEF kept
<1>3. CASE kept # {}
  <2>1. kept \in SUBSET Nat
    BY <1>2
  <2>2. \E m \in kept : \A k \in kept : m <= k
    BY <1>3, <2>1, LeastNat
  <2>3. Min(kept) \in kept
    BY <2>2 DEF Min
  <2> QED BY <1>1, <1>2, <1>3, <2>3
<1> QED BY <1>1, <1>3

LEMMA ScalarKnown ==
  ASSUME NEW row, RowKnown(row), NEW s, IsScalar(s), s.kind = "literal" => IsCell(s.value),
         NEW active, AtMostOne(active)
  PROVE  LET value == eval_relation_scalar_expr(s, row, active) IN value = Unbound \/ IsCell(value)
<1>0. "operand" # "literal" /\ "operand" # "coalesce" /\ "literal" # "coalesce"
  OBVIOUS
<1>1. CASE s.kind = "operand"
  <2>1. eval_relation_scalar_expr(s, row, active) = relation_operand_value(s, row, active)
    BY <1>0, <1>1, Zenon DEF eval_relation_scalar_expr
  <2>2. AtMostOne(s.qualifier)
    BY <1>0, <1>1 DEF IsScalar, IsOperand
  <2> QED BY <2>1, <2>2, OperandKnown
<1>2. CASE s.kind = "literal"
  <2>1. eval_relation_scalar_expr(s, row, active) = s.value
    BY <1>0, <1>2, Zenon DEF eval_relation_scalar_expr
  <2> QED BY <1>2, <2>1
<1>3. CASE s.kind = "coalesce"
  <2> DEFINE given == [k \in DOMAIN s.args |-> relation_operand_value(s.args[k], row, active)]
  <2>1. eval_relation_scalar_expr(s, row, active) = Coalesced(given)
    BY <1>0, <1>3, Zenon DEF eval_relation_scalar_expr
  <2>2. s.args \in Seq(ToSet(s.args)) /\ \A k \in DOMAIN s.args : AtMostOne(s.args[k].qualifier)
    BY <1>0, <1>3 DEF IsScalar, IsOperand
  <2>3. DOMAIN given = 1 .. Len(s.args) /\ Len(s.args) \in Nat
    BY <2>2
  <2>4. \A k \in DOMAIN given : given[k] = Unbound \/ IsCell(given[k])
    <3> TAKE k \in DOMAIN given
    <3>1. given[k] = relation_operand_value(s.args[k], row, active) /\ AtMostOne(s.args[k].qualifier)
      BY <2>2
    <3> HIDE DEF given
    <3> QED BY <3>1, OperandKnown
  <2> HIDE DEF given
  <2> QED BY <2>1, <2>3, <2>4, CoalescedIs, NoValue
<1> QED BY <1>1, <1>2, <1>3 DEF IsScalar
----------------------------------------------------------------------------
LEMMA FirstVisitedIs == \A S : FirstVisited(S) \subseteq S
BY DEF FirstVisited

LEMMA LastVisitedIs ==
  ASSUME NEW S
  PROVE  LastVisited(S) \subseteq S /\ AtMostOne(LastVisited(S))
<1> DEFINE at == {k \in DOMAIN Visits : Visits[k] \in S}
           last == {j \in at : \A m \in at : m <= j}
<1>1. LastVisited(S) = {Visits[k] : k \in last}
  BY DEF LastVisited
<1>2. at \subseteq Nat /\ \A k \in at : Visits[k] \in S
  BY VisitsAssumption
<1> HIDE DEF at
<1>3. \A j, k \in last : j \in Nat /\ k \in Nat /\ j <= k /\ k <= j
  BY <1>2
<1>4. AtMostOne(last) /\ last \subseteq at
  BY <1>3 DEF AtMostOne
<1> HIDE DEF last
<1> QED BY <1>1, <1>2, <1>4 DEF AtMostOne

LEMMA NamedFieldKnown ==
  ASSUME NEW row, RowKnown(row), NEW alias, AtMostOne(alias), NEW field, NEW active, AtMostOne(active)
  PROVE  IsCell(relation_field_by_name(row, alias, field, active))
<1> DEFINE column == <<"self", field>>
           having == {a \in DOMAIN row : column \in DOMAIN row[a].values}
           last == LastVisited(having)
           cells(aliases) == {row[a].values[column] : a \in aliases \cap having}
           result == relation_field_by_name(row, alias, field, active)
<1>1. ASSUME NEW aliases, AtMostOne(aliases) PROVE IsCell(UNION (cells(aliases)))
  <2>1. AtMostOne(cells(aliases))
    BY <1>1 DEF AtMostOne
  <2>2. \A x \in cells(aliases) : IsCell(x)
    BY DEF RowKnown, RecordKnown
  <2> HIDE DEF cells
  <2> QED BY <2>1, <2>2, OneCell
<1>2. result \in {UNION (cells(alias)), UNION (cells(active)), Null, UNION (cells(last))}
  BY DEF relation_field_by_name
<1>3. AtMostOne(last)
  BY LastVisitedIs
<1> HIDE DEF cells, last, result
<1>4. IsCell(result)
  BY <1>1, <1>2, <1>3, NoValue
<1> QED BY <1>4 DEF result

LEMMA KeyValueKnown ==
  ASSUME NEW row, RowKnown(row), NEW key
  PROVE  IsCell(relation_row_key_value(row, key))
BY NoValue DEF relation_row_key_value, RowKnown, RecordKnown

LEMMA DefaultsKnown == \A f \in CoreFields : IsCell(DefaultCore[f])
<1> TAKE f \in CoreFields
<1>1. Raw(Number(1)) \in Known /\ Raw(Number(0)) \in Known /\ Blank \in Known
  BY WrittenIsKnown DEF Written
<1>2. DefaultCore[f] \in {Null, {Blank}, {Raw(Number(1))}, {Raw(Number(0))}}
  <2> DEFINE d(g) == CASE g = "parent_id" -> Null
                       [] g = "tag" -> {Blank}
                       [] g \in {"node_id", "doc_order"} -> {Raw(Number(1))}
                       [] OTHER -> {Raw(Number(0))}
  <2>1. DefaultCore[f] = d(f)
    BY DEF DefaultCore
  <2>2. CASE f = "parent_id"
    BY <2>1, <2>2
  <2>3. CASE f = "tag"
    BY <2>1, <2>3
  <2>4. CASE f \in {"node_id", "doc_order"}
    BY <2>1, <2>4
  <2>5. CASE f \notin {"parent_id", "tag", "node_id", "doc_order"}
    BY <2>1, <2>5
  <2> QED BY <2>2, <2>3, <2>4, <2>5
<1> QED BY <1>1, <1>2, OneValue, NoValue

LEMMA CoreKnown ==
  ASSUME NEW record, RecordKnown(record), NEW f \in CoreFields
  PROVE  IsCell(CoreOf(record)[f])
<1> DEFINE own == IF <<"self", f>> \in DOMAIN record.values THEN record.values[<<"self", f>>] ELSE Null
           value == Parsed(f, own)
<1>1. CoreOf(record)[f] = IF value # Null THEN value ELSE DefaultCore[f]
  BY DEF CoreOf
<1>2. IsCell(own)
  BY NoValue DEF RecordKnown
<1> HIDE DEF own
<1>3. IsCell(value)
  BY <1>2, ParsedKnown
<1> HIDE DEF value
<1> QED BY <1>1, <1>3, DefaultsKnown
----------------------------------------------------------------------------
(* The rows of a result. *)

LEMMA RowOfRecord ==
  ASSUME NEW record, RecordKnown(record)
  PROVE  AnswerKnown(ResultRow(CoreOf(record), record.attributes, <<>>))
<1> DEFINE r == ResultRow(CoreOf(record), record.attributes, <<>>)
<1>1. r.core = CoreOf(record) /\ r.attributes = record.attributes /\ r.computed = <<>> /\ DOMAIN <<>> = {}
  BY DEF ResultRow
<1> HIDE DEF r
<1>2. AnswerKnown(r)
  BY <1>1, CoreKnown DEF AnswerKnown, RecordKnown
<1> QED BY <1>2 DEF r

LEMMA EmptyRowKnown ==
  /\ AnswerKnown(ResultRow(DefaultCore, <<>>, <<>>))
  /\ \A n \in Int : AnswerKnown(CountRow(n))
<1>0. DOMAIN <<>> = {}
  OBVIOUS
<1>1. ASSUME NEW core, \A f \in CoreFields : IsCell(core[f])
      PROVE  AnswerKnown(ResultRow(core, <<>>, <<>>))
  BY <1>0, <1>1 DEF AnswerKnown, ResultRow, AttributesKnown
<1>2. ASSUME NEW n \in Int PROVE AnswerKnown(CountRow(n))
  <2> DEFINE core == [DefaultCore EXCEPT !["node_id"] = {Raw(Number(n))}]
  <2>1. IsCell({Raw(Number(n))})
    BY WrittenIsKnown, OneValue DEF Written
  <2>2. \A f \in CoreFields : core[f] \in {DefaultCore[f], {Raw(Number(n))}}
    BY DEF DefaultCore
  <2>3. CountRow(n) = ResultRow(core, <<>>, <<>>)
    BY DEF CountRow
  <2> HIDE DEF core
  <2>4. \A f \in CoreFields : IsCell(core[f])
    BY <2>1, <2>2, DefaultsKnown
  <2> QED BY <1>1, <2>3, <2>4
<1> QED BY <1>1, <1>2, DefaultsKnown

\* A SELECT of a name takes a record of the row.
LEMMA SelectedKnown ==
  ASSUME NEW name, NEW row, RowKnown(row), NEW active, AtMostOne(active)
  PROVE  \/ SelectedRow(name, row, active) = <<>>
         \/ \E r : AnswerKnown(r) /\ SelectedRow(name, row, active) = <<r>>
<1> DEFINE chosen == SelectedAlias(name, row, active)
           tagged == {a \in DOMAIN row : \E v \in CoreOf(row[a])["tag"] : v.string = <<name>>}
           record == row[CHOOSE a \in chosen : TRUE]
           r == ResultRow(CoreOf(record), record.attributes, <<>>)
<1>1. SelectedRow(name, row, active) = IF chosen = {} THEN <<>> ELSE <<r>>
  BY DEF SelectedRow
<1>2. chosen \subseteq DOMAIN row
  <2>1. tagged \subseteq DOMAIN row
    OBVIOUS
  <2> DEFINE whole == IF active \cap DOMAIN row # {} THEN active ELSE FirstVisited(DOMAIN row)
  <2> HIDE DEF tagged
  <2>2. whole \subseteq DOMAIN row
    BY FirstVisitedIs DEF AtMostOne
  <2>3. CASE name = "*"
    <3>1. chosen = whole
      BY <2>3, Zenon DEF SelectedAlias
    <3> QED BY <2>2, <3>1
  <2>4. CASE name # "*" /\ name \in DOMAIN row
    <3>1. chosen = {name}
      BY <2>4, Zenon DEF SelectedAlias
    <3> QED BY <2>4, <3>1
  <2>5. CASE name # "*" /\ name \notin DOMAIN row
    <3>1. chosen = FirstVisited(tagged)
      BY <2>5, Zenon DEF SelectedAlias, tagged
    <3> QED BY <2>1, <3>1, FirstVisitedIs
  <2> QED BY <2>3, <2>4, <2>5
<1> HIDE DEF chosen
<1>3. ASSUME chosen # {} PROVE AnswerKnown(r)
  <2>1. RecordKnown(record)
    BY <1>2, <1>3 DEF RowKnown
  <2> HIDE DEF record
  <2> QED BY <2>1, RowOfRecord
<1> HIDE DEF r
<1> QED BY <1>1, <1>3

LEMMA SeedKnown ==
  ASSUME NEW q, AtMostOne(q.source.alias), NEW row, RowKnown(row)
  PROVE  AnswerKnown(SeedRow(q, row))
<1> DEFINE seed == resolve_record(row, {}, q.source.alias)
           record == row[CHOOSE a \in seed : TRUE]
           r == ResultRow(CoreOf(record), record.attributes, <<>>)
<1>1. SeedRow(q, row) = IF seed = {} THEN ResultRow(DefaultCore, <<>>, <<>>) ELSE r
  BY DEF SeedRow
<1>2. seed \subseteq DOMAIN row
  <2>1. AtMostOne({})
    BY DEF AtMostOne
  <2> QED BY <2>1, ResolvedIs DEF RowKnown
<1> HIDE DEF seed
<1>3. ASSUME seed # {} PROVE AnswerKnown(r)
  <2>1. RecordKnown(record)
    BY <1>2, <1>3 DEF RowKnown
  <2> HIDE DEF record
  <2> QED BY <2>1, RowOfRecord
<1> HIDE DEF r
<1> QED BY <1>1, <1>3, EmptyRowKnown

\* What a query gives as literals is known.
LEMMA LiteralKnown ==
  ASSUME NEW q \in Statements \cup Subqueries, NEW k \in DOMAIN q.project, q.project[k].kind = "expr"
  PROVE  IsScalar(q.project[k].expr) /\ (q.project[k].expr.kind = "literal" => IsCell(q.project[k].expr.value))
<1>1. IsScalar(q.project[k].expr)
  BY StatementsAssumption
<1>2. ASSUME q.project[k].expr.kind = "literal" PROVE IsCell(q.project[k].expr.value)
  <2> DEFINE e == q.project[k].expr
             own == {q.project[j].expr.value : j \in LiteralColumns(q)}
  <2>1. "literal" # "operand" /\ "literal" # "coalesce"
    OBVIOUS
  <2>2. AtMostOne(e.value)
    BY <1>1, <1>2, <2>1 DEF IsScalar
  <2>3. e.value \in own
    BY <1>2 DEF LiteralColumns
  <2>4. \A v \in e.value : v \in UNION own
    BY <2>3
  <2>5. \A v \in UNION own : v \in Selectable
    BY DEF Selectable
  <2>6. \A v \in e.value : v \in Known
    BY <2>4, <2>5, WrittenIsKnown DEF Written
  <2> QED BY <2>2, <2>6 DEF IsCell
<1> QED BY <1>1, <1>2

LEMMA ColumnKnown ==
  ASSUME NEW q \in Statements \cup Subqueries, NEW k \in DOMAIN q.project, NEW row, RowKnown(row)
  PROVE  LET value == ColumnValue(q.project[k], row, q.source.alias) IN value = Unbound \/ IsCell(value)
<1> DEFINE item == q.project[k]
           active == q.source.alias
           value == ColumnValue(item, row, active)
<1>0. AtMostOne(active) /\ "expr" # "field"
  BY StatementsAssumption
<1>1. CASE item.kind = "expr"
  <2>1. value = eval_relation_scalar_expr(item.expr, row, active)
    BY <1>0, <1>1, Zenon DEF ColumnValue
  <2>2. IsScalar(item.expr) /\ (item.expr.kind = "literal" => IsCell(item.expr.value))
    BY <1>1, LiteralKnown
  <2> HIDE DEF item, active, value
  <2>3. value = Unbound \/ IsCell(value)
    BY <1>0, <2>1, <2>2, ScalarKnown
  <2> QED BY <2>3 DEF value, item, active
<1>2. CASE item.kind = "field" /\ item.tag \in DOMAIN row
  <2>1. value = relation_row_key_value(row, [alias |-> item.tag, column |-> <<"self", item.name>>])
    BY <1>0, <1>2, Zenon DEF ColumnValue
  <2> QED BY <2>1, KeyValueKnown
<1>3. CASE item.kind # "expr" /\ ~(item.kind = "field" /\ item.tag \in DOMAIN row)
  <2>1. value = relation_field_by_name(row, {}, item.name, active)
    BY <1>3, Zenon DEF ColumnValue
  <2>2. AtMostOne({})
    BY DEF AtMostOne
  <2> QED BY <1>0, <2>1, <2>2, NamedFieldKnown
<1> QED BY <1>1, <1>2, <1>3
----------------------------------------------------------------------------
\* Of the columns of a name one is assigned.
LEMMA ByNameKnown ==
  ASSUME NEW project, DOMAIN project \subseteq Nat, NEW values, \A k \in DOMAIN project : IsCell(values[k]),
         NEW name \in DOMAIN ByName(project, values)
  PROVE  IsCell(ByName(project, values)[name])
<1> DEFINE given == {k \in DOMAIN project : project[k].name = name /\ values[k] # Null}
           last == {j \in given : \A m \in given : m <= j}
           cells == {values[k] : k \in last}
<1>1. ByName(project, values)[name] = UNION cells
  BY DEF ByName
<1>2. given \subseteq DOMAIN project
  OBVIOUS
<1> HIDE DEF given
<1>3. \A j, k \in last : j \in Nat /\ k \in Nat /\ j <= k /\ k <= j
  BY <1>2
<1>4. AtMostOne(last) /\ last \subseteq DOMAIN project
  BY <1>2, <1>3 DEF AtMostOne
<1> HIDE DEF last
<1>5. AtMostOne(cells) /\ \A x \in cells : IsCell(x)
  BY <1>4 DEF AtMostOne
<1> HIDE DEF cells
<1> QED BY <1>1, <1>5, OneCell

LEMMA AssignedKnown ==
  ASSUME NEW base, AnswerKnown(base), DOMAIN base = {"core", "attributes", "computed"},
         NEW given, \A f \in DOMAIN given : IsCell(given[f])
  PROVE  AnswerKnown(Assigned(base, given))
<1> DEFINE core == [f \in CoreFields |->
                      IF f \in DOMAIN given /\ given[f] # Null THEN given[f] ELSE base.core[f]]
           computed == [f \in {g \in DOMAIN given \ CoreFields : given[g] # Null} |-> given[f]]
           r == Assigned(base, given)
<1>1. \A f \in CoreFields : IsCell(core[f])
  BY DEF AnswerKnown
<1>2. \A f \in DOMAIN computed : IsCell(computed[f])
  OBVIOUS
<1>3. r = [base EXCEPT !.core = core, !.computed = computed]
  BY DEF Assigned
<1> HIDE DEF core, computed, r
<1>4. r.core = core /\ r.computed = computed /\ r.attributes = base.attributes
  BY <1>3
<1>5. AnswerKnown(r)
  BY <1>1, <1>2, <1>4 DEF AnswerKnown
<1> QED BY <1>5 DEF r

LEMMA ProjectedKnown ==
  ASSUME NEW q \in Statements \cup Subqueries, NEW row, RowKnown(row),
         \A k \in DOMAIN q.project : ColumnValue(q.project[k], row, q.source.alias) # Unbound
  PROVE  AnswerKnown(ProjectedRow(q, row))
<1> DEFINE values == [k \in DOMAIN q.project |->
                        Parsed(q.project[k].name, ColumnValue(q.project[k], row, q.source.alias))]
           given == ByName(q.project, values)
           base == SeedRow(q, row)
<1>1. ProjectedRow(q, row) = Assigned(base, given)
  BY DEF ProjectedRow
<1>2. AtMostOne(q.source.alias) /\ DOMAIN q.project \subseteq Nat
  BY StatementsAssumption
<1>3. AnswerKnown(base)
  BY <1>2, SeedKnown
<1>4. DOMAIN base = {"core", "attributes", "computed"}
  <2>1. \A core, attributes, computed :
          DOMAIN ResultRow(core, attributes, computed) = {"core", "attributes", "computed"}
    BY DEF ResultRow
  <2>2. \E core, attributes, computed : base = ResultRow(core, attributes, computed)
    BY DEF SeedRow
  <2> QED BY <2>1, <2>2
<1>5. \A k \in DOMAIN q.project : IsCell(values[k])
  <2> TAKE k \in DOMAIN q.project
  <2> DEFINE value == ColumnValue(q.project[k], row, q.source.alias)
  <2>1. values[k] = Parsed(q.project[k].name, value)
    OBVIOUS
  <2>2. IsCell(value)
    BY ColumnKnown
  <2> HIDE DEF values, value
  <2> QED BY <2>1, <2>2, ParsedKnown
<1> HIDE DEF values, base
<1>6. \A f \in DOMAIN given : IsCell(given[f])
  BY <1>2, <1>5, ByNameKnown
<1> HIDE DEF given
<1> QED BY <1>1, <1>3, <1>4, <1>6, AssignedKnown

LEMMA AnswersKnown ==
  ASSUME NEW q \in Statements \cup Subqueries, NEW rel, IsSequence(rel.rows), RowsKnown(rel.rows),
         ~ProjectionFails(q, rel)
  PROVE  ResultKnown(query_result_from_relation(q, rel))
<1> DEFINE result == query_result_from_relation(q, rel)
           n == Len(rel.rows)
           one == <<CountRow(n)>>
           projected == [k \in DOMAIN rel.rows |-> ProjectedRow(q, rel.rows[k])]
           name == CHOOSE x \in q.select : TRUE
           selected == [k \in DOMAIN rel.rows |-> SelectedRow(name, rel.rows[k], q.source.alias)]
<1>0. n \in Nat /\ DOMAIN rel.rows = 1 .. n
  BY SequenceIs
<1>1. CASE q.aggregate = "count"
  <2> DEFINE count == [rows |-> one, columns |-> {"count"}]
  <2>1. result = count
    BY <1>1, Zenon DEF query_result_from_relation
  <2>2. count.rows = one /\ DOMAIN one = {1} /\ one[1] = CountRow(n)
    OBVIOUS
  <2> HIDE DEF count, one, n
  <2> QED BY <1>0, <2>1, <2>2, EmptyRowKnown DEF ResultKnown
<1>2. CASE q.aggregate # "count" /\ q.project # <<>>
  <2> DEFINE names == {q.project[k].name : k \in DOMAIN q.project}
  <2>0. q.aggregate # "count" /\ q.project # <<>>
    BY <1>2
  <2>1. result = [rows |-> projected, columns |-> names]
    BY <2>0, Zenon DEF query_result_from_relation
  <2>2. ASSUME NEW k \in DOMAIN projected PROVE AnswerKnown(projected[k])
    <3>1. k \in DOMAIN rel.rows /\ projected[k] = ProjectedRow(q, rel.rows[k])
      OBVIOUS
    <3> HIDE DEF projected
    <3>2. RowKnown(rel.rows[k])
      BY <3>1 DEF RowsKnown
    <3>3. \A j \in DOMAIN q.project : ColumnValue(q.project[j], rel.rows[k], q.source.alias) # Unbound
      BY <2>0, <3>1 DEF ProjectionFails
    <3> QED BY <3>1, <3>2, <3>3, ProjectedKnown
  <2> HIDE DEF projected, names
  <2>3. result.rows = projected
    BY <2>1
  <2> HIDE DEF result
  <2>4. ResultKnown(result)
    BY <2>2, <2>3 DEF ResultKnown
  <2> QED BY <2>4 DEF result
<1>3. CASE q.aggregate # "count" /\ q.project = <<>>
  <2> DEFINE select == [rows |-> FlattenSeq(selected), columns |-> {}]
             G == {r \in UNION {ToSet(selected[k]) : k \in 1 .. n} : AnswerKnown(r)}
  <2>1. result = select
    BY <1>3, Zenon DEF query_result_from_relation
  <2>2. selected = [k \in 1 .. n |-> selected[k]]
    BY <1>0
  <2>3. ASSUME NEW k \in 1 .. n
        PROVE  selected[k] = <<>> \/ \E r : AnswerKnown(r) /\ selected[k] = <<r>>
    <3>1. selected[k] = SelectedRow(name, rel.rows[k], q.source.alias)
      BY <1>0
    <3>2. RowKnown(rel.rows[k]) /\ AtMostOne(q.source.alias)
      BY <1>0, StatementsAssumption DEF RowsKnown
    <3> HIDE DEF selected, name
    <3> QED BY <3>1, <3>2, SelectedKnown
  <2> HIDE DEF selected, n
  <2>4. ASSUME NEW k \in 1 .. n
        PROVE  IsSequence(selected[k]) /\ \A j \in DOMAIN selected[k] : selected[k][j] \in G
    <3>1. CASE selected[k] = <<>>
      <4>1. <<>> \in Seq({}) /\ DOMAIN <<>> = {}
        OBVIOUS
      <4> QED BY <3>1, <4>1, SequenceOf
    <3>2. ASSUME NEW r, AnswerKnown(r), selected[k] = <<r>>
          PROVE  IsSequence(selected[k]) /\ \A j \in DOMAIN selected[k] : selected[k][j] \in G
      <4>1. <<r>> \in Seq({r}) /\ DOMAIN <<r>> = {1} /\ <<r>>[1] = r
        OBVIOUS
      <4>2. r \in ToSet(selected[k])
        BY <3>2, <4>1 DEF ToSet
      <4>3. r \in G
        BY <3>2, <4>2
      <4> HIDE DEF G
      <4> QED BY <3>2, <4>1, <4>3, SequenceOf
    <3> QED BY <2>3, <3>1, <3>2
  <2>5. \A r \in G : AnswerKnown(r)
    OBVIOUS
  <2> HIDE DEF G
  <2>6. FlattenSeq(selected) \in Seq(G)
    BY <1>0, <2>2, <2>4, TogetherAre
  <2>7. result.rows = FlattenSeq(selected)
    BY <2>1
  <2> HIDE DEF result
  <2>8. ResultKnown(result)
    BY <2>5, <2>6, <2>7 DEF ResultKnown
  <2> QED BY <2>8 DEF result
<1> QED BY <1>1, <1>2, <1>3
----------------------------------------------------------------------------
(* The rows that the executor answers with. *)

\* Every axis leads to nodes.
LEMMA NodesOfAxis ==
  ASSUME Table, NEW n \in Node, NEW axis \in Axes
  PROVE  AxisNodes(axis, n) \in Seq(Node)
<1>0. n \in Nat /\ Len(nodes) \in Nat /\ n \in 1 .. Len(nodes) /\ nodes[n].parent \in 0 .. n - 1
  BY DEF Table, Node
<1>1. CASE axis = "self"
  <2>1. AxisNodes(axis, n) = <<n>>
    BY <1>1, Zenon DEF AxisNodes
  <2> QED BY <2>1
<1>2. CASE axis = "parent"
  <2>1. AxisNodes(axis, n) = IF nodes[n].parent = 0 THEN <<>> ELSE <<nodes[n].parent>>
    BY <1>2, Zenon DEF AxisNodes
  <2>2. nodes[n].parent # 0 => nodes[n].parent \in Node
    BY <1>0 DEF Node
  <2> QED BY <2>1, <2>2
<1>3. CASE axis = "child"
  <2>1. AxisNodes(axis, n) = Children(n)
    BY <1>3, Zenon DEF AxisNodes
  <2>2. n \in 0 .. Len(nodes)
    BY <1>0
  <2>3. Lists(Children(n), Kids(n))
    BY <2>2, ChildrenAre
  <2>4. \A k \in Kids(n) : k \in Node
    BY DEF Kids
  <2>5. Children(n) \in Seq(Kids(n))
    BY <2>3 DEF Lists
  <2> QED BY <2>1, <2>4, <2>5, WiderSeq
<1>4. CASE axis = "ancestor"
  <2> DEFINE s == Ancestors[n]
  <2>1. AxisNodes(axis, n) = s
    BY <1>4, Zenon DEF AxisNodes
  <2>2. s \in Seq(Nat) /\ ToSet(s) = lineage[n] \ {n}
    BY AncestorsAre
  <2>3. lineage[n] \subseteq 1 .. n
    BY LineageGrows
  <2> HIDE DEF s
  <2>4. s \in Seq(ToSet(s))
    BY <2>2, SeqOfItsOwn
  <2>5. \A x \in ToSet(s) : x \in Node
    BY <1>0, <2>2, <2>3 DEF Node
  <2> QED BY <2>1, <2>4, <2>5, WiderSeq
<1>5. CASE axis = "descendant"
  <2> DEFINE s == Descendants[n]
             last == LastUnder(n)
  <2>1. AxisNodes(axis, n) = s
    BY <1>5, Zenon DEF AxisNodes
  <2>2. HeldBy(s, n + 1 .. last, last - n)
    BY DescendantsAre DEF RestIsHeld, Rest
  <2>3. last \in n .. Len(nodes)
    BY RunsOfKids
  <2> HIDE DEF s, last
  <2>4. s \in Seq(Nat) /\ \A k \in 1 .. Len(s) : s[k] \in n + 1 .. last
    BY <2>2 DEF HeldBy
  <2>5. \A x \in n + 1 .. last : x \in Node
    BY <1>0, <2>3 DEF Node
  <2>6. s = [k \in 1 .. Len(s) |-> s[k]] /\ Len(s) \in Nat
    BY <2>4, SeqIsItsValues
  <2>7. [k \in 1 .. Len(s) |-> s[k]] \in Seq(Node)
    BY <2>4, <2>5, <2>6, ValuesAreASeq
  <2> QED BY <2>1, <2>6, <2>7
<1> QED BY <1>1, <1>2, <1>3, <1>4, <1>5 DEF Axes

\* A field of a node is one value at most, a known one.
LEMMA NodeFieldKnown ==
  ASSUME DocInv, MetadataInv, Running, NEW n \in Node, NEW f
  PROVE  IsCell({Raw(v) : v \in values_of(n, f)})
<1>1. CASE f \in CoreFields
  <2>1. IsCell(NodeCore(n)[f])
    BY <1>1, NodeCells
  <2> QED BY <1>1, <2>1 DEF NodeCore
<1>2. CASE f \notin CoreFields
  <2> DEFINE attributes == nodes[n].attributes
  <2>1. values_of(n, f) = attribute_of(n, f)
    BY <1>2, Zenon DEF values_of, CoreFields
  <2>2. attribute_of(n, f) = IF f \in DOMAIN attributes THEN {attributes[f]} ELSE {}
    BY DEF attribute_of
  <2>3. f \in DOMAIN attributes => attributes[f] \in Known
    BY NodeCells DEF AttributesKnown
  <2> HIDE DEF attributes
  <2>4. CASE f \in DOMAIN attributes
    <3>1. {Raw(v) : v \in values_of(n, f)} = {Raw(attributes[f])}
      BY <2>1, <2>2, <2>4
    <3> QED BY <2>3, <2>4, <3>1, StaysKnown, OneValue
  <2>5. CASE f \notin DOMAIN attributes
    <3>1. {Raw(v) : v \in values_of(n, f)} = {}
      BY <2>1, <2>2, <2>5
    <3> QED BY <3>1, NoValue DEF Null
  <2> QED BY <2>4, <2>5
<1> QED BY <1>1, <1>2

LEMMA OperandOfNode ==
  ASSUME DocInv, MetadataInv, Running, NEW n \in Node, NEW axis \in Axes, NEW f
  PROVE  IsCell({Raw(v) : v \in value_from_operand([axis |-> axis, field |-> f], n)})
<1> DEFINE o == [axis |-> axis, field |-> f]
           s == AxisNodes(axis, n)
           having == {k \in DOMAIN s : values_of(s[k], f) # {}}
<1>1. o.axis = axis /\ o.field = f
  OBVIOUS
<1> HIDE DEF o
<1>2. value_from_operand(o, n) = IF having = {} THEN {} ELSE values_of(s[Min(having)], f)
  BY <1>1 DEF value_from_operand
<1>3. s \in Seq(Node)
  BY ParsedTable, NodesOfAxis
<1> HIDE DEF s
<1>4. having \subseteq DOMAIN s /\ DOMAIN s \subseteq Nat /\ \A k \in DOMAIN s : s[k] \in Node
  BY <1>3
<1> HIDE DEF having
<1>5. CASE having = {}
  <2>1. {Raw(v) : v \in value_from_operand(o, n)} = {}
    BY <1>2, <1>5
  <2> QED BY <2>1, NoValue DEF Null, o
<1>6. CASE having # {}
  <2>1. having \in SUBSET Nat
    BY <1>4
  <2>2. \E m \in having : \A k \in having : m <= k
    BY <1>6, <2>1, LeastNat
  <2> DEFINE first == Min(having)
  <2>3. first \in having
    BY <2>2 DEF Min
  <2>4. value_from_operand(o, n) = values_of(s[first], f)
    BY <1>2, <1>6
  <2> HIDE DEF first
  <2>5. IsCell({Raw(v) : v \in values_of(s[first], f)})
    BY <1>4, <2>3, NodeFieldKnown
  <2> QED BY <2>4, <2>5 DEF o
<1> QED BY <1>5, <1>6
----------------------------------------------------------------------------
\* A name's value is an expression's, of this node.
LEMMA SelectScalarKnown ==
  ASSUME DocInv, MetadataInv, Running, NEW n \in Node,
         NEW s, IsScalar(s), s.kind = "literal" => IsCell(s.value)
  PROVE  IsCell(eval_select_scalar_expr(s, n))
<1> DEFINE value(o) == {Raw(v) : v \in value_from_operand([axis |-> o.axis, field |-> o.field], n)}
           present == {k \in DOMAIN s.args : value(s.args[k]) # Null}
<1>0. "operand" # "literal" /\ "operand" # "coalesce" /\ "literal" # "coalesce"
  OBVIOUS
<1>1. \A o : o.axis \in Axes => IsCell(value(o))
  BY OperandOfNode
<1>2. CASE s.kind = "operand"
  <2>1. eval_select_scalar_expr(s, n) = value(s)
    BY <1>0, <1>2, Zenon DEF eval_select_scalar_expr
  <2>2. s.axis \in Axes
    BY <1>0, <1>2 DEF IsScalar, IsOperand
  <2> HIDE DEF value
  <2> QED BY <1>1, <2>1, <2>2
<1>3. CASE s.kind = "literal"
  <2>1. eval_select_scalar_expr(s, n) = s.value
    BY <1>0, <1>3, Zenon DEF eval_select_scalar_expr
  <2> QED BY <1>3, <2>1
<1>4. CASE s.kind = "coalesce"
  <2>1. eval_select_scalar_expr(s, n) = IF present = {} THEN Null ELSE value(s.args[Min(present)])
    BY <1>0, <1>4, Zenon DEF eval_select_scalar_expr
  <2>2. s.args \in Seq(ToSet(s.args)) /\ \A k \in DOMAIN s.args : s.args[k].axis \in Axes
    BY <1>0, <1>4 DEF IsScalar, IsOperand
  <2>3. present \subseteq DOMAIN s.args /\ DOMAIN s.args \subseteq Nat
    BY <2>2
  <2> HIDE DEF present, value
  <2>4. CASE present # {}
    <3>1. present \in SUBSET Nat
      BY <2>3
    <3>2. \E m \in present : \A k \in present : m <= k
      BY <2>4, <3>1, LeastNat
    <3> DEFINE first == Min(present)
    <3>3. first \in present
      BY <3>2 DEF Min
    <3>4. eval_select_scalar_expr(s, n) = value(s.args[first])
      BY <2>1, <2>4
    <3> HIDE DEF first
    <3> QED BY <1>1, <2>2, <2>3, <3>3, <3>4
  <2> QED BY <2>1, <2>4, NoValue
<1> QED BY <1>2, <1>3, <1>4 DEF IsScalar

LEMMA ComputedKnown ==
  ASSUME DocInv, MetadataInv, Running, NEW n \in Node, NEW q \in Statements \cup Subqueries,
         NEW name \in DOMAIN ComputedFields(q, n)
  PROVE  IsCell(ComputedFields(q, n)[name])
<1> DEFINE values == [k \in DOMAIN q.project |->
                        IF q.project[k].kind = "expr" THEN eval_select_scalar_expr(q.project[k].expr, n) ELSE Null]
           given == ByName(q.project, values)
<1>1. ComputedFields(q, n) = [c \in {d \in DOMAIN given : given[d] # Null} |-> given[c]]
  BY DEF ComputedFields
<1>2. DOMAIN q.project \subseteq Nat
  BY StatementsAssumption
<1>3. ASSUME NEW k \in DOMAIN q.project PROVE IsCell(values[k])
  <2>1. CASE q.project[k].kind = "expr"
    <3>1. IsScalar(q.project[k].expr) /\ (q.project[k].expr.kind = "literal" => IsCell(q.project[k].expr.value))
      BY <2>1, LiteralKnown
    <3>2. values[k] = eval_select_scalar_expr(q.project[k].expr, n)
      BY <2>1
    <3> HIDE DEF values
    <3> QED BY <3>1, <3>2, SelectScalarKnown
  <2>2. CASE q.project[k].kind # "expr"
    BY <2>2, NoValue
  <2> QED BY <2>1, <2>2
<1> HIDE DEF values
<1>4. \A c \in DOMAIN given : IsCell(given[c])
  BY <1>2, <1>3, ByNameKnown
<1> HIDE DEF given
<1> QED BY <1>1, <1>4

LEMMA LegacyKnown ==
  ASSUME DocInv, MetadataInv, Running, NEW q \in Statements \cup Subqueries
  PROVE  ResultKnown(LegacyResult(q))
<1> DEFINE S == {n \in Node : Selected(q, n)}
           sorted == Sorted(q, S)
           found == execute_query(q)
           count == CountRows(q)[1].node_id
           one == <<CountRow(count)>>
           answer(n) == ResultRow(NodeCore(n), nodes[n].attributes, ComputedFields(q, n))
           rows_ == [k \in DOMAIN found |-> answer(found[k])]
<1>1. LegacyResult(q).rows \in {one, rows_}
  <2>1. \E columns : LegacyResult(q) \in {[rows |-> one, columns |-> {"count"}], [rows |-> rows_, columns |-> columns]}
    BY DEF LegacyResult
  <2> HIDE DEF one, rows_
  <2> QED BY <2>1
<1>2. sorted \in Seq(S)
  <2>1. phase \notin {"parse", "order", "depth"}
    BY DEF Running
  <2>2. IsOrderBy(q.order_by)
    BY StatementsAssumption DEF IsOrderBy
  <2> QED BY <2>1, <2>2, SortedIs
<1>3. IsSequence(found) /\ \A k \in DOMAIN found : found[k] \in Node
  <2>1. found = Truncated(q, sorted)
    BY DEF execute_query
  <2> HIDE DEF found, sorted, S
  <2>2. IsSequence(sorted)
    BY <1>2, SequenceOf
  <2>3. /\ IsSequence(found) /\ DOMAIN found \subseteq DOMAIN sorted
        /\ \A k \in DOMAIN found : found[k] = sorted[k]
    BY <2>1, <2>2, ShortenedIs
  <2>4. \A k \in DOMAIN sorted : sorted[k] \in S
    BY <1>2
  <2> QED BY <2>3, <2>4 DEF S
<1>4. Len(found) \in Nat /\ Len(nodes) \in Nat
  BY <1>3, SequenceIs, ParsedTable DEF Table
<1>5. count \in Int
  <2> HIDE DEF found
  <2>1. count \in {Len(nodes), Len(found)}
    BY DEF CountRows, Row, found
  <2> QED BY <1>4, <2>1
<1>6. \A k \in DOMAIN one : AnswerKnown(one[k])
  <2>1. DOMAIN one = {1} /\ one[1] = CountRow(count)
    OBVIOUS
  <2> HIDE DEF one, count
  <2> QED BY <1>5, <2>1, EmptyRowKnown
<1>7. ASSUME NEW n \in Node PROVE AnswerKnown(answer(n))
  <2>1. /\ answer(n).core = NodeCore(n) /\ answer(n).attributes = nodes[n].attributes
        /\ answer(n).computed = ComputedFields(q, n)
    BY DEF ResultRow
  <2> HIDE DEF answer
  <2> QED BY <2>1, NodeCells, ComputedKnown DEF AnswerKnown
<1>8. \A k \in DOMAIN rows_ : AnswerKnown(rows_[k])
  <2>1. \A k \in DOMAIN rows_ : k \in DOMAIN found /\ rows_[k] = answer(found[k])
    OBVIOUS
  <2> HIDE DEF rows_, found, answer
  <2> QED BY <1>3, <1>7, <2>1
<1> HIDE DEF one, rows_
<1> QED BY <1>1, <1>6, <1>8 DEF ResultKnown
----------------------------------------------------------------------------
\* Rows that are put together hold what both of them held, and padding holds nothing.
LEMMA MergedKnown ==
  ASSUME NEW l, RowKnown(l), NEW r, RowKnown(r)
  PROVE  RowKnown(merge_row_aliases(l, r))
<1> DEFINE row == merge_row_aliases(l, r)
<1>1. /\ DOMAIN row = DOMAIN l \cup DOMAIN r
      /\ \A a \in DOMAIN row : row[a] = IF a \in DOMAIN l THEN l[a] ELSE r[a]
  BY DEF merge_row_aliases
<1>2. IsFiniteSet(DOMAIN l \cup DOMAIN r)
  BY FS_Union DEF RowKnown
<1> HIDE DEF row
<1>3. RowKnown(row)
  BY <1>1, <1>2 DEF RowKnown
<1> QED BY <1>3 DEF row

LEMMA PaddedKnown ==
  ASSUME NEW l, RowKnown(l), NEW right_rel, IsFiniteSet(DOMAIN right_rel.alias_columns)
  PROVE  RowKnown(build_left_join_padded_row(l, right_rel))
<1> DEFINE row == build_left_join_padded_row(l, right_rel)
           blank(a) == Record([c \in right_rel.alias_columns[a] |-> Null], <<>>)
<1>1. /\ DOMAIN row = DOMAIN l \cup DOMAIN right_rel.alias_columns
      /\ \A a \in DOMAIN row : row[a] = IF a \in DOMAIN right_rel.alias_columns THEN blank(a) ELSE l[a]
  BY DEF build_left_join_padded_row
<1>2. IsFiniteSet(DOMAIN l \cup DOMAIN right_rel.alias_columns)
  BY FS_Union DEF RowKnown
<1>3. \A a : RecordKnown(blank(a))
  <2> TAKE a
  <2>1. DOMAIN <<>> = {}
    OBVIOUS
  <2>2. /\ blank(a).values = [c \in right_rel.alias_columns[a] |-> Null]
        /\ blank(a).attributes = <<>>
    BY DEF Record
  <2> HIDE DEF blank
  <2> QED BY <2>1, <2>2, NoValue DEF RecordKnown, AttributesKnown
<1> HIDE DEF row, blank
<1>4. RowKnown(row)
  BY <1>1, <1>2, <1>3 DEF RowKnown
<1> QED BY <1>4 DEF row

LEMMA JoinedKnown ==
  ASSUME NEW join, NEW row, RowKnown(row), NEW right_rel, RowsKnown(right_rel.rows),
         IsFiniteSet(DOMAIN right_rel.alias_columns), NEW matches \in Seq(DOMAIN right_rel.rows)
  PROVE  \A k \in DOMAIN JoinedRows(join, row, right_rel, matches) :
            RowKnown(JoinedRows(join, row, right_rel, matches)[k])
<1> DEFINE merged == [k \in DOMAIN matches |-> merge_row_aliases(row, right_rel.rows[matches[k]])]
           padded == build_left_join_padded_row(row, right_rel)
           pad == IF join.type = "left" /\ matches = <<>> THEN <<padded>> ELSE <<>>
           G == {merged[k] : k \in DOMAIN matches} \cup {padded}
           joined == JoinedRows(join, row, right_rel, matches)
<1>1. Len(matches) \in Nat /\ DOMAIN matches = 1 .. Len(matches)
      /\ \A k \in 1 .. Len(matches) : matches[k] \in DOMAIN right_rel.rows
  OBVIOUS
<1>2. ASSUME NEW k \in DOMAIN matches PROVE RowKnown(merged[k])
  <2>1. merged[k] = merge_row_aliases(row, right_rel.rows[matches[k]])
    OBVIOUS
  <2>2. RowKnown(right_rel.rows[matches[k]])
    BY <1>1 DEF RowsKnown
  <2> HIDE DEF merged
  <2> QED BY <2>1, <2>2, MergedKnown
<1>3. RowKnown(padded)
  BY PaddedKnown
<1>4. \A r \in G : RowKnown(r)
  <2> HIDE DEF merged, padded
  <2> QED BY <1>2, <1>3
<1>5. merged \in Seq(G)
  <2>1. merged = [k \in 1 .. Len(matches) |-> merged[k]] /\ \A k \in 1 .. Len(matches) : merged[k] \in G
    BY <1>1
  <2> HIDE DEF merged, G
  <2>2. [k \in 1 .. Len(matches) |-> merged[k]] \in Seq(G)
    BY <1>1, <2>1, ValuesAreASeq
  <2> QED BY <2>1, <2>2
<1>6. joined = merged \o pad
  BY DEF JoinedRows
<1>7. pad \in Seq(G)
  <2>1. padded \in G
    OBVIOUS
  <2> HIDE DEF G, padded
  <2> QED BY <2>1
<1> HIDE DEF merged, pad, G, joined
<1>8. joined \in Seq(G)
  BY <1>5, <1>6, <1>7
<1>9. \A k \in DOMAIN joined : joined[k] \in G
  BY <1>8
<1> QED BY <1>4, <1>9 DEF joined

\* The rows of a join hold what the rows of its sides do.
LEMMA JoinRowsKnown ==
  ASSUME NEW join, NEW left_rel, Sound(left_rel), RowsKnown(left_rel.rows),
         NEW right_rel, Sound(right_rel), RowsKnown(right_rel.rows), IsFiniteSet(DOMAIN right_rel.alias_columns),
         NEW kept, \A s \in DOMAIN kept : DOMAIN kept[s] \subseteq Nat \ {0}, NEW alias
  PROVE  RowsKnown(JoinRows(StrategyOf(join, left_rel, right_rel, kept), join, left_rel, right_rel, alias))
<1> DEFINE s == StrategyOf(join, left_rel, right_rel, kept)
           matches(k) == MatchesOf(s, join, left_rel.rows[k], right_rel, alias)
           parts == [k \in DOMAIN left_rel.rows |-> JoinedRows(join, left_rel.rows[k], right_rel, matches(k))]
           n == Len(left_rel.rows)
           G == UNION {ToSet(parts[k]) : k \in 1 .. n}
           joined == JoinRows(s, join, left_rel, right_rel, alias)
<1>1. n \in Nat /\ DOMAIN left_rel.rows = 1 .. n
  BY SequenceIs DEF Sound
<1>2. joined = FlattenSeq(parts)
  BY DEF JoinRows
<1>3. ASSUME NEW k \in 1 .. n
      PROVE  IsSequence(parts[k]) /\ \A j \in DOMAIN parts[k] : RowKnown(parts[k][j])
  <2>1. RowOf(left_rel.rows[k], left_rel.alias_columns) /\ RowKnown(left_rel.rows[k])
    BY <1>1 DEF Sound, Covers, RowsKnown
  <2> DEFINE m == matches(k)
  <2>2. m \in Seq(DOMAIN right_rel.rows)
    BY MatchesAre DEF Sound
  <2>3. parts[k] = JoinedRows(join, left_rel.rows[k], right_rel, m)
    BY <1>1
  <2> HIDE DEF m, parts
  <2> QED BY <2>1, <2>2, <2>3, JoinedAre, JoinedKnown
<1>4. parts = [k \in 1 .. n |-> parts[k]]
  BY <1>1
<1> HIDE DEF parts, n, joined
<1>5. ASSUME NEW k \in 1 .. n, NEW j \in DOMAIN parts[k] PROVE parts[k][j] \in G
  <2>1. parts[k][j] \in ToSet(parts[k])
    BY DEF ToSet
  <2> QED BY <2>1
<1>6. \A r \in G : RowKnown(r)
  BY <1>3, SequenceIs
<1> HIDE DEF G
<1>7. joined \in Seq(G)
  BY <1>1, <1>2, <1>3, <1>4, <1>5, TogetherAre
<1>8. \A k \in DOMAIN joined : joined[k] \in G
  BY <1>7
<1> QED BY <1>6, <1>8 DEF joined, RowsKnown
----------------------------------------------------------------------------
\* A node's record holds its fields, its attributes and those of its parent.
LEMMA OwnKnown ==
  ASSUME DocInv, MetadataInv, Running, NEW n \in Node
  PROVE  \A f \in DOMAIN OwnValues(n) : IsCell(OwnValues(n)[f])
<1> DEFINE attributes == nodes[n].attributes
           core == NodeCore(n)
<1>1. /\ DOMAIN OwnValues(n) = CoreFields \cup DOMAIN attributes
      /\ \A f \in DOMAIN OwnValues(n) : OwnValues(n)[f] = IF f \in DOMAIN attributes THEN {attributes[f]} ELSE core[f]
  BY DEF OwnValues
<1>2. (\A f \in CoreFields : IsCell(core[f])) /\ \A f \in DOMAIN attributes : IsCell({attributes[f]})
  BY NodeCells, OneValue DEF AttributesKnown
<1> HIDE DEF attributes, core
<1> QED BY <1>1, <1>2

LEMMA NodeRecordKnown ==
  ASSUME DocInv, MetadataInv, Running, NEW n \in Node
  PROVE  RecordKnown(NodeRecord(n))
<1> DEFINE parent == nodes[n].parent
           above == IF parent = 0 THEN {} ELSE DOMAIN OwnValues(parent)
           columns == ({"self"} \X DOMAIN OwnValues(n)) \cup ({"parent"} \X above)
           value(c) == OwnValues(IF c[1] = "self" THEN n ELSE parent)[c[2]]
           r == NodeRecord(n)
<1>0. "self" # "parent"
  OBVIOUS
<1>1. r = Record([c \in columns |-> value(c)], nodes[n].attributes)
  BY DEF NodeRecord
<1>2. parent = 0 \/ parent \in Node
  <2>1. Table /\ n \in 1 .. Len(nodes)
    BY ParsedTable DEF Node
  <2> QED BY <2>1 DEF Table, Node
<1>3. \A f \in DOMAIN OwnValues(n) : IsCell(OwnValues(n)[f])
  BY OwnKnown
<1>4. parent # 0 => \A f \in DOMAIN OwnValues(parent) : IsCell(OwnValues(parent)[f])
  BY <1>2, OwnKnown
<1>5. \A c \in columns : IsCell(value(c))
  <2> HIDE DEF parent
  <2> QED BY <1>0, <1>3, <1>4
<1>6. AttributesKnown(nodes[n].attributes)
  BY NodeCells
<1> HIDE DEF columns, value
<1>7. r.values = [c \in columns |-> value(c)] /\ r.attributes = nodes[n].attributes
  BY <1>1 DEF Record
<1> HIDE DEF r
<1>8. RecordKnown(r)
  BY <1>5, <1>6, <1>7 DEF RecordKnown
<1> QED BY <1>8 DEF r

\* A row of one alias holds what its record does.
LEMMA OneRecord ==
  ASSUME NEW alias, NEW r, RecordKnown(r)
  PROVE  RowKnown([a \in {alias} |-> r])
BY FS_Singleton DEF RowKnown

LEMMA DocumentKnown ==
  ASSUME DocInv, MetadataInv, Running, NEW q, NEW outer, NEW alias, NEW prefilter
  PROVE  RowsKnown(relation_from_document(q, outer, alias, prefilter).rows)
<1> DEFINE S == {n \in Node : ~(prefilter /\ Prefiltered(q, outer, n))}
           kept == Ascending(S)
           rows_ == [k \in DOMAIN kept |-> [a \in {alias} |-> NodeRecord(kept[k])]]
<1>1. kept \in Seq(S) /\ S \subseteq Node
  <2>1. S \in SUBSET (1 .. Len(nodes)) /\ S \subseteq Node
    BY DEF Node
  <2>2. Len(nodes) \in Nat
    BY ParsedTable DEF Table
  <2> HIDE DEF S
  <2> QED BY <2>1, <2>2, AscendingIs
<1>2. relation_from_document(q, outer, alias, prefilter).rows = rows_
  BY DEF relation_from_document, Relation
<1> HIDE DEF S, kept
<1>3. ASSUME NEW k \in DOMAIN rows_ PROVE RowKnown(rows_[k])
  <2>1. kept[k] \in Node
    BY <1>1
  <2> DEFINE r == NodeRecord(kept[k])
  <2>2. RecordKnown(r)
    BY <2>1, NodeRecordKnown
  <2>3. rows_[k] = [a \in {alias} |-> r]
    OBVIOUS
  <2> HIDE DEF r, rows_
  <2>4. RowKnown([a \in {alias} |-> r])
    BY <2>2, OneRecord
  <2> HIDE DEF RowKnown
  <2> QED BY <2>3, <2>4, Zenon
<1> HIDE DEF rows_
<1> QED BY <1>2, <1>3 DEF RowsKnown

\* The rows of a result, as a source, hold what the result does.
LEMMA ResultRecordKnown ==
  ASSUME NEW row, AnswerKnown(row), NEW columns
  PROVE  RecordKnown(ResultRecord(row, columns))
<1> DEFINE value(f) ==
             IF f \in DOMAIN row.attributes THEN {row.attributes[f]}
             ELSE IF f \in CoreFields THEN row.core[f]
             ELSE IF f = "count" THEN row.core["node_id"]
             ELSE IF f \in DOMAIN row.computed THEN row.computed[f] ELSE Null
           names == {"self"} \X (CoreFields \cup columns \cup DOMAIN row.attributes)
           r == ResultRecord(row, columns)
<1>1. r = Record([c \in names |-> value(c[2])], row.attributes)
  BY DEF ResultRecord
<1>2. "node_id" \in CoreFields
  BY DEF CoreFields, NumberFields
<1>3. ASSUME NEW f PROVE IsCell(value(f))
  <2>1. \A g \in DOMAIN row.attributes : IsCell({row.attributes[g]})
    BY OneValue DEF AnswerKnown, AttributesKnown
  <2> QED BY <1>2, <2>1, NoValue DEF AnswerKnown
<1>4. AttributesKnown(row.attributes)
  BY DEF AnswerKnown
<1> HIDE DEF names, value
<1>5. r.values = [c \in names |-> value(c[2])] /\ r.attributes = row.attributes
  BY <1>1 DEF Record
<1> HIDE DEF r
<1>6. RecordKnown(r)
  BY <1>3, <1>4, <1>5 DEF RecordKnown
<1> QED BY <1>6 DEF r

LEMMA ResultRowsKnown ==
  ASSUME NEW result, ResultKnown(result), NEW alias, NEW key
  PROVE  RowsKnown(relation_from_query_result(result, alias, key).rows)
<1> DEFINE rows_ == [k \in DOMAIN result.rows |-> [a \in {alias} |-> ResultRecord(result.rows[k], result.columns)]]
<1>1. relation_from_query_result(result, alias, key).rows = rows_
  BY DEF relation_from_query_result, Relation
<1>2. ASSUME NEW k \in DOMAIN rows_ PROVE RowKnown(rows_[k])
  <2> DEFINE r == ResultRecord(result.rows[k], result.columns)
  <2>1. RecordKnown(r)
    BY ResultRecordKnown DEF ResultKnown
  <2>2. rows_[k] = [a \in {alias} |-> r]
    OBVIOUS
  <2> HIDE DEF r, rows_
  <2>3. RowKnown([a \in {alias} |-> r])
    BY <2>1, OneRecord
  <2> HIDE DEF RowKnown
  <2> QED BY <2>2, <2>3, Zenon
<1> HIDE DEF rows_
<1> QED BY <1>1, <1>2 DEF RowsKnown

LEMMA CteKnown ==
  ASSUME NEW name, NEW rel, OfOneAlias(rel, name), RowsKnown(rel.rows), NEW alias
  PROVE  RowsKnown(CteRelation(rel, name, alias).rows)
<1> DEFINE rows_ == [k \in DOMAIN rel.rows |-> [a \in {alias} |-> rel.rows[k][name]]]
<1>1. CteRelation(rel, name, alias).rows = rows_
  BY DEF CteRelation, Relation
<1>2. ASSUME NEW k \in DOMAIN rows_ PROVE RowKnown(rows_[k])
  <2> DEFINE r == rel.rows[k][name]
  <2>1. RowOf(rel.rows[k], rel.alias_columns) /\ DOMAIN rel.alias_columns = {name} /\ RowKnown(rel.rows[k])
    BY DEF OfOneAlias, Sound, Covers, RowsKnown
  <2>2. RecordKnown(r)
    BY <2>1 DEF RowOf, RowKnown
  <2>3. rows_[k] = [a \in {alias} |-> r]
    OBVIOUS
  <2> HIDE DEF r, rows_
  <2>4. RowKnown([a \in {alias} |-> r])
    BY <2>2, OneRecord
  <2> HIDE DEF RowKnown
  <2> QED BY <2>3, <2>4, Zenon
<1> HIDE DEF rows_
<1> QED BY <1>1, <1>2 DEF RowsKnown

\* Whatever a source is, its rows hold known values.
LEMMA SourceKnown ==
  ASSUME DocInv, MetadataInv, Running, NEW f, FrameIsSound(f), FrameKnown(f), NEW source, NEW first,
         source.kind = "cte" => source.name \in DOMAIN f.ctes,
         source.kind = "derived" => f.result # {}
  PROVE  RowsKnown(SourceRelation(f, source, first).rows)
<1>0. "cte" # "derived"
  OBVIOUS
<1>1. CASE source.kind = "cte"
  <2>1. SourceRelation(f, source, first) = CteRelation(f.ctes[source.name], source.name, AliasOf(source))
    BY <1>1, Zenon DEF SourceRelation
  <2>2. OfOneAlias(f.ctes[source.name], source.name) /\ RowsKnown(f.ctes[source.name].rows)
    BY <1>1 DEF FrameIsSound, FrameKnown
  <2> QED BY <2>1, <2>2, CteKnown
<1>2. CASE source.kind = "derived"
  <2> DEFINE r == CHOOSE x \in f.result : TRUE
  <2>1. SourceRelation(f, source, first) = relation_from_query_result(r, AliasOf(source), result_key)
    BY <1>0, <1>2, Zenon DEF SourceRelation
  <2>2. r \in f.result
    BY <1>2
  <2> HIDE DEF r
  <2>3. ResultKnown(r)
    BY <2>2 DEF FrameKnown
  <2> QED BY <2>1, <2>3, ResultRowsKnown
<1>3. CASE source.kind \notin {"cte", "derived"}
  <2>1. SourceRelation(f, source, first) = relation_from_document(f.query, f.outer, AliasOf(source), first)
    BY <1>3, Zenon DEF SourceRelation
  <2> QED BY <2>1, DocumentKnown
<1> QED BY <1>1, <1>2, <1>3

LEMMA UnderOuterKnown ==
  ASSUME NEW rel, RowsKnown(rel.rows), NEW outer, \A row \in outer : RowKnown(row)
  PROVE  RowsKnown(UnderOuter(rel, outer).rows)
<1>1. CASE outer = {}
  <2>1. UnderOuter(rel, outer) = rel
    BY <1>1 DEF UnderOuter
  <2> QED BY <2>1
<1>2. CASE outer # {}
  <2> DEFINE row == CHOOSE r \in outer : TRUE
  <2>1. RowKnown(row)
    BY <1>2
  <2>2. UnderOuter(rel, outer).rows = [k \in DOMAIN rel.rows |-> merge_row_aliases(row, rel.rows[k])]
    BY <1>2 DEF UnderOuter, Relation
  <2> HIDE DEF row
  <2> QED BY <2>1, <2>2, MergedKnown DEF RowsKnown
<1> QED BY <1>1, <1>2
----------------------------------------------------------------------------
(* Every step keeps the values known. *)

\* What a frame's values depend on.
LEMMA KnownAsBefore ==
  ASSUME NEW f, FrameKnown(f), NEW g, g.current = f.current, g.next = f.next, g.ctes = f.ctes, g.outer = f.outer,
         \A r \in g.result : ResultKnown(r)
  PROVE  FrameKnown(g)
<1> HIDE DEF RowsKnown, RowKnown, ResultKnown
<1> QED BY DEF FrameKnown

LEMMA NewFrameKnown ==
  ASSUME NEW q, NEW ctes, \A a \in DOMAIN ctes : RowsKnown(ctes[a].rows), NEW outer, \A row \in outer : RowKnown(row)
  PROVE  FrameKnown(NewFrame(q, ctes, outer))
<1> DEFINE f == NewFrame(q, ctes, outer)
<1>1. /\ f.ctes = ctes /\ f.outer = outer /\ f.result = {}
      /\ f.current = Relation(<<>>, <<>>, {}) /\ f.next = Relation(<<>>, <<>>, {})
  BY DEF NewFrame
<1> HIDE DEF f
<1>2. f.current.rows = <<>> /\ f.next.rows = <<>> /\ DOMAIN <<>> = {}
  BY <1>1 DEF Relation
<1>3. RowsKnown(f.current.rows) /\ RowsKnown(f.next.rows)
  BY <1>2 DEF RowsKnown
<1> QED BY <1>1, <1>3 DEF FrameKnown, f

LEMMA EntersKnown ==
  ASSUME NEW f, FrameKnown(f), DOMAIN f = FrameFields, NEW rel, RowsKnown(rel.rows)
  PROVE  FrameKnown(EntersJoin(f, rel))
<1> DEFINE g == EntersJoin(f, rel)
<1>1. /\ g.ctes = f.ctes /\ g.outer = f.outer /\ g.result = {} /\ g.current = rel
      /\ g.next = Relation(<<>>, rel.alias_columns, rel.cache_key)
  BY DEF EntersJoin, FrameFields
<1> HIDE DEF g
<1>2. g.next.rows = <<>> /\ DOMAIN <<>> = {}
  BY <1>1 DEF Relation
<1>3. RowsKnown(g.next.rows)
  BY <1>2 DEF RowsKnown
<1> QED BY <1>1, <1>3 DEF FrameKnown, g

LEMMA TopIsKnown == ASSUME IndexInv, ValueInv, Running PROVE FrameKnown(Top)
BY TopIs DEF ValueInv

LEMMA ReplacedKnown ==
  ASSUME IndexInv, ValueInv, Running, NEW f, Replace(f), FrameKnown(f)
  PROVE  ValueInv'
BY ReplacedFrames DEF ValueInv

LEMMA SameFramesKnown == ASSUME ValueInv, UNCHANGED frames PROVE ValueInv'
BY DEF ValueInv

\* The row that a source may refer to is one of the frame's.
LEMMA OuterKnown ==
  ASSUME IndexInv, SchemaInv, ValueInv, Running, Pending.source.kind # "none"
  PROVE  \A row \in Pending.outer : RowKnown(row)
<1>0. ~(AfterWith /\ InJoin)
  <2>1. "with" # "join"
    OBVIOUS
  <2> QED BY <2>1, Zenon DEF AfterWith, InJoin
<1>1. CASE AfterWith
  <2>1. Pending = [source |-> Top.query.source, outer |-> Top.outer]
    BY <1>0, <1>1, Zenon DEF Pending
  <2> QED BY <2>1, TopIsKnown DEF FrameKnown
<1>2. CASE InJoin /\ ~TheJoin.lateral
  <2>1. Pending = [source |-> TheJoin.source, outer |-> {}]
    BY <1>0, <1>2, Zenon DEF Pending
  <2> QED BY <2>1
<1>3. CASE InJoin /\ TheJoin.lateral /\ Top.left <= Len(Top.current.rows)
  <2> DEFINE row == Top.current.rows[Top.left]
  <2>1. Pending = [source |-> TheJoin.source, outer |-> {row}]
    BY <1>0, <1>3, Zenon DEF Pending
  <2>2. Top.left \in Nat \ {0} /\ IsSequence(Top.current.rows)
    BY TopIsSound DEF FrameIsSound, Sound
  <2>3. Top.left \in DOMAIN Top.current.rows
    BY <1>3, <2>2, SequenceIs
  <2>4. RowKnown(row)
    BY <2>3, TopIsKnown DEF FrameKnown, RowsKnown
  <2> HIDE DEF row
  <2> QED BY <2>1, <2>4
<1>4. CASE ~AfterWith /\ ~InJoin
  <2>1. Pending = [source |-> [kind |-> "none"], outer |-> {}]
    BY <1>4, Zenon DEF Pending
  <2> QED BY <2>1
<1>5. CASE ~AfterWith /\ InJoin /\ TheJoin.lateral /\ ~(Top.left <= Len(Top.current.rows))
  <2>1. Pending = [source |-> [kind |-> "none"], outer |-> {}]
    BY <1>5, Zenon DEF Pending
  <2> QED BY <2>1
<1> QED BY <1>1, <1>2, <1>3, <1>4, <1>5

LEMMA CallKnown ==
  ASSUME DocInv, MetadataInv, IndexInv, SchemaInv, ValueInv, Running, NEW q \in Subqueries,
         NEW outer, \A row \in outer : RowKnown(row), Call(q, outer)
  PROVE  ValueInv'
<1>1. CASE frames' = Append(frames, NewFrame(q, Top.ctes, outer))
  <2> DEFINE f == NewFrame(q, Top.ctes, outer)
  <2>1. FrameKnown(f)
    <3>1. \A a \in DOMAIN Top.ctes : RowsKnown(Top.ctes[a].rows)
      BY TopIsKnown DEF FrameKnown
    <3> QED BY <3>1, NewFrameKnown
  <2> HIDE DEF f
  <2>2. frames \in Seq(ToSet(frames) \cup {f})
    BY TopIs
  <2>3. frames' \in Seq(ToSet(frames) \cup {f})
    BY <1>1, <2>2 DEF f
  <2>4. \A g \in ToSet(frames') : g \in ToSet(frames) \cup {f}
    BY <2>3, SequenceOf
  <2> QED BY <2>1, <2>4 DEF ValueInv
<1>2. CASE Replace([Top EXCEPT !.result = {LegacyResult(q)}])
  <2> DEFINE f == [Top EXCEPT !.result = {LegacyResult(q)}]
  <2>1. /\ f.current = Top.current /\ f.next = Top.next /\ f.ctes = Top.ctes /\ f.outer = Top.outer
        /\ f.result = {LegacyResult(q)}
    BY TopIsSound DEF FrameFields
  <2>2. ResultKnown(LegacyResult(q))
    BY LegacyKnown
  <2>3. \A r \in f.result : ResultKnown(r)
    BY <2>1, <2>2
  <2>4. Replace(f)
    BY <1>2
  <2> HIDE DEF f
  <2>5. FrameKnown(f)
    BY <2>1, <2>3, KnownAsBefore, TopIsKnown
  <2> QED BY <2>4, <2>5, ReplacedKnown
<1> QED BY <1>1, <1>2 DEF Call

LEMMA EvaluateKnown ==
  ASSUME DocInv, MetadataInv, IndexInv, SchemaInv, ValueInv, Running, EvaluateCte \/ EvaluateDerived
  PROVE  ValueInv'
<1>1. CASE EvaluateCte
  <2>1. Call(Top.query.with[Top.k].query, {}) /\ InWith
    BY <1>1 DEF EvaluateCte
  <2> QED BY <2>1, Parts, CallKnown
<1>2. CASE EvaluateDerived
  <2> DEFINE source == Pending.source
             q == CHOOSE x \in source.query : TRUE
             outer == Pending.outer
  <2>1. source.kind = "derived" /\ Call(q, outer)
    BY <1>2 DEF EvaluateDerived
  <2>2. source.kind # "none"
    BY <2>1
  <2>3. \A row \in outer : RowKnown(row)
    BY <2>2, OuterKnown
  <2> HIDE DEF source, outer
  <2>4. source.query # {} /\ source.query \subseteq Subqueries
    BY <2>1, <2>2, Parts, PendingIs DEF source
  <2>5. q \in Subqueries
    BY <2>4
  <2> HIDE DEF q
  <2> QED BY <2>1, <2>3, <2>5, CallKnown
<1> QED BY <1>1, <1>2

LEMMA DefineCteKnown == ASSUME IndexInv, SchemaInv, ValueInv, Running, DefineCte PROVE ValueInv'
<1> DEFINE name == Top.query.with[Top.k].name
           r == CHOOSE x \in Top.result : TRUE
           rel == relation_from_query_result(r, name, cte_key(name, next_relation_cache_id))
           f == [Top EXCEPT !.ctes = [a \in DOMAIN @ \cup {name} |-> IF a = name THEN rel ELSE @[a]],
                            !.k = @ + 1, !.result = {}]
<1>1. Replace(f) /\ Top.result # {}
  BY DEF DefineCte, Progress
<1>2. ResultKnown(r)
  <2>1. r \in Top.result
    BY <1>1
  <2> HIDE DEF r
  <2> QED BY <2>1, TopIsKnown DEF FrameKnown
<1> HIDE DEF r
<1>3. RowsKnown(rel.rows)
  BY <1>2, ResultRowsKnown
<1> HIDE DEF rel, name
<1>4. /\ f.current = Top.current /\ f.next = Top.next /\ f.outer = Top.outer /\ f.result = {}
      /\ f.ctes = [a \in DOMAIN Top.ctes \cup {name} |-> IF a = name THEN rel ELSE Top.ctes[a]]
  BY TopIsSound DEF FrameFields
<1> HIDE DEF f
<1>5. \A a \in DOMAIN f.ctes : RowsKnown(f.ctes[a].rows)
  <2>1. \A a \in DOMAIN Top.ctes : RowsKnown(Top.ctes[a].rows)
    BY TopIsKnown DEF FrameKnown
  <2> TAKE a \in DOMAIN f.ctes
  <2>2. CASE a = name
    BY <1>3, <1>4, <2>2
  <2>3. CASE a # name
    <3>1. a \in DOMAIN Top.ctes /\ f.ctes[a] = Top.ctes[a]
      BY <1>4, <2>3
    <3> QED BY <2>1, <3>1
  <2> QED BY <2>2, <2>3
<1>6. FrameKnown(f)
  BY <1>4, <1>5, TopIsKnown DEF FrameKnown
<1> QED BY <1>1, <1>6, ReplacedKnown
----------------------------------------------------------------------------
LEMMA ReadyKnown ==
  ASSUME DocInv, MetadataInv, IndexInv, SchemaInv, ValueInv, Running, Ready, ~UnknownCte, NEW first
  PROVE  RowsKnown(SourceRelation(Top, Pending.source, first).rows)
<1>1. /\ Pending.source.kind = "cte" => Pending.source.name \in DOMAIN Top.ctes
      /\ Pending.source.kind = "derived" => Top.result # {}
  BY DEF Ready, UnknownCte
<1> QED BY <1>1, SourceKnown, TopIsSound, TopIsKnown

\* A source that opens without a failure is that of the query.
LEMMA Opens ==
  ASSUME OpenSource, ~ \E what : Fail(what)
  PROVE  /\ Ready /\ ~UnknownCte /\ Pending.source = Top.query.source
         /\ Replace(EntersJoin(Top, UnderOuter(SourceRelation(Top, Top.query.source, TRUE), Top.outer)))
<1> DEFINE bad == /\ Top.query.source.kind = "document"
                  /\ \E c \in SourceEqualities(Top.query) : EqualTo(c, Top.query, Top.outer) = Unbound
           rel == SourceRelation(Top, Top.query.source, TRUE)
<1>1. AfterWith /\ Ready
  BY DEF OpenSource
<1>2. Pending.source = Top.query.source
  <2>1. Pending.source.kind # "none" /\ ~InJoin
    BY <1>1 DEF Ready, AfterWith, InJoin
  <2> QED BY <2>1, PendingIs
<1>3. ~bad
  <2>0. "document" # "cte"
    OBVIOUS
  <2>1. ASSUME bad PROVE ~UnknownCte
    BY <1>2, <2>0, <2>1 DEF UnknownCte
  <2>2. ASSUME bad PROVE Fail("unknown identifier")
    BY <2>1, <2>2, Zenon DEF OpenSource
  <2> QED BY <2>2
<1>4. ~UnknownCte
  <2>1. ASSUME UnknownCte PROVE Fail("unknown cte")
    BY <1>3, <2>1, Zenon DEF OpenSource
  <2> QED BY <2>1
<1> HIDE DEF bad, rel
<1>5. Opened(rel)
  <2>1. \E r \in {rel} : Opened(r)
    BY <1>3, <1>4, Zenon DEF OpenSource, bad, rel
  <2> QED BY <2>1
<1>6. Replace(EntersJoin(Top, UnderOuter(rel, Top.outer)))
  BY <1>5 DEF Opened, Progress
<1> QED BY <1>1, <1>2, <1>4, <1>6 DEF rel

LEMMA OpenSourceKnown ==
  ASSUME DocInv, MetadataInv, IndexInv, SchemaInv, ValueInv, Running, OpenSource
  PROVE  ValueInv'
<1>1. CASE \E what : Fail(what)
  BY <1>1, SameFramesKnown DEF Fail
<1>2. CASE ~ \E what : Fail(what)
  <2> DEFINE rel == SourceRelation(Top, Top.query.source, TRUE)
             under == UnderOuter(rel, Top.outer)
             f == EntersJoin(Top, under)
  <2>1. Ready /\ ~UnknownCte /\ Pending.source = Top.query.source /\ Replace(f)
    BY <1>2, Opens
  <2>2. RowsKnown(rel.rows)
    BY <2>1, ReadyKnown
  <2> HIDE DEF rel
  <2>3. RowsKnown(under.rows)
    BY <2>2, UnderOuterKnown, TopIsKnown DEF FrameKnown
  <2> HIDE DEF under
  <2>4. FrameKnown(f)
    BY <2>3, TopIsKnown, TopIsSound, EntersKnown
  <2> HIDE DEF f
  <2> QED BY <2>1, <2>4, ReplacedKnown
<1> QED BY <1>1, <1>2

LEMMA RightKnown ==
  ASSUME DocInv, MetadataInv, IndexInv, SchemaInv, ValueInv, Running, InJoin, Ready, ~UnknownCte
  PROVE  RowsKnown(RightRelation.rows) /\ IsFiniteSet(DOMAIN RightRelation.alias_columns)
<1>1. Pending.source.kind # "none" /\ ~AfterWith
  BY DEF Ready, AfterWith, InJoin
<1>2. Pending.source = TheJoin.source
  BY <1>1, PendingIs
<1>3. RightRelation = SourceRelation(Top, TheJoin.source, FALSE)
  BY DEF RightRelation
<1>4. Len(nodes) \in Nat
  BY ParsedTable DEF Table
<1>5. DOMAIN RightRelation.alias_columns \subseteq {AliasOf(TheJoin.source)}
  BY <1>4, RightIsSound DEF OfOneAlias
<1>6. IsFiniteSet(DOMAIN RightRelation.alias_columns)
  BY <1>5, FS_Singleton, FS_Subset
<1> QED BY <1>2, <1>3, <1>6, ReadyKnown

LEMMA LateralEndsKnown == ASSUME IndexInv, SchemaInv, ValueInv, Running, LateralEnds PROVE ValueInv'
<1>1. Replace(EntersJoin(Top, Top.next))
  BY DEF LateralEnds, Progress
<1>2. FrameKnown(EntersJoin(Top, Top.next))
  BY TopIsKnown, TopIsSound, EntersKnown DEF FrameKnown
<1> QED BY <1>1, <1>2, ReplacedKnown

LEMMA WhereKnown == ASSUME IndexInv, SchemaInv, ValueInv, Running, Where PROVE ValueInv'
<1>1. CASE \E what : Fail(what)
  BY <1>1, SameFramesKnown DEF Fail
<1>2. CASE ~ \E what : Fail(what)
  <2> DEFINE s == Top.current.rows
             P == {k \in DOMAIN s : Holds(Top.query, s[k]) \subseteq {"true"}}
             rel == [Top.current EXCEPT !.rows = Those(s, P)]
             f == [Top EXCEPT !.step = "order", !.current = rel]
  <2>1. Replace([Top EXCEPT !.step = "order",
                   !.current.rows = Those(@, {k \in DOMAIN @ : Holds(Top.query, @[k]) \subseteq {"true"}})])
    BY <1>2 DEF Where, Progress
  <2>2. Replace(f)
    BY <2>1, TopIsSound DEF FrameFields
  <2>3. IsSequence(s) /\ HasParts(Top.current) /\ RowsKnown(s)
    BY TopIsSound, TopIsKnown DEF FrameIsSound, Sound, FrameKnown
  <2>4. P \in SUBSET (DOMAIN s)
    OBVIOUS
  <2> HIDE DEF P
  <2>5. \A k \in DOMAIN Those(s, P) : \E j \in P : Those(s, P)[k] = s[j]
    BY <2>3, <2>4, ThoseAre
  <2>6. rel.rows = Those(s, P)
    BY <2>3 DEF HasParts, Relation
  <2> HIDE DEF rel
  <2>7. RowsKnown(rel.rows)
    BY <2>3, <2>4, <2>5, <2>6 DEF RowsKnown
  <2>8. f.current = rel /\ f.next = Top.next /\ f.result = Top.result /\ f.ctes = Top.ctes /\ f.outer = Top.outer
    BY TopIsSound DEF FrameFields
  <2> HIDE DEF f
  <2>9. FrameKnown(f)
    BY <2>7, <2>8, TopIsKnown DEF FrameKnown
  <2> QED BY <2>2, <2>9, ReplacedKnown
<1> QED BY <1>1, <1>2

LEMMA LateralRowKnown ==
  ASSUME DocInv, MetadataInv, IndexInv, SchemaInv, ValueInv, Running, LateralRow
  PROVE  ValueInv'
<1>1. CASE \E what : Fail(what)
  BY <1>1, SameFramesKnown DEF Fail
<1>2. CASE ~ \E what : Fail(what)
  <2> DEFINE row == Top.current.rows[Top.left]
             right == RightRelation
             next == Top.next
             more == MergedWith(row, right)
             rel == Relation(next.rows \o more, MergeColumns(next.alias_columns, right.alias_columns), next.cache_key)
             f == [Top EXCEPT !.left = @ + 1, !.result = {}, !.next = rel]
  <2>1. InJoin /\ TheJoin.lateral /\ Ready /\ ~UnknownCte /\ LateralWith(row, right)
    BY <1>2 DEF LateralRow
  <2>2. Replace(f)
    BY <1>2, <2>1, TopIsSound DEF LateralWith, Progress, FrameFields, MergedWith
  <2>3. RowKnown(row)
    <3>1. ~AfterWith
      BY <2>1 DEF AfterWith, InJoin
    <3>2. CASE ~(Top.left <= Len(Top.current.rows))
      <4>1. Pending = [source |-> [kind |-> "none"], outer |-> {}]
        BY <2>1, <3>1, <3>2, Zenon DEF Pending
      <4>2. Pending.source.kind = "none"
        BY <4>1
      <4> QED BY <2>1, <4>2 DEF Ready
    <3>3. Top.left \in Nat \ {0} /\ IsSequence(Top.current.rows)
      BY TopIsSound DEF FrameIsSound, Sound
    <3>4. CASE Top.left <= Len(Top.current.rows)
      <4>1. Top.left \in DOMAIN Top.current.rows
        BY <3>3, <3>4, SequenceIs
      <4> QED BY <4>1, TopIsKnown DEF FrameKnown, RowsKnown
    <3> QED BY <3>2, <3>4
  <2>4. RowsKnown(right.rows)
    BY <2>1, RightKnown
  <2>5. Top.step = "join" /\ IsSequence(next.rows) /\ RowsKnown(next.rows)
    BY <2>1, TopIsSound, TopIsKnown DEF FrameIsSound, FrameKnown, Sound, InJoin
  <2>6. IsSequence(right.rows)
    <3>1. Len(nodes) \in Nat
      BY ParsedTable DEF Table
    <3> QED BY <2>1, <3>1, RightIsSound DEF OfOneAlias, Sound
  <2> HIDE DEF row, right, next
  <2> DEFINE G == {r \in ToSet(next.rows) \cup ToSet(more) : RowKnown(r)}
  <2>7. next.rows \in Seq(G)
    <3>1. \A k \in DOMAIN next.rows : next.rows[k] \in G
      BY <2>5 DEF RowsKnown, ToSet
    <3> HIDE DEF G
    <3>2. DOMAIN next.rows = 1 .. Len(next.rows) /\ Len(next.rows) \in Nat
          /\ next.rows = [k \in 1 .. Len(next.rows) |-> next.rows[k]]
      BY <2>5, SequenceIs
    <3>3. [k \in 1 .. Len(next.rows) |-> next.rows[k]] \in Seq(G)
      BY <3>1, <3>2, ValuesAreASeq
    <3> QED BY <3>2, <3>3
  <2>8. more \in Seq(G)
    <3>1. /\ DOMAIN more = DOMAIN right.rows
          /\ \A k \in DOMAIN more : more[k] = merge_row_aliases(row, right.rows[k])
      BY DEF MergedWith
    <3>2. DOMAIN right.rows = 1 .. Len(right.rows) /\ Len(right.rows) \in Nat
      BY <2>6, SequenceIs
    <3>3. more = [k \in 1 .. Len(right.rows) |-> more[k]]
      BY <3>2 DEF MergedWith
    <3> HIDE DEF more
    <3>4. \A k \in DOMAIN more : RowKnown(more[k])
      BY <2>3, <2>4, <3>1, MergedKnown DEF RowsKnown
    <3>5. \A k \in DOMAIN more : more[k] \in G
      BY <3>4 DEF ToSet
    <3> HIDE DEF G
    <3>6. [k \in 1 .. Len(right.rows) |-> more[k]] \in Seq(G)
      BY <3>1, <3>2, <3>5, ValuesAreASeq
    <3> QED BY <3>3, <3>6
  <2>9. \A r \in G : RowKnown(r)
    OBVIOUS
  <2> HIDE DEF G
  <2>10. RowsKnown(rel.rows)
    <3>1. rel.rows = next.rows \o more
      BY DEF Relation
    <3> HIDE DEF more, rel
    <3>2. \A k \in DOMAIN rel.rows : rel.rows[k] \in G
      BY <2>7, <2>8, <3>1
    <3> QED BY <2>9, <3>2 DEF RowsKnown
  <2> HIDE DEF rel
  <2>11. f.current = Top.current /\ f.result = {} /\ f.ctes = Top.ctes /\ f.next = rel /\ f.outer = Top.outer
    BY TopIsSound DEF FrameFields
  <2> HIDE DEF f
  <2>12. FrameKnown(f)
    BY <2>10, <2>11, TopIsKnown DEF FrameKnown
  <2> QED BY <2>2, <2>12, ReplacedKnown
<1> QED BY <1>1, <1>2
----------------------------------------------------------------------------
LEMMA ReplyKnown ==
  ASSUME IndexInv, ValueInv, Running, NEW result, ResultKnown(result), Answers(result)
  PROVE  ValueInv'
<1>1. CASE Len(frames) = 1
  <2>1. frames' = <<>> /\ DOMAIN <<>> = {}
    BY <1>1 DEF Answers
  <2>2. ToSet(frames') = {}
    BY <2>1 DEF ToSet
  <2> QED BY <2>2 DEF ValueInv
<1>2. CASE Len(frames) # 1
  <2> DEFINE S == ToSet(frames)
             T == S \cup {[f EXCEPT !.result = {result}] : f \in S}
  <2>1. frames' \in Seq(T)
    BY <1>2, AnsweredFrames
  <2>2. ASSUME NEW f \in S PROVE FrameKnown([f EXCEPT !.result = {result}])
    <3> DEFINE g == [f EXCEPT !.result = {result}]
    <3>1. DOMAIN f = FrameFields /\ FrameKnown(f)
      BY TopIs DEF ValueInv
    <3>2. g.current = f.current /\ g.next = f.next /\ g.ctes = f.ctes /\ g.outer = f.outer /\ g.result = {result}
      BY <3>1 DEF FrameFields
    <3>3. \A r \in g.result : ResultKnown(r)
      BY <3>2
    <3> HIDE DEF g
    <3>4. FrameKnown(g)
      BY <3>1, <3>2, <3>3, KnownAsBefore
    <3> QED BY <3>4 DEF g
  <2>3. \A f \in T : FrameKnown(f)
    BY <2>2 DEF ValueInv
  <2> HIDE DEF T
  <2>4. \A f \in ToSet(frames') : FrameKnown(f)
    BY <2>1, <2>3, SequenceOf
  <2> QED BY <2>4 DEF ValueInv
<1> QED BY <1>1, <1>2

LEMMA FinishKnown == ASSUME IndexInv, SchemaInv, ValueInv, Running, Finish PROVE ValueInv'
<1>1. CASE \E what : Fail(what)
  BY <1>1, SameFramesKnown DEF Fail
<1>2. CASE ~ \E what : Fail(what)
  <2> DEFINE q == Top.query
             rel(arranged) == [Top.current EXCEPT !.rows = Truncated(q, arranged)]
  <2>1. PICK arranged \in Arrangements(Top.current.rows, q) :
          /\ ~ProjectionFails(q, rel(arranged))
          /\ Answers(query_result_from_relation(q, rel(arranged)))
    BY <1>2 DEF Finish
  <2>2. Sound(Top.current) /\ q \in Statements \cup Subqueries /\ RowsKnown(Top.current.rows)
    BY TopIsSound, TopIsKnown DEF FrameIsSound, FrameKnown
  <2> DEFINE s == Truncated(q, arranged)
             cut == rel(arranged)
             result == query_result_from_relation(q, cut)
  <2>3. IsSequence(arranged) /\ RowsKnown(arranged)
    <3>1. IsSequence(arranged) /\ DOMAIN arranged = DOMAIN Top.current.rows
          /\ \A k \in DOMAIN arranged : \E j \in DOMAIN Top.current.rows : arranged[k] = Top.current.rows[j]
      BY <2>2, ArrangedIs DEF Sound
    <3> QED BY <2>2, <3>1 DEF RowsKnown
  <2>4. IsSequence(s) /\ RowsKnown(s)
    <3> HIDE DEF q
    <3>1. IsSequence(s) /\ DOMAIN s \subseteq DOMAIN arranged /\ \A k \in DOMAIN s : s[k] = arranged[k]
      BY <2>2, <2>3, ShortenedIs
    <3> HIDE DEF s
    <3> QED BY <2>3, <3>1 DEF RowsKnown
  <2>5. cut.rows = s
    BY <2>2 DEF Sound, HasParts, Relation
  <2>6. ~ProjectionFails(q, cut) /\ Answers(result)
    BY <2>1
  <2> HIDE DEF cut, s, q
  <2>7. ResultKnown(result)
    BY <2>2, <2>4, <2>5, <2>6, AnswersKnown
  <2> HIDE DEF result
  <2> QED BY <2>6, <2>7, ReplyKnown
<1> QED BY <1>1, <1>2

LEMMA JoinKnown ==
  ASSUME DocInv, MetadataInv, IndexInv, SchemaInv, ValueInv, Running, Join
  PROVE  ValueInv'
<1>1. CASE \E what : Fail(what)
  BY <1>1, SameFramesKnown DEF Fail
<1>2. CASE ~ \E what : Fail(what)
  <2> DEFINE join == TheJoin
             right == RightRelation
             left == Top.current
             alias == Top.query.source.alias
             rows_ == JoinRows(StrategyOf(join, left, right, indexes), join, left, right, alias)
             rel == Relation(rows_, MergeColumns(left.alias_columns, right.alias_columns), left.cache_key)
  <2>0. Len(nodes) \in Nat
    BY ParsedTable DEF Table
  <2>1. Replace(EntersJoin(Top, rel)) /\ InJoin /\ Ready /\ ~UnknownCte
    <3>1. InJoin /\ Ready
      BY DEF Join
    <3>2. ~UnknownCte
      BY <1>2 DEF Join
    <3> QED BY <1>2, <3>1, <3>2, JoinMakes DEF JoinWith, Progress
  <2>2. Sound(left) /\ RowsKnown(left.rows)
    BY TopIsSound, TopIsKnown DEF FrameIsSound, FrameKnown
  <2>3. Sound(right) /\ RowsKnown(right.rows) /\ IsFiniteSet(DOMAIN right.alias_columns)
    BY <2>0, <2>1, RightIsSound, RightKnown DEF OfOneAlias
  <2>4. \A s \in DOMAIN indexes : DOMAIN indexes[s] \subseteq Nat \ {0}
    BY DEF SchemaInv
  <2> HIDE DEF join, right, left, alias
  <2>5. RowsKnown(rows_)
    BY <2>2, <2>3, <2>4, JoinRowsKnown
  <2>6. rel.rows = rows_
    BY DEF Relation
  <2> HIDE DEF rel, rows_
  <2>7. FrameKnown(EntersJoin(Top, rel))
    BY <2>5, <2>6, TopIsKnown, TopIsSound, EntersKnown
  <2> QED BY <2>1, <2>7, ReplacedKnown
<1> QED BY <1>1, <1>2

LEMMA FrameStepKnown ==
  ASSUME DocInv, MetadataInv, IndexInv, SchemaInv, ValueInv, FrameStep
  PROVE  ValueInv'
<1>1. Running
  BY DEF FrameStep
<1> QED BY <1>1, EvaluateKnown, DefineCteKnown, OpenSourceKnown, JoinKnown, LateralRowKnown,
           LateralEndsKnown, WhereKnown, FinishKnown DEF FrameStep

LEMMA StartKnown == ASSUME NEW q \in Statements, Start(q) PROVE ValueInv'
<1> DEFINE f == NewFrame(q, <<>>, {})
<1>1. frames' = <<f>>
  BY DEF Start
<1>2. DOMAIN <<>> = {}
  OBVIOUS
<1>3. FrameKnown(f)
  BY <1>2, NewFrameKnown
<1> HIDE DEF f
<1>4. frames' \in Seq({f})
  BY <1>1
<1>5. \A g \in ToSet(frames') : g \in {f}
  BY <1>4, SequenceOf
<1> QED BY <1>3, <1>5 DEF ValueInv

\* The invariant of the values: whatever the frames hold was in the document or in the
\* statement, as it is or as a field of a result keeps it, and no field has two.
THEOREM ValueInvariance == RelSpec => []ValueInv
<1>1. RelInit => ValueInv
  <2> SUFFICES ASSUME RelInit PROVE ValueInv
    OBVIOUS
  <2>0. DOMAIN <<>> = {}
    OBVIOUS
  <2>1. frames = <<>>
    BY DEF RelInit
  <2>2. ToSet(frames) = {}
    BY <2>0, <2>1 DEF ToSet
  <2> QED BY <2>2 DEF ValueInv
<1>2. DocInv /\ MetadataInv /\ IndexInv /\ SchemaInv /\ ValueInv /\ [RelNext]_relVars => ValueInv'
  <2> SUFFICES ASSUME DocInv, MetadataInv, IndexInv, SchemaInv, ValueInv, [RelNext]_relVars PROVE ValueInv'
    OBVIOUS
  <2>1. CASE FrameStep
    BY <2>1, FrameStepKnown
  <2>2. CASE \E q \in Statements : Start(q)
    BY <2>2, StartKnown
  <2>3. CASE UNCHANGED runtime
    BY <2>3, SameFramesKnown DEF runtime
  <2> QED BY <2>1, <2>2, <2>3 DEF RelNext, relVars
<1> QED BY <1>1, <1>2, RelDocInv, RelMetadataInv, IndexInvariance, SchemaInvariance, PTL DEF RelSpec
----------------------------------------------------------------------------
(* The strategies compute ON. *)

\* What a row holds fits any comparison of known values.
LEMMA KnownRowsFit ==
  ASSUME NEW row, RowKnown(row)
  PROVE  FieldsIn(row, Known)
BY DEF RowKnown, RecordKnown, IsCell, FieldsIn

LEMMA LiteralsKnown == LiteralsIn(Known)
<1>1. ASSUME NEW c \in Exprs, c.kind = "compare", NEW k \in DOMAIN c.values PROVE Raw(c.values[k]) \in Known
  <2>1. Raw(c.values[k]) \in Given
    BY <1>1 DEF Given
  <2> QED BY <2>1, WrittenIsKnown DEF Written
<1> QED BY <1>1 DEF LiteralsIn

LEMMA JoinComputes ==
  ASSUME DocInv, MetadataInv, IndexInv, SchemaInv, ValueInv, SpelledOneWay(Known), DerivedIsFresh
  PROVE  JoinComputesOn
<1> SUFFICES ASSUME AboutToJoin PROVE Agree(RightRelation)
  BY DEF JoinComputesOn
<1>1. Running /\ InJoin /\ Ready /\ ~UnknownCte /\ Len(nodes) \in Nat
  BY ParsedTable DEF AboutToJoin, Table
<1>2. RowsKnown(Top.current.rows) /\ RowsKnown(RightRelation.rows)
  BY <1>1, TopIsKnown, RightKnown DEF FrameKnown
<1>3. Comparable(Top.current, RightRelation, Known)
  BY <1>2, KnownRowsFit, LiteralsKnown DEF Comparable, RowsKnown
<1> QED BY <1>1, <1>3, JoinAgrees

\* Whichever strategy the form of an ON selects, hash join or lookup, the join has the
\* rows of the nested loop that evaluates ON on each pair, in its order, if that
\* evaluates, for every statement over every document whose values are told by their
\* letters: a number is read off the letters that the runtime keeps.  What is left out
\* is a derived source whose index was built of another one's rows, which have the same
\* key (execute_relation_join.cpp).
THEOREM JoinsComputeOn ==
  ASSUME SpelledOneWay(Known)
  PROVE  RelSpec => [](DerivedIsFresh => JoinComputesOn)
<1>1. DocInv /\ MetadataInv /\ IndexInv /\ SchemaInv /\ ValueInv => (DerivedIsFresh => JoinComputesOn)
  BY JoinComputes
<1> QED BY <1>1, RelDocInv, RelMetadataInv, IndexInvariance, SchemaInvariance, ValueInvariance, PTL
----------------------------------------------------------------------------
(* What WHERE asks of the first source is asked early. *)

\* A WHERE that holds has each comparison true that only ANDs connect.
LEMMA EqualitiesHold ==
  ASSUME NEW q, q.where \subseteq Exprs, NEW row, "true" \in Holds(q, row), AtMostOne(q.where),
         NEW c \in SourceEqualities(q)
  PROVE  /\ c \in Exprs /\ c.kind = "compare" /\ TargetsSourceRow(c, q)
         /\ EvalCompare(c, row, q.source.alias) = "true"
<1> DEFINE V == SUBSET Exprs
           alias == q.source.alias
           body(f, e) == IF e.kind = "compare" THEN {e}
                         ELSE IF e.kind = "and" THEN f[e.left] \cup f[e.right] ELSE {}
           step == [e \in Exprs |-> [f \in [Exprs -> V] |-> body(f, e)]]
           conjuncts == CHOOSE g : g = [e \in Exprs |-> body(g, e)]
<1>0. "compare" # "and"
  OBVIOUS
<1>1. \A e, f : /\ e.kind = "compare" => body(f, e) = {e}
                /\ e.kind = "and" => body(f, e) = f[e.left] \cup f[e.right]
                /\ e.kind \notin {"compare", "and"} => body(f, e) = {}
  BY <1>0
<1>2. SourceEqualities(q) = {d \in UNION {conjuncts[e] : e \in q.where} : TargetsSourceRow(d, q)}
  BY DEF SourceEqualities
<1> HIDE DEF body
<1>3. OfLessDeep(step, Exprs, V, Deep)
  <2> SUFFICES ASSUME NEW e \in Exprs, NEW f \in [Exprs -> V]
               PROVE  /\ body(f, e) \in V
                      /\ \A g \in [Exprs -> V] :
                            (\A p \in Exprs : Deep[p] < Deep[e] => f[p] = g[p]) => body(f, e) = body(g, e)
    BY DEF OfLessDeep
  <2>1. e.kind = "and" => /\ e.left \in Exprs /\ e.right \in Exprs
                          /\ Deep[e.left] < Deep[e] /\ Deep[e.right] < Deep[e]
    BY DeepIs
  <2>2. body(f, e) \in V
    <3>1. e.kind = "and" => f[e.left] \in SUBSET Exprs /\ f[e.right] \in SUBSET Exprs
      BY <2>1
    <3> QED BY <1>1, <3>1
  <2>3. ASSUME NEW g \in [Exprs -> V], \A p \in Exprs : Deep[p] < Deep[e] => f[p] = g[p]
        PROVE  body(f, e) = body(g, e)
    <3>1. CASE e.kind = "and"
      <4>1. f[e.left] = g[e.left] /\ f[e.right] = g[e.right]
        BY <2>1, <2>3, <3>1
      <4> QED BY <1>1, <3>1, <4>1
    <3>2. CASE e.kind # "and"
      BY <1>1, <3>2
    <3> QED BY <3>1, <3>2
  <2> QED BY <2>2, <2>3
<1>4. \A e \in Exprs, f \in [Exprs -> V] : step[e][f] = body(f, e)
  OBVIOUS
<1>5. V # {}
  OBVIOUS
<1> HIDE DEF step, V
<1>6. PICK h \in [Exprs -> V] : \A e \in Exprs : h[e] = step[e][h]
  BY <1>3, <1>5, DeepIs, RecursionOnDepth
<1>7. h = [e \in Exprs |-> body(h, e)]
  <2>1. h = [e \in Exprs |-> h[e]] /\ \A e \in Exprs : h[e] = body(h, e)
    BY <1>4, <1>6
  <2> QED BY <2>1
<1>8. conjuncts = [e \in Exprs |-> body(conjuncts, e)]
  BY <1>7, Zenon
<1> HIDE DEF conjuncts
<1>9. \A e \in Exprs : conjuncts[e] = body(conjuncts, e)
  BY <1>8
<1> DEFINE Eval(e) == EvalExpr(e, row, alias)
           Found(d) == d \in Exprs /\ d.kind = "compare"
           Compare(d) == EvalCompare(d, row, alias)
           G == {e \in Exprs : /\ \A d \in conjuncts[e] : Found(d)
                               /\ Eval(e) = "true" => \A d \in conjuncts[e] : Compare(d) = "true"}
<1>15. \A e \in Exprs : /\ e.kind = "compare" => Eval(e) = Compare(e)
                        /\ e.kind = "and" => Eval(e) = Connected("and", {Eval(e.left), Eval(e.right)})
  <2> HIDE DEF alias
  <2> QED BY EvalIs, ZenonT(40)
<1> HIDE DEF Eval, Compare
<1>10. ASSUME NEW e \in Exprs, \A p \in Exprs : Deep[p] < Deep[e] => p \in G PROVE e \in G
  <2>1. CASE e.kind = "compare"
    <3>1. Eval(e) = Compare(e) /\ conjuncts[e] = {e}
      BY <1>1, <1>9, <1>15, <2>1
    <3> QED BY <2>1, <3>1
  <2>2. CASE e.kind = "and"
    <3>1. e.left \in Exprs /\ e.right \in Exprs /\ e.left \in G /\ e.right \in G
      BY <1>10, <2>2, DeepIs
    <3>2. conjuncts[e] = conjuncts[e.left] \cup conjuncts[e.right]
      BY <1>1, <1>9, <2>2
    <3>3. Eval(e) = Connected("and", {Eval(e.left), Eval(e.right)})
      BY <1>15, <2>2
    <3> HIDE DEF Found
    <3>4. Eval(e) = "true" => Eval(e.left) = "true" /\ Eval(e.right) = "true"
      <4> DEFINE x == Eval(e.left)
                 y == Eval(e.right)
      <4> HIDE DEF x, y
      <4>1. {x, y} = {"true"} <=> x = "true" /\ y = "true"
        OBVIOUS
      <4>2. Connected("and", {x, y}) \in {"unknown identifier", Truth({x, y} = {"true"})}
        BY DEF Connected
      <4> QED BY <3>3, <4>1, <4>2, TruthIs DEF x, y
    <3> QED BY <3>1, <3>2, <3>4
  <2>3. CASE e.kind \notin {"compare", "and"}
    <3>1. conjuncts[e] = {}
      BY <1>1, <1>9, <2>3
    <3> QED BY <3>1
  <2> QED BY <2>1, <2>2, <2>3
<1> HIDE DEF G
<1>11. Exprs \subseteq G
  BY <1>10, DeepIs, DepthInduction
<1>12. PICK e \in q.where : c \in conjuncts[e]
  BY <1>2
<1>13. Eval(e) = "true"
  <2>1. PICK f \in q.where : EvalExpr(f, row, alias) = "true"
    BY DEF Holds
  <2> QED BY <2>1 DEF AtMostOne, Eval
<1>14. TargetsSourceRow(c, q)
  BY <1>2
<1>16. c \in Exprs /\ c.kind = "compare" /\ Compare(c) = "true"
  BY <1>11, <1>12, <1>13 DEF G
<1> QED BY <1>14, <1>16 DEF Compare

FieldsAreOwn(n) == {"tag", "parent_id"} \cap DOMAIN nodes[n].attributes = {}

\* The columns that are asked early are the node's own.
LEMMA AskedColumns ==
  ASSUME NEW n \in Node, FieldsAreOwn(n)
  PROVE  /\ NodeRecord(n).values[<<"self", "tag">>] = {Word(nodes[n].tag)}
         /\ NodeRecord(n).values[<<"self", "parent_id">>] = {Raw(Number(x)) : x \in number_of(n, "parent_id")}
<1> DEFINE parent == nodes[n].parent
           above == IF parent = 0 THEN {} ELSE DOMAIN OwnValues(parent)
           columns == ({"self"} \X DOMAIN OwnValues(n)) \cup ({"parent"} \X above)
           value(c) == OwnValues(IF c[1] = "self" THEN n ELSE parent)[c[2]]
<1>1. NodeRecord(n).values = [c \in columns |-> value(c)]
  <2>1. NodeRecord(n) = Record([c \in columns |-> value(c)], nodes[n].attributes)
    BY DEF NodeRecord
  <2> HIDE DEF columns, value
  <2> QED BY <2>1 DEF Record
<1>2. ASSUME NEW f \in {"tag", "parent_id"} PROVE NodeRecord(n).values[<<"self", f>>] = NodeCore(n)[f]
  <2>1. f \in CoreFields
    BY DEF CoreFields, NumberFields
  <2>2. f \in DOMAIN OwnValues(n) /\ OwnValues(n)[f] = NodeCore(n)[f]
    <3> DEFINE core == NodeCore(n)
    <3>1. f \notin DOMAIN nodes[n].attributes
      BY DEF FieldsAreOwn
    <3>2. OwnValues(n) = [g \in CoreFields \cup DOMAIN nodes[n].attributes |->
                            IF g \in DOMAIN nodes[n].attributes THEN {nodes[n].attributes[g]} ELSE core[g]]
      BY DEF OwnValues
    <3> HIDE DEF core
    <3>3. f \in DOMAIN OwnValues(n) /\ OwnValues(n)[f] = core[f]
      BY <2>1, <3>1, <3>2
    <3> QED BY <3>3 DEF core
  <2>3. <<"self", f>> \in columns
    BY <2>2
  <2>4. value(<<"self", f>>) = OwnValues(n)[f]
    OBVIOUS
  <2> HIDE DEF columns, value
  <2> QED BY <1>1, <2>2, <2>3, <2>4
<1>3. NodeCore(n)["tag"] = {Word(nodes[n].tag)}
  <2>1. NodeCore(n)["tag"] = {Raw(v) : v \in values_of(n, "tag")}
    BY DEF NodeCore, CoreFields
  <2>2. values_of(n, "tag") = {Word(nodes[n].tag)}
    <3>1. "tag" \notin NumberFields
      BY DEF NumberFields
    <3> QED BY <3>1, Zenon DEF values_of
  <2>3. Raw(Word(nodes[n].tag)) = Word(nodes[n].tag)
    BY DEF Raw, Word
  <2> QED BY <2>1, <2>2, <2>3
<1>4. NodeCore(n)["parent_id"] = {Raw(Number(x)) : x \in number_of(n, "parent_id")}
  <2>1. NodeCore(n)["parent_id"] = {Raw(v) : v \in values_of(n, "parent_id")}
    BY DEF NodeCore, CoreFields, NumberFields
  <2>2. values_of(n, "parent_id") = {Number(x) : x \in number_of(n, "parent_id")}
    <3>1. "parent_id" \in NumberFields /\ "parent_id" # "tag"
      BY DEF NumberFields
    <3> QED BY <3>1, Zenon DEF values_of
  <2> DEFINE S == number_of(n, "parent_id")
  <2> HIDE DEF S
  <2>3. {Raw(v) : v \in {Number(x) : x \in S}} = {Raw(Number(x)) : x \in S}
    OBVIOUS
  <2> QED BY <2>1, <2>2, <2>3 DEF S
<1>5. "tag" \in {"tag", "parent_id"} /\ "parent_id" \in {"tag", "parent_id"}
  OBVIOUS
<1> QED BY <1>2, <1>3, <1>4, <1>5

\* An operand of the first source is read off its record.
LEMMA ReadOffItsRecord ==
  ASSUME NEW row, NEW alias \in DOMAIN row, IsFiniteSet(DOMAIN row),
         NEW o, o.qualifier \subseteq {alias}, NEW active, active \subseteq {alias},
         NEW a \in relation_operand_value(o, row, active)
  PROVE  a \in row[alias].values[ColumnOf(o)]
<1> DEFINE record == resolve_record(row, o.qualifier, active)
<1>1. record \subseteq {alias}
  <2>1. Cardinality(DOMAIN row) = 1 => DOMAIN row = {alias}
    BY FS_Singleton
  <2> QED BY <2>1 DEF resolve_record
<1>2. relation_operand_value(o, row, active) = FieldOf(record, ColumnOf(o), row)
  BY DEF relation_operand_value
<1>3. record \subseteq DOMAIN row
  BY <1>1
<1>4. FieldOf(record, ColumnOf(o), row)
        = UNION {row[b].values[ColumnOf(o)] : b \in {d \in record : ColumnOf(o) \in DOMAIN row[d].values}}
  BY <1>3 DEF FieldOf
<1> HIDE DEF record
<1> QED BY <1>1, <1>2, <1>4

\* What an equality asks for, when it is read early, is the outer row's to say: its
\* operand is qualified if there is an outer row, and the source hides no alias of it.
AskedOf(c, q, outer) ==
  /\ EqualTo(c, q, outer) # Unbound
  /\ LET rhs == compare_rhs_scalars(c)[1] IN rhs.kind = "operand" /\ outer # {} => rhs.qualifier # {}

ReadAhead(q, outer) ==
  /\ \A c \in SourceEqualities(q) : AskedOf(c, q, outer)
  /\ \A row \in outer : AliasOf(q.source) \notin DOMAIN row

OuterRow(outer) == IF outer = {} THEN <<>> ELSE CHOOSE row \in outer : TRUE

LEMMA OuterRowIs ==
  ASSUME NEW outer, \A row \in outer : RowKnown(row)
  PROVE  /\ RowKnown(OuterRow(outer))
         /\ outer = {} => DOMAIN OuterRow(outer) = {}
         /\ outer # {} => OuterRow(outer) \in outer
<1>1. CASE outer = {}
  <2>1. OuterRow(outer) = <<>>
    BY <1>1 DEF OuterRow
  <2>2. DOMAIN <<>> = {}
    OBVIOUS
  <2>3. IsFiniteSet({})
    BY FS_EmptySet
  <2>4. DOMAIN OuterRow(outer) = {}
    BY <2>1, <2>2
  <2>5. RowKnown(OuterRow(outer))
    BY <2>3, <2>4 DEF RowKnown
  <2> QED BY <1>1, <2>4, <2>5
<1>2. CASE outer # {}
  <2>1. OuterRow(outer) \in outer
    BY <1>2 DEF OuterRow
  <2> QED BY <1>2, <2>1
<1> QED BY <1>1, <1>2

\* Read early or on the row of a node, the right side is the same value.
LEMMA SameWhenAskedEarly ==
  ASSUME NEW c \in Exprs, c.kind = "compare", c.op = "=",
         NEW q, AtMostOne(q.source.alias), NEW outer, \A r \in outer : RowKnown(r),
         AskedOf(c, q, outer), EqualTo(c, q, outer) # {},
         NEW row, DOMAIN OuterRow(outer) \subseteq DOMAIN row,
         \A a \in DOMAIN OuterRow(outer) : row[a] = OuterRow(outer)[a]
  PROVE  /\ AtMostOne(EqualTo(c, q, outer))
         /\ eval_relation_scalar_expr(compare_rhs_scalars(c)[1], row, q.source.alias) = EqualTo(c, q, outer)
<1> DEFINE s == compare_rhs_scalars(c)[1]
           active == q.source.alias
           before == OuterRow(outer)
<1>0. "operand" # "literal"
  OBVIOUS
<1>1. EqualTo(c, q, outer) = eval_relation_scalar_expr(s, before, active)
  BY DEF EqualTo, OuterRow
<1>2. \/ s.kind = "operand" /\ AtMostOne(s.qualifier)
      \/ s.kind = "literal" /\ s.value = {Raw(c.values[1])}
  BY SidesAre
<1>3. RowKnown(before) /\ (outer = {} => DOMAIN before = {})
  BY OuterRowIs
<1>4. EqualTo(c, q, outer) # Unbound /\ (s.kind = "operand" /\ outer # {} => s.qualifier # {})
  BY DEF AskedOf
<1>5. DOMAIN before \subseteq DOMAIN row /\ \A a \in DOMAIN before : row[a] = before[a]
  OBVIOUS
<1> HIDE DEF s, before, active
<1>6. CASE s.kind = "literal"
  <2>1. \A r : eval_relation_scalar_expr(s, r, active) = s.value
    BY <1>0, <1>6, Zenon DEF eval_relation_scalar_expr
  <2>2. s.value = {Raw(c.values[1])}
    BY <1>0, <1>2, <1>6
  <2> DEFINE w == Raw(c.values[1])
  <2> HIDE DEF w
  <2>3. AtMostOne({w})
    BY DEF AtMostOne
  <2> QED BY <1>1, <2>1, <2>2, <2>3 DEF s, active, w
<1>7. CASE s.kind = "operand"
  <2>1. \A r : eval_relation_scalar_expr(s, r, active) = relation_operand_value(s, r, active)
    BY <1>0, <1>7, Zenon DEF eval_relation_scalar_expr
  <2>2. EqualTo(c, q, outer) = FieldOf(resolve_record(before, s.qualifier, active), ColumnOf(s), before)
    BY <1>1, <2>1 DEF relation_operand_value
  <2>3. AtMostOne(EqualTo(c, q, outer))
    <3>1. AtMostOne(s.qualifier) /\ AtMostOne(active)
      BY <1>0, <1>2, <1>7 DEF active
    <3>2. relation_operand_value(s, before, active) = Unbound \/ IsCell(relation_operand_value(s, before, active))
      BY <1>3, <3>1, OperandKnown
    <3> QED BY <1>1, <1>4, <2>1, <3>2 DEF IsCell
  <2>4. CASE s.qualifier = {}
    <3>1. DOMAIN before = {}
      BY <1>3, <1>4, <1>7, <2>4
    <3>2. resolve_record(before, s.qualifier, active) = {}
      BY <2>4, <3>1 DEF resolve_record
    <3>3. FieldOf({}, ColumnOf(s), before) = {}
      BY DEF FieldOf
    <3> QED BY <2>2, <3>2, <3>3
  <2>5. CASE s.qualifier # {}
    <3>1. \A r : resolve_record(r, s.qualifier, active) = s.qualifier
      BY <2>5 DEF resolve_record
    <3>2. s.qualifier \subseteq DOMAIN before
      BY <1>4, <2>2, <3>1 DEF FieldOf
    <3>3. FieldOf(s.qualifier, ColumnOf(s), row) = FieldOf(s.qualifier, ColumnOf(s), before)
      <4>1. s.qualifier \subseteq DOMAIN row /\ \A a \in s.qualifier : row[a] = before[a]
        BY <1>5, <3>2
      <4>2. {row[a].values[ColumnOf(s)] : a \in {b \in s.qualifier : ColumnOf(s) \in DOMAIN row[b].values}}
              = {before[a].values[ColumnOf(s)] : a \in {b \in s.qualifier : ColumnOf(s) \in DOMAIN before[b].values}}
        BY <4>1
      <4> QED BY <3>2, <4>1, <4>2 DEF FieldOf
    <3>4. eval_relation_scalar_expr(s, row, active) = FieldOf(s.qualifier, ColumnOf(s), row)
      BY <2>1, <3>1 DEF relation_operand_value
    <3> QED BY <2>2, <2>3, <3>1, <3>3, <3>4 DEF s, active
  <2> QED BY <2>4, <2>5
<1> QED BY <1>0, <1>2, <1>6, <1>7

\* A node that is not what an equality asks for makes no row for which WHERE holds.
LEMMA AskedEarlyIsAskedLate ==
  ASSUME DocInv, MetadataInv, Running, NEW q \in Statements \cup Subqueries, q.source.kind = "document",
         NEW outer, \A r \in outer : RowKnown(r), ReadAhead(q, outer),
         NEW n \in Node, FieldsAreOwn(n), Prefiltered(q, outer, n),
         NEW row, DOMAIN row = DOMAIN OuterRow(outer) \cup {AliasOf(q.source)},
         row[AliasOf(q.source)] = NodeRecord(n),
         \A a \in DOMAIN OuterRow(outer) : row[a] = OuterRow(outer)[a]
  PROVE  "true" \notin Holds(q, row)
<1> SUFFICES ASSUME "true" \in Holds(q, row) PROVE FALSE
  OBVIOUS
<1> DEFINE alias == AliasOf(q.source)
           active == q.source.alias
<1>1. q.where \subseteq Exprs /\ AtMostOne(q.where) /\ AtMostOne(active)
  BY StatementsAssumption
<1>2. active \subseteq {alias}
  BY <1>1 DEF AliasOf, AtMostOne
<1> DEFINE Excludes(c, v) == \/ c.field = "tag" /\ v.string # <<nodes[n].tag>>
                             \/ c.field = "parent_id" /\ v.number # {} /\ v.number # number_of(n, "parent_id")
<1>12. PICK c \in SourceEqualities(q) : \E v \in EqualTo(c, q, outer) : Excludes(c, v)
  BY DEF Prefiltered
<1>3. PICK v \in EqualTo(c, q, outer) : Excludes(c, v)
  BY <1>12
<1>4. c \in Exprs /\ c.kind = "compare" /\ TargetsSourceRow(c, q) /\ EvalCompare(c, row, active) = "true"
  BY <1>1, EqualitiesHold
<1>5. c.op = "=" /\ c.axis = "self" /\ c.qualifier \subseteq {alias}
  BY <1>2, <1>4 DEF TargetsSourceRow
<1>6. AskedOf(c, q, outer) /\ \A r \in outer : alias \notin DOMAIN r
  BY DEF ReadAhead
<1>7. PICK a \in eval_relation_scalar_expr(compare_lhs_scalar(c), row, active),
           b \in eval_relation_scalar_expr(compare_rhs_scalars(c)[1], row, active) : SameValue(a, b)
  BY <1>4, <1>5, EqualityMeans DEF Evaluates
<1>8. b = v
  <2> DEFINE asked == EqualTo(c, q, outer)
             rhs == eval_relation_scalar_expr(compare_rhs_scalars(c)[1], row, active)
  <2>1. asked # {}
    BY <1>3
  <2>2. AtMostOne(asked) /\ rhs = asked
    <3>1. DOMAIN OuterRow(outer) \subseteq DOMAIN row
      OBVIOUS
    <3> QED BY <1>1, <1>4, <1>5, <1>6, <2>1, <3>1, SameWhenAskedEarly
  <2> HIDE DEF asked, rhs
  <2>3. b \in rhs /\ v \in asked
    BY <1>3, <1>7 DEF asked, rhs
  <2> QED BY <2>2, <2>3 DEF AtMostOne
<1>9. a \in row[alias].values[<<"self", c.field>>]
  <2> DEFINE o == compare_lhs_scalar(c)
  <2>1. o.kind = "operand" /\ o.axis = "self" /\ o.field = c.field /\ o.qualifier \subseteq {alias}
    BY <1>5 DEF compare_lhs_scalar, OperandScalar
  <2> HIDE DEF o
  <2>2. eval_relation_scalar_expr(o, row, active) = relation_operand_value(o, row, active)
    BY <2>1, Zenon DEF eval_relation_scalar_expr
  <2>3. a \in relation_operand_value(o, row, active)
    BY <1>7, <2>2 DEF o
  <2>4. IsFiniteSet(DOMAIN row) /\ alias \in DOMAIN row
    <3>1. IsFiniteSet(DOMAIN OuterRow(outer))
      BY <1>6, OuterRowIs DEF RowKnown
    <3> QED BY <3>1, FS_AddElement
  <2>5. a \in row[alias].values[ColumnOf(o)]
    BY <1>2, <2>1, <2>3, <2>4, ReadOffItsRecord
  <2> QED BY <2>1, <2>5 DEF ColumnOf
<1>10. CASE c.field = "tag" /\ v.string # <<nodes[n].tag>>
  <2>1. a = Word(nodes[n].tag)
    BY <1>9, <1>10, AskedColumns
  <2>2. a.number = {} /\ a.string = <<nodes[n].tag>>
    BY <2>1 DEF Word
  <2> QED BY <1>7, <1>8, <1>10, <2>2 DEF SameValue, ByNumber
<1>11. CASE c.field = "parent_id" /\ v.number # {} /\ v.number # number_of(n, "parent_id")
  <2>1. number_of(n, "parent_id") = {nodes[n].parent} \ {0}
    BY Zenon DEF number_of
  <2>2. PICK x \in number_of(n, "parent_id") : a = Raw(Number(x))
    BY <1>9, <1>11, AskedColumns
  <2>3. a.number = {x}
    <3> DEFINE w == Number(x)
               t == ToString(CHOOSE m \in w.number : TRUE)
    <3>1. w = [number |-> {x}, string |-> <<>>]
      BY DEF Number
    <3>2. Raw(w) = [w EXCEPT !.string = <<t>>]
      BY <3>1 DEF Raw
    <3> HIDE DEF t, w
    <3> QED BY <2>2, <3>1, <3>2 DEF w
  <2>4. number_of(n, "parent_id") = {x}
    BY <2>1, <2>2
  <2> QED BY <1>7, <1>8, <1>11, <2>3, <2>4 DEF SameValue, ByNumber
<1> QED BY <1>3, <1>10, <1>11

\* The rows that are never made are rows that WHERE would have dropped, wherever
\* no attribute is called tag or parent_id, and what WHERE asks for can be read
\* before there is a row: WHERE looks at attributes first and at the own row first,
\* what is asked early does neither.
THEOREM PrefilterIsUnobservable ==
  RelSpec => []((\A n \in Node : FieldsAreOwn(n)) /\ ReadAhead(Top.query, Top.outer) => PrefilterUnobservable)
<1>1. ASSUME DocInv, MetadataInv, IndexInv, SchemaInv, ValueInv,
             \A n \in Node : FieldsAreOwn(n), ReadAhead(Top.query, Top.outer)
      PROVE  PrefilterUnobservable
  <2> SUFFICES ASSUME Running, AfterWith, Top.query.source.kind = "document",
                      NEW n \in Node, Prefiltered(Top.query, Top.outer, n)
               PROVE  LET alias == AliasOf(Top.query.source)
                          outer == IF Top.outer = {} THEN <<>> ELSE CHOOSE row \in Top.outer : TRUE
                          row == [a \in DOMAIN outer \cup {alias} |-> IF a = alias THEN NodeRecord(n) ELSE outer[a]]
                      IN  "true" \notin Holds(Top.query, row)
    BY DEF PrefilterUnobservable
  <2>1. Top.query \in Statements \cup Subqueries
    BY <1>1, TopIsSound DEF FrameIsSound
  <2>2. \A r \in Top.outer : RowKnown(r)
    BY <1>1, TopIsKnown DEF FrameKnown
  <2> DEFINE alias == AliasOf(Top.query.source)
             outer == OuterRow(Top.outer)
             row == [a \in DOMAIN outer \cup {alias} |-> IF a = alias THEN NodeRecord(n) ELSE outer[a]]
  <2>3. alias \notin DOMAIN outer
    <3>1. CASE Top.outer = {}
      BY <2>2, <3>1, OuterRowIs
    <3>2. CASE Top.outer # {}
      BY <1>1, <2>2, <3>2, OuterRowIs DEF ReadAhead
    <3> QED BY <3>1, <3>2
  <2>4. /\ DOMAIN row = DOMAIN outer \cup {alias} /\ row[alias] = NodeRecord(n)
        /\ \A a \in DOMAIN outer : row[a] = outer[a]
    BY <2>3
  <2> HIDE DEF row
  <2>5. "true" \notin Holds(Top.query, row)
    BY <1>1, <2>1, <2>2, <2>4, AskedEarlyIsAskedLate
  <2> QED BY <2>5 DEF OuterRow, row
<1> QED BY <1>1, RelDocInv, RelMetadataInv, IndexInvariance, SchemaInvariance, ValueInvariance, PTL
=============================================================================
