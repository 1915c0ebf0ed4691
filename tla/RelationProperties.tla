-------------------------- MODULE RelationProperties --------------------------
(***************************************************************************)
(* What a statement over several sources may be relied on for.              *)
(***************************************************************************)
EXTENDS RelationRuntime

\* A row has the aliases of a schema, and no columns but those that it has for them.
RowOf(row, alias_columns) ==
    /\ DOMAIN row = DOMAIN alias_columns
    /\ \A a \in DOMAIN row : DOMAIN row[a].values \subseteq alias_columns[a]

Covers(rel) == \A k \in DOMAIN rel.rows : RowOf(rel.rows[k], rel.alias_columns)

\* Every frame's rows have the sources and columns that the frame's relation says
\* it has: joins are planned, and rows that a LEFT JOIN pads are built, from the
\* schema and never from the rows.
SchemaCoversRows == \A f \in ToSet(frames) : Covers(f.current)

IsSequence(s) == s \in Seq(ToSet(s))

HasParts(rel) == DOMAIN rel = DOMAIN Relation(<<>>, <<>>, {})

Sound(rel) == HasParts(rel) /\ IsSequence(rel.rows) /\ Covers(rel)

\* A source's relation has one alias, and no schema if it has no rows.
OfOneAlias(rel, alias) == Sound(rel) /\ DOMAIN rel.alias_columns = {alias : k \in DOMAIN rel.rows}

\* The rows that a LATERAL join has made so far have the aliases and the columns of
\* its left side, and once there is one of them, the alias of its right side.
MadeFrom(next, left, alias) ==
    /\ DOMAIN next.alias_columns = DOMAIN left \cup {a \in {alias} : next.rows # <<>>}
    /\ \A a \in DOMAIN left : left[a] \subseteq next.alias_columns[a]

NextSchema(f) ==
    \A k \in {f.k} \cap DOMAIN f.query.joins :
        MadeFrom(f.next, f.current.alias_columns, AliasOf(f.query.joins[k].source))

\* What a frame holds besides: results are rows, CTEs are sources, and a join that is
\* under way has made rows of its schema.
FrameIsSound(f) ==
    /\ f.query \in Statements \cup Subqueries
    /\ f.k \in Nat \ {0} /\ f.left \in Nat \ {0}
    /\ \A r \in f.result : IsSequence(r.rows)
    /\ Sound(f.current)
    /\ f.step = "join" => Sound(f.next) /\ NextSchema(f)
    /\ \A a \in DOMAIN f.ctes : OfOneAlias(f.ctes[a], a)

\* The invariant behind it: schemas cover rows wherever rows come from, and an index
\* that is kept finds positions of rows.
SchemaInv ==
    /\ \A f \in ToSet(frames) : FrameIsSound(f)
    /\ \A s \in DOMAIN indexes : DOMAIN indexes[s] \subseteq Nat \ {0}

\* The CTEs that some frame may name.
CtesInScope == UNION {{<<a, f.ctes[a]>> : a \in DOMAIN f.ctes} : f \in ToSet(frames)}

\* An index that was kept for a CTE finds that CTE's rows as they are, wherever the
\* CTE is in scope and whatever other CTE of its name there was before.
IndexesAreCurrent ==
    \A cte \in CtesInScope, s \in DOMAIN indexes :
        cte[2].cache_key = {s[1]} => indexes[s] = BuildIndex(cte[2], s[2])

\* The fields of a frame; a statement that runs has one.
FramesHaveFields ==
    /\ frames \in Seq(ToSet(frames))
    /\ \A f \in ToSet(frames) : DOMAIN f = DOMAIN NewFrame(query, <<>>, {})
    /\ Running => frames # <<>>

\* A CTE's key has the number that was next when it was made, and its rows one alias.
NumberedBelow(cte, n) ==
    /\ \E id \in 1 .. n - 1 : cte[2].cache_key = cte_key(cte[1], id)
    /\ \A k \in DOMAIN cte[2].rows : DOMAIN cte[2].rows[k] = {cte[1]}

KeysAreNumbered ==
    /\ next_relation_cache_id \in Nat \ {0}
    /\ \A cte \in CtesInScope : NumberedBelow(cte, next_relation_cache_id)

\* CTEs of the same key, whichever frames they are in scope of, are the same.
KeysTellApart ==
    \A c, d \in CtesInScope : c[2].cache_key = d[2].cache_key => c[2] = d[2]

\* No index is kept under a number that is still to be given.
IndexesAreOld ==
    \A s \in DOMAIN indexes :
        \/ {s[1]} = result_key
        \/ \E id \in 1 .. next_relation_cache_id - 1 : {s[1]} = cte_key(s[1][2], id)

\* The invariant of the kept indexes: what makes them current is that numbers are
\* never given twice, while CTEs of one name come and go with the frames.
IndexInv ==
    /\ FramesHaveFields
    /\ KeysAreNumbered /\ KeysTellApart /\ IndexesAreOld
    /\ IndexesAreCurrent

\* A join gives the rows of the nested loop, in its order, whichever of the three
\* strategies the form of its ON selects, NULLs and numerals with zeros included.
NestedLoop == [strategy |-> "nested_loop", signature |-> {}]

AboutToJoin == Running /\ InJoin /\ ~TheJoin.lateral /\ Ready /\ ~UnknownCte

Agree(right_rel) ==
    LET joined(strategy) == JoinRows(strategy, TheJoin, Top.current, right_rel, Top.query.source.alias)
    IN  \/ JoinFailures(NestedLoop, TheJoin, Top.current, right_rel, Top.query.source.alias) # {}
        \/ joined(StrategyOf(TheJoin, Top.current, right_rel, indexes)) = joined(NestedLoop)

JoinComputesOn == AboutToJoin => Agree(RightRelation)

\* A LEFT JOIN keeps every row of its left side, once for each match or padded, and
\* in order: the rows that it makes are those of the first, then those of the second
\* and so on, and none is without one.
Part(row, aliases) == [a \in aliases |-> row[a]]

KeepsInOrder(after, before, aliases) ==
    \E firsts \in kSubset(Len(before), DOMAIN after) :
        \A k \in DOMAIN after :
            LET from == Cardinality({f \in firsts : f <= k})
            IN  from \in DOMAIN before /\ Part(after[k], aliases) = Part(before[from], aliases)

LeftJoinKeeps ==
    [][ AboutToJoin /\ TheJoin.type = "left" /\ phase' = "running" =>
          KeepsInOrder(frames'[Len(frames)].current.rows, Top.current.rows,
                       DOMAIN Top.current.alias_columns) ]_relVars

\* The rows that are never made, because WHERE asks a tag or a parent of the first
\* source, are rows that WHERE would have dropped.
PrefilterUnobservable ==
    Running /\ AfterWith /\ Top.query.source.kind = "document" /\ Top.query.where # {} =>
        \A n \in Node :
            LET alias == AliasOf(Top.query.source)
                outer == IF Top.outer = {} THEN <<>> ELSE CHOOSE row \in Top.outer : TRUE
                row == [a \in DOMAIN outer \cup {alias} |-> IF a = alias THEN NodeRecord(n) ELSE outer[a]]
            IN  Prefiltered(Top.query, Top.outer, n) => "true" \notin Holds(Top.query, row)

\* A query of one document has the same answer in this runtime, when a WITH or a
\* qualified ORDER BY sends it here, as the executor gives: two evaluators, two
\* sorts and two builders of rows.  (The rows of one tag are picked out here after
\* LIMIT, and for COUNT not at all.)
Plain(q) ==
    /\ q.joins = <<>> /\ q.source.kind = "document" /\ q.project = <<>>
    /\ q.select \in {{"*"}, q.source.alias} \/ (q.limit = {} /\ q.aggregate = "none")

InExecutor(q) ==
    [q EXCEPT !.select = IF q.source.alias = @ THEN {"*"} ELSE @,
              !.order_by = [k \in DOMAIN @ |-> [field |-> @[k].field, descending |-> @[k].descending]]]

RuntimesAgree ==
    phase = "answered" /\ Plain(query) => rows = LegacyResult(InExecutor(query)).rows
=============================================================================
