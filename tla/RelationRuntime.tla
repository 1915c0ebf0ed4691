---------------------------- MODULE RelationRuntime ---------------------------
(***************************************************************************)
(* A statement with WITH, JOIN or subqueries (engine/execute_relation.cpp   *)
(* and execute_relation_result.cpp).  A query that is being evaluated is a  *)
(* frame; one that it asks for, of a CTE or a derived table, is a frame     *)
(* above, or is handed to the executor when nothing in it needs relations.  *)
(* The indexes that joins keep outlive the frames.                          *)
(*                                                                          *)
(* Sources are the document, CTEs and derived tables; files, URLs, RAW and  *)
(* PARSE, warnings, profiles and export sinks are left out.                 *)
(***************************************************************************)
EXTENDS RelationJoin

CONSTANTS
    Statements, \* the statements
    Subqueries, \* the queries of their CTEs and derived tables, at any depth
    Visits      \* the aliases, as an unordered_map goes through them

CoreFields == NumberFields \cup {"tag"}

(* A query has, beside what Query has:                                       *)
(*   with       a sequence of [name, query];                                 *)
(*   source     [kind, name, alias, query]: kind is document, cte or derived,*)
(*              alias and query are empty or singletons;                     *)
(*   joins      a sequence of [type, lateral, source, on];                   *)
(*   project    a sequence of columns [kind, name, ...]: an expression       *)
(*              [expr], or the field of that name [tag] of an alias; if it is*)
(*              empty, select is one name: *, an alias or a tag;             *)
(*   order_by   with an alias, empty or a singleton, for each field.         *)

SourcesOf(q) == {q.source} \cup {q.joins[k].source : k \in DOMAIN q.joins}

\* A scalar has operands, each of an axis and with at most one qualifier.
Axes == {"self", "parent", "child", "ancestor", "descendant"}

IsOperand(o) == o.axis \in Axes /\ AtMostOne(o.qualifier)

IsScalar(s) ==
    \/ s.kind = "operand" /\ IsOperand(s)
    \/ s.kind = "literal" /\ AtMostOne(s.value)
    \/ s.kind = "coalesce" /\ s.args \in Seq(ToSet(s.args)) /\ \A k \in DOMAIN s.args : IsOperand(s.args[k])

ASSUME VisitsAssumption == Visits \in Seq(Alias)

ASSUME StatementsAssumption ==
    \A q \in Statements \cup Subqueries :
        /\ q.with \in Seq(ToSet(q.with)) /\ q.joins \in Seq(ToSet(q.joins))
        /\ q.order_by \in Seq(ToSet(q.order_by))
        /\ q.limit \in SUBSET Nat /\ \A l, m \in q.limit : l = m
        /\ q.where \subseteq Exprs /\ AtMostOne(q.where)
        /\ AtMostOne(q.source.alias) /\ q.project \in Seq(ToSet(q.project))
        /\ \A k \in DOMAIN q.project : q.project[k].kind = "expr" => IsScalar(q.project[k].expr)
        /\ \A k \in DOMAIN q.joins : q.joins[k].on \subseteq Exprs /\ AtMostOne(q.joins[k].on)
        /\ \A k \in DOMAIN q.with : q.with[k].query \in Subqueries
        /\ \A s \in SourcesOf(q) : s.query \subseteq Subqueries /\ (s.kind = "derived" => s.query # {})

VARIABLES
    frames,     \* the queries being evaluated, the innermost last
    indexes,    \* relation_index_cache
    next_relation_cache_id,
    failure     \* what was thrown, if the statement failed

runtime == <<frames, indexes, next_relation_cache_id, failure>>
relVars == <<docVars, query, rows, runtime>>

Top == Last(frames)

Running == phase = "running"
----------------------------------------------------------------------------
(* Records of nodes and of result rows. *)

NodeCore(n) == [f \in CoreFields |-> {Raw(v) : v \in values_of(n, f)}]

\* An attribute hides the field of its name.
OwnValues(n) ==
    LET attributes == nodes[n].attributes
    IN  [f \in CoreFields \cup DOMAIN attributes |->
            IF f \in DOMAIN attributes THEN {attributes[f]} ELSE NodeCore(n)[f]]

\* relation_from_document: a node's own columns and its parent's.
NodeRecord(n) ==
    LET parent == nodes[n].parent
        above == IF parent = 0 THEN {} ELSE DOMAIN OwnValues(parent)
    IN  Record([c \in ({"self"} \X DOMAIN OwnValues(n)) \cup ({"parent"} \X above) |->
                   OwnValues(IF c[1] = "self" THEN n ELSE parent)[c[2]]],
               nodes[n].attributes)

\* A result row: what a QueryResultRow holds until something is put in it.
Blank == [number |-> {}, string |-> <<>>]

DefaultCore ==
    [f \in CoreFields |->
        CASE f = "parent_id" -> Null
          [] f = "tag" -> {Blank}
          [] f \in {"node_id", "doc_order"} -> {Raw(Number(1))}
          [] OTHER -> {Raw(Number(0))}]

ResultRow(core, attributes, computed) == [core |-> core, attributes |-> attributes, computed |-> computed]

CountRow(n) == ResultRow([DefaultCore EXCEPT !["node_id"] = {Raw(Number(n))}], <<>>, <<>>)

\* relation_from_query_result: the columns that the query names, NULL where a row
\* has none; attributes hide columns here too.
ResultRecord(row, columns) ==
    LET value(f) ==
            IF f \in DOMAIN row.attributes THEN {row.attributes[f]}
            ELSE IF f \in CoreFields THEN row.core[f]
            ELSE IF f = "count" THEN row.core["node_id"]
            ELSE IF f \in DOMAIN row.computed THEN row.computed[f] ELSE Null
    IN  Record([c \in {"self"} \X (CoreFields \cup columns \cup DOMAIN row.attributes) |-> value(c[2])],
               row.attributes)

\* A mutation: the number is left out.
cte_key_by_name(name, id) == {<<"cte", name>>}

\* Every CTE gets a key of its own, every other result the same one.
cte_key(name, id) == {<<"cte", name, id>>}
result_key == {<<"relation_result">>}

relation_from_query_result(result, alias, key) ==
    LET rows_ == [k \in DOMAIN result.rows |-> [a \in {alias} |-> ResultRecord(result.rows[k], result.columns)]]
    IN  Relation(rows_, ColumnsOf(rows_), key)
----------------------------------------------------------------------------
(* evaluate_source_relation. *)

UsesRelationRuntime(q, ctes, outer) ==
    \/ outer # {} \/ DOMAIN ctes # {}
    \/ q.with # <<>> \/ q.joins # <<>> \/ q.source.kind # "document"
    \/ \E k \in DOMAIN q.order_by : q.order_by[k].alias # {}

TargetsSourceRow(c, q) ==
    c.op = "=" /\ c.axis = "self" /\ (c.qualifier = {} \/ c.qualifier = q.source.alias)

\* A mutation: the sides of an OR are collected too.
SourceEqualities_of_any(q) ==
    LET parts[e \in Exprs] ==
            CASE e.kind = "compare" -> {e}
              [] e.kind = "exists" -> {}
              [] OTHER -> parts[e.left] \cup parts[e.right]
    IN  {c \in UNION {parts[e] : e \in q.where} : TargetsSourceRow(c, q)}

\* What WHERE demands of the nodes of the first source by itself: equalities that
\* every row must satisfy.
SourceEqualities(q) ==
    LET conjuncts[e \in Exprs] ==
            IF e.kind = "compare" THEN {e}
            ELSE IF e.kind = "and" THEN conjuncts[e.left] \cup conjuncts[e.right] ELSE {}
    IN  {c \in UNION {conjuncts[e] : e \in q.where} : TargetsSourceRow(c, q)}

\* Their right-hand sides are evaluated before there is a row: on the outer one, if any.
EqualTo(c, q, outer) ==
    eval_relation_scalar_expr(compare_rhs_scalars(c)[1],
                              IF outer = {} THEN <<>> ELSE CHOOSE row \in outer : TRUE, q.source.alias)

\* collect_source_prefilter_constraints, and what relation_from_document makes of
\* them: no node satisfies two that differ.
Prefiltered(q, outer, n) ==
    \E c \in SourceEqualities(q) : \E v \in EqualTo(c, q, outer) :
        \/ c.field = "tag" /\ v.string # <<nodes[n].tag>>
        \/ c.field = "parent_id" /\ v.number # {} /\ v.number # number_of(n, "parent_id")

relation_from_document(q, outer, alias, prefilter) ==
    LET kept == Ascending({n \in Node : ~(prefilter /\ Prefiltered(q, outer, n))})
        rows_ == [k \in DOMAIN kept |-> [a \in {alias} |-> NodeRecord(kept[k])]]
    IN  Relation(rows_, ColumnsOf(rows_), {})

\* A CTE under the alias of the source; its key stays.
CteRelation(rel, name, alias) ==
    Relation([k \in DOMAIN rel.rows |-> [a \in {alias} |-> rel.rows[k][name]]],
             [a \in {alias : c \in DOMAIN rel.alias_columns} |-> rel.alias_columns[name]],
             rel.cache_key)

AliasOf(source) ==
    CHOOSE a \in IF source.alias # {} THEN source.alias
                 ELSE {IF source.kind = "cte" THEN source.name ELSE "__self"} : TRUE

\* first: whether it is the first source of the query, which WHERE filters early.
SourceRelation(f, source, first) ==
    CASE source.kind = "cte" -> CteRelation(f.ctes[source.name], source.name, AliasOf(source))
      [] source.kind = "derived" ->
            relation_from_query_result(CHOOSE r \in f.result : TRUE, AliasOf(source), result_key)
      [] OTHER -> relation_from_document(f.query, f.outer, AliasOf(source), first)

\* A mutation: the outer row's columns are left out of the schema.
UnderOuter_rows_only(rel, outer) ==
    IF outer = {} THEN rel
    ELSE [rel EXCEPT !.rows = [k \in DOMAIN @ |-> merge_row_aliases(CHOOSE r \in outer : TRUE, @[k])]]

\* The rows of a query that runs under an outer row have that row's aliases too.
UnderOuter(rel, outer) ==
    IF outer = {} THEN rel
    ELSE LET row == CHOOSE r \in outer : TRUE
         IN  Relation([k \in DOMAIN rel.rows |-> merge_row_aliases(row, rel.rows[k])],
                      MergeColumns(rel.alias_columns, ColumnsOf(<<row>>)), rel.cache_key)
----------------------------------------------------------------------------
(* ORDER BY, and query_result_from_relation. *)

\* Of some aliases, the one that an unordered_map comes to first, and last.
FirstVisited(aliases) ==
    LET at == {k \in DOMAIN Visits : Visits[k] \in aliases}
    IN  {Visits[k] : k \in {j \in at : \A m \in at : j <= m}}

LastVisited(aliases) ==
    LET at == {k \in DOMAIN Visits : Visits[k] \in aliases}
    IN  {Visits[k] : k \in {j \in at : \A m \in at : m <= j}}

\* A field without an alias is the first source's, or that of the only source that
\* has it; of several, the last visited one is taken if the others are NULL.
relation_field_by_name(row, alias, field, active_alias) ==
    LET column == <<"self", field>>
        having == {a \in DOMAIN row : column \in DOMAIN row[a].values}
        last == LastVisited(having)
        of(aliases) == UNION {row[a].values[column] : a \in aliases \cap having}
    IN  IF alias # {} THEN of(alias)
        ELSE IF active_alias \cap having # {} THEN of(active_alias)
        ELSE IF \E a \in having \ last : row[a].values[column] # Null THEN Null ELSE of(last)

\* compare_optional_relation_values: NULL comes first.
KeyLess(a, b) == b # Null /\ (a = Null \/ \E x \in a, y \in b : LessValue(x, y))

SortKey(row, q) ==
    [k \in DOMAIN q.order_by |->
        relation_field_by_name(row, q.order_by[k].alias, q.order_by[k].field, q.source.alias)]

\* The first field that tells two rows apart decides.
RowBefore(order_by, r, s) ==
    \E k \in DOMAIN order_by :
        /\ \A j \in 1..k-1 : ~KeyLess(r[j], s[j]) /\ ~KeyLess(s[j], r[j])
        /\ IF order_by[k].descending THEN KeyLess(s[k], r[k]) ELSE KeyLess(r[k], s[k])

\* A mutation: rows that no field tells apart change places.
ComesBefore_unstable(order_by, keys, r, s) ==
    \/ RowBefore(order_by, keys[r], keys[s])
    \/ ~RowBefore(order_by, keys[s], keys[r]) /\ r > s

\* The sort is stable: rows that no field tells apart stay in their order.
ComesBefore(order_by, keys, r, s) ==
    \/ RowBefore(order_by, keys[r], keys[s])
    \/ ~RowBefore(order_by, keys[s], keys[r]) /\ r < s

\* What the sort may make of the rows.  A numeral is less than another by its value and
\* than other strings by its letters, so that 9, 10 and 5x go round in a circle: then
\* the comparison is no order, and the sort may leave the rows in any.
Arrangements(rows_, q) ==
    LET keys == [k \in DOMAIN rows_ |-> SortKey(rows_[k], q)]
        place == [r \in DOMAIN rows_ |->
                    1 + Cardinality({s \in DOMAIN rows_ : ComesBefore(q.order_by, keys, s, r)})]
    IN  IF {place[r] : r \in DOMAIN rows_} = DOMAIN rows_
        THEN {[k \in DOMAIN rows_ |-> rows_[CHOOSE r \in DOMAIN rows_ : place[r] = k]]}
        ELSE {[k \in DOMAIN rows_ |-> rows_[p[k]]] : p \in Bijection(DOMAIN rows_, DOMAIN rows_)}

\* parse_int64_value: a field that is a number takes nothing else.
Parsed(field, value) ==
    IF field \in NumberFields
    THEN {Raw([number |-> v.number, string |-> <<>>]) : v \in {w \in value : w.number # {}}}
    ELSE value

\* fill_result_core_from_record: what is NULL leaves the row as it was.
CoreOf(record) ==
    LET value(f) == Parsed(f, IF <<"self", f>> \in DOMAIN record.values THEN record.values[<<"self", f>>] ELSE Null)
    IN  [f \in CoreFields |-> IF value(f) # Null THEN value(f) ELSE DefaultCore[f]]

\* The alias whose record a SELECT of one name takes, if any.
SelectedAlias(name, row, active_alias) ==
    LET tagged == {a \in DOMAIN row : \E v \in CoreOf(row[a])["tag"] : v.string = <<name>>}
    IN  CASE name = "*" -> IF active_alias \cap DOMAIN row # {} THEN active_alias ELSE FirstVisited(DOMAIN row)
          [] name # "*" /\ name \in DOMAIN row -> {name}
          [] OTHER -> FirstVisited(tagged)

SelectedRow(name, row, active_alias) ==
    LET chosen == SelectedAlias(name, row, active_alias)
        record == row[CHOOSE a \in chosen : TRUE]
    IN  IF chosen = {} THEN <<>> ELSE <<ResultRow(CoreOf(record), record.attributes, <<>>)>>

ColumnValue(item, row, active_alias) ==
    CASE item.kind = "expr" -> eval_relation_scalar_expr(item.expr, row, active_alias)
      [] item.kind = "field" /\ item.tag \in DOMAIN row ->
            relation_row_key_value(row, [alias |-> item.tag, column |-> <<"self", item.name>>])
      [] OTHER -> relation_field_by_name(row, {}, item.name, active_alias)

\* The row that a projection starts from: the first source's, or the only one's.
SeedRow(q, row) ==
    LET seed == resolve_record(row, {}, q.source.alias)
    IN  IF seed = {} THEN ResultRow(DefaultCore, <<>>, <<>>)
        ELSE LET record == row[CHOOSE a \in seed : TRUE] IN ResultRow(CoreOf(record), record.attributes, <<>>)

\* assign_result_column_value: NULL assigns nothing.
Assigned(base, given) ==
    [base EXCEPT !.core = [f \in CoreFields |->
                             IF f \in DOMAIN given /\ given[f] # Null THEN given[f] ELSE base.core[f]],
                 !.computed = [f \in {g \in DOMAIN given \ CoreFields : given[g] # Null} |-> given[f]]]

\* Of the columns of one name, the last that is not NULL is assigned.
ByName(project, values) ==
    LET given(name) == {k \in DOMAIN project : project[k].name = name /\ values[k] # Null}
    IN  [name \in {project[k].name : k \in DOMAIN project} |->
            UNION {values[k] : k \in {j \in given(name) : \A m \in given(name) : m <= j}}]

ProjectedRow(q, row) ==
    Assigned(SeedRow(q, row),
             ByName(q.project, [k \in DOMAIN q.project |->
                                   Parsed(q.project[k].name, ColumnValue(q.project[k], row, q.source.alias))]))

query_result_from_relation(q, rel) ==
    CASE q.aggregate = "count" -> [rows |-> <<CountRow(Len(rel.rows))>>, columns |-> {"count"}]
      [] q.aggregate # "count" /\ q.project # <<>> ->
            [rows |-> [k \in DOMAIN rel.rows |-> ProjectedRow(q, rel.rows[k])],
             columns |-> {q.project[k].name : k \in DOMAIN q.project}]
      [] OTHER ->
            [rows |-> FlattenSeq([k \in DOMAIN rel.rows |->
                         SelectedRow(CHOOSE name \in q.select : TRUE, rel.rows[k], q.source.alias)]),
             columns |-> {}]

ProjectionFails(q, rel) ==
    q.aggregate # "count" /\ \E k \in DOMAIN q.project, r \in DOMAIN rel.rows :
        ColumnValue(q.project[k], rel.rows[r], q.source.alias) = Unbound

\* The executor's value of an expression: COALESCE takes the first that is not NULL.
eval_select_scalar_expr(s, n) ==
    LET value(o) == {Raw(v) : v \in value_from_operand([axis |-> o.axis, field |-> o.field], n)}
        present == {k \in DOMAIN s.args : value(s.args[k]) # Null}
    IN  CASE s.kind = "operand" -> value(s)
          [] s.kind = "literal" -> s.value
          [] s.kind = "coalesce" -> IF present = {} THEN Null ELSE value(s.args[Min(present)])

\* It computes the expressions only: fields are read off the node.
ComputedFields(q, n) ==
    LET given == ByName(q.project, [k \in DOMAIN q.project |->
                    IF q.project[k].kind = "expr" THEN eval_select_scalar_expr(q.project[k].expr, n) ELSE Null])
    IN  [name \in {c \in DOMAIN given : given[c] # Null} |-> given[name]]

\* A subquery without relations is the executor's.
LegacyResult(q) ==
    IF q.aggregate = "count" THEN [rows |-> <<CountRow(CountRows(q)[1].node_id)>>, columns |-> {"count"}]
    ELSE LET found == execute_query(q)
         IN  [rows |-> [k \in DOMAIN found |->
                          ResultRow(NodeCore(found[k]), nodes[found[k]].attributes, ComputedFields(q, found[k]))],
              columns |-> {q.project[k].name : k \in DOMAIN q.project}]
----------------------------------------------------------------------------
(* evaluate_query_relation, a step of a frame at a time. *)

NewFrame(q, ctes, outer) ==
    [query |-> q, ctes |-> ctes, outer |-> outer, step |-> "with", k |-> 1,
     current |-> Relation(<<>>, <<>>, {}), left |-> 1, next |-> Relation(<<>>, <<>>, {}), result |-> {}]

Replace(f) == frames' = Append(Front(frames), f)

Fail(what) ==
    /\ phase' = "failed"
    /\ failure' = what
    /\ UNCHANGED <<query, rows, frames, indexes, next_relation_cache_id>>

Progress(f) ==
    /\ Replace(f)
    /\ UNCHANGED <<phase, query, rows, failure>>

Call(q, outer) ==
    /\ IF UsesRelationRuntime(q, Top.ctes, outer)
       THEN frames' = Append(frames, NewFrame(q, Top.ctes, outer))
       ELSE Replace([Top EXCEPT !.result = {LegacyResult(q)}])
    /\ UNCHANGED <<phase, query, rows, failure, indexes, next_relation_cache_id>>

Start(q) ==
    /\ phase = "parsed"
    /\ phase' = "running"
    /\ query' = q
    /\ frames' = <<NewFrame(q, <<>>, {})>>
    /\ UNCHANGED <<rows, indexes, next_relation_cache_id, failure>>

InWith == Top.step = "with" /\ Top.k <= Len(Top.query.with)

EvaluateCte ==
    /\ InWith /\ Top.result = {}
    /\ Call(Top.query.with[Top.k].query, {})

DefineCte ==
    /\ InWith /\ Top.result # {}
    /\ LET name == Top.query.with[Top.k].name
           rel == relation_from_query_result(CHOOSE r \in Top.result : TRUE, name,
                                             cte_key(name, next_relation_cache_id))
       IN  Progress([Top EXCEPT !.ctes = [a \in DOMAIN @ \cup {name} |-> IF a = name THEN rel ELSE @[a]],
                                !.k = @ + 1, !.result = {}])
    /\ next_relation_cache_id' = next_relation_cache_id + 1
    /\ UNCHANGED indexes

AfterWith == Top.step = "with" /\ Top.k > Len(Top.query.with)

InJoin == Top.step = "join" /\ Top.k <= Len(Top.query.joins)

TheJoin == Top.query.joins[Top.k]

\* The source that is evaluated next, and the row that it may refer to.
Pending ==
    CASE AfterWith -> [source |-> Top.query.source, outer |-> Top.outer]
      [] InJoin /\ ~TheJoin.lateral -> [source |-> TheJoin.source, outer |-> {}]
      [] InJoin /\ TheJoin.lateral /\ Top.left <= Len(Top.current.rows) ->
            [source |-> TheJoin.source, outer |-> {Top.current.rows[Top.left]}]
      [] OTHER -> [source |-> [kind |-> "none"], outer |-> {}]

EvaluateDerived ==
    /\ Pending.source.kind = "derived" /\ Top.result = {}
    /\ Call(CHOOSE q \in Pending.source.query : TRUE, Pending.outer)

Ready ==
    /\ Pending.source.kind # "none"
    /\ Pending.source.kind = "derived" => Top.result # {}

EntersJoin(f, rel) ==
    [f EXCEPT !.step = "join", !.k = IF f.step = "join" THEN @ + 1 ELSE 1, !.current = rel, !.left = 1,
              !.next = Relation(<<>>, rel.alias_columns, rel.cache_key), !.result = {}]

UnknownCte == Pending.source.kind = "cte" /\ Pending.source.name \notin DOMAIN Top.ctes

Opened(rel) ==
    IF \E k \in DOMAIN rel.rows, row \in Top.outer : DuplicateAlias(row, rel.rows[k])
    THEN Fail("duplicate alias")
    ELSE /\ Progress(EntersJoin(Top, UnderOuter(rel, Top.outer)))
         /\ UNCHANGED <<indexes, next_relation_cache_id>>

OpenSource ==
    /\ AfterWith /\ Ready
    /\ CASE Top.query.source.kind = "document"
              /\ \E c \in SourceEqualities(Top.query) : EqualTo(c, Top.query, Top.outer) = Unbound ->
                  Fail("unknown identifier")
         [] UnknownCte -> Fail("unknown cte")
         [] OTHER -> \E rel \in {SourceRelation(Top, Top.query.source, TRUE)} : Opened(rel)

RightRelation == SourceRelation(Top, TheJoin.source, FALSE)

\* The index of a lookup is kept, if the relation has a key.
JoinWith(strategy, right_rel) ==
    LET failures == JoinFailures(strategy, TheJoin, Top.current, right_rel, Top.query.source.alias)
    IN  IF failures # {} THEN \E what \in failures : Fail(what)
        ELSE /\ Progress(EntersJoin(Top,
                    Relation(JoinRows(strategy, TheJoin, Top.current, right_rel, Top.query.source.alias),
                             MergeColumns(Top.current.alias_columns, right_rel.alias_columns),
                             Top.current.cache_key)))
             /\ indexes' = [s \in DOMAIN indexes \cup strategy.signature |->
                               IF s \in DOMAIN indexes THEN indexes[s] ELSE strategy.index]
             /\ UNCHANGED next_relation_cache_id

Join ==
    /\ InJoin /\ ~TheJoin.lateral /\ Ready
    /\ IF UnknownCte THEN Fail("unknown cte")
       ELSE \E right_rel \in {RightRelation} :
              \E strategy \in {StrategyOf(TheJoin, Top.current, right_rel, indexes)} :
                 JoinWith(strategy, right_rel)

LateralWith(left_row, right_rel) ==
    IF \E k \in DOMAIN right_rel.rows : DuplicateAlias(left_row, right_rel.rows[k])
    THEN Fail("duplicate alias")
    ELSE /\ Progress([Top EXCEPT !.left = @ + 1, !.result = {},
                !.next = Relation(@.rows \o [k \in DOMAIN right_rel.rows |-> merge_row_aliases(left_row, right_rel.rows[k])],
                                  MergeColumns(@.alias_columns, right_rel.alias_columns), @.cache_key)])
         /\ UNCHANGED <<indexes, next_relation_cache_id>>

LateralRow ==
    /\ InJoin /\ TheJoin.lateral /\ Ready
    /\ IF UnknownCte THEN Fail("unknown cte")
       ELSE \E right_rel \in {RightRelation} : LateralWith(Top.current.rows[Top.left], right_rel)

LateralEnds ==
    /\ InJoin /\ TheJoin.lateral /\ Top.left > Len(Top.current.rows)
    /\ Progress(EntersJoin(Top, Top.next))
    /\ UNCHANGED <<indexes, next_relation_cache_id>>

Holds(q, row) == {EvalExpr(e, row, q.source.alias) : e \in q.where}

\* The elements at the positions of a set.
Those(s, places) == [k \in DOMAIN Ascending(places) |-> s[Ascending(places)[k]]]

Where ==
    /\ Top.step = "join" /\ Top.k > Len(Top.query.joins)
    /\ IF \E k \in DOMAIN Top.current.rows : "unknown identifier" \in Holds(Top.query, Top.current.rows[k])
       THEN Fail("unknown identifier")
       ELSE /\ Progress([Top EXCEPT !.step = "order",
                            !.current.rows = Those(@, {k \in DOMAIN @ : Holds(Top.query, @[k]) \subseteq {"true"}})])
            /\ UNCHANGED <<indexes, next_relation_cache_id>>

\* The sort, the limit and the columns; the result goes to the frame below.
Answers(result) ==
    /\ IF Len(frames) = 1
       THEN frames' = <<>> /\ phase' = "answered" /\ rows' = result.rows
       ELSE /\ frames' = [Front(frames) EXCEPT ![Len(frames) - 1].result = {result}]
            /\ UNCHANGED <<phase, rows>>
    /\ UNCHANGED <<query, failure, indexes, next_relation_cache_id>>

Finish ==
    /\ Top.step = "order"
    /\ \E arranged \in Arrangements(Top.current.rows, Top.query) :
         \E rel \in {[Top.current EXCEPT !.rows = Truncated(Top.query, arranged)]} :
            IF ProjectionFails(Top.query, rel) THEN Fail("unknown identifier")
            ELSE Answers(query_result_from_relation(Top.query, rel))

FrameStep ==
    /\ Running
    /\ \/ EvaluateCte \/ DefineCte \/ EvaluateDerived \/ OpenSource
       \/ Join \/ LateralRow \/ LateralEnds \/ Where \/ Finish
----------------------------------------------------------------------------
RelInit ==
    /\ Init
    /\ frames = <<>>
    /\ indexes = <<>>
    /\ next_relation_cache_id = 1
    /\ failure = ""

RelNext ==
    \/ DocNext /\ UNCHANGED <<query, rows, runtime>>
    \/ (\E q \in Statements : Start(q)) /\ UNCHANGED <<html, i, nodes, stack, doc_order, max_depth, walk>>
    \/ FrameStep /\ UNCHANGED <<html, i, nodes, stack, doc_order, max_depth, walk>>

RelSpec == RelInit /\ [][RelNext]_relVars
=============================================================================
