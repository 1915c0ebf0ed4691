----------------------------- MODULE RelationJoin -----------------------------
(***************************************************************************)
(* Rows of several sources (engine/execute_relation_expr.cpp) and the join  *)
(* of two relations (execute_relation_join.cpp), which the form of its ON   *)
(* turns into a hash join, a lookup in an index, or a nested loop.          *)
(*                                                                          *)
(* A field that is NULL is the empty set, any other a set of one Value, and *)
(* every value has letters here, numbers too: the runtime keeps strings.    *)
(* Left out are the columns text, inner_html and source_uri, the functions  *)
(* but COALESCE, and the operators that read letters.  A name is compared   *)
(* in lower case by the code and is in lower case here.                     *)
(***************************************************************************)
EXTENDS Executor

CONSTANTS
    Alias,      \* the names that sources have in FROM
    Unbound     \* what an operand evaluates to whose alias no row has

\* The parts of an expression, and how deep they go: the parser makes trees.
PartsOf(e) == IF e.kind \in {"and", "or"} THEN {e.left, e.right} ELSE {}

Depth[e \in Exprs] == IF PartsOf(e) = {} THEN 0 ELSE 1 + Max({Depth[p] : p \in PartsOf(e)})

AtMostOne(S) == \A x, y \in S : x = y

ASSUME ExprsAssumption ==
    \A e \in Exprs :
        /\ e.kind \in {"compare", "exists", "and", "or"}
        /\ Depth[e] \in Nat
        /\ \A p \in PartsOf(e) : p \in Exprs /\ Depth[p] < Depth[e]

\* An operand has at most one qualifier, and "=" something on its right.
ASSUME ComparisonsAssumption ==
    \A c \in {e \in Exprs : e.kind = "compare"} :
        /\ AtMostOne(c.qualifier)
        /\ c.values \in Seq(ToSet(c.values)) /\ c.operands \in Seq(ToSet(c.operands))
        /\ \A k \in DOMAIN c.operands : AtMostOne(c.operands[k].qualifier)
        /\ c.op = "=" => c.values # <<>> \/ c.operands # <<>>

Null == {}

\* A number as the string that it is kept as.
Raw(v) == IF v.number = {} \/ v.string # <<>> THEN v
          ELSE [v EXCEPT !.string = <<ToString(CHOOSE n \in v.number : TRUE)>>]

\* An operand is [axis, field, qualifier], with a qualifier of at most one alias.
\* The columns of a record are pairs of an axis, self or parent, and a field.
ColumnOf(o) == <<o.axis, o.field>>

Record(values, attributes) == [values |-> values, attributes |-> attributes]

\* A row is a function from aliases to records; cache_key is empty or one name.
Relation(rows_, alias_columns, cache_key) ==
    [rows |-> rows_, alias_columns |-> alias_columns, cache_key |-> cache_key]

\* merge_alias_columns, of all rows: a relation without rows has no columns.
ColumnsOf(rows_) ==
    [a \in UNION {DOMAIN rows_[k] : k \in DOMAIN rows_} |->
        UNION {DOMAIN rows_[k][a].values : k \in {j \in DOMAIN rows_ : a \in DOMAIN rows_[j]}}]

MergeColumns(f, g) ==
    [a \in DOMAIN f \cup DOMAIN g |->
        (IF a \in DOMAIN f THEN f[a] ELSE {}) \cup (IF a \in DOMAIN g THEN g[a] ELSE {})]

\* merge_row_aliases: two rows that share an alias do not merge.
DuplicateAlias(l, r) == DOMAIN l \cap DOMAIN r # {}

merge_row_aliases(l, r) ==
    [a \in DOMAIN l \cup DOMAIN r |-> IF a \in DOMAIN l THEN l[a] ELSE r[a]]
----------------------------------------------------------------------------
(* The evaluation of an expression on a row. *)

\* The records that an operand may mean: the qualified one; else the one of the
\* first source of the query; else the only one.
resolve_record(row, qualifier, active_alias) ==
    IF qualifier # {} THEN qualifier
    ELSE IF active_alias \cap DOMAIN row # {} THEN active_alias
    ELSE IF Cardinality(DOMAIN row) = 1 THEN DOMAIN row ELSE {}

FieldOf(record, column, row) ==
    IF ~(record \subseteq DOMAIN row) THEN Unbound
    ELSE UNION {row[a].values[column] : a \in {b \in record : column \in DOMAIN row[b].values}}

relation_operand_value(o, row, active_alias) ==
    FieldOf(resolve_record(row, o.qualifier, active_alias), ColumnOf(o), row)

\* COALESCE takes the first that is neither NULL nor blank.
Coalesced(given) ==
    LET kept == {k \in DOMAIN given : given[k] = Unbound \/ \E v \in given[k] : v.string # <<>>}
    IN  IF kept = {} THEN Null ELSE given[Min(kept)]

\* A scalar: an operand, a literal [value], or [args] for COALESCE.
eval_relation_scalar_expr(s, row, active_alias) ==
    CASE s.kind = "operand" -> relation_operand_value(s, row, active_alias)
      [] s.kind = "literal" -> s.value
      [] s.kind = "coalesce" ->
            Coalesced([k \in DOMAIN s.args |-> relation_operand_value(s.args[k], row, active_alias)])

\* The sides of a comparison, whose right-hand sides are all literals or all operands.
OperandScalar(o) == [kind |-> "operand", axis |-> o.axis, field |-> o.field, qualifier |-> o.qualifier]

compare_lhs_scalar(c) == OperandScalar(c)

compare_rhs_scalars(c) ==
    IF c.values # <<>> THEN [k \in DOMAIN c.values |-> [kind |-> "literal", value |-> {Raw(c.values[k])}]]
    ELSE [k \in DOMAIN c.operands |-> OperandScalar(c.operands[k])]

\* Two values compare as numbers if both are, else by their letters.
ByNumber(a, b) == a.number # {} /\ b.number # {}

SameValue(a, b) == IF ByNumber(a, b) THEN a.number = b.number ELSE a.string = b.string

LessValue(a, b) ==
    IF ByNumber(a, b) THEN \A x \in a.number, y \in b.number : x < y
    ELSE TextOrder(a.string, b.string) < 0

\* Nothing compares with NULL; the other operators are false in this runtime.
CompareValues(op, l, r) ==
    \E a \in l, b \in r :
        CASE op = "=" -> SameValue(a, b)
          [] op = "<>" -> ~SameValue(a, b)
          [] op = "<" -> LessValue(a, b)
          [] op = "<=" -> LessValue(a, b) \/ SameValue(a, b)
          [] op = ">" -> LessValue(b, a)
          [] op = ">=" -> LessValue(b, a) \/ SameValue(a, b)
          [] OTHER -> FALSE

\* A comparison is "true", "false", or "unknown identifier", which is thrown.
Truth(b) == IF b THEN "true" ELSE "false"

Outcome(op, lhs, rhs) ==
    IF lhs = Unbound THEN "unknown identifier"
    ELSE IF op = "is null" THEN Truth(lhs = Null)
    ELSE IF op = "is not null" THEN Truth(lhs # Null)
    ELSE IF op = "in" /\ lhs = Null THEN "false"
    ELSE IF \E k \in DOMAIN rhs : rhs[k] = Unbound THEN "unknown identifier"
    ELSE IF op = "in" THEN Truth(\E k \in DOMAIN rhs : \E a \in lhs, b \in rhs[k] : a.string = b.string)
    ELSE Truth(CompareValues(op, lhs, rhs[1]))

EvalCompare(c, row, active_alias) ==
    LET scalars == compare_rhs_scalars(c)
    IN  Outcome(c.op, eval_relation_scalar_expr(compare_lhs_scalar(c), row, active_alias),
                [k \in DOMAIN scalars |-> eval_relation_scalar_expr(scalars[k], row, active_alias)])

\* AND and OR evaluate both of their sides.
Connected(kind, sides) ==
    IF "unknown identifier" \in sides THEN "unknown identifier"
    ELSE IF kind = "and" THEN Truth(sides = {"true"}) ELSE Truth("true" \in sides)

\* EXISTS is false in this runtime.
EvalExpr(e, row, active_alias) ==
    LET eval_relation_expr[f \in Exprs] ==
            IF f.kind = "compare" THEN EvalCompare(f, row, active_alias)
            ELSE IF f.kind = "exists" THEN "false"
            ELSE Connected(f.kind, {eval_relation_expr[f.left], eval_relation_expr[f.right]})
    IN  eval_relation_expr[e]
----------------------------------------------------------------------------
(* The strategies.  A join is [type, lateral, source, on]. *)

\* join_key_spec_from_scalar: a qualified column.
join_key(s) ==
    {[alias |-> a, column |-> ColumnOf(s)] : a \in IF s.kind = "operand" THEN s.qualifier ELSE {}}

OnlyIn(key, yes, no) == key.alias \in DOMAIN yes.alias_columns \ DOMAIN no.alias_columns

\* The keys of both sides of an equality, the left relation's first.
KeyPairs(c, left_rel, right_rel) ==
    LET lhs == join_key(compare_lhs_scalar(c))
        rhs == join_key(compare_rhs_scalars(c)[1])
    IN  {p \in (lhs \X rhs) \cup (rhs \X lhs) :
            OnlyIn(p[1], left_rel, right_rel) /\ OnlyIn(p[2], right_rel, left_rel)}

Matchable(join) == join.type \in {"inner", "left"} /\ join.on # {}

plan_simple_hash_join(join, left_rel, right_rel) ==
    IF ~Matchable(join) THEN {}
    ELSE UNION {KeyPairs(c, left_rel, right_rel) : c \in {e \in join.on : e.kind = "compare" /\ e.op = "="}}

\* append_compare_conjuncts: the comparisons of an ON that only ANDs connect.
OnlyAnds[e \in Exprs] ==
    \/ e.kind = "compare"
    \/ e.kind = "and" /\ OnlyAnds[e.left] /\ OnlyAnds[e.right]

Conjuncts[e \in Exprs] ==
    IF e.kind = "compare" THEN <<e>>
    ELSE IF e.kind = "and" THEN Conjuncts[e.left] \o Conjuncts[e.right] ELSE <<>>

\* One column of the right relation, and what to look up in it: a key of the left
\* row or a literal.
LookupTerm(column, key, literal) == [right_column |-> column, left_key |-> key, literal |-> literal]

\* The literals that a column of the right relation is compared with.
LiteralTerms(key, literal, left_rel, right_rel) ==
    {LookupTerm(k.column, {}, literal.value) :
       k \in {j \in join_key(key) : literal.kind = "literal" /\ OnlyIn(j, right_rel, left_rel)}}

lookup_term_from_compare(c, left_rel, right_rel) ==
    IF c.op # "=" THEN {}
    ELSE {LookupTerm(p[2].column, {p[1]}, Null) : p \in KeyPairs(c, left_rel, right_rel)}
           \cup LiteralTerms(compare_lhs_scalar(c), compare_rhs_scalars(c)[1], left_rel, right_rel)
           \cup LiteralTerms(compare_rhs_scalars(c)[1], compare_lhs_scalar(c), left_rel, right_rel)

\* plan_index_lookup_join: the first two comparisons that make a term, unless they
\* are of one column; full_on_covered if those are all there are.
LookupPlan(terms) ==
    LET found == {k \in DOMAIN terms : terms[k] # {}}
        first == {k \in found : Cardinality({j \in found : j < k}) < 2}
        two == UNION {terms[k] : k \in first}
    IN  IF first = {} \/ Cardinality({t.right_column : t \in two}) # Cardinality(first) THEN {}
        ELSE {[terms |-> two, full_on_covered |-> first = DOMAIN terms]}

plan_index_lookup_join(join, left_rel, right_rel) ==
    IF ~Matchable(join) \/ Cardinality(DOMAIN right_rel.alias_columns) # 1 THEN {}
    ELSE UNION {LookupPlan([k \in DOMAIN Conjuncts[on] |->
                              lookup_term_from_compare(Conjuncts[on][k], left_rel, right_rel)]) :
                  on \in {e \in join.on : OnlyAnds[e]}}

\* A mutation: a key is its letters.
normalize_join_key_letters(value) == {<<"S", v.string>> : v \in value}

\* A value as a key: numbers by their value, other strings by their letters.
normalize_join_key(value) ==
    {IF v.number # {} THEN <<"N", v.number>> ELSE <<"S", v.string>> : v \in value}

relation_row_key_value(row, key) ==
    IF key.alias \in DOMAIN row /\ key.column \in DOMAIN row[key.alias].values
    THEN row[key.alias].values[key.column] ELSE Null

single_alias_relation_row_value(row, column) ==
    IF Cardinality(DOMAIN row) = 1
    THEN UNION {relation_row_key_value(row, [alias |-> a, column |-> column]) : a \in DOMAIN row}
    ELSE Null

\* What each row of the right relation is found under, {} if it is under nothing;
\* a composite key is a function from the columns.
Composite(parts) ==
    IF \E c \in DOMAIN parts : parts[c] = {} THEN {}
    ELSE {[c \in DOMAIN parts |-> CHOOSE key \in parts[c] : TRUE]}

BuildIndex(right_rel, columns) ==
    [k \in DOMAIN right_rel.rows |->
        Composite([c \in columns |->
            normalize_join_key(single_alias_relation_row_value(right_rel.rows[k], c))])]

LookupKey(terms, left_row) ==
    Composite([c \in {t.right_column : t \in terms} |->
        UNION {normalize_join_key(t.literal \cup UNION {relation_row_key_value(left_row, key) : key \in t.left_key}) :
                 t \in {u \in terms : u.right_column = c}}])

\* The signature of an index among those kept: two relations of one key and the
\* same columns share it.
relation_index_signature(right_rel, plan) ==
    {<<key, {t.right_column : t \in plan.terms}>> : key \in right_rel.cache_key}
----------------------------------------------------------------------------
(* execute_relation_join_non_lateral.  Each strategy gives, for a row of the *)
(* left relation, the positions of the rows of the right one it is tried     *)
(* with, from the first to the last, and whether ON is evaluated for them.   *)

\* The positions of a set in their order.
Ascending(S) ==
    LET place == [n \in S |-> Cardinality({m \in S : m < n})]
    IN  [k \in 1..Cardinality(S) |-> CHOOSE n \in S : place[n] = k - 1]

HashCandidates(plan, left_row, right_rel) ==
    LET key == normalize_join_key(relation_row_key_value(left_row, plan[1]))
    IN  {k \in DOMAIN right_rel.rows :
            key # {} /\ normalize_join_key(relation_row_key_value(right_rel.rows[k], plan[2])) = key}

IndexCandidates(plan, left_row, index) ==
    LET key == LookupKey(plan.terms, left_row)
    IN  {k \in DOMAIN index : key # {} /\ index[k] = key}

\* The index of a plan, kept or built.
LookupWith(plan, signature, right_rel, indexes) ==
    LET kept == signature \cap DOMAIN indexes
    IN  [strategy |-> "indexed_lookup_nested", plan |-> plan, signature |-> signature,
         index |-> IF kept # {} THEN indexes[CHOOSE s \in kept : TRUE]
                   ELSE BuildIndex(right_rel, {t.right_column : t \in plan.terms})]

\* select_join_strategy, and the lookup that is planned when it finds no hash plan.
StrategyOf(join, left_rel, right_rel, indexes) ==
    LET hash == {[strategy |-> "hash_equi", plan |-> p, signature |-> {}] :
                   p \in plan_simple_hash_join(join, left_rel, right_rel)}
        lookup == {LookupWith(p, relation_index_signature(right_rel, p), right_rel, indexes) :
                     p \in plan_index_lookup_join(join, left_rel, right_rel)}
    IN  CHOOSE s \in IF hash # {} THEN hash ELSE IF lookup # {} THEN lookup
                     ELSE {[strategy |-> "nested_loop", signature |-> {}]} : TRUE

Candidates(s, left_row, right_rel) ==
    CASE s.strategy = "hash_equi" -> HashCandidates(s.plan, left_row, right_rel)
      [] s.strategy = "indexed_lookup_nested" -> IndexCandidates(s.plan, left_row, s.index)
      [] s.strategy = "nested_loop" -> DOMAIN right_rel.rows

EvaluatesOn(s, join) ==
    CASE s.strategy = "hash_equi" -> FALSE
      [] s.strategy = "indexed_lookup_nested" -> ~s.plan.full_on_covered
      [] s.strategy = "nested_loop" -> join.type # "cross" /\ join.on # {}

\* What trying one row with another comes to.
TryPair(s, join, left_row, right_rel, k, active_alias) ==
    CASE k > Len(right_rel.rows) -> "out of range"
      [] k <= Len(right_rel.rows) /\ DuplicateAlias(left_row, right_rel.rows[k]) -> "duplicate alias"
      [] OTHER ->
            IF EvaluatesOn(s, join)
            THEN EvalExpr(CHOOSE e \in join.on : TRUE, merge_row_aliases(left_row, right_rel.rows[k]), active_alias)
            ELSE "true"

build_left_join_padded_row(left_row, right_rel) ==
    [a \in DOMAIN left_row \cup DOMAIN right_rel.alias_columns |->
        IF a \in DOMAIN right_rel.alias_columns
        THEN Record([c \in right_rel.alias_columns[a] |-> Null], <<>>)
        ELSE left_row[a]]

MatchesOf(s, join, left_row, right_rel, active_alias) ==
    Ascending({k \in Candidates(s, left_row, right_rel) :
                  TryPair(s, join, left_row, right_rel, k, active_alias) = "true"})

\* A mutation: it is padded if there is nothing on the right at all.
JoinedRows_padded_for_no_rows(join, left_row, right_rel, matches) ==
    [k \in DOMAIN matches |-> merge_row_aliases(left_row, right_rel.rows[matches[k]])]
      \o IF join.type = "left" /\ right_rel.rows = <<>>
         THEN <<build_left_join_padded_row(left_row, right_rel)>> ELSE <<>>

\* The row of a LEFT JOIN that matches none is padded.
JoinedRows(join, left_row, right_rel, matches) ==
    [k \in DOMAIN matches |-> merge_row_aliases(left_row, right_rel.rows[matches[k]])]
      \o IF join.type = "left" /\ matches = <<>>
         THEN <<build_left_join_padded_row(left_row, right_rel)>> ELSE <<>>

JoinRows(s, join, left_rel, right_rel, active_alias) ==
    FlattenSeq([k \in DOMAIN left_rel.rows |-> JoinedRows(join, left_rel.rows[k], right_rel,
                                              MatchesOf(s, join, left_rel.rows[k], right_rel, active_alias))])

\* The first pair that does not evaluate ends the statement.
JoinFailures(s, join, left_rel, right_rel, active_alias) ==
    (UNION {{TryPair(s, join, left_rel.rows[j], right_rel, k, active_alias) :
              k \in Candidates(s, left_rel.rows[j], right_rel)} : j \in DOMAIN left_rel.rows})
      \ {"true", "false"}
=============================================================================
