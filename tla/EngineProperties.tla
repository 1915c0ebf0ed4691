--------------------------- MODULE EngineProperties ---------------------------
(***************************************************************************)
(* What a query over a document may be relied on for, beside what           *)
(* HtmlDocument says of the document.                                       *)
(***************************************************************************)
EXTENDS Executor

\* The axes agree with each other: a node is among the descendants of exactly its
\* ancestors, once, although one walk follows children and the other parents; and
\* the descendants are the nodes that follow in the table, without a gap.
AxesInverse ==
    phase = "parsed" =>
        \A n \in Node :
            LET below == AxisNodes("descendant", n)
            IN  /\ \A m \in Node : m \in ToSet(below) <=> n \in ToSet(AxisNodes("ancestor", m))
                /\ ToSet(below) = n + 1 .. n + Len(below)

\* A field or a literal of the same value on the right of a comparison: the two
\* paths of eval_expr_with_context agree on every single value a node has, its
\* attributes and NULL excepted.
SelfFields == NumberFields \cup {"tag"}

Comparison(op, field, values, operands) ==
    [kind |-> "compare", op |-> op, axis |-> "self", field |-> field,
     values |-> values, operands |-> operands]

Literal(value) ==
    IF value.number = {} THEN value
    ELSE [value EXCEPT !.string = <<ToString(Max(value.number))>>]

Alike(op, n, f, g) ==
    \A v \in values_of(n, g) :
        values_of(n, f) # {} =>
            (CompareHolds(Comparison(op, f, <<Literal(v)>>, <<>>), n)
               <=> CompareHolds(Comparison(op, f, <<>>, <<[axis |-> "self", field |-> g]>>), n))

PathsAgree ==
    phase = "parsed" =>
        \A n \in Node :
            /\ \A op \in {"=", "<>", "<", "<=", ">", ">=", "in"}, f, g \in NumberFields : Alike(op, n, f, g)
            /\ \A op \in {"=", "<>", "in"} : Alike(op, n, "tag", "tag")

\* The two walks over the finished table, one with a stack of children and one that
\* meets each node twice, number and measure the tree that the table's parents draw:
\* doc_order and max_depth, which ORDER BY, joins and MAX_DEPTH rely on.
MetadataOfTree == DocOrderIsNodeId /\ MaxDepthIsHeight

FirstOf(q, answer) ==
    /\ \A k \in DOMAIN answer : Selected(q, answer[k].node_id)
    /\ \A j, k \in DOMAIN answer : j < k => NodeBefore(q, answer[j].node_id, answer[k].node_id)
    /\ \A n \in Node :
          Selected(q, n) /\ n \notin {answer[k].node_id : k \in DOMAIN answer} =>
              /\ {Len(answer)} = q.limit
              /\ \A k \in DOMAIN answer : NodeBefore(q, answer[k].node_id, n)

\* The rows of a query without an aggregate are the first of all that it selects:
\* each is selected, no two are the same node, a later one never belongs before an
\* earlier one, and one left out, because of LIMIT alone, belongs after them all.
FirstRows == phase = "answered" /\ query.aggregate = "none" => FirstOf(query, rows)

\* What a query selects, and what of it has a tag.
Hits(q) == {n \in Node : Selected(q, n)}
HitsOf(q, tag) == {n \in Hits(q) : nodes[n].tag = tag}

CountOf(q, answer) == answer[1].node_id = Min({Cardinality(Hits(q))} \cup q.limit)

SummaryOf(q, answer) ==
    /\ \A j, k \in DOMAIN answer : answer[j].tag = answer[k].tag => j = k
    /\ \A k \in DOMAIN answer : answer[k].node_id \in 1..Cardinality(HitsOf(q, answer[k].tag))
    /\ q.limit = {} =>
          /\ \A k \in DOMAIN answer : answer[k].node_id = Cardinality(HitsOf(q, answer[k].tag))
          /\ \A n \in Hits(q) : \E k \in DOMAIN answer : answer[k].tag = nodes[n].tag

\* COUNT, by its short way and by the long one, counts what the query selects, or
\* as much of it as LIMIT leaves.  SUMMARIZE has each tag once, and none with more
\* nodes than were selected; without a LIMIT the counts are those of all selected
\* nodes and no tag is missing, so that they add up to the COUNT.
CountsAddUp ==
    phase = "answered" =>
        /\ query.aggregate = "count" => CountOf(query, rows)
        /\ query.aggregate = "summarize" => SummaryOf(query, rows)
=============================================================================
