------------------------------ MODULE Executor -------------------------------
(***************************************************************************)
(* A query over a parsed document: which nodes it selects, in which order,  *)
(* and the rows it answers with (executor.cpp, order.cpp and the row, COUNT *)
(* and SUMMARIZE parts of engine/execute_dom.cpp).  PROJECT, FLATTEN, TFIDF *)
(* and TO TABLE, which build their rows by other means, are left out, and so*)
(* are the columns of a row that are copied from its node.                  *)
(***************************************************************************)
EXTENDS Filter

CONSTANTS
    Exprs,      \* the WHERE clauses and all of their parts
    Queries,    \* the queries: see Query
    None        \* no query was answered yet

\* The source is one document.  where and limit are empty or singletons.
Query ==
    [select : SUBSET (Tag \cup {"*"}), where : SUBSET Exprs,
     order_by : Seq([field : NumberFields \cup {"tag", "count"}, descending : BOOLEAN]),
     limit : SUBSET Nat, aggregate : {"none", "count", "summarize"}]

ASSUME QueriesAssumption ==
    Queries \subseteq Query /\ \A q \in Queries : \A l, m \in q.limit : l = m

VARIABLES
    query,      \* the query that was answered
    rows        \* the answer

vars == <<docVars, query, rows>>
----------------------------------------------------------------------------
(* eval_expr_with_context: every node of an EXISTS is the row of its WHERE. *)

eval_expr[e \in Exprs] == [n \in Nat |->
    CASE e.kind = "compare" -> CompareHolds(e, n)
      [] e.kind = "exists" ->
            \E m \in ToSet(AxisNodes(e.axis, n)) : \A f \in e.where : eval_expr[f][m]
      [] e.kind = "and" -> eval_expr[e.left][n] /\ eval_expr[e.right][n]
      [] OTHER -> eval_expr[e.left][n] \/ eval_expr[e.right][n]]

Selected(q, n) ==
    /\ "*" \in q.select \/ nodes[n].tag \in q.select
    /\ \A e \in q.where : eval_expr[e][n]
----------------------------------------------------------------------------
(* compare_nodes, and the order of ORDER BY. *)

\* What nodes are compared by: a root's parent is larger than any.
sort_key(n) ==
    [node_id |-> n, tag |-> Rank[nodes[n].tag],
     parent_id |-> IF nodes[n].parent = 0 THEN Len(nodes) + 1 ELSE nodes[n].parent,
     max_depth |-> max_depth[n], doc_order |-> Max(number_of(n, "doc_order"))]

\* A field that compare_nodes does not know is the same for all.
KeyField(a, field) == IF field \in DOMAIN a THEN a[field] ELSE 0

\* a and b are the keys: the first field that tells them apart decides.
Precedes(order_by, a, b) ==
    \E k \in DOMAIN order_by :
        LET field == order_by[k].field
        IN  /\ \A j \in 1..k-1 : KeyField(a, order_by[j].field) = KeyField(b, order_by[j].field)
            /\ IF order_by[k].descending THEN KeyField(b, field) < KeyField(a, field)
               ELSE KeyField(a, field) < KeyField(b, field)

\* The sort is stable: nodes that no field tells apart stay in their order.
NodeBefore(q, m, n) ==
    \/ Precedes(q.order_by, sort_key(m), sort_key(n))
    \/ ~Precedes(q.order_by, sort_key(n), sort_key(m)) /\ m < n

Truncated(q, s) == SubSeq(s, 1, Min({Len(s)} \cup q.limit))

\* Nodes in the order of the query: the place of one is the number of those before it.
Sorted(q, S) ==
    LET place == [n \in S |-> Cardinality({m \in S : NodeBefore(q, m, n)})]
    IN  [k \in 1..Cardinality(S) |-> CHOOSE n \in S : place[n] = k - 1]

\* A mutation: the limit is applied while the nodes are collected.
execute_query_limit_first(q) ==
    LET chosen == Truncated(q, SelectSeq([n \in Node |-> n], LAMBDA n : Selected(q, n)))
    IN  Sorted(q, ToSet(chosen))

execute_query(q) == Truncated(q, Sorted(q, {n \in Node : Selected(q, n)}))
----------------------------------------------------------------------------
(* execute_query_ast. *)

Row(tag, node_id, sibling_pos) == [tag |-> tag, node_id |-> node_id, sibling_pos |-> sibling_pos]

NodeRows(q) ==
    LET found == execute_query(q)
    IN  [k \in DOMAIN found |-> Row(nodes[found[k]].tag, found[k], SiblingPos(found[k]))]

\* A mutation: the short way is taken whatever the limit.
plain_count_star_limited(q) == q.select = {"*"} /\ q.where = {} /\ q.order_by = <<>>

\* COUNT(*) of a whole document is the size of its node table, and never looks
\* at the nodes.
plain_count_star(q) == q.select = {"*"} /\ q.where = {} /\ q.order_by = <<>> /\ q.limit = {}

\* Any other COUNT counts what the limit left.
CountRows(q) ==
    <<Row("", IF plain_count_star(q) THEN Len(nodes) ELSE Len(execute_query(q)), 0)>>

counted(q, tag) ==
    LET found == execute_query(q)
    IN  Cardinality({k \in DOMAIN found : nodes[found[k]].tag = tag})

summary_key(q, tag) == [count |-> counted(q, tag), tag |-> Rank[tag]]

\* Without an ORDER BY, the most frequent first, then by name.
summary_order(q) ==
    IF q.order_by # <<>> THEN q.order_by
    ELSE <<[field |-> "count", descending |-> TRUE], [field |-> "tag", descending |-> FALSE]>>

\* SUMMARIZE counts what the limit left, then applies the limit to the counts;
\* tags that the order does not tell apart come in any order.
SummaryRows(q, tags) ==
    /\ \A j, k \in DOMAIN tags :
          j < k => ~Precedes(summary_order(q), summary_key(q, tags[k]), summary_key(q, tags[j]))
    /\ rows' = Truncated(q, [k \in DOMAIN tags |-> Row(tags[k], counted(q, tags[k]), 0)])

Answer(q) ==
    \/ q.aggregate = "none" /\ rows' = NodeRows(q)
    \/ q.aggregate = "count" /\ rows' = CountRows(q)
    \/ /\ q.aggregate = "summarize"
       /\ \E tags \in SetToSeqs({t \in Tag : counted(q, t) > 0}) : SummaryRows(q, tags)

Execute(q) ==
    /\ phase = "parsed"
    /\ phase' = "answered"
    /\ query' = q
    /\ Answer(q)
    /\ UNCHANGED <<html, i, nodes, stack, doc_order, max_depth, walk>>
----------------------------------------------------------------------------
Init ==
    /\ DocInit
    /\ query = None
    /\ rows = <<>>

Next ==
    \/ DocNext /\ UNCHANGED <<query, rows>>
    \/ \E q \in Queries : Execute(q)

Spec == Init /\ [][Next]_vars
=============================================================================
