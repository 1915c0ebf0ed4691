------------------------------- MODULE Filter --------------------------------
(***************************************************************************)
(* The WHERE clause over one node (core/src/runtime/executor/filter.cpp and *)
(* filter_scalar.cpp).  A comparison whose right-hand side is all literals  *)
(* takes one path, one with a computed right-hand side another.             *)
(*                                                                          *)
(* A string is the sequence of its words, with the number it parses to, if  *)
(* any.  Left out are the operators that read the letters of a string (~,   *)
(* LIKE, CONTAINS, HAS_DIRECT_TEXT), < between strings in a computed        *)
(* comparison, the text of a node, the map of attributes and the functions. *)
(***************************************************************************)
EXTENDS HtmlDocument

CONSTANT Rank   \* the place of a word in the order of its bytes

ASSUME RankAssumption == \A t \in Tag : Rank[t] \in Int

Value == [number : SUBSET Int, string : Seq(STRING)]

Number(n) == [number |-> {n}, string |-> <<>>]
Word(w) == [number |-> {}, string |-> <<w>>]

\* The order of two texts, below or above 0: where they differ first decides, or which
\* ends first.  As in Rank, no piece begins another one that it is compared with.
TextOrder(l, r) ==
    LET differ == {k \in DOMAIN l \cap DOMAIN r : l[k] # r[k]}
    IN  IF differ = {} THEN Len(l) - Len(r) ELSE Rank[l[Min(differ)]] - Rank[r[Min(differ)]]

(* Expressions: sets of records, so that a query is a constant.             *)
(*   a comparison [kind, op, axis, field, values, operands]: one of the     *)
(*     last two is empty, and an operand is an [axis, field];               *)
(*   an EXISTS    [kind, axis, where]: where is a set, empty or a singleton;*)
(*   AND and OR   [kind, left, right].                                      *)
(* A field that names none of the following is an attribute.                *)
NumberFields == {"node_id", "parent_id", "sibling_pos", "max_depth", "doc_order"}
----------------------------------------------------------------------------
(* The axes, in the order the code visits their nodes. *)

Ancestors[n \in 0 .. Len(nodes)] ==
    IF n = 0 \/ nodes[n].parent = 0 THEN <<>>
    ELSE <<nodes[n].parent>> \o Ancestors[nodes[n].parent]

\* A mutation: the walk forgets the children of a node it leaves out.
walk_of_leaves(n, below) == IF Len(Children(n)) > 1 THEN <<n>> ELSE <<n>> \o below

\* A node, then its subtree.
walk_of(n, below) == <<n>> \o below

\* The nodes are popped from a stack, so the last child comes first.
Descendants[n \in Node] ==
    LET kids == Reverse(Children(n))
    IN  FlattenSeq([k \in DOMAIN kids |-> walk_of(kids[k], Descendants[kids[k]])])

AxisNodes(axis, n) ==
    CASE axis = "self" -> <<n>>
      [] axis = "parent" -> IF nodes[n].parent = 0 THEN <<>> ELSE <<nodes[n].parent>>
      [] axis = "child" -> Children(n)
      [] axis = "ancestor" -> Ancestors[n]
      [] axis = "descendant" -> Descendants[n]

\* The place of a node among its parent's children: a root is always the first.
SiblingPos(n) ==
    IF nodes[n].parent = 0 THEN 1
    ELSE Cardinality({k \in Kids(nodes[n].parent) : k <= n})

\* The number a field holds, or none: the parent of a root.
number_of(n, field) ==
    CASE field = "node_id" -> {n}
      [] field = "parent_id" -> {nodes[n].parent} \ {0}
      [] field = "sibling_pos" -> {SiblingPos(n)}
      [] field = "max_depth" -> {max_depth[n]}
      [] field = "doc_order" -> {k \in DOMAIN doc_order : doc_order[k] = n}

attribute_of(n, name) ==
    IF name \in DOMAIN nodes[n].attributes THEN {nodes[n].attributes[name]} ELSE {}
----------------------------------------------------------------------------
(* A comparison with literals: some node of the axis matches. *)

Ordered(a, op, b) ==
    CASE op = "=" -> a = b
      [] op = "<>" -> a # b
      [] op = "<" -> a < b
      [] op = "<=" -> a <= b
      [] op = ">" -> a > b
      [] op = ">=" -> a >= b

\* A literal that is no number compares with none; for any field but
\* sibling_pos, one that comes first in an IN hides the others.
match_number(field, x, op, values) ==
    IF op = "in"
    THEN /\ field = "sibling_pos" \/ values[1].number # {}
         /\ \E v \in ToSet(values) : x \in v.number
    ELSE \E t \in values[1].number : Ordered(x, op, t)

Words(value) == {Word(w).string : w \in ToSet(value.string)}

Strings(values) == {v.string : v \in ToSet(values)}

\* An attribute is compared as a whole, class by its words; every operator but
\* <> is taken for =, or for IN.
match_attribute(name, value, op, values) ==
    LET held == IF name = "class" THEN Words(value) ELSE {value.string}
    IN  CASE op = "<>" -> values[1].string \notin held
          [] op # "<>" /\ (op = "in" \/ name = "class") -> held \cap Strings(values) # {}
          [] OTHER -> value.string = values[1].string

match_tag(tag, op, values) ==
    CASE op = "in" -> <<tag>> \in Strings(values)
      [] OTHER -> Ordered(Rank[tag], op, Rank[values[1].string[1]])

match_field(n, field, op, values) ==
    CASE field \in NumberFields -> \E x \in number_of(n, field) : match_number(field, x, op, values)
      [] field = "tag" -> match_tag(nodes[n].tag, op, values)
      [] OTHER -> \E v \in attribute_of(n, field) : match_attribute(field, v, op, values)

CompareLiterals(e, n) ==
    \E m \in ToSet(AxisNodes(e.axis, n)) : match_field(m, e.field, e.op, e.values)

\* IS NOT NULL: the axis has a node, with that attribute or that parent.
Present(e, n) ==
    \E m \in ToSet(AxisNodes(e.axis, n)) :
        CASE e.field = "parent_id" -> nodes[m].parent # 0
          [] e.field \in (NumberFields \ {"parent_id"}) \cup {"tag"} -> TRUE
          [] OTHER -> attribute_of(m, e.field) # {}
----------------------------------------------------------------------------
(* A comparison with computed values: each side is one value, or NULL. *)

values_of(n, field) ==
    CASE field \in NumberFields -> {Number(x) : x \in number_of(n, field)}
      [] field = "tag" -> {Word(nodes[n].tag)}
      [] OTHER -> attribute_of(n, field)

\* The value of the first node of the axis that has one.
value_from_operand(o, n) ==
    LET axis == AxisNodes(o.axis, n)
        having == {k \in DOMAIN axis : values_of(axis[k], o.field) # {}}
    IN  IF having = {} THEN {} ELSE values_of(axis[Min(having)], o.field)

values_equal(l, r) ==
    \E a \in l, b \in r :
        IF a.number # {} /\ b.number # {} THEN a.number = b.number
        ELSE a.number = b.number /\ a.string = b.string

values_less(l, r) == \E a \in l, b \in r : \E x \in a.number, y \in b.number : x < y

\* A mutation: <= without the equal.
at_most_less(l, r) == values_less(l, r)

at_most(l, r) == values_less(l, r) \/ values_equal(l, r)

\* r are the values of the right-hand side; all but IN look at the first.
values_compare(op, l, r) ==
    CASE op = "in" -> \E k \in DOMAIN r : values_equal(l, r[k])
      [] op = "=" -> values_equal(l, r[1])
      [] op = "<>" -> ~values_equal(l, r[1])
      [] op = "<" -> values_less(l, r[1])
      [] op = "<=" -> at_most(l, r[1])
      [] op = ">" -> values_less(r[1], l)
      [] op = ">=" -> at_most(r[1], l)

CompareComputed(e, n) ==
    values_compare(e.op, value_from_operand([axis |-> e.axis, field |-> e.field], n),
                    [k \in DOMAIN e.operands |-> value_from_operand(e.operands[k], n)])

\* eval_expr_with_context.
CompareHolds(e, n) ==
    CASE e.op = "is null" -> ~Present(e, n)
      [] e.op = "is not null" -> Present(e, n)
      [] e.values # <<>> -> CompareLiterals(e, n)
      [] OTHER -> CompareComputed(e, n)
=============================================================================
