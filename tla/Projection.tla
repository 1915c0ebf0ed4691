------------------------------ MODULE Projection ------------------------------
(***************************************************************************)
(* The rows that are computed from a node and what is below it: PROJECT,   *)
(* FLATTEN_TEXT and the expressions of SELECT                              *)
(* (src/core/src/runtime/engine/execute_dom_projection.cpp,                *)
(* execute_dom_descendants.cpp, execute_dom.cpp and table_extract.cpp).    *)
(*                                                                         *)
(* After the document was parsed the inner_html of a node is scanned a     *)
(* second time, tag by tag, to cut it at a depth or to find the text that  *)
(* is in no element.  The scan reads the pieces of HtmlDocument, the tags  *)
(* inside of a script too, for it does not know scripts.  An inner_html    *)
(* that ends in the middle of a tag is left out.                           *)
(*                                                                         *)
(* A value that may be missing is a set, empty or a singleton.             *)
(* Expressions: "literal" [value: Text], "number" [int: Int], "null",    *)
(* "self", "alias" [name], "operand" [axis, field], "case" [when, then,    *)
(* otherwise], "call" [fn, args], and the selectors "text" and "attr"      *)
(* [tag, attribute, where, index, last, direct] of PROJECT alone.          *)
(* REGEX_REPLACE and the minifying of INNER_HTML are left out.             *)
(***************************************************************************)
EXTENDS Executor, Texts

CONSTANTS
    Nesting,     \* how deep the calls of a query go
    InlineTags,  \* those whose text counts as their parent's
    EmptyTags    \* is_void_tag: those that do not open a level

VARIABLE says    \* the words of the text pieces, by their place

\* The string that stands at a place of the text.
Letters(p) ==
    CASE html[p].kind = "text" -> says[p]
      [] html[p].kind = "open" -> <<"<", html[p].tag, ">">>
      [] html[p].kind = "close" -> <<"</", html[p].tag, ">">>
      [] html[p].kind = "comment" -> <<"<!---->">>

Written(places) == FlattenSeq([k \in DOMAIN places |-> Letters(places[k])])

InOrder(places) == SelectSeq([p \in 1..Max(places \cup {0}) |-> p], LAMBDA p : p \in places)

\* HtmlNode::text and HtmlNode::inner_html.
Inner(n) == InOrder(nodes[n].inner.from .. nodes[n].inner.to - 1)

text_of(n) == Written(InOrder(nodes[n].text))
----------------------------------------------------------------------------
self_closing(p) == html[p].self_close \/ html[p].tag \in EmptyTags

\* A mutation: an element that is empty opens a level all the same.
depth_after_void(depth, p, ignored) ==
    IF html[p].kind \notin {"open", "close"} \/ html[p].tag \in ignored THEN depth
    ELSE IF html[p].kind = "close" THEN Max({depth - 1, 0})
    ELSE depth + 1

\* The levels that are open after a piece: tags that are ignored change nothing.
depth_after(depth, p, ignored) ==
    IF html[p].kind \notin {"open", "close"} \/ html[p].tag \in ignored THEN depth
    ELSE IF html[p].kind = "close" THEN Max({depth - 1, 0})
    ELSE IF self_closing(p) THEN depth
    ELSE depth + 1

\* Text is always kept; a tag or a comment if it is not too deep.
within(depth, p, max) ==
    CASE html[p].kind = "text" -> TRUE
      [] html[p].kind = "open" -> depth + 1 <= max
      [] OTHER -> depth <= max

Scanned(places, ignored, Keep(_, _)) ==
    FoldLeft(LAMBDA s, p : [depth |-> depth_after(s.depth, p, ignored),
                            out |-> IF Keep(s.depth, p) THEN Append(s.out, p) ELSE s.out],
             [depth |-> 0, out |-> <<>>], places).out

limit_inner_html(places, max) == Scanned(places, {}, LAMBDA depth, p : within(depth, p, max))

outside(depth, p) == html[p].kind = "text" /\ depth = 0

\* The text in no element at all, and the text in inline elements at most.
extract_direct_text_strict(places) == Scanned(places, {}, outside)

extract_direct_text(places) == Scanned(places, InlineTags, outside)
----------------------------------------------------------------------------
(* Walks over the children of a node. *)

below[n \in Nat] ==
    LET kids == Children(n)
    IN  FlattenSeq([k \in DOMAIN kids |-> <<kids[k]>> \o below[kids[k]]])

collect_descendants_any_depth(n) == below[n]

at_depth[n \in Nat, depth \in Nat] ==
    LET kids == Children(n)
    IN  IF depth = 0 THEN <<n>>
        ELSE FlattenSeq([k \in DOMAIN kids |-> at_depth[kids[k], depth - 1]])

collect_descendants_at_depth(n, depth) == at_depth[n, depth]

\* The walk stops at what it looks for.
outermost_of(n, tags, inside) == IF nodes[n].tag \in tags THEN <<n>> ELSE inside

outermost[n \in Nat, tags \in SUBSET Tag] ==
    LET kids == Children(n)
    IN  outermost_of(n, tags, FlattenSeq([k \in DOMAIN kids |-> outermost[kids[k], tags]]))

table_rows(table) == outermost[table, {"tr"}]

row_cells(tr) ==
    LET kids == Children(tr)
    IN  FlattenSeq([k \in DOMAIN kids |-> outermost[kids[k], {"td", "th"}]])

\* The rows of a table, each the texts of its cells; a row without a cell is none.
collect_rows(table) ==
    LET trs == SelectSeq(table_rows(table), LAMBDA tr : row_cells(tr) # <<>>)
        Cells(tr) == [k \in DOMAIN row_cells(tr) |-> trim_ws(text_of(row_cells(tr)[k]))]
    IN  [r \in DOMAIN trs |-> Cells(trs[r])]
----------------------------------------------------------------------------
(* The texts of a node. *)

\* The text of an attribute: its words, a space between them.
text_of_value(v) == Spaced([k \in DOMAIN v.string |-> <<v.string[k]>>])

\* normalized_extract_text: what is in no element; else what is in inline elements
\* only; else all of the text.
FirstSolid(texts) ==
    LET solid == SelectSeq(texts, LAMBDA s : s # <<>>)
    IN  IF solid = <<>> THEN <<>> ELSE solid[1]

direct_text(n) == Written(extract_direct_text_strict(Inner(n)))

normalized_extract_text(n) ==
    FirstSolid(<<normalize_flatten_text(direct_text(n)),
                 normalize_flatten_text(Written(extract_direct_text(Inner(n)))),
                 normalize_flatten_text(text_of(n))>>)
----------------------------------------------------------------------------
(* Selectors: TEXT, DIRECT_TEXT and ATTR of a row. *)

\* ProjectRowEvalCache: the row's node and all below it, of one tag.
nodes_for_tag(n, tag) ==
    SelectSeq(<<n>> \o collect_descendants_any_depth(n), LAMBDA m : nodes[m].tag = tag)

\* What a candidate gives: nothing, if it is empty.
selected_value(e, m) ==
    {s \in IF e.kind = "attr"
           THEN {text_of_value(v) : v \in attribute_of(m, e.attribute)}
           ELSE {IF e.direct THEN trim_ws(direct_text(m)) ELSE normalized_extract_text(m)} :
        s # <<>>}

\* A mutation: candidates without a value are counted.
Offers_all(e, m) == TRUE

Offers(e, m) == selected_value(e, m) # {}

selector_value(e, n) ==
    LET found == SelectSeq(nodes_for_tag(n, e.tag),
                           LAMBDA m : (\A w \in e.where : eval_expr[w][m]) /\ Offers(e, m))
    IN  CASE e.last /\ found # <<>> -> selected_value(e, Last(found))
          [] ~e.last /\ e.index \in DOMAIN found -> selected_value(e, found[e.index])
          [] OTHER -> {}
----------------------------------------------------------------------------
(* Operands. *)

\* projection_axis_nodes: below a node the last child comes first.
axis_stack[s \in Seq(Nat)] ==
    IF s = <<>> THEN <<>>
    ELSE <<Last(s)>> \o axis_stack[Front(s) \o Children(Last(s))]

projection_axis_nodes(axis, n) ==
    IF axis = "descendant" THEN axis_stack[Children(n)] ELSE AxisNodes(axis, n)

field_value(m, field) ==
    CASE field = "text" -> {text_of(m)}
      [] field = "tag" -> {<<nodes[m].tag>>}
      [] field \in NumberFields -> {to_string(x) : x \in number_of(m, field)}
      [] OTHER -> {text_of_value(v) : v \in attribute_of(m, field)}

\* A mutation: the first node of the axis, whether it has the field or not.
projection_operand_value_first(o, n) ==
    LET all == projection_axis_nodes(o.axis, n)
    IN  IF all = <<>> THEN {} ELSE field_value(all[1], o.field)

\* The first node of the axis that has the field.
projection_operand_value(o, n) ==
    LET having == SelectSeq(projection_axis_nodes(o.axis, n), LAMBDA m : field_value(m, o.field) # {})
    IN  IF having = <<>> THEN {} ELSE field_value(having[1], o.field)
----------------------------------------------------------------------------
(* Functions: a is the sequence of the arguments' values. *)

Given(a) == \A k \in DOMAIN a : a[k] # {}

The(x) == CHOOSE s \in x : TRUE

Trims == {"TRIM", "LTRIM", "RTRIM"}
Unary == Trims \cup {"LOWER", "UPPER"}

unary_of(fn, s) ==
    CASE fn = "TRIM" -> trim_ws(s)
      [] fn = "LTRIM" -> From(s, Blank)
      [] fn = "RTRIM" -> UpTo(s, Blank)
      [] fn = "LOWER" -> to_lower(s)
      [] fn = "UPPER" -> to_upper(s)

\* LOCATE begins at a place that is given, POSITION at the first.
found_at(needle, s, start) == find(needle, s, Max({1} \cup start))

\* A length that is no number or not positive is no text at all.
substring_of(s, start, length) ==
    IF \E l \in length : l = {} \/ Max(l) <= 0 THEN <<>> ELSE substring(s, start, UNION length)

Comparisons == {"__CMP_EQ", "__CMP_NE", "__CMP_LT", "__CMP_LE", "__CMP_GT", "__CMP_GE"}

OperatorOf(fn) ==
    CASE fn = "__CMP_EQ" -> "=" [] fn = "__CMP_NE" -> "<>" [] fn = "__CMP_LT" -> "<"
      [] fn = "__CMP_LE" -> "<=" [] fn = "__CMP_GT" -> ">" [] fn = "__CMP_GE" -> ">="

\* Two numerals are compared as numbers, other texts by the order of their bytes.
compared(fn, l, r) ==
    IF parse_int64_value(l) # {} /\ parse_int64_value(r) # {}
    THEN Ordered(Max(parse_int64_value(l)), OperatorOf(fn), Max(parse_int64_value(r)))
    ELSE Ordered(TextOrder(l, r), OperatorOf(fn), 0)

Boolean(b) == IF b THEN <<"true">> ELSE <<"false">>

\* COALESCE of PROJECT: a value of spaces only is none.
coalesce_solid(a) ==
    LET solid == SelectSeq(a, LAMBDA x : \E s \in x : trim_ws(s) # <<>>)
    IN  IF solid = <<>> THEN {} ELSE solid[1]

\* A mutation: the place that is given is counted from 0.
locate_start_zero(p) == {x + 1 : x \in p}

locate_start(p) == p

ExtractCall(fn, a) ==
    LET s(k) == The(a[k])
        int(k) == parse_int64_value(s(k))
    IN  CASE fn = "COALESCE" -> coalesce_solid(a)
          [] fn = "CONCAT" -> IF Given(a) THEN {FlattenSeq([k \in DOMAIN a |-> s(k)])} ELSE {}
          [] fn \in Unary -> IF Given(a) THEN {unary_of(fn, s(1))} ELSE {}
          [] fn = "REPLACE" -> IF Given(a) THEN {replace(s(1), s(2), s(3))} ELSE {}
          [] fn = "LENGTH" -> IF Given(a) THEN {to_string(Len(s(1)))} ELSE {}
          [] fn = "SUBSTRING" ->
                IF ~Given(SubSeq(a, 1, 2)) \/ int(2) = {} THEN {}
                ELSE {substring_of(s(1), Max(int(2)),
                                   IF Len(a) = 3 /\ a[3] # {} THEN {int(3)} ELSE {})}
          [] fn = "POSITION" -> IF Given(a) THEN {to_string(find(s(1), s(2), 1))} ELSE {}
          [] fn = "LOCATE" ->
                IF ~Given(SubSeq(a, 1, 2)) \/ (Len(a) = 3 /\ a[3] # {} /\ int(3) = {}) THEN {}
                ELSE {to_string(found_at(s(1), s(2), IF Len(a) = 3 /\ a[3] # {}
                                                     THEN locate_start(int(3)) ELSE {}))}
          [] fn = "__CMP_LIKE" -> IF Given(a) THEN {Boolean(like_match_ci(s(1), s(2)))} ELSE {}
          [] fn \in Comparisons -> IF Given(a) THEN {Boolean(compared(fn, s(1), s(2)))} ELSE {}

\* An expression and those in it.
Parts(e) ==
    CASE e.kind = "call" -> ToSet(e.args)
      [] e.kind = "case" -> ToSet(e.then) \cup e.otherwise
      [] OTHER -> {}

Inside(e) ==
    LET level[d \in 0 .. Nesting] == IF d = 0 THEN {e} ELSE UNION {Parts(x) : x \in level[d - 1]}
    IN  UNION {level[d] : d \in 0 .. Nesting}

\* eval_flatten_extract_expr: an alias stands for the value of the column before.
eval_flatten_extract_expr(e, n, bindings) ==
    LET value[x \in Inside(e)] ==
          CASE x.kind = "literal" -> {x.value}
            [] x.kind = "number" -> {to_string(x.int)}
            [] x.kind = "null" -> {}
            [] x.kind = "alias" -> IF x.name \in DOMAIN bindings THEN {bindings[x.name]} ELSE {}
            [] x.kind = "operand" -> projection_operand_value(x, n)
            [] x.kind = "case" ->
                  LET holds == {k \in DOMAIN x.when : eval_expr[x.when[k]][n]}
                  IN  IF holds # {} THEN value[x.then[Min(holds)]] ELSE UNION {value[o] : o \in x.otherwise}
            [] x.kind \in {"text", "attr"} -> selector_value(x, n)
            [] x.kind = "call" -> ExtractCall(x.fn, [k \in DOMAIN x.args |-> value[x.args[k]]])
    IN  value[e]
----------------------------------------------------------------------------
(* eval_select_scalar_expr: a value is a text or a number. *)

TextValue(s) == [number |-> {}, text |-> s]
NumberValue(x) == [number |-> {x}, text |-> <<>>]

projection_to_string(v) == IF v.number # {} THEN to_string(Max(v.number)) ELSE v.text

projection_to_int(v) == IF v.number # {} THEN v.number ELSE parse_int64_value(v.text)

select_operand(o, n) ==
    IF o.field \in NumberFields
    THEN {NumberValue(x) : x \in UNION {parse_int64_value(s) : s \in projection_operand_value(o, n)}}
    ELSE {TextValue(s) : s \in projection_operand_value(o, n)}

\* A function of the row's node: another tag than the node's gives nothing.
Applies(arg, value, n) == arg.kind = "self" \/ \E v \in value : to_lower(projection_to_string(v)) = <<nodes[n].tag>>

NodeFunctions == {"TEXT", "DIRECT_TEXT", "RAW_INNER_HTML", "ATTR"}

node_function(fn, a, n) ==
    CASE fn = "TEXT" -> {TextValue(text_of(n))}
      [] fn = "DIRECT_TEXT" -> {TextValue(direct_text(n))}
      [] fn = "ATTR" -> {TextValue(s) : s \in UNION {field_value(n, projection_to_string(v)[1]) : v \in a[2]}}
      [] fn = "RAW_INNER_HTML" ->
            LET depth == IF Len(a) = 1 THEN {1} ELSE UNION {projection_to_int(v) : v \in a[2]}
            IN  {TextValue(Written(limit_inner_html(Inner(n), d))) : d \in {x \in depth : x >= 0}}

\* COALESCE of SELECT: the first that is not missing.
coalesce_present(a) ==
    LET present == SelectSeq(a, LAMBDA x : x # {})
    IN  IF present = <<>> THEN {} ELSE present[1]

SelectCall(fn, a) ==
    LET s(k) == projection_to_string(The(a[k]))
        int(k) == projection_to_int(The(a[k]))
    IN  CASE fn = "COALESCE" -> coalesce_present(a)
          [] fn = "CONCAT" -> IF Given(a) THEN {TextValue(FlattenSeq([k \in DOMAIN a |-> s(k)]))} ELSE {}
          [] fn \in Unary -> IF Given(a) THEN {TextValue(unary_of(fn, s(1)))} ELSE {}
          [] fn = "REPLACE" -> IF Given(a) THEN {TextValue(replace(s(1), s(2), s(3)))} ELSE {}
          [] fn = "LENGTH" -> IF Given(a) THEN {NumberValue(Len(s(1)))} ELSE {}
          [] fn = "SUBSTRING" ->
                IF ~Given(SubSeq(a, 1, 2)) \/ int(2) = {} THEN {}
                ELSE {TextValue(substring_of(s(1), Max(int(2)),
                                             IF Len(a) = 3 /\ a[3] # {} THEN {int(3)} ELSE {}))}
          [] fn = "POSITION" ->
                IF Given(SubSeq(a, 1, 2)) THEN {NumberValue(find(s(1), s(2), 1))} ELSE {}
          [] fn = "LOCATE" ->
                IF ~Given(SubSeq(a, 1, 2)) \/ (Len(a) = 3 /\ a[3] # {} /\ int(3) = {}) THEN {}
                ELSE {NumberValue(found_at(s(1), s(2), IF Len(a) = 3 /\ a[3] # {} THEN int(3) ELSE {}))}

eval_select_scalar_expr(e, n) ==
    LET value[x \in Inside(e)] ==
          CASE x.kind = "literal" -> {TextValue(x.value)}
            [] x.kind = "number" -> {NumberValue(x.int)}
            [] x.kind \in {"null", "self"} -> {}
            [] x.kind = "operand" -> select_operand(x, n)
            [] x.kind = "call" ->
                  LET a == [k \in DOMAIN x.args |-> value[x.args[k]]]
                  IN  IF x.fn \notin NodeFunctions THEN SelectCall(x.fn, a)
                      ELSE IF Applies(x.args[1], a[1], n) THEN node_function(x.fn, a, n)
                      ELSE {}
    IN  value[e]
----------------------------------------------------------------------------
(* Rows. *)

\* The nodes that PROJECT and FLATTEN make rows of: not those that were selected,
\* but those of the base tag that pass, in the order of the query, up to its limit.
BaseNodes(q, Passes(_)) ==
    Truncated(q, Sorted(q, {n \in Node : (q.tag = "document" \/ nodes[n].tag = q.tag) /\ Passes(n)}))

ResultRow(n, computed) ==
    [builtin |-> [node_id |-> n, tag |-> nodes[n].tag, text |-> text_of(n),
                  inner_html |-> Written(Inner(n)), sibling_pos |-> SiblingPos(n),
                  max_depth |-> max_depth[n], doc_order |-> Max(number_of(n, "doc_order"))],
     computed |-> computed, attributes |-> nodes[n].attributes]

\* A value that is missing leaves the name as it is.
Bound(bindings, name, value) == [x \in {name : v \in value} |-> The(value)] @@ bindings

\* The columns from left to right: each sees those before it.
Bind(columns, Of(_, _)) == FoldLeft(LAMBDA b, c : Bound(b, c.name, Of(c, b)), <<>>, columns)

ProjectRows(q) ==
    LET found == BaseNodes(q, LAMBDA n : \A w \in q.where : eval_expr[w][n])
    IN  [k \in DOMAIN found |->
            ResultRow(found[k], Bind(q.columns, LAMBDA c, b : eval_flatten_extract_expr(c.expr, found[k], b)))]

\* INNER_HTML with a depth, with MAX_DEPTH, or the field inner_html without any.
MAX_DEPTH == -1

inner_html_depth(q, n) == IF q.inner_html = {MAX_DEPTH} THEN {max_depth[n]} ELSE q.inner_html

\* The same for SELECT: TEXT(x) reads the text in inline elements only, INNER_HTML
\* cuts at its depth.
SelectRow(q, n, computed) ==
    LET row == ResultRow(n, computed)
        text == IF q.text_function THEN Written(extract_direct_text(Inner(n))) ELSE row.builtin.text
        inner == UNION {{Written(limit_inner_html(Inner(n), d))} : d \in inner_html_depth(q, n)}
    IN  [row EXCEPT !.builtin.text = text,
                    !.builtin.inner_html = IF inner = {} THEN @ ELSE The(inner)]

\* SELECT: a column is an expression of SELECT or one of PROJECT.
SelectRows(q) ==
    LET found == execute_query(q)
        Column(c, n, b) == IF c.project THEN eval_flatten_extract_expr(c.expr, n, b)
                           ELSE {projection_to_string(v) : v \in eval_select_scalar_expr(c.expr, n)}
    IN  [k \in DOMAIN found |->
            SelectRow(q, found[k], Bind(q.columns, LAMBDA c, b : Column(c, found[k], b)))]

\* collect_descendant_tag_filter: the comparisons of descendants' tags and attributes.
Descending(e) == e.kind = "compare" /\ e.axis = "descendant" /\ e.field \notin NumberFields

descendant_tests[e \in Exprs] ==
    IF e.kind \in {"and", "or"} THEN descendant_tests[e.left] \cup descendant_tests[e.right]
    ELSE {d \in {e} : Descending(d)}

\* eval_expr_flatten_base: a comparison of descendants is left to the test of each.
eval_expr_flatten_base[e \in Exprs, n \in Nat] ==
    CASE e.kind = "compare" -> e.axis = "descendant" \/ CompareHolds(e, n)
      [] e.kind = "exists" -> eval_expr[e][n]
      [] e.kind = "and" -> eval_expr_flatten_base[e.left, n] /\ eval_expr_flatten_base[e.right, n]
      [] e.kind = "or" -> eval_expr_flatten_base[e.left, n] \/ eval_expr_flatten_base[e.right, n]

\* A mutation: the first value of an IN decides.
match_descendant_first(m, e) ==
    IF e.field = "tag" THEN e.op \in {"=", "in"} /\ <<nodes[m].tag>> = e.values[1].string
    ELSE \E v \in attribute_of(m, e.field) :
            match_attribute(e.field, v, e.op, <<e.values[1]>>)

match_descendant_predicate(m, e) ==
    LET wanted == IF e.op = "in" THEN Strings(e.values) ELSE {e.values[1].string}
    IN  /\ e.op \in {"=", "in"}
        /\ IF e.field = "tag" THEN <<nodes[m].tag>> \in wanted
           ELSE \E v \in attribute_of(m, e.field) :
                   IF e.field = "class" THEN Words(v) \cap wanted # {} ELSE v.string \in wanted

\* The texts below a node that pass: at any depth, those that are not empty.
flatten_values(q, n) ==
    LET all == IF q.depth = {} THEN collect_descendants_any_depth(n)
               ELSE collect_descendants_at_depth(n, Max(q.depth))
        tested == SelectSeq(all, LAMBDA m : \A w \in q.where : \A e \in descendant_tests[w] :
                                              match_descendant_predicate(m, e))
        Slice(m) == FirstSolid(<<normalize_flatten_text(direct_text(m)),
                                 normalize_flatten_text(Written(extract_direct_text(Inner(m))))>>)
        slices == [k \in DOMAIN tested |-> Slice(tested[k])]
    IN  IF q.depth = {} THEN SelectSeq(slices, LAMBDA s : s # <<>>) ELSE slices

FlattenRows(q) ==
    LET found == BaseNodes(q, LAMBDA n : \A w \in q.where : eval_expr_flatten_base[w, n])
        Fields(values) == [a \in {q.aliases[k] : k \in DOMAIN q.aliases \cap DOMAIN values} |->
                              values[CHOOSE k \in DOMAIN q.aliases : q.aliases[k] = a]]
    IN  [k \in DOMAIN found |-> ResultRow(found[k], Fields(flatten_values(q, found[k])))]
=============================================================================
