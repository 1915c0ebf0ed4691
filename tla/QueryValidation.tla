--------------------------- MODULE QueryValidation ---------------------------
(***************************************************************************)
(* What is asked of a parsed query before it is executed                   *)
(* (src/core/src/runtime/engine/query_validation_rules.cpp,                *)
(* query_validation_entry.cpp).  Each validate_... is the condition under  *)
(* which the function of its name does not throw.                          *)
(***************************************************************************)
EXTENDS ParserQuery

CONSTANTS MaxLimit,      \* kMaxLimit
          LongPatterns   \* the texts longer than kMaxRegexLength

RECURSIVE Nodes(_), Selectors(_)

(* The comparisons and EXISTS tests of a predicate. *)
Nodes(e) ==
  CASE e.kind = "Compare" -> {e}
    [] e.kind = "Exists" -> {e} \cup UNION {Nodes(e.where[k]) : k \in DOMAIN e.where}
    [] e.kind = "Binary" -> Nodes(e.left) \cup Nodes(e.right)

(* The expressions inside a PROJECT expression, itself included. *)
Selectors(x) ==
  {x} \cup
  CASE x.kind \in {"Call", "Coalesce"} -> UNION {Selectors(x.args[k]) : k \in DOMAIN x.args}
    [] x.kind = "Case" -> UNION ({Selectors(x.whens[k].then) : k \in DOMAIN x.whens}
                                 \cup {Selectors(x.else[k]) : k \in DOMAIN x.else})
    [] OTHER -> {}

(* The predicates inside one: filters of selectors, conditions of CASE. *)
Filters(x) ==
  CASE x.kind \in {"Text", "Attr", "DirectText"} -> Range(x.where)
    [] x.kind = "Case" -> {x.whens[k].when : k \in DOMAIN x.whens}
    [] OTHER -> {}

Items(query) == Range(query.items)
Projections(query) ==
  UNION {Range(item.project) \cup {item.extract[k].expr : k \in DOMAIN item.extract}
         : item \in Items(query)}

(* What the visitors of predicates and of PROJECT expressions are taken to. *)
VisitedSelectors(query) == UNION {Selectors(x) : x \in Projections(query)}
VisitedNodes(query) ==
  UNION {Nodes(e) : e \in Range(query.where) \cup UNION {Filters(x) : x \in VisitedSelectors(query)}}
VisitedCompares(query) == {n \in VisitedNodes(query) : n.kind = "Compare"}

(* rhs.values: the literals compared with, unless something else stands among them. *)
Literal(s) == s.kind \in {"Str", "Num"}
Values(cmp) == IF \A k \in DOMAIN cmp.rhs : Literal(cmp.rhs[k]) THEN cmp.rhs ELSE <<>>

(***************************************************************************)
(* Projections.                                                            *)
(***************************************************************************)
is_projection_query(query) ==
  \E item \in Items(query) :
    \/ item.flatten # <<>> \/ item.extract # <<>> \/ item.field # <<>>
    \/ ExprProjection(item) \/ item.aggregate # "None"

is_wildcard_only(query) == Len(query.items) = 1 /\ query.items[1].tag = "*"
is_summarize_query(query) == Len(query.items) = 1 /\ query.items[1].aggregate = "Summarize"

(* The scan for aggregates stops at the first one. *)
Scanned(query) ==
  SubSeq(query.items, 1, Min({k \in DOMAIN query.items : query.items[k].aggregate # "None"}
                             \cup {Len(query.items)}))
Flattening(item) == item.flatten # <<>> \/ item.extract # <<>>
FlattenItems(query) == SelectSeq(Scanned(query), Flattening)
Aggregates(query) == {item \in Items(query) : item.aggregate # "None"}

(* A predicate that asks more of a row than its own tag. *)
has_non_tag_self_predicate(e) ==
  \E n \in Nodes(e) :
    IF n.kind = "Exists" THEN n.axis # "self"
    ELSE ~ (n.op # "HasDirectText" /\ n.lhs.kind = "Operand"
            /\ n.lhs.axis = "self" /\ n.lhs.field = "Tag")

RECURSIVE scan_descendant_filter(_)
(* The comparisons of descendants outside of EXISTS, and whether an OR stands over one. *)
scan_descendant_filter(e) ==
  CASE e.kind = "Compare" ->
         [of |-> IF e.lhs.kind = "Operand" /\ e.lhs.axis = "descendant" THEN {e} ELSE {}, or |-> FALSE]
    [] e.kind = "Exists" -> [of |-> {}, or |-> FALSE]
    [] e.kind = "Binary" ->
         LET l == scan_descendant_filter(e.left)
             r == scan_descendant_filter(e.right)
         IN [of |-> l.of \cup r.of,
             or |-> l.or \/ r.or \/ (e.op = "Or" /\ l.of \cup r.of # {})]

DescendantFilter(cmp) ==
  /\ Values(cmp) # <<>>
  /\ CASE cmp.lhs.field = "Tag" -> cmp.op \in {"Eq", "In"}
       [] cmp.lhs.field = "Attribute" -> cmp.op \in {"Eq", "In", "Contains", "ContainsAll", "ContainsAny"}
       [] OTHER -> FALSE

FlattenFilter(query) ==
  (\E item \in Range(Scanned(query)) : item.flatten # <<>>)
    => \A e \in Range(query.where) :
         /\ \A cmp \in scan_descendant_filter(e).of : DescendantFilter(cmp)
         /\ ~ scan_descendant_filter(e).or

ExcludeFields == {"node_id", "tag", "attributes", "parent_id", "max_depth", "doc_order", "source_uri"}

ValidWholeRows(query) ==
  /\ query.exclude # <<>> => is_wildcard_only(query) /\ Range(query.exclude) \subseteq ExcludeFields
  /\ ~ query.to.to_list
  /\ (\E item \in Items(query) : item.tag = "*") => Len(query.items) = 1

ValidAggregate(query) ==
  LET t == query.items[1].tfidf IN
  /\ Len(query.items) = 1 /\ ~ query.to.to_list
  /\ query.items[1].aggregate = "Tfidf" => (t.top # 0 /\ (t.max = 0 \/ t.max >= t.min))

(* The aliases of the one flattening item, or the items: a list has one column. *)
ListColumns(query) ==
  LET f == FlattenItems(query) IN
  query.to.to_list =>
    /\ Len(query.items) = 1
    /\ f # <<>> => Len(f[1].flatten) + Len(f[1].extract) = 1

(* Whole texts of nodes are asked for behind a filter only. *)
NodeTexts(query) ==
  (\E item \in Items(query) : item.text \/ item.html # "no")
    => \E e \in Range(query.where) : has_non_tag_self_predicate(e)

(* Mutant: the first item is held for a column even where it is an expression. *)
Columns_First(query) == {item \in Items(query) : ~ ExprProjection(item)} \cup {query.items[1]}

(* The columns read from the row's tag, and what INNER_HTML is limited by. *)
Columns(query) == {item \in Items(query) : ~ ExprProjection(item)}
FieldColumns(query) == {item \in Columns(query) : ~ Flattening(item)}
HtmlColumns(query) == {item \in FieldColumns(query) : item.field = <<"inner_html">>}

ValidColumns(query) ==
  /\ \A item \in FieldColumns(query) : item.field # <<>>
  /\ \A x, y \in Columns(query) : x.tag = y.tag
  /\ \A item \in FieldColumns(query) :
       /\ item.field = <<"text">> => item.text
       /\ item.field = <<"inner_html">> => item.html # "no"
       /\ item.trim => item.field \notin {<<"attributes">>, <<"sibling_pos">>}
  /\ \A x, y \in HtmlColumns(query) : x.html = y.html /\ x.auto = y.auto /\ x.depth = y.depth

validate_projection(query) ==
  /\ Len(FlattenItems(query)) <= 1
  /\ (Aggregates(query) # {} /\ query.order # <<>>)
       => query.items[Len(Scanned(query))].aggregate = "Summarize"
  /\ ~ (FlattenItems(query) # <<>> /\ Aggregates(query) # {})
  /\ FlattenFilter(query)
  /\ IF ~ is_projection_query(query) THEN ValidWholeRows(query)
     ELSE /\ ~ query.to.to_table
          /\ IF Aggregates(query) # {} THEN ValidAggregate(query)
             ELSE ListColumns(query) /\ NodeTexts(query) /\ ValidColumns(query)

(***************************************************************************)
(* Qualifiers.                                                             *)
(***************************************************************************)
(* The one tag that all items name, which a qualifier may repeat. *)
SoleTag(query) ==
  LET tags == {Fold(item.tag) : item \in Items(query)} IN
  IF Cardinality(tags) = 1 /\ tags \cap {"", "*"} = {} THEN tags ELSE {}

ActiveAlias(query) == {Fold(a) : a \in Range(query.source.alias)}

KnownQualifier(query, name) ==
  \/ name \in {"self"} \cup ActiveAlias(query)
  \/ query.source.kind = "Document" /\ name = "document" /\ ActiveAlias(query) = {"doc"}
  \/ /\ name \in SoleTag(query)
     /\ ~ (query.source.kind = "Document" /\ name = "doc" /\ ActiveAlias(query) # {"doc"})

(* The operands whose qualifiers are looked at: left-hand sides, and operands of PROJECT. *)
VisitedOperands(query) ==
  {cmp.lhs : cmp \in {c \in VisitedCompares(query) : c.lhs.kind = "Operand"}}
  \cup {x.operand : x \in {y \in VisitedSelectors(query) : y.kind = "OperandRef"}}

validate_qualifiers(query) ==
  /\ \A o \in VisitedOperands(query) : \A q \in Range(o.qualifier) : KnownQualifier(query, Fold(q))
  /\ (query.source.kind = "Document" /\ ActiveAlias(query) # {"doc"})
       => \A item \in Items(query) : item.field # <<>> => Fold(item.tag) # "doc"

(***************************************************************************)
(* Predicates, order, limits and output.                                   *)
(***************************************************************************)
ValidCompare(cmp) ==
  LET lhs == IF cmp.lhs.kind = "Operand" THEN cmp.lhs.field ELSE "none" IN
  /\ cmp.op \in {"Contains", "ContainsAll", "ContainsAny"} => lhs = "Attribute"
  /\ cmp.op = "HasDirectText" => (lhs = "Tag" /\ cmp.lhs.axis = "self" /\ cmp.lhs.attribute # "")
  /\ lhs = "AttributesMap" => cmp.op \in {"IsNull", "IsNotNull"}
  /\ cmp.op = "Regex" => \A k \in DOMAIN Values(cmp) : Values(cmp)[k] \notin {Str(t) : t \in LongPatterns}

validate_predicates(query) == \A cmp \in VisitedCompares(query) : ValidCompare(cmp)

validate_order_by(query) ==
  \A k \in DOMAIN query.order :
    query.order[k].field \in
      IF is_summarize_query(query) THEN {"tag", "count"}
      ELSE {"node_id", "tag", "text", "parent_id", "sibling_pos", "max_depth", "doc_order"}

validate_limits(query) == \A n \in Range(query.limit) : n <= MaxLimit

validate_to_table(query) ==
  query.to.to_table =>
    /\ Len(query.items) = 1
    /\ query.items[1].aggregate = "None" /\ query.items[1].field = <<>>
    /\ Fold(query.items[1].tag) = "table"

validate_export_sink(query) ==
  \A sink \in Range(query.to.export) : sink.kind \in {"csv", "parquet"} => sink.path # ""

(***************************************************************************)
(* The entry.  Queries for the relation runtime have their names resolved  *)
(* when they run, and are checked for little beforehand.                   *)
(***************************************************************************)
relation_runtime(query) ==
  query.with # <<>> \/ query.joins # <<>> \/ query.source.kind \in {"CteRef", "DerivedSubquery"}

validate_query_for_execution(query) ==
  CASE query.kind # "select" -> TRUE
    [] query.kind = "select" /\ relation_runtime(query) ->
         ~ query.to.to_table /\ validate_limits(query) /\ validate_predicates(query)
    [] OTHER ->
         /\ validate_projection(query) /\ validate_order_by(query) /\ validate_to_table(query)
         /\ validate_export_sink(query) /\ validate_qualifiers(query)
         /\ validate_predicates(query) /\ validate_limits(query)
=============================================================================
