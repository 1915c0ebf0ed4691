----------------------------- MODULE MCRelations ------------------------------
(***************************************************************************)
(* An instance of the relation runtime for TLC: five documents and one      *)
(* statement for each way that a query, a source and a join can go.         *)
(***************************************************************************)
EXTENDS RelationProperties

MCTag == {"ul", "li", "p"}
MCWords == <<"", "0", "1", "10", "2", "3", "5x", "9", "a", "li", "p", "ul", "x">>
MCRank == [w \in ToSet(MCWords) |-> CHOOSE k \in DOMAIN MCWords : MCWords[k] = w]

Numeral(n) == [number |-> {n}, string |-> <<ToString(n)>>]
Padded(n) == [number |-> {n}, string |-> <<"0", ToString(n)>>]

\* The attribute ref points at another element's number, in its own spelling.
None_ == [a \in {} |-> Word("x")]
N(v) == [a \in {"n"} |-> v]
NRef(v, r) == [a \in {"n", "ref"} |-> IF a = "n" THEN v ELSE r]
Ref(r) == [a \in {"ref"} |-> r]
MCAttributes == {None_, N(Numeral(1)), N(Word("x")), NRef(Numeral(2), Padded(1)), NRef(Numeral(3), Word("x")),
                 NRef(Numeral(1), Numeral(1)), Ref(Numeral(9)), Ref(Numeral(10)), Ref(Word("5x"))}

Open(t, a) == [kind |-> "open", tag |-> t, attributes |-> a, self_close |-> FALSE]
Leaf(t, a) == [kind |-> "open", tag |-> t, attributes |-> a, self_close |-> TRUE]
Close(t) == [kind |-> "close", tag |-> t]

MCHtml ==
    {<<>>,
     <<Leaf("p", None_)>>,
     <<Open("ul", N(Numeral(1))), Leaf("li", NRef(Numeral(2), Padded(1))), Leaf("p", N(Word("x"))), Close("ul")>>,
     <<Open("ul", N(Word("x"))), Open("li", NRef(Numeral(1), Numeral(1))), Leaf("p", NRef(Numeral(3), Word("x"))),
       Close("li"), Leaf("li", None_), Close("ul")>>,
     \* 9 is less than 10, 10 than 5x, and 5x than 9
     <<Leaf("li", Ref(Numeral(9))), Leaf("li", Ref(Word("5x"))), Leaf("li", Ref(Numeral(10)))>>}
----------------------------------------------------------------------------
MCAlias == {"a", "b", "c", "x", "y", "doc"}
MCVisits == <<"y", "b", "doc", "a", "x", "c">>

On(alias, field) == [axis |-> "self", field |-> field, qualifier |-> {alias}]
Bare(field) == [axis |-> "self", field |-> field, qualifier |-> {}]
Above(alias, field) == [axis |-> "parent", field |-> field, qualifier |-> {alias}]

Lit(l, op, values) ==
    [kind |-> "compare", op |-> op, axis |-> l.axis, field |-> l.field, qualifier |-> l.qualifier,
     values |-> values, operands |-> <<>>]
Cmp(l, op, operands) ==
    [kind |-> "compare", op |-> op, axis |-> l.axis, field |-> l.field, qualifier |-> l.qualifier,
     values |-> <<>>, operands |-> operands]
Both(l, r) == [kind |-> "and", left |-> l, right |-> r]
Either(l, r) == [kind |-> "or", left |-> l, right |-> r]

Doc(alias) == [kind |-> "document", name |-> "", alias |-> alias, query |-> {}]
Cte(name, alias) == [kind |-> "cte", name |-> name, alias |-> alias, query |-> {}]
Sub(q, alias) == [kind |-> "derived", name |-> "", alias |-> {alias}, query |-> {q}]

JoinOf(type, source, on) == [type |-> type, lateral |-> FALSE, source |-> source, on |-> on]
Lateral(source) == [type |-> "cross", lateral |-> TRUE, source |-> source, on |-> {}]

Ask(select, source) ==
    [with |-> <<>>, select |-> {select}, source |-> source, joins |-> <<>>, where |-> {}, project |-> <<>>,
     order_by |-> <<>>, limit |-> {}, aggregate |-> "none"]

By(alias, field, descending) == [alias |-> alias, field |-> field, descending |-> descending]
Column(name, operand) ==
    [kind |-> "expr", name |-> name,
     expr |-> [kind |-> "operand", axis |-> operand.axis, field |-> operand.field, qualifier |-> operand.qualifier]]
FirstOf(name, operands) == [kind |-> "expr", name |-> name, expr |-> [kind |-> "coalesce", args |-> operands]]
Field(name, tag) == [kind |-> "field", name |-> name, tag |-> tag]
----------------------------------------------------------------------------
LiRows == Lit(On("a", "tag"), "=", <<Word("li")>>)
BareLi == Lit(Bare("tag"), "=", <<Word("li")>>)
RefsN == Cmp(On("a", "ref"), "=", <<On("b", "n")>>)
ChildOf == Cmp(On("b", "parent_id"), "=", <<On("a", "node_id")>>)
SameParent == Cmp(On("b", "parent_id"), "=", <<On("a", "parent_id")>>)
BIsLi == Lit(On("b", "tag"), "=", <<Word("li")>>)
CIsP == Lit(On("c", "tag"), "=", <<Word("p")>>)
CChildOf == Cmp(On("c", "parent_id"), "=", <<On("a", "node_id")>>)
Later == Cmp(On("b", "node_id"), ">", <<On("a", "node_id")>>)
NoMatch == Lit(On("b", "node_id"), "is null", <<>>)
TwoTags == Lit(Bare("tag"), "in", <<Word("li"), Word("p")>>)
FirstTwo == Lit(Bare("node_id"), "<=", <<Numeral(2)>>)
Under == Lit(Above("a", "tag"), "=", <<Word("ul")>>)
SecondDown == Lit(Bare("parent_id"), "=", <<Numeral(1)>>)
XRow == Cmp(On("b", "parent_id"), "=", <<On("a", "node_id")>>)
Unknown == Lit(On("y", "tag"), "=", <<Word("li")>>)
SameTag == Cmp(On("a", "tag"), "=", <<On("b", "tag")>>)
YKey == Cmp(On("y", "k"), "=", <<On("a", "node_id")>>)
YRef == Cmp(On("y", "ref"), "=", <<On("a", "n")>>)
YOne == Lit(On("y", "k"), ">=", <<Numeral(1)>>)
HasChild == [kind |-> "exists", axis |-> "child", where |-> {}]

\* What a WHERE asks of the rows of one document.
RefIs(op) == Lit(Bare("ref"), op, IF op \in {"is null", "is not null"} THEN <<>> ELSE <<Numeral(9), Word("x")>>)
NotLi == Lit(Bare("tag"), "<>", <<Word("li")>>)
InList == Lit([axis |-> "parent", field |-> "tag", qualifier |-> {}], "=", <<Word("ul")>>)
Deep == Lit(Bare("max_depth"), ">=", <<Numeral(1)>>)
Wheres == {TwoTags, FirstTwo, NotLi, InList, Deep, RefIs("="), RefIs("<>"), RefIs("in"), RefIs("is null"),
           RefIs("is not null"), Either(SecondDown, BareLi), Both(NotLi, Either(RefIs("="), FirstTwo)),
           Either(Both(InList, RefIs("is null")), Both(Deep, NotLi))}

Tops == Wheres \cup {LiRows, BareLi, RefsN, ChildOf, SameParent, TwoTags, FirstTwo, Under, SecondDown, Unknown, NoMatch,
         SameTag, YKey, HasChild, Later,
         Both(ChildOf, BIsLi), Both(CChildOf, CIsP), Both(ChildOf, Later), Both(Both(ChildOf, BIsLi), Later),
         Either(ChildOf, Later), Either(SecondDown, BareLi), Both(BareLi, SecondDown), Both(YKey, YRef),
         Both(YKey, YOne), Both(YRef, YOne)}
Parts(e) == IF e.kind \in {"and", "or"} THEN {e.left, e.right} ELSE {}
MCExprs == Tops \cup UNION {Parts(e) : e \in Tops} \cup UNION {UNION {Parts(f) : f \in Parts(e)} : e \in Tops}
----------------------------------------------------------------------------
Items == [Ask("*", Doc({"doc"})) EXCEPT !.where = {BareLi}, !.project = <<Column("k", On("doc", "node_id")), Field("ref", "doc")>>]
Firsts == [Ask("*", Doc({"doc"})) EXCEPT !.where = {FirstTwo}]
Named == [Ask("*", Doc({"a"})) EXCEPT
            !.project = <<Column("k", On("a", "node_id")), Column("ref", On("a", "ref"))>>,
            !.where = {LiRows}, !.order_by = <<By({"a"}, "node_id", TRUE)>>]
Count == [Ask("*", Doc({"doc"})) EXCEPT !.aggregate = "count", !.where = {TwoTags}]

Pairs == [Ask("a", Doc({"a"})) EXCEPT !.joins = <<JoinOf("inner", Doc({"b"}), {ChildOf})>>]

\* A CTE of this name inside a derived table, of other rows each time.
With(q, statement) == [statement EXCEPT !.with = <<[name |-> "y", query |-> q]>>]
Inner(q) == With(q, [Ask("a", Doc({"a"})) EXCEPT !.joins = <<JoinOf("inner", Cte("y", {"y"}), {Both(YKey, YOne)})>>])

\* Statements that only a WITH, which they do not use, keeps from the executor: under
\* each WHERE ordered in each way and cut, counted, and of one tag.
ByTag == <<By({}, "tag", FALSE), By({}, "max_depth", TRUE)>>
Orders == {ByTag} \cup {<<By({}, f, descending)>> : f \in {"node_id", "tag", "max_depth", "doc_order"}, descending \in BOOLEAN}
Alike ==
    LET Everything(where) == [Ask("*", Doc({"doc"})) EXCEPT !.where = where]
        Lis(where) == [Ask("li", Doc({"doc"})) EXCEPT !.where = where, !.order_by = ByTag]
    IN  {With(Firsts, q) : q \in UNION {
            {[Everything(where) EXCEPT !.order_by = order, !.limit = {2}] : order \in Orders}
            \cup {[Everything(where) EXCEPT !.aggregate = "count", !.limit = limit] : limit \in {{}, {1}}}
            \cup {Lis(where)} : where \in {{}} \cup {{w} : w \in Wheres}}}

MCStatements ==
    Alike \cup
    {\* one source
     With(Items, [Ask("*", Doc({"doc"})) EXCEPT !.where = {Either(SecondDown, BareLi)}]),
     With(Items, [Ask("li", Doc({"doc"})) EXCEPT !.where = {TwoTags}, !.order_by = <<By({}, "max_depth", TRUE)>>, !.limit = {1}]),
     With(Items, [Ask("*", Doc({"doc"})) EXCEPT !.where = {Both(BareLi, SecondDown)}]),
     [Ask("a", Doc({"a"})) EXCEPT !.order_by = <<By({"a"}, "tag", TRUE), By({"a"}, "node_id", FALSE)>>, !.limit = {2}],
     \* joins: by hash, by index, by loop
     [Pairs EXCEPT !.joins = <<JoinOf("left", Doc({"b"}), {RefsN})>>, !.where = {NoMatch}],
     [Pairs EXCEPT !.joins = <<JoinOf("inner", Doc({"b"}), {SameParent})>>, !.order_by = <<By({"b"}, "tag", FALSE), By({}, "node_id", TRUE)>>],
     [Pairs EXCEPT !.joins = <<JoinOf("left", Doc({"b"}), {Both(ChildOf, BIsLi)})>>,
                   !.project = <<Column("k", On("b", "node_id")), FirstOf("best", <<On("b", "n"), On("a", "n")>>)>>],
     [Pairs EXCEPT !.joins = <<JoinOf("left", Doc({"b"}), {Both(Both(ChildOf, BIsLi), Later)})>>, !.limit = {3}],
     [Pairs EXCEPT !.joins = <<JoinOf("left", Doc({"b"}), {Either(ChildOf, Later)})>>, !.where = {Under}],
     [Pairs EXCEPT !.joins = <<JoinOf("cross", Doc({"b"}), {}), JoinOf("inner", Doc({"c"}), {Both(CChildOf, CIsP)})>>,
                   !.aggregate = "count", !.where = {LiRows}],
     [Pairs EXCEPT !.joins = <<JoinOf("cross", Doc({"a"}), {})>>],
     [Pairs EXCEPT !.where = {Unknown}],
     \* CTEs: under a name of their own, twice, after another, unknown
     With(Items, [Ask("x", Cte("y", {"x"})) EXCEPT !.joins = <<JoinOf("left", Cte("y", {"y"}), {YKey})>>,
                    !.project = <<Field("k", "x"), Field("ref", "y")>>]),
     [Ask("a", Doc({"a"})) EXCEPT !.with = <<[name |-> "y", query |-> Items], [name |-> "x", query |-> Firsts]>>,
                    !.joins = <<JoinOf("inner", Cte("y", {"y"}), {Both(YKey, YOne)}), JoinOf("cross", Cte("x", {}), {})>>],
     With(Count, Ask("*", Cte("y", {"y"}))),
     With(Items, [Ask("*", Cte("y", {"y"})) EXCEPT !.order_by = <<By({}, "ref", FALSE)>>]),
     [Ask("*", Cte("y", {"y"})) EXCEPT !.joins = <<>>],
     \* derived tables: with a CTE each, of the outer row, of the executor
     [Ask("x", Sub(Inner(Items), "x")) EXCEPT !.joins = <<JoinOf("left", Sub(Inner(Named), "c"), {})>>],
     [Ask("a", Doc({"a"})) EXCEPT !.joins = <<Lateral(Sub([Ask("b", Doc({"b"})) EXCEPT !.where = {XRow},
                    !.project = <<Column("k", On("b", "node_id"))>>, !.limit = {1}], "y"))>>, !.where = {LiRows}],
     [Ask("a", Doc({"a"})) EXCEPT !.joins = <<Lateral(Sub(Ask("a", Doc({"a"})), "y"))>>],
     [Ask("x", Sub(Count, "x")) EXCEPT !.joins = <<JoinOf("inner", Sub(Firsts, "y"), {YKey})>>]}

\* Two derived tables looked up on the same columns, for the run that disagrees
\* with the code's own words.
IndexStatements ==
    {[Ask("a", Doc({"a"})) EXCEPT !.joins =
        <<JoinOf("left", Sub(Items, "y"), {Both(YKey, YOne)}),
          JoinOf("left", Sub(Firsts, "b"), {Both(ChildOf, BIsLi)}),
          JoinOf("left", Sub(Ask("p", Doc({"doc"})), "c"), {Both(CChildOf, CIsP)})>>]}

MCSubqueries ==
    LET Asked(q) == {q.with[k].query : k \in DOMAIN q.with} \cup UNION {s.query : s \in SourcesOf(q)}
        all == MCStatements \cup IndexStatements
        once == UNION {Asked(q) : q \in all}
    IN  once \cup UNION {Asked(q) : q \in once}
=============================================================================
