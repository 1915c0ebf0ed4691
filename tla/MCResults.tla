------------------------------- MODULE MCResults -------------------------------
(***************************************************************************)
(* An instance of the way from a page to a reply for TLC.  There is a kind  *)
(* of page for each question: the second reading of a text, the rows of a  *)
(* table, its shapes, the rows of PROJECT and FLATTEN, and the functions;  *)
(* and two without a text, whose answers are given: names and replies.     *)
(***************************************************************************)
EXTENDS ResultProperties

MCTag == {"div", "p", "b", "br", "frame", "script", "table", "tr", "td", "th"}
MCVoidTags == {"br", "frame"}
MCRawTags == {"script"}
MCInlineTags == {"b", "br"}
MCEmptyTags == {"br"}
MCNumerals == -99..99
MCSmall == [c \in {"A", "B"} |-> IF c = "A" THEN "a" ELSE "b"]
MCKeywords == {"group"}

Letters_ == <<" ", "+", "-", "0", "1", "2", "3", "4", "5", "6", "7", "8", "9", "A", "B", "a", "b",
              "br", "div", "frame", "p", "script", "table", "td", "th", "tr", "x", "y", "A0", "C2">>
MCRank == [w \in ToSet(Letters_) |-> CHOOSE k \in DOMAIN Letters_ : Letters_[k] = w]

Numeral(n) == [number |-> {n}, string |-> <<ToString(n)>>]
Plain == [a \in {} |-> Word("x")]
Five == [a \in {"n", "class"} |->
            IF a = "n" THEN Numeral(5) ELSE [number |-> {}, string |-> <<"x", "y">>]]
Empty == [a \in {"class"} |-> [number |-> {}, string |-> <<>>]]
MCAttributes == {Plain, Five, Empty}
----------------------------------------------------------------------------
(* Pieces: a text comes with what it says. *)

Open(t, a) == [kind |-> "open", tag |-> t, attributes |-> a, self_close |-> FALSE]
Closed_(t, a) == [Open(t, a) EXCEPT !.self_close = TRUE]
Close(t) == [kind |-> "close", tag |-> t]
Saying(words) == [kind |-> "text", words |-> words]
Comment == [kind |-> "comment"]

Around(t, s) == <<Open(t, Plain)>> \o s \o <<Close(t)>>

\* Text that follows text is one piece.
Pages_of(of, texts) ==
    {[html |-> [k \in DOMAIN s |-> IF s[k].kind = "text" THEN [kind |-> "text"] ELSE s[k]],
      says |-> [k \in {j \in DOMAIN s : s[j].kind = "text"} |-> s[k].words],
      of |-> of] :
        s \in {t \in texts : \A k \in 1..Len(t) - 1 : {t[k].kind, t[k + 1].kind} # {"text"}}}

T == Saying(<<"a">>)

\* The second reading: every content of three pieces, longer ones of four.
Contents ==
    SeqOf({Open("div", Plain), Open("b", Plain), Open("br", Plain), Open("script", Plain),
           Closed_("p", Plain), Close("div"), Close("script"), T, Comment}, 3)
    \cup SeqOf({Open("div", Plain), Open("b", Plain), Close("div"), T}, 5)

ReadPages == Pages_of("reading", {Around("div", s) : s \in Contents})

\* Rows and cells within each other, closed in any order.
NestedPages ==
    Pages_of("reading", {<<Open("table", Plain)>> \o s :
                            s \in SeqOf({Open("tr", Plain), Open("td", Plain), Open("table", Plain),
                                         Close("td")}, 5)})
----------------------------------------------------------------------------
(* Tables: one or two rows of one or two cells, each with a letter or a     *)
(* blank; up to four rows for STOP_AFTER_EMPTY_ROWS; headers that say a     *)
(* word twice, or two headers that say the same.                            *)

Cell(words) == Around("td", IF words = <<>> THEN <<>> ELSE <<Saying(words)>>)

RowPieces(row) == Around("tr", FlattenSeq([k \in DOMAIN row |-> Cell(row[k])]))

TablePieces(t) == Around("table", FlattenSeq([k \in DOMAIN t |-> RowPieces(t[k])]))

Between_(from, to, set) == UNION {[1..n -> set] : n \in from..to}

CellRows == Between_(1, 2, {<<"a">>, <<" ">>})

Nbsp == <<"C2", "A0">>

Blank_rows == {<<<<"a">>>>, <<<<" ">>>>, <<Nbsp \o Nbsp, Nbsp \o <<"b">>>>, <<<<>>, <<" ">> \o Nbsp>>}

Said(header) == <<header, <<<<"a">>, <<"b">>>>>>

TablePages ==
    Pages_of("table", {TablePieces(t) : t \in Between_(1, 2, CellRows)})
    \cup Pages_of("stop", {TablePieces(t) : t \in Between_(2, 3, Blank_rows) \cup Between_(4, 4, {<<<<"a">>>>, <<<<" ">>>>})})
    \cup Pages_of("table", {TablePieces(Said(h)) :
                               h \in {<<<<"a", " ", "a">>, <<"b">>>>, <<<<"a">>, <<"a">>>>,
                                      <<<<" ", "a">> \o Nbsp \o <<"a">>, <<"a">>>>}})

Options ==
    [has_header : BOOLEAN, trim_empty_rows : BOOLEAN, trim_empty_cols : {"off", "trailing", "all"},
     empty_is : {"blank_or_null", "null_only", "blank_only"}, stop_after_empty_rows : {0},
     format : {"rect", "sparse"}, sparse_shape : {"long", "wide"}, header_normalize : {"on", "off", "unsaid"}]

StopOptions ==
    [has_header : BOOLEAN, trim_empty_rows : BOOLEAN, trim_empty_cols : {"off"},
     empty_is : {"blank_or_null", "null_only", "blank_only"}, stop_after_empty_rows : {1, 2},
     format : {"rect"}, sparse_shape : {"long"}, header_normalize : {"unsaid"}]

Table(options) ==
    [kind |-> "table", select |-> {"table"}, where |-> {}, order_by |-> <<>>, limit |-> {},
     options |-> options, exclude |-> {}]

\* The shape of a sparse answer is read only if the answer is sparse.
TableAsks == {Table(o) : o \in {x \in Options : x.format = "rect" => x.sparse_shape = "long"}}
StopAsks == {Table(o) : o \in StopOptions}
----------------------------------------------------------------------------
(* Rows: one or two elements with something in them.                        *)

Items == {Around("p", <<T>>), <<Open("p", Five), Saying(<<"5">>), Close("p")>>,
          <<Closed_("p", Empty)>>, Around("b", <<Saying(<<" ">>)>>), <<Saying(<<" ", "b">>)>>,
          Around("p", Around("b", <<Saying(<<"a", " ", " ", "b">>)>>))}

Div(items) == Around("div", FlattenSeq(items))

RowPages ==
    Pages_of("rows", {Div(s) : s \in SeqOf(Items, 2)}
                     \cup {Div(s) \o <<Open("div", Five)>> \o t \o <<Close("div")>> :
                             s \in SeqOf(Items, 1), t \in Items})

Compare(op, axis, field, values) ==
    [kind |-> "compare", op |-> op, axis |-> axis, field |-> field,
     values |-> values, operands |-> <<>>]

IsX == Compare("=", "self", "class", <<Word("x")>>)
Leaf == Compare("=", "self", "max_depth", <<Numeral(0)>>)
Second == Compare(">", "self", "sibling_pos", <<Numeral(1)>>)
BelowP == Compare("=", "descendant", "tag", <<Word("p")>>)
BelowPorB == Compare("in", "descendant", "tag", <<Word("b"), Word("p")>>)
BelowX == Compare("in", "descendant", "class", <<Word("z"), Word("x")>>)
BelowFive == Compare("=", "descendant", "n", <<Numeral(5)>>)
HasP == [kind |-> "exists", axis |-> "child", where |-> {Compare("=", "self", "tag", <<Word("p")>>)}]
Both == [kind |-> "and", left |-> BelowPorB, right |-> BelowX]
SecondAnd == [kind |-> "and", left |-> Second, right |-> BelowP]
Either == [kind |-> "or", left |-> BelowX, right |-> HasP]

MCExprs ==
    {IsX, Leaf, Second, BelowP, BelowPorB, BelowX, BelowFive, HasP, Both, SecondAnd, Either}
    \cup HasP.where
----------------------------------------------------------------------------
(* Expressions. *)

Lit(s) == [kind |-> "literal", value |-> s]
Num(n) == [kind |-> "number", int |-> n]
NullE == [kind |-> "null"]
Alias(name) == [kind |-> "alias", name |-> name]
Operand(axis, field) == [kind |-> "operand", axis |-> axis, field |-> field]
Call(fn, args) == [kind |-> "call", fn |-> fn, args |-> args]
Select(kind, tag, attribute, where, index, last, direct) ==
    [kind |-> kind, tag |-> tag, attribute |-> attribute, where |-> where,
     index |-> index, last |-> last, direct |-> direct]
Col(name, expr) == [name |-> name, expr |-> expr, project |-> TRUE]

\* The first, the second and the last of what a selector finds.
Three(kind, tag, attribute, where, direct) ==
    <<Col("first", Select(kind, tag, attribute, where, 1, FALSE, direct)),
      Col("second", Select(kind, tag, attribute, where, 2, FALSE, direct)),
      Col("last", Select(kind, tag, attribute, where, 1, TRUE, direct))>>

TextOf(tag) == Select("text", tag, "", {}, 1, FALSE, FALSE)

Axes == <<"self", "parent", "child", "ancestor", "descendant">>
Fields == <<"tag", "n", "class", "parent_id", "sibling_pos", "max_depth", "doc_order">>

OperandColumns ==
    [k \in 1 .. Len(Axes) * Len(Fields) |->
        LET axis == Axes[1 + ((k - 1) % Len(Axes))]
            field == Fields[1 + ((k - 1) \div Len(Axes))]
        IN  Col(axis \o "." \o field, Operand(axis, field))]

\* An alias for each kind of value: one that may be missing, one that is not, and a
\* name of a name.
AliasColumns ==
    <<Col("a", TextOf("b")), Col("b", Call("COALESCE", <<Alias("a"), Lit(<<" ">>), Lit(<<"x">>)>>)),
      Col("c", Call("CONCAT", <<Alias("b"), Alias("b")>>)), Col("d", Alias("a")),
      Col("e", Call("CONCAT", <<Alias("d"), Lit(<<"y">>)>>))>>

FunctionColumns ==
    <<Col("less", Call("__CMP_LT", <<Operand("child", "n"), Num(6)>>)),
      Col("words", Call("__CMP_GE", <<TextOf("p"), Lit(<<"a", " ", "a">>)>>)),
      Col("same", Call("__CMP_NE", <<TextOf("p"), Lit(<<" ", "0", "5">>)>>)),
      Col("like", Call("__CMP_LIKE", <<TextOf("p"), Lit(<<"_">>)>>)),
      Col("case", [kind |-> "case", when |-> <<IsX, Leaf>>, then |-> <<Lit(<<"x">>), TextOf("div")>>,
                   otherwise |-> {Operand("child", "class")}]),
      Col("text", Operand("descendant", "text")), Col("up", Call("UPPER", <<TextOf("p")>>))>>

Project(where, columns, order_by, limit) ==
    [kind |-> "project", tag |-> "div", where |-> where, columns |-> columns,
     order_by |-> order_by, limit |-> limit, exclude |-> {}]

ProjectAsks ==
    {Project({}, c, <<>>, {}) :
        c \in {OperandColumns, AliasColumns, FunctionColumns}
              \cup {Three("text", tag, "", {}, direct) : tag \in {"p", "b", "div"}, direct \in BOOLEAN}
              \cup {Three("attr", tag, "class", where, FALSE) : tag \in {"p", "div"}, where \in {{}, {Leaf}}}
              \cup {Three("text", "p", "", {IsX}, FALSE)}}
    \cup {Project({Second}, AliasColumns, <<>>, {}),
          Project({HasP}, AliasColumns, <<[field |-> "doc_order", descending |-> TRUE]>>, {1})}

Flatten(depth, where) ==
    [kind |-> "flatten", tag |-> "div", depth |-> depth, aliases |-> <<"one", "two">>,
     where |-> where, order_by |-> <<>>, limit |-> {}]

FlattenAsks ==
    {Flatten(depth, where) :
        depth \in {{}, {0}, {1}, {2}},
        where \in {{}, {BelowP}, {BelowPorB}, {BelowFive}, {Both}, {SecondAnd}, {Either}}}

Selection(select, columns, inner_html, text_function) ==
    [kind |-> "select", select |-> select, where |-> {}, order_by |-> <<>>, limit |-> {},
     columns |-> columns, inner_html |-> inner_html, text_function |-> text_function,
     exclude |-> {"attributes"}]

Scalar(name, expr) == [name |-> name, expr |-> expr, project |-> FALSE]
OfRow(fn, more) == Call(fn, <<[kind |-> "self"]>> \o more)

SelectAsks ==
    {Selection({"div"}, <<>>, {1}, TRUE), Selection({"p", "b"}, <<>>, {}, FALSE),
     Selection({"div", "p"}, OperandColumns, {}, FALSE),
     Selection({"div", "p"},
               <<Scalar("text", OfRow("TEXT", <<>>)), Scalar("direct", OfRow("DIRECT_TEXT", <<>>)),
                 Scalar("class", OfRow("ATTR", <<Lit(<<"class">>)>>)),
                 Scalar("inner", OfRow("RAW_INNER_HTML", <<Num(1)>>)),
                 Scalar("p", Call("TEXT", <<Lit(<<"p">>)>>)),
                 Scalar("n", Call("LENGTH", <<Operand("self", "sibling_pos")>>))>>, {MAX_DEPTH}, FALSE)}

RowAsks == ProjectAsks \cup FlattenAsks \cup SelectAsks
----------------------------------------------------------------------------
(* Functions of literals, each computed by both evaluators.                 *)

Strings_ == {Lit(<<>>), Lit(<<" ">>), Lit(<<"a">>), Lit(<<"A", "b">>), Lit(<<"a", "b", "a">>),
             Lit(<<" ", "b", " ">>), Lit(Nbsp \o <<"b">>), Lit(<<"5">>), NullE}
Short == {Lit(<<>>), Lit(<<"a">>), Lit(<<"a", "b">>), NullE}
Numbers == {Lit(<<"-", "1">>), Num(0), Num(1), Num(2), Num(4), Lit(<<" ", "+", "0", "2">>), Lit(<<"2", " ">>), NullE}

With(fn, args) == {Call(fn, a) : a \in args}

Found(args) == Call("LOCATE", args)

Calls ==
    UNION {With(fn, {<<s>> : s \in Strings_}) : fn \in Unary \cup {"LENGTH"}}
    \cup With("REPLACE", Strings_ \X Short \X Short)
    \cup With("SUBSTRING", (Strings_ \X Numbers) \cup (Strings_ \X Numbers \X Numbers))
    \cup With("POSITION", Short \X Strings_)
    \cup With("LOCATE", (Short \X Strings_) \cup (Short \X Strings_ \X Numbers))
    \cup UNION {With(fn, Strings_ \X (Short \cup {Num(2)})) : fn \in {"CONCAT", "COALESCE"}}
    \cup {Call("COALESCE", <<NullE, Call("LENGTH", <<s>>), Lit(<<"x">>)>>) : s \in Strings_}
    \cup {Call("SUBSTRING", <<s, Found(<<Lit(<<"b">>), s>>), Call("LENGTH", <<s>>)>>) : s \in Strings_}
    \cup {Call("TRIM", <<Call("CONCAT", <<s, Num(1), s>>)>>) : s \in Strings_}
    \cup {Call("COALESCE", <<Call("TRIM", <<s>>), NullE>>) : s \in Strings_}

Of(tag, columns) == Selection({tag}, columns, {}, FALSE)

ScalarAsks == {Of("div", <<Scalar("select", e), Col("project", e)>>) : e \in Calls}

\* LIKE is computed by the second alone.
Patterns == {Lit(s) : s \in Between_(0, 3, {"a", "b", "%", "_"})}
LikeAsks == {Of("div", <<Col("like", Call("__CMP_LIKE", <<Lit(s), p>>))>>) :
                s \in {<<>>, <<"a">>, <<"A", "b">>, <<"%">>, <<"b", "%">>, <<"a", "b", "a">>},
                p \in Patterns}
----------------------------------------------------------------------------
(* Names, and results as the agent may be handed them.                      *)

Raw == {<<"a">>, <<"A">>, <<"a", "-", "b">>, <<"a", "_", "b">>, <<"a", "_", "_", "b">>,
        <<"a", "_", "2">>, <<"a", "_", "_", "2">>, <<"2", "a">>, <<"group">>, <<"_">>, <<" ">>}

NameAsks == {[kind |-> "names", raw |-> raw, mode |-> mode] :
                raw \in Between_(1, 3, Raw), mode \in {"raw", "normalize"}}

Given_rows == BoundedSeq(BoundedSeq({<<"a">>, <<>>}, 2), 2)

ATable(id, r) == [node_id |-> id, rows |-> r, sparse_wide_rows |-> <<>>]

Tables == {<<>>} \cup {<<ATable(7, r)>> : r \in Given_rows}
            \cup {<<ATable(7, r), ATable(9, s)>> : r \in Given_rows, s \in Given_rows}

TableResults == {[Shape EXCEPT !.to_table = TRUE, !.table_has_header = h, !.tables = t] :
                    h \in BOOLEAN, t \in Tables}

\* A computed field of a built-in name is shadowed, and so is an attribute of one.
ARow(n) == [builtin |-> [node_id |-> n, tag |-> <<"a">>],
            computed |-> [price |-> <<"5">>, tag |-> <<"b">>],
            attributes |-> [href |-> Word("x"), price |-> Word("y")]]

RowResults == {[Shape EXCEPT !.to_list = list, !.columns = c, !.rows = [k \in 1..n |-> ARow(k)]] :
                 list \in BOOLEAN, n \in 0..3,
                 c \in {<<>>, <<"price">>, <<"tag", "href", "absent">>}}

GivenAsks == {[kind |-> "given", result |-> r] : r \in TableResults \cup RowResults}
----------------------------------------------------------------------------
NoText(of) == Pages_of(of, {<<>>})
OneDiv(of) == Pages_of(of, {<<Closed_("div", Plain)>>})

MCPages == ReadPages \cup NestedPages \cup TablePages \cup RowPages
             \cup OneDiv("scalars") \cup NoText("names") \cup NoText("given")

MCHtml == {p.html : p \in MCPages}

MCQuestions ==
    [of \in {"reading", "table", "stop", "rows", "scalars", "names", "given"} |->
        CASE of = "reading" -> {} [] of = "table" -> TableAsks [] of = "stop" -> StopAsks
          [] of = "rows" -> RowAsks [] of = "scalars" -> ScalarAsks
          [] of = "names" -> NameAsks [] of = "given" -> GivenAsks]

MCLimits ==
    [of \in DOMAIN MCQuestions |-> IF of = "given" THEN {Null, 0, 1, 2} ELSE {Null}]

\* For the run that disagrees with the documentation.
LikePages == OneDiv("like")
LikeHtml == {p.html : p \in LikePages}
LikeQuestions == [of \in {"like"} |-> LikeAsks]
LikeLimits == [of \in {"like"} |-> {Null}]
=============================================================================
