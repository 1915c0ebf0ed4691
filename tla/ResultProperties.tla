--------------------------- MODULE ResultProperties ---------------------------
(***************************************************************************)
(* What the values of a result may be relied on for.                       *)
(***************************************************************************)
EXTENDS Results

Asked(kind) == phase = "answered" /\ query.kind = kind

Sequence(s) == s \in Seq(ToSet(s))

\* A result is made of sequences, its tables of texts, and what a row has computed are
\* texts, each under the name of a column; the reply is a table.
ResultTypeOK ==
    /\ \A kind \in {"project", "flatten", "select"} : Asked(kind) =>
          \A k \in DOMAIN rows :
              /\ DOMAIN rows[k].computed \subseteq ToSet(result.columns)
              /\ \A x \in DOMAIN rows[k].computed : rows[k].computed[x] \in Seq(STRING)
    /\ Sequence(result.columns) /\ Sequence(result.rows) /\ Sequence(result.tables)
    /\ \A t \in ToSet(result.tables) : t.rows \in Seq(Seq(Seq(STRING)))
    /\ payload.truncated \in BOOLEAN
    /\ \A c \in ToSet(payload.columns) : c.type \in {"number", "object", "string"}
----------------------------------------------------------------------------
(* What is read a second time. *)

Closed(n) == nodes[n].inner # Nothing

\* Whether n is m or below m.
Under(n, m) == m \in lineage[n]

\* The two readers of a text agree on what a tag is unless a script holds tags, or
\* an element is empty for the parser only.
InScript(p) == \E s \in Node : nodes[s].tag \in RawTags /\ p \in nodes[s].text

ReadAlike ==
    \A p \in Places :
        html[p].kind \in {"open", "close"} => ~InScript(p) /\ html[p].tag \notin VoidTags \ EmptyTags

\* Where the tag of a node stands, when no script holds a tag.
TagOf(n) == InOrder({p \in Places : html[p].kind = "open"})[n]

\* INNER_HTML(x, d) cuts the string of an element where the tree of its nodes has
\* d levels: the tags that stay are those of the elements at most d levels down,
\* each with its closing tag, the text stays, and at the depth that the table of
\* nodes gives the element nothing is lost.  The depth is counted twice, by
\* compute_document_metadata along parents and by limit_inner_html along tags.
LimitCutsTree ==
    phase = "parsed" /\ ReadAlike =>
        \A n \in Node : Closed(n) => \A d \in 0..max_depth[n] :
            LET kept == ToSet(limit_inner_html(Inner(n), d))
                Kept(kind) == {p \in kept : html[p].kind = kind}
                levels == {m \in Node \ {n} : Under(m, n) /\ Levels(n, m) <= d}
            IN  /\ Kept("open") = {TagOf(m) : m \in levels}
                /\ Cardinality(Kept("close")) = Cardinality({m \in levels : ~self_closing(TagOf(m))})
                /\ Kept("text") = {p \in ToSet(Inner(n)) : html[p].kind = "text"}
                /\ d = max_depth[n] => kept = ToSet(Inner(n))

\* The text that the second scan finds in no element is the text that the parser
\* gave to the element and to none of its children.
DirectTextAgrees ==
    phase = "parsed" /\ ReadAlike =>
        \A n \in Node : Closed(n) =>
            ToSet(extract_direct_text_strict(Inner(n)))
              = {p \in nodes[n].text : html[p].kind = "text"} \ UNION {nodes[c].text : c \in Kids(n)}

\* The elements between n and m, and their tags.
Between(n, m) == lineage[m] \ (lineage[n] \cup {m})

TagsBetween(n, m) == {nodes[x].tag : x \in Between(n, m)}

\* TO TABLE reads a cell into one row of a table at most, that of the outermost row
\* around it, in the order of the page, and never what is within another cell: the
\* walks with stacks agree with the table of parents.
CellsOnce ==
    phase = "parsed" =>
        \A t \in Node : nodes[t].tag = "table" =>
            LET trs == table_rows(t)
                Nearest(x, m, tags) == Under(m, x) /\ m # x /\ TagsBetween(x, m) \cap tags = {}
            IN  /\ trs = InOrder({r \in Node : nodes[r].tag = "tr" /\ Nearest(t, r, {"tr"})})
                /\ \A k \in DOMAIN trs :
                      row_cells(trs[k]) =
                        InOrder({c \in Node : nodes[c].tag \in {"td", "th"} /\ Nearest(trs[k], c, {"td", "th"})})

\* The engine reads a document a second time, by scans and walks of its own, as the
\* parser read it: where it is cut, what is in no element, and which cells it has.
ScansAgree == LimitCutsTree /\ DirectTextAgrees /\ CellsOnce
----------------------------------------------------------------------------
(* Tables. *)

RawRows(k) == collect_rows(rows[k].node_id)

Solids(s) == SelectSeq(s, LAMBDA c : normalize_table_whitespace(c) # <<>>)

\* The row that the reading of a table stops at.
FirstStop(raw, o) ==
    LET empty == {k \in DOMAIN raw : table_row_all_empty(raw[k], Width(raw), o.empty_is)}
        runs == {k \in DOMAIN raw : k >= o.stop_after_empty_rows
                                    /\ k - o.stop_after_empty_rows + 1 .. k \subseteq empty}
    IN  IF o.stop_after_empty_rows = 0 \/ runs = {} THEN Len(raw) ELSE Min(runs)

\* Trimming drops only what is empty: the cells with something in them are, row by
\* row, those that were read, up to the first run of empty rows of the length that
\* STOP_AFTER_EMPTY_ROWS names; a header that is rewritten is left aside.
TrimKeepsCells ==
    Asked("table") /\ query.options.format = "rect" /\ query.options.header_normalize # "on" =>
        \A k \in DOMAIN rows :
            LET raw == SubSeq(RawRows(k), 1, FirstStop(RawRows(k), query.options))
                Cells(t) == SelectSeq([r \in DOMAIN t |-> Solids(t[r])], LAMBDA s : s # <<>>)
            IN  Cells(rows[k].rows) = Cells(raw)

\* A table that was trimmed has nothing left to trim.
TrimmedOnce ==
    Asked("table") /\ query.options.format = "rect" /\ query.options.empty_is = "blank_or_null"
      /\ query.options.stop_after_empty_rows = 0 =>
        \A k \in DOMAIN rows : TableOf(rows[k].rows, query.options).rows = rows[k].rows

NumberOf(s) == CHOOSE x \in 1..99 : to_string(x) = s

\* The cells of a table, each with its row and the name of its column.
CellsOf(data, Name(_)) ==
    UNION {{<<r, Name(c), data[r][c]>> : c \in DOMAIN data[r]} : r \in DOMAIN data}

LongCells(long) == {<<NumberOf(t[1]), NumberOf(t[2]), Last(t)>> : t \in ToSet(long)}

WideCells(wide) == UNION {{<<r, pair[1], pair[2]>> : pair \in ToSet(wide[r])} : r \in DOMAIN wide}

\* told is what all of the cells say, but for empty ones.
Says(told, all) ==
    /\ told \subseteq all
    /\ \A x \in all \ told : normalize_table_whitespace(x[3]) = <<>>

\* The two sparse shapes say what the rectangular one says: each of its cells with
\* something in it, at its row and column and under its name, and no other but
\* empty ones.
SparseSaysRect ==
    Asked("table") /\ query.options.format = "sparse" =>
        \A k \in DOMAIN rows :
            \E rect \in {materialize_table(RawRows(k), [query.options EXCEPT !.format = "rect"]).rows} :
            \E names \in {unique_header_keys(Headers(rect, [c \in 1..Width(rect) |-> c], query.options))} :
                IF query.options.sparse_shape = "long"
                THEN Says(LongCells(rows[k].rows), CellsOf(data_rows(rect, query.options), LAMBDA c : c))
                ELSE Says(WideCells(rows[k].sparse_wide_rows),
                          CellsOf(data_rows(rect, query.options),
                                  LAMBDA c : IF query.options.has_header THEN names[c] ELSE ColumnNumber(c)))

\* No cell with something in it is lost or moved by the options of TO TABLE.
TablesKeepCells == TrimKeepsCells /\ TrimmedOnce /\ SparseSaysRect

\* Normalised names are all different, and stay as they are when they are normalised
\* once more: a suffix cannot be a name of its own, for its two underscores would
\* have been one.
NormalizedNamesDistinct ==
    Asked("names") /\ query.mode = "normalize" =>
        /\ IsInjective(rows)
        /\ \A k \in DOMAIN rows : base_name(rows[k], "normalize", TRUE)
                                    = base_name(base_name(rows[k], "normalize", TRUE), "normalize", TRUE)
----------------------------------------------------------------------------
(* Values. *)

\* Whether an expression has a COALESCE of a blank text in it.
PassesBlank(e) ==
    \E x \in Inside(e) :
        /\ x.kind = "call" /\ x.fn = "COALESCE"
        /\ \E arg \in ToSet(x.args) :
              \E s \in eval_flatten_extract_expr(arg, 1, <<>>) : trim_ws(s) = <<>>

\* The two evaluators of functions agree: what SELECT computes of literals is what
\* PROJECT computes, a number as its numeral, but for a COALESCE of a blank text,
\* which only PROJECT passes over.
ScalarsAgree ==
    Asked("select") =>
        \A j, k \in DOMAIN query.columns :
            LET a == query.columns[j]
                b == query.columns[k]
            IN  a.expr = b.expr /\ ~PassesBlank(a.expr) =>
                    \A r \in DOMAIN rows :
                        /\ a.name \in DOMAIN rows[r].computed <=> b.name \in DOMAIN rows[r].computed
                        /\ a.name \in DOMAIN rows[r].computed =>
                              rows[r].computed[a.name] = rows[r].computed[b.name]

\* An expression with others in the place of the names it uses.
Substituted(e, others) ==
    LET whole[x \in Inside(e)] ==
          CASE x.kind = "alias" -> others[x.name]
            [] x.kind = "call" -> [x EXCEPT !.args = [k \in DOMAIN x.args |-> whole[x.args[k]]]]
            [] OTHER -> x
    IN  whole[e]

\* The columns, from left to right, each with the earlier ones in the place of their
\* names.
Expanded(columns) ==
    LET others[k \in 0 .. Len(columns)] ==
          IF k = 0 THEN <<>>
          ELSE (columns[k].name :> Substituted(columns[k].expr, others[k - 1])) @@ others[k - 1]
    IN  others[Len(columns)]

\* A column that names an earlier one has the value it would have with that
\* column's expression in its place, a missing value too.
AliasIsItsExpression ==
    Asked("project") =>
        \A r \in DOMAIN rows, k \in DOMAIN query.columns :
            LET c == query.columns[k]
                value == eval_flatten_extract_expr(Expanded(query.columns)[c.name],
                                                   rows[r].builtin.node_id, <<>>)
            IN  value = {rows[r].computed[x] : x \in {c.name} \cap DOMAIN rows[r].computed}

Has(row, name) == name \in DOMAIN row.computed

\* TEXT(x, n) and the like leave no gap: the second exists only behind a first, the
\* last is the only one or as far as the second, and a row without a first has none.
SelectionsGapless ==
    Asked("project") =>
        \A r \in DOMAIN rows : \A a, b, c \in ToSet(query.columns) :
            LET s == a.expr
            IN  /\ s.kind \in {"text", "attr"} /\ s.index = 1 /\ ~s.last
                /\ b.expr = [s EXCEPT !.index = 2] /\ c.expr = [s EXCEPT !.last = TRUE]
                => /\ Has(rows[r], a.name) <=> Has(rows[r], c.name)
                   /\ Has(rows[r], b.name) => Has(rows[r], a.name)
                   /\ Has(rows[r], a.name) /\ ~Has(rows[r], b.name)
                        => rows[r].computed[a.name] = rows[r].computed[c.name]

OneWord(s) == Len(s) = 1

\* What PROJECT computes of a row: its columns from left to right, its selectors
\* without a gap.
ProjectReads == AliasIsItsExpression /\ SelectionsGapless

\* A column that is an operand reads what WHERE reads: it is missing where WHERE
\* finds IS NULL, and a comparison of the operand with the value it shows holds.
ColumnReadsWhatWhereReads ==
    phase = "answered" /\ query.kind \in {"project", "select"} =>
        \A r \in DOMAIN rows, c \in ToSet(query.columns) :
            c.expr.kind = "operand" /\ c.expr.field # "text" =>
                LET n == rows[r].builtin.node_id
                    Test(op, values) == [kind |-> "compare", op |-> op, axis |-> c.expr.axis,
                                         field |-> c.expr.field, values |-> values, operands |-> <<>>]
                    value == rows[r].computed[c.name]
                IN  /\ ~Has(rows[r], c.name) <=> CompareHolds(Test("is null", <<>>), n)
                    /\ Has(rows[r], c.name) /\ OneWord(value) =>
                          CompareHolds(Test("=", <<[number |-> parse_int64_value(value), string |-> value]>>), n)

\* FLATTEN fills its columns with the texts of the nodes, below the row's and at the
\* depth it names, that WHERE would select if its comparisons of descendants were of
\* the node itself: in the order of the page, without a gap.
FlattenMeansWhere ==
    Asked("flatten") =>
        \A r \in DOMAIN rows :
            LET n == rows[r].builtin.node_id
                Wanted(m) == \A w \in query.where : \A e \in descendant_tests[w] :
                                CompareHolds([e EXCEPT !.axis = "self"], m)
                Reached(m) == Under(m, n) /\ (IF query.depth = {} THEN m # n ELSE Levels(n, m) \in query.depth)
                Slice(m) == FirstSolid(<<normalize_flatten_text(direct_text(m)),
                                         normalize_flatten_text(Written(extract_direct_text(Inner(m))))>>)
                found == InOrder({m \in Node : Reached(m) /\ Wanted(m) /\ (query.depth = {} => Slice(m) # <<>>)})
            IN  /\ DOMAIN rows[r].computed = {query.aliases[k] : k \in DOMAIN query.aliases \cap DOMAIN found}
                /\ \A k \in DOMAIN query.aliases \cap DOMAIN found :
                      rows[r].computed[query.aliases[k]] = Slice(found[k])
----------------------------------------------------------------------------
(* The reply: see AgentMapping. *)

\* Every row of a reply has a value for each of its columns.
Rectangular == Agent!Rectangular

\* max_rows cuts a reply short and does nothing else to it.
CutShort == Agent!CutShort

\* No cell of a table is lost on the way into a reply.
CellsKept == Agent!CellsKept

\* The reply says what the result says, up to max_rows, in a table without a hole.
ReplyInv == ResultTypeOK /\ Rectangular /\ CutShort /\ CellsKept
----------------------------------------------------------------------------
(* What the documentation promises of LIKE. *)

\* Whether a pattern matches a text, by its definition.
Like(s, p) ==
    LET match[a \in 1 .. Len(s) + 1, b \in 1 .. Len(p) + 1] ==
          IF b > Len(p) THEN a > Len(s)
          ELSE IF p[b] = "%" THEN match[a, b + 1] \/ (a <= Len(s) /\ match[a + 1, b])
          ELSE a <= Len(s) /\ p[b] \in {"_", s[a]} /\ match[a + 1, b + 1]
    IN  match[1, 1]

\* In a LIKE pattern % is any sequence and _ one character
\* (docs/markql-cli-guide.md:372).
LikeMatches ==
    Asked("select") =>
        \A r \in DOMAIN rows, c \in ToSet(query.columns) :
            c.expr.kind = "call" /\ c.expr.fn = "__CMP_LIKE" =>
                rows[r].computed[c.name]
                  = Boolean(Like(to_lower(c.expr.args[1].value), to_lower(c.expr.args[2].value)))
=============================================================================
