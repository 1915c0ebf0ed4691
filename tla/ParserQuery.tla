----------------------------- MODULE ParserQuery -----------------------------
(***************************************************************************)
(* The parser of whole queries                                             *)
(* (src/core/src/lang/parser/parser.cpp, parser_query.cpp,                 *)
(* parser_source.cpp).                                                     *)
(*                                                                         *)
(* The parser's cte_names_ is what a query may name as a source: it grows  *)
(* with every definition of a WITH and is put back when a subquery ends.   *)
(* A production that can change it gets it as an argument and answers with *)
(* what it leaves, in names.                                               *)
(***************************************************************************)
EXTENDS ParserSelect

Leaving(names, r) == [ok |-> r.ok, rest |-> r.rest, ast |-> r.ast, names |-> names]
ThenNamed(r, F(_, _, _)) == IF r.ok THEN F(r.rest, r.names, r.ast) ELSE r

(***************************************************************************)
(* Sources.  of: the subquery of a derived table or of PARSE.              *)
(***************************************************************************)
Source(kind, value, alias) ==
  [kind |-> kind, value |-> value, alias |-> alias, of |-> <<>>, expr |-> <<>>]

(* [[AS] alias]: the alias the source had when none is written. *)
parse_source_alias(r) ==
  Then(r, LAMBDA c, src :
    CASE current_(c) = "as" ->
           Then(consume(Tail(c), "Identifier"), LAMBDA d, name : Ok(d, [src EXCEPT !.alias = <<name>>]))
      [] current_(c) = "Identifier" -> Ok(Tail(c), [src EXCEPT !.alias = <<Text(c)>>])
      [] OTHER -> Ok(c, src))

(* A derived table has to have one. *)
RequiredAlias(r) ==
  Then(parse_source_alias(r), LAMBDA c, src : IF src.alias = <<>> THEN set_error(c) ELSE Ok(c, src))

(* Mutant: the definitions of a subquery stay when it has ended. *)
parse_subquery_Leaks(Q, names, c) ==
  ThenNamed(Q[names, c], LAMBDA d, within, query :
    Leaving(within, Closed(Ok(IF current_(d) = "Semicolon" THEN Tail(d) ELSE d, query))))

(* A query, then the parenthesis that closes it; a semicolon before it is let pass. *)
parse_subquery(Q, names, c) ==
  ThenNamed(Q[names, c], LAMBDA d, within, query :
    Leaving(names, Closed(Ok(IF current_(d) = "Semicolon" THEN Tail(d) ELSE d, query))))

DerivedSource(Q, names, c) ==
  ThenNamed(parse_subquery(Q, names, c), LAMBDA d, known, query :
    Leaving(known, RequiredAlias(
      Ok(d, [Source("DerivedSubquery", "", <<>>) EXCEPT !.of = <<query>>]))))

ParseSource(Q, names, c) ==
  IF current_(c) \in {"select", "with"}
  THEN ThenNamed(parse_subquery(Q, names, c), LAMBDA d, known, query :
         Leaving(known, parse_source_alias(
           Ok(d, [Source("Parse", "", <<>>) EXCEPT !.of = <<query>>]))))
  ELSE Leaving(names, parse_source_alias(
         Then(Closed(Grammar["scalar", c]), LAMBDA d, e :
           Ok(d, [Source("Parse", "", <<>>) EXCEPT !.expr = <<e>>]))))

RawSource(c) ==
  parse_source_alias(
    Then(consume(c, "LParen"), LAMBDA d, x :
      Then(Closed(consume(d, "String")), LAMBDA e, html : Ok(e, Source("RawHtml", html, <<>>)))))

(* A definition in scope before everything else; doc; any other name is the *)
(* document under that name.                                                *)
NamedSource(names, c) ==
  CASE to_lower(c) \in names ->
         parse_source_alias(Ok(Tail(c), Source("CteRef", Text(c), <<Text(c)>>)))
    [] to_lower(c) \notin names /\ to_lower(c) \in {"doc", "document"} ->
         parse_source_alias(Ok(Tail(c), Source("Document", "document", <<"doc">>)))
    [] OTHER -> Ok(Tail(c), Source("Document", "document", <<Text(c)>>))

(* The sources that hold no query. *)
SimpleSource(names, c) ==
  CASE current_(c) = "document" ->
         parse_source_alias(Ok(Tail(c), Source("Document", "document", <<"doc">>)))
    [] current_(c) = "raw" -> RawSource(Tail(c))
    [] current_(c) = "String" -> parse_source_alias(Ok(Tail(c), Source("Path", Text(c), <<>>)))
    [] current_(c) = "Identifier" -> NamedSource(names, c)
    [] OTHER -> set_error(c)

parse_source(Q, names, c) ==
  CASE current_(c) = "LParen" -> DerivedSource(Q, names, Tail(c))
    [] current_(c) = "parse" ->
         Then(consume(Tail(c), "LParen"), LAMBDA d, x : ParseSource(Q, names, d))
    [] OTHER -> Leaving(names, SimpleSource(names, c))

(***************************************************************************)
(* WITH name AS (query), ...: each definition sees the ones before it.     *)
(***************************************************************************)
Definition(Q, names, c) ==
  Then(consume(c, "Identifier"), LAMBDA d, name :
    Then(consume(d, "as"), LAMBDA e, x :
      Then(consume(e, "LParen"), LAMBDA f, y :
        ThenNamed(parse_subquery(Q, names, f), LAMBDA g, known, query :
          Leaving(known \cup {Fold(name)}, Ok(g, [name |-> name, query |-> query]))))))

parse_with_clause(Q, outer, c) ==
  LET L[local \in SUBSET STRING, names \in SUBSET STRING, d \in Tokens] ==
        IF current_(d) = "Identifier" /\ to_lower(d) \in local THEN set_error(d)
        ELSE ThenNamed(Definition(Q, names, d), LAMBDA e, known, cte :
               IF current_(e) # "Comma" THEN Leaving(known, Ok(e, <<cte>>))
               ELSE Prepend(cte, L[local \cup {Fold(cte.name)}, known, Tail(e)]))
  IN L[{}, outer, c]

(***************************************************************************)
(* Joins.                                                                  *)
(***************************************************************************)
JoinType(c) ==
  CASE current_(c) = "join" -> Ok(Tail(c), "Inner")
    [] current_(c) = "inner" -> Then(consume(Tail(c), "join"), LAMBDA d, x : Ok(d, "Inner"))
    [] current_(c) = "left" -> Then(consume(Tail(c), "join"), LAMBDA d, x : Ok(d, "Left"))
    [] current_(c) = "cross" -> Then(consume(Tail(c), "join"), LAMBDA d, x : Ok(d, "Cross"))

JoinedSource(Q, names, type, c) ==
  IF type = "Cross" /\ current_(c) = "lateral"
  THEN Then(consume(Tail(c), "LParen"), LAMBDA d, x : DerivedSource(Q, names, d))
  ELSE parse_source(Q, names, c)

(* ON is required but for a CROSS JOIN, where nothing may stand in its place. *)
JoinCondition(type, c) ==
  IF type # "Cross"
  THEN Then(consume(c, "on"), LAMBDA d, x : Then(Grammar["expr", d], LAMBDA e, on : Ok(e, <<on>>)))
  ELSE IF current_(c) = "on" THEN set_error(c) ELSE Ok(c, <<>>)

Join(Q, names, c) ==
  Then(JoinType(c), LAMBDA d, type :
    ThenNamed(JoinedSource(Q, names, type, d), LAMBDA e, known, right :
      IF current_(e) = "as" THEN set_error(e)
      ELSE Leaving(known, Then(JoinCondition(type, e), LAMBDA f, on :
             Ok(f, [type |-> type, lateral |-> type = "Cross" /\ current_(d) = "lateral",
                    right |-> right, on |-> on])))))

parse_join_clauses(Q, outer, c) ==
  LET L[names \in SUBSET STRING, d \in Tokens] ==
        IF current_(d) \notin {"join", "inner", "left", "cross"} THEN Leaving(names, Ok(d, <<>>))
        ELSE ThenNamed(Join(Q, names, d), LAMBDA e, known, join : Prepend(join, L[known, e]))
  IN L[outer, c]

(* No two sources of one FROM answer to the same name. *)
DistinctAliases(source, joins) ==
  LET aliases == FlattenSeq(<<source.alias>> \o [k \in DOMAIN joins |-> joins[k].right.alias])
  IN \A j, k \in DOMAIN aliases : Fold(aliases[j]) = Fold(aliases[k]) => j = k

(***************************************************************************)
(* ORDER BY and LIMIT.                                                     *)
(***************************************************************************)
OrderKey(c) ==
  IF current_(c) \notin {"Identifier", "count"} THEN set_error(c)
  ELSE IF peek(c) = "Dot"
       THEN Then(consume(Tail(Tail(c)), "Identifier"), LAMBDA d, field :
              Ok(d, to_lower(c) \o "." \o Fold(field)))
       ELSE Ok(Tail(c), to_lower(c))

OrderGrammar[rule \in {"key"}, c \in Tokens] ==
  Then(OrderKey(c), LAMBDA d, field :
    CASE current_(d) = "desc" -> Ok(Tail(d), [field |-> field, descending |-> TRUE])
      [] current_(d) = "asc" -> Ok(Tail(d), [field |-> field, descending |-> FALSE])
      [] OTHER -> Ok(d, [field |-> field, descending |-> FALSE]))

OrderBy(c) == Then(consume(c, "by"), LAMBDA d, x : Separated(OrderGrammar, "key", "Comma", d))

parse_limit(c) ==
  IF current_(c) = "Number" /\ Unsigned(c) THEN Ok(Tail(c), NumberValue[Text(c)]) ELSE set_error(c)

(***************************************************************************)
(* TO LIST(), TO TABLE(options), TO CSV(path) and the other exports.       *)
(* header, normalize: as table_has_header and header_normalize; explicit:  *)
(* HEADER_NORMALIZE was written.                                           *)
(***************************************************************************)
NoOptions ==
  [header |-> TRUE, export |-> <<>>, trim_empty_rows |-> FALSE, trim_empty_cols |-> "off",
   empty_is |-> "blank_or_null", stop_after_empty_rows |-> 0, format |-> "rect",
   sparse_shape |-> "long", header_normalize |-> TRUE, explicit |-> FALSE]

OptionWords ==
  [trim_empty_cols |-> {"off", "trailing", "all"},
   empty_is |-> {"blank_or_null", "null_only", "blank_only"},
   format |-> {"rect", "sparse"},
   sparse_shape |-> {"long", "wide"}]

OnOff(c) ==
  IF current_(c) \in {"Identifier", "on"} /\ to_lower(c) \in {"on", "off"}
  THEN Ok(Tail(c), to_lower(c) = "on") ELSE set_error(c)

(* The value of an option: words where identifiers are, ALL being a keyword. *)
OptionValue(option, c) ==
  CASE option \in {"trim_empty_rows", "header_normalize"} -> OnOff(c)
    [] option = "header" -> IF current_(c) \in {"Comma", "RParen"} THEN Ok(c, TRUE) ELSE OnOff(c)
    [] option = "export" ->
         Then(consume(c, "String"), LAMBDA d, path : Ok(d, <<[kind |-> "csv", path |-> path]>>))
    [] option = "stop_after_empty_rows" -> parse_limit(c)
    [] option \in DOMAIN OptionWords ->
         IF current_(c) \in {"Identifier", "all"} /\ to_lower(c) \in OptionWords[option]
         THEN Ok(Tail(c), to_lower(c)) ELSE set_error(c)
    [] OTHER -> set_error(c)

SkipEqual(c) == IF current_(c) = "Equal" THEN Tail(c) ELSE c

(* One option and its value, an equals sign between them or not; none comes twice. *)
TableOption(c, seen) ==
  CASE current_(c) # "Identifier" -> set_error(c)
    [] Word(c) \in {"noheader", "no_header"} ->
         IF "header" \in seen THEN set_error(Tail(c))
         ELSE Ok(Tail(c), [option |-> "header", value |-> FALSE])
    [] Word(c) \in seen \ {"header", "export"} -> set_error(Tail(c))
    [] OTHER ->
         Then(OptionValue(to_lower(c), SkipEqual(Tail(c))), LAMBDA d, v :
           IF to_lower(c) \in seen THEN set_error(d)
           ELSE Ok(d, [option |-> to_lower(c), value |-> v]))

OptionList(c) ==
  LET Settings(r, seen, L) ==
        CASE ~ r.ok -> r
          [] r.ok /\ current_(r.rest) # "Comma" -> Ok(r.rest, <<r.ast>>)
          [] OTHER -> Prepend(r.ast, L[seen \cup {r.ast.option}, Tail(r.rest)])
      L[seen \in SUBSET STRING, d \in Tokens] == Settings(TableOption(d, seen), seen, L)
  IN IF current_(c) = "RParen" THEN Ok(c, <<>>) ELSE L[{}, c]

(* The defaults, overwritten by what was written. *)
OptionsOf(settings) ==
  LET written == {settings[k].option : k \in DOMAIN settings} IN
  [FoldLeft(LAMBDA o, s : [o EXCEPT ![s.option] = s.value], NoOptions, settings)
     EXCEPT !.explicit = "header_normalize" \in written]

Output(list, table, options, export) ==
  [to_list |-> list, to_table |-> table, options |-> options, export |-> export]
Rows == Output(FALSE, FALSE, NoOptions, <<>>)

ToList(c) == Then(consume(c, "LParen"), LAMBDA d, x : Closed(Ok(d, Output(TRUE, FALSE, NoOptions, <<>>))))

(* Mutant: the format asked for so far has to fit when the shape is read. *)
ShapeFits_InOrder(settings) ==
  \A k \in DOMAIN settings :
    settings[k].option = "sparse_shape" => OptionsOf(SubSeq(settings, 1, k)).format = "sparse"

(* A sparse shape is asked of a sparse table only, whichever of the two was written first. *)
ShapeFits(settings) ==
  (\E k \in DOMAIN settings : settings[k].option = "sparse_shape")
    => OptionsOf(settings).format = "sparse"

ToTable(c) ==
  Then(consume(c, "LParen"), LAMBDA d, x :
    Then(Closed(OptionList(d)), LAMBDA e, settings :
      IF ~ ShapeFits(settings) THEN set_error(e)
      ELSE Ok(e, Output(FALSE, TRUE, OptionsOf(settings), OptionsOf(settings).export))))

(* CSV and PARQUET need a path; JSON and NDJSON without one are printed. *)
ToExport(kind, c) ==
  Then(consume(c, "LParen"), LAMBDA d, x :
    Then(Closed(IF current_(d) # "String" /\ kind \in {"json", "ndjson"} THEN Ok(d, "")
                ELSE consume(d, "String")), LAMBDA e, path :
      Ok(e, Output(FALSE, FALSE, NoOptions, <<[kind |-> kind, path |-> path]>>))))

ToClause(c) ==
  CASE current_(c) # "to" -> Ok(c, Rows)
    [] current_(c) = "to" /\ peek(c) = "list" -> ToList(Tail(Tail(c)))
    [] current_(c) = "to" /\ peek(c) = "table" -> ToTable(Tail(Tail(c)))
    [] current_(c) = "to" /\ peek(c) \in {"csv", "parquet", "json", "ndjson"} ->
         ToExport(peek(c), Tail(Tail(c)))
    [] OTHER -> set_error(Tail(c))

(***************************************************************************)
(* The query.                                                              *)
(***************************************************************************)
Statement(kind) == [kind |-> kind]

parse_show(c) ==
  IF current_(c) \in {"input", "inputs", "functions", "axes", "operators"}
  THEN Ok(Tail(c), Statement("show " \o current_(c))) ELSE set_error(c)

parse_describe(c) ==
  CASE current_(c) = "document" \/ Word(c) \in {"doc", "document"} -> Ok(Tail(c), Statement("describe doc"))
    [] Word(c) = "language" -> Ok(Tail(c), Statement("describe language"))
    [] OTHER -> set_error(c)

Clause(c, keyword, P(_)) ==
  IF current_(c) = keyword THEN Then(P(Tail(c)), LAMBDA d, tree : Ok(d, <<tree>>)) ELSE Ok(c, <<>>)

(* SELECT items [EXCLUDE fields] FROM source joins. *)
SelectFrom(Q, names, c) ==
  Then(consume(c, "select"), LAMBDA d, x :
    Then(parse_select_list(d), LAMBDA e, items :
      Then(Clause(e, "exclude", parse_exclude_list), LAMBDA f, exclude :
        Then(consume(f, "from"), LAMBDA g, y :
          ThenNamed(parse_source(Q, names, g), LAMBDA h, known, source :
            ThenNamed(parse_join_clauses(Q, known, h), LAMBDA i, left, joins :
              IF current_(i) = "as" \/ ~ DistinctAliases(source, joins) THEN set_error(i)
              ELSE Leaving(left, Ok(i, [items |-> items, exclude |-> FlattenSeq(exclude),
                                        source |-> source, joins |-> joins]))))))))

(* [WHERE ...] [ORDER BY ...] [LIMIT ...] [TO ...], in this order. *)
Clauses(c, with, from) ==
  Then(Clause(c, "where", LAMBDA d : Grammar["expr", d]), LAMBDA d, where :
    Then(Clause(d, "order", OrderBy), LAMBDA e, order :
      Then(Clause(e, "limit", parse_limit), LAMBDA f, limit :
        Then(ToClause(f), LAMBDA g, to :
          Ok(g, [kind |-> "select", with |-> with, items |-> from.items,
                 exclude |-> from.exclude, source |-> from.source, joins |-> from.joins,
                 where |-> where, order |-> FlattenSeq(order), limit |-> limit, to |-> to])))))

SelectQuery(Q, names, c, with) ==
  ThenNamed(SelectFrom(Q, names, c), LAMBDA d, known, from : Leaving(known, Clauses(d, with, from)))

WithClause(Q, names, c) == IF current_(c) = "with" THEN parse_with_clause(Q, names, Tail(c))
                                          ELSE Leaving(names, Ok(c, <<>>))

parse_query_body(Q, names, c) ==
  CASE current_(c) = "show" -> Leaving(names, parse_show(Tail(c)))
    [] current_(c) = "describe" -> Leaving(names, parse_describe(Tail(c)))
    [] OTHER ->
         ThenNamed(WithClause(Q, names, c), LAMBDA d, known, with : SelectQuery(Q, known, d, with))

QueryGrammar[names \in SUBSET STRING, c \in Tokens] == parse_query_body(QueryGrammar, names, c)

(* The whole text: a query, at most one semicolon, and nothing else. *)
parse(c) ==
  Then(QueryGrammar[{}, c], LAMBDA d, query :
    LET e == IF current_(d) = "Semicolon" THEN Tail(d) ELSE d IN
    IF current_(e) = "End" THEN Ok(e, query) ELSE set_error(e))
=============================================================================
