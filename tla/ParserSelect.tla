---------------------------- MODULE ParserSelect ----------------------------
(***************************************************************************)
(* The parser of the SELECT list                                           *)
(* (src/core/src/lang/parser/parser_select.cpp, parser_select_extract.cpp).*)
(***************************************************************************)
EXTENDS ParserExpr

(***************************************************************************)
(* The expressions of PROJECT, CASE and FIRST_TEXT: scalars over the       *)
(* descendants of a row.  An element is chosen by its index, counted from  *)
(* one, or is the last one; index 0 and ~last leave the choice open.       *)
(***************************************************************************)
AnyMatch == [index |-> 0, last |-> FALSE]
First == [index |-> 1, last |-> FALSE]
LastMatch == [index |-> 0, last |-> TRUE]

TextOf(tag, where, sel) == [kind |-> "Text", tag |-> tag, where |-> where, sel |-> sel]
AttrOf(tag, a, where, sel) ==
  [kind |-> "Attr", tag |-> tag, attribute |-> a, where |-> where, sel |-> sel]
DirectText(tag, where, sel) ==
  [kind |-> "DirectText", tag |-> tag, where |-> where, sel |-> sel]
AliasRef(name) == [kind |-> "AliasRef", alias |-> name]
OperandRef(o) == [kind |-> "OperandRef", operand |-> o]
Coalesce(args) == [kind |-> "Coalesce", args |-> args]
CaseWhen(whens, else) == [kind |-> "Case", whens |-> whens, else |-> else]

(* [WHERE predicate] inside a selector. *)
SelectorFilter(G, c) ==
  IF current_(c) = "where" THEN Then(G["expr", Tail(c)], LAMBDA d, w : Ok(d, <<w>>))
  ELSE Ok(c, <<>>)

(* [, index | FIRST | LAST] inside a selector. *)
parse_selector_position(c) ==
  LET d == Tail(c) IN
  CASE current_(c) # "Comma" -> Ok(c, AnyMatch)
    [] current_(c) = "Comma" /\ current_(d) = "Number" ->
         IF Signed(d) /\ NumberValue[Text(d)] >= 1
         THEN Ok(Tail(d), [index |-> NumberValue[Text(d)], last |-> FALSE])
         ELSE set_error(d)
    [] current_(c) = "Comma" /\ current_(d) = "Identifier" /\ to_lower(d) = "first" -> Ok(Tail(d), First)
    [] current_(c) = "Comma" /\ current_(d) = "Identifier" /\ to_lower(d) = "last" -> Ok(Tail(d), LastMatch)
    [] OTHER -> set_error(d)

(* FIRST_... and LAST_... overrule the position that was written. *)
Chosen(fn, sel) ==
  CASE fn \in {"first_text", "first_attr"} -> First
    [] fn \in {"last_text", "last_attr"} -> LastMatch
    [] OTHER -> sel

(* c starts after the opening parenthesis. *)
TextSelector(G, fn, c) ==
  Then(TagName(c), LAMBDA d, tag :
    Then(SelectorFilter(G, d), LAMBDA e, where :
      Then(Closed(parse_selector_position(e)), LAMBDA f, sel :
        Ok(f, IF fn = "direct_text" THEN DirectText(Fold(tag), where, sel)
              ELSE TextOf(Fold(tag), where, Chosen(fn, sel))))))

AttrSelector(G, fn, c) ==
  Then(TagName(c), LAMBDA d, tag :
    Then(consume(d, "Comma"), LAMBDA e, x :
      Then(consume(e, "Identifier"), LAMBDA f, a :
        Then(SelectorFilter(G, f), LAMBDA g, where :
          Then(Closed(parse_selector_position(g)), LAMBDA h, sel :
            Ok(h, AttrOf(Fold(tag), Fold(a), where, Chosen(fn, sel))))))))

(* WHEN predicate THEN expression ..., [ELSE expression] END. *)
WhenThen(G, c) ==
  Then(G["expr", c], LAMBDA d, when :
    Then(consume(d, "then"), LAMBDA e, x :
      Then(G["extract", e], LAMBDA f, then : Ok(f, [when |-> when, then |-> then]))))

CaseElse(G, c) ==
  IF current_(c) = "else" THEN Then(G["extract", Tail(c)], LAMBDA d, v : Ok(d, <<v>>)) ELSE Ok(c, <<>>)

CaseExpression(G, c) ==
  IF current_(c) # "when" THEN set_error(c)
  ELSE Then(Separated(G, "when", "when", Tail(c)), LAMBDA d, whens :
         Then(CaseElse(G, d), LAMBDA e, else :
           Then(consume(e, "end"), LAMBDA f, x : Ok(f, CaseWhen(whens, else)))))

CoalesceCall(G, c) ==
  Then(Separated(G, "extract", "Comma", c), LAMBDA d, args :
    IF Len(args) < 2 THEN set_error(d) ELSE Closed(Ok(d, Coalesce(args))))

ExtractCall(G, fn, c) ==
  CASE fn = "position" ->
         Then(G["extract", c], LAMBDA d, needle :
           Then(consume(d, "in"), LAMBDA e, x :
             Then(Closed(G["extract", e]), LAMBDA f, haystack :
               Ok(f, Call(fn, <<needle, haystack>>)))))
    [] fn # "position" /\ current_(c) = "RParen" -> Ok(Tail(c), Call(fn, <<>>))
    [] OTHER -> Then(Closed(Separated(G, "extract", "Comma", c)), LAMBDA d, args : Ok(d, Call(fn, args)))

(* A name without parentheses: what looks like an operand is one, the rest are aliases. *)
OperandWords == {"attributes", "self"} \cup DOMAIN FieldOf \cup Axes

NameReference(G, c) ==
  IF peek(c) = "Dot" \/ to_lower(c) \in OperandWords
  THEN Then(G["operand", c], LAMBDA d, o : Ok(d, OperandRef(o)))
  ELSE Ok(Tail(c), AliasRef(Text(c)))

ExtractFunction(G, fn, c) ==
  CASE fn \in {"text", "direct_text", "first_text", "last_text"} -> TextSelector(G, fn, c)
    [] fn \in {"attr", "first_attr", "last_attr"} -> AttrSelector(G, fn, c)
    [] fn = "coalesce" -> CoalesceCall(G, c)
    [] OTHER -> ExtractCall(G, fn, c)

parse_flatten_extract_expr(G, c) ==
  CASE current_(c) = "String" -> Ok(Tail(c), Str(Text(c)))
    [] current_(c) = "Number" -> IntegerLiteral(c)
    [] current_(c) = "null" -> Ok(Tail(c), Null)
    [] current_(c) = "case" -> CaseExpression(G, Tail(c))
    [] current_(c) \notin {"String", "Number", "null", "case", "Identifier", "table", "self"} -> set_error(c)
    [] current_(c) \in {"Identifier", "table", "self"} ->
         IF peek(c) = "LParen" THEN ExtractFunction(G, to_lower(c), Tail(Tail(c))) ELSE NameReference(G, c)

(* alias: expression, compared from left to right when an operator follows. *)
Comparisons ==
  [Equal |-> "__CMP_EQ", NotEqual |-> "__CMP_NE", Less |-> "__CMP_LT", LessEqual |-> "__CMP_LE",
   Greater |-> "__CMP_GT", GreaterEqual |-> "__CMP_GE", like |-> "__CMP_LIKE"]

ComparedExtract(G, c) ==
  LET More(L, d, left) ==
        IF current_(d) \notin DOMAIN Comparisons THEN Ok(d, <<>>)
        ELSE Then(G["extract", Tail(d)], LAMBDA e, rhs :
               Then(L[e], LAMBDA f, later :
                 Ok(f, <<[fn |-> Comparisons[current_(d)], rhs |-> rhs]>> \o later)))
      L[d \in Tokens] == More(L, d, <<>>)
  IN Then(G["extract", c], LAMBDA d, left :
       Then(L[d], LAMBDA e, more :
         Ok(e, FoldLeft(LAMBDA l, x : Call(x.fn, <<l, x.rhs>>), left, more))))

AliasedExtract(G, c) ==
  Then(consume(c, "Identifier"), LAMBDA d, alias :
    Then(consume(d, "Colon"), LAMBDA e, x :
      Then(ComparedExtract(G, e), LAMBDA f, tree : Ok(f, [alias |-> alias, expr |-> tree]))))

(* The pairs, a comma after the last one allowed, and the closing parenthesis. *)
parse_flatten_extract_alias_expr_pairs(G, c) ==
  LET Pairs(r, L) ==
        CASE ~ r.ok -> r
          [] r.ok /\ current_(r.rest) = "RParen" -> Ok(Tail(r.rest), <<r.ast>>)
          [] r.ok /\ current_(r.rest) = "Comma" ->
               IF peek(r.rest) = "RParen" THEN Ok(Tail(Tail(r.rest)), <<r.ast>>)
               ELSE Prepend(r.ast, L[Tail(r.rest)])
          [] OTHER -> set_error(r.rest)
      L[d \in Tokens] == Pairs(AliasedExtract(G, d), L)
  IN L[c]

(***************************************************************************)
(* Select items.  Every item has the fields of Query::SelectItem that      *)
(* later stages read; html tells INNER_HTML from RAW_INNER_HTML.           *)
(***************************************************************************)
NoTfidf == [tags |-> <<>>, all |-> FALSE, top |-> 30, min |-> 1, max |-> 0, stop |-> "English"]

Item(tag) ==
  [tag |-> tag, field |-> <<>>, aggregate |-> "None", expr |-> <<>>, project |-> <<>>,
   self |-> FALSE, text |-> FALSE, html |-> "no", depth |-> <<>>, auto |-> FALSE,
   trim |-> FALSE, flatten |-> <<>>, extract |-> <<>>, tfidf |-> NoTfidf]

ExprProjection(item) == item.expr # <<>> \/ item.project # <<>>

Projected(column, expr) == [Item("*") EXCEPT !.field = <<column>>, !.expr = <<expr>>]

(* [AS alias]: the alias, or the name the column has without one. *)
OutputName(c, column) == IF current_(c) = "as" THEN consume(Tail(c), "Identifier") ELSE Ok(c, column)

Aliased(r, item(_, _), column(_)) ==
  Then(r, LAMBDA d, tree :
    Then(OutputName(d, column(tree)), LAMBDA e, name : Ok(e, <<item(tree, name)>>)))

ProjectItem(G, c) ==
  Then(consume(c, "LParen"), LAMBDA d, x :
    Then(Closed(TagName(d)), LAMBDA e, tag :
      Then(consume(e, "as"), LAMBDA f, y :
        Then(consume(f, "LParen"), LAMBDA g, z :
          Then(parse_flatten_extract_alias_expr_pairs(G, g), LAMBDA h, pairs :
            Ok(h, <<[Item(tag) EXCEPT !.extract = pairs]>>))))))

FieldColumn(o) ==
  CASE o.field = "Attribute" -> o.attribute
    [] o.field = "AttributesMap" -> "attributes"
    [] OTHER -> CHOOSE f \in DOMAIN FieldOf : FieldOf[f] = o.field

SelfItem(G, c) ==
  IF peek(c) # "Dot" THEN Ok(Tail(c), <<[Item("self") EXCEPT !.self = TRUE]>>)
  ELSE Aliased(G["scalar", c], LAMBDA o, name : Projected(name, o), FieldColumn)

NameGrammar[rule \in {"name"}, c \in Tokens] == consume(c, "Identifier")
Names(c) == Closed(Separated(NameGrammar, "name", "Comma", c))

FlattenDepth(c) ==
  IF current_(c) # "Comma" THEN Ok(c, <<>>)
  ELSE IF current_(Tail(c)) = "Number" /\ Unsigned(Tail(c))
       THEN Ok(Tail(Tail(c)), <<NumberValue[Text(Tail(c))]>>)
       ELSE set_error(Tail(c))

FlattenItem(c) ==
  Then(consume(c, "LParen"), LAMBDA d, x :
    Then(TagName(d), LAMBDA e, tag :
      Then(Closed(FlattenDepth(e)), LAMBDA f, depth :
        IF current_(f) # "as"
        THEN Ok(f, <<[Item(tag) EXCEPT !.flatten = <<"flatten_text">>, !.depth = depth]>>)
        ELSE Then(consume(Tail(f), "LParen"), LAMBDA g, y :
               Then(Names(g), LAMBDA h, names :
                 Ok(h, <<[Item(tag) EXCEPT !.flatten = names, !.depth = depth]>>))))))

SummarizeItem(c) ==
  Then(consume(c, "LParen"), LAMBDA d, x :
    Then(Closed(consume(d, "Star")), LAMBDA e, y :
      Ok(e, <<[Item("*") EXCEPT !.aggregate = "Summarize"]>>)))

CountItem(c) ==
  Then(consume(c, "LParen"), LAMBDA d, x :
    Then(Closed(IF current_(d) = "Star" THEN consume(d, "Star") ELSE TagName(d)), LAMBDA e, tag :
      Ok(e, <<[Item(tag) EXCEPT !.aggregate = "Count", !.field = <<"count">>]>>)))

(***************************************************************************)
(* TFIDF(tags or star, then options): told one argument after the other to *)
(* what is known of the item so far.                                       *)
(***************************************************************************)
TfidfNumber(c, seen, opt) ==
  IF current_(c) = "Number" /\ Unsigned(c) /\ (opt = "top" => NumberValue[Text(c)] > 0)
  THEN Ok(Tail(c), [seen EXCEPT ![opt] = NumberValue[Text(c)]])
  ELSE set_error(c)

TfidfStopwords(c, seen) ==
  CASE current_(c) \in {"Identifier", "String"} /\ to_lower(c) \in {"none", "off"} ->
         Ok(Tail(c), [seen EXCEPT !.stop = "None"])
    [] current_(c) \in {"Identifier", "String"} /\ to_lower(c) \in {"english", "default"} ->
         Ok(Tail(c), [seen EXCEPT !.stop = "English"])
    [] OTHER -> set_error(c)

TfidfOption(c, name, seen) ==
  CASE name = "top_terms" -> TfidfNumber(c, seen, "top")
    [] name = "min_df" -> TfidfNumber(c, seen, "min")
    [] name = "max_df" -> TfidfNumber(c, seen, "max")
    [] name = "stopwords" -> TfidfStopwords(c, seen)
    [] OTHER -> set_error(c)

(* Tags come first, and a star stands for all of them; st.option: an option was read. *)
TfidfArgument(c, st) ==
  CASE current_(c) = "Star" ->
         IF st.seen.all \/ st.seen.tags # <<>> THEN set_error(c)
         ELSE Ok(Tail(c), [st EXCEPT !.seen.all = TRUE])
    [] current_(c) = "Identifier" /\ peek(c) = "Equal" ->
         Then(TfidfOption(Tail(Tail(c)), to_lower(c), st.seen), LAMBDA d, seen :
                Ok(d, [seen |-> seen, option |-> TRUE]))
    [] current_(c) = "Identifier" /\ peek(c) # "Equal" ->
         IF st.option \/ st.seen.all THEN set_error(c)
         ELSE Ok(Tail(c), [st EXCEPT !.seen.tags = Append(@, Text(c))])
    [] OTHER -> set_error(c)

TfidfStates ==
  [seen : [tags : Seq(STRING), all : BOOLEAN, top : Nat, min : Nat, max : Nat, stop : STRING],
   option : BOOLEAN]

TfidfArguments(c) ==
  LET More(r, L) == IF ~ r.ok \/ current_(r.rest) # "Comma" THEN r ELSE L[Tail(r.rest), r.ast]
      L[d \in Tokens, st \in TfidfStates] == More(TfidfArgument(d, st), L)
      none == [seen |-> NoTfidf, option |-> FALSE]
  IN IF current_(c) = "RParen" THEN Ok(c, none) ELSE L[c, none]

TfidfItem(c) ==
  Then(consume(c, "LParen"), LAMBDA d, x :
    Then(Closed(TfidfArguments(d)), LAMBDA e, st :
      IF st.seen.tags = <<>> /\ ~ st.seen.all THEN set_error(e)
      ELSE Ok(e, <<[Item("") EXCEPT !.aggregate = "Tfidf", !.tfidf = st.seen]>>)))

(***************************************************************************)
(* TEXT(tag), INNER_HTML(tag [, depth]) and the same of self.              *)
(***************************************************************************)
HtmlKind(fn) == IF fn = "raw_inner_html" THEN "raw" ELSE "cooked"

(* The depth of INNER_HTML(tag): a number stoull reads, or MAX_DEPTH. *)
HtmlDepth(c, item) ==
  CASE current_(c) # "Comma" -> Ok(c, item)
    [] current_(c) = "Comma" /\ current_(Tail(c)) = "Number" /\ Unsigned(Tail(c)) ->
         Ok(Tail(Tail(c)), [item EXCEPT !.depth = <<NumberValue[Text(Tail(c))]>>])
    [] current_(c) = "Comma" /\ current_(Tail(c)) = "Identifier" /\ to_lower(Tail(c)) = "max_depth" ->
         Ok(Tail(Tail(c)), [item EXCEPT !.auto = TRUE])
    [] OTHER -> set_error(Tail(c))

HtmlOfTag(fn, c) ==
  Then(TagName(c), LAMBDA d, tag :
    Closed(HtmlDepth(d, [Item(tag) EXCEPT !.field = <<"inner_html">>, !.html = HtmlKind(fn)])))

(* Of self the depth is an argument of the expression too, and has to be a signed number. *)
HtmlOfSelf(fn, c) ==
  LET item == [Item("*") EXCEPT !.field = <<"inner_html">>, !.html = HtmlKind(fn)]
      Of(d, it, args) == Closed(Ok(d, [it EXCEPT !.expr = <<Call(fn, <<SelfRef>> \o args)>>])) IN
  IF current_(c) # "Comma" THEN Of(c, item, <<>>)
  ELSE Then(Depth(Tail(c)), LAMBDA d, depth :
         Of(d, IF depth.kind = "Num" THEN [item EXCEPT !.depth = <<depth.number>>]
               ELSE [item EXCEPT !.auto = TRUE], <<depth>>))

Renamed(item, name) == [item EXCEPT !.field = <<name>>]

HtmlItem(fn, c) ==
  Aliased(IF current_(c) = "self" THEN HtmlOfSelf(fn, Tail(c)) ELSE HtmlOfTag(fn, c),
          Renamed, LAMBDA item : "inner_html")

TextOfTag(c) ==
  Then(Closed(TagName(c)), LAMBDA d, tag :
    Ok(d, [Item(tag) EXCEPT !.field = <<"text">>, !.text = TRUE]))

(* An aliased TEXT(tag) becomes an expression, so that the alias only names the column. *)
TextItem(c) ==
  IF current_(c) = "self"
  THEN Aliased(Closed(Ok(Tail(c), [Projected("text", Call("text", <<SelfRef>>)) EXCEPT !.text = TRUE])),
               Renamed, LAMBDA item : "text")
  ELSE Then(TextOfTag(c), LAMBDA d, item :
         IF current_(d) # "as" THEN Ok(d, <<item>>)
         ELSE Then(consume(Tail(d), "Identifier"), LAMBDA e, name :
                Ok(e, <<Projected(name, Call("text", <<Str(Fold(item.tag))>>))>>)))

(* An identifier, as the words of the grammar are compared; "" for any other token. *)
Word(c) == IF current_(c) = "Identifier" THEN to_lower(c) ELSE ""

(* TRIM of one of the three, or of a field of a tag: the alias replaces the field. *)
TrimmedItem(c) ==
  CASE Word(c) \in {"inner_html", "raw_inner_html"} ->
         Then(consume(Tail(c), "LParen"), LAMBDA d, x : HtmlOfTag(to_lower(c), d))
    [] Word(c) = "text" ->
         Then(consume(Tail(c), "LParen"), LAMBDA d, x : TextOfTag(d))
    [] OTHER ->
         Then(TagName(c), LAMBDA d, tag :
           Then(consume(Tail(d), "Identifier"), LAMBDA e, field :
             Ok(e, [Item(tag) EXCEPT !.field = <<field>>])))

TrimItem(G, c) ==
  Then(consume(c, "LParen"), LAMBDA d, x :
    IF Word(d) \in {"inner_html", "raw_inner_html", "text"}
       \/ (TagName(d).ok /\ peek(d) = "Dot")
    THEN Aliased(Closed(TrimmedItem(d)),
                 LAMBDA item, name : [Renamed(item, name) EXCEPT !.trim = TRUE],
                 LAMBDA item : Head(item.field))
    ELSE Aliased(Closed(G["scalar", d]),
                 LAMBDA arg, name : Projected(name, Call("trim", <<arg>>)), LAMBDA arg : "trim"))

(***************************************************************************)
(* The items that begin with a name, and the dispatch.                     *)
(***************************************************************************)
ScalarFunctions ==
  {"concat", "substring", "substr", "length", "char_length", "position", "locate", "replace",
   "lower", "upper", "ltrim", "rtrim", "regex_replace", "direct_text", "coalesce", "attr"}
SelectorFunctions == {"first_text", "last_text", "first_attr", "last_attr"}

ScalarItem(G, c) ==
  Aliased(G["scalar", c], LAMBDA e, name : Projected(name, e), LAMBDA e : e.fn)

ExtractColumn(e) ==
  CASE e.kind = "Case" -> "case"
    [] e.kind = "Call" -> e.fn
    [] OTHER -> "expr"

ExtractItem(G, c) ==
  Aliased(G["extract", c],
          LAMBDA e, name : [Item("*") EXCEPT !.field = <<name>>, !.project = <<e>>], ExtractColumn)

(* tag(field, ...): one item for each field. *)
FieldsItem(c, tag) ==
  Then(Names(c), LAMBDA d, names :
    Ok(d, [k \in DOMAIN names |-> [Item(tag) EXCEPT !.field = <<names[k]>>]]))

(* tag.field reads the field of the tag; with an alias it is an operand of the row. *)
FieldOperand(tag, field) ==
  CASE Fold(field) \in AttrWords -> Operand("self", "AttributesMap", "", <<tag>>)
    [] Fold(field) \in DOMAIN FieldOf -> Operand("self", FieldOf[Fold(field)], "", <<tag>>)
    [] OTHER -> Operand("self", "Attribute", field, <<tag>>)

DottedItem(c, tag) ==
  Then(consume(c, "Identifier"), LAMBDA d, field :
    IF current_(d) # "as" THEN Ok(d, <<[Item(tag) EXCEPT !.field = <<field>>]>>)
    ELSE Then(consume(Tail(d), "Identifier"), LAMBDA e, name :
           Ok(e, <<Projected(name, FieldOperand(tag, field))>>)))

TagItem(c) ==
  CASE peek(c) = "LParen" /\ to_lower(c) = "text" -> TextItem(Tail(Tail(c)))
    [] peek(c) = "LParen" /\ to_lower(c) \in {"inner_html", "raw_inner_html"} ->
         HtmlItem(to_lower(c), Tail(Tail(c)))
    [] peek(c) = "LParen" /\ to_lower(c) \notin {"text", "inner_html", "raw_inner_html"} ->
         FieldsItem(Tail(Tail(c)), Text(c))
    [] peek(c) = "Dot" -> DottedItem(Tail(Tail(c)), Text(c))
    [] OTHER -> Ok(Tail(c), <<Item(Text(c))>>)

(* A function that is called: the same word without a parenthesis is a tag. *)
Called(c, names) == peek(c) = "LParen" /\ Word(c) \in names

parse_select_item(G, c) ==
  CASE current_(c) = "project" \/ Word(c) = "flatten_extract" -> ProjectItem(G, Tail(c))
    [] current_(c) = "self" -> SelfItem(G, c)
    [] Word(c) \in {"flatten_text", "flatten"} -> FlattenItem(Tail(c))
    [] Word(c) = "summarize" -> SummarizeItem(Tail(c))
    [] Word(c) = "tfidf" -> TfidfItem(Tail(c))
    [] Word(c) = "trim" -> TrimItem(G, Tail(c))
    [] current_(c) = "count" -> CountItem(Tail(c))
    [] current_(c) = "case" \/ Called(c, SelectorFunctions) -> ExtractItem(G, c)
    [] Called(c, ScalarFunctions) -> ScalarItem(G, c)
    [] current_(c) = "Star" -> Ok(Tail(c), <<Item("*")>>)
    [] OTHER -> IF TagName(c).ok THEN TagItem(c) ELSE set_error(c)

(* A row is a whole node or some columns, for all items alike. *)
TagOnly(item) == item.self \/ (item.field = <<>> /\ item.aggregate = "None"
                               /\ item.flatten = <<>> /\ item.extract = <<>>)

(* The rules that the parser comes back to. *)
Grammar[rule \in {"operand", "scalar", "expr", "and", "cmp", "extract", "when", "item"}, c \in Tokens] ==
  CASE rule = "operand" -> parse_operand(c)
    [] rule = "scalar" -> parse_scalar_expr(Grammar, c)
    [] rule = "expr" -> parse_expr(Grammar, c)
    [] rule = "and" -> parse_and_expr(Grammar, c)
    [] rule = "cmp" -> parse_cmp_expr(Grammar, c)
    [] rule = "extract" -> parse_flatten_extract_expr(Grammar, c)
    [] rule = "when" -> WhenThen(Grammar, c)
    [] rule = "item" -> parse_select_item(Grammar, c)

parse_select_list(c) ==
  Then(Separated(Grammar, "item", "Comma", c), LAMBDA d, groups :
    LET items == FlattenSeq(groups) IN
    IF \E x, y \in Range(items) : TagOnly(x) /\ ~ TagOnly(y) THEN set_error(d) ELSE Ok(d, items))

parse_exclude_list(c) ==
  CASE current_(c) = "Identifier" -> Ok(Tail(c), <<to_lower(c)>>)
    [] current_(c) = "LParen" ->
         Then(Names(Tail(c)), LAMBDA d, names : Ok(d, [k \in DOMAIN names |-> Fold(names[k])]))
    [] OTHER -> set_error(c)
=============================================================================
