------------------------- MODULE LanguageProperties -------------------------
(* What the language promises of every text: Language's properties. *)
EXTENDS Language

Accepted == parsed.ok /\ parsed.ast.kind = "select"

(***************************************************************************)
(* Characters.  Read once from left to right, each character is in a word, *)
(* a number, a string, a comment, a blank or alone: Region says which, by  *)
(* the region before it and the next character only.                       *)
(***************************************************************************)
Fresh(c, after) ==
  CASE c \in Blanks -> "blank"
    [] c = "-" /\ after = "-" -> "line"
    [] c = "/" /\ after = "*" -> "open"
    [] c \in Quotes -> c
    [] c \in Digits -> "number"
    [] c \in IdentStart -> "word"
    [] OTHER -> "alone"

Step(before, c, after) ==
  CASE before = "line" /\ c # "\n" -> "line"
    [] before = "open" -> "opened"
    [] before \in {"opened", "block"} -> IF c = "*" /\ after = "/" THEN "closing" ELSE "block"
    [] before = "closing" -> "closed"
    [] before \in Quotes -> IF c = before THEN "quoted" ELSE before
    [] before = "number" /\ c \in Digits -> "number"
    [] before = "word" /\ c \in IdentChars -> "word"
    [] OTHER -> Fresh(c, after)

Regions(s) ==
  LET R[k \in 0 .. Len(s)] == IF k = 0 THEN "blank" ELSE Step(R[k - 1], s[k], At(s, k + 1)) IN R

Between == {"blank", "line", "open", "opened", "block", "closing", "closed"}

TokensTile(s, tokens, region) ==
  \A k \in 1 .. tokens[Len(tokens)].from - 1 :
    /\ (region[k] \in Between) <=> ~ \E t \in Range(tokens) : k \in t.from .. t.to - 1
    /\ \A t \in Range(tokens) : t.from = k =>
         /\ t.type = "String" <=> region[k] \in Quotes
         /\ t.type = "Number" <=> region[k] = "number"
         /\ region[k] = "word" => \A j \in t.from .. t.to - 1 : region[j] = "word"
         /\ region[k] = "word" /\ t.to <= Len(s) => region[t.to] # "word"

(* Up to where the lexer stops, its tokens are exactly the characters outside of      *)
(* blanks and comments: no comment begins inside of a string or a name, no quote      *)
(* opens inside of a comment, and every word is taken whole.                          *)
CommentsAndStrings ==
  kind = "characters" =>
    TokensTile(typed, Lex(typed), Regions(typed))

(***************************************************************************)
(* Predicates.  A predicate is written by the grammar of the language: AND *)
(* binds tighter than OR, both to the left, parentheses where that is not  *)
(* what is meant.                                                          *)
(***************************************************************************)
Mark(type, text) == <<[type |-> type, text |-> text]>>
Kw(word) == Mark(word, word)
Name(text) == Mark(IF text \in {"table", "self"} THEN text ELSE "Identifier", text)
Sign(c) == Mark(Punctuation[c], c)
Numeral(n) == Mark("Number", CHOOSE t \in DOMAIN NumberValue : NumberValue[t] = n)
InParens(tokens) == Sign("(") \o tokens \o Sign(")")

RECURSIVE Listed(_)
Listed(parts) ==
  IF parts = <<>> THEN <<>>
  ELSE Head(parts) \o IF Len(parts) = 1 THEN <<>> ELSE Sign(",") \o Listed(Tail(parts))

Reserved == AttrWords \cup DOMAIN FieldOf \cup Axes \cup {"self"}

OperandWritten(o) ==
  (IF o.qualifier = <<>> THEN <<>> ELSE Name(o.qualifier[1]) \o Sign("."))
  \o (IF o.axis = "self" THEN <<>> ELSE Name(o.axis) \o Sign("."))
  \o CASE o.field = "AttributesMap" -> Name("attributes")
       [] o.field = "Attribute" ->
            (IF o.axis # "self" \/ Fold(o.attribute) \in Reserved \/ o.qualifier = <<"self">>
             THEN Name("attributes") \o Sign(".") ELSE <<>>) \o Name(o.attribute)
       [] OTHER -> Name(CHOOSE f \in DOMAIN FieldOf : FieldOf[f] = o.field)

OfNode == {"text", "direct_text", "inner_html", "raw_inner_html", "attr"}

RECURSIVE ScalarWritten(_)
ScalarWritten(s) ==
  CASE s.kind = "Str" -> Mark("String", s.string)
    [] s.kind = "Num" -> Numeral(s.number)
    [] s.kind = "Null" -> Kw("null")
    [] s.kind = "SelfRef" -> Kw("self")
    [] s.kind = "Operand" -> OperandWritten(s)
    [] s.kind = "Call" ->
         Name(s.fn) \o InParens(
           IF s.fn = "position"
           THEN ScalarWritten(s.args[1]) \o Kw("in") \o ScalarWritten(s.args[2])
           ELSE Listed([k \in DOMAIN s.args |->
                  IF s.fn \in OfNode /\ s.args[k].kind = "Str"
                  THEN Name(s.args[k].string) ELSE ScalarWritten(s.args[k])]))

OperatorWritten(op) ==
  CASE op = "Contains" -> Kw("contains")
    [] op = "ContainsAll" -> Kw("contains") \o Kw("all")
    [] op = "ContainsAny" -> Kw("contains") \o Kw("any")
    [] op = "HasDirectText" -> Kw("has_direct_text")
    [] op = "In" -> Kw("in")
    [] op = "IsNull" -> Kw("is") \o Kw("null")
    [] op = "IsNotNull" -> Kw("is") \o Kw("not") \o Kw("null")
    [] OTHER -> LET type == CHOOSE y \in DOMAIN CompareOp : CompareOp[y] = op IN Mark(type, type)

CompareWritten(cmp) ==
  LET rhs == [k \in DOMAIN cmp.rhs |-> ScalarWritten(cmp.rhs[k])] IN
  ScalarWritten(cmp.lhs) \o OperatorWritten(cmp.op)
  \o IF cmp.op \in {"In", "ContainsAll", "ContainsAny"} THEN InParens(Listed(rhs)) ELSE Listed(rhs)

RECURSIVE PredicateWritten(_)
PredicateWritten(e) ==
  LET Grouped(x, apart) == IF apart THEN InParens(PredicateWritten(x)) ELSE PredicateWritten(x)
      op(x) == IF x.kind = "Binary" THEN x.op ELSE "none"
  IN CASE e.kind = "Compare" -> CompareWritten(e)
       [] e.kind = "Exists" ->
            Kw("exists") \o InParens(Name(e.axis) \o
              IF e.where = <<>> THEN <<>> ELSE Kw("where") \o PredicateWritten(e.where[1]))
       [] e.kind = "Binary" ->
            Grouped(e.left, e.op = "And" /\ op(e.left) = "Or")
            \o (IF e.op = "And" THEN Kw("and") ELSE Kw("or"))
            \o Grouped(e.right, op(e.right) = "Or" \/ op(e.right) = e.op)

(* The shorthand of HAS_DIRECT_TEXT is read as two comparisons that are not written so. *)
IsShorthand(cmp) == cmp.lhs.kind = "Operand" /\ cmp.lhs.field = "Tag" /\ cmp.lhs.attribute # ""

(* The predicate that was read, written again by the grammar, is read as the same      *)
(* predicate: the parser groups AND, OR and parentheses as the grammar does, and takes *)
(* every operand, list and function call for what it is.                               *)
PredicatesReadBack ==
  Accepted =>
    \A e \in Range(parsed.ast.where) :
      (~ \E n \in Nodes(e) : n.kind = "Compare" /\ IsShorthand(n))
        => \E back \in {Grammar["expr", PredicateWritten(e)]} : back.ok /\ back.rest = <<>> /\ back.ast = e

(***************************************************************************)
(* Names of sources.                                                       *)
(***************************************************************************)
Given(with) == {Fold(definition.name) : definition \in Range(with)}

RECURSIVE SourcesOf(_, _)
(* Every source of a query and of the queries in it, with the names defined where it stands. *)
SourcesOf(query, outer) ==
  IF query.kind # "select" THEN {}
  ELSE LET visible == outer \cup Given(query.with)
           sources == {query.source} \cup {query.joins[k].right : k \in DOMAIN query.joins}
       IN {[source |-> s, names |-> visible] : s \in sources}
          \cup UNION {SourcesOf(s.of[1], visible) : s \in {t \in sources : t.of # <<>>}}
          \cup UNION {SourcesOf(query.with[k].query,
                                outer \cup Given(SubSeq(query.with, 1, k - 1)))
                      : k \in DOMAIN query.with}

(* A source is the definition of its name where there is one in sight - an earlier one   *)
(* of the same WITH, or one of a query around it - and the document where there is none. *)
(* (The texts of these sessions give no other name to a document.)                       *)
NamesMeanDefinitions ==
  (kind = "sources" /\ Accepted) =>
    \A s \in SourcesOf(parsed.ast, {}) :
      /\ s.source.kind = "CteRef" => Fold(s.source.value) \in s.names
      /\ s.source.kind = "Document" => \A a \in Range(s.source.alias) : Fold(a) \notin s.names

(***************************************************************************)
(* Options of TABLE.                                                       *)
(***************************************************************************)
RECURSIVE Pieces(_, _)
Pieces(tokens, piece) ==
  CASE tokens = <<>> -> <<piece>>
    [] tokens # <<>> /\ Head(tokens).type = "Comma" -> <<piece>> \o Pieces(Tail(tokens), <<>>)
    [] OTHER -> Pieces(Tail(tokens), Append(piece, Head(tokens)))

(* The options of TO TABLE(...) are a set: written in the opposite order they are       *)
(* accepted as well and say the same, so a rule about two of them (SPARSE_SHAPE requires *)
(* FORMAT=SPARSE, no option twice) does not depend on which is read first.              *)
OptionsInAnyOrder ==
  (kind = "options" /\ typed # Sessions[session].seed /\ Last(typed).type = "RParen") =>
    \E back \in {parse(Sessions[session].seed
                       \o Listed(Reverse(Pieces(SubSeq(typed, Len(Sessions[session].seed) + 1, Len(typed) - 1), <<>>)))
                       \o Sign(")"))} :
      back.ok = parsed.ok /\ (parsed.ok => back.ast.to = parsed.ast.to)

(***************************************************************************)
(* Validation.                                                             *)
(***************************************************************************)
RECURSIVE Mirrored(_)
Mirrored(e) ==
  CASE e.kind = "Compare" -> e
    [] e.kind = "Exists" -> [e EXCEPT !.where = [k \in DOMAIN @ |-> Mirrored(@[k])]]
    [] e.kind = "Binary" -> Binary(e.op, Mirrored(e.right), Mirrored(e.left))

(* Whether a query is executed does not depend on the order its columns and the sides   *)
(* of its ANDs and ORs are written in: the checks that stop at the first aggregate, or  *)
(* compare each item with the first one, lose nothing behind it.                        *)
VerdictInAnyOrder ==
  Accepted =>
    validate_query_for_execution(parsed.ast)
      = validate_query_for_execution(
          [parsed.ast EXCEPT !.items = Reverse(@), !.where = [k \in DOMAIN @ |-> Mirrored(@[k])]])

RECURSIVE OperandsOf(_)
OperandsOf(s) ==
  CASE s.kind = "Operand" -> {s}
    [] s.kind = "Call" -> UNION {OperandsOf(s.args[k]) : k \in DOMAIN s.args}
    [] OTHER -> {}

(* Every operand of a query: on both sides of its comparisons and in its columns. *)
AllOperands(query) ==
  VisitedOperands(query)
  \cup UNION {OperandsOf(s) : s \in
        UNION {{cmp.lhs} \cup Range(cmp.rhs) : cmp \in VisitedCompares(query)}
        \cup UNION {Range(item.expr) : item \in Items(query)}}

(* "Validates that all qualifiers refer to the active source alias" and throws on       *)
(* unknown ones "to prevent silent misrouting" (query_validation_rules.cpp): no query   *)
(* that is executed names a source it does not have.                                    *)
QualifiersBound ==
  (Accepted /\ ~ relation_runtime(parsed.ast) /\ validate_query_for_execution(parsed.ast)) =>
    \A o \in AllOperands(parsed.ast) : \A q \in Range(o.qualifier) : KnownQualifier(parsed.ast, Fold(q))
=============================================================================
