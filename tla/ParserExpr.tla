----------------------------- MODULE ParserExpr -----------------------------
(***************************************************************************)
(* The recursive descent parser of expressions                             *)
(* (src/core/src/lang/parser/parser_expr.cpp, parser_expr_scalar.cpp,      *)
(* parser_select_extract.cpp, parser_util.cpp).                            *)
(*                                                                         *)
(* A parser function is given the tokens not yet consumed, current_ first  *)
(* and what peek() answers second, and returns a syntax tree and the       *)
(* tokens left, or that it failed and where: the tokens from the one the   *)
(* error is reported at.  Spans and the wording of errors are left out.    *)
(* Where the parser calls itself the operators have an argument G, the     *)
(* grammar: G[rule, tokens] is what the rule makes of the tokens.          *)
(* An optional part of a tree is a sequence of at most one element.        *)
(***************************************************************************)
EXTENDS Lexer, SequencesExt

CONSTANTS NumberValue,   \* what a numeral stands for
          SignedMax,     \* the largest 64-bit integer stoll returns
          UnsignedMax    \* the largest one stoull returns

ASSUME NumberAssumption == SignedMax <= UnsignedMax

Tokens == Seq([type : STRING, text : STRING])

current_(c) == IF c = <<>> THEN "End" ELSE Head(c).type
peek(c) == IF Len(c) < 2 THEN "End" ELSE c[2].type
Text(c) == IF c = <<>> THEN "" ELSE Head(c).text
to_lower(c) == Fold(Text(c))

Ok(c, tree) == [ok |-> TRUE, rest |-> c, ast |-> tree]
set_error(c) == [ok |-> FALSE, rest |-> c, ast |-> <<>>]
Then(r, F(_, _)) == IF r.ok THEN F(r.rest, r.ast) ELSE r
(* x before the rest of its list. *)
Prepend(x, more) == IF more.ok THEN [more EXCEPT !.ast = <<x>> \o @] ELSE more

(* The token of a type, and its text. *)
consume(c, type) == IF current_(c) = type THEN Ok(Tail(c), Text(c)) ELSE set_error(c)
(* A name where TABLE is one as well: a tag, a base tag, a base of a qualified name. *)
TagName(c) == IF current_(c) \in {"Identifier", "table"} THEN Ok(Tail(c), Text(c)) ELSE set_error(c)

(* One or more of what P reads, with a separator between them: the trees in order. *)
Separated(P, rule, sep, c) ==
  LET Chain(r, L) == IF ~ r.ok THEN r
                     ELSE IF current_(r.rest) # sep THEN Ok(r.rest, <<r.ast>>)
                     ELSE Prepend(r.ast, L[Tail(r.rest)])
      L[d \in Tokens] == Chain(P[rule, d], L)
  IN L[c]

(* What P reads, and the closing parenthesis. *)
Closed(r) == Then(r, LAMBDA d, tree : Then(consume(d, "RParen"), LAMBDA e, x : Ok(e, tree)))

(***************************************************************************)
(* Operands: [qualifier.] [axis.] field, attribute or attributes.          *)
(***************************************************************************)
AttrWords == {"attributes", "attr"}
FieldOf == [tag |-> "Tag", text |-> "Text", node_id |-> "NodeId", parent_id |-> "ParentId",
            sibling_pos |-> "SiblingPos", max_depth |-> "MaxDepth", doc_order |-> "DocOrder"]
Axes == {"parent", "child", "ancestor", "descendant"}

Operand(axis, field, attribute, qualifier) ==
  [kind |-> "Operand", axis |-> axis, field |-> field, attribute |-> attribute,
   qualifier |-> qualifier]

Attribute(c, axis, qualifier) ==
  Then(consume(c, "Identifier"), LAMBDA d, a : Ok(d, Operand(axis, "Attribute", a, qualifier)))

(* After the word attributes: the attribute named, or the map of all of them. *)
AttributeOrMap(c, qualifier) ==
  IF current_(c) = "Dot" THEN Attribute(Tail(c), "self", qualifier)
  ELSE Ok(c, Operand("self", "AttributesMap", "", qualifier))

(* After the name of an axis: only its fields and its named attributes. *)
AxisOperand(c, axis, qualifier) ==
  Then(consume(c, "Dot"), LAMBDA d, x :
    IF current_(d) # "Identifier" THEN set_error(d)
    ELSE IF to_lower(d) \in AttrWords
         THEN Then(consume(Tail(d), "Dot"), LAMBDA e, y : Attribute(e, axis, qualifier))
    ELSE IF to_lower(d) \in DOMAIN FieldOf
         THEN Ok(Tail(d), Operand(axis, FieldOf[to_lower(d)], "", qualifier))
    ELSE set_error(d))

(* self.field: a field, attributes, and no other name. *)
SelfOperand(c) ==
  Then(consume(c, "Dot"), LAMBDA d, x :
    IF current_(d) # "Identifier" THEN set_error(d)
    ELSE IF to_lower(d) \in AttrWords THEN AttributeOrMap(Tail(d), <<"self">>)
    ELSE IF to_lower(d) \in DOMAIN FieldOf
         THEN Ok(Tail(d), Operand("self", FieldOf[to_lower(d)], "", <<"self">>))
    ELSE set_error(d))

(* After qualifier and dot: any other name is an attribute of the row. *)
QualifiedOperand(c, qualifier) ==
  IF current_(c) \notin {"Identifier", "table", "self"} THEN set_error(c)
  ELSE IF to_lower(c) \in AttrWords THEN AttributeOrMap(Tail(c), qualifier)
  ELSE IF to_lower(c) \in DOMAIN FieldOf
       THEN Ok(Tail(c), Operand("self", FieldOf[to_lower(c)], "", qualifier))
  ELSE IF to_lower(c) \in Axes THEN AxisOperand(Tail(c), to_lower(c), qualifier)
  ELSE Ok(Tail(c), Operand("self", "Attribute", Text(c), qualifier))

(* A name that is not a field or an axis is an attribute, or a qualifier before a dot. *)
BareOperand(c) ==
  IF to_lower(c) \in AttrWords THEN AttributeOrMap(Tail(c), <<>>)
  ELSE IF to_lower(c) \in DOMAIN FieldOf
       THEN Ok(Tail(c), Operand("self", FieldOf[to_lower(c)], "", <<>>))
  ELSE IF to_lower(c) \in Axes THEN AxisOperand(Tail(c), to_lower(c), <<>>)
  ELSE IF peek(c) = "Dot" THEN QualifiedOperand(Tail(Tail(c)), <<Text(c)>>)
  ELSE Ok(Tail(c), Operand("self", "Attribute", Text(c), <<>>))

parse_operand(c) ==
  CASE current_(c) = "self" -> SelfOperand(Tail(c))
    [] current_(c) \in {"Identifier", "table"} -> BareOperand(c)
    [] OTHER -> set_error(c)

(***************************************************************************)
(* Scalar expressions.                                                     *)
(***************************************************************************)
Str(t) == [kind |-> "Str", string |-> t]
Num(t) == [kind |-> "Num", number |-> NumberValue[t]]
Null == [kind |-> "Null"]
SelfRef == [kind |-> "SelfRef"]
Call(fn, args) == [kind |-> "Call", fn |-> fn, args |-> args]

Signed(c) == NumberValue[Text(c)] <= SignedMax
Unsigned(c) == NumberValue[Text(c)] <= UnsignedMax

IntegerLiteral(c) ==
  IF current_(c) = "Number" /\ Signed(c) THEN Ok(Tail(c), Num(Text(c))) ELSE set_error(c)

(* What TEXT, INNER_HTML and ATTR are asked of: the row's node, or a tag by name. *)
NodeOrTag(c) ==
  IF current_(c) = "self" THEN Ok(Tail(c), SelfRef)
  ELSE Then(TagName(c), LAMBDA d, t : Ok(d, Str(Fold(t))))

Depth(c) ==
  IF current_(c) = "Identifier" /\ to_lower(c) = "max_depth"
  THEN Ok(Tail(c), Operand("self", "MaxDepth", "", <<>>))
  ELSE IntegerLiteral(c)

PositionCall(G, c) ==
  Then(G["scalar", c], LAMBDA d, needle :
    Then(consume(d, "in"), LAMBDA e, x :
      Then(Closed(G["scalar", e]), LAMBDA f, haystack :
        Ok(f, Call("position", <<needle, haystack>>)))))

ExtractionCall(fn, c) ==
  Then(NodeOrTag(c), LAMBDA d, node :
    IF fn \in {"inner_html", "raw_inner_html"} /\ current_(d) = "Comma"
    THEN Then(Closed(Depth(Tail(d))), LAMBDA e, depth : Ok(e, Call(fn, <<node, depth>>)))
    ELSE Closed(Ok(d, Call(fn, <<node>>))))

AttrCall(c) ==
  Then(NodeOrTag(c), LAMBDA d, node :
    Then(consume(d, "Comma"), LAMBDA e, x :
      Then(Closed(consume(e, "Identifier")), LAMBDA f, a :
        Ok(f, Call("attr", <<node, Str(Fold(a))>>)))))

PlainCall(G, fn, c) ==
  IF current_(c) = "RParen" THEN Ok(Tail(c), Call(fn, <<>>))
  ELSE Then(Closed(Separated(G, "scalar", "Comma", c)), LAMBDA d, args : Ok(d, Call(fn, args)))

(* c starts after the opening parenthesis. *)
parse_scalar_function(G, fn, c) ==
  CASE fn = "position" -> PositionCall(G, c)
    [] fn \in {"text", "direct_text", "inner_html", "raw_inner_html"} -> ExtractionCall(fn, c)
    [] fn = "attr" -> AttrCall(c)
    [] OTHER -> PlainCall(G, fn, c)

parse_scalar_expr(G, c) ==
  CASE current_(c) = "String" -> Ok(Tail(c), Str(Text(c)))
    [] current_(c) = "Number" -> IntegerLiteral(c)
    [] current_(c) = "null" -> Ok(Tail(c), Null)
    [] current_(c) = "self" /\ peek(c) # "Dot" -> Ok(Tail(c), SelfRef)
    [] current_(c) \notin {"Identifier", "table", "self"} -> set_error(c)
    [] current_(c) \in {"Identifier", "table"} /\ peek(c) = "LParen" ->
         parse_scalar_function(G, to_lower(c), Tail(Tail(c)))
    [] OTHER -> G["operand", c]

(* A string, or a list of strings in parentheses. *)
StringGrammar[rule \in {"string"}, c \in Tokens] == consume(c, "String")
parse_string_list(c) ==
  IF current_(c) = "LParen" THEN Closed(Separated(StringGrammar, "string", "Comma", Tail(c)))
  ELSE Then(consume(c, "String"), LAMBDA d, t : Ok(d, <<t>>))

(***************************************************************************)
(* Predicates.                                                             *)
(***************************************************************************)
Binary(op, l, r) == [kind |-> "Binary", op |-> op, left |-> l, right |-> r]
Exists(axis, where) == [kind |-> "Exists", axis |-> axis, where |-> where]
(* rhs: the scalars compared with; rhs.values of the code are its literals. *)
Compare(op, lhs, rhs) == [kind |-> "Compare", op |-> op, lhs |-> lhs, rhs |-> rhs]

CompareOp == [Equal |-> "Eq", NotEqual |-> "NotEq", Less |-> "Lt", LessEqual |-> "Lte",
              Greater |-> "Gt", GreaterEqual |-> "Gte", RegexMatch |-> "Regex", like |-> "Like"]

LeftFold(op, trees) ==
  FoldLeft(LAMBDA l, r : Binary(op, l, r), Head(trees), Tail(trees))

ParenthesizedPredicate(G, c) == Closed(G["expr", c])

(* EXISTS(axis [WHERE predicate]), c after the word. *)
ExistsPredicate(G, c) ==
  Then(consume(c, "LParen"), LAMBDA d, x :
    IF current_(d) \notin {"Identifier", "self"} \/ to_lower(d) \notin Axes \cup {"self"}
    THEN set_error(d)
    ELSE IF current_(Tail(d)) = "where"
         THEN Then(Closed(G["expr", Tail(Tail(d))]), LAMBDA e, w : Ok(e, Exists(to_lower(d), <<w>>)))
         ELSE Closed(Ok(Tail(d), Exists(to_lower(d), <<>>))))

(* tag HAS_DIRECT_TEXT 'needle': the tag is asked for, and its own text. *)
DirectTextShorthand(c) ==
  Then(consume(Tail(Tail(c)), "String"), LAMBDA d, needle :
    Ok(d, Binary("And",
            Compare("Eq", Operand("self", "Tag", "tag", <<>>), <<Str(to_lower(c))>>),
            Compare("Like", Call("direct_text", <<Str(to_lower(c))>>),
                    <<Str("%" \o needle \o "%")>>))))

ContainsRest(c, lhs, op) ==
  Then(parse_string_list(c), LAMBDA d, values :
    IF op = "Contains" /\ Len(values) # 1 THEN set_error(d)
    ELSE Ok(d, Compare(op, lhs, [k \in DOMAIN values |-> Str(values[k])])))

InRest(G, c, lhs) ==
  IF current_(c) = "LParen"
  THEN Then(Closed(Separated(G, "scalar", "Comma", Tail(c))),
            LAMBDA d, values : Ok(d, Compare("In", lhs, values)))
  ELSE Then(G["scalar", c], LAMBDA d, v : Ok(d, Compare("In", lhs, <<v>>)))

IsRest(c, lhs) ==
  IF current_(c) = "not"
  THEN Then(consume(Tail(c), "null"), LAMBDA d, x : Ok(d, Compare("IsNotNull", lhs, <<>>)))
  ELSE Then(consume(c, "null"), LAMBDA d, x : Ok(d, Compare("IsNull", lhs, <<>>)))

DirectTextRest(c, lhs) ==
  IF ~ (lhs.kind = "Operand" /\ lhs.field = "Tag") THEN set_error(c)
  ELSE Then(consume(c, "String"), LAMBDA d, t : Ok(d, Compare("HasDirectText", lhs, <<Str(t)>>)))

(* After the left-hand side: the operator, and what it takes. *)
ComparisonRest(G, c, lhs) ==
  CASE current_(c) = "contains" /\ peek(c) = "all" -> ContainsRest(Tail(Tail(c)), lhs, "ContainsAll")
    [] current_(c) = "contains" /\ peek(c) = "any" -> ContainsRest(Tail(Tail(c)), lhs, "ContainsAny")
    [] current_(c) = "contains" /\ peek(c) \notin {"all", "any"} -> ContainsRest(Tail(c), lhs, "Contains")
    [] current_(c) = "has_direct_text" -> DirectTextRest(Tail(c), lhs)
    [] current_(c) = "in" -> InRest(G, Tail(c), lhs)
    [] current_(c) = "is" -> IsRest(Tail(c), lhs)
    [] current_(c) \in DOMAIN CompareOp ->
         Then(G["scalar", Tail(c)], LAMBDA d, v :
                Ok(d, Compare(CompareOp[current_(c)], lhs, <<v>>)))
    [] OTHER -> set_error(c)

parse_cmp_expr(G, c) ==
  CASE current_(c) = "LParen" -> ParenthesizedPredicate(G, Tail(c))
    [] current_(c) = "exists" -> ExistsPredicate(G, Tail(c))
    [] current_(c) = "Identifier" /\ peek(c) = "has_direct_text" -> DirectTextShorthand(c)
    [] OTHER -> Then(G["scalar", c], LAMBDA d, lhs : ComparisonRest(G, d, lhs))

(* Mutant: AND and OR are read at one level, AND first where it comes first. *)
parse_expr_OneLevel(G, c) ==
  Then(G["and", c], LAMBDA d, left :
    IF current_(d) = "or" THEN Then(G["expr", Tail(d)], LAMBDA e, right : Ok(e, Binary("Or", left, right)))
    ELSE Ok(d, left))

parse_expr(G, c) ==
  Then(Separated(G, "and", "or", c), LAMBDA d, trees : Ok(d, LeftFold("Or", trees)))

parse_and_expr(G, c) ==
  Then(Separated(G, "cmp", "and", c), LAMBDA d, trees : Ok(d, LeftFold("And", trees)))
=============================================================================
