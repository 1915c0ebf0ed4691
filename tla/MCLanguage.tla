----------------------------- MODULE MCLanguage -----------------------------
(* Language for TLC.  A session is a place in the grammar and the pieces it can go on with. *)
EXTENDS LanguageProperties

MCLetters == {"a", "x", "select", "from", "where", "id", "doc", "or", "b"}
MCDigits == {"0", "7"}
MCBlanks == {" ", "\n"}
MCCaseFold == ("A" :> "a" @@ "SELECT" :> "select" @@ "TEXT" :> "text")

(* 8 and 9 are one beyond the integers that stoll and stoull read. *)
Numerals == ("0" :> 0 @@ "1" :> 1 @@ "2" :> 2 @@ "3" :> 3 @@ "4" :> 4 @@ "8" :> 8 @@ "9" :> 9
             @@ "7" :> 7 @@ "77" :> 4 @@ "70" :> 4 @@ "07" :> 7 @@ "00" :> 0)
MCNumberValue == Numerals
MCSignedMax == 7
MCUnsignedMax == 8
MCMaxLimit == 3
MCLongPatterns == {"long"}

Quoted == [k \in {"'k'", "'tag'", "'long'", "'p'", "''"} |->
             CASE k = "'k'" -> "k" [] k = "'tag'" -> "tag" [] k = "'long'" -> "long"
               [] k = "'p'" -> "p" [] k = "''" -> ""]
Operators == ("<" :> "Less" @@ ">=" :> "GreaterEqual" @@ "<>" :> "NotEqual")

TokenOf(w) ==
  CASE Fold(w) \in Keywords -> [type |-> Fold(w), text |-> w]
    [] w \in DOMAIN Punctuation -> [type |-> Punctuation[w], text |-> w]
    [] w \in DOMAIN Operators -> [type |-> Operators[w], text |-> w]
    [] w \in DOMAIN Numerals -> [type |-> "Number", text |-> w]
    [] w \in DOMAIN Quoted -> [type |-> "String", text |-> Quoted[w]]
    [] OTHER -> [type |-> "Identifier", text |-> w]

T(words) == [k \in DOMAIN words |-> TokenOf(words[k])]
Phrases(set) == {T(words) : words \in set}
Session(kind_, seed, phrases, more) ==
  [kind |-> kind_, seed |-> T(seed), phrases |-> Phrases(phrases), most |-> Len(seed) + more]
Text_(kind_, seed, characters, more) ==
  [kind |-> kind_, seed |-> seed, phrases |-> {<<c>> : c \in characters}, most |-> Len(seed) + more]

Where == <<"select", "a", "from", "doc", "where">>

(* AND, OR, parentheses and EXISTS between predicates that are whole. *)
Boolean == Session("predicates", Where,
  {<<"id", "is", "null">>, <<"self", ".", "tag", "=", "'k'">>, <<"and">>, <<"or">>, <<"(">>, <<")">>,
   <<"exists", "(", "child", "where">>, <<"exists", "(", "self", ")">>}, 14)

(* One comparison, piece by piece: operands, operators and what they take. *)
Operands == Session("predicates", Where,
  {<<"tag">>, <<"A">>, <<"attributes">>, <<".">>, <<"self", ".">>, <<"parent">>, <<"has_direct_text">>,
   <<"=">>, <<"contains">>, <<"all">>, <<"any">>, <<"is">>, <<"not">>, <<"null">>, <<"in">>,
   <<"(", "'k'">>, <<")">>, <<",">>, <<"'k'">>, <<"TEXT">>, <<"~">>, <<"'long'">>}, 5)

(* Function calls, on both sides. *)
Calls == Session("predicates", Where,
  {<<"TEXT", "(">>, <<"attr", "(">>, <<"inner_html", "(">>, <<"position", "(">>, <<"lower", "(">>,
   <<"self">>, <<"A">>, <<"max_depth">>, <<"'k'">>, <<"1">>, <<"8">>, <<"in">>, <<",">>, <<")">>,
   <<"<", "1">>, <<"table">>}, 7)

(* SELECT lists, with the clauses that decide whether they are executed. *)
Columns_ == Session("items", <<"select">>,
  {<<"a">>, <<"b">>, <<"*">>, <<"self">>, <<"a", ".", "href">>, <<"self", ".", "href">>,
   <<"b", ".", "text">>, <<"a", "(", "href", ",", "rel", ")">>, <<",">>,
   <<"count", "(", "a", ")">>, <<"count", "(", "*", ")">>, <<"summarize", "(", "*", ")">>,
   <<"tfidf", "(", "a", ")">>, <<"flatten", "(", "a", ")">>, <<"flatten", "(", "a", ",", "1", ")">>,
   <<"project", "(", "a", ")", "as", "(", "x", ":", "tag", ")">>,
   <<"TEXT", "(", "a", ")">>, <<"TEXT", "(", "self", ")">>, <<"inner_html", "(", "a", ",", "1", ")">>,
   <<"inner_html", "(", "a", ")">>, <<"trim", "(", "a", ".", "href", ")">>, <<"lower", "(", "b", ")">>,
   <<"trim", "(", "a", ".", "attributes", ")">>, <<"first_attr", "(", "a", ",", "href", ")">>,
   <<"as", "x">>, <<"as", "(", "x", ",", "y", ")">>,
   <<"from", "doc">>, <<"to", "list", "(", ")">>, <<"order", "by", "tag">>, <<"where", "id", "is", "null">>},
  10)

(* PROJECT: selectors, CASE, COALESCE and the comparisons between them. *)
Project == <<"select", "project", "(", "a", ")", "as", "(", "x", ":">>
Extracts == Session("project", Project,
  {<<"TEXT", "(", "a">>, <<"attr", "(", "a", ",", "href">>, <<"last_text", "(", "a">>,
   <<"where", "b", ".", "tag", "=", "'k'">>, <<",">>, <<",", "1">>, <<",", "0">>, <<"8">>, <<",", "last">>, <<")">>,
   <<"case", "when", "href", "is", "null", "then">>, <<"else">>, <<"end">>, <<"coalesce", "(">>,
   <<"lower", "(">>, <<"null">>, <<"b">>, <<"doc", ".", "tag">>, <<"<">>, <<"'k'">>,
   <<"y", ":">>, <<")", "from", "doc">>}, 9)

(* TFIDF and its options. *)
Terms == Session("terms", <<"select", "tfidf", "(">>,
  {<<"a">>, <<"*">>, <<",">>, <<"top_terms", "=">>, <<"min_df", "=", "2">>, <<"max_df", "=", "1">>, <<"0">>,
   <<"stopwords", "=">>, <<"off">>, <<"english">>, <<"9">>, <<")", "from", "doc">>}, 11)

(* WITH, derived tables and joins. *)
Definitions_ == Session("sources", <<"with", "a", "as", "(", "select", "x", "from">>,
  {<<",", "b", "as", "(", "select", "x", "from">>, <<",", "a", "as", "(", "select", "x", "from">>,
   <<")", "select", "x", "from">>, <<"A">>, <<"b">>, <<"'p'">>, <<"cross", "join">>}, 18)
Nested == Session("sources", <<"with", "a", "as", "(", "select", "x", "from">>,
  {<<"(", "with", "b", "as", "(", "select", "x", "from">>, <<")", "select", "x", "from">>,
   <<"A">>, <<"b">>, <<"'p'">>, <<")">>}, 24)

Froms == Session("froms", <<"select", "x", "from">>,
  {<<"a">>, <<"doc">>, <<"document">>, <<"raw", "(", "'k'", ")">>, <<"parse", "(">>, <<"'p'">>, <<"as">>,
   <<"as", "b">>, <<"(", "select", "x", "from">>, <<")">>, <<";">>,
   <<"join">>, <<"left", "join">>, <<"inner">>, <<"cross", "join">>, <<"lateral">>,
   <<"on", "a", ".", "id", "=", "b", ".", "id">>}, 8)

(* The clauses behind FROM, and the statements that have none. *)
Tails == Session("tails", <<>>,
  {<<"select", "x", "from", "doc">>, <<"select", "*">>, <<"select", "summarize", "(", "*", ")">>, <<"exclude">>,
   <<"(", "tag", ",", "A", ")">>, <<"tag">>, <<"from", "doc">>, <<"order", "by">>, <<"b", ".", "tag">>, <<"desc">>,
   <<"asc">>, <<",">>, <<"limit">>, <<"4">>, <<"9">>, <<"to">>, <<"csv", "(">>, <<"json", "(">>, <<"list", "(">>,
   <<"''">>, <<"'p'">>, <<")">>, <<";">>, <<"show">>, <<"describe">>, <<"axes">>, <<"language">>, <<"document">>}, 10)

(* Options of TABLE. *)
Options == Session("options", <<"select", "table", "from", "doc", "to", "table", "(">>,
  {<<"noheader">>, <<"header">>, <<"header", "=", "off">>, <<"format", "=", "sparse">>, <<"format", "rect">>,
   <<"sparse_shape", "=", "wide">>, <<"trim_empty_cols", "=", "all">>, <<"empty_is">>, <<"null_only">>,
   <<"export", "'p'">>, <<"trim_empty_rows", "on">>, <<"header_normalize", "off">>,
   <<"stop_after_empty_rows", "=", "2">>, <<",">>, <<")">>}, 11)

(* Characters. *)
Comments == Text_("characters", <<>>, {"a", "-", "/", "*", "'", "\"", "\n", "7", "="}, 4)
Words == Text_("characters", <<"select", " ", "a", " ", "from">>, {"doc", " ", "-", "'", "#", "\n"}, 4)

MCSessions ==
  [boolean |-> Boolean, operands |-> Operands, calls |-> Calls, columns |-> Columns_,
   extracts |-> Extracts, terms |-> Terms, definitions |-> Definitions_, nested |-> Nested, froms |-> Froms, tails |-> Tails,
   options |-> Options, comments |-> Comments, words |-> Words]

(* A name that is no source, on either side of a comparison and in a column. *)
QualifierSessions == [qualifiers |-> Session("predicates", Where,
  {<<"b", ".", "id">>, <<"doc", ".", "id">>, <<"id">>, <<"=">>, <<"is", "null">>, <<"and">>}, 7)]
=============================================================================
