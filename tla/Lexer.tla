------------------------------- MODULE Lexer -------------------------------
(***************************************************************************)
(* The lexer of the query language (src/core/src/lang/parser/lexer.cpp).   *)
(*                                                                         *)
(* A text is a sequence of strings, each standing for one character of a   *)
(* class, or for a run of letters: "select" is as good a letter as "a".    *)
(* What the lexer decides - where a token ends, what is a comment, what a  *)
(* quote closes - depends on the classes alone.                            *)
(***************************************************************************)
EXTENDS Naturals, Sequences, FiniteSetsExt

CONSTANTS Letters,    \* what isalpha accepts, and runs of it
          Digits,
          Blanks,     \* what isspace accepts, the line break included
          CaseFold    \* the lower-case form of the letters that have another one

Fold(t) == IF t \in DOMAIN CaseFold THEN CaseFold[t] ELSE t

(* The words that are never identifiers; a keyword's type is its word. *)
Keywords ==
  {"select", "with", "from", "join", "left", "inner", "cross", "lateral", "on", "where",
   "and", "or", "in", "exists", "document", "limit", "exclude", "order", "by", "asc",
   "desc", "as", "to", "list", "count", "table", "csv", "parquet", "json", "ndjson",
   "raw", "parse", "contains", "has_direct_text", "like", "all", "any", "is", "not",
   "null", "case", "when", "then", "else", "end", "show", "describe", "project", "input",
   "inputs", "functions", "axes", "operators", "self"}

Punctuation ==
  [c \in {",", ":", ".", "(", ")", ";", "*", "=", "~"} |->
     CASE c = "," -> "Comma" [] c = ":" -> "Colon" [] c = "." -> "Dot"
       [] c = "(" -> "LParen" [] c = ")" -> "RParen" [] c = ";" -> "Semicolon"
       [] c = "*" -> "Star" [] c = "=" -> "Equal" [] c = "~" -> "RegexMatch"]

(* The operators of two characters, by the two characters. *)
TwoChars ==
  [cc \in {<<"!", "=">>, <<">", "=">>, <<"<", ">">>, <<"<", "=">>} |->
     CASE cc = <<">", "=">> -> "GreaterEqual"
       [] cc = <<"<", "=">> -> "LessEqual"
       [] OTHER -> "NotEqual"]

Quotes == {"'", "\""}
IdentStart == Letters \cup {"_"}
IdentChars == Letters \cup Digits \cup {"_", "-"}

At(s, i) == IF i <= Len(s) THEN s[i] ELSE "end of text"

(* The first position from i on that P holds of, or the one past the end. *)
FirstFrom(s, i, P(_)) == Min({j \in i .. Len(s) : P(j)} \cup {Len(s) + 1})

(* The text between two positions, the second one excluded. *)
Written(s, i, j) ==
  LET W[k \in i .. j] == IF k = i THEN "" ELSE W[k - 1] \o s[k - 1] IN W[j]

(* Mutant: the star that opens a block comment may close it. *)
BlockEnd_Overlapping(s, i) == FirstFrom(s, i + 1, LAMBDA j : At(s, j) = "*" /\ At(s, j + 1) = "/")

(***************************************************************************)
(* Blanks and comments before a token: where the token starts, or that a   *)
(* block comment is still open at the end of the text.                     *)
(***************************************************************************)
BlockEnd(s, i) == FirstFrom(s, i + 2, LAMBDA j : At(s, j) = "*" /\ At(s, j + 1) = "/")

skip_ws_and_comments(s, i) ==
  LET Skip[k \in 1 .. Len(s) + 3] ==
        CASE At(s, k) \in Blanks -> Skip[k + 1]
          [] At(s, k) = "-" /\ At(s, k + 1) = "-" ->
               Skip[FirstFrom(s, k + 2, LAMBDA j : At(s, j) = "\n")]
          [] At(s, k) = "/" /\ At(s, k + 1) = "*" ->
               IF BlockEnd(s, k) > Len(s) THEN [at |-> k, open |-> TRUE]
               ELSE Skip[BlockEnd(s, k) + 2]
          [] OTHER -> [at |-> k, open |-> FALSE]
  IN Skip[i]

(***************************************************************************)
(* One token: its type, its text, the position it starts at and the one    *)
(* the next token is looked for.                                           *)
(***************************************************************************)
Token(type, text, from, to) == [type |-> type, text |-> text, from |-> from, to |-> to]

(* A string ends at the next quote of its own kind or with the text; nothing escapes. *)
lex_string(s, i) ==
  LET close == FirstFrom(s, i + 1, LAMBDA j : At(s, j) = At(s, i)) IN
  Token("String", Written(s, i + 1, close), i, Min({close, Len(s)}) + 1)

lex_number(s, i) ==
  LET stop == FirstFrom(s, i, LAMBDA j : At(s, j) \notin Digits) IN
  Token("Number", Written(s, i, stop), i, stop)

lex_identifier_or_keyword(s, i) ==
  LET stop == FirstFrom(s, i, LAMBDA j : At(s, j) \notin IdentChars)
      word == Written(s, i, stop)
  IN Token(IF Fold(word) \in Keywords THEN Fold(word) ELSE "Identifier", word, i, stop)

(* A character no token starts with is passed over, and reads as the end of the text. *)
TokenAt(s, i) ==
  CASE i > Len(s) -> Token("End", "", i, i)
    [] At(s, i) \in DOMAIN Punctuation -> Token(Punctuation[At(s, i)], At(s, i), i, i + 1)
    [] <<At(s, i), At(s, i + 1)>> \in DOMAIN TwoChars ->
         Token(TwoChars[<<At(s, i), At(s, i + 1)>>], At(s, i) \o At(s, i + 1), i, i + 2)
    [] At(s, i) = ">" /\ At(s, i + 1) # "=" -> Token("Greater", ">", i, i + 1)
    [] At(s, i) = "<" /\ At(s, i + 1) \notin {">", "="} -> Token("Less", "<", i, i + 1)
    [] At(s, i) \in Quotes -> lex_string(s, i)
    [] At(s, i) \in Digits -> lex_number(s, i)
    [] At(s, i) \in IdentStart -> lex_identifier_or_keyword(s, i)
    [] OTHER -> Token("End", "", i, i + 1)

next(s, i) ==
  IF skip_ws_and_comments(s, i).open
  THEN Token("Invalid", "Unterminated block comment", skip_ws_and_comments(s, i).at, Len(s) + 1)
  ELSE TokenAt(s, skip_ws_and_comments(s, i).at)

(* The tokens a parser can be given: nothing is asked of the lexer after an End. *)
Lex(s) ==
  LET Add(t, Rest) == IF t.type \in {"End", "Invalid"} THEN <<t>> ELSE <<t>> \o Rest[t.to]
      From[i \in 1 .. Len(s) + 1] == Add(next(s, i), From)
  IN From[1]
=============================================================================
