------------------------------ MODULE Language ------------------------------
(***************************************************************************)
(* A query as it is written: the language modules, one step for each piece *)
(* of text that is added.  The parser keeps nothing between two texts, so  *)
(* what it answers is a function of what was typed; every text that can be *)
(* typed from the seed of a session is reached.                            *)
(***************************************************************************)
EXTENDS QueryValidation

CONSTANTS
  Sessions   \* by name: [kind, seed, phrases, most], what is there, what can follow, how long it gets

VARIABLES
  session,   \* which of them
  typed,     \* the text, or the tokens the lexer made of one
  parsed     \* what the parser answered
vars == <<session, typed, parsed>>

kind == Sessions[session].kind

ReadTokens(s) ==
  LET tokens == SelectSeq(Lex(s), LAMBDA t : t.type # "End") IN
  [k \in DOMAIN tokens |-> [type |-> tokens[k].type, text |-> tokens[k].text]]

Answer(name, text) == parse(IF Sessions[name].kind = "characters" THEN ReadTokens(text) ELSE text)

Init ==
  /\ session \in DOMAIN Sessions
  /\ typed = Sessions[session].seed
  /\ parsed = Answer(session, typed)

(* Tokens are not added behind an error: the parser stops at the first one. *)
Type ==
  /\ kind = "characters" \/ parsed.ok \/ parsed.rest = <<>>
  /\ \E phrase \in Sessions[session].phrases :
       /\ Len(typed) + Len(phrase) <= Sessions[session].most
       /\ typed' = typed \o phrase
  /\ parsed' = Answer(session, typed')
  /\ UNCHANGED session

Next == Type

Spec == Init /\ [][Next]_vars
=============================================================================
