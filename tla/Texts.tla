-------------------------------- MODULE Texts ---------------------------------
(***************************************************************************)
(* The functions on strings that the values of a result are made with       *)
(* (util/string_util.cpp, runtime/engine/execute_common.cpp).               *)
(*                                                                          *)
(* A text is the sequence of its pieces: letters, the space " ", signs and  *)
(* numerals without a sign.  A no-break space is two pieces, its two bytes, *)
(* for some of the functions read bytes and others whole characters.        *)
(***************************************************************************)
EXTENDS Integers, SequencesExt, FiniteSetsExt

CONSTANTS
    Numerals,   \* the integers that an int64_t may hold
    Small       \* the small letter of each capital

ASSUME SmallAssumption == \A c \in DOMAIN Small : Small[c] \notin DOMAIN Small

Blank == {" "}               \* what isspace accepts
NoBreak == {"C2", "A0"}      \* the bytes of a no-break space

to_string(n) == IF n < 0 THEN <<"-", ToString(-n)>> ELSE <<ToString(n)>>

\* The place of the first and the last piece that is none of the spaces.
Solid(s, spaces) == {k \in DOMAIN s : s[k] \notin spaces}

From(s, spaces) == IF Solid(s, spaces) = {} THEN <<>> ELSE SubSeq(s, Min(Solid(s, spaces)), Len(s))

UpTo(s, spaces) == IF Solid(s, spaces) = {} THEN <<>> ELSE SubSeq(s, 1, Max(Solid(s, spaces)))

\* Whether the two bytes of a no-break space begin at a place.
no_break(s, k) == k \in 1 .. Len(s) - 1 /\ s[k] = "C2" /\ s[k + 1] = "A0"

\* It goes on by one byte: a no-break space at the beginning leaves its second byte
\* behind, one at the end its first.
trim_ws(s) ==
    LET Leads(k) == s[k] \in Blank \/ no_break(s, k)
        Trails(k) == s[k] \in Blank \/ no_break(s, k - 1)
    IN  SubSeq(s, Min({k \in DOMAIN s : ~Leads(k)} \cup {Len(s) + 1}),
                  Max({k \in DOMAIN s : ~Trails(k)} \cup {0}))

\* Runs of spaces are one space.
Squeezed(s) ==
    FoldLeft(LAMBDA out, c : IF c \in Blank /\ out # <<>> /\ Last(out) \in Blank THEN out
                             ELSE Append(out, c),
             <<>>, s)

normalize_flatten_text(s) == Squeezed(trim_ws(s))

\* Here a no-break space is taken whole.
normalize_table_whitespace(s) ==
    LET plain == [k \in DOMAIN s |-> IF no_break(s, k) \/ no_break(s, k - 1) THEN " " ELSE s[k]]
    IN  Squeezed(From(UpTo(plain, Blank), Blank))

\* The numeral pieces, each with its number, and the number of its digits.
numeral == [c \in {ToString(n) : n \in Numerals \cap Nat} |->
              CHOOSE n \in Numerals \cap Nat : ToString(n) = c]

Digits(n) == Min({k \in 1..9 : n < 10 ^ k})

\* As std::stoll reads it: spaces, a sign, and numerals up to the end of the text; a
\* number that is too large is none.
parse_int64_value(s) ==
    LET solid == From(s, Blank)
        digits == IF solid # <<>> /\ solid[1] \in {"+", "-"} THEN Tail(solid) ELSE solid
        size == FoldLeft(LAMBDA n, c : n * 10 ^ Digits(numeral[c]) + numeral[c], 0, digits)
    IN  IF digits = <<>> \/ ~(ToSet(digits) \subseteq DOMAIN numeral) THEN {}
        ELSE Numerals \cap {IF solid[1] = "-" THEN -size ELSE size}

\* The words of a text, and the text of some words.
split(s) == LET w == FoldLeft(LAMBDA out, c : IF c \in Blank THEN Append(out, <<>>)
                                             ELSE Front(out) \o <<Append(Last(out), c)>>,
                              <<<<>>>>, s)
            IN  SelectSeq(w, LAMBDA x : x # <<>>)

Spaced(words) == FlattenSeq([k \in DOMAIN words |->
                                IF k = 1 THEN words[k] ELSE <<" ">> \o words[k]])

to_lower(s) == [k \in DOMAIN s |-> IF s[k] \in DOMAIN Small THEN Small[s[k]] ELSE s[k]]

to_upper(s) == [k \in DOMAIN s |->
                   IF \E c \in DOMAIN Small : Small[c] = s[k]
                   THEN CHOOSE c \in DOMAIN Small : Small[c] = s[k] ELSE s[k]]

\* The first place from start on where a text is found in another, counted from
\* 1, or 0; the empty text is found everywhere, the end included.
find(needle, s, start) ==
    LET at == {k \in start .. Len(s) - Len(needle) + 1 : SubSeq(s, k, k + Len(needle) - 1) = needle}
    IN  IF at = {} THEN 0 ELSE Min(at)

\* From the left; what was put in is not read again.
replace(s, from, to) ==
    LET F[start \in Nat] ==
          LET at == find(from, s, start)
          IN  IF at = 0 THEN SubSeq(s, start, Len(s))
              ELSE SubSeq(s, start, at - 1) \o to \o F[at + Len(from)]
    IN  IF from = <<>> THEN s ELSE F[1]

\* At most length pieces from a place counted from 1; an earlier one is the first.
substring(s, start, length) ==
    LET first == Max({1, start})
        last == IF length = {} THEN Len(s) ELSE Min({Len(s)} \cup {first + l - 1 : l \in length})
    IN  SubSeq(s, first, last)

\* like_match_ci.  star and match are what a mismatch goes back to: the place of
\* the last % met in the pattern, and how far it has reached in the text.
like_match_ci(text, pattern) ==
    LET s == to_lower(text)
        p == to_lower(pattern)
        Rest(pi) == \A k \in pi .. Len(p) : p[k] = "%"
        Match[si \in Nat, pi \in Nat, star \in Nat, match \in Nat] ==
          IF si > Len(s) THEN Rest(pi)
          ELSE IF pi <= Len(p) /\ p[pi] \in {"_", s[si]} THEN Match[si + 1, pi + 1, star, match]
          ELSE IF pi <= Len(p) /\ p[pi] = "%" THEN Match[si, pi + 1, pi, si]
          ELSE star # 0 /\ Match[match + 1, star + 1, star, match + 1]
    IN  Match[1, 1, 0, 0]
=============================================================================
