------------------------------- MODULE Lexer --------------------------------
(***************************************************************************)
(* The lexer (src/src/lexer/mod.rs): from a source, a sequence of          *)
(* characters, to tokens and lexical errors.                               *)
(*                                                                         *)
(* A character stands for its class: one letter for the letters the lexer  *)
(* does not tell apart.  A keyword is one symbol, a run of letters; with a *)
(* letter or a digit beside it, it is part of a longer name, as in Rust.   *)
(***************************************************************************)
EXTENDS Naturals, Sequences

Eof       == "eof"
Quote     == "\""
Backslash == "\\"
Newline   == "\n"
White     == {" ", Newline}
Digits    == {"1"}
HexDigits == Digits \cup {"a", "b", "e"}
Keywords  == {"let", "fn", "if", "else", "match", "while", "for", "in", "break", "continue",
              "loop", "enum", "type", "struct", "actor", "state", "on", "spawn", "reply",
              "yield", "await", "shared", "transact", "retry", "import", "lazy", "as",
              "raise", "try", "rescue", "ensure", "return", "true", "false", "nil", "and",
              "or", "not"}
IdentStart    == {"a", "b", "e", "n", "u", "A", "_"} \cup Keywords
IdentContinue == IdentStart \cup Digits

\* Punctuation of two characters and of one; `&` and `#` alone are no tokens.
Pairs   == {<<":", ":">>, <<".", ".">>, <<"-", ">">>, <<"-", "=">>, <<"=", ">">>, <<"=", "=">>,
            <<"!", "=">>, <<"<", "=">>, <<">", "=">>, <<"+", "=">>, <<"*", "=">>, <<"/", "=">>,
            <<"%", "=">>, <<"&", "&">>, <<"|", "|">>, <<"|", ">">>, <<"#", "{">>}
Singles == {"(", ")", "{", "}", "[", "]", ",", ";", ":", ".", "-", "=", "!", "?", "<", ">",
            "+", "*", "/", "%", "|"}

\* One token: its kind (a keyword or a punctuation mark is its own), its
\* characters, and the parts of a string: literal runs and raw sources.
Token(kind, text, parts) == [k |-> kind, text |-> text, parts |-> parts]
EofToken      == Token(Eof, <<>>, <<>>)
Literal(text) == [raw |-> FALSE, text |-> text]
Raw(text)     == [raw |-> TRUE, text |-> text]

\* What reading from a place gives: where it ends, the tokens and the errors.
Read(at, toks, errs) == [at |-> at, toks |-> toks, errs |-> errs]

-----------------------------------------------------------------------------
(* The cursor: peek, peek2, and runs of characters.                        *)

RECURSIVE After(_, _, _), Until(_, _, _), AfterDigits(_, _), AfterComment(_, _, _),
          AfterNested(_, _), AfterInterpolation(_, _, _), StringBody(_, _, _, _, _, _),
          TokensFrom(_, _)

Ch(s, p) == IF p \in DOMAIN s THEN s[p] ELSE Eof

After(s, p, class) == IF Ch(s, p) \in class THEN After(s, p + 1, class) ELSE p
Until(s, p, class) == IF Ch(s, p) \in class \cup {Eof} THEN p ELSE Until(s, p + 1, class)

\* The place after the `*/` that ends depth nested comments, 0 for none.
AfterComment(s, p, depth) ==
  CASE Ch(s, p) = Eof                        -> 0
    [] Ch(s, p) = "/" /\ Ch(s, p + 1) = "*"  -> AfterComment(s, p + 2, depth + 1)
    [] Ch(s, p) = "*" /\ Ch(s, p + 1) = "/"  ->
         IF depth = 1 THEN p + 2 ELSE AfterComment(s, p + 2, depth - 1)
    [] OTHER                                 -> AfterComment(s, p + 1, depth)

Comment(s, p) ==
  LET end == AfterComment(s, p + 2, 1)
  IN IF end = 0 THEN Read(Len(s) + 1, <<>>, <<"unterminated comment">>) ELSE Read(end, <<>>, <<>>)

Word(s, p) ==
  LET end  == After(s, p, IdentContinue)
      text == SubSeq(s, p, end - 1)
      kind == IF Len(text) = 1 /\ text[1] \in Keywords \cup {"_"} THEN text[1] ELSE "Ident"
  IN Read(end, <<Token(kind, text, <<>>)>>, <<>>)

-----------------------------------------------------------------------------
(* Numbers.                                                                *)

AfterDigits(s, p) ==
  IF Ch(s, p) \in Digits \/ (Ch(s, p) = "_" /\ Ch(s, p + 1) \in Digits)
  THEN AfterDigits(s, p + 1) ELSE p

\* maybe_exponent: a malformed one is read all the same, with an error.
Exponent(s, p) ==
  LET digits == IF Ch(s, p + 1) \in {"+", "-"} THEN p + 2 ELSE p + 1
      end    == After(s, digits, Digits)
  IN IF Ch(s, p) # "e" THEN Read(p, <<>>, <<>>)
     ELSE Read(end, <<>>, IF end = digits THEN <<"no exponent digits", "invalid literal">> ELSE <<>>)

\* Mutant of Number: a point after the digits makes it a Decimal, read or not.
NumberByPoint(s, p) ==
  LET whole    == AfterDigits(s, p + 1)
      fraction == IF Ch(s, whole) = "." /\ Ch(s, whole + 1) \in Digits
                  THEN AfterDigits(s, whole + 1) ELSE whole
      exp      == Exponent(s, fraction)
      kind     == IF Ch(s, whole) = "." \/ exp.at # whole THEN "Decimal" ELSE "Int"
  IN Read(exp.at, <<Token(kind, SubSeq(s, p, exp.at - 1), <<>>)>>, exp.errs)

Number(s, p) ==
  LET whole    == AfterDigits(s, p + 1)
      fraction == IF Ch(s, whole) = "." /\ Ch(s, whole + 1) \in Digits
                  THEN AfterDigits(s, whole + 1) ELSE whole
      exp      == Exponent(s, fraction)
      kind     == IF exp.at = whole THEN "Int" ELSE "Decimal"
  IN Read(exp.at, <<Token(kind, SubSeq(s, p, exp.at - 1), <<>>)>>, exp.errs)

-----------------------------------------------------------------------------
(* Strings.                                                                *)

\* skip_nested_string_into: from after a quote to after the next that is not
\* escaped.
AfterNested(s, p) ==
  CASE Ch(s, p) = Eof       -> Read(Len(s) + 1, <<>>, <<"unterminated nested string">>)
    [] Ch(s, p) = Quote     -> Read(p + 1, <<>>, <<>>)
    [] Ch(s, p) = Backslash -> AfterNested(s, p + 2)
    [] OTHER                -> AfterNested(s, p + 1)

\* Mutant of AfterInterpolation: strings are not skipped.
AfterBraces(s, p, depth) ==
  CASE Ch(s, p) = Eof   -> Read(Len(s) + 1, <<>>, <<"unterminated interpolation">>)
    [] Ch(s, p) = "{"   -> AfterInterpolation(s, p + 1, depth + 1)
    [] Ch(s, p) = "}"   -> IF depth = 1 THEN Read(p + 1, <<>>, <<>>)
                           ELSE AfterInterpolation(s, p + 1, depth - 1)
    [] OTHER            -> AfterInterpolation(s, p + 1, depth)

\* collect_interpolation: to after the brace that brings depth to 0.  What is
\* not a brace or a quote is not looked at.
AfterInterpolation(s, p, depth) ==
  CASE Ch(s, p) = Eof   -> Read(Len(s) + 1, <<>>, <<"unterminated interpolation">>)
    [] Ch(s, p) = Quote -> LET n == AfterNested(s, p + 1)
                               r == AfterInterpolation(s, n.at, depth)
                           IN [r EXCEPT !.errs = n.errs \o @]
    [] Ch(s, p) = "{"   -> AfterInterpolation(s, p + 1, depth + 1)
    [] Ch(s, p) = "}"   -> IF depth = 1 THEN Read(p + 1, <<>>, <<>>)
                           ELSE AfterInterpolation(s, p + 1, depth - 1)
    [] OTHER            -> AfterInterpolation(s, p + 1, depth)

RawText(s, p, r) ==
  SubSeq(s, p, IF r.errs # <<>> /\ r.errs[Len(r.errs)] = "unterminated interpolation"
               THEN r.at - 1 ELSE r.at - 2)

\* Bound: the hex digits of an instance never spell more than a character.
UnicodeEscape(s, p) ==
  LET end == After(s, p + 1, HexDigits)
      bad == IF Ch(s, end) \in {"}", Eof} THEN <<>> ELSE <<"invalid hex digit">>
  IN IF Ch(s, p) # "{" THEN [at |-> p, text |-> <<>>, errs |-> <<"expected {">>]
     ELSE [at   |-> IF Ch(s, end) = "}" THEN end + 1 ELSE end,
           text |-> IF end = p + 1 THEN <<>> ELSE << <<"u", SubSeq(s, p + 1, end - 1)>> >>,
           errs |-> bad \o IF end = p + 1 THEN <<"invalid unicode escape">> ELSE <<>>]

Escapes(triple) ==
  {"n", "t", "r", Backslash, Quote, "{", "}"} \cup IF triple THEN {} ELSE {"0", "'"}
Escaped(c) == IF c = "n" THEN Newline ELSE c

Flush(parts, cur) == IF cur = <<>> THEN parts ELSE Append(parts, Literal(cur))

\* lex_string and lex_triple_string, from p, with the run cur not yet flushed.
StringBody(s, p, triple, cur, parts, errs) ==
  LET c == Ch(s, p)
      d == Ch(s, p + 1)
      Close(at, more) ==
        LET ps == Flush(parts, cur)
        IN [at |-> at, parts |-> IF ps = <<>> THEN <<Literal(<<>>)>> ELSE ps, errs |-> errs \o more]
  IN CASE triple /\ c = Quote /\ d = Quote /\ Ch(s, p + 2) = Quote -> Close(p + 3, <<>>)
       [] ~triple /\ c = Quote       -> Close(p + 1, <<>>)
       [] c = Eof                    -> Close(p, <<"unterminated string">>)
       [] c = Backslash /\ d = Eof   -> Close(p + 1, IF triple THEN <<>> ELSE <<"unterminated escape">>)
       [] c = Backslash /\ d = "u" /\ ~triple ->
            LET u == UnicodeEscape(s, p + 2)
            IN StringBody(s, u.at, triple, cur \o u.text, parts, errs \o u.errs)
       [] c = Backslash /\ ~(d = "u" /\ ~triple) /\ d # Eof ->
            IF d \in Escapes(triple)
            THEN StringBody(s, p + 2, triple, Append(cur, Escaped(d)), parts, errs)
            ELSE StringBody(s, p + 2, triple, cur, parts, Append(errs, "unknown escape"))
       [] c = "{" ->
            LET r == AfterInterpolation(s, p + 1, 1)
            IN StringBody(s, r.at, triple, <<>>, Append(Flush(parts, cur), Raw(RawText(s, p + 1, r))),
                          errs \o r.errs)
       [] OTHER -> StringBody(s, p + 1, triple, Append(cur, c), parts, errs)

String(s, p) ==
  LET triple == Ch(s, p + 1) = Quote /\ Ch(s, p + 2) = Quote
      body   == IF ~triple THEN p + 1 ELSE IF Ch(s, p + 3) = Newline THEN p + 4 ELSE p + 3
      r      == StringBody(s, body, triple, <<>>, <<>>, <<>>)
  IN Read(r.at, <<Token("Str", SubSeq(s, p, r.at - 1), r.parts)>>, r.errs)

-----------------------------------------------------------------------------
(* The main loop.                                                          *)

Punctuation(s, p) ==
  LET n    == IF <<Ch(s, p), Ch(s, p + 1)>> \in Pairs THEN 2 ELSE 1
      text == SubSeq(s, p, p + n - 1)
  IN Read(p + n, <<Token(IF n = 2 THEN text[1] \o text[2] ELSE text[1], text, <<>>)>>, <<>>)

\* One turn of the loop of next_token: white space, a comment and a character
\* that is no token give none.
NextToken(s, p) ==
  LET c == Ch(s, p)
      d == Ch(s, p + 1)
  IN CASE c = Eof                 -> Read(p, <<EofToken>>, <<>>)
       [] c \in White             -> Read(p + 1, <<>>, <<>>)
       [] c = "/" /\ d = "/"      -> Read(Until(s, p, {Newline}), <<>>, <<>>)
       [] c = "/" /\ d = "*"      -> Comment(s, p)
       [] c \in IdentStart        -> Word(s, p)
       [] c \in Digits            -> Number(s, p)
       [] c = Quote               -> String(s, p)
       [] /\ c \in Singles \/ <<c, d>> \in Pairs
          /\ ~(c = "/" /\ d \in {"/", "*"}) -> Punctuation(s, p)
       [] OTHER                   -> Read(p + 1, <<>>, <<"unexpected character">>)

\* tokenize, from p to the end.
TokensFrom(s, p) ==
  LET r == NextToken(s, p)
  IN IF Ch(s, p) = Eof THEN r
     ELSE LET rest == TokensFrom(s, r.at)
          IN Read(rest.at, r.toks \o rest.toks, r.errs \o rest.errs)

Tokenize(s) == TokensFrom(s, 1)
=============================================================================
