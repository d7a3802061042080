----------------------------- MODULE MCFrontEnd -----------------------------
(* TLC's instance of FrontEnd: short sources over small alphabets, each     *)
(* made for a part of the lexer or of the grammar, and syntax trees.        *)
EXTENDS FrontEnd, AstValue

Strings(cs, n) == UNION {[1..k -> cs] : k \in 0..n}
After_(prefix, cs, n) == {prefix \o s : s \in Strings(cs, n)}

Lexical ==
  UNION {After_(<<Quote>>, {Quote, Backslash, "{", "}", "a"}, 5),
         After_(<<Quote, Quote, Quote>>, {Quote, Backslash, "{", "a"}, 5),
         After_(<<Quote, Backslash, "u">>, {"{", "}", "a", "n", Quote}, 4),
         Strings({"/", "*", Newline, "a"}, 5),
         Strings({"1", "_", ".", "e", "-"}, 5),
         Strings({":", ".", "-", ">", "=", "!", "<", "&", "|", "#", "{"}, 3),
         {InString(c) : c \in Strings({Quote, "{", "}", "a", "/", "*"}, 5)}}

\* Tokens with white space between them.
Chars(t) == CASE t = "==" -> <<"=", "=">> [] t = "|>" -> <<"|", ">">> [] t = "=>" -> <<"=", ">">>
              [] t = "->" -> <<"-", ">">> [] t = ".." -> <<".", ".">> [] t = "#{" -> <<"#", "{">>
              [] OTHER -> <<t>>
Spaced(s) == FlattenSeq([i \in DOMAIN s |-> Chars(s[i]) \o <<" ">>])

Grammatical ==
  {Spaced(s) : s \in UNION {
     Strings({"a", "+", "*", "-", "not", "==", "|>", "=", "(", ")"}, 4),
     Strings({"let", "a", "=", ";", "{", "}"}, 5),
     After_(<<"{">>, {"a", ":", ",", ";", "}", "let"}, 5),
     After_(<<"fn">>, {"a", "(", ")", "{", "}", ",", "->"}, 5),
     After_(<<"if", "a">>, {"if", "else", "a", "{", "}", "return", ";"}, 4),
     After_(<<"match", "a", "{">>, {"a", "1", "_", "|", "=>", ",", "}", "[", "]", "if"}, 4),
     After_(<<"match", "a", "{">>, {"A", "(", "a", ")", "=>", "}", ",", "{", ".."}, 4),
     After_(<<"let", "a", ":">>, {"a", "<", ">", ",", "|", "fn", "(", ")", "->", "="}, 4),
     After_(<<"try", "a">>, {"rescue", "a", "as", "ensure", "{", "}", ";"}, 4),
     After_(<<"actor", "a", "{">>, {"state", "on", "a", "=", "(", ")", "}"}, 4),
     After_(<<"import">>, {"a", ".", "as", "lazy", "import", ";"}, 4),
     After_(<<"type", "a", "=", "{">>, {"a", ":", ",", "}"}, 5),
     After_(<<"enum", "a", "{">>, {"a", "(", ")", ",", "}"}, 5),
     After_(<<"for", "a">>, {"in", "a", "{", "}", "break", ";"}, 4),
     After_(<<"shared">>, {"a", "=", ":", "{", "}"}, 4),
     After_(<<"a">>, {"a", "(", ")", ".", "[", "]", "!", ","}, 4),
     After_(<<"#{">>, {"a", ",", "}", "await", "spawn", "(", ")"}, 4)}}

\* A broken statement, then a good one.
Keyworded == {"let", "shared", "state", "fn", "on", "type", "enum", "import", "lazy", "if", "match", "for",
              "while", "try", "spawn", "return", "raise", "rescue", "else", "in", "as"}
Broken ==
  {Spaced(s \o good) :
     good \in {<<";", "let", "b", "=", "1">>, <<";", "b">>},
     s \in {<<k>> \o t : k \in Keyworded, t \in Strings({"a", "(", ":", "=", "[", "->", "<"}, 2)}
           \cup Strings({"a", "(", ")", ":", "=>", "[", ".", "1", "let", "if"}, 3)}

-----------------------------------------------------------------------------
(* Expressions written by the table of precedence: an operand in brackets  *)
(* when its own level is lower than its place asks for.                    *)

Level(e) ==
  CASE e.n = "Assign" -> 0 [] e.n = "Pipe" -> 1 [] e.n \in {"ActorSend", "ActorRequest"} -> 2
    [] e.n = "BinOp"  -> (CASE e.s[1] = "or" -> 3 [] e.s[1] = "and" -> 4 [] e.s[1] = "==" -> 5
                            [] e.s[1] \in {"+", "-"} -> 6 [] e.s[1] \in {"*", "/"} -> 7)
    [] e.n = "UnaryOp" -> 8
    [] e.n \in {"Call", "MethodCall", "Index", "Field"} -> 9
    [] e.n \in {"Raise", "Return", "If", "Lambda"} -> 0       \* as far to the right as they go
    [] e.n \in {"Ident", "Int"} -> 10

At(level, e) == IF Level(e) < level THEN Node("Paren", <<>>, <<e>>) ELSE e

A == Node("Ident", <<"a">>, <<>>)
Combined(op, l, r) ==
  CASE op = "=" -> Node("Assign", <<>>, <<At(1, l), r>>)
    [] op # "=" -> LET p == Level(Infix(op, A, A)) IN Infix(op, At(p, l), At(p + 1, r))

Left == {"|>", "!", "or", "and", "==", "+", "-", "*", "="}
Twos(ops, ls, rs) == {Combined(op, l, r) : op \in ops, l \in ls, r \in rs}
\* A field that is called is a method call.
Called(e) == IF e.n = "Field" THEN Node("MethodCall", e.s, <<e.kids[1], A>>) ELSE Node("Call", <<>>, <<At(9, e), A>>)
Ones(es) == UNION {{Node("UnaryOp", <<"-">>, <<At(8, e)>>), Node("UnaryOp", <<"not">>, <<At(8, e)>>),
                    Called(e), Node("Index", <<>>, <<At(9, e), A>>),
                    Node("Call", <<>>, <<A, e>>), Node("Field", <<"b">>, <<At(9, e)>>),
                    Node("Raise", <<>>, <<e>>), Node("If", <<>>, <<A, A, e>>),
                    Node("Lambda", <<>>, <<List(<<>>), Nothing, e>>)} : e \in es}

Depth1 == {A} \cup Twos(Left, {A}, {A}) \cup Ones({A})
Depth2 == Twos(Left, Depth1, Depth1) \cup Ones(Depth1)
Few    == {"|>", "==", "-", "="}
Flat2  == {A} \cup Twos(Few, {A} \cup Twos(Few, {A}, {A}), {A} \cup Twos(Few, {A}, {A}))
Exprs  == Depth2 \cup Twos(Few, Flat2, {A}) \cup Twos(Few, {A}, Flat2)

Spell(e) ==
  LET keys == Written(e)
  IN FlattenSeq([i \in DOMAIN keys |->
       (IF keys[i][1] = "Ident" THEN keys[i][2] ELSE Chars(keys[i][1])) \o <<" ">>])
Spelled == {[text |-> Spell(e), want |-> <<Node("Expr", <<>>, <<e>>)>>] : e \in Exprs}

MCSources == {[text |-> t, want |-> <<>>] : t \in Lexical \cup Grammatical \cup Broken} \cup Spelled

MCSpec == Init(MCSources) /\ [][Next]_fvars

\* ast_of tells these sources apart.  Of constants only: evaluated in one state.
AstOfTellsApart == src.text = <<>> /\ phase = "lex" => TellsApart(Grammatical \cup {x.text : x \in Spelled})
=============================================================================
