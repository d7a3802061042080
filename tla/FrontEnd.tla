------------------------------ MODULE FrontEnd ------------------------------
(***************************************************************************)
(* parse (src/src/parser/mod.rs) and what asks for it: the whole source is *)
(* made into tokens, then into top-level statements one after the other;   *)
(* the backends and ast_of refuse the program if the parser recorded an    *)
(* error.                                                                  *)
(***************************************************************************)
EXTENDS Parser, SequencesExt

VARIABLES src,          \* the input: [text, want], want <<>> or the statements it spells
          lex,          \* the lexer: its position, tokens and errors
          par,          \* the parser's cursor
          stmts,        \* the statements parsed
          phase         \* "lex", "parse", then "accepted" or "rejected"

fvars == <<src, lex, par, stmts, phase>>

Init(sources) ==
  /\ src \in sources
  /\ lex = Read(1, <<>>, <<>>)
  /\ par = Cursor(<<EofToken>>)
  /\ stmts = <<>>
  /\ phase = "lex"

\* One turn of next_token's loop; after the end of the file the parser starts,
\* with the tokens alone.
LexOne ==
  /\ phase = "lex"
  /\ LET r == NextToken(src.text, lex.at)
         toks == lex.toks \o r.toks
     IN /\ lex' = Read(r.at, toks, lex.errs \o r.errs)
        /\ IF Ch(src.text, lex.at) = Eof
           THEN phase' = "parse" /\ par' = Cursor(toks)
           ELSE UNCHANGED <<phase, par>>
  /\ UNCHANGED <<src, stmts>>

ParseOne ==
  /\ phase = "parse" /\ ~ListEnds(par, TRUE)
  /\ LET r == OneStmt(Got(par, stmts), TRUE)
     IN par' = r.c /\ stmts' = r.v
  /\ UNCHANGED <<src, lex, phase>>

\* Interpreter::run, Vm::run, load_module, bi_ast_of: `output.errors`.
Judge ==
  /\ phase = "parse" /\ ListEnds(par, TRUE)
  /\ phase' = IF par.errs = <<>> THEN "accepted" ELSE "rejected"
  /\ UNCHANGED <<src, lex, par, stmts>>

Done == phase \in {"accepted", "rejected"}

Rest == Done /\ UNCHANGED fvars

Next == LexOne \/ ParseOne \/ Judge \/ Rest

-----------------------------------------------------------------------------
(* Reference: the tokens a syntax tree is written with.                    *)

RECURSIVE Keys(_), Written(_)

\* What tells a token from another: the characters of a name or a number, the
\* parts of a string with the tokens of its interpolations.
PartKeys(part) ==
  IF part.raw THEN << <<"{">> >> \o Keys(Tokenize(part.text).toks) ELSE << <<"'", part.text>> >>

Keys(toks) ==
  FlattenSeq([i \in DOMAIN toks |->
    CASE toks[i].k \in {"Ident", "Int", "Decimal"} -> << <<toks[i].k, toks[i].text>> >>
      [] toks[i].k = "Str"     -> << <<"Str">> >> \o FlattenSeq([j \in DOMAIN toks[i].parts |-> PartKeys(toks[i].parts[j])])
      [] toks[i].k \in {",", ";", Eof} -> <<>>              \* separators
      [] toks[i].k = "||"      -> << <<"or">> >>
      [] toks[i].k = "&&"      -> << <<"and">> >>
      [] toks[i].k \notin {"Ident", "Int", "Decimal", "Str", ",", ";", Eof, "||", "&&"} -> << <<toks[i].k>> >>])

Mark(k)      == << <<k>> >>
Ident(text)  == IF text[1] \in Keywords THEN Mark(text[1]) ELSE << <<"Ident", text>> >>
All(nodes)   == FlattenSeq([i \in DOMAIN nodes |-> Written(nodes[i])])
In(open, nodes, close) == Mark(open) \o All(nodes) \o Mark(close)
Opt(mark, node) == IF node = Nothing THEN <<>> ELSE mark \o Written(node)
Typed(node)  == Opt(Mark(":"), node)

Keyword == [Raise |-> "raise", Reply |-> "reply", Await |-> "await", SharedExpr |-> "shared",
            Transact |-> "transact", Loop |-> "loop", Return |-> "return", Break |-> "break",
            Yield |-> "yield", Retry |-> "retry", Continue |-> "continue", Nil |-> "nil",
            Wildcard |-> "_", Rest |-> "..", Let |-> "let", SharedDecl |-> "shared",
            StateDecl |-> "state", FuncDef |-> "fn", OnClause |-> "on", Nothing |-> "",
            Pipe |-> "|>", ActorSend |-> "!", ActorRequest |-> "?", Assign |-> "="]

Written(e) ==
  LET k == e.kids
      rest == IF k = <<>> THEN <<>> ELSE Tail(k)
      Two(op) == Written(k[1]) \o Mark(op) \o Written(k[2])
  IN CASE e.n \in {"Int", "Decimal"}        -> << <<e.n, e.s>> >>
       [] e.n \in {"Ident", "Name", "TypeName", "Bind"} -> Ident(e.s)
       [] e.n = "Bool"                      -> Mark(e.s[1])
       [] e.n \in {"Nothing"}               -> <<>>
       [] e.n \in {"Yield", "Retry", "Continue", "Nil", "Wildcard", "Rest", "Raise", "Reply", "Await",
                   "SharedExpr", "Transact", "Loop", "Return", "Break"} -> Mark(Keyword[e.n]) \o All(k)
       [] e.n = "Str"                       -> Mark("Str") \o All(k)
       [] e.n = "Lit"                       -> (IF e.s = <<>> THEN <<>> ELSE Mark("-")) \o All(k)
       [] e.n = "Literal"                   -> << <<"'", e.s>> >>
       [] e.n = "Interpolated"              -> Mark("{") \o All(k)
       [] e.n \in {"List", "Semi", "Expr"}  -> All(k)
       [] e.n = "Paren"                     -> In("(", k, ")")
       [] e.n \in {"VecLit", "Vec"}         -> In("[", k, "]")
       [] e.n = "SetLit"                    -> In("#{", k, "}")
       [] e.n \in {"Block", "Struct"}       -> In("{", k, "}")
       [] e.n = "MapLit"                    -> Mark("{") \o FlattenSeq([i \in DOMAIN k |->
                                                 Written(k[i]) \o IF i % 2 = 1 THEN Mark(":") ELSE <<>>]) \o Mark("}")
       [] e.n \in {"Pipe", "ActorSend", "ActorRequest", "Assign"} -> Two(Keyword[e.n])
       [] e.n \in {"BinOp", "CompoundAssign"} -> Two(e.s[1])
       [] e.n = "UnaryOp"                   -> Mark(e.s[1]) \o All(k)
       [] e.n = "Call"                      -> Written(k[1]) \o In("(", rest, ")")
       [] e.n = "Index"                     -> Written(k[1]) \o In("[", rest, "]")
       [] e.n = "Field"                     -> Written(k[1]) \o Mark(".") \o Ident(e.s)
       [] e.n = "MethodCall"                -> Written(k[1]) \o Mark(".") \o Ident(e.s) \o In("(", rest, ")")
       [] e.n = "Spawn"                     -> Mark("spawn") \o Ident(e.s) \o In("(", k, ")")
       [] e.n = "If"                        -> Mark("if") \o Written(k[1]) \o Written(k[2]) \o Opt(Mark("else"), k[3])
       [] e.n = "While"                     -> Mark("while") \o All(k)
       [] e.n = "For"                       -> Mark("for") \o Ident(e.s) \o Mark("in") \o All(k)
       [] e.n = "Match"                     -> Mark("match") \o Written(k[1]) \o In("{", rest, "}")
       [] e.n = "Arm"                       -> Written(k[1]) \o Opt(Mark("if"), k[2]) \o Mark("=>") \o Written(k[3])
       [] e.n = "Lambda"                    -> Mark("fn") \o In("(", k[1].kids, ")") \o Opt(Mark("->"), k[2]) \o Written(k[3])
       [] e.n = "Try"                       -> Mark("try") \o Written(k[1]) \o Written(k[2]) \o Opt(Mark("ensure"), k[3])
       [] e.n = "Rescue"                    -> Mark("rescue") \o Written(k[1]) \o Opt(Mark("as"), k[2]) \o Written(k[3])
       [] e.n = "Variant"                   -> Ident(e.s) \o (IF k = <<>> THEN <<>> ELSE In("(", k, ")"))
       [] e.n = "FieldPattern"              -> Ident(e.s) \o IF k[1] = Node("Bind", e.s, <<>>) THEN <<>> ELSE Typed(k[1])
       [] e.n = "Or" \/ e.n = "Union"       -> FlattenSeq([i \in DOMAIN k |-> (IF i = 1 THEN <<>> ELSE Mark("|")) \o Written(k[i])])
       [] e.n \in {"Param", "FieldDef"}     -> Ident(e.s) \o Typed(k[1])
       [] e.n = "Generic"                   -> Ident(e.s) \o In("<", k, ">")
       [] e.n = "FnType"                    -> Mark("fn") \o In("(", Front(k), ")") \o Mark("->") \o Written(Last(k))
       [] e.n \in {"Let", "SharedDecl", "StateDecl"} ->
            Mark(Keyword[e.n]) \o Ident(e.s) \o Typed(k[1]) \o Mark("=") \o Written(k[2])
       [] e.n \in {"FuncDef", "OnClause"}   -> Mark(Keyword[e.n]) \o Ident(e.s) \o In("(", k[1].kids, ")")
                                                 \o Opt(Mark("->"), k[2]) \o Written(k[3])
       [] e.n \in {"TypeDef", "EnumDef"}    -> Mark(IF e.n = "TypeDef" THEN "type" ELSE "enum") \o Ident(e.s)
            \o (IF k[1].kids = <<>> THEN <<>> ELSE In("<", k[1].kids, ">"))
            \o (IF e.n = "TypeDef" THEN Mark("=") ELSE <<>>) \o In("{", k[2].kids, "}")
       [] e.n = "VariantDef"                -> Ident(e.s) \o (IF k = <<>> THEN <<>> ELSE In("(", k, ")"))
       [] e.n = "ActorDef"                  -> Mark("actor") \o Ident(e.s) \o In("{", k, "}")
       [] e.n \in {"Import", "LazyImport"}  -> (IF e.n = "Import" THEN <<>> ELSE Mark("lazy")) \o Mark("import")
            \o FlattenSeq([i \in DOMAIN e.s |-> (IF i = 1 THEN <<>> ELSE Mark(".")) \o Ident(e.s[i])])
            \o Opt(Mark("as"), k[1])

-----------------------------------------------------------------------------
(* Properties.                                                             *)

\* "so a whole file is always parsed to completion" (parser/mod.rs:27): each
\* turn of the lexer reads a character and each turn of the statement loop a
\* token, also when it fails and recovers; so, with no step blocked, both end.
EveryTurnReads ==
  [][/\ phase = "lex" /\ phase' = "lex" => lex'.at > lex.at
     /\ phase = "parse" /\ phase' = "parse" => par'.i > par.i]_fvars

\* What the parser reads and forgets, and the tree cannot say: the type in front of
\* a struct pattern, the name after a pattern's `..`, the keyword after `lazy`;
\* and the empty brackets of a variant and of type parameters.
Forgotten(toks) ==
  \E i \in 1..Len(toks) - 1 :
    LET t == toks[i]
        next == toks[i + 1].k
    IN \/ t.k = "Ident" /\ Upper(t.text) /\ next = "{"
       \/ t.k = ".." /\ next = "Ident"
       \/ t.k = "lazy" /\ next # "import"
       \/ t.k = "(" /\ next = ")" /\ \E j \in 1..i : toks[j].k \in {"enum", "match"}
       \/ t.k = "<" /\ next = ">"

\* An accepted program means what was written, and all of it: its tree is
\* written with the very tokens of the source, but for separators.  Neither
\* recovery, nor an `expect` that only records, nor lookahead, nor a swallowed
\* Result leaves a token out of the tree of a program that then runs.
NothingDropped ==
  phase = "accepted" /\ lex.errs = <<>> /\ par.lost = 0 /\ ~Forgotten(lex.toks) =>
    All(stmts) = Keys(lex.toks)

\* The statements a source spells by the grammar and the table of precedence
\* (parser/mod.rs:5) are the ones that are read.
ReadAsWritten == Done /\ src.want # <<>> => phase = "accepted" /\ stmts = src.want

\* Recovery (parser/mod.rs:23): "record them, and resynchronize at the next `;`".
\* Whatever came before, a statement after a `;` is read as it would be alone,
\* when no brace was opened before it and it is not what an `actor` goes on with.
LastSemi(toks) == CHOOSE k \in DOMAIN toks : toks[k].k = ";" /\ \A n \in k + 1..Len(toks) : toks[n].k # ";"
ReadLast(alone) == alone.c.errs = <<>> => IsSuffix(alone.v, stmts)
RecoveryIsLocal ==
  Done /\ (\E k \in DOMAIN lex.toks : lex.toks[k].k = ";")
    /\ (\A k \in DOMAIN lex.toks : lex.toks[k].k \notin {"{", "#{", "actor", "}"}) =>
      ReadLast(Program(SubSeq(lex.toks, LastSemi(lex.toks) + 1, Len(lex.toks))))

\* Where one token ends does not depend on what follows it: with white space
\* between them the tokens are the same, so maximal munch takes no character
\* that belongs to the next token, and comments and strings end where they do.
Respaced(toks) == FlattenSeq([i \in DOMAIN toks |-> toks[i].text \o <<" ">>])
TokensStandAlone ==
  phase = "parse" /\ lex.errs = <<>> /\ Ch(src.text, Len(src.text)) # Backslash =>
    Tokenize(Respaced(lex.toks)).toks = lex.toks

\* An interpolation ends at the brace that closes it (lexer/mod.rs:651-655: nested
\* braces are included, a `}` inside a string does not close it): around code
\* that is lexically whole, without comments and with plain strings only, the
\* raw source handed to the parser is that code.
Count(toks, kinds) == Len(SelectSeq(toks, LAMBDA t : t.k \in kinds))
Opens(toks)  == Count(toks, {"{", "#{"})
Closes(toks) == Count(toks, {"}"})

Plain(tok) == tok.k # "Str" \/ (/\ \A i \in DOMAIN tok.parts : ~tok.parts[i].raw
                                /\ Len(tok.text) = 2 \/ tok.text[2] # Quote)
Whole(code, lexed) ==
  /\ lexed.errs = <<>>
  /\ FlattenSeq([i \in DOMAIN lexed.toks |-> lexed.toks[i].text]) = code
  /\ \A i \in DOMAIN lexed.toks :
       Plain(lexed.toks[i]) /\ Opens(SubSeq(lexed.toks, 1, i)) >= Closes(SubSeq(lexed.toks, 1, i))
  /\ Opens(lexed.toks) = Closes(lexed.toks)

InString(code) == <<Quote, "{">> \o code \o <<"}", Quote>>
OneInterpolation(code) ==
  lex = Read(Len(src.text) + 1, <<Token("Str", src.text, <<Raw(code)>>), EofToken>>, <<>>)
ReadWhole(code) == src.text = InString(code) /\ Whole(code, Tokenize(code)) => OneInterpolation(code)
InterpolationExact ==
  phase = "parse" /\ Len(src.text) >= 4 => ReadWhole(SubSeq(src.text, 3, Len(src.text) - 2))
=============================================================================
