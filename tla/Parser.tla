------------------------------- MODULE Parser -------------------------------
(***************************************************************************)
(* The parser (src/src/parser/mod.rs): recursive descent, with binding     *)
(* powers for operators, from tokens to statements and recorded errors.    *)
(*                                                                         *)
(* A parse function takes a cursor and gives [c, v]: the cursor it leaves   *)
(* and what it read; a part of one takes and gives what was read so far, a  *)
(* sequence.  Rust's Err is a cursor that is not ok: nothing more is read   *)
(* from it, so every result behind it is an Err too, as with `?`.  `expect` *)
(* records an error and goes on.  Spans and messages are left out.          *)
(***************************************************************************)
EXTENDS Lexer

\* A syntax tree: what it is, the name or operator in it, its parts in the
\* order of the fields of the ast enums, Nothing for an option that is absent.
Node(n, s, kids) == [n |-> n, s |-> s, kids |-> kids]
Nothing          == Node("Nothing", <<>>, <<>>)
Name(text)       == Node("Name", text, <<>>)
List(kids)       == Node("List", <<>>, kids)

\* The Parser struct: tokens, idx, errors (where each was found).  lost counts
\* the errors of the parsers of interpolations, which are dropped with them.
Cursor(toks) == [t |-> toks, i |-> 1, errs |-> <<>>, lost |-> 0, ok |-> TRUE]

Got(c, v) == [c |-> c, v |-> v]
Begin(c)  == Got(c, <<>>)
Failed(c) == [c EXCEPT !.ok = FALSE]
Fail(c)   == Got(Failed(c), Nothing)

KindAt(c, n) == IF ~c.ok THEN "failed" ELSE IF c.i + n <= Len(c.t) THEN c.t[c.i + n].k ELSE Eof
Kind(c)      == KindAt(c, 0)
TextAt(c)    == c.t[c.i].text
Bump(c)      == IF c.ok /\ c.i < Len(c.t) THEN [c EXCEPT !.i = @ + 1] ELSE c
Record(c)    == IF c.ok THEN [c EXCEPT !.errs = Append(@, c.i)] ELSE c
\* An Err that is caught: it is recorded and parsing goes on where it is.
Recorded(c)  == [c EXCEPT !.ok = TRUE, !.errs = Append(@, c.i)]
Eat(c, k)    == IF Kind(c) = k THEN Bump(c) ELSE c
\* Mutant of Expect: what is missing is not recorded.
ExpectQuietly(c, k) == IF Kind(c) = k THEN Bump(c) ELSE c
Expect(c, k) == IF Kind(c) = k THEN Bump(c) ELSE Record(c)
ExpectIdent(c) == IF Kind(c) = "Ident" THEN Got(Bump(c), TextAt(c)) ELSE Fail(c)
Upper(text)  == text[1] \in {"A"}

StmtStart == {"let", "shared", "fn", "type", "enum", "actor", "import", "lazy", "state", "on"}

RECURSIVE Item(_, _), ParseExpr(_, _), Chain(_, _, _), Climb(_, _), Postfix(_), StringParts(_, _),
          ArrowParams(_, _), Arms(_), Rescues(_), MapEntries(_), BlockStmts(_), PatternItems(_, _),
          Resync(_, _), StmtList(_, _)

-----------------------------------------------------------------------------
(* What was read so far, r, goes on.  The productions that contain one      *)
(* another ask for each other by name; Item, at the end, says which is which.*)

Past(r)          == Got(Bump(r.c), r.v)
Skip(r, k)       == Got(Expect(r.c, k), r.v)
Also(r, item)    == LET x == Item(r.c, item) IN Got(x.c, Append(r.v, x.v))
With(r, v)       == Got(r.c, Append(r.v, v))
AlsoIf(r, mark, item) == IF Kind(r.c) = mark THEN Also(Past(r), item) ELSE With(r, Nothing)
Made(n, s, r)    == Got(r.c, Node(n, s, r.v))
NamedAs(n, r)      == Got(r.c, Node(n, Head(r.v), Tail(r.v)))     \* its name was read first
One(r)           == Got(r.c, <<r.v>>)
ListOf(r)        == Got(r.c, List(r.v))

\* More items, each behind a mark.
Chain(r, mark, item) == IF Kind(r.c) = mark THEN Chain(Also(Past(r), item), mark, item) ELSE r

\* A comma-separated list up to the closing mark, the opening one already read.
Listed(r, item, close) == Skip(IF Kind(r.c) = close THEN r ELSE Chain(Also(r, item), ",", item), close)

\* A name, perhaps with a list in brackets.
NamedList(n, bare, r, open, item, close) ==
  IF Kind(r.c) = open THEN NamedAs(n, Listed(Past(r), item, close)) ELSE NamedAs(bare, r)

\* One of a kind, or several.
OneOf(n, r) == IF Len(r.v) = 1 THEN Got(r.c, r.v[1]) ELSE Made(n, <<>>, r)

ParseParams(c) == ListOf(Listed(Begin(Expect(c, "(")), "param", ")"))
TypeParams(c)  == IF Kind(c) = "<" THEN ListOf(Listed(Begin(Bump(c)), "name", ">")) ELSE Got(c, List(<<>>))
Param(c)       == NamedAs("Param", AlsoIf(Also(Begin(c), "ident"), ":", "type"))
FieldDef(c)    == NamedAs("FieldDef", Also(Skip(Also(Begin(c), "ident"), ":"), "type"))
VariantDef(c)  == NamedList("VariantDef", "VariantDef", Also(Begin(c), "ident"), "(", "type", ")")

-----------------------------------------------------------------------------
(* Type annotations.                                                       *)

NamedType(c) == NamedList("Generic", "TypeName", Also(Begin(c), "ident"), "<", "type", ">")

FnType(c) == Made("FnType", <<>>, Also(Skip(Listed(Begin(Expect(c, "(")), "type", ")"), "->"), "type"))

ParseType(c) == IF Kind(c) = "fn" THEN FnType(Bump(c))
                ELSE OneOf("Union", Chain(Also(Begin(c), "named"), "|", "named"))

-----------------------------------------------------------------------------
(* Operators.                                                              *)

BindingPower == [k \in {"|>", "!", "?", "or", "||", "and", "&&", "==", "!=", "<", ">", "<=", ">=",
                        "+", "-", "*", "/", "%"} |->
  CASE k = "|>" -> 1 [] k \in {"!", "?"} -> 3 [] k \in {"or", "||"} -> 5 [] k \in {"and", "&&"} -> 7
    [] k \in {"==", "!=", "<", ">", "<=", ">="} -> 9 [] k \in {"+", "-"} -> 11
    [] k \in {"*", "/", "%"} -> 13]

Infix(k, lhs, rhs) ==
  CASE k = "|>" -> Node("Pipe", <<>>, <<lhs, rhs>>)
    [] k = "!"  -> Node("ActorSend", <<>>, <<lhs, rhs>>)
    [] k = "?"  -> Node("ActorRequest", <<>>, <<lhs, rhs>>)
    [] k = "||" -> Node("BinOp", <<"or">>, <<lhs, rhs>>)
    [] k = "&&" -> Node("BinOp", <<"and">>, <<lhs, rhs>>)
    [] k \notin {"|>", "!", "?", "||", "&&"} -> Node("BinOp", <<k>>, <<lhs, rhs>>)

CompoundOps == {"+=", "-=", "*=", "/=", "%="}

\* The loop of parse_expr, lhs read: assignment only at power 0, and then an
\* operator that binds at least as tightly as power.
AlsoExpr(r, power) == LET x == ParseExpr(r.c, power) IN Got(x.c, Append(r.v, x.v))
Infixed(k, r) == Got(r.c, <<Infix(k, r.v[1], r.v[2])>>)
Climb(r, power) ==
  LET k == Kind(r.c)
  IN CASE power = 0 /\ k = "=" -> Climb(One(Made("Assign", <<>>, Also(Past(r), "expr"))), 0)
       [] power = 0 /\ k \in CompoundOps ->
            Climb(One(Made("CompoundAssign", <<k>>, Also(Past(r), "expr"))), 0)
       [] k \in DOMAIN BindingPower /\ BindingPower[k] >= power ->
            Climb(Infixed(k, AlsoExpr(Past(r), BindingPower[k] + 1)), power)
       [] OTHER -> Got(r.c, r.v[1])

\* A field, or the call of a method, after a `.`.
Member(r) ==
  IF Kind(r.c) \notin {"Ident"} \cup Keywords THEN Fail(r.c)
  ELSE IF KindAt(r.c, 1) = "(" THEN Made("MethodCall", TextAt(r.c), Listed(Past(Past(r)), "expr", ")"))
  ELSE Made("Field", TextAt(r.c), Past(r))

Postfix(r) ==
  CASE Kind(r.c) = "(" -> Postfix(One(Made("Call", <<>>, Listed(Past(r), "expr", ")"))))
    [] Kind(r.c) = "[" -> Postfix(One(Made("Index", <<>>, Skip(Also(Past(r), "expr"), "]"))))
    [] Kind(r.c) = "." -> Postfix(One(Member(Past(r))))
    [] OTHER -> Got(r.c, r.v[1])

\* Mutant of Unary: the operand is read with the power of a comparison.
UnaryLoose(c) ==
  IF Kind(c) \in {"-", "not"} THEN Made("UnaryOp", <<Kind(c)>>, AlsoExpr(Begin(Bump(c)), 9))
  ELSE Postfix(Also(Begin(c), "primary"))

\* parse_prefix
Unary(c) ==
  IF Kind(c) \in {"-", "not"} THEN Made("UnaryOp", <<Kind(c)>>, AlsoExpr(Begin(Bump(c)), 15))
  ELSE Postfix(Also(Begin(c), "primary"))

ParseExpr(c, power) == Climb(One(Unary(c)), power)

-----------------------------------------------------------------------------
(* Primary expressions.                                                    *)

\* parse_interpolation: a parser of its own, whose recorded errors nobody asks
\* for; only a failure comes out.
Interpolated(r, lexErrs, e) ==
  IF lexErrs # <<>> \/ Kind(e.c) # Eof THEN Got(Failed(r.c), r.v)
  ELSE Got([r.c EXCEPT !.lost = @ + Len(e.c.errs) + e.c.lost],
           Append(r.v, Node("Interpolated", <<>>, <<e.v>>)))
Interpolation(r, lex) == Interpolated(r, lex.errs, Item(Cursor(lex.toks), "expr"))

StringParts(r, parts) ==
  IF parts = <<>> \/ ~r.c.ok THEN r
  ELSE StringParts(IF parts[1].raw THEN Interpolation(r, Tokenize(parts[1].text))
                   ELSE With(r, Node("Literal", parts[1].text, <<>>)), Tail(parts))

\* looks_like_arrow_fn, just after a `(`.
ArrowParams(c, n) ==
  /\ KindAt(c, n) = "Ident"
  /\ \/ KindAt(c, n + 1) = "," /\ ArrowParams(c, n + 2)
     \/ KindAt(c, n + 1) = ")" /\ KindAt(c, n + 2) = "=>"
ArrowFn(c) == (Kind(c) = ")" /\ KindAt(c, 1) = "=>") \/ ArrowParams(c, 0)

EndsBare == {";", "}", Eof, ","}

BodyOnly == [raise |-> "Raise", reply |-> "Reply", await |-> "Await", shared |-> "SharedExpr",
             transact |-> "Transact", loop |-> "Loop"]

WithExpr(c, n) == Made(n, <<>>, Also(Begin(c), "expr"))
OptionalValue(c, n) == IF Kind(c) \in EndsBare THEN Got(c, Node(n, <<>>, <<Nothing>>)) ELSE WithExpr(c, n)

Else(r) == IF Kind(r.c) = "else" /\ KindAt(r.c, 1) = "if" THEN Also(Past(r), "if") ELSE AlsoIf(r, "else", "expr")
ParseIf(c)    == Made("If", <<>>, Else(Also(Also(Begin(Bump(c)), "expr"), "expr")))
ParseWhile(c) == Made("While", <<>>, Also(Also(Begin(Bump(c)), "expr"), "expr"))
ParseFor(c)   == NamedAs("For", Also(Also(Skip(Also(Begin(Bump(c)), "ident"), "in"), "expr"), "expr"))

Arm(c)  == Made("Arm", <<>>, Also(Skip(AlsoIf(Also(Begin(c), "pattern"), "if", "expr"), "=>"), "expr"))
Comma(r) == Got(Eat(r.c, ","), r.v)
Arms(r) == IF Kind(r.c) \in {"}", Eof, "failed"} THEN r ELSE Arms(Comma(Also(r, "arm")))
ParseMatch(c) == Made("Match", <<>>, Skip(Arms(Skip(Also(Begin(Bump(c)), "expr"), "{")), "}"))

Result(r)      == AlsoIf(r, "->", "type")
ParseLambda(c) == Made("Lambda", <<>>, Also(Result(Also(Begin(Bump(c)), "params")), "expr"))

RescueType(r) == IF Kind(r.c) = "Ident" THEN Also(r, "name") ELSE With(r, Nothing)
Rescue(c)     == Made("Rescue", <<>>, Also(AlsoIf(RescueType(Begin(Bump(c))), "as", "name"), "expr"))
Rescues(r)    == IF Kind(r.c) = "rescue" THEN Rescues(Also(r, "rescue")) ELSE r
ParseTry(c)   == Made("Try", <<>>, AlsoIf(Also(Also(Begin(Bump(c)), "expr"), "rescues"), "ensure", "expr"))

\* The entries of a map after the first; a comma may end them.
Entry(r) == Also(Skip(Also(Past(r), "expr"), ":"), "expr")
MapEntries(r) ==
  IF Kind(r.c) # "," \/ KindAt(r.c, 1) = "}" THEN Made("MapLit", <<>>, Skip(Comma(r), "}"))
  ELSE MapEntries(Entry(r))

\* continue_block_stmts, then the brace: statements up to the tail.
Block(r, tail) == Got(Expect(r.c, "}"), Node("Block", <<>>, <<List(r.v), tail>>))
BlockStmt(r, s) ==
  IF ~s.c.ok THEN BlockStmts(Got(Resync(Recorded(s.c), FALSE), r.v))
  ELSE IF s.v.n = "Expr" THEN Block(Got(s.c, r.v), s.v.kids[1])
  ELSE BlockStmts(Got(Eat(s.c, ";"), Append(r.v, s.v)))
BlockStmts(r) == IF Kind(r.c) \in {"}", Eof, "failed"} THEN Block(r, Nothing) ELSE BlockStmt(r, Item(r.c, "stmt"))

\* A `{` that no statement follows, and an expression.
Braced(r) ==
  CASE Kind(r.c) = ":" -> MapEntries(Also(Past(r), "expr"))
    [] Kind(r.c) = ";" -> BlockStmts(Got(Bump(r.c), <<Node("Semi", <<>>, r.v)>>))
    [] OTHER -> Block(Begin(IF Kind(r.c) = "}" THEN r.c ELSE Record(r.c)), r.v[1])

ParseBrace(c) ==
  CASE Kind(c) = "}"         -> Got(Bump(c), Node("MapLit", <<>>, <<>>))
    [] Kind(c) \in StmtStart -> BlockStmts(Begin(c))
    [] OTHER                 -> Braced(Also(Begin(c), "expr"))

\* The arms of parse_primary for keywords.
ParseKeyword(c) ==
  LET k == Kind(c)
      d == Bump(c)
  IN CASE k = "if"              -> ParseIf(c)
       [] k = "match"           -> ParseMatch(c)
       [] k = "fn"              -> ParseLambda(c)
       [] k = "try"             -> ParseTry(c)
       [] k = "while"           -> ParseWhile(c)
       [] k = "for"             -> ParseFor(c)
       [] k \in DOMAIN BodyOnly -> WithExpr(d, BodyOnly[k])
       [] k = "return"          -> OptionalValue(d, "Return")
       [] k = "break"           -> OptionalValue(d, "Break")
       [] k = "yield"           -> Got(d, Node("Yield", <<>>, <<>>))
       [] k = "retry"           -> Got(d, Node("Retry", <<>>, <<>>))
       [] k = "continue"        -> Got(d, Node("Continue", <<>>, <<>>))
       [] k = "spawn"           -> NamedAs("Spawn", Listed(Skip(Also(Begin(d), "ident"), "("), "expr", ")"))
       [] OTHER                 -> Fail(c)

ParseParen(c) == IF ArrowFn(c) THEN Fail(c) ELSE Made("Paren", <<>>, Skip(Also(Begin(c), "expr"), ")"))

ParsePrimary(c) ==
  LET k == Kind(c)
      d == Bump(c)
  IN CASE k \in {"Int", "Decimal", "Ident"} -> Got(d, Node(k, TextAt(c), <<>>))
       [] k = "Str"             -> Made("Str", <<>>, StringParts(Begin(d), c.t[c.i].parts))
       [] k \in {"true", "false"} -> Got(d, Node("Bool", <<k>>, <<>>))
       [] k = "nil"             -> Got(d, Node("Nil", <<>>, <<>>))
       [] k = "("               -> ParseParen(d)
       [] k = "["               -> Made("VecLit", <<>>, Listed(Begin(d), "expr", "]"))
       [] k = "#{"              -> Made("SetLit", <<>>, Listed(Begin(d), "expr", "}"))
       [] k = "{"               -> ParseBrace(d)
       [] OTHER                 -> ParseKeyword(c)

-----------------------------------------------------------------------------
(* Patterns.                                                               *)

FieldPart(r) == IF Kind(r.c) = ":" THEN Also(Past(r), "pattern") ELSE With(r, Node("Bind", r.v[1], <<>>))
FieldPattern(c) == NamedAs("FieldPattern", FieldPart(Also(Begin(c), "ident")))

\* The patterns of a vector, or the fields of a struct; `..` ends them, and the
\* name that may follow it in a vector is read and forgotten.
RestPattern(r, item) == With(IF item = "pattern" THEN Got(Eat(Bump(r.c), "Ident"), r.v) ELSE Past(r),
                             Node("Rest", <<>>, <<>>))
MorePatterns(r, item) == IF Kind(r.c) = "," THEN PatternItems(Past(r), item) ELSE r
PatternItems(r, item) == IF Kind(r.c) = ".." THEN RestPattern(r, item) ELSE MorePatterns(Also(r, item), item)

Bracketed(c, n, item, close) ==
  Made(n, <<>>, Skip(IF Kind(c) = close THEN Begin(c) ELSE PatternItems(Begin(c), item), close))

\* `Name { ... }` keeps no Name: it is the pattern `{ ... }`.
AtomicPattern(c) ==
  LET k == Kind(c)
      d == Bump(c)
  IN CASE k = "_"                  -> Got(d, Node("Wildcard", <<>>, <<>>))
       [] k \in {"Int", "Decimal", "Str", "true", "false", "nil"} ->
                                      Made("Lit", <<>>, Also(Begin(c), "primary"))
       [] k = "-" /\ Kind(d) \in {"Int", "Decimal"} -> Made("Lit", <<"-">>, Also(Begin(d), "primary"))
       [] k = "Ident" /\ ~Upper(TextAt(c)) -> Got(d, Node("Bind", TextAt(c), <<>>))
       [] k = "Ident" /\ Upper(TextAt(c)) ->
            CASE Kind(d) = "{" -> Bracketed(Bump(d), "Struct", "field pattern", "}")
              [] Kind(d) = "(" -> Made("Variant", TextAt(c), Listed(Begin(Bump(d)), "pattern", ")"))
              [] OTHER         -> Got(d, Node("Variant", TextAt(c), <<>>))
       [] k = "["                  -> Bracketed(d, "Vec", "pattern", "]")
       [] k = "{"                  -> Bracketed(d, "Struct", "field pattern", "}")
       [] OTHER                    -> Fail(c)

ParsePattern(c) == OneOf("Or", Chain(Also(Begin(c), "atomic"), "|", "atomic"))

-----------------------------------------------------------------------------
(* Statements.                                                             *)

WithName(c) == Also(Begin(Bump(c)), "ident")

\* `let`, `shared` and `state`; `fn` and `on`.
Binding(c, n)  == NamedAs(n, Also(Skip(AlsoIf(WithName(c), ":", "type"), "="), "expr"))
Callable(c, n) == NamedAs(n, Also(Result(Also(WithName(c), "params")), "expr"))

TypeDef(c) == NamedAs("TypeDef", Also(Skip(Also(WithName(c), "type params"), "="), "fields"))
EnumDef(c) == NamedAs("EnumDef", Also(Also(WithName(c), "type params"), "variants"))

ActorDef(c) == NamedAs("ActorDef", Skip(StmtList(Skip(WithName(c), "{"), FALSE), "}"))

LazyStart(c) == IF Kind(c) \in Keywords THEN Bump(c) ELSE Record(c)
Aliased(n, path) == Made(n, path.v, AlsoIf(Begin(path.c), "as", "name"))
Import(c, n) ==
  Aliased(n, Chain(Also(Begin(IF n = "Import" THEN Bump(c) ELSE LazyStart(Bump(c))), "ident"), ".", "ident"))

SemiOr(r) == IF Kind(r.c) = ";" THEN Made("Semi", <<>>, Past(r)) ELSE Made("Expr", <<>>, r)

ParseStmt(c) ==
  LET k == Kind(c)
  IN CASE k = "let"    -> Binding(c, "Let")
       [] k = "shared" /\ KindAt(c, 1) = "Ident" /\ KindAt(c, 2) \in {"=", ":"} -> Binding(c, "SharedDecl")
       [] k = "state"  -> Binding(c, "StateDecl")
       [] k = "fn" /\ KindAt(c, 1) = "Ident" -> Callable(c, "FuncDef")
       [] k = "on"     -> Callable(c, "OnClause")
       [] k = "type"   -> TypeDef(c)
       [] k = "enum"   -> EnumDef(c)
       [] k = "actor"  -> ActorDef(c)
       [] k = "import" -> Import(c, "Import")
       [] k = "lazy"   -> Import(c, "LazyImport")
       [] OTHER        -> SemiOr(Also(Begin(c), "expr"))

\* Mutants of Resync: a `;` is nothing special; a brace at top level stops it, too.
ResyncToKeyword(c, top) ==
  IF Kind(c) = Eof \/ Kind(c) \in StmtStart \/ (~top /\ Kind(c) = "}") THEN c ELSE Resync(Bump(c), top)
ResyncAtBrace(c, top) ==
  CASE Kind(c) = Eof \/ Kind(c) \in StmtStart \/ Kind(c) = "}" -> c
    [] Kind(c) = ";" -> Bump(c)
    [] OTHER         -> Resync(Bump(c), top)

\* Error recovery: to after a `;`, or to a keyword that starts a statement;
\* inside braces, to the closing one too.
Resync(c, top) ==
  CASE Kind(c) = Eof \/ Kind(c) \in StmtStart \/ (~top /\ Kind(c) = "}") -> c
    [] Kind(c) = ";" -> Bump(c)
    [] OTHER         -> Resync(Bump(c), top)

\* One turn of the loop of parse_stmt_list.
Recovered(r, s, top) == IF s.c.ok THEN Got(s.c, Append(r.v, s.v)) ELSE Got(Resync(Recorded(s.c), top), r.v)
OneStmt(r, top) == IF Kind(r.c) = ";" THEN Past(r) ELSE Recovered(r, Item(r.c, "stmt"), top)

ListEnds(c, top) == Kind(c) \in {Eof, "failed"} \/ (~top /\ Kind(c) = "}")

StmtList(r, top) == IF ListEnds(r.c, top) THEN r ELSE StmtList(OneStmt(r, top), top)

Program(toks) == StmtList(Begin(Cursor(toks)), TRUE)

Item(c, item) ==
  IF ~c.ok THEN Got(c, Nothing)
  ELSE CASE item = "expr"          -> ParseExpr(c, 0)
         [] item = "primary"       -> ParsePrimary(c)
         [] item = "type"          -> ParseType(c)
         [] item = "named"         -> NamedType(c)
         [] item = "pattern"       -> ParsePattern(c)
         [] item = "atomic"        -> AtomicPattern(c)
         [] item = "field pattern" -> FieldPattern(c)
         [] item = "stmt"          -> ParseStmt(c)
         [] item = "if"            -> ParseIf(c)
         [] item = "arm"           -> Arm(c)
         [] item = "rescue"        -> Rescue(c)
         [] item = "rescues"       -> ListOf(Rescues(Begin(c)))
         [] item = "ident"         -> ExpectIdent(c)
         [] item = "name"          -> LET x == ExpectIdent(c) IN Got(x.c, Name(x.v))
         [] item = "param"         -> Param(c)
         [] item = "params"        -> ParseParams(c)
         [] item = "type params"   -> TypeParams(c)
         [] item = "field"         -> FieldDef(c)
         [] item = "fields"        -> ListOf(Listed(Begin(Expect(c, "{")), "field", "}"))
         [] item = "variant"       -> VariantDef(c)
         [] item = "variants"      -> ListOf(Listed(Begin(Expect(c, "{")), "variant", "}"))
=============================================================================
