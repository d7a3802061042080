------------------------------ MODULE AstValue ------------------------------
(***************************************************************************)
(* ast_of (src/src/ast/to_value.rs): a program as the Map a 1y program     *)
(* gets to read, macro-like tools and the self-hosted compiler among them. *)
(*                                                                         *)
(* A value is a Node too: a Map has its keys for `s` (behind the node's    *)
(* "type", where it has one) and its values for `kids`.                    *)
(***************************************************************************)
EXTENDS Parser, FiniteSets, TLC

StrValue(text) == Node("str", text, <<>>)
NilValue       == Node("nil", <<>>, <<>>)
BoolValue(b)   == Node("bool", <<IF b THEN "true" ELSE "false">>, <<>>)
VecOf(vs)      == Node("vec", <<>>, vs)
MapOf(keys, vs) == Node("map", keys, vs)

\* A row of the tables: a key, and what of the node it stands for.
Key(k, of, at) == [key |-> k, of |-> of, at |-> at]
Named    == Key("name", "name", 0)
Kid(k, at)  == Key(k, "kid", at)           \* a part
Maybe(k, at) == Key(k, "option", at)        \* a part that may be missing: nil
Each(k, at) == Key(k, "list", at)          \* the elements of a part
From(k, at) == Key(k, "from", at)          \* the parts from there on
Text(k)     == Key(k, "name", 0)

StmtFields ==
  [Let       |-> <<Named, Kid("value", 2)>>,
   SharedDecl |-> <<Named, Kid("value", 2)>>,
   StateDecl |-> <<Named, Kid("value", 2)>>,
   FuncDef   |-> <<Named, Each("params", 1), Kid("body", 3)>>,
   OnClause  |-> <<Named, Each("params", 1), Kid("body", 3)>>,
   TypeDef   |-> <<Named, Each("type_params", 1), Each("fields", 2)>>,
   EnumDef   |-> <<Named, Each("type_params", 1), Each("variants", 2)>>,
   ActorDef  |-> <<Named, From("body", 1)>>,
   Import    |-> <<Text("path"), Maybe("alias", 1), Key("lazy", "lazy", 0)>>,
   LazyImport |-> <<Text("path"), Maybe("alias", 1), Key("lazy", "lazy", 0)>>,
   Expr      |-> <<Kid("expr", 1)>>,
   Semi      |-> <<Kid("expr", 1)>>]

\* Maps without a "type".
PlainFields ==
  [Param        |-> <<Named, Maybe("annot", 1)>>,
   FieldDef     |-> <<Named, Kid("annot", 1)>>,
   VariantDef   |-> <<Named, From("fields", 1)>>,
   Arm          |-> <<Kid("pattern", 1), Maybe("guard", 2), Kid("body", 3)>>,
   Rescue       |-> <<Maybe("type_name", 1), Maybe("bind", 2), Kid("body", 3)>>,
   FieldPattern |-> <<Named, Kid("pattern", 1)>>]

TypeFields ==
  [TypeName |-> <<Named>>,
   Generic  |-> <<Named, From("args", 1)>>,
   Union    |-> <<From("variants", 1)>>,
   FnType   |-> <<Key("params", "but last", 0), Key("ret", "last", 0)>>]

LeafFields ==
  [Int |-> <<Text("value")>>, Decimal |-> <<Text("value")>>, Bool |-> <<Text("value")>>, Nil |-> <<>>,
   Ident |-> <<Named>>, Retry |-> <<>>, Yield |-> <<>>, Continue |-> <<>>,
   Literal |-> <<Text("text")>>, Interpolated |-> <<Kid("expr", 1)>>]

OperatorFields ==
  [BinOp        |-> <<Text("op"), Kid("lhs", 1), Kid("rhs", 2)>>,
   UnaryOp      |-> <<Text("op"), Kid("expr", 1)>>,
   Pipe         |-> <<Kid("lhs", 1), Kid("rhs", 2)>>,
   Paren        |-> <<Kid("expr", 1)>>,
   Call         |-> <<Kid("callee", 1), From("args", 2)>>,
   MethodCall   |-> <<Kid("receiver", 1), Text("method"), From("args", 2)>>,
   Index        |-> <<Kid("target", 1), Kid("index", 2)>>,
   Field        |-> <<Kid("target", 1), Named>>,
   ActorSend    |-> <<Kid("actor", 1), Kid("msg", 2)>>,
   ActorRequest |-> <<Kid("actor", 1), Kid("msg", 2)>>,
   Spawn        |-> <<Named, From("args", 1)>>,
   Assign       |-> <<Kid("target", 1), Kid("value", 2)>>,
   CompoundAssign |-> <<Text("op"), Kid("target", 1), Kid("value", 2)>>]

FormFields ==
  [VecLit |-> <<From("items", 1)>>,
   SetLit |-> <<From("items", 1)>>,
   MapLit |-> <<Key("entries", "pairs", 0)>>,
   If     |-> <<Kid("cond", 1), Kid("then", 2), Maybe("else", 3)>>,
   Match  |-> <<Kid("scrutinee", 1), From("arms", 2)>>,
   Lambda |-> <<Each("params", 1), Kid("body", 3)>>,
   Block  |-> <<Each("stmts", 1), Maybe("tail", 2)>>]

ControlFields ==
  [Try    |-> <<Kid("body", 1), Each("rescues", 2), Maybe("ensure", 3)>>,
   While  |-> <<Kid("cond", 1), Kid("body", 2)>>,
   For    |-> <<Text("var"), Kid("iter", 1), Kid("body", 2)>>,
   Loop   |-> <<Kid("body", 1)>>,
   Transact |-> <<Kid("body", 1)>>,
   Raise  |-> <<Kid("expr", 1)>>,
   Await  |-> <<Kid("expr", 1)>>,
   SharedExpr |-> <<Kid("expr", 1)>>,
   Reply  |-> <<Kid("value", 1)>>,
   Return |-> <<Maybe("value", 1)>>,
   Break  |-> <<Maybe("value", 1)>>]

PatternFields ==
  [Wildcard |-> <<>>,
   Bind     |-> <<Named>>,
   Variant  |-> <<Named, From("args", 1)>>,
   Struct   |-> <<Key("fields", "but rest", 0), Key("rest", "rest", 0)>>,
   Vec      |-> <<Key("pats", "but rest", 0), Key("rest", "rest", 0)>>,
   Or       |-> <<From("pats", 1)>>]

Fields == StmtFields @@ PlainFields @@ TypeFields @@ LeafFields @@ OperatorFields @@ FormFields
            @@ ControlFields @@ PatternFields

\* Mutant of TypeKey: a statement is an expression, with or without its `;`.
TypeKeyMerged(n) ==
  CASE n = "Generic" -> "TypeGeneric" [] n = "Union" -> "TypeUnion" [] n = "FnType" -> "TypeFn"
    [] n = "LazyImport" -> "Import" [] n \in {"Interpolated", "Semi"} -> "Expr" [] OTHER -> n

\* The "type" of a node, where it is not called like the enum's variant.
TypeKey(n) ==
  CASE n = "Generic" -> "TypeGeneric" [] n = "Union" -> "TypeUnion" [] n = "FnType" -> "TypeFn"
    [] n = "LazyImport" -> "Import" [] n = "Interpolated" -> "Expr" [] OTHER -> n

RECURSIVE ToValue(_)

Values(nodes) == VecOf([i \in DOMAIN nodes |-> ToValue(nodes[i])])
Option(node)  == IF node = Nothing THEN NilValue ELSE ToValue(node)
NotRest(node) == node.n # "Rest"

Part(e, of, at) ==
  LET k == e.kids
  IN CASE of = "name"     -> StrValue(e.s)
       [] of = "kid"      -> ToValue(k[at])
       [] of = "option"   -> Option(k[at])
       [] of = "list"     -> Values(k[at].kids)
       [] of = "from"     -> Values(SubSeq(k, at, Len(k)))
       [] of = "last"     -> ToValue(k[Len(k)])
       [] of = "but last" -> Values(SubSeq(k, 1, Len(k) - 1))
       [] of = "but rest" -> Values(SelectSeq(k, NotRest))
       [] of = "rest"     -> BoolValue(SelectSeq(k, NotRest) # k)
       [] of = "lazy"     -> BoolValue(e.n = "LazyImport")
       [] of = "pairs"    -> VecOf([i \in 1..Len(k) \div 2 |-> Values(<<k[2 * i - 1], k[2 * i]>>)])

\* A string without interpolation is its text, any other its parts.
StrToValue(parts) ==
  IF Len(parts) = 1 /\ parts[1].n = "Literal" THEN MapOf(<<"Str", "value">>, <<StrValue(parts[1].s)>>)
  ELSE MapOf(<<"Str", "parts">>, <<Values(parts)>>)

\* A literal pattern: its own type and, for a number or Bool, the value with its sign.
LitToValue(sign, e) ==
  CASE e.n = "Str" -> MapOf(<<"Lit", "lit_type", "parts">>, <<StrValue(<<"Str">>), Values(e.kids)>>)
    [] e.n = "Nil" -> MapOf(<<"Lit", "lit_type">>, <<StrValue(<<"Nil">>)>>)
    [] e.n \notin {"Str", "Nil"} ->
         MapOf(<<"Lit", "lit_type", "value">>, <<StrValue(<<e.n>>), StrValue(sign \o e.s)>>)

\* stmt_to_value, param_to_value, type_annot_to_value, expr_to_value, pattern_to_value
ToValue(e) ==
  CASE e.n = "Name" -> StrValue(e.s)
    [] e.n = "Str"  -> StrToValue(e.kids)
    [] e.n = "Lit"  -> LitToValue(e.s, e.kids[1])
    [] OTHER ->
         LET rows == Fields[e.n]
         IN MapOf((IF e.n \in DOMAIN PlainFields THEN <<>> ELSE <<TypeKey(e.n)>>) \o [i \in DOMAIN rows |-> rows[i].key],
                  [i \in DOMAIN rows |-> Part(e, rows[i].of, rows[i].at)])

\* bi_ast_of, of the parser's output: the first error, or the program.
AstOf(output) ==
  IF output.c.errs # <<>> THEN MapOf(<<"ParseError">>, <<>>)
  ELSE MapOf(<<"Program", "stmts">>, <<Values(output.v)>>)

-----------------------------------------------------------------------------
(* What ast_of leaves out: the annotations of bindings and results.        *)

RECURSIVE Bare(_)
Bare(e) ==
  LET kids == [i \in DOMAIN e.kids |-> Bare(e.kids[i])]
      Without(i) == Node(e.n, e.s, [kids EXCEPT ![i] = Nothing])
  IN CASE e.n \in {"Let", "SharedDecl", "StateDecl"} -> Without(1)
       [] e.n \in {"FuncDef", "OnClause", "Lambda"}  -> Without(2)
       [] OTHER -> Node(e.n, e.s, kids)

Tree(output)    == IF output.c.errs # <<>> THEN Nothing ELSE Bare(List(output.v))
Reading(output) == [tree |-> Tree(output), value |-> AstOf(output)]

OneToOne(readings) ==
  /\ Cardinality({r.value : r \in readings}) = Cardinality(readings)
  /\ Cardinality({r.tree : r \in readings}) = Cardinality(readings)

\* "an 1y-written compiler can read its own input via ast_of"
\* (ast/to_value.rs:5): two programs have the same value only if they are the
\* same but for those annotations.
TellsApart(texts) == OneToOne({Reading(Program(Tokenize(t).toks)) : t \in texts})
=============================================================================
