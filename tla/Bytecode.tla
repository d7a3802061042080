------------------------------ MODULE Bytecode ------------------------------
(***************************************************************************)
(* The bytecode compiler (src/src/compiler/mod.rs) on the part of the      *)
(* language that moves control, locals and shared cells.                   *)
(*                                                                         *)
(* A program is a nested tuple <<kind, part, ...>>; Compile threads the    *)
(* FuncCtx of the function being compiled through it, which holds that of  *)
(* the function around it as its `outer`.  Addresses count                 *)
(* instructions from 1; a jump is emitted with a placeholder and patched.  *)
(* A closure carries the code of its chunk.  Values are tagged tuples.     *)
(***************************************************************************)
EXTENDS Naturals, Sequences, SequencesExt, Patterns

Nil     == <<"nil">>
Num(n)  == <<"num", n>>
Flag(b) == <<"flag", b>>

\* A FuncCtx: emitted code, constant pool, declared locals, scope depth, the
\* captured variables, the function around it, if any, and the instructions
\* that wait for an address, innermost last.
NewFuncCtx == [code |-> <<>>, consts |-> <<>>, locals |-> <<>>, depth |-> 0,
               upvalues |-> <<>>, outer |-> <<>>, open |-> <<>>]

\* Bytes of an instruction (of the instructions it stands for).
Bytes(i) == LET op == i[1] IN
  CASE op \in {"PushTry", "PushLoop", "Less"} -> 5
    [] op \in {"Say", "CallBuiltin"} -> 6
    [] op = "Increment" -> 7
    [] op = "Coin" -> 4
    [] op = "Const" -> IF i[2][1] = "vec" THEN 2 * i[2][2] + 6 ELSE 2
    [] op \in {"Jump", "JumpIfFalse", "Loop", "Break", "Continue", "Reply", "PushTransact"} -> 3
    [] op \in {"LoadGlobal", "AssignGlobal", "LoadLocal", "StoreLocal", "NewVec", "PopN",
               "PopLocalKeep", "Call", "RescueMatch", "Match", "AssignLocal",
               "LoadUpvalue", "AssignUpvalue"} -> 2
    [] op = "ConstructVariant" -> 3
    [] op = "Closure" -> 2 + 2 * Len(i[3])
    [] OTHER -> 1

ByteOffset(fc) == FoldLeft(LAMBDA n, i : n + Bytes(i), 0, fc.code)

Here(fc)    == Len(fc.code) + 1
Emit(fc, i) == [fc EXCEPT !.code = Append(@, i)]

\* emit_jump; the k-th innermost (from 0) of the open instructions; patch_jump,
\* of that one or of the n innermost ones; emit_loop, to behind one of them.
EmitJump(fc, i)  == [Emit(fc, i) EXCEPT !.open = Append(@, Here(fc))]
Open(fc, k)      == fc.open[Len(fc.open) - k]
Forget(fc, k)    == [fc EXCEPT !.open = RemoveAt(@, Len(@) - k)]
Land(fc, k, arg) == [fc EXCEPT !.code[Open(fc, k)][arg + 1] = Here(fc)]
PatchJump(fc, k) == Forget(Land(fc, k, 1), k)
PatchJumps(fc, n) ==
  LET last == SubSeq(fc.open, Len(fc.open) - n + 1, Len(fc.open))
  IN [fc EXCEPT !.open = SubSeq(@, 1, Len(@) - n),
                !.code = [i \in DOMAIN @ |-> IF i \in ToSet(last) THEN <<@[i][1], Here(fc)>> ELSE @[i]]]
EmitLoop(fc, k)  == Emit(fc, <<"Loop", Open(fc, k) + 1>>)

\* emit_const: constants are pooled per chunk.
Pool(fc, v) == IF \E i \in DOMAIN fc.consts : fc.consts[i] = v
               THEN fc ELSE [fc EXCEPT !.consts = Append(@, v)]
IndexOf(fc, v)   == (CHOOSE i \in DOMAIN fc.consts : fc.consts[i] = v) - 1
EmitConst(fc, v) == Emit(Pool(fc, v), <<"Const", v>>)

\* LoadGlobal/AssignGlobal and their kin pool the name they carry.
EmitNamed(fc, op, name) == Emit(Pool(fc, <<"str", name>>), <<op, name>>)

BeginScope(fc) == [fc EXCEPT !.depth = @ + 1]
EndScope(fc)   == [fc EXCEPT !.depth = @ - 1,
                             !.locals = SelectSeq(@, LAMBDA l : l.depth < fc.depth)]
LocalsInScope(fc) == Len(fc.locals) - Len(EndScope(fc).locals)
Declare(fc, x) == [fc EXCEPT !.locals = Append(@, [name |-> x, depth |-> fc.depth])]
PopLocal(fc)   == [fc EXCEPT !.locals = SubSeq(@, 1, Len(@) - 1)]

\* declare_local: a slot is the number of locals declared before, whatever
\* temporaries the expression around has on the operand stack by then.
StoreNew(fc, x) == Emit(Declare(fc, x), <<"StoreLocal", Len(fc.locals)>>)
Slot(fc, x) == Max({i \in DOMAIN fc.locals : fc.locals[i].name = x}) - 1

Declared(fc, x) == \E i \in DOMAIN fc.locals : fc.locals[i].name = x

\* resolve_upvalue: a variable of the function around it is captured from its
\* frame, one from further out through that function's own upvalues, which
\* has it captured in turn.
RECURSIVE Captured(_, _), UpvalueInfo(_, _), Upvalue(_, _)
Captured(fc, x) ==
  IF Declared(fc, x) THEN fc
  ELSE LET outer == Captured(fc.outer[1], x)
           info  == UpvalueInfo(outer, x)
       IN [fc EXCEPT !.outer = <<outer>>,
                     !.upvalues = IF info \in ToSet(@) THEN @ ELSE Append(@, info)]
UpvalueInfo(outer, x) ==
  IF Declared(outer, x) THEN [isLocal |-> TRUE, index |-> Slot(outer, x)]
  ELSE [isLocal |-> FALSE, index |-> Upvalue(outer, x)]
Upvalue(fc, x) ==
  LET info == UpvalueInfo(fc.outer[1], x)
  IN (CHOOSE i \in DOMAIN fc.upvalues : fc.upvalues[i] = info) - 1

\* emit_load and emit_store of a variable of this function or one around it.
EmitVar(fc, local, upvalue, x) ==
  IF Declared(fc, x) THEN Emit(fc, <<local, Slot(fc, x)>>)
  ELSE LET with == Captured(fc, x) IN Emit(with, <<upvalue, Upvalue(with, x)>>)

\* The Block's scope ends: drop its locals from under its value.
CloseBlock(fc) == IF LocalsInScope(fc) = 0 THEN EndScope(fc)
                  ELSE Emit(EndScope(fc), <<"PopLocalKeep", LocalsInScope(fc)>>)

RECURSIVE Compile(_, _), CompileClauses(_, _), CompileTry(_, _), CompileArms(_, _, _)

\* compile_function and emit_closure: a chunk of its own, with its parameters
\* for the first locals, and what it captures.
Enclosed(inner, arity) ==
  Emit(inner.outer[1], <<"Closure", Emit(inner, <<"Return">>).code, inner.upvalues, arity>>)
EmitClosure(fc, params, body) ==
  Enclosed(Compile(body, FoldLeft(Declare, [NewFuncCtx EXCEPT !.outer = <<fc>>], params)), Len(params))

\* A closure called where it is made, without arguments.
EmitThunkCall(fc, body) == Emit(EmitClosure(fc, <<>>, body), <<"Call", 0>>)

CompileIf(e, fc) ==
  LET then == Compile(e[2], EmitJump(EmitNamed(fc, "Coin", "coin"), <<"JumpIfFalse", 0>>))
      else == PatchJump(EmitJump(then, <<"Jump", 0>>), 1)
  IN PatchJump(Compile(e[3], else), 0)

CompileWhile(body, fc) ==
  LET push  == EmitJump(fc, <<"PushLoop", Here(fc) + 1, 0>>)
      test  == EmitJump(EmitNamed(push, "Coin", "coin"), <<"JumpIfFalse", 0>>)
      again == EmitLoop(Emit(Compile(body, test), <<"Pop">>), 1)
      exit  == EmitJump(Emit(Emit(PatchJump(again, 0), <<"PopLoop">>), <<"Nil">>), <<"Jump", 0>>)
      out   == Emit(Forget(Land(exit, 1, 2), 1), <<"PopLoop">>)
  IN PatchJump(out, 0)

CompileLoop(body, fc) ==
  LET push  == EmitJump(fc, <<"PushLoop", Here(fc) + 1, 0>>)
      again == EmitLoop(Emit(Compile(body, push), <<"Pop">>), 0)
  IN Emit(Forget(Land(again, 0, 2), 0), <<"PopLoop">>)

\* `for` over a literal vector of n items, with its three hidden locals.
CloseFor(fc) == Emit(EndScope(fc), <<"PopN", LocalsInScope(fc)>>)
CompileFor(n, body, fc) ==
  LET i     == Len(fc.locals) + 1
      items == StoreNew(EmitConst(BeginScope(fc), <<"vec", n>>), "__for_iter")
      index == StoreNew(EmitConst(items, Num(0)), "__for_i")
      push  == EmitJump(StoreNew(EmitConst(index, Num(n)), "__for_n"), <<"PushLoop", 0, 0>>)
      test  == EmitJump(Emit(push, <<"Less", i, i + 1>>), <<"JumpIfFalse", 0>>)
      var   == StoreNew(Emit(test, <<"LoadLocal", i>>), "i")
      next  == PopLocal(Emit(Emit(Compile(body, var), <<"Pop">>), <<"PopN", 1>>))
      again == EmitLoop(Emit(Land(next, 1, 1), <<"Increment", i>>), 1)
      exit  == EmitJump(Emit(Emit(PatchJump(again, 0), <<"PopLoop">>), <<"Nil">>), <<"Jump", 0>>)
      out   == Emit(Emit(Emit(Forget(Land(exit, 1, 2), 1), <<"PopLoop">>), <<"Pop">>), <<"Nil">>)
  IN CloseFor(PatchJump(out, 0))

\* The rescue clauses; each leaves its exit open.  A clause's body is a closure,
\* whose parameter is the clause's name for the exception, if it has one;
\* RescueMatch 0 stands for "any type".
EmitMatch(fc, type) == Emit(fc, <<"RescueMatch", IndexOf(fc, <<"str", type>>), type>>)
CompileClauses(clauses, fc) ==
  IF clauses = <<>> THEN fc
  ELSE LET type  == Head(clauses)[1]
           match == IF type = "any" THEN fc
                    ELSE EmitJump(EmitMatch(Pool(fc, <<"str", type>>), type), <<"JumpIfFalse", 0>>)
           clear == Emit(match, <<"ClearPending">>)
           body  == IF Head(clauses)[3] = <<>>
                    THEN EmitThunkCall(Emit(clear, <<"Pop">>), Head(clauses)[2])
                    ELSE Emit(Emit(EmitClosure(clear, Head(clauses)[3], Head(clauses)[2]), <<"Swap">>),
                              <<"Call", 1>>)
           left  == EmitJump(body, <<"Jump", 0>>)
       IN CompileClauses(Tail(clauses), IF type = "any" THEN left ELSE PatchJump(left, 1))

CompileTry(e, fc) ==
  LET ensure == e[4]
      caught == \E i \in DOMAIN e[3] : e[3][i][1] = "any"
      goesOn == ~caught /\ ensure # <<>>
      body   == Emit(Compile(e[2], EmitJump(fc, <<"PushTry", 0>>)), <<"PopTry">>)
      rescue == CompileClauses(e[3], PatchJump(EmitJump(body, <<"Jump", 0>>), 1))
      tail   == IF caught THEN rescue
                ELSE IF ~goesOn THEN Emit(rescue, <<"Raise">>)
                ELSE EmitJump(Emit(rescue, <<"Pop">>), <<"Jump", 0>>)
      done   == PatchJumps(tail, Len(e[3]) + (IF goesOn THEN 2 ELSE 1))
  IN IF ensure = <<>> THEN done
     ELSE Emit(Emit(Compile(ensure[1], done), <<"Pop">>), <<"EnsureExit">>)

\* The arms of a match of the value in a local; each leaves its exit open.
CompileArms(arms, slot, fc) ==
  IF arms = <<>> THEN fc
  ELSE LET names == BindingNames(Head(arms)[1])
           guard == Head(arms)[2]
           test  == EmitJump(Emit(Emit(fc, <<"LoadLocal", slot>>), <<"Match", Head(arms)[1]>>),
                             <<"JumpIfFalse", 0>>)
           bound == FoldLeft(Declare, test, names)
           pass  == IF guard = <<>> THEN bound
                    ELSE EmitJump(Compile(guard[1], bound), <<"JumpIfFalse", 0>>)
           left  == EmitJump(Emit(Compile(Head(arms)[3], pass), <<"PopLocalKeep", Len(names)>>),
                             <<"Jump", 0>>)
           fails == IF guard = <<>> THEN left ELSE Emit(PatchJump(left, 1), <<"PopN", Len(names)>>)
       IN CompileArms(Tail(arms), slot,
                      [PatchJump(fails, 1) EXCEPT !.locals = SubSeq(@, 1, Len(fc.locals))])

\* compile_match; when no arm fits, the value is nil.
CompileMatch(e, fc) ==
  LET arms == CompileArms(e[3], Len(fc.locals), StoreNew(Compile(e[2], fc), "__match_scrutinee"))
  IN PopLocal(Emit(PatchJumps(Emit(arms, <<"Nil">>), Len(e[3])), <<"PopLocalKeep", 1>>))

\* compile_expr.
Compile(e, fc) ==
  LET kind == e[1] IN
  CASE kind = "lit"      -> EmitConst(fc, e[2])
    [] kind = "pair"     -> Emit(Compile(e[3], Compile(e[2], fc)), <<"NewVec", 2>>)
    [] kind = "variant"  -> EmitNamed(Compile(e[3], fc), "ConstructVariant", e[2])
    [] kind = "succ"     -> Emit(EmitConst(Compile(e[2], fc), Num(1)), <<"Add">>)
    [] kind = "get"      -> EmitNamed(fc, "LoadGlobal", e[2])
    [] kind = "arg"      -> EmitNamed(fc, "CallBuiltin", e[2])
    [] kind = "set"      -> Emit(EmitNamed(Compile(e[3], fc), "AssignGlobal", e[2]), <<"Nil">>)
    [] kind = "say"      -> EmitNamed(fc, "Say", e[2])
    [] kind = "let"      -> CloseBlock(Compile(e[4],
                              StoreNew(Compile(e[3], BeginScope(fc)), e[2])))
    [] kind = "var"      -> EmitVar(fc, "LoadLocal", "LoadUpvalue", e[2])
    [] kind = "assign"   -> Emit(EmitVar(Compile(e[3], fc), "AssignLocal", "AssignUpvalue", e[2]), <<"Nil">>)
    [] kind = "fn"       -> EmitClosure(fc, e[2], e[3])
    [] kind = "apply"    -> LET f == Compile(e[2], fc)
                            IN Emit(IF e[3] = <<>> THEN f ELSE Compile(e[3][1], f), <<"Call", Len(e[3])>>)
    [] kind = "match"    -> CompileMatch(e, fc)
    [] kind = "seq"      -> CloseBlock(Compile(e[3],
                              Emit(Compile(e[2], BeginScope(fc)), <<"Pop">>)))
    [] kind = "if"       -> CompileIf(e, fc)
    [] kind = "while"    -> CompileWhile(e[2], fc)
    [] kind = "loop"     -> CompileLoop(e[2], fc)
    [] kind = "for"      -> CompileFor(e[2], e[3], fc)
    [] kind = "break"    -> Emit(Emit(Compile(e[2], fc), <<"Break">>), <<"Nil">>)
    [] kind = "continue" -> Emit(Emit(fc, <<"Continue">>), <<"Nil">>)
    [] kind = "return"   -> Emit(Compile(e[2], fc), <<"Return">>)
    [] kind = "raise"    -> Emit(EmitConst(fc, <<"variant", e[2]>>), <<"Raise">>)
    [] kind = "try"      -> CompileTry(e, fc)
    [] kind = "transact" -> Emit(Compile(e[2], Emit(fc, <<"PushTransact", Here(fc), ByteOffset(fc)>>)),
                                 <<"TransactCommit">>)
    [] kind = "retry"    -> Emit(fc, <<"Retry">>)
    [] kind = "call"     -> EmitThunkCall(fc, e[2])
    [] kind = "reply"    -> Emit(Compile(e[2], fc), <<"Reply">>)
    [] kind = "await"    -> Emit(fc, <<"Await">>)

\* compile_program: a script of one expression.
Script(e) == Emit(Compile(e, NewFuncCtx), <<"Return">>).code
=============================================================================
