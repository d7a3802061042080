----------------------------- MODULE TreeWalker -----------------------------
(***************************************************************************)
(* The tree-walking evaluator (Interpreter::eval_expr,                     *)
(* src/src/interpreter/mod.rs) on the programs of module Bytecode, as a    *)
(* function of the program: what docs/architecture.md calls the reference  *)
(* implementation the bytecode VM has feature parity with.                 *)
(*                                                                         *)
(* An outcome is [sig, val, st]: Ok(val) is sig "ok", the Err that travels *)
(* up is "break", "continue", "return", "reply", "raise", "retry" or       *)
(* "error".  An expression is evaluated after an outcome; nothing is after *)
(* an Err.  One flow runs alone, so no commit finds a conflict (module     *)
(* TxnWalker shows it for any number of flows) and reads need no record.   *)
(***************************************************************************)
EXTENDS Naturals, Sequences, FiniteSetsExt, SequencesExt, Patterns

CONSTANTS Cells, None,
          MaxRetries      \* MAX_RETRIES

Nil == <<"nil">>

\* st: committed values, open write sets (innermost last), printed words,
\* answers left to `coin()`, and the variables: an environment says which of
\* them a name stands for, and a closure keeps the environment it is made in.
Ok(v, st)       == [sig |-> "ok", val |-> v, st |-> st]
Give(o, v)      == IF o.sig = "ok" THEN [o EXCEPT !.val = v] ELSE o
Into(o, st)     == IF o.sig = "ok" THEN [o EXCEPT !.st = st] ELSE o
Signal(o, s, v) == IF o.sig = "ok" THEN [o EXCEPT !.sig = s, !.val = v] ELSE o
RuntimeError(o) == Signal(o, "error", Nil)

Lookup(st, r) ==
  LET holders == {i \in DOMAIN st.txns : st.txns[i][r] # None}
  IN IF holders = {} THEN st.value[r] ELSE st.txns[Max(holders)][r]

Assign(st, r, v) == IF st.txns = <<>> THEN [st EXCEPT !.value[r] = v]
                    ELSE [st EXCEPT !.txns[Len(st.txns)][r] = v]

Coin(st)     == st.coins # <<>> /\ Head(st.coins)
Tossed(st)   == [st EXCEPT !.coins = IF @ = <<>> THEN @ ELSE Tail(@)]

\* define: a new variable of the name, in an environment of its own.
Bind(env, x, st) == (x :> Len(st.vars) + 1) @@ env
BindAll(env, names, st) ==
  [x \in ToSet(names) |-> Len(st.vars) + Max({i \in DOMAIN names : names[i] = x})] @@ env
WithAll(o, vs)   == Into(o, [o.st EXCEPT !.vars = @ \o vs])

Overlay(below, w) == [r \in Cells |-> IF w[r] # None THEN w[r] ELSE below[r]]
Begun(st)      == [st EXCEPT !.txns = Append(@, [r \in Cells |-> None])]
RolledBack(st) == [st EXCEPT !.txns = SubSeq(@, 1, Len(@) - 1)]
Committed(st)  ==
  LET n == Len(st.txns)
      below == RolledBack(st)
  IN IF n > 1 THEN [below EXCEPT !.txns[n - 1] = Overlay(@, st.txns[n])]
     ELSE [below EXCEPT !.value = Overlay(@, st.txns[n])]

RECURSIVE Eval(_, _, _), Loop(_, _, _, _), Attempt(_, _, _, _), Arms(_, _, _, _)

\* while, for and loop, of which "for" has left[2] turns to go, from item
\* left[3] on, each with a variable of its own, and "while" asks the coin.
\* "loop" is left by `break` only, whose value is then the value.
Turned(done, left, body, env) ==
  CASE done.sig \in {"ok", "continue"} -> Loop(left, body, env, Ok(Nil, done.st))
    [] done.sig = "break" -> Ok(IF left[1] = "loop" THEN done.val ELSE Nil, done.st)
    [] OTHER -> done

Loop(left, body, env, o) ==
  CASE left[1] = "for" /\ left[2] = 0    -> Give(o, Nil)
    [] left[1] = "for" /\ left[2] > 0    ->
         Turned(Eval(body, Bind(env, "i", o.st), WithAll(o, << <<"num", left[3]>> >>)),
                <<"for", left[2] - 1, left[3] + 1>>, body, env)
    [] left[1] = "while" /\ ~Coin(o.st)  -> Give(Into(o, Tossed(o.st)), Nil)
    [] left[1] = "while" /\ Coin(o.st)   -> Turned(Eval(body, env, Into(o, Tossed(o.st))), left, body, env)
    [] left[1] = "loop"                  -> Turned(Eval(body, env, o), left, body, env)

\* eval_transact, from attempt k on.
Attempted(done, k, body, env) ==
  CASE done.sig \in {"ok", "reply", "return"} -> [done EXCEPT !.st = Committed(@)]
    [] done.sig = "retry" -> Attempt(k + 1, body, env, Ok(Nil, RolledBack(done.st)))
    [] OTHER -> [done EXCEPT !.st = RolledBack(@)]
Attempt(k, body, env, o) ==
  IF k > MaxRetries THEN RuntimeError(o)
  ELSE Attempted(Eval(body, env, Into(o, Begun(o.st))), k, body, env)

\* call_function: the body runs where the closure was made, and `return` stops
\* at the call.
Left(done) == IF done.sig = "return" THEN [done EXCEPT !.sig = "ok"] ELSE done
Call(f, args, o) ==
  IF o.sig # "ok" THEN o
  ELSE IF f[1] # "fn" THEN RuntimeError(o)
  ELSE IF Len(f[2]) # Len(args) THEN RuntimeError(o)
  ELSE Left(Eval(f[3], BindAll(f[4], f[2], o.st), WithAll(o, args)))

\* match: the first arm whose pattern fits and whose guard is true.
Guarded(guard, v, arms, env, inner) ==
  IF guard.sig = "ok" /\ guard.val \in {Nil, <<"flag", FALSE>>} THEN Arms(v, Tail(arms), env, guard)
  ELSE Eval(Head(arms)[3], inner, guard)

Fitted(found, v, arms, env, o) ==
  LET names == SetToSeq(DOMAIN found)
      inner == BindAll(env, names, o.st)
      arm   == WithAll(o, [k \in DOMAIN names |-> found[names[k]]])
  IN Guarded(IF Head(arms)[2] = <<>> THEN Give(arm, <<"flag", TRUE>>) ELSE Eval(Head(arms)[2][1], inner, arm),
             v, arms, env, inner)

Arms(v, arms, env, o) ==
  IF o.sig # "ok" THEN o
  ELSE IF arms = <<>> THEN RuntimeError(o)
  ELSE LET found == MatchPattern(Head(arms)[1], v)
       IN IF found = <<>> THEN Arms(v, Tail(arms), env, o) ELSE Fitted(found[1], v, arms, env, o)

\* try: the first clause of the right type evaluates in place; then the
\* ensure body runs whatever happened, and its own outcome is dropped.
Rescued(o, clauses, env) ==
  LET fits   == {i \in DOMAIN clauses : clauses[i][1] \in {"any", o.val[2]}}
      clause == clauses[Min(fits)]
      caught == Ok(Nil, o.st)
  IN IF o.sig # "raise" \/ fits = {} THEN o
     ELSE Eval(clause[2], BindAll(env, clause[3], o.st),
               WithAll(caught, [i \in DOMAIN clause[3] |-> o.val]))

Ensured(done, e, env) ==
  IF e[4] = <<>> THEN done ELSE [done EXCEPT !.st = Eval(e[4][1], env, Ok(Nil, @)).st]
Try(e, env, o) == Ensured(Rescued(Eval(e[2], env, o), e[3], env), e, env)

\* Of the expressions with an operand: a is the outcome of the first one.
After(a, e, env) ==
  LET kind == e[1]
      v == a.val
  IN CASE kind = "pair"    -> LET b == Eval(e[3], env, a) IN Give(b, <<"pair", v, b.val>>)
       [] kind = "variant" -> Give(a, <<"variant", e[2], v>>)
       [] kind = "succ"    -> IF a.sig = "ok" /\ v[1] # "num" THEN RuntimeError(a) ELSE Give(a, <<"num", v[2] + 1>>)
       [] kind = "set"     -> Give(Into(a, Assign(a.st, e[2], v)), Nil)
       [] kind = "let"     -> Eval(e[4], Bind(env, e[2], a.st), WithAll(a, <<v>>))
       [] kind = "assign"  -> Give(Into(a, [a.st EXCEPT !.vars[env[e[2]]] = v]), Nil)
       [] kind = "apply"   -> LET b == IF e[3] = <<>> THEN a ELSE Eval(e[3][1], env, a)
                              IN Call(v, [i \in DOMAIN e[3] |-> b.val], b)
       [] kind = "match"   -> Arms(v, e[3], env, a)
       [] kind = "seq"     -> Eval(e[3], env, a)
       [] kind \in {"break", "return", "reply"} -> Signal(a, kind, v)

Eval(e, env, o) ==
  LET kind == e[1]
  IN IF o.sig # "ok" THEN o ELSE
     CASE kind \in {"pair", "succ", "apply", "match", "seq", "break", "return", "reply"} ->
                                 After(Eval(e[2], env, o), e, env)
       [] kind \in {"variant", "set", "let", "assign"} -> After(Eval(e[3], env, o), e, env)
       [] kind = "lit"      -> Give(o, e[2])
       [] kind = "get"      -> Give(o, Lookup(o.st, e[2]))
       [] kind = "arg"      -> Give(o, o.st.value[e[2]])
       [] kind = "say"      -> Ok(Nil, [o.st EXCEPT !.log = Append(@, e[2])])
       [] kind = "var"      -> Give(o, o.st.vars[env[e[2]]])
       [] kind = "fn"       -> Give(o, <<"fn", e[2], e[3], env>>)
       [] kind = "if"       -> Eval(IF Coin(o.st) THEN e[2] ELSE e[3], env, Into(o, Tossed(o.st)))
       [] kind \in {"while", "loop"} -> Loop(<<kind>>, e[2], env, o)
       [] kind = "for"      -> Loop(<<"for", e[2], 0>>, e[3], env, o)
       [] kind \in {"continue", "retry"} -> Signal(o, kind, Nil)
       [] kind = "raise"    -> Signal(o, "raise", <<"variant", e[2]>>)
       [] kind = "try"      -> Try(e, env, o)
       [] kind = "transact" -> Attempt(1, e[2], env, o)
       [] kind = "call"     -> Call(<<"fn", <<>>, e[2], env>>, <<>>, o)
       [] kind = "await"    -> Give(o, Nil)
=============================================================================
