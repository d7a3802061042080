----------------------------- MODULE MCVmParity -----------------------------
(* TLC's instance of VmParity: programs that nest constructs around a leaf.*)
EXTENDS VmParity

Zero == <<"num", 0>>
VmMatch(p, v) == Byte!MatchRec(p, v)
Tell(k) == <<"say", k>>
Lit(n) == <<"lit", <<"num", n>>>>
ThenBreak(e) == <<"seq", e, <<"break", Lit(7)>>>>

RECURSIVE Leaf(_), Wrap(_, _), Nests(_, _, _)

Leaf(l) ==
  CASE l = "say"      -> Tell("leaf")
    [] l = "get"      -> <<"get", "x">>
    [] l = "bump"     -> <<"set", "x", <<"succ", <<"get", "x">>>>>>
    [] l = "arg"      -> <<"arg", "x">>
    [] l = "raise A"  -> <<"raise", "A">>
    [] l = "break"    -> <<"if", <<"break", Lit(5)>>, Tell("stay")>>
    [] l = "continue" -> <<"if", <<"continue">>, Tell("stay")>>
    [] l = "return"   -> <<"return", Lit(3)>>
    [] l = "retry"    -> <<"if", <<"retry">>, Tell("stay")>>
    [] l = "give up"  -> <<"retry">>
    [] l = "reply"    -> <<"reply", Lit(6)>>
    [] l = "var"      -> <<"var", "v">>
    [] l = "count"    -> <<"assign", "v", <<"succ", <<"var", "v">>>>>>
    [] l = "some"     -> <<"variant", "S", <<"var", "v">>>>
    [] l = "two"      -> <<"pair", <<"var", "v">>, Lit(3)>>
    [] l = "call bump" -> <<"call", Leaf("bump")>>
    [] l = "recover"  -> Wrap("rescue", Leaf("raise A"))
    [] l = "abort"    -> Wrap("rescue", Wrap("operand", Wrap("transact", Leaf("raise A"))))

\* A function of f's scope, applied.
Applied(f, args) == <<"apply", f, args>>
Thunk(e)         == <<"fn", <<>>, e>>
Var(x)           == <<"var", x>>
Arm(pattern, e)  == <<pattern, <<>>, e>>

Wrap(w, e) ==
  CASE w = "before"   -> <<"seq", Tell("before"), e>>
    [] w = "after"    -> <<"seq", e, Tell("after")>>
    [] w = "if"       -> <<"if", e, Lit(1)>>
    [] w = "let"      -> <<"let", "v", e, <<"var", "v">>>>
    [] w = "in let"   -> <<"let", "v", Lit(4), <<"pair", <<"var", "v">>, e>>>>
    [] w = "operand"  -> <<"pair", Lit(2), e>>
    [] w = "call"     -> <<"call", e>>
    [] w = "loop"     -> <<"loop", ThenBreak(e)>>
    [] w = "while"    -> <<"while", e>>
    [] w = "for"      -> <<"for", 2, e>>
    [] w = "for;"     -> <<"seq", <<"for", 2, e>>, Lit(1)>>
    [] w = "rescue"   -> <<"try", e, << <<"any", Tell("rescued"), <<>>>> >>, <<>>>>
    [] w = "rescue B" -> <<"try", e, << <<"B", Tell("B"), <<>>>> >>, <<>>>>
    [] w = "rescue BA" -> <<"try", e, << <<"B", Tell("B"), <<>>>>, <<"A", Tell("A"), <<>>>> >>, <<>>>>
    [] w = "ensure"   -> <<"try", e, <<>>, <<Tell("ensure")>>>>
    [] w = "in rescue" -> <<"try", <<"raise", "B">>, << <<"any", e, <<>>>> >>, <<>>>>
    [] w = "in ensure" -> <<"try", <<"raise", "B">>, <<>>, <<e>>>>
    [] w = "with v"   -> <<"let", "v", Lit(4), <<"seq", e, Var("v")>>>>
    [] w = "twice"    -> <<"let", "f", Thunk(e), <<"seq", Applied(Var("f"), <<>>), Applied(Var("f"), <<>>)>>>>
    [] w = "escape"   -> Applied(<<"call", <<"let", "v", Lit(8), Thunk(e)>>>>, <<>>)
    [] w = "given"    -> Applied(<<"fn", <<"v">>, e>>, <<Lit(2)>>)
    [] w = "rescue v" -> <<"try", <<"raise", "B">>, << <<"any", e, <<"v">>>> >>, <<>>>>
    [] w = "match"    -> <<"match", e, << Arm(<<"lit", <<"num", 4>>>>, Lit(40)),
                                          Arm(<<"vec", << <<"bind", "v">>, <<"lit", <<"num", 3>>>> >>, FALSE>>, Var("v")),
                                          Arm(<<"variant", << <<"bind", "v">> >>, "S">>, Var("v")),
                                          << <<"bind", "v">>, << <<"if", Lit(1), <<"lit", Nil>>>> >>, Var("v")>>,
                                          Arm(<<"_">>, Tell("other")) >>>>
    [] w = "arm"      -> <<"match", <<"pair", Lit(1), Lit(2)>>,
                           << Arm(<<"vec", << <<"or", << <<"lit", <<"num", 2>>>>, <<"lit", <<"num", 1>>>> >>>>, <<"bind", "v">> >>, FALSE>>, e) >>>>
    [] w = "guard"    -> <<"match", Lit(6), << << <<"bind", "v">>, <<e>>, Var("v")>>, Arm(<<"_">>, Tell("other")) >>>>
    [] w = "transact" -> <<"transact", <<"seq", <<"set", "x", <<"succ", <<"get", "x">>>>>>, e>>>>

\* Up to n of the constructs ws around one of the leaves ls.
Nests(n, ws, ls) ==
  IF n = 0 THEN {Leaf(l) : l \in ls}
  ELSE LET smaller == Nests(n - 1, ws, ls)
       IN smaller \cup {Wrap(w, e) : w \in ws, e \in smaller}

LoopNests == Nests(3, {"after", "if", "let", "loop", "for;"},
                      {"arg", "break", "continue", "return"})
CallNests == Nests(3, {"let", "if", "call", "loop", "while", "for;"},
                      {"bump", "return", "raise A"})
TryNests == Nests(3, {"if", "let", "loop", "rescue", "rescue B", "rescue BA", "ensure"},
                     {"say", "raise A", "recover"})
TransactNests == Nests(3, {"if", "let", "while", "for;", "rescue", "transact"},
                          {"bump", "retry", "call bump", "recover", "abort"})

ClosureNests == {Wrap("with v", e) : e \in Nests(3, {"with v", "twice", "escape", "given", "rescue v", "if"},
                                                    {"count", "var"})}

\* A guard that fails after a closure captured what its pattern binds.
GuardCapture == {Wrap("with v", Wrap("guard", Wrap("twice", Leaf("count"))))}
MatchNests == {Wrap("with v", e) : e \in Nests(2, {"match", "arm", "guard", "escape", "twice"},
                                                  {"count", "var", "some", "two"})} \ GuardCapture

\* The nests the backends agree on.
Agreeing == LoopNests \cup CallNests \cup TryNests \cup TransactNests \cup ClosureNests \cup MatchNests

\* Every construct in every other, whether the backends agree on it or not.
Pairs == Nests(2, {"before", "after", "if", "let", "in let", "operand", "call", "loop",
                   "while", "for", "for;", "rescue", "rescue B", "rescue BA", "ensure",
                   "in rescue", "in ensure", "transact"},
                  {"bump", "raise A", "break", "continue", "return", "retry", "give up", "reply"})

Nested == Agreeing \cup Pairs

\* Parity, of the nests the backends agree on.
ParityAgreed == Ended /\ prog \in Agreeing => Parity

\* CleanEnd, of the same nests.
CleanEndAgreed == Ended /\ prog \in Agreeing => CleanEnd

\* The least programs the backends differ on, one for each cause (README).
TransactReturn   == {Wrap("transact", Leaf("return"))}
TransactReply    == {Wrap("transact", Leaf("reply"))}
TransactContinue == {Wrap("for;", Wrap("transact", Leaf("continue")))}
TransactRaise    == {Wrap("rescue", Wrap("transact", Leaf("raise A")))}
NestedTransact   == {Wrap("transact", Wrap("call", Wrap("transact", Leaf("bump"))))}
Attempts         == {Wrap("transact", Wrap("before", Leaf("give up")))}
StaleLoop        == {Wrap("loop", Wrap("rescue", Wrap("for;", Leaf("raise A"))))}
WhileBreak       == {Wrap("while", Leaf("break"))}
ForValue         == {Wrap("for", Leaf("say"))}
OperandLet       == {Wrap("operand", Wrap("let", Leaf("say")))}
FirstConstant    == {Wrap("rescue BA", Wrap("call", Leaf("raise A")))}
EnsureReturn     == {Wrap("ensure", Leaf("return"))}
EnsureRescue     == {Wrap("in ensure", Wrap("in rescue", Leaf("say")))}
RescueReturn     == {Wrap("after", Wrap("in rescue", Leaf("return")))}
CaptureShared    == {<<"apply", <<"call", <<"let", "v", Lit(4),
                       <<"let", "f", Thunk(Leaf("count")), <<"let", "g", Thunk(Var("v")),
                         Thunk(<<"seq", Applied(Var("f"), <<>>), Applied(Var("g"), <<>>)>>)>>>>>>>>, <<>>>>}
CaptureFor       == {<<"for", 2, Thunk(Var("i"))>>}
CaptureBreak     == {<<"loop", <<"let", "v", Lit(4), <<"break", Thunk(Var("v"))>>>>>>}
NoArm            == {<<"match", Lit(6), << Arm(<<"lit", <<"num", 4>>>>, Lit(1)) >>>>}
OrSwapped        == {<<"match", <<"pair", Lit(1), Lit(2)>>,
                       << Arm(<<"or", << <<"vec", << <<"bind", "v">>, <<"variant", << <<"bind", "w">> >>, "S">> >>, FALSE>>,
                                         <<"vec", << <<"bind", "w">>, <<"bind", "v">> >>, FALSE>> >>>>, Var("v")) >>>>}
=============================================================================
