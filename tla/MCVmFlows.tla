----------------------------- MODULE MCVmFlows ------------------------------
(* TLC's instance of VmFlows: scripts that bump the two cells or look at    *)
(* both, suspended between transactions or inside of them.                  *)
EXTENDS VmFlows

CONSTANTS f1, f2

FlowPair == {f1, f2}
Zero == <<"num", 0>>

Byte == INSTANCE Bytecode
VmMatch(p, v) == Byte!MatchRec(p, v)

\* The scripts, compiled.
Compiled(scripts) == {[f \in FlowPair |-> Byte!Script(s[f])] : s \in scripts}

Then(a, b)  == <<"seq", a, b>>
Bump(r)     == <<"set", r, <<"succ", <<"get", r>>>>>>
Transact(e) == <<"transact", e>>
Wait        == <<"await">>
Done        == <<"say", "bumped">>
Look(e)     == Transact(<<"pair", <<"get", "x">>, Then(e, <<"get", "y">>)>>)

Both(e)   == Then(Bump("x"), Then(e, Bump("y")))
Plain     == <<"lit", <<"nil">>>>
Bumping(e) == Then(Transact(Both(e)), Done)

\* Transactions without an await of their own, one of them nested or retried
\* by `retry`, with an await before and after.
Whole == { Bumping(Plain),
           Then(Bumping(Plain), Bumping(Plain)),
           Then(Transact(Then(Bump("x"), Transact(Bump("y")))), Done),
           Then(Transact(Then(Both(Plain), <<"if", <<"retry">>, Plain>>)), Done),
           Look(Plain) }
Spaced(e) == Then(Wait, Then(e, Wait))
WholeScripts == [FlowPair -> {Spaced(e) : e \in Whole}
                             \cup {Spaced(Then(e, Spaced(d))) :
                                     e \in Whole, d \in {Bumping(Plain), Look(Plain)}}]

\* Transactions suspended in the middle.
Split == { Bumping(Wait), Bumping(Plain),
           Then(Bumping(Wait), Bumping(Wait)),
           Transact(Then(<<"get", "x">>, Then(Wait, Transact(Bump("x"))))),
           Then(Transact(Then(Bump("x"), Then(Wait, Transact(Then(Bump("y"), Wait))))), Done),
           Then(Transact(Then(Both(Wait), <<"if", <<"retry">>, Plain>>)), Done) }
SplitScripts == [FlowPair -> {Spaced(e) : e \in Split}
                             \cup {Then(e, Transact(<<"reply", Bump("x")>>)) : e \in Split}]

AllCodes == Compiled(WholeScripts \cup SplitScripts)

\* One transaction that compares a cell by name with one given to a builtin.
ArgCodes == Compiled([FlowPair -> {Transact(Then(Both(Plain),
                                     <<"pair", <<"get", "x">>, <<"arg", "y">>>>))}])

\* One transaction of each flow, suspended in the middle: it bumps or looks.
Bumpers  == Compiled([FlowPair -> {Bumping(Wait)}])
Watchers == Compiled([FlowPair -> {Bumping(Plain), Look(Wait)}])
=============================================================================
