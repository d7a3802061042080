--------------------------- MODULE MCActorRuntime ---------------------------
(* TLC's instance of ActorRuntime: scripts that send, ask, await and yield, *)
(* with handlers that do so in turn.                                        *)
EXTENDS ActorRuntime

ActorPair == <<"a", "b">>

Send(a, k) == <<"send", a, k>>
Ask(k)     == <<"ask", k>>
Await(w)   == <<"await", w>>
YieldNow   == <<"yield">>
Read       == <<"read">>
Reply      == <<"reply">>
Err        == <<"raise">>

UpTo(first, second) ==
  {<<>>} \cup {<<x>> : x \in first} \cup {<<x, y>> : x \in first, y \in second}

Scripts == {<<Send("a", "p")>> \o s : s \in
              {<<x, y>> \o z : x \in {Send("b", "q"), Send("a", "q"), Send("b", "unknown")},
                              y \in {YieldNow, Ask("q"), Await("any"), Await("new io")},
                              z \in {<<>>, <<Await("timer")>>, <<Err>>}}}
Ps == UpTo({Send("b", "q"), Send("b", "arity"), Ask("q"), YieldNow}, {YieldNow, Await("timer")})
Qs == {<<Read, Await("io"), YieldNow>>, <<Await("timer")>>, <<Await("ready")>>, <<Err>>, <<Reply, Err>>}

WithBodies == {[script |-> s, body |-> [p |-> p, q |-> q, arity |-> <<>>]] : s \in Scripts, p \in Ps, q \in Qs}

\* The script and two handlers await the same tasks, in one way or another.
Sharing == {[script |-> <<Send("a", "p"), Send("b", "q"), x>> \o z,
             body   |-> [p |-> <<Await(v)>>, q |-> q]] :
              x \in {YieldNow, Await("timer"), Await("all"), Await("any"), Await("one")},
              z \in {<<>>, <<Await("one")>>, <<Await("all")>>, <<YieldNow>>},
              v \in Combinators,
              q \in {<<Await("all")>>, <<Await("any")>>, <<Await("one"), Await("any")>>}}

\* Handlers that send to an actor spawned earlier, from any kind of drain.
Backward == {[script |-> <<Send("b", "p")>> \o z, body |-> [p |-> p, q |-> q, r |-> r]] :
              z \in {<<>>, <<YieldNow>>, <<Await("timer")>>, <<Err>>},
              p \in UpTo({Send("a", "q"), Await("timer")}, {YieldNow, Err}),
              q \in UpTo({Send("b", "r"), YieldNow}, {Await("any")}),
              r \in {<<>>, <<Err>>}}

ManyPrograms == WithBodies \cup Sharing \cup Backward

ASSUME AwaitedAssumption == \A p \in ManyPrograms : ReadsAwaited(p)

\* A handler that makes the task of a stream, sleeps, then awaits the task.
ReadSleepAwait == {[script |-> <<Send("a", "q"), YieldNow>>,
                    body |-> [q |-> <<Read, Await("timer"), Await("io")>>]]}

\* An actor is sent two messages.
TwoMessages == {[script |-> <<Send("a", "p"), Send("a", "p"), YieldNow>>, body |-> [p |-> <<>>]]}

\* A handler sends to an actor spawned earlier.
SendsBack == {[script |-> <<Send("b", "p")>>, body |-> [p |-> <<Send("a", "q")>>, q |-> <<>>]]}

\* The first of two messages fails.
FailsInDrain == {[script |-> <<Send("a", "q"), Send("a", "p")>>, body |-> [p |-> <<>>, q |-> <<Err>>]]}

\* A script with a message under way fails.
FailsInScript == {[script |-> <<Send("a", "p"), Err>>, body |-> [p |-> <<>>]]}

\* A handler reads two sources at a time.
AllOfTwo == {[script |-> <<Send("a", "p"), YieldNow>>, body |-> [p |-> <<Await("all")>>]]}

\* lib/http.1y: accept a connection, send it to a handler, yield, accept the next.
Accept == <<Await("new io"), Send("a", "Handle"), YieldNow>>
Server == {[script |-> Accept \o Accept, body |-> [Handle |-> <<Await("new io")>>]]}
=============================================================================
