---------------------------- MODULE MCWorkerPool ----------------------------
(* TLC's instance of WorkerPool: three workers and small programs over a     *)
(* fixed set of functions.                                                 *)
EXTENDS WorkerPool

Call(c)   == [op |-> "call", calls |-> <<c>>, handle |-> 0]
Spawn(c)  == [op |-> "spawn", calls |-> <<c>>, handle |-> 0]
Map(cs)   == [op |-> "map", calls |-> cs, handle |-> 0]
Join(k)   == [op |-> "join", calls |-> <<>>, handle |-> k]

Plain(name) == [name |-> name, does |-> <<>>, ends |-> "value", needs |-> {name},
                sends |-> TRUE, rescues |-> FALSE]

\* The functions of the entry file, named for what they do.
Names == <<"leaf", "raises", "panics", "opaque", "unsendable", "global", "nests", "fans", "rescues">>

Functions == [c \in ToSet(Names) |->
       CASE c = "raises"     -> [Plain(c) EXCEPT !.ends = "error"]
         [] c = "panics"     -> [Plain(c) EXCEPT !.ends = "panic"]
         [] c = "opaque"     -> [Plain(c) EXCEPT !.ends = "resource"]
         [] c = "unsendable" -> [Plain(c) EXCEPT !.sends = FALSE]
         [] c = "global"     -> [Plain(c) EXCEPT !.needs = {c, "limit"}]
         [] c = "nests"      -> [Plain(c) EXCEPT !.does = <<Call("leaf")>>]
         [] c = "fans"       -> [Plain(c) EXCEPT !.does = <<Spawn("leaf"), Call("leaf"), Join(1)>>]
         [] c = "rescues"    -> [Plain(c) EXCEPT !.does = <<Call("panics"), Call("raises")>>,
                                                 !.rescues = TRUE]
         [] OTHER            -> Plain(c)]

Def(name, kind, runs) == [name |-> name, kind |-> kind, runs |-> runs]
Fns == [k \in DOMAIN Names |-> Def(Names[k], "fn", "ok")]

\* Files that load everywhere, here and there, or nowhere.
Good   == <<Def("limit", "let", "ok")>> \o Fns
Flaky  == <<Def("net", "import", "maybe")>> \o Fns
Broken == <<Def("limit", "let", "ok"), Def("net", "import", "panic")>>

Singles == {Call(c) : c \in DOMAIN Functions} \cup {Spawn("nests"), Spawn("panics"), Spawn("global"), Map(<<>>)}
             \cup {Map(<<c, d>>) : c, d \in {"leaf", "raises", "panics", "nests", "unsendable"}}
Mains == {<<s>> : s \in Singles}
  \cup {<<s, t>> : s \in {Call("panics"), Call("leaf"), Spawn("panics"), Map(<<"leaf", "raises">>)},
                   t \in Singles}
  \cup {<<Spawn(c), t, Join(1)>> : c \in {"leaf", "raises", "nests"},
                                   t \in {Call("leaf"), Join(1), Map(<<"leaf", "panics">>)}}
  \cup {<<Map(<<c, c, d>>), s>> : c, d \in {"panics", "nests", "rescues"},
                                  s \in {Call("leaf"), Map(<<"leaf", "leaf">>)}}
  \cup {<<Call("leaf"), Map(<<"panics", "panics", "panics">>), Call("leaf")>>}

Small == {[source |-> source,
           main |-> [Plain("main") EXCEPT !.does = main, !.needs = {}, !.rescues = r],
           body |-> Functions] :
            source \in {Good}, main \in Mains, r \in BOOLEAN}
  \cup {[source |-> source,
           main |-> [Plain("main") EXCEPT !.does = <<Call("leaf"), Call("nests")>>, !.needs = {}],
           body |-> Functions] : source \in {Flaky, Broken}}

\* Their functions have a meaning, as PoolAnswersAreMeant supposes.
ASSUME MeaningAssumption == \A p \in Programs : NoCircle(p)

\* The least programs whose calls are not answered (README).
Nesting   == {p \in Small : p.source = Good /\ p.main.does = <<Map(<<"nests", "nests", "nests">>), Call("leaf")>>}
Unloaded  == {p \in Small : p.source = Broken}
=============================================================================
