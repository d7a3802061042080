--------------------------- MODULE MCModuleLoader ---------------------------
(* TLC's instance of ModuleLoader: an entry file and two modules, a and b. *)
EXTENDS ModuleLoader

Stm(op, name) == [op |-> op, name |-> name, key |-> "", member |-> "", n |-> 0, guarded |-> FALSE]
LetN(x, n)      == [Stm("let", x) EXCEPT !.n = n]
Reader(f, x)    == [Stm("reads", f) EXCEPT !.key = x]
Bumper(f, x)    == [Stm("bumps", f) EXCEPT !.key = x]
Dot(op, m, x)   == [Stm(op, m) EXCEPT !.member = x]
Try(s)          == [s EXCEPT !.guarded = TRUE]

As == {<<LetN("x", 1), Reader("rx", "x")>>,
       <<LetN("x", 1), Bumper("bx", "x"), Reader("rx", "x")>>,
       <<Stm("import", "b"), LetN("x", 1), Dot("call", "b", "ry")>>,
       <<Stm("lazy", "b"), LetN("x", 1), Reader("rb", "b")>>,
       <<LetN("x", 1), Stm("raise", "")>>,
       <<Stm("import", "b"), Stm("raise", "")>>,
       <<Stm("import", "b"), Dot("call", "b", "by")>>,
       <<Stm("use", "b"), LetN("x", 1)>>,
       <<Stm("import", "elsewhere"), LetN("x", 1)>>,
       <<Try(Stm("import", "b")), LetN("x", 1)>>}

Bs == {<<LetN("y", 1), Reader("ry", "y"), Bumper("by", "y")>>,
       <<LetN("x", 2), Reader("ry", "x")>>,
       <<LetN("x", 1), LetN("y", 3)>>,
       <<Stm("import", "a"), LetN("y", 1)>>,
       <<Stm("lazy", "a"), Reader("ry", "a")>>,
       <<Stm("lazy", "a"), Stm("use", "a"), LetN("y", 1)>>,
       <<LetN("x", 4), Stm("raise", "")>>}

Imports == {<<Stm("import", "a")>>, <<Stm("lazy", "a")>>, <<Try(Stm("import", "a"))>>,
            <<Stm("import", "a"), Stm("import", "b")>>, <<Stm("import", "b"), Stm("import", "a")>>,
            <<Stm("lazy", "a"), Stm("lazy", "b")>>, <<Stm("import", "b"), Stm("lazy", "a")>>,
            <<LetN("x", 5), Stm("import", "a"), Stm("import", "b")>>,
            <<LetN("x", 5), Try(Stm("import", "b")), Stm("import", "a")>>,
            <<LetN("x", 5), Stm("import", "b"), LetN("y", 6), Stm("import", "a")>>}

Uses == {<<Stm("use", "x")>>, <<Dot("use", "a", "x")>>, <<Try(Stm("use", "a"))>>, <<Stm("use", "b")>>,
         <<Dot("call", "a", "rx")>>, <<Dot("call", "b", "ry")>>, <<Dot("call", "a", "rb")>>,
         <<Dot("call", "a", "bx")>>, <<Dot("call", "b", "by")>>}

Small == {("main" :> (i \o u \o v)) @@ ("a" :> a) @@ ("b" :> b) :
              i \in Imports, u \in Uses, v \in Uses, a \in As, b \in Bs}

\* The programs of README section 6 that refute ExportsItsOwn: `a` imports `b`,
\* and on the VM exports what `b` defines; `a` reads the entry file's lazy
\* import, and on either backend exports what that has become.
ThreeFiles(main, a, b) == {("main" :> main) @@ ("a" :> a) @@ ("b" :> b)}
PassesOn == ThreeFiles(<<Stm("import", "a"), Dot("use", "a", "y")>>,
                       <<Stm("import", "b"), LetN("x", 1)>>, <<LetN("y", 1)>>)
TakesIn  == ThreeFiles(<<Stm("lazy", "b"), Stm("import", "a"), Dot("use", "a", "b")>>,
                       <<Stm("use", "b"), LetN("x", 1)>>, <<LetN("y", 1)>>)
=============================================================================
