---------------------------- MODULE ModuleLoader ----------------------------
(* `import` and `lazy import` on both backends: load_module of the         *)
(* tree-walker (interpreter/mod.rs), which evaluates a file in an          *)
(* environment of its own, and of the VM (vm/vm.rs), which runs it on the  *)
(* one table of globals and takes what has changed there for its exports.  *)
(* A program is its files; a file is its top-level statements, any of      *)
(* which may stand in a `try` that rescues. The tree-walker runs first,    *)
(* then the VM, and `told` is what each of them showed.                    *)
EXTENDS Integers, Sequences, FiniteSets, SequencesExt

CONSTANT Programs   \* each one the statements of its files, by their names

Statements == [op : {"let", "reads", "bumps", "lazy", "import", "use", "call", "raise"}, name : STRING,
               key : STRING, member : STRING, n : Int, guarded : BOOLEAN]

\* A definition in a `try` would be a local of its block, and the entry file,
\* were it imported, a second module of the same name: programs have neither.
ASSUME ProgramsAssumption ==
  \A p \in Programs :
    /\ "main" \in DOMAIN p
    /\ \A f \in DOMAIN p :
         /\ p[f] \in Seq(Statements)
         /\ \A s \in ToSet(p[f]) :
              /\ s.op \in {"let", "reads", "bumps"} => ~s.guarded
              /\ s.op \in {"lazy", "import"} => s.name # "main"

VARIABLES
  files,     \* the files: of each name, the statements
  status,    \* of each backend: "running", "done" or "failed"
  frames,    \* of each backend: the files it is evaluating, the last innermost
  loading,   \* module_load_stack
  cache,     \* module_cache: of a loaded file, its exports
  scope,     \* of each backend, of each file: its bindings; the VM has main's only
  told,      \* the values a program showed
  evaluated, \* how often each file was evaluated
  aborted    \* the files whose evaluation a rescued raise has ended

vars == <<files, status, frames, loading, cache, scope, told, evaluated, aborted>>

Backends == {"tree", "vm"}

\* What a name may stand for: a function reads or bumps the variable `key`.
Num(n)         == [kind |-> "num", of |-> "", key |-> "", n |-> n]
Fn(f, s, at)   == [kind |-> s.op, of |-> f, key |-> s.key, n |-> at]
Module(f)      == [kind |-> "module", of |-> f, key |-> "", n |-> 0]
Lazy(f)        == [kind |-> "lazy", of |-> f, key |-> "", n |-> 0]
Missing        == [kind |-> "missing", of |-> "", key |-> "", n |-> 0]

Nothing == [x \in {} |-> Missing]

\* The map with one key bound to v, as HashMap::insert leaves it.
Bound(key, v, map) == [x \in DOMAIN map \cup {key} |-> IF x = key THEN v ELSE map[x]]

Begin(f, globals) == [file |-> f, at |-> 1, snapshot |-> globals]

Init ==
  /\ files \in Programs
  /\ status = [m \in Backends |-> "running"]
  /\ frames = [m \in Backends |-> <<Begin("main", Nothing)>>]
  /\ loading = [m \in Backends |-> <<>>]
  /\ cache = [m \in Backends |-> Nothing]
  /\ scope = [m \in Backends |-> [f \in DOMAIN files |-> Nothing]]
  /\ told = [m \in Backends |-> <<>>]
  /\ evaluated = [m \in Backends |-> [f \in DOMAIN files |-> 0]]
  /\ aborted = [m \in Backends |-> {}]

-----------------------------------------------------------------------------
(* Scopes.                                                                 *)

Turn(m) == status[m] = "running" /\ (m = "vm" => status["tree"] # "running")

Frame(m)  == Last(frames[m])
InFile(m) == Frame(m).file
AtEnd(m)  == Frame(m).at > Len(files[InFile(m)])
Stmt(m)   == files[InFile(m)][Frame(m).at]

\* Where the backend keeps the bindings of a file.
Home(m, f) == IF m = "vm" THEN "main" ELSE f

\* The bindings of a map before those of another.
Before(map, rest) ==
  [x \in DOMAIN map \cup DOMAIN rest |-> IF x \in DOMAIN map THEN map[x] ELSE rest[x]]

\* The bindings code of file f sees: its own before those of the entry file.
Sees(m, f) == Before(scope[m][Home(m, f)], scope[m]["main"])
Value(m, f, name) == IF name \in DOMAIN Sees(m, f) THEN Sees(m, f)[name] ELSE Missing

\* Assignment to an existing name: where it is bound.
Assigned(m, scope1, f, name, v) ==
  LET at == IF name \in DOMAIN scope1[m][Home(m, f)] THEN Home(m, f) ELSE "main"
  IN [scope1 EXCEPT ![m][at] = Bound(name, v, @)]

\* A definition at the top level of the file, or in a block of its `try`: the
\* tree-walker's block has an environment of its own, which is then dropped;
\* the VM compiles an import, a lazy import and their resolution to globals.
Defined(m, name, v) ==
  IF Stmt(m).guarded /\ m = "tree" THEN scope
  ELSE [scope EXCEPT ![m][Home(m, InFile(m))] = Bound(name, v, @)]

Loaded(m, f) == f \in DOMAIN cache[m]

\* A lazy binding of a loaded file is as good as the module.
Forced(m, v) == IF v.kind = "lazy" /\ Loaded(m, v.of) THEN Module(v.of) ELSE v

\* What the path of a use leads to: the name itself, or a member of a module.
Named(m) == Forced(m, Value(m, InFile(m), Stmt(m).name))
Member(m) ==
  LET v == Named(m) IN
  IF Stmt(m).member = "" THEN v
  ELSE IF v.kind = "module" /\ Stmt(m).member \in DOMAIN cache[m][v.of]
       THEN cache[m][v.of][Stmt(m).member] ELSE Missing

\* The variable a called function reads, found where the function looks.
Read(m) == Forced(m, Value(m, Member(m).of, Member(m).key))

Calls(m) == Stmt(m).op = "call" /\ Member(m).kind \in {"reads", "bumps"}

\* What reading the name of a lazy import binds it to, then.
Rebound(m) ==
  LET name == Stmt(m).name
  IN IF Value(m, InFile(m), name).kind = "lazy" THEN Defined(m, name, Named(m)) ELSE scope

\* And what a called function binds the lazy import it reads to: on the VM a
\* global, in the tree-walker a local of the call.
Recalled(m) ==
  LET key == Member(m).key
  IN IF m = "vm" /\ Value(m, Member(m).of, key).kind = "lazy"
     THEN [Rebound(m) EXCEPT ![m]["main"] = Bound(key, Read(m), @)] ELSE Rebound(m)

\* The file the statement cannot go on without, as it is not loaded.
Needed(m) ==
  LET read == (IF Stmt(m).op \in {"use", "call"} THEN {Named(m)} ELSE {})
                \cup (IF Calls(m) THEN {Read(m)} ELSE {})
  IN IF Stmt(m).op = "import" THEN {Stmt(m).name} \ DOMAIN cache[m]
     ELSE {v.of : v \in {v \in read : v.kind = "lazy"}}

-----------------------------------------------------------------------------
(* Statements.                                                             *)

Ahead(frame) == [frame EXCEPT !.at = @ + 1]
Advanced(m) == [frames EXCEPT ![m] = Front(@) \o <<Ahead(Frame(m))>>]

Runs(m, op) == Turn(m) /\ ~AtEnd(m) /\ Needed(m) = {} /\ Stmt(m).op = op

\* An error, which no `try` rescues.
Fail(m) ==
  /\ status' = [status EXCEPT ![m] = "failed"]
  /\ UNCHANGED <<files, frames, loading, cache, scope, told, evaluated, aborted>>

Proceed(m, scope2, told2) ==
  /\ frames' = Advanced(m)
  /\ scope' = scope2
  /\ told' = [told EXCEPT ![m] = @ \o told2]
  /\ UNCHANGED <<files, status, loading, cache, evaluated, aborted>>

Let(m) == Runs(m, "let") /\ Proceed(m, Defined(m, Stmt(m).name, Num(Stmt(m).n)), <<>>)

FuncDef(m) ==
  /\ \E op \in {"reads", "bumps"} : Runs(m, op)
  /\ Proceed(m, Defined(m, Stmt(m).name, Fn(InFile(m), Stmt(m), Frame(m).at)), <<>>)

LazyImport(m) ==
  Runs(m, "lazy") /\ Proceed(m, Defined(m, Stmt(m).name, Lazy(Stmt(m).name)), <<>>)

\* The file is loaded, in this or an earlier step.
Import(m) ==
  Runs(m, "import") /\ Proceed(m, Defined(m, Stmt(m).name, Module(Stmt(m).name)), <<>>)

\* `name` or `name.member`.
Use(m) ==
  /\ Runs(m, "use")
  /\ IF Member(m) = Missing THEN Fail(m) ELSE Proceed(m, Rebound(m), <<Member(m)>>)

\* `name()` or `name.member()`, of a function that reads or bumps a variable.
Call(m) ==
  /\ Runs(m, "call")
  /\ LET fn == Member(m)
         v  == IF Calls(m) THEN Read(m) ELSE Missing
     IN IF v = Missing THEN Fail(m)
        ELSE IF fn.kind = "reads" THEN Proceed(m, Recalled(m), <<v>>)
        ELSE IF v.kind = "num" THEN Proceed(m, Assigned(m, Recalled(m), fn.of, fn.key, Num(v.n + 1)), <<>>)
        ELSE Fail(m)

\* The frame a raise unwinds to, if one of the statements being executed is
\* in a `try`.
Handler(m) ==
  LET trying == {k \in 1..Len(frames[m]) : files[frames[m][k].file][frames[m][k].at].guarded}
  IN IF trying = {} THEN 0 ELSE CHOOSE k \in trying : \A j \in trying : j <= k

\* Neither module_load_stack nor the globals are restored on the way.
Raise(m) ==
  /\ Runs(m, "raise")
  /\ LET h == Handler(m)
     IN IF h = 0 THEN Fail(m)
        ELSE /\ frames' = [frames EXCEPT ![m] =
                  SubSeq(@, 1, h - 1) \o <<Ahead(frames[m][h])>>]
             /\ aborted' = [aborted EXCEPT ![m] =
                  @ \cup {frames[m][k].file : k \in h + 1..Len(frames[m])}]
             /\ told' = [told EXCEPT ![m] = Append(@, Num(-1))]
             /\ UNCHANGED <<files, status, loading, cache, scope, evaluated>>

-----------------------------------------------------------------------------
(* load_module.                                                            *)

Readable(f) == f \in DOMAIN files

\* Mutant of InProgress: only a file that imports itself is circular.
InProgressLast(m, f) == loading[m] # <<>> /\ Last(loading[m]) = f

\* Mutant of InProgress: a flag in place of the stack.
InProgressFlag(m, f) == loading[m] # <<>>

\* The circular-import check.
InProgress(m, f) == f \in ToSet(loading[m])

\* A function that needs the file was called by a name already read.
NameRead(m) == IF Calls(m) THEN Rebound(m) ELSE scope

\* The tree-walker evaluates a module in a fresh environment.
Opened(m, f) == IF m = "tree" THEN [NameRead(m) EXCEPT ![m][f] = Nothing] ELSE NameRead(m)

Enter(m) ==
  /\ Turn(m) /\ ~AtEnd(m)
  /\ \E f \in Needed(m) :
       IF ~Readable(f) \/ InProgress(m, f) THEN Fail(m)
       ELSE /\ frames' = [frames EXCEPT ![m] = Append(@, Begin(f, Opened(m, f)[m][Home(m, f)]))]
            /\ scope' = Opened(m, f)
            /\ loading' = [loading EXCEPT ![m] = Append(@, f)]
            /\ evaluated' = [evaluated EXCEPT ![m][f] = @ + 1]
            /\ UNCHANGED <<files, status, cache, told, aborted>>

\* The tree-walker exports the bindings of the module's environment; the VM
\* the globals that are new or have another value than before.
Exports(m) ==
  LET now == scope[m][Home(m, InFile(m))]
      was == Frame(m).snapshot
      changed == {x \in DOMAIN now : x \notin DOMAIN was \/ now[x] # was[x]}
  IN [x \in changed |-> now[x]]

\* Mutant of Restored: the module's definitions stay in place of the importer's.
RestoredNever(m) == scope

\* Mutant of Restored: the module's new globals go as well.
RestoredWhole(m) ==
  IF m = "vm" THEN [scope EXCEPT !["vm"]["main"] = Frame(m).snapshot] ELSE scope

\* The VM puts the globals the module has overwritten back, and keeps the new.
Restored(m) ==
  IF m = "vm" THEN [scope EXCEPT !["vm"]["main"] = Before(Frame(m).snapshot, @)] ELSE scope

\* Mutant of Popped: the module stays on the load stack.
PoppedNever(m) == loading

Popped(m) == [loading EXCEPT ![m] = Front(@)]

\* The end of a file: a module is cached, main is done.
EndOfFile(m) ==
  /\ Turn(m) /\ AtEnd(m)
  /\ IF Len(frames[m]) = 1
     THEN /\ status' = [status EXCEPT ![m] = "done"]
          /\ UNCHANGED <<frames, loading, cache, scope>>
     ELSE /\ cache' = [cache EXCEPT ![m] = Bound(InFile(m), Exports(m), @)]
          /\ scope' = Restored(m)
          /\ loading' = Popped(m)
          /\ frames' = [frames EXCEPT ![m] = Front(@)]
          /\ UNCHANGED status
  /\ UNCHANGED <<files, told, evaluated, aborted>>

Step(m) == \/ Let(m) \/ FuncDef(m) \/ LazyImport(m) \/ Import(m) \/ Use(m) \/ Call(m)
           \/ Raise(m) \/ Enter(m) \/ EndOfFile(m)

Over == \A m \in Backends : status[m] # "running"
Next == (\E m \in Backends : Step(m)) \/ (Over /\ UNCHANGED vars)
Spec == Init /\ [][Next]_vars
-----------------------------------------------------------------------------
(* Properties.                                                             *)

\* "each module file is loaded and evaluated at most once" (modules.md:112),
\* on either backend, whatever imports it and wherever it fails, as long as
\* no aborted load was rescued (README: such a module may run twice).
OncePerFile ==
  \A m \in Backends : aborted[m] = {} => \A f \in DOMAIN files : evaluated[m][f] <= 1

\* module_load_stack is the chain of the files being loaded, from the entry
\* file's import to the innermost, as long as no load was aborted.
LoadStackIsReal ==
  \A m \in Backends :
    aborted[m] = {} => loading[m] = [k \in 1..Len(frames[m]) - 1 |-> frames[m][k + 1].file]

\* The files of p that f may come to import: those it names, and those that
\* define a function of a name it uses, which import what they read.
Mentions(p, f) ==
  {g \in DOMAIN p : \E s \in ToSet(p[f]) :
     \/ g \in {s.name, s.key}
     \/ \E d \in ToSet(p[g]) : d.op \in {"reads", "bumps"} /\ d.name \in {s.name, s.member}}

\* Those it reaches so, one through the other: in every set that is closed.
Reaches(p, f) ==
  {g \in DOMAIN p : \A S \in SUBSET DOMAIN p :
     Mentions(p, f) \subseteq S /\ (\A h \in S : Mentions(p, h) \subseteq S) => g \in S}

\* "circular imports raise an error" (modules.md:119), and nothing else is
\* taken for one: the file is part of a cycle, or its load was aborted.
CircularOnlyInCycles ==
  \A m \in Backends :
    Turn(m) /\ ~AtEnd(m) =>
      \A f \in Needed(m) : InProgress(m, f) => f \in aborted[m] \/ f \in Reaches(files, f)

\* The names of the statements q that have one of the operations.
Names(q, ops) == {s.name : s \in {s \in ToSet(q) : s.op \in ops}}

\* The names that `let` alone defines in the file q, by statements before its
\* k-th, and what they have last.
Defines(q, k) == {q[j].name : j \in {j \in 1..k - 1 : q[j].op = "let"}}
                   \ Names(q, {"reads", "bumps", "lazy", "import"})
LastOf(q, k, x) ==
  LET at == {j \in 1..k - 1 : q[j].op = "let" /\ q[j].name = x}
  IN q[CHOOSE j \in at : \A i \in at : i <= j].n

Bumped == \E f \in DOMAIN files : \E s \in ToSet(files[f]) : s.op = "bumps"

NamesOfFilesKept ==
  \A m \in Backends :
    ~Bumped /\ aborted[m] = {} =>
      LET q == files[InFile(m)]
      IN \A x \in Defines(q, Frame(m).at) : Value(m, InFile(m), x) = Num(LastOf(q, Frame(m).at, x))

NamesExported ==
  \A m \in Backends :
    ~Bumped /\ aborted[m] = {} =>
      \A f \in DOMAIN cache[m] : \A x \in Defines(files[f], Len(files[f]) + 1) :
        LET v == Num(LastOf(files[f], Len(files[f]) + 1, x))
        IN \/ x \in DOMAIN cache[m][f] /\ cache[m][f][x] = v
           \/ m = "vm" /\ \E g \in DOMAIN files \ {f} : \E s \in ToSet(files[g]) :
                            s.op = "let" /\ s.name = x /\ Num(s.n) = v

\* The names the statements of a file have, and those its functions look up.
Said(q) == {s.name : s \in ToSet(q)}
Spoken(p, f) == UNION {Said(p[g]) \cup {s.key : s \in ToSet(p[g])} : g \in {f} \cup Reaches(p, f)}

ExportsBounded ==
  \A m \in Backends : \A f \in DOMAIN cache[m] :
    DOMAIN cache[m][f] \subseteq IF m = "tree" THEN Said(files[f]) ELSE Spoken(files, f)

\* What a file has defined stays as it defined it, whatever the modules it
\* imports define under the same names, on the VM's one table of globals too,
\* as long as no load was aborted (README: what that has overwritten stays so).
\* A loaded module exports what it defines, but that the VM overlooks a name
\* that had the very same value before (README). And nothing else comes out of
\* it than: in the tree-walker, names its own statements have; on the VM, names
\* it and the files it reaches speak of (README: more than modules.md:99
\* promises). A name only its importer speaks of stays inside, aborted or not.
OwnNamesKept == NamesOfFilesKept /\ NamesExported /\ ExportsBounded

\* What the code does not keep, and no run checks (README, section 6): "A `.1y`
\* file's top-level bindings are exactly what it exports" (modules.md:99),
\* those an import makes being counted as its own.
ExportsItsOwn ==
  \A m \in Backends : \A f \in DOMAIN cache[m] :
    DOMAIN cache[m][f] \subseteq Names(files[f], {"let", "reads", "bumps", "lazy", "import"})

\* A program the two kinds of scope make no difference to: every name is
\* defined in one file and used there, or as a member of that file's module;
\* a module calls nothing that assigns while it loads; nothing is rescued.
Lexical ==
  \A f \in DOMAIN files :
    /\ \A g \in DOMAIN files \ {f} :
         Names(files[f], {"let", "reads", "bumps"}) \cap Names(files[g], {"let", "reads", "bumps"}) = {}
    /\ \A s \in ToSet(files[f]) :
         /\ ~s.guarded
         /\ s.op \in {"reads", "bumps"} => s.key \in Names(files[f], {"let", "import", "lazy"})
         /\ s.op \in {"use", "call"} =>
              /\ s.name \in Names(files[f], {"let", "reads", "bumps", "import", "lazy"})
              /\ s.member # "" => s.member \in Names(files[s.name], {"let", "reads", "bumps"})
         /\ s.op = "call" /\ f # "main" => \A g \in DOMAIN files : Names(files[g], {"bumps"}) = {}

\* On such a program both backends show the same and end the same.
BothLoadersAgree ==
  Over /\ Lexical => told["vm"] = told["tree"] /\ status["vm"] = status["tree"]
=============================================================================
