----------------------------- MODULE WorkerPool -----------------------------
(* The worker threads of `1y run` (runtime/worker.rs) and the callers that *)
(* hand them work (interpreter/stdlib/parallel.rs): one channel of jobs    *)
(* whose receiver the workers share under a mutex, one reply channel for   *)
(* each job, and a barrier the main thread passes when every worker has    *)
(* loaded the definitions of the entry file.                               *)
(* A program is its definitions and the bodies of its functions; a body is *)
(* the `parallel` statements it executes and how it ends.                  *)
EXTENDS Integers, Sequences, FiniteSets, SequencesExt

CONSTANTS
  Main,      \* the main thread
  Workers,   \* the threads of the pool
  None,      \* no thread
  MaxReplies, \* as many jobs as any of the programs submits
  Programs   \* [source, main, body]: definitions, the main body, and a body per call

ASSUME PoolAssumption ==
  /\ Workers # {} /\ Main \notin Workers /\ None \notin Workers \cup {Main}

\* A definition may load on every thread, fail on some, or panic.
\* `call` and `spawn` make one call, `join` names the earlier spawn it joins.
Statements(p) == [op : {"call", "spawn", "join", "map"}, calls : Seq(DOMAIN p.body), handle : Nat]
Definitions == [name : STRING, kind : {"let", "fn", "import"}, runs : {"ok", "maybe", "panic"}]
ASSUME ProgramsAssumption ==
  \A p \in Programs :
    /\ p.source \in Seq(Definitions)
    /\ \A b \in {p.main} \cup {p.body[c] : c \in DOMAIN p.body} :
         /\ b.does \in Seq(Statements(p))
         /\ \A i \in 1..Len(b.does) :
              /\ b.does[i].op \in {"call", "spawn"} => Len(b.does[i].calls) = 1
              /\ b.does[i].op = "join" =>
                   b.does[i].handle \in 1..i - 1 /\ b.does[b.does[i].handle].op = "spawn"
ASSUME RepliesAssumption == MaxReplies \in Nat

VARIABLES
  prog,     \* the program that is run
  phase,    \* of each thread
  loaded,   \* of each thread: the definitions its interpreter has
  holder,   \* the worker that holds the mutex of `job_rx`
  queue,    \* the jobs in the channel, by their reply channel
  replies,  \* the reply channels, in the order of submission
  frame     \* of each thread: the body it executes

vars == <<prog, phase, loaded, holder, queue, replies, frame>>

Threads == Workers \cup {Main}
Live == {w \in Workers : phase[w] # "dead"}

\* Mutant of Closed: the channel closes with the first worker.
ClosedEarly == Live # Workers

\* The workers alone hold the receiver of the jobs.
Closed == Live = {}

Over == phase[Main] \in {"done", "failed", "panicked"}

Ok(v)    == [kind |-> "ok", value |-> v]
Err(why) == [kind |-> "error", value |-> <<why>>]
Pending  == [kind |-> "pending", value |-> <<>>]

\* `rx.recv()` of a reply whose sender is gone.
Lost == Err("lost")

Handle     == Ok(<<"handle", <<>>>>)
List(got)  == Ok(<<"list", got>>)

\* A body that has not begun: no statement done, no reply channel open.
Idle == [reply |-> 0, at |-> 1, sent |-> <<>>, got |-> <<>>,
         results |-> <<>>, handles |-> {}]

Init ==
  /\ prog \in Programs
  /\ phase = [t \in Threads |-> IF t = Main THEN "starting" ELSE "loading"]
  /\ loaded = [t \in Threads |-> {}]
  /\ holder = None
  /\ queue = <<>>
  /\ replies = <<>>
  /\ frame = [t \in Threads |-> Idle]

-----------------------------------------------------------------------------
(* Starting: load_definitions on every worker, then the barrier; the main  *)
(* thread runs the whole file, the `let`s included.                        *)

Defines(t, def) == t = Main \/ def.kind # "let"
LoadedBefore(t, k) == {prog.source[j].name : j \in {j \in 1..k - 1 : Defines(t, prog.source[j])}}

\* The definitions before the k-th have been evaluated by t, and the k-th is next.
Reaches(t, k) ==
  \A j \in 1..k - 1 : Defines(t, prog.source[j]) => prog.source[j].runs # "panic"

\* Mutant of Load: a worker whose preloading fails never reaches the barrier.
LoadOrDie(t) ==
  /\ phase[t] = "loading"
  /\ \E k \in 1..Len(prog.source) + 1 :
       /\ Reaches(t, k)
       /\ k <= Len(prog.source) => Defines(t, prog.source[k]) /\ prog.source[k].runs = "maybe"
       /\ loaded' = [loaded EXCEPT ![t] = LoadedBefore(t, k)]
       /\ phase' = [phase EXCEPT ![t] = IF k <= Len(prog.source) THEN "dead"
                                        ELSE IF t = Main THEN "busy" ELSE "ready"]
  /\ UNCHANGED <<prog, holder, queue, replies, frame>>

\* An error ends the loading; a worker ignores it and keeps what it has.
Load(t) ==
  /\ phase[t] = "loading"
  /\ \E k \in 1..Len(prog.source) + 1 :
       /\ Reaches(t, k)
       /\ k <= Len(prog.source) => Defines(t, prog.source[k]) /\ prog.source[k].runs = "maybe"
       /\ loaded' = [loaded EXCEPT ![t] = LoadedBefore(t, k)]
       /\ phase' = [phase EXCEPT ![t] = IF t # Main THEN "ready"
                                        ELSE IF k <= Len(prog.source) THEN "failed" ELSE "busy"]
  /\ UNCHANGED <<prog, holder, queue, replies, frame>>

\* A panic while loading ends a worker before the barrier.
LoadPanics(t) ==
  /\ phase[t] = "loading"
  /\ \E k \in 1..Len(prog.source) :
       Reaches(t, k) /\ Defines(t, prog.source[k]) /\ prog.source[k].runs = "panic"
  /\ phase' = [phase EXCEPT ![t] = IF t = Main THEN "panicked" ELSE "dead"]
  /\ UNCHANGED <<prog, loaded, holder, queue, replies, frame>>

\* All n + 1 threads have come: the workers begin their loops, main its file.
Barrier ==
  /\ phase[Main] = "starting"
  /\ \A w \in Workers : phase[w] = "ready"
  /\ phase' = [t \in Threads |-> IF t = Main THEN "loading" ELSE "free"]
  /\ UNCHANGED <<prog, loaded, holder, queue, replies, frame>>

-----------------------------------------------------------------------------
(* The job loop.                                                           *)

Lock(w) ==
  /\ phase[w] = "free"
  /\ holder = None
  /\ holder' = w
  /\ phase' = [phase EXCEPT ![w] = "receiving"]
  /\ UNCHANGED <<prog, loaded, queue, replies, frame>>

\* Mutant of Receive: the guard of the mutex lives as long as the job.
ReceiveLocked(w) ==
  /\ phase[w] = "receiving"
  /\ queue # <<>>
  /\ queue' = Tail(queue)
  /\ phase' = [phase EXCEPT ![w] = "busy"]
  /\ frame' = [frame EXCEPT ![w] = [Idle EXCEPT !.reply = Head(queue)]]
  /\ UNCHANGED <<prog, loaded, holder, replies>>

Receive(w) ==
  /\ phase[w] = "receiving"
  /\ queue # <<>>
  /\ queue' = Tail(queue)
  /\ holder' = None
  /\ phase' = [phase EXCEPT ![w] = "busy"]
  /\ frame' = [frame EXCEPT ![w] = [Idle EXCEPT !.reply = Head(queue)]]
  /\ UNCHANGED <<prog, loaded, replies>>

-----------------------------------------------------------------------------
(* Executing a body.                                                       *)

Body(t) == IF t = Main THEN prog.main ELSE prog.body[replies[frame[t].reply].call]
Runs(t) == phase[t] = "busy" /\ Body(t).needs \subseteq loaded[t]
AtEnd(t) == frame[t].at > Len(Body(t).does)
Stmt(t) == Body(t).does[frame[t].at]

\* The reply channels a statement opens, one for each call it makes.
Submitted(t) == Len(frame[t].sent) = (IF Stmt(t).op = "join" THEN 1 ELSE Len(Stmt(t).calls))

\* Mutant of Finish: the worker goes on without having answered.
FinishSilently(t, a) ==
  /\ frame' = IF t = Main THEN frame ELSE [frame EXCEPT ![t] = Idle]
  /\ phase' = [phase EXCEPT ![t] =
       IF t # Main THEN "free" ELSE IF a.kind = "ok" THEN "done" ELSE "failed"]
  /\ replies' = IF t = Main \/ a.kind = "error" THEN replies
                ELSE [replies EXCEPT ![frame[t].reply].answer = a]

\* The body of t ends with a: a worker sends it as its reply.
Finish(t, a) ==
  /\ frame' = IF t = Main THEN frame ELSE [frame EXCEPT ![t] = Idle]
  /\ phase' = [phase EXCEPT ![t] =
       IF t # Main THEN "free" ELSE IF a.kind = "ok" THEN "done" ELSE "failed"]
  /\ replies' = IF t = Main THEN replies ELSE [replies EXCEPT ![frame[t].reply].answer = a]

\* The statement of t has the result r, and `handle` if it is a spawn.
Continue(t, r) ==
  /\ frame' = [frame EXCEPT ![t].at = @ + 1, ![t].sent = <<>>, ![t].got = <<>>,
                            ![t].results = Append(@, r)]
  /\ UNCHANGED <<phase, replies>>

\* The statement of t is an error: a body that rescues goes on after it.
Throw(t, a) == IF Body(t).rescues THEN Continue(t, a) ELSE Finish(t, a)

\* A name of the body is not there: a top-level `let`, or lost in the loading.
Undefined(t) ==
  /\ phase[t] = "busy" /\ ~Runs(t)
  /\ Finish(t, Err("undefined"))
  /\ UNCHANGED <<prog, loaded, holder, queue>>

\* A second join of a handle; an argument that no thread may be given.
Refuse(t) ==
  /\ Runs(t) /\ ~AtEnd(t) /\ ~Submitted(t)
  /\ LET s == Stmt(t)
     IN IF s.op = "join"
        THEN /\ \A h \in frame[t].handles : h[1] # s.handle
             /\ Throw(t, Err("already joined"))
        ELSE /\ ~prog.body[s.calls[Len(frame[t].sent) + 1]].sends
             /\ Throw(t, Err("argument not Send"))
  /\ UNCHANGED <<prog, loaded, holder, queue>>

\* WorkerPool::call.
Submit(t) ==
  /\ Runs(t) /\ ~AtEnd(t) /\ ~Submitted(t) /\ Stmt(t).op # "join"
  /\ LET s    == Stmt(t)
         call == s.calls[Len(frame[t].sent) + 1]
         id   == Len(replies) + 1
     IN /\ prog.body[call].sends
        /\ IF Closed
           THEN /\ phase' = [phase EXCEPT ![t] = "panicked"]
                /\ UNCHANGED <<queue, replies, frame>>
           ELSE /\ queue' = Append(queue, id)
                /\ replies' = Append(replies, [call |-> call, by |-> t, answer |-> Pending])
                /\ frame' =
                     IF s.op = "spawn"
                     THEN [frame EXCEPT ![t].handles = @ \cup {<<frame[t].at, id>>},
                                        ![t].results = Append(@, Handle), ![t].at = @ + 1]
                     ELSE [frame EXCEPT ![t].sent = Append(@, id)]
                /\ UNCHANGED phase
  /\ UNCHANGED <<prog, loaded, holder>>

\* parallel.join takes the receiver out of its handle, then waits for it.
TakeHandle(t) ==
  /\ Runs(t) /\ ~AtEnd(t) /\ ~Submitted(t) /\ Stmt(t).op = "join"
  /\ \E h \in frame[t].handles :
       /\ h[1] = Stmt(t).handle
       /\ frame' = [frame EXCEPT ![t].sent = <<h[2]>>, ![t].handles = @ \ {h}]
  /\ UNCHANGED <<prog, phase, loaded, holder, queue, replies>>

\* Mutant of Awaited: parallel.map takes whichever answer is there.
AwaitedAny(t) ==
  LET left == {k \in 1..Len(frame[t].sent) :
                 replies[frame[t].sent[k]].answer # Pending}
      k == Len(frame[t].got) + 1
  IN frame[t].sent[IF left = {} \/ k \in left THEN k ELSE CHOOSE j \in left : TRUE]

\* The reply t waits for: parallel.map takes them in the order of its list.
Awaited(t) == frame[t].sent[Len(frame[t].got) + 1]

\* parallel.map of an empty list.
MapOfNone(t) ==
  /\ Runs(t) /\ ~AtEnd(t) /\ Submitted(t) /\ frame[t].sent = <<>>
  /\ Continue(t, List(<<>>))
  /\ UNCHANGED <<prog, loaded, holder, queue>>

Collect(t) ==
  /\ Runs(t) /\ ~AtEnd(t) /\ Submitted(t) /\ frame[t].sent # <<>>
  /\ LET a   == replies[Awaited(t)].answer
         got == Append(frame[t].got, a)
     IN /\ a # Pending
        /\ IF a.kind = "error" THEN Throw(t, a)
           ELSE IF Len(got) < Len(frame[t].sent)
           THEN frame' = [frame EXCEPT ![t].got = got] /\ UNCHANGED <<phase, replies>>
           ELSE Continue(t, IF Stmt(t).op = "map" THEN List(got) ELSE a)
  /\ UNCHANGED <<prog, loaded, holder, queue>>

\* The body's own value or error; a value no thread may be given is an error.
End(t) ==
  /\ Runs(t) /\ AtEnd(t) /\ Body(t).ends # "panic"
  /\ Finish(t, CASE Body(t).ends = "value" -> Ok(<<Body(t).name, frame[t].results>>)
                 [] Body(t).ends = "error" -> Err("raised")
                 [] OTHER -> Err("result not Send"))
  /\ UNCHANGED <<prog, loaded, holder, queue>>

\* Mutant of Dropped: the last worker takes the answers given so far along.
DroppedAnswered(w) == IF Live = {w} THEN DOMAIN replies ELSE {frame[w].reply}

\* The reply channels whose sender goes with w: its own and, if it was the
\* last to hold the receiver, those of all the jobs in the channel.
Dropped(w) == {frame[w].reply} \cup (IF Live = {w} THEN ToSet(queue) ELSE {})

\* A job that panics ends its worker, and nobody starts another.
Panic(w) ==
  /\ Runs(w) /\ AtEnd(w) /\ Body(w).ends = "panic"
  /\ phase' = [phase EXCEPT ![w] = "dead"]
  /\ frame' = [frame EXCEPT ![w] = Idle]
  /\ replies' = [i \in 1..Len(replies) |->
       IF i \in Dropped(w) THEN [replies[i] EXCEPT !.answer = Lost] ELSE replies[i]]
  /\ queue' = IF Live = {w} THEN <<>> ELSE queue
  /\ UNCHANGED <<prog, loaded, holder>>

Execute(t) ==
  Undefined(t) \/ Refuse(t) \/ Submit(t) \/ TakeHandle(t) \/ MapOfNone(t) \/ Collect(t) \/ End(t)

Work(w) == Load(w) \/ LoadPanics(w) \/ Lock(w) \/ Receive(w) \/ Execute(w) \/ Panic(w)
Lead == Load(Main) \/ LoadPanics(Main) \/ Barrier \/ Execute(Main)

\* The end of main is the end of the process.
Next == ~Over /\ (Lead \/ \E w \in Workers : Work(w))

Spec == Init /\ [][Next]_vars

\* The operating system runs every thread that can go on.
FairSpec == Spec /\ WF_vars(~Over /\ Lead) /\ \A w \in Workers : WF_vars(~Over /\ Work(w))
-----------------------------------------------------------------------------
(* What a program means: what its calls give on a pool where nobody waits  *)
(* for a worker.                                                           *)

\* What the calls cs give their caller, when the functions give m.
Given(p, cs, m) == [j \in DOMAIN cs |-> IF p.body[cs[j]].sends THEN m[cs[j]] ELSE Err("argument not Send")]

FirstError(as) == LET bad == {k \in DOMAIN as : as[k].kind = "error"}
                  IN as[CHOOSE k \in bad : \A j \in bad : k <= j]

\* The handle of statement k has been joined before statement i.
Joined(b, k, i) == \E j \in k + 1..i - 1 : b.does[j].op = "join" /\ b.does[j].handle = k

\* The result of the k-th statement of a body.
Result(p, b, k, m) ==
  LET s == b.does[k]
      as == Given(p, s.calls, m)
      refused == {j \in DOMAIN s.calls : ~p.body[s.calls[j]].sends}
  IN CASE s.op = "spawn" -> IF refused = {} THEN Handle ELSE as[1]
       [] s.op = "join" ->
            LET from == b.does[s.handle].calls[1]
            IN IF ~p.body[from].sends \/ Joined(b, s.handle, k) THEN Err("already joined") ELSE m[from]
       [] s.op = "call" -> as[1]
       [] s.op = "map" -> IF refused # {} THEN Err("argument not Send")
                          ELSE IF \E j \in DOMAIN as : as[j].kind = "error" THEN FirstError(as)
                          ELSE List(as)

\* What a body gives where the names L are defined.
Gives(p, b, L, m) ==
  LET results == [k \in DOMAIN b.does |-> Result(p, b, k, m)]
      stops == \E k \in DOMAIN results : results[k].kind = "error"
  IN IF ~(b.needs \subseteq L) THEN Err("undefined")
     ELSE IF stops /\ ~b.rescues THEN FirstError(results)
     ELSE CASE b.ends = "value" -> Ok(<<b.name, results>>)
            [] b.ends = "error" -> Err("raised")
            [] b.ends = "panic" -> Lost
            [] OTHER -> Err("result not Send")

\* What each function of p gives on a worker that has the definitions L.
Meaning(p, L) ==
  LET m[c \in DOMAIN p.body] == Gives(p, p.body[c], L, m) IN m

OnWorkers(p) == {def.name : def \in {def \in ToSet(p.source) : def.kind # "let"}}

\* The functions a body calls.  No set of functions keeps calling itself: a
\* body has no conditions, so those in a circle would never end and mean nothing.
Calls(b) == UNION {ToSet(b.does[k].calls) : k \in DOMAIN b.does}
NoCircle(p) == \A S \in SUBSET DOMAIN p.body :
                 S # {} => \E c \in S : Calls(p.body[c]) \cap S = {}

\* Every thread has loaded the same: no definition succeeds here and fails there.
AllLoad == \A def \in ToSet(prog.source) : def.runs = "ok"
Settled == AllLoad /\ (~Over => phase[Main] = "busy")

-----------------------------------------------------------------------------
(* Properties.                                                             *)

RepliesAreMeant ==
  Settled =>
    \A i \in 1..Len(replies) :
      \/ replies[i].answer \in {Pending, Meaning(prog, OnWorkers(prog))[replies[i].call]}
      \/ replies[i].answer = Lost /\ Live = {}

ResultsAreMeant ==
  Settled /\ Over /\ Live # {} =>
    LET m == Meaning(prog, OnWorkers(prog))
    IN \A k \in 1..Len(frame[Main].results) : frame[Main].results[k] = Result(prog, prog.main, k, m)

\* A call through the pool has the answer its function gives, however the
\* threads interleave; it is lost only if the function panics itself, or
\* the jobs of others have ended the last worker ("call ... a function on a
\* worker thread and return its result", parallel.rs:58).  And what main got
\* from its statements is what they mean, in the order of the lists it gave to
\* parallel.map, while a worker is left.
AnswersAreMeant == RepliesAreMeant /\ ResultsAreMeant

\* A caller waits only for an answer somebody can still give: the job of a
\* pending reply is in the channel or on one live worker, in one of the two
\* and once, and a channel without a live worker holds no job.
SomebodyWillAnswer ==
  /\ \A i \in 1..Len(replies) :
       replies[i].answer = Pending <=>
         \/ i \in ToSet(queue)
         \/ \E w \in Workers : frame[w].reply = i
  /\ \A i \in 1..Len(queue) : \A w \in Workers : frame[w].reply # queue[i]
  /\ IsInjective(queue)
  /\ queue # <<>> => Live # {}

\* `.expect("worker pool channel closed")` fails on the main thread only, and
\* only when every worker has panicked.
OnlyMainFindsItClosed ==
  \A t \in Threads : phase[t] = "panicked" =>
    t = Main /\ (Live = {} \/ \E def \in ToSet(prog.source) : def.runs = "panic")

Waits(t) == /\ Runs(t) /\ ~AtEnd(t) /\ Submitted(t) /\ frame[t].sent # <<>>
            /\ replies[Awaited(t)].answer = Pending

\* The whole program stands still in two ways only: a worker panicked while
\* it loaded, so main stays at the barrier; or every live worker waits for
\* a job that a worker would have to take out of the channel.
Still ==
  /\ ~Over
  /\ \A t \in Threads :
       CASE phase[t] \in {"dead", "ready"} -> TRUE
         [] phase[t] = "starting" -> \E w \in Workers : phase[w] # "ready"
         [] phase[t] = "free" -> holder # None
         [] phase[t] = "receiving" -> queue = <<>>
         [] phase[t] = "busy" -> Waits(t)
         [] OTHER -> FALSE
StillOnlyByNesting ==
  Still => \/ phase[Main] = "starting" /\ \E w \in Workers : phase[w] = "dead"
           \/ queue # <<>> /\ \A w \in Live : Waits(w)

\* How many of the jobs a call makes, itself included, wait for other jobs,
\* and how many end their worker.
Jobs(P(_)) ==
  LET n[c \in DOMAIN prog.body] ==
        FoldSeq(LAMBDA s, k : k + FoldSeq(LAMBDA d, j : j + n[d], 0, s.calls),
                IF P(prog.body[c]) THEN 1 ELSE 0, prog.body[c].does)
  IN FoldSeq(LAMBDA s, k : k + FoldSeq(LAMBDA d, j : j + n[d], 0, s.calls), 0, prog.main.does)

\* Nobody panics while loading, and the jobs that wait or panic leave a worker.
Tame ==
  /\ \A def \in ToSet(prog.source) : def.runs # "panic"
  /\ LET waiting == Jobs(LAMBDA b : \E s \in ToSet(b.does) : s.op # "spawn")
         panics  == Jobs(LAMBDA b : b.ends = "panic")
     IN waiting = 0 \/ waiting + panics < Cardinality(Workers)

\* Every caller gets its answer and the program ends, even when every worker
\* has panicked, as long as fewer jobs wait for others than there are workers.
EveryTameProgramEnds == Tame ~> Over

\* The pool keeps the promises of Promises: channels are opened in the order
\* of submission and no answer is ever replaced, by whichever worker.
Unopened == [kind |-> "unopened", value |-> <<>>]
Promised == INSTANCE Promises WITH
  Count <- MaxReplies,
  IsAnswer <- LAMBDA a : a.kind \in {"ok", "error"},
  promise <- [i \in 1..MaxReplies |-> IF i <= Len(replies) THEN replies[i].answer ELSE Unopened]
AnswersStay == Promised!PSpec
=============================================================================
