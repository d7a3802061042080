---------------------------- MODULE ActorRuntime -----------------------------
(***************************************************************************)
(* Actors on one thread: mailboxes, the drains that empty them, and the    *)
(* coroutine scheduler under the asynchronous drain                        *)
(* (src/src/interpreter/mod.rs, src/src/runtime/scheduler.rs; the VM has   *)
(* the same code with a VmCtx for each handler).                           *)
(*                                                                         *)
(* A flow of control is the script (0) or the coroutine of a message,      *)
(* which has the number of the message.  Each has a host stack of its own; *)
(* the last flow of `chain` runs, the others wait inside the scheduler     *)
(* ticks that resumed the next one.                                        *)
(***************************************************************************)
EXTENDS Naturals, SequencesExt, FiniteSetsExt, Picking

CONSTANTS
  Programs,         \* records: the script's operations, and a handler's for each message kind
  Actors,           \* live_actors: the actors in the order of their spawning, each once
  WrongArity,       \* message kinds sent with a number of arguments no handler takes
  TicksPerYield,    \* TICKS_PER_YIELD: 4 in the tree-walker, 64 in the VM
  DrainsAfterError, \* does a failed script still drain the mailboxes? (not in the VM)
  Null,             \* a null pointer
  Shared,           \* how many tasks the flows hold in common (sleeps, say)
  MaxMsgs           \* bound of the model: messages sent in a run

ASSUME ActorAssumption ==
  /\ TicksPerYield \in Nat \ {0} /\ MaxMsgs \in Nat /\ Shared \in Nat
  /\ DrainsAfterError \in BOOLEAN /\ Null \notin Nat
  /\ Actors \in Seq(ToSet(Actors)) /\ IsInjective(Actors)

\* The operations of a program; it sends to actors it has spawned.
Operations(p) == ToSet(p.script) \cup UNION {ToSet(p.body[k]) : k \in DOMAIN p.body}

ASSUME ProgramsAssumption ==
  \A p \in Programs :
    /\ p.script \in Seq(Operations(p))
    /\ \A k \in DOMAIN p.body : p.body[k] \in Seq(Operations(p))
    /\ \A op \in Operations(p) : op[1] = "send" => op[2] \in ToSet(Actors)

VARIABLES
  prog,        \* the program that runs
  mailbox,     \* of every actor: messages, oldest first
  sent,        \* to whom messages have been sent; they are numbered in this order
  stack,       \* of every flow: what it is in the middle of, innermost last
  chain,       \* the flows that have been resumed and not suspended since
  ready,       \* Scheduler.ready
  parked,      \* Scheduler.parked: coroutines that wait for I/O or are polled
  timers,      \* Scheduler.timer_parked
  elapsed,     \* those of `timers` whose deadline has passed, in that order
  waits,       \* what every flow last awaited
  registered,  \* the flows whose task has a mio token (task_ptr_to_token)
  data,        \* the flows whose awaited task would poll as ready
  task,        \* the TaskState of the common tasks: "pending", "ready" or "consumed"
  given,       \* how often the value of each common task has been handed to an await
  event,       \* the registered flows mio has an event for, not yet reported
  yielder,     \* CURRENT_YIELDER: that of a coroutine, or Null
  active,      \* is CURRENT_SCHEDULER set?
  failed,      \* is there an error in Scheduler.results, not yet taken by a drain?
  ended,       \* the messages whose handler has ended
  skipped,     \* the messages drains threw away
  status       \* of the program: "run", "done", "error" (cut off by an Err) or "corrupt"

sched == <<ready, parked, timers, elapsed, waits, registered, data, event, active>>
combined == <<task, given>>
vars  == <<prog, mailbox, sent, stack, chain, sched, combined, yielder, failed, ended, skipped, status>>

Script == 0
Ids    == 1..MaxMsgs
Flows  == {Script} \cup Ids
Tasks  == 1..Shared

Code(msg, ops) == [at |-> "code", msg |-> msg, rest |-> ops]
Drain(n, err)  == [at |-> "drain", ticks |-> n, err |-> err]
Wait           == [at |-> "wait"]
Final(i)       == [at |-> "final", next |-> i]

Init ==
  /\ prog \in Programs
  /\ mailbox = [a \in ToSet(Actors) |-> <<>>]
  /\ sent = <<>>
  /\ stack = [f \in Flows |-> IF f = Script THEN <<Code(0, prog.script)>> ELSE <<>>]
  /\ chain = <<Script>>
  /\ ready = <<>> /\ parked = <<>> /\ timers = {} /\ elapsed = <<>>
  /\ waits = [f \in Flows |-> "nothing"]
  /\ registered = {} /\ data = {} /\ event = {}
  /\ task = [k \in Tasks |-> "pending"] /\ given = [k \in Tasks |-> 0]
  /\ yielder = Null /\ active = FALSE /\ failed = FALSE
  /\ ended = {} /\ skipped = {} /\ status = "run"

-----------------------------------------------------------------------------
Running    == Last(chain)
Top(f)     == Last(stack[f])
Inside(f, what) == status = "run" /\ f = Running /\ Top(f).at = what
At(f, op)  == Inside(f, "code") /\ Top(f).rest # <<>> /\ Head(Top(f).rest)[1] = op
Arg(f, i)  == Head(Top(f).rest)[i + 1]

\* The frames of f after its current operation, and without the innermost.
Stepped(f) == Append(Front(stack[f]), Code(Top(f).msg, Tail(Top(f).rest)))
Left(f)    == Front(stack[f])

Handled(m) == m.kind \in DOMAIN prog.body

\* An Err travels up: out of a coroutine into Scheduler.results, out of the
\* script to the end of the program, where the mailboxes are still drained,
\* and out of that drain.  All that f is in the middle of ends.
Unwind(f, s) ==
  /\ ended' = ended \cup ({s[f][i].msg : i \in {i \in DOMAIN s[f] : s[f][i].at = "code"}} \ {0})
  /\ IF f # Script
     THEN /\ stack' = [s EXCEPT ![f] = <<>>]
          /\ chain' = Front(chain)
          /\ yielder' = Null
          /\ failed' = TRUE
          /\ UNCHANGED status
     ELSE /\ IF DrainsAfterError /\ Head(stack[Script]).at # "final"
             THEN stack' = [s EXCEPT ![Script] = <<Final(1)>>] /\ UNCHANGED status
             ELSE stack' = [s EXCEPT ![Script] = <<>>] /\ status' = "error"
          /\ failed' = FALSE
          /\ UNCHANGED <<chain, yielder>>

Raise(f) == At(f, "raise") /\ Unwind(f, stack) /\ UNCHANGED <<prog, combined, mailbox, sent, sched, skipped>>

\* `actor ! msg`.
ActorSend(f) ==
  /\ At(f, "send")
  /\ Len(sent) < MaxMsgs
  /\ sent' = Append(sent, Arg(f, 1))
  /\ mailbox' = [mailbox EXCEPT ![Arg(f, 1)] = Append(@, [id |-> Len(sent) + 1, kind |-> Arg(f, 2)])]
  /\ stack' = [stack EXCEPT ![f] = Stepped(f)]
  /\ UNCHANGED <<prog, combined, chain, sched, yielder, failed, ended, skipped, status>>

\* `actor ? msg`: the handler runs at once, on the stack of the flow that
\* asks, past the mailbox.  The request is no numbered message.
ActorRequest(f) ==
  /\ At(f, "ask")
  /\ IF Arg(f, 1) \in DOMAIN prog.body \ WrongArity
     THEN /\ stack' = [stack EXCEPT ![f] = Append(Stepped(f), Code(0, prog.body[Arg(f, 1)]))]
          /\ UNCHANGED <<chain, yielder, failed, ended, status>>
     ELSE Unwind(f, stack)
  /\ UNCHANGED <<prog, combined, mailbox, sent, sched, skipped>>

\* Mutant of Finish: CURRENT_YIELDER is not reset.
FinishAsIs(f) ==
  /\ Inside(f, "code") /\ Top(f).rest = <<>>
  /\ ended' = ended \cup ({Top(f).msg} \ {0})
  /\ IF f = Script /\ Len(stack[f]) = 1
     THEN stack' = [stack EXCEPT ![f] = <<Final(1)>>]
     ELSE stack' = [stack EXCEPT ![f] = Left(f)]
  /\ chain' = IF f # Script /\ Len(stack[f]) = 1 THEN Front(chain) ELSE chain
  /\ UNCHANGED <<prog, combined, mailbox, sent, sched, yielder, failed, skipped, status>>

\* The end of a handler, also by `reply`, and of the script.
Finish(f) ==
  LET m == Top(f).msg
  IN /\ Inside(f, "code")
     /\ Top(f).rest # <<>> => Head(Top(f).rest)[1] = "reply"
     /\ ended' = ended \cup ({m} \ {0})
     /\ IF Len(stack[f]) > 1
        THEN stack' = [stack EXCEPT ![f] = Left(f)] /\ UNCHANGED <<chain, yielder>>
        ELSE IF f = Script
        THEN stack' = [stack EXCEPT ![f] = <<Final(1)>>] /\ UNCHANGED <<chain, yielder>>
        ELSE /\ stack' = [stack EXCEPT ![f] = <<>>]
             /\ chain' = Front(chain)
             /\ yielder' = Null
     /\ UNCHANGED <<prog, combined, mailbox, sent, sched, failed, skipped, status>>

-----------------------------------------------------------------------------
(* drain_mailboxes_async: take every message out of every mailbox, spawn a  *)
(* coroutine for each, tick the scheduler a few times.                      *)

Queued == FlattenSeq([i \in DOMAIN Actors |-> mailbox[Actors[i]]])

\* A message with the wrong number of arguments ends the drain with an error,
\* and the messages after it are gone.
Malformed == {k \in DOMAIN Queued : Handled(Queued[k]) /\ Queued[k].kind \in WrongArity}
Reached   == {k \in DOMAIN Queued : \A j \in Malformed : k < j}

\* Mutant of Spawned: the handler of the last message is not spawned.
SpawnedButLast == {k \in Reached : Handled(Queued[k]) /\ k < Len(Queued)}

\* Where the messages stand in Queued whose handlers are spawned.
Spawned == {k \in Reached : Handled(Queued[k])}

\* f drains, with the frames s.
DrainMailboxesAsync(f, s) ==
  LET Body(k) == <<Code(Queued[k].id, prog.body[Queued[k].kind])>>
      with == [i \in Flows |-> IF \E k \in Spawned : Queued[k].id = i
                               THEN Body(CHOOSE k \in Spawned : Queued[k].id = i)
                               ELSE stack[i]]
  IN /\ mailbox' = [a \in DOMAIN mailbox |-> <<>>]
     /\ ready' = ready \o Picked([k \in DOMAIN Queued |-> Queued[k].id], Spawned)
     /\ skipped' = skipped \cup {Queued[k].id : k \in
                     {k \in DOMAIN Queued : k \notin Reached \/ ~Handled(Queued[k])}}
     /\ IF Malformed = {}
        THEN /\ stack' = [with EXCEPT ![f] = Append(s, Drain(TicksPerYield, FALSE))]
             /\ active' = TRUE
             /\ UNCHANGED <<chain, yielder, failed, ended, status>>
        ELSE Unwind(f, with) /\ UNCHANGED active
     /\ UNCHANGED <<prog, sent, parked, timers, elapsed>>

Yield(f) == /\ At(f, "yield")
            /\ DrainMailboxesAsync(f, Stepped(f))
            /\ UNCHANGED <<waits, registered, data, event, combined>>

\* Mutant of Resume: the coroutine stays in `ready`.
ResumeAgain(f) ==
  /\ Inside(f, "drain") /\ ready # <<>>
  /\ Last(ready) # Running
  /\ chain' = Append(chain, Last(ready))
  /\ yielder' = Last(ready)
  /\ UNCHANGED <<prog, combined, mailbox, sent, stack, sched, failed, ended, skipped, status>>

\* tick, step 1: the youngest ready coroutine runs until it awaits or ends.
\* Both its start and its return from await_task set CURRENT_YIELDER.
Resume(f) ==
  /\ Inside(f, "drain") /\ ready # <<>>
  /\ chain' = Append(chain, Last(ready))
  /\ yielder' = Last(ready)
  /\ ready' = Front(ready)
  /\ UNCHANGED <<prog, combined, mailbox, sent, stack, parked, timers, elapsed, waits, registered,
                 data, event, active, failed, ended, skipped, status>>

\* The common tasks a combinator asks: task_all each up to the first that is
\* pending, task_any each up to the first that is ready.  "one" is a common
\* task itself.
Before(t) == {k \in Tasks : \A j \in 1..k : t[j] # "pending"}
First(t)  == {k \in Tasks : t[k] = "ready" /\ \A j \in 1..(k - 1) : t[j] # "ready"}

\* Mutant of Takes: task_any consumes all that are ready.
TakesAll(w, t) == CASE w = "all" -> Before(t)
                    [] w = "any" -> {k \in Tasks : t[k] = "ready"}
                    [] w = "one" -> Before(t) \cap {1}

\* Those that a poll of an awaited combinator marks as consumed.
Takes(w, t) == CASE w = "all" -> Before(t)
                 [] w = "any" -> First(t)
                 [] w = "one" -> Before(t) \cap {1}

\* Does the poll answer?  A consumed task is ready with nil for task_all and
\* a plain await, and never ready for task_any.
Answers(w, t) == CASE w = "all" -> Before(t) = Tasks
                   [] w = "any" -> First(t) # {}
                   [] w = "one" -> t[1] # "pending"

Combinators == {"all", "any", "one"}

\* Mutant of Consumed: the tasks stay ready.
ConsumedNever(w, t) == t

\* The common tasks after a poll of what is awaited.
Consumed(w, t) ==
  IF w \in Combinators THEN [k \in Tasks |-> IF k \in Takes(w, t) THEN "consumed" ELSE t[k]]
                       ELSE t

\* The values the poll hands out: task_any has one.
HandsOut(w, t) ==
  IF w \notin Combinators \/ ~Answers(w, t) THEN {}
  ELSE IF w = "any" THEN First(t) ELSE {k \in Takes(w, t) : t[k] = "ready"}

\* Mutant of Polled: a task that was made ready is never seen to be.
PolledPending(f, t) == f \in data

\* Is the task f awaits ready, if someone looks?
Polled(f, t) == IF waits[f] \in Combinators THEN Answers(waits[f], t)
                                            ELSE waits[f] = "ready" \/ f \in data

\* Has p's task a token; is it looked at after these mio events, and ready?
Token(p) == p \in registered /\ waits[p] = "io"
Wakes(p, events, t) == (Token(p) => p \in events) /\ Polled(p, t)

\* The common tasks after the polls of the first i parked coroutines.
Seen == LET seen[i \in 0..Len(parked)] ==
              IF i = 0 THEN task ELSE Consumed(waits[parked[i]], seen[i - 1])
        IN seen

\* Mutant of Woken: one coroutine for a poll, whatever else has an event.
WokenOne(events) ==
  LET all == {i \in DOMAIN parked : Wakes(parked[i], events, Seen[i - 1])}
  IN {i \in all : \A j \in all : i <= j}

\* Where those stand in `parked` that go on after these mio events.
Woken(events) == {i \in DOMAIN parked : Wakes(parked[i], events, Seen[i - 1])}

\* tick, steps 2 to 4, when no coroutine is ready: poll mio if anything is
\* parked, resume who may go on.  The drain takes the results.  It ends after
\* the last tick, or with nothing ready and no timer pending; then an error
\* of a handler is raised where the drain was called.
Poll(f) ==
  LET woken == Picked(parked, Woken(event))
      next  == woken \o elapsed
      over  == Top(f).ticks = 1 \/ (next = <<>> /\ timers = {})
      err   == Top(f).err \/ failed
  IN /\ Inside(f, "drain") /\ ready = <<>>
     /\ ready' = next
     /\ parked' = Picked(parked, DOMAIN parked \ Woken(event))
     /\ timers' = timers \ ToSet(elapsed)
     /\ elapsed' = <<>>
     /\ registered' = {p \in registered : ~(Token(p) /\ p \in ToSet(woken))}
     /\ data' = {p \in data : ~(waits[p] # "ready" /\ p \in ToSet(woken))}
     /\ event' = IF parked = <<>> /\ timers = {} THEN event ELSE {}
     /\ active' = ~over
     /\ IF over /\ err
        THEN Unwind(f, stack)
        ELSE /\ stack' = [stack EXCEPT ![f] = IF over THEN Left(f)
                                              ELSE Append(Left(f), Drain(Top(f).ticks - 1, err))]
             /\ failed' = FALSE
             /\ UNCHANGED <<chain, yielder, ended, status>>
     /\ task' = Seen[Len(parked)]
     /\ given' = [k \in Tasks |-> given[k] +
                   Cardinality({i \in DOMAIN parked : k \in HandsOut(waits[parked[i]], Seen[i - 1])})]
     /\ UNCHANGED <<prog, mailbox, sent, waits, skipped>>

-----------------------------------------------------------------------------
(* Tasks and `await`.                                                       *)

\* socket.read_async: a task for f's stream, registered with the scheduler if
\* there is one now.  mio reports a stream that is readable already.
Register(f) ==
  /\ registered' = IF active THEN registered \cup {f} ELSE registered
  /\ event' = IF active /\ f \in data THEN event \cup {f} ELSE event

ReadAsync(f) ==
  /\ At(f, "read")
  /\ Register(f)
  /\ stack' = [stack EXCEPT ![f] = Stepped(f)]
  /\ UNCHANGED <<prog, combined, mailbox, sent, chain, ready, parked, timers, elapsed, waits, data,
                 active, yielder, failed, ended, skipped, status>>

\* The task awaited: "io" for one of ReadAsync, "new io" for one made here,
\* "timer" for sleep_async, "ready" for task_ready, "one" for the first common
\* task, "all" and "any" for the combinators of all the common tasks.
Awaiting(f, w) ==
  /\ At(f, "await") /\ w = Arg(f, 1)
  /\ waits' = [waits EXCEPT ![f] = IF w = "new io" THEN "io" ELSE w]
  /\ IF w = "new io" THEN Register(f) ELSE UNCHANGED <<registered, event>>
  /\ UNCHANGED data

\* await_task in its own coroutine: back to the tick that resumed it.
Suspend(f) == \E w \in {"io", "new io", "timer", "ready"} \cup Combinators :
  /\ Awaiting(f, w)
  /\ yielder = f
  /\ stack' = [stack EXCEPT ![f] = Stepped(f)]
  /\ chain' = Front(chain)
  /\ IF w = "timer" THEN timers' = timers \cup {f} /\ UNCHANGED parked
                    ELSE parked' = Append(parked, f) /\ UNCHANGED timers
  /\ UNCHANGED <<prog, combined, mailbox, sent, ready, elapsed, active, yielder, failed, ended,
                 skipped, status>>

\* await_task through the yielder of another flow, which is suspended or has
\* never been left: the stacks are mixed up.
SuspendAnother(f) ==
  /\ At(f, "await")
  /\ yielder \notin {f, Null}
  /\ status' = "corrupt"
  /\ UNCHANGED <<prog, combined, mailbox, sent, stack, chain, sched, yielder, failed, ended, skipped>>

\* Outside of a coroutine: drain, look at the task, and so on until it is ready.
AwaitHere(f) == \E w \in {"io", "new io", "timer", "ready"} \cup Combinators :
  /\ Awaiting(f, w)
  /\ yielder = Null
  /\ DrainMailboxesAsync(f, Append(Stepped(f), Wait))
  /\ UNCHANGED combined

AwaitedHere(f) ==
  /\ Inside(f, "wait")
  /\ IF Polled(f, task)
        THEN /\ stack' = [stack EXCEPT ![f] = Left(f)]
             /\ data' = data \ {f}
             /\ UNCHANGED <<mailbox, ready, active, chain, yielder, failed, ended, skipped,
                            status, prog, sent, parked, timers, elapsed>>
        ELSE DrainMailboxesAsync(f, stack[f]) /\ UNCHANGED data
  /\ task' = Consumed(waits[f], task)
  /\ given' = [k \in Tasks |-> IF k \in HandsOut(waits[f], task) THEN given[k] + 1 ELSE given[k]]
  /\ UNCHANGED <<waits, registered, event>>

\* The world: f's stream becomes readable (or the other task it waits for
\* ready); a timer's deadline passes.
Expects(f) == \/ f \in registered
              \/ waits[f] \notin {"ready"} \cup Combinators /\ (f \in ToSet(parked) \/ Wait \in ToSet(stack[f]))
              \/ At(f, "read") \/ (At(f, "await") /\ Arg(f, 1) = "new io")

Arrive(f) ==
  /\ status = "run" /\ f \notin data /\ Expects(f)
  /\ data' = data \cup {f}
  /\ event' = IF f \in registered THEN event \cup {f} ELSE event
  /\ UNCHANGED <<prog, combined, mailbox, sent, stack, chain, ready, parked, timers, elapsed, waits,
                 registered, active, yielder, failed, ended, skipped, status>>

\* A common task comes to its end, while someone polls it.
Complete(k) ==
  /\ status = "run" /\ task[k] = "pending"
  /\ \E f \in Flows : waits[f] \in Combinators /\ (f \in ToSet(parked) \/ Wait \in ToSet(stack[f]))
  /\ task' = [task EXCEPT ![k] = "ready"]
  /\ UNCHANGED <<prog, mailbox, sent, stack, chain, sched, given, yielder, failed, ended,
                 skipped, status>>

Elapse(f) ==
  /\ status = "run" /\ f \in timers \ ToSet(elapsed)
  /\ elapsed' = Append(elapsed, f)
  /\ UNCHANGED <<prog, combined, mailbox, sent, stack, chain, ready, parked, timers, waits,
                 registered, data, event, active, yielder, failed, ended, skipped, status>>

-----------------------------------------------------------------------------
(* drain_mailboxes: after the script, actor by actor, message by message,   *)
(* each handler to its end.                                                 *)

FinalDrain(f) ==
  LET i == Top(f).next
      m == Head(mailbox[Actors[i]])
  IN /\ Inside(f, "final")
     /\ IF i > Len(Actors)
        THEN status' = "done" /\ UNCHANGED <<mailbox, stack, chain, yielder, failed, ended>>
        ELSE IF mailbox[Actors[i]] = <<>>
        THEN /\ stack' = [stack EXCEPT ![f] = <<Final(i + 1)>>]
             /\ UNCHANGED <<mailbox, chain, yielder, failed, ended, status>>
        ELSE /\ mailbox' = [mailbox EXCEPT ![Actors[i]] = Tail(@)]
             /\ LET s == [stack EXCEPT ![f] = Append(@, Code(m.id, IF Handled(m)
                                                                  THEN prog.body[m.kind]
                                                                  ELSE <<>>))]
                IN IF Handled(m) /\ m.kind \notin WrongArity
                   THEN stack' = s /\ UNCHANGED <<chain, yielder, failed, ended, status>>
                   ELSE Unwind(f, s)
     /\ UNCHANGED <<prog, combined, sent, sched, skipped>>

Act(f) == \/ ActorSend(f) \/ ActorRequest(f) \/ Raise(f) \/ Finish(f)
          \/ Yield(f) \/ Resume(f) \/ Poll(f)
          \/ ReadAsync(f) \/ Suspend(f) \/ SuspendAnother(f) \/ AwaitHere(f) \/ AwaitedHere(f)
          \/ FinalDrain(f)

Run == \E f \in Flows : Act(f)

World == (\E f \in Flows : Arrive(f) \/ Elapse(f)) \/ \E k \in Tasks : Complete(k)

Next == Run \/ World

\* The thread runs on while it can; every stream becomes readable, every
\* deadline passes and every common task completes some time.
Fairness == /\ WF_vars(Run)
            /\ \A f \in Flows : WF_vars(Arrive(f)) /\ WF_vars(Elapse(f))
            /\ \A k \in Tasks : WF_vars(Complete(k))

Spec == Init /\ [][Next]_vars /\ Fairness

-----------------------------------------------------------------------------
(* Properties.                                                              *)

Alive    == {i \in Ids : stack[i] # <<>>}
Mail     == {m.id : m \in ToSet(Queued)}
OnScript == {fr.msg : fr \in {fr \in ToSet(stack[Script]) : fr.at = "code"}} \ {0}

MailApart ==
  /\ Cardinality(Mail) = Len(Queued)
  /\ LET places == <<Mail, Alive, OnScript, ended, skipped>>
     IN /\ \A i, j \in DOMAIN places : i # j => places[i] \cap places[j] = {}
        /\ UNION ToSet(places) = DOMAIN sent

\* Do the handlers send such a message to the actor?
HandlerOperations == UNION {ToSet(prog.body[k]) : k \in DOMAIN prog.body}
FromHandler(a, m) == \E op \in HandlerOperations : op[1] = "send" /\ op[2] = a /\ op[3] = m.kind

MailLeft ==
  status = "done" =>
    \A i \in DOMAIN Actors : \A m \in ToSet(mailbox[Actors[i]]) : i < Len(Actors) /\ FromHandler(Actors[i], m)

\* A message is in one mailbox, or in progress in one place, or done with: none
\* is handled twice, whichever drains nest and whatever handlers send, await
\* and raise meanwhile; and a drain of coroutines throws away those without a
\* handler and those behind an arity error only. When the program is done, a
\* mailbox still holds nothing but what handlers have sent to an actor that is
\* not the last: the final drain goes over the actors once (mod.rs:1783-1801).
\* A program that fails leaves what it has not come to.
EachMessageOnce == MailApart /\ MailLeft

\* docs-site/en/syntax/actors.md:120: "`!` messages are drained at the end of
\* the program", mod.rs:1779: "all pending `!` messages in every live actor's
\* mailbox".  The programs SendsBack, FailsInDrain and FailsInScript break it.
AllDrained == status \in {"done", "error"} => Mail = {}

\* A coroutine is in exactly one of the scheduler's queues, or has been
\* resumed and not suspended since: none is forgotten, none resumed twice.
CoroutinesInOnePlace ==
  LET all == ready \o parked \o SetToSeq(timers) \o Tail(chain)
  IN Len(all) = Cardinality(Alive) /\ ToSet(all) = Alive

\* A coroutine parked for a stream that is readable still has the event to
\* come that resumes it: mio's events are edge-triggered and a tick forgets
\* those of tasks nobody is parked for.  docs-site/en/philosophy/no-async.md:63:
\* "the scheduler polls their Tasks each tick and resumes them when ready".
NoLostWakeup == \A p \in ToSet(parked) : Token(p) /\ p \in data => p \in event

\* A program whose reads are awaited where they are made: no yield, other await
\* or end of a handler comes between a read_async and the await of its task.
AtOnce(ops) == \A i \in DOMAIN ops : ops[i][1] = "read" => i < Len(ops) /\ ops[i + 1] = <<"await", "io">>
ReadsAwaited(p) == AtOnce(p.script) /\ \A k \in DOMAIN p.body : AtOnce(p.body[k])

\* CURRENT_YIELDER never dangles: the coroutine it points into is not freed.
YielderAlive == yielder # Null => stack[yielder] # <<>>

\* scheduler.rs, in_coroutine: "Check if we're currently inside a coroutine."
\* An await that finds a yielder suspends the coroutine it runs in.
OwnYielder == status # "corrupt"

\* docs-site/en/philosophy/concurrency-model.md:24-25, of an actor: "Owns a
\* mailbox, receiving messages in order; Processes one message at a time".
Started    == ended \cup OnScript \cup ToSet(chain) \cup ToSet(parked) \cup timers
Sequential == \A i, j \in DOMAIN sent :
                i < j /\ sent[i] = sent[j] /\ j \in Started => i \in ended \cup skipped

\* The value of a task reaches one await at most, whichever of the script,
\* handlers and combinators share the task and in whatever order a tick polls
\* them.
HandedOutOnce == \A k \in Tasks : given[k] <= 1

\* A task is consumed only for an await that gets its value, but by task_all,
\* whose polls consume what is ready even if they then find a pending task
\* (builtins.rs:1171-1181): the last of its tasks is never lost so.
SomeAll == \E op \in Operations(prog) : op[1] = "await" /\ op[2] = "all"
LostOnlyInAll ==
  \A k \in Tasks : task[k] = "consumed" /\ given[k] = 0 => k # Shared /\ SomeAll

\* builtins.rs:1139-1140, of task_all: "When all are Ready, collects their
\* values into a Vec and completes."  The program AllOfTwo breaks it.
AllCollects == \A k \in Tasks : task[k] = "consumed" => given[k] = 1

\* A task_any whose tasks have all been consumed never answers.
Starved == waits[Script] = "any" /\ Wait \in ToSet(stack[Script])
           /\ \A k \in Tasks : task[k] = "consumed"

\* Whatever waits for whatever, the program comes to its end; only a script
\* that awaits a task_any of consumed tasks does not.
EveryProgramEnds == <>(status # "run" \/ Starved)
=============================================================================
