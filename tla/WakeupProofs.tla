---------------------------- MODULE WakeupProofs ----------------------------
(* Proofs about ActorRuntime, for any programs that await each read where   *)
(* they make it: no wakeup of a coroutine parked for a stream is lost.       *)
EXTENDS ActorRuntimeProofs

\* What is left of the operations of each handler a flow is in.
Codes(s) == {s[i].rest : i \in {i \in 1..Len(s) : s[i].at = "code"}}

Prompt(s)    == \A r \in Codes(s) : AtOnce(r)
AllPrompt(st) == \A f \in Flows : Prompt(st[f])

\* The flow awaits the task of its read next.
AboutToAwait(s) ==
  /\ s # <<>> /\ Last(s).at = "code" /\ Last(s).rest # <<>>
  /\ Head(Last(s).rest) = <<"await", "io">>

\* A task has a token only between its read and the poll that sees its event,
\* of a flow that reads as a coroutine: it is awaited next, or its coroutine is
\* parked for it. All the while, that the stream is readable is still to be
\* reported.
Registrations ==
  /\ registered \subseteq 0..Len(sent) /\ registered \cap MailIn(mailbox) = {}
  /\ registered \cap (ToSet(ready) \cup timers) = {}
  /\ \A p \in ToSet(parked) \cap registered : waits[p] = "io" /\ (p \in data => p \in event)
  /\ yielder = Running /\ yielder \in registered =>
       AboutToAwait(stack[yielder]) /\ (yielder \in data => yielder \in event)
  /\ DOMAIN waits = Flows

WakeInv == AllPrompt(stack) /\ Registrations
-----------------------------------------------------------------------------
(* The operations ahead.                                                    *)

\* The tail of prompt operations is prompt; after a read it is the await.
LEMMA TailPrompt ==
  ASSUME NEW S, NEW r \in Seq(S), r # <<>>, AtOnce(r)
  PROVE  /\ AtOnce(Tail(r))
         /\ Head(r)[1] = "read" => Tail(r) # <<>> /\ Head(Tail(r)) = <<"await", "io">>
<1> DEFINE t == Tail(r)
           n == Len(r)
<1>1. /\ t \in Seq(S) /\ Len(t) = n - 1 /\ n \in Nat \ {0} /\ Head(r) = r[1]
      /\ \A i \in 1..Len(t) : t[i] = r[i + 1]
  BY HeadTailProperties, EmptySeq
<1>2. DOMAIN r = 1..n /\ DOMAIN t = 1..Len(t)
  BY <1>1, LenProperties
<1>3. \A i \in 1..n : r[i][1] = "read" => i < n /\ r[i + 1] = <<"await", "io">>
  BY <1>2 DEF AtOnce
<1> HIDE DEF t, n
<1>4. ASSUME NEW i \in 1..Len(t), t[i][1] = "read" PROVE i < Len(t) /\ t[i + 1] = <<"await", "io">>
  <2>1. i + 1 \in 1..n /\ r[i + 1][1] = "read"
    BY <1>1, <1>4
  <2>2. i + 1 < n /\ r[i + 1 + 1] = <<"await", "io">>
    BY <1>3, <2>1
  <2>3. i < Len(t) /\ i + 1 \in 1..Len(t)
    BY <1>1, <2>2
  <2>4. QED
    BY <1>1, <2>2, <2>3
<1>5. AtOnce(t)
  BY <1>2, <1>4 DEF AtOnce
<1>6. ASSUME Head(r)[1] = "read" PROVE t # <<>> /\ Head(t) = <<"await", "io">>
  <2>1. 1 \in 1..n /\ r[1][1] = "read"
    BY <1>1, <1>6
  <2>2. 1 < n /\ r[1 + 1] = <<"await", "io">>
    BY <1>3, <2>1
  <2>3. Len(t) \in Nat \ {0} /\ 1 \in 1..Len(t)
    BY <1>1, <2>2
  <2>4. t # <<>> /\ t[1] = <<"await", "io">>
    BY <1>1, <2>2, <2>3, EmptySeq
  <2>5. QED
    BY <1>1, <2>4, HeadTailProperties
<1>7. QED
  BY <1>5, <1>6 DEF t

\* One more frame, whose operations are prompt.
LEMMA PushPrompt ==
  ASSUME NEW s, IsSequence(s), Prompt(s), NEW x, x.at = "code" => AtOnce(x.rest),
         NEW u, u = Append(s, x)
  PROVE  Prompt(u)
<1>1. IsSequence(u) /\ Len(s) \in Nat /\ Len(u) = Len(s) + 1
  BY ONLY IsSequence(s), u = Append(s, x), AppendOne
<1>2. u[Len(s) + 1] = x /\ \A i \in 1..Len(s) : u[i] = s[i]
  BY ONLY IsSequence(s), u = Append(s, x), AppendOne
<1>3. ASSUME NEW i \in 1..Len(u), u[i].at = "code" PROVE AtOnce(u[i].rest)
  <2>1. CASE i = Len(s) + 1
    BY <1>2, <1>3, <2>1
  <2>2. CASE i # Len(s) + 1
    <3>1. i \in 1..Len(s) /\ u[i] = s[i]
      BY <1>1, <1>2, <2>2
    <3>2. s[i].rest \in Codes(s)
      BY <1>3, <3>1 DEF Codes
    <3>3. QED
      BY <3>1, <3>2 DEF Prompt
  <2>3. QED
    BY <2>1, <2>2
<1>4. QED
  BY <1>3 DEF Prompt, Codes

\* One less.
LEMMA PopPrompt ==
  ASSUME NEW s, IsSequence(s), s # <<>>, Prompt(s)
  PROVE  Prompt(Front(s)) /\ IsSequence(Front(s))
<1>1. PICK u : u = Front(s)
  OBVIOUS
<1>2. s \in Seq(ToSet(s))
  BY DEF IsSequence
<1>3. /\ u \in Seq(ToSet(s)) /\ Len(u) = Len(s) - 1 /\ Len(s) \in Nat \ {0}
      /\ \A i \in 1..(Len(s) - 1) : u[i] = s[i]
  BY ONLY <1>1, <1>2, s # <<>>, FrontProperties
<1>4. ASSUME NEW i \in 1..Len(u), u[i].at = "code" PROVE AtOnce(u[i].rest)
  <2>1. i \in 1..Len(s) /\ u[i] = s[i]
    BY <1>3
  <2>2. s[i].rest \in Codes(s)
    BY <1>4, <2>1 DEF Codes
  <2>3. QED
    BY <2>1, <2>2 DEF Prompt
<1>5. Prompt(u)
  BY <1>4 DEF Prompt, Codes
<1>6. QED
  BY <1>1, <1>3, <1>5, OwnSet

\* No frame, or one.
LEMMA FewPrompt ==
  /\ Prompt(<<>>) /\ \A i : Prompt(<<Final(i)>>)
  /\ \A m, r : AtOnce(r) => Prompt(<<Code(m, r)>>)
<1>1. Len(<<>>) = 0 /\ IsSequence(<<>>)
  BY OwnSet, EmptySeq
<1>2. Prompt(<<>>)
  BY <1>1 DEF Prompt, Codes
<1>3. ASSUME NEW x, x.at = "code" => AtOnce(x.rest) PROVE Prompt(<<x>>)
  <2>1. <<x>> = Append(<<>>, x)
    OBVIOUS
  <2>2. QED
    BY ONLY <1>1, <1>2, <1>3, <2>1, PushPrompt
<1>4. ASSUME NEW i PROVE Prompt(<<Final(i)>>)
  <2>1. PICK x : x = Final(i)
    OBVIOUS
  <2>2. x.at = "final"
    BY <2>1 DEF Final
  <2>3. QED
    BY <1>3, <2>1, <2>2
<1>5. ASSUME NEW m, NEW r, AtOnce(r) PROVE Prompt(<<Code(m, r)>>)
  <2>1. PICK x : x = Code(m, r)
    OBVIOUS
  <2>2. x.rest = r
    BY <2>1 DEF Code
  <2>3. QED
    BY <1>3, <1>5, <2>1, <2>2
<1>6. QED
  BY <1>2, <1>4, <1>5

\* What has no operations left is prompt.
LEMMA NonePrompt == AtOnce(<<>>)
<1>1. DOMAIN <<>> = {}
  OBVIOUS
<1>2. QED
  BY <1>1 DEF AtOnce

\* A flow goes on to its next operation.
LEMMA StepPrompt ==
  ASSUME ActorInv, AllPrompt(stack), NEW f \in Flows, NEW op, At(f, op)
  PROVE  /\ Prompt(Stepped(f)) /\ IsSequence(Stepped(f)) /\ IsSequence(stack[f]) /\ stack[f] # <<>>
         /\ op = "read" => AboutToAwait(Stepped(f))
<1>1. /\ status = "run" /\ f = Running /\ Top(f).at = "code" /\ Top(f).rest # <<>>
      /\ Head(Top(f).rest)[1] = op
  BY DEF At, Inside
<1>2. /\ stack[f] # <<>> /\ Frames(Operations(prog), f, stack[f])
      /\ Len(stack[f]) \in Nat \ {0} /\ Top(f) = stack[f][Len(stack[f])]
  BY <1>1, RunningFlow
<1>3. Len(stack[f]) \in 1..Len(stack[f]) /\ IsSequence(stack[f])
  BY <1>2 DEF Frames
<1>4. Top(f).rest \in Seq(Operations(prog)) /\ Top(f).rest \in Codes(stack[f])
  BY <1>1, <1>2, <1>3 DEF Frames, Codes
<1>5. AtOnce(Top(f).rest)
  BY <1>4 DEF AllPrompt, Prompt
<1>6. PICK t : t = Tail(Top(f).rest)
  OBVIOUS
<1>7. AtOnce(t) /\ (op = "read" => t # <<>> /\ Head(t) = <<"await", "io">>)
  BY <1>1, <1>4, <1>5, <1>6, TailPrompt
<1>8. PICK u, x, p : u = Stepped(f) /\ x = Code(Top(f).msg, t) /\ p = Front(stack[f])
  OBVIOUS
<1>9. x.at = "code" /\ x.rest = t
  BY <1>8 DEF Code
<1>10. u = Append(p, x)
  BY <1>6, <1>8 DEF Stepped
<1>11. Prompt(p) /\ IsSequence(p)
  BY <1>2, <1>3, <1>8, PopPrompt DEF AllPrompt
<1>12. Prompt(u)
  BY ONLY <1>7, <1>9, <1>10, <1>11, PushPrompt
<1>13. IsSequence(u) /\ Len(u) = Len(p) + 1 /\ Len(p) \in Nat
  BY ONLY <1>10, <1>11, AppendOne
<1>14. u[Len(p) + 1] = x
  BY ONLY <1>10, <1>11, AppendOne
<1>15. u # <<>> /\ Last(u) = x
  BY <1>13, <1>14, EmptySeq DEF Last
<1>16. op = "read" => AboutToAwait(u)
  BY <1>7, <1>9, <1>15 DEF AboutToAwait
<1>17. QED
  BY <1>2, <1>3, <1>8, <1>12, <1>13, <1>16

\* One flow's frames change.
LEMMA SetPrompt ==
  ASSUME NEW st, DOMAIN st = Flows, AllPrompt(st), NEW f \in Flows, NEW u, Prompt(u),
         NEW st2, st2 = [st EXCEPT ![f] = u]
  PROVE  AllPrompt(st2)
BY DEF AllPrompt

\* An error ends what the flow is in the middle of.
LEMMA UnwindPrompt ==
  ASSUME NEW s, DOMAIN s = Flows, AllPrompt(s), NEW f \in Flows, Unwind(f, s)
  PROVE  AllPrompt(stack')
<1>1. Script \in Flows
  BY DEF Flows
<1>2. PICK g \in Flows : \E u : stack' = [s EXCEPT ![g] = u] /\ Prompt(u)
  BY <1>1, FewPrompt DEF Unwind
<1>3. PICK u : stack' = [s EXCEPT ![g] = u] /\ Prompt(u)
  BY <1>2
<1>4. QED
  BY <1>3, SetPrompt


\* A drain begins, with the handlers it spawns.
LEMMA DrainPrompt ==
  ASSUME ActorInv, ReadsAwaited(prog), AllPrompt(stack), NEW f \in Flows,
         NEW s, IsSequence(s), Prompt(s), DrainMailboxesAsync(f, s)
  PROVE  AllPrompt(stack')
<1>1. PICK w : w = [i \in Flows |->
           IF \E k \in Spawned : Queued[k].id = i
           THEN <<Code(Queued[CHOOSE k \in Spawned : Queued[k].id = i].id,
                       prog.body[Queued[CHOOSE k \in Spawned : Queued[k].id = i].kind])>>
           ELSE stack[i]]
  OBVIOUS
<1>2. ASSUME NEW i \in Flows PROVE Prompt(w[i])
  <2>1. CASE \E k \in Spawned : Queued[k].id = i
    <3>1. PICK k : k = CHOOSE j \in Spawned : Queued[j].id = i
      OBVIOUS
    <3>2. k \in Spawned /\ w[i] = <<Code(Queued[k].id, prog.body[Queued[k].kind])>>
      BY <1>1, <2>1, <3>1
    <3>3. AtOnce(prog.body[Queued[k].kind])
      BY <3>2 DEF Spawned, Handled, ReadsAwaited
    <3>4. QED
      BY <3>2, <3>3, FewPrompt
  <2>2. CASE ~ \E k \in Spawned : Queued[k].id = i
    BY <1>1, <2>2 DEF AllPrompt
  <2>3. QED
    BY <2>1, <2>2
<1>3. AllPrompt(w) /\ DOMAIN w = Flows
  BY <1>1, <1>2 DEF AllPrompt
<1>4. \/ stack' = [w EXCEPT ![f] = Append(s, Drain(TicksPerYield, FALSE))]
      \/ Unwind(f, w)
  BY <1>1 DEF DrainMailboxesAsync
<1>5. CASE stack' = [w EXCEPT ![f] = Append(s, Drain(TicksPerYield, FALSE))]
  <2>1. PICK u, x : u = Append(s, x) /\ x = Drain(TicksPerYield, FALSE)
    OBVIOUS
  <2>2. x.at = "drain"
    BY <2>1 DEF Drain
  <2>3. Prompt(u)
    BY ONLY <2>1, <2>2, IsSequence(s), Prompt(s), PushPrompt
  <2>4. QED
    BY <1>3, <1>5, <2>1, <2>3, SetPrompt
<1>6. CASE Unwind(f, w)
  BY <1>3, <1>6, UnwindPrompt
<1>7. QED
  BY <1>4, <1>5, <1>6

\* What flows have ahead of them stays prompt.
LEMMA ActPrompt ==
  ASSUME ActorInv, ReadsAwaited(prog), AllPrompt(stack), NEW f \in Flows, Act(f)
  PROVE  AllPrompt(stack')
<1>1. DOMAIN stack = Flows
  BY DEF ActorInv, Stacks
<1>2. ASSUME status = "run" /\ f = Running
      PROVE  stack[f] # <<>> /\ IsSequence(stack[f]) /\ Prompt(Left(f)) /\ IsSequence(Left(f))
  <2>1. stack[f] # <<>> /\ IsSequence(stack[f])
    BY <1>2, RunningFlow DEF Frames
  <2>2. QED
    BY <2>1, PopPrompt DEF AllPrompt, Left
<1>3. ASSUME NEW op, At(f, op), stack' = [stack EXCEPT ![f] = Stepped(f)] PROVE AllPrompt(stack')
  BY <1>1, <1>3, StepPrompt, SetPrompt
<1>4. CASE ActorSend(f)
  BY <1>3, <1>4 DEF ActorSend
<1>5. CASE ReadAsync(f)
  BY <1>3, <1>5 DEF ReadAsync
<1>6. CASE Suspend(f)
  BY <1>3, <1>6 DEF Suspend, Awaiting
<1>7. CASE SuspendAnother(f)
  BY <1>7 DEF SuspendAnother
<1>8. CASE Resume(f)
  BY <1>8 DEF Resume
<1>9. CASE Raise(f)
  BY <1>1, <1>9, UnwindPrompt DEF Raise
<1>10. CASE ActorRequest(f)
  <2>1. CASE Unwind(f, stack)
    BY <1>1, <2>1, UnwindPrompt
  <2>2. CASE ~Unwind(f, stack)
    <3>1. PICK k \in DOMAIN prog.body : stack' = [stack EXCEPT ![f] = Append(Stepped(f), Code(0, prog.body[k]))]
      BY <1>10, <2>2 DEF ActorRequest
    <3>2. PICK u, x, p : u = Append(p, x) /\ p = Stepped(f) /\ x = Code(0, prog.body[k])
      OBVIOUS
    <3>3. x.rest = prog.body[k]
      BY <3>2 DEF Code
    <3>4. AtOnce(x.rest)
      BY <3>3 DEF ReadsAwaited
    <3>5. Prompt(p) /\ IsSequence(p)
      BY <1>10, <3>2, StepPrompt DEF ActorRequest
    <3>6. Prompt(u)
      BY ONLY <3>2, <3>4, <3>5, PushPrompt
    <3>7. QED
      BY <1>1, <3>1, <3>2, <3>6, SetPrompt
  <2>3. QED
    BY <2>1, <2>2
<1>11. CASE Finish(f)
  <2>1. status = "run" /\ f = Running
    BY <1>11 DEF Finish, Inside
  <2>2. PICK u : stack' = [stack EXCEPT ![f] = u] /\ u \in {Left(f), <<Final(1)>>, <<>>}
    BY <1>11 DEF Finish
  <2>3. Prompt(u)
    BY <1>2, <2>1, <2>2, FewPrompt
  <2>4. QED
    BY <1>1, <2>2, <2>3, SetPrompt
<1>12. CASE Yield(f)
  BY <1>12, StepPrompt, DrainPrompt DEF Yield
<1>13. CASE AwaitHere(f)
  <2>1. At(f, "await") /\ DrainMailboxesAsync(f, Append(Stepped(f), Wait))
    BY <1>13 DEF AwaitHere, Awaiting
  <2>2. PICK u, x, p : u = Append(p, x) /\ p = Stepped(f) /\ x = Wait
    OBVIOUS
  <2>3. x.at = "wait"
    BY <2>2 DEF Wait
  <2>4. Prompt(p) /\ IsSequence(p)
    BY <2>1, <2>2, StepPrompt
  <2>5. Prompt(u)
    BY ONLY <2>2, <2>3, <2>4, PushPrompt
  <2>6. IsSequence(u)
    BY ONLY <2>2, <2>4, AppendOne
  <2>7. QED
    BY <2>1, <2>2, <2>5, <2>6, DrainPrompt
<1>14. CASE AwaitedHere(f)
  <2>1. status = "run" /\ f = Running
    BY <1>14 DEF AwaitedHere, Inside
  <2>2. stack' = [stack EXCEPT ![f] = Left(f)] \/ DrainMailboxesAsync(f, stack[f])
    BY <1>14 DEF AwaitedHere
  <2>3. CASE stack' = [stack EXCEPT ![f] = Left(f)]
    BY <1>1, <1>2, <2>1, <2>3, SetPrompt
  <2>4. CASE DrainMailboxesAsync(f, stack[f])
    BY <1>2, <2>1, <2>4, DrainPrompt DEF AllPrompt
  <2>5. QED
    BY <2>2, <2>3, <2>4
<1>15. CASE Poll(f)
  <2>1. status = "run" /\ f = Running
    BY <1>15 DEF Poll, Inside
  <2>2. \/ Unwind(f, stack)
        \/ stack' = [stack EXCEPT ![f] = Left(f)]
        \/ \E n, e : stack' = [stack EXCEPT ![f] = Append(Left(f), Drain(n, e))]
    BY <1>15 DEF Poll
  <2>3. CASE Unwind(f, stack)
    BY <1>1, <2>3, UnwindPrompt
  <2>4. CASE stack' = [stack EXCEPT ![f] = Left(f)]
    BY <1>1, <1>2, <2>1, <2>4, SetPrompt
  <2>5. ASSUME NEW n, NEW e, stack' = [stack EXCEPT ![f] = Append(Left(f), Drain(n, e))] PROVE AllPrompt(stack')
    <3>1. PICK u, x, p : u = Append(p, x) /\ p = Left(f) /\ x = Drain(n, e)
      OBVIOUS
    <3>2. x.at = "drain"
      BY <3>1 DEF Drain
    <3>3. Prompt(p) /\ IsSequence(p)
      BY <1>2, <2>1, <3>1
    <3>4. Prompt(u)
      BY ONLY <3>1, <3>2, <3>3, PushPrompt
    <3>5. QED
      BY <1>1, <2>5, <3>1, <3>4, SetPrompt
  <2>6. QED
    BY <2>2, <2>3, <2>4, <2>5
<1>16. CASE FinalDrain(f)
  <2> DEFINE m == Head(mailbox[Actors[Top(f).next]])
             b == IF Handled(m) THEN prog.body[m.kind] ELSE <<>>
             s == [stack EXCEPT ![f] = Append(@, Code(m.id, b))]
  <2>1. status = "run" /\ f = Running
    BY <1>16 DEF FinalDrain, Inside
  <2>2. stack' = stack \/ (\E i : stack' = [stack EXCEPT ![f] = <<Final(i)>>]) \/ stack' = s \/ Unwind(f, s)
    BY <1>16 DEF FinalDrain
  <2>3. AtOnce(b)
    BY NonePrompt DEF ReadsAwaited, Handled
  <2>4. AllPrompt(s) /\ DOMAIN s = Flows
    <3>1. PICK u, x, p : u = Append(p, x) /\ p = stack[f] /\ x = Code(m.id, b)
      OBVIOUS
    <3>2. s = [stack EXCEPT ![f] = u]
      BY <3>1
    <3> HIDE DEF s, b, m
    <3>3. x.rest = b
      BY <3>1 DEF Code
    <3>4. Prompt(p) /\ IsSequence(p)
      BY <1>2, <2>1, <3>1 DEF AllPrompt
    <3>5. AtOnce(x.rest)
      BY <2>3, <3>3
    <3>6. Prompt(u)
      BY ONLY <3>1, <3>4, <3>5, PushPrompt
    <3>7. QED
      BY <1>1, <3>2, <3>6, SetPrompt
  <2> HIDE DEF s
  <2>5. ASSUME NEW i, stack' = [stack EXCEPT ![f] = <<Final(i)>>] PROVE AllPrompt(stack')
    BY <1>1, <2>5, FewPrompt, SetPrompt
  <2>6. CASE Unwind(f, s)
    <3>1. PICK s2 : s2 = s
      OBVIOUS
    <3>2. QED
      BY <2>4, <2>6, <3>1, UnwindPrompt
  <2>7. QED
    BY <2>2, <2>4, <2>5, <2>6
<1>17. QED
  BY <1>4, <1>5, <1>6, <1>7, <1>8, <1>9, <1>10, <1>11, <1>12, <1>13, <1>14, <1>15, <1>16 DEF Act

-----------------------------------------------------------------------------
(* The registrations.                                                       *)

\* What is not about to await the task of a read is no coroutine with a token.
LEMMA NotAwaiting ==
  ASSUME ActorInv, Registrations, ~AboutToAwait(stack[Running]), registered' \subseteq registered,
         yielder' = Null \/ (yielder' = yielder /\ chain' = chain)
  PROVE  ~(yielder' = Running' /\ yielder' \in registered')
<1>1. Len(sent) \in Nat /\ Null \notin Nat
  BY ActorAssumption DEF ActorInv
<1>2. Null \notin registered
  <2>1. registered \subseteq 0..Len(sent) /\ 0..Len(sent) \subseteq Nat
    BY <1>1 DEF Registrations
  <2>2. QED
    BY ONLY <1>1, <2>1
<1>3. chain' = chain => Running' = Running
  BY DEF Running
<1>4. QED
  BY <1>2, <1>3 DEF Registrations

\* A step that leaves the scheduler alone, of a flow that does not await.
LEMMA QuietKeeps ==
  ASSUME ActorInv, Registrations, ~AboutToAwait(stack[Running]),
         yielder' = Null \/ (yielder' = yielder /\ chain' = chain),
         UNCHANGED <<ready, parked, timers, waits, registered, data, event>>,
         Len(sent') \in {Len(sent), Len(sent) + 1},
         MailIn(mailbox') \subseteq MailIn(mailbox) \cup {Len(sent) + 1}
  PROVE  Registrations'
<1>1. Len(sent) \in Nat
  BY ActorAssumption DEF ActorInv
<1>2. ~(yielder' = Running' /\ yielder' \in registered')
  BY NotAwaiting
<1>3. registered \subseteq 0..Len(sent') /\ Len(sent) + 1 \notin registered
  BY <1>1 DEF Registrations
<1>4. registered' \subseteq 0..Len(sent') /\ registered' \cap MailIn(mailbox') = {}
  BY <1>3 DEF Registrations
<1>5. QED
  BY <1>2, <1>4 DEF Registrations

\* An operation other than an await of a read's task.
LEMMA OtherOperation ==
  ASSUME NEW f, f = Running,
         \/ Top(f).at # "code" \/ Top(f).rest = <<>>
         \/ Head(Top(f).rest)[1] # "await"
         \/ Head(Top(f).rest)[2] # "io"
  PROVE  ~AboutToAwait(stack[Running])
<1>1. <<"await", "io">>[1] = "await" /\ <<"await", "io">>[2] = "io"
  OBVIOUS
<1>2. QED
  BY <1>1 DEF AboutToAwait, Top

\* What an error does to the yielder.
LEMMA UnwindYielder ==
  ASSUME NEW f, NEW s, Unwind(f, s)
  PROVE  yielder' = Null \/ (yielder' = yielder /\ chain' = chain)
BY DEF Unwind

\* A drain puts those it takes from the mailboxes with the ready ones.
LEMMA DrainTakes ==
  ASSUME ActorInv, NEW f, NEW s, DrainMailboxesAsync(f, s)
  PROVE  /\ ToSet(ready') \subseteq ToSet(ready) \cup MailIn(mailbox) /\ MailIn(mailbox') = {}
         /\ sent' = sent /\ parked' = parked /\ timers' = timers
         /\ yielder' = Null \/ (yielder' = yielder /\ chain' = chain)
<1>1. /\ ready' = ready \o Picked([k \in DOMAIN Queued |-> Queued[k].id], Spawned)
      /\ mailbox' = [a \in DOMAIN mailbox |-> <<>>]
      /\ sent' = sent /\ parked' = parked /\ timers' = timers
      /\ yielder' = Null \/ (yielder' = yielder /\ chain' = chain)
  BY UnwindYielder DEF DrainMailboxesAsync
<1>2. Placed(AliveIn(stack) \cup New, chain, ready', parked, timers, elapsed)
  BY <1>1, SpawnPlaced
<1>3. Placed(AliveIn(stack), chain, ready, parked, timers, elapsed) /\ Mailboxes(mailbox)
  BY DEF ActorInv
<1>4. New \subseteq MailIn(mailbox)
  BY <1>3, NewOrThrown
<1>5. ToSet(ready') \subseteq ToSet(ready) \cup MailIn(mailbox)
  BY <1>2, <1>3, <1>4 DEF Placed
<1>6. MailIn(mailbox') = {}
  <2>1. DOMAIN mailbox = ToSet(Actors) /\ \A a \in ToSet(Actors) : mailbox'[a] = <<>>
    BY <1>1, <1>3 DEF Mailboxes
  <2>2. Len(<<>>) = 0
    OBVIOUS
  <2>3. QED
    BY <2>1, <2>2 DEF MailIn
<1>7. QED
  BY <1>1, <1>5, <1>6

\* The flow that runs waits for nothing else, and its message has been sent.
LEMMA RunningElsewhere ==
  ASSUME ActorInv, NEW f \in Flows, status = "run", f = Running
  PROVE  /\ f \notin ToSet(ready) \cup ToSet(parked) \cup timers \cup MailIn(mailbox)
         /\ f \in 0..Len(sent) /\ Len(sent) \in Nat
<1>1. /\ Placed(AliveIn(stack), chain, ready, parked, timers, elapsed)
      /\ Accounts(MailIn(mailbox), AliveIn(stack), Handles(stack[Script]), ended, skipped, Len(sent))
      /\ Len(sent) \in Nat
  BY ActorAssumption DEF ActorInv
<1>2. f \in ToSet(chain)
  <2>1. chain \in Seq(ToSet(chain)) /\ chain # <<>>
    BY <1>1 DEF Placed, IsSequence
  <2>2. QED
    BY <2>1, FrontProperties DEF Running
<1>3. f = Script \/ f \in AliveIn(stack)
  BY RunningFlow
<1>4. Script \notin MailIn(mailbox) /\ Script \in 0..Len(sent)
  BY <1>1, ActorAssumption DEF MailIn, Ids, Script
<1>5. AliveIn(stack) \cap MailIn(mailbox) = {} /\ AliveIn(stack) \subseteq 1..Len(sent)
  BY <1>1 DEF Accounts
<1>6. QED
  BY <1>1, <1>2, <1>3, <1>4, <1>5 DEF Placed

\* A step that does not touch the mailboxes either.
LEMMA InnerKeeps ==
  ASSUME ActorInv, Registrations, ~AboutToAwait(stack[Running]),
         yielder' = Null \/ (yielder' = yielder /\ chain' = chain),
         UNCHANGED <<ready, parked, timers, waits, registered, data, event, sent, mailbox>>
  PROVE  Registrations'
<1>1. MailIn(mailbox') = MailIn(mailbox) /\ Len(sent') = Len(sent)
  OBVIOUS
<1>2. QED
  BY <1>1, QuietKeeps

\* The operations that are none of the scheduler's.
LEMMA OutsideKeeps ==
  ASSUME ActorInv, Registrations, NEW f \in Flows,
         ActorSend(f) \/ ActorRequest(f) \/ Raise(f) \/ Finish(f) \/ FinalDrain(f)
  PROVE  Registrations'
<1>1. UNCHANGED <<ready, parked, timers, waits, registered, data, event>>
  BY DEF ActorSend, ActorRequest, Raise, Finish, FinalDrain, sched
<1>2. ASSUME NEW op, At(f, op), op # "await" PROVE ~AboutToAwait(stack[Running])
  BY <1>2, OtherOperation DEF At, Inside
<1>3. CASE ActorSend(f)
  <2>1. PICK a, m, n : a = Arg(f, 1) /\ m = [id |-> n + 1, kind |-> Arg(f, 2)] /\ n = Len(sent)
    OBVIOUS
  <2>2. At(f, "send") /\ status = "run" /\ f = Running
    BY <1>3 DEF ActorSend, At, Inside
  <2>3. Head(Top(f).rest) \in Operations(prog) /\ Head(Top(f).rest)[1] = "send" /\ Head(Top(f).rest)[2] = a
    BY <2>1, <2>2, SteppedFrames DEF At, Arg
  <2>4. a \in ToSet(Actors)
    BY <2>3, ProgramsAssumption DEF ActorInv
  <2>5. n \in Nat /\ n < MaxMsgs /\ m.id = n + 1 /\ IsSequence(sent) /\ Mailboxes(mailbox)
    BY <1>3, <2>1, ActorAssumption DEF ActorInv, ActorSend
  <2>6. MailIn(mailbox) \subseteq 1..n
    BY <2>1 DEF ActorInv, Accounts
  <2>7. m.id \in Ids /\ m.id \notin MailIn(mailbox)
    BY <2>5, <2>6, ActorAssumption DEF Ids
  <2>8. PICK mb : mb = [mailbox EXCEPT ![a] = Append(mailbox[a], m)]
    OBVIOUS
  <2>9. MailIn(mb) = MailIn(mailbox) \cup {m.id}
    BY ONLY <2>4, <2>5, <2>7, <2>8, MailArrives
  <2>10. mailbox' = mb /\ sent' = Append(sent, a)
    BY <1>3, <2>1, <2>8 DEF ActorSend
  <2>11. Len(sent') = n + 1
    BY <2>1, <2>5, <2>10, AppendOne
  <2>12. MailIn(mailbox') = MailIn(mailbox) \cup {n + 1}
    BY <2>5, <2>9, <2>10
  <2>13. yielder' = yielder /\ chain' = chain
    BY <1>3 DEF ActorSend
  <2>14. QED
    BY <1>1, <1>2, <2>1, <2>2, <2>11, <2>12, <2>13, QuietKeeps
<1>4. CASE ActorRequest(f)
  BY <1>1, <1>2, <1>4, UnwindYielder, InnerKeeps DEF ActorRequest
<1>5. CASE Raise(f)
  BY <1>1, <1>2, <1>5, UnwindYielder, InnerKeeps DEF Raise
<1>6. CASE Finish(f)
  <2>1. ~AboutToAwait(stack[Running])
    BY <1>6, OtherOperation DEF Finish, Inside
  <2>2. yielder' = Null \/ (yielder' = yielder /\ chain' = chain)
    BY <1>6 DEF Finish
  <2>3. UNCHANGED <<sent, mailbox>>
    BY <1>6 DEF Finish
  <2>4. QED
    BY <1>1, <2>1, <2>2, <2>3, InnerKeeps
<1>7. CASE FinalDrain(f)
  <2>1. ~AboutToAwait(stack[Running])
    BY <1>7, OtherOperation DEF FinalDrain, Inside
  <2>2. yielder' = Null \/ (yielder' = yielder /\ chain' = chain)
    BY <1>7, UnwindYielder DEF FinalDrain
  <2>3. sent' = sent
    BY <1>7 DEF FinalDrain
  <2>4. PICK i, a : i = Top(f).next /\ a = Actors[i]
    OBVIOUS
  <2>5. mailbox' = mailbox \/ (~(i > Len(Actors)) /\ mailbox[a] # <<>> /\ mailbox' = [mailbox EXCEPT ![a] = Tail(mailbox[a])])
    BY <1>7, <2>4 DEF FinalDrain
  <2>6. MailIn(mailbox') \subseteq MailIn(mailbox)
    <3>1. CASE mailbox' = mailbox
      BY <3>1
    <3>2. CASE ~(i > Len(Actors)) /\ mailbox[a] # <<>> /\ mailbox' = [mailbox EXCEPT ![a] = Tail(mailbox[a])]
      <4>1. status = "run" /\ f = Running /\ Top(f).at = "final"
        BY <1>7 DEF FinalDrain, Inside
      <4>2. i \in Nat \ {0}
        <5>1. Frames(Operations(prog), f, stack[f]) /\ Len(stack[f]) \in 1..Len(stack[f]) /\ Top(f) = stack[f][Len(stack[f])]
          BY <4>1, RunningFlow
        <5>2. QED
          BY <2>4, <4>1, <5>1 DEF Frames
      <4>3. Len(Actors) \in Nat
        BY ActorAssumption, LenProperties
      <4>4. i \in 1..Len(Actors)
        BY <3>2, <4>2, <4>3
      <4>5. a \in ToSet(Actors)
        BY <2>4, <4>4, ActorAssumption, LenProperties, ElementOfSeq
      <4>6. PICK mb, m : mb = [mailbox EXCEPT ![a] = Tail(mailbox[a])] /\ m = Head(mailbox[a])
        OBVIOUS
      <4>7. Mailboxes(mailbox) /\ mailbox[a] # <<>>
        BY <3>2 DEF ActorInv
      <4>8. MailIn(mb) = MailIn(mailbox) \ {m.id}
        BY ONLY <4>5, <4>6, <4>7, MailLeaves
      <4>9. mailbox' = mb
        BY <3>2, <4>6
      <4>10. QED
        BY <4>8, <4>9
    <3>3. QED
      BY <2>5, <3>1, <3>2
  <2>7. QED
    BY <1>1, <2>1, <2>2, <2>3, <2>6, QuietKeeps
<1>8. QED
  BY <1>3, <1>4, <1>5, <1>6, <1>7

\* The drains of a flow that awaits no read's task.
LEMMA TakingKeeps ==
  ASSUME ActorInv, Registrations, NEW f \in Flows, Yield(f) \/ AwaitedHere(f)
  PROVE  Registrations'
<1>1. waits' = waits /\ registered' = registered /\ event' = event /\ data' \subseteq data
  BY DEF Yield, AwaitedHere
<1>2. ~AboutToAwait(stack[Running])
  <2>1. CASE Yield(f)
    BY <2>1, OtherOperation DEF Yield, At, Inside
  <2>2. CASE AwaitedHere(f)
    BY <2>2, OtherOperation DEF AwaitedHere, Inside
  <2>3. QED
    BY <2>1, <2>2
<1>3. \/ UNCHANGED <<mailbox, ready, parked, timers, sent, yielder, chain>>
      \/ \E s : DrainMailboxesAsync(f, s)
  BY DEF Yield, AwaitedHere
<1>4. /\ ToSet(ready') \subseteq ToSet(ready) \cup MailIn(mailbox) /\ MailIn(mailbox') \subseteq MailIn(mailbox)
      /\ sent' = sent /\ parked' = parked /\ timers' = timers
      /\ yielder' = Null \/ (yielder' = yielder /\ chain' = chain)
  <2>1. CASE UNCHANGED <<mailbox, ready, parked, timers, sent, yielder, chain>>
    BY <2>1
  <2>2. ASSUME NEW s, DrainMailboxesAsync(f, s)
        PROVE  /\ ToSet(ready') \subseteq ToSet(ready) \cup MailIn(mailbox) /\ MailIn(mailbox') \subseteq MailIn(mailbox)
               /\ sent' = sent /\ parked' = parked /\ timers' = timers
               /\ yielder' = Null \/ (yielder' = yielder /\ chain' = chain)
    BY <2>2, DrainTakes
  <2>3. QED
    BY <1>3, <2>1, <2>2
<1>5. ~(yielder' = Running' /\ yielder' \in registered')
  BY <1>1, <1>2, <1>4, NotAwaiting
<1>6. QED
  BY <1>1, <1>4, <1>5 DEF Registrations

\* An await outside of a coroutine: the yielder is nobody's.
LEMMA AwaitHereRegisters ==
  ASSUME ActorInv, Registrations, NEW f \in Flows, AwaitHere(f)
  PROVE  Registrations'
<1>1. status = "run" /\ f = Running /\ yielder = Null
  BY DEF AwaitHere, Awaiting, At, Inside
<1>2. PICK s : DrainMailboxesAsync(f, s)
  BY DEF AwaitHere
<1>3. /\ ToSet(ready') \subseteq ToSet(ready) \cup MailIn(mailbox) /\ MailIn(mailbox') = {}
      /\ sent' = sent /\ parked' = parked /\ timers' = timers
      /\ yielder' = Null \/ (yielder' = yielder /\ chain' = chain)
  BY <1>2, DrainTakes
<1>4. /\ registered' \subseteq registered \cup {f} /\ event \subseteq event' /\ data' = data
      /\ \A p \in Flows \ {f} : DOMAIN waits = Flows => waits'[p] = waits[p]
      /\ DOMAIN waits' = DOMAIN waits
  BY DEF AwaitHere, Awaiting, Register
<1>5. /\ f \notin ToSet(ready) \cup ToSet(parked) \cup timers \cup MailIn(mailbox)
      /\ f \in 0..Len(sent) /\ Len(sent) \in Nat
  BY <1>1, RunningElsewhere
<1>6. Null \notin 0..Len(sent)
  <2>1. 0..Len(sent) \subseteq Nat
    BY <1>5
  <2>2. QED
    BY ONLY <2>1, ActorAssumption
<1>7. registered' \subseteq 0..Len(sent') /\ yielder' \notin registered'
  BY <1>1, <1>3, <1>4, <1>5, <1>6 DEF Registrations
<1>8. ToSet(parked) \subseteq Flows
  BY DEF ActorInv, Placed, AliveIn, Flows
<1>9. \A p \in ToSet(parked') \cap registered' : waits'[p] = "io" /\ (p \in data' => p \in event')
  BY <1>3, <1>4, <1>5, <1>8 DEF Registrations
<1>10. registered' \cap (ToSet(ready') \cup timers') = {} /\ registered' \cap MailIn(mailbox') = {}
  BY <1>3, <1>4, <1>5 DEF Registrations
<1>11. QED
  BY <1>4, <1>7, <1>9, <1>10 DEF Registrations

\* What was ready has no token, and is resumed with none.
LEMMA ResumeRegisters ==
  ASSUME ActorInv, Registrations, NEW f \in Flows, Resume(f)
  PROVE  Registrations'
<1>1. /\ ready # <<>> /\ yielder' = Last(ready) /\ ready' = Front(ready)
      /\ UNCHANGED <<sent, mailbox, parked, timers, waits, registered, data, event>>
  BY DEF Resume
<1>2. ready \in Seq(ToSet(ready))
  BY DEF ActorInv, Placed, IsSequence
<1>3. ToSet(ready) = ToSet(Front(ready)) \cup {Last(ready)}
  BY <1>1, <1>2, FrontSet
<1>4. yielder' \notin registered' /\ ToSet(ready') \subseteq ToSet(ready)
  BY <1>1, <1>3 DEF Registrations
<1>5. MailIn(mailbox') = MailIn(mailbox)
  BY <1>1
<1>6. QED
  BY <1>1, <1>4, <1>5 DEF Registrations

\* A read's task is awaited next.
LEMMA ReadRegisters ==
  ASSUME ActorInv, AllPrompt(stack), Registrations, NEW f \in Flows, ReadAsync(f)
  PROVE  Registrations'
<1>1. /\ status = "run" /\ f = Running /\ At(f, "read") /\ DOMAIN stack = Flows
      /\ stack' = [stack EXCEPT ![f] = Stepped(f)]
      /\ UNCHANGED <<sent, mailbox, chain, ready, parked, timers, waits, data, yielder>>
  BY DEF ReadAsync, At, Inside, ActorInv, Stacks
<1>2. AboutToAwait(stack'[f])
  <2>1. stack'[f] = Stepped(f)
    BY <1>1
  <2>2. QED
    BY <1>1, <2>1, StepPrompt
<1>3. ~AboutToAwait(stack[f])
  BY <1>1, OtherOperation DEF At
<1>4. /\ registered' = (IF active THEN registered \cup {f} ELSE registered)
      /\ event' = (IF active /\ f \in data THEN event \cup {f} ELSE event)
  BY DEF ReadAsync, Register
<1>5. /\ f \notin ToSet(ready) \cup ToSet(parked) \cup timers \cup MailIn(mailbox)
      /\ f \in 0..Len(sent)
  BY <1>1, RunningElsewhere
<1>6. ASSUME yielder' = Running', yielder' \in registered'
      PROVE  AboutToAwait(stack'[yielder']) /\ (yielder' \in data' => yielder' \in event')
  <2>1. yielder' = f /\ yielder = f /\ yielder = Running
    BY <1>1, <1>6 DEF Running
  <2>2. active
    BY <1>3, <1>4, <1>6, <2>1 DEF Registrations
  <2>3. QED
    BY <1>1, <1>2, <1>4, <2>1, <2>2
<1>7. MailIn(mailbox') = MailIn(mailbox)
  BY <1>1
<1>8. registered' \subseteq registered \cup {f} /\ event \subseteq event'
  BY <1>4
<1>9. \A p \in ToSet(parked') \cap registered' : waits'[p] = "io" /\ (p \in data' => p \in event')
  BY <1>1, <1>5, <1>8 DEF Registrations
<1>10. registered' \subseteq 0..Len(sent') /\ registered' \cap MailIn(mailbox') = {}
  BY <1>1, <1>5, <1>7, <1>8 DEF Registrations
<1>11. registered' \cap (ToSet(ready') \cup timers') = {} /\ DOMAIN waits' = Flows
  BY <1>1, <1>5, <1>8 DEF Registrations
<1>12. QED
  BY <1>6, <1>9, <1>10, <1>11 DEF Registrations

\* The coroutine is parked for the task that has the token.
LEMMA SuspendRegisters ==
  ASSUME ActorInv, Registrations, NEW f \in Flows, Suspend(f)
  PROVE  Registrations'
<1>1. PICK w : /\ Awaiting(f, w) /\ yielder = f
               /\ IF w = "timer" THEN timers' = timers \cup {f} /\ parked' = parked
                                 ELSE parked' = Append(parked, f) /\ timers' = timers
               /\ chain' = Front(chain) /\ UNCHANGED <<sent, mailbox, ready, data, yielder>>
  BY DEF Suspend, Awaiting
<1>2. /\ status = "run" /\ f = Running /\ w = Head(Top(f).rest)[2]
      /\ chain' = Front(chain) /\ yielder' = f
      /\ UNCHANGED <<sent, mailbox, ready, data>>
  <2>1. At(f, "await") /\ w = Arg(f, 1)
    BY <1>1, Zenon DEF Awaiting
  <2>2. w = Head(Top(f).rest)[2]
    BY <2>1 DEF Arg
  <2>3. QED
    BY <1>1, <2>1, <2>2 DEF At, Inside
<1>3. /\ f \notin ToSet(ready) \cup ToSet(parked) \cup timers \cup MailIn(mailbox)
      /\ f \in 0..Len(sent)
  BY <1>2, RunningElsewhere
<1>4. f # Script /\ f \in AliveIn(stack)
  <2>1. f # Null
    BY ActorAssumption DEF Flows, Ids, Script
  <2>2. f \in AliveIn(stack)
    BY <1>1, <2>1 DEF ActorInv
  <2>3. QED
    BY <2>2, ActorAssumption DEF AliveIn, Ids, Script
<1>5. Running' # f
  <2>1. Placed(AliveIn(stack) \ {f}, Front(chain), ready, parked, timers, elapsed)
    BY <1>2, <1>4, RunningIsPlaced DEF Running, ActorInv
  <2>2. PICK c : c = Front(chain)
    OBVIOUS
  <2>3. c \in Seq(ToSet(c)) /\ c # <<>> /\ ToSet(c) \subseteq (AliveIn(stack) \ {f}) \cup {Script}
    BY <2>1, <2>2 DEF Placed, IsSequence
  <2>4. Last(c) \in ToSet(c)
    BY ONLY <2>3, FrontProperties
  <2>5. Running' = Last(c)
    BY <1>2, <2>2 DEF Running
  <2>6. QED
    BY <1>4, <2>3, <2>4, <2>5
<1>6. f \in registered => w = "io" /\ (f \in data => f \in event)
  <2>1. f \in registered => AboutToAwait(stack[f]) /\ (f \in data => f \in event)
    BY <1>1, <1>2 DEF Registrations
  <2>2. ~AboutToAwait(stack[f]) \/ w = "io"
    BY <1>2, OtherOperation
  <2>3. QED
    BY <2>1, <2>2
<1>7. /\ registered' = (IF w = "new io" /\ active THEN registered \cup {f} ELSE registered)
      /\ event' = (IF w = "new io" /\ active /\ f \in data THEN event \cup {f} ELSE event)
      /\ waits' = [waits EXCEPT ![f] = IF w = "new io" THEN "io" ELSE w]
  BY <1>1 DEF Awaiting, Register
<1>8. ToSet(parked') \subseteq ToSet(parked) \cup {f} /\ (w = "timer" => parked' = parked)
  <2>1. PICK S, u : S = ToSet(parked) \cup {f} /\ u = Append(parked, f)
    OBVIOUS
  <2>2. parked \in Seq(S) /\ f \in S
    BY <2>1, SeqMonotonic DEF ActorInv, Placed, IsSequence
  <2>3. ToSet(u) = ToSet(parked) \cup {f}
    BY ONLY <2>1, <2>2, AppendSet
  <2>4. QED
    BY <1>1, <2>1, <2>3
<1>9. ASSUME NEW p \in ToSet(parked') \cap registered'
      PROVE  waits'[p] = "io" /\ (p \in data' => p \in event')
  <2>1. DOMAIN waits = Flows
    BY DEF Registrations
  <2>2. CASE p = f
    <3>1. waits'[f] = IF w = "new io" THEN "io" ELSE w
      BY <1>7, <2>1
    <3>2. f \in registered \/ (w = "new io" /\ active)
      BY <1>7, <1>9, <2>2
    <3>3. QED
      BY <1>2, <1>6, <1>7, <2>2, <3>1, <3>2
  <2>3. CASE p # f
    <3>1. p \in ToSet(parked) \cap registered /\ p \in Flows
      BY <1>7, <1>8, <1>9, <2>3 DEF ActorInv, Placed, AliveIn, Flows
    <3>2. QED
      BY <1>2, <1>7, <2>1, <2>3, <3>1 DEF Registrations
  <2>4. QED
    BY <2>2, <2>3
<1>10. registered' \cap (ToSet(ready') \cup timers') = {}
  <2>1. registered \cap (ToSet(ready) \cup timers) = {}
    BY DEF Registrations
  <2>2. CASE w = "timer"
    BY <1>1, <1>2, <1>6, <1>7, <2>1, <2>2
  <2>3. CASE w # "timer"
    BY <1>1, <1>2, <1>3, <1>7, <2>1, <2>3
  <2>4. QED
    BY <2>2, <2>3
<1>11. MailIn(mailbox') = MailIn(mailbox)
  BY <1>2
<1>12. registered' \subseteq 0..Len(sent') /\ registered' \cap MailIn(mailbox') = {} /\ DOMAIN waits' = Flows
  BY <1>2, <1>3, <1>7, <1>11 DEF Registrations
<1>13. QED
  BY <1>2, <1>5, <1>9, <1>10, <1>12 DEF Registrations

\* A poll sees the event of each coroutine parked for a readable stream, and
\* its token is gone when it is resumed.
LEMMA PollRegisters ==
  ASSUME ActorInv, Registrations, NEW f \in Flows, Poll(f)
  PROVE  Registrations'
<1>1. PICK W, D, a : W = Woken(event) /\ D = DOMAIN parked \ W /\ a = Picked(parked, W)
  OBVIOUS
<1>2. /\ status = "run" /\ f = Running /\ Top(f).at = "drain" /\ ready = <<>>
      /\ ready' = a \o elapsed /\ parked' = Picked(parked, D) /\ timers' = timers \ ToSet(elapsed)
      /\ registered' = {p \in registered : ~(Token(p) /\ p \in ToSet(a))}
      /\ data' \subseteq data /\ sent' = sent /\ mailbox' = mailbox /\ waits' = waits
  BY <1>1 DEF Poll, Inside
<1>3. yielder' = Null \/ (yielder' = yielder /\ chain' = chain)
  BY UnwindYielder DEF Poll
<1>4. ~(yielder' = Running' /\ yielder' \in registered')
  <2>1. ~AboutToAwait(stack[Running])
    BY <1>2, OtherOperation
  <2>2. registered' \subseteq registered
    BY <1>2
  <2>3. QED
    BY <1>3, <2>1, <2>2, NotAwaiting
<1>5. /\ parked \in Seq(ToSet(parked)) /\ elapsed \in Seq(ToSet(elapsed)) /\ ToSet(elapsed) \subseteq timers
      /\ IsInjective(parked)
  BY DEF ActorInv, Placed, IsSequence
<1>6. a \in Seq(ToSet(parked)) /\ \A x : x \in ToSet(a) <=> \E i \in 1..Len(parked) : i \in W /\ x = parked[i]
  BY <1>1, <1>5, PickedFacts
<1>7. \A x : x \in ToSet(parked') <=> \E i \in 1..Len(parked) : i \in D /\ x = parked[i]
  <2>1. PICK b : b = Picked(parked, D)
    OBVIOUS
  <2>2. \A x : x \in ToSet(b) <=> \E i \in 1..Len(parked) : i \in D /\ x = parked[i]
    BY ONLY <1>5, <2>1, PickedFacts
  <2>3. QED
    BY <1>2, <2>1, <2>2
<1>8. DOMAIN parked = 1..Len(parked) /\ \A i \in 1..Len(parked) : parked[i] \in ToSet(parked)
  BY <1>5, LenProperties, ElementOfSeq
<1>9. ToSet(a) \subseteq ToSet(parked) /\ ToSet(parked') \subseteq ToSet(parked)
  BY <1>6, <1>7, <1>8
<1>10. ToSet(ready') = ToSet(a) \cup ToSet(elapsed)
  <2>1. PICK S, r : S = ToSet(parked) \cup ToSet(elapsed) /\ r = a \o elapsed
    OBVIOUS
  <2>2. a \in Seq(S)
    BY <1>6, <2>1, SeqMonotonic
  <2>3. elapsed \in Seq(S)
    BY <1>5, <2>1, SeqMonotonic
  <2>4. ToSet(r) = ToSet(a) \cup ToSet(elapsed)
    BY ONLY <2>1, <2>2, <2>3, ConcatSet
  <2>5. QED
    BY <1>2, <2>1, <2>4
<1>11. registered' \cap (ToSet(ready') \cup timers') = {}
  <2>1. \A p \in ToSet(a) \cap registered : Token(p)
    BY <1>9 DEF Registrations, Token
  <2>2. registered \cap timers = {}
    BY DEF Registrations
  <2>3. QED
    BY <1>2, <1>5, <1>10, <2>1, <2>2
<1>12. ASSUME NEW p \in ToSet(parked') \cap registered' PROVE waits[p] = "io" /\ p \notin data
  <2>1. PICK i \in 1..Len(parked) : i \in D /\ p = parked[i]
    BY <1>7, <1>12
  <2>2. p \in ToSet(parked) \cap registered
    BY <1>2, <1>9, <1>12
  <2>3. waits[p] = "io" /\ (p \in data => p \in event)
    BY <2>2 DEF Registrations
  <2>4. i \in DOMAIN parked /\ i \notin Woken(event)
    BY <1>1, <1>8, <2>1
  <2>5. ~Wakes(p, event, Seen[i - 1])
    BY <2>1, <2>4 DEF Woken
  <2>6. ASSUME p \in data, NEW t PROVE Wakes(p, event, t)
    BY <2>3, <2>6 DEF Wakes, Polled, Combinators
  <2>7. QED
    BY <2>3, <2>5, <2>6
<1>13. MailIn(mailbox') = MailIn(mailbox)
  BY <1>2
<1>14. QED
  BY <1>2, <1>4, <1>11, <1>12, <1>13 DEF Registrations

\* What the world does.
LEMMA WorldRegisters ==
  ASSUME Registrations, NEW f \in Flows, Arrive(f) \/ Elapse(f)
  PROVE  Registrations'
<1>1. /\ UNCHANGED <<sent, mailbox, stack, chain, ready, parked, timers, waits, registered, yielder>>
      /\ \A p \in registered : (p \in data => p \in event) => (p \in data' => p \in event')
  BY DEF Arrive, Elapse
<1>2. MailIn(mailbox') = MailIn(mailbox) /\ Running' = Running
  BY <1>1 DEF Running
<1>3. QED
  BY <1>1, <1>2 DEF Registrations

\* A step that changes nothing the tokens are about.
LEMMA UnchangedRegisters ==
  ASSUME Registrations,
         UNCHANGED <<sent, mailbox, stack, chain, ready, parked, timers, waits, registered, data, event, yielder>>
  PROVE  Registrations'
BY DEF Registrations, Running
-----------------------------------------------------------------------------
(* The invariant, and what it says.                                         *)

\* It holds at first.
LEMMA WakeInit ==
  ASSUME Init, ReadsAwaited(prog)
  PROVE  WakeInv
<1>1. ASSUME NEW f \in Flows PROVE Prompt(stack[f])
  <2>1. stack[f] = IF f = Script THEN <<Code(0, prog.script)>> ELSE <<>>
    BY DEF Init
  <2>2. QED
    BY <2>1, FewPrompt DEF ReadsAwaited
<1>2. registered = {} /\ parked = <<>> /\ waits = [f \in Flows |-> "nothing"]
  BY DEF Init
<1>3. QED
  BY <1>1, <1>2 DEF WakeInv, AllPrompt, Registrations

\* And every step keeps it.
LEMMA WakeNext ==
  ASSUME ActorInv, ReadsAwaited(prog), WakeInv, [Next]_vars
  PROVE  WakeInv' /\ ReadsAwaited(prog)'
<1>1. prog' = prog
  BY DEF Next, Run, World, Act, ActorSend, ActorRequest, Raise, Finish, Yield, Resume, Poll, ReadAsync, Suspend,
         SuspendAnother, AwaitHere, AwaitedHere, DrainMailboxesAsync, FinalDrain, Arrive, Elapse, Complete, vars
<1>2. ReadsAwaited(prog)'
  BY <1>1
<1>3. ASSUME NEW f \in Flows, Act(f) PROVE WakeInv'
  <2>1. AllPrompt(stack')
    BY <1>3, ActPrompt DEF WakeInv
  <2>2. CASE SuspendAnother(f)
    BY <2>2, UnchangedRegisters DEF SuspendAnother, sched, WakeInv
  <2>3. Registrations'
    BY <1>3, <2>2, OutsideKeeps, TakingKeeps, AwaitHereRegisters, ResumeRegisters, ReadRegisters, SuspendRegisters,
       PollRegisters DEF Act, WakeInv
  <2>4. QED
    BY <2>1, <2>3 DEF WakeInv
<1>4. ASSUME NEW f \in Flows, Arrive(f) \/ Elapse(f) PROVE WakeInv'
  BY <1>4, WorldRegisters DEF WakeInv, Arrive, Elapse
<1>5. ASSUME NEW k \in Tasks, Complete(k) PROVE WakeInv'
  BY <1>5, UnchangedRegisters DEF WakeInv, Complete, sched
<1>6. CASE UNCHANGED vars
  BY <1>6, UnchangedRegisters DEF WakeInv, vars, sched
<1>7. QED
  BY <1>2, <1>3, <1>4, <1>5, <1>6 DEF Next, Run, World

\* In a program that awaits each read where it makes it, whatever else its
\* handlers send, ask, await and raise, and however their drains nest, the
\* poll that finds nobody parked for a task's event never comes: a coroutine
\* parked for a stream that is readable has the event to come (await_task and
\* tick of scheduler.rs).  A read that is awaited later can miss it.
THEOREM AwaitedAtOnceNeverLost == Spec => [](ReadsAwaited(prog) => NoLostWakeup)
<1> DEFINE I == ActorInv /\ (ReadsAwaited(prog) => WakeInv)
<1>1. Init => I
  BY ActorInit, WakeInit
<1>2. I /\ [Next]_vars => I'
  <2>1. ASSUME I, [Next]_vars, ~ReadsAwaited(prog) PROVE ~ReadsAwaited(prog)'
    <3>1. prog' = prog
      BY <2>1 DEF Next, Run, World, Act, ActorSend, ActorRequest, Raise, Finish, Yield, Resume, Poll, ReadAsync, Suspend,
         SuspendAnother, AwaitHere, AwaitedHere, DrainMailboxesAsync, FinalDrain, Arrive, Elapse, Complete, vars
    <3>2. QED
      BY <2>1, <3>1
  <2>2. QED
    BY <2>1, ActorNext, WakeNext
<1>3. I => (ReadsAwaited(prog) => NoLostWakeup)
  BY DEF NoLostWakeup, Token, WakeInv, Registrations
<1>4. QED
  BY <1>1, <1>2, <1>3, PTL DEF Spec
=============================================================================
