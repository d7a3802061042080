------------------------- MODULE ActorRuntimeProofs -------------------------
(* Proofs about ActorRuntime, for any programs of any number of actors,     *)
(* messages and common tasks.                                               *)
EXTENDS ActorRuntime, SequenceFacts, TLAPS

\* The frames of flow f, if the program has the operations ops: of a message's
\* coroutine the outermost is its handler, and no other is; of the script
\* only the final drain has a handler of a message in front of it.
Frames(ops, f, s) ==
  /\ IsSequence(s)
  /\ \A i \in 1..Len(s) :
       /\ s[i].at \in {"code", "drain", "wait", "final"}
       /\ s[i].at = "final" => f = Script /\ i = 1 /\ s[i].next \in Nat \ {0}
       /\ s[i].at \in {"drain", "wait"} => i # 1
       /\ s[i].at = "code" =>
            /\ s[i].rest \in Seq(ops)
            /\ f # Script => s[i].msg = IF i = 1 THEN f ELSE 0
            /\ f = Script /\ s[i].msg # 0 => i = 2 /\ s[1].at = "final"

\* The messages whose handlers the frames are those of.
Handles(s) == {s[i].msg : i \in {i \in 1..Len(s) : s[i].at = "code"}} \ {0}

Stacks(ops, st) ==
  /\ DOMAIN st = Flows
  /\ \A f \in Flows : Frames(ops, f, st[f])

AliveIn(st) == {i \in Ids : st[i] # <<>>}

\* Each coroutine has one place: in one of the scheduler's queues or in the
\* chain of those resumed.
Placed(al, ch, rd, pk, tm, el) ==
  /\ IsSequence(ch) /\ IsInjective(ch) /\ ch # <<>> /\ ch[1] = Script
  /\ IsSequence(rd) /\ IsInjective(rd)
  /\ IsSequence(pk) /\ IsInjective(pk)
  /\ IsSequence(el) /\ IsInjective(el) /\ ToSet(el) \subseteq tm
  /\ ToSet(rd) \cap ToSet(pk) = {} /\ ToSet(rd) \cap tm = {} /\ ToSet(pk) \cap tm = {}
  /\ ToSet(ch) \cap (ToSet(rd) \cup ToSet(pk) \cup tm) = {}
  /\ ToSet(rd) \cup ToSet(pk) \cup tm \cup ToSet(ch) = al \cup {Script}

\* The mailboxes of the actors, no message of which is there twice.
Mailboxes(mb) ==
  /\ DOMAIN mb = ToSet(Actors)
  /\ \A a \in ToSet(Actors) : IsSequence(mb[a]) /\ \A i \in 1..Len(mb[a]) : mb[a][i].id \in Ids
  /\ \A a, b \in ToSet(Actors) : \A i \in 1..Len(mb[a]), j \in 1..Len(mb[b]) :
       mb[a][i].id = mb[b][j].id => a = b /\ i = j

MailIn(mb) == {i \in Ids : \E a \in ToSet(Actors) : \E k \in 1..Len(mb[a]) : mb[a][k].id = i}

\* Each message sent is in a mailbox, in the hands of a coroutine, or of the
\* script, or has ended, or was thrown away.
Accounts(ml, al, os, en, sk, n) ==
  /\ ml \cap (al \cup os \cup en \cup sk) = {}
  /\ al \cap (os \cup en \cup sk) = {}
  /\ os \cap (en \cup sk) = {}
  /\ en \cap sk = {}
  /\ ml \cup al \cup os \cup en \cup sk = 1..n

ActorInv ==
  /\ prog \in Programs
  /\ Stacks(Operations(prog), stack)
  /\ status = "run" => stack[Script] # <<>>
  /\ Placed(AliveIn(stack), chain, ready, parked, timers, elapsed)
  /\ Mailboxes(mailbox)
  /\ Len(sent) \in 0..MaxMsgs /\ IsSequence(sent)
  /\ Accounts(MailIn(mailbox), AliveIn(stack), Handles(stack[Script]), ended, skipped, Len(sent))
  /\ yielder = Null \/ yielder \in AliveIn(stack)

\* A common task gives its value to one await, which consumes it; one that is
\* consumed for nothing was so by a task_all that found a later task pending.
TaskInv ==
  /\ task \in [Tasks -> {"pending", "ready", "consumed"}]
  /\ given \in [Tasks -> {0, 1}]
  /\ DOMAIN waits = Flows
  /\ \A f \in Flows : waits[f] = "all" => SomeAll
  /\ \A k \in Tasks : given[k] = 1 => task[k] = "consumed"
  /\ \A k \in Tasks : task[k] = "consumed" /\ given[k] = 0 => k # Shared /\ SomeAll
-----------------------------------------------------------------------------
(* Frames.                                                                  *)

\* The innermost frame is replaced.
LEMMA TopReplaced ==
  ASSUME NEW s, IsSequence(s), s # <<>>, NEW x, NEW u, u = Append(Front(s), x)
  PROVE  /\ IsSequence(u) /\ Len(s) \in Nat \ {0} /\ Len(u) = Len(s)
         /\ \A i \in 1..Len(s) : u[i] = IF i = Len(s) THEN x ELSE s[i]
<1>1. PICK p : p = Front(s)
  OBVIOUS
<1>2. /\ p \in Seq(ToSet(s)) /\ Len(p) = Len(s) - 1 /\ Len(s) \in Nat \ {0}
      /\ \A i \in 1..(Len(s) - 1) : p[i] = s[i]
  BY <1>1, FrontProperties DEF IsSequence
<1>3. IsSequence(p) /\ u = Append(p, x)
  BY <1>1, <1>2, OwnSet
<1>4. IsSequence(u)
  BY ONLY <1>3, AppendOne
<1>5. Len(u) = Len(p) + 1
  BY ONLY <1>3, AppendOne
<1>6. u[Len(p) + 1] = x
  BY ONLY <1>3, AppendOne
<1>7. \A i \in 1..Len(p) : u[i] = p[i]
  BY ONLY <1>3, AppendOne
<1>8. ASSUME NEW i \in 1..Len(s) PROVE u[i] = IF i = Len(s) THEN x ELSE s[i]
  <2>1. CASE i = Len(s)
    <3>1. Len(p) + 1 = Len(s)
      BY <1>2
    <3>2. QED
      BY <1>6, <2>1, <3>1
  <2>2. CASE i # Len(s)
    <3>1. i \in 1..Len(p) /\ i \in 1..(Len(s) - 1)
      BY <1>2, <2>2
    <3>2. QED
      BY <1>2, <1>7, <2>2, <3>1
  <2>3. QED
    BY <2>1, <2>2
<1>9. QED
  BY <1>2, <1>4, <1>5, <1>8

\* An operation is done: the rest of it remains.
LEMMA FramesStep ==
  ASSUME NEW ops, NEW f \in Flows, NEW s, Frames(ops, f, s), s # <<>>, Last(s).at = "code",
         Last(s).rest # <<>>, NEW u, u = Append(Front(s), Code(Last(s).msg, Tail(Last(s).rest)))
  PROVE  Frames(ops, f, u) /\ u # <<>> /\ Handles(u) = Handles(s)
<1>1. PICK l, x : l = Last(s) /\ x = Code(l.msg, Tail(l.rest))
  OBVIOUS
<1>2. IsSequence(s) /\ u = Append(Front(s), x)
  BY <1>1 DEF Frames
<1>3. IsSequence(u)
  BY ONLY <1>2, s # <<>>, TopReplaced
<1>4. Len(s) \in Nat \ {0} /\ Len(u) = Len(s)
  BY ONLY <1>2, s # <<>>, TopReplaced
<1>5. \A i \in 1..Len(s) : u[i] = IF i = Len(s) THEN x ELSE s[i]
  BY ONLY <1>2, s # <<>>, TopReplaced
<1>6. l = s[Len(s)] /\ Len(s) \in 1..Len(s)
  BY <1>1, <1>4 DEF Last
<1>7. l.at = "code" /\ l.rest \in Seq(ops) /\ l.rest # <<>>
  BY <1>1, <1>6 DEF Frames
<1>8. x.at = "code" /\ x.msg = l.msg /\ x.rest \in Seq(ops)
  BY <1>1, <1>7, HeadTailProperties DEF Code
<1>9. \A i \in 1..Len(s) : u[i].at = s[i].at /\ (s[i].at # "code" => u[i] = s[i]) /\ (s[i].at = "code" => u[i].msg = s[i].msg /\ (s[i].rest \in Seq(ops) => u[i].rest \in Seq(ops)))
  BY <1>5, <1>6, <1>7, <1>8
<1>10. Frames(ops, f, u)
  <2>1. 1 \in 1..Len(s)
    BY <1>4
  <2>2. QED
    BY <1>3, <1>4, <1>9, <2>1 DEF Frames
<1>11. Handles(u) = Handles(s)
  BY <1>4, <1>9, SMTT(30) DEF Handles
<1>12. u # <<>>
  BY <1>3, <1>4, EmptySeq DEF IsSequence
<1>13. QED
  BY <1>10, <1>11, <1>12

\* A drain, a wait for a task, or the handler of a request is begun.
LEMMA FramesPush ==
  ASSUME NEW ops, NEW f \in Flows, NEW s, Frames(ops, f, s), s # <<>>, NEW x,
         \/ x.at \in {"drain", "wait"}
         \/ x.at = "code" /\ x.msg = 0 /\ x.rest \in Seq(ops),
         NEW u, u = Append(s, x)
  PROVE  Frames(ops, f, u) /\ u # <<>> /\ Handles(u) = Handles(s)
<1>1. IsSequence(s)
  BY DEF Frames
<1>2. IsSequence(u)
  BY ONLY <1>1, u = Append(s, x), AppendOne
<1>3. Len(u) = Len(s) + 1
  BY ONLY <1>1, u = Append(s, x), AppendOne
<1>4. u[Len(s) + 1] = x
  BY ONLY <1>1, u = Append(s, x), AppendOne
<1>5. \A i \in 1..Len(s) : u[i] = s[i]
  BY ONLY <1>1, u = Append(s, x), AppendOne
<1>6. Len(s) \in Nat \ {0}
  BY <1>1, EmptySeq DEF IsSequence
<1>7. Frames(ops, f, u)
  <2>1. ASSUME NEW i \in 1..Len(u)
        PROVE  /\ u[i].at \in {"code", "drain", "wait", "final"}
               /\ u[i].at = "final" => f = Script /\ i = 1 /\ u[i].next \in Nat \ {0}
               /\ u[i].at \in {"drain", "wait"} => i # 1
               /\ u[i].at = "code" =>
                    /\ u[i].rest \in Seq(ops)
                    /\ f # Script => u[i].msg = IF i = 1 THEN f ELSE 0
                    /\ f = Script /\ u[i].msg # 0 => i = 2 /\ u[1].at = "final"
    <3>1. CASE i = Len(s) + 1
      BY <1>4, <1>6, <3>1
    <3>2. CASE i # Len(s) + 1
      <4>1. i \in 1..Len(s) /\ u[i] = s[i] /\ u[1] = s[1]
        BY <1>3, <1>5, <1>6, <3>2
      <4>2. QED
        BY <4>1 DEF Frames
    <3>3. QED
      BY <3>1, <3>2
  <2>2. QED
    BY <1>2, <2>1 DEF Frames
<1>8. Handles(u) = Handles(s)
  <2>1. ASSUME NEW m, m # 0, NEW i \in 1..Len(u), u[i].at = "code", m = u[i].msg
        PROVE  m \in Handles(s)
    <3>1. i # Len(s) + 1
      BY <1>4, <2>1
    <3>2. i \in 1..Len(s) /\ u[i] = s[i]
      BY <1>3, <1>5, <1>6, <3>1
    <3>3. QED
      BY <2>1, <3>2 DEF Handles
  <2>2. ASSUME NEW m, m # 0, NEW i \in 1..Len(s), s[i].at = "code", m = s[i].msg
        PROVE  m \in Handles(u)
    <3>1. i \in 1..Len(u) /\ u[i] = s[i]
      BY <1>3, <1>5, <1>6
    <3>2. QED
      BY <2>2, <3>1 DEF Handles
  <2>3. Handles(u) \subseteq Handles(s)
    BY <2>1 DEF Handles
  <2>4. Handles(s) \subseteq Handles(u)
    BY <2>2 DEF Handles
  <2>5. QED
    BY <2>3, <2>4
<1>9. u # <<>>
  BY <1>2, <1>3, <1>6, EmptySeq DEF IsSequence
<1>10. QED
  BY <1>7, <1>8, <1>9

\* What the flow was in the middle of has ended.
LEMMA FramesPop ==
  ASSUME NEW ops, NEW f \in Flows, NEW s, Frames(ops, f, s), Len(s) > 1, NEW u, u = Front(s)
  PROVE  /\ Frames(ops, f, u) /\ u # <<>>
         /\ Handles(u) = Handles(s) \ (IF Last(s).at = "code" THEN {Last(s).msg} ELSE {})
<1>1. IsSequence(s)
  BY DEF Frames
<1>2. Len(s) \in Nat
  BY <1>1, LenProperties DEF IsSequence
<1>3. PICK n : n = Len(s)
  OBVIOUS
<1>4. n \in Nat /\ n > 1 /\ s # <<>>
  BY <1>2, <1>3, EmptySeq
<1>5. /\ u \in Seq(ToSet(s)) /\ Len(u) = n - 1 /\ Last(s) = s[n]
      /\ \A i \in 1..(n - 1) : u[i] = s[i]
  BY <1>1, <1>3, <1>4, FrontProperties DEF IsSequence
<1>6. IsSequence(u)
  BY <1>5, OwnSet
<1>7. \A i \in 1..Len(u) : i \in 1..n /\ i # n /\ u[i] = s[i]
  BY <1>4, <1>5
<1>8. 1 \in 1..Len(u) /\ u[1] = s[1]
  BY <1>4, <1>5
<1>9. Frames(ops, f, u)
  BY <1>3, <1>6, <1>7, <1>8 DEF Frames
<1>10. u # <<>>
  BY <1>4, <1>5, EmptySeq
<1>11. \A i \in 1..n : i # n /\ s[i].at = "code" /\ s[n].at = "code" /\ s[i].msg # 0 => s[i].msg # s[n].msg
  <2>1. ASSUME NEW i \in 1..n, i # n, s[i].at = "code", s[n].at = "code", s[i].msg # 0 PROVE s[i].msg # s[n].msg
    <3>1. n \in 1..n
      BY <1>4
    <3>2. CASE f = Script
      BY <1>3, <2>1, <3>1, <3>2 DEF Frames
    <3>3. CASE f # Script
      BY <1>3, <1>4, <2>1, <3>1, <3>3 DEF Frames
    <3>4. QED
      BY <3>2, <3>3
  <2>2. QED
    BY <2>1
<1>12. \A i \in 1..n : i # n => i \in 1..Len(u) /\ u[i] = s[i]
  BY <1>4, <1>5
<1>13. Handles(u) = Handles(s) \ (IF s[n].at = "code" THEN {s[n].msg} ELSE {})
  <2>1. ASSUME NEW m \in Handles(u) PROVE m \in Handles(s) \ (IF s[n].at = "code" THEN {s[n].msg} ELSE {})
    <3>1. PICK i \in 1..Len(u) : u[i].at = "code" /\ m = u[i].msg /\ m # 0
      BY DEF Handles
    <3>2. i \in 1..n /\ i # n /\ s[i].at = "code" /\ m = s[i].msg
      BY <1>7, <3>1
    <3>3. m \in Handles(s)
      BY <1>3, <3>1, <3>2 DEF Handles
    <3>4. QED
      BY <1>11, <3>1, <3>2, <3>3
  <2>2. ASSUME NEW m \in Handles(s), m \notin (IF s[n].at = "code" THEN {s[n].msg} ELSE {}) PROVE m \in Handles(u)
    <3>1. PICK i \in 1..n : s[i].at = "code" /\ m = s[i].msg /\ m # 0
      BY <1>3 DEF Handles
    <3>2. i # n
      BY <2>2, <3>1
    <3>3. QED
      BY <1>12, <3>1, <3>2 DEF Handles
  <2>3. QED
    BY <2>1, <2>2
<1>14. QED
  BY <1>5, <1>9, <1>10, <1>13

\* A coroutine that has not ended handles its own message, and no other.
LEMMA CoroutineHandles ==
  ASSUME NEW ops, NEW f \in Ids, NEW s, Frames(ops, f, s), s # <<>>
  PROVE  Handles(s) = {f} /\ s[1].at = "code" /\ s[1].msg = f /\ Len(s) \in Nat \ {0}
<1>1. Len(s) \in Nat \ {0}
  BY EmptySeq DEF Frames, IsSequence
<1>2. f # Script /\ f # 0 /\ 1 \in 1..Len(s)
  BY <1>1, ActorAssumption DEF Ids, Script
<1>3. s[1].at = "code"
  BY <1>2 DEF Frames
<1>4. s[1].msg = f
  BY <1>2, <1>3 DEF Frames
<1>5. \A i \in 1..Len(s) : s[i].at = "code" => s[i].msg \in {0, f}
  BY <1>2 DEF Frames
<1>6. QED
  BY <1>1, <1>2, <1>3, <1>4, <1>5 DEF Handles

\* The same flows are under way, and the script handles the same messages.
Kept(ops, st, st2) ==
  /\ Stacks(ops, st2) /\ AliveIn(st2) = AliveIn(st)
  /\ Handles(st2[Script]) = Handles(st[Script])
  /\ st[Script] # <<>> => st2[Script] # <<>>

\* One flow that is under way gets other frames.
LEMMA FramesSet ==
  ASSUME NEW ops, NEW st, Stacks(ops, st), NEW f \in Flows, st[f] # <<>>,
         NEW u, Frames(ops, f, u), u # <<>>, Handles(u) = Handles(st[f]),
         NEW st2, st2 = [st EXCEPT ![f] = u]
  PROVE  Kept(ops, st, st2)
<1>1. DOMAIN st = Flows /\ Script \in Flows /\ Ids \subseteq Flows
  BY DEF Stacks, Flows
<1>2. \A g \in Flows : st2[g] = IF g = f THEN u ELSE st[g]
  BY <1>1
<1>3. Stacks(ops, st2)
  BY <1>1, <1>2 DEF Stacks
<1>4. AliveIn(st2) = AliveIn(st)
  BY <1>1, <1>2 DEF AliveIn
<1>5. QED
  BY <1>1, <1>2, <1>3, <1>4 DEF Kept

\* The flow that runs, in the state ch, is under way.
LEMMA RunningIsPlaced ==
  ASSUME NEW al, NEW ch, NEW rd, NEW pk, NEW tm, NEW el, Placed(al, ch, rd, pk, tm, el),
         NEW f, f = Last(ch), f # Script
  PROVE  /\ f \in al
         /\ Placed(al \ {f}, Front(ch), rd, pk, tm, el)
<1>1. ch \in Seq(ToSet(ch)) /\ ch # <<>> /\ IsInjective(ch) /\ ch[1] = Script
  BY DEF Placed, IsSequence
<1>2. ToSet(ch) = ToSet(Front(ch)) \cup {f} /\ IsInjective(Front(ch)) /\ f \notin ToSet(Front(ch))
  BY <1>1, FrontSet
<1>3. /\ Front(ch) \in Seq(ToSet(ch)) /\ Len(Front(ch)) = Len(ch) - 1
      /\ \A i \in 1..(Len(ch) - 1) : Front(ch)[i] = ch[i]
      /\ Len(ch) \in Nat \ {0} /\ f = ch[Len(ch)]
  BY <1>1, FrontProperties
<1>4. Len(ch) # 1
  BY <1>1, <1>3
<1>5. 1 \in 1..(Len(ch) - 1) /\ Front(ch) # <<>>
  <2>1. PICK n : n = Len(ch)
    OBVIOUS
  <2>2. n \in Nat /\ n > 1 /\ Len(Front(ch)) = n - 1
    BY <1>3, <1>4, <2>1
  <2>3. QED
    BY <1>3, <2>1, <2>2, EmptySeq
<1>6. IsSequence(Front(ch)) /\ Front(ch)[1] = Script
  BY <1>1, <1>3, <1>5, OwnSet
<1>7. f \in al
  BY <1>2 DEF Placed
<1>8. /\ f \notin ToSet(rd) \cup ToSet(pk) \cup tm
      /\ ToSet(Front(ch)) \cap (ToSet(rd) \cup ToSet(pk) \cup tm) = {}
      /\ ToSet(rd) \cup ToSet(pk) \cup tm \cup ToSet(Front(ch)) = (al \ {f}) \cup {Script}
  BY <1>2 DEF Placed
<1>9. QED
  BY <1>2, <1>5, <1>6, <1>7, <1>8 DEF Placed

\* A flow that is at something is under way.
LEMMA RunningFlow ==
  ASSUME ActorInv, NEW f \in Flows, status = "run", f = Running
  PROVE  /\ stack[f] # <<>> /\ Frames(Operations(prog), f, stack[f])
         /\ Len(stack[f]) \in Nat \ {0} /\ Top(f) = stack[f][Len(stack[f])]
         /\ f # Script => f \in AliveIn(stack)
<1>1. Frames(Operations(prog), f, stack[f])
  BY DEF ActorInv, Stacks
<1>2. f # Script => f \in AliveIn(stack)
  <2>1. Placed(AliveIn(stack), chain, ready, parked, timers, elapsed)
    BY DEF ActorInv
  <2>2. f = Last(chain)
    BY DEF Running
  <2>3. QED
    BY <2>1, <2>2, RunningIsPlaced
<1>3. stack[f] # <<>>
  <2>1. CASE f = Script
    BY <2>1 DEF ActorInv
  <2>2. CASE f # Script
    BY <1>2, <2>2 DEF AliveIn
  <2>3. QED
    BY <2>1, <2>2
<1>4. Len(stack[f]) \in Nat \ {0}
  BY <1>1, <1>3, EmptySeq DEF Frames, IsSequence
<1>5. QED
  BY <1>1, <1>2, <1>3, <1>4 DEF Top, Last

\* A coroutine ends: its message is done with.
LEMMA CoroutineEnds ==
  ASSUME NEW ops, NEW st, Stacks(ops, st), NEW f \in Ids, st[f] # <<>>,
         NEW st2, st2 = [st EXCEPT ![f] = <<>>]
  PROVE  /\ Stacks(ops, st2) /\ AliveIn(st2) = AliveIn(st) \ {f} /\ f \in AliveIn(st)
         /\ st2[Script] = st[Script]
<1>1. DOMAIN st = Flows /\ Script \in Flows /\ Ids \subseteq Flows /\ f # Script
  BY ActorAssumption DEF Stacks, Flows, Ids, Script
<1>2. \A g \in Flows : st2[g] = IF g = f THEN <<>> ELSE st[g]
  BY <1>1
<1>3. Frames(ops, f, <<>>)
  <2>1. IsSequence(<<>>)
    BY OwnSet, EmptySeq
  <2>2. Len(<<>>) = 0
    OBVIOUS
  <2>3. QED
    BY <2>1, <2>2 DEF Frames
<1>4. Stacks(ops, st2)
  BY <1>1, <1>2, <1>3 DEF Stacks
<1>5. QED
  BY <1>1, <1>2, <1>4 DEF AliveIn

\* The script goes over to what is not the handler of a message.
LEMMA ScriptCut ==
  ASSUME NEW ops, NEW st, Stacks(ops, st), NEW u, u = <<>> \/ \E i \in Nat \ {0} : u = <<Final(i)>>,
         NEW st2, st2 = [st EXCEPT ![Script] = u]
  PROVE  Stacks(ops, st2) /\ AliveIn(st2) = AliveIn(st) /\ Handles(st2[Script]) = {}
<1>1. DOMAIN st = Flows /\ Script \in Flows /\ Ids \subseteq Flows /\ Script \notin Ids
  BY ActorAssumption DEF Stacks, Flows, Ids, Script
<1>2. \A g \in Flows : st2[g] = IF g = Script THEN u ELSE st[g]
  BY <1>1
<1>3. Frames(ops, Script, u) /\ Handles(u) = {}
  <2>1. CASE u = <<>>
    <3>1. IsSequence(u) /\ Len(u) = 0
      BY <2>1, OwnSet, EmptySeq
    <3>2. QED
      BY <3>1 DEF Frames, Handles
  <2>2. ASSUME NEW i \in Nat \ {0}, u = <<Final(i)>> PROVE Frames(ops, Script, u) /\ Handles(u) = {}
    <3>1. PICK x : x = Final(i)
      OBVIOUS
    <3>2. x.at = "final" /\ x.next \in Nat \ {0} /\ u = <<x>>
      BY <2>2, <3>1 DEF Final
    <3>3. u \in Seq({x}) /\ Len(u) = 1 /\ u[1] = x
      BY <3>2
    <3>4. IsSequence(u)
      BY <3>3, OwnSet
    <3>5. \A k \in 1..Len(u) : k = 1 /\ u[k].at = "final" /\ u[k].next \in Nat \ {0}
      BY <3>2, <3>3
    <3>6. QED
      BY <3>4, <3>5 DEF Frames, Handles
  <2>3. QED
    BY <2>1, <2>2
<1>4. Stacks(ops, st2)
  BY <1>1, <1>2, <1>3 DEF Stacks
<1>5. QED
  BY <1>1, <1>2, <1>3, <1>4 DEF AliveIn
-----------------------------------------------------------------------------
(* What the actions have in common.                                         *)

\* An error ends all that the flow is in the middle of, and no more.
LEMMA UnwindKeeps ==
  ASSUME NEW ops, NEW s, Stacks(ops, s), NEW f \in Flows, f = Running, s[f] # <<>>, s[Script] # <<>>,
         NEW rd, NEW pk, NEW tm, NEW el, Placed(AliveIn(s), chain, rd, pk, tm, el),
         NEW ml, NEW sk, NEW n, Accounts(ml, AliveIn(s), Handles(s[Script]), ended, sk, n),
         yielder = Null \/ yielder \in AliveIn(s),
         Unwind(f, s)
  PROVE  /\ Stacks(ops, stack')
         /\ status' = "run" => stack'[Script] # <<>>
         /\ Placed(AliveIn(stack'), chain', rd, pk, tm, el)
         /\ Accounts(ml, AliveIn(stack'), Handles(stack'[Script]), ended', sk, n)
         /\ yielder' = Null \/ yielder' \in AliveIn(stack')
<1>1. ended' = ended \cup Handles(s[f])
  <2>1. Frames(ops, f, s[f])
    BY DEF Stacks
  <2>2. DOMAIN s[f] = 1..Len(s[f])
    BY <2>1, LenProperties DEF Frames, IsSequence
  <2>3. QED
    BY <2>2 DEF Unwind, Handles
<1>2. CASE f # Script
  <2>1. /\ stack' = [s EXCEPT ![f] = <<>>]
        /\ chain' = Front(chain)
        /\ yielder' = Null
        /\ status' = status
    BY <1>2 DEF Unwind
    <2>2. f \in Ids
    BY <1>2 DEF Flows
  <2>3. Stacks(ops, stack') /\ AliveIn(stack') = AliveIn(s) \ {f} /\ f \in AliveIn(s)
        /\ stack'[Script] = s[Script]
    <3>1. \A t : t = [s EXCEPT ![f] = <<>>] =>
            /\ Stacks(ops, t) /\ AliveIn(t) = AliveIn(s) \ {f} /\ f \in AliveIn(s)
            /\ t[Script] = s[Script]
      BY <2>2, CoroutineEnds, ZenonT(60)
    <3>2. QED
      BY <2>1, <3>1
  <2>4. Handles(s[f]) = {f}
    <3>1. Frames(ops, f, s[f])
      BY DEF Stacks
    <3>2. QED
      BY <2>2, <3>1, CoroutineHandles
  <2>5. Placed(AliveIn(s) \ {f}, Front(chain), rd, pk, tm, el)
    BY <1>2, RunningIsPlaced DEF Running
  <2>6. Accounts(ml, AliveIn(s) \ {f}, Handles(s[Script]), ended \cup {f}, sk, n)
    BY <2>3 DEF Accounts
  <2>7. QED
    BY <1>1, <2>1, <2>3, <2>4, <2>5, <2>6
<1>3. CASE f = Script
  <2>1. chain' = chain /\ yielder' = yielder
    BY <1>3 DEF Unwind
  <2>2. \/ stack' = [s EXCEPT ![Script] = <<Final(1)>>] /\ status' = status
        \/ stack' = [s EXCEPT ![Script] = <<>>] /\ status' = "error"
    BY <1>3 DEF Unwind
  <2>3. Stacks(ops, stack') /\ AliveIn(stack') = AliveIn(s) /\ Handles(stack'[Script]) = {}
    <3>1. PICK u : stack' = [s EXCEPT ![Script] = u] /\ (u = <<>> \/ \E i \in Nat \ {0} : u = <<Final(i)>>)
      <4>1. 1 \in Nat \ {0}
        OBVIOUS
      <4>2. QED
        BY <2>2, <4>1
    <3>2. QED
      BY <3>1, ScriptCut
  <2>4. status' = "run" => stack'[Script] # <<>>
    <3>1. CASE stack' = [s EXCEPT ![Script] = <<Final(1)>>]
      <4>1. Script \in DOMAIN s
        BY DEF Stacks, Flows
      <4>2. QED
        BY <3>1, <4>1
    <3>2. CASE status' = "error"
      BY <3>2
    <3>3. QED
      BY <2>2, <3>1, <3>2
  <2>5. Accounts(ml, AliveIn(s), {}, ended \cup Handles(s[Script]), sk, n)
    BY DEF Accounts
  <2>6. QED
    BY <1>1, <1>3, <2>1, <2>3, <2>4, <2>5
<1>4. QED
  BY <1>2, <1>3

\* What a drain takes out of the mailboxes: all that is in them, each once.
LEMMA QueuedFacts ==
  ASSUME Mailboxes(mailbox)
  PROVE  /\ IsSequence(Queued)
         /\ \A k \in 1..Len(Queued) : Queued[k].id \in Ids
         /\ \A j, k \in 1..Len(Queued) : Queued[j].id = Queued[k].id => j = k
         /\ \A i : i \in MailIn(mailbox) <=> \E k \in 1..Len(Queued) : Queued[k].id = i
<1>1. PICK n : n = Len(Actors)
  OBVIOUS
<1>2. /\ n \in Nat /\ DOMAIN Actors = 1..n /\ \A i \in 1..n : Actors[i] \in ToSet(Actors)
      /\ \A a : a \in ToSet(Actors) <=> \E i \in 1..n : a = Actors[i]
      /\ \A i, j \in 1..n : Actors[i] = Actors[j] => i = j
  BY <1>1, ActorAssumption, LenProperties, ElementOfSeq, ToSetDef, InjectiveDef
<1>3. PICK S : \A a \in ToSet(Actors) : \A x \in ToSet(mailbox[a]) : x \in S
  <2>1. \A a \in ToSet(Actors) : \A x \in ToSet(mailbox[a]) : x \in UNION {ToSet(mailbox[a2]) : a2 \in ToSet(Actors)}
    BY Zenon
  <2>2. QED
    BY <2>1
<1>4. \A a \in ToSet(Actors) : mailbox[a] \in Seq(S)
  <2>1. ASSUME NEW a \in ToSet(Actors) PROVE mailbox[a] \in Seq(S)
    <3>1. mailbox[a] \in Seq(ToSet(mailbox[a]))
      BY <2>1 DEF Mailboxes, IsSequence
    <3>2. ToSet(mailbox[a]) \subseteq S
      BY <1>3, <2>1
    <3>3. QED
      BY ONLY <3>1, <3>2, SeqMonotonic
  <2>2. QED
    BY <2>1
<1>5. PICK ss : ss = [i \in 1..n |-> mailbox[Actors[i]]]
  OBVIOUS
<1>6. \A i \in 1..n : ss[i] = mailbox[Actors[i]] /\ ss[i] \in Seq(S)
  BY <1>2, <1>4, <1>5
<1>7. ss \in Seq(Seq(S)) /\ Len(ss) = n
  <2> DEFINE e(i) == mailbox[Actors[i]]
  <2>1. \A i \in 1..n : e(i) \in Seq(S)
    BY <1>2, <1>4
  <2>2. ss = [i \in 1..n |-> e(i)]
    BY <1>5
  <2> HIDE DEF e
  <2>3. ss \in Seq(Seq(S))
    BY <1>2, <2>1, <2>2, IsASeq
  <2>4. QED
    BY <1>2, <2>2, <2>3, LenProperties
<1>8. PICK q : q = Queued
  OBVIOUS
<1>9. q = FlattenSeq(ss)
  BY <1>2, <1>5, <1>8 DEF Queued
<1>10. q \in Seq(S)
  BY <1>7, <1>9, FlattenFacts
<1>11. \A x : x \in ToSet(q) <=> \E i \in 1..n : x \in ToSet(ss[i])
  BY <1>7, <1>9, FlattenFacts
<1>12. \A a \in ToSet(Actors) : \A x : x \in ToSet(mailbox[a]) <=> \E k \in 1..Len(mailbox[a]) : x = mailbox[a][k]
  <2>1. ASSUME NEW a \in ToSet(Actors) PROVE ToSet(mailbox[a]) = {mailbox[a][k] : k \in 1..Len(mailbox[a])}
    BY <1>4, <2>1, ToSetDef
  <2>2. QED
    BY <2>1
<1>13. \A x : x \in ToSet(q) <=> \E a \in ToSet(Actors) : \E k \in 1..Len(mailbox[a]) : x = mailbox[a][k]
  <2>1. ASSUME NEW x \in ToSet(q) PROVE \E a \in ToSet(Actors) : \E k \in 1..Len(mailbox[a]) : x = mailbox[a][k]
    <3>1. PICK i \in 1..n : x \in ToSet(ss[i])
      BY <1>11, <2>1
    <3>2. Actors[i] \in ToSet(Actors) /\ x \in ToSet(mailbox[Actors[i]])
      BY <1>2, <1>6, <3>1
    <3>3. QED
      BY <1>12, <3>2, SMTT(60)
  <2>2. ASSUME NEW a \in ToSet(Actors), NEW k \in 1..Len(mailbox[a]) PROVE mailbox[a][k] \in ToSet(q)
    <3>1. PICK i \in 1..n : a = Actors[i]
      BY <1>2
    <3>2. mailbox[a][k] \in ToSet(ss[i])
      BY <1>6, <1>12, <3>1
    <3>3. QED
      BY <1>11, <3>2
  <2>3. QED
    BY <2>1, <2>2
<1>14. \A x : x \in ToSet(q) <=> \E k \in 1..Len(q) : x = q[k]
  BY <1>10, ToSetDef
<1>15. \A x \in ToSet(q) : x.id \in Ids
  BY <1>13 DEF Mailboxes
<1>16. \A x, y \in ToSet(q) : x.id = y.id => x = y
  BY <1>13 DEF Mailboxes
<1>17. IsInjective(q)
  <2>1. ASSUME NEW i \in 1..n PROVE IsInjective(ss[i])
    <3>1. PICK a \in ToSet(Actors) : a = Actors[i] /\ ss[i] = mailbox[a] /\ mailbox[a] \in Seq(S)
      BY <1>2, <1>6
    <3>2. \A j, k \in 1..Len(mailbox[a]) : mailbox[a][j] = mailbox[a][k] => j = k
      BY DEF Mailboxes
    <3>3. IsInjective(mailbox[a])
      BY ONLY <3>1, <3>2, InjectiveDef
    <3>4. QED
      BY <3>1, <3>3
  <2>2. ASSUME NEW i \in 1..n, NEW j \in 1..n, i # j, NEW x \in ToSet(ss[i]), x \in ToSet(ss[j]) PROVE FALSE
    <3>1. PICK a, b : a = Actors[i] /\ b = Actors[j] /\ a # b /\ a \in ToSet(Actors) /\ b \in ToSet(Actors)
      BY <1>2, <2>2
    <3>2. x \in ToSet(mailbox[a]) /\ x \in ToSet(mailbox[b])
      BY <1>6, <2>2, <3>1
    <3>3. QED
      BY <1>12, <3>1, <3>2 DEF Mailboxes
  <2>3. \A i, j \in 1..n : i # j => ToSet(ss[i]) \cap ToSet(ss[j]) = {}
    BY <2>2
  <2>4. \A i \in 1..n : IsInjective(ss[i])
    BY <2>1
  <2>5. QED
    BY <1>7, <1>9, <2>3, <2>4, FlattenFacts
<1>18. \A j, k \in 1..Len(q) : q[j] = q[k] => j = k
  BY <1>10, <1>17, InjectiveDef
<1>19. IsSequence(q)
  BY <1>10, OwnSet
<1>20. \A j, k \in 1..Len(q) : q[j].id = q[k].id => j = k
  BY <1>14, <1>16, <1>18
<1>21. \A i : i \in MailIn(mailbox) <=> \E k \in 1..Len(q) : q[k].id = i
  <2>1. ASSUME NEW i, i \in MailIn(mailbox) PROVE \E k \in 1..Len(q) : q[k].id = i
    BY <1>13, <1>14, <2>1, ZenonT(60) DEF MailIn
  <2>2. ASSUME NEW k \in 1..Len(q) PROVE q[k].id \in MailIn(mailbox)
    <3>1. PICK x : x = q[k]
      OBVIOUS
    <3>2. x \in ToSet(q) /\ x.id \in Ids
      BY <1>14, <1>15, <3>1
    <3>3. QED
      BY <1>13, <3>1, <3>2 DEF MailIn
  <2>3. QED
    BY <2>1, <2>2
<1>22. QED
  BY <1>8, <1>14, <1>15, <1>19, <1>20, <1>21

\* One frame, of a handler that has just been spawned.
LEMMA FramesNew ==
  ASSUME NEW ops, NEW i \in Ids, NEW b \in Seq(ops), NEW u, u = <<Code(i, b)>>
  PROVE  Frames(ops, i, u) /\ u # <<>>
<1>1. PICK x : x = Code(i, b)
  OBVIOUS
<1>2. x.at = "code" /\ x.msg = i /\ x.rest = b /\ u = <<x>>
  BY <1>1 DEF Code
<1>3. u \in Seq({x}) /\ Len(u) = 1 /\ u[1] = x /\ u # <<>>
  BY <1>2
<1>4. IsSequence(u)
  BY <1>3, OwnSet
<1>5. \A k \in 1..Len(u) : k = 1 /\ u[k] = x
  BY <1>3
<1>6. i # Script
  BY ActorAssumption DEF Ids, Script
<1>7. QED
  BY <1>2, <1>3, <1>4, <1>5, <1>6 DEF Frames

\* The messages a drain spawns coroutines for, and those it throws away.
New    == {i \in Ids : \E k \in Spawned : Queued[k].id = i}
Thrown == {Queued[k].id : k \in {k \in DOMAIN Queued : k \notin Reached \/ ~Handled(Queued[k])}}

\* Each message in a mailbox is either spawned or thrown away.
LEMMA NewOrThrown ==
  ASSUME Mailboxes(mailbox)
  PROVE  /\ DOMAIN Queued = 1..Len(Queued) /\ Spawned \subseteq 1..Len(Queued)
         /\ MailIn(mailbox) = New \cup Thrown /\ New \cap Thrown = {}
<1>1. PICK q : q = Queued
  OBVIOUS
<1>2. IsSequence(q)
  BY <1>1, QueuedFacts
<1>3. \A k \in 1..Len(q) : q[k].id \in Ids
  BY <1>1, QueuedFacts
<1>4. \A j, k \in 1..Len(q) : q[j].id = q[k].id => j = k
  BY <1>1, QueuedFacts
<1>5. \A i : i \in MailIn(mailbox) <=> \E k \in 1..Len(q) : q[k].id = i
  BY <1>1, QueuedFacts
<1>6. DOMAIN q = 1..Len(q)
  BY <1>2, LenProperties DEF IsSequence
<1>7. Spawned = {k \in 1..Len(q) : k \in Reached /\ Handled(q[k])}
  BY <1>1, <1>6 DEF Spawned, Reached
<1>8. \A i : i \in New <=> \E k \in 1..Len(q) : k \in Reached /\ Handled(q[k]) /\ q[k].id = i
  BY <1>1, <1>3, <1>7 DEF New
<1>9. \A i : i \in Thrown <=> \E k \in 1..Len(q) : (k \notin Reached \/ ~Handled(q[k])) /\ q[k].id = i
  BY <1>1, <1>6 DEF Thrown
<1>10. QED
  BY <1>1, <1>4, <1>5, <1>6, <1>7, <1>8, <1>9

\* The coroutines a drain spawns.
LEMMA SpawnFrames ==
  ASSUME ActorInv,
         NEW w, w = [i \in Flows |->
           IF \E k \in Spawned : Queued[k].id = i
           THEN <<Code(Queued[CHOOSE k \in Spawned : Queued[k].id = i].id,
                       prog.body[Queued[CHOOSE k \in Spawned : Queued[k].id = i].kind])>>
           ELSE stack[i]]
  PROVE  /\ Stacks(Operations(prog), w) /\ AliveIn(w) = AliveIn(stack) \cup New
         /\ \A f \in Flows \ New : w[f] = stack[f]
         /\ Script \notin New
<1>1. Ids \subseteq Flows /\ Script \in Flows /\ Script \notin Ids
  BY ActorAssumption DEF Ids, Flows, Script
<1>2. ASSUME NEW i \in Flows \ New PROVE w[i] = stack[i]
  <2>1. Mailboxes(mailbox)
    BY DEF ActorInv
  <2>2. ~ \E k \in Spawned : Queued[k].id = i
    BY <1>2, <2>1, NewOrThrown, QueuedFacts DEF New
  <2>3. QED
    BY <1>2, <2>2
<1>3. ASSUME NEW i \in New PROVE Frames(Operations(prog), i, w[i]) /\ w[i] # <<>>
  <2>1. PICK k : k = CHOOSE j \in Spawned : Queued[j].id = i
    OBVIOUS
  <2>2. k \in Spawned /\ Queued[k].id = i /\ i \in Ids
    BY <1>3, <2>1 DEF New
  <2>3. w[i] = <<Code(i, prog.body[Queued[k].kind])>>
    BY <1>1, <2>1, <2>2
  <2>4. Handled(Queued[k])
    BY <2>2 DEF Spawned
  <2>5. prog.body[Queued[k].kind] \in Seq(Operations(prog))
    BY <2>4, ProgramsAssumption DEF Handled, ActorInv
  <2>6. QED
    BY <2>2, <2>3, <2>5, FramesNew
<1>4. Stacks(Operations(prog), stack)
  BY DEF ActorInv
<1>5. Stacks(Operations(prog), w)
  BY <1>2, <1>3, <1>4 DEF Stacks
<1>6. AliveIn(w) = AliveIn(stack) \cup New
  BY <1>1, <1>2, <1>3 DEF AliveIn, New
<1>7. QED
  BY <1>1, <1>2, <1>5, <1>6 DEF New

\* Their places: behind those that are ready.
LEMMA SpawnPlaced ==
  ASSUME ActorInv, NEW r, r = ready \o Picked([k \in DOMAIN Queued |-> Queued[k].id], Spawned)
  PROVE  Placed(AliveIn(stack) \cup New, chain, r, parked, timers, elapsed)
<1>1. /\ Mailboxes(mailbox) /\ Placed(AliveIn(stack), chain, ready, parked, timers, elapsed)
      /\ AliveIn(stack) \cap MailIn(mailbox) = {} /\ Script \notin New /\ New \subseteq MailIn(mailbox)
  BY NewOrThrown, ActorAssumption DEF ActorInv, Accounts, Ids, Script, New
<1>2. PICK q : q = Queued
  OBVIOUS
<1>3. DOMAIN q = 1..Len(q) /\ Spawned \subseteq 1..Len(q)
  BY <1>1, <1>2, NewOrThrown
<1>4. IsSequence(q) /\ \A k \in 1..Len(q) : q[k].id \in Ids
  BY <1>1, <1>2, QueuedFacts
<1>5. \A j, k \in 1..Len(q) : q[j].id = q[k].id => j = k
  BY <1>1, <1>2, QueuedFacts
<1>6. PICK n : n = Len(q)
  OBVIOUS
<1>7. n \in Nat
  BY <1>4, <1>6, LenProperties DEF IsSequence
<1>8. PICK t : t = [k \in 1..n |-> q[k].id]
  OBVIOUS
<1>9. t \in Seq(Ids) /\ Len(t) = n /\ \A k \in 1..n : t[k] = q[k].id
  <2> DEFINE e(k) == q[k].id
  <2>1. \A k \in 1..n : e(k) \in Ids
    BY <1>4, <1>6
  <2>2. t = [k \in 1..n |-> e(k)]
    BY <1>8
  <2> HIDE DEF e
  <2>3. t \in Seq(Ids)
    BY <1>7, <2>1, <2>2, IsASeq
  <2>4. Len(t) = n
    BY <1>7, <2>2, <2>3, LenProperties
  <2>5. QED
    BY <1>8, <2>3, <2>4
<1>10. IsInjective(t)
  BY <1>5, <1>6, <1>9, InjectiveDef
<1>11. PICK p : p = Picked(t, Spawned)
  OBVIOUS
<1>12. p \in Seq(Ids) /\ IsInjective(p) /\ \A x : x \in ToSet(p) <=> \E i \in 1..n : i \in Spawned /\ x = t[i]
  BY <1>9, <1>10, <1>11, PickedFacts
<1>13. ToSet(p) = New
  <2>1. ASSUME NEW x \in ToSet(p) PROVE x \in New
    <3>1. PICK i \in 1..n : i \in Spawned /\ x = t[i]
      BY <1>12, <2>1
    <3>2. x = q[i].id /\ x \in Ids
      BY <1>4, <1>6, <1>9, <3>1
    <3>3. QED
      BY <1>2, <3>1, <3>2 DEF New
  <2>2. ASSUME NEW x \in New PROVE x \in ToSet(p)
    <3>1. PICK i \in Spawned : q[i].id = x
      BY <1>2, <2>2 DEF New
    <3>2. i \in 1..n /\ x = t[i]
      BY <1>3, <1>6, <1>9, <3>1
    <3>3. QED
      BY <1>12, <3>1, <3>2
  <2>3. QED
    BY <2>1, <2>2
<1>14. r = ready \o p
  BY <1>2, <1>3, <1>6, <1>8, <1>11
<1>15. ToSet(ready) \cap ToSet(p) = {} /\ IsInjective(ready)
  BY <1>1, <1>13 DEF Placed
<1>16. PICK S : S = ToSet(ready) \cup Ids
  OBVIOUS
<1>17. ready \in Seq(S)
  BY <1>1, <1>16, SeqMonotonic DEF Placed, IsSequence
<1>18. p \in Seq(S)
  BY <1>12, <1>16, SeqMonotonic
<1>19. r \in Seq(S) /\ ToSet(r) = ToSet(ready) \cup New /\ IsInjective(r)
  <2>1. r \in Seq(S)
    BY ONLY <1>14, <1>17, <1>18, ConcatSet
  <2>2. ToSet(r) = ToSet(ready) \cup ToSet(p)
    BY ONLY <1>14, <1>17, <1>18, ConcatSet
  <2>3. IsInjective(r)
    BY ONLY <1>12, <1>14, <1>15, <1>17, <1>18, ConcatSet
  <2>4. QED
    BY <1>13, <2>1, <2>2, <2>3
<1>20. IsSequence(r)
  BY <1>19, OwnSet
<1>21. New \cap (ToSet(ready) \cup ToSet(parked) \cup timers \cup ToSet(chain)) = {}
  BY <1>1 DEF Placed
<1>22. QED
  BY <1>1, <1>19, <1>20, <1>21 DEF Placed

\* A drain keeps the invariant, wherever it is begun.
LEMMA DrainKeeps ==
  ASSUME ActorInv, status = "run", NEW f \in Flows, f = Running,
         NEW s, Frames(Operations(prog), f, s), s # <<>>, Handles(s) = Handles(stack[f]),
         DrainMailboxesAsync(f, s)
  PROVE  ActorInv'
<1>0. PICK ops : ops = Operations(prog)
  OBVIOUS
<1>1. PICK w : w = [i \in Flows |->
           IF \E k \in Spawned : Queued[k].id = i
           THEN <<Code(Queued[CHOOSE k \in Spawned : Queued[k].id = i].id,
                       prog.body[Queued[CHOOSE k \in Spawned : Queued[k].id = i].kind])>>
           ELSE stack[i]]
  OBVIOUS
<1>2. /\ Stacks(ops, w) /\ AliveIn(w) = AliveIn(stack) \cup New
      /\ \A i \in Flows \ New : w[i] = stack[i]
      /\ Script \notin New
  BY <1>0, <1>1, SpawnFrames
<1>3. Mailboxes(mailbox) /\ MailIn(mailbox) = New \cup Thrown /\ New \cap Thrown = {}
  BY NewOrThrown DEF ActorInv
<1>4. Accounts(MailIn(mailbox), AliveIn(stack), Handles(stack[Script]), ended, skipped, Len(sent))
  BY DEF ActorInv
<1>5. stack[f] # <<>> /\ stack[Script] # <<>> /\ (f # Script => f \in AliveIn(stack))
  BY RunningFlow DEF ActorInv
<1>6. f \notin New /\ w[f] = stack[f] /\ w[Script] = stack[Script]
  BY <1>2, <1>3, <1>4, <1>5 DEF Accounts, Flows
<1>7. /\ mailbox' = [a \in DOMAIN mailbox |-> <<>>]
      /\ skipped' = skipped \cup Thrown
      /\ ready' = ready \o Picked([k \in DOMAIN Queued |-> Queued[k].id], Spawned)
      /\ prog' = prog /\ sent' = sent /\ parked' = parked /\ timers' = timers /\ elapsed' = elapsed
  BY DEF DrainMailboxesAsync, Thrown
<1>8. \/ /\ stack' = [w EXCEPT ![f] = Append(s, Drain(TicksPerYield, FALSE))]
         /\ chain' = chain /\ yielder' = yielder /\ ended' = ended /\ status' = status
      \/ Unwind(f, w)
  BY <1>1 DEF DrainMailboxesAsync
<1>9. Placed(AliveIn(w), chain, ready', parked, timers, elapsed)
  BY <1>2, <1>7, SpawnPlaced
<1>10. Accounts({}, AliveIn(w), Handles(w[Script]), ended, skipped', Len(sent))
  BY <1>2, <1>3, <1>4, <1>6, <1>7 DEF Accounts
<1>11. Mailboxes(mailbox') /\ MailIn(mailbox') = {}
  <2>1. DOMAIN mailbox' = ToSet(Actors) /\ \A a \in ToSet(Actors) : mailbox'[a] = <<>>
    BY <1>3, <1>7 DEF Mailboxes
  <2>2. IsSequence(<<>>) /\ Len(<<>>) = 0
    BY OwnSet, EmptySeq
  <2>3. QED
    BY <2>1, <2>2 DEF Mailboxes, MailIn
<1>12. yielder = Null \/ yielder \in AliveIn(w)
  BY <1>2 DEF ActorInv
<1>13. /\ Stacks(ops, stack')
       /\ status' = "run" => stack'[Script] # <<>>
       /\ Placed(AliveIn(stack'), chain', ready', parked, timers, elapsed)
       /\ Accounts({}, AliveIn(stack'), Handles(stack'[Script]), ended', skipped', Len(sent))
       /\ yielder' = Null \/ yielder' \in AliveIn(stack')
  <2>1. CASE /\ stack' = [w EXCEPT ![f] = Append(s, Drain(TicksPerYield, FALSE))]
             /\ chain' = chain /\ yielder' = yielder /\ ended' = ended /\ status' = status
    <3>1. PICK u, x : u = Append(s, x) /\ x = Drain(TicksPerYield, FALSE)
      OBVIOUS
    <3>2. x.at = "drain"
      BY <3>1 DEF Drain
    <3>3. Frames(ops, f, u) /\ u # <<>> /\ Handles(u) = Handles(s)
      <4>1. Frames(ops, f, s)
        BY <1>0
      <4>2. QED
        BY ONLY <4>1, <3>1, <3>2, s # <<>>, f \in Flows, FramesPush
    <3>4. Handles(u) = Handles(w[f]) /\ w[f] # <<>>
      BY <1>5, <1>6, <3>3
    <3>5. Kept(ops, w, stack')
      BY <1>2, <2>1, <3>1, <3>3, <3>4, FramesSet
    <3>6. /\ Stacks(ops, stack') /\ AliveIn(stack') = AliveIn(w)
          /\ Handles(stack'[Script]) = Handles(w[Script])
          /\ w[Script] # <<>> => stack'[Script] # <<>>
      BY <3>5 DEF Kept
    <3>7. QED
      BY <1>5, <1>6, <1>9, <1>10, <1>12, <2>1, <3>6
  <2>2. CASE Unwind(f, w)
    BY <1>2, <1>5, <1>6, <1>9, <1>10, <1>12, <2>2, UnwindKeeps
  <2>3. QED
    BY <1>8, <2>1, <2>2
<1>14. Operations(prog)' = ops
  BY <1>0, <1>7 DEF Operations
<1>15. QED
  BY <1>7, <1>11, <1>13, <1>14 DEF ActorInv

\* The invariant after a step that leaves each coroutine where it is or puts
\* it elsewhere, from the parts the step changes.
LEMMA Assemble ==
  ASSUME ActorInv, status = "run", prog' = prog,
         Kept(Operations(prog), stack, stack'),
         Placed(AliveIn(stack), chain', ready', parked', timers', elapsed'),
         Mailboxes(mailbox'), Len(sent') \in 0..MaxMsgs, IsSequence(sent'),
         Accounts(MailIn(mailbox'), AliveIn(stack), Handles(stack[Script]), ended', skipped', Len(sent')),
         yielder' = Null \/ yielder' \in AliveIn(stack)
  PROVE  ActorInv'
<1>1. PICK ops : ops = Operations(prog)
  OBVIOUS
<1>2. /\ Stacks(ops, stack') /\ AliveIn(stack') = AliveIn(stack)
      /\ Handles(stack'[Script]) = Handles(stack[Script])
      /\ stack[Script] # <<>> => stack'[Script] # <<>>
  BY <1>1 DEF Kept
<1>3. Operations(prog)' = ops
  BY <1>1 DEF Operations
<1>4. stack'[Script] # <<>> /\ prog' \in Programs
  BY <1>2 DEF ActorInv
<1>5. QED
  BY <1>2, <1>3, <1>4 DEF ActorInv

\* An error, with the coroutines where they are or in other queues.
LEMMA Unwound ==
  ASSUME ActorInv, status = "run", prog' = prog, NEW f \in Flows, f = Running, Unwind(f, stack),
         Placed(AliveIn(stack), chain, ready', parked', timers', elapsed'),
         mailbox' = mailbox, sent' = sent, skipped' = skipped
  PROVE  ActorInv'
<1>1. PICK ops : ops = Operations(prog)
  OBVIOUS
<1>2. Stacks(ops, stack) /\ stack[f] # <<>> /\ stack[Script] # <<>>
  BY <1>1, RunningFlow DEF ActorInv
<1>3. Accounts(MailIn(mailbox), AliveIn(stack), Handles(stack[Script]), ended, skipped, Len(sent))
  BY DEF ActorInv
<1>4. yielder = Null \/ yielder \in AliveIn(stack)
  BY DEF ActorInv
<1>5. /\ Stacks(ops, stack')
      /\ status' = "run" => stack'[Script] # <<>>
      /\ Placed(AliveIn(stack'), chain', ready', parked', timers', elapsed')
      /\ Accounts(MailIn(mailbox), AliveIn(stack'), Handles(stack'[Script]), ended', skipped, Len(sent))
      /\ yielder' = Null \/ yielder' \in AliveIn(stack')
  BY <1>2, <1>3, <1>4, UnwindKeeps
<1>6. Operations(prog)' = ops
  BY <1>1 DEF Operations
<1>7. QED
  BY <1>5, <1>6 DEF ActorInv

\* The frames of a flow that is at an operation, after it.
LEMMA SteppedFrames ==
  ASSUME ActorInv, NEW f \in Flows, NEW op, At(f, op)
  PROVE  /\ Frames(Operations(prog), f, Stepped(f)) /\ Stepped(f) # <<>>
         /\ Handles(Stepped(f)) = Handles(stack[f]) /\ stack[f] # <<>>
         /\ Head(Top(f).rest) \in Operations(prog)
<1>1. status = "run" /\ f = Running /\ Top(f).at = "code" /\ Top(f).rest # <<>>
  BY DEF At, Inside
<1>2. /\ stack[f] # <<>> /\ Frames(Operations(prog), f, stack[f])
      /\ Len(stack[f]) \in Nat \ {0} /\ Top(f) = stack[f][Len(stack[f])]
  BY <1>1, RunningFlow
<1>3. Last(stack[f]) = Top(f)
  BY DEF Top
<1>4. PICK ops, u : ops = Operations(prog) /\ u = Stepped(f)
  OBVIOUS
<1>5. u = Append(Front(stack[f]), Code(Last(stack[f]).msg, Tail(Last(stack[f]).rest)))
  BY <1>3, <1>4 DEF Stepped
<1>6. Frames(ops, f, u) /\ u # <<>> /\ Handles(u) = Handles(stack[f])
  <2>1. Frames(ops, f, stack[f])
    BY <1>2, <1>4
  <2>2. stack[f] # <<>> /\ Last(stack[f]).at = "code" /\ Last(stack[f]).rest # <<>>
    BY <1>1, <1>2, <1>3
  <2>3. Frames(ops, f, u)
    BY ONLY <1>5, <2>1, <2>2, f \in Flows, FramesStep
  <2>4. u # <<>>
    BY ONLY <1>5, <2>1, <2>2, f \in Flows, FramesStep
  <2>5. Handles(u) = Handles(stack[f])
    BY ONLY <1>5, <2>1, <2>2, f \in Flows, FramesStep
  <2>6. QED
    BY <2>3, <2>4, <2>5
<1>7. Top(f).rest \in Seq(ops)
  <2>1. Len(stack[f]) \in 1..Len(stack[f])
    BY <1>2
  <2>2. QED
    BY <1>1, <1>2, <1>4, <2>1 DEF Frames
<1>8. Head(Top(f).rest) \in ops
  BY <1>1, <1>7, HeadTailProperties
<1>9. QED
  BY <1>2, <1>4, <1>6, <1>8

\* A step of a flow that only changes its frames.
LEMMA OnlyFrames ==
  ASSUME ActorInv, status = "run", NEW f \in Flows, f = Running,
         NEW u, Frames(Operations(prog), f, u), u # <<>>, Handles(u) = Handles(stack[f]),
         stack' = [stack EXCEPT ![f] = u],
         UNCHANGED <<prog, mailbox, sent, chain, ready, parked, timers, elapsed, yielder, ended, skipped>>
  PROVE  ActorInv'
<1>1. stack[f] # <<>>
  BY RunningFlow
<1>2. Stacks(Operations(prog), stack)
  BY DEF ActorInv
<1>3. Kept(Operations(prog), stack, stack')
  BY ONLY <1>1, <1>2, f \in Flows, Frames(Operations(prog), f, u), u # <<>>, Handles(u) = Handles(stack[f]),
          stack' = [stack EXCEPT ![f] = u], FramesSet
<1>4. QED
  BY <1>3, Assemble DEF ActorInv
-----------------------------------------------------------------------------
(* Each step keeps the invariant.                                           *)

\* Nothing it speaks of has changed.
LEMMA UnchangedKeeps ==
  ASSUME ActorInv, status' = "run" => status = "run",
         UNCHANGED <<prog, mailbox, sent, stack, chain, ready, parked, timers, elapsed, yielder, ended, skipped>>
  PROVE  ActorInv'
<1>1. Operations(prog)' = Operations(prog)
  BY DEF Operations
<1>2. QED
  BY <1>1 DEF ActorInv

\* A message goes to the end of one mailbox; its number is new.
LEMMA MailArrives ==
  ASSUME Mailboxes(mailbox), NEW a \in ToSet(Actors), NEW m, m.id \in Ids, m.id \notin MailIn(mailbox),
         NEW mb, mb = [mailbox EXCEPT ![a] = Append(mailbox[a], m)]
  PROVE  Mailboxes(mb) /\ MailIn(mb) = MailIn(mailbox) \cup {m.id}
<1>1. PICK u, s : u = Append(s, m) /\ s = mailbox[a]
  OBVIOUS
<1>2. DOMAIN mailbox = ToSet(Actors) /\ IsSequence(s)
  BY <1>1 DEF Mailboxes
<1>3. DOMAIN mb = ToSet(Actors) /\ \A b \in ToSet(Actors) : mb[b] = IF b = a THEN u ELSE mailbox[b]
  BY <1>1, <1>2
<1>4. IsSequence(u)
  BY <1>1, <1>2, AppendOne
<1>5. PICK n \in Nat : n = Len(s)
  BY <1>2, LenProperties DEF IsSequence
<1>6. Len(u) = n + 1 /\ u[n + 1] = m
  BY <1>1, <1>2, <1>5, AppendOne
<1>7. \A i \in 1..n : u[i] = s[i]
  BY <1>1, <1>2, <1>5, AppendOne
<1>8. 1..Len(u) = 1..n \cup {n + 1} /\ n + 1 \notin 1..n
  BY <1>6
<1>9. \A b \in ToSet(Actors) : \A i \in 1..Len(mailbox[b]) : mailbox[b][i].id # m.id
  BY DEF MailIn, Mailboxes
<1>10. \A b \in ToSet(Actors) : \A i \in 1..Len(mb[b]) :
         \/ b = a /\ i = n + 1 /\ mb[b][i] = m
         \/ i \in 1..Len(mailbox[b]) /\ mb[b][i] = mailbox[b][i]
  BY <1>1, <1>3, <1>5, <1>6, <1>7, <1>8
<1>11. Mailboxes(mb)
  <2>1. \A b \in ToSet(Actors) : IsSequence(mb[b]) /\ \A i \in 1..Len(mb[b]) : mb[b][i].id \in Ids
    BY <1>3, <1>4, <1>10 DEF Mailboxes
  <2>2. ASSUME NEW b \in ToSet(Actors), NEW c \in ToSet(Actors), NEW i \in 1..Len(mb[b]), NEW j \in 1..Len(mb[c]),
               mb[b][i].id = mb[c][j].id
        PROVE  b = c /\ i = j
    BY <1>9, <1>10, <2>2 DEF Mailboxes
  <2>3. QED
    BY <1>3, <2>1, <2>2 DEF Mailboxes
<1>12. MailIn(mb) \subseteq MailIn(mailbox) \cup {m.id}
  BY <1>10 DEF MailIn
<1>13. MailIn(mailbox) \cup {m.id} \subseteq MailIn(mb)
  <2>1. m.id \in MailIn(mb)
    BY <1>3, <1>6, <1>8 DEF MailIn
  <2>2. ASSUME NEW b \in ToSet(Actors), NEW i \in 1..Len(mailbox[b]) PROVE i \in 1..Len(mb[b]) /\ mb[b][i] = mailbox[b][i]
    BY <1>1, <1>3, <1>5, <1>7, <1>8
  <2>3. MailIn(mailbox) \subseteq MailIn(mb)
    BY <2>2 DEF MailIn
  <2>4. QED
    BY <2>1, <2>3
<1>14. QED
  BY <1>11, <1>12, <1>13

\* ActorSend puts one more message into a mailbox.
LEMMA SendKeeps ==
  ASSUME ActorInv, NEW f \in Flows, ActorSend(f)
  PROVE  ActorInv'
<1>1. At(f, "send") /\ status = "run" /\ f = Running
  BY DEF ActorSend, At, Inside
<1>2. /\ Frames(Operations(prog), f, Stepped(f)) /\ Stepped(f) # <<>>
      /\ Handles(Stepped(f)) = Handles(stack[f]) /\ stack[f] # <<>>
      /\ Head(Top(f).rest) \in Operations(prog)
  BY <1>1, SteppedFrames
<1>3. PICK a : a = Arg(f, 1)
  OBVIOUS
<1>4. a \in ToSet(Actors)
  <2>1. a = Head(Top(f).rest)[2] /\ Head(Top(f).rest)[1] = "send"
    BY <1>1, <1>3 DEF Arg, At
  <2>2. QED
    BY <1>2, <2>1, ProgramsAssumption DEF ActorInv
<1>5. PICK m, n : m = [id |-> n + 1, kind |-> Arg(f, 2)] /\ n = Len(sent)
  OBVIOUS
<1>6. n \in 0..MaxMsgs /\ n < MaxMsgs /\ m.id = n + 1 /\ IsSequence(sent)
  BY <1>5 DEF ActorInv, ActorSend
<1>7. Accounts(MailIn(mailbox), AliveIn(stack), Handles(stack[Script]), ended, skipped, n)
  BY <1>5 DEF ActorInv
<1>8. n \in Nat /\ n + 1 \in Ids /\ n + 1 \notin 1..n /\ 1..(n + 1) = 1..n \cup {n + 1} /\ n + 1 \in 0..MaxMsgs
  BY <1>6, ActorAssumption DEF Ids
<1>9. n + 1 \notin MailIn(mailbox)
  BY <1>7, <1>8 DEF Accounts
<1>10. mailbox' = [mailbox EXCEPT ![a] = Append(mailbox[a], m)]
  BY <1>3, <1>5 DEF ActorSend
<1>11. Mailboxes(mailbox') /\ MailIn(mailbox') = MailIn(mailbox) \cup {n + 1}
  <2>1. PICK mb : mb = [mailbox EXCEPT ![a] = Append(mailbox[a], m)]
    OBVIOUS
  <2>2. Mailboxes(mb) /\ MailIn(mb) = MailIn(mailbox) \cup {m.id}
    <3>1. Mailboxes(mailbox)
      BY DEF ActorInv
    <3>2. m.id \in Ids /\ m.id \notin MailIn(mailbox)
      BY <1>6, <1>8, <1>9
    <3>3. QED
      BY ONLY <1>4, <2>1, <3>1, <3>2, MailArrives
  <2>3. QED
    BY <1>6, <1>10, <2>1, <2>2
<1>12. sent' = Append(sent, a)
  BY <1>3 DEF ActorSend
<1>13. Len(sent') = n + 1 /\ IsSequence(sent')
  BY <1>5, <1>6, <1>12, AppendOne
<1>14. Accounts(MailIn(mailbox'), AliveIn(stack), Handles(stack[Script]), ended, skipped, Len(sent'))
  BY <1>7, <1>8, <1>11, <1>13 DEF Accounts
<1>15. stack' = [stack EXCEPT ![f] = Stepped(f)]
  BY DEF ActorSend
<1>16. Kept(Operations(prog), stack, stack')
  BY <1>2, <1>15, FramesSet DEF ActorInv
<1>17. /\ prog' = prog /\ chain' = chain /\ ready' = ready /\ parked' = parked /\ timers' = timers
       /\ elapsed' = elapsed /\ yielder' = yielder /\ ended' = ended /\ skipped' = skipped
  BY DEF ActorSend, sched
<1>18. Len(sent') \in 0..MaxMsgs
  BY <1>8, <1>13
<1>19. QED
  BY <1>1, <1>11, <1>13, <1>14, <1>16, <1>17, <1>18, Assemble DEF ActorInv

\* ActorRequest begins a handler in front of the one that asks, or raises.
LEMMA RequestKeeps ==
  ASSUME ActorInv, NEW f \in Flows, ActorRequest(f)
  PROVE  ActorInv'
<1>1. At(f, "ask") /\ status = "run" /\ f = Running
  BY DEF ActorRequest, At, Inside
<1>2. UNCHANGED <<prog, mailbox, sent, ready, parked, timers, elapsed, skipped>>
  BY DEF ActorRequest, sched
<1>3. CASE Arg(f, 1) \in DOMAIN prog.body \ WrongArity
  <2>1. PICK s, x, u : s = Stepped(f) /\ x = Code(0, prog.body[Arg(f, 1)]) /\ u = Append(s, x)
    OBVIOUS
  <2>2. Frames(Operations(prog), f, s) /\ s # <<>> /\ Handles(s) = Handles(stack[f])
    BY <1>1, <2>1, SteppedFrames
  <2>3. x.at = "code" /\ x.msg = 0 /\ x.rest \in Seq(Operations(prog))
    BY <1>3, <2>1, ProgramsAssumption DEF Code, ActorInv
  <2>4. Frames(Operations(prog), f, u) /\ u # <<>> /\ Handles(u) = Handles(stack[f])
    <3>1. PICK ops : ops = Operations(prog)
      OBVIOUS
    <3>2. Frames(ops, f, s) /\ s # <<>> /\ x.rest \in Seq(ops) /\ u = Append(s, x)
      BY <2>1, <2>2, <2>3, <3>1
    <3>3. Frames(ops, f, u) /\ u # <<>> /\ Handles(u) = Handles(s)
      <4>1. x.at \in {"drain", "wait"} \/ (x.at = "code" /\ x.msg = 0 /\ x.rest \in Seq(ops))
        BY <2>3, <3>2
      <4>2. Frames(ops, f, u)
        BY ONLY <3>2, <4>1, f \in Flows, FramesPush
      <4>3. u # <<>>
        BY ONLY <3>2, <4>1, f \in Flows, FramesPush
      <4>4. Handles(u) = Handles(s)
        BY ONLY <3>2, <4>1, f \in Flows, FramesPush, ZenonT(60)
      <4>5. QED
        BY <4>2, <4>3, <4>4
    <3>4. QED
      BY <2>2, <3>1, <3>3
  <2>5. stack' = [stack EXCEPT ![f] = u] /\ UNCHANGED <<chain, yielder, ended>>
    BY <1>3, <2>1 DEF ActorRequest
  <2>6. QED
    BY <1>1, <1>2, <2>4, <2>5, OnlyFrames
<1>4. CASE Arg(f, 1) \notin DOMAIN prog.body \ WrongArity
  BY <1>1, <1>2, <1>4, Unwound DEF ActorRequest, ActorInv
<1>5. QED
  BY <1>3, <1>4

\* Raise ends what the flow is in the middle of.
LEMMA RaiseKeeps ==
  ASSUME ActorInv, NEW f \in Flows, Raise(f)
  PROVE  ActorInv'
BY Unwound DEF Raise, At, Inside, sched, ActorInv

\* The script gets other frames.
LEMMA ScriptSet ==
  ASSUME NEW ops, NEW st, Stacks(ops, st), NEW u, Frames(ops, Script, u),
         NEW st2, st2 = [st EXCEPT ![Script] = u]
  PROVE  Stacks(ops, st2) /\ AliveIn(st2) = AliveIn(st) /\ st2[Script] = u
<1>1. DOMAIN st = Flows /\ Script \in Flows /\ Ids \subseteq Flows /\ Script \notin Ids
  BY ActorAssumption DEF Stacks, Flows, Ids, Script
<1>2. \A g \in Flows : st2[g] = IF g = Script THEN u ELSE st[g]
  BY <1>1
<1>3. Stacks(ops, st2)
  BY <1>1, <1>2 DEF Stacks
<1>4. QED
  BY <1>1, <1>2, <1>3 DEF AliveIn

\* Finish ends a handler, whose message is done with then, or the script.
LEMMA FinishKeeps ==
  ASSUME ActorInv, NEW f \in Flows, Finish(f)
  PROVE  ActorInv'
<1>1. /\ status = "run" /\ f = Running /\ Top(f).at = "code" /\ Top(f) = Last(stack[f])
      /\ UNCHANGED <<prog, mailbox, sent, ready, parked, timers, elapsed, skipped, status>>
      /\ ended' = ended \cup ({Top(f).msg} \ {0})
  BY DEF Finish, Inside, sched, Top
<1>2. PICK ops, s, m, n : ops = Operations(prog) /\ s = stack[f] /\ m = Top(f).msg /\ n = Len(s)
  OBVIOUS
<1>3. /\ s # <<>> /\ Frames(ops, f, s) /\ n \in Nat \ {0} /\ Top(f) = s[n]
      /\ f # Script => f \in AliveIn(stack)
  BY <1>1, <1>2, RunningFlow
<1>4. /\ Stacks(ops, stack) /\ stack[Script] # <<>> /\ prog \in Programs
      /\ Placed(AliveIn(stack), chain, ready, parked, timers, elapsed)
      /\ Accounts(MailIn(mailbox), AliveIn(stack), Handles(stack[Script]), ended, skipped, Len(sent))
      /\ yielder = Null \/ yielder \in AliveIn(stack)
  BY <1>1, <1>2 DEF ActorInv
<1>5. n \in 1..n /\ s[n].at = "code" /\ s[n].msg = m /\ (m # 0 => m \in Handles(s)) /\ 0 \notin Handles(s)
  BY <1>1, <1>2, <1>3 DEF Handles
<1>6. CASE n > 1
  <2>1. PICK u : u = Front(s)
    OBVIOUS
  <2>2. stack' = [stack EXCEPT ![f] = u] /\ chain' = chain /\ yielder' = yielder
    BY <1>2, <1>6, <2>1 DEF Finish, Left
  <2>3. Frames(ops, f, u) /\ u # <<>> /\ Handles(u) = Handles(s) \ {m}
    <3>1. Frames(ops, f, u) /\ u # <<>>
          /\ Handles(u) = Handles(s) \ (IF Last(s).at = "code" THEN {Last(s).msg} ELSE {})
      BY <1>2, <1>3, <1>6, <2>1, FramesPop
    <3>2. Last(s) = s[n]
      BY <1>2 DEF Last
    <3>3. QED
      BY <1>5, <3>1, <3>2
  <2>4. CASE f # Script
    <3>1. m = 0
      BY <1>2, <1>3, <1>5, <1>6, <2>4 DEF Frames
    <3>2. ended' = ended /\ Handles(u) = Handles(stack[f])
      BY <1>1, <1>2, <1>5, <2>3, <3>1
    <3>3. QED
      BY <1>1, <1>2, <2>2, <2>3, <3>2, OnlyFrames
  <2>5. CASE f = Script
    <3>1. Stacks(ops, stack') /\ AliveIn(stack') = AliveIn(stack) /\ stack'[Script] = u
      <4>1. \A t : t = [stack EXCEPT ![Script] = u] =>
              Stacks(ops, t) /\ AliveIn(t) = AliveIn(stack) /\ t[Script] = u
        <5>1. Frames(ops, Script, u) /\ Stacks(ops, stack)
          BY <1>4, <2>3, <2>5
        <5>2. QED
          BY ONLY <5>1, ScriptSet
      <4>2. QED
        BY <2>2, <2>5, <4>1
    <3>2. Accounts(MailIn(mailbox), AliveIn(stack), Handles(u), ended', skipped, Len(sent))
      BY <1>1, <1>2, <1>4, <1>5, <2>3, <2>5 DEF Accounts
    <3>3. Operations(prog)' = ops
      BY <1>1, <1>2 DEF Operations
    <3>4. QED
      BY <1>1, <1>4, <2>2, <2>3, <3>1, <3>2, <3>3 DEF ActorInv
  <2>6. QED
    BY <2>4, <2>5
<1>7. CASE n = 1 /\ f = Script
  <2>1. stack' = [stack EXCEPT ![Script] = <<Final(1)>>] /\ chain' = chain /\ yielder' = yielder
    BY <1>2, <1>7 DEF Finish
  <2>2. m = 0 /\ Handles(s) = {}
    <3>1. m = 0
      BY <1>2, <1>3, <1>5, <1>7 DEF Frames
    <3>2. \A i \in 1..Len(s) : i = 1
      BY <1>2, <1>7
    <3>3. QED
      BY <1>5, <1>7, <3>1, <3>2 DEF Handles
  <2>3. Stacks(ops, stack') /\ AliveIn(stack') = AliveIn(stack) /\ Handles(stack'[Script]) = {}
    <3>1. PICK u : stack' = [stack EXCEPT ![Script] = u] /\ (u = <<>> \/ \E i \in Nat \ {0} : u = <<Final(i)>>)
      <4>1. 1 \in Nat \ {0}
        OBVIOUS
      <4>2. QED
        BY <2>1, <4>1
    <3>2. QED
      BY <1>4, <3>1, ScriptCut
  <2>4. stack'[Script] # <<>>
    <3>1. Script \in DOMAIN stack
      BY <1>4 DEF Stacks, Flows
    <3>2. QED
      BY <2>1, <3>1
  <2>5. ended' = ended /\ Handles(stack[Script]) = {}
    BY <1>1, <1>2, <1>7, <2>2
  <2>6. Operations(prog)' = ops
    BY <1>1, <1>2 DEF Operations
  <2>7. QED
    BY <1>1, <1>4, <2>1, <2>3, <2>4, <2>5, <2>6 DEF ActorInv
<1>8. CASE n = 1 /\ f # Script
  <2>1. stack' = [stack EXCEPT ![f] = <<>>] /\ chain' = Front(chain) /\ yielder' = Null
    BY <1>2, <1>8 DEF Finish
  <2>2. f \in Ids /\ m = f /\ f # 0
    BY <1>2, <1>3, <1>5, <1>8, ActorAssumption DEF Frames, Flows, Script, Ids
  <2>3. Stacks(ops, stack') /\ AliveIn(stack') = AliveIn(stack) \ {f} /\ f \in AliveIn(stack)
        /\ stack'[Script] = stack[Script]
    <3>1. \A t : t = [stack EXCEPT ![f] = <<>>] =>
            /\ Stacks(ops, t) /\ AliveIn(t) = AliveIn(stack) \ {f} /\ f \in AliveIn(stack)
            /\ t[Script] = stack[Script]
      <4>1. Stacks(ops, stack) /\ stack[f] # <<>>
        BY <1>2, <1>3, <1>4
      <4>2. QED
        BY ONLY <2>2, <4>1, CoroutineEnds
    <3>2. QED
      BY <2>1, <3>1
  <2>4. Placed(AliveIn(stack) \ {f}, Front(chain), ready, parked, timers, elapsed)
    BY <1>1, <1>4, <1>8, RunningIsPlaced DEF Running
  <2>5. ended' = ended \cup {f}
    BY <1>1, <1>2, <2>2
  <2>6. Accounts(MailIn(mailbox), AliveIn(stack) \ {f}, Handles(stack[Script]), ended', skipped, Len(sent))
    BY <1>4, <2>3, <2>5 DEF Accounts
  <2>7. Operations(prog)' = ops
    BY <1>1, <1>2 DEF Operations
  <2>8. QED
    BY <1>1, <1>4, <2>1, <2>3, <2>4, <2>6, <2>7 DEF ActorInv
<1>9. QED
  BY <1>3, <1>6, <1>7, <1>8

\* Yield drains where it stands.
LEMMA YieldKeeps ==
  ASSUME ActorInv, NEW f \in Flows, Yield(f)
  PROVE  ActorInv'
<1>1. At(f, "yield") /\ status = "run" /\ f = Running /\ DrainMailboxesAsync(f, Stepped(f))
  BY DEF Yield, At, Inside
<1>2. /\ Frames(Operations(prog), f, Stepped(f)) /\ Stepped(f) # <<>>
      /\ Handles(Stepped(f)) = Handles(stack[f])
  BY <1>1, SteppedFrames
<1>3. QED
  BY <1>1, <1>2, DrainKeeps

\* AwaitHere drains inside its wait for the task.
LEMMA AwaitHereKeeps ==
  ASSUME ActorInv, NEW f \in Flows, AwaitHere(f)
  PROVE  ActorInv'
<1>1. At(f, "await") /\ status = "run" /\ f = Running /\ DrainMailboxesAsync(f, Append(Stepped(f), Wait))
  BY DEF AwaitHere, Awaiting, At, Inside
<1>2. PICK ops, s, x, u : ops = Operations(prog) /\ s = Stepped(f) /\ x = Wait /\ u = Append(s, x)
  OBVIOUS
<1>3. Frames(ops, f, s) /\ s # <<>> /\ Handles(s) = Handles(stack[f])
  BY <1>1, <1>2, SteppedFrames
<1>4. x.at \in {"drain", "wait"}
  BY <1>2 DEF Wait
<1>5. Frames(ops, f, u) /\ u # <<>> /\ Handles(u) = Handles(s)
  <2>1. u = Append(s, x)
    BY <1>2
  <2>2. Frames(ops, f, u)
    BY ONLY <1>3, <1>4, <2>1, f \in Flows, FramesPush
  <2>3. u # <<>>
    BY ONLY <1>3, <1>4, <2>1, f \in Flows, FramesPush
  <2>4. Handles(u) = Handles(s)
    BY ONLY <1>3, <1>4, <2>1, f \in Flows, FramesPush, ZenonT(60)
  <2>5. QED
    BY <2>2, <2>3, <2>4
<1>6. QED
  BY <1>1, <1>2, <1>3, <1>5, DrainKeeps

\* AwaitedHere goes on, or drains once more.
LEMMA AwaitedHereKeeps ==
  ASSUME ActorInv, NEW f \in Flows, AwaitedHere(f)
  PROVE  ActorInv'
<1>1. status = "run" /\ f = Running /\ Top(f).at = "wait"
  BY DEF AwaitedHere, Inside
<1>2. /\ stack[f] # <<>> /\ Frames(Operations(prog), f, stack[f]) /\ Len(stack[f]) \in Nat \ {0}
      /\ Top(f) = stack[f][Len(stack[f])]
  BY <1>1, RunningFlow
<1>3. CASE Polled(f, task)
  <2>1. /\ stack' = [stack EXCEPT ![f] = Left(f)]
        /\ UNCHANGED <<prog, mailbox, sent, chain, ready, parked, timers, elapsed, yielder, ended, skipped>>
    BY <1>3 DEF AwaitedHere
  <2>2. PICK ops, s, u, n : ops = Operations(prog) /\ s = stack[f] /\ u = Front(s) /\ n = Len(s)
    OBVIOUS
  <2>3. n > 1
    <3>1. n \in 1..n /\ s[n].at = "wait"
      BY <1>1, <1>2, <2>2
    <3>2. n # 1
      BY <1>2, <2>2, <3>1 DEF Frames
    <3>3. n \in Nat \ {0}
      BY <1>2, <2>2
    <3>4. QED
      BY <3>2, <3>3
  <2>4. Last(s).at = "wait"
    BY <1>1, <2>2 DEF Top
  <2>5. Frames(ops, f, s) /\ Len(s) > 1
    BY <1>2, <2>2, <2>3
  <2>6. Frames(ops, f, u) /\ u # <<>> /\ Handles(u) = Handles(s) \ (IF Last(s).at = "code" THEN {Last(s).msg} ELSE {})
    BY ONLY <2>2, <2>5, f \in Flows, FramesPop
  <2>7. Handles(u) = Handles(s)
    BY <2>4, <2>6
  <2>8. QED
    BY <1>1, <2>1, <2>2, <2>6, <2>7, OnlyFrames DEF Left
<1>4. CASE ~Polled(f, task)
  <2>1. DrainMailboxesAsync(f, stack[f])
    BY <1>4 DEF AwaitedHere
  <2>2. QED
    BY <1>1, <1>2, <2>1, DrainKeeps
<1>5. QED
  BY <1>3, <1>4

\* ReadAsync only makes a task.
LEMMA ReadKeeps ==
  ASSUME ActorInv, NEW f \in Flows, ReadAsync(f)
  PROVE  ActorInv'
<1>1. At(f, "read") /\ status = "run" /\ f = Running
  BY DEF ReadAsync, At, Inside
<1>2. /\ Frames(Operations(prog), f, Stepped(f)) /\ Stepped(f) # <<>>
      /\ Handles(Stepped(f)) = Handles(stack[f])
  BY <1>1, SteppedFrames
<1>3. /\ stack' = [stack EXCEPT ![f] = Stepped(f)]
      /\ UNCHANGED <<prog, mailbox, sent, chain, ready, parked, timers, elapsed, yielder, ended, skipped>>
  BY DEF ReadAsync
<1>4. QED
  BY <1>1, <1>2, <1>3, OnlyFrames

\* A coroutine that is ready is resumed.
LEMMA PlacedResume ==
  ASSUME NEW al, NEW ch, NEW rd, NEW pk, NEW tm, NEW el, Placed(al, ch, rd, pk, tm, el),
         rd # <<>>, NEW r, r = Last(rd)
  PROVE  r \in al /\ Placed(al, Append(ch, r), Front(rd), pk, tm, el)
<1>1. /\ rd \in Seq(ToSet(rd)) /\ IsInjective(rd) /\ IsSequence(ch) /\ IsInjective(ch) /\ ch # <<>>
      /\ ch[1] = Script
  BY DEF Placed, IsSequence
<1>2. ToSet(rd) = ToSet(Front(rd)) \cup {r} /\ IsInjective(Front(rd)) /\ r \notin ToSet(Front(rd))
  BY <1>1, FrontSet
<1>3. Front(rd) \in Seq(ToSet(rd))
  BY <1>1, FrontProperties
<1>4. IsSequence(Front(rd))
  BY <1>3, OwnSet
<1>5. PICK u : u = Append(ch, r)
  OBVIOUS
<1>6. IsSequence(u) /\ Len(ch) \in Nat /\ Len(u) = Len(ch) + 1 /\ \A i \in 1..Len(ch) : u[i] = ch[i]
  <2>1. IsSequence(u)
    BY ONLY <1>1, <1>5, AppendOne
  <2>2. Len(ch) \in Nat /\ Len(u) = Len(ch) + 1
    BY ONLY <1>1, <1>5, AppendOne
  <2>3. \A i \in 1..Len(ch) : u[i] = ch[i]
    BY ONLY <1>1, <1>5, AppendOne
  <2>4. QED
    BY <2>1, <2>2, <2>3
<1>7. Len(ch) \in Nat \ {0}
  BY <1>1, EmptySeq DEF IsSequence
<1>8. u # <<>> /\ u[1] = Script
  <2>1. 1 \in 1..Len(ch)
    BY <1>7
  <2>2. u # <<>>
    BY <1>6, <1>7, EmptySeq
  <2>3. QED
    BY <1>1, <1>6, <2>1, <2>2
<1>9. r \notin ToSet(ch) /\ Script \in ToSet(ch)
  <2>1. 1 \in 1..Len(ch)
    BY <1>7
  <2>2. Script \in ToSet(ch)
    BY <1>1, <2>1, ToSetDef DEF IsSequence
  <2>3. QED
    BY <1>2, <2>2 DEF Placed
<1>10. ToSet(u) = ToSet(ch) \cup {r} /\ IsInjective(u)
  <2>1. PICK S : S = ToSet(ch) \cup {r}
    OBVIOUS
  <2>2. ch \in Seq(S)
    BY <1>1, <2>1, SeqMonotonic DEF IsSequence
  <2>3. r \in S
    BY <2>1
  <2>4. ToSet(u) = ToSet(ch) \cup {r}
    BY ONLY <1>5, <2>2, <2>3, AppendSet
  <2>5. IsInjective(u)
    BY ONLY <1>1, <1>5, <1>9, <2>2, <2>3, AppendSet
  <2>6. QED
    BY <2>4, <2>5
<1>11. r \in al
  BY <1>2, <1>9 DEF Placed
<1>12. Placed(al, u, Front(rd), pk, tm, el)
  BY <1>2, <1>4, <1>6, <1>8, <1>9, <1>10 DEF Placed
<1>13. QED
  BY <1>5, <1>11, <1>12

\* Resume runs a coroutine that was ready.
LEMMA ResumeKeeps ==
  ASSUME ActorInv, NEW f \in Flows, Resume(f)
  PROVE  ActorInv'
<1>1. status = "run" /\ ready # <<>>
  BY DEF Resume, Inside
<1>2. PICK r : r = Last(ready)
  OBVIOUS
<1>3. /\ chain' = Append(chain, r) /\ yielder' = r /\ ready' = Front(ready)
      /\ UNCHANGED <<prog, mailbox, sent, stack, parked, timers, elapsed, ended, skipped>>
  BY <1>2 DEF Resume
<1>4. Placed(AliveIn(stack), chain, ready, parked, timers, elapsed)
  BY DEF ActorInv
<1>5. r \in AliveIn(stack) /\ Placed(AliveIn(stack), Append(chain, r), Front(ready), parked, timers, elapsed)
  BY ONLY <1>1, <1>2, <1>4, PlacedResume
<1>6. Kept(Operations(prog), stack, stack')
  BY <1>3 DEF Kept, ActorInv
<1>7. QED
  BY <1>1, <1>3, <1>5, <1>6, Assemble DEF ActorInv

\* A coroutine that runs is parked, or waits for a timer.
LEMMA PlacedPark ==
  ASSUME NEW al, NEW ch, NEW rd, NEW pk, NEW tm, NEW el, NEW f \in al, f # Script,
         Placed(al \ {f}, ch, rd, pk, tm, el)
  PROVE  Placed(al, ch, rd, Append(pk, f), tm, el) /\ Placed(al, ch, rd, pk, tm \cup {f}, el)
<1>1. IsSequence(pk) /\ IsInjective(pk)
  BY DEF Placed
<1>2. f \notin ToSet(rd) \cup ToSet(pk) \cup tm \cup ToSet(ch)
  BY DEF Placed
<1>3. PICK u : u = Append(pk, f)
  OBVIOUS
<1>4. PICK S : S = ToSet(pk) \cup {f}
  OBVIOUS
<1>5. pk \in Seq(S) /\ f \in S
  BY <1>1, <1>4, SeqMonotonic DEF IsSequence
<1>6. ToSet(u) = ToSet(pk) \cup {f}
  BY ONLY <1>3, <1>5, AppendSet
<1>7. IsInjective(u)
  BY <1>1, <1>2, <1>3, <1>5, AppendSet
<1>8. IsSequence(u)
  BY ONLY <1>1, <1>3, AppendOne
<1>9. Placed(al, ch, rd, u, tm, el)
  BY <1>2, <1>6, <1>7, <1>8 DEF Placed
<1>10. Placed(al, ch, rd, pk, tm \cup {f}, el)
  BY <1>2 DEF Placed
<1>11. QED
  BY <1>3, <1>9, <1>10

\* Suspend parks the coroutine, or leaves it to its timer.
LEMMA SuspendKeeps ==
  ASSUME ActorInv, NEW f \in Flows, Suspend(f)
  PROVE  ActorInv'
<1>1. At(f, "await") /\ status = "run" /\ f = Running /\ yielder = f
  BY DEF Suspend, Awaiting, At, Inside
<1>2. f \in AliveIn(stack) /\ f # Script
  <2>1. f # Null
    BY ActorAssumption DEF Flows, Ids, Script
  <2>2. f \in AliveIn(stack)
    BY <1>1, <2>1 DEF ActorInv
  <2>3. QED
    BY <2>2, ActorAssumption DEF AliveIn, Ids, Script
<1>3. /\ Frames(Operations(prog), f, Stepped(f)) /\ Stepped(f) # <<>>
      /\ Handles(Stepped(f)) = Handles(stack[f]) /\ stack[f] # <<>>
  BY <1>1, SteppedFrames
<1>4. /\ stack' = [stack EXCEPT ![f] = Stepped(f)] /\ chain' = Front(chain)
      /\ \/ timers' = timers \cup {f} /\ parked' = parked
         \/ parked' = Append(parked, f) /\ timers' = timers
      /\ UNCHANGED <<prog, mailbox, sent, ready, elapsed, yielder, ended, skipped>>
  BY DEF Suspend
<1>5. Placed(AliveIn(stack) \ {f}, Front(chain), ready, parked, timers, elapsed)
  BY <1>1, <1>2, RunningIsPlaced DEF Running, ActorInv
<1>6. /\ Placed(AliveIn(stack), Front(chain), ready, Append(parked, f), timers, elapsed)
      /\ Placed(AliveIn(stack), Front(chain), ready, parked, timers \cup {f}, elapsed)
  BY <1>2, <1>5, PlacedPark
<1>7. Placed(AliveIn(stack), chain', ready', parked', timers', elapsed')
  BY <1>4, <1>6
<1>8. Kept(Operations(prog), stack, stack')
  BY <1>3, <1>4, FramesSet DEF ActorInv
<1>9. QED
  BY <1>1, <1>4, <1>7, <1>8, Assemble DEF ActorInv

\* A deadline passes.
LEMMA ElapseKeeps ==
  ASSUME ActorInv, NEW f \in Flows, Elapse(f)
  PROVE  ActorInv'
<1>1. /\ status = "run" /\ f \in timers /\ f \notin ToSet(elapsed) /\ elapsed' = Append(elapsed, f)
      /\ UNCHANGED <<prog, mailbox, sent, stack, chain, ready, parked, timers, yielder, ended, skipped>>
  BY DEF Elapse
<1>2. Placed(AliveIn(stack), chain, ready, parked, timers, elapsed)
  BY DEF ActorInv
<1>3. IsSequence(elapsed) /\ IsInjective(elapsed) /\ ToSet(elapsed) \subseteq timers
  BY <1>2 DEF Placed
<1>4. PICK u, S : u = Append(elapsed, f) /\ S = ToSet(elapsed) \cup {f}
  OBVIOUS
<1>5. elapsed \in Seq(S) /\ f \in S
  BY <1>3, <1>4, SeqMonotonic DEF IsSequence
<1>6. ToSet(u) = ToSet(elapsed) \cup {f}
  BY <1>4, <1>5, AppendSet
<1>7. IsInjective(u)
  BY <1>1, <1>3, <1>4, <1>5, AppendSet
<1>8. IsSequence(u)
  BY <1>3, <1>4, AppendOne
<1>9. Placed(AliveIn(stack), chain, ready, parked, timers, u)
  BY <1>1, <1>2, <1>3, <1>6, <1>7, <1>8 DEF Placed
<1>10. Kept(Operations(prog), stack, stack')
  BY <1>1 DEF Kept, ActorInv
<1>11. QED
  BY <1>1, <1>4, <1>9, <1>10, Assemble DEF ActorInv

\* A poll makes ready who may go on, and whose deadline has passed.
LEMMA PlacedPoll ==
  ASSUME NEW al, NEW ch, NEW pk, NEW tm, NEW el, Placed(al, ch, <<>>, pk, tm, el), NEW W
  PROVE  Placed(al, ch, Picked(pk, W) \o el, Picked(pk, DOMAIN pk \ W), tm \ ToSet(el), <<>>)
<1>1. /\ pk \in Seq(ToSet(pk)) /\ IsInjective(pk) /\ el \in Seq(ToSet(el)) /\ IsInjective(el)
      /\ ToSet(el) \subseteq tm /\ ToSet(pk) \cap tm = {}
  BY DEF Placed, IsSequence
<1>2. PICK a, b, D : a = Picked(pk, W) /\ b = Picked(pk, D) /\ D = DOMAIN pk \ W
  OBVIOUS
<1>3. a \in Seq(ToSet(pk)) /\ IsInjective(a) /\ \A x : x \in ToSet(a) <=> \E i \in 1..Len(pk) : i \in W /\ x = pk[i]
  BY <1>1, <1>2, PickedFacts
<1>4. b \in Seq(ToSet(pk)) /\ IsInjective(b) /\ \A x : x \in ToSet(b) <=> \E i \in 1..Len(pk) : i \in D /\ x = pk[i]
  BY <1>1, <1>2, PickedFacts
<1>5. /\ DOMAIN pk = 1..Len(pk) /\ \A x : x \in ToSet(pk) <=> \E i \in 1..Len(pk) : x = pk[i]
      /\ \A i, j \in 1..Len(pk) : pk[i] = pk[j] => i = j
  BY <1>1, LenProperties, ToSetDef, InjectiveDef
<1>6. ToSet(a) \cup ToSet(b) = ToSet(pk) /\ ToSet(a) \cap ToSet(b) = {}
  <2>1. \A i \in 1..Len(pk) : i \in D <=> i \notin W
    BY <1>2, <1>5
  <2>2. \A x : x \in ToSet(a) \/ x \in ToSet(b) <=> x \in ToSet(pk)
    BY ONLY <1>3, <1>4, <1>5, <2>1
  <2>3. \A x : ~(x \in ToSet(a) /\ x \in ToSet(b))
    BY ONLY <1>3, <1>4, <1>5, <2>1
  <2>4. QED
    BY <2>2, <2>3
<1>7. PICK S, r : S = ToSet(pk) \cup ToSet(el) /\ r = a \o el
  OBVIOUS
<1>8. a \in Seq(S)
  BY <1>3, <1>7, SeqMonotonic
<1>9. el \in Seq(S)
  BY <1>1, <1>7, SeqMonotonic
<1>10. r \in Seq(S)
  BY ONLY <1>7, <1>8, <1>9, ConcatSet
<1>11. ToSet(r) = ToSet(a) \cup ToSet(el)
  BY ONLY <1>7, <1>8, <1>9, ConcatSet
<1>12. IsInjective(r)
  <2>1. ToSet(a) \cap ToSet(el) = {}
    BY <1>1, <1>6
  <2>2. QED
    BY ONLY <1>1, <1>3, <1>7, <1>8, <1>9, <2>1, ConcatSet
<1>13. IsSequence(r) /\ IsSequence(b) /\ IsSequence(<<>>)
  BY <1>4, <1>10, OwnSet, EmptySeq
<1>14. ToSet(<<>>) = {} /\ IsInjective(<<>>)
  BY DEF ToSet, IsInjective
<1>15. Placed(al, ch, r, b, tm \ ToSet(el), <<>>)
  BY <1>1, <1>4, <1>6, <1>11, <1>12, <1>13, <1>14 DEF Placed
<1>16. QED
  BY <1>2, <1>7, <1>15

\* Poll makes coroutines ready; the drain goes on, ends or raises.
LEMMA PollKeeps ==
  ASSUME ActorInv, NEW f \in Flows, Poll(f)
  PROVE  ActorInv'
<1>1. status = "run" /\ f = Running /\ Top(f).at = "drain" /\ ready = <<>>
  BY DEF Poll, Inside
<1>2. /\ stack[f] # <<>> /\ Frames(Operations(prog), f, stack[f]) /\ Len(stack[f]) \in Nat \ {0}
      /\ Top(f) = stack[f][Len(stack[f])]
  BY <1>1, RunningFlow
<1>3. Placed(AliveIn(stack), chain, <<>>, parked, timers, elapsed)
  BY <1>1 DEF ActorInv
<1>4. /\ ready' = Picked(parked, Woken(event)) \o elapsed
      /\ parked' = Picked(parked, DOMAIN parked \ Woken(event))
      /\ timers' = timers \ ToSet(elapsed)
      /\ elapsed' = <<>>
      /\ UNCHANGED <<prog, mailbox, sent, skipped>>
  BY DEF Poll
<1>5. Placed(AliveIn(stack), chain, ready', parked', timers', elapsed')
  <2>1. PICK W : W = Woken(event)
    OBVIOUS
  <2>2. Placed(AliveIn(stack), chain, Picked(parked, W) \o elapsed, Picked(parked, DOMAIN parked \ W),
               timers \ ToSet(elapsed), <<>>)
    BY <1>3, PlacedPoll
  <2>3. QED
    BY <1>4, <2>1, <2>2
<1>6. \/ Unwind(f, stack)
      \/ /\ UNCHANGED <<chain, yielder, ended>>
         /\ \/ stack' = [stack EXCEPT ![f] = Left(f)]
            \/ \E n, e : stack' = [stack EXCEPT ![f] = Append(Left(f), Drain(n, e))]
  BY DEF Poll
<1>7. CASE Unwind(f, stack)
  BY <1>1, <1>4, <1>5, <1>7, Unwound
<1>8. ASSUME UNCHANGED <<chain, yielder, ended>>,
             \/ stack' = [stack EXCEPT ![f] = Left(f)]
             \/ \E n, e : stack' = [stack EXCEPT ![f] = Append(Left(f), Drain(n, e))]
      PROVE  ActorInv'
  <2>1. PICK ops, s, u, n : ops = Operations(prog) /\ s = stack[f] /\ u = Front(s) /\ n = Len(s)
    OBVIOUS
  <2>2. n > 1
    <3>1. n \in 1..n /\ s[n].at = "drain"
      BY <1>1, <1>2, <2>1
    <3>2. n # 1
      BY <1>2, <2>1, <3>1 DEF Frames
    <3>3. n \in Nat \ {0}
      BY <1>2, <2>1
    <3>4. QED
      BY <3>2, <3>3
  <2>3. Last(s).at = "drain"
    BY <1>1, <2>1 DEF Top
  <2>4. Frames(ops, f, s) /\ Len(s) > 1
    BY <1>2, <2>1, <2>2
  <2>5. Frames(ops, f, u) /\ u # <<>> /\ Handles(u) = Handles(s) \ (IF Last(s).at = "code" THEN {Last(s).msg} ELSE {})
    BY ONLY <2>1, <2>4, f \in Flows, FramesPop
  <2>6. Handles(u) = Handles(s)
    BY <2>3, <2>5
  <2>7. PICK v : stack' = [stack EXCEPT ![f] = v] /\ (v = u \/ \E k, e : v = Append(u, Drain(k, e)))
    BY <1>8, <2>1 DEF Left
  <2>8. Frames(ops, f, v) /\ v # <<>> /\ Handles(v) = Handles(s)
    <3>1. CASE v = u
      BY <2>5, <2>6, <3>1
    <3>2. ASSUME NEW k, NEW e, v = Append(u, Drain(k, e)) PROVE Frames(ops, f, v) /\ v # <<>> /\ Handles(v) = Handles(s)
      <4>1. PICK x : x = Drain(k, e)
        OBVIOUS
      <4>2. x.at \in {"drain", "wait"} /\ v = Append(u, x)
        BY <3>2, <4>1 DEF Drain
      <4>3. Frames(ops, f, v)
        BY ONLY <2>5, <4>2, f \in Flows, FramesPush
      <4>4. v # <<>>
        BY ONLY <2>5, <4>2, f \in Flows, FramesPush
      <4>5. Handles(v) = Handles(u)
        BY ONLY <2>5, <4>2, f \in Flows, FramesPush
      <4>6. QED
        BY <2>6, <4>3, <4>4, <4>5
    <3>3. QED
      BY <2>7, <3>1, <3>2
  <2>9. Kept(ops, stack, stack')
    <3>1. Stacks(ops, stack)
      BY <2>1 DEF ActorInv
    <3>2. QED
      BY <1>2, <2>1, <2>7, <2>8, <3>1, FramesSet
  <2>10. QED
    BY <1>1, <1>4, <1>5, <1>8, <2>1, <2>9, Assemble DEF ActorInv
<1>9. QED
  BY <1>6, <1>7, <1>8

\* The oldest message leaves a mailbox.
LEMMA MailLeaves ==
  ASSUME Mailboxes(mailbox), NEW a \in ToSet(Actors), mailbox[a] # <<>>, NEW m, m = Head(mailbox[a]),
         NEW mb, mb = [mailbox EXCEPT ![a] = Tail(mailbox[a])]
  PROVE  /\ Mailboxes(mb) /\ m.id \in MailIn(mailbox)
         /\ MailIn(mb) = MailIn(mailbox) \ {m.id}
<1>1. PICK u, s, n : u = Tail(s) /\ s = mailbox[a] /\ n = Len(s)
  OBVIOUS
<1>2. DOMAIN mailbox = ToSet(Actors) /\ s \in Seq(ToSet(s)) /\ s # <<>>
  BY <1>1 DEF Mailboxes, IsSequence
<1>3. DOMAIN mb = ToSet(Actors) /\ \A b \in ToSet(Actors) : mb[b] = IF b = a THEN u ELSE mailbox[b]
  BY <1>1, <1>2
<1>4. /\ u \in Seq(ToSet(s)) /\ Len(u) = n - 1 /\ n \in Nat \ {0} /\ m = s[1]
      /\ \A i \in 1..Len(u) : u[i] = s[i + 1]
  BY <1>1, <1>2, HeadTailProperties, EmptySeq
<1>5. IsSequence(u)
  BY <1>4, OwnSet
<1>6. \A i \in 1..Len(u) : i + 1 \in 1..n /\ u[i] = s[i + 1] /\ i + 1 # 1
  BY <1>4
<1>7. \A i \in 1..n : i # 1 => i - 1 \in 1..Len(u) /\ u[i - 1] = s[i]
  <2>1. ASSUME NEW i \in 1..n, i # 1 PROVE i - 1 \in 1..Len(u) /\ u[i - 1] = s[i]
    <3>1. i - 1 \in 1..Len(u) /\ (i - 1) + 1 = i
      BY <1>4, <2>1
    <3>2. QED
      BY <1>4, <3>1
  <2>2. QED
    BY <2>1
<1>8. 1 \in 1..n
  BY <1>4
<1>9. m.id \in MailIn(mailbox)
  BY <1>1, <1>4, <1>8 DEF MailIn, Mailboxes
<1>10. \A b \in ToSet(Actors) : \A i \in 1..Len(mb[b]) :
         \E j \in 1..Len(mailbox[b]) :
           /\ mb[b][i] = mailbox[b][j] /\ (b = a => j = i + 1 /\ j # 1) /\ (b # a => j = i)
  <2>1. ASSUME NEW b \in ToSet(Actors), NEW i \in 1..Len(mb[b])
        PROVE  \E j \in 1..Len(mailbox[b]) :
                 /\ mb[b][i] = mailbox[b][j] /\ (b = a => j = i + 1 /\ j # 1) /\ (b # a => j = i)
    <3>1. CASE b = a
      BY <1>1, <1>3, <1>6, <3>1
    <3>2. CASE b # a
      BY <1>3, <3>2
    <3>3. QED
      BY <3>1, <3>2
  <2>2. QED
    BY <2>1
<1>11. Mailboxes(mb)
  <2>1. \A b \in ToSet(Actors) : IsSequence(mb[b]) /\ \A i \in 1..Len(mb[b]) : mb[b][i].id \in Ids
    BY <1>3, <1>5, <1>10 DEF Mailboxes
  <2>2. ASSUME NEW b \in ToSet(Actors), NEW c \in ToSet(Actors), NEW i \in 1..Len(mb[b]), NEW j \in 1..Len(mb[c]),
               mb[b][i].id = mb[c][j].id
        PROVE  b = c /\ i = j
    <3>1. PICK k \in 1..Len(mailbox[b]) : mb[b][i] = mailbox[b][k] /\ (b = a => k = i + 1) /\ (b # a => k = i)
      BY <1>10
    <3>2. PICK l \in 1..Len(mailbox[c]) : mb[c][j] = mailbox[c][l] /\ (c = a => l = j + 1) /\ (c # a => l = j)
      BY <1>10
    <3>3. b = c /\ k = l
      BY <2>2, <3>1, <3>2 DEF Mailboxes
    <3>4. i \in Nat /\ j \in Nat
      <4>1. Len(mb[b]) \in Nat /\ Len(mb[c]) \in Nat
        BY <2>1, LenProperties DEF IsSequence
      <4>2. QED
        BY <4>1
    <3>5. QED
      BY <3>1, <3>2, <3>3, <3>4
  <2>3. QED
    BY <1>3, <2>1, <2>2 DEF Mailboxes
<1>12. ASSUME NEW x \in MailIn(mb) PROVE x \in MailIn(mailbox) \ {m.id}
  <2>1. PICK b, i : b \in ToSet(Actors) /\ i \in 1..Len(mb[b]) /\ mb[b][i].id = x /\ x \in Ids
    BY <1>12 DEF MailIn
  <2>2. PICK j \in 1..Len(mailbox[b]) : mb[b][i] = mailbox[b][j] /\ (b = a => j # 1)
    BY <1>10, <2>1
  <2>3. x \in MailIn(mailbox)
    BY <2>1, <2>2 DEF MailIn
  <2>4. x # m.id
    BY <1>1, <1>4, <1>8, <2>1, <2>2 DEF Mailboxes
  <2>5. QED
    BY <2>3, <2>4
<1>13. ASSUME NEW x \in MailIn(mailbox), x # m.id PROVE x \in MailIn(mb)
  <2>1. PICK b, i : b \in ToSet(Actors) /\ i \in 1..Len(mailbox[b]) /\ mailbox[b][i].id = x /\ x \in Ids
    BY <1>13 DEF MailIn
  <2>2. CASE b = a
    <3>1. i # 1 /\ i \in 1..n
      BY <1>1, <1>4, <1>13, <2>1, <2>2
    <3>2. i - 1 \in 1..Len(mb[b]) /\ mb[b][i - 1].id = x
      BY <1>1, <1>3, <1>7, <2>1, <2>2, <3>1
    <3>3. QED
      BY <2>1, <3>2 DEF MailIn
  <2>3. CASE b # a
    BY <1>3, <2>1, <2>3 DEF MailIn
  <2>4. QED
    BY <2>2, <2>3
<1>14. QED
  BY <1>9, <1>11, <1>12, <1>13

\* FinalDrain takes the messages one by one, each handler in front of it.
LEMMA FinalDrainKeeps ==
  ASSUME ActorInv, NEW f \in Flows, FinalDrain(f)
  PROVE  ActorInv'
<1>1. /\ status = "run" /\ f = Running /\ Top(f).at = "final"
      /\ UNCHANGED <<prog, sent, ready, parked, timers, elapsed, skipped>>
  BY DEF FinalDrain, Inside, sched
<1>2. PICK ops, s, i : ops = Operations(prog) /\ s = stack[f] /\ i = Top(f).next
  OBVIOUS
<1>3. s # <<>> /\ Frames(ops, f, s) /\ Len(s) \in Nat \ {0} /\ Top(f) = s[Len(s)]
  BY <1>1, <1>2, RunningFlow
<1>4. f = Script /\ Len(s) = 1 /\ i \in Nat \ {0} /\ s[1] = Top(f)
  <2>1. Len(s) \in 1..Len(s)
    BY <1>3
  <2>2. QED
    BY <1>1, <1>2, <1>3, <2>1 DEF Frames
<1>5. /\ Stacks(ops, stack) /\ prog \in Programs /\ stack[Script] = s
      /\ Placed(AliveIn(stack), chain, ready, parked, timers, elapsed)
      /\ Accounts(MailIn(mailbox), AliveIn(stack), Handles(s), ended, skipped, Len(sent))
      /\ yielder = Null \/ yielder \in AliveIn(stack)
      /\ Mailboxes(mailbox)
  BY <1>2, <1>4 DEF ActorInv
<1>6. Handles(s) = {}
  <2>1. \A k \in 1..Len(s) : s[k].at = "final"
    BY <1>1, <1>4
  <2>2. QED
    BY <2>1 DEF Handles
<1>7. Operations(prog)' = ops
  BY <1>1, <1>2 DEF Operations
<1>8. CASE i > Len(Actors)
  BY <1>1, <1>2, <1>8, UnchangedKeeps DEF FinalDrain
<1>9. i \in 1..Len(Actors) \/ i > Len(Actors)
  BY <1>4, ActorAssumption, LenProperties
<1>10. PICK a : a = Actors[i]
  OBVIOUS
<1>11. i \in 1..Len(Actors) => a \in ToSet(Actors) /\ ~(i > Len(Actors))
  BY <1>4, <1>10, ActorAssumption, LenProperties, ElementOfSeq
<1>12. CASE i \in 1..Len(Actors) /\ mailbox[a] = <<>>
  <2>1. /\ stack' = [stack EXCEPT ![Script] = <<Final(i + 1)>>]
        /\ UNCHANGED <<mailbox, chain, yielder, ended, status>>
    BY <1>2, <1>4, <1>10, <1>11, <1>12 DEF FinalDrain
  <2>2. Stacks(ops, stack') /\ AliveIn(stack') = AliveIn(stack) /\ Handles(stack'[Script]) = {}
    <3>1. PICK u : stack' = [stack EXCEPT ![Script] = u] /\ (u = <<>> \/ \E k \in Nat \ {0} : u = <<Final(k)>>)
      <4>1. i + 1 \in Nat \ {0}
        BY <1>4
      <4>2. QED
        BY <2>1, <4>1
    <3>2. QED
      BY <1>5, <3>1, ScriptCut
  <2>3. stack'[Script] # <<>>
    <3>1. Script \in DOMAIN stack
      BY <1>5 DEF Stacks, Flows
    <3>2. QED
      BY <2>1, <3>1
  <2>4. QED
    BY <1>1, <1>5, <1>6, <1>7, <2>1, <2>2, <2>3 DEF ActorInv
<1>13. CASE i \in 1..Len(Actors) /\ mailbox[a] # <<>>
  <2>1. PICK m, b : m = Head(mailbox[a]) /\ b = IF Handled(m) THEN prog.body[m.kind] ELSE <<>>
    OBVIOUS
  <2>2. PICK x, u, w : x = Code(m.id, b) /\ u = Append(s, x) /\ w = [stack EXCEPT ![f] = u]
    OBVIOUS
  <2>3. mailbox' = [mailbox EXCEPT ![a] = Tail(mailbox[a])]
    BY <1>2, <1>10, <1>11, <1>13 DEF FinalDrain
  <2>4. \/ stack' = w /\ UNCHANGED <<chain, yielder, ended, status>>
        \/ Unwind(f, w)
    BY <1>2, <1>10, <1>11, <1>13, <2>1, <2>2 DEF FinalDrain
  <2>5. Mailboxes(mailbox') /\ m.id \in MailIn(mailbox) /\ MailIn(mailbox') = MailIn(mailbox) \ {m.id}
    <3>1. PICK mb : mb = [mailbox EXCEPT ![a] = Tail(mailbox[a])]
      OBVIOUS
    <3>2. Mailboxes(mb) /\ m.id \in MailIn(mailbox) /\ MailIn(mb) = MailIn(mailbox) \ {m.id}
      BY <1>5, <1>11, <1>13, <2>1, <3>1, MailLeaves
    <3>3. QED
      BY <2>3, <3>1, <3>2
  <2>6. x.at = "code" /\ x.msg = m.id /\ x.rest \in Seq(ops) /\ m.id # 0
    <3>1. b \in Seq(ops)
      BY <1>2, <1>5, <2>1, ProgramsAssumption, EmptySeq DEF Handled
    <3>2. m.id # 0
      BY <2>5, ActorAssumption DEF MailIn, Ids
    <3>3. QED
      BY <2>2, <3>1, <3>2 DEF Code
  <2>7. IsSequence(s)
    BY <1>3 DEF Frames
  <2>8. IsSequence(u) /\ Len(u) = 2 /\ u[1] = s[1] /\ u[2] = x
    <3>1. IsSequence(u) /\ Len(u) = Len(s) + 1
      BY <2>2, <2>7, AppendOne
    <3>2. u[Len(s) + 1] = x
      BY <2>2, <2>7, AppendOne
    <3>3. \A k \in 1..Len(s) : u[k] = s[k]
      BY <2>2, <2>7, AppendOne
    <3>4. QED
      BY <1>4, <3>1, <3>2, <3>3
  <2>9. Frames(ops, Script, u) /\ Handles(u) = {m.id}
    <3>1. \A k : k \in 1..Len(u) <=> k = 1 \/ k = 2
      BY <2>8
    <3>2. u[1].at = "final" /\ u[1].next \in Nat \ {0}
      BY <1>1, <1>2, <1>4, <2>8
    <3>3. Frames(ops, Script, u)
      BY <2>6, <2>8, <3>1, <3>2 DEF Frames
    <3>4. Handles(u) = {m.id}
      BY <2>6, <2>8, <3>1, <3>2 DEF Handles
    <3>5. QED
      BY <3>3, <3>4
  <2>10. Stacks(ops, w) /\ AliveIn(w) = AliveIn(stack) /\ w[Script] = u
    <3>1. Frames(ops, Script, u) /\ Stacks(ops, stack) /\ w = [stack EXCEPT ![Script] = u]
      BY <1>4, <1>5, <2>2, <2>9
    <3>2. Stacks(ops, w)
      BY ONLY <3>1, ScriptSet
    <3>3. AliveIn(w) = AliveIn(stack)
      BY ONLY <3>1, ScriptSet
    <3>4. w[Script] = u
      BY ONLY <3>1, ScriptSet, ZenonT(60)
    <3>5. QED
      BY <3>2, <3>3, <3>4
  <2>11. u # <<>>
    BY <2>8, EmptySeq
  <2>12. Accounts(MailIn(mailbox'), AliveIn(stack), {m.id}, ended, skipped, Len(sent))
    BY <1>5, <1>6, <2>5 DEF Accounts
  <2>13. CASE stack' = w /\ UNCHANGED <<chain, yielder, ended, status>>
    BY <1>1, <1>5, <1>7, <2>5, <2>9, <2>10, <2>11, <2>12, <2>13 DEF ActorInv
  <2>14. CASE Unwind(f, w)
    <3>1. w[f] # <<>> /\ w[Script] # <<>>
      BY <1>4, <2>10, <2>11
    <3>2. Placed(AliveIn(w), chain, ready, parked, timers, elapsed)
      BY <1>5, <2>10
    <3>3. Accounts(MailIn(mailbox'), AliveIn(w), Handles(w[Script]), ended, skipped, Len(sent))
      BY <2>9, <2>10, <2>12
    <3>4. yielder = Null \/ yielder \in AliveIn(w)
      BY <1>5, <2>10
    <3>5. /\ Stacks(ops, stack')
          /\ status' = "run" => stack'[Script] # <<>>
          /\ Placed(AliveIn(stack'), chain', ready, parked, timers, elapsed)
          /\ Accounts(MailIn(mailbox'), AliveIn(stack'), Handles(stack'[Script]), ended', skipped, Len(sent))
          /\ yielder' = Null \/ yielder' \in AliveIn(stack')
      BY <1>1, <2>10, <2>14, <3>1, <3>2, <3>3, <3>4, UnwindKeeps
    <3>6. QED
      BY <1>1, <1>5, <1>7, <2>5, <3>5 DEF ActorInv
  <2>15. QED
    BY <2>4, <2>13, <2>14
<1>14. QED
  BY <1>8, <1>9, <1>12, <1>13
-----------------------------------------------------------------------------
(* The invariant, and what follows from it.                                 *)

\* It holds at the start, when only the script is under way.
LEMMA ActorInit ==
  ASSUME Init
  PROVE  ActorInv
<1>1. PICK ops, x : ops = Operations(prog) /\ x = Code(0, prog.script)
  OBVIOUS
<1>2. /\ prog \in Programs /\ Script \in Flows /\ Script \notin Ids
      /\ stack = [f \in Flows |-> IF f = Script THEN <<x>> ELSE <<>>]
      /\ mailbox = [a \in ToSet(Actors) |-> <<>>]
      /\ sent = <<>> /\ chain = <<Script>> /\ ready = <<>> /\ parked = <<>> /\ timers = {} /\ elapsed = <<>>
      /\ yielder = Null /\ ended = {} /\ skipped = {}
  BY <1>1, ActorAssumption DEF Init, Flows, Script, Ids
<1>3. x.at = "code" /\ x.msg = 0 /\ x.rest \in Seq(ops)
  BY <1>1, <1>2, ProgramsAssumption DEF Code
<1>4. /\ IsSequence(<<>>) /\ Len(<<>>) = 0 /\ ToSet(<<>>) = {} /\ IsInjective(<<>>)
  <2>1. IsSequence(<<>>) /\ Len(<<>>) = 0
    BY OwnSet, EmptySeq
  <2>2. ToSet(<<>>) = {} /\ IsInjective(<<>>)
    BY DEF ToSet, IsInjective
  <2>3. QED
    BY <2>1, <2>2
<1>5. PICK u : u = <<x>>
  OBVIOUS
<1>6. u \in Seq({x}) /\ Len(u) = 1 /\ u[1] = x /\ u # <<>>
  BY <1>5
<1>7. Frames(ops, Script, u) /\ Handles(u) = {}
  <2>1. IsSequence(u)
    BY <1>6, OwnSet
  <2>2. \A k \in 1..Len(u) : u[k] = x
    BY <1>6
  <2>3. QED
    BY <1>3, <2>1, <2>2 DEF Frames, Handles
<1>8. \A f \in Flows : Frames(ops, f, <<>>)
  BY <1>4 DEF Frames
<1>9. Stacks(ops, stack) /\ stack[Script] = u /\ AliveIn(stack) = {}
  <2>1. DOMAIN stack = Flows /\ \A f \in Flows : stack[f] = IF f = Script THEN u ELSE <<>>
    BY <1>2, <1>5
  <2>2. AliveIn(stack) = {}
    BY <1>2, <2>1 DEF AliveIn, Flows
  <2>3. QED
    BY <1>2, <1>7, <1>8, <2>1, <2>2 DEF Stacks
<1>10. Placed({}, chain, ready, parked, timers, elapsed)
  <2>1. chain \in Seq({Script}) /\ chain # <<>> /\ Len(chain) = 1 /\ chain[1] = Script
    BY <1>2
  <2>2. IsSequence(chain) /\ ToSet(chain) = {Script}
    BY <2>1, OwnSet, ToSetDef
  <2>3. IsInjective(chain)
    <3>1. \A i, j \in 1..Len(chain) : i = j
      BY <2>1
    <3>2. QED
      BY ONLY <2>1, <3>1, InjectiveDef
  <2>4. QED
    BY <1>2, <1>4, <2>1, <2>2, <2>3 DEF Placed
<1>11. Mailboxes(mailbox) /\ MailIn(mailbox) = {}
  BY <1>2, <1>4 DEF Mailboxes, MailIn
<1>12. Len(sent) = 0 /\ IsSequence(sent) /\ 0 \in 0..MaxMsgs /\ 1..0 = {}
  BY <1>2, <1>4, ActorAssumption
<1>13. Accounts({}, {}, {}, ended, skipped, Len(sent))
  BY <1>2, <1>12 DEF Accounts
<1>14. QED
  BY <1>1, <1>2, <1>6, <1>7, <1>9, <1>10, <1>11, <1>12, <1>13 DEF ActorInv

\* And every step keeps it.
LEMMA ActorNext ==
  ASSUME ActorInv, [Next]_vars
  PROVE  ActorInv'
<1>1. ASSUME NEW f \in Flows, Act(f) PROVE ActorInv'
  <2>1. ASSUME SuspendAnother(f) PROVE ActorInv'
    BY <2>1, UnchangedKeeps DEF SuspendAnother, sched
  <2>2. QED
    BY <1>1, <2>1, SendKeeps, RequestKeeps, RaiseKeeps, FinishKeeps, YieldKeeps, ResumeKeeps, PollKeeps,
       ReadKeeps, SuspendKeeps, AwaitHereKeeps, AwaitedHereKeeps, FinalDrainKeeps DEF Act
<1>2. ASSUME NEW f \in Flows, Arrive(f) PROVE ActorInv'
  BY <1>2, UnchangedKeeps DEF Arrive
<1>3. ASSUME NEW k \in Tasks, Complete(k) PROVE ActorInv'
  BY <1>3, UnchangedKeeps DEF Complete, sched
<1>4. CASE UNCHANGED vars
  BY <1>4, UnchangedKeeps DEF vars, sched
<1>5. QED
  BY <1>1, <1>2, <1>3, <1>4, ElapseKeeps DEF Next, Run, World

\* The inductive invariant holds in every state.
THEOREM ActorsInvariant == Spec => []ActorInv
BY ActorInit, ActorNext, PTL DEF Spec

\* No coroutine is forgotten, or resumed twice: each that has not ended has
\* one place in the scheduler's queues or the chain of those resumed.
THEOREM OnePlaceEach == Spec => []CoroutinesInOnePlace
<1>1. ActorInv => CoroutinesInOnePlace
  <2> SUFFICES ASSUME ActorInv PROVE CoroutinesInOnePlace
    OBVIOUS
  <2>1. Placed(AliveIn(stack), chain, ready, parked, timers, elapsed)
    BY DEF ActorInv
  <2>2. Alive = AliveIn(stack) /\ AliveIn(stack) \subseteq Ids /\ Script \notin Ids
    BY ActorAssumption DEF Alive, AliveIn, Ids, Script
  <2>3. timers \subseteq Ids
    <3>1. Script \in ToSet(chain)
      <4>1. Len(chain) \in Nat \ {0}
        BY <2>1, EmptySeq DEF Placed, IsSequence
      <4>2. 1 \in 1..Len(chain)
        BY <4>1
      <4>3. chain[1] \in ToSet(chain)
        BY <2>1, <4>2, ElementOfSeq DEF Placed, IsSequence
      <4>4. QED
        BY <2>1, <4>3 DEF Placed
    <3>2. QED
      BY <2>1, <2>2, <3>1 DEF Placed
  <2>4. IsFiniteSet(timers)
    <3>1. IsFiniteSet(Ids)
      BY ActorAssumption, FirstNumbers DEF Ids
    <3>2. QED
      BY <2>3, <3>1, FS_Subset
  <2>5. PICK t, c : t = SetToSeq(timers) /\ c = Tail(chain)
    OBVIOUS
  <2>6. t \in Seq(timers) /\ IsInjective(t) /\ ToSet(t) = timers
    BY <2>4, <2>5, SetInOrder
  <2>7. chain \in Seq(ToSet(chain)) /\ chain # <<>> /\ IsInjective(chain) /\ Head(chain) = Script
    BY <2>1, HeadTailProperties DEF Placed, IsSequence
  <2>8. /\ ToSet(chain) = ToSet(c) \cup {Script} /\ IsInjective(c) /\ Script \notin ToSet(c)
        /\ c \in Seq(ToSet(chain))
    BY <2>5, <2>7, TailSet, HeadTailProperties
  <2>9. PICK S : S = ToSet(ready) \cup ToSet(parked) \cup timers \cup ToSet(chain)
    OBVIOUS
  <2>10. ready \in Seq(S) /\ parked \in Seq(S) /\ t \in Seq(S) /\ c \in Seq(S)
    <3>1. ready \in Seq(ToSet(ready)) /\ parked \in Seq(ToSet(parked))
      BY <2>1 DEF Placed, IsSequence
    <3>2. ready \in Seq(S)
      BY <2>9, <3>1, SeqMonotonic
    <3>3. parked \in Seq(S)
      BY <2>9, <3>1, SeqMonotonic
    <3>4. t \in Seq(S)
      BY <2>6, <2>9, SeqMonotonic
    <3>5. c \in Seq(S)
      BY <2>8, <2>9, SeqMonotonic
    <3>6. QED
      BY <3>2, <3>3, <3>4, <3>5
  <2>11. PICK a, b, d : a = ready \o parked /\ b = a \o t /\ d = b \o c
    OBVIOUS
  <2>12. a \in Seq(S) /\ ToSet(a) = ToSet(ready) \cup ToSet(parked) /\ IsInjective(a)
    <3>1. a \in Seq(S) /\ ToSet(a) = ToSet(ready) \cup ToSet(parked)
      BY ONLY <2>10, <2>11, ConcatSet
    <3>2. IsInjective(ready) /\ IsInjective(parked) /\ ToSet(ready) \cap ToSet(parked) = {}
      BY <2>1 DEF Placed
    <3>3. IsInjective(a)
      BY ONLY <2>10, <2>11, <3>2, ConcatSet
    <3>4. QED
      BY <3>1, <3>3
  <2>13. b \in Seq(S) /\ ToSet(b) = ToSet(a) \cup timers /\ IsInjective(b)
    <3>1. b \in Seq(S) /\ ToSet(b) = ToSet(a) \cup ToSet(t)
      <4>1. b \in Seq(S)
        BY ONLY <2>10, <2>11, <2>12, ConcatSet
      <4>2. a \in Seq(S) /\ t \in Seq(S) /\ b = a \o t
        BY <2>10, <2>11, <2>12
      <4>3. ToSet(b) = ToSet(a) \cup ToSet(t)
        BY ONLY <4>2, ConcatSet
      <4>4. QED
        BY <4>1, <4>3
    <3>2. ToSet(a) \cap ToSet(t) = {}
      BY <2>1, <2>6, <2>12 DEF Placed
    <3>3. IsInjective(b)
      BY ONLY <2>6, <2>10, <2>11, <2>12, <3>2, ConcatSet
    <3>4. QED
      BY <2>6, <3>1, <3>3
  <2>14. d \in Seq(S) /\ ToSet(d) = ToSet(b) \cup ToSet(c) /\ IsInjective(d)
    <3>1. d \in Seq(S) /\ ToSet(d) = ToSet(b) \cup ToSet(c)
      <4>1. d \in Seq(S)
        BY ONLY <2>10, <2>11, <2>13, ConcatSet
      <4>2. b \in Seq(S) /\ c \in Seq(S) /\ d = b \o c
        BY <2>10, <2>11, <2>13
      <4>3. ToSet(d) = ToSet(b) \cup ToSet(c)
        BY ONLY <4>2, ConcatSet
      <4>4. QED
        BY <4>1, <4>3
    <3>2. ToSet(b) \cap ToSet(c) = {}
      BY <2>1, <2>8, <2>12, <2>13 DEF Placed
    <3>3. IsInjective(d)
      BY ONLY <2>8, <2>10, <2>11, <2>13, <3>2, ConcatSet
    <3>4. QED
      BY <3>1, <3>3
  <2>15. ToSet(d) = Alive
    <3>1. Script \notin ToSet(d)
      <4>1. Script \notin ToSet(ready) \cup ToSet(parked) \cup timers
        BY <2>1, <2>8 DEF Placed
      <4>2. QED
        BY <2>8, <2>12, <2>13, <2>14, <4>1
    <3>2. ToSet(d) \cup {Script} = AliveIn(stack) \cup {Script}
      BY <2>1, <2>8, <2>12, <2>13, <2>14 DEF Placed
    <3>3. QED
      BY <2>2, <3>1, <3>2
  <2>16. Len(d) = Cardinality(Alive)
    BY <2>14, <2>15, InjectiveCount
  <2>17. QED
    BY <2>5, <2>11, <2>15, <2>16 DEF CoroutinesInOnePlace
<1>2. QED
  BY <1>1, ActorsInvariant, PTL

\* CURRENT_YIELDER points into a coroutine that has not been freed.
THEOREM YielderNeverDangles == Spec => []YielderAlive
<1>1. ActorInv => YielderAlive
  BY DEF ActorInv, AliveIn, YielderAlive
<1>2. QED
  BY <1>1, ActorsInvariant, PTL

-----------------------------------------------------------------------------
(* What is left in the mailboxes.                                           *)

\* The script is in the final drain.
Draining(s) == s # <<>> /\ s[1].at = "final"

\* Coroutines, and the script in the final drain, have operations of handlers ahead.
OfHandlers(ops, f, s) ==
  f # Script \/ Draining(s) => \A i \in 1..Len(s) : s[i].at = "code" => s[i].rest \in Seq(ops)

\* The frames u come of s within a final drain, or begin it.
Follows(s, u) == Draining(u) => u[1] = Final(1) \/ (Draining(s) /\ u[1] = s[1])

Goes(ops, f, s, u) == OfHandlers(ops, f, u) /\ Follows(s, u)

\* The mailboxes of the actors that the final drain has left behind have
\* messages of handlers only.
Behind(ops, mb, s) ==
  Draining(s) => \A j \in 1..Len(Actors) : j < s[1].next =>
    \A k \in 1..Len(mb[Actors[j]]) :
      \E op \in ops : op[1] = "send" /\ op[2] = Actors[j] /\ op[3] = mb[Actors[j]][k].kind

\* It has been to the last actor.
DrainedLast(s) == Actors # <<>> /\ Draining(s) /\ s[1].next > Len(Actors)

\* Then the last mailbox is empty, and nothing happens but the end.
LeftInv ==
  /\ \A f \in Flows : OfHandlers(HandlerOperations, f, stack[f])
  /\ Behind(HandlerOperations, mailbox, stack[Script])
  /\ DrainedLast(stack[Script]) =>
       Len(stack[Script]) = 1 /\ Running = Script /\ mailbox[Actors[Len(Actors)]] = <<>>
  /\ status = "done" => Draining(stack[Script]) /\ stack[Script][1].next > Len(Actors)

\* One more frame.
LEMMA PushGoes ==
  ASSUME NEW ops, NEW f, NEW s, NEW p, IsSequence(p), Goes(ops, f, s, p),
         NEW x, x.at # "final", x.at = "code" => x.rest \in Seq(ops),
         NEW u, u = Append(p, x)
  PROVE  Goes(ops, f, s, u)
<1>1. IsSequence(u) /\ Len(p) \in Nat /\ Len(u) = Len(p) + 1 /\ u[Len(p) + 1] = x
  BY ONLY IsSequence(p), u = Append(p, x), AppendOne
<1>2. \A i \in 1..Len(p) : u[i] = p[i]
  BY ONLY IsSequence(p), u = Append(p, x), AppendOne
<1>3. Draining(u) => Draining(p) /\ u[1] = p[1]
  <2>1. CASE Len(p) = 0
    BY <1>1, <2>1 DEF Draining
  <2>2. CASE Len(p) # 0
    <3>1. p # <<>> /\ 1 \in 1..Len(p) /\ u[1] = p[1]
      BY <1>1, <1>2, <2>2, EmptySeq
    <3>2. QED
      BY <3>1 DEF Draining
  <2>3. QED
    BY <2>1, <2>2
<1>4. OfHandlers(ops, f, u)
  <2>1. ASSUME NEW i \in 1..Len(u), u[i].at = "code", f # Script \/ Draining(u) PROVE u[i].rest \in Seq(ops)
    <3>1. CASE i = Len(p) + 1
      BY <1>1, <2>1, <3>1
    <3>2. CASE i # Len(p) + 1
      <4>1. i \in 1..Len(p) /\ u[i] = p[i]
        BY <1>1, <1>2, <3>2
      <4>2. QED
        BY <1>3, <2>1, <4>1 DEF Goes, OfHandlers
    <3>3. QED
      BY <3>1, <3>2
  <2>2. QED
    BY <2>1 DEF OfHandlers
<1>5. QED
  BY <1>3, <1>4 DEF Goes, Follows

\* One less.
LEMMA PopGoes ==
  ASSUME NEW ops, NEW f, NEW s, IsSequence(s), s # <<>>, OfHandlers(ops, f, s)
  PROVE  Goes(ops, f, s, Front(s)) /\ IsSequence(Front(s))
<1>1. PICK u : u = Front(s)
  OBVIOUS
<1>2. s \in Seq(ToSet(s))
  BY DEF IsSequence
<1>3. /\ u \in Seq(ToSet(s)) /\ Len(u) = Len(s) - 1 /\ Len(s) \in Nat \ {0}
      /\ \A i \in 1..(Len(s) - 1) : u[i] = s[i]
  BY ONLY <1>1, <1>2, s # <<>>, FrontProperties
<1>4. Draining(u) => Draining(s) /\ u[1] = s[1]
  <2>1. ASSUME u # <<>> PROVE u[1] = s[1]
    <3>1. Len(u) # 0
      BY <1>3, <2>1, EmptySeq
    <3>2. 1 \in 1..(Len(s) - 1)
      BY <1>3, <3>1
    <3>3. QED
      BY <1>3, <3>2
  <2>2. QED
    BY <2>1 DEF Draining
<1>5. ASSUME NEW i \in 1..Len(u), u[i].at = "code", f # Script \/ Draining(u) PROVE u[i].rest \in Seq(ops)
  <2>1. i \in 1..Len(s) /\ u[i] = s[i]
    BY <1>3
  <2>2. QED
    BY <1>4, <1>5, <2>1 DEF OfHandlers
<1>6. QED
  BY <1>1, <1>3, <1>4, <1>5, OwnSet DEF Goes, Follows, OfHandlers

\* No frame, or one: of the final drain, or of a handler.
LEMMA FewGoes ==
  ASSUME NEW ops, NEW f, NEW s
  PROVE  /\ Goes(ops, f, s, <<>>)
         /\ \A i : OfHandlers(ops, f, <<Final(i)>>)
         /\ Goes(ops, f, s, <<Final(1)>>)
         /\ \A m, r : r \in Seq(ops) => Goes(ops, f, s, <<Code(m, r)>>)
<1>1. Len(<<>>) = 0
  OBVIOUS
<1>2. Goes(ops, f, s, <<>>)
  BY <1>1 DEF Goes, OfHandlers, Follows, Draining
<1>3. \A x : Len(<<x>>) = 1 /\ <<x>>[1] = x
  OBVIOUS
<1>4. \A x : (x.at = "code" => x.rest \in Seq(ops)) => OfHandlers(ops, f, <<x>>)
  BY <1>3 DEF OfHandlers
<1>5. ASSUME NEW i PROVE OfHandlers(ops, f, <<Final(i)>>)
  <2>1. Final(i).at # "code"
    BY DEF Final
  <2>2. QED
    BY <1>4, <2>1
<1>6. Follows(s, <<Final(1)>>)
  BY <1>3 DEF Follows
<1>7. ASSUME NEW m, NEW r, r \in Seq(ops) PROVE Goes(ops, f, s, <<Code(m, r)>>)
  <2>1. Code(m, r).at = "code" /\ Code(m, r).rest = r
    BY DEF Code
  <2>2. ~Draining(<<Code(m, r)>>)
    BY <1>3, <2>1 DEF Draining
  <2>3. QED
    BY <1>4, <1>7, <2>1, <2>2 DEF Goes, Follows
<1>8. QED
  BY <1>2, <1>5, <1>6, <1>7 DEF Goes

\* The frames stay as they are.
LEMMA SameGoes ==
  ASSUME NEW ops, NEW f, NEW s, OfHandlers(ops, f, s)
  PROVE  Goes(ops, f, s, s)
BY DEF Goes, Follows

\* Each handler is made of the operations of handlers.
LEMMA BodiesOfHandlers ==
  ASSUME ActorInv, NEW k \in DOMAIN prog.body
  PROVE  prog.body[k] \in Seq(HandlerOperations)
<1>1. prog.body[k] \in Seq(Operations(prog))
  BY ProgramsAssumption DEF ActorInv
<1>2. prog.body[k] \in Seq(ToSet(prog.body[k]))
  BY <1>1, OwnSet DEF IsSequence
<1>3. ToSet(prog.body[k]) \subseteq HandlerOperations
  BY DEF HandlerOperations
<1>4. QED
  BY <1>2, <1>3, SeqMonotonic

\* A flow goes on to its next operation.
LEMMA StepGoes ==
  ASSUME ActorInv, LeftInv, NEW f \in Flows, NEW op, At(f, op)
  PROVE  /\ Goes(HandlerOperations, f, stack[f], Stepped(f)) /\ IsSequence(Stepped(f))
         /\ f # Script \/ Draining(stack[f]) => Head(Top(f).rest) \in HandlerOperations
<1>1. /\ status = "run" /\ f = Running /\ Top(f).at = "code" /\ Top(f).rest # <<>>
  BY DEF At, Inside
<1>2. PICK ops, s, t, n : ops = HandlerOperations /\ s = stack[f] /\ t = Top(f).rest /\ n = Len(s)
  OBVIOUS
<1>3. /\ s # <<>> /\ IsSequence(s) /\ n \in Nat \ {0} /\ Top(f) = s[n] /\ OfHandlers(ops, f, s)
      /\ t \in Seq(Operations(prog))
  <2>1. s # <<>> /\ Frames(Operations(prog), f, s) /\ n \in Nat \ {0} /\ Top(f) = s[n]
    BY <1>1, <1>2, RunningFlow
  <2>2. n \in 1..n
    BY <2>1
  <2>3. QED
    BY <1>1, <1>2, <2>1, <2>2 DEF Frames, LeftInv
<1>4. f # Script \/ Draining(s) => t \in Seq(ops)
  <2>1. n \in 1..Len(s) /\ s[n].at = "code" /\ s[n].rest = t
    BY <1>1, <1>2, <1>3
  <2>2. QED
    BY <1>3, <2>1 DEF OfHandlers
<1>5. PICK u, x, p : u = Stepped(f) /\ x = Code(Top(f).msg, Tail(t)) /\ p = Front(s)
  OBVIOUS
<1>6. x.at = "code" /\ x.rest = Tail(t)
  BY <1>5 DEF Code
<1>7. u = Append(p, x)
  BY <1>2, <1>5 DEF Stepped
<1>8. Goes(ops, f, s, p) /\ IsSequence(p)
  BY ONLY <1>3, <1>5, PopGoes
<1>9. IsSequence(u) /\ Len(p) \in Nat /\ Len(u) = Len(p) + 1
  BY ONLY <1>7, <1>8, AppendOne
<1>10. CASE f # Script \/ Draining(s)
  <2>1. t \in Seq(ops) /\ t # <<>>
    BY <1>1, <1>2, <1>4, <1>10
  <2>2. x.rest \in Seq(ops) /\ Head(t) \in ops
    BY <1>6, <2>1, HeadTailProperties
  <2>3. x.at # "final"
    BY <1>6
  <2>4. Goes(ops, f, s, u)
    BY ONLY <1>7, <1>8, <2>2, <2>3, PushGoes
  <2>5. QED
    BY <1>2, <1>5, <1>9, <2>2, <2>4
<1>11. CASE f = Script /\ ~Draining(s)
  <2>1. ~Draining(u)
    <3>1. CASE Len(p) = 0
      <4>1. u[1] = x
        <5>1. u[Len(p) + 1] = x
          BY ONLY <1>7, <1>8, AppendOne
        <5>2. QED
          BY <3>1, <5>1
      <4>2. QED
        BY <1>6, <4>1 DEF Draining
    <3>2. CASE Len(p) # 0
      <4>1. p # <<>> /\ 1 \in 1..Len(p)
        BY <1>9, <3>2, EmptySeq
      <4>2. \A i \in 1..Len(p) : u[i] = p[i]
        BY ONLY <1>7, <1>8, AppendOne
      <4>3. u[1] = p[1]
        BY <4>1, <4>2
      <4>4. s \in Seq(ToSet(s))
        BY <1>3 DEF IsSequence
      <4>5. Len(p) = Len(s) - 1 /\ \A i \in 1..(Len(s) - 1) : p[i] = s[i]
        BY ONLY <1>3, <1>5, <4>4, FrontProperties
      <4>6. p[1] = s[1]
        BY <4>1, <4>5
      <4>7. QED
        BY <1>3, <1>11, <4>3, <4>6 DEF Draining
    <3>3. QED
      BY <3>1, <3>2
  <2>2. QED
    BY <1>2, <1>5, <1>9, <1>11, <2>1 DEF Goes, OfHandlers, Follows
<1>12. QED
  BY <1>10, <1>11

\* Of the frames st of all flows, the frames st2 have come.
AllGoes(ops, st, st2) == \A g \in Flows : Goes(ops, g, st[g], st2[g])

\* One flow's frames change.
LEMMA SetGoes ==
  ASSUME NEW ops, NEW st0, NEW st, DOMAIN st = Flows, AllGoes(ops, st0, st),
         NEW f \in Flows, NEW u, Goes(ops, f, st0[f], u), NEW st2, st2 = [st EXCEPT ![f] = u]
  PROVE  AllGoes(ops, st0, st2)
BY DEF AllGoes

\* An error ends what the flow is in the middle of.
LEMMA UnwindGoes ==
  ASSUME NEW ops, NEW st0, NEW st, DOMAIN st = Flows, AllGoes(ops, st0, st), NEW f \in Flows, Unwind(f, st)
  PROVE  AllGoes(ops, st0, stack')
<1>1. PICK g, u : g \in Flows /\ stack' = [st EXCEPT ![g] = u] /\ u \in {<<>>, <<Final(1)>>}
  BY DEF Unwind, Flows
<1>2. Goes(ops, g, st0[g], u)
  BY <1>1, FewGoes
<1>3. QED
  BY <1>1, <1>2, SetGoes

\* A drain begins, with the handlers it spawns.
LEMMA DrainGoes ==
  ASSUME ActorInv, LeftInv, NEW f \in Flows, NEW s, IsSequence(s),
         Goes(HandlerOperations, f, stack[f], s), DrainMailboxesAsync(f, s)
  PROVE  AllGoes(HandlerOperations, stack, stack')
<1>1. PICK w : w = [i \in Flows |->
           IF \E k \in Spawned : Queued[k].id = i
           THEN <<Code(Queued[CHOOSE k \in Spawned : Queued[k].id = i].id,
                       prog.body[Queued[CHOOSE k \in Spawned : Queued[k].id = i].kind])>>
           ELSE stack[i]]
  OBVIOUS
<1>2. PICK ops : ops = HandlerOperations
  OBVIOUS
<1>3. ASSUME NEW i \in Flows PROVE Goes(ops, i, stack[i], w[i])
  <2>1. CASE \E k \in Spawned : Queued[k].id = i
    <3>1. PICK k : k = CHOOSE j \in Spawned : Queued[j].id = i
      OBVIOUS
    <3>2. k \in Spawned /\ w[i] = <<Code(Queued[k].id, prog.body[Queued[k].kind])>>
      BY <1>1, <2>1, <3>1
    <3>3. prog.body[Queued[k].kind] \in Seq(ops)
      BY <1>2, <3>2, BodiesOfHandlers DEF Spawned, Handled
    <3>4. QED
      BY <3>2, <3>3, FewGoes
  <2>2. CASE ~ \E k \in Spawned : Queued[k].id = i
    <3>1. w[i] = stack[i] /\ OfHandlers(ops, i, stack[i])
      BY <1>1, <1>2, <2>2 DEF LeftInv
    <3>2. QED
      BY <3>1, SameGoes
  <2>3. QED
    BY <2>1, <2>2
<1>4. AllGoes(ops, stack, w) /\ DOMAIN w = Flows
  BY <1>1, <1>3 DEF AllGoes
<1>5. \/ stack' = [w EXCEPT ![f] = Append(s, Drain(TicksPerYield, FALSE))]
      \/ Unwind(f, w)
  BY <1>1 DEF DrainMailboxesAsync
<1>6. CASE stack' = [w EXCEPT ![f] = Append(s, Drain(TicksPerYield, FALSE))]
  <2>1. PICK u, x, s0 : u = Append(s, x) /\ x = Drain(TicksPerYield, FALSE) /\ s0 = stack[f]
    OBVIOUS
  <2>2. x.at = "drain"
    BY <2>1 DEF Drain
  <2>3. Goes(ops, f, s0, s)
    BY <1>2, <2>1
  <2>4. Goes(ops, f, s0, u)
    BY ONLY <2>1, <2>2, <2>3, IsSequence(s), PushGoes
  <2>5. QED
    BY <1>2, <1>4, <1>6, <2>1, <2>4, SetGoes
<1>7. CASE Unwind(f, w)
  BY <1>2, <1>4, <1>7, UnwindGoes
<1>8. QED
  BY <1>5, <1>6, <1>7

\* Whatever a flow does but for the final drain.
LEMMA ActGoes ==
  ASSUME ActorInv, LeftInv, NEW f \in Flows, Act(f)
  PROVE  AllGoes(HandlerOperations, stack, stack') \/ FinalDrain(f)
<1>1. PICK ops, st : ops = HandlerOperations /\ st = stack
  OBVIOUS
<1>2. DOMAIN st = Flows /\ AllGoes(ops, st, st)
  <2>1. \A g \in Flows : OfHandlers(ops, g, st[g])
    BY <1>1 DEF LeftInv
  <2>2. \A g \in Flows : Goes(ops, g, st[g], st[g])
    BY <2>1, SameGoes
  <2>3. QED
    BY <1>1, <2>2 DEF ActorInv, Stacks, AllGoes
<1>3. ASSUME NEW u, Goes(ops, f, st[f], u), stack' = [st EXCEPT ![f] = u] PROVE AllGoes(ops, st, stack')
  BY <1>2, <1>3, SetGoes
<1>4. CASE Unwind(f, stack)
  BY <1>1, <1>2, <1>4, UnwindGoes
<1>5. ASSUME status = "run" /\ f = Running
      PROVE  IsSequence(st[f]) /\ Goes(ops, f, st[f], Left(f)) /\ IsSequence(Left(f)) /\ Goes(ops, f, st[f], st[f])
  <2>1. stack[f] # <<>> /\ IsSequence(stack[f])
    BY <1>5, RunningFlow DEF Frames
  <2>2. QED
    BY <1>1, <1>2, <2>1, PopGoes DEF LeftInv, Left, AllGoes
<1>6. ASSUME NEW op, At(f, op) PROVE Goes(ops, f, st[f], Stepped(f)) /\ IsSequence(Stepped(f))
  BY <1>1, <1>6, StepGoes
<1>7. ASSUME NEW op, At(f, op), stack' = [stack EXCEPT ![f] = Stepped(f)] PROVE AllGoes(ops, st, stack')
  BY <1>1, <1>3, <1>6, <1>7
<1>8. ASSUME UNCHANGED stack PROVE AllGoes(ops, st, stack')
  BY <1>1, <1>2, <1>8
<1>9. CASE ActorSend(f) \/ ReadAsync(f) \/ Suspend(f)
  BY <1>1, <1>7, <1>9 DEF ActorSend, ReadAsync, Suspend, Awaiting
<1>10. CASE SuspendAnother(f) \/ Resume(f)
  BY <1>1, <1>8, <1>10 DEF SuspendAnother, Resume
<1>11. CASE Raise(f)
  BY <1>4, <1>11 DEF Raise
<1>12. CASE ActorRequest(f)
  <2>1. CASE ~Unwind(f, stack)
    <3>1. PICK k \in DOMAIN prog.body : stack' = [stack EXCEPT ![f] = Append(Stepped(f), Code(0, prog.body[k]))]
      BY <1>12, <2>1 DEF ActorRequest
    <3>2. PICK u, x, p, s : u = Append(p, x) /\ p = Stepped(f) /\ x = Code(0, prog.body[k]) /\ s = st[f]
      OBVIOUS
    <3>3. x.at = "code" /\ x.rest = prog.body[k]
      BY <3>2 DEF Code
    <3>4. x.rest \in Seq(ops) /\ x.at # "final"
      BY <1>1, <3>3, BodiesOfHandlers
    <3>5. Goes(ops, f, s, p) /\ IsSequence(p)
      BY <1>6, <1>12, <3>2 DEF ActorRequest
    <3>6. Goes(ops, f, s, u)
      BY ONLY <3>2, <3>4, <3>5, PushGoes
    <3>7. QED
      BY <1>1, <1>3, <3>1, <3>2, <3>6
  <2>2. QED
    BY <1>4, <2>1
<1>13. CASE Finish(f)
  <2>1. status = "run" /\ f = Running
    BY <1>13 DEF Finish, Inside
  <2>2. PICK u : stack' = [stack EXCEPT ![f] = u] /\ u \in {Left(f), <<Final(1)>>, <<>>}
    BY <1>13 DEF Finish
  <2>3. Goes(ops, f, st[f], u)
    BY <1>5, <2>1, <2>2, FewGoes
  <2>4. QED
    BY <1>1, <1>3, <2>2, <2>3
<1>14. CASE Yield(f)
  BY <1>1, <1>6, <1>14, DrainGoes DEF Yield
<1>15. CASE AwaitHere(f)
  <2>1. At(f, "await") /\ DrainMailboxesAsync(f, Append(Stepped(f), Wait))
    BY <1>15 DEF AwaitHere, Awaiting
  <2>2. PICK u, x, p, s : u = Append(p, x) /\ p = Stepped(f) /\ x = Wait /\ s = st[f]
    OBVIOUS
  <2>3. x.at = "wait"
    BY <2>2 DEF Wait
  <2>4. Goes(ops, f, s, p) /\ IsSequence(p)
    BY <1>6, <2>1, <2>2
  <2>5. Goes(ops, f, s, u)
    BY ONLY <2>2, <2>3, <2>4, PushGoes
  <2>6. IsSequence(u)
    BY ONLY <2>2, <2>4, AppendOne
  <2>7. QED
    BY <1>1, <2>1, <2>2, <2>5, <2>6, DrainGoes
<1>16. CASE AwaitedHere(f)
  <2>1. status = "run" /\ f = Running
    BY <1>16 DEF AwaitedHere, Inside
  <2>2. stack' = [stack EXCEPT ![f] = Left(f)] \/ DrainMailboxesAsync(f, stack[f])
    BY <1>16 DEF AwaitedHere
  <2>3. CASE DrainMailboxesAsync(f, stack[f])
    BY <1>1, <1>5, <2>1, <2>3, DrainGoes
  <2>4. QED
    BY <1>1, <1>3, <1>5, <2>1, <2>2, <2>3
<1>17. CASE Poll(f)
  <2>1. status = "run" /\ f = Running
    BY <1>17 DEF Poll, Inside
  <2>2. \/ Unwind(f, stack)
        \/ stack' = [stack EXCEPT ![f] = Left(f)]
        \/ \E n, e : stack' = [stack EXCEPT ![f] = Append(Left(f), Drain(n, e))]
    BY <1>17 DEF Poll
  <2>3. ASSUME NEW n, NEW e, stack' = [stack EXCEPT ![f] = Append(Left(f), Drain(n, e))]
        PROVE  AllGoes(ops, st, stack')
    <3>1. PICK u, x, p, s : u = Append(p, x) /\ p = Left(f) /\ x = Drain(n, e) /\ s = st[f]
      OBVIOUS
    <3>2. x.at = "drain"
      BY <3>1 DEF Drain
    <3>3. Goes(ops, f, s, p) /\ IsSequence(p)
      BY <1>5, <2>1, <3>1
    <3>4. Goes(ops, f, s, u)
      BY ONLY <3>1, <3>2, <3>3, PushGoes
    <3>5. QED
      BY <1>1, <1>3, <2>3, <3>1, <3>4
  <2>4. QED
    BY <1>1, <1>3, <1>4, <1>5, <2>1, <2>2, <2>3
<1>18. QED
  BY <1>1, <1>9, <1>10, <1>11, <1>12, <1>13, <1>14, <1>15, <1>16, <1>17 DEF Act

\* A message more, or none at all, in mailboxes that the final drain has left
\* behind, when the script goes on.
LEMMA BehindGoes ==
  ASSUME NEW ops, NEW mb, NEW mb2, NEW s, NEW u, Behind(ops, mb, s), Follows(s, u),
         Draining(s) => \A j \in 1..Len(Actors) : \A k \in 1..Len(mb2[Actors[j]]) :
           \/ k \in 1..Len(mb[Actors[j]]) /\ mb2[Actors[j]][k] = mb[Actors[j]][k]
           \/ \E op \in ops : op[1] = "send" /\ op[2] = Actors[j] /\ op[3] = mb2[Actors[j]][k].kind
  PROVE  Behind(ops, mb2, u)
<1>1. Final(1).next = 1
  BY DEF Final
<1>2. CASE u[1] = Final(1)
  <2>1. \A j \in 1..Len(Actors) : ~(j < u[1].next)
    BY <1>1, <1>2
  <2>2. QED
    BY <2>1 DEF Behind
<1>3. CASE Draining(u) /\ Draining(s) /\ u[1] = s[1]
  BY <1>3 DEF Behind
<1>4. CASE ~Draining(u)
  BY <1>4 DEF Behind
<1>5. QED
  BY <1>2, <1>3, <1>4 DEF Follows

\* The first messages of a mailbox stay when one comes.
LEMMA MailComes ==
  ASSUME Mailboxes(mailbox), NEW b \in ToSet(Actors), NEW m, NEW ops, NEW op \in ops,
         op[1] = "send", op[2] = b, op[3] = m.kind,
         NEW mb2, mb2 = [mailbox EXCEPT ![b] = Append(@, m)],
         NEW j \in 1..Len(Actors), NEW k \in 1..Len(mb2[Actors[j]])
  PROVE  \/ k \in 1..Len(mailbox[Actors[j]]) /\ mb2[Actors[j]][k] = mailbox[Actors[j]][k]
         \/ \E o \in ops : o[1] = "send" /\ o[2] = Actors[j] /\ o[3] = mb2[Actors[j]][k].kind
<1>1. PICK q, r : q = mailbox[b] /\ r = Append(q, m)
  OBVIOUS
<1>2. DOMAIN mailbox = ToSet(Actors) /\ IsSequence(q)
  BY <1>1 DEF Mailboxes
<1>3. mb2 = [mailbox EXCEPT ![b] = r]
  BY <1>1
<1>4. CASE Actors[j] # b
  BY <1>3, <1>4
<1>5. CASE Actors[j] = b
  <2>1. mb2[b] = r
    BY <1>2, <1>3
  <2>2. Len(q) \in Nat /\ Len(r) = Len(q) + 1 /\ r[Len(q) + 1] = m
    BY ONLY <1>1, <1>2, AppendOne
  <2>3. \A i \in 1..Len(q) : r[i] = q[i]
    BY ONLY <1>1, <1>2, AppendOne
  <2>4. k = Len(q) + 1 \/ k \in 1..Len(q)
    BY <1>5, <2>1, <2>2
  <2>5. CASE k = Len(q) + 1
    BY <1>5, <2>1, <2>2, <2>5
  <2>6. CASE k \in 1..Len(q)
    BY <1>1, <1>5, <2>1, <2>3, <2>6
  <2>7. QED
    BY <2>4, <2>5, <2>6
<1>6. QED
  BY <1>4, <1>5

\* What the mailboxes get, or lose, outside of the final drain.
LEMMA ActMail ==
  ASSUME ActorInv, LeftInv, NEW f \in Flows, Act(f), ~FinalDrain(f)
  PROVE  Behind(HandlerOperations, mailbox', stack'[Script])
<1>1. PICK ops, s, u : ops = HandlerOperations /\ s = stack[Script] /\ u = stack'[Script]
  OBVIOUS
<1>2. Behind(ops, mailbox, s) /\ Follows(s, u) /\ Script \in Flows
  BY <1>1, ActGoes DEF LeftInv, AllGoes, Goes, Flows
<1>3. PICK mb2 : mb2 = mailbox'
  OBVIOUS
<1>4. CASE mb2 = mailbox
  BY <1>1, <1>2, <1>3, <1>4, BehindGoes
<1>5. CASE mb2 = [a \in DOMAIN mailbox |-> <<>>]
  <2>1. ASSUME NEW j \in 1..Len(Actors) PROVE mb2[Actors[j]] = <<>>
    <3>1. Actors[j] \in DOMAIN mailbox
      BY ActorAssumption, ElementOfSeq DEF ActorInv, Mailboxes
    <3>2. QED
      BY <1>5, <3>1
  <2>2. \A j \in 1..Len(Actors) : \A k \in 1..Len(mb2[Actors[j]]) : FALSE
    BY <2>1
  <2>3. QED
    BY <1>1, <1>2, <1>3, <2>2, BehindGoes
<1>6. CASE ActorSend(f)
  <2>1. PICK b, m, op : b = Arg(f, 1) /\ m = [id |-> Len(sent) + 1, kind |-> Arg(f, 2)] /\ op = Head(Top(f).rest)
    OBVIOUS
  <2>2. At(f, "send") /\ mb2 = [mailbox EXCEPT ![b] = Append(@, m)]
    BY <1>3, <1>6, <2>1 DEF ActorSend
  <2>3. op[1] = "send" /\ op[2] = b /\ op[3] = m.kind
    BY <2>1, <2>2 DEF At, Arg
  <2>4. op \in Operations(prog)
    BY <2>1, <2>2, SteppedFrames
  <2>5. b \in ToSet(Actors)
    BY <2>3, <2>4, ProgramsAssumption DEF ActorInv
  <2>6. CASE Draining(s)
    <3>1. op \in ops
      BY <1>1, <2>1, <2>2, <2>6, StepGoes
    <3>2. Mailboxes(mailbox)
      BY DEF ActorInv
    <3>3. \A j \in 1..Len(Actors) : \A k \in 1..Len(mb2[Actors[j]]) :
           \/ k \in 1..Len(mailbox[Actors[j]]) /\ mb2[Actors[j]][k] = mailbox[Actors[j]][k]
           \/ \E o \in ops : o[1] = "send" /\ o[2] = Actors[j] /\ o[3] = mb2[Actors[j]][k].kind
      BY <2>2, <2>3, <2>5, <3>1, <3>2, MailComes
    <3>4. QED
      BY <1>1, <1>2, <1>3, <3>3, BehindGoes
  <2>7. CASE ~Draining(s)
    BY <1>1, <1>2, <1>3, <2>7, BehindGoes
  <2>8. QED
    BY <2>6, <2>7
<1>7. ASSUME NEW t, DrainMailboxesAsync(f, t) PROVE mb2 = [a \in DOMAIN mailbox |-> <<>>]
  BY <1>3, <1>7 DEF DrainMailboxesAsync
<1>8. mb2 = mailbox \/ mb2 = [a \in DOMAIN mailbox |-> <<>>] \/ ActorSend(f)
  <2>1. CASE Yield(f) \/ AwaitHere(f)
    BY <1>7, <2>1 DEF Yield, AwaitHere
  <2>2. CASE AwaitedHere(f)
    BY <1>3, <1>7, <2>2 DEF AwaitedHere
  <2>3. CASE ~(Yield(f) \/ AwaitHere(f) \/ AwaitedHere(f))
    BY <1>3, <2>3 DEF Act, ActorRequest, Raise, Finish, Resume, Poll, ReadAsync, Suspend, SuspendAnother
  <2>4. QED
    BY <2>1, <2>2, <2>3
<1>9. QED
  BY <1>4, <1>5, <1>6, <1>8

\* No step outside of the final drain is taken after its last actor, nor takes
\* it there, nor ends the program well.
LEMMA ActLeft ==
  ASSUME ActorInv, LeftInv, NEW f \in Flows, Act(f), ~FinalDrain(f)
  PROVE  LeftInv'
<1>1. PICK s, u : s = stack[Script] /\ u = stack'[Script]
  OBVIOUS
<1>2. status = "run" /\ f = Running /\ Top(f).at # "final"
  BY DEF Act, ActorSend, ActorRequest, Raise, Finish, Yield, Resume, Poll, ReadAsync, Suspend,
         SuspendAnother, AwaitHere, AwaitedHere, FinalDrain, Awaiting, At, Inside
<1>3. ~DrainedLast(s)
  <2> SUFFICES ASSUME DrainedLast(s) PROVE FALSE
    OBVIOUS
  <2>1. Len(s) = 1 /\ f = Script /\ s[1].at = "final"
    BY <1>1, <1>2 DEF LeftInv, DrainedLast, Draining
  <2>2. Top(f) = s[1]
    BY <1>1, <1>2, <2>1, RunningFlow
  <2>3. QED
    BY <1>2, <2>1, <2>2
<1>4. AllGoes(HandlerOperations, stack, stack') /\ prog' = prog /\ Script \in Flows
  <2>1. prog' = prog
    BY DEF Act, ActorSend, ActorRequest, Raise, Finish, Yield, Resume, Poll, ReadAsync, Suspend,
           SuspendAnother, AwaitHere, AwaitedHere, FinalDrain, DrainMailboxesAsync
  <2>2. QED
    BY <2>1, ActGoes DEF Flows
<1>5. ~DrainedLast(u)
  <2>1. Follows(s, u)
    BY <1>1, <1>4 DEF AllGoes, Goes
  <2>2. Final(1).next = 1
    BY DEF Final
  <2>3. Actors # <<>> => Len(Actors) \in Nat /\ Len(Actors) # 0
    BY ActorAssumption, EmptySeq, LenProperties
  <2>4. QED
    BY <1>3, <2>1, <2>2, <2>3 DEF Follows, DrainedLast
<1>6. status' # "done"
  BY <1>2 DEF Act, ActorSend, ActorRequest, Raise, Finish, Yield, Resume, Poll, ReadAsync, Suspend,
              SuspendAnother, AwaitHere, AwaitedHere, DrainMailboxesAsync, Unwind
<1>7. HandlerOperations' = HandlerOperations
  BY <1>4 DEF HandlerOperations
<1>8. \A g \in Flows : OfHandlers(HandlerOperations, g, stack'[g])
  BY <1>4 DEF AllGoes, Goes
<1>9. QED
  BY <1>1, <1>5, <1>6, <1>7, <1>8, ActMail DEF LeftInv

\* The final drain leaves an actor behind when its mailbox is empty.
LEMMA FinalLeft ==
  ASSUME ActorInv, LeftInv, NEW f \in Flows, FinalDrain(f)
  PROVE  LeftInv'
<1>1. /\ status = "run" /\ f = Running /\ Top(f).at = "final" /\ UNCHANGED prog
  BY DEF FinalDrain, Inside
<1>2. PICK ops, s, i : ops = HandlerOperations /\ s = stack[Script] /\ i = Top(f).next
  OBVIOUS
<1>3. f = Script /\ Script \in Flows /\ s # <<>> /\ IsSequence(s) /\ Len(s) = 1 /\ s[1] = Top(f) /\ i \in Nat \ {0}
  <2>1. stack[f] # <<>> /\ Frames(Operations(prog), f, stack[f])
        /\ Len(stack[f]) \in Nat \ {0} /\ Top(f) = stack[f][Len(stack[f])]
    BY <1>1, RunningFlow
  <2>2. Len(stack[f]) \in 1..Len(stack[f])
    BY <2>1
  <2>3. f = Script /\ Len(stack[f]) = 1 /\ Top(f).next \in Nat \ {0}
    BY <1>1, <2>1, <2>2 DEF Frames
  <2>4. Script \in Flows /\ IsSequence(stack[f])
    BY <2>1 DEF Frames, Flows
  <2>5. QED
    BY <1>2, <2>1, <2>3, <2>4
<1>4. Draining(s) /\ s[1].next = i
  BY <1>1, <1>2, <1>3 DEF Draining
<1>5. HandlerOperations' = ops
  BY <1>1, <1>2 DEF HandlerOperations
<1>6. DOMAIN stack = Flows /\ DOMAIN mailbox = ToSet(Actors) /\ Mailboxes(mailbox)
  BY DEF ActorInv, Stacks, Mailboxes
<1>7. \A g \in Flows : OfHandlers(ops, g, stack[g])
  BY <1>2 DEF LeftInv
<1>8. Behind(ops, mailbox, s)
  BY <1>2 DEF LeftInv
<1>9. i \in 1..Len(Actors) \/ i > Len(Actors)
  BY <1>3, ActorAssumption, LenProperties
<1>10. CASE i > Len(Actors)
  <2>1. UNCHANGED <<mailbox, stack, chain>> /\ status' = "done"
    BY <1>2, <1>10 DEF FinalDrain
  <2>2. Running' = Running
    BY <2>1 DEF Running
  <2>3. QED
    BY <1>2, <1>4, <1>5, <1>7, <1>8, <1>10, <2>1, <2>2 DEF LeftInv
<1>11. ASSUME i \in 1..Len(Actors) PROVE ~(i > Len(Actors)) /\ Actors[i] \in ToSet(Actors)
  BY <1>3, <1>11, ActorAssumption, LenProperties, ElementOfSeq
<1>12. CASE i \in 1..Len(Actors) /\ mailbox[Actors[i]] = <<>>
  <2>1. /\ stack' = [stack EXCEPT ![Script] = <<Final(i + 1)>>]
        /\ UNCHANGED <<mailbox, chain, status>>
    BY <1>2, <1>3, <1>11, <1>12 DEF FinalDrain
  <2>2. PICK u : u = <<Final(i + 1)>>
    OBVIOUS
  <2>3. stack'[Script] = u /\ Len(u) = 1 /\ u # <<>> /\ u[1] = Final(i + 1) /\ Running' = Running
    BY <1>3, <1>6, <2>1, <2>2 DEF Running
  <2>4. u[1].next = i + 1
    BY <2>3 DEF Final
  <2>5. \A g \in Flows : OfHandlers(ops, g, stack'[g])
    BY <1>6, <1>7, <2>1, FewGoes
  <2>6. Behind(ops, mailbox, u)
    <3>1. ASSUME NEW j \in 1..Len(Actors), j < i + 1, NEW k \in 1..Len(mailbox[Actors[j]])
          PROVE  \E op \in ops : op[1] = "send" /\ op[2] = Actors[j] /\ op[3] = mailbox[Actors[j]][k].kind
      <4>1. j # i
        <5>1. Len(<<>>) = 0 /\ 1..0 = {}
          OBVIOUS
        <5>2. QED
          BY <1>12, <3>1, <5>1
      <4>2. j < i
        BY <1>3, <3>1, <4>1
      <4>3. QED
        BY <1>4, <1>8, <3>1, <4>2 DEF Behind
    <3>2. QED
      BY <2>4, <3>1 DEF Behind
  <2>7. DrainedLast(u) => mailbox[Actors[Len(Actors)]] = <<>>
    <3>1. i + 1 > Len(Actors) => i = Len(Actors)
      BY <1>12, ActorAssumption, LenProperties
    <3>2. QED
      BY <1>12, <2>4, <3>1 DEF DrainedLast
  <2>8. QED
    BY <1>1, <1>3, <1>5, <2>1, <2>3, <2>5, <2>6, <2>7 DEF LeftInv
<1>13. CASE i \in 1..Len(Actors) /\ mailbox[Actors[i]] # <<>>
  <2>1. PICK q, mb, m, b : /\ q = mailbox[Actors[i]] /\ mb = [mailbox EXCEPT ![Actors[i]] = Tail(q)] /\ m = Head(q)
                           /\ b = IF Handled(m) THEN prog.body[m.kind] ELSE <<>>
    OBVIOUS
  <2>2. PICK x, u, st : x = Code(m.id, b) /\ u = Append(s, x) /\ st = [stack EXCEPT ![Script] = u]
    OBVIOUS
  <2>3. mailbox' = mb
    BY <1>2, <1>3, <1>11, <1>13, <2>1 DEF FinalDrain
  <2>4. (stack' = st /\ UNCHANGED status) \/ Unwind(Script, st)
    BY <1>2, <1>3, <1>11, <1>13, <2>1, <2>2 DEF FinalDrain
  <2>5. b \in Seq(ops)
    <3>1. Handled(m) => b \in Seq(ops)
      BY <1>2, <2>1, BodiesOfHandlers DEF Handled
    <3>2. QED
      BY <2>1, <3>1
  <2>6. x.at = "code" /\ x.rest = b
    BY <2>2 DEF Code
  <2>7. Goes(ops, Script, s, s)
    BY <1>2, <1>3, <1>7, SameGoes
  <2>8. Goes(ops, Script, s, u)
    <3>1. x.at # "final" /\ x.rest \in Seq(ops)
      BY <2>5, <2>6
    <3>2. u = Append(s, x)
      BY <2>2
    <3>3. QED
      BY ONLY <1>3, <2>7, <3>1, <3>2, PushGoes
  <2>9. u[1] = s[1] /\ u # <<>>
    <3>1. u = Append(s, x)
      BY <2>2
    <3>2. Len(u) = Len(s) + 1 /\ IsSequence(u)
      BY ONLY <1>3, <3>1, AppendOne
    <3>3. \A k \in 1..Len(s) : u[k] = s[k]
      BY ONLY <1>3, <3>1, AppendOne
    <3>4. QED
      BY <1>3, <3>2, <3>3, EmptySeq
  <2>10. Behind(ops, mb, u)
    <3>1. ASSUME NEW j \in 1..Len(Actors), j < i, NEW k \in 1..Len(mb[Actors[j]])
          PROVE  \E op \in ops : op[1] = "send" /\ op[2] = Actors[j] /\ op[3] = mb[Actors[j]][k].kind
      <4>1. Actors[j] # Actors[i]
        BY <1>13, <3>1, ActorAssumption, InjectiveDef
      <4>2. mb[Actors[j]] = mailbox[Actors[j]]
        BY <2>1, <4>1
      <4>3. QED
        BY <1>4, <1>8, <3>1, <4>2 DEF Behind
    <3>2. QED
      BY <1>4, <2>9, <3>1 DEF Behind
  <2>11. \A g \in Flows : OfHandlers(ops, g, st[g])
    BY <1>3, <1>6, <1>7, <2>2, <2>8 DEF Goes
  <2>12. st[Script] = u /\ DOMAIN st = Flows
    BY <1>3, <1>6, <2>2
  <2>13. CASE stack' = st /\ UNCHANGED status
    <3>1. ~DrainedLast(u)
      BY <1>4, <1>11, <1>13, <2>9 DEF DrainedLast
    <3>2. QED
      BY <1>1, <1>5, <2>3, <2>10, <2>11, <2>12, <2>13, <3>1 DEF LeftInv
  <2>14. CASE Unwind(Script, st)
    <3>1. Head(stack[Script]).at = "final"
      BY <1>1, <1>2, <1>3, HeadTailProperties DEF IsSequence
    <3>2. stack' = [st EXCEPT ![Script] = <<>>] /\ status' = "error"
      BY <2>14, <3>1 DEF Unwind
    <3>3. stack'[Script] = <<>> /\ ~Draining(<<>>)
      BY <1>3, <2>12, <3>2 DEF Draining
    <3>4. \A g \in Flows : OfHandlers(ops, g, stack'[g])
      BY <2>11, <2>12, <3>2, FewGoes DEF Goes
    <3>5. QED
      BY <1>5, <3>2, <3>3, <3>4 DEF LeftInv, Behind, DrainedLast
  <2>15. QED
    BY <2>4, <2>13, <2>14
<1>14. QED
  BY <1>9, <1>10, <1>12, <1>13

\* At first nothing is drained.
LEMMA LeftInit == Init => LeftInv
<1> SUFFICES ASSUME Init PROVE LeftInv
  OBVIOUS
<1>1. \A f \in Flows : stack[f] = <<>> \/ (f = Script /\ stack[f] = <<Code(0, prog.script)>>)
  BY DEF Init
<1>2. \A x : Len(<<x>>) = 1 /\ <<x>>[1] = x
  OBVIOUS
<1>3. Code(0, prog.script).at # "final"
  BY DEF Code
<1>4. \A f \in Flows : ~Draining(stack[f])
  BY <1>1, <1>2, <1>3 DEF Draining
<1>5. \A f \in Flows : OfHandlers(HandlerOperations, f, stack[f])
  BY <1>1, <1>4, FewGoes DEF OfHandlers, Goes
<1>6. Script \in Flows
  BY DEF Flows
<1>7. status = "run"
  BY DEF Init
<1>8. QED
  BY <1>4, <1>5, <1>6, <1>7 DEF LeftInv, Behind, DrainedLast

\* Every step keeps what is known of the mailboxes.
LEMMA LeftNext ==
  ASSUME ActorInv, LeftInv, [Next]_vars
  PROVE  LeftInv'
<1>1. ASSUME UNCHANGED <<prog, mailbox, stack, chain, status>> PROVE LeftInv'
  <2>1. HandlerOperations' = HandlerOperations /\ Running' = Running
    BY <1>1 DEF HandlerOperations, Running
  <2>2. QED
    BY <1>1, <2>1 DEF LeftInv
<1>2. ASSUME NEW f \in Flows, Act(f) PROVE LeftInv'
  BY <1>2, ActLeft, FinalLeft
<1>3. ASSUME NEW f \in Flows, Arrive(f) \/ Elapse(f) PROVE LeftInv'
  BY <1>1, <1>3 DEF Arrive, Elapse
<1>4. ASSUME NEW k \in Tasks, Complete(k) PROVE LeftInv'
  BY <1>1, <1>4 DEF Complete
<1>5. CASE UNCHANGED vars
  BY <1>1, <1>5 DEF vars
<1>6. QED
  BY <1>2, <1>3, <1>4, <1>5 DEF Next, Run, World

\* What a program that is done leaves.
LEMMA LeftAtEnd ==
  ASSUME ActorInv, LeftInv
  PROVE  MailLeft
<1> SUFFICES ASSUME status = "done", NEW i \in DOMAIN Actors, NEW m \in ToSet(mailbox[Actors[i]])
             PROVE  i < Len(Actors) /\ FromHandler(Actors[i], m)
  BY DEF MailLeft
<1>1. i \in 1..Len(Actors) /\ Len(Actors) \in Nat /\ Actors[i] \in ToSet(Actors)
  BY ActorAssumption, LenProperties, ElementOfSeq
<1>2. PICK q : q = mailbox[Actors[i]]
  OBVIOUS
<1>3. IsSequence(q)
  BY <1>1, <1>2 DEF ActorInv, Mailboxes
<1>4. PICK k \in 1..Len(q) : m = q[k]
  BY <1>2, <1>3, ToSetDef DEF IsSequence
<1>5. PICK s : s = stack[Script]
  OBVIOUS
<1>6. Draining(s) /\ s[1].next > Len(Actors) /\ Behind(HandlerOperations, mailbox, s) /\ s[1].next \in Nat
  <2>1. Draining(s) /\ s[1].next > Len(Actors) /\ Behind(HandlerOperations, mailbox, s)
    BY <1>5 DEF LeftInv
  <2>2. Frames(Operations(prog), Script, s) /\ Len(s) \in Nat \ {0}
    BY <1>5, <2>1, EmptySeq DEF ActorInv, Stacks, Flows, Frames, Draining, IsSequence
  <2>3. QED
    BY <2>1, <2>2 DEF Draining, Frames
<1>7. i < s[1].next
  BY <1>1, <1>6
<1>8. FromHandler(Actors[i], m)
  BY <1>1, <1>2, <1>4, <1>6, <1>7 DEF Behind, FromHandler
<1>9. i # Len(Actors)
  <2>1. Actors # <<>>
    BY <1>1, EmptySeq, ActorAssumption
  <2>2. DrainedLast(s)
    BY <1>6, <2>1 DEF DrainedLast
  <2>3. mailbox[Actors[Len(Actors)]] = <<>>
    BY <1>5, <2>2 DEF LeftInv
  <2>4. Len(<<>>) = 0 /\ 1..0 = {}
    OBVIOUS
  <2>5. QED
    BY <1>2, <1>4, <2>3, <2>4
<1>10. QED
  BY <1>1, <1>8, <1>9

\* The inductive invariant holds in every state.
THEOREM LeftInvariant == Spec => []LeftInv
BY LeftInit, LeftNext, ActorsInvariant, PTL DEF Spec

-----------------------------------------------------------------------------
(* Messages.                                                                *)

\* A message is in one place, so none is handled twice; and those in the
\* mailboxes of a program that is done were sent by handlers to actors that
\* are not the last, which the final drain does not return to.
THEOREM NoMessageTwice == Spec => []EachMessageOnce
<1>1. ActorInv => MailApart
  <2> SUFFICES ASSUME ActorInv PROVE MailApart
    OBVIOUS
  <2>1. PICK q, n : q = Queued /\ n = Len(q)
    OBVIOUS
  <2>2. IsSequence(q)
    BY <2>1, QueuedFacts DEF ActorInv
  <2>3. \A k \in 1..n : q[k].id \in Ids
    BY <2>1, QueuedFacts DEF ActorInv
  <2>4. \A j, k \in 1..n : q[j].id = q[k].id => j = k
    BY <2>1, QueuedFacts DEF ActorInv
  <2>5. \A i : i \in MailIn(mailbox) <=> \E k \in 1..n : q[k].id = i
    BY <2>1, QueuedFacts DEF ActorInv
  <2>6. n \in Nat /\ \A m : m \in ToSet(q) <=> \E k \in 1..n : m = q[k]
    BY <2>1, <2>2, LenProperties, ToSetDef DEF IsSequence
  <2>7. Mail = MailIn(mailbox)
    BY <2>1, <2>5, <2>6 DEF Mail
  <2>8. PICK t : t = [k \in 1..n |-> q[k].id]
    OBVIOUS
  <2>9. t \in Seq(Ids) /\ Len(t) = n /\ \A k \in 1..n : t[k] = q[k].id
    <3> DEFINE e(k) == q[k].id
    <3>1. \A k \in 1..n : e(k) \in Ids
      BY <2>3
    <3>2. t = [k \in 1..n |-> e(k)]
      BY <2>8
    <3> HIDE DEF e
    <3>3. t \in Seq(Ids)
      BY <2>6, <3>1, <3>2, IsASeq
    <3>4. Len(t) = n
      BY <2>6, <3>2, <3>3, LenProperties
    <3>5. QED
      BY <2>8, <3>3, <3>4
  <2>10. IsInjective(t)
    BY <2>4, <2>9, InjectiveDef
  <2>11. ToSet(t) = Mail
    <3>1. ToSet(t) = {t[k] : k \in 1..n}
      BY <2>9, ToSetDef
    <3>2. QED
      BY <2>5, <2>7, <2>9, <3>1
  <2>12. Cardinality(Mail) = Len(Queued)
    BY <2>1, <2>9, <2>10, <2>11, InjectiveCount
  <2>13. Alive = AliveIn(stack)
    BY DEF Alive, AliveIn
  <2>14. OnScript = Handles(stack[Script])
    <3>1. PICK s : s = stack[Script]
      OBVIOUS
    <3>2. IsSequence(s)
      BY <3>1 DEF ActorInv, Stacks, Frames, Flows
    <3>3. \A fr : fr \in ToSet(s) <=> \E i \in 1..Len(s) : fr = s[i]
      BY <3>2, ToSetDef DEF IsSequence
    <3>4. QED
      BY <3>1, <3>3 DEF OnScript, Handles
  <2>15. Accounts(Mail, Alive, OnScript, ended, skipped, Len(sent))
    BY <2>7, <2>13, <2>14 DEF ActorInv
  <2>16. DOMAIN sent = 1..Len(sent)
    BY LenProperties DEF ActorInv, IsSequence
  <2>17. PICK p : p = <<Mail, Alive, OnScript, ended, skipped>>
    OBVIOUS
  <2>18. /\ p[1] = Mail /\ p[2] = Alive /\ p[3] = OnScript /\ p[4] = ended /\ p[5] = skipped
         /\ DOMAIN p = 1..5
    BY <2>17
  <2>19. \A i, j \in DOMAIN p : i # j => p[i] \cap p[j] = {}
    <3>1. ASSUME NEW i \in DOMAIN p, NEW j \in DOMAIN p, i # j PROVE p[i] \cap p[j] = {}
      <4>1. i \in {1, 2, 3, 4, 5} /\ j \in {1, 2, 3, 4, 5}
        BY <2>18, <3>1
      <4>2. QED
        BY <2>15, <2>18, <3>1, <4>1 DEF Accounts
    <3>2. QED
      BY <3>1
  <2>20. UNION ToSet(p) = DOMAIN sent
    <3>1. \A P : P \in ToSet(p) <=> P \in {Mail, Alive, OnScript, ended, skipped}
      <4>1. ToSet(p) = {p[i] : i \in 1..5}
        BY <2>18 DEF ToSet
      <4>2. \A i : i \in 1..5 <=> i \in {1, 2, 3, 4, 5}
        OBVIOUS
      <4>3. QED
        BY <2>18, <4>1, <4>2
    <3>2. \A x : x \in UNION ToSet(p) <=> x \in Mail \cup Alive \cup OnScript \cup ended \cup skipped
      BY <3>1
    <3>3. QED
      BY <2>15, <2>16, <3>2 DEF Accounts
  <2>21. QED
    BY <2>12, <2>17, <2>19, <2>20 DEF MailApart
<1>2. ActorInv /\ LeftInv => EachMessageOnce
  BY <1>1, LeftAtEnd DEF EachMessageOnce
<1>3. QED
  BY <1>2, ActorsInvariant, LeftInvariant, PTL
-----------------------------------------------------------------------------
(* The common tasks.                                                        *)

TaskStates == [Tasks -> {"pending", "ready", "consumed"}]

\* A poll consumes what it hands out, which was ready.  What it consumes
\* besides, a task_all does that finds a later task pending.
LEMMA PollFacts ==
  ASSUME NEW w, NEW t \in TaskStates, NEW u, u = Consumed(w, t)
  PROVE  /\ u \in TaskStates
         /\ \A k \in Tasks : t[k] = "consumed" => u[k] = "consumed"
         /\ \A k \in HandsOut(w, t) : k \in Tasks /\ t[k] = "ready" /\ u[k] = "consumed"
         /\ \A k \in Tasks : u[k] = "consumed" /\ t[k] # "consumed" =>
              k \in HandsOut(w, t) \/ (w = "all" /\ k # Shared)
<1>1. CASE w \notin Combinators
  <2>1. u = t /\ HandsOut(w, t) = {}
    BY <1>1 DEF Consumed, HandsOut
  <2>2. QED
    BY <2>1
<1>2. CASE w \in Combinators
  <2>1. u = [k \in Tasks |-> IF k \in Takes(w, t) THEN "consumed" ELSE t[k]]
    BY <1>2 DEF Consumed
  <2>2. u \in TaskStates /\ \A k \in Tasks : u[k] = IF k \in Takes(w, t) THEN "consumed" ELSE t[k]
    BY <2>1 DEF TaskStates
  <2>3. \A k \in Tasks : t[k] \in {"pending", "ready", "consumed"}
    BY DEF TaskStates
  <2>4. CASE w = "any"
    <3>1. Takes(w, t) = First(t) /\ (First(t) # {} => HandsOut(w, t) = First(t))
          /\ (First(t) = {} => HandsOut(w, t) = {})
      BY <1>2, <2>4 DEF Takes, HandsOut, Answers
    <3>2. \A k \in First(t) : k \in Tasks /\ t[k] = "ready"
      BY DEF First
    <3>3. QED
      BY <2>2, <3>1, <3>2
  <2>5. CASE w = "one"
    <3>1. Takes(w, t) = Before(t) \cap {1} /\ (Answers(w, t) <=> t[1] # "pending")
      BY <2>5 DEF Takes, Answers
    <3>2. HandsOut(w, t) = IF Answers(w, t) THEN {k \in Takes(w, t) : t[k] = "ready"} ELSE {}
      BY <1>2, <2>5 DEF HandsOut
    <3>3. \A k \in Takes(w, t) : k = 1 /\ k \in Tasks /\ t[1] # "pending"
      <4>1. 1 \in Tasks => 1 \in 1..1
        OBVIOUS
      <4>2. QED
        BY <3>1, <4>1 DEF Before
    <3>4. QED
      BY <2>2, <2>3, <3>1, <3>2, <3>3
  <2>6. CASE w = "all"
    <3>1. Takes(w, t) = Before(t) /\ (Answers(w, t) <=> Before(t) = Tasks)
      BY <2>6 DEF Takes, Answers
    <3>2. HandsOut(w, t) = IF Answers(w, t) THEN {k \in Takes(w, t) : t[k] = "ready"} ELSE {}
      BY <1>2, <2>6 DEF HandsOut
    <3>3. \A k \in Before(t) : k \in Tasks /\ t[k] # "pending"
      BY DEF Before, Tasks
    <3>4. Shared \in Before(t) => Before(t) = Tasks
      <4>1. ASSUME Shared \in Before(t), NEW k \in Tasks PROVE k \in Before(t)
        <5>1. \A j \in 1..Shared : t[j] # "pending"
          BY <4>1 DEF Before
        <5>2. 1..k \subseteq 1..Shared
          BY <4>1, ActorAssumption DEF Tasks
        <5>3. QED
          BY <5>1, <5>2 DEF Before
      <4>2. QED
        BY <4>1 DEF Before
    <3>5. QED
      BY <2>2, <2>3, <2>6, <3>1, <3>2, <3>3, <3>4
  <2>7. QED
    BY <1>2, <2>4, <2>5, <2>6 DEF Combinators
<1>3. QED
  BY <1>1, <1>2

\* The polls of the parked coroutines, one after the other.
LEMMA SeenFacts ==
  ASSUME IsSequence(parked), task \in TaskStates, NEW n, n = Len(parked), NEW seen, seen = Seen
  PROVE  /\ n \in Nat /\ seen[0] = task
         /\ \A i \in 0..n : seen[i] \in TaskStates
         /\ \A i \in 1..n : seen[i] = Consumed(waits[parked[i]], seen[i - 1])
<1>1. n \in Nat
  BY LenProperties DEF IsSequence
<1>2. seen = CHOOSE q : q = [i \in 0..n |-> IF i = 0 THEN task ELSE Consumed(waits[parked[i]], q[i - 1])]
  BY DEF Seen
<1> DEFINE gg == [p \in (1..n) \X TaskStates |-> Consumed(waits[parked[p[1]]], p[2])]
<1>3. PICK g : g = gg
  OBVIOUS
<1>4. g \in [(1..n) \X TaskStates -> TaskStates]
  <2>1. ASSUME NEW p \in (1..n) \X TaskStates PROVE Consumed(waits[parked[p[1]]], p[2]) \in TaskStates
    <3>1. PICK w, t : w = waits[parked[p[1]]] /\ t = p[2] /\ t \in TaskStates
      OBVIOUS
    <3>2. Consumed(w, t) \in TaskStates
      BY <3>1, PollFacts
    <3>3. QED
      BY <3>1, <3>2
  <2>2. QED
    BY <1>3, <2>1
<1>5. \A i \in 1..n, t \in TaskStates : g[<<i, t>>] = Consumed(waits[parked[i]], t)
  BY <1>3
<1>6. PICK b : b = task
  OBVIOUS
<1>7. b \in TaskStates
  BY <1>6
<1> HIDE DEF gg
<1>8. PICK r : Recurs(r, n, TaskStates, b, g)
  BY ONLY <1>1, <1>4, <1>7, Recursion
<1>9. r[0] = task /\ DOMAIN r = 0..n /\ r = [i \in 0..n |-> r[i]] /\ \A i \in 0..n : r[i] \in TaskStates
  BY <1>6, <1>8 DEF Recurs
<1>10. ASSUME NEW i \in 1..n PROVE r[i] = Consumed(waits[parked[i]], r[i - 1])
  <2>1. i - 1 \in 0..n
    BY <1>1
  <2>2. r[i] = g[<<i, r[i - 1]>>] /\ r[i - 1] \in TaskStates
    BY <1>8, <2>1 DEF Recurs
  <2>3. QED
    BY <1>5, <2>2
<1>11. r = [i \in 0..n |-> IF i = 0 THEN task ELSE Consumed(waits[parked[i]], r[i - 1])]
  <2>1. ASSUME NEW i \in 0..n PROVE r[i] = IF i = 0 THEN task ELSE Consumed(waits[parked[i]], r[i - 1])
    <3>1. i = 0 \/ i \in 1..n
      BY <1>1
    <3>2. QED
      BY <1>9, <1>10, <3>1
  <2>2. QED
    BY <1>9, <2>1
<1>12. seen = [i \in 0..n |-> IF i = 0 THEN task ELSE Consumed(waits[parked[i]], seen[i - 1])]
  BY <1>2, <1>11
<1>13. seen[0] = task
  <2>1. 0 \in 0..n
    BY <1>1
  <2>2. QED
    BY <1>12, <2>1
<1>14. ASSUME NEW i \in 1..n PROVE seen[i] = Consumed(waits[parked[i]], seen[i - 1])
  <2>1. i \in 0..n /\ i # 0
    BY <1>1
  <2>2. PICK v : v = Consumed(waits[parked[i]], seen[i - 1])
    OBVIOUS
  <2>3. seen[i] = IF i = 0 THEN task ELSE v
    BY <1>12, <2>1, <2>2
  <2>4. QED
    BY <2>1, <2>2, <2>3
<1>15. \A i \in 0..n : i \in {j \in 0..n : seen[j] \in TaskStates}
  <2>1. PICK A : A = {j \in 0..n : seen[j] \in TaskStates}
    OBVIOUS
  <2>2. 0 \in A
    BY <1>1, <1>13, <2>1
  <2>3. ASSUME NEW i \in 1..n, i - 1 \in A PROVE i \in A
    <3>1. PICK w, t : w = waits[parked[i]] /\ t = seen[i - 1]
      OBVIOUS
    <3>2. t \in TaskStates /\ seen[i] = Consumed(w, t) /\ i \in 0..n
      BY <1>1, <1>14, <2>1, <2>3, <3>1
    <3>3. seen[i] \in TaskStates
      BY <3>2, PollFacts
    <3>4. QED
      BY <2>1, <3>2, <3>3
  <2>4. \A i \in 0..n : i \in A
    BY <1>1, <2>2, <2>3, SetInduction
  <2>5. QED
    BY <2>1, <2>4
<1>16. QED
  BY <1>1, <1>13, <1>14, <1>15

\* What a tick does to the common task k, H being the polls that hand it out.
TickOf(k, n, seen, H) ==
  /\ task[k] = "consumed" => H = {} /\ seen[n][k] = "consumed"
  /\ H # {} => seen[n][k] = "consumed"
  /\ \A i, j \in H : i = j
  /\ seen[n][k] = "consumed" /\ task[k] # "consumed" /\ H = {} =>
       k # Shared /\ \E i \in 1..n : waits[parked[i]] = "all"

\* One common task over all the polls of a tick: its value is handed out once
\* at most, and not again when it was before.
LEMMA SeenOnce ==
  ASSUME IsSequence(parked), task \in TaskStates, NEW n, n = Len(parked), NEW seen, seen = Seen,
         NEW k \in Tasks,
         NEW H, H = {i \in 1..n : k \in HandsOut(waits[parked[i]], seen[i - 1])}
  PROVE  TickOf(k, n, seen, H)
<1>1. n \in Nat /\ seen[0] = task
  BY SeenFacts
<1>2. \A i \in 0..n : seen[i] \in TaskStates
  BY SeenFacts
<1>3. \A i \in 1..n : seen[i] = Consumed(waits[parked[i]], seen[i - 1])
  BY SeenFacts
<1>4. \A i \in 1..n : i - 1 \in 0..n /\ i \in 0..n
  BY <1>1
<1>5. ASSUME NEW i \in 1..n
      PROVE  /\ seen[i - 1][k] = "consumed" => seen[i][k] = "consumed"
             /\ i \in H => seen[i - 1][k] = "ready" /\ seen[i][k] = "consumed"
             /\ seen[i][k] = "consumed" /\ seen[i - 1][k] # "consumed" =>
                  i \in H \/ (waits[parked[i]] = "all" /\ k # Shared)
  <2>1. PICK w, t, u : w = waits[parked[i]] /\ t = seen[i - 1] /\ u = seen[i]
    OBVIOUS
  <2>2. t \in TaskStates /\ u = Consumed(w, t)
    BY <1>2, <1>3, <1>4, <2>1
  <2>3. i \in H <=> k \in HandsOut(w, t)
    BY <2>1
  <2>4. /\ t[k] = "consumed" => u[k] = "consumed"
        /\ k \in HandsOut(w, t) => t[k] = "ready" /\ u[k] = "consumed"
        /\ u[k] = "consumed" /\ t[k] # "consumed" => k \in HandsOut(w, t) \/ (w = "all" /\ k # Shared)
    BY <2>2, PollFacts
  <2>5. QED
    BY <2>1, <2>3, <2>4
<1>6. \A j \in 0..n : \A i \in 0..j : seen[i][k] = "consumed" => seen[j][k] = "consumed"
  <2>1. PICK A : A = {j \in 0..n : \A i \in 0..j : seen[i][k] = "consumed" => seen[j][k] = "consumed"}
    OBVIOUS
  <2>2. 0 \in A
    <3>1. \A i \in 0..0 : i = 0
      OBVIOUS
    <3>2. QED
      BY <1>1, <2>1, <3>1
  <2>3. ASSUME NEW j \in 1..n, j - 1 \in A PROVE j \in A
    <3>1. \A i \in 0..j : i = j \/ i \in 0..(j - 1)
      BY <1>1
    <3>2. QED
      BY <1>4, <1>5, <2>1, <2>3, <3>1
  <2>4. \A j \in 0..n : j \in A
    BY <1>1, <2>2, <2>3, SetInduction
  <2>5. QED
    BY <2>1, <2>4
<1>7. \A i \in 1..n : seen[i][k] = "consumed" => seen[n][k] = "consumed"
  BY <1>1, <1>6
<1>8. ASSUME task[k] = "consumed" PROVE H = {} /\ seen[n][k] = "consumed"
  <2>1. \A j \in 0..n : seen[j][k] = "consumed"
    BY <1>1, <1>6, <1>8
  <2>2. \A i \in 1..n : i \notin H
    BY <1>4, <1>5, <2>1
  <2>3. QED
    BY <1>1, <2>1, <2>2
<1>9. ASSUME NEW i \in H, NEW j \in H PROVE i = j
  <2>1. i \in 1..n /\ j \in 1..n
    OBVIOUS
  <2>2. ASSUME NEW x \in H, NEW y \in H, x < y PROVE FALSE
    <3>1. x \in 1..n /\ y \in 1..n
      OBVIOUS
    <3>2. x \in 0..(y - 1) /\ y - 1 \in 0..n
      BY <1>1, <2>2, <3>1
    <3>3. seen[x][k] = "consumed" /\ seen[y - 1][k] = "ready"
      BY <1>5, <3>1
    <3>4. QED
      BY <1>6, <3>2, <3>3
  <2>3. ~(i < j) /\ ~(j < i)
    BY <2>2
  <2>4. QED
    BY <1>1, <2>1, <2>3
<1>10. ASSUME NEW i \in H PROVE seen[n][k] = "consumed"
  BY <1>5, <1>7
<1>11. ASSUME seen[n][k] = "consumed", task[k] # "consumed", H = {}
       PROVE  k # Shared /\ \E i \in 1..n : waits[parked[i]] = "all"
  <2>1. SUFFICES ASSUME ~(k # Shared /\ \E i \in 1..n : waits[parked[i]] = "all") PROVE FALSE
    OBVIOUS
  <2>2. PICK A : A = {j \in 0..n : seen[j][k] # "consumed"}
    OBVIOUS
  <2>3. 0 \in A
    BY <1>1, <1>11, <2>2
  <2>4. ASSUME NEW j \in 1..n, j - 1 \in A PROVE j \in A
    BY <1>4, <1>5, <1>11, <2>1, <2>2, <2>4
  <2>5. \A j \in 0..n : j \in A
    BY <1>1, <2>3, <2>4, SetInduction
  <2>6. QED
    BY <1>1, <1>11, <2>2, <2>5
<1>12. QED
  BY <1>8, <1>9, <1>10, <1>11 DEF TickOf

\* A tick keeps the accounts of the common tasks.
LEMMA PollAccounts ==
  ASSUME ActorInv, TaskInv, NEW f \in Flows, Poll(f)
  PROVE  TaskInv'
<1>1. PICK n, seen : n = Len(parked) /\ seen = Seen
  OBVIOUS
<1>2. /\ task' = seen[n] /\ prog' = prog /\ waits' = waits
      /\ given' = [k \in Tasks |-> given[k] +
                    Cardinality({i \in DOMAIN parked : k \in HandsOut(waits[parked[i]], seen[i - 1])})]
  BY <1>1 DEF Poll
<1>3. IsSequence(parked) /\ DOMAIN parked = 1..n
  <2>1. IsSequence(parked)
    BY DEF ActorInv, Placed
  <2>2. QED
    BY <1>1, <2>1, LenProperties DEF IsSequence
<1>4. \A i \in 1..n : parked[i] \in Flows
  <2>1. \A i \in 1..n : parked[i] \in ToSet(parked)
    BY <1>1, <1>3, ElementOfSeq DEF IsSequence
  <2>2. ToSet(parked) \subseteq AliveIn(stack) \cup {Script}
    BY DEF ActorInv, Placed
  <2>3. QED
    BY <2>1, <2>2 DEF AliveIn, Flows
<1>5. task \in TaskStates
  BY DEF TaskInv, TaskStates
<1>6. n \in Nat /\ seen[n] \in TaskStates
  <2>1. n \in Nat
    BY ONLY <1>1, <1>3, <1>5, SeenFacts
  <2>2. \A i \in 0..n : seen[i] \in TaskStates
    BY <1>1, <1>3, <1>5, SeenFacts
  <2>3. n \in 0..n
    BY <2>1
  <2>4. QED
    BY <2>1, <2>2, <2>3
<1>7. ASSUME NEW k \in Tasks
      PROVE  /\ given'[k] \in {0, 1}
             /\ given'[k] = 1 => task'[k] = "consumed"
             /\ task'[k] = "consumed" /\ given'[k] = 0 => k # Shared /\ SomeAll
  <2>1. PICK H : H = {i \in 1..n : k \in HandsOut(waits[parked[i]], seen[i - 1])}
    OBVIOUS
  <2>2. given'[k] = given[k] + Cardinality(H)
    BY <1>2, <1>3, <2>1
  <2>3. TickOf(k, n, seen, H)
    BY <1>1, <1>3, <1>5, <2>1, SeenOnce
  <2>4. H # {} => \E i \in 1..n : H = {i}
    BY <2>1, <2>3 DEF TickOf
  <2>5. /\ task[k] = "consumed" => H = {} /\ seen[n][k] = "consumed"
        /\ H # {} => seen[n][k] = "consumed"
        /\ seen[n][k] = "consumed" /\ task[k] # "consumed" /\ H = {} =>
             k # Shared /\ \E i \in 1..n : waits[parked[i]] = "all"
    BY <2>3 DEF TickOf
  <2>6. Cardinality(H) = IF H = {} THEN 0 ELSE 1
    <3>1. CASE H = {}
      BY <3>1, FS_EmptySet
    <3>2. CASE H # {}
      <4>1. PICK i \in 1..n : H = {i}
        BY <2>4, <3>2
      <4>2. QED
        BY <3>2, <4>1, FS_Singleton
    <3>3. QED
      BY <3>1, <3>2
  <2>7. given[k] \in {0, 1} /\ (given[k] = 1 => task[k] = "consumed")
        /\ (task[k] = "consumed" /\ given[k] = 0 => k # Shared /\ SomeAll)
    BY DEF TaskInv
  <2>8. (\E i \in 1..n : waits[parked[i]] = "all") => SomeAll
    BY <1>4 DEF TaskInv
  <2>9. CASE H = {}
    <3>1. given'[k] = given[k]
      BY <2>2, <2>6, <2>7, <2>9
    <3>2. QED
      BY <1>2, <2>5, <2>7, <2>8, <2>9, <3>1
  <2>10. CASE H # {}
    <3>1. given[k] = 0
      BY <2>5, <2>7, <2>10
    <3>2. given'[k] = 1
      BY <2>2, <2>6, <2>10, <3>1
    <3>3. QED
      BY <1>2, <2>5, <2>10, <3>2
  <2>11. QED
    BY <2>9, <2>10
<1>8. SomeAll' = SomeAll
  BY <1>2 DEF SomeAll, Operations
<1>9. given' \in [Tasks -> {0, 1}]
  <2>1. \A k \in Tasks : given'[k] \in {0, 1}
    BY <1>7
  <2>2. PICK F : F = [k \in Tasks |-> given[k] +
                    Cardinality({i \in DOMAIN parked : k \in HandsOut(waits[parked[i]], seen[i - 1])})]
    OBVIOUS
  <2>3. DOMAIN F = Tasks /\ F = [k \in Tasks |-> F[k]] /\ given' = F
    BY <1>2, <2>2
  <2>4. QED
    BY <2>1, <2>3
<1>10. QED
  BY <1>2, <1>6, <1>7, <1>8, <1>9 DEF TaskInv, TaskStates

\* So does a look at what the script or a handler on its stack awaits.
LEMMA LookAccounts ==
  ASSUME TaskInv, NEW f \in Flows, AwaitedHere(f)
  PROVE  TaskInv'
<1>1. PICK w, u : w = waits[f] /\ u = Consumed(w, task)
  OBVIOUS
<1>2. /\ task' = u /\ waits' = waits /\ prog' = prog
      /\ given' = [k \in Tasks |-> IF k \in HandsOut(w, task) THEN given[k] + 1 ELSE given[k]]
  BY <1>1 DEF AwaitedHere, DrainMailboxesAsync
<1>3. task \in TaskStates
  BY DEF TaskInv, TaskStates
<1>4. u \in TaskStates
  BY <1>1, <1>3, PollFacts
<1>5. ASSUME NEW k \in Tasks
      PROVE  /\ given'[k] \in {0, 1}
             /\ given'[k] = 1 => task'[k] = "consumed"
             /\ task'[k] = "consumed" /\ given'[k] = 0 => k # Shared /\ SomeAll
  <2>1. /\ task[k] = "consumed" => u[k] = "consumed"
        /\ k \in HandsOut(w, task) => task[k] = "ready" /\ u[k] = "consumed"
        /\ u[k] = "consumed" /\ task[k] # "consumed" => k \in HandsOut(w, task) \/ (w = "all" /\ k # Shared)
    BY <1>1, <1>3, PollFacts
  <2>2. given[k] \in {0, 1} /\ (given[k] = 1 => task[k] = "consumed")
        /\ (task[k] = "consumed" /\ given[k] = 0 => k # Shared /\ SomeAll)
        /\ (w = "all" => SomeAll)
    BY <1>1 DEF TaskInv
  <2>3. given'[k] = IF k \in HandsOut(w, task) THEN given[k] + 1 ELSE given[k]
    BY <1>2
  <2>4. QED
    BY <1>2, <2>1, <2>2, <2>3
<1>6. SomeAll' = SomeAll
  BY <1>2 DEF SomeAll, Operations
<1>7. given' \in [Tasks -> {0, 1}]
  <2>1. \A k \in Tasks : given'[k] \in {0, 1}
    BY <1>5
  <2>2. DOMAIN given' = Tasks /\ given' = [k \in Tasks |-> given'[k]]
    BY <1>2
  <2>3. QED
    BY <2>1, <2>2
<1>8. QED
  BY <1>2, <1>4, <1>5, <1>6, <1>7 DEF TaskInv, TaskStates

\* An await notes what it awaits.
LEMMA AwaitAccounts ==
  ASSUME ActorInv, TaskInv, NEW f \in Flows, NEW w, Awaiting(f, w), prog' = prog, task' = task, given' = given
  PROVE  TaskInv'
<1>1. PICK v : v = IF w = "new io" THEN "io" ELSE w
  OBVIOUS
<1>2. waits' = [waits EXCEPT ![f] = v] /\ At(f, "await") /\ w = Arg(f, 1)
  BY <1>1 DEF Awaiting
<1>3. v = "all" => SomeAll
  <2>1. Head(Top(f).rest) \in Operations(prog)
    BY <1>2, SteppedFrames
  <2>2. Head(Top(f).rest)[1] = "await" /\ Head(Top(f).rest)[2] = w
    BY <1>2 DEF At, Arg
  <2>3. w = "all" => SomeAll
    BY <2>1, <2>2 DEF SomeAll
  <2>4. QED
    BY <1>1, <2>3
<1>4. DOMAIN waits' = Flows /\ \A g \in Flows : waits'[g] = "all" => SomeAll
  BY <1>2, <1>3 DEF TaskInv
<1>5. SomeAll' = SomeAll
  BY DEF SomeAll, Operations
<1>6. QED
  BY <1>4, <1>5 DEF TaskInv

\* A common task comes to its end once.
LEMMA CompleteAccounts ==
  ASSUME TaskInv, NEW k \in Tasks, Complete(k)
  PROVE  TaskInv'
<1>1. task[k] = "pending" /\ task' = [task EXCEPT ![k] = "ready"] /\ UNCHANGED <<prog, given, waits>>
  BY DEF Complete, sched
<1>2. SomeAll' = SomeAll
  BY <1>1 DEF SomeAll, Operations
<1>3. task' \in [Tasks -> {"pending", "ready", "consumed"}]
  BY <1>1 DEF TaskInv
<1>4. \A j \in Tasks : task'[j] = IF j = k THEN "ready" ELSE task[j]
  BY <1>1 DEF TaskInv
<1>5. \A j \in Tasks : (given[j] = 1 => task'[j] = "consumed")
                       /\ (task'[j] = "consumed" /\ given[j] = 0 => j # Shared /\ SomeAll)
  BY <1>1, <1>4 DEF TaskInv
<1>6. QED
  BY <1>1, <1>2, <1>3, <1>5 DEF TaskInv

\* Each step keeps the accounts of the common tasks.
LEMMA TaskNext ==
  ASSUME ActorInv, TaskInv, [Next]_vars
  PROVE  TaskInv'
<1>1. ASSUME UNCHANGED <<prog, task, given, waits>> PROVE TaskInv'
  <2>1. SomeAll' = SomeAll
    BY <1>1 DEF SomeAll, Operations
  <2>2. QED
    BY <1>1, <2>1 DEF TaskInv
<1>2. ASSUME NEW f \in Flows, Act(f) PROVE TaskInv'
  <2>1. CASE ActorSend(f) \/ ActorRequest(f) \/ Raise(f) \/ Finish(f)
    BY <1>1, <2>1 DEF ActorSend, ActorRequest, Raise, Finish, sched, combined
  <2>2. CASE Yield(f) \/ Resume(f) \/ ReadAsync(f) \/ SuspendAnother(f) \/ FinalDrain(f)
    BY <1>1, <2>2 DEF Yield, DrainMailboxesAsync, Resume, ReadAsync, SuspendAnother, FinalDrain, sched, combined
  <2>3. CASE Suspend(f)
    BY <2>3, AwaitAccounts DEF Suspend, combined
  <2>4. CASE AwaitHere(f)
    BY <2>4, AwaitAccounts DEF AwaitHere, DrainMailboxesAsync, combined
  <2>5. QED
    BY <1>2, <2>1, <2>2, <2>3, <2>4, PollAccounts, LookAccounts DEF Act
<1>3. ASSUME NEW f \in Flows, Arrive(f) \/ Elapse(f) PROVE TaskInv'
  BY <1>1, <1>3 DEF Arrive, Elapse, combined
<1>4. CASE UNCHANGED vars
  BY <1>1, <1>4 DEF vars, sched, combined
<1>5. QED
  BY <1>2, <1>3, <1>4, CompleteAccounts DEF Next, Run, World

\* The accounts hold in every state.
THEOREM TasksInvariant == Spec => []TaskInv
<1>1. Init => TaskInv
  BY DEF Init, TaskInv
<1>2. QED
  BY <1>1, ActorsInvariant, TaskNext, PTL DEF Spec

\* The value of a common task reaches one await at most, however many wait for
\* it and in whatever order a tick polls them.
THEOREM NoValueTwice == Spec => []HandedOutOnce
<1>1. TaskInv => HandedOutOnce
  BY DEF TaskInv, HandedOutOnce
<1>2. QED
  BY <1>1, TasksInvariant, PTL

\* Only a task_all consumes a task whose value no await gets, and never the
\* last of its tasks.
THEOREM NoValueLostElsewhere == Spec => []LostOnlyInAll
<1>1. TaskInv => LostOnlyInAll
  BY DEF TaskInv, LostOnlyInAll
<1>2. QED
  BY <1>1, TasksInvariant, PTL
=============================================================================
