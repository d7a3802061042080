-------------------------- MODULE WorkerPoolProofs --------------------------
(* Proofs about WorkerPool, for any pool of workers and any programs: every *)
(* pending reply has exactly one thread or place that will answer it, only  *)
(* the main thread can find the channel closed, the program stands still    *)
(* only where jobs wait for jobs, and the pool keeps the promises of        *)
(* Promises.                                                                *)
EXTENDS WorkerPool, SequenceFacts, TLAPS

Fields == {"reply", "at", "sent", "got", "results", "handles"}

WorkerPhases == {"loading", "ready", "free", "receiving", "busy", "dead"}
MainPhases   == {"starting", "loading", "busy", "done", "failed", "panicked"}

Types ==
  /\ prog \in Programs
  /\ DOMAIN phase = Threads
  /\ phase[Main] \in MainPhases
  /\ \A w \in Workers : phase[w] \in WorkerPhases
  /\ holder \in Workers \cup {None}
  /\ queue \in Seq(1..Len(replies))
  /\ IsSequence(replies)
  /\ \A i \in 1..Len(replies) :
       /\ DOMAIN replies[i] = {"call", "by", "answer"}
       /\ replies[i].answer = Pending \/ replies[i].answer.kind \in {"ok", "error"}
  /\ DOMAIN frame = Threads
  /\ \A t \in Threads : DOMAIN frame[t] = Fields

\* No worker begins its loop before main has passed the barrier, and none is
\* before it afterwards.
BarrierHolds ==
  IF phase[Main] = "starting"
  THEN /\ queue = <<>> /\ replies = <<>>
       /\ \A w \in Workers : phase[w] \in {"loading", "ready", "dead"}
  ELSE \A w \in Workers : phase[w] \notin {"loading", "ready"}

\* The mutex is held by the worker that waits at the channel, and by no other.
MutexHolds == \A w \in Workers : holder = w <=> phase[w] = "receiving"

\* A worker has a reply to give exactly while it executes, and no two
\* workers have the same.
OneReplyEach ==
  /\ frame[Main].reply = 0
  /\ \A w \in Workers :
       IF phase[w] = "busy" THEN frame[w].reply \in 1..Len(replies) ELSE frame[w] = Idle
  /\ \A v, w \in Workers : frame[v].reply = frame[w].reply => v = w \/ frame[v].reply = 0

PoolInv ==
  /\ Types
  /\ BarrierHolds
  /\ MutexHolds
  /\ OneReplyEach
  /\ SomebodyWillAnswer
  /\ OnlyMainFindsItClosed

Opens(s) == IF s.op = "join" THEN 1 ELSE Len(s.calls)

\* The reply channels t holds were opened after the one it answers; those of
\* its statement are not all collected, and they are no more than it opens.
FrameOK(t) ==
  /\ frame[t].at \in Nat \ {0}
  /\ frame[t].sent \in Seq(frame[t].reply + 1..Len(replies))
  /\ IsSequence(frame[t].got)
  /\ Len(frame[t].got) <= Len(frame[t].sent)
  /\ \A h \in frame[t].handles : h[2] \in frame[t].reply + 1..Len(replies)
  /\ phase[t] \in {"starting", "loading"} => frame[t].sent = <<>>
  /\ frame[t].sent # <<>> => Len(frame[t].got) < Len(frame[t].sent)
  /\ frame[t].sent # <<>> /\ phase[t] = "busy" =>
       /\ frame[t].at <= Len(Body(t).does)
       /\ Stmt(t).op # "spawn"
       /\ Len(frame[t].sent) <= Opens(Stmt(t))

FrameInv ==
  /\ \A i \in 1..Len(replies) : replies[i].call \in DOMAIN prog.body
  /\ \A t \in Threads : FrameOK(t)

-----------------------------------------------------------------------------
(* The invariant of the pool.                                              *)

\* What the promise of SomebodyWillAnswer is, with the sequences taken apart.
LEMMA SomebodyDef ==
  ASSUME Types
  PROVE  /\ Len(queue) \in Nat /\ Len(replies) \in Nat
         /\ \A k \in 1..Len(queue) : queue[k] \in 1..Len(replies)
         /\ ToSet(queue) = {queue[k] : k \in 1..Len(queue)}
         /\ ToSet(queue) \subseteq 1..Len(replies)
         /\ IsInjective(queue) <=> \A j, k \in 1..Len(queue) : queue[j] = queue[k] => j = k
         /\ queue # <<>> => 1 \in 1..Len(queue)
<1>1. queue \in Seq(1..Len(replies)) /\ IsSequence(replies)
  BY DEF Types
<1>2. Len(queue) \in Nat /\ Len(replies) \in Nat /\ \A k \in 1..Len(queue) : queue[k] \in 1..Len(replies)
  BY <1>1, LenProperties, ElementOfSeq
<1>3. queue # <<>> => Len(queue) \in Nat \ {0}
  BY <1>1, EmptySeq
<1>4. queue # <<>> => 1 \in 1..Len(queue)
  BY <1>3
<1>5. ToSet(queue) = {queue[k] : k \in 1..Len(queue)} /\ ToSet(queue) \subseteq 1..Len(replies)
  BY <1>1, ToSetDef
<1>6. IsInjective(queue) <=> \A j, k \in 1..Len(queue) : queue[j] = queue[k] => j = k
  BY <1>1, InjectiveDef
<1>7. QED
  BY <1>2, <1>4, <1>5, <1>6

\* The pool begins with no job, no reply and no worker at the channel.
LEMMA PoolInit ==
  ASSUME Init
  PROVE  PoolInv
<1>1. Types
  <2>1. queue \in Seq(1..Len(replies)) /\ IsSequence(replies) /\ Len(replies) = 0
    BY EmptySeq DEF Init, IsSequence
  <2>2. QED
    BY <2>1, PoolAssumption DEF Init, Types, Threads, MainPhases, WorkerPhases, Idle, Fields
<1>2. BarrierHolds /\ MutexHolds
  BY PoolAssumption DEF Init, BarrierHolds, MutexHolds, Threads
<1>3. OneReplyEach
  BY PoolAssumption DEF Init, OneReplyEach, Threads, Idle
<1>4. SomebodyWillAnswer
  <2>1. Len(queue) = 0 /\ Len(replies) = 0 /\ queue = <<>>
    BY EmptySeq DEF Init
  <2>2. IsInjective(queue)
    BY <1>1, <2>1, SomebodyDef
  <2>3. QED
    BY <2>1, <2>2 DEF SomebodyWillAnswer
<1>5. OnlyMainFindsItClosed
  BY PoolAssumption DEF Init, OnlyMainFindsItClosed, Threads
<1>6. QED
  BY <1>1, <1>2, <1>3, <1>4, <1>5 DEF PoolInv

\* The steps before the job loops and the main body touch the phases only.
LEMMA LoadingKeepsPool ==
  ASSUME PoolInv, NEW t \in Threads, Load(t) \/ LoadPanics(t) \/ Barrier
  PROVE  PoolInv'
<1> USE DEF PoolInv
<1>1. UNCHANGED <<prog, holder, queue, replies, frame>>
  BY DEF Load, LoadPanics, Barrier
<1>2. Types'
  <2>1. DOMAIN phase' = Threads
    BY DEF Types, Load, LoadPanics, Barrier
  <2>2. phase'[Main] \in MainPhases
    BY PoolAssumption DEF Types, Load, LoadPanics, Barrier, Threads, MainPhases
  <2>3. \A w \in Workers : phase'[w] \in WorkerPhases
    BY PoolAssumption DEF Types, Load, LoadPanics, Barrier, Threads, WorkerPhases
  <2>4. QED
    BY <1>1, <2>1, <2>2, <2>3 DEF Types
<1>3. BarrierHolds' /\ MutexHolds'
  BY <1>1, PoolAssumption DEF Types, BarrierHolds, MutexHolds, Load, LoadPanics, Barrier, Threads
<1>4. OneReplyEach'
  BY <1>1, PoolAssumption DEF Types, OneReplyEach, Load, LoadPanics, Barrier, Threads, Idle
<1>5. SomebodyWillAnswer'
  BY <1>1, PoolAssumption DEF Types, BarrierHolds, SomebodyWillAnswer, Live, Load, LoadPanics, Barrier, Threads
<1>6. OnlyMainFindsItClosed'
  <2>1. CASE LoadPanics(t) /\ t = Main
    <3>1. \E def \in ToSet(prog.source) : def.runs = "panic"
      BY <2>1, ProgramsAssumption, ToSetDef DEF LoadPanics, Types
    <3>2. QED
      BY <1>1, <2>1, <3>1 DEF LoadPanics, OnlyMainFindsItClosed, Types
  <2>2. CASE ~(LoadPanics(t) /\ t = Main)
    BY <1>1, <2>2, PoolAssumption DEF Types, OnlyMainFindsItClosed, Live, Load, LoadPanics, Barrier, Threads
  <2>3. QED
    BY <2>1, <2>2
<1>7. QED
  BY <1>2, <1>3, <1>4, <1>5, <1>6

\* A worker takes the mutex.
LEMMA LockKeepsPool ==
  ASSUME PoolInv, NEW w \in Workers, Lock(w)
  PROVE  PoolInv'
<1> USE DEF PoolInv
<1>1. Types'
  BY PoolAssumption DEF Types, Lock, Threads, MainPhases, WorkerPhases
<1>2. BarrierHolds' /\ MutexHolds'
  BY PoolAssumption DEF Types, BarrierHolds, MutexHolds, Lock, Threads
<1>3. OneReplyEach'
  BY PoolAssumption DEF Types, OneReplyEach, Lock, Threads
<1>4. SomebodyWillAnswer'
  BY PoolAssumption DEF Types, SomebodyWillAnswer, Live, Lock, Threads
<1>5. OnlyMainFindsItClosed'
  BY PoolAssumption DEF Types, OnlyMainFindsItClosed, Live, Lock, Threads
<1>6. QED
  BY <1>1, <1>2, <1>3, <1>4, <1>5

\* A worker takes the first job and gives the mutex back.
LEMMA ReceiveKeepsPool ==
  ASSUME PoolInv, NEW w \in Workers, Receive(w)
  PROVE  PoolInv'
<1> USE DEF PoolInv
<1>0. w \in Threads /\ w # Main /\ phase[w] = "receiving" /\ queue # <<>> /\ replies' = replies /\ prog' = prog
  BY PoolAssumption DEF Receive, Threads
<1>1. queue \in Seq(1..Len(replies)) /\ queue' = Tail(queue)
  BY DEF Types, Receive
<1>2. /\ queue' \in Seq(1..Len(replies))
      /\ Head(queue) \in 1..Len(replies)
      /\ ToSet(queue) = ToSet(queue') \cup {Head(queue)}
      /\ IsInjective(queue) => IsInjective(queue') /\ Head(queue) \notin ToSet(queue')
  BY <1>0, <1>1, HeadTailProperties, TailSet
<1>3. /\ frame' = [frame EXCEPT ![w] = [Idle EXCEPT !.reply = Head(queue)]]
      /\ frame'[w].reply = Head(queue) /\ DOMAIN frame'[w] = Fields
      /\ \A t \in Threads : t # w => frame'[t] = frame[t]
  BY <1>0 DEF Receive, Types, Idle, Fields
<1>4. Types'
  BY <1>0, <1>2, <1>3, PoolAssumption DEF Types, Receive, Threads, MainPhases, WorkerPhases
<1>5. BarrierHolds' /\ MutexHolds'
  BY <1>0, PoolAssumption DEF Types, BarrierHolds, MutexHolds, Receive, Threads
<1>6. frame[w].reply = 0
  BY <1>0 DEF OneReplyEach, Idle
<1>7. \A v \in Workers : frame[v].reply # Head(queue)
  BY <1>0, <1>2, SomebodyDef DEF SomebodyWillAnswer
<1>8. OneReplyEach'
  <2>1. \A v \in Workers : v # w => phase'[v] = phase[v] /\ frame'[v] = frame[v]
    BY <1>0, <1>3 DEF Receive, Types, Threads
  <2>2. phase'[w] = "busy"
    BY <1>0 DEF Receive, Types
  <2>3. QED
    BY <1>0, <1>2, <1>3, <1>7, <2>1, <2>2 DEF OneReplyEach, Threads
<1>9. SomebodyWillAnswer'
  <2>1. \A i \in 1..Len(replies) : i \in ToSet(queue) <=> i \in ToSet(queue') \/ i = frame'[w].reply
    BY <1>2, <1>3
  <2>2. \A i \in 1..Len(replies) :
          (\E v \in Workers : frame'[v].reply = i) <=> i = frame'[w].reply \/ \E v \in Workers : frame[v].reply = i
    BY <1>0, <1>3, <1>6 DEF Threads
  <2>3. \A i \in 1..Len(replies') : replies'[i].answer = Pending <=>
          i \in ToSet(queue') \/ \E v \in Workers : frame'[v].reply = i
    BY <1>0, <2>1, <2>2 DEF SomebodyWillAnswer
  <2>4. \A i \in ToSet(queue') : \A v \in Workers : frame'[v].reply # i
    <3>1. \A i \in ToSet(queue) : \A v \in Workers : frame[v].reply # i
      BY SomebodyDef DEF SomebodyWillAnswer
    <3>2. QED
      BY <1>0, <1>2, <1>3, <3>1 DEF SomebodyWillAnswer, Threads
  <2>5. \A k \in 1..Len(queue') : queue'[k] \in ToSet(queue')
    BY <1>2, ToSetDef
  <2>6. Live' = Live /\ w \in Live
    BY <1>0 DEF Live, Receive, Types, Threads
  <2>7. IsInjective(queue')
    BY <1>2 DEF SomebodyWillAnswer
  <2>8. QED
    BY <2>3, <2>4, <2>5, <2>6, <2>7 DEF SomebodyWillAnswer
<1>10. OnlyMainFindsItClosed'
  BY <1>0, PoolAssumption DEF Types, OnlyMainFindsItClosed, Live, Receive, Threads
<1>11. QED
  BY <1>4, <1>5, <1>8, <1>9, <1>10

\* A body that ends: main's ends the program, a worker's answers its reply.
LEMMA FinishKeepsPool ==
  ASSUME PoolInv, NEW t \in Threads, phase[t] = "busy", NEW a, a.kind \in {"ok", "error"},
         Finish(t, a), UNCHANGED <<prog, holder, queue>>
  PROVE  PoolInv'
<1> USE DEF PoolInv
<1>1. CASE t = Main
  <2>1. UNCHANGED <<prog, holder, queue, replies, frame>>
    BY <1>1 DEF Finish
  <2>2. \A w \in Workers : phase'[w] = phase[w]
    BY <1>1, PoolAssumption DEF Finish, Types, Threads
  <2>3. phase'[Main] \in {"done", "failed"} /\ DOMAIN phase' = Threads
    BY <1>1 DEF Finish, Types
  <2>4. Types' /\ BarrierHolds'
    BY <1>1, <2>1, <2>2, <2>3 DEF Types, BarrierHolds, MainPhases
  <2>5. MutexHolds' /\ OneReplyEach' /\ SomebodyWillAnswer'
    BY <2>1, <2>2 DEF MutexHolds, OneReplyEach, SomebodyWillAnswer, Live
  <2>6. OnlyMainFindsItClosed'
    BY <2>2, <2>3 DEF Types, WorkerPhases, OnlyMainFindsItClosed, Threads
  <2>7. QED
    BY <2>4, <2>5, <2>6
<1>2. CASE t # Main
  <2> DEFINE r == frame[t].reply
  <2>1. t \in Workers /\ r \in 1..Len(replies)
    BY <1>2 DEF OneReplyEach, Threads
  <2>2. replies' = [replies EXCEPT ![r].answer = a]
    BY <1>2 DEF Finish
  <2>3. /\ IsSequence(replies') /\ Len(replies') = Len(replies)
        /\ \A i \in 1..Len(replies) :
             /\ DOMAIN replies'[i] = {"call", "by", "answer"}
             /\ replies'[i].answer = IF i = r THEN a ELSE replies[i].answer
    <3> DEFINE x == [replies[r] EXCEPT !.answer = a]
    <3>1. IsSequence(replies) /\ \A i \in 1..Len(replies) : DOMAIN replies[i] = {"call", "by", "answer"}
      BY DEF Types
    <3>2. DOMAIN x = {"call", "by", "answer"} /\ x.answer = a
      BY <2>1, <3>1
    <3>3. replies' = [replies EXCEPT ![r] = x]
      BY <2>2
    <3> HIDE DEF x, r
    <3>4. IsSequence(replies')
      BY ONLY <2>1, <3>1, <3>3, ReplaceOne
    <3>5. Len(replies') = Len(replies)
      BY ONLY <2>1, <3>1, <3>3, ReplaceOne
    <3>6. \A i \in 1..Len(replies) : replies'[i] = IF i = r THEN x ELSE replies[i]
      BY <2>1, <3>1, <3>3, LenProperties DEF IsSequence
    <3>7. QED
      BY <3>1, <3>2, <3>4, <3>5, <3>6
  <2>4. a # Pending
    BY DEF Pending
  <2>5. /\ frame' = [frame EXCEPT ![t] = Idle] /\ frame'[t] = Idle /\ DOMAIN frame' = Threads
        /\ \A u \in Threads : u # t => frame'[u] = frame[u]
    BY <1>2 DEF Finish, Types
  <2>6. Idle.reply = 0 /\ DOMAIN Idle = Fields
    BY DEF Idle, Fields
  <2>7. /\ DOMAIN phase' = Threads /\ phase'[t] = "free"
        /\ \A u \in Threads : u # t => phase'[u] = phase[u]
    BY <1>2 DEF Finish, Types
  <2>8. Types'
    <3>1. phase'[Main] \in MainPhases /\ \A w \in Workers : phase'[w] \in WorkerPhases
      BY <1>2, <2>7 DEF Types, Threads, WorkerPhases
    <3>2. \A u \in Threads : DOMAIN frame'[u] = Fields
      BY <2>5, <2>6 DEF Types
    <3>3. queue' \in Seq(1..Len(replies')) /\ holder' \in Workers \cup {None} /\ prog' \in Programs
      BY <2>3 DEF Types
    <3>4. \A i \in 1..Len(replies') : replies'[i].answer = Pending \/ replies'[i].answer.kind \in {"ok", "error"}
      BY <2>3 DEF Types
    <3>5. QED
      BY <2>3, <2>5, <2>7, <3>1, <3>2, <3>3, <3>4 DEF Types
  <2>9. BarrierHolds'
    <3>1. phase[Main] # "starting" /\ phase'[Main] # "starting"
      BY <1>2, <2>1, <2>7 DEF BarrierHolds, Threads
    <3>2. QED
      BY <2>7, <3>1 DEF BarrierHolds, Threads
  <2>10. MutexHolds'
    BY <2>1, <2>7 DEF MutexHolds, Threads
  <2>11. OneReplyEach'
    BY <1>2, <2>1, <2>3, <2>5, <2>6, <2>7, PoolAssumption DEF OneReplyEach, Threads
  <2>12. SomebodyWillAnswer'
    <3>1. r \notin ToSet(queue) /\ \A v \in Workers : v # t => frame[v].reply # r
      BY <2>1, SomebodyDef DEF SomebodyWillAnswer, OneReplyEach
    <3>2. \A i \in 1..Len(replies) : i # r =>
            ((\E v \in Workers : frame'[v].reply = i) <=> \E v \in Workers : frame[v].reply = i)
      BY <2>1, <2>5, <2>6 DEF Threads
    <3>3. ~\E v \in Workers : frame'[v].reply = r
      BY <2>1, <2>5, <2>6, <3>1 DEF Threads
    <3>4. \A i \in 1..Len(replies') : replies'[i].answer = Pending <=>
            i \in ToSet(queue') \/ \E v \in Workers : frame'[v].reply = i
      BY <2>3, <2>4, <3>1, <3>2, <3>3 DEF SomebodyWillAnswer
    <3>5. \A k \in 1..Len(queue') : \A v \in Workers : frame'[v].reply # queue'[k]
      BY <2>5, <2>6, SomebodyDef DEF SomebodyWillAnswer, Threads
    <3>6. Live' = Live
      BY <2>1, <2>7 DEF Live, Threads
    <3>7. QED
      BY <3>4, <3>5, <3>6 DEF SomebodyWillAnswer
  <2>13. OnlyMainFindsItClosed'
    <3>1. Live' = Live
      BY <2>1, <2>7 DEF Live, Threads
    <3>2. QED
      BY <2>7, <3>1 DEF OnlyMainFindsItClosed
  <2>14. QED
    BY <2>8, <2>9, <2>10, <2>11, <2>12, <2>13
<1>3. QED
  BY <1>1, <1>2

\* A thread goes on in its body: what it holds changes, not what it answers.
LEMMA LocalKeepsPool ==
  ASSUME PoolInv, NEW t \in Threads, phase[t] = "busy", NEW f,
         frame' = [frame EXCEPT ![t] = f], DOMAIN f = Fields, f.reply = frame[t].reply,
         UNCHANGED <<prog, phase, holder, queue, replies>>
  PROVE  PoolInv'
<1> USE DEF PoolInv
<1>1. /\ DOMAIN frame' = Threads /\ frame'[t] = f
      /\ \A u \in Threads : u # t => frame'[u] = frame[u]
      /\ \A u \in Threads : frame'[u].reply = frame[u].reply
  BY DEF Types
<1>2. Types'
  BY <1>1 DEF Types
<1>3. BarrierHolds' /\ MutexHolds' /\ OnlyMainFindsItClosed'
  BY DEF BarrierHolds, MutexHolds, OnlyMainFindsItClosed, Live
<1>4. OneReplyEach'
  BY <1>1 DEF OneReplyEach, Threads
<1>5. SomebodyWillAnswer'
  BY <1>1 DEF SomebodyWillAnswer, Live, Threads
<1>6. QED
  BY <1>2, <1>3, <1>4, <1>5

\* A job is put into the channel with a new reply, or main finds it closed.
LEMMA SubmitKeepsPool ==
  ASSUME PoolInv, NEW t \in Threads, Submit(t)
  PROVE  PoolInv'
<1> USE DEF PoolInv
<1>0. phase[t] = "busy" /\ UNCHANGED <<prog, holder>>
  BY DEF Submit, Runs
<1>1. CASE Closed
  <2>1. t = Main
    BY <1>0, <1>1 DEF Closed, Live, Threads
  <2>2. UNCHANGED <<prog, holder, queue, replies, frame>> /\ phase' = [phase EXCEPT ![t] = "panicked"]
    BY <1>0, <1>1 DEF Submit
  <2>3. /\ DOMAIN phase' = Threads /\ phase'[Main] = "panicked"
        /\ \A w \in Workers : phase'[w] = phase[w]
    BY <2>1, <2>2, PoolAssumption DEF Types, Threads
  <2>4. Types' /\ BarrierHolds'
    BY <1>0, <2>1, <2>2, <2>3 DEF Types, BarrierHolds, MainPhases
  <2>5. MutexHolds' /\ OneReplyEach' /\ SomebodyWillAnswer'
    BY <2>2, <2>3 DEF MutexHolds, OneReplyEach, SomebodyWillAnswer, Live
  <2>6. Live' = {}
    BY <1>1, <2>3 DEF Closed, Live
  <2>7. OnlyMainFindsItClosed'
    BY <2>3, <2>6 DEF Types, WorkerPhases, OnlyMainFindsItClosed, Threads
  <2>8. QED
    BY <2>4, <2>5, <2>7
<1>2. CASE ~Closed
  <2> DEFINE id == Len(replies) + 1
             r == [call |-> Stmt(t).calls[Len(frame[t].sent) + 1], by |-> t, answer |-> Pending]
             f == frame'[t]
  <2>1. queue' = Append(queue, id) /\ replies' = Append(replies, r) /\ UNCHANGED phase
    BY <1>2 DEF Submit
  <2>2. /\ DOMAIN frame' = Threads /\ DOMAIN f = Fields /\ f.reply = frame[t].reply
        /\ \A u \in Threads : u # t => frame'[u] = frame[u]
    BY <1>2 DEF Submit, Types, Fields
  <2>3. DOMAIN r = {"call", "by", "answer"} /\ r.answer = Pending
    OBVIOUS
  <2>4. Len(replies) \in Nat /\ IsSequence(replies)
    BY SomebodyDef DEF Types
  <2> HIDE DEF r, f
  <2>5. Len(replies') = Len(replies) + 1
    BY ONLY <2>1, <2>4, AppendOne
  <2>6. replies'[Len(replies) + 1] = r
    BY ONLY <2>1, <2>4, AppendOne
  <2>7. \A i \in 1..Len(replies) : replies'[i] = replies[i]
    BY ONLY <2>1, <2>4, AppendOne
  <2>8. IsSequence(replies')
    BY ONLY <2>1, <2>4, AppendOne
  <2>9. queue \in Seq(1..Len(replies')) /\ id \in 1..Len(replies')
    BY <2>4, <2>5, SeqMonotonic DEF Types
  <2>10. id \notin ToSet(queue)
    BY <2>4, SomebodyDef
  <2>11. /\ ToSet(queue') = ToSet(queue) \cup {id}
         /\ IsInjective(queue')
    <3>1. IsInjective(queue)
      BY DEF SomebodyWillAnswer
    <3> HIDE DEF id
    <3>2. QED
      BY ONLY <2>1, <2>9, <2>10, <3>1, AppendSet
  <2>12. queue' \in Seq(1..Len(replies'))
    BY <2>1, <2>9, AppendProperties
  <2>13. \A u \in Threads : frame'[u].reply = frame[u].reply
    BY <2>2 DEF f
  <2>14. Types'
    <3>1. \A i \in 1..Len(replies') :
            /\ DOMAIN replies'[i] = {"call", "by", "answer"}
            /\ replies'[i].answer = Pending \/ replies'[i].answer.kind \in {"ok", "error"}
      <4>1. \A i \in 1..Len(replies') : i \in 1..Len(replies) \/ i = Len(replies) + 1
        BY <2>4, <2>5
      <4>2. QED
        BY <2>3, <2>6, <2>7, <4>1 DEF Types
    <3>2. \A u \in Threads : DOMAIN frame'[u] = Fields
      BY <2>2 DEF Types, f
    <3>3. QED
      BY <1>0, <2>1, <2>2, <2>8, <2>12, <3>1, <3>2 DEF Types
  <2>15. MutexHolds' /\ OnlyMainFindsItClosed'
    BY <1>0, <2>1 DEF MutexHolds, OnlyMainFindsItClosed, Live
  <2>16. phase[Main] # "starting"
    BY <1>0 DEF BarrierHolds, Threads
  <2>17. BarrierHolds'
    BY <2>1, <2>16 DEF BarrierHolds
  <2>18. OneReplyEach'
    BY <1>0, <2>1, <2>2, <2>4, <2>5, <2>13 DEF OneReplyEach, Threads
  <2>19. SomebodyWillAnswer'
    <3>1. \A v \in Workers : frame'[v].reply = frame[v].reply /\ frame'[v].reply # id
      BY <2>4, <2>13 DEF OneReplyEach, Threads, Idle
    <3>2. \A i \in 1..Len(replies') : replies'[i].answer = Pending <=>
            i \in ToSet(queue') \/ \E v \in Workers : frame'[v].reply = i
      <4>1. ASSUME NEW i \in 1..Len(replies)
            PROVE  replies'[i].answer = Pending <=> i \in ToSet(queue') \/ \E v \in Workers : frame'[v].reply = i
        <5>1. replies'[i] = replies[i] /\ i # id
          BY <2>4, <2>7
        <5>2. QED
          BY <2>11, <3>1, <5>1 DEF SomebodyWillAnswer
      <4>2. replies'[id].answer = Pending /\ id \in ToSet(queue')
        BY <2>3, <2>6, <2>11
      <4>3. \A i \in 1..Len(replies') : i \in 1..Len(replies) \/ i = id
        BY <2>4, <2>5
      <4>4. QED
        BY <4>1, <4>2, <4>3
    <3>3. \A k \in 1..Len(queue') : queue'[k] \in ToSet(queue')
      BY <2>12, ToSetDef
    <3>4. \A i \in ToSet(queue') : \A v \in Workers : frame'[v].reply # i
      BY <2>11, <3>1, SomebodyDef DEF SomebodyWillAnswer
    <3>5. Live' # {}
      BY <1>2, <2>1 DEF Closed, Live
    <3>6. QED
      BY <2>11, <3>2, <3>3, <3>4, <3>5 DEF SomebodyWillAnswer
  <2>20. QED
    BY <2>14, <2>15, <2>17, <2>18, <2>19
<1>3. QED
  BY <1>1, <1>2

\* A panic answers the job of the worker and, when it was the last, all of
\* those in the channel.
LEMMA PanicKeepsPool ==
  ASSUME PoolInv, NEW w \in Workers, Panic(w)
  PROVE  PoolInv'
<1> USE DEF PoolInv
<1>0. w \in Threads /\ w # Main /\ phase[w] = "busy" /\ UNCHANGED <<prog, holder>>
  BY PoolAssumption DEF Panic, Runs, Threads
<1>1. /\ DOMAIN phase' = Threads /\ phase'[w] = "dead"
      /\ \A u \in Threads : u # w => phase'[u] = phase[u]
  BY <1>0 DEF Panic, Types
<1>2. /\ DOMAIN frame' = Threads /\ frame'[w] = Idle
      /\ \A u \in Threads : u # w => frame'[u] = frame[u]
  BY <1>0 DEF Panic, Types
<1>3. Idle.reply = 0 /\ DOMAIN Idle = Fields
  BY DEF Idle, Fields
<1>4. frame[w].reply \in 1..Len(replies)
  BY <1>0 DEF OneReplyEach
<1>5. replies' = [i \in 1..Len(replies) |->
        IF i \in Dropped(w) THEN [replies[i] EXCEPT !.answer = Lost] ELSE replies[i]]
  BY DEF Panic
<1>6. Len(replies) \in Nat /\ Len(replies') = Len(replies)
  BY <1>5, SomebodyDef
<1>7. IsSequence(replies')
  <2> DEFINE e(i) == IF i \in Dropped(w) THEN [replies[i] EXCEPT !.answer = Lost] ELSE replies[i]
             S == {e(i) : i \in 1..Len(replies)}
  <2>1. replies' = [i \in 1..Len(replies) |-> e(i)]
    BY <1>5
  <2>2. \A i \in 1..Len(replies) : e(i) \in S
    OBVIOUS
  <2> HIDE DEF e, S
  <2>3. [i \in 1..Len(replies) |-> e(i)] \in Seq(S)
    BY <1>6, <2>2, IsASeq
  <2>4. QED
    BY <2>1, <2>3, OwnSet
<1>8. \A i \in 1..Len(replies) :
        /\ DOMAIN replies'[i] = {"call", "by", "answer"}
        /\ replies'[i].answer = IF i \in Dropped(w) THEN Lost ELSE replies[i].answer
  BY <1>5 DEF Types
<1>9. Lost # Pending /\ Lost.kind = "error"
  BY DEF Lost, Err, Pending
<1>10. queue' \in Seq(1..Len(replies))
  BY EmptySeq DEF Types, Panic
<1>11. Types'
  <2>1. phase'[Main] \in MainPhases /\ \A v \in Workers : phase'[v] \in WorkerPhases
    BY <1>0, <1>1 DEF Types, Threads, WorkerPhases
  <2>2. \A u \in Threads : DOMAIN frame'[u] = Fields
    BY <1>2, <1>3 DEF Types
  <2>3. \A i \in 1..Len(replies') : replies'[i].answer = Pending \/ replies'[i].answer.kind \in {"ok", "error"}
    BY <1>6, <1>8, <1>9 DEF Types
  <2>4. QED
    BY <1>0, <1>1, <1>2, <1>6, <1>7, <1>8, <1>10, <2>1, <2>2, <2>3 DEF Types
<1>12. phase[Main] # "starting" /\ phase'[Main] = phase[Main]
  BY <1>0, <1>1 DEF BarrierHolds, Threads
<1>13. BarrierHolds' /\ MutexHolds'
  BY <1>0, <1>1, <1>12 DEF BarrierHolds, MutexHolds, Threads
<1>14. OneReplyEach'
  BY <1>0, <1>1, <1>2, <1>3, <1>6 DEF OneReplyEach, Threads
<1>15. Live' = Live \ {w} /\ w \in Live
  BY <1>0, <1>1 DEF Live, Threads
<1>16. OnlyMainFindsItClosed'
  BY <1>0, <1>1, <1>15 DEF OnlyMainFindsItClosed
<1>17. \A v \in Workers : v # w => frame[v].reply # frame[w].reply
  BY <1>4 DEF OneReplyEach
<1>18. frame[w].reply \notin ToSet(queue)
  BY <1>4, SomebodyDef DEF SomebodyWillAnswer
<1>19. SomebodyWillAnswer'
  <2>1. CASE Live = {w}
    <3>1. Dropped(w) = {frame[w].reply} \cup ToSet(queue) /\ queue' = <<>> /\ Len(queue') = 0
      BY <2>1, EmptySeq DEF Dropped, Panic
    <3>2. \A v \in Workers : frame'[v].reply = 0
      BY <1>0, <1>2, <1>3, <2>1 DEF OneReplyEach, Live, Threads
    <3>3. \A v \in Workers : v # w => frame[v].reply = 0
      BY <1>3, <2>1 DEF OneReplyEach, Live
    <3>4. \A i \in 1..Len(replies) : replies[i].answer = Pending => i \in Dropped(w)
      BY <3>1, <3>3 DEF SomebodyWillAnswer
    <3>5. \A i \in 1..Len(replies) : replies'[i].answer # Pending
      BY <1>8, <1>9, <3>4
    <3>6. ToSet(queue') = {} /\ IsInjective(queue')
      BY <1>11, <3>1, SomebodyDef DEF ToSet, IsInjective
    <3>7. QED
      BY <1>6, <3>1, <3>2, <3>5, <3>6 DEF SomebodyWillAnswer
  <2>2. CASE Live # {w}
    <3>1. Dropped(w) = {frame[w].reply} /\ queue' = queue
      BY <2>2 DEF Dropped, Panic
    <3>2. \A i \in 1..Len(replies) : i # frame[w].reply =>
            ((\E v \in Workers : frame'[v].reply = i) <=> \E v \in Workers : frame[v].reply = i)
      BY <1>0, <1>2, <1>3 DEF Threads
    <3>3. ~\E v \in Workers : frame'[v].reply = frame[w].reply
      BY <1>2, <1>3, <1>4, <1>17 DEF Threads
    <3>4. \A i \in 1..Len(replies') : replies'[i].answer = Pending <=>
            i \in ToSet(queue') \/ \E v \in Workers : frame'[v].reply = i
      BY <1>6, <1>8, <1>9, <1>18, <3>1, <3>2, <3>3 DEF SomebodyWillAnswer
    <3>5. \A k \in 1..Len(queue') : \A v \in Workers : frame'[v].reply # queue'[k]
      BY <1>2, <1>3, <3>1, SomebodyDef DEF SomebodyWillAnswer, Threads
    <3>6. Live' # {}
      BY <1>15, <2>2
    <3>7. QED
      BY <3>1, <3>4, <3>5, <3>6 DEF SomebodyWillAnswer
  <2>3. QED
    BY <2>1, <2>2
<1>20. QED
  BY <1>11, <1>13, <1>14, <1>16, <1>19

\* A statement that has its result lets the body go on.
LEMMA ContinueKeepsPool ==
  ASSUME PoolInv, NEW t \in Threads, phase[t] = "busy", NEW r,
         Continue(t, r), UNCHANGED <<prog, holder, queue>>
  PROVE  PoolInv'
<1>1. /\ frame' = [frame EXCEPT ![t] = frame'[t]] /\ DOMAIN frame'[t] = Fields
      /\ frame'[t].reply = frame[t].reply
  BY DEF Continue, PoolInv, Types, Fields
<1>2. UNCHANGED <<phase, replies>>
  BY DEF Continue
<1>3. QED
  BY <1>1, <1>2, LocalKeepsPool

\* An error is rescued by the body or ends it.
LEMMA ThrowKeepsPool ==
  ASSUME PoolInv, NEW t \in Threads, phase[t] = "busy", NEW a, a.kind = "error",
         Throw(t, a), UNCHANGED <<prog, holder, queue>>
  PROVE  PoolInv'
BY ContinueKeepsPool, FinishKeepsPool DEF Throw

\* Every step of a body keeps the invariant of the pool.
LEMMA ExecuteKeepsPool ==
  ASSUME PoolInv, NEW t \in Threads, Execute(t)
  PROVE  PoolInv'
<1>1. phase[t] = "busy"
  BY DEF Execute, Undefined, Refuse, Submit, TakeHandle, MapOfNone, Collect, End, Runs
<1>2. CASE Undefined(t)
  <2>1. Err("undefined").kind = "error"
    BY DEF Err
  <2>2. Finish(t, Err("undefined")) /\ UNCHANGED <<prog, holder, queue>>
    BY <1>2 DEF Undefined
  <2>3. QED
    BY <1>1, <2>1, <2>2, FinishKeepsPool
<1>3. CASE Refuse(t)
  <2>1. Err("already joined").kind = "error" /\ Err("argument not Send").kind = "error"
    BY DEF Err
  <2>2. Throw(t, Err("already joined")) \/ Throw(t, Err("argument not Send"))
    BY <1>3 DEF Refuse
  <2>3. UNCHANGED <<prog, holder, queue>>
    BY <1>3 DEF Refuse
  <2>4. QED
    BY <1>1, <2>1, <2>2, <2>3, ThrowKeepsPool
<1>4. CASE Submit(t)
  BY <1>4, SubmitKeepsPool
<1>5. CASE TakeHandle(t)
  <2>1. /\ frame' = [frame EXCEPT ![t] = frame'[t]] /\ DOMAIN frame'[t] = Fields
        /\ frame'[t].reply = frame[t].reply
    BY <1>5 DEF TakeHandle, PoolInv, Types, Fields
  <2>2. UNCHANGED <<prog, phase, holder, queue, replies>>
    BY <1>5 DEF TakeHandle
  <2>3. QED
    BY <1>1, <2>1, <2>2, LocalKeepsPool
<1>6. CASE MapOfNone(t)
  BY <1>1, <1>6, ContinueKeepsPool DEF MapOfNone
<1>7. CASE Collect(t)
  <2> DEFINE a == replies[Awaited(t)].answer
             got == Append(frame[t].got, a)
  <2>1. UNCHANGED <<prog, holder, queue>>
    BY <1>7 DEF Collect
  <2>2. CASE a.kind = "error"
    BY <1>1, <1>7, <2>1, <2>2, ThrowKeepsPool DEF Collect
  <2>3. CASE a.kind # "error" /\ Len(got) < Len(frame[t].sent)
    <3>1. frame' = [frame EXCEPT ![t].got = got] /\ UNCHANGED <<phase, replies>>
      BY <1>7, <2>3 DEF Collect
    <3> HIDE DEF got
    <3>2. /\ frame' = [frame EXCEPT ![t] = frame'[t]] /\ DOMAIN frame'[t] = Fields
          /\ frame'[t].reply = frame[t].reply
      BY <3>1 DEF PoolInv, Types, Fields
    <3>3. QED
      BY <1>1, <2>1, <3>1, <3>2, LocalKeepsPool
  <2>4. CASE a.kind # "error" /\ ~(Len(got) < Len(frame[t].sent))
    <3>1. Continue(t, IF Stmt(t).op = "map" THEN List(got) ELSE a)
      BY <1>7, <2>4 DEF Collect
    <3>2. QED
      BY <1>1, <2>1, <3>1, ContinueKeepsPool
  <2>5. QED
    BY <2>2, <2>3, <2>4
<1>8. CASE End(t)
  <2> DEFINE a == CASE Body(t).ends = "value" -> Ok(<<Body(t).name, frame[t].results>>)
                    [] Body(t).ends = "error" -> Err("raised")
                    [] OTHER -> Err("result not Send")
  <2>1. a.kind \in {"ok", "error"}
    BY DEF Ok, Err
  <2>2. Finish(t, a) /\ UNCHANGED <<prog, holder, queue>>
    BY <1>8 DEF End
  <2> HIDE DEF a
  <2>3. QED
    BY <1>1, <2>1, <2>2, FinishKeepsPool
<1>9. QED
  BY <1>2, <1>3, <1>4, <1>5, <1>6, <1>7, <1>8 DEF Execute

\* Every step of the program keeps the invariant of the pool.
LEMMA NextKeepsPool ==
  ASSUME PoolInv, [Next]_vars
  PROVE  PoolInv'
<1>1. ASSUME NEW t \in Threads, Load(t) \/ LoadPanics(t) \/ Barrier PROVE PoolInv'
  BY <1>1, LoadingKeepsPool
<1>2. ASSUME NEW t \in Threads, Execute(t) PROVE PoolInv'
  BY <1>2, ExecuteKeepsPool
<1>3. CASE Lead
  BY <1>1, <1>2, <1>3 DEF Lead, Threads
<1>4. ASSUME NEW w \in Workers, Work(w) PROVE PoolInv'
  BY <1>1, <1>2, <1>4, LockKeepsPool, ReceiveKeepsPool, PanicKeepsPool DEF Work, Threads
<1>5. CASE UNCHANGED vars
  BY <1>5 DEF vars, PoolInv, Types, BarrierHolds, MutexHolds, OneReplyEach, SomebodyWillAnswer,
              OnlyMainFindsItClosed, Live
<1>6. QED
  BY <1>3, <1>4, <1>5 DEF Next

\* The invariant of the pool holds throughout.
LEMMA PoolInvariant == Spec => []PoolInv
<1>1. Init => PoolInv
  BY PoolInit
<1>2. PoolInv /\ [Next]_vars => PoolInv'
  BY NextKeepsPool
<1>3. QED
  BY <1>1, <1>2, PTL DEF Spec

\* Whoever waits for a reply waits for one that is still to come: a pending
\* reply is either a job in the channel, while a worker is alive to take it,
\* or what exactly one worker executes (worker.rs:67-105, `WorkerPool::new`).
THEOREM EveryReplyHasItsWorker == Spec => []SomebodyWillAnswer
<1>1. PoolInv => SomebodyWillAnswer
  BY DEF PoolInv
<1>2. QED
  BY <1>1, PoolInvariant, PTL

\* Only main can fail at the closed channel of WorkerPool::call, and then no
\* worker is left; a worker that submits is itself alive to receive.
THEOREM WorkersFindItOpen == Spec => []OnlyMainFindsItClosed
<1>1. PoolInv => OnlyMainFindsItClosed
  BY DEF PoolInv
<1>2. QED
  BY <1>1, PoolInvariant, PTL
-----------------------------------------------------------------------------
(* The invariant of the bodies that are executed.                          *)

\* The replies there are keep their calls, and others may come after them.
MoreReplies ==
  /\ Len(replies') \in Nat /\ Len(replies) <= Len(replies')
  /\ \A i \in 1..Len(replies) : replies'[i].call = replies[i].call

\* Of a thread: what it answers is among the replies, and its body and
\* statement are the program's.
LEMMA ItsBody ==
  ASSUME PoolInv, FrameInv, NEW t \in Threads
  PROVE  /\ Len(replies) \in Nat
         /\ frame[t].reply \in 0..Len(replies)
         /\ phase[t] = "busy" => t = Main \/ frame[t].reply \in 1..Len(replies)
         /\ phase[t] = "busy" => Body(t).does \in Seq(Statements(prog))
         /\ phase[t] = "busy" => \A k \in 1..Len(Body(t).does) :
              Body(t).does[k].op \in {"call", "spawn"} => Len(Body(t).does[k].calls) = 1
<1>1. Len(replies) \in Nat
  BY SomebodyDef DEF PoolInv
<1>2. frame[t].reply \in 0..Len(replies)
  BY <1>1 DEF PoolInv, OneReplyEach, Threads, Idle
<1>3. phase[t] = "busy" => t = Main \/ frame[t].reply \in 1..Len(replies)
  BY DEF PoolInv, OneReplyEach, Threads
<1>4. phase[t] = "busy" => Body(t) \in {prog.main} \cup {prog.body[c] : c \in DOMAIN prog.body}
  BY <1>3 DEF Body, FrameInv
<1>5. prog \in Programs
  BY DEF PoolInv, Types
<1>6. QED
  BY <1>1, <1>2, <1>3, <1>4, <1>5, ProgramsAssumption

\* The statement a thread is at.
LEMMA ItsStatement ==
  ASSUME PoolInv, FrameInv, NEW t \in Threads, phase[t] = "busy", ~AtEnd(t)
  PROVE  /\ Stmt(t).op \in {"call", "spawn", "join", "map"}
         /\ Stmt(t).calls \in Seq(DOMAIN prog.body)
         /\ Len(Stmt(t).calls) \in Nat
         /\ Stmt(t).op \in {"call", "spawn"} => Len(Stmt(t).calls) = 1
<1>1. Body(t).does \in Seq(Statements(prog)) /\ FrameOK(t)
  BY ItsBody DEF FrameInv
<1>2. Len(Body(t).does) \in Nat
  BY <1>1, LenProperties
<1>3. frame[t].at \in 1..Len(Body(t).does)
  BY <1>1, <1>2 DEF AtEnd, FrameOK
<1>4. Stmt(t) \in Statements(prog)
  BY <1>1, <1>3, ElementOfSeq DEF Stmt
<1>5. /\ Stmt(t).op \in {"call", "spawn", "join", "map"}
      /\ Stmt(t).calls \in Seq(DOMAIN prog.body)
  BY <1>4 DEF Statements
<1>6. Stmt(t).op \in {"call", "spawn"} => Len(Stmt(t).calls) = 1
  BY <1>3, ItsBody DEF Stmt
<1>7. QED
  BY <1>5, <1>6, LenProperties

\* A thread whose frame is left alone keeps its part of the invariant.
LEMMA OthersKeep ==
  ASSUME PoolInv, FrameInv, NEW u \in Threads, MoreReplies,
         frame'[u] = frame[u], prog' = prog,
         phase'[u] \in {"starting", "loading"} => phase[u] \in {"starting", "loading"},
         phase'[u] = "busy" => phase[u] \in {"starting", "loading", "busy"}
  PROVE  FrameOK(u)'
<1>1. FrameOK(u) /\ Len(replies) \in Nat /\ frame[u].reply \in 0..Len(replies)
  BY ItsBody DEF FrameInv
<1>2. /\ frame[u].reply + 1..Len(replies) \subseteq frame[u].reply + 1..Len(replies')
      /\ frame[u].sent \in Seq(frame[u].reply + 1..Len(replies))
  BY <1>1 DEF MoreReplies, FrameOK
<1>3. frame'[u].sent \in Seq(frame'[u].reply + 1..Len(replies'))
  BY <1>2, SeqMonotonic
<1>4. ASSUME frame'[u].sent # <<>>, phase'[u] = "busy"
      PROVE  /\ frame'[u].at <= Len(Body(u)'.does)
             /\ Stmt(u)'.op # "spawn"
             /\ Len(frame'[u].sent) <= Opens(Stmt(u)')
  <2>1. phase[u] = "busy" /\ frame[u].sent # <<>>
    BY <1>1, <1>4 DEF FrameOK
  <2>2. Body(u)' = Body(u) /\ Stmt(u)' = Stmt(u)
    BY <2>1, ItsBody DEF Body, Stmt, MoreReplies
  <2>3. QED
    BY <1>1, <2>1, <2>2 DEF FrameOK
<1>5. /\ frame'[u].at \in Nat \ {0} /\ IsSequence(frame'[u].got)
      /\ Len(frame'[u].got) <= Len(frame'[u].sent)
      /\ phase'[u] \in {"starting", "loading"} => frame'[u].sent = <<>>
      /\ frame'[u].sent # <<>> => Len(frame'[u].got) < Len(frame'[u].sent)
  BY <1>1 DEF FrameOK
<1>6. \A h \in frame'[u].handles : h[2] \in frame'[u].reply + 1..Len(replies')
  BY <1>1, <1>2 DEF FrameOK
<1>7. QED
  BY <1>3, <1>4, <1>5, <1>6 DEF FrameOK

\* A thread that holds nothing of its statement.
LEMMA EmptyHanded ==
  ASSUME NEW u \in Threads, frame'[u].at \in Nat \ {0}, frame'[u].sent = <<>>, frame'[u].got = <<>>,
         \A h \in frame'[u].handles : h[2] \in frame'[u].reply + 1..Len(replies')
  PROVE  FrameOK(u)'
<1>1. Len(<<>>) = 0 /\ <<>> \in Seq(frame'[u].reply + 1..Len(replies')) /\ IsSequence(<<>>)
  BY EmptySeq DEF IsSequence
<1>2. QED
  BY <1>1 DEF FrameOK

\* No thread has begun.
LEMMA FrameInit ==
  ASSUME Init
  PROVE  FrameInv
<1>1. Len(<<>>) = 0 /\ IsSequence(<<>>) /\ \A S : <<>> \in Seq(S)
  BY EmptySeq DEF IsSequence
<1>2. ASSUME NEW t \in Threads PROVE FrameOK(t)
  <2>1. /\ frame[t].at = 1 /\ frame[t].sent = <<>> /\ frame[t].got = <<>> /\ frame[t].handles = {}
    BY DEF Init, Idle
  <2>2. QED
    BY <1>1, <2>1 DEF FrameOK
<1>3. QED
  BY <1>1, <1>2 DEF FrameInv, Init

\* The steps that submit nothing: only the thread that takes them may have
\* something else in its frame.
LEMMA QuietKeepsFrames ==
  ASSUME PoolInv, FrameInv, NEW t \in Threads, FrameOK(t)', prog' = prog,
         Len(replies') = Len(replies), \A i \in 1..Len(replies) : replies'[i].call = replies[i].call,
         \A u \in Threads : u # t => frame'[u] = frame[u] /\ phase'[u] = phase[u]
  PROVE  FrameInv'
<1>1. MoreReplies
  BY ItsBody DEF MoreReplies
<1>2. \A u \in Threads : FrameOK(u)'
  <2>1. ASSUME NEW u \in Threads, u # t PROVE FrameOK(u)'
    BY <1>1, <2>1, OthersKeep
  <2>2. QED
    BY <2>1
<1>3. QED
  BY <1>2 DEF FrameInv

\* Loading, the barrier and the mutex change no frame.
LEMMA StartKeepsFrames ==
  ASSUME PoolInv, FrameInv, NEW t \in Threads, Load(t) \/ LoadPanics(t) \/ Barrier \/ Lock(t)
  PROVE  FrameInv'
<1>1. UNCHANGED <<prog, queue, replies, frame>>
  BY DEF Load, LoadPanics, Barrier, Lock
<1>2. MoreReplies
  BY <1>1, ItsBody DEF MoreReplies
<1>3. ASSUME NEW u \in Threads PROVE FrameOK(u)'
  <2>1. phase'[u] \in {"starting", "loading"} => phase[u] \in {"starting", "loading"}
    BY PoolAssumption DEF PoolInv, Types, Load, LoadPanics, Barrier, Lock, Threads
  <2>2. phase'[u] = "busy" => phase[u] \in {"starting", "loading", "busy"}
    BY PoolAssumption DEF PoolInv, Types, Load, LoadPanics, Barrier, Lock, Threads
  <2>3. QED
    BY <1>1, <1>2, <2>1, <2>2, OthersKeep
<1>4. QED
  BY <1>1, <1>3 DEF FrameInv

\* A job begins with an empty frame.
LEMMA ReceiveKeepsFrames ==
  ASSUME PoolInv, FrameInv, NEW w \in Workers, Receive(w)
  PROVE  FrameInv'
<1>1. w \in Threads /\ UNCHANGED <<prog, replies>>
  BY DEF Receive, Threads
<1>2. /\ frame'[w].at = 1 /\ frame'[w].sent = <<>> /\ frame'[w].got = <<>> /\ frame'[w].handles = {}
  BY <1>1 DEF Receive, PoolInv, Types, Idle
<1>3. \A u \in Threads : u # w => frame'[u] = frame[u] /\ phase'[u] = phase[u]
  BY <1>1 DEF Receive, PoolInv, Types
<1>4. FrameOK(w)'
  BY <1>1, <1>2, EmptyHanded
<1>5. QED
  BY <1>1, <1>3, <1>4, QuietKeepsFrames

\* A job that has ended leaves an empty frame.
LEMMA FinishKeepsFrames ==
  ASSUME PoolInv, FrameInv, NEW t \in Threads, phase[t] = "busy", NEW a, Finish(t, a), prog' = prog
  PROVE  FrameInv'
<1>1. /\ Len(replies') = Len(replies)
      /\ \A i \in 1..Len(replies) : replies'[i].call = replies[i].call
  <2>1. CASE t = Main
    BY <2>1 DEF Finish
  <2>2. CASE t # Main
    <3> DEFINE x == [replies[frame[t].reply] EXCEPT !.answer = a]
    <3>1. frame[t].reply \in 1..Len(replies) /\ IsSequence(replies)
      BY <2>2, ItsBody DEF PoolInv, Types
    <3>2. replies' = [replies EXCEPT ![frame[t].reply] = x]
      BY <2>2 DEF Finish
    <3>3. x.call = replies[frame[t].reply].call
      BY <3>1 DEF PoolInv, Types
    <3> HIDE DEF x
    <3>4. Len(replies') = Len(replies)
      BY ONLY <3>1, <3>2, ReplaceOne
    <3>5. \A i \in 1..Len(replies) : replies'[i] = IF i = frame[t].reply THEN x ELSE replies[i]
      BY <3>1, <3>2, LenProperties DEF IsSequence
    <3>6. QED
      BY <3>3, <3>4, <3>5
  <2>3. QED
    BY <2>1, <2>2
<1>2. \A u \in Threads : u # t => frame'[u] = frame[u] /\ phase'[u] = phase[u]
  BY DEF Finish, PoolInv, Types
<1>3. FrameOK(t)'
  <2>1. CASE t = Main
    <3>1. frame' = frame /\ phase'[t] \in {"done", "failed"}
      BY <2>1 DEF Finish, PoolInv, Types
    <3>2. MoreReplies
      BY <1>1, ItsBody DEF MoreReplies
    <3>3. QED
      BY <3>1, <3>2, OthersKeep
  <2>2. CASE t # Main
    <3>1. /\ frame'[t].at = 1 /\ frame'[t].sent = <<>> /\ frame'[t].got = <<>> /\ frame'[t].handles = {}
      BY <2>2 DEF Finish, PoolInv, Types, Idle
    <3>2. QED
      BY <3>1, EmptyHanded
  <2>3. QED
    BY <2>1, <2>2
<1>4. QED
  BY <1>1, <1>2, <1>3, QuietKeepsFrames

\* The next statement begins with nothing sent and nothing collected.
LEMMA ContinueKeepsFrames ==
  ASSUME PoolInv, FrameInv, NEW t \in Threads, NEW r, Continue(t, r), prog' = prog
  PROVE  FrameInv'
<1>1. /\ frame'[t].at = frame[t].at + 1 /\ frame'[t].sent = <<>> /\ frame'[t].got = <<>>
      /\ frame'[t].handles = frame[t].handles /\ frame'[t].reply = frame[t].reply
      /\ \A u \in Threads : u # t => frame'[u] = frame[u]
  BY DEF Continue, PoolInv, Types, Fields
<1>2. UNCHANGED <<phase, replies>>
  BY DEF Continue
<1>3. FrameOK(t)'
  <2>1. frame'[t].at \in Nat \ {0} /\ \A h \in frame'[t].handles : h[2] \in frame'[t].reply + 1..Len(replies')
    BY <1>1, <1>2 DEF FrameInv, FrameOK
  <2>2. QED
    BY <1>1, <2>1, EmptyHanded
<1>4. QED
  BY <1>1, <1>2, <1>3, QuietKeepsFrames

\* An error is rescued by the body or ends it.
LEMMA ThrowKeepsFrames ==
  ASSUME PoolInv, FrameInv, NEW t \in Threads, phase[t] = "busy", NEW a, Throw(t, a), prog' = prog
  PROVE  FrameInv'
BY FinishKeepsFrames, ContinueKeepsFrames DEF Throw

\* A job that panics leaves an empty frame.
LEMMA PanicKeepsFrames ==
  ASSUME PoolInv, FrameInv, NEW w \in Workers, Panic(w)
  PROVE  FrameInv'
<1>1. w \in Threads /\ prog' = prog
  BY DEF Panic, Threads
<1>2. /\ frame'[w].at = 1 /\ frame'[w].sent = <<>> /\ frame'[w].got = <<>> /\ frame'[w].handles = {}
  BY <1>1 DEF Panic, PoolInv, Types, Idle
<1>3. \A u \in Threads : u # w => frame'[u] = frame[u] /\ phase'[u] = phase[u]
  BY <1>1 DEF Panic, PoolInv, Types
<1>4. FrameOK(w)'
  BY <1>1, <1>2, EmptyHanded
<1>5. /\ replies' = [i \in 1..Len(replies) |->
           IF i \in Dropped(w) THEN [replies[i] EXCEPT !.answer = Lost] ELSE replies[i]]
      /\ Len(replies) \in Nat
  BY <1>1, ItsBody DEF Panic
<1>6. Len(replies') = Len(replies) /\ \A i \in 1..Len(replies) : replies'[i].call = replies[i].call
  BY <1>5 DEF PoolInv, Types
<1>7. QED
  BY <1>1, <1>3, <1>4, <1>6, QuietKeepsFrames

\* Before the statement is submitted the thread holds at most part of it.
LEMMA NotAllSent ==
  ASSUME PoolInv, FrameInv, NEW t \in Threads, phase[t] = "busy", ~AtEnd(t), ~Submitted(t)
  PROVE  /\ Len(frame[t].sent) \in Nat /\ Len(frame[t].got) \in Nat
         /\ Len(frame[t].got) <= Len(frame[t].sent)
         /\ Stmt(t).op # "join" => Len(frame[t].sent) < Len(Stmt(t).calls) \/ Len(Stmt(t).calls) = 0
         /\ Stmt(t).op \in {"join", "call", "spawn"} => frame[t].sent = <<>> /\ frame[t].got = <<>>
<1>1. FrameOK(t)
  BY DEF FrameInv
<1>2. Len(frame[t].sent) \in Nat /\ Len(frame[t].got) \in Nat
  BY <1>1, LenProperties DEF FrameOK, IsSequence
<1>3. frame[t].sent # <<>> => Len(frame[t].sent) \in Nat \ {0}
  BY <1>1, EmptySeq DEF FrameOK
<1>4. frame[t].got # <<>> => Len(frame[t].got) \in Nat \ {0}
  BY <1>1, EmptySeq DEF FrameOK, IsSequence
<1>5. Len(<<>>) = 0
  BY EmptySeq
<1>6. Stmt(t).op # "join" => Len(frame[t].sent) < Len(Stmt(t).calls) \/ Len(Stmt(t).calls) = 0
  BY <1>1, <1>2, <1>5, ItsStatement DEF FrameOK, Submitted, Opens
<1>7. Stmt(t).op \in {"join", "call", "spawn"} => frame[t].sent = <<>>
  BY <1>1, <1>2, <1>3, ItsStatement DEF FrameOK, Submitted, Opens
<1>8. Len(frame[t].got) <= Len(frame[t].sent)
  BY <1>1 DEF FrameOK
<1>9. frame[t].sent = <<>> => frame[t].got = <<>>
  BY <1>2, <1>4, <1>5, <1>8
<1>10. QED
  BY <1>2, <1>6, <1>7, <1>8, <1>9

\* A call or an element of a map is one more reply the thread holds.
LEMMA SubmitKeepsFrames ==
  ASSUME PoolInv, FrameInv, NEW t \in Threads, Submit(t)
  PROVE  FrameInv'
<1>1. /\ phase[t] = "busy" /\ ~AtEnd(t) /\ ~Submitted(t) /\ Stmt(t).op # "join"
      /\ UNCHANGED <<prog, holder>>
  BY DEF Submit, Runs
<1>2. CASE Closed
  <2>1. UNCHANGED <<replies, frame>> /\ phase' = [phase EXCEPT ![t] = "panicked"]
    BY <1>1, <1>2 DEF Submit
  <2>2. phase'[t] = "panicked" /\ \A u \in Threads : u # t => phase'[u] = phase[u]
    BY <2>1 DEF PoolInv, Types
  <2>3. MoreReplies
    BY <2>1, ItsBody DEF MoreReplies
  <2>4. FrameOK(t)'
    BY <1>1, <2>1, <2>2, <2>3, OthersKeep
  <2>5. QED
    BY <1>1, <2>1, <2>2, <2>4, QuietKeepsFrames
<1>3. CASE ~Closed
  <2> DEFINE id == Len(replies) + 1
             c == Stmt(t).calls[Len(frame[t].sent) + 1]
             r == [call |-> c, by |-> t, answer |-> Pending]
  <2>1. replies' = Append(replies, r) /\ UNCHANGED phase
    BY <1>3 DEF Submit
  <2>2. r.call = c
    OBVIOUS
  <2>3. Len(replies) \in Nat /\ IsSequence(replies) /\ frame[t].reply \in 0..Len(replies)
    BY ItsBody DEF PoolInv, Types
  <2>4. FrameOK(t)
    BY DEF FrameInv
  <2>5. c \in DOMAIN prog.body
    <3>1. Stmt(t).calls \in Seq(DOMAIN prog.body) /\ Len(Stmt(t).calls) \in Nat
      BY <1>1, ItsStatement
    <3>2. Len(frame[t].sent) < Len(Stmt(t).calls) /\ Len(frame[t].sent) \in Nat
      <4>1. Len(frame[t].sent) # Len(Stmt(t).calls)
        BY <1>1 DEF Submitted
      <4>2. Len(frame[t].sent) # 0 => frame[t].sent # <<>>
        BY EmptySeq
      <4>3. QED
        BY <1>1, <2>4, <3>1, <4>1, <4>2, NotAllSent DEF FrameOK, Opens
    <3>3. Len(frame[t].sent) + 1 \in 1..Len(Stmt(t).calls)
      BY <3>1, <3>2
    <3>4. QED
      BY <3>1, <3>3, ElementOfSeq
  <2> HIDE DEF r, c
  <2>6. Len(replies') = Len(replies) + 1
    BY ONLY <2>1, <2>3, AppendOne
  <2>7. replies'[Len(replies) + 1] = r
    BY ONLY <2>1, <2>3, AppendOne
  <2>8. \A i \in 1..Len(replies) : replies'[i] = replies[i]
    BY ONLY <2>1, <2>3, AppendOne
  <2>9. \A i \in 1..Len(replies') : replies'[i].call \in DOMAIN prog.body
    <3>1. \A i \in 1..Len(replies') : i \in 1..Len(replies) \/ i = Len(replies) + 1
      BY <2>3, <2>6
    <3>2. QED
      BY <2>2, <2>5, <2>7, <2>8, <3>1 DEF FrameInv
  <2>10. MoreReplies
    BY <2>3, <2>6, <2>8 DEF MoreReplies
  <2>11. /\ id \in frame[t].reply + 1..Len(replies')
         /\ frame[t].reply + 1..Len(replies) \subseteq frame[t].reply + 1..Len(replies')
    BY <2>3, <2>6
  <2>12. \A u \in Threads : u # t => frame'[u] = frame[u]
    BY <1>3 DEF Submit, PoolInv, Types
  <2>13. CASE Stmt(t).op = "spawn"
    <3>1. /\ frame'[t].at = frame[t].at + 1 /\ frame'[t].sent = frame[t].sent
          /\ frame'[t].got = frame[t].got /\ frame'[t].reply = frame[t].reply
          /\ frame'[t].handles = frame[t].handles \cup {<<frame[t].at, id>>}
      BY <1>3, <2>13 DEF Submit, PoolInv, Types, Fields
    <3>2. frame[t].sent = <<>> /\ frame[t].got = <<>>
      BY <1>1, <2>13, NotAllSent
    <3>3. \A h \in frame'[t].handles : h[2] \in frame'[t].reply + 1..Len(replies')
      BY <2>4, <2>11, <3>1 DEF FrameOK
    <3>4. frame'[t].at \in Nat \ {0}
      BY <2>4, <3>1 DEF FrameOK
    <3>5. FrameOK(t)'
      BY <3>1, <3>2, <3>3, <3>4, EmptyHanded
    <3>6. QED
      BY <1>1, <2>1, <2>9, <2>10, <2>12, <3>5, OthersKeep DEF FrameInv
  <2>14. CASE Stmt(t).op # "spawn"
    <3>1. /\ frame'[t].at = frame[t].at /\ frame'[t].sent = Append(frame[t].sent, id)
          /\ frame'[t].got = frame[t].got /\ frame'[t].reply = frame[t].reply
          /\ frame'[t].handles = frame[t].handles
      BY <1>3, <2>14 DEF Submit, PoolInv, Types, Fields
    <3>2. frame[t].sent \in Seq(frame[t].reply + 1..Len(replies'))
      BY <2>4, <2>11, SeqMonotonic DEF FrameOK
    <3>3. /\ frame'[t].sent \in Seq(frame'[t].reply + 1..Len(replies'))
          /\ Len(frame'[t].sent) = Len(frame[t].sent) + 1
      BY <2>11, <3>1, <3>2, AppendProperties
    <3>4. /\ Len(frame[t].sent) \in Nat /\ Len(frame[t].got) \in Nat
          /\ Len(frame[t].got) <= Len(frame[t].sent)
          /\ Len(frame[t].sent) < Len(Stmt(t).calls)
      <4>1. Len(frame[t].sent) # Len(Stmt(t).calls)
        BY <1>1 DEF Submitted
      <4>2. Len(frame[t].sent) # 0 => frame[t].sent # <<>>
        BY EmptySeq
      <4>3. Len(Stmt(t).calls) \in Nat
        BY <1>1, ItsStatement
      <4>4. QED
        BY <1>1, <2>4, <4>1, <4>2, <4>3, NotAllSent DEF FrameOK, Opens
    <3>5. Body(t)' = Body(t) /\ Stmt(t)' = Stmt(t)
      BY <1>1, <2>8, <3>1, ItsBody DEF Body, Stmt
    <3>6. Len(Body(t).does) \in Nat /\ frame[t].at <= Len(Body(t).does)
      <4>1. Body(t).does \in Seq(Statements(prog)) /\ frame[t].at \in Nat
        BY <1>1, <2>4, ItsBody DEF FrameOK
      <4>2. Len(Body(t).does) \in Nat
        BY <4>1, LenProperties
      <4>3. QED
        BY <1>1, <4>1, <4>2 DEF AtEnd
    <3>7. Len(Stmt(t).calls) \in Nat
      BY <1>1, ItsStatement
    <3>8. Len(frame'[t].sent) <= Opens(Stmt(t)') /\ Stmt(t)'.op # "spawn"
      BY <1>1, <2>14, <3>3, <3>4, <3>5, <3>7 DEF Opens
    <3>9. \A h \in frame'[t].handles : h[2] \in frame'[t].reply + 1..Len(replies')
      BY <2>4, <2>11, <3>1 DEF FrameOK
    <3>10. /\ frame'[t].at \in Nat \ {0} /\ IsSequence(frame'[t].got)
           /\ Len(frame'[t].got) <= Len(frame'[t].sent) /\ Len(frame'[t].got) < Len(frame'[t].sent)
           /\ phase'[t] \notin {"starting", "loading"}
      BY <1>1, <2>1, <2>4, <3>1, <3>3, <3>4 DEF FrameOK
    <3>11. frame'[t].at <= Len(Body(t)'.does)
      BY <3>1, <3>5, <3>6
    <3>12. FrameOK(t)'
      BY <3>3, <3>8, <3>9, <3>10, <3>11 DEF FrameOK
    <3>13. QED
      BY <1>1, <2>1, <2>9, <2>10, <2>12, <3>12, OthersKeep DEF FrameInv
  <2>15. QED
    BY <2>13, <2>14
<1>4. QED
  BY <1>2, <1>3

\* A join holds the reply of its handle, and the handle no longer.
LEMMA TakeHandleKeepsFrames ==
  ASSUME PoolInv, FrameInv, NEW t \in Threads, TakeHandle(t)
  PROVE  FrameInv'
<1>1. /\ phase[t] = "busy" /\ ~AtEnd(t) /\ ~Submitted(t) /\ Stmt(t).op = "join"
      /\ UNCHANGED <<prog, phase, holder, queue, replies>>
  BY DEF TakeHandle, Runs
<1>2. PICK h \in frame[t].handles :
        frame' = [frame EXCEPT ![t].sent = <<h[2]>>, ![t].handles = @ \ {h}]
  BY DEF TakeHandle
<1>3. /\ frame'[t].at = frame[t].at /\ frame'[t].sent = <<h[2]>>
      /\ frame'[t].got = frame[t].got /\ frame'[t].reply = frame[t].reply
      /\ frame'[t].handles = frame[t].handles \ {h}
      /\ \A u \in Threads : u # t => frame'[u] = frame[u]
  BY <1>2 DEF PoolInv, Types, Fields
<1>4. FrameOK(t) /\ frame[t].got = <<>> /\ Len(<<>>) = 0
  BY <1>1, NotAllSent, EmptySeq DEF FrameInv
<1>5. h[2] \in frame[t].reply + 1..Len(replies)
  BY <1>4 DEF FrameOK
<1>6. frame'[t].sent \in Seq(frame'[t].reply + 1..Len(replies')) /\ Len(frame'[t].sent) = 1
  BY <1>1, <1>3, <1>5
<1>7. Body(t)' = Body(t) /\ Stmt(t)' = Stmt(t)
  BY <1>1, <1>3 DEF Body, Stmt
<1>8. frame[t].at <= Len(Body(t).does)
  <2>1. Body(t).does \in Seq(Statements(prog)) /\ frame[t].at \in Nat
    BY <1>1, <1>4, ItsBody DEF FrameOK
  <2>2. Len(Body(t).does) \in Nat
    BY <2>1, LenProperties
  <2>3. QED
    BY <1>1, <2>1, <2>2 DEF AtEnd
<1>9. Len(frame'[t].sent) <= Opens(Stmt(t)') /\ Stmt(t)'.op # "spawn"
  BY <1>1, <1>6, <1>7 DEF Opens
<1>10. /\ frame'[t].at \in Nat \ {0} /\ IsSequence(frame'[t].got)
       /\ Len(frame'[t].got) <= Len(frame'[t].sent) /\ Len(frame'[t].got) < Len(frame'[t].sent)
       /\ phase'[t] \notin {"starting", "loading"}
  BY <1>1, <1>3, <1>4, <1>6 DEF FrameOK
<1>11. \A g \in frame'[t].handles : g[2] \in frame'[t].reply + 1..Len(replies')
  BY <1>1, <1>3, <1>4 DEF FrameOK
<1>12. FrameOK(t)'
  BY <1>3, <1>6, <1>7, <1>8, <1>9, <1>10, <1>11 DEF FrameOK
<1>13. QED
  BY <1>1, <1>3, <1>12, QuietKeepsFrames

\* An answer of a map that is not the last one is kept.
LEMMA CollectKeepsFrames ==
  ASSUME PoolInv, FrameInv, NEW t \in Threads, Collect(t)
  PROVE  FrameInv'
<1> DEFINE a == replies[Awaited(t)].answer
           got == Append(frame[t].got, a)
<1>1. phase[t] = "busy" /\ ~AtEnd(t) /\ prog' = prog
  BY DEF Collect, Runs
<1>2. CASE a.kind = "error"
  BY <1>1, <1>2, ThrowKeepsFrames DEF Collect
<1>3. CASE a.kind # "error" /\ Len(got) < Len(frame[t].sent)
  <2>1. frame' = [frame EXCEPT ![t].got = got] /\ UNCHANGED <<phase, replies>>
    BY <1>3 DEF Collect
  <2>2. FrameOK(t)
    BY DEF FrameInv
  <2>3. IsSequence(got)
    BY <2>2, AppendOne DEF FrameOK
  <2> HIDE DEF got
  <2>4. /\ frame'[t].at = frame[t].at /\ frame'[t].sent = frame[t].sent
        /\ frame'[t].got = got /\ frame'[t].reply = frame[t].reply
        /\ frame'[t].handles = frame[t].handles
        /\ \A u \in Threads : u # t => frame'[u] = frame[u]
    BY <2>1 DEF PoolInv, Types, Fields
  <2>5. Body(t)' = Body(t) /\ Stmt(t)' = Stmt(t)
    BY <1>1, <2>1, <2>4 DEF Body, Stmt
  <2>6. Len(got) <= Len(frame[t].sent)
    BY <1>3, <2>2, <2>3, LenProperties DEF FrameOK, IsSequence
  <2>7. FrameOK(t)'
    BY <1>1, <1>3, <2>1, <2>2, <2>3, <2>4, <2>5, <2>6 DEF FrameOK
  <2>8. QED
    BY <1>1, <2>1, <2>4, <2>7, QuietKeepsFrames
<1>4. CASE a.kind # "error" /\ ~(Len(got) < Len(frame[t].sent))
  <2>1. Continue(t, IF Stmt(t).op = "map" THEN List(got) ELSE a)
    BY <1>4 DEF Collect
  <2>2. QED
    BY <1>1, <2>1, ContinueKeepsFrames
<1>5. QED
  BY <1>2, <1>3, <1>4

\* Every step of a body keeps the invariant of the bodies.
LEMMA ExecuteKeepsFrames ==
  ASSUME PoolInv, FrameInv, NEW t \in Threads, Execute(t)
  PROVE  FrameInv'
<1>1. phase[t] = "busy" /\ prog' = prog
  BY DEF Execute, Undefined, Refuse, Submit, TakeHandle, MapOfNone, Collect, End, Runs
<1>2. CASE Undefined(t) \/ End(t)
  BY <1>1, <1>2, FinishKeepsFrames DEF Undefined, End
<1>3. CASE Refuse(t)
  BY <1>1, <1>3, ThrowKeepsFrames DEF Refuse
<1>4. CASE MapOfNone(t)
  BY <1>1, <1>4, ContinueKeepsFrames DEF MapOfNone
<1>5. QED
  BY <1>2, <1>3, <1>4, SubmitKeepsFrames, TakeHandleKeepsFrames, CollectKeepsFrames DEF Execute

\* Every step of the program keeps both invariants.
LEMMA NextKeepsFrames ==
  ASSUME PoolInv, FrameInv, [Next]_vars
  PROVE  FrameInv'
<1>1. ASSUME NEW t \in Threads, Load(t) \/ LoadPanics(t) \/ Barrier \/ Lock(t) PROVE FrameInv'
  BY <1>1, StartKeepsFrames
<1>2. ASSUME NEW t \in Threads, Execute(t) PROVE FrameInv'
  BY <1>2, ExecuteKeepsFrames
<1>3. CASE Lead
  BY <1>1, <1>2, <1>3 DEF Lead, Threads
<1>4. ASSUME NEW w \in Workers, Work(w) PROVE FrameInv'
  BY <1>1, <1>2, <1>4, ReceiveKeepsFrames, PanicKeepsFrames DEF Work, Threads
<1>5. CASE UNCHANGED vars
  BY <1>5 DEF vars, FrameInv, FrameOK, Body, Stmt
<1>6. QED
  BY <1>3, <1>4, <1>5 DEF Next

\* The invariant of the bodies holds throughout.
LEMMA FrameInvariant == Spec => [](PoolInv /\ FrameInv)
<1>1. Init => FrameInv
  BY FrameInit
<1>2. PoolInv /\ FrameInv /\ [Next]_vars => FrameInv'
  BY NextKeepsFrames
<1>3. QED
  BY <1>1, <1>2, PoolInvariant, PTL DEF Spec

-----------------------------------------------------------------------------
(* When the program stands still.                                          *)

\* A thread that waits, waits for a reply submitted after the one it answers.
LEMMA WaitsForLater ==
  ASSUME PoolInv, FrameInv, NEW t \in Threads, Waits(t)
  PROVE  /\ Awaited(t) \in 1..Len(replies)
         /\ replies[Awaited(t)].answer = Pending
         /\ frame[t].reply < Awaited(t)
<1>1. FrameOK(t) /\ frame[t].sent # <<>> /\ replies[Awaited(t)].answer = Pending
  BY DEF FrameInv, Waits
<1>2. Len(frame[t].got) \in Nat /\ Len(frame[t].sent) \in Nat
  BY <1>1, LenProperties DEF FrameOK, IsSequence
<1>3. Len(frame[t].got) + 1 \in 1..Len(frame[t].sent)
  BY <1>1, <1>2 DEF FrameOK
<1>4. Awaited(t) \in frame[t].reply + 1..Len(replies)
  BY <1>1, <1>3, ElementOfSeq DEF FrameOK, Awaited
<1>5. frame[t].reply \in Nat /\ Len(replies) \in Nat
  BY ItsBody
<1>6. QED
  BY <1>1, <1>4, <1>5

\* What each thread does while the program stands still.
LEMMA StillThreads ==
  ASSUME PoolInv, Still
  PROVE  /\ phase[Main] \in {"starting", "busy"}
         /\ phase[Main] = "starting" => \E w \in Workers : phase[w] # "ready"
         /\ phase[Main] = "busy" => Waits(Main)
         /\ \A w \in Workers :
              /\ phase[w] # "loading"
              /\ phase[w] = "busy" => Waits(w)
              /\ phase[w] = "free" => holder # None
              /\ phase[w] = "receiving" => queue = <<>>
<1>1. Main \in Threads /\ \A w \in Workers : w \in Threads
  BY DEF Threads
<1>2. phase[Main] \in MainPhases \ {"done", "failed", "panicked"}
  BY DEF PoolInv, Types, Still, Over
<1>3. CASE phase[Main] = "starting"
  BY <1>1, <1>3 DEF Still
<1>4. CASE phase[Main] = "loading"
  BY <1>1, <1>4 DEF Still
<1>5. CASE phase[Main] = "busy"
  BY <1>1, <1>5 DEF Still
<1>6. ASSUME NEW w \in Workers
      PROVE  /\ phase[w] # "loading"
             /\ phase[w] = "busy" => Waits(w)
             /\ phase[w] = "free" => holder # None
             /\ phase[w] = "receiving" => queue = <<>>
  BY <1>1 DEF Still
<1>7. /\ phase[Main] \in {"starting", "busy"}
      /\ phase[Main] = "starting" => \E w \in Workers : phase[w] # "ready"
      /\ phase[Main] = "busy" => Waits(Main)
  <2>1. phase[Main] \in {"starting", "loading", "busy"}
    BY <1>2 DEF MainPhases
  <2>2. phase[Main] # "loading"
    BY <1>1 DEF Still
  <2>3. phase[Main] = "starting" => \E w \in Workers : phase[w] # "ready"
    BY <1>1 DEF Still
  <2>4. phase[Main] = "busy" => Waits(Main)
    BY <1>1 DEF Still
  <2>5. QED
    BY <2>1, <2>2, <2>3, <2>4
<1>8. QED
  BY <1>6, <1>7

\* While main waits and nobody can go on, a job is left in the channel: the
\* last of the pending replies would otherwise be what a worker executes,
\* and that worker waits for a later one.
LEMMA StillHasJob ==
  ASSUME PoolInv, FrameInv, Still, phase[Main] = "busy"
  PROVE  queue # <<>>
<1>1. SUFFICES ASSUME queue = <<>> PROVE FALSE
  OBVIOUS
<1> DEFINE P == {i \in 1..Len(replies) : replies[i].answer = Pending}
<1>2. Len(replies) \in Nat /\ P \in SUBSET (1..Len(replies)) /\ Main \in Threads
  BY ItsBody DEF Threads
<1>3. Awaited(Main) \in P
  BY <1>2, StillThreads, WaitsForLater
<1>4. PICK i \in P : \A j \in P : j <= i
  <2> HIDE DEF P
  <2>1. QED
    BY <1>2, <1>3, GreatestExists
<1>5. i \notin ToSet(queue)
  <2>1. Len(queue) = 0 /\ ToSet(queue) = {queue[k] : k \in 1..Len(queue)}
    BY <1>1, SomebodyDef, EmptySeq DEF PoolInv
  <2>2. QED
    BY <2>1
<1>6. PICK w \in Workers : frame[w].reply = i
  BY <1>4, <1>5 DEF PoolInv, SomebodyWillAnswer
<1>7. i # 0 /\ i \in Nat /\ w \in Threads
  BY <1>2, <1>4 DEF Threads
<1>8. phase[w] = "busy"
  BY <1>6, <1>7 DEF PoolInv, OneReplyEach, Idle
<1>9. Waits(w)
  BY <1>8, StillThreads
<1>10. Awaited(w) \in P /\ i < Awaited(w)
  BY <1>6, <1>7, <1>9, WaitsForLater
<1>11. Awaited(w) <= i /\ Awaited(w) \in Nat
  BY <1>2, <1>4, <1>10
<1>12. QED
  BY <1>7, <1>10, <1>11

\* The program stands still in two ways only: at the barrier, after a worker
\* has panicked in loading, and when every worker that lives has a job that
\* waits for a job still in the channel (worker.rs:67-105; parallel.rs, the
\* `recv` of bi_call, bi_join and bi_map on a worker).
THEOREM OnlyNestingStandsStill == Spec => []StillOnlyByNesting
<1>1. PoolInv /\ FrameInv => StillOnlyByNesting
  <2> SUFFICES ASSUME PoolInv, FrameInv, Still
               PROVE  \/ phase[Main] = "starting" /\ \E w \in Workers : phase[w] = "dead"
                      \/ queue # <<>> /\ \A w \in Live : Waits(w)
    BY DEF StillOnlyByNesting
  <2>1. CASE phase[Main] = "starting"
    BY <2>1, StillThreads DEF PoolInv, BarrierHolds
  <2>2. CASE phase[Main] # "starting"
    <3>1. phase[Main] = "busy" /\ queue # <<>>
      BY <2>2, StillThreads, StillHasJob
    <3>2. ASSUME NEW w \in Live PROVE Waits(w)
      <4>1. w \in Workers /\ phase[w] \in WorkerPhases /\ phase[w] \notin {"loading", "ready", "dead"}
        BY <2>2 DEF Live, PoolInv, Types, BarrierHolds
      <4>2. phase[w] # "receiving"
        BY <3>1, <4>1, StillThreads
      <4>3. phase[w] # "free"
        <5>1. SUFFICES ASSUME phase[w] = "free" PROVE FALSE
          OBVIOUS
        <5>2. holder \in Workers
          BY <4>1, <5>1, StillThreads DEF PoolInv, Types
        <5>3. phase[holder] = "receiving"
          BY <5>2 DEF PoolInv, MutexHolds
        <5>4. QED
          BY <3>1, <5>2, <5>3, StillThreads
      <4>4. phase[w] = "busy"
        BY <4>1, <4>2, <4>3 DEF WorkerPhases
      <4>5. QED
        BY <4>1, <4>4, StillThreads
    <3>3. QED
      BY <3>1, <3>2
  <2>3. QED
    BY <2>1, <2>2
<1>2. QED
  BY <1>1, FrameInvariant, PTL

-----------------------------------------------------------------------------
(* The promises of the pool.                                               *)

\* The replies that change are pending ones, and they are answered.
Answers ==
  /\ Len(replies') = Len(replies)
  /\ \A i \in 1..Len(replies) :
       replies'[i].answer # replies[i].answer =>
         replies[i].answer = Pending /\ replies'[i].answer.kind \in {"ok", "error"}

\* A reply is opened after those there are.
Opened ==
  /\ Len(replies') = Len(replies) + 1
  /\ replies'[Len(replies) + 1].answer = Pending
  /\ \A i \in 1..Len(replies) : replies'[i] = replies[i]

\* A body that ends answers the reply that is pending for it.
LEMMA FinishAnswers ==
  ASSUME PoolInv, NEW t \in Threads, phase[t] = "busy", NEW a, a.kind \in {"ok", "error"}, Finish(t, a)
  PROVE  Answers
<1>1. CASE t = Main
  BY <1>1 DEF Finish, Answers
<1>2. CASE t # Main
  <2> DEFINE r == frame[t].reply
             x == [replies[r] EXCEPT !.answer = a]
  <2>1. t \in Workers /\ r \in 1..Len(replies) /\ IsSequence(replies)
    BY <1>2 DEF PoolInv, OneReplyEach, Types, Threads
  <2>2. replies' = [replies EXCEPT ![r] = x]
    BY <1>2 DEF Finish
  <2>3. x.answer = a
    BY <2>1 DEF PoolInv, Types
  <2>4. replies[r].answer = Pending
    BY <2>1 DEF PoolInv, SomebodyWillAnswer
  <2> HIDE DEF x, r
  <2>5. Len(replies') = Len(replies)
    BY ONLY <2>1, <2>2, ReplaceOne
  <2>6. \A i \in 1..Len(replies) : replies'[i] = IF i = r THEN x ELSE replies[i]
    BY <2>1, <2>2, LenProperties DEF IsSequence
  <2>7. QED
    BY <2>3, <2>4, <2>5, <2>6 DEF Answers
<1>3. QED
  BY <1>1, <1>2

\* A panic answers pending replies only.
LEMMA PanicAnswers ==
  ASSUME PoolInv, NEW w \in Workers, Panic(w)
  PROVE  Answers
<1>1. phase[w] = "busy" /\ Len(replies) \in Nat
  BY SomebodyDef DEF Panic, Runs, PoolInv
<1>2. replies' = [i \in 1..Len(replies) |->
        IF i \in Dropped(w) THEN [replies[i] EXCEPT !.answer = Lost] ELSE replies[i]]
  BY DEF Panic
<1>3. \A i \in Dropped(w) : i \in 1..Len(replies) /\ replies[i].answer = Pending
  <2>1. frame[w].reply \in 1..Len(replies)
    BY <1>1 DEF PoolInv, OneReplyEach
  <2>2. ToSet(queue) \subseteq 1..Len(replies)
    BY SomebodyDef DEF PoolInv
  <2>3. QED
    BY <2>1, <2>2 DEF PoolInv, SomebodyWillAnswer, Dropped
<1>4. Lost.kind = "error"
  BY DEF Lost, Err
<1>5. Len(replies') = Len(replies)
  BY <1>1, <1>2
<1>6. \A i \in 1..Len(replies) :
        replies'[i].answer = IF i \in Dropped(w) THEN Lost ELSE replies[i].answer
  BY <1>2 DEF PoolInv, Types
<1>7. QED
  BY <1>3, <1>4, <1>5, <1>6 DEF Answers

\* A submission opens one reply, unless the channel is closed.
LEMMA SubmitOpens ==
  ASSUME PoolInv, NEW t \in Threads, Submit(t)
  PROVE  Opened \/ Answers
<1>1. CASE Closed
  BY <1>1 DEF Submit, Answers
<1>2. CASE ~Closed
  <2> DEFINE r == [call |-> Stmt(t).calls[Len(frame[t].sent) + 1], by |-> t, answer |-> Pending]
  <2>1. replies' = Append(replies, r) /\ IsSequence(replies)
    BY <1>2 DEF Submit, PoolInv, Types
  <2>2. r.answer = Pending
    OBVIOUS
  <2> HIDE DEF r
  <2>3. Len(replies') = Len(replies) + 1
    BY ONLY <2>1, AppendOne
  <2>4. replies'[Len(replies) + 1] = r
    BY ONLY <2>1, AppendOne
  <2>5. \A i \in 1..Len(replies) : replies'[i] = replies[i]
    BY ONLY <2>1, AppendOne
  <2>6. QED
    BY <2>2, <2>3, <2>4, <2>5 DEF Opened
<1>3. QED
  BY <1>1, <1>2

\* What a step of the program does to the replies.
LEMMA StepOnReplies ==
  ASSUME PoolInv, [Next]_vars
  PROVE  Opened \/ Answers
<1>1. replies' = replies => Answers
  BY DEF Answers
<1>2. ASSUME NEW t \in Threads, phase[t] = "busy", NEW a, a.kind = "error", Throw(t, a) PROVE Answers
  BY <1>1, <1>2, FinishAnswers DEF Throw, Continue
<1>3. ASSUME NEW t \in Threads, Execute(t) PROVE Opened \/ Answers
  <2>1. phase[t] = "busy"
    BY <1>3 DEF Execute, Undefined, Refuse, Submit, TakeHandle, MapOfNone, Collect, End, Runs
  <2>2. \A why : Err(why).kind = "error"
    BY DEF Err
  <2>3. CASE Undefined(t)
    BY <2>1, <2>2, <2>3, FinishAnswers DEF Undefined
  <2>4. CASE Refuse(t)
    BY <1>2, <2>1, <2>2, <2>4 DEF Refuse
  <2>5. CASE TakeHandle(t) \/ MapOfNone(t)
    BY <1>1, <2>5 DEF TakeHandle, MapOfNone, Continue
  <2>6. CASE Collect(t)
    BY <1>1, <1>2, <2>1, <2>6 DEF Collect, Continue
  <2>7. CASE End(t)
    <3> DEFINE a == CASE Body(t).ends = "value" -> Ok(<<Body(t).name, frame[t].results>>)
                      [] Body(t).ends = "error" -> Err("raised")
                      [] OTHER -> Err("result not Send")
    <3>1. a.kind \in {"ok", "error"} /\ Finish(t, a)
      BY <2>7 DEF End, Ok, Err
    <3> HIDE DEF a
    <3>2. QED
      BY <2>1, <3>1, FinishAnswers
  <2>8. QED
    BY <1>3, <2>3, <2>4, <2>5, <2>6, <2>7, SubmitOpens DEF Execute
<1>4. ASSUME NEW t \in Threads, Load(t) \/ LoadPanics(t) \/ Barrier \/ Lock(t) PROVE Answers
  BY <1>1, <1>4 DEF Load, LoadPanics, Barrier, Lock
<1>5. ASSUME NEW w \in Workers, Work(w) PROVE Opened \/ Answers
  <2>1. Receive(w) => Answers
    BY <1>1 DEF Receive
  <2>2. QED
    BY <1>3, <1>4, <1>5, <2>1, PanicAnswers DEF Work, Threads
<1>6. CASE Lead
  BY <1>3, <1>4, <1>6 DEF Lead, Threads
<1>7. CASE UNCHANGED vars
  BY <1>1, <1>7 DEF vars
<1>8. QED
  BY <1>5, <1>6, <1>7 DEF Next

\* The pool implements Promises: replies are opened in the order in which
\* they are submitted, and none is answered twice or taken back, whichever
\* worker answers and however many panic (WorkerPool::call, worker.rs:109-120).
THEOREM PoolKeepsItsPromises == Spec => AnswersStay
<1> DEFINE promise == [i \in 1..MaxReplies |-> IF i <= Len(replies) THEN replies[i].answer ELSE Unopened]
<1>1. Init => Promised!PInit
  <2>1. Init => Len(replies) = 0
    BY EmptySeq DEF Init
  <2>2. QED
    BY <2>1, RepliesAssumption DEF Promised!PInit
<1>2. PoolInv /\ PoolInv' /\ [Next]_vars => [Promised!PNext]_promise
  <2> SUFFICES ASSUME PoolInv, PoolInv', [Next]_vars
               PROVE  Promised!PNext \/ promise' = promise
    OBVIOUS
  <2>1. Len(replies) \in Nat /\ MaxReplies \in Nat
    BY SomebodyDef, RepliesAssumption DEF PoolInv
  <2>2. \A i \in 1..Len(replies) : replies[i].answer # Unopened
    BY DEF PoolInv, Types, Pending, Unopened
  <2>3. CASE Answers
    <3>1. Promised!Answered
      BY <2>1, <2>3 DEF Answers, Promised!Answered
    <3>2. QED
      BY <3>1 DEF Promised!PNext
  <2>4. CASE Opened
    <3> DEFINE k == Len(replies) + 1
    <3>1. CASE k <= MaxReplies
      <4>1. k \in 1..MaxReplies /\ promise[k] = Unopened /\ \A j \in 1..k - 1 : promise[j] # Unopened
        BY <2>1, <2>2, <3>1
      <4>2. \A i \in 1..MaxReplies : promise'[i] = IF i = k THEN Pending ELSE promise[i]
        BY <2>1, <2>4, <3>1 DEF Opened
      <4>3. promise' = [promise EXCEPT ![k] = Pending]
        BY <4>1, <4>2
      <4>4. QED
        BY <4>1, <4>3 DEF Promised!PNext, Promised!Open
    <3>2. CASE ~(k <= MaxReplies)
      <4>1. promise' = promise
        BY <2>1, <2>4, <3>2 DEF Opened
      <4>2. QED
        BY <4>1
    <3>3. QED
      BY <3>1, <3>2
  <2>5. QED
    BY <2>3, <2>4, StepOnReplies
<1>3. QED
  BY <1>1, <1>2, PoolInvariant, PTL DEF Spec, AnswersStay, Promised!PSpec
=============================================================================
