--------------------------- MODULE VmFlowsProofs ----------------------------
(* Proofs about VmCore and VmFlows, for any code of any number of flows: no *)
(* instruction is assumed to come from the compiler.                        *)
EXTENDS VmFlows, SequenceFacts, TLAPS

Fields == {"frames", "stack", "upvalues", "loops", "excs", "pending", "txns", "handlers",
           "status", "result"}

\* The contexts of a flow: what each has read is no newer than the cells, and
\* no older than what those around it have read.
Sound(ts, cl) ==
  /\ IsSequence(ts)
  /\ \A i \in 1..Len(ts) :
       /\ DOMAIN ts[i] = {"writes", "reads"}
       /\ ts[i].reads \in [Cells -> Nat \cup {None}]
       /\ \A r \in Cells : ts[i].reads[r] # None => ts[i].reads[r] <= cl[r].version
  /\ \A i, j \in 1..Len(ts) : \A r \in Cells :
       i < j /\ ts[i].reads[r] # None /\ ts[j].reads[r] # None => ts[i].reads[r] <= ts[j].reads[r]

\* Handlers that belong to the frames 1..n, innermost last.
Nested(hs, n) ==
  /\ IsSequence(hs)
  /\ \A i \in 1..Len(hs) : hs[i].frame \in Nat /\ hs[i].frame <= n
  /\ \A i, j \in 1..Len(hs) : i < j => hs[i].frame <= hs[j].frame

CtxOK(c, cl) ==
  /\ DOMAIN c = Fields
  /\ IsSequence(c.frames)
  /\ c.status = "run" => c.frames # <<>>
  /\ IsSequence(c.handlers)
  /\ Nested(c.excs, Len(c.frames))
  /\ Sound(c.txns, cl)

CellsOK(cl) == DOMAIN cl = Cells /\ \A r \in Cells : cl[r].version \in Nat

VmInv ==
  /\ running \in Flows
  /\ CellsOK(cell)
  /\ DOMAIN ctx = Flows
  /\ \A f \in Flows : CtxOK(ctx[f], cell)

\* d is c but for its operands, upvalues, loops and instruction pointers.
Alike(c, d) ==
  /\ DOMAIN d = Fields
  /\ IsSequence(d.frames) /\ Len(d.frames) = Len(c.frames)
  /\ d.status = "run" => c.status = "run"
  /\ d.txns = c.txns /\ d.excs = c.excs /\ d.handlers = c.handlers

\* A step of f that does no more than that.
Calm(f) ==
  /\ \E d : Alike(ctx[f], d) /\ ctx' = [ctx EXCEPT ![f] = d]
  /\ cell' = cell /\ running' \in Flows

StaleIn(ts, cl) ==
  \E i \in 1..Len(ts) : \E r \in Cells :
    ts[i].reads[r] # None /\ ts[i].reads[r] # cl[r].version
-----------------------------------------------------------------------------
(* Contexts.                                                                *)

\* A context does not become current again, and none gets ahead of the cells,
\* when versions grow.
LEMMA VersionsGrow ==
  ASSUME NEW ts, NEW cl, NEW dl, CellsOK(cl), CellsOK(dl), Sound(ts, cl),
         \A r \in Cells : cl[r].version <= dl[r].version
  PROVE  Sound(ts, dl) /\ (StaleIn(ts, cl) => StaleIn(ts, dl))
<1>1. ASSUME NEW i \in 1..Len(ts), NEW r \in Cells, ts[i].reads[r] # None
      PROVE  /\ ts[i].reads[r] <= dl[r].version
             /\ ts[i].reads[r] # cl[r].version => ts[i].reads[r] # dl[r].version
  <2>1. /\ ts[i].reads[r] \in Nat /\ ts[i].reads[r] <= cl[r].version
        /\ cl[r].version \in Nat /\ dl[r].version \in Nat /\ cl[r].version <= dl[r].version
    BY <1>1 DEF Sound, CellsOK
  <2>2. QED
    BY <2>1
<1>2. Sound(ts, dl)
  BY <1>1 DEF Sound
<1>3. StaleIn(ts, cl) => StaleIn(ts, dl)
  BY <1>1 DEF StaleIn
<1>4. QED
  BY <1>2, <1>3

\* u is the beginning of s; s and x behind it; s with x at r.
Begins(u, s) ==
  /\ IsSequence(u) /\ Len(u) \in Nat /\ Len(s) \in Nat /\ Len(u) <= Len(s)
  /\ \A i \in 1..Len(u) : u[i] = s[i]
Longer(u, s, x) ==
  /\ IsSequence(u) /\ Len(s) \in Nat /\ Len(u) = Len(s) + 1 /\ u[Len(s) + 1] = x
  /\ \A i \in 1..Len(s) : u[i] = s[i]
Replaced(u, s, r, x) ==
  /\ IsSequence(u) /\ Len(u) = Len(s)
  /\ \A i \in 1..Len(s) : u[i] = IF i = r THEN x ELSE s[i]

\* Append.
LEMMA AppendLonger ==
  ASSUME NEW s, IsSequence(s), NEW x, NEW u, u = Append(s, x)
  PROVE  Longer(u, s, x)
<1>1. IsSequence(u)
  BY AppendOne
<1>2. Len(s) \in Nat
  BY AppendOne
<1>3. Len(u) = Len(s) + 1
  BY AppendOne
<1>4. u[Len(s) + 1] = x
  BY AppendOne
<1>5. \A i \in 1..Len(s) : u[i] = s[i]
  BY AppendOne
<1>6. QED
  BY <1>1, <1>2, <1>3, <1>4, <1>5 DEF Longer

\* EXCEPT.
LEMMA ExceptReplaced ==
  ASSUME NEW s, IsSequence(s), NEW r \in 1..Len(s), NEW x, NEW u, u = [s EXCEPT ![r] = x]
  PROVE  Replaced(u, s, r, x)
<1>1. IsSequence(u)
  BY ReplaceOne
<1>2. Len(u) = Len(s)
  BY ReplaceOne
<1>3. \A i \in 1..Len(s) : u[i] = IF i = r THEN x ELSE s[i]
  BY ReplaceOne
<1>4. QED
  BY <1>1, <1>2, <1>3 DEF Replaced

\* SubSeq(s, 1, n) is the first n elements, none if n is negative.
LEMMA Prefix ==
  ASSUME NEW s, IsSequence(s), NEW n \in Int, n <= Len(s), NEW u, u = SubSeq(s, 1, n)
  PROVE  Begins(u, s) /\ (n \in Nat => Len(u) = n)
<1>1. PICK T : s \in Seq(T)
  BY DEF IsSequence
<1>2. Len(s) \in Nat
  BY <1>1, LenProperties
<1>3. CASE n \in Nat
  <2>1. u \in Seq(T) /\ Len(u) = n /\ \A i \in 1..n : u[i] = s[i]
    BY <1>1, <1>2, <1>3, SubSeqProperties
  <2>2. IsSequence(u)
    BY <2>1, OwnSet
  <2>3. QED
    BY <1>2, <1>3, <2>1, <2>2 DEF Begins
<1>4. CASE n \notin Nat
  <2>1. u = <<>>
    BY <1>2, <1>4, SubSeqEmpty
  <2>2. <<>> \in Seq(T) /\ Len(<<>>) = 0
    OBVIOUS
  <2>3. IsSequence(<<>>)
    BY <2>2, OwnSet
  <2>4. IsSequence(u) /\ Len(u) = 0
    BY <2>1, <2>2, <2>3
  <2>5. Len(u) \in Nat /\ Len(u) <= Len(s)
    BY <1>2, <2>4
  <2>6. \A i \in 1..Len(u) : u[i] = s[i]
    BY <2>4
  <2>7. Begins(u, s)
    BY <1>2, <2>4, <2>5, <2>6 DEF Begins
  <2>8. QED
    BY <1>4, <2>7
<1>5. QED
  BY <1>3, <1>4

\* The first contexts are as sound as all.
LEMMA PrefixSound ==
  ASSUME NEW ts, NEW cl, Sound(ts, cl), NEW u, Begins(u, ts)
  PROVE  Sound(u, cl)
<1>1. 1..Len(u) \subseteq 1..Len(ts)
  BY DEF Begins
<1>2. QED
  BY <1>1 DEF Sound, Begins

\* A new context has read nothing.
LEMMA BeginSound ==
  ASSUME NEW ts, NEW cl, Sound(ts, cl), NEW u, u = Append(ts, EmptyTxn)
  PROVE  Sound(u, cl) /\ (StaleIn(ts, cl) => StaleIn(u, cl))
<1>1. /\ IsSequence(u) /\ Len(ts) \in Nat /\ Len(u) = Len(ts) + 1 /\ u[Len(ts) + 1] = EmptyTxn
      /\ \A i \in 1..Len(ts) : u[i] = ts[i]
  <2>1. IsSequence(ts)
    BY DEF Sound
  <2>2. Longer(u, ts, EmptyTxn)
    BY ONLY <2>1, u = Append(ts, EmptyTxn), AppendLonger
  <2>3. QED
    BY <2>2 DEF Longer
<1>2. /\ DOMAIN EmptyTxn = {"writes", "reads"} /\ EmptyTxn.reads \in [Cells -> Nat \cup {None}]
      /\ \A r \in Cells : EmptyTxn.reads[r] = None
  BY DEF EmptyTxn
<1>3. ASSUME NEW i \in 1..Len(u)
      PROVE  \/ i \in 1..Len(ts) /\ u[i] = ts[i]
             \/ i = Len(ts) + 1 /\ u[i] = EmptyTxn
  BY <1>1
<1>4. ASSUME NEW i \in 1..Len(u)
      PROVE  /\ DOMAIN u[i] = {"writes", "reads"}
             /\ u[i].reads \in [Cells -> Nat \cup {None}]
             /\ \A r \in Cells : u[i].reads[r] # None => u[i].reads[r] <= cl[r].version
  BY <1>2, <1>3 DEF Sound
<1>5. ASSUME NEW i \in 1..Len(u), NEW j \in 1..Len(u), NEW r \in Cells, i < j,
             u[i].reads[r] # None, u[j].reads[r] # None
      PROVE  u[i].reads[r] <= u[j].reads[r]
  <2>1. j \in 1..Len(ts) /\ u[j] = ts[j]
    BY <1>2, <1>3, <1>5
  <2>2. i \in 1..Len(ts) /\ u[i] = ts[i]
    BY <1>2, <1>3, <1>5
  <2>3. QED
    BY <1>5, <2>1, <2>2 DEF Sound
<1>6. Sound(u, cl)
  BY <1>1, <1>4, <1>5 DEF Sound
<1>7. StaleIn(ts, cl) => StaleIn(u, cl)
  <2>1. 1..Len(ts) \subseteq 1..Len(u)
    BY <1>1
  <2>2. QED
    BY <1>1, <2>1 DEF StaleIn
<1>8. QED
  BY <1>6, <1>7

\* The innermost context is replaced by one that has read at least as much,
\* and what it has read in addition is current.
LEMMA InnermostSound ==
  ASSUME NEW ts, NEW cl, CellsOK(cl), Sound(ts, cl), NEW n, n = Len(ts), n # 0, NEW t,
         DOMAIN t = {"writes", "reads"}, t.reads \in [Cells -> Nat \cup {None}],
         \A r \in Cells : ts[n].reads[r] # None => t.reads[r] = ts[n].reads[r],
         \A r \in Cells : ts[n].reads[r] = None => t.reads[r] \in {None, cl[r].version},
         NEW u, u = [ts EXCEPT ![n] = t]
  PROVE  Sound(u, cl) /\ (StaleIn(ts, cl) => StaleIn(u, cl))
<1>1. n \in Nat /\ n \in 1..n
  BY LenProperties DEF Sound, IsSequence
<1>2. IsSequence(u) /\ Len(u) = n /\ \A i \in 1..n : u[i] = IF i = n THEN t ELSE ts[i]
  <2>1. IsSequence(ts) /\ n \in 1..Len(ts)
    BY <1>1 DEF Sound
  <2>2. Replaced(u, ts, n, t)
    BY ONLY <2>1, u = [ts EXCEPT ![n] = t], ExceptReplaced
  <2>3. QED
    BY <2>2 DEF Replaced
<1>3. ASSUME NEW i \in 1..n
      PROVE  /\ DOMAIN u[i] = {"writes", "reads"}
             /\ u[i].reads \in [Cells -> Nat \cup {None}]
             /\ \A r \in Cells : u[i].reads[r] # None => u[i].reads[r] <= cl[r].version
  <2>1. CASE i = n
    <3>1. u[i] = t
      BY <1>2, <2>1
    <3>2. ASSUME NEW r \in Cells, t.reads[r] # None PROVE t.reads[r] <= cl[r].version
      <4>1. CASE ts[n].reads[r] # None
        BY <1>1, <4>1 DEF Sound
      <4>2. CASE ts[n].reads[r] = None
        BY <3>2, <4>2 DEF CellsOK
      <4>3. QED
        BY <4>1, <4>2
    <3>3. QED
      BY <3>1, <3>2
  <2>2. CASE i # n
    <3>1. u[i] = ts[i]
      BY <1>2, <2>2
    <3>2. QED
      BY <3>1 DEF Sound
  <2>3. QED
    BY <2>1, <2>2
<1>4. ASSUME NEW i \in 1..n, NEW j \in 1..n, NEW r \in Cells, i < j,
             u[i].reads[r] # None, u[j].reads[r] # None
      PROVE  u[i].reads[r] <= u[j].reads[r]
  <2>1. i # n /\ u[i] = ts[i] /\ ts[i].reads[r] <= cl[r].version
    <3>1. i # n
      BY <1>1, <1>4
    <3>2. u[i] = ts[i]
      BY <1>2, <3>1
    <3>3. QED
      BY <1>4, <3>1, <3>2 DEF Sound
  <2>2. CASE j # n
    <3>1. u[j] = ts[j]
      BY <1>2, <2>2
    <3>2. QED
      BY <1>4, <2>1, <3>1 DEF Sound
  <2>3. CASE j = n /\ ts[n].reads[r] # None
    <3>1. u[j].reads[r] = ts[n].reads[r]
      BY <1>2, <2>3
    <3>2. QED
      BY <1>1, <1>4, <2>1, <2>3, <3>1 DEF Sound
  <2>4. CASE j = n /\ ts[n].reads[r] = None
    <3>1. u[j] = t /\ t.reads[r] = cl[r].version
      BY <1>2, <1>4, <2>4
    <3>2. QED
      BY <2>1, <3>1
  <2>5. QED
    BY <2>2, <2>3, <2>4
<1>5. Sound(u, cl)
  BY <1>2, <1>3, <1>4 DEF Sound
<1>6. ASSUME StaleIn(ts, cl) PROVE StaleIn(u, cl)
  <2>1. PICK i \in 1..n, r \in Cells : ts[i].reads[r] # None /\ ts[i].reads[r] # cl[r].version
    BY <1>6 DEF StaleIn
  <2>2. u[i].reads[r] = ts[i].reads[r]
    BY <1>2, <2>1
  <2>3. QED
    BY <1>2, <2>1, <2>2 DEF StaleIn
<1>7. QED
  BY <1>5, <1>6

\* A nested commit: what is stale of the two contexts is stale of the merged
\* one, which keeps the older of two versions read.
LEMMA MergeSound ==
  ASSUME NEW ts, NEW cl, CellsOK(cl), Sound(ts, cl), NEW n, n = Len(ts), n > 1,
         NEW u, IsSequence(u), Len(u) = n - 1,
         \A i \in 1..(n - 1) : u[i] = IF i = n - 1 THEN MergedTxn(ts[n - 1], ts[n]) ELSE ts[i]
  PROVE  Sound(u, cl) /\ (StaleIn(ts, cl) => StaleIn(u, cl))
<1>1. n \in Nat /\ n \in 1..n /\ n - 1 \in 1..n /\ n - 1 \in 1..(n - 1) /\ 1..(n - 1) \subseteq 1..n
  <2>1. n \in Nat
    BY LenProperties DEF Sound, IsSequence
  <2>2. QED
    BY <2>1
<1>2. PICK p, q, m : p = ts[n - 1] /\ q = ts[n] /\ m = MergedTxn(p, q)
  OBVIOUS
<1>3. /\ DOMAIN p = {"writes", "reads"} /\ p.reads \in [Cells -> Nat \cup {None}]
      /\ DOMAIN q = {"writes", "reads"} /\ q.reads \in [Cells -> Nat \cup {None}]
  BY <1>1, <1>2 DEF Sound
<1>4. /\ DOMAIN m = {"writes", "reads"}
      /\ \A r \in Cells : m.reads[r] = IF p.reads[r] # None THEN p.reads[r] ELSE q.reads[r]
      /\ m.reads \in [Cells -> Nat \cup {None}]
  BY <1>2, <1>3 DEF MergedTxn
<1>5. \A i \in 1..(n - 1) : u[i] = IF i = n - 1 THEN m ELSE ts[i]
  BY <1>2
<1>6. ASSUME NEW r \in Cells
      PROVE  /\ p.reads[r] # None => p.reads[r] <= cl[r].version
             /\ q.reads[r] # None => q.reads[r] <= cl[r].version
             /\ p.reads[r] # None /\ q.reads[r] # None => p.reads[r] <= q.reads[r]
             /\ p.reads[r] # None => p.reads[r] \in Nat
             /\ q.reads[r] # None => q.reads[r] \in Nat
             /\ cl[r].version \in Nat
  <2>1. n - 1 < n
    BY <1>1
  <2>2. QED
    BY <1>1, <1>2, <1>3, <2>1 DEF Sound, CellsOK
<1>7. ASSUME NEW i \in 1..(n - 1)
      PROVE  /\ DOMAIN u[i] = {"writes", "reads"}
             /\ u[i].reads \in [Cells -> Nat \cup {None}]
             /\ \A r \in Cells : u[i].reads[r] # None => u[i].reads[r] <= cl[r].version
  <2>1. CASE i = n - 1
    BY <1>4, <1>5, <1>6, <2>1
  <2>2. CASE i # n - 1
    <3>1. u[i] = ts[i] /\ i \in 1..Len(ts)
      BY <1>1, <1>5, <2>2
    <3>2. QED
      BY <3>1 DEF Sound
  <2>3. QED
    BY <2>1, <2>2
<1>8. ASSUME NEW i \in 1..(n - 1), NEW j \in 1..(n - 1), NEW r \in Cells, i < j,
             u[i].reads[r] # None, u[j].reads[r] # None
      PROVE  u[i].reads[r] <= u[j].reads[r]
  <2>1. u[i] = ts[i] /\ i \in 1..n /\ j \in 1..n
    BY <1>1, <1>5, <1>8
  <2>2. CASE j # n - 1
    <3>1. u[j] = ts[j]
      BY <1>5, <2>2
    <3>2. QED
      BY <1>8, <2>1, <3>1 DEF Sound
  <2>3. CASE j = n - 1 /\ p.reads[r] # None
    <3>1. u[j].reads[r] = ts[j].reads[r]
      BY <1>2, <1>4, <1>5, <2>3
    <3>2. QED
      BY <1>8, <2>1, <3>1 DEF Sound
  <2>4. CASE j = n - 1 /\ p.reads[r] = None
    <3>1. u[j].reads[r] = ts[n].reads[r] /\ i < n
      BY <1>1, <1>2, <1>4, <1>5, <1>8, <2>4
    <3>2. QED
      BY <1>1, <1>8, <2>1, <3>1 DEF Sound
  <2>5. QED
    BY <2>2, <2>3, <2>4
<1>9. Sound(u, cl)
  BY <1>7, <1>8 DEF Sound
<1>10. ASSUME StaleIn(ts, cl) PROVE StaleIn(u, cl)
  <2>1. PICK i \in 1..n, r \in Cells : ts[i].reads[r] # None /\ ts[i].reads[r] # cl[r].version
    BY <1>10 DEF StaleIn
  <2>2. CASE i \in 1..(n - 2)
    <3>1. i \in 1..(n - 1) /\ u[i] = ts[i]
      BY <1>1, <1>5, <2>2
    <3>2. QED
      BY <2>1, <3>1 DEF StaleIn
  <2>3. CASE i \in {n - 1, n}
    <3>1. m.reads[r] # None /\ m.reads[r] # cl[r].version
      <4>1. CASE i = n - 1
        BY <1>2, <1>4, <2>1, <4>1
      <4>2. CASE i = n
        <5>1. q.reads[r] # None /\ q.reads[r] # cl[r].version
          BY <1>2, <2>1, <4>2
        <5>2. QED
          BY <1>4, <1>6, <5>1
      <4>3. QED
        BY <2>3, <4>1, <4>2
    <3>2. u[n - 1] = m
      BY <1>1, <1>5
    <3>3. QED
      BY <1>1, <3>1, <3>2 DEF StaleIn
  <2>4. i \in 1..(n - 2) \/ i \in {n - 1, n}
    BY <1>1, <2>1
  <2>5. QED
    BY <2>2, <2>3, <2>4
<1>11. QED
  BY <1>9, <1>10
-----------------------------------------------------------------------------
(* Steps that leave contexts and handlers alone.                            *)

\* c itself.
LEMMA AlikeSelf ==
  ASSUME NEW c, NEW cl, CtxOK(c, cl)
  PROVE  Alike(c, c)
BY DEF Alike, CtxOK

\* set_ip.
LEMMA AlikeSetIp ==
  ASSUME NEW c, NEW d, Alike(c, d), NEW a
  PROVE  Alike(c, SetIp(d, a))
<1>1. PICK fr, n, e : fr = d.frames /\ n = Len(fr) /\ e = SetIp(d, a)
  OBVIOUS
<1>2. IsSequence(fr) /\ n \in Nat /\ DOMAIN fr = 1..n
  BY <1>1, LenProperties DEF Alike, IsSequence
<1>3. PICK x, gr : x = [fr[n] EXCEPT !.ip = a] /\ gr = [fr EXCEPT ![n] = x]
  OBVIOUS
<1>4. e = [d EXCEPT !.frames = gr]
  BY <1>1, <1>3 DEF SetIp, Depth
<1>5. IsSequence(gr) /\ Len(gr) = n
  <2>1. CASE n # 0
    <3>1. n \in 1..Len(fr)
      BY <1>1, <1>2, <2>1
    <3>2. Replaced(gr, fr, n, x)
      BY ONLY <1>2, <1>3, <3>1, ExceptReplaced
    <3>3. QED
      BY <1>1, <3>2 DEF Replaced
  <2>2. CASE n = 0
    <3>1. fr = [i \in 1..n |-> fr[i]]
      BY <1>1, <1>2, LenProperties DEF IsSequence
    <3>2. gr = fr
      <4>1. DOMAIN gr = DOMAIN fr /\ 1..n = {}
        BY <1>2, <1>3, <2>2
      <4>2. gr = [i \in 1..n |-> gr[i]]
        BY <1>2, <1>3, <4>1
      <4>3. QED
        BY <3>1, <4>1, <4>2
    <3>3. QED
      BY <1>1, <1>2, <3>2
  <2>3. QED
    BY <2>1, <2>2
<1>6. /\ DOMAIN e = Fields /\ e.frames = gr /\ e.status = d.status
      /\ e.txns = d.txns /\ e.excs = d.excs /\ e.handlers = d.handlers
  BY <1>4 DEF Alike, Fields
<1>7. QED
  BY <1>1, <1>5, <1>6 DEF Alike

\* Operands.
LEMMA AlikeStack ==
  ASSUME NEW c, NEW d, Alike(c, d), NEW s
  PROVE  Alike(c, [d EXCEPT !.stack = s])
BY DEF Alike, Fields

\* Pushing and dropping operands.
LEMMA AlikePush ==
  ASSUME NEW c, NEW d, Alike(c, d), NEW v
  PROVE  Alike(c, Push(d, v)) /\ Alike(c, Drop(d, v))
BY DEF Alike, Fields, Push, Drop

\* A flow that ends.
LEMMA AlikeStop ==
  ASSUME NEW c, NEW d, Alike(c, d), NEW s, NEW v, s # "run"
  PROVE  Alike(c, Stop(d, s, v))
BY DEF Alike, Fields, Stop

\* The two ways to end that need no value.
LEMMA AlikeErrors ==
  ASSUME NEW c, NEW d, Alike(c, d)
  PROVE  Alike(c, Stop(d, "panic", Nil)) /\ Alike(c, RuntimeError(d))
BY AlikeStop DEF RuntimeError

\* Closing upvalues.
LEMMA AlikeClose ==
  ASSUME NEW c, NEW d, Alike(c, d), NEW floor
  PROVE  Alike(c, CloseUpvaluesAbove(d, floor))
<1>1. Alike(c, Stop(d, "panic", Nil))
  BY AlikeErrors
<1>2. ASSUME NEW w PROVE Alike(c, [d EXCEPT !.upvalues = w])
  BY DEF Alike, Fields
<1>3. QED
  BY <1>1, <1>2 DEF CloseUpvaluesAbove

\* break and continue.
LEMMA AlikeLoop ==
  ASSUME NEW c, NEW d, Alike(c, d), NEW address, NEW values
  PROVE  Alike(c, LoopSignal(d, address, values))
<1>1. Alike(c, RuntimeError(d))
  BY AlikeErrors
<1>2. ASSUME NEW s, NEW a PROVE Alike(c, SetIp([d EXCEPT !.stack = s], a))
  BY AlikeStack, AlikeSetIp
<1>3. QED
  BY <1>1, <1>2 DEF LoopSignal

\* The next instruction.
LEMMA HereAlike ==
  ASSUME VmInv, NEW f \in Flows
  PROVE  Alike(ctx[f], ctx[f]) /\ Alike(ctx[f], Here(f)) /\ \A a : Alike(ctx[f], SetIp(ctx[f], a))
<1>1. Alike(ctx[f], ctx[f])
  BY AlikeSelf DEF VmInv
<1>2. \A a : Alike(ctx[f], SetIp(ctx[f], a))
  BY <1>1, AlikeSetIp
<1>3. QED
  BY <1>1, <1>2 DEF Here, Fetched

\* Such a step.
LEMMA Calmly ==
  ASSUME VmInv, NEW f \in Flows, NEW d, Alike(ctx[f], d), Become(f, d), Control
  PROVE  Calm(f)
BY DEF Calm, Become, Control, VmInv

\* Instructions that move operands.
LEMMA OperandsCalm ==
  ASSUME VmInv, NEW f \in Flows,
         \/ Underflow(f) \/ Const(f) \/ Swap(f) \/ Pop(f) \/ PopN(f) \/ LoadLocal(f) \/ StoreLocal(f)
         \/ AssignLocal(f) \/ Match(f) \/ NewVec(f) \/ ConstructVariant(f) \/ Add(f) \/ Less(f)
         \/ Increment(f)
  PROVE  Calm(f)
<1>1. PICK c, h : c = ctx[f] /\ h = Here(f)
  OBVIOUS
<1>2. /\ Alike(c, c) /\ Alike(c, h) /\ Alike(c, Stop(c, "panic", Nil)) /\ Alike(c, RuntimeError(c))
  BY <1>1, HereAlike, AlikeErrors
<1>3. \A v : Alike(c, Push(h, v)) /\ Alike(c, Drop(h, v))
  BY <1>2, AlikePush
<1>4. \A v, w : Alike(c, Push(Drop(h, v), w))
  BY <1>3, AlikePush
<1>5. \A d : Alike(c, d) /\ Become(f, d) /\ Control => Calm(f)
  BY <1>1, Calmly
<1>6. CASE Underflow(f)
  BY <1>1, <1>2, <1>5, <1>6 DEF Underflow
<1>7. CASE Const(f)
  BY <1>1, <1>3, <1>5, <1>7 DEF Const
<1>8. CASE Swap(f)
  <2>1. \A i, j, x, y : Alike(c, [h EXCEPT !.stack[i] = x, !.stack[j] = y])
    BY <1>2 DEF Alike, Fields
  <2>2. QED
    BY <1>1, <1>2, <1>5, <1>8, <2>1 DEF Swap
<1>9. CASE Pop(f)
  BY <1>1, <1>3, <1>5, <1>9 DEF Pop
<1>10. CASE PopN(f)
  BY <1>1, <1>2, <1>3, <1>5, <1>10 DEF PopN
<1>11. CASE LoadLocal(f)
  BY <1>1, <1>2, <1>3, <1>5, <1>11 DEF LoadLocal
<1>12. CASE StoreLocal(f)
  <2>1. \A s : Alike(c, [h EXCEPT !.stack = s])
    BY <1>2, AlikeStack
  <2>2. QED
    BY <1>1, <1>5, <1>12, <2>1 DEF StoreLocal
<1>13. CASE AssignLocal(f)
  <2>1. PICK e : e = Drop(h, 1)
    OBVIOUS
  <2>2. \A i, v : Alike(c, [e EXCEPT !.stack[i] = v])
    BY <1>3, <2>1 DEF Alike, Fields
  <2>3. QED
    BY <1>1, <1>2, <1>5, <1>13, <2>1, <2>2 DEF AssignLocal
<1>14. CASE Match(f)
  <2>1. PICK e : e = Drop(h, 1)
    OBVIOUS
  <2>2. \A s : Alike(c, [e EXCEPT !.stack = s])
    BY <1>3, <2>1, AlikeStack
  <2>3. \A s, v : Alike(c, Push([e EXCEPT !.stack = s], v))
    BY <2>2, AlikePush
  <2>4. QED
    BY <1>1, <1>4, <1>5, <1>14, <2>1, <2>3 DEF Match
<1>15. CASE NewVec(f)
  BY <1>1, <1>4, <1>5, <1>15 DEF NewVec
<1>16. CASE ConstructVariant(f)
  BY <1>1, <1>4, <1>5, <1>16 DEF ConstructVariant
<1>17. CASE Add(f)
  BY <1>1, <1>2, <1>4, <1>5, <1>17 DEF Add
<1>18. CASE Less(f)
  BY <1>1, <1>2, <1>3, <1>5, <1>18 DEF Less
<1>19. CASE Increment(f)
  <2>1. \A i, v : Alike(c, [h EXCEPT !.stack[i][2] = v])
    BY <1>2 DEF Alike, Fields
  <2>2. QED
    BY <1>1, <1>2, <1>5, <1>19, <2>1 DEF Increment
<1>20. QED
  BY <1>6, <1>7, <1>8, <1>9, <1>10, <1>11, <1>12, <1>13, <1>14, <1>15, <1>16, <1>17, <1>18, <1>19

\* Instructions of scopes, loops, branches and closures, and those that end a
\* flow or leave the thread to another.
LEMMA OthersCalm ==
  ASSUME VmInv, NEW f \in Flows,
         \/ PopLocalKeep(f) \/ LoadUpvalue(f) \/ AssignUpvalue(f) \/ Jump(f) \/ Coin(f) \/ Say(f)
         \/ Closure(f) \/ PushLoop(f) \/ PopLoop(f) \/ Break(f) \/ Continue(f) \/ RescueMatch(f)
         \/ ClearPending(f) \/ CommitPanic(f) \/ CallBuiltin(f) \/ Reply(f) \/ Await(f)
  PROVE  Calm(f)
<1>1. PICK c, h : c = ctx[f] /\ h = Here(f)
  OBVIOUS
<1>2. /\ Alike(c, c) /\ Alike(c, h) /\ Alike(c, Stop(c, "panic", Nil)) /\ Alike(c, RuntimeError(c))
      /\ \A a : Alike(c, SetIp(c, a))
  BY <1>1, HereAlike, AlikeErrors
<1>3. \A v : Alike(c, Push(h, v)) /\ Alike(c, Drop(h, v))
  BY <1>2, AlikePush
<1>4. \A v, fl : Alike(c, CloseUpvaluesAbove(Drop(h, v), fl))
  BY <1>3, AlikeClose
<1>5. \A d : Alike(c, d) /\ Become(f, d) /\ Control => Calm(f)
  BY <1>1, Calmly
<1>6. \A d : Alike(c, d) /\ Become(f, d) /\ cell' = cell /\ running' \in Flows => Calm(f)
  BY <1>1 DEF Calm, Become
<1>7. running \in Flows
  BY DEF VmInv
<1>8. CASE PopLocalKeep(f)
  <2>1. \A v, fl, m, x : Alike(c, Push(Drop(CloseUpvaluesAbove(Drop(h, v), fl), m), x))
    BY <1>4, AlikePush
  <2>2. QED
    BY <1>1, <1>2, <1>4, <1>5, <1>8, <2>1 DEF PopLocalKeep
<1>9. CASE LoadUpvalue(f)
  BY <1>1, <1>2, <1>3, <1>5, <1>9 DEF LoadUpvalue
<1>10. CASE AssignUpvalue(f)
  <2>1. PICK e : e = Drop(h, 1)
    OBVIOUS
  <2>2. \A i, v : Alike(c, [e EXCEPT !.stack[i] = v]) /\ Alike(c, [e EXCEPT !.upvalues[i].value = v])
    BY <1>3, <2>1 DEF Alike, Fields
  <2>3. QED
    BY <1>1, <1>2, <1>5, <1>10, <2>1, <2>2 DEF AssignUpvalue
<1>11. CASE Jump(f)
  <2>1. \A a : Alike(c, Drop(SetIp(c, a), 1))
    BY <1>2, AlikePush
  <2>2. QED
    BY <1>1, <1>2, <1>3, <1>5, <1>11, <2>1 DEF Jump
<1>12. CASE Coin(f)
  BY <1>1, <1>3, <1>6, <1>7, <1>12 DEF Coin
<1>13. CASE Say(f)
  BY <1>1, <1>3, <1>6, <1>7, <1>13 DEF Say
<1>14. CASE Closure(f)
  <2>1. \A w : Alike(c, [h EXCEPT !.upvalues = w])
    BY <1>2 DEF Alike, Fields
  <2>2. \A w, v : Alike(c, Push([h EXCEPT !.upvalues = w], v))
    BY <2>1, AlikePush
  <2>3. QED
    BY <1>1, <1>5, <1>14, <2>2 DEF Closure
<1>15. \A ls : Alike(c, [h EXCEPT !.loops = ls])
  BY <1>2 DEF Alike, Fields
<1>16. CASE PushLoop(f)
  BY <1>1, <1>5, <1>15, <1>16 DEF PushLoop
<1>17. CASE PopLoop(f)
  BY <1>1, <1>5, <1>15, <1>17 DEF PopLoop
<1>18. CASE Break(f)
  <2>1. \A v, a, vs : Alike(c, LoopSignal(Drop(h, v), a, vs))
    BY <1>3, AlikeLoop
  <2>2. QED
    BY <1>1, <1>5, <1>18, <2>1 DEF Break
<1>19. CASE Continue(f)
  <2>1. \A a, vs : Alike(c, LoopSignal(h, a, vs))
    BY <1>2, AlikeLoop
  <2>2. QED
    BY <1>1, <1>5, <1>19, <2>1 DEF Continue
<1>20. CASE RescueMatch(f)
  BY <1>1, <1>3, <1>5, <1>20 DEF RescueMatch
<1>21. CASE ClearPending(f)
  <2>1. Alike(c, [h EXCEPT !.pending = None])
    BY <1>2 DEF Alike, Fields
  <2>2. QED
    BY <1>1, <1>5, <1>21, <2>1 DEF ClearPending
<1>22. CASE CommitPanic(f)
  BY <1>1, <1>2, <1>5, <1>22 DEF CommitPanic
<1>23. CASE CallBuiltin(f)
  BY <1>1, <1>3, <1>5, <1>23 DEF CallBuiltin
<1>24. CASE Reply(f)
  <2>1. \A x : Alike(c, Stop(CloseUpvaluesAbove(Drop(h, 1), 0), "ok", x))
    BY <1>4, AlikeStop
  <2>2. QED
    BY <1>1, <1>4, <1>5, <1>24, <2>1 DEF Reply
<1>25. CASE Await(f)
  BY <1>1, <1>3, <1>6, <1>25 DEF Await
<1>26. QED
  BY <1>8, <1>9, <1>10, <1>11, <1>12, <1>13, <1>14, <1>16, <1>17, <1>18, <1>19, <1>20, <1>21,
     <1>22, <1>23, <1>24, <1>25
-----------------------------------------------------------------------------
(* Prefixes, and the greatest of a set.                                     *)

\* The greatest of some numbers up to n.
LEMMA MaxIn ==
  ASSUME NEW n \in Nat, NEW S \in SUBSET (0..n), S # {}
  PROVE  Max(S) \in S /\ \A j \in S : j <= Max(S)
<1>1. PICK T : T = {i + 1 : i \in S}
  OBVIOUS
<1>2. T \in SUBSET (1..(n + 1)) /\ T # {} /\ n + 1 \in Nat
  <2>1. \A i \in S : i \in 0..n
    OBVIOUS
  <2>2. \A i \in S : i + 1 \in 1..(n + 1)
    BY <2>1
  <2>3. T \subseteq 1..(n + 1)
    BY <1>1, <2>2
  <2>4. T # {}
    BY <1>1
  <2>5. QED
    BY <2>3, <2>4
<1>3. PICK m \in T : \A j \in T : j <= m
  BY <1>2, GreatestExists
<1>4. PICK i \in S : m = i + 1
  BY <1>1
<1>5. \A j \in S : j + 1 <= i + 1
  BY <1>1, <1>3, <1>4
<1>6. \A j \in S : i >= j
  BY <1>5
<1>7. Max(S) \in S /\ \A j \in S : Max(S) >= j
  BY <1>6 DEF Max
<1>8. QED
  BY <1>7

\* Vec::truncate.
LEMMA CutBegins ==
  ASSUME NEW s, IsSequence(s), NEW n \in Int
  PROVE  Begins(Cut(s, n), s) /\ (n \in 0..Len(s) => Len(Cut(s, n)) = n)
<1>1. Len(s) \in Nat
  BY LenProperties DEF IsSequence
<1>2. PICK m \in Int : m = Min({n, Len(s)})
  <2>1. Min({n, Len(s)}) \in {n, Len(s)}
    <3>1. \E x \in {n, Len(s)} : \A y \in {n, Len(s)} : x =< y
      BY <1>1
    <3>2. QED
      BY <3>1 DEF Min
  <2>2. QED
    BY <1>1, <2>1
<1>3. m <= Len(s) /\ (n <= Len(s) => m = n)
  <2>1. \E x \in {n, Len(s)} : \A y \in {n, Len(s)} : x =< y
    BY <1>1
  <2>2. m \in {n, Len(s)} /\ \A y \in {n, Len(s)} : m =< y
    BY <1>2, <2>1 DEF Min
  <2>3. QED
    BY <1>1, <2>2
<1>4. PICK u : u = Cut(s, n)
  OBVIOUS
<1>5. u = SubSeq(s, 1, m) /\ m <= Len(s)
  BY <1>2, <1>3, <1>4 DEF Cut
<1>6. Begins(u, s)
  BY ONLY IsSequence(s), m \in Int, <1>5, Prefix
<1>7. m \in Nat => Len(u) = m
  BY ONLY IsSequence(s), m \in Int, <1>5, Prefix
<1>8. QED
  BY <1>1, <1>3, <1>4, <1>6, <1>7

\* The first of some handlers are handlers of the same frames, or of fewer.
LEMMA NestedBegins ==
  ASSUME NEW hs, NEW n, Nested(hs, n), NEW u, Begins(u, hs), NEW m,
         \A i \in 1..Len(u) : hs[i].frame <= m
  PROVE  Nested(u, m)
<1>1. 1..Len(u) \subseteq 1..Len(hs)
  BY DEF Begins
<1>2. QED
  BY <1>1 DEF Nested, Begins
-----------------------------------------------------------------------------
(* Steps.                                                                   *)

\* What StaleNeverCommits says of a step.
NeverCommits ==
  /\ \A f \in Flows : Stale(f) => Stale(f)' \/ GivesUp(f)
  /\ cell' # cell => /\ ~Stale(running) /\ ctx'[running].txns = <<>>
                     /\ \A r \in Cells : cell'[r] # cell[r] => cell'[r].version = cell[r].version + 1

Fine == VmInv' /\ NeverCommits

\* Staleness, by the places of the contexts.
LEMMA StaleMeans ==
  ASSUME VmInv, NEW f \in Flows
  PROVE  Stale(f) <=> StaleIn(ctx[f].txns, cell)
<1>1. IsSequence(ctx[f].txns)
  BY DEF VmInv, CtxOK, Sound
<1>2. DOMAIN ctx[f].txns = 1..Len(ctx[f].txns)
  BY <1>1, LenProperties DEF IsSequence
<1>3. QED
  BY <1>2 DEF Stale, Conflict, StaleIn

\* The same after a step.
LEMMA StaleMeansNext ==
  ASSUME VmInv', NEW f \in Flows
  PROVE  Stale(f)' <=> StaleIn(ctx'[f].txns, cell')
<1>1. IsSequence(ctx'[f].txns)
  BY DEF VmInv, CtxOK, Sound
<1>2. DOMAIN ctx'[f].txns = 1..Len(ctx'[f].txns)
  BY <1>1, LenProperties DEF IsSequence
<1>3. QED
  BY <1>2 DEF Stale, Conflict, StaleIn

\* A step of f that changes its own VmCtx only.
LEMMA OwnStep ==
  ASSUME VmInv, NEW f \in Flows, NEW d, CtxOK(d, cell), ctx' = [ctx EXCEPT ![f] = d],
         cell' = cell, running' \in Flows,
         StaleIn(ctx[f].txns, cell) => StaleIn(d.txns, cell) \/ GivesUp(f)
  PROVE  Fine
<1>1. DOMAIN ctx' = Flows /\ ctx'[f] = d /\ \A g \in Flows : g # f => ctx'[g] = ctx[g]
  BY DEF VmInv
<1>2. VmInv'
  BY <1>1 DEF VmInv
<1>3. ASSUME NEW g \in Flows, Stale(g) PROVE Stale(g)' \/ GivesUp(g)
  <2>1. StaleIn(ctx[g].txns, cell)
    BY <1>3, StaleMeans
  <2>2. StaleIn(ctx'[g].txns, cell') \/ GivesUp(g)
    BY <1>1, <2>1
  <2>3. QED
    BY <1>2, <2>2, StaleMeansNext
<1>4. QED
  BY <1>2, <1>3 DEF Fine, NeverCommits

\* A step of f, the one that holds the thread, that sets cells.
LEMMA CommittingStep ==
  ASSUME VmInv, NEW f \in Flows, running = f, running' = running,
         NEW d, CtxOK(d, cell), d.txns = <<>>, ctx' = [ctx EXCEPT ![f] = d],
         ~StaleIn(ctx[f].txns, cell), DOMAIN cell' = Cells,
         \A r \in Cells : cell'[r] = cell[r] \/ cell'[r].version = cell[r].version + 1
  PROVE  Fine
<1>1. DOMAIN ctx' = Flows /\ ctx'[f] = d /\ \A g \in Flows : g # f => ctx'[g] = ctx[g]
  BY DEF VmInv
<1>2. \A r \in Cells : cell[r].version \in Nat /\ cell'[r].version \in Nat
                       /\ cell[r].version <= cell'[r].version
  BY DEF VmInv, CellsOK
<1>3. CellsOK(cell) /\ CellsOK(cell')
  BY <1>2 DEF VmInv, CellsOK
<1>4. ASSUME NEW ts, Sound(ts, cell)
      PROVE  Sound(ts, cell') /\ (StaleIn(ts, cell) => StaleIn(ts, cell'))
  BY <1>2, <1>3, <1>4, VersionsGrow
<1>5. ASSUME NEW g \in Flows PROVE CtxOK(ctx'[g], cell')
  <2>1. CtxOK(ctx'[g], cell)
    BY <1>1 DEF VmInv
  <2>2. QED
    BY <1>4, <2>1 DEF CtxOK
<1>6. VmInv'
  BY <1>1, <1>3, <1>5 DEF VmInv
<1>7. ASSUME NEW g \in Flows, Stale(g) PROVE Stale(g)'
  <2>1. StaleIn(ctx[g].txns, cell) /\ Sound(ctx[g].txns, cell)
    BY <1>7, StaleMeans DEF VmInv, CtxOK
  <2>2. g # f /\ StaleIn(ctx[g].txns, cell')
    BY <1>4, <2>1
  <2>3. StaleIn(ctx'[g].txns, cell')
    BY <1>1, <2>2
  <2>4. QED
    BY <1>6, <2>3, StaleMeansNext
<1>8. ~Stale(f)
  BY StaleMeans
<1>9. QED
  BY <1>1, <1>6, <1>7, <1>8 DEF Fine, NeverCommits

\* A VmCtx like one that is well formed is so too.
LEMMA AlikeOK ==
  ASSUME NEW c, NEW cl, CtxOK(c, cl), NEW d, Alike(c, d)
  PROVE  CtxOK(d, cl)
<1>1. d.status = "run" => d.frames # <<>>
  <2>1. c.status = "run" => Len(c.frames) # 0
    BY LenProperties, EmptySeq DEF CtxOK, IsSequence
  <2>2. QED
    BY <2>1 DEF Alike
<1>2. QED
  BY <1>1 DEF Alike, CtxOK

\* The calm steps.
LEMMA CalmFine ==
  ASSUME VmInv, NEW f \in Flows, Calm(f)
  PROVE  Fine
<1>1. PICK d : Alike(ctx[f], d) /\ ctx' = [ctx EXCEPT ![f] = d]
  BY DEF Calm
<1>2. cell' = cell /\ running' \in Flows
  BY DEF Calm
<1>3. CtxOK(d, cell)
  BY <1>1, AlikeOK DEF VmInv
<1>4. d.txns = ctx[f].txns
  BY <1>1 DEF Alike
<1>5. QED
  BY <1>1, <1>2, <1>3, <1>4, OwnStep

\* No VmCtx and no cell changes.
LEMMA IdleFine ==
  ASSUME VmInv, ctx' = ctx, cell' = cell, running' \in Flows
  PROVE  Fine
<1>1. VmInv'
  BY DEF VmInv
<1>2. ASSUME NEW g \in Flows, Stale(g) PROVE Stale(g)'
  <2>1. StaleIn(ctx[g].txns, cell)
    BY <1>2, StaleMeans
  <2>2. StaleIn(ctx'[g].txns, cell')
    BY <2>1
  <2>3. QED
    BY <1>1, <2>2, StaleMeansNext
<1>3. QED
  BY <1>1, <1>2 DEF Fine, NeverCommits

\* No contexts.
LEMMA EmptySound ==
  ASSUME NEW cl
  PROVE  Sound(<<>>, cl) /\ IsSequence(<<>>) /\ Len(<<>>) = 0
<1>1. <<>> \in Seq({}) /\ Len(<<>>) = 0
  OBVIOUS
<1>2. IsSequence(<<>>)
  BY <1>1, OwnSet
<1>3. 1..Len(<<>>) = {}
  BY <1>1
<1>4. QED
  BY <1>1, <1>2, <1>3 DEF Sound

\* An instruction that is there.
LEMMA AtFacts ==
  ASSUME VmInv, NEW f \in Flows, NEW op, At(f, op)
  PROVE  /\ CtxOK(ctx[f], cell) /\ Alike(ctx[f], Here(f)) /\ CtxOK(Here(f), cell)
         /\ Len(ctx[f].frames) \in Nat \ {0} /\ Len(Here(f).frames) = Len(ctx[f].frames)
         /\ running = f /\ Instr(ctx[f])[1] = op
<1>1. CtxOK(ctx[f], cell) /\ ctx[f].status = "run"
  BY DEF VmInv, At
<1>2. ctx[f].frames # <<>> /\ IsSequence(ctx[f].frames)
  BY <1>1 DEF CtxOK
<1>3. Len(ctx[f].frames) \in Nat \ {0}
  BY <1>2, LenProperties, EmptySeq DEF IsSequence
<1>4. Alike(ctx[f], Here(f))
  BY HereAlike
<1>5. CtxOK(Here(f), cell)
  BY <1>1, <1>4, AlikeOK
<1>6. QED
  BY <1>1, <1>3, <1>4, <1>5 DEF At, Alike

\* A step that gives up reads.
LEMMA GivingUpFine ==
  ASSUME VmInv, NEW f \in Flows, GivesUp(f), NEW d, CtxOK(d, cell), Become(f, d), Control
  PROVE  Fine
BY OwnStep DEF Become, Control, VmInv

\* A step that leaves the cells alone and every stale read.
LEMMA KeepingFine ==
  ASSUME VmInv, NEW f \in Flows, NEW d, CtxOK(d, cell), Become(f, d), Control,
         StaleIn(ctx[f].txns, cell) => StaleIn(d.txns, cell)
  PROVE  Fine
BY OwnStep DEF Become, Control, VmInv

\* PushTry.
LEMMA PushTryFine ==
  ASSUME VmInv, NEW f \in Flows, PushTry(f)
  PROVE  Fine
<1>1. PICK c, h : c = ctx[f] /\ h = Here(f)
  OBVIOUS
<1>2. /\ CtxOK(c, cell) /\ Alike(c, h) /\ CtxOK(h, cell)
      /\ Len(c.frames) \in Nat /\ Len(h.frames) = Len(c.frames)
  BY <1>1, AtFacts DEF PushTry
<1>3. PICK x : x = [rescue |-> Arg(f, 1), height |-> Len(c.stack), frame |-> Depth(c)]
  OBVIOUS
<1>4. PICK u, d : u = Append(h.excs, x) /\ d = [h EXCEPT !.excs = u]
  OBVIOUS
<1>5. Become(f, d) /\ Control
  BY <1>1, <1>3, <1>4 DEF PushTry
<1>6. Nested(h.excs, Len(h.frames)) /\ IsSequence(h.excs) /\ x.frame = Len(h.frames)
  BY <1>2, <1>3 DEF CtxOK, Nested, Depth
<1>7. Longer(u, h.excs, x)
  BY ONLY <1>4, <1>6, AppendLonger
<1>8. ASSUME NEW i \in 1..Len(u)
      PROVE  \/ i \in 1..Len(h.excs) /\ u[i] = h.excs[i]
             \/ i = Len(h.excs) + 1 /\ u[i] = x
  BY <1>7 DEF Longer
<1>9. Len(h.frames) \in Nat
  BY <1>2
<1>10. ASSUME NEW i \in 1..Len(u) PROVE u[i].frame \in Nat /\ u[i].frame <= Len(h.frames)
  BY <1>6, <1>8, <1>9 DEF Nested
<1>11. ASSUME NEW i \in 1..Len(u), NEW j \in 1..Len(u), i < j PROVE u[i].frame <= u[j].frame
  <2>1. i \in 1..Len(h.excs) /\ u[i] = h.excs[i]
    BY <1>7, <1>8, <1>11 DEF Longer
  <2>2. CASE j \in 1..Len(h.excs) /\ u[j] = h.excs[j]
    BY <1>6, <1>11, <2>1, <2>2 DEF Nested
  <2>3. CASE u[j] = x
    BY <1>6, <2>1, <2>3 DEF Nested
  <2>4. QED
    BY <1>8, <2>2, <2>3
<1>12. Nested(u, Len(h.frames))
  BY <1>7, <1>10, <1>11 DEF Nested, Longer
<1>13. CtxOK(d, cell) /\ d.txns = c.txns
  BY <1>2, <1>4, <1>12 DEF CtxOK, Alike, Fields
<1>14. QED
  BY <1>1, <1>5, <1>13, KeepingFine

\* PopTry.
LEMMA PopTryFine ==
  ASSUME VmInv, NEW f \in Flows, PopTry(f)
  PROVE  Fine
<1>1. PICK c, h : c = ctx[f] /\ h = Here(f)
  OBVIOUS
<1>2. /\ CtxOK(c, cell) /\ Alike(c, h) /\ CtxOK(h, cell)
  BY <1>1, AtFacts DEF PopTry
<1>3. PICK u, d : u = Cut(h.excs, Len(h.excs) - 1) /\ d = [h EXCEPT !.excs = u]
  OBVIOUS
<1>4. Become(f, d) /\ Control
  BY <1>1, <1>3 DEF PopTry
<1>5. Nested(h.excs, Len(h.frames)) /\ IsSequence(h.excs)
  BY <1>2 DEF CtxOK, Nested
<1>6. Len(h.excs) - 1 \in Int
  BY <1>5, LenProperties DEF IsSequence
<1>7. Begins(u, h.excs)
  BY ONLY <1>3, <1>5, <1>6, CutBegins
<1>8. \A i \in 1..Len(u) : h.excs[i].frame <= Len(h.frames)
  BY <1>5, <1>7 DEF Begins, Nested
<1>9. Nested(u, Len(h.frames))
  BY <1>5, <1>7, <1>8, NestedBegins
<1>10. CtxOK(d, cell) /\ d.txns = c.txns
  BY <1>2, <1>3, <1>9 DEF CtxOK, Alike, Fields
<1>11. QED
  BY <1>1, <1>4, <1>10, KeepingFine

\* Call: the frame of the callee is above those the handlers belong to.
LEMMA CallFine ==
  ASSUME VmInv, NEW f \in Flows, Call(f)
  PROVE  Fine
<1>1. PICK c, h, n, s, callee, st :
        /\ c = ctx[f] /\ h = Here(f) /\ n = Arg(f, 1) /\ s = c.stack /\ callee = s[Len(s) - n]
        /\ st = SubSeq(s, 1, Len(s) - n - 1) \o SubSeq(s, Len(s) - n + 1, Len(s))
  OBVIOUS
<1>2. /\ CtxOK(c, cell) /\ Alike(c, h) /\ CtxOK(h, cell) /\ Len(h.frames) \in Nat
  BY <1>1, AtFacts DEF Call
<1>3. Alike(c, Stop(c, "panic", Nil)) /\ Alike(c, RuntimeError(c))
  BY <1>2, AlikeSelf, AlikeErrors
<1>4. PICK x, u, d : /\ x = [code |-> callee[2], ip |-> 1, base |-> Len(s) - n - 1, upvalues |-> callee[3]]
                     /\ u = Append(h.frames, x)
                     /\ d = [[h EXCEPT !.stack = st] EXCEPT !.frames = u]
  OBVIOUS
<1>5. Control /\ \/ Become(f, Stop(c, "panic", Nil)) \/ Become(f, RuntimeError(c)) \/ Become(f, d)
  <2>1. [h EXCEPT !.stack = st].frames = h.frames
    BY <1>2 DEF Alike, Fields
  <2>2. QED
    BY <1>1, <1>4, <2>1 DEF Call
<1>6. IsSequence(h.frames)
  BY <1>2 DEF CtxOK
<1>7. Longer(u, h.frames, x)
  BY ONLY <1>4, <1>6, AppendLonger
<1>8. IsSequence(u) /\ Len(u) = Len(h.frames) + 1 /\ u # <<>>
  <2>1. Len(<<>>) = 0
    BY EmptySound
  <2>2. QED
    BY <1>2, <1>7, <2>1 DEF Longer
<1>9. Nested(h.excs, Len(u))
  BY <1>2, <1>8 DEF CtxOK, Nested
<1>10. CtxOK(d, cell) /\ d.txns = c.txns
  BY <1>2, <1>4, <1>8, <1>9 DEF CtxOK, Alike, Fields
<1>11. CASE Become(f, d)
  BY <1>1, <1>5, <1>10, <1>11, KeepingFine
<1>12. CASE Become(f, Stop(c, "panic", Nil)) \/ Become(f, RuntimeError(c))
  BY <1>1, <1>3, <1>5, <1>12, Calmly, CalmFine
<1>13. QED
  BY <1>5, <1>11, <1>12

\* Front, as a beginning.
LEMMA FrontBegins ==
  ASSUME NEW s, IsSequence(s), Len(s) \in Nat \ {0}, NEW u, u = Front(s)
  PROVE  Begins(u, s) /\ Len(u) = Len(s) - 1
<1>1. PICK n \in Int : n = Len(s) - 1
  OBVIOUS
<1>2. n <= Len(s) /\ n \in Nat
  BY <1>1
<1>3. u = SubSeq(s, 1, n)
  BY <1>1 DEF Front
<1>4. Begins(u, s)
  BY ONLY IsSequence(s), n \in Int, <1>2, <1>3, Prefix
<1>5. Len(u) = n
  BY ONLY IsSequence(s), n \in Int, <1>2, <1>3, Prefix
<1>6. QED
  BY <1>1, <1>4, <1>5

\* The handlers of the frames up to m, in their order.
LEMMA KeptNested ==
  ASSUME NEW hs, NEW n, Nested(hs, n), NEW m \in Nat,
         NEW u, u = Picked(hs, {i \in DOMAIN hs : hs[i].frame <= m})
  PROVE  Nested(u, m)
<1>1. PICK S, P : S = ToSet(hs) /\ P = {i \in DOMAIN hs : hs[i].frame <= m}
  OBVIOUS
<1>2. hs \in Seq(S) /\ DOMAIN hs = 1..Len(hs)
  BY <1>1, LenProperties DEF Nested, IsSequence
<1>3. u = Picked(hs, P) /\ hs \in Seq(S)
  BY <1>1, <1>2
<1>4. u \in Seq(S) /\ \A x \in ToSet(u) : \E i \in 1..Len(hs) : i \in P /\ x = hs[i]
  <2>1. Picked(hs, P) \in Seq(S)
    BY ONLY <1>3, PickedFacts
  <2>2. \A x : x \in ToSet(Picked(hs, P)) <=> \E i \in 1..Len(hs) : i \in P /\ x = hs[i]
    BY ONLY <1>3, PickedFacts
  <2>3. QED
    BY <1>3, <2>1, <2>2
<1>5. InOrder(u, hs)
  <2>1. InOrder(Picked(hs, P), hs)
    BY ONLY <1>3, PickedFacts
  <2>2. QED
    BY <1>3, <2>1
<1>6. IsSequence(u) /\ ToSet(u) = {u[i] : i \in 1..Len(u)}
  <2>1. u \in Seq(S)
    BY <1>4
  <2>2. IsSequence(u)
    BY ONLY <2>1, OwnSet
  <2>3. ToSet(u) = {u[i] : i \in 1..Len(u)} /\ ToSet(u) \subseteq S
    BY ONLY <2>1, ToSetDef
  <2>4. QED
    BY <2>2, <2>3
<1>7. ASSUME NEW a \in 1..Len(u) PROVE u[a].frame \in Nat /\ u[a].frame <= m
  <2>1. PICK i \in 1..Len(hs) : i \in P /\ u[a] = hs[i]
    BY <1>4, <1>6
  <2>2. QED
    BY <1>1, <2>1 DEF Nested
<1>8. ASSUME NEW a \in 1..Len(u), NEW b \in 1..Len(u), a < b PROVE u[a].frame <= u[b].frame
  <2>1. PICK i, j \in 1..Len(hs) : i < j /\ u[a] = hs[i] /\ u[b] = hs[j]
    BY <1>5, <1>8 DEF InOrder
  <2>2. QED
    BY <2>1 DEF Nested
<1>9. QED
  BY <1>6, <1>7, <1>8 DEF Nested

\* Handlers that are kept are still a sequence.
LEMMA KeptSequence ==
  ASSUME NEW hs, IsSequence(hs), NEW P
  PROVE  IsSequence(Picked(hs, P))
<1>1. Picked(hs, P) \in Seq(ToSet(hs))
  BY PickedFacts DEF IsSequence
<1>2. QED
  BY <1>1, OwnSet

\* Return.
LEMMA ReturnFine ==
  ASSUME VmInv, NEW f \in Flows, Return(f)
  PROVE  Fine
<1>1. PICK b, v, c, m : b = ctx[f] /\ v = Operand(f) /\ c = Drop(Here(f), 1) /\ m = Depth(c) - 1
  OBVIOUS
<1>2. CtxOK(b, cell) /\ Alike(b, Here(f)) /\ Len(b.frames) \in Nat \ {0}
  BY <1>1, AtFacts DEF Return
<1>3. Alike(b, c) /\ CtxOK(c, cell)
  BY <1>1, <1>2, AlikePush, AlikeOK
<1>4. PICK k : k = CloseUpvaluesAbove(c, Frame(c).base)
  OBVIOUS
<1>5. Alike(b, k) /\ Alike(c, k) /\ CtxOK(k, cell)
  BY <1>2, <1>3, <1>4, AlikeClose, AlikeSelf, AlikeOK
<1>6. Len(k.frames) = m + 1 /\ m \in Nat
  BY <1>1, <1>2, <1>3, <1>5 DEF Alike, Depth
<1>7. PICK fr, ls, ex, hd, st :
        /\ fr = Front(k.frames)
        /\ ls = Picked(k.loops, {i \in DOMAIN k.loops : k.loops[i].frame <= m})
        /\ ex = Picked(k.excs, {i \in DOMAIN k.excs : k.excs[i].frame <= m})
        /\ hd = Picked(k.handlers, {i \in DOMAIN k.handlers : k.handlers[i].frame <= m})
        /\ st = Append(Cut(k.stack, Frame(c).base), v)
  OBVIOUS
<1>8. PICK d : d = [k EXCEPT !.frames = fr, !.loops = ls, !.excs = ex, !.handlers = hd, !.stack = st]
  OBVIOUS
<1>9. Control /\ \/ Become(f, k)
                 \/ m # 0 /\ Become(f, d)
                 \/ Become(f, Stop(d, "ok", v))
  <2>1. Become(f, Returned(c, v)) /\ Control
    BY <1>1 DEF Return
  <2>2. Returned(c, v) = IF k.status = "panic" THEN k ELSE IF m = 0 THEN Stop(d, "ok", v) ELSE d
    <3>1. d = [k EXCEPT !.frames = Front(@),
                        !.loops = Picked(@, {i \in DOMAIN @ : @[i].frame <= m}),
                        !.excs = Picked(@, {i \in DOMAIN @ : @[i].frame <= m}),
                        !.handlers = Picked(@, {i \in DOMAIN @ : @[i].frame <= m}),
                        !.stack = Append(Cut(@, Frame(c).base), v)]
      BY <1>5, <1>7, <1>8
    <3>2. QED
      BY <1>1, <1>4, <3>1 DEF Returned
  <2>3. QED
    BY <2>1, <2>2
<1>10. IsSequence(k.frames) /\ IsSequence(k.handlers) /\ Nested(k.excs, Len(k.frames))
       /\ DOMAIN k = Fields /\ Sound(k.txns, cell) /\ k.txns = b.txns
  BY <1>5 DEF CtxOK, Alike
<1>11. IsSequence(fr) /\ Len(fr) = m
  <2>1. Len(k.frames) \in Nat \ {0}
    BY <1>6
  <2>2. Begins(fr, k.frames) /\ Len(fr) = Len(k.frames) - 1
    BY ONLY <1>7, <1>10, <2>1, FrontBegins
  <2>3. QED
    BY <1>6, <2>2 DEF Begins
<1>12. Nested(ex, m)
  BY ONLY <1>6, <1>7, <1>10, KeptNested
<1>13. IsSequence(hd)
  BY <1>7, <1>10, KeptSequence
<1>14. /\ DOMAIN d = Fields /\ d.frames = fr /\ d.excs = ex /\ d.handlers = hd /\ d.txns = b.txns
       /\ d.status = k.status
  BY <1>8, <1>10 DEF Fields
<1>15. CASE Become(f, k)
  BY <1>1, <1>5, <1>9, <1>15, Calmly, CalmFine
<1>16. CASE m # 0 /\ Become(f, d)
  <2>1. fr # <<>>
    BY <1>11, <1>16, EmptySound
  <2>2. CtxOK(d, cell)
    BY <1>10, <1>11, <1>12, <1>13, <1>14, <2>1 DEF CtxOK
  <2>3. QED
    BY <1>1, <1>9, <1>14, <1>16, <2>2, KeepingFine
<1>17. CASE Become(f, Stop(d, "ok", v))
  <2>1. PICK e : e = Stop(d, "ok", v)
    OBVIOUS
  <2>2. /\ DOMAIN e = Fields /\ e.frames = fr /\ e.excs = ex /\ e.handlers = hd /\ e.txns = b.txns
        /\ e.status = "ok"
    BY <1>14, <2>1 DEF Stop, Fields
  <2>3. CtxOK(e, cell)
    BY <1>10, <1>11, <1>12, <1>13, <2>2 DEF CtxOK
  <2>4. QED
    BY <1>1, <1>9, <1>17, <2>1, <2>2, <2>3, KeepingFine
<1>18. QED
  BY <1>9, <1>15, <1>16, <1>17

\* Rolling back the transactions begun above a height leaves a beginning of the
\* contexts and of the handlers.
LEMMA CleanupOK ==
  ASSUME NEW c, NEW cl, CtxOK(c, cl), NEW floor, NEW b, b = CleanupTransactAbove(c, floor)
  PROVE  CtxOK(b, cl) /\ b.frames = c.frames /\ b.excs = c.excs
<1>1. PICK hs, ts, S : /\ hs = c.handlers /\ ts = c.txns
                       /\ S = {0} \cup {i \in DOMAIN hs : hs[i].height <= floor}
  OBVIOUS
<1>2. IsSequence(hs) /\ Sound(ts, cl) /\ IsSequence(ts)
  BY <1>1 DEF CtxOK, Sound
<1>3. Len(hs) \in Nat /\ DOMAIN hs = 1..Len(hs) /\ Len(ts) \in Nat
  BY <1>2, LenProperties DEF IsSequence
<1>4. PICK keep : keep = Max(S)
  OBVIOUS
<1>5. keep \in 0..Len(hs)
  <2>1. S \in SUBSET (0..Len(hs)) /\ S # {}
    BY <1>1, <1>3
  <2>2. Max(S) \in S
    BY <1>3, <2>1, MaxIn
  <2>3. QED
    BY <1>4, <2>1, <2>2
<1>6. PICK n \in Int : n = Len(ts) - (Len(hs) - keep)
  BY <1>3, <1>5
<1>7. PICK u, w : u = SubSeq(ts, 1, n) /\ w = Cut(hs, keep)
  OBVIOUS
<1>8. n <= Len(ts) /\ keep \in Int
  BY <1>3, <1>5, <1>6
<1>9. Begins(u, ts)
  BY ONLY <1>2, <1>7, <1>8, n \in Int, Prefix
<1>10. Begins(w, hs)
  BY ONLY <1>2, <1>7, <1>8, CutBegins
<1>11. Sound(u, cl) /\ IsSequence(w)
  BY <1>2, <1>9, <1>10, PrefixSound DEF Begins
<1>12. b = [c EXCEPT !.handlers = w, !.txns = u]
  BY <1>1, <1>4, <1>6, <1>7 DEF CleanupTransactAbove
<1>13. /\ DOMAIN b = Fields /\ b.frames = c.frames /\ b.excs = c.excs /\ b.status = c.status
       /\ b.handlers = w /\ b.txns = u
  BY <1>12 DEF CtxOK, Fields
<1>14. QED
  BY <1>11, <1>13 DEF CtxOK

\* A rescue: the frames and handlers left are those up to the one that catches.
LEMMA RaisedOK ==
  ASSUME NEW c, NEW cl, CtxOK(c, cl), NEW v
  PROVE  CtxOK(Raised(c, v), cl)
<1>1. PICK ex, n, D : /\ ex = c.excs /\ n = Depth(c)
                      /\ D = {d \in 1..n : \E i \in DOMAIN ex : ex[i].frame = d}
  OBVIOUS
<1>2. /\ IsSequence(c.frames) /\ Len(c.frames) = n /\ n \in Nat
      /\ Nested(ex, n) /\ IsSequence(ex) /\ Len(ex) \in Nat /\ DOMAIN ex = 1..Len(ex)
  BY <1>1, LenProperties DEF CtxOK, Nested, Depth, IsSequence
<1>3. Alike(c, c) /\ Alike(c, CloseUpvaluesAbove(c, 0))
      /\ \A fl : Alike(c, CloseUpvaluesAbove(c, fl))
  BY AlikeSelf, AlikeClose
<1>4. CASE D = {}
  <2>1. PICK k : k = CloseUpvaluesAbove(c, 0)
    OBVIOUS
  <2>2. Raised(c, v) = IF k.status = "panic" THEN k ELSE Stop(k, "raise", v)
    BY <1>1, <1>4, <2>1 DEF Raised
  <2>3. Alike(c, k) /\ Alike(c, Stop(k, "raise", v))
    BY <1>3, <2>1, AlikeStop
  <2>4. QED
    BY <2>2, <2>3, AlikeOK
<1>5. CASE D # {}
  <2>1. PICK d : d = Max(D)
    OBVIOUS
  <2>2. d \in D
    <3>1. D \in SUBSET (0..n)
      BY <1>1, <1>2
    <3>2. QED
      BY <1>2, <1>5, <2>1, <3>1, MaxIn
  <2>3. PICK A, at : A = {i \in DOMAIN ex : ex[i].frame = d} /\ at = Max(A)
    OBVIOUS
  <2>4. at \in 1..Len(ex) /\ ex[at].frame = d /\ d \in 1..n
    <3>1. A # {} /\ A \in SUBSET (0..Len(ex)) /\ d \in 1..n
      BY <1>1, <1>2, <2>2, <2>3
    <3>2. at \in A
      BY <1>2, <2>3, <3>1, MaxIn
    <3>3. QED
      BY <1>2, <2>3, <3>1, <3>2
  <2>5. PICK floor : floor = Min({ex[at].height} \cup {c.frames[j].base : j \in (d + 1)..n})
    OBVIOUS
  <2>6. PICK k : k = IF d = n THEN c ELSE CloseUpvaluesAbove(c, c.frames[d + 1].base)
    OBVIOUS
  <2>7. Alike(c, k) /\ CtxOK(k, cl)
    BY <1>3, <2>6, AlikeOK
  <2>8. PICK b : b = CleanupTransactAbove(k, floor)
    OBVIOUS
  <2>9. CtxOK(b, cl) /\ b.frames = k.frames /\ b.excs = ex
    BY <1>1, <2>7, <2>8, CleanupOK DEF Alike
  <2>10. PICK fr, u, st : /\ fr = Cut(b.frames, d) /\ u = Cut(b.excs, at - 1)
                          /\ st = Append(Cut(b.stack, floor), v)
    OBVIOUS
  <2>11. IsSequence(b.frames) /\ Len(b.frames) = n /\ d \in Int /\ d \in 0..n /\ at - 1 \in Int
    BY <1>2, <2>4, <2>7, <2>9 DEF Alike
  <2>12. IsSequence(fr) /\ Len(fr) = d /\ fr # <<>>
    <3>1. Begins(fr, b.frames)
      BY ONLY <2>10, <2>11, CutBegins
    <3>2. Len(fr) = d
      BY ONLY <2>10, <2>11, CutBegins
    <3>3. QED
      BY <2>4, <3>1, <3>2, EmptySound DEF Begins
  <2>13. Nested(u, d)
    <3>1. u = Cut(ex, at - 1) /\ at - 1 \in 0..Len(ex)
      BY <1>2, <2>4, <2>9, <2>10
    <3>2. Begins(u, ex)
      BY ONLY <1>2, <2>11, <3>1, CutBegins
    <3>3. Len(u) = at - 1
      BY ONLY <1>2, <2>11, <3>1, CutBegins
    <3>4. \A i \in 1..Len(u) : ex[i].frame <= d
      BY <1>2, <2>4, <3>3 DEF Nested
    <3>5. QED
      BY <1>2, <3>2, <3>4, NestedBegins
  <2>14. PICK e : e = [b EXCEPT !.frames = fr, !.excs = u, !.pending = v, !.stack = st]
    OBVIOUS
  <2>15. CtxOK(e, cl)
    <3>1. /\ DOMAIN e = Fields /\ e.frames = fr /\ e.excs = u /\ e.handlers = b.handlers
          /\ e.txns = b.txns
      BY <2>9, <2>14 DEF CtxOK, Fields
    <3>2. QED
      BY <2>9, <2>12, <2>13, <3>1 DEF CtxOK
  <2>16. CtxOK(SetIp(e, ex[at].rescue), cl)
    BY <2>15, AlikeSelf, AlikeSetIp, AlikeOK
  <2>17. Raised(c, v) = IF k.status = "panic" THEN k ELSE SetIp(e, ex[at].rescue)
    <3>1. D = {j \in 1..Depth(c) : \E i \in DOMAIN c.excs : c.excs[i].frame = j}
      BY <1>1
    <3>2. /\ d = Max({j \in 1..Depth(c) : \E i \in DOMAIN c.excs : c.excs[i].frame = j})
          /\ {j \in 1..Depth(c) : \E i \in DOMAIN c.excs : c.excs[i].frame = j} # {}
      BY <1>5, <2>1, <3>1
    <3>3. at = Max({i \in DOMAIN c.excs : c.excs[i].frame = d})
      BY <1>1, <2>3
    <3>4. floor = Min({c.excs[at].height} \cup {c.frames[j].base : j \in (d + 1)..Depth(c)})
      BY <1>1, <2>5
    <3>5. k = IF d = Depth(c) THEN c ELSE CloseUpvaluesAbove(c, c.frames[d + 1].base)
      BY <1>1, <2>6
    <3>6. e = [CleanupTransactAbove(k, floor) EXCEPT
                 !.frames = Cut(@, d), !.excs = Cut(@, at - 1), !.pending = v,
                 !.stack = Append(Cut(@, floor), v)]
      BY <2>8, <2>9, <2>10, <2>14 DEF CtxOK, Fields
    <3>7. QED
      BY <1>1, <3>2, <3>3, <3>4, <3>5, <3>6 DEF Raised
  <2>18. QED
    BY <2>7, <2>16, <2>17
<1>6. QED
  BY <1>4, <1>5

\* Raise, and the end of an `ensure`.
LEMMA RaiseFine ==
  ASSUME VmInv, NEW f \in Flows, Raise(f) \/ EnsureExit(f)
  PROVE  Fine
<1>1. PICK c, h : c = ctx[f] /\ h = Here(f)
  OBVIOUS
<1>2. CASE Raise(f)
  <2>1. CtxOK(c, cell) /\ Alike(c, h) /\ GivesUp(f)
    BY <1>1, <1>2, AtFacts DEF Raise, GivesUp
  <2>2. CtxOK(Drop(h, 1), cell)
    BY <2>1, AlikePush, AlikeOK
  <2>3. CtxOK(Raised(Drop(h, 1), Operand(f)), cell)
    BY <2>2, RaisedOK
  <2>4. QED
    BY <1>1, <1>2, <2>1, <2>3, GivingUpFine DEF Raise
<1>3. CASE EnsureExit(f)
  <2>1. CtxOK(c, cell) /\ Alike(c, h) /\ CtxOK(h, cell) /\ GivesUp(f)
    BY <1>1, <1>3, AtFacts DEF EnsureExit, GivesUp
  <2>2. Alike(c, [h EXCEPT !.pending = None])
    BY <2>1 DEF Alike, Fields
  <2>3. CtxOK(Raised([h EXCEPT !.pending = None], c.pending), cell)
    BY <2>1, <2>2, AlikeOK, RaisedOK
  <2>4. QED
    BY <1>1, <1>3, <2>1, <2>3, GivingUpFine DEF EnsureExit
<1>4. QED
  BY <1>2, <1>3
-----------------------------------------------------------------------------
(* Transactions.                                                            *)

\* A VmCtx with other contexts and handlers.
LEMMA OtherBlocks ==
  ASSUME NEW c, NEW cl, CtxOK(c, cl), NEW ts, Sound(ts, cl), NEW hs, IsSequence(hs)
  PROVE  /\ CtxOK([c EXCEPT !.txns = ts], cl) /\ [c EXCEPT !.txns = ts].txns = ts
         /\ CtxOK([c EXCEPT !.handlers = hs, !.txns = ts], cl)
         /\ [c EXCEPT !.handlers = hs, !.txns = ts].txns = ts
         /\ CtxOK([c EXCEPT !.txns = ts, !.handlers = hs], cl)
         /\ [c EXCEPT !.txns = ts, !.handlers = hs].txns = ts
BY DEF CtxOK, Fields

\* What is like a well formed VmCtx.
LEMMA WellFormed ==
  ASSUME NEW c, NEW cl, CtxOK(c, cl), NEW v, NEW a
  PROVE  /\ CtxOK(Push(c, v), cl) /\ Push(c, v).txns = c.txns
         /\ CtxOK(Drop(c, v), cl) /\ Drop(c, v).txns = c.txns
         /\ CtxOK(SetIp(c, a), cl) /\ SetIp(c, a).txns = c.txns
         /\ CtxOK(RuntimeError(c), cl) /\ RuntimeError(c).txns = c.txns
<1>1. Alike(c, c)
  BY AlikeSelf
<1>2. Alike(c, Push(c, v)) /\ Alike(c, Drop(c, v)) /\ Alike(c, SetIp(c, a)) /\ Alike(c, RuntimeError(c))
  BY <1>1, AlikePush, AlikeSetIp, AlikeErrors
<1>3. \A d : Alike(c, d) => CtxOK(d, cl) /\ d.txns = c.txns
  BY AlikeOK DEF Alike
<1>4. QED
  BY <1>2, <1>3

\* `retry`: the handlers and the contexts above the one that goes back go.
LEMMA RetriedOK ==
  ASSUME NEW c, NEW cl, CtxOK(c, cl)
  PROVE  CtxOK(Retried(c), cl)
<1>1. PICK hs, ts, mine, at :
        /\ hs = c.handlers /\ ts = c.txns
        /\ mine = {i \in DOMAIN hs : hs[i].frame = Depth(c)} /\ at = Max(mine)
  OBVIOUS
<1>2. IsSequence(hs) /\ Sound(ts, cl) /\ IsSequence(ts)
  BY <1>1 DEF CtxOK, Sound
<1>3. Len(hs) \in Nat /\ DOMAIN hs = 1..Len(hs) /\ Len(ts) \in Nat
  BY <1>2, LenProperties DEF IsSequence
<1>4. CASE mine = {}
  <2>1. Retried(c) = RuntimeError(c)
    BY <1>1, <1>4 DEF Retried
  <2>2. QED
    BY <2>1, WellFormed
<1>5. CASE mine # {}
  <2>1. at \in 1..Len(hs)
    <3>1. mine \in SUBSET (0..Len(hs)) /\ mine \subseteq 1..Len(hs)
      BY <1>1, <1>3
    <3>2. Max(mine) \in mine
      BY <1>3, <1>5, <3>1, MaxIn
    <3>3. QED
      BY <1>1, <3>1, <3>2
  <2>2. PICK n \in Int : n = Len(ts) - (Len(hs) - at) - 1
    <3>1. PICK a, b, m : a = Len(ts) /\ b = Len(hs) /\ m = at
      OBVIOUS
    <3>2. a \in Int /\ b \in Int /\ m \in Int
      BY <1>3, <2>1, <3>1
    <3>3. a - (b - m) - 1 \in Int
      BY ONLY <3>2
    <3>4. QED
      BY <3>1, <3>3
  <2>3. PICK u, w, back : /\ u = SubSeq(ts, 1, n) /\ w = Cut(hs, at)
                          /\ back = [c EXCEPT !.handlers = w, !.txns = u, !.stack = Cut(c.stack, hs[at].height)]
    OBVIOUS
  <2>4. n <= Len(ts) /\ at \in Int /\ at \in 0..Len(hs)
    BY <1>3, <2>1, <2>2
  <2>5. Begins(u, ts)
    BY ONLY <1>2, <2>2, <2>3, <2>4, Prefix
  <2>6. Begins(w, hs)
    BY ONLY <1>2, <2>3, <2>4, CutBegins
  <2>7. Len(w) = at
    BY ONLY <1>2, <2>3, <2>4, CutBegins
  <2>8. Sound(u, cl) /\ IsSequence(w)
    BY <1>2, <2>5, <2>6, PrefixSound DEF Begins
  <2>9. CtxOK(back, cl) /\ back.handlers = w /\ DOMAIN back = Fields
    BY <2>3, <2>8 DEF CtxOK, Fields
  <2>10. PICK out, x, again : /\ out = Front(w) /\ x = [w[at] EXCEPT !.retries = @ + 1]
                              /\ again = [w EXCEPT ![at] = x]
    OBVIOUS
  <2>11. IsSequence(out)
    <3>1. IsSequence(w) /\ Len(w) \in Nat \ {0}
      BY <2>1, <2>7, <2>8
    <3>2. Begins(out, w)
      BY ONLY <2>10, <3>1, FrontBegins
    <3>3. QED
      BY <3>2 DEF Begins
  <2>12. IsSequence(again)
    <3>1. at \in 1..Len(w) /\ IsSequence(w)
      BY <2>1, <2>7, <2>8
    <3>2. Replaced(again, w, at, x)
      BY ONLY <2>10, <3>1, ExceptReplaced
    <3>3. QED
      BY <3>2 DEF Replaced
  <2>13. CtxOK([back EXCEPT !.handlers = out], cl) /\ CtxOK([back EXCEPT !.handlers = again], cl)
    BY <2>9, <2>11, <2>12 DEF CtxOK, Fields
  <2>14. Retried(c) \in {RuntimeError([back EXCEPT !.handlers = out]),
                         SetIp([back EXCEPT !.handlers = again], hs[at].retryAddr)}
    <3>1. back = [c EXCEPT !.handlers = Cut(@, at),
                           !.txns = SubSeq(@, 1, Len(@) - (Len(c.handlers) - at) - 1),
                           !.stack = Cut(@, hs[at].height)]
      BY <1>1, <2>2, <2>3
    <3>2. /\ [back EXCEPT !.handlers = Front(@)] = [back EXCEPT !.handlers = out]
          /\ [back EXCEPT !.handlers[at].retries = @ + 1] = [back EXCEPT !.handlers = again]
      BY <2>9, <2>10 DEF Fields
    <3>3. mine = {i \in DOMAIN c.handlers : c.handlers[i].frame = Depth(c)}
      BY <1>1
    <3>4. QED
      BY <1>1, <1>5, <3>1, <3>2, <3>3 DEF Retried
  <2>15. CASE Retried(c) = RuntimeError([back EXCEPT !.handlers = out])
    BY <2>13, <2>15, WellFormed
  <2>16. CASE Retried(c) = SetIp([back EXCEPT !.handlers = again], hs[at].retryAddr)
    <3>1. PICK e, a : e = [back EXCEPT !.handlers = again] /\ a = hs[at].retryAddr
      OBVIOUS
    <3>2. CtxOK(e, cl)
      BY <2>13, <3>1
    <3>3. CtxOK(SetIp(e, a), cl)
      BY ONLY <3>2, WellFormed
    <3>4. QED
      BY <2>16, <3>1, <3>3
  <2>17. QED
    BY <2>14, <2>15, <2>16
<1>6. QED
  BY <1>4, <1>5

\* The instruction.
LEMMA RetryFine ==
  ASSUME VmInv, NEW f \in Flows, Retry(f)
  PROVE  Fine
<1>1. CtxOK(Here(f), cell) /\ GivesUp(f)
  BY AtFacts DEF Retry, GivesUp
<1>2. CtxOK(Retried(Here(f)), cell)
  BY <1>1, RetriedOK
<1>3. QED
  BY <1>1, <1>2, GivingUpFine DEF Retry

\* A block begins.
LEMMA PushTransactFine ==
  ASSUME VmInv, NEW f \in Flows, PushTransact(f)
  PROVE  Fine
<1>1. PICK h, ts, hs, x : /\ h = Here(f) /\ ts = h.txns /\ hs = h.handlers
                          /\ x = [retryAddr |-> Arg(f, 1), offset |-> Arg(f, 2),
                                  height |-> Len(h.stack), frame |-> Depth(h), retries |-> 0]
  OBVIOUS
<1>2. CtxOK(h, cell) /\ ts = ctx[f].txns
  BY <1>1, AtFacts DEF PushTransact, Alike
<1>3. IsSequence(hs) /\ Sound(ts, cell)
  BY <1>1, <1>2 DEF CtxOK
<1>4. PICK u, w : u = Append(ts, EmptyTxn) /\ w = Append(hs, x)
  OBVIOUS
<1>5. Sound(u, cell)
  BY ONLY <1>3, <1>4, BeginSound
<1>6. StaleIn(ts, cell) => StaleIn(u, cell)
  BY ONLY <1>3, <1>4, BeginSound
<1>7. IsSequence(w)
  <2>1. Longer(w, hs, x)
    BY ONLY <1>3, <1>4, AppendLonger
  <2>2. QED
    BY <2>1 DEF Longer
<1>8. Control /\ \E k \in {hs, w} : Become(f, [h EXCEPT !.handlers = k, !.txns = u])
  <2>1. \/ Become(f, [h EXCEPT !.handlers = h.handlers, !.txns = Append(h.txns, EmptyTxn)])
        \/ Become(f, [h EXCEPT !.handlers = Append(h.handlers, x), !.txns = Append(h.txns, EmptyTxn)])
    BY <1>1 DEF PushTransact
  <2>2. QED
    BY <1>1, <1>4, <2>1 DEF PushTransact
<1>9. PICK k \in {hs, w} : Become(f, [h EXCEPT !.handlers = k, !.txns = u])
  BY <1>8
<1>10. PICK d : d = [h EXCEPT !.handlers = k, !.txns = u]
  OBVIOUS
<1>11. CtxOK(d, cell) /\ d.txns = u
  <2>1. IsSequence(k)
    BY <1>3, <1>7, <1>9
  <2>2. CtxOK(h, cell)
    BY <1>2
  <2>3. CtxOK(d, cell)
    BY ONLY <1>5, <1>10, <2>1, <2>2, OtherBlocks
  <2>4. d.txns = u
    BY <1>2, <1>10 DEF CtxOK, Fields
  <2>5. QED
    BY <2>3, <2>4
<1>12. QED
  BY <1>2, <1>6, <1>8, <1>9, <1>10, <1>11, KeepingFine

\* The VmCtx once its innermost block is closed.
LEMMA ClosedFacts ==
  ASSUME VmInv, NEW f \in Flows, Committing(f)
  PROVE  /\ running = f /\ Instr(ctx[f])[1] = "TransactCommit"
         /\ CtxOK(ctx[f], cell) /\ Sound(ctx[f].txns, cell) /\ IsSequence(ctx[f].handlers)
         /\ Len(ctx[f].txns) \in Nat \ {0} /\ Len(ctx[f].handlers) \in Nat \ {0}
         /\ Begins(Front(ctx[f].txns), ctx[f].txns) /\ Len(Front(ctx[f].txns)) = Len(ctx[f].txns) - 1
         /\ IsSequence(Front(ctx[f].handlers))
         /\ CtxOK(Closed(f), cell) /\ Closed(f).txns = Front(ctx[f].txns)
         /\ DOMAIN Closed(f) = Fields
<1>1. PICK c, h, ts, hs : c = ctx[f] /\ h = Here(f) /\ ts = c.txns /\ hs = c.handlers
  OBVIOUS
<1>2. /\ CtxOK(c, cell) /\ CtxOK(h, cell) /\ h.txns = ts /\ h.handlers = hs /\ running = f
      /\ Instr(c)[1] = "TransactCommit"
  BY <1>1, AtFacts DEF Committing, Alike
<1>3. Sound(ts, cell) /\ IsSequence(ts) /\ IsSequence(hs) /\ ts # <<>> /\ hs # <<>>
  BY <1>1, <1>2 DEF Committing, CtxOK, Sound
<1>4. Len(ts) \in Nat \ {0} /\ Len(hs) \in Nat \ {0}
  BY <1>3, LenProperties, EmptySeq DEF IsSequence
<1>5. PICK u, w, d : u = Front(ts) /\ w = Front(hs) /\ d = [h EXCEPT !.txns = u, !.handlers = w]
  OBVIOUS
<1>6. Begins(u, ts) /\ Len(u) = Len(ts) - 1
  BY ONLY <1>3, <1>4, <1>5, FrontBegins
<1>7. Begins(w, hs)
  BY ONLY <1>3, <1>4, <1>5, FrontBegins
<1>8. Sound(u, cell) /\ IsSequence(w)
  BY <1>3, <1>6, <1>7, PrefixSound DEF Begins
<1>9. CtxOK(d, cell) /\ d.txns = u /\ DOMAIN d = Fields
  BY <1>2, <1>5, <1>8 DEF CtxOK, Fields
<1>10. d = Closed(f)
  BY <1>1, <1>2, <1>5 DEF Closed
<1>11. QED
  BY <1>1, <1>2, <1>3, <1>4, <1>5, <1>6, <1>8, <1>9, <1>10

\* A nested commit.
LEMMA CommitNestedFine ==
  ASSUME VmInv, NEW f \in Flows, CommitNested(f)
  PROVE  Fine
<1>1. PICK ts, n, k, u : ts = ctx[f].txns /\ n = Len(ts) /\ k = Closed(f) /\ u = Front(ts)
  OBVIOUS
<1>2. Committing(f)
  BY DEF CommitNested
<1>3. /\ Sound(ts, cell) /\ n \in Nat /\ n > 1 /\ Begins(u, ts) /\ Len(u) = n - 1
      /\ CtxOK(k, cell) /\ k.txns = u /\ DOMAIN k = Fields
  BY <1>1, <1>2, ClosedFacts DEF CommitNested
<1>4. PICK m, x, w, d : /\ m = n - 1 /\ x = MergedTxn(ts[n - 1], ts[n]) /\ w = [u EXCEPT ![m] = x]
                        /\ d = [k EXCEPT !.txns = w]
  OBVIOUS
<1>5. IsSequence(u) /\ m \in 1..Len(u) /\ \A i \in 1..(n - 1) : u[i] = ts[i]
  BY <1>3, <1>4 DEF Begins
<1>6. Replaced(w, u, m, x)
  BY ONLY <1>4, <1>5, ExceptReplaced
<1>7. /\ IsSequence(w) /\ Len(w) = n - 1
      /\ \A i \in 1..(n - 1) : w[i] = IF i = n - 1 THEN MergedTxn(ts[n - 1], ts[n]) ELSE ts[i]
  BY <1>3, <1>4, <1>5, <1>6 DEF Replaced
<1>8. CellsOK(cell)
  BY DEF VmInv
<1>9. Sound(w, cell)
  BY ONLY <1>1, <1>3, <1>7, <1>8, MergeSound
<1>10. StaleIn(ts, cell) => StaleIn(w, cell)
  BY ONLY <1>1, <1>3, <1>7, <1>8, MergeSound
<1>11. CtxOK(d, cell) /\ d.txns = w
  BY <1>3, <1>4, <1>9 DEF CtxOK, Fields
<1>12. Become(f, d) /\ Control
  <2>1. u[m] = ts[n - 1] /\ Last(ts) = ts[n]
    BY <1>1, <1>3, <1>4, <1>5 DEF Last
  <2>2. [k EXCEPT !.txns[n - 1] = MergedTxn(@, Last(ts))] = d
    BY <1>3, <1>4, <2>1 DEF Fields
  <2>3. QED
    BY <1>1, <2>2 DEF CommitNested
<1>13. QED
  BY <1>1, <1>10, <1>11, <1>12, KeepingFine

\* The last commit, of an attempt whose reads are current.
LEMMA CommitApplyFine ==
  ASSUME VmInv, NEW f \in Flows, CommitApply(f)
  PROVE  Fine
<1>1. PICK ts, d : ts = ctx[f].txns /\ d = Closed(f)
  OBVIOUS
<1>2. Committing(f) /\ Len(ts) = 1 /\ ~Conflict(Last(ts)) /\ ctx' = [ctx EXCEPT ![f] = d]
  BY <1>1 DEF CommitApply, Become
<1>3. CtxOK(d, cell) /\ d.txns = Front(ts) /\ Len(Front(ts)) = 0 /\ IsSequence(Front(ts)) /\ running = f
  <2>1. /\ running = f /\ CtxOK(d, cell) /\ d.txns = Front(ts)
        /\ Begins(Front(ts), ts) /\ Len(Front(ts)) = Len(ts) - 1
    BY <1>1, <1>2, ClosedFacts
  <2>2. QED
    BY <1>2, <2>1 DEF Begins
<1>4. d.txns = <<>>
  BY <1>3, EmptySeq DEF IsSequence
<1>5. Last(ts) = ts[1]
  BY <1>2 DEF Last
<1>6. ~StaleIn(ts, cell)
  BY <1>2, <1>5 DEF StaleIn, Conflict
<1>7. /\ DOMAIN cell' = Cells
      /\ \A r \in Cells : cell'[r] = cell[r] \/ cell'[r].version = cell[r].version + 1
  BY DEF CommitApply, Changed
<1>8. running' = running
  BY DEF CommitApply
<1>9. QED
  BY <1>1, <1>2, <1>3, <1>4, <1>6, <1>7, <1>8, CommittingStep

\* The last commit, in vain.
LEMMA CommitConflictFine ==
  ASSUME VmInv, NEW f \in Flows, CommitConflict(f)
  PROVE  Fine
<1>1. PICK c, hs, n, a : /\ c = ctx[f] /\ hs = c.handlers /\ n = Len(hs)
                         /\ a = Last(hs).retryAddr
  OBVIOUS
<1>2. Committing(f) /\ Len(c.txns) = 1
  BY <1>1 DEF CommitConflict
<1>3. /\ CtxOK(c, cell) /\ IsSequence(hs) /\ n \in Nat \ {0} /\ CtxOK(Closed(f), cell) /\ GivesUp(f)
  BY <1>1, <1>2, ClosedFacts DEF GivesUp
<1>4. CtxOK(RuntimeError(Closed(f)), cell)
  BY <1>3, WellFormed
<1>5. PICK x, w, u : /\ x = [hs[n] EXCEPT !.retries = @ + 1] /\ w = [hs EXCEPT ![n] = x]
                     /\ u = <<EmptyTxn>>
  OBVIOUS
<1>6. IsSequence(w)
  <2>1. n \in 1..Len(hs)
    BY <1>1, <1>3
  <2>2. Replaced(w, hs, n, x)
    BY ONLY <1>3, <1>5, <2>1, ExceptReplaced
  <2>3. QED
    BY <2>2 DEF Replaced
<1>7. Sound(u, cell)
  <2>1. Sound(<<>>, cell) /\ u = Append(<<>>, EmptyTxn)
    BY <1>5, EmptySound
  <2>2. QED
    BY ONLY <2>1, BeginSound
<1>8. PICK d, e : d = [c EXCEPT !.handlers = w, !.txns = u] /\ e = Drop(d, 1)
  OBVIOUS
<1>9. CtxOK(SetIp(e, a), cell)
  <2>1. CtxOK(d, cell)
    BY ONLY <1>3, <1>6, <1>7, <1>8, OtherBlocks
  <2>2. CtxOK(e, cell)
    BY ONLY <1>8, <2>1, WellFormed
  <2>3. QED
    BY ONLY <2>2, WellFormed
<1>10. [c EXCEPT !.handlers[n].retries = @ + 1, !.txns = <<EmptyTxn>>] = d
  BY <1>1, <1>3, <1>5, <1>8 DEF CtxOK, Fields
<1>11. Control /\ \/ Become(f, RuntimeError(Closed(f)))
                  \/ Become(f, SetIp(e, a))
  BY <1>1, <1>8, <1>10 DEF CommitConflict
<1>12. QED
  BY <1>3, <1>4, <1>9, <1>11, GivingUpFine

\* The innermost context of f, and the VmCtx with another in its place.
LEMMA Innermost ==
  ASSUME NEW c, NEW cl, CtxOK(c, cl), c.txns # <<>>
  PROVE  /\ Len(c.txns) \in Nat \ {0} /\ Last(c.txns) = c.txns[Len(c.txns)]
         /\ DOMAIN c.txns[Len(c.txns)] = {"writes", "reads"}
         /\ c.txns[Len(c.txns)].reads \in [Cells -> Nat \cup {None}]
         /\ Sound(c.txns, cl) /\ DOMAIN c = Fields
<1>1. Sound(c.txns, cl) /\ IsSequence(c.txns) /\ DOMAIN c = Fields
  BY DEF CtxOK, Sound
<1>2. Len(c.txns) \in Nat \ {0}
  BY <1>1, LenProperties, EmptySeq DEF IsSequence
<1>3. QED
  BY <1>1, <1>2 DEF Sound, Last

\* load_global: a read of a cell that is not buffered is recorded at the
\* version that is current.
LEMMA LoadGlobalFine ==
  ASSUME VmInv, NEW f \in Flows, LoadGlobal(f)
  PROVE  Fine
<1>1. PICK c, h, r, k, v : /\ c = ctx[f] /\ h = Here(f) /\ r = Arg(f, 1)
                           /\ k = Recorded(h, r) /\ v = ReadShared(c, r)
  OBVIOUS
<1>2. CtxOK(h, cell) /\ h.txns = c.txns
  BY <1>1, AtFacts DEF LoadGlobal, Alike
<1>3. CtxOK(k, cell) /\ (StaleIn(h.txns, cell) => StaleIn(k.txns, cell))
  <2>1. CASE k = h
    BY <1>2, <2>1
  <2>2. CASE k # h
    <3>1. PICK ts, n, t, x, u : /\ ts = h.txns /\ n = Len(ts) /\ t = ts[n]
                                /\ x = [t EXCEPT !.reads[r] = cell[r].version]
                                /\ u = [ts EXCEPT ![n] = x]
      OBVIOUS
    <3>2. ts # <<>> /\ Last(ts).reads[r] = None /\ k = [h EXCEPT !.txns[n].reads[r] = cell[r].version]
      BY <1>1, <2>2, <3>1 DEF Recorded
    <3>3. /\ n \in Nat \ {0} /\ t.reads[r] = None /\ DOMAIN t = {"writes", "reads"}
          /\ t.reads \in [Cells -> Nat \cup {None}] /\ Sound(ts, cell) /\ DOMAIN h = Fields
      BY <1>2, <3>1, <3>2, Innermost
    <3>4. k = [h EXCEPT !.txns = u]
      BY <3>1, <3>2, <3>3 DEF Fields
    <3>5. /\ DOMAIN x = {"writes", "reads"}
          /\ x.reads = [t.reads EXCEPT ![r] = cell[r].version]
      BY <3>1, <3>3
    <3>6. CellsOK(cell)
      BY DEF VmInv
    <3>7. /\ x.reads \in [Cells -> Nat \cup {None}]
          /\ \A s \in Cells : ts[n].reads[s] # None => x.reads[s] = ts[n].reads[s]
          /\ \A s \in Cells : ts[n].reads[s] = None => x.reads[s] \in {None, cell[s].version}
      BY <3>1, <3>3, <3>5, <3>6 DEF CellsOK
    <3>8. n = Len(ts) /\ n # 0 /\ u = [ts EXCEPT ![n] = x]
      BY <3>1, <3>3
    <3>9. Sound(u, cell)
      BY ONLY <3>3, <3>5, <3>6, <3>7, <3>8, InnermostSound
    <3>10. StaleIn(ts, cell) => StaleIn(u, cell)
      BY ONLY <3>3, <3>5, <3>6, <3>7, <3>8, InnermostSound
    <3>11. CtxOK(k, cell) /\ k.txns = u
      BY <1>2, <3>3, <3>4, <3>9 DEF CtxOK, Fields
    <3>12. QED
      BY <3>1, <3>10, <3>11
  <2>3. QED
    BY <2>1, <2>2
<1>4. CtxOK(Push(k, v), cell) /\ Push(k, v).txns = k.txns
  <2>1. CtxOK(Push(k, v), cell)
    BY <1>3, WellFormed
  <2>2. Push(k, v).txns = k.txns
    BY <1>3 DEF CtxOK, Fields, Push
  <2>3. QED
    BY <2>1, <2>2
<1>5. Become(f, Push(k, v)) /\ Control
  BY <1>1 DEF LoadGlobal
<1>6. QED
  BY <1>1, <1>2, <1>3, <1>4, <1>5, KeepingFine

\* assign_global.
LEMMA AssignGlobalFine ==
  ASSUME VmInv, NEW f \in Flows, AssignGlobal(f)
  PROVE  Fine
<1>1. PICK h, c, r, v : h = Here(f) /\ c = Drop(h, 1) /\ r = Arg(f, 1) /\ v = Operand(f)
  OBVIOUS
<1>2. CtxOK(h, cell) /\ h.txns = ctx[f].txns /\ running = f
  BY <1>1, AtFacts DEF AssignGlobal, Alike
<1>3. CtxOK(c, cell) /\ c.txns = ctx[f].txns /\ DOMAIN c = Fields
  <2>1. CtxOK(c, cell)
    BY <1>1, <1>2, WellFormed
  <2>2. c.txns = h.txns /\ DOMAIN c = Fields
    BY <1>1, <1>2 DEF CtxOK, Fields, Drop
  <2>3. QED
    BY <1>2, <2>1, <2>2
<1>4. UNCHANGED <<running, coins, log>>
  BY DEF AssignGlobal
<1>5. CASE c.txns # <<>>
  <2>1. PICK ts, n, t, x, u : /\ ts = c.txns /\ n = Len(ts) /\ t = ts[n]
                              /\ x = [t EXCEPT !.writes[r] = v] /\ u = [ts EXCEPT ![n] = x]
    OBVIOUS
  <2>2. /\ n \in Nat \ {0} /\ DOMAIN t = {"writes", "reads"}
        /\ t.reads \in [Cells -> Nat \cup {None}] /\ Sound(ts, cell)
    BY <1>3, <1>5, <2>1, Innermost
  <2>3. PICK d : d = [c EXCEPT !.txns = u]
    OBVIOUS
  <2>4. Become(f, d) /\ cell' = cell
    <3>1. [c EXCEPT !.txns[Len(c.txns)].writes[r] = v] = d
      BY <1>3, <2>1, <2>2, <2>3 DEF Fields
    <3>2. QED
      BY <1>1, <1>5, <3>1 DEF AssignGlobal
  <2>5. DOMAIN x = {"writes", "reads"} /\ x.reads = t.reads
    BY <2>1, <2>2
  <2>6. CellsOK(cell)
    BY DEF VmInv
  <2>7. /\ x.reads \in [Cells -> Nat \cup {None}]
        /\ \A s \in Cells : ts[n].reads[s] # None => x.reads[s] = ts[n].reads[s]
        /\ \A s \in Cells : ts[n].reads[s] = None => x.reads[s] \in {None, cell[s].version}
        /\ n = Len(ts) /\ n # 0 /\ u = [ts EXCEPT ![n] = x]
    BY <2>1, <2>2, <2>5
  <2>8. Sound(u, cell)
    BY ONLY <2>2, <2>5, <2>6, <2>7, InnermostSound
  <2>9. StaleIn(ts, cell) => StaleIn(u, cell)
    BY ONLY <2>2, <2>5, <2>6, <2>7, InnermostSound
  <2>10. CtxOK(d, cell) /\ d.txns = u
    BY <1>3, <2>3, <2>8 DEF CtxOK, Fields
  <2>11. QED
    BY <1>3, <1>4, <2>1, <2>4, <2>9, <2>10, KeepingFine DEF Control
<1>6. CASE c.txns = <<>>
  <2>1. ctx' = [ctx EXCEPT ![f] = c] /\ cell' = [cell EXCEPT ![r] = Changed(@, v)]
    BY <1>1, <1>6 DEF AssignGlobal, Become
  <2>2. DOMAIN cell = Cells
    BY DEF VmInv, CellsOK
  <2>3. DOMAIN cell' = Cells /\ \A s \in Cells : cell'[s] = cell[s] \/ cell'[s].version = cell[s].version + 1
    BY <2>1, <2>2 DEF Changed
  <2>4. ~StaleIn(ctx[f].txns, cell)
    <3>1. 1..Len(ctx[f].txns) = {}
      BY <1>3, <1>6, EmptySound
    <3>2. QED
      BY <3>1 DEF StaleIn
  <2>5. running' = running
    BY <1>4
  <2>6. QED
    BY <1>2, <1>3, <1>6, <2>1, <2>3, <2>4, <2>5, CommittingStep
<1>7. QED
  BY <1>5, <1>6
-----------------------------------------------------------------------------
(* The theorems.                                                            *)

\* Every flow starts in one frame, with nothing open.
LEMMA VmInvInit ==
  FInit => VmInv
<1>1. SUFFICES ASSUME FInit PROVE VmInv
  OBVIOUS
<1>2. PICK code : InitWith(code)
  BY <1>1 DEF FInit
<1>3. running \in Flows /\ CellsOK(cell) /\ DOMAIN ctx = Flows
  BY <1>2, VmAssumption DEF InitWith, CellsOK
<1>4. ASSUME NEW f \in Flows PROVE CtxOK(ctx[f], cell)
  <2>1. PICK x : x = [code |-> code[f], ip |-> 1, base |-> 0, upvalues |-> <<>>]
    OBVIOUS
  <2>2. PICK c : c = ctx[f]
    OBVIOUS
  <2>3. c = NewCtx(code[f])
    BY <1>2, <2>2 DEF InitWith
  <2>4. /\ DOMAIN c = Fields /\ c.frames = <<x>> /\ c.handlers = <<>> /\ c.excs = <<>> /\ c.txns = <<>>
    BY <2>1, <2>3 DEF NewCtx, Fields
  <2>5. IsSequence(<<x>>) /\ Len(<<x>>) = 1 /\ <<x>> # <<>>
    <3>1. <<x>> \in Seq({x})
      OBVIOUS
    <3>2. IsSequence(<<x>>)
      BY <3>1, OwnSet
    <3>3. QED
      BY <3>2
  <2>6. IsSequence(<<>>) /\ Sound(<<>>, cell) /\ 1..Len(<<>>) = {}
    BY EmptySound
  <2>7. Nested(<<>>, 1)
    BY <2>6 DEF Nested
  <2>8. QED
    BY <2>2, <2>4, <2>5, <2>6, <2>7 DEF CtxOK
<1>5. QED
  BY <1>3, <1>4 DEF VmInv

\* Every instruction keeps the invariant, and commits nothing stale.
LEMMA VmStep ==
  VmInv /\ [FNext]_fvars => Fine
<1>1. SUFFICES ASSUME VmInv, [FNext]_fvars PROVE Fine
  OBVIOUS
<1>2. CASE UNCHANGED fvars
  BY <1>1, <1>2, IdleFine DEF fvars, vars, VmInv
<1>3. ASSUME NEW f \in Flows,
             \/ Underflow(f) \/ Const(f) \/ Swap(f) \/ Pop(f) \/ PopN(f) \/ LoadLocal(f) \/ StoreLocal(f)
             \/ AssignLocal(f) \/ Match(f) \/ NewVec(f) \/ ConstructVariant(f) \/ Add(f) \/ Less(f)
             \/ Increment(f)
      PROVE  Fine
  BY <1>1, <1>3, OperandsCalm, CalmFine
<1>4. ASSUME NEW f \in Flows,
             \/ PopLocalKeep(f) \/ LoadUpvalue(f) \/ AssignUpvalue(f) \/ Jump(f) \/ Coin(f) \/ Say(f)
             \/ Closure(f) \/ PushLoop(f) \/ PopLoop(f) \/ Break(f) \/ Continue(f) \/ RescueMatch(f)
             \/ ClearPending(f) \/ CommitPanic(f) \/ CallBuiltin(f) \/ Reply(f) \/ Await(f)
      PROVE  Fine
  BY <1>1, <1>4, OthersCalm, CalmFine
<1>5. ASSUME NEW f \in Flows,
             \/ Call(f) \/ Return(f) \/ PushTry(f) \/ PopTry(f) \/ Raise(f) \/ EnsureExit(f)
      PROVE  Fine
  BY <1>1, <1>5, CallFine, ReturnFine, PushTryFine, PopTryFine, RaiseFine
<1>6. ASSUME NEW f \in Flows,
             \/ PushTransact(f) \/ CommitNested(f) \/ CommitApply(f) \/ CommitConflict(f)
             \/ Retry(f) \/ LoadGlobal(f) \/ AssignGlobal(f)
      PROVE  Fine
  BY <1>1, <1>6, PushTransactFine, CommitNestedFine, CommitApplyFine, CommitConflictFine,
     RetryFine, LoadGlobalFine, AssignGlobalFine
<1>7. ASSUME NEW f \in Flows, Resume(f) PROVE Fine
  BY <1>1, <1>7, IdleFine DEF Resume
<1>8. CASE FNext
  BY <1>3, <1>4, <1>5, <1>6, <1>7, <1>8 DEF FNext, Next
<1>9. QED
  BY <1>1, <1>2, <1>8

\* In every state: what a context has read is no newer than the cell, and no
\* older than what the contexts around it have read of the same cell; the
\* exception handlers nest as the frames do.
THEOREM VmInvariant == FSpec => []VmInv
<1>1. VmInv /\ [FNext]_fvars => VmInv'
  BY VmStep DEF Fine
<1>2. QED
  BY VmInvInit, <1>1, PTL DEF FSpec

\* TransactCommit with validate_reads and apply: whatever the code, a flow that
\* has read a version another flow has since replaced stays stale, until it
\* gives the read up, and no step sets a cell but of a flow that is not.
THEOREM StaleReadsNeverCommit == FSpec => StaleNeverCommits
<1>1. VmInv /\ [FNext]_fvars => [NeverCommits]_vars
  BY VmStep DEF Fine
<1>2. VmInv /\ [FNext]_fvars => VmInv'
  BY VmStep DEF Fine
<1>3. QED
  BY VmInvInit, <1>1, <1>2, PTL DEF FSpec, StaleNeverCommits, NeverCommits

\* PushTry, return_from_frame and handle_signal: the exception handlers of
\* every flow nest as its frames do, and none outlives its frame.
THEOREM TryHandlersStayNested == FSpec => [](\A f \in Flows : TryHandlersNest(f))
<1>1. ASSUME VmInv, NEW f \in Flows PROVE TryHandlersNest(f)
  <2>1. PICK ex, n : ex = ctx[f].excs /\ n = Depth(ctx[f])
    OBVIOUS
  <2>2. Nested(ex, n) /\ IsSequence(ex)
    BY <1>1, <2>1 DEF VmInv, CtxOK, Nested, Depth
  <2>3. DOMAIN ex = 1..Len(ex) /\ Len(ex) \in Nat
    BY <2>2, LenProperties DEF IsSequence
  <2>4. \A i \in 1..Len(ex) : ex[i].frame <= n /\ \A j \in 1..(i - 1) : ex[j].frame <= ex[i].frame
    BY <2>2, <2>3 DEF Nested
  <2>5. QED
    BY <2>1, <2>3, <2>4 DEF TryHandlersNest
<1>2. VmInv => \A f \in Flows : TryHandlersNest(f)
  BY <1>1
<1>3. QED
  BY VmInvariant, <1>2, PTL
=============================================================================
