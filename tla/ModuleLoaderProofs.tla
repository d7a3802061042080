------------------------- MODULE ModuleLoaderProofs -------------------------
(* Proofs about ModuleLoader, for any programs: while no rescued raise has  *)
(* ended the load of a file, the load stack is the chain of the files that  *)
(* are being evaluated, no file is evaluated twice, and the names a file has *)
(* defined stay as it defined them; no import is refused as circular but of *)
(* a file in a circle, or whose load was aborted; and a file exports nothing *)
(* but names it and, on the VM, the files it reaches speak of.              *)
EXTENDS ModuleLoader, SequenceFacts, TLAPS

FrameFields == {"file", "at", "snapshot"}

\* Every variable has its part for each of the backends.
Shapes ==
  /\ DOMAIN frames = Backends /\ DOMAIN loading = Backends /\ DOMAIN cache = Backends
  /\ DOMAIN aborted = Backends /\ DOMAIN evaluated = Backends
  /\ \A m \in Backends : DOMAIN evaluated[m] = DOMAIN files

Stacked(m) ==
  /\ IsSequence(frames[m]) /\ frames[m] # <<>>
  /\ \A k \in 1..Len(frames[m]) : DOMAIN frames[m][k] = FrameFields

Chain(m) == loading[m] = [k \in 1..Len(frames[m]) - 1 |-> frames[m][k + 1].file]

\* A file that has been evaluated is cached, or still being evaluated.
Accounted(m) ==
  \A f \in DOMAIN files :
    /\ evaluated[m][f] \in {0, 1}
    /\ evaluated[m][f] = 1 =>
         f \in DOMAIN cache[m] \/ \E k \in 2..Len(frames[m]) : frames[m][k].file = f

LoadInv ==
  /\ Shapes
  /\ \A m \in Backends : aborted[m] = {} => Stacked(m) /\ Chain(m) /\ Accounted(m)
-----------------------------------------------------------------------------
\* A running backend begins in the entry file, with no module on its stack.
LEMMA LoadInit ==
  ASSUME Init
  PROVE  LoadInv
<1>1. Shapes
  BY DEF Init, Shapes
<1>2. ASSUME NEW m \in Backends PROVE Stacked(m) /\ Chain(m) /\ Accounted(m)
  <2> DEFINE b == Begin("main", Nothing)
  <2>1. DOMAIN b = FrameFields
    BY DEF Begin, FrameFields
  <2>2. frames[m] = <<b>> /\ loading[m] = <<>>
    BY <1>2 DEF Init
  <2> HIDE DEF b
  <2>3. <<b>> \in Seq({b}) /\ Len(<<b>>) = 1 /\ <<b>>[1] = b /\ <<b>> # <<>>
    OBVIOUS
  <2>4. Stacked(m)
    <3>1. IsSequence(frames[m])
      BY <2>2, <2>3, OwnSet
    <3>2. QED
      BY <2>1, <2>2, <2>3, <3>1 DEF Stacked
  <2>5. Chain(m)
    <3>1. 1..Len(frames[m]) - 1 = {}
      BY <2>2, <2>3
    <3>2. loading[m] = [k \in {} |-> frames[m][k + 1].file]
      BY <2>2
    <3>3. QED
      BY <3>1, <3>2 DEF Chain
  <2>6. Accounted(m)
    BY <1>2 DEF Init, Accounted
  <2>7. QED
    BY <2>4, <2>5, <2>6
<1>3. QED
  BY <1>1, <1>2 DEF LoadInv

\* The frames after a step hold the files they held.
SameFiles(m) ==
  /\ IsSequence(frames'[m]) /\ frames'[m] # <<>> /\ Len(frames'[m]) = Len(frames[m])
  /\ \A k \in 1..Len(frames[m]) :
       DOMAIN frames'[m][k] = FrameFields /\ frames'[m][k].file = frames[m][k].file

\* A step that holds the same files and loads nothing keeps the invariant of
\* its backend.
LEMMA SameFilesKeep ==
  ASSUME Shapes, NEW m \in Backends, Stacked(m), Chain(m), Accounted(m), SameFiles(m),
         files' = files, loading' = loading, cache' = cache, evaluated' = evaluated
  PROVE  Stacked(m)' /\ Chain(m)' /\ Accounted(m)'
<1>1. Len(frames[m]) \in Nat
  BY LenProperties DEF Stacked, IsSequence
<1>2. Stacked(m)'
  BY DEF SameFiles, Stacked
<1>3. Chain(m)'
  <2>1. \A k \in 1..Len(frames[m]) - 1 : k + 1 \in 1..Len(frames[m])
    BY <1>1
  <2>2. [k \in 1..Len(frames'[m]) - 1 |-> frames'[m][k + 1].file]
          = [k \in 1..Len(frames[m]) - 1 |-> frames[m][k + 1].file]
    BY <2>1 DEF SameFiles
  <2>3. QED
    BY <2>2 DEF Chain
<1>4. Accounted(m)'
  <2>1. \A k \in 2..Len(frames[m]) : frames'[m][k].file = frames[m][k].file
    BY <1>1 DEF SameFiles
  <2>2. QED
    BY <2>1 DEF Accounted, SameFiles
<1>5. QED
  BY <1>2, <1>3, <1>4

\* The last frame is replaced by one of the same file.
LEMMA LastReplaced ==
  ASSUME NEW m \in Backends, Stacked(m), NEW x, DOMAIN x = FrameFields, x.file = Last(frames[m]).file,
         frames'[m] = Front(frames[m]) \o <<x>>
  PROVE  SameFiles(m)
<1> DEFINE s == frames[m]
           u == frames'[m]
<1>1. IsSequence(s) /\ s # <<>> /\ u = Front(s) \o <<x>>
  BY DEF Stacked
<1>2. Last(s) = s[Len(s)]
  BY DEF Last
<1>3. \A k \in 1..Len(s) : DOMAIN s[k] = FrameFields
  BY DEF Stacked
<1>4. x.file = Last(s).file
  OBVIOUS
<1> HIDE DEF s, u
<1>5. IsSequence(u)
  BY ONLY <1>1, ReplaceLast
<1>5a. Len(s) \in Nat \ {0}
  BY ONLY <1>1, ReplaceLast
<1>5b. Len(u) = Len(s)
  BY ONLY <1>1, ReplaceLast
<1>6. Len(s) \in Nat \ {0} /\ Len(u) = Len(s)
  BY <1>5a, <1>5b
<1>7. \A k \in 1..Len(s) : u[k] = IF k = Len(s) THEN x ELSE s[k]
  BY ONLY <1>1, ReplaceLast
<1>8. u # <<>>
  BY <1>6, EmptySeq
<1>9. \A k \in 1..Len(s) : DOMAIN u[k] = FrameFields /\ u[k].file = s[k].file
  BY <1>2, <1>3, <1>4, <1>7
<1>10. QED
  BY <1>5, <1>6, <1>8, <1>9 DEF SameFiles, s, u

\* Every statement but an import leaves the files as they are.
LEMMA ProceedKeeps ==
  ASSUME Shapes, NEW m \in Backends, Stacked(m), NEW s2, NEW t2, Proceed(m, s2, t2)
  PROVE  SameFiles(m)
<1> DEFINE x == Ahead(Frame(m))
<1>1. frames'[m] = Front(frames[m]) \o <<x>>
  BY DEF Proceed, Advanced, Shapes
<1>2. DOMAIN Last(frames[m]) = FrameFields
  <2>1. Len(frames[m]) \in Nat \ {0}
    BY EmptySeq DEF Stacked, IsSequence
  <2>2. QED
    BY <2>1 DEF Stacked, Last
<1>3. DOMAIN x = FrameFields /\ x.file = Last(frames[m]).file
  BY <1>2 DEF FrameFields, Ahead, Frame
<1> HIDE DEF x
<1>4. QED
  BY <1>1, <1>3, LastReplaced

\* Where the needed file comes from, it is not loaded yet.
LEMMA NeededNotLoaded ==
  ASSUME NEW m \in Backends, NEW f \in Needed(m)
  PROVE  f \notin DOMAIN cache[m]
<1>1. ASSUME NEW v, Forced(m, v).kind = "lazy" PROVE Forced(m, v).of \notin DOMAIN cache[m]
  <2>1. Module(v.of).kind # "lazy"
    BY DEF Module
  <2>2. QED
    BY <1>1, <2>1 DEF Forced, Loaded
<1>2. Stmt(m).op = "import" \/ \E v : f = Forced(m, v).of /\ Forced(m, v).kind = "lazy"
  BY DEF Needed, Named, Read
<1>3. CASE Stmt(m).op = "import"
  BY <1>3 DEF Needed
<1>4. QED
  BY <1>1, <1>2, <1>3
\* The other backend's part of the state is left alone.
Others(m) ==
  \A o \in Backends \ {m} :
    /\ frames'[o] = frames[o] /\ loading'[o] = loading[o] /\ cache'[o] = cache[o]
    /\ evaluated'[o] = evaluated[o] /\ aborted'[o] = aborted[o]

\* What only reads, defines or calls goes on in the same files, or fails.
LEMMA PlainStep ==
  ASSUME NEW m \in Backends,
         Let(m) \/ FuncDef(m) \/ LazyImport(m) \/ Import(m) \/ Use(m) \/ Call(m)
  PROVE  (\E s2, t2 : Proceed(m, s2, t2)) \/ Fail(m)
<1>1. CASE Let(m)
  BY <1>1 DEF Let
<1>2. CASE FuncDef(m)
  BY <1>2 DEF FuncDef
<1>3. CASE LazyImport(m)
  BY <1>3 DEF LazyImport
<1>4. CASE Import(m)
  BY <1>4 DEF Import
<1>5. CASE Use(m)
  <2>1. Fail(m) \/ Proceed(m, Rebound(m), <<Member(m)>>)
    BY <1>5 DEF Use
  <2>2. QED
    BY <2>1
<1>6. CASE Call(m)
  <2>1. \/ Fail(m)
        \/ \E t2 : Proceed(m, Recalled(m), t2)
        \/ \E s2 : Proceed(m, s2, <<>>)
    BY <1>6 DEF Call
  <2>2. QED
    BY <2>1
<1>7. QED
  BY <1>1, <1>2, <1>3, <1>4, <1>5, <1>6

\* A raise that aborts no load unwinds to the frame it is raised in.
LEMMA RaisedHere ==
  ASSUME Shapes, NEW m \in Backends, Stacked(m), Raise(m), ~Fail(m), aborted'[m] = {}
  PROVE  frames'[m] = Front(frames[m]) \o <<Ahead(Last(frames[m]))>>
<1> DEFINE h == Handler(m)
           n == Len(frames[m])
<1>1. h # 0
  BY DEF Raise
<1>2. /\ frames'[m] = SubSeq(frames[m], 1, h - 1) \o <<Ahead(frames[m][h])>>
      /\ aborted'[m] = aborted[m] \cup {frames[m][k].file : k \in h + 1..n}
  BY <1>1 DEF Raise, Shapes
<1>3. n \in Nat \ {0}
  BY EmptySeq DEF Stacked, IsSequence
<1>4. h \in 1..n
  <2> DEFINE T == {k \in 1..n : files[frames[m][k].file][frames[m][k].at].guarded}
  <2>1. h = IF T = {} THEN 0 ELSE CHOOSE k \in T : \A j \in T : j <= k
    BY DEF Handler
  <2>2. T # {} => \E k \in T : \A j \in T : j <= k
    BY <1>3, GreatestExists
  <2>3. T \subseteq 1..n
    OBVIOUS
  <2> HIDE DEF T, h
  <2>4. QED
    BY <1>1, <2>1, <2>2, <2>3
<1> HIDE DEF h
<1>5. h = n
  <2>1. {frames[m][k].file : k \in h + 1..n} = {}
    BY <1>2
  <2>2. h + 1 \notin h + 1..n
    BY <2>1
  <2>3. QED
    BY <1>3, <1>4, <2>2
<1>6. QED
  BY <1>2, <1>5 DEF Front, Last

\* Or it fails.
LEMMA RaiseStays ==
  ASSUME Shapes, NEW m \in Backends, Stacked(m), Raise(m), aborted'[m] = {}
  PROVE  \/ Fail(m)
         \/ /\ SameFiles(m)
            /\ UNCHANGED <<files, loading, cache, evaluated>>
<1>1. SUFFICES ASSUME ~Fail(m)
               PROVE  SameFiles(m) /\ UNCHANGED <<files, loading, cache, evaluated>>
  OBVIOUS
<1>2. UNCHANGED <<files, loading, cache, evaluated>>
  BY <1>1 DEF Raise
<1>3. frames'[m] = Front(frames[m]) \o <<Ahead(Last(frames[m]))>>
  BY <1>1, RaisedHere
<1>4. Len(frames[m]) \in Nat \ {0}
  BY EmptySeq DEF Stacked, IsSequence
<1>5. DOMAIN Last(frames[m]) = FrameFields
  BY <1>4 DEF Stacked, Last
<1>6. DOMAIN Ahead(Last(frames[m])) = FrameFields /\ Ahead(Last(frames[m])).file = Last(frames[m]).file
  BY <1>5 DEF FrameFields, Ahead
<1>7. SameFiles(m)
  BY <1>3, <1>6, LastReplaced
<1>8. QED
  BY <1>2, <1>7

\* A file is entered when it is neither cached nor being evaluated: for the
\* first time.
LEMMA EnterKeeps ==
  ASSUME Shapes, NEW m \in Backends, Stacked(m), Chain(m), Accounted(m), Enter(m)
  PROVE  Fail(m) \/ (Stacked(m)' /\ Chain(m)' /\ Accounted(m)')
<1>1. SUFFICES ASSUME ~Fail(m) PROVE Stacked(m)' /\ Chain(m)' /\ Accounted(m)'
  OBVIOUS
<1>2. PICK f \in Needed(m) :
        /\ Readable(f) /\ ~InProgress(m, f)
        /\ frames' = [frames EXCEPT ![m] = Append(@, Begin(f, Opened(m, f)[m][Home(m, f)]))]
        /\ loading' = [loading EXCEPT ![m] = Append(@, f)]
        /\ evaluated' = [evaluated EXCEPT ![m][f] = @ + 1]
        /\ UNCHANGED <<files, cache>>
  BY <1>1 DEF Enter
<1> DEFINE b == Begin(f, Opened(m, f)[m][Home(m, f)])
           s == frames[m]
           u == frames'[m]
           p == loading[m]
           q == loading'[m]
<1>3. DOMAIN b = FrameFields /\ b.file = f
  BY DEF Begin, FrameFields
<1>4. IsSequence(s) /\ u = Append(s, b)
  BY <1>2 DEF Stacked, Shapes
<1>5. q = Append(p, f)
  BY <1>2 DEF Shapes
<1>6. p = [k \in 1..Len(s) - 1 |-> s[k + 1].file]
  BY DEF Chain
<1>7. \A k \in 1..Len(s) : DOMAIN s[k] = FrameFields
  BY DEF Stacked
<1>8. s # <<>>
  BY DEF Stacked
<1> HIDE DEF b, s, u
<1>9. IsSequence(u)
  BY ONLY <1>4, AppendOne
<1>10. Len(u) = Len(s) + 1
  BY ONLY <1>4, AppendOne
<1>11. u[Len(s) + 1] = b
  BY ONLY <1>4, AppendOne
<1>12. \A k \in 1..Len(s) : u[k] = s[k]
  BY ONLY <1>4, AppendOne
<1>13. Len(s) \in Nat \ {0}
  BY <1>4, <1>8, EmptySeq DEF IsSequence
<1>14. PICK n \in Nat : n = Len(s) - 1
  BY <1>13
<1>15. IsSequence(p) /\ Len(p) = n /\ \A k \in 1..n : p[k] = s[k + 1].file
  <2> DEFINE e(k) == s[k + 1].file
             T == {e(k) : k \in 1..n}
  <2>1. p = [k \in 1..n |-> e(k)]
    BY <1>6, <1>14
  <2>2. \A k \in 1..n : e(k) \in T
    OBVIOUS
  <2>3. \A k \in 1..n : p[k] = e(k)
    BY <2>1
  <2> HIDE DEF e, T, p
  <2>4. [k \in 1..n |-> e(k)] \in Seq(T)
    BY <2>2, IsASeq
  <2>5. p \in Seq(T)
    BY <2>1, <2>4
  <2>6. Len(p) = n
    BY <2>1, <2>5, LenProperties
  <2>7. QED
    BY <2>3, <2>5, <2>6, OwnSet DEF e
<1> HIDE DEF p, q
<1>16. IsSequence(q)
  BY ONLY <1>5, <1>15, AppendOne
<1>17. Len(q) = n + 1
  BY ONLY <1>5, <1>15, AppendOne
<1>18. q[n + 1] = f
  BY ONLY <1>5, <1>15, AppendOne
<1>19. \A k \in 1..n : q[k] = p[k]
  BY ONLY <1>5, <1>15, AppendOne
<1>20. Stacked(m)'
  <2>1. u # <<>>
    BY <1>10, <1>13, EmptySeq
  <2>2. \A k \in 1..Len(u) : DOMAIN u[k] = FrameFields
    BY <1>3, <1>7, <1>10, <1>11, <1>12, <1>13
  <2>3. QED
    BY <1>9, <2>1, <2>2 DEF Stacked, u
<1>21. Chain(m)'
  <2>1. q = [k \in 1..n + 1 |-> q[k]]
    BY <1>16, <1>17, LenProperties DEF IsSequence
  <2>2. \A k \in 1..n + 1 : q[k] = u[k + 1].file
    <3>1. ASSUME NEW k \in 1..n + 1 PROVE q[k] = u[k + 1].file
      <4>1. CASE k = n + 1
        BY <1>3, <1>11, <1>14, <1>13, <1>18, <4>1
      <4>2. CASE k # n + 1
        BY <1>12, <1>13, <1>14, <1>15, <1>19, <4>2
      <4>3. QED
        BY <4>1, <4>2
    <3>2. QED
      BY <3>1
  <2>3. 1..Len(u) - 1 = 1..n + 1
    BY <1>10, <1>13, <1>14
  <2>4. q = [k \in 1..Len(u) - 1 |-> u[k + 1].file]
    BY <2>1, <2>2, <2>3
  <2>5. QED
    BY <2>4 DEF Chain, q, u
<1>22. Accounted(m)'
  <2>1. f \in DOMAIN files
    BY <1>2 DEF Readable
  <2>2. f \notin DOMAIN cache[m]
    BY NeededNotLoaded
  <2>3. \A k \in 2..Len(s) : s[k].file # f
    <3>1. ASSUME NEW k \in 2..Len(s), s[k].file = f PROVE FALSE
      <4>1. k - 1 \in 1..n /\ p[k - 1] = f
        BY <1>13, <1>14, <1>15, <3>1
      <4>2. f \in ToSet(p)
        BY <1>15, <4>1, ToSetDef DEF IsSequence
      <4>3. QED
        BY <1>2, <4>2 DEF InProgress, p
    <3>2. QED
      BY <3>1
  <2>4. evaluated[m][f] = 0
    BY <2>1, <2>2, <2>3 DEF Accounted, s
  <2>5. /\ DOMAIN evaluated[m] = DOMAIN files /\ evaluated'[m] = [evaluated[m] EXCEPT ![f] = @ + 1]
        /\ files' = files /\ cache' = cache
    BY <1>2 DEF Shapes
  <2>6. evaluated'[m][f] = 1
    BY <2>1, <2>4, <2>5
  <2>7. Len(s) + 1 \in 2..Len(u) /\ u[Len(s) + 1].file = f
    BY <1>3, <1>10, <1>11, <1>13
  <2>8. ASSUME NEW g \in DOMAIN files, g # f, evaluated[m][g] = 1, g \notin DOMAIN cache[m]
        PROVE  \E k \in 2..Len(u) : u[k].file = g
    <3>1. PICK k \in 2..Len(s) : s[k].file = g
      BY <2>8 DEF Accounted, s
    <3>2. k \in 2..Len(u) /\ u[k].file = g
      BY <1>10, <1>12, <1>13, <3>1
    <3>3. QED
      BY <3>2
  <2>9. \A g \in DOMAIN files : g # f => evaluated'[m][g] = evaluated[m][g]
    BY <2>1, <2>5
  <2>10. \A g \in DOMAIN files :
           /\ evaluated'[m][g] \in {0, 1}
           /\ evaluated'[m][g] = 1 => g \in DOMAIN cache[m] \/ \E k \in 2..Len(u) : u[k].file = g
    <3>1. ASSUME NEW g \in DOMAIN files
          PROVE  /\ evaluated'[m][g] \in {0, 1}
                 /\ evaluated'[m][g] = 1 => g \in DOMAIN cache[m] \/ \E k \in 2..Len(u) : u[k].file = g
      <4>1. CASE g = f
        BY <2>6, <2>7, <4>1
      <4>2. CASE g # f
        <5>1. evaluated[m][g] \in {0, 1}
          BY DEF Accounted
        <5>2. QED
          BY <2>8, <2>9, <4>2, <5>1
      <4>3. QED
        BY <4>1, <4>2
    <3>2. QED
      BY <3>1
  <2>11. QED
    BY <2>5, <2>10 DEF Accounted, u
<1>23. QED
  BY <1>20, <1>21, <1>22

\* A module that ends goes from the stack into the cache.
LEMMA EndKeeps ==
  ASSUME Shapes, NEW m \in Backends, Stacked(m), Chain(m), Accounted(m), EndOfFile(m),
         Len(frames[m]) # 1
  PROVE  Stacked(m)' /\ Chain(m)' /\ Accounted(m)'
<1> DEFINE s == frames[m]
           u == frames'[m]
           p == loading[m]
           q == loading'[m]
<1>1. IsSequence(s) /\ s # <<>> /\ \A k \in 1..Len(s) : DOMAIN s[k] = FrameFields
  BY DEF Stacked
<1>2. Len(s) \in Nat \ {0, 1}
  BY <1>1, EmptySeq DEF IsSequence
<1>3. u = Front(s) /\ q = Front(p) /\ files' = files /\ evaluated' = evaluated
  BY DEF EndOfFile, Popped, Shapes
<1>4. cache'[m] = Bound(Last(s).file, Exports(m), cache[m])
  BY DEF EndOfFile, Shapes, InFile, Frame
<1>5. DOMAIN cache'[m] = {Last(s).file} \cup DOMAIN cache[m]
  BY <1>4 DEF Bound
<1>6. p = [k \in 1..Len(s) - 1 |-> s[k + 1].file]
  BY DEF Chain
<1> HIDE DEF s, u
<1>7. /\ u \in Seq(ToSet(s)) /\ Len(u) = Len(s) - 1 /\ Last(s) = s[Len(s)]
      /\ \A k \in 1..Len(s) - 1 : u[k] = s[k]
  BY <1>1, <1>3, FrontProperties DEF IsSequence
<1>8. PICK n \in Nat : n = Len(s) - 1 /\ n # 0
  <2>1. Len(s) - 1 \in Nat /\ Len(s) - 1 # 0
    BY <1>2
  <2>2. QED
    BY <2>1
<1>9. PICK T : p \in Seq(T) /\ Len(p) = n /\ \A k \in 1..n : p[k] = s[k + 1].file
  <2> DEFINE e(k) == s[k + 1].file
             T == {e(k) : k \in 1..n}
  <2>1. p = [k \in 1..n |-> e(k)]
    BY <1>6, <1>8
  <2>2. \A k \in 1..n : e(k) \in T
    OBVIOUS
  <2>3. \A k \in 1..n : p[k] = e(k)
    BY <2>1
  <2> HIDE DEF e, T, p
  <2>4. [k \in 1..n |-> e(k)] \in Seq(T)
    BY <2>2, IsASeq
  <2>5. p \in Seq(T)
    BY <2>1, <2>4
  <2>6. Len(p) = n
    BY <2>1, <2>5, LenProperties
  <2>7. QED
    BY <2>3, <2>5, <2>6 DEF e
<1> HIDE DEF p, q
<1>10. p # <<>>
  BY <1>8, <1>9, EmptySeq
<1>11. q \in Seq(T) /\ Len(q) = n - 1 /\ \A k \in 1..n - 1 : q[k] = p[k]
  BY <1>3, <1>9, <1>10, FrontProperties
<1>12. Stacked(m)'
  <2>1. IsSequence(u)
    BY <1>7, OwnSet
  <2>2. u # <<>>
    BY <1>2, <1>7, EmptySeq
  <2>3. \A k \in 1..Len(u) : DOMAIN u[k] = FrameFields
    BY <1>1, <1>2, <1>7
  <2>4. QED
    BY <2>1, <2>2, <2>3 DEF Stacked, u
<1>13. Chain(m)'
  <2>1. q = [k \in 1..n - 1 |-> q[k]]
    BY <1>11, LenProperties
  <2>2. ASSUME NEW k \in 1..n - 1 PROVE q[k] = u[k + 1].file
    <3>1. k \in 1..n /\ k + 1 \in 1..n
      BY <1>8
    <3>2. q[k] = p[k]
      BY <1>11
    <3>3. p[k] = s[k + 1].file
      BY <1>9, <3>1
    <3>4. u[k + 1] = s[k + 1]
      <4>1. \A j \in 1..n : u[j] = s[j]
        BY <1>7, <1>8
      <4>2. QED
        BY <3>1, <4>1
    <3>5. QED
      BY <3>2, <3>3, <3>4
  <2>3. 1..Len(u) - 1 = 1..n - 1
    BY <1>7, <1>8
  <2>4. q = [k \in 1..Len(u) - 1 |-> u[k + 1].file]
    BY <2>1, <2>2, <2>3
  <2>5. QED
    BY <2>4 DEF Chain, q, u
<1>14. Accounted(m)'
  <2>1. ASSUME NEW g \in DOMAIN files, evaluated[m][g] = 1, g \notin DOMAIN cache'[m]
        PROVE  \E k \in 2..Len(u) : u[k].file = g
    <3>1. PICK k \in 2..Len(s) : s[k].file = g
      BY <1>5, <2>1 DEF Accounted, s
    <3>2. k # Len(s)
      BY <1>5, <1>7, <2>1, <3>1
    <3>3. k \in 2..Len(u) /\ u[k].file = g
      BY <1>2, <1>7, <3>1, <3>2
    <3>4. QED
      BY <3>3
  <2>2. \A g \in DOMAIN files : evaluated[m][g] \in {0, 1}
    BY DEF Accounted
  <2>3. QED
    BY <1>3, <2>1, <2>2 DEF Accounted, u
<1>15. QED
  BY <1>12, <1>13, <1>14

\* No step forgets that a load was aborted.
LEMMA AbortedStays ==
  ASSUME Shapes, NEW m \in Backends, Step(m)
  PROVE  aborted[m] \subseteq aborted'[m]
<1>1. CASE Raise(m)
  BY <1>1 DEF Raise, Fail, Shapes
<1>2. CASE Enter(m)
  BY <1>2 DEF Enter, Fail
<1>3. CASE EndOfFile(m)
  BY <1>3 DEF EndOfFile
<1>4. CASE \/ Let(m) \/ FuncDef(m) \/ LazyImport(m) \/ Import(m) \/ Use(m) \/ Call(m)
  BY <1>4, PlainStep DEF Proceed, Fail
<1>5. QED
  BY <1>1, <1>2, <1>3, <1>4 DEF Step

\* A step is one backend's, and keeps the shape of the state.
LEMMA StepShapes ==
  ASSUME Shapes, NEW m \in Backends, Step(m)
  PROVE  Shapes' /\ Others(m) /\ files' = files
<1>1. CASE Raise(m)
  BY <1>1 DEF Raise, Fail, Shapes, Others
<1>2. CASE Enter(m)
  <2>1. CASE Fail(m)
    BY <2>1 DEF Fail, Shapes, Others
  <2>2. CASE ~Fail(m)
    <3>1. PICK f \in Needed(m) :
        /\ frames' = [frames EXCEPT ![m] = Append(@, Begin(f, Opened(m, f)[m][Home(m, f)]))]
        /\ loading' = [loading EXCEPT ![m] = Append(@, f)]
        /\ evaluated' = [evaluated EXCEPT ![m][f] = @ + 1]
        /\ UNCHANGED <<files, cache, aborted>>
      BY <1>2, <2>2 DEF Enter
    <3>2. QED
      BY <3>1 DEF Shapes, Others
  <2>3. QED
    BY <2>1, <2>2
<1>3. CASE EndOfFile(m)
  BY <1>3 DEF EndOfFile, Popped, Shapes, Others
<1>4. CASE \/ Let(m) \/ FuncDef(m) \/ LazyImport(m) \/ Import(m) \/ Use(m) \/ Call(m)
  BY <1>4, PlainStep DEF Proceed, Fail, Advanced, Shapes, Others
<1>5. QED
  BY <1>1, <1>2, <1>3, <1>4 DEF Step

\* A step that changes no file being evaluated, nor loads one.
LEMMA FailKeeps ==
  ASSUME NEW m \in Backends, Stacked(m), Chain(m), Accounted(m),
         UNCHANGED <<files, frames, loading, cache, evaluated>>
  PROVE  Stacked(m)' /\ Chain(m)' /\ Accounted(m)'
BY DEF Stacked, Chain, Accounted

\* A backend's own step keeps its part of the invariant.
LEMMA StepKeeps ==
  ASSUME Shapes, NEW m \in Backends, Stacked(m), Chain(m), Accounted(m), Step(m),
         aborted'[m] = {}
  PROVE  Stacked(m)' /\ Chain(m)' /\ Accounted(m)'
<1>1. CASE Fail(m)
  BY <1>1, FailKeeps DEF Fail
<1>2. CASE Raise(m) /\ ~Fail(m)
  BY <1>2, RaiseStays, SameFilesKeep
<1>3. CASE Enter(m) /\ ~Fail(m)
  BY <1>3, EnterKeeps
<1>4. CASE EndOfFile(m)
  <2>1. CASE Len(frames[m]) = 1
    BY <1>4, <2>1, FailKeeps DEF EndOfFile
  <2>2. CASE Len(frames[m]) # 1
    BY <1>4, <2>2, EndKeeps
  <2>3. QED
    BY <2>1, <2>2
<1>5. CASE /\ Let(m) \/ FuncDef(m) \/ LazyImport(m) \/ Import(m) \/ Use(m) \/ Call(m)
           /\ ~Fail(m)
  <2>1. PICK s2, t2 : Proceed(m, s2, t2)
    BY <1>5, PlainStep
  <2>2. SameFiles(m)
    BY <2>1, ProceedKeeps
  <2>3. files' = files /\ loading' = loading /\ cache' = cache /\ evaluated' = evaluated
    BY <2>1 DEF Proceed
  <2>4. QED
    BY <2>2, <2>3, SameFilesKeep
<1>6. QED
  BY <1>1, <1>2, <1>3, <1>4, <1>5 DEF Step

\* The invariant is inductive.
LEMMA LoadNext ==
  ASSUME LoadInv, [Next]_vars
  PROVE  LoadInv'
<1>1. CASE UNCHANGED vars
  BY <1>1 DEF vars, LoadInv, Shapes, Stacked, Chain, Accounted
<1>2. ASSUME NEW m \in Backends, Step(m) PROVE LoadInv'
  <2>1. Shapes' /\ Others(m) /\ files' = files
    BY <1>2, StepShapes DEF LoadInv
  <2>2. ASSUME aborted'[m] = {} PROVE Stacked(m)' /\ Chain(m)' /\ Accounted(m)'
    <3>1. aborted[m] = {}
      BY <1>2, <2>2, AbortedStays DEF LoadInv
    <3>2. Stacked(m) /\ Chain(m) /\ Accounted(m) /\ Shapes
      BY <3>1 DEF LoadInv
    <3>3. QED
      BY <1>2, <2>2, <3>2, StepKeeps
  <2>3. ASSUME NEW o \in Backends \ {m}, aborted'[o] = {}
        PROVE  Stacked(o)' /\ Chain(o)' /\ Accounted(o)'
    <3>1. /\ frames'[o] = frames[o] /\ loading'[o] = loading[o] /\ cache'[o] = cache[o]
          /\ evaluated'[o] = evaluated[o] /\ aborted[o] = {} /\ files' = files
      BY <2>1, <2>3 DEF Others
    <3>2. Stacked(o) /\ Chain(o) /\ Accounted(o)
      BY <3>1 DEF LoadInv
    <3>3. Stacked(o)'
      BY <3>1, <3>2 DEF Stacked
    <3>4. Chain(o)'
      BY <3>1, <3>2 DEF Chain
    <3>5. Accounted(o)'
      BY <3>1, <3>2 DEF Accounted
    <3>6. QED
      BY <3>3, <3>4, <3>5
  <2>4. ASSUME NEW o \in Backends, aborted'[o] = {}
        PROVE  Stacked(o)' /\ Chain(o)' /\ Accounted(o)'
    BY <2>2, <2>3, <2>4
  <2>5. QED
    BY <2>1, <2>4 DEF LoadInv
<1>3. QED
  BY <1>1, <1>2 DEF Next

\* A file of which no load was aborted is evaluated at most once, by either
\* backend: load_module looks at the cache and at the load stack before it
\* evaluates one.
THEOREM NoFileTwice == Spec => []OncePerFile
<1>1. LoadInv => OncePerFile
  BY DEF LoadInv, Accounted, OncePerFile
<1>2. QED
  BY <1>1, LoadInit, LoadNext, PTL DEF Spec

\* module_load_stack is at all times the chain of the files that are being
\* evaluated, so that the circular-import check is right to consult it.
THEOREM LoadStackStaysReal == Spec => []LoadStackIsReal
<1>1. LoadInv => LoadStackIsReal
  BY DEF LoadInv, Chain, LoadStackIsReal
<1>2. QED
  BY <1>1, LoadInit, LoadNext, PTL DEF Spec

-----------------------------------------------------------------------------
(* What is refused as a circular import.                                   *)

\* What x is bound to bears its name: a module or lazy import is the file x, a
\* function was defined as x.  L are the files that are loaded.
Labelled(p, L, x, v) ==
  /\ v.kind \in {"lazy", "module"} => v.of = x
  /\ v.kind = "lazy" => v.of # "main"
  /\ v.kind = "module" => v.of \in L
  /\ v.kind \in {"reads", "bumps"} =>
       /\ v.of \in DOMAIN p
       /\ \E d \in ToSet(p[v.of]) : d.op = v.kind /\ d.name = x /\ d.key = v.key

Labels(p, L, map) == \A x \in DOMAIN map : Labelled(p, L, x, map[x])

\* The bindings a backend has bear their names.
Labelling(m) ==
  /\ \A f \in DOMAIN files : Labels(files, DOMAIN cache[m], scope[m][f])
  /\ \A f \in DOMAIN cache[m] : Labels(files, DOMAIN cache[m], cache[m][f])

\* The files u that are being evaluated: each reaches those it has come to load.
Piled(p, L, u) ==
  /\ IsSequence(u) /\ u # <<>>
  /\ \A k \in 1..Len(u) :
       /\ DOMAIN u[k] = FrameFields /\ u[k].file \in DOMAIN p /\ u[k].at \in Nat \ {0}
       /\ Labels(p, L, u[k].snapshot)
       /\ \A j \in 1..k - 1 : u[k].file \in Reaches(p, u[j].file)

\* A file on a load stack is one of those, or of the set A.
Known(load, A, u) ==
  /\ IsSequence(load) /\ Len(load) >= Len(u) - 1
  /\ \A f \in ToSet(load) : f \in A \/ \E k \in 1..Len(u) : u[k].file = f

\* A file on the load stack that is not being evaluated was loaded or aborted.
Tracked(m) ==
  /\ Piled(files, DOMAIN cache[m], frames[m])
  /\ Known(loading[m], aborted[m] \cup DOMAIN cache[m], frames[m])
  /\ Labelling(m)

\* The scopes of m after a step, which is m's.
ScopeOK(m, s) ==
  /\ DOMAIN s = Backends /\ \A o \in Backends : DOMAIN s[o] = DOMAIN files
  /\ \A f \in DOMAIN files : Labels(files, DOMAIN cache[m], s[m][f])
  /\ \A o \in Backends \ {m} : s[o] = scope[o]

CycleInv ==
  /\ Shapes /\ files \in Programs
  /\ DOMAIN scope = Backends /\ \A m \in Backends : DOMAIN scope[m] = DOMAIN files
  /\ \A m \in Backends : Tracked(m)

\* What a file reaches, those it reaches reach no further.
LEMMA ReachesFurther ==
  ASSUME NEW p, NEW f, NEW g \in Reaches(p, f), NEW h \in Reaches(p, g)
  PROVE  h \in Reaches(p, f)
<1>1. h \in DOMAIN p /\ g \in DOMAIN p
  BY DEF Reaches
<1>2. ASSUME NEW S \in SUBSET DOMAIN p, Mentions(p, f) \subseteq S, \A e \in S : Mentions(p, e) \subseteq S
      PROVE  h \in S
  <2>1. g \in S
    BY <1>2 DEF Reaches
  <2>2. Mentions(p, g) \subseteq S
    BY <1>2, <2>1
  <2>3. QED
    BY <1>2, <2>2 DEF Reaches
<1>3. QED
  BY <1>1, <1>2 DEF Reaches

\* A file reaches what it mentions, and what that mentions.
LEMMA ReachesMentioned ==
  ASSUME NEW p, NEW f, NEW g \in Mentions(p, f)
  PROVE  g \in Reaches(p, f) /\ \A h \in Mentions(p, g) : h \in Reaches(p, f)
<1>1. g \in DOMAIN p /\ \A h \in Mentions(p, g) : h \in DOMAIN p
  BY DEF Mentions
<1>2. QED
  BY <1>1 DEF Reaches

\* The labels stay when more is loaded, one more binding is made, or one
\* map shadows another.
LEMMA LabelsGrow ==
  ASSUME NEW p, NEW L, NEW K, L \subseteq K, NEW map, Labels(p, L, map)
  PROVE  Labels(p, K, map)
BY DEF Labels, Labelled

\* One more binding that bears its name.
LEMMA LabelsBound ==
  ASSUME NEW p, NEW L, NEW map, Labels(p, L, map), NEW x, NEW v, Labelled(p, L, x, v)
  PROVE  Labels(p, L, Bound(x, v, map))
<1> DEFINE b == Bound(x, v, map)
<1>1. DOMAIN b = DOMAIN map \cup {x} /\ \A y \in DOMAIN b : b[y] = IF y = x THEN v ELSE map[y]
  BY DEF Bound
<1> HIDE DEF b
<1>2. \A y \in DOMAIN b : Labelled(p, L, y, b[y])
  <2>1. ASSUME NEW y \in DOMAIN b PROVE Labelled(p, L, y, b[y])
    <3>1. CASE y = x
      BY <1>1, <3>1
    <3>2. CASE y # x
      BY <1>1, <3>2 DEF Labels
    <3>3. QED
      BY <3>1, <3>2
  <2>2. QED
    BY <2>1
<1>3. QED
  BY <1>2 DEF Labels, b

\* One map before another.
LEMMA LabelsBefore ==
  ASSUME NEW p, NEW L, NEW map, Labels(p, L, map), NEW rest, Labels(p, L, rest)
  PROVE  Labels(p, L, Before(map, rest))
<1> DEFINE b == Before(map, rest)
<1>1. /\ DOMAIN b = DOMAIN map \cup DOMAIN rest
      /\ \A y \in DOMAIN b : b[y] = IF y \in DOMAIN map THEN map[y] ELSE rest[y]
  BY DEF Before
<1> HIDE DEF b
<1>2. ASSUME NEW y \in DOMAIN b PROVE Labelled(p, L, y, b[y])
  <2>1. CASE y \in DOMAIN map
    BY <1>1, <2>1 DEF Labels
  <2>2. CASE y \notin DOMAIN map
    BY <1>1, <2>2 DEF Labels
  <2>3. QED
    BY <2>1, <2>2
<1>3. QED
  BY <1>2 DEF Labels, b

\* The frame and the statement a backend is at.
LEMMA ItsFrame ==
  ASSUME CycleInv, NEW m \in Backends
  PROVE  /\ Len(frames[m]) \in Nat \ {0} /\ Frame(m) = frames[m][Len(frames[m])]
         /\ InFile(m) \in DOMAIN files /\ "main" \in DOMAIN files
         /\ Home(m, InFile(m)) \in DOMAIN files
         /\ DOMAIN Frame(m) = FrameFields /\ Frame(m).at \in Nat \ {0}
         /\ ~AtEnd(m) => Stmt(m) \in ToSet(files[InFile(m)])
<1>1. Piled(files, DOMAIN cache[m], frames[m]) /\ files \in Programs
  BY DEF CycleInv, Tracked
<1>2. Len(frames[m]) \in Nat \ {0}
  BY <1>1, EmptySeq DEF Piled, IsSequence
<1>3. Frame(m) = frames[m][Len(frames[m])]
  BY DEF Frame, Last
<1>4. Len(frames[m]) \in 1..Len(frames[m])
  BY <1>2
<1>5. /\ InFile(m) \in DOMAIN files /\ Frame(m).at \in Nat \ {0} /\ DOMAIN Frame(m) = FrameFields
  BY <1>1, <1>3, <1>4 DEF Piled, InFile
<1>6. "main" \in DOMAIN files /\ files[InFile(m)] \in Seq(Statements)
  BY <1>1, <1>5, ProgramsAssumption
<1>7. Home(m, InFile(m)) \in DOMAIN files
  BY <1>5, <1>6 DEF Home
<1>8. ASSUME ~AtEnd(m) PROVE Stmt(m) \in ToSet(files[InFile(m)])
  <2>1. Len(files[InFile(m)]) \in Nat
    BY <1>6, LenProperties
  <2>2. Frame(m).at \in 1..Len(files[InFile(m)])
    BY <1>5, <1>8, <2>1 DEF AtEnd
  <2>3. QED
    BY <1>6, <2>2, ToSetDef DEF Stmt
<1>9. QED
  BY <1>2, <1>3, <1>5, <1>6, <1>7, <1>8

\* No statement imports the entry file.
LEMMA ImportsNotMain ==
  ASSUME CycleInv, NEW m \in Backends, ~AtEnd(m), Stmt(m).op \in {"lazy", "import"}
  PROVE  Stmt(m).name # "main"
<1>1. Stmt(m) \in ToSet(files[InFile(m)]) /\ InFile(m) \in DOMAIN files /\ files \in Programs
  BY ItsFrame DEF CycleInv
<1>2. QED
  BY <1>1, ProgramsAssumption

\* What code sees under a name bears it, forced or not.
LEMMA ValueLabelled ==
  ASSUME CycleInv, NEW m \in Backends, NEW f \in DOMAIN files, NEW x
  PROVE  /\ Labelled(files, DOMAIN cache[m], x, Value(m, f, x))
         /\ Labelled(files, DOMAIN cache[m], x, Forced(m, Value(m, f, x)))
<1> DEFINE L == DOMAIN cache[m]
           v == Value(m, f, x)
<1>1. "main" \in DOMAIN files /\ Home(m, f) \in DOMAIN files
  BY ProgramsAssumption DEF CycleInv, Home
<1>2. Labels(files, L, scope[m]["main"]) /\ Labels(files, L, scope[m][Home(m, f)])
  BY <1>1 DEF CycleInv, Tracked, Labelling
<1>3. Labels(files, L, Sees(m, f))
  BY <1>2, LabelsBefore DEF Sees
<1>4. Labelled(files, L, x, v)
  <2>1. CASE x \in DOMAIN Sees(m, f)
    BY <1>3, <2>1 DEF Labels, Value
  <2>2. CASE x \notin DOMAIN Sees(m, f)
    BY <2>2 DEF Value, Missing, Labelled
  <2>3. QED
    BY <2>1, <2>2
<1> HIDE DEF v
<1>5. Labelled(files, L, x, Forced(m, v))
  <2>1. CASE v.kind = "lazy" /\ Loaded(m, v.of)
    BY <1>4, <2>1 DEF Forced, Loaded, Module, Labelled
  <2>2. CASE ~(v.kind = "lazy" /\ Loaded(m, v.of))
    BY <1>4, <2>2 DEF Forced
  <2>3. QED
    BY <2>1, <2>2
<1>6. QED
  BY <1>4, <1>5 DEF v

\* The name a path ends in.
Tip(m) == IF Stmt(m).member = "" THEN Stmt(m).name ELSE Stmt(m).member

\* So do what a statement names, the member it leads to, and what a function
\* it calls reads.
LEMMA NamedLabelled ==
  ASSUME CycleInv, NEW m \in Backends
  PROVE  /\ Labelled(files, DOMAIN cache[m], Stmt(m).name, Named(m))
         /\ Labelled(files, DOMAIN cache[m], Tip(m), Member(m))
         /\ Calls(m) => Labelled(files, DOMAIN cache[m], Member(m).key, Read(m))
<1> DEFINE L == DOMAIN cache[m]
           v == Named(m)
           w == Member(m)
<1>1. Labelled(files, L, Stmt(m).name, v)
  BY ItsFrame, ValueLabelled DEF Named
<1>2. Labelled(files, L, Tip(m), w)
  <2>1. CASE Stmt(m).member = ""
    BY <1>1, <2>1 DEF Tip, Member
  <2>2. CASE Stmt(m).member # "" /\ v.kind = "module" /\ Stmt(m).member \in DOMAIN cache[m][v.of]
    <3>1. v.of \in L
      BY <1>1, <2>2 DEF Labelled
    <3>2. Labels(files, L, cache[m][v.of])
      BY <3>1 DEF CycleInv, Tracked, Labelling
    <3>3. w = cache[m][v.of][Stmt(m).member] /\ Tip(m) = Stmt(m).member
      BY <2>2 DEF Member, Tip
    <3>4. QED
      BY <2>2, <3>2, <3>3 DEF Labels
  <2>3. CASE Stmt(m).member # "" /\ ~(v.kind = "module" /\ Stmt(m).member \in DOMAIN cache[m][v.of])
    <3>1. w.kind = "missing"
      BY <2>3 DEF Member, Missing
    <3> HIDE DEF w
    <3>2. QED
      BY <3>1 DEF Labelled
  <2>4. QED
    BY <2>1, <2>2, <2>3
<1>3. ASSUME Calls(m) PROVE Labelled(files, L, w.key, Read(m))
  <2>1. w.of \in DOMAIN files
    BY <1>2, <1>3 DEF Calls, Labelled
  <2>2. QED
    BY <2>1, ValueLabelled DEF Read
<1>4. QED
  BY <1>1, <1>2, <1>3

\* The file a statement needs is one its file reaches.
LEMMA NeededReached ==
  ASSUME CycleInv, NEW m \in Backends, ~AtEnd(m), NEW f \in Needed(m), f \in DOMAIN files
  PROVE  f \in Reaches(files, InFile(m))
<1> DEFINE g == InFile(m)
           s == Stmt(m)
<1>1. s \in ToSet(files[g])
  BY ItsFrame
<1>2. ASSUME f \in {s.name, s.key} PROVE f \in Reaches(files, g)
  <2>1. f \in Mentions(files, g)
    BY <1>1, <1>2 DEF Mentions
  <2>2. QED
    BY <2>1, ReachesMentioned
<1>3. CASE s.op = "import"
  BY <1>2, <1>3 DEF Needed
<1>4. CASE s.op # "import" /\ f = Named(m).of /\ Named(m).kind = "lazy"
  <2>1. f = s.name
    BY <1>4, NamedLabelled DEF Labelled
  <2>2. QED
    BY <1>2, <2>1
<1>5. CASE s.op # "import" /\ Calls(m) /\ f = Read(m).of /\ Read(m).kind = "lazy"
  <2> DEFINE h == Member(m).of
  <2>1. f = Member(m).key
    BY <1>5, NamedLabelled DEF Labelled
  <2>2. PICK d \in ToSet(files[h]) : d.op \in {"reads", "bumps"} /\ d.name = Tip(m) /\ d.key = Member(m).key
    BY <1>5, NamedLabelled DEF Labelled, Calls
  <2>3. h \in DOMAIN files
    BY <1>5, NamedLabelled DEF Labelled, Calls
  <2>4. d.name \in {s.name, s.member}
    BY <2>2 DEF Tip
  <2>5. h \in Mentions(files, g)
    BY <1>1, <2>2, <2>3, <2>4 DEF Mentions
  <2>6. f \in Mentions(files, h)
    BY <2>1, <2>2 DEF Mentions
  <2>7. QED
    BY <2>5, <2>6, ReachesMentioned
<1>6. s.op # "import" => \/ f = Named(m).of /\ Named(m).kind = "lazy"
                         \/ Calls(m) /\ f = Read(m).of /\ Read(m).kind = "lazy"
  BY DEF Needed
<1>7. QED
  BY <1>3, <1>4, <1>5, <1>6

\* One more binding that bears its name, in any scope.
LEMMA BoundLabelled ==
  ASSUME CycleInv, NEW m \in Backends, NEW s, ScopeOK(m, s), NEW h, NEW x, NEW v,
         Labelled(files, DOMAIN cache[m], x, v)
  PROVE  ScopeOK(m, [s EXCEPT ![m][h] = Bound(x, v, @)])
<1> DEFINE u == [s EXCEPT ![m][h] = Bound(x, v, @)]
<1>1. /\ DOMAIN s = Backends /\ \A o \in Backends : DOMAIN s[o] = DOMAIN files
      /\ \A g \in DOMAIN files : Labels(files, DOMAIN cache[m], s[m][g])
      /\ \A o \in Backends \ {m} : s[o] = scope[o]
  BY DEF ScopeOK
<1>2. /\ DOMAIN u = Backends /\ \A o \in Backends : DOMAIN u[o] = DOMAIN files
      /\ \A o \in Backends \ {m} : u[o] = s[o]
      /\ \A g \in DOMAIN files : u[m][g] = IF g = h THEN Bound(x, v, s[m][g]) ELSE s[m][g]
  BY <1>1
<1> HIDE DEF u
<1>3. ASSUME NEW g \in DOMAIN files PROVE Labels(files, DOMAIN cache[m], u[m][g])
  <2>1. Labels(files, DOMAIN cache[m], Bound(x, v, s[m][g]))
    BY <1>1, LabelsBound
  <2>2. QED
    BY <1>1, <1>2, <2>1
<1>4. ScopeOK(m, u)
  BY <1>1, <1>2, <1>3 DEF ScopeOK
<1>5. QED
  BY <1>4 DEF u

\* The scopes as they are.
LEMMA ScopeLabelled ==
  ASSUME CycleInv, NEW m \in Backends
  PROVE  ScopeOK(m, scope)
BY DEF CycleInv, Tracked, Labelling, ScopeOK

\* A definition is a binding that bears its name.
LEMMA DefinedLabelled ==
  ASSUME CycleInv, NEW m \in Backends, NEW x, NEW v, Labelled(files, DOMAIN cache[m], x, v)
  PROVE  ScopeOK(m, Defined(m, x, v))
<1>1. PICK h : h = Home(m, InFile(m))
  OBVIOUS
<1>2. ScopeOK(m, [scope EXCEPT ![m][h] = Bound(x, v, @)])
  BY ScopeLabelled, BoundLabelled
<1>3. QED
  BY <1>1, <1>2, ScopeLabelled DEF Defined

\* The scopes after a statement that reads a name.
LEMMA ReboundLabelled ==
  ASSUME CycleInv, NEW m \in Backends
  PROVE  ScopeOK(m, Rebound(m))
BY NamedLabelled, DefinedLabelled, ScopeLabelled DEF Rebound

\* Those after one that calls a function, which reads another.
LEMMA RecalledLabelled ==
  ASSUME CycleInv, NEW m \in Backends, Calls(m)
  PROVE  ScopeOK(m, Recalled(m))
<1>1. PICK y : y = Member(m).key
  OBVIOUS
<1>2. PICK v : v = Read(m)
  OBVIOUS
<1>3. PICK s : s = Rebound(m)
  OBVIOUS
<1>4. ScopeOK(m, s)
  BY <1>3, ReboundLabelled
<1>5. Labelled(files, DOMAIN cache[m], y, v)
  BY <1>1, <1>2, NamedLabelled
<1>6. ScopeOK(m, [s EXCEPT ![m]["main"] = Bound(y, v, @)])
  BY <1>4, <1>5, BoundLabelled
<1>7. Recalled(m) = [s EXCEPT ![m]["main"] = Bound(y, v, @)] \/ Recalled(m) = s
  BY <1>1, <1>2, <1>3 DEF Recalled
<1>8. QED
  BY <1>4, <1>6, <1>7

\* Those after an assignment of a number.
LEMMA AssignedLabelled ==
  ASSUME CycleInv, NEW m \in Backends, NEW s, ScopeOK(m, s), NEW f, NEW x, NEW n
  PROVE  ScopeOK(m, Assigned(m, s, f, x, Num(n)))
<1>1. PICK h : h = IF x \in DOMAIN s[m][Home(m, f)] THEN Home(m, f) ELSE "main"
  OBVIOUS
<1>2. PICK v : v = Num(n)
  OBVIOUS
<1>3. Labelled(files, DOMAIN cache[m], x, v)
  BY <1>2 DEF Num, Labelled
<1>4. ScopeOK(m, [s EXCEPT ![m][h] = Bound(x, v, @)])
  BY <1>3, BoundLabelled
<1>5. QED
  BY <1>1, <1>2, <1>4 DEF Assigned

\* Those in which a module begins.
LEMMA OpenedLabelled ==
  ASSUME CycleInv, NEW m \in Backends, NEW f \in DOMAIN files
  PROVE  ScopeOK(m, Opened(m, f))
<1>1. PICK t : t = NameRead(m)
  OBVIOUS
<1>2. ScopeOK(m, t)
  BY <1>1, ReboundLabelled, ScopeLabelled DEF NameRead
<1> DEFINE s == [t EXCEPT ![m][f] = Nothing]
<1>3. /\ DOMAIN t = Backends /\ \A o \in Backends : DOMAIN t[o] = DOMAIN files
      /\ \A g \in DOMAIN files : Labels(files, DOMAIN cache[m], t[m][g])
      /\ \A o \in Backends \ {m} : t[o] = scope[o]
  BY <1>2 DEF ScopeOK
<1>4. Labels(files, DOMAIN cache[m], Nothing)
  BY DEF Nothing, Labels
<1>5. ScopeOK(m, s)
  <2>1. /\ DOMAIN s = Backends /\ \A o \in Backends : DOMAIN s[o] = DOMAIN files
        /\ \A o \in Backends \ {m} : s[o] = scope[o]
        /\ \A g \in DOMAIN files : s[m][g] = IF g = f THEN Nothing ELSE t[m][g]
    BY <1>3
  <2> HIDE DEF s
  <2>2. ASSUME NEW g \in DOMAIN files PROVE Labels(files, DOMAIN cache[m], s[m][g])
    BY <1>3, <1>4, <2>1
  <2>3. QED
    BY <2>1, <2>2 DEF ScopeOK
<1>6. QED
  BY <1>1, <1>2, <1>5 DEF Opened

\* Whatever a statement but an import does to the scopes.
LEMMA PlainScopes ==
  ASSUME CycleInv, NEW m \in Backends, ~Fail(m),
         Let(m) \/ FuncDef(m) \/ LazyImport(m) \/ Import(m) \/ Use(m) \/ Call(m)
  PROVE  \E s2, t2 : Proceed(m, s2, t2) /\ ScopeOK(m, s2)
<1> DEFINE L == DOMAIN cache[m]
           x == Stmt(m).name
<1>1. CASE Let(m)
  <2>1. Labelled(files, L, x, Num(Stmt(m).n))
    BY DEF Num, Labelled
  <2>2. ScopeOK(m, Defined(m, x, Num(Stmt(m).n)))
    BY <2>1, DefinedLabelled
  <2>3. QED
    BY <1>1, <2>2 DEF Let
<1>2. CASE FuncDef(m)
  <2> DEFINE v == Fn(InFile(m), Stmt(m), Frame(m).at)
  <2>1. Proceed(m, Defined(m, x, v), <<>>) /\ Stmt(m).op \in {"reads", "bumps"} /\ ~AtEnd(m)
    BY <1>2 DEF FuncDef, Runs
  <2>2. Stmt(m) \in ToSet(files[InFile(m)]) /\ InFile(m) \in DOMAIN files
    BY <2>1, ItsFrame
  <2>3. Labelled(files, L, x, v)
    BY <2>1, <2>2 DEF Fn, Labelled
  <2>4. ScopeOK(m, Defined(m, x, v))
    <3> HIDE DEF v
    <3>1. QED
      BY <2>3, DefinedLabelled
  <2>5. QED
    BY <2>1, <2>4
<1>3. CASE LazyImport(m)
  <2>0. x # "main"
    BY <1>3, ImportsNotMain DEF LazyImport, Runs
  <2>1. Labelled(files, L, x, Lazy(x))
    BY <2>0 DEF Lazy, Labelled
  <2>2. ScopeOK(m, Defined(m, x, Lazy(x)))
    BY <2>1, DefinedLabelled
  <2>3. QED
    BY <1>3, <2>2 DEF LazyImport
<1>4. CASE Import(m)
  <2>1. x \in L
    BY <1>4 DEF Import, Runs, Needed
  <2>2. Labelled(files, L, x, Module(x))
    BY <2>1 DEF Module, Labelled
  <2>3. ScopeOK(m, Defined(m, x, Module(x)))
    BY <2>2, DefinedLabelled
  <2>4. QED
    BY <1>4, <2>3 DEF Import
<1>5. CASE Use(m)
  <2>1. Proceed(m, Rebound(m), <<Member(m)>>)
    BY <1>5 DEF Use
  <2>2. QED
    BY <2>1, ReboundLabelled
<1>6. CASE Call(m)
  <2> DEFINE v == IF Calls(m) THEN Read(m) ELSE Missing
             s2 == Assigned(m, Recalled(m), Member(m).of, Member(m).key, Num(v.n + 1))
  <2>0. Calls(m)
    BY <1>6 DEF Call
  <2>1. Proceed(m, Recalled(m), <<v>>) \/ Proceed(m, s2, <<>>)
    BY <1>6 DEF Call
  <2>2. ScopeOK(m, Recalled(m)) /\ ScopeOK(m, s2)
    <3>1. ScopeOK(m, Recalled(m))
      BY <2>0, RecalledLabelled
    <3> HIDE DEF v
    <3>2. QED
      BY <3>1, AssignedLabelled
  <2> HIDE DEF v, s2
  <2>3. QED
    BY <2>1, <2>2
<1>7. QED
  BY <1>1, <1>2, <1>3, <1>4, <1>5, <1>6

\* The two frames stand for the same evaluation, at statements of it.
SameFile(x, y) ==
  DOMAIN x = FrameFields /\ x.file = y.file /\ x.snapshot = y.snapshot /\ x.at \in Nat \ {0}

\* v is the first n of the frames u, each at some statement.
Cut(u, n, v) ==
  /\ IsSequence(v) /\ Len(v) = n /\ n \in 1..Len(u)
  /\ \A k \in 1..n : SameFile(v[k], u[k])

\* The innermost files may be left, and more be loaded.
LEMMA PileCut ==
  ASSUME NEW p, NEW L, NEW K, L \subseteq K, NEW u, Piled(p, L, u), NEW n, NEW v, Cut(u, n, v)
  PROVE  Piled(p, K, v)
<1>1. Len(u) \in Nat /\ n \in 1..Len(u) /\ Len(v) = n /\ IsSequence(v)
  BY LenProperties DEF Piled, Cut, IsSequence
<1>2. v # <<>>
  BY <1>1, EmptySeq
<1>3. ASSUME NEW k \in 1..n
      PROVE  /\ DOMAIN v[k] = FrameFields /\ v[k].file \in DOMAIN p /\ v[k].at \in Nat \ {0}
             /\ Labels(p, K, v[k].snapshot)
             /\ \A j \in 1..k - 1 : v[k].file \in Reaches(p, v[j].file)
  <2>1. k \in 1..Len(u) /\ SameFile(v[k], u[k])
    BY <1>1 DEF Cut
  <2>2. /\ u[k].file \in DOMAIN p /\ Labels(p, L, u[k].snapshot)
        /\ \A j \in 1..k - 1 : u[k].file \in Reaches(p, u[j].file)
    BY <2>1 DEF Piled
  <2>3. Labels(p, K, v[k].snapshot)
    BY <2>1, <2>2, LabelsGrow DEF SameFile
  <2>4. \A j \in 1..k - 1 : v[j].file = u[j].file
    BY <1>1 DEF Cut, SameFile
  <2>5. QED
    BY <2>1, <2>2, <2>3, <2>4 DEF SameFile
<1>4. QED
  BY <1>1, <1>2, <1>3 DEF Piled

\* What was loaded by a file that is left counts as loaded or aborted.
LEMMA KnownCut ==
  ASSUME NEW load, NEW A, NEW B, A \subseteq B, NEW u, IsSequence(u), Known(load, A, u),
         NEW n, NEW v, Cut(u, n, v), \A k \in n + 1..Len(u) : u[k].file \in B,
         NEW load2, IsSequence(load2), Len(load2) >= n - 1, ToSet(load2) \subseteq ToSet(load)
  PROVE  Known(load2, B, v)
<1>1. Len(u) \in Nat /\ n \in 1..Len(u) /\ Len(v) = n
  BY LenProperties DEF Cut, IsSequence
<1>2. ASSUME NEW f \in ToSet(load2), f \notin B PROVE \E k \in 1..n : v[k].file = f
  <2>1. PICK k \in 1..Len(u) : u[k].file = f
    BY <1>2 DEF Known
  <2>2. k \in 1..n
    BY <1>1, <1>2, <2>1
  <2>3. QED
    BY <2>1, <2>2 DEF Cut, SameFile
<1>3. QED
  BY <1>1, <1>2 DEF Known

\* A file is entered that the innermost one reaches.
LEMMA PileGrown ==
  ASSUME NEW p, NEW L, NEW u, Piled(p, L, u), NEW b, DOMAIN b = FrameFields, b.file \in DOMAIN p,
         b.at \in Nat \ {0}, Labels(p, L, b.snapshot), b.file \in Reaches(p, u[Len(u)].file),
         NEW v, v = Append(u, b)
  PROVE  Piled(p, L, v)
<1>1. IsSequence(u) /\ u # <<>>
  BY DEF Piled
<1>2. IsSequence(v) /\ Len(u) \in Nat /\ Len(v) = Len(u) + 1
  BY ONLY <1>1, v = Append(u, b), AppendOne
<1>3. v[Len(u) + 1] = b /\ \A k \in 1..Len(u) : v[k] = u[k]
  BY ONLY <1>1, v = Append(u, b), AppendOne
<1>4. v # <<>>
  BY <1>2, EmptySeq
<1>5. Len(u) \in Nat \ {0}
  BY <1>1, <1>2, EmptySeq DEF IsSequence
<1>6. \A j \in 1..Len(u) : b.file \in Reaches(p, u[j].file)
  <2>1. ASSUME NEW j \in 1..Len(u), j # Len(u) PROVE b.file \in Reaches(p, u[j].file)
    <3>1. j \in 1..Len(u) - 1 /\ Len(u) \in 1..Len(u)
      BY <1>5, <2>1
    <3>2. u[Len(u)].file \in Reaches(p, u[j].file)
      BY <3>1 DEF Piled
    <3>3. QED
      BY <3>2, ReachesFurther
  <2>2. QED
    BY <2>1
<1>7. ASSUME NEW k \in 1..Len(v)
      PROVE  /\ DOMAIN v[k] = FrameFields /\ v[k].file \in DOMAIN p /\ v[k].at \in Nat \ {0}
             /\ Labels(p, L, v[k].snapshot)
             /\ \A j \in 1..k - 1 : v[k].file \in Reaches(p, v[j].file)
  <2>1. CASE k = Len(u) + 1
    <3>1. v[k] = b /\ \A j \in 1..k - 1 : v[j] = u[j]
      BY <1>2, <1>3, <2>1
    <3>2. k - 1 = Len(u)
      BY <1>2, <2>1
    <3>3. QED
      BY <1>6, <3>1, <3>2
  <2>2. CASE k # Len(u) + 1
    <3>1. k \in 1..Len(u) /\ v[k] = u[k] /\ \A j \in 1..k - 1 : v[j] = u[j]
      BY <1>2, <1>3, <2>2
    <3>2. QED
      BY <3>1 DEF Piled
  <2>3. QED
    BY <2>1, <2>2
<1>8. QED
  BY <1>2, <1>4, <1>7 DEF Piled

\* It is on the load stack, and being evaluated.
LEMMA KnownGrown ==
  ASSUME NEW load, NEW A, NEW u, IsSequence(u), Known(load, A, u), NEW b,
         NEW v, v = Append(u, b), NEW load2, load2 = Append(load, b.file)
  PROVE  Known(load2, A, v)
<1>1. IsSequence(v) /\ Len(u) \in Nat /\ Len(v) = Len(u) + 1
  BY ONLY IsSequence(u), v = Append(u, b), AppendOne
<1>2. v[Len(u) + 1] = b /\ \A k \in 1..Len(u) : v[k] = u[k]
  BY ONLY IsSequence(u), v = Append(u, b), AppendOne
<1>3. IsSequence(load) /\ Len(load) >= Len(u) - 1
  BY DEF Known
<1>4. IsSequence(load2) /\ Len(load) \in Nat /\ Len(load2) = Len(load) + 1
  BY ONLY <1>3, load2 = Append(load, b.file), AppendOne
<1>5. ToSet(load2) = ToSet(load) \cup {b.file}
  <2>1. PICK T : T = ToSet(load) \cup {b.file}
    OBVIOUS
  <2>2. load \in Seq(T) /\ b.file \in T
    BY <1>3, <2>1, SeqMonotonic DEF IsSequence
  <2>3. QED
    BY ONLY <2>2, load2 = Append(load, b.file), AppendSet
<1>6. ASSUME NEW f \in ToSet(load2), f \notin A PROVE \E k \in 1..Len(v) : v[k].file = f
  <2>1. CASE f = b.file
    BY <1>1, <1>2, <2>1
  <2>2. CASE f \in ToSet(load)
    <3>1. PICK k \in 1..Len(u) : u[k].file = f
      BY <1>6, <2>2 DEF Known
    <3>2. QED
      BY <1>1, <1>2, <3>1
  <2>3. QED
    BY <1>5, <2>1, <2>2
<1>7. QED
  BY <1>1, <1>3, <1>4, <1>6 DEF Known

\* One of the frames goes on, and those within it are left.
LEMMA GoesOn ==
  ASSUME NEW p, NEW L, NEW u, Piled(p, L, u), NEW n \in 1..Len(u),
         NEW v, v = SubSeq(u, 1, n - 1) \o <<Ahead(u[n])>>
  PROVE  Cut(u, n, v)
<1> DEFINE x == Ahead(u[n])
           T == ToSet(u) \cup {x}
           a == SubSeq(u, 1, n - 1)
<1>1. /\ IsSequence(u) /\ Len(u) \in Nat
      /\ \A k \in 1..Len(u) : DOMAIN u[k] = FrameFields /\ u[k].at \in Nat \ {0}
  BY LenProperties DEF Piled, IsSequence
<1>2. SameFile(x, u[n])
  BY <1>1 DEF SameFile, Ahead, FrameFields
<1>3. v = a \o <<x>>
  OBVIOUS
<1>4. \A i \in 1..n - 1 : u[i] \in T
  BY <1>1, ToSetDef DEF IsSequence
<1>5. x \in T
  OBVIOUS
<1> HIDE DEF x, T, a
<1>6. /\ a \in Seq(T) /\ Len(a) = n - 1 /\ \A i \in 1..n - 1 : a[i] = u[i]
  <2>1. n - 1 \in Int /\ 1 \in Int
    BY <1>1
  <2>2. /\ SubSeq(u, 1, n - 1) \in Seq(T)
        /\ Len(SubSeq(u, 1, n - 1)) = IF 1 <= n - 1 THEN n - 1 - 1 + 1 ELSE 0
        /\ \A i \in 1..n - 1 - 1 + 1 : SubSeq(u, 1, n - 1)[i] = u[1 + i - 1]
    BY ONLY <1>4, <2>1, SubSeqProperties
  <2>3. Len(a) = n - 1
    BY <1>1, <2>2 DEF a
  <2>4. \A i \in 1..n - 1 : a[i] = u[i]
    BY <1>1, <2>2 DEF a
  <2>5. QED
    BY <2>2, <2>3, <2>4 DEF a
<1>7. /\ v \in Seq(T) /\ Len(v) = n /\ v[n] = x /\ \A i \in 1..n - 1 : v[i] = u[i]
  <2> DEFINE b == <<x>>
  <2>1. b \in Seq(T) /\ Len(b) = 1 /\ b[1] = x /\ v = a \o b
    BY <1>3, <1>5
  <2> HIDE DEF b
  <2>2. /\ v \in Seq(T) /\ Len(v) = Len(a) + Len(b)
        /\ \A i \in 1..Len(a) + Len(b) : v[i] = IF i <= Len(a) THEN a[i] ELSE b[i - Len(a)]
    <3>1. a \in Seq(T)
      BY <1>6
    <3>2. /\ a \o b \in Seq(T) /\ Len(a \o b) = Len(a) + Len(b)
          /\ \A i \in 1..Len(a) + Len(b) : (a \o b)[i] = IF i <= Len(a) THEN a[i] ELSE b[i - Len(a)]
      BY ONLY <2>1, <3>1, ConcatProperties
    <3>3. QED
      BY <2>1, <3>2
  <2>3. Len(a) = n - 1 /\ n \in Nat \ {0}
    BY <1>1, <1>6
  <2>4. Len(v) = n /\ v[n] = x
    BY <2>1, <2>2, <2>3
  <2>5. \A i \in 1..n - 1 : v[i] = u[i]
    BY <1>6, <2>2, <2>3
  <2>6. QED
    BY <2>2, <2>4, <2>5
<1>8. IsSequence(v)
  BY <1>7, OwnSet
<1>9. ASSUME NEW k \in 1..n PROVE SameFile(v[k], u[k])
  <2>1. CASE k = n
    BY <1>2, <1>7, <2>1
  <2>2. CASE k # n
    <3>1. k \in 1..n - 1 /\ k \in 1..Len(u)
      BY <1>1, <2>2
    <3>2. QED
      BY <1>1, <1>7, <3>1 DEF SameFile
  <2>3. QED
    BY <2>1, <2>2
<1>10. QED
  BY <1>7, <1>8, <1>9 DEF Cut

\* A step that loads nothing, after which the scopes are labelled.
LEMMA CutTracked ==
  ASSUME CycleInv, NEW m \in Backends, NEW n, Cut(frames[m], n, frames'[m]),
         files' = files, loading' = loading, cache' = cache, aborted[m] \subseteq aborted'[m],
         \A k \in n + 1..Len(frames[m]) : frames[m][k].file \in aborted'[m],
         \A f \in DOMAIN files : Labels(files, DOMAIN cache[m], scope'[m][f])
  PROVE  Tracked(m)'
<1> DEFINE u == frames[m]
           v == frames'[m]
           p == loading[m]
           A == aborted[m] \cup DOMAIN cache[m]
           B == aborted'[m] \cup DOMAIN cache[m]
<1>1. /\ Piled(files, DOMAIN cache[m], u) /\ Known(p, A, u) /\ IsSequence(u)
      /\ Cut(u, n, v) /\ A \subseteq B /\ \A k \in n + 1..Len(u) : u[k].file \in B
      /\ IsSequence(p) /\ Len(p) >= Len(u) - 1
  BY DEF CycleInv, Tracked, Known, Piled
<1>2. /\ Labelling(m)' /\ loading'[m] = p /\ DOMAIN cache'[m] = DOMAIN cache[m]
  BY DEF CycleInv, Tracked, Labelling
<1> HIDE DEF u, v, p, A, B
<1>3. Piled(files, DOMAIN cache[m], v)
  BY ONLY <1>1, PileCut
<1>4. Len(p) >= n - 1
  <2>1. Len(u) \in Nat /\ Len(p) \in Nat /\ n \in 1..Len(u)
    BY <1>1, LenProperties DEF IsSequence, Cut
  <2>2. QED
    BY <1>1, <2>1
<1>5. Known(p, B, v)
  <2>1. ToSet(p) \subseteq ToSet(p)
    OBVIOUS
  <2>2. QED
    BY ONLY <1>1, <1>4, <2>1, KnownCut
<1>6. QED
  BY <1>2, <1>3, <1>5 DEF Tracked, v, B

\* The scopes have their shape after a step, which is m's.
Scoped(m) ==
  /\ DOMAIN scope' = Backends /\ \A o \in Backends : DOMAIN scope'[o] = DOMAIN files
  /\ \A o \in Backends \ {m} : scope'[o] = scope[o]

\* No file begins: some may have been left.
Receded(m) == \E n : Cut(frames[m], n, frames'[m])

\* A statement that is no import goes on in the file it stands in.
LEMMA PlainTracked ==
  ASSUME CycleInv, NEW m \in Backends, ~Fail(m),
         Let(m) \/ FuncDef(m) \/ LazyImport(m) \/ Import(m) \/ Use(m) \/ Call(m)
  PROVE  Tracked(m)' /\ Scoped(m) /\ Receded(m)
<1>1. PICK s2, t2 : Proceed(m, s2, t2) /\ ScopeOK(m, s2)
  BY PlainScopes
<1>2. scope' = s2 /\ UNCHANGED <<files, loading, cache, aborted>>
  BY <1>1 DEF Proceed
<1>3. PICK n : n = Len(frames[m])
  OBVIOUS
<1>4. Cut(frames[m], n, frames'[m])
  <2> DEFINE u == frames[m]
             v == frames'[m]
  <2>1. Piled(files, DOMAIN cache[m], u)
    BY DEF CycleInv, Tracked
  <2>2. v = SubSeq(u, 1, n - 1) \o <<Ahead(u[n])>>
    BY <1>1, <1>3 DEF Proceed, Advanced, CycleInv, Shapes, Front, Frame, Last
  <2>3. n \in 1..Len(u)
    BY <1>3, ItsFrame
  <2> HIDE DEF u, v
  <2>4. Cut(u, n, v)
    BY ONLY <2>1, <2>2, <2>3, GoesOn
  <2>5. QED
    BY <2>4 DEF u, v
<1>5. \A k \in n + 1..Len(frames[m]) : frames[m][k].file \in aborted'[m]
  <2>1. n \in Nat
    BY <1>3, ItsFrame
  <2>2. n + 1..Len(frames[m]) = {}
    BY <1>3, <2>1
  <2>3. QED
    BY <2>2
<1>6. \A f \in DOMAIN files : Labels(files, DOMAIN cache[m], scope'[m][f])
  BY <1>1, <1>2 DEF ScopeOK
<1>7. Tracked(m)'
  BY <1>2, <1>4, <1>5, <1>6, CutTracked
<1>8. Scoped(m)
  BY <1>1, <1>2 DEF ScopeOK, Scoped
<1>9. QED
  BY <1>4, <1>7, <1>8 DEF Receded

\* A raise leaves the files up to the one whose statement is in a `try`.
LEMMA RaiseTracked ==
  ASSUME CycleInv, NEW m \in Backends, ~Fail(m), Raise(m)
  PROVE  Tracked(m)' /\ Scoped(m) /\ Receded(m)
<1> DEFINE u == frames[m]
           v == frames'[m]
<1>1. /\ v = SubSeq(u, 1, Handler(m) - 1) \o <<Ahead(u[Handler(m)])>>
      /\ aborted'[m] = aborted[m] \cup {u[k].file : k \in Handler(m) + 1..Len(u)}
      /\ UNCHANGED <<files, loading, cache, scope>> /\ Handler(m) # 0
  BY DEF Raise, CycleInv, Shapes
<1>2. PICK n : n = Handler(m)
  OBVIOUS
<1>3. n \in 1..Len(u)
  <2> DEFINE T == {k \in 1..Len(u) : files[u[k].file][u[k].at].guarded}
  <2>1. n = IF T = {} THEN 0 ELSE CHOOSE k \in T : \A j \in T : j <= k
    BY <1>2 DEF Handler
  <2>2. Len(u) \in Nat
    BY ItsFrame
  <2>3. T # {} => \E k \in T : \A j \in T : j <= k
    BY <2>2, GreatestExists
  <2>4. T \subseteq 1..Len(u)
    OBVIOUS
  <2>5. n # 0
    BY <1>1, <1>2
  <2> HIDE DEF T
  <2>6. QED
    BY <2>1, <2>3, <2>4, <2>5
<1>4. Cut(u, n, v)
  <2>1. Piled(files, DOMAIN cache[m], u)
    BY DEF CycleInv, Tracked
  <2>2. v = SubSeq(u, 1, n - 1) \o <<Ahead(u[n])>>
    BY <1>1, <1>2
  <2> HIDE DEF u, v
  <2>3. QED
    BY ONLY <1>3, <2>1, <2>2, GoesOn
<1>5. \A k \in n + 1..Len(frames[m]) : frames[m][k].file \in aborted'[m]
  BY <1>1, <1>2
<1>6. \A f \in DOMAIN files : Labels(files, DOMAIN cache[m], scope'[m][f])
  BY <1>1 DEF CycleInv, Tracked, Labelling
<1>7. aborted[m] \subseteq aborted'[m]
  BY <1>1
<1>8. Tracked(m)'
  BY <1>1, <1>4, <1>5, <1>6, <1>7, CutTracked
<1>9. Scoped(m)
  BY <1>1 DEF CycleInv, Scoped
<1>10. QED
  BY <1>4, <1>8, <1>9 DEF Receded

\* A file is entered: one that the file it is needed in reaches.
LEMMA EnterTracked ==
  ASSUME CycleInv, NEW m \in Backends, ~Fail(m), Enter(m)
  PROVE  Tracked(m)' /\ Scoped(m)
<1> DEFINE u == frames[m]
           v == frames'[m]
           p == loading[m]
           q == loading'[m]
           A == aborted[m] \cup DOMAIN cache[m]
<1>1. PICK f \in Needed(m) :
        /\ Readable(f)
        /\ frames' = [frames EXCEPT ![m] = Append(@, Begin(f, Opened(m, f)[m][Home(m, f)]))]
        /\ loading' = [loading EXCEPT ![m] = Append(@, f)]
        /\ scope' = Opened(m, f) /\ UNCHANGED <<files, cache, aborted>>
  BY DEF Enter
<1>2. PICK b : b = Begin(f, Opened(m, f)[m][Home(m, f)])
  OBVIOUS
<1>3. v = Append(u, b) /\ q = Append(p, f)
  BY <1>1, <1>2 DEF CycleInv, Shapes
<1>4. DOMAIN b = FrameFields /\ b.file = f /\ b.at \in Nat \ {0} /\ b.snapshot = Opened(m, f)[m][Home(m, f)]
  BY <1>2 DEF Begin, FrameFields
<1>5. f \in DOMAIN files
  BY <1>1 DEF Readable
<1>0. ScopeOK(m, Opened(m, f))
  BY <1>5, OpenedLabelled
<1>6. Labels(files, DOMAIN cache[m], b.snapshot)
  <2>1. Home(m, f) \in DOMAIN files
    BY <1>5, ItsFrame DEF Home
  <2>2. QED
    BY <1>0, <1>4, <2>1 DEF ScopeOK
<1>7. b.file \in Reaches(files, u[Len(u)].file)
  <2>1. ~AtEnd(m)
    BY DEF Enter
  <2>2. f \in Reaches(files, InFile(m))
    BY <1>5, <2>1, NeededReached
  <2>3. InFile(m) = u[Len(u)].file
    BY ItsFrame DEF InFile
  <2>4. QED
    BY <1>4, <2>2, <2>3
<1>8. Piled(files, DOMAIN cache[m], u) /\ Known(p, A, u) /\ IsSequence(u)
  BY DEF CycleInv, Tracked, Piled
<1>9. /\ Labelling(m)' /\ files' = files /\ DOMAIN cache'[m] = DOMAIN cache[m]
      /\ aborted'[m] \cup DOMAIN cache'[m] = A
  BY <1>0, <1>1 DEF CycleInv, Tracked, Labelling, ScopeOK
<1>10. Scoped(m)
  BY <1>0, <1>1 DEF ScopeOK, Scoped
<1> HIDE DEF u, v, p, q, A
<1>11. Piled(files, DOMAIN cache[m], v)
  <2>1. b.file \in DOMAIN files
    BY <1>4, <1>5
  <2>2. v = Append(u, b)
    BY <1>3
  <2>3. QED
    BY ONLY <1>4, <1>6, <1>7, <1>8, <2>1, <2>2, PileGrown
<1>12. Known(q, A, v)
  <2>1. q = Append(p, b.file) /\ v = Append(u, b)
    BY <1>3, <1>4
  <2>2. QED
    BY ONLY <1>8, <2>1, KnownGrown
<1>13. Tracked(m)'
  BY <1>9, <1>11, <1>12 DEF Tracked, v, q
<1>14. QED
  BY <1>10, <1>13

\* A module that ends is loaded; what it exports was bound in its scope, and
\* what the VM puts back was so when it began.
LEMMA EndTracked ==
  ASSUME CycleInv, NEW m \in Backends, EndOfFile(m), Len(frames[m]) # 1
  PROVE  Tracked(m)' /\ Scoped(m) /\ Receded(m)
<1> DEFINE u == frames[m]
           v == frames'[m]
           p == loading[m]
           q == loading'[m]
           L == DOMAIN cache[m]
           K == DOMAIN cache'[m]
           A == aborted[m] \cup L
           B == aborted'[m] \cup K
           e == Exports(m)
           h == Home(m, InFile(m))
<1>1. /\ v = Front(u) /\ q = Front(p) /\ files' = files /\ aborted' = aborted
      /\ cache'[m] = Bound(InFile(m), e, cache[m]) /\ scope' = Restored(m)
  BY DEF EndOfFile, Popped, CycleInv, Shapes
<1>2. /\ K = L \cup {InFile(m)}
      /\ \A f \in K : cache'[m][f] = IF f = InFile(m) THEN e ELSE cache[m][f]
  <2>1. DOMAIN Bound(InFile(m), e, cache[m]) = L \cup {InFile(m)}
    BY DEF Bound
  <2>2. \A f \in L \cup {InFile(m)} :
          Bound(InFile(m), e, cache[m])[f] = IF f = InFile(m) THEN e ELSE cache[m][f]
    BY DEF Bound
  <2> HIDE DEF e
  <2>3. QED
    BY <1>1, <2>1, <2>2
<1>3. Piled(files, L, u) /\ Known(p, A, u) /\ IsSequence(u) /\ IsSequence(p) /\ Len(p) >= Len(u) - 1
  BY DEF CycleInv, Tracked, Piled, Known
<1>4. /\ \A f \in DOMAIN files : Labels(files, L, scope[m][f])
      /\ \A f \in L : Labels(files, L, cache[m][f])
  BY DEF CycleInv, Tracked, Labelling
<1>5. Labels(files, L, e)
  <2>1. Labels(files, L, scope[m][h])
    BY <1>4, ItsFrame
  <2>2. \A x \in DOMAIN e : x \in DOMAIN scope[m][h] /\ e[x] = scope[m][h][x]
    BY DEF Exports
  <2> HIDE DEF e, h
  <2>3. QED
    BY <2>1, <2>2 DEF Labels
<1>6. Labels(files, L, Frame(m).snapshot)
  BY <1>3, ItsFrame DEF Piled
<1>7. /\ DOMAIN scope = Backends /\ \A o \in Backends : DOMAIN scope[o] = DOMAIN files
      /\ "main" \in DOMAIN files
  BY ItsFrame DEF CycleInv
<1>8. Scoped(m) /\ \A f \in DOMAIN files : Labels(files, L, scope'[m][f])
  <2>1. CASE m = "vm"
    <3> DEFINE r == Before(Frame(m).snapshot, scope[m]["main"])
    <3>1. Labels(files, L, r)
      BY <1>4, <1>6, <1>7, LabelsBefore
    <3>2. scope' = [scope EXCEPT ![m]["main"] = r]
      BY <1>1, <1>7, <2>1 DEF Restored
    <3> HIDE DEF r
    <3>3. Scoped(m)
      BY <1>7, <3>2 DEF Scoped
    <3>4. \A f \in DOMAIN files : scope'[m][f] = IF f = "main" THEN r ELSE scope[m][f]
      BY <1>7, <3>2
    <3>5. QED
      BY <1>4, <3>1, <3>3, <3>4
  <2>2. CASE m # "vm"
    <3>1. scope' = scope
      BY <1>1, <2>2 DEF Restored
    <3>2. QED
      BY <1>4, <1>7, <3>1 DEF Scoped
  <2>3. QED
    BY <2>1, <2>2
<1>9. Len(u) \in Nat \ {0} /\ u[Len(u)].file = InFile(m)
  BY ItsFrame DEF InFile
<1>10. PICK n : n = Len(u) - 1
  OBVIOUS
<1>11. n \in 1..Len(u) /\ n + 1 = Len(u)
  <2>1. Len(u) # 1 /\ Len(u) \in Nat \ {0}
    BY <1>9
  <2> HIDE DEF u
  <2>2. QED
    BY ONLY <1>10, <2>1
<1> HIDE DEF u, v, p, q, L, K, A, B, e, h
<1>12. Cut(u, n, v)
  <2>1. u # <<>> /\ \A k \in 1..Len(u) : DOMAIN u[k] = FrameFields /\ u[k].at \in Nat \ {0}
    BY <1>3 DEF Piled
  <2>2. u \in Seq(ToSet(u))
    BY <1>3 DEF IsSequence
  <2>3. /\ Front(u) \in Seq(ToSet(u)) /\ Len(Front(u)) = Len(u) - 1
        /\ \A i \in 1..(Len(u) - 1) : Front(u)[i] = u[i]
    BY ONLY <2>1, <2>2, FrontProperties
  <2>4. IsSequence(v) /\ Len(v) = n /\ \A i \in 1..n : v[i] = u[i]
    BY <1>1, <1>10, <2>3, OwnSet
  <2>5. \A i \in 1..n : i \in 1..Len(u)
    BY <1>9, <1>11
  <2>6. \A i \in 1..n : SameFile(v[i], u[i])
    BY <2>1, <2>4, <2>5 DEF SameFile
  <2>7. QED
    BY <1>11, <2>4, <2>6 DEF Cut
<1>13. Piled(files, K, v)
  <2>1. L \subseteq K
    BY <1>2
  <2>2. QED
    BY ONLY <1>3, <1>12, <2>1, PileCut
<1>14. Known(q, B, v)
  <2>1. A \subseteq B
    BY <1>1, <1>2 DEF A, B
  <2>2. \A k \in n + 1..Len(u) : u[k].file \in B
    <3>1. ASSUME NEW k \in n + 1..Len(u) PROVE u[k].file \in B
      <4>1. k = Len(u)
        BY <1>9, <1>11
      <4>2. QED
        BY <1>2, <1>9, <4>1 DEF B
    <3>2. QED
      BY <3>1
  <2>3. p \in Seq(ToSet(p)) /\ p # <<>>
    <3>1. Len(p) \in Nat /\ Len(p) >= 1
      BY <1>3, <1>9, <1>11, LenProperties DEF IsSequence
    <3>2. QED
      BY <1>3, <3>1, EmptySeq DEF IsSequence
  <2>4. IsSequence(q) /\ Len(q) = Len(p) - 1 /\ Len(p) \in Nat
    BY <1>1, <2>3, FrontProperties, OwnSet, LenProperties
  <2>5. ToSet(q) \subseteq ToSet(p)
    BY <1>1, <2>3, FrontSet
  <2>6. Len(q) >= n - 1
    BY <1>3, <1>9, <1>10, <2>4
  <2>7. QED
    BY ONLY <1>3, <1>12, <2>1, <2>2, <2>4, <2>5, <2>6, KnownCut
<1>15. Labelling(m)'
  <2>1. L \subseteq K
    BY <1>2
  <2>2. \A f \in DOMAIN files : Labels(files, K, scope'[m][f])
    BY <1>8, <2>1, LabelsGrow
  <2>3. ASSUME NEW f \in K PROVE Labels(files, K, cache'[m][f])
    <3>1. CASE f = InFile(m)
      BY <1>2, <1>5, <2>1, <3>1, LabelsGrow
    <3>2. CASE f # InFile(m)
      BY <1>2, <1>4, <2>1, <3>2, LabelsGrow
    <3>3. QED
      BY <3>1, <3>2
  <2>4. QED
    BY <1>1, <2>2, <2>3 DEF Labelling, K
<1>16. Tracked(m)'
  BY <1>1, <1>13, <1>14, <1>15 DEF Tracked, v, q, K, B
<1>17. QED
  BY <1>8, <1>12, <1>16 DEF Receded, u, v

\* A backend's own step keeps what it tracks.
LEMMA StepTracked ==
  ASSUME CycleInv, NEW m \in Backends, Step(m)
  PROVE  Tracked(m)' /\ Scoped(m)
<1>1. ASSUME UNCHANGED <<files, frames, loading, cache, scope, aborted>> PROVE Tracked(m)' /\ Scoped(m)
  <2>1. Tracked(m) /\ Scoped(m)
    BY <1>1 DEF CycleInv, Scoped
  <2>2. QED
    BY <1>1, <2>1 DEF Tracked, Labelling
<1>2. CASE Fail(m)
  BY <1>1, <1>2 DEF Fail
<1>3. CASE Raise(m) /\ ~Fail(m)
  BY <1>3, RaiseTracked
<1>4. CASE Enter(m) /\ ~Fail(m)
  BY <1>4, EnterTracked
<1>5. CASE EndOfFile(m) /\ Len(frames[m]) = 1
  BY <1>1, <1>5 DEF EndOfFile
<1>6. CASE EndOfFile(m) /\ Len(frames[m]) # 1
  BY <1>6, EndTracked
<1>7. CASE /\ Let(m) \/ FuncDef(m) \/ LazyImport(m) \/ Import(m) \/ Use(m) \/ Call(m)
           /\ ~Fail(m)
  BY <1>7, PlainTracked
<1>8. QED
  BY <1>2, <1>3, <1>4, <1>5, <1>6, <1>7 DEF Step

\* A running backend begins with no bindings and nothing loaded.
LEMMA CycleInit ==
  ASSUME Init
  PROVE  CycleInv
<1>1. Shapes /\ files \in Programs
  BY DEF Init, Shapes
<1>2. DOMAIN scope = Backends /\ \A m \in Backends : DOMAIN scope[m] = DOMAIN files
  BY DEF Init
<1>3. ASSUME NEW m \in Backends PROVE Tracked(m)
  <2> DEFINE b == Begin("main", Nothing)
  <2>1. DOMAIN b = FrameFields /\ b.file = "main" /\ b.at = 1 /\ b.snapshot = Nothing
    BY DEF Begin, FrameFields
  <2>2. frames[m] = <<b>> /\ loading[m] = <<>> /\ cache[m] = Nothing
    BY <1>3 DEF Init
  <2>3. DOMAIN Nothing = {}
    BY DEF Nothing
  <2>4. \A p, L : Labels(p, L, Nothing)
    BY <2>3 DEF Labels
  <2>5. \A f \in DOMAIN files : scope[m][f] = Nothing
    BY <1>3 DEF Init
  <2> HIDE DEF b
  <2>6. <<b>> \in Seq({b}) /\ Len(<<b>>) = 1 /\ <<b>>[1] = b /\ <<b>> # <<>>
    OBVIOUS
  <2>7. Piled(files, DOMAIN cache[m], frames[m])
    <3>1. IsSequence(frames[m])
      BY <2>2, <2>6, OwnSet
    <3>2. "main" \in DOMAIN files
      BY <1>1, ProgramsAssumption
    <3>3. \A k \in 1..1 : frames[m][k] = b /\ 1..k - 1 = {}
      BY <2>2, <2>6
    <3>4. Len(frames[m]) = 1 /\ frames[m] # <<>>
      BY <2>2, <2>6
    <3>5. ASSUME NEW k \in 1..1
          PROVE  /\ DOMAIN frames[m][k] = FrameFields /\ frames[m][k].file \in DOMAIN files
                 /\ frames[m][k].at \in Nat \ {0}
                 /\ Labels(files, DOMAIN cache[m], frames[m][k].snapshot)
                 /\ \A j \in 1..k - 1 : frames[m][k].file \in Reaches(files, frames[m][j].file)
      BY <2>1, <2>4, <3>2, <3>3
    <3>6. QED
      BY <3>1, <3>4, <3>5 DEF Piled
  <2>8. Known(loading[m], aborted[m] \cup DOMAIN cache[m], frames[m])
    <3>1. <<>> \in Seq({}) /\ Len(<<>>) = 0 /\ Len(frames[m]) = 1
      BY <2>2, <2>6
    <3>2. IsSequence(loading[m])
      BY <2>2, <3>1, OwnSet
    <3>3. ToSet(loading[m]) = {}
      <4>1. loading[m] \in Seq({})
        BY <2>2, <3>1
      <4>2. ToSet(loading[m]) \subseteq {}
        BY ONLY <4>1, ToSetDef
      <4>3. QED
        BY <4>2
    <3>4. QED
      BY <2>2, <3>1, <3>2, <3>3 DEF Known
  <2>9. Labelling(m)
    BY <2>2, <2>3, <2>4, <2>5 DEF Labelling
  <2>10. QED
    BY <2>7, <2>8, <2>9 DEF Tracked
<1>4. QED
  BY <1>1, <1>2, <1>3 DEF CycleInv

\* The invariant is inductive.
LEMMA CycleNext ==
  ASSUME CycleInv, [Next]_vars
  PROVE  CycleInv'
<1>1. CASE UNCHANGED vars
  BY <1>1 DEF vars, CycleInv, Shapes, Tracked, Labelling
<1>2. ASSUME NEW m \in Backends, Step(m) PROVE CycleInv'
  <2>1. Shapes' /\ Others(m) /\ files' = files
    BY <1>2, StepShapes DEF CycleInv
  <2>2. Tracked(m)' /\ Scoped(m)
    BY <1>2, StepTracked
  <2>3. ASSUME NEW o \in Backends \ {m} PROVE Tracked(o)'
    <3>1. /\ frames'[o] = frames[o] /\ loading'[o] = loading[o] /\ cache'[o] = cache[o]
          /\ aborted'[o] = aborted[o] /\ files' = files /\ scope'[o] = scope[o]
      BY <2>1, <2>2 DEF Others, Scoped
    <3>2. Tracked(o)
      BY DEF CycleInv
    <3>3. QED
      BY <3>1, <3>2 DEF Tracked, Labelling
  <2>4. \A o \in Backends : Tracked(o)'
    BY <2>2, <2>3
  <2>5. DOMAIN scope' = Backends /\ \A o \in Backends : DOMAIN scope'[o] = DOMAIN files'
    BY <2>1, <2>2 DEF Scoped
  <2>6. files' \in Programs
    BY <2>1 DEF CycleInv
  <2>7. QED
    BY <2>1, <2>4, <2>5, <2>6 DEF CycleInv
<1>3. QED
  BY <1>1, <1>2 DEF Next

\* The circular-import check of load_module refuses a file only if it is part
\* of a circle of imports, or a rescued raise has ended its load: no order of
\* imports, lazy imports and calls that force one from another file makes it
\* refuse a program that has no circle.
THEOREM OnlyCirclesAreCircular == Spec => []CircularOnlyInCycles
<1>1. CycleInv => CircularOnlyInCycles
  <2>1. SUFFICES ASSUME CycleInv, NEW m \in Backends, ~AtEnd(m), NEW f \in Needed(m),
                        InProgress(m, f), f \notin aborted[m]
                 PROVE  f \in Reaches(files, f)
    BY DEF CircularOnlyInCycles
  <2>2. PICK k \in 1..Len(frames[m]) : frames[m][k].file = f
    <3>1. f \notin DOMAIN cache[m]
      BY NeededNotLoaded
    <3>2. f \in ToSet(loading[m])
      BY <2>1 DEF InProgress
    <3>3. Known(loading[m], aborted[m] \cup DOMAIN cache[m], frames[m])
      BY <2>1 DEF CycleInv, Tracked
    <3>4. QED
      BY <2>1, <3>1, <3>2, <3>3 DEF Known
  <2>3. Piled(files, DOMAIN cache[m], frames[m])
    BY <2>1 DEF CycleInv, Tracked
  <2>4. f \in DOMAIN files
    BY <2>2, <2>3 DEF Piled
  <2>5. f \in Reaches(files, InFile(m))
    BY <2>1, <2>4, NeededReached
  <2>6. Len(frames[m]) \in Nat \ {0} /\ InFile(m) = frames[m][Len(frames[m])].file
    BY <2>1, ItsFrame DEF InFile
  <2>7. CASE k = Len(frames[m])
    BY <2>2, <2>5, <2>6, <2>7
  <2>8. CASE k # Len(frames[m])
    <3>1. Len(frames[m]) \in 1..Len(frames[m]) /\ k \in 1..Len(frames[m]) - 1
      BY <2>6, <2>8
    <3>2. InFile(m) \in Reaches(files, f)
      BY <2>2, <2>3, <2>6, <3>1 DEF Piled
    <3>3. QED
      BY <2>5, <3>2, ReachesFurther
  <2>9. QED
    BY <2>7, <2>8
<1>2. QED
  BY <1>1, CycleInit, CycleNext, PTL DEF Spec

-----------------------------------------------------------------------------
(* What a file has defined stays as it defined it.                         *)

\* The map has the names that the first k - 1 statements of q define.
Keeps(q, k, map) == \A x \in Defines(q, k) : x \in DOMAIN map /\ map[x] = Num(LastOf(q, k, x))

\* Where the k-th of the frames u finds the names it has defined, when its
\* backend is done with those within it: the scopes are s.
Held(m, u, s, k) ==
  IF m = "vm" THEN IF k = Len(u) THEN s["main"] ELSE u[k + 1].snapshot ELSE s[u[k].file]

Kept(p, m, u, s) ==
  \A k \in 1..Len(u) : /\ u[k].at <= Len(p[u[k].file]) + 1
                       /\ Keeps(p[u[k].file], u[k].at, Held(m, u, s, k))

\* No file is evaluated within itself.
Apart(u) == u[1].file = "main" /\ \A k \in 1..Len(u) : \A j \in 1..k - 1 : u[j].file # u[k].file

\* The files that have begun: they are being evaluated, or loaded.
Begun(u, L) == {u[k].file : k \in 1..Len(u)} \cup L

\* A number that is bound to a name was bound by a `let` of one of the files F.
From(p, F, map) ==
  \A x \in DOMAIN map :
    map[x].kind = "num" =>
      \E g \in F : \E s \in ToSet(p[g]) : s.op = "let" /\ s.name = x /\ Num(s.n) = map[x]

\* So the globals of the VM, and those of a snapshot by files that had begun
\* when it was taken; the tree-walker's modules begin with no bindings.
Traced(p, m, u, s, L) ==
  /\ m = "vm" => From(p, Begun(u, L), s["main"])
  /\ \A k \in 2..Len(u) : IF m = "vm" THEN From(p, Begun(u, L) \ {u[k].file}, u[k].snapshot)
                          ELSE u[k].snapshot = Nothing

\* The exports c have what their files have defined, but what the VM overlooks.
Exported(p, m, c) ==
  \A f \in DOMAIN c :
    /\ f \in DOMAIN p
    /\ \A x \in Defines(p[f], Len(p[f]) + 1) :
         LET v == Num(LastOf(p[f], Len(p[f]) + 1, x))
         IN \/ x \in DOMAIN c[f] /\ c[f][x] = v
            \/ m = "vm" /\ \E g \in DOMAIN p \ {f} : \E s \in ToSet(p[g]) :
                             s.op = "let" /\ s.name = x /\ Num(s.n) = v

Owned(m) ==
  /\ Apart(frames[m]) /\ Kept(files, m, frames[m], scope[m])
  /\ Traced(files, m, frames[m], scope[m], DOMAIN cache[m])
  /\ Exported(files, m, cache[m])

OwnInv ==
  /\ LoadInv /\ CycleInv
  /\ \A m \in Backends : ~Bumped /\ aborted[m] = {} => Owned(m)

\* What one more statement defines.
LEMMA DefinesNext ==
  ASSUME NEW q, NEW k \in Nat \ {0}, NEW x \in Defines(q, k + 1)
  PROVE  \/ q[k].op = "let" /\ q[k].name = x /\ LastOf(q, k + 1, x) = q[k].n
         \/ /\ ~(q[k].op = "let" /\ q[k].name = x)
            /\ x \in Defines(q, k) /\ LastOf(q, k + 1, x) = LastOf(q, k, x)
<1>1. PICK j \in 1..k : q[j].op = "let" /\ q[j].name = x
  BY DEF Defines
<1>2. x \notin Names(q, {"reads", "bumps", "lazy", "import"})
  BY DEF Defines
<1> DEFINE at(n) == {i \in 1..n - 1 : q[i].op = "let" /\ q[i].name = x}
           last(n) == CHOOSE i \in at(n) : \A o \in at(n) : o <= i
<1>3. \A n : LastOf(q, n, x) = q[last(n)].n
  BY DEF LastOf
<1>4. CASE q[k].op = "let" /\ q[k].name = x
  <2>1. k \in at(k + 1) /\ \A o \in at(k + 1) : o \in Nat /\ o <= k
    BY <1>4
  <2>2. last(k + 1) \in at(k + 1) /\ \A o \in at(k + 1) : o <= last(k + 1)
    <3> HIDE DEF at
    <3>1. QED
      BY <2>1
  <2>3. last(k + 1) = k
    <3> HIDE DEF at, last
    <3>1. QED
      BY <2>1, <2>2
  <2>4. QED
    BY <1>3, <1>4, <2>3
<1>5. CASE ~(q[k].op = "let" /\ q[k].name = x)
  <2>1. at(k + 1) = at(k)
    BY <1>5
  <2>2. last(k + 1) = last(k)
    <3> HIDE DEF at
    <3>1. QED
      BY <2>1
  <2>3. j \in 1..k - 1
    BY <1>1, <1>5
  <2>4. x \in Defines(q, k)
    BY <1>1, <1>2, <2>3 DEF Defines
  <2>5. LastOf(q, k + 1, x) = LastOf(q, k, x)
    <3> HIDE DEF last
    <3>1. QED
      BY <1>3, <2>2
  <2>6. QED
    BY <1>5, <2>4, <2>5
<1>6. QED
  BY <1>4, <1>5

\* A name that `let` alone defines is that of no other definition.
LEMMA DefinesAlone ==
  ASSUME NEW q, IsSequence(q), NEW k, NEW x \in Defines(q, k), NEW j \in 1..Len(q),
         q[j].op \in {"reads", "bumps", "lazy", "import"}
  PROVE  q[j].name # x
<1>1. q[j] \in ToSet(q)
  BY ToSetDef DEF IsSequence
<1>2. x \notin Names(q, {"reads", "bumps", "lazy", "import"})
  BY DEF Defines
<1>3. QED
  BY <1>1, <1>2 DEF Names

\* The map after one more `let`.
LEMMA KeepsBound ==
  ASSUME NEW q, NEW k \in Nat \ {0}, NEW map, Keeps(q, k, map), q[k].op = "let",
         NEW y, y = q[k].name, NEW v, v = Num(q[k].n)
  PROVE  Keeps(q, k + 1, Bound(y, v, map))
<1> DEFINE b == Bound(y, v, map)
<1>1. DOMAIN b = DOMAIN map \cup {y} /\ \A x \in DOMAIN b : b[x] = IF x = y THEN v ELSE map[x]
  BY DEF Bound
<1> HIDE DEF b
<1>2. ASSUME NEW x \in Defines(q, k + 1)
      PROVE  x \in DOMAIN b /\ b[x] = Num(LastOf(q, k + 1, x))
  <2>1. CASE q[k].op = "let" /\ q[k].name = x /\ LastOf(q, k + 1, x) = q[k].n
    BY <1>1, <2>1
  <2>2. CASE /\ ~(q[k].op = "let" /\ q[k].name = x)
             /\ x \in Defines(q, k) /\ LastOf(q, k + 1, x) = LastOf(q, k, x)
    <3>1. x # y
      BY <2>2
    <3>2. x \in DOMAIN map /\ map[x] = Num(LastOf(q, k, x))
      BY <2>2 DEF Keeps
    <3>3. QED
      BY <1>1, <2>2, <3>1, <3>2
  <2>3. QED
    BY <2>1, <2>2, DefinesNext
<1>3. QED
  BY <1>2 DEF Keeps, b

\* The map is as before after a statement that defines nothing.
LEMMA KeepsOn ==
  ASSUME NEW q, NEW k \in Nat \ {0}, NEW map, Keeps(q, k, map), q[k].op # "let"
  PROVE  Keeps(q, k + 1, map)
<1>1. ASSUME NEW x \in Defines(q, k + 1)
      PROVE  x \in DOMAIN map /\ map[x] = Num(LastOf(q, k + 1, x))
  <2>1. x \in Defines(q, k) /\ LastOf(q, k + 1, x) = LastOf(q, k, x)
    BY DefinesNext
  <2>2. QED
    BY <2>1 DEF Keeps
<1>2. QED
  BY <1>1 DEF Keeps

\* What is put before other bindings is kept.
LEMMA KeepsBefore ==
  ASSUME NEW q, NEW k, NEW map, Keeps(q, k, map), NEW rest
  PROVE  Keeps(q, k, Before(map, rest))
BY DEF Keeps, Before

\* A number bound by a `let` of one of the files, or what is no number.
LEMMA FromBound ==
  ASSUME NEW p, NEW F, NEW map, From(p, F, map), NEW y, NEW v,
         v.kind = "num" => \E g \in F : \E s \in ToSet(p[g]) : s.op = "let" /\ s.name = y /\ Num(s.n) = v
  PROVE  From(p, F, Bound(y, v, map))
<1> DEFINE b == Bound(y, v, map)
<1>1. DOMAIN b = DOMAIN map \cup {y} /\ \A x \in DOMAIN b : b[x] = IF x = y THEN v ELSE map[x]
  BY DEF Bound
<1> HIDE DEF b
<1>2. ASSUME NEW x \in DOMAIN b, b[x].kind = "num"
      PROVE  \E g \in F : \E s \in ToSet(p[g]) : s.op = "let" /\ s.name = x /\ Num(s.n) = b[x]
  <2>1. CASE x = y
    BY <1>1, <1>2, <2>1
  <2>2. CASE x # y
    <3>1. x \in DOMAIN map /\ b[x] = map[x]
      BY <1>1, <2>2
    <3>2. QED
      BY <1>2, <3>1 DEF From
  <2>3. QED
    BY <2>1, <2>2
<1>3. QED
  BY <1>2 DEF From, b

\* One map before another.
LEMMA FromBefore ==
  ASSUME NEW p, NEW F, NEW map, From(p, F, map), NEW rest, From(p, F, rest)
  PROVE  From(p, F, Before(map, rest))
<1> DEFINE b == Before(map, rest)
<1>1. /\ DOMAIN b = DOMAIN map \cup DOMAIN rest
      /\ \A x \in DOMAIN b : b[x] = IF x \in DOMAIN map THEN map[x] ELSE rest[x]
  BY DEF Before
<1> HIDE DEF b
<1>2. ASSUME NEW x \in DOMAIN b, b[x].kind = "num"
      PROVE  \E g \in F : \E s \in ToSet(p[g]) : s.op = "let" /\ s.name = x /\ Num(s.n) = b[x]
  <2>1. CASE x \in DOMAIN map
    <3>1. b[x] = map[x]
      BY <1>1, <2>1
    <3>2. QED
      BY <1>2, <2>1, <3>1 DEF From
  <2>2. CASE x \notin DOMAIN map
    <3>1. x \in DOMAIN rest /\ b[x] = rest[x]
      BY <1>1, <2>2
    <3>2. QED
      BY <1>2, <3>1 DEF From
  <2>3. QED
    BY <2>1, <2>2
<1>3. QED
  BY <1>2 DEF From, b

\* More files may have bound it.
LEMMA FromGrow ==
  ASSUME NEW p, NEW F, NEW G, F \subseteq G, NEW map, From(p, F, map)
  PROVE  From(p, G, map)
BY DEF From

\* The map r is the map s, but for names not of D that it binds to no number.
Touched(D, s, r) ==
  /\ DOMAIN s \subseteq DOMAIN r
  /\ \A x \in DOMAIN r : (x \in DOMAIN s /\ r[x] = s[x]) \/ (x \notin D /\ r[x].kind # "num")

\* One more such name.
LEMMA TouchedBound ==
  ASSUME NEW D, NEW s, NEW r, Touched(D, s, r), NEW y, y \notin D, NEW v, v.kind # "num"
  PROVE  Touched(D, s, Bound(y, v, r))
<1> DEFINE b == Bound(y, v, r)
<1>1. DOMAIN b = DOMAIN r \cup {y} /\ \A x \in DOMAIN b : b[x] = IF x = y THEN v ELSE r[x]
  BY DEF Bound
<1> HIDE DEF b
<1>2. DOMAIN s \subseteq DOMAIN b
  BY <1>1 DEF Touched
<1>3. ASSUME NEW x \in DOMAIN b
      PROVE  (x \in DOMAIN s /\ b[x] = s[x]) \/ (x \notin D /\ b[x].kind # "num")
  <2>1. CASE x = y
    BY <1>1, <2>1
  <2>2. CASE x # y
    <3>1. x \in DOMAIN r /\ b[x] = r[x]
      BY <1>1, <2>2
    <3>2. QED
      BY <3>1 DEF Touched
  <2>3. QED
    BY <2>1, <2>2
<1>4. QED
  BY <1>2, <1>3 DEF Touched, b

\* Or none.
LEMMA TouchedNot ==
  ASSUME NEW D, NEW s
  PROVE  Touched(D, s, s)
BY DEF Touched

\* Such names change neither what a file has defined nor whose the numbers are.
LEMMA TouchedKeeps ==
  ASSUME NEW q, NEW k, NEW s, NEW r, Touched(Defines(q, k), s, r)
  PROVE  /\ Keeps(q, k, s) => Keeps(q, k, r)
         /\ \A p, F : From(p, F, s) => From(p, F, r)
<1>1. Keeps(q, k, s) => Keeps(q, k, r)
  BY DEF Touched, Keeps
<1>2. ASSUME NEW p, NEW F, From(p, F, s), NEW x \in DOMAIN r, r[x].kind = "num"
      PROVE  \E g \in F : \E d \in ToSet(p[g]) : d.op = "let" /\ d.name = x /\ Num(d.n) = r[x]
  <2>1. x \in DOMAIN s /\ r[x] = s[x]
    BY <1>2 DEF Touched
  <2>2. QED
    BY <1>2, <2>1 DEF From
<1>3. QED
  BY <1>1, <1>2 DEF From

\* The scopes r are those of s but for such names, in the scope h.
Restates(p, h, D, s, r) == Touched(D, s[h], r[h]) /\ \A g \in DOMAIN p \ {h} : r[g] = s[g]

\* They change nothing of what the files being evaluated have defined.
LEMMA Retouched ==
  ASSUME NEW p, NEW L, NEW m, NEW u, NEW s, Piled(p, L, u), Apart(u), Kept(p, m, u, s), Traced(p, m, u, s, L),
         NEW n, n = Len(u), NEW f, f = u[n].file, NEW k, k = u[n].at, NEW h, h = IF m = "vm" THEN "main" ELSE f,
         NEW r, Restates(p, h, Defines(p[f], k), s, r)
  PROVE  Kept(p, m, u, r) /\ Traced(p, m, u, r, L)
<1>1. n \in Nat \ {0} /\ \A j \in 1..n : u[j].file \in DOMAIN p
  BY EmptySeq DEF Piled, IsSequence
<1>2. Touched(Defines(p[f], k), s[h], r[h]) /\ \A g \in DOMAIN p \ {h} : r[g] = s[g]
  BY DEF Restates
<1>3. ASSUME NEW j \in 1..n
      PROVE  u[j].at <= Len(p[u[j].file]) + 1 /\ Keeps(p[u[j].file], u[j].at, Held(m, u, r, j))
  <2>1. u[j].at <= Len(p[u[j].file]) + 1 /\ Keeps(p[u[j].file], u[j].at, Held(m, u, s, j))
    BY DEF Kept
  <2>2. CASE j = n
    <3>1. Held(m, u, s, j) = s[h] /\ Held(m, u, r, j) = r[h] /\ u[j].file = f /\ u[j].at = k
      BY <2>2 DEF Held
    <3>2. QED
      BY <1>2, <2>1, <3>1, TouchedKeeps
  <2>3. CASE j # n
    <3>1. j \in 1..n - 1
      BY <1>1, <2>3
    <3>2. m # "vm" => u[j].file \in DOMAIN p \ {h}
      BY <1>1, <3>1 DEF Apart
    <3>3. Held(m, u, r, j) = Held(m, u, s, j)
      BY <1>2, <2>3, <3>2 DEF Held
    <3>4. QED
      BY <2>1, <3>3
  <2>4. QED
    BY <2>2, <2>3
<1>4. Traced(p, m, u, r, L)
  <2>1. ASSUME m = "vm" PROVE From(p, Begun(u, L), r["main"])
    <3>1. From(p, Begun(u, L), s["main"]) /\ h = "main"
      BY <2>1 DEF Traced
    <3>2. QED
      BY <1>2, <3>1, TouchedKeeps
  <2>2. QED
    BY <2>1 DEF Traced
<1>5. QED
  BY <1>3, <1>4 DEF Kept

\* The backend has gone on by one statement of the innermost file.
Went(u, v) ==
  /\ IsSequence(v) /\ Len(v) = Len(u)
  /\ \A k \in 1..Len(u) :
       /\ v[k].file = u[k].file /\ v[k].snapshot = u[k].snapshot
       /\ v[k].at = IF k = Len(u) THEN u[k].at + 1 ELSE u[k].at

\* The scopes r are those of s but for the binding of y to v, in the scope h.
Rebinds(p, s, h, y, v, r) == \A g \in DOMAIN p : r[g] = IF g = h THEN Bound(y, v, s[g]) ELSE s[g]

\* The scopes r after the statement at k of the file f.
Stated(p, m, s, f, k, r) ==
  \/ r = s /\ p[f][k].op # "let"
  \/ /\ p[f][k].op = "let"
     /\ Rebinds(p, s, IF m = "vm" THEN "main" ELSE f, p[f][k].name, Num(p[f][k].n), r)

\* The statement binds nothing, or by a `let` a name in the scope of its file.
LEMMA GoneOn ==
  ASSUME NEW p, NEW L, NEW m, NEW u, NEW s, Piled(p, L, u), Apart(u), Kept(p, m, u, s), Traced(p, m, u, s, L),
         "main" \in DOMAIN p, NEW v, Went(u, v), NEW n, n = Len(u), NEW f, f = u[n].file, NEW k, k = u[n].at,
         IsSequence(p[f]), k <= Len(p[f]), NEW r, Stated(p, m, s, f, k, r)
  PROVE  Apart(v) /\ Kept(p, m, v, r) /\ Traced(p, m, v, r, L)
<1> DEFINE q == p[f]
           h == IF m = "vm" THEN "main" ELSE f
<1>1. n \in Nat \ {0} /\ n \in 1..Len(u)
  <2>1. Len(u) \in Nat \ {0}
    BY EmptySeq DEF Piled, IsSequence
  <2>2. QED
    BY <2>1
<1>2. /\ \A j \in 1..n : u[j].file \in DOMAIN p /\ u[j].at \in Nat \ {0}
      /\ f \in DOMAIN p /\ k \in Nat \ {0} /\ Len(q) \in Nat
  <2>1. \A j \in 1..n : u[j].file \in DOMAIN p /\ u[j].at \in Nat \ {0}
    BY DEF Piled
  <2>2. Len(q) \in Nat
    BY LenProperties DEF IsSequence
  <2>3. QED
    BY <1>1, <2>1, <2>2
<1>3. /\ Len(v) = n
      /\ \A j \in 1..n : /\ v[j].file = u[j].file /\ v[j].snapshot = u[j].snapshot
                         /\ v[j].at = IF j = n THEN u[j].at + 1 ELSE u[j].at
  BY DEF Went
<1>4. Held(m, u, s, n) = s[h] /\ Held(m, v, r, n) = r[h]
  BY <1>1, <1>3 DEF Held
<1>5. Keeps(q, k, s[h])
  BY <1>1, <1>4 DEF Kept
<1>6. Keeps(q, k + 1, r[h]) /\ \A g \in DOMAIN p : g # h => r[g] = s[g]
  <2>1. CASE r = s /\ p[f][k].op # "let"
    BY <1>2, <1>5, <2>1, KeepsOn
  <2>2. CASE ~(r = s /\ p[f][k].op # "let")
    <3>1. PICK y, w : Rebinds(p, s, h, y, w, r) /\ q[k].op = "let" /\ y = q[k].name /\ w = Num(q[k].n)
      BY <2>2 DEF Stated
    <3>2. r[h] = Bound(y, w, s[h]) /\ \A g \in DOMAIN p : g # h => r[g] = s[g]
      BY <1>2, <3>1 DEF Rebinds
    <3>3. Keeps(q, k + 1, Bound(y, w, s[h]))
      <4> HIDE DEF q, h
      <4>1. QED
        BY <1>2, <1>5, <3>1, KeepsBound
    <3>4. QED
      BY <3>2, <3>3
  <2>3. QED
    BY <2>1, <2>2
<1>7. Apart(v)
  <2>1. \A i \in 1..n : \A j \in 1..i - 1 : j \in 1..n /\ u[j].file # u[i].file
    BY <1>1 DEF Apart
  <2>2. \A i \in 1..n : \A j \in 1..i - 1 : v[j].file # v[i].file
    BY <1>3, <2>1
  <2>3. v[1].file = "main"
    BY <1>1, <1>3 DEF Apart
  <2>4. QED
    BY <1>3, <2>2, <2>3 DEF Apart
<1>8. Kept(p, m, v, r)
  <2>1. ASSUME NEW j \in 1..n
        PROVE  v[j].at <= Len(p[v[j].file]) + 1 /\ Keeps(p[v[j].file], v[j].at, Held(m, v, r, j))
    <3>1. CASE j = n
      <4>1. v[j].file = f /\ v[j].at = k + 1
        BY <1>3, <3>1
      <4>2. k + 1 <= Len(p[f]) + 1
        BY <1>2
      <4>3. QED
        BY <1>4, <1>6, <3>1, <4>1, <4>2
    <3>2. CASE j # n
      <4>1. v[j].file = u[j].file /\ v[j].at = u[j].at
        BY <1>3, <3>2
      <4>2. j + 1 \in 1..n /\ j \in 1..n - 1
        BY <1>1, <3>2
      <4>3. v[j + 1].snapshot = u[j + 1].snapshot
        BY <1>3, <4>2
      <4>4. m # "vm" => u[j].file # h /\ u[j].file \in DOMAIN p
        BY <1>1, <1>2, <4>2 DEF Apart
      <4>5. Held(m, v, r, j) = Held(m, u, s, j)
        BY <1>3, <1>6, <3>2, <4>1, <4>3, <4>4 DEF Held
      <4>6. QED
        BY <4>1, <4>5 DEF Kept
    <3>3. QED
      BY <3>1, <3>2
  <2>2. QED
    BY <1>3, <2>1 DEF Kept
<1>9. Traced(p, m, v, r, L)
  <2>1. Begun(v, L) = Begun(u, L)
    <3>1. {v[j].file : j \in 1..n} = {u[j].file : j \in 1..n}
      BY <1>3
    <3>2. QED
      BY <1>3, <3>1 DEF Begun
  <2>2. ASSUME m = "vm" PROVE From(p, Begun(v, L), r["main"])
    <3>1. From(p, Begun(v, L), s["main"]) /\ h = "main"
      BY <2>1, <2>2 DEF Traced
    <3>2. CASE r = s
      BY <3>1, <3>2
    <3>3. CASE r # s
      <4>1. PICK y, w : Rebinds(p, s, h, y, w, r) /\ q[k].op = "let" /\ y = q[k].name /\ w = Num(q[k].n)
        BY <3>3 DEF Stated
      <4>2. r["main"] = Bound(y, w, s["main"])
        BY <3>1, <4>1 DEF Rebinds
      <4>3. q[k].op = "let" /\ y = q[k].name /\ w = Num(q[k].n)
        BY <4>1
      <4>4. q[k] \in ToSet(p[f])
        <5>1. PICK z : z = p[f]
          OBVIOUS
        <5>2. k \in 1..Len(z) /\ IsSequence(z)
          BY <1>2, <5>1
        <5>3. z[k] \in ToSet(z)
          BY ONLY <5>2, ToSetDef DEF IsSequence
        <5>4. QED
          BY <5>1, <5>3
      <4>5. f \in Begun(v, L)
        BY <1>1, <2>1 DEF Begun
      <4>6. w.kind = "num" => \E g \in Begun(v, L) : \E d \in ToSet(p[g]) :
                                d.op = "let" /\ d.name = y /\ Num(d.n) = w
        BY <4>3, <4>4, <4>5
      <4>7. From(p, Begun(v, L), Bound(y, w, s["main"]))
        BY ONLY <3>1, <4>6, FromBound
      <4>8. QED
        BY <4>2, <4>7
    <3>4. QED
      BY <3>2, <3>3
  <2>3. \A j \in 2..n : IF m = "vm" THEN From(p, Begun(v, L) \ {v[j].file}, v[j].snapshot)
                        ELSE v[j].snapshot = Nothing
    <3>1. \A j \in 2..n : j \in 1..n
      BY <1>1
    <3>2. QED
      BY <1>3, <2>1, <3>1 DEF Traced
  <2>4. QED
    BY <1>3, <2>2, <2>3 DEF Traced
<1>10. QED
  BY <1>7, <1>8, <1>9

\* The scopes r when the frame b begins: the tree-walker's file has no bindings.
Opens(p, m, s, b, r) ==
  IF m = "vm" THEN r = s /\ b.snapshot = s["main"]
  ELSE b.snapshot = Nothing /\ \A g \in DOMAIN p \ {b.file} : r[g] = s[g]

\* A file begins that had not.
LEMMA Entered ==
  ASSUME NEW p, NEW L, NEW m, NEW u, NEW s, Piled(p, L, u), Apart(u), Kept(p, m, u, s), Traced(p, m, u, s, L),
         "main" \in DOMAIN p, NEW b, b.file \in DOMAIN p \ Begun(u, L), b.at = 1, IsSequence(p[b.file]),
         NEW v, v = Append(u, b), NEW r, Opens(p, m, s, b, r)
  PROVE  Apart(v) /\ Kept(p, m, v, r) /\ Traced(p, m, v, r, L)
<1>0. IF m = "vm" THEN r = s /\ b.snapshot = s["main"]
      ELSE b.snapshot = Nothing /\ \A g \in DOMAIN p \ {b.file} : r[g] = s[g]
  BY DEF Opens
<1>1. PICK n : n = Len(u)
  OBVIOUS
<1>2. IsSequence(u) /\ u # <<>>
  BY DEF Piled
<1>3. n \in Nat \ {0}
  BY <1>1, <1>2, EmptySeq DEF IsSequence
<1>4. IsSequence(v) /\ Len(v) = n + 1
  BY ONLY <1>1, <1>2, v = Append(u, b), AppendOne
<1>5. v[n + 1] = b /\ \A k \in 1..n : v[k] = u[k]
  BY ONLY <1>1, <1>2, v = Append(u, b), AppendOne
<1>6. \A k \in 1..n : u[k].file \in DOMAIN p /\ u[k].file # b.file
  BY <1>1 DEF Piled, Begun
<1>7. Apart(v)
  <2>1. ASSUME NEW k \in 1..n + 1, NEW j \in 1..k - 1 PROVE v[j].file # v[k].file
    <3>1. CASE k = n + 1
      <4>1. j \in 1..n
        BY <1>3, <3>1
      <4>2. QED
        BY <1>5, <1>6, <3>1, <4>1
    <3>2. CASE k # n + 1
      <4>1. k \in 1..n /\ j \in 1..n
        BY <1>3, <3>2
      <4>2. QED
        BY <1>1, <1>5, <4>1 DEF Apart
    <3>3. QED
      BY <3>1, <3>2
  <2>2. v[1].file = "main"
    BY <1>3, <1>5 DEF Apart
  <2>3. QED
    BY <1>4, <2>1, <2>2 DEF Apart
<1>8. Kept(p, m, v, r)
  <2>1. ASSUME NEW k \in 1..n + 1
        PROVE  v[k].at <= Len(p[v[k].file]) + 1 /\ Keeps(p[v[k].file], v[k].at, Held(m, v, r, k))
    <3>1. CASE k = n + 1
      <4>1. v[k] = b
        BY <1>5, <3>1
      <4>2. Len(p[b.file]) \in Nat
        BY LenProperties DEF IsSequence
      <4>3. Defines(p[b.file], 1) = {}
        BY DEF Defines
      <4>4. QED
        BY <4>1, <4>2, <4>3 DEF Keeps
    <3>2. CASE k # n + 1
      <4>0. k \in 1..n
        BY ONLY <1>3, <3>2, k \in 1..n + 1
      <4>1. k \in 1..n /\ v[k] = u[k]
        BY ONLY <1>5, <4>0
      <4>2. Held(m, v, r, k) = Held(m, u, s, k)
        <5>1. CASE m = "vm" /\ k = n
          BY <1>0, <1>1, <1>4, <1>5, <3>2, <5>1 DEF Held
        <5>2. CASE m = "vm" /\ k # n
          <6>1. k + 1 \in 1..n
            BY <1>3, <4>1, <5>2
          <6>2. v[k + 1] = u[k + 1]
            BY <1>5, <6>1
          <6>3. QED
            BY <1>1, <1>4, <3>2, <5>2, <6>2 DEF Held
        <5>3. CASE m # "vm"
          BY <1>0, <1>6, <4>1, <5>3 DEF Held
        <5>4. QED
          BY <5>1, <5>2, <5>3
      <4>3. QED
        BY <1>1, <4>1, <4>2 DEF Kept
    <3>3. QED
      BY <3>1, <3>2
  <2>2. QED
    BY <1>4, <2>1 DEF Kept
<1>9. Traced(p, m, v, r, L)
  <2>1. Begun(v, L) = Begun(u, L) \cup {b.file}
    <3>1. 1..n + 1 = 1..n \cup {n + 1}
      BY <1>3
    <3>2. {v[k].file : k \in 1..n} = {u[k].file : k \in 1..n}
      BY ONLY <1>5
    <3>3. {v[k].file : k \in 1..n + 1} = {u[k].file : k \in 1..n} \cup {b.file}
      BY ONLY <1>5, <3>1, <3>2
    <3>4. QED
      BY <1>1, <1>4, <3>3 DEF Begun
  <2>2. b.file \notin Begun(u, L)
    OBVIOUS
  <2>3. ASSUME m = "vm" PROVE From(p, Begun(v, L), r["main"])
    <3>1. From(p, Begun(u, L), r["main"])
      BY <1>0, <2>3 DEF Traced
    <3>2. Begun(u, L) \subseteq Begun(v, L)
      BY <2>1
    <3>3. QED
      BY ONLY <3>1, <3>2, FromGrow
  <2>4. ASSUME NEW k \in 2..n + 1
        PROVE  IF m = "vm" THEN From(p, Begun(v, L) \ {v[k].file}, v[k].snapshot)
               ELSE v[k].snapshot = Nothing
    <3>1. CASE k = n + 1
      <4>1. v[k] = b /\ Begun(v, L) \ {b.file} = Begun(u, L)
        BY <1>5, <2>1, <2>2, <3>1
      <4>2. m = "vm" => From(p, Begun(u, L), b.snapshot)
        BY <1>0 DEF Traced
      <4>3. QED
        BY <1>0, <4>1, <4>2
    <3>2. CASE k # n + 1
      <4>0. k \in 2..n /\ k \in 1..n
        BY ONLY <1>3, <3>2, k \in 2..n + 1
      <4>1. k \in 2..n /\ k \in 1..n /\ v[k] = u[k]
        BY ONLY <1>5, <4>0
      <4>2. IF m = "vm" THEN From(p, Begun(u, L) \ {u[k].file}, u[k].snapshot)
            ELSE u[k].snapshot = Nothing
        BY <1>1, <4>1 DEF Traced
      <4>3. Begun(u, L) \ {u[k].file} \subseteq Begun(v, L) \ {v[k].file}
        BY <2>1, <4>1
      <4>4. m = "vm" => From(p, Begun(v, L) \ {v[k].file}, v[k].snapshot)
        BY <4>1, <4>2, <4>3, FromGrow
      <4>5. QED
        BY <4>1, <4>2, <4>4
    <3>3. QED
      BY <3>1, <3>2
  <2>5. QED
    BY <1>4, <2>3, <2>4 DEF Traced
<1>10. QED
  BY <1>7, <1>8, <1>9

\* The innermost file ends, and the VM puts the globals back.
LEMMA LeftAgain ==
  ASSUME NEW p, NEW L, NEW m, NEW u, NEW s, Piled(p, L, u), Apart(u), Kept(p, m, u, s), Traced(p, m, u, s, L),
         NEW n \in Nat \ {0}, Len(u) = n + 1, NEW v, Len(v) = n, \A k \in 1..n : v[k] = u[k],
         NEW r, IF m = "vm" THEN r["main"] = Before(u[n + 1].snapshot, s["main"]) ELSE r = s
  PROVE  Apart(v) /\ Kept(p, m, v, r) /\ Traced(p, m, v, r, L \cup {u[n + 1].file})
<1> DEFINE K == L \cup {u[n + 1].file}
<1>1. Apart(v)
  BY DEF Apart
<1>2. Kept(p, m, v, r)
  <2>1. ASSUME NEW k \in 1..n
        PROVE  v[k].at <= Len(p[v[k].file]) + 1 /\ Keeps(p[v[k].file], v[k].at, Held(m, v, r, k))
    <3>1. v[k] = u[k] /\ k # n + 1 /\ k \in 1..n + 1
      OBVIOUS
    <3>2. u[k].at <= Len(p[u[k].file]) + 1 /\ Keeps(p[u[k].file], u[k].at, Held(m, u, s, k))
      BY <3>1 DEF Kept
    <3>3. CASE m = "vm" /\ k = n
      <4>1. Held(m, u, s, k) = u[n + 1].snapshot /\ Held(m, v, r, k) = r["main"]
        BY <3>1, <3>3 DEF Held
      <4>2. Keeps(p[u[k].file], u[k].at, Before(u[n + 1].snapshot, s["main"]))
        BY <3>2, <4>1, KeepsBefore
      <4>3. QED
        BY <3>1, <3>2, <3>3, <4>1, <4>2
    <3>4. CASE ~(m = "vm" /\ k = n)
      <4>1. m = "vm" => v[k + 1] = u[k + 1]
        BY <3>4
      <4>2. Held(m, v, r, k) = Held(m, u, s, k)
        BY <3>1, <3>4, <4>1 DEF Held
      <4>3. QED
        BY <3>1, <3>2, <4>2
    <3>5. QED
      BY <3>3, <3>4
  <2>2. QED
    BY <2>1 DEF Kept
<1>3. Traced(p, m, v, r, K)
  <2>1. Begun(v, K) = Begun(u, L)
    <3>1. 1..n + 1 = 1..n \cup {n + 1}
      OBVIOUS
    <3>2. {v[k].file : k \in 1..n} = {u[k].file : k \in 1..n}
      OBVIOUS
    <3>3. {u[k].file : k \in 1..n + 1} = {u[k].file : k \in 1..n} \cup {u[n + 1].file}
      BY <3>1
    <3>4. QED
      BY <3>2, <3>3 DEF Begun
  <2>2. ASSUME m = "vm" PROVE From(p, Begun(v, K), r["main"])
    <3>0. n + 1 \in 2..Len(u)
      OBVIOUS
    <3>1. From(p, Begun(u, L), s["main"]) /\ From(p, Begun(u, L) \ {u[n + 1].file}, u[n + 1].snapshot)
      BY <2>2, <3>0 DEF Traced
    <3>2. Begun(u, L) \ {u[n + 1].file} \subseteq Begun(u, L)
      OBVIOUS
    <3>3. From(p, Begun(u, L), u[n + 1].snapshot)
      BY ONLY <3>1, <3>2, FromGrow
    <3>4. From(p, Begun(u, L), Before(u[n + 1].snapshot, s["main"]))
      BY ONLY <3>1, <3>3, FromBefore
    <3>5. QED
      BY <2>1, <2>2, <3>4
  <2>3. \A k \in 2..n : k \in 2..n + 1 /\ k \in 1..n
    OBVIOUS
  <2>4. \A k \in 2..n : IF m = "vm" THEN From(p, Begun(v, K) \ {v[k].file}, v[k].snapshot)
                        ELSE v[k].snapshot = Nothing
    BY <2>1, <2>3 DEF Traced
  <2>5. QED
    BY <2>2, <2>4 DEF Traced
<1>4. QED
  BY <1>1, <1>2, <1>3

\* The bindings e are those that are new or have another value than before.
Changed(was, now, e) ==
  /\ DOMAIN e = {x \in DOMAIN now : x \notin DOMAIN was \/ now[x] # was[x]}
  /\ \A x \in DOMAIN e : e[x] = now[x]

\* What it exports is what it has defined: what is not told apart from the
\* snapshot was a number of another file's.
LEMMA ExportsDefined ==
  ASSUME NEW p, NEW m \in Backends, NEW c, NEW u, NEW s, Piled(p, DOMAIN c, u), Kept(p, m, u, s),
         Traced(p, m, u, s, DOMAIN c), Exported(p, m, c),
         NEW n \in Nat \ {0, 1}, Len(u) = n, NEW f, f = u[n].file, IsSequence(p[f]), ~(u[n].at <= Len(p[f])),
         NEW now, now = Held(m, u, s, n), NEW was, was = u[n].snapshot, NEW e, Changed(was, now, e),
         NEW d, d = Bound(f, e, c)
  PROVE  Exported(p, m, d)
<1>0. /\ DOMAIN e = {x \in DOMAIN now : x \notin DOMAIN was \/ now[x] # was[x]}
      /\ \A x \in DOMAIN e : e[x] = now[x]
      /\ DOMAIN d = DOMAIN c \cup {f} /\ \A g \in DOMAIN d : d[g] = IF g = f THEN e ELSE c[g]
  BY DEF Changed, Bound
<1>1. n \in 1..Len(u) /\ n \in 2..Len(u)
  OBVIOUS
<1>2. f \in DOMAIN p /\ u[n].at \in Nat \ {0}
  BY <1>1 DEF Piled
<1>3. Len(p[f]) \in Nat
  BY LenProperties DEF IsSequence
<1>4. u[n].at <= Len(p[f]) + 1 /\ Keeps(p[f], u[n].at, now)
  BY <1>1 DEF Kept
<1>5. u[n].at = Len(p[f]) + 1
  BY <1>2, <1>3, <1>4
<1>6. ASSUME NEW x \in Defines(p[f], Len(p[f]) + 1), NEW w, w = Num(LastOf(p[f], Len(p[f]) + 1, x)),
             ~(x \in DOMAIN e /\ e[x] = w)
      PROVE  m = "vm" /\ \E g \in DOMAIN p \ {f} : \E t \in ToSet(p[g]) :
                           t.op = "let" /\ t.name = x /\ Num(t.n) = w
  <2>1. x \in DOMAIN now /\ now[x] = w
    BY <1>4, <1>5, <1>6 DEF Keeps
  <2>2. x \in DOMAIN was /\ was[x] = w
    BY <1>0, <1>6, <2>1
  <2>3. m = "vm"
    <3>1. m # "vm" => was = Nothing
      BY <1>1 DEF Traced
    <3>2. DOMAIN Nothing = {}
      BY DEF Nothing
    <3>3. QED
      BY <2>2, <3>1, <3>2
  <2>4. From(p, Begun(u, DOMAIN c) \ {f}, was)
    BY <1>1, <2>3 DEF Traced
  <2>5. w.kind = "num"
    BY <1>6 DEF Num
  <2>6. PICK g \in Begun(u, DOMAIN c) \ {f} : \E t \in ToSet(p[g]) :
                           t.op = "let" /\ t.name = x /\ Num(t.n) = w
    BY <2>2, <2>4, <2>5 DEF From
  <2>7. g \in DOMAIN p
    BY <2>6 DEF Begun, Piled, Exported
  <2>8. QED
    BY <2>3, <2>6, <2>7
<1>7. ASSUME NEW g \in DOMAIN d
      PROVE  /\ g \in DOMAIN p
             /\ \A x \in Defines(p[g], Len(p[g]) + 1) :
                  LET v == Num(LastOf(p[g], Len(p[g]) + 1, x))
                  IN \/ x \in DOMAIN d[g] /\ d[g][x] = v
                     \/ m = "vm" /\ \E h \in DOMAIN p \ {g} : \E t \in ToSet(p[h]) :
                                      t.op = "let" /\ t.name = x /\ Num(t.n) = v
  <2>1. CASE g = f
    BY <1>0, <1>2, <1>6, <2>1
  <2>2. CASE g # f
    <3>1. g \in DOMAIN c /\ d[g] = c[g]
      BY <1>0, <2>2
    <3>2. QED
      BY <3>1 DEF Exported
  <2>3. QED
    BY <2>1, <2>2
<1>8. QED
  BY <1>7 DEF Exported

\* The names the file of m has defined so far.
ItsNames(m) == Defines(files[InFile(m)], Frame(m).at)

\* The scopes s of m are as they were, but for names that are none of those.
Rebinding(m, s) == Restates(files, Home(m, InFile(m)), ItsNames(m), scope[m], s[m])

\* What a statement, but one that loads, does to the scopes.
Restated(m, s) ==
  IF Stmt(m).op = "let"
  THEN s = [scope EXCEPT ![m][Home(m, InFile(m))] = Bound(Stmt(m).name, Num(Stmt(m).n), @)]
  ELSE Rebinding(m, s)

\* The names the file has defined are numbers where it keeps its bindings: it
\* sees no lazy import under one.
LEMMA NamesAreNumbers ==
  ASSUME CycleInv, NEW m \in Backends, Owned(m), NEW y, NEW f, m = "vm" \/ f = InFile(m),
         Value(m, f, y).kind = "lazy"
  PROVE  y \notin ItsNames(m)
<1> DEFINE n == Len(frames[m])
           q == files[InFile(m)]
           k == Frame(m).at
           h == Home(m, InFile(m))
<1>1. n \in 1..n /\ InFile(m) = frames[m][n].file /\ k = frames[m][n].at
  BY ItsFrame DEF InFile
<1>2. Held(m, frames[m], scope[m], n) = scope[m][h] /\ h = Home(m, f)
  BY <1>1 DEF Held, Home
<1>3. Keeps(q, k, scope[m][h])
  BY <1>1, <1>2 DEF Owned, Kept
<1>4. ASSUME y \in Defines(q, k) PROVE FALSE
  <2>1. y \in DOMAIN scope[m][h] /\ scope[m][h][y] = Num(LastOf(q, k, y))
    BY <1>3, <1>4 DEF Keeps
  <2>2. Value(m, f, y) = Num(LastOf(q, k, y))
    BY <1>2, <2>1 DEF Value, Sees, Before
  <2>3. Num(LastOf(q, k, y)).kind = "num"
    BY DEF Num
  <2>4. QED
    BY ONLY <2>2, <2>3, Value(m, f, y).kind = "lazy"
<1>5. QED
  BY <1>4 DEF ItsNames

\* One more name that is none of those.
LEMMA RebindingBound ==
  ASSUME CycleInv, NEW m \in Backends, NEW s, ScopeOK(m, s), Rebinding(m, s),
         NEW h, h = Home(m, InFile(m)), NEW y, y \notin ItsNames(m), NEW v, v.kind # "num"
  PROVE  Rebinding(m, [s EXCEPT ![m][h] = Bound(y, v, @)])
<1> DEFINE r == [s EXCEPT ![m][h] = Bound(y, v, @)]
           D == ItsNames(m)
<1>1. Touched(D, scope[m][h], s[m][h]) /\ \A g \in DOMAIN files \ {h} : s[m][g] = scope[m][g]
  BY DEF Rebinding, Restates
<1>2. h \in DOMAIN files /\ DOMAIN s = Backends /\ DOMAIN s[m] = DOMAIN files
  BY ItsFrame DEF ScopeOK
<1>3. r[m][h] = Bound(y, v, s[m][h]) /\ \A g \in DOMAIN files \ {h} : r[m][g] = s[m][g]
  BY <1>2
<1> HIDE DEF r, D
<1>4. y \notin D
  BY DEF D
<1>5. Touched(D, scope[m][h], Bound(y, v, s[m][h]))
  BY <1>1, <1>4, TouchedBound
<1>6. Rebinding(m, r)
  BY <1>1, <1>3, <1>5 DEF Rebinding, Restates, D
<1>7. QED
  BY <1>6 DEF r

\* The scopes as they are.
LEMMA RebindingNone ==
  ASSUME NEW m \in Backends
  PROVE  Rebinding(m, scope)
BY TouchedNot DEF Rebinding, Restates

\* A definition of such a name.
LEMMA RebindingDefined ==
  ASSUME CycleInv, NEW m \in Backends, NEW y, y \notin ItsNames(m), NEW v, v.kind # "num"
  PROVE  Rebinding(m, Defined(m, y, v))
<1>1. PICK h : h = Home(m, InFile(m))
  OBVIOUS
<1>2. Rebinding(m, [scope EXCEPT ![m][h] = Bound(y, v, @)])
  BY <1>1, RebindingNone, ScopeLabelled, RebindingBound
<1>3. QED
  BY <1>1, <1>2, RebindingNone DEF Defined

\* The read of a name.
LEMMA RebindingRead ==
  ASSUME CycleInv, NEW m \in Backends, Owned(m)
  PROVE  Rebinding(m, Rebound(m)) /\ Rebinding(m, NameRead(m))
<1>1. PICK x : x = Stmt(m).name
  OBVIOUS
<1>2. PICK v : v = Named(m)
  OBVIOUS
<1>3. CASE Value(m, InFile(m), x).kind = "lazy"
  <2>1. v.kind # "num"
    BY <1>1, <1>2, <1>3 DEF Named, Forced, Module
  <2>2. x \notin ItsNames(m)
    BY <1>3, NamesAreNumbers
  <2>3. Rebinding(m, Defined(m, x, v))
    BY <2>1, <2>2, RebindingDefined
  <2>4. QED
    BY <1>1, <1>2, <2>3, RebindingNone DEF Rebound, NameRead
<1>4. CASE Value(m, InFile(m), x).kind # "lazy"
  BY <1>1, <1>4, RebindingNone DEF Rebound, NameRead
<1>5. QED
  BY <1>3, <1>4

\* The read of a called function.
LEMMA RebindingCalled ==
  ASSUME CycleInv, NEW m \in Backends, Owned(m)
  PROVE  Rebinding(m, Recalled(m))
<1>1. PICK y : y = Member(m).key
  OBVIOUS
<1>2. PICK v : v = Read(m)
  OBVIOUS
<1>3. PICK s : s = Rebound(m)
  OBVIOUS
<1>4. PICK f : f = Member(m).of
  OBVIOUS
<1>5. Rebinding(m, s) /\ ScopeOK(m, s)
  BY <1>3, RebindingRead, ReboundLabelled
<1>6. CASE m = "vm" /\ Value(m, f, y).kind = "lazy"
  <2>1. PICK h : h = Home(m, InFile(m))
    OBVIOUS
  <2>2. h = "main"
    BY <1>6, <2>1 DEF Home
  <2>3. v.kind # "num"
    BY <1>1, <1>2, <1>4, <1>6 DEF Read, Forced, Module
  <2>4. y \notin ItsNames(m)
    BY <1>6, NamesAreNumbers
  <2>5. Rebinding(m, [s EXCEPT ![m][h] = Bound(y, v, @)])
    BY <1>5, <2>1, <2>3, <2>4, RebindingBound
  <2>6. Recalled(m) = [s EXCEPT ![m]["main"] = Bound(y, v, @)]
    BY <1>1, <1>2, <1>3, <1>4, <1>6 DEF Recalled
  <2>7. QED
    BY <2>2, <2>5, <2>6
<1>7. CASE ~(m = "vm" /\ Value(m, f, y).kind = "lazy")
  BY <1>1, <1>3, <1>4, <1>5, <1>7 DEF Recalled
<1>8. QED
  BY <1>6, <1>7

\* A definition of another kind has no name that a `let` alone defines.
LEMMA OtherNames ==
  ASSUME CycleInv, NEW m \in Backends, ~AtEnd(m), Stmt(m).op \in {"reads", "bumps", "lazy", "import"}
  PROVE  Stmt(m).name \notin ItsNames(m)
<1> DEFINE q == files[InFile(m)]
           k == Frame(m).at
<1>1. InFile(m) \in DOMAIN files /\ k \in Nat \ {0} /\ files \in Programs
  BY ItsFrame DEF CycleInv
<1>2. IsSequence(q) /\ Len(q) \in Nat
  <2>1. q \in Seq(Statements)
    BY <1>1, ProgramsAssumption
  <2>2. QED
    BY ONLY <2>1, LenProperties, OwnSet
<1>3. k \in 1..Len(q)
  BY <1>1, <1>2 DEF AtEnd
<1>4. Stmt(m) = q[k]
  BY DEF Stmt
<1> HIDE DEF q, k
<1>5. ASSUME NEW y \in Defines(q, k) PROVE q[k].name # y
  BY <1>2, <1>3, <1>4, DefinesAlone
<1>6. QED
  BY <1>4, <1>5 DEF ItsNames, q, k

\* A definition, and what a read does to a lazy import.
LEMMA PlainBinds ==
  ASSUME CycleInv, ~Bumped, NEW m \in Backends, Owned(m), ~Fail(m),
         Let(m) \/ FuncDef(m) \/ LazyImport(m) \/ Import(m) \/ Use(m) \/ Call(m)
  PROVE  ~AtEnd(m) /\ \E r, t : Proceed(m, r, t) /\ Restated(m, r)
<1> DEFINE x == Stmt(m).name
           h == Home(m, InFile(m))
<1>1. ~AtEnd(m)
  BY DEF Let, FuncDef, LazyImport, Import, Use, Call, Runs
<1>2. ASSUME NEW v, v.kind # "num", Stmt(m).op \in {"reads", "bumps", "lazy", "import"}
      PROVE  Restated(m, Defined(m, x, v))
  BY <1>1, <1>2, OtherNames, RebindingDefined DEF Restated
<1>3. CASE Let(m)
  <2>1. Proceed(m, Defined(m, x, Num(Stmt(m).n)), <<>>) /\ Stmt(m).op = "let"
    BY <1>3 DEF Let, Runs
  <2>2. ~Stmt(m).guarded
    <3>1. Stmt(m) \in ToSet(files[InFile(m)]) /\ InFile(m) \in DOMAIN files /\ files \in Programs
      BY <1>1, ItsFrame DEF CycleInv
    <3>2. QED
      BY <2>1, <3>1, ProgramsAssumption
  <2>3. Restated(m, Defined(m, x, Num(Stmt(m).n)))
    BY <2>1, <2>2 DEF Restated, Defined
  <2>4. QED
    BY <1>1, <2>1, <2>3
<1>4. CASE FuncDef(m)
  <2> DEFINE v == Fn(InFile(m), Stmt(m), Frame(m).at)
  <2>1. Proceed(m, Defined(m, x, v), <<>>) /\ Stmt(m).op \in {"reads", "bumps"}
    BY <1>4 DEF FuncDef, Runs
  <2>2. v.kind # "num"
    BY <2>1 DEF Fn
  <2> HIDE DEF v
  <2>3. Restated(m, Defined(m, x, v))
    BY <1>2, <2>1, <2>2
  <2>4. QED
    BY <1>1, <2>1, <2>3
<1>5. CASE LazyImport(m)
  <2>1. Proceed(m, Defined(m, x, Lazy(x)), <<>>) /\ Stmt(m).op = "lazy" /\ Lazy(x).kind # "num"
    BY <1>5 DEF LazyImport, Runs, Lazy
  <2>2. Restated(m, Defined(m, x, Lazy(x)))
    BY <1>2, <2>1
  <2>3. QED
    BY <1>1, <2>1, <2>2
<1>6. CASE Import(m)
  <2>1. Proceed(m, Defined(m, x, Module(x)), <<>>) /\ Stmt(m).op = "import" /\ Module(x).kind # "num"
    BY <1>6 DEF Import, Runs, Module
  <2>2. Restated(m, Defined(m, x, Module(x)))
    BY <1>2, <2>1
  <2>3. QED
    BY <1>1, <2>1, <2>2
<1>7. CASE Use(m)
  <2>1. Proceed(m, Rebound(m), <<Member(m)>>) /\ Stmt(m).op = "use"
    BY <1>7 DEF Use, Runs
  <2>2. Restated(m, Rebound(m))
    BY <2>1, RebindingRead DEF Restated
  <2>3. QED
    BY <1>1, <2>1, <2>2
<1>8. CASE Call(m)
  <2>1. Calls(m) => Member(m).kind = "reads"
    <3>1. ASSUME Calls(m), Member(m).kind = "bumps" PROVE FALSE
      <4>1. PICK d : Member(m).of \in DOMAIN files /\ d \in ToSet(files[Member(m).of]) /\ d.op = "bumps"
        BY <3>1, NamedLabelled DEF Labelled
      <4>2. QED
        BY <4>1 DEF Bumped
    <3>2. QED
      BY <3>1 DEF Calls
  <2>2. Calls(m)
    BY <1>8 DEF Call
  <2>3. Proceed(m, Recalled(m), <<Read(m)>>) /\ Stmt(m).op = "call"
    BY <1>8, <2>1, <2>2 DEF Call, Runs
  <2>4. Restated(m, Recalled(m))
    BY <2>3, RebindingCalled DEF Restated
  <2>5. QED
    BY <1>1, <2>3, <2>4
<1>9. QED
  BY <1>3, <1>4, <1>5, <1>6, <1>7, <1>8

\* The backend's part of the invariant, after a statement of its file.
LEMMA OwnedAfter ==
  ASSUME CycleInv, NEW m \in Backends, Owned(m), ~AtEnd(m), Went(frames[m], frames'[m]),
         Restated(m, scope'), files' = files, cache' = cache
  PROVE  Owned(m)'
<1> DEFINE u == frames[m]
           v == frames'[m]
           f == InFile(m)
           k == Frame(m).at
           q == files[f]
           h == IF m = "vm" THEN "main" ELSE f
           L == DOMAIN cache[m]
<1>1. PICK n : n = Len(u)
  OBVIOUS
<1>2. /\ n \in Nat \ {0} /\ Frame(m) = u[n] /\ f \in DOMAIN files /\ "main" \in DOMAIN files
      /\ k \in Nat \ {0} /\ files \in Programs
  BY <1>1, ItsFrame DEF CycleInv
<1>3. /\ f = u[n].file /\ k = u[n].at /\ Stmt(m) = q[k] /\ h = Home(m, f) /\ h \in DOMAIN files
  BY <1>2 DEF InFile, Stmt, Home
<1>4. IsSequence(q) /\ Len(q) \in Nat /\ k <= Len(q)
  <2>1. q \in Seq(Statements)
    BY <1>2, ProgramsAssumption
  <2>2. IsSequence(q) /\ Len(q) \in Nat
    BY ONLY <2>1, LenProperties, OwnSet
  <2>3. ~(k > Len(q))
    BY DEF AtEnd
  <2>4. QED
    BY ONLY <1>2, <2>2, <2>3
<1>5. Piled(files, L, u) /\ Apart(u) /\ Kept(files, m, u, scope[m]) /\ Traced(files, m, u, scope[m], L)
  BY DEF CycleInv, Tracked, Owned
<1>6. PICK t : Kept(files, m, u, t) /\ Traced(files, m, u, t, L) /\ Stated(files, m, t, f, k, scope'[m])
  <2>1. CASE Stmt(m).op = "let"
    <3>1. scope' = [scope EXCEPT ![m][h] = Bound(q[k].name, Num(q[k].n), @)]
      BY <1>3, <2>1 DEF Restated
    <3>2. Rebinds(files, scope[m], h, q[k].name, Num(q[k].n), scope'[m])
      BY <3>1 DEF Rebinds, CycleInv
    <3>3. Stated(files, m, scope[m], f, k, scope'[m])
      BY <1>3, <2>1, <3>2 DEF Stated
    <3>4. QED
      BY <1>5, <3>3
  <2>2. CASE Stmt(m).op # "let"
    <3>1. PICK r : r = scope'[m]
      OBVIOUS
    <3>2. Restates(files, h, Defines(q, k), scope[m], r)
      BY <1>3, <2>2, <3>1 DEF Restated, Rebinding, ItsNames
    <3>3. Kept(files, m, u, r) /\ Traced(files, m, u, r, L)
      <4>1. PICK s : s = scope[m]
        OBVIOUS
      <4>2. /\ Piled(files, L, u) /\ Apart(u) /\ Kept(files, m, u, s) /\ Traced(files, m, u, s, L)
            /\ Restates(files, h, Defines(files[f], k), s, r)
        BY <1>5, <3>2, <4>1
      <4> HIDE DEF u, k, L, f, q
      <4>3. QED
        BY ONLY <1>1, <1>3, <4>2, h = IF m = "vm" THEN "main" ELSE f, Retouched
    <3>4. Stated(files, m, r, f, k, scope'[m])
      BY <1>3, <2>2, <3>1 DEF Stated
    <3>5. QED
      BY <3>3, <3>4
  <2>3. QED
    BY <2>1, <2>2
<1>7. Went(u, v)
  OBVIOUS
<1>8. PICK g : g = u[n].file
  OBVIOUS
<1> HIDE DEF u, v, k, L, h
<1>9. Apart(v) /\ Kept(files, m, v, scope'[m]) /\ Traced(files, m, v, scope'[m], L)
  <2>0. PICK j : j = k
    OBVIOUS
  <2>1. /\ IsSequence(files[g]) /\ j <= Len(files[g]) /\ j = u[n].at
        /\ Stated(files, m, t, g, j, scope'[m])
    BY <1>3, <1>4, <1>6, <1>8, <2>0
  <2>2. "main" \in DOMAIN files
    BY <1>2
  <2>3. QED
    BY ONLY <1>1, <1>5, <1>6, <1>7, <1>8, <2>1, <2>2, GoneOn
<1>10. QED
  BY <1>9 DEF Owned, v, L

\* The innermost frame goes on by a statement.
LEMMA WentAhead ==
  ASSUME NEW u, IsSequence(u), u # <<>>, DOMAIN Last(u) = FrameFields,
         NEW v, v = Front(u) \o <<Ahead(Last(u))>>
  PROVE  Went(u, v)
<1>1. PICK x : x = Ahead(Last(u))
  OBVIOUS
<1>2. PICK z : z = Last(u)
  OBVIOUS
<1>3. x.file = z.file /\ x.snapshot = z.snapshot /\ x.at = z.at + 1
  BY <1>1, <1>2 DEF Ahead, FrameFields
<1>4. IsSequence(u) /\ u # <<>> /\ v = Front(u) \o <<x>>
  BY <1>1
<1>5. IsSequence(v)
  BY ONLY <1>4, ReplaceLast
<1>6. Len(u) \in Nat \ {0}
  BY ONLY <1>4, ReplaceLast
<1>7. Len(v) = Len(u)
  BY ONLY <1>4, ReplaceLast
<1>8. \A k \in 1..Len(u) : v[k] = IF k = Len(u) THEN x ELSE u[k]
  BY ONLY <1>4, ReplaceLast
<1>9. z = u[Len(u)]
  BY <1>2 DEF Last
<1>10. QED
  BY ONLY <1>3, <1>5, <1>6, <1>7, <1>8, <1>9 DEF Went

\* A statement of the innermost file, but one that loads or raises.
LEMMA PlainOwned ==
  ASSUME CycleInv, ~Bumped, NEW m \in Backends, Owned(m), ~Fail(m),
         Let(m) \/ FuncDef(m) \/ LazyImport(m) \/ Import(m) \/ Use(m) \/ Call(m)
  PROVE  Owned(m)'
<1>1. PICK r, t : Proceed(m, r, t) /\ Restated(m, r)
  BY PlainBinds
<1>2. ~AtEnd(m)
  BY PlainBinds
<1>3. IsSequence(frames[m]) /\ frames[m] # <<>> /\ DOMAIN Frame(m) = FrameFields
  BY ItsFrame DEF CycleInv, Tracked, Piled
<1>4. frames'[m] = Front(frames[m]) \o <<Ahead(Last(frames[m]))>> /\ DOMAIN Last(frames[m]) = FrameFields
  BY <1>1, <1>3 DEF Proceed, Advanced, CycleInv, Shapes, Frame
<1>5. Went(frames[m], frames'[m])
  BY ONLY <1>3, <1>4, WentAhead
<1>6. Restated(m, scope') /\ files' = files /\ cache' = cache
  BY <1>1 DEF Proceed
<1>7. QED
  BY <1>2, <1>5, <1>6, OwnedAfter

\* A raise that aborts no load is rescued in the innermost file.
LEMMA RaiseOwned ==
  ASSUME CycleInv, NEW m \in Backends, Owned(m), ~Fail(m), Raise(m), aborted'[m] = {}
  PROVE  Owned(m)'
<1>1. IsSequence(frames[m]) /\ frames[m] # <<>> /\ DOMAIN Frame(m) = FrameFields
  BY ItsFrame DEF CycleInv, Tracked, Piled
<1>2. frames'[m] = Front(frames[m]) \o <<Ahead(Last(frames[m]))>> /\ DOMAIN Last(frames[m]) = FrameFields
  BY <1>1, RaisedHere DEF CycleInv, Tracked, Piled, Stacked, Frame
<1>3. Went(frames[m], frames'[m])
  BY ONLY <1>1, <1>2, WentAhead
<1>4. scope' = scope /\ files' = files /\ cache' = cache
  BY DEF Raise
<1>5. ~AtEnd(m) /\ Stmt(m).op = "raise"
  BY DEF Raise, Runs
<1>6. Restated(m, scope')
  BY <1>4, <1>5, RebindingNone DEF Restated
<1>7. QED
  BY <1>3, <1>4, <1>5, <1>6, OwnedAfter

\* The entry file begins, and nothing is bound.
LEMMA OwnInit ==
  ASSUME Init
  PROVE  OwnInv
<1>1. ASSUME NEW m \in Backends PROVE Owned(m)
  <2> DEFINE b == Begin("main", Nothing)
  <2>1. b.file = "main" /\ b.at = 1 /\ b.snapshot = Nothing
    BY DEF Begin
  <2>2. frames[m] = <<b>> /\ cache[m] = Nothing /\ "main" \in DOMAIN files /\ files \in Programs
    BY <1>1, ProgramsAssumption DEF Init
  <2>3. scope[m]["main"] = Nothing /\ DOMAIN Nothing = {}
    BY <1>1, <2>2 DEF Init, Nothing
  <2> HIDE DEF b
  <2>4. Len(<<b>>) = 1 /\ <<b>>[1] = b
    OBVIOUS
  <2>5. PICK u : u = frames[m] /\ Len(u) = 1 /\ u[1] = b
    BY <2>2, <2>4
  <2>6. Apart(u)
    BY <2>1, <2>5 DEF Apart
  <2>7. Kept(files, m, u, scope[m])
    <3>1. Len(files["main"]) \in Nat
      <4>1. files["main"] \in Seq(Statements)
        BY <2>2, ProgramsAssumption
      <4>2. QED
        BY ONLY <4>1, LenProperties
    <3>2. Defines(files["main"], 1) = {}
      BY DEF Defines
    <3>3. \A map : Keeps(files["main"], 1, map)
      BY <3>2 DEF Keeps
    <3>4. 1 <= Len(files["main"]) + 1
      BY <3>1
    <3>5. \A k \in 1..Len(u) : u[k].file = "main" /\ u[k].at = 1
      BY <2>1, <2>5
    <3>6. QED
      BY <3>3, <3>4, <3>5 DEF Kept
  <2>8. Traced(files, m, u, scope[m], DOMAIN cache[m])
    BY <2>3, <2>5 DEF Traced, From
  <2>9. Exported(files, m, cache[m])
    BY <2>2, <2>3 DEF Exported
  <2>10. QED
    BY <2>5, <2>6, <2>7, <2>8, <2>9 DEF Owned
<1>2. QED
  BY <1>1, LoadInit, CycleInit DEF OwnInv

\* A file that begins is neither loaded nor being evaluated, nor the entry file.
LEMMA NeededNotBegun ==
  ASSUME CycleInv, NEW m \in Backends, Owned(m), Chain(m), ~AtEnd(m), NEW f \in Needed(m), ~InProgress(m, f)
  PROVE  f \notin Begun(frames[m], DOMAIN cache[m])
<1> DEFINE u == frames[m]
           p == loading[m]
<1>1. f \notin DOMAIN cache[m]
  BY NeededNotLoaded
<1>2. f # "main"
  <2>1. CASE Stmt(m).op = "import"
    <3>1. f = Stmt(m).name
      BY <2>1 DEF Needed
    <3>2. QED
      BY <2>1, <3>1, ImportsNotMain
  <2>2. CASE Stmt(m).op # "import"
    <3>1. \/ f = Named(m).of /\ Named(m).kind = "lazy"
          \/ Calls(m) /\ f = Read(m).of /\ Read(m).kind = "lazy"
      BY <2>2 DEF Needed
    <3>2. QED
      BY <3>1, NamedLabelled DEF Labelled
  <2>3. QED
    BY <2>1, <2>2
<1>3. PICK n : n = Len(u)
  OBVIOUS
<1>4. n \in Nat \ {0}
  BY <1>3, ItsFrame
<1>5. p = [k \in 1..n - 1 |-> u[k + 1].file]
  BY <1>3 DEF Chain
<1>6. IsSequence(p)
  BY DEF CycleInv, Tracked, Known
<1>7. ASSUME NEW k \in 1..n, u[k].file = f PROVE FALSE
  <2>1. k # 1
    BY <1>2, <1>7 DEF Owned, Apart
  <2>2. k - 1 \in 1..n - 1 /\ (k - 1) + 1 = k
    BY <1>4, <2>1
  <2>3. p[k - 1] = f
    BY <1>5, <1>7, <2>2
  <2>4. DOMAIN p = 1..n - 1
    BY <1>5
  <2>5. DOMAIN p = 1..Len(p)
    BY ONLY <1>6, LenProperties DEF IsSequence
  <2>6. f \in ToSet(p)
    <3>1. k - 1 \in 1..Len(p)
      BY ONLY <2>2, <2>4, <2>5
    <3>2. QED
      BY ONLY <1>6, <2>3, <3>1, ToSetDef DEF IsSequence
  <2>7. QED
    BY <2>6 DEF InProgress
<1>8. QED
  BY <1>1, <1>3, <1>7 DEF Begun

\* A file begins.
LEMMA EnterOwned ==
  ASSUME CycleInv, NEW m \in Backends, Owned(m), Chain(m), ~Fail(m), Enter(m)
  PROVE  Owned(m)'
<1> DEFINE L == DOMAIN cache[m]
           t == NameRead(m)
           s == t[m]
<1>1. PICK f \in Needed(m) :
        /\ Readable(f) /\ ~InProgress(m, f)
        /\ frames' = [frames EXCEPT ![m] = Append(@, Begin(f, Opened(m, f)[m][Home(m, f)]))]
        /\ scope' = Opened(m, f) /\ UNCHANGED <<files, cache>>
  BY DEF Enter
<1>2. PICK b : b = Begin(f, Opened(m, f)[m][Home(m, f)])
  OBVIOUS
<1>3. PICK u : u = frames[m]
  OBVIOUS
<1>4. PICK v : v = frames'[m]
  OBVIOUS
<1>5. PICK r : r = scope'[m]
  OBVIOUS
<1>6. v = Append(u, b)
  BY <1>1, <1>2, <1>3, <1>4 DEF CycleInv, Shapes
<1>7. b.file = f /\ b.at = 1 /\ b.snapshot = r[Home(m, f)]
  BY <1>1, <1>2, <1>5 DEF Begin
<1>8. f \in DOMAIN files /\ f \notin Begun(u, L)
  BY <1>1, <1>3, NeededNotBegun DEF Enter, Readable
<1>9. IF m = "vm" THEN r = s /\ b.snapshot = s["main"]
      ELSE b.snapshot = Nothing /\ \A g \in DOMAIN files \ {f} : r[g] = s[g]
  <2>1. CASE m = "vm"
    BY <1>1, <1>5, <1>7, <2>1 DEF Opened, Home
  <2>2. CASE m # "vm"
    <3>1. m = "tree" /\ DOMAIN s = DOMAIN files /\ DOMAIN t = Backends
      <4>1. ScopeOK(m, t)
        BY ReboundLabelled, ScopeLabelled DEF NameRead
      <4>2. QED
        BY <2>2, <4>1 DEF Backends, ScopeOK
    <3>2. r = [s EXCEPT ![f] = Nothing]
      BY <1>1, <1>5, <3>1 DEF Opened
    <3>3. QED
      BY <1>7, <1>8, <2>2, <3>1, <3>2 DEF Home
  <2>3. QED
    BY <2>1, <2>2
<1>10. /\ Piled(files, L, u) /\ Apart(u) /\ Kept(files, m, u, s) /\ Traced(files, m, u, s, L)
       /\ "main" \in DOMAIN files /\ files \in Programs
  <2>1. PICK o : o = scope[m]
    OBVIOUS
  <2>2. Piled(files, L, u) /\ Apart(u) /\ Kept(files, m, u, o) /\ Traced(files, m, u, o, L)
    BY <1>3, <2>1 DEF CycleInv, Tracked, Owned
  <2>3. PICK n : n = Len(u)
    OBVIOUS
  <2>4. PICK g : g = u[n].file
    OBVIOUS
  <2>5. PICK k : k = u[n].at
    OBVIOUS
  <2>6. PICK h : h = IF m = "vm" THEN "main" ELSE g
    OBVIOUS
  <2>7. InFile(m) = g /\ Frame(m).at = k /\ Home(m, g) = h
    BY <1>3, <2>3, <2>4, <2>5, <2>6, ItsFrame DEF InFile, Home
  <2>8. Restates(files, h, Defines(files[g], k), o, s)
    BY <2>1, <2>7, RebindingRead DEF Rebinding, ItsNames
  <2> HIDE DEF L, s
  <2>9. Kept(files, m, u, s) /\ Traced(files, m, u, s, L)
    BY ONLY <2>2, <2>3, <2>4, <2>5, <2>6, <2>8, Retouched
  <2>10. QED
    BY <2>2, <2>9, ItsFrame DEF CycleInv
<1>11. IsSequence(files[b.file]) /\ b.file \in DOMAIN files \ Begun(u, L)
  <2>1. files[f] \in Seq(Statements)
    BY <1>8, <1>10, ProgramsAssumption
  <2>2. IsSequence(files[f])
    BY ONLY <2>1, OwnSet
  <2>3. QED
    BY <1>7, <1>8, <2>2
<1>12. Opens(files, m, s, b, r)
  BY <1>7, <1>9 DEF Opens
<1> HIDE DEF L, s, t
<1>13. Apart(v) /\ Kept(files, m, v, r) /\ Traced(files, m, v, r, L)
  BY ONLY <1>6, <1>7, <1>10, <1>11, <1>12, Entered
<1>14. Exported(files, m, cache[m])
  BY DEF Owned
<1>15. QED
  BY <1>1, <1>4, <1>5, <1>13, <1>14 DEF Owned, L

\* A module ends.
LEMMA EndOwned ==
  ASSUME CycleInv, NEW m \in Backends, Owned(m), EndOfFile(m), Len(frames[m]) # 1
  PROVE  Owned(m)'
<1> DEFINE L == DOMAIN cache[m]
           s == scope[m]
           f == InFile(m)
           now == scope[m][Home(m, f)]
           was == Frame(m).snapshot
           e == Exports(m)
           d == cache'[m]
           r == scope'[m]
<1>1. PICK u : u = frames[m]
  OBVIOUS
<1>2. PICK v : v = frames'[m]
  OBVIOUS
<1>3. Len(u) \in Nat \ {0, 1} /\ Frame(m) = u[Len(u)] /\ IsSequence(u) /\ u # <<>>
  BY <1>1, ItsFrame DEF CycleInv, Tracked, Piled
<1>4. PICK n \in Nat \ {0} : Len(u) = n + 1
  <2>1. Len(u) - 1 \in Nat \ {0} /\ Len(u) = (Len(u) - 1) + 1
    BY <1>3
  <2>2. QED
    BY <2>1
<1>5. v = Front(u)
  BY <1>1, <1>2 DEF EndOfFile, CycleInv, Shapes
<1>6. Len(v) = n /\ \A k \in 1..n : v[k] = u[k]
  <2>1. Len(v) = Len(u) - 1 /\ \A k \in 1..Len(u) - 1 : v[k] = u[k]
    BY ONLY <1>3, <1>5, FrontProperties DEF IsSequence
  <2>2. QED
    BY <1>4, <2>1
<1>7. f = u[n + 1].file /\ was = u[n + 1].snapshot /\ f \in DOMAIN files /\ files \in Programs
  BY <1>3, <1>4, ItsFrame DEF InFile, CycleInv
<1>8. Changed(was, now, e)
  BY DEF Exports, Changed
<1>9. d = Bound(f, e, cache[m]) /\ files' = files /\ scope' = Restored(m)
  BY DEF EndOfFile, CycleInv, Shapes
<1>10. DOMAIN d = L \cup {f}
  BY <1>9 DEF Bound
<1>11. IF m = "vm" THEN r["main"] = Before(was, s["main"]) ELSE r = s
  <2>1. DOMAIN scope = Backends /\ "main" \in DOMAIN s
    BY ItsFrame DEF CycleInv
  <2>2. QED
    BY <1>9, <2>1 DEF Restored
<1>12. now = Held(m, u, s, n + 1)
  BY <1>4, <1>7 DEF Held, Home
<1>13. /\ Piled(files, L, u) /\ Apart(u) /\ Kept(files, m, u, s) /\ Traced(files, m, u, s, L)
       /\ Exported(files, m, cache[m])
  BY <1>1 DEF CycleInv, Tracked, Owned
<1>14. IsSequence(files[f])
  <2>1. files[f] \in Seq(Statements)
    BY <1>7, ProgramsAssumption
  <2>2. QED
    BY ONLY <2>1, OwnSet
<1>15. ~(u[n + 1].at <= Len(files[f]))
  <2>1. u[n + 1].at > Len(files[f])
    BY <1>3, <1>4 DEF EndOfFile, AtEnd
  <2>2. u[n + 1].at \in Nat /\ Len(files[f]) \in Nat
    BY <1>3, <1>4, <1>14, ItsFrame, LenProperties DEF IsSequence
  <2>3. QED
    BY <2>1, <2>2
<1> HIDE DEF L, s, f, now, was, e, d, r
<1>16. Apart(v) /\ Kept(files, m, v, r) /\ Traced(files, m, v, r, L \cup {f})
  <2>1. PICK w : w = u[n + 1]
    OBVIOUS
  <2>2. IF m = "vm" THEN r["main"] = Before(u[n + 1].snapshot, s["main"]) ELSE r = s
    BY <1>7, <1>11
  <2>3. Apart(v) /\ Kept(files, m, v, r) /\ Traced(files, m, v, r, L \cup {u[n + 1].file})
    BY ONLY <1>4, <1>6, <1>13, <2>2, LeftAgain
  <2>4. QED
    BY <1>7, <2>3
<1>17. Exported(files, m, d)
  <2>1. PICK j \in Nat \ {0, 1} : j = n + 1
    BY <1>4
  <2>2. /\ Len(u) = j /\ f = u[j].file /\ was = u[j].snapshot /\ now = Held(m, u, s, j)
        /\ ~(u[j].at <= Len(files[f]))
    BY <1>4, <1>7, <1>12, <1>15, <2>1
  <2>3. PICK c : c = cache[m]
    OBVIOUS
  <2>4. /\ Piled(files, DOMAIN c, u) /\ Traced(files, m, u, s, DOMAIN c) /\ Exported(files, m, c)
        /\ d = Bound(f, e, c)
    BY <1>9, <1>13, <2>3 DEF L
  <2>5. m \in Backends
    OBVIOUS
  <2>6. QED
    BY ONLY <1>8, <1>13, <1>14, <2>1, <2>2, <2>4, <2>5, ExportsDefined
<1>18. QED
  BY <1>2, <1>9, <1>10, <1>16, <1>17 DEF Owned, d, r

\* A backend's own step keeps what its files have defined.
LEMMA StepOwned ==
  ASSUME LoadInv, CycleInv, ~Bumped, NEW m \in Backends, aborted[m] = {}, aborted'[m] = {}, Owned(m), Step(m)
  PROVE  Owned(m)'
<1>1. ASSUME UNCHANGED <<files, frames, cache, scope>> PROVE Owned(m)'
  BY <1>1 DEF Owned
<1>2. CASE Fail(m)
  BY <1>1, <1>2 DEF Fail
<1>3. CASE Raise(m) /\ ~Fail(m)
  BY <1>3, RaiseOwned
<1>4. CASE Enter(m) /\ ~Fail(m)
  BY <1>4, EnterOwned DEF LoadInv
<1>5. CASE EndOfFile(m) /\ Len(frames[m]) = 1
  BY <1>1, <1>5 DEF EndOfFile
<1>6. CASE EndOfFile(m) /\ Len(frames[m]) # 1
  BY <1>6, EndOwned
<1>7. CASE /\ Let(m) \/ FuncDef(m) \/ LazyImport(m) \/ Import(m) \/ Use(m) \/ Call(m)
           /\ ~Fail(m)
  BY <1>7, PlainOwned
<1>8. QED
  BY <1>2, <1>3, <1>4, <1>5, <1>6, <1>7 DEF Step

\* The invariant is inductive.
LEMMA OwnNext ==
  ASSUME OwnInv, [Next]_vars
  PROVE  OwnInv'
<1>1. LoadInv /\ CycleInv
  BY DEF OwnInv
<1>2. LoadInv' /\ CycleInv'
  BY <1>1, LoadNext, CycleNext
<1>3. CASE UNCHANGED vars
  BY <1>2, <1>3 DEF vars, OwnInv, Owned, Bumped
<1>4. ASSUME NEW m \in Backends, Step(m) PROVE OwnInv'
  <2>1. Others(m) /\ files' = files
    BY <1>1, <1>4, StepShapes DEF LoadInv
  <2>2. Scoped(m)
    BY <1>1, <1>4, StepTracked
  <2>3. aborted[m] \subseteq aborted'[m]
    BY <1>1, <1>4, AbortedStays DEF LoadInv
  <2>4. Bumped' <=> Bumped
    BY <2>1 DEF Bumped
  <2>5. ASSUME ~Bumped, aborted'[m] = {} PROVE Owned(m)'
    <3>1. aborted[m] = {}
      BY <2>3, <2>5
    <3>2. Owned(m)
      BY <2>5, <3>1 DEF OwnInv
    <3>3. QED
      BY <1>1, <1>4, <2>5, <3>1, <3>2, StepOwned
  <2>6. ASSUME NEW o \in Backends \ {m}, ~Bumped, aborted'[o] = {} PROVE Owned(o)'
    <3>1. /\ frames'[o] = frames[o] /\ cache'[o] = cache[o] /\ aborted'[o] = aborted[o]
          /\ files' = files /\ scope'[o] = scope[o]
      BY <2>1, <2>2 DEF Others, Scoped
    <3>2. Owned(o)
      BY <2>6, <3>1 DEF OwnInv
    <3>3. QED
      BY <3>1, <3>2 DEF Owned
  <2>7. \A o \in Backends : ~Bumped' /\ aborted'[o] = {} => Owned(o)'
    BY <2>4, <2>5, <2>6
  <2>8. QED
    BY <1>2, <2>7 DEF OwnInv
<1>5. QED
  BY <1>3, <1>4 DEF Next

-----------------------------------------------------------------------------
(* What comes out of a file.                                               *)

\* The two maps have the same under each name but those of N.
Agree(N, s, r) ==
  \A x \in (DOMAIN s \cup DOMAIN r) \ N : x \in DOMAIN s /\ x \in DOMAIN r /\ s[x] = r[x]

\* Since a file began, only names spoken of in it and in those it reaches have
\* changed: in the globals g, and in what they were when others began.
Fenced(p, u, g) ==
  \A k \in 2..Len(u) :
    /\ Agree(Spoken(p, u[k].file), u[k].snapshot, g)
    /\ \A j \in k + 1..Len(u) : Agree(Spoken(p, u[k].file), u[k].snapshot, u[j].snapshot)

\* The scopes s of m keep to such names; in the tree-walker each file's to its.
Fits(m, s) ==
  IF m = "vm" THEN Agree(Spoken(files, InFile(m)), scope[m]["main"], s[m]["main"])
  ELSE \A f \in DOMAIN files : DOMAIN s[m][f] \subseteq Said(files[f])

Fitting(m) ==
  /\ IF m = "vm" THEN Fenced(files, frames[m], scope[m]["main"])
     ELSE \A f \in DOMAIN files : DOMAIN scope[m][f] \subseteq Said(files[f])
  /\ \A f \in DOMAIN cache[m] :
       DOMAIN cache[m][f] \subseteq IF m = "tree" THEN Said(files[f]) ELSE Spoken(files, f)

FitInv == CycleInv /\ \A m \in Backends : Fitting(m)

\* Maps that agree with a third agree; so does one of them put before the other.
LEMMA Agreed ==
  ASSUME NEW N, NEW M, M \subseteq N, NEW s, NEW g, Agree(N, s, g)
  PROVE  /\ \A r : Agree(M, g, r) => Agree(N, s, r)
         /\ \A r : Agree(N, s, r) => Agree(N, s, Before(g, r))
         /\ \A r : Agree(N, r, r)
<1>1. \A r : Agree(N, r, r)
  BY DEF Agree
<1>2. \A r : Agree(M, g, r) => Agree(N, s, r)
  BY DEF Agree
<1>3. ASSUME NEW r, Agree(N, s, r) PROVE Agree(N, s, Before(g, r))
  <2> DEFINE b == Before(g, r)
  <2>1. DOMAIN b = DOMAIN g \cup DOMAIN r /\ \A x \in DOMAIN b : b[x] = IF x \in DOMAIN g THEN g[x] ELSE r[x]
    BY DEF Before
  <2> HIDE DEF b
  <2>2. Agree(N, s, b)
    BY <1>3, <2>1 DEF Agree
  <2>3. QED
    BY <2>2 DEF b
<1>4. QED
  BY <1>1, <1>2, <1>3

\* What is spoken of in a file that is reached is spoken of by the one reaching it.
LEMMA SpokenFurther ==
  ASSUME NEW p, NEW f, NEW g, g = f \/ g \in Reaches(p, f)
  PROVE  Spoken(p, g) \subseteq Spoken(p, f)
<1>1. Reaches(p, g) \subseteq Reaches(p, f)
  BY ReachesFurther
<1>2. QED
  BY <1>1 DEF Spoken

\* The globals r after a step, of files that were being evaluated already.
LEMMA FencedStill ==
  ASSUME NEW p, NEW L, NEW u, Piled(p, L, u), NEW g, Fenced(p, u, g), NEW n, NEW v, Cut(u, n, v),
         NEW f, f = u[Len(u)].file, NEW r, Agree(Spoken(p, f), g, r)
  PROVE  Fenced(p, v, r)
<1>1. Len(u) \in Nat /\ n \in 1..Len(u) /\ Len(v) = n
  BY LenProperties DEF Piled, Cut, IsSequence
<1>2. \A k \in 1..n : v[k].file = u[k].file /\ v[k].snapshot = u[k].snapshot
  BY DEF Cut, SameFile
<1>3. ASSUME NEW k \in 2..n
      PROVE  /\ Agree(Spoken(p, v[k].file), v[k].snapshot, r)
             /\ \A j \in k + 1..n : Agree(Spoken(p, v[k].file), v[k].snapshot, v[j].snapshot)
  <2>1. k \in 1..n /\ k \in 2..Len(u) /\ Len(u) \in 1..Len(u)
    BY <1>1
  <2>2. f = u[k].file \/ f \in Reaches(p, u[k].file)
    <3>1. k = Len(u) \/ k \in 1..Len(u) - 1
      BY <1>1, <2>1
    <3>2. QED
      BY <2>1, <3>1 DEF Piled
  <2>3. Spoken(p, f) \subseteq Spoken(p, u[k].file)
    BY <2>2, SpokenFurther
  <2>4. Agree(Spoken(p, u[k].file), u[k].snapshot, g)
    BY <2>1 DEF Fenced
  <2>5. Agree(Spoken(p, u[k].file), u[k].snapshot, r)
    BY <2>3, <2>4, Agreed
  <2>6. \A j \in k + 1..n : j \in k + 1..Len(u) /\ j \in 1..n
    BY <1>1
  <2>7. \A j \in k + 1..n : Agree(Spoken(p, u[k].file), u[k].snapshot, u[j].snapshot)
    BY <2>1, <2>6 DEF Fenced
  <2>8. QED
    BY <1>2, <2>1, <2>5, <2>6, <2>7
<1>4. QED
  BY <1>1, <1>3 DEF Fenced

\* A file that begins, in the globals as they are.
LEMMA FencedMore ==
  ASSUME NEW p, NEW u, IsSequence(u), u # <<>>, NEW g, Fenced(p, u, g), NEW b, b.snapshot = g,
         NEW v, v = Append(u, b)
  PROVE  Fenced(p, v, g)
<1>1. PICK n : n = Len(u)
  OBVIOUS
<1>2. n \in Nat \ {0}
  BY <1>1, EmptySeq DEF IsSequence
<1>3. Len(v) = n + 1
  BY ONLY <1>1, IsSequence(u), u # <<>>, v = Append(u, b), AppendOne
<1>4. v[n + 1] = b /\ \A k \in 1..n : v[k] = u[k]
  BY ONLY <1>1, IsSequence(u), u # <<>>, v = Append(u, b), AppendOne
<1>5. ASSUME NEW k \in 2..n + 1
      PROVE  /\ Agree(Spoken(p, v[k].file), v[k].snapshot, g)
             /\ \A j \in k + 1..n + 1 : Agree(Spoken(p, v[k].file), v[k].snapshot, v[j].snapshot)
  <2>1. CASE k = n + 1
    <3>1. k + 1..n + 1 = {}
      BY <1>2, <2>1
    <3>2. v[k].snapshot = g
      BY <1>4, <2>1
    <3>3. QED
      BY <3>1, <3>2 DEF Agree
  <2>2. CASE k # n + 1
    <3>1. k \in 2..Len(u) /\ v[k] = u[k]
      BY <1>1, <1>2, <1>4, <2>2
    <3>2. Agree(Spoken(p, u[k].file), u[k].snapshot, g)
      BY <3>1 DEF Fenced
    <3>3. ASSUME NEW j \in k + 1..n + 1 PROVE Agree(Spoken(p, u[k].file), u[k].snapshot, v[j].snapshot)
      <4>1. CASE j = n + 1
        BY <1>4, <3>2, <4>1
      <4>2. CASE j # n + 1
        <5>1. j \in k + 1..Len(u) /\ j \in 1..n
          BY <1>1, <1>2, <4>2
        <5>2. QED
          BY <1>4, <3>1, <5>1 DEF Fenced
      <4>3. QED
        BY <4>1, <4>2
    <3>4. QED
      BY <3>1, <3>2, <3>3
  <2>3. QED
    BY <2>1, <2>2
<1>6. QED
  BY <1>3, <1>5 DEF Fenced

\* The innermost file ends, and the VM puts the globals back.
LEMMA FencedLess ==
  ASSUME NEW p, NEW u, NEW g, Fenced(p, u, g), NEW n \in Nat \ {0}, Len(u) = n + 1,
         NEW v, Cut(u, n, v), NEW r, r = Before(u[n + 1].snapshot, g)
  PROVE  Fenced(p, v, r)
<1>1. Len(v) = n /\ \A k \in 1..n : v[k].file = u[k].file /\ v[k].snapshot = u[k].snapshot
  BY DEF Cut, SameFile
<1>2. ASSUME NEW k \in 2..n
      PROVE  /\ Agree(Spoken(p, v[k].file), v[k].snapshot, r)
             /\ \A j \in k + 1..n : Agree(Spoken(p, v[k].file), v[k].snapshot, v[j].snapshot)
  <2>1. k \in 1..n /\ k \in 2..Len(u) /\ n + 1 \in k + 1..Len(u)
    OBVIOUS
  <2>2. /\ Agree(Spoken(p, u[k].file), u[k].snapshot, g)
        /\ Agree(Spoken(p, u[k].file), u[k].snapshot, u[n + 1].snapshot)
    BY <2>1 DEF Fenced
  <2>3. Agree(Spoken(p, u[k].file), u[k].snapshot, r)
    BY <2>2, Agreed
  <2>4. \A j \in k + 1..n : j \in k + 1..Len(u) /\ j \in 1..n
    BY <2>1
  <2>5. \A j \in k + 1..n : Agree(Spoken(p, u[k].file), u[k].snapshot, u[j].snapshot)
    BY <2>1, <2>4 DEF Fenced
  <2>6. QED
    BY <1>1, <2>1, <2>3, <2>4, <2>5
<1>3. QED
  BY <1>1, <1>2 DEF Fenced

\* The scopes as they are.
LEMMA FitsNow ==
  ASSUME NEW m \in Backends, Fitting(m)
  PROVE  Fits(m, scope)
BY DEF Fitting, Fits, Agree

\* One more binding, of a name the file speaks of.
LEMMA FitsBound ==
  ASSUME CycleInv, NEW m \in Backends, NEW s, ScopeOK(m, s), Fits(m, s), NEW x, NEW v,
         NEW h, IF m = "vm" THEN h = "main" /\ x \in Spoken(files, InFile(m))
                ELSE h \in DOMAIN files /\ x \in Said(files[h])
  PROVE  Fits(m, [s EXCEPT ![m][h] = Bound(x, v, @)])
<1> DEFINE r == [s EXCEPT ![m][h] = Bound(x, v, @)]
           b == Bound(x, v, s[m][h])
<1>1. h \in DOMAIN files /\ DOMAIN s = Backends /\ DOMAIN s[m] = DOMAIN files
  BY ItsFrame DEF ScopeOK
<1>2. r[m][h] = b /\ \A g \in DOMAIN files : g # h => r[m][g] = s[m][g]
  BY <1>1
<1>3. DOMAIN b = DOMAIN s[m][h] \cup {x} /\ \A y \in DOMAIN b : y # x => b[y] = s[m][h][y]
  BY DEF Bound
<1> HIDE DEF b, r
<1>4. CASE m = "vm"
  <2>1. Agree(Spoken(files, InFile(m)), scope[m]["main"], s[m]["main"])
    BY <1>4 DEF Fits
  <2>2. Agree(Spoken(files, InFile(m)), scope[m]["main"], b)
    BY <1>3, <1>4, <2>1 DEF Agree
  <2>3. QED
    BY <1>2, <1>4, <2>2 DEF Fits, r
<1>5. CASE m # "vm"
  <2>1. \A g \in DOMAIN files : DOMAIN s[m][g] \subseteq Said(files[g])
    BY <1>5 DEF Fits
  <2>2. \A g \in DOMAIN files : DOMAIN r[m][g] \subseteq Said(files[g])
    BY <1>2, <1>3, <1>5, <2>1
  <2>3. QED
    BY <1>5, <2>2 DEF Fits, r
<1>6. QED
  BY <1>4, <1>5

\* The name of a statement is said in its file, and so spoken of.
LEMMA NameSaid ==
  ASSUME CycleInv, NEW m \in Backends, ~AtEnd(m)
  PROVE  /\ Stmt(m).name \in Said(files[InFile(m)])
         /\ Stmt(m).name \in Spoken(files, InFile(m))
<1>1. Stmt(m).name \in Said(files[InFile(m)])
  BY ItsFrame DEF Said
<1>2. QED
  BY <1>1 DEF Spoken

\* What a called function looks up is spoken of in the file of the call.
LEMMA KeySpoken ==
  ASSUME CycleInv, NEW m \in Backends, ~AtEnd(m), Calls(m)
  PROVE  Member(m).key \in Spoken(files, InFile(m)) /\ Member(m).of \in DOMAIN files
<1> DEFINE g == InFile(m)
           h == Member(m).of
<1>1. PICK d \in ToSet(files[h]) : d.op \in {"reads", "bumps"} /\ d.name = Tip(m) /\ d.key = Member(m).key
  BY NamedLabelled DEF Labelled, Calls
<1>2. h \in DOMAIN files
  BY NamedLabelled DEF Labelled, Calls
<1>3. Stmt(m) \in ToSet(files[g]) /\ d.name \in {Stmt(m).name, Stmt(m).member}
  BY <1>1, ItsFrame DEF Tip
<1>4. h \in Mentions(files, g)
  BY <1>1, <1>2, <1>3 DEF Mentions
<1>5. h \in Reaches(files, g)
  BY <1>4, ReachesMentioned
<1>6. QED
  BY <1>1, <1>2, <1>5 DEF Spoken

\* A definition, and the read of a name.
LEMMA FitsDefined ==
  ASSUME CycleInv, NEW m \in Backends, Fitting(m), ~AtEnd(m), NEW v
  PROVE  /\ Fits(m, Defined(m, Stmt(m).name, v)) /\ Fits(m, Rebound(m)) /\ Fits(m, NameRead(m))
<1>1. PICK h : h = Home(m, InFile(m))
  OBVIOUS
<1>2. PICK x : x = Stmt(m).name
  OBVIOUS
<1>3. IF m = "vm" THEN h = "main" /\ x \in Spoken(files, InFile(m))
      ELSE h \in DOMAIN files /\ x \in Said(files[h])
  BY <1>1, <1>2, NameSaid, ItsFrame DEF Home
<1>4. ASSUME NEW w PROVE Fits(m, Defined(m, x, w))
  <2>1. Fits(m, [scope EXCEPT ![m][h] = Bound(x, w, @)])
    BY <1>3, FitsNow, ScopeLabelled, FitsBound
  <2>2. QED
    BY <1>1, <2>1, FitsNow DEF Defined
<1>5. Fits(m, Rebound(m))
  BY <1>2, <1>4, FitsNow DEF Rebound
<1>6. QED
  BY <1>2, <1>4, <1>5, FitsNow DEF NameRead

\* The read of a called function.
LEMMA FitsCalled ==
  ASSUME CycleInv, NEW m \in Backends, Fitting(m), ~AtEnd(m), Calls(m)
  PROVE  Fits(m, Recalled(m))
<1>1. PICK y : y = Member(m).key
  OBVIOUS
<1>2. PICK v : v = Read(m)
  OBVIOUS
<1>3. PICK s : s = Rebound(m)
  OBVIOUS
<1>4. Fits(m, s) /\ ScopeOK(m, s)
  BY <1>3, FitsDefined, ReboundLabelled
<1>5. ASSUME m = "vm" PROVE Fits(m, [s EXCEPT ![m]["main"] = Bound(y, v, @)])
  <2>1. y \in Spoken(files, InFile(m))
    BY <1>1, KeySpoken
  <2>2. QED
    BY <1>4, <1>5, <2>1, FitsBound
<1>6. Recalled(m) = s \/ (m = "vm" /\ Recalled(m) = [s EXCEPT ![m]["main"] = Bound(y, v, @)])
  BY <1>1, <1>2, <1>3 DEF Recalled
<1>7. QED
  BY <1>4, <1>5, <1>6

\* A name that is read is bound already where an assignment finds it.
LEMMA FitsAssigned ==
  ASSUME CycleInv, NEW m \in Backends, Fitting(m), ~AtEnd(m), Calls(m), Read(m) # Missing, NEW v
  PROVE  Fits(m, Assigned(m, Recalled(m), Member(m).of, Member(m).key, v))
<1>1. PICK y : y = Member(m).key
  OBVIOUS
<1>2. PICK f : f = Member(m).of
  OBVIOUS
<1>3. PICK s : s = Recalled(m)
  OBVIOUS
<1>4. PICK h : h = IF y \in DOMAIN s[m][Home(m, f)] THEN Home(m, f) ELSE "main"
  OBVIOUS
<1>5. Fits(m, s) /\ ScopeOK(m, s) /\ f \in DOMAIN files /\ y \in Spoken(files, InFile(m)) /\ "main" \in DOMAIN files
  BY <1>1, <1>2, <1>3, FitsCalled, RecalledLabelled, KeySpoken, ItsFrame
<1>6. CASE m = "vm"
  <2>1. h = "main"
    BY <1>4, <1>6 DEF Home
  <2>2. Fits(m, [s EXCEPT ![m][h] = Bound(y, v, @)])
    BY <1>5, <1>6, <2>1, FitsBound
  <2>3. QED
    BY <1>1, <1>2, <1>3, <1>4, <2>2 DEF Assigned
<1>7. CASE m # "vm"
  <2>1. DOMAIN scope[m][f] \subseteq DOMAIN s[m][f]
    <3>1. PICK x : x = Stmt(m).name
      OBVIOUS
    <3>2. PICK w : w = Named(m)
      OBVIOUS
    <3>3. s = Defined(m, x, w) \/ s = scope
      BY <1>3, <1>7, <3>1, <3>2 DEF Recalled, Rebound
    <3>4. PICK g : g = Home(m, InFile(m))
      OBVIOUS
    <3>5. s = [scope EXCEPT ![m][g] = Bound(x, w, @)] \/ s = scope
      BY <3>3, <3>4 DEF Defined
    <3>6. DOMAIN scope = Backends /\ DOMAIN scope[m] = DOMAIN files
      BY DEF CycleInv
    <3>7. DOMAIN scope[m][g] \subseteq DOMAIN Bound(x, w, scope[m][g])
      BY DEF Bound
    <3>8. CASE s = [scope EXCEPT ![m][g] = Bound(x, w, @)]
      <4>1. s[m][f] = IF f = g THEN Bound(x, w, scope[m][g]) ELSE scope[m][f]
        BY <1>5, <3>6, <3>8
      <4>2. QED
        BY <3>7, <4>1
    <3>9. QED
      BY <3>5, <3>8
  <2>2. y \in DOMAIN scope[m][f] \/ y \in DOMAIN scope[m]["main"]
    <3>1. Value(m, f, y) # Missing
      <4>1. ASSUME Value(m, f, y) = Missing PROVE FALSE
        <5>1. Forced(m, Missing) = Missing
          BY DEF Forced, Missing
        <5>2. Read(m) = Forced(m, Value(m, f, y))
          BY <1>1, <1>2 DEF Read
        <5>3. QED
          BY <4>1, <5>1, <5>2
      <4>2. QED
        BY <4>1
    <3>2. y \in DOMAIN Sees(m, f)
      BY <3>1 DEF Value
    <3>3. QED
      BY <1>7, <3>2 DEF Sees, Before, Home
  <2>3. \A g \in DOMAIN files : DOMAIN scope[m][g] \subseteq Said(files[g]) /\ DOMAIN s[m][g] \subseteq Said(files[g])
    BY <1>5, <1>7 DEF Fitting, Fits
  <2>4. h \in DOMAIN files /\ y \in Said(files[h])
    BY <1>4, <1>5, <1>7, <2>1, <2>2, <2>3 DEF Home
  <2>5. Fits(m, [s EXCEPT ![m][h] = Bound(y, v, @)])
    BY <1>5, <1>7, <2>4, FitsBound
  <2>6. QED
    BY <1>1, <1>2, <1>3, <1>4, <2>5 DEF Assigned
<1>8. QED
  BY <1>6, <1>7

\* A statement, but one that loads or raises, binds only names spoken of.
LEMMA PlainFits ==
  ASSUME CycleInv, NEW m \in Backends, Fitting(m), ~Fail(m),
         Let(m) \/ FuncDef(m) \/ LazyImport(m) \/ Import(m) \/ Use(m) \/ Call(m)
  PROVE  \E s, t : Proceed(m, s, t) /\ Fits(m, s)
<1>1. ~AtEnd(m)
  BY DEF Let, FuncDef, LazyImport, Import, Use, Call, Runs
<1>2. CASE Let(m) \/ FuncDef(m) \/ LazyImport(m) \/ Import(m)
  <2>1. \E v : Proceed(m, Defined(m, Stmt(m).name, v), <<>>)
    BY <1>2 DEF Let, FuncDef, LazyImport, Import
  <2>2. QED
    BY <1>1, <2>1, FitsDefined
<1>3. CASE Use(m)
  <2>1. Proceed(m, Rebound(m), <<Member(m)>>)
    BY <1>3 DEF Use
  <2>2. QED
    BY <1>1, <2>1, FitsDefined
<1>4. CASE Call(m)
  <2>1. Calls(m) /\ Read(m) # Missing
    BY <1>4 DEF Call
  <2>2. \/ Proceed(m, Recalled(m), <<Read(m)>>)
        \/ \E v : Proceed(m, Assigned(m, Recalled(m), Member(m).of, Member(m).key, v), <<>>)
    BY <1>4, <2>1 DEF Call
  <2>3. QED
    BY <1>1, <2>1, <2>2, FitsCalled, FitsAssigned
<1>5. QED
  BY <1>2, <1>3, <1>4

\* A step that begins no file and caches none.
LEMMA FittingStill ==
  ASSUME CycleInv, NEW m \in Backends, Fitting(m), Receded(m), Fits(m, scope'),
         files' = files, cache' = cache
  PROVE  Fitting(m)'
<1>1. CASE m = "vm"
  <2>1. PICK n : Cut(frames[m], n, frames'[m])
    BY DEF Receded
  <2>2. PICK u : u = frames[m]
    OBVIOUS
  <2>3. PICK v : v = frames'[m]
    OBVIOUS
  <2>4. PICK g : g = scope[m]["main"]
    OBVIOUS
  <2>5. PICK r : r = scope'[m]["main"]
    OBVIOUS
  <2>6. PICK f : f = u[Len(u)].file
    OBVIOUS
  <2>7. InFile(m) = f
    BY <2>2, <2>6, ItsFrame DEF InFile
  <2>8. Piled(files, DOMAIN cache[m], u) /\ Fenced(files, u, g) /\ Cut(u, n, v) /\ Agree(Spoken(files, f), g, r)
    BY <1>1, <2>1, <2>2, <2>3, <2>4, <2>5, <2>7 DEF CycleInv, Tracked, Fitting, Fits
  <2>9. Fenced(files, v, r)
    BY ONLY <2>6, <2>8, FencedStill
  <2>10. QED
    BY <1>1, <2>3, <2>5, <2>9 DEF Fitting
<1>2. CASE m # "vm"
  BY <1>2 DEF Fitting, Fits
<1>3. QED
  BY <1>1, <1>2

\* A file begins.
LEMMA EnterFitting ==
  ASSUME CycleInv, NEW m \in Backends, Fitting(m), ~Fail(m), Enter(m)
  PROVE  Fitting(m)'
<1>1. PICK f \in Needed(m) :
        /\ Readable(f)
        /\ frames' = [frames EXCEPT ![m] = Append(@, Begin(f, Opened(m, f)[m][Home(m, f)]))]
        /\ scope' = Opened(m, f) /\ UNCHANGED <<files, cache>>
  BY DEF Enter
<1>2. PICK t : t = NameRead(m)
  OBVIOUS
<1>3. Fits(m, t) /\ ScopeOK(m, t)
  BY <1>2, FitsDefined, ReboundLabelled, ScopeLabelled DEF Enter, NameRead
<1>4. CASE m = "vm"
  <2>1. PICK b : b = Begin(f, t[m]["main"])
    OBVIOUS
  <2>2. scope' = t /\ b.snapshot = t[m]["main"] /\ frames'[m] = Append(frames[m], b)
    BY <1>1, <1>2, <1>4, <2>1 DEF Opened, Home, Begin, CycleInv, Shapes
  <2>3. PICK u : u = frames[m]
    OBVIOUS
  <2>4. PICK v : v = frames'[m]
    OBVIOUS
  <2>5. PICK g : g = scope[m]["main"]
    OBVIOUS
  <2>6. PICK r : r = t[m]["main"]
    OBVIOUS
  <2>7. PICK e : e = u[Len(u)].file
    OBVIOUS
  <2>8. Len(u) \in Nat \ {0} /\ InFile(m) = e
    BY <2>3, <2>7, ItsFrame DEF InFile
  <2>9. /\ Piled(files, DOMAIN cache[m], u) /\ Fenced(files, u, g) /\ Agree(Spoken(files, e), g, r)
        /\ IsSequence(u) /\ u # <<>>
    BY <1>3, <1>4, <2>3, <2>5, <2>6, <2>8 DEF CycleInv, Tracked, Fitting, Fits, Piled
  <2>10. PICK n : n = Len(u)
    OBVIOUS
  <2>11. Cut(u, n, u)
    BY <2>8, <2>9, <2>10 DEF Cut, SameFile, Piled
  <2>12. Fenced(files, u, r)
    BY ONLY <2>7, <2>9, <2>11, FencedStill
  <2>13. v = Append(u, b) /\ b.snapshot = r
    BY <2>2, <2>3, <2>4, <2>6
  <2>14. Fenced(files, v, r)
    BY ONLY <2>9, <2>12, <2>13, FencedMore
  <2>15. QED
    BY <1>1, <1>4, <2>2, <2>4, <2>6, <2>14 DEF Fitting
<1>5. CASE m # "vm"
  <2>1. scope' = [t EXCEPT ![m][f] = Nothing]
    BY <1>1, <1>2, <1>5 DEF Opened, Backends
  <2>2. DOMAIN t = Backends /\ DOMAIN t[m] = DOMAIN files /\ DOMAIN Nothing = {}
    BY <1>3 DEF ScopeOK, Nothing
  <2>3. \A g \in DOMAIN files : scope'[m][g] = IF g = f THEN Nothing ELSE t[m][g]
    BY <2>1, <2>2
  <2>4. \A g \in DOMAIN files : DOMAIN scope'[m][g] \subseteq Said(files[g])
    BY <1>3, <1>5, <2>2, <2>3 DEF Fits
  <2>5. QED
    BY <1>1, <1>5, <2>4 DEF Fitting
<1>6. QED
  BY <1>4, <1>5

\* A module ends: what it exports has changed since it began.
LEMMA EndFitting ==
  ASSUME CycleInv, NEW m \in Backends, Fitting(m), EndOfFile(m), Len(frames[m]) # 1
  PROVE  Fitting(m)'
<1> DEFINE f == InFile(m)
           e == Exports(m)
           was == Frame(m).snapshot
           now == scope[m][Home(m, f)]
<1>1. PICK u : u = frames[m]
  OBVIOUS
<1>2. PICK v : v = frames'[m]
  OBVIOUS
<1>3. Len(u) \in Nat \ {0, 1} /\ Frame(m) = u[Len(u)] /\ f \in DOMAIN files
  BY <1>1, ItsFrame
<1>4. PICK k \in Nat \ {0} : Len(u) = k + 1
  <2>1. Len(u) - 1 \in Nat \ {0} /\ Len(u) = (Len(u) - 1) + 1
    BY <1>3
  <2>2. QED
    BY <2>1
<1>5. f = u[k + 1].file /\ was = u[k + 1].snapshot
  BY <1>3, <1>4 DEF InFile
<1>6. cache'[m] = Bound(f, e, cache[m]) /\ files' = files /\ scope' = Restored(m) /\ v = Front(u)
  BY <1>1, <1>2 DEF EndOfFile, CycleInv, Shapes
<1>7. DOMAIN e = {x \in DOMAIN now : x \notin DOMAIN was \/ now[x] # was[x]}
  BY DEF Exports
<1>8. DOMAIN e \subseteq IF m = "tree" THEN Said(files[f]) ELSE Spoken(files, f)
  <2>1. CASE m = "vm"
    <3>1. k + 1 \in 2..Len(u)
      BY <1>4
    <3>2. Agree(Spoken(files, f), was, now)
      BY <1>1, <1>5, <2>1, <3>1 DEF Fitting, Fenced, Home
    <3> HIDE DEF e, was, now, f
    <3>3. QED
      BY <1>7, <2>1, <3>2 DEF Agree
  <2>2. CASE m # "vm"
    <3>1. now = scope[m][f]
      BY <2>2 DEF Home
    <3>2. DOMAIN now \subseteq Said(files[f])
      BY <1>3, <2>2, <3>1 DEF Fitting
    <3>3. m = "tree"
      BY <2>2 DEF Backends
    <3> HIDE DEF e, was, now, f
    <3>4. QED
      BY <1>7, <3>2, <3>3
  <2>3. QED
    BY <2>1, <2>2
<1>9. \A g \in DOMAIN cache'[m] :
        DOMAIN cache'[m][g] \subseteq IF m = "tree" THEN Said(files[g]) ELSE Spoken(files, g)
  <2>1. PICK d : d = Bound(f, e, cache[m])
    OBVIOUS
  <2>2. DOMAIN d = DOMAIN cache[m] \cup {f} /\ \A g \in DOMAIN d : d[g] = IF g = f THEN e ELSE cache[m][g]
    BY <2>1 DEF Bound
  <2> HIDE DEF e, f
  <2>3. ASSUME NEW g \in DOMAIN d
        PROVE  DOMAIN d[g] \subseteq IF m = "tree" THEN Said(files[g]) ELSE Spoken(files, g)
    <3>1. CASE g = f
      <4>1. d[g] = e
        BY <2>2, <3>1
      <4>2. QED
        BY <1>8, <3>1, <4>1
    <3>2. CASE g # f
      <4>1. g \in DOMAIN cache[m] /\ d[g] = cache[m][g]
        BY <2>2, <3>2
      <4>2. QED
        BY <4>1 DEF Fitting
    <3>3. QED
      BY <3>1, <3>2
  <2>4. QED
    BY <1>6, <2>1, <2>3
<1>10. CASE m = "vm"
  <2>1. PICK n : Cut(u, n, v)
    BY <1>1, <1>2, EndTracked DEF Receded
  <2>2. n = k
    <3>1. IsSequence(u) /\ u # <<>>
      BY <1>1 DEF CycleInv, Tracked, Piled
    <3>2. Len(v) = Len(u) - 1
      BY ONLY <1>6, <3>1, FrontProperties DEF IsSequence
    <3>3. QED
      BY <1>4, <2>1, <3>2 DEF Cut
  <2>3. PICK g : g = scope[m]["main"]
    OBVIOUS
  <2>4. PICK r : r = scope'[m]["main"]
    OBVIOUS
  <2>5. r = Before(u[k + 1].snapshot, g)
    <3>1. DOMAIN scope = Backends /\ "main" \in DOMAIN scope[m]
      BY ItsFrame DEF CycleInv
    <3>2. QED
      BY <1>5, <1>6, <1>10, <2>3, <2>4, <3>1 DEF Restored
  <2>6. Fenced(files, u, g)
    BY <1>1, <1>10, <2>3 DEF Fitting
  <2>7. Fenced(files, v, r)
    BY ONLY <1>4, <2>1, <2>2, <2>5, <2>6, FencedLess
  <2>8. QED
    BY <1>2, <1>6, <1>9, <1>10, <2>4, <2>7 DEF Fitting
<1>11. CASE m # "vm"
  <2>1. scope' = scope
    BY <1>6, <1>11 DEF Restored
  <2>2. \A g \in DOMAIN files : DOMAIN scope'[m][g] \subseteq Said(files[g])
    BY <1>11, <2>1 DEF Fitting
  <2>3. QED
    BY <1>6, <1>9, <1>11, <2>2 DEF Fitting
<1>12. QED
  BY <1>10, <1>11

\* A backend's own step.
LEMMA StepFitting ==
  ASSUME CycleInv, NEW m \in Backends, Fitting(m), Step(m)
  PROVE  Fitting(m)'
<1>1. ASSUME UNCHANGED <<files, frames, cache, scope>> PROVE Fitting(m)'
  BY <1>1 DEF Fitting
<1>2. CASE Fail(m)
  BY <1>1, <1>2 DEF Fail
<1>3. CASE Raise(m) /\ ~Fail(m)
  <2>1. files' = files /\ cache' = cache /\ scope' = scope
    BY <1>3 DEF Raise
  <2>2. Fits(m, scope')
    BY <2>1, FitsNow
  <2>3. Receded(m)
    BY <1>3, RaiseTracked
  <2>4. QED
    BY <2>1, <2>2, <2>3, FittingStill
<1>4. CASE Enter(m) /\ ~Fail(m)
  BY <1>4, EnterFitting
<1>5. CASE EndOfFile(m) /\ Len(frames[m]) = 1
  BY <1>1, <1>5 DEF EndOfFile
<1>6. CASE EndOfFile(m) /\ Len(frames[m]) # 1
  BY <1>6, EndFitting
<1>7. CASE /\ Let(m) \/ FuncDef(m) \/ LazyImport(m) \/ Import(m) \/ Use(m) \/ Call(m)
           /\ ~Fail(m)
  <2>1. PICK s, t : Proceed(m, s, t) /\ Fits(m, s)
    BY <1>7, PlainFits
  <2>2. files' = files /\ cache' = cache /\ scope' = s
    BY <2>1 DEF Proceed
  <2>3. Receded(m)
    BY <1>7, PlainTracked
  <2>4. QED
    BY <2>1, <2>2, <2>3, FittingStill
<1>8. QED
  BY <1>2, <1>3, <1>4, <1>5, <1>6, <1>7 DEF Step

\* Nothing is bound, and one file is being evaluated.
LEMMA FitInit ==
  ASSUME Init
  PROVE  FitInv
<1>1. DOMAIN Nothing = {} /\ Len(<<Begin("main", Nothing)>>) = 1 /\ 2..1 = {}
  BY DEF Nothing
<1>2. ASSUME NEW m \in Backends PROVE Fitting(m)
  <2>1. /\ frames[m] = <<Begin("main", Nothing)>> /\ cache[m] = Nothing
        /\ \A f \in DOMAIN files : scope[m][f] = Nothing
    BY DEF Init
  <2>2. Fenced(files, frames[m], scope[m]["main"])
    BY <1>1, <2>1 DEF Fenced
  <2>3. QED
    BY <1>1, <2>1, <2>2 DEF Fitting
<1>3. QED
  BY <1>2, CycleInit DEF FitInv

\* The invariant is inductive.
LEMMA FitNext ==
  ASSUME FitInv, [Next]_vars
  PROVE  FitInv'
<1>1. CycleInv /\ CycleInv'
  BY CycleNext DEF FitInv
<1>2. CASE UNCHANGED vars
  BY <1>1, <1>2 DEF vars, FitInv, Fitting
<1>3. ASSUME NEW m \in Backends, Step(m) PROVE FitInv'
  <2>1. Others(m) /\ files' = files
    BY <1>1, <1>3, StepShapes DEF CycleInv
  <2>2. Scoped(m)
    BY <1>1, <1>3, StepTracked
  <2>3. Fitting(m)'
    BY <1>1, <1>3, StepFitting DEF FitInv
  <2>4. ASSUME NEW o \in Backends \ {m} PROVE Fitting(o)'
    <3>1. frames'[o] = frames[o] /\ cache'[o] = cache[o] /\ files' = files /\ scope'[o] = scope[o]
      BY <2>1, <2>2 DEF Others, Scoped
    <3>2. Fitting(o)
      BY DEF FitInv
    <3>3. QED
      BY <3>1, <3>2 DEF Fitting
  <2>5. QED
    BY <1>1, <2>3, <2>4 DEF FitInv
<1>4. QED
  BY <1>2, <1>3 DEF Next

\* The names a file defines keep what it has bound them to, on the VM's one
\* table of globals as in the tree-walker's environments, whatever the modules
\* loaded in between define; a module exports them all, but that the VM
\* overlooks one that had the very same value from another file before; and it
\* exports nothing but names that its statements have, or on the VM, that are
\* spoken of in it or in a file it reaches, aborted loads and assignments
\* notwithstanding.
THEOREM NamesStayOwned == Spec => []OwnNamesKept
<1>1. ASSUME OwnInv, NEW m \in Backends, ~Bumped, aborted[m] = {}
      PROVE  LET q == files[InFile(m)]
             IN \A x \in Defines(q, Frame(m).at) : Value(m, InFile(m), x) = Num(LastOf(q, Frame(m).at, x))
  <2> DEFINE n == Len(frames[m])
             f == InFile(m)
             k == Frame(m).at
  <2>1. CycleInv /\ Kept(files, m, frames[m], scope[m])
    BY <1>1 DEF OwnInv, Owned
  <2>2. n \in Nat \ {0} /\ Frame(m) = frames[m][n] /\ f = frames[m][n].file
    BY <2>1, ItsFrame DEF InFile
  <2>3. Held(m, frames[m], scope[m], n) = scope[m][Home(m, f)]
    BY <2>2 DEF Held, Home
  <2>4. Keeps(files[f], k, scope[m][Home(m, f)])
    <3>1. n \in 1..n
      BY <2>2
    <3>2. QED
      BY <2>1, <2>2, <2>3, <3>1 DEF Kept
  <2>5. QED
    BY <2>4 DEF Keeps, Value, Sees, Before
<1>2. ASSUME OwnInv, NEW m \in Backends, ~Bumped, aborted[m] = {}
      PROVE  Exported(files, m, cache[m])
  BY <1>2 DEF OwnInv, Owned
<1>3. OwnInv => NamesOfFilesKept
  BY <1>1 DEF NamesOfFilesKept
<1>4. OwnInv => NamesExported
  BY <1>2 DEF NamesExported, Exported
<1>5. FitInv => ExportsBounded
  BY DEF FitInv, Fitting, ExportsBounded
<1>6. OwnInv /\ FitInv => OwnNamesKept
  BY <1>3, <1>4, <1>5 DEF OwnNamesKept
<1>7. QED
  BY <1>6, OwnInit, OwnNext, FitInit, FitNext, PTL DEF Spec
=============================================================================
