------------------------- MODULE WorkerMeaningProofs -------------------------
(* Proofs about what a program of WorkerPool means: the functions of a      *)
(* program that does not call in a circle have one meaning, and what the    *)
(* pool answers is that meaning, whichever worker takes which job and       *)
(* however the threads interleave.                                          *)
EXTENDS WorkerPoolProofs

\* The k-th statement of b is a spawn whose argument may be sent.
Spawns(p, b, k) == b.does[k].op = "spawn" /\ p.body[b.does[k].calls[1]].sends

Joins(b, j, k) == b.does[j].op = "join" /\ b.does[j].handle = k

\* The results a body has got are what its statements mean.
Told(p, b, F, m) ==
  /\ F.at \in Nat \ {0} /\ F.at - 1 <= Len(b.does)
  /\ IsSequence(F.results) /\ Len(F.results) = F.at - 1
  /\ \A k \in 1..F.at - 1 : /\ F.results[k] = Result(p, b, k, m)
                            /\ ~b.rescues => F.results[k].kind # "error"

\* A body holds one handle for each spawn it has executed and not joined.
Holding(p, b, F, rs) ==
  /\ \A h \in F.handles :
       /\ h[1] \in 1..F.at - 1 /\ h[2] \in 1..Len(rs)
       /\ Spawns(p, b, h[1]) /\ rs[h[2]].call = b.does[h[1]].calls[1]
       /\ ~Joined(b, h[1], F.at)
       /\ F.sent # <<>> => ~Joins(b, F.at, h[1])
  /\ \A g, h \in F.handles : g[1] = h[1] => g = h
  /\ \A k \in 1..F.at - 1 :
       \/ ~Spawns(p, b, k) \/ Joined(b, k, F.at) \/ (F.sent # <<>> /\ Joins(b, F.at, k))
       \/ \E h \in F.handles : h[1] = k

\* The replies a body waits for are those of the calls of its statement.
Asked(p, b, F, rs) ==
  /\ IsSequence(F.sent)
  /\ \A i \in 1..Len(F.sent) : F.sent[i] \in 1..Len(rs)
  /\ F.sent # <<>> =>
       LET s == b.does[F.at]
       IN /\ F.at <= Len(b.does) /\ s.op # "spawn"
          /\ s.op = "join" => /\ Len(F.sent) = 1 /\ Spawns(p, b, s.handle) /\ ~Joined(b, s.handle, F.at)
                              /\ rs[F.sent[1]].call = b.does[s.handle].calls[1]
          /\ s.op # "join" => \A i \in 1..Len(F.sent) :
                                /\ i \in 1..Len(s.calls) /\ rs[F.sent[i]].call = s.calls[i]
                                /\ p.body[s.calls[i]].sends

\* The answers it has collected are what those calls give, and no errors.
Heard(F, rs, m) ==
  /\ IsSequence(F.got) /\ Len(F.got) <= Len(F.sent)
  /\ \A i \in 1..Len(F.got) : F.got[i] = m[rs[F.sent[i]].call] /\ F.got[i].kind # "error"

Doing(p, b, F, rs, m) == Told(p, b, F, m) /\ Holding(p, b, F, rs) /\ Asked(p, b, F, rs) /\ Heard(F, rs, m)

\* Every worker has the definitions of the workers.
LoadedAll == /\ DOMAIN loaded = Threads
             /\ \A w \in Workers : phase[w] # "loading" => loaded[w] = OnWorkers(prog)

\* An answer is what the function gives, or was lost with the last worker.
RepliesTold(m) ==
  \A i \in 1..Len(replies) :
    \/ replies[i].answer \in {Pending, m[replies[i].call]}
    \/ replies[i].answer = Lost /\ Live = {}

\* While a worker is left, every body is at a point its meaning goes through.
BodyTold(t, m) ==
  (IF t = Main THEN Live # {} ELSE phase[t] = "busy") => Doing(prog, Body(t), frame[t], replies, m)

Meant(m) == LoadedAll /\ RepliesTold(m) /\ \A t \in Threads : BodyTold(t, m)

MeantInv == AllLoad /\ NoCircle(prog) => Meant(Meaning(prog, OnWorkers(prog)))
-----------------------------------------------------------------------------
(* The functions of a program without circles have a meaning.              *)

\* A program's bodies, and their statements.
WellFormed(p, b) ==
  /\ b.does \in Seq(Statements(p))
  /\ \A i \in 1..Len(b.does) :
       /\ b.does[i].op \in {"call", "spawn"} => Len(b.does[i].calls) = 1
       /\ b.does[i].op = "join" =>
            b.does[i].handle \in 1..i - 1 /\ b.does[b.does[i].handle].op = "spawn"

\* The statements of a body are those of its domain.
LEMMA BodyFacts ==
  ASSUME NEW p, NEW b, WellFormed(p, b)
  PROVE  Len(b.does) \in Nat /\ DOMAIN b.does = 1..Len(b.does)
BY LenProperties DEF WellFormed

\* What the assumption on programs says of a statement.
LEMMA StatementFacts ==
  ASSUME NEW p, NEW b, WellFormed(p, b), NEW k \in 1..Len(b.does)
  PROVE  /\ b.does[k].op \in {"call", "spawn", "join", "map"}
         /\ b.does[k].calls \in Seq(DOMAIN p.body)
         /\ Len(b.does[k].calls) \in Nat /\ DOMAIN b.does[k].calls = 1..Len(b.does[k].calls)
         /\ b.does[k].op \in {"call", "spawn"} => Len(b.does[k].calls) = 1
<1> DEFINE s == b.does[k]
<1>1. s \in Statements(p)
  BY BodyFacts, ElementOfSeq DEF WellFormed
<1>2. s.op \in {"call", "spawn", "join", "map"} /\ s.calls \in Seq(DOMAIN p.body)
  BY <1>1 DEF Statements
<1>3. Len(s.calls) \in Nat /\ DOMAIN s.calls = 1..Len(s.calls)
  BY <1>2, LenProperties
<1>4. s.op \in {"call", "spawn"} => Len(s.calls) = 1
  BY DEF WellFormed
<1>5. QED
  BY <1>2, <1>3, <1>4

\* The functions it calls are the program's.
LEMMA CalledFacts ==
  ASSUME NEW p, NEW b, WellFormed(p, b), NEW k \in 1..Len(b.does),
         NEW j \in 1..Len(b.does[k].calls)
  PROVE  b.does[k].calls[j] \in Calls(b) /\ b.does[k].calls[j] \in DOMAIN p.body
<1>1. b.does[k].calls \in Seq(DOMAIN p.body)
  BY StatementFacts
<1>2. b.does[k].calls[j] \in ToSet(b.does[k].calls) /\ b.does[k].calls[j] \in DOMAIN p.body
  BY <1>1, ToSetDef, ElementOfSeq
<1>3. QED
  BY <1>2, BodyFacts DEF Calls

\* A join names the spawn of one call, before it.
LEMMA JoinFacts ==
  ASSUME NEW p, NEW b, WellFormed(p, b), NEW k \in 1..Len(b.does), b.does[k].op = "join"
  PROVE  /\ b.does[k].handle \in 1..k - 1 /\ b.does[k].handle \in 1..Len(b.does)
         /\ b.does[b.does[k].handle].op = "spawn"
         /\ b.does[b.does[k].handle].calls[1] \in Calls(b)
         /\ b.does[b.does[k].handle].calls[1] \in DOMAIN p.body
<1> DEFINE h == b.does[k].handle
<1>1. h \in 1..k - 1 /\ h \in 1..Len(b.does) /\ b.does[h].op = "spawn"
  BY BodyFacts DEF WellFormed
<1> HIDE DEF h
<1>2. Len(b.does[h].calls) = 1
  BY <1>1, StatementFacts
<1>3. 1 \in 1..Len(b.does[h].calls)
  BY <1>2
<1>4. b.does[h].calls[1] \in Calls(b) /\ b.does[h].calls[1] \in DOMAIN p.body
  BY <1>1, <1>3, CalledFacts
<1>5. QED
  BY <1>1, <1>4 DEF h

\* Every body of the programs is well formed.
LEMMA ProgramBodies ==
  ASSUME NEW p \in Programs
  PROVE  WellFormed(p, p.main) /\ \A c \in DOMAIN p.body : WellFormed(p, p.body[c])
BY ProgramsAssumption DEF WellFormed

\* A body's result depends on the functions it calls only.
LEMMA ResultIsLocal ==
  ASSUME NEW p, NEW b, WellFormed(p, b), NEW m, NEW n, \A c \in Calls(b) : m[c] = n[c],
         NEW k \in 1..Len(b.does)
  PROVE  Result(p, b, k, m) = Result(p, b, k, n)
<1> DEFINE s == b.does[k]
<1>1. DOMAIN s.calls = 1..Len(s.calls)
  BY StatementFacts
<1>2. \A j \in 1..Len(s.calls) : m[s.calls[j]] = n[s.calls[j]]
  BY CalledFacts
<1>3. s.op = "join" => m[b.does[s.handle].calls[1]] = n[b.does[s.handle].calls[1]]
  BY JoinFacts
<1>4. Given(p, s.calls, m) = Given(p, s.calls, n)
  <2> HIDE DEF s
  <2>1. QED
    BY <1>1, <1>2 DEF Given
<1>5. QED
  BY <1>3, <1>4 DEF Result

\* So does what the body gives.
LEMMA GivesIsLocal ==
  ASSUME NEW p, NEW b, WellFormed(p, b), NEW L, NEW m, NEW n, \A c \in Calls(b) : m[c] = n[c]
  PROVE  Gives(p, b, L, m) = Gives(p, b, L, n)
<1>1. DOMAIN b.does = 1..Len(b.does)
  BY BodyFacts
<1>2. [k \in DOMAIN b.does |-> Result(p, b, k, m)] = [k \in DOMAIN b.does |-> Result(p, b, k, n)]
  BY <1>1, ResultIsLocal
<1>3. QED
  BY <1>2 DEF Gives

\* g is what the functions of T give, and T has those they call.
Solves(p, L, g, T) ==
  /\ T \subseteq DOMAIN p.body
  /\ \A c \in T : Calls(p.body[c]) \subseteq T
  /\ \A c \in T : g[c] = Gives(p, p.body[c], L, g)

\* Two solutions agree where both are defined.
LEMMA SolutionsAgree ==
  ASSUME NEW p \in Programs, NoCircle(p), NEW L, NEW g, NEW T, NEW h, NEW U,
         Solves(p, L, g, T), Solves(p, L, h, U), NEW c \in T \cap U
  PROVE  g[c] = h[c]
<1> DEFINE S == {d \in T \cap U : g[d] # h[d]}
<1>1. SUFFICES ASSUME S # {} PROVE FALSE
  OBVIOUS
<1>2. S \in SUBSET DOMAIN p.body
  BY DEF Solves
<1>3. PICK d \in S : Calls(p.body[d]) \cap S = {}
  BY <1>1, <1>2 DEF NoCircle
<1>4. d \in T /\ d \in U /\ g[d] # h[d] /\ d \in DOMAIN p.body
  BY <1>2
<1>5. Calls(p.body[d]) \subseteq T \cap U
  BY <1>4 DEF Solves
<1>6. \A e \in Calls(p.body[d]) : g[e] = h[e]
  BY <1>3, <1>5
<1>7. WellFormed(p, p.body[d])
  BY <1>4, ProgramBodies
<1>8. Gives(p, p.body[d], L, g) = Gives(p, p.body[d], L, h)
  BY <1>6, <1>7, GivesIsLocal
<1>9. QED
  BY <1>4, <1>8 DEF Solves

\* What any solution gives c.
Solution(p, L, c) == CHOOSE v : \E T, g : Solves(p, L, g, T) /\ c \in T /\ v = g[c]

Solved(p, L) == {c \in DOMAIN p.body : \E T, g : Solves(p, L, g, T) /\ c \in T}

\* All the solutions together are one.
LEMMA SolutionsTogether ==
  ASSUME NEW p \in Programs, NoCircle(p), NEW L
  PROVE  Solves(p, L, [c \in Solved(p, L) |-> Solution(p, L, c)], Solved(p, L))
<1> DEFINE D == Solved(p, L)
           f == [c \in D |-> Solution(p, L, c)]
<1>1. ASSUME NEW T, NEW g, Solves(p, L, g, T)
      PROVE  \A c \in T : c \in D /\ f[c] = g[c]
  <2> SUFFICES ASSUME NEW c \in T PROVE c \in D /\ f[c] = g[c]
    OBVIOUS
  <2>1. c \in D
    BY <1>1 DEF Solved, Solves
  <2>2. \E v : \E U, h : Solves(p, L, h, U) /\ c \in U /\ v = h[c]
    BY <1>1
  <2>3. \E U, h : Solves(p, L, h, U) /\ c \in U /\ Solution(p, L, c) = h[c]
    BY <2>2 DEF Solution
  <2>4. PICK U, h : Solves(p, L, h, U) /\ c \in U /\ Solution(p, L, c) = h[c]
    BY <2>3
  <2>5. h[c] = g[c]
    BY <1>1, <2>4, SolutionsAgree
  <2>6. f[c] = Solution(p, L, c)
    BY <2>1
  <2>7. QED
    BY <2>1, <2>4, <2>5, <2>6
<1>2. ASSUME NEW c \in D PROVE Calls(p.body[c]) \subseteq D /\ f[c] = Gives(p, p.body[c], L, f)
  <2>1. PICK T, g : Solves(p, L, g, T) /\ c \in T
    BY DEF Solved
  <2>2. Calls(p.body[c]) \subseteq T /\ g[c] = Gives(p, p.body[c], L, g) /\ c \in DOMAIN p.body
    BY <2>1 DEF Solves
  <2>3. \A e \in Calls(p.body[c]) : e \in D /\ f[e] = g[e]
    BY <1>1, <2>1, <2>2
  <2>4. WellFormed(p, p.body[c])
    BY <2>2, ProgramBodies
  <2> HIDE DEF f
  <2>5. Gives(p, p.body[c], L, f) = Gives(p, p.body[c], L, g)
    BY <2>3, <2>4, GivesIsLocal
  <2>6. f[c] = g[c]
    BY <1>1, <2>1
  <2>7. QED
    BY <2>2, <2>3, <2>5, <2>6
<1>3. D \subseteq DOMAIN p.body
  BY DEF Solved
<1> HIDE DEF D, f
<1>4. Solves(p, L, f, D)
  BY <1>2, <1>3 DEF Solves
<1>5. QED
  BY <1>4 DEF D, f

\* A function that calls only solved functions is solved.
LEMMA OneMoreSolved ==
  ASSUME NEW p \in Programs, NoCircle(p), NEW L, NEW c \in DOMAIN p.body,
         Calls(p.body[c]) \subseteq Solved(p, L) \ {c}
  PROVE  c \in Solved(p, L)
<1> DEFINE D == Solved(p, L)
           f == [d \in D |-> Solution(p, L, d)]
           v == Gives(p, p.body[c], L, f)
           g == [d \in D \cup {c} |-> IF d = c THEN v ELSE f[d]]
<1>1. SUFFICES ASSUME c \notin D PROVE Solves(p, L, g, D \cup {c})
  <2>1. Solves(p, L, g, D \cup {c}) => c \in D
    <3> HIDE DEF g
    <3>1. QED
      BY DEF Solved
  <2>2. QED
    BY <2>1
<1>2. Solves(p, L, f, D)
  BY SolutionsTogether
<1>3. g[c] = v /\ \A d \in D : g[d] = f[d]
  BY <1>1
<1> HIDE DEF v, g, f, D
<1>4. \A d \in D : Calls(p.body[d]) \subseteq D /\ f[d] = Gives(p, p.body[d], L, f) /\ d \in DOMAIN p.body
  BY <1>2 DEF Solves
<1>5. Calls(p.body[c]) \subseteq D
  BY DEF D
<1>6. ASSUME NEW d \in D \cup {c} PROVE Gives(p, p.body[d], L, g) = Gives(p, p.body[d], L, f)
  <2>1. \A e \in Calls(p.body[d]) : g[e] = f[e]
    BY <1>3, <1>4, <1>5
  <2>2. WellFormed(p, p.body[d])
    BY <1>4, ProgramBodies
  <2>3. QED
    BY <2>1, <2>2, GivesIsLocal
<1>7. ASSUME NEW d \in D \cup {c} PROVE g[d] = Gives(p, p.body[d], L, g)
  BY <1>3, <1>4, <1>6 DEF v
<1>8. QED
  BY <1>4, <1>5, <1>7 DEF Solves

\* A program without circles has a meaning: what each function gives where
\* the functions it calls give theirs.
LEMMA MeaningExists ==
  ASSUME NEW p \in Programs, NoCircle(p), NEW L
  PROVE  Meaning(p, L) = [c \in DOMAIN p.body |-> Gives(p, p.body[c], L, Meaning(p, L))]
<1> DEFINE D == Solved(p, L)
           f == [c \in D |-> Solution(p, L, c)]
<1>1. Solves(p, L, f, D)
  BY SolutionsTogether
<1>2. D = DOMAIN p.body
  <2> DEFINE S == DOMAIN p.body \ D
  <2>1. SUFFICES ASSUME S # {} PROVE FALSE
    BY DEF Solved
  <2>2. PICK c \in S : Calls(p.body[c]) \cap S = {}
    BY <2>1 DEF NoCircle
  <2>3. c \in DOMAIN p.body /\ c \notin D
    OBVIOUS
  <2>4. Calls(p.body[c]) \subseteq DOMAIN p.body
    <3>1. WellFormed(p, p.body[c])
      BY <2>3, ProgramBodies
    <3> DEFINE b == p.body[c]
    <3>2. ASSUME NEW e \in Calls(b) PROVE e \in DOMAIN p.body
      <4>1. PICK k \in DOMAIN b.does : e \in ToSet(b.does[k].calls)
        BY DEF Calls
      <4>2. k \in 1..Len(b.does)
        BY <3>1, BodyFacts
      <4>3. b.does[k].calls \in Seq(DOMAIN p.body)
        BY <3>1, <4>2, StatementFacts
      <4>4. QED
        BY <4>1, <4>3, ToSetDef
    <3>3. QED
      BY <3>2
  <2>5. Calls(p.body[c]) \subseteq D \ {c} \/ c \in Calls(p.body[c])
    BY <2>2, <2>4
  <2>6. c \notin Calls(p.body[c])
    BY <2>2
  <2>7. c \in D
    <3> HIDE DEF S
    <3>1. QED
      BY <2>3, <2>5, <2>6, OneMoreSolved
  <2>8. QED
    BY <2>3, <2>7
<1>3. f = [c \in DOMAIN p.body |-> Gives(p, p.body[c], L, f)]
  <2>1. \A c \in DOMAIN p.body : f[c] = Gives(p, p.body[c], L, f)
    BY <1>1, <1>2 DEF Solves
  <2>2. f = [c \in DOMAIN p.body |-> f[c]]
    BY <1>2
  <2> HIDE DEF f
  <2>3. QED
    BY <2>1, <2>2
<1> HIDE DEF f
<1>4. \E m : m = [c \in DOMAIN p.body |-> Gives(p, p.body[c], L, m)]
  BY <1>3
<1>5. QED
  BY <1>4 DEF Meaning

-----------------------------------------------------------------------------
(* What the statements of a body mean.                                     *)

\* A spawn whose argument is sent gives a handle.
LEMMA SpawnResult ==
  ASSUME NEW p, NEW b, NEW k, NEW m, b.does[k].op = "spawn",
         \A j \in DOMAIN b.does[k].calls : p.body[b.does[k].calls[j]].sends
  PROVE  Result(p, b, k, m) = Handle
<1> DEFINE s == b.does[k]
<1>1. {j \in DOMAIN s.calls : ~p.body[s.calls[j]].sends} = {} /\ s.op = "spawn"
  OBVIOUS
<1>2. QED
  BY <1>1 DEF Result

-----------------------------------------------------------------------------
(* One step of a body on the way of its meaning.                           *)

\* There may be more replies, and those there were are for the same calls.
Grown(rs, us) == /\ Len(rs) \in Nat /\ Len(us) \in Nat /\ Len(rs) <= Len(us)
                 /\ \A i \in 1..Len(rs) : us[i].call = rs[i].call

\* A statement joins what was not joined before, or what was.
LEMMA JoinedNext ==
  ASSUME NEW b, NEW n \in Nat, NEW k \in 1..n - 1
  PROVE  Joined(b, k, n + 1) <=> Joined(b, k, n) \/ Joins(b, n, k)
BY DEF Joined, Joins

\* A body that waits for nothing.
LEMMA NothingAsked ==
  ASSUME NEW p, NEW b, NEW F, F.sent = <<>>, F.got = <<>>, NEW rs, NEW m
  PROVE  Asked(p, b, F, rs) /\ Heard(F, rs, m)
<1>1. Len(<<>>) = 0 /\ IsSequence(<<>>)
  BY EmptySeq DEF IsSequence
<1>2. QED
  BY <1>1 DEF Asked, Heard

\* A body begins at its first statement.
LEMMA DoingBegins ==
  ASSUME NEW p, NEW b, WellFormed(p, b), NEW F, NEW rs, NEW m,
         F.at = 1, F.sent = <<>>, F.got = <<>>, F.results = <<>>, F.handles = {}
  PROVE  Doing(p, b, F, rs, m)
<1>1. Len(<<>>) = 0 /\ IsSequence(<<>>) /\ Len(b.does) \in Nat
  BY EmptySeq, BodyFacts DEF IsSequence
<1>2. Told(p, b, F, m)
  BY <1>1 DEF Told
<1>3. Holding(p, b, F, rs)
  BY DEF Holding
<1>4. QED
  BY <1>2, <1>3, NothingAsked DEF Doing

\* The replies of others do not matter to it.
LEMMA DoingAmongMore ==
  ASSUME NEW p, NEW b, NEW F, NEW rs, NEW us, NEW m, Doing(p, b, F, rs, m), Grown(rs, us)
  PROVE  Doing(p, b, F, us, m)
<1>1. \A i \in 1..Len(rs) : i \in 1..Len(us) /\ us[i].call = rs[i].call
  BY DEF Grown
<1>2. Holding(p, b, F, us)
  BY <1>1 DEF Doing, Holding
<1>3. Asked(p, b, F, us)
  <2>1. \A i \in 1..Len(F.sent) : F.sent[i] \in 1..Len(us) /\ us[F.sent[i]].call = rs[F.sent[i]].call
    BY <1>1 DEF Doing, Asked
  <2>2. Asked(p, b, F, rs)
    BY DEF Doing
  <2>3. ASSUME F.sent # <<>>, b.does[F.at].op = "join"
        PROVE  LET s == b.does[F.at]
               IN /\ Len(F.sent) = 1 /\ Spawns(p, b, s.handle) /\ ~Joined(b, s.handle, F.at)
                  /\ us[F.sent[1]].call = b.does[s.handle].calls[1]
    <3>1. /\ Len(F.sent) = 1 /\ Spawns(p, b, b.does[F.at].handle)
          /\ ~Joined(b, b.does[F.at].handle, F.at)
          /\ rs[F.sent[1]].call = b.does[b.does[F.at].handle].calls[1]
      BY ONLY <2>2, <2>3 DEF Asked
    <3>2. 1 \in 1..Len(F.sent)
      BY ONLY <3>1
    <3>3. us[F.sent[1]].call = rs[F.sent[1]].call
      BY ONLY <2>1, <3>2
    <3>4. QED
      BY ONLY <3>1, <3>3
  <2>4. ASSUME F.sent # <<>>, b.does[F.at].op # "join", NEW i \in 1..Len(F.sent)
        PROVE  LET s == b.does[F.at]
               IN /\ i \in 1..Len(s.calls) /\ us[F.sent[i]].call = s.calls[i]
                  /\ p.body[s.calls[i]].sends
    <3>1. /\ i \in 1..Len(b.does[F.at].calls) /\ rs[F.sent[i]].call = b.does[F.at].calls[i]
          /\ p.body[b.does[F.at].calls[i]].sends
      BY ONLY <2>2, <2>4 DEF Asked
    <3>2. QED
      BY ONLY <2>1, <3>1, i \in 1..Len(F.sent)
  <2>5. IsSequence(F.sent) /\ \A i \in 1..Len(F.sent) : F.sent[i] \in 1..Len(us)
    BY ONLY <2>1, <2>2 DEF Asked
  <2>6. F.sent # <<>> => F.at <= Len(b.does) /\ b.does[F.at].op # "spawn"
    BY ONLY <2>2 DEF Asked
  <2>7. QED
    BY ONLY <2>3, <2>4, <2>5, <2>6 DEF Asked
<1>4. Heard(F, us, m)
  <2>1. Len(F.sent) \in Nat /\ Len(F.got) \in Nat /\ Len(F.got) <= Len(F.sent)
    BY LenProperties DEF Doing, Asked, Heard, IsSequence
  <2>2. \A i \in 1..Len(F.got) : F.sent[i] \in 1..Len(rs)
    BY <2>1 DEF Doing, Asked
  <2>3. QED
    BY <1>1, <2>2 DEF Doing, Heard
<1>5. QED
  BY <1>2, <1>3, <1>4 DEF Doing

\* u is s with x after it.
Adds(s, x, u) == /\ IsSequence(u) /\ Len(s) \in Nat /\ Len(u) = Len(s) + 1
                 /\ u[Len(s) + 1] = x
                 /\ \A i \in 1..Len(s) : u[i] = s[i]

\* What appending does to a sequence kept in a frame.
LEMMA AppendedOne ==
  ASSUME NEW s, IsSequence(s), NEW x, NEW u, u = Append(s, x)
  PROVE  Adds(s, x, u)
<1>1. IsSequence(u) /\ Len(s) \in Nat
  BY AppendOne
<1>2. Len(u) = Len(s) + 1
  BY AppendOne
<1>3. u[Len(s) + 1] = x
  BY AppendOne
<1>4. \A i \in 1..Len(s) : u[i] = s[i]
  BY AppendOne
<1>5. QED
  BY <1>1, <1>2, <1>3, <1>4 DEF Adds

\* One more result that is meant.
LEMMA ToldMore ==
  ASSUME NEW p, NEW b, WellFormed(p, b), NEW F, NEW G, NEW m, Told(p, b, F, m), F.at <= Len(b.does),
         NEW r, r = Result(p, b, F.at, m), ~b.rescues => r.kind # "error",
         G.at = F.at + 1, Adds(F.results, r, G.results)
  PROVE  Told(p, b, G, m)
<1>1. F.at \in Nat \ {0} /\ IsSequence(F.results) /\ Len(F.results) = F.at - 1
  BY DEF Told
<1>0. Len(b.does) \in Nat
  BY BodyFacts
<1>2. /\ IsSequence(G.results) /\ Len(G.results) = Len(F.results) + 1
      /\ G.results[Len(F.results) + 1] = r
      /\ \A k \in 1..Len(F.results) : G.results[k] = F.results[k]
  BY DEF Adds
<1>3. Len(F.results) + 1 = F.at
  BY <1>1
<1>4. Len(G.results) = F.at /\ G.results[F.at] = r
  BY <1>2, <1>3
<1>5. \A k \in 1..F.at - 1 : G.results[k] = F.results[k]
  BY <1>1, <1>2
<1>6. ASSUME NEW k \in 1..F.at
      PROVE  G.results[k] = Result(p, b, k, m) /\ (~b.rescues => G.results[k].kind # "error")
  <2>1. k = F.at \/ k \in 1..F.at - 1
    BY <1>1
  <2>2. QED
    BY <1>4, <1>5, <2>1 DEF Told
<1>7. G.at \in Nat \ {0} /\ G.at - 1 = F.at /\ G.at - 1 <= Len(b.does)
  BY <1>0, <1>1
<1>8. IsSequence(G.results) /\ Len(G.results) = G.at - 1
  BY <1>2, <1>4, <1>7
<1>9. \A k \in 1..G.at - 1 :
        G.results[k] = Result(p, b, k, m) /\ (~b.rescues => G.results[k].kind # "error")
  BY <1>6, <1>7
<1>10. QED
  BY ONLY <1>7, <1>8, <1>9 DEF Told

\* The next statement begins, and the handles are the same.
LEMMA DoingContinues ==
  ASSUME NEW p, NEW b, WellFormed(p, b), NEW F, NEW G, NEW rs, NEW m, Doing(p, b, F, rs, m),
         F.at <= Len(b.does), NEW r, r = Result(p, b, F.at, m), ~b.rescues => r.kind # "error",
         ~Spawns(p, b, F.at),
         b.does[F.at].op = "join" => \A h \in F.handles : h[1] # b.does[F.at].handle,
         G.at = F.at + 1, Adds(F.results, r, G.results), G.sent = <<>>, G.got = <<>>,
         G.handles = F.handles
  PROVE  Doing(p, b, G, rs, m)
<1>1. F.at \in Nat \ {0}
  BY DEF Doing, Told
<1>2. Told(p, b, G, m)
  BY ToldMore DEF Doing
<1>3. Holding(p, b, G, rs)
  <2>1. ASSUME NEW h \in F.handles
        PROVE  /\ h[1] \in 1..G.at - 1 /\ h[2] \in 1..Len(rs)
               /\ Spawns(p, b, h[1]) /\ rs[h[2]].call = b.does[h[1]].calls[1]
               /\ ~Joined(b, h[1], G.at)
    <3>1. /\ h[1] \in 1..F.at - 1 /\ h[2] \in 1..Len(rs)
          /\ Spawns(p, b, h[1]) /\ rs[h[2]].call = b.does[h[1]].calls[1]
          /\ ~Joined(b, h[1], F.at)
      BY DEF Doing, Holding
    <3>2. ~Joins(b, F.at, h[1])
      BY DEF Joins
    <3>3. ~Joined(b, h[1], G.at)
      BY <1>1, <3>1, <3>2, JoinedNext
    <3>4. QED
      BY <1>1, <3>1, <3>3
  <2>2. ASSUME NEW k \in 1..F.at, Spawns(p, b, k), ~Joined(b, k, F.at + 1)
        PROVE  \E h \in F.handles : h[1] = k
    <3>1. k # F.at
      BY <2>2
    <3>2. k \in 1..F.at - 1
      BY <1>1, <3>1
    <3>3. ~Joined(b, k, F.at) /\ ~Joins(b, F.at, k)
      BY <1>1, <2>2, <3>2, JoinedNext
    <3>4. QED
      BY <2>2, <3>2, <3>3 DEF Doing, Holding
  <2>3. \A g, h \in F.handles : g[1] = h[1] => g = h
    BY DEF Doing, Holding
  <2>4. G.at - 1 = F.at
    BY <1>1
  <2>5. QED
    BY <2>1, <2>2, <2>3, <2>4 DEF Holding
<1>4. QED
  BY <1>2, <1>3, NothingAsked DEF Doing

\* A spawn goes on with a new handle.
LEMMA DoingSpawns ==
  ASSUME NEW p, NEW b, WellFormed(p, b), NEW F, NEW G, NEW rs, NEW us, NEW m, Doing(p, b, F, rs, m),
         Grown(rs, us), F.at <= Len(b.does), Spawns(p, b, F.at), F.sent = <<>>, F.got = <<>>,
         NEW id \in 1..Len(us), us[id].call = b.does[F.at].calls[1],
         G.at = F.at + 1, Adds(F.results, Handle, G.results), G.sent = <<>>, G.got = <<>>,
         G.handles = F.handles \cup {<<F.at, id>>}
  PROVE  Doing(p, b, G, us, m)
<1>1. Doing(p, b, F, us, m) /\ F.at \in Nat \ {0}
  BY DoingAmongMore DEF Doing, Told
<1>2. Result(p, b, F.at, m) = Handle /\ Handle.kind # "error"
  <2>1. F.at \in 1..Len(b.does)
    BY <1>1, BodyFacts
  <2>2. \A j \in DOMAIN b.does[F.at].calls : p.body[b.does[F.at].calls[j]].sends
    <3>1. Len(b.does[F.at].calls) = 1 /\ DOMAIN b.does[F.at].calls = 1..Len(b.does[F.at].calls)
      BY <2>1, StatementFacts DEF Spawns
    <3>2. DOMAIN b.does[F.at].calls = {1}
      BY <3>1
    <3>3. QED
      BY <3>2 DEF Spawns
  <2>3. b.does[F.at].op = "spawn"
    BY DEF Spawns
  <2>4. QED
    BY <2>2, <2>3, SpawnResult DEF Handle, Ok
<1>3. Told(p, b, G, m)
  BY <1>1, <1>2, ToldMore DEF Doing
<1>4. \A h \in G.handles : h \in F.handles \/ h = <<F.at, id>>
  OBVIOUS
<1>5. \A h \in F.handles :
        /\ h[1] \in 1..F.at - 1 /\ h[2] \in 1..Len(us)
        /\ Spawns(p, b, h[1]) /\ us[h[2]].call = b.does[h[1]].calls[1]
        /\ ~Joined(b, h[1], F.at)
  BY <1>1 DEF Doing, Holding
<1>6. \A k : ~Joins(b, F.at, k)
  BY DEF Spawns, Joins
<1>7. Holding(p, b, G, us)
  <2>1. ASSUME NEW h \in F.handles
        PROVE  /\ h[1] \in 1..G.at - 1 /\ h[2] \in 1..Len(us)
               /\ Spawns(p, b, h[1]) /\ us[h[2]].call = b.does[h[1]].calls[1]
               /\ ~Joined(b, h[1], G.at)
    <3>1. h[1] \in 1..F.at - 1 /\ ~Joined(b, h[1], F.at) /\ ~Joins(b, F.at, h[1])
      BY <1>5, <1>6
    <3>2. ~Joined(b, h[1], G.at)
      BY <1>1, <3>1, JoinedNext
    <3>3. QED
      BY <1>1, <1>5, <3>1, <3>2
  <2>2. ~Joined(b, F.at, G.at)
    BY <1>1 DEF Joined
  <2>3. \A g, h \in G.handles : g[1] = h[1] => g = h
    <3>1. \A g, h \in F.handles : g[1] = h[1] => g = h
      BY DEF Doing, Holding
    <3>2. \A h \in F.handles : h[1] # F.at
      BY <1>1, <1>5
    <3>3. QED
      BY <1>4, <3>1, <3>2
  <2>4. ASSUME NEW k \in 1..F.at, Spawns(p, b, k), ~Joined(b, k, G.at)
        PROVE  \E h \in G.handles : h[1] = k
    <3>1. CASE k = F.at
      BY <3>1
    <3>2. CASE k # F.at
      <4>1. k \in 1..F.at - 1
        BY <1>1, <3>2
      <4>2. ~Joined(b, k, F.at) /\ ~Joins(b, F.at, k)
        BY <1>1, <2>4, <4>1, JoinedNext
      <4>3. QED
        BY <2>4, <4>1, <4>2 DEF Doing, Holding
    <3>3. QED
      BY <3>1, <3>2
  <2>5. G.at - 1 = F.at /\ F.at \in 1..G.at - 1
    BY <1>1
  <2>6. \A h \in G.handles :
          /\ h[1] \in 1..G.at - 1 /\ h[2] \in 1..Len(us)
          /\ Spawns(p, b, h[1]) /\ us[h[2]].call = b.does[h[1]].calls[1]
          /\ ~Joined(b, h[1], G.at)
    BY <1>4, <2>1, <2>2, <2>5
  <2>7. QED
    BY <2>3, <2>4, <2>5, <2>6 DEF Holding
<1>8. QED
  BY <1>3, <1>7, NothingAsked DEF Doing

\* The sequences of a frame on the way of its meaning.
LEMMA DoingFacts ==
  ASSUME NEW p, NEW b, NEW F, NEW rs, NEW m, Doing(p, b, F, rs, m)
  PROVE  /\ F.at \in Nat \ {0} /\ IsSequence(F.sent) /\ IsSequence(F.got)
         /\ Len(F.sent) \in Nat /\ Len(F.got) \in Nat /\ Len(F.got) <= Len(F.sent)
         /\ Len(F.sent) = 0 <=> F.sent = <<>>
         /\ F.sent = <<>> => F.got = <<>>
<1>1. F.at \in Nat \ {0}
  BY DEF Doing, Told
<1>2. IsSequence(F.sent)
  BY DEF Doing, Asked
<1>3. IsSequence(F.got) /\ Len(F.got) <= Len(F.sent)
  BY DEF Doing, Heard
<1>4. Len(F.sent) \in Nat /\ Len(F.got) \in Nat
  BY <1>2, <1>3, LenProperties DEF IsSequence
<1>5. Len(F.sent) = 0 <=> F.sent = <<>>
  BY <1>2, EmptySeq DEF IsSequence
<1>6. Len(F.got) = 0 <=> F.got = <<>>
  BY <1>3, EmptySeq DEF IsSequence
<1>7. QED
  BY <1>1, <1>2, <1>3, <1>4, <1>5, <1>6

\* The next call of the statement is submitted as us[id].
SendsNext(p, b, F, us, id) ==
  /\ F.at <= Len(b.does) /\ b.does[F.at].op \notin {"spawn", "join"}
  /\ id \in 1..Len(us)
  /\ Len(F.sent) + 1 \in 1..Len(b.does[F.at].calls)
  /\ us[id].call = b.does[F.at].calls[Len(F.sent) + 1]
  /\ p.body[b.does[F.at].calls[Len(F.sent) + 1]].sends

\* A call, or an element of a map, has been submitted.
LEMMA DoingSends ==
  ASSUME NEW p, NEW b, WellFormed(p, b), NEW F, NEW G, NEW rs, NEW us, NEW m, Doing(p, b, F, rs, m),
         Grown(rs, us), NEW id, SendsNext(p, b, F, us, id),
         G.at = F.at, G.results = F.results, Adds(F.sent, id, G.sent), G.got = F.got,
         G.handles = F.handles
  PROVE  Doing(p, b, G, us, m)
<1> DEFINE n == Len(F.sent) + 1
<1>1. Doing(p, b, F, us, m)
  BY DoingAmongMore
<1>2. Told(p, b, G, m)
  BY DEF Doing, Told
<1>3. \A k : ~Joins(b, F.at, k)
  BY DEF Joins, SendsNext
<1>4. Holding(p, b, G, us)
  BY <1>1, <1>3 DEF Doing, Holding
<1>5. /\ IsSequence(G.sent) /\ Len(F.sent) \in Nat /\ Len(G.sent) = n
      /\ G.sent[n] = id /\ \A i \in 1..Len(F.sent) : G.sent[i] = F.sent[i]
  BY DEF Adds
<1>6. \A i \in 1..Len(G.sent) : i = n \/ i \in 1..Len(F.sent)
  BY <1>5
<1>7. ASSUME NEW i \in 1..Len(F.sent)
      PROVE  /\ F.sent[i] \in 1..Len(us) /\ i \in 1..Len(b.does[F.at].calls)
             /\ us[F.sent[i]].call = b.does[F.at].calls[i] /\ p.body[b.does[F.at].calls[i]].sends
  <2>1. F.sent # <<>>
    BY DoingFacts
  <2>2. QED
    BY <1>1, <2>1 DEF Doing, Asked, SendsNext
<1>8. ASSUME NEW i \in 1..Len(G.sent)
      PROVE  /\ G.sent[i] \in 1..Len(us) /\ i \in 1..Len(b.does[F.at].calls)
             /\ us[G.sent[i]].call = b.does[F.at].calls[i] /\ p.body[b.does[F.at].calls[i]].sends
  BY <1>5, <1>6, <1>7 DEF SendsNext
<1>9. Asked(p, b, G, us)
  BY <1>5, <1>8 DEF Asked, SendsNext
<1>10. Heard(G, us, m)
  <2>1. IsSequence(F.got) /\ Len(F.got) <= Len(F.sent) /\ Len(F.got) \in Nat
    BY DoingFacts
  <2>2. Len(F.got) <= Len(G.sent) /\ \A i \in 1..Len(F.got) : G.sent[i] = F.sent[i]
    BY <1>5, <2>1
  <2>3. \A i \in 1..Len(F.got) : F.got[i] = m[us[F.sent[i]].call] /\ F.got[i].kind # "error"
    BY <1>1 DEF Doing, Heard
  <2>4. QED
    BY <2>1, <2>2, <2>3 DEF Heard
<1>11. QED
  BY <1>2, <1>4, <1>9, <1>10 DEF Doing

\* A join has taken its handle.
LEMMA DoingJoins ==
  ASSUME NEW p, NEW b, WellFormed(p, b), NEW F, NEW G, NEW rs, NEW m, Doing(p, b, F, rs, m),
         F.at <= Len(b.does), b.does[F.at].op = "join", F.sent = <<>>, F.got = <<>>,
         NEW h \in F.handles, h[1] = b.does[F.at].handle,
         G.at = F.at, G.results = F.results, G.sent = <<h[2]>>, G.got = <<>>,
         G.handles = F.handles \ {h}
  PROVE  Doing(p, b, G, rs, m)
<1>1. Told(p, b, G, m)
  BY DEF Doing, Told
<1>2. IsSequence(G.sent) /\ Len(G.sent) = 1 /\ G.sent[1] = h[2] /\ G.sent # <<>>
  BY DEF IsSequence, ToSet
<1>3. /\ h[2] \in 1..Len(rs) /\ Spawns(p, b, h[1]) /\ rs[h[2]].call = b.does[h[1]].calls[1]
      /\ ~Joined(b, h[1], F.at)
  BY DEF Doing, Holding
<1>4. Asked(p, b, G, rs)
  <2>1. \A i \in 1..Len(G.sent) : G.sent[i] \in 1..Len(rs)
    BY <1>2, <1>3
  <2>2. /\ Spawns(p, b, b.does[F.at].handle) /\ ~Joined(b, b.does[F.at].handle, F.at)
        /\ rs[G.sent[1]].call = b.does[b.does[F.at].handle].calls[1]
    BY <1>2, <1>3
  <2>3. QED
    BY <1>2, <2>1, <2>2 DEF Asked
<1>5. Len(<<>>) = 0 /\ IsSequence(<<>>)
  BY EmptySeq DEF IsSequence
<1>6. Heard(G, rs, m)
  BY <1>2, <1>5 DEF Heard
<1>7. \A g \in F.handles \ {h} : g[1] # h[1]
  BY DEF Doing, Holding
<1>8. \A k : Joins(b, F.at, k) <=> k = h[1]
  BY DEF Joins
<1>9. Holding(p, b, G, rs)
  <2>1. \A g \in G.handles : ~Joins(b, G.at, g[1])
    BY <1>7, <1>8
  <2>2. \A k \in 1..F.at - 1 :
          ~Spawns(p, b, k) \/ Joined(b, k, F.at) \/ Joins(b, F.at, k) \/ \E g \in G.handles : g[1] = k
    BY <1>8 DEF Doing, Holding
  <2>3. QED
    BY <1>2, <2>1, <2>2 DEF Doing, Holding
<1>10. QED
  BY <1>1, <1>4, <1>6, <1>9 DEF Doing

\* One more answer has been collected.
LEMMA DoingHears ==
  ASSUME NEW p, NEW b, NEW F, NEW G, NEW rs, NEW m, Doing(p, b, F, rs, m),
         Len(F.got) < Len(F.sent),
         NEW a, a = m[rs[F.sent[Len(F.got) + 1]].call], a.kind # "error",
         G.at = F.at, G.results = F.results, G.sent = F.sent, Adds(F.got, a, G.got),
         G.handles = F.handles
  PROVE  Doing(p, b, G, rs, m)
<1>1. Told(p, b, G, m)
  BY DEF Doing, Told
<1>2. Holding(p, b, G, rs)
  BY DEF Doing, Holding
<1>3. Asked(p, b, G, rs)
  BY DEF Doing, Asked
<1>4. IsSequence(F.got) /\ Len(F.sent) \in Nat
  BY DoingFacts
<1>5. /\ IsSequence(G.got) /\ Len(G.got) = Len(F.got) + 1 /\ Len(F.got) \in Nat
      /\ G.got[Len(F.got) + 1] = a /\ \A i \in 1..Len(F.got) : G.got[i] = F.got[i]
  BY DEF Adds
<1>6. \A i \in 1..Len(F.got) : F.got[i] = m[rs[F.sent[i]].call] /\ F.got[i].kind # "error"
  BY DEF Doing, Heard
<1>7. \A i \in 1..Len(G.got) : G.got[i] = m[rs[G.sent[i]].call] /\ G.got[i].kind # "error"
  <2>1. \A i \in 1..Len(G.got) : i = Len(F.got) + 1 \/ i \in 1..Len(F.got)
    BY ONLY <1>5
  <2>2. ASSUME NEW i \in 1..Len(G.got)
        PROVE  G.got[i] = m[rs[G.sent[i]].call] /\ G.got[i].kind # "error"
    <3>1. CASE i = Len(F.got) + 1
      BY <1>5, <3>1
    <3>2. CASE i \in 1..Len(F.got)
      BY <1>5, <1>6, <3>2
    <3>3. QED
      BY <2>1, <3>1, <3>2
  <2>3. QED
    BY ONLY <2>2
<1>8. Heard(G, rs, m)
  <2>1. Len(G.got) <= Len(G.sent)
    <3>1. Len(F.got) < Len(F.sent) /\ G.sent = F.sent
      OBVIOUS
    <3>2. QED
      BY ONLY <1>4, <1>5, <3>1
  <2>2. QED
    BY ONLY <1>5, <1>7, <2>1 DEF Heard
<1>9. QED
  BY <1>1, <1>2, <1>3, <1>8 DEF Doing

-----------------------------------------------------------------------------
(* What its statement and a body that ends have given.                     *)

\* The first error of a list is the one before which there is none.
LEMMA FirstErrorIs ==
  ASSUME NEW n \in Nat, NEW as, DOMAIN as = 1..n, NEW j \in 1..n, as[j].kind = "error",
         \A i \in 1..j - 1 : as[i].kind # "error"
  PROVE  FirstError(as) = as[j]
<1> DEFINE bad == {k \in DOMAIN as : as[k].kind = "error"}
           c == CHOOSE k \in bad : \A i \in bad : k <= i
<1>1. j \in bad /\ \A i \in bad : j <= i
  <2>1. ASSUME NEW i \in bad PROVE j <= i
    <3>1. i \in 1..n /\ as[i].kind = "error"
      OBVIOUS
    <3>2. i \notin 1..j - 1
      BY <3>1
    <3> HIDE DEF bad
    <3>3. QED
      BY ONLY <3>1, <3>2, n \in Nat, j \in 1..n
  <2>2. QED
    BY <2>1
<1>2. c \in bad /\ \A i \in bad : c <= i
  <2>1. \E k \in bad : \A i \in bad : k <= i
    BY <1>1
  <2> HIDE DEF bad
  <2>2. QED
    BY <2>1
<1>3. c = j
  <2>1. c \in 1..n /\ c <= j /\ j <= c
    BY <1>1, <1>2
  <2> HIDE DEF c
  <2>2. QED
    BY <2>1
<1>4. FirstError(as) = as[c]
  BY DEF FirstError
<1>5. QED
  BY <1>3, <1>4

\* An argument that may not be sent.
LEMMA RefusedResult ==
  ASSUME NEW p, NEW b, WellFormed(p, b), NEW k \in 1..Len(b.does), NEW m, b.does[k].op # "join",
         NEW j \in 1..Len(b.does[k].calls), ~p.body[b.does[k].calls[j]].sends
  PROVE  Result(p, b, k, m) = Err("argument not Send")
<1> DEFINE s == b.does[k]
           as == Given(p, s.calls, m)
           refused == {i \in DOMAIN s.calls : ~p.body[s.calls[i]].sends}
<1>1. /\ DOMAIN s.calls = 1..Len(s.calls) /\ s.op \in {"call", "spawn", "map"}
      /\ s.op \in {"call", "spawn"} => Len(s.calls) = 1
  BY StatementFacts
<1>2. refused # {}
  BY <1>1
<1>3. s.op \in {"call", "spawn"} => j = 1 /\ as[1] = Err("argument not Send")
  <2>1. s.op \in {"call", "spawn"} => j = 1
    BY <1>1
  <2>2. as[j] = Err("argument not Send")
    BY <1>1 DEF Given
  <2>3. QED
    BY <2>1, <2>2
<1> HIDE DEF as, refused
<1>4. QED
  BY <1>1, <1>2, <1>3 DEF Result, as, refused

\* A handle that was never made, or has been joined.
LEMMA NoHandleResult ==
  ASSUME NEW p, NEW b, WellFormed(p, b), NEW F, NEW rs, NEW m, Doing(p, b, F, rs, m), F.sent = <<>>,
         F.at \in 1..Len(b.does), b.does[F.at].op = "join",
         \A h \in F.handles : h[1] # b.does[F.at].handle
  PROVE  Result(p, b, F.at, m) = Err("already joined")
<1> DEFINE k == b.does[F.at].handle
<1>1. k \in 1..F.at - 1 /\ b.does[k].op = "spawn"
  BY JoinFacts
<1>2. ~Spawns(p, b, k) \/ Joined(b, k, F.at)
  BY <1>1 DEF Doing, Holding
<1>3. ~p.body[b.does[k].calls[1]].sends \/ Joined(b, k, F.at)
  BY <1>1, <1>2 DEF Spawns
<1>4. QED
  BY <1>3 DEF Result

\* All the calls of the statement have been sent.
Sent(p, b, F, rs) ==
  \A j \in 1..Len(b.does[F.at].calls) :
    p.body[b.does[F.at].calls[j]].sends /\ rs[F.sent[j]].call = b.does[F.at].calls[j]

\* The calls of a statement that has been submitted are those of its list.
LEMMA AllSent ==
  ASSUME NEW p, NEW b, WellFormed(p, b), NEW F, NEW rs, NEW m, Doing(p, b, F, rs, m),
         F.at \in 1..Len(b.does), b.does[F.at].op # "join",
         NEW n, n = Len(b.does[F.at].calls), Len(F.sent) = n
  PROVE  Sent(p, b, F, rs)
<1> SUFFICES ASSUME NEW j \in 1..Len(b.does[F.at].calls)
             PROVE  p.body[b.does[F.at].calls[j]].sends /\ rs[F.sent[j]].call = b.does[F.at].calls[j]
  BY DEF Sent
<1>1. Len(b.does[F.at].calls) \in Nat
  BY StatementFacts
<1>2. j \in 1..Len(F.sent)
  OBVIOUS
<1>3. F.sent # <<>>
  BY <1>1, <1>2, DoingFacts
<1>4. QED
  BY <1>2, <1>3 DEF Doing, Asked

\* The list of a map has no element.
LEMMA EmptyMapResult ==
  ASSUME NEW p, NEW b, WellFormed(p, b), NEW k \in 1..Len(b.does), NEW m, b.does[k].op # "join",
         Len(b.does[k].calls) = 0
  PROVE  Result(p, b, k, m) = List(<<>>) /\ b.does[k].op = "map"
<1> DEFINE s == b.does[k]
           as == Given(p, s.calls, m)
<1>1. DOMAIN s.calls = {} /\ s.op = "map"
  <2>1. /\ DOMAIN s.calls = 1..Len(s.calls) /\ s.op \in {"call", "spawn", "join", "map"}
        /\ s.op \in {"call", "spawn"} => Len(s.calls) = 1
    BY StatementFacts, ZenonT(60)
  <2>2. QED
    BY <2>1
<1>2. as = <<>>
  <2>1. as = [j \in {} |-> as[j]]
    BY <1>1 DEF Given
  <2> HIDE DEF as
  <2>2. DOMAIN as = {}
    BY <2>1
  <2>3. <<>> = [j \in {} |-> as[j]]
    OBVIOUS
  <2>4. QED
    BY <2>1, <2>3
<1>3. {j \in DOMAIN s.calls : ~p.body[s.calls[j]].sends} = {} /\ DOMAIN as = {}
  BY <1>1 DEF Given
<1> HIDE DEF as
<1>4. QED
  BY <1>1, <1>2, <1>3 DEF Result, as

\* The first answer that is an error.
LEMMA ErrorResult ==
  ASSUME NEW p, NEW b, WellFormed(p, b), NEW F, NEW rs, NEW m, Doing(p, b, F, rs, m),
         F.at \in 1..Len(b.does), Len(F.got) < Len(F.sent), Len(F.sent) = Opens(b.does[F.at]),
         NEW a, a = m[rs[F.sent[Len(F.got) + 1]].call], a.kind = "error"
  PROVE  Result(p, b, F.at, m) = a
<1> DEFINE s == b.does[F.at]
           n == Len(F.got) + 1
<1>1. /\ Len(F.sent) \in Nat /\ Len(F.got) \in Nat /\ F.sent # <<>>
  <2>1. Len(F.sent) \in Nat /\ Len(F.got) \in Nat
    BY DoingFacts
  <2>2. Len(F.sent) # 0
    BY <2>1
  <2>3. QED
    BY <2>1, <2>2, DoingFacts
<1>2. CASE s.op = "join"
  <2>1. /\ Len(F.sent) = 1 /\ Spawns(p, b, s.handle) /\ ~Joined(b, s.handle, F.at)
        /\ rs[F.sent[1]].call = b.does[s.handle].calls[1]
    BY <1>1, <1>2 DEF Doing, Asked
  <2>2. n = 1
    BY <1>1, <2>1
  <2>3. a = m[b.does[s.handle].calls[1]]
    BY <2>1, <2>2
  <2>4. QED
    BY <1>2, <2>1, <2>3 DEF Result, Spawns
<1>3. CASE s.op # "join"
  <2> DEFINE as == Given(p, s.calls, m)
  <2>1. s.op \in {"call", "map"} /\ DOMAIN s.calls = 1..Len(s.calls) /\ Len(s.calls) \in Nat
    <3>1. s.op # "spawn"
      BY <1>1 DEF Doing, Asked
    <3>2. s.op \in {"call", "spawn", "join", "map"}
      BY StatementFacts
    <3>3. DOMAIN s.calls = 1..Len(s.calls) /\ Len(s.calls) \in Nat
      BY StatementFacts
    <3>4. QED
      BY <1>3, <3>1, <3>2, <3>3
  <2>2. Len(F.sent) = Len(s.calls)
    BY <1>3 DEF Opens
  <2>3. \A j \in 1..Len(s.calls) : p.body[s.calls[j]].sends /\ rs[F.sent[j]].call = s.calls[j]
    <3>1. b.does[F.at].op # "join" /\ Len(F.sent) = Len(b.does[F.at].calls)
      BY <1>3, <2>2
    <3>2. WellFormed(p, b) /\ Doing(p, b, F, rs, m) /\ F.at \in 1..Len(b.does)
      OBVIOUS
    <3> HIDE DEF s
    <3>3. PICK k : k = Len(b.does[F.at].calls)
      OBVIOUS
    <3>4. Sent(p, b, F, rs)
      BY ONLY <3>1, <3>2, <3>3, AllSent
    <3>5. QED
      BY ONLY <3>4 DEF Sent, s
  <2>4. DOMAIN as = 1..Len(s.calls) /\ \A j \in 1..Len(s.calls) : as[j] = m[s.calls[j]]
    BY <2>1, <2>3 DEF Given
  <2>5. n \in 1..Len(s.calls) /\ as[n] = a
    <3>1. n \in 1..Len(s.calls)
      BY <1>1, <2>2
    <3> HIDE DEF as
    <3>2. as[n] = m[s.calls[n]] /\ rs[F.sent[n]].call = s.calls[n]
      BY <2>3, <2>4, <3>1
    <3>3. QED
      BY <3>1, <3>2
  <2>6. \A i \in 1..n - 1 : as[i].kind # "error"
    <3>1. \A i \in 1..Len(F.got) : F.got[i] = m[rs[F.sent[i]].call] /\ F.got[i].kind # "error"
      BY DEF Doing, Heard
    <3>2. \A i \in 1..n - 1 : i \in 1..Len(F.got) /\ i \in 1..Len(s.calls)
      BY <1>1, <2>2
    <3> HIDE DEF as
    <3>3. \A i \in 1..n - 1 : as[i] = m[s.calls[i]] /\ rs[F.sent[i]].call = s.calls[i]
      BY <2>3, <2>4, <3>2
    <3>4. \A i \in 1..n - 1 : m[rs[F.sent[i]].call].kind # "error"
      BY <3>1, <3>2
    <3>5. ASSUME NEW i \in 1..n - 1 PROVE as[i].kind # "error"
      <4>1. as[i] = m[rs[F.sent[i]].call]
        BY <3>3
      <4>2. QED
        BY ONLY <3>4, <4>1, i \in 1..n - 1
    <3>6. QED
      BY ONLY <3>5
  <2>7. FirstError(as) = a
    <3> HIDE DEF as, n
    <3>1. QED
      BY <2>1, <2>4, <2>5, <2>6, FirstErrorIs
  <2>8. {j \in DOMAIN s.calls : ~p.body[s.calls[j]].sends} = {}
    BY <2>1, <2>3
  <2>9. \E j \in DOMAIN as : as[j].kind = "error"
    BY <2>4, <2>5
  <2>10. ASSUME s.op = "call" PROVE n = 1
    <3>1. Len(s.calls) = 1
      BY <2>10, StatementFacts
    <3>2. n \in 1..1
      BY <2>5, <3>1
    <3>3. QED
      BY ONLY <3>2
  <2> HIDE DEF as, n
  <2>11. QED
    BY <2>1, <2>5, <2>7, <2>8, <2>9, <2>10 DEF Result, as
<1>4. QED
  BY <1>2, <1>3

\* The call whose answer comes next, and that it is the last.
Due(F, rs, m) == m[rs[F.sent[Len(F.got) + 1]].call]
OneDue(F) == Len(F.got) < Len(F.sent) /\ ~(Len(F.got) + 1 < Len(F.sent))

\* The last answer, when none is an error.
LEMMA LastResult ==
  ASSUME NEW p, NEW b, WellFormed(p, b), NEW F, NEW rs, NEW m, Doing(p, b, F, rs, m),
         F.at \in 1..Len(b.does), F.sent # <<>>, Len(F.sent) = Opens(b.does[F.at]), OneDue(F),
         NEW a, a = Due(F, rs, m), a.kind # "error", NEW got, Adds(F.got, a, got)
  PROVE  /\ b.does[F.at].op # "spawn"
         /\ Result(p, b, F.at, m) = IF b.does[F.at].op = "map" THEN List(got) ELSE a
<1> DEFINE s == b.does[F.at]
<1>1. Len(F.sent) \in Nat /\ Len(F.got) \in Nat /\ s.op # "spawn"
  <2>1. s.op # "spawn"
    BY DEF Doing, Asked
  <2>2. QED
    BY <2>1, DoingFacts
<1>5. /\ Len(F.got) < Len(F.sent) /\ ~(Len(F.got) + 1 < Len(F.sent))
      /\ a = m[rs[F.sent[Len(F.got) + 1]].call]
  BY DEF OneDue, Due
<1>2. CASE s.op = "join"
  <2>1. /\ Len(F.sent) = 1 /\ Spawns(p, b, s.handle) /\ ~Joined(b, s.handle, F.at)
        /\ rs[F.sent[1]].call = b.does[s.handle].calls[1]
    BY <1>2 DEF Doing, Asked
  <2>2. Len(F.got) + 1 = 1
    BY ONLY <1>1, <1>5, <2>1
  <2>3. a = m[rs[F.sent[1]].call]
    BY ONLY <1>5, <2>2
  <2>4. a = m[b.does[s.handle].calls[1]]
    BY ONLY <2>1, <2>3
  <2>5. QED
    BY <1>2, <2>1, <2>4 DEF Result, Spawns
<1>3. CASE s.op # "join"
  <2> DEFINE as == Given(p, s.calls, m)
  <2>1. s.op \in {"call", "map"} /\ DOMAIN s.calls = 1..Len(s.calls) /\ Len(s.calls) \in Nat
    <3>1. s.op \in {"call", "spawn", "join", "map"}
      BY StatementFacts
    <3>2. DOMAIN s.calls = 1..Len(s.calls) /\ Len(s.calls) \in Nat
      BY StatementFacts, ZenonT(60)
    <3>3. QED
      BY <1>1, <1>3, <3>1, <3>2
  <2>2. Len(F.sent) = Len(s.calls)
    BY <1>3 DEF Opens
  <2>3. \A j \in 1..Len(s.calls) : p.body[s.calls[j]].sends /\ rs[F.sent[j]].call = s.calls[j]
    <3>1. b.does[F.at].op # "join" /\ Len(F.sent) = Len(b.does[F.at].calls)
      BY <1>3, <2>2
    <3>2. WellFormed(p, b) /\ Doing(p, b, F, rs, m) /\ F.at \in 1..Len(b.does)
      OBVIOUS
    <3> HIDE DEF s
    <3>3. PICK k : k = Len(b.does[F.at].calls)
      OBVIOUS
    <3>4. Sent(p, b, F, rs)
      BY ONLY <3>1, <3>2, <3>3, AllSent
    <3>5. QED
      BY ONLY <3>4 DEF Sent, s
  <2>4. as = [j \in 1..Len(s.calls) |-> m[s.calls[j]]]
    BY <2>1, <2>3 DEF Given
  <2>5. /\ IsSequence(got) /\ Len(got) = Len(s.calls)
        /\ \A j \in 1..Len(s.calls) : got[j] = m[s.calls[j]] /\ got[j].kind # "error"
    <3>1. IsSequence(got) /\ Len(got) = Len(F.got) + 1 /\ got[Len(F.got) + 1] = a
      BY DEF Adds
    <3>2. \A i \in 1..Len(F.got) : got[i] = m[rs[F.sent[i]].call] /\ got[i].kind # "error"
      BY DEF Doing, Heard, Adds
    <3>4. Len(F.got) + 1 = Len(s.calls)
      BY ONLY <1>1, <1>5, <2>2
    <3>3. \A j \in 1..Len(s.calls) : j = Len(F.got) + 1 \/ j \in 1..Len(F.got)
      BY ONLY <1>1, <3>4
    <3>5. ASSUME NEW j \in 1..Len(s.calls)
          PROVE  got[j] = m[rs[F.sent[j]].call] /\ got[j].kind # "error"
      <4>1. CASE j = Len(F.got) + 1
        BY <1>5, <3>1, <4>1
      <4>2. CASE j \in 1..Len(F.got)
        BY <3>2, <4>2
      <4>3. QED
        BY <3>3, <4>1, <4>2
    <3>6. QED
      BY <2>3, <3>1, <3>4, <3>5
  <2>6. DOMAIN got = 1..Len(got) /\ got = [j \in 1..Len(got) |-> got[j]]
    BY <2>5, LenProperties DEF IsSequence
  <2>7. got = as
    BY <2>4, <2>5, <2>6
  <2>8. {j \in DOMAIN s.calls : ~p.body[s.calls[j]].sends} = {}
    BY <2>1, <2>3
  <2>9. ~\E j \in DOMAIN as : as[j].kind = "error"
    BY <2>5, <2>6, <2>7
  <2>10. s.op = "call" => as[1] = a
    <3>1. s.op = "call" => Len(s.calls) = 1
      BY StatementFacts
    <3>2. got[Len(F.got) + 1] = a
      BY DEF Adds
    <3>3. s.op = "call" => Len(F.got) + 1 = 1
      <4>1. s.op = "call" => Len(F.sent) = 1
        BY ONLY <2>2, <3>1
      <4>2. QED
        BY ONLY <1>1, <1>5, <4>1
    <3> HIDE DEF s, as
    <3>4. ASSUME s.op = "call" PROVE as[1] = a
      <4>1. PICK i : i = Len(F.got) + 1
        OBVIOUS
      <4>2. i = 1 /\ got[i] = a
        BY ONLY <3>2, <3>3, <3>4, <4>1
      <4>3. QED
        BY ONLY <2>7, <4>2
    <3>5. QED
      BY ONLY <3>4
  <2> HIDE DEF as
  <2>11. QED
    BY <2>1, <2>7, <2>8, <2>9, <2>10 DEF Result, as
<1>4. QED
  BY <1>1, <1>2, <1>3


\* A body some of whose names are not there.
LEMMA GivesUndefined ==
  ASSUME NEW p, NEW b, NEW L, NEW m, ~(b.needs \subseteq L)
  PROVE  Gives(p, b, L, m) = Err("undefined")
BY DEF Gives

\* An error that is not rescued ends the body with it.
LEMMA GivesError ==
  ASSUME NEW p, NEW b, WellFormed(p, b), NEW F, NEW rs, NEW L, NEW m, Doing(p, b, F, rs, m),
         b.needs \subseteq L, ~b.rescues, F.at \in 1..Len(b.does),
         NEW a, a = Result(p, b, F.at, m), a.kind = "error"
  PROVE  Gives(p, b, L, m) = a
<1> DEFINE results == [k \in DOMAIN b.does |-> Result(p, b, k, m)]
<1>1. DOMAIN b.does = 1..Len(b.does) /\ Len(b.does) \in Nat
  BY BodyFacts
<1>2. DOMAIN results = 1..Len(b.does) /\ results[F.at] = a
  BY <1>1
<1>3. \A i \in 1..F.at - 1 : results[i].kind # "error"
  <2>1. \A i \in 1..F.at - 1 : F.results[i] = Result(p, b, i, m) /\ F.results[i].kind # "error"
    BY DEF Doing, Told
  <2>2. \A i \in 1..F.at - 1 : i \in DOMAIN b.does
    BY <1>1
  <2>3. QED
    BY <2>1, <2>2
<1> HIDE DEF results
<1>4. FirstError(results) = a
  BY <1>1, <1>2, <1>3, FirstErrorIs
<1>5. \E k \in DOMAIN results : results[k].kind = "error"
  BY <1>2
<1>6. QED
  BY <1>4, <1>5 DEF Gives, results

\* How a body ends whose statements have given results.
Ending(b, results) ==
  CASE b.ends = "value" -> Ok(<<b.name, results>>)
    [] b.ends = "error" -> Err("raised")
    [] OTHER -> Err("result not Send")

\* A body at its end gives what it ends with.
LEMMA GivesEnd ==
  ASSUME NEW p, NEW b, WellFormed(p, b), NEW F, NEW rs, NEW L, NEW m, Doing(p, b, F, rs, m),
         b.needs \subseteq L, F.at > Len(b.does)
  PROVE  Gives(p, b, L, m) = IF b.ends = "panic" THEN Lost ELSE Ending(b, F.results)
<1> DEFINE results == [k \in DOMAIN b.does |-> Result(p, b, k, m)]
<1>1. DOMAIN b.does = 1..Len(b.does) /\ Len(b.does) \in Nat
  BY BodyFacts
<1>2. /\ F.at - 1 = Len(b.does) /\ IsSequence(F.results) /\ Len(F.results) = Len(b.does)
      /\ \A k \in 1..Len(b.does) : /\ F.results[k] = Result(p, b, k, m)
                                   /\ ~b.rescues => F.results[k].kind # "error"
  <2>1. F.at - 1 = Len(b.does)
    BY <1>1 DEF Doing, Told
  <2>2. QED
    BY <2>1 DEF Doing, Told
<1>3. F.results = results
  <2>1. F.results = [k \in 1..Len(b.does) |-> F.results[k]]
    BY <1>2, LenProperties DEF IsSequence
  <2>2. QED
    BY <1>1, <1>2, <2>1
<1>4. ~((\E k \in DOMAIN results : results[k].kind = "error") /\ ~b.rescues)
  <2>1. ASSUME NEW k \in DOMAIN results, ~b.rescues PROVE results[k].kind # "error"
    BY <1>1, <1>2, <1>3, <2>1
  <2>2. QED
    BY <2>1
<1> HIDE DEF results
<1>5. QED
  BY <1>3, <1>4 DEF Gives, Ending, results


-----------------------------------------------------------------------------
(* The steps of the pool.                                                  *)

\* The pool is on the way of the program's meaning m.
OnWay(m) ==
  /\ PoolInv /\ FrameInv /\ AllLoad /\ Meant(m)
  /\ \A c \in DOMAIN prog.body : m[c] = Gives(prog, prog.body[c], OnWorkers(prog), m)

\* The thread t takes a step of its body while a worker is left.
Stepping(t, m) == /\ OnWay(m) /\ t \in Threads /\ phase[t] = "busy" /\ Live # {}
                  /\ Doing(prog, Body(t), frame[t], replies, m)

\* No worker comes back.
LEMMA NobodyReturns ==
  ASSUME \A w \in Workers : phase[w] = "dead" => phase'[w] = "dead"
  PROVE  Live' \subseteq Live
BY DEF Live

\* The body of a thread that has one is well formed.
LEMMA BodyIsFormed ==
  ASSUME PoolInv, FrameInv, NEW t \in Threads, t = Main \/ phase[t] = "busy"
  PROVE  /\ WellFormed(prog, Body(t))
         /\ t # Main => /\ frame[t].reply \in 1..Len(replies)
                        /\ replies[frame[t].reply].call \in DOMAIN prog.body
                        /\ Body(t) = prog.body[replies[frame[t].reply].call]
<1>1. prog \in Programs
  BY DEF PoolInv, Types
<1>2. t # Main => frame[t].reply \in 1..Len(replies)
  BY ItsBody
<1>3. t # Main => replies[frame[t].reply].call \in DOMAIN prog.body
  BY <1>2 DEF FrameInv
<1>4. QED
  BY <1>1, <1>2, <1>3, ProgramBodies DEF Body

\* A thread whose frame is left alone stays on the way.
LEMMA OthersTold ==
  ASSUME NEW m, OnWay(m), NEW u \in Threads, prog' = prog, frame'[u] = frame[u],
         u # Main => (phase'[u] = "busy" => phase[u] = "busy"),
         Live' \subseteq Live, Grown(replies, replies')
  PROVE  BodyTold(u, m)'
<1> SUFFICES ASSUME IF u = Main THEN Live' # {} ELSE phase'[u] = "busy"
             PROVE  Doing(prog', Body(u)', frame'[u], replies', m)
  BY DEF BodyTold
<1>1. IF u = Main THEN Live # {} ELSE phase[u] = "busy"
  OBVIOUS
<1>2. Doing(prog, Body(u), frame[u], replies, m)
  BY <1>1 DEF OnWay, Meant, BodyTold
<1>3. Body(u)' = Body(u)
  <2>1. CASE u = Main
    BY <2>1 DEF Body
  <2>2. CASE u # Main
    <3>1. frame[u].reply \in 1..Len(replies)
      BY <1>1, <2>2, BodyIsFormed DEF OnWay
    <3>2. replies'[frame[u].reply].call = replies[frame[u].reply].call
      BY <3>1 DEF Grown
    <3>3. QED
      BY <3>2 DEF Body
  <2>3. QED
    BY <2>1, <2>2
<1>4. Doing(prog, Body(u), frame[u], replies', m)
  BY <1>2, DoingAmongMore
<1>5. QED
  BY <1>3, <1>4

\* The replies that are left alone.
LEMMA SameReplies ==
  ASSUME NEW m, OnWay(m), replies' = replies, Live' \subseteq Live
  PROVE  RepliesTold(m)' /\ Grown(replies, replies')
<1>1. Len(replies) \in Nat
  BY SomebodyDef DEF OnWay, PoolInv
<1>2. Grown(replies, replies')
  BY <1>1 DEF Grown
<1>3. RepliesTold(m)'
  BY DEF OnWay, Meant, RepliesTold
<1>4. QED
  BY <1>2, <1>3

\* Loading, when no definition fails, gives every worker all of them.
LEMMA LoadMeans ==
  ASSUME NEW m, OnWay(m), NEW t \in Threads, Load(t) \/ LoadPanics(t)
  PROVE  Meant(m)'
<1>1. prog.source \in Seq(Definitions)
  BY ProgramsAssumption DEF OnWay, PoolInv, Types
<1>2. Len(prog.source) \in Nat /\ ToSet(prog.source) = {prog.source[j] : j \in 1..Len(prog.source)}
  BY <1>1, ToSetDef, LenProperties
<1>3. \A j \in 1..Len(prog.source) : prog.source[j].runs = "ok"
  BY <1>2 DEF OnWay, AllLoad
<1>4. Load(t)
  BY <1>3 DEF LoadPanics
<1>5. /\ UNCHANGED <<prog, frame, replies>> /\ phase[t] = "loading"
      /\ loaded' = [loaded EXCEPT ![t] = LoadedBefore(t, Len(prog.source) + 1)]
      /\ phase' = [phase EXCEPT ![t] = IF t = Main THEN "busy" ELSE "ready"]
  <2>1. PICK k \in 1..Len(prog.source) + 1 :
          /\ k <= Len(prog.source) => prog.source[k].runs = "maybe"
          /\ loaded' = [loaded EXCEPT ![t] = LoadedBefore(t, k)]
          /\ phase' = [phase EXCEPT ![t] = IF t # Main THEN "ready"
                                           ELSE IF k <= Len(prog.source) THEN "failed" ELSE "busy"]
    BY <1>4 DEF Load
  <2>2. ~(k <= Len(prog.source))
    BY <1>2, <1>3, <2>1
  <2>3. k = Len(prog.source) + 1
    BY <1>2, <2>2
  <2>4. QED
    BY <1>4, <2>1, <2>2, <2>3 DEF Load
<1>6. DOMAIN phase = Threads
  BY DEF OnWay, PoolInv, Types
<1>7. \A u \in Threads : phase'[u] = IF u = t THEN (IF t = Main THEN "busy" ELSE "ready") ELSE phase[u]
  BY <1>5, <1>6
<1>8. Live' \subseteq Live
  BY <1>5, <1>7, NobodyReturns DEF Threads
<1>9. RepliesTold(m)' /\ \A u \in Threads : BodyTold(u, m)'
  BY <1>5, <1>7, <1>8, SameReplies, OthersTold
<1>10. t # Main => LoadedBefore(t, Len(prog.source) + 1) = OnWorkers(prog)
  BY <1>2 DEF LoadedBefore, OnWorkers, Defines
<1>11. LoadedAll'
  <2>0. DOMAIN loaded = Threads
    BY DEF OnWay, Meant, LoadedAll
  <2>1. SUFFICES ASSUME NEW w \in Workers, phase'[w] # "loading" PROVE loaded'[w] = OnWorkers(prog)
    BY <1>5, <2>0 DEF LoadedAll
  <2>2. w \in Threads /\ w # Main
    BY PoolAssumption DEF Threads
  <2>3. CASE w = t
    BY <1>5, <1>10, <2>0, <2>2, <2>3
  <2>4. CASE w # t
    BY <1>5, <1>7, <2>1, <2>2, <2>4 DEF OnWay, Meant, LoadedAll
  <2>5. QED
    BY <2>3, <2>4
<1>12. QED
  BY <1>9, <1>11 DEF Meant


\* The steps around the jobs touch no body but the one that begins.
LEMMA BarrierMeans ==
  ASSUME NEW m, OnWay(m), Barrier
  PROVE  Meant(m)'
<1>1. UNCHANGED <<prog, loaded, replies, frame>>
  BY DEF Barrier
<1>2. \A w \in Workers : phase[w] = "ready" /\ phase'[w] = "free" /\ w # Main
  BY PoolAssumption DEF Barrier, Threads
<1>3. Live' \subseteq Live
  BY <1>2, NobodyReturns
<1>4. \A u \in Threads : BodyTold(u, m)'
  BY <1>1, <1>2, <1>3, SameReplies, OthersTold DEF Threads
<1>5. LoadedAll'
  BY <1>1, <1>2 DEF OnWay, Meant, LoadedAll
<1>6. QED
  BY <1>1, <1>3, <1>4, <1>5, SameReplies DEF Meant

\* Taking the lock touches no body.
LEMMA LockMeans ==
  ASSUME NEW m, OnWay(m), NEW w \in Workers, Lock(w)
  PROVE  Meant(m)'
<1>1. UNCHANGED <<prog, loaded, replies, frame>> /\ w \in Threads
  BY DEF Lock, Threads
<1>2. \A u \in Threads : phase'[u] = IF u = w THEN "receiving" ELSE phase[u]
  BY <1>1 DEF Lock, OnWay, PoolInv, Types
<1>3. phase[w] = "free"
  BY DEF Lock
<1>4. Live' \subseteq Live
  BY <1>2, <1>3, NobodyReturns DEF Threads
<1>5. \A u \in Threads : BodyTold(u, m)'
  BY <1>1, <1>2, <1>4, SameReplies, OthersTold
<1>6. LoadedAll'
  BY <1>1, <1>2, <1>3 DEF OnWay, Meant, LoadedAll, Threads
<1>7. QED
  BY <1>1, <1>4, <1>5, <1>6, SameReplies DEF Meant

\* A job that is taken begins at its first statement.
LEMMA ReceiveMeans ==
  ASSUME NEW m, OnWay(m), NEW w \in Workers, Receive(w)
  PROVE  Meant(m)'
<1>1. UNCHANGED <<prog, loaded, replies>> /\ w \in Threads /\ w # Main /\ phase[w] = "receiving"
  BY PoolAssumption DEF Receive, Threads
<1>2. \A u \in Threads : phase'[u] = IF u = w THEN "busy" ELSE phase[u]
  BY <1>1 DEF Receive, OnWay, PoolInv, Types
<1>3. Live' \subseteq Live
  BY <1>1, <1>2, NobodyReturns DEF Threads
<1>4. \A u \in Threads : u # w => BodyTold(u, m)'
  <2>1. \A u \in Threads : u # w => frame'[u] = frame[u]
    BY DEF Receive, OnWay, PoolInv, Types
  <2>2. QED
    BY <1>1, <1>2, <1>3, <2>1, SameReplies, OthersTold
<1>5. BodyTold(w, m)'
  <2>1. frame'[w] = [Idle EXCEPT !.reply = Head(queue)]
    BY <1>1 DEF Receive, OnWay, PoolInv, Types
  <2>2. /\ frame'[w].at = 1 /\ frame'[w].sent = <<>> /\ frame'[w].got = <<>>
        /\ frame'[w].results = <<>> /\ frame'[w].handles = {}
    BY <2>1 DEF Idle
  <2>3. frame'[w].reply \in 1..Len(replies)
    <3>1. queue \in Seq(1..Len(replies)) /\ queue # <<>> /\ frame'[w].reply = Head(queue)
      BY <2>1 DEF OnWay, PoolInv, Types, Receive, Idle
    <3>2. QED
      BY <3>1, HeadTailProperties
  <2>4. WellFormed(prog', Body(w)')
    <3>1. replies[frame'[w].reply].call \in DOMAIN prog.body /\ prog \in Programs
      BY <2>3 DEF OnWay, FrameInv, PoolInv, Types
    <3>2. Body(w)' = prog.body[replies[frame'[w].reply].call]
      BY <1>1 DEF Body
    <3>3. QED
      BY <1>1, <3>1, <3>2, ProgramBodies
  <2>5. Doing(prog', Body(w)', frame'[w], replies', m)
    BY <2>2, <2>4, DoingBegins
  <2>6. QED
    BY <2>5 DEF BodyTold
<1>6. LoadedAll'
  BY <1>1, <1>2 DEF OnWay, Meant, LoadedAll, Threads
<1>7. QED
  BY <1>1, <1>3, <1>4, <1>5, <1>6, SameReplies DEF Meant


\* A body that ends gives its caller what it means.
LEMMA FinishMeans ==
  ASSUME NEW m, NEW t, Stepping(t, m), NEW a, Finish(t, a), UNCHANGED <<prog, loaded>>,
         t # Main => a = Gives(prog, Body(t), OnWorkers(prog), m)
  PROVE  Meant(m)'
<1>1. OnWay(m) /\ t \in Threads /\ phase[t] = "busy"
  BY DEF Stepping
<1>2. DOMAIN phase = Threads /\ DOMAIN frame = Threads /\ IsSequence(replies)
  BY <1>1 DEF OnWay, PoolInv, Types
<1>3. \A u \in Threads : phase'[u] = IF u = t
                                     THEN (IF t # Main THEN "free" ELSE IF a.kind = "ok" THEN "done" ELSE "failed")
                                     ELSE phase[u]
  BY <1>2 DEF Finish
<1>4. Live' \subseteq Live
  BY <1>1, <1>3, NobodyReturns DEF Threads
<1>5. LoadedAll'
  BY <1>1, <1>3 DEF OnWay, Meant, LoadedAll, Threads
<1>6. CASE t = Main
  <2>1. frame' = frame /\ replies' = replies
    BY <1>6 DEF Finish
  <2>2. \A u \in Threads : BodyTold(u, m)'
    BY <1>1, <1>3, <1>4, <1>6, <2>1, SameReplies, OthersTold
  <2>3. QED
    BY <1>1, <1>4, <1>5, <2>1, <2>2, SameReplies DEF Meant
<1>7. CASE t # Main
  <2> DEFINE r == frame[t].reply
             x == [replies[r] EXCEPT !.answer = a]
  <2>1. /\ r \in 1..Len(replies) /\ replies[r].call \in DOMAIN prog.body
        /\ Body(t) = prog.body[replies[r].call]
    BY <1>1, <1>7, BodyIsFormed DEF OnWay
  <2>2. a = m[replies[r].call]
    BY <1>1, <1>7, <2>1 DEF OnWay
  <2>3. x.answer = a /\ x.call = replies[r].call
    <3>1. DOMAIN replies[r] = {"call", "by", "answer"}
      BY <1>1, <2>1 DEF OnWay, PoolInv, Types
    <3>2. QED
      BY <3>1
  <2>4. replies' = [replies EXCEPT ![r] = x]
    BY <1>7 DEF Finish
  <2>5. \A u \in Threads : u # t => frame'[u] = frame[u]
    BY <1>2, <1>7 DEF Finish
  <2>6. Len(replies) \in Nat
    BY <1>2, LenProperties DEF IsSequence
  <2> HIDE DEF r, x
  <2>7. Len(replies') = Len(replies)
    BY ONLY <1>2, <2>1, <2>4, ReplaceOne
  <2>8. \A i \in 1..Len(replies) : replies'[i] = IF i = r THEN x ELSE replies[i]
    BY <1>2, <2>1, <2>4, LenProperties DEF IsSequence
  <2>9. Grown(replies, replies')
    BY <2>3, <2>6, <2>7, <2>8 DEF Grown
  <2>10. RepliesTold(m)'
    <3>1. ASSUME NEW i \in 1..Len(replies)
          PROVE  \/ replies'[i].answer \in {Pending, m[replies'[i].call]}
                 \/ replies'[i].answer = Lost /\ Live' = {}
      <4>1. CASE i = r
        BY <2>2, <2>3, <2>8, <4>1
      <4>2. CASE i # r
        BY <1>1, <1>4, <2>8, <4>2 DEF OnWay, Meant, RepliesTold
      <4>3. QED
        BY <4>1, <4>2
    <3>2. QED
      BY <2>7, <3>1 DEF RepliesTold
  <2>11. \A u \in Threads : u # t => BodyTold(u, m)'
    BY <1>1, <1>3, <1>4, <2>5, <2>9, OthersTold
  <2>12. BodyTold(t, m)'
    BY <1>1, <1>3, <1>7 DEF BodyTold
  <2>13. QED
    BY <1>5, <2>10, <2>11, <2>12 DEF Meant
<1>8. QED
  BY <1>6, <1>7

\* A step that touches the frame of one thread, and no reply.
LEMMA StepMeans ==
  ASSUME NEW m, NEW t, Stepping(t, m), UNCHANGED <<prog, phase, loaded, replies>>,
         \A u \in Threads : u # t => frame'[u] = frame[u], frame'[t].reply = frame[t].reply,
         Doing(prog, Body(t), frame'[t], replies, m)
  PROVE  Meant(m)'
<1>1. OnWay(m) /\ t \in Threads
  BY DEF Stepping
<1>2. Live' \subseteq Live
  BY NobodyReturns
<1>3. \A u \in Threads : u # t => BodyTold(u, m)'
  BY <1>1, <1>2, SameReplies, OthersTold
<1>4. Body(t)' = Body(t)
  BY DEF Body
<1>5. BodyTold(t, m)'
  BY <1>4 DEF BodyTold
<1>6. LoadedAll'
  BY <1>1 DEF OnWay, Meant, LoadedAll
<1>7. QED
  BY <1>1, <1>2, <1>3, <1>5, <1>6, SameReplies DEF Meant

\* The statement of t has the result it means: the body goes on after it.
LEMMA ContinueMeans ==
  ASSUME NEW m, NEW t, Stepping(t, m), NEW r, Continue(t, r), UNCHANGED <<prog, loaded>>, ~AtEnd(t),
         r = Result(prog, Body(t), frame[t].at, m), ~Body(t).rescues => r.kind # "error",
         ~Spawns(prog, Body(t), frame[t].at),
         Stmt(t).op = "join" => \A h \in frame[t].handles : h[1] # Stmt(t).handle
  PROVE  Meant(m)'
<1> DEFINE b == Body(t)
           F == frame[t]
           G == frame'[t]
<1>1. OnWay(m) /\ t \in Threads /\ phase[t] = "busy" /\ Doing(prog, b, F, replies, m)
  BY DEF Stepping
<1>2. WellFormed(prog, b)
  BY <1>1, BodyIsFormed DEF OnWay
<1>3. F.at <= Len(b.does)
  BY <1>1, <1>2, BodyFacts, DoingFacts DEF AtEnd
<1>4. /\ G.at = F.at + 1 /\ G.sent = <<>> /\ G.got = <<>> /\ G.handles = F.handles
      /\ G.reply = F.reply /\ G.results = Append(F.results, r)
      /\ \A u \in Threads : u # t => frame'[u] = frame[u]
  BY <1>1 DEF Continue, OnWay, PoolInv, Types, Fields
<1>5. Adds(F.results, r, G.results)
  BY <1>1, <1>4, AppendedOne DEF Doing, Told
<1>6. UNCHANGED <<prog, phase, loaded, replies>>
  BY DEF Continue
<1>7. b.does[F.at].op = "join" => \A h \in F.handles : h[1] # b.does[F.at].handle
  BY DEF Stmt
<1> HIDE DEF b, F, G
<1>8. ~b.rescues => r.kind # "error"
  BY DEF b
<1>9. r = Result(prog, b, F.at, m) /\ ~Spawns(prog, b, F.at)
  BY DEF b, F
<1>10. Doing(prog, b, G, replies, m)
  BY ONLY <1>1, <1>2, <1>3, <1>4, <1>5, <1>7, <1>8, <1>9, DoingContinues
<1>11. QED
  BY <1>4, <1>6, <1>10, StepMeans DEF b, F, G


\* A worker knows the names of its body exactly when the workers' definitions have them.
LEMMA NeedsMet ==
  ASSUME NEW m, NEW t, Stepping(t, m), t # Main
  PROVE  Runs(t) <=> Body(t).needs \subseteq OnWorkers(prog)
<1>1. t \in Workers /\ phase[t] = "busy"
  BY DEF Stepping, Threads
<1>2. loaded[t] = OnWorkers(prog)
  BY <1>1 DEF Stepping, OnWay, Meant, LoadedAll
<1>3. QED
  BY <1>1, <1>2 DEF Runs

\* A name that is not there is an error of the whole body.
LEMMA UndefinedMeans ==
  ASSUME NEW m, NEW t, Stepping(t, m), Undefined(t)
  PROVE  Meant(m)'
<1>1. Finish(t, Err("undefined")) /\ UNCHANGED <<prog, loaded>> /\ ~Runs(t)
  BY DEF Undefined
<1>2. t # Main => Err("undefined") = Gives(prog, Body(t), OnWorkers(prog), m)
  BY <1>1, NeedsMet, GivesUndefined
<1>3. QED
  BY <1>1, <1>2, FinishMeans

\* The statement of t is an error: it is the body's, or a rescued result.
LEMMA ThrowMeans ==
  ASSUME NEW m, NEW t, Stepping(t, m), Runs(t), NEW a, Throw(t, a), UNCHANGED <<prog, loaded>>, ~AtEnd(t),
         a = Result(prog, Body(t), frame[t].at, m), a.kind = "error",
         ~Spawns(prog, Body(t), frame[t].at),
         Stmt(t).op = "join" => \A h \in frame[t].handles : h[1] # Stmt(t).handle
  PROVE  Meant(m)'
<1>1. CASE Body(t).rescues
  <2>1. Continue(t, a)
    BY <1>1 DEF Throw
  <2>2. QED
    BY <1>1, <2>1, ContinueMeans
<1>2. CASE ~Body(t).rescues
  <2>1. Finish(t, a)
    BY <1>2 DEF Throw
  <2>2. /\ WellFormed(prog, Body(t)) /\ Doing(prog, Body(t), frame[t], replies, m)
        /\ frame[t].at \in 1..Len(Body(t).does)
    <3>1. WellFormed(prog, Body(t)) /\ Doing(prog, Body(t), frame[t], replies, m)
      BY BodyIsFormed DEF Stepping, OnWay
    <3>2. frame[t].at \in Nat \ {0} /\ Len(Body(t).does) \in Nat
      BY <3>1, DoingFacts, BodyFacts
    <3>3. QED
      BY <3>1, <3>2 DEF AtEnd
  <2>3. t # Main => a = Gives(prog, Body(t), OnWorkers(prog), m)
    BY <1>2, <2>2, NeedsMet, GivesError
  <2>4. QED
    BY <2>1, <2>3, FinishMeans
<1>3. QED
  BY <1>1, <1>2

\* The statement a thread is at on its way.
LEMMA ItsStatementToo ==
  ASSUME NEW m, NEW t, Stepping(t, m), ~AtEnd(t)
  PROVE  /\ PoolInv /\ FrameInv /\ phase[t] = "busy" /\ t \in Threads
         /\ WellFormed(prog, Body(t)) /\ Doing(prog, Body(t), frame[t], replies, m)
         /\ frame[t].at \in 1..Len(Body(t).does)
         /\ Submitted(t) <=> Len(frame[t].sent) = Opens(Stmt(t))
<1>1. WellFormed(prog, Body(t)) /\ Doing(prog, Body(t), frame[t], replies, m)
  BY BodyIsFormed DEF Stepping, OnWay
<1>2. frame[t].at \in Nat \ {0} /\ Len(Body(t).does) \in Nat
  BY <1>1, DoingFacts, BodyFacts
<1>3. frame[t].at \in 1..Len(Body(t).does)
  BY <1>2 DEF AtEnd
<1>4. Submitted(t) <=> Len(frame[t].sent) = Opens(Stmt(t))
  BY DEF Submitted, Opens
<1>5. QED
  BY <1>1, <1>3, <1>4 DEF Stepping, OnWay

\* The next call of a statement that is not submitted yet.
LEMMA NextCall ==
  ASSUME NEW m, NEW t, Stepping(t, m), ~AtEnd(t), ~Submitted(t), Stmt(t).op # "join"
  PROVE  Len(frame[t].sent) + 1 \in 1..Len(Stmt(t).calls)
<1>1. /\ Stmt(t).op \in {"call", "spawn", "join", "map"} /\ Len(Stmt(t).calls) \in Nat
      /\ Len(frame[t].sent) \in Nat
      /\ Len(frame[t].sent) < Len(Stmt(t).calls) \/ Len(Stmt(t).calls) = 0
  BY ItsStatementToo, ItsStatement, NotAllSent
<1>2. Len(frame[t].sent) # Len(Stmt(t).calls)
  BY DEF Submitted
<1>3. frame[t].sent # <<>> => Len(frame[t].sent) <= Opens(Stmt(t))
  BY ItsStatementToo DEF FrameInv, FrameOK
<1>4. frame[t].sent = <<>> => Len(frame[t].sent) = 0
  BY ItsStatementToo, DoingFacts
<1>5. Len(frame[t].sent) <= Len(Stmt(t).calls)
  BY <1>1, <1>3, <1>4 DEF Opens
<1>6. QED
  BY <1>1, <1>2, <1>5

\* A refused argument and a second join are the errors that are meant.
LEMMA RefuseMeans ==
  ASSUME NEW m, NEW t, Stepping(t, m), Refuse(t)
  PROVE  Meant(m)'
<1> DEFINE b == Body(t)
           F == frame[t]
<1>1. /\ Runs(t) /\ ~AtEnd(t) /\ ~Submitted(t) /\ UNCHANGED <<prog, loaded>>
  BY DEF Refuse
<1>2. /\ WellFormed(prog, b) /\ Doing(prog, b, F, replies, m) /\ F.at \in 1..Len(b.does)
      /\ Stmt(t) = b.does[F.at]
  BY <1>1, ItsStatementToo DEF Stmt
<1>3. CASE Stmt(t).op = "join"
  <2>1. (\A h \in F.handles : h[1] # Stmt(t).handle) /\ Throw(t, Err("already joined"))
    BY <1>3 DEF Refuse
  <2>2. F.sent = <<>>
    BY <1>1, <1>3, ItsStatementToo, NotAllSent
  <2> HIDE DEF b, F
  <2>3. b.does[F.at].op = "join" /\ \A h \in F.handles : h[1] # b.does[F.at].handle
    BY <1>2, <1>3, <2>1
  <2>4. Result(prog, b, F.at, m) = Err("already joined")
    BY ONLY <1>2, <2>2, <2>3, NoHandleResult
  <2>5. ~Spawns(prog, b, F.at)
    BY <2>3 DEF Spawns
  <2>6. Err("already joined").kind = "error"
    BY DEF Err
  <2>7. QED
    BY <1>1, <2>1, <2>4, <2>5, <2>6, ThrowMeans DEF b, F
<1>4. CASE Stmt(t).op # "join"
  <2> DEFINE n == Len(F.sent) + 1
  <2>1. ~prog.body[Stmt(t).calls[n]].sends /\ Throw(t, Err("argument not Send"))
    BY <1>4 DEF Refuse
  <2>2. n \in 1..Len(Stmt(t).calls)
    BY <1>1, <1>4, NextCall
  <2> HIDE DEF b, F, n
  <2>3. Result(prog, b, F.at, m) = Err("argument not Send")
    BY <1>2, <1>4, <2>1, <2>2, RefusedResult
  <2>4. ~Spawns(prog, b, F.at)
    <3>1. CASE Stmt(t).op = "spawn"
      <4>1. Len(Stmt(t).calls) = 1
        BY <1>1, <3>1, ItsStatementToo, ItsStatement
      <4>2. n = 1
        BY <2>2, <4>1
      <4>3. QED
        BY <1>2, <2>1, <4>2 DEF Spawns
    <3>2. CASE Stmt(t).op # "spawn"
      BY <1>2, <3>2 DEF Spawns
    <3>3. QED
      BY <3>1, <3>2
  <2>5. Err("argument not Send").kind = "error"
    BY DEF Err
  <2>6. QED
    BY <1>1, <1>4, <2>1, <2>3, <2>4, <2>5, ThrowMeans DEF b, F
<1>5. QED
  BY <1>3, <1>4


\* A join takes its handle.
LEMMA TakeHandleMeans ==
  ASSUME NEW m, NEW t, Stepping(t, m), TakeHandle(t)
  PROVE  Meant(m)'
<1> DEFINE b == Body(t)
           F == frame[t]
           G == frame'[t]
<1>1. /\ ~AtEnd(t) /\ ~Submitted(t) /\ Stmt(t).op = "join"
      /\ UNCHANGED <<prog, phase, loaded, replies>>
  BY DEF TakeHandle
<1>2. /\ WellFormed(prog, b) /\ Doing(prog, b, F, replies, m) /\ F.at \in 1..Len(b.does)
      /\ Stmt(t) = b.does[F.at] /\ F.sent = <<>> /\ F.got = <<>>
  BY <1>1, ItsStatementToo, NotAllSent DEF Stmt
<1>3. PICK h \in F.handles : /\ h[1] = Stmt(t).handle
                             /\ frame' = [frame EXCEPT ![t].sent = <<h[2]>>, ![t].handles = @ \ {h}]
  BY DEF TakeHandle
<1>4. /\ G.at = F.at /\ G.results = F.results /\ G.sent = <<h[2]>> /\ G.got = <<>>
      /\ G.handles = F.handles \ {h} /\ G.reply = F.reply
      /\ \A u \in Threads : u # t => frame'[u] = frame[u]
  BY <1>2, <1>3 DEF Stepping, OnWay, PoolInv, Types, Fields
<1> HIDE DEF b, F, G
<1>5. F.at <= Len(b.does) /\ b.does[F.at].op = "join" /\ h[1] = b.does[F.at].handle
  BY <1>1, <1>2, <1>3, BodyFacts
<1>6. Doing(prog, b, G, replies, m)
  BY ONLY <1>2, <1>3, <1>4, <1>5, DoingJoins
<1>7. QED
  BY <1>1, <1>4, <1>6, StepMeans DEF b, F, G

\* A map of nothing is an empty list.
LEMMA MapOfNoneMeans ==
  ASSUME NEW m, NEW t, Stepping(t, m), MapOfNone(t)
  PROVE  Meant(m)'
<1> DEFINE b == Body(t)
           F == frame[t]
<1>1. /\ ~AtEnd(t) /\ Submitted(t) /\ F.sent = <<>> /\ Continue(t, List(<<>>))
      /\ UNCHANGED <<prog, loaded>>
  BY DEF MapOfNone
<1>2. /\ WellFormed(prog, b) /\ Doing(prog, b, F, replies, m) /\ F.at \in 1..Len(b.does)
      /\ Stmt(t) = b.does[F.at] /\ Len(F.sent) = Opens(Stmt(t))
  BY <1>1, ItsStatementToo DEF Stmt
<1> HIDE DEF b, F
<1>3. Len(F.sent) = 0
  BY <1>1, <1>2, DoingFacts
<1>4. b.does[F.at].op # "join" /\ Len(b.does[F.at].calls) = 0
  BY <1>2, <1>3 DEF Opens
<1>5. Result(prog, b, F.at, m) = List(<<>>) /\ b.does[F.at].op = "map"
  BY ONLY <1>2, <1>4, EmptyMapResult
<1>6. List(<<>>).kind # "error" /\ ~Spawns(prog, b, F.at)
  BY <1>5 DEF List, Ok, Spawns
<1>7. QED
  BY <1>1, <1>2, <1>5, <1>6, ContinueMeans DEF b, F

\* The reply a thread waits for, once it is answered.
LEMMA AwaitedAnswer ==
  ASSUME NEW m, NEW t, Stepping(t, m), ~AtEnd(t), Submitted(t), frame[t].sent # <<>>,
         replies[Awaited(t)].answer # Pending
  PROVE  /\ Len(frame[t].got) < Len(frame[t].sent)
         /\ replies[Awaited(t)].answer = m[replies[frame[t].sent[Len(frame[t].got) + 1]].call]
<1> DEFINE F == frame[t]
           n == Len(F.got) + 1
<1>1. Doing(prog, Body(t), F, replies, m) /\ FrameOK(t)
  BY ItsStatementToo DEF FrameInv
<1>2. Len(F.got) \in Nat /\ Len(F.sent) \in Nat
  BY <1>1, DoingFacts
<1>3. Len(F.got) < Len(F.sent)
  BY <1>1 DEF FrameOK
<1>4. n \in 1..Len(F.sent)
  BY <1>2, <1>3
<1>5. F.sent[n] \in 1..Len(replies)
  BY <1>1, <1>4 DEF Doing, Asked
<1>6. Awaited(t) = F.sent[n]
  BY DEF Awaited
<1>7. replies[F.sent[n]].answer \in {Pending, m[replies[F.sent[n]].call]}
  BY <1>5 DEF Stepping, OnWay, Meant, RepliesTold
<1>8. QED
  BY <1>3, <1>6, <1>7

\* The answers of a statement make up its result, in the order of its list.
LEMMA CollectMeans ==
  ASSUME NEW m, NEW t, Stepping(t, m), Collect(t)
  PROVE  Meant(m)'
<1> DEFINE b == Body(t)
           F == frame[t]
           G == frame'[t]
           a == replies[Awaited(t)].answer
           got == Append(F.got, a)
<1>1. /\ Runs(t) /\ ~AtEnd(t) /\ Submitted(t) /\ F.sent # <<>> /\ a # Pending /\ UNCHANGED <<prog, loaded>>
  BY DEF Collect
<1>2. /\ WellFormed(prog, b) /\ Doing(prog, b, F, replies, m) /\ F.at \in 1..Len(b.does)
      /\ Stmt(t) = b.does[F.at] /\ Len(F.sent) = Opens(b.does[F.at])
  BY <1>1, ItsStatementToo DEF Stmt
<1>3. /\ Len(F.got) < Len(F.sent)
      /\ a = m[replies[F.sent[Len(F.got) + 1]].call]
  BY <1>1, AwaitedAnswer
<1>4. ~Spawns(prog, b, F.at)
  <2>1. b.does[F.at].op # "spawn"
    BY <1>1, <1>2 DEF Doing, Asked
  <2>2. QED
    BY <2>1 DEF Spawns
<1>5. Adds(F.got, a, got)
  <2>1. IsSequence(F.got)
    BY <1>2, DoingFacts
  <2> HIDE DEF a, F
  <2>2. QED
    BY <2>1, AppendedOne
<1>6. b.does[F.at].op = "join" => \A h \in F.handles : h[1] # b.does[F.at].handle
  <2>1. \A h \in F.handles : ~Joins(b, F.at, h[1])
    BY <1>1, <1>2 DEF Doing, Holding
  <2>2. QED
    BY <2>1 DEF Joins
<1>7. Len(got) = Len(F.got) + 1
  BY <1>5 DEF Adds
<1>8. IF a.kind = "error" THEN Throw(t, a)
      ELSE IF Len(got) < Len(F.sent)
      THEN frame' = [frame EXCEPT ![t].got = got] /\ UNCHANGED <<phase, replies>>
      ELSE Continue(t, IF Stmt(t).op = "map" THEN List(got) ELSE a)
  BY DEF Collect
<1> HIDE DEF b, F, G, a, got
<1>9. CASE a.kind = "error"
  <2>1. Result(prog, b, F.at, m) = a
    BY ONLY <1>2, <1>3, <1>9, ErrorResult
  <2>2. Throw(t, a)
    BY <1>8, <1>9
  <2>3. QED
    BY <1>1, <1>2, <1>4, <1>6, <1>9, <2>1, <2>2, ThrowMeans DEF b, F
<1>10. CASE a.kind # "error" /\ Len(got) < Len(F.sent)
  <2>1. frame' = [frame EXCEPT ![t].got = got] /\ UNCHANGED <<phase, replies>>
    BY <1>8, <1>10
  <2>2. /\ G.at = F.at /\ G.results = F.results /\ G.sent = F.sent /\ G.got = got
        /\ G.handles = F.handles /\ G.reply = F.reply
        /\ \A u \in Threads : u # t => frame'[u] = frame[u]
    BY <2>1 DEF Stepping, OnWay, PoolInv, Types, Fields, F, G
  <2>3. Adds(F.got, a, G.got)
    BY <1>5, <2>2
  <2>4. a.kind # "error"
    BY <1>10
  <2>5. Doing(prog, b, G, replies, m)
    BY ONLY <1>2, <1>3, <2>2, <2>3, <2>4, DoingHears
  <2>6. QED
    BY <1>1, <2>1, <2>2, <2>5, StepMeans DEF b, F, G
<1>11. CASE a.kind # "error" /\ ~(Len(got) < Len(F.sent))
  <2> DEFINE r == IF Stmt(t).op = "map" THEN List(got) ELSE a
  <2>1. Continue(t, r)
    BY <1>8, <1>11
  <2>2. ~(Len(F.got) + 1 < Len(F.sent)) /\ a.kind # "error"
    BY <1>7, <1>11
  <2>3. /\ b.does[F.at].op # "spawn"
        /\ Result(prog, b, F.at, m) = IF b.does[F.at].op = "map" THEN List(got) ELSE a
    <3>1. /\ WellFormed(prog, b) /\ Doing(prog, b, F, replies, m) /\ F.at \in 1..Len(b.does)
          /\ F.sent # <<>> /\ Len(F.sent) = Opens(b.does[F.at])
          /\ OneDue(F) /\ a = Due(F, replies, m) /\ a.kind # "error" /\ Adds(F.got, a, got)
      BY <1>1, <1>2, <1>3, <1>5, <2>2 DEF OneDue, Due
    <3>2. QED
      BY ONLY <3>1, LastResult
  <2>4. r = Result(prog, b, F.at, m) /\ r.kind # "error"
    BY <1>2, <2>2, <2>3 DEF List, Ok
  <2> HIDE DEF r
  <2>5. QED
    BY <1>1, <1>2, <1>4, <1>6, <2>1, <2>4, ContinueMeans DEF b, F
<1>12. QED
  BY <1>9, <1>10, <1>11

\* A body that has come to its end gives its value or its error.
LEMMA EndMeans ==
  ASSUME NEW m, NEW t, Stepping(t, m), End(t)
  PROVE  Meant(m)'
<1>1. /\ Runs(t) /\ AtEnd(t) /\ Body(t).ends # "panic" /\ UNCHANGED <<prog, loaded>>
      /\ Finish(t, Ending(Body(t), frame[t].results))
  BY DEF End, Ending
<1>2. WellFormed(prog, Body(t)) /\ Doing(prog, Body(t), frame[t], replies, m)
  BY BodyIsFormed DEF Stepping, OnWay
<1>3. t # Main => Ending(Body(t), frame[t].results) = Gives(prog, Body(t), OnWorkers(prog), m)
  BY <1>1, <1>2, NeedsMet, GivesEnd DEF AtEnd
<1>4. QED
  BY <1>1, <1>3, FinishMeans


\* A call goes to the workers, and nobody's answer changes.
LEMMA SubmitMeans ==
  ASSUME NEW m, NEW t, Stepping(t, m), Submit(t)
  PROVE  Meant(m)'
<1> DEFINE b == Body(t)
           F == frame[t]
           G == frame'[t]
           c == Stmt(t).calls[Len(F.sent) + 1]
           id == Len(replies) + 1
           x == [call |-> c, by |-> t, answer |-> Pending]
<1>1. /\ Runs(t) /\ ~AtEnd(t) /\ ~Submitted(t) /\ Stmt(t).op # "join" /\ prog.body[c].sends /\ ~Closed
      /\ UNCHANGED <<prog, loaded>>
  BY DEF Submit, Stepping, Closed
<1>2. /\ replies' = Append(replies, x) /\ phase' = phase
      /\ frame' = IF Stmt(t).op = "spawn"
                  THEN [frame EXCEPT ![t].handles = @ \cup {<<F.at, id>>},
                                     ![t].results = Append(@, Handle), ![t].at = @ + 1]
                  ELSE [frame EXCEPT ![t].sent = Append(@, id)]
  BY <1>1 DEF Submit
<1>3. /\ WellFormed(prog, b) /\ Doing(prog, b, F, replies, m) /\ F.at \in 1..Len(b.does)
      /\ Stmt(t) = b.does[F.at]
  BY <1>1, ItsStatementToo DEF Stmt
<1>4. Len(F.sent) + 1 \in 1..Len(Stmt(t).calls)
  BY <1>1, NextCall
<1>5. OnWay(m) /\ t \in Threads /\ IsSequence(replies)
  BY DEF Stepping, OnWay, PoolInv, Types
<1>6. x.call = c /\ x.answer = Pending
  OBVIOUS
<1> HIDE DEF c, x
<1>7. Adds(replies, x, replies')
  BY <1>2, <1>5, AppendedOne
<1>8. /\ Grown(replies, replies') /\ id \in 1..Len(replies') /\ replies'[id].call = c
      /\ \A i \in 1..Len(replies') : i = id \/ i \in 1..Len(replies)
      /\ replies'[id].answer = Pending /\ \A i \in 1..Len(replies) : replies'[i] = replies[i]
  BY <1>6, <1>7 DEF Adds, Grown
<1>9. Live' \subseteq Live /\ LoadedAll'
  BY <1>1, <1>2, <1>5, NobodyReturns DEF OnWay, Meant, LoadedAll
<1>10. RepliesTold(m)'
  BY <1>2, <1>5, <1>8, <1>9 DEF OnWay, Meant, RepliesTold
<1>11. \A u \in Threads : u # t => frame'[u] = frame[u]
  BY <1>2, <1>5 DEF OnWay, PoolInv, Types
<1>12. \A u \in Threads : u # t => BodyTold(u, m)'
  BY <1>1, <1>2, <1>5, <1>8, <1>9, <1>11, OthersTold
<1>13. G.reply = F.reply
  BY <1>2, <1>5 DEF OnWay, PoolInv, Types, Fields
<1>14. Body(t)' = b
  <2>1. t # Main => F.reply \in 1..Len(replies)
    BY <1>3, <1>5, ItsStatementToo, BodyIsFormed, <1>1
  <2>2. QED
    BY <1>1, <1>8, <1>13, <2>1 DEF Body
<1>15. Doing(prog, b, G, replies', m)
  <2>1. CASE Stmt(t).op = "spawn"
    <3>1. /\ G.at = F.at + 1 /\ G.results = Append(F.results, Handle) /\ G.sent = F.sent /\ G.got = F.got
          /\ G.handles = F.handles \cup {<<F.at, id>>}
      BY <1>2, <1>5, <2>1 DEF OnWay, PoolInv, Types, Fields
    <3>2. F.sent = <<>> /\ F.got = <<>>
      BY <1>1, <2>1, ItsStatementToo, NotAllSent
    <3>3. Adds(F.results, Handle, G.results)
      BY <1>3, <3>1, AppendedOne DEF Doing, Told
    <3>4. c = b.does[F.at].calls[1]
      <4>1. Len(<<>>) = 0
        BY EmptySeq
      <4>2. QED
        BY <1>3, <3>2, <4>1 DEF c
    <3>5. Spawns(prog, b, F.at)
      BY <1>1, <1>3, <2>1, <3>4 DEF Spawns
    <3>6. F.at <= Len(b.does) /\ replies'[id].call = b.does[F.at].calls[1] /\ id \in 1..Len(replies')
          /\ Grown(replies, replies')
      BY <1>3, <1>8, <3>4, BodyFacts
    <3>7. G.sent = <<>> /\ G.got = <<>>
      BY <3>1, <3>2
    <3> HIDE DEF b, F, G, id
    <3>8. QED
      BY ONLY <1>3, <3>1, <3>2, <3>3, <3>5, <3>6, <3>7, DoingSpawns
  <2>2. CASE Stmt(t).op # "spawn"
    <3>1. /\ G.at = F.at /\ G.results = F.results /\ G.sent = Append(F.sent, id) /\ G.got = F.got
          /\ G.handles = F.handles
      BY <1>2, <1>5, <2>2 DEF OnWay, PoolInv, Types, Fields
    <3>2. Adds(F.sent, id, G.sent)
      <4>1. IsSequence(F.sent)
        BY <1>3, DoingFacts
      <4> HIDE DEF F, G, id
      <4>2. QED
        BY <3>1, <4>1, AppendedOne
    <3>3. SendsNext(prog, b, F, replies', id)
      <4>1. c = b.does[F.at].calls[Len(F.sent) + 1]
        BY <1>3 DEF c
      <4>2. F.at <= Len(b.does) /\ b.does[F.at].op \notin {"spawn", "join"}
        BY <1>1, <1>3, <2>2, BodyFacts
      <4>3. Len(F.sent) + 1 \in 1..Len(b.does[F.at].calls)
        BY <1>3, <1>4
      <4> HIDE DEF b, F, id
      <4>4. QED
        BY <1>1, <1>8, <4>1, <4>2, <4>3 DEF SendsNext
    <3>4. Grown(replies, replies')
      BY <1>8
    <3> HIDE DEF b, F, G, id
    <3>5. QED
      BY ONLY <1>3, <3>1, <3>2, <3>3, <3>4, DoingSends
  <2>3. QED
    BY <2>1, <2>2
<1>16. BodyTold(t, m)'
  BY <1>1, <1>14, <1>15 DEF BodyTold
<1>17. QED
  BY <1>9, <1>10, <1>12, <1>16 DEF Meant

\* A panic loses the answer of the job that means it, and with the last
\* worker those of the jobs nobody will take.
LEMMA PanicMeans ==
  ASSUME NEW m, NEW w \in Workers, Stepping(w, m), Panic(w)
  PROVE  Meant(m)'
<1> DEFINE r == frame[w].reply
<1>1. /\ Runs(w) /\ AtEnd(w) /\ Body(w).ends = "panic" /\ UNCHANGED <<prog, loaded>>
      /\ phase' = [phase EXCEPT ![w] = "dead"] /\ frame' = [frame EXCEPT ![w] = Idle]
      /\ replies' = [i \in 1..Len(replies) |->
           IF i \in Dropped(w) THEN [replies[i] EXCEPT !.answer = Lost] ELSE replies[i]]
  BY DEF Panic
<1>2. OnWay(m) /\ w \in Threads /\ w # Main /\ phase[w] = "busy"
  BY PoolAssumption DEF Stepping, Threads
<1>3. Len(replies) \in Nat
  BY <1>2, SomebodyDef DEF OnWay, PoolInv
<1>4. /\ DOMAIN phase = Threads /\ DOMAIN frame = Threads
      /\ \A i \in 1..Len(replies) : DOMAIN replies[i] = {"call", "by", "answer"}
  BY <1>2 DEF OnWay, PoolInv, Types
<1>5. /\ \A u \in Threads : phase'[u] = IF u = w THEN "dead" ELSE phase[u]
      /\ \A u \in Threads : u # w => frame'[u] = frame[u]
  BY <1>1, <1>4
<1>6. Live' \subseteq Live /\ (Live = {w} => Live' = {})
  <2>1. Live' \subseteq Live
    BY <1>2, <1>5, NobodyReturns DEF Threads
  <2>2. w \notin Live'
    BY <1>2, <1>5 DEF Live
  <2>3. QED
    BY <2>1, <2>2
<1>7. Len(replies') = Len(replies)
  BY <1>1, <1>3
<1>8. \A i \in 1..Len(replies) :
        /\ replies'[i].call = replies[i].call
        /\ replies'[i].answer = IF i \in Dropped(w) THEN Lost ELSE replies[i].answer
  BY <1>1, <1>4
<1>9. Grown(replies, replies')
  BY <1>3, <1>7, <1>8 DEF Grown
<1>10. /\ r \in 1..Len(replies) /\ replies[r].call \in DOMAIN prog.body
       /\ Body(w) = prog.body[replies[r].call]
  BY <1>2, BodyIsFormed DEF OnWay
<1>11. m[replies[r].call] = Lost
  <2>1. WellFormed(prog, Body(w)) /\ Doing(prog, Body(w), frame[w], replies, m)
    BY <1>2, BodyIsFormed DEF Stepping, OnWay
  <2>2. Gives(prog, Body(w), OnWorkers(prog), m) = Lost
    BY <1>1, <1>2, <2>1, NeedsMet, GivesEnd DEF AtEnd
  <2>3. QED
    BY <1>2, <1>10, <2>2 DEF OnWay
<1>12. RepliesTold(m)'
  <2>1. ASSUME NEW i \in 1..Len(replies)
        PROVE  \/ replies'[i].answer \in {Pending, m[replies'[i].call]}
               \/ replies'[i].answer = Lost /\ Live' = {}
    <3>1. CASE i = r
      BY <1>8, <1>11, <3>1 DEF Dropped
    <3>2. CASE i # r /\ i \in Dropped(w)
      <4>1. Live = {w}
        BY <3>2 DEF Dropped
      <4>2. QED
        BY <1>6, <1>8, <3>2, <4>1
    <3>3. CASE i \notin Dropped(w)
      BY <1>2, <1>6, <1>8, <3>3 DEF OnWay, Meant, RepliesTold
    <3>4. QED
      BY <3>1, <3>2, <3>3
  <2>2. QED
    BY <1>7, <2>1 DEF RepliesTold
<1>13. \A u \in Threads : u # w => BodyTold(u, m)'
  BY <1>1, <1>2, <1>5, <1>6, <1>9, OthersTold
<1>14. BodyTold(w, m)'
  BY <1>2, <1>5 DEF BodyTold
<1>15. LoadedAll'
  BY <1>1, <1>2, <1>5 DEF OnWay, Meant, LoadedAll, Threads
<1>16. QED
  BY <1>12, <1>13, <1>14, <1>15 DEF Meant

\* Without workers nothing is answered any more.
LEMMA MainAlone ==
  ASSUME NEW m, OnWay(m), Live = {}, Execute(Main)
  PROVE  Meant(m)'
<1>1. Main \in Threads /\ Main \notin Workers /\ phase[Main] = "busy"
  BY PoolAssumption DEF Threads, Execute, Undefined, Refuse, Submit, TakeHandle, MapOfNone, Collect, End, Runs
<1>2. UNCHANGED <<prog, loaded, replies>> /\ \A w \in Workers : phase'[w] = phase[w]
  <2>1. DOMAIN phase = Threads
    BY DEF OnWay, PoolInv, Types
  <2>2. ASSUME NEW a, Finish(Main, a) PROVE replies' = replies /\ \A w \in Workers : phase'[w] = phase[w]
    BY <1>1, <2>1, <2>2 DEF Finish, Threads
  <2>3. ASSUME NEW a, Throw(Main, a) PROVE replies' = replies /\ \A w \in Workers : phase'[w] = phase[w]
    BY <2>2, <2>3 DEF Throw, Continue
  <2>4. CASE Undefined(Main) \/ End(Main)
    BY <2>2, <2>4 DEF Undefined, End
  <2>5. CASE Refuse(Main)
    BY <2>3, <2>5 DEF Refuse
  <2>6. CASE Submit(Main)
    BY <1>1, <2>1, <2>6 DEF Submit, Closed, Threads
  <2>7. CASE TakeHandle(Main) \/ MapOfNone(Main)
    BY <2>7 DEF TakeHandle, MapOfNone, Continue
  <2>8. CASE Collect(Main)
    BY <2>3, <2>8 DEF Collect, Continue
  <2>9. QED
    BY <2>4, <2>5, <2>6, <2>7, <2>8 DEF Execute
<1>3. Live' = {} /\ \A w \in Workers : phase'[w] = "dead"
  BY <1>2 DEF Live
<1>4. \A u \in Threads : BodyTold(u, m)'
  BY <1>1, <1>3 DEF BodyTold, Threads
<1>5. LoadedAll'
  BY <1>2 DEF OnWay, Meant, LoadedAll
<1>6. RepliesTold(m)'
  BY <1>3, SameReplies, <1>2
<1>7. QED
  BY <1>4, <1>5, <1>6 DEF Meant


\* Before any step no name is needed and nothing is answered.
LEMMA MeantInit ==
  ASSUME Init, NEW m
  PROVE  Meant(m)
<1>1. prog \in Programs /\ Len(<<>>) = 0 /\ Main \in Threads
  BY EmptySeq, PoolAssumption DEF Init, Threads
<1>2. LoadedAll
  BY PoolAssumption DEF Init, LoadedAll, Threads
<1>3. RepliesTold(m)
  BY <1>1 DEF Init, RepliesTold
<1>4. ASSUME NEW t \in Threads PROVE BodyTold(t, m)
  <2>1. CASE t = Main
    <3>1. WellFormed(prog, Body(t))
      BY <1>1, <2>1, ProgramBodies DEF Body
    <3>2. Doing(prog, Body(t), frame[t], replies, m)
      BY <3>1, DoingBegins DEF Init, Idle
    <3>3. QED
      BY <3>2 DEF BodyTold
  <2>2. CASE t # Main
    BY <2>2 DEF Init, BodyTold
  <2>3. QED
    BY <2>1, <2>2
<1>5. QED
  BY <1>2, <1>3, <1>4 DEF Meant

\* A step of a body.
LEMMA ExecuteMeans ==
  ASSUME NEW m, OnWay(m), NEW t \in Threads, Execute(t)
  PROVE  Meant(m)'
<1>1. phase[t] = "busy"
  BY DEF Execute, Undefined, Refuse, Submit, TakeHandle, MapOfNone, Collect, End, Runs
<1>2. CASE t = Main /\ Live = {}
  BY <1>2, MainAlone
<1>3. CASE ~(t = Main /\ Live = {})
  <2>1. t # Main => t \in Live
    BY <1>1 DEF Live, Threads
  <2>2. Stepping(t, m)
    BY <1>1, <1>3, <2>1 DEF Stepping, OnWay, Meant, BodyTold
  <2>3. QED
    BY <2>2, UndefinedMeans, RefuseMeans, SubmitMeans, TakeHandleMeans, MapOfNoneMeans, CollectMeans,
       EndMeans DEF Execute
<1>4. QED
  BY <1>2, <1>3

\* Every step of the program stays on the way of its meaning.
LEMMA NextMeans ==
  ASSUME NEW m, OnWay(m), [Next]_vars
  PROVE  Meant(m)'
<1>1. ASSUME NEW t \in Threads, Load(t) \/ LoadPanics(t) \/ Execute(t) PROVE Meant(m)'
  BY <1>1, LoadMeans, ExecuteMeans
<1>2. CASE Lead
  BY <1>1, <1>2, BarrierMeans DEF Lead, Threads
<1>3. ASSUME NEW w \in Workers, Work(w) PROVE Meant(m)'
  <2>1. CASE Panic(w)
    <3>1. w \in Threads /\ w # Main /\ phase[w] = "busy" /\ w \in Live
      BY <2>1, PoolAssumption DEF Panic, Runs, Threads, Live
    <3>2. Stepping(w, m)
      BY <3>1 DEF Stepping, OnWay, Meant, BodyTold
    <3>3. QED
      BY <2>1, <3>2, PanicMeans
  <2>2. CASE Lock(w)
    BY <2>2, LockMeans
  <2>3. CASE Receive(w)
    BY <2>3, ReceiveMeans
  <2>4. QED
    BY <1>1, <1>3, <2>1, <2>2, <2>3 DEF Work, Threads
<1>4. CASE UNCHANGED vars
  <2>1. UNCHANGED <<prog, phase, loaded, replies, frame>>
    BY <1>4 DEF vars
  <2>2. QED
    BY <2>1 DEF OnWay, Meant, LoadedAll, RepliesTold, BodyTold, Live, Body
<1>5. QED
  BY <1>2, <1>3, <1>4 DEF Next

\* What the replies are, and what main has got, on that way.
LEMMA MeantAnswers ==
  ASSUME PoolInv, NoCircle(prog), MeantInv
  PROVE  AnswersAreMeant
<1> DEFINE m == Meaning(prog, OnWorkers(prog))
<1>1. Settled => Meant(m)
  BY DEF Settled, MeantInv
<1> HIDE DEF m
<1>2. RepliesAreMeant
  BY <1>1 DEF RepliesAreMeant, Meant, RepliesTold, m
<1>3. ResultsAreMeant
  <2>1. SUFFICES ASSUME Settled, Live # {}, NEW k \in 1..Len(frame[Main].results)
                 PROVE  frame[Main].results[k] = Result(prog, prog.main, k, m)
    BY DEF ResultsAreMeant, m
  <2>2. Main \in Threads
    BY DEF Threads
  <2>3. Told(prog, prog.main, frame[Main], m)
    BY <1>1, <2>1, <2>2 DEF Meant, BodyTold, Body, Doing
  <2>4. Len(frame[Main].results) = frame[Main].at - 1
    BY <2>3 DEF Told
  <2>5. QED
    BY <2>3, <2>4 DEF Told
<1>4. QED
  BY <1>2, <1>3 DEF AnswersAreMeant

\* The invariant of what the program means.
LEMMA MeantInvariant == Spec => []MeantInv
<1>1. Init => MeantInv
  BY MeantInit DEF MeantInv
<1>2. PoolInv /\ FrameInv /\ MeantInv /\ [Next]_vars => MeantInv'
  <2> SUFFICES ASSUME PoolInv, FrameInv, MeantInv, [Next]_vars
               PROVE  MeantInv'
    OBVIOUS
  <2>1. prog' = prog
    <3>1. CASE UNCHANGED vars
      BY <3>1 DEF vars
    <3>2. CASE Next
      BY <3>2 DEF Next, Lead, Work, Load, LoadPanics, Barrier, Lock, Receive, Execute, Undefined, Refuse,
                  Submit, TakeHandle, MapOfNone, Collect, End, Panic
    <3>3. QED
      BY <3>1, <3>2
  <2>2. PICK m : m = Meaning(prog, OnWorkers(prog))
    OBVIOUS
  <2>3. ASSUME AllLoad, NoCircle(prog) PROVE Meant(m)'
    <3>1. prog \in Programs
      BY DEF PoolInv, Types
    <3>2. m = [c \in DOMAIN prog.body |-> Gives(prog, prog.body[c], OnWorkers(prog), m)]
      BY <2>2, <2>3, <3>1, MeaningExists
    <3>3. \A c \in DOMAIN prog.body : m[c] = Gives(prog, prog.body[c], OnWorkers(prog), m)
      BY <3>2
    <3>4. Meant(m)
      BY <2>2, <2>3 DEF MeantInv, Meant, RepliesTold, BodyTold
    <3>5. OnWay(m)
      BY <2>3, <3>3, <3>4 DEF OnWay
    <3>6. QED
      BY <3>5, NextMeans
  <2>4. AllLoad' => AllLoad
    BY <2>1 DEF AllLoad
  <2>5. Meaning(prog', OnWorkers(prog')) = m
    BY <2>1, <2>2
  <2>6. QED
    BY <2>1, <2>3, <2>4, <2>5 DEF MeantInv, Meant, RepliesTold, BodyTold
<1>3. QED
  BY <1>1, <1>2, FrameInvariant, PTL DEF Spec

\* A call through the pool has the answer its function gives, however the
\* threads interleave and whichever worker takes it, and main's statements have
\* the results they mean, for any pool and any program whose functions do not
\* call each other in a circle (WorkerPool::call, worker.rs:109-120;
\* parallel_call and parallel_map, parallel.rs:58-144).
THEOREM PoolAnswersAreMeant == Spec => [](NoCircle(prog) => AnswersAreMeant)
<1>1. PoolInv /\ MeantInv => (NoCircle(prog) => AnswersAreMeant)
  BY MeantAnswers
<1>2. QED
  BY <1>1, PoolInvariant, MeantInvariant, PTL
=============================================================================
