-------------------------- MODULE TxnWalkerProofs --------------------------
(* Machine-checked proofs about TxnWalker, for all values of its constants. *)
EXTENDS TxnWalker, SequenceTheorems, FiniteSetTheorems, WellFoundedInduction, TLAPS

USE ConstantsAssumption

-----------------------------------------------------------------------------
(* Facts about the stack.                                                  *)

\* The context stack after a pop: one shorter, otherwise unchanged.
LEMMA PopSeq ==
  ASSUME NEW S, NEW s \in Seq(S), Len(s) > 0
  PROVE  /\ Pop(s) \in Seq(S)
         /\ Len(Pop(s)) = Len(s) - 1
         /\ \A i \in 1..(Len(s) - 1) : Pop(s)[i] = s[i]
BY SMT DEF Pop

\* Popping the empty stack leaves it empty.
LEMMA PopAny ==
  ASSUME NEW S, NEW s \in Seq(S)
  PROVE  Pop(s) \in Seq(S) /\ Len(Pop(s)) <= Len(s)
<1>1. CASE Len(s) = 0
  <2>1. Pop(s) = <<>> /\ s = <<>>
    BY <1>1, SMT DEF Pop
  <2>2. QED
    BY <2>1
<1>2. CASE Len(s) > 0
  BY <1>2, PopSeq
<1>3. QED
  BY <1>1, <1>2

\* EmptyCtx and merged contexts are contexts.
LEMMA CtxTypes ==
  /\ EmptyCtx \in Ctx
  /\ \A p, c \in Ctx : Merge(p, c) \in Ctx
<1>1. EmptyCtx \in Ctx
  BY DEF EmptyCtx, Ctx
<1>2. ASSUME NEW p \in Ctx, NEW c \in Ctx PROVE Merge(p, c) \in Ctx
  <2>1. [r \in Refs |-> IF c.writes[r] # None THEN c.writes[r] ELSE p.writes[r]]
           \in [Refs -> Vals \cup {None}]
    BY <1>2 DEF Ctx
  <2>2. [r \in Refs |-> IF p.reads[r] # None THEN p.reads[r] ELSE c.reads[r]]
           \in [Refs -> Nat \cup {None}]
    BY <1>2 DEF Ctx
  <2>3. QED
    BY <2>1, <2>2 DEF Merge, Ctx
<1>3. QED
  BY <1>1, <1>2

-----------------------------------------------------------------------------
(* Facts about the lookup.                                                 *)

\* A nonempty set of stack positions has a greatest element, the one that
\* Innermost picks.
LEMMA InnermostExists ==
  ASSUME NEW n \in Nat, NEW S \in SUBSET (1..n), S # {}
  PROVE  Innermost(S) \in S /\ \A j \in S : j <= Innermost(S)
<1> DEFINE T == {n - i : i \in S}
<1>1. T \subseteq Nat /\ T # {}
  <2>1. \A i \in S : i \in 1..n /\ n - i \in Nat
    OBVIOUS
  <2>2. QED
    BY <2>1
<1>2. PICK m \in T : \A k \in T : ~(<<k, m>> \in OpToRel(<, Nat))
  BY <1>1, NatLessThanWellFounded, WFMin
<1>3. ASSUME NEW k \in T PROVE m <= k
  <2>1. m \in Nat /\ k \in Nat /\ ~(<<k, m>> \in OpToRel(<, Nat))
    BY <1>1, <1>2
  <2>2. QED
    BY <2>1 DEF OpToRel
<1>4. PICK i \in S : m = n - i
  BY <1>2
<1>5. ASSUME NEW j \in S PROVE j <= i
  <2>1. i \in 1..n /\ j \in 1..n
    OBVIOUS
  <2>2. m <= n - j
    BY <1>3
  <2>3. QED
    BY <1>4, <2>1, <2>2
<1>6. QED
  BY <1>4, <1>5 DEF Innermost

\* A lookup returns a value of the cell's type.
LEMMA LookupType ==
  ASSUME TypeOK, NEW n \in 0..Depth, NEW r \in Refs
  PROVE  Lookup(n, r) \in Vals
<1>1. CASE Holders(n, r) = {}
  BY <1>1 DEF TypeOK, Lookup
<1>2. CASE Holders(n, r) # {}
  <2>1. n \in Nat /\ Holders(n, r) \subseteq 1..n
    BY DEF Holders, Depth, TypeOK
  <2>2. Innermost(Holders(n, r)) \in Holders(n, r)
    BY <1>2, <2>1, InnermostExists
  <2>3. PICK i \in 1..Depth : /\ i = Innermost(Holders(n, r))
                              /\ txnStack[i].writes[r] # None
    <3>1. 1..n \subseteq 1..Depth
      BY DEF Depth, TypeOK
    <3>2. QED
      BY <2>2, <3>1 DEF Holders
  <2>4. txnStack[i] \in Ctx
    BY <2>3, ElementOfSeq DEF TypeOK, Depth
  <2>5. txnStack[i].writes[r] \in Vals
    BY <2>3, <2>4 DEF Ctx
  <2>6. QED
    BY <1>2, <2>3, <2>5 DEF Lookup
<1>3. QED
  BY <1>1, <1>2

\* Recording a read or buffering a write in the top context keeps the stack
\* a stack of contexts.
LEMMA RecordType ==
  ASSUME TypeOK, NEW r \in Refs, NEW x \in Nat \cup {None}, Depth > 0
  PROVE  /\ [txnStack EXCEPT ![Depth].reads[r] = x] \in Seq(Ctx)
         /\ Len([txnStack EXCEPT ![Depth].reads[r] = x]) = Depth
<1> DEFINE c == [txnStack[Depth] EXCEPT !.reads[r] = x]
<1>1. Depth \in 1..Len(txnStack) /\ txnStack[Depth] \in Ctx
  BY ElementOfSeq DEF TypeOK, Depth
<1>2. c \in Ctx
  BY <1>1 DEF Ctx
<1>3. [txnStack EXCEPT ![Depth].reads[r] = x] = [txnStack EXCEPT ![Depth] = c]
  OBVIOUS
<1>4. QED
  BY <1>1, <1>2, <1>3, ExceptSeq DEF TypeOK, Depth

LEMMA BufferType ==
  ASSUME TypeOK, NEW r \in Refs, NEW v \in Vals, Depth > 0
  PROVE  /\ [txnStack EXCEPT ![Depth].writes[r] = v] \in Seq(Ctx)
         /\ Len([txnStack EXCEPT ![Depth].writes[r] = v]) = Depth
<1> DEFINE c == [txnStack[Depth] EXCEPT !.writes[r] = v]
<1>1. Depth \in 1..Len(txnStack) /\ txnStack[Depth] \in Ctx
  BY ElementOfSeq DEF TypeOK, Depth
<1>2. c \in Ctx
  BY <1>1 DEF Ctx
<1>3. [txnStack EXCEPT ![Depth].writes[r] = v] = [txnStack EXCEPT ![Depth] = c]
  OBVIOUS
<1>4. QED
  BY <1>1, <1>2, <1>3, ExceptSeq DEF TypeOK, Depth

-----------------------------------------------------------------------------
(* Type correctness.                                                       *)

\* The parts of the state that AttemptAgain sets keep their types.
LEMMA AttemptAgainType ==
  ASSUME TypeOK, NEW f \in Flows, InBlock(f), AttemptAgain(f)
  PROVE  /\ txnStack' \in Seq(Ctx) /\ Len(txnStack') <= Depth
         /\ blocks' \in [Flows -> Seq(1..MaxAttempts)]
         /\ signal' \in [Flows -> Signals]
<1> DEFINE n == Len(blocks[f])
<1>1. n \in Nat \ {0} /\ blocks[f] \in Seq(1..MaxAttempts)
  BY DEF TypeOK, InBlock
<1>2. CASE blocks[f][n] < MaxAttempts
  <2>1. /\ txnStack' = [txnStack EXCEPT ![Depth] = EmptyCtx]
        /\ blocks' = [blocks EXCEPT ![f][n] = @ + 1]
        /\ signal' = [signal EXCEPT ![f] = "none"]
    BY <1>2 DEF AttemptAgain
  <2>2. blocks[f][n] + 1 \in 1..MaxAttempts
    BY <1>1, <1>2, ElementOfSeq
  <2>3. [blocks[f] EXCEPT ![n] = blocks[f][n] + 1] \in Seq(1..MaxAttempts)
    BY <1>1, <2>2, ExceptSeq
  <2>4. /\ blocks' \in [Flows -> Seq(1..MaxAttempts)]
        /\ signal' \in [Flows -> Signals]
    BY <2>1, <2>3 DEF TypeOK, Signals
  <2>5. txnStack' \in Seq(Ctx) /\ Len(txnStack') = Depth
    <3>1. CASE Depth = 0
      <4>1. txnStack = <<>>
        BY <3>1 DEF TypeOK, Depth
      <4>2. txnStack' = <<>>
        BY <2>1, <3>1, <4>1
      <4>3. QED
        BY <3>1, <4>2
    <3>2. CASE Depth > 0
      BY <2>1, <3>2, CtxTypes, ExceptSeq DEF TypeOK, Depth
    <3>3. QED
      BY <3>1, <3>2 DEF TypeOK, Depth
  <2>6. QED
    BY <2>4, <2>5 DEF TypeOK, Depth
<1>3. CASE ~(blocks[f][n] < MaxAttempts)
  <2>1. /\ txnStack' = Pop(txnStack)
        /\ blocks' = [blocks EXCEPT ![f] = Pop(blocks[f])]
        /\ signal' = [signal EXCEPT ![f] = "error"]
    BY <1>3 DEF AttemptAgain
  <2>2. /\ blocks' \in [Flows -> Seq(1..MaxAttempts)]
        /\ signal' \in [Flows -> Signals]
    BY <2>1, <1>1, PopSeq DEF TypeOK, Signals
  <2>3. txnStack' \in Seq(Ctx) /\ Len(txnStack') <= Depth
    BY <2>1, PopAny DEF TypeOK, Depth
  <2>4. QED
    BY <2>2, <2>3
<1>4. QED
  BY <1>2, <1>3

\* The same for a commit.
LEMMA CommitTopType ==
  ASSUME TypeOK, NEW f \in Flows, InBlock(f), CommitTop(f), signal[f] \in Signals
  PROVE  /\ txnStack' \in Seq(Ctx) /\ Len(txnStack') <= Depth
         /\ blocks' \in [Flows -> Seq(1..MaxAttempts)]
         /\ signal' \in [Flows -> Signals]
         /\ value' \in [Refs -> Vals]
         /\ version' \in [Refs -> 0..MaxVersion]
<1> DEFINE inner == txnStack[Depth]
<1> DEFINE Done  == blocks' = [blocks EXCEPT ![f] = Pop(@)] /\ UNCHANGED signal
<1>1. Depth \in Nat
  BY DEF TypeOK, Depth
<1>2. ASSUME Done
      PROVE  /\ blocks' \in [Flows -> Seq(1..MaxAttempts)]
             /\ signal' \in [Flows -> Signals]
  <2>1. blocks[f] \in Seq(1..MaxAttempts) /\ Len(blocks[f]) > 0
    BY DEF TypeOK, InBlock
  <2>2. QED
    BY <1>2, <2>1, PopSeq DEF TypeOK
<1>3. CASE /\ Depth > 1
           /\ txnStack' = [Pop(txnStack) EXCEPT ![Depth - 1] = Merge(@, inner)]
           /\ Done
           /\ UNCHANGED <<value, version>>
  <2>1. /\ Pop(txnStack) \in Seq(Ctx) /\ Len(Pop(txnStack)) = Depth - 1
        /\ Depth - 1 \in 1..Len(Pop(txnStack))
    BY <1>1, <1>3, PopSeq DEF TypeOK, Depth
  <2>2. Pop(txnStack)[Depth - 1] \in Ctx /\ inner \in Ctx
    BY <1>1, <1>3, <2>1, ElementOfSeq DEF TypeOK, Depth
  <2>3. Merge(Pop(txnStack)[Depth - 1], inner) \in Ctx
    BY <2>2, CtxTypes
  <2>4. txnStack' \in Seq(Ctx) /\ Len(txnStack') = Depth - 1
    BY <1>3, <2>1, <2>3, ExceptSeq
  <2>5. QED
    BY <1>1, <1>2, <1>3, <2>4 DEF TypeOK
<1>4. CASE /\ Depth = 1 /\ Conflict(inner)
           /\ AttemptAgain(f)
           /\ UNCHANGED <<value, version>>
  BY <1>4, AttemptAgainType DEF TypeOK
<1>5. CASE /\ Depth = 1 /\ ~Conflict(inner)
           /\ \A r \in Written(inner) : version[r] < MaxVersion
           /\ value' = [r \in Refs |-> IF r \in Written(inner)
                                       THEN inner.writes[r] ELSE value[r]]
           /\ version' = [r \in Refs |-> IF r \in Written(inner)
                                         THEN version[r] + 1 ELSE version[r]]
           /\ txnStack' = <<>>
           /\ Done
  <2>1. inner \in Ctx
    <3>1. Depth \in 1..Len(txnStack) /\ txnStack \in Seq(Ctx)
      BY <1>5 DEF TypeOK, Depth
    <3>2. QED
      BY <3>1, ElementOfSeq
  <2>2. value' \in [Refs -> Vals]
    BY <1>5, <2>1 DEF TypeOK, Written, Ctx
  <2>3. version' \in [Refs -> 0..MaxVersion]
    BY <1>5 DEF TypeOK
  <2>4. QED
    BY <1>2, <1>5, <2>2, <2>3, EmptySeq DEF Depth
<1>6. QED
  BY <1>3, <1>4, <1>5 DEF CommitTop

\* The state always has the types TypeOK gives it: the stack never outgrows
\* its bound and no attempt counter passes MAX_RETRIES.
THEOREM TypeCorrect == Spec => []TypeOK
<1>1. Init => TypeOK
  BY EmptySeq DEF Init, TypeOK, Depth, Signals
<1>2. TypeOK /\ [Next]_vars => TypeOK'
  <2> SUFFICES ASSUME TypeOK, [Next]_vars PROVE TypeOK'
    OBVIOUS
  <2> USE DEF Depth
  <2>1. ASSUME NEW f \in Flows, NEW r \in Refs, Read(f, r) PROVE TypeOK'
    <3>1. Lookup(Depth, r) \in Vals \cup {None}
      <4>1. Depth \in 0..Depth
        BY DEF TypeOK
      <4>2. QED
        BY <4>1, LookupType
    <3>2. txnStack' \in Seq(Ctx) /\ Len(txnStack') = Len(txnStack)
      <4>1. version[r] \in Nat
        BY DEF TypeOK
      <4>2. QED
        BY <2>1, <4>1, RecordType DEF TypeOK, Read
    <3>3. QED
      BY <2>1, <3>1, <3>2 DEF TypeOK, Read
  <2>2. ASSUME NEW f \in Flows, NEW r \in Refs, NEW v \in Vals, Write(f, r, v)
        PROVE  TypeOK'
    <3>1. CASE Depth > 0
      <4>1. txnStack' \in Seq(Ctx) /\ Len(txnStack') = Len(txnStack)
        <5>1. txnStack' = [txnStack EXCEPT ![Depth].writes[r] = v]
          BY <2>2, <3>1 DEF Write
        <5>2. QED
          BY <3>1, <5>1, BufferType
      <4>2. QED
        BY <2>2, <3>1, <4>1 DEF TypeOK, Write
    <3>2. CASE ~(Depth > 0)
      <4>1. /\ version[r] < MaxVersion
            /\ value' = [value EXCEPT ![r] = v]
            /\ version' = [version EXCEPT ![r] = @ + 1]
            /\ UNCHANGED <<txnStack, blocks, signal, running>> /\ ret' = None
        BY <2>2, <3>2 DEF Write
      <4>2. version' \in [Refs -> 0..MaxVersion] /\ value' \in [Refs -> Vals]
        BY <4>1 DEF TypeOK
      <4>3. QED
        BY <4>1, <4>2 DEF TypeOK
    <3>3. QED
      BY <3>1, <3>2
  <2>3. ASSUME NEW f \in Flows, Begin(f) PROVE TypeOK'
    <3>1. txnStack' \in Seq(Ctx) /\ Len(txnStack') = Len(txnStack) + 1
      BY <2>3, CtxTypes DEF TypeOK, Begin
    <3>2. blocks' \in [Flows -> Seq(1..MaxAttempts)]
      BY <2>3 DEF TypeOK, Begin
    <3>3. QED
      BY <2>3, <3>1, <3>2 DEF TypeOK, Begin
  <2>4. ASSUME NEW f \in Flows, EndBody(f) PROVE TypeOK'
    <3>1. signal[f] \in Signals
      BY DEF TypeOK
    <3>2. QED
      BY <2>4, <3>1, CommitTopType DEF TypeOK, EndBody
  <2>5. ASSUME NEW f \in Flows, Retry(f) PROVE TypeOK'
    BY <2>5, AttemptAgainType DEF TypeOK, Retry
  <2>6. ASSUME NEW f \in Flows, Rollback(f) PROVE TypeOK'
    <3>1. blocks' \in [Flows -> Seq(1..MaxAttempts)]
      BY <2>6, PopSeq DEF TypeOK, Rollback, InBlock
    <3>2. txnStack' \in Seq(Ctx) /\ Len(txnStack') <= Len(txnStack)
      BY <2>6, PopAny DEF TypeOK, Rollback
    <3>3. QED
      BY <2>6, <3>1, <3>2 DEF TypeOK, Rollback
  <2>7. ASSUME NEW f \in Flows, NEW s \in {"exit", "error"}, Leave(f, s)
        PROVE  TypeOK'
    BY <2>7 DEF TypeOK, Leave, Signals
  <2>8. ASSUME NEW f \in Flows, Absorb(f) PROVE TypeOK'
    BY <2>8 DEF TypeOK, Absorb, Signals
  <2>9. ASSUME NEW f \in Flows, NEW g \in Flows, Switch(f, g) PROVE TypeOK'
    BY <2>9 DEF TypeOK, Switch
  <2>10. ASSUME NEW f \in Flows, NEW r \in Refs, ReadArg(f, r) PROVE TypeOK'
    BY <2>10 DEF TypeOK, ReadArg
  <2>11. CASE UNCHANGED vars
    BY <2>11 DEF TypeOK, vars
  <2>12. QED
    BY <2>1, <2>2, <2>3, <2>4, <2>5, <2>6, <2>7, <2>8, <2>9, <2>10, <2>11 DEF Next
<1>3. QED
  BY <1>1, <1>2, PTL DEF Spec

-----------------------------------------------------------------------------
(* No recorded read is ever stale.                                         *)

LEMMA PopReads ==
  ASSUME TypeOK, ReadsCurrent, txnStack' = Pop(txnStack), UNCHANGED version
  PROVE  ReadsCurrent'
<1>1. CASE Len(txnStack) = 0
  <2>1. txnStack' \in Seq(Ctx) /\ Len(txnStack') <= Len(txnStack)
    BY PopAny DEF TypeOK
  <2>2. Len(txnStack') = 0
    BY <1>1, <2>1
  <2>3. QED
    BY <2>2 DEF ReadsCurrent, Depth
<1>2. CASE Len(txnStack) > 0
  <2>1. /\ Len(txnStack') = Len(txnStack) - 1
        /\ \A i \in 1..(Len(txnStack) - 1) : txnStack'[i] = txnStack[i]
    BY <1>2, PopSeq DEF TypeOK
  <2>2. 1..(Len(txnStack) - 1) \subseteq 1..Depth
    BY DEF TypeOK, Depth
  <2>3. ASSUME NEW i \in 1..(Len(txnStack) - 1), NEW r \in Refs,
               txnStack'[i].reads[r] # None
        PROVE  txnStack'[i].reads[r] = version[r]
    BY <2>1, <2>2, <2>3 DEF ReadsCurrent
  <2>4. QED
    BY <2>1, <2>3 DEF ReadsCurrent, Depth
<1>3. QED
  BY <1>1, <1>2 DEF TypeOK

\* A merged context holds the reads of the two it was made of.
LEMMA MergeReads ==
  ASSUME TypeOK, ReadsCurrent, Depth > 1, UNCHANGED version,
         txnStack' = [Pop(txnStack) EXCEPT ![Depth - 1] = Merge(@, txnStack[Depth])]
  PROVE  ReadsCurrent'
<1>1. /\ Depth \in Nat /\ Len(Pop(txnStack)) = Depth - 1
      /\ Pop(txnStack) \in Seq(Ctx)
      /\ \A i \in 1..(Depth - 1) : Pop(txnStack)[i] = txnStack[i]
  BY PopSeq DEF TypeOK, Depth
<1>2. /\ Len(txnStack') = Depth - 1
      /\ txnStack'[Depth - 1] = Merge(txnStack[Depth - 1], txnStack[Depth])
      /\ \A i \in 1..(Depth - 1) : i # Depth - 1 => txnStack'[i] = txnStack[i]
  BY <1>1
<1>3. ASSUME NEW i \in 1..(Depth - 1), NEW r \in Refs,
             txnStack'[i].reads[r] # None
      PROVE  txnStack'[i].reads[r] = version[r]
  <2>1. CASE i = Depth - 1
    <3>1. \/ txnStack'[i].reads[r] = txnStack[Depth - 1].reads[r]
          \/ txnStack'[i].reads[r] = txnStack[Depth].reads[r]
      BY <1>2, <2>1 DEF Merge
    <3>2. Depth - 1 \in 1..Depth /\ Depth \in 1..Depth
      BY <1>1
    <3>3. QED
      BY <1>3, <3>1, <3>2 DEF ReadsCurrent
  <2>2. CASE i # Depth - 1
    BY <1>1, <1>2, <1>3, <2>2 DEF ReadsCurrent
  <2>3. QED
    BY <2>1, <2>2
<1>4. QED
  BY <1>2, <1>3 DEF ReadsCurrent, Depth

\* Popping, or replacing the top context by an empty one, keeps ReadsCurrent.
LEMMA AttemptAgainReads ==
  ASSUME TypeOK, ReadsCurrent, NEW f \in Flows, AttemptAgain(f),
         UNCHANGED version
  PROVE  ReadsCurrent'
<1>1. CASE txnStack' = Pop(txnStack)
  BY <1>1, PopReads
<1>2. CASE txnStack' = [txnStack EXCEPT ![Depth] = EmptyCtx]
  <2>1. Len(txnStack') = Len(txnStack)
    BY <1>2 DEF TypeOK
  <2>2. ASSUME NEW i \in 1..Len(txnStack), NEW r \in Refs,
               txnStack'[i].reads[r] # None
        PROVE  txnStack'[i].reads[r] = version[r]
    <3>1. CASE i = Depth
      BY <1>2, <2>2, <3>1 DEF TypeOK, EmptyCtx
    <3>2. CASE i # Depth
      BY <1>2, <2>2, <3>2 DEF TypeOK, ReadsCurrent, Depth
    <3>3. QED
      BY <3>1, <3>2
  <2>3. QED
    BY <2>1, <2>2 DEF ReadsCurrent, Depth
<1>3. QED
  BY <1>1, <1>2 DEF AttemptAgain

\* Whatever the programs do, each read recorded in an open context is of the
\* cell's current version.
THEOREM NoStaleRead == Spec => []ReadsCurrent
<1>1. Init => ReadsCurrent
  BY EmptySeq DEF Init, ReadsCurrent, Depth
<1>2. TypeOK /\ ReadsCurrent /\ [Next]_vars => ReadsCurrent'
  <2> SUFFICES ASSUME TypeOK, ReadsCurrent, [Next]_vars PROVE ReadsCurrent'
    OBVIOUS
  <2>1. ASSUME UNCHANGED <<txnStack, version>> PROVE ReadsCurrent'
    BY <2>1 DEF ReadsCurrent, Depth
  <2>2. ASSUME NEW f \in Flows, NEW r \in Refs, Read(f, r) PROVE ReadsCurrent'
    <3>1. CASE txnStack' = txnStack
      BY <2>1, <2>2, <3>1 DEF Read
    <3>2. CASE txnStack' = [txnStack EXCEPT ![Depth].reads[r] = version[r]]
      <4>1. Len(txnStack') = Len(txnStack) /\ UNCHANGED version
        BY <2>2, <3>2 DEF TypeOK, Read
      <4>2. ASSUME NEW i \in 1..Len(txnStack), NEW q \in Refs,
                   txnStack'[i].reads[q] # None
            PROVE  txnStack'[i].reads[q] = version[q]
        <5>1. txnStack[i] \in Ctx
          BY ElementOfSeq DEF TypeOK
        <5>2. CASE i = Depth /\ q = r
          BY <3>2, <5>1, <5>2 DEF TypeOK, Ctx
        <5>3. CASE ~(i = Depth /\ q = r)
          <6>1. txnStack'[i].reads[q] = txnStack[i].reads[q]
            BY <3>2, <5>1, <5>3 DEF TypeOK, Ctx
          <6>2. QED
            BY <4>2, <6>1 DEF ReadsCurrent, Depth
        <5>4. QED
          BY <5>2, <5>3
      <4>3. QED
        BY <4>1, <4>2 DEF ReadsCurrent, Depth
    <3>3. QED
      BY <2>2, <3>1, <3>2 DEF Read
  <2>3. ASSUME NEW f \in Flows, NEW r \in Refs, NEW v \in Vals, Write(f, r, v)
        PROVE  ReadsCurrent'
    <3>1. CASE Depth > 0
      <4>1. /\ txnStack' = [txnStack EXCEPT ![Depth].writes[r] = v]
            /\ UNCHANGED version
        BY <2>3, <3>1 DEF Write
      <4>2. Len(txnStack') = Len(txnStack)
        BY <4>1 DEF TypeOK
      <4>3. ASSUME NEW i \in 1..Len(txnStack)
            PROVE  txnStack'[i].reads = txnStack[i].reads
        <5>1. txnStack[i] \in Ctx
          BY ElementOfSeq DEF TypeOK
        <5>2. QED
          BY <4>1, <5>1 DEF TypeOK, Ctx
      <4>4. QED
        BY <4>1, <4>2, <4>3 DEF ReadsCurrent, Depth
    <3>2. CASE ~(Depth > 0)
      BY <2>3, <3>2 DEF Write, ReadsCurrent, TypeOK, Depth
    <3>3. QED
      BY <3>1, <3>2
  <2>4. ASSUME NEW f \in Flows, Begin(f) PROVE ReadsCurrent'
    <3>1. txnStack' = Append(txnStack, EmptyCtx) /\ UNCHANGED version
      BY <2>4 DEF Begin
    <3>2. /\ Len(txnStack') = Len(txnStack) + 1
          /\ \A i \in 1..Len(txnStack) : txnStack'[i] = txnStack[i]
          /\ txnStack'[Len(txnStack) + 1] = EmptyCtx
      BY <3>1 DEF TypeOK
    <3>3. ASSUME NEW i \in 1..(Len(txnStack) + 1), NEW r \in Refs,
                 txnStack'[i].reads[r] # None
          PROVE  txnStack'[i].reads[r] = version[r]
      <4>1. CASE i = Len(txnStack) + 1
        BY <3>2, <3>3, <4>1 DEF EmptyCtx
      <4>2. CASE i \in 1..Len(txnStack)
        BY <3>2, <3>3, <4>2 DEF ReadsCurrent, Depth
      <4>3. QED
        BY <4>1, <4>2 DEF TypeOK
    <3>4. QED
      BY <3>1, <3>2, <3>3 DEF ReadsCurrent, Depth
  <2>5. ASSUME NEW f \in Flows, EndBody(f) PROVE ReadsCurrent'
    <3> DEFINE inner == txnStack[Depth]
    <3>1. CASE /\ Depth > 1
               /\ txnStack' = [Pop(txnStack) EXCEPT ![Depth - 1] = Merge(@, inner)]
               /\ UNCHANGED version
      BY <3>1, MergeReads
    <3>2. CASE AttemptAgain(f) /\ UNCHANGED version
      BY <3>2, AttemptAgainReads
    <3>3. CASE txnStack' = <<>>
      BY <3>3, EmptySeq DEF ReadsCurrent, Depth
    <3>4. QED
      BY <2>5, <3>1, <3>2, <3>3 DEF EndBody, CommitTop
  <2>6. ASSUME NEW f \in Flows, Retry(f) PROVE ReadsCurrent'
    BY <2>6, AttemptAgainReads DEF Retry
  <2>7. ASSUME NEW f \in Flows, Rollback(f) PROVE ReadsCurrent'
    BY <2>7, PopReads DEF Rollback
  <2>8. QED
    BY <2>1, <2>2, <2>3, <2>4, <2>5, <2>6, <2>7
       DEF Next, vars, ReadArg, Leave, Absorb, Switch
<1>3. QED
  BY <1>1, <1>2, TypeCorrect, PTL DEF Spec

-----------------------------------------------------------------------------
(* Changes of a cell, and the contexts of a flow.                          *)

\* A cell changes only at a direct write or an outermost commit, which leave
\* no context open and bump the cell's version by one.
THEOREM VersionedChanges == Spec => ChangesAreVersioned
<1> DEFINE Step(r) == \/ value'[r] = value[r] /\ version'[r] = version[r]
                      \/ version'[r] = version[r] + 1 /\ txnStack' = <<>>
<1>1. TypeOK /\ [Next]_vars => [\A r \in Refs : Step(r)]_vars
  <2> SUFFICES ASSUME TypeOK, Next, NEW r \in Refs PROVE Step(r)
    OBVIOUS
  <2>1. CASE UNCHANGED <<value, version>>
    BY <2>1
  <2>2. ASSUME NEW f \in Flows, NEW q \in Refs, NEW v \in Vals, Write(f, q, v)
        PROVE  Step(r)
    <3>1. CASE Depth > 0
      BY <2>1, <2>2, <3>1 DEF Write
    <3>2. CASE ~(Depth > 0)
      <4>1. txnStack' = <<>>
        BY <2>2, <3>2 DEF Write, TypeOK, Depth
      <4>2. /\ value' = [value EXCEPT ![q] = v]
            /\ version' = [version EXCEPT ![q] = @ + 1]
        BY <2>2, <3>2 DEF Write
      <4>3. QED
        BY <4>1, <4>2 DEF TypeOK
    <3>3. QED
      BY <3>1, <3>2
  <2>3. ASSUME NEW f \in Flows, EndBody(f) PROVE Step(r)
    <3> DEFINE inner == txnStack[Depth]
    <3>1. CASE /\ value' = [q \in Refs |-> IF q \in Written(inner)
                                          THEN inner.writes[q] ELSE value[q]]
               /\ version' = [q \in Refs |-> IF q \in Written(inner)
                                            THEN version[q] + 1 ELSE version[q]]
               /\ txnStack' = <<>>
      BY <3>1
    <3>2. QED
      BY <2>1, <2>3, <3>1 DEF EndBody, CommitTop
  <2>4. QED
    BY <2>1, <2>2, <2>3
       DEF Next, Read, ReadArg, Begin, Retry, Rollback, Leave, Absorb, Switch
<1>2. QED
  BY <1>1, TypeCorrect, PTL DEF Spec, ChangesAreVersioned

\* One context for each open block.
Balanced == IsFiniteSet(OpenBlocks) /\ StackBalanced

\* A step after which every flow is in as many blocks as before.
LEMMA OpenSame ==
  ASSUME Balanced, Len(txnStack') = Len(txnStack),
         \A f \in Flows : Len(blocks'[f]) = Len(blocks[f])
  PROVE  Balanced'
<1>1. OpenBlocks' = OpenBlocks
  BY DEF OpenBlocks
<1>2. QED
  BY <1>1 DEF Balanced, StackBalanced, Depth

\* A flow enters a block.
LEMMA OpenMore ==
  ASSUME TypeOK, Balanced, NEW f \in Flows, Len(txnStack') = Len(txnStack) + 1,
         blocks' = [blocks EXCEPT ![f] = Append(@, 1)]
  PROVE  Balanced'
<1>1. PICK n : n = Len(blocks[f])
  OBVIOUS
<1>2. n \in Nat /\ Len(blocks'[f]) = n + 1 /\ \A g \in Flows \ {f} : blocks'[g] = blocks[g]
  BY <1>1 DEF TypeOK
<1>3. OpenBlocks' = OpenBlocks \cup {<<f, n + 1>>}
  <2>1. \A i : i \in 1..(n + 1) <=> i \in 1..n \/ i = n + 1
    BY <1>2
  <2>2. ASSUME NEW x PROVE x \in OpenBlocks' <=> x \in OpenBlocks \/ x = <<f, n + 1>>
    <3>1. x \in OpenBlocks' <=> \E g \in Flows : \E i \in 1..Len(blocks'[g]) : x = <<g, i>>
      BY DEF OpenBlocks
    <3>2. x \in OpenBlocks <=> \E g \in Flows : \E i \in 1..Len(blocks[g]) : x = <<g, i>>
      BY DEF OpenBlocks
    <3>3. \A g \in Flows : 1..Len(blocks'[g]) = IF g = f THEN 1..(n + 1) ELSE 1..Len(blocks[g])
      BY <1>2
    <3>4. QED
      BY <1>1, <2>1, <3>1, <3>2, <3>3
  <2>3. QED
    BY <2>2
<1>4. <<f, n + 1>> \notin OpenBlocks
  BY <1>1, <1>2 DEF OpenBlocks
<1>5. IsFiniteSet(OpenBlocks') /\ Cardinality(OpenBlocks') = Cardinality(OpenBlocks) + 1
  BY <1>3, <1>4, FS_AddElement DEF Balanced
<1>6. QED
  BY <1>5 DEF Balanced, StackBalanced, Depth

\* A flow leaves a block.
LEMMA OpenLess ==
  ASSUME TypeOK, Balanced, NEW f \in Flows, blocks[f] # <<>>, Len(txnStack') = Len(txnStack) - 1,
         blocks' = [blocks EXCEPT ![f] = Pop(@)]
  PROVE  Balanced'
<1>1. PICK n : n = Len(blocks[f])
  OBVIOUS
<1>2. n \in Nat \ {0} /\ blocks[f] \in Seq(1..MaxAttempts)
  BY <1>1, EmptySeq DEF TypeOK
<1>3. Len(blocks'[f]) = n - 1 /\ \A g \in Flows \ {f} : blocks'[g] = blocks[g]
  <2>1. Len(Pop(blocks[f])) = n - 1
    BY <1>1, <1>2, PopSeq
  <2>2. QED
    BY <2>1 DEF TypeOK
<1>4. OpenBlocks' = OpenBlocks \ {<<f, n>>}
  <2>1. \A i : i \in 1..(n - 1) <=> i \in 1..n /\ i # n
    BY <1>2
  <2>2. ASSUME NEW x PROVE x \in OpenBlocks' <=> x \in OpenBlocks /\ x # <<f, n>>
    <3>1. x \in OpenBlocks' <=> \E g \in Flows : \E i \in 1..Len(blocks'[g]) : x = <<g, i>>
      BY DEF OpenBlocks
    <3>2. x \in OpenBlocks <=> \E g \in Flows : \E i \in 1..Len(blocks[g]) : x = <<g, i>>
      BY DEF OpenBlocks
    <3>3. \A g \in Flows : 1..Len(blocks'[g]) = IF g = f THEN 1..(n - 1) ELSE 1..Len(blocks[g])
      BY <1>3
    <3>4. QED
      BY <1>1, <2>1, <3>1, <3>2, <3>3
  <2>3. QED
    BY <2>2
<1>5. <<f, n>> \in OpenBlocks
  BY <1>1, <1>2 DEF OpenBlocks
<1>6. IsFiniteSet(OpenBlocks') /\ Cardinality(OpenBlocks') = Cardinality(OpenBlocks) - 1
  BY <1>4, <1>5, FS_RemoveElement DEF Balanced
<1>7. QED
  BY <1>6 DEF Balanced, StackBalanced, Depth

\* A flow that is in a block finds a context.
LEMMA OpenContext ==
  ASSUME TypeOK, Balanced, NEW f \in Flows, blocks[f] # <<>>
  PROVE  Depth \in Nat \ {0}
<1>1. Len(blocks[f]) \in Nat \ {0}
  BY EmptySeq DEF TypeOK
<1>2. <<f, 1>> \in OpenBlocks
  BY <1>1 DEF OpenBlocks
<1>3. Cardinality(OpenBlocks) # 0
  BY <1>2, FS_EmptySet DEF Balanced
<1>4. QED
  BY <1>3 DEF Balanced, StackBalanced, TypeOK, Depth

\* The attempt loop keeps the balance.
LEMMA AttemptAgainBalanced ==
  ASSUME TypeOK, Balanced, NEW f \in Flows, InBlock(f), AttemptAgain(f)
  PROVE  Balanced'
<1>1. txnStack \in Seq(Ctx) /\ Depth \in Nat \ {0} /\ blocks[f] # <<>>
  BY OpenContext DEF TypeOK, InBlock
<1> DEFINE n == Len(blocks[f])
<1>2. CASE blocks[f][n] < MaxAttempts
  <2>1. /\ txnStack' = [txnStack EXCEPT ![Depth] = EmptyCtx]
        /\ blocks' = [blocks EXCEPT ![f][n] = blocks[f][n] + 1]
    BY <1>2 DEF AttemptAgain
  <2>2. Len(txnStack') = Len(txnStack)
    BY <1>1, <2>1
  <2>3. \A g \in Flows : blocks[g] \in Seq(1..MaxAttempts)
    BY DEF TypeOK
  <2>4. \A g \in Flows : Len(blocks'[g]) = Len(blocks[g])
    BY <2>1, <2>3 DEF TypeOK
  <2>5. QED
    BY <2>2, <2>4, OpenSame
<1>3. CASE ~(blocks[f][n] < MaxAttempts)
  <2>1. txnStack' = Pop(txnStack) /\ blocks' = [blocks EXCEPT ![f] = Pop(@)]
    BY <1>3 DEF AttemptAgain
  <2>2. Len(txnStack') = Len(txnStack) - 1
    BY <1>1, <2>1, PopSeq DEF Depth
  <2>3. QED
    BY <1>1, <2>1, <2>2, OpenLess
<1>4. QED
  BY <1>2, <1>3

\* However flows are suspended inside blocks, txn_stack has one context for
\* each block any flow is in: no eval_transact finds it empty.
THEOREM StackStaysBalanced == Spec => []StackBalanced
<1>1. Init => Balanced
  <2>1. SUFFICES ASSUME Init PROVE Balanced
    OBVIOUS
  <2>2. \A f \in Flows : Len(blocks[f]) = 0
    BY <2>1 DEF Init
  <2>3. OpenBlocks = {}
    BY <2>2 DEF OpenBlocks
  <2>4. Depth = 0
    BY <2>1 DEF Init, Depth
  <2>5. QED
    BY <2>3, <2>4, FS_EmptySet DEF Balanced, StackBalanced
<1>2. TypeOK /\ Balanced /\ [Next]_vars => Balanced'
  <2> SUFFICES ASSUME TypeOK, Balanced, [Next]_vars PROVE Balanced'
    OBVIOUS
  <2>0. txnStack \in Seq(Ctx) /\ Len(txnStack) \in Nat
    BY DEF TypeOK
  <2>1. CASE Len(txnStack') = Len(txnStack) /\ UNCHANGED blocks
    BY <2>1, OpenSame
  <2>2. ASSUME NEW f \in Flows, NEW r \in Refs, Read(f, r)
        PROVE  Len(txnStack') = Len(txnStack)
    BY <2>0, <2>2 DEF Read
  <2>3. ASSUME NEW f \in Flows, NEW r \in Refs, NEW v \in Vals, Write(f, r, v)
        PROVE  Len(txnStack') = Len(txnStack)
    BY <2>0, <2>3 DEF Write
  <2>4. ASSUME NEW f \in Flows, Begin(f) PROVE Balanced'
    <3>1. Len(txnStack') = Len(txnStack) + 1 /\ blocks' = [blocks EXCEPT ![f] = Append(@, 1)]
      BY <2>0, <2>4 DEF Begin
    <3>2. QED
      BY <3>1, OpenMore
  <2>5. ASSUME NEW f \in Flows, InBlock(f), AttemptAgain(f) PROVE Balanced'
    BY <2>5, AttemptAgainBalanced
  <2>6. ASSUME NEW f \in Flows, EndBody(f) PROVE Balanced'
    <3> DEFINE inner == txnStack[Depth]
    <3>1. blocks[f] # <<>>
      BY <2>6 DEF EndBody, InBlock
    <3>2. CASE /\ Depth > 1
               /\ txnStack' = [Pop(txnStack) EXCEPT ![Depth - 1] = Merge(@, inner)]
               /\ blocks' = [blocks EXCEPT ![f] = Pop(@)]
      <4>1. Len(Pop(txnStack)) = Len(txnStack) - 1 /\ Pop(txnStack) \in Seq(Ctx)
        BY <2>0, <3>2, PopSeq DEF Depth
      <4>2. Len(txnStack') = Len(txnStack) - 1
        BY <3>2, <4>1
      <4>3. QED
        BY <3>1, <3>2, <4>2, OpenLess
    <3>3. CASE AttemptAgain(f)
      BY <2>5, <2>6, <3>3 DEF EndBody
    <3>4. CASE Depth = 1 /\ txnStack' = <<>> /\ blocks' = [blocks EXCEPT ![f] = Pop(@)]
      <4>1. Len(txnStack') = Len(txnStack) - 1
        BY <3>4 DEF Depth
      <4>2. QED
        BY <3>1, <3>4, <4>1, OpenLess
    <3>5. QED
      BY <2>6, <3>2, <3>3, <3>4 DEF EndBody, CommitTop
  <2>7. ASSUME NEW f \in Flows, Retry(f) PROVE Balanced'
    BY <2>5, <2>7 DEF Retry
  <2>8. ASSUME NEW f \in Flows, Rollback(f) PROVE Balanced'
    <3>1. blocks[f] # <<>> /\ txnStack' = Pop(txnStack) /\ blocks' = [blocks EXCEPT ![f] = Pop(@)]
      BY <2>8 DEF Rollback, InBlock
    <3>2. Depth > 0
      BY <3>1, OpenContext
    <3>3. Len(txnStack') = Len(txnStack) - 1
      BY <2>0, <3>1, <3>2, PopSeq DEF Depth
    <3>4. QED
      BY <3>1, <3>3, OpenLess
  <2>9. ASSUME NEW f \in Flows, NEW g \in Flows, Switch(f, g) PROVE Balanced'
    BY <2>1, <2>9 DEF Switch
  <2>10. CASE UNCHANGED vars
    BY <2>1, <2>10 DEF vars
  <2>11. QED
    BY <2>1, <2>2, <2>3, <2>4, <2>6, <2>7, <2>8, <2>9, <2>10
       DEF Next, Read, ReadArg, Write, Leave, Absorb
<1>3. QED
  BY <1>1, <1>2, TypeCorrect, PTL DEF Spec, Balanced

\* If no block is ever suspended, the open contexts are the running flow's.
THEOREM ContextsAreOwn == Spec => []OwnContexts
<1>1. Init => OwnContexts
  BY EmptySeq DEF Init, OwnContexts, Depth
<1>2. TypeOK /\ OwnContexts /\ [Next]_vars => OwnContexts'
  <2> SUFFICES ASSUME TypeOK, OwnContexts, [Next]_vars, ~SuspendInTransact
               PROVE  /\ Depth' = Len(blocks'[running'])
                      /\ \A g \in Flows \ {running'} : blocks'[g] = <<>>
    BY DEF OwnContexts
  <2>0. /\ Depth = Len(blocks[running]) /\ Depth \in Nat
        /\ \A g \in Flows \ {running} : blocks[g] = <<>>
        /\ running \in Flows /\ txnStack \in Seq(Ctx)
        /\ \A g \in Flows : blocks[g] \in Seq(1..MaxAttempts)
    BY DEF OwnContexts, TypeOK, Depth
  <2>1. CASE Len(txnStack') = Len(txnStack) /\ UNCHANGED <<blocks, running>>
    BY <2>0, <2>1 DEF Depth
  <2>2. ASSUME NEW f \in Flows, NEW r \in Refs, Read(f, r)
        PROVE  Len(txnStack') = Len(txnStack)
    BY <2>0, <2>2 DEF Read
  <2>3. ASSUME NEW f \in Flows, NEW r \in Refs, NEW v \in Vals, Write(f, r, v)
        PROVE  Len(txnStack') = Len(txnStack)
    BY <2>0, <2>3 DEF Write
  <2>4. ASSUME NEW f \in Flows, Begin(f)
        PROVE  /\ Depth' = Len(blocks'[running'])
               /\ \A g \in Flows \ {running'} : blocks'[g] = <<>>
    <3>1. f = running /\ running' = running
      BY <2>4 DEF Begin, Evaluating
    <3>2. Depth' = Depth + 1
      BY <2>0, <2>4 DEF Begin, Depth
    <3>3. blocks' = [blocks EXCEPT ![running] = Append(@, 1)]
      BY <2>4, <3>1 DEF Begin
    <3>4. Len(blocks'[running]) = Len(blocks[running]) + 1
      BY <2>0, <3>3 DEF TypeOK
    <3>5. QED
      BY <2>0, <3>1, <3>2, <3>3, <3>4 DEF TypeOK
  <2>5. ASSUME NEW f \in Flows, InBlock(f), UNCHANGED running,
               \/ /\ Len(txnStack') = Len(txnStack)
                  /\ \E n : blocks' = [blocks EXCEPT ![f][Len(blocks[f])] = n]
               \/ /\ Len(txnStack') = Len(txnStack) - 1
                  /\ blocks' = [blocks EXCEPT ![f] = Pop(@)]
        PROVE  /\ Depth' = Len(blocks'[running'])
               /\ \A g \in Flows \ {running'} : blocks'[g] = <<>>
    <3>1. f = running /\ Len(blocks[f]) > 0
      BY <2>0, <2>5 DEF InBlock
    <3>2. CASE /\ Len(txnStack') = Len(txnStack)
               /\ \E n : blocks' = [blocks EXCEPT ![f][Len(blocks[f])] = n]
      BY <2>0, <2>5, <3>1, <3>2 DEF TypeOK, Depth
    <3>3. CASE /\ Len(txnStack') = Len(txnStack) - 1
               /\ blocks' = [blocks EXCEPT ![f] = Pop(@)]
      <4>1. Len(Pop(blocks[f])) = Len(blocks[f]) - 1
        BY <2>0, <3>1, PopSeq
      <4>2. QED
        BY <2>0, <2>5, <3>1, <3>3, <4>1 DEF TypeOK, Depth
    <3>4. QED
      BY <2>5, <3>2, <3>3
  <2>6. ASSUME NEW f \in Flows, InBlock(f), AttemptAgain(f)
        PROVE  \/ /\ Len(txnStack') = Len(txnStack)
                  /\ \E n : blocks' = [blocks EXCEPT ![f][Len(blocks[f])] = n]
               \/ /\ Len(txnStack') = Len(txnStack) - 1
                  /\ blocks' = [blocks EXCEPT ![f] = Pop(@)]
    <3>1. Len(txnStack) > 0
      BY <2>0, <2>6 DEF InBlock, Depth
    <3> DEFINE n == Len(blocks[f])
    <3>2. CASE blocks[f][n] < MaxAttempts
      <4>1. /\ txnStack' = [txnStack EXCEPT ![Depth] = EmptyCtx]
            /\ blocks' = [blocks EXCEPT ![f][n] = blocks[f][n] + 1]
        BY <2>6, <3>2 DEF AttemptAgain
      <4>2. Len(txnStack') = Len(txnStack)
        BY <2>0, <4>1
      <4>3. QED
        BY <4>1, <4>2
    <3>3. CASE ~(blocks[f][n] < MaxAttempts)
      <4>1. txnStack' = Pop(txnStack) /\ blocks' = [blocks EXCEPT ![f] = Pop(@)]
        BY <2>6, <3>3 DEF AttemptAgain
      <4>2. Len(txnStack') = Len(txnStack) - 1
        BY <2>0, <3>1, <4>1, PopSeq
      <4>3. QED
        BY <4>1, <4>2
    <3>4. QED
      BY <3>2, <3>3
  <2>7. ASSUME NEW f \in Flows, EndBody(f)
        PROVE  /\ Depth' = Len(blocks'[running'])
               /\ \A g \in Flows \ {running'} : blocks'[g] = <<>>
    <3> DEFINE inner == txnStack[Depth]
    <3>1. CASE /\ Depth > 1
               /\ txnStack' = [Pop(txnStack) EXCEPT ![Depth - 1] = Merge(@, inner)]
               /\ blocks' = [blocks EXCEPT ![f] = Pop(@)]
      <4>1. Len(Pop(txnStack)) = Len(txnStack) - 1 /\ Pop(txnStack) \in Seq(Ctx)
        BY <2>0, <3>1, PopSeq DEF Depth
      <4>2. Len(txnStack') = Len(txnStack) - 1
        BY <3>1, <4>1
      <4>3. QED
        BY <2>5, <2>7, <3>1, <4>2 DEF EndBody
    <3>2. CASE AttemptAgain(f)
      BY <2>5, <2>6, <2>7, <3>2 DEF EndBody
    <3>3. CASE Depth = 1 /\ txnStack' = <<>> /\ blocks' = [blocks EXCEPT ![f] = Pop(@)]
      <4>1. Len(txnStack') = Len(txnStack) - 1
        BY <2>0, <3>3, EmptySeq DEF Depth
      <4>2. QED
        BY <2>5, <2>7, <3>3, <4>1 DEF EndBody
    <3>4. QED
      BY <2>7, <3>1, <3>2, <3>3 DEF EndBody, CommitTop
  <2>8. ASSUME NEW f \in Flows, Retry(f)
        PROVE  /\ Depth' = Len(blocks'[running'])
               /\ \A g \in Flows \ {running'} : blocks'[g] = <<>>
    BY <2>5, <2>6, <2>8 DEF Retry
  <2>9. ASSUME NEW f \in Flows, Rollback(f)
        PROVE  /\ Depth' = Len(blocks'[running'])
               /\ \A g \in Flows \ {running'} : blocks'[g] = <<>>
    <3>1. Len(txnStack) > 0
      BY <2>0, <2>9 DEF Rollback, InBlock, Depth
    <3>2. Len(txnStack') = Len(txnStack) - 1
      BY <2>0, <2>9, <3>1, PopSeq DEF Rollback
    <3>3. QED
      BY <2>5, <2>9, <3>2 DEF Rollback
  <2>10. ASSUME NEW f \in Flows, NEW g \in Flows, Switch(f, g)
         PROVE  /\ Depth' = Len(blocks'[running'])
                /\ \A h \in Flows \ {running'} : blocks'[h] = <<>>
    <3>1. /\ f = running /\ g # f /\ running' = g /\ blocks[f] = <<>>
          /\ UNCHANGED <<txnStack, blocks>>
      BY <2>10 DEF Switch, Evaluating
    <3>2. Depth = 0 /\ blocks[g] = <<>>
      BY <2>0, <3>1, EmptySeq
    <3>3. QED
      BY <2>0, <3>1, <3>2, EmptySeq DEF Depth
  <2>11. CASE UNCHANGED vars
    BY <2>1, <2>11 DEF vars
  <2>12. QED
    BY <2>1, <2>2, <2>3, <2>4, <2>7, <2>8, <2>9, <2>10, <2>11
       DEF Next, Read, ReadArg, Write, Leave, Absorb
<1>3. QED
  BY <1>1, <1>2, TypeCorrect, PTL DEF Spec

\* In a program that never suspends inside a block, code outside every block
\* acts on the cells themselves.
THEOREM OutsideDirect ==
  ASSUME ~SuspendInTransact PROVE Spec => []OutsideIsDirect
<1>1. TypeOK /\ OwnContexts => OutsideIsDirect
  BY EmptySeq DEF TypeOK, OwnContexts, OutsideIsDirect, Evaluating, Depth
<1>2. QED
  BY <1>1, TypeCorrect, ContextsAreOwn, PTL

-----------------------------------------------------------------------------
(* The contexts implement savepoints.                                      *)

\* A lookup is decided by the innermost context, or one level further out.
LEMMA LookupStep ==
  \A n \in Nat \ {0}, r \in Refs :
     Lookup(n, r) = IF txnStack[n].writes[r] # None
                    THEN txnStack[n].writes[r] ELSE Lookup(n - 1, r)
<1> SUFFICES ASSUME NEW n \in Nat \ {0}, NEW r \in Refs
             PROVE  Lookup(n, r) = IF txnStack[n].writes[r] # None
                                   THEN txnStack[n].writes[r] ELSE Lookup(n - 1, r)
  OBVIOUS
<1>1. CASE txnStack[n].writes[r] # None
  <2>1. n \in Holders(n, r) /\ Holders(n, r) \subseteq 1..n
    BY <1>1 DEF Holders
  <2>2. /\ Innermost(Holders(n, r)) \in Holders(n, r)
        /\ n <= Innermost(Holders(n, r))
    BY <2>1, InnermostExists
  <2>3. Innermost(Holders(n, r)) = n
    BY <2>1, <2>2
  <2>4. QED
    BY <1>1, <2>1, <2>3 DEF Lookup
<1>2. CASE txnStack[n].writes[r] = None
  <2>1. Holders(n, r) = Holders(n - 1, r)
    <3>1. ASSUME NEW i \in 1..n, txnStack[i].writes[r] # None
          PROVE  i \in 1..(n - 1)
      BY <1>2, <3>1
    <3>2. 1..(n - 1) \subseteq 1..n
      OBVIOUS
    <3>3. QED
      BY <3>1, <3>2 DEF Holders
  <2>2. QED
    BY <1>2, <2>1 DEF Lookup
<1>3. QED
  BY <1>1, <1>2

LEMMA LookupStepNext ==
  \A n \in Nat \ {0}, r \in Refs :
     Lookup(n, r)' = IF txnStack'[n].writes[r] # None
                     THEN txnStack'[n].writes[r] ELSE Lookup(n - 1, r)'
<1>1. (\A n \in Nat \ {0}, r \in Refs :
         Lookup(n, r) = IF txnStack[n].writes[r] # None
                        THEN txnStack[n].writes[r] ELSE Lookup(n - 1, r))'
  BY LookupStep, PTL
<1>2. QED
  BY <1>1

\* Outside all contexts a lookup returns the committed value.
LEMMA LookupBase == \A r \in Refs : Lookup(0, r) = value[r]
BY DEF Lookup, Holders

\* What the contexts up to n and the cell keep, the lookup below n keeps.
LEMMA LookupSame ==
  ASSUME NEW n \in Nat, NEW r \in Refs, value'[r] = value[r],
         \A i \in 1..n : txnStack'[i].writes[r] = txnStack[i].writes[r]
  PROVE  Lookup(n, r)' = Lookup(n, r)
<1>1. Holders(n, r)' = Holders(n, r) /\ Holders(n, r) \subseteq 1..n
  BY DEF Holders
<1>2. CASE Holders(n, r) = {}
  BY <1>1, <1>2 DEF Lookup
<1>3. CASE Holders(n, r) # {}
  <2>1. Innermost(Holders(n, r)) \in 1..n
    BY <1>1, <1>3, InnermostExists
  <2>2. QED
    BY <1>1, <1>3, <2>1 DEF Lookup
<1>4. QED
  BY <1>2, <1>3

\* The snapshots form a stack of stores, one more than there are contexts.
LEMMA SnapshotsStack ==
  TypeOK => /\ Depth \in Nat
            /\ Snapshots \in Seq([Refs -> Vals])
            /\ Len(Snapshots) = Depth + 1
            /\ \A i \in 1..(Depth + 1) :
                  Snapshots[i] = [r \in Refs |-> Lookup(i - 1, r)]
<1> SUFFICES ASSUME TypeOK
             PROVE  /\ Depth \in Nat
                    /\ Snapshots \in Seq([Refs -> Vals])
                    /\ Len(Snapshots) = Depth + 1
                    /\ \A i \in 1..(Depth + 1) :
                          Snapshots[i] = [r \in Refs |-> Lookup(i - 1, r)]
  OBVIOUS
<1>1. Depth \in Nat
  BY DEF TypeOK, Depth
<1>2. ASSUME NEW i \in 1..(Depth + 1)
      PROVE  [r \in Refs |-> Lookup(i - 1, r)] \in [Refs -> Vals]
  <2>1. i - 1 \in 0..Depth
    BY <1>1
  <2>2. QED
    BY <2>1, LookupType
<1>3. Snapshots \in [1..(Depth + 1) -> [Refs -> Vals]]
  BY <1>2 DEF Snapshots
<1>4. Snapshots \in Seq([Refs -> Vals])
  BY <1>1, <1>3, SeqDef
<1>5. Len(Snapshots) = Depth + 1
  BY <1>1, <1>3, <1>4, LenProperties
<1>6. QED
  BY <1>1, <1>4, <1>5 DEF Snapshots

\* To know the next snapshots it is enough to know every lookup.
LEMMA SnapshotsNext ==
  ASSUME TypeOK', NEW X \in Seq([Refs -> Vals]), Len(X) = Depth' + 1,
         \A i \in 1..(Depth' + 1), r \in Refs : X[i][r] = Lookup(i - 1, r)'
  PROVE  Snapshots' = X
<1>1. /\ Depth' \in Nat
      /\ Snapshots' \in Seq([Refs -> Vals])
      /\ Len(Snapshots') = Depth' + 1
      /\ \A i \in 1..(Depth' + 1) :
            Snapshots'[i] = [r \in Refs |-> Lookup(i - 1, r)']
  <2>1. (TypeOK => /\ Depth \in Nat
                   /\ Snapshots \in Seq([Refs -> Vals])
                   /\ Len(Snapshots) = Depth + 1
                   /\ \A i \in 1..(Depth + 1) :
                         Snapshots[i] = [r \in Refs |-> Lookup(i - 1, r)])'
    BY SnapshotsStack, PTL
  <2>2. QED
    BY <2>1
<1>2. ASSUME NEW i \in 1..(Depth' + 1) PROVE Snapshots'[i] = X[i]
  <2>1. X[i] \in [Refs -> Vals]
    BY <1>1, ElementOfSeq
  <2>2. QED
    BY <1>1, <2>1
<1>3. QED
  BY <1>1, <1>2, SeqEqual

\* A step that keeps the depth and every lookup keeps the snapshots.
LEMMA SnapshotsSame ==
  ASSUME TypeOK, TypeOK', Depth' = Depth,
         \A n \in 0..Depth, r \in Refs : Lookup(n, r)' = Lookup(n, r)
  PROVE  Snapshots' = Snapshots
<1>1. \A i \in 1..(Depth + 1) : i - 1 \in 0..Depth
  BY SnapshotsStack
<1>2. QED
  BY <1>1, SnapshotsStack, SnapshotsNext

\* Popping the top context is the abstract rollback.
LEMMA PopIsRollback ==
  ASSUME TypeOK, TypeOK', Depth > 0, txnStack' = Pop(txnStack),
         UNCHANGED value, ret' = None
  PROVE  Store!Rollback
<1>1. /\ Depth \in Nat /\ Depth' = Depth - 1 /\ Depth' \in Nat
      /\ \A i \in 1..(Depth - 1) : txnStack'[i] = txnStack[i]
  BY PopSeq DEF TypeOK, Depth
<1>2. ASSUME NEW n \in 0..(Depth - 1), NEW r \in Refs
      PROVE  Lookup(n, r)' = Lookup(n, r)
  <2>1. n \in Nat /\ 1..n \subseteq 1..(Depth - 1)
    BY <1>1
  <2>2. QED
    BY <1>1, <2>1, LookupSame
<1> DEFINE X == [i \in 1..Depth |-> Snapshots[i]]
<1>3. X \in Seq([Refs -> Vals]) /\ Len(X) = Depth
  <2>1. X \in [1..Depth -> [Refs -> Vals]]
    BY <1>1, SnapshotsStack, ElementOfSeq
  <2>2. X \in Seq([Refs -> Vals])
    BY <1>1, <2>1, SeqDef
  <2>3. QED
    BY <1>1, <2>1, <2>2, LenProperties
<1>4. ASSUME NEW i \in 1..(Depth' + 1), NEW r \in Refs
      PROVE  X[i][r] = Lookup(i - 1, r)'
  <2>1. i \in 1..Depth /\ i - 1 \in 0..(Depth - 1) /\ i \in 1..(Depth + 1)
    BY <1>1
  <2>2. X[i][r] = Lookup(i - 1, r)
    BY <2>1, SnapshotsStack
  <2>3. QED
    BY <1>2, <2>1, <2>2
<1>5. Snapshots' = X
  <2> HIDE DEF X
  <2>1. QED
    BY <1>1, <1>3, <1>4, SnapshotsNext
<1>6. Store!Depth = Depth + 1 /\ Store!Depth - 1 = Depth
  BY <1>1, SnapshotsStack DEF Store!Depth
<1>7. QED
  BY <1>1, <1>5, <1>6 DEF Store!Rollback, Store!Below

\* Emptying the top context is the abstract restart.
LEMMA EmptyIsRestart ==
  ASSUME TypeOK, TypeOK', Depth > 0,
         txnStack' = [txnStack EXCEPT ![Depth] = EmptyCtx],
         UNCHANGED value, ret' = None
  PROVE  Store!Restart
<1>1. /\ Depth \in Nat /\ Depth' = Depth
      /\ \A i \in 1..(Depth - 1) : txnStack'[i] = txnStack[i]
      /\ txnStack'[Depth] = EmptyCtx
  BY DEF TypeOK, Depth
<1>2. ASSUME NEW n \in 0..(Depth - 1), NEW r \in Refs
      PROVE  Lookup(n, r)' = Lookup(n, r)
  <2>1. n \in Nat /\ 1..n \subseteq 1..(Depth - 1)
    BY <1>1
  <2>2. QED
    BY <1>1, <2>1, LookupSame
<1>3. ASSUME NEW r \in Refs, NEW n \in Nat, n = Depth
      PROVE  Lookup(n, r)' = Lookup(n - 1, r)
  <2>1. n \in Nat \ {0} /\ n - 1 \in 0..(Depth - 1)
    BY <1>1, <1>3
  <2>2. txnStack'[n].writes[r] = None
    BY <1>1, <1>3 DEF EmptyCtx
  <2>3. Lookup(n, r)' = Lookup(n - 1, r)'
    BY <2>1, <2>2, LookupStepNext
  <2>4. QED
    BY <1>2, <2>1, <2>3
<1> DEFINE X == [Snapshots EXCEPT ![Depth + 1] = Snapshots[Depth]]
<1>4. X \in Seq([Refs -> Vals]) /\ Len(X) = Depth + 1
  <2>1. Depth \in 1..Len(Snapshots) /\ Depth + 1 \in 1..Len(Snapshots)
    BY <1>1, SnapshotsStack
  <2>2. QED
    BY <2>1, SnapshotsStack, ElementOfSeq, ExceptSeq
<1>5. ASSUME NEW i \in 1..(Depth' + 1), NEW r \in Refs
      PROVE  X[i][r] = Lookup(i - 1, r)'
  <2>1. i \in 1..(Depth + 1) /\ Depth \in 1..(Depth + 1)
    BY <1>1
  <2>2. CASE i = Depth + 1
    <3>1. X[i] = Snapshots[Depth]
      BY <2>1, <2>2, SnapshotsStack
    <3>2. Snapshots[Depth] = [q \in Refs |-> Lookup(Depth - 1, q)]
      BY <2>1, SnapshotsStack
    <3>3. i - 1 \in Nat /\ i - 1 = Depth
      BY <1>1, <2>2
    <3>4. Lookup(i - 1, r)' = Lookup(Depth - 1, r)
      BY <1>3, <3>3
    <3>5. QED
      BY <3>1, <3>2, <3>4
  <2>3. CASE i # Depth + 1
    <3>1. i - 1 \in 0..(Depth - 1)
      BY <1>1, <2>1, <2>3
    <3>2. X[i][r] = Lookup(i - 1, r)
      BY <2>1, <2>3, SnapshotsStack
    <3>3. QED
      BY <1>2, <3>1, <3>2
  <2>4. QED
    BY <2>2, <2>3
<1>6. Snapshots' = X
  <2> HIDE DEF X
  <2>1. QED
    BY <1>1, <1>4, <1>5, SnapshotsNext
<1>7. Store!Depth = Depth + 1 /\ Store!Depth - 1 = Depth
  BY <1>1, SnapshotsStack DEF Store!Depth
<1>8. /\ Store!Depth > 1
      /\ Snapshots' = [Snapshots EXCEPT ![Store!Depth] = Snapshots[Store!Depth - 1]]
  <2>1. Store!Depth > 1
    BY <1>1, <1>7
  <2>2. Snapshots' = [Snapshots EXCEPT ![Store!Depth] = Snapshots[Store!Depth - 1]]
    BY <1>6, <1>7
  <2>3. QED
    BY <2>1, <2>2
<1>9. QED
  BY <1>8 DEF Store!Restart

\* So another attempt, or giving up, is a restart or a rollback.
LEMMA AttemptAgainStore ==
  ASSUME TypeOK, TypeOK', NEW f \in Flows, AttemptAgain(f), Depth > 0,
         UNCHANGED value, ret' = None
  PROVE  Store!Restart \/ Store!Rollback
BY PopIsRollback, EmptyIsRestart DEF AttemptAgain

\* A merge into the parent context, or the application of the outermost one,
\* puts the top view in the place of the one below.
LEMMA CommitStore ==
  ASSUME TypeOK, TypeOK', Depth > 0, Depth' = Depth - 1, ret' = None,
         \A n \in 0..(Depth - 2), r \in Refs : Lookup(n, r)' = Lookup(n, r),
         \A n \in Nat, r \in Refs :
            n = Depth - 1 => Lookup(n, r)' = Lookup(Depth, r)
  PROVE  Store!Commit
<1>1. Depth \in Nat /\ Depth' \in Nat
  BY SnapshotsStack
<1> DEFINE B == [i \in 1..Depth |-> Snapshots[i]]
<1> DEFINE X == [B EXCEPT ![Depth] = Snapshots[Depth + 1]]
<1>2. B \in Seq([Refs -> Vals]) /\ Len(B) = Depth
  <2>1. B \in [1..Depth -> [Refs -> Vals]]
    BY <1>1, SnapshotsStack, ElementOfSeq
  <2>2. B \in Seq([Refs -> Vals])
    BY <1>1, <2>1, SeqDef
  <2>3. QED
    BY <1>1, <2>1, <2>2, LenProperties
<1>3. X \in Seq([Refs -> Vals]) /\ Len(X) = Depth
  <2>1. Depth \in 1..Len(B) /\ Snapshots[Depth + 1] \in [Refs -> Vals]
    BY <1>1, <1>2, SnapshotsStack, ElementOfSeq
  <2> HIDE DEF B
  <2>2. QED
    BY <1>2, <2>1, ExceptSeq
<1>4. ASSUME NEW i \in 1..(Depth' + 1), NEW r \in Refs
      PROVE  X[i][r] = Lookup(i - 1, r)'
  <2>1. i \in 1..Depth /\ i \in 1..(Depth + 1) /\ Depth + 1 \in 1..(Depth + 1)
    BY <1>1
  <2>2. CASE i = Depth
    <3>1. X[i] = Snapshots[Depth + 1] /\ Depth + 1 - 1 = Depth
      BY <1>1, <2>1, <2>2
    <3>2. Snapshots[Depth + 1] = [q \in Refs |-> Lookup(Depth + 1 - 1, q)]
      BY <2>1, SnapshotsStack
    <3>3. i - 1 \in Nat /\ i - 1 = Depth - 1
      BY <1>1, <2>2
    <3>4. QED
      BY <3>1, <3>2, <3>3
  <2>3. CASE i # Depth
    <3>1. i - 1 \in 0..(Depth - 2)
      BY <1>1, <2>1, <2>3
    <3>2. X[i][r] = Lookup(i - 1, r)
      BY <2>1, <2>3, SnapshotsStack
    <3>3. QED
      BY <3>1, <3>2
  <2>4. QED
    BY <2>2, <2>3
<1>5. Snapshots' = X
  <2> HIDE DEF X
  <2>1. QED
    BY <1>1, <1>3, <1>4, SnapshotsNext
<1>6. Store!Depth = Depth + 1 /\ Store!Depth - 1 = Depth
  BY <1>1, SnapshotsStack DEF Store!Depth
<1>7. QED
  BY <1>1, <1>5, <1>6 DEF Store!Commit, Store!Below

\* A read returns what the top view holds and changes no view.
LEMMA ReadStore ==
  ASSUME TypeOK, TypeOK', NEW f \in Flows, NEW r \in Refs, Read(f, r)
  PROVE  Store!Get(r)
<1>1. Depth \in Nat /\ Depth + 1 \in 1..(Depth + 1)
  BY SnapshotsStack
<1>2. /\ UNCHANGED value /\ Len(txnStack') = Len(txnStack)
      /\ \A i \in 1..Len(txnStack) : txnStack'[i].writes = txnStack[i].writes
  <2>1. CASE txnStack' = txnStack
    BY <2>1 DEF Read
  <2>2. CASE txnStack' = [txnStack EXCEPT ![Depth].reads[r] = version[r]]
    <3>1. Len(txnStack') = Len(txnStack)
      BY <2>2 DEF TypeOK
    <3>2. ASSUME NEW i \in 1..Len(txnStack)
          PROVE  txnStack'[i].writes = txnStack[i].writes
      <4>1. txnStack[i] \in Ctx
        BY ElementOfSeq DEF TypeOK
      <4>2. QED
        BY <2>2, <4>1 DEF TypeOK, Ctx
    <3>3. QED
      BY <3>1, <3>2 DEF Read
  <2>3. QED
    BY <2>1, <2>2 DEF Read
<1>3. ASSUME NEW n \in 0..Depth, NEW q \in Refs PROVE Lookup(n, q)' = Lookup(n, q)
  <2>1. n \in Nat /\ 1..n \subseteq 1..Len(txnStack)
    BY <1>1 DEF Depth
  <2>2. QED
    BY <1>2, <2>1, LookupSame
<1>4. Snapshots' = Snapshots
  BY <1>2, <1>3, SnapshotsSame DEF Depth
<1>5. Snapshots[Depth + 1] = [q \in Refs |-> Lookup(Depth + 1 - 1, q)]
  BY <1>1, SnapshotsStack
<1>6. Depth + 1 - 1 = Depth
  BY <1>1
<1>7. ret' = Snapshots[Depth + 1][r]
  BY <1>5, <1>6 DEF Read
<1>8. Store!Depth = Depth + 1
  BY SnapshotsStack DEF Store!Depth
<1>9. QED
  BY <1>4, <1>7, <1>8 DEF Store!Get

\* A write changes the top view at the written cell and nothing else.
LEMMA WriteStore ==
  ASSUME TypeOK, TypeOK', NEW f \in Flows, NEW r \in Refs, NEW v \in Vals,
         Write(f, r, v)
  PROVE  Store!Put(r, v)
<1>1. Depth \in Nat /\ Depth' = Depth
  <2>1. CASE Depth > 0
    BY <2>1 DEF Write, TypeOK, Depth
  <2>2. CASE ~(Depth > 0)
    BY <2>2 DEF Write, TypeOK, Depth
  <2>3. QED
    BY <2>1, <2>2
<1>2. ASSUME NEW n \in 0..Depth, NEW q \in Refs
      PROVE  Lookup(n, q)' = IF n = Depth /\ q = r THEN v ELSE Lookup(n, q)
  <2>1. CASE Depth > 0
    <3>1. txnStack' = [txnStack EXCEPT ![Depth].writes[r] = v] /\ UNCHANGED value
      BY <2>1 DEF Write
    <3>2. ASSUME NEW i \in 1..Depth
          PROVE  txnStack'[i].writes[q] = IF i = Depth /\ q = r
                                          THEN v ELSE txnStack[i].writes[q]
      <4>1. txnStack[i] \in Ctx
        BY ElementOfSeq DEF TypeOK, Depth
      <4>2. DOMAIN txnStack = 1..Depth
        BY DEF TypeOK, Depth
      <4>3. DOMAIN txnStack[i].writes = Refs
        BY <4>1 DEF Ctx
      <4>4. CASE i = Depth
        <5>1. txnStack'[i] = [txnStack[i] EXCEPT !.writes[r] = v]
          BY <3>1, <4>2, <4>4
        <5>2. txnStack'[i].writes = [txnStack[i].writes EXCEPT ![r] = v]
          BY <4>1, <5>1 DEF Ctx
        <5>3. QED
          BY <4>3, <4>4, <5>2
      <4>5. CASE i # Depth
        BY <3>1, <4>2, <4>5
      <4>6. QED
        BY <4>4, <4>5
    <3>3. CASE n = Depth /\ q = r
      <4>1. n \in Nat \ {0} /\ n \in 1..Depth
        BY <1>1, <2>1, <3>3
      <4>2. txnStack'[n].writes[q] = v /\ v # None
        BY <3>2, <3>3, <4>1
      <4>3. QED
        BY <3>3, <4>1, <4>2, LookupStepNext
    <3>4. CASE ~(n = Depth /\ q = r)
      <4>1. n \in Nat /\ \A i \in 1..n : i \in 1..Depth /\ (i = Depth => n = Depth)
        BY <1>1
      <4>2. \A i \in 1..n : txnStack'[i].writes[q] = txnStack[i].writes[q]
        BY <3>2, <3>4, <4>1
      <4>3. Lookup(n, q)' = Lookup(n, q)
        BY <3>1, <4>1, <4>2, LookupSame
      <4>4. QED
        BY <3>4, <4>3
    <3>5. QED
      BY <3>3, <3>4
  <2>2. CASE ~(Depth > 0)
    <3>1. n = 0 /\ Depth = 0
      BY <1>1, <2>2
    <3>2. value' = [value EXCEPT ![r] = v]
      BY <2>2 DEF Write
    <3>3. Lookup(n, q) = value[q] /\ Lookup(n, q)' = value'[q]
      BY <3>1 DEF Lookup, Holders
    <3>4. QED
      BY <3>1, <3>2, <3>3 DEF TypeOK
  <2>3. QED
    BY <2>1, <2>2
<1> DEFINE X == [Snapshots EXCEPT ![Depth + 1][r] = v]
<1>3. Snapshots[Depth + 1] \in [Refs -> Vals] /\ Depth + 1 \in 1..Len(Snapshots)
  BY <1>1, SnapshotsStack, ElementOfSeq
<1>4. [Snapshots[Depth + 1] EXCEPT ![r] = v] \in [Refs -> Vals]
  BY <1>3
<1>5. X \in Seq([Refs -> Vals]) /\ Len(X) = Depth + 1
  BY <1>3, <1>4, SnapshotsStack, ExceptSeq
<1>6. ASSUME NEW i \in 1..(Depth' + 1), NEW q \in Refs
      PROVE  X[i][q] = Lookup(i - 1, q)'
  <2>1. i \in 1..(Depth + 1) /\ i - 1 \in 0..Depth
    BY <1>1
  <2>2. Snapshots[i] = [p \in Refs |-> Lookup(i - 1, p)]
    BY <2>1, SnapshotsStack
  <2>3. CASE i = Depth + 1
    <3>1. X[i] = [Snapshots[Depth + 1] EXCEPT ![r] = v]
      BY <1>3, <2>3, SnapshotsStack
    <3>2. X[i][q] = IF q = r THEN v ELSE Lookup(i - 1, q)
      BY <1>3, <2>2, <2>3, <3>1
    <3>3. i - 1 = Depth
      BY <1>1, <2>3
    <3>4. QED
      BY <1>2, <2>1, <3>2, <3>3
  <2>4. CASE i # Depth + 1
    <3>1. X[i] = Snapshots[i]
      BY <2>1, <2>4, SnapshotsStack
    <3>2. i - 1 # Depth
      BY <1>1, <2>1, <2>4
    <3>3. Lookup(i - 1, q)' = Lookup(i - 1, q)
      BY <1>2, <2>1, <3>2
    <3>4. QED
      BY <2>2, <3>1, <3>3
  <2>5. QED
    BY <2>3, <2>4
<1>7. Snapshots' = X
  <2> HIDE DEF X
  <2>1. QED
    BY <1>1, <1>5, <1>6, SnapshotsNext
<1>8. Store!Depth = Depth + 1
  BY SnapshotsStack DEF Store!Depth
<1>9. QED
  BY <1>7, <1>8 DEF Store!Put, Write

\* A new context is a copy of the top view.
LEMMA BeginStore ==
  ASSUME TypeOK, TypeOK', NEW f \in Flows, Begin(f)
  PROVE  Store!Open
<1>1. /\ Depth \in Nat /\ Depth' = Depth + 1 /\ Depth' \in Nat
      /\ \A i \in 1..Depth : txnStack'[i] = txnStack[i]
      /\ txnStack'[Depth + 1] = EmptyCtx /\ UNCHANGED value
  BY DEF Begin, TypeOK, Depth
<1>2. ASSUME NEW n \in 0..Depth, NEW r \in Refs PROVE Lookup(n, r)' = Lookup(n, r)
  <2>1. n \in Nat /\ 1..n \subseteq 1..Depth
    BY <1>1
  <2>2. QED
    BY <1>1, <2>1, LookupSame
<1>3. ASSUME NEW n \in Nat, n = Depth + 1, NEW r \in Refs
      PROVE  Lookup(n, r)' = Lookup(n - 1, r)
  <2>1. n \in Nat \ {0} /\ n - 1 \in 0..Depth
    BY <1>1, <1>3
  <2>2. txnStack'[n].writes[r] = None
    BY <1>1, <1>3 DEF EmptyCtx
  <2>3. Lookup(n, r)' = Lookup(n - 1, r)'
    BY <2>1, <2>2, LookupStepNext
  <2>4. QED
    BY <1>2, <2>1, <2>3
<1> DEFINE X == Append(Snapshots, Snapshots[Depth + 1])
<1>4. Snapshots[Depth + 1] \in [Refs -> Vals] /\ Depth + 1 \in 1..(Depth + 1)
  BY <1>1, SnapshotsStack, ElementOfSeq
<1>5. /\ X \in Seq([Refs -> Vals]) /\ Len(X) = Depth + 2
      /\ \A i \in 1..(Depth + 1) : X[i] = Snapshots[i]
      /\ X[Depth + 2] = Snapshots[Depth + 1]
  BY <1>1, <1>4, SnapshotsStack
<1>6. ASSUME NEW i \in 1..(Depth' + 1), NEW r \in Refs
      PROVE  X[i][r] = Lookup(i - 1, r)'
  <2> HIDE DEF X
  <2>1. CASE i = Depth + 2
    <3>1. i - 1 \in Nat /\ i - 1 = Depth + 1 /\ Depth + 1 - 1 = i - 1 - 1
      BY <1>1, <2>1
    <3>2. X[i] = [q \in Refs |-> Lookup(Depth + 1 - 1, q)]
      BY <1>4, <1>5, <2>1, SnapshotsStack
    <3>3. Lookup(i - 1, r)' = Lookup(i - 1 - 1, r)
      BY <1>3, <3>1
    <3>4. X[i][r] = Lookup(Depth + 1 - 1, r)
      BY <3>2
    <3>5. QED
      BY <3>1, <3>3, <3>4
  <2>2. CASE i # Depth + 2
    <3>1. i \in 1..(Depth + 1) /\ i - 1 \in 0..Depth
      BY <1>1, <2>2
    <3>2. X[i] = [q \in Refs |-> Lookup(i - 1, q)]
      BY <1>5, <3>1, SnapshotsStack
    <3>3. QED
      BY <1>2, <3>1, <3>2
  <2>3. QED
    BY <2>1, <2>2
<1>7. Snapshots' = X
  <2> HIDE DEF X
  <2>1. Len(X) = Depth' + 1
    BY <1>1, <1>5
  <2>2. QED
    BY <1>1, <1>5, <1>6, <2>1, SnapshotsNext
<1>8. Store!Depth = Depth + 1
  BY SnapshotsStack DEF Store!Depth
<1>9. QED
  BY <1>7, <1>8 DEF Store!Open, Begin

\* Without contexts, popping and emptying the top are nothing.
LEMMA NoContexts ==
  ASSUME TypeOK, Depth = 0
  PROVE  Pop(txnStack) = txnStack /\ [txnStack EXCEPT ![Depth] = EmptyCtx] = txnStack
<1>1. txnStack = <<>>
  BY EmptySeq DEF TypeOK, Depth
<1>2. [txnStack EXCEPT ![0] = EmptyCtx] = txnStack
  BY <1>1
<1>3. Pop(txnStack) = txnStack
  BY <1>1 DEF Pop
<1>4. QED
  BY <1>2, <1>3

\* A step that keeps the contexts and the cells is invisible to the store.
LEMMA NothingMoves ==
  ASSUME TypeOK, TypeOK', UNCHANGED <<txnStack, value>>, ret' = None
  PROVE  Store!Forget
<1>1. ASSUME NEW n \in 0..Depth, NEW r \in Refs PROVE Lookup(n, r)' = Lookup(n, r)
  <2>1. n \in Nat
    BY SnapshotsStack
  <2>2. QED
    BY <2>1, LookupSame
<1>2. Depth' = Depth
  BY DEF Depth
<1>3. Snapshots' = Snapshots
  BY <1>1, <1>2, SnapshotsSame
<1>4. QED
  BY <1>3 DEF Store!Forget

\* The merge of the top context into its parent is the abstract commit.
LEMMA MergeStore ==
  ASSUME TypeOK, TypeOK', Depth > 1, UNCHANGED value, ret' = None,
         txnStack' = [Pop(txnStack) EXCEPT ![Depth - 1] = Merge(@, txnStack[Depth])]
  PROVE  Store!Commit
<1>1. /\ Depth \in Nat /\ Depth - 1 \in 1..Len(Pop(txnStack))
      /\ Pop(txnStack) \in Seq(Ctx) /\ Len(Pop(txnStack)) = Depth - 1
      /\ \A i \in 1..(Depth - 1) : Pop(txnStack)[i] = txnStack[i]
  BY PopSeq DEF TypeOK, Depth
<1>2. /\ Depth' = Depth - 1
      /\ \A i \in 1..(Depth - 2) : txnStack'[i] = txnStack[i]
      /\ txnStack'[Depth - 1] = Merge(txnStack[Depth - 1], txnStack[Depth])
  BY <1>1 DEF Depth
<1>3. ASSUME NEW n \in 0..(Depth - 2), NEW r \in Refs
      PROVE  Lookup(n, r)' = Lookup(n, r)
  <2>1. n \in Nat /\ 1..n \subseteq 1..(Depth - 2)
    BY <1>1
  <2>2. QED
    BY <1>2, <2>1, LookupSame
<1>4. ASSUME NEW n \in Nat, NEW r \in Refs, n = Depth - 1
      PROVE  Lookup(n, r)' = Lookup(Depth, r)
  <2>1. n \in Nat \ {0} /\ Depth \in Nat \ {0} /\ n - 1 \in 0..(Depth - 2)
    BY <1>1, <1>4
  <2>2. txnStack'[n].writes[r] = IF txnStack[Depth].writes[r] # None
                                 THEN txnStack[Depth].writes[r]
                                 ELSE txnStack[n].writes[r]
    BY <1>2, <1>4 DEF Merge
  <2>3. Lookup(n, r)' = IF txnStack'[n].writes[r] # None
                        THEN txnStack'[n].writes[r] ELSE Lookup(n - 1, r)
    BY <1>3, <2>1, LookupStepNext
  <2>4. Lookup(n, r) = IF txnStack[n].writes[r] # None
                       THEN txnStack[n].writes[r] ELSE Lookup(n - 1, r)
    BY <2>1, LookupStep
  <2>5. Lookup(Depth, r) = IF txnStack[Depth].writes[r] # None
                           THEN txnStack[Depth].writes[r] ELSE Lookup(n, r)
    BY <1>4, <2>1, LookupStep
  <2>6. QED
    BY <2>2, <2>3, <2>4, <2>5
<1>5. QED
  BY <1>1, <1>2, <1>3, <1>4, CommitStore

\* The application of the outermost context is the abstract commit too.
LEMMA ApplyStore ==
  ASSUME TypeOK, TypeOK', Depth = 1, txnStack' = <<>>, ret' = None,
         value' = [r \in Refs |-> IF r \in Written(txnStack[Depth])
                                  THEN txnStack[Depth].writes[r] ELSE value[r]]
  PROVE  Store!Commit
<1>1. Depth' = 0
  BY DEF Depth
<1>2. ASSUME NEW n \in Nat, NEW r \in Refs, n = Depth - 1
      PROVE  Lookup(n, r)' = Lookup(Depth, r)
  <2>1. n = 0 /\ Depth \in Nat \ {0} /\ Depth - 1 = 0
    BY <1>2
  <2>2. Lookup(n, r)' = value'[r]
    BY <2>1 DEF Lookup, Holders
  <2>3. Lookup(Depth, r) = IF txnStack[Depth].writes[r] # None
                           THEN txnStack[Depth].writes[r] ELSE Lookup(0, r)
    BY <2>1, LookupStep
  <2>4. QED
    BY <2>2, <2>3, LookupBase DEF Written
<1>3. Depth > 0 /\ Depth' = Depth - 1 /\ 0..(Depth - 2) = {}
  BY <1>1
<1>4. QED
  BY <1>2, <1>3, CommitStore

\* What another attempt does to the store, whether or not a context is open.
LEMMA AttemptStep ==
  ASSUME TypeOK, TypeOK', NEW f \in Flows, AttemptAgain(f),
         UNCHANGED value, ret' = None
  PROVE  Store!Next
<1>1. CASE Depth > 0
  BY <1>1, AttemptAgainStore DEF Store!Next
<1>2. CASE ~(Depth > 0)
  <2>1. Depth = 0
    BY <1>2, SnapshotsStack
  <2>2. txnStack' = txnStack
    BY <2>1, NoContexts DEF AttemptAgain
  <2>3. QED
    BY <2>2, NothingMoves DEF Store!Next
<1>3. QED
  BY <1>1, <1>2

\* The end of a body commits, or starts the block again.
LEMMA EndBodyStore ==
  ASSUME TypeOK, TypeOK', NEW f \in Flows, EndBody(f)
  PROVE  Store!Next
<1> DEFINE inner == txnStack[Depth]
<1>1. CASE /\ Depth > 1
           /\ txnStack' = [Pop(txnStack) EXCEPT ![Depth - 1] = Merge(@, inner)]
           /\ UNCHANGED value
  BY <1>1, MergeStore DEF EndBody, Store!Next
<1>2. CASE AttemptAgain(f) /\ UNCHANGED value
  BY <1>2, AttemptStep DEF EndBody
<1>3. CASE /\ Depth = 1 /\ txnStack' = <<>>
           /\ value' = [r \in Refs |-> IF r \in Written(inner)
                                       THEN inner.writes[r] ELSE value[r]]
  BY <1>3, ApplyStore DEF EndBody, Store!Next
<1>4. QED
  BY <1>1, <1>2, <1>3 DEF EndBody, CommitTop

\* Every step of the evaluator is a step of the savepoint store.
LEMMA StoreStep ==
  ASSUME ~BuiltinArgs, TypeOK, TypeOK', [Next]_vars
  PROVE  [Store!Next]_(Store!vars)
<1>1. ASSUME NEW f \in Flows, NEW r \in Refs, Read(f, r) PROVE Store!Next
  BY <1>1, ReadStore DEF Store!Next
<1>2. ASSUME NEW f \in Flows, NEW r \in Refs, NEW v \in Vals, Write(f, r, v)
      PROVE  Store!Next
  BY <1>2, WriteStore DEF Store!Next
<1>3. ASSUME NEW f \in Flows, Begin(f) PROVE Store!Next
  BY <1>3, BeginStore DEF Store!Next
<1>4. ASSUME NEW f \in Flows, EndBody(f) PROVE Store!Next
  BY <1>4, EndBodyStore
<1>5. ASSUME NEW f \in Flows, Retry(f) PROVE Store!Next
  BY <1>5, AttemptStep DEF Retry
<1>6. ASSUME NEW f \in Flows, Rollback(f) PROVE Store!Next
  <2>1. CASE Depth > 0
    BY <1>6, <2>1, PopIsRollback DEF Rollback, Store!Next
  <2>2. CASE ~(Depth > 0)
    <3>1. Depth = 0
      BY <2>2, SnapshotsStack
    <3>2. QED
      BY <1>6, <3>1, NoContexts, NothingMoves DEF Rollback, Store!Next
  <2>3. QED
    BY <2>1, <2>2
<1>7. ASSUME UNCHANGED <<txnStack, value>>, ret' = None PROVE Store!Next
  BY <1>7, NothingMoves DEF Store!Next
<1>8. CASE UNCHANGED vars
  <2>1. ASSUME NEW n \in 0..Depth, NEW r \in Refs
        PROVE  Lookup(n, r)' = Lookup(n, r)
    <3>1. n \in Nat
      BY SnapshotsStack
    <3>2. QED
      BY <1>8, <3>1, LookupSame DEF vars
  <2>2. Depth' = Depth
    BY <1>8 DEF vars, Depth
  <2>3. QED
    BY <1>8, <2>1, <2>2, SnapshotsSame DEF vars, Store!vars
<1>9. QED
  BY <1>1, <1>2, <1>3, <1>4, <1>5, <1>6, <1>7, <1>8
     DEF Next, ReadArg, Leave, Absorb, Switch

\* The lookup through write sets, the merging commit and the rollback of the
\* evaluator implement a stack of private copies of the store: reads return
\* what the innermost copy holds, a commit puts it in the place of the copy
\* below, and an abandoned block leaves nothing behind; as long as cells are
\* read by name and not through a builtin's argument.
THEOREM ImplementsSavepoints ==
  ASSUME ~BuiltinArgs PROVE Spec => Savepoints
<1>1. Init /\ TypeOK => Store!Init
  <2> SUFFICES ASSUME Init, TypeOK PROVE Store!Init
    OBVIOUS
  <2>1. Depth = 0 /\ Depth + 1 = 1 /\ 1 - 1 = 0
    BY DEF Init, Depth
  <2>2. Snapshots[1] = [r \in Refs |-> Lookup(0, r)]
    BY <2>1, SnapshotsStack
  <2>3. Snapshots[1] = [r \in Refs |-> InitVal]
    BY <2>2, LookupBase DEF Init
  <2>4. Snapshots = << [r \in Refs |-> InitVal] >>
    BY <2>1, <2>3, SnapshotsStack
  <2>5. QED
    BY <2>4 DEF Init, Store!Init
<1>2. TypeOK /\ TypeOK' /\ [Next]_vars => [Store!Next]_(Store!vars)
  BY StoreStep
<1>3. QED
  BY <1>1, <1>2, TypeCorrect, PTL DEF Spec, Savepoints, Store!Spec
=============================================================================
