--------------------------- MODULE SequenceFacts ---------------------------
(* What the proofs of the models keep needing about sequences: the set of  *)
(* their elements (ToSet) and whether an element occurs once (IsInjective).*)
EXTENDS SequencesExt, SequenceTheorems, FiniteSetTheorems, WellFoundedInduction, Picking, TLAPS

\* The elements of a sequence are those at its positions.
LEMMA ToSetDef ==
  ASSUME NEW S, NEW s \in Seq(S)
  PROVE  ToSet(s) = {s[i] : i \in 1..Len(s)} /\ ToSet(s) \subseteq S
BY LenProperties, ElementOfSeq DEF ToSet

\* No two positions of an injective sequence hold the same element.
LEMMA InjectiveDef ==
  ASSUME NEW S, NEW s \in Seq(S)
  PROVE  IsInjective(s) <=> \A i, j \in 1..Len(s) : s[i] = s[j] => i = j
BY LenProperties DEF IsInjective

\* Front drops the last element.
LEMMA FrontProperties ==
  ASSUME NEW S, NEW s \in Seq(S), s # <<>>
  PROVE  /\ Front(s) \in Seq(S)
         /\ Len(Front(s)) = Len(s) - 1
         /\ \A i \in 1..(Len(s) - 1) : Front(s)[i] = s[i]
         /\ Last(s) \in S
         /\ Last(s) = s[Len(s)]
         /\ Len(s) \in Nat \ {0}
<1>1. Len(s) \in Nat \ {0}
  BY EmptySeq
<1>2. Last(s) = s[Len(s)] /\ Last(s) \in S
  BY <1>1, ElementOfSeq DEF Last
<1>3. PICK m \in Nat : m = Len(s) - 1
  BY <1>1
<1>4. Front(s) = SubSeq(s, 1, m)
  BY <1>3 DEF Front
<1>5. \A i \in 1..m : s[i] \in S
  BY <1>1, <1>3, ElementOfSeq
<1>6. /\ SubSeq(s, 1, m) \in Seq(S)
      /\ Len(SubSeq(s, 1, m)) = IF 1 <= m THEN m - 1 + 1 ELSE 0
      /\ \A i \in 1..(m - 1 + 1) : SubSeq(s, 1, m)[i] = s[1 + i - 1]
  BY <1>5, SubSeqProperties
<1>7. Len(SubSeq(s, 1, m)) = m
  BY <1>6
<1>8. \A i \in 1..m : SubSeq(s, 1, m)[i] = s[i]
  BY <1>6
<1>9. QED
  BY <1>1, <1>2, <1>3, <1>4, <1>6, <1>7, <1>8

\* A sequence of whatever elements it has.
IsSequence(s) == s \in Seq(ToSet(s))

\* A sequence is one over its own elements.
LEMMA OwnSet ==
  ASSUME NEW S, NEW s \in Seq(S)
  PROVE  IsSequence(s)
<1> DEFINE e(i) == s[i]
<1>1. Len(s) \in Nat /\ s = [i \in 1..Len(s) |-> e(i)]
  BY LenProperties
<1>2. \A i \in 1..Len(s) : e(i) \in ToSet(s)
  BY ToSetDef
<1>3. [i \in 1..Len(s) |-> e(i)] \in Seq(ToSet(s))
  <2> HIDE DEF e
  <2>1. QED
    BY <1>1, <1>2, IsASeq
<1>4. QED
  BY <1>1, <1>3 DEF IsSequence

\* One element of a sequence is replaced.
LEMMA ReplaceOne ==
  ASSUME NEW s, IsSequence(s), NEW r \in 1..Len(s), NEW x, NEW u, u = [s EXCEPT ![r] = x]
  PROVE  /\ IsSequence(u) /\ Len(u) = Len(s)
         /\ \A i \in 1..Len(s) : u[i] = IF i = r THEN x ELSE s[i]
<1>1. PICK T : T = ToSet(s) \cup {x}
  OBVIOUS
<1>2. s \in Seq(T) /\ x \in T
  BY <1>1, SeqMonotonic DEF IsSequence
<1>3. u \in Seq(T) /\ Len(u) = Len(s) /\ \A i \in 1..Len(s) : u[i] = IF i = r THEN x ELSE s[i]
  BY <1>2, ExceptSeq
<1>4. QED
  BY <1>3, OwnSet

\* An element is appended to a sequence.
LEMMA AppendOne ==
  ASSUME NEW s, IsSequence(s), NEW x, NEW u, u = Append(s, x)
  PROVE  /\ IsSequence(u) /\ Len(s) \in Nat /\ Len(u) = Len(s) + 1
         /\ u[Len(s) + 1] = x
         /\ \A i \in 1..Len(s) : u[i] = s[i]
<1>1. PICK T : T = ToSet(s) \cup {x}
  OBVIOUS
<1>2. s \in Seq(T) /\ x \in T
  BY <1>1, SeqMonotonic DEF IsSequence
<1>3. /\ u \in Seq(T) /\ Len(u) = Len(s) + 1 /\ Len(s) \in Nat
      /\ u[Len(s) + 1] = x /\ \A i \in 1..Len(s) : u[i] = s[i]
  BY <1>2, AppendProperties, LenProperties
<1>4. QED
  BY <1>3, OwnSet

\* The last element of a sequence is replaced.
LEMMA ReplaceLast ==
  ASSUME NEW s, IsSequence(s), s # <<>>, NEW x, NEW u, u = Front(s) \o <<x>>
  PROVE  /\ IsSequence(u) /\ Len(s) \in Nat \ {0} /\ Len(u) = Len(s)
         /\ \A i \in 1..Len(s) : u[i] = IF i = Len(s) THEN x ELSE s[i]
<1>1. PICK T : T = ToSet(s) \cup {x}
  OBVIOUS
<1>2. s \in Seq(T) /\ x \in T
  BY <1>1, SeqMonotonic DEF IsSequence
<1>3. /\ Front(s) \in Seq(T) /\ Len(Front(s)) = Len(s) - 1 /\ Len(s) \in Nat \ {0}
      /\ \A i \in 1..(Len(s) - 1) : Front(s)[i] = s[i]
  BY <1>2, FrontProperties
<1>4. <<x>> \in Seq(T) /\ Len(<<x>>) = 1 /\ <<x>>[1] = x
  BY <1>2
<1>5. PICK p : p = Front(s)
  OBVIOUS
<1>6. PICK q : q = <<x>>
  OBVIOUS
<1>7. /\ u \in Seq(T) /\ Len(u) = Len(p) + Len(q)
      /\ \A i \in 1..(Len(p) + Len(q)) : u[i] = IF i <= Len(p) THEN p[i] ELSE q[i - Len(p)]
  BY <1>3, <1>4, <1>5, <1>6, ConcatProperties
<1>8. Len(p) = Len(s) - 1 /\ Len(q) = 1 /\ q[1] = x /\ \A i \in 1..(Len(s) - 1) : p[i] = s[i]
  BY <1>3, <1>4, <1>5, <1>6
<1>9. Len(u) = Len(s)
  BY <1>3, <1>7, <1>8
<1>10. ASSUME NEW i \in 1..Len(s) PROVE u[i] = IF i = Len(s) THEN x ELSE s[i]
  <2>1. CASE i = Len(s)
    BY <1>3, <1>7, <1>8, <2>1
  <2>2. CASE i # Len(s)
    BY <1>3, <1>7, <1>8, <2>2
  <2>3. QED
    BY <2>1, <2>2
<1>11. QED
  BY <1>3, <1>7, <1>9, <1>10, OwnSet

\* The elements of a sequence that is appended to.
LEMMA AppendSet ==
  ASSUME NEW S, NEW s \in Seq(S), NEW x \in S
  PROVE  /\ ToSet(Append(s, x)) = ToSet(s) \cup {x}
         /\ IsInjective(s) /\ x \notin ToSet(s) => IsInjective(Append(s, x))
<1> DEFINE t == Append(s, x)
<1>1. /\ t \in Seq(S) /\ Len(t) = Len(s) + 1 /\ t[Len(s) + 1] = x
      /\ \A i \in 1..Len(s) : t[i] = s[i]
      /\ Len(s) \in Nat
  BY AppendProperties, LenProperties
<1> HIDE DEF t
<1>2. ToSet(s) = {s[i] : i \in 1..Len(s)} /\ ToSet(t) = {t[i] : i \in 1..Len(t)}
  BY <1>1, ToSetDef
<1>3. ToSet(t) = ToSet(s) \cup {x}
  <2>1. ASSUME NEW y \in ToSet(t) PROVE y \in ToSet(s) \cup {x}
    BY <1>1, <1>2
  <2>2. ASSUME NEW y \in ToSet(s) \cup {x} PROVE y \in ToSet(t)
    BY <1>1, <1>2
  <2>3. QED
    BY <2>1, <2>2
<1>4. ASSUME IsInjective(s), x \notin ToSet(s) PROVE IsInjective(t)
  <2>1. \A i, j \in 1..Len(s) : s[i] = s[j] => i = j
    BY <1>4, InjectiveDef
  <2>2. \A i \in 1..Len(s) : s[i] # x
    BY <1>2, <1>4
  <2>3. \A i, j \in 1..Len(t) : t[i] = t[j] => i = j
    BY <1>1, <2>1, <2>2
  <2>4. QED
    BY <1>1, <2>3, InjectiveDef
<1>5. QED
  BY <1>3, <1>4 DEF t

\* The elements of the tail.
LEMMA TailSet ==
  ASSUME NEW S, NEW s \in Seq(S), s # <<>>
  PROVE  /\ ToSet(s) = ToSet(Tail(s)) \cup {Head(s)}
         /\ IsInjective(s) => IsInjective(Tail(s)) /\ Head(s) \notin ToSet(Tail(s))
<1> DEFINE t == Tail(s)
<1>1. /\ t \in Seq(S) /\ Len(t) = Len(s) - 1
      /\ \A i \in 1..Len(t) : t[i] = s[i + 1]
      /\ Len(s) \in Nat \ {0}
      /\ Head(s) = s[1]
  BY HeadTailProperties, EmptySeq
<1> HIDE DEF t
<1>2. ToSet(s) = {s[i] : i \in 1..Len(s)} /\ ToSet(t) = {t[i] : i \in 1..Len(t)}
  BY <1>1, ToSetDef
<1>3. ToSet(s) = ToSet(t) \cup {Head(s)}
  <2>1. ASSUME NEW y \in ToSet(s) PROVE y \in ToSet(t) \cup {Head(s)}
    <3>1. PICK i \in 1..Len(s) : y = s[i]
      BY <1>2
    <3>2. CASE i = 1
      BY <1>1, <3>1, <3>2
    <3>3. CASE i # 1
      <4>1. i - 1 \in 1..Len(t) /\ t[i - 1] = s[i]
        BY <1>1, <3>3
      <4>2. QED
        BY <1>2, <3>1, <4>1
    <3>4. QED
      BY <3>2, <3>3
  <2>2. ASSUME NEW y \in ToSet(t) \cup {Head(s)} PROVE y \in ToSet(s)
    BY <1>1, <1>2
  <2>3. QED
    BY <2>1, <2>2
<1>4. ASSUME IsInjective(s) PROVE IsInjective(t) /\ Head(s) \notin ToSet(t)
  <2>1. \A i, j \in 1..Len(s) : s[i] = s[j] => i = j
    BY <1>4, InjectiveDef
  <2>2. \A i, j \in 1..Len(t) : t[i] = t[j] => i = j
    BY <1>1, <2>1
  <2>3. \A i \in 1..Len(t) : t[i] # Head(s)
    BY <1>1, <2>1
  <2>4. QED
    BY <1>1, <1>2, <2>2, <2>3, InjectiveDef
<1>5. QED
  BY <1>3, <1>4 DEF t

\* A nonempty set of positions has a greatest.
LEMMA GreatestExists ==
  ASSUME NEW n \in Nat, NEW S \in SUBSET (1..n), S # {}
  PROVE  \E i \in S : \A j \in S : j <= i
<1> DEFINE T == {n - i : i \in S}
<1>1. T \subseteq Nat /\ T # {}
  <2>1. \A i \in S : i \in 1..n /\ n - i \in Nat
    OBVIOUS
  <2>2. QED
    BY <2>1
<1>2. PICK m \in T : \A k \in T : ~(<<k, m>> \in OpToRel(<, Nat))
  BY <1>1, NatLessThanWellFounded, WFMin
<1>3. ASSUME NEW k \in T PROVE m \in Nat /\ k \in Nat /\ m <= k
  <2>1. m \in Nat /\ k \in Nat /\ ~(<<k, m>> \in OpToRel(<, Nat))
    BY <1>1, <1>2
  <2>2. QED
    BY <2>1 DEF OpToRel
<1>4. PICK i \in S : m = n - i
  BY <1>2
<1>5. ASSUME NEW j \in S PROVE j <= i
  <2>1. i \in 1..n /\ j \in 1..n /\ m <= n - j
    BY <1>3
  <2>2. QED
    BY <1>4, <2>1
<1>6. QED
  BY <1>5

\* A nonempty set of numbers has a least.
LEMMA LeastExists ==
  ASSUME NEW S \in SUBSET Nat, S # {}
  PROVE  \E i \in S : \A j \in S : i <= j
<1>1. PICK m \in S : \A k \in S : ~(<<k, m>> \in OpToRel(<, Nat))
  BY NatLessThanWellFounded, WFMin
<1>2. ASSUME NEW k \in S PROVE m <= k
  <2>1. m \in Nat /\ k \in Nat /\ ~(<<k, m>> \in OpToRel(<, Nat))
    BY <1>1
  <2>2. QED
    BY <2>1 DEF OpToRel
<1>3. QED
  BY <1>2

\* Induction up to a number, over a set.
LEMMA SetInduction ==
  ASSUME NEW n \in Nat, NEW S, 0 \in S, \A i \in 1..n : i - 1 \in S => i \in S
  PROVE  \A i \in 0..n : i \in S
<1> DEFINE T == {i \in 0..n : i \notin S}
<1>1. SUFFICES ASSUME T # {} PROVE FALSE
  OBVIOUS
<1>2. PICK i \in T : \A j \in T : i <= j
  <2>1. T \in SUBSET Nat
    OBVIOUS
  <2> HIDE DEF T
  <2>2. QED
    BY <1>1, <2>1, LeastExists
<1>3. i # 0 /\ i \in 1..n /\ i - 1 \in 0..n
  BY <1>2
<1>4. i - 1 \notin T
  BY <1>2, <1>3
<1>5. QED
  BY <1>2, <1>3, <1>4

\* A function on the numbers up to n, given by its beginning and a step.
Recurs(r, n, R, b, g) ==
  r \in [0..n -> R] /\ r[0] = b /\ \A i \in 1..n : r[i] = g[<<i, r[i - 1]>>]

\* There is such a function.
LEMMA Recursion ==
  ASSUME NEW n \in Nat, NEW R, NEW b \in R, NEW g \in [(1..n) \X R -> R]
  PROVE  \E r : Recurs(r, n, R, b, g)
<1> DEFINE S == {m \in 0..n : \E r \in [0..m -> R] :
                   r[0] = b /\ \A i \in 1..m : r[i] = g[<<i, r[i - 1]>>]}
<1>1. 0 \in S
  <2> DEFINE r == [i \in 0..0 |-> b]
  <2>1. r \in [0..0 -> R] /\ r[0] = b /\ \A i \in 1..0 : r[i] = g[<<i, r[i - 1]>>]
    OBVIOUS
  <2> HIDE DEF r
  <2>2. QED
    BY <2>1
<1>2. ASSUME NEW m \in 1..n, m - 1 \in S PROVE m \in S
  <2>1. PICK q \in [0..(m - 1) -> R] : q[0] = b /\ \A i \in 1..(m - 1) : q[i] = g[<<i, q[i - 1]>>]
    BY <1>2
  <2> DEFINE r == [i \in 0..m |-> IF i = m THEN g[<<m, q[m - 1]>>] ELSE q[i]]
  <2>2. q[m - 1] \in R /\ g[<<m, q[m - 1]>>] \in R
    BY <2>1
  <2>3. r \in [0..m -> R] /\ r[0] = b
    BY <2>1, <2>2
  <2>4. ASSUME NEW i \in 1..m PROVE r[i] = g[<<i, r[i - 1]>>]
    <3>1. i - 1 \in 0..m /\ i - 1 # m /\ r[i - 1] = q[i - 1]
      OBVIOUS
    <3>2. CASE i = m
      BY <3>1, <3>2
    <3>3. CASE i # m
      <4>1. i \in 1..(m - 1)
        BY <3>3
      <4>2. QED
        BY <2>1, <3>1, <3>3, <4>1
    <3>4. QED
      BY <3>2, <3>3
  <2> HIDE DEF r
  <2>5. QED
    BY <2>3, <2>4
<1>3. \A m \in 0..n : m \in S
  <2> HIDE DEF S
  <2>1. QED
    BY <1>1, <1>2, SetInduction
<1>4. QED
  BY <1>3 DEF Recurs

\* Two sequences in a row.
LEMMA ConcatSet ==
  ASSUME NEW S, NEW s \in Seq(S), NEW t \in Seq(S)
  PROVE  /\ s \o t \in Seq(S)
         /\ ToSet(s \o t) = ToSet(s) \cup ToSet(t)
         /\ IsInjective(s) /\ IsInjective(t) /\ ToSet(s) \cap ToSet(t) = {} => IsInjective(s \o t)
<1> DEFINE u == s \o t
<1>1. /\ u \in Seq(S) /\ Len(u) = Len(s) + Len(t)
      /\ \A i \in 1..(Len(s) + Len(t)) : u[i] = IF i <= Len(s) THEN s[i] ELSE t[i - Len(s)]
  BY ConcatProperties
<1>2. Len(s) \in Nat /\ Len(t) \in Nat
  BY LenProperties
<1> HIDE DEF u
<1>3. /\ ToSet(s) = {s[i] : i \in 1..Len(s)} /\ ToSet(t) = {t[i] : i \in 1..Len(t)}
      /\ ToSet(u) = {u[i] : i \in 1..Len(u)}
  BY <1>1, ToSetDef
<1>4. \A i \in 1..Len(s) : u[i] = s[i]
  BY <1>1, <1>2
<1>5. ASSUME NEW i \in 1..Len(t) PROVE Len(s) + i \in 1..Len(u) /\ u[Len(s) + i] = t[i]
  <2>1. Len(s) + i \in 1..(Len(s) + Len(t)) /\ ~(Len(s) + i <= Len(s)) /\ (Len(s) + i) - Len(s) = i
    BY <1>2
  <2>2. QED
    BY <1>1, <2>1
<1>6. ToSet(u) = ToSet(s) \cup ToSet(t)
  <2>1. ASSUME NEW y \in ToSet(u) PROVE y \in ToSet(s) \cup ToSet(t)
    <3>1. PICK i \in 1..Len(u) : y = u[i]
      BY <1>3
    <3>2. CASE i <= Len(s)
      BY <1>1, <1>2, <1>3, <3>1, <3>2
    <3>3. CASE ~(i <= Len(s))
      <4>1. i - Len(s) \in 1..Len(t) /\ y = t[i - Len(s)]
        BY <1>1, <1>2, <3>1, <3>3
      <4>2. QED
        BY <1>3, <4>1
    <3>4. QED
      BY <3>2, <3>3
  <2>2. ASSUME NEW y \in ToSet(s) PROVE y \in ToSet(u)
    BY <1>1, <1>2, <1>3, <1>4
  <2>3. ASSUME NEW y \in ToSet(t) PROVE y \in ToSet(u)
    BY <1>3, <1>5
  <2>4. QED
    BY <2>1, <2>2, <2>3
<1>7. ASSUME IsInjective(s), IsInjective(t), ToSet(s) \cap ToSet(t) = {} PROVE IsInjective(u)
  <2>1. /\ \A i, j \in 1..Len(s) : s[i] = s[j] => i = j
        /\ \A i, j \in 1..Len(t) : t[i] = t[j] => i = j
    BY <1>7, InjectiveDef
  <2>2. \A i \in 1..Len(s), j \in 1..Len(t) : s[i] # t[j]
    BY <1>3, <1>7
  <2>3. ASSUME NEW i \in 1..Len(u), NEW j \in 1..Len(u), u[i] = u[j] PROVE i = j
    <3>1. CASE i <= Len(s) /\ j <= Len(s)
      BY <1>2, <1>4, <2>1, <2>3, <3>1
    <3>2. CASE ~(i <= Len(s)) /\ ~(j <= Len(s))
      <4>1. i - Len(s) \in 1..Len(t) /\ j - Len(s) \in 1..Len(t)
        BY <1>1, <1>2, <3>2
      <4>2. t[i - Len(s)] = t[j - Len(s)]
        BY <1>1, <1>2, <2>3, <3>2
      <4>3. i - Len(s) = j - Len(s)
        BY <2>1, <4>1, <4>2
      <4>4. QED
        BY <1>1, <1>2, <4>3
    <3>3. CASE i <= Len(s) /\ ~(j <= Len(s))
      <4>1. i \in 1..Len(s) /\ j - Len(s) \in 1..Len(t) /\ s[i] = t[j - Len(s)]
        BY <1>1, <1>2, <2>3, <3>3
      <4>2. QED
        BY <2>2, <4>1
    <3>4. CASE ~(i <= Len(s)) /\ j <= Len(s)
      <4>1. j \in 1..Len(s) /\ i - Len(s) \in 1..Len(t) /\ s[j] = t[i - Len(s)]
        BY <1>1, <1>2, <2>3, <3>4
      <4>2. QED
        BY <2>2, <4>1
    <3>5. QED
      BY <3>1, <3>2, <3>3, <3>4
  <2>4. QED
    BY <1>1, <2>3, InjectiveDef
<1>8. QED
  BY <1>1, <1>6, <1>7 DEF u

\* The elements of the front.
LEMMA FrontSet ==
  ASSUME NEW S, NEW s \in Seq(S), s # <<>>
  PROVE  /\ ToSet(s) = ToSet(Front(s)) \cup {Last(s)}
         /\ IsInjective(s) => IsInjective(Front(s)) /\ Last(s) \notin ToSet(Front(s))
<1> DEFINE t == Front(s)
<1>1. /\ t \in Seq(S) /\ Len(t) = Len(s) - 1
      /\ \A i \in 1..(Len(s) - 1) : t[i] = s[i]
      /\ Last(s) = s[Len(s)]
      /\ Len(s) \in Nat \ {0}
  BY FrontProperties
<1> HIDE DEF t
<1>2. ToSet(s) = {s[i] : i \in 1..Len(s)} /\ ToSet(t) = {t[i] : i \in 1..Len(t)}
  BY <1>1, ToSetDef
<1>3. ToSet(s) = ToSet(t) \cup {Last(s)}
  <2>1. ASSUME NEW y \in ToSet(s) PROVE y \in ToSet(t) \cup {Last(s)}
    BY <1>1, <1>2
  <2>2. ASSUME NEW y \in ToSet(t) \cup {Last(s)} PROVE y \in ToSet(s)
    BY <1>1, <1>2
  <2>3. QED
    BY <2>1, <2>2
<1>4. ASSUME IsInjective(s) PROVE IsInjective(t) /\ Last(s) \notin ToSet(t)
  <2>1. \A i, j \in 1..Len(s) : s[i] = s[j] => i = j
    BY <1>4, InjectiveDef
  <2>2. \A i, j \in 1..Len(t) : t[i] = t[j] => i = j
    BY <1>1, <2>1
  <2>3. \A i \in 1..Len(t) : t[i] # Last(s)
    BY <1>1, <2>1
  <2>4. QED
    BY <1>1, <1>2, <2>2, <2>3, InjectiveDef
<1>5. QED
  BY <1>3, <1>4 DEF t
\* How many numbers there are from 1 to n.
LEMMA FirstNumbers ==
  ASSUME NEW n \in Nat
  PROVE  IsFiniteSet(1..n) /\ Cardinality(1..n) = n
<1>1. 1 \in Int /\ n \in Int
  OBVIOUS
<1>2. IsFiniteSet(1..n) /\ Cardinality(1..n) = IF 1 > n THEN 0 ELSE n - 1 + 1
  BY <1>1, FS_Interval
<1>3. QED
  BY <1>2

\* An injective sequence is as long as its set of elements is large.
LEMMA InjectiveCount ==
  ASSUME NEW S, NEW s \in Seq(S), IsInjective(s)
  PROVE  IsFiniteSet(ToSet(s)) /\ Cardinality(ToSet(s)) = Len(s)
<1>1. Len(s) \in Nat /\ s = [i \in 1..Len(s) |-> s[i]] /\ DOMAIN s = 1..Len(s)
  BY LenProperties
<1>2. ToSet(s) = {s[i] : i \in 1..Len(s)}
  BY ToSetDef
<1>3. \A i, j \in 1..Len(s) : s[i] = s[j] => i = j
  BY InjectiveDef
<1>4. s \in [1..Len(s) -> ToSet(s)]
  BY <1>1, <1>2
<1>5. s \in Bijection(1..Len(s), ToSet(s))
  BY <1>1, <1>2, <1>3, <1>4 DEF Bijection, Injection, Surjection, IsInjective
<1>6. ExistsBijection(1..Len(s), ToSet(s))
  BY <1>5 DEF ExistsBijection
<1>7. IsFiniteSet(1..Len(s)) /\ Cardinality(1..Len(s)) = Len(s)
  BY <1>1, FirstNumbers
<1>8. QED
  BY <1>6, <1>7, FS_Bijection

\* A finite set in some order.
LEMMA SetInOrder ==
  ASSUME NEW T, IsFiniteSet(T)
  PROVE  SetToSeq(T) \in Seq(T) /\ IsInjective(SetToSeq(T)) /\ ToSet(SetToSeq(T)) = T
<1> DEFINE n == Cardinality(T)
           g == SetToSeq(T)
<1>1. n \in Nat /\ ExistsBijection(1..n, T)
  BY FS_CardinalityType
<1>2. PICK f : f \in Bijection(1..n, T)
  BY <1>1 DEF ExistsBijection
<1>3. f \in [1..n -> T] /\ IsInjective(f)
  BY <1>2 DEF Bijection, Injection
<1>4. g \in [1..n -> T] /\ IsInjective(g)
  BY <1>3 DEF SetToSeq
<1>5. IsFiniteSet(1..n) /\ Cardinality(1..n) = n
  BY <1>1, FirstNumbers
<1>6. g \in Injection(1..n, T)
  BY <1>4 DEF Injection
<1>7. g \in Surjection(1..n, T)
  <2> HIDE DEF g
  <2>1. QED
    BY <1>5, <1>6, FS_Injection
<1>8. {g[i] : i \in 1..n} = T
  BY <1>4, <1>7 DEF Surjection
<1>9. g \in Seq(T) /\ DOMAIN g = 1..n
  BY <1>1, <1>4
<1>10. QED
  BY <1>4, <1>8, <1>9 DEF ToSet
\* The sequences of a sequence in a row: their elements, and no element twice
\* if none is twice in one of them or in two.
LEMMA FlattenFacts ==
  ASSUME NEW S, NEW ss \in Seq(Seq(S))
  PROVE  /\ FlattenSeq(ss) \in Seq(S)
         /\ \A x : x \in ToSet(FlattenSeq(ss)) <=> \E i \in 1..Len(ss) : x \in ToSet(ss[i])
         /\ (/\ \A i \in 1..Len(ss) : IsInjective(ss[i])
             /\ \A i, j \in 1..Len(ss) : i # j => ToSet(ss[i]) \cap ToSet(ss[j]) = {})
              => IsInjective(FlattenSeq(ss))
<1> DEFINE n == Len(ss)
<1>1. n \in Nat /\ \A i \in 1..n : ss[i] \in Seq(S)
  BY LenProperties, ElementOfSeq
<1>2. CASE n = 0
  <2>1. ss = <<>> /\ FlattenSeq(ss) = <<>>
    BY <1>2, EmptySeq DEF FlattenSeq
  <2>2. <<>> \in Seq(S) /\ Len(<<>>) = 0
    BY EmptySeq
  <2>3. ToSet(<<>>) = {} /\ IsInjective(<<>>)
    BY DEF ToSet, IsInjective
  <2>4. 1..Len(ss) = {}
    BY <1>2
  <2>5. QED
    BY <2>1, <2>2, <2>3, <2>4
<1>3. CASE n # 0
  <2> DEFINE f == CHOOSE q : q = [i \in 1..n |-> IF i = 1 THEN ss[i] ELSE q[i - 1] \o ss[i]]
  <2>1. FlattenSeq(ss) = f[n]
    BY <1>3 DEF FlattenSeq
  <2>2. f = [i \in 1..n |-> IF i = 1 THEN ss[i] ELSE f[i - 1] \o ss[i]]
    <3> DEFINE g == [p \in (1..(n - 1)) \X Seq(S) |-> p[2] \o ss[p[1] + 1]]
               b == ss[1]
    <3>1. n - 1 \in Nat /\ 1 \in 1..n /\ \A i \in 1..(n - 1) : i + 1 \in 1..n
      BY <1>1, <1>3
    <3>2. b \in Seq(S)
      BY <1>1, <3>1
    <3>3. ASSUME NEW p \in (1..(n - 1)) \X Seq(S) PROVE p[2] \o ss[p[1] + 1] \in Seq(S)
      <4>1. p[1] \in 1..(n - 1) /\ p[2] \in Seq(S)
        OBVIOUS
      <4>2. ss[p[1] + 1] \in Seq(S)
        BY <1>1, <3>1, <4>1
      <4>3. QED
        BY <4>1, <4>2, ConcatProperties
    <3>4. g \in [(1..(n - 1)) \X Seq(S) -> Seq(S)]
      BY <3>3
    <3>5. \A i \in 1..(n - 1), x \in Seq(S) : g[<<i, x>>] = x \o ss[i + 1]
      OBVIOUS
    <3> HIDE DEF g, b, f
    <3>6. PICK r \in [0..(n - 1) -> Seq(S)] : r[0] = b /\ \A i \in 1..(n - 1) : r[i] = g[<<i, r[i - 1]>>]
      <4>1. PICK k : k = n - 1
        OBVIOUS
      <4>2. PICK R, c, d : R = Seq(S) /\ c = b /\ d = g
        OBVIOUS
      <4>3. k \in Nat /\ c \in R /\ d \in [(1..k) \X R -> R]
        BY <3>1, <3>2, <3>4, <4>1, <4>2
      <4>4. PICK r : Recurs(r, k, R, c, d)
        BY ONLY <4>3, Recursion
      <4> HIDE DEF n
      <4>5. QED
        BY <4>1, <4>2, <4>4 DEF Recurs
    <3> DEFINE h == [i \in 1..n |-> r[i - 1]]
    <3>7. ASSUME NEW i \in 1..n PROVE h[i] = IF i = 1 THEN ss[i] ELSE h[i - 1] \o ss[i]
      <4>1. CASE i = 1
        BY <3>6, <4>1 DEF b
      <4>2. CASE i # 1
        <5>1. i - 1 \in 1..(n - 1) /\ (i - 1) - 1 \in 0..(n - 1) /\ i - 1 \in 1..n /\ (i - 1) + 1 = i
          BY <1>1, <4>2
        <5>2. r[i - 1] = r[(i - 1) - 1] \o ss[(i - 1) + 1]
          BY <3>5, <3>6, <5>1
        <5>3. h[i] = r[i - 1] /\ h[i - 1] = r[(i - 1) - 1]
          BY <5>1
        <5>4. QED
          BY <4>2, <5>1, <5>2, <5>3
      <4>3. QED
        BY <4>1, <4>2
    <3>8. h = [i \in 1..n |-> IF i = 1 THEN ss[i] ELSE h[i - 1] \o ss[i]]
      BY <3>7
    <3> HIDE DEF h
    <3>9. QED
      BY <3>8 DEF f
  <2> HIDE DEF f
  <2> HIDE DEF n
  <2>3. f[1] = ss[1]
    BY <1>1, <1>3, <2>2
  <2>3a. ASSUME NEW i \in 1..n, i # 1 PROVE f[i] = f[i - 1] \o ss[i]
    BY <2>2, <2>3a
  <2> DEFINE Apart == /\ \A i \in 1..n : IsInjective(ss[i])
                      /\ \A i, j \in 1..n : i # j => ToSet(ss[i]) \cap ToSet(ss[j]) = {}
             Good(i) == /\ f[i] \in Seq(S)
                        /\ \A x : x \in ToSet(f[i]) <=> \E j \in 1..i : x \in ToSet(ss[j])
                        /\ Apart => IsInjective(f[i])
             A == {i \in 0..n : i # 0 => Good(i)}
  <2>4. Good(1)
    <3>1. 1 \in 1..n
      BY <1>1, <1>3
    <3>2. QED
      BY <1>1, <2>3, <3>1
  <2>5. ASSUME NEW i \in 1..n, i # 1, Good(i - 1) PROVE Good(i)
    <3>1. /\ f[i - 1] \in Seq(S)
          /\ \A x : x \in ToSet(f[i - 1]) <=> \E j \in 1..(i - 1) : x \in ToSet(ss[j])
          /\ Apart => IsInjective(f[i - 1])
      BY <2>5
    <3>2. PICK p : p = f[i - 1]
      OBVIOUS
    <3>3. PICK q : q = ss[i]
      OBVIOUS
    <3>4. f[i] = p \o q
      BY <2>3a, <2>5, <3>2, <3>3
    <3>5. p \in Seq(S) /\ q \in Seq(S)
      BY <1>1, <3>1, <3>2, <3>3
    <3>6. /\ p \o q \in Seq(S)
          /\ ToSet(p \o q) = ToSet(p) \cup ToSet(q)
          /\ IsInjective(p) /\ IsInjective(q) /\ ToSet(p) \cap ToSet(q) = {} => IsInjective(p \o q)
      BY ONLY <3>5, ConcatSet
    <3>7. \A x : x \in ToSet(p) \cup ToSet(q) <=> \E j \in 1..i : x \in ToSet(ss[j])
      <4>1. 1..i = 1..(i - 1) \cup {i}
        BY <1>1
      <4>2. QED
        BY <3>1, <3>2, <3>3, <4>1
    <3>8. ASSUME Apart PROVE ToSet(p) \cap ToSet(q) = {} /\ IsInjective(q)
      <4>1. \A j \in 1..(i - 1) : j \in 1..n /\ j # i
        BY <1>1
      <4>2. \A j \in 1..(i - 1) : ToSet(ss[j]) \cap ToSet(ss[i]) = {}
        BY <3>8, <4>1
      <4>3. ASSUME NEW x \in ToSet(p), x \in ToSet(q) PROVE FALSE
        <5>1. PICK j \in 1..(i - 1) : x \in ToSet(ss[j])
          BY <3>1, <3>2
        <5>2. QED
          BY <3>3, <4>2, <4>3, <5>1
      <4>4. ToSet(p) \cap ToSet(q) = {}
        BY <4>3
      <4>5. IsInjective(q)
        BY <3>3, <3>8
      <4>6. QED
        BY <4>4, <4>5
    <3> HIDE DEF Apart
    <3>9. QED
      BY <3>1, <3>2, <3>3, <3>4, <3>6, <3>7, <3>8
  <2>6. Good(n)
    <3> HIDE DEF Good
    <3>1. 0 \in A
      BY <1>1
    <3>2. ASSUME NEW i \in 1..n, i - 1 \in A PROVE i \in A
      BY <2>4, <2>5, <3>2
    <3> HIDE DEF A
    <3>3. \A i \in 0..n : i \in A
      BY <1>1, <3>1, <3>2, SetInduction
    <3>4. n \in A
      BY <1>1, <3>3
    <3>5. QED
      BY <1>3, <3>4 DEF A
  <2>7. QED
    BY <2>1, <2>6 DEF n
<1>4. QED
  BY <1>2, <1>3

\* Any two elements of r stand in s in the same order.
InOrder(r, s) ==
  \A a, b \in 1..Len(r) : a < b => \E i, j \in 1..Len(s) : i < j /\ r[a] = s[i] /\ r[b] = s[j]

\* The elements at some positions of a sequence.
LEMMA PickedFacts ==
  ASSUME NEW S, NEW s \in Seq(S), NEW P
  PROVE  /\ Picked(s, P) \in Seq(S)
         /\ \A x : x \in ToSet(Picked(s, P)) <=> \E i \in 1..Len(s) : i \in P /\ x = s[i]
         /\ IsInjective(s) => IsInjective(Picked(s, P))
         /\ InOrder(Picked(s, P), s)
<1> DEFINE f == Picks(s, P)
<1>1. PICK n : n = Len(s)
  OBVIOUS
<1>2. n \in Nat /\ \A i \in 1..n : s[i] \in S
  BY <1>1, LenProperties, ElementOfSeq
<1>3. f = [i \in 0..n |-> IF i = 0 THEN <<>> ELSE IF i \in P THEN Append(f[i - 1], s[i]) ELSE f[i - 1]]
  <2>1. f = CHOOSE q : q = [i \in 0..n |-> IF i = 0 THEN <<>>
                                            ELSE IF i \in P THEN Append(q[i - 1], s[i]) ELSE q[i - 1]]
    BY <1>1 DEF Picks
  <2>2. PICK R : R = Seq(S)
    OBVIOUS
  <2> DEFINE gg == [p \in (1..n) \X R |-> IF p[1] \in P THEN Append(p[2], s[p[1]]) ELSE p[2]]
  <2>3. PICK g : g = gg
    OBVIOUS
  <2>4. g \in [(1..n) \X R -> R]
    <3>1. ASSUME NEW p \in (1..n) \X R PROVE (IF p[1] \in P THEN Append(p[2], s[p[1]]) ELSE p[2]) \in R
      <4>1. p[1] \in 1..n /\ p[2] \in Seq(S)
        BY <2>2
      <4>2. s[p[1]] \in S
        BY <1>2, <4>1
      <4>3. Append(p[2], s[p[1]]) \in Seq(S)
        BY <4>1, <4>2, AppendProperties
      <4>4. QED
        BY <2>2, <4>1, <4>3
    <3>2. QED
      BY <2>3, <3>1
  <2>5. \A i \in 1..n, x \in R : g[<<i, x>>] = IF i \in P THEN Append(x, s[i]) ELSE x
    BY <2>3
  <2>6. PICK b : b = <<>>
    OBVIOUS
  <2>7. b \in R
    BY <2>2, <2>6
  <2> HIDE DEF gg, f
  <2>8. PICK r : Recurs(r, n, R, b, g)
    BY ONLY <1>2, <2>4, <2>7, Recursion
  <2>9. ASSUME NEW i \in 0..n
        PROVE  r[i] = IF i = 0 THEN <<>> ELSE IF i \in P THEN Append(r[i - 1], s[i]) ELSE r[i - 1]
    <3>1. CASE i = 0
      BY <2>6, <2>8, <3>1 DEF Recurs
    <3>2. CASE i # 0
      <4>1. i \in 1..n /\ i - 1 \in 0..n
        BY <1>2, <3>2
      <4>2. r[i] = g[<<i, r[i - 1]>>] /\ r[i - 1] \in R
        BY <2>8, <4>1 DEF Recurs
      <4>3. QED
        BY <2>5, <3>2, <4>1, <4>2
    <3>3. QED
      BY <3>1, <3>2
  <2>10. r = [i \in 0..n |-> IF i = 0 THEN <<>> ELSE IF i \in P THEN Append(r[i - 1], s[i]) ELSE r[i - 1]]
    <3>1. r = [i \in 0..n |-> r[i]]
      BY <2>8 DEF Recurs
    <3>2. QED
      BY <2>9, <3>1
  <2>11. QED
    BY <2>1, <2>10
<1> HIDE DEF f
<1>4. f[0] = <<>>
  BY <1>2, <1>3
<1>5. ASSUME NEW i \in 1..n PROVE f[i] = IF i \in P THEN Append(f[i - 1], s[i]) ELSE f[i - 1]
  <2>1. i \in 0..n /\ i # 0
    BY <1>2
  <2>2. PICK p, v : p = f[i - 1] /\ v = Append(p, s[i])
    OBVIOUS
  <2>3. f[i] = IF i \in P THEN v ELSE p
    BY <1>3, <2>1, <2>2
  <2>4. QED
    BY <2>2, <2>3
<1> DEFINE Good(i) == /\ f[i] \in Seq(S)
                      /\ \A x : x \in ToSet(f[i]) <=> \E j \in 1..i : j \in P /\ x = s[j]
                      /\ IsInjective(s) => IsInjective(f[i])
                      /\ \A a, b \in 1..Len(f[i]) : a < b =>
                           \E j, k \in 1..i : j < k /\ f[i][a] = s[j] /\ f[i][b] = s[k]
           A == {i \in 0..n : Good(i)}
<1>6. Good(0)
  <2>1. <<>> \in Seq(S) /\ ToSet(<<>>) = {} /\ IsInjective(<<>>) /\ Len(<<>>) = 0
    BY DEF ToSet, IsInjective
  <2>2. QED
    BY <1>4, <2>1
<1>7. ASSUME NEW i \in 1..n, Good(i - 1) PROVE Good(i)
  <2>1. PICK p : p = f[i - 1]
    OBVIOUS
  <2>2. /\ p \in Seq(S)
        /\ \A x : x \in ToSet(p) <=> \E j \in 1..(i - 1) : j \in P /\ x = s[j]
        /\ IsInjective(s) => IsInjective(p)
        /\ \A a, b \in 1..Len(p) : a < b => \E j, k \in 1..(i - 1) : j < k /\ p[a] = s[j] /\ p[b] = s[k]
    BY <1>7, <2>1
  <2>3. 1..i = 1..(i - 1) \cup {i} /\ i \notin 1..(i - 1) /\ 1..(i - 1) \subseteq 1..n
    BY <1>2
  <2>4. CASE i \notin P
    <3>1. f[i] = p
      BY <1>5, <2>1, <2>4
    <3>2. QED
      BY <2>2, <2>3, <2>4, <3>1
  <2>5. CASE i \in P
    <3>1. PICK v : v = s[i]
      OBVIOUS
    <3>2. f[i] = Append(p, v) /\ v \in S
      BY <1>2, <1>5, <2>1, <2>5, <3>1
    <3>3. /\ Append(p, v) \in Seq(S)
          /\ ToSet(Append(p, v)) = ToSet(p) \cup {v}
          /\ IsInjective(p) /\ v \notin ToSet(p) => IsInjective(Append(p, v))
      BY <2>2, <3>2, AppendSet, AppendProperties
    <3>4. IsInjective(s) => v \notin ToSet(p)
      <4>1. IsInjective(s) => \A j \in 1..(i - 1) : s[j] # s[i]
        BY <1>1, <2>3, InjectiveDef
      <4>2. QED
        BY <2>2, <3>1, <4>1
    <3>5. \A x : x \in ToSet(f[i]) <=> \E j \in 1..i : j \in P /\ x = s[j]
      BY <2>2, <2>3, <2>5, <3>1, <3>2, <3>3
    <3>6. ASSUME NEW a \in 1..Len(f[i]), NEW b \in 1..Len(f[i]), a < b
          PROVE  \E j, k \in 1..i : j < k /\ f[i][a] = s[j] /\ f[i][b] = s[k]
      <4>1. PICK u : u = Append(p, v)
        OBVIOUS
      <4>2. /\ Len(u) = Len(p) + 1 /\ Len(p) \in Nat /\ u[Len(p) + 1] = v
            /\ \A k \in 1..Len(p) : u[k] = p[k]
        BY <2>2, <3>2, <4>1, AppendProperties, LenProperties
      <4>3. f[i] = u /\ a \in 1..Len(p)
        BY <3>2, <3>6, <4>1, <4>2
      <4>4. CASE b \in 1..Len(p)
        BY <2>2, <2>3, <3>6, <4>2, <4>3, <4>4
      <4>5. CASE b = Len(p) + 1
        <5>1. p[a] \in ToSet(p)
          BY <2>2, <4>3, ToSetDef
        <5>2. PICK j \in 1..(i - 1) : p[a] = s[j]
          BY <2>2, <5>1
        <5>3. j < i /\ j \in 1..i /\ i \in 1..i
          BY <1>2, <2>3, <5>2
        <5>4. QED
          BY <3>1, <4>2, <4>3, <4>5, <5>2, <5>3
      <4>6. QED
        BY <3>6, <4>2, <4>3, <4>4, <4>5
    <3>7. QED
      BY <2>2, <3>2, <3>3, <3>4, <3>5, <3>6
  <2>6. QED
    BY <2>4, <2>5
<1>8. Good(n)
  <2> HIDE DEF Good
  <2>1. 0 \in A
    BY <1>2, <1>6
  <2>2. ASSUME NEW i \in 1..n, i - 1 \in A PROVE i \in A
    BY <1>7, <2>2
  <2> HIDE DEF A
  <2>3. \A i \in 0..n : i \in A
    BY <1>2, <2>1, <2>2, SetInduction
  <2>4. QED
    BY <1>2, <2>3 DEF A
<1>9. Picked(s, P) = f[n]
  BY <1>1 DEF Picked, f
<1>10. InOrder(Picked(s, P), s)
  BY <1>1, <1>8, <1>9 DEF InOrder
<1>11. QED
  BY <1>1, <1>8, <1>9, <1>10
=============================================================================
