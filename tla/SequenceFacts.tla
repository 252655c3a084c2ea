---------------------------- MODULE SequenceFacts ----------------------------
(***************************************************************************)
(* What the proofs about queues, pipes and lists need to know of sequences *)
(* and of natural numbers: what Append, Head and Tail do to the elements   *)
(* of a queue, how often one of them is in it, and two forms of induction  *)
(* that speak of sets and not of formulas.                                 *)
(***************************************************************************)
EXTENDS Integers, Sequences, FiniteSets, Functions, FiniteSetTheorems, SequenceTheorems, TLAPS

\* How often e is in the sequence s.
Times(s, e) == Cardinality({k \in DOMAIN s : s[k] = e})

-----------------------------------------------------------------------------
\* A nonempty set of natural numbers has a least element.
LEMMA LeastNumber ==
  ASSUME NEW T, T \subseteq Nat, T # {}
  PROVE  \E n \in T : \A m \in T : n <= m
<1> DEFINE R == OpToRel(<, Nat)
<1>1. \E n \in T : \A m \in T : ~(<<m, n>> \in R)
  <2>1. IsWellFoundedOn(R, Nat)
    BY NatLessThanWellFounded
  <2> HIDE DEF R
  <2> QED
    BY <2>1, WFMin
<1>2. \A m, n \in Nat : m < n => <<m, n>> \in R
  BY DEF OpToRel
<1> HIDE DEF R
<1>3. PICK n \in T : \A m \in T : ~(<<m, n>> \in R)
  BY <1>1
<1>4. ASSUME NEW m \in T PROVE n <= m
  <2>1. m \in Nat /\ n \in Nat /\ ~(<<m, n>> \in R)
    BY <1>3
  <2>2. ~(m < n)
    BY <1>2, <2>1
  <2> QED
    BY <2>1, <2>2
<1> QED
  BY <1>3, <1>4

\* A set with 0 and with the successor of each of its numbers holds them all.
LEMMA SetInduction ==
  ASSUME NEW S, 0 \in S, \A n \in Nat : n \in S => n + 1 \in S
  PROVE  Nat \subseteq S
<1> SUFFICES ASSUME Nat \ S # {} PROVE FALSE
  OBVIOUS
<1>1. PICK n \in Nat \ S : \A m \in Nat \ S : n <= m
  BY LeastNumber
<1>2. n # 0 /\ n - 1 \in Nat /\ n - 1 \in S
  BY <1>1
<1> QED
  BY <1>1, <1>2

-----------------------------------------------------------------------------
\* A queue after a push.
LEMMA PushFacts ==
  ASSUME NEW S, NEW q \in Seq(S), NEW e \in S
  PROVE  /\ Append(q, e) \in Seq(S) /\ Append(q, e) # << >>
         /\ Len(q) \in Nat /\ Len(Append(q, e)) = Len(q) + 1
         /\ Append(q, e)[Len(Append(q, e))] = e
         /\ Range(Append(q, e)) = Range(q) \cup {e}
         /\ IsInjective(q) /\ e \notin Range(q) => IsInjective(Append(q, e))
<1> DEFINE r == Append(q, e)
<1>1. /\ r \in Seq(S) /\ r # << >> /\ Len(q) \in Nat /\ Len(r) = Len(q) + 1
      /\ DOMAIN q = 1 .. Len(q) /\ DOMAIN r = 1 .. Len(q) + 1
      /\ \A k \in 1 .. Len(q) : r[k] = q[k]
      /\ r[Len(q) + 1] = e
  BY AppendProperties, LenProperties
<1> HIDE DEF r
<1>2. Range(r) = Range(q) \cup {e}
  BY <1>1 DEF Range
<1>3. ASSUME IsInjective(q), e \notin Range(q)
      PROVE  IsInjective(r)
  BY <1>1, <1>3 DEF IsInjective, Range
<1> QED
  BY <1>1, <1>2, <1>3 DEF r

\* A queue before and after a pop.
LEMMA PopFacts ==
  ASSUME NEW S, NEW q \in Seq(S), q # << >>
  PROVE  /\ Head(q) \in S /\ Tail(q) \in Seq(S)
         /\ Len(q) \in Nat /\ Len(Tail(q)) = Len(q) - 1 /\ Len(Tail(q)) \in Nat
         /\ Range(q) = Range(Tail(q)) \cup {Head(q)}
         /\ IsInjective(q) => IsInjective(Tail(q)) /\ Head(q) \notin Range(Tail(q))
         /\ Len(q) > 1 => Tail(q) # << >> /\ Tail(q)[Len(Tail(q))] = q[Len(q)]
<1> DEFINE r == Tail(q)
<1>1. /\ Head(q) \in S /\ r \in Seq(S) /\ Len(q) \in Nat \ {0} /\ Len(r) = Len(q) - 1
      /\ DOMAIN q = 1 .. Len(q) /\ DOMAIN r = 1 .. Len(q) - 1
      /\ \A k \in 1 .. Len(q) - 1 : r[k] = q[k + 1]
      /\ q[1] = Head(q)
  BY HeadTailProperties, LenProperties, EmptySeq
<1> HIDE DEF r
<1>2. Range(q) = Range(r) \cup {Head(q)}
  <2>1. ASSUME NEW k \in 1 .. Len(q) PROVE q[k] \in Range(r) \cup {Head(q)}
    <3>1. k = 1 \/ (k - 1 \in DOMAIN r /\ r[k - 1] = q[k])
      BY <1>1
    <3> QED
      BY <1>1, <3>1 DEF Range
  <2>2. ASSUME NEW k \in DOMAIN r PROVE r[k] \in Range(q)
    BY <1>1 DEF Range
  <2>3. Head(q) \in Range(q)
    BY <1>1 DEF Range
  <2> QED
    BY <1>1, <2>1, <2>2, <2>3 DEF Range
<1>3. ASSUME IsInjective(q)
      PROVE  IsInjective(r) /\ Head(q) \notin Range(r)
  <2>1. ASSUME NEW j \in DOMAIN r, NEW k \in DOMAIN r, r[j] = r[k]
        PROVE  j = k
    <3>1. j + 1 \in DOMAIN q /\ k + 1 \in DOMAIN q /\ q[j + 1] = q[k + 1]
      BY <1>1, <2>1
    <3> QED
      BY <1>1, <1>3, <3>1 DEF IsInjective
  <2>2. ASSUME NEW k \in DOMAIN r PROVE r[k] # q[1]
    <3>1. k + 1 \in DOMAIN q /\ 1 \in DOMAIN q /\ k + 1 # 1 /\ r[k] = q[k + 1]
      BY <1>1
    <3> QED
      BY <1>3, <3>1 DEF IsInjective
  <2> QED
    BY <1>1, <2>1, <2>2 DEF IsInjective, Range
<1>4. Len(q) > 1 => r # << >> /\ r[Len(r)] = q[Len(q)]
  BY <1>1, EmptySeq
<1> QED
  BY <1>1, <1>2, <1>3, <1>4 DEF r

\* The elements of two sequences one behind the other.
LEMMA ConcatRange ==
  ASSUME NEW S, NEW s \in Seq(S), NEW t \in Seq(S)
  PROVE  s \o t \in Seq(S) /\ Range(s \o t) = Range(s) \cup Range(t)
BY RangeConcatenation, ConcatProperties

-----------------------------------------------------------------------------
\* Elements are counted by natural numbers, and 0 says that there is none.
LEMMA TimesNat ==
  ASSUME NEW S, NEW q \in Seq(S), NEW x
  PROVE  /\ IsFiniteSet({k \in DOMAIN q : q[k] = x})
         /\ Times(q, x) \in Nat
         /\ Times(q, x) = 0 <=> x \notin Range(q)
<1> DEFINE T == {k \in DOMAIN q : q[k] = x}
<1>1. DOMAIN q = 1 .. Len(q) /\ Len(q) \in Nat
  BY LenProperties
<1>2. IsFiniteSet(T)
  <2>1. IsFiniteSet(1 .. Len(q)) /\ T \in SUBSET (1 .. Len(q))
    BY <1>1, FS_Interval
  <2> HIDE DEF T
  <2> QED
    BY <2>1, FS_Subset
<1>3. Times(q, x) = Cardinality(T)
  BY DEF Times
<1>4. T = {} <=> x \notin Range(q)
  BY DEF Range
<1> HIDE DEF T
<1>5. Cardinality(T) \in Nat /\ (Cardinality(T) = 0 <=> T = {})
  BY <1>2, FS_CardinalityType, FS_EmptySet
<1>6. Times(q, x) \in Nat /\ (Times(q, x) = 0 <=> x \notin Range(q))
  BY <1>3, <1>4, <1>5
<1> QED
  BY <1>2, <1>6 DEF T

\* The number of elements of an empty sequence, of a pushed one, a popped one
\* and a concatenation.
LEMMA TimesEmpty == \A x : Times(<< >>, x) = 0
BY FS_EmptySet DEF Times

\* Elements of two sequences one behind the other are counted in both.
LEMMA TimesConcat ==
  ASSUME NEW S, NEW s \in Seq(S), NEW t \in Seq(S), NEW x
  PROVE  Times(s \o t, x) = Times(s, x) + Times(t, x)
<1> DEFINE r == s \o t
           A == {k \in DOMAIN s : s[k] = x}
           B == {k \in DOMAIN t : t[k] = x}
           C == {k \in DOMAIN r : r[k] = x}
           D == {k \in C : k > Len(s)}
           f == [k \in B |-> k + Len(s)]
<1>1. /\ DOMAIN s = 1 .. Len(s) /\ DOMAIN t = 1 .. Len(t) /\ DOMAIN r = 1 .. Len(s) + Len(t)
      /\ Len(s) \in Nat /\ Len(t) \in Nat
      /\ \A i \in 1 .. Len(s) + Len(t) : r[i] = IF i <= Len(s) THEN s[i] ELSE t[i - Len(s)]
  <2>1. r \in Seq(S) /\ Len(r) = Len(s) + Len(t)
    BY ConcatProperties
  <2>2. DOMAIN r = 1 .. Len(r)
    BY <2>1, LenProperties
  <2> QED
    BY <2>1, <2>2, ConcatProperties, LenProperties
<1>2. IsFiniteSet(A) /\ IsFiniteSet(B)
  BY TimesNat
<1> HIDE DEF r
<1>3. C = A \cup D /\ A \cap D = {}
  BY <1>1
<1>4. f \in [B -> D]
  BY <1>1
<1>5. IsInjective(f)
  BY <1>1 DEF IsInjective
<1>6. ASSUME NEW d \in D PROVE \E b \in B : f[b] = d
  <2>1. d - Len(s) \in B /\ f[d - Len(s)] = d
    BY <1>1
  <2> QED
    BY <2>1
<1>7. ExistsBijection(B, D)
  <2>1. f \in Bijection(B, D)
    BY <1>4, <1>5, <1>6 DEF Bijection, Injection, Surjection
  <2> QED
    BY <2>1 DEF ExistsBijection
<1>8. IsFiniteSet(D) /\ Cardinality(D) = Cardinality(B)
  BY <1>2, <1>7, FS_Bijection
<1> HIDE DEF A, B, D, f, C
<1>9. Cardinality(C) = Cardinality(A) + Cardinality(D)
  <2>1. Cardinality(A \cup D) = Cardinality(A) + Cardinality(D) - Cardinality(A \cap D)
    BY <1>2, <1>8, FS_Union
  <2>2. Cardinality(A) \in Nat /\ Cardinality(D) \in Nat /\ Cardinality(A \cap D) = 0
    BY <1>2, <1>3, <1>8, FS_EmptySet, FS_CardinalityType
  <2> QED
    BY <1>3, <2>1, <2>2
<1> QED
  BY <1>8, <1>9 DEF Times, A, B, C, r

\* A sequence of one element counts it once.
LEMMA TimesOne == \A e, x : Times(<<e>>, x) = IF e = x THEN 1 ELSE 0
<1> SUFFICES ASSUME NEW e, NEW x PROVE Times(<<e>>, x) = IF e = x THEN 1 ELSE 0
  OBVIOUS
<1>1. {k \in DOMAIN <<e>> : <<e>>[k] = x} = IF e = x THEN {1} ELSE {}
  OBVIOUS
<1> QED
  BY <1>1, FS_Singleton, FS_EmptySet DEF Times

\* Append adds one.
LEMMA TimesPush ==
  ASSUME NEW S, NEW q \in Seq(S), NEW e \in S, NEW x
  PROVE  Times(Append(q, e), x) = IF e = x THEN Times(q, x) + 1 ELSE Times(q, x)
<1>1. Append(q, e) = q \o <<e>> /\ <<e>> \in Seq(S)
  BY AppendIsConcat
<1> DEFINE t == <<e>>
<1>2. t \in Seq(S) /\ Append(q, e) = q \o t /\ Times(t, x) = IF e = x THEN 1 ELSE 0
  BY <1>1, TimesOne
<1> HIDE DEF t
<1>3. Times(q \o t, x) = Times(q, x) + Times(t, x)
  BY <1>2, TimesConcat
<1>4. Times(q, x) \in Nat
  BY TimesNat
<1> QED
  BY <1>2, <1>3, <1>4

\* A pop takes one.
LEMMA TimesPop ==
  ASSUME NEW S, NEW q \in Seq(S), q # << >>, NEW x
  PROVE  Times(q, x) = IF Head(q) = x THEN Times(Tail(q), x) + 1 ELSE Times(Tail(q), x)
<1>1. /\ Head(q) \in S /\ Tail(q) \in Seq(S) /\ <<Head(q)>> \in Seq(S)
      /\ q = <<Head(q)>> \o Tail(q)
  <2>1. /\ Len(q) \in Nat \ {0} /\ q = SubSeq(q, 1, Len(q)) /\ Tail(q) = SubSeq(q, 2, Len(q))
        /\ Head(q) \in S /\ Tail(q) \in Seq(S) /\ q[1] = Head(q)
    BY EmptySeq, SubSeqFull, TailIsSubSeq, HeadTailProperties
  <2>2. SubSeq(q, 1, Len(q)) = <<q[1]>> \o SubSeq(q, 1 + 1, Len(q))
    BY <2>1, SubSeqRecursiveFirst
  <2> QED
    BY <2>1, <2>2
<1> DEFINE h == <<Head(q)>>
           t == Tail(q)
<1>2. /\ h \in Seq(S) /\ t \in Seq(S) /\ q = h \o t
      /\ Times(h, x) = IF Head(q) = x THEN 1 ELSE 0
  BY <1>1, TimesOne
<1> HIDE DEF h, t
<1>3. Times(h \o t, x) = Times(h, x) + Times(t, x)
  BY <1>2, TimesConcat
<1>4. Times(t, x) \in Nat
  BY <1>2, TimesNat
<1>5. Times(q, x) = IF Head(q) = x THEN Times(t, x) + 1 ELSE Times(t, x)
  BY <1>2, <1>3, <1>4
<1> QED
  BY <1>5 DEF t
-----------------------------------------------------------------------------
\* A finite set of natural numbers can be listed in ascending order.
LEMMA AscendingList ==
  ASSUME NEW n \in Nat, NEW T, T \subseteq 0 .. n - 1
  PROVE  \E s \in [1 .. Cardinality(T) -> T] : \A j, k \in DOMAIN s : j < k => s[j] < s[k]
<1> DEFINE Listed(U) == \E s \in [1 .. Cardinality(U) -> U] : \A j, k \in DOMAIN s : j < k => s[j] < s[k]
           S == {m \in Nat : \A U \in SUBSET (0 .. m - 1) : Listed(U)}
<1>1. 0 \in S
  <2>1. ASSUME NEW U \in SUBSET (0 .. 0 - 1) PROVE Listed(U)
    <3>1. U = {}
      OBVIOUS
    <3>2. Cardinality(U) = 0
      BY <3>1, FS_EmptySet
    <3>3. [i \in 1 .. 0 |-> 0] \in [1 .. Cardinality(U) -> U]
      BY <3>2
    <3>4. \A j, k \in DOMAIN [i \in 1 .. 0 |-> 0] : FALSE
      OBVIOUS
    <3> QED
      BY <3>3, <3>4
  <2> QED
    BY <2>1
<1>2. ASSUME NEW m \in Nat, m \in S PROVE m + 1 \in S
  <2> SUFFICES ASSUME NEW U \in SUBSET (0 .. (m + 1) - 1) PROVE Listed(U)
    OBVIOUS
  <2>1. CASE m \notin U
    <3>1. U \in SUBSET (0 .. m - 1)
      BY <2>1
    <3> QED
      BY <1>2, <3>1
  <2>2. CASE m \in U
    <3> DEFINE V == U \ {m}
               c == Cardinality(V)
    <3>1. V \in SUBSET (0 .. m - 1) /\ IsFiniteSet(V) /\ c \in Nat /\ Cardinality(U) = c + 1
      <4>1. V \in SUBSET (0 .. m - 1) /\ IsFiniteSet(0 .. m - 1)
        BY FS_Interval
      <4>2. IsFiniteSet(V)
        BY <4>1, FS_Subset
      <4>3. U = V \cup {m} /\ m \notin V
        BY <2>2
      <4> HIDE DEF V
      <4> QED
        BY <4>1, <4>2, <4>3, FS_AddElement, FS_CardinalityType
    <3>2. PICK s \in [1 .. c -> V] : \A j, k \in 1 .. c : j < k => s[j] < s[k]
      <4>1. PICK s \in [1 .. c -> V] : \A j, k \in DOMAIN s : j < k => s[j] < s[k]
        BY <1>2, <3>1
      <4> QED
        BY <4>1
    <3> HIDE DEF c
    <3> DEFINE t == [i \in 1 .. c + 1 |-> IF i <= c THEN s[i] ELSE m]
    <3>3. t \in [1 .. Cardinality(U) -> U]
      BY <2>2, <3>1, <3>2
    <3>4. ASSUME NEW j \in 1 .. c + 1, NEW k \in 1 .. c + 1, j < k
          PROVE  t[j] < t[k]
      <4>1. j \in 1 .. c /\ t[j] = s[j]
        BY <3>1, <3>4
      <4>2. s[j] \in 0 .. m - 1
        BY <3>1, <3>2, <4>1
      <4>3. CASE k \in 1 .. c
        BY <3>2, <3>4, <4>1, <4>3
      <4>4. CASE k = c + 1
        BY <3>1, <4>1, <4>2, <4>4
      <4> QED
        BY <3>1, <4>3, <4>4
    <3>5. DOMAIN t = 1 .. c + 1
      OBVIOUS
    <3> HIDE DEF t
    <3> QED
      BY <3>3, <3>4, <3>5
  <2> QED
    BY <2>1, <2>2
<1>3. n \in S
  <2> HIDE DEF S
  <2> QED
    BY <1>1, <1>2, SetInduction
<1> QED
  BY <1>3
=============================================================================
