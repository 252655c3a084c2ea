------------------------------ MODULE QueueProof ------------------------------
(***************************************************************************)
(* The proofs about the queue: its list is well linked outside the mutex,  *)
(* and it implements the first-in first-out queue, for every number of     *)
(* threads, of nodes and of data pointers.                                 *)
(***************************************************************************)
EXTENDS Queue, SequenceFacts

Place == {"idle", "push", "link", "move", "pop", "advance", "free", "unlock"}

Types ==
  /\ head \in Node \cup {NULL} /\ tail \in Node \cup {NULL}
  /\ next \in [Node -> Node \cup {NULL}] /\ data \in [Node -> Data \cup {NULL}]
  /\ alloc \subseteq Node /\ holder \in Thread \cup {NULL} /\ freed \in BOOLEAN
  /\ pc \in [Thread -> Place]
  /\ ptr \in [Thread -> Node \cup {NULL}]
  /\ result \in [Thread -> Data \cup {NULL}]

\* A thread is past the lock if and only if it holds the mutex.
Exclusive == \A t \in Thread : pc[t] # "idle" <=> holder = t

\* l is the list that starts at h and whose nodes are linked by nx.
PathOf(l, h, nx) ==
  /\ l \in Seq(Node) /\ IsInjective(l)
  /\ h = IF l = << >> THEN NULL ELSE l[1]
  /\ \A i \in 1 .. Len(l) : nx[l[i]] = IF i = Len(l) THEN NULL ELSE l[i + 1]

\* tail is the end of the list l, but for the moment between the two
\* statements of queue_push when it is the node before the end.
EndOf(l) ==
  /\ (\A t \in Thread : pc[t] # "move") => tail = IF l = << >> THEN NULL ELSE l[Len(l)]
  /\ \A t \in Thread : pc[t] = "move" => l # << >> /\ ptr[t] = l[Len(l)]

\* The nodes that are allocated and not linked.
Loose == {ptr[t] : t \in {u \in Thread : pc[u] \in {"link", "free"}}}

\* What is allocated and what the local pointers are, for the list l.
OwnedBy(l) ==
  /\ freed => alloc = {} /\ \A t \in Thread : pc[t] = "idle"
  /\ ~freed => alloc = Range(l) \cup Loose
  /\ \A n \in Range(l) : data[n] \in Data
  /\ \A t \in Thread :
       /\ pc[t] \in {"link", "free"} => ptr[t] \in Node \ Range(l)
       /\ pc[t] = "link" => next[ptr[t]] = NULL /\ data[ptr[t]] \in Data
       /\ pc[t] = "advance" => ptr[t] = head /\ head # NULL

Linked(l) == PathOf(l, head, next) /\ EndOf(l) /\ OwnedBy(l)

IInv == Types /\ Exclusive /\ Linked(List)
-----------------------------------------------------------------------------
\* A list without repetition is at most as long as there are nodes.
LEMMA PathLength ==
  ASSUME NEW l \in Seq(Node), IsInjective(l)
  PROVE  Cardinality(Node) \in Nat /\ Len(l) \in Nat /\ Len(l) <= Cardinality(Node)
<1>1. Len(l) \in Nat /\ DOMAIN l = 1 .. Len(l) /\ l \in [1 .. Len(l) -> Node]
  BY LenProperties
<1>2. IsFiniteSet(Node) /\ Cardinality(Node) \in Nat
  BY QueueAssumption, FS_CardinalityType
<1>3. l \in Injection(1 .. Len(l), Node)
  BY <1>1 DEF Injection
<1>4. IsFiniteSet(1 .. Len(l)) /\ Cardinality(1 .. Len(l)) = Len(l)
  BY <1>1, FS_Interval
<1>5. Cardinality(1 .. Len(l)) <= Cardinality(Node)
  BY <1>2, <1>3, FS_Injection
<1> QED
  BY <1>1, <1>2, <1>4, <1>5

\* The walk of queue_free_ex finds the list that starts at head, all of it.
LEMMA PathIsList ==
  ASSUME NEW l, PathOf(l, head, next)
  PROVE  List = l
<1> DEFINE N == Cardinality(Node)
           Last(s) == s[Len(s)]
           More(s) == LET n == IF s = << >> THEN head ELSE next[Last(s)] IN
                      IF n = NULL THEN s ELSE Append(s, n)
           Part(i) == SubSeq(l, 1, IF i <= Len(l) THEN i ELSE Len(l))
           W(f) == [i \in 0 .. N |-> IF i = 0 THEN << >> ELSE More(f[i - 1])]
           g == [i \in 0 .. N |-> Part(i)]
<1>1. /\ l \in Seq(Node) /\ N \in Nat /\ Len(l) \in Nat /\ Len(l) <= N
      /\ DOMAIN l = 1 .. Len(l)
  BY PathLength, LenProperties DEF PathOf
<1>2. Part(0) = << >>
  BY <1>1, SubSeqEmpty
<1>3. ASSUME NEW i \in 0 .. N, i # 0 PROVE Part(i) = More(Part(i - 1))
  <2>1. CASE i <= Len(l)
    <3> DEFINE s == Part(i - 1)
    <3>1. s = SubSeq(l, 1, i - 1) /\ Part(i) = SubSeq(l, 1, i) /\ i \in 1 .. Len(l)
      BY <1>1, <1>3, <2>1
    <3>2. /\ s \in Seq(Node) /\ Len(s) = i - 1
          /\ \A k \in 1 .. i - 1 : s[k] = l[k]
      BY <1>1, <3>1, SubSeqProperties
    <3>3. Part(i) = Append(s, l[i])
      BY <1>1, <3>1, SubSeqRecursiveSecond
    <3> HIDE DEF s, Part
    <3>4. l[i] \in Node /\ l[i] # NULL
      BY <1>1, <3>1, QueueAssumption
    <3>5. CASE i = 1
      <4>1. s = << >> /\ head = l[1]
        BY <3>1, <3>2, <3>5, EmptySeq DEF PathOf
      <4> QED
        BY <3>3, <3>4, <3>5, <4>1 DEF s
    <3>6. CASE i # 1
      <4>1. s # << >> /\ Last(s) = l[i - 1] /\ i - 1 \in 1 .. Len(l) /\ i - 1 # Len(l)
        BY <1>1, <3>1, <3>2, <3>6, EmptySeq
      <4>2. next[l[i - 1]] = l[(i - 1) + 1] /\ (i - 1) + 1 = i
        <5>1. \A k \in 1 .. Len(l) : k # Len(l) => next[l[k]] = l[k + 1]
          BY DEF PathOf
        <5>2. (i - 1) + 1 = i
          BY <1>1, <3>1
        <5> QED
          BY <4>1, <5>1, <5>2
      <4> QED
        BY <3>3, <3>4, <4>1, <4>2 DEF s
    <3> QED
      BY <3>5, <3>6
  <2>2. CASE ~(i <= Len(l))
    <3>1. Part(i) = l /\ Part(i - 1) = l
      <4>1. SubSeq(l, 1, Len(l)) = l
        BY <1>1, SubSeqFull
      <4>2. i - 1 <= Len(l) => i - 1 = Len(l)
        BY <1>1, <2>2
      <4> QED
        BY <2>2, <4>1, <4>2
    <3>2. l # << >> => Last(l) = l[Len(l)] /\ Len(l) \in 1 .. Len(l)
      BY <1>1, EmptySeq
    <3>3. More(l) = l
      BY <3>2 DEF PathOf
    <3> HIDE DEF More, Part
    <3> QED
      BY <3>1, <3>3
  <2> QED
    BY <2>1, <2>2
<1>4. g = W(g)
  <2>1. ASSUME NEW i \in 0 .. N
        PROVE  Part(i) = IF i = 0 THEN << >> ELSE More(g[i - 1])
    <3>1. i # 0 => i - 1 \in 0 .. N
      BY <1>1
    <3>2. i # 0 => g[i - 1] = Part(i - 1)
      BY <3>1
    <3> HIDE DEF Part, More, g
    <3> QED
      BY <1>2, <1>3, <3>2
  <2> HIDE DEF Part, More
  <2> QED
    BY <2>1
<1>5. Walk = W(Walk)
  <2>1. Walk = CHOOSE f : f = W(f)
    BY DEF Walk
  <2> HIDE DEF W, g
  <2> QED
    BY <1>4, <2>1
<1>6. \A i \in 0 .. N : Walk[i] = g[i]
  <2> DEFINE S == {i \in Nat : i <= N => Walk[i] = g[i]}
  <2>1. ASSUME NEW f, f = W(f)
        PROVE  /\ f[0] = << >>
               /\ \A i \in Nat : i + 1 <= N => f[i + 1] = More(f[i])
    <3>1. \A i \in 0 .. N : f[i] = IF i = 0 THEN << >> ELSE More(f[i - 1])
      BY <2>1
    <3> HIDE DEF More, W
    <3>2. 0 \in 0 .. N
      BY <1>1
    <3>3. ASSUME NEW i \in Nat, i + 1 <= N PROVE f[i + 1] = More(f[i])
      <4>1. i + 1 \in 0 .. N /\ i + 1 # 0 /\ (i + 1) - 1 = i
        BY <1>1, <3>3
      <4>2. f[i + 1] = More(f[(i + 1) - 1])
        BY <3>1, <4>1
      <4> QED
        BY <4>1, <4>2
    <3> QED
      BY <3>1, <3>2, <3>3
  <2> HIDE DEF W, g, More
  <2>2. /\ Walk[0] = << >> /\ g[0] = << >>
        /\ \A i \in Nat : i + 1 <= N => Walk[i + 1] = More(Walk[i]) /\ g[i + 1] = More(g[i])
    BY <1>4, <1>5, <2>1
  <2>3. 0 \in S
    BY <2>2
  <2>4. ASSUME NEW i \in Nat, i \in S PROVE i + 1 \in S
    BY <1>1, <2>2, <2>4
  <2> HIDE DEF S
  <2>5. Nat \subseteq S
    BY <2>3, <2>4, SetInduction
  <2> QED
    BY <1>1, <2>5 DEF S
<1>7. g[N] = l
  <2>1. N \in 0 .. N /\ Part(N) = SubSeq(l, 1, Len(l))
    BY <1>1
  <2>2. g[N] = Part(N)
    BY <2>1
  <2> QED
    BY <1>1, <2>1, <2>2, SubSeqFull
<1> QED
  BY <1>1, <1>6, <1>7 DEF List

\* What is linked is what the walk finds, in this state and in the next.
LEMMA LinkedIsList == \A l : Linked(l) => List = l
BY PathIsList DEF Linked

\* The same in the next state.
LEMMA LinkedIsListNext == (\A l : Linked(l) => List = l)'
<1>1. \A l : Linked(l) => List = l
  BY LinkedIsList
<1> QED
  BY <1>1, PTL

-----------------------------------------------------------------------------
\* The empty queue.
LEMMA InitHolds == Init => IInv
<1> SUFFICES ASSUME Init PROVE IInv
  OBVIOUS
<1>1. Types
  BY QueueAssumption DEF Init, Types, Place
<1>2. Exclusive
  BY QueueAssumption DEF Init, Exclusive
<1>3. Linked(<< >>)
  <2>1. PathOf(<< >>, head, next)
    BY DEF Init, PathOf, IsInjective
  <2>2. EndOf(<< >>)
    BY DEF Init, EndOf
  <2>3. Range(<< >>) = {} /\ Loose = {}
    BY DEF Init, Loose, Range
  <2>4. OwnedBy(<< >>)
    BY <2>3 DEF Init, OwnedBy
  <2> QED
    BY <2>1, <2>2, <2>4 DEF Linked
<1>4. Linked(List)
  BY <1>3, LinkedIsList
<1> QED
  BY <1>1, <1>2, <1>4 DEF IInv

\* No step of a thread breaks the types or the mutual exclusion.
LEMMA TypesKept ==
  ASSUME Types, Exclusive, Linked(List), NEW t \in Thread, Step(t)
  PROVE  Types' /\ Exclusive'
<1>1. CASE Lock(t)
  BY <1>1, QueueAssumption DEF Types, Exclusive, Place, Lock, Goto, Take
<1>2. CASE Unlock(t)
  BY <1>2, QueueAssumption DEF Types, Exclusive, Place, Unlock, Goto, SetPtr
<1>3. ASSUME NEW n \in Node, NEW d \in Data, PushNode(t, n, d) PROVE Types' /\ Exclusive'
  BY <1>3, QueueAssumption DEF Types, Exclusive, Place, PushNode, Goto, SetPtr
<1>4. CASE PushLink(t)
  BY <1>4, QueueAssumption DEF Types, Exclusive, Place, PushLink, Goto
<1>5. CASE PushMove(t)
  BY <1>5, QueueAssumption DEF Types, Exclusive, Place, PushMove, Goto
<1>6. CASE PushFirst(t)
  BY <1>6, QueueAssumption DEF Types, Exclusive, Place, PushFirst, Goto
<1>7. CASE PopHead(t)
  BY <1>7, QueueAssumption DEF Types, Exclusive, Place, PopHead, Goto, SetPtr
<1>8. CASE PopAdvance(t)
  <2>1. ptr[t] \in Node
    BY <1>8 DEF Types, Linked, OwnedBy, PopAdvance, Goto
  <2> QED
    BY <1>8, <2>1, QueueAssumption DEF Types, Exclusive, Place, PopAdvance, Goto, TailAfter
<1>9. CASE PopFree(t)
  BY <1>9, QueueAssumption DEF Types, Exclusive, Place, PopFree, Goto
<1> QED
  BY <1>1, <1>2, <1>3, <1>4, <1>5, <1>6, <1>7, <1>8, <1>9 DEF Step

\* Only the thread inside the mutex has a node in its hand.
LEMMA LooseOf ==
  \A t \in Thread : Exclusive /\ (holder = t \/ holder = NULL) =>
    Loose = IF pc[t] \in {"link", "free"} THEN {ptr[t]} ELSE {}
<1> SUFFICES ASSUME NEW t \in Thread, Exclusive, holder = t \/ holder = NULL
             PROVE  Loose = IF pc[t] \in {"link", "free"} THEN {ptr[t]} ELSE {}
  OBVIOUS
<1>1. \A u \in Thread : u # t => pc[u] = "idle"
  BY QueueAssumption DEF Exclusive
<1> QED
  BY <1>1 DEF Loose

\* The same in the next state.
LEMMA LooseOfNext ==
  (\A t \in Thread : Exclusive /\ (holder = t \/ holder = NULL) =>
     Loose = IF pc[t] \in {"link", "free"} THEN {ptr[t]} ELSE {})'
<1>1. \A t \in Thread : Exclusive /\ (holder = t \/ holder = NULL) =>
        Loose = IF pc[t] \in {"link", "free"} THEN {ptr[t]} ELSE {}
  BY LooseOf
<1> QED
  BY <1>1, PTL

\* The steps that leave the list alone.
LEMMA ListStays ==
  ASSUME Types, Exclusive, NEW l, Linked(l), NEW t \in Thread,
         Types', Exclusive',
         \/ Lock(t) \/ Unlock(t) \/ PushMove(t) \/ PopHead(t) \/ PopFree(t)
  PROVE  Linked(l)'
<1>1. /\ l \in Seq(Node) /\ Len(l) \in Nat /\ \A i \in 1 .. Len(l) : l[i] \in Node /\ l[i] # NULL
      /\ l # << >> => Len(l) \in 1 .. Len(l)
  <2>1. l \in Seq(Node) /\ Len(l) \in Nat /\ DOMAIN l = 1 .. Len(l) /\ (l # << >> => Len(l) # 0)
    BY LenProperties, EmptySeq DEF Linked, PathOf
  <2> QED
    BY <2>1, QueueAssumption
<1>2. head' = head /\ next' = next /\ data' = data /\ freed' = freed
  BY DEF Lock, Unlock, PushMove, PopHead, PopFree
<1>3. PathOf(l, head', next')
  BY <1>2 DEF Linked
<1>4. /\ (holder = t \/ holder = NULL) /\ (holder' = t \/ holder' = NULL)
      /\ \A u \in Thread : u # t => pc[u] = "idle" /\ pc'[u] = "idle"
  BY QueueAssumption DEF Types, Exclusive, Lock, Unlock, PushMove, PopHead, PopFree, Goto, Take
<1>5. EndOf(l)'
  <2>1. CASE Lock(t)
    BY <2>1, <1>4 DEF Linked, EndOf, Lock, Goto, Types
  <2>2. CASE Unlock(t)
    BY <2>2, <1>4 DEF Linked, EndOf, Unlock, Goto, Types
  <2>3. CASE PushMove(t)
    BY <2>3, <1>4 DEF Linked, EndOf, PushMove, Goto, Types
  <2>4. CASE PopHead(t)
    BY <2>4, <1>4 DEF Linked, EndOf, PopHead, Goto, Types
  <2>5. CASE PopFree(t)
    BY <2>5, <1>4 DEF Linked, EndOf, PopFree, Goto, Types
  <2> QED
    BY <2>1, <2>2, <2>3, <2>4, <2>5
<1>6. /\ Loose = IF pc[t] \in {"link", "free"} THEN {ptr[t]} ELSE {}
      /\ Loose' = IF pc'[t] \in {"link", "free"} THEN {ptr'[t]} ELSE {}
  BY <1>4, LooseOf, LooseOfNext
<1>7. OwnedBy(l)'
  <2>1. freed' = FALSE /\ freed = FALSE
    BY <1>2 DEF Linked, OwnedBy, Types, Lock, Unlock, PushMove, PopHead, PopFree, Goto
  <2>2. alloc' = Range(l) \cup Loose'
    BY <1>6, <2>1 DEF Linked, OwnedBy, Types, Lock, Unlock, PushMove, PopHead, PopFree, Goto
  <2>3. \A n \in Range(l) : data'[n] \in Data
    BY <1>2 DEF Linked, OwnedBy
  <2>4. /\ pc'[t] \in {"idle", "push", "pop", "unlock", "advance"}
        /\ pc'[t] = "advance" => ptr'[t] = head' /\ head' # NULL
    BY DEF Types, Lock, Unlock, PushMove, PopHead, PopFree, Goto, SetPtr
  <2> QED
    BY <1>4, <2>1, <2>2, <2>3, <2>4 DEF OwnedBy
<1> QED
  BY <1>3, <1>5, <1>7 DEF Linked

\* The new node: its fields are set while it is not linked yet.
LEMMA NodeStays ==
  ASSUME Types, Exclusive, NEW l, Linked(l), NEW t \in Thread,
         Types', Exclusive', NEW n \in Node, NEW d \in Data, PushNode(t, n, d)
  PROVE  Linked(l)'
<1>1. /\ l \in Seq(Node) /\ Range(l) \subseteq alloc /\ n \notin Range(l)
      /\ \A i \in 1 .. Len(l) : l[i] \in Range(l)
      /\ freed = FALSE /\ alloc = Range(l)
  <2>1. l \in Seq(Node) /\ DOMAIN l = 1 .. Len(l)
    BY LenProperties DEF Linked, PathOf
  <2>2. freed = FALSE
    BY DEF Linked, OwnedBy, Types, PushNode, Goto
  <2>3. Loose = {}
    BY LooseOf DEF Exclusive, PushNode, Goto, Types
  <2> QED
    BY <2>1, <2>2, <2>3 DEF Linked, OwnedBy, PushNode, Range
<1>2. /\ head' = head /\ tail' = tail /\ holder' = holder /\ freed' = freed
      /\ next' = [next EXCEPT ![n] = NULL] /\ data' = [data EXCEPT ![n] = d]
      /\ alloc' = alloc \cup {n}
      /\ pc[t] = "push" /\ pc' = [pc EXCEPT ![t] = "link"] /\ ptr' = [ptr EXCEPT ![t] = n]
  BY DEF PushNode, Goto, SetPtr
<1>3. /\ \A u \in Node : u # n => next'[u] = next[u] /\ data'[u] = data[u]
      /\ next'[n] = NULL /\ data'[n] = d
      /\ pc'[t] = "link" /\ ptr'[t] = n
  BY <1>2 DEF Types
<1>4. /\ holder = t
      /\ \A u \in Thread : u # t => pc[u] = "idle" /\ pc'[u] = "idle"
  BY <1>2, QueueAssumption DEF Types, Exclusive
<1>5. PathOf(l, head', next')
  <2>1. \A i \in 1 .. Len(l) : next'[l[i]] = next[l[i]]
    BY <1>1, <1>3 DEF Types
  <2> QED
    BY <1>2, <2>1 DEF Linked, PathOf
<1>6. EndOf(l)'
  BY <1>2, <1>3, <1>4 DEF Linked, EndOf
<1>7. OwnedBy(l)'
  <2>1. Loose' = {n}
    BY <1>2, <1>3, <1>4, LooseOfNext
  <2>2. \A m \in Range(l) : data'[m] \in Data
    BY <1>1, <1>3 DEF Linked, OwnedBy, Types
  <2> QED
    BY <1>1, <1>2, <1>3, <1>4, <2>1, <2>2 DEF OwnedBy
<1> QED
  BY <1>5, <1>6, <1>7 DEF Linked

\* A push puts its node behind the last one.
LEMMA ListGrows ==
  ASSUME Types, Exclusive, NEW l, Linked(l), NEW t \in Thread,
         Types', Exclusive', PushLink(t) \/ PushFirst(t), NEW r, r = Append(l, ptr[t])
  PROVE  Linked(r)'
<1> DEFINE n == ptr[t]
<1>1. /\ n \in Node \ Range(l) /\ next[n] = NULL /\ data[n] \in Data
      /\ pc[t] = "link" /\ freed = FALSE /\ holder = t
      /\ l \in Seq(Node) /\ IsInjective(l)
      /\ \A u \in Thread : u # t => pc[u] = "idle"
  BY QueueAssumption DEF Types, Exclusive, Linked, PathOf, OwnedBy, PushLink, PushFirst, Goto
<1> HIDE DEF n
<1>2. /\ r \in Seq(Node) /\ IsInjective(r) /\ r # << >> /\ Range(r) = Range(l) \cup {n}
      /\ Len(l) \in Nat /\ Len(r) = Len(l) + 1 /\ r[Len(r)] = n
      /\ \A i \in 1 .. Len(l) : r[i] = l[i] /\ l[i] \in Range(l) /\ l[i] \in Node
      /\ l = << >> <=> Len(l) = 0
  <2>1. DOMAIN l = 1 .. Len(l)
    BY <1>1, LenProperties
  <2>2. \A i \in 1 .. Len(l) : r[i] = l[i]
    BY <1>1, AppendProperties DEF n
  <2> QED
    BY <1>1, <2>1, <2>2, PushFacts, EmptySeq DEF Range, n
<1>3. tail = IF l = << >> THEN NULL ELSE l[Len(l)]
  BY <1>1 DEF Linked, EndOf
<1>4. /\ data' = data /\ alloc' = alloc /\ freed' = freed /\ ptr' = ptr
      /\ IF l = << >>
           THEN head' = n /\ tail' = n /\ next' = next /\ pc' = [pc EXCEPT ![t] = "unlock"]
           ELSE head' = head /\ next' = [next EXCEPT ![l[Len(l)]] = n] /\ pc' = [pc EXCEPT ![t] = "move"]
  <2>1. l # << >> => l[Len(l)] # NULL
    BY <1>2, QueueAssumption
  <2> QED
    BY <1>3, <2>1 DEF PushLink, PushFirst, Goto, n
<1>5. \A u \in Thread : u # t => pc'[u] = "idle"
  BY <1>1, <1>4 DEF Types
<1>6. PathOf(r, head', next')
  <2>1. CASE l = << >>
    <3>1. Len(r) = 1 /\ r[1] = n
      BY <1>2, <2>1
    <3> QED
      BY <1>1, <1>2, <1>4, <2>1, <3>1 DEF PathOf
  <2>2. CASE l # << >>
    <3>1. head' = r[1]
      BY <1>2, <1>4, <2>2 DEF Linked, PathOf
    <3>2. ASSUME NEW i \in 1 .. Len(r)
          PROVE  next'[r[i]] = IF i = Len(r) THEN NULL ELSE r[i + 1]
      <4>1. CASE i = Len(r)
        BY <1>1, <1>2, <1>4, <2>2, <4>1 DEF Types
      <4>2. CASE i = Len(l)
        BY <1>2, <1>4, <2>2, <4>2 DEF Types
      <4>3. CASE i \in 1 .. Len(l) /\ i # Len(l)
        <5>1. l[i] # l[Len(l)] /\ Len(l) \in 1 .. Len(l)
          BY <1>1, <1>2, <4>3, LenProperties DEF IsInjective
        <5>2. next'[l[i]] = next[l[i]]
          BY <1>2, <1>4, <2>2, <4>3, <5>1 DEF Types
        <5>3. next[l[i]] = l[i + 1]
          BY <4>3 DEF Linked, PathOf
        <5>4. r[i] = l[i] /\ r[i + 1] = l[i + 1] /\ i # Len(r)
          BY <1>2, <4>3
        <5> QED
          BY <5>2, <5>3, <5>4
      <4> QED
        BY <1>2, <4>1, <4>2, <4>3
    <3> QED
      BY <1>2, <3>1, <3>2 DEF PathOf
  <2> QED
    BY <2>1, <2>2
<1>7. EndOf(r)'
  <2>1. CASE l = << >>
    BY <1>2, <1>4, <1>5, <2>1 DEF EndOf, Types
  <2>2. CASE l # << >>
    <3>1. pc'[t] = "move" /\ ptr'[t] = n
      BY <1>4, <2>2 DEF Types, n
    <3> QED
      BY <1>2, <1>5, <3>1 DEF EndOf
  <2> QED
    BY <2>1, <2>2
<1>8. OwnedBy(r)'
  <2>1. pc'[t] \in {"unlock", "move"} /\ holder' = t
    BY <1>1, <1>4 DEF Types, PushLink, PushFirst
  <2>2. Loose' = {} /\ Loose = {n}
    BY <1>1, <2>1, LooseOf, LooseOfNext DEF n
  <2>3. alloc' = Range(r) \cup Loose'
    BY <1>1, <1>2, <1>4, <2>2 DEF Linked, OwnedBy
  <2>4. \A m \in Range(r) : data'[m] \in Data
    BY <1>1, <1>2, <1>4 DEF Linked, OwnedBy
  <2> QED
    BY <1>1, <1>4, <1>5, <2>1, <2>3, <2>4 DEF OwnedBy
<1> QED
  BY <1>6, <1>7, <1>8 DEF Linked

\* A pop takes the first node out of the list.
LEMMA ListShrinks ==
  ASSUME Types, Exclusive, NEW l, Linked(l), NEW t \in Thread,
         Types', Exclusive', PopAdvance(t), NEW r, r = Tail(l)
  PROVE  Linked(r)' /\ l # << >> /\ ptr[t] = Head(l)
<1> DEFINE n == ptr[t]
<1>1. /\ n = head /\ head # NULL /\ pc[t] = "advance" /\ freed = FALSE /\ holder = t
      /\ l \in Seq(Node) /\ IsInjective(l)
      /\ \A u \in Thread : u # t => pc[u] = "idle"
  BY QueueAssumption DEF Types, Exclusive, Linked, PathOf, OwnedBy, PopAdvance, Goto
<1> HIDE DEF n
<1>2. l # << >> /\ n = l[1]
  BY <1>1 DEF Linked, PathOf
<1>3. /\ Head(l) = l[1] /\ n \in Node
      /\ r \in Seq(Node) /\ IsInjective(r) /\ n \notin Range(r) /\ Range(l) = Range(r) \cup {n}
      /\ Len(l) \in Nat /\ Len(r) = Len(l) - 1 /\ Len(r) \in Nat
      /\ \A i \in 1 .. Len(r) : r[i] = l[i + 1]
      /\ r = << >> <=> Len(r) = 0
      /\ Len(l) > 1 => r # << >> /\ r[Len(r)] = l[Len(l)]
  <2>1. /\ Head(l) = l[1] /\ \A i \in 1 .. Len(r) : r[i] = l[i + 1]
    BY <1>1, <1>2, HeadTailProperties
  <2>2. /\ Head(l) \in Node /\ r \in Seq(Node)
        /\ Len(l) \in Nat /\ Len(r) = Len(l) - 1 /\ Len(r) \in Nat
        /\ Range(l) = Range(r) \cup {Head(l)}
        /\ IsInjective(r) /\ Head(l) \notin Range(r)
        /\ Len(l) > 1 => r # << >> /\ r[Len(r)] = l[Len(l)]
    BY <1>1, <1>2, PopFacts
  <2>3. r = << >> <=> Len(r) = 0
    BY <2>2, EmptySeq
  <2> QED
    BY <1>1, <1>2, <2>1, <2>2, <2>3
<1>4. \A i \in 1 .. Len(l) : next[l[i]] = IF i = Len(l) THEN NULL ELSE l[i + 1]
  BY DEF Linked, PathOf
<1>5. next[n] = IF r = << >> THEN NULL ELSE r[1]
  <2>1. 1 \in 1 .. Len(l) /\ (r = << >> <=> 1 = Len(l)) /\ (r # << >> => r[1] = l[1 + 1])
    BY <1>3
  <2> QED
    BY <1>2, <1>4, <2>1
<1>6. /\ head' = next[n] /\ tail' = (IF next[n] = NULL THEN NULL ELSE tail) /\ next' = next
      /\ data' = data /\ alloc' = alloc /\ freed' = freed /\ ptr' = ptr /\ holder' = holder
      /\ pc' = [pc EXCEPT ![t] = "free"]
  BY DEF PopAdvance, Goto, TailAfter, n
<1>7. pc'[t] = "free" /\ \A u \in Thread : u # t => pc'[u] = "idle"
  BY <1>1, <1>6 DEF Types
<1>8. PathOf(r, head', next')
  <2>1. ASSUME NEW i \in 1 .. Len(r)
        PROVE  next[r[i]] = IF i = Len(r) THEN NULL ELSE r[i + 1]
    <3>1. i + 1 \in 1 .. Len(l) /\ r[i] = l[i + 1] /\ (i = Len(r) <=> i + 1 = Len(l))
      BY <1>3
    <3>2. ASSUME NEW j, j = i + 1
          PROVE  next[l[j]] = IF j = Len(l) THEN NULL ELSE l[j + 1]
      BY <1>4, <3>1, <3>2
    <3>3. ASSUME NEW j, j = i + 1, i # Len(r)
          PROVE  r[j] = l[j + 1]
      <4>1. Len(r) \in Nat /\ Len(r) \in Int
        BY <1>3
      <4> PICK m \in Int : m = Len(r)
        BY <4>1
      <4>3. j \in 1 .. m
        BY <3>3
      <4>2. j \in 1 .. Len(r)
        BY <4>3
      <4> QED
        BY <1>3, <4>2
    <3> QED
      BY <3>1, <3>2, <3>3
  <2> QED
    BY <1>3, <1>5, <1>6, <2>1 DEF PathOf
<1>9. EndOf(r)'
  <2>1. tail = l[Len(l)]
    BY <1>1, <1>2 DEF Linked, EndOf
  <2>2. r # << >> => r[1] # NULL /\ Len(l) > 1
    <3>1. r # << >> => 1 \in 1 .. Len(r)
      BY <1>3
    <3> QED
      BY <1>3, <3>1, QueueAssumption
  <2>3. tail' = IF r = << >> THEN NULL ELSE r[Len(r)]
    BY <1>3, <1>5, <1>6, <2>1, <2>2
  <2> QED
    BY <1>7, <2>3 DEF EndOf
<1>10. OwnedBy(r)'
  <2>1. Loose' = {n} /\ Loose = {}
    BY <1>1, <1>6, <1>7, LooseOf, LooseOfNext DEF n
  <2>2. alloc' = Range(r) \cup Loose'
    BY <1>1, <1>3, <1>6, <2>1 DEF Linked, OwnedBy
  <2>3. \A m \in Range(r) : data'[m] \in Data
    BY <1>3, <1>6 DEF Linked, OwnedBy
  <2>4. ptr'[t] = n
    BY <1>6 DEF n
  <2> QED
    BY <1>1, <1>3, <1>6, <1>7, <2>2, <2>3, <2>4 DEF OwnedBy
<1> QED
  BY <1>2, <1>3, <1>8, <1>9, <1>10 DEF Linked, n

-----------------------------------------------------------------------------
\* What the list is after a step of a thread: a push has put a node at its
\* end, a pop has taken its first one, and any other step has left it alone.
LEMMA StepHolds ==
  ASSUME IInv, NEW t \in Thread, Step(t)
  PROVE  /\ IInv'
         /\ CASE PushLink(t) \/ PushFirst(t) -> List' = Append(List, ptr[t])
              [] PopAdvance(t) -> List # << >> /\ ptr[t] = Head(List) /\ List' = Tail(List)
              [] OTHER -> List' = List
<1> PICK l : l = List
  OBVIOUS
<1>1. Types /\ Exclusive /\ Linked(l)
  BY DEF IInv
<1>2. Types' /\ Exclusive'
  BY TypesKept DEF IInv
<1>3. ASSUME PushLink(t) \/ PushFirst(t)
      PROVE  Linked(List)' /\ List' = Append(l, ptr[t])
  <2>1. PICK r : r = Append(l, ptr[t])
    OBVIOUS
  <2>2. Linked(r)'
    BY <1>1, <1>2, <1>3, <2>1, ListGrows
  <2>3. List' = r
    BY <2>2, LinkedIsListNext
  <2>4. Linked(List)'
    BY <2>2, <2>3 DEF Linked, PathOf, EndOf, OwnedBy
  <2> QED
    BY <2>1, <2>3, <2>4
<1>4. ASSUME PopAdvance(t)
      PROVE  Linked(List)' /\ l # << >> /\ ptr[t] = Head(l) /\ List' = Tail(l)
  <2>1. PICK r : r = Tail(l)
    OBVIOUS
  <2>2. Linked(r)' /\ l # << >> /\ ptr[t] = Head(l)
    BY <1>1, <1>2, <1>4, <2>1, ListShrinks
  <2>3. List' = r
    BY <2>2, LinkedIsListNext
  <2>4. Linked(List)'
    BY <2>2, <2>3 DEF Linked, PathOf, EndOf, OwnedBy
  <2> QED
    BY <2>1, <2>2, <2>3, <2>4
<1>5. ASSUME ~(PushLink(t) \/ PushFirst(t)), ~PopAdvance(t)
      PROVE  Linked(List)' /\ List' = l
  <2>1. Linked(l)'
    BY <1>1, <1>2, <1>5, ListStays, NodeStays DEF Step
  <2>2. List' = l
    BY <2>1, LinkedIsListNext
  <2>3. Linked(List)'
    BY <2>1, <2>2 DEF Linked, PathOf, EndOf, OwnedBy
  <2> QED
    BY <2>2, <2>3
<1>6. ~((PushLink(t) \/ PushFirst(t)) /\ PopAdvance(t))
  BY DEF PushLink, PushFirst, PopAdvance, Goto
<1> QED
  BY <1>2, <1>3, <1>4, <1>5, <1>6 DEF IInv

\* queue_free gives back every node there is.
LEMMA FreeHolds ==
  ASSUME IInv, QueueFree
  PROVE  IInv' /\ List' = List
<1> PICK l : l = List
  OBVIOUS
<1>1. Types /\ Exclusive /\ Linked(l)
  BY DEF IInv
<1>2. Types' /\ Exclusive'
  BY <1>1 DEF Types, Exclusive, QueueFree
<1>3. Nodes = Range(l)
  <2>1. DOMAIN l = 1 .. Len(l)
    BY <1>1, LenProperties DEF Linked, PathOf
  <2> QED
    BY <2>1 DEF Nodes, Range
<1>4. Loose = {}
  BY DEF Loose, QueueFree
<1>5. alloc' = {}
  BY <1>1, <1>3, <1>4 DEF Linked, OwnedBy, QueueFree
<1>6. Linked(l)'
  BY <1>1, <1>5 DEF Linked, PathOf, EndOf, OwnedBy, QueueFree
<1>7. List' = l
  BY <1>6, LinkedIsListNext
<1>8. Linked(List)'
  BY <1>6, <1>7 DEF Linked, PathOf, EndOf, OwnedBy
<1> QED
  BY <1>2, <1>7, <1>8 DEF IInv

\* The inductive invariant of the queue.
THEOREM QueueInvariant == Spec => []IInv
<1>1. Init => IInv
  BY InitHolds
<1>2. IInv /\ [Next]_vars => IInv'
  <2> SUFFICES ASSUME IInv, [Next]_vars PROVE IInv'
    OBVIOUS
  <2>1. CASE vars' = vars
    <3> PICK l : l = List
      OBVIOUS
    <3>1. Types' /\ Exclusive'
      BY <2>1 DEF IInv, Types, Exclusive, vars
    <3>2. Linked(l)'
      <4>1. Loose' = Loose
        BY <2>1 DEF Loose, vars
      <4> QED
        BY <2>1, <4>1 DEF IInv, Linked, PathOf, EndOf, OwnedBy, vars
    <3>3. List' = l
      BY <3>2, LinkedIsListNext
    <3>4. Linked(List)'
      BY <3>2, <3>3 DEF Linked, PathOf, EndOf, OwnedBy
    <3> QED
      BY <3>1, <3>4 DEF IInv
  <2>2. CASE Next
    BY <2>2, StepHolds, FreeHolds DEF Next
  <2> QED
    BY <2>1, <2>2
<1> QED
  BY <1>1, <1>2, PTL DEF Spec

\* No push is lost behind a stale tail, no node is freed while it is linked or
\* in the hand of a thread, and none leaks (queue_push, queue_pop and
\* queue_free_ex).
THEOREM QueueKeepsList == Spec => []WellLinked
<1>1. IInv => WellLinked
  <2> SUFFICES ASSUME IInv PROVE WellLinked
    OBVIOUS
  <2> PICK l : l = List
    OBVIOUS
  <2>1. Types /\ Exclusive /\ PathOf(l, head, next) /\ EndOf(l) /\ OwnedBy(l)
    BY DEF IInv, Linked
  <2>2. /\ Len(l) \in Nat /\ Range(l) = {l[i] : i \in 1 .. Len(l)}
        /\ l # << >> => l[1] \in Range(l) /\ l[Len(l)] \in Range(l)
    <3>1. /\ DOMAIN l = 1 .. Len(l) /\ Len(l) \in Nat
          /\ l # << >> => 1 \in 1 .. Len(l) /\ Len(l) \in 1 .. Len(l)
      BY <2>1, LenProperties, EmptySeq DEF PathOf
    <3> QED
      BY <3>1 DEF Range
  <2>3. Nodes = Range(l)
    BY <2>2 DEF Nodes
  <2>4. freed => alloc = {}
    BY <2>1 DEF OwnedBy
  <2>5. ~freed /\ holder = NULL => Nodes = alloc /\ tail = IF l = << >> THEN NULL ELSE l[Len(l)]
    <3> HAVE ~freed /\ holder = NULL
    <3>1. \A t \in Thread : pc[t] = "idle"
      BY <2>1, QueueAssumption DEF Exclusive
    <3>2. Loose = {}
      BY <3>1 DEF Loose
    <3> QED
      BY <2>1, <2>3, <3>1, <3>2 DEF EndOf, OwnedBy
  <2>6. ASSUME NEW t \in Thread, pc[t] \in {"link", "move", "advance", "free"}
        PROVE  ptr[t] \in alloc
    <3>1. ~freed /\ alloc = Range(l) \cup Loose
      BY <2>1, <2>6 DEF OwnedBy
    <3>2. CASE pc[t] \in {"link", "free"}
      BY <3>1, <3>2 DEF Loose
    <3>3. CASE pc[t] = "move"
      BY <2>1, <2>2, <3>1, <3>3 DEF EndOf
    <3>4. CASE pc[t] = "advance"
      BY <2>1, <2>2, <3>1, <3>4 DEF OwnedBy, PathOf
    <3> QED
      BY <2>6, <3>2, <3>3, <3>4
  <2> QED
    BY <2>4, <2>5, <2>6 DEF WellLinked
<1> QED
  BY <1>1, QueueInvariant, PTL

-----------------------------------------------------------------------------
\* The fields d of the nodes of l.
Values(d, l) == [i \in 1 .. Len(l) |-> d[l[i]]]

\* What the first-in first-out queue holds.
Items == IF freed THEN << >> ELSE Values(data, List)

\* The data of the nodes of a list that is linked, for the fields d.
LEMMA ValuesOf ==
  ASSUME NEW l \in Seq(Node), NEW d, \A n \in Range(l) : d[n] \in Data,
         NEW v, v = Values(d, l)
  PROVE  v \in Seq(Data) /\ Len(v) = Len(l) /\ (v = << >> <=> l = << >>)
<1>1. DOMAIN l = 1 .. Len(l) /\ Len(l) \in Nat
  BY LenProperties
<1>2. \A i \in 1 .. Len(l) : d[l[i]] \in Data
  BY <1>1 DEF Range
<1>3. v \in [1 .. Len(l) -> Data]
  BY <1>2 DEF Values
<1>4. v \in Seq(Data) /\ Len(v) = Len(l)
  <2>1. v \in Seq(Data)
    BY <1>1, <1>3
  <2>2. DOMAIN v = 1 .. Len(l) /\ DOMAIN v = 1 .. Len(v) /\ Len(v) \in Nat
    BY <1>3, <2>1, LenProperties
  <2> QED
    BY <1>1, <2>1, <2>2
<1> QED
  BY <1>1, <1>4, EmptySeq

\* A push appends its data, and a pop takes the first.
LEMMA ValuesGrow ==
  ASSUME NEW l \in Seq(Node), NEW n \in Node, NEW d, \A m \in Range(l) : d[m] \in Data, d[n] \in Data
  PROVE  Values(d, Append(l, n)) = Append(Values(d, l), d[n])
<1> PICK v, r, w : v = Values(d, l) /\ r = Append(l, n) /\ w = Values(d, r)
  OBVIOUS
<1>1. v \in Seq(Data) /\ Len(v) = Len(l) /\ Len(l) \in Nat
  <2>1. v \in Seq(Data) /\ Len(v) = Len(l)
    BY ValuesOf
  <2> QED
    BY <2>1, LenProperties
<1>2. /\ r \in Seq(Node) /\ Len(r) = Len(l) + 1 /\ r[Len(l) + 1] = n
      /\ \A i \in 1 .. Len(l) : r[i] = l[i]
  BY AppendProperties
<1> DEFINE u == Append(v, d[n])
<1>3. /\ u \in Seq(Data) /\ Len(u) = Len(l) + 1 /\ u[Len(l) + 1] = d[n]
      /\ \A i \in 1 .. Len(l) : u[i] = v[i]
  BY <1>1, AppendProperties
<1> HIDE DEF u
<1>4. \A m \in Range(r) : d[m] \in Data
  BY PushFacts
<1>5. w \in Seq(Data) /\ Len(w) = Len(r)
  BY <1>2, <1>4, ValuesOf
<1>6. \A i \in 1 .. Len(l) + 1 : w[i] = u[i]
  <2> TAKE i \in 1 .. Len(l) + 1
  <2>1. w[i] = d[r[i]]
    BY <1>2 DEF Values
  <2>2. CASE i = Len(l) + 1
    BY <1>2, <1>3, <2>1, <2>2
  <2>3. CASE i \in 1 .. Len(l)
    <3>1. v[i] = d[l[i]]
      BY <2>3 DEF Values
    <3> QED
      BY <1>2, <1>3, <2>1, <2>3, <3>1
  <2> QED
    BY <1>1, <2>2, <2>3
<1>7. w = u
  BY <1>1, <1>2, <1>3, <1>5, <1>6, SeqEqual
<1> QED
  BY <1>7 DEF u

\* A pop takes the first of the values.
LEMMA ValuesShrink ==
  ASSUME NEW l \in Seq(Node), l # << >>, NEW d, \A m \in Range(l) : d[m] \in Data
  PROVE  /\ Values(d, l) # << >> /\ Values(d, Tail(l)) = Tail(Values(d, l))
         /\ Head(Values(d, l)) = d[Head(l)]
<1> PICK v, r, w : v = Values(d, l) /\ r = Tail(l) /\ w = Values(d, r)
  OBVIOUS
<1>1. v \in Seq(Data) /\ Len(v) = Len(l) /\ v # << >>
  BY ValuesOf
<1>2. /\ r \in Seq(Node) /\ Len(l) \in Nat \ {0} /\ Len(r) = Len(l) - 1 /\ Head(l) = l[1]
      /\ \A i \in 1 .. Len(r) : r[i] = l[i + 1]
      /\ Range(r) \subseteq Range(l)
  BY HeadTailProperties, PopFacts, EmptySeq, LenProperties
<1> DEFINE u == Tail(v)
<1>3. /\ u \in Seq(Data) /\ Len(u) = Len(l) - 1 /\ Head(v) = v[1]
      /\ \A i \in 1 .. Len(u) : u[i] = v[i + 1]
  BY <1>1, HeadTailProperties
<1> HIDE DEF u
<1>4. w \in Seq(Data) /\ Len(w) = Len(r)
  <2>1. \A m \in Range(r) : d[m] \in Data
    BY <1>2
  <2> QED
    BY <1>2, <2>1, ValuesOf
<1>5. \A i \in 1 .. Len(l) - 1 : w[i] = u[i]
  <2> TAKE i \in 1 .. Len(l) - 1
  <2>1. i \in 1 .. Len(r) /\ i \in 1 .. Len(u) /\ i + 1 \in 1 .. Len(l)
    BY <1>2, <1>3
  <2>2. w[i] = d[r[i]] /\ v[i + 1] = d[l[i + 1]]
    BY <2>1 DEF Values
  <2> QED
    BY <1>2, <1>3, <2>1, <2>2
<1>6. w = u
  BY <1>2, <1>3, <1>4, <1>5, SeqEqual
<1>7. Head(v) = d[Head(l)]
  <2>1. v[1] = d[l[1]]
    BY <1>2 DEF Values
  <2> QED
    BY <1>2, <1>3, <2>1
<1> QED
  BY <1>1, <1>6, <1>7 DEF u

\* A step of a thread is a push or a pop of the first-in first-out queue, or
\* one that it does not see.
LEMMA StepRefines ==
  ASSUME IInv, NEW t \in Thread, Step(t)
  PROVE  \/ UNCHANGED <<Items, result>>
         \/ \E d \in Data : Items' = Append(Items, d) /\ UNCHANGED result
         \/ Items = << >> /\ result' = [result EXCEPT ![t] = NULL] /\ UNCHANGED Items
         \/ /\ Items # << >>
            /\ result' = [result EXCEPT ![t] = Head(Items)] /\ Items' = Tail(Items)
<1> PICK l : l = List
  OBVIOUS
<1>1. /\ Types /\ Exclusive /\ PathOf(l, head, next) /\ OwnedBy(l) /\ l \in Seq(Node)
      /\ \A n \in Range(l) : data[n] \in Data
  BY DEF IInv, Linked, OwnedBy, PathOf
<1>2. freed = FALSE /\ freed' = FALSE
  <2>1. freed = FALSE
    BY <1>1 DEF OwnedBy, Types, Step, Lock, Unlock, PushNode, PushLink, PushMove, PushFirst,
                PopHead, PopAdvance, PopFree, Goto
  <2> QED
    BY <2>1 DEF Step, Lock, Unlock, PushNode, PushLink, PushMove, PushFirst, PopHead, PopAdvance,
                PopFree
<1> PICK v : v = Values(data, l)
  OBVIOUS
<1>3. Items = v
  BY <1>2 DEF Items
<1>4. ASSUME PushLink(t) \/ PushFirst(t)
      PROVE  \E d \in Data : Items' = Append(v, d) /\ UNCHANGED result
  <2>1. PICK n : n = ptr[t]
    OBVIOUS
  <2>2. n \in Node /\ data[n] \in Data /\ data' = data /\ result' = result
    BY <1>1, <1>4, <2>1 DEF OwnedBy, PushLink, PushFirst, Goto
  <2>3. PICK r : r = Append(l, n)
    OBVIOUS
  <2>4. List' = r
    BY <1>4, <2>1, <2>3, StepHolds DEF PushLink, PushFirst, PopAdvance, Goto
  <2>5. Items' = Values(data, r)
    BY <1>2, <2>2, <2>4 DEF Items
  <2>6. Items' = Append(v, data[n])
    <3>1. \A m \in Range(l) : data[m] \in Data
      BY <1>1
    <3>2. Values(data, Append(l, n)) = Append(Values(data, l), data[n])
      BY <1>1, <2>2, <3>1, ValuesGrow, Zenon
    <3> QED
      BY <2>3, <2>5, <3>2
  <2> QED
    BY <2>2, <2>6
<1>5. ASSUME PopAdvance(t)
      PROVE  v # << >> /\ result' = [result EXCEPT ![t] = Head(v)] /\ Items' = Tail(v)
  <2>1. PICK r : r = Tail(l)
    OBVIOUS
  <2>2. l # << >> /\ ptr[t] = Head(l) /\ List' = r /\ data' = data
    BY <1>5, <2>1, StepHolds DEF PushLink, PushFirst, PopAdvance, Goto
  <2> PICK w : w = Values(data, r)
    OBVIOUS
  <2>3. Items' = w
    BY <1>2, <2>2 DEF Items
  <2>4. v # << >> /\ w = Tail(v) /\ Head(v) = data[Head(l)]
    <3>1. /\ Values(data, l) # << >> /\ Values(data, Tail(l)) = Tail(Values(data, l))
          /\ Head(Values(data, l)) = data[Head(l)]
      BY <1>1, <2>2, ValuesShrink, Zenon
    <3> QED
      BY <2>1, <3>1, Zenon
  <2> QED
    BY <1>5, <2>2, <2>3, <2>4 DEF PopAdvance
<1>6. ASSUME NEW n \in Node, NEW d \in Data, PushNode(t, n, d)
      PROVE  UNCHANGED <<Items, result>>
  <2>1. List' = l
    BY <1>6, StepHolds DEF PushNode, PushLink, PushFirst, PopAdvance, Goto
  <2>2. Loose = {} /\ n \notin Range(l)
    <3>1. Loose = {}
      BY <1>1, <1>6, LooseOf DEF Exclusive, Types, PushNode, Goto
    <3> QED
      BY <1>1, <1>2, <1>6, <3>1 DEF OwnedBy, PushNode
  <2>3. \A i \in 1 .. Len(l) : data'[l[i]] = data[l[i]]
    <3>1. DOMAIN l = 1 .. Len(l)
      BY <1>1, LenProperties
    <3>2. \A i \in 1 .. Len(l) : l[i] # n
      BY <2>2, <3>1 DEF Range
    <3> QED
      BY <1>1, <1>6, <3>2 DEF PushNode, Types
  <2>4. Items' = [i \in 1 .. Len(l) |-> data'[l[i]]]
    BY <1>2, <2>1 DEF Items, Values
  <2>5. Items' = v
    BY <2>3, <2>4 DEF Values
  <2> QED
    BY <1>3, <1>6, <2>5 DEF PushNode
<1>7. ASSUME Lock(t) \/ Unlock(t) \/ PushMove(t) \/ PopHead(t) \/ PopFree(t)
      PROVE  Items' = Items
  <2>1. data' = data /\ List' = l
    BY <1>7, StepHolds DEF Lock, Unlock, PushLink, PushFirst, PushMove, PopHead, PopAdvance,
                           PopFree, Goto, Types
  <2> QED
    BY <1>2, <2>1 DEF Items
<1>8. ASSUME Lock(t) \/ Unlock(t) \/ PushMove(t) \/ PopFree(t) PROVE result' = result
  BY <1>8 DEF Lock, Unlock, PushMove, PopFree
<1>9. ASSUME PopHead(t)
      PROVE  result' = result \/ (v = << >> /\ result' = [result EXCEPT ![t] = NULL])
  <2>1. head = NULL => v = << >>
    <3>1. l # << >> => l[1] \in Node
      BY <1>1, EmptySeq, LenProperties
    <3>2. head = NULL => l = << >>
      BY <1>1, <3>1, QueueAssumption DEF PathOf
    <3> QED
      BY <1>1, <3>2, ValuesOf
  <2> QED
    BY <1>9, <2>1 DEF PopHead
<1> QED
  BY <1>3, <1>4, <1>5, <1>6, <1>7, <1>8, <1>9 DEF Step

\* The linked list under its mutex is a first-in first-out queue whose pop
\* returns NULL when it is empty (queue.c as queue.h promises it).
THEOREM QueueIsFifo == Spec => FifoSpec
<1>1. Init => F!Init
  <2> SUFFICES ASSUME Init PROVE F!Init
    OBVIOUS
  <2>1. PathOf(<< >>, head, next)
    BY DEF Init, PathOf, IsInjective
  <2>2. List = << >>
    BY <2>1, PathIsList
  <2>3. [i \in 1 .. Len(<< >>) |-> data[<< >>[i]]] = << >>
    OBVIOUS
  <2> QED
    BY <2>2, <2>3 DEF Init, F!Init
<1>2. IInv /\ [Next]_vars => [F!Next]_(F!vars)
  <2> SUFFICES ASSUME IInv, [Next]_vars PROVE F!Next \/ UNCHANGED <<Items, result>>
    BY DEF F!vars, Items, Values
  <2>1. ASSUME NEW t \in Thread, Step(t) PROVE F!Next \/ UNCHANGED <<Items, result>>
    <3>1. CASE UNCHANGED <<Items, result>>
      BY <3>1
    <3>2. CASE \E d \in Data : Items' = Append(Items, d) /\ UNCHANGED result
      BY <3>2 DEF Items, Values, F!Next, F!Push
    <3>3. CASE Items = << >> /\ result' = [result EXCEPT ![t] = NULL] /\ UNCHANGED Items
      BY <3>3 DEF Items, Values, F!Next, F!Pop
    <3>4. CASE /\ Items # << >>
               /\ result' = [result EXCEPT ![t] = Head(Items)] /\ Items' = Tail(Items)
      BY <3>4 DEF Items, Values, F!Next, F!Pop
    <3> QED
      BY <2>1, <3>1, <3>2, <3>3, <3>4, StepRefines
  <2>2. ASSUME QueueFree PROVE F!Next
    BY <2>2 DEF QueueFree, F!Next, F!Free
  <2>3. CASE UNCHANGED vars
    <3>1. List' = List
      <4> PICK l : l = List
        OBVIOUS
      <4>1. PathOf(l, head', next')
        BY <2>3 DEF IInv, Linked, vars
      <4>2. Linked(l)'
        <5>1. Loose' = Loose
          BY <2>3 DEF Loose, vars
        <5> QED
          BY <2>3, <4>1, <5>1 DEF IInv, Linked, EndOf, OwnedBy, vars
      <4> QED
        BY <4>2, LinkedIsListNext
    <3> QED
      BY <2>3, <3>1 DEF Items, Values, vars
  <2> QED
    BY <2>1, <2>2, <2>3 DEF Next
<1> QED
  BY <1>1, <1>2, QueueInvariant, PTL DEF Spec, FifoSpec, F!Spec
===============================================================================
