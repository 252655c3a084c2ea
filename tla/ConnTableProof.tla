--------------------------- MODULE ConnTableProof ---------------------------
(***************************************************************************)
(* The connection table, for every set of connections and every limit:     *)
(* the index invariant holds, and the table implements IndexMap.           *)
(***************************************************************************)
EXTENDS ConnTable, FiniteSetTheorems, SequenceTheorems, TLAPS

USE ConnTableAssumption

\* Head, Tail and Append as maps over positions, in the form the table's
\* proofs need them.
LEMMA HeadTailFacts ==
  ASSUME NEW S, NEW q \in Seq(S), q # << >>
  PROVE  /\ Head(q) \in S
         /\ Head(q) = q[1]
         /\ Tail(q) \in Seq(S)
         /\ Len(q) \in Nat \ {0}
         /\ Len(Tail(q)) = Len(q) - 1
         /\ \A k \in 1 .. Len(q) - 1 : Tail(q)[k] = q[k + 1]
BY HeadTailProperties, LenProperties

\* What Append does, position by position.
LEMMA AppendFacts ==
  ASSUME NEW S, NEW q \in Seq(S), NEW e \in S
  PROVE  /\ Append(q, e) \in Seq(S)
         /\ Len(q) \in Nat
         /\ Len(Append(q, e)) = Len(q) + 1
         /\ \A k \in 1 .. Len(q) : Append(q, e)[k] = q[k]
         /\ Append(q, e)[Len(q) + 1] = e
BY AppendProperties, LenProperties

\* Two positions of a longer queue: the last one, or those of the queue before.
LEMMA LastOrBefore ==
  \A n \in Nat : \A j, k \in 1 .. n + 1 :
    \/ j \in 1 .. n /\ k \in 1 .. n
    \/ j = n + 1 /\ k \in 1 .. n
    \/ k = n + 1 /\ j \in 1 .. n
    \/ j = k
OBVIOUS

-----------------------------------------------------------------------------
\* The empty table satisfies the invariant.
LEMMA InitIndInv == Init => IndInv
<1> SUFFICES ASSUME Init PROVE IndInv
  OBVIOUS
<1>1. TypeOK
  BY DEF Init, TypeOK, Slots
<1>2. Counted
  BY FS_EmptySet DEF Init, Counted
<1>3. QueueDistinct
  BY DEF Init, QueueDistinct
<1>4. IndicesPartition
  BY DEF Init, IndicesPartition, HighWater, UsedIndices, FreeIndices
<1>5. TableExact
  BY DEF Init, TableExact, Slots
<1> QED
  BY <1>1, <1>2, <1>3, <1>4, <1>5 DEF IndInv

\* insert_conn with the oldest free index.
LEMMA InsertQueued ==
  ASSUME IndInv, NEW c \in Conn, MayInsert(c), InsertConn(c), iqueue # << >>
  PROVE  IndInv'
<1> DEFINE i == Head(iqueue)
<1> USE DEF IndInv, TypeOK, Slots
<1>1. /\ conn_num' = conn_num + 1
      /\ live' = live \cup {c}
      /\ PutAt(i, c)
      /\ iqueue' = Tail(iqueue)
      /\ c \notin live
      /\ conn_num < MaxClients
  BY DEF InsertConn, MayInsert
<1>2. /\ i \in 1 .. MaxClients
      /\ i = iqueue[1]
      /\ iqueue' \in Seq(1 .. MaxClients)
      /\ Len(iqueue) \in Nat \ {0}
      /\ Len(iqueue') = Len(iqueue) - 1
      /\ \A k \in 1 .. Len(iqueue) - 1 : iqueue'[k] = iqueue[k + 1]
  BY <1>1, HeadTailFacts
<1>3. TypeOK'
  BY <1>1, <1>2 DEF PutAt
<1>4. Counted'
  BY <1>1, FS_AddElement DEF Counted
<1> HIDE DEF i
<1>5. QueueDistinct'
  <2>1. ASSUME NEW j \in 1 .. Len(iqueue'), NEW k \in 1 .. Len(iqueue'),
               iqueue'[j] = iqueue'[k]
        PROVE  j = k
    <3>1. /\ j + 1 \in 1 .. Len(iqueue) /\ iqueue'[j] = iqueue[j + 1]
          /\ k + 1 \in 1 .. Len(iqueue) /\ iqueue'[k] = iqueue[k + 1]
      <4>1. j \in 1 .. Len(iqueue) - 1 /\ k \in 1 .. Len(iqueue) - 1
        BY <1>2
      <4>2. iqueue'[j] = iqueue[j + 1] /\ iqueue'[k] = iqueue[k + 1]
        BY <1>2, <4>1, Zenon
      <4> QED
        BY <1>2, <4>1, <4>2
    <3>2. j + 1 = k + 1
      BY <2>1, <3>1 DEF QueueDistinct
    <3> QED
      BY <1>2, <3>2
  <2> QED
    BY <2>1 DEF QueueDistinct
<1>6. FreeIndices' = FreeIndices \ {i}
  <2>1. ASSUME NEW f \in FreeIndices'
        PROVE  f \in FreeIndices /\ f # i
    <3>1. PICK k \in 1 .. Len(iqueue') : f = iqueue'[k]
      BY DEF FreeIndices
    <3>2. k \in 1 .. Len(iqueue) - 1
      BY <1>2
    <3>3. f = iqueue[k + 1] /\ k + 1 \in 1 .. Len(iqueue) /\ k + 1 # 1
      <4>1. iqueue'[k] = iqueue[k + 1]
        BY <1>2, <3>2, Zenon
      <4>2. k + 1 \in 1 .. Len(iqueue) /\ k + 1 # 1
        BY <1>2, <3>2
      <4> QED
        BY <3>1, <4>1, <4>2
    <3>4. f # i
      <4>1. 1 \in 1 .. Len(iqueue) /\ i = iqueue[1]
        BY <1>2
      <4> QED
        BY <3>3, <4>1, Zenon DEF QueueDistinct
    <3> QED
      BY <3>3, <3>4 DEF FreeIndices
  <2>2. FreeIndices' \subseteq FreeIndices /\ i \notin FreeIndices'
    BY <2>1
  <2>3. ASSUME NEW f \in FreeIndices, f # i
        PROVE  f \in FreeIndices'
    <3>1. PICK k \in 1 .. Len(iqueue) : f = iqueue[k]
      BY DEF FreeIndices
    <3>2. k # 1 /\ k - 1 \in 1 .. Len(iqueue')
      BY <1>2, <2>3, <3>1
    <3>3. iqueue'[k - 1] = f
      <4>1. k - 1 \in 1 .. Len(iqueue) - 1 /\ (k - 1) + 1 = k
        BY <1>2, <3>2
      <4>2. iqueue'[k - 1] = iqueue[(k - 1) + 1]
        BY <1>2, <4>1, Zenon
      <4> QED
        BY <3>1, <4>1, <4>2
    <3> QED
      BY <3>2, <3>3 DEF FreeIndices
  <2> QED
    BY <2>2, <2>3
<1>7. UsedIndices' = UsedIndices \cup {i}
  BY <1>1 DEF UsedIndices, PutAt
<1>8. i \in FreeIndices
  BY <1>2 DEF FreeIndices
<1>9. HighWater' = HighWater
  BY <1>1, <1>2 DEF HighWater
<1>10. IndicesPartition'
  BY <1>6, <1>7, <1>8, <1>9 DEF IndicesPartition
<1>11. TableExact'
  <2>1. \A d \in live : index[d] # i
    BY <1>8 DEF IndicesPartition, UsedIndices
  <2>2. ASSUME NEW d \in live' PROVE index'[d] # 0 /\ iconns'[index'[d]] = d
    BY <1>1, <1>2, <2>1 DEF TableExact, PutAt
  <2>3. ASSUME NEW j \in Slots, iconns'[j] # NULL
        PROVE  iconns'[j] \in live' /\ index'[iconns'[j]] = j
    BY <1>1, <1>2, <2>3 DEF TableExact, PutAt
  <2> QED
    BY <2>2, <2>3 DEF TableExact
<1> QED
  BY <1>3, <1>4, <1>5, <1>10, <1>11

\* insert_conn with the new count, when no index is free.
LEMMA InsertCounted ==
  ASSUME IndInv, NEW c \in Conn, MayInsert(c), InsertConn(c), iqueue = << >>
  PROVE  IndInv'
<1> DEFINE i == conn_num + 1
<1> USE DEF IndInv, TypeOK, Slots
<1>1. /\ conn_num' = i
      /\ live' = live \cup {c}
      /\ PutAt(i, c)
      /\ iqueue' = iqueue
      /\ c \notin live
      /\ conn_num < MaxClients
  BY DEF InsertConn, MayInsert
<1>2. TypeOK'
  BY <1>1 DEF PutAt
<1>3. Counted'
  BY <1>1, FS_AddElement DEF Counted
<1>4. QueueDistinct'
  BY <1>1 DEF QueueDistinct
<1>5. FreeIndices = {} /\ FreeIndices' = {} /\ HighWater = conn_num /\ HighWater' = i
  BY <1>1 DEF FreeIndices, HighWater
<1>6. UsedIndices' = UsedIndices \cup {i}
  BY <1>1 DEF UsedIndices, PutAt
<1>7. UsedIndices = 1 .. conn_num
  BY <1>5 DEF IndicesPartition
<1>8. IndicesPartition'
  BY <1>1, <1>5, <1>6, <1>7 DEF IndicesPartition
<1>9. TableExact'
  <2>1. \A d \in live : index[d] # i
    BY <1>7 DEF UsedIndices
  <2>2. ASSUME NEW d \in live' PROVE index'[d] # 0 /\ iconns'[index'[d]] = d
    BY <1>1, <2>1 DEF TableExact, PutAt
  <2>3. ASSUME NEW j \in Slots, iconns'[j] # NULL
        PROVE  iconns'[j] \in live' /\ index'[iconns'[j]] = j
    BY <1>1, <2>3 DEF TableExact, PutAt
  <2> QED
    BY <2>2, <2>3 DEF TableExact
<1> QED
  BY <1>2, <1>3, <1>4, <1>8, <1>9

\* remove_conn.
LEMMA RemovePreserves ==
  ASSUME IndInv, NEW c \in live, RemoveConn(c)
  PROVE  IndInv'
<1> DEFINE i == index[c]
<1> USE DEF IndInv, TypeOK, Slots
<1>1. /\ conn_num' = conn_num - 1
      /\ live' = live \ {c}
      /\ iconns' = [iconns EXCEPT ![i] = NULL]
      /\ iqueue' = Append(iqueue, i)
      /\ index' = [index EXCEPT ![c] = 0]
      /\ c \in Conn
  BY DEF RemoveConn
<1>2. i \in UsedIndices /\ i \in 1 .. MaxClients /\ i \notin FreeIndices
  BY <1>1 DEF UsedIndices, IndicesPartition, TableExact
<1>3. /\ iqueue' \in Seq(1 .. MaxClients)
      /\ Len(iqueue) \in Nat
      /\ Len(iqueue') = Len(iqueue) + 1
      /\ \A k \in 1 .. Len(iqueue) : iqueue'[k] = iqueue[k]
      /\ iqueue'[Len(iqueue) + 1] = i
  BY <1>1, <1>2, AppendFacts
<1>4. Counted' /\ conn_num # 0
  BY <1>1, FS_RemoveElement, FS_EmptySet DEF Counted
<1>5. TypeOK'
  BY <1>1, <1>3, <1>4
<1> HIDE DEF i
<1>6. QueueDistinct'
  <2>1. ASSUME NEW j \in 1 .. Len(iqueue'), NEW k \in 1 .. Len(iqueue'),
               iqueue'[j] = iqueue'[k]
        PROVE  j = k
    <3>1. CASE j \in 1 .. Len(iqueue) /\ k \in 1 .. Len(iqueue)
      BY <1>3, <2>1, <3>1 DEF QueueDistinct
    <3>2. CASE j = Len(iqueue) + 1 /\ k \in 1 .. Len(iqueue)
      BY <1>2, <1>3, <2>1, <3>2 DEF FreeIndices
    <3>3. CASE k = Len(iqueue) + 1 /\ j \in 1 .. Len(iqueue)
      BY <1>2, <1>3, <2>1, <3>3 DEF FreeIndices
    <3> PICK n \in Nat : n = Len(iqueue)
      BY <1>3
    <3>4. j \in 1 .. n + 1 /\ k \in 1 .. n + 1
      BY <1>3, <2>1
    <3>5. \/ j \in 1 .. n /\ k \in 1 .. n
          \/ j = n + 1 /\ k \in 1 .. n
          \/ k = n + 1 /\ j \in 1 .. n
          \/ j = k
      BY <3>4, LastOrBefore
    <3> QED
      BY <3>1, <3>2, <3>3, <3>5
  <2> QED
    BY <2>1 DEF QueueDistinct
<1>7. FreeIndices' = FreeIndices \cup {i}
  <2>1. ASSUME NEW f \in FreeIndices' PROVE f \in FreeIndices \cup {i}
    <3>1. PICK k \in 1 .. Len(iqueue') : f = iqueue'[k]
      BY DEF FreeIndices
    <3>2. k \in 1 .. Len(iqueue) \/ k = Len(iqueue) + 1
      BY <1>3
    <3> QED
      BY <1>3, <3>1, <3>2 DEF FreeIndices
  <2>2. ASSUME NEW f \in FreeIndices PROVE f \in FreeIndices'
    <3>1. PICK k \in 1 .. Len(iqueue) : f = iqueue[k]
      BY DEF FreeIndices
    <3>2. k \in 1 .. Len(iqueue') /\ f = iqueue'[k]
      BY <1>3, <3>1
    <3> QED
      BY <3>2 DEF FreeIndices
  <2>3. i \in FreeIndices'
    <3>1. Len(iqueue) + 1 \in 1 .. Len(iqueue')
      BY <1>3
    <3> QED
      BY <1>3, <3>1 DEF FreeIndices
  <2> QED
    BY <2>1, <2>2, <2>3
<1>8. \A d, e \in live : index[d] = index[e] => d = e
  BY DEF TableExact
<1>9. UsedIndices' = UsedIndices \ {i}
  BY <1>1, <1>8 DEF UsedIndices, i
<1>10. HighWater' = HighWater
  BY <1>1, <1>3 DEF HighWater
<1>11. IndicesPartition'
  BY <1>2, <1>7, <1>9, <1>10 DEF IndicesPartition
<1>12. TableExact'
  <2>1. ASSUME NEW d \in live' PROVE index'[d] # 0 /\ iconns'[index'[d]] = d
    <3>1. index[d] # i
      BY <1>1, <1>8 DEF i
    <3> QED
      BY <1>1, <3>1 DEF TableExact
  <2>2. ASSUME NEW j \in Slots, iconns'[j] # NULL
        PROVE  iconns'[j] \in live' /\ index'[iconns'[j]] = j
    <3>1. j # i /\ iconns'[j] = iconns[j]
      BY <1>1, <1>2, <2>2
    <3>2. iconns[j] \in live /\ index[iconns[j]] = j
      BY <2>2, <3>1 DEF TableExact
    <3> QED
      BY <1>1, <3>1, <3>2 DEF i
  <2> QED
    BY <2>1, <2>2 DEF TableExact
<1> QED
  BY <1>4, <1>5, <1>6, <1>11, <1>12

\* Every step keeps the invariant.
LEMMA NextIndInv == IndInv /\ [Next]_tableVars => IndInv'
<1> SUFFICES ASSUME IndInv, [Next]_tableVars PROVE IndInv'
  OBVIOUS
<1>1. CASE \E c \in Conn : MayInsert(c) /\ InsertConn(c)
  BY <1>1, InsertQueued, InsertCounted
<1>2. CASE \E c \in live : RemoveConn(c)
  BY <1>2, RemovePreserves
<1>3. CASE UNCHANGED tableVars
  <2> USE <1>3 DEF tableVars
  <2>1. TypeOK' /\ Counted'
    BY DEF IndInv, TypeOK, Counted, Slots
  <2>2. QueueDistinct'
    BY DEF IndInv, QueueDistinct
  <2>3. HighWater' = HighWater /\ UsedIndices' = UsedIndices /\ FreeIndices' = FreeIndices
    BY DEF HighWater, UsedIndices, FreeIndices
  <2>4. IndicesPartition'
    BY <2>3 DEF IndInv, IndicesPartition
  <2>5. TableExact'
    BY DEF IndInv, TableExact
  <2> QED
    BY <2>1, <2>2, <2>4, <2>5 DEF IndInv
<1> QED
  BY <1>1, <1>2, <1>3 DEF Next

\* The index invariant holds in every reachable state: types, the count, the
\* distinct queue, the partition of the indices and the exact table.
THEOREM TableInvariant == Spec => []IndInv
<1> QED
  BY InitIndInv, NextIndInv, PTL DEF Spec
-----------------------------------------------------------------------------
\* insert_conn enters the connection under an index whose slot is empty, and
\* remove_conn empties exactly the slot of the connection it removes: the
\* table of conn.c implements the partial map IndexMap.
THEOREM TableImplementsMap == Spec => IndexMapSpec
<1>1. Init => Map!Init
  BY DEF Init, Map!Init
<1>2. IndInv /\ [Next]_tableVars => [Map!Next]_iconns
  <2> SUFFICES ASSUME IndInv, [Next]_tableVars PROVE [Map!Next]_iconns
    OBVIOUS
  <2> USE DEF IndInv, TypeOK
  <2>1. ASSUME NEW c \in Conn, MayInsert(c), InsertConn(c)
        PROVE  Map!Next
    <3>1. \A j \in Slots : iconns[j] # c
      BY <2>1 DEF MayInsert, TableExact
    <3>2. ASSUME NEW i \in 1 .. MaxClients, i \notin UsedIndices, PutAt(i, c)
          PROVE  Map!Next
      <4>1. i \in Slots /\ iconns[i] = NULL
        BY <3>2 DEF TableExact, UsedIndices, Slots
      <4>2. Map!Enter(c, i)
        BY <3>1, <3>2, <4>1 DEF Map!Enter, PutAt
      <4> QED
        BY <4>1, <4>2 DEF Map!Next
    <3>3. CASE iqueue # << >> /\ PutAt(Head(iqueue), c)
      <4>1. Head(iqueue) \in 1 .. MaxClients /\ Head(iqueue) \in FreeIndices
        <5>1. /\ Head(iqueue) = iqueue[1] /\ 1 \in 1 .. Len(iqueue)
              /\ Head(iqueue) \in 1 .. MaxClients
          BY <3>3, HeadTailFacts
        <5> QED
          BY <5>1 DEF FreeIndices
      <4>2. Head(iqueue) \notin UsedIndices
        BY <4>1 DEF IndicesPartition
      <4> QED
        BY <3>2, <3>3, <4>1, <4>2
    <3>4. CASE iqueue = << >> /\ PutAt(conn_num + 1, c)
      <4>1. FreeIndices = {} /\ HighWater = conn_num
        BY <3>4 DEF FreeIndices, HighWater
      <4>2. conn_num + 1 \in 1 .. MaxClients /\ conn_num + 1 \notin UsedIndices
        BY <2>1, <4>1 DEF IndicesPartition, MayInsert
      <4> QED
        BY <3>2, <3>4, <4>2
    <3> QED
      BY <2>1, <3>3, <3>4 DEF InsertConn
  <2>2. ASSUME NEW c \in live, RemoveConn(c)
        PROVE  Map!Next
    <3>1. index[c] \in Slots /\ iconns[index[c]] # NULL
      BY DEF TableExact
    <3>2. Map!Leave(index[c])
      BY <2>2, <3>1 DEF RemoveConn, Map!Leave
    <3> QED
      BY <3>1, <3>2 DEF Map!Next
  <2>3. CASE UNCHANGED tableVars
    BY <2>3 DEF tableVars
  <2> QED
    BY <2>1, <2>2, <2>3 DEF Next
<1> QED
  BY <1>1, <1>2, TableInvariant, PTL DEF Spec, IndexMapSpec, Map!Spec
=============================================================================
