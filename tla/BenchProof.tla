------------------------------ MODULE BenchProof ------------------------------
(***************************************************************************)
(* The load generator, for every number of workers, connections, requests, *)
(* entries of the list and seconds of the average.  A worker has one order *)
(* at a time (OneByOne) and its counters count its connections (Counters), *)
(* and so the answers that main has counted are those of the workers that  *)
(* are done (Answers); from that follows what is true when a send_recv is  *)
(* over.  The counters of replies and of lost connections add up to what   *)
(* the server did (Reported), and the ring holds the latest seconds (Ring, *)
(* Averaged).                                                              *)
(***************************************************************************)
EXTENDS Bench, SequenceFacts

-----------------------------------------------------------------------------
(***************************************************************************)
(* Sums.                                                                   *)
(***************************************************************************)

\* g are the partial sums of s.
Sums(g, s) ==
  /\ g \in [0 .. Len(s) -> Int] /\ g[0] = 0
  /\ \A i \in 1 .. Len(s) : g[i] = g[i - 1] + s[i]

\* Two functions that are the partial sums of s are equal, and Total is the last.
LEMMA TotalIsLast ==
  ASSUME NEW s \in Seq(Int), NEW g, Sums(g, s)
  PROVE  Total(s) = g[Len(s)]
<1> DEFINE N == Len(s)
           W(f) == [i \in 0 .. N |-> IF i = 0 THEN 0 ELSE f[i - 1] + s[i]]
<1>1. N \in Nat /\ g \in [0 .. N -> Int] /\ g[0] = 0 /\ \A i \in 1 .. N : g[i] = g[i - 1] + s[i]
  BY LenProperties DEF Sums
<1> HIDE DEF N
<1>2. g = W(g)
  <2>1. ASSUME NEW i \in 0 .. N PROVE g[i] = W(g)[i]
    <3>1. CASE i = 0
      BY <1>1, <3>1
    <3>2. CASE i # 0
      <4>1. i \in 1 .. N
        BY <1>1, <3>2
      <4> QED
        BY <1>1, <3>2, <4>1
    <3> QED
      BY <3>1, <3>2
  <2> QED
    BY <1>1, <2>1
<1>3. ASSUME NEW h, h = W(h) PROVE h = g
  <2> DEFINE S == {m \in Nat : m <= N => h[m] = g[m]}
  <2>1. 0 \in S
    BY <1>1, <1>3
  <2>2. ASSUME NEW m \in Nat, m \in S PROVE m + 1 \in S
    <3>1. CASE m + 1 <= N
      <4>1. m + 1 \in 0 .. N /\ m + 1 \in 1 .. N /\ (m + 1) - 1 = m /\ m <= N
        BY <1>1, <3>1
      <4>2. h[m] = g[m]
        BY <2>2, <4>1
      <4>3. \A i \in 0 .. N : h[i] = IF i = 0 THEN 0 ELSE h[i - 1] + s[i]
        BY <1>3
      <4>4. h[m + 1] = h[m] + s[m + 1]
        BY <4>1, <4>3
      <4>5. g[m + 1] = g[m] + s[m + 1]
        BY <1>1, <4>1
      <4> QED
        BY <4>2, <4>4, <4>5
    <3> QED
      BY <3>1
  <2>3. Nat \subseteq S
    <3> HIDE DEF S
    <3> QED
      BY <2>1, <2>2, SetInduction
  <2>4. \A i \in 0 .. N : h[i] = g[i]
    BY <1>1, <2>3
  <2>5. DOMAIN h = 0 .. N /\ h = [i \in 0 .. N |-> h[i]]
    BY <1>3
  <2> QED
    BY <1>1, <2>4, <2>5
<1>4. (CHOOSE h : h = W(h)) = g
  BY <1>2, <1>3
<1> QED
  BY <1>4 DEF Total, N

\* Every sequence of numbers has partial sums.
LEMMA SumsExist ==
  ASSUME NEW s \in Seq(Int)
  PROVE  \E g : Sums(g, s)
<1> DEFINE N == Len(s)
           Part(g, m) == /\ g \in [0 .. m -> Int] /\ g[0] = 0
                         /\ \A i \in 1 .. m : g[i] = g[i - 1] + s[i]
           S == {m \in Nat : m <= N => \E g : Part(g, m)}
<1>1. N \in Nat /\ \A i \in 1 .. N : s[i] \in Int
  BY LenProperties
<1> HIDE DEF N
<1>2. 0 \in S
  <2>1. Part([i \in 0 .. 0 |-> 0], 0)
    OBVIOUS
  <2> QED
    BY <2>1
<1>3. ASSUME NEW m \in Nat, m \in S PROVE m + 1 \in S
  <2>1. CASE m + 1 <= N
    <3>1. m <= N /\ m + 1 \in 1 .. N
      BY <1>1, <2>1
    <3>2. PICK g : Part(g, m)
      BY <1>3, <3>1
    <3> DEFINE h == [i \in 0 .. m + 1 |-> IF i <= m THEN g[i] ELSE g[m] + s[m + 1]]
    <3>3. h \in [0 .. m + 1 -> Int]
      BY <1>1, <3>1, <3>2
    <3>4. ASSUME NEW i \in 1 .. m + 1 PROVE h[i] = h[i - 1] + s[i]
      <4>1. CASE i <= m
        <5>1. i \in 1 .. m /\ i - 1 \in 0 .. m
          BY <4>1
        <5> QED
          BY <3>2, <5>1
      <4>2. CASE i = m + 1
        BY <4>2
      <4> QED
        BY <4>1, <4>2
    <3>5. h[0] = 0
      BY <3>2
    <3> HIDE DEF h
    <3>6. Part(h, m + 1)
      BY <3>3, <3>4, <3>5
    <3> HIDE DEF Part
    <3> QED
      BY <3>6
  <2> HIDE DEF Part
  <2> QED
    BY <2>1
<1>4. Nat \subseteq S
  <2> HIDE DEF S
  <2> QED
    BY <1>2, <1>3, SetInduction
<1>5. \E g : Part(g, N)
  <2> HIDE DEF Part
  <2> QED
    BY <1>1, <1>4
<1> QED
  BY <1>5 DEF Sums, N

\* A sum of integers is an integer.
LEMMA TotalType == ASSUME NEW s \in Seq(Int) PROVE Total(s) \in Int
<1>1. PICK g : Sums(g, s)
  BY SumsExist
<1>2. Total(s) = g[Len(s)] /\ Len(s) \in 0 .. Len(s)
  BY <1>1, TotalIsLast, LenProperties
<1> QED
  BY <1>1, <1>2 DEF Sums

\* Nothing but zeros adds up to zero.
LEMMA TotalZero ==
  ASSUME NEW s \in Seq(Int), \A i \in 1 .. Len(s) : s[i] = 0
  PROVE  Total(s) = 0
<1>1. Len(s) \in Nat
  BY LenProperties
<1>2. Sums([i \in 0 .. Len(s) |-> 0], s)
  BY <1>1 DEF Sums
<1> QED
  BY <1>1, <1>2, TotalIsLast

\* What Append adds.
LEMMA TotalAppend ==
  ASSUME NEW s \in Seq(Int), NEW x \in Int
  PROVE  Total(Append(s, x)) = Total(s) + x
<1> PICK n, t : n = Len(s) /\ t = Append(s, x)
  OBVIOUS
<1>1. n \in Nat /\ t \in Seq(Int) /\ Len(t) = n + 1 /\ t[n + 1] = x /\ \A i \in 1 .. n : t[i] = s[i]
  BY AppendProperties, LenProperties
<1>2. PICK g : Sums(g, s)
  BY SumsExist
<1> DEFINE h == [i \in 0 .. n + 1 |-> IF i <= n THEN g[i] ELSE g[n] + x]
<1>3. /\ g \in [0 .. n -> Int] /\ g[0] = 0 /\ \A i \in 1 .. n : g[i] = g[i - 1] + s[i]
  BY <1>2 DEF Sums
<1>4. ASSUME NEW i \in 1 .. n + 1 PROVE h[i] = h[i - 1] + t[i]
  <2>1. CASE i \in 1 .. n
    BY <1>1, <1>3, <2>1
  <2>2. CASE i = n + 1
    BY <1>1, <1>3, <2>2
  <2> QED
    BY <1>1, <2>1, <2>2
<1>5. Sums(h, t)
  <2>1. h[0] = 0
    BY <1>1, <1>3
  <2>2. h \in [0 .. n + 1 -> Int]
    BY <1>1, <1>3
  <2> HIDE DEF h
  <2>3. \A i \in 1 .. n + 1 : h[i] = h[i - 1] + t[i]
    BY <1>4
  <2>4. Len(t) = n + 1
    BY <1>1
  <2> QED
    BY <2>1, <2>2, <2>3, <2>4, Zenon DEF Sums
<1>6. Total(t) = h[n + 1]
  <2> HIDE DEF h
  <2> QED
    BY <1>1, <1>5, TotalIsLast
<1>7. Total(s) = g[n]
  BY <1>2, TotalIsLast
<1> QED
  BY <1>1, <1>6, <1>7

\* Of the numbers in s, t has another one, larger by d, at k.
Raised(t, s, k, d) ==
  /\ Len(t) = Len(s)
  /\ \A i \in 1 .. Len(s) : t[i] = IF i = k THEN s[i] + d ELSE s[i]

\* The order of sums does not matter.
LEMMA Sums3 == \A b, x, d \in Int : (b + x) + d = b + (x + d) /\ (b + x) + d = (b + d) + x
OBVIOUS

\* Before, at and after k.
LEMMA Places == \A i, k \in Int :
  \/ i < k /\ i - 1 < k /\ i # k
  \/ ~(i < k) /\ i - 1 < k /\ i = k
  \/ ~(i < k) /\ ~(i - 1 < k) /\ i # k
OBVIOUS

\* What a change of one number adds.
LEMMA TotalChange ==
  ASSUME NEW s \in Seq(Int), NEW k \in 1 .. Len(s), NEW d \in Int,
         NEW t \in Seq(Int), Raised(t, s, k, d)
  PROVE  Total(t) = Total(s) + d
<1> PICK n : n = Len(s)
  OBVIOUS
<1>1. n \in Nat /\ Len(t) = n /\ k \in 1 .. n /\ \A i \in 1 .. n : s[i] \in Int /\ t[i] = IF i = k THEN s[i] + d ELSE s[i]
  BY LenProperties DEF Raised
<1>n. Len(t) = n /\ n \in Nat
  BY <1>1
<1>2. PICK g : Sums(g, s)
  BY SumsExist
<1> DEFINE h == [i \in 0 .. n |-> IF i < k THEN g[i] ELSE g[i] + d]
<1>3. /\ g \in [0 .. n -> Int] /\ g[0] = 0 /\ \A i \in 1 .. n : g[i] = g[i - 1] + s[i]
  BY <1>2 DEF Sums
<1>4. ASSUME NEW i \in 1 .. n PROVE h[i] = h[i - 1] + t[i]
  <2>1. i \in 0 .. n /\ i - 1 \in 0 .. n /\ g[i] \in Int /\ g[i - 1] \in Int /\ s[i] \in Int
    <3>1. i \in 0 .. n /\ i - 1 \in 0 .. n
      BY <1>1
    <3>2. s[i] \in Int
      BY <1>1
    <3>3. g \in [0 .. n -> Int]
      BY <1>3
    <3> HIDE DEF h
    <3> QED
      BY <3>1, <3>2, <3>3
  <2>2. g[i] = g[i - 1] + s[i] /\ t[i] = IF i = k THEN s[i] + d ELSE s[i]
    BY <1>1, <1>3
  <2>3. h[i] = (IF i < k THEN g[i] ELSE g[i] + d) /\ h[i - 1] = IF i - 1 < k THEN g[i - 1] ELSE g[i - 1] + d
    BY <2>1
  <2> HIDE DEF h
  <2>4. i \in Int /\ k \in Int /\ d \in Int
    BY <1>1
  <2>5. \/ h[i] = g[i] /\ h[i - 1] = g[i - 1] /\ t[i] = s[i]
        \/ h[i] = g[i] + d /\ h[i - 1] = g[i - 1] /\ t[i] = s[i] + d
        \/ h[i] = g[i] + d /\ h[i - 1] = g[i - 1] + d /\ t[i] = s[i]
    BY <2>2, <2>3, <2>4, Places, Zenon
  <2>6. /\ (g[i - 1] + s[i]) + d = g[i - 1] + (s[i] + d)
        /\ (g[i - 1] + s[i]) + d = (g[i - 1] + d) + s[i]
    <3> PICK b, x : b = g[i - 1] /\ x = s[i]
      OBVIOUS
    <3>1. b \in Int /\ x \in Int
      BY <2>1
    <3>2. (b + x) + d = b + (x + d) /\ (b + x) + d = (b + d) + x
      BY <2>4, <3>1
    <3> QED
      BY <3>2
  <2> QED
    BY <2>2, <2>5, <2>6, Zenon
<1>5. Sums(h, t)
  <2>1. h[0] = 0
    BY <1>1, <1>3
  <2>2. h \in [0 .. n -> Int]
    BY <1>1, <1>3
  <2> HIDE DEF h
  <2>3. \A i \in 1 .. n : h[i] = h[i - 1] + t[i]
    BY <1>4
  <2> QED
    BY <1>n, <2>1, <2>2, <2>3, Zenon DEF Sums
<1>6. Total(t) = h[n]
  <2> HIDE DEF h
  <2> QED
    BY <1>n, <1>5, TotalIsLast
<1>7. Total(s) = g[n]
  BY <1>2, TotalIsLast
<1> QED
  BY <1>1, <1>6, <1>7

\* What the first of the numbers has added.
LEMMA TotalTail ==
  ASSUME NEW s \in Seq(Int), s # << >>
  PROVE  Total(Tail(s)) = Total(s) - s[1]
<1> PICK n, t : n = Len(s) - 1 /\ t = Tail(s)
  OBVIOUS
<1>1. /\ n \in Nat /\ Len(s) = n + 1 /\ t \in Seq(Int) /\ Len(t) = n
      /\ (\A i \in 1 .. n : t[i] = s[i + 1]) /\ s[1] \in Int
  BY HeadTailProperties, LenProperties, EmptySeq
<1>2. PICK g : Sums(g, s)
  BY SumsExist
<1> DEFINE h == [i \in 0 .. n |-> g[i + 1] - s[1]]
<1>3. /\ g \in [0 .. n + 1 -> Int] /\ g[0] = 0 /\ \A i \in 1 .. n + 1 : g[i] = g[i - 1] + s[i]
  BY <1>1, <1>2 DEF Sums
<1>4. ASSUME NEW i \in 1 .. n PROVE h[i] = h[i - 1] + t[i]
  <2> PICK j : j = i + 1
    OBVIOUS
  <2>1. j \in 1 .. n + 1 /\ j - 1 = i /\ i \in 0 .. n /\ i - 1 \in 0 .. n /\ i - 1 + 1 = i
    BY <1>1
  <2>2. g[j] = g[i] + s[j] /\ t[i] = s[j] /\ g[i] \in Int /\ s[j] \in Int /\ g[j] \in Int
    <3>1. s[j] \in Int
      BY <1>1, <2>1, LenProperties
    <3>2. g \in [0 .. n + 1 -> Int] /\ j \in 0 .. n + 1 /\ i \in 0 .. n + 1
      BY <1>1, <1>3, <2>1
    <3>3. g[j] = g[j - 1] + s[j]
      BY <1>3, <2>1
    <3>4. t[i] = s[i + 1]
      BY <1>1
    <3> HIDE DEF h
    <3> QED
      BY <2>1, <3>1, <3>2, <3>3, <3>4
  <2>3. h[i] = g[j] - s[1] /\ h[i - 1] = g[i] - s[1]
    BY <2>1
  <2> HIDE DEF h
  <2> QED
    BY <1>1, <2>2, <2>3
<1>5. Sums(h, t)
  <2>1. h[0] = 0
    BY <1>1, <1>3
  <2>2. h \in [0 .. n -> Int]
    BY <1>1, <1>3
  <2> QED
    BY <1>1, <1>4, <2>1, <2>2 DEF Sums
<1>6. Total(t) = h[n]
  <2> HIDE DEF h
  <2> QED
    BY <1>1, <1>5, TotalIsLast
<1>7. Total(s) = g[n + 1]
  BY <1>1, <1>2, TotalIsLast
<1> QED
  BY <1>1, <1>3, <1>6, <1>7

-----------------------------------------------------------------------------
(***************************************************************************)
(* Types.                                                                  *)
(***************************************************************************)
\* The bytes that a worker answers.
Orders == {"c", "b", "n"}
Bytes == Orders \cup {"N", "-"}

\* The types of what each part of the program keeps.
MainTypes ==
  /\ send_recv \in 0 .. NSteps + 1 /\ cthreads \in 0 .. NWorkers - 1 /\ stdin \in BOOLEAN
  /\ phase \in {"run", "exit", "done"} /\ exited \subseteq Worker /\ scene \in Scenes

PipeTypes == inbox \in Seq(Orders) /\ pipe \in [Worker -> Seq(Bytes)]

ConnTypes ==
  /\ {conn_num, complete_conn_num, close_conn_num} \subseteq [Worker -> Int]
  /\ conns \subseteq Connection /\ is_skip \subseteq Connection
  /\ {out, requests} \subseteq [Connection -> Nat]

ReportTypes ==
  /\ {thread_requests, preclose_conn_num} \subseteq [Worker -> Int]
  /\ report \in [1 .. NSteps -> [requests : Int, closes : Int]]
  /\ answered \in Int /\ closed \in Int

SecondTypes ==
  /\ main_requests \in Nat /\ seconds \in Seq(Nat)
  /\ second_requests \in [0 .. AVG_SECONDS - 1 -> Nat]
  /\ current_request_index \in 0 .. AVG_SECONDS - 1
  /\ sum_requests \in Int /\ min_requests \in Int /\ max_requests \in Int

\* The types of the variables, together.
Typed == MainTypes /\ PipeTypes /\ ConnTypes /\ ReportTypes /\ SecondTypes

\* The constants, and sequences over the workers.
LEMMA Constants ==
  /\ NWorkers \in Nat /\ NWorkers > 0 /\ NConns \in Nat /\ NConns > 0
  /\ NRequests \in Nat /\ NRequests > 0 /\ NSteps \in Nat /\ NSteps > 0
  /\ AVG_SECONDS \in Nat /\ AVG_SECONDS > 0 /\ UINT_MAX \in Int
  /\ IsFiniteSet(Worker) /\ Cardinality(Worker) = NWorkers
  /\ \A f \in [Worker -> Int] : f \in Seq(Int) /\ Len(f) = NWorkers
<1>1. /\ NWorkers \in Nat /\ NWorkers > 0 /\ NConns \in Nat /\ NConns > 0
      /\ NRequests \in Nat /\ NRequests > 0 /\ NSteps \in Nat /\ NSteps > 0
      /\ AVG_SECONDS \in Nat /\ AVG_SECONDS > 0
  BY BenchAssumption
<1>2. UINT_MAX \in Int
  <2>1. 2 * NWorkers * NConns * NRequests \in Int
    BY <1>1
  <2> QED
    BY <2>1 DEF UINT_MAX
<1>3. IsFiniteSet(Worker) /\ Cardinality(Worker) = NWorkers
  <2>1. IsFiniteSet(1 .. NWorkers) /\ Cardinality(1 .. NWorkers) = IF 1 > NWorkers THEN 0 ELSE NWorkers - 1 + 1
    BY <1>1, FS_Interval
  <2> QED
    BY <1>1, <2>1 DEF Worker
<1>4. \A f \in [Worker -> Int] : f \in Seq(Int) /\ Len(f) = NWorkers
  BY <1>1 DEF Worker
<1> QED
  BY <1>1, <1>2, <1>3, <1>4

\* The smaller and the larger of two numbers.
LEMMA MinMax ==
  ASSUME NEW a \in Int, NEW b \in Int
  PROVE  Min({a, b}) = (IF a <= b THEN a ELSE b) /\ Max({a, b}) = (IF a >= b THEN a ELSE b)
<1>1. ASSUME NEW x \in {a, b}, \A y \in {a, b} : x <= y PROVE x = IF a <= b THEN a ELSE b
  BY <1>1
<1>2. ASSUME NEW x \in {a, b}, \A y \in {a, b} : x >= y PROVE x = IF a >= b THEN a ELSE b
  BY <1>2
<1>3. \E x \in {a, b} : \A y \in {a, b} : x <= y
  OBVIOUS
<1>4. \E x \in {a, b} : \A y \in {a, b} : x >= y
  OBVIOUS
<1>5. Min({a, b}) \in {a, b} /\ \A y \in {a, b} : Min({a, b}) <= y
  BY <1>3 DEF Min
<1>6. Max({a, b}) \in {a, b} /\ \A y \in {a, b} : Max({a, b}) >= y
  BY <1>4 DEF Max
<1> QED
  BY <1>1, <1>2, <1>5, <1>6

\* The pipes.
LEMMA WriteTyped ==
  ASSUME PipeTypes, NEW x \in Bytes, Write(x)
  PROVE  pipe' \in [Worker -> Seq(Bytes)]
<1>1. \A w \in Worker : Append(pipe[w], x) \in Seq(Bytes)
  BY AppendProperties DEF PipeTypes
<1> QED
  BY <1>1 DEF Write

\* A byte leaves the pipe of a worker.
LEMMA TakeTyped ==
  ASSUME PipeTypes, NEW w \in Worker, NEW x, Take(w, x)
  PROVE  pipe' \in [Worker -> Seq(Bytes)]
<1>1. Tail(pipe[w]) \in Seq(Bytes)
  BY HeadTailProperties DEF PipeTypes, Take
<1> QED
  BY <1>1 DEF PipeTypes, Take

\* An answer that is written to main.
LEMMA TellTyped ==
  ASSUME PipeTypes, NEW x \in Orders, Tell(x)
  PROVE  inbox' \in Seq(Orders)
BY AppendProperties DEF PipeTypes, Tell

\* Pipes carry orders and answers only.
LEMMA PipeStep == PipeTypes /\ [Next]_vars => PipeTypes'
<1> SUFFICES ASSUME PipeTypes, [Next]_vars PROVE PipeTypes'
  OBVIOUS
<1> USE DEF mainVars, reportVars, secondVars, pipeVars, countVars, connVars
<1>1. ASSUME NEW w \in Worker, Connect(w) PROVE PipeTypes'
  BY <1>1, TakeTyped, TellTyped DEF Connect, PipeTypes, Orders
<1>2. ASSUME NEW w \in Worker, BeginRequests(w) PROVE PipeTypes'
  <2> PICK x \in {"b", "n"} : Take(w, x) /\ (Tell(x) \/ UNCHANGED inbox)
    BY <1>2 DEF BeginRequests
  <2>1. pipe' \in [Worker -> Seq(Bytes)]
    BY TakeTyped
  <2>2. inbox' \in Seq(Orders)
    BY TellTyped DEF PipeTypes, Orders
  <2> QED
    BY <2>1, <2>2 DEF PipeTypes
<1>3. ASSUME NEW w \in Worker, Skip(w) \/ BreakThread(w) PROVE PipeTypes'
  BY <1>3, TakeTyped DEF Skip, BreakThread, PipeTypes
<1>4. ASSUME NEW c \in Connection, Reply(c) \/ Closed(c) PROVE PipeTypes'
  <2>1. pipe' = pipe /\ (Tell("n") \/ UNCHANGED inbox)
    BY <1>4 DEF Reply, Closed, TellIfDone
  <2> QED
    BY <2>1, TellTyped DEF PipeTypes, Orders
<1>5. ASSUME NEW x, Handle(x), pipe' = pipe \/ \E y \in Bytes : Write(y) PROVE PipeTypes'
  <2>1. inbox' \in Seq(Orders)
    BY <1>5, HeadTailProperties DEF Handle, PipeTypes
  <2>2. pipe' \in [Worker -> Seq(Bytes)]
    BY <1>5, WriteTyped DEF PipeTypes
  <2> QED
    BY <2>1, <2>2 DEF PipeTypes
<1>6. CASE AllConnected
  <2>1. Handle("c") /\ (pipe' = pipe \/ Write("b"))
    BY <1>6 DEF AllConnected, StartRequests, KeepRequests
  <2> QED
    BY <1>5, <2>1 DEF Bytes, Orders
<1>7. CASE ThreadComplete
  <2>1. Handle("n") /\ (pipe' = pipe \/ Write("n") \/ Write("-"))
    BY <1>7 DEF ThreadComplete, StartRequests, KeepRequests, Stop
  <2> QED
    BY <1>5, <2>1 DEF Bytes, Orders
<1>8. CASE BeginAgain
  <2>1. Handle("b") /\ Write("b")
    BY <1>8 DEF BeginAgain, StartRequests
  <2> QED
    BY <1>5, <2>1 DEF Bytes, Orders
<1>9. CASE Interrupt \/ SkipStep
  <2>1. inbox' = inbox /\ (pipe' = pipe \/ Write("N") \/ Write("-"))
    BY <1>9 DEF Interrupt, SkipStep, Stop
  <2> QED
    BY <2>1, WriteTyped DEF PipeTypes, Bytes, Orders
<1>10. CASE Finish \/ Second \/ UNCHANGED vars
  BY <1>10 DEF Finish, Second, vars, PipeTypes
<1> QED
  BY <1>1, <1>2, <1>3, <1>4, <1>6, <1>7, <1>8, <1>9, <1>10 DEF Next, WorkerStep, MainStep

\* The position in the list and the count of answers stay in their ranges.
LEMMA MainStepTyped == MainTypes /\ [Next]_vars => MainTypes'
<1> SUFFICES ASSUME MainTypes, [Next]_vars PROVE MainTypes'
  OBVIOUS
<1>t. /\ NSteps \in Nat /\ NSteps > 0 /\ NWorkers \in Nat /\ NWorkers > 0
      /\ send_recv \in 0 .. NSteps + 1 /\ cthreads \in 0 .. NWorkers - 1 /\ stdin \in BOOLEAN
      /\ phase \in {"run", "exit", "done"} /\ exited \subseteq Worker /\ scene \in Scenes
      /\ scene.skips \in BOOLEAN
  BY Constants, BenchAssumption DEF MainTypes
<1> USE DEF mainVars, reportVars, secondVars, pipeVars, countVars, connVars
<1>0. CASE UNCHANGED <<mainVars, exited>>
  BY <1>0 DEF MainTypes
<1>1. ASSUME NEW w \in Worker, Connect(w) \/ BeginRequests(w) \/ Skip(w) PROVE MainTypes'
  BY <1>0, <1>1 DEF Connect, BeginRequests, Skip
<1>2. ASSUME NEW w \in Worker, BreakThread(w) PROVE MainTypes'
  BY <1>2 DEF BreakThread, MainTypes
<1>3. ASSUME NEW c \in Connection, Reply(c) \/ Closed(c) PROVE MainTypes'
  BY <1>0, <1>3 DEF Reply, Closed
<1>4. Count => cthreads' \in 0 .. NWorkers - 1
  BY <1>t DEF Count
<1>5. CASE AllConnected
  <2>1. /\ send_recv' \in {send_recv, 1} /\ stdin' \in {stdin, scene.skips} /\ phase' = phase
        /\ scene' = scene /\ exited' = exited /\ Count
    BY <1>5 DEF AllConnected, StartRequests, KeepRequests, Handle
  <2> QED
    BY <1>t, <1>4, <2>1 DEF MainTypes
<1>6. CASE ThreadComplete
  <2>1. /\ phase' \in {phase, "exit"} /\ scene' = scene /\ exited' = exited /\ Count
        /\ stdin' \in {stdin, scene.skips}
    BY <1>6 DEF ThreadComplete, StartRequests, KeepRequests, Handle, Stop
  <2>2. send_recv' \in {send_recv, NSteps + 1} \/ (send_recv < NSteps /\ send_recv' = send_recv + 1)
    BY <1>6 DEF ThreadComplete, StartRequests, KeepRequests, Stop
  <2>3. send_recv' \in 0 .. NSteps + 1
    BY <1>t, <2>2
  <2> QED
    BY <1>t, <1>4, <2>1, <2>3 DEF MainTypes
<1>7. CASE BeginAgain
  <2>1. /\ send_recv' \in {send_recv, 1} /\ stdin' \in {stdin, scene.skips} /\ phase' = phase
        /\ scene' = scene /\ exited' = exited /\ cthreads' = cthreads
    BY <1>7 DEF BeginAgain, StartRequests, Handle
  <2> QED
    BY <1>t, <2>1 DEF MainTypes
<1>8. CASE Interrupt \/ SkipStep
  BY <1>t, <1>8 DEF Interrupt, SkipStep, Stop, MainTypes
<1>9. CASE Finish \/ Second \/ UNCHANGED vars
  BY <1>t, <1>9 DEF Finish, Second, vars, MainTypes
<1> QED
  BY <1>1, <1>2, <1>3, <1>5, <1>6, <1>7, <1>8, <1>9 DEF Next, WorkerStep, MainStep

\* Connections are those of workers.
LEMMA ConnStep == MainTypes /\ ConnTypes /\ [Next]_vars => ConnTypes'
<1> SUFFICES ASSUME MainTypes, ConnTypes, [Next]_vars PROVE ConnTypes'
  OBVIOUS
<1>t. /\ conn_num \in [Worker -> Int] /\ complete_conn_num \in [Worker -> Int] /\ close_conn_num \in [Worker -> Int]
      /\ conns \subseteq Connection /\ is_skip \subseteq Connection
      /\ out \in [Connection -> Nat] /\ requests \in [Connection -> Nat]
  BY DEF ConnTypes
<1> USE DEF mainVars, reportVars, secondVars, pipeVars, countVars, connVars
<1>0. CASE UNCHANGED <<countVars, connVars>>
  BY <1>0 DEF ConnTypes
<1>1. ASSUME NEW w \in Worker, Connect(w) PROVE ConnTypes'
  <2>1. PICK n \in scene.made : /\ conn_num' = [conn_num EXCEPT ![w] = n]
                                /\ conns' = conns \cup {<<w, i>> : i \in 1 .. n}
    BY <1>1 DEF Connect
  <2>2. n \in 0 .. NConns
    BY <2>1, BenchAssumption DEF MainTypes
  <2>3. {<<w, i>> : i \in 1 .. n} \subseteq Connection
    BY <2>2, Constants DEF Connection
  <2>4. UNCHANGED <<complete_conn_num, close_conn_num, out, requests, is_skip>>
    BY <1>1 DEF Connect
  <2> QED
    BY <1>t, <2>1, <2>2, <2>3, <2>4 DEF ConnTypes
<1>2. ASSUME NEW w \in Worker, BeginRequests(w) PROVE ConnTypes'
  <2>1. out' \in [Connection -> Nat]
    BY <1>t, <1>2 DEF BeginRequests, SendAll
  <2>2. requests' \in [Connection -> Nat]
    BY <1>t, <1>2 DEF BeginRequests
  <2>3. complete_conn_num' \in [Worker -> Int] /\ UNCHANGED <<conn_num, close_conn_num, conns, is_skip>>
    BY <1>t, <1>2 DEF BeginRequests, Restart
  <2> QED
    BY <1>t, <2>1, <2>2, <2>3 DEF ConnTypes
<1>3. ASSUME NEW w \in Worker, Skip(w) \/ BreakThread(w) PROVE ConnTypes'
  BY <1>t, <1>3 DEF Skip, BreakThread, ConnTypes, Of
<1>4. ASSUME NEW c \in Connection, Reply(c) PROVE ConnTypes'
  <2>1. /\ out' = out \/ out' = [out EXCEPT ![c] = @ - 1]
        /\ is_skip' \subseteq is_skip
        /\ complete_conn_num' = complete_conn_num \/ complete_conn_num' = [complete_conn_num EXCEPT ![c[1]] = @ + 1]
        /\ UNCHANGED <<conn_num, close_conn_num, conns>> /\ out[c] > 0
        /\ requests' = [requests EXCEPT ![c] = @ + 1]
    BY <1>4 DEF Reply
  <2>2. out' \in [Connection -> Nat]
    BY <1>t, <2>1
  <2>3. requests' \in [Connection -> Nat]
    BY <1>t, <2>1
  <2>4. complete_conn_num' \in [Worker -> Int]
    BY <1>t, <2>1
  <2> QED
    BY <1>t, <2>1, <2>2, <2>3, <2>4 DEF ConnTypes
<1>5. ASSUME NEW c \in Connection, Closed(c) PROVE ConnTypes'
  <2>1. /\ conns' = conns \ {c} /\ out' = [out EXCEPT ![c] = 0] /\ is_skip' = is_skip \ {c}
        /\ close_conn_num' = [close_conn_num EXCEPT ![c[1]] = @ + 1]
        /\ UNCHANGED <<conn_num, complete_conn_num, requests>>
    BY <1>5 DEF Closed
  <2>2. close_conn_num' \in [Worker -> Int]
    <3> PICK v : v = c[1]
      OBVIOUS
    <3>1. v \in Worker
      BY DEF Connection
    <3> QED
      BY <1>t, <2>1, <3>1
  <2>3. out' \in [Connection -> Nat]
    BY <1>t, <2>1
  <2> QED
    BY <1>t, <2>1, <2>2, <2>3 DEF ConnTypes
<1>6. CASE MainStep \/ Interrupt \/ SkipStep \/ Second \/ UNCHANGED vars
  BY <1>0, <1>6 DEF MainStep, AllConnected, ThreadComplete, BeginAgain, Finish, Handle, Interrupt, SkipStep, Second, vars
<1> QED
  BY <1>1, <1>2, <1>3, <1>4, <1>5, <1>6 DEF Next, WorkerStep

\* A report is a pair of numbers for an entry of the list.
LEMMA SendRecvCallTyped ==
  ASSUME ReportTypes, ConnTypes, SendRecvCall
  PROVE  report' \in [1 .. NSteps -> [requests : Int, closes : Int]]
<1> DEFINE lost == [w \in Worker |-> close_conn_num[w] - preclose_conn_num[w]]
<1>1. thread_requests \in Seq(Int) /\ lost \in Seq(Int)
  BY Constants DEF ReportTypes, ConnTypes
<1>2. Total(thread_requests) \in Int /\ Total(lost) \in Int
  BY <1>1, TotalType
<1> HIDE DEF lost
<1>3. [requests |-> Total(thread_requests), closes |-> Total(lost)] \in [requests : Int, closes : Int]
  BY <1>2
<1>4. report' = [report EXCEPT ![send_recv] = [requests |-> Total(thread_requests), closes |-> Total(lost)]]
  BY DEF SendRecvCall, lost
<1> QED
  BY <1>3, <1>4 DEF ReportTypes

\* The counters of a send_recv are numbers.
LEMMA ReportStep == ReportTypes /\ ConnTypes /\ [Next]_vars => ReportTypes'
<1> SUFFICES ASSUME ReportTypes, ConnTypes, [Next]_vars PROVE ReportTypes'
  OBVIOUS
<1>t. /\ thread_requests \in [Worker -> Int] /\ preclose_conn_num \in [Worker -> Int]
      /\ close_conn_num \in [Worker -> Int]
      /\ report \in [1 .. NSteps -> [requests : Int, closes : Int]]
      /\ answered \in Int /\ closed \in Int
  BY DEF ReportTypes, ConnTypes
<1> USE DEF mainVars, reportVars, secondVars, pipeVars, countVars, connVars
<1>0. CASE UNCHANGED reportVars
  BY <1>0 DEF ReportTypes
<1>1. ASSUME NEW w \in Worker, Connect(w) \/ Skip(w) \/ BreakThread(w) PROVE ReportTypes'
  BY <1>0, <1>1 DEF Connect, Skip, BreakThread
<1>2. ASSUME NEW w \in Worker, BeginRequests(w) PROVE ReportTypes'
  BY <1>t, <1>2 DEF BeginRequests, ReportTypes
<1>3. ASSUME NEW c \in Connection, Reply(c) PROVE ReportTypes'
  <2>1. /\ thread_requests' = [thread_requests EXCEPT ![c[1]] = @ + 1] /\ answered' = answered + 1
        /\ UNCHANGED <<preclose_conn_num, report, closed>>
    BY <1>3 DEF Reply
  <2>2. thread_requests' \in [Worker -> Int]
    <3> PICK v : v = c[1]
      OBVIOUS
    <3>1. v \in Worker
      BY DEF Connection
    <3> QED
      BY <1>t, <2>1, <3>1
  <2> QED
    BY <1>t, <2>1, <2>2 DEF ReportTypes
<1>4. ASSUME NEW c \in Connection, Closed(c) PROVE ReportTypes'
  BY <1>t, <1>4 DEF Closed, ReportTypes
<1>5. CASE MainStep
  <2>1. report' \in [1 .. NSteps -> [requests : Int, closes : Int]]
    <3>1. report' = report \/ SendRecvCall
      BY <1>5 DEF MainStep, AllConnected, ThreadComplete, BeginAgain, Finish
    <3> QED
      BY <1>t, <3>1, SendRecvCallTyped
  <2>2. \/ UNCHANGED <<thread_requests, preclose_conn_num, answered, closed>>
        \/ /\ thread_requests' = [w \in Worker |-> 0] /\ answered' = 0 /\ closed' = 0
           /\ preclose_conn_num' = close_conn_num
    BY <1>5 DEF MainStep, AllConnected, ThreadComplete, BeginAgain, Finish, StartRequests, KeepRequests, CloseStarts
  <2> QED
    BY <1>t, <2>1, <2>2 DEF ReportTypes
<1>6. CASE Interrupt \/ SkipStep \/ Second \/ UNCHANGED vars
  BY <1>0, <1>6 DEF Interrupt, SkipStep, Second, vars
<1> QED
  BY <1>1, <1>2, <1>3, <1>4, <1>5, <1>6 DEF Next, WorkerStep

\* The position stays in the ring, whose seconds are numbers.
LEMMA SecondStep == SecondTypes /\ [Next]_vars => SecondTypes'
<1> SUFFICES ASSUME SecondTypes, [Next]_vars PROVE SecondTypes'
  OBVIOUS
<1>t. /\ main_requests \in Nat /\ seconds \in Seq(Nat)
      /\ second_requests \in [0 .. AVG_SECONDS - 1 -> Nat]
      /\ current_request_index \in 0 .. AVG_SECONDS - 1
      /\ sum_requests \in Int /\ min_requests \in Int /\ max_requests \in Int
      /\ AVG_SECONDS \in Nat /\ AVG_SECONDS > 0 /\ UINT_MAX \in Int
  BY Constants DEF SecondTypes
<1> USE DEF mainVars, reportVars, secondVars, pipeVars, countVars, connVars
<1>0. CASE UNCHANGED secondVars
  BY <1>0 DEF SecondTypes
<1>1. ASSUME NEW w \in Worker, WorkerStep(w) PROVE SecondTypes'
  BY <1>0, <1>1 DEF WorkerStep, Connect, BeginRequests, Skip, BreakThread
<1>2. ASSUME NEW c \in Connection, Reply(c) PROVE SecondTypes'
  BY <1>t, <1>2 DEF Reply, SecondTypes
<1>3. ASSUME NEW c \in Connection, Closed(c) PROVE SecondTypes'
  BY <1>0, <1>3 DEF Closed
<1>4. CASE MainStep
  <2>1. UNCHANGED secondVars \/ SendRecvCall
    BY <1>4 DEF MainStep, AllConnected, ThreadComplete, BeginAgain, Finish
  <2>2. CASE SendRecvCall
    <3>1. << >> \in Seq(Nat) /\ 0 \in 0 .. AVG_SECONDS - 1
      BY <1>t
    <3> QED
      BY <1>t, <2>2, <3>1 DEF SendRecvCall, SecondTypes
  <2> QED
    BY <1>0, <2>1, <2>2
<1>5. CASE Second
  <2>1. sum_requests' \in Int
    <3>1. second_requests[current_request_index] \in Nat
      BY <1>t
    <3> QED
      BY <1>t, <1>5, <3>1 DEF Second, NewSum
  <2>2. min_requests' \in Int /\ max_requests' \in Int
    <3>1. main_requests \in Int
      BY <1>t
    <3>2. /\ Min({min_requests, main_requests}) \in Int
          /\ Max({max_requests, main_requests}) \in Int
      BY <1>t, <3>1, MinMax
    <3> QED
      BY <1>5, <3>2 DEF Second
  <2>3. seconds' \in Seq(Nat)
    BY <1>t, <1>5, AppendProperties DEF Second
  <2>4. current_request_index' \in 0 .. AVG_SECONDS - 1
    BY <1>t, <1>5 DEF Second
  <2>5. second_requests' \in [0 .. AVG_SECONDS - 1 -> Nat] /\ main_requests' = 0
    BY <1>t, <1>5 DEF Second
  <2> QED
    BY <2>1, <2>2, <2>3, <2>4, <2>5 DEF SecondTypes
<1>6. CASE Interrupt \/ SkipStep \/ UNCHANGED vars
  BY <1>0, <1>6 DEF Interrupt, SkipStep, vars
<1> QED
  BY <1>1, <1>2, <1>3, <1>4, <1>5, <1>6 DEF Next

\* The variables begin with their types.
LEMMA InitTyped == Init => Typed
<1> SUFFICES ASSUME Init PROVE Typed
  OBVIOUS
<1>1. MainTypes
  <2>1. NWorkers \in Nat /\ NWorkers > 0 /\ NSteps \in Nat
    BY Constants
  <2>2. 0 \in 0 .. NSteps + 1 /\ 0 \in 0 .. NWorkers - 1
    BY <2>1
  <2> QED
    BY <2>2 DEF Init, MainTypes
<1>2. PipeTypes
  BY DEF Init, PipeTypes, Bytes, Orders
<1>3. ConnTypes
  BY DEF Init, ConnTypes
<1>4. ReportTypes
  BY DEF Init, ReportTypes
<1>5. SecondTypes
  BY Constants DEF Init, SecondTypes
<1> QED
  BY <1>1, <1>2, <1>3, <1>4, <1>5 DEF Typed

\* Each step keeps the types.
LEMMA TypedStep == Typed /\ [Next]_vars => Typed'
BY MainStepTyped, PipeStep, ConnStep, ReportStep, SecondStep DEF Typed

-----------------------------------------------------------------------------
(***************************************************************************)
(* The invariant, where each worker has a connection and the server closes *)
(* only connections that wait for a reply.                                 *)
(***************************************************************************)
\* A byte x waits for the worker w.
Has(w, x) == x \in Range(pipe[w])

\* At most one of the bytes is an order.
OneOrder(q) == \A j, k \in DOMAIN q : q[j] \in Orders /\ q[k] \in Orders => j = k

\* In every use: when a worker ends, and which connections have sent nothing.
Silent ==
  /\ \A w \in Worker : w \in exited \/ Has(w, "-") => phase # "run"
  /\ \A c \in Connection \ conns : c[1] \notin exited => out[c] = 0

\* Each worker has a connection, and the server closes only busy ones.
Calm == EachConnects /\ scene.closes # "always"

\* A worker has one order at a time, and no request is under way before it has
\* taken it; "c" and "b" are the first orders.
OneByOne ==
  /\ \A w \in Worker :
       /\ OneOrder(pipe[w])
       /\ ~Begun(w) => \A c \in Of(w) : out[c] = 0
       /\ Has(w, "c") /\ w \notin exited => Of(w) = {} /\ conn_num[w] = 0 /\ close_conn_num[w] = 0
       /\ Has(w, "c") => send_recv = 0
       /\ Has(w, "b") => close_conn_num[w] = 0
       /\ Has(w, "n") \/ Has(w, "b") \/ close_conn_num[w] # 0 => send_recv # 0
  /\ \A c \in Connection : out[c] # 0 => send_recv # 0
  /\ "b" \notin Range(inbox) /\ ("c" \in Range(inbox) => send_recv = 0)

\* The connections of w that do not wait for a reply.
Ready(w) == {c \in Of(w) : out[c] = 0}

\* The counters of a worker count its connections.
Counters ==
  /\ \A w \in Worker \ exited :
       /\ close_conn_num[w] + Cardinality(Of(w)) = conn_num[w]
       /\ Of(w) # Ready(w) => complete_conn_num[w] = Cardinality(Ready(w))
  /\ \A c \in Connection :
       /\ out[c] <= 1 /\ requests[c] <= NRequests
       /\ out[c] = 1 => requests[c] < NRequests

\* The workers that are done with the send_recv.
IdleWorkers == {w \in Worker : Idle(w)}

\* Answers that are counted or under way are those of idle workers, each once.
Answers == phase = "run" => cthreads + Len(inbox) = Cardinality(IdleWorkers)

\* Where nobody skips, a connection that is done has made all of its requests.
Unskipped ==
  ~scene.skips =>
    /\ ~stdin /\ is_skip = {} /\ \A w \in Worker : ~Has(w, "N")
    /\ send_recv # 0 => \A w \in Worker : Begun(w) => \A c \in Ready(w) : requests[c] = NRequests

\* All of the invariant that holds only in Calm.
Rules == OneByOne /\ Counters /\ Answers /\ Unskipped

\* What begun means for the bytes that wait.
LEMMA BegunMeans ==
  ASSUME PipeTypes, NEW w \in Worker
  PROVE  /\ Begun(w) <=> Range(pipe[w]) \cap Orders = {}
         /\ Begun(w) <=> ~Has(w, "c") /\ ~Has(w, "b") /\ ~Has(w, "n")
<1>1. DOMAIN pipe[w] = 1 .. Len(pipe[w])
  BY LenProperties DEF PipeTypes
<1> QED
  BY <1>1 DEF Begun, Range, Orders, Has

\* The same in the next state.
LEMMA BegunMeansNext ==
  PipeTypes' => \A w \in Worker : /\ Begun(w)' <=> Range(pipe'[w]) \cap Orders = {}
                                  /\ Begun(w)' <=> ~Has(w, "c")' /\ ~Has(w, "b")' /\ ~Has(w, "n")'
<1>1. PipeTypes => \A w \in Worker : /\ Begun(w) <=> Range(pipe[w]) \cap Orders = {}
                                     /\ Begun(w) <=> ~Has(w, "c") /\ ~Has(w, "b") /\ ~Has(w, "n")
  BY BegunMeans
<1>2. (PipeTypes => \A w \in Worker : /\ Begun(w) <=> Range(pipe[w]) \cap Orders = {}
                                      /\ Begun(w) <=> ~Has(w, "c") /\ ~Has(w, "b") /\ ~Has(w, "n"))'
  BY <1>1, PTL
<1> QED
  BY <1>2

\* Taking a byte leaves the others, and no order behind an order.
LEMMA TakeFacts ==
  ASSUME PipeTypes, NEW w \in Worker, NEW x, Take(w, x)
  PROVE  /\ w \notin exited /\ Has(w, x)
         /\ Range(pipe[w]) = Range(pipe'[w]) \cup {x}
         /\ \A v \in Worker : v # w => pipe'[v] = pipe[v]
         /\ OneOrder(pipe[w]) => OneOrder(pipe'[w])
         /\ OneOrder(pipe[w]) /\ x \in Orders => Range(pipe'[w]) \cap Orders = {}
<1> PICK q : q = pipe[w]
  OBVIOUS
<1>1. /\ q \in Seq(Bytes) /\ q # << >> /\ Head(q) = x /\ w \notin exited
      /\ pipe'[w] = Tail(q) /\ \A v \in Worker : v # w => pipe'[v] = pipe[v]
  BY DEF Take, PipeTypes
<1>2. Range(q) = Range(Tail(q)) \cup {x}
  BY <1>1, PopFacts
<1>3. /\ Len(q) \in Nat /\ Len(q) > 0 /\ DOMAIN q = 1 .. Len(q) /\ DOMAIN Tail(q) = 1 .. Len(q) - 1
      /\ q[1] = x /\ \A k \in 1 .. Len(q) - 1 : Tail(q)[k] = q[k + 1]
  BY <1>1, HeadTailProperties, LenProperties, EmptySeq
<1>4. ASSUME OneOrder(q) PROVE OneOrder(Tail(q))
  <2>1. ASSUME NEW j \in DOMAIN Tail(q), NEW k \in DOMAIN Tail(q), Tail(q)[j] \in Orders, Tail(q)[k] \in Orders
        PROVE  j = k
    <3> PICK i, m : i = j + 1 /\ m = k + 1
      OBVIOUS
    <3>1. i \in DOMAIN q /\ m \in DOMAIN q /\ q[i] \in Orders /\ q[m] \in Orders /\ j \in Nat /\ k \in Nat
      BY <1>3, <2>1
    <3>2. i = m
      BY <1>4, <3>1 DEF OneOrder
    <3> QED
      BY <3>1, <3>2
  <2> QED
    BY <2>1 DEF OneOrder
<1>5. ASSUME OneOrder(q), x \in Orders PROVE Range(Tail(q)) \cap Orders = {}
  <2>1. ASSUME NEW k \in DOMAIN Tail(q) PROVE Tail(q)[k] \notin Orders
    <3> PICK m : m = k + 1
      OBVIOUS
    <3>1. m \in DOMAIN q /\ 1 \in DOMAIN q /\ m # 1 /\ Tail(q)[k] = q[m]
      BY <1>3, <2>1
    <3> QED
      BY <1>3, <1>5, <3>1 DEF OneOrder
  <2> QED
    BY <2>1 DEF Range
<1>6. x \in Range(pipe[w]) /\ Range(pipe[w]) = Range(pipe'[w]) \cup {x}
  BY <1>1, <1>2
<1>7. OneOrder(pipe[w]) => OneOrder(pipe'[w])
  BY <1>1, <1>4
<1>8. OneOrder(pipe[w]) /\ x \in Orders => Range(pipe'[w]) \cap Orders = {}
  BY <1>1, <1>5
<1> QED
  BY <1>1, <1>6, <1>7, <1>8 DEF Has

\* Writing a byte puts it behind the others.
LEMMA WriteFacts ==
  ASSUME PipeTypes, NEW x \in Bytes, Write(x), NEW w \in Worker
  PROVE  /\ Range(pipe'[w]) = Range(pipe[w]) \cup {x}
         /\ OneOrder(pipe[w]) /\ x \notin Orders => OneOrder(pipe'[w])
         /\ Range(pipe[w]) \cap Orders = {} => OneOrder(pipe'[w])
<1> PICK q, n : q = pipe[w] /\ n = Len(q)
  OBVIOUS
<1>1. q \in Seq(Bytes) /\ pipe'[w] = Append(q, x)
  BY DEF Write, PipeTypes
<1>2. Range(Append(q, x)) = Range(q) \cup {x}
  BY <1>1, PushFacts
<1>3. /\ n \in Nat /\ DOMAIN q = 1 .. n /\ DOMAIN Append(q, x) = 1 .. n + 1
      /\ Append(q, x)[n + 1] = x /\ \A k \in 1 .. n : Append(q, x)[k] = q[k]
  BY <1>1, AppendProperties, LenProperties
<1>4. ASSUME OneOrder(q), x \notin Orders PROVE OneOrder(Append(q, x))
  BY <1>3, <1>4 DEF OneOrder
<1>5. ASSUME Range(q) \cap Orders = {} PROVE OneOrder(Append(q, x))
  <2>1. \A k \in 1 .. n : q[k] \notin Orders
    BY <1>3, <1>5 DEF Range
  <2>2. \A k \in 1 .. n + 1 : k \in 1 .. n \/ k = n + 1
    BY <1>3
  <2> QED
    BY <1>3, <2>1, <2>2 DEF OneOrder
<1> QED
  BY <1>1, <1>2, <1>4, <1>5

\* What Calm and the types tell when an order comes.
LEMMA CalmBack == Typed /\ Typed' /\ [Next]_vars /\ Calm' => Calm
<1> SUFFICES ASSUME Typed, Typed', [Next]_vars, Calm', ~EachConnects PROVE FALSE
  <2> SUFFICES ASSUME Typed, Typed', [Next]_vars, Calm', EachConnects PROVE Calm
    OBVIOUS
  <2>1. scene' = scene
    <3>1. ASSUME NEW w \in Worker, WorkerStep(w) PROVE scene' = scene
      BY <3>1 DEF WorkerStep, Connect, BeginRequests, Skip, BreakThread, mainVars
    <3>2. ASSUME NEW c \in Connection, Reply(c) \/ Closed(c) PROVE scene' = scene
      BY <3>2 DEF Reply, Closed, mainVars
    <3>3. CASE MainStep
      BY <3>3 DEF MainStep, AllConnected, ThreadComplete, BeginAgain, Finish, Handle
    <3>4. CASE Interrupt \/ SkipStep \/ Second \/ UNCHANGED vars
      BY <3>4 DEF Interrupt, SkipStep, Second, vars, mainVars
    <3> QED
      BY <3>1, <3>2, <3>3, <3>4 DEF Next
  <2> QED
    BY <2>1 DEF Calm
<1>1. PICK w \in Worker : Unconnected(w)
  BY DEF EachConnects
<1>t. PipeTypes /\ PipeTypes' /\ conn_num \in [Worker -> Int]
  BY DEF Typed, ConnTypes
<1>2. ~Has(w, "c") \/ w \in exited
  BY <1>1, <1>t, LenProperties DEF Unconnected, Has, Range, PipeTypes
<1>3. exited \subseteq exited'
  BY DEF Next, vars, WorkerStep, Connect, BeginRequests, Skip, BreakThread, Reply, Closed,
    MainStep, AllConnected, ThreadComplete, BeginAgain, Finish, Handle, Interrupt, SkipStep, Second
<1>4. ~Has(w, "c")' \/ w \in exited'
  <2> SUFFICES ASSUME ~Has(w, "c"), Has(w, "c")' PROVE FALSE
    BY <1>2, <1>3
  <2>1. \/ pipe' = pipe
        \/ \E v \in Worker : \E x : Take(v, x)
        \/ \E x \in Bytes : x # "c" /\ Write(x)
    BY DEF Next, vars, pipeVars, WorkerStep, Connect, BeginRequests, Skip, BreakThread, Reply, Closed,
      MainStep, AllConnected, ThreadComplete, BeginAgain, Finish, Interrupt, SkipStep, Second,
      StartRequests, KeepRequests, Stop, Bytes, Orders
  <2>2. ASSUME NEW v \in Worker, NEW x, Take(v, x) PROVE FALSE
    BY <1>t, <2>2, TakeFacts DEF Has
  <2>3. ASSUME NEW x \in Bytes, x # "c", Write(x) PROVE FALSE
    BY <1>t, <2>3, WriteFacts DEF Has
  <2> QED
    BY <2>1, <2>2, <2>3 DEF Has
<1>5. conn_num'[w] = 0
  <2>1. conn_num' = conn_num \/ \E v \in Worker : Connect(v)
    BY DEF Next, vars, countVars, WorkerStep, BeginRequests, Skip, BreakThread, Reply, Closed,
      MainStep, AllConnected, ThreadComplete, BeginAgain, Finish, Handle, Interrupt, SkipStep, Second
  <2>2. ASSUME NEW v \in Worker, Connect(v) PROVE conn_num'[w] = 0
    <3>1. v # w
      <4>1. Take(v, "c")
        BY <2>2 DEF Connect
      <4> QED
        BY <1>2, <1>t, <4>1, TakeFacts
    <3> QED
      BY <1>1, <1>t, <2>2, <3>1 DEF Connect, Unconnected
  <2> QED
    BY <1>1, <2>1, <2>2 DEF Unconnected
<1>6. Unconnected(w)'
  <2>1. "c" \notin {pipe'[w][i] : i \in 1 .. Len(pipe'[w])} \/ w \in exited'
    BY <1>4, <1>t, LenProperties DEF Has, Range, PipeTypes
  <2> QED
    BY <1>5, <2>1 DEF Unconnected
<1> QED
  BY <1>6 DEF Calm, EachConnects

-----------------------------------------------------------------------------
(***************************************************************************)
(* What the main thread does with an answer.                               *)
(***************************************************************************)
\* It is counted, and others are awaited.
Counted ==
  /\ phase = "run" /\ inbox # << >> /\ inbox' = Tail(inbox) /\ cthreads' = cthreads + 1
  /\ UNCHANGED <<send_recv, stdin, phase, scene, exited, pipe, countVars, connVars, reportVars, secondVars>>

\* It was the last one: nothing else is under way.
Complete ==
  /\ phase = "run" /\ IdleWorkers = Worker /\ inbox' = << >> /\ cthreads' = 0
  /\ UNCHANGED <<scene, exited, countVars, connVars>>

\* The send_recv at n begins.
Round(n, x) ==
  /\ Complete /\ n \in 1 .. NSteps /\ send_recv' = n /\ send_recv # n
  /\ (x = "b" /\ send_recv = 0) \/ x = "n"
  /\ Write(x) /\ UNCHANGED phase /\ stdin' = scene.skips
  /\ preclose_conn_num' = close_conn_num /\ thread_requests' = [w \in Worker |-> 0]
  /\ answered' = 0 /\ closed' = 0
  /\ SendRecvCall \/ (send_recv = 0 /\ UNCHANGED <<report, secondVars>>)

\* All have been done.
LastRound ==
  /\ Complete /\ send_recv >= NSteps /\ send_recv' = NSteps + 1 /\ phase' = "exit" /\ Write("-") /\ SendRecvCall
  /\ UNCHANGED <<stdin, preclose_conn_num, thread_requests, answered, closed>>

\* When the answer that is handled is the last of the round, all workers are idle.
LEMMA AllIdle ==
  ASSUME Typed, Answers, phase = "run", inbox # << >>, RoundOver, Count
  PROVE  IdleWorkers = Worker /\ Tail(inbox) = << >> /\ cthreads' = 0
<1>1. /\ NWorkers \in Nat /\ NWorkers > 0 /\ IsFiniteSet(Worker) /\ Cardinality(Worker) = NWorkers
  BY Constants
<1>2. cthreads \in 0 .. NWorkers - 1 /\ inbox \in Seq(Orders)
  BY DEF Typed, MainTypes, PipeTypes
<1>3. Len(inbox) \in Nat /\ Len(inbox) > 0 /\ Len(Tail(inbox)) = Len(inbox) - 1 /\ Tail(inbox) \in Seq(Orders)
  BY <1>2, HeadTailProperties, LenProperties, EmptySeq
<1>4. IsFiniteSet(IdleWorkers) /\ Cardinality(IdleWorkers) <= NWorkers /\ Cardinality(IdleWorkers) \in Nat
      /\ (Cardinality(IdleWorkers) = NWorkers => IdleWorkers = Worker)
  <2>1. IdleWorkers \in SUBSET Worker
    BY DEF IdleWorkers
  <2> QED
    BY <1>1, <2>1, FS_Subset, FS_CardinalityType
<1>5. cthreads + 1 >= NWorkers /\ cthreads' = 0
  BY <1>1, <1>2 DEF RoundOver, Count
<1>6. cthreads + Len(inbox) = Cardinality(IdleWorkers)
  BY DEF Answers
<1>7. Cardinality(IdleWorkers) = NWorkers /\ Len(inbox) = 1
  BY <1>1, <1>2, <1>3, <1>4, <1>5, <1>6
<1>8. Tail(inbox) = << >>
  <2> PICK t : t = Tail(inbox)
    OBVIOUS
  <2>1. t \in Seq(Orders) /\ Len(t) = 0
    BY <1>3, <1>7
  <2>2. t = << >>
    BY <2>1, EmptySeq
  <2> QED
    BY <2>2
<1> QED
  BY <1>4, <1>5, <1>7, <1>8

\* The cases of a step of the main thread.
LEMMA MainCases ==
  ASSUME Typed, OneByOne, Answers, MainStep
  PROVE  \/ Counted \/ LastRound \/ Finish
         \/ \E n, x : Round(n, x)
<1> USE DEF mainVars, reportVars, secondVars, pipeVars, countVars, connVars
<1>t. /\ NSteps \in Nat /\ NSteps > 0 /\ send_recv \in 0 .. NSteps + 1 /\ inbox \in Seq(Orders)
      /\ NWorkers \in Nat /\ cthreads \in 0 .. NWorkers - 1
  BY Constants DEF Typed, MainTypes, PipeTypes
<1>c. ASSUME Count, ~RoundOver PROVE cthreads' = cthreads + 1
  BY <1>t, <1>c DEF Count, RoundOver
<1>h. \A x : Handle(x) => /\ x \in Range(inbox) /\ phase = "run" /\ inbox # << >> /\ inbox' = Tail(inbox)
                          /\ UNCHANGED <<scene, exited, countVars, connVars>>
  BY <1>t, HeadTailProperties DEF Handle, Range
<1>1. ASSUME AllConnected, RoundOver PROVE Round(1, "b")
  <2>1. send_recv = 0
    BY <1>1, <1>h DEF AllConnected, OneByOne
  <2>2. Complete
    <3>1. Handle("c") /\ Count
      BY <1>1 DEF AllConnected
    <3> QED
      BY <3>1, <1>h, <1>1, AllIdle DEF Complete
  <2>3. StartRequests(1, "b") /\ UNCHANGED <<phase, report, secondVars>>
    BY <1>1 DEF AllConnected
  <2> QED
    BY <1>t, <2>1, <2>2, <2>3 DEF Round, StartRequests, CloseStarts
<1>2. ASSUME AllConnected, ~RoundOver PROVE Counted
  <2>1. Handle("c") /\ Count /\ KeepRequests /\ UNCHANGED <<phase, report, secondVars>>
    BY <1>2 DEF AllConnected
  <2> QED
    BY <1>c, <1>h, <1>2, <2>1 DEF Counted, KeepRequests
<1>3. ASSUME ThreadComplete, ~RoundOver PROVE Counted
  <2>1. Handle("n") /\ Count /\ KeepRequests /\ UNCHANGED <<phase, report, secondVars>>
    BY <1>3 DEF ThreadComplete
  <2> QED
    BY <1>c, <1>h, <1>3, <2>1 DEF Counted, KeepRequests
<1>4. ASSUME ThreadComplete, RoundOver PROVE LastRound \/ \E n, x : Round(n, x)
  <2>1. Handle("n") /\ Count /\ SendRecvCall
    BY <1>4 DEF ThreadComplete
  <2>2. Complete
    BY <2>1, <1>h, <1>4, AllIdle DEF Complete
  <2>3. CASE send_recv < NSteps /\ StartRequests(send_recv + 1, "n") /\ UNCHANGED phase
    <3>1. send_recv + 1 \in 1 .. NSteps /\ send_recv # send_recv + 1
      BY <1>t, <2>3
    <3>2. Round(send_recv + 1, "n")
      BY <2>1, <2>2, <2>3, <3>1 DEF Round, StartRequests, CloseStarts
    <3> QED
      BY <3>2
  <2>4. CASE /\ send_recv >= NSteps /\ Stop /\ send_recv' = NSteps + 1
             /\ UNCHANGED <<stdin, preclose_conn_num, thread_requests, answered, closed>>
    BY <2>1, <2>2, <2>4 DEF LastRound, Stop
  <2> QED
    BY <1>4, <2>3, <2>4 DEF ThreadComplete
<1>5. ~BeginAgain
  BY <1>h DEF BeginAgain, OneByOne
<1> QED
  BY <1>1, <1>2, <1>3, <1>4, <1>5 DEF MainStep

\* Who ends, and who is silent.
LEMMA SilentStep == Typed /\ Silent /\ [Next]_vars => Silent'
<1> SUFFICES ASSUME Typed, Silent, [Next]_vars PROVE Silent'
  OBVIOUS
<1> USE DEF mainVars, reportVars, secondVars, pipeVars, countVars, connVars
<1>t. PipeTypes /\ out \in [Connection -> Nat] /\ conns \subseteq Connection
  BY DEF Typed, ConnTypes
<1>1. phase' = "run" => phase = "run" /\ exited' = exited
  <2> SUFFICES ASSUME phase' = "run" PROVE phase = "run" /\ exited' = exited
    OBVIOUS
  <2>1. ASSUME NEW w \in Worker, BreakThread(w) PROVE FALSE
    <3>1. Take(w, "-") /\ phase' = phase
      BY <2>1 DEF BreakThread
    <3> QED
      BY <1>t, <3>1, TakeFacts DEF Silent
  <2>2. ASSUME NEW w \in Worker, Connect(w) \/ BeginRequests(w) \/ Skip(w)
        PROVE  phase = "run" /\ exited' = exited
    BY <2>2 DEF Connect, BeginRequests, Skip
  <2>3. ASSUME NEW c \in Connection, Reply(c) \/ Closed(c) PROVE phase = "run" /\ exited' = exited
    BY <2>3 DEF Reply, Closed
  <2>4. CASE MainStep \/ Interrupt \/ SkipStep \/ Second \/ UNCHANGED vars
    BY <2>4 DEF MainStep, AllConnected, ThreadComplete, BeginAgain, Finish, Handle, Interrupt, SkipStep, Second, Stop, vars
  <2> QED
    BY <2>1, <2>2, <2>3, <2>4 DEF Next, WorkerStep
<1>2. ASSUME NEW w \in Worker, phase' = "run", Has(w, "-")' PROVE Has(w, "-")
  <2>1. \/ pipe' = pipe
        \/ \E v \in Worker : \E x : Take(v, x)
        \/ \E x \in Bytes : x # "-" /\ Write(x)
    BY <1>2 DEF Next, vars, WorkerStep, Connect, BeginRequests, Skip, BreakThread, Reply, Closed,
      MainStep, AllConnected, ThreadComplete, BeginAgain, Finish, Interrupt, SkipStep, Second,
      StartRequests, KeepRequests, Stop, Bytes, Orders
  <2>2. ASSUME NEW v \in Worker, NEW x, Take(v, x) PROVE Has(w, "-")
    BY <1>t, <1>2, <2>2, TakeFacts DEF Has
  <2>3. ASSUME NEW x \in Bytes, x # "-", Write(x) PROVE Has(w, "-")
    BY <1>t, <1>2, <2>3, WriteFacts DEF Has
  <2> QED
    BY <1>2, <2>1, <2>2, <2>3 DEF Has
<1>3. ASSUME NEW c \in Connection, c \notin conns', c[1] \notin exited' PROVE out'[c] = 0
  <2>1. ASSUME NEW w \in Worker, Connect(w) PROVE out'[c] = 0
    BY <1>3, <2>1 DEF Connect, Silent
  <2>2. ASSUME NEW w \in Worker, BeginRequests(w) PROVE out'[c] = 0
    <3>1. c \notin Of(w) /\ out[c] = 0
      BY <1>3, <2>2 DEF BeginRequests, Of, Silent
    <3> QED
      BY <1>t, <2>2, <3>1 DEF BeginRequests, SendAll
  <2>3. ASSUME NEW w \in Worker, Skip(w) \/ BreakThread(w) PROVE out'[c] = 0
    BY <1>3, <2>3 DEF Skip, BreakThread, Silent, Of
  <2>4. ASSUME NEW d \in Connection, Reply(d) PROVE out'[c] = 0
    <3>1. c # d /\ out[c] = 0
      BY <1>3, <2>4 DEF Reply, Silent
    <3> QED
      BY <1>t, <2>4, <3>1 DEF Reply
  <2>5. ASSUME NEW d \in Connection, Closed(d) PROVE out'[c] = 0
    BY <1>t, <1>3, <2>5 DEF Closed, Silent
  <2>6. CASE MainStep \/ Interrupt \/ SkipStep \/ Second \/ UNCHANGED vars
    BY <1>3, <2>6 DEF MainStep, AllConnected, ThreadComplete, BeginAgain, Finish, Handle, Interrupt, SkipStep, Second,
      vars, Silent
  <2> QED
    BY <2>1, <2>2, <2>3, <2>4, <2>5, <2>6 DEF Next, WorkerStep
<1> QED
  BY <1>1, <1>2, <1>3 DEF Silent

\* In Calm a worker with an order to begin has a connection.
LEMMA HasOne ==
  ASSUME Typed, Calm, OneByOne, NEW w \in Worker, w \notin exited, ~Has(w, "c")
  PROVE  conn_num[w] # 0
<1>1. "c" \notin {pipe[w][i] : i \in 1 .. Len(pipe[w])}
  BY LenProperties DEF Has, Range, Typed, PipeTypes
<1> QED
  BY <1>1 DEF Calm, EachConnects, Unconnected

\* What OneByOne says of one worker.
Single(w) ==
  /\ OneOrder(pipe[w])
  /\ ~Begun(w) => \A c \in Of(w) : out[c] = 0
  /\ Has(w, "c") /\ w \notin exited => Of(w) = {} /\ conn_num[w] = 0 /\ close_conn_num[w] = 0
  /\ Has(w, "c") => send_recv = 0
  /\ Has(w, "b") => close_conn_num[w] = 0
  /\ Has(w, "n") \/ Has(w, "b") \/ close_conn_num[w] # 0 => send_recv # 0

\* A worker that is not concerned.
LEMMA SingleStays ==
  ASSUME PipeTypes, PipeTypes', NEW w \in Worker, Single(w), pipe'[w] = pipe[w], Of(w)' \subseteq Of(w),
         \A c \in Of(w)' : out[c] = 0 => out'[c] = 0,
         exited \subseteq exited', conn_num'[w] = conn_num[w], close_conn_num'[w] = close_conn_num[w],
         send_recv' = send_recv
  PROVE  Single(w)'
BY DEF Single, Has, Begun

\* Bytes that are no orders come and go.
LEMMA SingleBytes ==
  ASSUME PipeTypes, PipeTypes', NEW w \in Worker, Single(w), OneOrder(pipe'[w]),
         Range(pipe'[w]) \cap Orders \subseteq Range(pipe[w]) \cap Orders,
         Of(w)' \subseteq Of(w),
         \A c \in Of(w)' : out'[c] = out[c],
         exited \subseteq exited', conn_num'[w] = conn_num[w], close_conn_num'[w] = close_conn_num[w],
         send_recv' = send_recv
  PROVE  Single(w)'
<1>1. Begun(w) => Begun(w)'
  BY BegunMeans, BegunMeansNext
<1>2. \A x \in Orders : Has(w, x)' => Has(w, x)
  BY DEF Has
<1> QED
  BY <1>1, <1>2 DEF Single, Orders

\* Each step keeps the order of a worker the only one.
LEMMA SingleStep ==
  ASSUME Typed, Typed', Calm, OneByOne, Answers, [Next]_vars, NEW w \in Worker
  PROVE  Single(w)'
<1> USE DEF mainVars, reportVars, secondVars, pipeVars, countVars, connVars
<1>t. /\ PipeTypes /\ PipeTypes' /\ Single(w)
      /\ out \in [Connection -> Nat] /\ conns \subseteq Connection
      /\ close_conn_num \in [Worker -> Int] /\ conn_num \in [Worker -> Int]
  BY DEF Typed, ConnTypes, OneByOne, Single
<1>0. CASE UNCHANGED <<send_recv, pipe, conns, out, exited, conn_num, close_conn_num>>
  BY <1>0, <1>t, SingleStays DEF Of
<1>1. ASSUME NEW v \in Worker, Connect(v) PROVE Single(w)'
  <2>1. Take(v, "c") /\ UNCHANGED <<close_conn_num, out, exited, send_recv>>
    BY <1>1 DEF Connect
  <2>2. /\ send_recv = 0 /\ \A c \in Connection : out[c] = 0
    BY <1>t, <2>1, TakeFacts DEF OneByOne
  <2>3. CASE v = w
    <3>1. /\ OneOrder(pipe'[w]) /\ Range(pipe'[w]) \cap Orders = {} /\ close_conn_num[w] = 0
      BY <1>t, <2>1, <2>3, TakeFacts DEF OneByOne, Orders
    <3>2. Begun(w)' /\ ~Has(w, "c")' /\ ~Has(w, "b")' /\ ~Has(w, "n")'
      BY <1>t, <3>1, BegunMeansNext
    <3> QED
      BY <2>1, <3>1, <3>2 DEF Single
  <2>4. CASE v # w
    <3>1. pipe'[w] = pipe[w] /\ Of(w)' = Of(w) /\ conn_num'[w] = conn_num[w]
      BY <1>t, <1>1, <2>1, <2>4, TakeFacts DEF Connect, Of
    <3> QED
      BY <1>t, <2>1, <3>1, SingleStays
  <2> QED
    BY <2>3, <2>4
<1>2. ASSUME NEW v \in Worker, BeginRequests(v) PROVE Single(w)'
  <2> PICK x \in {"b", "n"} : Take(v, x)
    BY <1>2 DEF BeginRequests
  <2>1. UNCHANGED <<close_conn_num, conn_num, conns, exited, send_recv>>
    BY <1>2 DEF BeginRequests
  <2>2. \A c \in Connection : c \notin Of(v) => out'[c] = out[c]
    BY <1>t, <1>2 DEF BeginRequests, SendAll
  <2>3. CASE v = w
    <3>1. /\ OneOrder(pipe'[w]) /\ Range(pipe'[w]) \cap Orders = {} /\ send_recv # 0
      BY <1>t, <2>3, TakeFacts DEF OneByOne, Orders
    <3>2. Begun(w)' /\ ~Has(w, "c")' /\ ~Has(w, "b")' /\ ~Has(w, "n")'
      BY <1>t, <3>1, BegunMeansNext
    <3> QED
      BY <2>1, <3>1, <3>2 DEF Single
  <2>4. CASE v # w
    <3>1. pipe'[w] = pipe[w]
      BY <1>t, <2>4, TakeFacts
    <3>2. Of(w)' = Of(w) /\ \A c \in Of(w)' : out'[c] = out[c]
      BY <1>t, <2>1, <2>2, <2>4 DEF Of
    <3> QED
      BY <1>t, <2>1, <3>1, <3>2, SingleStays
  <2> QED
    BY <2>3, <2>4
<1>3. ASSUME NEW v \in Worker, Skip(v) \/ BreakThread(v) PROVE Single(w)'
  <2>1. /\ Take(v, "N") \/ Take(v, "-")
        /\ UNCHANGED <<out, conn_num, close_conn_num, send_recv>> /\ conns' \subseteq conns /\ exited \subseteq exited'
    BY <1>3 DEF Skip, BreakThread
  <2>2. Of(w)' \subseteq Of(w)
    BY <2>1 DEF Of
  <2>3. OneOrder(pipe'[w]) /\ Range(pipe'[w]) \subseteq Range(pipe[w])
    <3>1. CASE v = w
      BY <1>t, <2>1, <3>1, TakeFacts DEF Single
    <3>2. CASE v # w
      BY <1>t, <2>1, <3>2, TakeFacts DEF Single
    <3> QED
      BY <3>1, <3>2
  <2>4. Range(pipe'[w]) \cap Orders \subseteq Range(pipe[w]) \cap Orders /\ (\A c \in Of(w)' : out'[c] = out[c])
    BY <2>1, <2>3
  <2> QED
    BY <1>t, <2>1, <2>2, <2>3, <2>4, SingleBytes
<1>4. ASSUME NEW c \in Connection, Reply(c) PROVE Single(w)'
  <2>1. /\ UNCHANGED <<pipe, conns, conn_num, close_conn_num, send_recv, exited>>
        /\ out' = out \/ out' = [out EXCEPT ![c] = @ - 1]
        /\ c \in conns /\ out[c] > 0
    BY <1>4 DEF Reply
  <2>2. \A d \in Of(w) : out[d] = 0 => out'[d] = 0
    BY <1>t, <2>1 DEF Of
  <2> QED
    BY <1>t, <2>1, <2>2, SingleStays DEF Of
<1>5. ASSUME NEW c \in Connection, Closed(c) PROVE Single(w)'
  <2>1. /\ UNCHANGED <<pipe, conn_num, send_recv, exited>>
        /\ conns' = conns \ {c} /\ out' = [out EXCEPT ![c] = 0]
        /\ close_conn_num' = [close_conn_num EXCEPT ![c[1]] = @ + 1]
        /\ c \in conns /\ out[c] > 0
    BY <1>5 DEF Closed, Calm
  <2>2. /\ Of(w)' \subseteq Of(w) /\ \A d \in Of(w)' : out'[d] = out[d]
    BY <1>t, <2>1 DEF Of
  <2>3. CASE c[1] = w
    <3>1. c \in Of(w) /\ send_recv # 0
      BY <1>t, <2>1, <2>3 DEF Of, OneByOne
    <3>2. Begun(w)
      BY <1>t, <2>1, <3>1 DEF Single
    <3>3. ~Has(w, "c") /\ ~Has(w, "b") /\ ~Has(w, "n")
      BY <1>t, <3>2, BegunMeans
    <3> QED
      BY <1>t, <2>1, <3>1, <3>2, <3>3 DEF Single, Has, Begun
  <2>4. CASE c[1] # w
    <3>1. close_conn_num'[w] = close_conn_num[w]
      BY <1>t, <2>1, <2>4
    <3> QED
      BY <1>t, <2>1, <2>2, <3>1, SingleStays
  <2> QED
    BY <2>3, <2>4
<1>6. CASE Complete /\ \E x \in Bytes : Write(x) /\ (x = "b" \/ x = "n" \/ x = "-") /\ send_recv' # 0
                    /\ (x = "b" => send_recv = 0)
  <2> PICK x \in Bytes : Write(x) /\ (x = "b" \/ x = "n" \/ x = "-") /\ send_recv' # 0 /\ (x = "b" => send_recv = 0)
    BY <1>6
  <2>1. /\ Begun(w) /\ (\A c \in Of(w) : out[c] = 0) /\ UNCHANGED <<out, conns, close_conn_num, conn_num, exited>>
    BY <1>6 DEF Complete, IdleWorkers, Idle
  <2>2. Range(pipe[w]) \cap Orders = {} /\ ~Has(w, "c") /\ ~Has(w, "b") /\ ~Has(w, "n")
    BY <1>t, <2>1, BegunMeans
  <2>3. OneOrder(pipe'[w]) /\ Range(pipe'[w]) = Range(pipe[w]) \cup {x}
    BY <1>t, <2>2, WriteFacts
  <2>4. ~Has(w, "c")' /\ (Has(w, "b")' => x = "b")
    BY <2>2, <2>3 DEF Has
  <2>5. x = "b" => close_conn_num[w] = 0
    BY <1>t DEF Single
  <2>6. \A c \in Of(w)' : out'[c] = 0
    BY <2>1 DEF Of
  <2> QED
    BY <2>1, <2>3, <2>4, <2>5, <2>6 DEF Single
<1>7. CASE MainStep
  <2>1. CASE Counted
    BY <1>0, <2>1 DEF Counted
  <2>2. CASE LastRound
    <3>1. NSteps + 1 # 0 /\ "-" \in Bytes
      BY Constants DEF Bytes
    <3> QED
      BY <1>6, <2>2, <3>1 DEF LastRound
  <2>3. ASSUME NEW n, NEW x, Round(n, x) PROVE Single(w)'
    <3>1. n # 0 /\ x \in Bytes
      BY <2>3, Constants DEF Bytes, Orders, Round
    <3> QED
      BY <1>6, <2>3, <3>1 DEF Round
  <2>4. CASE Finish
    BY <1>0, <2>4 DEF Finish
  <2> QED
    BY <1>7, <2>1, <2>2, <2>3, <2>4, MainCases
<1>8. CASE Interrupt \/ SkipStep
  <2>1. /\ pipe' = pipe \/ (\E x \in Bytes : x \notin Orders /\ Write(x))
        /\ UNCHANGED <<send_recv, conns, out, exited, conn_num, close_conn_num>>
    BY <1>8 DEF Interrupt, SkipStep, Stop, Bytes, Orders
  <2>2. ASSUME NEW x \in Bytes, x \notin Orders, Write(x) PROVE Single(w)'
    <3>1. OneOrder(pipe'[w]) /\ Range(pipe'[w]) = Range(pipe[w]) \cup {x}
      BY <1>t, <2>2, WriteFacts DEF Single
    <3>2. Range(pipe'[w]) \cap Orders \subseteq Range(pipe[w]) \cap Orders /\ Of(w)' = Of(w)
      BY <2>1, <2>2, <3>1 DEF Of
    <3> QED
      BY <1>t, <2>1, <3>1, <3>2, SingleBytes
  <2> QED
    BY <1>0, <2>1, <2>2
<1>9. CASE Second \/ UNCHANGED vars
  BY <1>0, <1>9 DEF Second, vars
<1> QED
  BY <1>1, <1>2, <1>3, <1>4, <1>5, <1>7, <1>8, <1>9 DEF Next, WorkerStep

\* Orders, one at a time.
LEMMA OneByOneStep ==
  ASSUME Typed, Typed', Calm, OneByOne, Answers, [Next]_vars
  PROVE  OneByOne'
<1> USE DEF mainVars, reportVars, secondVars, pipeVars, countVars, connVars
<1>t. /\ PipeTypes /\ PipeTypes' /\ out \in [Connection -> Nat] /\ conns \subseteq Connection
      /\ NSteps \in Nat
  BY Constants DEF Typed, ConnTypes
<1>1. \A w \in Worker : Single(w)'
  BY SingleStep
<1>2. \/ send_recv' = send_recv
      \/ send_recv' # 0 /\ inbox' = << >> /\ out' = out
  <2>1. CASE MainStep
    <3>1. CASE Counted
      BY <3>1 DEF Counted
    <3>2. CASE LastRound
      BY <1>t, <3>2 DEF LastRound, Complete
    <3>3. CASE Finish
      BY <3>3 DEF Finish
    <3>4. ASSUME NEW n, NEW x, Round(n, x) PROVE send_recv' # 0 /\ inbox' = << >> /\ out' = out
      BY <1>t, <3>4 DEF Round, Complete
    <3> QED
      BY <2>1, <3>1, <3>2, <3>3, <3>4, MainCases
  <2>2. CASE ~MainStep
    BY <2>2 DEF Next, vars, WorkerStep, Connect, BeginRequests, Skip, BreakThread, Reply, Closed,
      Interrupt, SkipStep, Second
  <2> QED
    BY <2>1, <2>2
<1>3. ASSUME NEW c \in Connection, out'[c] # 0 PROVE send_recv' # 0
  <2>1. ASSUME NEW w \in Worker, BeginRequests(w) PROVE send_recv' # 0
    BY <1>t, <2>1, TakeFacts DEF BeginRequests, OneByOne
  <2>2. ASSUME NEW d \in Connection, Reply(d) PROVE out[d] # 0 /\ send_recv' = send_recv
    BY <2>2, <1>t DEF Reply
  <2>3. ASSUME NEW d \in Connection, Closed(d) PROVE (out'[c] # 0 => out[c] # 0) /\ send_recv' = send_recv
    BY <2>3, <1>t DEF Closed
  <2>4. \/ out' = out
        \/ \E w \in Worker : BeginRequests(w)
        \/ \E d \in Connection : Reply(d) \/ Closed(d)
    BY DEF Next, vars, WorkerStep, Connect, Skip, BreakThread,
      MainStep, AllConnected, ThreadComplete, BeginAgain, Finish, Handle, Interrupt, SkipStep, Second
  <2> QED
    BY <1>2, <1>3, <2>1, <2>2, <2>3, <2>4 DEF OneByOne
<1>4. "b" \notin Range(inbox') /\ ("c" \in Range(inbox') => send_recv' = 0)
  <2>1. CASE inbox' = inbox
    BY <1>2, <2>1 DEF OneByOne, Range
  <2>2. CASE inbox' = << >>
    BY <2>2 DEF Range
  <2>3. ASSUME NEW x \in Orders, Tell(x), x # "b", x = "c" => send_recv = 0, send_recv' = send_recv
        PROVE  "b" \notin Range(inbox') /\ ("c" \in Range(inbox') => send_recv' = 0)
    <3>1. Range(inbox') = Range(inbox) \cup {x}
      BY <1>t, <2>3, PushFacts DEF Tell, PipeTypes
    <3> QED
      BY <2>3, <3>1 DEF OneByOne
  <2>4. CASE inbox # << >> /\ inbox' = Tail(inbox) /\ send_recv' = send_recv
    <3>1. Range(inbox') \subseteq Range(inbox)
      BY <1>t, <2>4, PopFacts DEF PipeTypes
    <3> QED
      BY <2>4, <3>1 DEF OneByOne
  <2>5. ASSUME NEW w \in Worker, Connect(w) PROVE Tell("c") /\ send_recv' = send_recv /\ send_recv = 0
    BY <1>t, <2>5, TakeFacts DEF Connect, OneByOne
  <2>6. ASSUME NEW w \in Worker, BeginRequests(w) PROVE (inbox' = inbox \/ Tell("n")) /\ send_recv' = send_recv
    <3> PICK x \in {"b", "n"} : /\ Take(w, x)
                                /\ IF close_conn_num[w] = conn_num[w] THEN Tell(x) ELSE UNCHANGED inbox
      BY <2>6 DEF BeginRequests
    <3>1. w \notin exited /\ Has(w, x)
      BY <1>t, TakeFacts
    <3>2. send_recv # 0 /\ ~Has(w, "c") /\ (x = "b" => close_conn_num[w] = 0)
      BY <3>1 DEF OneByOne
    <3>3. x = "b" => close_conn_num[w] # conn_num[w]
      BY <3>1, <3>2, HasOne
    <3> QED
      BY <2>6, <3>3 DEF BeginRequests
  <2>7. ASSUME NEW d \in Connection, Reply(d) \/ Closed(d)
        PROVE  (inbox' = inbox \/ Tell("n")) /\ send_recv' = send_recv
    BY <2>7 DEF Reply, Closed, TellIfDone
  <2>8. CASE MainStep
    <3>1. CASE Counted
      BY <2>4, <3>1 DEF Counted
    <3>2. CASE LastRound
      BY <2>2, <3>2 DEF LastRound, Complete
    <3>3. CASE Finish
      BY <2>1, <3>3 DEF Finish
    <3>4. ASSUME NEW n, NEW x, Round(n, x) PROVE inbox' = << >>
      BY <3>4 DEF Round, Complete
    <3> QED
      BY <2>2, <2>8, <3>1, <3>2, <3>3, <3>4, MainCases
  <2>9. CASE Interrupt \/ SkipStep \/ Second \/ UNCHANGED vars \/ \E w \in Worker : Skip(w) \/ BreakThread(w)
    BY <2>1, <2>9 DEF Interrupt, SkipStep, Second, vars, Skip, BreakThread
  <2> QED
    BY <2>1, <2>3, <2>5, <2>6, <2>7, <2>8, <2>9 DEF Next, WorkerStep, Orders
<1> QED
  BY <1>1, <1>3, <1>4 DEF OneByOne, Single

-----------------------------------------------------------------------------
(***************************************************************************)
(* The counters of the workers.                                            *)
(***************************************************************************)
\* Connections of a worker are finitely many.
LEMMA OfFacts ==
  ASSUME ConnTypes, NEW w \in Worker
  PROVE  /\ Of(w) \subseteq Connection /\ Ready(w) \subseteq Of(w)
         /\ IsFiniteSet(Of(w)) /\ Cardinality(Of(w)) \in Nat
         /\ IsFiniteSet(Ready(w)) /\ Cardinality(Ready(w)) \in Nat
         /\ Cardinality(Ready(w)) = Cardinality(Of(w)) => Ready(w) = Of(w)
<1>1. NConns \in Nat /\ IsFiniteSet(Worker)
  BY Constants
<1>2. IsFiniteSet(1 .. NConns)
  BY <1>1, FS_Interval
<1>3. IsFiniteSet(Connection)
  BY <1>1, <1>2, FS_Product DEF Connection
<1>4. Of(w) \in SUBSET Connection /\ Ready(w) \in SUBSET Of(w)
  BY DEF Of, Ready, ConnTypes
<1>5. IsFiniteSet(Of(w))
  BY <1>3, <1>4, FS_Subset
<1>6. IsFiniteSet(Ready(w)) /\ (Cardinality(Of(w)) = Cardinality(Ready(w)) => Of(w) = Ready(w))
  BY <1>4, <1>5, FS_Subset
<1> QED
  BY <1>4, <1>5, <1>6, FS_CardinalityType

\* A worker and the number of its connection.
LEMMA Pairs ==
  /\ \A c \in Connection : c[1] \in Worker
  /\ \A w, i : <<w, i>>[1] = w
BY DEF Connection

\* The connections that Connect makes.
LEMMA NewOnes ==
  ASSUME NEW w, NEW n \in Nat
  PROVE  Cardinality({<<w, i>> : i \in 1 .. n}) = n
<1> DEFINE T == {<<w, i>> : i \in 1 .. n}
           f == [i \in 1 .. n |-> <<w, i>>]
<1>1. IsFiniteSet(1 .. n) /\ Cardinality(1 .. n) = n
  BY FS_Interval
<1>2. f \in Bijection(1 .. n, T)
  <2>1. f \in [1 .. n -> T]
    OBVIOUS
  <2>2. \A a, b \in 1 .. n : f[a] = f[b] => a = b
    OBVIOUS
  <2>3. \A t \in T : \E a \in 1 .. n : f[a] = t
    OBVIOUS
  <2> HIDE DEF f, T
  <2> QED
    BY <2>1, <2>2, <2>3 DEF Bijection, Injection, Surjection, IsInjective
<1>3. ExistsBijection(1 .. n, T)
  BY <1>2 DEF ExistsBijection
<1> HIDE DEF T
<1>4. Cardinality(T) = n
  BY <1>1, <1>3, FS_Bijection
<1> QED
  BY <1>4 DEF T

\* What Counters says of one worker and of one connection.
Counting(w) ==
  /\ close_conn_num[w] + Cardinality(Of(w)) = conn_num[w]
  /\ Of(w) # Ready(w) => complete_conn_num[w] = Cardinality(Ready(w))

\* A connection has one request under way at most, and not one too many.
Sending(c) ==
  /\ out[c] <= 1 /\ requests[c] <= NRequests
  /\ out[c] = 1 => requests[c] < NRequests

\* Counters, worker by worker and connection by connection.
LEMMA CountersMeans ==
  Counters <=> (\A w \in Worker \ exited : Counting(w)) /\ (\A c \in Connection : Sending(c))
BY DEF Counters, Counting, Sending

\* A worker that is not concerned.
LEMMA CountingStays ==
  ASSUME NEW w \in Worker, Counting(w), Of(w)' = Of(w), \A c \in Of(w) : out'[c] = out[c],
         close_conn_num'[w] = close_conn_num[w], complete_conn_num'[w] = complete_conn_num[w],
         conn_num'[w] = conn_num[w]
  PROVE  Counting(w)'
<1>1. Ready(w)' = Ready(w)
  BY DEF Ready
<1> QED
  BY <1>1 DEF Counting

\* The counts after the connections have been made.
LEMMA ConnectCounts ==
  ASSUME Typed, OneByOne, Silent, NEW w \in Worker, Connect(w), NEW v \in Worker,
         v \notin exited => Counting(v), v \notin exited'
  PROVE  Counting(v)'
<1>1. /\ Take(w, "c") /\ UNCHANGED <<close_conn_num, complete_conn_num, out, exited>>
  BY DEF Connect
<1>t. /\ conn_num \in [Worker -> Int] /\ close_conn_num \in [Worker -> Int] /\ PipeTypes /\ MainTypes
  BY DEF Typed, ConnTypes
<1> PICK n \in scene.made : /\ conn_num' = [conn_num EXCEPT ![w] = n]
                            /\ conns' = conns \cup {<<w, i>> : i \in 1 .. n}
  BY DEF Connect
<1>2. n \in Nat /\ n <= NConns
  BY <1>t, BenchAssumption DEF MainTypes
<1>3. CASE v # w
  <2>1. Of(v)' = Of(v)
    BY <1>3 DEF Of
  <2>2. conn_num'[v] = conn_num[v]
    BY <1>t, <1>3
  <2> QED
    BY <1>1, <2>1, <2>2, CountingStays
<1>4. CASE v = w
  <2>1. Has(w, "c") /\ w \notin exited
    BY <1>1, <1>t, TakeFacts
  <2>2. Of(w) = {} /\ close_conn_num[w] = 0
    BY <2>1 DEF OneByOne
  <2>3. Of(w)' = {<<w, i>> : i \in 1 .. n}
    BY <2>2 DEF Of
  <2>4. Ready(w)' = Of(w)'
    <3>1. ASSUME NEW c \in Of(w)' PROVE out'[c] = 0
      <4>1. c \in Connection /\ c[1] = w /\ c \notin conns
        BY <1>2, <2>2, <2>3, Constants DEF Of, Connection
      <4> QED
        BY <1>1, <2>1, <4>1 DEF Silent
    <3> QED
      BY <3>1 DEF Ready
  <2>5. Cardinality(Of(w)') = n
    BY <1>2, <2>3, NewOnes
  <2>6. close_conn_num'[w] + Cardinality(Of(w)') = conn_num'[w]
    BY <1>1, <1>2, <1>t, <2>2, <2>5
  <2> QED
    BY <1>4, <2>4, <2>6 DEF Counting
<1> QED
  BY <1>3, <1>4

\* What happens to out when the worker begins.
LEMMA BeginFacts ==
  ASSUME Typed, Typed', Calm, OneByOne, NEW w \in Worker, w \notin exited => Counting(w), BeginRequests(w)
  PROVE  /\ w \notin exited /\ UNCHANGED <<conn_num, close_conn_num, conns, exited>> /\ \A v : Of(v)' = Of(v)
         /\ complete_conn_num' = [complete_conn_num EXCEPT ![w] = 0]
         /\ ~Begun(w) /\ Begun(w)' /\ \A c \in Of(w) : out[c] = 0
         /\ \A v \in Worker : v # w => pipe'[v] = pipe[v]
         /\ Of(w) = {} => Tell("n") /\ out' = out /\ requests' = requests
         /\ Of(w) # {} => /\ inbox' = inbox
                          /\ \A c \in Connection :
                               /\ c \in Of(w) => out'[c] = 1 /\ requests'[c] = 0
                               /\ c \notin Of(w) => out'[c] = out[c] /\ requests'[c] = requests[c]
<1>t. PipeTypes /\ PipeTypes' /\ out \in [Connection -> Nat] /\ requests \in [Connection -> Nat] /\ ConnTypes
      /\ close_conn_num \in [Worker -> Int]
  BY DEF Typed, ConnTypes
<1> PICK x \in {"b", "n"} : /\ Take(w, x)
                            /\ IF close_conn_num[w] = conn_num[w]
                                 THEN Tell(x) /\ UNCHANGED <<out, requests>>
                                 ELSE /\ SendAll(Of(w))
                                      /\ requests' = [c \in Connection |-> IF c \in Of(w) THEN 0 ELSE requests[c]]
                                      /\ UNCHANGED inbox
  BY DEF BeginRequests
<1>1. /\ UNCHANGED <<conn_num, close_conn_num, conns, exited>>
      /\ complete_conn_num' = [complete_conn_num EXCEPT ![w] = 0]
  BY DEF BeginRequests, Restart
<1>2. \A v : Of(v)' = Of(v)
  BY <1>1 DEF Of
<1>3. w \notin exited /\ Has(w, x) /\ x \in Orders
  BY <1>t, TakeFacts DEF Orders
<1>4. ~Begun(w) /\ Begun(w)' /\ \A v \in Worker : v # w => pipe'[v] = pipe[v]
  <2>1. ~Begun(w)
    BY <1>t, <1>3, BegunMeans
  <2>2. Range(pipe'[w]) \cap Orders = {} /\ \A v \in Worker : v # w => pipe'[v] = pipe[v]
    BY <1>t, <1>3, TakeFacts DEF OneByOne
  <2> QED
    BY <1>t, <2>1, <2>2, BegunMeansNext
<1>5. \A c \in Of(w) : out[c] = 0
  BY <1>4 DEF OneByOne
<1>6. Cardinality(Of(w)) \in Nat /\ IsFiniteSet(Of(w)) /\ (Cardinality(Of(w)) = 0 <=> Of(w) = {})
  BY <1>t, OfFacts, FS_EmptySet
<1>7. close_conn_num[w] = conn_num[w] <=> Of(w) = {}
  <2>1. close_conn_num[w] + Cardinality(Of(w)) = conn_num[w] /\ close_conn_num[w] \in Int
    BY <1>3, <1>t DEF Counting
  <2> QED
    BY <1>6, <2>1
<1>8. ASSUME Of(w) = {} PROVE Tell("n") /\ out' = out /\ requests' = requests
  <2>1. x # "b"
    <3>1. ~Has(w, "c")
      BY <1>3 DEF OneByOne, OneOrder, Has, Range, Orders
    <3>2. conn_num[w] # 0
      BY <1>3, <3>1, HasOne
    <3> QED
      BY <1>3, <1>7, <1>8, <3>2 DEF OneByOne
  <2> QED
    BY <1>7, <1>8, <2>1
<1>9. ASSUME Of(w) # {}, NEW c \in Connection
      PROVE  /\ inbox' = inbox
             /\ c \in Of(w) => out'[c] = 1 /\ requests'[c] = 0
             /\ c \notin Of(w) => out'[c] = out[c] /\ requests'[c] = requests[c]
  BY <1>5, <1>7, <1>9, <1>t DEF SendAll
<1>10. Of(w) # {} => inbox' = inbox
  BY <1>7
<1> QED
  BY <1>1, <1>2, <1>3, <1>4, <1>5, <1>8, <1>9, <1>10

\* What a reply changes.
LEMMA ReplyFacts ==
  ASSUME Typed, Typed', OneByOne, Counters, NEW c \in Connection, Reply(c), NEW w \in Worker, w = c[1]
  PROVE  /\ w \notin exited /\ c \in Of(w) /\ c \notin Ready(w) /\ out[c] = 1 /\ Begun(w)
         /\ UNCHANGED <<conn_num, close_conn_num, conns, exited, pipe>> /\ \A v : Of(v)' = Of(v)
         /\ \A d \in Connection : d # c => out'[d] = out[d] /\ requests'[d] = requests[d]
         /\ requests'[c] = requests[c] + 1 /\ requests'[c] <= NRequests
         /\ complete_conn_num[w] = Cardinality(Ready(w))
         /\ \/ /\ requests'[c] < NRequests /\ c \notin is_skip
               /\ UNCHANGED <<out, is_skip, complete_conn_num, inbox>>
            \/ /\ requests'[c] = NRequests \/ c \in is_skip
               /\ out'[c] = 0 /\ Ready(w)' = Ready(w) \cup {c}
               /\ complete_conn_num' = [complete_conn_num EXCEPT ![w] = @ + 1]
               /\ is_skip' = is_skip \ {c}
               /\ Cardinality(Ready(w)') = Cardinality(Ready(w)) + 1
               /\ TellIfDone(w)
<1>t. /\ PipeTypes /\ out \in [Connection -> Nat] /\ requests \in [Connection -> Nat] /\ ConnTypes
      /\ complete_conn_num \in [Worker -> Int] /\ NRequests \in Nat
  BY Constants DEF Typed, ConnTypes
<1>1. /\ w \notin exited /\ c \in conns /\ out[c] > 0
      /\ UNCHANGED <<pipe, conn_num, close_conn_num, conns, exited>>
      /\ requests' = [requests EXCEPT ![c] = @ + 1]
      /\ IF requests'[c] < NRequests /\ c \notin is_skip
           THEN UNCHANGED <<out, is_skip, complete_conn_num, inbox>>
           ELSE /\ out' = [out EXCEPT ![c] = @ - 1]
                /\ is_skip' = is_skip \ {c}
                /\ complete_conn_num' = [complete_conn_num EXCEPT ![w] = @ + 1]
                /\ TellIfDone(w)
  BY DEF Reply
<1>2. c \in Of(w) /\ c \notin Ready(w) /\ \A v : Of(v)' = Of(v)
  BY <1>1 DEF Of, Ready
<1>3. out[c] = 1 /\ requests[c] < NRequests
  BY <1>1, <1>t DEF Counters
<1>4. Begun(w)
  BY <1>1, <1>2 DEF OneByOne
<1>5. complete_conn_num[w] = Cardinality(Ready(w))
  BY <1>1, <1>2 DEF Counters
<1>6. requests'[c] = requests[c] + 1 /\ requests'[c] <= NRequests /\ requests'[c] \in Nat
      /\ \A d \in Connection : d # c => requests'[d] = requests[d]
  BY <1>1, <1>3, <1>t
<1>7. CASE requests'[c] < NRequests /\ c \notin is_skip
  BY <1>1, <1>2, <1>3, <1>4, <1>5, <1>6, <1>7
<1>8. CASE ~(requests'[c] < NRequests /\ c \notin is_skip)
  <2>1. /\ out' = [out EXCEPT ![c] = @ - 1] /\ is_skip' = is_skip \ {c} /\ TellIfDone(w)
        /\ complete_conn_num' = [complete_conn_num EXCEPT ![w] = @ + 1]
    BY <1>1, <1>8
  <2>2. out'[c] = 0 /\ \A d \in Connection : d # c => out'[d] = out[d]
    BY <1>3, <1>t, <2>1
  <2>3. Ready(w)' = Ready(w) \cup {c}
    <3>1. Of(w) \subseteq Connection /\ Of(w)' = Of(w)
      BY <1>2, <1>t, OfFacts
    <3> QED
      BY <1>2, <2>2, <3>1 DEF Ready
  <2>4. Cardinality(Ready(w)') = Cardinality(Ready(w)) + 1
    <3>1. IsFiniteSet(Ready(w))
      BY <1>t, OfFacts
    <3> QED
      BY <1>2, <2>3, <3>1, FS_AddElement
  <2>5. requests'[c] = NRequests \/ c \in is_skip
    BY <1>6, <1>8, <1>t
  <2> QED
    BY <1>1, <1>2, <1>3, <1>4, <1>5, <1>6, <2>1, <2>2, <2>3, <2>4, <2>5
<1> QED
  BY <1>7, <1>8

\* What the end of a connection changes.
LEMMA ClosedFacts ==
  ASSUME Typed, Typed', Calm, OneByOne, Counters, NEW c \in Connection, Closed(c), NEW w \in Worker, w = c[1]
  PROVE  /\ w \notin exited /\ c \in Of(w) /\ c \notin Ready(w) /\ out[c] = 1 /\ Begun(w)
         /\ UNCHANGED <<conn_num, complete_conn_num, exited, pipe, requests>>
         /\ close_conn_num' = [close_conn_num EXCEPT ![w] = @ + 1] /\ TellIfDone(w)
         /\ out'[c] = 0 /\ \A d \in Connection : d # c => out'[d] = out[d]
         /\ \A v \in Worker : v # w => Of(v)' = Of(v)
         /\ Of(w)' = Of(w) \ {c} /\ Ready(w)' = Ready(w) /\ is_skip' = is_skip \ {c}
         /\ complete_conn_num[w] = Cardinality(Ready(w))
         /\ Cardinality(Of(w)') = Cardinality(Of(w)) - 1
<1>t. /\ PipeTypes /\ out \in [Connection -> Nat] /\ ConnTypes
  BY DEF Typed, ConnTypes
<1>1. /\ w \notin exited /\ c \in conns /\ out[c] > 0
      /\ conns' = conns \ {c} /\ out' = [out EXCEPT ![c] = 0] /\ is_skip' = is_skip \ {c}
      /\ close_conn_num' = [close_conn_num EXCEPT ![w] = @ + 1]
      /\ UNCHANGED <<pipe, conn_num, complete_conn_num, requests, exited>> /\ TellIfDone(w)
  BY DEF Closed, Calm
<1>2. c \in Of(w) /\ c \notin Ready(w) /\ Of(w)' = Of(w) \ {c} /\ \A v \in Worker : v # w => Of(v)' = Of(v)
  BY <1>1 DEF Of, Ready
<1>3. out[c] = 1
  BY <1>1, <1>t DEF Counters
<1>4. Begun(w)
  BY <1>1, <1>2 DEF OneByOne
<1>5. complete_conn_num[w] = Cardinality(Ready(w))
  BY <1>1, <1>2 DEF Counters
<1>6. out'[c] = 0 /\ \A d \in Connection : d # c => out'[d] = out[d]
  BY <1>1, <1>t
<1>7. Ready(w)' = Ready(w)
  <2>1. Of(w) \subseteq Connection
    BY <1>t, OfFacts
  <2> QED
    BY <1>2, <1>6, <2>1 DEF Ready
<1>8. Cardinality(Of(w)') = Cardinality(Of(w)) - 1
  <2>1. IsFiniteSet(Of(w))
    BY <1>t, OfFacts
  <2> QED
    BY <1>2, <2>1, FS_RemoveElement
<1> QED
  BY <1>1, <1>2, <1>3, <1>4, <1>5, <1>6, <1>7, <1>8

\* The connections stay as they are in all other steps.
LEMMA OthersKeep ==
  ASSUME Typed, OneByOne, Answers, [Next]_vars
  PROVE  \/ UNCHANGED <<countVars, connVars>> /\ exited' = exited
         \/ \E w \in Worker : Connect(w) \/ BeginRequests(w) \/ Skip(w) \/ BreakThread(w)
         \/ \E c \in Connection : Reply(c) \/ Closed(c)
BY DEF Next, vars, WorkerStep, MainStep, AllConnected, ThreadComplete, BeginAgain, Finish, Handle,
  Interrupt, SkipStep, Second, mainVars, reportVars, secondVars, pipeVars, countVars, connVars

\* The counters count the connections.
LEMMA CountersStep ==
  ASSUME Typed, Typed', Calm, Silent, OneByOne, Counters, Answers, [Next]_vars
  PROVE  Counters'
<1> USE DEF mainVars, reportVars, secondVars, pipeVars, countVars, connVars
<1>t. /\ PipeTypes /\ out \in [Connection -> Nat] /\ requests \in [Connection -> Nat] /\ ConnTypes /\ ConnTypes'
      /\ NRequests \in Nat /\ NRequests > 0
      /\ close_conn_num \in [Worker -> Int] /\ complete_conn_num \in [Worker -> Int]
  BY Constants DEF Typed, ConnTypes
<1>0. /\ \A w \in Worker : w \notin exited => Counting(w)
      /\ \A c \in Connection : Sending(c)
  BY CountersMeans
<1>m. (\A w \in Worker \ exited' : Counting(w)') /\ (\A c \in Connection : Sending(c)') => Counters'
  BY CountersMeans DEF Counters, Counting, Sending
<1>s. ASSUME out' = out, requests' = requests PROVE \A c \in Connection : Sending(c)'
  BY <1>0, <1>s DEF Sending
<1>1. ASSUME NEW w \in Worker, Connect(w) PROVE Counters'
  <2>1. UNCHANGED <<out, requests, exited>>
    BY <1>1 DEF Connect
  <2> QED
    BY <1>0, <1>1, <1>m, <1>s, <2>1, ConnectCounts
<1>2. ASSUME NEW w \in Worker, BeginRequests(w) PROVE Counters'
  <2>w. w \notin exited => Counting(w)
    BY <1>0
  <2>1. /\ UNCHANGED <<conn_num, close_conn_num, exited>> /\ \A v : Of(v)' = Of(v)
        /\ complete_conn_num' = [complete_conn_num EXCEPT ![w] = 0]
        /\ Of(w) = {} => out' = out /\ requests' = requests
        /\ Of(w) # {} => \A c \in Connection :
             /\ c \in Of(w) => out'[c] = 1 /\ requests'[c] = 0
             /\ c \notin Of(w) => out'[c] = out[c] /\ requests'[c] = requests[c]
    BY <1>2, <2>w, BeginFacts
  <2>2. ASSUME NEW c \in Connection PROVE Sending(c)'
    <3>1. CASE Of(w) = {}
      BY <1>s, <2>1, <3>1
    <3>2. CASE Of(w) # {} /\ c \in Of(w)
      BY <1>t, <2>1, <3>2 DEF Sending
    <3>3. CASE Of(w) # {} /\ c \notin Of(w)
      BY <1>0, <2>1, <3>3 DEF Sending
    <3> QED
      BY <3>1, <3>2, <3>3
  <2>3. ASSUME NEW v \in Worker \ exited' PROVE Counting(v)'
    <3>1. Counting(v) /\ Of(v)' = Of(v) /\ Of(v) \subseteq Connection
      BY <1>0, <1>t, <2>1, OfFacts
    <3>2. CASE v # w
      <4>1. /\ \A c \in Of(v) : c \notin Of(w)
            /\ complete_conn_num'[v] = complete_conn_num[v]
        BY <1>t, <2>1, <3>2 DEF Of
      <4>2. \A c \in Of(v) : out'[c] = out[c]
        BY <2>1, <3>1, <4>1
      <4> QED
        BY <2>1, <3>1, <4>1, <4>2, CountingStays
    <3>3. CASE v = w /\ Of(w) = {}
      <4>1. Of(v)' = Ready(v)'
        BY <3>1, <3>3 DEF Ready
      <4> QED
        BY <2>1, <3>1, <4>1 DEF Counting
    <3>4. CASE v = w /\ Of(w) # {}
      <4>1. Ready(v)' = {} /\ complete_conn_num'[v] = 0
        BY <1>t, <2>1, <3>1, <3>4 DEF Ready
      <4> QED
        BY <2>1, <3>1, <4>1, FS_EmptySet DEF Counting
    <3> QED
      BY <3>2, <3>3, <3>4
  <2> QED
    BY <1>m, <2>2, <2>3
<1>3. ASSUME NEW w \in Worker, Skip(w) \/ BreakThread(w) PROVE Counters'
  <2>1. UNCHANGED <<out, requests, conn_num, close_conn_num, complete_conn_num>>
    BY <1>3 DEF Skip, BreakThread
  <2>2. ASSUME NEW v \in Worker \ exited' PROVE Counting(v) /\ Of(v)' = Of(v)
    BY <1>0, <1>3, <2>2 DEF Skip, BreakThread, Of
  <2>3. \A v \in Worker \ exited' : Counting(v)'
    BY <2>1, <2>2, CountingStays
  <2> QED
    BY <1>m, <1>s, <2>1, <2>3
<1>4. ASSUME NEW c \in Connection, Reply(c) PROVE Counters'
  <2> PICK w \in Worker : w = c[1]
    BY Pairs
  <2>1. /\ w \notin exited /\ c \in Of(w) /\ out[c] = 1
        /\ UNCHANGED <<conn_num, close_conn_num, exited>> /\ \A v : Of(v)' = Of(v)
        /\ \A d \in Connection : d # c => out'[d] = out[d] /\ requests'[d] = requests[d]
        /\ requests'[c] <= NRequests
        /\ complete_conn_num[w] = Cardinality(Ready(w))
        /\ \/ /\ requests'[c] < NRequests
              /\ UNCHANGED <<out, complete_conn_num>>
           \/ /\ out'[c] = 0 
              /\ complete_conn_num' = [complete_conn_num EXCEPT ![w] = @ + 1]
              /\ Cardinality(Ready(w)') = Cardinality(Ready(w)) + 1
    BY <1>4, ReplyFacts
  <2>2. ASSUME NEW d \in Connection PROVE Sending(d)'
    <3>1. CASE d # c
      BY <1>0, <2>1, <3>1 DEF Sending
    <3>2. CASE d = c
      BY <2>1, <3>2 DEF Sending
    <3> QED
      BY <3>1, <3>2
  <2>3. ASSUME NEW v \in Worker \ exited' PROVE Counting(v)'
    <3>1. Counting(v) /\ Of(v)' = Of(v) /\ Of(v) \subseteq Connection
      BY <1>0, <1>t, <2>1, OfFacts
    <3>2. CASE v # w
      <4>1. c \notin Of(v) /\ complete_conn_num'[v] = complete_conn_num[v]
        BY <1>t, <2>1, <3>2 DEF Of
      <4>2. \A d \in Of(v) : out'[d] = out[d]
        BY <2>1, <3>1, <4>1
      <4> QED
        BY <2>1, <3>1, <4>1, <4>2, CountingStays
    <3>3. CASE v = w /\ UNCHANGED <<out, complete_conn_num>>
      BY <2>1, <3>1, <3>3, CountingStays
    <3>4. CASE v = w /\ complete_conn_num' = [complete_conn_num EXCEPT ![w] = @ + 1]
               /\ Cardinality(Ready(w)') = Cardinality(Ready(w)) + 1
      <4>1. complete_conn_num'[w] = Cardinality(Ready(w)')
        BY <1>t, <2>1, <3>4
      <4> QED
        BY <2>1, <3>1, <3>4, <4>1 DEF Counting
    <3> QED
      BY <2>1, <3>2, <3>3, <3>4
  <2> QED
    BY <1>m, <2>2, <2>3
<1>5. ASSUME NEW c \in Connection, Closed(c) PROVE Counters'
  <2> PICK w \in Worker : w = c[1]
    BY Pairs
  <2>1. /\ w \notin exited /\ c \in Of(w)
        /\ UNCHANGED <<conn_num, complete_conn_num, exited, requests>>
        /\ close_conn_num' = [close_conn_num EXCEPT ![w] = @ + 1]
        /\ out'[c] = 0 /\ \A d \in Connection : d # c => out'[d] = out[d]
        /\ \A v \in Worker : v # w => Of(v)' = Of(v)
        /\ Of(w)' = Of(w) \ {c} /\ Ready(w)' = Ready(w)
        /\ complete_conn_num[w] = Cardinality(Ready(w))
        /\ Cardinality(Of(w)') = Cardinality(Of(w)) - 1
    BY <1>5, ClosedFacts
  <2>2. ASSUME NEW d \in Connection PROVE Sending(d)'
    <3>1. CASE d # c
      BY <1>0, <2>1, <3>1 DEF Sending
    <3>2. CASE d = c
      BY <1>0, <2>1, <3>2 DEF Sending
    <3> QED
      BY <3>1, <3>2
  <2>3. ASSUME NEW v \in Worker \ exited' PROVE Counting(v)'
    <3>1. Counting(v) /\ Of(v) \subseteq Connection /\ Cardinality(Of(v)) \in Nat
      BY <1>0, <1>t, <2>1, OfFacts
    <3>2. CASE v # w
      <4>1. c \notin Of(v) /\ close_conn_num'[v] = close_conn_num[v]
        BY <1>t, <2>1, <3>2 DEF Of
      <4>2. \A d \in Of(v) : out'[d] = out[d]
        BY <2>1, <3>1, <4>1
      <4> QED
        BY <2>1, <3>1, <3>2, <4>1, <4>2, CountingStays
    <3>3. CASE v = w
      <4>1. close_conn_num'[w] = close_conn_num[w] + 1
        BY <1>t, <2>1
      <4>2. close_conn_num'[w] + Cardinality(Of(w)') = conn_num[w]
        BY <1>t, <2>1, <3>1, <3>3, <4>1 DEF Counting
      <4> QED
        BY <2>1, <3>3, <4>2 DEF Counting
    <3> QED
      BY <3>2, <3>3
  <2> QED
    BY <1>m, <2>2, <2>3
<1>6. CASE UNCHANGED <<countVars, connVars>> /\ exited' = exited
  <2>1. \A w \in Worker : Of(w)' = Of(w)
    BY <1>6 DEF Of
  <2>2. \A w \in Worker \ exited' : Counting(w)'
    BY <1>0, <1>6, <2>1, CountingStays
  <2> QED
    BY <1>6, <1>m, <1>s, <2>2
<1> QED
  BY <1>1, <1>2, <1>3, <1>4, <1>5, <1>6, OthersKeep

-----------------------------------------------------------------------------
(***************************************************************************)
(* The answers of the workers that are done.                               *)
(***************************************************************************)
\* All of them are ready if and only if as many are.
LEMMA OfFactsNext ==
  ConnTypes' => \A w \in Worker :
    /\ Cardinality(Ready(w)') \in Nat /\ Cardinality(Of(w)') \in Nat
    /\ Cardinality(Ready(w)') = Cardinality(Of(w)') <=> Ready(w)' = Of(w)'
<1>1. ConnTypes => \A w \in Worker :
        /\ Cardinality(Ready(w)) \in Nat /\ Cardinality(Of(w)) \in Nat
        /\ Cardinality(Ready(w)) = Cardinality(Of(w)) <=> Ready(w) = Of(w)
  BY OfFacts
<1>2. (ConnTypes => \A w \in Worker :
        /\ Cardinality(Ready(w)) \in Nat /\ Cardinality(Of(w)) \in Nat
        /\ Cardinality(Ready(w)) = Cardinality(Of(w)) <=> Ready(w) = Of(w))'
  BY <1>1, PTL
<1> QED
  BY <1>2

\* Idle workers wait for no reply.
LEMMA IdleMeans ==
  ASSUME NEW w \in Worker
  PROVE  /\ Idle(w) <=> Begun(w) /\ Ready(w) = Of(w)
         /\ Idle(w)' <=> Begun(w)' /\ Ready(w)' = Of(w)'
BY DEF Idle, Ready

\* A worker whose orders and connections stay as they are.
LEMMA IdleStays ==
  ASSUME PipeTypes, PipeTypes', NEW w \in Worker,
         Range(pipe'[w]) \cap Orders = Range(pipe[w]) \cap Orders,
         Of(w)' = Of(w), \A c \in Of(w) : out'[c] = 0 <=> out[c] = 0
  PROVE  Idle(w)' <=> Idle(w)
<1>1. Begun(w)' <=> Begun(w)
  BY BegunMeans, BegunMeansNext
<1> QED
  BY <1>1 DEF Idle

\* An answer is written when a worker becomes idle, and when none does, none is.
LEMMA AnswersMove ==
  ASSUME Typed, Answers, phase = "run", cthreads' = cthreads,
         NEW w \in Worker, \A v \in Worker : v # w => (Idle(v)' <=> Idle(v)),
         \/ inbox' = inbox /\ (Idle(w)' <=> Idle(w))
         \/ ~Idle(w) /\ (IF Idle(w)' THEN \E x : Tell(x) ELSE inbox' = inbox)
  PROVE  Answers'
<1>t. inbox \in Seq(Orders) /\ cthreads \in Int /\ Len(inbox) \in Nat
  BY LenProperties DEF Typed, PipeTypes, MainTypes
<1>f. IsFiniteSet(IdleWorkers)
  <2>1. IdleWorkers \in SUBSET Worker
    BY DEF IdleWorkers
  <2> QED
    BY <2>1, FS_Subset, Constants
<1>1. CASE inbox' = inbox /\ (Idle(w)' <=> Idle(w))
  <2>1. IdleWorkers' = IdleWorkers
    BY <1>1 DEF IdleWorkers
  <2> QED
    BY <1>1, <2>1 DEF Answers
<1>2. CASE ~Idle(w) /\ Idle(w)' /\ \E x : Tell(x)
  <2>1. IdleWorkers' = IdleWorkers \cup {w} /\ w \notin IdleWorkers
    BY <1>2 DEF IdleWorkers
  <2>2. Cardinality(IdleWorkers') = Cardinality(IdleWorkers) + 1
    BY <1>f, <2>1, FS_AddElement
  <2>3. Len(inbox') = Len(inbox) + 1
    <3> PICK x : inbox' = Append(inbox, x)
      BY <1>2 DEF Tell
    <3> QED
      BY <1>t
  <2>4. Cardinality(IdleWorkers) \in Nat
    BY <1>f, FS_CardinalityType
  <2> QED
    BY <1>t, <2>2, <2>3, <2>4 DEF Answers
<1> QED
  BY <1>1, <1>2

\* No worker becomes idle or busy.
LEMMA AnswersStay ==
  ASSUME Typed, Answers, phase = "run", cthreads' = cthreads, inbox' = inbox,
         \A w \in Worker : Idle(w)' <=> Idle(w)
  PROVE  Answers'
<1>1. IdleWorkers' = IdleWorkers
  BY DEF IdleWorkers
<1> QED
  BY <1>1 DEF Answers

\* Each step keeps the answers to those of idle workers.
LEMMA AnswersStep ==
  ASSUME Typed, Typed', Calm, Silent, OneByOne, OneByOne', Counters, Answers, [Next]_vars
  PROVE  Answers'
<1> SUFFICES ASSUME phase' = "run" PROVE Answers'
  BY DEF Answers
<1>t. /\ PipeTypes /\ PipeTypes' /\ out \in [Connection -> Nat] /\ conns \subseteq Connection /\ ConnTypes /\ ConnTypes'
      /\ conn_num \in [Worker -> Int] /\ close_conn_num \in [Worker -> Int] /\ complete_conn_num \in [Worker -> Int]
  BY DEF Typed, ConnTypes
<1>k. phase = "run"
  BY DEF Next, vars, WorkerStep, Connect, BeginRequests, Skip, BreakThread, Reply, Closed,
    MainStep, AllConnected, ThreadComplete, BeginAgain, Finish, Handle, Interrupt, SkipStep, Second, Stop,
    mainVars, reportVars, secondVars, pipeVars, countVars, connVars
<1>e. \A w \in Worker : w \notin exited /\ ~Has(w, "-") /\ Counting(w)
  BY <1>k DEF Silent, Counters, Counting
<1>1. ASSUME NEW w \in Worker, Connect(w) PROVE Answers'
  <2>1. Take(w, "c") /\ Tell("c") /\ UNCHANGED <<out, cthreads, send_recv>>
    BY <1>1 DEF Connect, mainVars
  <2>2. Has(w, "c") /\ ~Begun(w) /\ send_recv = 0
    <3>1. Has(w, "c")
      BY <1>t, <2>1, TakeFacts
    <3> QED
      BY <1>t, <3>1, BegunMeans DEF OneByOne
  <2>3. Range(pipe'[w]) \cap Orders = {} /\ \A v \in Worker : v # w => pipe'[v] = pipe[v]
    BY <1>t, <2>1, TakeFacts DEF OneByOne, Orders
  <2>4. \A c \in Connection : out'[c] = 0
    BY <2>1, <2>2 DEF OneByOne
  <2>5. Idle(w)' /\ ~Idle(w)
    <3>1. Begun(w)'
      BY <1>t, <2>3, BegunMeansNext
    <3>2. Of(w)' \subseteq Connection
      BY <1>t DEF Of, ConnTypes
    <3> QED
      BY <2>2, <2>4, <3>1, <3>2 DEF Idle
  <2>6. ASSUME NEW v \in Worker, v # w PROVE Idle(v)' <=> Idle(v)
    <3>1. Of(v)' = Of(v)
      BY <1>1, <2>6 DEF Connect, Of
    <3> QED
      BY <1>t, <2>1, <2>3, <2>6, <3>1, IdleStays
  <2> QED
    BY <1>k, <2>1, <2>5, <2>6, AnswersMove
<1>2. ASSUME NEW w \in Worker, BeginRequests(w) PROVE Answers'
  <2>w. w \notin exited => Counting(w)
    BY <1>e
  <2>1. /\ \A v : Of(v)' = Of(v)
        /\ ~Begun(w) /\ Begun(w)'
        /\ \A v \in Worker : v # w => pipe'[v] = pipe[v]
        /\ Of(w) = {} => Tell("n") /\ out' = out
        /\ Of(w) # {} => /\ inbox' = inbox
                         /\ \A c \in Connection :
                              /\ c \in Of(w) => out'[c] = 1
                              /\ c \notin Of(w) => out'[c] = out[c]
    BY <1>2, <2>w, BeginFacts
  <2>2. cthreads' = cthreads
    BY <1>2 DEF BeginRequests, mainVars
  <2>3. ~Idle(w) /\ (Idle(w)' <=> Of(w) = {})
    <3>1. Of(w) \subseteq Connection /\ Of(w)' = Of(w)
      BY <1>t, <2>1, OfFacts
    <3>2. Of(w) # {} => ~(\A c \in Of(w)' : out'[c] = 0)
      BY <2>1, <3>1
    <3> QED
      BY <2>1, <3>1, <3>2 DEF Idle
  <2>4. ASSUME NEW v \in Worker, v # w PROVE Idle(v)' <=> Idle(v)
    <3>1. /\ Of(v) \subseteq Connection /\ (\A c \in Of(v) : c \notin Of(w)) /\ Of(v)' = Of(v)
          /\ pipe'[v] = pipe[v]
      BY <1>t, <2>1, <2>4, OfFacts DEF Of
    <3>2. \A c \in Of(v) : out'[c] = out[c]
      BY <2>1, <3>1
    <3> QED
      BY <1>t, <3>1, <3>2, IdleStays
  <2>5. ~Idle(w) /\ (IF Idle(w)' THEN \E x : Tell(x) ELSE inbox' = inbox)
    BY <2>1, <2>3
  <2> QED
    BY <1>k, <2>2, <2>4, <2>5, AnswersMove
<1>3. ASSUME NEW w \in Worker, Skip(w) PROVE Answers'
  <2>1. Take(w, "N") /\ UNCHANGED <<out, conns, cthreads, inbox>>
    BY <1>3 DEF Skip, mainVars
  <2>2. Range(pipe[w]) = Range(pipe'[w]) \cup {"N"} /\ \A v \in Worker : v # w => pipe'[v] = pipe[v]
    BY <1>t, <2>1, TakeFacts
  <2>3. \A v \in Worker : Range(pipe'[v]) \cap Orders = Range(pipe[v]) \cap Orders
    BY <2>2 DEF Orders
  <2>4. \A v \in Worker : Idle(v)' <=> Idle(v)
    BY <1>t, <2>1, <2>3, IdleStays DEF Of
  <2> QED
    BY <1>k, <2>1, <2>4, AnswersStay
<1>4. ASSUME NEW w \in Worker, BreakThread(w) PROVE Answers'
  <2>1. Take(w, "-")
    BY <1>4 DEF BreakThread
  <2> QED
    BY <1>e, <1>t, <2>1, TakeFacts
<1>5. ASSUME NEW c \in Connection, Reply(c) PROVE Answers'
  <2> PICK w \in Worker : w = c[1]
    BY Pairs
  <2>1. /\ c \in Of(w) /\ c \notin Ready(w) /\ out[c] = 1 /\ Begun(w)
        /\ UNCHANGED <<conn_num, close_conn_num, pipe>> /\ \A v : Of(v)' = Of(v)
        /\ \A d \in Connection : d # c => out'[d] = out[d]
        /\ complete_conn_num[w] = Cardinality(Ready(w))
        /\ \/ UNCHANGED <<out, inbox>>
           \/ /\ complete_conn_num' = [complete_conn_num EXCEPT ![w] = @ + 1]
              /\ Cardinality(Ready(w)') = Cardinality(Ready(w)) + 1
              /\ TellIfDone(w)
    BY <1>5, ReplyFacts
  <2>2. cthreads' = cthreads
    BY <1>5 DEF Reply, mainVars
  <2>3. ~Idle(w)
    BY <2>1, IdleMeans
  <2>4. ASSUME NEW v \in Worker, v # w PROVE Idle(v)' <=> Idle(v)
    <3>1. Of(v) \subseteq Connection /\ c \notin Of(v) /\ Of(v)' = Of(v) /\ pipe'[v] = pipe[v]
      BY <1>t, <2>1, <2>4, OfFacts DEF Of
    <3>2. \A d \in Of(v) : out'[d] = out[d]
      BY <2>1, <3>1
    <3> QED
      BY <1>t, <3>1, <3>2, IdleStays
  <2>5. CASE UNCHANGED <<out, inbox>>
    <3>1. Idle(w)' <=> Idle(w)
      BY <1>t, <2>1, <2>5, IdleStays
    <3> QED
      BY <1>k, <2>2, <2>4, <2>5, <3>1, AnswersMove
  <2>6. CASE /\ complete_conn_num' = [complete_conn_num EXCEPT ![w] = @ + 1]
             /\ Cardinality(Ready(w)') = Cardinality(Ready(w)) + 1 /\ TellIfDone(w)
    <3>1. Begun(w)' <=> Begun(w)
      BY <1>t, <2>1, BegunMeans, BegunMeansNext DEF Has
    <3>2. Done(w) <=> Ready(w)' = Of(w)'
      <4>1. complete_conn_num'[w] = Cardinality(Ready(w)')
        BY <1>t, <2>1, <2>6
      <4>2. close_conn_num'[w] = close_conn_num[w] /\ conn_num[w] = close_conn_num[w] + Cardinality(Of(w)')
        BY <1>e, <2>1 DEF Counting
      <4>3. /\ Cardinality(Ready(w)') \in Nat /\ Cardinality(Of(w)') \in Nat /\ close_conn_num[w] \in Int
            /\ Cardinality(Ready(w)') = Cardinality(Of(w)') <=> Ready(w)' = Of(w)'
        BY <1>t, OfFactsNext
      <4> QED
        BY <2>1, <4>1, <4>2, <4>3 DEF Done
    <3>3. Done(w) <=> Idle(w)'
      BY <2>1, <3>1, <3>2, IdleMeans
    <3>4. IF Idle(w)' THEN \E x : Tell(x) ELSE inbox' = inbox
      BY <2>6, <3>3 DEF TellIfDone
    <3> QED
      BY <1>k, <2>2, <2>3, <2>4, <3>4, AnswersMove
  <2> QED
    BY <2>1, <2>5, <2>6
<1>6. ASSUME NEW c \in Connection, Closed(c) PROVE Answers'
  <2> PICK w \in Worker : w = c[1]
    BY Pairs
  <2>1. /\ c \in Of(w) /\ c \notin Ready(w) /\ Begun(w)
        /\ UNCHANGED <<conn_num, complete_conn_num, pipe>>
        /\ close_conn_num' = [close_conn_num EXCEPT ![w] = @ + 1] /\ TellIfDone(w)
        /\ \A d \in Connection : d # c => out'[d] = out[d]
        /\ \A v \in Worker : v # w => Of(v)' = Of(v)
        /\ Ready(w)' = Ready(w)
        /\ complete_conn_num[w] = Cardinality(Ready(w))
        /\ Cardinality(Of(w)') = Cardinality(Of(w)) - 1
    BY <1>6, ClosedFacts
  <2>2. cthreads' = cthreads
    BY <1>6 DEF Closed, mainVars
  <2>3. ~Idle(w)
    BY <2>1, IdleMeans
  <2>4. ASSUME NEW v \in Worker, v # w PROVE Idle(v)' <=> Idle(v)
    <3>1. Of(v) \subseteq Connection /\ c \notin Of(v) /\ Of(v)' = Of(v) /\ pipe'[v] = pipe[v]
      BY <1>t, <2>1, <2>4, OfFacts DEF Of
    <3>2. \A d \in Of(v) : out'[d] = out[d]
      BY <2>1, <3>1
    <3> QED
      BY <1>t, <3>1, <3>2, IdleStays
  <2>5. Begun(w)'
    BY <1>t, <2>1, BegunMeans, BegunMeansNext DEF Has
  <2>6. Done(w) <=> Ready(w)' = Of(w)'
    <3>1. complete_conn_num'[w] = Cardinality(Ready(w)')
      BY <2>1
    <3>2. /\ close_conn_num'[w] = close_conn_num[w] + 1 /\ conn_num'[w] = conn_num[w]
          /\ conn_num[w] = close_conn_num[w] + Cardinality(Of(w))
      BY <1>e, <1>t, <2>1 DEF Counting
    <3>3. /\ Cardinality(Ready(w)') \in Nat /\ Cardinality(Of(w)) \in Nat /\ close_conn_num[w] \in Int
          /\ Cardinality(Ready(w)') = Cardinality(Of(w)') <=> Ready(w)' = Of(w)'
      BY <1>t, OfFacts, OfFactsNext
    <3> QED
      BY <2>1, <3>1, <3>2, <3>3 DEF Done
  <2>7. Done(w) <=> Idle(w)'
    BY <2>5, <2>6, IdleMeans
  <2>8. IF Idle(w)' THEN \E x : Tell(x) ELSE inbox' = inbox
    BY <2>1, <2>7 DEF TellIfDone
  <2> QED
    BY <1>k, <2>2, <2>3, <2>4, <2>8, AnswersMove
<1>7. ASSUME UNCHANGED <<out, conns, pipe>> PROVE \A w \in Worker : Idle(w)' <=> Idle(w)
  BY <1>7, <1>t, IdleStays DEF Of
<1>8. CASE MainStep
  <2>1. CASE Counted
    <3>1. UNCHANGED <<out, conns, pipe>> /\ inbox # << >> /\ inbox' = Tail(inbox) /\ cthreads' = cthreads + 1
      BY <2>1 DEF Counted, connVars
    <3>2. IdleWorkers' = IdleWorkers
      BY <1>7, <3>1 DEF IdleWorkers
    <3>3. Len(inbox') = Len(inbox) - 1 /\ Len(inbox) \in Nat /\ cthreads \in Int
      BY <3>1, HeadTailProperties, LenProperties, EmptySeq DEF Typed, PipeTypes, MainTypes
    <3> QED
      BY <1>k, <3>1, <3>2, <3>3 DEF Answers
  <2>2. CASE LastRound
    BY <2>2 DEF LastRound
  <2>3. CASE Finish
    BY <2>3 DEF Finish
  <2>4. ASSUME NEW n, NEW x, Round(n, x) PROVE Answers'
    <3>1. /\ inbox' = << >> /\ cthreads' = 0 /\ Write(x) /\ x \in Orders /\ x \in Bytes
      BY <2>4 DEF Round, Complete, Orders, Bytes
    <3>2. ASSUME NEW w \in Worker PROVE ~Idle(w)'
      <4>1. x \in Range(pipe'[w])
        <5>1. Range(pipe'[w]) = Range(pipe[w]) \cup {x}
          BY <1>t, <3>1, WriteFacts, Zenon
        <5> QED
          BY <5>1
      <4>2. Range(pipe'[w]) \cap Orders # {}
        BY <3>1, <4>1
      <4>3. ~Begun(w)'
        BY <1>t, <4>2, BegunMeansNext, Zenon
      <4> QED
        BY <4>3 DEF Idle
    <3>3. IdleWorkers' = {}
      BY <3>2 DEF IdleWorkers
    <3> QED
      BY <3>1, <3>3, FS_EmptySet DEF Answers
  <2> QED
    BY <1>8, <2>1, <2>2, <2>3, <2>4, MainCases
<1>9. CASE Interrupt
  BY <1>9 DEF Interrupt, Stop
<1>10. CASE SkipStep
  <2>1. UNCHANGED <<out, conns, inbox, cthreads>> /\ (pipe' = pipe \/ Write("N"))
    BY <1>10 DEF SkipStep, connVars
  <2>2. ASSUME Write("N"), NEW w \in Worker PROVE Idle(w)' <=> Idle(w)
    <3>1. "N" \in Bytes /\ "N" \notin Orders
      BY DEF Bytes, Orders
    <3>2. Range(pipe'[w]) = Range(pipe[w]) \cup {"N"}
      BY <1>t, <2>2, <3>1, WriteFacts
    <3>3. Of(w)' = Of(w)
      BY <2>1 DEF Of
    <3> QED
      BY <1>t, <2>1, <3>1, <3>2, <3>3, IdleStays
  <2> QED
    BY <1>7, <1>k, <2>1, <2>2, AnswersStay
<1>11. CASE Second \/ UNCHANGED vars
  <2>1. UNCHANGED <<out, conns, pipe, inbox, cthreads>>
    BY <1>11 DEF Second, vars, mainVars, pipeVars, connVars
  <2> QED
    BY <1>7, <1>k, <2>1, AnswersStay
<1> QED
  BY <1>1, <1>2, <1>3, <1>4, <1>5, <1>6, <1>8, <1>9, <1>10, <1>11 DEF Next, WorkerStep

-----------------------------------------------------------------------------
(***************************************************************************)
(* What is done is done.                                                   *)
(***************************************************************************)
\* The connections of w that are done have made all of their requests.
Full(w) == Begun(w) => \A c \in Ready(w) : requests[c] = NRequests

\* A worker that is not concerned.
LEMMA FullStays ==
  ASSUME NEW w \in Worker, Full(w), Begun(w)' => Begun(w), Of(w)' \subseteq Of(w),
         \A c \in Of(w)' : (out'[c] = 0 => out[c] = 0) /\ requests'[c] = requests[c]
  PROVE  Full(w)'
BY DEF Full, Ready

\* A connection is done when its last request is answered, and begins anew with the send_recv.
LEMMA UnskippedStep ==
  ASSUME Typed, Typed', Calm, OneByOne, Counters, Answers, Unskipped, [Next]_vars
  PROVE  Unskipped'
<1>t. /\ PipeTypes /\ PipeTypes' /\ out \in [Connection -> Nat] /\ conns \subseteq Connection /\ ConnTypes /\ ConnTypes'
      /\ requests \in [Connection -> Nat]
  BY DEF Typed, ConnTypes
<1>s. scene' = scene
  BY DEF Next, vars, WorkerStep, Connect, BeginRequests, Skip, BreakThread, Reply, Closed,
    MainStep, AllConnected, ThreadComplete, BeginAgain, Finish, Handle, Interrupt, SkipStep, Second,
    mainVars, reportVars, secondVars, pipeVars, countVars, connVars
<1> SUFFICES ASSUME ~scene.skips
             PROVE  /\ ~stdin' /\ is_skip' = {} /\ \A w \in Worker : ~Has(w, "N")'
                    /\ send_recv' # 0 => \A w \in Worker : Full(w)'
  BY <1>s DEF Unskipped, Full
<1>a. ~stdin /\ is_skip = {} /\ (\A w \in Worker : ~Has(w, "N")) /\ (send_recv # 0 => \A w \in Worker : Full(w))
  BY DEF Unskipped, Full
<1>1. ~stdin'
  BY <1>a DEF Next, vars, WorkerStep, Connect, BeginRequests, Skip, BreakThread, Reply, Closed,
    MainStep, AllConnected, ThreadComplete, BeginAgain, Finish, Handle, Interrupt, SkipStep, Second,
    StartRequests, KeepRequests, mainVars, reportVars, secondVars, pipeVars, countVars, connVars
<1>2. ASSUME NEW w \in Worker PROVE ~Has(w, "N")'
  <2>1. \/ pipe' = pipe
        \/ \E v \in Worker : \E x : Take(v, x)
        \/ \E x \in Bytes : x # "N" /\ Write(x)
    BY <1>a DEF Next, vars, pipeVars, WorkerStep, Connect, BeginRequests, Skip, BreakThread, Reply, Closed,
      MainStep, AllConnected, ThreadComplete, BeginAgain, Finish, Interrupt, SkipStep, Second,
      StartRequests, KeepRequests, Stop, Bytes, Orders
  <2>2. ASSUME NEW v \in Worker, NEW x, Take(v, x) PROVE ~Has(w, "N")'
    BY <1>a, <1>t, <2>2, TakeFacts DEF Has
  <2>3. ASSUME NEW x \in Bytes, x # "N", Write(x) PROVE ~Has(w, "N")'
    BY <1>a, <1>t, <2>3, WriteFacts DEF Has
  <2> QED
    BY <1>a, <2>1, <2>2, <2>3 DEF Has
<1>n. ASSUME NEW w \in Worker, Skip(w) PROVE FALSE
  <2>1. Take(w, "N")
    BY <1>n DEF Skip
  <2> QED
    BY <1>a, <1>t, <2>1, TakeFacts
<1>3. is_skip' = {}
  <2>1. is_skip' \subseteq is_skip \/ \E w \in Worker : Skip(w)
    BY <1>a DEF Next, vars, WorkerStep, Connect, BeginRequests, BreakThread, Reply, Closed,
      MainStep, AllConnected, ThreadComplete, BeginAgain, Finish, Handle, Interrupt, SkipStep, Second,
      connVars
  <2> QED
    BY <1>a, <1>n, <2>1
<1>4. ASSUME send_recv' # 0, NEW u \in Worker PROVE Full(u)'
  <2>0. ASSUME send_recv' = send_recv PROVE \A w \in Worker : Full(w)
    BY <1>4, <1>a, <2>0
  <2>b. ASSUME pipe'[u] = pipe[u] PROVE Begun(u)' <=> Begun(u)
    BY <1>t, <2>b, BegunMeans, BegunMeansNext DEF Has
  <2>1. ASSUME NEW w \in Worker, Connect(w) PROVE Full(u)'
    <3>1. Take(w, "c") /\ send_recv' = send_recv
      BY <2>1 DEF Connect, mainVars
    <3>2. send_recv = 0
      BY <1>t, <3>1, TakeFacts DEF OneByOne
    <3> QED
      BY <1>4, <3>1, <3>2
  <2>2. ASSUME NEW w \in Worker, BeginRequests(w) PROVE Full(u)'
    <3>w. w \notin exited => Counting(w)
      BY CountersMeans
    <3>1. /\ \A v : Of(v)' = Of(v)
          /\ \A v \in Worker : v # w => pipe'[v] = pipe[v]
          /\ Of(w) = {} => out' = out /\ requests' = requests
          /\ Of(w) # {} => \A c \in Connection :
               /\ c \in Of(w) => out'[c] = 1 /\ requests'[c] = 0
               /\ c \notin Of(w) => out'[c] = out[c] /\ requests'[c] = requests[c]
      BY <2>2, <3>w, BeginFacts
    <3>2. send_recv' = send_recv
      BY <2>2 DEF BeginRequests, mainVars
    <3>3. CASE u = w
      <4>1. Of(u)' \subseteq Connection /\ Of(u)' = Of(w)
        BY <1>t, <3>1, <3>3, OfFacts
      <4>2. ASSUME NEW c \in Of(u)' PROVE out'[c] = 1
        BY <3>1, <4>1, <4>2
      <4>3. Ready(u)' = {}
        BY <4>2 DEF Ready
      <4> QED
        BY <4>3 DEF Full
    <3>4. CASE u # w
      <4>1. Of(u)' = Of(u) /\ \A c \in Of(u) : c \in Connection /\ c \notin Of(w)
        BY <1>t, <3>1, <3>4 DEF Of
      <4>2. \A c \in Of(u)' : out'[c] = out[c] /\ requests'[c] = requests[c]
        BY <3>1, <4>1
      <4>3. Full(u) /\ (Begun(u)' <=> Begun(u))
        BY <2>0, <2>b, <3>1, <3>2, <3>4
      <4> QED
        BY <4>1, <4>2, <4>3, FullStays
    <3> QED
      BY <3>3, <3>4
  <2>3. ASSUME NEW w \in Worker, BreakThread(w) PROVE Full(u)'
    <3>1. Take(w, "-") /\ UNCHANGED <<send_recv, out, requests>> /\ conns' \subseteq conns
      BY <2>3 DEF BreakThread, mainVars
    <3>2. Range(pipe[u]) \cap Orders = Range(pipe'[u]) \cap Orders
      <4>1. CASE u = w
        BY <1>t, <3>1, <4>1, TakeFacts DEF Orders
      <4>2. CASE u # w
        BY <1>t, <3>1, <4>2, TakeFacts
      <4> QED
        BY <4>1, <4>2
    <3>3. Begun(u)' <=> Begun(u)
      BY <1>t, <3>2, BegunMeans, BegunMeansNext
    <3> QED
      BY <2>0, <3>1, <3>3, FullStays DEF Of
  <2>4. ASSUME NEW c \in Connection, Reply(c) PROVE Full(u)'
    <3> PICK w \in Worker : w = c[1]
      BY Pairs
    <3>1. /\ c \in Of(w) /\ c \notin Ready(w) /\ out[c] = 1
          /\ pipe' = pipe /\ \A v : Of(v)' = Of(v)
          /\ \A d \in Connection : d # c => out'[d] = out[d] /\ requests'[d] = requests[d]
          /\ \/ out' = out
             \/ requests'[c] = NRequests
      BY <1>a, <2>4, ReplyFacts
    <3>2. send_recv' = send_recv
      BY <2>4 DEF Reply, mainVars
    <3>3. Begun(u)' => Begun(u)
      BY <2>b, <3>1
    <3>4. ASSUME Begun(u)', NEW d \in Ready(u)' PROVE requests'[d] = NRequests
      <4>1. d \in Of(u) /\ d \in Connection /\ out'[d] = 0
        BY <1>t, <3>1, <3>4 DEF Ready, Of
      <4>2. CASE d # c
        BY <2>0, <3>1, <3>2, <3>3, <3>4, <4>1, <4>2 DEF Full, Ready
      <4>3. CASE d = c
        BY <3>1, <4>1, <4>3
      <4> QED
        BY <4>2, <4>3
    <3> QED
      BY <3>4 DEF Full
  <2>5. ASSUME NEW c \in Connection, Closed(c) PROVE Full(u)'
    <3> PICK w \in Worker : w = c[1]
      BY Pairs
    <3>1. /\ pipe' = pipe /\ requests' = requests
          /\ \A d \in Connection : d # c => out'[d] = out[d]
          /\ \A v \in Worker : v # w => Of(v)' = Of(v)
          /\ Of(w)' = Of(w) \ {c} /\ c \in Of(w)
      BY <2>5, ClosedFacts
    <3>2. send_recv' = send_recv
      BY <2>5 DEF Closed, mainVars
    <3>3. Of(u)' \subseteq Of(u) /\ \A d \in Of(u)' : d \in Connection /\ d # c
      BY <1>t, <3>1, OfFacts DEF Of
    <3>4. \A d \in Of(u)' : (out'[d] = 0 => out[d] = 0) /\ requests'[d] = requests[d]
      BY <3>1, <3>3
    <3> QED
      BY <2>0, <2>b, <3>1, <3>2, <3>3, <3>4, FullStays
  <2>6. ASSUME UNCHANGED <<out, requests, conns, send_recv>>,
               Range(pipe'[u]) \cap Orders = Range(pipe[u]) \cap Orders
        PROVE  Full(u)'
    <3>1. Begun(u)' <=> Begun(u)
      BY <1>t, <2>6, BegunMeans, BegunMeansNext
    <3> QED
      BY <2>0, <2>6, <3>1, FullStays DEF Of
  <2>7. CASE MainStep
    <3>1. CASE Counted \/ Finish
      BY <2>6, <3>1 DEF Counted, Finish, pipeVars, connVars
    <3>2. CASE LastRound
      <4>1. /\ phase = "run" /\ Idle(u) /\ Write("-") /\ UNCHANGED <<out, requests, conns>>
        BY <3>2 DEF LastRound, Complete, IdleWorkers, connVars
      <4>2. send_recv # 0
        BY <3>2, Constants DEF LastRound, Typed, MainTypes
      <4>3. Full(u)
        BY <1>a, <4>2
      <4>4. Range(pipe'[u]) = Range(pipe[u]) \cup {"-"}
        BY <1>t, <4>1, WriteFacts DEF Bytes
      <4>5. Begun(u)' <=> Begun(u)
        BY <1>t, <4>4, BegunMeans, BegunMeansNext DEF Orders
      <4> QED
        BY <4>1, <4>3, <4>5, FullStays DEF Of
    <3>3. ASSUME NEW n, NEW x, Round(n, x) PROVE Full(u)'
      <4>1. Write(x) /\ x \in Orders /\ x \in Bytes
        BY <3>3 DEF Round, Orders, Bytes
      <4>2. x \in Range(pipe'[u])
        BY <1>t, <4>1, WriteFacts
      <4> QED
        BY <1>t, <4>1, <4>2, BegunMeansNext DEF Full
    <3> QED
      BY <2>7, <3>1, <3>2, <3>3, MainCases
  <2>8. CASE Interrupt \/ SkipStep
    <3>1. /\ UNCHANGED <<out, requests, conns, send_recv>>
          /\ pipe' = pipe \/ (\E x \in Bytes \ Orders : Write(x))
      BY <2>8 DEF Interrupt, SkipStep, Stop, Bytes, Orders, connVars
    <3>2. ASSUME NEW x \in Bytes \ Orders, Write(x) PROVE Range(pipe'[u]) \cap Orders = Range(pipe[u]) \cap Orders
      BY <1>t, <3>2, WriteFacts
    <3> QED
      BY <2>6, <3>1, <3>2
  <2>9. CASE Second \/ UNCHANGED vars
    <3>1. UNCHANGED <<out, requests, conns, send_recv, pipe>>
      BY <2>9 DEF Second, vars, mainVars, pipeVars, connVars
    <3> QED
      BY <2>6, <3>1
  <2> QED
    BY <1>n, <2>1, <2>2, <2>3, <2>4, <2>5, <2>7, <2>8, <2>9 DEF Next, WorkerStep
<1> QED
  BY <1>1, <1>2, <1>3, <1>4

\* No answer is due before a worker has connected.
LEMMA InitRules == Init => Silent /\ Rules
<1> SUFFICES ASSUME Init PROVE Silent /\ Rules
  OBVIOUS
<1>t. /\ NRequests \in Nat /\ NRequests > 0 /\ NWorkers \in Nat /\ NWorkers > 0
  BY Constants
<1>1. /\ \A c \in Connection : out[c] = 0 /\ requests[c] = 0
      /\ \A w \in Worker : /\ pipe[w] = <<"c">> /\ Of(w) = {} /\ Ready(w) = {} 
                           /\ conn_num[w] = 0 /\ close_conn_num[w] = 0
  BY DEF Init, Of, Ready
<1>2. \A w \in Worker : DOMAIN pipe[w] = {1} /\ Range(pipe[w]) = {"c"} /\ pipe[w][1] = "c"
  BY <1>1 DEF Range
<1>3. Silent
  BY <1>1, <1>2 DEF Init, Silent, Has
<1>4. OneByOne
  <2>1. Range(inbox) = {} /\ send_recv = 0
    BY DEF Init, Range
  <2> QED
    BY <1>1, <1>2, <2>1 DEF OneByOne, OneOrder, Has
<1>5. Counters
  <2>1. ASSUME NEW w \in Worker PROVE close_conn_num[w] + Cardinality(Of(w)) = conn_num[w] /\ Of(w) = Ready(w)
    BY <1>1, FS_EmptySet
  <2>2. ASSUME NEW c \in Connection PROVE out[c] = 0 /\ requests[c] <= NRequests
    BY <1>1, <1>t
  <2> QED
    BY <2>1, <2>2 DEF Counters
<1>6. Answers
  <2>1. PipeTypes
    BY InitTyped DEF Typed
  <2>2. \A w \in Worker : ~Idle(w)
    BY <1>2, <2>1, BegunMeans DEF Idle, Has
  <2>3. IdleWorkers = {}
    BY <2>2 DEF IdleWorkers
  <2>4. cthreads = 0 /\ Len(inbox) = 0
    BY DEF Init
  <2> QED
    BY <2>3, <2>4, FS_EmptySet DEF Answers
<1>7. Unskipped
  BY <1>2 DEF Init, Unskipped, Has
<1> QED
  BY <1>3, <1>4, <1>5, <1>6, <1>7 DEF Rules

\* The invariant.
Kept == Typed /\ Silent /\ (Calm => Rules)

\* Each step keeps it; the steps of Calm lead out of it, never back.
LEMMA KeptStep == Kept /\ [Next]_vars => Kept'
<1> SUFFICES ASSUME Kept, [Next]_vars PROVE Kept'
  OBVIOUS
<1>1. Typed /\ Typed' /\ Silent /\ Silent'
  BY TypedStep, SilentStep DEF Kept
<1>2. ASSUME Calm' PROVE Rules'
  <2>1. Calm
    BY <1>1, <1>2, CalmBack
  <2>2. OneByOne /\ Counters /\ Answers /\ Unskipped
    BY <2>1 DEF Kept, Rules
  <2>3. OneByOne'
    BY <1>1, <2>1, <2>2, OneByOneStep
  <2>4. Counters' /\ Answers' /\ Unskipped'
    BY <1>1, <2>1, <2>2, <2>3, CountersStep, AnswersStep, UnskippedStep
  <2> QED
    BY <2>3, <2>4 DEF Rules
<1> QED
  BY <1>1, <1>2 DEF Kept

\* The invariant of the load generator, whatever user and server do.
THEOREM BenchInvariant == Spec => []Kept
<1>1. Init => Kept
  BY InitTyped, InitRules DEF Kept
<1> QED
  BY <1>1, KeptStep, PTL DEF Spec

\* Main counts each worker once that is done, where no connection is closed
\* that has made its requests (thread_complete and read_handler).
THEOREM AnswersKept == Spec => [](scene.closes # "always" => AnswersMatch)
<1>1. Kept /\ scene.closes # "always" => AnswersMatch
  BY DEF Kept, Calm, Rules, Answers, Counters, IdleWorkers, AnswersMatch
<1> QED
  BY <1>1, BenchInvariant, PTL

\* What user and server do is chosen once.
LEMMA ScenesStay == [Next]_vars => scene' = scene
BY DEF Next, vars, WorkerStep, Connect, BeginRequests, Skip, BreakThread, Reply, Closed,
    MainStep, AllConnected, ThreadComplete, BeginAgain, Finish, Handle, Interrupt, SkipStep, Second,
    mainVars, reportVars, secondVars, pipeVars, countVars, connVars

\* What is true when main goes on to another send_recv.
LEMMA GoesOn ==
  ASSUME Typed, Calm, OneByOne, Answers, [Next]_vars, send_recv' # send_recv
  PROVE  Complete
<1>1. MainStep
  BY DEF Next, vars, WorkerStep, Connect, BeginRequests, Skip, BreakThread, Reply, Closed,
    Interrupt, SkipStep, Second, mainVars
<1> QED
  BY <1>1, MainCases DEF Counted, LastRound, Finish, Round

\* All requests have been answered, and where nobody skips made, before main goes
\* on to the next send_recv.
THEOREM StepsComplete == Spec /\ scene.closes # "always" => StepCompletes
<1> DEFINE A == EachConnects /\ send_recv # 0 /\ send_recv' # send_recv =>
                  \A c \in conns : out[c] = 0 /\ (requests[c] = NRequests \/ scene.skips)
<1>1. ASSUME Kept, scene.closes # "always", [Next]_vars PROVE A
  <2> SUFFICES ASSUME EachConnects, send_recv # 0, send_recv' # send_recv, NEW c \in conns
               PROVE  out[c] = 0 /\ (requests[c] = NRequests \/ scene.skips)
    OBVIOUS
  <2>1. Typed /\ Calm /\ OneByOne /\ Answers /\ Unskipped
    BY <1>1 DEF Kept, Calm, Rules
  <2>2. IdleWorkers = Worker
    BY <1>1, <2>1, GoesOn DEF Complete
  <2> PICK w \in Worker : w = c[1]
    BY <2>1, Pairs DEF Typed, ConnTypes
  <2>3. Begun(w) /\ c \in Of(w) /\ out[c] = 0
    BY <2>2 DEF IdleWorkers, Idle, Of
  <2>4. ~scene.skips => requests[c] = NRequests
    BY <2>1, <2>3 DEF Unskipped, Ready
  <2> QED
    BY <2>3, <2>4
<1>2. scene.closes # "always" /\ [Next]_vars => (scene.closes # "always")'
  BY ScenesStay
<1>3. Kept /\ scene.closes # "always" /\ [Next]_vars => [A]_vars
  BY <1>1
<1> HIDE DEF A
<1>4. Spec /\ scene.closes # "always" => [][A]_vars
  BY <1>2, <1>3, BenchInvariant, PTL DEF Spec
<1> QED
  BY <1>4 DEF StepCompletes, A

-----------------------------------------------------------------------------
(***************************************************************************)
(* The report of a send_recv.                                              *)
(***************************************************************************)
\* The connections that each worker has lost since the send_recv began.
Lost == [w \in Worker |-> close_conn_num[w] - preclose_conn_num[w]]

\* The counters add up to what the server has answered and closed.
Reported ==
  /\ Total(thread_requests) = answered /\ Total(Lost) = closed
  /\ \A w \in Worker : Has(w, "b") \/ Has(w, "n") => thread_requests[w] = 0

\* Adding one to what one worker has counted adds one to the sum.
LEMMA TotalOfWorkers ==
  ASSUME NEW f \in [Worker -> Int], NEW w \in Worker, NEW g \in [Worker -> Int],
         \A v \in Worker : g[v] = IF v = w THEN f[v] + 1 ELSE f[v]
  PROVE  Total(g) = Total(f) + 1
<1>1. f \in Seq(Int) /\ Len(f) = NWorkers /\ g \in Seq(Int) /\ Len(g) = NWorkers /\ Worker = 1 .. NWorkers
  BY Constants DEF Worker
<1>2. w \in 1 .. Len(f) /\ Len(g) = Len(f) /\ \A i \in 1 .. Len(f) : g[i] = IF i = w THEN f[i] + 1 ELSE f[i]
  BY <1>1
<1>3. Raised(g, f, w, 1)
  BY <1>2 DEF Raised
<1>4. f \in Seq(Int) /\ g \in Seq(Int) /\ 1 \in Int
  BY <1>1
<1> QED
  BY <1>2, <1>3, <1>4, TotalChange

\* Counters that have been reset add up to nothing.
LEMMA TotalOfZeros ==
  ASSUME NEW f \in [Worker -> Int], \A w \in Worker : f[w] = 0
  PROVE  Total(f) = 0
<1>1. f \in Seq(Int) /\ Len(f) = NWorkers /\ Worker = 1 .. NWorkers
  BY Constants DEF Worker
<1> QED
  BY <1>1, TotalZero

\* Steps that count nothing.
LEMMA ReportedStays ==
  ASSUME Reported, UNCHANGED <<thread_requests, preclose_conn_num, close_conn_num, answered, closed>>,
         \A w \in Worker : Has(w, "b")' \/ Has(w, "n")' => Has(w, "b") \/ Has(w, "n")
  PROVE  Reported'
BY DEF Reported, Lost

\* Each step keeps the sums: both threads reset a counter that is 0 or that main has reported.
LEMMA ReportedStep ==
  ASSUME Typed, Typed', Calm, OneByOne, Counters, Answers, Reported, [Next]_vars
  PROVE  Reported'
<1>t. /\ PipeTypes /\ thread_requests \in [Worker -> Int] /\ thread_requests' \in [Worker -> Int]
      /\ close_conn_num \in [Worker -> Int] /\ close_conn_num' \in [Worker -> Int]
      /\ preclose_conn_num \in [Worker -> Int] /\ preclose_conn_num' \in [Worker -> Int]
      /\ answered \in Int /\ closed \in Int
  BY DEF Typed, ConnTypes, ReportTypes
<1>l. Lost \in [Worker -> Int] /\ Lost' \in [Worker -> Int]
  BY <1>t DEF Lost
<1>0. ASSUME UNCHANGED <<thread_requests, preclose_conn_num, close_conn_num, answered, closed>>,
             \/ pipe' = pipe
             \/ \E v \in Worker : \E x : Take(v, x)
             \/ \E x \in Bytes \ Orders : Write(x)
      PROVE  Reported'
  <2>1. ASSUME NEW v \in Worker, NEW x, Take(v, x), NEW w \in Worker PROVE Range(pipe'[w]) \subseteq Range(pipe[w])
    BY <1>t, <2>1, TakeFacts
  <2>2. ASSUME NEW x \in Bytes \ Orders, Write(x), NEW w \in Worker
        PROVE  Range(pipe'[w]) \cap Orders = Range(pipe[w]) \cap Orders
    BY <1>t, <2>2, WriteFacts
  <2>3. \A w \in Worker : Has(w, "b")' \/ Has(w, "n")' => Has(w, "b") \/ Has(w, "n")
    BY <1>0, <2>1, <2>2 DEF Has, Orders
  <2> QED
    BY <1>0, <2>3, ReportedStays
<1>1. ASSUME NEW w \in Worker, Connect(w) \/ Skip(w) \/ BreakThread(w) PROVE Reported'
  BY <1>0, <1>1 DEF Connect, Skip, BreakThread, countVars, reportVars
<1>2. ASSUME NEW w \in Worker, BeginRequests(w) PROVE Reported'
  <2> PICK x \in {"b", "n"} : Take(w, x)
    BY <1>2 DEF BeginRequests
  <2>1. Has(w, x)
    BY <1>t, TakeFacts
  <2>2. thread_requests[w] = 0
    BY <2>1 DEF Reported
  <2>3. /\ thread_requests' = [thread_requests EXCEPT ![w] = 0]
        /\ UNCHANGED <<preclose_conn_num, close_conn_num, answered, closed>>
    BY <1>2 DEF BeginRequests
  <2>4. thread_requests' = thread_requests
    BY <1>t, <2>2, <2>3
  <2> QED
    BY <1>0, <2>3, <2>4
<1>3. ASSUME NEW c \in Connection, Reply(c) PROVE Reported'
  <2> PICK w \in Worker : w = c[1]
    BY Pairs
  <2>1. /\ thread_requests' = [thread_requests EXCEPT ![w] = @ + 1] /\ answered' = answered + 1
        /\ UNCHANGED <<preclose_conn_num, close_conn_num, closed>>
    BY <1>3 DEF Reply
  <2>2. Begun(w) /\ pipe' = pipe
    BY <1>3, ReplyFacts
  <2>3. ~Has(w, "b") /\ ~Has(w, "n")
    BY <1>t, <2>2, BegunMeans
  <2>4. \A v \in Worker : thread_requests'[v] = IF v = w THEN thread_requests[v] + 1 ELSE thread_requests[v]
    BY <1>t, <2>1
  <2>5. Total(thread_requests') = Total(thread_requests) + 1
    BY <1>t, <2>4, TotalOfWorkers
  <2>6. Lost' = Lost
    BY <2>1 DEF Lost
  <2>7. \A v \in Worker : Has(v, "b")' \/ Has(v, "n")' => thread_requests'[v] = 0
    BY <2>2, <2>3, <2>4 DEF Reported, Has
  <2>8. Total(Lost)' = closed'
    BY <2>1, <2>6 DEF Reported
  <2>9. Total(thread_requests)' = answered'
    BY <2>1, <2>5 DEF Reported
  <2> QED
    BY <2>7, <2>8, <2>9 DEF Reported
<1>4. ASSUME NEW c \in Connection, Closed(c) PROVE Reported'
  <2> PICK w \in Worker : w = c[1]
    BY Pairs
  <2>1. /\ close_conn_num' = [close_conn_num EXCEPT ![w] = @ + 1] /\ closed' = closed + 1
        /\ UNCHANGED <<preclose_conn_num, thread_requests, answered, pipe>>
    BY <1>4 DEF Closed
  <2>2. \A v \in Worker : Lost'[v] = IF v = w THEN Lost[v] + 1 ELSE Lost[v]
    <3> TAKE v \in Worker
    <3>1. Lost[v] = close_conn_num[v] - preclose_conn_num[v] /\ Lost'[v] = close_conn_num'[v] - preclose_conn_num[v]
      BY <2>1 DEF Lost
    <3>2. close_conn_num'[v] = IF v = w THEN close_conn_num[v] + 1 ELSE close_conn_num[v]
      BY <1>t, <2>1
    <3>3. close_conn_num[v] \in Int /\ preclose_conn_num[v] \in Int
      BY <1>t
    <3> QED
      BY <3>1, <3>2, <3>3
  <2>3. Total(Lost') = Total(Lost) + 1
    BY <1>l, <2>2, TotalOfWorkers
  <2>4. Total(Lost)' = closed'
    BY <2>1, <2>3 DEF Reported
  <2> QED
    BY <2>1, <2>4 DEF Reported, Has
<1>5. CASE MainStep
  <2>1. CASE Counted \/ Finish
    BY <1>0, <2>1 DEF Counted, Finish, countVars, reportVars, pipeVars
  <2>2. CASE LastRound
    BY <1>0, <2>2 DEF LastRound, Complete, countVars, Bytes, Orders
  <2>3. ASSUME NEW n, NEW x, Round(n, x) PROVE Reported'
    <3>1. /\ preclose_conn_num' = close_conn_num /\ close_conn_num' = close_conn_num
          /\ thread_requests' = [w \in Worker |-> 0] /\ answered' = 0 /\ closed' = 0
      BY <2>3 DEF Round, Complete, countVars
    <3>2. \A w \in Worker : Lost'[w] = 0 /\ thread_requests'[w] = 0
      BY <1>t, <3>1 DEF Lost
    <3>3. Total(Lost') = 0 /\ Total(thread_requests') = 0
      BY <1>l, <1>t, <3>2, TotalOfZeros
    <3> QED
      BY <3>1, <3>2, <3>3 DEF Reported
  <2> QED
    BY <1>5, <2>1, <2>2, <2>3, MainCases
<1>6. CASE Interrupt \/ SkipStep \/ Second \/ UNCHANGED vars
  <2>1. /\ UNCHANGED <<thread_requests, preclose_conn_num, close_conn_num, answered, closed>>
        /\ pipe' = pipe \/ (\E x \in Bytes \ Orders : Write(x))
    BY <1>6 DEF Interrupt, SkipStep, Second, Stop, vars, countVars, reportVars, pipeVars, Bytes, Orders
  <2> QED
    BY <1>0, <2>1
<1> QED
  BY <1>1, <1>2, <1>3, <1>4, <1>5, <1>6 DEF Next, WorkerStep

\* Nothing is counted in the beginning.
LEMMA InitReported == Init => Reported
<1> SUFFICES ASSUME Init PROVE Reported
  OBVIOUS
<1>1. /\ thread_requests = [w \in Worker |-> 0] /\ close_conn_num = [w \in Worker |-> 0]
      /\ preclose_conn_num = [w \in Worker |-> 0] /\ answered = 0 /\ closed = 0
  BY DEF Init
<1>2. /\ thread_requests \in [Worker -> Int] /\ Lost \in [Worker -> Int]
      /\ \A w \in Worker : thread_requests[w] = 0 /\ Lost[w] = 0
  BY <1>1 DEF Lost
<1>3. Total(thread_requests) = 0 /\ Total(Lost) = 0
  BY <1>2, TotalOfZeros
<1> QED
  BY <1>1, <1>2, <1>3 DEF Reported

\* What main reports of a send_recv is each reply and each lost connection since
\* it began, each once.
THEOREM ReportsAreCounts == Spec /\ scene.closes # "always" => ReportsCount
<1> DEFINE A == EachConnects /\ report' # report =>
                  report'[send_recv] = [requests |-> answered, closes |-> closed]
           Inv == Kept /\ (Calm => Reported)
<1>1. ASSUME Inv, scene.closes # "always", [Next]_vars PROVE A
  <2> SUFFICES ASSUME EachConnects, report' # report
               PROVE  report'[send_recv] = [requests |-> answered, closes |-> closed]
    OBVIOUS
  <2>1. Reported /\ report \in [1 .. NSteps -> [requests : Int, closes : Int]]
    BY <1>1 DEF Kept, Calm, Typed, ReportTypes
  <2>2. SendRecvCall
    BY <1>1 DEF Next, vars, WorkerStep, Connect, BeginRequests, Skip, BreakThread, Reply, Closed,
      MainStep, AllConnected, ThreadComplete, BeginAgain, Finish, Interrupt, SkipStep, Second, reportVars
  <2>3. report' = [report EXCEPT ![send_recv] = [requests |-> Total(thread_requests), closes |-> Total(Lost)]]
    BY <2>2 DEF SendRecvCall, Lost
  <2>4. send_recv \in 1 .. NSteps
    BY <2>1, <2>3
  <2> QED
    BY <2>1, <2>3, <2>4 DEF Reported
<1>2. scene.closes # "always" /\ [Next]_vars => (scene.closes # "always")'
  BY ScenesStay
<1>3. Init => Inv
  BY InitReported, InitTyped, InitRules DEF Kept
<1>4. Inv /\ [Next]_vars => Inv'
  <2> SUFFICES ASSUME Inv, [Next]_vars PROVE Inv'
    OBVIOUS
  <2>1. Kept'
    BY KeptStep
  <2>2. ASSUME Calm' PROVE Reported'
    <3>1. Calm
      BY <2>1, <2>2, CalmBack DEF Kept
    <3> QED
      BY <2>1, <3>1, ReportedStep DEF Kept, Rules
  <2> QED
    BY <2>1, <2>2
<1>5. Inv /\ scene.closes # "always" /\ [Next]_vars => [A]_vars
  BY <1>1
<1> HIDE DEF A, Inv
<1>6. Spec /\ scene.closes # "always" => [][A]_vars
  BY <1>2, <1>3, <1>4, <1>5, PTL DEF Spec
<1> QED
  BY <1>6 DEF ReportsCount, A

-----------------------------------------------------------------------------
(***************************************************************************)
(* The seconds.                                                            *)
(***************************************************************************)
\* The seconds before the ring was last at its beginning.
Past == Len(seconds) - current_request_index

\* Each slot of the ring holds the last second that came to it.
Ring ==
  /\ Past = 0 \/ Past >= AVG_SECONDS
  /\ \A i \in 0 .. AVG_SECONDS - 1 :
       /\ i < current_request_index => second_requests[i] = seconds[Past + i + 1]
       /\ i >= current_request_index =>
            second_requests[i] = IF Past = 0 THEN 0 ELSE seconds[Past - AVG_SECONDS + i + 1]

\* The seconds of the average among those of s.
Latest(s) == SubSeq(s, Max({1, Len(s) - AVG_SECONDS + 1}), Len(s))

\* The sum is that of the latest seconds, minimum and maximum are those of all.
Averaged ==
  /\ sum_requests = Total(Latest(seconds))
  /\ min_requests \in Range(seconds) \cup {UINT_MAX} /\ max_requests \in Range(seconds) \cup {0}
  /\ \A x \in Range(seconds) : min_requests <= x /\ x <= max_requests
  /\ min_requests <= UINT_MAX /\ 0 <= max_requests
  /\ seconds # << >> /\ 0 \notin Range(seconds) =>
       average = [sum |-> sum_requests, count |-> Len(Latest(seconds))]

\* Every reply is counted in a second.
Seconded ==
  /\ Total(seconds) + main_requests = answered \/ phase = "done" \/ send_recv = NSteps + 1
  /\ send_recv = 0 => seconds = << >> /\ main_requests = 0

\* The end of a sequence.
LEMMA EndOf ==
  ASSUME NEW s \in Seq(Nat), NEW m \in Int, NEW n \in Int, m >= 1, n <= Len(s)
  PROVE  /\ SubSeq(s, m, n) \in Seq(Nat)
         /\ Len(SubSeq(s, m, n)) = IF m <= n THEN n - m + 1 ELSE 0
         /\ \A i \in 1 .. n - m + 1 : SubSeq(s, m, n)[i] = s[m + i - 1]
<1>1. \A i \in m .. n : i \in 1 .. Len(s)
  BY LenProperties
<1>2. \A i \in m .. n : s[i] \in Nat
  BY <1>1, ElementOfSeq
<1> QED
  BY <1>2, SubSeqProperties

LEMMA EndItems ==
  ASSUME NEW s \in Seq(Nat), NEW m \in Int, m >= 1
  PROVE  \A i \in 1 .. Len(s) - m + 1 : SubSeq(s, m, Len(s))[i] = s[m + i - 1]
<1>1. Len(s) \in Int /\ Len(s) <= Len(s)
  BY LenProperties
<1> QED
  BY <1>1, EndOf, Zenon

\* Latest is all of a short sequence, and the end of a long one.
LEMMA LatestFacts ==
  ASSUME NEW s \in Seq(Nat), NEW n, n = Len(s)
  PROVE  /\ Latest(s) \in Seq(Nat)
         /\ n <= AVG_SECONDS => Latest(s) = s
         /\ n > AVG_SECONDS =>
              /\ Len(Latest(s)) = AVG_SECONDS
              /\ \A i \in 1 .. AVG_SECONDS : Latest(s)[i] = s[n - AVG_SECONDS + i]
<1> PICK A, k, m : A = AVG_SECONDS /\ k = n - A + 1 /\ m = Max({1, k})
  OBVIOUS
<1>1. n \in Nat /\ A \in Nat /\ A > 0 /\ k \in Int /\ k = n - A + 1 /\ 1 \in Int
  BY Constants, LenProperties
<1>2. m = IF 1 >= k THEN 1 ELSE k
  <2>1. Max({1, k}) = IF 1 >= k THEN 1 ELSE k
    BY <1>1, MinMax
  <2> QED
    BY <2>1
<1>3. m \in Int /\ m >= 1 /\ m <= n + 1 /\ (n <= A => m = 1) /\ (n > A => m = n - A + 1)
  BY <1>1, <1>2
<1>5. /\ SubSeq(s, m, n) \in Seq(Nat)
      /\ Len(SubSeq(s, m, n)) = IF m <= n THEN n - m + 1 ELSE 0
      /\ \A i \in 1 .. n - m + 1 : SubSeq(s, m, n)[i] = s[m + i - 1]
  <2>1. m \in Int /\ n \in Int /\ m >= 1 /\ n <= Len(s)
    BY <1>1, <1>3
  <2>2. SubSeq(s, m, n) \in Seq(Nat)
    BY <2>1, EndOf
  <2>3. Len(SubSeq(s, m, n)) = IF m <= n THEN n - m + 1 ELSE 0
    BY <2>1, EndOf
  <2>4. \A i \in 1 .. n - m + 1 : SubSeq(s, m, n)[i] = s[m + i - 1]
    <3>1. \A i \in 1 .. Len(s) - m + 1 : SubSeq(s, m, Len(s))[i] = s[m + i - 1]
      BY <2>1, EndItems, Zenon
    <3> QED
      BY <3>1, Zenon
  <2> QED
    BY <2>2, <2>3, <2>4
<1> PICK l : l = Latest(s)
  OBVIOUS
<1>6. l = SubSeq(s, m, n)
  BY DEF Latest
<1>7. SubSeq(s, 1, n) = s
  BY SubSeqFull
<1>8. n <= A => l = s
  BY <1>3, <1>6, <1>7
<1>9. ASSUME n > A PROVE Len(l) = A /\ \A i \in 1 .. A : l[i] = s[n - A + i]
  <2>1. m = n - A + 1 /\ m <= n /\ n - m + 1 = A
    BY <1>1, <1>3, <1>9
  <2>2. Len(l) = A
    BY <1>5, <1>6, <2>1
  <2>3. ASSUME NEW i \in 1 .. A PROVE l[i] = s[n - A + i]
    <3>1. l[i] = s[m + i - 1]
      <4>1. i \in 1 .. n - m + 1
        BY <2>1
      <4>2. SubSeq(s, m, n)[i] = s[m + i - 1]
        BY <1>5, <4>1, Zenon
      <4> QED
        BY <1>6, <4>2, Zenon
    <3>2. m + i - 1 = n - A + i
      <4>1. n \in Int /\ A \in Int /\ i \in Int /\ m = n - A + 1
        BY <1>1, <2>1
      <4> QED
        BY <4>1
    <3> QED
      BY <3>1, <3>2
  <2> QED
    BY <2>2, <2>3
<1> QED
  BY <1>5, <1>6, <1>8, <1>9

\* The seconds of the average when another one is over.
LEMMA LatestMoves ==
  ASSUME NEW s \in Seq(Nat), NEW x \in Nat
  PROVE  /\ Len(s) < AVG_SECONDS => Latest(Append(s, x)) = Append(Latest(s), x)
         /\ Len(s) >= AVG_SECONDS =>
              /\ Latest(Append(s, x)) = Append(Tail(Latest(s)), x)
              /\ Latest(s) # << >> /\ Latest(s)[1] = s[Len(s) - AVG_SECONDS + 1]
<1> PICK n, A, t, l : n = Len(s) /\ A = AVG_SECONDS /\ t = Append(s, x) /\ l = Latest(s)
  OBVIOUS
<1>1. n \in Nat /\ A \in Nat /\ A > 0
  BY Constants, LenProperties
<1>2. t \in Seq(Nat) /\ Len(t) = n + 1 /\ t[n + 1] = x /\ \A i \in 1 .. n : t[i] = s[i]
  BY <1>1, AppendProperties
<1>l. /\ n <= A => Latest(s) = s
      /\ n > A => Len(l) = A /\ \A i \in 1 .. A : l[i] = s[n - A + i]
      /\ l \in Seq(Nat)
  <2>1. n = Len(s) /\ s \in Seq(Nat)
    OBVIOUS
  <2>2. /\ Latest(s) \in Seq(Nat)
        /\ n <= AVG_SECONDS => Latest(s) = s
        /\ n > AVG_SECONDS =>
             /\ Len(Latest(s)) = AVG_SECONDS
             /\ \A i \in 1 .. AVG_SECONDS : Latest(s)[i] = s[n - AVG_SECONDS + i]
    BY <2>1, LatestFacts, Zenon
  <2> QED
    BY <2>2
<1>m. /\ n + 1 <= A => Latest(t) = t
      /\ n + 1 > A => Len(Latest(t)) = A /\ \A i \in 1 .. A : Latest(t)[i] = t[n + 1 - A + i]
      /\ Latest(t) \in Seq(Nat)
  <2> PICK m : m = n + 1
    OBVIOUS
  <2>1. m = Len(t) /\ m \in Nat /\ t \in Seq(Nat)
    BY <1>1, <1>2
  <2>2. m <= A => Latest(t) = t
    BY <2>1, LatestFacts
  <2>3. ASSUME m > A, NEW i \in 1 .. A PROVE Latest(t)[i] = t[n + 1 - A + i]
    <3> PICK q, j : q = Latest(t) /\ j = m - A + i
      OBVIOUS
    <3>1. m > AVG_SECONDS /\ i \in 1 .. AVG_SECONDS
      BY <2>3
    <3>2. q[i] = t[j]
      BY <2>1, <3>1, LatestFacts
    <3>3. n + 1 - A + i = j
      BY <1>1
    <3> QED
      BY <3>2, <3>3
  <2>4. (m > A => Len(Latest(t)) = A) /\ Latest(t) \in Seq(Nat)
    BY <2>1, LatestFacts
  <2> QED
    BY <2>2, <2>3, <2>4
<1>3. CASE n < A
  <2>1. Latest(s) = s /\ Latest(t) = t
    BY <1>1, <1>3, <1>l, <1>m
  <2> QED
    BY <1>1, <1>3, <2>1
<1>4. CASE n >= A
  <2>1. /\ l \in Seq(Nat) /\ Len(l) = A /\ \A i \in 1 .. A : l[i] = s[n - A + i]
    <3>1. CASE n = A
      <4>1. l = s /\ \A i \in 1 .. A : n - A + i = i
        BY <1>1, <1>l, <3>1
      <4> QED
        BY <3>1, <4>1
    <3>2. CASE n > A
      BY <1>l, <3>2
    <3> QED
      BY <1>1, <1>4, <3>1, <3>2
  <2>2. /\ Latest(t) \in Seq(Nat) /\ Len(Latest(t)) = A /\ \A i \in 1 .. A : Latest(t)[i] = t[n + 1 - A + i]
    <3>1. n + 1 > A
      BY <1>1, <1>4
    <3> QED
      BY <1>m, <3>1
  <2>3. l # << >> /\ l[1] = s[n - A + 1]
    BY <1>1, <2>1
  <2>4. Tail(l) \in Seq(Nat) /\ Len(Tail(l)) = A - 1 /\ \A i \in 1 .. A - 1 : Tail(l)[i] = l[i + 1]
    BY <2>1, <2>3, HeadTailProperties
  <2> PICK r : r = Append(Tail(l), x)
    OBVIOUS
  <2>5. r \in Seq(Nat) /\ Len(r) = A /\ r[A] = x /\ \A i \in 1 .. A - 1 : r[i] = l[i + 1]
    BY <1>1, <2>4, AppendProperties
  <2>6. ASSUME NEW i \in 1 .. A PROVE Latest(t)[i] = r[i]
    <3> PICK j, k : j = i + 1 /\ k = n + 1 - A + i
      OBVIOUS
    <3>1. CASE i = A
      <4>1. k = n + 1
        BY <1>1, <3>1
      <4> QED
        BY <1>2, <2>2, <2>5, <3>1, <4>1
    <3>2. CASE i # A
      <4>1. i \in 1 .. A - 1 /\ j \in 1 .. A /\ k \in 1 .. n /\ n - A + j = k
        BY <1>1, <1>4, <3>2
      <4>2. r[i] = l[j] /\ l[j] = s[n - A + j] /\ t[k] = s[k]
        BY <1>2, <2>1, <2>5, <4>1
      <4> QED
        BY <2>2, <4>1, <4>2
    <3> QED
      BY <3>1, <3>2
  <2>7. Latest(t) = r
    BY <2>2, <2>5, <2>6, SeqEqual
  <2> QED
    BY <1>1, <1>4, <2>3, <2>7
<1> QED
  BY <1>1, <1>3, <1>4

\* What Second, SendRecvCall and the other steps do to the ring.
LEMMA SecondCases ==
  ASSUME [Next]_vars
  PROVE  \/ UNCHANGED <<second_requests, current_request_index, sum_requests, min_requests, max_requests, average, seconds>>
         \/ SendRecvCall \/ Second
BY DEF Next, vars, WorkerStep, Connect, BeginRequests, Skip, BreakThread, Reply, Closed,
    MainStep, AllConnected, ThreadComplete, BeginAgain, Finish, Interrupt, SkipStep, secondVars

\* The position goes around the ring.
LEMMA NextSlot ==
  ASSUME NEW i \in 0 .. AVG_SECONDS - 1
  PROVE  (i + 1) % AVG_SECONDS = IF i + 1 = AVG_SECONDS THEN 0 ELSE i + 1
<1>1. AVG_SECONDS \in Nat /\ AVG_SECONDS > 0
  BY Constants
<1>2. CASE i + 1 = AVG_SECONDS
  BY <1>1, <1>2
<1>3. CASE i + 1 # AVG_SECONDS
  <2>1. i + 1 \in 0 .. AVG_SECONDS - 1
    BY <1>1, <1>3
  <2> QED
    BY <1>1, <1>3, <2>1
<1> QED
  BY <1>2, <1>3

\* A second goes into the slot after the last one.
LEMMA RingMoves ==
  ASSUME SecondTypes, Ring, Second
  PROVE  Ring'
<1> PICK A, n, i, p, x : /\ A = AVG_SECONDS /\ n = Len(seconds) /\ i = current_request_index
                         /\ p = Past /\ x = main_requests
  OBVIOUS
<1>t. /\ A \in Nat /\ A > 0 /\ n \in Nat /\ i \in 0 .. A - 1 /\ p = n - i /\ p \in Int /\ x \in Nat
      /\ seconds \in Seq(Nat) /\ second_requests \in [0 .. A - 1 -> Nat]
  BY Constants, LenProperties DEF SecondTypes, Past
<1>1. /\ p = 0 \/ p >= A
      /\ \A k \in 0 .. A - 1 :
           /\ k < i => second_requests[k] = seconds[p + k + 1]
           /\ k >= i => second_requests[k] = IF p = 0 THEN 0 ELSE seconds[p - A + k + 1]
  BY DEF Ring
<1>u. \A k \in 0 .. A - 1, u \in Int : k < i /\ u = p + k + 1 => second_requests[k] = seconds[u]
  BY <1>1
<1>v. \A k \in 0 .. A - 1, v \in Int : k >= i /\ v = p - A + k + 1 => second_requests[k] = IF p = 0 THEN 0 ELSE seconds[v]
  BY <1>1
<1>2. /\ seconds' = Append(seconds, x) /\ second_requests' = [second_requests EXCEPT ![i] = x]
      /\ i + 1 = A => current_request_index' = 0
      /\ i + 1 # A => current_request_index' = i + 1
  BY <1>t, NextSlot DEF Second
<1> PICK t, q, j : t = seconds' /\ q = second_requests' /\ j = current_request_index'
  OBVIOUS
<1>3. Len(t) = n + 1 /\ t[n + 1] = x /\ \A k \in 1 .. n : t[k] = seconds[k]
  BY <1>2, <1>t, AppendProperties
<1>4. q[i] = x /\ \A k \in 0 .. A - 1 : k # i => q[k] = second_requests[k]
  BY <1>2, <1>t
<1>5. CASE i + 1 # A
  <2>1. j = i + 1
    BY <1>2, <1>5
  <2>2. Past' = p
    BY <1>3, <1>t, <2>1 DEF Past
  <2>3. ASSUME NEW k \in 0 .. A - 1, NEW u \in Int, u = p + k + 1, k < j PROVE q[k] = t[u]
    <3>1. CASE k < i
      <4>1. u \in 1 .. n
        BY <1>1, <1>t, <2>3, <3>1
      <4>2. q[k] = second_requests[k] /\ second_requests[k] = seconds[u]
        BY <1>4, <1>t, <1>u, <2>3, <3>1
      <4> QED
        BY <1>3, <4>1, <4>2
    <3>2. CASE k = i
      <4>1. u = n + 1
        BY <1>t, <2>3, <3>2
      <4> QED
        BY <1>3, <1>4, <3>2, <4>1
    <3> QED
      BY <1>t, <2>1, <2>3, <3>1, <3>2
  <2>4. ASSUME NEW k \in 0 .. A - 1, NEW v \in Int, v = p - A + k + 1, k >= j
        PROVE  q[k] = IF p = 0 THEN 0 ELSE t[v]
    <3>1. k > i
      BY <1>t, <2>1, <2>4
    <3>2. q[k] = IF p = 0 THEN 0 ELSE seconds[v]
      <4>1. q[k] = second_requests[k]
        BY <1>4, <1>t, <3>1
      <4>2. k >= i
        BY <1>t, <3>1
      <4> QED
        BY <1>v, <2>4, <4>1, <4>2
    <3>3. p # 0 => v \in 1 .. n
      BY <1>1, <1>t, <2>4, <3>1
    <3> QED
      BY <1>3, <3>2, <3>3
  <2>5. ASSUME NEW k \in 0 .. A - 1
        PROVE  /\ k < j => q[k] = t[p + k + 1]
               /\ k >= j => q[k] = IF p = 0 THEN 0 ELSE t[p - A + k + 1]
    <3>1. p + k + 1 \in Int /\ p - A + k + 1 \in Int
      BY <1>t
    <3> QED
      BY <2>3, <2>4, <3>1
  <2> QED
    BY <1>1, <2>2, <2>5 DEF Ring
<1>6. CASE i + 1 = A
  <2>1. j = 0
    BY <1>2, <1>6
  <2>2. Past' = p + A
    <3>1. Past' = n + 1 - 0
      BY <1>3, <2>1 DEF Past
    <3>2. n \in Int /\ i \in Int /\ p = n - i /\ A = i + 1
      BY <1>6, <1>t
    <3>3. n + 1 - 0 = p + A
      BY <3>2
    <3> QED
      BY <3>1, <3>3
  <2>3. p + A >= A /\ p + A # 0
    <3>1. (p = 0 \/ p >= A) /\ A \in Nat /\ A > 0 /\ p \in Int
      BY <1>1, <1>t
    <3> QED
      BY <3>1
  <2>4. ASSUME NEW k \in 0 .. A - 1, NEW u \in Int, u = p + k + 1 PROVE q[k] = t[u]
    <3>1. CASE k < i
      <4>1. u \in 1 .. n
        BY <1>1, <1>t, <2>4, <3>1
      <4>2. q[k] = second_requests[k] /\ second_requests[k] = seconds[u]
        BY <1>4, <1>t, <1>u, <2>4, <3>1
      <4> QED
        BY <1>3, <4>1, <4>2
    <3>2. CASE k = i
      <4>1. u = n + 1
        BY <1>t, <2>4, <3>2
      <4> QED
        BY <1>3, <1>4, <3>2, <4>1
    <3> QED
      BY <1>6, <1>t, <3>1, <3>2
  <2>5. ASSUME NEW k \in 0 .. A - 1 PROVE ~(k < j) /\ q[k] = t[(p + A) - A + k + 1]
    <3>1. p + k + 1 \in Int /\ (p + A) - A + k + 1 = p + k + 1 /\ ~(k < 0)
      BY <1>t
    <3> QED
      BY <2>1, <2>4, <3>1
  <2> QED
    BY <2>2, <2>3, <2>5 DEF Ring
<1> QED
  BY <1>5, <1>6

\* The ring is filled in turn, and emptied with a new send_recv.
LEMMA RingStep == SecondTypes /\ Ring /\ [Next]_vars => Ring'
<1> SUFFICES ASSUME SecondTypes, Ring, [Next]_vars PROVE Ring'
  OBVIOUS
<1>1. CASE SendRecvCall
  <2>1. AVG_SECONDS \in Nat /\ AVG_SECONDS > 0
    BY Constants
  <2>2. /\ Len(seconds') = 0 /\ current_request_index' = 0
        /\ \A i \in 0 .. AVG_SECONDS - 1 : second_requests'[i] = 0 /\ ~(i < 0)
    BY <1>1, <2>1 DEF SendRecvCall
  <2>3. Past' = 0
    BY <2>2 DEF Past
  <2> QED
    BY <2>2, <2>3 DEF Ring
<1>2. CASE UNCHANGED <<second_requests, current_request_index, seconds>>
  BY <1>2 DEF Ring, Past
<1> QED
  BY <1>1, <1>2, RingMoves, SecondCases

\* Sequences of natural numbers are sequences of integers.
LEMMA NatsAreInts == \A s \in Seq(Nat) : s \in Seq(Int)
<1> TAKE s \in Seq(Nat)
<1>1. Len(s) \in Nat /\ s \in [1 .. Len(s) -> Int]
  BY LenProperties, ElementOfSeq
<1> QED
  BY <1>1

\* The average when a second is over.
LEMMA AveragedMoves ==
  ASSUME SecondTypes, Ring, Averaged, Second
  PROVE  Averaged'
<1> PICK A, n, i, p, x : /\ A = AVG_SECONDS /\ n = Len(seconds) /\ i = current_request_index
                         /\ p = Past /\ x = main_requests
  OBVIOUS
<1> PICK old, s, l, m : old = second_requests[i] /\ s = seconds /\ l = Latest(s) /\ m = Latest(Append(s, x))
  OBVIOUS
<1>t. /\ A \in Nat /\ A > 0 /\ n \in Nat /\ i \in 0 .. A - 1 /\ p = n - i /\ p \in Int /\ x \in Nat
      /\ s \in Seq(Nat) /\ old \in Nat
      /\ sum_requests \in Int /\ min_requests \in Int /\ max_requests \in Int
      /\ UINT_MAX \in Int
  BY Constants, LenProperties DEF SecondTypes, Past
<1>1. /\ sum_requests = Total(l) /\ sum_requests' = sum_requests - old + x
      /\ seconds' = Append(s, x)
      /\ average' = [sum |-> sum_requests', count |-> IF old # 0 THEN A ELSE i + 1]
  BY DEF Averaged, Second, NewSum, SecondsCounted
<1>2. l \in Seq(Nat) /\ m \in Seq(Nat) /\ l \in Seq(Int) /\ m \in Seq(Int)
  <2>1. Append(s, x) \in Seq(Nat)
    BY <1>t, AppendProperties
  <2> QED
    BY <1>t, <2>1, LatestFacts, NatsAreInts
<1>3. ASSUME p = 0
      PROVE  Total(m) = Total(l) - old + x /\ Len(m) = i + 1 /\ old = 0
  <2>1. old = 0
    BY <1>3, <1>t DEF Ring
  <2>2. m = Append(l, x) /\ n < A
    <3>1. n < A
      BY <1>3, <1>t
    <3> QED
      BY <1>t, <3>1, LatestMoves
  <2>3. Total(m) = Total(l) + x
    <3>1. l \in Seq(Int) /\ x \in Int
      BY <1>2, <1>t
    <3> QED
      BY <2>2, <3>1, TotalAppend
  <2>4. Len(m) = i + 1
    <3>1. l = s
      BY <1>t, <2>2, LatestFacts
    <3> QED
      BY <1>3, <1>t, <2>2, <3>1
  <2>5. Total(l) \in Int
    BY <1>2, TotalType
  <2> QED
    BY <1>t, <2>1, <2>3, <2>4, <2>5
<1>3a. p # 0 => p >= A
  BY DEF Ring
<1>4. ASSUME p # 0
      PROVE  /\ Total(m) = Total(l) - old + x /\ Len(m) = A
             /\ old \in Range(s)
  <2>1. n >= A
    BY <1>3a, <1>4, <1>t
  <2>2. m = Append(Tail(l), x) /\ l # << >> /\ l[1] = s[n - A + 1]
    BY <1>t, <2>1, LatestMoves
  <2>3. old = s[n - A + 1]
    <3> PICK k : k = p - A + i + 1
      OBVIOUS
    <3>1. i \in 0 .. A - 1 /\ i >= i
      BY <1>t
    <3>2. second_requests[i] = IF p = 0 THEN 0 ELSE s[p - A + i + 1]
      BY <3>1 DEF Ring
    <3>3. n - A + 1 = p - A + i + 1
      BY <1>t
    <3> QED
      BY <1>4, <3>2, <3>3
  <2>4. Tail(l) \in Seq(Int)
    BY <1>2, <2>2, HeadTailProperties
  <2>5. Total(Tail(l)) = Total(l) - l[1]
    BY <1>2, <2>2, TotalTail
  <2>6. Total(m) = Total(Tail(l)) + x
    <3> PICK q : q = Tail(l)
      OBVIOUS
    <3>1. q \in Seq(Int) /\ x \in Int /\ m = Append(q, x)
      BY <1>t, <2>2, <2>4
    <3> QED
      BY <3>1, TotalAppend
  <2>7. Len(m) = A
    <3> PICK u, k : u = Append(s, x) /\ k = n + 1
      OBVIOUS
    <3>1. u \in Seq(Nat) /\ k = Len(u) /\ k > A
      BY <1>t, <2>1
    <3> QED
      BY <3>1, LatestFacts
  <2>8. old \in Range(s)
    <3>1. n - A + 1 \in DOMAIN s
      BY <1>t, <2>1, LenProperties
    <3> QED
      BY <2>3, <3>1 DEF Range
  <2>9. Total(l) \in Int /\ Total(Tail(l)) \in Int
    BY <1>2, <2>4, TotalType
  <2> QED
    BY <1>t, <2>2, <2>3, <2>5, <2>6, <2>7, <2>8, <2>9
<1>5. sum_requests' = Total(m)
  BY <1>1, <1>3, <1>4
<1>6. Latest(seconds') = m
  BY <1>1
<1>7. Range(seconds') = Range(seconds) \cup {x}
  BY <1>1, <1>t, PushFacts
<1>8. /\ min_requests' = IF min_requests <= x THEN min_requests ELSE x
      /\ max_requests' = IF max_requests >= x THEN max_requests ELSE x
  <2>1. min_requests' = Min({min_requests, x}) /\ max_requests' = Max({max_requests, x})
    BY DEF Second
  <2>2. x \in Int /\ min_requests \in Int /\ max_requests \in Int
    BY <1>t
  <2> QED
    BY <2>1, <2>2, MinMax
<1>9. /\ min_requests' \in Range(seconds') \cup {UINT_MAX}
      /\ max_requests' \in Range(seconds') \cup {0}
      /\ \A y \in Range(seconds') : min_requests' <= y /\ y <= max_requests'
      /\ min_requests' <= UINT_MAX /\ 0 <= max_requests'
  <2>1. \A y \in Range(s) : y \in Int
    BY <1>t, LenProperties DEF Range
  <2>2. /\ min_requests \in Range(s) \cup {UINT_MAX} /\ max_requests \in Range(s) \cup {0}
        /\ \A y \in Range(s) : min_requests <= y /\ y <= max_requests
        /\ min_requests <= UINT_MAX /\ 0 <= max_requests
    BY DEF Averaged
  <2> QED
    BY <1>7, <1>8, <1>t, <2>1, <2>2
<1>10. ASSUME 0 \notin Range(seconds') PROVE average'.count = Len(m)
  <2>1. 0 \notin Range(s)
    BY <1>10, <1>7
  <2>2. average'.count = IF old # 0 THEN A ELSE i + 1
    BY <1>1
  <2>3. CASE p = 0
    BY <1>3, <2>2, <2>3
  <2>4. CASE p # 0
    BY <1>4, <2>1, <2>2, <2>4
  <2> QED
    BY <2>3, <2>4
<1>11. 0 \notin Range(seconds') => average' = [sum |-> sum_requests', count |-> Len(m)]
  BY <1>1, <1>10
<1> QED
  BY <1>5, <1>6, <1>9, <1>11 DEF Averaged, UINT_MAX

\* A new send_recv has no seconds.
LEMMA AveragedAnew == ASSUME SendRecvCall PROVE Averaged'
<1>1. seconds' = << >> /\ sum_requests' = 0 /\ min_requests' = UINT_MAX /\ max_requests' = 0
  BY DEF SendRecvCall
<1> PICK e : e = << >>
  OBVIOUS
<1>2. e \in Seq(Nat) /\ Len(e) = 0 /\ Range(e) = {} /\ e \in Seq(Int)
  BY DEF Range
<1>3. Latest(e) = e
  <2>1. AVG_SECONDS \in Nat /\ 0 <= AVG_SECONDS
    BY Constants
  <2> QED
    BY <1>2, <2>1, LatestFacts
<1>4. Total(e) = 0
  <2>1. e \in Seq(Int) /\ \A i \in 1 .. Len(e) : e[i] = 0
    BY <1>2
  <2> QED
    BY <2>1, TotalZero
<1>5. UINT_MAX \in Int /\ UINT_MAX' = UINT_MAX
  BY Constants DEF UINT_MAX
<1> QED
  BY <1>1, <1>2, <1>3, <1>4, <1>5 DEF Averaged

\* Each step keeps the sum, the minimum and the maximum.
LEMMA AveragedStep == SecondTypes /\ Ring /\ Averaged /\ [Next]_vars => Averaged'
<1> SUFFICES ASSUME SecondTypes, Ring, Averaged, [Next]_vars PROVE Averaged'
  OBVIOUS
<1>1. CASE UNCHANGED <<second_requests, current_request_index, sum_requests, min_requests, max_requests, average, seconds>>
  BY <1>1 DEF Averaged, UINT_MAX
<1> QED
  BY <1>1, AveragedAnew, AveragedMoves, SecondCases

\* Without any seconds yet, and without a reply.
LEMMA TotalOfNone == Total(<< >>) = 0
<1> PICK e : e = << >>
  OBVIOUS
<1>1. e \in Seq(Int) /\ \A i \in 1 .. Len(e) : e[i] = 0
  OBVIOUS
<1> QED
  BY <1>1, TotalZero

\* Steps that count no reply and end no second.
LEMMA SecondedStays ==
  ASSUME Seconded, UNCHANGED <<main_requests, seconds, answered, send_recv>>,
         phase' = phase \/ phase = "run"
  PROVE  Seconded'
BY DEF Seconded

\* Each reply is counted in one second: what Reply counts, Second moves, and a new
\* send_recv forgets.
LEMMA SecondedStep ==
  ASSUME Typed, Calm, OneByOne, Answers, Seconded, [Next]_vars
  PROVE  Seconded'
<1>t. /\ NSteps \in Nat /\ NSteps > 0 /\ main_requests \in Nat /\ seconds \in Seq(Nat) /\ seconds \in Seq(Int)
      /\ answered \in Int /\ Total(seconds) \in Int /\ send_recv \in 0 .. NSteps + 1
      /\ out \in [Connection -> Nat]
  <2>1. seconds \in Seq(Nat)
    BY DEF Typed, SecondTypes
  <2> QED
    BY <2>1, Constants, NatsAreInts, TotalType DEF Typed, MainTypes, ConnTypes, SecondTypes, ReportTypes
<1>1. ASSUME NEW c \in Connection, Reply(c) PROVE Seconded'
  <2>1. /\ main_requests' = main_requests + 1 /\ answered' = answered + 1
        /\ UNCHANGED <<seconds, send_recv, phase>>
    BY <1>1 DEF Reply, mainVars
  <2>2. send_recv # 0
    BY <1>1, <1>t DEF Reply, OneByOne
  <2> QED
    BY <1>t, <2>1, <2>2 DEF Seconded
<1>2. CASE Second
  <2>1. /\ main_requests' = 0 /\ seconds' = Append(seconds, main_requests) /\ send_recv # 0
        /\ UNCHANGED <<answered, send_recv, phase>>
    BY <1>2 DEF Second, mainVars, reportVars
  <2>2. Total(seconds') = Total(seconds) + main_requests
    <3> PICK s, x : s = seconds /\ x = main_requests
      OBVIOUS
    <3>1. s \in Seq(Int) /\ x \in Int
      BY <1>t
    <3> QED
      BY <2>1, <3>1, TotalAppend
  <2> QED
    BY <1>t, <2>1, <2>2 DEF Seconded
<1>3. CASE MainStep
  <2>1. ASSUME Counted PROVE Seconded'
    BY <2>1, SecondedStays DEF Counted, reportVars, secondVars
  <2>2. ASSUME LastRound PROVE Seconded'
    BY <1>t, <2>2 DEF LastRound, Seconded
  <2>3. ASSUME Finish PROVE Seconded'
    BY <1>t, <2>3 DEF Finish, Seconded, secondVars
  <2>4. ASSUME NEW n, NEW x, Round(n, x) PROVE Seconded'
    <3>1. answered' = 0 /\ send_recv' # 0
      BY <1>t, <2>4 DEF Round
    <3>2. seconds' = << >> /\ main_requests' = 0
      BY <2>4 DEF Round, SendRecvCall, Seconded, secondVars
    <3> QED
      BY <3>1, <3>2, TotalOfNone DEF Seconded
  <2> QED
    BY <1>3, <2>1, <2>2, <2>3, <2>4, MainCases
<1>4. ASSUME \/ \E w \in Worker : WorkerStep(w)
             \/ \E c \in Connection : Closed(c)
             \/ Interrupt \/ SkipStep \/ UNCHANGED vars
      PROVE  Seconded'
  <2>1. UNCHANGED <<main_requests, seconds, answered, send_recv>> /\ (phase' = phase \/ phase = "run")
    BY <1>4 DEF WorkerStep, Connect, BeginRequests, Skip, BreakThread, Closed, Interrupt, SkipStep,
      vars, mainVars, reportVars, secondVars
  <2> QED
    BY <2>1, SecondedStays
<1> QED
  BY <1>1, <1>2, <1>3, <1>4 DEF Next

\* The ring is empty in the beginning.
LEMMA InitSeconds == Init => Ring /\ Averaged /\ Seconded
<1> SUFFICES ASSUME Init PROVE Ring /\ Averaged /\ Seconded
  OBVIOUS
<1>t. AVG_SECONDS \in Nat /\ AVG_SECONDS > 0 /\ UINT_MAX \in Int
  BY Constants
<1> PICK e : e = << >>
  OBVIOUS
<1>1. e \in Seq(Nat) /\ Len(e) = 0 /\ Range(e) = {}
  BY DEF Range
<1>2. /\ seconds = e /\ main_requests = 0 /\ answered = 0 /\ send_recv = 0
      /\ current_request_index = 0 /\ sum_requests = 0 /\ min_requests = UINT_MAX /\ max_requests = 0
      /\ second_requests = [i \in 0 .. AVG_SECONDS - 1 |-> 0]
  BY DEF Init
<1>3. Latest(e) = e
  <2>1. 0 <= AVG_SECONDS
    BY <1>t
  <2> QED
    BY <1>1, <2>1, LatestFacts
<1>4. Total(e) = 0
  BY TotalOfNone
<1>5. Ring
  <2>1. Past = 0
    BY <1>1, <1>2 DEF Past
  <2>2. \A i \in 0 .. AVG_SECONDS - 1 : second_requests[i] = 0 /\ ~(i < 0)
    BY <1>2, <1>t
  <2> QED
    BY <1>2, <2>1, <2>2 DEF Ring
<1>6. Averaged
  BY <1>1, <1>2, <1>3, <1>4, <1>t DEF Averaged
<1>7. Seconded
  BY <1>2, <1>4 DEF Seconded
<1> QED
  BY <1>5, <1>6, <1>7

\* The sum, the minimum and the maximum that main prints are those of the seconds
\* they should be of, and every reply is in one of the seconds.
THEOREM AverageKept == Spec => [](scene.closes # "always" => AverageOfRecent)
<1> DEFINE Inv == Kept /\ Ring /\ Averaged /\ (Calm => Seconded)
<1>1. Init => Inv
  BY InitTyped, InitRules, InitSeconds DEF Kept
<1>2. Inv /\ [Next]_vars => Inv'
  <2> SUFFICES ASSUME Inv, [Next]_vars PROVE Inv'
    OBVIOUS
  <2>1. Kept' /\ Ring' /\ Averaged'
    BY KeptStep, RingStep, AveragedStep DEF Kept, Typed
  <2>2. ASSUME Calm' PROVE Seconded'
    <3>1. Calm
      BY <2>1, <2>2, CalmBack DEF Kept
    <3> QED
      BY <3>1, SecondedStep DEF Kept, Rules
  <2> QED
    BY <2>1, <2>2
<1>3. Inv /\ scene.closes # "always" => AverageOfRecent
  <2> SUFFICES ASSUME Inv, scene.closes # "always", EachConnects
               PROVE  AverageOfRecent
    BY DEF AverageOfRecent
  <2>1. Averaged /\ Seconded /\ seconds \in Seq(Nat) /\ UINT_MAX \in Int
    BY Constants DEF Calm, Kept, Typed, SecondTypes
  <2>2. ToSet(seconds) = Range(seconds) /\ Recent = Latest(seconds)
    BY <2>1, LenProperties DEF ToSet, Range, Recent, Latest
  <2>3. \A y \in Range(seconds) : y \in Int
    BY <2>1, LenProperties DEF Range
  <2>4. min_requests = Min(Range(seconds) \cup {UINT_MAX})
    <3> DEFINE S == Range(seconds) \cup {UINT_MAX}
    <3>1. min_requests \in S /\ \A y \in S : min_requests <= y /\ y \in Int
      BY <2>1, <2>3 DEF Averaged
    <3>2. ASSUME NEW z \in S, \A y \in S : z <= y PROVE z = min_requests
      <4>1. z \in Int /\ min_requests \in Int /\ z <= min_requests /\ min_requests <= z
        BY <3>1, <3>2
      <4> QED
        BY <4>1
    <3> HIDE DEF S
    <3>3. Min(S) \in S /\ \A y \in S : Min(S) <= y
      BY <3>1 DEF Min
    <3> QED
      BY <3>2, <3>3 DEF S
  <2>5. max_requests = Max(Range(seconds) \cup {0})
    <3> DEFINE S == Range(seconds) \cup {0}
    <3>1. max_requests \in S /\ \A y \in S : max_requests >= y /\ y \in Int
      BY <2>1, <2>3 DEF Averaged
    <3>2. ASSUME NEW z \in S, \A y \in S : z >= y PROVE z = max_requests
      <4>1. z \in Int /\ max_requests \in Int /\ z <= max_requests /\ max_requests <= z
        BY <3>1, <3>2
      <4> QED
        BY <4>1
    <3> HIDE DEF S
    <3>3. Max(S) \in S /\ \A y \in S : Max(S) >= y
      BY <3>1 DEF Max
    <3> QED
      BY <3>2, <3>3 DEF S
  <2> QED
    BY <2>1, <2>2, <2>4, <2>5 DEF Averaged, Seconded, AverageOfRecent
<1> HIDE DEF Inv
<1> QED
  BY <1>1, <1>2, <1>3, PTL DEF Spec
===============================================================================
