----------------------------- MODULE ServerProof -----------------------------
(***************************************************************************)
(* The server, for every number of workers, addresses and slots.           *)
(***************************************************************************)
EXTENDS Server, SequenceFacts, FiniteSetTheorems, SequenceTheorems, TLAPS

TableProof == INSTANCE ConnTableProof

-----------------------------------------------------------------------------
(***************************************************************************)
(* Where the threads are.                                                  *)
(***************************************************************************)
Starting == {"start", "create", "barrier"}
Handling == {"check", "deny", "insert", "assign", "hook", "push", "notify", "reject", "free"}
Ending == {"scan", "dash", "join", "stop", "done"}

\* Places of a worker with a connection in its ptr, of one whose hook may hold
\* a reference, and of one that has left its loop.
Having == {"hook", "remove", "free", "closing", "queueing", "writing"}
Using == {"using", "leaving", "closing", "queueing", "writing"}
Left == {"drain", "destory", "exited"}

WorkerPlaces == {"none", "init", "loop", "notify", "tell"} \cup Having \cup Using \cup Left

\* What a pipe carries.
Byte == {"l", "x", "-"}

\* The types of the variables.
TypeOK ==
  /\ conn_num \in Int /\ iqueue \in Seq(Int)
  /\ iconns \in [0 .. MaxClients -> Conn \cup {NULL}]
  /\ index \in [Conn -> Int] /\ live \subseteq Conn
  /\ alloc \subseteq Conn /\ refable \subseteq Conn /\ watched \subseteq Conn /\ eof \subseteq Conn
  /\ thread \in [Conn -> Workers \cup {NULL}]
  /\ ref_count \in [Conn -> Int]
  /\ row \in [0 .. MaxClients -> SUBSET (Conn \cup {"stale"})]
  /\ accept_queue \in [Workers -> Seq(Conn)]
  /\ close_queue \in [Workers -> Seq(Conn)]
  /\ pipe \in [Workers -> Seq(Byte)]
  /\ buffer \in [Workers -> Seq(Byte)]
  /\ accepting \in BOOLEAN /\ note \in BOOLEAN
  /\ mpc \in Starting \cup {"loop"} \cup Handling \cup Ending
  /\ mconn \in Conn \cup {NULL} /\ mthread \in Workers \cup {NULL}
  /\ told \in Nat
  /\ wpc \in [Workers -> WorkerPlaces]
  /\ wconn \in [Workers -> Conn \cup {NULL}] /\ held \in [Workers -> Conn \cup {NULL}]
  /\ phase \in [Workers -> {"none", "init", "run", "break", "drain", "exited"}]
  /\ scene \in Scenes

\* What a worker has at its place.
WorkerPlace(w) ==
  /\ wpc[w] \in Having <=> wconn[w] # NULL
  /\ wpc[w] \in {"using", "leaving"} => held[w] # NULL
  /\ wpc[w] \notin Using => held[w] = NULL
  /\ wpc[w] \notin {"notify", "hook", "remove", "free", "tell"} => buffer[w] = << >>
  /\ wpc[w] = "none" <=> phase[w] = "none"
  /\ wpc[w] = "init" <=> phase[w] = "init"
  /\ wpc[w] = "exited" <=> phase[w] = "exited"
  /\ wpc[w] \in {"drain", "destory"} => phase[w] = "drain"
  /\ wpc[w] \in {"loop"} \cup Using => phase[w] = "run"
  /\ wpc[w] \in {"notify", "tell"} => phase[w] \in {"run", "break"}
  /\ phase[w] = "drain" => buffer[w] = << >>
  /\ phase[w] # "none" => mpc \notin {"start", "create"}
  /\ wpc[w] \in {"none", "init"} => mpc \in Starting

\* Threads at their places have what they need there.
Places ==
  /\ mpc \in Handling <=> mconn # NULL
  /\ \A w \in Workers : WorkerPlace(w)

\* No worker is told to leave its loop before SIGINT.
ToldInTime ==
  mpc \notin Ending \ {"scan"} =>
    \A w \in Workers :
      /\ "-" \notin Range(pipe[w]) \cup Range(buffer[w])
      /\ phase[w] \in {"none", "init", "run"}

\* Handlers of new connections run while the listen event is enabled.
Enabled == mpc \in Starting \cup Handling => accepting
\* A thread that is about to free a connection holds the lock alone.
Locked ==
  /\ mpc = "free" => wr = {Main}
  /\ \A w \in Workers : wpc[w] = "free" => wr = {w}

-----------------------------------------------------------------------------
(***************************************************************************)
(* The uses in which the server keeps its connections apart: hooks look    *)
(* connections up, and SIGINT meets no client that has disconnected; or    *)
(* clients stay, and hooks close their own connections or other watched    *)
(* connections of their worker.                                            *)
(***************************************************************************)
LooksUp == scene.ops \subseteq {"lookup"} /\ (scene.signals => scene.closes # "always")
ClosesOwn ==
  /\ scene.ops \subseteq {"lookup", "close_own", "close_known"}
  /\ scene.closes = "never" /\ ~scene.signals
InUse == LooksUp \/ ClosesOwn

Told == Ending \ {"scan"}

\* What does not happen in these uses.
Used ==
  /\ scene.closes = "never" => eof = {}
  /\ mpc \in Ending => scene.signals /\ eof = {}
  /\ \A w \in Workers :
       /\ wpc[w] \in {"hook", "remove", "free"} =>
            wconn[w] \in eof \/ phase[w] = "drain" \/ ~LooksUp
       /\ LooksUp => /\ wpc[w] \notin {"closing", "queueing", "writing"}
                     /\ "x" \notin Range(pipe[w]) \cup Range(buffer[w])
                     /\ mpc \notin Told => close_queue[w] = << >>

MainOwns(c) == mpc \in {"assign", "hook", "push", "reject"} /\ mconn = c
Serves(w, c) == wpc[w] \in {"hook", "remove"} /\ wconn[w] = c

\* A connection is in the hands of the main thread, or in one place of one
\* worker, its thread.
Owned ==
  \A c \in Conn :
    /\ MainOwns(c) => /\ c \in live /\ c \notin watched
                      /\ \A w \in Workers : /\ ~Serves(w, c)
                                            /\ c \notin Range(accept_queue[w])
                                            /\ c \notin Range(close_queue[w])
    /\ c \in watched => c \in live /\ thread[c] # NULL
    /\ \A w \in Workers :
         /\ c \in Range(accept_queue[w]) => c \in live \ watched /\ thread[c] = w /\ ~Serves(w, c)
         /\ Serves(w, c) => c \in live \ watched /\ thread[c] = w
         /\ c \in Range(close_queue[w]) => c \in live /\ thread[c] = w /\ ~Serves(w, c)

\* No queue holds a connection twice.
QueuedOnce ==
  \A w \in Workers : IsInjective(accept_queue[w]) /\ IsInjective(close_queue[w])

\* What is in the table is allocated, and what is about to enter it, or has
\* just left it, is not in it.
Allocated ==
  /\ live \subseteq alloc
  /\ mpc \in {"check", "deny", "insert", "free"} => mconn \in alloc \ live
  /\ \A w \in Workers :
       wpc[w] = "free" => wconn[w] \in alloc \ live /\ wconn[w] # mconn

\* Each connection has a thread as soon as the main thread has assigned it.
Assigned ==
  /\ \A c \in live : thread[c] # NULL \/ (mpc = "assign" /\ mconn = c)
  /\ mpc \in {"hook", "push", "reject"} => mthread = thread[mconn]
  /\ mpc = "notify" => /\ mthread # NULL /\ accept_queue[mthread] # << >>
                        /\ accept_queue[mthread][Len(accept_queue[mthread])] = mconn

\* Hooks close connections that are watched by their worker and are not queued.
ClosesWatched ==
  /\ \A w \in Workers :
       wpc[w] \in {"closing", "queueing", "writing"} =>
         wconn[w] \in watched /\ thread[wconn[w]] = w /\ (wpc[w] = "queueing" => wconn[w] \in refable)
  /\ ~LooksUp => \A w \in Workers : \A c \in Range(close_queue[w]) : c \in watched \ refable

Room == mpc = "insert" => conn_num < MaxClients

\* References are counted, and keep what they refer to.
Referenced ==
  /\ \A c \in Conn : ref_count[c] = Cardinality({w \in Workers : held[w] = c})
  /\ \A w \in Workers : held[w] # NULL => held[w] \in alloc
  /\ mpc \in {"check", "deny", "insert"} => \A w \in Workers : held[w] # mconn

LBytes == \A w \in Workers : Bytes(w, "l") + AcceptUnsent(w) = Len(accept_queue[w])
NoLate ==
  \A w \in Workers :
    "-" \in Range(buffer[w]) \/ phase[w] \in {"break", "drain", "exited"} => "l" \notin Range(pipe[w])
XBytes ==
  ~LooksUp => \A w \in Workers :
     Bytes(w, "x") + (IF wpc[w] = "writing" THEN 1 ELSE 0) <= Len(close_queue[w])

\* Whoever has left the loop has emptied its queues.
Emptied == \A w \in Workers : wpc[w] \in {"destory", "exited"} => Waiting(w) = << >>

ScanSeen ==
  mpc \in Told => \A c \in live : index[c] < MaxClients =>
    \E w \in Workers : c \in Range(close_queue[w]) \/ Serves(w, c)

Joined == mpc \in {"stop", "done"} => \A w \in Workers : phase[w] = "exited"

\* What these uses keep.
Use ==
  /\ Used /\ Owned /\ QueuedOnce /\ Allocated /\ Assigned /\ ClosesWatched /\ Referenced
  /\ XBytes /\ Emptied /\ ScanSeen /\ TableProof!IndInv

-----------------------------------------------------------------------------

\* The queues of the workers after a push and after a pop.
LEMMA PushType ==
  ASSUME NEW S, NEW queues \in [Workers -> Seq(S)], NEW w, NEW e \in S
  PROVE  /\ Push(queues, w, e) \in [Workers -> Seq(S)]
         /\ \A v \in Workers : /\ v = w => Push(queues, w, e)[v] = Append(queues[v], e)
                               /\ v # w => Push(queues, w, e)[v] = queues[v]
<1>1. CASE w \in Workers
  <2>1. queues[w] \in Seq(S) /\ Append(queues[w], e) \in Seq(S)
    BY <1>1, PushFacts
  <2> QED
    BY <1>1, <2>1 DEF Push
<1>2. CASE w \notin Workers
  BY <1>2 DEF Push
<1> QED
  BY <1>1, <1>2

\* What is left of a queue after a pop is of its type.
LEMMA PopType ==
  ASSUME NEW S, NEW queues \in [Workers -> Seq(S)], NEW w \in Workers, queues[w] # << >>
  PROVE  /\ Head(queues[w]) \in S
         /\ Pop(queues, w) \in [Workers -> Seq(S)]
         /\ Pop(queues, w)[w] = Tail(queues[w])
         /\ \A v \in Workers \ {w} : Pop(queues, w)[v] = queues[v]
<1> queues[w] \in Seq(S) /\ Head(queues[w]) \in S /\ Tail(queues[w]) \in Seq(S)
  BY PopFacts
<1> QED
  BY DEF Pop

\* A pop at one worker, as another sees it.
LEMMA PopSeen ==
  ASSUME NEW S, NEW queues \in [Workers -> Seq(S)], NEW w \in Workers, queues[w] # << >>,
         NEW v \in Workers
  PROVE  /\ queues[v] \in Seq(S)
         /\ v = w => queues[v] # << >> /\ Pop(queues, w)[v] = Tail(queues[v])
         /\ v # w => Pop(queues, w)[v] = queues[v]
<1>1. queues[v] \in Seq(S)
  OBVIOUS
<1>2. CASE v = w
  BY <1>1, <1>2, PopType
<1>3. CASE v # w
  BY <1>1, <1>3, PopType
<1> QED
  BY <1>2, <1>3

\* The scan lists connections of the table, each once.
LEMMA ScannedFacts ==
  ASSUME iconns \in [0 .. MaxClients -> Conn \cup {NULL}], NEW w \in Workers
  PROVE  /\ Scanned(w) \in Seq(Conn)
         /\ Range(Scanned(w)) =
              {iconns[i] : i \in {j \in 0 .. MaxClients - 1 : iconns[j] # NULL /\ thread[iconns[j]] = w}}
         /\ (\A i, j \in 0 .. MaxClients : iconns[i] # NULL /\ iconns[i] = iconns[j] => i = j) =>
              IsInjective(Scanned(w))
<1> DEFINE T == {i \in 0 .. MaxClients - 1 : iconns[i] # NULL /\ thread[iconns[i]] = w}
           s == InOrder(T)
<1>1. /\ s \in [1 .. Cardinality(T) -> T]
      /\ \A j, k \in DOMAIN s : j < k => s[j] < s[k]
  <2>1. \E f \in [1 .. Cardinality(T) -> T] : \A j, k \in DOMAIN f : j < k => f[j] < f[k]
    <3>1. T \subseteq 0 .. MaxClients - 1 /\ MaxClients \in Nat
      BY ServerAssumption
    <3> HIDE DEF T
    <3> QED
      BY <3>1, AscendingList
  <2> HIDE DEF T
  <2> QED
    BY <2>1 DEF InOrder
<1>2. Scanned(w) = [k \in DOMAIN s |-> iconns[s[k]]]
  BY DEF Scanned
<1>3. Cardinality(T) \in Nat /\ IsFiniteSet(T) /\ T \subseteq 0 .. MaxClients - 1
  <2>1. T \in SUBSET (0 .. MaxClients - 1) /\ 0 \in Int /\ MaxClients - 1 \in Int
    BY ServerAssumption
  <2> HIDE DEF T
  <2>2. IsFiniteSet(0 .. MaxClients - 1)
    BY <2>1, FS_Interval
  <2> QED
    BY <2>1, <2>2, FS_Subset, FS_CardinalityType
<1>4. \A i \in T : i \in Int /\ i \in 0 .. MaxClients /\ iconns[i] \in Conn
  BY ServerAssumption
<1>5. Range(Scanned(w)) = {iconns[s[k]] : k \in DOMAIN s}
  BY <1>2 DEF Range
<1> HIDE DEF T, s
<1> DEFINE n == Cardinality(T)
<1>a. \A j, k \in 1 .. n : j # k => s[j] # s[k]
  <2> TAKE j, k \in 1 .. n
  <2>1. j \in Nat /\ k \in Nat /\ DOMAIN s = 1 .. n /\ s[j] \in T /\ s[k] \in T
    BY <1>1, <1>3
  <2>2. s[j] \in Int /\ s[k] \in Int
    BY <1>4, <2>1
  <2> QED
    BY <1>1, <2>1, <2>2
<1>6. \A i \in T : \E k \in DOMAIN s : s[k] = i
  <2>1. IsFiniteSet(1 .. n) /\ Cardinality(1 .. n) = n
    BY <1>3, FS_Interval
  <2>2. s \in Injection(1 .. n, T)
    BY <1>1, <1>a DEF Injection, IsInjective
  <2>3. s \in Surjection(1 .. n, T)
    BY <1>3, <2>1, <2>2, FS_Injection
  <2> QED
    BY <1>1, <2>3 DEF Surjection
<1>7. Scanned(w) \in Seq(Conn)
  <2>1. Scanned(w) \in [1 .. Cardinality(T) -> Conn]
    BY <1>1, <1>2, <1>4
  <2> QED
    BY <1>3, <2>1
<1>8. {iconns[s[k]] : k \in DOMAIN s} = {iconns[i] : i \in T}
  BY <1>1, <1>6
<1>9. ASSUME \A i, j \in 0 .. MaxClients : iconns[i] # NULL /\ iconns[i] = iconns[j] => i = j
      PROVE  IsInjective(Scanned(w))
  <2> SUFFICES ASSUME NEW j \in 1 .. n, NEW k \in 1 .. n, iconns[s[j]] = iconns[s[k]] PROVE j = k
    BY <1>1, <1>2 DEF IsInjective
  <2>1. s[j] \in T /\ s[k] \in T
    BY <1>1
  <2>2. s[j] \in 0 .. MaxClients /\ s[k] \in 0 .. MaxClients /\ iconns[s[j]] # NULL
    BY <1>4, <2>1 DEF T
  <2> QED
    BY <1>9, <1>a, <2>2
<1> QED
  BY <1>5, <1>7, <1>8, <1>9 DEF T

\* remove_conn leaves the table and the counters typed.
LEMMA RemoveType ==
  ASSUME TypeOK, NEW c \in Conn, Table!RemoveConn(c)
  PROVE  /\ iqueue' \in Seq(Int) /\ conn_num' \in Int /\ live' \subseteq Conn
         /\ iconns' \in [0 .. MaxClients -> Conn \cup {NULL}] /\ index' \in [Conn -> Int]
<1> USE DEF TypeOK
<1>1. index[c] \in Int /\ iqueue \in Seq(Int)
  OBVIOUS
<1>2. iqueue' \in Seq(Int)
  <2> HIDE DEF TypeOK
  <2> QED
    BY <1>1, PushFacts DEF Table!RemoveConn
<1>3. conn_num' \in Int /\ live' \subseteq Conn
  BY DEF Table!RemoveConn
<1>4. iconns' \in [0 .. MaxClients -> Conn \cup {NULL}]
  <2>1. iconns' = [iconns EXCEPT ![index[c]] = NULL] /\ iconns \in [0 .. MaxClients -> Conn \cup
     {NULL}]
    BY DEF Table!RemoveConn
  <2> HIDE DEF TypeOK
  <2> QED
    BY <2>1
<1>5. index' \in [Conn -> Int]
  BY DEF Table!RemoveConn
<1> QED
  BY <1>2, <1>3, <1>4, <1>5

\* Every step keeps the types.
LEMMA TypeStep == TypeOK /\ Places /\ [Next]_vars => TypeOK'
<1> SUFFICES ASSUME TypeOK, Places, [Next]_vars PROVE TypeOK'
  OBVIOUS
<1> USE DEF TypeOK
<1>StartModule. ASSUME StartModule PROVE TypeOK'
  BY <1>StartModule DEF StartModule, StartHook, ClearRows, MainGoto, Places, WorkerPlace, tableVars, lockVars, queueVars, workerVars,
     Starting, Handling, Ending
<1>CreateWorkers. ASSUME CreateWorkers PROVE TypeOK'
  BY <1>CreateWorkers DEF CreateWorkers, MainGoto, Places, WorkerPlace, lifeVars, tableVars, lockVars,
     connVars, queueVars, Starting, Handling, Ending, WorkerPlaces, Having, Using, Left
<1>Barrier. ASSUME Barrier PROVE TypeOK'
  BY <1>Barrier DEF Barrier, MainGoto, Places, WorkerPlace, lifeVars, tableVars, lockVars, connVars, queueVars,
     workerVars, Starting, Handling, Ending
<1>CheckRoom. ASSUME CheckRoom PROVE TypeOK'
  BY <1>CheckRoom DEF CheckRoom, MainGoto, Places, WorkerPlace, lifeVars, tableVars, lockVars, connVars,
     queueVars, workerVars, Starting, Handling, Ending
<1>Deny. ASSUME Deny PROVE TypeOK'
  BY <1>Deny DEF Deny, MainGoto, Places, WorkerPlace, Free, lifeVars, tableVars, lockVars, queueVars,
     workerVars, Starting, Handling, Ending
<1>Insert. ASSUME Insert PROVE TypeOK'
  <2>1. mconn \in Conn /\ mpc' = "assign"
    BY <1>Insert DEF Insert, MainGoto, Places, WorkerPlace, Handling
  <2>2. conn_num' \in Int /\ live' \subseteq Conn /\ refable' \subseteq Conn
    BY <1>Insert, <2>1 DEF Insert, Table!InsertConn
  <2>3. ASSUME NEW i \in Int, Table!PutAt(i, mconn) 
        PROVE iconns' \in [0 .. MaxClients -> Conn \cup {NULL}] /\ index' \in [Conn -> Int]
    BY <2>1, <2>3 DEF Table!PutAt
  <2>4. CASE iqueue # << >>
    <3>1. Head(iqueue) \in Int /\ Tail(iqueue) \in Seq(Int)
      BY <2>4, PopFacts
    <3> QED
      BY <1>Insert, <2>1, <2>2, <2>3, <2>4, <3>1 DEF Insert, Table!InsertConn, lifeVars, lockVars,
         queueVars, workerVars, Handling
  <2>5. CASE iqueue = << >>
    BY <1>Insert, <2>1, <2>2, <2>3, <2>5 DEF Insert, Table!InsertConn, lifeVars, lockVars,
       queueVars, workerVars, Handling
  <2> QED
    BY <2>4, <2>5
<1>Assign. ASSUME Assign PROVE TypeOK'
  <2>1. mconn \in Conn /\ mthread' = WorkerOf(index[mconn]) /\ thread' = [thread EXCEPT ![mconn] =
     mthread'] /\ mpc' = "hook"
    BY <1>Assign DEF Assign, MainGoto, Places, WorkerPlace, Handling
  <2>2. \A i \in Int : i % NWorkers \in Workers
    BY ServerAssumption DEF Workers
  <2>3. index[mconn] \in Int /\ index[mconn] - 1 \in Int
    BY <2>1
  <2>4. mthread' \in Workers \cup {NULL}
    BY <2>1, <2>2, <2>3 DEF WorkerOf
  <2>5. thread' \in [Conn -> Workers \cup {NULL}]
    BY <2>1, <2>4
  <2> QED
    BY <1>Assign, <2>1, <2>4, <2>5 DEF Assign, lifeVars, tableVars, lockVars, queueVars,
       workerVars, Handling
<1>AcceptHook. ASSUME NEW result \in scene.accepts, AcceptHook(result) PROVE TypeOK'
  BY <1>AcceptHook DEF AcceptHook, MainGoto, Places, WorkerPlace, lifeVars, tableVars, lockVars, queueVars,
     workerVars, Starting, Handling, Ending
<1>QueueAccepted. ASSUME QueueAccepted PROVE TypeOK'
  <2>1. mconn \in Conn /\ mpc' = "notify"
    BY <1>QueueAccepted DEF QueueAccepted, MainGoto, Places, WorkerPlace, Handling
  <2>2. accept_queue' \in [Workers -> Seq(Conn)]
    BY <1>QueueAccepted, <2>1, PushType DEF QueueAccepted
  <2> QED
    BY <1>QueueAccepted, <2>1, <2>2 DEF QueueAccepted, lifeVars, tableVars, lockVars, connVars,
       workerVars, Handling
<1>NotifyAccepted. ASSUME NotifyAccepted PROVE TypeOK'
  <2>1. pipe' \in [Workers -> Seq(Byte)]
    BY <1>NotifyAccepted, PushType DEF NotifyAccepted, Byte
  <2> QED
    BY <1>NotifyAccepted, <2>1 DEF NotifyAccepted, MainGoto, lifeVars, tableVars, lockVars,
       connVars, workerVars
<1>RejectBegin. ASSUME RejectBegin PROVE TypeOK'
  <2>1. mconn \in Conn /\ mpc' = "free"
    BY <1>RejectBegin DEF RejectBegin, MainGoto, Places, WorkerPlace, Handling
  <2>2. Table!RemoveConn(mconn) /\ index[mconn] \in Int
    BY <1>RejectBegin, <2>1 DEF RejectBegin, RemoveBegin
  <2>3. /\ iqueue' \in Seq(Int) /\ conn_num' \in Int /\ live' \subseteq Conn
        /\ iconns' \in [0 .. MaxClients -> Conn \cup {NULL}] /\ index' \in [Conn -> Int]
    BY <2>2, <2>1, RemoveType
  <2> QED
    BY <1>RejectBegin, <2>1, <2>3 DEF RejectBegin, lifeVars, connVars, queueVars, workerVars,
       Handling
<1>RejectEnd. ASSUME RejectEnd PROVE TypeOK'
  BY <1>RejectEnd DEF RejectEnd, MainGoto, Places, WorkerPlace, RemoveEnd, Free, lifeVars, tableVars,
     queueVars, workerVars, Starting, Handling, Ending
<1>EnableAccept. ASSUME EnableAccept PROVE TypeOK'
  BY <1>EnableAccept DEF EnableAccept, Places, WorkerPlace, lifeVars, tableVars, lockVars, connVars, queueVars,
     workerVars, Handling
<1>ScanTable. ASSUME ScanTable PROVE TypeOK'
  <2>1. close_queue' \in [Workers -> Seq(Conn)]
    <3>1. ASSUME NEW w \in Workers PROVE close_queue[w] \o Scanned(w) \in Seq(Conn)
      BY ScannedFacts, ConcatRange
    <3> QED
      BY <1>ScanTable, <3>1 DEF ScanTable
  <2>2. mpc' = "dash" /\ UNCHANGED <<lifeVars, tableVars, lockVars, connVars, workerVars,
     accept_queue,
                 pipe, accepting, note, mconn, mthread, told>>
    BY <1>ScanTable DEF ScanTable, MainGoto
  <2> QED
    BY <2>1, <2>2 DEF lifeVars, tableVars, lockVars, connVars, workerVars, Ending
<1>SendDash. ASSUME SendDash PROVE TypeOK'
  <2>1. pipe' \in [Workers -> Seq(Byte)]
    BY <1>SendDash, PushType DEF SendDash, Byte
  <2> QED
    BY <1>SendDash, <2>1 DEF SendDash, MainGoto, lifeVars, tableVars, lockVars, connVars,
       workerVars, Ending
<1>Join. ASSUME Join PROVE TypeOK'
  BY <1>Join DEF Join, MainGoto, Places, WorkerPlace, lifeVars, tableVars, lockVars, connVars, queueVars,
     workerVars, Starting, Handling, Ending
<1>StopModule. ASSUME StopModule PROVE TypeOK'
  BY <1>StopModule DEF StopModule, ClearRows, MainGoto, Places, WorkerPlace, tableVars, lockVars, queueVars, workerVars,
     Starting, Handling, Ending
<1>Signal. ASSUME Signal PROVE TypeOK'
  BY <1>Signal DEF Signal, MainGoto, Places, WorkerPlace, lifeVars, tableVars, lockVars, connVars, queueVars,
     workerVars, Starting, Handling, Ending
<1>ClientClose. ASSUME NEW c \in Conn, ClientClose(c) PROVE TypeOK'
  BY <1>ClientClose DEF ClientClose, Places, WorkerPlace, lifeVars, tableVars, lockVars, queueVars, mainVars,
     workerVars, Handling
<1>Accept. ASSUME NEW c \in Conn, Accept(c) PROVE TypeOK'
  BY <1>Accept DEF Accept, MainGoto, Places, WorkerPlace, lifeVars, tableVars, lockVars, queueVars, workerVars,
     Starting, Handling, Ending
<1>ReadPipe. ASSUME NEW w \in Workers, ReadPipe(w) PROVE TypeOK'
  BY <1>ReadPipe DEF ReadPipe, Goto, lifeVars, tableVars, lockVars, connVars, mainVars,
     WorkerPlaces, Having, Using, Left
<1>Register. ASSUME NEW w \in Workers, Register(w) PROVE TypeOK'
  <2>1. /\ Head(accept_queue[w]) \in Conn
        /\ accept_queue' \in [Workers -> Seq(Conn)]
        /\ buffer' \in [Workers -> Seq(Byte)]
    BY <1>Register, PopType DEF Register, NextByte
  <2> QED
    BY <1>Register, <2>1 DEF Register, lifeVars, tableVars, lockVars, mainVars
<1>TakeClose. ASSUME NEW w \in Workers, TakeClose(w) PROVE TypeOK'
  <2>1. /\ Head(close_queue[w]) \in Conn
        /\ close_queue' \in [Workers -> Seq(Conn)]
        /\ buffer' \in [Workers -> Seq(Byte)]
    BY <1>TakeClose, PopType DEF TakeClose, NextByte
  <2> QED
    BY <1>TakeClose, <2>1 DEF TakeClose, Goto, WorkerPlaces, Having, Clean, lifeVars, tableVars,
       lockVars, mainVars
<1>Break. ASSUME NEW w \in Workers, Break(w) PROVE TypeOK'
  <2>1. buffer' \in [Workers -> Seq(Byte)]
    BY <1>Break, PopType DEF Break, NextByte
  <2> QED
    BY <1>Break, <2>1 DEF Break, lifeVars, tableVars, lockVars, connVars, queueVars, mainVars
<1>EndNotify. ASSUME NEW w \in Workers, EndNotify(w) PROVE TypeOK'
  BY <1>EndNotify DEF EndNotify, Goto, lifeVars, tableVars, lockVars, connVars, queueVars,
     mainVars, WorkerPlaces, Having, Using, Left
<1>ReadEof. ASSUME NEW w \in Workers, NEW c \in Conn, ReadEof(w, c) PROVE TypeOK'
  BY <1>ReadEof DEF ReadEof, Goto, Places, WorkerPlace, Clean, lifeVars, tableVars, lockVars, mainVars,
     WorkerPlaces, Having, Using, Left
<1>ThreadInit. ASSUME NEW w \in Workers, ThreadInit(w) PROVE TypeOK'
  BY <1>ThreadInit DEF ThreadInit, tableVars, lockVars, connVars, queueVars, mainVars, workerVars
<1>EnterLoop. ASSUME NEW w \in Workers, EnterLoop(w) PROVE TypeOK'
  BY <1>EnterLoop DEF EnterLoop, Goto, lifeVars, tableVars, lockVars, connVars, queueVars,
     mainVars, WorkerPlaces, Having, Using, Left
<1>Drain. ASSUME NEW w \in Workers, Drain(w) PROVE TypeOK'
  <2> DEFINE c == Head(Waiting(w))
  <2>1. c \in Conn /\ accept_queue' \in [Workers -> Seq(Conn)] /\ close_queue' \in [Workers ->
     Seq(Conn)]
    <3>1. accept_queue[w] \in Seq(Conn) /\ close_queue[w] \in Seq(Conn) /\ Waiting(w) # << >>
      BY <1>Drain DEF Drain
    <3>2. c \in Conn
      BY <3>1, ConcatRange, PopFacts DEF Waiting
    <3>3. CASE accept_queue[w] # << >>
      <4>1. accept_queue' = Pop(accept_queue, w) /\ close_queue' = close_queue
        BY <1>Drain, <3>3 DEF Drain
      <4> QED
        BY <3>2, <3>3, <4>1, PopType
    <3>4. CASE accept_queue[w] = << >>
      <4>1. close_queue[w] # << >>
        BY <3>1, <3>4 DEF Waiting
      <4>2. close_queue' = Pop(close_queue, w) /\ accept_queue' = accept_queue
        BY <1>Drain, <3>4 DEF Drain
      <4> QED
        BY <3>2, <4>1, <4>2, PopType
    <3> QED
      BY <3>3, <3>4
  <2> HIDE DEF c
  <2>2. Clean(w, c) /\ Goto(w, "drain", "hook") /\ UNCHANGED buffer
    BY <1>Drain DEF Drain, c
  <2> QED
    BY <2>1, <2>2 DEF Goto, WorkerPlaces, Having, Clean, lifeVars, tableVars, lockVars, mainVars
<1>LeaveLoop. ASSUME NEW w \in Workers, LeaveLoop(w) PROVE TypeOK'
  BY <1>LeaveLoop DEF LeaveLoop, Goto, lifeVars, tableVars, lockVars, connVars, queueVars,
     mainVars, WorkerPlaces, Having, Using, Left
<1>ThreadDestory. ASSUME NEW w \in Workers, ThreadDestory(w) PROVE TypeOK'
  BY <1>ThreadDestory DEF ThreadDestory, tableVars, lockVars, connVars, queueVars, mainVars,
     workerVars
<1>Exit. ASSUME NEW w \in Workers, Exit(w) PROVE TypeOK'
  BY <1>Exit DEF Exit, Goto, lifeVars, tableVars, lockVars, connVars, queueVars, mainVars,
     WorkerPlaces, Having, Using, Left
<1>CloseHook. ASSUME NEW w \in Workers, CloseHook(w) PROVE TypeOK'
  BY <1>CloseHook DEF CloseHook, Goto, Places, WorkerPlace, lifeVars, tableVars, lockVars, queueVars, mainVars,
     WorkerPlaces, Having, Using, Left
<1>BeginRemove. ASSUME NEW w \in Workers, BeginRemove(w) PROVE TypeOK'
  <2>1. wconn[w] \in Conn
    BY <1>BeginRemove DEF BeginRemove, Goto, Places, WorkerPlace, Having
  <2>2. Table!RemoveConn(wconn[w]) /\ index[wconn[w]] \in Int
    BY <1>BeginRemove, <2>1 DEF BeginRemove, RemoveBegin
  <2>3. /\ iqueue' \in Seq(Int) /\ conn_num' \in Int /\ live' \subseteq Conn
        /\ iconns' \in [0 .. MaxClients -> Conn \cup {NULL}] /\ index' \in [Conn -> Int]
    BY <2>2, <2>1, RemoveType
  <2> QED
    BY <1>BeginRemove, <2>1, <2>3 DEF BeginRemove, Goto, WorkerPlaces, Having, lifeVars, connVars,
       queueVars, mainVars
<1>EndRemove. ASSUME NEW w \in Workers, EndRemove(w) PROVE TypeOK'
  BY <1>EndRemove DEF EndRemove, Goto, Places, WorkerPlace, RemoveEnd, Free, lifeVars, tableVars, queueVars,
     mainVars, WorkerPlaces, Having, Using, Left
<1>TellMain. ASSUME NEW w \in Workers, TellMain(w) PROVE TypeOK'
  BY <1>TellMain DEF TellMain, Goto, Places, WorkerPlace, lifeVars, tableVars, lockVars, connVars, queueVars,
     WorkerPlaces, Having, Using, Left
<1>UnrefConn. ASSUME NEW w \in Workers, UnrefConn(w) PROVE TypeOK'
  <2>1. held[w] \in Conn
    BY <1>UnrefConn DEF UnrefConn, Places, WorkerPlace
  <2>2. ref_count' \in [Conn -> Int] /\ held' \in [Workers -> Conn \cup {NULL}] /\ wpc' \in
     [Workers -> WorkerPlaces]
    BY <1>UnrefConn, <2>1 DEF UnrefConn, WorkerPlaces
  <2> QED
    BY <1>UnrefConn, <2>1, <2>2 DEF UnrefConn, WorkerPlaces, lifeVars, tableVars, lockVars,
       mainVars, queueVars
<1>TestRefable. ASSUME NEW w \in Workers, TestRefable(w) PROVE TypeOK'
  BY <1>TestRefable DEF TestRefable, Goto, Places, WorkerPlace, lifeVars, tableVars, connVars, queueVars,
     mainVars, WorkerPlaces, Having, Using, Left
<1>TestNotRefable. ASSUME NEW w \in Workers, TestNotRefable(w) PROVE TypeOK'
  BY <1>TestNotRefable DEF TestNotRefable, Goto, Places, WorkerPlace, HookPlace, lifeVars, tableVars, lockVars,
     connVars, queueVars, mainVars, WorkerPlaces, Having, Using, Left
<1>QueueClosing. ASSUME NEW w \in Workers, QueueClosing(w) PROVE TypeOK'
  <2>1. close_queue' \in [Workers -> Seq(Conn)]
    <3>1. wconn[w] \in Conn
      BY <1>QueueClosing DEF QueueClosing, Goto, Places, WorkerPlace, Having
    <3> QED
      BY <1>QueueClosing, <3>1, PushType DEF QueueClosing
  <2> QED
    BY <1>QueueClosing, <2>1 DEF QueueClosing, Goto, WorkerPlaces, Having, lifeVars, tableVars,
       mainVars
<1>NotifyClosing. ASSUME NEW w \in Workers, NotifyClosing(w) PROVE TypeOK'
  <2>1. pipe' \in [Workers -> Seq(Byte)]
    BY <1>NotifyClosing, PushType DEF NotifyClosing, Byte
  <2> QED
    BY <1>NotifyClosing, <2>1 DEF NotifyClosing, Goto, HookPlace, WorkerPlaces, Using, lifeVars,
       tableVars, lockVars, connVars, mainVars
<1>IndexConn. ASSUME NEW w \in Workers, NEW i \in 1 .. MaxClients, IndexConn(w, i) PROVE TypeOK'
  BY <1>IndexConn DEF IndexConn, Goto, Places, WorkerPlace, lifeVars, tableVars, lockVars, queueVars, mainVars,
     WorkerPlaces, Having, Using, Left
<1>CloseOwn. ASSUME NEW w \in Workers, NEW c \in Conn, CloseOwn(w, c) PROVE TypeOK'
  BY <1>CloseOwn DEF CloseOwn, Goto, lifeVars, tableVars, lockVars, connVars, queueVars, mainVars,
     WorkerPlaces, Having, Using, Left
<1>CloseOther. ASSUME NEW w \in Workers, CloseOther(w) PROVE TypeOK'
  BY <1>CloseOther DEF CloseOther, Goto, Places, WorkerPlace, lifeVars, tableVars, lockVars, connVars,
     queueVars, mainVars, WorkerPlaces, Having, Using, Left
<1>Stutter. ASSUME UNCHANGED vars PROVE TypeOK'
  BY <1>Stutter DEF vars, lifeVars, tableVars, lockVars, connVars, queueVars, mainVars, workerVars
<1> QED
  BY <1>StartModule, <1>CreateWorkers, <1>Barrier, <1>CheckRoom, <1>Deny, <1>Insert, <1>Assign,
     <1>AcceptHook, <1>QueueAccepted, <1>NotifyAccepted, <1>RejectBegin, <1>RejectEnd,
     <1>EnableAccept, <1>ScanTable, <1>SendDash, <1>Join, <1>StopModule, <1>Signal,
     <1>ClientClose, <1>Accept, <1>ReadPipe, <1>Register, <1>TakeClose, <1>Break, <1>EndNotify,
     <1>ReadEof, <1>ThreadInit, <1>EnterLoop, <1>Drain, <1>LeaveLoop, <1>ThreadDestory, <1>Exit,
     <1>CloseHook, <1>BeginRemove, <1>EndRemove, <1>TellMain, <1>UnrefConn, <1>TestRefable,
     <1>TestNotRefable, <1>QueueClosing, <1>NotifyClosing, <1>IndexConn, <1>CloseOwn,
     <1>CloseOther, <1>Stutter
     DEF Next, MainStep, Serve, FinishHook, UseApi, Ended

\* The drain takes the first connection that waits, from the queue it is in.
LEMMA DrainFacts ==
  ASSUME accept_queue \in [Workers -> Seq(Conn)], close_queue \in [Workers -> Seq(Conn)],
         NEW w \in Workers, Waiting(w) # << >>
  PROVE  /\ Head(Waiting(w)) \in Conn
         /\ accept_queue[w] # << >> => Head(Waiting(w)) = Head(accept_queue[w])
         /\ accept_queue[w] = << >> => close_queue[w] # << >> /\ Head(Waiting(w)) =
            Head(close_queue[w])
<1> DEFINE a == accept_queue[w]
           d == close_queue[w]
<1>1. a \in Seq(Conn) /\ d \in Seq(Conn) /\ a \o d # << >> /\ Waiting(w) = a \o d
  BY DEF Waiting
<1> HIDE DEF a, d
<1>2. CASE a # << >>
  <2>1. a \o d \in Seq(Conn) /\ Len(a) \in Nat \ {0} /\ Head(a) = a[1] /\ Head(a) \in Conn
    BY <1>1, <1>2, ConcatProperties, LenProperties, EmptySeq, HeadTailProperties
  <2>2. (a \o d)[1] = a[1] /\ Head(a \o d) = (a \o d)[1]
    BY <1>1, <1>2, <2>1, ConcatProperties, HeadTailProperties
  <2> QED
    BY <1>1, <1>2, <2>1, <2>2 DEF a, d
<1>3. CASE a = << >>
  <2>1. a \o d = d
    BY <1>1, <1>3
  <2>2. Head(d) \in Conn
    BY <1>1, <2>1, PopFacts
  <2> QED
    BY <1>1, <1>3, <2>1, <2>2 DEF a, d
<1> QED
  BY <1>2, <1>3

\* The main thread counts the workers in their loops.
LEMMA AllRunning ==
  /\ nthreads \in Nat
  /\ nthreads >= NWorkers => \A w \in Workers : phase[w] \in {"run", "break", "drain"}
  /\ nthreads = 0 => \A w \in Workers : phase[w] \notin {"run", "break", "drain"}
<1> DEFINE T == {w \in Workers : phase[w] \in {"run", "break", "drain"}}
<1>1. IsFiniteSet(Workers) /\ Cardinality(Workers) = NWorkers
  <2>1. 0 \in Int /\ NWorkers - 1 \in Int /\ 0 <= NWorkers - 1 /\ (NWorkers - 1) - 0 + 1 = NWorkers
    BY ServerAssumption
  <2> QED
    BY <2>1, FS_Interval DEF Workers
<1>2. IsFiniteSet(T) /\ Cardinality(T) \in Nat /\ (Cardinality(T) >= NWorkers => T = Workers)
  <2>1. T \in SUBSET Workers
    OBVIOUS
  <2> HIDE DEF T
  <2>2. IsFiniteSet(T) /\ Cardinality(T) \in Nat
    BY <1>1, <2>1, FS_Subset, FS_CardinalityType
  <2>3. Cardinality(T) <= NWorkers /\ (Cardinality(T) = NWorkers => T = Workers)
    BY <1>1, <2>1, FS_Subset
  <2>4. NWorkers \in Nat
    BY ServerAssumption
  <2> QED
    BY <2>2, <2>3, <2>4
<1>3. Cardinality(T) = 0 => T = {}
  <2> HIDE DEF T
  <2> QED
    BY <1>2, FS_EmptySet
<1> QED
  BY <1>2, <1>3 DEF nthreads

LEMMA PlacesIs == Places <=> (mpc \in Handling <=> mconn # NULL) /\ \A w \in Workers : WorkerPlace(w)
BY Zenon DEF Places

LEMMA PlacesIsNext ==
  Places' <=> (mpc' \in Handling <=> mconn' # NULL) /\ \A w \in Workers : WorkerPlace(w)'
<1>1. (Places <=> (mpc \in Handling <=> mconn # NULL) /\ \A w \in Workers : WorkerPlace(w))'
  BY PlacesIs, PTL
<1> QED
  BY <1>1

\* One worker moves, and main and the others stay.
LEMMA WorkerMoves ==
  ASSUME Places, NEW u \in Workers, WorkerPlace(u)', UNCHANGED <<mpc, mconn>>,
         \A w \in Workers \ {u} : /\ wpc'[w] = wpc[w] /\ wconn'[w] = wconn[w] /\ phase'[w] = phase[w]
                                  /\ held'[w] = held[w] /\ buffer'[w] = buffer[w]
  PROVE  Places'
<1>1. \A w \in Workers : WorkerPlace(w)
  BY DEF Places, WorkerPlace
<1>2. ASSUME NEW w \in Workers PROVE WorkerPlace(w)'
  <2>1. CASE w = u
    BY <2>1
  <2>2. CASE w # u
    <3>1. /\ wpc'[w] = wpc[w] /\ wconn'[w] = wconn[w] /\ held'[w] = held[w] /\ buffer'[w] = buffer[w]
          /\ phase'[w] = phase[w] /\ mpc' = mpc /\ WorkerPlace(w)
      BY <1>1, <2>2
    <3> QED
      BY <3>1 DEF WorkerPlace
  <2> QED
    BY <2>1, <2>2
<1>3. mpc' \in Handling <=> mconn' # NULL
  BY DEF Places, WorkerPlace
<1> QED
  BY <1>2, <1>3, PlacesIsNext, Zenon

\* A worker that was in its event loop, reading its pipe or draining its
\* queues takes a connection to close.
LEMMA WorkerCloses ==
  ASSUME TypeOK, Places, NEW u \in Workers, NEW p \in {"loop", "notify", "drain"}, NEW c, c # NULL,
         Goto(u, p, "hook"), wconn' = [wconn EXCEPT ![u] = c],
         buffer' = buffer \/ (p = "notify" /\ buffer' = Pop(buffer, u)),
         UNCHANGED <<mpc, mconn, held, phase>>
  PROVE  Places'
<1>1. /\ wpc \in [Workers -> WorkerPlaces] /\ wconn \in [Workers -> Conn \cup {NULL}]
      /\ buffer \in [Workers -> Seq(Byte)]
  BY DEF TypeOK
<1>2. wpc[u] = p /\ wpc'[u] = "hook" /\ wconn'[u] = c
  BY <1>1 DEF Goto
<1>3. \A w \in Workers \ {u} : wpc'[w] = wpc[w] /\ wconn'[w] = wconn[w] /\ held'[w] = held[w] /\ buffer'[w] = buffer[w]
  BY <1>1 DEF Goto, Pop
<1>4. WorkerPlace(u)
  BY DEF Places, WorkerPlace
<1>5. /\ phase[u] \in {"run", "break", "drain"}
      /\ phase[u] = "drain" => buffer'[u] = << >>
  <2>1. p = "notify" => phase[u] \in {"run", "break"}
    BY <1>2, <1>4 DEF WorkerPlace
  <2>2. p = "loop" => phase[u] = "run"
    BY <1>2, <1>4 DEF WorkerPlace
  <2>3. p = "drain" => phase[u] = "drain" /\ buffer[u] = << >>
    BY <1>2, <1>4 DEF WorkerPlace
  <2> QED
    BY <2>1, <2>2, <2>3
<1>6. held[u] = NULL /\ mpc \notin {"start", "create"}
  BY <1>2, <1>4, <1>5 DEF WorkerPlace, Using
<1>7. /\ wpc'[u] = "hook" /\ wconn'[u] # NULL /\ held'[u] = NULL /\ mpc' \notin {"start", "create"}
      /\ phase'[u] \in {"run", "break", "drain"}
      /\ phase'[u] = "drain" => buffer'[u] = << >>
  BY <1>2, <1>5, <1>6
<1>8. WorkerPlace(u)'
  <2>1. "hook" \in Having /\ "hook" \notin Using
    BY DEF Having, Using
  <2>2. CASE phase'[u] = "drain"
    <3>1. /\ wpc'[u] = "hook" /\ wconn'[u] # NULL /\ held'[u] = NULL /\ mpc' \notin {"start", "create"}
          /\ phase'[u] = "drain" /\ buffer'[u] = << >>
      BY <1>7, <2>2
    <3> QED
      <4>1. /\ wpc'[u] \in Having <=> wconn'[u] # NULL
            /\ wpc'[u] \in {"using", "leaving"} => held'[u] # NULL
            /\ wpc'[u] \notin Using => held'[u] = NULL
            /\ wpc'[u] \notin {"notify", "hook", "remove", "free", "tell"} => buffer'[u] = << >>
        BY <2>1, <3>1
      <4>2. /\ wpc'[u] = "none" <=> phase'[u] = "none"
            /\ wpc'[u] = "init" <=> phase'[u] = "init"
            /\ wpc'[u] = "exited" <=> phase'[u] = "exited"
        BY <3>1
      <4>3. /\ wpc'[u] \in {"drain", "destory"} => phase'[u] = "drain"
            /\ wpc'[u] \in {"loop"} \cup Using => phase'[u] = "run"
            /\ wpc'[u] \in {"notify", "tell"} => phase'[u] \in {"run", "break"}
        BY <2>1, <3>1
      <4>4. /\ phase'[u] = "drain" => buffer'[u] = << >>
            /\ phase'[u] # "none" => mpc' \notin {"start", "create"}
            /\ wpc'[u] \in {"none", "init"} => mpc' \in Starting
        BY <3>1
      <4> QED
        BY <4>1, <4>2, <4>3, <4>4, Zenon DEF WorkerPlace
  <2>3. CASE phase'[u] \in {"run", "break"}
    BY <1>7, <2>1, <2>3 DEF WorkerPlace
  <2> QED
    BY <1>7, <2>2, <2>3
<1> QED
  BY <1>3, <1>8, WorkerMoves

\* A hook is done with the connection that it closed.
LEMMA HookReturns ==
  ASSUME TypeOK, Places, NEW u \in Workers, NEW p \in {"closing", "writing"},
         Goto(u, p, HookPlace(u)), wconn' = [wconn EXCEPT ![u] = NULL],
         UNCHANGED <<mpc, mconn, held, buffer, phase>>
  PROVE  Places'
<1>1. wpc \in [Workers -> WorkerPlaces] /\ wconn \in [Workers -> Conn \cup {NULL}]
  BY DEF TypeOK
<1>2. wpc[u] = p /\ wpc'[u] = (IF held[u] = NULL THEN "loop" ELSE "leaving") /\ wconn'[u] = NULL
  BY <1>1 DEF Goto, HookPlace
<1>3. \A w \in Workers \ {u} : wpc'[w] = wpc[w] /\ wconn'[w] = wconn[w]
  BY <1>1 DEF Goto
<1>4. WorkerPlace(u)
  BY DEF Places, WorkerPlace
<1>5. phase[u] = "run" /\ buffer[u] = << >> /\ mpc \notin {"start", "create"}
  BY <1>2, <1>4 DEF WorkerPlace, Using
<1>6. WorkerPlace(u)'
  BY <1>2, <1>5 DEF WorkerPlace, Having, Using
<1> QED
  BY <1>3, <1>6, WorkerMoves

\* Every step leaves threads at places where they have what they need.
LEMMA PlacesStep == TypeOK /\ Places /\ [Next]_vars => Places'
<1> SUFFICES ASSUME TypeOK, Places, [Next]_vars PROVE Places'
  OBVIOUS
<1> USE DEF TypeOK
<1>StartModule. ASSUME StartModule PROVE Places'
  BY <1>StartModule DEF StartModule, MainGoto, Goto, Onward, StartHook, ClearRows, tableVars,
     lockVars, queueVars, workerVars, Places, WorkerPlace, WorkerPlaces, Having, Using, Left, Starting,
     Handling, Ending
<1>CreateWorkers. ASSUME CreateWorkers PROVE Places'
  BY <1>CreateWorkers DEF CreateWorkers, MainGoto, Goto, lifeVars, tableVars, lockVars, connVars,
     queueVars, Places, WorkerPlace, WorkerPlaces, Having, Using, Left, Starting, Handling, Ending
<1>Barrier. ASSUME Barrier PROVE Places'
  BY <1>Barrier, AllRunning DEF Barrier, MainGoto, Goto, lifeVars, tableVars, lockVars, connVars,
     queueVars, workerVars, Places, WorkerPlace, WorkerPlaces, Having, Using, Left, Starting, Handling, Ending
<1>CheckRoom. ASSUME CheckRoom PROVE Places'
  BY <1>CheckRoom DEF CheckRoom, MainGoto, Goto, lifeVars, tableVars, lockVars, connVars,
     queueVars, workerVars, Places, WorkerPlace, WorkerPlaces, Having, Using, Left, Starting, Handling, Ending
<1>Deny. ASSUME Deny PROVE Places'
  BY <1>Deny DEF Deny, MainGoto, Goto, Free, lifeVars, tableVars, lockVars, queueVars, workerVars,
     Places, WorkerPlace, WorkerPlaces, Having, Using, Left, Starting, Handling, Ending
<1>Insert. ASSUME Insert PROVE Places'
  BY <1>Insert DEF Insert, MainGoto, Goto, lifeVars, lockVars, queueVars, workerVars, Places, WorkerPlace,
     WorkerPlaces, Having, Using, Left, Starting, Handling, Ending
<1>Assign. ASSUME Assign PROVE Places'
  BY <1>Assign DEF Assign, MainGoto, Goto, WorkerOf, lifeVars, tableVars, lockVars, queueVars,
     workerVars, Places, WorkerPlace, WorkerPlaces, Having, Using, Left, Starting, Handling, Ending
<1>AcceptHook. ASSUME NEW result \in scene.accepts, AcceptHook(result) PROVE Places'
  BY <1>AcceptHook DEF AcceptHook, MainGoto, Goto, lifeVars, tableVars, lockVars, queueVars,
     workerVars, Places, WorkerPlace, WorkerPlaces, Having, Using, Left, Starting, Handling, Ending
<1>QueueAccepted. ASSUME QueueAccepted PROVE Places'
  BY <1>QueueAccepted DEF QueueAccepted, MainGoto, Goto, Push, Pop, lifeVars, tableVars, lockVars,
     connVars, workerVars, Places, WorkerPlace, WorkerPlaces, Having, Using, Left, Starting, Handling, Ending
<1>NotifyAccepted. ASSUME NotifyAccepted PROVE Places'
  BY <1>NotifyAccepted DEF NotifyAccepted, MainGoto, Goto, Push, Pop, lifeVars, tableVars,
     lockVars, connVars, workerVars, Places, WorkerPlace, WorkerPlaces, Having, Using, Left, Starting,
     Handling, Ending
<1>RejectBegin. ASSUME RejectBegin PROVE Places'
  BY <1>RejectBegin DEF RejectBegin, MainGoto, Goto, RemoveBegin, lifeVars, connVars, queueVars,
     workerVars, Places, WorkerPlace, WorkerPlaces, Having, Using, Left, Starting, Handling, Ending
<1>RejectEnd. ASSUME RejectEnd PROVE Places'
  BY <1>RejectEnd DEF RejectEnd, MainGoto, Goto, Free, RemoveEnd, lifeVars, tableVars, queueVars,
     workerVars, Places, WorkerPlace, WorkerPlaces, Having, Using, Left, Starting, Handling, Ending
<1>EnableAccept. ASSUME EnableAccept PROVE Places'
  BY <1>EnableAccept DEF EnableAccept, lifeVars, tableVars, lockVars, connVars, queueVars,
     workerVars, Places, WorkerPlace, WorkerPlaces, Having, Using, Left, Starting, Handling, Ending
<1>ScanTable. ASSUME ScanTable PROVE Places'
  BY <1>ScanTable DEF ScanTable, MainGoto, Goto, lifeVars, tableVars, lockVars, connVars,
     workerVars, Places, WorkerPlace, WorkerPlaces, Having, Using, Left, Starting, Handling, Ending
<1>SendDash. ASSUME SendDash PROVE Places'
  BY <1>SendDash DEF SendDash, MainGoto, Goto, Push, Pop, lifeVars, tableVars, lockVars, connVars,
     workerVars, Places, WorkerPlace, WorkerPlaces, Having, Using, Left, Starting, Handling, Ending
<1>Join. ASSUME Join PROVE Places'
  BY <1>Join DEF Join, MainGoto, Goto, nthreads, lifeVars, tableVars, lockVars, connVars,
     queueVars, workerVars, Places, WorkerPlace, WorkerPlaces, Having, Using, Left, Starting, Handling, Ending
<1>StopModule. ASSUME StopModule PROVE Places'
  BY <1>StopModule DEF StopModule, MainGoto, Goto, ClearRows, tableVars, lockVars, queueVars,
     workerVars, Places, WorkerPlace, WorkerPlaces, Having, Using, Left, Starting, Handling, Ending
<1>Signal. ASSUME Signal PROVE Places'
  BY <1>Signal DEF Signal, MainGoto, Goto, lifeVars, tableVars, lockVars, connVars, queueVars,
     workerVars, Places, WorkerPlace, WorkerPlaces, Having, Using, Left, Starting, Handling, Ending
<1>ClientClose. ASSUME NEW c \in Conn, ClientClose(c) PROVE Places'
  BY <1>ClientClose DEF ClientClose, lifeVars, tableVars, lockVars, queueVars, mainVars,
     workerVars, Places, WorkerPlace, WorkerPlaces, Having, Using, Left, Starting, Handling, Ending
<1>Accept. ASSUME NEW c \in Conn, Accept(c) PROVE Places'
  BY <1>Accept, ServerAssumption DEF Accept, MainGoto, Goto, lifeVars, tableVars, lockVars,
     queueVars, workerVars, Places, WorkerPlace, WorkerPlaces, Having, Using, Left, Starting, Handling, Ending
<1>ReadPipe. ASSUME NEW w \in Workers, ReadPipe(w) PROVE Places'
  BY <1>ReadPipe DEF ReadPipe, Goto, lifeVars, tableVars, lockVars, connVars, mainVars, Places, WorkerPlace,
     WorkerPlaces, Having, Using, Left, Starting, Handling, Ending
<1>Register. ASSUME NEW w \in Workers, Register(w) PROVE Places'
  <2>1. /\ wpc[w] = "notify" /\ buffer' = Pop(buffer, w)
        /\ UNCHANGED <<mpc, mconn, wpc, wconn, held, phase>>
    BY <1>Register DEF Register, NextByte, mainVars
  <2>2. \A u \in Workers \ {w} : buffer'[u] = buffer[u]
    BY <2>1 DEF Pop
  <2> HIDE DEF TypeOK
  <2>3. WorkerPlace(w)
    BY PlacesIs
  <2>4. WorkerPlace(w)'
    BY <2>1, <2>3 DEF WorkerPlace
  <2> QED
    BY <2>1, <2>2, <2>4, WorkerMoves
<1>TakeClose. ASSUME NEW w \in Workers, TakeClose(w) PROVE Places'
  <2>1. Head(close_queue[w]) # NULL
    BY <1>TakeClose, PopType, ServerAssumption DEF TakeClose
  <2>2. /\ Goto(w, "notify", "hook") /\ wconn' = [wconn EXCEPT ![w] = Head(close_queue[w])]
        /\ buffer' = Pop(buffer, w) /\ UNCHANGED <<mpc, mconn, held, phase>>
    BY <1>TakeClose DEF TakeClose, Clean, mainVars
  <2> QED
    BY <2>1, <2>2, WorkerCloses
<1>Break. ASSUME NEW w \in Workers, Break(w) PROVE Places'
  BY <1>Break DEF Break, NextByte, Pop, lifeVars, tableVars, lockVars, connVars, queueVars,
     mainVars, Places, WorkerPlace, WorkerPlaces, Having, Using, Left, Starting, Handling, Ending
<1>EndNotify. ASSUME NEW w \in Workers, EndNotify(w) PROVE Places'
  BY <1>EndNotify DEF EndNotify, Goto, lifeVars, tableVars, lockVars, connVars, queueVars,
     mainVars, Places, WorkerPlace, WorkerPlaces, Having, Using, Left, Starting, Handling, Ending
<1>ReadEof. ASSUME NEW w \in Workers, NEW c \in Conn, ReadEof(w, c) PROVE Places'
  <2>1. /\ Goto(w, "loop", "hook") /\ wconn' = [wconn EXCEPT ![w] = c]
        /\ buffer' = buffer /\ UNCHANGED <<mpc, mconn, held, phase>>
    BY <1>ReadEof DEF ReadEof, Clean, mainVars
  <2>2. c # NULL
    BY ServerAssumption
  <2> QED
    BY <2>1, <2>2, WorkerCloses
<1>ThreadInit. ASSUME NEW w \in Workers, ThreadInit(w) PROVE Places'
  <2>1. UNCHANGED <<mpc, mconn, wpc, wconn, held, buffer, phase>>
    BY <1>ThreadInit DEF ThreadInit, mainVars, workerVars
  <2> HIDE DEF TypeOK
  <2> QED
    BY <2>1 DEF Places, WorkerPlace
<1>EnterLoop. ASSUME NEW w \in Workers, EnterLoop(w) PROVE Places'
  <2>1. /\ wpc[w] = "init" /\ wpc' = [wpc EXCEPT ![w] = "loop"]
        /\ phase' = [phase EXCEPT ![w] = "run"] /\ UNCHANGED <<mpc, mconn, wconn, held, buffer>>
    BY <1>EnterLoop DEF EnterLoop, Goto, mainVars
  <2>2. wpc'[w] = "loop" /\ phase'[w] = "run"
    BY <2>1
  <2>3. \A u \in Workers \ {w} : wpc'[u] = wpc[u] /\ phase'[u] = phase[u]
    BY <2>1
  <2> HIDE DEF TypeOK
  <2>4. WorkerPlace(w)
    BY PlacesIs
  <2>5. held[w] = NULL /\ wconn[w] = NULL /\ buffer[w] = << >> /\ mpc \notin {"start", "create"}
    BY <2>1, <2>4 DEF WorkerPlace, Having, Using
  <2>6. WorkerPlace(w)'
    BY <2>1, <2>2, <2>5 DEF WorkerPlace, Having, Using
  <2> QED
    BY <2>1, <2>3, <2>6, WorkerMoves
<1>Drain. ASSUME NEW w \in Workers, Drain(w) PROVE Places'
  <2> DEFINE c == Head(Waiting(w))
  <2>1. c # NULL
    BY <1>Drain, DrainFacts, ServerAssumption DEF Drain
  <2>2. /\ Goto(w, "drain", "hook") /\ wconn' = [wconn EXCEPT ![w] = c]
        /\ buffer' = buffer /\ UNCHANGED <<mpc, mconn, held, phase>>
    BY <1>Drain DEF Drain, Clean, mainVars
  <2> HIDE DEF c
  <2> QED
    BY <2>1, <2>2, WorkerCloses
<1>LeaveLoop. ASSUME NEW w \in Workers, LeaveLoop(w) PROVE Places'
  BY <1>LeaveLoop DEF LeaveLoop, Goto, Waiting, lifeVars, tableVars, lockVars, connVars,
     queueVars, mainVars, Places, WorkerPlace, WorkerPlaces, Having, Using, Left, Starting, Handling, Ending
<1>ThreadDestory. ASSUME NEW w \in Workers, ThreadDestory(w) PROVE Places'
  BY <1>ThreadDestory DEF ThreadDestory, tableVars, lockVars, connVars, queueVars, mainVars,
     workerVars, Places, WorkerPlace, WorkerPlaces, Having, Using, Left, Starting, Handling, Ending
<1>Exit. ASSUME NEW w \in Workers, Exit(w) PROVE Places'
  <2>1. /\ wpc[w] = "destory" /\ wpc' = [wpc EXCEPT ![w] = "exited"]
        /\ phase' = [phase EXCEPT ![w] = "exited"] /\ UNCHANGED <<mpc, mconn, wconn, held, buffer>>
    BY <1>Exit DEF Exit, Goto, mainVars
  <2>2. wpc'[w] = "exited" /\ phase'[w] = "exited"
    BY <2>1
  <2>3. \A u \in Workers \ {w} : wpc'[u] = wpc[u] /\ phase'[u] = phase[u]
    BY <2>1
  <2> HIDE DEF TypeOK
  <2>4. WorkerPlace(w)
    BY DEF Places, WorkerPlace
  <2>5. held[w] = NULL /\ wconn[w] = NULL /\ buffer[w] = << >> /\ mpc \notin {"start", "create"}
    BY <2>1, <2>4 DEF WorkerPlace, Having, Using
  <2>6. WorkerPlace(w)'
    BY <2>1, <2>2, <2>5 DEF WorkerPlace, Having, Using
  <2> QED
    BY <2>1, <2>3, <2>6, WorkerMoves
<1>CloseHook. ASSUME NEW w \in Workers, CloseHook(w) PROVE Places'
  BY <1>CloseHook DEF CloseHook, Goto, lifeVars, tableVars, lockVars, queueVars, mainVars, Places, WorkerPlace,
     WorkerPlaces, Having, Using, Left, Starting, Handling, Ending
<1>BeginRemove. ASSUME NEW w \in Workers, BeginRemove(w) PROVE Places'
  BY <1>BeginRemove DEF BeginRemove, Goto, RemoveBegin, lifeVars, connVars, queueVars, mainVars,
     Places, WorkerPlace, WorkerPlaces, Having, Using, Left, Starting, Handling, Ending
<1>EndRemove. ASSUME NEW w \in Workers, EndRemove(w) PROVE Places'
  BY <1>EndRemove DEF EndRemove, Goto, Free, RemoveEnd, lifeVars, tableVars, queueVars, mainVars,
     Places, WorkerPlace, WorkerPlaces, Having, Using, Left, Starting, Handling, Ending
<1>TellMain. ASSUME NEW w \in Workers, TellMain(w) PROVE Places'
  BY <1>TellMain DEF TellMain, Goto, lifeVars, tableVars, lockVars, connVars, queueVars, Places, WorkerPlace,
     WorkerPlaces, Having, Using, Left, Starting, Handling, Ending
<1>UnrefConn. ASSUME NEW w \in Workers, UnrefConn(w) PROVE Places'
  BY <1>UnrefConn DEF UnrefConn, lifeVars, tableVars, lockVars, queueVars, mainVars, Places, WorkerPlace,
     WorkerPlaces, Having, Using, Left, Starting, Handling, Ending
<1>TestRefable. ASSUME NEW w \in Workers, TestRefable(w) PROVE Places'
  BY <1>TestRefable DEF TestRefable, Goto, lifeVars, tableVars, connVars, queueVars, mainVars,
     Places, WorkerPlace, WorkerPlaces, Having, Using, Left, Starting, Handling, Ending
<1>TestNotRefable. ASSUME NEW w \in Workers, TestNotRefable(w) PROVE Places'
  <2>1. /\ Goto(w, "closing", HookPlace(w)) /\ wconn' = [wconn EXCEPT ![w] = NULL]
        /\ UNCHANGED <<mpc, mconn, held, buffer, phase>>
    BY <1>TestNotRefable DEF TestNotRefable, mainVars
  <2> QED
    BY <2>1, HookReturns
<1>QueueClosing. ASSUME NEW w \in Workers, QueueClosing(w) PROVE Places'
  <2>1. /\ wpc[w] = "queueing" /\ wpc' = [wpc EXCEPT ![w] = "writing"]
        /\ UNCHANGED <<mpc, mconn, wconn, held, buffer, phase>>
    BY <1>QueueClosing DEF QueueClosing, Goto, mainVars
  <2>2. wpc'[w] = "writing"
    BY <2>1
  <2>3. \A u \in Workers \ {w} : wpc'[u] = wpc[u]
    BY <2>1
  <2> HIDE DEF TypeOK
  <2>4. WorkerPlace(w)
    BY PlacesIs
  <2>5. wconn[w] # NULL /\ buffer[w] = << >> /\ phase[w] = "run" /\ mpc \notin {"start", "create"}
    BY <2>1, <2>4 DEF WorkerPlace, Having, Using
  <2>6. WorkerPlace(w)'
    BY <2>1, <2>2, <2>5 DEF WorkerPlace, Having, Using
  <2> QED
    BY <2>1, <2>3, <2>6, WorkerMoves
<1>NotifyClosing. ASSUME NEW w \in Workers, NotifyClosing(w) PROVE Places'
  <2>1. /\ Goto(w, "writing", HookPlace(w)) /\ wconn' = [wconn EXCEPT ![w] = NULL]
        /\ UNCHANGED <<mpc, mconn, held, buffer, phase>>
    BY <1>NotifyClosing DEF NotifyClosing, mainVars
  <2> QED
    BY <2>1, HookReturns
<1>IndexConn. ASSUME NEW w \in Workers, NEW i \in 1 .. MaxClients, IndexConn(w, i) PROVE Places'
  BY <1>IndexConn DEF IndexConn, Goto, Hooked, lifeVars, tableVars, lockVars, queueVars, mainVars,
     Places, WorkerPlace, WorkerPlaces, Having, Using, Left, Starting, Handling, Ending
<1>CloseOwn. ASSUME NEW w \in Workers, NEW c \in Conn, CloseOwn(w, c) PROVE Places'
  BY <1>CloseOwn, ServerAssumption DEF CloseOwn, Goto, Hooked, lifeVars, tableVars, lockVars,
     connVars, queueVars, mainVars, Places, WorkerPlace, WorkerPlaces, Having, Using, Left, Starting, Handling,
     Ending
<1>CloseOther. ASSUME NEW w \in Workers, CloseOther(w) PROVE Places'
  BY <1>CloseOther DEF CloseOther, Goto, lifeVars, tableVars, lockVars, connVars, queueVars,
     mainVars, Places, WorkerPlace, WorkerPlaces, Having, Using, Left, Starting, Handling, Ending
<1>Stutter. ASSUME UNCHANGED vars PROVE Places'
  BY <1>Stutter DEF vars, lifeVars, tableVars, lockVars, connVars, queueVars, mainVars,
     workerVars, Places, WorkerPlace
<1> QED
  BY <1>StartModule, <1>CreateWorkers, <1>Barrier, <1>CheckRoom, <1>Deny, <1>Insert, <1>Assign,
     <1>AcceptHook, <1>QueueAccepted, <1>NotifyAccepted, <1>RejectBegin, <1>RejectEnd,
     <1>EnableAccept, <1>ScanTable, <1>SendDash, <1>Join, <1>StopModule, <1>Signal,
     <1>ClientClose, <1>Accept, <1>ReadPipe, <1>Register, <1>TakeClose, <1>Break, <1>EndNotify,
     <1>ReadEof, <1>ThreadInit, <1>EnterLoop, <1>Drain, <1>LeaveLoop, <1>ThreadDestory, <1>Exit,
     <1>CloseHook, <1>BeginRemove, <1>EndRemove, <1>TellMain, <1>UnrefConn, <1>TestRefable,
     <1>TestNotRefable, <1>QueueClosing, <1>NotifyClosing, <1>IndexConn, <1>CloseOwn,
     <1>CloseOther, <1>Stutter
     DEF Next, MainStep, Serve, FinishHook, UseApi, Ended

-----------------------------------------------------------------------------
(***************************************************************************)
(* What holds whatever clients and modules do: the types, the places, the  *)
(* order in which workers are told to leave, and the listen event.         *)
(***************************************************************************)
\* The first state.
LEMMA InitTypes == Init => TypeOK /\ Places /\ ToldInTime /\ Enabled
<1> SUFFICES ASSUME Init PROVE TypeOK /\ Places /\ ToldInTime /\ Enabled
  OBVIOUS
<1> USE DEF Init
<1>1. TypeOK
  <2>1. /\ conn_num \in Int /\ iqueue \in Seq(Int) /\ index \in [Conn -> Int] /\ live \subseteq Conn
        /\ iconns \in [0 .. MaxClients -> Conn \cup {NULL}]
    BY DEF Table!Init, Table!Slots
  <2>2. /\ alloc \subseteq Conn /\ refable \subseteq Conn /\ watched \subseteq Conn /\ eof \subseteq Conn
        /\ thread \in [Conn -> Workers \cup {NULL}] /\ ref_count \in [Conn -> Int]
        /\ row \in [0 .. MaxClients -> SUBSET (Conn \cup {"stale"})]
    OBVIOUS
  <2>3. /\ accept_queue \in [Workers -> Seq(Conn)] /\ close_queue \in [Workers -> Seq(Conn)]
        /\ pipe \in [Workers -> Seq(Byte)] /\ buffer \in [Workers -> Seq(Byte)]
    OBVIOUS
  <2> QED
    BY <2>1, <2>2, <2>3 DEF TypeOK, Starting, WorkerPlaces
<1>2. Places /\ Enabled
  BY DEF Places, WorkerPlace, Enabled, Starting, Handling, Having, Using, Left
<1>3. ToldInTime
  BY DEF ToldInTime, Range
<1> QED
  BY <1>1, <1>2, <1>3

\* Steps of the main thread.
LEMMA MainMoves ==
  [Next]_vars =>
    \/ UNCHANGED <<mpc, accepting, mconn, mthread>>
    \/ StartModule \/ CreateWorkers \/ Barrier \/ CheckRoom \/ Deny \/ Insert \/ Assign \/ QueueAccepted \/ NotifyAccepted \/ RejectBegin \/ RejectEnd \/ EnableAccept \/ ScanTable \/ SendDash \/ Join \/ StopModule \/ Signal
    \/ \E result \in scene.accepts : AcceptHook(result)
    \/ \E c \in Conn : Accept(c)
<1> DEFINE Goal ==
    \/ UNCHANGED <<mpc, accepting, mconn, mthread>>
    \/ StartModule \/ CreateWorkers \/ Barrier \/ CheckRoom \/ Deny \/ Insert \/ Assign \/ QueueAccepted \/ NotifyAccepted \/ RejectBegin \/ RejectEnd \/ EnableAccept \/ ScanTable \/ SendDash \/ Join \/ StopModule \/ Signal
    \/ \E result \in scene.accepts : AcceptHook(result)
    \/ \E c \in Conn : Accept(c)
<1> SUFFICES ASSUME [Next]_vars PROVE Goal
  OBVIOUS
<1>1. ASSUME MainStep PROVE Goal
  BY <1>1 DEF MainStep, Goto, RemoveBegin, Free, RemoveEnd, lifeVars, tableVars, lockVars,
     connVars, queueVars, mainVars, workerVars
<1>2. ASSUME NEW w \in Workers, Serve(w) PROVE Goal
  BY <1>2 DEF Serve, ReadPipe, Register, TakeClose, Break, EndNotify, ReadEof, ThreadInit,
     EnterLoop, Drain, LeaveLoop, ThreadDestory, Exit, CloseHook, BeginRemove, EndRemove,
     TellMain, Goto, Clean, RemoveBegin, Free, RemoveEnd, lifeVars, tableVars, lockVars,
     connVars, queueVars, mainVars, workerVars
<1>3. ASSUME NEW w \in Workers, FinishHook(w) \/ UseApi(w) PROVE Goal
  BY <1>3 DEF FinishHook, UseApi, UnrefConn, TestRefable, TestNotRefable, QueueClosing,
     NotifyClosing, IndexConn, CloseOwn, CloseOther, Goto, lifeVars, tableVars, lockVars,
     connVars, queueVars, mainVars, workerVars
<1>4. ASSUME (\E c \in Conn : ClientClose(c) \/ Accept(c)) \/ Signal \/ UNCHANGED vars PROVE Goal
  BY <1>4 DEF vars, ClientClose, lifeVars, tableVars, lockVars, connVars, queueVars, mainVars,
     workerVars
<1> HIDE DEF Goal
<1> QED
  BY <1>1, <1>2, <1>3, <1>4 DEF Next, Ended

\* The process ends for good, and threads leave their loops for good.
LEMMA EndsForGood ==
  [Next]_vars => /\ mpc \in Ending => mpc' \in Ending
                 /\ mpc \in Ending \ {"scan"} => mpc' \in Ending \ {"scan"}
BY MainMoves DEF Ending, MainGoto, StartModule, CreateWorkers, Barrier, CheckRoom, Deny, Insert,
   Assign, AcceptHook, QueueAccepted, NotifyAccepted, RejectBegin, RejectEnd, EnableAccept,
   ScanTable, SendDash, Join, StopModule, Signal, Accept

\* Handlers of new connections run while the listen event is enabled.
LEMMA EnabledStep == Enabled /\ [Next]_vars => Enabled'
BY MainMoves DEF Enabled, Starting, Handling, MainGoto, StartModule, CreateWorkers, Barrier,
   CheckRoom, Deny, Insert, Assign, AcceptHook, QueueAccepted, NotifyAccepted, RejectBegin,
   RejectEnd, EnableAccept, ScanTable, SendDash, Join, StopModule, Signal, Accept
\* Steps that touch the bytes of a worker or its phase.
LEMMA ToldMoves ==
  [Next]_vars =>
    \/ UNCHANGED <<pipe, buffer, phase>>
    \/ CreateWorkers \/ NotifyAccepted \/ SendDash
    \/ \E w \in Workers : ReadPipe(w) \/ Register(w) \/ TakeClose(w) \/ Break(w) \/ EndNotify(w) \/ EnterLoop(w) \/ Exit(w) \/ NotifyClosing(w)
<1> DEFINE Goal ==
    \/ UNCHANGED <<pipe, buffer, phase>>
    \/ CreateWorkers \/ NotifyAccepted \/ SendDash
    \/ \E w \in Workers : ReadPipe(w) \/ Register(w) \/ TakeClose(w) \/ Break(w) \/ EndNotify(w) \/ EnterLoop(w) \/ Exit(w) \/ NotifyClosing(w)
<1> SUFFICES ASSUME [Next]_vars PROVE Goal
  OBVIOUS
<1>1. ASSUME MainStep PROVE Goal
  BY <1>1 DEF MainStep, StartModule, Barrier, CheckRoom, Deny, Insert, Assign, AcceptHook,
     QueueAccepted, RejectBegin, RejectEnd, EnableAccept, ScanTable, Join, StopModule, MainGoto,
     Goto, Free, RemoveBegin, RemoveEnd, lifeVars, tableVars, lockVars, connVars, queueVars,
     mainVars, workerVars
<1>2. ASSUME NEW w \in Workers, Serve(w) PROVE Goal
  BY <1>2 DEF Serve, ReadEof, ThreadInit, Drain, LeaveLoop, ThreadDestory, CloseHook,
     BeginRemove, EndRemove, TellMain, Goto, Free, RemoveBegin, RemoveEnd, Clean, lifeVars,
     tableVars, lockVars, connVars, queueVars, mainVars, workerVars
<1>3. ASSUME NEW w \in Workers, FinishHook(w) \/ UseApi(w) PROVE Goal
  BY <1>3 DEF FinishHook, UseApi, UnrefConn, TestRefable, TestNotRefable, QueueClosing,
     IndexConn, CloseOwn, CloseOther, Goto, lifeVars, tableVars, lockVars, connVars, queueVars,
     mainVars, workerVars
<1>4. ASSUME (\E c \in Conn : ClientClose(c) \/ Accept(c)) \/ Signal \/ UNCHANGED vars PROVE Goal
  BY <1>4 DEF vars, Signal, ClientClose, Accept, lifeVars, tableVars, lockVars, connVars,
     queueVars, mainVars, workerVars
<1> HIDE DEF Goal
<1> QED
  BY <1>1, <1>2, <1>3, <1>4 DEF Next, Ended

\* The ranges of queues after a push and after a pop.
LEMMA PushRange ==
  ASSUME NEW S, NEW queues \in [Workers -> Seq(S)], NEW w, NEW e \in S, NEW v \in Workers
  PROVE  /\ Range(Push(queues, w, e)[v]) \subseteq Range(queues[v]) \cup {e}
         /\ v = w => Range(Push(queues, w, e)[v]) = Range(queues[v]) \cup {e}
         /\ v # w => Push(queues, w, e)[v] = queues[v]
         /\ IsInjective(queues[v]) /\ (v = w => e \notin Range(queues[v])) =>
              IsInjective(Push(queues, w, e)[v])
<1>1. CASE v = w
  <2>1. queues[v] \in Seq(S) /\ Push(queues, w, e)[v] = Append(queues[v], e)
    BY <1>1, PushType
  <2> QED
    BY <1>1, <2>1, PushFacts
<1>2. CASE v # w
  BY <1>2, PushType
<1> QED
  BY <1>1, <1>2

\* The entry that is popped was in the queue, and is no longer, if it was there once.
LEMMA PopHead ==
  ASSUME NEW S, NEW queues \in [Workers -> Seq(S)], NEW w \in Workers, queues[w] # << >>
  PROVE  /\ Head(queues[w]) \in S /\ Head(queues[w]) \in Range(queues[w])
         /\ Range(queues[w]) = Range(Pop(queues, w)[w]) \cup {Head(queues[w])}
         /\ IsInjective(queues[w]) => Head(queues[w]) \notin Range(Pop(queues, w)[w])
<1>1. queues[w] \in Seq(S) /\ Pop(queues, w)[w] = Tail(queues[w])
  BY PopType
<1> QED
  BY <1>1, PopFacts

\* A pop leaves the other queues alone.
LEMMA PopRange ==
  ASSUME NEW S, NEW queues \in [Workers -> Seq(S)], NEW w \in Workers, queues[w] # << >>,
         NEW v \in Workers
  PROVE  /\ Range(Pop(queues, w)[v]) \subseteq Range(queues[v])
         /\ v # w => Pop(queues, w)[v] = queues[v]
         /\ v = w => Range(queues[v]) = Range(Pop(queues, w)[v]) \cup {Head(queues[w])}
         /\ IsInjective(queues[v]) =>
              /\ IsInjective(Pop(queues, w)[v])
              /\ v = w => Head(queues[w]) \notin Range(Pop(queues, w)[v])
<1>1. CASE v = w
  <2>1. queues[v] \in Seq(S) /\ Pop(queues, w)[v] = Tail(queues[v])
    BY <1>1, PopType
  <2> QED
    BY <1>1, <2>1, PopFacts
<1>2. CASE v # w
  BY <1>2, PopType
<1> QED
  BY <1>1, <1>2

\* No step tells a worker to leave its loop before SIGINT.
LEMMA ToldStep == TypeOK /\ Places /\ ToldInTime /\ [Next]_vars => ToldInTime'
<1> SUFFICES ASSUME TypeOK, Places, ToldInTime, [Next]_vars, mpc' \notin Ending \ {"scan"}
             PROVE  \A w \in Workers : /\ "-" \notin (Range(pipe[w]) \cup Range(buffer[w]))'
                                       /\ phase'[w] \in {"none", "init", "run"}
  BY DEF ToldInTime
<1>1. /\ mpc \notin Ending \ {"scan"}
      /\ \A w \in Workers : /\ "-" \notin Range(pipe[w]) \cup Range(buffer[w])
                            /\ phase[w] \in {"none", "init", "run"}
      /\ pipe \in [Workers -> Seq(Byte)] /\ buffer \in [Workers -> Seq(Byte)]
      /\ "l" \in Byte /\ "x" \in Byte
  BY EndsForGood DEF ToldInTime, TypeOK, Byte
<1> SUFFICES ASSUME NEW u \in Workers
             PROVE  /\ "-" \notin Range(pipe'[u]) /\ "-" \notin Range(buffer'[u])
                    /\ phase'[u] \in {"none", "init", "run"}
  OBVIOUS
<1> DEFINE Goal == /\ "-" \notin Range(pipe'[u]) /\ "-" \notin Range(buffer'[u])
                   /\ phase'[u] \in {"none", "init", "run"}
<1>2. ASSUME UNCHANGED <<pipe, buffer, phase>> PROVE Goal
  BY <1>1, <1>2
<1>3. ASSUME NotifyAccepted PROVE Goal
  <2>1. pipe' = Push(pipe, mthread, "l")
    BY <1>3 DEF NotifyAccepted
  <2>2. Range(pipe'[u]) \subseteq Range(pipe[u]) \cup {"l"}
    BY <1>1, <2>1, PushRange
  <2> QED
    BY <1>1, <1>3, <2>2 DEF NotifyAccepted, workerVars
<1>4. ASSUME NEW w \in Workers, NotifyClosing(w) PROVE Goal
  <2>1. pipe' = Push(pipe, thread[wconn[w]], "x")
    BY <1>4 DEF NotifyClosing
  <2>2. Range(pipe'[u]) \subseteq Range(pipe[u]) \cup {"x"}
    BY <1>1, <2>1, PushRange
  <2> QED
    BY <1>1, <1>4, <2>2 DEF NotifyClosing
<1>5. ASSUME NEW w \in Workers, ReadPipe(w) PROVE Goal
  BY <1>1, <1>5 DEF ReadPipe, Range
<1>6. ASSUME NEW w \in Workers, Register(w) \/ TakeClose(w) PROVE Goal
  <2>1. buffer[w] # << >> /\ buffer' = Pop(buffer, w)
    BY <1>6 DEF Register, TakeClose, NextByte
  <2>2. Range(buffer'[u]) \subseteq Range(buffer[u])
    BY <1>1, <2>1, PopRange
  <2> QED
    BY <1>1, <1>6, <2>2 DEF Register, TakeClose, Clean
<1>7. ASSUME NEW w \in Workers, Break(w) PROVE FALSE
  <2>1. buffer[w] # << >> /\ Head(buffer[w]) = "-" /\ buffer[w] \in Seq(Byte)
    BY <1>1, <1>7 DEF Break, NextByte
  <2>2. "-" \in Range(buffer[w])
    BY <2>1, PopFacts
  <2> QED
    BY <1>1, <2>2
<1>8. ASSUME CreateWorkers \/ SendDash PROVE Goal
  BY <1>1, <1>8 DEF CreateWorkers, SendDash, MainGoto, queueVars, Ending
<1>9. ASSUME NEW w \in Workers, EndNotify(w) \/ EnterLoop(w) \/ Exit(w) PROVE Goal
  <2>1. UNCHANGED <<pipe, buffer>>
    BY <1>9 DEF EndNotify, EnterLoop, Exit, queueVars
  <2>2. phase'[u] \in {"none", "init", "run"}
    BY <1>1, <1>9 DEF EndNotify, EnterLoop, Exit, Goto, Places, WorkerPlace, TypeOK
  <2> QED
    BY <1>1, <2>1, <2>2
<1> HIDE DEF Goal
<1>10. Goal
  BY <1>2, <1>3, <1>4, <1>5, <1>6, <1>7, <1>8, <1>9, ToldMoves
<1> QED
  BY <1>10 DEF Goal

\* Types, places and what follows from them hold in every use of the server.
THEOREM ServerTypes == Spec => [](TypeOK /\ Places /\ ToldInTime /\ Enabled)
<1> DEFINE I == TypeOK /\ Places /\ ToldInTime /\ Enabled
<1>1. I /\ [Next]_vars => I'
  BY TypeStep, PlacesStep, ToldStep, EnabledStep
<1> QED
  BY InitTypes, <1>1, PTL DEF Spec

\* Steps of the workers from place to place.
LEMMA PlaceMoves ==
  [Next]_vars =>
    \/ UNCHANGED <<wpc, wconn, held>>
    \/ CreateWorkers
    \/ \E w \in Workers : ReadPipe(w) \/ TakeClose(w) \/ EndNotify(w) \/ EnterLoop(w) \/ Drain(w) \/ LeaveLoop(w) \/ Exit(w) \/ CloseHook(w) \/ BeginRemove(w) \/ EndRemove(w) \/ TellMain(w) \/ UnrefConn(w) \/ TestRefable(w) \/ TestNotRefable(w) \/ QueueClosing(w) \/ NotifyClosing(w) \/ CloseOther(w)
    \/ \E w \in Workers, c \in Conn : ReadEof(w, c)
    \/ \E w \in Workers, i \in 1 .. MaxClients : IndexConn(w, i)
    \/ \E w \in Workers, c \in Conn : CloseOwn(w, c)
<1> DEFINE Goal ==
    \/ UNCHANGED <<wpc, wconn, held>>
    \/ CreateWorkers
    \/ \E w \in Workers : ReadPipe(w) \/ TakeClose(w) \/ EndNotify(w) \/ EnterLoop(w) \/ Drain(w) \/ LeaveLoop(w) \/ Exit(w) \/ CloseHook(w) \/ BeginRemove(w) \/ EndRemove(w) \/ TellMain(w) \/ UnrefConn(w) \/ TestRefable(w) \/ TestNotRefable(w) \/ QueueClosing(w) \/ NotifyClosing(w) \/ CloseOther(w)
    \/ \E w \in Workers, c \in Conn : ReadEof(w, c)
    \/ \E w \in Workers, i \in 1 .. MaxClients : IndexConn(w, i)
    \/ \E w \in Workers, c \in Conn : CloseOwn(w, c)
<1> SUFFICES ASSUME [Next]_vars PROVE Goal
  OBVIOUS
<1>1. ASSUME MainStep PROVE Goal
  BY <1>1 DEF MainStep, StartModule, Barrier, CheckRoom, Deny, Insert, Assign, AcceptHook,
     QueueAccepted, NotifyAccepted, RejectBegin, RejectEnd, EnableAccept, ScanTable, SendDash,
     Join, StopModule, MainGoto, Goto, Free, RemoveBegin, RemoveEnd, lifeVars, tableVars,
     lockVars, connVars, queueVars, mainVars, workerVars
<1>2. ASSUME NEW w \in Workers, Serve(w) PROVE Goal
  BY <1>2 DEF Serve, Register, Break, ThreadInit, ThreadDestory, Goto, Free, RemoveBegin,
     RemoveEnd, lifeVars, tableVars, lockVars, connVars, queueVars, mainVars, workerVars
<1>3. ASSUME NEW w \in Workers, FinishHook(w) \/ UseApi(w) PROVE Goal
  BY <1>3 DEF FinishHook, UseApi, Goto, lifeVars, tableVars, lockVars, connVars, queueVars,
     mainVars, workerVars
<1>4. ASSUME (\E c \in Conn : ClientClose(c) \/ Accept(c)) \/ Signal \/ UNCHANGED vars PROVE Goal
  BY <1>4 DEF vars, Signal, ClientClose, Accept, lifeVars, tableVars, lockVars, connVars,
     queueVars, mainVars, workerVars
<1> HIDE DEF Goal
<1> QED
  BY <1>1, <1>2, <1>3, <1>4 DEF Next, Ended

\* Steps that make room or tell of it.
LEMMA RoomMoves ==
  [Next]_vars =>
    \/ UNCHANGED <<conn_num, note>>
    \/ Insert \/ RejectBegin \/ EnableAccept
    \/ \E w \in Workers : BeginRemove(w) \/ TellMain(w)
<1> DEFINE Goal ==
    \/ UNCHANGED <<conn_num, note>>
    \/ Insert \/ RejectBegin \/ EnableAccept
    \/ \E w \in Workers : BeginRemove(w) \/ TellMain(w)
<1> SUFFICES ASSUME [Next]_vars PROVE Goal
  OBVIOUS
<1>1. ASSUME MainStep PROVE Goal
  BY <1>1 DEF MainStep, StartModule, CreateWorkers, Barrier, CheckRoom, Deny, Assign,
     AcceptHook, QueueAccepted, NotifyAccepted, RejectEnd, ScanTable, SendDash, Join,
     StopModule, MainGoto, Goto, Free, RemoveEnd, lifeVars, tableVars, lockVars, connVars,
     queueVars, mainVars, workerVars
<1>2. ASSUME NEW w \in Workers, Serve(w) PROVE Goal
  BY <1>2 DEF Serve, ReadPipe, Register, TakeClose, Break, EndNotify, ReadEof, ThreadInit,
     EnterLoop, Drain, LeaveLoop, ThreadDestory, Exit, CloseHook, EndRemove, Goto, Free,
     RemoveEnd, Clean, lifeVars, tableVars, lockVars, connVars, queueVars, mainVars, workerVars
<1>3. ASSUME NEW w \in Workers, FinishHook(w) \/ UseApi(w) PROVE Goal
  BY <1>3 DEF FinishHook, UseApi, UnrefConn, TestRefable, TestNotRefable, QueueClosing,
     NotifyClosing, IndexConn, CloseOwn, CloseOther, Goto, lifeVars, tableVars, lockVars,
     connVars, queueVars, mainVars, workerVars
<1>4. ASSUME (\E c \in Conn : ClientClose(c) \/ Accept(c)) \/ Signal \/ UNCHANGED vars PROVE Goal
  BY <1>4 DEF vars, Signal, ClientClose, Accept, lifeVars, tableVars, lockVars, connVars,
     queueVars, mainVars, workerVars
<1> HIDE DEF Goal
<1> QED
  BY <1>1, <1>2, <1>3, <1>4 DEF Next, Ended

\* The wake-up of the main thread is not lost: when the listen event is disabled,
\* the table is full, or a worker has made room and its "e" is in the pipe or about
\* to be written (listen_handler, notify_handler, read_handler).
THEOREM WakeUpKept == Spec => []PausedForAReason
<1>1. Init => PausedForAReason
  BY DEF Init, PausedForAReason
<1>2. ASSUME TypeOK, Places, ToldInTime, Enabled, PausedForAReason, [Next]_vars
      PROVE  PausedForAReason'
  <2> DEFINE Paused == (~accepting /\ mpc \in {"loop", "check", "deny"}) \/ mpc = "deny"
             Telling == \E w \in Workers : wpc[w] \in {"free", "tell"}
  <2>1. /\ Paused => conn_num >= MaxClients \/ note \/ Telling
        /\ PausedForAReason' <=> (Paused' => conn_num' >= MaxClients \/ note' \/ Telling')
        /\ conn_num \in Int /\ MaxClients \in Int
        /\ wpc \in [Workers -> WorkerPlaces]
    BY <1>2, ServerAssumption DEF PausedForAReason, TypeOK
  <2>2. CASE Paused' /\ ~Paused
    <3>1. mpc = "check" /\ conn_num >= MaxClients /\ conn_num' = conn_num
      BY <1>2, <2>2, MainMoves DEF Enabled, Starting, Handling, tableVars, MainGoto, Free,
         RemoveBegin, RemoveEnd, StartModule, CreateWorkers, Barrier, CheckRoom, Deny, Insert,
         Assign, AcceptHook, QueueAccepted, NotifyAccepted, RejectBegin, RejectEnd, EnableAccept,
         ScanTable, SendDash, Join, StopModule, Signal, Accept
    <3> QED
      BY <2>1, <3>1
  <2>3. CASE Paused
    <3>1. ASSUME NEW w \in Workers, BeginRemove(w) \/ EndRemove(w) \/ TellMain(w)
          PROVE  Paused' => conn_num' >= MaxClients \/ note' \/ Telling'
      <4>1. mpc \notin Ending
        BY <2>3 DEF Ending
      <4>2. phase[w] # "drain"
        BY <1>2, <4>1 DEF ToldInTime
      <4>3. note' \/ wpc'[w] \in {"free", "tell"}
        BY <2>1, <3>1, <4>2 DEF BeginRemove, EndRemove, TellMain, Goto
      <4> QED
        BY <4>3
    <3>2. ASSUME NEW w \in Workers, ReadPipe(w) \/ TakeClose(w) \/ EndNotify(w) \/ EnterLoop(w) \/ Drain(w) \/ LeaveLoop(w) \/ Exit(w) \/ CloseHook(w) \/ UnrefConn(w) \/ TestRefable(w) \/ TestNotRefable(w) \/ QueueClosing(w) \/ NotifyClosing(w) \/ CloseOther(w)
          PROVE  Telling => Telling'
      BY <2>1, <3>2 DEF Goto, HookPlace, ReadPipe, TakeClose, EndNotify, EnterLoop, Drain,
         LeaveLoop, Exit, CloseHook, UnrefConn, TestRefable, TestNotRefable, QueueClosing,
         NotifyClosing, CloseOther
    <3>3. ASSUME NEW w \in Workers,
                 \/ \E c \in Conn : ReadEof(w, c) \/ CloseOwn(w, c)
                 \/ \E i \in 1 .. MaxClients : IndexConn(w, i)
          PROVE  Telling => Telling'
      BY <2>1, <3>3 DEF Goto, ReadEof, CloseOwn, IndexConn
    <3>4. Telling => Telling' \/ \E w \in Workers : BeginRemove(w) \/ EndRemove(w) \/ TellMain(w)
      <4>1. ~CreateWorkers
        BY <2>3 DEF CreateWorkers, MainGoto
      <4>2. ASSUME UNCHANGED wpc PROVE Telling => Telling'
        BY <4>2
      <4> HIDE DEF Telling
      <4> QED
        BY <1>2, <3>2, <3>3, <4>1, <4>2, PlaceMoves
    <3>5. Paused' => \/ UNCHANGED <<conn_num, note>>
                     \/ \E w \in Workers : BeginRemove(w) \/ EndRemove(w) \/ TellMain(w)
      <4>1. Paused' => ~Insert /\ ~RejectBegin /\ ~EnableAccept
        BY <2>3 DEF Insert, RejectBegin, EnableAccept, MainGoto
      <4> HIDE DEF Paused
      <4> QED
        BY <1>2, <4>1, RoomMoves
    <3> QED
      BY <2>1, <2>3, <3>1, <3>4, <3>5
  <2> QED
    BY <2>1, <2>2, <2>3
<1> QED
  BY <1>1, <1>2, ServerTypes, PTL DEF Spec

-----------------------------------------------------------------------------
(***************************************************************************)
(* Bytes and entries of the accept queues.                                 *)
(***************************************************************************)
\* The bytes on their way are those in the buffer and those in the pipe.
LEMMA CountFacts ==
  ASSUME NEW S, NEW q \in Seq(S), NEW r \in Seq(S), NEW b
  PROVE  /\ Times(q, b) \in Nat /\ Times(r, b) \in Nat
         /\ Times(q, b) = 0 <=> b \notin Range(q)
         /\ Times(r, b) = 0 <=> b \notin Range(r)
         /\ Count(q \o r, b) = Times(q, b) + Times(r, b)
<1>1. Count(q \o r, b) = Times(q \o r, b)
  BY DEF Count, Times
<1>2. /\ Times(q, b) \in Nat /\ Times(r, b) \in Nat
      /\ Times(q, b) = 0 <=> b \notin Range(q)
      /\ Times(r, b) = 0 <=> b \notin Range(r)
  BY TimesNat
<1> QED
  BY <1>1, <1>2, TimesConcat

\* Steps that touch an accept queue or the bytes for it.
LEMMA AcceptMoves ==
  [Next]_vars =>
    \/ UNCHANGED <<accept_queue, pipe, buffer, mthread>>
    \/ Assign \/ QueueAccepted \/ NotifyAccepted \/ RejectEnd \/ SendDash
    \/ \E w \in Workers : ReadPipe(w) \/ Register(w) \/ TakeClose(w) \/ Break(w) \/ Drain(w) \/ NotifyClosing(w)
<1> DEFINE Goal ==
    \/ UNCHANGED <<accept_queue, pipe, buffer, mthread>>
    \/ Assign \/ QueueAccepted \/ NotifyAccepted \/ RejectEnd \/ SendDash
    \/ \E w \in Workers : ReadPipe(w) \/ Register(w) \/ TakeClose(w) \/ Break(w) \/ Drain(w) \/ NotifyClosing(w)
<1> SUFFICES ASSUME [Next]_vars PROVE Goal
  OBVIOUS
<1>1. ASSUME MainStep PROVE Goal
  BY <1>1 DEF MainStep, StartModule, CreateWorkers, Barrier, CheckRoom, Deny, Insert,
     AcceptHook, RejectBegin, EnableAccept, ScanTable, Join, StopModule, MainGoto, Goto, Free,
     RemoveBegin, RemoveEnd, lifeVars, tableVars, lockVars, connVars, queueVars, mainVars,
     workerVars
<1>2. ASSUME NEW w \in Workers, Serve(w) PROVE Goal
  BY <1>2 DEF Serve, EndNotify, ReadEof, ThreadInit, EnterLoop, LeaveLoop, ThreadDestory, Exit,
     CloseHook, BeginRemove, EndRemove, TellMain, Goto, Free, RemoveBegin, Clean, RemoveEnd,
     lifeVars, tableVars, lockVars, connVars, queueVars, mainVars, workerVars
<1>3. ASSUME NEW w \in Workers, FinishHook(w) \/ UseApi(w) PROVE Goal
  BY <1>3 DEF FinishHook, UseApi, UnrefConn, TestRefable, TestNotRefable, QueueClosing,
     IndexConn, CloseOwn, CloseOther, Goto, lifeVars, tableVars, lockVars, connVars, queueVars,
     mainVars, workerVars
<1>4. ASSUME (\E c \in Conn : ClientClose(c) \/ Accept(c)) \/ Signal \/ UNCHANGED vars PROVE Goal
  BY <1>4 DEF vars, Signal, ClientClose, Accept, lifeVars, tableVars, lockVars, connVars,
     queueVars, mainVars, workerVars
<1> HIDE DEF Goal
<1> QED
  BY <1>1, <1>2, <1>3, <1>4 DEF Next, Ended

\* No "l" comes behind a "-": the main thread accepts nothing after SIGINT.
LEMMA NoLateStep == TypeOK /\ Places /\ ToldInTime /\ NoLate /\ [Next]_vars => NoLate'
<1> SUFFICES ASSUME TypeOK, Places, ToldInTime, NoLate, [Next]_vars, NEW u \in Workers,
                    "-" \in Range(buffer'[u]) \/ phase'[u] \in {"break", "drain", "exited"}
             PROVE  "l" \notin Range(pipe'[u])
  BY DEF NoLate
<1> DEFINE Late == "-" \in Range(buffer[u]) \/ phase[u] \in {"break", "drain", "exited"}
<1>1. /\ Late' /\ (Late => "l" \notin Range(pipe[u]))
      /\ mpc \notin Ending \ {"scan"} => ~Late
      /\ pipe \in [Workers -> Seq(Byte)] /\ buffer \in [Workers -> Seq(Byte)]
      /\ "l" \in Byte /\ "x" \in Byte /\ "-" \in Byte
  BY DEF NoLate, TypeOK, Byte, ToldInTime
<1>2. CASE UNCHANGED <<pipe, buffer, phase>>
  BY <1>1, <1>2
<1>3. ASSUME NotifyAccepted PROVE FALSE
  <2>1. mpc = "notify" /\ UNCHANGED <<buffer, phase>>
    BY <1>3 DEF NotifyAccepted, MainGoto, workerVars
  <2> QED
    BY <1>1, <2>1 DEF Ending
<1>4. ASSUME NEW w, NEW b \in {"x", "-"}, pipe' = Push(pipe, w, b), UNCHANGED <<buffer, phase>>
      PROVE  "l" \notin Range(pipe'[u])
  <2>1. b \in Byte
    BY DEF Byte
  <2>2. Range(pipe'[u]) \subseteq Range(pipe[u]) \cup {b}
    BY <1>1, <1>4, <2>1, PushRange
  <2> QED
    BY <1>1, <1>4, <2>2
<1>5. ASSUME NEW w \in Workers, ReadPipe(w) PROVE "l" \notin Range(pipe'[u])
  <2>1. CASE u = w
    <3>1. pipe'[u] = << >>
      BY <1>1, <1>5, <2>1 DEF ReadPipe
    <3> QED
      BY <3>1 DEF Range
  <2>2. CASE u # w
    BY <1>1, <1>5, <2>2 DEF ReadPipe
  <2> QED
    BY <2>1, <2>2
<1>6. ASSUME NEW w \in Workers, buffer[w] # << >>, buffer' = Pop(buffer, w), UNCHANGED pipe,
             phase' = phase \/ (Head(buffer[w]) = "-" /\ phase' = [phase EXCEPT ![w] = "break"])
      PROVE  "l" \notin Range(pipe'[u])
  <2>1. Range(buffer'[u]) \subseteq Range(buffer[u])
    BY <1>1, <1>6, PopRange
  <2>2. Head(buffer[w]) \in Range(buffer[w])
    <3>1. buffer[w] \in Seq(Byte)
      BY <1>1
    <3> QED
      BY <1>6, <3>1, PopFacts
  <2>3. Late
    BY <1>1, <1>6, <2>1, <2>2 DEF TypeOK
  <2> QED
    BY <1>1, <1>6, <2>3
<1>7. ASSUME NEW w \in Workers, EndNotify(w) \/ EnterLoop(w) \/ Exit(w) PROVE "l" \notin
   Range(pipe'[u])
  <2>1. UNCHANGED <<pipe, buffer>>
    BY <1>7 DEF EndNotify, EnterLoop, Exit, queueVars
  <2>2. phase[u] \in {"break", "drain", "exited"} \/ phase'[u] \notin {"break", "drain", "exited"}
    BY <1>7 DEF EndNotify, EnterLoop, Exit, Goto, Places, WorkerPlace, TypeOK
  <2> QED
    BY <1>1, <2>1, <2>2
<1>8. ASSUME CreateWorkers PROVE "l" \notin Range(pipe'[u])
  BY <1>1, <1>8 DEF CreateWorkers, queueVars
<1>9. ASSUME SendDash PROVE "l" \notin Range(pipe'[u])
  <2>1. pipe' = Push(pipe, told, "-") /\ UNCHANGED <<buffer, phase>>
    BY <1>9 DEF SendDash, workerVars
  <2> QED
    BY <1>4, <2>1
<1>10. ASSUME NEW w \in Workers, NotifyClosing(w) PROVE "l" \notin Range(pipe'[u])
  <2>1. pipe' = Push(pipe, thread[wconn[w]], "x") /\ UNCHANGED <<buffer, phase>>
    BY <1>10 DEF NotifyClosing
  <2> QED
    BY <1>4, <2>1
<1>11. ASSUME NEW w \in Workers, Register(w) \/ TakeClose(w) \/ Break(w) PROVE "l" \notin
   Range(pipe'[u])
  <2>1. buffer[w] # << >> /\ buffer' = Pop(buffer, w) /\ UNCHANGED pipe
    BY <1>11 DEF Register, TakeClose, Break, NextByte, Clean, queueVars
  <2>2. phase' = phase \/ (Head(buffer[w]) = "-" /\ phase' = [phase EXCEPT ![w] = "break"])
    BY <1>11 DEF Register, TakeClose, Break, NextByte, Clean
  <2> QED
    BY <1>6, <2>1, <2>2
<1> QED
  BY <1>2, <1>3, <1>5, <1>7, <1>8, <1>9, <1>10, <1>11, ToldMoves

\* A worker that has left its loop finds its accept queue empty.
LEMMA DrainsNothing ==
  ASSUME TypeOK, Places, ToldInTime, NoLate, LBytes, NEW w \in Workers, phase[w] = "drain"
  PROVE  accept_queue[w] = << >>
<1>1. /\ buffer[w] = << >> /\ mpc \in Ending /\ "l" \notin Range(pipe[w])
      /\ pipe[w] \in Seq(Byte) /\ buffer[w] \in Seq(Byte) /\ accept_queue[w] \in Seq(Conn)
  BY DEF Places, WorkerPlace, ToldInTime, NoLate, TypeOK
<1>2. Bytes(w, "l") = 0
  <2>1. Times(pipe[w], "l") = 0 /\ Times(buffer[w], "l") = 0
    BY <1>1, TimesNat, TimesEmpty
  <2>2. Bytes(w, "l") = Times(buffer[w], "l") + Times(pipe[w], "l")
    <3>1. Count(buffer[w] \o pipe[w], "l") = Times(buffer[w], "l") + Times(pipe[w], "l")
      <4>1. buffer[w] \in Seq(Byte) /\ pipe[w] \in Seq(Byte)
        BY <1>1
      <4> QED
        BY <4>1, CountFacts, Zenon
    <3> QED
      BY <3>1, Zenon DEF Bytes
  <2> QED
    BY <2>1, <2>2
<1>3. AcceptUnsent(w) = 0
  BY <1>1 DEF AcceptUnsent, Ending
<1>4. Len(accept_queue[w]) = 0
  BY <1>2, <1>3 DEF LBytes
<1> QED
  BY <1>1, <1>4, EmptySeq

\* Every step keeps one "l" for each connection of an accept queue.
LEMMA LBytesStep ==
  TypeOK /\ TypeOK' /\ Places /\ ToldInTime /\ NoLate /\ LBytes /\ [Next]_vars => LBytes'
<1> SUFFICES ASSUME TypeOK, TypeOK', Places, ToldInTime, NoLate, LBytes, [Next]_vars,
                    NEW u \in Workers
             PROVE  Bytes(u, "l")' + AcceptUnsent(u)' = Len(accept_queue'[u])
  BY DEF LBytes
<1> DEFINE B == Times(buffer[u], "l")
           P == Times(pipe[u], "l")
           L == Len(accept_queue[u])
           U == AcceptUnsent(u)
           Goal == B' + P' + U' = L'
<1>1. /\ pipe \in [Workers -> Seq(Byte)] /\ buffer \in [Workers -> Seq(Byte)]
      /\ accept_queue \in [Workers -> Seq(Conn)]
  BY DEF TypeOK
<1>2. /\ B \in Nat /\ P \in Nat /\ L \in Nat /\ B + P + U = L
      /\ U = IF mpc = "notify" /\ mthread = u THEN 1 ELSE 0
      /\ Bytes(u, "l")' = B' + P' /\ B' \in Nat /\ L' \in Nat
      /\ U' = IF mpc' = "notify" /\ mthread' = u THEN 1 ELSE 0
      /\ P = 0 <=> "l" \notin Range(pipe[u])
  <2>1. accept_queue[u] \in Seq(Conn) /\ buffer[u] \in Seq(Byte) /\ pipe[u] \in Seq(Byte)
    BY <1>1
  <2>2. L \in Nat
    BY <2>1, LenProperties
  <2>3. /\ B \in Nat /\ P \in Nat /\ Bytes(u, "l") = B + P
        /\ P = 0 <=> "l" \notin Range(pipe[u])
    BY <2>1, CountFacts DEF Bytes
  <2>4. Bytes(u, "l")' = B' + P' /\ B' \in Nat /\ L' \in Nat
    <3>1. buffer'[u] \in Seq(Byte) /\ pipe'[u] \in Seq(Byte) /\ accept_queue'[u] \in Seq(Conn)
      BY DEF TypeOK
    <3> QED
      BY <3>1, CountFacts, LenProperties DEF Bytes
  <2> QED
    BY <2>2, <2>3, <2>4 DEF LBytes, AcceptUnsent
<1>3. ASSUME UNCHANGED <<accept_queue, pipe, buffer>>, mpc = "notify" => UNCHANGED <<mpc, mthread>>,
             mpc' = "notify" => mpc = "notify"
      PROVE  Goal
  BY <1>2, <1>3
<1>4. ASSUME QueueAccepted PROVE Goal
  <2>1. /\ accept_queue' = Push(accept_queue, mthread, mconn) /\ mconn \in Conn
        /\ mpc = "push" /\ mpc' = "notify" /\ UNCHANGED <<pipe, buffer, mthread>>
    BY <1>4 DEF QueueAccepted, MainGoto, workerVars, Places, WorkerPlace, Handling, TypeOK
  <2>2. L' = IF u = mthread THEN L + 1 ELSE L
    <3> DEFINE q == accept_queue[u]
               r == accept_queue'[u]
    <3>1. q \in Seq(Conn) /\ (u = mthread => r = Append(q, mconn)) /\ (u # mthread => r = q)
      BY <1>1, <2>1 DEF Push
    <3> HIDE DEF q, r
    <3>2. Len(r) = IF u = mthread THEN Len(q) + 1 ELSE Len(q)
      BY <2>1, <3>1, PushFacts
    <3> QED
      BY <3>2 DEF q, r
  <2> QED
    BY <1>2, <2>1, <2>2
<1>5. ASSUME NEW w, NEW b \in Byte, pipe' = Push(pipe, w, b)
      PROVE  P' = IF u = w /\ b = "l" THEN P + 1 ELSE P
  <2> DEFINE q == pipe[u]
             r == pipe'[u]
  <2>1. q \in Seq(Byte) /\ (u = w => r = Append(q, b)) /\ (u # w => r = q)
    BY <1>1, <1>5 DEF Push
  <2> HIDE DEF q, r
  <2>2. \A x : Times(Append(q, b), x) = IF b = x THEN Times(q, x) + 1 ELSE Times(q, x)
    BY <2>1, TimesPush
  <2>3. Times(r, "l") = IF u = w /\ b = "l" THEN Times(q, "l") + 1 ELSE Times(q, "l")
    BY <2>1, <2>2
  <2> QED
    BY <2>3 DEF q, r
<1>6. ASSUME NotifyAccepted PROVE Goal
  <2>1. /\ pipe' = Push(pipe, mthread, "l") /\ mpc = "notify" /\ mpc' = "loop"
        /\ UNCHANGED <<accept_queue, buffer>>
    BY <1>6 DEF NotifyAccepted, MainGoto, workerVars
  <2>2. P' = IF u = mthread THEN P + 1 ELSE P
    BY <1>1, <1>5, <2>1 DEF Byte
  <2> QED
    BY <1>2, <2>1, <2>2
<1>7. ASSUME SendDash PROVE Goal
  <2>1. /\ pipe' = Push(pipe, told, "-") /\ mpc = "dash" /\ mpc' \in {"dash", "join"}
        /\ UNCHANGED <<accept_queue, buffer, mthread>>
    BY <1>7 DEF SendDash, MainGoto, workerVars
  <2>2. P' = P
    BY <1>1, <1>5, <2>1 DEF Byte
  <2> QED
    BY <1>2, <2>1, <2>2
<1>8. ASSUME NEW w \in Workers, NotifyClosing(w) PROVE Goal
  <2>1. /\ pipe' = Push(pipe, thread[wconn[w]], "x")
        /\ UNCHANGED <<accept_queue, buffer, mpc, mthread>>
    BY <1>8 DEF NotifyClosing, mainVars
  <2>2. P' = P
    BY <1>1, <1>5, <2>1 DEF Byte
  <2> QED
    BY <1>2, <2>1, <2>2
<1>9. ASSUME NEW w \in Workers, ReadPipe(w) PROVE Goal
  <2>1. /\ buffer' = [buffer EXCEPT ![w] = pipe[w]] /\ pipe' = [pipe EXCEPT ![w] = << >>]
        /\ buffer[w] = << >> /\ UNCHANGED <<accept_queue, mpc, mthread>>
    BY <1>9 DEF ReadPipe, Goto, mainVars, Places, WorkerPlace
  <2>2. CASE u = w
    <3>1. B' = P /\ P' = 0 /\ B = 0
      BY <1>1, <2>1, <2>2, TimesEmpty
    <3> QED
      BY <1>2, <2>1, <3>1
  <2>3. CASE u # w
    <3>1. B' = B /\ P' = P
      BY <1>1, <2>1, <2>3
    <3> QED
      BY <1>2, <2>1, <3>1
  <2> QED
    BY <2>2, <2>3
<1>10. ASSUME NEW w \in Workers, buffer[w] # << >>, buffer' = Pop(buffer, w)
       PROVE  B = IF u = w /\ Head(buffer[w]) = "l" THEN B' + 1 ELSE B'
  <2> DEFINE q == buffer[u]
             r == buffer'[u]
  <2>1. q \in Seq(Byte) /\ (u = w => q # << >> /\ r = Tail(q)) /\ (u # w => r = q)
    <3>1. /\ buffer[u] \in Seq(Byte)
          /\ u = w => buffer[u] # << >> /\ Pop(buffer, w)[u] = Tail(buffer[u])
          /\ u # w => Pop(buffer, w)[u] = buffer[u]
      <4>1. buffer \in [Workers -> Seq(Byte)] /\ buffer[w] # << >>
        BY <1>1, <1>10
      <4> QED
        BY <4>1, PopSeen, Zenon
    <3>2. buffer'[u] = Pop(buffer, w)[u]
      BY <1>10
    <3> QED
      BY <3>1, <3>2
  <2> HIDE DEF q, r
  <2>2. u = w => \A x : Times(q, x) = IF Head(q) = x THEN Times(Tail(q), x) + 1 ELSE Times(Tail(q), x)
    BY <2>1, TimesPop
  <2>3. Times(q, "l") = IF u = w /\ Head(q) = "l" THEN Times(r, "l") + 1 ELSE Times(r, "l")
    BY <2>1, <2>2
  <2> QED
    BY <2>3 DEF q, r
<1>11. ASSUME NEW w \in Workers, Register(w) PROVE Goal
  <2>1. /\ buffer[w] # << >> /\ buffer' = Pop(buffer, w) /\ Head(buffer[w]) = "l"
        /\ accept_queue[w] # << >> /\ accept_queue' = Pop(accept_queue, w)
        /\ UNCHANGED <<pipe, mpc, mthread>>
    BY <1>11 DEF Register, NextByte, mainVars
  <2>2. B = IF u = w THEN B' + 1 ELSE B'
    BY <1>10, <2>1
  <2>3. L = IF u = w THEN L' + 1 ELSE L'
    <3> DEFINE q == accept_queue[u]
               r == accept_queue'[u]
    <3>1. q \in Seq(Conn) /\ (u = w => q # << >> /\ r = Tail(q)) /\ (u # w => r = q)
      <4>1. /\ accept_queue[u] \in Seq(Conn)
            /\ u = w => accept_queue[u] # << >> /\ Pop(accept_queue, w)[u] = Tail(accept_queue[u])
            /\ u # w => Pop(accept_queue, w)[u] = accept_queue[u]
        <5>1. accept_queue \in [Workers -> Seq(Conn)] /\ accept_queue[w] # << >>
          BY <1>1, <2>1
        <5> QED
          BY <5>1, PopSeen, Zenon
      <4>2. accept_queue'[u] = Pop(accept_queue, w)[u]
        BY <2>1
      <4> QED
        BY <4>1, <4>2
    <3> HIDE DEF q, r
    <3>2. Len(q) = IF u = w THEN Len(r) + 1 ELSE Len(r)
      BY <3>1, PopFacts
    <3> QED
      BY <3>2 DEF q, r
  <2> QED
    BY <1>2, <2>1, <2>2, <2>3
<1>12. ASSUME NEW w \in Workers, TakeClose(w) \/ Break(w) PROVE Goal
  <2>1. /\ buffer[w] # << >> /\ buffer' = Pop(buffer, w) /\ Head(buffer[w]) # "l"
        /\ UNCHANGED <<accept_queue, pipe, mpc, mthread>>
    BY <1>12 DEF TakeClose, Break, NextByte, Clean, mainVars, queueVars
  <2>2. B' = B
    BY <1>10, <2>1
  <2> QED
    BY <1>2, <2>1, <2>2
<1>13. ASSUME NEW w \in Workers, Drain(w) PROVE Goal
  <2>1. accept_queue[w] = << >>
    <3>1. Goto(w, "drain", "hook")
      BY <1>13 DEF Drain
    <3> QED
      BY <3>1, DrainsNothing DEF Goto, Places, WorkerPlace
  <2> QED
    BY <1>2, <1>13, <2>1 DEF Drain, Clean, mainVars
<1>14. ASSUME Assign \/ RejectEnd PROVE Goal
  <2>1. UNCHANGED <<accept_queue, pipe, buffer>> /\ mpc # "notify" /\ mpc' # "notify"
    BY <1>14 DEF Assign, RejectEnd, MainGoto, queueVars, workerVars
  <2> QED
    BY <1>3, <2>1
<1>15. ASSUME UNCHANGED <<accept_queue, pipe, buffer, mthread>> PROVE Goal
  <2>1. CASE QueueAccepted \/ NotifyAccepted
    BY <1>4, <1>6, <2>1
  <2>2. CASE ~QueueAccepted /\ ~NotifyAccepted
    <3>1. mpc' = "notify" <=> mpc = "notify"
      BY <2>2, MainMoves DEF MainGoto, StartModule, CreateWorkers, Barrier, CheckRoom, Deny,
         Insert, Assign, AcceptHook, QueueAccepted, NotifyAccepted, RejectBegin, RejectEnd,
         EnableAccept, ScanTable, SendDash, Join, StopModule, Signal, Accept
    <3> QED
      BY <1>3, <1>15, <3>1
  <2> QED
    BY <2>1, <2>2
<1> HIDE DEF Goal
<1>16. Goal
  BY <1>4, <1>6, <1>7, <1>8, <1>9, <1>11, <1>12, <1>13, <1>14, <1>15, AcceptMoves
<1> QED
  BY <1>2, <1>16 DEF Goal

\* Who comes to free a connection has just taken it out of the table.
LEMMA FreeMoves ==
  ASSUME TypeOK, [Next]_vars
  PROVE  /\ mpc' = "free" => (mpc = "free" /\ mconn' = mconn) \/ RejectBegin
         /\ \A w \in Workers : wpc'[w] = "free" =>
              (wpc[w] = "free" /\ wconn'[w] = wconn[w]) \/ BeginRemove(w)
<1>1. mpc' = "free" => (mpc = "free" /\ mconn' = mconn) \/ RejectBegin
  BY MainMoves DEF MainGoto, StartModule, CreateWorkers, Barrier, CheckRoom, Deny, Insert, Assign,
     AcceptHook, QueueAccepted, NotifyAccepted, RejectEnd, EnableAccept, ScanTable, SendDash,
     Join, StopModule, Signal, Accept
<1>2. ASSUME NEW w \in Workers, wpc'[w] = "free", ~(wpc[w] = "free" /\ wconn'[w] = wconn[w])
      PROVE  BeginRemove(w)
  <2>1. wpc \in [Workers -> WorkerPlaces] /\ wconn \in [Workers -> Conn \cup {NULL}]
    BY DEF TypeOK
  <2>2. ~CreateWorkers /\ ~UNCHANGED <<wpc, wconn, held>>
    BY <1>2 DEF CreateWorkers
  <2>3. ASSUME NEW v \in Workers, ReadPipe(v) \/ TakeClose(v) \/ EndNotify(v) \/ EnterLoop(v) \/ Drain(v) \/ LeaveLoop(v) \/ Exit(v) \/ CloseHook(v) \/ EndRemove(v) \/ TellMain(v) \/ UnrefConn(v) \/ TestRefable(v) \/ TestNotRefable(v) \/ QueueClosing(v) \/ NotifyClosing(v) \/ CloseOther(v)
        PROVE  FALSE
    BY <1>2, <2>1, <2>3 DEF Goto, Clean, HookPlace, ReadPipe, TakeClose, EndNotify, EnterLoop, Drain,
       LeaveLoop, Exit, CloseHook, EndRemove, TellMain, UnrefConn, TestRefable, TestNotRefable,
       QueueClosing, NotifyClosing, CloseOther
  <2>4. ASSUME NEW v \in Workers,
               \/ \E c \in Conn : ReadEof(v, c) \/ CloseOwn(v, c)
               \/ \E i \in 1 .. MaxClients : IndexConn(v, i)
        PROVE  FALSE
    BY <1>2, <2>1, <2>4 DEF Goto, Clean, ReadEof, CloseOwn, IndexConn
  <2>5. PICK v \in Workers : BeginRemove(v)
    BY <2>2, <2>3, <2>4, PlaceMoves
  <2> QED
    BY <1>2, <2>1, <2>5 DEF BeginRemove, Goto
<1> QED
  BY <1>1, <1>2

\* Steps that take or give back the write lock.
LEMMA LockMoves ==
  [Next]_vars =>
    \/ UNCHANGED <<wr>>
    \/ RejectBegin \/ RejectEnd
    \/ \E w \in Workers : BeginRemove(w) \/ EndRemove(w) \/ TestRefable(w) \/ QueueClosing(w)
<1> DEFINE Goal ==
    \/ UNCHANGED <<wr>>
    \/ RejectBegin \/ RejectEnd
    \/ \E w \in Workers : BeginRemove(w) \/ EndRemove(w) \/ TestRefable(w) \/ QueueClosing(w)
<1> SUFFICES ASSUME [Next]_vars PROVE Goal
  OBVIOUS
<1>1. ASSUME MainStep PROVE Goal
  BY <1>1 DEF MainStep, StartModule, CreateWorkers, Barrier, CheckRoom, Deny, Insert, Assign,
     AcceptHook, QueueAccepted, NotifyAccepted, EnableAccept, ScanTable, SendDash, Join,
     StopModule, MainGoto, Goto, Free, lifeVars, tableVars, lockVars, connVars, queueVars,
     mainVars, workerVars
<1>2. ASSUME NEW w \in Workers, Serve(w) PROVE Goal
  BY <1>2 DEF Serve, ReadPipe, Register, TakeClose, Break, EndNotify, ReadEof, ThreadInit,
     EnterLoop, Drain, LeaveLoop, ThreadDestory, Exit, CloseHook, TellMain, Goto, Free, Clean,
     lifeVars, tableVars, lockVars, connVars, queueVars, mainVars, workerVars
<1>3. ASSUME NEW w \in Workers, FinishHook(w) \/ UseApi(w) PROVE Goal
  BY <1>3 DEF FinishHook, UseApi, UnrefConn, TestNotRefable, NotifyClosing, IndexConn, CloseOwn,
     CloseOther, Goto, lifeVars, tableVars, lockVars, connVars, queueVars, mainVars, workerVars
<1>4. ASSUME (\E c \in Conn : ClientClose(c) \/ Accept(c)) \/ Signal \/ UNCHANGED vars PROVE Goal
  BY <1>4 DEF vars, Signal, ClientClose, Accept, lifeVars, tableVars, lockVars, connVars,
     queueVars, mainVars, workerVars
<1> HIDE DEF Goal
<1> QED
  BY <1>1, <1>2, <1>3, <1>4 DEF Next, Ended

\* Every step keeps the lock with the thread that frees.
LEMMA LockedStep == TypeOK /\ Locked /\ [Next]_vars => Locked'
<1> SUFFICES ASSUME TypeOK, Locked, [Next]_vars PROVE Locked'
  OBVIOUS
<1>1. /\ mpc = "free" => wr = {Main}
      /\ \A w \in Workers : wpc[w] = "free" => wr = {w}
      /\ mpc' = "free" => mpc = "free" \/ RejectBegin
      /\ \A w \in Workers : wpc'[w] = "free" => wpc[w] = "free" \/ BeginRemove(w)
      /\ Main \notin Workers
  BY FreeMoves, ServerAssumption DEF Locked, Main, Workers
<1>2. ASSUME RejectBegin PROVE Locked'
  <2>1. wr = {} /\ wr' = {Main} /\ wpc' = wpc
    BY <1>2 DEF RejectBegin, RemoveBegin, Lock!BeginWrite, Lock!MayWrite, workerVars
  <2> QED
    BY <1>1, <2>1 DEF Locked
<1>3. ASSUME NEW w \in Workers, BeginRemove(w) PROVE Locked'
  <2>1. wr = {} /\ wr' = {w} /\ mpc' = mpc /\ \A v \in Workers \ {w} : wpc'[v] = wpc[v]
    BY <1>3 DEF BeginRemove, RemoveBegin, Goto, Lock!BeginWrite, Lock!MayWrite, mainVars, TypeOK
  <2> QED
    BY <1>1, <2>1 DEF Locked
<1>4. ASSUME RejectEnd PROVE Locked'
  <2>1. Main \in wr /\ wpc' = wpc /\ mpc' = "loop"
    BY <1>4 DEF RejectEnd, MainGoto, RemoveEnd, Lock!EndWrite, workerVars
  <2> QED
    BY <1>1, <2>1 DEF Locked
<1>5. ASSUME NEW w \in Workers, EndRemove(w) PROVE Locked'
  <2>1. w \in wr /\ mpc' = mpc /\ wpc'[w] # "free" /\ \A v \in Workers \ {w} : wpc'[v] = wpc[v]
    BY <1>5 DEF EndRemove, Goto, RemoveEnd, Lock!EndWrite, mainVars, TypeOK
  <2> QED
    BY <1>1, <2>1 DEF Locked
<1>6. ASSUME UNCHANGED wr, ~RejectBegin, \A w \in Workers : ~BeginRemove(w) PROVE Locked'
  BY <1>1, <1>6 DEF Locked
<1>7. ASSUME NEW w \in Workers, TestRefable(w) \/ QueueClosing(w) PROVE Locked'
  <2>1. wr' = wr /\ mpc' = mpc /\ wpc'[w] # "free" /\ \A v \in Workers \ {w} : wpc'[v] = wpc[v]
    BY <1>7 DEF TestRefable, QueueClosing, Goto, Lock!BeginRead, Lock!EndRead, mainVars, TypeOK
  <2> QED
    BY <1>1, <2>1 DEF Locked
<1> QED
  BY <1>2, <1>3, <1>4, <1>5, <1>6, <1>7, LockMoves

\* Steps that change the number of connections.
LEMMA CountMoves ==
  [Next]_vars =>
    \/ UNCHANGED <<conn_num>>
    \/ Insert \/ RejectBegin
    \/ \E w \in Workers : BeginRemove(w)
<1> DEFINE Goal ==
    \/ UNCHANGED <<conn_num>>
    \/ Insert \/ RejectBegin
    \/ \E w \in Workers : BeginRemove(w)
<1> SUFFICES ASSUME [Next]_vars PROVE Goal
  OBVIOUS
<1>1. ASSUME MainStep PROVE Goal
  BY <1>1 DEF MainStep, StartModule, CreateWorkers, Barrier, CheckRoom, Deny, Assign,
     AcceptHook, QueueAccepted, NotifyAccepted, RejectEnd, EnableAccept, ScanTable, SendDash,
     Join, StopModule, MainGoto, Goto, Free, RemoveEnd, lifeVars, tableVars, lockVars, connVars,
     queueVars, mainVars, workerVars
<1>2. ASSUME NEW w \in Workers, Serve(w) PROVE Goal
  BY <1>2 DEF Serve, ReadPipe, Register, TakeClose, Break, EndNotify, ReadEof, ThreadInit,
     EnterLoop, Drain, LeaveLoop, ThreadDestory, Exit, CloseHook, EndRemove, TellMain, Goto,
     Free, RemoveEnd, Clean, lifeVars, tableVars, lockVars, connVars, queueVars, mainVars,
     workerVars
<1>3. ASSUME NEW w \in Workers, FinishHook(w) \/ UseApi(w) PROVE Goal
  BY <1>3 DEF FinishHook, UseApi, UnrefConn, TestRefable, TestNotRefable, QueueClosing,
     NotifyClosing, IndexConn, CloseOwn, CloseOther, Goto, lifeVars, tableVars, lockVars,
     connVars, queueVars, mainVars, workerVars
<1>4. ASSUME (\E c \in Conn : ClientClose(c) \/ Accept(c)) \/ Signal \/ UNCHANGED vars PROVE Goal
  BY <1>4 DEF vars, Signal, ClientClose, Accept, lifeVars, tableVars, lockVars, connVars,
     queueVars, mainVars, workerVars
<1> HIDE DEF Goal
<1> QED
  BY <1>1, <1>2, <1>3, <1>4 DEF Next, Ended

\* There is room until the main thread has inserted.
LEMMA RoomStep == TypeOK /\ Room /\ [Next]_vars => Room'
<1> SUFFICES ASSUME TypeOK, Room, [Next]_vars, mpc' = "insert" PROVE conn_num' < MaxClients
  BY DEF Room
<1>1. conn_num \in Int /\ MaxClients \in Int
  BY ServerAssumption DEF TypeOK
<1>2. ~Insert /\ (mpc = "insert" \/ (CheckRoom /\ conn_num < MaxClients))
  BY <1>1, MainMoves DEF MainGoto, StartModule, CreateWorkers, Barrier, CheckRoom, Deny, Insert,
     Assign, AcceptHook, QueueAccepted, NotifyAccepted, RejectBegin, RejectEnd, EnableAccept,
     ScanTable, SendDash, Join, StopModule, Signal, Accept
<1>3. conn_num < MaxClients
  BY <1>2 DEF Room
<1>4. ASSUME RejectBegin \/ \E w \in Workers : BeginRemove(w) PROVE conn_num' = conn_num - 1
  BY <1>4 DEF RejectBegin, BeginRemove, RemoveBegin, Table!RemoveConn
<1> QED
  BY <1>1, <1>2, <1>3, <1>4, CountMoves

\* Steps that change the phase of a worker.
LEMMA PhaseMoves ==
  [Next]_vars =>
    \/ UNCHANGED <<phase>>
    \/ CreateWorkers
    \/ \E w \in Workers : Break(w) \/ EndNotify(w) \/ EnterLoop(w) \/ Exit(w)
<1> DEFINE Goal ==
    \/ UNCHANGED <<phase>>
    \/ CreateWorkers
    \/ \E w \in Workers : Break(w) \/ EndNotify(w) \/ EnterLoop(w) \/ Exit(w)
<1> SUFFICES ASSUME [Next]_vars PROVE Goal
  OBVIOUS
<1>1. ASSUME MainStep PROVE Goal
  BY <1>1 DEF MainStep, StartModule, Barrier, CheckRoom, Deny, Insert, Assign, AcceptHook,
     QueueAccepted, NotifyAccepted, RejectBegin, RejectEnd, EnableAccept, ScanTable, SendDash,
     Join, StopModule, MainGoto, Goto, Free, RemoveBegin, RemoveEnd, lifeVars, tableVars,
     lockVars, connVars, queueVars, mainVars, workerVars
<1>2. ASSUME NEW w \in Workers, Serve(w) PROVE Goal
  BY <1>2 DEF Serve, ReadPipe, Register, TakeClose, ReadEof, ThreadInit, Drain, LeaveLoop,
     ThreadDestory, CloseHook, BeginRemove, EndRemove, TellMain, Goto, Free, RemoveBegin,
     RemoveEnd, Clean, lifeVars, tableVars, lockVars, connVars, queueVars, mainVars, workerVars
<1>3. ASSUME NEW w \in Workers, FinishHook(w) \/ UseApi(w) PROVE Goal
  BY <1>3 DEF FinishHook, UseApi, UnrefConn, TestRefable, TestNotRefable, QueueClosing,
     NotifyClosing, IndexConn, CloseOwn, CloseOther, Goto, lifeVars, tableVars, lockVars,
     connVars, queueVars, mainVars, workerVars
<1>4. ASSUME (\E c \in Conn : ClientClose(c) \/ Accept(c)) \/ Signal \/ UNCHANGED vars PROVE Goal
  BY <1>4 DEF vars, Signal, ClientClose, Accept, lifeVars, tableVars, lockVars, connVars,
     queueVars, mainVars, workerVars
<1> HIDE DEF Goal
<1> QED
  BY <1>1, <1>2, <1>3, <1>4 DEF Next, Ended

\* The modules are stopped when all workers have exited.
LEMMA JoinedStep == TypeOK /\ Places /\ Joined /\ [Next]_vars => Joined'
<1> SUFFICES ASSUME TypeOK, Places, Joined, [Next]_vars, mpc' \in {"stop", "done"}
             PROVE  \A w \in Workers : phase'[w] = "exited"
  BY DEF Joined
<1>1. CASE mpc \in {"stop", "done"}
  <2>1. \A w \in Workers : phase[w] = "exited" /\ wpc[w] = "exited"
    BY <1>1 DEF Joined, Places, WorkerPlace
  <2>2. phase' = phase
    BY <1>1, <2>1, PhaseMoves DEF CreateWorkers, MainGoto, Goto, Break, NextByte, EndNotify,
       EnterLoop, Exit
  <2> QED
    BY <2>1, <2>2
<1>2. CASE mpc \notin {"stop", "done"}
  <2>1. Join
    BY <1>2, MainMoves DEF MainGoto, StartModule, CreateWorkers, Barrier, CheckRoom, Deny, Insert,
       Assign, AcceptHook, QueueAccepted, NotifyAccepted, RejectBegin, RejectEnd, EnableAccept,
       ScanTable, SendDash, Join, StopModule, Signal, Accept
  <2>2. nthreads = 0 /\ phase' = phase /\ mpc = "join"
    BY <2>1 DEF Join, MainGoto, workerVars
  <2> QED
    BY <2>2, AllRunning DEF Places, WorkerPlace, TypeOK, Starting
<1> QED
  BY <1>1, <1>2

\* What holds in every use of the server.
Base == /\ TypeOK /\ Places /\ ToldInTime /\ Enabled /\ Locked /\ Room /\ Joined
        /\ NoLate /\ LBytes

\* What holds in every use holds at the start,
LEMMA InitBase == Init => Base
<1> SUFFICES ASSUME Init PROVE Base
  OBVIOUS
<1>1. Locked /\ Room /\ Joined
  BY DEF Init, Locked, Room, Joined
<1>2. NoLate
  BY DEF Init, NoLate, Range
<1>3. LBytes
  <2> SUFFICES ASSUME NEW w \in Workers PROVE Bytes(w, "l") + AcceptUnsent(w) = Len(accept_queue[w])
    BY DEF LBytes
  <2>1. buffer[w] = << >> /\ pipe[w] = << >> /\ Len(accept_queue[w]) = 0 /\ AcceptUnsent(w) = 0
    BY DEF Init, AcceptUnsent
  <2>2. buffer[w] \o pipe[w] = << >>
    BY <2>1
  <2>3. Bytes(w, "l") = Times(<< >>, "l")
    BY <2>2 DEF Bytes, Count, Times
  <2>4. \A x : Times(<< >>, x) = 0
    BY TimesEmpty
  <2> QED
    BY <2>1, <2>3, <2>4
<1> QED
  BY <1>1, <1>2, <1>3, InitTypes DEF Base

\* and every step keeps it.
LEMMA BaseStep == Base /\ [Next]_vars => Base'
BY TypeStep, PlacesStep, ToldStep, EnabledStep, LockedStep, RoomStep, JoinedStep, NoLateStep,
   LBytesStep DEF Base

-----------------------------------------------------------------------------
(***************************************************************************)
(* Who has a connection.                                                   *)
(***************************************************************************)
\* A thread that has a connection in its hands had it before or takes it now.
LEMMA HandsMove ==
  ASSUME TypeOK, [Next]_vars, NEW c \in Conn
  PROVE  /\ MainOwns(c)' => MainOwns(c) \/ Insert
         /\ \A w \in Workers : Serves(w, c)' =>
              Serves(w, c) \/ ReadEof(w, c) \/ TakeClose(w) \/ Drain(w)

<1>1. MainOwns(c)' => MainOwns(c) \/ Insert
  <2>1. CASE UNCHANGED <<mpc, accepting, mconn, mthread>>
    BY <2>1 DEF MainOwns
  <2>2. CASE ~UNCHANGED <<mpc, accepting, mconn, mthread>>
    BY <2>2, MainMoves DEF MainOwns, MainGoto, StartModule, CreateWorkers, Barrier, CheckRoom,
       Deny, Insert, Assign, AcceptHook, QueueAccepted, NotifyAccepted, RejectBegin, RejectEnd,
       EnableAccept, ScanTable, SendDash, Join, StopModule, Signal, Accept
  <2> QED
    BY <2>1, <2>2
<1>2. ASSUME NEW w \in Workers, Serves(w, c)', ~Serves(w, c)
      PROVE  ReadEof(w, c) \/ TakeClose(w) \/ Drain(w)
  <2>1. wpc \in [Workers -> WorkerPlaces] /\ wconn \in [Workers -> Conn \cup {NULL}]
    BY DEF TypeOK
  <2>2. ~CreateWorkers /\ ~UNCHANGED <<wpc, wconn, held>>
    BY <1>2, <2>1 DEF CreateWorkers, Serves
  <2>3. ASSUME NEW v \in Workers, ReadPipe(v) \/ EndNotify(v) \/ EnterLoop(v) \/ LeaveLoop(v) \/ Exit(v) \/ CloseHook(v) \/ BeginRemove(v) \/ EndRemove(v) \/ TellMain(v) \/ UnrefConn(v) \/ TestRefable(v) \/ TestNotRefable(v) \/ QueueClosing(v) \/ NotifyClosing(v) \/ CloseOther(v)
        PROVE  FALSE
    BY <1>2, <2>1, <2>3 DEF Serves, Goto, HookPlace, ReadPipe, EndNotify, EnterLoop,
       LeaveLoop, Exit, CloseHook, BeginRemove, EndRemove, TellMain, UnrefConn, TestRefable, TestNotRefable,
       QueueClosing, NotifyClosing, CloseOther
  <2>4. ASSUME NEW v \in Workers,
               \/ \E d \in Conn : CloseOwn(v, d)
               \/ \E i \in 1 .. MaxClients : IndexConn(v, i)
        PROVE  FALSE
    BY <1>2, <2>1, <2>4 DEF Serves, Goto, CloseOwn, IndexConn
  <2>5. ASSUME NEW v \in Workers, NEW d \in Conn, ReadEof(v, d) PROVE v = w /\ d = c
    BY <1>2, <2>1, <2>5 DEF Serves, Goto, ReadEof, Clean
  <2>6. ASSUME NEW v \in Workers, TakeClose(v) \/ Drain(v) PROVE v = w
    BY <1>2, <2>1, <2>6 DEF Serves, Goto, TakeClose, Drain, Clean
  <2> QED
    BY <2>2, <2>3, <2>4, <2>5, <2>6, PlaceMoves
<1> QED
  BY <1>1, <1>2

\* Steps that move a connection.
LEMMA OwnMoves ==
  [Next]_vars =>
    \/ UNCHANGED <<live, watched, thread, accept_queue, close_queue>>
    \/ Deny \/ Insert \/ Assign \/ QueueAccepted \/ RejectBegin \/ RejectEnd \/ ScanTable
    \/ \E w \in Workers : Register(w) \/ TakeClose(w) \/ Drain(w) \/ BeginRemove(w) \/ EndRemove(w) \/ QueueClosing(w)
    \/ \E c \in Conn : Accept(c)
    \/ \E w \in Workers, c \in Conn : ReadEof(w, c)
<1> DEFINE Goal ==
    \/ UNCHANGED <<live, watched, thread, accept_queue, close_queue>>
    \/ Deny \/ Insert \/ Assign \/ QueueAccepted \/ RejectBegin \/ RejectEnd \/ ScanTable
    \/ \E w \in Workers : Register(w) \/ TakeClose(w) \/ Drain(w) \/ BeginRemove(w) \/ EndRemove(w) \/ QueueClosing(w)
    \/ \E c \in Conn : Accept(c)
    \/ \E w \in Workers, c \in Conn : ReadEof(w, c)
<1> SUFFICES ASSUME [Next]_vars PROVE Goal
  OBVIOUS
<1>1. ASSUME MainStep PROVE Goal
  BY <1>1 DEF MainStep, StartModule, CreateWorkers, Barrier, CheckRoom, AcceptHook,
     NotifyAccepted, EnableAccept, SendDash, Join, StopModule, MainGoto, Goto, lifeVars,
     tableVars, lockVars, connVars, queueVars, mainVars, workerVars
<1>2. ASSUME NEW w \in Workers, Serve(w) PROVE Goal
  BY <1>2 DEF Serve, ReadPipe, Break, EndNotify, ThreadInit, EnterLoop, LeaveLoop,
     ThreadDestory, Exit, CloseHook, TellMain, Goto, lifeVars, tableVars, lockVars, connVars,
     queueVars, mainVars, workerVars
<1>3. ASSUME NEW w \in Workers, FinishHook(w) \/ UseApi(w) PROVE Goal
  BY <1>3 DEF FinishHook, UseApi, UnrefConn, TestRefable, TestNotRefable, NotifyClosing,
     IndexConn, CloseOwn, CloseOther, Goto, lifeVars, tableVars, lockVars, connVars, queueVars,
     mainVars, workerVars
<1>4. ASSUME (\E c \in Conn : ClientClose(c) \/ Accept(c)) \/ Signal \/ UNCHANGED vars PROVE Goal
  BY <1>4 DEF vars, Signal, ClientClose, lifeVars, tableVars, lockVars, connVars, queueVars,
     mainVars, workerVars
<1> HIDE DEF Goal
<1> QED
  BY <1>1, <1>2, <1>3, <1>4 DEF Next, Ended

\* What is in a queue after a push was there before or has been pushed.
LEMMA Pushed ==
  ASSUME NEW S, NEW queues \in [Workers -> Seq(S)], NEW w, NEW e \in S, NEW v \in Workers,
         NEW x \in Range(Push(queues, w, e)[v])
  PROVE  x \in Range(queues[v]) \/ (v = w /\ x = e)
<1>1. CASE v = w
  <2>1. queues[v] \in Seq(S) /\ Push(queues, w, e)[v] = Append(queues[v], e)
    BY <1>1, PushType
  <2>2. Range(Append(queues[v], e)) = Range(queues[v]) \cup {e}
    BY <2>1, PushFacts
  <2> QED
    BY <1>1, <2>1, <2>2
<1>2. CASE v # w
  BY <1>2, PushRange
<1> QED
  BY <1>1, <1>2

\* Every step leaves a connection with its owner or hands it over.
LEMMA OwnedStep == ASSUME Base, InUse, Use, [Next]_vars PROVE Owned'
<1> SUFFICES ASSUME NEW c \in Conn PROVE
        /\ MainOwns(c)' => /\ c \in live' /\ c \notin watched'
                           /\ \A w \in Workers : /\ ~Serves(w, c)'
                                                 /\ c \notin Range(accept_queue'[w])
                                                 /\ c \notin Range(close_queue'[w])
        /\ c \in watched' => c \in live' /\ thread'[c] # NULL
        /\ \A w \in Workers :
             /\ c \in Range(accept_queue'[w]) => c \in live' \ watched' /\ thread'[c] = w /\ ~Serves(w, c)'
             /\ Serves(w, c)' => c \in live' \ watched' /\ thread'[c] = w
             /\ c \in Range(close_queue'[w]) => c \in live' /\ thread'[c] = w /\ ~Serves(w, c)'
  BY DEF Owned
<1> DEFINE Goal ==
        /\ MainOwns(c)' => /\ c \in live' /\ c \notin watched'
                           /\ \A w \in Workers : /\ ~Serves(w, c)'
                                                 /\ c \notin Range(accept_queue'[w])
                                                 /\ c \notin Range(close_queue'[w])
        /\ c \in watched' => c \in live' /\ thread'[c] # NULL
        /\ \A w \in Workers :
             /\ c \in Range(accept_queue'[w]) => c \in live' \ watched' /\ thread'[c] = w /\ ~Serves(w, c)'
             /\ Serves(w, c)' => c \in live' \ watched' /\ thread'[c] = w
             /\ c \in Range(close_queue'[w]) => c \in live' /\ thread'[c] = w /\ ~Serves(w, c)'
<1>0. /\ MainOwns(c) => /\ c \in live /\ c \notin watched
                         /\ \A w \in Workers : /\ ~Serves(w, c)
                                               /\ c \notin Range(accept_queue[w])
                                               /\ c \notin Range(close_queue[w])
      /\ c \in watched => c \in live /\ thread[c] # NULL
      /\ \A w \in Workers :
           /\ c \in Range(accept_queue[w]) => c \in live \ watched /\ thread[c] = w /\ ~Serves(w, c)
           /\ Serves(w, c) => c \in live \ watched /\ thread[c] = w
           /\ c \in Range(close_queue[w]) => c \in live /\ thread[c] = w /\ ~Serves(w, c)
  BY DEF Use, Owned
<1>t. TypeOK /\ Places /\ Locked /\ Allocated /\ Assigned
  BY DEF Base, Use
<1>q. /\ accept_queue \in [Workers -> Seq(Conn)] /\ close_queue \in [Workers -> Seq(Conn)]
      /\ \A w \in Workers : IsInjective(accept_queue[w]) /\ IsInjective(close_queue[w])
  BY <1>t DEF TypeOK, Use, QueuedOnce
<1>h. /\ MainOwns(c)' => MainOwns(c) \/ Insert
      /\ \A w \in Workers : Serves(w, c)' =>
           Serves(w, c) \/ ReadEof(w, c) \/ TakeClose(w) \/ Drain(w)
  BY <1>t, HandsMove
<1>Quiet. ASSUME UNCHANGED <<live, watched, thread, accept_queue, close_queue>>, ~Insert,
             \A w \in Workers : ~ReadEof(w, c) /\ ~TakeClose(w) /\ ~Drain(w)
      PROVE Goal
  BY <1>0, <1>h, <1>Quiet

<1>Deny. ASSUME Deny PROVE Goal
  BY <1>Deny, <1>0, <1>t DEF Deny, MainGoto, Goto, Free, lifeVars, tableVars, lockVars, queueVars,
     workerVars, MainOwns, Serves, TypeOK, Places, WorkerPlace, Allocated, Handling, Having, Table!InsertConn,
     Table!RemoveConn
<1>Insert. ASSUME Insert PROVE Goal
  BY <1>Insert, <1>0, <1>t DEF Insert, MainGoto, Goto, lifeVars, lockVars, queueVars, workerVars,
     MainOwns, Serves, TypeOK, Places, WorkerPlace, Allocated, Handling, Having, Table!InsertConn,
     Table!RemoveConn
<1>Assign. ASSUME Assign PROVE Goal
  BY <1>Assign, <1>0, <1>t DEF Assign, MainGoto, Goto, WorkerOf, lifeVars, tableVars, lockVars,
     queueVars, workerVars, MainOwns, Serves, TypeOK, Places, WorkerPlace, Allocated, Handling, Having,
     Table!InsertConn, Table!RemoveConn
<1>RejectBegin. ASSUME RejectBegin PROVE Goal
  BY <1>RejectBegin, <1>0, <1>t DEF RejectBegin, MainGoto, Goto, RemoveBegin, lifeVars, connVars,
     queueVars, workerVars, MainOwns, Serves, TypeOK, Places, WorkerPlace, Allocated, Handling, Having,
     Table!InsertConn, Table!RemoveConn
<1>RejectEnd. ASSUME RejectEnd PROVE Goal
  BY <1>RejectEnd, <1>0, <1>t DEF RejectEnd, MainGoto, Goto, Free, RemoveEnd, lifeVars, tableVars,
     queueVars, workerVars, MainOwns, Serves, TypeOK, Places, WorkerPlace, Allocated, Handling, Having,
     Table!InsertConn, Table!RemoveConn
<1>Accept. ASSUME NEW d \in Conn, Accept(d) PROVE Goal
  <2>1. /\ d \notin alloc /\ thread' = [thread EXCEPT ![d] = NULL] /\ mpc' = "check"
        /\ UNCHANGED <<live, watched, accept_queue, close_queue, wpc, wconn>>
    BY <1>Accept DEF Accept, MainGoto, tableVars, queueVars, workerVars
  <2>2. ~MainOwns(c)' /\ \A w \in Workers : Serves(w, c)' <=> Serves(w, c)
    BY <2>1 DEF MainOwns, Serves
  <2>3. c \in live => thread'[c] = thread[c]
    <3>1. thread \in [Conn -> Workers \cup {NULL}] /\ live \subseteq alloc
      BY <1>t DEF TypeOK, Allocated
    <3> QED
      BY <2>1, <3>1
  <2> QED
    BY <1>0, <2>1, <2>2, <2>3
<1>BeginRemove. ASSUME NEW u \in Workers, BeginRemove(u) PROVE Goal
  <2> DEFINE d == wconn[u]
  <2>1. /\ wpc[u] = "remove" /\ wpc' = [wpc EXCEPT ![u] = "free"] /\ live' = live \ {d}
        /\ UNCHANGED <<watched, thread, accept_queue, close_queue, mpc, mconn, wconn>>
    BY <1>BeginRemove DEF BeginRemove, Goto, RemoveBegin, Table!RemoveConn, connVars, queueVars, mainVars
  <2>2. \A w \in Workers : Serves(w, c)' => Serves(w, c) /\ w # u
    BY <1>t, <2>1 DEF Serves, TypeOK
  <2>3. MainOwns(c)' <=> MainOwns(c)
    BY <2>1 DEF MainOwns
  <2>4. c = d => Serves(u, c)
    BY <2>1 DEF Serves
  <2>5. c = d => /\ c \notin watched /\ ~MainOwns(c) /\ thread[c] = u
                 /\ \A w \in Workers : /\ Serves(w, c) => w = u
                                       /\ c \notin Range(accept_queue[w])
                                       /\ c \notin Range(close_queue[w])
    BY <1>0, <2>4
  <2> HIDE DEF d
  <2>6. CASE c = d
    BY <2>1, <2>2, <2>3, <2>5, <2>6
  <2>7. CASE c # d
    BY <1>0, <2>1, <2>2, <2>3, <2>7
  <2> QED
    BY <2>6, <2>7
<1>EndRemove. ASSUME NEW u \in Workers, EndRemove(u) PROVE Goal
  <2>1. /\ wpc[u] = "free" /\ wpc' = [wpc EXCEPT ![u] = IF phase[u] = "drain" THEN "drain" ELSE "tell"]
        /\ wconn' = [wconn EXCEPT ![u] = NULL] /\ watched' = watched \ {wconn[u]}
        /\ UNCHANGED <<live, thread, accept_queue, close_queue, mpc, mconn>>
    BY <1>EndRemove DEF EndRemove, Goto, RemoveEnd, Free, tableVars, queueVars, mainVars
  <2>2. (\A w \in Workers : Serves(w, c)' => Serves(w, c)) /\ (MainOwns(c)' <=> MainOwns(c))
    <3>1. wpc \in [Workers -> WorkerPlaces] /\ wconn \in [Workers -> Conn \cup {NULL}]
      BY <1>t DEF TypeOK
    <3> QED
      BY <2>1, <3>1 DEF Serves, MainOwns
  <2> QED
    BY <1>0, <2>1, <2>2
<1>ReadEof. ASSUME NEW u \in Workers, NEW d \in Conn, ReadEof(u, d) PROVE Goal
  <2>1. d \in watched /\ d \in eof /\ thread[d] = u /\ watched' = watched \ {d}
        /\ wpc[u] = "loop" /\ wpc' = [wpc EXCEPT ![u] = "hook"] /\ wconn' = [wconn EXCEPT ![u] = d]
        /\ UNCHANGED <<live, thread, accept_queue, close_queue, mpc, mconn>>
    BY <1>ReadEof DEF ReadEof, Clean, Goto, tableVars, mainVars
  <2>2. LooksUp /\ mpc \notin Told /\ close_queue[u] = << >>
    BY <2>1 DEF Use, Used, InUse, ClosesOwn, Told, Ending
  <2>3. c \notin Range(close_queue[u])
    BY <2>2 DEF Range
  <2>4. \A w \in Workers : Serves(w, c)' <=> IF w = u THEN c = d ELSE Serves(w, c)
    <3>1. wpc \in [Workers -> WorkerPlaces] /\ wconn \in [Workers -> Conn \cup {NULL}]
      BY <1>t DEF TypeOK
    <3> QED
      BY <2>1, <3>1 DEF Serves
  <2>5. (MainOwns(c)' <=> MainOwns(c)) /\ ~Serves(u, c)
    BY <2>1 DEF MainOwns, Serves
  <2>6. CASE c = d
    <3>1. /\ c \in live /\ thread[c] = u /\ ~MainOwns(c) /\ c \notin watched'
          /\ \A w \in Workers : c \notin Range(accept_queue[w]) /\ ~Serves(w, c)
      BY <1>0, <2>1, <2>6
    <3>2. \A w \in Workers : c \notin Range(close_queue[w])
      BY <1>0, <2>3, <3>1
    <3> QED
      BY <2>1, <2>4, <2>5, <2>6, <3>1, <3>2
  <2>7. CASE c # d
    <3>1. \A w \in Workers : Serves(w, c)' => Serves(w, c)
      BY <2>4, <2>7
    <3> QED
      BY <1>0, <2>1, <2>5, <2>7, <3>1
  <2> QED
    BY <2>6, <2>7
<1>QueueAccepted. ASSUME QueueAccepted PROVE Goal
  <2>1. /\ mpc = "push" /\ mpc' = "notify" /\ accept_queue' = Push(accept_queue, mthread, mconn)
        /\ mconn \in Conn /\ UNCHANGED <<live, watched, thread, close_queue, wpc, wconn>>
    BY <1>t, <1>QueueAccepted DEF QueueAccepted, MainGoto, tableVars, connVars, workerVars,
       Places, WorkerPlace, Handling, TypeOK
  <2>2. thread[mconn] = mthread
    BY <2>1 DEF Use, Assigned
  <2>3. \A w \in Workers : c \in Range(accept_queue'[w]) => c \in Range(accept_queue[w]) \/ (w = mthread /\ c = mconn)
    BY <1>q, <2>1, Pushed
  <2>4. MainOwns(mconn)
    BY <2>1 DEF MainOwns
  <2> QED
    BY <1>0, <1>t, <2>1, <2>2, <2>3, <2>4 DEF MainOwns, Serves
<1>Register. ASSUME NEW u \in Workers, Register(u) PROVE Goal
  <2> DEFINE d == Head(accept_queue[u])
  <2>1. /\ accept_queue[u] # << >> /\ thread[d] = u /\ watched' = watched \cup {d} /\ wpc[u] = "notify"
        /\ accept_queue' = Pop(accept_queue, u)
        /\ UNCHANGED <<live, thread, close_queue, mpc, mconn, wpc, wconn>>
    BY <1>Register DEF Register, NextByte, tableVars, mainVars
  <2>2. \A w \in Workers : Range(accept_queue'[w]) \subseteq Range(accept_queue[w])
    BY <1>q, <2>1, PopRange
  <2>3. d \in Range(accept_queue[u]) /\ d \notin Range(accept_queue'[u])
    BY <1>q, <2>1, PopHead
  <2>4. (\A w \in Workers : Serves(w, c)' <=> Serves(w, c)) /\ (MainOwns(c)' <=> MainOwns(c)) /\ u # NULL
    BY <2>1, ServerAssumption DEF MainOwns, Serves, Workers
  <2>5. \A w \in Workers : c \in Range(accept_queue'[w]) => c \in Range(accept_queue[w]) /\ c # d
    BY <1>0, <2>1, <2>2, <2>3
  <2>6. c = d => c \in Range(accept_queue[u])
    BY <2>3
  <2> HIDE DEF d
  <2> QED
    BY <1>0, <2>1, <2>4, <2>5, <2>6
<1>TakeClose. ASSUME NEW u \in Workers, TakeClose(u) PROVE Goal
  <2> DEFINE d == Head(close_queue[u])
  <2>1. /\ close_queue[u] # << >> /\ watched' = watched \ {d} /\ wpc[u] = "notify"
        /\ wpc' = [wpc EXCEPT ![u] = "hook"] /\ wconn' = [wconn EXCEPT ![u] = d]
        /\ close_queue' = Pop(close_queue, u) /\ Head(buffer[u]) = "x" /\ buffer[u] # << >>
        /\ UNCHANGED <<live, thread, accept_queue, mpc, mconn>>
    BY <1>TakeClose DEF TakeClose, Clean, Goto, NextByte, tableVars, mainVars
  <2>2. \A w \in Workers : Range(close_queue'[w]) \subseteq Range(close_queue[w])
    BY <1>q, <2>1, PopRange
  <2>3. d \in Range(close_queue[u]) /\ d \notin Range(close_queue'[u]) /\ d \in Conn
    BY <1>q, <2>1, PopHead
  <2>4. "x" \in Range(buffer[u])
    BY <1>t, <2>1, PopFacts DEF TypeOK
  <2>5. d \in watched
    BY <2>3, <2>4 DEF Use, Used, ClosesWatched
  <2> HIDE DEF d
  <2>6. \A w \in Workers : Serves(w, c)' <=> IF w = u THEN c = d ELSE Serves(w, c)
    BY <1>t, <2>1, <2>3 DEF Serves, TypeOK
  <2>7. MainOwns(c)' <=> MainOwns(c)
    BY <2>1 DEF MainOwns
  <2>8. ~Serves(u, c)
    BY <2>1 DEF Serves
  <2>9. CASE c = d
    <3>1. /\ c \in live /\ thread[c] = u /\ ~MainOwns(c) /\ c \notin watched'
          /\ \A w \in Workers : c \notin Range(accept_queue[w])
      BY <1>0, <2>1, <2>3, <2>5, <2>9
    <3>2. \A w \in Workers : c \notin Range(close_queue'[w])
      BY <1>0, <2>2, <2>3, <2>9
    <3>3. ~MainOwns(c)' /\ \A w \in Workers : Serves(w, c)' => w = u
      BY <1>0, <2>6, <2>7, <2>9, <3>1
    <3> QED
      BY <2>1, <3>1, <3>2, <3>3
  <2>10. CASE c # d
    <3>1. \A w \in Workers : Serves(w, c)' => Serves(w, c)
      BY <2>6, <2>10
    <3> QED
      BY <1>0, <2>1, <2>2, <2>7, <2>10, <3>1
  <2> QED
    BY <2>9, <2>10
<1>Drain. ASSUME NEW u \in Workers, Drain(u) PROVE Goal
  <2> DEFINE d == Head(close_queue[u])
  <2>1. wpc[u] = "drain" /\ phase[u] = "drain" /\ accept_queue[u] = << >> /\ mpc \in Ending
    <3>1. wpc[u] = "drain" /\ phase[u] = "drain"
      BY <1>t, <1>Drain DEF Drain, Goto, Places, WorkerPlace
    <3> QED
      BY <3>1, DrainsNothing DEF Base, ToldInTime
  <2>2. /\ close_queue[u] # << >> /\ watched' = watched \ {d}
        /\ wpc' = [wpc EXCEPT ![u] = "hook"] /\ wconn' = [wconn EXCEPT ![u] = d]
        /\ close_queue' = Pop(close_queue, u) /\ UNCHANGED <<live, thread, accept_queue, mpc, mconn>>
    BY <1>t, <1>Drain, <2>1, DrainFacts DEF Drain, Clean, Goto, tableVars, mainVars, TypeOK
  <2>3. \A w \in Workers : Range(close_queue'[w]) \subseteq Range(close_queue[w])
    BY <1>q, <2>2, PopRange
  <2>4. d \in Range(close_queue[u]) /\ d \notin Range(close_queue'[u]) /\ d \in Conn
    BY <1>q, <2>2, PopHead
  <2>5. d \notin Range(accept_queue[u])
    BY <2>1 DEF Range
  <2> HIDE DEF d
  <2>6. \A w \in Workers : Serves(w, c)' <=> IF w = u THEN c = d ELSE Serves(w, c)
    BY <1>t, <2>2 DEF Serves, TypeOK
  <2>7. ~MainOwns(c)'
    BY <2>1, <2>2 DEF MainOwns, Ending
  <2>9. CASE c = d
    <3>1. /\ c \in live /\ thread[c] = u /\ c \notin watched'
          /\ \A w \in Workers : c \notin Range(accept_queue[w])
      BY <1>0, <2>2, <2>4, <2>5, <2>9
    <3>2. \A w \in Workers : c \notin Range(close_queue'[w])
      BY <1>0, <2>3, <2>4, <2>9
    <3>3. \A w \in Workers : Serves(w, c)' => w = u
      BY <1>0, <2>6, <3>1
    <3> QED
      BY <2>2, <2>7, <3>1, <3>2, <3>3
  <2>10. CASE c # d
    <3>1. \A w \in Workers : Serves(w, c)' => Serves(w, c)
      BY <2>6, <2>10
    <3> QED
      BY <1>0, <2>2, <2>3, <2>7, <2>10, <3>1
  <2> QED
    BY <2>9, <2>10
<1>QueueClosing. ASSUME NEW u \in Workers, QueueClosing(u) PROVE Goal
  <2> DEFINE d == wconn[u]
  <2>1. /\ wpc[u] = "queueing" /\ wpc' = [wpc EXCEPT ![u] = "writing"] /\ close_queue' = Push(close_queue, thread[d], d)
        /\ UNCHANGED <<live, watched, thread, accept_queue, mpc, mconn, wconn>>
    BY <1>QueueClosing DEF QueueClosing, Goto, tableVars, mainVars
  <2>2. d \in watched /\ thread[d] = u /\ d \in Conn
    BY <1>t, <2>1 DEF Use, ClosesWatched, TypeOK
  <2>3. \A w \in Workers : c \in Range(close_queue'[w]) => c \in Range(close_queue[w]) \/ (w = u /\ c = d)
    <3>1. close_queue' = Push(close_queue, u, d) /\ d \in Conn
      BY <2>1, <2>2
    <3> HIDE DEF d
    <3> QED
      BY <1>q, <3>1, Pushed
  <2> HIDE DEF d
  <2>4. (\A w \in Workers : Serves(w, c)' <=> Serves(w, c)) /\ (MainOwns(c)' <=> MainOwns(c))
    <3>1. wpc \in [Workers -> WorkerPlaces]
      BY <1>t DEF TypeOK
    <3> QED
      BY <2>1, <3>1 DEF MainOwns, Serves
  <2>5. c = d => c \in watched /\ thread[c] = u
    BY <2>2
  <2> QED
    BY <1>0, <2>1, <2>3, <2>4, <2>5
<1>ScanTable. ASSUME ScanTable PROVE Goal
  <2>1. /\ mpc = "scan" /\ mpc' = "dash" /\ close_queue' = [w \in Workers |-> close_queue[w] \o Scanned(w)]
        /\ UNCHANGED <<live, watched, thread, accept_queue, mconn, wpc, wconn>>
    BY <1>ScanTable DEF ScanTable, MainGoto, tableVars, connVars, workerVars
  <2>2. ASSUME NEW w \in Workers, c \in Range(close_queue'[w])
        PROVE  c \in Range(close_queue[w]) \/ (c \in live /\ thread[c] = w)
    <3>1. close_queue'[w] = close_queue[w] \o Scanned(w)
      BY <2>1
    <3>2. Range(close_queue'[w]) = Range(close_queue[w]) \cup Range(Scanned(w))
      <4>1. close_queue[w] \in Seq(Conn) /\ Scanned(w) \in Seq(Conn)
        BY <1>q, <1>t, ScannedFacts DEF TypeOK
      <4> QED
        BY <3>1, <4>1, ConcatRange
    <3>3. \A d \in Range(Scanned(w)) : d \in live /\ thread[d] = w
      <4>1. \A i \in 0 .. MaxClients : iconns[i] # NULL => iconns[i] \in live
        BY DEF Use, TableProof!IndInv, TableProof!TableExact, TableProof!Slots
      <4>2. iconns \in [0 .. MaxClients -> Conn \cup {NULL}] /\ 0 .. MaxClients - 1 \subseteq 0 .. MaxClients
        BY <1>t, ServerAssumption DEF TypeOK
      <4>3. Range(Scanned(w)) =
              {iconns[i] : i \in {j \in 0 .. MaxClients - 1 : iconns[j] # NULL /\ thread[iconns[j]] = w}}
        BY <4>2, ScannedFacts
      <4> QED
        BY <4>1, <4>2, <4>3
    <3> QED
      BY <2>2, <3>2, <3>3
  <2>3. \A w \in Workers : ~Serves(w, c)
    <3>1. eof = {}
      BY <2>1 DEF Use, Used, Ending
    <3>2. LooksUp
      BY <2>1 DEF InUse, ClosesOwn, Use, Used, Ending
    <3>3. \A w \in Workers : phase[w] # "drain"
      BY <2>1 DEF Base, ToldInTime
    <3> QED
      BY <3>1, <3>2, <3>3 DEF Use, Used, Serves
  <2> QED
    BY <1>0, <1>t, <2>1, <2>2, <2>3 DEF MainOwns, Serves

<1> HIDE DEF Goal
<1>9. Goal
  BY <1>Deny, <1>Insert, <1>Assign, <1>QueueAccepted, <1>RejectBegin, <1>RejectEnd, <1>ScanTable,
     <1>Accept, <1>Register, <1>TakeClose, <1>ReadEof, <1>Drain, <1>BeginRemove, <1>EndRemove,
     <1>QueueClosing, <1>Quiet, OwnMoves
<1> QED
  BY <1>9 DEF Goal

\* Steps that touch a queue of connections.
LEMMA QueueMoves ==
  [Next]_vars =>
    \/ UNCHANGED <<accept_queue, close_queue>>
    \/ QueueAccepted \/ ScanTable
    \/ \E w \in Workers : Register(w) \/ TakeClose(w) \/ Drain(w) \/ QueueClosing(w)
<1> DEFINE Goal ==
    \/ UNCHANGED <<accept_queue, close_queue>>
    \/ QueueAccepted \/ ScanTable
    \/ \E w \in Workers : Register(w) \/ TakeClose(w) \/ Drain(w) \/ QueueClosing(w)
<1> SUFFICES ASSUME [Next]_vars PROVE Goal
  OBVIOUS
<1>1. ASSUME MainStep PROVE Goal
  BY <1>1 DEF MainStep, StartModule, CreateWorkers, Barrier, CheckRoom, Deny, Insert, Assign,
     AcceptHook, NotifyAccepted, RejectBegin, RejectEnd, EnableAccept, SendDash, Join,
     StopModule, MainGoto, Goto, Free, RemoveBegin, RemoveEnd, lifeVars, tableVars, lockVars,
     connVars, queueVars, mainVars, workerVars
<1>2. ASSUME NEW w \in Workers, Serve(w) PROVE Goal
  BY <1>2 DEF Serve, ReadPipe, Break, EndNotify, ReadEof, ThreadInit, EnterLoop, LeaveLoop,
     ThreadDestory, Exit, CloseHook, BeginRemove, EndRemove, TellMain, Goto, Free, RemoveBegin,
     RemoveEnd, Clean, lifeVars, tableVars, lockVars, connVars, queueVars, mainVars, workerVars
<1>3. ASSUME NEW w \in Workers, FinishHook(w) \/ UseApi(w) PROVE Goal
  BY <1>3 DEF FinishHook, UseApi, UnrefConn, TestRefable, TestNotRefable, NotifyClosing,
     IndexConn, CloseOwn, CloseOther, Goto, lifeVars, tableVars, lockVars, connVars, queueVars,
     mainVars, workerVars
<1>4. ASSUME (\E c \in Conn : ClientClose(c) \/ Accept(c)) \/ Signal \/ UNCHANGED vars PROVE Goal
  BY <1>4 DEF vars, Signal, ClientClose, Accept, lifeVars, tableVars, lockVars, connVars,
     queueVars, mainVars, workerVars
<1> HIDE DEF Goal
<1> QED
  BY <1>1, <1>2, <1>3, <1>4 DEF Next, Ended

\* A queue into which nothing is pushed that it holds already holds nothing twice.
LEMMA PushedOnce ==
  ASSUME NEW S, NEW queues \in [Workers -> Seq(S)], NEW w, NEW e \in S, NEW v \in Workers,
         IsInjective(queues[v]), e \notin Range(queues[v])
  PROVE  IsInjective(Push(queues, w, e)[v])
<1>1. CASE v = w
  <2>1. queues[v] \in Seq(S) /\ Push(queues, w, e)[v] = Append(queues[v], e)
    BY <1>1, PushType
  <2> QED
    BY <2>1, PushFacts
<1>2. CASE v # w
  BY <1>2, PushType
<1> QED
  BY <1>1, <1>2

\* No step queues a connection twice.
LEMMA QueuedOnceStep == ASSUME Base, InUse, Use, [Next]_vars PROVE QueuedOnce'
<1> SUFFICES ASSUME NEW w \in Workers
             PROVE  IsInjective(accept_queue'[w]) /\ IsInjective(close_queue'[w])
  BY DEF QueuedOnce
<1> DEFINE Goal == IsInjective(accept_queue'[w]) /\ IsInjective(close_queue'[w])
<1>t. TypeOK /\ Places /\ Owned /\ ClosesWatched /\ Used
  BY DEF Base, Use
<1>q. /\ accept_queue \in [Workers -> Seq(Conn)] /\ close_queue \in [Workers -> Seq(Conn)]
      /\ IsInjective(accept_queue[w]) /\ IsInjective(close_queue[w])
  BY <1>t DEF TypeOK, Use, QueuedOnce
<1>1. ASSUME QueueAccepted PROVE Goal
  <2>1. accept_queue' = Push(accept_queue, mthread, mconn) /\ close_queue' = close_queue /\ mconn \in Conn
    BY <1>t, <1>1 DEF QueueAccepted, MainGoto, Places, WorkerPlace, Handling, TypeOK
  <2>2. mconn \notin Range(accept_queue[w])
    BY <1>t, <1>1, <2>1 DEF QueueAccepted, MainGoto, Owned, MainOwns
  <2> QED
    BY <1>q, <2>1, <2>2, PushedOnce
<1>2. ASSUME NEW u \in Workers, Register(u) PROVE Goal
  <2>1. accept_queue[u] # << >> /\ accept_queue' = Pop(accept_queue, u) /\ close_queue' = close_queue
    BY <1>2 DEF Register
  <2> QED
    BY <1>q, <2>1, PopRange
<1>3. ASSUME NEW u \in Workers, TakeClose(u) PROVE Goal
  <2>1. close_queue[u] # << >> /\ close_queue' = Pop(close_queue, u) /\ accept_queue' = accept_queue
    BY <1>3 DEF TakeClose
  <2> QED
    BY <1>q, <2>1, PopRange
<1>4. ASSUME NEW u \in Workers, Drain(u) PROVE Goal
  <2>1. \/ accept_queue[u] # << >> /\ accept_queue' = Pop(accept_queue, u) /\ close_queue' = close_queue
        \/ close_queue[u] # << >> /\ close_queue' = Pop(close_queue, u) /\ accept_queue' = accept_queue
    BY <1>q, <1>4, DrainFacts DEF Drain
  <2>2. CASE accept_queue[u] # << >> /\ accept_queue' = Pop(accept_queue, u) /\ close_queue' = close_queue
    BY <1>q, <2>2, PopRange
  <2>3. CASE close_queue[u] # << >> /\ close_queue' = Pop(close_queue, u) /\ accept_queue' = accept_queue
    BY <1>q, <2>3, PopRange
  <2> QED
    BY <2>1, <2>2, <2>3
<1>5. ASSUME NEW u \in Workers, QueueClosing(u) PROVE Goal
  <2> DEFINE d == wconn[u]
  <2>1. /\ close_queue' = Push(close_queue, thread[d], d) /\ accept_queue' = accept_queue
        /\ d \in refable /\ ~LooksUp /\ d \in Conn
    BY <1>t, <1>5 DEF QueueClosing, Goto, ClosesWatched, Used, TypeOK
  <2>2. d \notin Range(close_queue[w])
    BY <1>t, <2>1 DEF ClosesWatched
  <2> HIDE DEF d
  <2> QED
    BY <1>q, <2>1, <2>2, PushedOnce
<1>6. ASSUME ScanTable PROVE Goal
  <2>1. mpc = "scan" /\ close_queue'[w] = close_queue[w] \o Scanned(w) /\ accept_queue' = accept_queue
    BY <1>6 DEF ScanTable, MainGoto
  <2>2. close_queue[w] = << >>
    BY <1>t, <2>1 DEF Used, InUse, ClosesOwn, Ending, Told
  <2>3. iconns \in [0 .. MaxClients -> Conn \cup {NULL}]
    BY <1>t DEF TypeOK
  <2>4. \A i, j \in 0 .. MaxClients : iconns[i] # NULL /\ iconns[i] = iconns[j] => i = j
    BY DEF Use, TableProof!IndInv, TableProof!TableExact, TableProof!Slots
  <2>5. IsInjective(Scanned(w)) /\ Scanned(w) \in Seq(Conn)
    BY <2>3, <2>4, ScannedFacts
  <2> QED
    BY <1>q, <2>1, <2>2, <2>5
<1> HIDE DEF Goal
<1>7. Goal
  <2>1. ASSUME UNCHANGED <<accept_queue, close_queue>> PROVE Goal
    BY <1>q, <2>1 DEF Goal
  <2> QED
    BY <1>1, <1>2, <1>3, <1>4, <1>5, <1>6, <2>1, QueueMoves
<1> QED
  BY <1>7 DEF Goal

\* Steps that touch the table or the memory of the connections.
LEMMA AllocMoves ==
  [Next]_vars =>
    \/ UNCHANGED <<live, alloc>>
    \/ Deny \/ Insert \/ RejectBegin \/ RejectEnd
    \/ \E w \in Workers : BeginRemove(w) \/ EndRemove(w)
    \/ \E c \in Conn : Accept(c)
<1> DEFINE Goal ==
    \/ UNCHANGED <<live, alloc>>
    \/ Deny \/ Insert \/ RejectBegin \/ RejectEnd
    \/ \E w \in Workers : BeginRemove(w) \/ EndRemove(w)
    \/ \E c \in Conn : Accept(c)
<1> SUFFICES ASSUME [Next]_vars PROVE Goal
  OBVIOUS
<1>1. ASSUME MainStep PROVE Goal
  BY <1>1 DEF MainStep, StartModule, CreateWorkers, Barrier, CheckRoom, Assign, AcceptHook,
     QueueAccepted, NotifyAccepted, EnableAccept, ScanTable, SendDash, Join, StopModule,
     MainGoto, Goto, lifeVars, tableVars, lockVars, connVars, queueVars, mainVars, workerVars
<1>2. ASSUME NEW w \in Workers, Serve(w) PROVE Goal
  BY <1>2 DEF Serve, ReadPipe, Register, TakeClose, Break, EndNotify, ReadEof, ThreadInit,
     EnterLoop, Drain, LeaveLoop, ThreadDestory, Exit, CloseHook, TellMain, Goto, Clean,
     lifeVars, tableVars, lockVars, connVars, queueVars, mainVars, workerVars
<1>3. ASSUME NEW w \in Workers, FinishHook(w) \/ UseApi(w) PROVE Goal
  BY <1>3 DEF FinishHook, UseApi, UnrefConn, TestRefable, TestNotRefable, QueueClosing,
     NotifyClosing, IndexConn, CloseOwn, CloseOther, Goto, lifeVars, tableVars, lockVars,
     connVars, queueVars, mainVars, workerVars
<1>4. ASSUME (\E c \in Conn : ClientClose(c) \/ Accept(c)) \/ Signal \/ UNCHANGED vars PROVE Goal
  BY <1>4 DEF vars, Signal, ClientClose, lifeVars, tableVars, lockVars, connVars, queueVars,
     mainVars, workerVars
<1> HIDE DEF Goal
<1> QED
  BY <1>1, <1>2, <1>3, <1>4 DEF Next, Ended

\* The last element of a queue is one of its elements.
LEMMA LastInRange ==
  ASSUME NEW S, NEW q \in Seq(S), q # << >>
  PROVE  q[Len(q)] \in Range(q)
<1>1. Len(q) \in Nat \ {0} /\ DOMAIN q = 1 .. Len(q)
  BY LenProperties, EmptySeq
<1> QED
  BY <1>1 DEF Range

\* Every step keeps what is in the table, or about to enter it, allocated.
LEMMA AllocatedStep == ASSUME Base, InUse, Use, [Next]_vars PROVE Allocated'
<1>t. TypeOK /\ Places /\ Locked /\ Allocated
  BY DEF Base, Use
<1>f. /\ mpc' = "free" => (mpc = "free" /\ mconn' = mconn) \/ RejectBegin
      /\ \A w \in Workers : wpc'[w] = "free" =>
           (wpc[w] = "free" /\ wconn'[w] = wconn[w]) \/ BeginRemove(w)
  BY <1>t, FreeMoves
<1>o. /\ mpc = "reject" => mconn \in live
      /\ \A w \in Workers : wpc[w] = "remove" => wconn[w] \in live /\ wconn[w] # mconn
  <2>1. mpc = "reject" => mconn \in live
    BY <1>t DEF Use, Owned, MainOwns, Places, WorkerPlace, Handling, TypeOK
  <2>2. ASSUME NEW w \in Workers, wpc[w] = "remove" PROVE wconn[w] \in live /\ wconn[w] # mconn
    <3>1. wconn[w] \in Conn /\ wconn[w] \in live /\ Serves(w, wconn[w])
      BY <1>t, <2>2 DEF Use, Owned, Serves, Places, WorkerPlace, Having, TypeOK
    <3>2. CASE mpc = "notify"
      <4>1. /\ mthread \in Workers /\ accept_queue[mthread] \in Seq(Conn) /\ accept_queue[mthread] # << >>
            /\ accept_queue[mthread][Len(accept_queue[mthread])] = mconn
        BY <1>t, <3>2 DEF Use, Assigned, TypeOK
      <4>2. mconn \in Range(accept_queue[mthread])
        BY <4>1, LastInRange
      <4> QED
        BY <3>1, <4>1, <4>2 DEF Use, Owned, Serves
    <3>3. CASE mpc # "notify"
      <4> SUFFICES ASSUME wconn[w] = mconn PROVE FALSE
        BY <3>1
      <4>1. ~MainOwns(mconn)
        BY <3>1 DEF Use, Owned
      <4>2. mpc \notin Handling
        BY <1>t, <3>1, <3>3, <4>1 DEF MainOwns, Allocated, Handling
      <4> QED
        BY <1>t, <3>1, <4>2, ServerAssumption DEF Places, WorkerPlace
    <3> QED
      BY <3>1, <3>2, <3>3
  <2> QED
    BY <2>1, <2>2

<1>Deny. ASSUME Deny PROVE Allocated'
  BY <1>Deny, <1>f, <1>o, <1>t DEF Deny, MainGoto, Goto, Free, lifeVars, tableVars, lockVars,
     queueVars, workerVars, Allocated, TypeOK, Places, WorkerPlace, Locked, Handling, Having, Table!InsertConn,
     Table!RemoveConn
<1>Insert. ASSUME Insert PROVE Allocated'
  BY <1>Insert, <1>f, <1>o, <1>t DEF Insert, MainGoto, Goto, lifeVars, lockVars, queueVars,
     workerVars, Allocated, TypeOK, Places, WorkerPlace, Locked, Handling, Having, Table!InsertConn,
     Table!RemoveConn
<1>RejectBegin. ASSUME RejectBegin PROVE Allocated'
  BY <1>RejectBegin, <1>f, <1>o, <1>t DEF RejectBegin, MainGoto, Goto, RemoveBegin, lifeVars,
     connVars, queueVars, workerVars, Allocated, TypeOK, Places, WorkerPlace, Locked, Handling, Having,
     Table!InsertConn, Table!RemoveConn
<1>RejectEnd. ASSUME RejectEnd PROVE Allocated'
  BY <1>RejectEnd, <1>f, <1>o, <1>t DEF RejectEnd, MainGoto, Goto, Free, RemoveEnd, lifeVars,
     tableVars, queueVars, workerVars, Allocated, TypeOK, Places, WorkerPlace, Locked, Handling, Having,
     Table!InsertConn, Table!RemoveConn
<1>Accept. ASSUME NEW c \in Conn, Accept(c) PROVE Allocated'
  BY <1>Accept, <1>f, <1>o, <1>t DEF Accept, MainGoto, Goto, lifeVars, tableVars, lockVars,
     queueVars, workerVars, Allocated, TypeOK, Places, WorkerPlace, Locked, Handling, Having, Table!InsertConn,
     Table!RemoveConn
<1>BeginRemove. ASSUME NEW w \in Workers, BeginRemove(w) PROVE Allocated'
  BY <1>BeginRemove, <1>f, <1>o, <1>t DEF BeginRemove, Goto, RemoveBegin, lifeVars, connVars,
     queueVars, mainVars, Allocated, TypeOK, Places, WorkerPlace, Locked, Handling, Having, Table!InsertConn,
     Table!RemoveConn
<1>EndRemove. ASSUME NEW u \in Workers, EndRemove(u) PROVE Allocated'
  <2> DEFINE d == wconn[u]
  <2>1. /\ wpc[u] = "free" /\ wpc' = [wpc EXCEPT ![u] = IF phase[u] = "drain" THEN "drain" ELSE "tell"]
        /\ wconn' = [wconn EXCEPT ![u] = NULL] /\ alloc' = alloc \ {d}
        /\ UNCHANGED <<live, mpc, mconn>>
    BY <1>EndRemove DEF EndRemove, Goto, RemoveEnd, Free, tableVars, mainVars
  <2>2. d \notin live /\ d # mconn /\ \A w \in Workers : wpc[w] = "free" => w = u
    BY <1>t, <2>1 DEF Allocated, Locked
  <2>3. \A w \in Workers : wpc'[w] # "free"
    <3>1. wpc \in [Workers -> WorkerPlaces]
      BY <1>t DEF TypeOK
    <3> QED
      BY <2>1, <2>2, <3>1
  <2> HIDE DEF d
  <2> QED
    BY <1>t, <2>1, <2>2, <2>3 DEF Allocated
<1>Rest. ASSUME UNCHANGED <<live, alloc>>, ~RejectBegin, \A w \in Workers : ~BeginRemove(w), \A c
   \in Conn : ~Accept(c)
      PROVE Allocated'
  <2>1. /\ mpc' \in {"check", "deny", "insert", "free"} => mconn' = mconn /\ mpc \in {"check", "deny", "insert", "free"}
        /\ mconn' = mconn \/ mconn' = NULL
    BY <1>f, <1>Rest, MainMoves DEF MainGoto, StartModule, CreateWorkers, Barrier, CheckRoom,
       Deny, Insert, Assign, AcceptHook, QueueAccepted, NotifyAccepted, RejectEnd, EnableAccept,
       ScanTable, SendDash, Join, StopModule, Signal
  <2>2. NULL \notin alloc
    BY <1>t, ServerAssumption DEF TypeOK
  <2> QED
    BY <1>f, <1>t, <1>Rest, <2>1, <2>2 DEF Allocated
<1> QED
  BY <1>Deny, <1>Insert, <1>RejectBegin, <1>RejectEnd, <1>Accept, <1>BeginRemove, <1>EndRemove,
     <1>Rest, AllocMoves

\* Steps that touch the table or the thread of a connection.
LEMMA AssignMoves ==
  [Next]_vars =>
    \/ UNCHANGED <<live, thread>>
    \/ Insert \/ Assign \/ RejectBegin
    \/ \E w \in Workers : BeginRemove(w)
    \/ \E c \in Conn : Accept(c)
<1> DEFINE Goal ==
    \/ UNCHANGED <<live, thread>>
    \/ Insert \/ Assign \/ RejectBegin
    \/ \E w \in Workers : BeginRemove(w)
    \/ \E c \in Conn : Accept(c)
<1> SUFFICES ASSUME [Next]_vars PROVE Goal
  OBVIOUS
<1>1. ASSUME MainStep PROVE Goal
  BY <1>1 DEF MainStep, StartModule, CreateWorkers, Barrier, CheckRoom, Deny, AcceptHook,
     QueueAccepted, NotifyAccepted, RejectEnd, EnableAccept, ScanTable, SendDash, Join,
     StopModule, MainGoto, Goto, Free, RemoveEnd, lifeVars, tableVars, lockVars, connVars,
     queueVars, mainVars, workerVars
<1>2. ASSUME NEW w \in Workers, Serve(w) PROVE Goal
  BY <1>2 DEF Serve, ReadPipe, Register, TakeClose, Break, EndNotify, ReadEof, ThreadInit,
     EnterLoop, Drain, LeaveLoop, ThreadDestory, Exit, CloseHook, EndRemove, TellMain, Goto,
     Free, RemoveEnd, Clean, lifeVars, tableVars, lockVars, connVars, queueVars, mainVars,
     workerVars
<1>3. ASSUME NEW w \in Workers, FinishHook(w) \/ UseApi(w) PROVE Goal
  BY <1>3 DEF FinishHook, UseApi, UnrefConn, TestRefable, TestNotRefable, QueueClosing,
     NotifyClosing, IndexConn, CloseOwn, CloseOther, Goto, lifeVars, tableVars, lockVars,
     connVars, queueVars, mainVars, workerVars
<1>4. ASSUME (\E c \in Conn : ClientClose(c) \/ Accept(c)) \/ Signal \/ UNCHANGED vars PROVE Goal
  BY <1>4 DEF vars, Signal, ClientClose, lifeVars, tableVars, lockVars, connVars, queueVars,
     mainVars, workerVars
<1> HIDE DEF Goal
<1> QED
  BY <1>1, <1>2, <1>3, <1>4 DEF Next, Ended

\* Every step keeps the thread of a connection, and the main thread's entry behind
\* the entries that have their bytes.
LEMMA AssignedStep == ASSUME Base, InUse, Use, [Next]_vars PROVE Assigned'
<1>t. TypeOK /\ Places /\ Locked /\ Allocated /\ Owned /\ Assigned
  BY DEF Base, Use
<1>1. Assign => mthread' \in Workers /\ mthread' = thread'[mconn] /\ mconn \in live
  <2> SUFFICES ASSUME Assign PROVE mthread' \in Workers /\ mthread' = thread'[mconn] /\ mconn \in live
    OBVIOUS
  <2>1. mpc = "assign" /\ mconn \in Conn /\ mthread' = WorkerOf(index[mconn])
        /\ thread' = [thread EXCEPT ![mconn] = mthread']
    BY <1>t DEF Assign, MainGoto, Places, WorkerPlace, Handling, TypeOK
  <2>2. mconn \in live
    BY <1>t, <2>1 DEF Owned, MainOwns
  <2>3. index[mconn] \in 1 .. MaxClients
    BY <2>1, <2>2 DEF Use, TableProof!IndInv, TableProof!TypeOK, TableProof!TableExact, TableProof!Slots
  <2>4. mthread' \in Workers
    BY <2>1, <2>3, ServerAssumption DEF WorkerOf, Workers
  <2> QED
    BY <1>t, <2>1, <2>2, <2>4 DEF TypeOK
<1>n. NULL \notin Workers
  BY ServerAssumption DEF Workers
<1>2. \A c \in live' : thread'[c] # NULL \/ (mpc' = "assign" /\ mconn' = c)
  <2> DEFINE Goal == \A c \in live' : thread'[c] # NULL \/ (mpc' = "assign" /\ mconn' = c)
  <2>1. CASE Assign
    BY <1>t, <1>1, <1>n, <2>1 DEF Assign, MainGoto, tableVars, Assigned, TypeOK
  <2>2. CASE Insert
    BY <1>t, <2>2 DEF Insert, MainGoto, Assigned, Table!InsertConn
  <2>3. ASSUME NEW c \in Conn, Accept(c) PROVE Goal
    BY <1>t, <2>3 DEF Accept, MainGoto, tableVars, Allocated, Assigned, TypeOK
  <2>4. ASSUME ~Assign, ~Insert, \A c \in Conn : ~Accept(c) PROVE Goal
    <3>1. mpc = "assign" => mpc' = "assign" /\ mconn' = mconn
      BY <2>4, MainMoves DEF MainGoto, StartModule, CreateWorkers, Barrier, CheckRoom, Deny,
         Insert, Assign, AcceptHook, QueueAccepted, NotifyAccepted, RejectBegin, RejectEnd,
         EnableAccept, ScanTable, SendDash, Join, StopModule, Signal, Accept
    <3>2. live' \subseteq live /\ thread' = thread
      BY <2>4, AssignMoves DEF RejectBegin, BeginRemove, RemoveBegin, Table!RemoveConn, connVars
    <3> QED
      BY <1>t, <3>1, <3>2 DEF Assigned
  <2> HIDE DEF Goal
  <2>5. Goal
    BY <2>1, <2>2, <2>3, <2>4 DEF Goal
  <2> QED
    BY <2>5 DEF Goal
<1>3. mpc' \in {"hook", "push", "reject"} => mthread' = thread'[mconn']
  <2> SUFFICES ASSUME mpc' \in {"hook", "push", "reject"} PROVE mthread' = thread'[mconn']
    OBVIOUS
  <2>1. CASE Assign
    BY <1>1, <2>1 DEF Assign
  <2>2. CASE ~Assign
    <3>1. mpc \in {"hook", "push", "reject"} /\ mconn' = mconn /\ mthread' = mthread
      BY <2>2, MainMoves DEF MainGoto, StartModule, CreateWorkers, Barrier, CheckRoom, Deny,
         Insert, Assign, AcceptHook, QueueAccepted, NotifyAccepted, RejectBegin, RejectEnd,
         EnableAccept, ScanTable, SendDash, Join, StopModule, Signal, Accept
    <3>2. thread' = thread
      BY <2>2, <3>1, AssignMoves DEF Insert, Accept, MainGoto, RejectBegin, BeginRemove, connVars
    <3> QED
      BY <1>t, <3>1, <3>2 DEF Assigned
  <2> QED
    BY <2>1, <2>2
<1>4. ASSUME mpc' = "notify"
      PROVE  /\ mthread' # NULL /\ accept_queue'[mthread'] # << >>
             /\ accept_queue'[mthread'][Len(accept_queue'[mthread'])] = mconn'
  <2>q. accept_queue \in [Workers -> Seq(Conn)]
    BY <1>t DEF TypeOK
  <2>1. CASE QueueAccepted
    <3>1. /\ mpc = "push" /\ accept_queue' = Push(accept_queue, mthread, mconn)
          /\ mconn' = mconn /\ mthread' = mthread /\ mconn \in Conn
      BY <1>t, <2>1 DEF QueueAccepted, MainGoto, Places, WorkerPlace, Handling, TypeOK
    <3>2. mthread \in Workers
      BY <1>t, <3>1 DEF Owned, MainOwns, Assigned, TypeOK
    <3>3. accept_queue'[mthread] = Append(accept_queue[mthread], mconn) /\ accept_queue[mthread] \in Seq(Conn)
      BY <2>q, <3>1, <3>2, PushType
    <3> QED
      BY <1>n, <3>1, <3>2, <3>3, PushFacts
  <2>2. CASE ~QueueAccepted
    <3>1. mpc = "notify" /\ mconn' = mconn /\ mthread' = mthread /\ ~NotifyAccepted
      BY <1>4, <2>2, MainMoves DEF MainGoto, StartModule, CreateWorkers, Barrier, CheckRoom, Deny,
         Insert, Assign, AcceptHook, QueueAccepted, NotifyAccepted, RejectBegin, RejectEnd,
         EnableAccept, ScanTable, SendDash, Join, StopModule, Signal, Accept
    <3>2. /\ mthread \in Workers /\ accept_queue[mthread] # << >> /\ accept_queue[mthread] \in Seq(Conn)
          /\ accept_queue[mthread][Len(accept_queue[mthread])] = mconn
      BY <1>t, <2>q, <3>1 DEF Assigned, TypeOK
    <3>3. ASSUME NEW w \in Workers, Register(w), w = mthread
          PROVE  /\ accept_queue'[mthread] # << >>
                 /\ accept_queue'[mthread][Len(accept_queue'[mthread])] = mconn
      <4>1. /\ accept_queue' = Pop(accept_queue, mthread) /\ buffer[mthread] # << >>
            /\ Head(buffer[mthread]) = "l" /\ buffer[mthread] \in Seq(Byte) /\ pipe[mthread] \in Seq(Byte)
        BY <1>t, <3>3 DEF Register, NextByte, TypeOK
      <4>2. "l" \in Range(buffer[mthread])
        BY <4>1, PopFacts
      <4>3. Bytes(mthread, "l") \in Nat /\ Bytes(mthread, "l") # 0
        BY <4>1, <4>2, CountFacts DEF Bytes
      <4>4. Len(accept_queue[mthread]) = Bytes(mthread, "l") + 1
        BY <3>1, <3>2 DEF Base, LBytes, AcceptUnsent
      <4>5. Len(accept_queue[mthread]) > 1
        BY <4>3, <4>4
      <4>6. accept_queue'[mthread] = Tail(accept_queue[mthread])
        <5>1. accept_queue \in [Workers -> Seq(Conn)]
          BY <2>q
        <5>2. Pop(accept_queue, mthread)[mthread] = Tail(accept_queue[mthread])
          BY <3>2, <5>1, PopSeen, Zenon
        <5> QED
          BY <4>1, <5>2
      <4> QED
        BY <3>2, <4>5, <4>6, PopFacts
    <3>4. ASSUME NEW w \in Workers, Register(w), w # mthread
          PROVE  accept_queue'[mthread] = accept_queue[mthread]
      BY <2>q, <3>2, <3>4, PopType DEF Register
    <3>5. ASSUME NEW w \in Workers, Drain(w) PROVE accept_queue' = accept_queue
      <4>1. accept_queue[w] = << >>
        BY <1>t, <3>5, DrainsNothing DEF Base, Drain, Goto, Places, WorkerPlace
      <4> QED
        BY <3>5, <4>1 DEF Drain
    <3>6. ASSUME NEW w \in Workers, TakeClose(w) \/ QueueClosing(w) PROVE accept_queue' = accept_queue
      BY <3>6 DEF TakeClose, QueueClosing
    <3> QED
      BY <2>2, <3>1, <3>2, <1>n, <3>3, <3>4, <3>5, <3>6, QueueMoves DEF ScanTable
  <2> QED
    BY <2>1, <2>2
<1> QED
  BY <1>2, <1>3, <1>4 DEF Assigned

\* The environment stays what it is.
LEMMA SceneStays ==
  [Next]_vars => scene' = scene
<1> DEFINE Goal == scene' = scene
<1> SUFFICES ASSUME [Next]_vars PROVE Goal
  OBVIOUS
<1>1. ASSUME MainStep PROVE Goal
  BY <1>1 DEF MainStep, StartModule, CreateWorkers, Barrier, CheckRoom, Deny, Insert, Assign,
     AcceptHook, QueueAccepted, NotifyAccepted, RejectBegin, RejectEnd, EnableAccept, ScanTable,
     SendDash, Join, StopModule, MainGoto, Goto, Free, RemoveBegin, RemoveEnd, lifeVars,
     tableVars, lockVars, connVars, queueVars, mainVars, workerVars
<1>2. ASSUME NEW w \in Workers, Serve(w) PROVE Goal
  BY <1>2 DEF Serve, ReadPipe, Register, TakeClose, Break, EndNotify, ReadEof, ThreadInit,
     EnterLoop, Drain, LeaveLoop, ThreadDestory, Exit, CloseHook, BeginRemove, EndRemove,
     TellMain, Goto, Free, RemoveBegin, RemoveEnd, Clean, lifeVars, tableVars, lockVars,
     connVars, queueVars, mainVars, workerVars
<1>3. ASSUME NEW w \in Workers, FinishHook(w) \/ UseApi(w) PROVE Goal
  BY <1>3 DEF FinishHook, UseApi, UnrefConn, TestRefable, TestNotRefable, QueueClosing,
     NotifyClosing, IndexConn, CloseOwn, CloseOther, Goto, lifeVars, tableVars, lockVars,
     connVars, queueVars, mainVars, workerVars
<1>4. ASSUME (\E c \in Conn : ClientClose(c) \/ Accept(c)) \/ Signal \/ UNCHANGED vars PROVE Goal
  BY <1>4 DEF vars, Signal, ClientClose, Accept, lifeVars, tableVars, lockVars, connVars,
     queueVars, mainVars, workerVars
<1> HIDE DEF Goal
<1> QED
  BY <1>1, <1>2, <1>3, <1>4 DEF Next, Ended

\* Steps that touch what is known of the clients.
LEMMA EofMoves ==
  [Next]_vars =>
    \/ UNCHANGED <<eof>>
    \/ Deny \/ RejectEnd
    \/ \E w \in Workers : EndRemove(w)
    \/ \E c \in Conn : ClientClose(c)
<1> DEFINE Goal ==
    \/ UNCHANGED <<eof>>
    \/ Deny \/ RejectEnd
    \/ \E w \in Workers : EndRemove(w)
    \/ \E c \in Conn : ClientClose(c)
<1> SUFFICES ASSUME [Next]_vars PROVE Goal
  OBVIOUS
<1>1. ASSUME MainStep PROVE Goal
  BY <1>1 DEF MainStep, StartModule, CreateWorkers, Barrier, CheckRoom, Insert, Assign,
     AcceptHook, QueueAccepted, NotifyAccepted, RejectBegin, EnableAccept, ScanTable, SendDash,
     Join, StopModule, MainGoto, Goto, RemoveBegin, lifeVars, tableVars, lockVars, connVars,
     queueVars, mainVars, workerVars
<1>2. ASSUME NEW w \in Workers, Serve(w) PROVE Goal
  BY <1>2 DEF Serve, ReadPipe, Register, TakeClose, Break, EndNotify, ReadEof, ThreadInit,
     EnterLoop, Drain, LeaveLoop, ThreadDestory, Exit, CloseHook, BeginRemove, TellMain, Goto,
     RemoveBegin, Clean, lifeVars, tableVars, lockVars, connVars, queueVars, mainVars,
     workerVars
<1>3. ASSUME NEW w \in Workers, FinishHook(w) \/ UseApi(w) PROVE Goal
  BY <1>3 DEF FinishHook, UseApi, UnrefConn, TestRefable, TestNotRefable, QueueClosing,
     NotifyClosing, IndexConn, CloseOwn, CloseOther, Goto, lifeVars, tableVars, lockVars,
     connVars, queueVars, mainVars, workerVars
<1>4. ASSUME (\E c \in Conn : ClientClose(c) \/ Accept(c)) \/ Signal \/ UNCHANGED vars PROVE Goal
  BY <1>4 DEF vars, Signal, Accept, lifeVars, tableVars, lockVars, connVars, queueVars,
     mainVars, workerVars
<1> HIDE DEF Goal
<1> QED
  BY <1>1, <1>2, <1>3, <1>4 DEF Next, Ended

\* A worker that is closing a connection has been before or begins now.
LEMMA ClosingMoves ==
  ASSUME TypeOK, [Next]_vars, NEW w \in Workers
  PROVE  /\ wpc'[w] \in {"hook", "remove", "free"} =>
              \/ wpc[w] \in {"hook", "remove", "free"} /\ wconn'[w] = wconn[w]
              \/ TakeClose(w) \/ Drain(w) \/ \E c \in Conn : ReadEof(w, c)
         /\ wpc'[w] \in {"closing", "queueing", "writing"} =>
              \/ wpc[w] \in {"closing", "queueing", "writing"} /\ wconn'[w] = wconn[w]
              \/ CloseOther(w) \/ \E c \in Conn : CloseOwn(w, c)
<1>1. wpc \in [Workers -> WorkerPlaces] /\ wconn \in [Workers -> Conn \cup {NULL}]
  BY DEF TypeOK
<1> DEFINE Goal ==
         /\ wpc'[w] \in {"hook", "remove", "free"} =>
              \/ wpc[w] \in {"hook", "remove", "free"} /\ wconn'[w] = wconn[w]
              \/ TakeClose(w) \/ Drain(w) \/ \E c \in Conn : ReadEof(w, c)
         /\ wpc'[w] \in {"closing", "queueing", "writing"} =>
              \/ wpc[w] \in {"closing", "queueing", "writing"} /\ wconn'[w] = wconn[w]
              \/ CloseOther(w) \/ \E c \in Conn : CloseOwn(w, c)
<1>2. ASSUME UNCHANGED <<wpc, wconn, held>> \/ CreateWorkers PROVE Goal
  BY <1>1, <1>2 DEF CreateWorkers
<1>3. ASSUME NEW v \in Workers, ReadPipe(v) \/ EndNotify(v) \/ EnterLoop(v) \/ LeaveLoop(v) \/
   Exit(v) \/ CloseHook(v) \/ BeginRemove(v) \/ EndRemove(v) \/ TellMain(v) \/ UnrefConn(v) \/
   TestRefable(v) \/ TestNotRefable(v) \/ QueueClosing(v) \/ NotifyClosing(v)
      PROVE  Goal
  BY <1>1, <1>3 DEF Goto, HookPlace, ReadPipe, EndNotify, EnterLoop, LeaveLoop, Exit, CloseHook,
     BeginRemove, EndRemove, TellMain, UnrefConn, TestRefable, TestNotRefable, QueueClosing,
     NotifyClosing
<1>4. ASSUME NEW v \in Workers, TakeClose(v) \/ Drain(v) \/ CloseOther(v) PROVE Goal
  BY <1>1, <1>4 DEF Goto, Clean, TakeClose, Drain, CloseOther
<1>5. ASSUME NEW v \in Workers, NEW c \in Conn, ReadEof(v, c) \/ CloseOwn(v, c) PROVE Goal
  <2>1. v = w => Goal
    BY <1>1, <1>5 DEF Goto, ReadEof, CloseOwn
  <2>2. v # w => wpc'[w] = wpc[w] /\ wconn'[w] = wconn[w]
    BY <1>1, <1>5 DEF Goto, Clean, ReadEof, CloseOwn
  <2> QED
    BY <2>1, <2>2
<1>6. ASSUME NEW v \in Workers, NEW i \in 1 .. MaxClients, IndexConn(v, i) PROVE Goal
  BY <1>1, <1>6 DEF Goto, IndexConn
<1> HIDE DEF Goal
<1>7. Goal
  BY <1>2, <1>3, <1>4, <1>5, <1>6, PlaceMoves
<1> QED
  BY <1>7 DEF Goal

\* Every step keeps out what does not happen in these uses.
LEMMA UsedStep == ASSUME Base, InUse, Use, [Next]_vars PROVE Used'
<1>t. TypeOK /\ Places /\ Locked /\ Allocated /\ Owned /\ Used /\ scene' = scene
  BY SceneStays DEF Base, Use
<1>s. scene.closes \in {"always", "settled", "never"}
  BY <1>t, ServerAssumption DEF TypeOK
<1>1. (scene.closes = "never" => eof' = {})
      /\ (mpc' \in Ending => scene.signals /\ eof' = {})
  <2>1. eof' \subseteq eof \/ \E c \in Conn : ClientClose(c)
    BY EofMoves DEF Deny, RejectEnd, EndRemove, RemoveEnd, Free
  <2>2. ASSUME NEW c \in Conn, ClientClose(c)
        PROVE  scene.closes # "never" /\ mpc \notin Ending /\ mpc' = mpc
    BY <1>s, <1>t, <2>2 DEF ClientClose, mainVars, Used, Ending, InUse, LooksUp, ClosesOwn
  <2>3. mpc' \in Ending => mpc \in Ending \/ (scene.signals /\ eof = {} /\ eof' = eof)
    <3>1. Signal => scene.signals /\ eof = {} /\ eof' = eof
      BY <1>s, <1>t DEF Signal, connVars, Used, InUse, LooksUp, ClosesOwn
    <3> QED
      BY <3>1, MainMoves DEF Ending, MainGoto, StartModule, CreateWorkers, Barrier, CheckRoom,
         Deny, Insert, Assign, AcceptHook, QueueAccepted, NotifyAccepted, RejectBegin, RejectEnd,
         EnableAccept, ScanTable, SendDash, Join, StopModule, Accept
  <2> QED
    BY <1>t, <2>1, <2>2, <2>3 DEF Used
<1>2. ASSUME NEW w \in Workers, wpc'[w] \in {"hook", "remove", "free"}, LooksUp
      PROVE  wconn'[w] \in eof' \/ phase'[w] = "drain"
  <2>1. ASSUME NEW c \in Conn, ReadEof(w, c) PROVE wconn'[w] \in eof'
    BY <1>t, <2>1 DEF ReadEof, Clean, TypeOK
  <2>2. ~TakeClose(w)
    <3>1. ASSUME TakeClose(w) PROVE FALSE
      <4>1. buffer[w] \in Seq(Byte) /\ buffer[w] # << >> /\ Head(buffer[w]) = "x"
        BY <1>t, <3>1 DEF TakeClose, NextByte, TypeOK
      <4>2. "x" \in Range(buffer[w])
        BY <4>1, PopFacts
      <4> QED
        BY <1>2, <1>t, <4>2 DEF Used
    <3> QED
      BY <3>1
  <2>3. Drain(w) => phase'[w] = "drain"
    BY <1>t DEF Drain, Clean, Goto, Places, WorkerPlace
  <2>4. ASSUME wpc[w] \in {"hook", "remove", "free"}, wconn'[w] = wconn[w]
        PROVE  wconn'[w] \in eof' \/ phase'[w] = "drain"
    <3>1. wconn[w] \in eof \/ phase[w] = "drain"
      BY <1>2, <1>t, <2>4 DEF Used
    <3>2. CASE phase[w] = "drain"
      BY <1>t, <2>4, <3>2, PhaseMoves DEF CreateWorkers, MainGoto, Places, WorkerPlace, Break, NextByte,
         EndNotify, EnterLoop, Exit, Goto, TypeOK
    <3>3. CASE wconn[w] \in eof
      <4>1. /\ mpc \in {"deny", "free"} => wconn[w] # mconn
            /\ \A v \in Workers \ {w} : wpc[v] = "free" => wconn[w] # wconn[v]
        <5>1. wconn[w] \in Conn
          BY <1>t, <2>4 DEF Places, WorkerPlace, Having, TypeOK
        <5>2. CASE wpc[w] = "free"
          BY <1>t, <5>2 DEF Allocated, Locked
        <5>3. CASE wpc[w] # "free"
          <6>1. wconn[w] \in live
            BY <1>t, <2>4, <5>1, <5>3 DEF Owned, Serves
          <6> QED
            BY <1>t, <6>1 DEF Allocated
        <5> QED
          BY <5>2, <5>3
      <4>2. ~EndRemove(w)
        BY <1>2, <1>t DEF EndRemove, Goto, TypeOK
      <4>3. ASSUME NEW v \in Workers, EndRemove(v) PROVE wconn[w] \in eof'
        BY <3>3, <4>1, <4>2, <4>3 DEF EndRemove, Goto, RemoveEnd, Free
      <4>4. ASSUME NEW c \in Conn, ClientClose(c) PROVE wconn[w] \in eof'
        BY <3>3, <4>4 DEF ClientClose
      <4>5. Deny \/ RejectEnd => wconn[w] \in eof'
        BY <3>3, <4>1 DEF Deny, RejectEnd, MainGoto, RemoveEnd, Free
      <4>6. wconn[w] \in eof'
        BY <3>3, <4>3, <4>4, <4>5, EofMoves
      <4> QED
        BY <2>4, <4>6
    <3> QED
      BY <3>1, <3>2, <3>3
  <2> QED
    BY <1>2, <1>t, <2>1, <2>2, <2>3, <2>4, ClosingMoves
<1>3. ASSUME NEW w \in Workers, LooksUp
      PROVE  /\ wpc'[w] \notin {"closing", "queueing", "writing"}
             /\ "x" \notin Range(pipe'[w]) \cup Range(buffer'[w])
             /\ mpc' \notin Told => close_queue'[w] = << >>
  <2>u. /\ \A v \in Workers : wpc[v] \notin {"closing", "queueing", "writing"}
        /\ "x" \notin Range(pipe[w]) \cup Range(buffer[w])
        /\ mpc \notin Told => close_queue[w] = << >>
    BY <1>3, <1>t DEF Used
  <2>q. pipe \in [Workers -> Seq(Byte)] /\ buffer \in [Workers -> Seq(Byte)] /\ "l" \in Byte /\ "-" \in Byte
    BY <1>t DEF TypeOK, Byte
  <2>1. wpc'[w] \notin {"closing", "queueing", "writing"}
    BY <1>3, <1>t, <2>u, ClosingMoves DEF CloseOwn, CloseOther, LooksUp
  <2>2. "x" \notin Range(pipe'[w]) \cup Range(buffer'[w])
    <3> DEFINE Goal == "x" \notin Range(pipe'[w]) \cup Range(buffer'[w])
    <3>1. ASSUME NEW v \in Workers, ReadPipe(v) PROVE Goal
      BY <2>q, <2>u, <3>1 DEF ReadPipe, Range
    <3>2. ASSUME NEW v \in Workers, Register(v) \/ TakeClose(v) \/ Break(v) PROVE Goal
      <4>1. buffer[v] # << >> /\ buffer' = Pop(buffer, v) /\ pipe' = pipe
        BY <3>2 DEF Register, TakeClose, Break, NextByte, Clean, queueVars
      <4>2. Range(buffer'[w]) \subseteq Range(buffer[w])
        BY <2>q, <4>1, PopRange
      <4> QED
        BY <2>u, <4>1, <4>2
    <3>3. ASSUME NotifyAccepted \/ SendDash PROVE Goal
      <4>1. PICK b \in {"l", "-"} : buffer' = buffer /\ \E v : pipe' = Push(pipe, v, b)
        BY <3>3 DEF NotifyAccepted, SendDash, workerVars
      <4>2. \A x \in Range(pipe'[w]) : x \in Range(pipe[w]) \/ x = b
        <5>1. PICK v : pipe' = Push(pipe, v, b)
          BY <4>1
        <5>2. b \in Byte
          BY <2>q
        <5> QED
          BY <2>q, <5>1, <5>2, Pushed
      <4> QED
        BY <2>u, <4>1, <4>2
    <3>4. ASSUME NEW v \in Workers PROVE ~NotifyClosing(v)
      BY <2>u DEF NotifyClosing, Goto
    <3>5. ASSUME UNCHANGED <<pipe, buffer, phase>> PROVE Goal
      BY <2>u, <3>5
    <3>6. ASSUME NEW v \in Workers, EndNotify(v) \/ EnterLoop(v) \/ Exit(v) PROVE Goal
      BY <2>u, <3>6 DEF EndNotify, EnterLoop, Exit, queueVars
    <3>7. ASSUME CreateWorkers PROVE Goal
      BY <2>u, <3>7 DEF CreateWorkers, queueVars
    <3> HIDE DEF Goal
    <3>8. Goal
      BY <3>1, <3>2, <3>3, <3>4, <3>5, <3>6, <3>7, ToldMoves
    <3> QED
      BY <3>8 DEF Goal
  <2>3. ASSUME mpc' \notin Told PROVE close_queue'[w] = << >>
    <3>1. mpc \notin Told
      BY <2>3, EndsForGood DEF Told
    <3>2. ~ScanTable
      BY <2>3 DEF ScanTable, MainGoto, Told, Ending
    <3>3. ASSUME NEW v \in Workers PROVE ~QueueClosing(v)
      BY <2>u DEF QueueClosing, Goto
    <3>4. ASSUME NEW v \in Workers PROVE ~TakeClose(v) /\ (Drain(v) => close_queue' = close_queue)
      <4>1. close_queue[v] = << >>
        BY <1>3, <1>t, <3>1 DEF Used
      <4>2. Drain(v) => accept_queue[v] # << >>
        BY <1>t, <4>1, DrainFacts DEF Drain, TypeOK
      <4> QED
        BY <4>1, <4>2 DEF TakeClose, Drain
    <3> QED
      BY <2>u, <3>1, <3>2, <3>3, <3>4, QueueMoves DEF QueueAccepted, Register
  <2> QED
    BY <2>1, <2>2, <2>3
<1> QED
  BY <1>1, <1>2, <1>3, <1>t DEF Used, LooksUp

\* Steps that touch what a connection may be used for.
LEMMA RefableMoves ==
  [Next]_vars =>
    \/ UNCHANGED <<watched, refable, thread>>
    \/ Deny \/ Insert \/ Assign \/ RejectEnd
    \/ \E w \in Workers : Register(w) \/ TakeClose(w) \/ Drain(w) \/ EndRemove(w) \/ QueueClosing(w)
    \/ \E c \in Conn : Accept(c)
    \/ \E w \in Workers, c \in Conn : ReadEof(w, c)
<1> DEFINE Goal ==
    \/ UNCHANGED <<watched, refable, thread>>
    \/ Deny \/ Insert \/ Assign \/ RejectEnd
    \/ \E w \in Workers : Register(w) \/ TakeClose(w) \/ Drain(w) \/ EndRemove(w) \/ QueueClosing(w)
    \/ \E c \in Conn : Accept(c)
    \/ \E w \in Workers, c \in Conn : ReadEof(w, c)
<1> SUFFICES ASSUME [Next]_vars PROVE Goal
  OBVIOUS
<1>1. ASSUME MainStep PROVE Goal
  BY <1>1 DEF MainStep, StartModule, CreateWorkers, Barrier, CheckRoom, AcceptHook,
     QueueAccepted, NotifyAccepted, RejectBegin, EnableAccept, ScanTable, SendDash, Join,
     StopModule, MainGoto, Goto, RemoveBegin, lifeVars, tableVars, lockVars, connVars,
     queueVars, mainVars, workerVars
<1>2. ASSUME NEW w \in Workers, Serve(w) PROVE Goal
  BY <1>2 DEF Serve, ReadPipe, Break, EndNotify, ThreadInit, EnterLoop, LeaveLoop,
     ThreadDestory, Exit, CloseHook, BeginRemove, TellMain, Goto, RemoveBegin, lifeVars,
     tableVars, lockVars, connVars, queueVars, mainVars, workerVars
<1>3. ASSUME NEW w \in Workers, FinishHook(w) \/ UseApi(w) PROVE Goal
  BY <1>3 DEF FinishHook, UseApi, UnrefConn, TestRefable, TestNotRefable, NotifyClosing,
     IndexConn, CloseOwn, CloseOther, Goto, lifeVars, tableVars, lockVars, connVars, queueVars,
     mainVars, workerVars
<1>4. ASSUME (\E c \in Conn : ClientClose(c) \/ Accept(c)) \/ Signal \/ UNCHANGED vars PROVE Goal
  BY <1>4 DEF vars, Signal, ClientClose, lifeVars, tableVars, lockVars, connVars, queueVars,
     mainVars, workerVars
<1> HIDE DEF Goal
<1> QED
  BY <1>1, <1>2, <1>3, <1>4 DEF Next, Ended

\* Every step leaves the connections that hooks close watched by their worker.
LEMMA ClosesWatchedStep == ASSUME Base, InUse, Use, [Next]_vars PROVE ClosesWatched'
<1>t. TypeOK /\ Places /\ Locked /\ Allocated /\ Owned /\ Used /\ ClosesWatched /\ Assigned /\ scene' = scene
  BY SceneStays DEF Base, Use
<1> SUFFICES ASSUME ~LooksUp PROVE ClosesWatched'
  <2>1. CASE LooksUp
    <3>1. Used'
      BY UsedStep
    <3> QED
      BY <1>t, <2>1, <3>1 DEF Used, ClosesWatched, LooksUp
  <2> QED
    BY <2>1
<1>u. eof = {} /\ mpc \notin Ending /\ \A w \in Workers : phase[w] \in {"none", "init", "run"}
  BY <1>t DEF InUse, ClosesOwn, Used, Base, ToldInTime
<1>q. /\ accept_queue \in [Workers -> Seq(Conn)] /\ close_queue \in [Workers -> Seq(Conn)]
      /\ \A w \in Workers : IsInjective(close_queue[w])
  BY <1>t DEF TypeOK, Use, QueuedOnce
\* A connection that is watched stays so unless its worker takes it to close it.
<1>1. ASSUME NEW c \in watched
      PROVE  /\ thread'[c] = thread[c]
             /\ c \in watched' \/ \E v \in Workers : TakeClose(v) /\ c = Head(close_queue[v])
             /\ c \notin refable => c \notin refable'
             /\ c \in refable => c \in refable' \/ \E v \in Workers : QueueClosing(v) /\ c = wconn[v]
  <2> DEFINE Goal ==
             /\ thread'[c] = thread[c]
             /\ c \in watched' \/ \E v \in Workers : TakeClose(v) /\ c = Head(close_queue[v])
             /\ c \notin refable => c \notin refable'
             /\ c \in refable => c \in refable' \/ \E v \in Workers : QueueClosing(v) /\ c = wconn[v]
  <2>0. c \in Conn /\ c \in live /\ c \in alloc
    BY <1>t DEF TypeOK, Owned, Allocated
  <2>1. ASSUME Deny PROVE Goal
    BY <1>t, <2>0, <2>1 DEF Deny, MainGoto, Free, Allocated
  <2>2. ASSUME Insert PROVE Goal
    BY <1>t, <2>0, <2>2 DEF Insert, MainGoto, Allocated
  <2>3. ASSUME Assign PROVE Goal
    BY <1>t, <2>0, <2>3 DEF Assign, MainGoto, Owned, MainOwns, TypeOK
  <2>4. ASSUME RejectEnd PROVE Goal
    BY <1>t, <2>0, <2>4 DEF RejectEnd, MainGoto, RemoveEnd, Free, Allocated
  <2>5. ASSUME NEW d \in Conn, Accept(d) PROVE Goal
    BY <1>t, <2>0, <2>5 DEF Accept, TypeOK
  <2>6. ASSUME NEW v \in Workers, Register(v) PROVE Goal
    BY <2>6 DEF Register
  <2>7. ASSUME NEW v \in Workers, TakeClose(v) PROVE Goal
    BY <2>7 DEF TakeClose, Clean
  <2>8. ASSUME NEW v \in Workers, NEW d \in Conn, ReadEof(v, d) PROVE Goal
    BY <1>u, <2>8 DEF ReadEof
  <2>9. ASSUME NEW v \in Workers, Drain(v) PROVE Goal
    BY <1>t, <1>u, <2>9 DEF Drain, Goto, Places, WorkerPlace
  <2>10. ASSUME NEW v \in Workers, EndRemove(v) PROVE Goal
    BY <1>t, <2>0, <2>10 DEF EndRemove, Goto, RemoveEnd, Free, Allocated
  <2>11. ASSUME NEW v \in Workers, QueueClosing(v) PROVE Goal
    BY <2>11 DEF QueueClosing
  <2>12. ASSUME UNCHANGED <<watched, refable, thread>> PROVE Goal
    BY <2>12
  <2> HIDE DEF Goal
  <2>13. Goal
    BY <2>1, <2>2, <2>3, <2>4, <2>5, <2>6, <2>7, <2>8, <2>9, <2>10, <2>11, <2>12, RefableMoves
  <2> QED
    BY <2>13 DEF Goal
<1>2. ASSUME NEW w \in Workers, wpc'[w] \in {"closing", "queueing", "writing"}
      PROVE  /\ wconn'[w] \in watched' /\ thread'[wconn'[w]] = w
             /\ wpc'[w] = "queueing" => wconn'[w] \in refable'
  <2>1. CASE \E c \in Conn : CloseOwn(w, c)
    <3>1. PICK c \in Conn : CloseOwn(w, c)
      BY <2>1
    <3>2. c \in watched /\ thread[c] = w /\ wconn'[w] = c /\ wpc'[w] = "closing" /\ UNCHANGED connVars
      BY <1>t, <3>1 DEF CloseOwn, Hooked, Goto, TypeOK
    <3> QED
      BY <3>2 DEF connVars
  <2>2. CASE CloseOther(w)
    <3>1. "close_other" \notin scene.ops
      BY DEF InUse, ClosesOwn, LooksUp
    <3>2. held[w] \in watched /\ thread[held[w]] = w
      BY <2>2, <3>1 DEF CloseOther, Hooked
    <3>3. wconn'[w] = held[w] /\ wpc'[w] = "closing" /\ UNCHANGED connVars
      BY <1>t, <2>2 DEF CloseOther, Goto, TypeOK
    <3> QED
      BY <3>2, <3>3 DEF connVars
  <2>3. CASE ~(\E c \in Conn : CloseOwn(w, c)) /\ ~CloseOther(w)
    <3>1. wpc[w] \in {"closing", "queueing", "writing"} /\ wconn'[w] = wconn[w]
      BY <1>2, <1>t, <2>3, ClosingMoves
    <3> DEFINE d == wconn[w]
    <3>2. d \in watched /\ thread[d] = w /\ (wpc[w] = "queueing" => d \in refable)
      BY <1>t, <3>1 DEF ClosesWatched
    <3>3. ASSUME NEW v \in Workers, TakeClose(v), d = Head(close_queue[v]) PROVE FALSE
      <4>1. d \in Range(close_queue[v]) /\ d \in Conn
        <5>1. close_queue[v] # << >>
          BY <3>3 DEF TakeClose
        <5> HIDE DEF d
        <5> QED
          BY <1>q, <3>3, <5>1, PopHead
      <4>2. v = w
        BY <1>t, <3>2, <4>1 DEF Owned
      <4> QED
        BY <3>1, <3>3, <4>2 DEF TakeClose, NextByte
    <3>4. wpc'[w] = "queueing" => d \in refable'
      <4>1. ASSUME wpc'[w] = "queueing", wpc[w] # "queueing" PROVE d \in refable'
        <5>1. \E v \in Workers : TestRefable(v)
          <6>1. wpc \in [Workers -> WorkerPlaces]
            BY <1>t DEF TypeOK
          <6>2. ~UNCHANGED <<wpc, wconn, held>> /\ ~CreateWorkers
            BY <4>1 DEF CreateWorkers
          <6>3. ASSUME NEW v \in Workers, ReadPipe(v) \/ TakeClose(v) \/ EndNotify(v) \/ EnterLoop(v) \/ Drain(v) \/ LeaveLoop(v) \/ Exit(v) \/ CloseHook(v) \/ BeginRemove(v) \/ EndRemove(v) \/ TellMain(v) \/ UnrefConn(v) \/ TestNotRefable(v) \/ QueueClosing(v) \/ NotifyClosing(v) \/ CloseOther(v)
                PROVE  FALSE
            BY <4>1, <6>1, <6>3 DEF Goto, HookPlace, ReadPipe, TakeClose, EndNotify, EnterLoop,
               Drain,
               LeaveLoop, Exit, CloseHook, BeginRemove, EndRemove, TellMain, UnrefConn, TestNotRefable,
               QueueClosing, NotifyClosing, CloseOther
          <6>4. ASSUME NEW v \in Workers,
                       \/ \E c \in Conn : ReadEof(v, c) \/ CloseOwn(v, c)
                       \/ \E i \in 1 .. MaxClients : IndexConn(v, i)
                PROVE  FALSE
            BY <4>1, <6>1, <6>4 DEF Goto, ReadEof, CloseOwn, IndexConn
          <6> QED
            BY <6>2, <6>3, <6>4, PlaceMoves
        <5>2. PICK v \in Workers : TestRefable(v)
          BY <5>1
        <5>3. v = w
          BY <1>t, <4>1, <5>2 DEF TestRefable, Goto, TypeOK
        <5> QED
          BY <5>2, <5>3 DEF TestRefable, connVars
      <4>2. ASSUME wpc'[w] = "queueing", wpc[w] = "queueing" PROVE d \in refable'
        <5>1. ASSUME NEW v \in Workers, QueueClosing(v), d = wconn[v] PROVE FALSE
          <6>1. wpc[v] = "queueing" /\ wpc'[v] = "writing"
            BY <1>t, <5>1 DEF QueueClosing, Goto, TypeOK
          <6>2. thread[d] = v
            BY <1>t, <5>1, <6>1 DEF ClosesWatched
          <6> QED
            BY <3>2, <4>2, <6>1, <6>2
        <5> QED
          BY <1>1, <3>2, <4>2, <5>1
      <4> QED
        BY <4>1, <4>2
    <3> QED
      BY <1>1, <3>1, <3>2, <3>3, <3>4
  <2> QED
    BY <2>1, <2>2, <2>3
<1>3. ASSUME NEW w \in Workers, NEW c \in Range(close_queue'[w]) PROVE c \in watched' /\ c \notin
   refable'
  <2>1. ASSUME NEW u \in Workers, QueueClosing(u), c = wconn[u] PROVE c \in watched' /\ c \notin refable'
    <3>1. c \in watched
      BY <1>t, <2>1 DEF QueueClosing, Goto, ClosesWatched
    <3> QED
      BY <2>1, <3>1 DEF QueueClosing
  <2>2. c \in Range(close_queue[w]) \/ \E u \in Workers : QueueClosing(u) /\ c = wconn[u]
    <3>1. ASSUME NEW u \in Workers, QueueClosing(u), c # wconn[u] PROVE c \in Range(close_queue[w])
      <4>1. close_queue' = Push(close_queue, thread[wconn[u]], wconn[u]) /\ wconn[u] \in Conn
        BY <1>t, <3>1 DEF QueueClosing, Goto, Places, WorkerPlace, Having, TypeOK
      <4> QED
        BY <1>q, <3>1, <4>1, Pushed
    <3>2. ASSUME NEW u \in Workers, TakeClose(u) PROVE c \in Range(close_queue[w])
      <4>1. close_queue[u] # << >> /\ close_queue' = Pop(close_queue, u)
        BY <3>2 DEF TakeClose
      <4> QED
        BY <1>q, <4>1, PopRange
    <3>3. ~ScanTable /\ \A u \in Workers : ~Drain(u)
      BY <1>t, <1>u DEF ScanTable, MainGoto, Ending, Drain, Goto, Places, WorkerPlace
    <3> QED
      BY <3>1, <3>2, <3>3, QueueMoves DEF QueueAccepted, Register
  <2>3. ASSUME c \in Range(close_queue[w]) PROVE c \in watched' /\ c \notin refable'
    <3>1. c \in watched /\ c \notin refable /\ c \in Conn /\ thread[c] = w
      BY <1>t, <2>3 DEF ClosesWatched, Owned, TypeOK
    <3>2. ASSUME NEW v \in Workers, TakeClose(v), c = Head(close_queue[v]) PROVE FALSE
      <4>1. close_queue[v] # << >> /\ close_queue' = Pop(close_queue, v)
        BY <3>2 DEF TakeClose
      <4>2. c \in Range(close_queue[v]) /\ c \notin Range(close_queue'[v])
        BY <1>q, <3>2, <4>1, PopHead
      <4> QED
        BY <1>3, <1>t, <3>1, <4>2 DEF Owned
    <3> QED
      BY <1>1, <3>1, <3>2
  <2> QED
    BY <2>1, <2>2, <2>3
<1> QED
  BY <1>2, <1>3 DEF ClosesWatched

\* Steps of the table.
LEMMA TableMoves ==
  [Next]_vars =>
    \/ UNCHANGED <<conn_num, iqueue, iconns, index, live>>
    \/ Insert \/ RejectBegin
    \/ \E w \in Workers : BeginRemove(w)
<1> DEFINE Goal ==
    \/ UNCHANGED <<conn_num, iqueue, iconns, index, live>>
    \/ Insert \/ RejectBegin
    \/ \E w \in Workers : BeginRemove(w)
<1> SUFFICES ASSUME [Next]_vars PROVE Goal
  OBVIOUS
<1>1. ASSUME MainStep PROVE Goal
  BY <1>1 DEF MainStep, StartModule, CreateWorkers, Barrier, CheckRoom, Deny, Assign,
     AcceptHook, QueueAccepted, NotifyAccepted, RejectEnd, EnableAccept, ScanTable, SendDash,
     Join, StopModule, MainGoto, Goto, Free, RemoveEnd, lifeVars, tableVars, lockVars, connVars,
     queueVars, mainVars, workerVars
<1>2. ASSUME NEW w \in Workers, Serve(w) PROVE Goal
  BY <1>2 DEF Serve, ReadPipe, Register, TakeClose, Break, EndNotify, ReadEof, ThreadInit,
     EnterLoop, Drain, LeaveLoop, ThreadDestory, Exit, CloseHook, EndRemove, TellMain, Goto,
     Free, RemoveEnd, Clean, lifeVars, tableVars, lockVars, connVars, queueVars, mainVars,
     workerVars
<1>3. ASSUME NEW w \in Workers, FinishHook(w) \/ UseApi(w) PROVE Goal
  BY <1>3 DEF FinishHook, UseApi, UnrefConn, TestRefable, TestNotRefable, QueueClosing,
     NotifyClosing, IndexConn, CloseOwn, CloseOther, Goto, lifeVars, tableVars, lockVars,
     connVars, queueVars, mainVars, workerVars
<1>4. ASSUME (\E c \in Conn : ClientClose(c) \/ Accept(c)) \/ Signal \/ UNCHANGED vars PROVE Goal
  BY <1>4 DEF vars, Signal, ClientClose, Accept, lifeVars, tableVars, lockVars, connVars,
     queueVars, mainVars, workerVars
<1> HIDE DEF Goal
<1> QED
  BY <1>1, <1>2, <1>3, <1>4 DEF Next, Ended

\* The server only takes steps the table allows.
LEMMA TableStep ==
  ASSUME Base, InUse, Use, [Next]_vars
  PROVE  \/ UNCHANGED tableVars
         \/ \E c \in Conn : Insert /\ c = mconn /\ Table!MayInsert(c) /\ Table!InsertConn(c)
         \/ \E c \in live : Table!RemoveConn(c)
<1>t. TypeOK /\ Places /\ Owned /\ Allocated /\ Room
  BY DEF Base, Use
<1>1. ASSUME Insert
      PROVE  mconn \in Conn /\ Table!MayInsert(mconn) /\ Table!InsertConn(mconn)
  BY <1>t, <1>1 DEF Insert, MainGoto, Places, WorkerPlace, Handling, TypeOK, Allocated, Room, Table!MayInsert
<1>2. ASSUME RejectBegin PROVE mconn \in live /\ Table!RemoveConn(mconn)
  BY <1>t, <1>2 DEF RejectBegin, RemoveBegin, MainGoto, Places, WorkerPlace, Handling, TypeOK, Owned, MainOwns
<1>3. ASSUME NEW w \in Workers, BeginRemove(w) PROVE wconn[w] \in live /\ Table!RemoveConn(wconn[w])
  BY <1>t, <1>3 DEF BeginRemove, RemoveBegin, Goto, Places, WorkerPlace, Having, TypeOK, Owned, Serves
<1> QED
  BY <1>1, <1>2, <1>3, TableMoves DEF tableVars

\* The table of the server is the one the theorems of ConnTableProof are about.
LEMMA SameTable ==
  /\ Table!tableVars = TableProof!tableVars
  /\ tableVars = TableProof!tableVars
  /\ \A c : /\ Table!MayInsert(c) <=> TableProof!MayInsert(c)
            /\ Table!InsertConn(c) <=> TableProof!InsertConn(c)
            /\ Table!RemoveConn(c) <=> TableProof!RemoveConn(c)
<1>2. Table!tableVars = TableProof!tableVars /\ tableVars = TableProof!tableVars
  BY DEF tableVars, Table!tableVars, TableProof!tableVars
<1>3. \A c : /\ Table!MayInsert(c) <=> TableProof!MayInsert(c)
             /\ Table!InsertConn(c) <=> TableProof!InsertConn(c)
             /\ Table!RemoveConn(c) <=> TableProof!RemoveConn(c)
  BY DEF Table!MayInsert, TableProof!MayInsert, Table!InsertConn, TableProof!InsertConn,
     Table!RemoveConn, TableProof!RemoveConn, Table!PutAt, TableProof!PutAt
<1> QED
  BY <1>2, <1>3

\* Every step keeps the index invariant of the table.
LEMMA TableInvStep == ASSUME Base, InUse, Use, [Next]_vars PROVE TableProof!IndInv'
<1>0. TableProof!IndInv
  BY DEF Use
<1>1. TableProof!ConnTableAssumption
  BY ServerAssumption DEF TableProof!ConnTableAssumption
<1>2. [TableProof!Next]_(TableProof!tableVars)
  <2>1. CASE UNCHANGED tableVars
    BY <2>1 DEF tableVars, TableProof!tableVars
  <2>2. ASSUME NEW c \in Conn, Table!MayInsert(c), Table!InsertConn(c) PROVE TableProof!Next
    BY <2>2, SameTable DEF TableProof!Next
  <2>3. ASSUME NEW c \in live, Table!RemoveConn(c) PROVE TableProof!Next
    BY <2>3, SameTable DEF TableProof!Next
  <2> QED
    BY <2>1, <2>2, <2>3, TableStep
<1> QED
  BY <1>0, <1>1, <1>2, TableProof!NextIndInv

\* Two queues are empty together when both are.
LEMMA BothEmpty ==
  ASSUME NEW S, NEW a \in Seq(S), NEW b \in Seq(S)
  PROVE  a \o b = << >> <=> a = << >> /\ b = << >>
<1>1. Len(a \o b) = Len(a) + Len(b) /\ Len(a) \in Nat /\ Len(b) \in Nat /\ a \o b \in Seq(S)
  BY ConcatProperties, LenProperties
<1> QED
  BY <1>1, EmptySeq

\* Nothing is queued for a worker that has left its loop.
LEMMA EmptiedStep == ASSUME Base, InUse, Use, [Next]_vars PROVE Emptied'
<1> SUFFICES ASSUME NEW w \in Workers, wpc'[w] \in {"destory", "exited"} PROVE Waiting(w)' = << >>
  BY DEF Emptied
<1>t. TypeOK /\ Places /\ Used /\ Assigned /\ Owned
  BY DEF Base, Use
<1>q. /\ accept_queue \in [Workers -> Seq(Conn)] /\ close_queue \in [Workers -> Seq(Conn)]
      /\ \A a, b \in Seq(Conn) : a \o b = << >> <=> a = << >> /\ b = << >>
  BY <1>t, BothEmpty DEF TypeOK
<1>1. CASE wpc[w] \in {"destory", "exited"}
  <2>1. accept_queue[w] = << >> /\ close_queue[w] = << >>
    BY <1>1, <1>q DEF Use, Emptied, Waiting
  <2>2. mpc \in Ending \ {"scan"}
    BY <1>1, <1>t DEF Base, ToldInTime, Places, WorkerPlace
  <2>3. ASSUME NEW u \in Workers, Register(u) \/ TakeClose(u) \/ Drain(u)
        PROVE  UNCHANGED <<accept_queue[w], close_queue[w]>>
    <3>1. u # w
      BY <1>1, <2>3 DEF Register, TakeClose, Drain, NextByte, Goto
    <3>2. /\ accept_queue' = accept_queue \/ (accept_queue[u] # << >> /\ accept_queue' = Pop(accept_queue, u))
          /\ close_queue' = close_queue \/ (close_queue[u] # << >> /\ close_queue' = Pop(close_queue, u))
      BY <1>q, <2>3, DrainFacts DEF Register, TakeClose, Drain
    <3>4. ASSUME accept_queue[u] # << >> PROVE Pop(accept_queue, u)[w] = accept_queue[w]
      <4>1. accept_queue \in [Workers -> Seq(Conn)]
        BY <1>q
      <4> QED
        BY <3>1, <3>4, <4>1, PopSeen, Zenon
    <3>5. ASSUME close_queue[u] # << >> PROVE Pop(close_queue, u)[w] = close_queue[w]
      <4>1. close_queue \in [Workers -> Seq(Conn)]
        BY <1>q
      <4> QED
        BY <3>1, <3>5, <4>1, PopSeen, Zenon
    <3>6. accept_queue'[w] = accept_queue[w]
      BY <3>2, <3>4
    <3>7. close_queue'[w] = close_queue[w]
      BY <3>2, <3>5
    <3> QED
      BY <3>6, <3>7
  <2>4. ASSUME NEW u \in Workers PROVE ~QueueClosing(u)
    <3>1. LooksUp
      BY <1>t, <2>2 DEF InUse, ClosesOwn, Used
    <3> QED
      BY <1>t, <3>1 DEF Used, QueueClosing, Goto
  <2>5. ~QueueAccepted /\ ~ScanTable
    BY <2>2 DEF QueueAccepted, ScanTable, MainGoto, Ending
  <2>6. accept_queue'[w] = << >> /\ close_queue'[w] = << >>
    BY <2>1, <2>3, <2>4, <2>5, QueueMoves
  <2> QED
    BY <2>6 DEF Waiting
<1>2. CASE wpc[w] \notin {"destory", "exited"}
  <2>1. LeaveLoop(w)
    <3>1. wpc \in [Workers -> WorkerPlaces]
      BY <1>t DEF TypeOK
    <3>2. ~UNCHANGED <<wpc, wconn, held>> /\ ~CreateWorkers
      BY <1>2 DEF CreateWorkers
    <3>3. ASSUME NEW v \in Workers, ReadPipe(v) \/ TakeClose(v) \/ EndNotify(v) \/ EnterLoop(v) \/ Drain(v) \/ Exit(v) \/ CloseHook(v) \/ BeginRemove(v) \/ EndRemove(v) \/ TellMain(v) \/ UnrefConn(v) \/ TestRefable(v) \/ TestNotRefable(v) \/ QueueClosing(v) \/ NotifyClosing(v) \/ CloseOther(v)
          PROVE  FALSE
      BY <1>2, <3>1, <3>3 DEF Goto, HookPlace, ReadPipe, TakeClose, EndNotify, EnterLoop, Drain,
         Exit, CloseHook, BeginRemove, EndRemove, TellMain, UnrefConn, TestRefable, TestNotRefable,
         QueueClosing, NotifyClosing, CloseOther
    <3>4. ASSUME NEW v \in Workers,
                 \/ \E c \in Conn : ReadEof(v, c) \/ CloseOwn(v, c)
                 \/ \E i \in 1 .. MaxClients : IndexConn(v, i)
          PROVE  FALSE
      BY <1>2, <3>1, <3>4 DEF Goto, ReadEof, CloseOwn, IndexConn
    <3>5. PICK v \in Workers : LeaveLoop(v)
      BY <3>2, <3>3, <3>4, PlaceMoves
    <3> QED
      BY <1>2, <3>1, <3>5 DEF LeaveLoop, Goto
  <2> QED
    BY <2>1 DEF LeaveLoop, Waiting, queueVars
<1> QED
  BY <1>1, <1>2

\* Every step keeps what the scan has seen in the close queues until it is closed.
LEMMA ScanSeenStep == ASSUME Base, InUse, Use, [Next]_vars PROVE ScanSeen'
<1> SUFFICES ASSUME mpc' \in Told, NEW c \in live', index'[c] < MaxClients
             PROVE  \E w \in Workers : c \in Range(close_queue'[w]) \/ Serves(w, c)'
  BY DEF ScanSeen
<1>t. TypeOK /\ Places /\ Used /\ Owned /\ Assigned
  BY DEF Base, Use
<1>q. /\ accept_queue \in [Workers -> Seq(Conn)] /\ close_queue \in [Workers -> Seq(Conn)]
      /\ iconns \in [0 .. MaxClients -> Conn \cup {NULL}]
  BY <1>t DEF TypeOK
<1>1. mpc \in Ending /\ (mpc \notin Told => ScanTable)
  BY MainMoves DEF Told, Ending, MainGoto, StartModule, CreateWorkers, Barrier, CheckRoom, Deny,
     Insert, Assign, AcceptHook, QueueAccepted, NotifyAccepted, RejectBegin, RejectEnd,
     EnableAccept, ScanTable, SendDash, Join, StopModule, Signal, Accept
<1>2. c \in live /\ c \in Conn /\ index'[c] = index[c] /\ ~\E w \in Workers : BeginRemove(w) /\ c = wconn[w]
  <2>1. ~Insert /\ ~RejectBegin
    BY <1>1 DEF Insert, RejectBegin, MainGoto, Ending
  <2>2. ASSUME NEW w \in Workers, BeginRemove(w)
        PROVE  live' = live \ {wconn[w]} /\ index' = [index EXCEPT ![wconn[w]] = 0]
    BY <2>2 DEF BeginRemove, RemoveBegin, Table!RemoveConn
  <2> QED
    BY <1>t, <2>1, <2>2, TableMoves DEF TypeOK
<1>3. ASSUME ScanTable PROVE \E w \in Workers : c \in Range(close_queue'[w])
  <2>1. /\ index[c] \in 0 .. MaxClients - 1 /\ iconns[index[c]] = c /\ c # NULL
    BY <1>2, ServerAssumption DEF Use, TableProof!IndInv, TableProof!TypeOK,
       TableProof!TableExact, TableProof!Slots
  <2>2. thread[c] \in Workers
    BY <1>2, <1>3, <1>t DEF Assigned, ScanTable, MainGoto, TypeOK
  <2> DEFINE w == thread[c]
  <2>3. c \in Range(Scanned(w))
    <3>1. Range(Scanned(w)) =
              {iconns[i] : i \in {j \in 0 .. MaxClients - 1 : iconns[j] # NULL /\ thread[iconns[j]] = w}}
      BY <1>q, <2>2, ScannedFacts
    <3> QED
      BY <2>1, <3>1
  <2>4. close_queue'[w] = close_queue[w] \o Scanned(w) /\ close_queue[w] \in Seq(Conn) /\ Scanned(w) \in Seq(Conn)
    BY <1>3, <1>q, <2>2, ScannedFacts DEF ScanTable
  <2> HIDE DEF w
  <2>5. c \in Range(close_queue'[w])
    BY <2>3, <2>4, ConcatRange
  <2> QED
    BY <2>2, <2>5 DEF w
<1>4. ASSUME ~ScanTable PROVE \E w \in Workers : c \in Range(close_queue'[w]) \/ Serves(w, c)'
  <2>1. PICK w \in Workers : c \in Range(close_queue[w]) \/ Serves(w, c)
    BY <1>1, <1>2, <1>4 DEF Use, ScanSeen
  <2>2. LooksUp
    BY <1>1, <1>t DEF InUse, ClosesOwn, Used
  <2>3. CASE Serves(w, c)
    <3>1. wpc \in [Workers -> WorkerPlaces] /\ wconn \in [Workers -> Conn \cup {NULL}]
      BY <1>t DEF TypeOK
    <3>2. ASSUME NEW v \in Workers, ReadPipe(v) \/ TakeClose(v) \/ EndNotify(v) \/ EnterLoop(v) \/ Drain(v) \/ LeaveLoop(v) \/ Exit(v) \/ CloseHook(v) \/ EndRemove(v) \/ TellMain(v) \/ UnrefConn(v) \/ TestRefable(v) \/ TestNotRefable(v) \/ QueueClosing(v) \/ NotifyClosing(v) \/ CloseOther(v)
          PROVE  Serves(w, c)'
      BY <2>3, <3>1, <3>2 DEF Serves, Goto, HookPlace, ReadPipe, TakeClose, EndNotify, EnterLoop,
         Drain,
         LeaveLoop, Exit, CloseHook, EndRemove, TellMain, UnrefConn, TestRefable, TestNotRefable,
         QueueClosing, NotifyClosing, CloseOther, Clean
    <3>3. ASSUME NEW v \in Workers,
                 \/ \E d \in Conn : ReadEof(v, d) \/ CloseOwn(v, d)
                 \/ \E i \in 1 .. MaxClients : IndexConn(v, i)
          PROVE  Serves(w, c)'
      BY <2>3, <3>1, <3>3 DEF Serves, Goto, ReadEof, CloseOwn, IndexConn, Clean
    <3>4. ASSUME NEW v \in Workers, BeginRemove(v) PROVE Serves(w, c)'
      <4>1. v # w
        BY <1>2, <2>3, <3>4 DEF Serves
      <4> QED
        BY <2>3, <3>1, <3>4, <4>1 DEF Serves, BeginRemove, Goto
    <3>5. ASSUME UNCHANGED <<wpc, wconn, held>> PROVE Serves(w, c)'
      BY <2>3, <3>5 DEF Serves
    <3>6. ~CreateWorkers
      BY <1>1 DEF CreateWorkers, MainGoto, Ending
    <3>7. Serves(w, c)'
      BY <3>2, <3>3, <3>4, <3>5, <3>6, PlaceMoves
    <3> QED
      BY <3>7
  <2>4. CASE c \in Range(close_queue[w])
    <3>1. ASSUME NEW v \in Workers, TakeClose(v) \/ Drain(v)
          PROVE  c \in Range(close_queue'[w]) \/ Serves(w, c)'
      <4>1. CASE close_queue' = close_queue
        BY <2>4, <4>1
      <4>2. CASE close_queue' # close_queue
        <5>1. close_queue[v] # << >> /\ close_queue' = Pop(close_queue, v)
          BY <1>q, <3>1, <4>2, DrainFacts DEF TakeClose, Drain
        <5>2. wpc'[v] = "hook" /\ wconn'[v] = Head(close_queue[v])
          BY <1>q, <1>t, <3>1, <4>2, DrainFacts DEF TakeClose, Drain, Goto, Clean, TypeOK
        <5>3. CASE v = w
          <6>1. Range(close_queue[v]) = Range(close_queue'[v]) \cup {Head(close_queue[v])}
            BY <1>q, <5>1, PopHead
          <6> QED
            BY <2>4, <5>2, <5>3, <6>1 DEF Serves
        <5>4. CASE v # w
          <6>1. close_queue \in [Workers -> Seq(Conn)]
            BY <1>q
          <6>2. Pop(close_queue, v)[w] = close_queue[w]
            BY <5>1, <5>4, <6>1, PopSeen, Zenon
          <6> QED
            BY <2>4, <5>1, <6>2
        <5> QED
          BY <5>3, <5>4
      <4> QED
        BY <4>1, <4>2
    <3>2. ASSUME NEW u \in Workers PROVE ~QueueClosing(u)
      BY <1>t, <2>2 DEF Used, QueueClosing, Goto
    <3>3. c \in Range(close_queue'[w]) \/ Serves(w, c)'
      BY <1>4, <2>4, <3>1, <3>2, QueueMoves DEF QueueAccepted, Register
    <3> QED
      BY <3>3
  <2> QED
    BY <2>1, <2>3, <2>4
<1> QED
  BY <1>3, <1>4

\* Steps that touch a close queue or the bytes for it.
LEMMA CloseMoves ==
  [Next]_vars =>
    \/ UNCHANGED <<pipe, buffer, close_queue>>
    \/ NotifyAccepted \/ ScanTable \/ SendDash
    \/ \E w \in Workers : ReadPipe(w) \/ Register(w) \/ TakeClose(w) \/ Break(w) \/ Drain(w) \/ QueueClosing(w) \/ NotifyClosing(w)
<1> DEFINE Goal ==
    \/ UNCHANGED <<pipe, buffer, close_queue>>
    \/ NotifyAccepted \/ ScanTable \/ SendDash
    \/ \E w \in Workers : ReadPipe(w) \/ Register(w) \/ TakeClose(w) \/ Break(w) \/ Drain(w) \/ QueueClosing(w) \/ NotifyClosing(w)
<1> SUFFICES ASSUME [Next]_vars PROVE Goal
  OBVIOUS
<1>1. ASSUME MainStep PROVE Goal
  BY <1>1 DEF MainStep, StartModule, CreateWorkers, Barrier, CheckRoom, Deny, Insert, Assign,
     AcceptHook, QueueAccepted, RejectBegin, RejectEnd, EnableAccept, Join, StopModule,
     MainGoto, Goto, Free, RemoveBegin, RemoveEnd, lifeVars, tableVars, lockVars, connVars,
     queueVars, mainVars, workerVars
<1>2. ASSUME NEW w \in Workers, Serve(w) PROVE Goal
  BY <1>2 DEF Serve, EndNotify, ReadEof, ThreadInit, EnterLoop, LeaveLoop, ThreadDestory, Exit,
     CloseHook, BeginRemove, EndRemove, TellMain, Goto, Free, RemoveBegin, RemoveEnd, Clean,
     lifeVars, tableVars, lockVars, connVars, queueVars, mainVars, workerVars
<1>3. ASSUME NEW w \in Workers, FinishHook(w) \/ UseApi(w) PROVE Goal
  BY <1>3 DEF FinishHook, UseApi, UnrefConn, TestRefable, TestNotRefable, IndexConn, CloseOwn,
     CloseOther, Goto, lifeVars, tableVars, lockVars, connVars, queueVars, mainVars, workerVars
<1>4. ASSUME (\E c \in Conn : ClientClose(c) \/ Accept(c)) \/ Signal \/ UNCHANGED vars PROVE Goal
  BY <1>4 DEF vars, Signal, ClientClose, Accept, lifeVars, tableVars, lockVars, connVars,
     queueVars, mainVars, workerVars
<1> HIDE DEF Goal
<1> QED
  BY <1>1, <1>2, <1>3, <1>4 DEF Next, Ended

\* Every step keeps an entry for each "x" when hooks close their own connections.
LEMMA XBytesStep == ASSUME Base, Base', InUse, Use, [Next]_vars PROVE XBytes'
<1>t. TypeOK /\ TypeOK' /\ Places /\ Used /\ ClosesWatched /\ scene' = scene
  BY SceneStays DEF Base, Use
<1> SUFFICES ASSUME ~LooksUp, NEW u \in Workers
             PROVE  Bytes(u, "x")' + (IF wpc'[u] = "writing" THEN 1 ELSE 0) <= Len(close_queue'[u])
  BY <1>t DEF XBytes, LooksUp
<1> DEFINE B == Times(buffer[u], "x")
           P == Times(pipe[u], "x")
           L == Len(close_queue[u])
           W == IF wpc[u] = "writing" THEN 1 ELSE 0
           Goal == B' + P' + W' <= L'
<1>1. /\ pipe \in [Workers -> Seq(Byte)] /\ buffer \in [Workers -> Seq(Byte)]
      /\ close_queue \in [Workers -> Seq(Conn)] /\ wpc \in [Workers -> WorkerPlaces]
  BY <1>t DEF TypeOK
<1>2. /\ B \in Nat /\ P \in Nat /\ L \in Nat /\ B + P + W <= L
      /\ Bytes(u, "x")' = B' + P' /\ B' \in Nat /\ L' \in Nat
  <2>1. close_queue[u] \in Seq(Conn) /\ buffer[u] \in Seq(Byte) /\ pipe[u] \in Seq(Byte)
    BY <1>1
  <2>2. L \in Nat
    BY <2>1, LenProperties
  <2>3. B \in Nat /\ P \in Nat /\ Bytes(u, "x") = B + P
    BY <2>1, CountFacts DEF Bytes
  <2>4. Bytes(u, "x")' = B' + P' /\ B' \in Nat /\ L' \in Nat
    <3>1. buffer'[u] \in Seq(Byte) /\ pipe'[u] \in Seq(Byte) /\ close_queue'[u] \in Seq(Conn)
      BY <1>t DEF TypeOK
    <3> QED
      BY <3>1, CountFacts, LenProperties DEF Bytes
  <2> QED
    BY <2>2, <2>3, <2>4 DEF Use, XBytes
<1>3. wpc'[u] = "writing" => wpc[u] = "writing" \/ QueueClosing(u)
  <2> SUFFICES ASSUME wpc'[u] = "writing", wpc[u] # "writing" PROVE QueueClosing(u)
    OBVIOUS
  <2>1. ~UNCHANGED <<wpc, wconn, held>> /\ ~CreateWorkers
    BY DEF CreateWorkers
  <2>2. ASSUME NEW v \in Workers, ReadPipe(v) \/ TakeClose(v) \/ EndNotify(v) \/ EnterLoop(v) \/ Drain(v) \/ LeaveLoop(v) \/ Exit(v) \/ CloseHook(v) \/ BeginRemove(v) \/ EndRemove(v) \/ TellMain(v) \/ UnrefConn(v) \/ TestRefable(v) \/ TestNotRefable(v) \/ NotifyClosing(v) \/ CloseOther(v)
        PROVE  FALSE
    BY <1>1, <2>2 DEF Goto, HookPlace, ReadPipe, TakeClose, EndNotify, EnterLoop, Drain,
       LeaveLoop, Exit, CloseHook, BeginRemove, EndRemove, TellMain, UnrefConn, TestRefable,
       TestNotRefable, NotifyClosing, CloseOther
  <2>3. ASSUME NEW v \in Workers,
               \/ \E c \in Conn : ReadEof(v, c) \/ CloseOwn(v, c)
               \/ \E i \in 1 .. MaxClients : IndexConn(v, i)
        PROVE  FALSE
    BY <1>1, <2>3 DEF Goto, ReadEof, CloseOwn, IndexConn
  <2>4. PICK v \in Workers : QueueClosing(v)
    BY <2>1, <2>2, <2>3, PlaceMoves
  <2> QED
    BY <1>1, <2>4 DEF QueueClosing, Goto
<1>4. ASSUME NEW v \in Workers, QueueClosing(v) PROVE Goal
  <2>1. /\ close_queue' = Push(close_queue, v, wconn[v]) /\ wconn[v] \in Conn
        /\ wpc[v] = "queueing" /\ wpc' = [wpc EXCEPT ![v] = "writing"] /\ UNCHANGED <<pipe, buffer>>
    BY <1>t, <1>4 DEF QueueClosing, Goto, ClosesWatched, Places, WorkerPlace, Having, TypeOK
  <2>2. L' = IF u = v THEN L + 1 ELSE L
    <3> DEFINE q == close_queue[u]
               r == close_queue'[u]
    <3>1. q \in Seq(Conn) /\ (u = v => r = Append(q, wconn[v])) /\ (u # v => r = q)
      BY <1>1, <2>1 DEF Push
    <3> HIDE DEF q, r
    <3>2. Len(r) = IF u = v THEN Len(q) + 1 ELSE Len(q)
      BY <2>1, <3>1, PushFacts
    <3> QED
      BY <3>2 DEF q, r
  <2>3. W' = IF u = v THEN 1 ELSE W
    BY <1>1, <2>1
  <2>4. u = v => W = 0
    BY <2>1
  <2> QED
    BY <1>2, <2>1, <2>2, <2>3, <2>4
<1>5. ASSUME NEW w, NEW b \in Byte, pipe' = Push(pipe, w, b)
      PROVE  P' = IF u = w /\ b = "x" THEN P + 1 ELSE P
  <2> DEFINE q == pipe[u]
             r == pipe'[u]
  <2>1. q \in Seq(Byte) /\ (u = w => r = Append(q, b)) /\ (u # w => r = q)
    BY <1>1, <1>5 DEF Push
  <2> HIDE DEF q, r
  <2>2. \A x : Times(Append(q, b), x) = IF b = x THEN Times(q, x) + 1 ELSE Times(q, x)
    BY <2>1, TimesPush
  <2>3. Times(r, "x") = IF u = w /\ b = "x" THEN Times(q, "x") + 1 ELSE Times(q, "x")
    BY <2>1, <2>2
  <2> QED
    BY <2>3 DEF q, r
<1>6. ASSUME NotifyAccepted PROVE Goal
  <2>1. pipe' = Push(pipe, mthread, "l") /\ UNCHANGED <<close_queue, buffer, wpc>>
    BY <1>6 DEF NotifyAccepted, workerVars
  <2>2. P' = P
    BY <1>5, <2>1 DEF Byte
  <2> QED
    BY <1>2, <2>1, <2>2
<1>7. ~SendDash /\ ~ScanTable /\ \A v \in Workers : ~Drain(v)
  <2>1. mpc \notin Ending
    BY <1>t DEF InUse, ClosesOwn, Used
  <2> QED
    BY <1>t, <2>1 DEF SendDash, ScanTable, MainGoto, Ending, Base, ToldInTime, Drain, Goto, Places, WorkerPlace
<1>8. ASSUME NEW v \in Workers, NotifyClosing(v) PROVE Goal
  <2>1. /\ pipe' = Push(pipe, v, "x") /\ wpc[v] = "writing" /\ wpc'[v] # "writing"
        /\ (v # u => wpc'[u] = wpc[u]) /\ UNCHANGED <<close_queue, buffer>>
    BY <1>1, <1>t, <1>8 DEF NotifyClosing, Goto, ClosesWatched, HookPlace
  <2>2. P' = IF u = v THEN P + 1 ELSE P
    BY <1>5, <2>1 DEF Byte
  <2>3. (u = v => W = 1 /\ W' = 0) /\ (u # v => W' = W)
    BY <2>1
  <2> QED
    BY <1>2, <2>1, <2>2, <2>3
<1>9. ASSUME NEW w \in Workers, ReadPipe(w) PROVE Goal
  <2>1. /\ buffer' = [buffer EXCEPT ![w] = pipe[w]] /\ pipe' = [pipe EXCEPT ![w] = << >>]
        /\ buffer[w] = << >> /\ close_queue' = close_queue /\ (wpc'[u] = "writing" => wpc[u] = "writing")
    BY <1>1, <1>t, <1>9 DEF ReadPipe, Goto, Places, WorkerPlace
  <2>2. CASE u = w
    <3>1. B' = P /\ P' = 0 /\ B = 0
      BY <1>1, <2>1, <2>2, TimesEmpty
    <3> QED
      BY <1>2, <2>1, <3>1
  <2>3. CASE u # w
    <3>1. B' = B /\ P' = P
      BY <1>1, <2>1, <2>3
    <3> QED
      BY <1>2, <2>1, <3>1
  <2> QED
    BY <2>2, <2>3
<1>10. ASSUME NEW w \in Workers, buffer[w] # << >>, buffer' = Pop(buffer, w)
       PROVE  B = IF u = w /\ Head(buffer[w]) = "x" THEN B' + 1 ELSE B'
  <2> DEFINE q == buffer[u]
             r == buffer'[u]
  <2>1. q \in Seq(Byte) /\ (u = w => q # << >> /\ r = Tail(q)) /\ (u # w => r = q)
    <3>1. buffer \in [Workers -> Seq(Byte)]
      BY <1>1
    <3>2. buffer'[w] = Tail(buffer[w]) /\ (u # w => buffer'[u] = buffer[u])
      BY <1>10, <3>1 DEF Pop
    <3> QED
      BY <1>10, <3>1, <3>2
  <2> HIDE DEF q, r
  <2>2. u = w => \A x : Times(q, x) = IF Head(q) = x THEN Times(Tail(q), x) + 1 ELSE Times(Tail(q), x)
    BY <2>1, TimesPop
  <2>3. Times(q, "x") = IF u = w /\ Head(q) = "x" THEN Times(r, "x") + 1 ELSE Times(r, "x")
    BY <2>1, <2>2
  <2> QED
    BY <2>3 DEF q, r
<1>11. ASSUME NEW w \in Workers, TakeClose(w) PROVE Goal
  <2>1. /\ buffer[w] # << >> /\ buffer' = Pop(buffer, w) /\ Head(buffer[w]) = "x"
        /\ close_queue[w] # << >> /\ close_queue' = Pop(close_queue, w)
        /\ pipe' = pipe /\ (wpc'[u] = "writing" => wpc[u] = "writing")
    BY <1>1, <1>11 DEF TakeClose, NextByte, Clean, Goto
  <2>2. B = IF u = w THEN B' + 1 ELSE B'
    BY <1>10, <2>1
  <2>3. L = IF u = w THEN L' + 1 ELSE L'
    <3> DEFINE q == close_queue[u]
               r == close_queue'[u]
    <3>1. q \in Seq(Conn) /\ (u = w => q # << >> /\ r = Tail(q)) /\ (u # w => r = q)
      <4>1. close_queue \in [Workers -> Seq(Conn)] /\ close_queue[w] # << >>
        BY <1>1, <2>1
      <4>2. /\ close_queue[u] \in Seq(Conn)
            /\ u = w => close_queue[u] # << >> /\ Pop(close_queue, w)[u] = Tail(close_queue[u])
            /\ u # w => Pop(close_queue, w)[u] = close_queue[u]
        BY <4>1, PopSeen, Zenon
      <4>3. close_queue'[u] = Pop(close_queue, w)[u]
        BY <2>1
      <4> QED
        BY <4>2, <4>3
    <3> HIDE DEF q, r
    <3>2. Len(q) = IF u = w THEN Len(r) + 1 ELSE Len(r)
      BY <3>1, PopFacts
    <3> QED
      BY <3>2 DEF q, r
  <2> QED
    BY <1>2, <2>1, <2>2, <2>3
<1>12. ASSUME NEW w \in Workers, Register(w) \/ Break(w) PROVE Goal
  <2>1. /\ buffer[w] # << >> /\ buffer' = Pop(buffer, w) /\ Head(buffer[w]) # "x"
        /\ UNCHANGED <<close_queue, pipe, wpc>>
    BY <1>12 DEF Register, Break, NextByte, queueVars
  <2>2. B' = B
    BY <1>10, <2>1
  <2> QED
    BY <1>2, <2>1, <2>2
<1>13. ASSUME UNCHANGED <<pipe, buffer, close_queue>> PROVE Goal
  <2>1. CASE QueueClosing(u)
    BY <1>4, <2>1
  <2>2. CASE ~QueueClosing(u)
    BY <1>2, <1>3, <1>13, <2>2
  <2> QED
    BY <2>1, <2>2
<1> HIDE DEF Goal
<1>14. Goal
  BY <1>4, <1>6, <1>7, <1>8, <1>9, <1>11, <1>12, <1>13, CloseMoves
<1> QED
  BY <1>2, <1>14 DEF Goal

\* Steps that take or give back a reference.
LEMMA HoldMoves ==
  [Next]_vars =>
    \/ UNCHANGED <<ref_count, held>>
    \/ \E w \in Workers : UnrefConn(w)
    \/ \E w \in Workers, i \in 1 .. MaxClients : IndexConn(w, i)
<1> DEFINE Goal ==
    \/ UNCHANGED <<ref_count, held>>
    \/ \E w \in Workers : UnrefConn(w)
    \/ \E w \in Workers, i \in 1 .. MaxClients : IndexConn(w, i)
<1> SUFFICES ASSUME [Next]_vars PROVE Goal
  OBVIOUS
<1>1. ASSUME MainStep PROVE Goal
  BY <1>1 DEF MainStep, StartModule, CreateWorkers, Barrier, CheckRoom, Deny, Insert, Assign,
     AcceptHook, QueueAccepted, NotifyAccepted, RejectBegin, RejectEnd, EnableAccept, ScanTable,
     SendDash, Join, StopModule, MainGoto, Goto, Free, RemoveBegin, RemoveEnd, lifeVars,
     tableVars, lockVars, connVars, queueVars, mainVars, workerVars
<1>2. ASSUME NEW w \in Workers, Serve(w) PROVE Goal
  BY <1>2 DEF Serve, ReadPipe, Register, TakeClose, Break, EndNotify, ReadEof, ThreadInit,
     EnterLoop, Drain, LeaveLoop, ThreadDestory, Exit, CloseHook, BeginRemove, EndRemove,
     TellMain, Goto, Free, RemoveBegin, RemoveEnd, Clean, lifeVars, tableVars, lockVars,
     connVars, queueVars, mainVars, workerVars
<1>3. ASSUME NEW w \in Workers, FinishHook(w) \/ UseApi(w) PROVE Goal
  BY <1>3 DEF FinishHook, UseApi, TestRefable, TestNotRefable, QueueClosing, NotifyClosing,
     CloseOwn, CloseOther, Goto, lifeVars, tableVars, lockVars, connVars, queueVars, mainVars,
     workerVars
<1>4. ASSUME (\E c \in Conn : ClientClose(c) \/ Accept(c)) \/ Signal \/ UNCHANGED vars PROVE Goal
  BY <1>4 DEF vars, Signal, ClientClose, Accept, lifeVars, tableVars, lockVars, connVars,
     queueVars, mainVars, workerVars
<1> HIDE DEF Goal
<1> QED
  BY <1>1, <1>2, <1>3, <1>4 DEF Next, Ended

\* The workers that hold a reference are counted by natural numbers.
Holders(c) == {w \in Workers : held[w] = c}

\* Their number is 0 only when there is none.
LEMMA HoldersFinite == \A c : IsFiniteSet(Holders(c)) /\ Cardinality(Holders(c)) \in Nat
                              /\ (Cardinality(Holders(c)) = 0 => Holders(c) = {})
<1> TAKE c
<1>1. IsFiniteSet(Workers)
  <2>1. 0 \in Int /\ NWorkers - 1 \in Int
    BY ServerAssumption
  <2> QED
    BY <2>1, FS_Interval DEF Workers
<1>2. Holders(c) \in SUBSET Workers
  BY DEF Holders
<1>3. IsFiniteSet(Holders(c))
  BY <1>1, <1>2, FS_Subset
<1> QED
  BY <1>3, FS_CardinalityType, FS_EmptySet

\* Every step counts the references and keeps what they refer to.
LEMMA ReferencedStep == ASSUME Base, InUse, Use, [Next]_vars PROVE Referenced'
<1>t. /\ TypeOK /\ Places /\ Allocated
      /\ \A c \in Conn : ref_count[c] = Cardinality(Holders(c))
      /\ \A w \in Workers : held[w] # NULL => held[w] \in alloc
      /\ mpc \in {"check", "deny", "insert"} => \A w \in Workers : held[w] # mconn
  BY DEF Base, Use, Referenced, Holders
<1>y. held \in [Workers -> Conn \cup {NULL}] /\ ref_count \in [Conn -> Int] /\ NULL \notin Conn
  BY <1>t, ServerAssumption DEF TypeOK
<1>i. ASSUME NEW w \in Workers, NEW i \in 1 .. MaxClients, IndexConn(w, i)
      PROVE  /\ held[w] = NULL /\ iconns[i] \in Conn /\ iconns[i] \in live
             /\ held' = [held EXCEPT ![w] = iconns[i]]
             /\ ref_count' = [ref_count EXCEPT ![iconns[i]] = @ + 1]
             /\ UNCHANGED <<alloc, mpc, mconn>>
  <2>1. iconns[i] \in live
    <3>1. i \in 0 .. MaxClients /\ iconns[i] # NULL
      BY <1>i, ServerAssumption DEF IndexConn
    <3> QED
      BY <3>1 DEF Use, TableProof!IndInv, TableProof!TableExact, TableProof!Slots
  <2> QED
    BY <1>t, <1>i, <2>1 DEF IndexConn, Goto, Places, WorkerPlace, Using, TypeOK, mainVars
<1>u. ASSUME NEW w \in Workers, UnrefConn(w)
      PROVE  /\ held[w] \in Conn
             /\ held' = [held EXCEPT ![w] = NULL]
             /\ ref_count' = [ref_count EXCEPT ![held[w]] = @ - 1]
             /\ UNCHANGED <<alloc, mpc, mconn>>
  BY <1>t, <1>y, <1>u DEF UnrefConn, Places, WorkerPlace, mainVars
<1>1. \A c \in Conn : ref_count'[c] = Cardinality(Holders(c)')
  <2> TAKE c \in Conn
  <2>1. ASSUME NEW w \in Workers, NEW i \in 1 .. MaxClients, IndexConn(w, i)
        PROVE  ref_count'[c] = Cardinality(Holders(c)')
    <3>1. CASE c = iconns[i]
      <4>1. Holders(c)' = Holders(c) \cup {w} /\ w \notin Holders(c)
        BY <1>i, <1>y, <2>1, <3>1 DEF Holders
      <4>2. Cardinality(Holders(c)') = Cardinality(Holders(c)) + 1
        <5>1. IsFiniteSet(Holders(c)) /\ w \notin Holders(c)
          BY <4>1, HoldersFinite
        <5>2. Cardinality(Holders(c) \cup {w}) = Cardinality(Holders(c)) + 1
          BY <5>1, FS_AddElement, Zenon
        <5> QED
          BY <4>1, <5>2
      <4>3. ref_count'[c] = ref_count[c] + 1
        BY <1>i, <1>y, <2>1, <3>1
      <4> QED
        BY <1>t, <4>2, <4>3
    <3>2. CASE c # iconns[i]
      <4>1. Holders(c)' = Holders(c) /\ ref_count'[c] = ref_count[c]
        BY <1>i, <1>y, <2>1, <3>2 DEF Holders
      <4> QED
        BY <1>t, <4>1
    <3> QED
      BY <3>1, <3>2
  <2>2. ASSUME NEW w \in Workers, UnrefConn(w)
        PROVE  ref_count'[c] = Cardinality(Holders(c)')
    <3>1. CASE c = held[w]
      <4>1. Holders(c)' = Holders(c) \ {w} /\ w \in Holders(c)
        BY <1>u, <1>y, <2>2, <3>1 DEF Holders
      <4>2. Cardinality(Holders(c)') = Cardinality(Holders(c)) - 1
        BY <4>1, HoldersFinite, FS_RemoveElement
      <4>3. ref_count'[c] = ref_count[c] - 1
        BY <1>u, <1>y, <2>2, <3>1
      <4> QED
        BY <1>t, <4>2, <4>3
    <3>2. CASE c # held[w]
      <4>1. Holders(c)' = Holders(c) /\ ref_count'[c] = ref_count[c]
        BY <1>u, <1>y, <2>2, <3>2 DEF Holders
      <4> QED
        BY <1>t, <4>1
    <3> QED
      BY <3>1, <3>2
  <2>3. ASSUME UNCHANGED <<ref_count, held>> PROVE ref_count'[c] = Cardinality(Holders(c)')
    BY <1>t, <2>3 DEF Holders
  <2> QED
    BY <2>1, <2>2, <2>3, HoldMoves
<1>2. ASSUME NEW c \in Conn, ref_count[c] <= 0, NEW w \in Workers PROVE held[w] # c
  <2>1. Cardinality(Holders(c)) \in Nat /\ Cardinality(Holders(c)) = ref_count[c]
    BY <1>t, HoldersFinite
  <2>2. Holders(c) = {}
    BY <1>2, <2>1, HoldersFinite
  <2> QED
    BY <2>2 DEF Holders
<1>3. ASSUME NEW w \in Workers, held'[w] # NULL PROVE held'[w] \in alloc'
  <2>1. ASSUME NEW v \in Workers, NEW i \in 1 .. MaxClients, IndexConn(v, i) PROVE held'[w] \in alloc'
    BY <1>3, <1>i, <1>t, <1>y, <2>1 DEF Allocated
  <2>2. ASSUME NEW v \in Workers, UnrefConn(v) PROVE held'[w] \in alloc'
    BY <1>3, <1>u, <1>t, <1>y, <2>2
  <2>3. ASSUME held' = held PROVE held'[w] \in alloc'
    <3>0. held[w] \in alloc
      BY <1>3, <1>t, <2>3
    <3>1. Deny => held[w] \in alloc'
      BY <1>t, <3>0 DEF Deny, MainGoto, Free
    <3>2. RejectEnd => held[w] \in alloc'
      BY <1>2, <1>t, <3>0 DEF RejectEnd, RemoveEnd, MainGoto, Free, Places, WorkerPlace, Handling, TypeOK
    <3>3. ASSUME NEW v \in Workers, EndRemove(v) PROVE held[w] \in alloc'
      BY <1>2, <1>t, <3>0, <3>3 DEF EndRemove, RemoveEnd, Goto, Free, Places, WorkerPlace, Having, TypeOK
    <3>4. ASSUME NEW c \in Conn, Accept(c) PROVE held[w] \in alloc'
      BY <3>0, <3>4 DEF Accept
    <3>5. Insert \/ RejectBegin => alloc' = alloc
      BY DEF Insert, RejectBegin, connVars
    <3>6. ASSUME NEW v \in Workers, BeginRemove(v) PROVE alloc' = alloc
      BY <3>6 DEF BeginRemove, connVars
    <3> QED
      BY <2>3, <3>0, <3>1, <3>2, <3>3, <3>4, <3>5, <3>6, AllocMoves
  <2> QED
    BY <2>1, <2>2, <2>3, HoldMoves
<1>4. ASSUME mpc' \in {"check", "deny", "insert"}, NEW w \in Workers PROVE held'[w] # mconn'
  <2>1. ASSUME NEW c \in Conn, Accept(c) PROVE held'[w] # mconn'
    <3>1. mconn' = c /\ c \notin alloc /\ held'[w] = held[w] /\ c # NULL
      BY <1>y, <2>1 DEF Accept, workerVars
    <3> QED
      BY <1>t, <3>1
  <2>2. ASSUME \A c \in Conn : ~Accept(c)
        PROVE  mpc \in {"check", "deny", "insert"} /\ mconn' = mconn /\ mconn \in Conn /\ mconn \notin live
    BY <1>4, <1>t, <2>2, MainMoves DEF MainGoto, StartModule, CreateWorkers, Barrier, CheckRoom,
       Deny, Insert, Assign, AcceptHook, QueueAccepted, NotifyAccepted, RejectBegin, RejectEnd,
       EnableAccept, ScanTable, SendDash, Join, StopModule, Signal, Accept, Allocated, Places, WorkerPlace,
       Handling, TypeOK
  <2>3. ASSUME NEW v \in Workers, NEW i \in 1 .. MaxClients, IndexConn(v, i), \A c \in Conn : ~Accept(c) PROVE held'[w] # mconn'
    BY <1>i, <1>t, <1>y, <2>2, <2>3
  <2>4. ASSUME NEW v \in Workers, UnrefConn(v), \A c \in Conn : ~Accept(c) PROVE held'[w] # mconn'
    BY <1>u, <1>t, <1>y, <2>2, <2>4
  <2>5. ASSUME held' = held, \A c \in Conn : ~Accept(c) PROVE held'[w] # mconn'
    BY <1>t, <2>2, <2>5
  <2> QED
    BY <2>1, <2>3, <2>4, <2>5, HoldMoves
<1> QED
  BY <1>1, <1>3, <1>4 DEF Referenced, Holders

\* What holds in the uses of InUse holds at the start,
LEMMA InitUse == Init => Use
<1> SUFFICES ASSUME Init PROVE Use
  OBVIOUS
<1>1. Used /\ Owned /\ Allocated /\ Assigned /\ ClosesWatched /\ ScanSeen
  BY DEF Init, Table!Init, Used, Owned, MainOwns, Serves, Allocated, Assigned, ClosesWatched,
     ScanSeen, Ending, Told, Range
<1>2. QueuedOnce
  BY DEF Init, QueuedOnce, IsInjective
<1>3. Referenced
  <2>1. \A c \in Conn : Cardinality({w \in Workers : held[w] = c}) = 0
    <3>1. \A c \in Conn : {w \in Workers : held[w] = c} = {}
      BY ServerAssumption DEF Init
    <3> QED
      BY <3>1, FS_EmptySet
  <2> QED
    BY <2>1 DEF Init, Referenced
<1>4. XBytes
  <2> SUFFICES ASSUME NEW w \in Workers PROVE Bytes(w, "x") + (IF wpc[w] = "writing" THEN 1 ELSE 0) <= Len(close_queue[w])
    BY DEF XBytes
  <2>1. buffer[w] = << >> /\ pipe[w] = << >> /\ Len(close_queue[w]) = 0 /\ wpc[w] = "none"
    BY DEF Init
  <2>2. buffer[w] \o pipe[w] = << >>
    BY <2>1
  <2>3. Bytes(w, "x") = Times(<< >>, "x")
    BY <2>2 DEF Bytes, Count, Times
  <2>4. \A x : Times(<< >>, x) = 0
    BY TimesEmpty
  <2> QED
    BY <2>1, <2>3, <2>4
<1>5. Emptied
  BY DEF Init, Emptied
<1>6. TableProof!IndInv
  <2>1. TableProof!ConnTableAssumption
    BY ServerAssumption DEF TableProof!ConnTableAssumption
  <2>2. TableProof!Init
    BY DEF Init, Table!Init, TableProof!Init, Table!Slots, TableProof!Slots
  <2> QED
    BY <2>1, <2>2, TableProof!InitIndInv
<1> QED
  BY <1>1, <1>2, <1>3, <1>4, <1>5, <1>6 DEF Use

\* and every step of such a use keeps it.
LEMMA UseStep == Base /\ InUse /\ Use /\ [Next]_vars => Use'
<1> SUFFICES ASSUME Base, InUse, Use, [Next]_vars PROVE Use'
  OBVIOUS
<1>1. Base'
  BY BaseStep
<1> QED
  BY <1>1, UsedStep, OwnedStep, QueuedOnceStep, AllocatedStep, AssignedStep, ClosesWatchedStep,
     ReferencedStep, XBytesStep, EmptiedStep, ScanSeenStep, TableInvStep DEF Use

\* What holds in every use of the server, and what holds in the uses in which it keeps
\* its connections apart.
Inv == Base /\ (InUse => Use)

\* A server stays in its use, so that every step keeps both.
LEMMA InvStep == Inv /\ [Next]_vars => Inv'
<1>1. [Next]_vars => (InUse' <=> InUse)
  BY SceneStays DEF InUse, LooksUp, ClosesOwn
<1> QED
  BY <1>1, BaseStep, UseStep DEF Inv

\* The inductive invariant of the server, in every use and in those of InUse.
THEOREM ServerInvariant == Spec => []Inv
<1>1. Init => Inv
  BY InitBase, InitUse DEF Inv
<1> QED
  BY <1>1, InvStep, PTL DEF Spec

\* The elements of a queue of connections are connections.
LEMMA InRange ==
  ASSUME NEW S, NEW q \in Seq(S), NEW x \in Range(q)
  PROVE  x \in S
<1>1. PICK k \in DOMAIN q : x = q[k]
  BY DEF Range
<1> QED
  BY <1>1, ElementOfSeq

-----------------------------------------------------------------------------
(***************************************************************************)
(* What the invariant says of the server.                                  *)
(***************************************************************************)
\* A byte in a pipe finds its entry in the queue, and the entry is a connection of
\* that worker: the assertions of notify_handler hold (loop_event.c:241, 256, 257).
THEOREM AssertionsKept == Spec => [](InUse => AssertionsHold)
<1>1. ASSUME Base, InUse, Use PROVE AssertionsHold
  <2> SUFFICES ASSUME NEW w \in Workers
               PROVE  /\ NextByte(w, "l") => accept_queue[w] # << >> /\ thread[Head(accept_queue[w])] = w
                      /\ NextByte(w, "x") => close_queue[w] # << >>
    BY DEF AssertionsHold
  <2>t. TypeOK /\ Places /\ Owned /\ Used /\ LBytes /\ XBytes
    BY <1>1 DEF Base, Use
  <2>q. /\ accept_queue[w] \in Seq(Conn) /\ close_queue[w] \in Seq(Conn)
        /\ buffer[w] \in Seq(Byte) /\ pipe[w] \in Seq(Byte)
    BY <2>t DEF TypeOK
  <2>1. ASSUME NEW b, NextByte(w, b)
        PROVE  b \in Range(buffer[w]) /\ Bytes(w, b) \in Nat /\ Bytes(w, b) # 0
    <3>1. b \in Range(buffer[w])
      BY <2>q, <2>1, PopFacts DEF NextByte
    <3>2. Bytes(w, b) \in Nat /\ Bytes(w, b) # 0
      BY <2>q, <3>1, CountFacts DEF Bytes
    <3> QED
      BY <3>1, <3>2
  <2>2. ASSUME NextByte(w, "l") PROVE accept_queue[w] # << >> /\ thread[Head(accept_queue[w])] = w
    <3>1. Len(accept_queue[w]) # 0
      <4>1. Bytes(w, "l") \in Nat /\ Bytes(w, "l") # 0
        BY <2>1, <2>2
      <4>2. AcceptUnsent(w) \in {0, 1} /\ Bytes(w, "l") + AcceptUnsent(w) = Len(accept_queue[w])
        BY <2>t DEF LBytes, AcceptUnsent
      <4> QED
        BY <4>1, <4>2
    <3>2. accept_queue[w] # << >>
      BY <3>1
    <3>3. Head(accept_queue[w]) \in Range(accept_queue[w]) /\ Head(accept_queue[w]) \in Conn
      BY <2>q, <3>2, PopFacts
    <3> QED
      BY <2>t, <3>2, <3>3 DEF Owned
  <2>3. ASSUME NextByte(w, "x") PROVE close_queue[w] # << >>
    <3>1. "x" \in Range(buffer[w]) /\ Bytes(w, "x") \in Nat /\ Bytes(w, "x") # 0
      BY <2>1, <2>3
    <3>2. ~LooksUp
      BY <2>t, <3>1 DEF Used
    <3>3. Len(close_queue[w]) # 0
      <4>1. Len(close_queue[w]) \in Nat
        BY <2>q, LenProperties
      <4>2. Bytes(w, "x") + (IF wpc[w] = "writing" THEN 1 ELSE 0) <= Len(close_queue[w])
        BY <2>t, <3>2 DEF XBytes
      <4> QED
        BY <3>1, <4>1, <4>2
    <3> QED
      BY <3>3
  <2> QED
    BY <2>2, <2>3
<1> QED
  BY <1>1, ServerInvariant, PTL DEF Inv

\* Each accepted connection has one "l", sent or still to be sent, and each "x" has
\* an entry of the close queue.
THEOREM BytesMatch == Spec => [](InUse => BytesMatchQueues)
<1>1. ASSUME Base, InUse, Use PROVE BytesMatchQueues
  <2> SUFFICES ASSUME NEW w \in Workers PROVE Bytes(w, "x") + CloseUnsent(w) <= Len(close_queue[w])
    BY <1>1 DEF BytesMatchQueues, Base, LBytes
  <2>t. TypeOK /\ Places /\ Used /\ XBytes /\ ClosesWatched
    BY <1>1 DEF Base, Use
  <2>q. /\ close_queue[w] \in Seq(Conn) /\ Len(close_queue[w]) \in Nat
        /\ buffer[w] \in Seq(Byte) /\ pipe[w] \in Seq(Byte)
    BY <2>t, LenProperties DEF TypeOK
  <2> DEFINE T == {v \in Workers : wpc[v] = "writing" /\ thread[wconn[v]] = w}
  <2>1. T = IF wpc[w] = "writing" THEN {w} ELSE {}
    BY <2>t DEF ClosesWatched
  <2>2. CloseUnsent(w) = IF wpc[w] = "writing" THEN 1 ELSE 0
    <3>1. CloseUnsent(w) = Cardinality(T)
      BY DEF CloseUnsent
    <3> HIDE DEF T
    <3> QED
      BY <2>1, <3>1, FS_EmptySet, FS_Singleton
  <2>3. CASE LooksUp
    <3>1. "x" \notin Range(buffer[w]) /\ "x" \notin Range(pipe[w]) /\ wpc[w] # "writing"
      BY <2>3, <2>t DEF Used
    <3>2. Bytes(w, "x") = 0
      <4>1. Times(buffer[w], "x") = 0 /\ Times(pipe[w], "x") = 0
        BY <2>q, <3>1, CountFacts
      <4>2. Bytes(w, "x") = Times(buffer[w], "x") + Times(pipe[w], "x")
        BY <2>q, CountFacts DEF Bytes
      <4> QED
        BY <4>1, <4>2
    <3> QED
      BY <2>2, <2>q, <3>1, <3>2
  <2>4. CASE ~LooksUp
    BY <2>2, <2>4, <2>t DEF XBytes
  <2> QED
    BY <2>3, <2>4
<1> QED
  BY <1>1, ServerInvariant, PTL DEF Inv

\* A connection is closed once: remove_conn never gets a pointer that was freed.
THEOREM ClosesOnce == Spec => [](InUse => ClosedOnce)
<1>1. ASSUME Base, InUse, Use PROVE ClosedOnce
  <2>t. TypeOK /\ Places /\ Owned /\ QueuedOnce /\ Allocated /\ Assigned /\ ClosesWatched
    BY <1>1 DEF Base, Use
  <2>1. ASSUME NEW c \in Closing PROVE c \in live /\ c \in Conn /\ \E u \in Workers : Serves(u, c)
    BY <2>t, <2>1 DEF Closing, Owned, Serves, Places, WorkerPlace, Having, TypeOK
  <2>2. ASSUME NEW c \in Queued
        PROVE  c \in live /\ c \in Conn /\ \E u \in Workers : c \in Range(close_queue[u])
    <3>1. PICK u \in Workers : c \in Range(close_queue[u])
      BY <2>2 DEF Queued
    <3>2. close_queue[u] \in Seq(Conn)
      BY <2>t DEF TypeOK
    <3>3. c \in Conn
      BY <3>1, <3>2, InRange
    <3> QED
      BY <2>t, <3>1, <3>3 DEF Owned
  <2>3. ASSUME NEW c \in Accepted PROVE c \in live
    <3>1. CASE \E u \in Workers : c \in Range(accept_queue[u])
      <4>1. PICK u \in Workers : c \in Range(accept_queue[u])
        BY <3>1
      <4>2. accept_queue[u] \in Seq(Conn)
        BY <2>t DEF TypeOK
      <4>3. c \in Conn
        BY <4>1, <4>2, InRange
      <4> QED
        BY <2>t, <4>1, <4>3 DEF Owned
    <3>2. CASE mpc = "push" /\ c = mconn
      BY <2>t, <3>2 DEF Owned, MainOwns, Places, WorkerPlace, Handling, TypeOK
    <3>3. CASE mpc = "notify" /\ c = mconn
      <4>1. /\ mthread \in Workers /\ accept_queue[mthread] \in Seq(Conn) /\ accept_queue[mthread] # << >>
            /\ accept_queue[mthread][Len(accept_queue[mthread])] = c /\ c \in Conn
        BY <2>t, <3>3 DEF Assigned, TypeOK, Places, WorkerPlace, Handling
      <4>2. c \in Range(accept_queue[mthread])
        BY <4>1, LastInRange
      <4> QED
        BY <2>t, <4>1, <4>2 DEF Owned
    <3>4. \/ c \in UNION {Range(accept_queue[u]) : u \in Workers}
          \/ c \in (IF mpc \in {"push", "notify"} THEN {mconn} ELSE {})
      BY <2>3 DEF Accepted
    <3>5. CASE c \in UNION {Range(accept_queue[u]) : u \in Workers}
      BY <3>1, <3>5
    <3>6. CASE c \in (IF mpc \in {"push", "notify"} THEN {mconn} ELSE {})
      BY <3>2, <3>3, <3>6
    <3> QED
      BY <3>4, <3>5, <3>6
  <2>4. Closing \cap Queued = {}
    BY <2>1, <2>2, <2>t DEF Owned
  <2>5. ASSUME NEW v \in Workers, NEW w \in Workers, wconn[v] \in Closing, wconn[v] = wconn[w]
        PROVE  v = w
    <3> DEFINE c == wconn[v]
    <3>1. PICK u \in Workers : Serves(u, c)
      BY <2>1, <2>5
    <3>2. c \in Conn /\ c \in live \ watched /\ thread[c] = u /\ c # NULL
      BY <2>1, <2>5, <2>t, <3>1, ServerAssumption DEF Owned
    <3>3. ASSUME NEW x \in Workers, wconn[x] = c PROVE Serves(x, c)
      <4>1. wpc[x] \in Having
        BY <2>t, <3>2, <3>3 DEF Places, WorkerPlace
      <4>2. wpc[x] # "free"
        BY <2>t, <3>2, <3>3 DEF Allocated
      <4>3. wpc[x] \notin {"closing", "queueing", "writing"}
        BY <2>t, <3>2, <3>3 DEF ClosesWatched
      <4> QED
        BY <3>3, <4>1, <4>2, <4>3 DEF Having, Serves
    <3>4. Serves(v, c) /\ Serves(w, c)
      BY <2>5, <3>3
    <3> QED
      BY <2>t, <3>2, <3>4 DEF Owned
  <2>6. ASSUME NEW v \in Workers, NEW w \in Workers,
               NEW j \in DOMAIN close_queue[v], NEW k \in DOMAIN close_queue[w],
               close_queue[v][j] = close_queue[w][k]
        PROVE  v = w /\ j = k
    <3> DEFINE c == close_queue[v][j]
    <3>1. c \in Range(close_queue[v]) /\ c \in Range(close_queue[w])
      BY <2>6 DEF Range
    <3>2. close_queue[v] \in Seq(Conn)
      BY <2>t DEF TypeOK
    <3>3. c \in Conn
      BY <3>1, <3>2, InRange
    <3>4. v = w
      BY <2>t, <3>1, <3>3 DEF Owned
    <3> QED
      BY <2>6, <2>t, <3>4 DEF QueuedOnce, IsInjective
  <2> QED
    BY <2>1, <2>2, <2>3, <2>4, <2>5, <2>6 DEF ClosedOnce
<1> QED
  BY <1>1, ServerInvariant, PTL DEF Inv

\* A reference keeps the connection: it is not freed before unref_conn.
THEOREM ReferencesKeep == Spec => [](InUse => ReferencesLive)
<1>1. ASSUME Base, Use PROVE ReferencesLive
  <2> SUFFICES ASSUME NEW w \in Workers, held[w] # NULL
               PROVE  held[w] \in alloc /\ ref_count[held[w]] > 0
    BY DEF ReferencesLive
  <2>1. held[w] \in alloc /\ held[w] \in Conn
    BY <1>1 DEF Base, Use, Referenced, TypeOK
  <2>2. ref_count[held[w]] = Cardinality(Holders(held[w])) /\ w \in Holders(held[w])
    BY <1>1, <2>1 DEF Use, Referenced, Holders
  <2>3. Cardinality(Holders(held[w])) \in Nat /\ Cardinality(Holders(held[w])) # 0
    BY <2>2, HoldersFinite
  <2> QED
    BY <2>1, <2>2, <2>3
<1> QED
  BY <1>1, ServerInvariant, PTL DEF Inv

\* After the last worker has exited, no connection is left but the one in the slot
\* that the scan of signal_handler does not visit.
THEOREM ExitCleans == Spec => [](InUse => ExitLeavesNothing)
<1>1. ASSUME Base, Use, mpc = "stop"
      PROVE  (\A c \in live : index[c] = MaxClients) /\ Queued = {} /\ Accepted = {}
  <2>1. \A w \in Workers : wpc[w] = "exited" /\ Waiting(w) = << >>
    BY <1>1 DEF Base, Joined, Places, WorkerPlace, Use, Emptied
  <2>2. \A w \in Workers : accept_queue[w] = << >> /\ close_queue[w] = << >>
    <3> TAKE w \in Workers
    <3>1. accept_queue[w] \in Seq(Conn) /\ close_queue[w] \in Seq(Conn) /\ accept_queue[w] \o close_queue[w] = << >>
      BY <1>1, <2>1 DEF Base, TypeOK, Waiting
    <3> QED
      BY <3>1, BothEmpty
  <2>3. Queued = {} /\ Accepted = {}
    BY <1>1, <2>2 DEF Queued, Accepted, Range
  <2>4. ASSUME NEW c \in live PROVE index[c] = MaxClients
    <3>1. ~(index[c] < MaxClients)
      BY <1>1, <2>1, <2>2 DEF Use, ScanSeen, Told, Ending, Serves, Range
    <3>2. index[c] \in 0 .. MaxClients
      BY <1>1, <2>4 DEF Use, TableProof!IndInv, TableProof!TypeOK, TableProof!Slots
    <3> QED
      BY <3>1, <3>2, ServerAssumption
  <2> QED
    BY <2>3, <2>4
<1>2. ASSUME Base, InUse, Use PROVE ExitLeavesNothing
  BY <1>1, <1>2 DEF ExitLeavesNothing
<1> QED
  BY <1>2, ServerInvariant, PTL DEF Inv

\* Counting the connections and inserting one are two critical sections, yet the
\* server only takes steps the table allows.
THEOREM ServerKeepsTable == Spec /\ InUse => TableSpec
<1>1. Init => Table!Init
  BY DEF Init
<1>2. ASSUME Inv, InUse, [Next]_vars PROVE [Table!Next]_(Table!tableVars) /\ InUse'
  <2>1. Base /\ Use
    BY <1>2 DEF Inv
  <2>2. InUse'
    BY <1>2, SceneStays DEF InUse, LooksUp, ClosesOwn
  <2> QED
    BY <1>2, <2>1, <2>2, TableStep DEF Table!Next, tableVars, Table!tableVars
<1> QED
  BY <1>1, <1>2, ServerInvariant, PTL DEF Spec, TableSpec, Table!Spec

-----------------------------------------------------------------------------
(***************************************************************************)
(* The modules of the server, and the rows of the demo module.             *)
(***************************************************************************)
\* What the lists of started modules and of initialised modules go through.
Prefixes == {<< >>, <<"my">>, Modules}

\* Modules are started before the workers exist, and prepared by a worker before it
\* serves; there are no connections before all that.
Lifecycle ==
  /\ started \in Prefixes /\ inited \in [Workers -> Prefixes]
  /\ mpc = "start" => started # Modules
  /\ mpc \notin {"start", "stop", "done"} => started = Modules
  /\ mpc = "stop" => started # << >>
  /\ mpc \in Starting => live = {}
  /\ \A w \in Workers :
       /\ wpc[w] \in {"none", "exited"} => inited[w] = << >>
       /\ wpc[w] \notin {"none", "init", "destory", "exited"} => inited[w] = Modules

\* The accept hooks of c have run, and its close hooks have not.
IsOpen(c) ==
  \/ c \in watched
  \/ \E w \in Workers : c \in Range(accept_queue[w])
  \/ mpc \in {"push", "notify"} /\ c = mconn
  \/ \E w \in Workers : wpc[w] = "hook" /\ wconn[w] = c

\* Each connection in the table is open, on its way in, or on its way out.
Placed ==
  \A c \in live : \/ IsOpen(c) \/ MainOwns(c)
                  \/ \E w \in Workers : wpc[w] = "remove" /\ wconn[w] = c

\* A row belongs to the connection that has its index, an open connection has its
\* row, and one on its way in or out has none.
RowsKept ==
  /\ started = Modules =>
       \A i \in 0 .. MaxClients : \A r \in row[i] : r \in live /\ index[r] = i
  /\ mpc \in {"assign", "hook", "reject"} => row[index[mconn]] = {}
  /\ \A w \in Workers : wpc[w] = "remove" => row[index[wconn[w]]] = {}
  /\ mpc \notin {"stop", "done"} => \A c \in Conn : IsOpen(c) => row[index[c]] = {c}

HasRows == InUse /\ "late_fail" \notin scene.accepts


\* The lists of modules, one by one.
LEMMA ModuleLists ==
  /\ Onward(<< >>) = <<"my">> /\ Onward(<<"my">>) = Modules
  /\ SubSeq(Modules, 1, Len(Modules) - 1) = <<"my">> /\ SubSeq(<<"my">>, 1, Len(<<"my">>) - 1) = << >>
  /\ Len(<<"my">>) = 1 /\ Len(Modules) = 2
  /\ Append(<< >>, "my") = <<"my">> /\ Append(<<"my">>, "demo") = Modules
  /\ << >> # <<"my">> /\ << >> # Modules /\ <<"my">> # Modules
<1> DEFINE S == {"my", "demo"}
           a == <<"my">>
           b == <<"my", "demo">>
<1>0. /\ Modules = b /\ a \in Seq(S) /\ b \in Seq(S) /\ << >> \in Seq(S)
      /\ Len(a) = 1 /\ Len(b) = 2 /\ Len(<< >>) = 0 /\ a[1] = "my" /\ b[1] = "my" /\ b[2] = "demo"
  BY DEF Modules
<1> HIDE DEF a, b, S
<1>1. << >> # a /\ << >> # b /\ a # b
  <2>1. Len(a) # Len(b) /\ Len(a) # 0 /\ Len(b) # 0
    BY <1>0
  <2>2. a # b
    BY <2>1
  <2> QED
    BY <1>0, <2>1, <2>2, EmptySeq
<1>2. Onward(<< >>) = a
  <2>1. Onward(<< >>) = SubSeq(b, 1, 1)
    BY <1>0 DEF Onward
  <2>2. SubSeq(b, 1, 1) \in Seq(S) /\ Len(SubSeq(b, 1, 1)) = 1 /\ SubSeq(b, 1, 1)[1] = b[1]
    <3>1. 1 \in Int /\ \A i \in 1 .. 1 : b[i] \in S
      BY <1>0 DEF S
    <3>2. /\ SubSeq(b, 1, 1) \in Seq(S)
          /\ Len(SubSeq(b, 1, 1)) = IF 1 <= 1 THEN 1 - 1 + 1 ELSE 0
          /\ \A i \in 1 .. 1 - 1 + 1 : SubSeq(b, 1, 1)[i] = b[1 + i - 1]
      BY <3>1, SubSeqProperties
    <3> QED
      BY <3>2
  <2>3. SubSeq(b, 1, 1) = a
    BY <1>0, <2>2, SeqEqual
  <2> QED
    BY <2>1, <2>3
<1>3. Onward(a) = b
  BY <1>0, SubSeqFull DEF Onward
<1>4. SubSeq(b, 1, Len(b) - 1) = a
  BY <1>0, <1>2 DEF Onward
<1>5. SubSeq(a, 1, Len(a) - 1) = << >>
  BY <1>0, SubSeqEmpty
<1>6. Append(<< >>, "my") = a /\ Append(a, "demo") = b
  <2>1. Append(<< >>, "my") = a
    BY DEF a
  <2>2. /\ Append(a, "demo") \in Seq(S) /\ Len(Append(a, "demo")) = 2
        /\ Append(a, "demo")[1] = "my" /\ Append(a, "demo")[2] = "demo"
    <3>1. "demo" \in S
      BY DEF S
    <3>2. a \in Seq(S)
      BY <1>0
    <3>3. /\ Append(a, "demo") \in Seq(S) /\ Len(Append(a, "demo")) = Len(a) + 1
          /\ \A i \in 1 .. Len(a) : Append(a, "demo")[i] = a[i]
          /\ Append(a, "demo")[Len(a) + 1] = "demo"
      BY <3>1, <3>2, AppendProperties
    <3> QED
      BY <1>0, <3>3
  <2>3. Append(a, "demo") = b
    BY <1>0, <2>2, SeqEqual
  <2> QED
    BY <2>1, <2>3
<1> QED
  BY <1>0, <1>1, <1>2, <1>3, <1>4, <1>5, <1>6 DEF a

\* Steps that run a hook of the life of a module.
LEMMA LifeMoves ==
  [Next]_vars =>
    \/ UNCHANGED <<started, inited>>
    \/ StartModule \/ StopModule
    \/ \E w \in Workers : ThreadInit(w) \/ ThreadDestory(w)
<1> DEFINE Goal ==
    \/ UNCHANGED <<started, inited>>
    \/ StartModule \/ StopModule
    \/ \E w \in Workers : ThreadInit(w) \/ ThreadDestory(w)
<1> SUFFICES ASSUME [Next]_vars PROVE Goal
  OBVIOUS
<1>1. ASSUME MainStep PROVE Goal
  BY <1>1 DEF MainStep, CreateWorkers, Barrier, CheckRoom, Deny, Insert, Assign, AcceptHook,
     QueueAccepted, NotifyAccepted, RejectBegin, RejectEnd, EnableAccept, ScanTable, SendDash,
     Join, MainGoto, Goto, Free, RemoveBegin, RemoveEnd, lifeVars, tableVars, lockVars,
     connVars, queueVars, mainVars, workerVars
<1>2. ASSUME NEW w \in Workers, Serve(w) PROVE Goal
  BY <1>2 DEF Serve, ReadPipe, Register, TakeClose, Break, EndNotify, ReadEof, EnterLoop, Drain,
     LeaveLoop, Exit, CloseHook, BeginRemove, EndRemove, TellMain, Goto, Free, RemoveBegin,
     RemoveEnd, Clean, lifeVars, tableVars, lockVars, connVars, queueVars, mainVars, workerVars
<1>3. ASSUME NEW w \in Workers, FinishHook(w) \/ UseApi(w) PROVE Goal
  BY <1>3 DEF FinishHook, UseApi, UnrefConn, TestRefable, TestNotRefable, QueueClosing,
     NotifyClosing, IndexConn, CloseOwn, CloseOther, Goto, lifeVars, tableVars, lockVars,
     connVars, queueVars, mainVars, workerVars
<1>4. ASSUME (\E c \in Conn : ClientClose(c) \/ Accept(c)) \/ Signal \/ UNCHANGED vars PROVE Goal
  BY <1>4 DEF vars, Signal, ClientClose, Accept, lifeVars, tableVars, lockVars, connVars,
     queueVars, mainVars, workerVars
<1> HIDE DEF Goal
<1> QED
  BY <1>1, <1>2, <1>3, <1>4 DEF Next, Ended


\* What is open, connection by connection.
LEMMA OpenMeans == \A c : c \in Open <=> IsOpen(c)
<1> TAKE c
<1>1. c \in Open <=> \/ c \in Accepted \/ c \in watched
                     \/ c \in {wconn[w] : w \in {v \in Workers : wpc[v] = "hook"}}
  BY DEF Open
<1>2. c \in Accepted <=> \/ c \in UNION {Range(accept_queue[u]) : u \in Workers}
                         \/ c \in (IF mpc \in {"push", "notify"} THEN {mconn} ELSE {})
  BY DEF Accepted
<1>3. c \in UNION {Range(accept_queue[u]) : u \in Workers} <=> \E u \in Workers : c \in Range(accept_queue[u])
  OBVIOUS
<1>4. c \in (IF mpc \in {"push", "notify"} THEN {mconn} ELSE {}) <=> mpc \in {"push", "notify"} /\ c = mconn
  OBVIOUS
<1>5. c \in {wconn[w] : w \in {v \in Workers : wpc[v] = "hook"}} <=> \E w \in Workers : wpc[w] = "hook" /\ wconn[w] = c
  OBVIOUS
<1> QED
  BY <1>1, <1>2, <1>3, <1>4, <1>5 DEF IsOpen

\* The server begins with no module, and with no connection.
LEMMA InitLifecycle == Init => Lifecycle
BY ModuleLists DEF Init, Table!Init, Lifecycle, Prefixes

\* Every step keeps the order in which modules are started and stopped.
LEMMA LifecycleStep == TypeOK /\ Places /\ Lifecycle /\ [Next]_vars => Lifecycle'
<1> SUFFICES ASSUME TypeOK, Places, Lifecycle, [Next]_vars PROVE Lifecycle'
  OBVIOUS
<1>p. /\ started \in Prefixes /\ inited \in [Workers -> Prefixes]
      /\ mpc = "start" => started # Modules
      /\ mpc \notin {"start", "stop", "done"} => started = Modules
      /\ mpc = "stop" => started # << >>
      /\ mpc \in Starting => live = {}
      /\ \A w \in Workers :
           /\ wpc[w] \in {"none", "exited"} => inited[w] = << >>
           /\ wpc[w] \notin {"none", "init", "destory", "exited"} => inited[w] = Modules
  BY DEF Lifecycle
<1>y. wpc \in [Workers -> WorkerPlaces] /\ mpc \in Starting \cup {"loop"} \cup Handling \cup Ending
  BY DEF TypeOK
<1>s. ASSUME StartModule
      PROVE  /\ mpc = "start" /\ inited' = inited /\ started' \in Prefixes
             /\ mpc' = "start" => started' # Modules
             /\ mpc' \in {"start", "create"} /\ (mpc' = "create" => started' = Modules)
  BY <1>p, <1>s, ModuleLists DEF StartModule, MainGoto, Prefixes
<1>e. ASSUME StopModule
      PROVE  /\ mpc = "stop" /\ inited' = inited /\ started' \in Prefixes
             /\ mpc' \in {"stop", "done"} /\ (mpc' = "stop" => started' # << >>)
  BY <1>p, <1>e, ModuleLists DEF StopModule, MainGoto, Prefixes
<1>i. ASSUME NEW v \in Workers, ThreadInit(v)
      PROVE  /\ wpc[v] = "init" /\ started' = started /\ inited' \in [Workers -> Prefixes]
             /\ \A w \in Workers \ {v} : inited'[w] = inited[w]
             /\ UNCHANGED <<mpc, wpc>>
  <2>1. /\ wpc[v] = "init" /\ inited[v] # Modules /\ inited' = [inited EXCEPT ![v] = Onward(inited[v])]
        /\ started' = started /\ UNCHANGED <<mpc, wpc>>
    BY <1>i DEF ThreadInit, mainVars, workerVars
  <2>2. Onward(inited[v]) \in Prefixes
    BY <1>p, <2>1, ModuleLists DEF Prefixes
  <2> QED
    BY <1>p, <2>1, <2>2
<1>d. ASSUME NEW v \in Workers, ThreadDestory(v)
      PROVE  /\ wpc[v] = "destory" /\ started' = started /\ inited' \in [Workers -> Prefixes]
             /\ \A w \in Workers \ {v} : inited'[w] = inited[w]
             /\ UNCHANGED <<mpc, wpc>>
  <2>1. /\ wpc[v] = "destory" /\ inited[v] # << >> /\ inited' = [inited EXCEPT ![v] = SubSeq(inited[v], 1, Len(inited[v]) - 1)]
        /\ started' = started /\ UNCHANGED <<mpc, wpc>>
    BY <1>d DEF ThreadDestory, mainVars, workerVars
  <2>2. SubSeq(inited[v], 1, Len(inited[v]) - 1) \in Prefixes
    BY <1>p, <2>1, ModuleLists DEF Prefixes
  <2> QED
    BY <1>p, <2>1, <2>2
<1>1. started' \in Prefixes /\ inited' \in [Workers -> Prefixes]
  <2>1. CASE UNCHANGED <<started, inited>>
    BY <1>p, <2>1
  <2> QED
    BY <1>p, <1>s, <1>e, <1>i, <1>d, <2>1, LifeMoves
<1>2. /\ mpc' = "start" => started' # Modules
      /\ mpc' \notin {"start", "stop", "done"} => started' = Modules
      /\ mpc' = "stop" => started' # << >>
  <2>1. ASSUME ~StartModule, ~StopModule PROVE started' = started
    BY <1>i, <1>d, <2>1, LifeMoves
  <2>2. ASSUME ~StartModule, ~StopModule
        PROVE  /\ mpc' = "start" => mpc = "start"
               /\ mpc' \notin {"start", "stop", "done"} => mpc \notin {"start", "stop", "done"}
               /\ mpc' = "stop" => mpc \in {"stop", "join"}
    BY <2>2, MainMoves DEF MainGoto, StartModule, CreateWorkers, Barrier, CheckRoom, Deny, Insert,
       Assign, AcceptHook, QueueAccepted, NotifyAccepted, RejectBegin, RejectEnd, EnableAccept,
       ScanTable, SendDash, Join, StopModule, Signal, Accept
  <2>3. Modules # << >>
    BY ModuleLists
  <2> QED
    BY <1>p, <1>s, <1>e, <2>1, <2>2, <2>3
<1>3. mpc' \in Starting => live' = {}
  <2>1. mpc' \in Starting => mpc \in Starting
    BY MainMoves DEF Starting, MainGoto, StartModule, CreateWorkers, Barrier, CheckRoom, Deny,
       Insert, Assign, AcceptHook, QueueAccepted, NotifyAccepted, RejectBegin, RejectEnd,
       EnableAccept, ScanTable, SendDash, Join, StopModule, Signal, Accept
  <2>2. ASSUME mpc \in Starting PROVE ~Insert
    BY <2>2 DEF Insert, MainGoto, Starting
  <2>3. ASSUME live = {}, ~Insert PROVE live' = {}
    BY <2>3, TableMoves DEF RejectBegin, BeginRemove, RemoveBegin, Table!RemoveConn
  <2> QED
    BY <1>p, <2>1, <2>2, <2>3
<1>4. ASSUME NEW w \in Workers
      PROVE  /\ wpc'[w] \in {"none", "exited"} => inited'[w] = << >>
             /\ wpc'[w] \notin {"none", "init", "destory", "exited"} => inited'[w] = Modules
  <2>1. \/ inited'[w] = inited[w]
        \/ wpc[w] \in {"init", "destory"} /\ wpc'[w] = wpc[w]
    BY <1>s, <1>e, <1>i, <1>d, LifeMoves
  <2>2. wpc'[w] = "none" => wpc[w] = "none"
    BY <1>y, PlaceMoves DEF Goto, Clean, HookPlace, CreateWorkers, ReadPipe, TakeClose, EndNotify,
       EnterLoop, Drain, LeaveLoop, Exit, CloseHook, BeginRemove, EndRemove, TellMain, UnrefConn,
       TestRefable, TestNotRefable, QueueClosing, NotifyClosing, CloseOther, ReadEof, IndexConn,
       CloseOwn
  <2>3. wpc'[w] = "exited" => wpc[w] = "exited" \/ inited[w] = << >>
    BY <1>y, PlaceMoves DEF Goto, Clean, HookPlace, CreateWorkers, ReadPipe, TakeClose, EndNotify,
       EnterLoop, Drain, LeaveLoop, Exit, CloseHook, BeginRemove, EndRemove, TellMain, UnrefConn,
       TestRefable, TestNotRefable, QueueClosing, NotifyClosing, CloseOther, ReadEof, IndexConn,
       CloseOwn
  <2>4. wpc'[w] \notin {"none", "init", "destory", "exited"} =>
          wpc[w] \notin {"none", "init", "destory", "exited"} \/ inited[w] = Modules
    BY <1>y, PlaceMoves DEF Goto, Clean, HookPlace, CreateWorkers, ReadPipe, TakeClose, EndNotify,
       EnterLoop, Drain, LeaveLoop, Exit, CloseHook, BeginRemove, EndRemove, TellMain, UnrefConn,
       TestRefable, TestNotRefable, QueueClosing, NotifyClosing, CloseOther, ReadEof, IndexConn,
       CloseOwn
  <2> QED
    BY <1>p, <2>1, <2>2, <2>3, <2>4
<1> QED
  BY <1>1, <1>2, <1>3, <1>4 DEF Lifecycle

\* Steps that register or remove a read event.
LEMMA WatchMoves ==
  [Next]_vars =>
    \/ UNCHANGED <<watched>>
    \/ Deny \/ RejectEnd
    \/ \E w \in Workers : Register(w) \/ TakeClose(w) \/ Drain(w) \/ EndRemove(w)
    \/ \E w \in Workers, c \in Conn : ReadEof(w, c)
<1> DEFINE Goal ==
    \/ UNCHANGED <<watched>>
    \/ Deny \/ RejectEnd
    \/ \E w \in Workers : Register(w) \/ TakeClose(w) \/ Drain(w) \/ EndRemove(w)
    \/ \E w \in Workers, c \in Conn : ReadEof(w, c)
<1> SUFFICES ASSUME [Next]_vars PROVE Goal
  OBVIOUS
<1>1. ASSUME MainStep PROVE Goal
  BY <1>1 DEF MainStep, StartModule, CreateWorkers, Barrier, CheckRoom, Insert, Assign,
     AcceptHook, QueueAccepted, NotifyAccepted, RejectBegin, EnableAccept, ScanTable, SendDash,
     Join, StopModule, MainGoto, Goto, RemoveBegin, lifeVars, tableVars, lockVars, connVars,
     queueVars, mainVars, workerVars
<1>2. ASSUME NEW w \in Workers, Serve(w) PROVE Goal
  BY <1>2 DEF Serve, ReadPipe, Break, EndNotify, ThreadInit, EnterLoop, LeaveLoop,
     ThreadDestory, Exit, CloseHook, BeginRemove, TellMain, Goto, RemoveBegin, lifeVars,
     tableVars, lockVars, connVars, queueVars, mainVars, workerVars
<1>3. ASSUME NEW w \in Workers, FinishHook(w) \/ UseApi(w) PROVE Goal
  BY <1>3 DEF FinishHook, UseApi, UnrefConn, TestRefable, TestNotRefable, QueueClosing,
     NotifyClosing, IndexConn, CloseOwn, CloseOther, Goto, lifeVars, tableVars, lockVars,
     connVars, queueVars, mainVars, workerVars
<1>4. ASSUME (\E c \in Conn : ClientClose(c) \/ Accept(c)) \/ Signal \/ UNCHANGED vars PROVE Goal
  BY <1>4 DEF vars, Signal, ClientClose, Accept, lifeVars, tableVars, lockVars, connVars,
     queueVars, mainVars, workerVars
<1> HIDE DEF Goal
<1> QED
  BY <1>1, <1>2, <1>3, <1>4 DEF Next, Ended


\* An open connection is in the table.
LEMMA OpenLive ==
  ASSUME TypeOK, Places, Owned, Assigned, NEW c, IsOpen(c)
  PROVE  c \in live /\ c \in Conn /\ thread[c] # NULL
<1>y. watched \subseteq Conn /\ accept_queue \in [Workers -> Seq(Conn)] /\ NULL \notin Conn \cup Workers
  BY ServerAssumption DEF TypeOK, Workers
<1>1. ASSUME NEW w \in Workers, c \in Range(accept_queue[w]) PROVE c \in live /\ c \in Conn /\
   thread[c] # NULL
  <2>1. accept_queue[w] \in Seq(Conn)
    BY <1>y
  <2>2. c \in Conn
    BY <1>1, <2>1, InRange
  <2> QED
    BY <1>1, <1>y, <2>2 DEF Owned
<1>2. ASSUME c \in watched PROVE c \in live /\ c \in Conn /\ thread[c] # NULL
  BY <1>2, <1>y DEF Owned
<1>3. ASSUME mpc = "push", c = mconn PROVE c \in live /\ c \in Conn /\ thread[c] # NULL
  <2>1. c \in Conn
    BY <1>3 DEF TypeOK, Places, WorkerPlace, Handling
  <2>2. MainOwns(c)
    BY <1>3 DEF MainOwns
  <2>3. c \in live
    BY <2>1, <2>2 DEF Owned
  <2> QED
    BY <1>3, <2>1, <2>3 DEF Assigned
<1>4. ASSUME mpc = "notify", c = mconn PROVE \E w \in Workers : c \in Range(accept_queue[w])
  <2>1. /\ mthread \in Workers /\ accept_queue[mthread] \in Seq(Conn) /\ accept_queue[mthread] # << >>
        /\ accept_queue[mthread][Len(accept_queue[mthread])] = c
    BY <1>4, <1>y DEF Assigned, TypeOK
  <2> QED
    BY <2>1, LastInRange
<1>5. ASSUME NEW w \in Workers, wpc[w] = "hook", wconn[w] = c PROVE c \in live /\ c \in Conn /\
   thread[c] # NULL
  <2>1. c \in Conn
    BY <1>5 DEF TypeOK, Places, WorkerPlace, Having
  <2>2. Serves(w, c)
    BY <1>5 DEF Serves
  <2> QED
    BY <1>y, <2>1, <2>2 DEF Owned
<1> QED
  BY <1>1, <1>2, <1>3, <1>4, <1>5 DEF IsOpen

\* A connection that waits to be closed is open.
LEMMA WaitingOpen ==
  ASSUME TypeOK, Owned, Placed, NEW w \in Workers, NEW c \in Range(accept_queue[w]) \cup Range(close_queue[w])
  PROVE  IsOpen(c) /\ c \in Conn
<1>1. CASE c \in Range(accept_queue[w])
  <2>1. accept_queue[w] \in Seq(Conn)
    BY DEF TypeOK
  <2> QED
    BY <1>1, <2>1, InRange DEF IsOpen
<1>2. CASE c \in Range(close_queue[w])
  <2>1. close_queue[w] \in Seq(Conn)
    BY DEF TypeOK
  <2>2. c \in Conn
    BY <1>2, <2>1, InRange
  <2>3. c \in live /\ thread[c] = w /\ ~Serves(w, c) /\ ~MainOwns(c)
    BY <1>2, <2>2 DEF Owned
  <2>4. \A u \in Workers : ~Serves(u, c)
    BY <2>2, <2>3 DEF Owned
  <2> QED
    BY <2>2, <2>3, <2>4 DEF Placed, Serves
<1> QED
  BY <1>1, <1>2

\* A connection becomes open when its accept hooks have run.
LEMMA OpenComes ==
  ASSUME Base, InUse, Use, Placed, [Next]_vars, NEW c \in Conn, IsOpen(c)'
  PROVE  IsOpen(c) \/ (mpc = "hook" /\ mpc' = "push" /\ mconn' = mconn /\ c = mconn)
<1>t. TypeOK /\ Places /\ Owned /\ Assigned
  BY DEF Base, Use
<1>y. /\ accept_queue \in [Workers -> Seq(Conn)] /\ close_queue \in [Workers -> Seq(Conn)]
      /\ wpc \in [Workers -> WorkerPlaces] /\ wconn \in [Workers -> Conn \cup {NULL}]
      /\ mconn \in Conn \cup {NULL}
  BY <1>t DEF TypeOK
<1>1. ASSUME c \in watched' PROVE IsOpen(c)
  <2>1. ASSUME NEW w \in Workers, Register(w), c \notin watched PROVE c \in Range(accept_queue[w])
    <3>1. accept_queue[w] # << >> /\ c = Head(accept_queue[w])
      BY <1>1, <2>1 DEF Register
    <3> QED
      BY <1>y, <3>1, PopHead
  <2>2. ASSUME \A w \in Workers : ~Register(w) PROVE c \in watched
    BY <1>1, <2>2, WatchMoves DEF Deny, RejectEnd, RemoveEnd, Free, TakeClose, ReadEof, Drain,
       Clean, EndRemove
  <2> QED
    BY <2>1, <2>2 DEF IsOpen
<1>2. ASSUME NEW w \in Workers, c \in Range(accept_queue'[w]) PROVE IsOpen(c)
  <2>1. ASSUME QueueAccepted PROVE IsOpen(c)
    <3>1. mpc = "push" /\ accept_queue' = Push(accept_queue, mthread, mconn) /\ mconn \in Conn
      BY <1>t, <2>1 DEF QueueAccepted, MainGoto, Places, WorkerPlace, Handling, TypeOK
    <3>2. c \in Range(accept_queue[w]) \/ c = mconn
      BY <1>2, <1>y, <3>1, Pushed
    <3> QED
      BY <3>1, <3>2 DEF IsOpen
  <2>2. ASSUME NEW v \in Workers, accept_queue[v] # << >>, accept_queue' = Pop(accept_queue, v) PROVE IsOpen(c)
    <3>1. Range(accept_queue'[w]) \subseteq Range(accept_queue[w])
      BY <1>y, <2>2, PopRange
    <3> QED
      BY <1>2, <3>1 DEF IsOpen
  <2>3. ASSUME accept_queue' = accept_queue PROVE IsOpen(c)
    BY <1>2, <2>3 DEF IsOpen
  <2>4. ASSUME NEW v \in Workers, Register(v) \/ TakeClose(v) \/ Drain(v) \/ QueueClosing(v)
        PROVE  accept_queue' = accept_queue \/ (accept_queue[v] # << >> /\ accept_queue' = Pop(accept_queue, v))
    BY <2>4 DEF Register, TakeClose, Drain, QueueClosing
  <2> QED
    BY <2>1, <2>2, <2>3, <2>4, QueueMoves DEF ScanTable
<1>3. ASSUME mpc' \in {"push", "notify"}, c = mconn'
      PROVE  IsOpen(c) \/ (mpc = "hook" /\ mpc' = "push" /\ mconn' = mconn /\ c = mconn)
  <2>1. \/ mpc \in {"push", "notify"} /\ mconn' = mconn
        \/ mpc = "hook" /\ mpc' = "push" /\ mconn' = mconn
    BY <1>3, MainMoves DEF MainGoto, StartModule, CreateWorkers, Barrier, CheckRoom, Deny, Insert,
       Assign, AcceptHook, QueueAccepted, NotifyAccepted, RejectBegin, RejectEnd, EnableAccept,
       ScanTable, SendDash, Join, StopModule, Signal, Accept
  <2> QED
    BY <1>3, <2>1 DEF IsOpen
<1>4. ASSUME NEW w \in Workers, wpc'[w] = "hook", wconn'[w] = c PROVE IsOpen(c)
  <2>1. \/ wpc[w] = "hook" /\ wconn[w] = c
        \/ TakeClose(w) \/ Drain(w) \/ \E d \in Conn : ReadEof(w, d)
    <3>1. \/ wpc[w] \in {"hook", "remove", "free"} /\ wconn'[w] = wconn[w]
          \/ TakeClose(w) \/ Drain(w) \/ \E d \in Conn : ReadEof(w, d)
      BY <1>t, <1>4, ClosingMoves
    <3>2. wpc[w] \notin {"remove", "free"}
      BY <1>y, <1>4, PlaceMoves DEF Goto, Clean, HookPlace, CreateWorkers, ReadPipe, TakeClose,
         EndNotify, EnterLoop, Drain, LeaveLoop, Exit, CloseHook, BeginRemove, EndRemove,
         TellMain, UnrefConn, TestRefable, TestNotRefable, QueueClosing, NotifyClosing,
         CloseOther, ReadEof, IndexConn, CloseOwn
    <3> QED
      BY <1>4, <3>1, <3>2
  <2>2. ASSUME NEW d \in Conn, ReadEof(w, d) PROVE c \in watched
    BY <1>y, <1>4, <2>2 DEF ReadEof, Clean
  <2>3. ASSUME TakeClose(w) PROVE c \in Range(close_queue[w])
    <3>1. close_queue[w] # << >> /\ c = Head(close_queue[w])
      BY <1>y, <1>4, <2>3 DEF TakeClose, Clean
    <3> QED
      BY <1>y, <3>1, PopHead
  <2>4. ASSUME Drain(w) PROVE c \in Range(accept_queue[w]) \cup Range(close_queue[w])
    <3>1. c = Head(Waiting(w)) /\ Waiting(w) # << >>
      BY <1>y, <1>4, <2>4 DEF Drain, Clean
    <3> QED
      BY <1>y, <1>t, <3>1, DrainFacts, PopHead
  <2> QED
    BY <1>4, <1>t, <2>1, <2>2, <2>3, <2>4, WaitingOpen DEF IsOpen
<1> QED
  BY <1>1, <1>2, <1>3, <1>4 DEF IsOpen

\* An open connection stays open until a worker runs its close hooks.
LEMMA OpenKeeps ==
  ASSUME Base, InUse, Use, [Next]_vars, NEW c \in Conn, IsOpen(c),
         \A w \in Workers : ~(CloseHook(w) /\ wconn[w] = c)
  PROVE  IsOpen(c)'
<1>t. TypeOK /\ Places /\ Owned /\ Assigned /\ Allocated
  BY DEF Base, Use
<1>y. /\ accept_queue \in [Workers -> Seq(Conn)] /\ close_queue \in [Workers -> Seq(Conn)]
      /\ wpc \in [Workers -> WorkerPlaces] /\ wconn \in [Workers -> Conn \cup {NULL}]
      /\ mconn \in Conn \cup {NULL}
  BY <1>t DEF TypeOK
<1>l. c \in live
  BY <1>t, OpenLive
<1>h. ASSUME NEW w \in Workers, Clean(w, c), wpc' = [wpc EXCEPT ![w] = "hook"] PROVE IsOpen(c)'
  BY <1>y, <1>h DEF Clean, IsOpen
<1>1. ASSUME c \in watched PROVE IsOpen(c)'
  <2>1. ASSUME Deny \/ RejectEnd PROVE c \in watched'
    BY <1>1, <1>t, <1>l, <2>1 DEF Deny, RejectEnd, RemoveEnd, Free, MainGoto, Allocated
  <2>2. ASSUME NEW w \in Workers, EndRemove(w) PROVE c \in watched'
    BY <1>1, <1>t, <1>l, <2>2 DEF EndRemove, RemoveEnd, Free, Goto, Allocated
  <2>3. ASSUME NEW w \in Workers, Register(w) PROVE c \in watched'
    BY <1>1, <2>3 DEF Register
  <2>4. ASSUME NEW w \in Workers, NEW d \in Conn, ReadEof(w, d) PROVE IsOpen(c)'
    <3>1. CASE c = d
      BY <1>h, <2>4, <3>1 DEF ReadEof, Goto
    <3>2. CASE c # d
      BY <1>1, <2>4, <3>2 DEF ReadEof, Clean, IsOpen
    <3> QED
      BY <3>1, <3>2
  <2>5. ASSUME NEW w \in Workers, TakeClose(w) PROVE IsOpen(c)'
    <3>1. CASE c = Head(close_queue[w])
      BY <1>h, <2>5, <3>1 DEF TakeClose, Goto
    <3>2. CASE c # Head(close_queue[w])
      BY <1>1, <2>5, <3>2 DEF TakeClose, Clean, IsOpen
    <3> QED
      BY <3>1, <3>2
  <2>6. ASSUME NEW w \in Workers, Drain(w) PROVE IsOpen(c)'
    <3>1. CASE c = Head(Waiting(w))
      BY <1>h, <2>6, <3>1 DEF Drain, Goto
    <3>2. CASE c # Head(Waiting(w))
      BY <1>1, <2>6, <3>2 DEF Drain, Clean, IsOpen
    <3> QED
      BY <3>1, <3>2
  <2>7. c \in watched' => IsOpen(c)'
    BY DEF IsOpen
  <2> QED
    BY <1>1, <2>1, <2>2, <2>3, <2>4, <2>5, <2>6, <2>7, WatchMoves
<1>2. ASSUME NEW u \in Workers, c \in Range(accept_queue[u]) PROVE IsOpen(c)'
  <2>0. c \in Range(accept_queue'[u]) => IsOpen(c)'
    BY DEF IsOpen
  <2>1. ASSUME QueueAccepted PROVE c \in Range(accept_queue'[u])
    <3>1. accept_queue' = Push(accept_queue, mthread, mconn) /\ mconn \in Conn
      BY <1>t, <2>1 DEF QueueAccepted, MainGoto, Places, WorkerPlace, Handling, TypeOK
    <3>2. CASE u = mthread
      <4>1. Range(accept_queue'[u]) = Range(accept_queue[u]) \cup {mconn}
        BY <1>y, <3>1, <3>2, PushRange
      <4> QED
        BY <1>2, <4>1
    <3>3. CASE u # mthread
      <4>1. accept_queue'[u] = accept_queue[u]
        BY <1>y, <3>1, <3>3 DEF Push
      <4> QED
        BY <1>2, <4>1
    <3> QED
      BY <3>2, <3>3
  <2>2. ASSUME NEW w \in Workers, accept_queue[w] # << >>, accept_queue' = Pop(accept_queue, w)
        PROVE  c \in Range(accept_queue'[u]) \/ (w = u /\ c = Head(accept_queue[w]))
    <3>1. CASE w = u
      <4>1. Range(accept_queue[u]) = Range(accept_queue'[u]) \cup {Head(accept_queue[w])}
        BY <1>y, <2>2, <3>1, PopRange
      <4> QED
        BY <1>2, <3>1, <4>1
    <3>2. CASE w # u
      <4>1. accept_queue'[u] = accept_queue[u]
        BY <1>y, <2>2, <3>2, PopRange
      <4> QED
        BY <1>2, <4>1
    <3> QED
      BY <3>1, <3>2
  <2>3. ASSUME NEW w \in Workers, Register(w) PROVE IsOpen(c)'
    BY <2>0, <2>2, <2>3 DEF Register, IsOpen
  <2>4. ASSUME NEW w \in Workers, Drain(w) PROVE IsOpen(c)'
    <3>1. CASE accept_queue[w] = << >>
      BY <1>2, <2>0, <2>4, <3>1 DEF Drain
    <3>2. CASE accept_queue[w] # << >>
      <4>1. accept_queue' = Pop(accept_queue, w) /\ Waiting(w) # << >>
        BY <2>4, <3>2 DEF Drain
      <4>2. Head(Waiting(w)) = Head(accept_queue[w])
        BY <1>y, <3>2, <4>1, DrainFacts
      <4> QED
        BY <1>h, <2>0, <2>2, <2>4, <3>2, <4>1, <4>2 DEF Drain, Goto
    <3> QED
      BY <3>1, <3>2
  <2>5. ASSUME NEW w \in Workers, TakeClose(w) \/ QueueClosing(w) PROVE IsOpen(c)'
    BY <1>2, <2>0, <2>5 DEF TakeClose, QueueClosing
  <2> QED
    BY <1>2, <2>0, <2>1, <2>3, <2>4, <2>5, QueueMoves DEF ScanTable
<1>3. ASSUME mpc = "push", c = mconn PROVE IsOpen(c)'
  <2>1. CASE QueueAccepted
    <3>1. mpc' = "notify" /\ mconn' = mconn
      BY <2>1 DEF QueueAccepted, MainGoto
    <3> QED
      BY <1>3, <3>1 DEF IsOpen
  <2>2. CASE ~QueueAccepted
    <3>1. mpc' = mpc /\ mconn' = mconn
      BY <1>3, <2>2, MainMoves DEF MainGoto, StartModule, CreateWorkers, Barrier, CheckRoom, Deny,
         Insert, Assign, AcceptHook, QueueAccepted, NotifyAccepted, RejectBegin, RejectEnd,
         EnableAccept, ScanTable, SendDash, Join, StopModule, Signal, Accept
    <3> QED
      BY <1>3, <3>1 DEF IsOpen
  <2> QED
    BY <2>1, <2>2
<1>4. ASSUME mpc = "notify", c = mconn PROVE \E u \in Workers : c \in Range(accept_queue[u])
  <2>1. /\ mthread \in Workers /\ accept_queue[mthread] \in Seq(Conn) /\ accept_queue[mthread] # << >>
        /\ accept_queue[mthread][Len(accept_queue[mthread])] = c
    BY <1>4, <1>t, ServerAssumption DEF Assigned, TypeOK, Workers
  <2> QED
    BY <2>1, LastInRange
<1>5. ASSUME NEW w \in Workers, wpc[w] = "hook", wconn[w] = c PROVE IsOpen(c)'
  <2>1. wpc'[w] = "hook" /\ wconn'[w] = c
    <3>1. ~CloseHook(w)
      BY <1>5
    <3>2. ~CreateWorkers
      BY <1>t, <1>5 DEF CreateWorkers, MainGoto, Places, WorkerPlace
    <3> QED
      BY <1>y, <1>5, <3>1, <3>2, PlaceMoves DEF Goto, Clean, HookPlace, CreateWorkers, ReadPipe,
         TakeClose, EndNotify, EnterLoop, Drain, LeaveLoop, Exit, CloseHook, BeginRemove,
         EndRemove, TellMain, UnrefConn, TestRefable, TestNotRefable, QueueClosing, NotifyClosing,
         CloseOther, ReadEof, IndexConn, CloseOwn
  <2> QED
    BY <2>1 DEF IsOpen
<1> QED
  BY <1>1, <1>2, <1>3, <1>4, <1>5 DEF IsOpen

\* A connection whose close hooks run is open no more.
LEMMA OpenGoes ==
  ASSUME Base, InUse, Use, [Next]_vars, NEW w \in Workers, CloseHook(w)
  PROVE  wconn[w] \in Conn /\ IsOpen(wconn[w]) /\ ~IsOpen(wconn[w])'
<1> DEFINE c == wconn[w]
<1>t. TypeOK /\ Places /\ Owned /\ Assigned
  BY DEF Base, Use
<1>1. /\ wpc[w] = "hook" /\ wpc' = [wpc EXCEPT ![w] = "remove"]
      /\ UNCHANGED <<watched, accept_queue, mpc, mconn, wconn>>
  BY DEF CloseHook, Goto, queueVars, mainVars
<1>2. c \in Conn /\ Serves(w, c) /\ IsOpen(c)
  BY <1>t, <1>1 DEF Places, WorkerPlace, Having, TypeOK, Serves, IsOpen
<1>3. c \notin watched /\ thread[c] = w /\ ~MainOwns(c) /\ \A u \in Workers : c \notin Range(accept_queue[u])
  BY <1>t, <1>2 DEF Owned
<1>4. ~(mpc = "notify" /\ c = mconn)
  <2> SUFFICES ASSUME mpc = "notify", c = mconn PROVE FALSE
    OBVIOUS
  <2>1. /\ mthread \in Workers /\ accept_queue[mthread] \in Seq(Conn) /\ accept_queue[mthread] # << >>
        /\ accept_queue[mthread][Len(accept_queue[mthread])] = c
    BY <1>t, ServerAssumption DEF Assigned, TypeOK, Workers
  <2> QED
    BY <1>3, <2>1, LastInRange
<1>5. ASSUME NEW u \in Workers, wpc'[u] = "hook", wconn'[u] = c PROVE FALSE
  <2>1. u # w /\ wpc[u] = "hook"
    BY <1>t, <1>1, <1>5 DEF TypeOK
  <2>2. Serves(u, c)
    BY <1>1, <1>5, <2>1 DEF Serves
  <2> QED
    BY <1>t, <1>2, <1>3, <2>1, <2>2 DEF Owned
<1>6. ~(mpc = "push" /\ c = mconn)
  BY <1>3 DEF MainOwns
<1> HIDE DEF c
<1>7. ~IsOpen(c)'
  <2>1. c' = c
    BY <1>1 DEF c
  <2> QED
    BY <1>1, <1>3, <1>4, <1>5, <1>6, <2>1 DEF IsOpen
<1> QED
  BY <1>2, <1>7 DEF c

\* Every step leaves a connection of the table open, on its way in or on its way out.
LEMMA PlacedStep == ASSUME Base, InUse, Use, Placed, [Next]_vars PROVE Placed'
<1>t. TypeOK /\ Places /\ Owned /\ Assigned
  BY DEF Base, Use
<1>y. /\ wpc \in [Workers -> WorkerPlaces] /\ wconn \in [Workers -> Conn \cup {NULL}]
      /\ live \subseteq Conn
  BY <1>t DEF TypeOK
<1> SUFFICES ASSUME NEW c \in live'
             PROVE  \/ IsOpen(c)' \/ MainOwns(c)' \/ \E w \in Workers : wpc'[w] = "remove" /\ wconn'[w] = c
  BY DEF Placed
<1>1. CASE c \notin live
  <2>1. Insert /\ c = mconn
    BY <1>1, TableMoves DEF Insert, RejectBegin, BeginRemove, RemoveBegin, Table!InsertConn,
       Table!RemoveConn
  <2> QED
    BY <2>1 DEF Insert, MainGoto, MainOwns
<1>2. CASE c \in live /\ IsOpen(c)
  <2>1. ASSUME NEW w \in Workers, CloseHook(w), wconn[w] = c
        PROVE  wpc'[w] = "remove" /\ wconn'[w] = c
    BY <1>y, <2>1 DEF CloseHook, Goto
  <2>2. (\A w \in Workers : ~(CloseHook(w) /\ wconn[w] = c)) => IsOpen(c)'
    BY <1>2, <1>y, OpenKeeps
  <2> QED
    BY <2>1, <2>2
<1>3. CASE c \in live /\ MainOwns(c)
  <2>1. ~RejectBegin
    BY <1>3 DEF RejectBegin, RemoveBegin, Table!RemoveConn, MainOwns
  <2>2. mpc' \in {"assign", "hook", "push", "reject", "notify"} /\ mconn' = mconn
    BY <1>3, <2>1, MainMoves DEF MainOwns, MainGoto, StartModule, CreateWorkers, Barrier,
       CheckRoom, Deny, Insert, Assign, AcceptHook, QueueAccepted, NotifyAccepted, RejectBegin,
       RejectEnd, EnableAccept, ScanTable, SendDash, Join, StopModule, Signal, Accept
  <2> QED
    BY <1>3, <2>2 DEF MainOwns, IsOpen
<1>4. ASSUME c \in live, NEW w \in Workers, wpc[w] = "remove", wconn[w] = c
      PROVE  wpc'[w] = "remove" /\ wconn'[w] = c
  <2>1. ~BeginRemove(w)
    BY <1>4 DEF BeginRemove, RemoveBegin, Table!RemoveConn
  <2>2. ~CreateWorkers
    BY <1>t, <1>4 DEF CreateWorkers, MainGoto, Places, WorkerPlace
  <2> QED
    BY <1>y, <1>4, <2>1, <2>2, PlaceMoves DEF Goto, Clean, HookPlace, CreateWorkers, ReadPipe,
       TakeClose, EndNotify, EnterLoop, Drain, LeaveLoop, Exit, CloseHook, BeginRemove, EndRemove,
       TellMain, UnrefConn, TestRefable, TestNotRefable, QueueClosing, NotifyClosing, CloseOther,
       ReadEof, IndexConn, CloseOwn
<1> QED
  BY <1>1, <1>2, <1>3, <1>4 DEF Placed


\* Steps that touch a row.
LEMMA RowMoves ==
  [Next]_vars =>
    \/ UNCHANGED <<row>>
    \/ StartModule \/ StopModule
    \/ \E w \in Workers : CloseHook(w)
    \/ \E result \in scene.accepts : AcceptHook(result)
<1> DEFINE Goal ==
    \/ UNCHANGED <<row>>
    \/ StartModule \/ StopModule
    \/ \E w \in Workers : CloseHook(w)
    \/ \E result \in scene.accepts : AcceptHook(result)
<1> SUFFICES ASSUME [Next]_vars PROVE Goal
  OBVIOUS
<1>1. ASSUME MainStep PROVE Goal
  BY <1>1 DEF MainStep, CreateWorkers, Barrier, CheckRoom, Deny, Insert, Assign, QueueAccepted,
     NotifyAccepted, RejectBegin, RejectEnd, EnableAccept, ScanTable, SendDash, Join, MainGoto,
     Goto, Free, RemoveBegin, RemoveEnd, lifeVars, tableVars, lockVars, connVars, queueVars,
     mainVars, workerVars
<1>2. ASSUME NEW w \in Workers, Serve(w) PROVE Goal
  BY <1>2 DEF Serve, ReadPipe, Register, TakeClose, Break, EndNotify, ReadEof, ThreadInit,
     EnterLoop, Drain, LeaveLoop, ThreadDestory, Exit, BeginRemove, EndRemove, TellMain, Goto,
     Free, RemoveBegin, RemoveEnd, Clean, lifeVars, tableVars, lockVars, connVars, queueVars,
     mainVars, workerVars
<1>3. ASSUME NEW w \in Workers, FinishHook(w) \/ UseApi(w) PROVE Goal
  BY <1>3 DEF FinishHook, UseApi, UnrefConn, TestRefable, TestNotRefable, QueueClosing,
     NotifyClosing, IndexConn, CloseOwn, CloseOther, Goto, lifeVars, tableVars, lockVars,
     connVars, queueVars, mainVars, workerVars
<1>4. ASSUME (\E c \in Conn : ClientClose(c) \/ Accept(c)) \/ Signal \/ UNCHANGED vars PROVE Goal
  BY <1>4 DEF vars, Signal, ClientClose, Accept, lifeVars, tableVars, lockVars, connVars,
     queueVars, mainVars, workerVars
<1> HIDE DEF Goal
<1> QED
  BY <1>1, <1>2, <1>3, <1>4 DEF Next, Ended


\* Connections of the table have their indices for themselves.
LEMMA Indexed ==
  ASSUME TableProof!IndInv, NEW c \in live
  PROVE  index[c] \in 0 .. MaxClients /\ \A d \in live : index[c] = index[d] => c = d
BY DEF TableProof!IndInv, TableProof!TypeOK, TableProof!TableExact, TableProof!Slots

\* A connection that stays in the table keeps its index.
LEMMA SameIndex ==
  ASSUME TypeOK, Allocated, [Next]_vars, NEW c \in live, c \in live'
  PROVE  index'[c] = index[c]
<1>2. ASSUME Insert PROVE index'[c] = index[c]
  <2>1. mconn # c /\ Table!InsertConn(mconn)
    BY <1>2 DEF Insert, MainGoto, Allocated
  <2>2. index \in [Conn -> Int] /\ c \in Conn
    BY DEF TypeOK
  <2> QED
    BY <2>1, <2>2 DEF Table!InsertConn, Table!PutAt
<1>3. RejectBegin => Table!RemoveConn(mconn)
  BY DEF RejectBegin, RemoveBegin
<1>4. ASSUME NEW w \in Workers, BeginRemove(w) PROVE Table!RemoveConn(wconn[w])
  BY <1>4 DEF BeginRemove, RemoveBegin
<1>5. ASSUME NEW d, Table!RemoveConn(d) PROVE index'[c] = index[c]
  <2>1. c # d /\ index' = [index EXCEPT ![d] = 0] /\ index \in [Conn -> Int] /\ c \in Conn
    BY <1>5 DEF Table!RemoveConn, TypeOK
  <2> QED
    BY <2>1
<1> QED
  BY <1>2, <1>3, <1>4, <1>5, TableMoves

\* The same after a step: indices are apart, and open connections are in the table.
LEMMA IndexedNext ==
  TableProof!IndInv' =>
    \A c \in live' : index'[c] \in 0 .. MaxClients /\ \A d \in live' : index'[c] = index'[d] => c = d
<1>1. TableProof!IndInv =>
        \A c \in live : index[c] \in 0 .. MaxClients /\ \A d \in live : index[c] = index[d] => c = d
  BY Indexed
<1>2. (TableProof!IndInv =>
         \A c \in live : index[c] \in 0 .. MaxClients /\ \A d \in live : index[c] = index[d] => c = d)'
  BY <1>1, PTL
<1> QED
  BY <1>2

\* The same in the next state.
LEMMA OpenLiveNext ==
  TypeOK' /\ Places' /\ Owned' /\ Assigned' => \A c \in Conn : IsOpen(c)' => c \in live'
<1>1. TypeOK /\ Places /\ Owned /\ Assigned => \A c \in Conn : IsOpen(c) => c \in live
  BY OpenLive
<1>2. (TypeOK /\ Places /\ Owned /\ Assigned => \A c \in Conn : IsOpen(c) => c \in live)'
  BY <1>1, PTL
<1> QED
  BY <1>2

\* Every step keeps the rows with their connections.
LEMMA RowsStep ==
  ASSUME Base, HasRows, Use, Use', Base', Lifecycle, Lifecycle', Placed, RowsKept, [Next]_vars
  PROVE  RowsKept'
<1>t. TypeOK /\ Places /\ Owned /\ Assigned /\ Allocated /\ InUse /\ TableProof!IndInv
  BY DEF Base, Use, HasRows
<1>u. TypeOK' /\ Places' /\ Owned' /\ Assigned' /\ TableProof!IndInv'
  BY DEF Base, Use
<1>y. /\ wpc \in [Workers -> WorkerPlaces] /\ wconn \in [Workers -> Conn \cup {NULL}]
      /\ row \in [0 .. MaxClients -> SUBSET (Conn \cup {"stale"})] /\ mconn \in Conn \cup {NULL}
      /\ live \subseteq Conn /\ NULL \notin Conn
  BY <1>t, ServerAssumption DEF TypeOK
<1>r. /\ started = Modules =>
           \A i \in 0 .. MaxClients : \A r \in row[i] : r \in live /\ index[r] = i
      /\ mpc \in {"assign", "hook", "reject"} => row[index[mconn]] = {}
      /\ \A w \in Workers : wpc[w] = "remove" => row[index[wconn[w]]] = {}
      /\ mpc \notin {"stop", "done"} => \A c \in Conn : IsOpen(c) => row[index[c]] = {c}
  BY DEF RowsKept
<1>s. /\ StartModule => mpc = "start" /\ (started' = Modules => \A i \in 0 .. MaxClients : row'[i] = {})
      /\ StopModule => mpc = "stop" /\ mpc' \in {"stop", "done"} /\ started' # Modules
                       /\ (row' = row \/ \A i \in 0 .. MaxClients : row'[i] = {})
  <2>1. StartModule => mpc = "start" /\ (started' = Modules => \A i \in 0 .. MaxClients : row'[i] = {})
    BY DEF StartModule, MainGoto, StartHook, ClearRows
  <2>2. StopModule => mpc = "stop" /\ mpc' \in {"stop", "done"}
                      /\ (row' = row \/ \A i \in 0 .. MaxClients : row'[i] = {})
    BY DEF StopModule, MainGoto, ClearRows
  <2>3. StopModule => started' # Modules
    <3>1. StopModule => mpc = "stop" /\ started' = SubSeq(started, 1, Len(started) - 1)
      BY DEF StopModule, MainGoto
    <3> QED
      BY <3>1, ModuleLists DEF Lifecycle, Prefixes
  <2> QED
    BY <2>1, <2>2, <2>3
\* An accept hook stores the row of its connection or fails.
<1>a. ASSUME NEW result \in scene.accepts, AcceptHook(result)
      PROVE  /\ mpc = "hook" /\ mconn \in live /\ mconn \in Conn /\ MainOwns(mconn)
             /\ UNCHANGED <<live, index, mconn, wpc, wconn>>
             /\ row[index[mconn]] = {}
             /\ \/ mpc' = "push" /\ row' = [row EXCEPT ![index[mconn]] = {mconn}]
                \/ mpc' = "reject" /\ row' = row
  <2>1. mpc = "hook" /\ UNCHANGED <<live, index, mconn, wpc, wconn>>
    BY <1>a DEF AcceptHook, MainGoto, tableVars, workerVars
  <2>2. MainOwns(mconn) /\ mconn \in Conn
    BY <2>1, <1>t DEF MainOwns, Places, WorkerPlace, Handling, TypeOK
  <2>3. mconn \in live /\ row[index[mconn]] = {}
    BY <1>r, <1>t, <2>1, <2>2 DEF Owned
  <2>4. result \in {"ok", "fail"}
    BY <1>a, ServerAssumption DEF HasRows, TypeOK, Base
  <2> QED
    BY <1>a, <2>1, <2>2, <2>3, <2>4 DEF AcceptHook, MainGoto
\* A close hook deletes the row of its connection.
<1>c. ASSUME NEW w \in Workers, CloseHook(w)
      PROVE  /\ wpc[w] = "hook" /\ wconn[w] \in live /\ wconn[w] \in Conn /\ Serves(w, wconn[w])
             /\ UNCHANGED <<live, index, mpc, mconn, wconn>>
             /\ wpc' = [wpc EXCEPT ![w] = "remove"]
             /\ row' = [row EXCEPT ![index[wconn[w]]] = {}]
  <2>1. /\ wpc[w] = "hook" /\ wpc' = [wpc EXCEPT ![w] = "remove"] /\ UNCHANGED <<live, index, mpc, mconn, wconn>>
        /\ row' = [row EXCEPT ![index[wconn[w]]] = {}]
    BY <1>c DEF CloseHook, Goto, tableVars, mainVars
  <2>2. wconn[w] \in Conn /\ Serves(w, wconn[w])
    BY <1>t, <2>1 DEF Places, WorkerPlace, Having, TypeOK, Serves
  <2> QED
    BY <1>t, <2>1, <2>2 DEF Owned
<1>g. ASSUME NEW w \in Workers, CloseHook(w), NEW d \in Conn, d = wconn[w] PROVE ~IsOpen(d)'
  <2>1. ~IsOpen(wconn[w])' /\ wconn' = wconn
    BY <1>c, <1>g, <1>t, OpenGoes
  <2> QED
    BY <1>g, <2>1 DEF IsOpen
<1>q. ASSUME \A result \in scene.accepts : ~AcceptHook(result), \A w \in Workers : ~CloseHook(w),
   ~StartModule, ~StopModule
      PROVE  row' = row
  BY <1>q, RowMoves
\* Where there is no row there comes none but by the accept hook.
<1>n. ASSUME NEW i \in 0 .. MaxClients, row[i] = {}, ~StartModule, \A result \in scene.accepts :
   ~AcceptHook(result)
      PROVE  row'[i] = {}
  BY <1>n, <1>q, <1>c, <1>s, <1>y
<1>1. ASSUME started' = Modules, NEW i \in 0 .. MaxClients, NEW r \in row'[i]
      PROVE  r \in live' /\ index'[r] = i
  <2>1. ~StartModule /\ ~StopModule
    BY <1>1, <1>s
  <2>2. started = Modules
    BY <1>1, <2>1, LifeMoves DEF ThreadInit, ThreadDestory
  <2>3. ASSUME row'[i] = row[i] PROVE r \in live' /\ index'[r] = i
    <3>1. r \in live /\ index[r] = i /\ row[i] # {}
      BY <1>1, <1>r, <2>2, <2>3
    <3>2. ASSUME RejectBegin PROVE r # mconn /\ live' = live \ {mconn}
      BY <1>r, <3>1, <3>2 DEF RejectBegin, MainGoto, RemoveBegin, Table!RemoveConn
    <3>3. ASSUME NEW w \in Workers, BeginRemove(w) PROVE r # wconn[w] /\ live' = live \ {wconn[w]}
      BY <1>r, <3>1, <3>3 DEF BeginRemove, Goto, RemoveBegin, Table!RemoveConn
    <3>4. r \in live'
      BY <3>1, <3>2, <3>3, TableMoves DEF Insert, Table!InsertConn
    <3> QED
      BY <1>t, <2>3, <3>1, <3>4, SameIndex
  <2>4. ASSUME NEW result \in scene.accepts, AcceptHook(result) PROVE r \in live' /\ index'[r] = i
    <3>1. CASE row' = row
      BY <2>3, <3>1
    <3>2. CASE row' = [row EXCEPT ![index[mconn]] = {mconn}]
      BY <1>a, <1>y, <2>3, <2>4, <3>2
    <3> QED
      BY <1>a, <2>4, <3>1, <3>2
  <2>5. ASSUME NEW w \in Workers, CloseHook(w) PROVE row'[i] = row[i]
    BY <1>1, <1>c, <1>y, <2>5
  <2> QED
    BY <1>q, <2>1, <2>3, <2>4, <2>5
<1>2. ASSUME mpc' \in {"assign", "hook", "reject"} PROVE row'[index'[mconn']] = {}
  <2>1. CASE Insert
    <3>1. /\ mpc = "insert" /\ row' = row /\ mconn' = mconn /\ mconn \in Conn /\ mconn \notin live
          /\ live' = live \cup {mconn}
      BY <1>t, <2>1 DEF Insert, MainGoto, Places, WorkerPlace, Handling, TypeOK, Allocated, Table!InsertConn
    <3>2. started = Modules
      BY <3>1 DEF Lifecycle
    <3> DEFINE i == index'[mconn]
    <3>3. i \in 0 .. MaxClients /\ \A d \in live' : i = index'[d] => mconn = d
      BY <1>u, <3>1, IndexedNext
    <3>4. ASSUME NEW r \in row[i] PROVE FALSE
      <4>1. r \in live /\ index[r] = i
        BY <1>r, <3>2, <3>3, <3>4
      <4>2. r \in live' /\ r # mconn
        BY <3>1, <4>1
      <4>3. index'[r] = i
        BY <1>t, <4>1, <4>2, SameIndex
      <4> QED
        BY <3>3, <4>2, <4>3
    <3> QED
      BY <3>1, <3>4
  <2>2. CASE ~Insert
    <3>1. mpc \in {"assign", "hook", "reject"} /\ mconn' = mconn /\ mpc # "start" /\ ~RejectBegin
      BY <1>2, <2>2, MainMoves DEF MainGoto, StartModule, CreateWorkers, Barrier, CheckRoom, Deny,
         Insert, Assign, AcceptHook, QueueAccepted, NotifyAccepted, RejectBegin, RejectEnd,
         EnableAccept, ScanTable, SendDash, Join, StopModule, Signal, Accept
    <3>2. MainOwns(mconn) /\ mconn \in Conn /\ row[index[mconn]] = {}
      BY <1>r, <1>t, <3>1 DEF MainOwns, Places, WorkerPlace, Handling, TypeOK
    <3>3. mconn \in live /\ mconn \in live'
      <4>1. mconn \in live
        BY <1>t, <3>2 DEF Owned
      <4>2. MainOwns(mconn)'
        BY <1>2, <3>1 DEF MainOwns
      <4> QED
        BY <1>u, <3>1, <3>2, <4>1, <4>2 DEF Owned
    <3>4. index'[mconn] = index[mconn] /\ index[mconn] \in 0 .. MaxClients
      BY <1>t, <3>3, SameIndex, Indexed
    <3>5. ~StartModule
      BY <1>s, <3>1
    <3>6. ASSUME NEW result \in scene.accepts, AcceptHook(result) PROVE row' = row
      BY <1>2, <1>a, <3>6
    <3>7. row'[index[mconn]] = {}
      BY <1>n, <3>2, <3>4, <3>5, <3>6
    <3> QED
      BY <3>1, <3>4, <3>7
  <2> QED
    BY <2>1, <2>2
<1>3. ASSUME NEW w \in Workers, wpc'[w] = "remove" PROVE row'[index'[wconn'[w]]] = {}
  <2>0. wconn'[w] \in Conn /\ wconn'[w] \in live'
    <3>1. Serves(w, wconn[w])' /\ wconn'[w] \in Conn
      BY <1>3, <1>u DEF Serves, Places, WorkerPlace, Having, TypeOK
    <3> QED
      BY <1>u, <3>1 DEF Owned
  <2>1. CASE CloseHook(w)
    <3>1. index' = index /\ wconn' = wconn /\ index[wconn[w]] \in 0 .. MaxClients
      BY <1>c, <1>t, <2>1, Indexed
    <3>2. row' = [row EXCEPT ![index[wconn[w]]] = {}]
      BY <1>c, <2>1
    <3>3. row'[index[wconn[w]]] = {}
      BY <1>y, <3>1, <3>2
    <3> QED
      BY <3>1, <3>3
  <2>2. CASE ~CloseHook(w)
    <3>1. wpc[w] = "remove" /\ wconn'[w] = wconn[w]
      <4>1. wpc[w] \in {"hook", "remove", "free"} /\ wconn'[w] = wconn[w]
        <5>1. ~TakeClose(w) /\ ~Drain(w) /\ \A d \in Conn : ~ReadEof(w, d)
          BY <1>3, <1>y DEF TakeClose, Drain, ReadEof, Goto
        <5> QED
          BY <1>3, <1>t, <5>1, ClosingMoves
      <4>2. wpc[w] \notin {"hook", "free"}
        BY <1>3, <1>y, <2>2, PlaceMoves DEF Goto, Clean, HookPlace, CreateWorkers, ReadPipe,
           TakeClose, EndNotify, EnterLoop, Drain, LeaveLoop, Exit, CloseHook, BeginRemove,
           EndRemove, TellMain, UnrefConn, TestRefable, TestNotRefable, QueueClosing,
           NotifyClosing, CloseOther, ReadEof, IndexConn, CloseOwn
      <4> QED
        BY <4>1, <4>2
    <3> DEFINE c == wconn[w]
    <3>2. c \in Conn /\ c \in live /\ Serves(w, c) /\ row[index[c]] = {}
      <4>1. c \in Conn /\ Serves(w, c)
        BY <1>t, <3>1 DEF Places, WorkerPlace, Having, TypeOK, Serves
      <4> QED
        BY <1>r, <1>t, <3>1, <4>1 DEF Owned
    <3>3. index'[c] = index[c] /\ index[c] \in 0 .. MaxClients
      BY <1>t, <2>0, <3>1, <3>2, SameIndex, Indexed
    <3>4. ~StartModule
      BY <1>s, <3>2 DEF Lifecycle, Starting
    <3>5. ASSUME NEW result \in scene.accepts, AcceptHook(result) PROVE row'[index[c]] = {}
      <4>1. c # mconn /\ mconn \in live
        BY <1>a, <1>t, <3>2, <3>5 DEF Owned
      <4>2. index[c] # index[mconn]
        BY <1>t, <3>2, <4>1, Indexed
      <4> QED
        BY <1>a, <1>y, <3>2, <3>3, <3>5, <4>2
    <3>6. row'[index[c]] = {}
      BY <1>n, <3>2, <3>3, <3>4, <3>5
    <3> QED
      BY <3>1, <3>3, <3>6
  <2> QED
    BY <2>1, <2>2
<1>4. ASSUME mpc' \notin {"stop", "done"}, NEW c \in Conn, IsOpen(c)' PROVE row'[index'[c]] = {c}
  <2>1. ASSUME mpc = "hook", mpc' = "push", c = mconn PROVE row'[index'[c]] = {c}
    <3>1. PICK result \in scene.accepts : AcceptHook(result)
      BY <2>1, MainMoves DEF MainGoto, StartModule, CreateWorkers, Barrier, CheckRoom, Deny,
         Insert, Assign, AcceptHook, QueueAccepted, NotifyAccepted, RejectBegin, RejectEnd,
         EnableAccept, ScanTable, SendDash, Join, StopModule, Signal, Accept
    <3>2. row' = [row EXCEPT ![index[mconn]] = {mconn}] /\ index' = index /\ index[mconn] \in 0 .. MaxClients
      BY <1>a, <1>t, <2>1, <3>1, Indexed
    <3> QED
      BY <1>y, <2>1, <3>2
  <2>2. ASSUME IsOpen(c) PROVE row'[index'[c]] = {c}
    <3>1. c \in live /\ c \in live'
      BY <1>4, <1>t, <1>u, <2>2, OpenLive, OpenLiveNext
    <3>2. index'[c] = index[c] /\ index[c] \in 0 .. MaxClients
      BY <1>t, <3>1, SameIndex, Indexed
    <3>3. mpc \notin {"stop", "done"} /\ ~StartModule
      BY <1>4, <1>s, <3>1, MainMoves DEF Lifecycle, Starting, MainGoto, StartModule,
         CreateWorkers, Barrier, CheckRoom, Deny, Insert, Assign, AcceptHook, QueueAccepted,
         NotifyAccepted, RejectBegin, RejectEnd, EnableAccept, ScanTable, SendDash, Join,
         StopModule, Signal, Accept
    <3>4. row[index[c]] = {c}
      BY <1>r, <2>2, <3>3
    <3>5. ~StopModule
      BY <1>s, <3>3
    <3>6. ASSUME NEW result \in scene.accepts, AcceptHook(result) PROVE row'[index[c]] = {c}
      <4>1. index[c] # index[mconn]
        BY <1>a, <1>y, <3>4, <3>6
      <4> QED
        BY <1>a, <1>y, <3>2, <3>4, <3>6, <4>1
    <3>7. ASSUME NEW w \in Workers, CloseHook(w) PROVE row'[index[c]] = {c}
      <4>1. c # wconn[w]
        BY <1>4, <1>g, <3>7
      <4>2. index[c] # index[wconn[w]]
        BY <1>c, <1>t, <3>1, <3>7, <4>1, Indexed
      <4> QED
        BY <1>c, <1>y, <3>2, <3>4, <3>7, <4>2
    <3> QED
      BY <1>q, <3>2, <3>3, <3>4, <3>5, <3>6, <3>7
  <2> QED
    BY <1>4, <1>t, <2>1, <2>2, OpenComes
<1> QED
  BY <1>1, <1>2, <1>3, <1>4 DEF RowsKept

\* The invariant with the modules, the places of the connections and their rows.
Kept == Inv /\ Lifecycle /\ (InUse => Placed) /\ (HasRows => RowsKept)

\* The rows and the places of the main thread agree at the start,
LEMMA InitKept == Init => Kept
<1> SUFFICES ASSUME Init PROVE Kept
  OBVIOUS
<1>1. Inv /\ Lifecycle
  BY InitBase, InitUse, InitLifecycle DEF Inv
<1>2. Placed
  BY DEF Init, Table!Init, Placed
<1>3. \A c : ~IsOpen(c)
  BY DEF Init, IsOpen, Range
<1>4. RowsKept
  <2>1. << >> # Modules
    BY ModuleLists
  <2> QED
    BY <1>3, <2>1 DEF Init, RowsKept
<1> QED
  BY <1>1, <1>2, <1>4 DEF Kept

\* and every step keeps them so.
LEMMA KeptStep == Kept /\ [Next]_vars => Kept'
<1> SUFFICES ASSUME Kept, [Next]_vars PROVE Kept'
  OBVIOUS
<1>1. Inv' /\ Base /\ Base' /\ (InUse' <=> InUse) /\ (HasRows' <=> HasRows)
  BY InvStep, SceneStays DEF Kept, Inv, HasRows, InUse, LooksUp, ClosesOwn
<1>2. Lifecycle'
  BY <1>1, LifecycleStep DEF Kept, Base
<1>3. InUse => Use /\ Use'
  BY <1>1 DEF Kept, Inv
<1>4. InUse => Placed'
  BY <1>1, <1>3, PlacedStep DEF Kept
<1>5. HasRows => RowsKept'
  BY <1>1, <1>2, <1>3, RowsStep DEF Kept, HasRows
<1> QED
  BY <1>1, <1>2, <1>4, <1>5 DEF Kept

\* The invariant with the rows and the places of the main thread.
THEOREM KeptInvariant == Spec => []Kept
BY InitKept, KeptStep, PTL DEF Spec

\* Where every statement of an accept hook that stores its row is also closed, and
\* until the modules are stopped, each open connection has the only row with its number, and no row
\* outlives its connection into the next use of the index.
THEOREM RowsFollow == Spec => [](HasRows /\ mpc \notin {"stop", "done"} => RowsFollowConnections)
<1>1. ASSUME Kept, HasRows, mpc \notin {"stop", "done"} PROVE RowsFollowConnections
  <2>1. TypeOK /\ Places /\ Owned /\ Assigned /\ RowsKept
    BY <1>1 DEF Kept, Inv, Base, Use, HasRows
  <2>2. ASSUME NEW c \in (watched \cup Accepted) PROVE row[index[c]] = {c}
    <3>1. IsOpen(c)
      BY <2>2, OpenMeans DEF Open
    <3> QED
      BY <1>1, <2>1, <3>1, OpenLive DEF RowsKept
  <2> QED
    BY <2>1, <2>2 DEF RowsFollowConnections, RowsKept
<1> QED
  BY <1>1, KeptInvariant, PTL

-----------------------------------------------------------------------------
(***************************************************************************)
(* The server keeps what it promises to its modules.                       *)
(***************************************************************************)
\* Each connection with the worker that will run its close hooks; the workers that
\* have left their loops.
OpenMap == [c \in Conn |-> IF c \in Open THEN thread[c] ELSE NULL]
Gone == {w \in Workers : phase[w] \in {"drain", "exited"}}

\* An open connection keeps its worker.
LEMMA SameWorker ==
  ASSUME Base, InUse, Use, [Next]_vars, NEW c \in Conn, IsOpen(c)
  PROVE  thread'[c] = thread[c]
<1>t. TypeOK /\ Places /\ Owned /\ Assigned /\ Allocated /\ thread \in [Conn -> Workers \cup {NULL}]
  BY DEF Base, Use, TypeOK
<1>1. c \in live /\ c \in alloc
  BY <1>t, OpenLive DEF Allocated
<1>2. ASSUME Assign PROVE c # mconn
  <2>1. mpc = "assign" /\ (c = mconn => MainOwns(c))
    BY <1>2 DEF Assign, MainGoto, MainOwns
  <2>2. MainOwns(c) => FALSE
    BY <1>t, <2>1 DEF Owned, IsOpen, Serves
  <2> QED
    BY <2>1, <2>2
<1>3. ASSUME NEW d \in Conn, Accept(d) PROVE thread'[c] = thread[c]
  BY <1>t, <1>1, <1>3 DEF Accept
<1>4. Assign => thread'[c] = thread[c]
  BY <1>2, <1>t DEF Assign
<1> QED
  BY <1>3, <1>4, AssignMoves DEF Insert, RejectBegin, BeginRemove, connVars

\* The same in the next state.
LEMMA OpenMeansNext == \A c : c \in Open' <=> IsOpen(c)'
<1>1. \A c : c \in Open <=> IsOpen(c)
  BY OpenMeans
<1>2. (\A c : c \in Open <=> IsOpen(c))'
  BY <1>1, PTL
<1> QED
  BY <1>2

\* Only the hooks of connections change what is open.
LEMMA OpenStays ==
  ASSUME Base, InUse, Use, Placed, [Next]_vars,
         \A w \in Workers : ~CloseHook(w), ~(mpc = "hook" /\ mpc' = "push")
  PROVE  OpenMap' = OpenMap
<1> SUFFICES ASSUME NEW c \in Conn PROVE (IF c \in Open' THEN thread'[c] ELSE NULL) = (IF c \in Open THEN thread[c] ELSE NULL)
  BY DEF OpenMap
<1>1. c \in Open <=> IsOpen(c)
  BY OpenMeans
<1>2. c \in Open' <=> IsOpen(c)'
  BY OpenMeansNext
<1>3. IsOpen(c)' <=> IsOpen(c)
  BY OpenKeeps, OpenComes
<1>4. IsOpen(c) => thread'[c] = thread[c]
  BY SameWorker
<1> QED
  BY <1>1, <1>2, <1>3, <1>4

\* The lists of modules as ModuleLife has them.
LEMMA ModulePrefixes ==
  /\ Modules[1] = "my" /\ Modules[2] = "demo" /\ Len(Modules) = 2 /\ 1 \in 1 .. Len(Modules) /\ 2 \in 1 .. Len(Modules)
  /\ \A s \in Prefixes : Life!Begins(s)
  /\ \A s \in Prefixes \ {Modules} :
       \E i \in 1 .. Len(Modules) : Onward(s) = Append(s, Modules[i]) /\ Life!Begins(Onward(s))
  /\ \A s \in Prefixes \ {<< >>} : SubSeq(s, 1, Len(s) - 1) \in Prefixes
<1>1. Modules[1] = "my" /\ Modules[2] = "demo" /\ Len(Modules) = 2
  BY DEF Modules
<1>2. Len(<< >>) = 0 /\ Len(<<"my">>) = 1 /\ Len(<< >>) + 1 = 1 /\ Len(<<"my">>) + 1 = 2
  OBVIOUS
<1>3. SubSeq(Modules, 1, 1) = <<"my">> /\ SubSeq(Modules, 1, 2) = Modules
  BY <1>2, ModuleLists DEF Onward
<1>4. SubSeq(Modules, 1, 0) = << >>
  BY SubSeqEmpty
<1>5. Life!Begins(<< >>) /\ Life!Begins(<<"my">>) /\ Life!Begins(Modules)
  BY <1>1, <1>2, <1>3, <1>4 DEF Life!Begins
<1>6. Onward(<< >>) = Append(<< >>, Modules[1]) /\ Onward(<<"my">>) = Append(<<"my">>, Modules[2])
  BY <1>1, ModuleLists
<1>7. 1 \in 1 .. Len(Modules) /\ 2 \in 1 .. Len(Modules)
  BY <1>1
<1>8. \A s \in Prefixes \ {Modules} :
        \E i \in 1 .. Len(Modules) : Onward(s) = Append(s, Modules[i]) /\ Life!Begins(Onward(s))
  <2> SUFFICES ASSUME NEW s, s = << >> \/ s = <<"my">>
               PROVE  \E i \in 1 .. Len(Modules) : Onward(s) = Append(s, Modules[i]) /\ Life!Begins(Onward(s))
    BY DEF Prefixes
  <2>1. Life!Begins(Onward(s))
    BY <1>5, ModuleLists
  <2> QED
    BY <1>6, <1>7, <2>1
<1>9. \A s \in Prefixes \ {<< >>} : SubSeq(s, 1, Len(s) - 1) \in Prefixes
  BY ModuleLists DEF Prefixes
<1> QED
  BY <1>1, <1>5, <1>7, <1>8, <1>9 DEF Prefixes

\* What ModuleLife calls its variables.
LEMMA LifeVars ==
  /\ Life!vars = <<started, inited, OpenMap, mpc \in Ending, Gone>>
BY DEF Life!vars, OpenMap, Gone, Ending

\* No worker leaves its loop but at the end of its round.
LEMMA GoneMoves ==
  ASSUME TypeOK, Places, [Next]_vars
  PROVE  \/ Gone' = Gone
         \/ \E w \in Workers : EndNotify(w) /\ phase[w] = "break" /\ Gone' = Gone \cup {w}
<1>y. phase \in [Workers -> {"none", "init", "run", "break", "drain", "exited"}] /\ wpc \in [Workers -> WorkerPlaces]
  BY DEF TypeOK
<1>1. ASSUME CreateWorkers PROVE Gone' = Gone
  BY <1>1 DEF CreateWorkers, MainGoto, Places, WorkerPlace, Gone
<1>2. ASSUME NEW w \in Workers, EnterLoop(w) PROVE Gone' = Gone
  BY <1>y, <1>2 DEF EnterLoop, Goto, Places, WorkerPlace, Gone
<1>3. ASSUME NEW w \in Workers, Break(w) PROVE Gone' = Gone
  BY <1>y, <1>3 DEF Break, NextByte, Places, WorkerPlace, Gone
<1>4. ASSUME NEW w \in Workers, Exit(w) PROVE Gone' = Gone
  BY <1>y, <1>4 DEF Exit, Goto, Places, WorkerPlace, Gone
<1>5. ASSUME NEW w \in Workers, EndNotify(w), phase[w] = "break" PROVE Gone' = Gone \cup {w}
  BY <1>y, <1>5 DEF EndNotify, Gone
<1>6. ASSUME NEW w \in Workers, EndNotify(w), phase[w] # "break" PROVE Gone' = Gone
  BY <1>y, <1>6 DEF EndNotify, Gone
<1> QED
  BY <1>1, <1>2, <1>3, <1>4, <1>5, <1>6, PhaseMoves DEF Gone

\* The server only takes steps that its modules may rely on.
LEMMA LifeStep == Kept /\ InUse /\ [Next]_vars => [Life!Next]_(Life!vars)
<1> SUFFICES ASSUME Kept, InUse, [Next]_vars PROVE [Life!Next]_(Life!vars)
  OBVIOUS
<1>k. Base /\ Use /\ Lifecycle /\ Placed
  BY DEF Kept, Inv
<1>t. TypeOK /\ Places /\ ToldInTime /\ Owned /\ Assigned /\ Joined
  BY <1>k DEF Base, Use
<1>y. /\ phase \in [Workers -> {"none", "init", "run", "break", "drain", "exited"}]
      /\ wpc \in [Workers -> WorkerPlaces] /\ mpc \in Starting \cup {"loop"} \cup Handling \cup Ending
      /\ thread \in [Conn -> Workers \cup {NULL}] /\ NULL \notin Conn \cup Workers
      /\ started \in Prefixes /\ inited \in [Workers -> Prefixes]
  BY <1>k, <1>t, ServerAssumption DEF TypeOK, Lifecycle, Workers
<1>l. /\ mpc = "start" => started # Modules
      /\ mpc \notin {"start", "stop", "done"} => started = Modules
      /\ mpc = "stop" => started # << >>
      /\ \A w \in Workers :
           /\ wpc[w] \in {"none", "exited"} => inited[w] = << >>
           /\ wpc[w] \notin {"none", "init", "destory", "exited"} => inited[w] = Modules
  BY <1>k DEF Lifecycle
<1>StartModule. ASSUME StartModule PROVE Life!Next
  <2>1. /\ mpc = "start" /\ mpc' \in {"start", "create"} /\ started' = Onward(started)
        /\ UNCHANGED <<inited, phase, wpc>>
    BY <1>StartModule DEF StartModule, MainGoto, workerVars
  <2>2. mpc \notin Ending /\ mpc' \notin Ending
    BY <2>1 DEF Ending
  <2>3. inited = [w \in Workers |-> << >>]
    BY <1>y, <1>l, <1>t, <2>1 DEF Places, WorkerPlace
  <2>4. PICK i \in 1 .. Len(Modules) : started' = Append(started, Modules[i]) /\ Life!Begins(started')
    BY <1>y, <1>l, <2>1, ModulePrefixes
  <2>5. OpenMap' = OpenMap /\ Gone' = Gone
    <3>1. \A w \in Workers : ~CloseHook(w)
      BY <1>t, <2>1 DEF CloseHook, Goto, Places, WorkerPlace
    <3> QED
      BY <1>k, <2>1, <3>1, OpenStays DEF Gone
  <2>6. Life!Start(Modules[i])
    BY <2>1, <2>2, <2>3, <2>4, <2>5 DEF Life!Start, OpenMap, Gone, Ending
  <2> QED
    BY <2>6 DEF Life!Next
<1>ThreadInit. ASSUME NEW w \in Workers, ThreadInit(w) PROVE Life!Next
  <2>1. /\ wpc[w] = "init" /\ inited[w] # Modules /\ inited' = [inited EXCEPT ![w] = Onward(inited[w])]
        /\ UNCHANGED <<started, mpc, phase, wpc>>
    BY <1>ThreadInit DEF ThreadInit, mainVars, workerVars
  <2>2. phase[w] = "init" /\ mpc = "barrier"
    BY <1>t, <2>1 DEF Places, WorkerPlace, Starting
  <2>3. PICK i \in 1 .. Len(Modules) : Onward(inited[w]) = Append(inited[w], Modules[i]) /\ Life!Begins(Onward(inited[w]))
    BY <1>y, <2>1, ModulePrefixes
  <2>4. OpenMap' = OpenMap /\ Gone' = Gone
    <3>1. \A v \in Workers : ~CloseHook(v)
      BY <2>1, <1>y DEF CloseHook, Goto
    <3> QED
      BY <1>k, <2>1, <2>2, <3>1, OpenStays DEF Gone
  <2>5. started = Modules /\ w \notin Gone
    BY <1>l, <2>2 DEF Gone
  <2>6. Life!ThreadInit(w, Modules[i])
    BY <1>y, <2>1, <2>3, <2>4, <2>5 DEF Life!ThreadInit, OpenMap, Gone
  <2> QED
    BY <2>6 DEF Life!Next
<1>AcceptHook. ASSUME NEW result \in scene.accepts, AcceptHook(result), mpc' = "push" PROVE
   Life!Next
  <2>1. mpc = "hook" /\ mconn' = mconn /\ UNCHANGED <<started, inited, phase, wpc, wconn, thread, watched, accept_queue>>
    BY <1>AcceptHook DEF AcceptHook, MainGoto, lifeVars, workerVars, queueVars
  <2>2. mconn \in Conn /\ MainOwns(mconn)
    BY <1>t, <2>1 DEF MainOwns, Places, WorkerPlace, Handling, TypeOK
  <2>c. PICK c \in Conn : c = mconn
    BY <2>2
  <2>3. c \in live /\ c \notin watched /\ thread[c] \in Workers
        /\ \A u \in Workers : ~Serves(u, c) /\ c \notin Range(accept_queue[u])
    BY <1>t, <1>y, <2>1, <2>2, <2>c DEF Owned, Assigned
  <2>w. PICK w \in Workers : w = thread[c]
    BY <2>3
  <2>4. \A v \in Workers : phase[v] = "run" /\ inited[v] = Modules
    <3>1. mpc \notin Ending \ {"scan"} /\ mpc \notin Starting
      BY <2>1 DEF Ending, Starting
    <3>2. \A v \in Workers : phase[v] = "run"
      BY <1>t, <3>1 DEF ToldInTime, Places, WorkerPlace
    <3> QED
      BY <1>l, <1>t, <3>2 DEF Places, WorkerPlace
  <2>5. ~IsOpen(c) /\ IsOpen(c)'
    <3>1. ~IsOpen(c)
      BY <2>1, <2>3 DEF IsOpen, Serves
    <3> QED
      BY <1>AcceptHook, <2>1, <2>c, <3>1 DEF IsOpen
  <2>6. \A d \in Conn : d # c => (IsOpen(d)' <=> IsOpen(d))
    BY <1>AcceptHook, <2>1, <2>c DEF IsOpen
  <2>7. OpenMap[c] = NULL /\ OpenMap' = [OpenMap EXCEPT ![c] = w]
    <3>1. c \notin Open /\ c \in Open' /\ \A d \in Conn : d # c => (d \in Open' <=> d \in Open)
      BY <2>5, <2>6, OpenMeans, OpenMeansNext
    <3> QED
      BY <2>1, <2>w, <3>1 DEF OpenMap
  <2>8. mpc \notin Ending /\ mpc' \notin Ending /\ Gone' = Gone
    BY <1>AcceptHook, <2>1 DEF Ending, Gone
  <2>9. Life!Accept(c, w)
    BY <2>1, <2>4, <2>7, <2>8 DEF Life!Accept, OpenMap, Gone, Ending
  <2> QED
    BY <2>9 DEF Life!Next
<1>CloseHook. ASSUME NEW w \in Workers, CloseHook(w) PROVE Life!Next
  <2>1. /\ wpc[w] = "hook" /\ wpc' = [wpc EXCEPT ![w] = "remove"]
        /\ UNCHANGED <<started, inited, phase, mpc, wconn, thread>>
    BY <1>CloseHook DEF CloseHook, Goto, lifeVars, mainVars
  <2>0. wconn[w] \in Conn /\ IsOpen(wconn[w]) /\ ~IsOpen(wconn[w])'
    BY <1>k, <1>CloseHook, OpenGoes
  <2>c. PICK c \in Conn : c = wconn[w]
    BY <2>0
  <2>2. IsOpen(c) /\ ~IsOpen(c)'
    BY <2>0, <2>1, <2>c DEF IsOpen
  <2>3. thread[c] = w /\ inited[w] = Modules
    <3>1. Serves(w, c)
      BY <2>1, <2>c DEF Serves
    <3> QED
      BY <1>t, <1>l, <2>1, <3>1 DEF Owned
  <2>4. ASSUME NEW d \in Conn, d # c PROVE IsOpen(d)' <=> IsOpen(d)
    <3>1. \A u \in Workers : ~(CloseHook(u) /\ wconn[u] = d)
      BY <1>CloseHook, <1>y, <2>1, <2>4, <2>c DEF CloseHook, Goto
    <3>2. mpc' = mpc
      BY <2>1
    <3> QED
      BY <1>k, <2>4, <3>1, <3>2, OpenKeeps, OpenComes
  <2>5. OpenMap[c] = w /\ OpenMap' = [OpenMap EXCEPT ![c] = NULL]
    <3>1. c \in Open /\ c \notin Open' /\ \A d \in Conn : d # c => (d \in Open' <=> d \in Open)
      BY <2>2, <2>4, OpenMeans, OpenMeansNext
    <3> QED
      BY <2>1, <2>3, <3>1 DEF OpenMap
  <2>6. w # NULL /\ Gone' = Gone
    BY <1>y, <2>1 DEF Gone
  <2>7. Life!Close(c)
    BY <2>1, <2>3, <2>5, <2>6 DEF Life!Close, OpenMap, Gone, Ending
  <2> QED
    BY <2>7 DEF Life!Next

<1>Signal. ASSUME Signal PROVE Life!Next
  <2>1. mpc = "loop" /\ mpc' = "scan" /\ UNCHANGED <<started, inited, phase, wpc>>
    BY <1>Signal DEF Signal, MainGoto, lifeVars, workerVars
  <2>2. OpenMap' = OpenMap /\ Gone' = Gone
    <3>1. \A v \in Workers : ~CloseHook(v)
      BY <2>1, <1>y DEF CloseHook, Goto
    <3> QED
      BY <1>k, <2>1, <3>1, OpenStays DEF Gone
  <2> QED
    BY <2>1, <2>2 DEF Life!Next, Life!StopAccepting, OpenMap, Gone
<1>EndNotify. ASSUME NEW w \in Workers, EndNotify(w), phase[w] = "break", Gone' = Gone \cup {w}
   PROVE Life!Next
  <2>1. wpc[w] = "notify" /\ UNCHANGED <<started, inited, mpc>> /\ wpc' = [wpc EXCEPT ![w] = "drain"]
    BY <1>EndNotify DEF EndNotify, Goto, lifeVars, mainVars
  <2>2. mpc \in Ending
    BY <1>t, <1>EndNotify DEF ToldInTime
  <2>3. OpenMap' = OpenMap
    <3>1. \A v \in Workers : ~CloseHook(v)
      BY <2>1, <1>y DEF CloseHook, Goto
    <3> QED
      BY <1>k, <2>1, <3>1, OpenStays
  <2>4. Life!Leave(w)
    BY <1>EndNotify, <2>1, <2>2, <2>3 DEF Life!Leave, OpenMap, Gone, Ending
  <2> QED
    BY <2>4 DEF Life!Next
<1>ThreadDestory. ASSUME NEW w \in Workers, ThreadDestory(w) PROVE Life!Next
  <2>1. /\ wpc[w] = "destory" /\ inited[w] # << >> /\ inited' = [inited EXCEPT ![w] = SubSeq(@, 1, Len(@) - 1)]
        /\ UNCHANGED <<started, mpc, phase, wpc>>
    BY <1>ThreadDestory DEF ThreadDestory, mainVars, workerVars
  <2>2. w \in Gone
    BY <1>t, <2>1 DEF Places, WorkerPlace, Gone
  <2>3. OpenMap' = OpenMap /\ Gone' = Gone
    <3>1. \A v \in Workers : ~CloseHook(v)
      BY <2>1, <1>y DEF CloseHook, Goto
    <3> QED
      BY <1>k, <2>1, <3>1, OpenStays DEF Gone
  <2>4. Life!ThreadDestory(w)
    BY <2>1, <2>2, <2>3 DEF Life!ThreadDestory, OpenMap, Gone
  <2> QED
    BY <2>4 DEF Life!Next
<1>StopModule. ASSUME StopModule PROVE Life!Next
  <2>1. /\ mpc = "stop" /\ mpc' \in {"stop", "done"} /\ started' = SubSeq(started, 1, Len(started) - 1)
        /\ UNCHANGED <<inited, phase, wpc>>
    BY <1>StopModule DEF StopModule, MainGoto, workerVars
  <2>2. \A w \in Workers : phase[w] = "exited" /\ wpc[w] = "exited" /\ inited[w] = << >>
    BY <1>t, <1>l, <2>1 DEF Joined, Places, WorkerPlace
  <2>3. Gone = Workers /\ Gone' = Gone /\ inited = [w \in Workers |-> << >>]
    BY <1>y, <2>1, <2>2 DEF Gone
  <2>4. OpenMap' = OpenMap
    <3>1. \A v \in Workers : ~CloseHook(v)
      BY <2>2 DEF CloseHook, Goto
    <3> QED
      BY <1>k, <2>1, <3>1, OpenStays
  <2>5. started # << >> /\ mpc \in Ending /\ mpc' \in Ending
    BY <1>l, <2>1 DEF Ending
  <2>6. Life!Stop
    BY <2>1, <2>3, <2>4, <2>5 DEF Life!Stop, OpenMap, Gone, Ending
  <2> QED
    BY <2>6 DEF Life!Next
<1>Other. ASSUME ~StartModule, ~StopModule, ~Signal, \A w \in Workers : ~ThreadInit(w) /\
   ~ThreadDestory(w) /\ ~CloseHook(w),
                 ~(mpc = "hook" /\ mpc' = "push"), Gone' = Gone
          PROVE  UNCHANGED (Life!vars)
  <2>1. UNCHANGED <<started, inited>>
    BY <1>Other, LifeMoves
  <2>2. OpenMap' = OpenMap
    BY <1>k, <1>Other, OpenStays
  <2>3. mpc' \in Ending <=> mpc \in Ending
    BY <1>Other, MainMoves DEF Ending, MainGoto, StartModule, CreateWorkers, Barrier, CheckRoom,
       Deny, Insert, Assign, AcceptHook, QueueAccepted, NotifyAccepted, RejectBegin, RejectEnd,
       EnableAccept, ScanTable, SendDash, Join, StopModule, Signal, Accept
  <2> QED
    BY <1>Other, <2>1, <2>2, <2>3, LifeVars DEF Life!vars, OpenMap, Gone, Ending
<1>8. ASSUME mpc = "hook", mpc' = "push" PROVE \E result \in scene.accepts : AcceptHook(result)
  BY <1>8, MainMoves DEF MainGoto, StartModule, CreateWorkers, Barrier, CheckRoom, Deny, Insert,
     Assign, AcceptHook, QueueAccepted, NotifyAccepted, RejectBegin, RejectEnd, EnableAccept,
     ScanTable, SendDash, Join, StopModule, Signal, Accept
<1> QED
  BY <1>t, <1>StartModule, <1>ThreadInit, <1>AcceptHook, <1>CloseHook, <1>Signal, <1>EndNotify,
     <1>ThreadDestory, <1>StopModule, <1>Other, <1>8, GoneMoves

\* Modules are started before all threads and stopped after them, threads are
\* prepared before any connection is accepted, and the close hooks of a connection
\* run once, before its thread is torn down.
THEOREM ModulesServed == Spec /\ InUse => ModuleSpec
<1>1. Init => Life!Init
  <2> SUFFICES ASSUME Init PROVE Life!Init
    OBVIOUS
  <2>1. \A c : c \notin Open
    <3>1. \A c : ~IsOpen(c)
      BY DEF Init, IsOpen, Range
    <3> QED
      BY <3>1, OpenMeans
  <2> QED
    BY <2>1 DEF Init, Life!Init
<1>2. [Next]_vars /\ InUse => InUse'
  BY SceneStays DEF InUse, LooksUp, ClosesOwn
<1> QED
  BY <1>1, <1>2, LifeStep, KeptInvariant, PTL DEF Spec, ModuleSpec, Life!Spec
=============================================================================
