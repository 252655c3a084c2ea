------------------------------- MODULE Server -------------------------------
(***************************************************************************)
(* The server of loop_event.c: the main thread, which accepts connections, *)
(* and the workers, which serve and close them.  They share the connection *)
(* table (module ConnTable) under the read-write lock (ReadWriteLock), and *)
(* each worker has a queue of accepted connections, a queue of connections *)
(* to close and a pipe that carries one byte per request:                  *)
(*    "l"  take one connection from the accept queue                       *)
(*    "x"  take one connection from the close queue                        *)
(*    "-"  leave the event loop                                            *)
(* A connection is the address of a conn_t; malloc may hand out an address *)
(* again once it is freed.  The allocator overwrites the first words of a  *)
(* freed conn_t, with the index, and leaves the rest until bzero.          *)
(* The modules of the server (ModuleLife) are started before its workers   *)
(* exist and stopped when they are gone; rows of the table session may be  *)
(* left from a server that was killed.                                     *)
(***************************************************************************)
EXTENDS Integers, Sequences, FiniteSets, Functions

CONSTANTS
  Conn,           \* addresses of conn_t
  MaxClients,     \* rtcsp_maxclients
  NWorkers,       \* rtcsp_nthreads
  NULL,
  Scenes          \* what clients and modules may do: see scene

ASSUME ServerAssumption ==
  /\ MaxClients \in Nat \ {0}
  /\ NWorkers \in Nat \ {0}
  /\ NULL \notin Conn \cup (0 .. NWorkers - 1)
  /\ \A s \in Scenes :
       /\ s.signals \in BOOLEAN
       /\ s.closes \in {"always", "settled", "never"}
       /\ s.ops \subseteq {"lookup", "close_own", "close_other", "close_known"}
       /\ s.accepts \subseteq {"ok", "fail", "late_fail"}

VARIABLES
  conn_num, iqueue, iconns, index, live,    \* the table: see ConnTable
  rd, wr,         \* threads inside its lock: see ReadWriteLock
  alloc,          \* addresses that are allocated
  thread,         \* the field thread of each conn_t
  refable,        \* connections whose field refable is true
  ref_count,      \* the field ref_count
  watched,        \* connections whose read event is registered
  eof,            \* connections whose client has disconnected
  row,            \* table session of the demo module: for each sessId, a number
                  \* that may be in several rows, the connections that they
                  \* are of, "stale" for those of an earlier server
  accept_queue, close_queue, pipe,          \* of each worker
  accepting,      \* the listen event is enabled
  note,           \* bytes "e" wait in the main thread's pipe
  mpc, mconn, mthread,  \* the main thread: where it is, its ptr and thread
  told,           \* workers that signal_handler has sent "-" to
  wpc, wconn,     \* each worker: where it is, its local ptr
  held,           \* the connection its receive hook has a reference to
  buffer,         \* bytes read from its pipe and not yet handled
  phase,          \* none, init, run, break (loop to be left), drain, exited
  started,        \* modules that have been started, in order
  inited,         \* modules whose thread_init has run, of each worker
  scene           \* the environment of this behaviour, never changed:
                  \*   signals  SIGINT may arrive
                  \*   closes   when clients disconnect: always, never, or
                  \*            settled (not while the server is stopping)
                  \*   ops      what receive hooks do: lookup, close_own,
                  \*            close_other, close_known (another watched
                  \*            connection of the worker)
                  \*   accepts  how accept hooks end: ok, fail, late_fail

tableVars == <<conn_num, iqueue, iconns, index, live>>
lockVars == <<rd, wr>>
lifeVars == <<scene, started, inited>>
connVars == <<alloc, thread, refable, ref_count, watched, eof, row>>
queueVars == <<accept_queue, close_queue, pipe>>
mainVars == <<accepting, note, mpc, mconn, mthread, told>>
workerVars == <<wpc, wconn, held, buffer, phase>>

vars == <<tableVars, lockVars, connVars, queueVars, mainVars, workerVars, lifeVars>>

Workers == 0 .. NWorkers - 1
Main == NWorkers

Modules == <<"my", "demo">>

Table == INSTANCE ConnTable
Lock == INSTANCE ReadWriteLock WITH Thread <- Workers \cup {Main}

\* The worker of the connection with index i; index 0 is freed memory.
WorkerOf(i) == IF i = 0 THEN NULL ELSE (i - 1) % NWorkers

Init ==
  /\ Table!Init /\ Lock!Init
  /\ alloc = {} /\ refable = {} /\ watched = {} /\ eof = {}
  /\ thread = [c \in Conn |-> NULL]
  /\ ref_count = [c \in Conn |-> 0]
  /\ row \in [0 .. MaxClients -> {{}, {"stale"}}]
  /\ accept_queue = [w \in Workers |-> << >>]
  /\ close_queue = [w \in Workers |-> << >>]
  /\ pipe = [w \in Workers |-> << >>]
  /\ accepting = TRUE /\ note = FALSE
  /\ mpc = "start" /\ mconn = NULL /\ mthread = NULL /\ told = 0
  /\ wpc = [w \in Workers |-> "none"]
  /\ wconn = [w \in Workers |-> NULL]
  /\ held = [w \in Workers |-> NULL]
  /\ buffer = [w \in Workers |-> << >>]
  /\ phase = [w \in Workers |-> "none"]
  /\ started = << >> /\ inited = [w \in Workers |-> << >>]
  /\ scene \in Scenes

Push(queues, w, e) == [queues EXCEPT ![w] = Append(@, e)]
Pop(queues, w) == [queues EXCEPT ![w] = Tail(@)]

MainGoto(from, to) == mpc = from /\ mpc' = to
Goto(w, from, to) == wpc[w] = from /\ wpc' = [wpc EXCEPT ![w] = to]

\* free(ptr): nobody but a dangling pointer looks at refable any more.
Free(c) ==
  /\ alloc' = alloc \ {c}
  /\ eof' = eof \ {c}
  /\ watched' = watched \ {c}
  /\ refable' = refable \ {c}
  /\ UNCHANGED <<thread, ref_count, row>>

\* remove_conn takes the write lock, takes the connection out of the table,
\* waits inside the lock until nobody has a reference, and frees.
RemoveBegin(t, c) == Lock!BeginWrite(t) /\ Table!RemoveConn(c)

\* Faulty variant: the references are not waited for.
RemoveEndNow(t, c) == Lock!EndWrite(t) /\ Free(c)

RemoveEnd(t, c) == ref_count[c] <= 0 /\ Lock!EndWrite(t) /\ Free(c)

-----------------------------------------------------------------------------
(***************************************************************************)
(* The start: the modules, then the workers, each of which lets the        *)
(* modules prepare its thread.  SIGINT waits until the main thread is in   *)
(* its event loop.                                                         *)
(***************************************************************************)
ClearRows == row' = [i \in 0 .. MaxClients |-> {}]

\* The modules in s and the next one.
Onward(s) == SubSeq(Modules, 1, Len(s) + 1)

\* Faulty variant: the demo module does not clear its table.
StartHookKeeps == UNCHANGED row

\* Starting and stopping the demo module deletes all rows.
StartHook == IF started' = Modules THEN ClearRows ELSE UNCHANGED row

StartModule ==
  /\ MainGoto("start", IF Onward(started) = Modules THEN "create" ELSE "start")
  /\ started' = Onward(started)
  /\ StartHook
  /\ UNCHANGED <<scene, inited, tableVars, lockVars, queueVars, workerVars, alloc, thread, refable,
                 ref_count, watched, eof, accepting, note, mconn, mthread, told>>

CreateWorkers ==
  /\ MainGoto("create", "barrier")
  /\ wpc' = [w \in Workers |-> "init"] /\ phase' = [w \in Workers |-> "init"]
  /\ UNCHANGED <<lifeVars, tableVars, lockVars, connVars, queueVars, accepting, note, mconn,
                 mthread, told, wconn, held, buffer>>

ThreadInit(w) ==
  /\ wpc[w] = "init" /\ inited[w] # Modules
  /\ inited' = [inited EXCEPT ![w] = Onward(@)]
  /\ UNCHANGED <<scene, started, tableVars, lockVars, connVars, queueVars, mainVars, workerVars>>

EnterLoop(w) ==
  /\ Goto(w, "init", "loop")
  /\ inited[w] = Modules
  /\ phase' = [phase EXCEPT ![w] = "run"]
  /\ UNCHANGED <<lifeVars, tableVars, lockVars, connVars, queueVars, mainVars, wconn, held, buffer>>

nthreads == Cardinality({w \in Workers : phase[w] \in {"run", "break", "drain"}})

\* Faulty variant: one worker is not waited for.
BarrierShort ==
  /\ MainGoto("barrier", "loop")
  /\ nthreads + 1 >= NWorkers
  /\ UNCHANGED <<lifeVars, tableVars, lockVars, connVars, queueVars, workerVars, accepting, note,
                 mconn, mthread, told>>

Barrier ==
  /\ MainGoto("barrier", "loop")
  /\ nthreads >= NWorkers
  /\ UNCHANGED <<lifeVars, tableVars, lockVars, connVars, queueVars, workerVars, accepting, note,
                 mconn, mthread, told>>

-----------------------------------------------------------------------------
\* A client disconnects, or sends the packet of length 0 that socket_recv
\* takes for it: the next read event closes the connection.
ClientClose(c) ==
  /\ scene.closes # "never"
  /\ scene.closes = "settled" => mpc \notin {"scan", "dash", "join", "stop", "done"}
  /\ c \in alloc \ eof
  /\ eof' = eof \cup {c}
  /\ UNCHANGED <<lifeVars, tableVars, lockVars, queueVars, mainVars, workerVars,
                 alloc, thread, refable, ref_count, watched, row>>

-----------------------------------------------------------------------------
(***************************************************************************)
(* The main thread: listen_handler, one action per access to shared state. *)
(***************************************************************************)
Accept(c) ==
  /\ MainGoto("loop", "check")
  /\ accepting
  /\ c \notin alloc
  /\ alloc' = alloc \cup {c}
  /\ thread' = [thread EXCEPT ![c] = NULL]
  /\ mconn' = c
  /\ UNCHANGED <<lifeVars, tableVars, lockVars, queueVars, workerVars, refable, ref_count,
                 watched, eof, row, accepting, note, mthread, told>>

CheckRoom ==
  /\ MainGoto("check", IF conn_num >= MaxClients THEN "deny" ELSE "insert")
  /\ Lock!MayRead
  /\ UNCHANGED <<lifeVars, tableVars, lockVars, connVars, queueVars, workerVars,
                 accepting, note, mconn, mthread, told>>

Deny ==
  /\ MainGoto("deny", "loop")
  /\ accepting' = FALSE
  /\ Free(mconn)
  /\ mconn' = NULL
  /\ UNCHANGED <<lifeVars, tableVars, lockVars, queueVars, workerVars, note, mthread, told>>

Insert ==
  /\ MainGoto("insert", "assign")
  /\ Lock!MayWrite
  /\ Table!InsertConn(mconn)
  /\ refable' = refable \cup {mconn}
  /\ UNCHANGED <<lifeVars, lockVars, queueVars, workerVars, alloc, thread, ref_count,
                 watched, eof, row, accepting, note, mconn, mthread, told>>

\* The connection is in the table by now: a worker may find it there and
\* close it while the main thread still uses it.
Assign ==
  /\ MainGoto("assign", "hook")
  /\ mthread' = WorkerOf(index[mconn])
  /\ thread' = [thread EXCEPT ![mconn] = mthread']
  /\ UNCHANGED <<lifeVars, tableVars, lockVars, queueVars, workerVars, alloc, refable,
                 ref_count, watched, eof, row, accepting, note, mconn, told>>

\* The accept hook of the demo module: the table has no unique key, so INSERT
\* IGNORE adds a row whatever is there.  "late_fail" is a statement that ran and
\* failed to close.
AcceptHook(result) ==
  /\ MainGoto("hook", IF result = "ok" THEN "push" ELSE "reject")
  /\ row' = IF result = "fail" THEN row ELSE [row EXCEPT ![index[mconn]] = @ \cup {mconn}]
  /\ UNCHANGED <<lifeVars, tableVars, lockVars, queueVars, workerVars, alloc, thread,
                 refable, ref_count, watched, eof, accepting, note, mconn,
                 mthread, told>>

QueueAccepted ==
  /\ MainGoto("push", "notify")
  /\ accept_queue' = Push(accept_queue, mthread, mconn)
  /\ UNCHANGED <<lifeVars, tableVars, lockVars, connVars, workerVars, close_queue, pipe,
                 accepting, note, mconn, mthread, told>>

\* Faulty variant: the byte goes to the first worker.
NotifyFirst ==
  /\ MainGoto("notify", "loop")
  /\ pipe' = Push(pipe, 0, "l")
  /\ mconn' = NULL
  /\ mthread' = NULL
  /\ UNCHANGED <<lifeVars, tableVars, lockVars, connVars, workerVars, accept_queue,
                 close_queue, accepting, note, told>>

\* Faulty variant: the byte is not sent.
NotifyNobody ==
  /\ MainGoto("notify", "loop")
  /\ mconn' = NULL
  /\ mthread' = NULL
  /\ UNCHANGED <<lifeVars, tableVars, lockVars, connVars, workerVars, queueVars, accepting,
                 note, told>>

NotifyAccepted ==
  /\ MainGoto("notify", "loop")
  /\ pipe' = Push(pipe, mthread, "l")
  /\ mconn' = NULL
  /\ mthread' = NULL
  /\ UNCHANGED <<lifeVars, tableVars, lockVars, connVars, workerVars, accept_queue,
                 close_queue, accepting, note, told>>

RejectBegin ==
  /\ MainGoto("reject", "free")
  /\ RemoveBegin(Main, mconn)
  /\ UNCHANGED <<lifeVars, connVars, queueVars, workerVars, accepting, note, mconn, mthread, told>>

\* Faulty variant: a rejected connection is queued as well.
RejectFallsThrough ==
  /\ MainGoto("free", "push")
  /\ RemoveEnd(Main, mconn)
  /\ UNCHANGED <<lifeVars, tableVars, queueVars, workerVars, accepting, note, mconn, mthread, told>>

RejectEnd ==
  /\ MainGoto("free", "loop")
  /\ RemoveEnd(Main, mconn)
  /\ mconn' = NULL
  /\ mthread' = NULL
  /\ UNCHANGED <<lifeVars, tableVars, queueVars, workerVars, accepting, note, told>>

\* listen_notify_handler: every byte a worker writes is "e".
EnableAccept ==
  /\ mpc = "loop"
  /\ note
  /\ note' = FALSE
  /\ accepting' = TRUE
  /\ UNCHANGED <<lifeVars, tableVars, lockVars, connVars, queueVars, workerVars, mpc,
                 mconn, mthread, told>>

-----------------------------------------------------------------------------
(***************************************************************************)
(* The main thread: signal_handler and the end of loop_event.              *)
(***************************************************************************)
Signal ==
  /\ scene.signals
  /\ scene.closes = "settled" => eof = {}
  /\ MainGoto("loop", "scan")
  /\ accepting' = FALSE
  /\ UNCHANGED <<lifeVars, tableVars, lockVars, connVars, queueVars, workerVars, note,
                 mconn, mthread, told>>

\* A set of slots in ascending order.
InOrder(slots) ==
  CHOOSE s \in [1 .. Cardinality(slots) -> slots] : \A j, k \in DOMAIN s : j < k => s[j] < s[k]

\* The connections in the slots the scan visits, for worker w, in order.
Scanned(w) ==
  LET s == InOrder({i \in 0 .. MaxClients - 1 : iconns[i] # NULL /\ thread[iconns[i]] = w}) IN
  [k \in DOMAIN s |-> iconns[s[k]]]

ScanTable ==
  /\ MainGoto("scan", "dash")
  /\ Lock!MayRead
  /\ close_queue' = [w \in Workers |-> close_queue[w] \o Scanned(w)]
  /\ UNCHANGED <<lifeVars, tableVars, lockVars, connVars, workerVars, accept_queue, pipe,
                 accepting, note, mconn, mthread, told>>

\* Faulty variant: the last worker is not told.
SendDashShort ==
  /\ MainGoto("dash", IF told + 2 >= NWorkers THEN "join" ELSE "dash")
  /\ pipe' = Push(pipe, told, "-")
  /\ told' = told + 1
  /\ UNCHANGED <<lifeVars, tableVars, lockVars, connVars, workerVars, accept_queue,
                 close_queue, accepting, note, mconn, mthread>>

SendDash ==
  /\ MainGoto("dash", IF told + 1 = NWorkers THEN "join" ELSE "dash")
  /\ pipe' = Push(pipe, told, "-")
  /\ told' = told + 1
  /\ UNCHANGED <<lifeVars, tableVars, lockVars, connVars, workerVars, accept_queue,
                 close_queue, accepting, note, mconn, mthread>>

\* The workers are detached, so pthread_join has nothing to wait for; what
\* waits is the loop on nthreads.
Join ==
  /\ MainGoto("join", "stop")
  /\ nthreads = 0
  /\ UNCHANGED <<lifeVars, tableVars, lockVars, connVars, queueVars, workerVars, accepting, note,
                 mconn, mthread, told>>

\* The modules are stopped from the last to the first; then loop_event returns.
StopModule ==
  /\ MainGoto("stop", IF Len(started) = 1 THEN "done" ELSE "stop")
  /\ started' = SubSeq(started, 1, Len(started) - 1)
  /\ IF started = Modules THEN ClearRows ELSE UNCHANGED row
  /\ UNCHANGED <<scene, inited, tableVars, lockVars, queueVars, workerVars, alloc, thread, refable,
                 ref_count, watched, eof, accepting, note, mconn, mthread, told>>

-----------------------------------------------------------------------------
(***************************************************************************)
(* A worker: notify_handler, the read event, the end of the thread.        *)
(***************************************************************************)
ReadPipe(w) ==
  /\ Goto(w, "loop", "notify")
  /\ pipe[w] # << >>
  /\ buffer' = [buffer EXCEPT ![w] = pipe[w]]
  /\ pipe' = [pipe EXCEPT ![w] = << >>]
  /\ UNCHANGED <<lifeVars, tableVars, lockVars, connVars, mainVars, accept_queue,
                 close_queue, wconn, held, phase>>

NextByte(w, byte) ==
  wpc[w] = "notify" /\ buffer[w] # << >> /\ Head(buffer[w]) = byte

\* A failed assertion ends the process.
Register(w) ==
  /\ NextByte(w, "l")
  /\ accept_queue[w] # << >>
  /\ thread[Head(accept_queue[w])] = w
  /\ watched' = watched \cup {Head(accept_queue[w])}
  /\ accept_queue' = Pop(accept_queue, w)
  /\ buffer' = Pop(buffer, w)
  /\ UNCHANGED <<lifeVars, tableVars, lockVars, mainVars, alloc, thread, refable, ref_count,
                 eof, row, close_queue, pipe, wpc, wconn, held, phase>>

\* clean_conn, with which each of the three ways to close begins.
Clean(w, c) ==
  /\ wconn' = [wconn EXCEPT ![w] = c]
  /\ watched' = watched \ {c}
  /\ UNCHANGED <<lifeVars, tableVars, lockVars, mainVars, alloc, thread, refable, ref_count,
                 eof, row, pipe, held, phase>>

TakeClose(w) ==
  /\ NextByte(w, "x")
  /\ close_queue[w] # << >>
  /\ Goto(w, "notify", "hook")
  /\ Clean(w, Head(close_queue[w]))
  /\ close_queue' = Pop(close_queue, w)
  /\ buffer' = Pop(buffer, w)
  /\ UNCHANGED accept_queue

\* event_base_loopbreak takes effect when notify_handler returns: the bytes
\* behind "-" in the buffer are still handled.
Break(w) ==
  /\ NextByte(w, "-")
  /\ phase' = [phase EXCEPT ![w] = "break"]
  /\ buffer' = Pop(buffer, w)
  /\ UNCHANGED <<lifeVars, tableVars, lockVars, connVars, queueVars, mainVars, wpc, wconn, held>>

EndNotify(w) ==
  /\ Goto(w, "notify", IF phase[w] = "break" THEN "drain" ELSE "loop")
  /\ buffer[w] = << >>
  /\ phase' = [phase EXCEPT ![w] = IF @ = "break" THEN "drain" ELSE @]
  /\ UNCHANGED <<lifeVars, tableVars, lockVars, connVars, queueVars, mainVars, wconn, held, buffer>>

\* read_handler, when socket_recv returns 0.
ReadEof(w, c) ==
  /\ Goto(w, "loop", "hook")
  /\ c \in watched \cap eof
  /\ thread[c] = w
  /\ Clean(w, c)
  /\ UNCHANGED <<accept_queue, close_queue, buffer>>

\* queue_free_ex on both queues, the accept queue first, with close_conn_free.
Waiting(w) == accept_queue[w] \o close_queue[w]

Drain(w) ==
  /\ Goto(w, "drain", "hook")
  /\ Waiting(w) # << >>
  /\ Clean(w, Head(Waiting(w)))
  /\ IF accept_queue[w] # << >>
     THEN accept_queue' = Pop(accept_queue, w) /\ UNCHANGED close_queue
     ELSE close_queue' = Pop(close_queue, w) /\ UNCHANGED accept_queue
  /\ UNCHANGED buffer

\* Faulty variant: the close queue is not drained.
LeaveEarly(w) ==
  /\ Goto(w, "drain", "destory")
  /\ accept_queue[w] = << >>
  /\ UNCHANGED <<lifeVars, tableVars, lockVars, connVars, queueVars, mainVars, wconn, held, buffer, phase>>

LeaveLoop(w) ==
  /\ Goto(w, "drain", "destory")
  /\ Waiting(w) = << >>
  /\ UNCHANGED <<lifeVars, tableVars, lockVars, connVars, queueVars, mainVars, wconn, held, buffer, phase>>

\* The thread_destory hooks, from the last module to the first.
ThreadDestory(w) ==
  /\ wpc[w] = "destory" /\ inited[w] # << >>
  /\ inited' = [inited EXCEPT ![w] = SubSeq(@, 1, Len(@) - 1)]
  /\ UNCHANGED <<scene, started, tableVars, lockVars, connVars, queueVars, mainVars, workerVars>>

Exit(w) ==
  /\ Goto(w, "destory", "exited")
  /\ inited[w] = << >>
  /\ phase' = [phase EXCEPT ![w] = "exited"]
  /\ UNCHANGED <<lifeVars, tableVars, lockVars, connVars, queueVars, mainVars, wconn, held, buffer>>

\* Faulty variant: the close hooks are not called.
SkipCloseHook(w) ==
  /\ Goto(w, "hook", "remove")
  /\ UNCHANGED <<lifeVars, tableVars, lockVars, connVars, queueVars, mainVars, wconn, held,
                 buffer, phase>>

\* hook_conn_close: the demo module deletes all rows of that number.
CloseHook(w) ==
  /\ Goto(w, "hook", "remove")
  /\ row' = [row EXCEPT ![index[wconn[w]]] = {}]
  /\ UNCHANGED <<lifeVars, tableVars, lockVars, queueVars, mainVars, alloc, thread, refable,
                 ref_count, watched, eof, wconn, held, buffer, phase>>

BeginRemove(w) ==
  /\ Goto(w, "remove", "free")
  /\ RemoveBegin(w, wconn[w])
  /\ UNCHANGED <<lifeVars, connVars, queueVars, mainVars, wconn, held, buffer, phase>>

\* Only the event handlers tell the main thread, not the drain.
EndRemove(w) ==
  /\ Goto(w, "free", IF phase[w] = "drain" THEN "drain" ELSE "tell")
  /\ RemoveEnd(w, wconn[w])
  /\ wconn' = [wconn EXCEPT ![w] = NULL]
  /\ UNCHANGED <<lifeVars, tableVars, queueVars, mainVars, held, buffer, phase>>

\* Faulty variant: the main thread is not told.
TellNobody(w) ==
  /\ Goto(w, "tell", "notify")
  /\ UNCHANGED <<lifeVars, tableVars, lockVars, connVars, queueVars, mainVars, wconn, held,
                 buffer, phase>>

\* is_accept_conn(true)
TellMain(w) ==
  /\ Goto(w, "tell", "notify")
  /\ note' = TRUE
  /\ UNCHANGED <<lifeVars, tableVars, lockVars, connVars, queueVars, accepting, mpc, mconn,
                 mthread, told, wconn, held, buffer, phase>>

-----------------------------------------------------------------------------
(***************************************************************************)
(* A worker in a receive hook of one of its connections: what the API lets *)
(* a module do there.  The modules of the repository do none of it.        *)
(***************************************************************************)
Hooked(w) == {c \in watched : thread[c] = w}

\* index_conn finds a connection that may be referenced.
IndexConn(w, i) ==
  /\ scene.ops \cap {"lookup", "close_other", "close_known"} # {}
  /\ Hooked(w) # {}
  /\ Goto(w, "loop", "using")
  /\ Lock!MayRead
  /\ iconns[i] # NULL /\ iconns[i] \in refable
  /\ held' = [held EXCEPT ![w] = iconns[i]]
  /\ ref_count' = [ref_count EXCEPT ![iconns[i]] = @ + 1]
  /\ UNCHANGED <<lifeVars, tableVars, lockVars, queueVars, mainVars, alloc, thread, refable,
                 watched, eof, row, wconn, buffer, phase>>

\* Faulty variant: the reference is not given back.
UnrefNothing(w) ==
  /\ wpc[w] \in {"using", "leaving"}
  /\ wpc' = [wpc EXCEPT ![w] = "loop"]
  /\ held' = [held EXCEPT ![w] = NULL]
  /\ UNCHANGED <<lifeVars, tableVars, lockVars, connVars, queueVars, mainVars, wconn, buffer, phase>>

UnrefConn(w) ==
  /\ wpc[w] \in {"using", "leaving"}
  /\ wpc' = [wpc EXCEPT ![w] = "loop"]
  /\ ref_count' = [ref_count EXCEPT ![held[w]] = @ - 1]
  /\ held' = [held EXCEPT ![w] = NULL]
  /\ UNCHANGED <<lifeVars, tableVars, lockVars, queueVars, mainVars, alloc, thread, refable,
                 watched, eof, row, wconn, buffer, phase>>

\* socket_close(ptr) on the connection the hook runs for, or on the one it
\* has a reference to.
CloseOwn(w, c) ==
  /\ "close_own" \in scene.ops
  /\ Goto(w, "loop", "closing")
  /\ c \in Hooked(w)
  /\ wconn' = [wconn EXCEPT ![w] = c]
  /\ UNCHANGED <<lifeVars, tableVars, lockVars, connVars, queueVars, mainVars, held, buffer, phase>>

CloseOther(w) ==
  /\ \/ "close_other" \in scene.ops
     \/ "close_known" \in scene.ops /\ held[w] \in Hooked(w)
  /\ Goto(w, "using", "closing")
  /\ wconn' = [wconn EXCEPT ![w] = held[w]]
  /\ UNCHANGED <<lifeVars, tableVars, lockVars, connVars, queueVars, mainVars, held, buffer, phase>>

\* A hook with a reference calls socket_close at most once before it gives
\* the reference back; without one it may call again.
HookPlace(w) == IF held[w] = NULL THEN "loop" ELSE "leaving"

\* Faulty variant: refable is not tested.
TestRefableAlways(w) ==
  /\ Goto(w, "closing", "queueing")
  /\ Lock!BeginRead(w)
  /\ UNCHANGED <<lifeVars, tableVars, connVars, queueVars, mainVars, wconn, held, buffer, phase>>

TestRefable(w) ==
  /\ Goto(w, "closing", "queueing")
  /\ Lock!BeginRead(w)
  /\ wconn[w] \in refable
  /\ UNCHANGED <<lifeVars, tableVars, connVars, queueVars, mainVars, wconn, held, buffer, phase>>

TestNotRefable(w) ==
  /\ Goto(w, "closing", HookPlace(w))
  /\ Lock!MayRead
  /\ wconn[w] \notin refable
  /\ wconn' = [wconn EXCEPT ![w] = NULL]
  /\ UNCHANGED <<lifeVars, tableVars, lockVars, connVars, queueVars, mainVars, held, buffer, phase>>

\* Faulty variant: the connection is marked but not queued.
MarkClosing(w) ==
  /\ Goto(w, "queueing", "writing")
  /\ Lock!EndRead(w)
  /\ refable' = refable \ {wconn[w]}
  /\ UNCHANGED <<lifeVars, tableVars, queueVars, mainVars, alloc, thread, ref_count, watched,
                 eof, row, wconn, held, buffer, phase>>

\* A connection without a thread ends the process.
QueueClosing(w) ==
  /\ Goto(w, "queueing", "writing")
  /\ Lock!EndRead(w)
  /\ refable' = refable \ {wconn[w]}
  /\ thread[wconn[w]] # NULL
  /\ close_queue' = Push(close_queue, thread[wconn[w]], wconn[w])
  /\ UNCHANGED <<lifeVars, tableVars, mainVars, alloc, thread, ref_count, watched, eof, row,
                 accept_queue, pipe, wconn, held, buffer, phase>>

NotifyClosing(w) ==
  /\ Goto(w, "writing", HookPlace(w))
  /\ thread[wconn[w]] # NULL
  /\ pipe' = Push(pipe, thread[wconn[w]], "x")
  /\ wconn' = [wconn EXCEPT ![w] = NULL]
  /\ UNCHANGED <<lifeVars, tableVars, lockVars, connVars, mainVars, accept_queue, close_queue,
                 held, buffer, phase>>

-----------------------------------------------------------------------------
MainStep ==
  \/ StartModule \/ CreateWorkers \/ Barrier
  \/ CheckRoom \/ Deny \/ Insert \/ Assign
  \/ \E result \in scene.accepts : AcceptHook(result)
  \/ QueueAccepted \/ NotifyAccepted \/ RejectBegin \/ RejectEnd \/ EnableAccept
  \/ ScanTable \/ SendDash \/ Join \/ StopModule

\* The handlers of a worker.
Serve(w) ==
  \/ ReadPipe(w) \/ Register(w) \/ TakeClose(w) \/ Break(w) \/ EndNotify(w)
  \/ \E c \in Conn : ReadEof(w, c)
  \/ ThreadInit(w) \/ EnterLoop(w)
  \/ Drain(w) \/ LeaveLoop(w) \/ ThreadDestory(w) \/ Exit(w)
  \/ CloseHook(w) \/ BeginRemove(w) \/ EndRemove(w) \/ TellMain(w)

\* The end of a hook that has called into the API.
FinishHook(w) ==
  \/ UnrefConn(w)
  \/ TestRefable(w) \/ TestNotRefable(w) \/ QueueClosing(w) \/ NotifyClosing(w)

UseApi(w) ==
  \/ \E i \in 1 .. MaxClients : IndexConn(w, i)
  \/ \E c \in Conn : CloseOwn(w, c)
  \/ CloseOther(w)

\* The process has ended.
Ended == mpc = "done" /\ UNCHANGED vars

Next ==
  \/ \E c \in Conn : ClientClose(c) \/ Accept(c)
  \/ MainStep \/ Signal
  \/ \E w \in Workers : Serve(w) \/ FinishHook(w) \/ UseApi(w)
  \/ Ended

Spec == Init /\ [][Next]_vars

\* Threads run, and a thread that waits for the lock gets it if the lock is
\* free again and again.  libevent handles every active event of a round
\* before it asks for new ones: no pipe and no connection is passed over for
\* ever.  A hook that has a reference gives it back.  Neither clients, nor
\* SIGINT, nor calls into the API are fair.
Fairness ==
  /\ SF_vars(MainStep)
  /\ \A w \in Workers : /\ SF_vars(Serve(w) \/ FinishHook(w))
                        /\ SF_vars(ReadPipe(w))
  /\ \A c \in Conn : SF_vars(\E w \in Workers : ReadEof(w, c))

FairSpec == Spec /\ Fairness

-----------------------------------------------------------------------------
Threads == Workers \cup {Main}
Count(s, byte) == Cardinality({k \in DOMAIN s : s[k] = byte})

\* Bytes on their way to worker w, and entries whose byte is still to come.
Bytes(w, byte) == Count(buffer[w] \o pipe[w], byte)
AcceptUnsent(w) == IF mpc = "notify" /\ mthread = w THEN 1 ELSE 0
CloseUnsent(w) == Cardinality({v \in Workers : wpc[v] = "writing" /\ thread[wconn[v]] = w})

\* Connections a thread is closing, and those that wait to be closed.
Closing == {wconn[w] : w \in {v \in Workers : wpc[v] \in {"hook", "remove"}}}
Queued == UNION {Range(close_queue[w]) : w \in Workers}
Accepted == (UNION {Range(accept_queue[w]) : w \in Workers})
            \cup (IF mpc \in {"push", "notify"} THEN {mconn} ELSE {})

\* A byte in a pipe always finds its entry in the queue, and the entry is a
\* connection of that worker: the assertions of notify_handler hold although
\* queue and pipe are written by other threads (loop_event.c:241, 256, 257).
AssertionsHold ==
  \A w \in Workers :
    /\ NextByte(w, "l") => accept_queue[w] # << >> /\ thread[Head(accept_queue[w])] = w
    /\ NextByte(w, "x") => close_queue[w] # << >>

\* Each accepted connection has one "l", sent or still to be sent, and each
\* "x" has an entry of the close queue: nobody waits in a queue without a byte.
BytesMatchQueues ==
  \A w \in Workers :
    /\ Bytes(w, "l") + AcceptUnsent(w) = Len(accept_queue[w])
    /\ Bytes(w, "x") + CloseUnsent(w) <= Len(close_queue[w])

\* A connection is closed once: what a queue or a closing worker holds is a
\* connection in the table, in one place only, so remove_conn never gets a
\* pointer that was freed.
ClosedOnce ==
  /\ Closing \cup Queued \cup Accepted \subseteq live
  /\ Closing \cap Queued = {}
  /\ \A v, w \in Workers :
       /\ wconn[v] \in Closing /\ wconn[v] = wconn[w] => v = w
       /\ \A j \in DOMAIN close_queue[v], k \in DOMAIN close_queue[w] :
            close_queue[v][j] = close_queue[w][k] => v = w /\ j = k

\* A reference keeps the connection: the pointer index_conn returned is not
\* freed before unref_conn, although remove_conn may be running.
ReferencesLive ==
  \A w \in Workers : held[w] # NULL => held[w] \in alloc /\ ref_count[held[w]] > 0

\* Counting the connections and inserting one are two critical sections, yet
\* the table never holds more than rtcsp_maxclients connections, and each is
\* under one index: the server only takes steps the table allows.
TableSpec == Table!Spec

\* When the listen event is disabled, the table is full, or a worker has made
\* room and its "e" is in the pipe or about to be written: the wake-up is not
\* lost between the test of CONN_NUM and the disabling.
PausedForAReason ==
  (~accepting /\ mpc \in {"loop", "check", "deny"}) \/ mpc = "deny" =>
    conn_num >= MaxClients \/ note \/ \E w \in Workers : wpc[w] \in {"free", "tell"}

\* A connection that was accepted and is not being closed has the only row with
\* its number in the table session, and a row belongs to a connection that holds
\* its index: the row of an earlier connection never survives into the reuse of
\* its index, nor that of an earlier server into this one, where it would stand
\* beside the new one.
RowsFollowConnections ==
  /\ \A c \in (watched \cup Accepted) : row[index[c]] = {c}
  /\ \A i \in 0 .. MaxClients :
       started = Modules => \A r \in row[i] : r \in live /\ index[r] = i

\* After the last worker has exited, no connection is left in the table but
\* the one in the slot that the scan of signal_handler does not visit.
ExitLeavesNothing ==
  mpc = "stop" => /\ \A c \in live : index[c] = MaxClients
                  /\ Queued = {} /\ Accepted = {}

\* The connections whose accept hooks have run and whose close hooks have not.
Open == Accepted \cup watched \cup {wconn[w] : w \in {v \in Workers : wpc[v] = "hook"}}

\* Modules are started before all threads and stopped after them, threads are
\* prepared before any connection is accepted, and the close hook of a
\* connection runs once, before its thread is torn down, whatever order main
\* thread and workers take; so the demo module never uses a MySQL handle that
\* is closed or not yet open.
Life == INSTANCE ModuleLife WITH
  open <- [c \in Conn |-> IF c \in Open THEN thread[c] ELSE NULL],
  stopping <- mpc \in {"scan", "dash", "join", "stop", "done"},
  gone <- {w \in Workers : phase[w] \in {"drain", "exited"}}

ModuleSpec == Life!Spec

\* CONN_NUM is the number of connections (conn.h:52).
ConnNumCounts == conn_num = Cardinality(live)

-----------------------------------------------------------------------------
\* A connection whose client has gone is closed, whatever the other
\* connections of its worker do.
EofIsServed == \A c \in Conn : c \in eof ~> c \notin eof

\* While there is room the listen event does not stay disabled.
AcceptResumes == ~accepting /\ conn_num < MaxClients ~> accepting \/ conn_num = MaxClients

\* An accepted connection gets its read event or is closed.
AcceptedIsWatched == \A c \in Conn : c \in Accepted ~> c \notin Accepted

\* SIGINT ends the process.
SignalEnds == mpc = "scan" ~> mpc = "done"

\* A thread that has begun to remove a connection gets out of the write lock:
\* it does not wait for ever for the references to be given back.
RemoveReturns == wr # {} ~> wr = {}
=============================================================================
