----------------------------- MODULE ModuleLife -----------------------------
(***************************************************************************)
(* What the server promises to its modules (rtcsp_module_t).  A module may *)
(* use, in each of its hooks, what its earlier hooks have set up, and what *)
(* the modules in front of it in the list have: the demo module runs its   *)
(* statements on the MySQL handles that the module my opens.               *)
(***************************************************************************)
EXTENDS Integers, Sequences

CONSTANTS
  Modules,   \* rtcsp_modules, in order
  Workers,   \* of the server, one thread each
  Conn,
  NULL

VARIABLES
  started,   \* modules whose start has run and whose stop has not
  inited,    \* of each worker: those whose thread_init has run and whose
             \* thread_destory has not
  open,      \* of each connection: the worker that will run its close hooks,
             \* or NULL where no accept hook has run
  stopping,  \* the server accepts no more
  gone       \* workers that have left their loop

vars == <<started, inited, open, stopping, gone>>

Begins(s) == s = SubSeq(Modules, 1, Len(s))

Init ==
  /\ started = << >> /\ inited = [w \in Workers |-> << >>]
  /\ open = [c \in Conn |-> NULL] /\ stopping = FALSE /\ gone = {}

Start(m) ==
  /\ ~stopping /\ inited = [w \in Workers |-> << >>]
  /\ started' = Append(started, m) /\ Begins(started')
  /\ UNCHANGED <<inited, open, stopping, gone>>

ThreadInit(w, m) ==
  /\ started = Modules /\ w \notin gone
  /\ inited' = [inited EXCEPT ![w] = Append(@, m)] /\ Begins(inited'[w])
  /\ UNCHANGED <<started, open, stopping, gone>>

\* The accept hooks have run: all workers are ready for connections.
Accept(c, w) ==
  /\ ~stopping /\ \A v \in Workers : inited[v] = Modules
  /\ open[c] = NULL /\ open' = [open EXCEPT ![c] = w]
  /\ UNCHANGED <<started, inited, stopping, gone>>

\* The close hooks have run, once, while their worker still had its modules.
Close(c) ==
  /\ open[c] # NULL /\ inited[open[c]] = Modules
  /\ open' = [open EXCEPT ![c] = NULL]
  /\ UNCHANGED <<started, inited, stopping, gone>>

StopAccepting ==
  /\ ~stopping /\ stopping' = TRUE
  /\ UNCHANGED <<started, inited, open, gone>>

Leave(w) ==
  /\ stopping /\ gone' = gone \cup {w}
  /\ UNCHANGED <<started, inited, open, stopping>>

\* The last in the list is the first to go.
ThreadDestory(w) ==
  /\ w \in gone /\ inited[w] # << >>
  /\ inited' = [inited EXCEPT ![w] = SubSeq(@, 1, Len(@) - 1)]
  /\ UNCHANGED <<started, open, stopping, gone>>

Stop ==
  /\ gone = Workers /\ inited = [w \in Workers |-> << >>]
  /\ started # << >> /\ started' = SubSeq(started, 1, Len(started) - 1)
  /\ UNCHANGED <<inited, open, stopping, gone>>

Next ==
  \/ \E i \in 1 .. Len(Modules) : Start(Modules[i]) \/ \E w \in Workers : ThreadInit(w, Modules[i])
  \/ \E c \in Conn : Close(c) \/ \E w \in Workers : Accept(c, w)
  \/ StopAccepting \/ Stop
  \/ \E w \in Workers : Leave(w) \/ ThreadDestory(w)

Spec == Init /\ [][Next]_vars
=============================================================================
