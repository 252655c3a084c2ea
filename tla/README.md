# A verification of RtCSP

RtCSP is a TCP server with loadable modules (`rtcspd`) and a load generator for it (`rtcspb`), written in C with
libevent, pthreads and glib. This directory holds TLA+ models of the code, the TLC runs that check them and the
TLAPS proofs about them. `PROJECT.json` lists the runs, the lines that each definition models, the hazards that
the properties are for, the disagreements found and the theorems.

- [The system](#the-system): its parts, their state, what makes them hard, what makes them correct
- [Modules](#modules): which module models which part, and how
- [Runs](#runs): what is checked, within which bounds, and what it shows
- [Environments](#environments): what holds under which use of the server, and what breaks outside it
- [Fairness](#fairness), [Proofs](#proofs), [What is left out](#what-is-left-out), [Plan](#plan)

## The system

The server forks from `rtcspd -s start`. Its **main thread** accepts connections in a libevent loop, puts each into
the **connection table** and hands it to one of a fixed number of **workers**, round robin by its index. Each worker
has a libevent loop of its own, a queue of accepted connections, a queue of connections to close and a pipe; a byte in
the pipe says which queue to look at. **Modules** are lists of hooks: `start` and `stop` run before the workers exist
and after they are gone, `thread_init` and `thread_destory` in each worker around its loop, `conn_accept` in the main thread,
`conn_close` in the worker, and receive hooks in the worker when a packet has come. Hooks may call into the
**API**: look up another connection by its index (`index_conn`, `unref_conn`), close one (`socket_close`), send.
The packets are **framed** by four bytes of length; what is inside is written and parsed by the **serializer**. The
**load generator** is another program with workers of its own, which takes all its connections through a list of
requests in lockstep.

| part | source | state | operations | hard | correct when |
|---|---|---|---|---|---|
| connection table | `conn.c` | `conn_num`, `iqueue` (returned indices), `iconns`, fields of `conn_t` | `insert_conn`, `remove_conn`, `index_conn`, `ref_conn`, `unref_conn` | indices come from a queue and a counter; pointers are shared between threads | no index is given out twice or lost; a slot holds its connection and no other |
| read-write lock | `conn.c:18-37` | two mutexes, `readers` | begin/end of reading and writing | the reader that unlocks is not the one that locked | a writer is alone; the lock is never lost |
| server loops | `loop_event.c`, `socket.c:139-195` | two queues and a pipe per worker, the listen event, `nthreads` | `listen_handler`, `listen_notify_handler`, `signal_handler`, `notify_handler`, `read_handler`, the exit of a worker | threads, pipes and queues written one after the other; accept disabled by one thread and enabled for another; SIGINT; hooks that fail | a connection is closed once; nobody waits for a byte that does not come; accepting resumes; SIGINT ends the process |
| modules | `loop_event.c:108-155, 437-466`, `socket.h` | what each thread has been prepared with | `start`, `thread_init`, `thread_destory`, `stop` | hooks of one module use what another has set up, in other threads | every hook finds its module and those before it ready |
| demo module | `modules/demo` | rows of the table `session`, in a database | `start`, `conn_accept`, `conn_close`, `stop`, receive hooks | rows are named by an index that is used again, and outlive a server that is killed | a row belongs to the connection that has its index |
| queue | `queue.c` | linked list, mutex | push, pop, free | a list of one node, both ends changed | first in, first out; nothing leaks |
| framing | `socket.c:20-135` | receive buffer of a connection | `socket_recv`, `socket_send` | bytes arrive in any pieces; timeouts cut packets | packets arrive whole, once, in order |
| serializer | `serialize.c` | none | `serialize_string`, `serialize_parse` | formats of different age, unknown values, text inside strings | what was written is read back |
| service control | `server.c`, `RtCSP.c` | pidfile, listening socket, processes | start, stop, restart, status | commands that overlap, calls that fail, servers that crash or are late | one server; stop stops the one that runs |
| load generator | `bench_event.c` | `send_recv`, `cthreads`, counters of each worker | connect, begin, reply, closed, skip, stop | lockstep by counting answers; connections that close | each answer is counted once; the run ends |
| statistics of the load generator | `bench_event.c:254-291, 344-358, 421-443` | counters per `send_recv`, a ring of seconds | report, second | counters that two threads change; a ring that is not full | each reply and each lost connection is reported once; the average is that of the last seconds |
| MySQL connections | `mod_my.c` | one connection per thread | `start`, `thread_init`, ping, `thread_destory`, `stop` | opened and closed around the use by other modules | only when they are opened and closed |
| options | `getopt.c`, loops of `RtCSP.c` and `bench.c` | place in `argv` and in an argument | `rtcsp_getopt` | the place survives the calls; values attached or not | each option gets the value it was given |
| generators, `api.c`, model structs | | none | - | not modelled | - |

## Modules

`IndexMap`, `ReadWriteLock`, `Fifo`, `PacketStream` and `ModuleLife` are abstract: they say in a few lines what a part promises.
The others are the code. `MC...` modules instantiate them for TLC; `...Proof` modules hold the theorems, and `SequenceFacts`
what several of them need to know of sequences.

| module | models | state and actions |
|---|---|---|
| `ConnTable` (implements `IndexMap`) | `insert_conn`, `remove_conn` | One step per call, because both run under the write lock. `live` is the set of connections between the two calls; `index` is the field. A connection is an address. |
| `RWLock` (implements `ReadWriteLock`) | `conn.c:18-37` | One action per mutex call and per change of `readers`. A mutex is a Boolean: the default mutex of glibc has no owner, and `end_read_lock` depends on that. |
| `Server` (implements `ModuleLife`) | `loop_event.c`, `socket_close`, the hooks of the demo module | Composes the table (`INSTANCE ConnTable`, by the same variables) and the lock (`INSTANCE ReadWriteLock`) with the threads. `mpc` and `wpc` say where the main thread and each worker are; an action is the code between two places where another thread can see or change the state. `alloc` is what `malloc` has handed out: freed addresses come back, and the fields that the allocator does not touch keep their values until `bzero`. The main thread passes through `start`, `create`, `barrier` (it waits until all workers are in their loops), `loop`, the steps of a handler, and from SIGINT on `scan`, `dash`, `join`, `stop` and `done`; a worker through the phases `none`, `init`, `run`, `break`, `drain` and `exited`. `started` and `inited` say which modules have been started, and prepared for which thread. Rows of an earlier server may be there at the start. |
| `Queue` (implements `Fifo`) | `queue.c` | One action per statement; a node is an address with fields `next` and `data`. `Server` uses the queue as a sequence, which this module justifies. |
| `Framing` (implements `PacketStream`) | `socket_send`, `socket_recv`, `recv_data_len`, the timeouts of `socket_opt` | One direction of a connection; `wire` holds bytes that are sent and not received, and each `recv` finds any number of them. |
| `Serialize` | `serialize.c` | Texts are sequences of characters; the parser is recursive operators that return where the value ends and the value. Formats are records, so that the two ends can have different ones. |
| `Options` | `rtcsp_getopt`, the option loops of `RtCSP.c` and `bench.c` | No state: `Getopt` is one call, from a place in the command line to an option, its value and the next place; `Given` is the loop. An argument is flags, a long option, a word, `-` or `--`. `Meant` says how a line is meant to be read, from the arguments alone. |
| `Service` (EXTENDS `Options`) | `server_start`, `server_stop`, `main` | Commands and servers are processes; one action per system call that others can see. A command begins with a line (`line`), whose options decide what it does: `Begin` or `Decline`. |
| `Bench` | the threads of `bench_event.c` and their statistics | One action per event handler and byte; `Second` is the timer of main with its ring, `SendRecvCall` the report at the end of a `send_recv`. |

Places where a model says more or less than the code:

- **Server.** The scan of the table at SIGINT (`loop_event.c:426-432`) is one step. `pthread_join` on threads that were
  detached is left out: it does nothing. Bytes in a pipe are never lost and pipes have no limit; the bytes in one are
  bounded by the connections and the closes of one round, far below the 64 KiB of a pipe. A receive hook calls the
  API at most once; one that holds a reference gives it back or closes that connection, once. The statements by which the demo
  module deletes rows at its start, its stop and the close of a connection succeed, and so does what a module starts with (`loop_event` ignores what `start` returns). SIGINT is
  handled once the main thread is in its loop.
- **Framing.** A packet of which `send` takes no byte (`SendNothing`) is not one of the stream; the callers of `socket_send` go on. A received header is taken off the stream in one step; a timeout may take a part of it.
  `NothingLost` and `Delivered` speak of streams without timeouts, `StreamSpec` of all of them.
- **Service.** Process ids are not used again. SIGCHLD is ignored by the code, so dead servers leave no zombie. A
  pidfile that is empty leaves `pid` of `server_stop` uninitialised: where `stray` holds (see below) it is any server or none,
  elsewhere none. Each system call of `server_start` and `server_stop` that others can see may fail: `socket`, `bind` and `listen`
  (`ListenFails`), `fork` (`ForkFails`), `fopen` (`OpenFails`, `NoPidfile`), `fprintf` and `fclose` (`WriteFails`), and `unlink`
  (where `stuck` holds). When the starter cannot open or write the file, the code prints a message at most and the server runs
  on (`server.c:77`): no later command can find it. `unnamed` records these servers and `failed` what else has failed since a
  command met no other; no action reads either, and they are recorded in orderly uses only. A file that cannot be read as a number, other than an empty one,
  is left out.
- **Options.** The text of a value is `"other"` where no choice depends on it. A colon among the flags and `=` in other places
  than behind a name are left out; numbers are not converted.
- **Serialize.** All types of numbers are one type, with one digit, so that lengths and keys are below ten. Hash tables
  have scalar values: others are parsed into memory that nobody has cleared (`serialize.c:409-418`). The order of
  pairs in a table is fixed, which no result depends on.
- **Bench.** Replies come in any order; what they hold is left out, so that `ok_requests` is `requests`,
  and so are times. `BeginAgain` is bounded by `Quiet`: otherwise
  connections that begin again at any time pile up requests without limit. `Second` is bounded by the scene; `AverageOfRecent`
  speaks of the average only where every second had a reply (see Findings).

## Runs

All passing runs explore their whole state space. "Live" properties need the fairness below.

| run | bounds | what it shows |
|---|---|---|
| `conn_table` | 4 addresses, 3 slots | `IndInv`: queue, counter and table agree. `IndexMapSpec`: the table is a partial map; `insert_conn` never overwrites a slot in use. One more address than slots makes the full table and the reuse of indices happen in every order. |
| `rwlock` | 4 threads | `IndInv`, `Exclusion`, `LockSpec` (refinement of `ReadWriteLock`), `SomebodyEnters` (live). Two readers and two writers are enough for every role; the fourth thread is a third reader or writer. |
| `queue` | 2 threads, 3 nodes, 2 data | `WellLinked`: outside the mutex the list is one chain of allocated nodes with `tail` at its end, and nothing leaks. `FifoSpec`: refinement of `Fifo`. Freed nodes come back from `malloc`, so a stale `tail` would show. 68,000 states. |
| `server` | 2 workers, 3 addresses, 2 slots, any stale rows | `AssertionsHold`: the `assert`s of `notify_handler`. `BytesMatchQueues`: each queue has its bytes. `PausedForAReason`: no lost wake-up of the listen event. `RowsFollowConnections`: each connection has the only row with its number in the table of the demo module, which has no unique key (`structure.sql`); rows never outlive their connection, nor the server that wrote them. `TableSpec`: the server only takes steps that `ConnTable` allows, although the limit is tested in another critical section. 224,000 states. The same run with 4 addresses and 3 slots (two connections on one of the workers, one on the other) passes as well, with 6.4 million states; it takes too long to be repeated each time. |
| `server_live` | 1 worker, 3 addresses, 2 slots | `ClosedOnce`: what waits to be closed is in the table and in one place. `EofIsServed`, `AcceptResumes`, `AcceptedIsWatched` (live). One worker: the handlers under test are those of one worker and of the main thread, which still compete for the lock and the listen event, and liveness with two workers and three connections is beyond a few minutes. Two workers are in `server` and `server_stop`. 47,000 states. |
| `server_stop` | 2 workers, 2 addresses | `ReferencesLive`, `RemoveReturns`: references taken by `index_conn` while another worker removes the connection. `ExitLeavesNothing`, `SignalEnds`: SIGINT closes what the scan sees and ends the process. `ModuleSpec` (refinement of `ModuleLife`): modules are started before workers exist, each connection is accepted when all workers are prepared, its close hook runs once and in a worker that still is, and all is taken down in the reverse order. 94,000 states. |
| `framing` | 5 payloads, limit 3, 3 packets | `NothingLost`, `Delivered` (live), `StreamSpec` (refinement of `PacketStream`): all ways to cut three packets into pieces, one payload beyond the limit, zeros that can be mistaken for a length. 160,000 states. |
| `service` | 3 commands, 3 servers, lines of up to 3 arguments out of 21 | `OneServer`, `FileNamesLiving` with commands that overlap in any way; `Named`, `StopStops`, `LeavesRunning` with commands one after the other or starts at once. In all of them calls may fail. `Named`: between commands the file names the server that runs, unless the starter of that server could not open or write it. `StopStops`: a stop that could open the file has ended the server whose number was in it. `LeavesRunning`: after starts or a restart one runs, unless `listen` or `fork` failed or it crashed. Three commands make a stop between two starts, three starts at once, and a start during a restart. `ObeysCommandLine`: a line in which everything is understood does what it says, with the values it gives, and one in which something is not does nothing; the same of `rtcspb`. Arguments are known and unknown flags, alone, joined, with a value attached, behind `=`, next or missing, the same for long options, words and dashes; three of them are an option, its value and what follows, or flags that end in the middle of an argument. 662,000 states. |
| `bench` | 2 workers of up to 2 connections, 2 requests, 2 steps, a ring of 2 seconds and 3 of them | `AnswersMatch`: the answers counted and under way are the workers that are done, and no connection has more than one request under way. `StepCompletes`: the next step begins when no request is under way and, where nobody skips, each connection has made all of its requests. `ReportsCount`: what a `send_recv` reports is what came and what was lost since it began. `AverageOfRecent`: the average is over the last seconds, before and after the ring is full. `Ends` (live). Second steps meet everything a first one leaves behind. The three kinds of scene (connections lost and SIGINT; a user who skips; seconds) are kept apart: together they are beyond a few minutes. 511,000 states. |
| `serialize` | texts of up to 3 values out of 22 | `ReadsBack`, `Aligned`, `SkipsWhole`, see below. 37,000 states. |
| `server_sigint` | 1 worker, 2 addresses | Finds `ConnNumCounts` violated: see Findings. |
| `service_status` | 1 command | Finds `StatusHarmless` violated: see Findings. |

**Serialize.** `Fits` says which values can be parsed with which format: common fields keep their types, an array
inside a struct does not shrink, objects are not empty, a hash table has at most one key that is a string. `ReadsBack`: what
fits is parsed without failure to `Expected`, the value with unknown fields gone and missing fields zero. `Aligned`: the
length that `serialize_parse` returns is the length of the value. `SkipsWhole`: a reader that does not know a
value passes over all of it. The values of the run hold every character that ends something, nested in every type
that can hold others, and five of them do not fit, so that `Fits` is not empty talk.

**Findings.** (1) `signal_handler` puts every connection into its worker's close queue and leaves its event
registered; a client that disconnects before the worker has drained the queue is removed twice, freed twice, and
counted twice (`loop_event.c:429`). (2) `rtcspd -s status` calls `server_stop` (`RtCSP.c:220`) and ends the service,
although the help says that it shows the status.

Seen while modelling, without a run of their own: indices run from 1 to `rtcsp_maxclients`, the table has the slots
0 to `rtcsp_maxclients - 1`, so that the last connection is one slot behind the block and is not seen by the scan at
SIGINT (`conn.c:47`; `ExitLeavesNothing` excepts it). The average over seconds of the load generator divides by the
position in its ring after a second without a reply (`bench_event.c:424`) where `bench_event.h:38` speaks of the last seconds.
`-H` overwrites the arguments that the values of `--service`, `--host`, `--pidfile` and `--user` point into, so that `rtcspd -H
-s start` prints the usage (`RtCSP.c:196`; `Kept`, excepted by `ObeysCommandLine`). `--name=` with nothing behind it is an
unknown option. A query of `demo_conn_close` that fails has its statement closed twice (`mod_my.h:29`). A hash table with two
string keys cannot be parsed, since the variable for the key is not reset (`serialize.c:395`). The character `;`
as a value breaks the skipping of unknown fields (`serialize.c:73`). A field whose type has changed takes the next
value of its old type (`serialize.c:169`).

## Environments

What modules and clients do decides which guarantees the server can give. The constant `Scenes` of `Server`,
`Service` and `Bench` is a set of environments; one is chosen initially (`scene`) and never changes. Each property is checked in
the widest environment in which it holds.

| environment (`MCServer`) | clients disconnect | hooks | runs |
|---|---|---|---|
| `Repository` | at any time | as the modules of the repository: no call into the API; accept hooks succeed or fail | `server`, `server_live` |
| `ClosingOwn` | never | may close their own connection, also twice | `server` |
| `ClosingKnown` | never | may also close other watched connections of their worker | `server`, `server_live` |
| `LookingUp` | at any time | hold references to other connections; accept hooks may fail after their INSERT | `server_stop` |
| `Stopping` | not during SIGINT | none | `server_stop` |
| `Interrupting` | at any time, also during SIGINT | none | `server_sigint` |

`MCService` has three uses. In the first (`orderly`) commands run one after the other, but starts may overlap starts; servers call
`setsid` within the second that the starter sleeps and end while `server_stop` waits; servers crash, an empty file may give any number
(`stray`) and `unlink` may fail (`stuck`). In the second, commands overlap in any way and servers are as late as they like, in the
third servers also crash and empty files give any number. `MCBench` has `Losses`, `Skipped` and `Seconds`.

Outside of these the code does not keep the property, and each of these is a run with another `Scenes` away:

| property | is broken by |
|---|---|
| `ClosedOnce`, `ConnNumCounts` | a client that disconnects between `socket_close` in a hook and the `x` in its worker (`socket.c:179`): the event stays registered |
| `ClosedOnce` | two threads that close the same connection: `refable` is tested and cleared under a lock for reading (`socket.c:173`) |
| `AssertionsHold` | a hook that closes a connection it has found by index before the main thread has set `thread` (`loop_event.c:388`, the assertion at 257) |
| `RowsFollowConnections` | an accept hook that fails after its INSERT (`modules/demo/demo.c:30`): the row stays, beside that of the next connection |
| `RemoveReturns` | a hook that holds a reference and calls something that takes the lock, while the connection is removed (`conn.c:142`) |
| `LeavesRunning`, `Named` (Service) | a server that needs longer than `server_stop` waits: SIGKILL is not waited for, restart finds the port still in use (`server.c:132`); a stop within the second before `setsid` (`server.c:124`) |
| `Named`, `StopStops` without their exceptions (Service) | a starter that cannot open or write the file (`server.c:77-82`): its server runs without a name, and no later stop ends it |
| `FileNamesLiving` (Service) | a crash, which leaves the file behind (`Named` says that the next command copes); a stop that reads the file while it is empty and finds the number of a server in the uninitialised `pid` (`server.c:121`); an unlink that fails (`server.c:123`), after which the file names the server that was stopped |
| `RowsFollowConnections` | a DELETE that fails when the demo module starts or a connection closes: the code goes on |
| `Ends`, `AnswersMatch` (Bench) | a worker without any connection: it echoes `b` (`bench_event.c:180`) and main begins again, for ever |
| `AnswersMatch`, `StepCompletes`, `ReportsCount`, `AverageOfRecent` (Bench) | a server that closes a connection that is complete (`closes = "always"`): it is counted as closed and as complete, so that main goes on while replies are under way; TLC finds each of the four violated there |

## Fairness

- `Server`: strong fairness for each thread, because a mutex that is free again and again is got in the end
  (a thread is enabled to enter only while the lock is free); strong fairness for reading a worker's pipe and for the
  read event of each connection, because libevent handles all active events of a round before it asks for new ones.
  A hook that has begun to use the API goes on. Clients, SIGINT and calls into the API are not fair.
- `RWLock`: weak fairness for threads that have begun to enter or are inside. Nobody is obliged to ask for the lock, and
  no property says that a writer gets in: readers that overlap can hold it for ever.
- `Framing`: weak fairness of the receiver: libevent is level-triggered, so the event fires as long as bytes wait.
- `Bench`: weak fairness of each thread's loop and of replies: the server answers what it has got. Closing a connection,
  skipping and SIGINT are not fair.
- `Service`, `ConnTable`, `Queue`, `Serialize`: safety only.

Four runs switch deadlock checking off, because what they model comes to its end there: `framing` (both ends are
closed), `bench` (the program is done), `serialize` (all values are read) and `queue` (after `queue_free`). In `Server` the end of the process is a step of its own (`Ended`), so that TLC finds any other deadlock.

## Proofs

`tlapm` checks these for all values of the constants: any number of workers, threads, connections, slots, payloads,
commands. TLC has checked the same formulas on small instances first, the inductive invariants included.

**Connection table and lock** (`ConnTableProof`, `RWLockProof`).

| theorem | says | argument |
|---|---|---|
| `TableInvariant` | `Spec => []IndInv` | `IndInv` is inductive. `IndicesPartition` (the indices up to the high-water mark are those in use and those queued, none both) is what makes the counter safe beside the queue; `Counted` ties the counter to the set of connections. |
| `TableImplementsMap` | `Spec => IndexMapSpec` | from `IndInv`: the slot that `insert_conn` takes is empty and the one `remove_conn` clears is its own |
| `LockInvariant` | `Spec => []IndInv` | `IndInv` is inductive: `readers` counts the threads between their two changes of it, `mx_writer` is held by one writer or by the readers as a group, and the edges (first in, last out) are alone. `EdgesAlone` is the part that the exclusion property itself lacks. |
| `WriterAlone` | `Spec => []Exclusion` | follows from `WriterOwned` |
| `ImplementsLock` | `Spec => LockSpec` | each step maps to a step of `ReadWriteLock` or to a stutter |

**Server** (`ServerProof`).

| theorem | says | argument |
|---|---|---|
| `ServerTypes` | `Spec => [](TypeOK /\ Places /\ ToldInTime /\ Enabled)`, in every use | `Places` ties `mpc`, `wpc` and `phase` to each other: in which phases of the main thread a worker exists, and who has what in its hand. `ToldInTime`: a worker leaves its loop only after it was told to. `Enabled`: what is known while accepting is off. |
| `WakeUpKept` | `Spec => []PausedForAReason`, in every use | inductive beside `ServerTypes`: the connection that made the table full is still there, or its worker has not yet written the `e`, or the `e` is in the pipe |
| `ServerInvariant` | `Spec => []Inv` | `Inv` is `Base` (in every use: also who holds the lock, the room between the count and the insertion, and one `l` for each accepted connection) and, in the uses `InUse`, `Use`: each connection of the table has exactly one owner (main thread, a queue, an event, or the hand of a worker), waits to be closed at most once, is allocated, and knows its worker |
| `AssertionsKept`, `BytesMatch`, `ClosesOnce`, `ReferencesKeep`, `ExitCleans` | `Spec => [](InUse => P)` for `AssertionsHold`, `BytesMatchQueues`, `ClosedOnce`, `ReferencesLive`, `ExitLeavesNothing` | each follows from `Inv`: `LBytes` and `XBytes` count the bytes of a pipe and the entries of its queue; `Owned` and `QueuedOnce` say that nothing is closed twice; `Referenced` that `ref_count` is positive while a hook has the pointer; `Emptied` and `ScanSeen` that a worker that has drained leaves nothing the scan has seen |
| `ServerKeepsTable` | `Spec /\ InUse => TableSpec` | `Room`: between the test of the limit and the insertion nobody else inserts, so `insert_conn` finds a slot; `Owned`: what is removed is in the table. `ConnTable`'s own invariant comes from `TableInvariant`'s lemmas, by INSTANCE. |
| `RowsFollow` | `Spec => [](HasRows /\ mpc \notin {"stop", "done"} => RowsFollowConnections)` | `Kept` adds to `Inv` which modules are up (`Lifecycle`), where each connection is (`Placed`) and its row (`RowsKept`): when the demo module has started, a row belongs to a connection with that index, whatever an earlier server has left |
| `ModulesServed` | `Spec /\ InUse => ModuleSpec` | from `Kept`: a step that prepares a thread, accepts, closes or takes down finds what `ModuleLife` asks for |

`InUse` is a condition on the environment, as in the table of [Environments](#environments): either hooks do nothing but look
connections up and give them back, with no client that has disconnected when SIGINT comes (`LooksUp`), or clients stay and
hooks also close their own connections and other watched ones of their worker (`ClosesOwn`). `HasRows` adds that no accept hook fails after its INSERT. These are
not conveniences: outside of them the properties fail, by the findings and by the rows of that table.
A hook may close a connection of its own worker that it has found by index, since nobody else removes it meanwhile:
`ClosesWatched` says that it is watched by that worker until the worker takes its `x`, however many hooks close it.

**Queue** (`QueueProof`).

| theorem | says | argument |
|---|---|---|
| `QueueInvariant` | `Spec => []IInv` | `Types`, `Exclusive` (who is past the lock holds the mutex) and `Linked(List)`: there is a list without repetition that `head` begins, `next` connects and `tail` ends, except that the thread inside may be at one of the statements between; its nodes and the node in hand are what is allocated. `List` is the sequence that `Walk` finds from `head`; the lemmas say how it changes when `head`, `next` or `tail` does. |
| `QueueKeepsList` | `Spec => []WellLinked` | from `IInv`, outside the mutex |
| `QueueIsFifo` | `Spec => FifoSpec` | the statement that links a node is the push of `Fifo`, the one that moves `head` is its pop; all others leave the list's data alone |

**Framing** (`FramingProof`).

| theorem | says | argument |
|---|---|---|
| `LengthKept`, `LongRefused` | the length before a packet is read as it was written below 16 MB, and refused from 16 MB to 2 GB | division and remainder by 256, three times |
| `FramingTyped` | `Spec => []TypeOK` | inductive with `RecvDataType`: a `recv` never passes the end of the packet under way |
| `FramingInvariant` | `Spec => []FInv` | `Sound` ties the counts of sent, received and refused packets to each other and to the two ends; `OnTrack` says that, before the packet that a timeout has cut, the bytes in `rbuf` and on `wire` are the rest of the packets (`Layout`, `Rest`), from a place between two of them or inside one (`Aligned`) |
| `NothingIsLost` | `Spec => []NothingLost` | from `FInv`: a packet that fits is read with the length it was written with, a length that does not fit is refused |
| `StreamKept` | `Spec => StreamSpec` | a step of `socket_send` appends to the packets of the abstract stream, a `recv` that completes a packet hands out the next one, all others stutter |

**Service** (`ServiceProof`).

| theorem | says | argument |
|---|---|---|
| `OneServerRuns` | `Spec => []OneServer`, overlapping commands, crashes and stray numbers included | with `Holding`: every server that exists holds the listening socket, and a command about to fork holds it alone |
| `FileIsCurrent` | `Spec => []FileNamesLiving`, where servers do not crash, no stray number is found and unlink does not fail | with `Unwritten` (a server whose number is not yet written is known to nobody) and `NamedRuns` (the file names a server that was not told to stop): the file is unlinked before the signal |
| `OrderlyUse` | `Spec => [](scene.orderly => TypeOK /\ OneByOne)` | `OneByOne`: one command at a time, or starts of which one has the socket (`OneAtATime`); what holds between commands (`CalmFacts`), what the last one has left (`Outcome`) and what the current one knows at each of its places (`CommandFacts`) |
| `FileFindsServer`, `StopWaits`, `StartLeavesServer` | `Spec => []P` for `Named`, `StopStops`, `LeavesRunning` | from `OrderlyUse`; the properties themselves speak of commands one after the other or of starts at once, and name what must not have failed |

**Load generator** (`BenchProof`).

| theorem | says | argument |
|---|---|---|
| `BenchInvariant` | `Spec => []Kept` | `Kept` is `Typed`, `Silent` (in every use: a worker ends only when told to, and only open connections wait for replies) and, while `Calm`, `Rules`. `OneByOne`: a worker has one order at a time, and none of its connections waits for a reply before it has taken it. `Counters`: `close_conn_num` and the open connections make `conn_num`, and once a request is under way `complete_conn_num` counts the connections that are done. `Answers`: the answers counted and under way are the workers that are done, each once. `Unskipped`: without a skip a connection that is done has made all its requests. |
| `AnswersKept` | `Spec => [](scene.closes # "always" => AnswersMatch)` | `Answers` and `Counters` |
| `StepsComplete` | `Spec /\ scene.closes # "always" => StepCompletes` | by `Answers` the last answer of a round means that all workers are done and nothing else is under way (`AllIdle`, `MainCases`) |
| `ReportsAreCounts` | `Spec /\ scene.closes # "always" => ReportsCount` | with `Reported`: the counters of the workers add up to what has been answered and closed; a worker resets its counter when it takes an order, and it is 0 until then, since main has reset it |
| `AverageKept` | `Spec => [](scene.closes # "always" => AverageOfRecent)` | with `Ring` (each slot holds the last second that came to it), `Averaged` (the sum is that of the latest seconds: what leaves the ring is the first of them) and `Seconded` (every reply is in one second) |

`Calm` is `EachConnects`, which the four properties assume, and `scene.closes # "always"`: the server closes a connection only
instead of answering it. Otherwise all four fail ([Environments](#environments)). Sums are a recursive function (`Total`); the
lemmas about it (`TotalAppend`, `TotalTail`, `TotalChange`) go through its partial sums.

Assumptions are those of the modules: `NULL` is no address, limits are natural numbers, sets of threads and of addresses are finite. `FramingAssumption`
adds that the length of a packet fits an `int`, as `plen` does; packets from 16 MB on are allowed, and `Fit` says
which are not refused. Facts about sequences, with two forms of induction that speak of sets and not of formulas, are in `SequenceFacts`.

`tlapm` 1.4.5 gives Z3, with every obligation that mentions `Len`, the axiom that `DOMAIN s = 1 .. n` and `Len(s) = n` are
equivalent for all `s`, sequences or not, from which too much follows. All modules have therefore also been checked with a solver that gets only
the direction that holds, from `DOMAIN` to `Len`; that `Len` is the end of a sequence's domain comes from `LenProperties` and its like.

Only model-checked: all liveness (it needs fairness and ENABLED, which the prover does not
do); `ObeysCommandLine` of `Options` and the three properties of `Serialize`, whose recursive operators are out of the prover's reach.

## What is left out

- Of `mod_my.c`: reading `rtcsp.ini`, the ping of each thread with its reconnection, and the macros around statements.
  They are calls into a library whose state no other thread shares; what is modelled is when a thread has its handle.
- Of the load generator: times, whether a reply is the one expected (`ok_requests`), the start and stop of its one
  module, and the list of steps to choose from when it is built without `HAVE_SKIP_BENCH`.
- The search of a receive hook by the key of a packet (`loop_event.c:177-208`): it only chooses among hooks, whose calls
  into the API are in `Server`.
- Receive hooks of the demo module: they build a reply and change nothing.
- `api.c`, `generator.php`, `generators`, the generated structs of `models` and the build files: no behaviour of
  their own while the program runs.
- Starvation of writers (`conn.c:33`), deadlock of two full pipes (`loop_event.c:85`), and the check of lengths that
  subtracts skipped bytes twice (`serialize.c:285`, part of `Parse`, but of no consequence for what `Fits`).

## Plan

Done, in this order: `ConnTable` and `RWLock` with their abstract specifications, since everything else stands on them;
`Server`; `Queue`; `Framing`; `Service`; `Bench`; `Serialize`; the proofs above.

Then the statistics of `Bench`, `Options` and its use by
`Service`, and the start and stop of modules in `Server` with `ModuleLife`.

The proofs of `Server`, `Queue`, `Framing`, `Bench` and of the orderly use of `Service` followed.

Next, modelling: numbers of several digits in `Serialize`; the conversion of numbers in `Options`; statements of the
demo module that fail, once it is decided what their failure should mean.
