-------------------------------- MODULE Bench --------------------------------
(***************************************************************************)
(* The load generator of bench_event.c.  The main thread takes its workers *)
(* through a list of requests (send_recv): on each, every connection of    *)
(* every worker sends bench_preconn_requests requests, one after the       *)
(* other's reply.  Main and workers talk in bytes over pipes:              *)
(*   "c"  connect; the worker answers "c"                                  *)
(*   "b"  begin the first send_recv, "n" the next; the worker answers "n"  *)
(*        when its connections are done                                    *)
(*   "N"  skip the rest of this send_recv                                  *)
(*   "-"  close the connections and end                                    *)
(* Each worker counts the replies it gets and the connections it loses,    *)
(* main adds them up when a send_recv is over, and every second it moves   *)
(* the replies of all workers since the last into a ring of seconds.       *)
(* Replies are not told apart into good and bad ones.                      *)
(***************************************************************************)
EXTENDS Integers, Sequences, FiniteSetsExt, SequencesExt

CONSTANTS
  NWorkers,      \* bench_nthreads
  NConns,        \* bench_prethread_conns
  NRequests,     \* bench_preconn_requests
  NSteps,        \* entries of the recvs of all modules
  AVG_SECONDS,
  Scenes         \* what user and server may do: see scene

ASSUME BenchAssumption ==
  /\ {NWorkers, NConns, NRequests, NSteps, AVG_SECONDS} \subseteq Nat \ {0}
  /\ \A s \in Scenes :
       /\ s.skips \in BOOLEAN /\ s.signals \in BOOLEAN
       /\ s.closes \in {"never", "busy", "always"}
       /\ s.made \subseteq 0 .. NConns /\ s.seconds \in Nat

VARIABLES
  send_recv,   \* position in the list; 0 before the first, NSteps + 1 for NULL
  cthreads,    \* workers that have answered
  stdin,       \* the event of stdin is bound
  inbox,       \* bytes in the pipe of the main thread
  pipe,        \* bytes in the pipe of each worker
  conn_num, complete_conn_num, close_conn_num,   \* of each worker
  conns,       \* connections that are open
  out,         \* requests of each connection that are not answered
  requests,    \* the field requests of each connection
  is_skip,     \* connections whose field is_skip is true
  thread_requests, preclose_conn_num,   \* of each worker: replies in this
               \* send_recv, and close_conn_num when it began
  report,      \* requests and cause_close_conn_num of each entry of the list
  main_requests,          \* replies in the current second
  second_requests, current_request_index,   \* the ring of seconds
  sum_requests, min_requests, max_requests,
  average,     \* the average that was printed, as sum and count
  answered, closed,       \* history: replies, and connections the server has
               \* closed, since the send_recv began
  seconds,     \* history: the replies of each of its seconds
  phase,       \* of the main thread: run, exit (waits for workers), done
  exited,      \* workers that have left their loop
  scene        \* what user and server do in this behaviour, never changed:
               \*   skips    built with HAVE_SKIP_BENCH, the user may skip
               \*   signals  SIGINT may arrive
               \*   closes   when the server closes connections: never, busy
               \*            (instead of answering), always
               \*   made     how many connections a worker may get
               \*   seconds  bound on the seconds of a send_recv

mainVars == <<send_recv, cthreads, stdin, phase, scene>>
reportVars == <<thread_requests, preclose_conn_num, report, answered, closed>>
secondVars == <<main_requests, second_requests, current_request_index, sum_requests,
                min_requests, max_requests, average, seconds>>
pipeVars == <<inbox, pipe>>
countVars == <<conn_num, complete_conn_num, close_conn_num>>
connVars == <<conns, out, requests, is_skip>>

vars == <<mainVars, pipeVars, countVars, connVars, reportVars, secondVars, exited>>

Worker == 1 .. NWorkers
Connection == Worker \X (1 .. NConns)
Of(w) == {c \in conns : c[1] = w}

\* Stands for a number no second reaches.
UINT_MAX == 2 * NWorkers * NConns * NRequests + 1

Init ==
  /\ send_recv = 0 /\ cthreads = 0 /\ stdin = FALSE /\ phase = "run" /\ exited = {}
  /\ inbox = << >> /\ pipe = [w \in Worker |-> <<"c">>]
  /\ conn_num = [w \in Worker |-> 0]
  /\ complete_conn_num = conn_num /\ close_conn_num = conn_num
  /\ conns = {} /\ is_skip = {} /\ scene \in Scenes
  /\ thread_requests = conn_num /\ preclose_conn_num = conn_num
  /\ report = [n \in 1 .. NSteps |-> [requests |-> 0, closes |-> 0]]
  /\ answered = 0 /\ closed = 0
  /\ main_requests = 0 /\ seconds = << >> /\ average = [sum |-> 0, count |-> 1]
  /\ second_requests = [i \in 0 .. AVG_SECONDS - 1 |-> 0] /\ current_request_index = 0
  /\ sum_requests = 0 /\ min_requests = UINT_MAX /\ max_requests = 0
  /\ out = [c \in Connection |-> 0] /\ requests = out

\* The next byte of a worker's pipe is chr, and is taken.
Take(w, chr) ==
  /\ w \notin exited
  /\ pipe[w] # << >> /\ Head(pipe[w]) = chr
  /\ pipe' = [pipe EXCEPT ![w] = Tail(@)]

Tell(chr) == inbox' = Append(inbox, chr)

SendAll(cs) == out' = [c \in Connection |-> IF c \in cs THEN out[c] + 1 ELSE out[c]]
-----------------------------------------------------------------------------
(***************************************************************************)
(* A worker.                                                               *)
(***************************************************************************)

\* Any number of its connections are made.
Connect(w) ==
  /\ Take(w, "c") /\ Tell("c")
  /\ \E n \in scene.made :
       /\ conn_num' = [conn_num EXCEPT ![w] = n]
       /\ conns' = conns \cup {<<w, i>> : i \in 1 .. n}
  /\ UNCHANGED <<mainVars, complete_conn_num, close_conn_num, out, requests, is_skip,
                 reportVars, secondVars, exited>>

\* Faulty variant: the connections of the last send_recv still count.
RestartKeeps(w) == UNCHANGED complete_conn_num

Restart(w) == complete_conn_num' = [complete_conn_num EXCEPT ![w] = 0]

\* The worker begins a send_recv: each open connection sends its first
\* request.  Without an open connection the byte goes back as it came.
BeginRequests(w) ==
  /\ \E chr \in {"b", "n"} :
       /\ Take(w, chr)
       /\ IF close_conn_num[w] = conn_num[w]
            THEN Tell(chr) /\ UNCHANGED <<out, requests>>
            ELSE /\ SendAll(Of(w))
                 /\ requests' = [c \in Connection |-> IF c \in Of(w) THEN 0 ELSE requests[c]]
                 /\ UNCHANGED inbox
  /\ Restart(w)
  /\ thread_requests' = [thread_requests EXCEPT ![w] = 0]
  /\ UNCHANGED <<mainVars, conn_num, close_conn_num, conns, is_skip,
                 preclose_conn_num, report, answered, closed, secondVars, exited>>

Skip(w) ==
  /\ Take(w, "N")
  /\ is_skip' = is_skip \cup Of(w)
  /\ UNCHANGED <<mainVars, inbox, countVars, conns, out, requests, reportVars, secondVars, exited>>

BreakThread(w) ==
  /\ Take(w, "-")
  /\ conns' = conns \ Of(w) /\ exited' = exited \cup {w}
  /\ UNCHANGED <<mainVars, inbox, countVars, out, requests, is_skip, reportVars, secondVars>>

\* Faulty variant: closed connections are not counted as done.
DoneOpen(w) == complete_conn_num'[w] = conn_num[w]

Done(w) == close_conn_num'[w] + complete_conn_num'[w] = conn_num[w]

TellIfDone(w) == IF Done(w) THEN Tell("n") ELSE UNCHANGED inbox

\* read_handler: a reply, after which the connection sends its next request or
\* is complete.  The reply is compared with send_recv->key.
Reply(c) ==
  LET w == c[1] IN
  /\ w \notin exited /\ c \in conns /\ out[c] > 0
  /\ UNCHANGED <<mainVars, pipe, conn_num, close_conn_num, conns,
                 preclose_conn_num, report, closed, exited>>
  /\ UNCHANGED <<second_requests, current_request_index, sum_requests, min_requests,
                 max_requests, average, seconds>>
  /\ main_requests' = main_requests + 1 /\ answered' = answered + 1
  /\ thread_requests' = [thread_requests EXCEPT ![w] = @ + 1]
  /\ requests' = [requests EXCEPT ![c] = @ + 1]
  /\ IF requests'[c] < NRequests /\ c \notin is_skip
       THEN UNCHANGED <<out, is_skip, complete_conn_num, inbox>>
       ELSE /\ out' = [out EXCEPT ![c] = @ - 1]
            /\ is_skip' = is_skip \ {c}
            /\ complete_conn_num' = [complete_conn_num EXCEPT ![w] = @ + 1]
            /\ TellIfDone(w)

\* read_handler: the server has closed the connection.
Closed(c) ==
  LET w == c[1] IN
  /\ w \notin exited /\ c \in conns
  /\ scene.closes = "always" \/ (scene.closes = "busy" /\ out[c] > 0)
  /\ conns' = conns \ {c} /\ out' = [out EXCEPT ![c] = 0] /\ is_skip' = is_skip \ {c}
  /\ close_conn_num' = [close_conn_num EXCEPT ![w] = @ + 1]
  /\ closed' = closed + 1
  /\ UNCHANGED <<mainVars, pipe, conn_num, complete_conn_num, requests,
                 thread_requests, preclose_conn_num, report, answered, secondVars, exited>>
  /\ TellIfDone(w)
-----------------------------------------------------------------------------
(***************************************************************************)
(* The main thread.                                                        *)
(***************************************************************************)

Write(chr) == pipe' = [w \in Worker |-> Append(pipe[w], chr)]

\* The sum of a sequence of numbers.
Total(s) ==
  LET sum[i \in 0 .. Len(s)] == IF i = 0 THEN 0 ELSE sum[i - 1] + s[i] IN sum[Len(s)]

\* send_recv_call: the counts of the workers become the report of send_recv, and
\* the seconds start anew.
SendRecvCall ==
  /\ report' = [report EXCEPT ![send_recv] =
       [requests |-> Total(thread_requests),
        closes |-> Total([w \in Worker |-> close_conn_num[w] - preclose_conn_num[w]])]]
  /\ main_requests' = 0
  /\ sum_requests' = 0 /\ min_requests' = UINT_MAX /\ max_requests' = 0
  /\ second_requests' = [i \in 0 .. AVG_SECONDS - 1 |-> 0] /\ current_request_index' = 0
  /\ seconds' = << >> /\ UNCHANGED average

\* Faulty variant: a send_recv is charged with the connections that were lost
\* before it, too.
CloseKeeps == UNCHANGED preclose_conn_num

CloseStarts == preclose_conn_num' = close_conn_num

\* The send_recv at n begins; stdin is watched (again).
StartRequests(n, chr) ==
  /\ send_recv' = n /\ Write(chr) /\ stdin' = scene.skips
  /\ CloseStarts
  /\ thread_requests' = [w \in Worker |-> 0] /\ answered' = 0 /\ closed' = 0

KeepRequests ==
  UNCHANGED <<send_recv, pipe, stdin, preclose_conn_num, thread_requests, answered, closed>>

\* signal_handler; the main thread then waits for its workers.
Stop == Write("-") /\ phase' = "exit"

Interrupt ==
  /\ phase = "run" /\ scene.signals
  /\ Stop
  /\ UNCHANGED <<send_recv, cthreads, stdin, scene, inbox, countVars, connVars,
                 reportVars, secondVars, exited>>

\* Faulty variant: the count is not reset.
CountKeeps == cthreads' = cthreads + 1

\* Answers of all workers make one round.
Count == cthreads' = IF cthreads + 1 < NWorkers THEN cthreads + 1 ELSE 0

RoundOver == cthreads + 1 >= NWorkers

\* The next byte for the main thread is chr, and is taken.
Handle(chr) ==
  /\ phase = "run"
  /\ inbox # << >> /\ Head(inbox) = chr /\ inbox' = Tail(inbox)
  /\ UNCHANGED <<scene, countVars, connVars, exited>>

\* "c": when all have connected, it goes on as if "b" had come.
AllConnected ==
  /\ Handle("c") /\ Count
  /\ IF RoundOver THEN StartRequests(1, "b") ELSE KeepRequests
  /\ UNCHANGED <<phase, report, secondVars>>

\* "n": when all are done, the next send_recv, or the end.
ThreadComplete ==
  /\ Handle("n") /\ Count
  /\ IF RoundOver THEN SendRecvCall ELSE UNCHANGED <<report, secondVars>>
  /\ \/ ~RoundOver /\ KeepRequests /\ UNCHANGED phase
     \/ RoundOver /\ send_recv < NSteps /\ StartRequests(send_recv + 1, "n") /\ UNCHANGED phase
     \/ /\ RoundOver /\ send_recv >= NSteps
        /\ Stop /\ send_recv' = NSteps + 1
        /\ UNCHANGED <<stdin, preclose_conn_num, thread_requests, answered, closed>>

\* Nothing but the byte being handled is on its way between the threads or to
\* the server, and the second is not too full.
Quiet ==
  /\ Len(inbox) = 1
  /\ \A w \in Worker : pipe[w] = << >>
  /\ \A c \in Connection : out[c] = 0
  /\ main_requests < NWorkers * NConns * NRequests

\* "b": the send_recv begins, again if it had begun.  Quiet is a bound of the
\* model: connections that begin again at any time wait for more and more
\* replies, and two workers that answer "b" double the bytes.
BeginAgain ==
  /\ Handle("b") /\ Quiet
  /\ StartRequests(IF send_recv = 0 THEN 1 ELSE send_recv, "b")
  /\ UNCHANGED <<cthreads, phase, report, secondVars>>

\* stdin_handler: stdin can be read.  Only a line, not its end, skips.
SkipStep ==
  /\ phase = "run" /\ stdin
  /\ stdin' = FALSE /\ (Write("N") \/ UNCHANGED pipe)
  /\ UNCHANGED <<send_recv, cthreads, phase, scene, inbox, countVars, connVars,
                 reportVars, secondVars, exited>>

\* Seconds in the average: all of the ring once the slot has been used.
SecondsCounted ==
  IF second_requests[current_request_index] # 0 THEN AVG_SECONDS ELSE current_request_index + 1

\* Faulty variant: the second that leaves the ring stays in the sum.
SumGrows == sum_requests + main_requests

NewSum == sum_requests - second_requests[current_request_index] + main_requests

\* timeout_req_handler: a second is over.
Second ==
  /\ phase = "run" /\ send_recv # 0 /\ Len(seconds) < scene.seconds
  /\ main_requests' = 0 /\ seconds' = Append(seconds, main_requests)
  /\ sum_requests' = NewSum
  /\ min_requests' = Min({min_requests, main_requests})
  /\ max_requests' = Max({max_requests, main_requests})
  /\ average' = [sum |-> sum_requests', count |-> SecondsCounted]
  /\ second_requests' = [second_requests EXCEPT ![current_request_index] = main_requests]
  /\ current_request_index' = (current_request_index + 1) % AVG_SECONDS
  /\ UNCHANGED <<mainVars, pipeVars, countVars, connVars, reportVars, exited>>

\* The rest of signal_handler: a send_recv that was interrupted is reported too.
Finish ==
  /\ phase = "exit" /\ exited = Worker
  /\ phase' = "done"
  /\ IF send_recv \in 1 .. NSteps THEN SendRecvCall ELSE UNCHANGED <<report, secondVars>>
  /\ UNCHANGED <<send_recv, cthreads, stdin, scene, pipeVars, countVars, connVars, exited>>
  /\ UNCHANGED <<thread_requests, preclose_conn_num, answered, closed>>
-----------------------------------------------------------------------------
WorkerStep(w) == Connect(w) \/ BeginRequests(w) \/ Skip(w) \/ BreakThread(w)

MainStep == AllConnected \/ ThreadComplete \/ BeginAgain \/ Finish

Next ==
  \/ \E w \in Worker : WorkerStep(w)
  \/ \E c \in Connection : Reply(c) \/ Closed(c)
  \/ MainStep \/ Interrupt \/ SkipStep \/ Second

Spec == Init /\ [][Next]_vars

\* Every thread goes on handling its events, and the server answers.
FairSpec ==
  /\ Spec /\ WF_vars(MainStep)
  /\ \A w \in Worker : WF_vars(WorkerStep(w))
  /\ \A c \in Connection : WF_vars(Reply(c))
-----------------------------------------------------------------------------
(***************************************************************************)
(* Properties.                                                             *)
(***************************************************************************)

\* A worker none of whose connections could be made.  It answers "b" with
\* "b", which main takes for an order to begin again.
Unconnected(w) == conn_num[w] = 0 /\ (w \in exited \/ "c" \notin {pipe[w][i] : i \in 1 .. Len(pipe[w])})

EachConnects == \A w \in Worker : ~Unconnected(w)

\* A worker has begun the send_recv that main is at.
Begun(w) == \A i \in 1 .. Len(pipe[w]) : pipe[w][i] \notin {"c", "b", "n"}

\* A worker has nothing left to do on it.
Idle(w) == Begun(w) /\ \A c \in Of(w) : out[c] = 0

\* The answers main has counted and those on their way are the workers that
\* are done, each once: a lost one would stall the run, a second one would end
\* a send_recv too early.  A connection has at most one request under way and
\* sends no more than it should.
AnswersMatch ==
  EachConnects =>
    /\ phase = "run" => cthreads + Len(inbox) = Cardinality({w \in Worker : Idle(w)})
    /\ \A c \in Connection : out[c] <= 1 /\ requests[c] <= NRequests

\* Main goes on to the next send_recv only when no connection waits for a
\* reply, so that no reply is compared with, or counted for, another one, and
\* each open connection has made all of its requests.
StepCompletes ==
  [][EachConnects /\ send_recv # 0 /\ send_recv' # send_recv =>
       \A c \in conns : out[c] = 0 /\ (requests[c] = NRequests \/ scene.skips)]_vars

\* What main reports of a send_recv, when it goes on to the next one or ends, is
\* each reply and each lost connection since it began, each once, although the
\* workers count on without a lock, and the counters are reset at three places
\* by two threads.
ReportsCount ==
  [][EachConnects /\ report' # report =>
       report'[send_recv] = [requests |-> answered, closes |-> closed]]_vars

\* The seconds of the ring.
Recent == SubSeq(seconds, Max({1, Len(seconds) - AVG_SECONDS + 1}), Len(seconds))

\* Every reply is counted in one second.  The sum is that of the last
\* AVG_SECONDS seconds (bench_event.h:38), minimum and maximum are those of all,
\* and the average is the quotient of that sum by the number of its seconds, if
\* each of them had a reply.
AverageOfRecent ==
  EachConnects =>
    /\ Total(seconds) + main_requests = answered \/ phase = "done" \/ send_recv = NSteps + 1
    /\ sum_requests = Total(Recent)
    /\ min_requests = Min(ToSet(seconds) \cup {UINT_MAX}) /\ max_requests = Max(ToSet(seconds) \cup {0})
    /\ seconds # << >> /\ 0 \notin ToSet(seconds) =>
         average = [sum |-> sum_requests, count |-> Len(Recent)]

\* The load generator comes to its end, whatever connections the server closes
\* and whichever could not be made, if each worker has one to begin with.
Ends == EachConnects ~> phase = "done" \/ ~EachConnects
===============================================================================
