------------------------------- MODULE Service -------------------------------
(***************************************************************************)
(* The service control of rtcspd -s start|stop|restart|status: commands    *)
(* that run as processes of their own, what they read from their command   *)
(* line (module Options), the server processes they fork, the file that    *)
(* names the server, and the listening socket, which a command and the     *)
(* server it forks hold together.  SIGCHLD is ignored, so a dead server    *)
(* leaves no zombie; a process id is not used again.  Commands that name   *)
(* different files or ports are not of one service.                        *)
(***************************************************************************)
EXTENDS Options

CONSTANTS
  Cmd,         \* command processes
  Pid,         \* server processes; bound on the number of starts
  Lines,       \* command lines that may be given besides the plain ones, in a row
  Scenes       \* how the service may be used: see scene

ASSUME ServiceAssumption ==
  /\ NULL \notin Cmd \cup Pid /\ NULL # "empty" /\ "empty" \notin Pid
  /\ Cmd \cap Pid = {}
  /\ Len(Lines) \in Nat
  /\ Scenes \subseteq [orderly : BOOLEAN, crashes : BOOLEAN, stray : BOOLEAN, stuck : BOOLEAN]

VARIABLES
  pidfile,   \* NULL (no file), "empty", or the process id in it
  opened,    \* starters whose open file is the one of that name
  holders,   \* processes that hold the listening socket open
  state,     \* of each server process
  pc, op,    \* where each command is, and what it was asked for
  child,     \* the server that server_start forked
  pid,       \* the local pid of server_stop
  line,      \* the place of the command line that was given last, or 0
  last,      \* the command that was given last, or "nothing"
  unnamed,   \* servers whose starter could not open or write the file
  failed,    \* what has failed, calls or servers, since a command met no other
  scene      \* the use of the service in this behaviour, never changed:
             \*   orderly  commands run one after the other, but that starts
             \*            may meet starts; a server calls setsid within the
             \*            second that its starter sleeps, and ends within the
             \*            time that server_stop waits
             \*   crashes  servers may die by themselves
             \*   stray    a variable that is not set may hold the number of a server
             \*   stuck    a file that can be written may not be removable

given == <<line, last, scene>>
history == <<unnamed, failed>>
vars == <<pidfile, opened, holders, state, pc, op, child, pid, given, history>>

Init ==
  /\ pidfile = NULL /\ opened = {} /\ holders = {}
  /\ state = [p \in Pid |-> "none"]
  /\ pc = [c \in Cmd |-> "idle"] /\ op = [c \in Cmd |-> "stop"]
  /\ child = [c \in Cmd |-> NULL] /\ pid = [c \in Cmd |-> NULL]
  /\ line = 0 /\ last = "nothing" /\ unnamed = {} /\ failed = {}
  /\ scene \in Scenes

AllIdle == \A c \in Cmd : pc[c] = "idle"
Fresh == {p \in Pid : state[p] = "none"}
\* Servers that nobody has told to stop, and servers that exist.
Running == {p \in Pid : state[p] \in {"forked", "leader", "serving"}}
Alive == Running \cup {p \in Pid : state[p] \in {"stopping", "killed"}}

\* What failed, of orderly uses only; no action reads it.
Failing(what) == failed' = IF scene.orderly THEN failed \cup {what} ELSE failed
LeavesUnnamed(p) == unnamed' = IF scene.orderly THEN unnamed \cup {p} ELSE unnamed

Goto(c, from, to) == pc[c] = from /\ pc' = [pc EXCEPT ![c] = to]

\* The command ends and lets go of everything.
End(c, from) ==
  /\ Goto(c, from, "idle")
  /\ child' = [child EXCEPT ![c] = NULL] /\ pid' = [pid EXCEPT ![c] = NULL]
  /\ opened' = opened \ {c} /\ op' = [op EXCEPT ![c] = "stop"]
  /\ UNCHANGED <<given, unnamed>>

\* The plain lines, -s and the operation, and then the others.
Plain == 1 .. 4
AllLines ==
  [n \in 1 .. 4 + Len(Lines) |->
     IF n \in Plain THEN <<Flags(<<"s">>, NULL), Word(<<"start", "stop", "restart", "status">>[n])>>
     ELSE Lines[n - 4]]

\* What the main function of rtcspd does with each line.
Asks == [n \in DOMAIN AllLines |-> ServiceOption(AllLines[n])]

\* Bound of the model: other lines are given as the first of an orderly use.
MayBeGiven == IF scene.orderly /\ line = 0 THEN DOMAIN AllLines ELSE Plain

MayBegin(o) ==
  scene.orderly => \A d \in Cmd : pc[d] # "idle" => o = "start" /\ op[d] = "start"

\* main reads a line that asks for no operation.
Decline(n) ==
  /\ scene.orderly => AllIdle
  /\ Asks[n] = "nothing"
  /\ line' = n /\ last' = "nothing"
  /\ UNCHANGED <<pidfile, opened, holders, state, pc, op, child, pid, scene, history>>

\* main; status calls server_stop like stop.
Begin(c, n, o) ==
  /\ pc[c] = "idle" /\ MayBegin(o)
  /\ Asks[n] = o
  /\ line' = n
  /\ o \in {"start", "restart"} => Cardinality(Fresh) > Cardinality({d \in Cmd : pc[d] # "idle"})
  /\ Goto(c, "idle", IF o = "start" THEN "listen" ELSE "read")
  /\ op' = [op EXCEPT ![c] = o] /\ last' = o
  /\ failed' = IF AllIdle THEN {} ELSE failed
  /\ UNCHANGED <<pidfile, opened, holders, state, child, pid, scene, unnamed>>
-----------------------------------------------------------------------------
(***************************************************************************)
(* server_start.                                                           *)
(***************************************************************************)

\* Faulty variant: the results of bind and listen are not looked at.
MayListenAlways == TRUE

\* Two sockets may be bound to the port, but only one listens.
MayListen == holders = {}

Listen(c) ==
  /\ MayListen
  /\ Goto(c, "listen", "fork")
  /\ holders' = holders \cup {c}
  /\ UNCHANGED <<pidfile, opened, state, op, child, pid, given, history>>

\* socket, bind or listen may fail for other reasons, too: an address that is
\* not of this machine, a port that takes a privilege.
ListenFails(c) ==
  /\ End(c, "listen")
  /\ IF MayListen THEN Failing("listen") ELSE UNCHANGED failed
  /\ UNCHANGED <<pidfile, holders, state>>

\* Faulty variant: the result of fork is lost.
ForkUnnamed(c) ==
  \E p \in Fresh :
    /\ Goto(c, "fork", "open")
    /\ state' = [state EXCEPT ![p] = "forked"]
    /\ holders' = holders \cup {p}
    /\ UNCHANGED <<pidfile, opened, op, child, pid, given, history>>

Fork(c) ==
  \E p \in Fresh :
    /\ Goto(c, "fork", "open")
    /\ state' = [state EXCEPT ![p] = "forked"]
    /\ holders' = holders \cup {p}
    /\ child' = [child EXCEPT ![c] = p]
    /\ UNCHANGED <<pidfile, opened, op, pid, given, history>>

ForkFails(c) ==
  /\ End(c, "fork") /\ Failing("fork")
  /\ holders' = holders \ {c}
  /\ UNCHANGED <<pidfile, state>>

\* fopen empties the file or makes it.
OpenPidfile(c) ==
  /\ Goto(c, "open", "write")
  /\ pidfile' = "empty" /\ opened' = opened \cup {c}
  /\ UNCHANGED <<holders, state, op, child, pid, given, history>>

\* fopen fails: the server runs on, and what the file was it stays.
OpenFails(c) ==
  /\ Goto(c, "open", "sleep")
  /\ LeavesUnnamed(child[c])
  /\ UNCHANGED <<pidfile, opened, holders, state, op, child, pid, given, failed>>

\* fprintf and fclose; a file unlinked in between keeps the number to itself.
WritePidfile(c) ==
  /\ Goto(c, "write", "sleep")
  /\ pidfile' = IF c \in opened THEN child[c] ELSE pidfile
  /\ opened' = opened \ {c}
  /\ UNCHANGED <<holders, state, op, child, pid, given, history>>

\* Nobody looks at their results: on a full disk the file stays empty.
WriteFails(c) ==
  /\ Goto(c, "write", "sleep")
  /\ opened' = opened \ {c}
  /\ LeavesUnnamed(child[c])
  /\ UNCHANGED <<pidfile, holders, state, op, child, pid, given, failed>>

\* The starter ends and closes its copy of the socket.
Wake(c) ==
  /\ End(c, "sleep") /\ UNCHANGED failed
  /\ scene.orderly => state[child[c]] # "forked"
  /\ holders' = holders \ {c}
  /\ UNCHANGED <<pidfile, state>>
-----------------------------------------------------------------------------
(***************************************************************************)
(* The server process.                                                     *)
(***************************************************************************)

Become(p, from, to) == state[p] = from /\ state' = [state EXCEPT ![p] = to]

Setsid(p) ==
  /\ Become(p, "forked", "leader")
  /\ UNCHANGED <<pidfile, opened, holders, pc, op, child, pid, given, history>>

\* loop_event has registered its handler of SIGINT.
Serve(p) ==
  /\ Become(p, "leader", "serving")
  /\ UNCHANGED <<pidfile, opened, holders, pc, op, child, pid, given, history>>

\* The end of loop_event: shutdown ends listening for everyone who holds the
\* socket.
Quit(p) ==
  /\ Become(p, "stopping", "dead")
  /\ holders' = {}
  /\ UNCHANGED <<pidfile, opened, pc, op, child, pid, given, history>>

\* SIGKILL takes effect.
Die(p) ==
  /\ Become(p, "killed", "dead")
  /\ holders' = holders \ {p}
  /\ UNCHANGED <<pidfile, opened, pc, op, child, pid, given, history>>

Crash(p) ==
  /\ scene.crashes /\ p \in Running
  /\ Become(p, state[p], "dead")
  /\ holders' = holders \ {p} /\ Failing("crash")
  /\ UNCHANGED <<pidfile, opened, pc, op, child, pid, given, unnamed>>
-----------------------------------------------------------------------------
(***************************************************************************)
(* server_stop.                                                            *)
(***************************************************************************)

\* Faulty variant: a restart whose stop ended is over.
AfterStopEnds(c, from) == End(c, from)

\* A restart goes on with server_start, whatever server_stop returned.
AfterStop(c, from) ==
  IF op[c] = "restart"
    THEN Goto(c, from, "listen") /\ UNCHANGED <<opened, op, child, pid, given, unnamed>>
    ELSE End(c, from)

\* fopen fails, since there is no file or for another reason.
NoPidfile(c) ==
  /\ AfterStop(c, "read")
  /\ IF pidfile # NULL THEN Failing("fopen") ELSE UNCHANGED failed
  /\ UNCHANGED <<pidfile, holders, state>>

\* fscanf leaves pid uninitialised when the file is empty: what was on the
\* stack may be the number of a server, or not (NULL).
Scan(file) ==
  IF file = "empty" THEN {NULL} \cup (IF scene.stray THEN Pid ELSE {}) ELSE {file}

ReadPidfile(c) ==
  /\ pidfile # NULL
  /\ Goto(c, "read", "unlink")
  /\ \E n \in Scan(pidfile) : pid' = [pid EXCEPT ![c] = n]
  /\ UNCHANGED <<pidfile, opened, holders, state, op, child, given, history>>

\* Faulty variant: the file stays.
RemoveNothing == UNCHANGED <<pidfile, opened>>

RemoveFile == pidfile' = NULL /\ opened' = {}

\* Nobody looks at the result of unlink.
Unlink(c) ==
  /\ Goto(c, "unlink", "kill")
  /\ \/ RemoveFile
     \/ scene.stuck /\ UNCHANGED <<pidfile, opened>>
  /\ UNCHANGED <<holders, state, op, child, pid, given, history>>

\* Faulty variant: a server that is already stopping is not waited for.
IsLeaderRunning(p) == p \in Pid /\ state[p] \in {"leader", "serving"}

\* getsid returns the process itself.
IsLeader(p) == p \in Pid /\ state[p] \in {"leader", "serving", "stopping", "killed"}

\* Before its handler is registered SIGINT ends a server at once.
Interrupt(p) ==
  /\ state' = [state EXCEPT ![p] = CASE @ = "leader" -> "dead"
                                     [] @ = "serving" -> "stopping"
                                     [] OTHER -> @]
  /\ holders' = IF state[p] = "leader" THEN holders \ {p} ELSE holders

Kill(c) ==
  /\ Goto(c, "kill", "wait")
  /\ IsLeader(pid[c])
  /\ Interrupt(pid[c])
  /\ UNCHANGED <<pidfile, opened, op, child, pid, given, history>>

\* No session leader has that number; the file is gone all the same.
NotLeader(c) ==
  /\ AfterStop(c, "kill")
  /\ ~IsLeader(pid[c])
  /\ UNCHANGED <<pidfile, holders, state, failed>>

Gone(c) ==
  /\ AfterStop(c, "wait")
  /\ ~IsLeader(pid[c])
  /\ UNCHANGED <<pidfile, holders, state, failed>>

\* The line is full of dots: SIGKILL, without waiting for it to take effect.
Timeout(c) ==
  /\ ~scene.orderly /\ pc[c] = "wait" /\ IsLeader(pid[c])
  /\ state' = [state EXCEPT ![pid[c]] = "killed"]
  /\ AfterStop(c, "wait")
  /\ UNCHANGED <<pidfile, holders, failed>>
-----------------------------------------------------------------------------
Command(c) ==
  \/ \E n \in MayBeGiven, o \in Ops : Begin(c, n, o)
  \/ Listen(c) \/ Fork(c) \/ OpenPidfile(c) \/ WritePidfile(c) \/ Wake(c)
  \/ ListenFails(c) \/ ForkFails(c) \/ OpenFails(c) \/ WriteFails(c)
  \/ NoPidfile(c) \/ ReadPidfile(c) \/ Unlink(c) \/ Kill(c) \/ NotLeader(c) \/ Gone(c) \/ Timeout(c)

Server(p) == Setsid(p) \/ Serve(p) \/ Quit(p) \/ Die(p) \/ Crash(p)

Next ==
  \/ \E c \in Cmd : Command(c)
  \/ \E p \in Pid : Server(p)
  \/ \E n \in MayBeGiven : Decline(n)

Spec == Init /\ [][Next]_vars
-----------------------------------------------------------------------------
(***************************************************************************)
(* Properties.                                                             *)
(***************************************************************************)

TypeOK ==
  /\ pidfile \in Pid \cup {NULL, "empty"} /\ opened \subseteq Cmd
  /\ holders \subseteq Cmd \cup Pid
  /\ state \in [Pid -> {"none", "forked", "leader", "serving", "stopping", "killed", "dead"}]
  /\ pc \in [Cmd -> {"idle", "listen", "fork", "open", "write", "sleep", "read", "unlink", "kill", "wait"}]
  /\ op \in [Cmd -> Ops]
  /\ child \in [Cmd -> Pid \cup {NULL}] /\ pid \in [Cmd -> Pid \cup {NULL}]
  /\ line \in 0 .. 4 + Len(Lines) /\ last \in Ops \cup {"nothing"}
  /\ unnamed \subseteq Pid /\ failed \subseteq {"listen", "fork", "fopen", "crash"}
  /\ \A c \in Cmd : pc[c] \in {"open", "write", "sleep"} => child[c] # NULL

\* What a command line that has been read is meant to do: the operation, and
\* the value of each option, in rtcspd and in rtcspb.
AsMeant(argv, did) ==
  LET serv_opt == Meant(argv, OPTIONS, "s")
      understood == argv # << >> /\ Understood(argv, OPTIONS) IN
  /\ did = IF understood /\ serv_opt \in Ops THEN serv_opt ELSE "nothing"
  /\ understood => RtCSPValues(argv) = Reading(argv, OPTIONS)
  /\ BenchGoes(argv) = Understood(argv, BENCH_OPTIONS)
  /\ BenchGoes(argv) => BenchValues(argv) = Reading(argv, BENCH_OPTIONS)

\* A command does what its line is meant to say, wherever the options stand and
\* however their values are attached: getopt keeps its place among arguments
\* and flags over all of its calls.  Lines with -H are excepted: it overwrites
\* the arguments before main has looked at the operation.
ObeysCommandLine ==
  [][line' # line /\ ~Hides(AllLines[line']) => AsMeant(AllLines[line'], last')]_vars

\* However commands overlap, at most one server runs that was not told to
\* stop: the listening socket is what keeps a second one out.
OneServer == \A p, q \in Running : p = q

\* However commands overlap, and whether or not the file can be opened and
\* written, it never names a server that server_stop has ended: it is unlinked
\* before the signal is sent.  A stop that reads an empty file and takes the
\* number of a server from its stack may break it, and an unlink that fails.
FileNamesLiving ==
  ~scene.crashes /\ ~scene.stray /\ ~scene.stuck /\ pidfile \in Pid =>
    state[pidfile] \notin {"killed", "dead"}

\* No command is under way, and none has met one that it must not meet or a
\* server that was late.
Settled == scene.orderly /\ AllIdle

\* Between commands a server that runs is the one the file names, so that a
\* later stop finds it: after any number of starts at once, of which all but
\* one leave the file alone, after servers that crashed, and after commands
\* that failed half-way.  Only a starter that could not open or write the file
\* leaves a server without a name.
Named == Settled => \A p \in Running \ unnamed : pidfile = p

\* A stop that could open the file has waited until the server is gone, unless
\* it is one whose number never came into the file.
StopStops == Settled /\ last = "stop" /\ "fopen" \notin failed => Alive \subseteq unnamed

\* After starts or a restart that could listen and fork a server runs, the new
\* one or the one before it, whatever became of the file.
LeavesRunning ==
  Settled /\ last \in {"start", "restart"} /\ failed \subseteq {"fopen"} => Running # {}

\* "status  service status" changes nothing of the service.
StatusHarmless ==
  [][\A c \in Cmd : op[c] = "status" /\ pc[c] # "idle" /\ pc'[c] # pc[c] =>
       UNCHANGED <<pidfile, state, holders>>]_vars
===============================================================================
