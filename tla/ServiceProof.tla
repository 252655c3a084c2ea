---------------------------- MODULE ServiceProof ----------------------------
(***************************************************************************)
(* What holds of the service control, for any number of commands and of    *)
(* servers, of which calls may fail and servers may crash.  However        *)
(* commands overlap, at most one server runs, and the pidfile never names  *)
(* one that server_stop has ended.  When they run one after the other, or  *)
(* are starts, the file names the server that runs, unless its own starter *)
(* could not write it; a stop that can open the file ends what it names,   *)
(* and a start or a restart that can listen and fork leaves a server.      *)
(***************************************************************************)
EXTENDS Service, TLAPS

Starters == {c \in Cmd : pc[c] \in {"open", "write"}}

\* The socket is held by every server that exists, by a command that is about
\* to fork one, and then by nobody else.
Holding ==
  /\ Alive \subseteq holders
  /\ \A p, q \in Alive : p = q
  /\ \A c \in Cmd : pc[c] = "fork" => holders = {c}

\* A server whose starter has not yet written the file is known to nobody.
Unwritten ==
  /\ \A c \in Starters : child[c] \in Running /\ pidfile # child[c]
  /\ \A c, d \in Starters : child[c] = child[d] => c = d
  /\ \A c \in Starters, d \in Cmd :
       pc[d] \in {"unlink", "kill", "wait"} => pid[d] # child[c]

\* What the file names was not told to stop, and will not be until it is
\* unlinked.
NamedRuns ==
  /\ pidfile \in Pid => pidfile \in Running
  /\ \A d \in Cmd : pc[d] \in {"kill", "wait"} /\ pid[d] \in Pid => pidfile # pid[d]
  /\ \A d \in Cmd : pc[d] \in {"unlink", "kill", "wait"} /\ pid[d] \in Pid => state[pid[d]] # "none"

\* No two commands are under way but starts, of which one has the socket.
OneAtATime ==
  /\ \A c, d \in Cmd : pc[c] # "idle" /\ pc[d] # "idle" => c = d \/ (op[c] = "start" /\ op[d] = "start")
  /\ \A c \in Cmd : pc[c] \in {"fork", "open", "write", "sleep"} => c \in holders
  /\ holders \cap Cmd # {} => \E c \in Cmd : holders \cap Cmd = {c}

\* The places of server_start, and those of server_stop that may end a server.
Starting == {"open", "write", "sleep"}
Stopping == {"kill", "wait"}
Calm == {"idle", "listen", "read", "unlink"}

\* Between the changes the only server is the one that the file names, or one
\* without a name, and SIGINT can reach it.
CalmFacts ==
  (\A c \in Cmd : pc[c] \in Calm) =>
    /\ holders \subseteq Alive
    /\ \A p \in Alive : state[p] \in {"leader", "serving"} /\ (pidfile = p \/ p \in unnamed)

\* What is left when the commands are over, unless a call or a server failed.
Outcome ==
  AllIdle => /\ last = "stop" /\ "fopen" \notin failed => Alive \subseteq unnamed
             /\ last \in {"start", "restart"} /\ failed \subseteq {"fopen"} => Alive # {}

\* What a command knows, at each of its places.
CommandFacts(c) ==
  /\ pc[c] # "idle" => last = op[c]
  /\ pc[c] \in Starting \cup {"listen", "fork"} => op[c] \in {"start", "restart"}
  /\ pc[c] \in Stopping \cup {"read", "unlink"} => op[c] # "start"
  /\ pc[c] = "fork" => Alive = {}
  /\ pc[c] \in Starting =>
       /\ holders \subseteq Alive \cup {c} /\ Alive \subseteq {child[c]}
       /\ state[child[c]] \in {"forked", "leader", "serving", "dead"}
       /\ Alive = {} => "crash" \in failed
  /\ pc[c] = "write" => pidfile = "empty"
  /\ pc[c] = "sleep" => pidfile = child[c] \/ child[c] \in unnamed
  /\ pc[c] = "unlink" => \A p \in Alive : pid[c] = p \/ p \in unnamed
  /\ pc[c] \in Stopping =>
       /\ holders \subseteq Alive
       /\ \A p \in Alive :
            /\ pid[c] = p \/ p \in unnamed
            /\ state[p] \in IF pc[c] = "wait" /\ pid[c] = p THEN {"stopping"} ELSE {"leader", "serving"}

\* The use of the service by commands that run one after the other, or are starts.
OneByOne ==
  /\ OneAtATime /\ CalmFacts /\ Outcome
  /\ opened = {c \in Cmd : pc[c] = "write"}
  /\ \A c \in Cmd : CommandFacts(c)

-----------------------------------------------------------------------------
\* No step changes the scene.
LEMMA SceneStep == [Next]_vars => scene' = scene
BY DEF Next, Command, Server, Decline, Begin, Listen, ListenFails, Fork, ForkFails, OpenPidfile,
       OpenFails, WritePidfile, WriteFails, Wake, NoPidfile, ReadPidfile, Unlink, Kill, NotLeader,
       Gone, Timeout, AfterStop, End, Setsid, Serve, Quit, Die, Crash, given, history, vars

\* Every step keeps the types.
LEMMA TypeStep == TypeOK /\ [Next]_vars => TypeOK'
<1> USE ServiceAssumption DEF TypeOK, Goto, given, history
<1> SUFFICES ASSUME TypeOK, [Next]_vars PROVE TypeOK'
  OBVIOUS
<1>1. TypeOK'
  <2>1. ASSUME NEW c \in Cmd, NEW n \in MayBeGiven, NEW o \in Ops, Begin(c, n, o) PROVE TypeOK'
    <3>1. n \in 0 .. 4 + Len(Lines)
      BY DEF MayBeGiven, AllLines, Plain
    <3>2. failed' \subseteq {"listen", "fork", "fopen", "crash"}
      BY <2>1 DEF Begin
    <3> QED
      BY <2>1, <3>1, <3>2 DEF Begin, Ops
  <2>2. ASSUME NEW c \in Cmd, Listen(c) PROVE TypeOK'
    BY <2>2 DEF Listen, MayListen, Ops
  <2>3. ASSUME NEW c \in Cmd, Fork(c) PROVE TypeOK'
    BY <2>3 DEF Fork, Fresh, Ops
  <2>4. ASSUME NEW c \in Cmd, OpenPidfile(c) PROVE TypeOK'
    BY <2>4 DEF OpenPidfile, Ops
  <2>5. ASSUME NEW c \in Cmd, WritePidfile(c) PROVE TypeOK'
    BY <2>5 DEF WritePidfile, Ops
  <2>6. ASSUME NEW c \in Cmd, Wake(c) PROVE TypeOK'
    BY <2>6 DEF Wake, End, Ops
  <2>7. ASSUME NEW c \in Cmd, NoPidfile(c) PROVE TypeOK'
    <3>1. failed' \subseteq {"listen", "fork", "fopen", "crash"}
      BY <2>7 DEF NoPidfile, Failing
    <3> QED
      BY <2>7, <3>1 DEF NoPidfile, AfterStop, End, Ops
  <2>8. ASSUME NEW c \in Cmd, ReadPidfile(c) PROVE TypeOK'
    BY <2>8 DEF ReadPidfile, Scan, Ops
  <2>9. ASSUME NEW c \in Cmd, Unlink(c) PROVE TypeOK'
    BY <2>9 DEF Unlink, RemoveFile, Ops
  <2>10. ASSUME NEW c \in Cmd, Kill(c) PROVE TypeOK'
    BY <2>10 DEF Kill, Interrupt, IsLeader, Ops
  <2>11. ASSUME NEW c \in Cmd, NotLeader(c) PROVE TypeOK'
    BY <2>11 DEF NotLeader, AfterStop, End, Ops
  <2>12. ASSUME NEW c \in Cmd, Gone(c) PROVE TypeOK'
    BY <2>12 DEF Gone, AfterStop, End, Ops
  <2>13. ASSUME NEW c \in Cmd, Timeout(c) PROVE TypeOK'
    BY <2>13 DEF Timeout, AfterStop, End, IsLeader, Ops
  <2>14. ASSUME NEW p \in Pid, Setsid(p) PROVE TypeOK'
    BY <2>14 DEF Setsid, Become, Ops
  <2>15. ASSUME NEW p \in Pid, Serve(p) PROVE TypeOK'
    BY <2>15 DEF Serve, Become, Ops
  <2>16. ASSUME NEW p \in Pid, Quit(p) PROVE TypeOK'
    BY <2>16 DEF Quit, Become, Ops
  <2>17. ASSUME NEW p \in Pid, Die(p) PROVE TypeOK'
    BY <2>17 DEF Die, Become, Ops
  <2>18. ASSUME NEW p \in Pid, Crash(p) PROVE TypeOK'
    BY <2>18 DEF Crash, Failing, Become, Running, Ops
  <2>19. CASE UNCHANGED vars
    BY <2>19 DEF vars, Ops
  <2>20. ASSUME NEW n \in MayBeGiven, Decline(n) PROVE TypeOK'
    BY <2>20 DEF Decline, MayBeGiven, AllLines, Plain, Ops
  <2>23. ASSUME NEW c \in Cmd, ListenFails(c) PROVE TypeOK'
    BY <2>23 DEF ListenFails, Failing, MayListen, End, Ops
  <2>24. ASSUME NEW c \in Cmd, ForkFails(c) PROVE TypeOK'
    BY <2>24 DEF ForkFails, Failing, End, Ops
  <2>25. ASSUME NEW c \in Cmd, OpenFails(c) PROVE TypeOK'
    BY <2>25 DEF OpenFails, LeavesUnnamed, Ops
  <2>26. ASSUME NEW c \in Cmd, WriteFails(c) PROVE TypeOK'
    BY <2>26 DEF WriteFails, LeavesUnnamed, Ops
  <2> HIDE DEF TypeOK, Goto, given, history
  <2>21. ASSUME NEW c \in Cmd, Command(c) PROVE TypeOK'
    BY <2>1, <2>2, <2>3, <2>4, <2>5, <2>6, <2>7, <2>8, <2>9, <2>10, <2>11, <2>12, <2>13, <2>21, <2>23, <2>24,
     <2>25, <2>26, Zenon DEF Command
  <2>22. ASSUME NEW p \in Pid, Server(p) PROVE TypeOK'
    BY <2>14, <2>15, <2>16, <2>17, <2>18, <2>22, Zenon DEF Server
  <2> QED
    BY <2>19, <2>20, <2>21, <2>22 DEF Next
<1>2. QED
  BY <1>1

\* Every step keeps the socket with the server that exists: bind or listen
\* fails while anybody holds it.
LEMMA HoldingStep == TypeOK /\ Holding /\ [Next]_vars => Holding'
<1> USE ServiceAssumption DEF TypeOK, Goto, given, history, Holding
<1> SUFFICES ASSUME TypeOK, Holding, [Next]_vars PROVE Holding'
  OBVIOUS
<1>1. Holding'
  <2>1. ASSUME NEW c \in Cmd, NEW n \in MayBeGiven, NEW o \in Ops, Begin(c, n, o) PROVE Holding'
    BY <2>1 DEF Begin, MayBegin, Ops, Alive, Running
  <2>2. ASSUME NEW c \in Cmd, Listen(c) PROVE Holding'
    <3>1. Alive' = Alive
      BY <2>2 DEF Listen, Alive, Running
    <3> QED
      BY <2>2, <3>1 DEF Listen, MayListen
  <2>3. ASSUME NEW c \in Cmd, Fork(c) PROVE Holding'
    <3>1. PICK p \in Fresh : state' = [state EXCEPT ![p] = "forked"] /\ holders' = holders \cup {p}
                              /\ Goto(c, "fork", "open")
      BY <2>3 DEF Fork
    <3>2. Alive' = Alive \cup {p}
      BY <3>1 DEF Fresh, Alive, Running
    <3>3. holders = {c} /\ Alive = {}
      <4>1. holders = {c} /\ Alive \subseteq Pid
        BY <3>1 DEF Alive, Running
      <4> QED
        BY <4>1
    <3>4. \A d \in Cmd : pc'[d] # "fork"
      <4>1. \A d \in Cmd \ {c} : pc[d] # "fork" /\ pc'[d] = pc[d]
        BY <3>1, <3>3
      <4>2. pc'[c] = "open"
        BY <3>1
      <4> QED
        BY <4>1, <4>2
    <3> HIDE DEF TypeOK, Goto, given, history
    <3> QED
      BY <3>1, <3>2, <3>3, <3>4
  <2>4. ASSUME NEW c \in Cmd, OpenPidfile(c) PROVE Holding'
    BY <2>4 DEF OpenPidfile, Alive, Running
  <2>5. ASSUME NEW c \in Cmd, WritePidfile(c) PROVE Holding'
    BY <2>5 DEF WritePidfile, Alive, Running
  <2>6. ASSUME NEW c \in Cmd, Wake(c) PROVE Holding'
    BY <2>6 DEF Wake, End, Alive, Running
  <2>7. ASSUME NEW c \in Cmd, NoPidfile(c) PROVE Holding'
    BY <2>7 DEF NoPidfile, Failing, AfterStop, End, Alive, Running
  <2>8. ASSUME NEW c \in Cmd, ReadPidfile(c) PROVE Holding'
    BY <2>8 DEF ReadPidfile, Scan, Alive, Running
  <2>9. ASSUME NEW c \in Cmd, Unlink(c) PROVE Holding'
    BY <2>9 DEF Unlink, RemoveFile, Alive, Running
  <2>10. ASSUME NEW c \in Cmd, Kill(c) PROVE Holding'
    BY <2>10 DEF Kill, Interrupt, IsLeader, Alive, Running
  <2>11. ASSUME NEW c \in Cmd, NotLeader(c) PROVE Holding'
    BY <2>11 DEF NotLeader, AfterStop, End, Alive, Running
  <2>12. ASSUME NEW c \in Cmd, Gone(c) PROVE Holding'
    BY <2>12 DEF Gone, AfterStop, End, Alive, Running
  <2>13. ASSUME NEW c \in Cmd, Timeout(c) PROVE Holding'
    BY <2>13 DEF Timeout, AfterStop, End, IsLeader, Alive, Running
  <2>14. ASSUME NEW p \in Pid, Setsid(p) PROVE Holding'
    BY <2>14 DEF Setsid, Become, Alive, Running
  <2>15. ASSUME NEW p \in Pid, Serve(p) PROVE Holding'
    BY <2>15 DEF Serve, Become, Alive, Running
  <2>16. ASSUME NEW p \in Pid, Quit(p) PROVE Holding'
    BY <2>16 DEF Quit, Become, Alive, Running
  <2>17. ASSUME NEW p \in Pid, Die(p) PROVE Holding'
    BY <2>17 DEF Die, Become, Alive, Running
  <2>18. ASSUME NEW p \in Pid, Crash(p) PROVE Holding'
    BY <2>18 DEF Crash, Failing, Become, Alive, Running
  <2>19. CASE UNCHANGED vars
    BY <2>19 DEF vars, Alive, Running
  <2>20. ASSUME NEW n \in MayBeGiven, Decline(n) PROVE Holding'
    BY <2>20 DEF Decline, Alive, Running
  <2>23. ASSUME NEW c \in Cmd, ListenFails(c) PROVE Holding'
    BY <2>23 DEF ListenFails, Failing, MayListen, End, Alive, Running
  <2>24. ASSUME NEW c \in Cmd, ForkFails(c) PROVE Holding'
    BY <2>24 DEF ForkFails, Failing, End, Alive, Running
  <2>25. ASSUME NEW c \in Cmd, OpenFails(c) PROVE Holding'
    BY <2>25 DEF OpenFails, LeavesUnnamed, Alive, Running
  <2>26. ASSUME NEW c \in Cmd, WriteFails(c) PROVE Holding'
    BY <2>26 DEF WriteFails, LeavesUnnamed, Alive, Running
  <2> HIDE DEF TypeOK, Goto, Holding
  <2>21. ASSUME NEW c \in Cmd, Command(c) PROVE Holding'
    BY <2>1, <2>2, <2>3, <2>4, <2>5, <2>6, <2>7, <2>8, <2>9, <2>10, <2>11, <2>12, <2>13, <2>21, <2>23, <2>24,
     <2>25, <2>26, Zenon DEF Command
  <2>22. ASSUME NEW p \in Pid, Server(p) PROVE Holding'
    BY <2>14, <2>15, <2>16, <2>17, <2>18, <2>22, Zenon DEF Server
  <2> QED
    BY <2>19, <2>20, <2>21, <2>22 DEF Next
<1>2. QED
  BY <1>1

\* Without crashes, stray numbers and failing unlinks every step keeps apart the
\* server that the file names, the one whose starter has not yet written it, and those being stopped.
LEMMA NamingStep ==
  ~scene.crashes /\ ~scene.stray /\ ~scene.stuck /\ TypeOK /\ Unwritten /\ NamedRuns /\ [Next]_vars =>
    Unwritten' /\ NamedRuns'
<1> USE ServiceAssumption DEF TypeOK, Goto, given, history, Unwritten, NamedRuns, Starters
<1> SUFFICES ASSUME ~scene.crashes, ~scene.stray, ~scene.stuck, TypeOK, Unwritten, NamedRuns, [Next]_vars
             PROVE  (Unwritten /\ NamedRuns)'
  OBVIOUS
<1>1. (Unwritten /\ NamedRuns)'
  <2>1. ASSUME NEW c \in Cmd, NEW n \in MayBeGiven, NEW o \in Ops, Begin(c, n, o) PROVE (Unwritten /\ NamedRuns)'
    BY <2>1 DEF Begin, MayBegin, Ops, Running
  <2>2. ASSUME NEW c \in Cmd, Listen(c) PROVE (Unwritten /\ NamedRuns)'
    BY <2>2 DEF Listen, MayListen, Running
  <2>3. ASSUME NEW c \in Cmd, Fork(c) PROVE (Unwritten /\ NamedRuns)'
    BY <2>3 DEF Fork, Fresh, Running
  <2>4. ASSUME NEW c \in Cmd, OpenPidfile(c) PROVE (Unwritten /\ NamedRuns)'
    BY <2>4 DEF OpenPidfile, Running
  <2>5. ASSUME NEW c \in Cmd, WritePidfile(c) PROVE (Unwritten /\ NamedRuns)'
    BY <2>5 DEF WritePidfile, Running
  <2>6. ASSUME NEW c \in Cmd, Wake(c) PROVE (Unwritten /\ NamedRuns)'
    BY <2>6 DEF Wake, End, Running
  <2>7. ASSUME NEW c \in Cmd, NoPidfile(c) PROVE (Unwritten /\ NamedRuns)'
    BY <2>7 DEF NoPidfile, Failing, AfterStop, End, Running
  <2>8. ASSUME NEW c \in Cmd, ReadPidfile(c) PROVE (Unwritten /\ NamedRuns)'
    BY <2>8 DEF ReadPidfile, Scan, Running
  <2>9. ASSUME NEW c \in Cmd, Unlink(c) PROVE (Unwritten /\ NamedRuns)'
    <3>1. /\ pidfile' = NULL /\ pc' = [pc EXCEPT ![c] = "kill"] /\ pc[c] = "unlink"
          /\ UNCHANGED <<state, child, pid, scene>>
      BY <2>9 DEF Unlink, RemoveFile
    <3> QED
      BY <3>1 DEF Running
  <2>10. ASSUME NEW c \in Cmd, Kill(c) PROVE (Unwritten /\ NamedRuns)'
    BY <2>10 DEF Kill, Interrupt, IsLeader, Running
  <2>11. ASSUME NEW c \in Cmd, NotLeader(c) PROVE (Unwritten /\ NamedRuns)'
    BY <2>11 DEF NotLeader, AfterStop, End, Running
  <2>12. ASSUME NEW c \in Cmd, Gone(c) PROVE (Unwritten /\ NamedRuns)'
    BY <2>12 DEF Gone, AfterStop, End, Running
  <2>13. ASSUME NEW c \in Cmd, Timeout(c) PROVE (Unwritten /\ NamedRuns)'
    BY <2>13 DEF Timeout, AfterStop, End, IsLeader, Running
  <2>14. ASSUME NEW p \in Pid, Setsid(p) PROVE (Unwritten /\ NamedRuns)'
    BY <2>14 DEF Setsid, Become, Running
  <2>15. ASSUME NEW p \in Pid, Serve(p) PROVE (Unwritten /\ NamedRuns)'
    BY <2>15 DEF Serve, Become, Running
  <2>16. ASSUME NEW p \in Pid, Quit(p) PROVE (Unwritten /\ NamedRuns)'
    BY <2>16 DEF Quit, Become, Running
  <2>17. ASSUME NEW p \in Pid, Die(p) PROVE (Unwritten /\ NamedRuns)'
    BY <2>17 DEF Die, Become, Running
  <2>18. ASSUME NEW p \in Pid, Crash(p) PROVE (Unwritten /\ NamedRuns)'
    BY <2>18 DEF Crash, Failing, Become, Running
  <2>19. CASE UNCHANGED vars
    BY <2>19 DEF vars, Running
  <2>20. ASSUME NEW n \in MayBeGiven, Decline(n) PROVE (Unwritten /\ NamedRuns)'
    BY <2>20 DEF Decline, Running
  <2>23. ASSUME NEW c \in Cmd, ListenFails(c) PROVE (Unwritten /\ NamedRuns)'
    BY <2>23 DEF ListenFails, Failing, MayListen, End, Running
  <2>24. ASSUME NEW c \in Cmd, ForkFails(c) PROVE (Unwritten /\ NamedRuns)'
    BY <2>24 DEF ForkFails, Failing, End, Running
  <2>25. ASSUME NEW c \in Cmd, OpenFails(c) PROVE (Unwritten /\ NamedRuns)'
    BY <2>25 DEF OpenFails, LeavesUnnamed, Running
  <2>26. ASSUME NEW c \in Cmd, WriteFails(c) PROVE (Unwritten /\ NamedRuns)'
    BY <2>26 DEF WriteFails, LeavesUnnamed, Running
  <2> HIDE DEF TypeOK, Goto, given, history, Unwritten, NamedRuns, Starters
  <2>21. ASSUME NEW c \in Cmd, Command(c) PROVE (Unwritten /\ NamedRuns)'
    BY <2>1, <2>2, <2>3, <2>4, <2>5, <2>6, <2>7, <2>8, <2>9, <2>10, <2>11, <2>12, <2>13, <2>21, <2>23, <2>24,
     <2>25, <2>26, Zenon DEF Command
  <2>22. ASSUME NEW p \in Pid, Server(p) PROVE (Unwritten /\ NamedRuns)'
    BY <2>14, <2>15, <2>16, <2>17, <2>18, <2>22, Zenon DEF Server
  <2> QED
    BY <2>19, <2>20, <2>21, <2>22 DEF Next
<1>2. QED
  BY <1>1
-----------------------------------------------------------------------------
\* However many commands overlap, and whether or not servers crash, at most one
\* server runs that was not told to stop.
THEOREM OneServerRuns == Spec => []OneServer
<1>1. Init => TypeOK /\ Holding
  BY ServiceAssumption DEF Init, TypeOK, Holding, Alive, Running, Ops
<1>2. (TypeOK /\ Holding) /\ [Next]_vars => (TypeOK /\ Holding)'
  BY TypeStep, HoldingStep
<1>3. Holding => OneServer
  BY DEF Holding, OneServer, Alive
<1>4. QED
  BY <1>1, <1>2, <1>3, PTL DEF Spec

\* However many commands overlap, the file never names a server that was
\* stopped, as long as none crashes.
THEOREM FileIsCurrent == Spec => []FileNamesLiving
<1> DEFINE Inv == TypeOK /\ (scene.crashes \/ scene.stray \/ scene.stuck \/ (Unwritten /\ NamedRuns))
<1>1. Init => Inv
  BY ServiceAssumption DEF Init, TypeOK, Unwritten, NamedRuns, Starters, Ops
<1>2. Inv /\ [Next]_vars => Inv'
  BY TypeStep, NamingStep, SceneStep
<1>3. Inv => FileNamesLiving
  BY DEF NamedRuns, FileNamesLiving, Running
<1>4. QED
  BY <1>1, <1>2, <1>3, PTL DEF Spec
-----------------------------------------------------------------------------
\* In such a use commands keep what they know of each other's work.
LEMMA OneByOneStep ==
  scene.orderly /\ TypeOK /\ Holding /\ OneByOne /\ [Next]_vars => OneByOne'
<1> USE ServiceAssumption DEF TypeOK, Goto, given, history, Holding, OneByOne, OneAtATime, CalmFacts, Outcome,
      CommandFacts, Starting, Stopping, Calm, Alive, Running
<1> SUFFICES ASSUME scene.orderly, TypeOK, Holding, OneByOne, [Next]_vars PROVE OneByOne'
  OBVIOUS
<1>1. ASSUME NEW c \in Cmd, NEW n \in MayBeGiven, NEW o \in Ops, Begin(c, n, o) PROVE OneByOne'
  BY <1>1 DEF Begin, MayBegin, AllIdle
<1>2. ASSUME NEW c \in Cmd, Listen(c) PROVE OneByOne'
  BY <1>2 DEF Listen, MayListen, AllIdle
<1>3. ASSUME NEW c \in Cmd, Fork(c) PROVE OneByOne'
  BY <1>3 DEF Fork, Fresh, AllIdle
<1>4. ASSUME NEW c \in Cmd, OpenPidfile(c) PROVE OneByOne'
  BY <1>4 DEF OpenPidfile, AllIdle
<1>5. ASSUME NEW c \in Cmd, WritePidfile(c) PROVE OneByOne'
  BY <1>5 DEF WritePidfile, AllIdle
<1>6. ASSUME NEW c \in Cmd, Wake(c) PROVE OneByOne'
  BY <1>6 DEF Wake, End, AllIdle
<1>7. ASSUME NEW c \in Cmd, NoPidfile(c) PROVE OneByOne'
  BY <1>7 DEF NoPidfile, Failing, AfterStop, End, AllIdle
<1>8. ASSUME NEW c \in Cmd, ReadPidfile(c) PROVE OneByOne'
  BY <1>8 DEF ReadPidfile, Scan, AllIdle
<1>9. ASSUME NEW c \in Cmd, Unlink(c) PROVE OneByOne'
  BY <1>9 DEF Unlink, RemoveFile, AllIdle
<1>10. ASSUME NEW c \in Cmd, Kill(c) PROVE OneByOne'
  BY <1>10 DEF Kill, Interrupt, IsLeader, AllIdle
<1>11. ASSUME NEW c \in Cmd, NotLeader(c) PROVE OneByOne'
  BY <1>11 DEF NotLeader, IsLeader, AfterStop, End, AllIdle
<1>12. ASSUME NEW c \in Cmd, Gone(c) PROVE OneByOne'
  BY <1>12 DEF Gone, IsLeader, AfterStop, End, AllIdle
<1>13. ASSUME NEW c \in Cmd, Timeout(c) PROVE OneByOne'
  BY <1>13 DEF Timeout
<1>14. ASSUME NEW p \in Pid, Setsid(p) PROVE OneByOne'
  BY <1>14 DEF Setsid, Become, AllIdle
<1>15. ASSUME NEW p \in Pid, Serve(p) PROVE OneByOne'
  BY <1>15 DEF Serve, Become, AllIdle
<1>16. ASSUME NEW p \in Pid, Quit(p) PROVE OneByOne'
  BY <1>16 DEF Quit, Become, AllIdle
<1>17. ASSUME NEW p \in Pid, Die(p) PROVE OneByOne'
  BY <1>17 DEF Die, Become, AllIdle
<1>18. ASSUME NEW p \in Pid, Crash(p) PROVE OneByOne'
  BY <1>18 DEF Crash, Failing, Become, AllIdle
<1>19. ASSUME NEW n \in MayBeGiven, Decline(n) PROVE OneByOne'
  BY <1>19 DEF Decline, AllIdle
<1>20. CASE UNCHANGED vars
  BY <1>20 DEF vars, AllIdle
<1>23. ASSUME NEW c \in Cmd, ListenFails(c) PROVE OneByOne'
  BY <1>23 DEF ListenFails, Failing, MayListen, End, AllIdle
<1>24. ASSUME NEW c \in Cmd, ForkFails(c) PROVE OneByOne'
  BY <1>24 DEF ForkFails, Failing, End, AllIdle
<1>25. ASSUME NEW c \in Cmd, OpenFails(c) PROVE OneByOne'
  BY <1>25 DEF OpenFails, LeavesUnnamed, AllIdle
<1>26. ASSUME NEW c \in Cmd, WriteFails(c) PROVE OneByOne'
  BY <1>26 DEF WriteFails, LeavesUnnamed, AllIdle
<1> HIDE DEF TypeOK, Goto, given, history, Holding, OneByOne, OneAtATime, CalmFacts, Outcome, CommandFacts,
      Starting, Stopping, Calm, Alive, Running
<1>21. ASSUME NEW c \in Cmd, Command(c) PROVE OneByOne'
  BY <1>1, <1>2, <1>3, <1>4, <1>5, <1>6, <1>7, <1>8, <1>9, <1>10, <1>11, <1>12, <1>13, <1>21, <1>23, <1>24,
   <1>25, <1>26, Zenon DEF Command
<1>22. ASSUME NEW p \in Pid, Server(p) PROVE OneByOne'
  BY <1>14, <1>15, <1>16, <1>17, <1>18, <1>22, Zenon DEF Server
<1> QED
  BY <1>19, <1>20, <1>21, <1>22 DEF Next

\* The invariant of commands that run one after the other, or are starts, whatever
\* calls of theirs fail and whether or not servers crash.
THEOREM OrderlyUse == Spec => [](scene.orderly => TypeOK /\ OneByOne)
<1> DEFINE Inv == TypeOK /\ Holding /\ (scene.orderly => OneByOne)
<1>1. Init => Inv
  BY ServiceAssumption DEF Init, TypeOK, Ops, Holding, OneByOne, OneAtATime, CalmFacts, Outcome,
     CommandFacts, Starting, Stopping, Calm, Alive, Running
<1>2. Inv /\ [Next]_vars => Inv'
  BY TypeStep, HoldingStep, OneByOneStep, SceneStep
<1> QED
  BY <1>1, <1>2, PTL DEF Spec

\* Between commands a server that runs is the one the file names, so that a
\* later stop finds it, also after starts at once, servers that crashed and
\* commands that failed half-way; but for a server whose own starter could not
\* open or write the file (OpenFails, WriteFails).
THEOREM FileFindsServer == Spec => []Named
<1>1. (scene.orderly => TypeOK /\ OneByOne) => Named
  BY DEF OneByOne, CalmFacts, Calm, Named, Settled, AllIdle, Alive
<1> QED
  BY <1>1, OrderlyUse, PTL

\* A stop that has met no other command and could open the file returns when the
\* server is gone; what is left has never had its number in the file.
THEOREM StopWaits == Spec => []StopStops
<1>1. (scene.orderly => TypeOK /\ OneByOne) => StopStops
  BY DEF OneByOne, Outcome, StopStops, Settled
<1> QED
  BY <1>1, OrderlyUse, PTL

\* After starts or a restart that could listen and fork a server runs: the old one
\* has closed the socket before the new one listens.
THEOREM StartLeavesServer == Spec => []LeavesRunning
<1>1. (scene.orderly => TypeOK /\ OneByOne) => LeavesRunning
  BY DEF OneByOne, CalmFacts, Calm, Outcome, LeavesRunning, Settled, AllIdle, Alive, Running
<1> QED
  BY <1>1, OrderlyUse, PTL
===============================================================================
