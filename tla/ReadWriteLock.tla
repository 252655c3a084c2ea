---------------------------- MODULE ReadWriteLock ---------------------------
(***************************************************************************)
(* What the lock of conn.c promises: many readers or one writer.           *)
(* rd and wr are the threads inside, between BEGIN_READ_LOCK and           *)
(* END_READ_LOCK and between BEGIN_WRITE_LOCK and END_WRITE_LOCK.          *)
(***************************************************************************)
CONSTANT Thread

VARIABLES rd, wr

lockVars == <<rd, wr>>

Init == rd = {} /\ wr = {}

\* A section that neither blocks nor shows anything until it is over is one
\* step of a module that uses the lock: it only needs to be let in.
MayRead == wr = {}
MayWrite == rd = {} /\ wr = {}

BeginRead(t) == t \notin rd /\ MayRead /\ rd' = rd \cup {t} /\ UNCHANGED wr

EndRead(t) == t \in rd /\ rd' = rd \ {t} /\ UNCHANGED wr

BeginWrite(t) == MayWrite /\ wr' = {t} /\ UNCHANGED rd

EndWrite(t) == t \in wr /\ wr' = {} /\ UNCHANGED rd

Next == \E t \in Thread : BeginRead(t) \/ EndRead(t) \/ BeginWrite(t) \/ EndWrite(t)

Spec == Init /\ [][Next]_lockVars
=============================================================================
