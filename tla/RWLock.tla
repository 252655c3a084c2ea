------------------------------- MODULE RWLock -------------------------------
(***************************************************************************)
(* The read-write lock of conn.c, built from two mutexes and a counter:    *)
(* the first reader in takes mx_writer for all readers and the last reader *)
(* out gives it back, while mx_reader protects the counter.  One action    *)
(* per call of the mutex library and per use of the counter.               *)
(*                                                                         *)
(* The last reader out is seldom the first one in, so mx_writer is         *)
(* unlocked by a thread that did not lock it.  The default mutex of glibc  *)
(* keeps no owner and allows it: the model keeps none either.              *)
(***************************************************************************)
EXTENDS Integers, FiniteSets

CONSTANT Thread

ASSUME ThreadAssumption == IsFiniteSet(Thread)

VARIABLES
  mx_reader,   \* the mutex mx_reader is locked
  mx_writer,   \* the mutex mx_writer is locked
  readers,     \* the counter of readers
  pc           \* where each thread is

vars == <<mx_reader, mx_writer, readers, pc>>

\* begin_read_lock: in it, waiting for mx_writer, leaving it.
Entering == {"r_count", "r_wait", "r_unlock"}
\* end_read_lock: in it, unlocking mx_writer, leaving it.
Leaving == {"e_count", "e_free", "e_unlock"}

PCs == {"idle", "reading", "writing"} \cup Entering \cup Leaving

Init ==
  /\ mx_reader = FALSE
  /\ mx_writer = FALSE
  /\ readers = 0
  /\ pc = [t \in Thread |-> "idle"]

Goto(t, from, to) == pc[t] = from /\ pc' = [pc EXCEPT ![t] = to]

LockReaders == ~mx_reader /\ mx_reader' = TRUE
UnlockReaders == mx_reader' = FALSE

-----------------------------------------------------------------------------
\* Faulty variant: the counter is used without its mutex.
ReadLockUnguarded(t) ==
  Goto(t, "idle", "r_count") /\ UNCHANGED <<mx_reader, mx_writer, readers>>

ReadLock(t) ==
  Goto(t, "idle", "r_count") /\ LockReaders /\ UNCHANGED <<mx_writer, readers>>

\* Faulty variant: only the second reader looks at mx_writer.
ReadCountLate(t) ==
  /\ readers' = readers + 1
  /\ Goto(t, "r_count", IF readers' = 2 THEN "r_wait" ELSE "r_unlock")
  /\ UNCHANGED <<mx_reader, mx_writer>>

ReadCount(t) ==
  /\ readers' = readers + 1
  /\ Goto(t, "r_count", IF readers' = 1 THEN "r_wait" ELSE "r_unlock")
  /\ UNCHANGED <<mx_reader, mx_writer>>

\* The other readers now wait for mx_reader, which this thread keeps.
ReadWait(t) ==
  /\ Goto(t, "r_wait", "r_unlock")
  /\ ~mx_writer
  /\ mx_writer' = TRUE
  /\ UNCHANGED <<mx_reader, readers>>

ReadUnlock(t) ==
  Goto(t, "r_unlock", "reading") /\ UnlockReaders /\ UNCHANGED <<mx_writer, readers>>

EndReadLock(t) ==
  Goto(t, "reading", "e_count") /\ LockReaders /\ UNCHANGED <<mx_writer, readers>>

\* Faulty variant: every reader that leaves unlocks mx_writer.
EndReadCountEach(t) ==
  /\ readers' = readers - 1
  /\ Goto(t, "e_count", "e_free")
  /\ UNCHANGED <<mx_reader, mx_writer>>

\* Faulty variant: the last reader leaves mx_writer locked.
EndReadCountKeeps(t) ==
  /\ readers' = readers - 1
  /\ Goto(t, "e_count", IF readers' = 0 THEN "e_unlock" ELSE "e_free")
  /\ UNCHANGED <<mx_reader, mx_writer>>

EndReadCount(t) ==
  /\ readers' = readers - 1
  /\ Goto(t, "e_count", IF readers' = 0 THEN "e_free" ELSE "e_unlock")
  /\ UNCHANGED <<mx_reader, mx_writer>>

EndReadFree(t) ==
  /\ Goto(t, "e_free", "e_unlock")
  /\ mx_writer' = FALSE
  /\ UNCHANGED <<mx_reader, readers>>

EndReadUnlock(t) ==
  Goto(t, "e_unlock", "idle") /\ UnlockReaders /\ UNCHANGED <<mx_writer, readers>>

WriteLock(t) ==
  /\ Goto(t, "idle", "writing")
  /\ ~mx_writer
  /\ mx_writer' = TRUE
  /\ UNCHANGED <<mx_reader, readers>>

WriteUnlock(t) ==
  /\ Goto(t, "writing", "idle")
  /\ mx_writer' = FALSE
  /\ UNCHANGED <<mx_reader, readers>>

-----------------------------------------------------------------------------
\* The steps of a thread that has asked for the lock or holds it.
Continue(t) ==
  \/ ReadCount(t) \/ ReadWait(t) \/ ReadUnlock(t)
  \/ EndReadLock(t) \/ EndReadCount(t) \/ EndReadFree(t) \/ EndReadUnlock(t)
  \/ WriteUnlock(t)

Next == \E t \in Thread : ReadLock(t) \/ WriteLock(t) \/ Continue(t)

\* A thread that is inside the lock or on its way runs on: the sections in
\* conn.c and socket.c that the lock protects are short and sequential.
Fairness == \A t \in Thread : WF_vars(Continue(t))

Spec == Init /\ [][Next]_vars

FairSpec == Spec /\ Fairness

-----------------------------------------------------------------------------
At(S) == {t \in Thread : pc[t] \in S}

\* Threads the counter counts, threads on whose behalf the readers hold
\* mx_writer, and threads that hold mx_reader.
CountedReaders == At({"r_wait", "r_unlock", "reading", "e_count"})
ReadersHolding == At({"r_unlock", "reading", "e_count", "e_free"})
GuardHolders == At(Entering \cup Leaving)

\* Every variable keeps its type; the counter, unsigned in the code, never
\* wraps below zero.
TypeOK ==
  /\ mx_reader \in BOOLEAN
  /\ mx_writer \in BOOLEAN
  /\ readers \in Nat
  /\ pc \in [Thread -> PCs]

\* The state mx_reader protects: one thread at a time is in the prologue or
\* the epilogue of a reader, and the counter counts the readers.
Guarded ==
  /\ mx_reader = (GuardHolders # {})
  /\ \A t, u \in GuardHolders : t = u
  /\ readers = Cardinality(CountedReaders)

\* mx_writer is locked exactly while a writer, or the readers as a group,
\* hold it, and never by both.
WriterOwned ==
  /\ mx_writer = (ReadersHolding \cup At({"writing"}) # {})
  /\ At({"writing"}) # {} => ReadersHolding = {}
  /\ \A t, u \in At({"writing"}) : t = u

\* The thread that locks mx_writer for the readers is the only reader, and
\* no reader is left when it is unlocked for them.
EdgesAlone ==
  /\ \A t \in At({"r_wait"}) : CountedReaders = {t}
  /\ At({"e_free"}) # {} => CountedReaders = {}

\* The counter counts the readers whoever holds mx_reader, and mx_writer is
\* held by one writer or by the readers as a group, although the reader that
\* unlocks it is not the one that locked it (conn.c, end_read_lock).
IndInv == TypeOK /\ Guarded /\ WriterOwned /\ EdgesAlone

\* A writer is alone inside the lock: insert_conn and remove_conn never run
\* beside each other, beside index_conn or beside a scan of the table.
Exclusion ==
  \A w \in At({"writing"}) : At({"reading", "e_count"}) = {} /\ At({"writing"}) = {w}

\* The two mutexes implement a read-write lock.
Lock == INSTANCE ReadWriteLock WITH
          rd <- At({"reading", "e_count"}), wr <- At({"writing"})
LockSpec == Lock!Spec

\* The lock is never lost: a reader on its way in is followed by somebody
\* inside, even when the thread that unlocks is not the one that locked.
SomebodyEnters == At(Entering) # {} ~> At({"reading", "writing"}) # {}
=============================================================================
