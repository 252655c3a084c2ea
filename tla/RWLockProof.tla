---------------------------- MODULE RWLockProof -----------------------------
(***************************************************************************)
(* The lock of conn.c, for every finite set of threads: the two mutexes    *)
(* and the counter exclude, and implement a read-write lock.               *)
(***************************************************************************)
EXTENDS RWLock, FiniteSetTheorems, TLAPS

USE ThreadAssumption

\* The counter counts: one more or one less reader changes it by one.
LEMMA Counting ==
  /\ IsFiniteSet(CountedReaders)
  /\ \A t \in Thread \ CountedReaders :
       Cardinality(CountedReaders \cup {t}) = Cardinality(CountedReaders) + 1
  /\ \A t \in CountedReaders :
       Cardinality(CountedReaders \ {t}) = Cardinality(CountedReaders) - 1
  /\ Cardinality(CountedReaders) \in Nat
  /\ Cardinality(CountedReaders) = 0 <=> CountedReaders = {}
<1>1. CountedReaders \subseteq Thread
  BY DEF CountedReaders, At
<1>2. IsFiniteSet(CountedReaders)
  BY <1>1, FS_Subset
<1> QED
  BY <1>1, <1>2, FS_AddElement, FS_RemoveElement, FS_CardinalityType, FS_EmptySet

\* What the counter says about the readers it counts.
LEMMA CountFacts ==
  ASSUME Guarded
  PROVE  /\ readers \in Nat
         /\ readers = 0 <=> CountedReaders = {}
         /\ \A t \in CountedReaders : readers = 1 <=> CountedReaders = {t}
<1>1. readers = Cardinality(CountedReaders)
  BY DEF Guarded
<1>2. ASSUME NEW t \in CountedReaders PROVE readers = 1 <=> CountedReaders = {t}
  <2>1. Cardinality(CountedReaders \ {t}) = readers - 1
    BY <1>1, Counting
  <2>2. Cardinality(CountedReaders \ {t}) = 0 <=> CountedReaders \ {t} = {}
    BY Counting, FS_EmptySet, FS_Subset
  <2>3. readers \in Nat
    BY <1>1, Counting
  <2> QED
    BY <2>1, <2>2, <2>3
<1> QED
  BY <1>1, <1>2, Counting

\* The unlocked lock satisfies the invariant.
LEMMA InitIndInv == Init => IndInv
<1> SUFFICES ASSUME Init PROVE IndInv
  OBVIOUS
<1>1. /\ CountedReaders = {} /\ ReadersHolding = {} /\ GuardHolders = {}
      /\ At({"writing"}) = {} /\ At({"r_wait"}) = {} /\ At({"e_free"}) = {}
  BY DEF Init, CountedReaders, ReadersHolding, GuardHolders, At, Entering, Leaving
<1>2. TypeOK
  BY DEF Init, TypeOK, PCs
<1> QED
  BY <1>1, <1>2, FS_EmptySet DEF Init, IndInv, Guarded, WriterOwned, EdgesAlone

\* Every step of a thread keeps the invariant.
LEMMA StepIndInv ==
  ASSUME IndInv, NEW t \in Thread, ReadLock(t) \/ WriteLock(t) \/ Continue(t)
  PROVE  IndInv'
<1> USE DEF IndInv, TypeOK, PCs, Entering, Leaving, Goto, LockReaders, UnlockReaders,
            CountedReaders, ReadersHolding, GuardHolders, At
<1>0. /\ readers \in Nat
      /\ readers = 0 => \A u \in Thread : u \notin CountedReaders
      /\ t \in CountedReaders /\ readers = 1 => \A u \in Thread \ {t} : u \notin CountedReaders
      /\ t \in CountedReaders => readers # 0
      /\ readers # 0 => \E u \in Thread : u \in CountedReaders
      /\ t \in CountedReaders /\ readers # 1 => \E u \in Thread \ {t} : u \in CountedReaders
  <2>1. CountedReaders \subseteq Thread
    OBVIOUS
  <2> HIDE DEF CountedReaders
  <2> QED
    BY <2>1, CountFacts DEF IndInv
<1>1. CASE ReadLock(t)
  <2> USE <1>1 DEF ReadLock
  <2>1. TypeOK'
    BY <1>0
  <2>2. mx_reader' = (GuardHolders' # {}) /\ \A u, v \in GuardHolders' : u = v
    BY DEF Guarded
  <2>3. WriterOwned'
    <3>1. mx_writer' = (ReadersHolding \cup At({"writing"}) # {})'
      BY <1>0 DEF WriterOwned, Guarded, EdgesAlone
    <3>2. (At({"writing"}) # {} => ReadersHolding = {})'
      BY <1>0 DEF WriterOwned, Guarded, EdgesAlone
    <3>3. \A u, v \in At({"writing"})' : u = v
      BY DEF WriterOwned
    <3> QED
      BY <3>1, <3>2, <3>3 DEF WriterOwned
  <2>4. EdgesAlone'
    BY <1>0 DEF WriterOwned, Guarded, EdgesAlone
  <2>5. CountedReaders' = CountedReaders
    OBVIOUS
  <2>6. Guarded'
    <3> HIDE DEF CountedReaders, GuardHolders
    <3> QED
      BY <1>0, <2>2, <2>5, Counting DEF Guarded
  <2> QED
    BY <2>1, <2>3, <2>4, <2>6
<1>2. CASE ReadCount(t)
  <2> USE <1>2 DEF ReadCount
  <2>1. TypeOK'
    BY <1>0
  <2>2. mx_reader' = (GuardHolders' # {}) /\ \A u, v \in GuardHolders' : u = v
    BY DEF Guarded
  <2>3. WriterOwned'
    <3>1. CASE readers = 0
      <4>1. ReadersHolding' = ReadersHolding /\ At({"writing"})' = At({"writing"})
        BY <3>1
      <4> QED
        BY <4>1 DEF WriterOwned
    <3>2. CASE readers # 0
      <4>1. PICK u \in Thread : u \in CountedReaders
        BY <1>0, <3>2
      <4>2. u \in ReadersHolding /\ t \in ReadersHolding'
        BY <3>2, <4>1 DEF Guarded
      <4>3. mx_writer' /\ At({"writing"})' = {}
        BY <4>2 DEF WriterOwned
      <4> QED
        BY <4>2, <4>3 DEF WriterOwned
    <3> QED
      BY <3>1, <3>2
  <2>4. EdgesAlone'
    BY <1>0 DEF WriterOwned, Guarded, EdgesAlone
  <2>5. CountedReaders' = CountedReaders \cup {t} /\ t \notin CountedReaders
    OBVIOUS
  <2>6. Guarded'
    <3> HIDE DEF CountedReaders, GuardHolders
    <3> QED
      BY <1>0, <2>2, <2>5, Counting DEF Guarded
  <2> QED
    BY <2>1, <2>3, <2>4, <2>6
<1>3. CASE ReadWait(t)
  <2> USE <1>3 DEF ReadWait
  <2>1. TypeOK'
    BY <1>0
  <2>2. mx_reader' = (GuardHolders' # {}) /\ \A u, v \in GuardHolders' : u = v
    BY DEF Guarded
  <2>3. WriterOwned'
    <3>1. (mx_writer = (ReadersHolding \cup At({"writing"}) # {}))'
      <4>1. t \in ReadersHolding' /\ mx_writer'
        OBVIOUS
      <4> QED
        BY <4>1
    <3>2. (At({"writing"}) # {} => ReadersHolding = {})'
      BY <1>0 DEF WriterOwned, Guarded, EdgesAlone
    <3>3. \A u, v \in At({"writing"})' : u = v
      BY DEF WriterOwned
    <3> QED
      BY <3>1, <3>2, <3>3 DEF WriterOwned
  <2>4. EdgesAlone'
    BY <1>0 DEF WriterOwned, Guarded, EdgesAlone
  <2>5. CountedReaders' = CountedReaders
    OBVIOUS
  <2>6. Guarded'
    <3> HIDE DEF CountedReaders, GuardHolders
    <3> QED
      BY <1>0, <2>2, <2>5, Counting DEF Guarded
  <2> QED
    BY <2>1, <2>3, <2>4, <2>6
<1>4. CASE ReadUnlock(t)
  <2> USE <1>4 DEF ReadUnlock
  <2>1. TypeOK'
    BY <1>0
  <2>2. mx_reader' = (GuardHolders' # {}) /\ \A u, v \in GuardHolders' : u = v
    BY DEF Guarded
  <2>3. WriterOwned'
    <3>1. At({"writing"})' = At({"writing"}) /\ ReadersHolding' = ReadersHolding
      OBVIOUS
    <3> HIDE DEF At, ReadersHolding
    <3> QED
      BY <3>1 DEF WriterOwned
  <2>4. EdgesAlone'
    BY <1>0 DEF WriterOwned, Guarded, EdgesAlone
  <2>5. CountedReaders' = CountedReaders
    OBVIOUS
  <2>6. Guarded'
    <3> HIDE DEF CountedReaders, GuardHolders
    <3> QED
      BY <1>0, <2>2, <2>5, Counting DEF Guarded
  <2> QED
    BY <2>1, <2>3, <2>4, <2>6
<1>5. CASE EndReadLock(t)
  <2> USE <1>5 DEF EndReadLock
  <2>1. TypeOK'
    BY <1>0
  <2>2. mx_reader' = (GuardHolders' # {}) /\ \A u, v \in GuardHolders' : u = v
    <3>1. GuardHolders = {}
      BY DEF Guarded
    <3>2. GuardHolders' = {t}
      BY <3>1
    <3> QED
      BY <3>2
  <2>3. WriterOwned'
    <3>1. At({"writing"})' = At({"writing"}) /\ ReadersHolding' = ReadersHolding
      OBVIOUS
    <3> HIDE DEF At, ReadersHolding
    <3> QED
      BY <3>1 DEF WriterOwned
  <2>4. EdgesAlone'
    BY <1>0 DEF WriterOwned, Guarded, EdgesAlone
  <2>5. CountedReaders' = CountedReaders
    OBVIOUS
  <2>6. Guarded'
    <3> HIDE DEF CountedReaders, GuardHolders
    <3> QED
      BY <1>0, <2>2, <2>5, Counting DEF Guarded
  <2> QED
    BY <2>1, <2>3, <2>4, <2>6
<1>6. CASE EndReadCount(t)
  <2> USE <1>6 DEF EndReadCount
  <2>1. TypeOK'
    BY <1>0
  <2>2. mx_reader' = (GuardHolders' # {}) /\ \A u, v \in GuardHolders' : u = v
    BY DEF Guarded
  <2>3. WriterOwned'
    <3>1. (mx_writer = (ReadersHolding \cup At({"writing"}) # {}))'
      <4>1. CASE readers = 1
        <5>1. t \in ReadersHolding /\ t \in ReadersHolding'
          BY <4>1
        <5> QED
          BY <5>1 DEF WriterOwned
      <4>2. CASE readers # 1
        <5>1. PICK u \in Thread \ {t} : u \in CountedReaders
          BY <1>0, <4>2
        <5>2. u \in ReadersHolding /\ u \in ReadersHolding'
          BY <5>1 DEF Guarded
        <5> QED
          BY <5>2 DEF WriterOwned
      <4> QED
        BY <4>1, <4>2
    <3>2. (At({"writing"}) # {} => ReadersHolding = {})'
      BY <1>0 DEF WriterOwned, Guarded, EdgesAlone
    <3>3. \A u, v \in At({"writing"})' : u = v
      BY DEF WriterOwned
    <3> QED
      BY <3>1, <3>2, <3>3 DEF WriterOwned
  <2>4. EdgesAlone'
    BY <1>0 DEF WriterOwned, Guarded, EdgesAlone
  <2>5. CountedReaders' = CountedReaders \ {t} /\ t \in CountedReaders
    OBVIOUS
  <2>6. Guarded'
    <3> HIDE DEF CountedReaders, GuardHolders
    <3> QED
      BY <1>0, <2>2, <2>5, Counting DEF Guarded
  <2> QED
    BY <2>1, <2>3, <2>4, <2>6
<1>7. CASE EndReadFree(t)
  <2> USE <1>7 DEF EndReadFree
  <2>1. TypeOK'
    BY <1>0
  <2>2. mx_reader' = (GuardHolders' # {}) /\ \A u, v \in GuardHolders' : u = v
    BY DEF Guarded
  <2>3. WriterOwned'
    <3>1. (mx_writer = (ReadersHolding \cup At({"writing"}) # {}))'
      <4>1. ReadersHolding = {t} /\ At({"writing"}) = {}
        BY DEF WriterOwned, Guarded, EdgesAlone
      <4>2. ReadersHolding' = {} /\ At({"writing"})' = {}
        BY <4>1
      <4> QED
        BY <4>2
    <3>2. (At({"writing"}) # {} => ReadersHolding = {})'
      BY <1>0 DEF WriterOwned, Guarded, EdgesAlone
    <3>3. \A u, v \in At({"writing"})' : u = v
      BY DEF WriterOwned
    <3> QED
      BY <3>1, <3>2, <3>3 DEF WriterOwned
  <2>4. EdgesAlone'
    BY <1>0 DEF WriterOwned, Guarded, EdgesAlone
  <2>5. CountedReaders' = CountedReaders
    OBVIOUS
  <2>6. Guarded'
    <3> HIDE DEF CountedReaders, GuardHolders
    <3> QED
      BY <1>0, <2>2, <2>5, Counting DEF Guarded
  <2> QED
    BY <2>1, <2>3, <2>4, <2>6
<1>8. CASE EndReadUnlock(t)
  <2> USE <1>8 DEF EndReadUnlock
  <2>1. TypeOK'
    BY <1>0
  <2>2. mx_reader' = (GuardHolders' # {}) /\ \A u, v \in GuardHolders' : u = v
    BY DEF Guarded
  <2>3. WriterOwned'
    BY <1>0 DEF WriterOwned, Guarded, EdgesAlone
  <2>4. EdgesAlone'
    BY <1>0 DEF WriterOwned, Guarded, EdgesAlone
  <2>5. CountedReaders' = CountedReaders
    OBVIOUS
  <2>6. Guarded'
    <3> HIDE DEF CountedReaders, GuardHolders
    <3> QED
      BY <1>0, <2>2, <2>5, Counting DEF Guarded
  <2> QED
    BY <2>1, <2>3, <2>4, <2>6
<1>9. CASE WriteLock(t)
  <2> USE <1>9 DEF WriteLock
  <2>1. TypeOK'
    BY <1>0
  <2>2. mx_reader' = (GuardHolders' # {}) /\ \A u, v \in GuardHolders' : u = v
    BY DEF Guarded
  <2>3. WriterOwned'
    <3>0. ReadersHolding' = {} /\ At({"writing"})' = {t}
      <4>1. ReadersHolding = {} /\ At({"writing"}) = {}
        BY DEF WriterOwned
      <4> QED
        BY <4>1
    <3>1. mx_writer' = (ReadersHolding \cup At({"writing"}) # {})'
      BY <3>0
    <3>2. (At({"writing"}) # {} => ReadersHolding = {})'
      BY <3>0
    <3>3. \A u, v \in At({"writing"})' : u = v
      BY <3>0
    <3> QED
      BY <3>1, <3>2, <3>3 DEF WriterOwned
  <2>4. EdgesAlone'
    BY <1>0 DEF WriterOwned, Guarded, EdgesAlone
  <2>5. CountedReaders' = CountedReaders
    OBVIOUS
  <2>6. Guarded'
    <3> HIDE DEF CountedReaders, GuardHolders
    <3> QED
      BY <1>0, <2>2, <2>5, Counting DEF Guarded
  <2> QED
    BY <2>1, <2>3, <2>4, <2>6
<1>10. CASE WriteUnlock(t)
  <2> USE <1>10 DEF WriteUnlock
  <2>1. TypeOK'
    BY <1>0
  <2>2. mx_reader' = (GuardHolders' # {}) /\ \A u, v \in GuardHolders' : u = v
    BY DEF Guarded
  <2>3. WriterOwned'
    <3>1. (mx_writer = (ReadersHolding \cup At({"writing"}) # {}))'
      <4>1. ReadersHolding = {} /\ At({"writing"}) = {t}
        BY DEF WriterOwned
      <4>2. ReadersHolding' = {} /\ At({"writing"})' = {}
        BY <4>1
      <4> QED
        BY <4>2
    <3>2. (At({"writing"}) # {} => ReadersHolding = {})'
      BY <1>0 DEF WriterOwned, Guarded, EdgesAlone
    <3>3. \A u, v \in At({"writing"})' : u = v
      BY DEF WriterOwned
    <3> QED
      BY <3>1, <3>2, <3>3 DEF WriterOwned
  <2>4. EdgesAlone'
    BY <1>0 DEF WriterOwned, Guarded, EdgesAlone
  <2>5. CountedReaders' = CountedReaders
    OBVIOUS
  <2>6. Guarded'
    <3> HIDE DEF CountedReaders, GuardHolders
    <3> QED
      BY <1>0, <2>2, <2>5, Counting DEF Guarded
  <2> QED
    BY <2>1, <2>3, <2>4, <2>6
<1> QED
  BY <1>1, <1>2, <1>3, <1>4, <1>5, <1>6, <1>7, <1>8, <1>9, <1>10 DEF Continue

\* The invariant of the two mutexes and the counter, in every reachable state.
THEOREM LockInvariant == Spec => []IndInv
<1>1. IndInv /\ [Next]_vars => IndInv'
  <2>1. ASSUME IndInv, UNCHANGED vars PROVE IndInv'
    BY <2>1 DEF vars, IndInv, TypeOK, Guarded, WriterOwned, EdgesAlone, CountedReaders,
                ReadersHolding, GuardHolders, At
  <2> QED
    BY <2>1, StepIndInv DEF Next
<1> QED
  BY <1>1, InitIndInv, PTL DEF Spec

\* A writer is alone: insert_conn and remove_conn exclude each other and every
\* reader, whatever the number of threads.
THEOREM WriterAlone == Spec => []Exclusion
<1>1. IndInv => Exclusion
  BY DEF IndInv, WriterOwned, Exclusion, ReadersHolding, At
<1> QED
  BY <1>1, LockInvariant, PTL

\* The two mutexes and the counter implement a read-write lock: each step of
\* begin_read_lock, end_read_lock, begin_write_lock and end_write_lock is a
\* step of ReadWriteLock or changes nothing it shows.
THEOREM ImplementsLock == Spec => LockSpec
<1>1. Init => Lock!Init
  BY DEF Init, Lock!Init, At
<1>2. IndInv /\ [Next]_vars => [Lock!Next]_(Lock!lockVars)
  <2> SUFFICES ASSUME IndInv, [Next]_vars PROVE [Lock!Next]_(Lock!lockVars)
    OBVIOUS
  <2> USE DEF IndInv, TypeOK, Goto, PCs, Entering, Leaving
  <2>1. ASSUME NEW t \in Thread,
               ReadLock(t) \/ ReadCount(t) \/ ReadWait(t) \/ EndReadLock(t)
                 \/ EndReadFree(t) \/ EndReadUnlock(t)
        PROVE  UNCHANGED Lock!lockVars
    BY <2>1 DEF ReadLock, ReadCount, ReadWait, EndReadLock, EndReadFree, EndReadUnlock,
                At, Lock!lockVars
  <2>2. ASSUME NEW t \in Thread, ReadUnlock(t) PROVE Lock!BeginRead(t)
    BY <2>2 DEF ReadUnlock, WriterOwned, ReadersHolding, At, Lock!BeginRead, Lock!MayRead
  <2>3. ASSUME NEW t \in Thread, EndReadCount(t) PROVE Lock!EndRead(t)
    BY <2>3 DEF EndReadCount, At, Lock!EndRead
  <2>4. ASSUME NEW t \in Thread, WriteLock(t) PROVE Lock!BeginWrite(t)
    BY <2>4 DEF WriteLock, WriterOwned, ReadersHolding, At, Lock!BeginWrite, Lock!MayWrite
  <2>5. ASSUME NEW t \in Thread, WriteUnlock(t) PROVE Lock!EndWrite(t)
    BY <2>5 DEF WriteUnlock, WriterOwned, At, Lock!EndWrite
  <2>6. CASE UNCHANGED vars
    BY <2>6 DEF vars, At, Lock!lockVars
  <2> QED
    BY <2>1, <2>2, <2>3, <2>4, <2>5, <2>6 DEF Next, Continue, Lock!Next
<1> QED
  BY <1>1, <1>2, LockInvariant, PTL DEF Spec, LockSpec, Lock!Spec
=============================================================================
