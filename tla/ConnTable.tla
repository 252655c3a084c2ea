------------------------------ MODULE ConnTable ------------------------------
(***************************************************************************)
(* The connection table of conn.c: the counter conn_num, the table iconns  *)
(* of connections by index, and iqueue, the FIFO of indices given back by  *)
(* remove_conn.  Both operations run inside the write lock (module RWLock  *)
(* shows that it excludes), so each is one step here.                      *)
(*                                                                         *)
(* A connection is the address of a conn_t.  iconns is allocated for the   *)
(* slots 0 .. MaxClients-1 only; the slot MaxClients stands for the memory *)
(* just behind that block.                                                 *)
(***************************************************************************)
EXTENDS Integers, Sequences, FiniteSets

CONSTANTS
  Conn,        \* addresses a conn_t can have
  MaxClients,  \* rtcsp_maxclients
  NULL         \* the empty slot

ASSUME ConnTableAssumption ==
  /\ NULL \notin Conn
  /\ MaxClients \in Nat \ {0}

VARIABLES
  conn_num,    \* connections in the table
  iqueue,      \* free indices, oldest first
  iconns,      \* index -> connection
  index,       \* the index field of each conn_t
  live         \* connections between insert_conn and remove_conn

tableVars == <<conn_num, iqueue, iconns, index, live>>

Slots == 0 .. MaxClients

Init ==
  /\ conn_num = 0
  /\ iqueue = << >>
  /\ iconns = [i \in Slots |-> NULL]
  /\ index = [c \in Conn |-> 0]
  /\ live = {}

PutAt(i, c) ==
  /\ index' = [index EXCEPT ![c] = i]
  /\ iconns' = [iconns EXCEPT ![i] = c]

-----------------------------------------------------------------------------
(***************************************************************************)
(* insert_conn counts the connection and takes the oldest free index, or   *)
(* the new count when no index is free.                                    *)
(***************************************************************************)

\* Faulty variant: the count is used although free indices are queued.
InsertIgnoresQueue(c) ==
  /\ conn_num' = conn_num + 1
  /\ live' = live \cup {c}
  /\ PutAt(conn_num + 1, c)
  /\ UNCHANGED iqueue

InsertConn(c) ==
  /\ conn_num' = conn_num + 1
  /\ live' = live \cup {c}
  /\ \/ /\ iqueue # << >>
        /\ PutAt(Head(iqueue), c)
        /\ iqueue' = Tail(iqueue)
     \/ /\ iqueue = << >>
        /\ PutAt(conn_num + 1, c)
        /\ UNCHANGED iqueue

(***************************************************************************)
(* remove_conn: the slot is cleared and the index queued for reuse.  The   *)
(* conn_t is freed; index 0 stands for whatever its memory then holds.     *)
(***************************************************************************)

\* Faulty variant: the index is not given back.
RemoveLosesIndex(c) ==
  /\ conn_num' = conn_num - 1
  /\ live' = live \ {c}
  /\ iconns' = [iconns EXCEPT ![index[c]] = NULL]
  /\ index' = [index EXCEPT ![c] = 0]
  /\ UNCHANGED iqueue

RemoveConn(c) ==
  /\ conn_num' = conn_num - 1
  /\ live' = live \ {c}
  /\ iconns' = [iconns EXCEPT ![index[c]] = NULL]
  /\ iqueue' = Append(iqueue, index[c])
  /\ index' = [index EXCEPT ![c] = 0]

-----------------------------------------------------------------------------
(***************************************************************************)
(* listen_handler inserts only below the limit and only a conn_t it has    *)
(* just allocated; a connection is removed once (module Server shows both) *)
(***************************************************************************)

MayInsert(c) == c \notin live /\ conn_num < MaxClients

Next ==
  \/ \E c \in Conn : MayInsert(c) /\ InsertConn(c)
  \/ \E c \in live : RemoveConn(c)

Spec == Init /\ [][Next]_tableVars

-----------------------------------------------------------------------------
FreeIndices == {iqueue[k] : k \in 1 .. Len(iqueue)}
UsedIndices == {index[c] : c \in live}

\* Every index handed out so far: in use, or waiting in the queue.
HighWater == Len(iqueue) + conn_num

\* Every variable keeps its type; conn_num, unsigned in the code, never
\* passes the limit that listen_handler tests and never wraps below 0.
TypeOK ==
  /\ conn_num \in 0 .. MaxClients
  /\ iqueue \in Seq(1 .. MaxClients)
  /\ iconns \in [Slots -> Conn \cup {NULL}]
  /\ index \in [Conn -> Slots]
  /\ live \in SUBSET Conn

\* conn_num is the number of connections in the table, which is what
\* listen_handler compares with rtcsp_maxclients (conn.c, _conn_num).
Counted == IsFiniteSet(live) /\ conn_num = Cardinality(live)

\* No index is queued twice: two pops never hand out the same one.
QueueDistinct ==
  \A j, k \in 1 .. Len(iqueue) : iqueue[j] = iqueue[k] => j = k

\* The indices 1 .. HighWater are exactly those in use and those queued, and
\* none is both: no index is lost for good and none is handed out twice,
\* although insert_conn mixes the queue with the counter.
IndicesPartition ==
  /\ HighWater <= MaxClients
  /\ UsedIndices \cap FreeIndices = {}
  /\ UsedIndices \cup FreeIndices = 1 .. HighWater

\* A slot holds a connection exactly when that connection is in the table
\* with that index, so index_conn(i) finds the owner of i and nobody else,
\* and two connections in the table never share an index.
TableExact ==
  /\ \A c \in live : index[c] # 0 /\ iconns[index[c]] = c
  /\ \A i \in Slots : iconns[i] # NULL =>
        /\ iconns[i] \in live
        /\ index[iconns[i]] = i

\* The index queue, the counter and the table agree: whatever connections come
\* and go, insert_conn hands out an index that is free and none is lost.
IndInv == TypeOK /\ Counted /\ QueueDistinct /\ IndicesPartition /\ TableExact

\* The table implements the partial map of IndexMap: insert_conn never
\* overwrites the slot of a connection that is still there.
Map == INSTANCE IndexMap WITH Index <- Slots, tab <- iconns
IndexMapSpec == Map!Spec
=============================================================================
