-------------------------------- MODULE Queue --------------------------------
(***************************************************************************)
(* The queue of queue.c: a linked list with a pointer to its last node,    *)
(* changed by several threads under one mutex.  A node is an address that  *)
(* malloc hands out and free takes back; one step is one statement.        *)
(***************************************************************************)
EXTENDS Integers, Sequences, FiniteSets

CONSTANTS
  Thread,
  Node,     \* addresses of queue_item_t; bound on the length of the queue
  Data,     \* pointers that are queued
  NULL

ASSUME QueueAssumption == NULL \notin Node \cup Data \cup Thread /\ IsFiniteSet(Node)

VARIABLES
  head, tail,
  next, data,   \* the fields of each node
  alloc,        \* nodes that are allocated
  holder,       \* the thread inside the mutex, or NULL
  pc,           \* where each thread is
  ptr,          \* its local ptr
  result,       \* what its last queue_pop returned
  freed         \* queue_free has run

vars == <<head, tail, next, data, alloc, holder, pc, ptr, result, freed>>

Init ==
  /\ head = NULL /\ tail = NULL
  /\ next = [n \in Node |-> NULL] /\ data = [n \in Node |-> NULL]
  /\ alloc = {} /\ holder = NULL /\ freed = FALSE
  /\ pc = [t \in Thread |-> "idle"]
  /\ ptr = [t \in Thread |-> NULL]
  /\ result = [t \in Thread |-> NULL]

Goto(t, from, to) == pc[t] = from /\ pc' = [pc EXCEPT ![t] = to]

SetPtr(t, n) == ptr' = [ptr EXCEPT ![t] = n]

\* Faulty variant: the mutex is not taken.
TakeNothing(t) == UNCHANGED holder

Take(t) == holder = NULL /\ holder' = t

\* A thread enters queue_push or queue_pop.
Lock(t) ==
  /\ ~freed
  /\ \/ alloc # Node /\ Goto(t, "idle", "push")
     \/ Goto(t, "idle", "pop")
  /\ Take(t)
  /\ UNCHANGED <<head, tail, next, data, alloc, ptr, result, freed>>

Unlock(t) ==
  /\ Goto(t, "unlock", "idle")
  /\ holder' = NULL /\ SetPtr(t, NULL)
  /\ UNCHANGED <<head, tail, next, data, alloc, result, freed>>
-----------------------------------------------------------------------------
\* malloc and the two fields of the new node.
PushNode(t, n, d) ==
  /\ Goto(t, "push", "link")
  /\ n \notin alloc /\ alloc' = alloc \cup {n}
  /\ next' = [next EXCEPT ![n] = NULL]
  /\ data' = [data EXCEPT ![n] = d]
  /\ SetPtr(t, n)
  /\ UNCHANGED <<head, tail, holder, result, freed>>

\* tail->next=ptr
PushLink(t) ==
  /\ Goto(t, "link", "move")
  /\ tail # NULL
  /\ next' = [next EXCEPT ![tail] = ptr[t]]
  /\ UNCHANGED <<head, tail, data, alloc, holder, ptr, result, freed>>

\* tail=ptr
PushMove(t) ==
  /\ Goto(t, "move", "unlock")
  /\ tail' = ptr[t]
  /\ UNCHANGED <<head, next, data, alloc, holder, ptr, result, freed>>

\* head=tail=ptr
PushFirst(t) ==
  /\ Goto(t, "link", "unlock")
  /\ tail = NULL
  /\ head' = ptr[t] /\ tail' = ptr[t]
  /\ UNCHANGED <<next, data, alloc, holder, ptr, result, freed>>
-----------------------------------------------------------------------------
\* ptr=head
PopHead(t) ==
  /\ Goto(t, "pop", IF head = NULL THEN "unlock" ELSE "advance")
  /\ SetPtr(t, head)
  /\ result' = IF head = NULL THEN [result EXCEPT ![t] = NULL] ELSE result
  /\ UNCHANGED <<head, tail, next, data, alloc, holder, freed>>

\* Faulty variant: tail is left at the node that is about to be freed.
TailStays(n) == UNCHANGED tail

\* tail after the node n has left the queue.
TailAfter(n) == tail' = IF next[n] = NULL THEN NULL ELSE tail

\* head=ptr->next, or head=tail=NULL behind the last node; data=ptr->data
PopAdvance(t) ==
  /\ Goto(t, "advance", "free")
  /\ head' = next[ptr[t]]
  /\ TailAfter(ptr[t])
  /\ result' = [result EXCEPT ![t] = data[ptr[t]]]
  /\ UNCHANGED <<next, data, alloc, holder, ptr, freed>>

PopFree(t) ==
  /\ Goto(t, "free", "unlock")
  /\ alloc' = alloc \ {ptr[t]}
  /\ UNCHANGED <<head, tail, next, data, holder, ptr, result, freed>>
-----------------------------------------------------------------------------
\* The first i nodes from head on, as far as there are that many.
Walk[i \in 0 .. Cardinality(Node)] ==
  IF i = 0 THEN << >>
  ELSE LET n == IF Walk[i - 1] = << >> THEN head ELSE next[Walk[i - 1][Len(Walk[i - 1])]] IN
       IF n = NULL THEN Walk[i - 1] ELSE Append(Walk[i - 1], n)

\* The nodes from head on, in order.
List == Walk[Cardinality(Node)]

Nodes == {List[i] : i \in 1 .. Len(List)}

\* queue_free takes no lock: the owner calls it after its last use.
QueueFree ==
  /\ ~freed /\ \A t \in Thread : pc[t] = "idle"
  /\ freed' = TRUE
  /\ alloc' = alloc \ Nodes
  /\ UNCHANGED <<head, tail, next, data, holder, pc, ptr, result>>

Step(t) ==
  \/ Lock(t) \/ Unlock(t)
  \/ \E n \in Node, d \in Data : PushNode(t, n, d)
  \/ PushLink(t) \/ PushMove(t) \/ PushFirst(t)
  \/ PopHead(t) \/ PopAdvance(t) \/ PopFree(t)

Next == (\E t \in Thread : Step(t)) \/ QueueFree

Spec == Init /\ [][Next]_vars
-----------------------------------------------------------------------------
(***************************************************************************)
(* Properties.                                                             *)
(***************************************************************************)

\* Outside the mutex head and tail are the two ends of one list of allocated
\* nodes, which is all that is allocated: no push is lost behind a stale tail,
\* no node is freed while it is linked, and none leaks, not even at queue_free.
\* A node in the hand of a thread is allocated as long as its fields are used.
WellLinked ==
  /\ freed => alloc = {}
  /\ ~freed /\ holder = NULL => /\ Nodes = alloc
                                /\ tail = IF List = << >> THEN NULL ELSE List[Len(List)]
  /\ \A t \in Thread : pc[t] \in {"link", "move", "advance", "free"} => ptr[t] \in alloc

F == INSTANCE Fifo WITH
       items <- IF freed THEN << >> ELSE [i \in 1 .. Len(List) |-> data[List[i]]]

\* The list under its mutex is a first-in first-out queue.
FifoSpec == F!Spec
===============================================================================
