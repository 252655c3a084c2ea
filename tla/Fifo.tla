--------------------------------- MODULE Fifo ---------------------------------
(***************************************************************************)
(* What queue.c promises: a first-in first-out queue whose pop returns     *)
(* NULL when the queue is empty.                                           *)
(***************************************************************************)
EXTENDS Sequences

CONSTANTS Thread, Data, NULL

VARIABLES
  items,
  result   \* what the last queue_pop of each thread returned

vars == <<items, result>>

Init == items = << >> /\ result = [t \in Thread |-> NULL]

Push(d) == items' = Append(items, d) /\ UNCHANGED result

Pop(t) ==
  IF items = << >>
    THEN result' = [result EXCEPT ![t] = NULL] /\ UNCHANGED items
    ELSE result' = [result EXCEPT ![t] = Head(items)] /\ items' = Tail(items)

Free == items' = << >> /\ UNCHANGED result

Next == (\E d \in Data : Push(d)) \/ (\E t \in Thread : Pop(t)) \/ Free

Spec == Init /\ [][Next]_vars
===============================================================================
