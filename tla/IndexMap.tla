------------------------------ MODULE IndexMap ------------------------------
(***************************************************************************)
(* What the connection table promises its callers: a partial map from      *)
(* indices to connections.  A connection enters under an index nobody      *)
(* holds, keeps that index, and holds at most one.  Nothing is said about  *)
(* which free index is chosen.                                             *)
(***************************************************************************)
CONSTANTS Conn, Index, NULL

VARIABLE tab

Init == tab = [i \in Index |-> NULL]

Enter(c, i) ==
  /\ \A j \in Index : tab[j] # c
  /\ tab[i] = NULL
  /\ tab' = [tab EXCEPT ![i] = c]

Leave(i) ==
  /\ tab[i] # NULL
  /\ tab' = [tab EXCEPT ![i] = NULL]

Next ==
  \/ \E c \in Conn, i \in Index : Enter(c, i)
  \/ \E i \in Index : Leave(i)

Spec == Init /\ [][Next]_tab
=============================================================================
