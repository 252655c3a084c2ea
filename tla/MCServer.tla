------------------------------ MODULE MCServer ------------------------------
(* The server in each of the environments its modules and clients can give *)
(* it.                                                                     *)
EXTENDS Server, TLC

Environment(signals, closes, ops, accepts) ==
  [signals |-> signals, closes |-> closes, ops |-> ops, accepts |-> accepts]

\* The modules of the repository, which never call into the API.
Repository == Environment(FALSE, "always", {}, {"ok", "fail"})

\* Hooks that close their own connection while clients stay connected, and
\* hooks that also close other watched connections of their worker.
ClosingOwn == Environment(FALSE, "never", {"close_own"}, {"ok"})
ClosingKnown == Environment(FALSE, "never", {"close_own", "close_known"}, {"ok"})

\* Hooks that look connections up while clients come and go.
LookingUp == Environment(FALSE, "always", {"lookup"}, {"ok", "late_fail"})

\* SIGINT, with every disconnection handled before it.
Stopping == Environment(TRUE, "settled", {}, {"ok"})

\* SIGINT while clients disconnect.
Interrupting == Environment(TRUE, "always", {}, {"ok"})

Working == {Repository, ClosingOwn, ClosingKnown}
WorkingAlone == {Repository, ClosingKnown}
LookingUpOrStopping == {LookingUp, Stopping}
Interrupted == {Interrupting}
=============================================================================
