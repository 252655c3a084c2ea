------------------------------- MODULE MCBench -------------------------------
(* The load generator with a few threads, connections and requests.        *)
EXTENDS Bench

\* SIGINT, connections that cannot be made or that the server closes.
Losses == {[skips |-> FALSE, signals |-> TRUE, closes |-> "busy", made |-> 0 .. NConns, seconds |-> 0]}

\* A user who skips, and connections that the server closes.
Skipped == {[skips |-> TRUE, signals |-> FALSE, closes |-> "busy", made |-> {NConns}, seconds |-> 0]}

\* Some seconds go by.
Seconds == {[skips |-> FALSE, signals |-> FALSE, closes |-> "never", made |-> {1}, seconds |-> 3]}

AllScenes == Losses \cup Skipped \cup Seconds
===============================================================================
