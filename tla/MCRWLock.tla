------------------------------ MODULE MCRWLock ------------------------------
(* The lock with a handful of threads: the workers and the main thread.    *)
EXTENDS RWLock, TLC
=============================================================================
