---------------------------- MODULE MCConnTable ----------------------------
(* The connection table with a handful of connections.                     *)
EXTENDS ConnTable, TLC
=============================================================================
