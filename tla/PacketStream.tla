----------------------------- MODULE PacketStream -----------------------------
(***************************************************************************)
(* What socket_send and socket_recv promise the two ends of a connection:  *)
(* the packets that one end sends are handed out at the other, each once,  *)
(* whole, and in the order they were sent.                                 *)
(***************************************************************************)
EXTENDS Sequences, Naturals

CONSTANT Payload

VARIABLES sent, got

vars == <<sent, got>>

Init == sent = << >> /\ got = << >>

Put(p) == sent' = Append(sent, p) /\ UNCHANGED got

Get ==
  /\ Len(got) < Len(sent)
  /\ got' = Append(got, sent[Len(got) + 1])
  /\ UNCHANGED sent

Next == (\E p \in Payload : Put(p)) \/ Get

Spec == Init /\ [][Next]_vars
===============================================================================
