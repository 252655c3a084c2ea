------------------------------- MODULE Framing -------------------------------
(***************************************************************************)
(* The packets of socket.c, one direction of a connection: socket_send     *)
(* puts four bytes of length before the data, socket_recv takes them off   *)
(* again, over as many calls as the bytes need to arrive.  A packet under  *)
(* way is in rbuf, rsize bytes when complete; rsize = 0 stands for the     *)
(* field rbuf = NULL, and rbytes is Len(rbuf).                             *)
(*                                                                         *)
(* How many of the bytes on the wire have arrived when recv is called is   *)
(* nondeterministic.  Both sockets have timeouts of three seconds          *)
(* (socket_opt): send may return after a part of the packet, and the recv  *)
(* of the header may give up with a part of it.                            *)
(***************************************************************************)
EXTENDS Integers, Sequences

CONSTANTS
  Payload,      \* data handed to socket_send: sequences of bytes
  MaxRecvs,     \* rtcsp_maxrecvs
  MaxSent       \* bound: packets sent

ASSUME FramingAssumption ==
  /\ Payload \subseteq Seq(0 .. 255)
  /\ \A p \in Payload : (Len(p) + 4) \div (256 * 256 * 256) < 128   \* plen is an int
  /\ MaxRecvs \in Nat \ {0}
  /\ MaxSent \in Nat

VARIABLES
  sent,      \* packets handed to socket_send, but those of which nothing was sent
  short,     \* the first of them that was cut short, 0 if none was
  finished,  \* the sender has closed its end
  wire,      \* bytes sent and not received
  rbuf, rsize,
  got,       \* packets handed out by socket_recv
  open,      \* socket_recv has not returned 0
  stalled    \* it did so because a header did not arrive in time

vars == <<sent, short, finished, wire, rbuf, rsize, got, open, stalled>>

Init ==
  /\ sent = << >> /\ short = 0 /\ finished = FALSE /\ wire = << >>
  /\ rbuf = << >> /\ rsize = 0 /\ got = << >> /\ open = TRUE /\ stalled = FALSE

HeadSize == 4

\* The most significant byte comes first.
K == 256  \* values of a byte

LenBytes(n) == <<(n \div (K * K * K)) % K, (n \div (K * K)) % K, (n \div K) % K, n % K>>

\* Faulty variant: the bytes of the length in the opposite order.
DataLenSwapped(h) == IF h[4] # 0 THEN 0 ELSE h[4] * K * K * K + h[3] * K * K + h[2] * K + h[1]

\* What recv_data_len returns for four received bytes; 0 closes.
DataLen(h) ==
  IF h[1] # 0 THEN 0 ELSE h[1] * K * K * K + h[2] * K * K + h[3] * K + h[4]

Package(p) == LenBytes(Len(p)) \o p
-----------------------------------------------------------------------------
\* Faulty variant: an empty packet is sent like any other.
MaySendEmpty(p) == ~finished /\ Len(sent) < MaxSent

\* socket_send refuses an empty packet.
MaySend(p) == Len(p) > 0 /\ ~finished /\ Len(sent) < MaxSent

Send(p) ==
  /\ MaySend(p)
  /\ sent' = Append(sent, p)
  /\ wire' = wire \o Package(p)
  /\ UNCHANGED <<short, finished, rbuf, rsize, got, open, stalled>>

\* send fails before the first byte: socket_send returns -1, and says nothing.
SendNothing(p) == MaySend(p) /\ UNCHANGED vars

\* send gives up after k bytes; the sender logs it and goes on.
SendShort(p, k) ==
  /\ MaySend(p)
  /\ k < Len(Package(p))
  /\ sent' = Append(sent, p)
  /\ short' = IF short = 0 THEN Len(sent') ELSE short
  /\ wire' = wire \o SubSeq(Package(p), 1, k)
  /\ UNCHANGED <<finished, rbuf, rsize, got, open, stalled>>

Finish ==
  /\ ~finished /\ finished' = TRUE
  /\ UNCHANGED <<sent, short, wire, rbuf, rsize, got, open, stalled>>
-----------------------------------------------------------------------------
Close == open' = FALSE /\ UNCHANGED <<rbuf, rsize, got>>

Complete(bytes, n) == Len(bytes) = n

\* Faulty variant: the bytes of an earlier call are overwritten.
KeepLast(buf, bytes) == bytes

\* recv writes behind the bytes that are there.
Keep(buf, bytes) == buf \o bytes

\* The second half of socket_recv: take some of the bytes w, without waiting,
\* for a packet of n bytes of which buf has arrived.
RecvData(w, n, buf) ==
  \/ /\ w = << >> /\ finished
     /\ wire' = w /\ Close
  \/ \E k \in 0 .. Len(w) :
       /\ k <= n - Len(buf)
       /\ k > 0 \/ ~finished \/ w # << >>
       /\ wire' = SubSeq(w, k + 1, Len(w))
       /\ LET bytes == Keep(buf, SubSeq(w, 1, k)) IN
            IF k > 0 /\ Complete(bytes, n)
              THEN got' = Append(got, bytes) /\ rbuf' = << >> /\ rsize' = 0
              ELSE rbuf' = bytes /\ rsize' = n /\ UNCHANGED got
       /\ UNCHANGED open

\* Faulty variant: no limit on the length.
InLimitAlways(n) == n > 0

InLimit(n) == n > 0 /\ n <= MaxRecvs

\* socket_recv reads the length first when no packet is under way.
RecvPacket ==
  /\ open /\ rsize = 0
  /\ Len(wire) >= HeadSize
  /\ LET n == DataLen(SubSeq(wire, 1, HeadSize))
         w == SubSeq(wire, HeadSize + 1, Len(wire)) IN
       \/ InLimit(n) /\ RecvData(w, n, << >>)
       \/ ~InLimit(n) /\ wire' = w /\ Close
  /\ UNCHANGED <<sent, short, finished, stalled>>

\* The connection ends before four bytes are there.
RecvNoHead ==
  /\ open /\ rsize = 0
  /\ finished /\ Len(wire) < HeadSize /\ wire' = << >>
  /\ Close
  /\ UNCHANGED <<sent, short, finished, stalled>>

\* Three seconds pass after the first of the four bytes.
RecvStalled ==
  /\ open /\ rsize = 0
  /\ \E k \in 1 .. HeadSize - 1 : k <= Len(wire) /\ wire' = SubSeq(wire, k + 1, Len(wire))
  /\ stalled' = TRUE
  /\ Close
  /\ UNCHANGED <<sent, short, finished>>

RecvMore ==
  /\ open /\ rsize > 0
  /\ wire # << >> \/ finished
  /\ RecvData(wire, rsize, rbuf)
  /\ UNCHANGED <<sent, short, finished, stalled>>

Recv == RecvPacket \/ RecvNoHead \/ RecvStalled \/ RecvMore

Next ==
  \/ \E p \in Payload : Send(p) \/ SendNothing(p)
  \/ \E p \in Payload : \E k \in 1 .. HeadSize + Len(p) : SendShort(p, k)
  \/ Finish
  \/ Recv

Spec == Init /\ [][Next]_vars

\* The read event fires as long as there is something to read, and a recv that
\* returns nothing changes nothing.
FairSpec == Spec /\ WF_vars(Recv)
-----------------------------------------------------------------------------
(***************************************************************************)
(* Properties.                                                             *)
(***************************************************************************)

\* Types; what has arrived of a packet is less than the packet, and a packet
\* is within the limit: socket_recv allocates no more than that.
TypeOK ==
  /\ sent \in Seq(Payload) /\ short \in 0 .. Len(sent)
  /\ wire \in Seq(0 .. 255) /\ finished \in BOOLEAN /\ {open, stalled} \subseteq BOOLEAN
  /\ rsize \in 0 .. MaxRecvs
  /\ rbuf \in Seq(0 .. 255)
  /\ rsize = 0 => rbuf = << >>
  /\ rsize > 0 => Len(rbuf) < rsize

\* What socket_recv can hand out: rtcsp_maxrecvs may be set to any number, and
\* recv_data_len knows lengths of three bytes.
Fit(p) == Len(p) <= MaxRecvs /\ Len(p) < K * K * K

\* Packets that socket_recv can hand out: those before the first that it refuses.
Deliverable ==
  LET fits(n) == \A i \in 1 .. n : Fit(sent[i]) IN
  CHOOSE n \in 0 .. Len(sent) : fits(n) /\ (n < Len(sent) => ~fits(n + 1))

\* Where no timeout expired, a packet beyond the limit is the end: neither it nor
\* its data is taken for a packet; and socket_recv returns 0 only after such a
\* packet, or when the sender closed its end and everything it sent has been
\* handed out.
NothingLost ==
  short = 0 =>
    /\ Len(got) <= Deliverable
    /\ ~open /\ ~stalled =>
         Len(got) = Deliverable /\ (finished \/ Deliverable < Len(sent))

\* The packets before the first that was cut short.
Uncut(packets) ==
  IF short = 0 \/ Len(packets) < short THEN packets ELSE SubSeq(packets, 1, short - 1)

Stream == INSTANCE PacketStream WITH sent <- Uncut(sent), got <- Uncut(got)

\* Up to the first packet that was cut short, whatever times out, the two ends
\* see a stream of packets: socket_recv never mixes the bytes of two calls or
\* of two packets.
StreamSpec == Stream!Spec

\* Every packet that can be handed out is, however its bytes arrive.
Delivered ==
  \A n \in 1 .. MaxSent : Deliverable >= n ~> Len(got) >= n \/ short # 0 \/ stalled
===============================================================================
