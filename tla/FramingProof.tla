----------------------------- MODULE FramingProof -----------------------------
(***************************************************************************)
(* The packet framing for every set of payloads and every limit: what      *)
(* recv_data_len makes of a length, what is in the buffer and on the wire, *)
(* and the refinement of PacketStream.                                     *)
(***************************************************************************)
EXTENDS Framing, SequenceFacts

\* Four bytes hold a length that fits an int.
LEMMA LenBytesType ==
  ASSUME NEW n \in Nat
  PROVE  LenBytes(n) \in Seq(0 .. 255) /\ Len(LenBytes(n)) = HeadSize
<1>1. \A m \in Nat : m % 256 \in 0 .. 255
  BY SMT
<1>2. /\ n \div (256 * 256 * 256) \in Nat
      /\ n \div (256 * 256) \in Nat
      /\ n \div 256 \in Nat
  BY SMT
<1>3. QED
  BY <1>1, <1>2 DEF LenBytes, K, HeadSize

\* recv_data_len reads the length that socket_send wrote, for every packet of
\* less than 16 MB.
THEOREM LengthKept ==
  ASSUME NEW n \in Nat, n < K * K * K
  PROVE  DataLen(LenBytes(n)) = n
<1> DEFINE q == n \div 256
           r == q \div 256
<1>0. n < 256 * 256 * 256
  BY DEF K
<1>1. n = 256 * q + (n % 256) /\ n % 256 \in 0 .. 255 /\ q \in Nat /\ q < 256 * 256
  BY <1>0, SMT
<1>2. q = 256 * r + (q % 256) /\ q % 256 \in 0 .. 255 /\ r \in 0 .. 255
  BY <1>1, SMT
<1>3. n \div (256 * 256) = r
  BY <1>1, <1>2, SMT
<1>4. n \div (256 * 256 * 256) = 0 /\ r % 256 = r
  BY <1>1, <1>2, SMT DEF K
<1>5. LenBytes(n) = <<0, r, q % 256, n % 256>>
  BY <1>3, <1>4, SMT DEF LenBytes, K
<1> HIDE DEF q, r
<1>6. DataLen(<<0, r, q % 256, n % 256>>) = r * 256 * 256 + (q % 256) * 256 + (n % 256)
  BY <1>1, <1>2, SMT DEF DataLen, K
<1>7. n = r * 256 * 256 + (q % 256) * 256 + (n % 256)
  BY <1>1, <1>2, SMT
<1>8. QED
  BY <1>5, <1>6, <1>7

\* A longer packet, of any length an int holds, is refused by its first byte
\* and not mistaken for a shorter one.
THEOREM LongRefused ==
  ASSUME NEW n \in Nat, n >= K * K * K, n < 128 * K * K * K
  PROVE  DataLen(LenBytes(n)) = 0
<1>1. (n \div (256 * 256 * 256)) \in 1 .. 127
  BY SMT DEF K
<1>2. (n \div (256 * 256 * 256)) % 256 # 0
  BY <1>1, SMT
<1>3. QED
  BY <1>2, SMT DEF LenBytes, DataLen, K
-----------------------------------------------------------------------------
Byte == 0 .. 255

\* What recv leaves and takes of the bytes on the wire are bytes.
LEMMA SplitType ==
  ASSUME NEW w \in Seq(Byte), NEW k \in 0 .. Len(w)
  PROVE  /\ SubSeq(w, k + 1, Len(w)) \in Seq(Byte)
         /\ SubSeq(w, 1, k) \in Seq(Byte)
         /\ Len(SubSeq(w, 1, k)) = k
<1>1. SubSeq(w, k + 1, Len(w)) \in Seq(Byte)
  BY SubSeqProperties
<1>2. SubSeq(w, 1, k) \in Seq(Byte) /\ Len(SubSeq(w, 1, k)) = k
  BY SubSeqProperties
<1>3. QED
  BY <1>1, <1>2

\* A length is a natural number whatever the four bytes are.
LEMMA DataLenType ==
  ASSUME NEW h \in Seq(Byte), Len(h) = 4
  PROVE  DataLen(h) \in Nat
<1>1. \A i \in 1 .. 4 : h[i] \in Byte
  BY ElementOfSeq
<1>2. /\ \A a \in Nat : a * 256 \in Nat
      /\ \A a, b \in Nat : a + b \in Nat
      /\ 0 \in Nat
  BY SMT
<1>3. h[1] \in Nat /\ h[2] \in Nat /\ h[3] \in Nat /\ h[4] \in Nat
  <2>1. 1 \in 1 .. 4 /\ 2 \in 1 .. 4 /\ 3 \in 1 .. 4 /\ 4 \in 1 .. 4
    OBVIOUS
  <2>2. \A b \in Byte : b \in Nat
    BY DEF Byte
  <2>3. QED
    BY <1>1, <2>1, <2>2, Zenon
<1>4. CASE h[1] # 0
  BY <1>2, <1>4, Zenon DEF DataLen
<1>5. CASE h[1] = 0
  <2> PICK a, b, c, d : a = h[1] * K * K * K /\ b = h[2] * K * K /\ c = h[3] * K /\ d = h[4]
    OBVIOUS
  <2>1. a = 0
    BY <1>5, SMT DEF K
  <2>2. b \in Nat /\ c \in Nat /\ d \in Nat
    BY <1>3 DEF K
  <2>3. DataLen(h) = a + b + c + d
    BY <1>5 DEF DataLen
  <2> QED
    BY <2>1, <2>2, <2>3
<1>6. QED
  BY <1>4, <1>5

\* Taking bytes for a packet of n bytes keeps rbuf shorter than the packet.
LEMMA RecvDataType ==
  ASSUME TypeOK, NEW w \in Seq(Byte), NEW n \in 1 .. MaxRecvs,
         NEW buf \in Seq(Byte), Len(buf) < n, RecvData(w, n, buf),
         (rsize = n /\ rbuf = buf) \/ rsize = 0,
         UNCHANGED <<sent, short, finished, stalled>>
  PROVE  TypeOK'
<1> USE FramingAssumption DEF TypeOK, Byte
<1>1. CASE w = << >> /\ finished /\ wire' = w /\ Close
  BY <1>1 DEF Close
<1>2. ASSUME NEW k \in 0 .. Len(w), k <= n - Len(buf), wire' = SubSeq(w, k + 1, Len(w)), UNCHANGED open,
             LET bytes == Keep(buf, SubSeq(w, 1, k)) IN
             IF k > 0 /\ Complete(bytes, n)
               THEN got' = Append(got, bytes) /\ rbuf' = << >> /\ rsize' = 0
               ELSE rbuf' = bytes /\ rsize' = n /\ UNCHANGED got
      PROVE  TypeOK'
  <2> DEFINE bytes == buf \o SubSeq(w, 1, k)
  <2>1. wire' \in Seq(Byte)
    BY <1>2, SplitType
  <2>2. SubSeq(w, 1, k) \in Seq(Byte) /\ Len(SubSeq(w, 1, k)) = k
    BY SplitType
  <2>3. bytes \in Seq(Byte) /\ Len(bytes) = Len(buf) + k
    BY <2>2, ConcatProperties
  <2> HIDE DEF bytes
  <2>4. CASE k > 0 /\ Len(bytes) = n
    <3>1. rbuf' = << >> /\ rsize' = 0
      BY <1>2, <2>4 DEF Keep, Complete, bytes
    <3>2. QED
      BY <1>2, <2>1, <3>1
  <2>5. CASE ~(k > 0 /\ Len(bytes) = n)
    <3>1. rbuf' = bytes /\ rsize' = n
      BY <1>2, <2>5 DEF Keep, Complete, bytes
    <3>2. Len(bytes) < n
      <4> PICK a, b : a = Len(buf) /\ b = Len(bytes)
        OBVIOUS
      <4>1. a \in Nat /\ a < n /\ b = a + k /\ n \in Nat
        BY <2>3, LenProperties
      <4>2. k \in Nat /\ k <= n - a /\ ~(k > 0 /\ b = n)
        BY <1>2, <2>5
      <4>3. b < n
        BY <4>1, <4>2
      <4> QED
        BY <4>3
    <3>3. QED
      BY <1>2, <2>1, <2>3, <3>1, <3>2
  <2>6. QED
    BY <2>4, <2>5
<1>3. QED
  BY <1>1, <1>2 DEF RecvData

\* The buffer is empty at first.
LEMMA InitTyped == Init => TypeOK
<1> USE FramingAssumption DEF TypeOK
<1> SUFFICES ASSUME Init PROVE TypeOK
  OBVIOUS
<1>1. sent \in Seq(Payload) /\ wire \in Seq(0 .. 255) /\ rbuf \in Seq(0 .. 255) /\ Len(sent) = 0
  BY DEF Init
<1>2. finished \in BOOLEAN /\ {open, stalled} \subseteq BOOLEAN
  BY DEF Init
<1>3. QED
  BY <1>1, <1>2 DEF Init

\* Every step keeps the types and the two bounds of rbuf.
LEMMA TypeKept == TypeOK /\ [Next]_vars => TypeOK'
<1> USE FramingAssumption DEF TypeOK
<1> SUFFICES ASSUME TypeOK, [Next]_vars PROVE TypeOK'
  OBVIOUS
<1>1. ASSUME NEW p \in Payload PROVE Package(p) \in Seq(Byte) /\ p \in Seq(Byte)
  <2>1. p \in Seq(Byte)
    BY DEF Byte
  <2>2. LenBytes(Len(p)) \in Seq(Byte)
    BY <2>1, LenBytesType DEF Byte
  <2>3. QED
    BY <2>1, <2>2, ConcatProperties DEF Package
<1>2. ASSUME NEW p \in Payload, Send(p) PROVE TypeOK'
  <2>1. wire' \in Seq(Byte)
    BY <1>1, <1>2, ConcatProperties DEF Send, Byte
  <2>2. QED
    BY <1>2, <2>1 DEF Send, Byte
<1>3. ASSUME NEW p \in Payload, NEW k \in 1 .. HeadSize + Len(p), SendShort(p, k) PROVE TypeOK'
  <2>1. k \in 0 .. Len(Package(p))
    BY <1>1, <1>3 DEF SendShort
  <2>2. SubSeq(Package(p), 1, k) \in Seq(Byte)
    BY <1>1, <2>1, SplitType
  <2>3. wire' \in Seq(Byte)
    BY <1>3, <2>2, ConcatProperties DEF SendShort, Byte
  <2>4. sent' \in Seq(Payload) /\ short' \in 0 .. Len(sent')
    <3>1. sent' = Append(sent, p) /\ short' \in {Len(sent'), short} /\ short \in 0 .. Len(sent)
      BY <1>3 DEF SendShort
    <3>2. sent' \in Seq(Payload)
      BY <3>1, AppendProperties
    <3>3. Len(sent) \in Nat /\ Len(sent') = Len(sent) + 1
      BY <3>1, AppendProperties, LenProperties
    <3> QED
      BY <3>1, <3>2, <3>3
  <2>5. QED
    BY <1>3, <2>3, <2>4 DEF SendShort, Byte
<1>4. CASE Finish
  BY <1>4 DEF Finish
<1>5. CASE RecvPacket
  <2> DEFINE n == DataLen(SubSeq(wire, 1, HeadSize))
             w == SubSeq(wire, HeadSize + 1, Len(wire))
  <2>1. w \in Seq(Byte)
    BY <1>5, SplitType DEF RecvPacket, HeadSize, Byte
  <2>2. CASE InLimit(n) /\ RecvData(w, n, << >>)
    <3>1. n \in 1 .. MaxRecvs
      <4>1. SubSeq(wire, 1, HeadSize) \in Seq(Byte) /\ Len(SubSeq(wire, 1, HeadSize)) = 4
        BY <1>5, SplitType DEF RecvPacket, HeadSize, Byte
      <4>2. n \in Nat
        BY <4>1, DataLenType
      <4>3. QED
        BY <2>2, <4>2 DEF InLimit
    <3>2. rsize = 0 /\ UNCHANGED <<sent, short, finished, stalled>>
      BY <1>5 DEF RecvPacket
    <3>3. << >> \in Seq(Byte) /\ Len(<< >>) < n
      BY <3>1
    <3>4. TypeOK
      OBVIOUS
    <3> HIDE DEF n, w, TypeOK
    <3>5. QED
      BY <2>1, <2>2, <3>1, <3>2, <3>3, <3>4, RecvDataType
  <2>3. CASE ~InLimit(n) /\ wire' = w /\ Close
    BY <1>5, <2>1, <2>3 DEF Close, RecvPacket, Byte
  <2>4. QED
    BY <1>5, <2>2, <2>3 DEF RecvPacket
<1>6. CASE RecvNoHead
  BY <1>6 DEF RecvNoHead, Close
<1>7. CASE RecvStalled
  <2>1. PICK k \in 1 .. HeadSize - 1 : k <= Len(wire) /\ wire' = SubSeq(wire, k + 1, Len(wire))
    BY <1>7 DEF RecvStalled
  <2>2. wire \in Seq(Byte) /\ k \in 0 .. Len(wire)
    BY <2>1 DEF HeadSize, Byte
  <2>3. wire' \in Seq(Byte)
    BY <2>1, <2>2, SplitType
  <2>4. QED
    BY <1>7, <2>3 DEF RecvStalled, Close, Byte
<1>8. CASE RecvMore
  <2>1. UNCHANGED <<sent, short, finished, stalled>> /\ RecvData(wire, rsize, rbuf) /\ rsize > 0
    BY <1>8 DEF RecvMore
  <2>2. QED
    BY <2>1, RecvDataType DEF Byte
<1>9. CASE UNCHANGED vars
  BY <1>9 DEF vars
<1>10. QED
  BY <1>2, <1>3, <1>4, <1>5, <1>6, <1>7, <1>8, <1>9 DEF Next, Recv, SendNothing

\* rbuf never holds a whole packet between two calls of socket_recv, and no
\* packet under way is longer than rtcsp_maxrecvs.
THEOREM FramingTyped == Spec => []TypeOK
BY InitTyped, TypeKept, PTL DEF Spec

-----------------------------------------------------------------------------
\* Packets that were sent whole before any was cut short.
Whole == IF short = 0 THEN Len(sent) ELSE short - 1

\* s is all that was ever put on the wire, and off says where packets end.
Layout(s, off) ==
  /\ s \in Seq(Byte) /\ off \in [Nat -> Nat] /\ off[0] = 0
  /\ \A i \in 0 .. Whole : off[i] <= Len(s)
  /\ short = 0 => off[Whole] = Len(s)
  /\ \A i \in 1 .. Whole :
       /\ off[i] = off[i - 1] + HeadSize + Len(sent[i])
       /\ \A j \in 1 .. HeadSize + Len(sent[i]) : s[off[i - 1] + j] = Package(sent[i])[j]

\* The bytes w are what is left of s behind the first c bytes.
Rest(w, s, c) ==
  /\ c \in 0 .. Len(s) /\ w \in Seq(Byte) /\ Len(w) = Len(s) - c
  /\ \A j \in 1 .. Len(w) : w[j] = s[c + j]

\* The bytes buf are the first ones of the packet p.
Begins(buf, p) == Len(buf) <= Len(p) /\ \A j \in 1 .. Len(buf) : buf[j] = p[j]

\* The receiver is between two packets, or inside one that was sent whole.
Aligned(off, c) ==
  IF rsize = 0 THEN Len(got) <= Whole /\ c = off[Len(got)]
  ELSE /\ Len(got) < Whole
       /\ rsize = Len(sent[Len(got) + 1]) /\ Fit(sent[Len(got) + 1])
       /\ Begins(rbuf, sent[Len(got) + 1])
       /\ c = off[Len(got)] + HeadSize + Len(rbuf)

\* The receiver has not come to a packet that was cut short.
Before == open /\ (short = 0 \/ Len(got) < Whole \/ (Len(got) = Whole /\ rsize = 0))

Sound ==
  /\ TypeOK /\ got \in Seq(Seq(Byte))
  /\ \A i \in 1 .. Len(sent) : Len(sent[i]) > 0
  /\ short = 0 => Len(got) <= Len(sent)
  /\ \A i \in 1 .. Len(got) : i <= Whole => got[i] = sent[i] /\ Fit(sent[i])
  /\ short = 0 /\ ~open /\ ~stalled =>
       \/ finished /\ Len(got) = Len(sent)
       \/ Len(got) < Len(sent) /\ ~Fit(sent[Len(got) + 1])

OnTrack == Before => \E s, off, c : Layout(s, off) /\ Rest(wire, s, c) /\ Aligned(off, c)

FInv == Sound /\ OnTrack

-----------------------------------------------------------------------------
\* The bytes of a packet, and what recv_data_len reads from its first four.
LEMMA PackageFacts ==
  ASSUME NEW p \in Payload
  PROVE  /\ p \in Seq(Byte) /\ Len(p) \in Nat
         /\ Package(p) \in Seq(Byte) /\ Len(Package(p)) = HeadSize + Len(p)
         /\ \A j \in 1 .. HeadSize : Package(p)[j] = LenBytes(Len(p))[j]
         /\ \A j \in 1 .. Len(p) : Package(p)[HeadSize + j] = p[j]
         /\ DataLen(LenBytes(Len(p))) = IF Len(p) < K * K * K THEN Len(p) ELSE 0
<1>1. p \in Seq(Byte) /\ Len(p) \in Nat
  BY FramingAssumption, LenProperties DEF Byte
<1> DEFINE h == LenBytes(Len(p))
<1>2. h \in Seq(Byte) /\ Len(h) = HeadSize
  BY <1>1, LenBytesType DEF Byte
<1>3. Len(p) < 128 * K * K * K
  <2>1. (Len(p) + 4) \div (256 * 256 * 256) < 128
    BY FramingAssumption
  <2> QED
    BY <1>1, <2>1 DEF K
<1>4. DataLen(h) = IF Len(p) < K * K * K THEN Len(p) ELSE 0
  <2>1. K * K * K \in Nat
    BY DEF K
  <2> QED
    BY <1>1, <1>3, <2>1, LengthKept, LongRefused
<1> HIDE DEF h
<1>5. HeadSize = 4
  BY DEF HeadSize
<1>6. /\ h \o p \in Seq(Byte) /\ Len(h \o p) = HeadSize + Len(p)
      /\ \A j \in 1 .. HeadSize : (h \o p)[j] = h[j]
      /\ \A j \in 1 .. Len(p) : (h \o p)[HeadSize + j] = p[j]
  <2>1. /\ h \o p \in Seq(Byte) /\ Len(h \o p) = Len(h) + Len(p)
        /\ \A j \in 1 .. Len(h) + Len(p) : (h \o p)[j] = IF j <= Len(h) THEN h[j] ELSE p[j - Len(h)]
    BY <1>1, <1>2, ConcatProperties
  <2>2. ASSUME NEW j \in 1 .. Len(p), NEW m, m = HeadSize + j PROVE (h \o p)[m] = p[j]
    <3>1. m \in 1 .. Len(h) + Len(p) /\ ~(m <= Len(h)) /\ m - Len(h) = j
      BY <1>1, <1>2, <1>5, <2>2
    <3>2. (h \o p)[m] = p[m - Len(h)]
      BY <2>1, <3>1
    <3> QED
      BY <3>1, <3>2
  <2> QED
    BY <1>1, <1>2, <1>5, <2>1, <2>2
<1> QED
  BY <1>1, <1>4, <1>6 DEF Package, h

\* Bytes that are sent are left behind those that were.
LEMMA RestGrows ==
  ASSUME NEW w, NEW s \in Seq(Byte), NEW c, Rest(w, s, c), NEW b \in Seq(Byte)
  PROVE  Rest(w \o b, s \o b, c)
<1> DEFINE u == w \o b
           t == s \o b
<1>1. /\ c \in 0 .. Len(s) /\ w \in Seq(Byte) /\ Len(w) = Len(s) - c /\ Len(s) \in Nat
      /\ Len(b) \in Nat /\ Len(w) \in Nat
      /\ \A j \in 1 .. Len(w) : w[j] = s[c + j]
  BY LenProperties DEF Rest
<1>2. /\ u \in Seq(Byte) /\ Len(u) = Len(w) + Len(b)
      /\ \A j \in 1 .. Len(w) + Len(b) : u[j] = IF j <= Len(w) THEN w[j] ELSE b[j - Len(w)]
      /\ t \in Seq(Byte) /\ Len(t) = Len(s) + Len(b)
      /\ \A j \in 1 .. Len(s) + Len(b) : t[j] = IF j <= Len(s) THEN s[j] ELSE b[j - Len(s)]
  BY <1>1, ConcatProperties
<1> HIDE DEF u, t
<1>3. ASSUME NEW j \in 1 .. Len(u) PROVE u[j] = t[c + j]
  <2> DEFINE m == c + j
  <2>1. /\ j \in 1 .. Len(w) + Len(b) /\ m \in 1 .. Len(s) + Len(b)
        /\ (j <= Len(w) <=> m <= Len(s)) /\ j - Len(w) = m - Len(s)
        /\ j <= Len(w) => j \in 1 .. Len(w)
    BY <1>1, <1>2
  <2>2. u[j] = (IF j <= Len(w) THEN w[j] ELSE b[j - Len(w)])
    BY <1>2, <2>1
  <2>3. j <= Len(w) => w[j] = s[m]
    BY <1>1, <2>1
  <2> HIDE DEF m
  <2>4. t[m] = (IF m <= Len(s) THEN s[m] ELSE b[m - Len(s)])
    BY <1>2, <2>1
  <2>5. u[j] = t[m]
    BY <2>1, <2>2, <2>3, <2>4
  <2> QED
    BY <2>5 DEF m
<1> QED
  BY <1>1, <1>2, <1>3 DEF Rest, u, t

\* The first k bytes on the wire are the next k of the stream, the others are
\* what is left.
NextBytes(w, s, c, k) ==
  /\ Rest(SubSeq(w, k + 1, Len(w)), s, c + k)
  /\ SubSeq(w, 1, k) \in Seq(Byte) /\ Len(SubSeq(w, 1, k)) = k
  /\ \A j \in 1 .. k : SubSeq(w, 1, k)[j] = s[c + j]

\* Bytes that are received are gone from the wire.
LEMMA RestShrinks ==
  ASSUME NEW w, NEW s \in Seq(Byte), NEW c, Rest(w, s, c), NEW k \in 0 .. Len(w)
  PROVE  NextBytes(w, s, c, k)
<1>1. /\ c \in 0 .. Len(s) /\ w \in Seq(Byte) /\ Len(w) = Len(s) - c /\ Len(s) \in Nat
      /\ Len(w) \in Nat /\ k \in Nat /\ k <= Len(w)
      /\ \A j \in 1 .. Len(w) : w[j] = s[c + j]
  BY LenProperties DEF Rest
<1> DEFINE u == SubSeq(w, k + 1, Len(w))
           t == SubSeq(w, 1, k)
<1>2. /\ u \in Seq(Byte) /\ Len(u) = Len(w) - k
      /\ \A j \in 1 .. Len(w) - k : u[j] = w[k + j]
  <2>1. /\ u \in Seq(Byte)
        /\ Len(u) = IF k + 1 <= Len(w) THEN Len(w) - (k + 1) + 1 ELSE 0
        /\ \A j \in 1 .. Len(w) - (k + 1) + 1 : u[j] = w[(k + 1) + j - 1]
    BY <1>1, SubSeqProperties
  <2> HIDE DEF u
  <2>2. ASSUME NEW j \in 1 .. Len(w) - k PROVE u[j] = w[k + j]
    <3>1. j \in 1 .. Len(w) - (k + 1) + 1 /\ (k + 1) + j - 1 = k + j
      BY <1>1
    <3> QED
      BY <2>1, <3>1
  <2>3. Len(u) = Len(w) - k
    <3>1. Len(u) = IF k + 1 <= Len(w) THEN Len(w) - (k + 1) + 1 ELSE 0
      BY <2>1
    <3> PICK m \in Nat : m = Len(w)
      BY <1>1
    <3>2. m \in Nat /\ k \in Nat /\ k <= m
      BY <1>1
    <3>3. (IF k + 1 <= m THEN m - (k + 1) + 1 ELSE 0) = m - k
      BY <3>2
    <3> QED
      BY <3>1, <3>3
  <2> QED
    BY <2>1, <2>2, <2>3
<1>3. /\ t \in Seq(Byte) /\ Len(t) = k /\ \A j \in 1 .. k : t[j] = w[j]
  <2>1. /\ t \in Seq(Byte) /\ Len(t) = (IF 1 <= k THEN k - 1 + 1 ELSE 0)
        /\ \A j \in 1 .. k - 1 + 1 : t[j] = w[1 + j - 1]
    BY <1>1, SubSeqProperties
  <2> HIDE DEF t
  <2>2. ASSUME NEW j \in 1 .. k PROVE t[j] = w[j]
    <3>1. j \in 1 .. k - 1 + 1 /\ 1 + j - 1 = j
      BY <1>1
    <3> QED
      BY <2>1, <3>1
  <2> QED
    BY <1>1, <2>1, <2>2
<1> HIDE DEF u, t
<1>4. ASSUME NEW j \in 1 .. Len(u) PROVE u[j] = s[(c + k) + j]
  <2>1. j \in 1 .. Len(w) - k /\ k + j \in 1 .. Len(w) /\ c + (k + j) = (c + k) + j
    BY <1>1, <1>2
  <2>2. u[j] = w[k + j]
    BY <1>2, <2>1
  <2>3. \A m \in 1 .. Len(w) : w[m] = s[c + m]
    BY <1>1
  <2>4. w[k + j] = s[c + (k + j)]
    BY <2>1, <2>3
  <2> QED
    BY <2>1, <2>2, <2>4
<1>5. ASSUME NEW j \in 1 .. k PROVE t[j] = s[c + j]
  <2>1. j \in 1 .. Len(w)
    BY <1>1
  <2> QED
    BY <1>1, <1>3, <2>1
<1>6. Rest(u, s, c + k)
  BY <1>1, <1>2, <1>4 DEF Rest
<1> QED
  BY <1>3, <1>5, <1>6 DEF NextBytes, u, t

-----------------------------------------------------------------------------
\* The packets that were sent whole are still there after a send, and there
\* is one more unless this or an earlier one was cut short.
LEMMA SentGrows ==
  ASSUME TypeOK, NEW p \in Payload, sent' = Append(sent, p),
         short' = short \/ (short = 0 /\ short' = Len(sent'))
  PROVE  /\ Len(sent) \in Nat /\ Len(sent') = Len(sent) + 1 /\ sent'[Len(sent) + 1] = p
         /\ sent' \in Seq(Payload)
         /\ \A i \in 1 .. Len(sent) : sent'[i] = sent[i] /\ sent[i] \in Payload
         /\ Whole \in 0 .. Len(sent) /\ short \in Nat /\ short' \in Nat
         /\ Whole' = IF short' = 0 THEN Whole + 1 ELSE Whole
<1>1. sent \in Seq(Payload) /\ short \in 0 .. Len(sent) /\ Len(sent) \in Nat
  BY LenProperties DEF TypeOK
<1>2. /\ Len(sent') = Len(sent) + 1 /\ sent'[Len(sent) + 1] = p /\ sent' \in Seq(Payload)
      /\ \A i \in 1 .. Len(sent) : sent'[i] = sent[i]
  BY <1>1, AppendProperties
<1>3. \A i \in 1 .. Len(sent) : sent[i] \in Payload
  BY <1>1, LenProperties
<1>4. Whole \in 0 .. Len(sent) /\ Whole' = IF short' = 0 THEN Whole + 1 ELSE Whole
  BY <1>1, <1>2 DEF Whole
<1> QED
  BY <1>1, <1>2, <1>3, <1>4

\* The ends of the packets, with that of p behind the bytes s if p is sent whole.
OneMore(end, off, s, p) ==
  /\ end \in [Nat -> Nat]
  /\ \A i \in 0 .. Whole : end[i] = off[i]
  /\ short' = 0 => end[Whole + 1] = Len(s) + HeadSize + Len(p)

\* What a send does to the layout: the end of a whole packet is one more end.
LEMMA LayoutGrows ==
  ASSUME TypeOK, NEW p \in Payload, NEW b \in Seq(Byte), NEW s, NEW off, Layout(s, off),
         sent' = Append(sent, p), short' = short \/ (short = 0 /\ short' = Len(sent')),
         short' = 0 => b = Package(p),
         NEW t, t = s \o b,
         NEW end, OneMore(end, off, s, p)
  PROVE  Layout(t, end)'
<1>1. /\ Len(sent) \in Nat /\ Len(sent') = Len(sent) + 1 /\ sent'[Len(sent) + 1] = p
      /\ \A i \in 1 .. Len(sent) : sent'[i] = sent[i] /\ sent[i] \in Payload
      /\ Whole \in 0 .. Len(sent) /\ short \in Nat
      /\ Whole' = IF short' = 0 THEN Whole + 1 ELSE Whole
  BY SentGrows
<1>2. short' = 0 => short = 0 /\ Whole = Len(sent)
  BY <1>1 DEF Whole
<1>3. /\ s \in Seq(Byte) /\ off \in [Nat -> Nat] /\ off[0] = 0
      /\ \A i \in 0 .. Whole : off[i] <= Len(s)
      /\ short = 0 => off[Whole] = Len(s)
      /\ \A i \in 1 .. Whole : off[i] = off[i - 1] + HeadSize + Len(sent[i])
  BY DEF Layout
<1>4. ASSUME NEW i \in 1 .. Whole, NEW j \in 1 .. HeadSize + Len(sent[i])
      PROVE  s[off[i - 1] + j] = Package(sent[i])[j]
  BY DEF Layout
<1>5. Len(p) \in Nat /\ HeadSize = 4
  BY PackageFacts DEF HeadSize
<1>6. /\ t \in Seq(Byte) /\ Len(t) = Len(s) + Len(b) /\ Len(s) \in Nat /\ Len(b) \in Nat
      /\ \A j \in 1 .. Len(s) + Len(b) : t[j] = IF j <= Len(s) THEN s[j] ELSE b[j - Len(s)]
  BY <1>3, ConcatProperties, LenProperties
<1>7. /\ end \in [Nat -> Nat]
      /\ \A i \in 0 .. Whole : end[i] = off[i]
      /\ short' = 0 => end[Whole + 1] = Len(s) + HeadSize + Len(p)
  BY DEF OneMore
<1>8. end[0] = 0
  BY <1>1, <1>3, <1>7
<1>9. short' = 0 => Len(b) = HeadSize + Len(p)
  BY PackageFacts
<1>10. ASSUME NEW i \in 0 .. Whole' PROVE end[i] <= Len(t)
  <2>1. CASE i \in 0 .. Whole
    <3>1. end[i] = off[i] /\ off[i] <= Len(s) /\ i \in Nat
      <4>1. end[i] = off[i]
        BY <1>7, <2>1
      <4>2. off[i] <= Len(s)
        BY <1>3, <2>1
      <4> QED
        BY <4>1, <4>2
    <3>2. off[i] \in Nat
      BY <1>3, <3>1
    <3> QED
      BY <1>6, <3>1, <3>2
  <2>2. CASE i = Whole + 1 /\ short' = 0
    BY <1>6, <1>7, <1>9, <1>5, <2>2
  <2> QED
    BY <1>1, <2>1, <2>2
<1>11. short' = 0 => end[Whole'] = Len(t)
  <2> HAVE short' = 0
  <2>1. Whole' = Whole + 1 /\ end[Whole + 1] = Len(s) + HeadSize + Len(p)
    BY <1>1, <1>7
  <2>2. Len(t) = Len(s) + (HeadSize + Len(p)) /\ Len(s) \in Nat
    BY <1>6, <1>9
  <2> QED
    BY <1>5, <2>1, <2>2
<1>12. ASSUME NEW i \in 1 .. Whole'
       PROVE  /\ end[i] = end[i - 1] + HeadSize + Len(sent'[i])
              /\ \A j \in 1 .. HeadSize + Len(sent'[i]) : t[end[i - 1] + j] = Package(sent'[i])[j]
  <2>1. CASE i \in 1 .. Whole
    <3>1. /\ sent'[i] = sent[i] /\ sent[i] \in Payload /\ i - 1 \in 0 .. Whole /\ i \in 0 .. Whole
      BY <1>1, <2>1
    <3>2. /\ end[i] = off[i] /\ end[i - 1] = off[i - 1] /\ off[i] <= Len(s)
          /\ off[i] = off[i - 1] + HeadSize + Len(sent[i])
      BY <1>1, <1>3, <1>7, <2>1, <3>1
    <3>3. Len(sent[i]) \in Nat /\ off[i - 1] \in Nat
      <4>1. i - 1 \in Nat
        BY <1>1, <3>1
      <4> QED
        BY <1>3, <3>1, <4>1, PackageFacts
    <3>4. ASSUME NEW j \in 1 .. HeadSize + Len(sent[i])
          PROVE  t[off[i - 1] + j] = Package(sent[i])[j]
      <4>1. off[i - 1] + j \in 1 .. Len(s) + Len(b) /\ off[i - 1] + j <= Len(s)
        <5> DEFINE x == off[i - 1]
                   y == Len(sent[i])
        <5>1. x \in Nat /\ y \in Nat /\ j \in 1 .. 4 + y /\ x + 4 + y <= Len(s)
          BY <1>5, <3>2, <3>3
        <5>2. Len(s) \in Nat /\ Len(b) \in Nat
          BY <1>6
        <5> HIDE DEF x, y
        <5>3. x + j \in 1 .. Len(s) + Len(b) /\ x + j <= Len(s)
          BY <5>1, <5>2
        <5> QED
          BY <5>3 DEF x
      <4>2. t[off[i - 1] + j] = s[off[i - 1] + j]
        BY <1>6, <4>1
      <4> QED
        BY <1>4, <2>1, <4>2
    <3> QED
      BY <3>1, <3>2, <3>4
  <2>2. CASE i = Whole + 1 /\ short' = 0
    <3>1. sent'[i] = p /\ i - 1 = Whole /\ end[i - 1] = Len(s) /\ end[i] = Len(s) + HeadSize + Len(p)
      <4>1. sent'[i] = p /\ i - 1 = Whole /\ Whole \in 0 .. Whole
        BY <1>1, <1>2, <2>2
      <4>2. end[Whole] = off[Whole] /\ off[Whole] = Len(s)
        BY <1>2, <1>3, <1>7, <2>2, <4>1
      <4> QED
        BY <1>7, <2>2, <4>1, <4>2
    <3>2. ASSUME NEW j \in 1 .. HeadSize + Len(p), NEW m, m = Len(s) + j
          PROVE  t[m] = Package(p)[j]
      <4>1. m \in 1 .. Len(s) + Len(b) /\ ~(m <= Len(s)) /\ m - Len(s) = j
        BY <1>5, <1>6, <1>9, <2>2, <3>2
      <4>2. t[m] = b[m - Len(s)]
        BY <1>6, <4>1
      <4> QED
        BY <2>2, <4>1, <4>2
    <3> QED
      BY <3>1, <3>2
  <2>3. i \in 1 .. Whole \/ (i = Whole + 1 /\ short' = 0)
    BY <1>1
  <2> QED
    BY <2>1, <2>2, <2>3
<1> QED
  BY <1>6, <1>7, <1>8, <1>10, <1>11, <1>12 DEF Layout

-----------------------------------------------------------------------------
\* Places behind the head of a packet of n bytes that begins behind x bytes, of
\* the m that were sent, and b of whose bytes have been taken.
LEMMA BehindHead ==
  ASSUME NEW x \in Nat, NEW h \in Nat, NEW n \in Nat, NEW j \in Nat, 1 <= j, j <= n
  PROVE  h + j \in 1 .. h + n /\ x + (h + j) = x + h + j
OBVIOUS

LEMMA LeftBehind ==
  ASSUME NEW x \in Nat, NEW h \in Nat, NEW n \in Nat, NEW m \in Nat, x + h + n <= m
  PROVE  m - x >= h + n /\ h \in 0 .. m - x
OBVIOUS

LEMMA LeftInside ==
  ASSUME NEW x \in Nat, NEW h \in Nat, NEW n \in Nat, NEW m \in Nat, x + h + n <= m,
         NEW b \in Nat, b < n
  PROVE  m - (x + h + b) >= n - b /\ m - (x + h + b) > 0
OBVIOUS

LEMMA TakenInside ==
  ASSUME NEW x \in Nat, NEW h \in Nat, NEW b \in Nat, NEW k \in Nat
  PROVE  (x + h + b) + k = x + h + (b + k)
OBVIOUS

\* A packet that was sent whole is there, from its first byte to its last.
LEMMA PacketThere ==
  ASSUME TypeOK, NEW s, NEW off, Layout(s, off), NEW g \in Nat, g < Whole, NEW p, p = sent[g + 1]
  PROVE  /\ p \in Payload /\ p \in Seq(Byte) /\ Len(p) \in Nat
         /\ off[g] \in Nat /\ Len(s) \in Nat /\ off[g + 1] = off[g] + HeadSize + Len(p)
         /\ off[g + 1] <= Len(s)
         /\ \A j \in 1 .. HeadSize : s[off[g] + j] = LenBytes(Len(p))[j]
         /\ \A j \in 1 .. Len(p) : s[off[g] + HeadSize + j] = p[j]
<1> PICK i : i = g + 1
  OBVIOUS
<1>1. sent \in Seq(Payload) /\ Len(sent) \in Nat /\ Whole \in 0 .. Len(sent)
  BY LenProperties DEF TypeOK, Whole
<1>2. i \in 1 .. Whole /\ i \in 0 .. Whole /\ i \in 1 .. Len(sent) /\ i - 1 = g /\ p = sent[i]
  BY <1>1
<1>3. p \in Payload
  BY <1>1, <1>2, LenProperties
<1>4. /\ s \in Seq(Byte) /\ off \in [Nat -> Nat] /\ off[i] <= Len(s)
      /\ off[i] = off[i - 1] + HeadSize + Len(sent[i])
  BY <1>2 DEF Layout
<1>5. \A j \in 1 .. HeadSize + Len(p) : s[off[g] + j] = Package(p)[j]
  BY <1>2 DEF Layout
<1>6. /\ p \in Seq(Byte) /\ Len(p) \in Nat
      /\ \A j \in 1 .. HeadSize : Package(p)[j] = LenBytes(Len(p))[j]
      /\ \A j \in 1 .. Len(p) : Package(p)[HeadSize + j] = p[j]
  BY <1>3, PackageFacts
<1>7. off[g] \in Nat /\ Len(s) \in Nat /\ HeadSize = 4
  BY <1>4, LenProperties DEF HeadSize
<1>8. ASSUME NEW j \in 1 .. HeadSize PROVE s[off[g] + j] = LenBytes(Len(p))[j]
  <2>1. j \in 1 .. HeadSize + Len(p)
    BY <1>6, <1>7
  <2> QED
    BY <1>5, <1>6, <2>1
<1>9. ASSUME NEW j \in 1 .. Len(p) PROVE s[off[g] + HeadSize + j] = p[j]
  <2> PICK m : m = HeadSize + j
    OBVIOUS
  <2>1. HeadSize \in Nat
    BY <1>7
  <2>2. m \in 1 .. HeadSize + Len(p) /\ off[g] + m = off[g] + HeadSize + j
    <3>1. HeadSize + j \in 1 .. HeadSize + Len(p) /\ off[g] + (HeadSize + j) = off[g] + HeadSize + j
      <4>1. j \in Nat /\ 1 <= j /\ j <= Len(p)
        BY <1>6
      <4>2. off[g] \in Nat /\ Len(p) \in Nat
        BY <1>6, <1>7
      <4> QED
        BY <2>1, <4>1, <4>2, BehindHead
    <3> QED
      BY <3>1
  <2>3. s[off[g] + m] = Package(p)[m]
    BY <1>5, <2>2
  <2> QED
    BY <1>6, <2>2, <2>3
<1> QED
  BY <1>2, <1>3, <1>4, <1>6, <1>7, <1>8, <1>9

\* recv_data_len reads the length of the packet that is next.
LEMMA HeadRead ==
  ASSUME TypeOK, NEW s, NEW off, Layout(s, off), NEW g \in Nat, g < Whole, NEW p, p = sent[g + 1],
         Rest(wire, s, off[g])
  PROVE  /\ Len(wire) >= HeadSize + Len(p)
         /\ DataLen(SubSeq(wire, 1, HeadSize)) = IF Len(p) < K * K * K THEN Len(p) ELSE 0
<1>1. /\ p \in Payload /\ Len(p) \in Nat
      /\ off[g] \in Nat /\ Len(s) \in Nat /\ off[g + 1] = off[g] + HeadSize + Len(p)
      /\ off[g + 1] <= Len(s)
      /\ \A j \in 1 .. HeadSize : s[off[g] + j] = LenBytes(Len(p))[j]
  BY PacketThere
<1>2. Len(wire) = Len(s) - off[g] /\ HeadSize = 4 /\ s \in Seq(Byte)
  BY DEF Rest, HeadSize, Layout
<1>3. Len(wire) >= HeadSize + Len(p) /\ HeadSize \in 0 .. Len(wire)
  <2>1. HeadSize \in Nat /\ Len(wire) = Len(s) - off[g]
    BY <1>2
  <2>2. off[g] + HeadSize + Len(p) <= Len(s)
    BY <1>1, Zenon
  <2> QED
    <3>1. /\ Len(s) - off[g] >= HeadSize + Len(p)
          /\ HeadSize \in 0 .. Len(s) - off[g]
      BY <1>1, <2>1, <2>2, LeftBehind, Zenon
    <3> QED
      BY <2>1, <3>1
<1> DEFINE h == SubSeq(wire, 1, HeadSize)
           e == LenBytes(Len(p))
<1>4. /\ h \in Seq(Byte) /\ Len(h) = HeadSize
      /\ \A j \in 1 .. HeadSize : h[j] = s[off[g] + j]
  <2>1. HeadSize \in 0 .. Len(wire) /\ s \in Seq(Byte) /\ Rest(wire, s, off[g])
    BY <1>2, <1>3
  <2>2. NextBytes(wire, s, off[g], HeadSize)
    BY <2>1, RestShrinks
  <2> QED
    BY <2>2 DEF NextBytes
<1>5. e \in Seq(Byte) /\ Len(e) = HeadSize
  BY <1>1, LenBytesType DEF Byte
<1>6. \A j \in 1 .. HeadSize : h[j] = e[j]
  BY <1>1, <1>4
<1> HIDE DEF h, e
<1>7. h = e
  BY <1>4, <1>5, <1>6, SeqEqual
<1>8. DataLen(e) = IF Len(p) < K * K * K THEN Len(p) ELSE 0
  BY <1>1, PackageFacts DEF e
<1> QED
  BY <1>3, <1>7, <1>8 DEF h

\* Taking bytes of a packet that was sent whole: they are the next ones of that
\* packet, and with the last of them it is handed out.
LEMMA DataTaken ==
  ASSUME TypeOK, NEW s, NEW off, Layout(s, off), NEW g, g = Len(got), got \in Seq(Seq(Byte)),
         g < Whole, NEW p, p = sent[g + 1], Fit(p),
         NEW buf \in Seq(Byte), Begins(buf, p), Len(buf) < Len(p),
         NEW w, NEW c, Rest(w, s, c), c = off[g] + HeadSize + Len(buf),
         RecvData(w, Len(p), buf), UNCHANGED <<sent, short, finished>>
  PROVE  /\ open' = open /\ \E d : Rest(wire', s, d) /\ Aligned(off, d)'
         /\ got' = got \/ got' = Append(got, p)
<1>1. /\ g \in Nat /\ p \in Seq(Byte) /\ Len(p) \in Nat
      /\ off[g] \in Nat /\ Len(s) \in Nat /\ off[g + 1] = off[g] + HeadSize + Len(p)
      /\ off[g + 1] <= Len(s)
      /\ \A j \in 1 .. Len(p) : s[off[g] + HeadSize + j] = p[j]
  <2>1. g \in Nat
    BY LenProperties
  <2> QED
    BY <2>1, PacketThere
<1>2. /\ c \in 0 .. Len(s) /\ w \in Seq(Byte) /\ Len(w) = Len(s) - c /\ Len(buf) \in Nat
      /\ HeadSize = 4 /\ s \in Seq(Byte) /\ Whole' = Whole
  BY LenProperties DEF Rest, HeadSize, Layout, Whole
<1>3. Len(w) >= Len(p) - Len(buf) /\ Len(w) > 0 /\ w # << >>
  <2>1. HeadSize \in Nat /\ Len(w) = Len(s) - c /\ Len(buf) \in Nat /\ Len(buf) < Len(p)
    BY <1>2
  <2>2. off[g] + HeadSize + Len(p) <= Len(s)
    BY <1>1, Zenon
  <2>3. Len(w) >= Len(p) - Len(buf) /\ Len(w) > 0
    <3>1. /\ Len(s) - (off[g] + HeadSize + Len(buf)) >= Len(p) - Len(buf)
          /\ Len(s) - (off[g] + HeadSize + Len(buf)) > 0
      BY <1>1, <2>1, <2>2, LeftInside, Zenon
    <3>2. Len(w) = Len(s) - (off[g] + HeadSize + Len(buf))
      BY <2>1
    <3> QED
      BY <3>1, <3>2, Zenon
  <2> QED
    BY <2>3, EmptySeq
<1>11. PICK k \in 0 .. Len(w) :
        /\ k <= Len(p) - Len(buf)
        /\ wire' = SubSeq(w, k + 1, Len(w))
        /\ LET bytes == Keep(buf, SubSeq(w, 1, k)) IN
             IF k > 0 /\ Complete(bytes, Len(p))
               THEN got' = Append(got, bytes) /\ rbuf' = << >> /\ rsize' = 0
               ELSE rbuf' = bytes /\ rsize' = Len(p) /\ UNCHANGED got
        /\ UNCHANGED open
  BY <1>3 DEF RecvData
<1>4. k \in Nat /\ k <= Len(p) - Len(buf) /\ wire' = SubSeq(w, k + 1, Len(w)) /\ open' = open
  <2>1. k \in Nat
    OBVIOUS
  <2>2. k <= Len(p) - Len(buf) /\ wire' = SubSeq(w, k + 1, Len(w)) /\ open' = open
    BY <1>11, Zenon
  <2> QED
    BY <2>1, <2>2
<1> DEFINE t == SubSeq(w, 1, k)
           a == buf \o t
<1>5. /\ Rest(wire', s, c + k) /\ t \in Seq(Byte) /\ Len(t) = k
      /\ \A j \in 1 .. k : t[j] = s[c + j]
  <2>1. s \in Seq(Byte)
    BY <1>2
  <2>2. /\ Rest(SubSeq(w, k + 1, Len(w)), s, c + k) /\ SubSeq(w, 1, k) \in Seq(Byte)
        /\ Len(SubSeq(w, 1, k)) = k
        /\ \A j \in 1 .. k : SubSeq(w, 1, k)[j] = s[c + j]
    <3>1. NextBytes(w, s, c, k)
      BY <2>1, RestShrinks
    <3> QED
      BY <3>1, Zenon DEF NextBytes
  <2>3. wire' = SubSeq(w, k + 1, Len(w))
    BY <1>4
  <2> QED
    BY <2>2, <2>3, Zenon
<1> HIDE DEF t
<1>6. /\ a \in Seq(Byte) /\ Len(a) = Len(buf) + k
      /\ \A j \in 1 .. Len(buf) + k : a[j] = IF j <= Len(buf) THEN buf[j] ELSE t[j - Len(buf)]
  <2>1. t \in Seq(Byte) /\ Len(t) = k
    BY <1>5
  <2>2. /\ buf \o t \in Seq(Byte) /\ Len(buf \o t) = Len(buf) + Len(t)
        /\ \A j \in 1 .. Len(buf) + Len(t) :
             (buf \o t)[j] = IF j <= Len(buf) THEN buf[j] ELSE t[j - Len(buf)]
    BY <2>1, ConcatProperties, Zenon
  <2> QED
    BY <2>1, <2>2
<1> HIDE DEF a
<1>13. ASSUME NEW i \in Nat PROVE (off[g] + HeadSize + Len(buf)) + i = off[g] + HeadSize + (Len(buf) + i)
  <2>1. off[g] \in Nat /\ HeadSize \in Nat /\ Len(buf) \in Nat
    BY <1>1, <1>2
  <2> QED
    BY <2>1, TakenInside
<1>12. ASSUME NEW i \in 1 .. k PROVE s[c + i] = p[Len(buf) + i]
  <2>1. off[g] \in Nat /\ HeadSize \in Nat /\ Len(buf) \in Nat /\ i \in Nat
    BY <1>1, <1>2, <1>4
  <2>2. (off[g] + HeadSize + Len(buf)) + i = off[g] + HeadSize + (Len(buf) + i)
    BY <1>13, <2>1
  <2>3. Len(buf) + i \in 1 .. Len(p)
    <3>1. Len(p) \in Nat /\ Len(buf) \in Nat /\ k \in Nat /\ k <= Len(p) - Len(buf)
      BY <1>1, <1>2, <1>4
    <3> QED
      BY <3>1
  <2>4. s[off[g] + HeadSize + (Len(buf) + i)] = p[Len(buf) + i]
    BY <1>1, <2>3
  <2> QED
    BY <2>2, <2>4
<1>7. ASSUME NEW j \in 1 .. Len(a) PROVE a[j] = p[j]
  <2>1. j \in 1 .. Len(buf) + k /\ j \in 1 .. Len(p)
    <3>1. Len(p) \in Nat /\ Len(buf) \in Nat /\ k \in Nat /\ k <= Len(p) - Len(buf)
      BY <1>1, <1>2, <1>4
    <3>2. j \in 1 .. Len(buf) + k
      BY <1>6
    <3> QED
      BY <3>1, <3>2
  <2>2. CASE j <= Len(buf)
    <3>1. j \in 1 .. Len(buf) /\ a[j] = buf[j]
      BY <1>2, <1>6, <2>1, <2>2
    <3> QED
      BY <3>1 DEF Begins
  <2>3. CASE ~(j <= Len(buf))
    <3> PICK m : m = j - Len(buf)
      OBVIOUS
    <3>1. m \in 1 .. k /\ a[j] = t[m]
      BY <1>2, <1>6, <2>1, <2>3
    <3>2. t[m] = s[c + m]
      BY <1>5, <3>1
    <3>3. s[c + m] = p[Len(buf) + m]
      BY <1>12, <3>1
    <3>4. Len(buf) + m = j
      <4>1. Len(buf) \in Nat /\ j \in Nat
        BY <1>2, <2>1
      <4> QED
        BY <4>1
    <3> QED
      BY <3>1, <3>2, <3>3, <3>4
  <2> QED
    BY <2>2, <2>3
<1>8. k \in Nat /\ Len(a) = Len(buf) + k /\ Len(a) <= Len(p) /\ Len(p) \in Nat /\ Len(buf) \in Nat
  <2>1. Len(p) \in Nat /\ Len(buf) \in Nat /\ k \in Nat /\ k <= Len(p) - Len(buf)
    BY <1>1, <1>2, <1>4
  <2>2. Len(a) = Len(buf) + k
    BY <1>6
  <2> QED
    BY <2>1, <2>2
<1>9. CASE k > 0 /\ Len(a) = Len(p)
  <2>1. a = p
    BY <1>1, <1>6, <1>7, <1>9, SeqEqual
  <2>2. got' = Append(got, a) /\ rsize' = 0
    BY <1>11, <1>9 DEF Keep, Complete, a, t
  <2>3. Len(got') = g + 1
    BY <1>6, <2>2, AppendProperties
  <2>4. c + k = off[g + 1]
    <3> PICK x, y : x = off[g] /\ y = off[g + 1]
      OBVIOUS
    <3>1. x \in Nat /\ y = x + HeadSize + Len(p) /\ c = x + HeadSize + Len(buf)
      BY <1>1
    <3>2. Len(buf) \in Nat /\ HeadSize = 4 /\ k \in Nat /\ Len(p) = Len(buf) + k
      BY <1>2, <1>8, <1>9
    <3>3. c + k = y
      BY <3>1, <3>2
    <3> QED
      BY <3>3
  <2>5. Aligned(off, c + k)'
    <3>1. g + 1 <= Whole
      <4>1. Whole \in Nat
        BY LenProperties DEF TypeOK, Whole
      <4> QED
        BY <1>1, <4>1
    <3>2. rsize' = 0 /\ Len(got') <= Whole' /\ c + k = off[Len(got')]
      BY <1>2, <2>2, <2>3, <2>4, <3>1
    <3> QED
      BY <3>2 DEF Aligned
  <2> QED
    BY <1>4, <1>5, <2>1, <2>2, <2>5
<1>10. CASE ~(k > 0 /\ Len(a) = Len(p))
  <2>1. rbuf' = a /\ rsize' = Len(p) /\ got' = got
    BY <1>11, <1>10 DEF Keep, Complete, a, t
  <2>2. c + k = off[g] + HeadSize + Len(a)
    <3>1. HeadSize \in Nat /\ Len(a) = Len(buf) + k
      BY <1>2, <1>8
    <3> QED
      <4>1. (off[g] + HeadSize + Len(buf)) + k = off[g] + HeadSize + (Len(buf) + k)
        BY <1>1, <1>8, <3>1, TakenInside
      <4> QED
        BY <3>1, <4>1, Zenon
  <2>3. Begins(a, p)
    BY <1>7, <1>8 DEF Begins
  <2>4. Len(p) # 0
    BY <1>1, <1>2
  <2>5. Aligned(off, c + k)'
    BY <1>2, <2>1, <2>2, <2>3, <2>4 DEF Aligned
  <2> QED
    BY <1>4, <1>5, <2>1, <2>5
<1> QED
  BY <1>9, <1>10

-----------------------------------------------------------------------------
\* What Send and SendShort have in common: b is the part that was sent.
Sends(p, b) ==
  /\ b \in Seq(Byte) /\ Len(p) > 0 /\ ~finished
  /\ sent' = Append(sent, p) /\ (short' = short \/ (short = 0 /\ short' = Len(sent')))
  /\ short' = 0 => b = Package(p)
  /\ wire' = wire \o b
  /\ UNCHANGED <<finished, rbuf, rsize, got, open, stalled>>

\* Every call of socket_send is such a step.
LEMMA SendCases ==
  ASSUME TypeOK, NEW p \in Payload, NEW k \in 1 .. HeadSize + Len(p), Send(p) \/ SendShort(p, k)
  PROVE  \E b : Sends(p, b)
<1>1. Package(p) \in Seq(Byte) /\ Len(Package(p)) = HeadSize + Len(p) /\ Len(p) \in Nat
  BY PackageFacts
<1>2. CASE Send(p)
  <2>1. Sends(p, Package(p))
    BY <1>1, <1>2 DEF Send, MaySend, Sends
  <2> QED
    BY <2>1
<1>3. CASE SendShort(p, k)
  <2>1. k \in 0 .. Len(Package(p))
    BY <1>1 DEF HeadSize
  <2>2. SubSeq(Package(p), 1, k) \in Seq(Byte)
    BY <1>1, <2>1, SplitType
  <2>3. short' # 0 /\ (short' = short \/ (short = 0 /\ short' = Len(sent'))) /\ sent' = Append(sent, p)
    <3>1. sent \in Seq(Payload)
      BY DEF TypeOK
    <3>2. sent' = Append(sent, p) /\ short' = IF short = 0 THEN Len(sent') ELSE short
      BY <1>3 DEF SendShort
    <3>3. Len(sent') = Len(sent) + 1 /\ Len(sent) \in Nat
      BY <3>1, <3>2, AppendProperties, LenProperties
    <3> QED
      BY <3>2, <3>3
  <2>4. Sends(p, SubSeq(Package(p), 1, k))
    BY <1>3, <2>2, <2>3 DEF SendShort, MaySend, Sends
  <2> QED
    BY <2>4
<1> QED
  BY <1>2, <1>3

\* A call of socket_send keeps what is known of the packets,
LEMMA SendSound ==
  ASSUME Sound, NEW p \in Payload, NEW b, Sends(p, b), TypeOK'
  PROVE  Sound'
<1>1. /\ Len(sent) \in Nat /\ Len(sent') = Len(sent) + 1 /\ sent'[Len(sent) + 1] = p
      /\ \A i \in 1 .. Len(sent) : sent'[i] = sent[i]
      /\ Whole \in 0 .. Len(sent)
      /\ Whole' = IF short' = 0 THEN Whole + 1 ELSE Whole
  <2>1. TypeOK
    BY DEF Sound
  <2>2. sent' = Append(sent, p) /\ (short' = short \/ (short = 0 /\ short' = Len(sent')))
    BY DEF Sends
  <2> QED
    BY <2>1, <2>2, SentGrows
<1>2. /\ Len(p) > 0 /\ ~finished /\ got' = got /\ open' = open /\ stalled' = stalled
      /\ finished' = finished /\ (short' = 0 => short = 0)
  <2>1. short' = 0 => short = 0
    BY <1>1 DEF Sends
  <2> QED
    BY <2>1 DEF Sends
<1>3. Len(got) \in Nat /\ got \in Seq(Seq(Byte))
  BY LenProperties DEF Sound
<1>4. ASSUME NEW i \in 1 .. Len(sent') PROVE Len(sent'[i]) > 0
  <2>1. i \in 1 .. Len(sent) \/ i = Len(sent) + 1
    BY <1>1
  <2> QED
    BY <1>1, <1>2, <2>1 DEF Sound
<1>5. short' = 0 => Len(got) <= Len(sent) /\ Len(got) <= Len(sent')
  BY <1>1, <1>2, <1>3 DEF Sound
<1>6. ASSUME NEW i \in 1 .. Len(got), i <= Whole'
      PROVE  got[i] = sent'[i] /\ Fit(sent'[i])
  <2>1. i <= Whole /\ i \in 1 .. Len(sent)
    <3>1. CASE short' = 0
      BY <1>1, <1>2, <1>3, <1>5, <3>1 DEF Whole
    <3>2. CASE short' # 0
      BY <1>1, <1>6, <3>2
    <3> QED
      BY <3>1, <3>2
  <2>2. got[i] = sent[i] /\ Fit(sent[i])
    BY <2>1 DEF Sound
  <2> QED
    BY <1>1, <2>1, <2>2
<1>7. ASSUME short' = 0, ~open, ~stalled
      PROVE  Len(got) < Len(sent') /\ ~Fit(sent'[Len(got) + 1])
  <2>1. Len(got) < Len(sent) /\ ~Fit(sent[Len(got) + 1])
    BY <1>2, <1>7 DEF Sound
  <2>2. Len(got) + 1 \in 1 .. Len(sent)
    BY <1>1, <1>3, <2>1
  <2> QED
    BY <1>1, <1>3, <2>1, <2>2
<1> QED
  BY <1>2, <1>3, <1>4, <1>5, <1>6, <1>7 DEF Sound

\* and puts the bytes of its packet behind all others on the wire.
LEMMA SendOnTrack ==
  ASSUME Sound, OnTrack, NEW p \in Payload, NEW b, Sends(p, b)
  PROVE  OnTrack'
<1> SUFFICES ASSUME Before' PROVE \E s, off, c : (Layout(s, off) /\ Rest(wire, s, c) /\ Aligned(off, c))'
  BY DEF OnTrack
<1>1. /\ Len(sent) \in Nat /\ Len(sent') = Len(sent) + 1
      /\ \A i \in 1 .. Len(sent) : sent'[i] = sent[i]
      /\ Whole \in 0 .. Len(sent)
      /\ Whole' = IF short' = 0 THEN Whole + 1 ELSE Whole
  <2>1. TypeOK
    BY DEF Sound
  <2>2. sent' = Append(sent, p) /\ (short' = short \/ (short = 0 /\ short' = Len(sent')))
    BY DEF Sends
  <2> QED
    BY <2>1, <2>2, SentGrows
<1>2. TypeOK /\ Len(got) \in Nat
  BY LenProperties DEF Sound
<1>3. Before
  BY <1>1 DEF Before, Sends
<1>4. PICK s, off, c : Layout(s, off) /\ Rest(wire, s, c) /\ Aligned(off, c)
  BY <1>3 DEF OnTrack
<1> PICK t : t = s \o b
  OBVIOUS
<1>5. s \in Seq(Byte) /\ b \in Seq(Byte) /\ wire' = wire \o b
  BY <1>4 DEF Layout, Sends
<1>6. PICK end : OneMore(end, off, s, p)
  <2> DEFINE v == Len(s) + HeadSize + Len(p)
             w == Whole + 1
             e == [off EXCEPT ![w] = v]
  <2>1. v \in Nat /\ w \in Nat /\ off \in [Nat -> Nat]
    <3>1. Len(s) \in Nat /\ Len(p) \in Nat /\ HeadSize = 4
      BY <1>5, PackageFacts, LenProperties DEF HeadSize
    <3>2. off \in [Nat -> Nat]
      BY <1>4 DEF Layout
    <3>3. Whole \in Nat
      BY <1>1
    <3>4. v \in Nat
      BY <3>1
    <3>5. w \in Nat
      BY <3>3
    <3> HIDE DEF v, w
    <3> QED
      BY <3>2, <3>4, <3>5
  <2>2. \A i \in 0 .. Whole : i # w /\ i \in Nat
    BY <1>1
  <2> HIDE DEF v, w
  <2>3. e \in [Nat -> Nat] /\ e[w] = v /\ \A i \in Nat : i # w => e[i] = off[i]
    BY <2>1
  <2> HIDE DEF e
  <2> QED
    BY <2>2, <2>3 DEF v, w, OneMore
<1>7. Layout(t, end)'
  <2>1. /\ sent' = Append(sent, p) /\ (short' = short \/ (short = 0 /\ short' = Len(sent')))
        /\ short' = 0 => b = Package(p)
    BY DEF Sends
  <2>2. Layout(s, off) /\ TypeOK /\ b \in Seq(Byte)
    BY <1>2, <1>4, <1>5
  <2> QED
    BY <1>6, <2>1, <2>2, LayoutGrows
<1>8. Rest(wire', t, c)
  BY <1>4, <1>5, RestGrows
<1>9. Aligned(end, c)'
  <2>1. rsize' = rsize /\ got' = got /\ rbuf' = rbuf
    BY DEF Sends
  <2>2. Whole' >= Whole
    BY <1>1
  <2>3. CASE rsize = 0
    <3>1. Len(got) <= Whole /\ c = off[Len(got)]
      BY <1>4, <2>3 DEF Aligned
    <3>2. end[Len(got)] = off[Len(got)] /\ Len(got) <= Whole'
      BY <1>1, <1>2, <1>6, <2>2, <3>1 DEF OneMore
    <3> QED
      BY <2>1, <2>3, <3>1, <3>2 DEF Aligned
  <2>4. CASE rsize # 0
    <3> PICK q : q = sent[Len(got) + 1]
      OBVIOUS
    <3>1. /\ Len(got) < Whole /\ rsize = Len(q) /\ Fit(q) /\ Begins(rbuf, q)
          /\ c = off[Len(got)] + HeadSize + Len(rbuf)
      BY <1>4, <2>4 DEF Aligned
    <3>2. /\ end[Len(got)] = off[Len(got)] /\ Len(got) < Whole' /\ sent'[Len(got) + 1] = q
      <4> PICK g : g = Len(got)
        OBVIOUS
      <4>1. g \in Nat /\ g < Whole /\ Whole \in Nat /\ Whole <= Len(sent) /\ Whole' \in Nat /\ Whole <= Whole'
        BY <1>1, <1>2, <2>2, <3>1
      <4>2. g \in 0 .. Whole /\ g + 1 \in 1 .. Len(sent) /\ g < Whole'
        BY <1>1, <4>1
      <4>3. end[g] = off[g]
        BY <1>6, <4>2 DEF OneMore
      <4> QED
        BY <1>1, <4>2, <4>3
    <3> QED
      BY <2>1, <2>4, <3>1, <3>2 DEF Aligned
  <2> QED
    BY <2>3, <2>4
<1> QED
  BY <1>7, <1>8, <1>9

-----------------------------------------------------------------------------
\* Handing out the next packet, or none, keeps what was handed out.
LEMMA HandsOut ==
  ASSUME Sound, TypeOK', Len(got) < Whole, Fit(sent[Len(got) + 1]), open, open' = open,
         got' = got \/ got' = Append(got, sent[Len(got) + 1]), sent[Len(got) + 1] \in Seq(Byte),
         UNCHANGED <<sent, short, finished, stalled>>
  PROVE  Sound'
<1> PICK g, p : g = Len(got) /\ p = sent[Len(got) + 1]
  OBVIOUS
<1>1. /\ got \in Seq(Seq(Byte)) /\ g \in Nat /\ DOMAIN got = 1 .. g /\ Whole' = Whole
      /\ short = 0 => Whole = Len(sent)
  BY LenProperties DEF Sound, Whole
<1>2. CASE got' = got
  BY <1>1, <1>2 DEF Sound
<1>3. CASE got' = Append(got, p)
  <2>1. /\ got' \in Seq(Seq(Byte)) /\ Len(got') = g + 1 /\ got'[g + 1] = p
        /\ \A i \in 1 .. g : got'[i] = got[i]
    BY <1>1, <1>3, AppendProperties
  <2>2. short = 0 => g + 1 <= Len(sent)
    <3>1. Len(sent) \in Nat
      BY LenProperties DEF Sound, TypeOK
    <3> QED
      BY <1>1, <3>1
  <2>3. ASSUME NEW i \in 1 .. Len(got'), i <= Whole PROVE got'[i] = sent[i] /\ Fit(sent[i])
    <3>1. i \in 1 .. g \/ i = g + 1
      BY <1>1, <2>1
    <3>2. CASE i \in 1 .. g
      <4>1. got[i] = sent[i] /\ Fit(sent[i])
        BY <2>3, <3>2 DEF Sound
      <4> QED
        BY <2>1, <3>2, <4>1
    <3>3. CASE i = g + 1
      BY <2>1, <3>3
    <3> QED
      BY <3>1, <3>2, <3>3
  <2> QED
    BY <1>1, <2>1, <2>2, <2>3 DEF Sound
<1> QED
  BY <1>2, <1>3

\* Closing keeps what was handed out, and is for a reason.
LEMMA CloseSound ==
  ASSUME Sound, TypeOK', Close, UNCHANGED <<sent, short, finished>>,
         short = 0 /\ ~stalled' =>
           \/ finished /\ Len(got) = Len(sent)
           \/ Len(got) < Len(sent) /\ ~Fit(sent[Len(got) + 1])
  PROVE  Sound' /\ OnTrack'
<1>1. Whole' = Whole /\ got' = got /\ open' = FALSE
  BY DEF Whole, Close
<1> QED
  BY <1>1 DEF Sound, OnTrack, Before

\* What a receiver does that has come to a packet that was cut short.
LEMMA LateStep ==
  ASSUME Sound, TypeOK', short # 0, Len(got) >= Whole,
         NEW w \in Seq(Byte), NEW n \in Nat, n > 0, NEW buf \in Seq(Byte), RecvData(w, n, buf),
         UNCHANGED <<sent, short, finished, stalled>>
  PROVE  Sound' /\ OnTrack'
<1>1. CASE Close
  BY <1>1, CloseSound
<1>2. CASE ~Close
  <2>1. PICK k \in 0 .. Len(w) :
          /\ LET bytes == Keep(buf, SubSeq(w, 1, k)) IN
               IF k > 0 /\ Complete(bytes, n)
                 THEN got' = Append(got, bytes) /\ rbuf' = << >> /\ rsize' = 0
                 ELSE rbuf' = bytes /\ rsize' = n /\ UNCHANGED got
          /\ UNCHANGED open
    BY <1>2 DEF RecvData
  <2> PICK a : a = buf \o SubSeq(w, 1, k)
    OBVIOUS
  <2>2. a \in Seq(Byte)
    BY SplitType, ConcatProperties
  <2>3. (got' = Append(got, a) /\ rsize' = 0) \/ (got' = got /\ rsize' = n)
    BY <2>1 DEF Keep
  <2>4. open' = open
    BY <2>1, Zenon
  <2>5. /\ got \in Seq(Seq(Byte)) /\ Len(got) \in Nat /\ Whole' = Whole
        /\ sent \in Seq(Payload) /\ Whole \in Nat
    BY LenProperties DEF Sound, Whole, TypeOK
  <2>6. CASE got' = Append(got, a) /\ rsize' = 0
    <3>1. /\ got' \in Seq(Seq(Byte)) /\ Len(got') = Len(got) + 1
          /\ \A i \in 1 .. Len(got) : got'[i] = got[i]
      BY <2>2, <2>5, <2>6, AppendProperties
    <3>2. ~Before'
      BY <2>5, <3>1 DEF Before
    <3>3. ASSUME NEW i \in 1 .. Len(got'), i <= Whole PROVE got'[i] = sent[i] /\ Fit(sent[i])
      <4>1. i \in 1 .. Len(got)
        BY <2>5, <3>3
      <4>2. got[i] = sent[i] /\ Fit(sent[i])
        BY <3>3, <4>1 DEF Sound
      <4> QED
        BY <3>1, <4>1, <4>2
    <3>4. Sound'
      BY <2>5, <3>1, <3>3 DEF Sound
    <3> QED
      BY <3>2, <3>4 DEF OnTrack
  <2>7. CASE got' = got /\ rsize' = n
    <3>1. ~Before'
      BY <2>5, <2>7 DEF Before
    <3>2. Sound'
      BY <2>5, <2>7 DEF Sound
    <3> QED
      BY <3>1, <3>2 DEF OnTrack
  <2> QED
    BY <2>3, <2>6, <2>7
<1> QED
  BY <1>1, <1>2

\* Taking bytes of a packet that was sent whole.
LEMMA WholeStep ==
  ASSUME Sound, TypeOK', open, NEW s, NEW off, Layout(s, off), Len(got) < Whole,
         NEW p, p = sent[Len(got) + 1], Fit(p),
         NEW buf \in Seq(Byte), Begins(buf, p), Len(buf) < Len(p),
         NEW w, NEW c, Rest(w, s, c), c = off[Len(got)] + HeadSize + Len(buf),
         RecvData(w, Len(p), buf), UNCHANGED <<sent, short, finished, stalled>>
  PROVE  Sound' /\ OnTrack'
<1> PICK g : g = Len(got)
  OBVIOUS
<1>1. TypeOK /\ got \in Seq(Seq(Byte)) /\ g \in Nat
  BY LenProperties DEF Sound
<1>2. UNCHANGED <<sent, short, finished>>
  OBVIOUS
<1>3. /\ open' = open /\ \E d : Rest(wire', s, d) /\ Aligned(off, d)'
      /\ got' = got \/ got' = Append(got, p)
  BY <1>1, <1>2, DataTaken
<1>4. p \in Seq(Byte)
  BY <1>1, PacketThere
<1>5. Sound'
  BY <1>3, <1>4, HandsOut
<1>6. Layout(s, off)'
  BY DEF Layout, Whole
<1>7. OnTrack'
  BY <1>3, <1>6 DEF OnTrack
<1> QED
  BY <1>5, <1>7

\* socket_recv with no packet under way: the next four bytes are the length of
\* the next packet, or a packet that was cut short comes before them.
LEMMA RecvPacketStep ==
  ASSUME Sound, OnTrack, TypeOK', RecvPacket
  PROVE  Sound' /\ OnTrack'
<1> PICK g, n, w : g = Len(got) /\ n = DataLen(SubSeq(wire, 1, HeadSize))
                   /\ w = SubSeq(wire, HeadSize + 1, Len(wire))
  OBVIOUS
<1>1. /\ open /\ rsize = 0 /\ Len(wire) >= HeadSize /\ UNCHANGED <<sent, short, finished, stalled>>
      /\ (InLimit(n) /\ RecvData(w, n, << >>)) \/ (~InLimit(n) /\ wire' = w /\ Close)
  BY DEF RecvPacket
<1>2. /\ TypeOK /\ g \in Nat /\ Whole \in 0 .. Len(sent) /\ Len(sent) \in Nat /\ wire \in Seq(Byte)
      /\ HeadSize \in 0 .. Len(wire) /\ HeadSize = 4 /\ << >> \in Seq(Byte) /\ Len(<< >>) = 0
      /\ short = 0 => Whole = Len(sent)
  <2>1. /\ TypeOK /\ sent \in Seq(Payload) /\ wire \in Seq(Byte) /\ got \in Seq(Seq(Byte))
        /\ short \in 0 .. Len(sent)
    BY DEF Sound, TypeOK, Byte
  <2> QED
    BY <1>1, <2>1, LenProperties DEF Whole, HeadSize
<1>3. n \in Nat /\ w \in Seq(Byte)
  <2>1. /\ w \in Seq(Byte) /\ SubSeq(wire, 1, HeadSize) \in Seq(Byte)
        /\ Len(SubSeq(wire, 1, HeadSize)) = 4
    BY <1>2, SplitType
  <2> QED
    BY <2>1, DataLenType
<1>4. CASE Before /\ g < Whole
  <2>1. PICK s, off, c : Layout(s, off) /\ Rest(wire, s, c) /\ Aligned(off, c)
    BY <1>4 DEF OnTrack
  <2>2. c = off[g]
    BY <1>1, <2>1 DEF Aligned
  <2> PICK p : p = sent[g + 1]
    OBVIOUS
  <2>3. Len(wire) >= HeadSize + Len(p) /\ n = IF Len(p) < K * K * K THEN Len(p) ELSE 0
    <3>1. Rest(wire, s, off[g])
      BY <2>1, <2>2
    <3>2. /\ Len(wire) >= HeadSize + Len(p)
          /\ DataLen(SubSeq(wire, 1, HeadSize)) = IF Len(p) < K * K * K THEN Len(p) ELSE 0
      <4>1. TypeOK /\ g \in Nat /\ g < Whole /\ Layout(s, off)
        BY <1>2, <1>4, <2>1
      <4> QED
        BY <3>1, <4>1, HeadRead
    <3> QED
      BY <3>2
  <2>4. Len(p) > 0 /\ Len(p) \in Nat
    <3>1. g + 1 \in 1 .. Len(sent)
      BY <1>2, <1>4
    <3>2. Len(p) > 0
      BY <3>1 DEF Sound
    <3> QED
      BY <1>2, <1>4, <2>1, <3>2, PacketThere
  <2>5. InLimit(n) <=> Fit(p)
    BY <2>3, <2>4, FramingAssumption DEF InLimit, Fit, K
  <2>6. CASE InLimit(n)
    <3>1. RecvData(w, n, << >>) /\ n = Len(p)
      BY <1>1, <2>3, <2>5, <2>6 DEF Fit
    <3>2. Rest(w, s, c + HeadSize)
      <4>1. s \in Seq(Byte)
        BY <2>1 DEF Layout
      <4> QED
        BY <1>2, <2>1, <4>1, RestShrinks DEF NextBytes
    <3>3. Begins(<< >>, p) /\ Len(<< >>) < Len(p)
      BY <1>2, <2>4 DEF Begins
    <3>4. c + HeadSize = off[Len(got)] + HeadSize + Len(<< >>)
      <4>1. c \in Int
        BY <2>1 DEF Rest
      <4> QED
        BY <1>2, <2>2, <4>1
    <3> QED
      BY <1>1, <1>2, <1>4, <2>1, <2>5, <2>6, <3>1, <3>2, <3>3, <3>4, WholeStep
  <2>7. CASE ~InLimit(n)
    <3>1. Len(got) < Len(sent) /\ ~Fit(sent[Len(got) + 1])
      BY <1>2, <1>4, <2>5, <2>7
    <3>2. Close /\ UNCHANGED <<sent, short, finished>>
      BY <1>1, <2>7
    <3> QED
      BY <3>1, <3>2, CloseSound
  <2> QED
    BY <2>6, <2>7
<1>5. CASE ~(Before /\ g < Whole)
  <2>1. short # 0 /\ Len(got) >= Whole
    <3>1. CASE short = 0
      <4>1. Before
        BY <1>1, <3>1 DEF Before
      <4>2. PICK s, off, c : Layout(s, off) /\ Rest(wire, s, c) /\ Aligned(off, c)
        BY <4>1 DEF OnTrack
      <4>3. Len(got) = Whole
        BY <1>1, <1>2, <1>5, <4>1, <4>2 DEF Aligned
      <4>4. c = off[Whole] /\ off[Whole] = Len(s)
        BY <1>1, <3>1, <4>2, <4>3 DEF Aligned, Layout
      <4>5. Len(wire) = 0
        BY <4>2, <4>4 DEF Rest
      <4> QED
        BY <1>1, <1>2, <4>5
    <3>2. CASE short # 0
      BY <1>1, <1>2, <1>5, <3>2 DEF Before
    <3> QED
      BY <3>1, <3>2
  <2>2. CASE InLimit(n)
    <3>1. n > 0 /\ RecvData(w, n, << >>)
      BY <1>1, <2>2 DEF InLimit
    <3> QED
      BY <1>1, <1>2, <1>3, <2>1, <3>1, LateStep
  <2>3. CASE ~InLimit(n)
    BY <1>1, <2>1, <2>3, CloseSound
  <2> QED
    BY <2>2, <2>3
<1> QED
  BY <1>4, <1>5

\* socket_recv with a packet under way takes bytes of this packet only.
LEMMA RecvMoreStep ==
  ASSUME Sound, OnTrack, TypeOK', RecvMore
  PROVE  Sound' /\ OnTrack'
<1>1. /\ open /\ rsize > 0 /\ RecvData(wire, rsize, rbuf) /\ UNCHANGED <<sent, short, finished, stalled>>
  BY DEF RecvMore
<1>2. /\ TypeOK /\ wire \in Seq(Byte) /\ rbuf \in Seq(Byte) /\ rsize \in Nat /\ Len(rbuf) < rsize
      /\ Len(got) \in Nat /\ Whole \in Nat
  <2>1. /\ TypeOK /\ wire \in Seq(Byte) /\ rbuf \in Seq(Byte) /\ rsize \in 0 .. MaxRecvs
        /\ rsize > 0 => Len(rbuf) < rsize
        /\ got \in Seq(Seq(Byte)) /\ sent \in Seq(Payload) /\ short \in 0 .. Len(sent)
    BY DEF Sound, TypeOK, Byte
  <2> QED
    BY <1>1, <2>1, FramingAssumption, LenProperties DEF Whole
<1>3. CASE Before
  <2>1. PICK s, off, c : Layout(s, off) /\ Rest(wire, s, c) /\ Aligned(off, c)
    BY <1>3 DEF OnTrack
  <2> PICK p : p = sent[Len(got) + 1]
    OBVIOUS
  <2>2. /\ Len(got) < Whole /\ rsize = Len(p) /\ Fit(p) /\ Begins(rbuf, p)
        /\ c = off[Len(got)] + HeadSize + Len(rbuf)
    BY <1>1, <2>1 DEF Aligned
  <2>3. RecvData(wire, Len(p), rbuf)
    BY <1>1, <2>2
  <2> QED
    BY <1>1, <1>2, <2>1, <2>2, <2>3, WholeStep
<1>4. CASE ~Before
  <2>1. short # 0 /\ Len(got) >= Whole
    BY <1>1, <1>2, <1>4 DEF Before
  <2> QED
    BY <1>1, <1>2, <2>1, LateStep
<1> QED
  BY <1>3, <1>4

\* The connection ends between two packets: all of them were handed out.
LEMMA RecvNoHeadStep ==
  ASSUME Sound, OnTrack, TypeOK', RecvNoHead
  PROVE  Sound' /\ OnTrack'
<1>1. /\ open /\ rsize = 0 /\ finished /\ wire' = << >> /\ Len(wire) < HeadSize /\ Close
      /\ UNCHANGED <<sent, short, finished, stalled>>
  BY DEF RecvNoHead
<1>2. ASSUME short = 0 PROVE Len(got) = Len(sent) \/ Len(wire) >= HeadSize
  <2>1. Before
    BY <1>1, <1>2 DEF Before
  <2>2. PICK s, off, c : Layout(s, off) /\ Rest(wire, s, c) /\ Aligned(off, c)
    BY <2>1 DEF OnTrack
  <2> PICK g : g = Len(got)
    OBVIOUS
  <2>3. /\ c = off[g] /\ g <= Whole /\ g \in Nat /\ Whole = Len(sent) /\ Whole \in Nat /\ TypeOK
    <3>1. got \in Seq(Seq(Byte)) /\ sent \in Seq(Payload) /\ TypeOK
      BY DEF Sound, TypeOK
    <3> QED
      BY <1>1, <1>2, <2>2, <3>1, LenProperties DEF Aligned, Whole
  <2>4. CASE g < Whole
    <3>1. Len(wire) >= HeadSize + Len(sent[g + 1])
      BY <2>2, <2>3, <2>4, HeadRead
    <3>2. Len(sent[g + 1]) \in Nat /\ HeadSize = 4 /\ Len(wire) \in Nat
      <4>1. sent[g + 1] \in Payload
        BY <2>2, <2>3, <2>4, PacketThere
      <4>2. wire \in Seq(Byte)
        BY <2>2 DEF Rest
      <4> QED
        BY <4>1, <4>2, PackageFacts, LenProperties DEF HeadSize
    <3> QED
      BY <3>1, <3>2
  <2> QED
    BY <2>3, <2>4
<1>3. Len(wire) \in Nat /\ HeadSize = 4
  BY LenProperties DEF Sound, TypeOK, HeadSize
<1> QED
  BY <1>1, <1>2, <1>3, CloseSound

-----------------------------------------------------------------------------
\* A step that leaves the bytes and the packets alone leaves the receiver on
\* its track.
LEMMA TrackFrame ==
  ASSUME OnTrack, UNCHANGED <<sent, short, wire, got, rbuf, rsize, open>>, Whole' = Whole
  PROVE  OnTrack'
<1> SUFFICES ASSUME Before' PROVE OnTrack'
  BY DEF OnTrack
<1>1. Before
  BY DEF Before
<1>2. PICK s, off, c : Layout(s, off) /\ Rest(wire, s, c) /\ Aligned(off, c)
  BY <1>1 DEF OnTrack
<1>3. Layout(s, off)'
  BY <1>2 DEF Layout
<1>4. Aligned(off, c)'
  BY <1>2 DEF Aligned
<1>5. Rest(wire', s, c)
  BY <1>2
<1> QED
  BY <1>3, <1>4, <1>5 DEF OnTrack

\* The inductive invariant of the framing: what is on the wire are the packets
\* that the receiver has not taken, from the byte on that it reads next.
THEOREM FramingInvariant == Spec => []FInv
<1>1. Init => FInv
  <2> SUFFICES ASSUME Init PROVE FInv
    OBVIOUS
  <2>1. TypeOK
    BY FramingAssumption, InitTyped
  <2>2. /\ << >> \in Seq(Byte) /\ Len(<< >>) = 0 /\ << >> \in Seq(Seq(Byte))
    OBVIOUS
  <2>3. Sound
    BY <2>1, <2>2 DEF Init, Sound
  <2>4. Layout(<< >>, [i \in Nat |-> 0]) /\ Rest(wire, << >>, 0) /\ Aligned([i \in Nat |-> 0], 0)
    <3>1. Whole = 0
      BY <2>2 DEF Init, Whole
    <3> QED
      BY <2>2, <3>1 DEF Init, Layout, Rest, Aligned
  <2> QED
    BY <2>3, <2>4 DEF FInv, OnTrack
<1>2. FInv /\ [Next]_vars => FInv'
  <2> SUFFICES ASSUME FInv, [Next]_vars PROVE FInv'
    OBVIOUS
  <2>1. Sound /\ OnTrack /\ TypeOK'
    BY TypeKept DEF FInv, Sound
  <2>2. ASSUME NEW p \in Payload, NEW k \in 1 .. HeadSize + Len(p), Send(p) \/ SendShort(p, k)
        PROVE  FInv'
    <3>1. PICK b : Sends(p, b)
      BY <2>1, <2>2, SendCases DEF Sound
    <3> QED
      BY <2>1, <3>1, SendSound, SendOnTrack DEF FInv
  <2>3. ASSUME NEW p \in Payload, Send(p) PROVE FInv'
    <3>1. 1 \in 1 .. HeadSize + Len(p)
      BY PackageFacts DEF HeadSize
    <3> QED
      BY <2>2, <2>3, <3>1
  <2>4. CASE Finish
    <3>1. Whole' = Whole
      BY <2>4 DEF Finish, Whole
    <3>2. Sound'
      BY <2>1, <2>4, <3>1 DEF Finish, Sound
    <3>3. OnTrack'
      BY <2>1, <2>4, <3>1, TrackFrame DEF Finish
    <3> QED
      BY <3>2, <3>3 DEF FInv
  <2>5. CASE RecvStalled
    BY <2>1, <2>5, CloseSound DEF RecvStalled, FInv
  <2>6. CASE RecvPacket \/ RecvNoHead \/ RecvMore
    BY <2>1, <2>6, RecvPacketStep, RecvNoHeadStep, RecvMoreStep DEF FInv
  <2>7. CASE UNCHANGED vars
    <3>1. Whole' = Whole
      BY <2>7 DEF vars, Whole
    <3>2. Sound'
      BY <2>1, <2>7, <3>1 DEF vars, Sound
    <3>3. OnTrack'
      BY <2>1, <2>7, <3>1, TrackFrame DEF vars
    <3> QED
      BY <3>2, <3>3 DEF FInv
  <2> QED
    BY <2>2, <2>3, <2>4, <2>5, <2>6, <2>7 DEF Next, Recv, SendNothing
<1> QED
  BY <1>1, <1>2, PTL DEF Spec

-----------------------------------------------------------------------------
\* Deliverable is well defined, and it counts every packet that fits until the
\* first that does not.
LEMMA DeliverableFacts ==
  ASSUME sent \in Seq(Payload)
  PROVE  /\ Deliverable \in 0 .. Len(sent)
         /\ \A i \in 1 .. Deliverable : Fit(sent[i])
         /\ Deliverable < Len(sent) => ~Fit(sent[Deliverable + 1])
<1> DEFINE fits(n) == \A i \in 1 .. n : Fit(sent[i])
           T == {m \in Nat : m <= Len(sent) /\ (m < Len(sent) => ~Fit(sent[m + 1]))}
           Good(n) == fits(n) /\ (n < Len(sent) => ~fits(n + 1))
<1>1. Len(sent) \in Nat
  BY LenProperties
<1>2. T \subseteq Nat /\ Len(sent) \in T
  BY <1>1
<1>3. PICK m \in T : \A j \in T : m <= j
  <2>1. T # {}
    BY <1>2
  <2> HIDE DEF T
  <2> QED
    BY <1>2, <2>1, LeastNumber
<1>4. fits(m)
  <2>1. ASSUME NEW i \in 1 .. m PROVE Fit(sent[i])
    <3> PICK j : j = i - 1
      OBVIOUS
    <3>1. j \in Nat /\ j < m /\ j + 1 = i /\ m \in Nat /\ m <= Len(sent)
      BY <1>1, <1>3
    <3>2. ASSUME j \in T PROVE FALSE
      <4> HIDE DEF T
      <4>1. m <= j
        BY <1>3, <3>2
      <4> QED
        BY <3>1, <4>1
    <3> PICK l \in Nat : l = Len(sent)
      BY <1>1
    <3>3. j \in Nat /\ j <= l /\ j < l
      BY <3>1
    <3>4. Fit(sent[j + 1])
      BY <3>2, <3>3
    <3> QED
      BY <3>1, <3>4
  <2> QED
    BY <2>1
<1>5. m \in 0 .. Len(sent) /\ Good(m)
  <2>1. m < Len(sent) => m + 1 \in 1 .. m + 1 /\ ~Fit(sent[m + 1])
    BY <1>1, <1>3
  <2>2. m \in 0 .. Len(sent)
    BY <1>1, <1>3
  <2> QED
    BY <1>4, <2>1, <2>2
<1>6. Deliverable = CHOOSE n \in 0 .. Len(sent) : Good(n)
  BY DEF Deliverable
<1> HIDE DEF Good
<1>7. Deliverable \in 0 .. Len(sent) /\ Good(Deliverable)
  BY <1>5, <1>6
<1> PICK d : d = Deliverable
  OBVIOUS
<1>8. d \in 0 .. Len(sent) /\ fits(d) /\ (d < Len(sent) => ~fits(d + 1))
  BY <1>7 DEF Good
<1>9. d < Len(sent) => ~Fit(sent[d + 1])
  <2> SUFFICES ASSUME d < Len(sent), Fit(sent[d + 1]) PROVE FALSE
    OBVIOUS
  <2>1. ASSUME NEW i \in 1 .. d + 1 PROVE Fit(sent[i])
    <3>1. i \in 1 .. d \/ i = d + 1
      BY <1>1, <1>8
    <3> QED
      BY <1>8, <3>1
  <2> QED
    BY <1>8, <2>1
<1> QED
  BY <1>8, <1>9

\* Where no timeout expired, what was handed out are packets from the first on,
\* none beyond the limit, and the receiver closes only when there is none left
\* (socket_recv and recv_data_len).
THEOREM NothingIsLost == Spec => []NothingLost
<1>1. FInv => NothingLost
  <2> SUFFICES ASSUME FInv, short = 0 PROVE NothingLost
    BY DEF NothingLost
  <2> PICK d, g : d = Deliverable /\ g = Len(got)
    OBVIOUS
  <2>1. /\ sent \in Seq(Payload) /\ got \in Seq(Seq(Byte)) /\ Len(sent) \in Nat /\ g \in Nat
        /\ g <= Len(sent)
    <3>1. sent \in Seq(Payload) /\ got \in Seq(Seq(Byte)) /\ g <= Len(sent)
      BY DEF FInv, Sound, TypeOK
    <3> QED
      BY <3>1, LenProperties
  <2>2. /\ d \in 0 .. Len(sent) /\ \A i \in 1 .. d : Fit(sent[i])
        /\ d < Len(sent) => ~Fit(sent[d + 1])
    BY <2>1, DeliverableFacts
  <2>3. ASSUME NEW i \in 1 .. g PROVE Fit(sent[i])
    <3>1. i <= Whole
      BY <2>1 DEF Whole
    <3> QED
      BY <3>1 DEF FInv, Sound
  <2>4. g <= d
    <3> SUFFICES ASSUME ~(g <= d) PROVE FALSE
      OBVIOUS
    <3>1. d < Len(sent) /\ d + 1 \in 1 .. g
      BY <2>1, <2>2
    <3> QED
      BY <2>2, <2>3, <3>1
  <2>5. ASSUME ~open, ~stalled PROVE g = d /\ (finished \/ d < Len(sent))
    <3>1. (finished /\ g = Len(sent)) \/ (g < Len(sent) /\ ~Fit(sent[g + 1]))
      BY <2>5 DEF FInv, Sound
    <3>2. CASE finished /\ g = Len(sent)
      BY <2>1, <2>2, <2>4, <3>2
    <3>3. CASE g < Len(sent) /\ ~Fit(sent[g + 1])
      <4>1. ~(g + 1 \in 1 .. d)
        BY <2>2, <3>3
      <4>2. g = d
        BY <2>1, <2>2, <2>4, <4>1
      <4> QED
        BY <3>3, <4>2
    <3> QED
      BY <3>1, <3>2, <3>3
  <2> QED
    BY <2>4, <2>5 DEF NothingLost
<1> QED
  BY <1>1, FramingInvariant, PTL

-----------------------------------------------------------------------------
\* Uncut, with the number of the first packet that was cut short.
Cut(q, n) == IF n = 0 \/ Len(q) < n THEN q ELSE SubSeq(q, 1, n - 1)

\* A packet behind the first that was cut short is not seen.
LEMMA CutAppend ==
  ASSUME NEW S, NEW q \in Seq(S), NEW e \in S, NEW n \in Nat, n # 0, Len(q) + 1 >= n
  PROVE  Cut(Append(q, e), n) = Cut(q, n)
<1> PICK r, m : r = Append(q, e) /\ m = n - 1
  OBVIOUS
<1>1. /\ r \in Seq(S) /\ Len(r) = Len(q) + 1 /\ Len(q) \in Nat /\ m \in 0 .. Len(q)
      /\ \A i \in 1 .. Len(q) : r[i] = q[i]
  BY AppendProperties, LenProperties
<1>2. SubSeq(r, 1, m) = SubSeq(q, 1, m)
  <2> DEFINE a == SubSeq(r, 1, m)
             b == SubSeq(q, 1, m)
  <2>1. /\ \A i \in 1 .. m : r[i] \in S /\ q[i] \in S
        /\ 1 \in Int /\ m \in Int
    BY <1>1, LenProperties
  <2>2. /\ a \in Seq(S) /\ Len(a) = (IF 1 <= m THEN m - 1 + 1 ELSE 0)
        /\ \A i \in 1 .. m - 1 + 1 : a[i] = r[1 + i - 1]
    BY <2>1, SubSeqProperties
  <2>3. /\ b \in Seq(S) /\ Len(b) = (IF 1 <= m THEN m - 1 + 1 ELSE 0)
        /\ \A i \in 1 .. m - 1 + 1 : b[i] = q[1 + i - 1]
    BY <2>1, SubSeqProperties
  <2> HIDE DEF a, b
  <2>4. ASSUME NEW i \in 1 .. Len(a) PROVE a[i] = b[i]
    <3>1. i \in 1 .. m - 1 + 1 /\ 1 + i - 1 = i /\ i \in 1 .. Len(q)
      BY <1>1, <2>2
    <3> QED
      BY <1>1, <2>2, <2>3, <3>1
  <2>5. a = b
    BY <2>2, <2>3, <2>4, SeqEqual
  <2> QED
    BY <2>5 DEF a, b
<1>3. Cut(r, n) = SubSeq(r, 1, m)
  BY <1>1 DEF Cut
<1>4. CASE Len(q) >= n
  <2>1. Cut(q, n) = SubSeq(q, 1, m)
    BY <1>1, <1>4 DEF Cut
  <2> QED
    BY <1>2, <1>3, <2>1
<1>5. CASE m = Len(q)
  <2>1. SubSeq(q, 1, Len(q)) = q
    BY SubSeqFull
  <2>2. Cut(q, n) = q
    BY <1>1, <1>5 DEF Cut
  <2> QED
    BY <1>2, <1>3, <1>5, <2>1, <2>2
<1> QED
  BY <1>1, <1>4, <1>5

\* The first packet that is cut short is itself not seen.
LEMMA CutLast ==
  ASSUME NEW S, NEW q \in Seq(S), NEW e \in S
  PROVE  Cut(Append(q, e), Len(q) + 1) = q
<1> PICK n : n = Len(q) + 1
  OBVIOUS
<1>1. n \in Nat /\ n # 0 /\ Len(q) + 1 >= n /\ Len(q) < n
  BY LenProperties
<1>2. Cut(Append(q, e), n) = Cut(q, n)
  BY <1>1, CutAppend
<1>3. Cut(q, n) = q
  BY <1>1 DEF Cut
<1> QED
  BY <1>2, <1>3

\* A step on the packets is one on the packets before the first that was cut short.
LEMMA CutSend ==
  ASSUME Sound, NEW p \in Payload, NEW b, Sends(p, b)
  PROVE  /\ Cut(got', short') = Cut(got, short)
         /\ Cut(sent', short') = Append(Cut(sent, short), p) \/ Cut(sent', short') = Cut(sent, short)
<1>1. /\ sent \in Seq(Payload) /\ got \in Seq(Seq(Byte)) /\ Len(sent) \in Nat /\ Len(got) \in Nat
      /\ short \in 0 .. Len(sent) /\ (short = 0 => Len(got) <= Len(sent))
  BY LenProperties DEF Sound, TypeOK
<1>2. sent' = Append(sent, p) /\ got' = got /\ Len(sent') = Len(sent) + 1
  BY <1>1, AppendProperties DEF Sends
<1>3. CASE short' = short
  <2>1. CASE short = 0
    BY <1>2, <1>3, <2>1 DEF Cut
  <2>2. CASE short # 0
    <3>1. short \in Nat /\ Len(sent) + 1 >= short
      BY <1>1
    <3>2. Cut(Append(sent, p), short) = Cut(sent, short)
      BY <1>1, <2>2, <3>1, CutAppend
    <3> QED
      BY <1>2, <1>3, <3>2
  <2> QED
    BY <2>1, <2>2
<1>4. CASE short = 0 /\ short' = Len(sent) + 1
  <2>1. Cut(Append(sent, p), Len(sent) + 1) = sent
    BY <1>1, CutLast
  <2>2. Cut(sent, short) = sent /\ Cut(got, short) = got
    BY <1>4 DEF Cut
  <2>3. Cut(got', short') = got
    BY <1>1, <1>2, <1>4 DEF Cut
  <2> QED
    BY <1>2, <1>4, <2>1, <2>2, <2>3
<1> QED
  BY <1>2, <1>3, <1>4 DEF Sends

\* What a call of socket_recv does to the packets that were handed out.
LEMMA RecvAdds ==
  ASSUME TypeOK, Recv
  PROVE  /\ UNCHANGED <<sent, short>>
         /\ got' = got \/ \E a \in Seq(Byte) : got' = Append(got, a)
<1>1. ASSUME NEW w \in Seq(Byte), NEW n, NEW buf \in Seq(Byte), RecvData(w, n, buf)
      PROVE  got' = got \/ \E a \in Seq(Byte) : got' = Append(got, a)
  <2>1. CASE Close
    BY <2>1 DEF Close
  <2>2. CASE ~Close
    <3>1. PICK k \in 0 .. Len(w) :
            LET bytes == Keep(buf, SubSeq(w, 1, k)) IN
              IF k > 0 /\ Complete(bytes, n)
                THEN got' = Append(got, bytes) /\ rbuf' = << >> /\ rsize' = 0
                ELSE rbuf' = bytes /\ rsize' = n /\ UNCHANGED got
      BY <1>1, <2>2 DEF RecvData
    <3>2. buf \o SubSeq(w, 1, k) \in Seq(Byte)
      BY SplitType, ConcatProperties
    <3> QED
      BY <3>1, <3>2 DEF Keep
  <2> QED
    BY <2>1, <2>2
<1>2. wire \in Seq(Byte) /\ rbuf \in Seq(Byte) /\ << >> \in Seq(Byte) /\ Len(wire) \in Nat
  BY LenProperties DEF TypeOK, Byte
<1>3. CASE RecvPacket
  <2>1. HeadSize \in 0 .. Len(wire)
    BY <1>2, <1>3 DEF RecvPacket, HeadSize
  <2>2. SubSeq(wire, HeadSize + 1, Len(wire)) \in Seq(Byte)
    BY <1>2, <2>1, SplitType
  <2>3. \/ RecvData(SubSeq(wire, HeadSize + 1, Len(wire)), DataLen(SubSeq(wire, 1, HeadSize)), << >>)
        \/ Close
    BY <1>3 DEF RecvPacket
  <2> QED
    BY <1>1, <1>2, <1>3, <2>2, <2>3 DEF RecvPacket, Close
<1>4. CASE RecvMore
  BY <1>1, <1>2, <1>4 DEF RecvMore
<1>5. CASE RecvNoHead \/ RecvStalled
  BY <1>5 DEF RecvNoHead, RecvStalled, Close
<1> QED
  BY <1>3, <1>4, <1>5 DEF Recv

\* A call of socket_recv hands out the next packet of the stream, or nothing of it.
LEMMA CutRecv ==
  ASSUME Sound, Sound', Recv
  PROVE  /\ Cut(sent', short') = Cut(sent, short)
         /\ \/ Cut(got', short') = Cut(got, short)
            \/ /\ Len(Cut(got, short)) < Len(Cut(sent, short))
               /\ Cut(got', short')
                    = Append(Cut(got, short), Cut(sent, short)[Len(Cut(got, short)) + 1])
<1>1. /\ sent \in Seq(Payload) /\ got \in Seq(Seq(Byte)) /\ Len(sent) \in Nat /\ Len(got) \in Nat
      /\ short \in 0 .. Len(sent)
  BY LenProperties DEF Sound, TypeOK
<1>2. UNCHANGED <<sent, short>> /\ (got' = got \/ \E a \in Seq(Byte) : got' = Append(got, a))
  BY RecvAdds DEF Sound
<1>3. CASE got' = got
  BY <1>2, <1>3
<1>4. ASSUME NEW a \in Seq(Byte), got' = Append(got, a)
      PROVE  \/ Cut(got', short') = Cut(got, short)
             \/ /\ Len(Cut(got, short)) < Len(Cut(sent, short))
                /\ Cut(got', short')
                     = Append(Cut(got, short), Cut(sent, short)[Len(Cut(got, short)) + 1])
  <2> PICK g : g = Len(got) + 1
    OBVIOUS
  <2>1. Len(got') = g /\ got'[g] = a /\ g \in Nat /\ g # 0 /\ Len(got) = g - 1
    BY <1>1, <1>4, AppendProperties
  <2>2. CASE short # 0 /\ g >= short
    <3>1. Cut(Append(got, a), short) = Cut(got, short)
      BY <1>1, <2>2, CutAppend
    <3> QED
      BY <1>2, <1>4, <3>1
  <2>3. CASE short = 0 \/ g < short
    <3>1. Cut(got', short') = got' /\ Cut(got, short) = got
      BY <1>1, <1>2, <2>1, <2>3 DEF Cut
    <3>2. short = 0 => g <= Len(sent)
      <4>1. short' = 0 => Len(got') <= Len(sent')
        BY DEF Sound
      <4> QED
        BY <1>2, <2>1, <4>1
    <3>3. g <= Whole' /\ g \in 1 .. Len(got')
      BY <1>1, <1>2, <2>1, <2>3, <3>2 DEF Whole
    <3>4. got'[g] = sent[g]
      BY <1>2, <3>3 DEF Sound
    <3>5. /\ Len(Cut(sent, short)) \in Nat /\ g <= Len(Cut(sent, short))
          /\ Cut(sent, short)[g] = sent[g]
      <4>1. CASE short = 0
        BY <1>1, <3>2, <4>1 DEF Cut
      <4>2. CASE short # 0
        <5> PICK m : m = short - 1
          OBVIOUS
        <5>1. m \in 1 .. Len(sent) /\ m \in Int /\ 1 \in Int /\ g \in 1 .. m
          BY <1>1, <2>1, <2>3, <4>2
        <5>2. \A i \in 1 .. m : sent[i] \in Payload
          BY <1>1, <5>1, LenProperties
        <5>3. /\ Len(SubSeq(sent, 1, m)) = (IF 1 <= m THEN m - 1 + 1 ELSE 0)
              /\ \A i \in 1 .. m - 1 + 1 : SubSeq(sent, 1, m)[i] = sent[1 + i - 1]
          BY <5>1, <5>2, SubSeqProperties
        <5>4. g \in 1 .. m - 1 + 1 /\ 1 + g - 1 = g
          BY <5>1
        <5>5. Len(SubSeq(sent, 1, m)) = m /\ SubSeq(sent, 1, m)[g] = sent[g]
          BY <5>1, <5>3, <5>4
        <5>6. Cut(sent, short) = SubSeq(sent, 1, m)
          BY <1>1, <4>2 DEF Cut
        <5> QED
          BY <1>1, <5>1, <5>5, <5>6
      <4> QED
        BY <4>1, <4>2
    <3> QED
      <4> PICK u : u = Cut(sent, short)
        OBVIOUS
      <4>1. g <= Len(u) /\ u[g] = a /\ g = Len(got) + 1 /\ Len(got) < g
        BY <1>1, <2>1, <3>4, <3>5
      <4>2. Len(u) \in Nat
        BY <3>5
      <4>3. Len(got) < Len(u) /\ Append(got, a) = Append(got, u[Len(got) + 1])
        BY <1>1, <4>1, <4>2
      <4> QED
        BY <1>4, <3>1, <4>3
  <2> QED
    BY <1>1, <2>1, <2>2, <2>3
<1> QED
  BY <1>2, <1>3, <1>4

\* Up to the first packet that was cut short, the two ends see a stream of
\* packets: socket_recv neither mixes the bytes of two packets or of two calls
\* nor leaves a packet out, wherever the bytes are split and whatever times out.
THEOREM StreamKept == Spec => StreamSpec
<1>1. Init => Stream!Init
  <2> SUFFICES ASSUME Init PROVE Stream!Init
    OBVIOUS
  <2> QED
    BY DEF Init, Uncut, Stream!Init
<1>2. FInv /\ FInv' /\ [Next]_vars => [Stream!Next]_(Stream!vars)
  <2> SUFFICES ASSUME FInv, FInv', [Next]_vars PROVE [Stream!Next]_(Stream!vars)
    OBVIOUS
  <2>1. /\ Uncut(sent) = Cut(sent, short) /\ Uncut(sent)' = Cut(sent', short')
        /\ Uncut(got) = Cut(got, short) /\ Uncut(got)' = Cut(got', short')
    BY DEF Uncut, Cut
  <2>2. Sound /\ Sound' /\ TypeOK
    BY DEF FInv, Sound
  <2>3. ASSUME NEW p \in Payload, NEW k \in 1 .. HeadSize + Len(p), Send(p) \/ SendShort(p, k)
        PROVE  [Stream!Next]_(Stream!vars)
    <3>1. PICK b : Sends(p, b)
      BY <2>2, <2>3, SendCases
    <3>2. /\ Cut(got', short') = Cut(got, short)
          /\ Cut(sent', short') = Append(Cut(sent, short), p) \/ Cut(sent', short') = Cut(sent, short)
      BY <2>2, <3>1, CutSend
    <3> QED
      BY <2>1, <3>2 DEF Stream!Next, Stream!Put, Stream!vars
  <2>4. ASSUME NEW p \in Payload, Send(p) PROVE [Stream!Next]_(Stream!vars)
    <3>1. 1 \in 1 .. HeadSize + Len(p)
      BY PackageFacts DEF HeadSize
    <3> QED
      BY <2>3, <2>4, <3>1
  <2>5. CASE Recv
    <3>1. /\ Cut(sent', short') = Cut(sent, short)
          /\ \/ Cut(got', short') = Cut(got, short)
             \/ /\ Len(Cut(got, short)) < Len(Cut(sent, short))
                /\ Cut(got', short')
                     = Append(Cut(got, short), Cut(sent, short)[Len(Cut(got, short)) + 1])
      BY <2>2, <2>5, CutRecv
    <3> QED
      BY <2>1, <3>1 DEF Stream!Next, Stream!Get, Stream!vars
  <2>6. CASE Finish \/ UNCHANGED vars
    <3>1. UNCHANGED <<sent, short, got>>
      BY <2>6 DEF Finish, vars
    <3> QED
      BY <2>1, <3>1 DEF Stream!vars
  <2> QED
    BY <2>3, <2>4, <2>5, <2>6 DEF Next, SendNothing
<1> QED
  BY <1>1, <1>2, FramingInvariant, PTL DEF Spec, StreamSpec, Stream!Spec
===============================================================================
