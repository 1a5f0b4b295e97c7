------------------------- MODULE BlockTransferProofs -------------------------
(***************************************************************************)
(* Theorems about BlockTransfer, for every packet size, block size, read   *)
(* size and socket buffer that SizesOK allows.                             *)
(***************************************************************************)
EXTENDS BlockTransfer, SequenceTheorems, TLAPS

(***************************************************************************)
(* The inductive invariant.  `leftSize' is 0 exactly until the server has  *)
(* answered the request, which is what separates its two visits to recv(). *)
(***************************************************************************)

\* Every message is one the server's code can have built.
MessageOK(m) ==
  /\ m.kind = "reply"  => m.start = 0 /\ m.size = 0 /\ ~m.eof
  /\ m.kind = "packet" => /\ m.size > 0
                          /\ m.size < SIZE_ONE_PACKET => m.eof
                          /\ m.eof => m.size \in LastSizes
  /\ m.start + m.size <= SIZE_LARGE_DATA
  /\ m.eof <=> m.start + m.size = SIZE_LARGE_DATA

ChanInv ==
  /\ \A i \in 1 .. Len(chan) : MessageOK(chan[i])
  /\ \A i \in 2 .. Len(chan) : chan[i].kind = "packet"
  /\ \A i \in 1 .. Len(chan) - 1 :
       chan[i].start + chan[i].size = chan[i + 1].start

\* The loop of sendDataBlock(): start and leftSize split the block at a
\* multiple of the packet, and the last message under way ends at start.
SendInv ==
  srv = "send" =>
    /\ leftSize > 0
    /\ start + leftSize = SIZE_LARGE_DATA
    /\ \E k \in 0 .. SIZE_LARGE_DATA : start = k * SIZE_ONE_PACKET
    /\ ~ClientGone /\ chan # <<>> =>
         chan[Len(chan)].start + chan[Len(chan)].size = start
    /\ ~ClientGone /\ chan = <<>> /\ whole => got = start

\* Who has been where.
PhaseInv ==
  /\ srv \in {"init", "listen"} => leftSize = 0
  /\ leftSize = 0 => /\ chan = <<>> /\ got = 0
                     /\ ~(whole /\ cli = "block") /\ ~(whole /\ rcvdEOF)
  /\ request => leftSize = 0 /\ (srv = "killed" \/ cli = "reply")
  /\ cli = "reply" /\ leftSize = 0 /\ end = "open" => request
  /\ cli \in {"init", "request", "refused"} => leftSize = 0 /\ ~request
  /\ cli \in {"init", "request", "refused", "reply"} => whole /\ got = 0
  /\ cli = "reply" /\ chan # <<>> => chan[1].kind = "reply"
  /\ cli = "reply" /\ leftSize > 0 /\ srv # "killed" => chan # <<>>
  /\ rcvdEOF => ClientGone
  /\ end # "open" => srv = "killed"

\* What holds while every recv() has returned one whole message.
WholeInv ==
  whole =>
    /\ skip = 0
    /\ chan # <<>> => chan[1].start = got
    /\ cli = "block" /\ chan # <<>> => chan[1].kind = "packet"
    /\ got > 0 => rcvOK
    /\ rcvdEOF => /\ got = SIZE_LARGE_DATA /\ EOFpos \in LastSizes
                  /\ chan = <<>> /\ srv # "send"
    /\ ~ClientGone /\ leftSize > 0 /\ srv = "recv" =>
         chan # <<>> /\ chan[Len(chan)].eof

Inv == TypeOK /\ ChanInv /\ SendInv /\ PhaseInv /\ WholeInv
------------------------------------------------------------------------------
(* Facts about the packet format.                                          *)

\* The ranges of the sizes, without the sets of the assumptions.
LEMMA Sizes ==
  /\ SIZE_ONE_PACKET \in Nat /\ 6 <= SIZE_ONE_PACKET /\ SIZE_ONE_PACKET <= 65535
  /\ SIZE_LARGE_DATA \in Nat /\ SIZE_LARGE_DATA > 0
  /\ \A n \in ReadSizes : n \in Nat /\ n > 0
  BY SizesOK, ReadSizesOK

\* A size of two bytes is what sendOnePacket() puts at A and B, and what
\* rcvDataBlock() makes of them.
LEMMA TwoBytes ==
  ASSUME NEW s \in Nat, s <= 65535
  PROVE  /\ (s \div 256) % 256 = s \div 256
         /\ s \div 256 \in Nat /\ s % 256 \in Nat
         /\ (s \div 256) * 256 + (s % 256) = s
<1> DEFINE q == s \div 256
           r == s % 256
<1>1. q \in Int /\ r \in Int /\ 0 <= r /\ r <= 255 /\ q * 256 + r = s
  OBVIOUS
<1> HIDE DEF q, r
<1>2. 0 <= q /\ q <= 255
  BY <1>1
<1>3. q % 256 = q
  BY <1>1, <1>2
<1> QED
  BY <1>1, <1>2, <1>3 DEF q, r

\* The last packet of sendDataBlock() has one of the sizes in LastSizes.
LEMMA LastSizeInSet ==
  ASSUME NEW k \in 0 .. SIZE_LARGE_DATA, NEW s \in 1 .. SIZE_ONE_PACKET,
         k * SIZE_ONE_PACKET + s = SIZE_LARGE_DATA
  PROVE  s \in LastSizes
  BY DEF LastSizes

\* The offsets of sendDataBlock() stay multiples of the packet.
LEMMA NextMultiple ==
  ASSUME NEW k \in 0 .. SIZE_LARGE_DATA, NEW l \in Nat,
         l > SIZE_ONE_PACKET,
         k * SIZE_ONE_PACKET + l = SIZE_LARGE_DATA
  PROVE  /\ k + 1 \in 0 .. SIZE_LARGE_DATA
         /\ (k + 1) * SIZE_ONE_PACKET = k * SIZE_ONE_PACKET + SIZE_ONE_PACKET
<1>1. k * SIZE_ONE_PACKET >= k
  BY Sizes
<1>2. (k + 1) * SIZE_ONE_PACKET = k * SIZE_ONE_PACKET + SIZE_ONE_PACKET
  BY Sizes
<1>3. k * SIZE_ONE_PACKET \in Nat
  BY Sizes
<1> QED
  BY <1>1, <1>2, <1>3, Sizes
\* What sendOnePacket() wrote is what the client finds, byte by byte, when
\* its recv() returned exactly one packet.
LEMMA WholeBytes ==
  ASSUME NEW n, chan # <<>>, chan[1].kind = "packet", IsWhole(n),
         NEW i \in Nat, i < PacketLen
  PROVE  RxByte(n, i) = PacketByte(chan[1], i)
<1>1. skip = 0 /\ n = PacketLen /\ chan[1].len = PacketLen
  BY DEF IsWhole, FullLen
<1> QED
  BY <1>1, Sizes DEF RxByte, Byte, PacketLen, EOF_POS_A, EOF_POS_B

\* Inside its margins of five bytes a packet holds data, ...
LEMMA DataBytes ==
  ASSUME NEW m \in Messages, NEW i \in 5 .. m.size - 6
  PROVE  i \in Nat /\ i < PacketLen /\ PacketByte(m, i) = kDataCode
  BY Sizes DEF PacketByte, Messages, PacketLen, EOF_POS_A, EOF_POS_B

\* ... and behind the data the two bytes of the EOF position.
LEMMA MarkBytes ==
  ASSUME NEW m \in Messages
  PROVE  /\ EOF_POS_A \in Nat /\ EOF_POS_A < PacketLen
         /\ EOF_POS_B \in Nat /\ EOF_POS_B < PacketLen
         /\ PacketByte(m, EOF_POS_A) =
              IF MarksSize(m) THEN (m.size \div 256) % 256 ELSE 0
         /\ PacketByte(m, EOF_POS_B) = IF MarksSize(m) THEN m.size % 256 ELSE 0
  BY Sizes DEF PacketByte, Messages, PacketLen, EOF_POS_A, EOF_POS_B

\* rcvDataBlock() decodes a whole packet correctly: it does not take A or B
\* for data, sees an EOF exactly in the last packet and at its size, and
\* finds nothing but 'C' where it looks for data.
LEMMA WholePacket ==
  ASSUME TypeOK, ChanInv, NEW n, chan # <<>>, chan[1].kind = "packet", IsWhole(n)
  PROVE  /\ ~LooksLikeData(n)
         /\ Decoded(n) = IF chan[1].eof THEN chan[1].size ELSE 0
         /\ OnlyData(n, IF Decoded(n) > 0 THEN Decoded(n) ELSE SIZE_ONE_PACKET)
<1> DEFINE m == chan[1]
           a == RxByte(n, EOF_POS_A)
           b == RxByte(n, EOF_POS_B)
<1>1. m \in Messages /\ MessageOK(m) /\ m.kind = "packet"
  BY DEF TypeOK, ChanInv
<1>2. /\ a = IF MarksSize(m) THEN (m.size \div 256) % 256 ELSE 0
      /\ b = IF MarksSize(m) THEN m.size % 256 ELSE 0
  BY <1>1, WholeBytes, MarkBytes
<1>3. /\ m.size \in Nat /\ 0 < m.size /\ m.size <= SIZE_ONE_PACKET
      /\ m.eof => m.size \in LastSizes
      /\ m.eof \/ m.size = SIZE_ONE_PACKET
      /\ MarksSize(m) <=> m.eof
  BY <1>1, Sizes DEF Messages, MessageOK, MarksSize
<1>4. m.eof => /\ m.size \div 256 # kDataCode
               /\ m.size % 256 # kDataCode
  BY <1>3, LastSizesOK
<1>5. /\ (m.size \div 256) % 256 = m.size \div 256
      /\ m.size \div 256 \in Nat /\ m.size % 256 \in Nat
      /\ (m.size \div 256) * 256 + (m.size % 256) = m.size
  <2> DEFINE sz == m.size
  <2>1. sz \in Nat /\ sz <= 65535
    BY <1>3, Sizes
  <2> HIDE DEF sz
  <2>2. /\ (sz \div 256) % 256 = sz \div 256
        /\ sz \div 256 \in Nat /\ sz % 256 \in Nat
        /\ (sz \div 256) * 256 + (sz % 256) = sz
    BY <2>1, TwoBytes
  <2> QED
    BY <2>2, Zenon DEF sz
<1>6. kDataCode \notin {a, b}
  BY <1>2, <1>3, <1>4, <1>5 DEF kDataCode
<1>7. a * 256 + b = IF m.eof THEN m.size ELSE 0
  <2>1. CASE m.eof
    <3>1. a = m.size \div 256 /\ b = m.size % 256
      BY <2>1, <1>2, <1>3, <1>5
    <3> QED
      BY <2>1, <3>1, <1>5
  <2>2. CASE ~m.eof
    <3>1. a = 0 /\ b = 0
      BY <2>2, <1>2, <1>3
    <3> QED
      BY <2>2, <3>1
  <2> QED
    BY <2>1, <2>2
<1>8. (IF a * 256 + b > 0 THEN a * 256 + b ELSE SIZE_ONE_PACKET) = m.size
  BY <1>3, <1>7, Sizes
<1>9. OnlyData(n, m.size)
  BY <1>1, WholeBytes, DataBytes DEF OnlyData
<1> QED
  BY <1>6, <1>7, <1>8, <1>9 DEF LooksLikeData, Decoded
------------------------------------------------------------------------------
(* The stream.                                                             *)

\* recv() takes bytes from the front, never more than the stream has.
LEMMA ConsumeFacts ==
  ASSUME TypeOK, chan # <<>>, NEW max, NEW n \in RecvLengths(max), Consume(n)
  PROVE  /\ n \in Nat /\ n > 0
         /\ skip' \in Nat
         /\ \E d \in 0 .. Len(chan) : chan' = SubSeq(chan, d + 1, Len(chan))
         /\ IsWhole(n) => skip' = 0 /\ chan' = SubSeq(chan, 2, Len(chan))
<1> DEFINE l1 == chan[1].len
           l2 == chan[2].len
           c == Len(chan)
           rest == skip + n - l1
           gone == IF rest < 0 THEN 0 ELSE IF rest > 0 /\ rest = l2 THEN 2 ELSE 1
<1>1. /\ c \in Nat /\ c >= 1 /\ skip \in Nat
      /\ l1 \in Nat /\ l1 > 0
  BY Sizes DEF TypeOK, Messages, PacketLen, EOF_POS_A, EOF_POS_B
<1>2. n \in Nat /\ n > 0
  BY <1>1, Sizes DEF RecvLengths
<1>3. c = 1 => n <= l1 - skip
  BY DEF RecvLengths, Available
<1>4. /\ chan' = SubSeq(chan, gone + 1, c)
      /\ skip' = CASE gone = 0 -> skip + n [] gone = 1 -> rest [] gone = 2 -> 0
  BY DEF Consume
<1>5. IsWhole(n) => skip = 0 /\ n = l1
  BY DEF IsWhole
<1> HIDE DEF l1, l2, c
<1>6. gone \in 0 .. c
  BY <1>1, <1>2, <1>3
<1>7. skip' \in Nat
  <2>1. CASE rest < 0
    BY <1>1, <1>2, <1>4, <2>1
  <2>2. CASE ~(rest < 0)
    BY <1>1, <1>2, <1>4, <2>2
  <2> QED
    BY <2>1, <2>2
<1>8. IsWhole(n) => gone = 1 /\ rest = 0
  BY <1>1, <1>2, <1>5
<1>9. IsWhole(n) => skip' = 0 /\ chan' = SubSeq(chan, 2, c)
  <2> SUFFICES ASSUME IsWhole(n) PROVE skip' = 0 /\ chan' = SubSeq(chan, 2, c)
    OBVIOUS
  <2>1. gone = 1 /\ rest = 0
    BY <1>8
  <2> HIDE DEF gone, rest
  <2>2. chan' = SubSeq(chan, gone + 1, c)
    BY <1>4 DEF gone
  <2>3. gone + 1 = 2
    BY <2>1
  <2>4. skip' = rest
    BY <1>4, <2>1 DEF gone, rest
  <2> QED
    BY <2>1, <2>2, <2>3, <2>4
<1> QED
  BY <1>2, <1>4, <1>6, <1>7, <1>9 DEF c

\* Every byte the client looks at is a number.
LEMMA RxByteNat ==
  ASSUME TypeOK, chan # <<>>, NEW max, NEW n \in RecvLengths(max), NEW i \in Nat
  PROVE  RxByte(n, i) \in Nat
<1>1. /\ Len(chan) \in Nat /\ Len(chan) >= 1 /\ skip \in Nat
      /\ chan[1] \in Messages
      /\ Len(chan) >= 2 => chan[2] \in Messages
  BY DEF TypeOK
<1>2. n \in Nat /\ n > 0
  BY <1>1, Sizes DEF RecvLengths, Messages, PacketLen, EOF_POS_A, EOF_POS_B
<1>3. ASSUME NEW m \in Messages, NEW j \in Nat, j < m.len
      PROVE  Byte(m, j) \in Nat
  <2>1. CASE m.kind = "reply"
    <3>1. j + 1 \in 1 .. 7
      BY <1>3, <2>1 DEF Messages, FullLen, ReplyLen
    <3> QED
      BY <2>1, <3>1 DEF Byte, Reply
  <2>2. CASE m.kind = "packet"
    <3>1. m.size \in Nat /\ m.size <= 65535
      BY Sizes DEF Messages
    <3>2. m.size % 256 \in Nat /\ (m.size \div 256) % 256 \in Nat
      BY <3>1, TwoBytes
    <3> QED
      BY <2>2, <3>2 DEF Byte, PacketByte, kDataCode
  <2> QED
    BY <2>1, <2>2 DEF Messages
<1>4. CASE i >= n
  BY <1>2, <1>4 DEF RxByte
<1>5. CASE i < n /\ skip + i < chan[1].len
  BY <1>1, <1>2, <1>3, <1>5 DEF RxByte
<1>6. CASE i < n /\ ~(skip + i < chan[1].len)
  <2> DEFINE l1 == chan[1].len
             l2 == chan[2].len
             c == Len(chan)
  <2>1. l1 \in Nat /\ c \in Nat /\ c >= 1
    BY <1>1 DEF Messages, PacketLen, EOF_POS_A, EOF_POS_B
  <2>2. n <= IF c = 1 THEN l1 - skip ELSE l1 + l2 - skip
    BY DEF RecvLengths, Available
  <2>3. i < n /\ ~(skip + i < l1)
    BY <1>6
  <2>4. c >= 2 => l2 \in Nat
    BY <1>1 DEF Messages
  <2>5. RxByte(n, i) = Byte(chan[2], skip + i - l1)
    BY <1>1, <1>2, <2>1, <2>3 DEF RxByte
  <2> HIDE DEF l1, l2, c
  <2>6. c >= 2
    BY <1>1, <1>2, <2>1, <2>2, <2>3
  <2>7. skip + i - l1 \in Nat /\ skip + i - l1 < l2
    BY <1>1, <1>2, <2>1, <2>2, <2>3, <2>4, <2>6
  <2> QED
    BY <1>1, <1>3, <2>5, <2>6, <2>7 DEF l1, l2, c
<1> QED
  BY <1>1, <1>2, <1>4, <1>5, <1>6
\* Messages leave at the front, ...
LEMMA SuffixOfChan ==
  ASSUME TypeOK, NEW d \in 0 .. Len(chan),
         chan' = SubSeq(chan, d + 1, Len(chan))
  PROVE  /\ chan' \in Seq(Messages)
         /\ Len(chan') = Len(chan) - d
         /\ \A i \in 1 .. Len(chan') : chan'[i] = chan[i + d]
         /\ ChanInv => ChanInv'
<1>1. chan \in Seq(Messages) /\ Len(chan) \in Nat
  BY DEF TypeOK
<1>2. /\ chan' \in Seq(Messages)
      /\ Len(chan') = Len(chan) - d
      /\ \A i \in 1 .. Len(chan) - d : chan'[i] = chan[i + d]
  BY <1>1, SubSeqProperties
<1>3. ChanInv => ChanInv'
  BY <1>1, <1>2 DEF ChanInv, MessageOK
<1> QED
  BY <1>2, <1>3

\* ... are lost at the back, ...
LEMMA PrefixOfChan ==
  ASSUME TypeOK, NEW k \in 0 .. Len(chan), chan' = SubSeq(chan, 1, k)
  PROVE  /\ chan' \in Seq(Messages)
         /\ Len(chan') = k
         /\ \A i \in 1 .. k : chan'[i] = chan[i]
         /\ ChanInv => ChanInv'
<1>1. chan \in Seq(Messages) /\ Len(chan) \in Nat
  BY DEF TypeOK
<1>2. /\ chan' \in Seq(Messages)
      /\ Len(chan') = k
      /\ \A i \in 1 .. k : chan'[i] = chan[i]
  BY <1>1, SubSeqProperties
<1>3. ChanInv => ChanInv'
  BY <1>1, <1>2 DEF ChanInv, MessageOK
<1> QED
  BY <1>2, <1>3

\* ... and are added there.
LEMMA AppendToChan ==
  ASSUME TypeOK, NEW m \in Messages, chan' = Append(chan, m)
  PROVE  /\ chan' \in Seq(Messages) /\ chan' # <<>>
         /\ Len(chan') = Len(chan) + 1
         /\ chan'[Len(chan')] = m
         /\ \A i \in 1 .. Len(chan) : chan'[i] = chan[i]
         /\ ( /\ ChanInv /\ MessageOK(m)
              /\ chan # <<>> => /\ m.kind = "packet"
                                /\ chan[Len(chan)].start + chan[Len(chan)].size
                                     = m.start ) => ChanInv'
<1>1. chan \in Seq(Messages) /\ Len(chan) \in Nat
  BY DEF TypeOK
<1>2. /\ chan' \in Seq(Messages) /\ chan' # <<>>
      /\ Len(chan') = Len(chan) + 1
      /\ chan'[Len(chan) + 1] = m
      /\ \A i \in 1 .. Len(chan) : chan'[i] = chan[i]
  BY <1>1
<1>3. ASSUME ChanInv, MessageOK(m),
             chan # <<>> => /\ m.kind = "packet"
                            /\ chan[Len(chan)].start + chan[Len(chan)].size = m.start
      PROVE  ChanInv'
  <2>1. \A i \in 1 .. Len(chan') : MessageOK(chan'[i])
    BY <1>1, <1>2, <1>3 DEF ChanInv
  <2>2. \A i \in 2 .. Len(chan') : chan'[i].kind = "packet"
    BY <1>1, <1>2, <1>3 DEF ChanInv
  <2>3. \A i \in 1 .. Len(chan') - 1 :
          chan'[i].start + chan'[i].size = chan'[i + 1].start
    BY <1>1, <1>2, <1>3 DEF ChanInv
  <2> QED
    BY <2>1, <2>2, <2>3 DEF ChanInv, MessageOK
<1> QED
  BY <1>2, <1>3
------------------------------------------------------------------------------
(* Type correctness.                                                       *)

\* What sendDataBlock() and sendReqOK() send are messages, cut short or not.
LEMMA NextPacketType ==
  ASSUME TypeOK
  PROVE  /\ NextPacket \in Messages
         /\ \A n \in ReadSizes : n < PacketLen =>
              Cut(NextPacket, n) \in Messages
         /\ Message("reply", 0, 0, FALSE) \in Messages
<1>1. ASSUME NEW s \in Nat, NEW n \in 0 .. SIZE_ONE_PACKET, NEW eof \in BOOLEAN,
             NEW l \in 1 .. PacketLen
      PROVE  /\ [kind |-> "packet", start |-> s, size |-> n, eof |-> eof, len |-> l]
                  \in Messages
             /\ l = 7 => [kind |-> "reply", start |-> s, size |-> n, eof |-> eof,
                          len |-> l] \in Messages
  BY <1>1, Sizes DEF Messages, FullLen, ReplyLen
<1>2. PacketLen \in 1 .. PacketLen /\ 7 \in 1 .. PacketLen
  BY Sizes DEF PacketLen, EOF_POS_A, EOF_POS_B
<1>3. ASSUME NEW s \in Nat, NEW n \in 0 .. SIZE_ONE_PACKET, NEW eof \in BOOLEAN
      PROVE  /\ Message("packet", s, n, eof) \in Messages
             /\ \A r \in ReadSizes : r < PacketLen =>
                  Cut(Message("packet", s, n, eof), r) \in Messages
  <2>1. Message("packet", s, n, eof) =
          [kind |-> "packet", start |-> s, size |-> n, eof |-> eof, len |-> PacketLen]
    BY DEF Message, FullLen
  <2>2. ASSUME NEW r \in ReadSizes, r < PacketLen
        PROVE  Cut(Message("packet", s, n, eof), r) \in Messages
    <3>1. r \in 1 .. PacketLen
      BY <2>2, Sizes DEF PacketLen, EOF_POS_A, EOF_POS_B
    <3>2. Cut(Message("packet", s, n, eof), r) =
            [kind |-> "packet", start |-> s, size |-> n, eof |-> eof, len |-> r]
      BY DEF Message, Cut
    <3>3. [kind |-> "packet", start |-> s, size |-> n, eof |-> eof, len |-> r]
            \in Messages
      BY <1>1, <3>1
    <3> QED
      BY <3>2, <3>3, Zenon
  <2> QED
    BY <1>1, <1>2, <2>1, <2>2
<1>4. /\ start \in Nat /\ SIZE_ONE_PACKET \in 0 .. SIZE_ONE_PACKET
      /\ ~(leftSize > SIZE_ONE_PACKET) => leftSize \in 0 .. SIZE_ONE_PACKET
  BY Sizes DEF TypeOK
<1>5. Message("reply", 0, 0, FALSE) \in Messages
  <2>1. Message("reply", 0, 0, FALSE) =
          [kind |-> "reply", start |-> 0, size |-> 0, eof |-> FALSE, len |-> 7]
    BY DEF Message, FullLen, ReplyLen
  <2>2. 0 \in Nat /\ 0 \in 0 .. SIZE_ONE_PACKET /\ FALSE \in BOOLEAN
    BY Sizes
  <2>3. [kind |-> "reply", start |-> 0, size |-> 0, eof |-> FALSE, len |-> 7] \in Messages
    BY <1>1, <1>2, <2>2
  <2> QED
    BY <2>1, <2>3, Zenon
<1>6. CASE leftSize > SIZE_ONE_PACKET
  <2>1. NextPacket = Message("packet", start, SIZE_ONE_PACKET, FALSE)
    BY <1>6 DEF NextPacket
  <2>2. FALSE \in BOOLEAN
    OBVIOUS
  <2>3. /\ Message("packet", start, SIZE_ONE_PACKET, FALSE) \in Messages
        /\ \A r \in ReadSizes : r < PacketLen =>
             Cut(Message("packet", start, SIZE_ONE_PACKET, FALSE), r) \in Messages
    BY <1>3, <1>4, <1>6, <2>2, Zenon
  <2> QED
    BY <1>5, <2>1, <2>3, Zenon
<1>7. CASE ~(leftSize > SIZE_ONE_PACKET)
  <2>1. NextPacket = Message("packet", start, leftSize, TRUE)
    BY <1>7 DEF NextPacket
  <2>2. TRUE \in BOOLEAN
    OBVIOUS
  <2>3. /\ Message("packet", start, leftSize, TRUE) \in Messages
        /\ \A r \in ReadSizes : r < PacketLen =>
             Cut(Message("packet", start, leftSize, TRUE), r) \in Messages
    BY <1>3, <1>4, <1>7, <2>2, Zenon
  <2> QED
    BY <1>5, <2>1, <2>3, Zenon
<1> QED
  BY <1>6, <1>7

\* TypeOK, with the flags of the programs apart from the rest.
Flags == /\ request \in BOOLEAN /\ rcvdEOF \in BOOLEAN
         /\ rcvOK \in BOOLEAN /\ whole \in BOOLEAN

NoFlags ==
  /\ srv \in {"init", "listen", "recv", "send", "done", "killed"}
  /\ start \in Nat /\ leftSize \in Nat
  /\ chan \in Seq(Messages) /\ skip \in Nat
  /\ end \in {"open", "fin", "rst"}
  /\ cli \in {"init", "request", "refused", "reply", "block", "closed", "killed"}
  /\ EOFpos \in Nat /\ got \in Nat

\* The two parts are the whole.
LEMMA TypeParts ==
  /\ TypeOK <=> Flags /\ NoFlags
  /\ TypeOK' <=> Flags' /\ NoFlags'
  BY DEF TypeOK, Flags, NoFlags

\* The server's steps keep the types, ...
LEMMA ServerTypeOK ==
  ASSUME TypeOK, ServerStep
  PROVE  TypeOK'
<1>1. ASSUME NEW m \in Messages, NEW next, Send(m, next)
      PROVE  chan' \in Seq(Messages) /\ srv' \in {next, "killed"}
  BY <1>1 DEF Send, TypeOK
<1>2. CASE ServerListen
  BY <1>2 DEF ServerListen, TypeOK, clientVars
<1>3. CASE ServerAccept
  BY <1>3 DEF ServerAccept, TypeOK, clientVars
<1>4. CASE ServerReply
  <2>1. chan' \in Seq(Messages) /\ srv' \in {"send", "killed"}
    BY <1>1, <1>4, NextPacketType DEF ServerReply
  <2>2. Flags'
    BY <1>4, Zenon DEF ServerReply, TypeOK, Flags, clientVars
  <2>3. NoFlags'
    BY <1>4, <2>1, Sizes DEF ServerReply, TypeOK, NoFlags, clientVars
  <2> QED
    BY <2>2, <2>3, TypeParts
<1>5. CASE ServerLeave
  BY <1>5 DEF ServerLeave, TypeOK, clientVars
<1>6. CASE ServerSendPacket
  <2>1. chan' \in Seq(Messages) /\ srv' \in {"send", "killed"}
    BY <1>1, <1>6, NextPacketType DEF ServerSendPacket
  <2> QED
    BY <1>6, <2>1, Sizes DEF ServerSendPacket, TypeOK, clientVars
<1>7. CASE ServerSendLast
  <2>1. chan' \in Seq(Messages) /\ srv' \in {"recv", "killed"}
    BY <1>1, <1>7, NextPacketType DEF ServerSendLast
  <2> QED
    BY <1>7, <2>1 DEF ServerSendLast, TypeOK, clientVars
<1> QED
  BY <1>2, <1>3, <1>4, <1>5, <1>6, <1>7 DEF ServerStep

\* ... so does its death, ...
LEMMA DiesTypeOK ==
  ASSUME TypeOK, ServerDies
  PROVE  TypeOK'
<1>1. chan' \in Seq(Messages)
  <2>1. CASE UNCHANGED chan
    BY <2>1 DEF TypeOK
  <2>2. ASSUME NEW n \in {r \in ReadSizes : r < PacketLen},
               chan' = Append(chan, Cut(NextPacket, n))
        PROVE  chan' \in Seq(Messages)
    <3>1. Cut(NextPacket, n) \in Messages
      BY NextPacketType
    <3> QED
      BY <2>2, <3>1, AppendToChan
  <2>3. CASE \E k \in 0 .. Len(chan) : chan' = SubSeq(chan, 1, k)
    BY <2>3, PrefixOfChan
  <2> QED
    BY <2>1, <2>2, <2>3 DEF ServerDies
<1>2. skip' \in Nat /\ end' \in {"open", "fin", "rst"} /\ srv' = "killed"
  BY DEF ServerDies, TypeOK
<1> QED
  BY <1>1, <1>2 DEF ServerDies, TypeOK, clientVars

\* ... and so do the client's steps.
LEMMA ClientTypeOK ==
  ASSUME TypeOK, ClientStep
  PROVE  TypeOK'
<1>1. ASSUME chan # <<>>, NEW max, NEW n \in RecvLengths(max), Consume(n)
      PROVE  skip' \in Nat /\ chan' \in Seq(Messages)
  BY <1>1, ConsumeFacts, SuffixOfChan
<1>2. CASE ClientConnect
  BY <1>2 DEF ClientConnect, TypeOK, serverVars
<1>3. CASE ClientRequest
  BY <1>3 DEF ClientRequest, TypeOK, serverVars
<1>4. CASE ClientRecvReply
  <2>1. skip' \in Nat /\ chan' \in Seq(Messages)
    BY <1>1, <1>4 DEF ClientRecvReply, TypeOK
  <2>2. whole' \in BOOLEAN /\ cli' \in {"block", "closed"} /\ end' \in {"open", "fin", "rst"}
    BY <1>4 DEF ClientRecvReply, AtEnd, TypeOK, IsWhole
  <2> QED
    BY <1>4, <2>1, <2>2 DEF ClientRecvReply, TypeOK, serverVars
<1>5. CASE ClientRecvBlock
  <2>1. PICK n \in RecvLengths(PacketLen) :
          /\ Consume(n)
          /\ whole' = (whole /\ IsWhole(n))
          /\ got' = IF whole' THEN got + chan[1].size ELSE got
          /\ TakeAsData(n) \/ TakeAsPacket(n)
    BY <1>5 DEF ClientRecvBlock
  <2>2. chan # <<>> /\ UNCHANGED <<serverVars, request, end>>
    BY <1>5 DEF ClientRecvBlock
  <2>3. skip' \in Nat /\ chan' \in Seq(Messages)
    BY <1>1, <2>1, <2>2
  <2>4. EOFpos' \in Nat
    <3>1. Decoded(n) \in Nat
      BY <2>2, RxByteNat, Sizes DEF Decoded, EOF_POS_A, EOF_POS_B
    <3> QED
      BY <2>1, <3>1 DEF TypeOK, TakeAsData, TakeAsPacket
  <2>5. got' \in Nat
    <3>1. chan[1].size \in Nat
      BY <2>2, Sizes DEF TypeOK, Messages
    <3> QED
      BY <2>1, <3>1 DEF TypeOK
  <2>6. Flags'
    <3>1. rcvOK' \in BOOLEAN
      BY <2>1 DEF TakeAsData, TakeAsPacket, OnlyData
    <3>2. rcvdEOF' \in BOOLEAN
      <4>1. TakeAsData(n) => rcvdEOF' \in BOOLEAN
        BY Zenon DEF TakeAsData
      <4>2. TakeAsPacket(n) => rcvdEOF' \in BOOLEAN
        BY DEF TakeAsPacket
      <4> QED
        BY <2>1, <4>1, <4>2
    <3>3. whole' \in BOOLEAN
      BY <2>1, Zenon DEF IsWhole
    <3> QED
      BY <2>2, <3>1, <3>2, <3>3 DEF Flags, TypeOK
  <2>7. cli' \in {"block", "closed", "killed"}
    BY <2>1 DEF TakeAsData, TakeAsPacket, AfterBlock
  <2>8. NoFlags'
    BY <2>2, <2>3, <2>4, <2>5, <2>7 DEF NoFlags, TypeOK, serverVars
  <2> QED
    BY <2>6, <2>8, TypeParts
<1>6. CASE ClientRecvEnd
  <2>1. Flags'
    <3>1. rcvOK' \in BOOLEAN
      <4>1. rcvOK' = (SIZE_ONE_PACKET - 6 < 5) => rcvOK' \in BOOLEAN
        OBVIOUS
      <4> QED
        BY <1>6, <4>1, Zenon DEF ClientRecvEnd, TypeOK
    <3>2. rcvdEOF' \in BOOLEAN
      BY <1>6, Zenon DEF ClientRecvEnd, TypeOK
    <3> QED
      BY <1>6, <3>1, <3>2, Zenon DEF ClientRecvEnd, TypeOK, Flags, serverVars
  <2>2. EOFpos' \in Nat /\ end' \in {"open", "fin", "rst"} /\ cli' \in {"block", "closed"}
    BY <1>6 DEF ClientRecvEnd, AtEnd, AfterBlock, TypeOK
  <2>3. NoFlags'
    BY <1>6, <2>2 DEF ClientRecvEnd, NoFlags, TypeOK, serverVars
  <2> QED
    BY <2>1, <2>3, TypeParts
<1> QED
  BY <1>2, <1>3, <1>4, <1>5, <1>6 DEF ClientStep

\* The variables of both programs keep their types, whatever recv() returns
\* and whenever the server dies.
THEOREM TypeCorrect == Spec => []TypeOK
<1>1. Init => TypeOK
  <2>1. Init => Flags
    BY Zenon DEF Init, Flags
  <2>2. Init => NoFlags
    BY DEF Init, NoFlags
  <2> QED
    BY <2>1, <2>2, TypeParts
<1>2. TypeOK /\ [Next]_vars => TypeOK'
  <2>1. CASE UNCHANGED vars
    BY <2>1 DEF TypeOK, vars, serverVars, clientVars
  <2> QED
    BY <2>1, ServerTypeOK, ClientTypeOK, DiesTypeOK DEF Next
<1> QED
  BY <1>1, <1>2, PTL DEF Spec
------------------------------------------------------------------------------
(* The inductive invariant: the steps of the server.                       *)

\* Each turn of sendDataBlock() builds a packet that continues the block.
LEMMA NextPacketOK ==
  ASSUME TypeOK, SendInv, srv = "send"
  PROVE  /\ NextPacket \in Messages /\ MessageOK(NextPacket)
         /\ NextPacket.kind = "packet" /\ NextPacket.start = start
         /\ leftSize > SIZE_ONE_PACKET =>
              /\ NextPacket.size = SIZE_ONE_PACKET /\ ~NextPacket.eof
         /\ ~(leftSize > SIZE_ONE_PACKET) => NextPacket.eof
<1>1. /\ leftSize \in Nat /\ start \in Nat /\ leftSize > 0
      /\ start + leftSize = SIZE_LARGE_DATA
  BY DEF TypeOK, SendInv
<1>2. CASE leftSize > SIZE_ONE_PACKET
  <2>1. /\ NextPacket.kind = "packet" /\ NextPacket.start = start
        /\ NextPacket.size = SIZE_ONE_PACKET /\ NextPacket.eof = FALSE
    BY <1>2 DEF NextPacket, Message
  <2> QED
    BY <1>1, <1>2, <2>1, Sizes, NextPacketType DEF MessageOK
<1>3. CASE ~(leftSize > SIZE_ONE_PACKET)
  <2>1. /\ NextPacket.kind = "packet" /\ NextPacket.start = start
        /\ NextPacket.size = leftSize /\ NextPacket.eof = TRUE
    BY <1>3 DEF NextPacket, Message
  <2>2. leftSize \in LastSizes
    <3>1. PICK k \in 0 .. SIZE_LARGE_DATA : start = k * SIZE_ONE_PACKET
      BY DEF SendInv
    <3>2. leftSize \in 1 .. SIZE_ONE_PACKET
      BY <1>1, <1>3, Sizes
    <3>3. k * SIZE_ONE_PACKET + leftSize = SIZE_LARGE_DATA
      BY <1>1, <3>1
    <3> QED
      BY <3>2, <3>3, LastSizeInSet
  <2> QED
    BY <1>1, <1>3, <2>1, <2>2, Sizes, NextPacketType DEF MessageOK
<1> QED
  BY <1>2, <1>3

\* sendReqOK() opens an empty stream and sets the loop up.
LEMMA ServerReplyInv ==
  ASSUME Inv, ServerReply
  PROVE  Inv'
<1>1. TypeOK'
  BY ServerTypeOK DEF Inv, ServerStep
<1>2. /\ srv = "recv" /\ leftSize = 0 /\ cli = "reply" /\ chan = <<>>
      /\ got = 0 /\ whole /\ skip = 0 /\ ~rcvdEOF
  BY DEF Inv, PhaseInv, WholeInv, ServerReply, ClientGone
<1> DEFINE r == Message("reply", 0, 0, FALSE)
<1>3. /\ chan' = Append(chan, r) /\ srv' = "send"
      /\ start' = 0 /\ leftSize' = SIZE_LARGE_DATA
      /\ UNCHANGED <<skip, end, cli, rcvdEOF, rcvOK, EOFpos, whole, got>>
      /\ ~request'
  BY <1>2 DEF ServerReply, Send, ClientGone, clientVars
<1>4. r \in Messages
  BY NextPacketType DEF Inv
<1>5. r.kind = "reply" /\ r.start = 0 /\ r.size = 0 /\ ~r.eof
  BY DEF Message
<1> HIDE DEF r
<1>6. /\ ChanInv' /\ Len(chan') = 1 /\ chan'[1] = r /\ chan' # <<>>
  <2>1. MessageOK(r)
    BY <1>5, Sizes DEF MessageOK
  <2>2. ChanInv
    BY DEF Inv
  <2>3. Len(chan) = 0
    BY <1>2
  <2> QED
    BY <1>2, <1>3, <1>4, <2>1, <2>2, <2>3, AppendToChan DEF Inv
<1>7. SendInv'
  <2>1. 0 \in 0 .. SIZE_LARGE_DATA /\ start' = 0 * SIZE_ONE_PACKET
    BY <1>3, Sizes
  <2> QED
    BY <1>3, <1>5, <1>6, <2>1, Sizes DEF SendInv
<1>8. PhaseInv'
  BY <1>2, <1>3, <1>5, <1>6, Sizes DEF Inv, PhaseInv, ClientGone
<1>9. WholeInv'
  BY <1>2, <1>3, <1>5, <1>6 DEF WholeInv, ClientGone
<1> QED
  BY <1>1, <1>6, <1>7, <1>8, <1>9 DEF Inv

\* Both kinds of packet, as far as they do the same.
LEMMA SendPacketInv ==
  ASSUME Inv, NEW next \in {"send", "recv"}, srv = "send",
         Send(NextPacket, next)
  PROVE  /\ ChanInv'
         /\ ~ClientGone => /\ chan' # <<>> /\ chan'[Len(chan')] = NextPacket
                           /\ srv' = next
         /\ whole => (chan' # <<>> => chan'[1].start = got)
         /\ cli = "reply" => chan'[1] = chan[1]
         /\ whole /\ cli = "block" => chan'[1].kind = "packet"
         /\ ClientGone => chan' = chan /\ srv' \in {next, "killed"}
<1>1. CASE ClientGone
  BY <1>1 DEF Send, Inv, ChanInv, MessageOK, WholeInv, ClientGone
<1>2. CASE ~ClientGone
  <2>1. chan' = Append(chan, NextPacket) /\ srv' = next
    BY <1>2 DEF Send
  <2>2. /\ NextPacket \in Messages /\ MessageOK(NextPacket)
        /\ NextPacket.kind = "packet" /\ NextPacket.start = start
    BY NextPacketOK DEF Inv
  <2>3. chan # <<>> => chan[Len(chan)].start + chan[Len(chan)].size = start
    BY <1>2 DEF Inv, SendInv
  <2>4. /\ ChanInv' /\ chan' # <<>> /\ chan'[Len(chan')] = NextPacket
        /\ Len(chan') = Len(chan) + 1
        /\ \A i \in 1 .. Len(chan) : chan'[i] = chan[i]
    BY <2>1, <2>2, <2>3, AppendToChan DEF Inv
  <2>5. CASE chan = <<>>
    <3>1. Len(chan') = 1 /\ chan'[1] = NextPacket
      BY <2>4, <2>5
    <3>2. cli # "reply"
      BY <2>5, Sizes DEF Inv, PhaseInv, SendInv, TypeOK
    <3>3. whole => got = start
      BY <1>2, <2>5 DEF Inv, SendInv
    <3> QED
      BY <1>2, <2>1, <2>2, <2>4, <3>1, <3>2, <3>3
  <2>6. CASE chan # <<>>
    <3>1. chan'[1] = chan[1]
      <4>1. Len(chan) \in Nat /\ Len(chan) # 0
        BY <2>6 DEF Inv, TypeOK
      <4> QED
        BY <2>4, <4>1
    <3> QED
      BY <1>2, <2>1, <2>4, <2>6, <3>1 DEF Inv, WholeInv
  <2> QED
    BY <2>5, <2>6
<1> QED
  BY <1>1, <1>2
\* A full packet: start stays a multiple of the packet.
LEMMA ServerSendPacketInv ==
  ASSUME Inv, ServerSendPacket
  PROVE  Inv'
<1>1. TypeOK'
  BY ServerTypeOK DEF Inv, ServerStep
<1>2. /\ srv = "send" /\ Send(NextPacket, "send") /\ leftSize > SIZE_ONE_PACKET
      /\ start' = start + SIZE_ONE_PACKET /\ leftSize' = leftSize - SIZE_ONE_PACKET
      /\ UNCHANGED <<request, skip, end, cli, rcvdEOF, rcvOK, EOFpos, whole, got>>
  BY DEF ServerSendPacket, clientVars
<1>3. /\ start \in Nat /\ leftSize \in Nat /\ start + leftSize = SIZE_LARGE_DATA
  BY <1>2 DEF Inv, TypeOK, SendInv
<1>4. /\ NextPacket.start = start /\ NextPacket.size = SIZE_ONE_PACKET
  BY <1>2, NextPacketOK DEF Inv
<1>5. /\ ChanInv'
      /\ ~ClientGone => /\ chan' # <<>> /\ chan'[Len(chan')] = NextPacket
                        /\ srv' = "send"
      /\ whole => (chan' # <<>> => chan'[1].start = got)
      /\ cli = "reply" => chan'[1] = chan[1]
      /\ whole /\ cli = "block" => chan'[1].kind = "packet"
      /\ ClientGone => chan' = chan /\ srv' \in {"send", "killed"}
  BY <1>2, SendPacketInv
<1>6. SendInv'
  <2>1. PICK k \in 0 .. SIZE_LARGE_DATA : start = k * SIZE_ONE_PACKET
    BY <1>2 DEF Inv, SendInv
  <2>2. /\ k + 1 \in 0 .. SIZE_LARGE_DATA
        /\ (k + 1) * SIZE_ONE_PACKET = k * SIZE_ONE_PACKET + SIZE_ONE_PACKET
    <3>1. k * SIZE_ONE_PACKET + leftSize = SIZE_LARGE_DATA
      BY <1>3, <2>1
    <3> QED
      BY <1>2, <1>3, <3>1, NextMultiple
  <2>3. \E j \in 0 .. SIZE_LARGE_DATA : start' = j * SIZE_ONE_PACKET
    <3>1. start' = (k + 1) * SIZE_ONE_PACKET
      BY <1>2, <2>1, <2>2
    <3> QED
      BY <2>2, <3>1
  <2>4. leftSize' > 0 /\ start' + leftSize' = SIZE_LARGE_DATA
    BY <1>2, <1>3, Sizes
  <2>5. ~ClientGone' /\ chan' # <<>> =>
          chan'[Len(chan')].start + chan'[Len(chan')].size = start'
    BY <1>2, <1>4, <1>5 DEF ClientGone
  <2>6. ~(~ClientGone' /\ chan' = <<>>)
    BY <1>2, <1>5 DEF ClientGone
  <2> QED
    BY <2>3, <2>4, <2>5, <2>6 DEF SendInv
<1>7. leftSize > 0 /\ leftSize' > 0
  BY <1>2, <1>3, Sizes
<1>8. PhaseInv'
  BY <1>2, <1>5, <1>7 DEF Inv, PhaseInv, ClientGone
<1>9. WholeInv'
  BY <1>2, <1>5, <1>7 DEF Inv, WholeInv, ClientGone
<1> QED
  BY <1>1, <1>5, <1>6, <1>8, <1>9 DEF Inv

\* The last packet: the stream ends with the EOF.
LEMMA ServerSendLastInv ==
  ASSUME Inv, ServerSendLast
  PROVE  Inv'
<1>1. TypeOK'
  BY ServerTypeOK DEF Inv, ServerStep
<1>2. /\ srv = "send" /\ Send(NextPacket, "recv") /\ leftSize \in 1 .. SIZE_ONE_PACKET
      /\ UNCHANGED <<start, leftSize, request, skip, end, cli, rcvdEOF, rcvOK,
                     EOFpos, whole, got>>
  BY DEF ServerSendLast, clientVars
<1>3. leftSize > 0 /\ ~(leftSize > SIZE_ONE_PACKET)
  BY <1>2, Sizes
<1>4. NextPacket.eof
  BY <1>2, <1>3, NextPacketOK DEF Inv
<1>5. /\ ChanInv'
      /\ ~ClientGone => /\ chan' # <<>> /\ chan'[Len(chan')] = NextPacket
                        /\ srv' = "recv"
      /\ whole => (chan' # <<>> => chan'[1].start = got)
      /\ cli = "reply" => chan'[1] = chan[1]
      /\ whole /\ cli = "block" => chan'[1].kind = "packet"
      /\ ClientGone => chan' = chan /\ srv' \in {"recv", "killed"}
  BY <1>2, SendPacketInv
<1>6. SendInv'
  BY <1>5 DEF SendInv
<1>7. PhaseInv'
  BY <1>2, <1>3, <1>5 DEF Inv, PhaseInv, ClientGone
<1>8. WholeInv'
  BY <1>2, <1>3, <1>4, <1>5 DEF Inv, WholeInv, ClientGone
<1> QED
  BY <1>1, <1>5, <1>6, <1>7, <1>8 DEF Inv

\* listen(), accept() and the recv() that finds the client gone.
LEMMA ServerOtherInv ==
  ASSUME Inv, ServerListen \/ ServerAccept \/ ServerLeave
  PROVE  Inv'
<1>1. TypeOK'
  BY ServerTypeOK DEF Inv, ServerStep
<1>2. /\ srv \in {"init", "listen", "recv"} /\ srv' \in {"listen", "recv", "done"}
      /\ UNCHANGED <<start, leftSize, request, chan, skip, end, cli, rcvdEOF, rcvOK,
                     EOFpos, whole, got>>
      /\ srv' = "listen" => srv = "init"
      /\ srv' = "recv" => srv = "listen"
      /\ srv' = "done" => ClientGone
  BY DEF ServerListen, ServerAccept, ServerLeave, clientVars
<1>3. ChanInv'
  BY <1>2 DEF Inv, ChanInv, MessageOK
<1>4. SendInv'
  BY <1>2 DEF SendInv
<1>5. PhaseInv'
  BY <1>2 DEF Inv, PhaseInv, ClientGone
<1>6. WholeInv'
  <2>1. srv' = "recv" => leftSize = 0
    BY <1>2 DEF Inv, PhaseInv
  <2> QED
    BY <1>2, <2>1 DEF Inv, WholeInv, ClientGone
<1> QED
  BY <1>1, <1>3, <1>4, <1>5, <1>6 DEF Inv

\* A dead server leaves the stream as it was, cut short at either end of it
\* that the client has not seen.
LEMMA ServerDiesInv ==
  ASSUME Inv, ServerDies
  PROVE  Inv'
<1> DEFINE StreamKept ==
             /\ ChanInv'
             /\ leftSize = 0 => chan' = <<>>
             /\ whole /\ chan' # <<>> => chan'[1].start = got
             /\ cli = "reply" /\ chan' # <<>> => chan'[1].kind = "reply"
             /\ whole /\ cli = "block" /\ chan' # <<>> => chan'[1].kind = "packet"
             /\ whole /\ rcvdEOF => chan' = <<>>
<1>1. TypeOK'
  BY DiesTypeOK DEF Inv
<1>2. /\ srv' = "killed" /\ srv # "killed"
      /\ UNCHANGED <<start, leftSize, request, cli, rcvdEOF, rcvOK, EOFpos, whole, got>>
      /\ skip' \in {0, skip}
  BY DEF ServerDies, clientVars
<1>3. StreamKept
  <2>1. CASE UNCHANGED chan
    BY <2>1 DEF Inv, ChanInv, MessageOK, PhaseInv, WholeInv
  <2>2. ASSUME NEW n \in {r \in ReadSizes : r < PacketLen}, srv = "send", ~ClientGone,
               chan' = Append(chan, Cut(NextPacket, n))
        PROVE  StreamKept
    <3> DEFINE m == Cut(NextPacket, n)
    <3>1. m \in Messages
      BY NextPacketType DEF Inv
    <3>2. /\ MessageOK(NextPacket) /\ NextPacket \in Messages
          /\ NextPacket.kind = "packet" /\ NextPacket.start = start
      BY <2>2, NextPacketOK DEF Inv
    <3>3. /\ m.kind = NextPacket.kind /\ m.start = NextPacket.start
          /\ m.size = NextPacket.size /\ m.eof = NextPacket.eof
      BY <3>2 DEF Cut, Messages
    <3> HIDE DEF m
    <3>4. MessageOK(m)
      BY <3>2, <3>3 DEF MessageOK
    <3>5. chan # <<>> => chan[Len(chan)].start + chan[Len(chan)].size = start
      BY <2>2 DEF Inv, SendInv
    <3>6. /\ ChanInv' /\ Len(chan') = Len(chan) + 1 /\ chan'[Len(chan')] = m
          /\ \A i \in 1 .. Len(chan) : chan'[i] = chan[i]
      BY <2>2, <3>1, <3>2, <3>3, <3>4, <3>5, AppendToChan DEF Inv, m
    <3>7. Len(chan) \in Nat /\ leftSize > 0 /\ ~rcvdEOF
      BY <2>2 DEF Inv, TypeOK, SendInv, PhaseInv
    <3>8. CASE chan = <<>>
      <4>1. Len(chan') = 1 /\ chan'[1] = m
        BY <3>6, <3>8
      <4>2. cli # "reply"
        BY <2>2, <3>7, <3>8 DEF Inv, PhaseInv
      <4>3. whole => got = start
        BY <2>2, <3>8 DEF Inv, SendInv
      <4> QED
        BY <3>2, <3>3, <3>6, <3>7, <4>1, <4>2, <4>3
    <3>9. CASE chan # <<>>
      <4>1. chan'[1] = chan[1]
        <5>1. Len(chan) # 0
          BY <3>9 DEF Inv, TypeOK
        <5> QED
          BY <3>6, <3>7, <5>1
      <4> QED
        BY <3>6, <3>7, <3>9, <4>1 DEF Inv, PhaseInv, WholeInv
    <3> QED
      BY <3>8, <3>9
  <2>3. ASSUME NEW k \in 0 .. Len(chan), chan' = SubSeq(chan, 1, k)
        PROVE  StreamKept
    <3>1. /\ ChanInv' /\ Len(chan') = k
          /\ \A i \in 1 .. k : chan'[i] = chan[i]
      BY <2>3, PrefixOfChan DEF Inv
    <3>2. Len(chan) \in Nat /\ chan \in Seq(Messages) /\ chan' \in Seq(Messages)
      BY <1>1 DEF Inv, TypeOK
    <3>3. chan' # <<>> => chan # <<>> /\ chan'[1] = chan[1]
      BY <3>1, <3>2
    <3> QED
      BY <3>1, <3>3 DEF Inv, PhaseInv, WholeInv
  <2> QED
    BY <2>1, <2>2, <2>3 DEF ServerDies
<1>4. SendInv'
  BY <1>2 DEF SendInv
<1>5. PhaseInv'
  BY <1>2, <1>3 DEF Inv, PhaseInv, ClientGone
<1>6. WholeInv'
  BY <1>2, <1>3 DEF Inv, WholeInv, ClientGone
<1> QED
  BY <1>1, <1>3, <1>4, <1>5, <1>6 DEF Inv
------------------------------------------------------------------------------
(* The inductive invariant: the steps of the client.                       *)

\* Up to its request the client has touched nothing.
LEMMA ClientConnectInv ==
  ASSUME Inv, ClientConnect \/ ClientRequest
  PROVE  Inv'
<1>1. TypeOK'
  BY ClientTypeOK DEF Inv, ClientStep
<1>2. /\ cli \in {"init", "request", "refused"} /\ leftSize = 0
      /\ UNCHANGED <<srv, start, leftSize, chan, skip, rcvdEOF, rcvOK, EOFpos, whole, got>>
      /\ cli' \in {"request", "refused", "reply", "killed"}
  BY DEF Inv, PhaseInv, ClientConnect, ClientRequest, serverVars
<1>3. ChanInv'
  BY <1>2 DEF Inv, ChanInv, MessageOK
<1>4. SendInv'
  BY <1>2 DEF Inv, SendInv
<1>5. PhaseInv'
  <2>1. CASE ClientConnect
    BY <1>2, <2>1 DEF Inv, PhaseInv, ClientGone, ClientConnect
  <2>2. CASE ClientRequest
    BY <1>2, <2>2 DEF Inv, PhaseInv, ClientGone, ClientRequest
  <2> QED
    BY <2>1, <2>2
<1>6. WholeInv'
  BY <1>2 DEF Inv, WholeInv, PhaseInv, ClientGone
<1> QED
  BY <1>1, <1>3, <1>4, <1>5, <1>6 DEF Inv

\* What a recv() that returned bytes leaves behind.
LEMMA AfterRecv ==
  ASSUME Inv, chan # <<>>, ~ClientGone, NEW max, NEW n \in RecvLengths(max), Consume(n)
  PROVE  /\ ChanInv'
         /\ leftSize > 0
         /\ chan' # <<>> => chan'[Len(chan')] = chan[Len(chan)]
         /\ IsWhole(n) =>
              /\ skip' = 0
              /\ chan' # <<>> => /\ chan'[1].start = chan[1].start + chan[1].size
                                 /\ chan'[1].kind = "packet"
              /\ chan' = <<>> => chan[Len(chan)] = chan[1]
              /\ chan' # <<>> => ~chan[1].eof
<1>1. /\ chan \in Seq(Messages) /\ Len(chan) \in Nat /\ Len(chan) >= 1 /\ ChanInv
      /\ chan' \in Seq(Messages)
  BY ConsumeFacts, SuffixOfChan DEF Inv, TypeOK
<1>2. leftSize > 0
  BY DEF Inv, PhaseInv, TypeOK
<1>3. PICK d \in 0 .. Len(chan) : chan' = SubSeq(chan, d + 1, Len(chan))
  BY ConsumeFacts DEF Inv
<1>4. /\ ChanInv' /\ Len(chan') = Len(chan) - d
      /\ \A i \in 1 .. Len(chan') : chan'[i] = chan[i + d]
  BY <1>1, <1>3, SuffixOfChan DEF Inv
<1>5. chan' # <<>> => chan'[Len(chan')] = chan[Len(chan)]
  <2>1. Len(chan') + d = Len(chan)
    BY <1>1, <1>3, <1>4
  <2>2. chan' # <<>> => Len(chan') \in 1 .. Len(chan')
    BY <1>1
  <2>3. chan' # <<>> => chan'[Len(chan')] = chan[Len(chan') + d]
    BY <1>4, <2>2
  <2> QED
    BY <2>1, <2>3
<1>6. ASSUME IsWhole(n)
      PROVE  /\ skip' = 0
             /\ chan' # <<>> => /\ chan'[1].start = chan[1].start + chan[1].size
                                /\ chan'[1].kind = "packet"
             /\ chan' = <<>> => chan[Len(chan)] = chan[1]
             /\ chan' # <<>> => ~chan[1].eof
  <2>1. skip' = 0 /\ chan' = SubSeq(chan, 1 + 1, Len(chan))
    BY <1>6, ConsumeFacts DEF Inv
  <2>2. 1 \in 0 .. Len(chan)
    BY <1>1
  <2>3. /\ Len(chan') = Len(chan) - 1
        /\ \A i \in 1 .. Len(chan') : chan'[i] = chan[i + 1]
    BY <2>1, <2>2, SuffixOfChan DEF Inv
  <2>4. CASE Len(chan) = 1
    BY <1>1, <2>1, <2>3, <2>4
  <2>5. CASE Len(chan) >= 2
    <3>1. chan' # <<>> /\ chan'[1] = chan[2]
      BY <1>1, <2>3, <2>5
    <3>2. chan[2].kind = "packet" /\ chan[1].start + chan[1].size = chan[2].start
      BY <1>1, <2>5 DEF ChanInv
    <3>3. ~chan[1].eof
      <4>1. MessageOK(chan[1]) /\ MessageOK(chan[2]) /\ chan[2] \in Messages
        BY <1>1, <2>5 DEF ChanInv
      <4>2. /\ chan[2].size > 0 /\ chan[2].size \in Nat /\ chan[2].start \in Nat
            /\ chan[2].start + chan[2].size <= SIZE_LARGE_DATA
        BY <3>2, <4>1, Sizes DEF MessageOK, Messages
      <4>3. chan[2].start # SIZE_LARGE_DATA
        BY <4>2, Sizes
      <4> QED
        BY <3>2, <4>1, <4>3 DEF MessageOK
    <3> QED
      BY <2>1, <3>1, <3>2, <3>3
  <2>6. Len(chan) = 1 \/ Len(chan) >= 2
    <3>1. \A c \in Nat : c >= 1 => c = 1 \/ c >= 2
      OBVIOUS
    <3> QED
      BY <1>1, <3>1, Zenon
  <2> QED
    BY <2>4, <2>5, <2>6, Zenon
<1> QED
  BY <1>2, <1>4, <1>5, <1>6

\* The client's first recv() keeps its place or gives it up.
LEMMA ClientRecvReplyInv ==
  ASSUME Inv, ClientRecvReply
  PROVE  Inv'
<1>1. TypeOK'
  BY ClientTypeOK DEF Inv, ClientStep
<1>2. /\ cli = "reply" /\ whole /\ got = 0 /\ ~rcvdEOF
      /\ UNCHANGED <<srv, start, leftSize, request, rcvdEOF, rcvOK, EOFpos, got>>
  BY DEF Inv, PhaseInv, WholeInv, ClientRecvReply, serverVars, ClientGone
<1>3. CASE chan # <<>>
  <2>1. PICK n \in RecvLengths(SIZE_RCV_BUF) :
          Consume(n) /\ whole' = (whole /\ IsWhole(n))
    BY <1>3 DEF ClientRecvReply, AtEnd
  <2>2. cli' = "block" /\ end' = end
    BY <1>3 DEF ClientRecvReply, AtEnd
  <2>3. /\ ChanInv'
        /\ leftSize > 0
        /\ chan' # <<>> => chan'[Len(chan')] = chan[Len(chan)]
        /\ IsWhole(n) =>
             /\ skip' = 0
             /\ chan' # <<>> => /\ chan'[1].start = chan[1].start + chan[1].size
                                /\ chan'[1].kind = "packet"
             /\ chan' = <<>> => chan[Len(chan)] = chan[1]
             /\ chan' # <<>> => ~chan[1].eof
    BY <1>2, <1>3, <2>1, AfterRecv DEF ClientGone
  <2>4. whole' => IsWhole(n)
    BY <2>1, Zenon
  <2>5. chan[1].start = 0 /\ chan[1].size = 0 /\ ~chan[1].eof
    <3>1. chan[1].kind = "reply" /\ Len(chan) \in Nat /\ Len(chan) >= 1
      BY <1>2, <1>3 DEF Inv, PhaseInv, TypeOK
    <3> QED
      BY <3>1 DEF Inv, ChanInv, MessageOK
  <2>6. SendInv'
    <3>1. chan' = <<>> /\ whole' /\ srv = "send" => start = got
      BY <1>2, <1>3, <2>3, <2>4, <2>5 DEF Inv, SendInv, ClientGone, TypeOK
    <3> QED
      BY <1>2, <1>3, <2>2, <2>3, <3>1 DEF Inv, SendInv, ClientGone
  <2>7. PhaseInv'
    BY <1>2, <2>2, <2>3 DEF Inv, PhaseInv, ClientGone, TypeOK
  <2>8. WholeInv'
    <3>1. whole' /\ srv = "recv" => chan' # <<>> /\ chan'[Len(chan')].eof
      BY <1>2, <1>3, <2>3, <2>4, <2>5 DEF Inv, WholeInv, ClientGone
    <3> QED
      BY <1>2, <2>2, <2>3, <2>4, <2>5, <3>1 DEF WholeInv, ClientGone
  <2> QED
    BY <1>1, <2>3, <2>6, <2>7, <2>8 DEF Inv
<1>4. CASE chan = <<>>
  <2>1. /\ UNCHANGED <<chan, skip>> /\ end \in {"rst", "fin"}
        /\ end' \in {"open", "rst", "fin"} /\ cli' \in {"block", "closed"}
    BY <1>1, <1>4 DEF ClientRecvReply, AtEnd, TypeOK
  <2>2. ~whole'
    BY <1>4, Zenon DEF ClientRecvReply
  <2>3. srv = "killed"
    BY <2>1 DEF Inv, PhaseInv
  <2>4. ChanInv'
    BY <2>1 DEF Inv, ChanInv, MessageOK
  <2>5. SendInv'
    BY <1>2, <2>3 DEF SendInv
  <2>6. PhaseInv'
    BY <1>2, <2>1, <2>2, <2>3 DEF Inv, PhaseInv, ClientGone
  <2>7. WholeInv'
    BY <2>2 DEF WholeInv
  <2> QED
    BY <1>1, <2>4, <2>5, <2>6, <2>7 DEF Inv
<1> QED
  BY <1>3, <1>4
\* A recv() in rcvDataBlock() that returned one whole packet.
LEMMA WholePacketTaken ==
  ASSUME Inv, cli = "block", chan # <<>>, whole,
         NEW n \in RecvLengths(PacketLen), Consume(n), IsWhole(n),
         TakeAsData(n) \/ TakeAsPacket(n)
  PROVE  /\ rcvOK'
         /\ rcvdEOF' <=> chan[1].eof
         /\ chan[1].eof => EOFpos' \in LastSizes
         /\ cli' = IF chan[1].eof THEN "closed" ELSE "block"
         /\ chan[1].start = got
         /\ chan[1].size \in Nat /\ chan[1].size > 0
         /\ got + chan[1].size <= SIZE_LARGE_DATA
         /\ chan[1].eof <=> got + chan[1].size = SIZE_LARGE_DATA
<1>1. /\ chan[1].kind = "packet" /\ chan[1].start = got
      /\ chan[1] \in Messages /\ MessageOK(chan[1])
  BY DEF Inv, TypeOK, ChanInv, WholeInv
<1>2. /\ chan[1].size \in Nat /\ chan[1].size > 0 /\ chan[1].size <= SIZE_ONE_PACKET
      /\ chan[1].eof => chan[1].size \in LastSizes
      /\ got + chan[1].size <= SIZE_LARGE_DATA
      /\ chan[1].eof <=> got + chan[1].size = SIZE_LARGE_DATA
  BY <1>1, Sizes DEF Messages, MessageOK
<1>3. /\ ~LooksLikeData(n)
      /\ Decoded(n) = IF chan[1].eof THEN chan[1].size ELSE 0
      /\ OnlyData(n, IF Decoded(n) > 0 THEN Decoded(n) ELSE SIZE_ONE_PACKET)
  BY <1>1, WholePacket DEF Inv
<1>4. TakeAsPacket(n)
  BY <1>3 DEF TakeAsData
<1>5. EOFpos' = IF chan[1].eof THEN chan[1].size ELSE 0
  BY <1>3, <1>4 DEF TakeAsPacket
<1>6. rcvOK' = OnlyData(n, IF EOFpos' > 0 THEN EOFpos' ELSE SIZE_ONE_PACKET)
  BY <1>4, Zenon DEF TakeAsPacket
<1>7. rcvOK'
  <2>1. EOFpos' = Decoded(n)
    BY <1>4 DEF TakeAsPacket
  <2> QED
    BY <1>3, <1>6, <2>1, Zenon
<1>8. rcvdEOF' <=> EOFpos' > 0
  <2>1. rcvdEOF' = (EOFpos' > 0)
    BY <1>4, Zenon DEF TakeAsPacket
  <2> QED
    BY <2>1, Zenon
<1>9. EOFpos' > 0 <=> chan[1].eof
  BY <1>2, <1>5
<1>10. cli' = IF chan[1].eof THEN "closed" ELSE "block"
  <2>1. ~(EOFpos' >= SIZE_ONE_PACKET + 10)
    BY <1>2, <1>5, Sizes
  <2>2. AfterBlock(rcvdEOF')
    BY <1>4, <2>1 DEF TakeAsPacket
  <2> QED
    BY <1>8, <1>9, <2>2 DEF AfterBlock
<1> QED
  BY <1>1, <1>2, <1>5, <1>7, <1>8, <1>9, <1>10

\* rcvDataBlock() keeps its place or gives it up.
LEMMA ClientRecvBlockInv ==
  ASSUME Inv, ClientRecvBlock
  PROVE  Inv'
<1>1. TypeOK'
  BY ClientTypeOK DEF Inv, ClientStep
<1>2. PICK n \in RecvLengths(PacketLen) :
        /\ Consume(n)
        /\ whole' = (whole /\ IsWhole(n))
        /\ got' = IF whole' THEN got + chan[1].size ELSE got
        /\ TakeAsData(n) \/ TakeAsPacket(n)
  BY DEF ClientRecvBlock
<1>3. /\ cli = "block" /\ chan # <<>>
      /\ UNCHANGED <<srv, start, leftSize, request, end>>
  BY DEF ClientRecvBlock, serverVars
<1>4. /\ ChanInv'
      /\ leftSize > 0
      /\ chan' # <<>> => chan'[Len(chan')] = chan[Len(chan)]
      /\ IsWhole(n) =>
           /\ skip' = 0
           /\ chan' # <<>> => /\ chan'[1].start = chan[1].start + chan[1].size
                              /\ chan'[1].kind = "packet"
           /\ chan' = <<>> => chan[Len(chan)] = chan[1]
           /\ chan' # <<>> => ~chan[1].eof
  BY <1>2, <1>3, AfterRecv DEF ClientGone
<1>5. whole' <=> whole /\ IsWhole(n)
  BY <1>2, Zenon
<1>6. /\ cli' \in {"block", "closed", "killed"}
      /\ rcvdEOF' => cli' \in {"closed", "killed"}
  <2>1. CASE TakeAsData(n)
    BY <2>1 DEF TakeAsData
  <2>2. CASE TakeAsPacket(n)
    BY <2>2 DEF TakeAsPacket, AfterBlock
  <2> QED
    BY <1>2, <2>1, <2>2
<1>7. whole' => /\ rcvOK'
                /\ rcvdEOF' <=> chan[1].eof
                /\ chan[1].eof => EOFpos' \in LastSizes
                /\ cli' = IF chan[1].eof THEN "closed" ELSE "block"
                /\ chan[1].start = got
                /\ chan[1].size \in Nat
                /\ got' = got + chan[1].size
                /\ chan[1].eof <=> got' = SIZE_LARGE_DATA
  BY <1>2, <1>3, <1>5, WholePacketTaken
<1>8. SendInv'
  <2>1. ASSUME srv = "send", whole', chan' = <<>>
        PROVE  got' = start
    BY <1>3, <1>4, <1>5, <1>7, <2>1 DEF Inv, SendInv, ClientGone
  <2>2. ASSUME srv = "send", chan' # <<>>
        PROVE  chan'[Len(chan')].start + chan'[Len(chan')].size = start
    BY <1>3, <1>4, <2>2 DEF Inv, SendInv, ClientGone
  <2> QED
    BY <1>3, <2>1, <2>2 DEF Inv, SendInv
<1>9. PhaseInv'
  BY <1>3, <1>4, <1>6 DEF Inv, PhaseInv, ClientGone, TypeOK
<1>10. WholeInv'
  <2> SUFFICES ASSUME whole' PROVE WholeInv'
    BY DEF WholeInv
  <2>1. skip' = 0 /\ rcvOK'
    BY <1>4, <1>5, <1>7
  <2>2. /\ chan' # <<>> => chan'[1].start = got' /\ chan'[1].kind = "packet"
    BY <1>4, <1>5, <1>7
  <2>3. ASSUME rcvdEOF'
        PROVE  /\ got' = SIZE_LARGE_DATA /\ EOFpos' \in LastSizes
               /\ chan' = <<>> /\ srv # "send"
    <3>1. chan[1].eof /\ chan' = <<>> /\ got' = SIZE_LARGE_DATA /\ EOFpos' \in LastSizes
      BY <1>4, <1>5, <1>7, <2>3
    <3>2. ASSUME srv = "send" PROVE FALSE
      <4>1. start + leftSize = SIZE_LARGE_DATA /\ start \in Nat /\ leftSize \in Nat
        BY <3>2 DEF Inv, SendInv, TypeOK
      <4>2. got' = start
        BY <1>3, <1>8, <3>1, <3>2, <1>4, <1>5, <1>7 DEF Inv, SendInv, ClientGone
      <4> QED
        BY <1>4, <3>1, <4>1, <4>2
    <3> QED
      BY <3>1, <3>2
  <2>4. ASSUME ~ClientGone', srv = "recv"
        PROVE  chan' # <<>> /\ chan'[Len(chan')].eof
    <3>1. ~chan[1].eof /\ chan[Len(chan)].eof
      BY <1>3, <1>4, <1>5, <1>7, <2>4 DEF Inv, WholeInv, ClientGone
    <3> QED
      BY <1>4, <1>5, <3>1
  <2> QED
    BY <1>3, <2>1, <2>2, <2>3, <2>4 DEF WholeInv
<1> QED
  BY <1>1, <1>4, <1>8, <1>9, <1>10 DEF Inv

\* The end of the stream inside rcvDataBlock() is no packet.
LEMMA ClientRecvEndInv ==
  ASSUME Inv, ClientRecvEnd
  PROVE  Inv'
<1>1. TypeOK'
  BY ClientTypeOK DEF Inv, ClientStep
<1>2. /\ cli = "block" /\ chan = <<>> /\ end \in {"rst", "fin"}
      /\ UNCHANGED <<srv, start, leftSize, request, chan, skip, got>>
      /\ cli' \in {"block", "closed"}
  BY DEF ClientRecvEnd, AtEnd, AfterBlock, serverVars
<1>3. ~whole'
  BY Zenon DEF ClientRecvEnd
<1>4. rcvdEOF' => cli' = "closed"
  BY DEF ClientRecvEnd, AfterBlock
<1>5. srv = "killed"
  BY <1>2 DEF Inv, PhaseInv
<1>6. ChanInv'
  BY <1>2 DEF Inv, ChanInv, MessageOK
<1>7. SendInv'
  BY <1>2, <1>5 DEF SendInv
<1>8. PhaseInv'
  BY <1>2, <1>3, <1>4, <1>5 DEF Inv, PhaseInv, ClientGone
<1>9. WholeInv'
  BY <1>3 DEF WholeInv
<1> QED
  BY <1>1, <1>6, <1>7, <1>8, <1>9 DEF Inv
------------------------------------------------------------------------------
(* The theorems.                                                           *)

\* The invariant holds when both programs start, ...
LEMMA InitInv == Init => Inv
<1> SUFFICES ASSUME Init PROVE Inv
  OBVIOUS
<1>1. TypeOK
  <2>1. Flags
    BY Zenon DEF Init, Flags
  <2>2. NoFlags
    BY DEF Init, NoFlags
  <2> QED
    BY <2>1, <2>2, TypeParts
<1>2. /\ srv = "init" /\ leftSize = 0 /\ chan = <<>> /\ skip = 0 /\ end = "open"
      /\ cli = "init" /\ got = 0 /\ ~request /\ ~rcvdEOF /\ whole
  BY DEF Init
<1>3. ChanInv
  BY <1>2 DEF ChanInv
<1>4. SendInv /\ PhaseInv /\ WholeInv
  BY <1>2 DEF SendInv, PhaseInv, WholeInv, ClientGone
<1> QED
  BY <1>1, <1>3, <1>4 DEF Inv

\* ... every step keeps it, ...
LEMMA StepInv == Inv /\ [Next]_vars => Inv'
<1> SUFFICES ASSUME Inv, [Next]_vars PROVE Inv'
  OBVIOUS
<1>1. CASE ServerListen \/ ServerAccept \/ ServerLeave
  BY <1>1, ServerOtherInv
<1>2. CASE ServerReply
  BY <1>2, ServerReplyInv
<1>3. CASE ServerSendPacket
  BY <1>3, ServerSendPacketInv
<1>4. CASE ServerSendLast
  BY <1>4, ServerSendLastInv
<1>5. CASE ServerDies
  BY <1>5, ServerDiesInv
<1>6. CASE ClientConnect \/ ClientRequest
  BY <1>6, ClientConnectInv
<1>7. CASE ClientRecvReply
  BY <1>7, ClientRecvReplyInv
<1>8. CASE ClientRecvBlock
  BY <1>8, ClientRecvBlockInv
<1>9. CASE ClientRecvEnd
  BY <1>9, ClientRecvEndInv
<1>10. CASE UNCHANGED vars
  BY <1>10 DEF Inv, TypeOK, ChanInv, MessageOK, SendInv, PhaseInv, WholeInv,
               ClientGone, vars, serverVars, clientVars
<1> QED
  BY <1>1, <1>2, <1>3, <1>4, <1>5, <1>6, <1>7, <1>8, <1>9, <1>10
     DEF Next, ServerStep, ClientStep

\* ... so it holds for ever.
LEMMA Invariance == Spec => []Inv
  BY InitInv, StepInv, PTL DEF Spec

\* sendDataBlock() cuts the block without gap or overlap, and marks the EOF
\* in the last packet only.
THEOREM Tiling == Spec => []ChannelTiles
<1>1. Inv => ChannelTiles
  BY DEF Inv, ChanInv, MessageOK, ChannelTiles
<1> QED
  BY <1>1, Invariance, PTL

\* As long as every recv() of the client returned one message, its loop ends
\* only with the whole block received.
THEOREM Completeness == Spec => []CompleteDelivery
<1>1. Inv => CompleteDelivery
  BY DEF Inv, WholeInv, CompleteDelivery
<1> QED
  BY <1>1, Invariance, PTL

\* rcvDataBlock() finds nothing wrong with a packet that arrived as it was
\* sent, for every packet size the code can be built with.
THEOREM Verdict == Spec => []VerdictSound
<1>1. Inv => VerdictSound
  BY DEF Inv, WholeInv, VerdictSound
<1> QED
  BY <1>1, Invariance, PTL

\* Client and server do not wait for each other for ever as long as every
\* recv() returned one message.
THEOREM DeadlockFreedom == Spec => []NoDeadlock
<1>1. Inv => NoDeadlock
  <2> SUFFICES ASSUME Inv, whole, Stuck PROVE FALSE
    BY DEF NoDeadlock
  <2>1. /\ cli \in {"reply", "block"} /\ chan = <<>> /\ end = "open"
        /\ srv = "recv" /\ ~request /\ ~ClientGone
    BY DEF Stuck, ClientGone
  <2>2. leftSize = 0
    BY <2>1 DEF Inv, TypeOK, WholeInv
  <2> QED
    BY <2>1, <2>2 DEF Inv, PhaseInv
<1> QED
  BY <1>1, Invariance, PTL

\* The transfer implements BlockDelivery: what rcvDataBlock() accepts are
\* pieces of the block in order, completed by the EOF, until the client
\* loses its place in the stream.
THEOREM Refinement == Spec => DeliversBlock
<1>1. Init => BD!Init
  BY DEF Init, BD!Init
<1>2. Inv /\ Inv' /\ [Next]_vars => [BD!Next]_(BD!vars)
  <2> SUFFICES ASSUME Inv, Inv', [Next]_vars PROVE [BD!Next]_(BD!vars)
    OBVIOUS
  <2>1. CASE UNCHANGED <<got, whole, rcvdEOF>>
    BY <2>1 DEF BD!vars
  <2>2. ASSUME UNCHANGED got, whole, ~rcvdEOF, ~whole'
        PROVE  BD!LosePlace
    BY <2>2 DEF BD!LosePlace
  <2>3. ASSUME UNCHANGED got, ~whole, ~whole'
        PROVE  UNCHANGED BD!vars
    BY <2>3 DEF BD!vars
  <2>4. CASE ClientRecvReply
    <3>1. UNCHANGED <<got, rcvdEOF>> /\ whole /\ ~rcvdEOF
      BY <2>4 DEF Inv, PhaseInv, ClientRecvReply, ClientGone
    <3>2. CASE whole'
      <4>1. whole' = whole
        BY <3>1, <3>2 DEF Inv, TypeOK
      <4> QED
        BY <2>1, <3>1, <4>1
    <3>3. CASE ~whole'
      BY <2>2, <3>1, <3>3 DEF BD!Next
    <3> QED
      BY <3>2, <3>3
  <2>5. CASE ClientRecvEnd
    <3>1. UNCHANGED got
      BY <2>5 DEF ClientRecvEnd
    <3>2. ~whole' /\ ~rcvdEOF
      <4>1. ~whole'
        BY <2>5, Zenon DEF ClientRecvEnd
      <4>2. ~rcvdEOF
        BY <2>5 DEF Inv, PhaseInv, ClientRecvEnd, ClientGone
      <4> QED
        BY <4>1, <4>2
    <3> QED
      BY <2>2, <2>3, <3>1, <3>2 DEF BD!Next
  <2>6. CASE ClientRecvBlock
    <3>1. PICK n \in RecvLengths(PacketLen) :
            /\ Consume(n)
            /\ whole' = (whole /\ IsWhole(n))
            /\ got' = IF whole' THEN got + chan[1].size ELSE got
            /\ TakeAsData(n) \/ TakeAsPacket(n)
      BY <2>6 DEF ClientRecvBlock
    <3>2. cli = "block" /\ chan # <<>> /\ ~rcvdEOF
      BY <2>6 DEF Inv, PhaseInv, ClientRecvBlock, ClientGone
    <3>3. CASE ~whole'
      BY <2>2, <2>3, <3>1, <3>2, <3>3 DEF BD!Next
    <3>4. CASE whole'
      <4>1. whole /\ IsWhole(n)
        BY <3>1, <3>4, Zenon
      <4>2. /\ rcvdEOF' <=> chan[1].eof
            /\ chan[1].size \in Nat /\ chan[1].size > 0
            /\ got + chan[1].size <= SIZE_LARGE_DATA
            /\ chan[1].eof <=> got + chan[1].size = SIZE_LARGE_DATA
            /\ got' = got + chan[1].size
        BY <3>1, <3>2, <3>4, <4>1, WholePacketTaken
      <4>3. chan[1].size \in 1 .. (SIZE_LARGE_DATA - got)
        BY <4>2, Sizes DEF Inv, TypeOK
      <4>4. BD!Deliver
        BY <3>2, <3>4, <4>1, <4>2, <4>3 DEF BD!Deliver
      <4> QED
        BY <4>4 DEF BD!Next
    <3> QED
      BY <3>3, <3>4
  <2> QED
    BY <2>1, <2>4, <2>5, <2>6
       DEF Next, ServerStep, ClientStep, ServerListen, ServerAccept, ServerReply,
           ServerLeave, ServerSendPacket, ServerSendLast, ServerDies,
           ClientConnect, ClientRequest, vars, clientVars
<1> QED
  BY <1>1, <1>2, Invariance, PTL DEF Spec, DeliversBlock, BD!Spec
==============================================================================
