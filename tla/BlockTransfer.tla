---------------------------- MODULE BlockTransfer ----------------------------
(***************************************************************************)
(* The 1 MB transfer of app_05: app_05tcp_trans1MB_server.c sends a block  *)
(* of SIZE_LARGE_DATA bytes in packets of app_05common.h over one TCP      *)
(* connection, app_05tcp_trans1MB_client.c receives it.                    *)
(*                                                                         *)
(* TCP is a byte stream: what the server passes to one send() may reach    *)
(* the client in several recv() calls, or together with its neighbours.    *)
(* The channel therefore holds the messages the server sent, `skip' says   *)
(* how many bytes of the first one are already read, and a recv() returns  *)
(* any number of bytes that is on offer.  The client treats each recv() as *)
(* one packet; the history variable `whole' says whether that was right    *)
(* for every recv() so far.                                                *)
(*                                                                         *)
(* Bytes are only given where the client looks at them: a packet is        *)
(*   0 1 2      '0' '1' '2'                                                *)
(*   3 ..       data ('C'), then 0 beyond its size                         *)
(*   SIZE-2..   'E' 'E' 'E'   (the last one, at SIZE, is a pad byte)       *)
(*   SIZE+1,+2  A, B: the size of the last packet, else 0                  *)
(***************************************************************************)
EXTENDS Integers, Sequences

CONSTANTS
  SIZE_ONE_PACKET,      \* data bytes of a packet
  SIZE_LARGE_DATA,      \* data bytes of the block
  SIZE_RCV_BUF,         \* what the client's first recv() asks for
  ReadSizes,            \* lengths a recv() may return, besides a whole message
  SockBuf,              \* messages the connection holds before send() blocks
  Crashes               \* may the server's process or host die?

kDataCode == 67         \* 'C'
EOF_POS_A == SIZE_ONE_PACKET + 1
EOF_POS_B == EOF_POS_A + 1
PacketLen == EOF_POS_B + 1
Reply     == <<114, 101, 113, 44, 79, 75, 0>>           \* "req,OK"
ReplyLen  == 7

(***************************************************************************)
(* What the code needs of its sizes.  A size in two bytes, room for the    *)
(* debug bytes, a first recv() that spans at most two messages (200 <      *)
(* 8195), and, because the client takes a 'C' at A or B for data, a last   *)
(* packet whose size has no byte equal to 'C'.                             *)
(***************************************************************************)
LastSizes == {s \in 1 .. SIZE_ONE_PACKET :
                \E k \in 0 .. SIZE_LARGE_DATA :
                   SIZE_LARGE_DATA = k * SIZE_ONE_PACKET + s}

ASSUME SizesOK ==
  /\ SIZE_ONE_PACKET \in 6 .. 65535
  /\ SIZE_LARGE_DATA \in Nat \ {0}
  /\ SIZE_RCV_BUF \in ReplyLen .. PacketLen
  /\ SockBuf \in Nat \ {0}
  /\ Crashes \in BOOLEAN

ASSUME ReadSizesOK == ReadSizes \subseteq Nat \ {0}

ASSUME LastSizesOK ==
  \A s \in LastSizes : s \div 256 # kDataCode /\ s % 256 # kDataCode

VARIABLES
  srv,          \* where the server's main() is
  start,        \* sendDataBlock: offset of the next packet
  leftSize,     \* sendDataBlock: bytes not sent yet
  request,      \* the client's request lies in the server's socket
  chan,         \* messages on their way to the client
  skip,         \* bytes of the first of them already read
  end,          \* the server's end: "open", "fin" (closed) or "rst" (reset)
  cli,          \* where the client's main() is
  rcvdEOF,      \* client: rcvDataBlock() reported the end of the block
  rcvOK,        \* client: verdict of the last rcvDataBlock()
  EOFpos,       \* client: the EOF position last decoded
  whole,        \* history: every recv() returned exactly one message
  got           \* history: data bytes accepted while `whole' held

serverVars == <<srv, start, leftSize>>
clientVars == <<cli, rcvdEOF, rcvOK, EOFpos, whole, got>>
vars == <<serverVars, request, chan, skip, end, clientVars>>

FullLen(kind) == IF kind = "reply" THEN ReplyLen ELSE PacketLen

Message(kind, s, n, eof) ==
  [kind |-> kind, start |-> s, size |-> n, eof |-> eof, len |-> FullLen(kind)]

\* The first n bytes of a message, all that was sent of it
Cut(m, n) == [m EXCEPT !.len = n]

\* sendOnePacket(): byte i of a message, A and B as the server computes them
MarksShortOnly(m) == m.size < SIZE_ONE_PACKET            \* mutant: no sendEOF
MarksEvery(m)     == m.size <= SIZE_ONE_PACKET           \* mutant: <= for <

MarksSize(m) == m.size < SIZE_ONE_PACKET \/ m.eof

PacketByte(m, i) ==
  CASE i \in 0 .. 2                                  -> 48 + i
    [] i \in SIZE_ONE_PACKET - 2 .. SIZE_ONE_PACKET  -> 69
    [] i = EOF_POS_A -> IF MarksSize(m) THEN (m.size \div 256) % 256 ELSE 0
    [] i = EOF_POS_B -> IF MarksSize(m) THEN m.size % 256 ELSE 0
    [] OTHER         -> IF i < m.size THEN kDataCode ELSE 0

Byte(m, i) == IF m.kind = "reply" THEN Reply[i + 1] ELSE PacketByte(m, i)

ClientGone == cli \in {"closed", "killed"}
------------------------------------------------------------------------------
(* The stream seen by recv().                                              *)

Available == IF Len(chan) = 1 THEN chan[1].len - skip
                              ELSE chan[1].len + chan[2].len - skip

\* Lengths a recv() that asks for `max' bytes can return.
RecvLengths(max) ==
  {n \in ReadSizes \cup {chan[1].len} : n <= max /\ n <= Available}

\* s_rxBuf[i] after a recv() of n bytes into the zeroed buffer
RxByte(n, i) ==
  CASE i >= n                    -> 0
    [] i < n /\ skip + i < chan[1].len  -> Byte(chan[1], skip + i)
    [] OTHER                     -> Byte(chan[2], skip + i - chan[1].len)

\* What is left of the stream when n bytes are taken from it
Consume(n) ==
  LET rest == skip + n - chan[1].len
      gone == IF rest < 0 THEN 0
              ELSE IF rest > 0 /\ rest = chan[2].len THEN 2 ELSE 1
  IN
  /\ chan' = SubSeq(chan, gone + 1, Len(chan))
  /\ skip' = CASE gone = 0 -> skip + n
              [] gone = 1 -> rest
              [] gone = 2 -> 0

IsWhole(n) == skip = 0 /\ n = chan[1].len /\ n = FullLen(chan[1].kind)
------------------------------------------------------------------------------
Init ==
  /\ srv = "init" /\ start = 0 /\ leftSize = 0
  /\ request = FALSE /\ chan = <<>> /\ skip = 0 /\ end = "open"
  /\ cli = "init" /\ rcvdEOF = FALSE /\ EOFpos = 0
  /\ rcvOK \in BOOLEAN                          \* never initialised
  /\ whole = TRUE /\ got = 0

(* The server's main().                                                    *)

ServerListen ==
  /\ srv = "init"
  /\ srv' = "listen"
  /\ UNCHANGED <<start, leftSize, request, chan, skip, end, clientVars>>

ServerAccept ==
  /\ srv = "listen"
  /\ cli \notin {"init", "refused"}
  /\ srv' = "recv"
  /\ UNCHANGED <<start, leftSize, request, chan, skip, end, clientVars>>

\* What a send() does: it waits for room, or, when the client is gone, the
\* message vanishes or the server gets SIGPIPE (nothing handles it).
Send(m, next) ==
  \/ /\ ~ClientGone
     /\ Len(chan) < SockBuf
     /\ chan' = Append(chan, m)
     /\ srv' = next
  \/ /\ ClientGone
     /\ srv' \in {next, "killed"}
     /\ UNCHANGED chan

\* mutant: one byte too many
ServerReplyOneMore ==
  /\ srv = "recv"
  /\ request
  /\ request' = FALSE
  /\ Send(Message("reply", 0, 0, FALSE), "send")
  /\ start' = 0
  /\ leftSize' = SIZE_LARGE_DATA + 1
  /\ UNCHANGED <<skip, end, clientVars>>

\* recv(), strstr(), sendReqOK(), and the initialisation of sendDataBlock()
ServerReply ==
  /\ srv = "recv"
  /\ request
  /\ request' = FALSE
  /\ Send(Message("reply", 0, 0, FALSE), "send")
  /\ start' = 0
  /\ leftSize' = SIZE_LARGE_DATA
  /\ UNCHANGED <<skip, end, clientVars>>

\* recv() returned 0 or -1: the client is gone
ServerLeave ==
  /\ srv = "recv"
  /\ ~request
  /\ ClientGone
  /\ srv' = "done"
  /\ UNCHANGED <<start, leftSize, request, chan, skip, end, clientVars>>

\* mutant: the loop does not split
NextPacketWhole == Message("packet", start, leftSize, leftSize <= SIZE_ONE_PACKET)

NextPacket ==
  IF leftSize > SIZE_ONE_PACKET
    THEN Message("packet", start, SIZE_ONE_PACKET, FALSE)
    ELSE Message("packet", start, leftSize, TRUE)

\* mutant: start is not advanced
ServerSendPacketAgain ==
  /\ srv = "send"
  /\ leftSize > SIZE_ONE_PACKET
  /\ Send(NextPacket, "send")
  /\ leftSize' = leftSize - SIZE_ONE_PACKET
  /\ UNCHANGED <<start, request, skip, end, clientVars>>

\* One turn of the loop of sendDataBlock(), a full packet ...  (The loop's
\* third branch, leftSize = 0, is not reached: the last packet breaks out.)
ServerSendPacket ==
  /\ srv = "send"
  /\ leftSize > SIZE_ONE_PACKET
  /\ Send(NextPacket, "send")
  /\ start' = start + SIZE_ONE_PACKET
  /\ leftSize' = leftSize - SIZE_ONE_PACKET
  /\ UNCHANGED <<request, skip, end, clientVars>>

\* ... or the last one, which leaves the loop and returns to recv().
ServerSendLast ==
  /\ srv = "send"
  /\ leftSize \in 1 .. SIZE_ONE_PACKET
  /\ Send(NextPacket, "recv")
  /\ UNCHANGED <<start, leftSize, request, skip, end, clientVars>>

\* The server's process is killed: FIN follows what it has sent, the last
\* message possibly cut short.  Or its host dies: the connection is reset
\* and what was still on its way is lost.
ServerDies ==
  /\ Crashes
  /\ srv \in {"listen", "recv", "send"}
  /\ srv' = "killed"
  /\ \/ /\ end' = IF request \/ srv = "listen" THEN "rst" ELSE "fin"
        /\ UNCHANGED <<chan, skip>>
     \/ /\ srv = "send"
        /\ ~ClientGone
        /\ end' = "fin"
        /\ \E n \in {r \in ReadSizes : r < PacketLen} :
             chan' = Append(chan, Cut(NextPacket, n))
        /\ UNCHANGED skip
     \/ /\ end' = "rst"
        /\ \E k \in 0 .. Len(chan) :
             /\ chan' = SubSeq(chan, 1, k)
             /\ skip' = IF k = 0 THEN 0 ELSE skip
  /\ UNCHANGED <<start, leftSize, request, clientVars>>
------------------------------------------------------------------------------
(* The client's main().                                                    *)

\* connect() is not checked
ClientConnect ==
  /\ cli = "init"
  /\ cli' = IF srv \in {"init", "killed"} THEN "refused" ELSE "request"
  /\ UNCHANGED <<serverVars, request, chan, skip, end,
                 rcvdEOF, rcvOK, EOFpos, whole, got>>

\* send() of the request.  A server that died answers with a reset; on a
\* socket that is not connected, or reset, send() raises SIGPIPE.
ClientRequest ==
  /\ \/ /\ cli = "request"
        /\ end = "open"
        /\ request' = TRUE
        /\ cli' = "reply"
        /\ UNCHANGED end
     \/ /\ cli = "request"
        /\ end = "fin"
        /\ end' = "rst"
        /\ cli' = "reply"
        /\ UNCHANGED request
     \/ /\ cli = "refused" \/ (cli = "request" /\ end = "rst")
        /\ cli' = "killed"
        /\ UNCHANGED <<request, end>>
  /\ UNCHANGED <<serverVars, chan, skip,
                 rcvdEOF, rcvOK, EOFpos, whole, got>>

\* The end of the stream: recv() returns -1 once after a reset, then 0.
AtEnd(ret) ==
  /\ chan = <<>>
  /\ \/ end = "rst" /\ ret = -1 /\ end' = "fin"
     \/ end = "fin" /\ ret = 0  /\ end' = "fin"

\* recv() of the "req,OK": any length but 0 enters the loop
ClientRecvReply ==
  /\ cli = "reply"
  /\ \/ /\ chan # <<>>
        /\ \E n \in RecvLengths(SIZE_RCV_BUF) :
             /\ Consume(n)
             /\ whole' = (whole /\ IsWhole(n))
        /\ cli' = "block"
        /\ UNCHANGED end
     \/ /\ \E ret \in {0, -1} :
             /\ AtEnd(ret)
             /\ cli' = IF ret = 0 THEN "closed" ELSE "block"
        /\ whole' = FALSE
        /\ UNCHANGED <<chan, skip>>
  /\ UNCHANGED <<serverVars, request, rcvdEOF, rcvOK, EOFpos, got>>

AfterBlockOn(eof) == eof \in BOOLEAN /\ cli' = "block"   \* mutant: no break

\* The loop of main() ends when rcvDataBlock() returned true.
AfterBlock(eof) == cli' = IF eof THEN "closed" ELSE "block"

\* rcvDataBlock() with n received bytes in s_rxBuf: the EOF position it
\* decodes, and its comparison of the first `size' bytes with 'C' (a size
\* beyond the packet takes in the bytes of A and B, which are not 'C').
Decoded(n) == RxByte(n, EOF_POS_A) * 256 + RxByte(n, EOF_POS_B)

LooksLikeData(n) == kDataCode \in {RxByte(n, EOF_POS_A), RxByte(n, EOF_POS_B)}

\* mutant: the loop of the comment, over all of the packet
OnlyDataFromStart(n, size) ==
  \A i \in 0 .. size - 1 : i < PacketLen /\ RxByte(n, i) = kDataCode

OnlyData(n, size) ==
  \A i \in 5 .. size - 6 : i < PacketLen /\ RxByte(n, i) = kDataCode

\* HACKME: to avoid error
TakeAsData(n) ==
  /\ LooksLikeData(n)
  /\ rcvOK' = TRUE
  /\ rcvdEOF' = FALSE
  /\ cli' = "block"
  /\ UNCHANGED EOFpos

TakeAsPacket(n) ==
  /\ ~LooksLikeData(n)
  /\ EOFpos' = Decoded(n)
  /\ rcvdEOF' = (EOFpos' > 0)
  /\ rcvOK' = OnlyData(n, IF EOFpos' > 0 THEN EOFpos' ELSE SIZE_ONE_PACKET)
  /\ \/ AfterBlock(rcvdEOF')
     \/ /\ EOFpos' >= SIZE_ONE_PACKET + 10        \* s_rxBuf[EOFpos] = 0
        /\ cli' = "killed"                        \* beyond the buffer

ClientRecvBlock ==
  /\ cli = "block"
  /\ chan # <<>>
  /\ \E n \in RecvLengths(PacketLen) :
       /\ Consume(n)
       /\ whole' = (whole /\ IsWhole(n))
       /\ got' = IF whole' THEN got + chan[1].size ELSE got
       /\ TakeAsData(n) \/ TakeAsPacket(n)
  /\ UNCHANGED <<serverVars, request, end>>

\* rcvDataBlock() at the end of the stream.  0 is not recognised: the zeroed
\* buffer is a packet without EOF.  -1 returns no value at all.
ClientRecvEnd ==
  /\ cli = "block"
  /\ \/ /\ AtEnd(0)
        /\ EOFpos' = 0
        /\ rcvdEOF' = FALSE
        /\ rcvOK' = (SIZE_ONE_PACKET - 6 < 5)
     \/ /\ AtEnd(-1)
        /\ rcvdEOF' \in BOOLEAN
        /\ UNCHANGED <<rcvOK, EOFpos>>
  /\ AfterBlock(rcvdEOF')
  /\ whole' = FALSE
  /\ UNCHANGED <<serverVars, request, chan, skip, got>>

ServerStep == \/ ServerListen \/ ServerAccept \/ ServerReply \/ ServerLeave
              \/ ServerSendPacket \/ ServerSendLast

ClientStep == \/ ClientConnect \/ ClientRequest \/ ClientRecvReply
              \/ ClientRecvBlock \/ ClientRecvEnd

Next == ServerStep \/ ClientStep \/ ServerDies

Fairness == WF_vars(ServerStep) /\ WF_vars(ClientStep)

Spec == Init /\ [][Next]_vars /\ Fairness
------------------------------------------------------------------------------
(* Properties.                                                             *)

Messages ==
  {m \in [kind : {"reply", "packet"}, start : Nat, size : 0 .. SIZE_ONE_PACKET,
          eof : BOOLEAN, len : 1 .. PacketLen] : m.len <= FullLen(m.kind)}

\* The type invariant: the values every variable of the two programs takes.
TypeOK ==
  /\ srv \in {"init", "listen", "recv", "send", "done", "killed"}
  /\ start \in Nat
  /\ leftSize \in Nat
  /\ request \in BOOLEAN
  /\ chan \in Seq(Messages)
  /\ skip \in Nat
  /\ end \in {"open", "fin", "rst"}
  /\ cli \in {"init", "request", "refused", "reply", "block",
              "closed", "killed"}
  /\ rcvdEOF \in BOOLEAN
  /\ rcvOK \in BOOLEAN
  /\ EOFpos \in Nat
  /\ whole \in BOOLEAN
  /\ got \in Nat

(***************************************************************************)
(* sendDataBlock() cuts the block without gap or overlap: the packets      *)
(* under way follow each other, stay inside s_largeData, and the one that  *)
(* carries an EOF is the one that ends at the last byte of the block.      *)
(***************************************************************************)
ChannelTiles ==
  /\ \A i \in 1 .. Len(chan) - 1 :
       chan[i].start + chan[i].size = chan[i + 1].start
  /\ \A i \in 1 .. Len(chan) :
       /\ chan[i].start + chan[i].size <= SIZE_LARGE_DATA
       /\ chan[i].eof <=> chan[i].start + chan[i].size = SIZE_LARGE_DATA

(***************************************************************************)
(* When every recv() returned one message, the client's loop ends with the *)
(* whole block accepted, at the EOF position of the last packet, with      *)
(* nothing left in the stream and nothing left to send.                    *)
(***************************************************************************)
CompleteDelivery ==
  whole /\ rcvdEOF =>
    /\ got = SIZE_LARGE_DATA
    /\ EOFpos \in LastSizes
    /\ chan = <<>>
    /\ srv # "send"

\* rcvDataBlock() never rejects a packet it received as the server sent it:
\* the bytes it compares with 'C' leave out the ones the server overwrites.
VerdictSound == whole /\ got > 0 => rcvOK

\* Both programs wait in recv() and neither has anything to read.
Stuck ==
  /\ cli \in {"reply", "block"} /\ chan = <<>> /\ end = "open"
  /\ srv = "recv" /\ ~request

\* The two programs do not wait for each other for ever as long as every
\* recv() returned one message.
NoDeadlock == whole => ~Stuck

(***************************************************************************)
(* The loop of the client ends: not when a recv() split or joined messages *)
(* (it may then miss the EOF), nor when the server died (recv() returning  *)
(* 0 is taken for a packet, and the loop goes on for ever).  And a server  *)
(* that has accepted a client ends when the client is gone, whatever that  *)
(* left unread or unsent.                                                  *)
(***************************************************************************)
Termination ==
  /\ <>(ClientGone \/ ~whole \/ srv = "killed")
  /\ (srv \notin {"init", "listen"} /\ ClientGone) ~> srv \in {"done", "killed"}

(***************************************************************************)
(* app_05common.h: A and B "are used to know whether or not EOF is         *)
(* included in the data": the client sees an EOF only in the packet that   *)
(* has one, so none is behind it.  Does not hold, a recv() may be short.   *)
(***************************************************************************)
NoFalseEOF == rcvdEOF => chan = <<>> /\ srv # "send"

\* The transfer does what BlockDelivery promises.
BD == INSTANCE BlockDelivery WITH
        Total     <- SIZE_LARGE_DATA,
        delivered <- got,
        status    <- IF ~whole THEN "broken"
                     ELSE IF rcvdEOF THEN "complete" ELSE "moving"

DeliversBlock == BD!Spec
==============================================================================
