----------------------------- MODULE TcpPortProofs -----------------------------
(***************************************************************************)
(* Proofs about TcpPort, for any number of clients and turns.  The         *)
(* inductive invariant adds to the properties what the server has while it *)
(* has a client (ConnInv), which ends of the connections are still there   *)
(* (LinkInv), and how far client and server are with each other: a client  *)
(* that waits to be accepted has asked once at most (Unaccepted), and the  *)
(* one that was accepted is answered in step (StepInv).                    *)
(***************************************************************************)
EXTENDS TcpPort, TLAPS

ConnInv ==
  /\ srv \in {"start", "accept"} => conn = None
  /\ srv \in {"recv", "reply"} => conn # None
  /\ conn = None => upRead = 0 /\ replies = 0 /\ downRead = 0
  /\ srv = "reply" => replies < upRead

LinkInv ==
  /\ \A c \in Clients :
       /\ cli[c] = "connect" => link[c] = "none" /\ loop[c] = 0
       /\ link[c] = "open" => srv \in Running
       /\ gone[c] # "no" => Ended(c)
       /\ c \in stale => link[c] = "dead"
  /\ \A i \in 1 .. Len(backlog) : link[backlog[i]] = "open"
  /\ conn # None => link[conn] # "none"
  /\ conn # None /\ ~srvDied => Ended(conn) \/ link[conn] = "open"

Unaccepted ==
  \A c \in asks : c # conn /\ link[c] = "open" =>
    /\ cli[c] = "send" => loop[c] = 0
    /\ cli[c] = "recv" => loop[c] = 1

\* Where client and server are while a client waits for a reply: the request is
\* under way, or read, or answered.
Waits(n) ==
  /\ n >= 1 /\ downRead = ReplyLen * (n - 1)
  /\ \/ upRead = ReqLen * (n - 1) /\ replies = n - 1 /\ srv = "recv"
     \/ upRead = ReqLen * n /\ replies = n - 1 /\ srv = "reply"
     \/ upRead = ReqLen * n /\ replies = n /\ srv = "recv"

Served(n) ==
  upRead = ReqLen * n /\ replies = n /\ downRead = ReplyLen * n /\ srv = "recv"

StepInv ==
  srvKind = "app_04" /\ upWhole /\ downWhole /\ ~srvDied /\ conn \in asks =>
    /\ cli[conn] = "send" => Served(loop[conn])
    /\ cli[conn] = "recv" => Waits(loop[conn])

Inv == TypeOK /\ ConnInv /\ LinkInv /\ Unaccepted /\ StepInv /\ StaleOnlyUnserved

LEMMA InitInv == Init => Inv
<1> SUFFICES ASSUME Init PROVE Inv
  OBVIOUS
<1> USE DEF Init
<1>1. TypeOK
  <2>1. backlog \in Seq(Clients) /\ Len(backlog) <= ListenMax + 1 /\ loop \in [Clients -> 0 .. Turns]
    BY TurnsOK
  <2>2. downRead <= ReplyLen * replies
    BY DEF ReplyLen
  <2> QED
    BY <2>1, <2>2 DEF TypeOK
<1>2. ConnInv /\ LinkInv
  BY DEF ConnInv, LinkInv
<1>3. Unaccepted /\ StepInv /\ StaleOnlyUnserved
  BY NoneOK DEF Unaccepted, StepInv, StaleOnlyUnserved
<1> QED
  BY <1>1, <1>2, <1>3 DEF Inv

-----------------------------------------------------------------------------
(* The server *)

LEMMA ServerListenInv == ASSUME Inv, ServerListen PROVE Inv'
<1> USE DEF Inv, ServerListen, kinds, streams, hist
<1>0. conn = None /\ None \notin Clients
  BY NoneOK DEF ConnInv
<1>1. TypeOK'
  BY DEF TypeOK, Running
<1>2. ConnInv'
  BY DEF ConnInv
<1>3. LinkInv'
  BY DEF LinkInv, Ended, Running
<1>4. Unaccepted' /\ StepInv' /\ StaleOnlyUnserved'
  BY <1>0 DEF Unaccepted, StepInv, StaleOnlyUnserved, TypeOK
<1> QED
  BY <1>1, <1>2, <1>3, <1>4

LEMMA ServerAcceptInv == ASSUME Inv, ServerAccept PROVE Inv'
<1> USE DEF Inv, ServerAccept, kinds, streams, hist
<1> DEFINE c == Head(backlog)
<1>0. /\ backlog \in Seq(Clients) /\ backlog # <<>>
      /\ conn = None /\ upRead = 0 /\ replies = 0 /\ downRead = 0
  BY DEF ConnInv, TypeOK
<1>a. c \in Clients /\ c = backlog[1] /\ Tail(backlog) \in Seq(Clients)
      /\ Len(Tail(backlog)) = Len(backlog) - 1 /\ Len(backlog) \in Nat
      /\ \A i \in 1 .. Len(Tail(backlog)) :
           i + 1 \in 1 .. Len(backlog) /\ Tail(backlog)[i] = backlog[i + 1]
  BY <1>0
<1>b. link[c] = "open" /\ c \notin stale /\ c # None
  BY <1>0, <1>a, NoneOK DEF LinkInv
<1> HIDE DEF c
<1>c. conn' = c /\ backlog' = Tail(backlog) /\ srv' = "recv"
  BY DEF c
<1>1. TypeOK'
  BY <1>0, <1>a, <1>c, TurnsOK DEF TypeOK, Running, ReqLen
<1>2. ConnInv'
  BY <1>b, <1>c DEF ConnInv
<1>3. LinkInv'
  BY <1>0, <1>a, <1>b, <1>c DEF LinkInv, Ended, Running
<1>4. Unaccepted'
  BY <1>0, <1>c, NoneOK DEF Unaccepted, TypeOK
<1>5. StepInv'
  BY <1>0, <1>a, <1>b, <1>c, NoneOK
     DEF StepInv, Unaccepted, Served, Waits, ReqLen, ReplyLen, TypeOK
<1>6. StaleOnlyUnserved'
  BY <1>b, <1>c DEF StaleOnlyUnserved
<1> QED
  BY <1>1, <1>2, <1>3, <1>4, <1>5, <1>6

LEMMA ServerRecvInv == ASSUME Inv, ServerRecv PROVE Inv'
<1> PICK n \in 1 .. ToRead :
      /\ upRead' = upRead + n
      /\ upWhole' = (upWhole /\ upRead % ReqLen = 0 /\ n = ReqLen)
      /\ \E found \in Finds(upRead % ReqLen, n) :
           srv' = IF found THEN "reply" ELSE "recv"
  BY DEF ServerRecv
<1> PICK found \in Finds(upRead % ReqLen, n) : srv' = IF found THEN "reply" ELSE "recv"
  OBVIOUS
<1>0. /\ srv = "recv"
      /\ UNCHANGED <<srvKind, asks, conn, backlog, cli, link, gone, loop, replies,
                     downRead, downWhole, stale, srvDied>>
  BY DEF ServerRecv, kinds
<1>a. conn \in Clients /\ conn # None /\ upRead \in Nat /\ loop[conn] \in Nat
      /\ replies \in Nat /\ downRead \in Nat /\ replies <= upRead
  BY <1>0, NoneOK, TurnsOK DEF Inv, ConnInv, TypeOK
<1>b. upRead' \in Nat /\ replies < upRead' /\ upRead' <= ReqLen * loop[conn]
  BY <1>a DEF ToRead, ReqLen
<1>1. TypeOK'
  BY <1>0, <1>a, <1>b DEF Inv, TypeOK, Running
<1>2. ConnInv'
  BY <1>0, <1>a, <1>b DEF Inv, ConnInv
<1>3. LinkInv'
  BY <1>0 DEF Inv, LinkInv, Ended, Running
<1>4. Unaccepted' /\ StaleOnlyUnserved'
  BY <1>0 DEF Inv, Unaccepted, StaleOnlyUnserved
<1>5. StepInv'
  <2> SUFFICES ASSUME srvKind = "app_04", upWhole', downWhole', ~srvDied, conn \in asks
               PROVE  /\ cli[conn] = "send" => Served(loop[conn])'
                      /\ cli[conn] = "recv" => Waits(loop[conn])'
    BY <1>0 DEF StepInv
  <2>1. upWhole /\ downWhole /\ upRead % ReqLen = 0 /\ n = ReqLen
    BY <1>0
  <2>2. Finds(upRead % ReqLen, n) = {TRUE}
    <3>1. upRead % ReqLen = 0 /\ n >= 2
      BY <2>1 DEF ReqLen
    <3> QED
      BY <3>1, Zenon DEF Finds
  <2>3. srv' = "reply"
    BY <2>2
  <2>4. CASE cli[conn] = "send"
    <3>1. upRead = ReqLen * loop[conn]
      BY <2>1, <2>4 DEF Inv, StepInv, Served
    <3> QED
      BY <1>a, <1>b, <2>1, <3>1 DEF ReqLen
  <2>5. CASE cli[conn] = "recv"
    BY <1>0, <1>a, <1>b, <2>1, <2>3, <2>5 DEF Inv, StepInv, Waits, ReqLen
  <2> QED
    BY <2>4, <2>5 DEF Inv, TypeOK
<1> QED
  BY <1>1, <1>2, <1>3, <1>4, <1>5 DEF Inv

\* The server ends; before its client only if it died.
LEMMA LeaveInv ==
  ASSUME Inv, Leave, srv \in Running, srvDied' \in BOOLEAN, srvDied => srvDied',
         srvDied' \/ (conn # None /\ Ended(conn)),
         UNCHANGED <<srvKind, asks, conn, cli, gone, loop, upRead, replies, downRead,
                     upWhole, downWhole, stale>>
  PROVE  Inv'
<1> USE DEF Leave
<1>1. TypeOK'
  <2>1. link' \in [Clients -> {"none", "open", "fin", "reset", "dead"}]
    BY DEF Inv, TypeOK
  <2> QED
    BY <2>1, TurnsOK DEF Inv, TypeOK
<1>2. ConnInv'
  BY DEF Inv, ConnInv
<1>a. \A c \in Clients : link'[c] # "open" /\ (link'[c] = link[c] \/ link[c] = "open")
  BY DEF Inv, TypeOK
<1>b. \A c \in Clients : link[c] \in {"none", "dead"} => link'[c] = link[c]
  BY DEF Inv, TypeOK
<1>c. conn # None => link'[conn] # "none"
  <2> HAVE conn # None
  <2>1. conn \in Clients /\ link[conn] # "none"
    BY DEF Inv, TypeOK, LinkInv
  <2> QED
    BY <2>1 DEF Inv, TypeOK
<1>3. LinkInv'
  BY <1>a, <1>b, <1>c DEF Inv, LinkInv, Ended
<1>4. Unaccepted' /\ StepInv' /\ StaleOnlyUnserved'
  BY <1>a DEF Inv, TypeOK, Unaccepted, StepInv, StaleOnlyUnserved, Ended
<1> QED
  BY <1>1, <1>2, <1>3, <1>4 DEF Inv

LEMMA ServerRecvEndInv == ASSUME Inv, ServerRecvEnd PROVE Inv'
<1>0. /\ srv = "recv" /\ gone[conn] # "no"
      /\ UNCHANGED <<srvKind, asks, conn, cli, loop, upRead, replies, downRead, upWhole,
                     downWhole, stale, srvDied>>
  BY DEF ServerRecvEnd, kinds, streams, hist
<1>a. conn \in Clients /\ conn # None /\ Ended(conn)
  BY <1>0, NoneOK DEF Inv, ConnInv, TypeOK, LinkInv
<1>1. CASE /\ gone' = [gone EXCEPT ![conn] = "fin"]
           /\ UNCHANGED <<srv, backlog, link>>
  <2> USE <1>0, <1>1 DEF Inv
  <2>1. TypeOK'
    BY DEF TypeOK
  <2>2. LinkInv'
    BY <1>a DEF LinkInv, Ended, TypeOK
  <2>3. ConnInv' /\ Unaccepted' /\ StepInv' /\ StaleOnlyUnserved'
    BY DEF ConnInv, Unaccepted, StepInv, Served, Waits, StaleOnlyUnserved
  <2> QED
    BY <2>1, <2>2, <2>3
<1>2. CASE Leave /\ UNCHANGED gone
  BY <1>0, <1>a, <1>2, LeaveInv DEF Running, Inv, TypeOK
<1> QED
  BY <1>1, <1>2 DEF ServerRecvEnd

LEMMA ServerReplyInv == ASSUME Inv, ServerReply PROVE Inv'
<1>0. /\ srv = "reply"
      /\ UNCHANGED <<srvKind, asks, conn, cli, loop, upRead, downRead, upWhole, downWhole, stale>>
  BY DEF ServerReply, kinds
<1>a. /\ conn \in Clients /\ conn # None /\ replies < upRead
      /\ replies \in Nat /\ upRead \in Nat /\ downRead \in Nat /\ loop[conn] \in Nat
  BY <1>0, NoneOK, TurnsOK DEF Inv, ConnInv, TypeOK
<1>1. CASE /\ srv' = "recv"
           /\ replies' = replies + 1
           /\ gone' = [gone EXCEPT ![conn] = IF @ = "fin" THEN "rst" ELSE @]
           /\ UNCHANGED <<backlog, link, srvDied>>
  <2>1. TypeOK'
    <3>1. replies' \in Nat /\ replies' <= upRead /\ downRead <= ReplyLen * replies'
      BY <1>a, <1>1 DEF Inv, TypeOK, ReplyLen
    <3>2. gone' \in [Clients -> {"no", "fin", "rst"}]
      BY <1>1 DEF Inv, TypeOK
    <3> QED
      BY <1>0, <1>1, <3>1, <3>2 DEF Inv, TypeOK, Running
  <2>2. ConnInv'
    BY <1>0, <1>a, <1>1 DEF Inv, ConnInv
  <2>3. \A c \in Clients : gone'[c] # "no" => gone[c] # "no"
    BY <1>1 DEF Inv, TypeOK
  <2>4. LinkInv'
    BY <1>0, <1>1, <2>3 DEF Inv, LinkInv, Ended, Running
  <2>5. Unaccepted' /\ StaleOnlyUnserved'
    BY <1>0, <1>1 DEF Inv, Unaccepted, StaleOnlyUnserved
  <2>6. StepInv'
    BY <1>0, <1>a, <1>1 DEF Inv, StepInv, Served, Waits, ReqLen
  <2> QED
    BY <2>1, <2>2, <2>4, <2>5, <2>6 DEF Inv
<1>2. CASE Leave /\ srvDied' = TRUE /\ UNCHANGED <<gone, replies>>
  BY <1>0, <1>2, LeaveInv DEF Running
<1> QED
  BY <1>1, <1>2 DEF ServerReply

LEMMA ServerKillInv == ASSUME Inv, ServerKill PROVE Inv'
  BY LeaveInv DEF ServerKill, kinds, streams

-----------------------------------------------------------------------------
(* The clients *)

LEMMA ConnectInv ==
  ASSUME Inv, NEW c \in Clients, Connect(c) PROVE Inv'
<1>0. /\ cli[c] = "connect" /\ cli' = [cli EXCEPT ![c] = "send"]
      /\ UNCHANGED <<srvKind, asks, srv, conn, gone, loop, upRead, replies, downRead,
                     upWhole, downWhole, stale, srvDied>>
  BY DEF Connect, kinds, streams, hist
<1>a. link[c] = "none" /\ loop[c] = 0 /\ c # conn /\ c \notin stale
  BY <1>0, NoneOK DEF Inv, LinkInv
<1>b. \/ /\ srv \in Running /\ Len(backlog) <= ListenMax
         /\ backlog' = Append(backlog, c) /\ link' = [link EXCEPT ![c] = "open"]
      \/ backlog' = backlog /\ link' = [link EXCEPT ![c] = "dead"]
  BY DEF Connect
<1>c. /\ \A b \in Clients : b # c => cli'[b] = cli[b] /\ link'[b] = link[b]
      /\ cli'[c] = "send" /\ link'[c] \in {"open", "dead"}
      /\ link'[c] = "open" => srv \in Running
  BY <1>0, <1>b DEF Inv, TypeOK
<1>1. TypeOK'
  <2>1. backlog' \in Seq(Clients) /\ Len(backlog') <= ListenMax + 1
    <3>1. /\ backlog \in Seq(Clients) /\ Len(backlog) \in Nat /\ Len(backlog) <= ListenMax + 1
          /\ ListenMax \in Nat
      BY TurnsOK DEF Inv, TypeOK
    <3>2. CASE backlog' = backlog
      BY <3>1, <3>2
    <3>3. CASE backlog' = Append(backlog, c) /\ Len(backlog) <= ListenMax
      <4>1. Len(Append(backlog, c)) = Len(backlog) + 1 /\ Append(backlog, c) \in Seq(Clients)
        BY <3>1
      <4> QED
        BY <3>1, <3>3, <4>1
    <3> QED
      BY <1>b, <3>2, <3>3
  <2>2. /\ cli' \in [Clients -> {"connect", "send", "recv", "closed", "killed"}]
        /\ link' \in [Clients -> {"none", "open", "fin", "reset", "dead"}]
    BY <1>0, <1>b DEF Inv, TypeOK
  <2> QED
    BY <1>0, <2>1, <2>2 DEF Inv, TypeOK
<1>2. ConnInv'
  BY <1>0 DEF Inv, ConnInv
<1>3. \A i \in 1 .. Len(backlog') : link'[backlog'[i]] = "open"
  <2>1. CASE backlog' = Append(backlog, c) /\ link' = [link EXCEPT ![c] = "open"]
    <3>1. link'[c] = "open" /\ backlog' = Append(backlog, c)
      BY <2>1 DEF Inv, TypeOK
    <3>2. \A i \in 1 .. Len(backlog) : backlog[i] \in Clients /\ link[backlog[i]] = "open"
      BY DEF Inv, TypeOK, LinkInv
    <3>3. \A i \in 1 .. Len(backlog') :
            backlog'[i] = c \/ (i \in 1 .. Len(backlog) /\ backlog'[i] = backlog[i])
      BY <3>1 DEF Inv, TypeOK
    <3> QED
      BY <1>a, <1>c, <3>1, <3>2, <3>3
  <2>2. CASE backlog' = backlog
    <3>1. \A i \in 1 .. Len(backlog) : backlog[i] \in Clients
      BY DEF Inv, TypeOK
    <3> QED
      BY <1>a, <1>c, <2>2, <3>1 DEF Inv, LinkInv
  <2> QED
    BY <1>b, <2>1, <2>2
<1>4. LinkInv'
  BY <1>0, <1>a, <1>c, <1>3 DEF Inv, LinkInv, Ended, TypeOK
<1>5. Unaccepted' /\ StepInv' /\ StaleOnlyUnserved'
  BY <1>0, <1>a, <1>c
     DEF Inv, TypeOK, Unaccepted, StepInv, Served, Waits, StaleOnlyUnserved
<1> QED
  BY <1>1, <1>2, <1>4, <1>5 DEF Inv

LEMMA ClientSendInv ==
  ASSUME Inv, NEW c \in Clients, ClientSend(c) PROVE Inv'
<1>0. /\ cli[c] = "send" /\ loop[c] < Turns /\ link[c] = "open"
      /\ loop' = [loop EXCEPT ![c] = @ + 1]
      /\ cli' = [cli EXCEPT ![c] = IF c \in asks THEN "recv" ELSE "send"]
      /\ UNCHANGED <<srvKind, asks, srv, conn, backlog, link, gone, upRead, replies,
                     downRead, upWhole, downWhole, stale, srvDied>>
  BY DEF ClientSend, kinds, streams, hist
<1>a. /\ loop[c] \in Nat /\ loop'[c] = loop[c] + 1 /\ loop'[c] \in 0 .. Turns
      /\ cli'[c] = IF c \in asks THEN "recv" ELSE "send"
      /\ \A b \in Clients : b # c => cli'[b] = cli[b] /\ loop'[b] = loop[b]
  BY <1>0, TurnsOK DEF Inv, TypeOK
<1>1. TypeOK'
  <2>1. loop' \in [Clients -> 0 .. Turns]
    BY <1>0, <1>a DEF Inv, TypeOK
  <2>2. cli' \in [Clients -> {"connect", "send", "recv", "closed", "killed"}]
    BY <1>0 DEF Inv, TypeOK
  <2>3. conn # None => upRead <= ReqLen * loop'[conn]
    <3> HAVE conn # None
    <3>1. conn \in Clients /\ upRead <= ReqLen * loop[conn] /\ loop[conn] \in Nat
      BY DEF Inv, TypeOK
    <3>2. loop'[conn] \in {loop[conn], loop[conn] + 1}
      BY <1>a, <3>1
    <3> QED
      BY <3>1, <3>2 DEF Inv, TypeOK, ReqLen
  <2> QED
    BY <1>0, <2>1, <2>2, <2>3 DEF Inv, TypeOK
<1>2. ConnInv'
  BY <1>0 DEF Inv, ConnInv
<1>3. LinkInv'
  BY <1>0, <1>a DEF Inv, LinkInv, Ended, TypeOK
<1>4. Unaccepted'
  BY <1>0, <1>a DEF Inv, Unaccepted, TypeOK
<1>5. StepInv'
  <2>1. CASE conn = c
    BY <1>0, <1>a, <2>1 DEF Inv, TypeOK, StepInv, Served, Waits
  <2>2. CASE conn # c
    BY <1>0, <1>a, <2>2 DEF Inv, TypeOK, StepInv, Served, Waits
  <2> QED
    BY <2>1, <2>2
<1>6. StaleOnlyUnserved'
  BY <1>0 DEF Inv, StaleOnlyUnserved
<1> QED
  BY <1>1, <1>2, <1>3, <1>4, <1>5, <1>6 DEF Inv

\* Without its server a client is out of step, but its server has died.
LEMMA ClientSendFailsInv ==
  ASSUME Inv, NEW c \in Clients, ClientSendFails(c) PROVE Inv'
<1>0. /\ cli[c] = "send" /\ loop[c] < Turns /\ link[c] \in {"fin", "reset", "dead"}
      /\ loop' = [loop EXCEPT ![c] = @ + 1]
      /\ UNCHANGED <<srvKind, asks, srv, conn, backlog, gone, upRead, replies,
                     downRead, upWhole, downWhole, stale, srvDied>>
  BY DEF ClientSendFails, kinds, streams, hist
<1>a. /\ loop[c] \in Nat /\ loop'[c] = loop[c] + 1 /\ loop'[c] \in 0 .. Turns
      /\ \A b \in Clients : b # c => loop'[b] = loop[b]
  BY <1>0, TurnsOK DEF Inv, TypeOK
<1>b. /\ cli' \in [Clients -> {"connect", "send", "recv", "closed", "killed"}]
      /\ cli'[c] \in {"recv", "send", "killed"}
      /\ \A b \in Clients : b # c => cli'[b] = cli[b]
  BY DEF ClientSendFails, Inv, TypeOK
<1>c. /\ link' \in [Clients -> {"none", "open", "fin", "reset", "dead"}]
      /\ link'[c] \in {link[c], "dead"} /\ (link[c] = "dead" => link'[c] = "dead")
      /\ \A b \in Clients : b # c => link'[b] = link[b]
  BY <1>0 DEF ClientSendFails, Inv, TypeOK
<1>d. gone[c] = "no" /\ (c = conn => srvDied)
  BY <1>0, NoneOK DEF Inv, LinkInv, Ended, TypeOK
<1>1. TypeOK'
  <2>1. loop' \in [Clients -> 0 .. Turns]
    BY <1>0, <1>a DEF Inv, TypeOK
  <2>2. conn # None => upRead <= ReqLen * loop'[conn]
    <3> HAVE conn # None
    <3>1. conn \in Clients /\ upRead <= ReqLen * loop[conn] /\ loop[conn] \in Nat
      BY DEF Inv, TypeOK
    <3>2. loop'[conn] \in {loop[conn], loop[conn] + 1}
      BY <1>a, <3>1
    <3> QED
      BY <3>1, <3>2 DEF Inv, TypeOK, ReqLen
  <2> QED
    BY <1>0, <1>b, <1>c, <2>1, <2>2 DEF Inv, TypeOK
<1>2. ConnInv'
  BY <1>0 DEF Inv, ConnInv
<1>e. \A i \in 1 .. Len(backlog) : link'[backlog[i]] = "open"
  <2> TAKE i \in 1 .. Len(backlog)
  <2>1. backlog[i] \in Clients /\ link[backlog[i]] = "open"
    BY DEF Inv, TypeOK, LinkInv
  <2> QED
    BY <1>0, <1>c, <2>1
<1>3. LinkInv'
  BY <1>0, <1>a, <1>b, <1>c, <1>d, <1>e DEF Inv, LinkInv, Ended, TypeOK
<1>4. Unaccepted' /\ StepInv' /\ StaleOnlyUnserved'
  BY <1>0, <1>a, <1>b, <1>c, <1>d
     DEF Inv, TypeOK, Unaccepted, StepInv, Served, Waits, StaleOnlyUnserved
<1> QED
  BY <1>1, <1>2, <1>3, <1>4 DEF Inv

LEMMA ClientRecvInv ==
  ASSUME Inv, NEW c \in Clients, ClientRecv(c) PROVE Inv'
<1> PICK n \in 1 .. ToClient(c) :
      /\ downRead' = downRead + n
      /\ downWhole' = (downWhole /\ downRead % ReplyLen = 0 /\ n = ReplyLen)
  BY DEF ClientRecv
<1>0. /\ cli[c] = "recv" /\ cli' = [cli EXCEPT ![c] = "send"]
      /\ UNCHANGED <<srvKind, asks, srv, conn, backlog, link, gone, loop, upRead,
                     replies, upWhole, stale, srvDied>>
  BY DEF ClientRecv, kinds
<1>a. /\ conn = c /\ c # None /\ downRead \in Nat /\ replies \in Nat
      /\ loop[c] \in Nat /\ n \in 1 .. (ReplyLen * replies - downRead)
  BY NoneOK, TurnsOK DEF ToClient, Inv, TypeOK
<1>b. /\ cli'[c] = "send" /\ ~Ended(c)
      /\ \A b \in Clients : b # c => cli'[b] = cli[b]
  BY <1>0 DEF Inv, TypeOK, Ended
<1>1. TypeOK'
  <2>1. downRead' \in Nat /\ downRead' <= ReplyLen * replies
    BY <1>a DEF ReplyLen
  <2>2. cli' \in [Clients -> {"connect", "send", "recv", "closed", "killed"}]
    BY <1>0 DEF Inv, TypeOK
  <2> QED
    BY <1>0, <2>1, <2>2 DEF Inv, TypeOK
<1>2. ConnInv'
  BY <1>0, <1>a DEF Inv, ConnInv
<1>3. LinkInv'
  BY <1>0, <1>a, <1>b DEF Inv, LinkInv, Ended, TypeOK
<1>4. Unaccepted' /\ StaleOnlyUnserved'
  BY <1>0, <1>a, <1>b DEF Inv, TypeOK, Unaccepted, StaleOnlyUnserved
<1>5. StepInv'
  <2> SUFFICES ASSUME srvKind = "app_04", upWhole', downWhole', ~srvDied, c \in asks
               PROVE  Served(loop[c])'
    BY <1>0, <1>a, <1>b DEF StepInv
  <2>a. upWhole /\ downWhole /\ n = ReplyLen
    BY <1>0
  <2>1. upWhole /\ downWhole /\ n = 2
    BY <2>a DEF ReplyLen
  <2>2. Waits(loop[c])
    BY <1>0, <1>a, <2>1 DEF Inv, StepInv
  <2>3. downRead = 2 * (loop[c] - 1) /\ replies = loop[c]
    BY <1>a, <2>1, <2>2 DEF Waits, ReplyLen
  <2>4. upRead = ReqLen * loop[c] /\ srv = "recv"
    BY <1>a, <2>2, <2>3 DEF Waits, ReqLen
  <2>b. downRead' = downRead + 2
    BY <2>1
  <2>5. downRead' = ReplyLen * loop[c]
    BY <1>a, <2>b, <2>3 DEF ReplyLen
  <2> QED
    BY <1>0, <2>3, <2>4, <2>5 DEF Served
<1> QED
  BY <1>1, <1>2, <1>3, <1>4, <1>5 DEF Inv

LEMMA ClientRecvEndInv ==
  ASSUME Inv, NEW c \in Clients, ClientRecvEnd(c) PROVE Inv'
<1>0. /\ cli[c] = "recv" /\ link[c] \in {"fin", "reset", "dead"}
      /\ cli' = [cli EXCEPT ![c] = "send"]
      /\ UNCHANGED <<srvKind, asks, srv, conn, backlog, gone, loop, upRead, replies,
                     downRead, upWhole, downWhole, srvDied>>
  BY DEF ClientRecvEnd, kinds, streams
<1>a. c = conn => srvDied
  BY <1>0, NoneOK DEF Inv, LinkInv, Ended, TypeOK
<1>b. /\ cli'[c] = "send" /\ ~Ended(c) /\ link'[c] \in {"fin", "dead"}
      /\ \A b \in Clients : b # c => cli'[b] = cli[b] /\ link'[b] = link[b]
  BY <1>0 DEF ClientRecvEnd, Inv, TypeOK, Ended
<1>c. /\ stale' \in {stale, stale \cup {c}}
      /\ c \in stale' => link'[c] = "dead"
  BY <1>0 DEF ClientRecvEnd, Inv, TypeOK, LinkInv
<1>1. TypeOK'
  <2>1. link' \in [Clients -> {"none", "open", "fin", "reset", "dead"}]
    BY DEF ClientRecvEnd, Inv, TypeOK
  <2>2. cli' \in [Clients -> {"connect", "send", "recv", "closed", "killed"}]
    BY <1>0 DEF Inv, TypeOK
  <2> QED
    BY <1>0, <1>c, <2>1, <2>2 DEF Inv, TypeOK
<1>2. ConnInv'
  BY <1>0 DEF Inv, ConnInv
<1>d. \A i \in 1 .. Len(backlog) : link'[backlog[i]] = "open"
  <2> TAKE i \in 1 .. Len(backlog)
  <2>1. backlog[i] \in Clients /\ link[backlog[i]] = "open"
    BY DEF Inv, TypeOK, LinkInv
  <2> QED
    BY <1>0, <1>b, <2>1
<1>3. LinkInv'
  BY <1>0, <1>a, <1>b, <1>c, <1>d DEF Inv, LinkInv, Ended, TypeOK
<1>4. Unaccepted' /\ StepInv'
  BY <1>0, <1>a, <1>b DEF Inv, TypeOK, Unaccepted, StepInv, Served, Waits
<1>5. StaleOnlyUnserved'
  BY <1>0, <1>a, <1>c DEF Inv, StaleOnlyUnserved
<1> QED
  BY <1>1, <1>2, <1>3, <1>4, <1>5 DEF Inv

LEMMA PartInv ==
  ASSUME Inv, NEW c \in Clients, cli[c] \in {"send", "recv"},
         NEW how \in {"closed", "killed"}, NEW bye \in {"fin", "rst"}, Part(c, how, bye)
  PROVE  Inv'
<1>0. /\ cli' = [cli EXCEPT ![c] = how]
      /\ gone' = [gone EXCEPT ![c] = bye]
      /\ UNCHANGED <<srvKind, asks, srv, conn, backlog, link, loop, upRead, replies,
                     downRead, upWhole, downWhole, stale, srvDied>>
  BY DEF Part, kinds, streams, hist
<1>a. /\ cli'[c] \in {"closed", "killed"}
      /\ \A b \in Clients : b # c => cli'[b] = cli[b] /\ gone'[b] = gone[b]
  BY <1>0 DEF Inv, TypeOK
<1>1. TypeOK'
  BY <1>0 DEF Inv, TypeOK
<1>2. ConnInv'
  BY <1>0 DEF Inv, ConnInv
<1>3. LinkInv'
  BY <1>0, <1>a DEF Inv, LinkInv, Ended, TypeOK
<1>4. Unaccepted' /\ StepInv' /\ StaleOnlyUnserved'
  BY <1>0, <1>a
     DEF Inv, TypeOK, Unaccepted, StepInv, Served, Waits, StaleOnlyUnserved
<1> QED
  BY <1>1, <1>2, <1>3, <1>4 DEF Inv

-----------------------------------------------------------------------------
LEMMA NextInv == Inv /\ [Next]_vars => Inv'
<1> SUFFICES ASSUME Inv, [Next]_vars PROVE Inv'
  OBVIOUS
<1>1. CASE ServerStep \/ ServerKill
  BY <1>1, ServerListenInv, ServerAcceptInv, ServerRecvInv, ServerRecvEndInv,
     ServerReplyInv, ServerKillInv DEF ServerStep
<1>2. ASSUME NEW c \in Clients, ClientStep(c) \/ ClientKill(c) PROVE Inv'
  <2>1. CASE ClientClose(c)
    BY <2>1, PartInv DEF ClientClose, Bye
  <2>2. CASE ClientKill(c)
    BY <2>2, PartInv DEF ClientKill, Bye
  <2> QED
    BY <1>2, <2>1, <2>2, ConnectInv, ClientSendInv, ClientSendFailsInv, ClientRecvInv,
       ClientRecvEndInv DEF ClientStep
<1>3. CASE UNCHANGED vars
  <2> USE <1>3 DEF Inv, vars, kinds, streams, hist
  <2>1. TypeOK'
    BY DEF TypeOK
  <2>2. ConnInv' /\ LinkInv'
    BY DEF ConnInv, LinkInv, Ended
  <2>3. Unaccepted' /\ StepInv' /\ StaleOnlyUnserved'
    BY DEF Unaccepted, StepInv, Served, Waits, StaleOnlyUnserved
  <2> QED
    BY <2>1, <2>2, <2>3
<1> QED
  BY <1>1, <1>2, <1>3 DEF Next

LEMMA Invariant == Spec => []Inv
<1>1. Init => Inv
  BY InitInv
<1>2. Inv /\ [Next]_vars => Inv'
  BY NextInv
<1> QED
  BY <1>1, <1>2, PTL DEF Spec

\* Every variable keeps its type; nobody reads more than was sent, and no server
\* sends more replies than it has read units.
THEOREM TypeCorrect == Spec => []TypeOK
<1>1. Inv => TypeOK
  BY DEF Inv
<1> QED
  BY <1>1, Invariant, PTL

\* As long as every recv() returns one whole text, an app_04tcp_client that is
\* about to send has read one reply to each request, however its connection
\* waits in the backlog or others come, go and die.
THEOREM RepliesInStep == Spec => []InStep
<1>1. Inv => InStep
  <2> SUFFICES ASSUME Inv, upWhole, downWhole, ~srvDied, conn \in asks, srvKind = "app_04",
                      cli[conn] = "send"
               PROVE  replies = loop[conn] /\ downRead = ReplyLen * loop[conn]
    BY DEF InStep
  <2> QED
    BY DEF Inv, StepInv, Served
<1> QED
  BY <1>1, Invariant, PTL

\* The client that was accepted prints no line recv() did not fill, unless its
\* server was killed.
THEOREM NoStaleLine == Spec => []StaleOnlyUnserved
<1>1. Inv => StaleOnlyUnserved
  BY DEF Inv
<1> QED
  BY <1>1, Invariant, PTL
=============================================================================
