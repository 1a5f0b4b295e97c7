-------------------------------- MODULE TcpPort --------------------------------
(***************************************************************************)
(* The TCP programs on port 9880.  Three servers, of which one runs:       *)
(* app_04tcp_server answers texts with "req" in them, socket_tcp_server    *)
(* prints what comes, socket_tcp_nonblk_server drains it without blocking. *)
(* Each accepts one client and ends with it.  app_04tcp_client sends a     *)
(* request and waits for the reply, three times; socket_tcp_client and     *)
(* socket_tcp_nonblk_client only send.  Any mixture may meet.              *)
(*                                                                         *)
(* A stream is counted in units.  A text to the server has ReqLen of them: *)
(* "re", "q", and the rest with the final zero; a reply has ReplyLen.      *)
(***************************************************************************)
EXTENDS Integers, Sequences

CONSTANTS
  Clients,      \* processes that run one of the three client programs
  None,         \* no client
  Turns,        \* turns of a client's loop (3; 31 of the non-blocking one)
  ListenMax     \* second argument of listen() (1)

ASSUME NoneOK == None \notin Clients
ASSUME TurnsOK == Turns \in Nat \ {0} /\ ListenMax \in Nat

ReqLen == 3
ReplyLen == 2

VARIABLES
  srvKind,      \* the server program: "app_04", "plain" or "nonblk"
  asks,         \* which clients are app_04tcp_client
  srv,          \* where the server's main() is
  conn,         \* the client it has accepted
  backlog,      \* clients connected and not yet accepted
  cli,          \* where each client is
  link,         \* the connection as the client finds it, see below
  gone,         \* how each client has left it: "no", "fin" or "rst"
  loop,         \* turns each client has begun
  upRead,       \* units the server has read
  replies,      \* replies it has sent
  downRead,     \* units of them its client has read
  upWhole,      \* history: every recv() of the server returned exactly one text
  downWhole,    \* history: and every one of its client exactly one reply
  stale,        \* history: clients that printed a line recv() did not fill
  srvDied       \* history: the server did not end by itself

\* link: "none" before connect(), then "open"; "fin": the server has closed;
\* "reset": it has reset, and the error is still to be reported; "dead": recv()
\* returns 0 and send() raises SIGPIPE.
kinds == <<srvKind, asks>>
streams == <<upRead, replies, downRead>>
hist == <<upWhole, downWhole, stale, srvDied>>
vars == <<kinds, srv, conn, backlog, cli, link, gone, loop, streams, hist>>

Running == {"accept", "recv", "reply"}
Ended(c) == cli[c] \in {"closed", "killed"}
ToRead == ReqLen * loop[conn] - upRead
ToClient(c) == IF c = conn THEN ReplyLen * replies - downRead ELSE 0

Init ==
  /\ srvKind \in {"app_04", "plain", "nonblk"} /\ asks \in SUBSET Clients
  /\ srv = "start" /\ conn = None /\ backlog = <<>>
  /\ cli = [c \in Clients |-> "connect"]
  /\ link = [c \in Clients |-> "none"]
  /\ gone = [c \in Clients |-> "no"]
  /\ loop = [c \in Clients |-> 0]
  /\ upRead = 0 /\ replies = 0 /\ downRead = 0
  /\ upWhole = TRUE /\ downWhole = TRUE /\ stale = {} /\ srvDied = FALSE

-----------------------------------------------------------------------------
(* The servers *)

ServerListen ==
  /\ srv = "start" /\ srv' = "accept"
  /\ UNCHANGED <<kinds, conn, backlog, cli, link, gone, loop, streams, hist>>

ServerAccept ==
  /\ srv = "accept" /\ backlog # <<>>
  /\ srv' = "recv"
  /\ conn' = Head(backlog) /\ backlog' = Tail(backlog)
  /\ UNCHANGED <<kinds, cli, link, gone, loop, streams, hist>>

\* The process is over.  Who waits in the backlog is reset, and so is a client
\* with bytes the server has not read; otherwise it sees the end of the stream.
Leave ==
  /\ srv' = "ended" /\ backlog' = <<>>
  /\ link' = [c \in Clients |->
       IF link[c] # "open" THEN link[c]
       ELSE IF c = conn /\ ToRead = 0 THEN "fin" ELSE "reset"]

\* strstr(rcvBuf, "req") after a read of n units from unit o of a request on:
\* it stops at the final zero, if that was read.  If not, it goes on into older
\* bytes of the buffer, which complete a "req" or do not.
Finds(o, n) ==
  IF srvKind # "app_04" \/ conn \notin asks THEN {FALSE}
  ELSE IF o = 0 /\ n >= 2 THEN {TRUE}
  ELSE IF o + n >= ReqLen THEN {FALSE} ELSE BOOLEAN

ServerRecv ==
  /\ srv = "recv"
  /\ \E n \in 1 .. ToRead :
       /\ upRead' = upRead + n
       /\ upWhole' = (upWhole /\ upRead % ReqLen = 0 /\ n = ReqLen)
       /\ \E found \in Finds(upRead % ReqLen, n) :
            srv' = IF found THEN "reply" ELSE "recv"
  /\ UNCHANGED <<kinds, conn, backlog, cli, link, gone, loop, replies, downRead,
                 downWhole, stale, srvDied>>

\* mutant: recv() returning 0 is taken for a text
ServerRecvEndNot ==
  /\ srv = "recv" /\ ToRead = 0 /\ gone[conn] = "rst"
  /\ Leave
  /\ UNCHANGED <<kinds, conn, cli, gone, loop, streams, hist>>

\* recv() returns 0 or -1.  The non-blocking server goes on after -1, and finds
\* 0 the next time.
ServerRecvEnd ==
  /\ srv = "recv" /\ ToRead = 0 /\ gone[conn] # "no"
  /\ IF srvKind = "nonblk" /\ gone[conn] = "rst"
       THEN /\ gone' = [gone EXCEPT ![conn] = "fin"]
            /\ UNCHANGED <<srv, backlog, link>>
       ELSE Leave /\ UNCHANGED gone
  /\ UNCHANGED <<kinds, conn, cli, loop, streams, hist>>

\* mutant: send() again
ServerReplyAgain ==
  /\ srv = "reply" /\ replies < ReqLen * Turns
  /\ replies' = replies + 1
  /\ UNCHANGED <<kinds, srv, conn, backlog, cli, link, gone, loop, upRead,
                 downRead, hist>>

\* mutant: no loop around recv() and send()
ServerReplyLast ==
  /\ srv = "reply" /\ replies' = replies + 1
  /\ Leave
  /\ UNCHANGED <<kinds, conn, cli, gone, loop, upRead, downRead, hist>>

\* A send() to a client that has closed is answered by a reset; after a reset it
\* reports an error nobody looks at, or raises SIGPIPE.
ServerReply ==
  /\ srv = "reply"
  /\ \/ /\ srv' = "recv"
        /\ replies' = replies + 1
        /\ gone' = [gone EXCEPT ![conn] = IF @ = "fin" THEN "rst" ELSE @]
        /\ UNCHANGED <<backlog, link, srvDied>>
     \/ /\ gone[conn] = "rst"
        /\ Leave /\ srvDied' = TRUE
        /\ UNCHANGED <<gone, replies>>
  /\ UNCHANGED <<kinds, conn, cli, loop, upRead, downRead, upWhole,
                 downWhole, stale>>

ServerKill ==
  /\ srv \in Running
  /\ Leave /\ srvDied' = TRUE
  /\ UNCHANGED <<kinds, conn, cli, gone, loop, streams, upWhole, downWhole, stale>>

-----------------------------------------------------------------------------
(* The clients *)

\* connect(): its result is not looked at.  It waits for room in the queue of
\* listen(), which has one place more than listen() was told.
Connect(c) ==
  /\ cli[c] = "connect"
  /\ cli' = [cli EXCEPT ![c] = "send"]
  /\ \/ /\ srv \in Running /\ Len(backlog) <= ListenMax
        /\ backlog' = Append(backlog, c) /\ link' = [link EXCEPT ![c] = "open"]
     \/ /\ srv \notin Running \/ Len(backlog) > ListenMax    \* refused, or timed out
        /\ link' = [link EXCEPT ![c] = "dead"] /\ UNCHANGED backlog
  /\ UNCHANGED <<kinds, srv, conn, gone, loop, streams, hist>>

\* mutant: the loop makes one turn too many
ClientSendOneMore(c) ==
  /\ cli[c] = "send" /\ loop[c] <= Turns /\ link[c] = "open"
  /\ loop' = [loop EXCEPT ![c] = @ + 1]
  /\ cli' = [cli EXCEPT ![c] = IF c \in asks THEN "recv" ELSE "send"]
  /\ UNCHANGED <<kinds, srv, conn, backlog, link, gone, streams, hist>>

\* send(), to a server that is there
ClientSend(c) ==
  /\ cli[c] = "send" /\ loop[c] < Turns /\ link[c] = "open"
  /\ loop' = [loop EXCEPT ![c] = @ + 1]
  /\ cli' = [cli EXCEPT ![c] = IF c \in asks THEN "recv" ELSE "send"]
  /\ UNCHANGED <<kinds, srv, conn, backlog, link, gone, streams, hist>>

\* send(), to one that is not.  After the end of the stream it goes unnoticed, until
\* the reset it brings is there; so does one that comes before a reset, and the error
\* of the reset is reported once to deaf ears.  After that SIGPIPE kills.
ClientSendFails(c) ==
  /\ cli[c] = "send" /\ loop[c] < Turns /\ link[c] \in {"fin", "reset", "dead"}
  /\ loop' = [loop EXCEPT ![c] = @ + 1]
  /\ IF link[c] = "dead"
       THEN cli' = [cli EXCEPT ![c] = "killed"] /\ UNCHANGED link
       ELSE /\ cli' = [cli EXCEPT ![c] = IF c \in asks THEN "recv" ELSE "send"]
            /\ \E l \in {link[c], "dead"} : link' = [link EXCEPT ![c] = l]
  /\ UNCHANGED <<kinds, srv, conn, backlog, gone, streams, hist>>

\* recv() returns some of the bytes there are.
ClientRecv(c) ==
  /\ cli[c] = "recv"
  /\ \E n \in 1 .. ToClient(c) :
       /\ downRead' = downRead + n
       /\ downWhole' = (downWhole /\ downRead % ReplyLen = 0 /\ n = ReplyLen)
  /\ cli' = [cli EXCEPT ![c] = "send"]
  /\ UNCHANGED <<kinds, srv, conn, backlog, link, gone, loop, upRead, replies,
                 upWhole, stale, srvDied>>

\* recv() returns 0 and nothing is printed, or, if a reset is still to be reported,
\* -1, and what is in the buffer is printed.
ClientRecvEnd(c) ==
  /\ cli[c] = "recv" /\ ToClient(c) = 0 /\ link[c] \in {"fin", "reset", "dead"}
  /\ cli' = [cli EXCEPT ![c] = "send"]
  /\ \/ link[c] = "reset" /\ stale' = stale \cup {c}
        /\ link' = [link EXCEPT ![c] = "dead"]
     \/ link[c] # "reset" /\ UNCHANGED <<stale, link>>
  /\ UNCHANGED <<kinds, srv, conn, backlog, gone, loop, streams, upWhole, downWhole,
                 srvDied>>

\* The socket closes; with bytes unread, it resets.
Part(c, how, bye) ==
  /\ cli' = [cli EXCEPT ![c] = how]
  /\ gone' = [gone EXCEPT ![c] = bye]
  /\ UNCHANGED <<kinds, srv, conn, backlog, link, loop, streams, hist>>

Bye(c) == IF ToClient(c) > 0 THEN "rst" ELSE "fin"

ClientClose(c) == cli[c] = "send" /\ loop[c] = Turns /\ Part(c, "closed", Bye(c))

\* The process is killed; its connection may be aborted with it.
ClientKill(c) ==
  cli[c] \in {"send", "recv"} /\ \E bye \in {Bye(c), "rst"} : Part(c, "killed", bye)

-----------------------------------------------------------------------------
ServerStep ==
  ServerListen \/ ServerAccept \/ ServerRecv \/ ServerRecvEnd \/ ServerReply

ClientStep(c) ==
  \/ Connect(c) \/ ClientSend(c) \/ ClientSendFails(c)
  \/ ClientRecv(c) \/ ClientRecvEnd(c) \/ ClientClose(c)

Next ==
  \/ ServerStep \/ ServerKill
  \/ \E c \in Clients : ClientStep(c) \/ ClientKill(c)

\* Every program runs on if it can; nobody need be killed.
Fairness == WF_vars(ServerStep) /\ \A c \in Clients : WF_vars(ClientStep(c))

Spec == Init /\ [][Next]_vars /\ Fairness

-----------------------------------------------------------------------------
\* Every variable keeps its type, and nobody reads more than was sent.
TypeOK ==
  /\ srvKind \in {"app_04", "plain", "nonblk"} /\ asks \subseteq Clients
  /\ srv \in Running \cup {"start", "ended"}
  /\ conn \in Clients \cup {None}
  /\ backlog \in Seq(Clients) /\ Len(backlog) <= ListenMax + 1
  /\ cli \in [Clients -> {"connect", "send", "recv", "closed", "killed"}]
  /\ link \in [Clients -> {"none", "open", "fin", "reset", "dead"}]
  /\ gone \in [Clients -> {"no", "fin", "rst"}]
  /\ loop \in [Clients -> 0 .. Turns]
  /\ upRead \in Nat /\ replies \in Nat /\ downRead \in Nat
  /\ conn # None => upRead <= ReqLen * loop[conn] /\ replies <= upRead
  /\ downRead <= ReplyLen * replies
  /\ upWhole \in BOOLEAN /\ downWhole \in BOOLEAN /\ stale \subseteq Clients /\ srvDied \in BOOLEAN

\* As long as every recv() returns one whole text, a client that is about to
\* send has read the reply to each request it has sent, and nothing more
\* (app_04tcp_server.c:43, app_04tcp_client.c:45).
InStep ==
  upWhole /\ downWhole /\ ~srvDied /\ conn \in asks /\ srvKind = "app_04" /\ cli[conn] = "send" =>
    replies = loop[conn] /\ downRead = ReplyLen * loop[conn]

\* A client prints a line recv() did not fill (app_04tcp_client.c:46) only if it
\* was never accepted, or its server was killed: a server does not end before
\* its client.
StaleOnlyUnserved == conn \in stale => srvDied

\* All end, those in the queue and those who came too late with them, unless the
\* client that was accepted asks a server that does not answer, or one that has read
\* a text in pieces or two at once (app_04tcp_server.c:38-46, app_04tcp_client.c:45).
\* However the replies are cut, no client waits for another one, and the server whose
\* recv() returns -1 and goes on ends all the same (socket_tcp_nonblk_server.c:46).
AllEnd ==
  LET stuck == conn \in asks /\ (srvKind # "app_04" \/ ~upWhole)
  IN  /\ \A c \in Clients : cli[c] = "connect" ~> (Ended(c) \/ stuck)
      /\ conn # None ~> (srv = "ended" \/ stuck)
=============================================================================
