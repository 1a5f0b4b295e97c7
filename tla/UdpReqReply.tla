------------------------------ MODULE UdpReqReply ------------------------------
(***************************************************************************)
(* The UDP programs on port 9880.  app_04udp_client.c sends a request and  *)
(* waits for the reply, three times; app_04udp_server.c answers whoever    *)
(* sends a text with "req" in it.  socket_udp_client.c sends another text  *)
(* to the same port three times and waits for nothing; socket_udp_server.c *)
(* prints what comes and answers nothing, if it has the port.              *)
(*                                                                         *)
(* Datagrams arrive in any order, may be lost, and may arrive twice.  A    *)
(* request and its reply carry, for the properties only, the turn of the   *)
(* client's loop they belong to.                                           *)
(***************************************************************************)
EXTENDS Integers, FiniteSets

CONSTANTS
  Clients,      \* processes of app_04udp_client
  Strangers,    \* processes of socket_udp_client
  Turns,        \* turns of their loops (3)
  MaxDoubled    \* bound: datagrams of one client that arrive twice

ASSUME ClientsOK == Clients \cap Strangers = {}
ASSUME TurnsOK == Turns \in Nat \ {0}
ASSUME MaxDoubledOK == MaxDoubled \in Nat

VARIABLES
  port,         \* who is bound to port 9880: "none", "app_04" or "socket_udp"
  srv,          \* where main() of app_04udp_server is
  rcvBuf,       \* the datagrams in its buffer: none, or the one to answer
  net,          \* datagrams under way or in a socket
  cli,          \* where each client is
  loop,         \* turns begun, of clients and strangers
  answer,       \* history: the turn the client's last reply belongs to
  lost,         \* history: a datagram of this client got lost
  doubled       \* history: how many datagrams of this client arrived twice

hist == <<lost, doubled>>
vars == <<port, srv, rcvBuf, net, cli, loop, answer, hist>>

Senders == Clients \cup Strangers

\* Who sent it to the server, or is sent it by the server, is the peer.
Request(c, n) == [kind |-> "req",  peer |-> c, turn |-> n]
Text(s, n)    == [kind |-> "test", peer |-> s, turn |-> n]
Reply(d)      == [kind |-> "ok",   peer |-> d.peer, turn |-> d.turn]

ToServer == {d \in net : d.kind # "ok"}
ToPeer(c) == {d \in net : d.kind = "ok" /\ d.peer = c}

Init ==
  /\ port = "none" /\ srv = "bind" /\ rcvBuf = {} /\ net = {}
  /\ cli = [c \in Clients |-> "send"]
  /\ loop = [p \in Senders |-> 0]
  /\ answer = [c \in Clients |-> 0]
  /\ lost = [c \in Clients |-> FALSE]
  /\ doubled = [c \in Clients |-> 0]

-----------------------------------------------------------------------------
(* The network *)

\* d leaves the network, or arrives now and stays to arrive again.
Arrives(d) ==
  /\ d \in net
  /\ UNCHANGED lost
  /\ \/ net' = net \ {d} /\ UNCHANGED doubled
     \/ /\ d.peer \in Clients /\ doubled[d.peer] < MaxDoubled
        /\ doubled' = [doubled EXCEPT ![d.peer] = @ + 1]
        /\ UNCHANGED net

\* d leaves the network, and nobody will ever answer it or get it.
Vanishes(d) ==
  /\ d \in net
  /\ net' = net \ {d}
  /\ lost' = [c \in Clients |-> lost[c] \/ c = d.peer]
  /\ UNCHANGED doubled

\* So too when nobody is bound to the port: sendto() reports no error.
Lose ==
  /\ \E d \in net : Vanishes(d)
  /\ UNCHANGED <<port, srv, rcvBuf, cli, loop, answer>>

-----------------------------------------------------------------------------
(* app_04udp_server.c *)

\* The result of bind() is not looked at: without the port, deaf for ever.
ServerBind ==
  /\ srv = "bind"
  /\ port' = IF port = "none" THEN "app_04" ELSE port
  /\ srv' = IF port = "none" THEN "recv" ELSE "deaf"
  /\ UNCHANGED <<rcvBuf, net, cli, loop, answer, hist>>

\* mutant: every text is answered
ServerRecvAny ==
  /\ srv = "recv"
  /\ \E d \in ToServer : Arrives(d) /\ srv' = "reply" /\ rcvBuf' = {d}
  /\ UNCHANGED <<port, cli, loop, answer>>

\* Accept only "req".  recvfrom() also notes whom to answer.
ServerRecv ==
  /\ srv = "recv"
  /\ \E d \in ToServer :
       /\ Arrives(d)
       /\ IF d.kind = "req" THEN srv' = "reply" /\ rcvBuf' = {d}
                            ELSE UNCHANGED <<srv, rcvBuf>>
  /\ UNCHANGED <<port, cli, loop, answer>>

\* mutant: all replies go to one client
ServerReplyToOne ==
  /\ srv = "reply"
  /\ net' = net \cup {[Reply(d) EXCEPT !.peer = CHOOSE c \in Clients : TRUE] : d \in rcvBuf}
  /\ srv' = "recv" /\ rcvBuf' = {}
  /\ UNCHANGED <<port, cli, loop, answer, hist>>

\* mutant: the reply is sent again
ServerReplyAgain ==
  /\ srv = "reply"
  /\ net' = net \cup {Reply(d) : d \in rcvBuf}
  /\ UNCHANGED <<port, srv, rcvBuf, cli, loop, answer, hist>>

\* mutant: the loop is missing
ServerReplyLast ==
  /\ srv = "reply"
  /\ net' = net \cup {Reply(d) : d \in rcvBuf}
  /\ srv' = "deaf" /\ rcvBuf' = {}
  /\ UNCHANGED <<port, cli, loop, answer, hist>>

ServerReply ==
  /\ srv = "reply"
  /\ net' = net \cup {Reply(d) : d \in rcvBuf}
  /\ srv' = "recv" /\ rcvBuf' = {}
  /\ UNCHANGED <<port, cli, loop, answer, hist>>

-----------------------------------------------------------------------------
(* socket_udp_server.c and socket_udp_client.c *)

SinkBind ==
  /\ port = "none"
  /\ port' = "socket_udp"
  /\ UNCHANGED <<srv, rcvBuf, net, cli, loop, answer, hist>>

SinkRecv ==
  /\ port = "socket_udp"
  /\ \E d \in ToServer : Vanishes(d)
  /\ UNCHANGED <<port, srv, rcvBuf, cli, loop, answer>>

StrangerSend(s) ==
  /\ loop[s] < Turns
  /\ loop' = [loop EXCEPT ![s] = @ + 1]
  /\ net' = net \cup {Text(s, loop'[s])}
  /\ UNCHANGED <<port, srv, rcvBuf, cli, answer, hist>>

-----------------------------------------------------------------------------
(* app_04udp_client.c *)

ClientSend(c) ==
  /\ cli[c] = "send" /\ loop[c] < Turns
  /\ loop' = [loop EXCEPT ![c] = @ + 1]
  /\ net' = net \cup {Request(c, loop'[c])}
  /\ cli' = [cli EXCEPT ![c] = "recv"]
  /\ UNCHANGED <<port, srv, rcvBuf, answer, hist>>

\* Whatever arrives first is the answer; no timeout.
ClientRecv(c) ==
  /\ cli[c] = "recv"
  /\ \E d \in ToPeer(c) :
       /\ Arrives(d)
       /\ answer' = [answer EXCEPT ![c] = d.turn]
  /\ cli' = [cli EXCEPT ![c] = "send"]
  /\ UNCHANGED <<port, srv, rcvBuf, loop>>

ClientClose(c) ==
  /\ cli[c] = "send" /\ loop[c] = Turns
  /\ cli' = [cli EXCEPT ![c] = "closed"]
  /\ UNCHANGED <<port, srv, rcvBuf, net, loop, answer, hist>>

-----------------------------------------------------------------------------
ServerStep == ServerBind \/ ServerRecv \/ ServerReply
ClientStep(c) == ClientSend(c) \/ ClientRecv(c) \/ ClientClose(c)

Next ==
  \/ Lose \/ ServerStep
  \/ SinkBind \/ SinkRecv
  \/ \E s \in Strangers : StrangerSend(s)
  \/ \E c \in Clients : ClientStep(c)

\* Every program that runs goes on if it can; socket_udp_server may never be
\* started, and strangers need not send.
Fairness ==
  /\ WF_vars(ServerStep) /\ WF_vars(SinkRecv)
  /\ \A c \in Clients : WF_vars(ClientStep(c))

Spec == Init /\ [][Next]_vars /\ Fairness

-----------------------------------------------------------------------------
Datagrams ==
  [kind : {"req", "ok"}, peer : Clients, turn : 1 .. Turns]
    \cup [kind : {"test"}, peer : Strangers, turn : 1 .. Turns]

\* Every variable has the values its program can give it; only clients are
\* ever answered (app_04udp_server.c:37).
TypeOK ==
  /\ port \in {"none", "app_04", "socket_udp"}
  /\ srv \in {"bind", "deaf", "recv", "reply"}
  /\ rcvBuf \subseteq Datagrams /\ net \subseteq Datagrams
  /\ cli \in [Clients -> {"send", "recv", "closed"}]
  /\ loop \in [Senders -> 0 .. Turns]
  /\ answer \in [Clients -> 0 .. Turns]
  /\ lost \in [Clients -> BOOLEAN]
  /\ doubled \in [Clients -> 0 .. MaxDoubled]

\* A client that waits in recvfrom() (app_04udp_client.c:42) is owed an answer:
\* its request or a reply is under way or in the server's hands.  So it is even
\* when datagrams arrive twice and out of order; only a loss ends it.
AnswerOwed ==
  \A c \in Clients :
    cli[c] = "recv" =>
      \/ lost[c]
      \/ \E d \in net \cup rcvBuf : d.peer = c

\* The reply a client prints belongs to the request it printed above it
\* (app_04udp_client.c:48), unless a datagram of its own arrived twice: what
\* happens to other clients and to strangers cannot get it out of step.
InStep ==
  \A c \in Clients :
    doubled[c] = 0 => answer[c] = IF cli[c] = "recv" THEN loop[c] - 1 ELSE loop[c]

\* Every client gets through its loop, unless one of its datagrams is lost,
\* to the network or to a socket_udp_server that had the port first
\* (app_04udp_client.c:42, no timeout).
ClientEnds == \A c \in Clients : <>(cli[c] = "closed" \/ lost[c])
=============================================================================
