--------------------------- MODULE UdpReqReplyProofs ---------------------------
(***************************************************************************)
(* Proofs about UdpReqReply, for any number of clients, strangers and      *)
(* turns.  The inductive invariant adds to the properties what the server  *)
(* holds (ServerInv) and that a client none of whose datagrams arrived     *)
(* twice has one datagram under way at most, of its present turn           *)
(* (OneUnderWay).                                                          *)
(***************************************************************************)
EXTENDS UdpReqReply, TLAPS

ServerInv ==
  /\ srv = "reply" <=> rcvBuf # {}
  /\ \A d, e \in rcvBuf : d.kind = "req" /\ d = e

OneUnderWay ==
  \A c \in Clients : doubled[c] = 0 =>
    \A d \in net \cup rcvBuf : d.peer = c =>
      /\ cli[c] = "recv" /\ d.turn = loop[c]
      /\ \A e \in net \cup rcvBuf : e.peer = c => e = d
      /\ d \in rcvBuf => d \notin net

Inv == TypeOK /\ ServerInv /\ AnswerOwed /\ OneUnderWay /\ InStep

LEMMA InitInv == Init => Inv
<1> SUFFICES ASSUME Init PROVE Inv
  OBVIOUS
<1> USE DEF Init
<1>1. TypeOK
  BY TurnsOK, MaxDoubledOK DEF TypeOK, Senders
<1>2. ServerInv /\ AnswerOwed /\ OneUnderWay /\ InStep
  BY DEF ServerInv, AnswerOwed, OneUnderWay, InStep, Senders
<1> QED
  BY <1>1, <1>2 DEF Inv

-----------------------------------------------------------------------------
LEMMA LoseInv == ASSUME Inv, Lose PROVE Inv'
<1> PICK d \in net : Vanishes(d)
  BY DEF Lose
<1> USE DEF Inv, Lose, Vanishes
<1>1. TypeOK'
  BY DEF TypeOK
<1>2. ServerInv'
  BY DEF ServerInv
<1>3. AnswerOwed'
  BY DEF AnswerOwed, TypeOK
<1>4. OneUnderWay'
  BY DEF OneUnderWay
<1>5. InStep'
  BY DEF InStep
<1> QED
  BY <1>1, <1>2, <1>3, <1>4, <1>5

LEMMA ServerBindInv == ASSUME Inv, ServerBind PROVE Inv'
<1> USE DEF Inv, ServerBind, hist
<1>1. TypeOK'
  BY DEF TypeOK
<1>2. ServerInv'
  BY DEF ServerInv
<1>3. AnswerOwed' /\ OneUnderWay' /\ InStep'
  BY DEF AnswerOwed, OneUnderWay, InStep
<1> QED
  BY <1>1, <1>2, <1>3

\* A datagram that arrives is gone, or its sender is no longer undoubled.
LEMMA ArrivesFacts ==
  ASSUME Inv, NEW d, Arrives(d)
  PROVE  /\ d \in Datagrams /\ net' \subseteq net
         /\ doubled' \in [Clients -> 0 .. MaxDoubled] /\ lost' = lost
         /\ \A c \in Clients : doubled'[c] = 0 => doubled[c] = 0
         /\ \A c \in Clients : doubled'[c] = 0 /\ d.peer = c => net' = net \ {d}
         /\ \A e \in net : e # d => e \in net'
<1> USE DEF Inv, Arrives, TypeOK
<1>1. d \in Datagrams /\ net' \subseteq net /\ lost' = lost
  OBVIOUS
<1>2. CASE net' = net \ {d} /\ UNCHANGED doubled
  BY <1>1, <1>2
<1>3. CASE /\ d.peer \in Clients /\ doubled[d.peer] < MaxDoubled
           /\ doubled' = [doubled EXCEPT ![d.peer] = @ + 1]
           /\ UNCHANGED net
  <2>1. doubled[d.peer] + 1 \in 1 .. MaxDoubled
    BY <1>3, MaxDoubledOK
  <2>2. doubled' \in [Clients -> 0 .. MaxDoubled]
    BY <1>3, <2>1
  <2>3. doubled'[d.peer] # 0
    BY <1>3, <2>1
  <2> QED
    BY <1>1, <1>3, <2>2, <2>3
<1> QED
  BY <1>2, <1>3

LEMMA ServerRecvInv == ASSUME Inv, ServerRecv PROVE Inv'
<1> PICK d \in ToServer :
      /\ Arrives(d)
      /\ IF d.kind = "req" THEN srv' = "reply" /\ rcvBuf' = {d}
                           ELSE UNCHANGED <<srv, rcvBuf>>
  BY DEF ServerRecv
<1>0. /\ srv = "recv" /\ rcvBuf = {}
      /\ UNCHANGED <<port, cli, loop, answer, lost>>
      /\ d \in net /\ d.kind # "ok"
  BY DEF ServerRecv, Arrives, Inv, ServerInv, ToServer
<1>1. TypeOK'
  BY <1>0, ArrivesFacts DEF Inv, TypeOK
<1>2. ServerInv'
  BY <1>0 DEF ServerInv
<1>3. AnswerOwed'
  <2> SUFFICES ASSUME NEW c \in Clients, cli[c] = "recv", ~lost[c]
               PROVE  \E e \in net' \cup rcvBuf' : e.peer = c
    BY <1>0 DEF AnswerOwed
  <2>1. PICK e \in net : e.peer = c
    BY <1>0 DEF Inv, AnswerOwed
  <2>2. CASE e # d
    BY <2>1, <2>2, ArrivesFacts
  <2>3. CASE e = d
    <3>1. d.kind = "req"
      BY <1>0, <2>1, <2>3, ClientsOK, ArrivesFacts DEF Datagrams
    <3> QED
      BY <2>1, <2>3, <3>1
  <2> QED
    BY <2>2, <2>3
<1>4. OneUnderWay'
  <2> SUFFICES ASSUME NEW c \in Clients, doubled'[c] = 0,
                      NEW e \in net' \cup rcvBuf', e.peer = c
               PROVE  /\ cli[c] = "recv" /\ e.turn = loop[c]
                      /\ \A f \in net' \cup rcvBuf' : f.peer = c => f = e
                      /\ e \in rcvBuf' => e \notin net'
    BY <1>0 DEF OneUnderWay
  <2>1. net' \cup rcvBuf' \subseteq net \cup rcvBuf
    BY <1>0, ArrivesFacts
  <2>2. /\ cli[c] = "recv" /\ e.turn = loop[c]
        /\ \A f \in net' \cup rcvBuf' : f.peer = c => f = e
    BY <2>1, ArrivesFacts DEF Inv, OneUnderWay
  <2>3. ASSUME e \in rcvBuf' PROVE e \notin net'
    BY <1>0, <2>3, ArrivesFacts
  <2> QED
    BY <2>2, <2>3
<1>5. InStep'
  BY <1>0, ArrivesFacts DEF Inv, InStep
<1> QED
  BY <1>1, <1>2, <1>3, <1>4, <1>5 DEF Inv

LEMMA ServerReplyInv == ASSUME Inv, ServerReply PROVE Inv'
<1>0. /\ srv' = "recv" /\ rcvBuf' = {}
      /\ net' = net \cup {Reply(d) : d \in rcvBuf}
      /\ UNCHANGED <<port, cli, loop, answer, lost, doubled>>
  BY DEF ServerReply, hist
<1>a. \A d \in rcvBuf : d.kind = "req" /\ d.peer \in Clients /\ d.turn \in 1 .. Turns
  BY DEF Inv, ServerInv, TypeOK, Datagrams
<1>b. \A d \in rcvBuf : /\ Reply(d) \in Datagrams
                        /\ Reply(d).peer = d.peer /\ Reply(d).turn = d.turn
  BY <1>a DEF Reply, Datagrams
<1>1. TypeOK'
  BY <1>0, <1>b DEF Inv, TypeOK
<1>2. ServerInv'
  BY <1>0 DEF ServerInv
<1>3. AnswerOwed'
  BY <1>0, <1>b DEF Inv, AnswerOwed
<1>4. OneUnderWay'
  <2> SUFFICES ASSUME NEW c \in Clients, doubled[c] = 0, NEW e \in net', e.peer = c
               PROVE  /\ cli[c] = "recv" /\ e.turn = loop[c]
                      /\ \A f \in net' : f.peer = c => f = e
    BY <1>0 DEF OneUnderWay
  <2> DEFINE One(d) == /\ cli[c] = "recv" /\ d.turn = loop[c]
                       /\ \A f \in net \cup rcvBuf : f.peer = c => f = d
                       /\ d \in rcvBuf => d \notin net
  <2>1. \A d \in net \cup rcvBuf : d.peer = c => One(d)
    BY DEF Inv, OneUnderWay
  <2>2. CASE \E d \in rcvBuf : d.peer = c
    <3>1. PICK d \in rcvBuf : d.peer = c
      BY <2>2
    <3>2. One(d) /\ d \notin net
      BY <2>1, <3>1
    <3>3. \A f \in net' : f.peer = c => f = Reply(d)
      BY <1>0, <1>b, <3>1, <3>2 DEF Inv, ServerInv
    <3> QED
      BY <1>b, <3>1, <3>2, <3>3
  <2>3. CASE ~ \E d \in rcvBuf : d.peer = c
    <3>1. \A f \in net' : f.peer = c => f \in net
      BY <1>0, <1>b, <2>3
    <3> QED
      BY <2>1, <3>1
  <2> QED
    BY <2>2, <2>3
<1>5. InStep'
  BY <1>0 DEF Inv, InStep
<1> QED
  BY <1>1, <1>2, <1>3, <1>4, <1>5 DEF Inv

-----------------------------------------------------------------------------
LEMMA SinkInv == ASSUME Inv, SinkBind \/ SinkRecv PROVE Inv'
<1>1. CASE SinkBind
  <2> USE <1>1 DEF Inv, SinkBind, hist
  <2>1. TypeOK'
    BY DEF TypeOK
  <2>2. ServerInv' /\ AnswerOwed' /\ OneUnderWay' /\ InStep'
    BY DEF ServerInv, AnswerOwed, OneUnderWay, InStep
  <2> QED
    BY <2>1, <2>2
<1>2. CASE SinkRecv
  <2> PICK d \in ToServer : Vanishes(d)
    BY <1>2 DEF SinkRecv
  <2> USE <1>2 DEF Inv, SinkRecv, Vanishes
  <2>1. TypeOK'
    BY DEF TypeOK
  <2>2. ServerInv' /\ OneUnderWay' /\ InStep'
    BY DEF ServerInv, OneUnderWay, InStep
  <2>3. AnswerOwed'
    BY DEF AnswerOwed, TypeOK
  <2> QED
    BY <2>1, <2>2, <2>3
<1> QED
  BY <1>1, <1>2

LEMMA StrangerSendInv ==
  ASSUME Inv, NEW s \in Strangers, StrangerSend(s) PROVE Inv'
<1>0. /\ loop' = [loop EXCEPT ![s] = @ + 1] /\ net' = net \cup {Text(s, loop'[s])}
      /\ loop[s] < Turns
      /\ UNCHANGED <<port, srv, rcvBuf, cli, answer, lost, doubled>>
  BY DEF StrangerSend, hist
<1>a. loop[s] \in 0 .. Turns /\ loop'[s] = loop[s] + 1 /\ loop'[s] \in 1 .. Turns
  BY <1>0, TurnsOK DEF Inv, TypeOK, Senders
<1>b. Text(s, loop'[s]) \in Datagrams /\ Text(s, loop'[s]).peer = s
  BY <1>a DEF Text, Datagrams
<1>c. \A c \in Clients : c # s /\ loop'[c] = loop[c]
  BY <1>0, ClientsOK DEF Inv, TypeOK, Senders
<1>1. TypeOK'
  BY <1>0, <1>a, <1>b DEF Inv, TypeOK, Senders
<1>2. ServerInv' /\ AnswerOwed'
  BY <1>0 DEF Inv, ServerInv, AnswerOwed
<1>3. OneUnderWay'
  BY <1>0, <1>b, <1>c DEF Inv, OneUnderWay
<1>4. InStep'
  BY <1>0, <1>c DEF Inv, InStep
<1> QED
  BY <1>1, <1>2, <1>3, <1>4 DEF Inv

-----------------------------------------------------------------------------
LEMMA ClientSendInv ==
  ASSUME Inv, NEW c \in Clients, ClientSend(c) PROVE Inv'
<1> DEFINE r == Request(c, loop'[c])
<1>0. /\ cli[c] = "send" /\ loop[c] < Turns
      /\ loop' = [loop EXCEPT ![c] = @ + 1] /\ net' = net \cup {r}
      /\ cli' = [cli EXCEPT ![c] = "recv"]
      /\ UNCHANGED <<port, srv, rcvBuf, answer, lost, doubled>>
  BY DEF ClientSend, hist
<1>a. loop[c] \in 0 .. Turns /\ loop'[c] = loop[c] + 1 /\ loop'[c] \in 1 .. Turns
  BY <1>0, TurnsOK DEF Inv, TypeOK, Senders
<1>b. r \in Datagrams /\ r.peer = c /\ r.turn = loop'[c]
  BY <1>a DEF Request, Datagrams
<1>c. \A b \in Clients : b # c => loop'[b] = loop[b] /\ cli'[b] = cli[b]
  BY <1>0 DEF Inv, TypeOK, Senders
<1>d. cli'[c] = "recv"
  BY <1>0 DEF Inv, TypeOK
<1>1. TypeOK'
  <2>1. loop' \in [Senders -> 0 .. Turns]
    BY <1>0, <1>a DEF Inv, TypeOK, Senders
  <2> QED
    BY <1>0, <1>b, <2>1 DEF Inv, TypeOK
<1>2. ServerInv'
  BY <1>0 DEF Inv, ServerInv
<1>3. AnswerOwed'
  BY <1>0, <1>b, <1>c DEF Inv, AnswerOwed
<1> HIDE DEF r
<1>4. OneUnderWay'
  <2> SUFFICES ASSUME NEW b \in Clients, doubled[b] = 0,
                      NEW d \in net' \cup rcvBuf', d.peer = b
               PROVE  /\ cli'[b] = "recv" /\ d.turn = loop'[b]
                      /\ \A e \in net' \cup rcvBuf' : e.peer = b => e = d
                      /\ d \in rcvBuf' => d \notin net'
    BY <1>0 DEF OneUnderWay
  <2>1. CASE b = c
    <3>1. \A e \in net \cup rcvBuf : e.peer # c
      BY <1>0, <2>1 DEF Inv, OneUnderWay
    <3> QED
      BY <1>0, <1>b, <1>d, <2>1, <3>1
  <2>2. CASE b # c
    BY <1>0, <1>b, <1>c, <2>2 DEF Inv, OneUnderWay
  <2> QED
    BY <2>1, <2>2
<1>5. InStep'
  BY <1>0, <1>a, <1>c, <1>d DEF Inv, InStep
<1> QED
  BY <1>1, <1>2, <1>3, <1>4, <1>5 DEF Inv

LEMMA ClientRecvInv ==
  ASSUME Inv, NEW c \in Clients, ClientRecv(c) PROVE Inv'
<1> PICK d \in ToPeer(c) : Arrives(d) /\ answer' = [answer EXCEPT ![c] = d.turn]
  BY DEF ClientRecv
<1>0. /\ cli[c] = "recv" /\ cli' = [cli EXCEPT ![c] = "send"]
      /\ UNCHANGED <<port, srv, rcvBuf, loop, lost>>
      /\ d \in net /\ d.kind = "ok" /\ d.peer = c
  BY DEF ClientRecv, Arrives, ToPeer
<1>a. cli'[c] = "send" /\ answer'[c] = d.turn
  BY <1>0 DEF Inv, TypeOK
<1>b. \A b \in Clients : b # c => cli'[b] = cli[b] /\ answer'[b] = answer[b]
  BY <1>0 DEF Inv, TypeOK
<1>c. d.turn \in 0 .. Turns
  BY <1>0, TurnsOK DEF Inv, TypeOK, Datagrams
<1>1. TypeOK'
  BY <1>0, <1>c, ArrivesFacts DEF Inv, TypeOK
<1>2. ServerInv'
  BY <1>0 DEF Inv, ServerInv
<1>3. AnswerOwed'
  <2> SUFFICES ASSUME NEW b \in Clients, cli'[b] = "recv", ~lost[b]
               PROVE  \E e \in net' \cup rcvBuf : e.peer = b
    BY <1>0 DEF AnswerOwed
  <2>1. b # c /\ cli[b] = "recv"
    BY <1>a, <1>b
  <2>2. PICK e \in net \cup rcvBuf : e.peer = b
    BY <2>1 DEF Inv, AnswerOwed
  <2> QED
    BY <1>0, <2>1, <2>2, ArrivesFacts
<1>4. OneUnderWay'
  <2> SUFFICES ASSUME NEW b \in Clients, doubled'[b] = 0,
                      NEW e \in net' \cup rcvBuf, e.peer = b
               PROVE  /\ cli'[b] = "recv" /\ e.turn = loop[b]
                      /\ \A f \in net' \cup rcvBuf : f.peer = b => f = e
                      /\ e \in rcvBuf => e \notin net'
    BY <1>0 DEF OneUnderWay
  <2>1. doubled[b] = 0 /\ net' \subseteq net
    BY ArrivesFacts
  <2>2. /\ cli[b] = "recv" /\ e.turn = loop[b]
        /\ \A f \in net \cup rcvBuf : f.peer = b => f = e
        /\ e \in rcvBuf => e \notin net
    BY <2>1 DEF Inv, OneUnderWay
  <2>3. b # c
    BY <1>0, <2>2, ArrivesFacts
  <2> QED
    BY <1>b, <2>1, <2>2, <2>3
<1>5. InStep'
  <2> SUFFICES ASSUME NEW b \in Clients, doubled'[b] = 0
               PROVE  answer'[b] = IF cli'[b] = "recv" THEN loop[b] - 1 ELSE loop[b]
    BY <1>0 DEF InStep
  <2>1. doubled[b] = 0
    BY ArrivesFacts
  <2>2. CASE b = c
    BY <1>0, <1>a, <2>1, <2>2 DEF Inv, OneUnderWay
  <2>3. CASE b # c
    BY <1>b, <2>1, <2>3 DEF Inv, InStep
  <2> QED
    BY <2>2, <2>3
<1> QED
  BY <1>1, <1>2, <1>3, <1>4, <1>5 DEF Inv

LEMMA ClientCloseInv ==
  ASSUME Inv, NEW c \in Clients, ClientClose(c) PROVE Inv'
<1>0. /\ cli[c] = "send" /\ cli' = [cli EXCEPT ![c] = "closed"]
      /\ UNCHANGED <<port, srv, rcvBuf, net, loop, answer, lost, doubled>>
  BY DEF ClientClose, hist
<1>a. \A b \in Clients : cli'[b] = "recv" <=> cli[b] = "recv"
  BY <1>0 DEF Inv, TypeOK
<1>1. TypeOK'
  BY <1>0 DEF Inv, TypeOK
<1>2. ServerInv' /\ AnswerOwed' /\ OneUnderWay' /\ InStep'
  BY <1>0, <1>a DEF Inv, ServerInv, AnswerOwed, OneUnderWay, InStep
<1> QED
  BY <1>1, <1>2 DEF Inv

-----------------------------------------------------------------------------
LEMMA NextInv == Inv /\ [Next]_vars => Inv'
<1> SUFFICES ASSUME Inv, [Next]_vars PROVE Inv'
  OBVIOUS
<1>1. CASE Lose \/ ServerStep \/ SinkBind \/ SinkRecv
  BY <1>1, LoseInv, ServerBindInv, ServerRecvInv, ServerReplyInv, SinkInv DEF ServerStep
<1>2. CASE \E s \in Strangers : StrangerSend(s)
  BY <1>2, StrangerSendInv
<1>3. CASE \E c \in Clients : ClientStep(c)
  BY <1>3, ClientSendInv, ClientRecvInv, ClientCloseInv DEF ClientStep
<1>4. CASE UNCHANGED vars
  <2> USE <1>4 DEF Inv, vars, hist
  <2>1. TypeOK'
    BY DEF TypeOK
  <2>2. ServerInv' /\ AnswerOwed' /\ OneUnderWay' /\ InStep'
    BY DEF ServerInv, AnswerOwed, OneUnderWay, InStep
  <2> QED
    BY <2>1, <2>2
<1> QED
  BY <1>1, <1>2, <1>3, <1>4 DEF Next

LEMMA Invariant == Spec => []Inv
<1>1. Init => Inv
  BY InitInv
<1>2. Inv /\ [Next]_vars => Inv'
  BY NextInv
<1> QED
  BY <1>1, <1>2, PTL DEF Spec

\* Every variable keeps its type; strangers are never answered.
THEOREM TypeCorrect == Spec => []TypeOK
<1>1. Inv => TypeOK
  BY DEF Inv
<1> QED
  BY <1>1, Invariant, PTL

\* A client waiting in recvfrom() is owed an answer unless a datagram of its
\* own was lost.
THEOREM Owed == Spec => []AnswerOwed
<1>1. Inv => AnswerOwed
  BY DEF Inv
<1> QED
  BY <1>1, Invariant, PTL

\* A client none of whose datagrams arrives twice prints, for each request, the
\* reply to that request, whatever others do and however late anything is.
THEOREM RepliesInStep == Spec => []InStep
<1>1. Inv => InStep
  BY DEF Inv
<1> QED
  BY <1>1, Invariant, PTL
=============================================================================
