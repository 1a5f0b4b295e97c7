-------------------------------- MODULE SysVMsg --------------------------------
(***************************************************************************)
(* msg_0send_rcv.c and msg_1thread_send_rcv.c.  Both use the System V      *)
(* queue of one key, which outlives them: runs of either program share     *)
(* their messages, and a killed run leaves its own behind.  msg_0 sends    *)
(* three messages and then receives for ever.  msg_1 has a thread that     *)
(* sends five and one that receives, but only after it has seen that there *)
(* is a message.  Texts are all alike here.  Time is left out;             *)
(* pthread_create() and msgget() are taken to succeed.                     *)
(***************************************************************************)
EXTENDS Integers

CONSTANTS
  Procs,        \* processes that run one of the two programs
  MaxMsgs       \* messages the queue holds: msg_qbytes / 256

VARIABLES
  prog,         \* the program of each process: "msg_0" or "msg_1"
  life,         \* whether it is "idle", "running" or "killed"
  sent,         \* messages it has sent
  recv,         \* where it receives: "no", "look" (IPC_STAT) or "take" (msgrcv)
  qnum,         \* messages in the queue
  robbed        \* history: processes that are about to receive, and another one has
                \* received since

vars == <<prog, life, sent, recv, qnum, robbed>>

ToSend(p) == IF prog[p] = "msg_0" THEN 3 ELSE 5
Running(p) == life[p] = "running"

Init ==
  /\ prog \in [Procs -> {"msg_0", "msg_1"}]
  /\ life = [p \in Procs |-> "idle"]
  /\ sent = [p \in Procs |-> 0]
  /\ recv = [p \in Procs |-> "no"]
  /\ qnum = 0 /\ robbed = {}

Start(p) ==
  /\ life[p] = "idle"
  /\ life' = [life EXCEPT ![p] = "running"]
  /\ recv' = [recv EXCEPT ![p] = IF prog[p] = "msg_1" THEN "look" ELSE "no"]
  /\ UNCHANGED <<prog, sent, qnum, robbed>>

\* msgsnd() waits as long as the queue is full.
Send(p) ==
  /\ Running(p) /\ sent[p] < ToSend(p) /\ qnum < MaxMsgs
  /\ sent' = [sent EXCEPT ![p] = @ + 1]
  /\ qnum' = qnum + 1
  /\ recv' = [recv EXCEPT ![p] = IF sent'[p] = 3 /\ prog[p] = "msg_0" THEN "take" ELSE @]
  /\ UNCHANGED <<prog, life, robbed>>

\* mutant: msg_qnum is not looked at
LookNot(p) ==
  /\ Running(p) /\ recv[p] = "look"
  /\ recv' = [recv EXCEPT ![p] = "take"]
  /\ UNCHANGED <<prog, life, sent, qnum, robbed>>

\* mutant: the last message is not counted
LookOneLess(p) ==
  /\ Running(p) /\ recv[p] = "look" /\ qnum > 1
  /\ recv' = [recv EXCEPT ![p] = "take"]
  /\ UNCHANGED <<prog, life, sent, qnum, robbed>>

\* msgctl(IPC_STAT); with no message it is called again.
Look(p) ==
  /\ Running(p) /\ recv[p] = "look" /\ qnum > 0
  /\ recv' = [recv EXCEPT ![p] = "take"]
  /\ UNCHANGED <<prog, life, sent, qnum, robbed>>

\* mutant: msgrcv() does not wait
TakeAnyway(p) ==
  /\ Running(p) /\ recv[p] = "take"
  /\ qnum' = qnum - 1
  /\ robbed' = (robbed \ {p}) \cup {q \in Procs \ {p} : recv[q] = "take"}
  /\ recv' = [recv EXCEPT ![p] = IF prog[p] = "msg_1" THEN "look" ELSE @]
  /\ UNCHANGED <<prog, life, sent>>

\* msgrcv() waits as long as the queue is empty.
Take(p) ==
  /\ Running(p) /\ recv[p] = "take" /\ qnum > 0
  /\ qnum' = qnum - 1
  /\ robbed' = (robbed \ {p}) \cup {q \in Procs \ {p} : recv[q] = "take"}
  /\ recv' = [recv EXCEPT ![p] = IF prog[p] = "msg_1" THEN "look" ELSE @]
  /\ UNCHANGED <<prog, life, sent>>

Kill(p) ==
  /\ Running(p)
  /\ life' = [life EXCEPT ![p] = "killed"]
  /\ UNCHANGED <<prog, sent, recv, qnum, robbed>>

Next == \E p \in Procs : Start(p) \/ Send(p) \/ Look(p) \/ Take(p) \/ Kill(p)

\* Each thread of a run goes on if it can; nobody need start or kill one.
Fairness == \A p \in Procs : WF_vars(Send(p)) /\ WF_vars(Look(p) \/ Take(p))

Spec == Init /\ [][Next]_vars /\ Fairness

-----------------------------------------------------------------------------
\* Every variable keeps its type.
TypeOK ==
  /\ prog \in [Procs -> {"msg_0", "msg_1"}]
  /\ life \in [Procs -> {"idle", "running", "killed"}]
  /\ \A p \in Procs : sent[p] \in 0 .. ToSend(p)
  /\ recv \in [Procs -> {"no", "look", "take"}]
  /\ qnum \in 0 .. MaxMsgs /\ robbed \subseteq Procs

\* Who has seen a message in the queue finds one there, unless another process has
\* received in between (msg_1thread_send_rcv.c:78-83): however many runs of both
\* programs look and take besides.
SeenIsThere ==
  \A p \in Procs :
    Running(p) /\ prog[p] = "msg_1" /\ recv[p] = "take" /\ p \notin robbed => qnum > 0

\* A process that receives empties the queue, of what killed ones have left too,
\* until it is killed; and the sender of msg_1 never waits for ever in a full
\* queue (msg_1thread_send_rcv.c:53, :83).  That of msg_0 may: it receives only
\* when it has sent everything (msg_0send_rcv.c:25).
Drains ==
  \A p \in Procs :
    /\ Running(p) /\ recv[p] # "no" ~> qnum = 0 \/ ~Running(p)
    /\ Running(p) /\ prog[p] = "msg_1" ~> sent[p] = ToSend(p) \/ ~Running(p)
=============================================================================
