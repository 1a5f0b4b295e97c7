------------------------------ MODULE PosixMqueue ------------------------------
(***************************************************************************)
(* The four POSIX message queue programs.  They use one name, "/mq", which *)
(* outlives the processes: mqueue_0open_close.c opens or creates it,       *)
(* mqueue_1send_rcv.c sends three messages and receives as many as         *)
(* mq_getattr() then counts, mqueue_2setMsgSize.c unlinks it and creates   *)
(* it with eight places, mqueue_3send_rcv_20msgs.c unlinks it, creates it  *)
(* with sixty places and sends and receives twenty messages.  None of them *)
(* removes it at the end.                                                  *)
(*                                                                         *)
(* A process runs one program after another and may be killed at any       *)
(* point; two processes may overlap.  The messages are all alike, so a     *)
(* queue is the number it holds and the number it may hold.                *)
(***************************************************************************)
EXTENDS Integers, Sequences, FiniteSets

CONSTANTS
  Procs,            \* processes that may run at the same time
  MaxRuns,          \* runs of a program that are started (model bound)
  SendCount,        \* messages of mqueue_1 (3)
  kNumMessages,     \* messages of mqueue_3 (20)
  DefaultMax,       \* places of a queue made without attributes (10)
  MaxSetMsgSize,    \* places mqueue_2 asks for (8)
  Max20Msgs         \* places mqueue_3 asks for (60)

ASSUME SizesOK ==
  /\ {MaxRuns, SendCount, kNumMessages, DefaultMax, MaxSetMsgSize, Max20Msgs} \subseteq Nat
  /\ SendCount <= DefaultMax /\ SendCount <= MaxSetMsgSize /\ SendCount <= Max20Msgs
  /\ kNumMessages <= Max20Msgs

Programs == {"open_close", "send_rcv", "setMsgSize", "20msgs"}
Fresh == {"setMsgSize", "20msgs"}       \* those that want a queue of their own
None == 0                               \* no queue has the name

VARIABLES
  mq,       \* the queue that has the name "/mq", or None
  queues,   \* all queues made, in order: [max, cur]
  prog,     \* the program each process runs
  pc,       \* where it is; "idle": it runs none
  mqd,      \* the queue it has open, or None
  left,     \* messages it has still to send or to receive
  runs,     \* runs started
  alone,    \* history: no other process has run since this one started
  killed,   \* history: a process has been killed
  raced,    \* history: processes whose name was opened by another one between their
            \* mq_unlink() and their mq_open()
  robbed    \* history: processes out of whose queue another one has received since
            \* they counted its messages

hist == <<alone, killed, raced, robbed>>
vars == <<mq, queues, prog, pc, mqd, left, runs, hist>>

Init ==
  /\ mq = None /\ queues = <<>>
  /\ prog = [p \in Procs |-> "open_close"]
  /\ pc = [p \in Procs |-> "idle"]
  /\ mqd = [p \in Procs |-> None]
  /\ left = [p \in Procs |-> 0]
  /\ runs = 0
  /\ alone = [p \in Procs |-> TRUE]
  /\ killed = FALSE /\ raced = {} /\ robbed = {}

Goes(p, from, to) == pc[p] = from /\ pc' = [pc EXCEPT ![p] = to]

\* Mutant: mqueue_2 and mqueue_3 do not unlink the name.
FirstStepOpens(g) == "open"

FirstStep(g) == IF g \in Fresh THEN "unlink" ELSE "open"

Start(p, g) ==
  /\ runs < MaxRuns
  /\ Goes(p, "idle", FirstStep(g))
  /\ prog' = [prog EXCEPT ![p] = g]
  /\ runs' = runs + 1
  /\ LET others == {q \in Procs \ {p} : pc[q] # "idle"}
     IN  alone' = [q \in Procs |-> IF q = p THEN others = {}
                                   ELSE alone[q] /\ q \notin others]
  /\ raced' = raced \ {p} /\ robbed' = robbed \ {p}
  /\ UNCHANGED <<mq, queues, mqd, left, killed>>

\* mq_unlink("/mq"): those who have the queue open keep it
Unlink(p) ==
  /\ Goes(p, "unlink", IF prog[p] = "20msgs" THEN "setmax" ELSE "open")
  /\ mq' = None
  /\ UNCHANGED <<queues, prog, mqd, left, runs, hist>>

\* setMaxMessages() needs root; without it main() returns
SetMaxMessages(p) ==
  /\ \/ Goes(p, "setmax", "open")
     \/ Goes(p, "setmax", "idle")
  /\ UNCHANGED <<mq, queues, prog, mqd, left, runs, hist>>

\* mutant: mqueue_3 leaves mq_maxmsg to the system
MaxMsgDefault(g) == IF g = "setMsgSize" THEN MaxSetMsgSize ELSE DefaultMax

\* The places of a queue the program creates, and the messages it sends.
MaxMsg(g) == CASE g = "setMsgSize" -> MaxSetMsgSize
               [] g = "20msgs"     -> Max20Msgs
               [] OTHER            -> DefaultMax

ToSend(g) == CASE g = "send_rcv" -> SendCount
               [] g = "20msgs"   -> kNumMessages
               [] OTHER          -> 0
AfterOpen(g) == IF g \in {"send_rcv", "20msgs"} THEN "send" ELSE "close"

\* mq_open(O_CREAT): the attributes count only if the queue is made
Open(p) ==
  /\ Goes(p, "open", AfterOpen(prog[p]))
  /\ IF mq = None
       THEN /\ queues' = Append(queues, [max |-> MaxMsg(prog[p]), cur |-> 0])
            /\ mq' = Len(queues')
       ELSE UNCHANGED <<mq, queues>>
  /\ mqd' = [mqd EXCEPT ![p] = mq']
  /\ left' = [left EXCEPT ![p] = ToSend(prog[p])]
  /\ raced' = raced \cup {q \in Procs \ {p} : prog[q] \in Fresh /\ pc[q] \in {"setmax", "open"}}
  /\ UNCHANGED <<prog, runs, alone, killed, robbed>>

\* exit(EXIT_FAILURE)
OpenFails(p) ==
  /\ Goes(p, "open", "idle")
  /\ UNCHANGED <<mq, queues, prog, mqd, left, runs, hist>>

Cur(p) == queues[mqd[p]].cur

\* mutant: a full queue takes one message more
SendOver(p) ==
  /\ Goes(p, "send", "send")
  /\ left[p] > 0 /\ Cur(p) <= queues[mqd[p]].max
  /\ queues' = [queues EXCEPT ![mqd[p]].cur = @ + 1]
  /\ left' = [left EXCEPT ![p] = @ - 1]
  /\ UNCHANGED <<mq, prog, mqd, runs, hist>>

\* mq_send() waits while the queue is full; its result is not looked at
Send(p) ==
  /\ Goes(p, "send", "send")
  /\ left[p] > 0 /\ Cur(p) < queues[mqd[p]].max
  /\ queues' = [queues EXCEPT ![mqd[p]].cur = @ + 1]
  /\ left' = [left EXCEPT ![p] = @ - 1]
  /\ UNCHANGED <<mq, prog, mqd, runs, hist>>

\* s_rcv(): attr.mq_curmsgs is taken once, before the loop
GetAttr(p) ==
  /\ Goes(p, "send", "receive")
  /\ left[p] = 0
  /\ left' = [left EXCEPT ![p] = Cur(p)]
  /\ UNCHANGED <<mq, queues, prog, mqd, runs, hist>>

\* mq_receive() waits while the queue is empty
Receive(p) ==
  /\ Goes(p, "receive", "receive")
  /\ left[p] > 0 /\ Cur(p) > 0
  /\ queues' = [queues EXCEPT ![mqd[p]].cur = @ - 1]
  /\ left' = [left EXCEPT ![p] = @ - 1]
  /\ robbed' = robbed \cup {q \in Procs \ {p} : pc[q] = "receive" /\ mqd[q] = mqd[p]}
  /\ UNCHANGED <<mq, prog, mqd, runs, alone, killed, raced>>

\* mutant: the loop may end early
CloseEarly(p) ==
  /\ Goes(p, "close", "idle") \/ Goes(p, "receive", "idle")
  /\ mqd' = [mqd EXCEPT ![p] = None]
  /\ UNCHANGED <<mq, queues, prog, left, runs, hist>>

\* mq_close(), and main() returns; the name stays
Close(p) ==
  /\ \/ Goes(p, "close", "idle")
     \/ Goes(p, "receive", "idle") /\ left[p] = 0
  /\ mqd' = [mqd EXCEPT ![p] = None]
  /\ UNCHANGED <<mq, queues, prog, left, runs, hist>>

\* The process is killed: the kernel closes its descriptor and no more.
Kill(p) ==
  /\ pc[p] # "idle"
  /\ pc' = [pc EXCEPT ![p] = "idle"]
  /\ mqd' = [mqd EXCEPT ![p] = None]
  /\ left' = [left EXCEPT ![p] = 0]
  /\ killed' = TRUE
  /\ UNCHANGED <<mq, queues, prog, runs, alone, raced, robbed>>

Step(p) ==
  \/ Unlink(p) \/ SetMaxMessages(p) \/ Open(p) \/ OpenFails(p)
  \/ Send(p) \/ GetAttr(p) \/ Receive(p) \/ Close(p)

Next == \E p \in Procs : Step(p) \/ Kill(p) \/ \E g \in Programs : Start(p, g)

\* A process that can go on does; nobody has to start or kill one.
Fairness == \A p \in Procs : WF_vars(Step(p))

Spec == Init /\ [][Next]_vars /\ Fairness

-----------------------------------------------------------------------------
(* Properties *)

IsOpen(p) == pc[p] \in {"send", "receive", "close"}

\* Every variable keeps its type; no queue holds more than it may, and who is in
\* one of the loops has a queue open.
TypeOK ==
  /\ queues \in Seq([max : Nat, cur : Nat])
  /\ \A i \in DOMAIN queues : queues[i].cur <= queues[i].max
  /\ mq \in 0 .. Len(queues)
  /\ prog \in [Procs -> Programs]
  /\ pc \in [Procs -> {"idle", "unlink", "setmax", "open", "send", "receive", "close"}]
  /\ mqd \in [Procs -> 0 .. Len(queues)]
  /\ left \in [Procs -> Nat]
  /\ \A p \in Procs : mqd[p] # None <=> IsOpen(p)
  /\ runs \in 0 .. MaxRuns
  /\ alone \in [Procs -> BOOLEAN] /\ killed \in BOOLEAN
  /\ raced \subseteq Procs /\ robbed \subseteq Procs

\* Messages stay behind under the name only when a process was killed: also
\* when runs overlap, the last one to count the messages counts them all.
NoBacklog ==
  /\ ~killed
  /\ \A p \in Procs : pc[p] = "idle"
  /\ mq # None
  => queues[mq].cur = 0

\* mqueue_2 and mqueue_3 have a queue with the places they ask for, whatever was
\* there before and whoever runs besides, unless another run opens the name between
\* their mq_unlink() and their mq_open() (mqueue_2:33-44, mqueue_3:102-119); and with
\* nobody besides, nothing is in it but what they sent.
GetsItsAttributes ==
  \A p \in Procs : IsOpen(p) /\ prog[p] \in Fresh =>
    /\ p \notin raced => queues[mqd[p]].max = MaxMsg(prog[p])
    /\ alone[p] /\ pc[p] = "send" => Cur(p) + left[p] = ToSend(prog[p])

\* A run finds the messages it has counted, as long as no other one receives from
\* its queue after that (mqueue_1:46-48, mqueue_3:62-63).
CountedIsThere ==
  \A p \in Procs : pc[p] = "receive" /\ p \notin robbed => left[p] <= Cur(p)

\* A run waits for ever only if another one has received what it had counted, if
\* somebody sends into a queue that another has made in place of its own, or if what
\* killed runs have left fills the queue; a lone mqueue_3, with a queue of its own, not
\* even then (mqueue_1:46-48, :77-79, mqueue_3:102-133).
RunsEnd ==
  \A p \in Procs :
    pc[p] # "idle" ~> \/ pc[p] = "idle"
                      \/ p \in robbed
                      \/ \E q \in raced : pc[q] = "send"
                      \/ killed /\ (~alone[p] \/ prog[p] = "send_rcv")
=============================================================================
