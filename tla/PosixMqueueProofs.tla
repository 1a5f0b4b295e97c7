--------------------------- MODULE PosixMqueueProofs ---------------------------
(***************************************************************************)
(* Proofs about PosixMqueue, for any number of processes and runs and any  *)
(* sizes.  The inductive invariant says who will take the messages that    *)
(* are in a queue (TakenInv), and what a process that no other overlaps    *)
(* finds under the name (AloneInv).                                        *)
(***************************************************************************)
EXTENDS PosixMqueue, SequenceTheorems, TLAPS

Queue == [max : Nat, cur : Nat]

\* p will take what is in queue i: it has still to count it, or it has counted
\* at least that much.
Takes(p, i) ==
  /\ mqd[p] = i
  /\ pc[p] = "send" \/ (pc[p] = "receive" /\ left[p] >= queues[i].cur)

TakenInv ==
  ~killed => \A i \in DOMAIN queues : queues[i].cur = 0 \/ \E p \in Procs : Takes(p, i)

\* p runs one of the programs that make a queue of their own, alone.
AloneFresh(p) ==
  /\ pc[p] \in {"setmax", "open"} => mq = None
  /\ pc[p] = "send" => Cur(p) + left[p] = ToSend(prog[p])

AloneInv ==
  \A p \in Procs : alone[p] /\ pc[p] # "idle" =>
    /\ \A q \in Procs \ {p} : pc[q] = "idle"
    /\ prog[p] \in Fresh => AloneFresh(p)

Inv == TypeOK /\ TakenInv /\ AloneInv

-----------------------------------------------------------------------------
(* Sizes and queues *)

LEMMA Sizes ==
  /\ \A g \in Programs : MaxMsg(g) \in Nat /\ ToSend(g) \in Nat
  BY SizesOK DEF MaxMsg, ToSend, Programs

\* A queue that a process has open is one of those made.
LEMMA OpenQueue ==
  ASSUME TypeOK, NEW p \in Procs, IsOpen(p)
  PROVE  mqd[p] \in 1 .. Len(queues) /\ queues[mqd[p]] \in Queue
<1>1. mqd[p] \in 1 .. Len(queues)
  BY DEF TypeOK, None
<1>2. queues \in Seq(Queue)
  BY DEF TypeOK, Queue
<1>3. QED
  BY <1>1, <1>2

\* What a new content makes of the queues.
LEMMA NewContent ==
  ASSUME queues \in Seq(Queue), NEW i \in 1 .. Len(queues), NEW n \in Nat,
         n <= queues[i].max, \A j \in DOMAIN queues : queues[j].cur <= queues[j].max
  PROVE  LET qs == [queues EXCEPT ![i].cur = n]
         IN  /\ qs \in Seq(Queue) /\ Len(qs) = Len(queues) /\ DOMAIN qs = DOMAIN queues
             /\ qs[i].cur = n /\ qs[i].max = queues[i].max
             /\ \A j \in DOMAIN queues : j # i => qs[j] = queues[j]
             /\ \A j \in DOMAIN qs : qs[j].cur <= qs[j].max
<1> DEFINE q == [queues[i] EXCEPT !.cur = n]
           qs == [queues EXCEPT ![i] = q]
<1>1. queues[i] \in Queue
  OBVIOUS
<1>2. q \in Queue /\ q.cur = n /\ q.max = queues[i].max
  BY <1>1 DEF Queue
<1> HIDE DEF q
<1>3. qs \in Seq(Queue) /\ Len(qs) = Len(queues)
  BY <1>2
<1>4. DOMAIN qs = DOMAIN queues /\ qs[i] = q /\ \A j \in DOMAIN queues : j # i => qs[j] = queues[j]
  BY <1>3
<1>5. \A j \in DOMAIN qs : qs[j].cur <= qs[j].max
  BY <1>2, <1>4
<1>6. QED
  BY <1>2, <1>3, <1>4, <1>5 DEF q

\* What a queue more makes of them.
LEMMA NewQueue ==
  ASSUME queues \in Seq(Queue), NEW q \in Queue, q.cur <= q.max,
         \A j \in DOMAIN queues : queues[j].cur <= queues[j].max
  PROVE  LET qs == Append(queues, q)
         IN  /\ qs \in Seq(Queue) /\ Len(qs) = Len(queues) + 1 /\ qs[Len(qs)] = q
             /\ \A j \in DOMAIN queues : j \in DOMAIN qs /\ qs[j] = queues[j]
             /\ DOMAIN qs = DOMAIN queues \cup {Len(qs)}
             /\ \A j \in DOMAIN qs : qs[j].cur <= qs[j].max
<1> DEFINE qs == Append(queues, q)
<1>1. qs \in Seq(Queue) /\ Len(qs) = Len(queues) + 1 /\ Len(queues) \in Nat
  BY AppendProperties
<1>2. qs[Len(qs)] = q /\ \A j \in 1 .. Len(queues) : qs[j] = queues[j]
  BY AppendProperties
<1> HIDE DEF qs
<1>3. DOMAIN queues = 1 .. Len(queues) /\ DOMAIN qs = 1 .. Len(qs)
  BY <1>1
<1>4. DOMAIN qs = DOMAIN queues \cup {Len(qs)}
  BY <1>1, <1>3
<1>5. \A j \in DOMAIN qs : qs[j].cur <= qs[j].max
  BY <1>2, <1>3, <1>4
<1>6. QED
  BY <1>1, <1>2, <1>3, <1>4, <1>5 DEF qs

-----------------------------------------------------------------------------
LEMMA InitInv == Init => Inv
<1> SUFFICES ASSUME Init PROVE Inv
  OBVIOUS
<1> USE DEF Init
<1>1. queues = <<>> /\ queues \in Seq([max : Nat, cur : Nat]) /\ Len(queues) = 0
      /\ DOMAIN queues = {}
  OBVIOUS
<1>2. TypeOK
  <2>1. /\ mq \in 0 .. Len(queues) /\ mqd \in [Procs -> 0 .. Len(queues)]
        /\ \A i \in DOMAIN queues : queues[i].cur <= queues[i].max
    BY <1>1 DEF None
  <2>2. runs \in 0 .. MaxRuns
    BY SizesOK
  <2>3. \A p \in Procs : mqd[p] # None <=> IsOpen(p)
    BY DEF IsOpen
  <2>4. QED
    BY <1>1, <2>1, <2>2, <2>3 DEF TypeOK, Programs
<1>3. TakenInv /\ AloneInv
  BY <1>1 DEF TakenInv, AloneInv
<1>4. QED
  BY <1>2, <1>3 DEF Inv

-----------------------------------------------------------------------------
(* Steps that leave the queues alone *)

\* Who will take the messages still will.
LEMMA TakenKept ==
  ASSUME TakenInv, UNCHANGED <<queues, killed>>,
         \A q \in Procs : \A i \in DOMAIN queues : Takes(q, i) => Takes(q, i)'
  PROVE  TakenInv'
  BY DEF TakenInv

\* While p moves, no other process is alone.
LEMMA AloneKept ==
  ASSUME Inv, NEW p \in Procs, pc[p] # "idle", UNCHANGED <<alone, prog>>,
         \A q \in Procs \ {p} : pc'[q] = pc[q],
         alone[p] /\ pc'[p] # "idle" /\ prog[p] \in Fresh => AloneFresh(p)'
  PROVE  AloneInv'
<1> SUFFICES ASSUME NEW q \in Procs, alone[q], pc'[q] # "idle"
             PROVE  /\ \A r \in Procs \ {q} : pc'[r] = "idle"
                    /\ prog[q] \in Fresh => AloneFresh(q)'
  BY DEF AloneInv
<1>1. q = p
  BY DEF Inv, AloneInv
<1>2. QED
  BY <1>1 DEF Inv, AloneInv

LEMMA StartInv ==
  ASSUME Inv, NEW p \in Procs, NEW g \in Programs, Start(p, g) PROVE Inv'
<1> DEFINE others == {q \in Procs \ {p} : pc[q] # "idle"}
<1>0. /\ pc[p] = "idle" /\ pc' = [pc EXCEPT ![p] = FirstStep(g)]
      /\ prog' = [prog EXCEPT ![p] = g] /\ runs < MaxRuns /\ runs' = runs + 1
      /\ alone' = [q \in Procs |-> IF q = p THEN others = {} ELSE alone[q] /\ q \notin others]
      /\ raced' = raced \ {p} /\ robbed' = robbed \ {p}
      /\ UNCHANGED <<mq, queues, mqd, left, killed>>
  BY DEF Start, Goes
<1>a. FirstStep(g) \in {"unlink", "open"} /\ (g \in Fresh => FirstStep(g) = "unlink")
  BY DEF FirstStep, Fresh
<1>1. TypeOK'
  <2>1. pc' \in [Procs -> {"idle", "unlink", "setmax", "open", "send", "receive", "close"}]
    BY <1>0, <1>a DEF Inv, TypeOK
  <2>2. \A q \in Procs : IsOpen(q)' <=> IsOpen(q)
    BY <1>0, <1>a DEF Inv, TypeOK, IsOpen
  <2>3. alone' \in [Procs -> BOOLEAN]
    BY <1>0, Zenon DEF Inv, TypeOK
  <2>4. runs' \in 0 .. MaxRuns
    BY <1>0, SizesOK DEF Inv, TypeOK
  <2>5. prog' \in [Procs -> Programs]
    BY <1>0 DEF Inv, TypeOK
  <2>6. QED
    BY <1>0, <2>1, <2>2, <2>3, <2>4, <2>5 DEF Inv, TypeOK
<1>2. TakenInv'
  <2>1. \A q \in Procs : \A i \in DOMAIN queues : Takes(q, i) => Takes(q, i)'
    BY <1>0 DEF Inv, TypeOK, Takes
  <2>2. QED
    BY <1>0, <2>1, TakenKept DEF Inv
<1>3. AloneInv'
  <2> SUFFICES ASSUME NEW q \in Procs, alone'[q], pc'[q] # "idle"
               PROVE  /\ \A r \in Procs \ {q} : pc'[r] = "idle"
                      /\ prog'[q] \in Fresh => AloneFresh(q)'
    BY DEF AloneInv
  <2>1. q = p
    BY <1>0 DEF Inv, TypeOK
  <2>2. \A r \in Procs \ {p} : pc'[r] = "idle"
    BY <1>0, <2>1 DEF Inv, TypeOK
  <2>3. prog'[p] \in Fresh => pc'[p] = "unlink"
    BY <1>0, <1>a DEF Inv, TypeOK
  <2>4. QED
    BY <2>1, <2>2, <2>3 DEF AloneFresh, IsOpen
<1>4. QED
  BY <1>1, <1>2, <1>3 DEF Inv

LEMMA UnlinkInv == ASSUME Inv, NEW p \in Procs, Unlink(p) PROVE Inv'
<1> DEFINE to == IF prog[p] = "20msgs" THEN "setmax" ELSE "open"
<1>0. /\ pc[p] = "unlink" /\ pc' = [pc EXCEPT ![p] = to] /\ mq' = None
      /\ UNCHANGED <<queues, prog, mqd, left, runs, alone, killed, raced, robbed>>
  BY DEF Unlink, Goes, hist
<1>a. to \in {"setmax", "open"}
  OBVIOUS
<1> HIDE DEF to
<1>1. TypeOK'
  <2>1. \A q \in Procs : IsOpen(q)' <=> IsOpen(q)
    BY <1>0, <1>a DEF Inv, TypeOK, IsOpen
  <2>2. mq' \in 0 .. Len(queues)
    BY <1>0 DEF Inv, TypeOK, None
  <2>3. QED
    BY <1>0, <1>a, <2>1, <2>2 DEF Inv, TypeOK
<1>2. TakenInv'
  <2>1. \A q \in Procs : \A i \in DOMAIN queues : Takes(q, i) => Takes(q, i)'
    BY <1>0 DEF Inv, TypeOK, Takes
  <2>2. QED
    BY <1>0, <2>1, TakenKept DEF Inv
<1>3. AloneInv'
  <2>1. AloneFresh(p)'
    BY <1>0, <1>a DEF Inv, TypeOK, AloneFresh, IsOpen
  <2>2. \A q \in Procs \ {p} : pc'[q] = pc[q]
    BY <1>0 DEF Inv, TypeOK
  <2>3. QED
    BY <1>0, <2>1, <2>2, AloneKept
<1>4. QED
  BY <1>1, <1>2, <1>3 DEF Inv

LEMMA SetMaxMessagesInv == ASSUME Inv, NEW p \in Procs, SetMaxMessages(p) PROVE Inv'
<1>0. /\ pc[p] = "setmax"
      /\ pc' = [pc EXCEPT ![p] = "open"] \/ pc' = [pc EXCEPT ![p] = "idle"]
      /\ UNCHANGED <<mq, queues, prog, mqd, left, runs, alone, killed, raced, robbed>>
  BY DEF SetMaxMessages, Goes, hist
<1>1. TypeOK'
  <2>1. \A q \in Procs : IsOpen(q)' <=> IsOpen(q)
    BY <1>0 DEF Inv, TypeOK, IsOpen
  <2>2. QED
    BY <1>0, <2>1 DEF Inv, TypeOK
<1>2. TakenInv'
  <2>1. \A q \in Procs : \A i \in DOMAIN queues : Takes(q, i) => Takes(q, i)'
    BY <1>0 DEF Inv, TypeOK, Takes
  <2>2. QED
    BY <1>0, <2>1, TakenKept DEF Inv
<1>3. AloneInv'
  <2>1. alone[p] /\ prog[p] \in Fresh => AloneFresh(p)'
    BY <1>0 DEF Inv, TypeOK, AloneInv, AloneFresh, IsOpen
  <2>2. \A q \in Procs \ {p} : pc'[q] = pc[q]
    BY <1>0 DEF Inv, TypeOK
  <2>3. QED
    BY <1>0, <2>1, <2>2, AloneKept
<1>4. QED
  BY <1>1, <1>2, <1>3 DEF Inv

LEMMA OpenFailsInv == ASSUME Inv, NEW p \in Procs, OpenFails(p) PROVE Inv'
<1>0. /\ pc[p] = "open" /\ pc' = [pc EXCEPT ![p] = "idle"]
      /\ UNCHANGED <<mq, queues, prog, mqd, left, runs, alone, killed, raced, robbed>>
  BY DEF OpenFails, Goes, hist
<1>1. TypeOK'
  <2>1. \A q \in Procs : IsOpen(q)' <=> IsOpen(q)
    BY <1>0 DEF Inv, TypeOK, IsOpen
  <2>2. QED
    BY <1>0, <2>1 DEF Inv, TypeOK
<1>2. TakenInv'
  <2>1. \A q \in Procs : \A i \in DOMAIN queues : Takes(q, i) => Takes(q, i)'
    BY <1>0 DEF Inv, TypeOK, Takes
  <2>2. QED
    BY <1>0, <2>1, TakenKept DEF Inv
<1>3. AloneInv'
  <2>1. pc'[p] = "idle" /\ \A q \in Procs \ {p} : pc'[q] = pc[q]
    BY <1>0 DEF Inv, TypeOK
  <2>2. QED
    BY <1>0, <2>1, AloneKept
<1>4. QED
  BY <1>1, <1>2, <1>3 DEF Inv

LEMMA KillInv == ASSUME Inv, NEW p \in Procs, Kill(p) PROVE Inv'
<1>0. /\ pc[p] # "idle" /\ pc' = [pc EXCEPT ![p] = "idle"]
      /\ mqd' = [mqd EXCEPT ![p] = None] /\ left' = [left EXCEPT ![p] = 0] /\ killed'
      /\ UNCHANGED <<mq, queues, prog, runs, alone, raced, robbed>>
  BY DEF Kill
<1>1. TypeOK'
  <2>1. \A q \in Procs : q # p => (IsOpen(q)' <=> IsOpen(q))
    BY <1>0 DEF Inv, TypeOK, IsOpen
  <2>2. ~IsOpen(p)' /\ mqd'[p] = None
    BY <1>0 DEF Inv, TypeOK, IsOpen
  <2>3. mqd' \in [Procs -> 0 .. Len(queues)] /\ left' \in [Procs -> Nat] /\ killed' \in BOOLEAN
    BY <1>0 DEF Inv, TypeOK, None, Kill
  <2>4. QED
    BY <1>0, <2>1, <2>2, <2>3 DEF Inv, TypeOK
<1>2. TakenInv'
  BY <1>0 DEF TakenInv
<1>3. AloneInv'
  <2>1. pc'[p] = "idle" /\ \A q \in Procs \ {p} : pc'[q] = pc[q]
    BY <1>0 DEF Inv, TypeOK
  <2>2. QED
    BY <1>0, <2>1, AloneKept
<1>4. QED
  BY <1>1, <1>2, <1>3 DEF Inv

LEMMA GetAttrInv == ASSUME Inv, NEW p \in Procs, GetAttr(p) PROVE Inv'
<1>0. /\ pc[p] = "send" /\ pc' = [pc EXCEPT ![p] = "receive"]
      /\ left[p] = 0 /\ left' = [left EXCEPT ![p] = Cur(p)]
      /\ UNCHANGED <<mq, queues, prog, mqd, runs, alone, killed, raced, robbed>>
  BY DEF GetAttr, Goes, hist
<1>a. mqd[p] \in 1 .. Len(queues) /\ queues[mqd[p]] \in Queue /\ Cur(p) \in Nat
  BY <1>0, OpenQueue DEF Inv, IsOpen, Queue, Cur
<1>1. TypeOK'
  <2>1. \A q \in Procs : IsOpen(q)' <=> IsOpen(q)
    BY <1>0 DEF Inv, TypeOK, IsOpen
  <2>2. QED
    BY <1>0, <1>a, <2>1 DEF Inv, TypeOK
<1>2. TakenInv'
  <2>1. ASSUME NEW q \in Procs, NEW i \in DOMAIN queues, Takes(q, i) PROVE Takes(q, i)'
    <3>1. CASE q = p
      <4>1. i = mqd[p] /\ queues[i].cur = Cur(p)
        BY <2>1, <3>1 DEF Takes, Cur
      <4>2. pc'[p] = "receive" /\ left'[p] = Cur(p)
        BY <1>0 DEF Inv, TypeOK
      <4>3. QED
        BY <1>0, <1>a, <3>1, <4>1, <4>2 DEF Takes
    <3>2. CASE q # p
      BY <1>0, <2>1, <3>2 DEF Inv, TypeOK, Takes
    <3>3. QED
      BY <3>1, <3>2
  <2>2. QED
    BY <1>0, <2>1, TakenKept DEF Inv
<1>3. AloneInv'
  <2>1. alone[p] /\ prog[p] \in Fresh => AloneFresh(p)'
    BY <1>0 DEF Inv, TypeOK, AloneInv, AloneFresh, IsOpen
  <2>2. \A q \in Procs \ {p} : pc'[q] = pc[q]
    BY <1>0 DEF Inv, TypeOK
  <2>3. QED
    BY <1>0, <2>1, <2>2, AloneKept
<1>4. QED
  BY <1>1, <1>2, <1>3 DEF Inv

LEMMA CloseInv == ASSUME Inv, NEW p \in Procs, Close(p) PROVE Inv'
<1>0. /\ pc[p] = "close" \/ (pc[p] = "receive" /\ left[p] = 0)
      /\ pc' = [pc EXCEPT ![p] = "idle"] /\ mqd' = [mqd EXCEPT ![p] = None]
      /\ UNCHANGED <<mq, queues, prog, left, runs, alone, killed, raced, robbed>>
  BY DEF Close, Goes, hist
<1>1. TypeOK'
  <2>1. \A q \in Procs : q # p => (IsOpen(q)' <=> IsOpen(q))
    BY <1>0 DEF Inv, TypeOK, IsOpen
  <2>2. ~IsOpen(p)' /\ mqd'[p] = None
    BY <1>0 DEF Inv, TypeOK, IsOpen
  <2>3. mqd' \in [Procs -> 0 .. Len(queues)]
    BY <1>0 DEF Inv, TypeOK, None
  <2>4. QED
    BY <1>0, <2>1, <2>2, <2>3 DEF Inv, TypeOK
<1>2. TakenInv'
  <2> SUFFICES ASSUME ~killed, NEW i \in DOMAIN queues
               PROVE  queues[i].cur = 0 \/ \E q \in Procs : Takes(q, i)'
    BY <1>0 DEF TakenInv
  <2>1. CASE queues[i].cur = 0
    BY <2>1
  <2>2. CASE \E q \in Procs \ {p} : Takes(q, i)
    BY <1>0, <2>2 DEF Inv, TypeOK, Takes
  <2>3. CASE Takes(p, i)
    <3>1. queues \in Seq(Queue)
      BY DEF Inv, TypeOK, Queue
    <3>2. queues[i] \in Queue
      BY <3>1
    <3>3. queues[i].cur \in Nat /\ left[p] = 0 /\ left[p] >= queues[i].cur
      BY <1>0, <2>3, <3>2 DEF Takes, Queue
    <3>4. QED
      BY <3>3
  <2>4. QED
    BY <2>1, <2>2, <2>3 DEF Inv, TakenInv
<1>3. AloneInv'
  <2>1. pc'[p] = "idle" /\ \A q \in Procs \ {p} : pc'[q] = pc[q]
    BY <1>0 DEF Inv, TypeOK
  <2>2. QED
    BY <1>0, <2>1, AloneKept
<1>4. QED
  BY <1>1, <1>2, <1>3 DEF Inv
-----------------------------------------------------------------------------
(* Steps that change a queue, or make one *)

\* What a step of p does when it puts n messages in the place of those in its queue
LEMMA Fills ==
  ASSUME Inv, NEW p \in Procs, IsOpen(p), NEW n \in Nat, n <= queues[mqd[p]].max,
         queues' = [queues EXCEPT ![mqd[p]].cur = n],
         left' = [left EXCEPT ![p] = @ - 1], left[p] > 0,
         UNCHANGED <<mq, prog, pc, mqd, runs, alone, killed, raced>>, robbed' \subseteq Procs
  PROVE  /\ TypeOK'
         /\ queues'[mqd[p]].cur = n /\ queues'[mqd[p]].max = queues[mqd[p]].max
         /\ \A i \in DOMAIN queues : i # mqd[p] => queues'[i] = queues[i]
         /\ DOMAIN queues' = DOMAIN queues
<1>1. mqd[p] \in 1 .. Len(queues) /\ queues \in Seq(Queue)
  BY OpenQueue DEF Inv, TypeOK, Queue
<1>2. /\ queues' \in Seq(Queue) /\ Len(queues') = Len(queues)
      /\ DOMAIN queues' = DOMAIN queues
      /\ queues'[mqd[p]].cur = n /\ queues'[mqd[p]].max = queues[mqd[p]].max
      /\ \A i \in DOMAIN queues : i # mqd[p] => queues'[i] = queues[i]
      /\ \A i \in DOMAIN queues' : queues'[i].cur <= queues'[i].max
  <2>1. \A i \in DOMAIN queues : queues[i].cur <= queues[i].max
    BY DEF Inv, TypeOK
  <2>2. QED
    BY <1>1, <2>1, NewContent
<1>3. left' \in [Procs -> Nat]
  BY DEF Inv, TypeOK
<1>4. \A q \in Procs : IsOpen(q)' <=> IsOpen(q)
  BY DEF IsOpen
<1>5. TypeOK'
  BY <1>2, <1>3, <1>4 DEF Inv, TypeOK, Queue
<1>6. QED
  BY <1>2, <1>5

LEMMA SendInv == ASSUME Inv, NEW p \in Procs, Send(p) PROVE Inv'
<1>a. mqd[p] \in 1 .. Len(queues) /\ queues[mqd[p]] \in Queue /\ IsOpen(p)
  BY OpenQueue DEF Inv, IsOpen, Send, Goes
<1>b. Cur(p) \in Nat /\ Cur(p) + 1 \in Nat /\ Cur(p) + 1 <= queues[mqd[p]].max
  BY <1>a DEF Queue, Cur, Send
<1>0. /\ pc[p] = "send" /\ UNCHANGED <<mq, prog, pc, mqd, runs, alone, killed, raced, robbed>>
      /\ left[p] > 0 /\ left' = [left EXCEPT ![p] = @ - 1]
      /\ queues' = [queues EXCEPT ![mqd[p]].cur = Cur(p) + 1]
  BY DEF Send, Goes, hist, Cur, Inv, TypeOK
<1>c. robbed' \subseteq Procs
  BY <1>0 DEF Inv, TypeOK
<1>1. /\ TypeOK' /\ queues'[mqd[p]].cur = Cur(p) + 1
      /\ queues'[mqd[p]].max = queues[mqd[p]].max
      /\ \A i \in DOMAIN queues : i # mqd[p] => queues'[i] = queues[i]
      /\ DOMAIN queues' = DOMAIN queues
  BY <1>0, <1>a, <1>b, <1>c, Fills
<1>2. TakenInv'
  <2> SUFFICES ASSUME ~killed, NEW i \in DOMAIN queues
               PROVE  queues'[i].cur = 0 \/ \E q \in Procs : Takes(q, i)'
    BY <1>0, <1>1 DEF TakenInv
  <2>1. CASE i = mqd[p]
    BY <1>0, <2>1 DEF Takes
  <2>2. CASE i # mqd[p]
    <3>1. queues'[i] = queues[i] /\ \A q \in Procs : Takes(q, i) => q # p
      BY <1>1, <2>2 DEF Takes
    <3>2. \A q \in Procs : Takes(q, i) => Takes(q, i)'
      BY <1>0, <3>1 DEF Inv, TypeOK, Takes
    <3>3. QED
      BY <3>1, <3>2 DEF Inv, TakenInv
  <2>3. QED
    BY <2>1, <2>2
<1>3. AloneInv'
  <2>1. ASSUME alone[p], prog[p] \in Fresh PROVE AloneFresh(p)'
    <3>1. AloneFresh(p)
      BY <1>0, <2>1 DEF Inv, AloneInv
    <3>2. Cur(p)' = Cur(p) + 1 /\ left'[p] = left[p] - 1 /\ left[p] \in Nat
      BY <1>0, <1>1 DEF Inv, TypeOK, Cur
    <3>3. Cur(p)' + left'[p] = Cur(p) + left[p]
      BY <1>b, <3>2
    <3>4. QED
      BY <1>0, <1>1, <3>1, <3>3 DEF AloneFresh, IsOpen
  <2>2. QED
    BY <1>0, <2>1, AloneKept
<1>4. QED
  BY <1>1, <1>2, <1>3 DEF Inv

LEMMA ReceiveInv == ASSUME Inv, NEW p \in Procs, Receive(p) PROVE Inv'
<1>a. mqd[p] \in 1 .. Len(queues) /\ queues[mqd[p]] \in Queue /\ IsOpen(p)
  BY OpenQueue DEF Inv, IsOpen, Receive, Goes
<1>b. Cur(p) \in Nat /\ Cur(p) - 1 \in Nat /\ Cur(p) - 1 <= queues[mqd[p]].max
  <2>1. Cur(p) \in Nat /\ Cur(p) > 0
    BY <1>a DEF Queue, Cur, Receive
  <2>2. Cur(p) <= queues[mqd[p]].max /\ queues[mqd[p]].max \in Nat
    BY <1>a DEF Inv, TypeOK, Cur, Queue
  <2>3. QED
    BY <2>1, <2>2
<1>0. /\ pc[p] = "receive" /\ UNCHANGED <<mq, prog, pc, mqd, runs, alone, killed, raced>>
      /\ left[p] > 0 /\ left' = [left EXCEPT ![p] = @ - 1]
      /\ queues' = [queues EXCEPT ![mqd[p]].cur = Cur(p) - 1]
  BY DEF Receive, Goes, hist, Cur, Inv, TypeOK
<1>d. robbed' \subseteq Procs
  BY DEF Receive, Inv, TypeOK
<1>1. /\ TypeOK' /\ queues'[mqd[p]].cur = Cur(p) - 1
      /\ queues'[mqd[p]].max = queues[mqd[p]].max
      /\ \A i \in DOMAIN queues : i # mqd[p] => queues'[i] = queues[i]
      /\ DOMAIN queues' = DOMAIN queues
  BY <1>0, <1>a, <1>b, <1>d, Fills
<1>c. left \in [Procs -> Nat]
  BY DEF Inv, TypeOK
<1>2. TakenInv'
  <2> SUFFICES ASSUME ~killed, NEW i \in DOMAIN queues
               PROVE  queues'[i].cur = 0 \/ \E q \in Procs : Takes(q, i)'
    BY <1>0, <1>1 DEF TakenInv
  <2>1. CASE i = mqd[p]
    <3>1. queues[i].cur = Cur(p) /\ Cur(p) # 0
      BY <1>b, <2>1 DEF Cur
    <3>2. PICK q \in Procs : Takes(q, i)
      BY <3>1 DEF Inv, TakenInv
    <3>3. queues'[i].cur = Cur(p) - 1
      BY <1>1, <2>1
    <3>4. CASE q = p
      <4>1. left[p] >= Cur(p) /\ left'[p] = left[p] - 1
        BY <1>0, <1>c, <3>1, <3>2, <3>4 DEF Takes
      <4>2. left'[p] >= Cur(p) - 1
        BY <1>b, <1>c, <4>1
      <4>3. QED
        BY <1>0, <2>1, <3>3, <4>2 DEF Takes
    <3>5. CASE q # p
      <4>1. left'[q] = left[q]
        BY <1>0, <1>c, <3>5
      <4>2. left[q] >= Cur(p) => left[q] >= Cur(p) - 1
        BY <1>b, <1>c
      <4>3. QED
        BY <1>0, <3>1, <3>2, <3>3, <4>1, <4>2 DEF Takes
    <3>6. QED
      BY <3>4, <3>5
  <2>2. CASE i # mqd[p]
    <3>1. queues'[i] = queues[i] /\ \A q \in Procs : Takes(q, i) => q # p
      BY <1>1, <2>2 DEF Takes
    <3>2. \A q \in Procs : Takes(q, i) => Takes(q, i)'
      BY <1>0, <3>1 DEF Inv, TypeOK, Takes
    <3>3. QED
      BY <3>1, <3>2 DEF Inv, TakenInv
  <2>3. QED
    BY <2>1, <2>2
<1>3. AloneInv'
  <2>1. ASSUME alone[p], prog[p] \in Fresh PROVE AloneFresh(p)'
    BY <1>0, <1>1, <2>1 DEF Inv, AloneInv, AloneFresh, IsOpen
  <2>2. QED
    BY <1>0, <2>1, AloneKept
<1>4. QED
  BY <1>1, <1>2, <1>3 DEF Inv

LEMMA OpenInv == ASSUME Inv, NEW p \in Procs, Open(p) PROVE Inv'
<1> DEFINE new == [max |-> MaxMsg(prog[p]), cur |-> 0]
<1>a. prog[p] \in Programs /\ MaxMsg(prog[p]) \in Nat /\ ToSend(prog[p]) \in Nat
  BY Sizes DEF Inv, TypeOK
<1>b. new \in Queue /\ new.cur = 0 /\ new.max = MaxMsg(prog[p]) /\ new.cur <= new.max
  BY <1>a DEF Queue
<1>c. AfterOpen(prog[p]) \in {"send", "close"}
  BY DEF AfterOpen
<1>0. /\ pc[p] = "open" /\ pc' = [pc EXCEPT ![p] = AfterOpen(prog[p])]
      /\ mqd' = [mqd EXCEPT ![p] = mq'] /\ left' = [left EXCEPT ![p] = ToSend(prog[p])]
      /\ UNCHANGED <<prog, runs, alone, killed, robbed>> /\ raced' \subseteq Procs
      /\ \/ mq = None /\ queues' = Append(queues, new) /\ mq' = Len(queues')
         \/ mq # None /\ UNCHANGED <<mq, queues>>
  BY DEF Open, Goes, hist, Inv, TypeOK
<1> HIDE DEF new
<1>1. /\ queues' \in Seq(Queue) /\ mq' \in 1 .. Len(queues') /\ Len(queues) <= Len(queues')
      /\ \A i \in DOMAIN queues' : queues'[i].cur <= queues'[i].max
      /\ \A i \in DOMAIN queues : i \in DOMAIN queues' /\ queues'[i] = queues[i]
      /\ \A i \in DOMAIN queues' : i \in DOMAIN queues \/ queues'[i].cur = 0
      /\ mq = None => queues'[mq'] = new
  <2>1. /\ queues \in Seq(Queue) /\ Len(queues) \in Nat /\ mq \in 0 .. Len(queues)
        /\ \A i \in DOMAIN queues : queues[i].cur <= queues[i].max
    BY DEF Inv, TypeOK, Queue
  <2>2. CASE mq = None /\ queues' = Append(queues, new) /\ mq' = Len(queues')
    <3>1. /\ queues' \in Seq(Queue) /\ Len(queues') = Len(queues) + 1
          /\ queues'[Len(queues')] = new
          /\ \A j \in DOMAIN queues : j \in DOMAIN queues' /\ queues'[j] = queues[j]
          /\ DOMAIN queues' = DOMAIN queues \cup {Len(queues')}
          /\ \A j \in DOMAIN queues' : queues'[j].cur <= queues'[j].max
      BY <1>b, <2>1, <2>2, NewQueue
    <3>2. QED
      BY <1>b, <2>1, <2>2, <3>1
  <2>3. CASE mq # None /\ UNCHANGED <<mq, queues>>
    BY <2>1, <2>3 DEF None
  <2>4. QED
    BY <1>0, <2>2, <2>3
<1>2. TypeOK'
  <2>1. \A q \in Procs : q # p => (IsOpen(q)' <=> IsOpen(q))
    BY <1>0 DEF Inv, TypeOK, IsOpen
  <2>2. IsOpen(p)' /\ mqd'[p] = mq' /\ mq' # None
    BY <1>0, <1>1, <1>c DEF Inv, TypeOK, IsOpen, None
  <2>3. mqd' \in [Procs -> 0 .. Len(queues')]
    BY <1>0, <1>1 DEF Inv, TypeOK
  <2>4. left' \in [Procs -> Nat]
    BY <1>0, <1>a DEF Inv, TypeOK
  <2>5. pc' \in [Procs -> {"idle", "unlink", "setmax", "open", "send", "receive", "close"}]
    BY <1>0, <1>c DEF Inv, TypeOK
  <2>6. \A q \in Procs : mqd'[q] # None <=> IsOpen(q)'
    BY <1>0, <2>1, <2>2 DEF Inv, TypeOK
  <2>7. mq' \in 0 .. Len(queues') /\ queues' \in Seq([max : Nat, cur : Nat])
    BY <1>1 DEF Queue
  <2>8. QED
    BY <1>0, <1>1, <2>3, <2>4, <2>5, <2>6, <2>7 DEF Inv, TypeOK
<1>3. TakenInv'
  <2> SUFFICES ASSUME ~killed, NEW i \in DOMAIN queues, queues'[i].cur # 0
               PROVE  \E q \in Procs : Takes(q, i)'
    BY <1>0, <1>1 DEF TakenInv
  <2>1. PICK q \in Procs : Takes(q, i)
    BY <1>1 DEF Inv, TakenInv
  <2>2. q # p
    BY <1>0, <2>1 DEF Takes
  <2>3. QED
    BY <1>0, <1>1, <2>1, <2>2 DEF Inv, TypeOK, Takes
<1>4. AloneInv'
  <2>1. ASSUME alone[p], prog[p] \in Fresh PROVE AloneFresh(p)'
    <3>1. mq = None
      BY <1>0, <2>1 DEF Inv, AloneInv, AloneFresh
    <3>2. queues'[mqd'[p]] = new /\ left'[p] = ToSend(prog[p])
      BY <1>0, <1>1, <3>1 DEF Inv, TypeOK
    <3>3. Cur(p)' + left'[p] = ToSend(prog[p])
      BY <1>a, <1>b, <3>2 DEF Cur
    <3>4. pc'[p] \notin {"setmax", "open"}
      BY <1>0, <1>c DEF Inv, TypeOK
    <3>5. QED
      BY <1>0, <1>b, <3>2, <3>3, <3>4 DEF AloneFresh
  <2>2. \A q \in Procs \ {p} : pc'[q] = pc[q]
    BY <1>0 DEF Inv, TypeOK
  <2>3. QED
    BY <1>0, <2>1, <2>2, AloneKept
<1>5. QED
  BY <1>2, <1>3, <1>4 DEF Inv

-----------------------------------------------------------------------------
LEMMA StutterInv == ASSUME Inv, UNCHANGED vars PROVE Inv'
<1> USE DEF vars, hist
<1>1. TypeOK'
  BY DEF Inv, TypeOK, IsOpen
<1>2. TakenInv' /\ AloneInv'
  BY DEF Inv, TakenInv, Takes, AloneInv, AloneFresh, IsOpen, Cur
<1>3. QED
  BY <1>1, <1>2 DEF Inv

LEMMA Invariant == Spec => []Inv
<1>1. Inv /\ [Next]_vars => Inv'
  BY StartInv, UnlinkInv, SetMaxMessagesInv, OpenInv, OpenFailsInv, SendInv, GetAttrInv,
     ReceiveInv, CloseInv, KillInv, StutterInv DEF Next, Step
<1>2. QED
  BY InitInv, <1>1, PTL DEF Spec

-----------------------------------------------------------------------------
(* Whose queue it is, and who receives from it, when runs overlap *)

OwnInv ==
  \A p \in Procs : prog[p] \in Fresh /\ p \notin raced =>
    /\ pc[p] \in {"setmax", "open"} => mq = None
    /\ IsOpen(p) => queues[mqd[p]].max = MaxMsg(prog[p])

QueueInv == OwnInv /\ CountedIsThere

\* A step that changes no queue and gives nobody the name
LEMMA QuietStep ==
  ASSUME Inv, QueueInv, NEW p \in Procs, UNCHANGED queues, mq' \in {mq, None},
         \A q \in Procs \ {p} : UNCHANGED <<prog[q], pc[q], mqd[q], left[q]>>
                                /\ (q \in raced' <=> q \in raced)
                                /\ (q \in robbed' <=> q \in robbed),
         \/ pc'[p] = "unlink" \/ pc'[p] = "idle"
         \/ UNCHANGED prog /\ pc'[p] = "receive" /\ left'[p] = Cur(p) /\ UNCHANGED <<mqd, raced>>
            /\ pc[p] = "send"
         \/ UNCHANGED <<prog, raced>> /\ pc'[p] \in {"setmax", "open"}
            /\ (mq' = None \/ pc[p] \in {"setmax", "open"})
         \/ prog'[p] \notin Fresh /\ pc'[p] = "open"
  PROVE  QueueInv'
<1>1. ASSUME NEW q \in Procs, prog'[q] \in Fresh, q \notin raced'
      PROVE  /\ pc'[q] \in {"setmax", "open"} => mq' = None
             /\ IsOpen(q)' => queues'[mqd'[q]].max = MaxMsg(prog'[q])
  <2>1. CASE q = p
    BY <1>1, <2>1 DEF QueueInv, OwnInv, IsOpen, None
  <2>2. CASE q # p
    BY <1>1, <2>2 DEF QueueInv, OwnInv, IsOpen, None
  <2> QED
    BY <2>1, <2>2
<1>2. ASSUME NEW q \in Procs, pc'[q] = "receive", q \notin robbed'
      PROVE  left'[q] <= Cur(q)'
  <2>1. CASE q = p
    <3>1. left'[p] = Cur(p) /\ mqd'[p] = mqd[p] /\ pc[p] = "send"
      BY <1>2, <2>1
    <3>2. Cur(p) \in Nat
      BY <3>1, OpenQueue DEF Inv, IsOpen, Queue, Cur
    <3> QED
      BY <2>1, <3>1, <3>2 DEF Cur
  <2>2. CASE q # p
    BY <1>2, <2>2 DEF QueueInv, CountedIsThere, Cur
  <2> QED
    BY <2>1, <2>2
<1> QED
  BY <1>1, <1>2 DEF QueueInv, OwnInv, CountedIsThere

LEMMA QueueQuiet ==
  ASSUME Inv, QueueInv, NEW p \in Procs,
         \/ \E g \in Programs : Start(p, g)
         \/ Unlink(p) \/ SetMaxMessages(p) \/ OpenFails(p) \/ GetAttr(p) \/ Close(p) \/ Kill(p)
  PROVE  QueueInv'
<1>1. ASSUME NEW g \in Programs, Start(p, g) PROVE QueueInv'
  <2>1. prog'[p] = g /\ pc'[p] = FirstStep(g)
    BY <1>1 DEF Start, Goes, Inv, TypeOK
  <2>2. FirstStep(g) = "unlink" \/ (g \notin Fresh /\ FirstStep(g) = "open")
    BY DEF FirstStep
  <2>3. /\ UNCHANGED <<mq, queues, mqd, left>>
        /\ \A q \in Procs \ {p} : UNCHANGED <<prog[q], pc[q]>>
        /\ raced' = raced \ {p} /\ robbed' = robbed \ {p}
    BY <1>1 DEF Start, Goes, Inv, TypeOK
  <2> QED
    BY <2>1, <2>2, <2>3, QuietStep
<1> USE QuietStep DEF Inv, TypeOK, Goes, hist
<1>2. CASE Unlink(p)
  BY <1>2 DEF Unlink
<1>3. CASE SetMaxMessages(p)
  BY <1>3 DEF SetMaxMessages
<1>4. CASE OpenFails(p)
  BY <1>4 DEF OpenFails
<1>5. CASE GetAttr(p)
  BY <1>5 DEF GetAttr
<1>6. CASE Close(p)
  BY <1>6 DEF Close
<1>7. CASE Kill(p)
  BY <1>7 DEF Kill
<1> QED
  BY <1>1, <1>2, <1>3, <1>4, <1>5, <1>6, <1>7

\* A message more, or one less, in the queue of p
LEMMA QueueMoves ==
  ASSUME Inv, QueueInv, NEW p \in Procs, Send(p) \/ Receive(p) PROVE QueueInv'
<1>1. /\ IsOpen(p) /\ UNCHANGED <<mq, prog, pc, mqd, raced>>
      /\ left[p] > 0 /\ left' = [left EXCEPT ![p] = @ - 1]
  BY DEF Send, Receive, Goes, hist, IsOpen, Inv, TypeOK
<1>2. /\ queues \in Seq(Queue)
      /\ \A q \in Procs : IsOpen(q) => mqd[q] \in DOMAIN queues /\ queues[mqd[q]] \in Queue
  <2>1. queues \in Seq(Queue) /\ DOMAIN queues = 1 .. Len(queues)
    BY DEF Inv, TypeOK, Queue
  <2> QED
    BY <2>1, OpenQueue DEF Inv
<1>a. Cur(p) \in Nat
  BY <1>1, <1>2 DEF Cur, Queue
<1>b. queues' = [queues EXCEPT ![mqd[p]].cur = IF pc[p] = "send" THEN Cur(p) + 1 ELSE Cur(p) - 1]
  <2>1. CASE Send(p)
    BY <2>1 DEF Send, Goes, Cur
  <2>2. CASE Receive(p)
    BY <2>2 DEF Receive, Goes, Cur
  <2> QED
    BY <2>1, <2>2
<1>3. /\ queues' = [queues EXCEPT ![mqd[p]].cur = Cur(p)']
      /\ Cur(p)' = IF pc[p] = "send" THEN Cur(p) + 1 ELSE Cur(p) - 1
      /\ Cur(p) \in Nat
  <2> DEFINE n == IF pc[p] = "send" THEN Cur(p) + 1 ELSE Cur(p) - 1
  <2> HIDE DEF n
  <2>1. queues' = [queues EXCEPT ![mqd[p]].cur = n]
    BY <1>b DEF n
  <2>2. queues'[mqd[p]].cur = n
    BY <1>1, <1>2, <2>1 DEF Queue
  <2> QED
    BY <1>1, <1>a, <2>1, <2>2 DEF n, Cur
<1>4. \A i \in DOMAIN queues : queues'[i].max = queues[i].max
  BY <1>2, <1>3 DEF Queue
<1>5. OwnInv'
  BY <1>1, <1>2, <1>4 DEF QueueInv, OwnInv, IsOpen
<1>6. CountedIsThere'
  <2> SUFFICES ASSUME NEW q \in Procs, pc[q] = "receive", q \notin robbed'
               PROVE  left'[q] <= Cur(q)'
    BY <1>1 DEF CountedIsThere
  <2>0. q \notin robbed /\ left[q] <= Cur(q) /\ IsOpen(q) /\ left[q] \in Nat
    BY DEF Send, Receive, hist, QueueInv, CountedIsThere, IsOpen, Inv, TypeOK
  <2>1. CASE q = p
    <3>1. left'[q] = left[q] - 1 /\ Cur(q)' = Cur(q) - 1
      BY <1>1, <1>3, <2>1 DEF Inv, TypeOK
    <3> QED
      BY <1>3, <2>0, <2>1, <3>1
  <2>2. CASE q # p /\ mqd[q] = mqd[p]
    <3>1. pc[p] = "send"
      BY <1>1, <2>2 DEF Send, Receive, Goes
    <3>2. Cur(q)' = Cur(q) + 1 /\ left'[q] = left[q]
      BY <1>1, <1>3, <2>2, <3>1 DEF Cur, Inv, TypeOK
    <3> QED
      BY <1>3, <2>0, <2>2, <3>2 DEF Cur
  <2>3. CASE q # p /\ mqd[q] # mqd[p]
    BY <1>1, <1>2, <1>3, <2>0, <2>3 DEF Cur, Inv, TypeOK
  <2> QED
    BY <2>1, <2>2, <2>3
<1> QED
  BY <1>5, <1>6 DEF QueueInv

LEMMA QueueOpens == ASSUME Inv, QueueInv, NEW p \in Procs, Open(p) PROVE QueueInv'
<1> DEFINE new == [max |-> MaxMsg(prog[p]), cur |-> 0]
<1>1. /\ UNCHANGED <<prog, robbed>> /\ pc'[p] \in {"send", "close"} /\ mqd'[p] = mq'
      /\ \A q \in Procs \ {p} :
           /\ UNCHANGED <<pc[q], mqd[q], left[q]>>
           /\ q \notin raced' => q \notin raced
           /\ prog[q] \in Fresh /\ pc[q] \in {"setmax", "open"} => q \in raced'
      /\ p \notin raced' => p \notin raced
      /\ pc[p] = "open" /\ (mq = None => queues' = Append(queues, new) /\ mq' = Len(queues'))
      /\ mq # None => UNCHANGED queues
  BY DEF Open, Goes, AfterOpen, Inv, TypeOK
<1>2. /\ queues \in Seq(Queue) /\ \A q \in Procs : IsOpen(q) => mqd[q] \in DOMAIN queues
      /\ new \in Queue /\ new.max = MaxMsg(prog[p])
  BY OpenQueue, Sizes DEF Inv, TypeOK, Queue
<1> HIDE DEF new
<1>3. /\ \A i \in DOMAIN queues : queues'[i] = queues[i]
      /\ mq = None => queues'[mq'] = new
  <2>1. CASE mq = None
    BY <1>1, <1>2, <2>1, AppendProperties
  <2>2. CASE mq # None
    BY <1>1, <2>2
  <2> QED
    BY <2>1, <2>2
<1>4. OwnInv'
  <2> SUFFICES ASSUME NEW q \in Procs, prog[q] \in Fresh, q \notin raced'
               PROVE  /\ pc'[q] \notin {"setmax", "open"}
                      /\ IsOpen(q)' => queues'[mqd'[q]].max = MaxMsg(prog[q])
    BY <1>1 DEF OwnInv
  <2>1. CASE q = p
    <3>1. mq = None
      BY <1>1, <2>1 DEF QueueInv, OwnInv
    <3> QED
      BY <1>1, <1>2, <1>3, <2>1, <3>1
  <2>2. CASE q # p
    BY <1>1, <1>2, <1>3, <2>2 DEF QueueInv, OwnInv, IsOpen
  <2> QED
    BY <2>1, <2>2
<1>5. CountedIsThere'
  <2> SUFFICES ASSUME NEW q \in Procs, pc'[q] = "receive", q \notin robbed
               PROVE  left'[q] <= Cur(q)'
    BY <1>1 DEF CountedIsThere
  <2>1. q # p /\ pc[q] = "receive" /\ left[q] <= Cur(q) /\ mqd[q] \in DOMAIN queues
    BY <1>1, <1>2 DEF QueueInv, CountedIsThere, IsOpen
  <2> QED
    BY <1>1, <1>3, <2>1 DEF Cur
<1> QED
  BY <1>4, <1>5 DEF QueueInv

LEMMA QueueInvariant == Spec => []QueueInv
<1>1. Init => QueueInv
  BY DEF Init, QueueInv, OwnInv, CountedIsThere, IsOpen, Fresh
<1>2. Inv /\ QueueInv /\ [Next]_vars => QueueInv'
  <2>1. ASSUME QueueInv, UNCHANGED vars PROVE QueueInv'
    BY <2>1 DEF vars, hist, QueueInv, OwnInv, CountedIsThere, IsOpen, Cur
  <2> QED
    BY <2>1, QueueQuiet, QueueMoves, QueueOpens DEF Next, Step
<1> QED
  BY <1>1, <1>2, Invariant, PTL DEF Spec

-----------------------------------------------------------------------------

\* Every variable keeps its type; no queue holds more messages than its attributes
\* allow, however runs overlap and die.
THEOREM TypeCorrect == Spec => []TypeOK
<1>1. Inv => TypeOK
  BY DEF Inv
<1>2. QED
  BY <1>1, Invariant, PTL

\* As long as no process is killed, the queue that has the name is empty when all
\* processes have ended, however they overlapped: the last one to count the
\* messages counts them all, and does not end before it has them.
THEOREM NothingLeft == Spec => []NoBacklog
<1>1. Inv => NoBacklog
  <2> SUFFICES ASSUME Inv, ~killed, \A p \in Procs : pc[p] = "idle", mq # None
               PROVE  queues[mq].cur = 0
    BY DEF NoBacklog
  <2>1. mq \in DOMAIN queues
    BY DEF Inv, TypeOK, None
  <2>2. \A p \in Procs : ~Takes(p, mq)
    BY DEF Takes
  <2>3. QED
    BY <2>1, <2>2 DEF Inv, TakenInv
<1>2. QED
  BY <1>1, Invariant, PTL

\* mqueue_2 and mqueue_3 have the queue they asked for, whatever other runs left
\* under the name or do besides, unless one opens it in between.
THEOREM OwnQueue == Spec => []GetsItsAttributes
<1>1. Inv /\ QueueInv => GetsItsAttributes
  BY DEF Inv, AloneInv, AloneFresh, QueueInv, OwnInv, GetsItsAttributes, IsOpen
<1>2. QED
  BY <1>1, Invariant, QueueInvariant, PTL

\* A run waits for a message it has counted only if another one has received in
\* between.
THEOREM NoneMissing == Spec => []CountedIsThere
<1>1. QueueInv => CountedIsThere
  BY DEF QueueInv
<1>2. QED
  BY <1>1, QueueInvariant, PTL
=============================================================================
