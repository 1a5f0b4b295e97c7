-------------------------------- MODULE NamedSem --------------------------------
(***************************************************************************)
(* semaphore_named.c and semaphore_named_blocked.c: main() makes a named   *)
(* semaphore and starts threads that count g_cnt up under it.  Both use    *)
(* the name /sem, so runs of either program, at the same time or one after *)
(* a kill of the other, meet in it.  The programs differ in what they      *)
(* print and when they sleep only, so a process may be a run of either.    *)
(***************************************************************************)
EXTENDS Integers, FiniteSets

CONSTANTS
  Procs,        \* runs of the two programs
  None,         \* no semaphore
  kNum,         \* threads of each (10)
  kTurns        \* turns of a thread's loop (5)

ASSUME NoneOK == None \notin Procs
ASSUME SizesOK == kNum \in Nat \ {0} /\ kTurns \in Nat \ {0}

VARIABLES
  main,         \* where main() of each process is
  name,         \* the semaphore /sem stands for, called after its maker
  value,        \* the value of each semaphore
  psem,         \* g_psem
  cnt,          \* g_cnt
  thr,          \* where each thread is
  loop,         \* its turns begun
  reg,          \* g_cnt as it has read it in g_cnt++
  lines,        \* history: the lines its threads have printed
  raced         \* history: /sem was opened between our unlink and our open

locals == <<cnt, thr, loop, reg, lines>>
vars == <<main, name, value, psem, locals, raced>>

Threads == Procs \X (1 .. kNum)

\* The semaphore is theirs: in a killed process, for ever.
Inside == {"load", "store", "print", "post"}
Holders(s) == {x \in Threads : psem[x[1]] = s /\ thr[x] \in Inside}

Init ==
  /\ main = [p \in Procs |-> "off"]
  /\ name = None
  /\ value = [p \in Procs |-> 0]
  /\ psem = [p \in Procs |-> None]
  /\ cnt = [p \in Procs |-> 0]
  /\ thr = [x \in Threads |-> "none"]
  /\ loop = [x \in Threads |-> 0]
  /\ reg = [x \in Threads |-> 0]
  /\ lines = [p \in Procs |-> 0]
  /\ raced = [p \in Procs |-> FALSE]

-----------------------------------------------------------------------------
(* main() *)

MainGoes(p, from, to) == main[p] = from /\ main' = [main EXCEPT ![p] = to]

Start(p) ==
  /\ MainGoes(p, "off", "unlink")
  /\ UNCHANGED <<name, value, psem, locals, raced>>

\* mutant: the name is left as it is
UnlinkNot(p) ==
  /\ MainGoes(p, "unlink", "open")
  /\ UNCHANGED <<name, value, psem, locals, raced>>

\* sem_unlink(), "just in case"
Unlink(p) ==
  /\ MainGoes(p, "unlink", "open")
  /\ name' = None
  /\ UNCHANGED <<value, psem, locals, raced>>

\* mutant: the semaphore is made with the value 0
OpenTaken(p) ==
  /\ MainGoes(p, "open", "create")
  /\ IF name = None THEN name' = p ELSE UNCHANGED name
  /\ psem' = [psem EXCEPT ![p] = name']
  /\ raced' = [q \in Procs |-> raced[q] \/ (q # p /\ main[q] = "open")]
  /\ UNCHANGED <<value, locals>>

\* sem_open() with O_CREAT and without O_EXCL: a semaphore that is there is
\* taken with the value it has.
Open(p) ==
  /\ MainGoes(p, "open", "create")
  /\ IF name = None
       THEN name' = p /\ value' = [value EXCEPT ![p] = 1]
       ELSE UNCHANGED <<name, value>>
  /\ psem' = [psem EXCEPT ![p] = name']
  /\ raced' = [q \in Procs |-> raced[q] \/ (q # p /\ main[q] = "open")]
  /\ UNCHANGED locals

\* pthread_create(), in the order of the threads' numbers
Create(p) ==
  /\ main[p] = "create"
  /\ \E t \in 1 .. kNum :
       /\ thr[<<p, t>>] = "none"
       /\ \A u \in 1 .. t - 1 : thr[<<p, u>>] # "none"
       /\ thr' = [thr EXCEPT ![<<p, t>>] = "wait"]
       /\ main' = IF t = kNum THEN [main EXCEPT ![p] = "join"] ELSE main
  /\ UNCHANGED <<name, value, psem, cnt, loop, reg, lines, raced>>

\* pthread_join() of all, and sem_close()
Join(p) ==
  /\ \A t \in 1 .. kNum : thr[<<p, t>>] = "ended"
  /\ MainGoes(p, "join", "last_unlink")
  /\ UNCHANGED <<name, value, psem, locals, raced>>

\* The name goes, whoever's semaphore it now stands for.
LastUnlink(p) ==
  /\ MainGoes(p, "last_unlink", "ended")
  /\ name' = None
  /\ UNCHANGED <<value, psem, locals, raced>>

\* The process is killed: name and value stay as they are.
Kill(p) ==
  /\ main[p] \notin {"off", "ended", "killed"}
  /\ main' = [main EXCEPT ![p] = "killed"]
  /\ UNCHANGED <<name, value, psem, locals, raced>>

-----------------------------------------------------------------------------
(* testFunc() *)

ThreadGoes(x, from, to) ==
  main[x[1]] # "killed" /\ thr[x] = from /\ thr' = [thr EXCEPT ![x] = to]

\* mutant: the semaphore is not waited for
WaitNot(x) ==
  /\ ThreadGoes(x, "wait", "load")
  /\ loop' = [loop EXCEPT ![x] = @ + 1]
  /\ value' = [value EXCEPT ![psem[x[1]]] = IF @ > 0 THEN @ - 1 ELSE 0]
  /\ UNCHANGED <<main, name, psem, cnt, reg, lines, raced>>

\* sem_wait()
Wait(x) ==
  /\ ThreadGoes(x, "wait", "load")
  /\ value[psem[x[1]]] > 0
  /\ loop' = [loop EXCEPT ![x] = @ + 1]
  /\ value' = [value EXCEPT ![psem[x[1]]] = @ - 1]
  /\ UNCHANGED <<main, name, psem, cnt, reg, lines, raced>>

\* g_cnt++ reads ...
Load(x) ==
  /\ ThreadGoes(x, "load", "store")
  /\ reg' = [reg EXCEPT ![x] = cnt[x[1]]]
  /\ UNCHANGED <<main, name, value, psem, cnt, loop, lines, raced>>

\* ... and writes.
Store(x) ==
  /\ ThreadGoes(x, "store", "print")
  /\ cnt' = [cnt EXCEPT ![x[1]] = reg[x] + 1]
  /\ UNCHANGED <<main, name, value, psem, loop, reg, lines, raced>>

PrintCount(x) ==
  /\ ThreadGoes(x, "print", "post")
  /\ lines' = [lines EXCEPT ![x[1]] = @ + 1]
  /\ UNCHANGED <<main, name, value, psem, cnt, loop, reg, raced>>

\* mutant: the last turn keeps the semaphore
PostNotLast(x) ==
  /\ ThreadGoes(x, "post", IF loop[x] < kTurns THEN "wait" ELSE "ended")
  /\ value' = [value EXCEPT ![psem[x[1]]] = IF loop[x] < kTurns THEN @ + 1 ELSE @]
  /\ UNCHANGED <<main, name, psem, cnt, loop, reg, lines, raced>>

\* mutant: the last turn posts twice
PostTwice(x) ==
  /\ ThreadGoes(x, "post", IF loop[x] < kTurns THEN "wait" ELSE "ended")
  /\ value' = [value EXCEPT ![psem[x[1]]] = IF loop[x] < kTurns THEN @ + 1 ELSE @ + 2]
  /\ UNCHANGED <<main, name, psem, cnt, loop, reg, lines, raced>>

\* sem_post(), and the end of the turn
Post(x) ==
  /\ ThreadGoes(x, "post", IF loop[x] < kTurns THEN "wait" ELSE "ended")
  /\ value' = [value EXCEPT ![psem[x[1]]] = @ + 1]
  /\ UNCHANGED <<main, name, psem, cnt, loop, reg, lines, raced>>

-----------------------------------------------------------------------------
MainStep(p) == Unlink(p) \/ Open(p) \/ Create(p) \/ Join(p) \/ LastUnlink(p)
testFunc(x) == Wait(x) \/ Load(x) \/ Store(x) \/ PrintCount(x) \/ Post(x)

Next ==
  \/ \E p \in Procs : Start(p) \/ MainStep(p) \/ Kill(p)
  \/ \E x \in Threads : testFunc(x)

\* Threads of a live process run if they can.  A semaphore is waited for a
\* finite number of times, so whoever waits is in the end alone with it.
Fairness ==
  /\ \A p \in Procs : WF_vars(MainStep(p))
  /\ \A x \in Threads : WF_vars(testFunc(x))

Spec == Init /\ [][Next]_vars /\ Fairness

-----------------------------------------------------------------------------
\* Every variable keeps its type; no counter passes the number of all turns.
TypeOK ==
  /\ main \in [Procs -> {"off", "unlink", "open", "create", "join",
                         "last_unlink", "ended", "killed"}]
  /\ name \in Procs \cup {None}
  /\ value \in [Procs -> 0 .. 1]
  /\ psem \in [Procs -> Procs \cup {None}]
  /\ thr \in [Threads -> {"none", "wait", "ended"} \cup Inside]
  /\ loop \in [Threads -> 0 .. kTurns]
  /\ reg \in [Threads -> 0 .. kNum * kTurns]
  /\ cnt \in [Procs -> 0 .. kNum * kTurns]
  /\ lines \in [Procs -> 0 .. kNum * kTurns]

\* A semaphore is free, or exactly one thread has it, of whichever process,
\* dead or alive (semaphore_named.c:19-22): also when it was opened with the
\* value another process had left in it.
OneToken ==
  \A s \in Procs :
    psem[s] = s => value[s] + Cardinality(Holders(s)) = 1

\* The number a thread is about to print is the number of the line
\* (semaphore_named.c:20-21): no increment is lost, and none comes between an
\* increment and its print.
PrintsOwnNumber == \A x \in Threads : thr[x] = "print" => cnt[x[1]] = lines[x[1]] + 1

\* It is so for every line, and at the end all turns of all threads are counted.
LinesNumbered ==
  /\ PrintsOwnNumber
  /\ \A p \in Procs : main[p] = "ended" =>
       cnt[p] = kNum * kTurns /\ lines[p] = kNum * kTurns

\* A process has a semaphore of its own, whatever killed processes left under
\* the name, unless another opened the name between its sem_unlink() and its
\* sem_open() (semaphore_named.c:39-42).
OwnUnlessRaced ==
  \A p \in Procs : raced[p] \/ psem[p] \in {None, p}

\* The semaphore of p is with a process that was killed.
Robbed(p) == \E x \in Holders(psem[p]) : main[x[1]] = "killed"

\* A process, or a thread, can take a step: the guards of their actions.
MainCanGo(p) ==
  \/ main[p] \in {"unlink", "open", "last_unlink"}
  \/ main[p] = "create" /\ \E t \in 1 .. kNum :
       thr[<<p, t>>] = "none" /\ \A u \in 1 .. t - 1 : thr[<<p, u>>] # "none"
  \/ main[p] = "join" /\ \A t \in 1 .. kNum : thr[<<p, t>>] = "ended"

CanGo(x) ==
  /\ main[x[1]] # "killed"
  /\ thr[x] \in Inside \/ (thr[x] = "wait" /\ value[psem[x[1]]] > 0)

\* Who cannot go on waits for one that can, or for one that was killed while it
\* had the semaphore, and for nothing else.
NoDeadlock ==
  \A p \in Procs :
    \/ main[p] \in {"off", "ended", "killed"} \/ MainCanGo(p) \/ Robbed(p)
    \/ \E x \in Threads : psem[x[1]] = psem[p] /\ CanGo(x)

\* A process ends, unless it shares its semaphore with one that was killed
\* while it had it (semaphore_named.c:49-51).
Ends ==
  \A p \in Procs :
    main[p] = "unlink" ~> (main[p] \in {"ended", "killed"} \/ Robbed(p))
=============================================================================
