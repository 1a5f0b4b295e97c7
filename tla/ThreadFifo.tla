------------------------------ MODULE ThreadFifo ------------------------------
(***************************************************************************)
(* posix_thread_4fifo.c.  main() creates kNumThread threads and passes     *)
(* each one the address of its own loop counter.  A thread reads the       *)
(* counter, signals main() that it has, and waits at a start barrier (the  *)
(* mutex s_m2, which main() holds until all threads exist); then it works  *)
(* and returns a malloced result, which main() joins, prints and frees.    *)
(*                                                                         *)
(* pthread_cond_wait() may return without a signal (POSIX): the history    *)
(* variable spurious remembers whether it has.  With CreateFails,          *)
(* pthread_create() may fail, and the return from main() ends the process. *)
(* Priorities are not modelled: threads interleave in any order.           *)
(***************************************************************************)
EXTENDS Integers

CONSTANTS kNumThread, CreateFails

ASSUME NumThreadOK == kNumThread \in Nat \ {0}
ASSUME CreateFailsOK == CreateFails \in BOOLEAN

Threads == 0 .. kNumThread - 1
Main == kNumThread              \* main() as the owner of a mutex
Free == kNumThread + 1          \* a mutex nobody owns

VARIABLES
  s_m1, s_m2,   \* who owns each mutex
  mainPc,       \* where main() is; "waiting" is inside pthread_cond_wait()
  loop,         \* the counter the threads have the address of
  thrPc,        \* where each thread is
  index,        \* what each thread has read as its number
  pret,         \* the result of each thread: its place on the heap
  spurious      \* history: main() has woken without a signal

mutexes == <<s_m1, s_m2>>
vars == <<s_m1, s_m2, mainPc, loop, thrPc, index, pret, spurious>>

Init ==
  /\ s_m1 = Free /\ s_m2 = Free
  /\ mainPc = "start" /\ loop = 0
  /\ thrPc = [t \in Threads |-> "none"]
  /\ index = [t \in Threads |-> 0]
  /\ pret = [t \in Threads |-> "none"]
  /\ spurious = FALSE

-----------------------------------------------------------------------------
(* main() *)

\* mutant: the barrier is not closed
MainLockM2Not ==
  /\ mainPc = "start" /\ s_m2 = Free
  /\ mainPc' = "barrier"
  /\ UNCHANGED <<mutexes, loop, thrPc, index, pret, spurious>>

MainLockM2 ==
  /\ mainPc = "start" /\ s_m2 = Free
  /\ s_m2' = Main
  /\ mainPc' = "barrier"
  /\ UNCHANGED <<s_m1, loop, thrPc, index, pret, spurious>>

MainLockM1 ==
  /\ mainPc = "barrier" /\ s_m1 = Free
  /\ s_m1' = Main
  /\ mainPc' = "create"
  /\ UNCHANGED <<s_m2, loop, thrPc, index, pret, spurious>>

\* Mutants: s_m1 is let go around pthread_create(); main() does not wait.
MainCreateUnlocked ==
  /\ mainPc = "create" /\ loop < kNumThread
  /\ thrPc' = [thrPc EXCEPT ![loop] = "started"]
  /\ mainPc' = "created"
  /\ s_m1' = Free
  /\ UNCHANGED <<s_m2, loop, index, pret, spurious>>
MainCreateNoWait ==
  /\ mainPc = "create" /\ loop < kNumThread
  /\ thrPc' = [thrPc EXCEPT ![loop] = "started"]
  /\ loop' = loop + 1
  /\ UNCHANGED <<mutexes, mainPc, index, pret, spurious>>

MainCreate ==
  /\ mainPc = "create" /\ loop < kNumThread
  /\ thrPc' = [thrPc EXCEPT ![loop] = "started"]
  /\ mainPc' = "created"
  /\ UNCHANGED <<mutexes, loop, index, pret, spurious>>

\* return 1: the process ends and its threads with it
MainCreateFails ==
  /\ CreateFails
  /\ mainPc = "create" /\ loop < kNumThread
  /\ thrPc' = [t \in Threads |-> "none"]
  /\ mainPc' = "failed"
  /\ UNCHANGED <<mutexes, loop, index, pret, spurious>>

\* pthread_cond_wait(): s_m1 is let go and main() sleeps, in one step; it
\* is woken by a signal (ThreadSignal) or by nothing; it takes s_m1 again.
MainCondWait ==
  /\ mainPc = "created"
  /\ s_m1' = Free
  /\ mainPc' = "waiting"
  /\ UNCHANGED <<s_m2, loop, thrPc, index, pret, spurious>>

MainWakesSpuriously ==
  /\ mainPc = "waiting"
  /\ mainPc' = "woken"
  /\ spurious' = TRUE
  /\ UNCHANGED <<mutexes, loop, thrPc, index, pret>>

MainCondWaited ==
  /\ mainPc = "woken" /\ s_m1 = Free
  /\ s_m1' = Main
  /\ loop' = loop + 1
  /\ mainPc' = "create"
  /\ UNCHANGED <<s_m2, thrPc, index, pret, spurious>>

MainUnlockM1 ==
  /\ mainPc = "create" /\ loop = kNumThread
  /\ s_m1' = Free
  /\ mainPc' = "release"
  /\ UNCHANGED <<s_m2, loop, thrPc, index, pret, spurious>>

MainUnlockM2 ==
  /\ mainPc = "release"
  /\ s_m2' = Free
  /\ mainPc' = "join" /\ loop' = 0
  /\ UNCHANGED <<s_m1, thrPc, index, pret, spurious>>

\* One turn of a for loop over the threads, or its end.
Turn(pc, ready, next) ==
  /\ mainPc = pc
  /\ \/ loop < kNumThread /\ ready /\ loop' = loop + 1 /\ UNCHANGED mainPc
     \/ loop = kNumThread /\ mainPc' = next
        /\ loop' = IF next = "returned" THEN loop ELSE 0

MainJoin ==
  /\ Turn("join", thrPc[loop] = "ended", "print")
  /\ UNCHANGED <<mutexes, thrPc, index, pret, spurious>>

MainPrint ==
  /\ Turn("print", TRUE, "free")
  /\ UNCHANGED <<mutexes, thrPc, index, pret, spurious>>

\* mutant: the result of the last thread is freed in every turn
MainFreeLast ==
  /\ Turn("free", TRUE, "returned")
  /\ pret' = IF loop < kNumThread THEN [pret EXCEPT ![kNumThread - 1] = "freed"] ELSE pret
  /\ UNCHANGED <<mutexes, thrPc, index, spurious>>

MainFree ==
  /\ Turn("free", TRUE, "returned")
  /\ pret' = IF loop < kNumThread THEN [pret EXCEPT ![loop] = "freed"] ELSE pret
  /\ UNCHANGED <<mutexes, thrPc, index, spurious>>

-----------------------------------------------------------------------------
(* thread_func() *)

Goes(t, from, to) ==
  /\ thrPc[t] = from
  /\ thrPc' = [thrPc EXCEPT ![t] = to]

\* index = *(int *)arg, with no lock held, and malloc()
ThreadReadIndex(t) ==
  /\ Goes(t, "started", "ready")
  /\ index' = [index EXCEPT ![t] = loop]
  /\ pret' = [pret EXCEPT ![t] = "allocated"]
  /\ UNCHANGED <<mutexes, mainPc, loop, spurious>>

ThreadLockM1(t) ==
  /\ Goes(t, "ready", "signal")
  /\ s_m1 = Free
  /\ s_m1' = t
  /\ UNCHANGED <<s_m2, mainPc, loop, index, pret, spurious>>

ThreadSignal(t) ==
  /\ Goes(t, "signal", "signalled")
  /\ mainPc' = IF mainPc = "waiting" THEN "woken" ELSE mainPc
  /\ UNCHANGED <<mutexes, loop, index, pret, spurious>>

ThreadUnlockM1(t) ==
  /\ Goes(t, "signalled", "barrier")
  /\ s_m1' = Free
  /\ UNCHANGED <<s_m2, mainPc, loop, index, pret, spurious>>

ThreadLockM2(t) ==
  /\ Goes(t, "barrier", "through")
  /\ s_m2 = Free
  /\ s_m2' = t
  /\ UNCHANGED <<s_m1, mainPc, loop, index, pret, spurious>>

ThreadUnlockM2(t) ==
  /\ Goes(t, "through", "work")
  /\ s_m2' = Free
  /\ UNCHANGED <<s_m1, mainPc, loop, index, pret, spurious>>

\* the counting loop, and *pret = the time it took
ThreadWork(t) ==
  /\ Goes(t, "work", "ended")
  /\ pret' = [pret EXCEPT ![t] = "written"]
  /\ UNCHANGED <<mutexes, mainPc, loop, index, spurious>>

-----------------------------------------------------------------------------
MainStep ==
  \/ MainLockM2 \/ MainLockM1 \/ MainCreate \/ MainCreateFails
  \/ MainCondWait \/ MainCondWaited \/ MainUnlockM1 \/ MainUnlockM2
  \/ MainJoin \/ MainPrint \/ MainFree

ThreadStep(t) ==
  \/ ThreadReadIndex(t) \/ ThreadLockM1(t) \/ ThreadSignal(t) \/ ThreadUnlockM1(t)
  \/ ThreadLockM2(t) \/ ThreadUnlockM2(t) \/ ThreadWork(t)

Next == MainStep \/ MainWakesSpuriously \/ \E t \in Threads : ThreadStep(t)

\* Every thread of the process runs in the end; nobody has to wake main()
\* for nothing.
Fairness == WF_vars(MainStep) /\ \A t \in Threads : WF_vars(ThreadStep(t))

Spec == Init /\ [][Next]_vars /\ Fairness

-----------------------------------------------------------------------------
(* Properties *)

TypeOK ==
  /\ s_m1 \in 0 .. kNumThread + 1 /\ s_m2 \in 0 .. kNumThread + 1
  /\ mainPc \in {"start", "barrier", "create", "created", "waiting", "woken", "release",
                 "join", "print", "free", "returned", "failed"}
  /\ loop \in 0 .. kNumThread
  /\ thrPc \in [Threads -> {"none", "started", "ready", "signal", "signalled", "barrier",
                            "through", "work", "ended"}]
  /\ index \in [Threads -> 0 .. kNumThread]
  /\ pret \in [Threads -> {"none", "allocated", "written", "freed"}]
  /\ spurious \in BOOLEAN

\* Threads that have read their number from main()'s counter.
HasIndex == {"ready", "signal", "signalled", "barrier", "through", "work", "ended"}

\* Every thread has its own number, though the counter it reads is shared
\* and moves on (lines 47, 79).
IndexCorrect == \A t \in Threads : thrPc[t] \in HasIndex => index[t] = t

\* It has as long as every return of the wait on line 52 was a signal's: the
\* hand-shake over s_c1 takes the place of a lock on the counter.
IndexUnlessSpurious == ~spurious => IndexCorrect

\* No thread starts to count before main() has created them all, also when
\* main() has woken for nothing (lines 39, 55, 87-88).
StartTogether ==
  \A t, u \in Threads : thrPc[t] \in {"through", "work", "ended"} => thrPc[u] # "none"

\* When main() sleeps, the thread it created last has its signal still to
\* give: the signal cannot come before the wait, since main() holds s_m1
\* from pthread_create() until it sleeps (lines 40, 47, 52, 82-83).
NoLostWakeup == mainPc = "waiting" => thrPc[loop] \in {"started", "ready", "signal"}

\* What main() prints has been written, each result is freed once and not used
\* afterwards, and nothing is left on the heap when main() returns (lines 57-67,
\* 99).
ResultsReady ==
  /\ mainPc = "print" => \A t \in Threads : pret[t] = "written"
  /\ mainPc = "free" =>
       \A t \in Threads : pret[t] = IF t < loop THEN "freed" ELSE "written"
  /\ mainPc = "returned" => \A t \in Threads : pret[t] = "freed"

\* main() can take a step, or thread t can: the guards of their actions.
MainCanGo ==
  \/ mainPc \in {"create", "created", "release", "print", "free"}
  \/ mainPc = "start" /\ s_m2 = Free
  \/ mainPc \in {"barrier", "woken"} /\ s_m1 = Free
  \/ mainPc = "join" /\ (loop < kNumThread => thrPc[loop] = "ended")

CanGo(t) ==
  \/ thrPc[t] \in {"started", "signal", "signalled", "through", "work"}
  \/ thrPc[t] = "ready" /\ s_m1 = Free
  \/ thrPc[t] = "barrier" /\ s_m2 = Free

\* Never does everyone wait for everyone: until main() returns, it or a thread
\* can go on, and nobody has to wake main() for nothing (lines 39-58, 81-91).
NoDeadlock ==
  mainPc \in {"returned", "failed"} \/ MainCanGo \/ \E t \in Threads : CanGo(t)

\* main() ends: it never sleeps through the last signal, and the barrier
\* lets every thread through.
Termination == <>(mainPc \in {"returned", "failed"})
=============================================================================
