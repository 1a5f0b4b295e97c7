----------------------------- MODULE MutexThreads -----------------------------
(***************************************************************************)
(* mutex_variable.c and mutex_signal.c: main() and its threads over one    *)
(* lock.  In the first, thread_func1() increments a variable and           *)
(* thread_func2() prints it, in a first loop with the lock, in a second    *)
(* one without.  In the second, main() holds the lock while it creates a   *)
(* thread and then waits, in a loop, for its signal; what both print is    *)
(* kept in `lines'.  pthread_create() is taken to succeed.                 *)
(***************************************************************************)
EXTENDS Integers, Sequences, SequencesExt

CONSTANTS
  Incs,         \* turns of thread_func1() and of the first loop of the other (10)
  Reads,        \* turns of the second loop (20)
  MaxWakes      \* spurious wakeups that are looked at (model bound)

VARIABLES
  prog,         \* the program that runs: "variable" or "signal"
  lock,         \* who holds it: "main", "t1", "t2" or "free"
  pc,           \* where each of "main", "t1", "t2" is
  turn,         \* turns of the loops of t1 and t2
  val,          \* s_val; or the condition
  seen,         \* what t1 has read of it
  printed,      \* what t2 has printed last
  lines,        \* the lines of mutex_signal
  wakes         \* history: spurious wakeups

vars == <<prog, lock, pc, turn, val, seen, printed, lines, wakes>>

Init ==
  /\ prog \in {"variable", "signal"}
  /\ lock = "free"
  /\ pc = [a \in {"main", "t1", "t2"} |-> IF a = "main" THEN "start" ELSE "none"]
  /\ turn = [t \in {"t1", "t2"} |-> 0]
  /\ val = 0 /\ seen = 0 /\ printed = 0 /\ lines = <<>> /\ wakes = 0

At(p, a, from) == prog = p /\ pc[a] = from
Goes(p, a, from, to) == At(p, a, from) /\ pc' = [pc EXCEPT ![a] = to]
Locks(a) == lock = "free" /\ lock' = a
Says(line) == lines' = Append(lines, line)

-----------------------------------------------------------------------------
(* mutex_variable *)

CreateBoth ==
  /\ At("variable", "main", "start")
  /\ pc' = [main |-> "join", t1 |-> "loop", t2 |-> "loop"]
  /\ UNCHANGED <<prog, lock, turn, val, seen, printed, lines, wakes>>

LoopLock(t) ==
  /\ Goes("variable", t, "loop", "get") /\ turn[t] < Incs
  /\ Locks(t)
  /\ UNCHANGED <<prog, turn, val, seen, printed, lines, wakes>>

Get ==
  /\ Goes("variable", "t1", "get", "set")
  /\ seen' = val
  /\ UNCHANGED <<prog, lock, turn, val, printed, lines, wakes>>

Set ==
  /\ Goes("variable", "t1", "set", "unlock")
  /\ val' = seen + 1
  /\ UNCHANGED <<prog, lock, turn, seen, printed, lines, wakes>>

PrintLocked ==
  /\ Goes("variable", "t2", "get", "unlock")
  /\ printed' = val
  /\ UNCHANGED <<prog, lock, turn, val, seen, lines, wakes>>

LoopUnlock(t) ==
  /\ Goes("variable", t, "unlock", "loop")
  /\ turn' = [turn EXCEPT ![t] = @ + 1]
  /\ lock' = "free"
  /\ UNCHANGED <<prog, val, seen, printed, lines, wakes>>

\* The second loop of thread_func2()
PrintUnlocked ==
  /\ At("variable", "t2", "loop") /\ turn["t2"] \in Incs .. Incs + Reads - 1
  /\ printed' = val
  /\ turn' = [turn EXCEPT !["t2"] = @ + 1]
  /\ UNCHANGED <<prog, lock, pc, val, seen, lines, wakes>>

LoopEnd(t) ==
  /\ Goes("variable", t, "loop", "ended")
  /\ turn[t] = IF t = "t1" THEN Incs ELSE Incs + Reads
  /\ UNCHANGED <<prog, lock, turn, val, seen, printed, lines, wakes>>

JoinBoth ==
  /\ Goes("variable", "main", "join", "ended")
  /\ pc["t1"] = "ended" /\ pc["t2"] = "ended"
  /\ UNCHANGED <<prog, lock, turn, val, seen, printed, lines, wakes>>

-----------------------------------------------------------------------------
(* mutex_signal *)

MainLock ==
  /\ Goes("signal", "main", "start", "create")
  /\ Locks("main") /\ Says("main:locked")
  /\ UNCHANGED <<prog, turn, val, seen, printed, wakes>>

MainCreate ==
  /\ At("signal", "main", "create")
  /\ pc' = [pc EXCEPT !["main"] = "created", !["t1"] = "lock"]
  /\ UNCHANGED <<prog, lock, turn, val, seen, printed, lines, wakes>>

MainCreated ==
  /\ Goes("signal", "main", "created", "while") /\ Says("main:created")
  /\ UNCHANGED <<prog, lock, turn, val, seen, printed, wakes>>

\* mutant: if in place of while
MainWhileOnce ==
  /\ At("signal", "main", "while")
  /\ lock' = "free"
  /\ pc' = [pc EXCEPT !["main"] =
              IF Contains(lines, "main:signaled") THEN "unlocked" ELSE "waiting"]
  /\ UNCHANGED <<prog, turn, val, seen, printed, lines, wakes>>

\* while (!condition): pthread_cond_wait(), which lets the lock go, or
\* pthread_mutex_unlock()
MainWhile ==
  /\ At("signal", "main", "while")
  /\ lock' = "free"
  /\ pc' = [pc EXCEPT !["main"] = IF val = 0 THEN "waiting" ELSE "unlocked"]
  /\ UNCHANGED <<prog, turn, val, seen, printed, lines, wakes>>

MainWakesSpuriously ==
  /\ Goes("signal", "main", "waiting", "woken") /\ wakes < MaxWakes
  /\ wakes' = wakes + 1
  /\ UNCHANGED <<prog, lock, turn, val, seen, printed, lines>>

MainWaited ==
  /\ Goes("signal", "main", "woken", "while")
  /\ Locks("main") /\ Says("main:signaled")
  /\ UNCHANGED <<prog, turn, val, seen, printed, wakes>>

MainUnlocked ==
  /\ Goes("signal", "main", "unlocked", "join") /\ Says("main:unlocked")
  /\ UNCHANGED <<prog, lock, turn, val, seen, printed, wakes>>

MainJoin ==
  /\ Goes("signal", "main", "join", "ended") /\ pc["t1"] = "ended"
  /\ UNCHANGED <<prog, lock, turn, val, seen, printed, lines, wakes>>

ThreadLock ==
  /\ Goes("signal", "t1", "lock", "signal")
  /\ Locks("t1") /\ Says("thread:locked")
  /\ UNCHANGED <<prog, turn, val, seen, printed, wakes>>

\* condition = 1, and the signal
ThreadSignal ==
  /\ At("signal", "t1", "signal")
  /\ val' = 1
  /\ pc' = [pc EXCEPT !["t1"] = "unlock",
                      !["main"] = IF @ = "waiting" THEN "woken" ELSE @]
  /\ Says("thread:signal")
  /\ UNCHANGED <<prog, lock, turn, seen, printed, wakes>>

ThreadUnlock ==
  /\ Goes("signal", "t1", "unlock", "unlocked")
  /\ lock' = "free"
  /\ UNCHANGED <<prog, turn, val, seen, printed, lines, wakes>>

ThreadUnlocked ==
  /\ Goes("signal", "t1", "unlocked", "ended") /\ Says("thread:unlocked")
  /\ UNCHANGED <<prog, lock, turn, val, seen, printed, wakes>>

-----------------------------------------------------------------------------
MainStep ==
  \/ CreateBoth \/ JoinBoth
  \/ MainLock \/ MainCreate \/ MainCreated \/ MainWhile \/ MainWaited
  \/ MainUnlocked \/ MainJoin

ThreadStep(t) ==
  \/ LoopLock(t) \/ LoopUnlock(t) \/ LoopEnd(t)
  \/ t = "t1" /\ (Get \/ Set \/ ThreadLock \/ ThreadSignal \/ ThreadUnlock
                  \/ ThreadUnlocked)
  \/ t = "t2" /\ (PrintLocked \/ PrintUnlocked)

Next == MainStep \/ MainWakesSpuriously \/ \E t \in {"t1", "t2"} : ThreadStep(t)

\* Every thread runs on if it can; nobody need wake main() for nothing.  A lock
\* is only contended finitely often.
Fairness == WF_vars(MainStep) /\ \A t \in {"t1", "t2"} : WF_vars(ThreadStep(t))

Spec == Init /\ [][Next]_vars /\ Fairness

-----------------------------------------------------------------------------
\* Every variable keeps its type, and what t2 prints never decreases below what
\* it has printed: only t1 writes.
TypeOK ==
  /\ lock \in {"free", "main", "t1", "t2"}
  /\ DOMAIN pc = {"main", "t1", "t2"}
  /\ turn["t1"] \in 0 .. Incs /\ turn["t2"] \in 0 .. Incs + Reads
  /\ val \in 0 .. Incs /\ seen \in 0 .. Incs /\ printed \in 0 .. val
  /\ wakes \in 0 .. MaxWakes

\* The output mutex_signal.c:5-14 promises, but for its last line: that the thread
\* has unlocked, which it prints without the lock, after n of the others.
Promised ==
  <<"main:locked", "main:created", "thread:locked", "thread:signal",
    "main:signaled", "main:unlocked">>

Output(n) ==
  [i \in 1 .. Len(Promised) + 1 |->
     IF i <= n THEN Promised[i]
     ELSE IF i = n + 1 THEN "thread:unlocked" ELSE Promised[i - 1]]

\* That line may come anywhere after "thread:signal"; the others come in the
\* promised order, unless main() woke for nothing.  Even then main() goes on only
\* after the signal (mutex_signal.c:38-41).
DocumentedOrder ==
  prog = "signal" =>
    /\ wakes = 0 => \E n \in 4 .. Len(Promised) : IsPrefix(lines, Output(n))
    /\ pc["main"] \in {"unlocked", "join", "ended"} => Contains(lines, "thread:signal")

\* No increment is lost: they are all there when main() has joined its threads.
AllIncremented == prog = "variable" /\ pc["main"] = "ended" => val = Incs

\* main(), or thread t, can take a step: the guards of their actions.
MainCanGo ==
  \/ prog = "variable" /\ pc["main"] = "start"
  \/ prog = "signal" /\ pc["main"] \in {"create", "created", "while", "unlocked"}
  \/ prog = "signal" /\ pc["main"] \in {"start", "woken"} /\ lock = "free"
  \/ pc["main"] = "join" /\ pc["t1"] = "ended" /\ pc["t2"] \in {"none", "ended"}

CanGo(t) ==
  \/ pc[t] \in {"get", "set", "signal", "unlock", "unlocked"}
  \/ pc[t] = "lock" /\ lock = "free"
  \/ pc[t] = "loop" /\ (turn[t] < Incs => lock = "free")

\* Until main() ends, it or a thread can go on, and nobody has to wake main() for
\* nothing: the condition is set under the lock main() looks at it with
\* (mutex_signal.c:38-41, mutex_variable.c:9-10).
NoDeadlock == pc["main"] = "ended" \/ MainCanGo \/ \E t \in {"t1", "t2"} : CanGo(t)

\* Both programs end, and AllIncremented holds then.
EndsWell == <>(pc["main"] = "ended" /\ AllIncremented)
=============================================================================
