------------------------------ MODULE ForkedProcs ------------------------------
(***************************************************************************)
(* The programs that fork: ipc-pipe.c, ipc-sharedMemory.c, ipc-signal.c    *)
(* and proc_fork.c.  A parent and one or two children, ordered by what the *)
(* kernel gives them (the end of a pipe, wait(), a signal) and by sleep(), *)
(* which orders nothing here: a process may take any time for each step.   *)
(* fork() may fail; nobody looks.  Sleeping and printing are left out.     *)
(***************************************************************************)
EXTENDS Integers, FiniteSets

CONSTANT
  Lines         \* lines through the pipe, SIGINTs, lines of a child (3)

VARIABLES
  prog,         \* "pipe", "shm", "signal" or "fork"
  main,         \* where the parent is
  kid,          \* where each child is; "none" when it was not made
  turn,         \* turns of the parent's loop
  reaped,       \* children wait() has returned
  pipe,         \* lines in the pipe
  ends,         \* who has its write end open
  got,          \* lines the child has read from it
  seg,          \* the segment: "none", "zeros", "part", "text" or "removed"
  shown,        \* what the second child has printed of it
  handles,      \* signals the child has a handler for
  pending,      \* signals it has not taken yet
  g_fin         \* SIGHUP was caught

ipc == <<pipe, ends, got, seg, shown, handles, pending, g_fin>>
vars == <<prog, main, kid, turn, reaped, ipc>>

Kids == {1, 2}
Over == {"none", "ended", "failed", "killed"}

Init ==
  /\ prog \in {"pipe", "shm", "signal", "fork"}
  /\ main = IF prog = "shm" THEN "shmget" ELSE "fork"
  /\ kid = [k \in Kids |-> "none"]
  /\ turn = 0 /\ reaped = {}
  /\ pipe = 0 /\ got = 0
  /\ ends = IF prog = "pipe" THEN {"parent"} ELSE {}
  /\ seg = "none" /\ shown = "nothing"
  /\ handles = {} /\ pending = {} /\ g_fin = FALSE

MainAt(p, from) == prog = p /\ main = from
KidGoes(p, k, from, to) ==
  prog = p /\ kid[k] = from /\ kid' = [kid EXCEPT ![k] = to]

-----------------------------------------------------------------------------
(* Parents *)

ShmGet ==
  /\ MainAt("shm", "shmget")
  /\ \/ main' = "fork" /\ seg' = "zeros"
     \/ main' = "failed" /\ UNCHANGED seg
  /\ UNCHANGED <<prog, kid, turn, reaped, pipe, ends, got, shown, handles, pending, g_fin>>

\* fork(), once or twice; each may fail, and then the parent is all there is
Fork ==
  /\ main = "fork"
  /\ \E made \in SUBSET (IF prog \in {"shm", "fork"} THEN Kids ELSE {1}) :
       /\ kid' = [k \in Kids |-> IF k \in made THEN "start" ELSE "none"]
       /\ ends' = IF prog = "pipe" /\ 1 \in made THEN {"parent", "child"} ELSE ends
  /\ main' = CASE prog = "pipe" -> "write" [] prog = "signal" -> "int" [] OTHER -> "wait"
  /\ UNCHANGED <<prog, turn, reaped, pipe, got, seg, shown, handles, pending, g_fin>>

\* funcWrite(): one line; with nobody to read it, SIGPIPE
PipeWrite ==
  /\ MainAt("pipe", "write") /\ turn < Lines
  /\ IF kid[1] \in Over
       THEN main' = "killed" /\ ends' = ends \ {"parent"} /\ UNCHANGED <<turn, pipe>>
       ELSE turn' = turn + 1 /\ pipe' = pipe + 1 /\ UNCHANGED <<main, ends>>
  /\ UNCHANGED <<prog, kid, reaped, got, seg, shown, handles, pending, g_fin>>

PipeClose ==
  /\ MainAt("pipe", "write") /\ turn = Lines
  /\ main' = "ended" /\ ends' = ends \ {"parent"}
  /\ UNCHANGED <<prog, kid, turn, reaped, pipe, got, seg, shown, handles, pending, g_fin>>

\* kill(pid, SIGINT), three times, and kill(pid, SIGHUP); a second signal of a
\* kind that is still pending is lost.  After a fork() that failed pid is -1, and
\* every other process is signalled, of which there is none in the model.
Kill ==
  /\ MainAt("signal", "int")
  /\ pending' = IF kid[1] \in Over THEN pending
                ELSE pending \cup {IF turn < Lines THEN "INT" ELSE "HUP"}
  /\ turn' = turn + 1
  /\ main' = IF turn < Lines THEN main ELSE "ended"
  /\ UNCHANGED <<prog, kid, reaped, pipe, ends, got, seg, shown, handles, g_fin>>

\* wait(NULL), twice; it returns at once when there is no child left to wait for.
Wait ==
  /\ prog \in {"shm", "fork"} /\ main = "wait"
  /\ \/ \E k \in Kids \ reaped : kid[k] \in Over \ {"none"} /\ reaped' = reaped \cup {k}
     \/ (\A k \in Kids \ reaped : kid[k] = "none") /\ UNCHANGED reaped
  /\ turn' = turn + 1
  /\ main' = IF turn' < 2 THEN main ELSE IF prog = "shm" THEN "remove" ELSE "ended"
  /\ UNCHANGED <<prog, kid, ipc>>

\* shmctl(IPC_RMID)
ShmRemove ==
  /\ MainAt("shm", "remove")
  /\ main' = "ended" /\ seg' = "removed"
  /\ UNCHANGED <<prog, kid, turn, reaped, pipe, ends, got, shown, handles, pending, g_fin>>

Parent ==
  \/ ShmGet \/ Fork \/ PipeWrite \/ PipeClose \/ Kill \/ Wait \/ ShmRemove

-----------------------------------------------------------------------------
(* Children *)

\* mutant: the child keeps its write end open
PipeStartKeeps ==
  /\ KidGoes("pipe", 1, "start", "read")
  /\ UNCHANGED <<prog, main, turn, reaped, ipc>>

\* The child of ipc-pipe closes its write end ...
PipeStart ==
  /\ KidGoes("pipe", 1, "start", "read")
  /\ ends' = ends \ {"child"}
  /\ UNCHANGED <<prog, main, turn, reaped, pipe, got, seg, shown, handles, pending, g_fin>>

\* ... or would never see the end of the pipe.
PipeRead ==
  /\ \/ /\ prog = "pipe" /\ kid[1] = "read" /\ pipe > 0
        /\ pipe' = pipe - 1 /\ got' = got + 1 /\ UNCHANGED kid
     \/ /\ KidGoes("pipe", 1, "read", "ended") /\ pipe = 0 /\ ends = {}
        /\ UNCHANGED <<pipe, got>>
  /\ UNCHANGED <<prog, main, turn, reaped, ends, seg, shown, handles, pending, g_fin>>

\* shmat()
ShmAttach(k) ==
  /\ KidGoes("shm", k, "start", IF seg = "removed" THEN "failed" ELSE "attached")
  /\ UNCHANGED <<prog, main, turn, reaped, ipc>>

\* strcpy(), which the other child may watch
ShmSet ==
  /\ \/ KidGoes("shm", 1, "attached", "copying") /\ seg' = "part"
     \/ KidGoes("shm", 1, "copying", "ended") /\ seg' = "text"
  /\ UNCHANGED <<prog, main, turn, reaped, pipe, ends, got, shown, handles, pending, g_fin>>

ShmShow ==
  /\ KidGoes("shm", 2, "attached", "ended")
  /\ shown' = seg
  /\ UNCHANGED <<prog, main, turn, reaped, pipe, ends, got, seg, handles, pending, g_fin>>

\* signal(SIGINT, funcInt), then signal(SIGHUP, funcHup)
Handle ==
  /\ \/ KidGoes("signal", 1, "start", "half") /\ handles' = {"INT"}
     \/ KidGoes("signal", 1, "half", "loop") /\ handles' = {"INT", "HUP"}
  /\ UNCHANGED <<prog, main, turn, reaped, pipe, ends, got, seg, shown, pending, g_fin>>

\* A signal without a handler kills; the handler of SIGHUP sets g_fin.
Catch ==
  /\ prog = "signal" /\ kid[1] \notin Over
  /\ \E s \in pending :
       /\ pending' = pending \ {s}
       /\ kid' = [kid EXCEPT ![1] = IF s \in handles THEN @ ELSE "killed"]
       /\ g_fin' = (g_fin \/ (s = "HUP" /\ s \in handles))
  /\ UNCHANGED <<prog, main, turn, reaped, pipe, ends, got, seg, shown, handles>>

\* while (g_fin == 0)
LoopEnd ==
  /\ KidGoes("signal", 1, "loop", "ended") /\ g_fin
  /\ UNCHANGED <<prog, main, turn, reaped, ipc>>

\* A child of proc_fork prints its lines and exits.
ForkKid(k) ==
  /\ KidGoes("fork", k, "start", "ended")
  /\ UNCHANGED <<prog, main, turn, reaped, ipc>>

Child(k) ==
  \/ ShmAttach(k) \/ ForkKid(k)
  \/ k = 1 /\ (PipeStart \/ PipeRead \/ ShmSet \/ Handle \/ Catch \/ LoopEnd)
  \/ k = 2 /\ ShmShow

Next == Parent \/ \E k \in Kids : Child(k)

\* Every process runs on if it can.
Fairness == WF_vars(Parent) /\ \A k \in Kids : WF_vars(Child(k))

Spec == Init /\ [][Next]_vars /\ Fairness

-----------------------------------------------------------------------------
\* Every variable keeps its type.
TypeOK ==
  /\ main \in {"shmget", "fork", "write", "int", "wait", "remove", "ended", "killed", "failed"}
  /\ kid \in [Kids -> {"start", "read", "attached", "copying", "half", "loop"} \cup Over]
  /\ turn \in 0 .. Lines + 1 /\ reaped \subseteq Kids
  /\ pipe \in 0 .. Lines /\ ends \subseteq {"parent", "child"} /\ got \in 0 .. Lines
  /\ seg \in {"none", "zeros", "part", "text", "removed"}
  /\ shown \in {"nothing", "zeros", "part", "text"}
  /\ {handles, pending} \subseteq SUBSET {"INT", "HUP"} /\ g_fin \in BOOLEAN

\* Whatever sleep() does: when the child of the pipe has seen its end, it has read
\* every line (ipc-pipe.c:41), and no child comes too late for the segment, which
\* is removed after both have been waited for (ipc-sharedMemory.c:95).
NeverTooLate ==
  /\ prog = "pipe" /\ kid[1] = "ended" => got = Lines
  /\ \A k \in Kids : kid[k] # "failed"

\* The parent, or child k, can take a step: the guards of their actions.
ParentCanGo ==
  \/ main \in {"shmget", "fork", "write", "int", "remove"}
  \/ main = "wait" /\ \/ \E k \in Kids \ reaped : kid[k] \in Over \ {"none"}
                      \/ \A k \in Kids \ reaped : kid[k] = "none"

KidCanGo(k) ==
  \/ kid[k] \in {"start", "attached", "copying", "half"}
  \/ kid[k] = "read" /\ (pipe > 0 \/ ends = {})
  \/ kid[k] = "loop" /\ (g_fin \/ pending # {})

\* Until all are over, somebody can go on: a child that reads has a line or the
\* end of the pipe to come, one that loops SIGHUP, and a parent that waits a child
\* that ends (ipc-pipe.c:49, ipc-signal.c:36, ipc-sharedMemory.c:93-94).
NoDeadlock ==
  \/ main \in Over /\ \A k \in Kids : kid[k] \in Over
  \/ ParentCanGo \/ \E k \in Kids : KidCanGo(k)

\* Every parent and child ends, and NeverTooLate holds.  The child that waits for
\* SIGHUP has had it or died of a signal it was not ready for (ipc-signal.c:31, :36).
EndsWell ==
  /\ <>[](main \in Over /\ \A k \in Kids : kid[k] \in Over)
  /\ []NeverTooLate
=============================================================================
