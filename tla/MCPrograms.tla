------------------------------ MODULE MCPrograms ------------------------------
(***************************************************************************)
(* The small programs of several threads or processes, for one run of TLC: *)
(* a behaviour is one of ThreadFifo, SysVMsg, MutexThreads or ForkedProcs, *)
(* `which' says of which, and the others stay where they begin.  They do   *)
(* not meet in the repository either.  The arithmetic of ElapsedTime is    *)
(* evaluated with a second of ten parts and a long of as many seconds as   *)
(* the real one has.                                                       *)
(***************************************************************************)
EXTENDS ThreadFifo

CONSTANTS Procs, MaxMsgs, Incs, Reads, MaxWakes, Lines, Giga, Half

ASSUME BoundsOK == {MaxMsgs, Reads, MaxWakes} \subseteq Nat /\ {Incs, Lines} \subseteq Nat \ {0}

VARIABLES
  which,
  msgProg, life, sent, recv, qnum, robbed,
  mtxProg, lock, pc, mtxTurn, val, seen, printed, lines, wakes,
  prcProg, parent, kid, turn, reaped, pipe, ends, got, seg, shown, handles, pending, g_fin

Msg == INSTANCE SysVMsg WITH prog <- msgProg
Mtx == INSTANCE MutexThreads WITH prog <- mtxProg, turn <- mtxTurn
Prc == INSTANCE ForkedProcs WITH prog <- prcProg, main <- parent
Tim == INSTANCE ElapsedTime

msgVars == <<msgProg, life, sent, recv, qnum, robbed>>
mtxVars == <<mtxProg, lock, pc, mtxTurn, val, seen, printed, lines, wakes>>
prcVars == <<prcProg, parent, kid, turn, reaped, pipe, ends, got, seg, shown, handles,
             pending, g_fin>>
allVars == <<which, vars, msgVars, mtxVars, prcVars>>

MCInit ==
  /\ which \in {"fifo", "msg", "mutex", "fork"}
  /\ Init /\ Msg!Init /\ Mtx!Init /\ Prc!Init
  /\ which # "msg" => msgProg = [p \in Procs |-> "msg_0"]
  /\ which # "mutex" => mtxProg = "signal"
  /\ which # "fork" => prcProg = "fork"

MCNext ==
  \/ which = "fifo" /\ Next /\ UNCHANGED <<which, msgVars, mtxVars, prcVars>>
  \/ which = "msg" /\ Msg!Next /\ UNCHANGED <<which, vars, mtxVars, prcVars>>
  \/ which = "mutex" /\ Mtx!Next /\ UNCHANGED <<which, vars, msgVars, prcVars>>
  \/ which = "fork" /\ Prc!Next /\ UNCHANGED <<which, vars, msgVars, mtxVars>>

\* The Fairness of each module, for the one that runs.  (In SysVMsg nothing is
\* fair before a Start.)
MCFairness ==
  /\ WF_vars(which = "fifo" /\ MainStep)
  /\ \A t \in Threads : WF_vars(which = "fifo" /\ ThreadStep(t))
  /\ Msg!Fairness
  /\ WF_mtxVars(which = "mutex" /\ Mtx!MainStep)
  /\ \A t \in {"t1", "t2"} : WF_mtxVars(which = "mutex" /\ Mtx!ThreadStep(t))
  /\ WF_prcVars(which = "fork" /\ Prc!Parent)
  /\ \A k \in {1, 2} : WF_prcVars(which = "fork" /\ Prc!Child(k))

MCSpec == MCInit /\ [][MCNext]_allVars /\ MCFairness

-----------------------------------------------------------------------------
\* The type invariants of the four modules.
TypesOK == TypeOK /\ Msg!TypeOK /\ Mtx!TypeOK /\ Prc!TypeOK

\* The properties of SysVMsg and MutexThreads, see there.
SeenIsThere == Msg!SeenIsThere
Drains == which = "msg" => Msg!Drains
DocumentedOrder == Mtx!DocumentedOrder

\* Nobody waits for what nobody will do: see NoDeadlock in ThreadFifo, MutexThreads
\* and ForkedProcs.  (A program of SysVMsg may wait for a message for ever.)
NobodyStuck == NoDeadlock /\ Mtx!NoDeadlock /\ Prc!NoDeadlock

\* The programs that are meant to end do, each with its work done: see
\* Termination in ThreadFifo, EndsWell in MutexThreads and in ForkedProcs.
ProgramsEnd ==
  /\ which = "fifo" => Termination
  /\ which = "mutex" => Mtx!EndsWell
  /\ which = "fork" => Prc!EndsWell

\* The two differences, for readings from three seconds before to four after 0.
Readings == [sec : -3 .. 4, nsec : 0 .. Giga - 1]

ASSUME DifferencesOK ==
  \A tp1, tp2 \in Readings : Tim!BorrowExact(tp1, tp2) /\ Tim!ElapsedExact(tp1, tp2)
=============================================================================
