----------------------------- MODULE ProgramsProofs -----------------------------
(***************************************************************************)
(* Proofs about the programs MCPrograms puts together, for all values of   *)
(* its constants: an inductive invariant for each of ThreadFifo, SysVMsg,  *)
(* MutexThreads and ForkedProcs, and what the subtractions of ElapsedTime  *)
(* compute.  The theorems about the programs together are at the end.      *)
(***************************************************************************)
EXTENDS MCPrograms, SequenceTheorems, TLAPS

-----------------------------------------------------------------------------
(* ThreadFifo.  The invariant says who owns the two mutexes at each place of *)
(* the program (OwnerInv) and where an owner is (HeldInv), which threads     *)
(* exist (CreatedInv), which have given their signal (SignalInv), that       *)
(* nobody is through the barrier while main() keeps it closed (BarrierInv),  *)
(* and where each result is (PretInv).                                       *)

BarrierClosed == {"barrier", "create", "created", "waiting", "woken", "release"}
AllExist == {"release", "join", "print", "free", "returned"}
Signalled == {"signalled", "barrier", "through", "work", "ended"}

OwnerInv ==
  /\ mainPc \in {"create", "created"} => s_m1 = Main
  /\ mainPc \in BarrierClosed => s_m2 = Main
  /\ \A t \in Threads : thrPc[t] \in {"signal", "signalled"} => s_m1 = t
  /\ \A t \in Threads : thrPc[t] = "through" => s_m2 = t

HeldInv ==
  mainPc = "failed" \/
    /\ \/ s_m1 = Free
       \/ s_m1 = Main /\ mainPc \in {"create", "created"}
       \/ s_m1 \in Threads /\ thrPc[s_m1] \in {"signal", "signalled"}
    /\ \/ s_m2 = Free
       \/ s_m2 = Main /\ mainPc \in BarrierClosed
       \/ s_m2 \in Threads /\ thrPc[s_m2] = "through"

CreatedInv ==
  /\ mainPc \in {"start", "barrier"} => loop = 0
  /\ mainPc \in {"start", "barrier", "failed"} => \A t \in Threads : thrPc[t] = "none"
  /\ mainPc = "create" => \A t \in Threads : thrPc[t] = "none" <=> t >= loop
  /\ mainPc \in {"created", "waiting", "woken"} =>
       loop < kNumThread /\ \A t \in Threads : thrPc[t] = "none" <=> t > loop
  /\ mainPc \in AllExist => \A t \in Threads : thrPc[t] # "none"

SignalInv ==
  /\ mainPc = "created" => thrPc[loop] \in {"started", "ready"}
  /\ NoLostWakeup
  /\ ~spurious =>
       /\ mainPc \in {"create", "created", "waiting", "woken"} =>
            \A t \in Threads : t < loop => thrPc[t] \in Signalled
       /\ mainPc = "woken" => thrPc[loop] \in Signalled
       /\ mainPc \in AllExist => \A t \in Threads : thrPc[t] \in Signalled
       /\ IndexCorrect

BarrierInv ==
  \A t \in Threads : thrPc[t] \in {"through", "work", "ended"} =>
                      mainPc \in {"join", "print", "free", "returned"}

PretInv ==
  /\ mainPc = "join" => \A t \in Threads : t < loop => thrPc[t] = "ended"
  /\ mainPc \in {"print", "free", "returned"} => \A t \in Threads : thrPc[t] = "ended"
  /\ mainPc \in {"join", "print"} =>
       \A t \in Threads : thrPc[t] = "ended" => pret[t] = "written"
  /\ mainPc = "free" =>
       \A t \in Threads : pret[t] = IF t < loop THEN "freed" ELSE "written"
  /\ mainPc = "returned" => \A t \in Threads : pret[t] = "freed"
  /\ \A t \in Threads : pret[t] = "freed" => mainPc \in {"free", "returned"}

FifoInv == TypeOK /\ OwnerInv /\ HeldInv /\ CreatedInv /\ SignalInv /\ BarrierInv /\ PretInv

LEMMA FifoInit == Init => FifoInv
<1> SUFFICES ASSUME Init PROVE FifoInv
  OBVIOUS
<1> USE NumThreadOK DEF Init, Threads, Main, Free
<1>1. TypeOK
  <2>1. s_m1 \in 0 .. kNumThread + 1 /\ s_m2 \in 0 .. kNumThread + 1 /\ loop \in 0 .. kNumThread
    OBVIOUS
  <2>2. /\ thrPc \in [Threads -> {"none", "started", "ready", "signal", "signalled", "barrier",
                                  "through", "work", "ended"}]
        /\ index \in [Threads -> 0 .. kNumThread]
        /\ pret \in [Threads -> {"none", "allocated", "written", "freed"}]
    OBVIOUS
  <2>3. QED
    BY <2>1, <2>2 DEF TypeOK
<1>2. OwnerInv /\ HeldInv
  BY DEF OwnerInv, HeldInv, BarrierClosed
<1>3. CreatedInv
  BY DEF CreatedInv, AllExist
<1>4. SignalInv
  BY DEF SignalInv, NoLostWakeup, IndexCorrect, HasIndex, AllExist
<1>5. BarrierInv /\ PretInv
  BY DEF BarrierInv, PretInv
<1>6. QED
  BY <1>1, <1>2, <1>3, <1>4, <1>5 DEF FifoInv

LEMMA TypeStep == FifoInv /\ [Next]_vars => TypeOK'
<1> SUFFICES ASSUME FifoInv, [Next]_vars PROVE TypeOK'
  OBVIOUS
<1> USE NumThreadOK DEF TypeOK, Threads, Main, Free, mutexes, CreatedInv
<1>0. TypeOK /\ CreatedInv
  BY DEF FifoInv
<1>1. CASE MainLockM2
  BY <1>0, <1>1 DEF MainLockM2
<1>2. CASE MainLockM1
  BY <1>0, <1>2 DEF MainLockM1
<1>3. CASE MainCreate
  BY <1>0, <1>3 DEF MainCreate
<1>4. CASE MainCreateFails
  BY <1>0, <1>4 DEF MainCreateFails
<1>5. CASE MainCondWait
  BY <1>0, <1>5 DEF MainCondWait
<1>6. CASE MainCondWaited
  BY <1>0, <1>6 DEF MainCondWaited
<1>7. CASE MainUnlockM1
  BY <1>0, <1>7 DEF MainUnlockM1
<1>8. CASE MainUnlockM2
  BY <1>0, <1>8 DEF MainUnlockM2
<1>9. CASE MainJoin
  BY <1>0, <1>9 DEF MainJoin, Turn
<1>10. CASE MainPrint
  BY <1>0, <1>10 DEF MainPrint, Turn
<1>11. CASE MainFree
  BY <1>0, <1>11 DEF MainFree, Turn
<1>12. CASE MainWakesSpuriously
  BY <1>0, <1>12 DEF MainWakesSpuriously
<1>13. ASSUME NEW t \in Threads, ThreadReadIndex(t) PROVE TypeOK'
  BY <1>0, <1>13 DEF ThreadReadIndex, Goes
<1>14. ASSUME NEW t \in Threads, ThreadLockM1(t) PROVE TypeOK'
  BY <1>0, <1>14 DEF ThreadLockM1, Goes
<1>15. ASSUME NEW t \in Threads, ThreadSignal(t) PROVE TypeOK'
  BY <1>0, <1>15 DEF ThreadSignal, Goes
<1>16. ASSUME NEW t \in Threads, ThreadUnlockM1(t) PROVE TypeOK'
  BY <1>0, <1>16 DEF ThreadUnlockM1, Goes
<1>17. ASSUME NEW t \in Threads, ThreadLockM2(t) PROVE TypeOK'
  BY <1>0, <1>17 DEF ThreadLockM2, Goes
<1>18. ASSUME NEW t \in Threads, ThreadUnlockM2(t) PROVE TypeOK'
  BY <1>0, <1>18 DEF ThreadUnlockM2, Goes
<1>19. ASSUME NEW t \in Threads, ThreadWork(t) PROVE TypeOK'
  BY <1>0, <1>19 DEF ThreadWork, Goes
<1>20. CASE UNCHANGED vars
  BY <1>0, <1>20 DEF vars
<1>21. QED
  BY <1>1, <1>2, <1>3, <1>4, <1>5, <1>6, <1>7, <1>8, <1>9, <1>10, <1>11, <1>12, <1>13,
     <1>14, <1>15, <1>16, <1>17, <1>18, <1>19, <1>20 DEF Next, MainStep, ThreadStep

LEMMA OwnerStep == FifoInv /\ [Next]_vars => OwnerInv'
<1> SUFFICES ASSUME FifoInv, [Next]_vars PROVE OwnerInv'
  OBVIOUS
<1> USE NumThreadOK DEF TypeOK, Threads, Main, Free, mutexes, OwnerInv, CreatedInv, BarrierClosed
<1>0. TypeOK /\ OwnerInv /\ CreatedInv
  BY DEF FifoInv
<1>1. CASE MainLockM2
  BY <1>0, <1>1 DEF MainLockM2
<1>2. CASE MainLockM1
  BY <1>0, <1>2 DEF MainLockM1
<1>3. CASE MainCreate
  BY <1>0, <1>3 DEF MainCreate
<1>4. CASE MainCreateFails
  BY <1>0, <1>4 DEF MainCreateFails
<1>5. CASE MainCondWait
  BY <1>0, <1>5 DEF MainCondWait
<1>6. CASE MainCondWaited
  BY <1>0, <1>6 DEF MainCondWaited
<1>7. CASE MainUnlockM1
  BY <1>0, <1>7 DEF MainUnlockM1
<1>8. CASE MainUnlockM2
  BY <1>0, <1>8 DEF MainUnlockM2
<1>9. CASE MainJoin
  BY <1>0, <1>9 DEF MainJoin, Turn
<1>10. CASE MainPrint
  BY <1>0, <1>10 DEF MainPrint, Turn
<1>11. CASE MainFree
  BY <1>0, <1>11 DEF MainFree, Turn
<1>12. CASE MainWakesSpuriously
  BY <1>0, <1>12 DEF MainWakesSpuriously
<1>13. ASSUME NEW t \in Threads, ThreadReadIndex(t) PROVE OwnerInv'
  BY <1>0, <1>13 DEF ThreadReadIndex, Goes
<1>14. ASSUME NEW t \in Threads, ThreadLockM1(t) PROVE OwnerInv'
  BY <1>0, <1>14 DEF ThreadLockM1, Goes
<1>15. ASSUME NEW t \in Threads, ThreadSignal(t) PROVE OwnerInv'
  BY <1>0, <1>15 DEF ThreadSignal, Goes
<1>16. ASSUME NEW t \in Threads, ThreadUnlockM1(t) PROVE OwnerInv'
  BY <1>0, <1>16 DEF ThreadUnlockM1, Goes
<1>17. ASSUME NEW t \in Threads, ThreadLockM2(t) PROVE OwnerInv'
  BY <1>0, <1>17 DEF ThreadLockM2, Goes
<1>18. ASSUME NEW t \in Threads, ThreadUnlockM2(t) PROVE OwnerInv'
  BY <1>0, <1>18 DEF ThreadUnlockM2, Goes
<1>19. ASSUME NEW t \in Threads, ThreadWork(t) PROVE OwnerInv'
  BY <1>0, <1>19 DEF ThreadWork, Goes
<1>20. CASE UNCHANGED vars
  BY <1>0, <1>20 DEF vars
<1>21. QED
  BY <1>1, <1>2, <1>3, <1>4, <1>5, <1>6, <1>7, <1>8, <1>9, <1>10, <1>11, <1>12, <1>13,
     <1>14, <1>15, <1>16, <1>17, <1>18, <1>19, <1>20 DEF Next, MainStep, ThreadStep

LEMMA HeldStep == FifoInv /\ [Next]_vars => HeldInv'
<1> SUFFICES ASSUME FifoInv, [Next]_vars PROVE HeldInv'
  OBVIOUS
<1> USE NumThreadOK
        DEF TypeOK, Threads, Main, Free, mutexes, OwnerInv, CreatedInv, HeldInv, BarrierClosed
<1>0. TypeOK /\ OwnerInv /\ CreatedInv /\ HeldInv
  BY DEF FifoInv
<1>1. CASE MainLockM2
  BY <1>0, <1>1 DEF MainLockM2
<1>2. CASE MainLockM1
  BY <1>0, <1>2 DEF MainLockM1
<1>3. CASE MainCreate
  BY <1>0, <1>3 DEF MainCreate
<1>4. CASE MainCreateFails
  BY <1>0, <1>4 DEF MainCreateFails
<1>5. CASE MainCondWait
  BY <1>0, <1>5 DEF MainCondWait
<1>6. CASE MainCondWaited
  BY <1>0, <1>6 DEF MainCondWaited
<1>7. CASE MainUnlockM1
  BY <1>0, <1>7 DEF MainUnlockM1
<1>8. CASE MainUnlockM2
  BY <1>0, <1>8 DEF MainUnlockM2
<1>9. CASE MainJoin
  BY <1>0, <1>9 DEF MainJoin, Turn
<1>10. CASE MainPrint
  BY <1>0, <1>10 DEF MainPrint, Turn
<1>11. CASE MainFree
  BY <1>0, <1>11 DEF MainFree, Turn
<1>12. CASE MainWakesSpuriously
  BY <1>0, <1>12 DEF MainWakesSpuriously
<1>13. ASSUME NEW t \in Threads, ThreadReadIndex(t) PROVE HeldInv'
  BY <1>0, <1>13 DEF ThreadReadIndex, Goes
<1>14. ASSUME NEW t \in Threads, ThreadLockM1(t) PROVE HeldInv'
  BY <1>0, <1>14 DEF ThreadLockM1, Goes
<1>15. ASSUME NEW t \in Threads, ThreadSignal(t) PROVE HeldInv'
  BY <1>0, <1>15 DEF ThreadSignal, Goes
<1>16. ASSUME NEW t \in Threads, ThreadUnlockM1(t) PROVE HeldInv'
  BY <1>0, <1>16 DEF ThreadUnlockM1, Goes
<1>17. ASSUME NEW t \in Threads, ThreadLockM2(t) PROVE HeldInv'
  BY <1>0, <1>17 DEF ThreadLockM2, Goes
<1>18. ASSUME NEW t \in Threads, ThreadUnlockM2(t) PROVE HeldInv'
  BY <1>0, <1>18 DEF ThreadUnlockM2, Goes
<1>19. ASSUME NEW t \in Threads, ThreadWork(t) PROVE HeldInv'
  BY <1>0, <1>19 DEF ThreadWork, Goes
<1>20. CASE UNCHANGED vars
  BY <1>0, <1>20 DEF vars
<1>21. QED
  BY <1>1, <1>2, <1>3, <1>4, <1>5, <1>6, <1>7, <1>8, <1>9, <1>10, <1>11, <1>12, <1>13,
     <1>14, <1>15, <1>16, <1>17, <1>18, <1>19, <1>20 DEF Next, MainStep, ThreadStep

LEMMA CreatedStep == FifoInv /\ [Next]_vars => CreatedInv'
<1> SUFFICES ASSUME FifoInv, [Next]_vars PROVE CreatedInv'
  OBVIOUS
<1> USE NumThreadOK DEF TypeOK, Threads, Main, Free, mutexes, CreatedInv, AllExist
<1>0. TypeOK /\ CreatedInv
  BY DEF FifoInv
<1>1. CASE MainLockM2
  BY <1>0, <1>1 DEF MainLockM2
<1>2. CASE MainLockM1
  BY <1>0, <1>2 DEF MainLockM1
<1>3. CASE MainCreate
  BY <1>0, <1>3 DEF MainCreate
<1>4. CASE MainCreateFails
  BY <1>0, <1>4 DEF MainCreateFails
<1>5. CASE MainCondWait
  BY <1>0, <1>5 DEF MainCondWait
<1>6. CASE MainCondWaited
  BY <1>0, <1>6 DEF MainCondWaited
<1>7. CASE MainUnlockM1
  BY <1>0, <1>7 DEF MainUnlockM1
<1>8. CASE MainUnlockM2
  BY <1>0, <1>8 DEF MainUnlockM2
<1>9. CASE MainJoin
  BY <1>0, <1>9 DEF MainJoin, Turn
<1>10. CASE MainPrint
  BY <1>0, <1>10 DEF MainPrint, Turn
<1>11. CASE MainFree
  BY <1>0, <1>11 DEF MainFree, Turn
<1>12. CASE MainWakesSpuriously
  BY <1>0, <1>12 DEF MainWakesSpuriously
<1>13. ASSUME NEW t \in Threads, ThreadReadIndex(t) PROVE CreatedInv'
  BY <1>0, <1>13 DEF ThreadReadIndex, Goes
<1>14. ASSUME NEW t \in Threads, ThreadLockM1(t) PROVE CreatedInv'
  BY <1>0, <1>14 DEF ThreadLockM1, Goes
<1>15. ASSUME NEW t \in Threads, ThreadSignal(t) PROVE CreatedInv'
  BY <1>0, <1>15 DEF ThreadSignal, Goes
<1>16. ASSUME NEW t \in Threads, ThreadUnlockM1(t) PROVE CreatedInv'
  BY <1>0, <1>16 DEF ThreadUnlockM1, Goes
<1>17. ASSUME NEW t \in Threads, ThreadLockM2(t) PROVE CreatedInv'
  BY <1>0, <1>17 DEF ThreadLockM2, Goes
<1>18. ASSUME NEW t \in Threads, ThreadUnlockM2(t) PROVE CreatedInv'
  BY <1>0, <1>18 DEF ThreadUnlockM2, Goes
<1>19. ASSUME NEW t \in Threads, ThreadWork(t) PROVE CreatedInv'
  BY <1>0, <1>19 DEF ThreadWork, Goes
<1>20. CASE UNCHANGED vars
  BY <1>0, <1>20 DEF vars
<1>21. QED
  BY <1>1, <1>2, <1>3, <1>4, <1>5, <1>6, <1>7, <1>8, <1>9, <1>10, <1>11, <1>12, <1>13,
     <1>14, <1>15, <1>16, <1>17, <1>18, <1>19, <1>20 DEF Next, MainStep, ThreadStep

LEMMA SignalStep == FifoInv /\ [Next]_vars => SignalInv'
<1> SUFFICES ASSUME FifoInv, [Next]_vars PROVE SignalInv'
  OBVIOUS
<1> USE NumThreadOK DEF TypeOK, Threads, Main, Free, mutexes, OwnerInv, CreatedInv, SignalInv,
                        NoLostWakeup, IndexCorrect, HasIndex, AllExist, Signalled
<1>0. TypeOK /\ OwnerInv /\ CreatedInv /\ SignalInv
  BY DEF FifoInv
<1>1. CASE MainLockM2
  BY <1>0, <1>1 DEF MainLockM2
<1>2. CASE MainLockM1
  BY <1>0, <1>2 DEF MainLockM1
<1>3. CASE MainCreate
  BY <1>0, <1>3 DEF MainCreate
<1>4. CASE MainCreateFails
  BY <1>0, <1>4 DEF MainCreateFails
<1>5. CASE MainCondWait
  BY <1>0, <1>5 DEF MainCondWait
<1>6. CASE MainCondWaited
  BY <1>0, <1>6 DEF MainCondWaited
<1>7. CASE MainUnlockM1
  BY <1>0, <1>7 DEF MainUnlockM1
<1>8. CASE MainUnlockM2
  BY <1>0, <1>8 DEF MainUnlockM2
<1>9. CASE MainJoin
  BY <1>0, <1>9 DEF MainJoin, Turn
<1>10. CASE MainPrint
  BY <1>0, <1>10 DEF MainPrint, Turn
<1>11. CASE MainFree
  BY <1>0, <1>11 DEF MainFree, Turn
<1>12. CASE MainWakesSpuriously
  BY <1>0, <1>12 DEF MainWakesSpuriously
<1>13. ASSUME NEW t \in Threads, ThreadReadIndex(t) PROVE SignalInv'
  <2> USE <1>0, <1>13 DEF ThreadReadIndex, Goes
  <2> HIDE DEF OwnerInv, NoLostWakeup, IndexCorrect, HasIndex, AllExist, Signalled
  <2>1. ~spurious => t = loop /\ mainPc \in {"created", "waiting", "woken"}
    <3>1. thrPc[t] = "started" /\ thrPc[t] \notin Signalled
      BY DEF Signalled
    <3>2. mainPc \notin {"start", "barrier", "failed"}
      BY <3>1 DEF CreatedInv
    <3>3. ~spurious => mainPc \notin AllExist
      BY <3>1 DEF SignalInv
    <3>4. ~spurious => mainPc # "create"
      BY <3>1 DEF SignalInv, CreatedInv
    <3>5. ~spurious /\ mainPc \in {"created", "waiting", "woken"} => t = loop
      BY <3>1 DEF SignalInv, CreatedInv
    <3>6. QED
      BY <3>2, <3>3, <3>4, <3>5 DEF AllExist
  <2>2. mainPc' = "created" => thrPc'[loop'] \in {"started", "ready"}
    BY DEF CreatedInv, SignalInv
  <2>3. NoLostWakeup'
    BY DEF CreatedInv, SignalInv, NoLostWakeup
  <2>4. ~spurious => mainPc # "woken"
    BY <2>1 DEF SignalInv, Signalled
  <2>5. ~spurious' => IndexCorrect'
    BY <2>1 DEF SignalInv, IndexCorrect, HasIndex
  <2>6. ~spurious' /\ mainPc' \in {"create", "created", "waiting", "woken"} =>
          \A u \in Threads : u < loop' => thrPc'[u] \in Signalled
    BY <2>1 DEF SignalInv, Signalled
  <2>7. QED
    BY <2>1, <2>2, <2>3, <2>4, <2>5, <2>6 DEF SignalInv, AllExist
<1>14. ASSUME NEW t \in Threads, ThreadLockM1(t) PROVE SignalInv'
  BY <1>0, <1>14 DEF ThreadLockM1, Goes
<1>15. ASSUME NEW t \in Threads, ThreadSignal(t) PROVE SignalInv'
  BY <1>0, <1>15 DEF ThreadSignal, Goes
<1>16. ASSUME NEW t \in Threads, ThreadUnlockM1(t) PROVE SignalInv'
  BY <1>0, <1>16 DEF ThreadUnlockM1, Goes
<1>17. ASSUME NEW t \in Threads, ThreadLockM2(t) PROVE SignalInv'
  BY <1>0, <1>17 DEF ThreadLockM2, Goes
<1>18. ASSUME NEW t \in Threads, ThreadUnlockM2(t) PROVE SignalInv'
  BY <1>0, <1>18 DEF ThreadUnlockM2, Goes
<1>19. ASSUME NEW t \in Threads, ThreadWork(t) PROVE SignalInv'
  BY <1>0, <1>19 DEF ThreadWork, Goes
<1>20. CASE UNCHANGED vars
  BY <1>0, <1>20 DEF vars
<1>21. QED
  BY <1>1, <1>2, <1>3, <1>4, <1>5, <1>6, <1>7, <1>8, <1>9, <1>10, <1>11, <1>12, <1>13,
     <1>14, <1>15, <1>16, <1>17, <1>18, <1>19, <1>20 DEF Next, MainStep, ThreadStep

LEMMA BarrierStep == FifoInv /\ [Next]_vars => BarrierInv'
<1> SUFFICES ASSUME FifoInv, [Next]_vars PROVE BarrierInv'
  OBVIOUS
<1> USE NumThreadOK
        DEF TypeOK, Threads, Main, Free, mutexes, OwnerInv, CreatedInv, BarrierInv,
            BarrierClosed
<1>0. TypeOK /\ OwnerInv /\ CreatedInv /\ BarrierInv
  BY DEF FifoInv
<1>1. CASE MainLockM2
  BY <1>0, <1>1 DEF MainLockM2
<1>2. CASE MainLockM1
  BY <1>0, <1>2 DEF MainLockM1
<1>3. CASE MainCreate
  BY <1>0, <1>3 DEF MainCreate
<1>4. CASE MainCreateFails
  BY <1>0, <1>4 DEF MainCreateFails
<1>5. CASE MainCondWait
  BY <1>0, <1>5 DEF MainCondWait
<1>6. CASE MainCondWaited
  BY <1>0, <1>6 DEF MainCondWaited
<1>7. CASE MainUnlockM1
  BY <1>0, <1>7 DEF MainUnlockM1
<1>8. CASE MainUnlockM2
  BY <1>0, <1>8 DEF MainUnlockM2
<1>9. CASE MainJoin
  BY <1>0, <1>9 DEF MainJoin, Turn
<1>10. CASE MainPrint
  BY <1>0, <1>10 DEF MainPrint, Turn
<1>11. CASE MainFree
  BY <1>0, <1>11 DEF MainFree, Turn
<1>12. CASE MainWakesSpuriously
  BY <1>0, <1>12 DEF MainWakesSpuriously
<1>13. ASSUME NEW t \in Threads, ThreadReadIndex(t) PROVE BarrierInv'
  BY <1>0, <1>13 DEF ThreadReadIndex, Goes
<1>14. ASSUME NEW t \in Threads, ThreadLockM1(t) PROVE BarrierInv'
  BY <1>0, <1>14 DEF ThreadLockM1, Goes
<1>15. ASSUME NEW t \in Threads, ThreadSignal(t) PROVE BarrierInv'
  BY <1>0, <1>15 DEF ThreadSignal, Goes
<1>16. ASSUME NEW t \in Threads, ThreadUnlockM1(t) PROVE BarrierInv'
  BY <1>0, <1>16 DEF ThreadUnlockM1, Goes
<1>17. ASSUME NEW t \in Threads, ThreadLockM2(t) PROVE BarrierInv'
  BY <1>0, <1>17 DEF ThreadLockM2, Goes
<1>18. ASSUME NEW t \in Threads, ThreadUnlockM2(t) PROVE BarrierInv'
  BY <1>0, <1>18 DEF ThreadUnlockM2, Goes
<1>19. ASSUME NEW t \in Threads, ThreadWork(t) PROVE BarrierInv'
  BY <1>0, <1>19 DEF ThreadWork, Goes
<1>20. CASE UNCHANGED vars
  BY <1>0, <1>20 DEF vars
<1>21. QED
  BY <1>1, <1>2, <1>3, <1>4, <1>5, <1>6, <1>7, <1>8, <1>9, <1>10, <1>11, <1>12, <1>13,
     <1>14, <1>15, <1>16, <1>17, <1>18, <1>19, <1>20 DEF Next, MainStep, ThreadStep

LEMMA PretStep == FifoInv /\ [Next]_vars => PretInv'
<1> SUFFICES ASSUME FifoInv, [Next]_vars PROVE PretInv'
  OBVIOUS
<1> USE NumThreadOK DEF TypeOK, Threads, Main, Free, mutexes, CreatedInv, BarrierInv, PretInv
<1>0. TypeOK /\ CreatedInv /\ BarrierInv /\ PretInv
  BY DEF FifoInv
<1>1. CASE MainLockM2
  BY <1>0, <1>1 DEF MainLockM2
<1>2. CASE MainLockM1
  BY <1>0, <1>2 DEF MainLockM1
<1>3. CASE MainCreate
  BY <1>0, <1>3 DEF MainCreate
<1>4. CASE MainCreateFails
  BY <1>0, <1>4 DEF MainCreateFails
<1>5. CASE MainCondWait
  BY <1>0, <1>5 DEF MainCondWait
<1>6. CASE MainCondWaited
  BY <1>0, <1>6 DEF MainCondWaited
<1>7. CASE MainUnlockM1
  BY <1>0, <1>7 DEF MainUnlockM1
<1>8. CASE MainUnlockM2
  BY <1>0, <1>8 DEF MainUnlockM2
<1>9. CASE MainJoin
  BY <1>0, <1>9 DEF MainJoin, Turn
<1>10. CASE MainPrint
  BY <1>0, <1>10 DEF MainPrint, Turn
<1>11. CASE MainFree
  BY <1>0, <1>11 DEF MainFree, Turn
<1>12. CASE MainWakesSpuriously
  BY <1>0, <1>12 DEF MainWakesSpuriously
<1>13. ASSUME NEW t \in Threads, ThreadReadIndex(t) PROVE PretInv'
  BY <1>0, <1>13 DEF ThreadReadIndex, Goes
<1>14. ASSUME NEW t \in Threads, ThreadLockM1(t) PROVE PretInv'
  BY <1>0, <1>14 DEF ThreadLockM1, Goes
<1>15. ASSUME NEW t \in Threads, ThreadSignal(t) PROVE PretInv'
  BY <1>0, <1>15 DEF ThreadSignal, Goes
<1>16. ASSUME NEW t \in Threads, ThreadUnlockM1(t) PROVE PretInv'
  BY <1>0, <1>16 DEF ThreadUnlockM1, Goes
<1>17. ASSUME NEW t \in Threads, ThreadLockM2(t) PROVE PretInv'
  BY <1>0, <1>17 DEF ThreadLockM2, Goes
<1>18. ASSUME NEW t \in Threads, ThreadUnlockM2(t) PROVE PretInv'
  BY <1>0, <1>18 DEF ThreadUnlockM2, Goes
<1>19. ASSUME NEW t \in Threads, ThreadWork(t) PROVE PretInv'
  BY <1>0, <1>19 DEF ThreadWork, Goes
<1>20. CASE UNCHANGED vars
  BY <1>0, <1>20 DEF vars
<1>21. QED
  BY <1>1, <1>2, <1>3, <1>4, <1>5, <1>6, <1>7, <1>8, <1>9, <1>10, <1>11, <1>12, <1>13,
     <1>14, <1>15, <1>16, <1>17, <1>18, <1>19, <1>20 DEF Next, MainStep, ThreadStep

LEMMA FifoStep == FifoInv /\ [Next]_vars => FifoInv'
  BY TypeStep, OwnerStep, HeldStep, CreatedStep, SignalStep, BarrierStep, PretStep DEF FifoInv

LEMMA Inductive == Init /\ [][Next]_vars => []FifoInv
  BY FifoInit, FifoStep, PTL

-----------------------------------------------------------------------------
\* In every reachable state the variables have their types: the counter
\* stays within the array of threads, each mutex has one owner or none.
THEOREM TypeCorrect == Spec => []TypeOK
<1>1. FifoInv => TypeOK
  BY DEF FifoInv
<1>2. QED
  BY Inductive, <1>1, PTL DEF Spec

\* As long as the condition variable wakes main() only when it is signalled,
\* each thread reads its own number from the shared counter.
THEOREM IndexFromHandshake == Spec => []IndexUnlessSpurious
<1>1. FifoInv => IndexUnlessSpurious
  BY DEF FifoInv, SignalInv, IndexUnlessSpurious
<1>2. QED
  BY Inductive, <1>1, PTL DEF Spec

\* A sleeping main() is always owed a signal.
THEOREM WakeupOwed == Spec => []NoLostWakeup
<1>1. FifoInv => NoLostWakeup
  BY DEF FifoInv, SignalInv
<1>2. QED
  BY Inductive, <1>1, PTL DEF Spec

\* No thread passes the barrier before the last one exists.
THEOREM Barrier == Spec => []StartTogether
<1>1. FifoInv => StartTogether
  BY DEF FifoInv, BarrierInv, CreatedInv, AllExist, StartTogether
<1>2. QED
  BY Inductive, <1>1, PTL DEF Spec

\* main() prints results that were written, frees each one once and returns with
\* the heap freed.
THEOREM Results == Spec => []ResultsReady
<1>1. FifoInv => ResultsReady
  BY DEF FifoInv, PretInv, ResultsReady
<1>2. QED
  BY Inductive, <1>1, PTL DEF Spec

\* Until main() returns there is a step to take, for any number of threads: a
\* sleeping main() is owed a signal, and who has a mutex lets it go.
LEMMA FifoGoes == FifoInv => NoDeadlock
<1> SUFFICES ASSUME FifoInv, mainPc \notin {"returned", "failed"}, ~MainCanGo
             PROVE  \E t \in Threads : CanGo(t)
  BY DEF NoDeadlock
<1>0. TypeOK /\ HeldInv /\ CreatedInv /\ SignalInv
  BY DEF FifoInv
<1>1. CASE s_m1 \in Threads \/ s_m2 \in Threads
  <2>1. \E t \in Threads : thrPc[t] \in {"signal", "signalled", "through"}
    BY <1>0, <1>1, NumThreadOK DEF HeldInv, Main, Free, Threads
  <2> QED
    BY <2>1 DEF CanGo
<1>2. CASE s_m1 \notin Threads /\ s_m2 \notin Threads
  <2>1. mainPc \notin {"create", "created"} /\ s_m1 = Free
    BY <1>0, <1>2 DEF HeldInv, MainCanGo
  <2>2. mainPc \in {"waiting", "join"}
    BY <1>0, <1>2, <2>1 DEF HeldInv, MainCanGo, TypeOK, BarrierClosed
  <2>3. CASE mainPc = "waiting"
    <3>1. loop \in Threads /\ thrPc[loop] \in {"started", "ready", "signal"}
      BY <1>0, <2>3, NumThreadOK DEF SignalInv, NoLostWakeup, CreatedInv, TypeOK, Threads
    <3> QED
      BY <2>1, <3>1 DEF CanGo
  <2>4. CASE mainPc = "join"
    <3>1. loop \in Threads /\ thrPc[loop] \notin {"ended", "none"}
      BY <1>0, <2>4, NumThreadOK DEF MainCanGo, CreatedInv, AllExist, TypeOK, Threads
    <3>2. s_m2 = Free
      BY <1>0, <1>2, <2>4 DEF HeldInv, BarrierClosed
    <3> QED
      BY <1>0, <2>1, <3>1, <3>2 DEF CanGo, TypeOK
  <2> QED
    BY <2>2, <2>3, <2>4
<1> QED
  BY <1>1, <1>2

\* A result is not freed twice, nor written once it is freed
\* (posix_thread_4fifo.c:62, :66, :99).
NoUseAfterFree ==
  [][ /\ MainFree => (loop < kNumThread => pret[loop] = "written")
      /\ \A t \in Threads : pret[t] = "freed" => pret'[t] = "freed" ]_vars

\* No result is freed twice or used after it was freed, by any step.
THEOREM FreedOnce == Spec => NoUseAfterFree
<1>1. ASSUME FifoInv, [Next]_vars
      PROVE  [ /\ MainFree => (loop < kNumThread => pret[loop] = "written")
               /\ \A t \in Threads : pret[t] = "freed" => pret'[t] = "freed" ]_vars
  <2>1. MainFree => (loop < kNumThread => pret[loop] = "written")
    BY <1>1, NumThreadOK DEF FifoInv, TypeOK, PretInv, MainFree, Turn, Threads
  <2>2. ASSUME NEW t \in Threads, pret[t] = "freed" PROVE pret'[t] = "freed"
    <3>1. thrPc[t] = "ended"
      BY <1>1, <2>2 DEF FifoInv, PretInv
    <3>2. CASE MainFree
      BY <1>1, <2>2, <3>2 DEF FifoInv, TypeOK, MainFree
    <3>3. CASE UNCHANGED pret
      BY <2>2, <3>3
    <3>4. ASSUME NEW u \in Threads, ThreadReadIndex(u) \/ ThreadWork(u)
          PROVE  pret'[t] = "freed"
      BY <1>1, <2>2, <3>1, <3>4 DEF FifoInv, TypeOK, ThreadReadIndex, ThreadWork, Goes
    <3>5. QED
      BY <1>1, <3>2, <3>3, <3>4 DEF Next, MainStep, ThreadStep, vars, mutexes,
         MainLockM2, MainLockM1, MainCreate, MainCreateFails, MainCondWait, MainCondWaited,
         MainUnlockM1, MainUnlockM2, MainJoin, MainPrint, MainWakesSpuriously,
         ThreadLockM1, ThreadSignal, ThreadUnlockM1, ThreadLockM2, ThreadUnlockM2
  <2>3. QED
    BY <2>1, <2>2
<1>2. QED
  BY Inductive, <1>1, PTL DEF Spec, NoUseAfterFree

-----------------------------------------------------------------------------
(* SysVMsg *)

MsgInv == sent \in [Procs -> Nat] /\ Msg!TypeOK /\ Msg!SeenIsThere

LEMMA MsgStep == MsgInv /\ [Msg!Next]_msgVars => MsgInv'
<1> SUFFICES ASSUME MsgInv, [Msg!Next]_msgVars PROVE MsgInv'
  OBVIOUS
<1> USE BoundsOK DEF MsgInv, Msg!TypeOK, Msg!SeenIsThere, Msg!Running, Msg!ToSend
<1>1. ASSUME NEW p \in Procs, Msg!Start(p) PROVE MsgInv'
  BY <1>1 DEF Msg!Start
<1>2. ASSUME NEW p \in Procs, Msg!Send(p) PROVE MsgInv'
  BY <1>2 DEF Msg!Send
<1>3. ASSUME NEW p \in Procs, Msg!Look(p) PROVE MsgInv'
  BY <1>3 DEF Msg!Look
<1>4. ASSUME NEW p \in Procs, Msg!Take(p) PROVE MsgInv'
  BY <1>4 DEF Msg!Take
<1>5. ASSUME NEW p \in Procs, Msg!Kill(p) PROVE MsgInv'
  BY <1>5 DEF Msg!Kill
<1>6. CASE UNCHANGED msgVars
  BY <1>6 DEF msgVars
<1> QED
  BY <1>1, <1>2, <1>3, <1>4, <1>5, <1>6 DEF Msg!Next

LEMMA MsgInitInv == Msg!Init => MsgInv
  BY BoundsOK DEF Msg!Init, MsgInv, Msg!TypeOK, Msg!SeenIsThere, Msg!Running, Msg!ToSend

-----------------------------------------------------------------------------
(* MutexThreads *)

Places == {"none", "start", "loop", "get", "set", "lock", "unlock", "unlocked", "join",
           "ended", "create", "created", "while", "waiting", "woken", "signal"}

Said == {"main:locked", "main:created", "main:signaled", "main:unlocked",
         "thread:locked", "thread:signal", "thread:unlocked"}

MtxTypes ==
  /\ mtxProg \in {"variable", "signal"} /\ lock \in {"free", "main", "t1", "t2"}
  /\ pc \in [{"main", "t1", "t2"} -> Places] /\ mtxTurn \in [{"t1", "t2"} -> Nat]
  /\ val \in Nat /\ seen \in Nat /\ printed \in Nat
  /\ lines \in Seq(Said) /\ wakes \in 0 .. MaxWakes

LEMMA SaidLines ==
  /\ "main:locked" \in Said /\ "main:created" \in Said /\ "main:signaled" \in Said
  /\ "main:unlocked" \in Said /\ "thread:locked" \in Said
  /\ "thread:signal" \in Said /\ "thread:unlocked" \in Said
  BY DEF Said

\* What saying a line does to the output
LEMMA SaysLine ==
  ASSUME lines \in Seq(Said), NEW line \in Said, Mtx!Says(line)
  PROVE  /\ lines' \in Seq(Said) /\ Len(lines') = Len(lines) + 1
         /\ lines'[Len(lines) + 1] = line
         /\ \A i \in 1 .. Len(lines) : lines'[i] = lines[i]
  BY AppendProperties DEF Mtx!Says

LEMMA MtxTypesStep == MtxTypes /\ [Mtx!Next]_mtxVars => MtxTypes'
<1> SUFFICES ASSUME MtxTypes, [Mtx!Next]_mtxVars PROVE MtxTypes'
  OBVIOUS
<1> USE BoundsOK DEF MtxTypes, Mtx!At, Mtx!Goes, Mtx!Locks, Places
<1>1. CASE Mtx!CreateBoth
  BY <1>1 DEF Mtx!CreateBoth
<1>2. CASE Mtx!JoinBoth
  BY <1>2 DEF Mtx!JoinBoth
<1>3. CASE Mtx!MainLock
  <2>2. lines' \in Seq(Said)
    BY <1>3, SaidLines, SaysLine DEF Mtx!MainLock
  <2> QED
    BY <1>3, <2>2 DEF Mtx!MainLock
<1>4. CASE Mtx!MainCreate
  BY <1>4 DEF Mtx!MainCreate
<1>5. CASE Mtx!MainCreated
  <2>2. lines' \in Seq(Said)
    BY <1>5, SaidLines, SaysLine DEF Mtx!MainCreated
  <2> QED
    BY <1>5, <2>2 DEF Mtx!MainCreated
<1>6. CASE Mtx!MainWhile
  BY <1>6 DEF Mtx!MainWhile
<1>7. CASE Mtx!MainWaited
  <2>2. lines' \in Seq(Said)
    BY <1>7, SaidLines, SaysLine DEF Mtx!MainWaited
  <2> QED
    BY <1>7, <2>2 DEF Mtx!MainWaited
<1>8. CASE Mtx!MainUnlocked
  <2>2. lines' \in Seq(Said)
    BY <1>8, SaidLines, SaysLine DEF Mtx!MainUnlocked
  <2> QED
    BY <1>8, <2>2 DEF Mtx!MainUnlocked
<1>9. CASE Mtx!MainJoin
  BY <1>9 DEF Mtx!MainJoin
<1>10. CASE Mtx!MainWakesSpuriously
  BY <1>10 DEF Mtx!MainWakesSpuriously
<1>11. ASSUME NEW t \in {"t1", "t2"}, Mtx!LoopLock(t) PROVE MtxTypes'
  BY <1>11 DEF Mtx!LoopLock
<1>12. ASSUME NEW t \in {"t1", "t2"}, Mtx!LoopUnlock(t) PROVE MtxTypes'
  BY <1>12 DEF Mtx!LoopUnlock
<1>13. ASSUME NEW t \in {"t1", "t2"}, Mtx!LoopEnd(t) PROVE MtxTypes'
  BY <1>13 DEF Mtx!LoopEnd
<1>14. CASE Mtx!Get
  BY <1>14 DEF Mtx!Get
<1>15. CASE Mtx!Set
  BY <1>15 DEF Mtx!Set
<1>16. CASE Mtx!ThreadLock
  <2>2. lines' \in Seq(Said)
    BY <1>16, SaidLines, SaysLine DEF Mtx!ThreadLock
  <2> QED
    BY <1>16, <2>2 DEF Mtx!ThreadLock
<1>17. CASE Mtx!ThreadSignal
  <2>2. lines' \in Seq(Said)
    BY <1>17, SaidLines, SaysLine DEF Mtx!ThreadSignal
  <2> QED
    BY <1>17, <2>2 DEF Mtx!ThreadSignal
<1>18. CASE Mtx!ThreadUnlock
  BY <1>18 DEF Mtx!ThreadUnlock
<1>19. CASE Mtx!ThreadUnlocked
  <2>2. lines' \in Seq(Said)
    BY <1>19, SaidLines, SaysLine DEF Mtx!ThreadUnlocked
  <2> QED
    BY <1>19, <2>2 DEF Mtx!ThreadUnlocked
<1>20. CASE Mtx!PrintLocked
  BY <1>20 DEF Mtx!PrintLocked
<1>21. CASE Mtx!PrintUnlocked
  BY <1>21 DEF Mtx!PrintUnlocked
<1>22. CASE UNCHANGED mtxVars
  BY <1>22 DEF mtxVars
<1> QED
  BY <1>1, <1>2, <1>3, <1>4, <1>5, <1>6, <1>7, <1>8, <1>9, <1>10, <1>11, <1>12, <1>13,
     <1>14, <1>15, <1>16, <1>17, <1>18, <1>19, <1>20, <1>21, <1>22
     DEF Mtx!Next, Mtx!MainStep, Mtx!ThreadStep

\* mutex_variable: t1 counts under the lock, so that what it has read is still
\* the value when it writes.
CountInv ==
  /\ pc["main"] \in {"start", "join", "ended"}
  /\ pc["main"] = "start" <=> pc["t1"] = "none"
  /\ pc["t1"] \in {"none", "loop", "get", "set", "unlock", "ended"}
  /\ pc["t2"] \in {"none", "loop", "get", "unlock", "ended"}
  /\ pc["main"] = "start" <=> pc["t2"] = "none"
  /\ lock # "main"
  /\ lock = "t1" => pc["t1"] \in {"get", "set", "unlock"}
  /\ lock = "t2" => pc["t2"] \in {"get", "unlock"}
  /\ mtxTurn["t1"] <= Incs /\ mtxTurn["t2"] <= Incs + Reads
  /\ pc["t1"] \in {"get", "set", "unlock"} => mtxTurn["t1"] < Incs
  /\ pc["t1"] = "ended" => mtxTurn["t1"] = Incs
  /\ pc["t2"] \in {"get", "unlock"} => mtxTurn["t2"] < Incs
  /\ pc["t1"] = "set" => seen = val
  /\ val = IF pc["t1"] = "unlock" THEN mtxTurn["t1"] + 1 ELSE mtxTurn["t1"]
  /\ seen <= val /\ printed <= val
  /\ pc["main"] = "ended" => pc["t1"] = "ended"

LEMMA CountStep ==
  MtxTypes /\ mtxProg = "variable" /\ CountInv /\ [Mtx!Next]_mtxVars => CountInv'
<1> SUFFICES ASSUME MtxTypes, mtxProg = "variable", CountInv, [Mtx!Next]_mtxVars
             PROVE  CountInv'
  OBVIOUS
<1> USE BoundsOK DEF MtxTypes, CountInv, Mtx!At, Mtx!Goes, Mtx!Locks
<1>1. CASE Mtx!CreateBoth
  BY <1>1 DEF Mtx!CreateBoth
<1>2. CASE Mtx!JoinBoth
  BY <1>2 DEF Mtx!JoinBoth
<1>3. ASSUME NEW t \in {"t1", "t2"}, Mtx!LoopLock(t) PROVE CountInv'
  BY <1>3 DEF Mtx!LoopLock
<1>4. ASSUME NEW t \in {"t1", "t2"}, Mtx!LoopUnlock(t) PROVE CountInv'
  <2>1. CASE t = "t1"
    BY <1>4, <2>1 DEF Mtx!LoopUnlock
  <2>2. CASE t = "t2"
    BY <1>4, <2>2 DEF Mtx!LoopUnlock
  <2> QED
    BY <2>1, <2>2
<1>5. ASSUME NEW t \in {"t1", "t2"}, Mtx!LoopEnd(t) PROVE CountInv'
  BY <1>5 DEF Mtx!LoopEnd
<1>6. CASE Mtx!Get
  BY <1>6 DEF Mtx!Get
<1>7. CASE Mtx!Set
  BY <1>7 DEF Mtx!Set
<1>8. CASE Mtx!PrintLocked
  BY <1>8 DEF Mtx!PrintLocked
<1>9. CASE Mtx!PrintUnlocked
  <2>1. mtxTurn'["t2"] <= Incs + Reads /\ mtxTurn'["t1"] = mtxTurn["t1"]
    BY <1>9 DEF Mtx!PrintUnlocked
  <2>2. UNCHANGED <<pc, lock, val, seen>> /\ printed' = val /\ pc["t2"] = "loop"
    BY <1>9 DEF Mtx!PrintUnlocked
  <2> QED
    BY <2>1, <2>2
<1>10. CASE UNCHANGED mtxVars
  BY <1>10 DEF mtxVars
<1> QED
  BY <1>1, <1>2, <1>3, <1>4, <1>5, <1>6, <1>7, <1>8, <1>9, <1>10
     DEF Mtx!Next, Mtx!MainStep, Mtx!ThreadStep, Mtx!MainLock, Mtx!MainCreate,
         Mtx!MainCreated, Mtx!MainWhile, Mtx!MainWaited, Mtx!MainUnlocked, Mtx!MainJoin,
         Mtx!MainWakesSpuriously, Mtx!ThreadLock, Mtx!ThreadSignal, Mtx!ThreadUnlock,
         Mtx!ThreadUnlocked

\* mutex_signal: the condition is the thread's place, and main() sleeps only as
\* long as it is not set.
WaitInv ==
  /\ pc["main"] \in {"start", "create", "created", "while", "waiting", "woken",
                     "unlocked", "join", "ended"}
  /\ pc["t1"] \in {"none", "lock", "signal", "unlock", "unlocked", "ended"}
  /\ pc["t2"] = "none"
  /\ pc["main"] \in {"start", "create"} <=> pc["t1"] = "none"
  /\ pc["main"] \in {"create", "created", "while"} => lock = "main"
  /\ pc["t1"] \in {"signal", "unlock"} => lock = "t1"
  /\ lock = "main" => pc["main"] \in {"create", "created", "while"}
  /\ lock = "t1" => pc["t1"] \in {"signal", "unlock"}
  /\ lock # "t2"
  /\ pc["main"] = "created" => pc["t1"] = "lock"
  /\ val = IF pc["t1"] \in {"unlock", "unlocked", "ended"} THEN 1 ELSE 0
  /\ pc["main"] = "waiting" => val = 0
  /\ pc["main"] \in {"unlocked", "join", "ended"} => val = 1
  /\ pc["main"] = "woken" /\ wakes = 0 => val = 1
  /\ pc["main"] = "ended" => pc["t1"] = "ended"
  /\ mtxTurn["t1"] = 0 /\ mtxTurn["t2"] = 0 /\ seen = 0 /\ printed = 0

LEMMA WaitStep ==
  MtxTypes /\ mtxProg = "signal" /\ WaitInv /\ [Mtx!Next]_mtxVars => WaitInv'
<1> SUFFICES ASSUME MtxTypes, mtxProg = "signal", WaitInv, [Mtx!Next]_mtxVars
             PROVE  WaitInv'
  OBVIOUS
<1> USE DEF MtxTypes, WaitInv, Mtx!At, Mtx!Goes, Mtx!Locks
<1>1. CASE Mtx!MainLock
  BY <1>1 DEF Mtx!MainLock
<1>2. CASE Mtx!MainCreate
  BY <1>2 DEF Mtx!MainCreate
<1>3. CASE Mtx!MainCreated
  BY <1>3 DEF Mtx!MainCreated
<1>4. CASE Mtx!MainWhile
  BY <1>4 DEF Mtx!MainWhile
<1>5. CASE Mtx!MainWaited
  BY <1>5 DEF Mtx!MainWaited
<1>6. CASE Mtx!MainUnlocked
  BY <1>6 DEF Mtx!MainUnlocked
<1>7. CASE Mtx!MainJoin
  BY <1>7 DEF Mtx!MainJoin
<1>8. CASE Mtx!MainWakesSpuriously
  BY <1>8 DEF Mtx!MainWakesSpuriously
<1>9. CASE Mtx!ThreadLock
  BY <1>9 DEF Mtx!ThreadLock
<1>10. CASE Mtx!ThreadSignal
  BY <1>10 DEF Mtx!ThreadSignal
<1>11. CASE Mtx!ThreadUnlock
  BY <1>11 DEF Mtx!ThreadUnlock
<1>12. CASE Mtx!ThreadUnlocked
  BY <1>12 DEF Mtx!ThreadUnlocked
<1>13. CASE UNCHANGED mtxVars
  BY <1>13 DEF mtxVars
<1> QED
  BY <1>1, <1>2, <1>3, <1>4, <1>5, <1>6, <1>7, <1>8, <1>9, <1>10, <1>11, <1>12, <1>13
     DEF Mtx!Next, Mtx!MainStep, Mtx!ThreadStep, Mtx!CreateBoth, Mtx!JoinBoth,
         Mtx!LoopLock, Mtx!LoopUnlock, Mtx!LoopEnd, Mtx!Get, Mtx!Set, Mtx!PrintLocked,
         Mtx!PrintUnlocked

\* How many of the promised lines are said, when nobody has woken for nothing
Progress ==
  IF pc["main"] = "start" THEN 0
  ELSE IF pc["main"] \in {"create", "created"} THEN 1
  ELSE IF pc["main"] = "woken" THEN 4
  ELSE IF pc["t1"] = "lock" THEN 2
  ELSE IF pc["t1"] = "signal" THEN 3
  ELSE IF pc["main"] \in {"while", "unlocked"} THEN 5 ELSE 6

Follows(n) == \A i \in 1 .. Len(lines) : lines[i] = Mtx!Output(n)[i]

SignalSaid == val = 1 => Mtx!Contains(lines, "thread:signal")

OrderInv ==
  wakes = 0 =>
    \E n \in 4 .. 6 :
      /\ Follows(n)
      /\ IF pc["t1"] = "ended" THEN n <= Progress /\ Len(lines) = Progress + 1
                               ELSE n = 6 /\ Len(lines) = Progress

LEMMA PromisedLines ==
  /\ Len(Mtx!Promised) = 6 /\ \A i \in 1 .. 6 : Mtx!Promised[i] \in Said
  /\ Mtx!Promised[1] = "main:locked" /\ Mtx!Promised[2] = "main:created"
  /\ Mtx!Promised[3] = "thread:locked" /\ Mtx!Promised[4] = "thread:signal"
  /\ Mtx!Promised[5] = "main:signaled" /\ Mtx!Promised[6] = "main:unlocked"
<1>1. Len(Mtx!Promised) = 6
  BY DEF Mtx!Promised
<1>2. /\ Mtx!Promised[1] = "main:locked" /\ Mtx!Promised[2] = "main:created"
      /\ Mtx!Promised[3] = "thread:locked" /\ Mtx!Promised[4] = "thread:signal"
      /\ Mtx!Promised[5] = "main:signaled" /\ Mtx!Promised[6] = "main:unlocked"
  BY DEF Mtx!Promised
<1>3. \A i \in 1 .. 6 : i = 1 \/ i = 2 \/ i = 3 \/ i = 4 \/ i = 5 \/ i = 6
  OBVIOUS
<1> QED
  BY <1>1, <1>2, <1>3, SaidLines

LEMMA OutputAt ==
  ASSUME NEW n \in 4 .. 6
  PROVE  /\ Len(Mtx!Output(n)) = 7 /\ Mtx!Output(n) \in Seq(Said)
         /\ \A i \in 1 .. 7 :
              /\ i <= n => Mtx!Output(n)[i] = Mtx!Promised[i]
              /\ i = n + 1 => Mtx!Output(n)[i] = "thread:unlocked"
              /\ i > n + 1 => Mtx!Output(n)[i] = Mtx!Promised[i - 1]
<1>1. Mtx!Output(n) =
        [i \in 1 .. 7 |-> IF i <= n THEN Mtx!Promised[i]
                          ELSE IF i = n + 1 THEN "thread:unlocked" ELSE Mtx!Promised[i - 1]]
  BY PromisedLines DEF Mtx!Output
<1>2. \A i \in 1 .. 7 :
        Mtx!Output(n)[i] = IF i <= n THEN Mtx!Promised[i]
                           ELSE IF i = n + 1 THEN "thread:unlocked" ELSE Mtx!Promised[i - 1]
  BY <1>1, Zenon
<1>3. DOMAIN Mtx!Output(n) = 1 .. 7
  BY <1>1
<1>4. Mtx!Output(n) = [i \in 1 .. 7 |-> Mtx!Output(n)[i]]
  BY <1>1, <1>3, Zenon
<1>5. \A i \in 1 .. 7 : Mtx!Output(n)[i] \in Said
  <2> SUFFICES ASSUME NEW i \in 1 .. 7 PROVE Mtx!Output(n)[i] \in Said
    OBVIOUS
  <2>1. CASE i <= n
    <3>1. Mtx!Output(n)[i] = Mtx!Promised[i]
      BY <1>2, <2>1
    <3>2. i \in 1 .. 6
      BY <2>1
    <3> QED
      BY <3>1, <3>2, PromisedLines
  <2>2. CASE i = n + 1
    <3>1. Mtx!Output(n)[i] = "thread:unlocked"
      BY <1>2, <2>2
    <3> QED
      BY <3>1, SaidLines
  <2>3. CASE i > n + 1
    <3>1. Mtx!Output(n)[i] = Mtx!Promised[i - 1] /\ i - 1 \in 1 .. 6
      BY <1>2, <2>3
    <3> QED
      BY <3>1, PromisedLines
  <2> QED
    BY <2>1, <2>2, <2>3
<1>6. Mtx!Output(n) \in Seq(Said) /\ Len(Mtx!Output(n)) = 7
  BY <1>3, <1>4, <1>5
<1> QED
  BY <1>2, <1>6

LEMMA OutputLines ==
  ASSUME NEW n \in 4 .. 6
  PROVE  /\ Mtx!Output(n)[1] = "main:locked" /\ Mtx!Output(n)[2] = "main:created"
         /\ Mtx!Output(n)[3] = "thread:locked" /\ Mtx!Output(n)[4] = "thread:signal"
         /\ Mtx!Output(n)[n + 1] = "thread:unlocked"
         /\ \A i \in 1 .. n : Mtx!Output(n)[i] = Mtx!Output(6)[i]
         /\ Mtx!Output(n)[IF n = 4 THEN 6 ELSE 5] = "main:signaled"
         /\ Mtx!Output(n)[IF n = 6 THEN 6 ELSE 7] = "main:unlocked"
<1>1. /\ Mtx!Output(n)[1] = "main:locked" /\ Mtx!Output(n)[2] = "main:created"
      /\ Mtx!Output(n)[3] = "thread:locked" /\ Mtx!Output(n)[4] = "thread:signal"
      /\ Mtx!Output(n)[n + 1] = "thread:unlocked"
  BY OutputAt, PromisedLines
<1>2. ASSUME NEW i \in 1 .. n PROVE Mtx!Output(n)[i] = Mtx!Output(6)[i]
  <2>1. i \in 1 .. 7 /\ i <= n /\ i <= 6
    OBVIOUS
  <2> QED
    BY <2>1, OutputAt
<1>3. CASE n = 4
  BY <1>1, <1>2, <1>3, OutputAt, PromisedLines
<1>4. CASE n = 5
  BY <1>1, <1>2, <1>4, OutputAt, PromisedLines
<1>5. CASE n = 6
  BY <1>1, <1>2, <1>5, OutputAt, PromisedLines
<1> QED
  BY <1>3, <1>4, <1>5

\* One more line that follows the same output
LEMMA OneMore ==
  ASSUME lines \in Seq(Said), NEW line \in Said, Mtx!Says(line), NEW n \in 4 .. 6,
         Follows(n), Mtx!Output(n)[Len(lines) + 1] = line
  PROVE  Follows(n)'
  BY SaysLine DEF Follows

LEMMA SignalSaidStep ==
  MtxTypes /\ mtxProg = "signal" /\ WaitInv /\ SignalSaid /\ [Mtx!Next]_mtxVars => SignalSaid'
<1> SUFFICES ASSUME MtxTypes, mtxProg = "signal", WaitInv, SignalSaid, [Mtx!Next]_mtxVars,
                    val' = 1
             PROVE  \E i \in 1 .. Len(lines') : lines'[i] = "thread:signal"
  BY DEF SignalSaid, Mtx!Contains
<1>1. CASE Mtx!ThreadSignal
  <2>1. lines'[Len(lines) + 1] = "thread:signal" /\ Len(lines') = Len(lines) + 1
    BY <1>1, SaidLines, SaysLine DEF MtxTypes, Mtx!ThreadSignal
  <2>2. Len(lines) \in Nat
    BY DEF MtxTypes
  <2>3. Len(lines) + 1 \in 1 .. Len(lines')
    BY <2>1, <2>2
  <2> QED
    BY <2>1, <2>3
<1>2. CASE val = 1 /\ UNCHANGED lines
  BY <1>2 DEF SignalSaid, Mtx!Contains
<1>3. CASE val = 1 /\ \E line \in Said : Mtx!Says(line)
  <2>1. PICK line \in Said : Mtx!Says(line)
    BY <1>3
  <2>2. PICK i \in 1 .. Len(lines) : lines[i] = "thread:signal"
    BY <1>3 DEF SignalSaid, Mtx!Contains
  <2>3. Len(lines') = Len(lines) + 1 /\ lines'[i] = lines[i]
    BY <2>1, SaysLine DEF MtxTypes
  <2>4. i \in 1 .. Len(lines')
    BY <2>3 DEF MtxTypes
  <2> QED
    BY <2>2, <2>3, <2>4
<1>4. Mtx!ThreadSignal \/ (UNCHANGED val /\ (UNCHANGED lines \/ \E line \in Said : Mtx!Says(line)))
  <2> QED
    BY SaidLines DEF Mtx!Next, Mtx!MainStep, Mtx!ThreadStep, mtxVars, Mtx!At, Mtx!Goes,
        Mtx!CreateBoth, Mtx!JoinBoth, Mtx!LoopLock, Mtx!LoopUnlock, Mtx!LoopEnd, Mtx!Get,
        Mtx!Set, Mtx!PrintLocked, Mtx!PrintUnlocked, Mtx!MainLock, Mtx!MainCreate,
        Mtx!MainCreated, Mtx!MainWhile, Mtx!MainWaited, Mtx!MainUnlocked, Mtx!MainJoin,
        Mtx!MainWakesSpuriously, Mtx!ThreadLock, Mtx!ThreadUnlock, Mtx!ThreadUnlocked
<1> QED
  BY <1>1, <1>2, <1>3, <1>4

LEMMA OrderStep ==
  MtxTypes /\ mtxProg = "signal" /\ WaitInv /\ OrderInv /\ [Mtx!Next]_mtxVars => OrderInv'
<1> SUFFICES ASSUME MtxTypes, mtxProg = "signal", WaitInv, OrderInv, [Mtx!Next]_mtxVars,
                    wakes' = 0
             PROVE  OrderInv'
  BY DEF OrderInv
<1>d. ~Mtx!MainWakesSpuriously
  BY DEF MtxTypes, Mtx!MainWakesSpuriously
<1>0. wakes = 0 /\ ~Mtx!MainWakesSpuriously
  BY <1>d DEF mtxVars, Mtx!Next, Mtx!MainStep, Mtx!ThreadStep,
        Mtx!CreateBoth, Mtx!JoinBoth, Mtx!LoopLock, Mtx!LoopUnlock, Mtx!LoopEnd, Mtx!Get,
        Mtx!Set, Mtx!PrintLocked, Mtx!PrintUnlocked, Mtx!MainLock, Mtx!MainCreate,
        Mtx!MainCreated, Mtx!MainWhile, Mtx!MainWaited, Mtx!MainUnlocked, Mtx!MainJoin,
        Mtx!ThreadLock, Mtx!ThreadSignal, Mtx!ThreadUnlock, Mtx!ThreadUnlocked
<1>a. PICK n \in 4 .. 6 :
        /\ Follows(n)
        /\ IF pc["t1"] = "ended" THEN n <= Progress /\ Len(lines) = Progress + 1
                                 ELSE n = 6 /\ Len(lines) = Progress
  BY <1>0 DEF OrderInv
<1>e. /\ pc["t1"] = "ended" => n <= Progress /\ Len(lines) = Progress + 1
      /\ pc["t1"] # "ended" => n = 6 /\ Len(lines) = Progress
  BY <1>a
<1>b. ASSUME UNCHANGED lines, Progress' = Progress, pc'["t1"] = "ended" <=> pc["t1"] = "ended"
      PROVE  OrderInv'
  BY <1>a, <1>b DEF OrderInv, Follows
<1>c. ASSUME NEW line \in Said, Mtx!Says(line), Progress' = Progress + 1, Progress \in Nat,
             pc'["t1"] = "ended" <=> pc["t1"] = "ended", Mtx!Output(n)[Len(lines) + 1] = line
      PROVE  OrderInv'
  <2>1. Follows(n)'
    BY <1>a, <1>c, OneMore DEF MtxTypes
  <2>2. Len(lines') = Len(lines) + 1
    BY <1>c, SaysLine DEF MtxTypes
  <2> QED
    BY <1>a, <1>c, <2>1, <2>2 DEF OrderInv
<1>t. lines \in Seq(Said) /\ pc \in [{"main", "t1", "t2"} -> Places]
  BY DEF MtxTypes
<1>1. CASE Mtx!MainLock
  <2>1. /\ pc["main"] = "start" /\ pc["t1"] = "none"
        /\ pc'["main"] = "create" /\ pc'["t1"] = "none"
        /\ UNCHANGED val /\ Mtx!Says("main:locked")
    BY <1>0, <1>1 DEF Mtx!MainLock, MtxTypes, WaitInv, Mtx!At, Mtx!Goes, Mtx!Locks
  <2>2. Progress = 0 /\ Progress' = 0 + 1
    BY <2>1 DEF Progress
  <2>3. Len(lines) = 0
    BY <1>e, <2>1, <2>2
  <2>4. Mtx!Output(n)[Len(lines) + 1] = "main:locked"
    BY <2>3, OutputLines
  <2> QED
    BY <1>c, <2>1, <2>2, <2>4, SaidLines
<1>2. CASE Mtx!MainCreate
  <2>1. /\ pc["main"] = "create" /\ pc["t1"] = "none"
        /\ pc'["main"] = "created" /\ pc'["t1"] = "lock" /\ UNCHANGED lines
    BY <1>0, <1>2 DEF Mtx!MainCreate, MtxTypes, WaitInv, Mtx!At, Mtx!Goes, Mtx!Locks
  <2> QED
    BY <1>b, <2>1 DEF Progress
<1>3. CASE Mtx!MainCreated
  <2>1. /\ pc["main"] = "created" /\ pc["t1"] = "lock"
        /\ pc'["main"] = "while" /\ pc'["t1"] = "lock"
        /\ UNCHANGED val /\ Mtx!Says("main:created")
    BY <1>0, <1>3 DEF Mtx!MainCreated, MtxTypes, WaitInv, Mtx!At, Mtx!Goes, Mtx!Locks
  <2>2. Progress = 1 /\ Progress' = 1 + 1
    <3>1. Progress = 1
      BY <2>1 DEF Progress
    <3>2. Progress' = 2
      BY <2>1 DEF Progress
    <3> QED
      BY <3>1, <3>2
  <2>3. Len(lines) = 1
    BY <1>e, <2>1, <2>2
  <2>4. Mtx!Output(n)[Len(lines) + 1] = "main:created"
    BY <2>3, OutputLines
  <2> QED
    BY <1>c, <2>1, <2>2, <2>4, SaidLines
<1>4. CASE Mtx!MainWhile
  <2>1. /\ pc["main"] = "while" /\ UNCHANGED <<lines, val>>
        /\ \/ pc'["main"] = "waiting" /\ pc["t1"] = "lock" /\ pc'["t1"] = "lock"
           \/ /\ pc'["main"] = "unlocked" /\ val = 1 /\ pc["t1"] \notin {"lock", "signal"}
              /\ pc'["t1"] = pc["t1"]
    BY <1>0, <1>4 DEF Mtx!MainWhile, MtxTypes, WaitInv, Mtx!At, Mtx!Goes, Mtx!Locks
  <2>2. Progress' = Progress
    <3>1. CASE pc'["main"] = "waiting"
      BY <2>1, <3>1 DEF Progress
    <3>2. CASE pc'["main"] = "unlocked"
      BY <2>1, <3>2 DEF Progress
    <3> QED
      BY <2>1, <3>1, <3>2
  <2> QED
    BY <1>b, <2>1, <2>2
<1>5. CASE Mtx!MainWaited
  <2>1. /\ pc["main"] = "woken" /\ pc["t1"] \notin {"lock", "signal"}
        /\ pc'["main"] = "while" /\ pc'["t1"] = pc["t1"]
        /\ UNCHANGED val /\ Mtx!Says("main:signaled")
    BY <1>0, <1>5 DEF Mtx!MainWaited, MtxTypes, WaitInv, Mtx!At, Mtx!Goes, Mtx!Locks
  <2>2. Progress = 4 /\ Progress' = 4 + 1
    <3>1. Progress = 4
      BY <2>1 DEF Progress
    <3>2. Progress' = 5
      BY <2>1 DEF Progress
    <3> QED
      BY <3>1, <3>2
  <2>3. Len(lines) + 1 = IF n = 4 THEN 6 ELSE 5
    <3>1. CASE pc["t1"] = "ended"
      <4>1. n <= 4 /\ Len(lines) = 4 + 1
        BY <1>e, <2>2, <3>1
      <4> QED
        BY <4>1
    <3>2. CASE pc["t1"] # "ended"
      <4>1. n = 6 /\ Len(lines) = 4
        BY <1>e, <2>2, <3>2
      <4> QED
        BY <4>1
    <3> QED
      BY <3>1, <3>2
  <2>4. Mtx!Output(n)[Len(lines) + 1] = "main:signaled"
    BY <2>3, OutputLines
  <2> QED
    BY <1>c, <2>1, <2>2, <2>4, SaidLines
<1>6. CASE Mtx!MainUnlocked
  <2>1. /\ pc["main"] = "unlocked" /\ pc["t1"] \notin {"lock", "signal"}
        /\ pc'["main"] = "join" /\ pc'["t1"] = pc["t1"]
        /\ UNCHANGED val /\ Mtx!Says("main:unlocked")
    BY <1>0, <1>6 DEF Mtx!MainUnlocked, MtxTypes, WaitInv, Mtx!At, Mtx!Goes, Mtx!Locks
  <2>2. Progress = 5 /\ Progress' = 5 + 1
    <3>1. Progress = 5
      BY <2>1 DEF Progress
    <3>2. Progress' = 6
      BY <2>1 DEF Progress
    <3> QED
      BY <3>1, <3>2
  <2>3. Len(lines) + 1 = IF n = 6 THEN 6 ELSE 7
    <3>1. CASE pc["t1"] = "ended"
      <4>1. n <= 5 /\ Len(lines) = 5 + 1
        BY <1>e, <2>2, <3>1
      <4> QED
        BY <4>1
    <3>2. CASE pc["t1"] # "ended"
      <4>1. n = 6 /\ Len(lines) = 5
        BY <1>e, <2>2, <3>2
      <4> QED
        BY <4>1
    <3> QED
      BY <3>1, <3>2
  <2>4. Mtx!Output(n)[Len(lines) + 1] = "main:unlocked"
    BY <2>3, OutputLines
  <2> QED
    BY <1>c, <2>1, <2>2, <2>4, SaidLines
<1>7. CASE Mtx!MainJoin
  <2>1. /\ pc["main"] = "join" /\ pc'["main"] = "ended"
        /\ pc'["t1"] = pc["t1"] /\ UNCHANGED lines
    BY <1>0, <1>7 DEF Mtx!MainJoin, MtxTypes, WaitInv, Mtx!At, Mtx!Goes, Mtx!Locks
  <2> QED
    BY <1>b, <2>1 DEF Progress
<1>8. CASE Mtx!ThreadLock
  <2>1. /\ pc["main"] = "waiting" /\ pc["t1"] = "lock"
        /\ pc'["main"] = "waiting" /\ pc'["t1"] = "signal"
        /\ UNCHANGED val /\ Mtx!Says("thread:locked")
    BY <1>0, <1>8 DEF Mtx!ThreadLock, MtxTypes, WaitInv, Mtx!At, Mtx!Goes, Mtx!Locks
  <2>2. Progress = 2 /\ Progress' = 2 + 1
    BY <2>1 DEF Progress
  <2>3. Len(lines) = 2
    BY <1>e, <2>1, <2>2
  <2>4. Mtx!Output(n)[Len(lines) + 1] = "thread:locked"
    BY <2>3, OutputLines
  <2> QED
    BY <1>c, <2>1, <2>2, <2>4, SaidLines
<1>9. CASE Mtx!ThreadSignal
  <2>1. /\ pc["main"] = "waiting" /\ pc["t1"] = "signal"
        /\ pc'["main"] = "woken" /\ pc'["t1"] = "unlock"
        /\ Mtx!Says("thread:signal")
    BY <1>0, <1>9 DEF Mtx!ThreadSignal, MtxTypes, WaitInv, Mtx!At, Mtx!Goes, Mtx!Locks
  <2>2. Progress = 3 /\ Progress' = 3 + 1
    BY <2>1 DEF Progress
  <2>3. Len(lines) = 3
    BY <1>e, <2>1, <2>2
  <2>4. Mtx!Output(n)[Len(lines) + 1] = "thread:signal"
    BY <2>3, OutputLines
  <2> QED
    BY <1>c, <2>1, <2>2, <2>4, SaidLines
<1>10. CASE Mtx!ThreadUnlock
  <2>1. /\ pc'["main"] = pc["main"] /\ pc["main"] # "waiting" /\ pc["t1"] = "unlock"
        /\ pc'["t1"] = "unlocked" /\ UNCHANGED <<lines, val>>
    BY <1>0, <1>10 DEF Mtx!ThreadUnlock, MtxTypes, WaitInv, Mtx!At, Mtx!Goes, Mtx!Locks
  <2> QED
    BY <1>b, <2>1 DEF Progress
<1>11. CASE Mtx!ThreadUnlocked
  <2>1. /\ pc["main"] \in {"while", "woken", "unlocked", "join", "ended"} /\ val = 1
        /\ pc["t1"] = "unlocked" /\ pc'["t1"] = "ended" /\ pc'["main"] = pc["main"]
        /\ UNCHANGED val /\ Mtx!Says("thread:unlocked")
    BY <1>0, <1>11 DEF Mtx!ThreadUnlocked, MtxTypes, WaitInv, Mtx!At, Mtx!Goes, Mtx!Locks
  <2>2. Progress' = Progress /\ Progress \in 4 .. 6
    BY <2>1 DEF Progress
  <2>3. n = 6 /\ Len(lines) = Progress
    BY <1>e, <2>1
  <2>4. Follows(Progress)
    BY <1>a, <2>2, <2>3, OutputLines DEF Follows
  <2>5. Follows(Progress)'
    <3>1. Mtx!Output(Progress)[Len(lines) + 1] = "thread:unlocked"
      BY <2>2, <2>3, OutputLines
    <3>2. ASSUME NEW k \in 4 .. 6, Follows(k), Mtx!Output(k)[Len(lines) + 1] = "thread:unlocked"
          PROVE  Follows(k)'
      BY <1>t, <2>1, <3>2, OneMore, SaidLines
    <3>3. PICK k \in 4 .. 6 : k = Progress
      BY <2>2
    <3>4. Follows(k)' /\ k = Progress'
      BY <2>2, <2>4, <3>1, <3>2, <3>3
    <3> QED
      BY <3>4 DEF Follows
  <2>6. Len(lines') = Progress + 1
    BY <1>t, <2>1, <2>3, SaidLines, SaysLine
  <2> QED
    BY <2>1, <2>2, <2>5, <2>6 DEF OrderInv
<1>12. CASE UNCHANGED mtxVars
  <2>1. UNCHANGED <<pc, val, lines>>
    BY <1>12 DEF mtxVars
  <2> QED
    BY <1>b, <2>1 DEF Progress
<1> QED
  BY <1>0, <1>1, <1>2, <1>3, <1>4, <1>5, <1>6, <1>7, <1>8, <1>9, <1>10, <1>11, <1>12
     DEF Mtx!Next, Mtx!MainStep, Mtx!ThreadStep, Mtx!CreateBoth, Mtx!JoinBoth,
         Mtx!LoopLock, Mtx!LoopUnlock, Mtx!LoopEnd, Mtx!Get, Mtx!Set, Mtx!PrintLocked,
         Mtx!PrintUnlocked, Mtx!At, Mtx!Goes

ControlInv ==
  /\ MtxTypes
  /\ mtxProg = "variable" => CountInv
  /\ mtxProg = "signal" => WaitInv /\ SignalSaid /\ OrderInv

LEMMA ControlStep == ControlInv /\ [Mtx!Next]_mtxVars => ControlInv'
<1> SUFFICES ASSUME ControlInv, [Mtx!Next]_mtxVars PROVE ControlInv'
  OBVIOUS
<1>1. UNCHANGED mtxProg
  BY DEF Mtx!Next, Mtx!MainStep, Mtx!ThreadStep, mtxVars, Mtx!At, Mtx!Goes,
        Mtx!CreateBoth, Mtx!JoinBoth, Mtx!LoopLock, Mtx!LoopUnlock, Mtx!LoopEnd, Mtx!Get,
        Mtx!Set, Mtx!PrintLocked, Mtx!PrintUnlocked, Mtx!MainLock, Mtx!MainCreate,
        Mtx!MainCreated, Mtx!MainWhile, Mtx!MainWaited, Mtx!MainUnlocked, Mtx!MainJoin,
        Mtx!MainWakesSpuriously, Mtx!ThreadLock, Mtx!ThreadSignal, Mtx!ThreadUnlock,
        Mtx!ThreadUnlocked
<1>2. MtxTypes'
  BY MtxTypesStep DEF ControlInv
<1>3. mtxProg = "variable" => CountInv'
  BY CountStep DEF ControlInv
<1>4. mtxProg = "signal" => WaitInv' /\ SignalSaid' /\ OrderInv'
  BY WaitStep, SignalSaidStep, OrderStep DEF ControlInv
<1> QED
  BY <1>1, <1>2, <1>3, <1>4 DEF ControlInv

LEMMA ControlInit == Mtx!Init => ControlInv
<1> SUFFICES ASSUME Mtx!Init PROVE ControlInv
  OBVIOUS
<1>0. /\ mtxProg \in {"variable", "signal"} /\ lock = "free"
      /\ pc = [a \in {"main", "t1", "t2"} |-> IF a = "main" THEN "start" ELSE "none"]
      /\ mtxTurn = [t \in {"t1", "t2"} |-> 0]
      /\ val = 0 /\ seen = 0 /\ printed = 0 /\ lines = <<>> /\ wakes = 0
  BY DEF Mtx!Init
<1>1. pc["main"] = "start" /\ pc["t1"] = "none" /\ pc["t2"] = "none"
  BY <1>0
<1>2. MtxTypes
  BY <1>0, BoundsOK DEF MtxTypes, Places
<1>3. CountInv /\ WaitInv /\ SignalSaid
  BY <1>0, <1>1, BoundsOK DEF CountInv, WaitInv, SignalSaid
<1>4. OrderInv
  <2>1. Progress = 0 /\ Len(lines) = 0
    BY <1>0, <1>1 DEF Progress
  <2>2. Follows(6)
    BY <2>1 DEF Follows
  <2> QED
    BY <1>1, <2>1, <2>2 DEF OrderInv
<1> QED
  BY <1>2, <1>3, <1>4 DEF ControlInv

LEMMA ControlTypes == ControlInv => Mtx!TypeOK
<1> SUFFICES ASSUME ControlInv PROVE Mtx!TypeOK
  OBVIOUS
<1>1. DOMAIN pc = {"main", "t1", "t2"} /\ lock \in {"free", "main", "t1", "t2"}
      /\ wakes \in 0 .. MaxWakes
  BY DEF ControlInv, MtxTypes
<1>2. CASE mtxProg = "variable"
  <2>1. /\ mtxTurn["t1"] \in 0 .. Incs /\ mtxTurn["t2"] \in 0 .. Incs + Reads
        /\ val \in 0 .. Incs
    BY <1>2, BoundsOK DEF ControlInv, MtxTypes, CountInv
  <2>2. seen \in 0 .. Incs /\ printed \in 0 .. val
    BY <1>2, <2>1, BoundsOK DEF ControlInv, MtxTypes, CountInv
  <2> QED
    BY <1>1, <2>1, <2>2 DEF Mtx!TypeOK
<1>3. CASE mtxProg = "signal"
  BY <1>1, <1>3, BoundsOK DEF ControlInv, MtxTypes, WaitInv, Mtx!TypeOK
<1> QED
  BY <1>2, <1>3 DEF ControlInv, MtxTypes

LEMMA ControlOrder == ControlInv => Mtx!DocumentedOrder
<1> SUFFICES ASSUME ControlInv, mtxProg = "signal" PROVE Mtx!DocumentedOrder
  BY DEF Mtx!DocumentedOrder
<1>1. ASSUME wakes = 0 PROVE \E n \in 4 .. Len(Mtx!Promised) : Mtx!IsPrefix(lines, Mtx!Output(n))
  <2>1. PICK n \in 4 .. 6 :
          /\ Follows(n)
          /\ IF pc["t1"] = "ended" THEN n <= Progress /\ Len(lines) = Progress + 1
                                   ELSE n = 6 /\ Len(lines) = Progress
    BY <1>1 DEF ControlInv, OrderInv
  <2>2. Progress \in 0 .. 6 
    BY DEF Progress
  <2>3. Len(lines) <= 7 /\ Len(lines) \in Nat
    <3> HIDE DEF Progress
    <3>1. CASE pc["t1"] = "ended"
      BY <2>1, <2>2, <3>1
    <3>2. CASE pc["t1"] # "ended"
      BY <2>1, <2>2, <3>2
    <3> QED
      BY <3>1, <3>2
  <2>4. /\ Len(Mtx!Output(n)) = 7 /\ Mtx!Output(n) \in Seq(Said) /\ lines \in Seq(Said)
        /\ \A i \in 1 .. Len(lines) : lines[i] = Mtx!Output(n)[i]
    BY <2>1, OutputAt DEF ControlInv, MtxTypes, Follows
  <2> DEFINE out == Mtx!Output(n)
  <2> HIDE DEF out
  <2>5. SubSeq(lines, 1, Len(lines)) = SubSeq(out, 1, Len(lines))
    BY <2>3, <2>4 DEF out
  <2>6. Mtx!IsPrefix(lines, Mtx!Output(n))
    BY <2>3, <2>4, <2>5 DEF Mtx!IsPrefix, out
  <2> QED
    BY <2>6, PromisedLines
<1>2. pc["main"] \in {"unlocked", "join", "ended"} => Mtx!Contains(lines, "thread:signal")
  BY DEF ControlInv, WaitInv, SignalSaid
<1> QED
  BY <1>1, <1>2 DEF Mtx!DocumentedOrder

LEMMA ControlCount == ControlInv => Mtx!AllIncremented
  BY DEF ControlInv, MtxTypes, CountInv, Mtx!AllIncremented

LEMMA ControlGoes == ControlInv => Mtx!NoDeadlock
<1> SUFFICES ASSUME ControlInv, pc["main"] # "ended", ~Mtx!MainCanGo
             PROVE  Mtx!CanGo("t1") \/ Mtx!CanGo("t2")
  BY DEF Mtx!NoDeadlock
<1>1. CASE mtxProg = "variable"
  <2>0. CountInv /\ MtxTypes
    BY <1>1 DEF ControlInv
  <2>1. pc["main"] = "join"
    BY <1>1, <2>0 DEF CountInv, Mtx!MainCanGo
  <2>2. lock \in {"free", "t1", "t2"}
    BY <2>0 DEF CountInv, MtxTypes
  <2>3. CASE lock # "free"
    BY <2>0, <2>2, <2>3 DEF CountInv, Mtx!CanGo
  <2>4. CASE lock = "free"
    <3>1. pc["t1"] # "ended" \/ pc["t2"] # "ended"
      BY <2>1 DEF Mtx!MainCanGo
    <3>2. /\ pc["t1"] \in {"loop", "get", "set", "unlock", "ended"}
          /\ pc["t2"] \in {"loop", "get", "unlock", "ended"}
      BY <2>0, <2>1 DEF CountInv
    <3> QED
      BY <2>4, <3>1, <3>2 DEF Mtx!CanGo
  <2> QED
    BY <2>3, <2>4
<1>2. CASE mtxProg = "signal"
  <2>0. WaitInv /\ MtxTypes
    BY <1>2 DEF ControlInv
  <2>1. lock \in {"free", "main", "t1"}
    BY <2>0 DEF WaitInv, MtxTypes
  <2>2. CASE lock = "t1"
    BY <2>0, <2>2 DEF WaitInv, Mtx!CanGo
  <2>3. CASE lock = "main"
    BY <1>2, <2>0, <2>3 DEF WaitInv, Mtx!MainCanGo
  <2>4. CASE lock = "free"
    <3>1. pc["main"] \in {"waiting", "join"}
      BY <1>2, <2>0, <2>4 DEF WaitInv, Mtx!MainCanGo
    <3>2. pc["t1"] \in {"lock", "signal", "unlock", "unlocked"}
      BY <2>0, <3>1 DEF WaitInv, Mtx!MainCanGo
    <3> QED
      BY <2>4, <3>2 DEF Mtx!CanGo
  <2> QED
    BY <2>1, <2>2, <2>3, <2>4
<1> QED
  BY <1>1, <1>2 DEF ControlInv, MtxTypes

-----------------------------------------------------------------------------
(* ForkedProcs *)

LEMMA TwoKids == Prc!Kids = {1, 2} /\ Prc!Over = {"none", "ended", "failed", "killed"}
  BY DEF Prc!Kids, Prc!Over

PrcTypes ==
  /\ prcProg \in {"pipe", "shm", "signal", "fork"}
  /\ parent \in {"shmget", "fork", "write", "int", "wait", "remove", "ended", "killed",
                 "failed"}
  /\ kid \in [{1, 2} -> {"start", "read", "attached", "copying", "half", "loop",
                         "none", "ended", "failed", "killed"}]
  /\ turn \in Nat /\ pipe \in Nat /\ got \in Nat /\ reaped \subseteq {1, 2}
  /\ ends \subseteq {"parent", "child"}
  /\ seg \in {"none", "zeros", "part", "text", "removed"}
  /\ shown \in {"nothing", "none", "zeros", "part", "text", "removed"}
  /\ handles \subseteq {"INT", "HUP"} /\ pending \subseteq {"INT", "HUP"}
  /\ g_fin \in BOOLEAN

\* ipc-pipe: every line written is in the pipe or read; the child sees the end only
\* when the parent has written all.
PipeInv ==
  /\ parent \in {"fork", "write", "ended", "killed"}
  /\ parent = "fork" => kid[1] = "none" /\ turn = 0
  /\ kid[1] \in {"none", "start", "read", "ended"} /\ kid[2] = "none"
  /\ turn <= Lines /\ turn = got + pipe
  /\ parent = "ended" => turn = Lines
  /\ parent \in {"fork", "write"} <=> "parent" \in ends
  /\ "child" \in ends => kid[1] = "start"
  /\ kid[1] = "ended" => pipe = 0 /\ parent = "ended"
  /\ parent = "killed" => kid[1] = "none"
  /\ seg = "none" /\ shown = "nothing"

\* ipc-sharedMemory: the segment is there as long as a child is.
ShmInv ==
  /\ parent \in {"shmget", "fork", "wait", "remove", "ended", "failed"}
  /\ parent \in {"shmget", "fork", "failed"} => kid[1] = "none" /\ kid[2] = "none" /\ turn = 0
  /\ parent \in {"shmget", "fork"} => reaped = {}
  /\ \A k \in {1, 2} : kid[k] \in {"none", "start", "attached", "copying", "ended"}
  /\ \A k \in reaped : kid[k] = "ended"
  /\ parent = "wait" => turn < 2
  /\ parent = "wait" /\ turn = 1 => \E k \in {1, 2} : k \in reaped \/ kid[k] = "none"
  /\ parent \in {"remove", "ended"} =>
       turn = 2 /\ \A k \in {1, 2} : kid[k] \in {"none", "ended"}
  /\ seg = "none" <=> parent \in {"shmget", "failed"}
  /\ seg = "removed" => parent = "ended"
  /\ shown \notin {"none", "removed"} /\ pipe = 0 /\ got = 0

\* ipc-signal and proc_fork
KillInv ==
  /\ parent \in {"fork", "int", "ended"} /\ (parent = "int" => turn <= Lines)
  /\ parent = "fork" => turn = 0
  /\ turn <= Lines + 1
  /\ kid[1] \in {"none", "start", "half", "loop", "ended", "killed"} /\ kid[2] = "none"
  /\ parent = "ended" /\ kid[1] \in {"start", "half", "loop"} => g_fin \/ "HUP" \in pending
  /\ shown = "nothing" /\ pipe = 0 /\ got = 0

ForkInv ==
  /\ parent \in {"fork", "wait", "ended"} /\ turn <= 2
  /\ parent \in {"fork", "wait"} => turn < 2
  /\ parent = "fork" => turn = 0
  /\ \A k \in {1, 2} : kid[k] \in {"none", "start", "ended"}
  /\ shown = "nothing" /\ pipe = 0 /\ got = 0

LEMMA PrcTypesStep ==
  PrcTypes /\ [Prc!Next]_prcVars => PrcTypes'
<1> SUFFICES ASSUME PrcTypes, [Prc!Next]_prcVars PROVE PrcTypes'
  OBVIOUS
<1> USE BoundsOK DEF PrcTypes, Prc!Kids, Prc!Over, Prc!ipc, Prc!MainAt, Prc!KidGoes
<1>1. CASE Prc!ShmGet
  BY <1>1 DEF Prc!ShmGet
<1>2. CASE Prc!Fork
  BY <1>2 DEF Prc!Fork
<1>3. CASE Prc!PipeWrite
  <2>1. CASE kid[1] \in Prc!Over
    BY <1>3, <2>1 DEF Prc!PipeWrite
  <2>2. CASE kid[1] \notin Prc!Over
    <3>1. /\ turn' = turn + 1 /\ pipe' = pipe + 1
          /\ UNCHANGED <<prcProg, parent, ends, kid, reaped, got, seg, shown, handles, pending,
                        g_fin>>
      BY <1>3, <2>2 DEF Prc!PipeWrite
    <3> QED
      BY <3>1
  <2> QED
    BY <2>1, <2>2
<1>4. CASE Prc!PipeClose
  BY <1>4 DEF Prc!PipeClose
<1>5. CASE Prc!Kill
  BY <1>5 DEF Prc!Kill
<1>6. CASE Prc!Wait
  <2>1. reaped' \subseteq {1, 2}
    BY <1>6 DEF Prc!Wait
  <2>2. turn' \in Nat /\ parent' \in {parent, "remove", "ended"}
    BY <1>6 DEF Prc!Wait
  <2> QED
    BY <1>6, <2>1, <2>2 DEF Prc!Wait
<1>7. CASE Prc!ShmRemove
  BY <1>7 DEF Prc!ShmRemove
<1>8. CASE Prc!PipeStart
  BY <1>8 DEF Prc!PipeStart
<1>9. CASE Prc!PipeRead
  BY <1>9 DEF Prc!PipeRead
<1>10. CASE Prc!ShmSet
  BY <1>10 DEF Prc!ShmSet
<1>11. CASE Prc!ShmShow
  BY <1>11 DEF Prc!ShmShow
<1>12. CASE Prc!Handle
  BY <1>12 DEF Prc!Handle
<1>13. CASE Prc!Catch
  BY <1>13 DEF Prc!Catch
<1>14. CASE Prc!LoopEnd
  BY <1>14 DEF Prc!LoopEnd
<1>15. ASSUME NEW k \in {1, 2}, Prc!ShmAttach(k) PROVE PrcTypes'
  BY <1>15 DEF Prc!ShmAttach
<1>16. ASSUME NEW k \in {1, 2}, Prc!ForkKid(k) PROVE PrcTypes'
  BY <1>16 DEF Prc!ForkKid
<1>17. CASE UNCHANGED prcVars
  BY <1>17 DEF prcVars
<1> QED
  BY <1>1, <1>2, <1>3, <1>4, <1>5, <1>6, <1>7, <1>8, <1>9, <1>10, <1>11, <1>12, <1>13,
     <1>14, <1>15, <1>16, <1>17
     DEF Prc!Next, Prc!Parent, Prc!Child

LEMMA PipeStep ==
  PrcTypes /\ prcProg = "pipe" /\ PipeInv /\ [Prc!Next]_prcVars => PipeInv'
<1> SUFFICES ASSUME PrcTypes, prcProg = "pipe", PipeInv, [Prc!Next]_prcVars PROVE PipeInv'
  OBVIOUS
<1> USE BoundsOK DEF PrcTypes, Prc!Kids, Prc!Over, Prc!ipc, Prc!MainAt, Prc!KidGoes, PipeInv
<1>1. CASE Prc!Fork
  BY <1>1 DEF Prc!Fork
<1>2. CASE Prc!PipeWrite
  BY <1>2 DEF Prc!PipeWrite
<1>3. CASE Prc!PipeClose
  BY <1>3 DEF Prc!PipeClose
<1>4. CASE Prc!PipeStart
  BY <1>4 DEF Prc!PipeStart
<1>5. CASE Prc!PipeRead
  BY <1>5 DEF Prc!PipeRead
<1>6. CASE UNCHANGED prcVars
  BY <1>6 DEF prcVars
<1> QED
  BY <1>1, <1>2, <1>3, <1>4, <1>5, <1>6
     DEF Prc!Next, Prc!Parent, Prc!Child, Prc!ShmGet, Prc!Kill, Prc!Wait, Prc!ShmRemove,
         Prc!ShmSet, Prc!ShmShow, Prc!Handle, Prc!Catch, Prc!LoopEnd, Prc!ShmAttach,
         Prc!ForkKid

LEMMA ShmStep ==
  PrcTypes /\ prcProg = "shm" /\ ShmInv /\ [Prc!Next]_prcVars => ShmInv'
<1> SUFFICES ASSUME PrcTypes, prcProg = "shm", ShmInv, [Prc!Next]_prcVars PROVE ShmInv'
  OBVIOUS
<1> USE BoundsOK DEF PrcTypes, Prc!Kids, Prc!Over, Prc!ipc, Prc!MainAt, Prc!KidGoes, ShmInv
<1>1. CASE Prc!ShmGet
  BY <1>1 DEF Prc!ShmGet
<1>2. CASE Prc!Fork
  BY <1>2 DEF Prc!Fork
<1>3. CASE Prc!Wait
  <2>1. /\ parent = "wait" /\ turn < 2 /\ turn' = turn + 1
        /\ parent' = (IF turn' < 2 THEN "wait" ELSE "remove")
        /\ UNCHANGED <<kid, seg, shown, pipe, got>>
    BY <1>3 DEF Prc!Wait
  <2>2. CASE \E k \in {1, 2} \ reaped :
               kid[k] \in Prc!Over \ {"none"} /\ reaped' = reaped \cup {k}
    <3>1. PICK k \in {1, 2} : /\ k \notin reaped /\ kid[k] = "ended"
                             /\ reaped' = reaped \cup {k}
      BY <2>2
    <3>2. turn = 1 => \A j \in {1, 2} : kid[j] \in {"none", "ended"}
      BY <2>1, <3>1
    <3>3. \A j \in reaped' : kid[j] = "ended"
      BY <3>1
    <3>4. turn = 0 \/ turn = 1
      BY <2>1
    <3>5. CASE turn = 0
      BY <2>1, <3>1, <3>3, <3>5
    <3>6. CASE turn = 1
      BY <2>1, <3>2, <3>3, <3>6
    <3> QED
      BY <3>4, <3>5, <3>6
  <2>3. CASE (\A k \in {1, 2} \ reaped : kid[k] = "none") /\ UNCHANGED reaped
    <3>1. \A j \in {1, 2} : kid[j] \in {"none", "ended"} /\ (j \in reaped \/ kid[j] = "none")
      BY <2>3
    <3>2. turn = 0 \/ turn = 1
      BY <2>1
    <3>3. CASE turn = 0
      BY <2>1, <2>3, <3>1, <3>3
    <3>4. CASE turn = 1
      BY <2>1, <2>3, <3>1, <3>4
    <3> QED
      BY <3>2, <3>3, <3>4
  <2> QED
    BY <1>3, <2>2, <2>3 DEF Prc!Wait
<1>4. CASE Prc!ShmRemove
  BY <1>4 DEF Prc!ShmRemove
<1>5. CASE Prc!ShmSet
  BY <1>5 DEF Prc!ShmSet
<1>6. CASE Prc!ShmShow
  BY <1>6 DEF Prc!ShmShow
<1>7. ASSUME NEW k \in {1, 2}, Prc!ShmAttach(k) PROVE ShmInv'
  BY <1>7 DEF Prc!ShmAttach
<1>8. CASE UNCHANGED prcVars
  BY <1>8 DEF prcVars
<1> QED
  BY <1>1, <1>2, <1>3, <1>4, <1>5, <1>6, <1>7, <1>8
     DEF Prc!Next, Prc!Parent, Prc!Child, Prc!PipeWrite, Prc!PipeClose, Prc!Kill,
         Prc!PipeStart, Prc!PipeRead, Prc!Handle, Prc!Catch, Prc!LoopEnd, Prc!ForkKid

LEMMA KillStep ==
  PrcTypes /\ prcProg = "signal" /\ KillInv /\ [Prc!Next]_prcVars => KillInv'
<1> SUFFICES ASSUME PrcTypes, prcProg = "signal", KillInv, [Prc!Next]_prcVars PROVE KillInv'
  OBVIOUS
<1> USE BoundsOK DEF PrcTypes, Prc!Kids, Prc!Over, Prc!ipc, Prc!MainAt, Prc!KidGoes, KillInv
<1>1. CASE Prc!Fork
  BY <1>1 DEF Prc!Fork
<1>2. CASE Prc!Kill
  BY <1>2 DEF Prc!Kill
<1>3. CASE Prc!Handle
  BY <1>3 DEF Prc!Handle
<1>4. CASE Prc!Catch
  BY <1>4 DEF Prc!Catch
<1>5. CASE Prc!LoopEnd
  BY <1>5 DEF Prc!LoopEnd
<1>6. CASE UNCHANGED prcVars
  BY <1>6 DEF prcVars
<1> QED
  BY <1>1, <1>2, <1>3, <1>4, <1>5, <1>6
     DEF Prc!Next, Prc!Parent, Prc!Child, Prc!ShmGet, Prc!PipeWrite, Prc!PipeClose,
         Prc!Wait, Prc!ShmRemove, Prc!PipeStart, Prc!PipeRead, Prc!ShmSet, Prc!ShmShow,
         Prc!ShmAttach, Prc!ForkKid

LEMMA ForkStep ==
  PrcTypes /\ prcProg = "fork" /\ ForkInv /\ [Prc!Next]_prcVars => ForkInv'
<1> SUFFICES ASSUME PrcTypes, prcProg = "fork", ForkInv, [Prc!Next]_prcVars PROVE ForkInv'
  OBVIOUS
<1> USE BoundsOK DEF PrcTypes, Prc!Kids, Prc!Over, Prc!ipc, Prc!MainAt, Prc!KidGoes, ForkInv
<1>1. CASE Prc!Fork
  BY <1>1 DEF Prc!Fork
<1>2. CASE Prc!Wait
  BY <1>2 DEF Prc!Wait
<1>3. ASSUME NEW k \in {1, 2}, Prc!ForkKid(k) PROVE ForkInv'
  BY <1>3 DEF Prc!ForkKid
<1>4. CASE UNCHANGED prcVars
  BY <1>4 DEF prcVars
<1> QED
  BY <1>1, <1>2, <1>3, <1>4
     DEF Prc!Next, Prc!Parent, Prc!Child, Prc!ShmGet, Prc!PipeWrite, Prc!PipeClose,
         Prc!Kill, Prc!ShmRemove, Prc!PipeStart, Prc!PipeRead, Prc!ShmSet, Prc!ShmShow,
         Prc!Handle, Prc!Catch, Prc!LoopEnd, Prc!ShmAttach

PrcInv ==
  /\ PrcTypes
  /\ prcProg = "pipe" => PipeInv
  /\ prcProg = "shm" => ShmInv
  /\ prcProg = "signal" => KillInv
  /\ prcProg = "fork" => ForkInv

LEMMA PrcInitInv == Prc!Init => PrcInv
<1> SUFFICES ASSUME Prc!Init PROVE PrcInv
  OBVIOUS
<1>1. /\ prcProg \in {"pipe", "shm", "signal", "fork"}
      /\ parent = (IF prcProg = "shm" THEN "shmget" ELSE "fork")
      /\ kid = [k \in {1, 2} |-> "none"] /\ kid[1] = "none" /\ kid[2] = "none"
      /\ turn = 0 /\ reaped = {} /\ pipe = 0 /\ got = 0
      /\ ends = (IF prcProg = "pipe" THEN {"parent"} ELSE {})
      /\ seg = "none" /\ shown = "nothing" /\ handles = {} /\ pending = {} /\ g_fin = FALSE
  BY DEF Prc!Init, Prc!Kids
<1>2. PrcTypes
  BY <1>1 DEF PrcTypes
<1>3. prcProg = "pipe" => PipeInv
  BY <1>1, BoundsOK DEF PipeInv
<1>4. prcProg = "shm" => ShmInv
  BY <1>1 DEF ShmInv
<1>5. prcProg = "signal" => KillInv
  BY <1>1, BoundsOK DEF KillInv
<1>6. prcProg = "fork" => ForkInv
  BY <1>1 DEF ForkInv
<1> QED
  BY <1>2, <1>3, <1>4, <1>5, <1>6 DEF PrcInv

LEMMA PrcStep == PrcInv /\ [Prc!Next]_prcVars => PrcInv'
<1> SUFFICES ASSUME PrcInv, [Prc!Next]_prcVars PROVE PrcInv'
  OBVIOUS
<1>1. UNCHANGED prcProg
  BY DEF Prc!Next, Prc!Parent, Prc!Child, prcVars, Prc!ShmGet, Prc!Fork, Prc!PipeWrite,
     Prc!PipeClose, Prc!Kill, Prc!Wait, Prc!ShmRemove, Prc!PipeStart, Prc!PipeRead, Prc!ShmSet,
     Prc!ShmShow, Prc!Handle, Prc!Catch, Prc!LoopEnd, Prc!ShmAttach, Prc!ForkKid
<1>2. PrcTypes'
  BY PrcTypesStep DEF PrcInv
<1>3. prcProg = "pipe" => PipeInv'
  BY PipeStep DEF PrcInv
<1>4. prcProg = "shm" => ShmInv'
  BY ShmStep DEF PrcInv
<1>5. prcProg = "signal" => KillInv'
  BY KillStep DEF PrcInv
<1>6. prcProg = "fork" => ForkInv'
  BY ForkStep DEF PrcInv
<1> QED
  BY <1>1, <1>2, <1>3, <1>4, <1>5, <1>6 DEF PrcInv

LEMMA PrcTypeOK == PrcInv => Prc!TypeOK
<1> SUFFICES ASSUME PrcInv PROVE Prc!TypeOK
  OBVIOUS
<1>1. turn \in 0 .. Lines + 1 /\ pipe \in 0 .. Lines /\ got \in 0 .. Lines
  BY BoundsOK DEF PrcInv, PrcTypes, PipeInv, ShmInv, KillInv, ForkInv
<1>2. shown \in {"nothing", "zeros", "part", "text"}
  BY DEF PrcInv, PrcTypes, PipeInv, ShmInv, KillInv, ForkInv
<1>3. kid \in [Prc!Kids -> {"start", "read", "attached", "copying", "half", "loop"} \cup Prc!Over]
  BY DEF PrcInv, PrcTypes, Prc!Kids, Prc!Over
<1> QED
  BY <1>1, <1>2, <1>3 DEF PrcInv, PrcTypes, Prc!TypeOK, Prc!Kids

LEMMA PrcGoes == PrcInv => Prc!NoDeadlock
<1> SUFFICES ASSUME PrcInv, ~Prc!ParentCanGo, ~Prc!KidCanGo(1), ~Prc!KidCanGo(2)
             PROVE  parent \in Prc!Over /\ kid[1] \in Prc!Over /\ kid[2] \in Prc!Over
  BY TwoKids DEF Prc!NoDeadlock
<1>0. PrcTypes
  BY DEF PrcInv
<1>1. CASE prcProg = "pipe"
  <2>0. PipeInv
    BY <1>1 DEF PrcInv
  <2>1. parent \in {"ended", "killed"}
    BY <2>0 DEF PipeInv, Prc!ParentCanGo
  <2>2. kid[1] \in {"none", "read", "ended"}
    BY <2>0 DEF PipeInv, Prc!KidCanGo
  <2>3. ends = {}
    <3>1. "parent" \notin ends /\ "child" \notin ends
      BY <2>0, <2>1, <2>2 DEF PipeInv
    <3> QED
      BY <1>0, <3>1 DEF PrcTypes
  <2> QED
    BY <2>0, <2>1, <2>2, <2>3, TwoKids DEF PipeInv, Prc!KidCanGo
<1>2. CASE prcProg = "shm"
  <2>0. ShmInv
    BY <1>2 DEF PrcInv
  <2>1. kid[1] \in {"none", "ended"} /\ kid[2] \in {"none", "ended"}
    BY <2>0 DEF ShmInv, Prc!KidCanGo
  <2>2. parent # "wait"
    BY <2>1, TwoKids DEF Prc!ParentCanGo
  <2>3. parent \in {"ended", "failed"}
    BY <2>0, <2>2 DEF ShmInv, Prc!ParentCanGo
  <2> QED
    BY <2>1, <2>3, TwoKids
<1>3. CASE prcProg = "signal"
  <2>0. KillInv
    BY <1>3 DEF PrcInv
  <2>1. parent = "ended"
    BY <2>0 DEF KillInv, Prc!ParentCanGo
  <2>2. kid[1] \in {"none", "loop", "ended", "killed"} /\ kid[2] = "none"
    BY <2>0 DEF KillInv, Prc!KidCanGo
  <2>3. kid[1] # "loop"
    BY <2>0, <2>1 DEF KillInv, Prc!KidCanGo
  <2> QED
    BY <2>1, <2>2, <2>3, TwoKids
<1>4. CASE prcProg = "fork"
  <2>0. ForkInv
    BY <1>4 DEF PrcInv
  <2>1. kid[1] \in {"none", "ended"} /\ kid[2] \in {"none", "ended"}
    BY <2>0 DEF ForkInv, Prc!KidCanGo
  <2>2. parent # "wait"
    BY <2>1, TwoKids DEF Prc!ParentCanGo
  <2>3. parent = "ended"
    BY <2>0, <2>2 DEF ForkInv, Prc!ParentCanGo
  <2> QED
    BY <2>1, <2>3, TwoKids
<1> QED
  BY <1>0, <1>1, <1>2, <1>3, <1>4 DEF PrcTypes

LEMMA PrcInTime == PrcInv => Prc!NeverTooLate
  BY BoundsOK DEF PrcInv, PrcTypes, PipeInv, ShmInv, KillInv, ForkInv, Prc!NeverTooLate,
     Prc!Kids

-----------------------------------------------------------------------------
(* ElapsedTime.  The borrow is exact whatever a second is divided into; the *)
(* difference in nanoseconds alone is shown for the numbers of the board.   *)

\* Both numbers of a reading, and their products, are integers.
LEMMA ReadingNumbers ==
  ASSUME Giga \in Nat \ {0}, NEW tp \in Tim!Reading
  PROVE  /\ tp.sec \in Int /\ tp.nsec \in Int /\ 0 <= tp.nsec /\ tp.nsec < Giga
         /\ Giga * tp.sec \in Int
  BY DEF Tim!Reading

\* A product with a difference, one less or not.
LEMMA Distribute ==
  ASSUME NEW g \in Int, NEW a \in Int, NEW b \in Int
  PROVE  g * (b - a) = g * b - g * a /\ g * (b - a - 1) = g * b - g * a - g
  BY SMT

\* The difference has the sign of its seconds.
LEMMA SignOfSum ==
  ASSUME NEW g \in Nat \ {0}, NEW s \in Int, NEW n \in 0 .. g - 1
  PROVE  g * s + n >= 0 <=> s >= 0
<1>1. CASE s >= 0
  <2>1. g * s >= 0
    BY <1>1, SMT
  <2>2. QED
    BY <1>1, <2>1
<1>2. CASE s < 0
  <2>1. s + 1 <= 0 /\ g * (s + 1) <= 0
    BY <1>2, SMT
  <2>2. g * (s + 1) = g * s + g
    BY SMT
  <2>3. QED
    BY <1>2, <2>1, <2>2
<1>3. QED
  BY <1>1, <1>2

\* time_nanosecond.c: seconds and nanoseconds after the borrow are those of the
\* difference; what is printed is the difference exactly if that is not negative
\* or a number of whole seconds.
THEOREM BorrowIsExact ==
  ASSUME Giga \in Nat \ {0}, NEW tp1 \in Tim!Reading, NEW tp2 \in Tim!Reading
  PROVE  Tim!BorrowExact(tp1, tp2)
<1> DEFINE d == Tim!Borrowed(tp1, tp2)
           ds == tp2.sec - tp1.sec
           dn == tp2.nsec - tp1.nsec
<1>1. /\ ds \in Int /\ dn \in Int /\ -Giga < dn /\ dn < Giga
      /\ Giga * tp1.sec \in Int /\ Giga * tp2.sec \in Int
  BY ReadingNumbers
<1>2. /\ Giga * ds = Giga * tp2.sec - Giga * tp1.sec
      /\ Giga * (ds - 1) = Giga * tp2.sec - Giga * tp1.sec - Giga
  BY Distribute, ReadingNumbers
<1>3. d \in Tim!Reading /\ Tim!Nanos(d) = Tim!Diff(tp1, tp2)
  <2>1. CASE dn < 0
    <3>1. d = [sec |-> ds - 1, nsec |-> dn + Giga]
      BY <2>1 DEF Tim!Borrowed
    <3>2. d \in Tim!Reading
      BY <1>1, <2>1, <3>1 DEF Tim!Reading
    <3>3. Tim!Nanos(d) = Giga * (ds - 1) + (dn + Giga)
      BY <3>1 DEF Tim!Nanos
    <3>4. QED
      BY <1>1, <1>2, <3>2, <3>3, ReadingNumbers DEF Tim!Diff, Tim!Nanos
  <2>2. CASE ~(dn < 0)
    <3>1. d = [sec |-> ds, nsec |-> dn]
      BY <2>2 DEF Tim!Borrowed
    <3>2. d \in Tim!Reading
      BY <1>1, <2>2, <3>1 DEF Tim!Reading
    <3>3. Tim!Nanos(d) = Giga * ds + dn
      BY <3>1 DEF Tim!Nanos
    <3>4. QED
      BY <1>1, <1>2, <3>2, <3>3, ReadingNumbers DEF Tim!Diff, Tim!Nanos
  <2>3. QED
    BY <2>1, <2>2
<1>4. /\ d.sec \in Int /\ d.nsec \in 0 .. Giga - 1 /\ Giga * d.sec \in Int
      /\ Tim!Diff(tp1, tp2) = Giga * d.sec + d.nsec
  BY <1>3, ReadingNumbers DEF Tim!Nanos
<1>5. Tim!Diff(tp1, tp2) >= 0 <=> d.sec >= 0
  BY <1>4, SignOfSum
<1>6. Tim!Shown(d) = Tim!Diff(tp1, tp2) <=> (Tim!Diff(tp1, tp2) >= 0 \/ d.nsec = 0)
  <2> DEFINE p == Giga * d.sec
  <2>1. Tim!Shown(d) = IF d.sec < 0 THEN p - d.nsec ELSE p + d.nsec
    BY DEF Tim!Shown
  <2>2. p \in Int /\ Tim!Diff(tp1, tp2) = p + d.nsec
    BY <1>4
  <2> HIDE DEF p, d
  <2>3. QED
    BY <1>4, <1>5, <2>1, <2>2
<1>7. QED
  BY <1>3, <1>6 DEF Tim!BorrowExact

-----------------------------------------------------------------------------
\* A number wraps to itself exactly if a long can hold it; to wrap a part of a
\* sum or of a product first changes nothing.
LEMMA WrapInt ==
  ASSUME Half = 2147483648
  PROVE  \A n \in Int : Tim!Wrap(n) \in Int
  BY SMT DEF Tim!Wrap

LEMMA WrapFits ==
  ASSUME Half = 2147483648, NEW n \in Int
  PROVE  Tim!Wrap(n) = n <=> -Half <= n /\ n < Half
<1>1. -Half <= Tim!Wrap(n) /\ Tim!Wrap(n) < Half
  BY SMT DEF Tim!Wrap
<1>2. CASE -Half <= n /\ n < Half
  <2>1. (n + Half) % (2 * Half) = n + Half
    BY SMT, <1>2
  <2>2. Tim!Wrap(n) = (n + Half) - Half
    BY SMT, <2>1 DEF Tim!Wrap
  <2>3. QED
    BY SMT, <1>2, <2>2
<1>3. QED
  BY SMT, <1>1, <1>2

LEMMA WrapAgain ==
  ASSUME Half = 2147483648, NEW n \in Int, NEW m \in Int
  PROVE  Tim!Wrap(n + Tim!Wrap(m)) = Tim!Wrap(n + m)
  BY SMT DEF Tim!Wrap

LEMMA WrapProduct ==
  ASSUME Half = 2147483648, NEW n \in Int
  PROVE  Tim!Wrap(1000000000 * Tim!Wrap(n)) = Tim!Wrap(1000000000 * n)
  BY SMT DEF Tim!Wrap

\* app_03timeOfCalc.c on the board: the difference is exact if and only if a
\* long can hold it, whatever overflows on the way.
THEOREM ElapsedIsExact ==
  ASSUME Giga = 1000000000, Half = 2147483648, NEW tp1 \in Tim!Reading, NEW tp2 \in Tim!Reading
  PROVE  Tim!ElapsedExact(tp1, tp2)
<1> DEFINE ds == tp2.sec - tp1.sec
           dn == tp2.nsec - tp1.nsec
<1>1. /\ ds \in Int /\ dn \in Int
      /\ Tim!Diff(tp1, tp2) \in Int /\ Tim!Diff(tp1, tp2) = dn + 1000000000 * ds
  BY SMT, ReadingNumbers DEF Tim!Diff, Tim!Nanos
<1>2. Tim!Elapsed(tp1, tp2) = Tim!Wrap(dn + Tim!Wrap(Tim!Wrap(ds) * 1000000000))
  BY SMT DEF Tim!Elapsed
<1> HIDE DEF ds, dn
<1>3. Tim!Wrap(ds) \in Int
  BY SMT, <1>1, WrapInt
<1>4. Tim!Wrap(Tim!Wrap(ds) * 1000000000) = Tim!Wrap(1000000000 * ds)
  <2>1. Tim!Wrap(ds) * 1000000000 = 1000000000 * Tim!Wrap(ds)
    BY SMT, <1>3
  <2>2. QED
    BY SMT, <1>1, <2>1, WrapProduct
<1>5. Tim!Elapsed(tp1, tp2) = Tim!Wrap(dn + 1000000000 * ds)
  BY SMT, <1>1, <1>2, <1>4, WrapAgain
<1>6. Tim!Elapsed(tp1, tp2) = Tim!Wrap(Tim!Diff(tp1, tp2))
  BY SMT, <1>1, <1>5
<1>7. Tim!Wrap(Tim!Diff(tp1, tp2)) = Tim!Diff(tp1, tp2) <=>
        -Half <= Tim!Diff(tp1, tp2) /\ Tim!Diff(tp1, tp2) < Half
  <2>1. ASSUME NEW n \in Int
        PROVE  Tim!Wrap(n) = n <=> -Half <= n /\ n < Half
    BY SMT, WrapFits
  <2>2. QED
    BY SMT, <1>1, <2>1
<1>8. QED
  BY SMT, <1>6, <1>7 DEF Tim!ElapsedExact

-----------------------------------------------------------------------------
(* The programs together *)

\* Steps of one of the programs leave the variables of the others alone.
LEMMA OneRuns ==
  /\ MCInit => Init /\ Msg!Init /\ Mtx!Init /\ Prc!Init
  /\ [MCNext]_allVars => [Next]_vars /\ [Msg!Next]_msgVars /\ [Mtx!Next]_mtxVars
                         /\ [Prc!Next]_prcVars
  BY DEF MCInit, MCNext, allVars

\* Every variable of the four programs keeps its type: no counter leaves its
\* bounds, no index its array, and what t2 prints never passes what t1 has counted.
THEOREM TypesCorrect == MCSpec => []TypesOK
<1>1. MCInit => FifoInv /\ MsgInv /\ ControlInv /\ PrcInv
  BY OneRuns, FifoInit, MsgInitInv, ControlInit, PrcInitInv
<1>2. FifoInv /\ [MCNext]_allVars => FifoInv'
  BY OneRuns, FifoStep
<1>3. MsgInv /\ [MCNext]_allVars => MsgInv'
  BY OneRuns, MsgStep
<1>4. ControlInv /\ [MCNext]_allVars => ControlInv'
  BY OneRuns, ControlStep
<1>5. PrcInv /\ [MCNext]_allVars => PrcInv'
  BY OneRuns, PrcStep
<1>6. FifoInv /\ MsgInv /\ ControlInv /\ PrcInv => TypesOK
  BY ControlTypes, PrcTypeOK DEF FifoInv, MsgInv, TypesOK
<1> QED
  BY <1>1, <1>2, <1>3, <1>4, <1>5, <1>6, PTL DEF MCSpec

\* A thread of msg_1 that has seen a message finds one, as long as nobody else
\* receives, however many processes send or are killed.
THEOREM SeenBeforeTaken == MCSpec => []SeenIsThere
<1>1. MCInit => MsgInv
  BY OneRuns, MsgInitInv
<1>2. MsgInv /\ [MCNext]_allVars => MsgInv'
  BY OneRuns, MsgStep
<1>3. MsgInv => SeenIsThere
  BY DEF MsgInv, SeenIsThere
<1> QED
  BY <1>1, <1>2, <1>3, PTL DEF MCSpec

\* What holds of the threads over one lock holds always.
LEMMA ControlAlways == MCSpec => []ControlInv
<1>1. MCInit => ControlInv
  BY OneRuns, ControlInit
<1>2. ControlInv /\ [MCNext]_allVars => ControlInv'
  BY OneRuns, ControlStep
<1> QED
  BY <1>1, <1>2, PTL DEF MCSpec

\* mutex_signal prints its lines in the order it documents, unless main() wakes
\* for nothing, and main() never goes on before the signal.
THEOREM LinesInOrder == MCSpec => []DocumentedOrder
<1>1. ControlInv => DocumentedOrder
  BY ControlOrder DEF DocumentedOrder
<1> QED
  BY <1>1, ControlAlways, PTL

\* mutex_variable counts every increment.
THEOREM NoIncrementLost == MCSpec => []Mtx!AllIncremented
<1>1. ControlInv => Mtx!AllIncremented
  BY ControlCount
<1> QED
  BY <1>1, ControlAlways, PTL

\* The child at the end of the pipe has read every line, and the segment is removed
\* after the children have done with it, in whatever order the processes run.
THEOREM ChildrenInTime == MCSpec => []Prc!NeverTooLate
<1>1. MCInit => PrcInv
  BY OneRuns, PrcInitInv
<1>2. PrcInv /\ [MCNext]_allVars => PrcInv'
  BY OneRuns, PrcStep
<1>3. PrcInv => Prc!NeverTooLate
  BY PrcInTime
<1> QED
  BY <1>1, <1>2, <1>3, PTL DEF MCSpec

\* In no program does everyone wait: as long as one has not ended, a step is
\* possible that is neither a spurious wakeup nor somebody else's.
THEOREM NoneStuck == MCSpec => []NobodyStuck
<1>1. MCInit => FifoInv /\ PrcInv
  BY OneRuns, FifoInit, PrcInitInv
<1>2. FifoInv /\ [MCNext]_allVars => FifoInv'
  BY OneRuns, FifoStep
<1>3. PrcInv /\ [MCNext]_allVars => PrcInv'
  BY OneRuns, PrcStep
<1>4. FifoInv /\ ControlInv /\ PrcInv => NobodyStuck
  BY FifoGoes, ControlGoes, PrcGoes DEF NobodyStuck
<1> QED
  BY <1>1, <1>2, <1>3, <1>4, ControlAlways, PTL DEF MCSpec
=============================================================================
