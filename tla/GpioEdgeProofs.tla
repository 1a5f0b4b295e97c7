----------------------------- MODULE GpioEdgeProofs -----------------------------
(***************************************************************************)
(* Proofs about GpioEdge, for any mixture of the programs and any number   *)
(* of edges.  The inductive invariant follows an edge from the kernel's    *)
(* note of it to the push that is printed: the pushes printed, the one     *)
(* that is about to be, and the edge the kernel has noted and nobody has   *)
(* waited for are together no more than the edges there were.              *)
(***************************************************************************)
EXTENDS GpioEdge, TLAPS

\* What the program's wait looks at
Noted == IF variant = "epoll" THEN ready ELSE changed

\* Edges, and the level that epoll reports at the start
Causes == rises + (IF variant = "epoll" THEN 1 ELSE 0)

PcInv ==
  /\ pc = "add" => variant = "epoll"
  /\ pc \in {"wait", "read", "level"} => count < 3
  /\ pc \in {"read", "level"} => variant \in {"epoll", "poll"}
  /\ pc \notin {"wait", "read", "level", "ended"} => count = 0

EdgeInv ==
  /\ pc = "wait" => count + (IF Noted THEN 1 ELSE 0) <= Causes
  /\ pc = "read" => count + 1 <= Causes
  /\ pc = "read" /\ variant = "epoll" /\ ready => count + 2 <= Causes
  /\ pc = "level" => count + 1 + (IF Noted THEN 1 ELSE 0) <= Causes

Inv == TypeOK /\ PcInv /\ EdgeInv /\ CountsPushes

LEMMA InitInv == Init => Inv
<1> SUFFICES ASSUME Init PROVE Inv
  OBVIOUS
<1> USE DEF Init
<1>1. TypeOK
  <2>1. led \in BOOLEAN
    OBVIOUS
  <2>2. rises \in 0 .. MaxRises /\ count \in 0 .. 3
    BY MaxRisesOK
  <2> QED
    BY <2>1, <2>2 DEF TypeOK
<1>2. PcInv /\ EdgeInv /\ CountsPushes
  BY DEF PcInv, EdgeInv, CountsPushes
<1> QED
  BY <1>1, <1>2 DEF Inv

\* All that the numbers are.
LEMMA Numbers ==
  ASSUME TypeOK
  PROVE  count \in Nat /\ rises \in Nat /\ MaxRises \in Nat /\ Causes \in Nat
  BY MaxRisesOK DEF TypeOK, Causes

-----------------------------------------------------------------------------
LEMMA ButtonInv == ASSUME Inv, ButtonUp \/ ButtonDown PROVE Inv'
<1>0. count \in Nat /\ rises \in Nat /\ MaxRises \in Nat
  BY Numbers DEF Inv
<1>1. CASE ButtonUp
  <2> USE <1>1 DEF ButtonUp, Inv, output, kernel, hist
  <2>1. TypeOK'
    BY DEF TypeOK
  <2>2. PcInv' /\ EdgeInv' /\ CountsPushes'
    BY DEF PcInv, EdgeInv, CountsPushes, Noted, Causes
  <2> QED
    BY <2>1, <2>2
<1>2. CASE ButtonDown
  <2>1. /\ UNCHANGED <<variant, pc, edgeSet, code, led, failed, count>>
        /\ button' = TRUE
    BY <1>2 DEF ButtonDown, output
  <2>2. CASE edgeSet
    <3>1. /\ rises' = rises + 1 /\ changed' = TRUE /\ rises < MaxRises
          /\ ready' = (ready \/ Watching) /\ rose' = (rose \/ Watching)
      BY <1>2, <2>2 DEF ButtonDown
    <3>2. TypeOK'
      <4>1. rises' \in 0 .. MaxRises
        BY <1>0, <3>1
      <4>2. {button', changed', ready', rose'} \subseteq BOOLEAN
        BY <2>1, <3>1, Zenon
      <4> QED
        BY <2>1, <4>1, <4>2 DEF Inv, TypeOK
    <3>3. PcInv' /\ CountsPushes'
      BY <1>0, <2>1, <3>1 DEF Inv, PcInv, CountsPushes
    <3>4. EdgeInv'
      BY <1>0, <2>1, <3>1 DEF Inv, EdgeInv, Noted, Causes
    <3> QED
      BY <3>2, <3>3, <3>4 DEF Inv
  <2>3. CASE ~edgeSet
    <3>1. UNCHANGED <<changed, ready, rises, rose>>
      BY <1>2, <2>3 DEF ButtonDown, hist
    <3>2. TypeOK'
      BY <2>1, <3>1 DEF Inv, TypeOK
    <3>3. PcInv' /\ EdgeInv' /\ CountsPushes'
      BY <2>1, <3>1 DEF Inv, PcInv, EdgeInv, CountsPushes, Noted, Causes
    <3> QED
      BY <3>2, <3>3 DEF Inv
  <2> QED
    BY <2>2, <2>3
<1> QED
  BY <1>1, <1>2

\* Until the value file is open and read, nothing is printed.
LEMMA SetUpInv ==
  ASSUME Inv, Export \/ SetDirection \/ SetEdge \/ OpenValue \/ FirstRead \/ EpollAdd
  PROVE  Inv'
<1>0. /\ count = 0 /\ count \in Nat /\ rises \in Nat
      /\ UNCHANGED <<variant, button, led, failed, count, rises, rose>>
  BY Numbers DEF Inv, PcInv, Export, SetDirection, SetEdge, OpenValue, FirstRead, EpollAdd,
     Goes, output, hist
<1>1. CASE Export \/ SetDirection \/ SetEdge \/ OpenValue
  <2>1. /\ pc' \in {"direction", "sample", "edge", "open", "first", "deaf", "ended"}
        /\ {edgeSet', changed', ready'} \subseteq BOOLEAN /\ code' = code
    BY <1>1 DEF Export, SetDirection, SetEdge, OpenValue, Goes, kernel, Inv, TypeOK
  <2>2. TypeOK'
    BY <1>0, <2>1 DEF Inv, TypeOK
  <2>3. PcInv' /\ EdgeInv' /\ CountsPushes'
    BY <1>0, <2>1 DEF PcInv, EdgeInv, CountsPushes
  <2> QED
    BY <2>2, <2>3 DEF Inv
<1>2. CASE FirstRead
  <2>1. /\ pc' = IF variant = "epoll" THEN "add" ELSE "wait"
        /\ changed' = FALSE /\ code' = button /\ UNCHANGED <<edgeSet, ready>>
    BY <1>2 DEF FirstRead, Goes
  <2>2. TypeOK'
    BY <1>0, <2>1 DEF Inv, TypeOK
  <2>3. PcInv' /\ EdgeInv' /\ CountsPushes'
    BY <1>0, <2>1 DEF PcInv, EdgeInv, CountsPushes, Noted, Causes
  <2> QED
    BY <2>2, <2>3 DEF Inv
<1>3. CASE EpollAdd
  <2>1. /\ pc' = "wait" /\ ready' = TRUE /\ UNCHANGED <<edgeSet, changed, code>>
        /\ variant = "epoll"
    BY <1>3 DEF EpollAdd, Goes, Inv, PcInv
  <2>2. TypeOK'
    BY <1>0, <2>1 DEF Inv, TypeOK
  <2>3. PcInv' /\ EdgeInv' /\ CountsPushes'
    BY <1>0, <2>1 DEF PcInv, EdgeInv, CountsPushes, Noted, Causes
  <2> QED
    BY <2>2, <2>3 DEF Inv
<1> QED
  BY <1>1, <1>2, <1>3

\* A wait ends with an edge nobody has waited for.
LEMMA WaitInv ==
  ASSUME Inv, EpollWait \/ PollWait \/ SelectWait PROVE Inv'
<1>0. /\ count \in Nat /\ rises \in Nat /\ pc = "wait" /\ count < 3
      /\ UNCHANGED <<variant, button, led, failed, edgeSet, changed, code, rises>>
  BY Numbers DEF Inv, PcInv, EpollWait, PollWait, SelectWait, Goes, output, kernel, hist
<1>1. CASE EpollWait
  <2>1. /\ variant = "epoll" /\ pc' = "read" /\ ready /\ ready' = FALSE
        /\ UNCHANGED <<count, rose>>
    BY <1>1 DEF EpollWait, Goes, hist
  <2>2. TypeOK'
    BY <1>0, <2>1 DEF Inv, TypeOK
  <2>3. PcInv' /\ EdgeInv' /\ CountsPushes'
    BY <1>0, <2>1 DEF Inv, PcInv, EdgeInv, CountsPushes, Noted, Causes
  <2> QED
    BY <2>2, <2>3 DEF Inv
<1>2. CASE PollWait
  <2>1. /\ variant = "poll" /\ pc' = "read" /\ changed
        /\ UNCHANGED <<count, rose, ready>>
    BY <1>2 DEF PollWait, Goes, hist, kernel
  <2>2. TypeOK'
    BY <1>0, <2>1 DEF Inv, TypeOK
  <2>3. PcInv' /\ EdgeInv' /\ CountsPushes'
    BY <1>0, <2>1 DEF Inv, PcInv, EdgeInv, CountsPushes, Noted, Causes
  <2> QED
    BY <2>2, <2>3 DEF Inv
<1>3. CASE SelectWait
  <2>1. /\ variant = "select" /\ pc' = "ended" /\ changed
        /\ count' = count + 1 /\ rose' = FALSE /\ UNCHANGED ready
    BY <1>3 DEF SelectWait, Goes, kernel
  <2>a. count' \in 0 .. 3
    <3>1. count' = count + 1 /\ count \in Nat /\ count < 3
      BY <1>0, <2>1
    <3> QED
      BY <3>1
  <2>b. pc' = "ended" /\ rose' = FALSE
    BY <2>1
  <2>2. TypeOK'
    BY <1>0, <2>1, <2>a, <2>b DEF Inv, TypeOK
  <2>3. PcInv' /\ EdgeInv' /\ CountsPushes'
    BY <1>0, <2>1 DEF Inv, PcInv, EdgeInv, CountsPushes, Noted, Causes
  <2> QED
    BY <2>2, <2>3 DEF Inv
<1> QED
  BY <1>1, <1>2, <1>3

LEMMA ReadNotesInv == ASSUME Inv, ReadNotes PROVE Inv'
<1>0. /\ count \in Nat /\ rises \in Nat /\ pc = "read" /\ pc' = "level"
      /\ changed' = FALSE
      /\ UNCHANGED <<variant, button, led, failed, edgeSet, ready, code, count, rises, rose>>
  BY Numbers DEF Inv, ReadNotes, Goes, output, hist
<1>1. TypeOK'
  BY <1>0 DEF Inv, TypeOK
<1>2. PcInv' /\ EdgeInv' /\ CountsPushes'
  BY <1>0 DEF Inv, PcInv, EdgeInv, CountsPushes, Noted, Causes
<1> QED
  BY <1>1, <1>2 DEF Inv

LEMMA ReadLevelInv == ASSUME Inv, ReadLevel PROVE Inv'
<1>0. /\ count \in Nat /\ rises \in Nat /\ pc = "level" /\ count < 3
      /\ count' = IF button THEN count + 1 ELSE count
      /\ pc' = IF count' >= 3 THEN "ended" ELSE "wait"
      /\ code' = button /\ rose' = (rose /\ ~button)
      /\ UNCHANGED <<variant, button, led, failed, edgeSet, changed, ready, rises>>
  BY Numbers DEF Inv, PcInv, ReadLevel, Look, Goes, output, kernel
<1>a. count' \in 0 .. 3 /\ (count' = count \/ count' = count + 1)
  BY <1>0
<1>1. TypeOK'
  <2>1. rose' \in BOOLEAN
    <3>1. rose' = (rose /\ ~button)
      BY <1>0
    <3> QED
      BY <3>1, Zenon
  <2> QED
    BY <1>0, <1>a, <2>1 DEF Inv, TypeOK
<1>2. PcInv' /\ EdgeInv' /\ CountsPushes'
  BY <1>0, <1>a DEF Inv, PcInv, EdgeInv, CountsPushes, Noted, Causes
<1> QED
  BY <1>1, <1>2 DEF Inv

LEMMA UsleepInv == ASSUME Inv, Sample \/ Show PROVE Inv'
<1>0. /\ pc' \in {"sample", "show"} /\ pc \in {"sample", "show"}
      /\ {code', led', failed'} \subseteq BOOLEAN
      /\ UNCHANGED <<variant, button, edgeSet, changed, ready, count, rises, rose>>
  BY DEF Sample, Show, Goes, Inv, TypeOK, kernel, hist
<1>1. TypeOK'
  BY <1>0 DEF Inv, TypeOK
<1>2. PcInv' /\ EdgeInv' /\ CountsPushes'
  BY <1>0 DEF Inv, PcInv, EdgeInv, CountsPushes
<1> QED
  BY <1>1, <1>2 DEF Inv

-----------------------------------------------------------------------------
LEMMA NextInv == Inv /\ [Next]_vars => Inv'
<1> SUFFICES ASSUME Inv, [Next]_vars PROVE Inv'
  OBVIOUS
<1>1. CASE ButtonUp \/ ButtonDown
  BY <1>1, ButtonInv
<1>2. CASE Main
  BY <1>2, SetUpInv, WaitInv, ReadNotesInv, ReadLevelInv, UsleepInv DEF Main
<1>3. CASE UNCHANGED vars
  <2> USE <1>3 DEF Inv, vars, kernel, output, hist
  <2>1. TypeOK'
    BY DEF TypeOK
  <2>2. PcInv' /\ EdgeInv' /\ CountsPushes'
    BY DEF PcInv, EdgeInv, CountsPushes, Noted, Causes
  <2> QED
    BY <2>1, <2>2
<1> QED
  BY <1>1, <1>2, <1>3 DEF Next

LEMMA Invariant == Spec => []Inv
<1>1. Init => Inv
  BY InitInv
<1>2. Inv /\ [Next]_vars => Inv'
  BY NextInv
<1> QED
  BY <1>1, <1>2, PTL DEF Spec

\* Every variable keeps its type; no program prints a fourth push.
THEOREM TypeCorrect == Spec => []TypeOK
<1>1. Inv => TypeOK
  BY DEF Inv
<1> QED
  BY <1>1, Invariant, PTL

\* However the contacts bounce, no program prints more pushes than there were
\* edges; with epoll one more, the level at the start.
THEOREM NoPushTwice == Spec => []CountsPushes
<1>1. Inv => CountsPushes
  BY DEF Inv
<1> QED
  BY <1>1, Invariant, PTL

\* Without epoll, and its EPOLLIN, every push printed is an edge of its own.
THEOREM PushesAreEdges ==
  ASSUME "epoll" \notin Variants PROVE Spec => []PushIsEdge
<1>1. Inv => PushIsEdge
  <2> SUFFICES ASSUME Inv PROVE PushIsEdge
    OBVIOUS
  <2>1. variant # "epoll" /\ rises \in Nat
    BY Numbers DEF Inv, TypeOK
  <2> QED
    BY <2>1 DEF Inv, CountsPushes, PushIsEdge
<1> QED
  BY <1>1, Invariant, PTL
=============================================================================
