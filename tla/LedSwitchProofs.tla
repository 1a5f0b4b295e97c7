---------------------------- MODULE LedSwitchProofs ----------------------------
(***************************************************************************)
(* Proofs about LedSwitch.  There is no size in it; what is arbitrary here *)
(* is the constant Faults.  UseInv says how old a value of the flag a task *)
(* may hold, HistInv that swTask's three samples are the last three levels *)
(* of the button, which is only so if the value file can be opened and     *)
(* read.                                                                   *)
(***************************************************************************)
EXTENDS LedSwitch, SequenceTheorems, TLAPS

UseInv ==
  /\ writes >= 1 /\ ledPc = "write" => ledSeen = s_bfStart
  /\ writes = 2 => led = s_bfStart
  /\ late < 2
  /\ s_bfStart \/ mainPc = "print" => late = 0

HistInv ==
  /\ pos = IF Len(levels) < 3 THEN Len(levels) ELSE 3
  /\ pos = 1 => hist[3] = levels[1]
  /\ pos = 2 => hist[2] = levels[1] /\ hist[3] = levels[2]
  /\ Len(levels) = 3 =>
       hist[1] = levels[1] /\ hist[2] = levels[2] /\ hist[3] = levels[3]
  /\ Len(levels) = 4 =>
       hist[1] = levels[2] /\ hist[2] = levels[3] /\ hist[3] = levels[4]

\* What SwSample makes of the levels: the new one is the last, and before it come
\* the last three there were.
After(s, e) == IF Len(s) < 4 THEN Append(s, e) ELSE Append(Tail(s), e)

IsAfter(t, s, e) ==
  /\ Len(s) \in 0 .. 4 /\ Len(t) <= 4
  /\ Len(s) < 4 => /\ Len(t) = Len(s) + 1 /\ t[Len(s) + 1] = e
                   /\ \A i \in 1 .. Len(s) : t[i] = s[i]
  /\ Len(s) = 4 => /\ Len(t) = 4 /\ t[4] = e
                   /\ t[1] = s[2] /\ t[2] = s[3] /\ t[3] = s[4]

LEMMA AfterProperties ==
  ASSUME NEW S, NEW s \in Seq(S), Len(s) <= 4, NEW e \in S
  PROVE  After(s, e) \in Seq(S) /\ IsAfter(After(s, e), s, e)
<1> DEFINE n == Len(s)
<1>a. n \in Nat /\ n <= 4
  OBVIOUS
<1> HIDE DEF n
<1>b. n \in 0 .. 4 /\ (n < 4 \/ n = 4)
  BY <1>a
<1>0. Len(s) \in 0 .. 4 /\ (Len(s) < 4 \/ Len(s) = 4)
  BY <1>b DEF n
<1>1. CASE Len(s) < 4
  <2> DEFINE t == Append(s, e)
  <2>1. After(s, e) = t
    BY <1>1 DEF After
  <2>2. t \in Seq(S) /\ Len(t) = Len(s) + 1
    BY AppendProperties
  <2>3. t[Len(s) + 1] = e /\ \A i \in 1 .. Len(s) : t[i] = s[i]
    BY AppendProperties
  <2> HIDE DEF t
  <2>4. IsAfter(t, s, e)
    BY <1>0, <1>1, <2>2, <2>3 DEF IsAfter
  <2> QED
    BY <2>1, <2>2, <2>4
<1>2. CASE Len(s) = 4
  <2> DEFINE r == Tail(s)
             t == Append(r, e)
  <2>1. After(s, e) = t
    BY <1>2 DEF After
  <2>2. s # <<>>
    BY <1>2
  <2>3. r \in Seq(S) /\ Len(r) = 3
    BY <1>2, <2>2, HeadTailProperties
  <2>4. \A i \in 1 .. 3 : r[i] = s[i + 1]
    BY <2>2, <2>3, HeadTailProperties
  <2> HIDE DEF r
  <2>a. r \in Seq(S)
    BY <2>3
  <2>5. t \in Seq(S) /\ Len(t) = Len(r) + 1
    BY <2>a, AppendProperties
  <2>b. t[Len(r) + 1] = e /\ \A i \in 1 .. Len(r) : t[i] = r[i]
    BY <2>a, AppendProperties
  <2> HIDE DEF t
  <2>6. Len(t) = 4 /\ t[4] = e /\ \A i \in 1 .. 3 : t[i] = s[i + 1]
    BY <2>3, <2>4, <2>5, <2>b
  <2>7. IsAfter(t, s, e)
    BY <1>2, <2>6 DEF IsAfter
  <2> QED
    BY <2>1, <2>5, <2>7
<1> QED
  BY <1>0, <1>1, <1>2

LEMMA LevelsAfter ==
  ASSUME TypeOK, SwSample
  PROVE  levels' \in Seq(BOOLEAN) /\ IsAfter(levels', levels, button)
<1>1. levels \in Seq(BOOLEAN) /\ Len(levels) <= 4 /\ button \in BOOLEAN
  BY DEF TypeOK
<1>2. levels' = After(levels, button)
  BY DEF SwSample, After
<1> QED
  BY <1>1, <1>2, AfterProperties

\* One sample of a level: the true one, if value files can be opened and read.
LEMMA SampleIsBool ==
  ASSUME TypeOK, NEW now \in HiLow
  PROVE  now \in BOOLEAN /\ (Faults = {} => now = button)
<1>1. button \in BOOLEAN
  BY DEF TypeOK
<1>2. now \in {button} \/ now = TRUE \/ now \in BOOLEAN
  BY Zenon DEF HiLow
<1>3. Faults = {} => now = button
  BY DEF HiLow
<1> QED
  BY <1>1, <1>2, <1>3, Zenon

\* What a sample does to the flag and to swTask's samples
LEMMA SampleCases ==
  ASSUME TypeOK, SwSample
  PROVE  \E now \in HiLow :
           /\ hist' = <<hist[2], hist[3], now>>
           /\ \/ /\ pos < 3 /\ pos' = pos + 1
                 /\ UNCHANGED <<s_bfStart, writes, late>>
              \/ /\ pos = 3 /\ pos' = 3 /\ ~IsPress(now)
                 /\ UNCHANGED <<s_bfStart, writes, late>>
              \/ /\ pos = 3 /\ pos' = 3 /\ IsPress(now)
                 /\ s_bfStart' = ~s_bfStart /\ writes' = 0 /\ late' = 0
  BY Zenon DEF SwSample, Shift

-----------------------------------------------------------------------------
(* Types *)

LEMMA ThreeSamples ==
  ASSUME NEW S, NEW a \in S, NEW b \in S, NEW c \in S
  PROVE  <<a, b, c>> \in [1 .. 3 -> S]
  OBVIOUS

LEMMA InitTypes == Init => TypeOK
<1> SUFFICES ASSUME Init PROVE TypeOK
  OBVIOUS
<1>1. levels \in Seq(BOOLEAN) /\ Len(levels) <= 4
  BY DEF Init
<1>2. hist \in [1 .. 3 -> BOOLEAN]
  BY ThreeSamples DEF Init
<1>3. {button, led, s_bfStart, ledSeen} \subseteq BOOLEAN
  <2>1. button \in BOOLEAN /\ led \in BOOLEAN
        /\ s_bfStart = FALSE /\ ledSeen = FALSE
    BY DEF Init
  <2>2. s_bfStart \in BOOLEAN /\ ledSeen \in BOOLEAN
    BY <2>1
  <2> QED
    BY <2>1, <2>2
<1>4. /\ swPc = "export" /\ pos = 0 /\ ledPc = "export" /\ mainPc = "look"
      /\ writes = 0 /\ late = 0
  BY DEF Init
<1> QED
  BY <1>1, <1>2, <1>3, <1>4 DEF TypeOK

LEMMA SampleTypes == ASSUME TypeOK, SwSample PROVE TypeOK'
<1> PICK now \in HiLow :
      /\ hist' = <<hist[2], hist[3], now>>
      /\ \/ /\ pos < 3 /\ pos' = pos + 1
            /\ UNCHANGED <<s_bfStart, writes, late>>
         \/ /\ pos = 3 /\ pos' = 3 /\ ~IsPress(now)
            /\ UNCHANGED <<s_bfStart, writes, late>>
         \/ /\ pos = 3 /\ pos' = 3 /\ IsPress(now)
            /\ s_bfStart' = ~s_bfStart /\ writes' = 0 /\ late' = 0
  BY SampleCases
<1>0. UNCHANGED <<button, led, swPc, ledPc, ledSeen, mainPc>>
  BY DEF SwSample, ledVars
<1>1. hist' \in [1 .. 3 -> BOOLEAN]
  <2>1. hist[2] \in BOOLEAN /\ hist[3] \in BOOLEAN /\ now \in BOOLEAN
    BY SampleIsBool DEF TypeOK
  <2> QED
    BY <2>1
<1>2. pos' \in 0 .. 3
  <2>1. pos \in 0 .. 3 /\ (pos' = 3 \/ (pos < 3 /\ pos' = pos + 1))
    BY DEF TypeOK
  <2> QED
    BY <2>1
<1>3. s_bfStart' \in BOOLEAN
  <2>1. s_bfStart \in BOOLEAN /\ (s_bfStart' = s_bfStart \/ s_bfStart' = ~s_bfStart)
    BY DEF TypeOK
  <2> QED
    BY <2>1, Zenon
<1>4. writes' \in 0 .. 2 /\ late' \in 0 .. 2
  <2>1. /\ writes \in 0 .. 2 /\ (writes' = writes \/ writes' = 0)
        /\ late \in 0 .. 2 /\ (late' = late \/ late' = 0)
    BY DEF TypeOK
  <2> QED
    BY <2>1
<1>5. levels' \in Seq(BOOLEAN) /\ Len(levels') <= 4
  BY LevelsAfter DEF IsAfter
<1> QED
  BY <1>0, <1>1, <1>2, <1>3, <1>4, <1>5 DEF TypeOK

LEMMA NextTypes == TypeOK /\ [Next]_vars => TypeOK'
<1> SUFFICES ASSUME TypeOK, [Next]_vars PROVE TypeOK'
  OBVIOUS
<1>1. CASE ButtonMoves
  <2>1. button' \in BOOLEAN
    BY <1>1, Zenon DEF ButtonMoves
  <2> QED
    BY <1>1, <2>1 DEF ButtonMoves, TypeOK, swVars, ledVars
<1>2. CASE SwSetUp \/ LedSetUp
  BY <1>2 DEF SwSetUp, LedSetUp, TypeOK, swVars, ledVars
<1>3. CASE SwSample
  BY <1>3, SampleTypes
<1>4. CASE LedLook
  BY <1>4 DEF LedLook, TypeOK, swVars
<1>5. CASE LedWrite
  <2>1. led' \in BOOLEAN /\ writes' \in 0 .. 2
    BY <1>5 DEF LedWrite, Capped, TypeOK
  <2> QED
    BY <1>5, <2>1 DEF LedWrite, TypeOK, swVars
<1>6. CASE MainLook
  BY <1>6 DEF MainLook, TypeOK, swVars, ledVars
<1>7. CASE MainPrint
  <2>1. late' \in 0 .. 2
    BY <1>7 DEF MainPrint, Capped, TypeOK
  <2> QED
    BY <1>7, <2>1 DEF MainPrint, TypeOK, swVars, ledVars
<1>8. CASE UNCHANGED vars
  BY <1>8 DEF vars, TypeOK, swVars, ledVars
<1> QED
  BY <1>1, <1>2, <1>3, <1>4, <1>5, <1>6, <1>7, <1>8
     DEF Next, swTask, ledTask, mainTask

\* Every variable keeps its type, whichever calls fail.
THEOREM TypeCorrect == Spec => []TypeOK
  BY InitTypes, NextTypes, PTL DEF Spec

-----------------------------------------------------------------------------
(* The age of what a task has read *)

LEMMA NextUses ==
  ASSUME "open" \notin Faults, TypeOK, UseInv, [Next]_vars
  PROVE  UseInv'
<1>1. CASE ButtonMoves \/ SwSetUp
  BY <1>1 DEF ButtonMoves, SwSetUp, UseInv, swVars, ledVars
<1>2. CASE SwSample
  <2>1. UNCHANGED <<led, ledPc, ledSeen, mainPc>>
    BY <1>2 DEF SwSample, ledVars
  <2>2. UNCHANGED <<s_bfStart, writes, late>> \/ (writes' = 0 /\ late' = 0)
    BY <1>2, SampleCases, Zenon
  <2> QED
    BY <2>1, <2>2 DEF UseInv
<1>3. CASE LedSetUp
  BY <1>3 DEF LedSetUp, SetUp, UseInv, swVars
<1>4. CASE LedLook
  BY <1>4 DEF LedLook, UseInv, swVars
<1>5. CASE LedWrite
  <2>1. /\ led' = ledSeen /\ ledPc = "write" /\ ledPc' = "loop"
        /\ writes' = IF writes < 2 THEN writes + 1 ELSE 2
        /\ UNCHANGED <<s_bfStart, mainPc, late>>
    BY <1>5 DEF LedWrite, Capped
  <2>2. writes \in {0, 1, 2}
    BY DEF TypeOK
  <2> QED
    BY <2>1, <2>2 DEF UseInv
<1>6. CASE MainLook
  BY <1>6 DEF MainLook, UseInv, swVars, ledVars
<1>7. CASE MainPrint
  <2>1. /\ mainPc = "print" /\ mainPc' = "look"
        /\ late' = IF s_bfStart THEN 0 ELSE Capped(late)
        /\ UNCHANGED <<s_bfStart, led, ledPc, ledSeen, writes>>
    BY <1>7 DEF MainPrint, ledVars
  <2>2. late = 0 /\ Capped(late) = 1
    BY <2>1 DEF UseInv, Capped
  <2> QED
    BY <2>1, <2>2 DEF UseInv
<1>8. CASE UNCHANGED vars
  BY <1>8 DEF vars, UseInv, swVars, ledVars
<1> QED
  BY <1>1, <1>2, <1>3, <1>4, <1>5, <1>6, <1>7, <1>8
     DEF Next, swTask, ledTask, mainTask

\* A task uses a value of the flag that is no longer its value once at most, as
\* long as value files can be opened.
THEOREM UsedOnce ==
  ASSUME "open" \notin Faults PROVE Spec => []StaleOnce
<1>1. Init => UseInv
  BY DEF Init, UseInv
<1>2. TypeOK /\ UseInv /\ [Next]_vars => UseInv'
  BY NextUses
<1>3. UseInv => StaleOnce
  BY DEF UseInv, StaleOnce
<1> QED
  BY <1>1, <1>2, <1>3, TypeCorrect, PTL DEF Spec

-----------------------------------------------------------------------------
(* Debouncing *)

LEMMA FourLevels ==
  ASSUME NEW S, NEW s \in Seq(S), Len(s) = 4
  PROVE  s = <<s[1], s[2], s[3], s[4]>>
  OBVIOUS

\* A sample keeps HistInv, and toggles the flag exactly if it ends a press.
LEMMA SampleDebounces ==
  ASSUME Faults = {}, TypeOK, HistInv, SwSample
  PROVE  /\ HistInv'
         /\ s_bfStart' # s_bfStart <=> (levels' = Press /\ levels' # levels)
<1> PICK now \in HiLow :
      /\ hist' = <<hist[2], hist[3], now>>
      /\ \/ /\ pos < 3 /\ pos' = pos + 1
            /\ UNCHANGED <<s_bfStart, writes, late>>
         \/ /\ pos = 3 /\ pos' = 3 /\ ~IsPress(now)
            /\ UNCHANGED <<s_bfStart, writes, late>>
         \/ /\ pos = 3 /\ pos' = 3 /\ IsPress(now)
            /\ s_bfStart' = ~s_bfStart /\ writes' = 0 /\ late' = 0
  BY SampleCases
<1>0. now = button
  BY SampleIsBool
<1>1. /\ hist'[1] = hist[2] /\ hist'[2] = hist[3] /\ hist'[3] = button
  BY <1>0
<1>2. IsAfter(levels', levels, button)
  BY LevelsAfter
<1>3. pos' = IF pos < 3 THEN pos + 1 ELSE 3
  OBVIOUS
<1>4. HistInv'
  <2>1. CASE Len(levels) < 3
    BY <1>1, <1>2, <1>3, <2>1 DEF HistInv, IsAfter
  <2>2. CASE Len(levels) = 3
    <3>1. /\ Len(levels') = 4 /\ levels'[4] = button
          /\ levels'[1] = levels[1] /\ levels'[2] = levels[2] /\ levels'[3] = levels[3]
      BY <1>2, <2>2 DEF IsAfter
    <3>2. pos' = 3 /\ hist[2] = levels[2] /\ hist[3] = levels[3]
      BY <1>3, <2>2 DEF HistInv
    <3> QED
      BY <1>1, <3>1, <3>2 DEF HistInv
  <2>3. CASE Len(levels) = 4
    <3>1. /\ Len(levels') = 4 /\ levels'[4] = button
          /\ levels'[1] = levels[2] /\ levels'[2] = levels[3] /\ levels'[3] = levels[4]
      BY <1>2, <2>3 DEF IsAfter
    <3>2. pos' = 3 /\ hist[2] = levels[3] /\ hist[3] = levels[4]
      BY <1>3, <2>3 DEF HistInv
    <3> QED
      BY <1>1, <3>1, <3>2 DEF HistInv
  <2> QED
    BY <1>2, <2>1, <2>2, <2>3 DEF IsAfter
<1>5. s_bfStart' # s_bfStart <=> (levels' = Press /\ levels' # levels)
  <2>1. CASE Len(levels) < 3
    <3>1. pos < 3
      BY <2>1 DEF HistInv
    <3>2. s_bfStart' = s_bfStart
      BY <3>1
    <3>3. Len(levels') # 4 /\ Len(Press) = 4
      BY <1>2, <2>1 DEF IsAfter, Press
    <3> QED
      BY <3>2, <3>3
  <2>2. CASE Len(levels) >= 3
    <3>1. /\ Len(levels') = 4 /\ levels' \in Seq(BOOLEAN) /\ pos = 3
          /\ levels'[1] = hist[1] /\ levels'[2] = hist[2]
          /\ levels'[3] = hist[3] /\ levels'[4] = button
      <4>1. CASE Len(levels) = 3
        BY <1>2, <4>1, LevelsAfter DEF IsAfter, HistInv
      <4>2. CASE Len(levels) = 4
        BY <1>2, <4>2, LevelsAfter DEF IsAfter, HistInv
      <4> QED
        <5> DEFINE n == Len(levels)
        <5>a. n \in 0 .. 4 /\ n >= 3
          BY <1>2, <2>2 DEF IsAfter
        <5> HIDE DEF n
        <5>b. n = 3 \/ n = 4
          BY <5>a
        <5>1. Len(levels) = 3 \/ Len(levels) = 4
          BY <5>b DEF n
        <5> QED
          BY <4>1, <4>2, <5>1
    <3>2. /\ hist[1] \in BOOLEAN /\ hist[2] \in BOOLEAN /\ hist[3] \in BOOLEAN
          /\ button \in BOOLEAN /\ s_bfStart \in BOOLEAN
      BY DEF TypeOK
    <3>3. levels' = Press <=>
            hist[1] = FALSE /\ hist[2] = FALSE /\ hist[3] = TRUE /\ button = TRUE
      <4>1. levels' = <<FALSE, FALSE, TRUE, TRUE>> <=>
              /\ levels'[1] = FALSE /\ levels'[2] = FALSE
              /\ levels'[3] = TRUE /\ levels'[4] = TRUE
        <5>1. levels' = <<levels'[1], levels'[2], levels'[3], levels'[4]>>
          BY <3>1, FourLevels
        <5>2. ASSUME levels' = <<FALSE, FALSE, TRUE, TRUE>>
              PROVE  /\ levels'[1] = FALSE /\ levels'[2] = FALSE
                     /\ levels'[3] = TRUE /\ levels'[4] = TRUE
          BY <5>2
        <5> QED
          BY <5>1, <5>2, Zenon
      <4> QED
        BY <3>1, <4>1, Zenon DEF Press
    <3>4. levels' = Press <=> IsPress(now)
      BY <1>0, <3>2, <3>3, Zenon DEF IsPress
    <3>5. levels' = Press => levels' # levels
      <4> SUFFICES ASSUME levels' = Press, levels' = levels PROVE FALSE
        OBVIOUS
      <4>1. Len(levels) = 4
        BY <3>1
      <4>2. hist[2] = levels[3]
        BY <4>1 DEF HistInv
      <4> QED
        BY <3>1, <3>3, <4>2, Zenon
    <3>6. s_bfStart' # s_bfStart <=> IsPress(now)
      <4>1. CASE IsPress(now)
        <5>1. s_bfStart' = ~s_bfStart
          BY <3>1, <4>1
        <5> QED
          BY <3>2, <4>1, <5>1, Zenon
      <4>2. CASE ~IsPress(now)
        <5>1. s_bfStart' = s_bfStart
          BY <4>2
        <5> QED
          BY <4>2, <5>1
      <4> QED
        BY <4>1, <4>2
    <3> QED
      BY <3>4, <3>5, <3>6, Zenon
  <2> QED
    BY <1>2, <2>1, <2>2 DEF IsAfter
<1> QED
  BY <1>4, <1>5

\* No other step takes a sample or toggles the flag.
LEMMA NextDebounces ==
  ASSUME Faults = {}, TypeOK, HistInv, [Next]_vars
  PROVE  /\ HistInv'
         /\ s_bfStart' # s_bfStart <=> (levels' = Press /\ levels' # levels)
<1>1. CASE SwSample
  BY <1>1, SampleDebounces
<1>2. CASE ~SwSample
  <2>1. UNCHANGED <<hist, pos, levels, s_bfStart>>
    BY <1>2 DEF Next, swTask, ledTask, mainTask, ButtonMoves, SwSetUp, LedSetUp, LedLook,
       LedWrite, MainLook, MainPrint, vars, swVars
  <2> QED
    BY <2>1 DEF HistInv
<1> QED
  BY <1>1, <1>2

\* As long as the value file of the button can be opened and read, the flag
\* toggles at exactly those samples that end a press.
THEOREM Debounces ==
  ASSUME Faults = {} PROVE Spec => TogglesPerPress
<1>1. Init => HistInv
  BY DEF Init, HistInv
<1>2. TypeOK /\ HistInv /\ [Next]_vars => HistInv'
  BY NextDebounces
<1>3. TypeOK /\ HistInv /\ [Next]_vars =>
        [s_bfStart' # s_bfStart <=> (levels' = Press /\ levels' # levels)]_vars
  BY NextDebounces
<1> QED
  BY <1>1, <1>2, <1>3, TypeCorrect, PTL DEF Spec, TogglesPerPress
=============================================================================
