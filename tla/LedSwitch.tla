------------------------------ MODULE LedSwitch ------------------------------
(***************************************************************************)
(* The three tasks of app_01timerOut.c (the first two are also those of    *)
(* gpio_ledTask_swTask.c).  swTask samples a push button every 20 ms and   *)
(* toggles s_bfStart when it sees low, low, high, high; ledTask copies     *)
(* s_bfStart to an LED every 100 ms; mainTask prints the time every second *)
(* while s_bfStart is set.  The flag is shared without a lock: between a   *)
(* task's look at it and what the task does about it, swTask may run.      *)
(*                                                                         *)
(* The sysfs files of a pin may be missing when a task starts, which ends  *)
(* that task only; with Faults, opening or reading a value file may fail   *)
(* later too.  Time is not modelled: a sleep may take any time.            *)
(***************************************************************************)
EXTENDS Integers, Sequences

CONSTANT Faults         \* which calls on a value file may fail later

ASSUME FaultsOK == Faults \subseteq {"open", "read"}

VARIABLES
  button,       \* level at IN_GPIO, as the user's finger has it
  led,          \* level at OUT_GPIO
  s_bfStart,    \* the shared flag
  swPc,         \* where swTask is
  hist,         \* swTask: the last three samples, old .. new
  pos,          \* swTask: samples taken, up to three
  ledPc,        \* where ledTask is
  ledSeen,      \* ledTask: the value of the flag it is about to show
  mainPc,       \* where mainTask is
  levels,       \* history: the button at the last four samples, old .. new
  writes,       \* history: LED updates since the flag changed (capped at 2)
  late          \* history: times printed since the flag was cleared (capped at 2)

swVars   == <<swPc, hist, pos>>
ledVars  == <<ledPc, ledSeen>>
vars == <<button, led, s_bfStart, swVars, ledVars, mainPc, levels, writes, late>>

Press == <<FALSE, FALSE, TRUE, TRUE>>
Capped(n) == IF n < 2 THEN n + 1 ELSE 2

Init ==
  /\ button \in BOOLEAN /\ led \in BOOLEAN      \* as the board happens to be
  /\ s_bfStart = FALSE
  /\ swPc = "export" /\ hist = <<FALSE, FALSE, FALSE>> /\ pos = 0
  /\ ledPc = "export" /\ ledSeen = FALSE
  /\ mainPc = "look"
  /\ levels = <<>> /\ writes = 0 /\ late = 0

\* The finger on the button, and its bouncing contacts.
ButtonMoves ==
  /\ button' = ~button
  /\ UNCHANGED <<led, s_bfStart, swVars, ledVars, mainPc, levels, writes, late>>

\* gpio_export() and gpio_set_direction(): a task goes on, or it returns.
SetUp(pc, pc2) ==
  \/ pc = "export"    /\ pc2 = "direction"
  \/ pc = "direction" /\ pc2 = "loop"
  \/ pc \in {"export", "direction"} /\ pc2 = "ended"

SwSetUp ==
  /\ \E next \in {"direction", "loop", "ended"} : SetUp(swPc, next) /\ swPc' = next
  /\ UNCHANGED <<button, led, s_bfStart, hist, pos, ledVars, mainPc, levels, writes, late>>

LedSetUp ==
  /\ \E next \in {"direction", "loop", "ended"} : SetUp(ledPc, next) /\ ledPc' = next
  /\ UNCHANGED <<button, led, s_bfStart, swVars, ledSeen, mainPc, levels, writes, late>>

\* gpio_get_hiLow(): a failed open() returns its negative result as a bool,
\* that is TRUE; after a failed read() the buffer holds anything.
HiLow == {button} \cup (IF "open" \in Faults THEN {TRUE} ELSE {})
                  \cup (IF "read" \in Faults THEN BOOLEAN ELSE {})

\* Mutants of IsPress and Shift.
IsPressEarly(now) == ~hist[2] /\ hist[3] /\ now         \* one low is enough
ShiftGrows(now) == Append(hist, now)                    \* none is dropped

IsPress(now) == ~hist[1] /\ ~hist[2] /\ hist[3] /\ now
Shift(now) == <<hist[2], hist[3], now>>

SwSample ==
  /\ swPc = "loop"
  /\ \E now \in HiLow :
       /\ hist' = Shift(now)
       /\ \/ /\ pos < 3
             /\ pos' = pos + 1
             /\ UNCHANGED <<s_bfStart, writes, late>>
          \/ /\ pos = 3
             /\ ~IsPress(now)
             /\ UNCHANGED <<pos, s_bfStart, writes, late>>
          \/ /\ pos = 3
             /\ IsPress(now)
             /\ s_bfStart' = ~s_bfStart
             /\ writes' = 0
             /\ late' = 0
             /\ UNCHANGED pos
  /\ levels' = IF Len(levels) < 4 THEN Append(levels, button)
                                  ELSE Append(Tail(levels), button)
  /\ UNCHANGED <<button, led, swPc, ledVars, mainPc>>

\* mutant: the flag is read before the loop only
LedLookOnce ==
  /\ ledPc = "loop"
  /\ ledPc' = "write"
  /\ UNCHANGED <<button, led, s_bfStart, swVars, ledSeen, mainPc, levels, writes, late>>

LedLook ==
  /\ ledPc = "loop"
  /\ ledSeen' = s_bfStart
  /\ ledPc' = "write"
  /\ UNCHANGED <<button, led, s_bfStart, swVars, mainPc, levels, writes, late>>

\* mutant: the LED is switched on and never off
LedWriteOn ==
  /\ ledPc = "write"
  /\ ledPc' = "loop"
  /\ led' = (led \/ ledSeen)
  /\ writes' = Capped(writes)
  /\ UNCHANGED <<button, s_bfStart, swVars, ledSeen, mainPc, levels, late>>

\* gpio_set_value(): its result is not looked at
LedWrite ==
  /\ ledPc = "write"
  /\ ledPc' = "loop"
  /\ led' \in (IF "open" \in Faults THEN {ledSeen, led} ELSE {ledSeen})
  /\ writes' = Capped(writes)
  /\ UNCHANGED <<button, s_bfStart, swVars, ledSeen, mainPc, levels, late>>

MainLook ==
  /\ mainPc = "look"
  /\ s_bfStart
  /\ mainPc' = "print"
  /\ UNCHANGED <<button, led, s_bfStart, swVars, ledVars, levels, writes, late>>

MainPrint ==
  /\ mainPc = "print"
  /\ mainPc' = "look"
  /\ late' = IF s_bfStart THEN 0 ELSE Capped(late)
  /\ UNCHANGED <<button, led, s_bfStart, swVars, ledVars, levels, writes>>

swTask   == SwSetUp \/ SwSample
ledTask  == LedSetUp \/ LedLook \/ LedWrite
mainTask == MainLook \/ MainPrint

Next == ButtonMoves \/ swTask \/ ledTask \/ mainTask

Fairness == WF_vars(swTask) /\ WF_vars(ledTask) /\ WF_vars(mainTask)

Spec == Init /\ [][Next]_vars /\ Fairness
------------------------------------------------------------------------------
\* The type invariant.
TypeOK ==
  /\ {button, led, s_bfStart, ledSeen} \subseteq BOOLEAN
  /\ swPc \in {"export", "direction", "loop", "ended"}
  /\ hist \in [1 .. 3 -> BOOLEAN]
  /\ pos \in 0 .. 3
  /\ ledPc \in {"export", "direction", "loop", "write", "ended"}
  /\ mainPc \in {"look", "print"}
  /\ levels \in Seq(BOOLEAN) /\ Len(levels) <= 4
  /\ writes \in 0 .. 2
  /\ late \in 0 .. 2

(***************************************************************************)
(* swTask debounces: s_bfStart toggles at exactly those samples that end a *)
(* press, two low and two high levels of the button in a row.  No press is *)
(* missed, a bounce of one sample does nothing, a press toggles once, and  *)
(* what hist was initialised with counts for nothing.                      *)
(***************************************************************************)
TogglesPerPress ==
  [][s_bfStart' # s_bfStart <=> (levels' = Press /\ levels' # levels)]_vars

\* s_bfStart may be used once after it has changed: from its second update on
\* ledTask shows what the flag is, and mainTask prints the time no second time.
StaleOnce == (writes = 2 => led = s_bfStart) /\ late < 2

\* If the user leaves the button alone the LED ends up as the flag says,
\* unless ledTask found no GPIO to work with.
LedFollows ==
  \A on \in BOOLEAN :
    <>[](s_bfStart = on) => <>[](led = on \/ ledPc = "ended")
==============================================================================
