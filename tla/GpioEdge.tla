------------------------------- MODULE GpioEdge -------------------------------
(***************************************************************************)
(* Waiting for a push button: gpio_input_epoll.c, gpio_input_poll.c and    *)
(* gpio_input_select.c.  Each one sets the pin up, asks the kernel for its *)
(* rising edges, opens the value file, reads it once, and waits for edges; *)
(* the first two look at the level and stop at the third push, the last    *)
(* one stops at the first edge.  gpio_input_usleep.c does without edges:   *)
(* for ever, it reads the level and copies it to an LED.                   *)
(*                                                                         *)
(* The kernel's side is external.  Of an open value file it remembers      *)
(* whether an edge came after the last read (changed, TRUE for a file that *)
(* was never read); poll() and select() look at that.  An edge-triggered   *)
(* epoll keeps a flag of its own (ready), set by each edge and, since the  *)
(* program asks for EPOLLIN and a value file can always be read, when the  *)
(* file is added.  A read first takes note of the edges, then fetches the  *)
(* level; an edge may come in between.                                     *)
(***************************************************************************)
EXTENDS Integers

CONSTANTS
  Variants,     \* which of the four programs
  MaxRises      \* rising edges that are looked at (model bound)

ASSUME VariantsOK == Variants \subseteq {"epoll", "poll", "select", "usleep"}
ASSUME MaxRisesOK == MaxRises \in Nat

VARIABLES
  variant,      \* the program that runs
  pc,           \* where its main() is; "deaf": it waits for nothing
  button,       \* the level at IN_GPIO
  edgeSet,      \* the kernel reports rising edges
  changed,      \* an edge came after the last read
  ready,        \* epoll has something to report
  code,         \* the level last read is high
  led,          \* the level at OUT_GPIO, of usleep
  failed,       \* history: a call of its last turn failed
  count,        \* pushes printed
  rises,        \* history: rising edges since the edge was set
  rose          \* history: one since the first read, not followed by a push

kernel == <<edgeSet, changed, ready>>
output == <<led, failed>>
hist   == <<rises, rose>>
vars == <<variant, pc, button, kernel, code, output, count, hist>>

Init ==
  /\ variant \in Variants
  /\ pc = "export"
  /\ button \in BOOLEAN
  /\ edgeSet = FALSE /\ changed = FALSE /\ ready = FALSE
  /\ code = FALSE /\ count = 0
  /\ led \in IF variant = "usleep" THEN BOOLEAN ELSE {FALSE}
  /\ failed = FALSE
  /\ rises = 0 /\ rose = FALSE

Goes(from, to) == pc = from /\ pc' = to

\* The value file is open, and the first read of it is over.
Watching == pc \in {"add", "wait", "read", "level"}

ButtonUp ==
  /\ button
  /\ button' = FALSE
  /\ UNCHANGED <<variant, output, pc, kernel, code, count, hist>>

ButtonDown ==
  /\ ~button /\ rises < MaxRises
  /\ button' = TRUE
  /\ IF edgeSet
       THEN /\ rises' = rises + 1
            /\ changed' = TRUE
            /\ ready' = (ready \/ Watching)
            /\ rose' = (rose \/ Watching)
       ELSE UNCHANGED <<changed, ready, hist>>
  /\ UNCHANGED <<variant, output, pc, edgeSet, code, count>>

\* gpio_export() and gpio_set_direction() of both pins, or main() returns
Export ==
  /\ Goes("export", "direction") \/ Goes("export", "ended")
  /\ UNCHANGED <<variant, output, button, kernel, code, count, hist>>

SetDirection ==
  /\ \/ Goes("direction", IF variant = "usleep" THEN "sample" ELSE "edge")
     \/ Goes("direction", "ended")
  /\ UNCHANGED <<variant, output, button, kernel, code, count, hist>>

\* gpio_set_edge(): its result is not looked at
SetEdge ==
  /\ Goes("edge", "open")
  /\ edgeSet' \in BOOLEAN
  /\ UNCHANGED <<variant, output, button, changed, ready, code, count, hist>>

\* open() of the value file.  A failure is not noticed (epoll compares the
\* descriptor with 0): epoll_wait(), poll() and select() of no descriptors then wait
\* for nothing.  FD_SET() of a negative descriptor is undefined: it may also end the
\* program.
OpenValue ==
  /\ \/ Goes("open", "first") /\ changed' = TRUE
     \/ Goes("open", "deaf") /\ UNCHANGED changed
     \/ variant = "select" /\ Goes("open", "ended") /\ UNCHANGED changed
  /\ UNCHANGED <<variant, output, button, edgeSet, ready, code, count, hist>>

\* mutant: the file is not read first
FirstReadNot ==
  /\ Goes("first", IF variant = "epoll" THEN "add" ELSE "wait")
  /\ UNCHANGED <<variant, output, button, kernel, code, count, hist>>

\* "need this to make poll() work"
FirstRead ==
  /\ Goes("first", IF variant = "epoll" THEN "add" ELSE "wait")
  /\ changed' = FALSE
  /\ code' = button
  /\ UNCHANGED <<variant, output, button, edgeSet, ready, count, hist>>

\* epoll_ctl(EPOLL_CTL_ADD) with EPOLLPRI | EPOLLET | EPOLLIN
EpollAdd ==
  /\ Goes("add", "wait")
  /\ ready' = TRUE
  /\ UNCHANGED <<variant, output, button, edgeSet, changed, code, count, hist>>

\* epoll_wait()
EpollWait ==
  /\ variant = "epoll"
  /\ Goes("wait", "read")
  /\ ready
  /\ ready' = FALSE
  /\ UNCHANGED <<variant, output, button, edgeSet, changed, code, count, hist>>

\* poll() with POLLPRI | POLLERR
PollWait ==
  /\ variant = "poll"
  /\ Goes("wait", "read")
  /\ changed
  /\ UNCHANGED <<variant, output, button, kernel, code, count, hist>>

\* select() on exceptfds; the level is not looked at
SelectWait ==
  /\ variant = "select"
  /\ Goes("wait", "ended")
  /\ changed
  /\ count' = count + 1
  /\ rose' = FALSE
  /\ UNCHANGED <<variant, output, button, kernel, code, rises>>

\* lseek() and read(): the kernel notes the edges it has reported ...
ReadNotes ==
  /\ Goes("read", "level")
  /\ changed' = FALSE
  /\ UNCHANGED <<variant, output, button, edgeSet, ready, code, count, hist>>

\* mutant: the loop does not end
LookOn(level) ==
  /\ code' = level
  /\ count' = IF level THEN count + 1 ELSE count
  /\ rose' = (rose /\ ~level)
  /\ Goes("level", "wait")
  /\ UNCHANGED <<variant, output, button, kernel, rises>>

\* Pushed or not, with `level' in the buffer.
Look(level) ==
  /\ code' = level
  /\ count' = IF level THEN count + 1 ELSE count
  /\ rose' = (rose /\ ~level)
  /\ Goes("level", IF count' >= 3 THEN "ended" ELSE "wait")
  /\ UNCHANGED <<variant, output, button, kernel, rises>>

\* mutant: without the lseek() nothing is read
ReadLevelOld == Look(code)

\* ... and fetches the level.
ReadLevel == Look(button)

\* gpio_input_usleep: gpio_get_value(); the result of a failed open() is negative
\* and so no high level, that of a failed read() is what was on the stack.
Sample ==
  /\ Goes("sample", "show")
  /\ \/ code' = button /\ failed' = FALSE
     \/ code' \in BOOLEAN /\ failed' = TRUE
  /\ UNCHANGED <<variant, button, kernel, led, count, hist>>

\* mutant: the LED is switched on and never off
ShowOn ==
  /\ Goes("show", "sample")
  /\ led' = (led \/ code) /\ UNCHANGED failed
  /\ UNCHANGED <<variant, button, kernel, code, count, hist>>

\* gpio_set_value(); its result is not looked at
Show ==
  /\ Goes("show", "sample")
  /\ \/ led' = code /\ UNCHANGED failed
     \/ failed' = TRUE /\ UNCHANGED led
  /\ UNCHANGED <<variant, button, kernel, code, count, hist>>

Main ==
  \/ Export \/ SetDirection \/ SetEdge \/ OpenValue \/ FirstRead
  \/ EpollAdd \/ EpollWait \/ PollWait \/ SelectWait \/ ReadNotes \/ ReadLevel
  \/ Sample \/ Show

Next == ButtonUp \/ ButtonDown \/ Main

Spec == Init /\ [][Next]_vars /\ WF_vars(Main)

-----------------------------------------------------------------------------
(* Properties *)

\* The type invariant: no more than three pushes are printed.
TypeOK ==
  /\ variant \in Variants
  /\ pc \in {"export", "direction", "edge", "open", "first", "add", "wait", "read",
             "level", "sample", "show", "ended", "deaf"}
  /\ {button, edgeSet, changed, ready, code, led, failed, rose} \subseteq BOOLEAN
  /\ count \in 0 .. 3
  /\ rises \in 0 .. MaxRises

\* No push is printed twice, bounces or not: the programs print no more
\* pushes than there were edges; with epoll one more, the level at the start.
CountsPushes == count <= rises + (IF variant = "epoll" THEN 1 ELSE 0)

\* A push is an edge: the program waits for one before it prints "pushed"
\* (gpio_input_epoll.c:150, :161).  Does not hold for epoll: EPOLLIN makes
\* the first wait return at once.
PushIsEdge == count <= rises

\* A push that is held is printed, whatever the program was doing when it
\* came: between the wait and the read, too, no edge is lost.  And a level that
\* stays is shown by gpio_input_usleep, once a turn of its loop succeeds.
HeldPushSeen ==
  /\ <>[]button => <>[](~rose \/ pc = "ended")
  /\ variant = "usleep" => \A level \in BOOLEAN :
       <>[](button = level /\ ~failed) => <>[](led = level \/ pc = "ended")
=============================================================================
