\* The threads of posix_thread_4fifo; two processes on a queue of three places;
\* two turns of each loop of mutex_variable; the three lines and signals of the
\* programs that fork.
\* CHECK_DEADLOCK FALSE: programs end, and msg_0 may wait in a full queue.
SPECIFICATION MCSpec
CONSTANTS
  kNumThread = 3
  CreateFails = TRUE
  Procs = {p1, p2}
  MaxMsgs = 3
  Incs = 3
  Reads = 2
  MaxWakes = 2
  Lines = 3
  Giga = 10
  Half = 21
INVARIANTS
  TypesOK
  IndexUnlessSpurious
  StartTogether
  NobodyStuck
  ResultsReady
  SeenIsThere
  DocumentedOrder
PROPERTIES
  Drains
  ProgramsEnd
CHECK_DEADLOCK FALSE
