\* Two clients, the three turns of the programs, and a listen() with a queue of one,
\* so that one client waits in the queue, or for room in it.
\* CHECK_DEADLOCK FALSE: all may have ended, or wait for each other for ever.
CONSTANTS
  Clients = {c1, c2}
  None = None
  Turns = 3
  ListenMax = 0
SPECIFICATION Spec
INVARIANTS TypeOK InStep StaleOnlyUnserved
PROPERTY AllEnd
CHECK_DEADLOCK FALSE
