\* Two runs, two threads each, two turns each.  CHECK_DEADLOCK FALSE: all
\* processes may have ended, or wait for one that was killed.
CONSTANTS
  Procs = {p1, p2}
  None = None
  kNum = 2
  kTurns = 2
SPECIFICATION Spec
INVARIANTS TypeOK OneToken LinesNumbered OwnUnlessRaced
PROPERTY Ends
CHECK_DEADLOCK FALSE
