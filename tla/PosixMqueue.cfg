SPECIFICATION Spec
CONSTANTS
  Procs = {p1, p2}
  MaxRuns = 3
  SendCount = 2
  kNumMessages = 5
  DefaultMax = 4
  MaxSetMsgSize = 3
  Max20Msgs = 7
INVARIANTS
  TypeOK
  NoBacklog
  GetsItsAttributes
PROPERTY RunsEnd
CHECK_DEADLOCK FALSE
