\* Two clients and a stranger, with the three turns of the programs and one
\* datagram of each client that may arrive twice.  CHECK_DEADLOCK FALSE: all
\* may be done, or wait for a datagram that was lost.
CONSTANTS
  Clients = {c1, c2}
  Strangers = {s1}
  Turns = 3
  MaxDoubled = 1
SPECIFICATION Spec
INVARIANTS TypeOK AnswerOwed InStep
PROPERTY ClientEnds
CHECK_DEADLOCK FALSE
