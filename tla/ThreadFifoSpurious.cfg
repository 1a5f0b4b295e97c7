SPECIFICATION Spec
CONSTANTS
  kNumThread = 3
  CreateFails = FALSE
INVARIANT IndexCorrect
CHECK_DEADLOCK FALSE
