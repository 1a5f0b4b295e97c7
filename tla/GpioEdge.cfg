SPECIFICATION Spec
CONSTANTS
  Variants = {"epoll", "poll", "select", "usleep"}
  MaxRises = 5
INVARIANTS
  TypeOK
  CountsPushes
PROPERTY HeldPushSeen
CHECK_DEADLOCK FALSE
