SPECIFICATION Spec
CONSTANTS
  Variants = {"epoll"}
  MaxRises = 3
INVARIANT PushIsEdge
CHECK_DEADLOCK FALSE
