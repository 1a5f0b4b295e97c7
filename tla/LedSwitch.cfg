CONSTANT Faults = {}
SPECIFICATION Spec
INVARIANTS
  TypeOK
  StaleOnce
PROPERTIES
  TogglesPerPress
  LedFollows
