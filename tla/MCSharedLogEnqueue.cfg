SPECIFICATION Spec
CONSTANTS
  Workers = {w1}
  Cancellers = {}
  Enqueuers = {e1}
  RunBound = 3
PROPERTIES
  OnlyWorkersReconcile
CHECK_DEADLOCK FALSE
