SPECIFICATION Spec
CONSTANTS
  Ids = {"a", "b"}
  Writers = {w1}
  CrashBound = 1
  LineBound = 3
INVARIANTS
  SynchronizedIsReplayed
CHECK_DEADLOCK FALSE
