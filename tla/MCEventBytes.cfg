SPECIFICATION Spec
CONSTANTS
  Ids = {"a", "b"}
  Writers = {w1}
  CrashBound = 2
  LineBound = 4
INVARIANTS
  TypeOK
  ReadersSeeOldOrNew
  DamageIsOneLinePerKill
CHECK_DEADLOCK FALSE
