SPECIFICATION Spec
CONSTANTS
  Files = {f1, f2}
  Stem <- OneStem
  Editors = {e1, e2}
  Pids = {p1, p2}
  MaxFile = 2
  EditBound = 4
  MishapBound = 2
INVARIANTS
  TypeOK
  FilesAreWhole
  RefusedOnlyAfterMishap
PROPERTIES
  ExactUnlessRaced
CHECK_DEADLOCK FALSE
