SPECIFICATION Spec
CONSTANTS
  Workers = {w1}
  Cancellers = {c1}
  Enqueuers = {}
  RunBound = 3
PROPERTIES
  TerminalIsFinal
CHECK_DEADLOCK FALSE
