SPECIFICATION FairSpec
CONSTANTS
  Workers = {w1, w2}
  Cancellers = {c1}
  Enqueuers = {e1}
  RunBound = 5
INVARIANTS
  TypeOK
  TokenIsFresh
PROPERTIES
  SeenTerminalIsFinal
  CancelReachesWorker
CHECK_DEADLOCK FALSE
