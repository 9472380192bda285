SPECIFICATION FairSpec
CONSTANTS
  Ids = {1, 2}
  Outcomes <- MCOutcomes
  RetryLimits = {2}
  AttemptBound = 2
  MishapBound = 2
INVARIANTS
  TypeOK
  MemoryIsReplay
  NoAttemptRunsTwice
  SucceededIsBacked
  CallLeavesNothingRunning
PROPERTIES
  TracedAttemptSettles
  LifecycleSpec
  InterruptedIsResolved
