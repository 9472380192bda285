SPECIFICATION DemoSpec
CONSTANTS
  Files = {f1}
  Versions = {0, 1}
  MaxSteps = 4
  Commands = 1
  RequireEdit = TRUE
  RetryLimit = 1
  AttemptBound = 1
INVARIANTS
  VerifiedAfterAnyChange
CHECK_DEADLOCK FALSE
