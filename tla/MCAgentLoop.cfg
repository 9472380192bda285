SPECIFICATION DemoSpec
CONSTANTS
  Files = {f1, f2}
  Versions = {0, 1}
  MaxSteps = 5
  Commands = 2
  RequireEdit = TRUE
  RetryLimit = 2
  AttemptBound = 3
INVARIANTS
  TypeOK
  SuccessIsVerified
  SuccessWasSeenPassing
  KilledNeverSucceeds
  StoryIsTrue
PROPERTIES
  Settles
CHECK_DEADLOCK FALSE
