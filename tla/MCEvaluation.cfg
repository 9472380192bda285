SPECIFICATION FairSpec
CONSTANTS
  FamilyCount = 2
  MaxAttempts = 2
  Files <- MCFiles
  Lib = "lib"
  Contents = {0, 1}
  Repaired <- MCRepaired
  Hanging <- MCHanging
INVARIANTS
  TypeOK
  PassIsOneAttempt
  RowIsOneAttempt
  ExitStatusIsSummary
PROPERTIES
  Ends
CHECK_DEADLOCK FALSE
