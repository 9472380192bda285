SPECIFICATION FairSpec
CONSTANTS
  MaxOutput = 2
  PipeCapacity = 2
  WriteBound = 4
  PromptReaders = TRUE
INVARIANTS
  TypeOK
  KillLeavesNobody
  OutputIsWholeOrMarked
PROPERTIES
  CallSpec
  NeverStuckOnOutput
CHECK_DEADLOCK FALSE
