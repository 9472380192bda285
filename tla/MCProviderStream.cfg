SPECIFICATION FairSpec
CONSTANTS
  MaxOutput = 2
  DeltaSizes = {1, 2}
  PipeCapacity = 2
  WriteBound = 3
INVARIANTS
  TypeOK
  OkIsWholeStream
  AbortLeavesNobody
PROPERTIES
  NoStraySignal
  EndsWhenTold
CHECK_DEADLOCK FALSE
