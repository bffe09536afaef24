SPECIFICATION FairSpec
CONSTANTS
  Source <- Five
  RingSize = 3
  NetChunk = 2
  Chunk = 2
  Calls <- AllCalls
  Faults <- NoticedFaults
INVARIANTS
  InStep
  InTransit
  CompleteOrAbsent
  MoveIsSafe
PROPERTIES
  EndsOrStuck
CHECK_DEADLOCK FALSE
