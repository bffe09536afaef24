SPECIFICATION Spec
CONSTANTS
  Content <- Contents
  Disks <- AllDisks
  Fails <- EachRead
  Read <- InputRead
  Seek <- InputSeek
INVARIANTS
  Tidy
  BytesAreTheMembers
  AsWanted
  FailsForCause
CHECK_DEADLOCK FALSE
