SPECIFICATION Spec
CONSTANTS
  Content <- Contents
  Disks <- CatenatedDisks
  Fails <- NoFail
  Read <- InputRead
  Seek <- InputSeek
INVARIANTS
  FailsForCause
CHECK_DEADLOCK FALSE
