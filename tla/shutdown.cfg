SPECIFICATION FairSpec
CONSTANTS
  CrashSignals = {SEGV, ABRT}
  TermSignals = {INT, TERM}
INVARIANTS TypeOK RevertedOnce HonestExit OneFaultIsReverted NothingDeadIsUsed
PROPERTIES WindsUp
CHECK_DEADLOCK FALSE
