SPECIFICATION FairSpec
CONSTANTS
  N = 3
  ReadsFail = TRUE
INVARIANTS CallsInProgress ReadsTheData VerdictIsTheArchives
PROPERTIES SettledForGood CallsReturn
