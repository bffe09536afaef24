SPECIFICATION Spec
CONSTANTS
  Path <- Paths
  Parent <- Parents
  Above <- Dirs
  Outer <- NewParents
  Below <- LookedFor
  Rank <- Ranks
  Installed <- AllInstalled
  Program <- ProgramFiles
  Lists <- AllLists
  MaxKills = 1
  MaxFaults = 1
  MaxCommands = 2
INVARIANTS
  NothingIsLeft
  ProgramGoesLast
PROPERTIES
  UsersFilesStay
  ListsAgree
CHECK_DEADLOCK FALSE
