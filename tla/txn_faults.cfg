SPECIFICATION FairSpec
CONSTANTS
  Path <- Paths
  Root <- MCRoot
  Parent <- Parents
  Above <- Ancestors
  Rank <- Ranks
  Dest = "g"
  MetaDir = ".m"
  ScratchDir = ".m/tmp"
  RollbackDir = ".m/tmp/rb"
  DownloadDir = ".m/tmp/dl"
  Slot <- Slots
  Downloads <- OneDownload
  MenuFiles <- OneMenu
  Scripts <- OneScript
  Manifests <- OneManifest
  Scenarios <- HardScenarios
  Faults <- AllFaults
INVARIANTS NothingLost
PROPERTIES Termination
