SPECIFICATION Spec
CONSTANTS
  Path <- Paths
  Root <- MCRoot
  Parent <- Parents
  Above <- Ancestors
  Rank <- Ranks
  Dest = "g"
  MetaDir = ".m"
  ScratchDir = ".m/tmp"
  RollbackDir = ".m/tmp/rb"
  DownloadDir = ".m/tmp/dl"
  Slot <- Slots
  Downloads <- OneDownload
  MenuFiles <- OneMenu
  Scripts <- OneScript
  Manifests <- OneManifest
  Scenarios <- OverUserDir
  Faults <- NoFaults
INVARIANTS RevertRestores
