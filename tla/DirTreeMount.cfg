CONSTANTS
  w1 = w1
  w2 = w2
  InitialLevel = 500
  Workers <- TwoWorkers
  Master = "main"
  Missing = "nosuchfile"
  NodeType <- MountType
  NodeDev <- MountDev
  NodeIno <- MountIno
  Entries <- MountEntries
  StartNodes <- MountStart
  Unopenable <- NoNodes
  Flaky <- NoNodes
  IncludedFile <- AnyFile
  ExcludedDir <- AnyDir
  Recurse = TRUE
  Follow = TRUE
SPECIFICATION Spec
INVARIANT LoopWarningsAreReal
