CONSTANTS
  w1 = w1
  w2 = w2
  InitialLevel = 500
  Workers <- TwoWorkers
  Master = "main"
  Missing = "nosuchfile"
  NodeType <- FaultType
  NodeDev <- FaultDev
  NodeIno <- FaultIno
  Entries <- FaultEntries
  StartNodes <- FaultStart
  Unopenable <- LockedFault
  Flaky <- NoNodes
  IncludedFile <- AnyFile
  ExcludedDir <- AnyDir
  Recurse = TRUE
  Follow = FALSE
SPECIFICATION Spec
INVARIANT ReadWarningsAreReal
