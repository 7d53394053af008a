CONSTANTS
  w1 = w1
  w2 = w2
  InitialLevel = 500
  Workers <- TwoWorkers
  Master = "main"
  Missing = "nosuchfile"
  NodeType <- PlainType
  NodeDev <- PlainDev
  NodeIno <- PlainIno
  Entries <- PlainEntries
  StartNodes <- PlainStart
  Unopenable <- LockedNodes
  Flaky <- BadNodes
  IncludedFile <- AnyFile
  ExcludedDir <- AnyDir
  Recurse = TRUE
  Follow = FALSE
SPECIFICATION Spec
INVARIANTS
  NothingLeftAtClose
  MasterNotStranded
  NoIdleQueue
PROPERTIES
  ImplementsTraversal
