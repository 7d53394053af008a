CONSTANTS
  w1 = w1
  w2 = w2
  InitialLevel = 500
  Workers <- TwoWorkers
  Master = "main"
  Missing = "nosuchfile"
  NodeType <- CrossType
  NodeDev <- CrossDev
  NodeIno <- CrossIno
  Entries <- CrossEntries
  StartNodes <- CrossStart
  Unopenable <- NoNodes
  Flaky <- NoNodes
  IncludedFile <- AnyFile
  ExcludedDir <- AnyDir
  Recurse = TRUE
  Follow = TRUE
SPECIFICATION Spec
INVARIANTS
  CrossLinkedTest
PROPERTIES
  ImplementsTraversal
  Termination
