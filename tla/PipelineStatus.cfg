CONSTANTS
  s1 = s1
  s2 = s2
  Files <- BarrenFiles
  Batches <- BarrenBatches
  Scanners <- TwoScanners
  Unreadable <- LockedOnes
  Empty <- None
  Broken <- BrokenHard
  Lines <- BarrenLines
  Engines = {"PCRE2"}
  ThreadFailures = {FALSE}
  NoFile = "nofile"
SPECIFICATION Spec
INVARIANT StatusOneMeansNoError
