CONSTANTS
  s1 = s1
  s2 = s2
  Files <- MixedFiles
  Batches <- MixedBatches
  Scanners <- TwoScanners
  Unreadable <- LockedOnes
  Empty <- EmptyOnes
  Broken <- BrokenB
  Lines <- MixedLines
  Engines = {"PCRE2", "PCRE"}
  ThreadFailures = {FALSE, TRUE}
  NoFile = "nofile"
SPECIFICATION Spec
INVARIANTS
  NoThreadOutlivesMain
  NoMatchListRefused
PROPERTIES
  ImplementsSearch
