CONSTANTS
  Newline = "newline"
  Continuation = "continuation"
  Letter = "letter"
  MaxSize = 3
  MaxLength = 2
  Bytes <- SmallBytes
  Files <- SmallFiles
  Engines = {"PCRE2", "PCRE"}
  Patterns <- AllPatterns
SPECIFICATION Spec
INVARIANTS
  TypeOK
  ReportSound
  ReportComplete
PROPERTIES
  Termination
\* A scan ends.
CHECK_DEADLOCK FALSE
