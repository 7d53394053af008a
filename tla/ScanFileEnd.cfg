CONSTANTS
  Newline = "newline"
  Continuation = "continuation"
  Letter = "letter"
  MaxSize = 3
  MaxLength = 2
  Bytes <- SmallBytes
  Files <- SmallFiles
  Engines = {"PCRE2"}
  Patterns <- RegexPatterns
SPECIFICATION Spec
INVARIANTS
  AttemptsInsideFile
\* A scan ends.
CHECK_DEADLOCK FALSE
