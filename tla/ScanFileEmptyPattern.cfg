CONSTANTS
  Newline = "newline"
  Continuation = "continuation"
  Letter = "letter"
  MaxSize = 2
  MaxLength = 2
  Bytes <- SmallBytes
  Files <- SmallFiles
  Engines = {"PCRE2"}
  Patterns <- EmptyPattern
SPECIFICATION Spec
INVARIANTS
  RetryFindsNonEmpty
\* A scan ends.
CHECK_DEADLOCK FALSE
