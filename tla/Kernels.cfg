\* The searches on the buffer, the analysis of the pattern, the table of extensions.
CONSTANTS
    Width = 4
    Newline = 3
    Contents <- MCContents
    Literals <- MCLiterals
    Tables <- MCTables
    BlockSizes = {1, 6, 16}
    LeastBlock = 4
    MostBlock = 8
    Padding = 4
    MaxRead = 8
    MaxFiles = 2
    Stale = {3}
    OtherCase <- MCOtherCase
    CodeUnit <- MCCodeUnit
    MaxPrefixLen = 3
    Patterns <- MCPatterns
    MaxSize = 3
    Base = 3
    Extensions <- MCExtensions
    MaxExtensions = 3
SPECIFICATION Spec
INVARIANTS
    TypeOK
    BufferHoldsFile
    LiteralSearchIsExact
    FirstCandidateIsFirst
    LinesAreCounted
    LiteralIsAllThatMatches
    PrefixBeginsEveryMatch
    TableBeginsEveryMatch
    LookupIsExact
CHECK_DEADLOCK FALSE
