CONSTANTS
    Width = 4
    Newline = 3
    Contents <- LongContents
    Literals <- MCLiterals
    Tables <- LongTables
    BlockSizes = {1, 16}
    LeastBlock = 4
    MostBlock = 8
    Padding = 4
    MaxRead = 8
    MaxFiles = 2
    Stale = {3}
SPECIFICATION BufferSpec
INVARIANT FirstCandidateIsFirst
CHECK_DEADLOCK FALSE
