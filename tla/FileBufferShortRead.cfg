CONSTANTS
    Width = 4
    Newline = 3
    Contents <- MCContents
    Literals <- MCLiterals
    Tables <- MCTables
    BlockSizes = {1, 6, 16}
    LeastBlock = 4
    MostBlock = 8
    Padding = 4
    MaxRead = 4
    MaxFiles = 2
    Stale = {3}
SPECIFICATION BufferSpec
INVARIANT BufferHoldsFile
CHECK_DEADLOCK FALSE
