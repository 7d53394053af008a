CONSTANTS
    Width = 4
    Newline = 10
    OtherCase <- MCOtherCase
    CodeUnit <- MCCodeUnit
    MaxPrefixLen = 3
    Patterns <- QuoteEnds
SPECIFICATION AnalysisSpec
INVARIANTS PrefixBeginsEveryMatch
CHECK_DEADLOCK FALSE
