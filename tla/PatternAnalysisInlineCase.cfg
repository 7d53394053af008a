CONSTANTS
    Width = 4
    Newline = 10
    OtherCase <- MCOtherCase
    CodeUnit <- MCCodeUnit
    MaxPrefixLen = 3
    Patterns <- InlineCase
SPECIFICATION AnalysisSpec
INVARIANTS TableBeginsEveryMatch
CHECK_DEADLOCK FALSE
