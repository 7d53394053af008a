CONSTANTS
    Width = 4
    Newline = 10
    OtherCase <- MCOtherCase
    CodeUnit <- MCCodeUnit
    MaxPrefixLen = 3
    Patterns <- QuoteEnds
SPECIFICATION AnalysisSpec
INVARIANTS LiteralOptionTakesEveryCharacter
CHECK_DEADLOCK FALSE
