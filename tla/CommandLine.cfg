SPECIFICATION Spec
CONSTANTS
    Filters <- MCFilters
    FilterKind <- MCFilterKind
    FilterSize <- MCFilterSize
    BuiltinTypes <- MCBuiltinTypes
    Names <- MCNames
    NameFilter <- MCNameFilter
    NameLiteral <- MCNameLiteral
    GlobMatches <- MCGlobMatches
    NoFilter = "none"
    BuiltinDirExcludes <- MCBuiltinDirExcludes
    Inputs <- MCInputs
    PositiveNumbers <- MCPositiveNumbers
    UpperPatterns <- MCUpperPatterns
INVARIANTS
    TypeOK
    ArgsInReadOrder
    CommandLineOverridesFiles
    LastTypeOptionDecides
    OnlySelectedTypes
    ExcludedNamesStayOut
    LastDirOptionDecides
CHECK_DEADLOCK FALSE
