SPECIFICATION Spec
CONSTANTS
    Filters <- MCFilters
    FilterKind <- MCFilterKind
    FilterSize <- MCFilterSize
    BuiltinTypes <- MCBuiltinTypes
    Names <- MCNames
    NameFilter <- MCNameFilter
    NameLiteral <- MCNameLiteral
    GlobMatches <- MCGlobMatches
    NoFilter = "none"
    BuiltinDirExcludes <- MCBuiltinDirExcludes
    Inputs <- FewInputs
    PositiveNumbers <- MCPositiveNumbers
    UpperPatterns <- MCUpperPatterns
INVARIANT LaterJobsOverride
CHECK_DEADLOCK FALSE
