CONSTANTS
    cwd = cwd
    top = "."
    start = start
    sub = sub
    near = near
    deep = deep
    w1 = w1
    w2 = w2
    s1 = s1
    s2 = s2
    Nobody = Nobody
    Main = Main
    Files <- MCFiles
    Root = cwd
    AtDir <- MCAtDir
    Kind <- MCKind
    StartPaths <- MCStartPaths
    AbsolutePaths = {start}
    UnknownTypes = {sub, near}
    MayNotStat = {start, sub, near, deep}
    StatData <- MCStatData
    MayNotOpen = {sub, near}
    MaxFaults = 1
    Walkers = {w1, w2}
    Scanners = {s1, s2}
SPECIFICATION Spec
INVARIANTS TypeOK NoDataRace DescriptorsAreBounded ScannersSeeTheFile
PROPERTY EveryFileIsAnswered
CHECK_DEADLOCK FALSE
