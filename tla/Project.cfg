SPECIFICATION FairOneCallSpec
CONSTANTS
    None = None
    Unborn = Unborn
    Gone = Gone
    s1 = s1
    s2 = s2
    broken = broken
    Projects = {p1, p2}
    Settings <- MCSettings
    Compiling <- MCCompiling
    Fresh = s1
    Callers = {c1, c2}
    DiskFaults = TRUE
INVARIANT AtRestAsStored
PROPERTIES
    NoUpdateIsLost
    WatchersSeeEveryChange
    DeletedStaysDeleted
    CallsReturn
