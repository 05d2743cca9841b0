SPECIFICATION FairSpec
CONSTANTS
    p = p
    Projects = {p}
    Jobs = {j}
    Home <- Home1
    Templates = {t, u}
    N = 3
    Workers = {w1, w2}
    Every = 2
    Runs = {r1}
    Callers = {c}
    DiskFaults = TRUE
    None = None
    Unborn = Unborn
    Gone = Gone
INVARIANT ResultsAreSound
PROPERTIES
    GoneStaysGone
    CallsAndRunsEnd
CHECK_DEADLOCK FALSE
