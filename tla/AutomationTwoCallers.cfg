SPECIFICATION Spec
CONSTANTS
    p = p
    Projects = {p}
    Jobs = {j}
    Home <- Home1
    Templates = {t}
    N = 2
    Workers = {w1}
    Every = 1
    Runs = {r1, r2}
    Callers = {c, d}
    DiskFaults = TRUE
    None = None
    Unborn = Unborn
    Gone = Gone
SYMMETRY Interchangeable
INVARIANT RunsAreOrderly
CHECK_DEADLOCK FALSE
