SPECIFICATION Spec
CONSTANTS
    Projects = {p, q}
    Cap <- MCCap
    N = 2
    Every = 1
    Page = 1
    Callers = {c}
    Faults = TRUE
    None = None
SYMMETRY Interchangeable
INVARIANTS
    
    OnlyStragglersReturn
    NoAnswerIsLost
PROPERTY SavedIsSpared
CHECK_DEADLOCK FALSE
