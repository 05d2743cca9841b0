SPECIFICATION Spec
CONSTANTS
    Projects = {p, q}
    Entries = {x}
    Callers = {c, d}
    None = None
SYMMETRY Interchangeable
INVARIANTS
    NothingHalfWay
    NoFileIsMislaid
PROPERTY ReadersSeeWhole
CHECK_DEADLOCK FALSE
