SPECIFICATION Spec
CONSTANTS
    None = None
    a = a
    b = b
    Ids = {a, b}
    Snapshots <- Changes
    Exchanges = {x1}
    Users = {u1, u2}
SYMMETRY
    Interchangeable
INVARIANTS
    HeldIsAnswerable
    OneForwardAtATime
    OnlyStraysLinger
PROPERTY
    OneVerdictEach
