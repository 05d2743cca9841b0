SPECIFICATION Spec
CONSTANTS
    s1 = s1
    s2 = s2
    s3 = s3
    n1 = n1
    n2 = n2
    u1 = u1
    u2 = u2
    p = p
    q = q
    r1 = r1
    server = server
    missing = missing
    Damaged = Damaged
    None = None
SYMMETRY Interchangeable
INVARIANTS
    UpstreamsAreCurrent
    SentRequestsAreKept
    SchemasAreCurrent
    EventsArrive
    ImportsAreWhole
    NothingIsLeftOut
    LogIsReadWhole
    
PROPERTY UpdateIsAtomic
CHECK_DEADLOCK FALSE
