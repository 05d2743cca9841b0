SPECIFICATION TrafficSpec
CONSTANTS
    x1 = x1
    x2 = x2
    x3 = x3
    p = p
    q = q
    h1 = h1
    h2 = h2
    h3 = h3
    a1 = a1
    a2 = a2
    t1 = t1
    bad = bad
    Upstream = Upstream
    None = None
SYMMETRY Interchangeable
INVARIANTS
    LogIsWhatWasSent
    RulesAreMeant
    MessagesAreWhole
    
    WayIsMeant
    LeavesAreSound
    ConnectionsAreLogged
    
PROPERTY ValuesStayHome
CHECK_DEADLOCK FALSE
