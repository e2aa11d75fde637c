SPECIFICATION FairSpec
CONSTANTS
    r1 = r1
    r2 = r2
    r3 = r3
    s1 = s1
    s2 = s2
    a1 = a1
    a2 = a2
    p1 = p1
    p2 = p2
    k1 = k1
    k2 = k2
    Nil = Nil
    Requests = {r1}
    Sessions = {s1}
    Agents = {a1}
    Pumps = {p1}
    Droppers = {k1, k2}
    SessionAgent <- AgentsOfSessions
    PumpAgent <- AgentsOfPumps
    MaxTunnelsPerSession = 1
    InboundQueue = 1
INVARIANTS
    OfflineDropped
    SlowClientOnce
PROPERTIES
    RequestsEnd
CHECK_DEADLOCK FALSE
