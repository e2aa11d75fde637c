SPECIFICATION FairSpec
CONSTANTS
    k1 = k1
    k2 = k2
    l1 = l1
    Nil = Nil
    Conns = {k1, k2}
    Listeners = {l1}
    Ways <- LocalAndConsole
INVARIANTS
    TableExact
PROPERTIES
    LateDialReleased
    HostEndReachesTool
CHECK_DEADLOCK FALSE
