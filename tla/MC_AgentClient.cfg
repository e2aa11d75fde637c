SPECIFICATION FairSpec
CONSTANTS
    m1 = m1
    m2 = m2
    m3 = m3
    w1 = w1
    w2 = w2
    Nil = Nil
    Reports = {m1, m2, m3}
    Workers = {w1, w2}
    QueueSize = 2
    MaxConns = 3
INVARIANTS
    Conserved
    NoneStranded
PROPERTIES
    QueueDrains
CHECK_DEADLOCK FALSE
