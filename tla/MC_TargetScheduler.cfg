SPECIFICATION ProbeSpec
CONSTANTS
    t1 = t1
    Nil = Nil
    Nowhere = Nowhere
    Targets = {t1}
    MaxSyncs = 3
    ShiftQueue = 1
    WindowSize = 2
    Times = {20, 60, 100, 220}
    Warmup = 2
    MaxHistory = 3
    Streak = 2
    MaxFeeds = 6
    MaxHops = 2
    ProbesPerHop = 2
INVARIANTS
    ShiftGenuine
    ShiftFound
    TraceSound
PROPERTIES
    TracingFollowsList
    LossHeals
    StaleWorkersEnd
CHECK_DEADLOCK FALSE
