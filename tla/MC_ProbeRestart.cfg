SPECIFICATION RestartFairSpec
CONSTANTS
    h1 = h1
    auto = auto
    Hooks = {h1}
    Timer = auto
    MaxRelease = 3
    Unlabelled = {2}
    CrashMin = 2
    UpdateMin = 3
    SoftMin = 3
    SendBuffer = 1
    MaxAsks = 1
INVARIANTS
    ExecutableWhole
PROPERTIES
    ProbeComesBack
    RestartHappens
CHECK_DEADLOCK FALSE
