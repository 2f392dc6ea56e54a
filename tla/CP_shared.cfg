SPECIFICATION Spec
CONSTANTS
    None = None
    Procs = {p1, p2}
    Conns = {c1, c2}
    Channels = {a}
    Timers = {t}
    Retries = 1
    Moves = {"connect", "disconnect", "nested"}
    Habits = {"catch", "raise"}
    Faults = {"drop"}
    MaxDepth = 2
    MaxSoon = 1
    MaxPosts = 0
    MaxNotifs = 0
    MaxReplies = 1
    MaxRemovals = 2
SYMMETRY Interchangeable
INVARIANTS
    ClientIsLive
    CountedAreAlive
PROPERTY CountIsKept
CHECK_DEADLOCK FALSE
