SPECIFICATION Spec
CONSTANTS
    None = None
    Procs = {p1, p2}
    Conns = {c1, c2}
    Channels = {a}
    Timers = {t}
    Retries = None
    Moves = {"connect", "wait"}
    Habits = {}
    Faults = {"drop"}
    MaxDepth = 1
    MaxSoon = 0
    MaxPosts = 0
    MaxNotifs = 0
    MaxReplies = 1
    MaxRemovals = 2
INVARIANT FinishedMeansOver
