SPECIFICATION Spec
CONSTANTS
    None = None
    Procs = {p1}
    Conns = {c1}
    Channels = {a}
    Timers = {t}
    Retries = 1
    Moves = {"connect", "wait"}
    Habits = {}
    Faults = {"garbage"}
    MaxDepth = 1
    MaxSoon = 0
    MaxPosts = 0
    MaxNotifs = 0
    MaxReplies = 1
    MaxRemovals = 1
INVARIANT UnexpectedIsOnlyThrown
