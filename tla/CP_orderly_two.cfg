SPECIFICATION Spec
CONSTANTS
    None = None
    Procs = {p1, p2}
    Conns = {c1, c2}
    Channels = {a}
    Timers = {t}
    Retries = 1
    Moves = {"connect", "disconnect", "hello", "wait", "expect_notification"}
    Habits = {}
    Faults = {"handshake"}
    MaxDepth = 1
    MaxSoon = 0
    MaxPosts = 0
    MaxNotifs = 1
    MaxReplies = 1
    MaxRemovals = 2
INVARIANTS
    OneConnection
    WaitersHaveConnections
PROPERTY ConversationIsKept
