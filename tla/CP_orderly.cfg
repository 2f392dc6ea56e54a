SPECIFICATION Spec
CONSTANTS
    None = None
    Procs = {p1}
    Conns = {c1, c2}
    Channels = {a}
    Timers = {t}
    Retries = 1
    Moves = {"spawn", "connect", "disconnect", "register", "hello", "unregister",
             "send_notification", "expect_notification", "expect_notifications",
             "ack", "wait", "timer_start", "timer_end", "counter", "nested"}
    Habits = {}
    Faults = {"handshake", "post"}
    MaxDepth = 2
    MaxSoon = 1
    MaxPosts = 1
    MaxNotifs = 1
    MaxReplies = 1
    MaxRemovals = 2
INVARIANTS
    OverIsFinal
    WaitingIsTimed
PROPERTY ConversationIsKept
