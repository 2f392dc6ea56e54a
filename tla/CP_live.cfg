SPECIFICATION FairSpec
CONSTANTS
    None = None
    Procs = {p1}
    Conns = {c1}
    Channels = {a}
    Timers = {t}
    Retries = None
    Moves = {"connect", "disconnect", "hello", "wait", "expect_notification",
             "send_notification", "nested"}
    Habits = {}
    Faults = {"handshake", "drop", "garbage", "post"}
    MaxDepth = 2
    MaxSoon = 1
    MaxPosts = 1
    MaxNotifs = 1
    MaxReplies = 1
    MaxRemovals = 1
PROPERTY ScenariosGoOn
