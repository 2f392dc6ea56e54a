SPECIFICATION Spec
CONSTANTS
    None = None
    Procs = {p1}
    Conns = {c1}
    Channels = {a, b}
    Timers = {t}
    Retries = 1
    Moves = {"spawn", "connect", "disconnect", "register", "hello", "unregister",
             "send_notification", "expect_notification", "expect_notifications",
             "ack", "wait", "timer_start", "timer_end", "counter", "invalid"}
    Habits = {"catch", "raise"}
    Faults = {"tcp", "handshake", "drop", "garbage", "post", "content"}
    MaxDepth = 1
    MaxSoon = 0
    MaxPosts = 1
    MaxNotifs = 2
    MaxReplies = 1
    MaxRemovals = 1
SYMMETRY Interchangeable
INVARIANTS
    TypeOK
    ClientIsLive
    ExpectingIsTimed
    NothingOverlooked
CHECK_DEADLOCK FALSE
