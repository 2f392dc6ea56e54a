SPECIFICATION HarnessFairSpec
CONSTANTS
    None = None
    Procs = {p1, p2}
    Conns = {c1, c2, c3}
    Faults = {"tcp", "handshake", "drop"}
INVARIANTS
    HarnessTypeOK
    RegistryExact
    EventsReachTheOwner
    ConnectionsAreWaitedFor
PROPERTY WaitersAreServed
