CONSTANTS
    Supervisor = {s1, s2}
    Saver = {s1, s2}
    NoOwner = NoOwner
    LockTTL = 4
    HeartbeatPeriod = 2
    Latency = 1
    Faults = {}
SPECIFICATION LockSpec
INVARIANT LockTypeOK
INVARIANT GrantHolds
INVARIANT CalmInv
PROPERTY SavesHoldLock
PROPERTY ImplementsEditWindow
