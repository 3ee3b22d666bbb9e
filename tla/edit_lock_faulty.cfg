CONSTANTS
    Supervisor = {s1, s2}
    Saver = {}
    NoOwner = NoOwner
    LockTTL = 2
    HeartbeatPeriod = 1
    Latency = 0
    Faults = {"overlap", "delay", "loss"}
SPECIFICATION FairSpec
PROPERTY Recovers
