CONSTANTS
    None = None
    Loco = {l1, l2}
    Known = l1
    Job = {j1, j2}
    Job1 = j1
    Job2 = j2
    Text = {x1}
    LastTime = 4
    MaxLoads = 2
    MaxClicks = 3
SPECIFICATION MCSpec
INVARIANT TypeOK
INVARIANT StoredWhenCalm
INVARIANT WarnedWhenCalm
PROPERTY ActsOnItsCard
CHECK_DEADLOCK FALSE
