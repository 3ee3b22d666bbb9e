CONSTANTS
    Staff = {e1, e2}
    Supervisor = {u1, u2}
    Job = {j1}
    MaxStar = 1
    MaxLoads = 2
    None = None
    MaxClicks = 5
SPECIFICATION MCSpec
SYMMETRY MCSymmetry
INVARIANT TypeOK
INVARIANT NeverVanishes
INVARIANT OwnWhenCalm
CHECK_DEADLOCK FALSE
