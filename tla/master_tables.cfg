SPECIFICATION MCSpec
CONSTANTS
    Wizard = {w}
    Yard = {y}
    Personnel = {p}
    Id = {1, 2}
    Stage = {0, 5, 9}
    PerPage = 1
    MaxLoads = 2
    MaxClicks = 3
    Codes = {TRUE, FALSE}
    None = None
INVARIANTS
    TypeOK
    AdminRemains
    DespatchFits
    OwnTableWhenCalm
CHECK_DEADLOCK FALSE
