CONSTANTS
    LastDay = 1
    Job = {j1, j2}
    TimeOfDay = {1}
    MaxTask = 3
    MaxNew = 1
    MaxCalls = 5
SPECIFICATION MCSpec
SYMMETRY MCSymmetry
INVARIANT TypeOK
PROPERTY EditsStayInShift
PROPERTY CarryLosesNothing
PROPERTY CarriedInPlace
CHECK_DEADLOCK FALSE
