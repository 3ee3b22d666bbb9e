CONSTANTS
    Client = {c1}
    Patient = TRUE
    Loco = {l1, l2}
    Sup = {s1, s2}
    Staff = {e1}
    NoStaff = NoStaff
    Absentee = {e1}
    Slot = {r1, r2}
    Nothing = Nothing
SPECIFICATION Spec
SYMMETRY MCSymmetry
INVARIANT TypeOK
INVARIANT Orderly
PROPERTY SavedAsShown
