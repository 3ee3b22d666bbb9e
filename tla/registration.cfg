CONSTANTS
    Applicant = {a1, a2}
    Admin = {u1, u2}
    Ticket = {t1, t2}
    Mail = {m1, m2}
    Code = {c1, c2}
    MaxLoads = 2
    None = None
    MaxClicks = 4
SPECIFICATION MCSpec
SYMMETRY MCSymmetry
INVARIANT TypeOK
INVARIANT ApprovedIsStaff
INVARIANT SlipIsOwn
INVARIANT VerifiedAddress
INVARIANT FilteredWhenCalm
CHECK_DEADLOCK FALSE
