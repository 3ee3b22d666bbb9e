CONSTANTS
    Container = {c1, c2}
    Chatter = {a1, a2}
    Viewer = {v1}
    Socket = {s1, s2, s3}
    MaxHistory = 2
    MaxSay = 2
    MaxNotices = 2
    MaxClicks = 4
    None = None
SPECIFICATION MCSpec
SYMMETRY MCSymmetry
CHECK_DEADLOCK FALSE
INVARIANT AddresseeIsTold
