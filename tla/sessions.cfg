SPECIFICATION MCSpec
CONSTANTS
  Browsers = {b1, b2}
  People = {p1, p2}
  Default = default
  Passwords = {w1, w2}
  DefaultPassword = initial
  Unusable = unusable
  Codes = {c1}
  NoOne = NoOne
  MaxNonce = 3
  MaxClock = 1
  MaxClicks = 2
SYMMETRY MCSymmetry
CHECK_DEADLOCK FALSE
INVARIANTS TypeOK KeepsSignedIn SetupFirst DefaultRetired DefaultGetsIn FirstReadIsOwn
