SPECIFICATION Spec
CONSTANTS
  None = None
  Emails = {"e1"}
  Subjects = {}
  Passwords = {"p1", "p2"}
  Tokens = {t1, t2, t3, t4}
  Requests = {r1, r2}
  Configs <- OnlyBoth
  SessionTtl = 1
  ResetTtl = 1
  MaxClock = 2
  MaxBegun = 3
SYMMETRY Fungible
CHECK_DEADLOCK FALSE
INVARIANTS
  FirstRegisteredIsAdmin
