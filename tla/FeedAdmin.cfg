SPECIFICATION Spec
CONSTANTS
  None = None
  Feeds = {f1, f2}
  Users = {"ann", "ben"}
  Secrets = {k1, k2, k3}
  Urls = {"a", "b"}
  Passwords = {"p1", "p2"}
  Texts = {"t1", "t2"}
  Forms <- FourForms
  Requests = {r1, r2}
  MaxBegun = 6
SYMMETRY Tokens
CHECK_DEADLOCK FALSE
INVARIANTS
  DeadSecretsStayDead
  ServesAreCounted
PROPERTIES
  SecretsAreKept
