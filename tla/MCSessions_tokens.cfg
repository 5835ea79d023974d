SPECIFICATION Spec
CONSTANTS
  None = None
  Users = {u1}
  Emails = {e1}
  Names = {n1}
  Bios = {}
  Passwords = {p1}
  Requests = {r1, r2}
  Ops = {"register", "login", "logout", "refresh", "password"}
  Lifetime = 3
  MaxDelay = 1
  LastSecond = 3
  Faults = TRUE
SYMMETRY Sym
INVARIANTS
  LiveTokensIndexed
PROPERTIES
  IssuedTokenLives
\* The clock stops at LastSecond, and a registration may wait for an
\* identifier that the instance does not have.
CHECK_DEADLOCK FALSE
