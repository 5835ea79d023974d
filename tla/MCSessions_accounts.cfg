SPECIFICATION Spec
CONSTANTS
  None = None
  Users = {u1, u2}
  Emails = {e1, e2}
  Names = {n1, n2}
  Bios = {b1}
  Passwords = {p1, p2}
  Requests = {r1, r2}
  Ops = {"register", "logoutall", "profile", "email", "password", "remove"}
  Lifetime = 1
  MaxDelay = 1
  LastSecond = 0
  Faults = TRUE
SYMMETRY Sym
INVARIANTS
  TypeOK
  OneAccountPerEmail
PROPERTY CredentialsKept
\* The clock stops at LastSecond, and a registration may wait for an
\* identifier that the instance does not have.
CHECK_DEADLOCK FALSE
