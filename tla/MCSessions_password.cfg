SPECIFICATION Spec
CONSTANTS
  None = None
  Users = {u1}
  Emails = {e1}
  Names = {n1}
  Bios = {}
  Passwords = {p1, p2}
  Requests = {r1, r2}
  Ops = {"register", "login", "password"}
  Lifetime = 1
  MaxDelay = 1
  LastSecond = 1
  Faults = FALSE
PROPERTY RevocationLeavesNone
