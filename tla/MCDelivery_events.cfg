SPECIFICATION FairSpec
CONSTANTS
  None = None
  u1 = u1
  Users = {u1, u2}
  Clients = {c1, c2}
  Owner <- OneUser
  Requests = {r1, r2}
  Cap = 1
INVARIANTS
  TypeOK
  InOrder
  BlockedUntold
PROPERTIES
  Delivered
\* Every connection of the instance may have ended.
CHECK_DEADLOCK FALSE
