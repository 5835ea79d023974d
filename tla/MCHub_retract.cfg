SPECIFICATION Spec
CONSTANTS
  u1 = u1
  None = None
  Users = {u1}
  Clients = {c1, c2}
  Owner <- OneUser
  Senders = {}
  Cap = 1
  Faults = FALSE
INVARIANT OnlineIsNotRetracted
\* Every connection of the instance may have ended.
CHECK_DEADLOCK FALSE
