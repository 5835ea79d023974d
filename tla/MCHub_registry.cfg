SPECIFICATION Spec
CONSTANTS
  u1 = u1
  None = None
  Users = {u1}
  Clients = {c1, c2, c3}
  Owner <- OneUser
  Senders = {}
  Cap = 1
  Faults = TRUE
SYMMETRY Sym
INVARIANTS
  TypeOK
  ClosedOnce
  RegisteredIsLive
  ReplacedIsClosed
PROPERTIES
  RegistrySpec
\* Every connection of the instance may have ended.
CHECK_DEADLOCK FALSE
