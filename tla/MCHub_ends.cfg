SPECIFICATION FairSpec
CONSTANTS
  u1 = u1
  None = None
  Users = {u1}
  Clients = {c1, c2}
  Owner <- OneUser
  Senders = {s1}
  Cap = 1
  Faults = FALSE
PROPERTIES
  GoroutinesEnd
  SendersGoOn
  AwayStaysOffline
  PresenceHeals
\* Every connection of the instance may have ended.
CHECK_DEADLOCK FALSE
