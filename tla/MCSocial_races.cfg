SPECIFICATION FairSpec
CONSTANTS
  None = None
  Users = {u1, u2}
  Requests = {r1, r2}
  Ops = {"add", "accept", "cancel", "decline", "unfriend", "block", "unblock", "open", "remove"}
  Faults = TRUE
INVARIANTS
  TypeOK
  Consent
  BlockRefuses
  NobodyLeft
PROPERTIES
  BlockTakesFriendship
  Answered
