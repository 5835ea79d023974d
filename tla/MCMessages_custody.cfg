SPECIFICATION Spec
CONSTANTS
  u1 = u1
  u2 = u2
  u3 = u3
  c1 = c1
  c2 = c2
  None = None
  Users = {u1, u2, u3}
  Convs = {c1, c2}
  Msgs = {m1, m2}
  Attachments = {a1}
  Texts = {}
  Requests = {r1, r2}
  Participants <- TwoPairs
  Ops = {"send", "delete", "upload", "download"}
  Faults = TRUE
SYMMETRY SymPairs
INVARIANTS
  TypeOK
  OneCustodian
  LiveAttachmentStored
  AuthorisedDownloadFinds
PROPERTIES
  LifeSpec
