SPECIFICATION FairSpec
CONSTANTS
  u1 = u1
  u2 = u2
  u3 = u3
  c1 = c1
  c2 = c2
  None = None
  Users = {u1, u2}
  Convs = {c1}
  Msgs = {m1}
  Attachments = {a1}
  Texts = {t1}
  Requests = {r1, r2}
  Participants <- OnePair
  Ops = {"send", "edit", "delete", "read", "upload", "download"}
  Faults = FALSE
INVARIANTS
  EventsFollowCommits
  OneWinner
PROPERTIES
  TombstoneFinal
  NoLostUpdate
  DeletedObjectRemoved
