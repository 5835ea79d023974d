SPECIFICATION FairSpec
CONSTANTS
  None = None
  Lists = {"messages", "search", "friends"}
  Readers = {r1}
  MaxId = 6
  Limits <- AskedLimits
  Default = 2
  MaxLimit = 2
  Faults = TRUE
INVARIANTS
  TypeOK
  NothingTwice
  Complete
  MoreIsThere
PROPERTIES
  ReachesEnd
