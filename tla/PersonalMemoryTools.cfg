SPECIFICATION MemSpec
CONSTANTS
  Jobs = {1}
  CardIds = {1, 2}
  Addresses = {"name", "friends", "trip", "style", "tone"}
  SectionOf <- MCSectionOf
  MultiValued = {"friends"}
  CoreSlots = {"name"}
  Values = {"v1", "v2"}
  Proposals <- MCProposals
  SectionLimit <- MCLimit
  MaxAttempts = 2
  MaxTime = 0
  MaxStarts = 1
  MaxChanges = 1
INVARIANT SnapshotIsCurrent
CHECK_DEADLOCK FALSE
