SPECIFICATION DaemonSpec
CONSTANTS
  Jobs = {1, 2}
  CardIds = {1, 2}
  Addresses = {"name", "friends", "trip", "style", "tone"}
  SectionOf <- MCSectionOf
  MultiValued = {"friends"}
  CoreSlots = {"name"}
  Values = {"v1", "v2"}
  Proposals <- MCProposals
  SectionLimit <- MCLimit
  MaxAttempts = 2
  MaxTime = 1
  MaxStarts = 2
  MaxChanges = 3
  MaxRuns = 2
  MaxCalls = 3
  HotCalls = 1
  EarlierRuns = 1
  Messages = {m1, m2, m3}
  MaxReceipts = 1
  MaxAccepted = 4
  MaxDaemons = 3
  MaxIterations = 5
  MaxFailures = 3
INVARIANTS
  DaemonTypeOK
  OneCardPerSlot NoJobIsOverlooked SnapshotFollowsJobs
  PreparingHasItsJob OneSummaryAtATime
  OneRunPerMessage ActiveRunIsHeld
  CompletedIsProven BindingIsTriedOnce MaintenanceIsBounded
PROPERTIES
  ProtectedFactsStay SourceIsTriedOnce FocusKeepsItsCoverage DetoursReturn
CHECK_DEADLOCK FALSE
