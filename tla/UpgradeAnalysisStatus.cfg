\* Edits, a refresh, a changing cluster, a crash and a fault between any two calls.
SPECIFICATION Spec
CONSTANTS
  Specs <- RemoteAndRemedied
  Worlds <- CalmToShrunk
  Interval = 1
  MaxEdits = 2
  MaxRefreshes = 0
  MaxChanges = 1
  MaxReorders = 1
  MaxCrashes = 1
  MaxFaults = 1
  MaxClock = 1
INVARIANTS
  VerdictOfObservedSpec
  RestartsCountedOnce
  CallsBounded
PROPERTIES
  ReportBacksStatus
\* The bounded actors run out of steps.
CHECK_DEADLOCK FALSE
