\* Every change is analysed or refused, the interval is kept, and then there is rest.
SPECIFICATION FairSpec
CONSTANTS
  Specs <- PlainAndFurther
  Worlds <- CalmToUpgraded
  Interval = 1
  MaxEdits = 1
  MaxRefreshes = 1
  MaxChanges = 1
  MaxReorders = 0
  MaxCrashes = 1
  MaxFaults = 1
  MaxClock = 1
INVARIANTS
  NothingIsForgotten
PROPERTIES
  ChangesAreAnalysed
  ReportCatchesUp
  ResyncHappens
  SettlesDown
\* The bounded actors run out of steps.
CHECK_DEADLOCK FALSE
