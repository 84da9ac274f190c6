\* Plans that act on one target more than once, while others edit, evict and
\* recreate it, a cache lags, a reply is lost and the manager may crash.
SPECIFICATION Spec
CONSTANTS
  Objects <- MCObjects
  Plans <- MCPlans
  Gone = Gone
  MaxEdits = 3
  MaxPods = 3
  MaxFaults = 1
  MaxCrashes = 1
INVARIANTS
  ResultsMatchEffects
  OneIncarnationRuns
PROPERTIES
  KeepsOthersChanges
  EffectsKeepPromise
\* The bounded actors run out of steps.
CHECK_DEADLOCK FALSE
