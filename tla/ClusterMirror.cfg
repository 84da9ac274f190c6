\* Edits, a refresh, a crash and a fault between any two calls; the clock may
\* stop anywhere.
SPECIFICATION FairSpec
CONSTANTS
  Specs <- LocalAndRemote
  Clusters = {1, 2}
  DefaultMirrorInterval = 1
  MaxEdits = 2
  MaxRefreshes = 1
  MaxChanges = 1
  MaxCrashes = 1
  MaxFaults = 1
  MaxClock = 1
INVARIANTS
  NeverForgotten
  FailureIsShown
PROPERTIES
  EditIsTried
  KeepsRebuilding
\* The bounded actors run out of steps.
CHECK_DEADLOCK FALSE
