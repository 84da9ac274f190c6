\* Snapshots at the thresholds and beyond the budgets, both profiles, the AI
\* absent, damning, praising and in between.
SPECIFICATION Spec
CONSTANTS
  Snapshots <- MCSnapshots
  AIScores <- MCAIScores
INVARIANTS
  StoppedForAReason
  WorseIsNoBetter
PROPERTIES
  AIIsNoGate
\* A verdict is final.
CHECK_DEADLOCK FALSE
