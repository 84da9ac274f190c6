\* Every condition of a small cluster, its nodes and edges in every order.
SPECIFICATION Spec
CONSTANTS
  Snapshots <- MCSnapshots
  Targets <- MCTargets
  Matrix <- MCMatrix
  Overrides <- MCOverrides
INVARIANTS
  RiskIsDue
  InheritedRiskIsExplained
  DependentsCoverImpact
  RecommendationHelps
\* A report is final.
CHECK_DEADLOCK FALSE
