\* Two managers that crash, restart and lose calls.
SPECIFICATION FairSpec
CONSTANTS
  Managers = {m1, m2}
  MaxAnswer = 3
  Targets <- ClusterObjects
  AIAnswers <- SteadyOnly
  MaxRiskLevel = "medium"
  AutoApproveSettings <- Either
  MaxProposals = 1
  MaxEdits = 1
  MaxCrashes = 1
  MaxFaults = 1
INVARIANTS
  IInv
  ActionsPerformedOnce
  ResultsTruthful
PROPERTIES
  ApprovedIsPickedUp
  RunningConcludes
\* The bounded actors run out of steps.
CHECK_DEADLOCK FALSE
