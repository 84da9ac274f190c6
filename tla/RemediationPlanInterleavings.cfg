\* Two managers, an operator that proposes twice, a user who edits three
\* times; no crash and no lost call.
SPECIFICATION Spec
CONSTANTS
  Managers = {m1, m2}
  MaxAnswer = 3
  Targets <- ClusterObjects
  AIAnswers <- BriefSingleAndOdd
  MaxRiskLevel = "medium"
  AutoApproveSettings <- Manual
  MaxProposals = 2
  MaxEdits = 3
  MaxCrashes = 0
  MaxFaults = 0
SYMMETRY ManagerSymmetry
INVARIANTS
  AtMostOneExecution
  OnlyApprovedActions
PROPERTIES
  KeepsPromise
\* The bounded actors run out of steps.
CHECK_DEADLOCK FALSE
