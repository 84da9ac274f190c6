\* Two answers, each approved by the user.
SPECIFICATION FairSpec
CONSTANTS
  Managers = {m1}
  MaxAnswer = 3
  Targets <- ClusterObjects
  AIAnswers <- SteadyAndSingle
  MaxRiskLevel = "medium"
  AutoApproveSettings <- Manual
  MaxProposals = 2
  MaxEdits = 2
  MaxCrashes = 0
  MaxFaults = 0
PROPERTIES
  ApprovedSpecIsExecuted
\* The bounded actors run out of steps.
CHECK_DEADLOCK FALSE
