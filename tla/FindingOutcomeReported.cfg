\* No crash and no lost call: only an edit by the user while the plan runs.
SPECIFICATION FairSpec
CONSTANTS
  Managers = {m1}
  MaxAnswer = 3
  Targets <- ClusterObjects
  AIAnswers <- SingleOnly
  MaxRiskLevel = "medium"
  AutoApproveSettings <- Manual
  MaxProposals = 1
  MaxEdits = 2
  MaxCrashes = 0
  MaxFaults = 0
PROPERTIES
  OutcomeReported
\* The bounded actors run out of steps.
CHECK_DEADLOCK FALSE
