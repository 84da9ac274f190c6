------------------------- MODULE MCRemediationPlan -------------------------
(* Instances of RemediationPlan for TLC.                                   *)
EXTENDS RemediationPlanProofs, TLC

Entry(type, target, risk) == [type |-> type, target |-> target, risk |-> risk]

ClusterObjects == {"web-0", "web", "db-0", "db-1", "node-1"}

\* Answers within maxRiskLevel "medium" but for an action "high"; Odd has one
\* of an unknown risk.
Steady == <<Entry("delete-pod", "web-0", "low"),
            Entry("cordon-node", "node-1", "high"),
            Entry("scale-deployment", "web", "medium")>>
Odd == <<Entry("restart-pod", "db-0", "medium"),
         Entry("restart-pod", "db-1", "other")>>
Brief == <<Entry("cordon-node", "node-1", "high"),
           Entry("delete-pod", "web-0", "low")>>
Single == <<Entry("restart-pod", "db-0", "low")>>

SteadyOnly == {Steady}
SingleOnly == {Single}
SteadyAndSingle == {Steady, Single}
BriefSingleAndOdd == {Brief, Single, Odd}

Either == BOOLEAN
Manual == {FALSE}

ManagerSymmetry == Permutations(Managers)
=============================================================================
