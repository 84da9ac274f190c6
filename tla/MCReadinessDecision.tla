------------------------ MODULE MCReadinessDecision ------------------------
(* Instances of ReadinessDecision for TLC.                                 *)
EXTENDS ReadinessDecision

\* At, below and above each threshold: 5%, 15%, 30% and 60% of 20 pods not
\* ready, 90% of the cpu and memory, counts that went down and up.
Boundary ==
  {[pods |-> 20, notReady |-> r, restarting |-> l, restarts |-> 4,
    prevPods |-> q, prevRestarts |-> t, cpu |-> c, mem |-> m, pdb |-> b,
    deprecated |-> d, addons |-> a, lost |-> v,
    trouble |-> w] :
     r \in {0, 1, 2, 4, 7, 13}, l \in {0, 10}, q \in {19, 40}, t \in {0, 4, 9},
     c \in {20, 91}, m \in {20, 90, 91}, b \in BOOLEAN, d \in {0, 2},
     a \in {0, 1}, v \in BOOLEAN, w \in {"none", "nodes"}}
Extremes ==
  {[pods |-> n, notReady |-> n, restarting |-> n, restarts |-> t,
    prevPods |-> q, prevRestarts |-> 4, cpu |-> c, mem |-> 100, pdb |-> FALSE,
    deprecated |-> d, addons |-> a, lost |-> FALSE,
    trouble |-> "workloads"] :
     n \in {0, 6}, t \in {0, 4, 5, 90}, q \in {0, 60}, c \in {0, 100, 300},
     d \in {0, 1, 9}, a \in {0, 5}}
MCSnapshots == Boundary \cup Extremes
MCAIScores == {0, 89, 93, 100}
=============================================================================
