------------------------ MODULE RemediationPlanProofs ------------------------
(***************************************************************************)
(* The safety properties of RemediationPlan, proved for any number of      *)
(* managers, any answers of the AI and any bounds.                         *)
(*                                                                         *)
(* None of the properties is inductive alone: what makes a claim exclusive *)
(* is that a copy whose version is the stored one IS the stored object     *)
(* (CopiesCurrent), and that a stored object somebody has claimed is no    *)
(* longer claimable (ClaimedIsTaken).                                      *)
(***************************************************************************)
EXTENDS RemediationPlan, TLAPS, WellFoundedInduction, FiniteSetTheorems

Busy == {"executing", "finishing"}

\* Versions and identities come from the revision counter.
Versions ==
  /\ plan.rv <= rev /\ plan.uid <= rev
  /\ \A p \in Procs : cache[p].rv <= rev
  /\ \A m \in Managers : mem[m].rv <= rev /\ mem[m].uid <= rev
  /\ \A p \in Procs : cache[p].uid <= rev
  /\ op.base.rv <= rev
  /\ Exists(plan) => plan.rv > 0
  /\ plan.phase # "pending-approval"

\* A copy that has the stored version is the stored object.
CopiesCurrent ==
  Exists(plan) =>
    /\ \A p \in Procs : cache[p].rv = plan.rv => cache[p] = plan
    /\ op.base.rv = plan.rv => op.base = plan
    /\ \A m \in Managers : pc[m] = "marking" /\ mem[m].rv = plan.rv =>
         /\ Runnable(plan)
         /\ mem[m] = [plan EXCEPT !.phase = "running"]

\* A busy manager works on an object that, while it exists, is running; no
\* other write of the object leaves it the version the manager has.
BusyOnRunning ==
  \A m \in Managers : pc[m] \in Busy =>
    /\ Exists(mem[m])
    /\ mem[m].uid = plan.uid => plan.phase = "running"
    /\ Exists(plan) /\ mem[m].rv = plan.rv => mem[m].uid = plan.uid

\* What a manager is about to write is a phase after the claim.
CopyPhases ==
  \A m \in Managers : pc[m] \in Busy \cup {"marking"} =>
    mem[m].phase \in Terminal \cup {"running"}

\* A claimed object has left the phase in which it can be claimed.
ClaimedIsTaken ==
  \A c \in claims : /\ c.uid # 0 /\ c.uid <= rev
                    /\ c.uid = plan.uid => plan.phase \in Terminal \cup {"running"}

\* A busy manager holds the claim on its object.
BusyHoldsClaim ==
  \A m \in Managers : pc[m] \in Busy =>
    \E c \in claims : /\ c.uid = mem[m].uid /\ c.mgr = m /\ c.approved
                      /\ c.actions = mem[m].actions

\* A busy manager has recorded each action it performed.
PerformedIsRecorded ==
  \A m \in Managers : pc[m] \in Busy =>
    \A k \in DOMAIN log :
      log[k].uid = mem[m].uid => results[m][log[k].id] # "none"

\* What a manager has recorded is what happened.
RecordedOutcome(m, i) ==
  IF mem[m].actions[i].skip THEN results[m][i] = "skipped"
  ELSE \E k \in DOMAIN log : /\ log[k].uid = mem[m].uid
                             /\ log[k].id = i
                             /\ log[k].outcome = results[m][i]
WhatHappened(m) ==
  /\ pc[m] \in {"idle", "marking", "down"} => results[m] = NoResults
  /\ pc[m] \in Busy =>
       \A i \in Recorded(results[m]) :
         /\ i \in Listed(mem[m].actions)
         /\ RecordedOutcome(m, i)
  /\ pc[m] = "finishing" =>
       /\ Recorded(results[m]) = Listed(mem[m].actions)
       /\ mem[m].results = results[m]
       /\ mem[m].phase = FinalPhase(results[m])
RecordedHappened == \A m \in Managers : WhatHappened(m)

\* The operator never asks for an action above maxRiskLevel, unless the level
\* is no level at all.
ProposalFiltered ==
  \A i \in Listed(op.actions) :
    RiskOrder(op.actions[i].risk) <= RiskOrder(EffectiveMax)

\* The part of the invariant that is about versions and claims, ...
ClaimInv ==
  /\ Versions
  /\ CopiesCurrent
  /\ BusyOnRunning
  /\ CopyPhases
  /\ ClaimedIsTaken
  /\ AtMostOneExecution
  /\ BusyHoldsClaim

\* ... the part about what was performed and reported, ...
LogInv ==
  /\ OnlyApprovedActions
  /\ PerformedIsRecorded
  /\ ActionsPerformedOnce
  /\ RecordedHappened
  /\ ResultsTruthful

\* ... and the part about what was proposed.
RiskInv == ProposalFiltered /\ WithinMaxRisk

\* The strengthening under which the properties are inductive.
IInv == TypeOK /\ ClaimInv /\ LogInv /\ RiskInv

-----------------------------------------------------------------------------
(* Types.                                                                  *)

\* The objects that stand for "none" are well-formed.
LEMMA NoneTypes ==
  /\ NoAction \in PlanAction
  /\ NoActions \in ActionMaps
  /\ NoResults \in ResultMaps
  /\ NoPlan \in Objects
<1>1. NoAction \in PlanAction
  BY DEF NoAction, PlanAction
<1>2. NoActions \in ActionMaps
  BY <1>1 DEF NoActions, ActionMaps
<1>3. NoResults \in ResultMaps
  BY DEF NoResults, ResultMaps
<1>4. NoPlan \in Objects
  BY <1>2, <1>3 DEF NoPlan, Objects, Phases
<1> QED BY <1>1, <1>2, <1>3, <1>4

\* Spending from any bound leaves a well-formed account.
LEMMA SpendType ==
  ASSUME spent \in Budget
  PROVE  /\ [spent EXCEPT !.proposals = @ + 1] \in Budget
         /\ [spent EXCEPT !.edits = @ + 1] \in Budget
         /\ [spent EXCEPT !.crashes = @ + 1] \in Budget
         /\ [spent EXCEPT !.faults = @ + 1] \in Budget
BY DEF Budget

\* What createRemediationPlan builds from an answer is a list of actions.
LEMMA PlanActionsType ==
  ASSUME NEW ai \in AIAnswers
  PROVE  PlanActions(ai) \in ActionMaps
<1> SUFFICES ASSUME NEW i \in Ids
             PROVE PlanActions(ai)[i] \in PlanAction
  BY DEF PlanActions, ActionMaps
<1>1. CASE i \in Kept(ai)
  <2>1. ai[i] \in AIEntry
    BY <1>1, InputsAssumption DEF Kept
  <2> QED BY <1>1, <2>1 DEF PlanActions, AIEntry, PlanAction
<1>2. CASE i \notin Kept(ai)
  BY <1>2, NoneTypes DEF PlanActions
<1> QED BY <1>1, <1>2

\* A write leaves an object with the next version.
LEMMA StoreType ==
  ASSUME rev \in Nat, NEW obj \in Objects, Store(obj)
  PROVE  plan' \in Objects /\ rev' \in Nat
BY DEF Store, Objects

\* The same for the two kinds of update.
LEMMA WriteSpecType ==
  ASSUME TypeOK, NEW b \in BOOLEAN, NEW acts \in ActionMaps, WriteSpec(b, acts)
  PROVE  plan' \in Objects /\ rev' \in Nat
<1>1. plan \in Objects /\ plan.gen + 1 \in Nat
  BY DEF TypeOK, Objects
<1>2. [plan EXCEPT !.approved = b] \in Objects
  BY <1>1 DEF Objects
<1>3. [plan EXCEPT !.approved = b, !.actions = acts, !.gen = @ + 1] \in Objects
  BY <1>1, <1>2 DEF Objects
<1> QED BY <1>3, StoreType DEF WriteSpec, TypeOK

LEMMA WriteStatusType ==
  ASSUME TypeOK, NEW copy \in Objects, WriteStatus(copy)
  PROVE  plan' \in Objects /\ rev' \in Nat
<1>1. [plan EXCEPT !.phase = copy.phase, !.results = copy.results] \in Objects
  BY DEF TypeOK, Objects
<1> QED BY <1>1, StoreType DEF WriteStatus, TypeOK

\* Every non-empty set of naturals has a least element: the rule, or the action,
\* that a loop over a list meets first.
LEMMA LeastNatural ==
  ASSUME NEW T \in SUBSET Nat, T # {}
  PROVE  \E x \in T : \A y \in T : x <= y
<1>1. PICK x \in T : \A y \in T : <<y, x>> \notin OpToRel(<, Nat)
  BY WFMin, NatLessThanWellFounded, Zenon
<1>2. \A y \in T : ~ (y < x)
  BY <1>1, Zenon DEF OpToRel
<1> QED BY <1>2

\* The next action of the loop is one that remains.
LEMMA NextRemains ==
  ASSUME NEW m \in Managers, Remaining(m) # {}
  PROVE  Next1(m) \in Remaining(m)
<1>1. Remaining(m) \in SUBSET (1 .. MaxAnswer)
  BY DEF Remaining, Listed, Recorded, Ids
<1>2. \E i \in Remaining(m) : \A j \in Remaining(m) : i <= j
  <2> HIDE DEF Remaining
  <2> QED BY <1>1, LeastNatural, BoundsAssumption
<1> QED BY <1>2 DEF Next1

\* Going back to the work queue keeps the types.
LEMMA RequeueType ==
  ASSUME TypeOK, NEW m \in Managers, Requeue(m)
  PROVE  /\ pc' \in [Managers -> {"idle", "marking", "executing", "finishing", "down"}]
         /\ queued' \in [Managers -> BOOLEAN]
         /\ mem' \in [Managers -> Objects]
         /\ results' \in [Managers -> ResultMaps]
BY NoneTypes DEF TypeOK, Requeue

\* Every action of the module keeps every variable in its type.
THEOREM TypeInvariance == Spec => []TypeOK
<1>1. Init => TypeOK
  <2> SUFFICES ASSUME Init PROVE TypeOK
    OBVIOUS
  <2> QED BY NoneTypes DEF Init, TypeOK, OpIdle, Budget
<1>2. TypeOK /\ [Next]_vars => TypeOK'
  <2> SUFFICES ASSUME TypeOK, [Next]_vars PROVE TypeOK'
    OBVIOUS
  <2> USE DEF exec, history
  <2>1. ASSUME NEW ai \in AIAnswers, NEW auto \in AutoApproveSettings,
               Propose(ai, auto)
        PROVE  TypeOK'
    <3>1. PlanActions(ai) \in ActionMaps
      BY PlanActionsType
    <3>2. cache["operator"] \in Objects /\ auto \in BOOLEAN
      BY InputsAssumption DEF TypeOK, Procs
    <3>3. (auto /\ ~Exists(cache["operator"])) \in BOOLEAN
      OBVIOUS
    <3>4. op' \in [pc : {"idle", "writing"}, base : Objects,
                   approved : BOOLEAN, actions : ActionMaps]
      BY <2>1, <3>1, <3>2, <3>3 DEF Propose
    <3>5. spent' \in Budget
      BY <2>1, SpendType DEF Propose, TypeOK
    <3> QED BY <2>1, <3>4, <3>5 DEF TypeOK, Propose
  <2>2. CASE CreatePlan
    <3>1. [uid |-> rev + 1, rv |-> 0, gen |-> 1, approved |-> op.approved,
           actions |-> op.actions, phase |-> "", results |-> NoResults] \in Objects
      <4>1. /\ rev + 1 \in Nat /\ op.approved \in BOOLEAN
            /\ op.actions \in ActionMaps /\ NoResults \in ResultMaps
        BY NoneTypes DEF TypeOK
      <4> QED BY <4>1 DEF Objects, Phases
    <3>2. plan' \in Objects /\ rev' \in Nat
      BY <2>2, <3>1, StoreType DEF CreatePlan, TypeOK
    <3> QED BY <2>2, <3>2, NoneTypes DEF TypeOK, CreatePlan, OpIdle
  <2>3. CASE ReplacePlan
    <3>1. plan' \in Objects /\ rev' \in Nat
      BY <2>3, WriteSpecType DEF ReplacePlan, TypeOK
    <3> QED BY <2>3, <3>1, NoneTypes DEF TypeOK, ReplacePlan, OpIdle
  <2>4. CASE ProposalRejected
    BY <2>4, SpendType, NoneTypes DEF TypeOK, ProposalRejected, OpIdle, UseFault
  <2>5. ASSUME NEW b \in BOOLEAN, UserApproves(b) PROVE TypeOK'
    <3>1. plan' \in Objects /\ rev' \in Nat
      BY <2>5, WriteSpecType DEF UserApproves, TypeOK, Objects
    <3> QED BY <2>5, <3>1, SpendType DEF TypeOK, UserApproves
  <2>6. ASSUME NEW i \in Ids, NEW b \in BOOLEAN, UserSkips(i, b) PROVE TypeOK'
    <3>1. plan.actions[i] \in PlanAction
      BY DEF TypeOK, Objects, ActionMaps
    <3>2. [plan.actions[i] EXCEPT !.skip = b] \in PlanAction
      BY <3>1 DEF PlanAction
    <3>3. [plan.actions EXCEPT ![i].skip = b] \in ActionMaps
      BY <3>2 DEF TypeOK, Objects, ActionMaps
    <3>4. plan' \in Objects /\ rev' \in Nat
      BY <2>6, <3>3, WriteSpecType DEF UserSkips, TypeOK, Objects
    <3>5. [uid |-> plan.uid, id |-> i, target |-> plan.actions[i].target]
            \in [uid : Nat, id : Ids, target : Targets \cup {"none"}]
      BY <3>1 DEF TypeOK, Objects, PlanAction
    <3> QED BY <2>6, <3>4, <3>5, SpendType DEF TypeOK, UserSkips
  <2>7. CASE UserDeletes
    <3>1. rev' \in Nat /\ plan' \in Objects
      BY <2>7, NoneTypes DEF TypeOK, UserDeletes
    <3>2. spent' \in Budget
      BY <2>7, SpendType DEF TypeOK, UserDeletes
    <3> QED BY <2>7, <3>1, <3>2 DEF TypeOK, UserDeletes
  <2>8. ASSUME NEW p \in Procs, Observe(p) PROVE TypeOK'
    BY <2>8 DEF TypeOK, Observe, Triggers
  <2>9. ASSUME NEW m \in Managers, ReconcileSkips(m) PROVE TypeOK'
    BY <2>9 DEF TypeOK, ReconcileSkips
  <2>10. ASSUME NEW m \in Managers, ReconcileClaims(m) PROVE TypeOK'
    <3>1. [cache[m] EXCEPT !.phase = "running"] \in Objects
      BY DEF TypeOK, Objects, Phases, Procs
    <3> QED BY <2>10, <3>1 DEF TypeOK, ReconcileClaims
  <2>11. ASSUME NEW m \in Managers, MarkRunning(m) PROVE TypeOK'
    <3>1. plan' \in Objects /\ rev' \in Nat
      BY <2>11, WriteStatusType DEF MarkRunning, TypeOK
    <3>2. \A c \in claims' : c \in Claim
      <4>1. [uid |-> plan.uid, rv |-> rev + 1, mgr |-> m,
             approved |-> plan.approved, actions |-> plan.actions] \in Claim
        BY DEF TypeOK, Objects, Claim
      <4> QED BY <2>11, <4>1 DEF MarkRunning, TypeOK
    <3> QED BY <2>11, <3>1, <3>2 DEF TypeOK, MarkRunning
  <2>12. ASSUME NEW m \in Managers, UpdateRejected(m) PROVE TypeOK'
    BY <2>12, SpendType, RequeueType DEF TypeOK, UpdateRejected, UseFault
  <2>13. ASSUME NEW m \in Managers, UpdateReplyLost(m) PROVE TypeOK'
    <3>1. plan' \in Objects /\ rev' \in Nat
      BY <2>13, WriteStatusType DEF UpdateReplyLost, TypeOK
    <3>2. spent' \in Budget
      BY <2>13, SpendType DEF TypeOK, UpdateReplyLost, UseFault
    <3> QED BY <2>13, <3>1, <3>2, RequeueType DEF TypeOK, UpdateReplyLost
  <2>14. ASSUME NEW m \in Managers, SkipAction(m) PROVE TypeOK'
    BY <2>14 DEF TypeOK, SkipAction, Record, ResultMaps, Outcomes
  <2>15. ASSUME NEW m \in Managers, NEW outcome \in {"success", "failed"},
                ExecuteAction(m, outcome)
         PROVE  TypeOK'
    <3>1. Next1(m) \in Ids
      BY <2>15, NextRemains DEF ExecuteAction, Remaining, Listed
    <3>2. results' \in [Managers -> ResultMaps]
      BY <2>15 DEF TypeOK, ExecuteAction, Record, ResultMaps, Outcomes
    <3>3. [uid |-> mem[m].uid, id |-> Next1(m), mgr |-> m,
           action |-> mem[m].actions[Next1(m)], outcome |-> outcome] \in LogEntry
      BY <3>1 DEF TypeOK, Objects, ActionMaps, LogEntry
    <3>4. log' \in Seq(LogEntry)
      BY <2>15, <3>3 DEF TypeOK, ExecuteAction
    <3> QED BY <2>15, <3>2, <3>4 DEF TypeOK, ExecuteAction
  <2>16. ASSUME NEW m \in Managers, Conclude(m) PROVE TypeOK'
    <3>1. [mem[m] EXCEPT !.phase = FinalPhase(results[m]),
                         !.results = results[m]] \in Objects
      BY DEF TypeOK, Objects, FinalPhase, Phases
    <3>2. mem' = [mem EXCEPT ![m] = [mem[m] EXCEPT
                    !.phase = FinalPhase(results[m]), !.results = results[m]]]
      BY <2>16 DEF Conclude, TypeOK
    <3> QED BY <2>16, <3>1, <3>2 DEF TypeOK, Conclude
  <2>17. ASSUME NEW m \in Managers, Finish(m) PROVE TypeOK'
    <3>1. plan' \in Objects /\ rev' \in Nat
      BY <2>17, WriteStatusType DEF Finish, TypeOK
    <3> QED BY <2>17, <3>1, NoneTypes DEF TypeOK, Finish
  <2>18. ASSUME NEW m \in Managers, Crash(m) PROVE TypeOK'
    <3>1. spent' \in Budget
      BY <2>18, SpendType DEF TypeOK, Crash
    <3> QED BY <2>18, <3>1, NoneTypes DEF TypeOK, Crash
  <2>19. ASSUME NEW m \in Managers, Start(m) PROVE TypeOK'
    BY <2>19 DEF TypeOK, Start, Exists
  <2>20. CASE UNCHANGED vars
    BY <2>20 DEF TypeOK, vars
  <2> QED BY <2>1, <2>2, <2>3, <2>4, <2>5, <2>6, <2>7, <2>8, <2>9, <2>10,
             <2>11, <2>12, <2>13, <2>14, <2>15, <2>16, <2>17, <2>18, <2>19,
             <2>20 DEF Next, Operator, User, Reconcile
<1> QED BY <1>1, <1>2, PTL DEF Spec

-----------------------------------------------------------------------------
(* Versions and claims.                                                    *)

\* A write to the main resource changes nothing, or gives the object a new
\* version and leaves its identity and its status.
LEMMA WriteSpecEffect ==
  ASSUME TypeOK, NEW b, NEW acts, WriteSpec(b, acts)
  PROVE  \/ UNCHANGED <<plan, rev>>
         \/ /\ rev' = rev + 1 /\ plan'.rv = rev + 1
            /\ plan'.uid = plan.uid /\ plan'.phase = plan.phase
            /\ plan'.results = plan.results
BY DEF WriteSpec, Store, TypeOK, Objects

\* A write to the status leaves the identity and the spec.
LEMMA WriteStatusEffect ==
  ASSUME TypeOK, NEW copy \in Objects, WriteStatus(copy)
  PROVE  /\ rev' = rev + 1 /\ plan'.rv = rev + 1
         /\ plan'.uid = plan.uid /\ plan'.approved = plan.approved
         /\ plan'.actions = plan.actions
         /\ plan'.phase = copy.phase /\ plan'.results = copy.results
BY DEF WriteStatus, Store, TypeOK, Objects

\* The numbers that the invariant compares are natural numbers.
LEMMA Numbers ==
  ASSUME TypeOK
  PROVE  /\ rev \in Nat /\ plan.rv \in Nat /\ plan.uid \in Nat
         /\ \A p \in Procs : cache[p].rv \in Nat /\ cache[p].uid \in Nat
         /\ \A m \in Managers : mem[m].rv \in Nat /\ mem[m].uid \in Nat
         /\ op.base.rv \in Nat
         /\ \A c \in claims : c.uid \in Nat
BY DEF TypeOK, Objects, Claim

\* A write of the spec, by whoever, disturbs no claim.
LEMMA SpecWriteKeepsClaims ==
  ASSUME TypeOK, TypeOK', ClaimInv, Exists(plan),
         NEW b, NEW acts, WriteSpec(b, acts),
         UNCHANGED <<cache, pc, mem, claims>>,
         op' = op \/ op' = OpIdle
  PROVE  ClaimInv'
<1> USE DEF ClaimInv, Exists
<1>0. /\ op'.base.rv <= rev /\ NoPlan.rv = 0
      /\ op'.base = op.base \/ op'.base = NoPlan
  <2>1. op.base.rv <= rev /\ rev \in Nat
    BY DEF Versions, TypeOK
  <2>2. OpIdle.base = NoPlan /\ NoPlan.rv = 0
    BY DEF OpIdle, NoPlan
  <2> QED BY <2>1, <2>2
<1>1. CASE UNCHANGED <<plan, rev>>
  <2>1. Versions'
    BY <1>0, <1>1 DEF Versions
  <2>2. CopiesCurrent'
    <3>1. Exists(plan) => plan.rv # 0
      BY DEF Versions, TypeOK, Objects
    <3>2. Exists(plan) /\ op'.base.rv = plan.rv => op'.base = plan
      BY <1>0, <3>1 DEF CopiesCurrent
    <3> QED BY <1>1, <3>2 DEF CopiesCurrent, Runnable
  <2> QED BY <1>1, <2>1, <2>2 DEF BusyOnRunning, CopyPhases, ClaimedIsTaken,
                                 AtMostOneExecution, BusyHoldsClaim
<1>2. CASE /\ rev' = rev + 1 /\ plan'.rv = rev + 1
           /\ plan'.uid = plan.uid /\ plan'.phase = plan.phase
  <2>1. Versions'
    <3>1. op'.base.rv \in Nat
      BY Numbers DEF TypeOK, Objects
    <3> QED BY <1>0, <1>2, <3>1, Numbers DEF Versions
  <2>2. CopiesCurrent'
    BY <1>0, <1>2 DEF Versions, CopiesCurrent, TypeOK, Objects
  <2>3. BusyOnRunning'
    BY <1>2 DEF BusyOnRunning, Versions, TypeOK, Objects
  <2>4. ClaimedIsTaken'
    BY <1>2 DEF ClaimedIsTaken, TypeOK, Claim
  <2> QED BY <2>1, <2>2, <2>3, <2>4
          DEF CopyPhases, AtMostOneExecution, BusyHoldsClaim
<1> QED BY <1>1, <1>2, WriteSpecEffect

\* A step of one manager that writes nothing keeps the claims if it leaves the
\* manager without a copy, goes on with the execution, or makes a copy of the
\* cache to claim it with.
LEMMA LocalStepKeepsClaims ==
  ASSUME TypeOK, ClaimInv, NEW m \in Managers, UNCHANGED <<plan, rev, op, claims>>,
         pc' = [pc EXCEPT ![m] = pc'[m]],
         mem' = [mem EXCEPT ![m] = mem'[m]],
         cache' = [cache EXCEPT ![m] = cache'[m]],
         cache'[m] \in {cache[m], NoPlan, plan},
         \/ pc'[m] \notin Busy \cup {"marking"} /\ mem'[m] \in {mem[m], NoPlan}
         \/ /\ pc'[m] = pc[m] /\ mem'[m] = mem[m]
         \/ /\ pc[m] \in Busy /\ pc'[m] \in Busy
            /\ mem'[m].uid = mem[m].uid /\ mem'[m].rv = mem[m].rv
            /\ mem'[m].actions = mem[m].actions
            /\ mem'[m].phase \in Terminal \cup {"running"}
         \/ /\ pc'[m] = "marking" /\ Runnable(cache[m])
            /\ mem'[m] = [cache[m] EXCEPT !.phase = "running"]
  PROVE  ClaimInv'
<1> USE DEF ClaimInv, Exists
<1>0. /\ NoPlan.rv = 0 /\ NoPlan.uid = 0
      /\ m \in Procs /\ Managers \subseteq Procs
      /\ cache \in [Procs -> Objects] /\ mem \in [Managers -> Objects]
      /\ DOMAIN pc = Managers
  BY DEF NoPlan, Procs, TypeOK
<1>1. CASE pc'[m] = "marking" /\ Runnable(cache[m])
           /\ mem'[m] = [cache[m] EXCEPT !.phase = "running"]
  <2>1. mem'[m].rv = cache[m].rv /\ mem'[m].uid = cache[m].uid
    BY <1>0, <1>1 DEF Objects
  <2>2. Versions'
    BY <1>0, <2>1, Numbers DEF Versions
  <2>3. CopiesCurrent'
    <3>1. \A n \in Managers : n # m => pc'[n] = pc[n] /\ mem'[n] = mem[n]
      BY <1>0
    <3>2. Exists(plan) => plan.rv # 0
      BY Numbers DEF Versions
    <3>3. Exists(plan) /\ mem'[m].rv = plan.rv => cache[m] = plan
      BY <1>0, <2>1 DEF CopiesCurrent
    <3>4. \A p \in Procs : cache'[p] \in {cache[p], NoPlan, plan}
      BY <1>0
    <3>5. Exists(plan) => \A p \in Procs : cache'[p].rv = plan.rv => cache'[p] = plan
      BY <1>0, <3>2, <3>4 DEF CopiesCurrent
    <3>6. Exists(plan) => \A n \in Managers :
            pc'[n] = "marking" /\ mem'[n].rv = plan.rv =>
              Runnable(plan) /\ mem'[n] = [plan EXCEPT !.phase = "running"]
      BY <1>1, <3>1, <3>3 DEF CopiesCurrent
    <3> QED BY <3>5, <3>6 DEF CopiesCurrent, Runnable
  <2>4. BusyOnRunning' /\ BusyHoldsClaim'
    BY <1>0, <1>1 DEF BusyOnRunning, BusyHoldsClaim, Busy
  <2>5. CopyPhases'
    BY <1>0, <1>1 DEF CopyPhases, Objects
  <2> QED BY <2>2, <2>3, <2>4, <2>5 DEF ClaimedIsTaken, AtMostOneExecution
<1>2. CASE /\ mem'[m].rv \in {mem[m].rv, 0} /\ mem'[m].uid \in {mem[m].uid, 0}
           /\ pc'[m] = "marking" => pc[m] = "marking" /\ mem'[m] = mem[m]
           /\ pc'[m] \in Busy => pc[m] \in Busy /\ mem'[m].uid = mem[m].uid
                                /\ mem'[m].rv = mem[m].rv
                                /\ mem'[m].actions = mem[m].actions
                                /\ \/ mem'[m] = mem[m]
                                   \/ mem'[m].phase \in Terminal \cup {"running"}
  <2>1. \A n \in Managers : n # m => pc'[n] = pc[n] /\ mem'[n] = mem[n]
    BY <1>0
  <2>2. \A p \in Procs : cache'[p] \in {cache[p], NoPlan, plan}
    BY <1>0
  <2>3. Versions'
    BY <1>0, <1>2, <2>1, <2>2, Numbers DEF Versions
  <2>4. CopiesCurrent'
    <3>1. Exists(plan) => plan.rv # 0
      BY Numbers DEF Versions
    <3> QED BY <1>0, <1>2, <2>1, <2>2, <3>1 DEF CopiesCurrent, Runnable
  <2>5. BusyOnRunning' /\ BusyHoldsClaim'
    BY <1>0, <1>2, <2>1 DEF BusyOnRunning, BusyHoldsClaim
  <2>6. CopyPhases'
    BY <1>0, <1>2, <2>1 DEF CopyPhases, Busy
  <2> QED BY <2>3, <2>4, <2>5, <2>6 DEF ClaimedIsTaken, AtMostOneExecution
<1> QED BY <1>0, <1>1, <1>2 DEF Busy

\* After a write no copy is current, but the writer's own.
LEMMA WriteOutdatesCopies ==
  ASSUME TypeOK, TypeOK', ClaimInv,
         rev' = rev + 1, plan'.rv = rev + 1, plan'.uid \in {plan.uid, rev + 1},
         plan'.phase # "pending-approval", UNCHANGED cache,
         op'.base \in {op.base, NoPlan},
         \A n \in Managers : mem'[n] \in {mem[n], NoPlan, plan'},
         \A n \in Managers : pc'[n] = "marking" => mem'[n] = mem[n]
  PROVE  Versions' /\ CopiesCurrent'
<1> USE DEF ClaimInv, Exists
<1>1. NoPlan.rv = 0 /\ NoPlan.uid = 0
  BY DEF NoPlan
<1>2. \A n \in Managers : mem'[n].rv <= rev + 1 /\ mem'[n].uid <= rev + 1
  <2> TAKE n \in Managers
  <2>1. mem[n].rv <= rev /\ mem[n].uid <= rev /\ plan.uid <= rev
    BY DEF Versions
  <2>2. rev \in Nat /\ mem[n].rv \in Nat /\ mem[n].uid \in Nat /\ plan.uid \in Nat
    BY Numbers
  <2>3. plan'.rv <= rev + 1 /\ plan'.uid <= rev + 1
    BY <2>1, <2>2
  <2>4. mem'[n] = mem[n] \/ mem'[n] = NoPlan \/ mem'[n] = plan'
    OBVIOUS
  <2> QED BY <1>1, <2>1, <2>2, <2>3, <2>4
<1>3. \A p \in Procs : cache'[p].rv <= rev /\ cache'[p].uid <= rev
  BY DEF Versions
<1>4. op'.base.rv <= rev
  BY <1>1, Numbers DEF Versions
<1>5. Versions'
  <2>1. plan'.uid <= rev + 1
    BY Numbers DEF Versions
  <2>2. op'.base.rv \in Nat
    BY DEF TypeOK, Objects
  <2> QED BY <1>2, <1>3, <1>4, <2>1, <2>2, Numbers DEF Versions
<1>6. CopiesCurrent'
  <2>1. \A p \in Procs : cache'[p].rv # plan'.rv
    BY <1>3, Numbers
  <2>2. op'.base.rv # plan'.rv
    BY <1>1, Numbers DEF Versions
  <2>3. \A n \in Managers : pc'[n] = "marking" => mem'[n].rv # plan'.rv
    <3> SUFFICES ASSUME NEW n \in Managers PROVE mem[n].rv # plan'.rv
      OBVIOUS
    <3>1. mem[n].rv <= rev /\ mem[n].rv \in Nat /\ rev \in Nat
      BY Numbers DEF Versions
    <3> QED BY <3>1
  <2> QED BY <2>1, <2>2, <2>3 DEF CopiesCurrent
<1> QED BY <1>5, <1>6

\* At most one manager is busy with an object.
LEMMA BusyAlone ==
  ASSUME ClaimInv, NEW m \in Managers, NEW n \in Managers,
         pc[m] \in Busy, pc[n] \in Busy, mem[m].uid = mem[n].uid
  PROVE  m = n
BY DEF ClaimInv, BusyHoldsClaim, AtMostOneExecution

\* The first status update: the object is claimed by the manager whose copy is
\* still the stored object, hence approved and unclaimed.
LEMMA MarkRunningKeepsClaims ==
  ASSUME TypeOK, TypeOK', ClaimInv, NEW m \in Managers, MarkRunning(m)
  PROVE  ClaimInv'
<1> USE DEF ClaimInv, Exists
<1>1. /\ pc[m] = "marking" /\ Exists(plan) /\ plan.rv = mem[m].rv
      /\ Runnable(plan) /\ mem[m] = [plan EXCEPT !.phase = "running"]
  BY DEF MarkRunning, Current, CopiesCurrent
<1>2. /\ rev' = rev + 1 /\ plan'.rv = rev + 1 /\ plan'.uid = plan.uid
      /\ plan'.actions = plan.actions /\ plan'.phase = "running"
  <2>1. mem[m] \in Objects /\ mem[m].phase = "running"
    BY <1>1 DEF TypeOK, Objects
  <2> QED BY <2>1, WriteStatusEffect DEF MarkRunning
<1>3. /\ pc' = [pc EXCEPT ![m] = "executing"] /\ mem' = [mem EXCEPT ![m] = plan']
      /\ DOMAIN pc = Managers /\ DOMAIN mem = Managers
  BY DEF MarkRunning, TypeOK
<1> DEFINE new == [uid |-> plan.uid, rv |-> rev + 1, mgr |-> m,
                   approved |-> plan.approved, actions |-> plan.actions]
<1>4. claims' = claims \cup {new}
  BY DEF MarkRunning
<1>5. \A c \in claims : c.uid # plan.uid
  BY <1>1 DEF ClaimedIsTaken, Runnable
<1>6. Versions' /\ CopiesCurrent'
  <2>1. UNCHANGED <<cache, op>>
    BY DEF MarkRunning
  <2> QED BY <1>2, <1>3, <2>1, WriteOutdatesCopies
<1>7. BusyOnRunning'
  <2>1. mem'[m] = plan'
    BY <1>3
  <2>2. \A n \in Managers : n # m => pc'[n] = pc[n] /\ mem'[n] = mem[n]
    BY <1>3
  <2> QED BY <1>1, <1>2, <2>1, <2>2, Numbers DEF BusyOnRunning, Versions
<1>8. ClaimedIsTaken'
  <2> HIDE DEF new
  <2>1. new.uid = plan.uid
    BY DEF new
  <2> QED BY <1>1, <1>2, <1>4, <2>1, Numbers DEF ClaimedIsTaken, Versions
<1>9. AtMostOneExecution'
  BY <1>4, <1>5 DEF AtMostOneExecution
<1>10. BusyHoldsClaim'
  <2>1. new \in claims' /\ new.uid = mem'[m].uid /\ new.mgr = m /\ new.approved
        /\ new.actions = mem'[m].actions
    BY <1>1, <1>2, <1>3, <1>4 DEF Runnable
  <2>2. \A n \in Managers : n # m => pc'[n] = pc[n] /\ mem'[n] = mem[n]
    BY <1>3
  <2> HIDE DEF new
  <2> QED BY <1>4, <2>1, <2>2 DEF BusyHoldsClaim
<1>11. CopyPhases'
  BY <1>2, <1>3 DEF CopyPhases, Busy
<1> QED BY <1>6, <1>7, <1>8, <1>9, <1>10, <1>11

\* A status update after which its manager is through with the object: the
\* final one, or one whose reply is lost.
LEMMA LastUpdateKeepsClaims ==
  ASSUME TypeOK, TypeOK', ClaimInv, NEW m \in Managers,
         pc[m] \in {"marking", "finishing"}, Current(mem[m]), WriteStatus(mem[m]),
         pc' = [pc EXCEPT ![m] = "idle"], mem' = [mem EXCEPT ![m] = NoPlan],
         UNCHANGED <<cache, op, claims>>
  PROVE  ClaimInv'
<1> USE DEF ClaimInv, Exists
<1>1. /\ rev' = rev + 1 /\ plan'.rv = rev + 1 /\ plan'.uid = plan.uid
      /\ plan'.phase = mem[m].phase
      /\ mem[m].phase \in Terminal \cup {"running"}
  <2>1. mem[m] \in Objects
    BY DEF TypeOK
  <2> QED BY <2>1, WriteStatusEffect DEF CopyPhases, Busy
<1>2. /\ pc'[m] = "idle"
      /\ \A n \in Managers : n # m => pc'[n] = pc[n] /\ mem'[n] = mem[n]
  BY DEF TypeOK
<1>3. Versions' /\ CopiesCurrent'
  BY <1>1, <1>2, WriteOutdatesCopies DEF Terminal
<1>4. BusyOnRunning'
  <2> SUFFICES ASSUME NEW n \in Managers, pc'[n] \in Busy, n # m
               PROVE /\ mem[n].uid # 0
                     /\ mem[n].uid # plan.uid \/ plan'.phase = "running"
                     /\ mem[n].rv # plan'.rv
    BY <1>1, <1>2 DEF BusyOnRunning, Busy
  <2>1. mem[n].uid # 0 /\ mem[n].rv # plan'.rv
    BY <1>1, <1>2, Numbers DEF BusyOnRunning, Versions
  <2>2. CASE pc[m] = "marking"
    <3>1. mem[m].phase = "running"
      BY <2>2 DEF CopiesCurrent, Current, TypeOK, Objects
    <3> QED BY <1>1, <1>2, <2>1, <3>1
  <2>3. CASE pc[m] = "finishing"
    <3>1. mem[m].uid = plan.uid
      BY <2>3 DEF BusyOnRunning, Current, Busy
    <3> QED BY <1>2, <2>1, <2>3, <3>1, BusyAlone DEF Busy
  <2> QED BY <2>1, <2>2, <2>3
<1>5. ClaimedIsTaken'
  BY <1>1, Numbers DEF ClaimedIsTaken
<1>6. BusyHoldsClaim'
  BY <1>2 DEF BusyHoldsClaim, Busy
<1>7. CopyPhases'
  BY <1>2 DEF CopyPhases, Busy
<1> QED BY <1>3, <1>4, <1>5, <1>6, <1>7 DEF AtMostOneExecution

\* Every step of the specification keeps the claims.
LEMMA ClaimStep ==
  ASSUME TypeOK, TypeOK', ClaimInv, [Next]_vars
  PROVE  ClaimInv'
<1> USE DEF exec, history
<1>1. ASSUME NEW ai \in AIAnswers, NEW auto \in AutoApproveSettings,
             Propose(ai, auto)
      PROVE  ClaimInv'
  <2>1. op'.base = cache["operator"] /\ "operator" \in Procs
        /\ UNCHANGED <<plan, rev, cache, pc, mem, claims>>
    BY <1>1 DEF Propose, Procs
  <2>2. Versions' /\ CopiesCurrent'
    BY <2>1 DEF ClaimInv, Versions, CopiesCurrent, Exists, Runnable
  <2> QED BY <2>1, <2>2 DEF ClaimInv, BusyOnRunning, CopyPhases,
                            ClaimedIsTaken, Exists, AtMostOneExecution, BusyHoldsClaim
<1>2. CASE CreatePlan
  <2>1. /\ rev' = rev + 1 /\ plan'.rv = rev + 1 /\ plan'.uid = rev + 1
        /\ plan'.phase = "" /\ op'.base = NoPlan
        /\ UNCHANGED <<cache, pc, mem, claims>>
    BY <1>2 DEF CreatePlan, Store, OpIdle
  <2>2. Versions' /\ CopiesCurrent'
    BY <2>1, WriteOutdatesCopies
  <2>3. BusyOnRunning'
    <3>1. \A m \in Managers : mem[m].uid # rev + 1 /\ mem[m].rv # rev + 1
      BY Numbers DEF ClaimInv, Versions
    <3> QED BY <2>1, <3>1 DEF ClaimInv, BusyOnRunning, Exists
  <2>4. ClaimedIsTaken'
    <3>1. \A c \in claims : c.uid # rev + 1 /\ c.uid <= rev + 1 /\ c.uid # 0
      BY Numbers DEF ClaimInv, ClaimedIsTaken
    <3> QED BY <2>1, <3>1 DEF ClaimedIsTaken
  <2> QED BY <2>1, <2>2, <2>3, <2>4 DEF ClaimInv, CopyPhases,
                                          AtMostOneExecution, BusyHoldsClaim
<1>3. CASE ReplacePlan
  <2>1. Exists(plan) /\ WriteSpec(FALSE, op.actions) /\ op' = OpIdle
        /\ UNCHANGED <<cache, pc, mem, claims>>
    BY <1>3 DEF ReplacePlan, CanReplace, Current
  <2> QED BY <2>1, SpecWriteKeepsClaims
<1>4. CASE ProposalRejected
  <2>1. op'.base = NoPlan /\ NoPlan.rv = 0
        /\ UNCHANGED <<plan, rev, cache, pc, mem, claims>>
    BY <1>4 DEF ProposalRejected, OpIdle, NoPlan
  <2>2. Versions' /\ CopiesCurrent'
    BY <2>1, Numbers DEF ClaimInv, Versions, CopiesCurrent, Exists, Runnable
  <2> QED BY <2>1, <2>2 DEF ClaimInv, BusyOnRunning, CopyPhases,
                            ClaimedIsTaken, Exists, AtMostOneExecution, BusyHoldsClaim
<1>5. ASSUME NEW b \in BOOLEAN, UserApproves(b) PROVE ClaimInv'
  <2>1. Exists(plan) /\ WriteSpec(b, plan.actions) /\ op' = op
        /\ UNCHANGED <<cache, pc, mem, claims>>
    BY <1>5 DEF UserApproves
  <2> QED BY <2>1, SpecWriteKeepsClaims
<1>6. ASSUME NEW i \in Ids, NEW b \in BOOLEAN, UserSkips(i, b) PROVE ClaimInv'
  <2>1. Exists(plan) /\ op' = op
        /\ WriteSpec(plan.approved, [plan.actions EXCEPT ![i].skip = b])
        /\ UNCHANGED <<cache, pc, mem, claims>>
    BY <1>6 DEF UserSkips
  <2> QED BY <2>1, SpecWriteKeepsClaims
<1>7. CASE UserDeletes
  <2>1. /\ plan' = NoPlan /\ rev' = rev + 1 /\ ~Exists(NoPlan)
        /\ NoPlan.rv = 0 /\ NoPlan.uid = 0 /\ NoPlan.phase = ""
        /\ UNCHANGED <<cache, pc, mem, op, claims>>
    BY <1>7 DEF UserDeletes, NoPlan, Exists
  <2>2. Versions' /\ CopiesCurrent'
    <3>1. /\ \A p \in Procs : cache[p].rv <= rev + 1 /\ cache[p].uid <= rev + 1
          /\ \A m \in Managers : mem[m].rv <= rev + 1 /\ mem[m].uid <= rev + 1
          /\ op.base.rv <= rev + 1 /\ 0 <= rev + 1
      BY Numbers DEF ClaimInv, Versions
    <3> QED BY <2>1, <3>1 DEF Versions, CopiesCurrent
  <2>3. BusyOnRunning'
    BY <2>1 DEF ClaimInv, BusyOnRunning, Exists
  <2>4. ClaimedIsTaken'
    <3>1. \A c \in claims : c.uid # rev + 1 /\ c.uid <= rev + 1 /\ c.uid # 0
      BY Numbers DEF ClaimInv, ClaimedIsTaken
    <3> QED BY <2>1, <3>1 DEF ClaimedIsTaken
  <2> QED BY <2>1, <2>2, <2>3, <2>4 DEF ClaimInv, CopyPhases,
                                          AtMostOneExecution, BusyHoldsClaim
<1>8. ASSUME NEW p \in Procs, Observe(p) PROVE ClaimInv'
  <2>1. /\ \A q \in Procs : cache'[q] \in {cache[q], plan}
        /\ UNCHANGED <<plan, rev, pc, mem, op, claims>>
    BY <1>8 DEF Observe, TypeOK
  <2>2. Versions' /\ CopiesCurrent'
    BY <2>1 DEF ClaimInv, Versions, CopiesCurrent, Exists, Runnable
  <2> QED BY <2>1, <2>2 DEF ClaimInv, BusyOnRunning, CopyPhases,
                            ClaimedIsTaken, Exists, AtMostOneExecution, BusyHoldsClaim
<1>9. ASSUME NEW m \in Managers, ReconcileSkips(m) PROVE ClaimInv'
  BY <1>9, LocalStepKeepsClaims DEF ReconcileSkips, TypeOK
<1>10. ASSUME NEW m \in Managers, ReconcileClaims(m) PROVE ClaimInv'
  <2>1. /\ pc' = [pc EXCEPT ![m] = pc'[m]] /\ mem' = [mem EXCEPT ![m] = mem'[m]]
        /\ pc'[m] = "marking" /\ Runnable(cache[m])
        /\ mem'[m] = [cache[m] EXCEPT !.phase = "running"]
        /\ cache' = [cache EXCEPT ![m] = cache'[m]] /\ cache'[m] = cache[m]
        /\ UNCHANGED <<plan, rev, op, claims>>
    BY <1>10 DEF ReconcileClaims, TypeOK
  <2> QED BY <2>1, LocalStepKeepsClaims
<1>11. ASSUME NEW m \in Managers, MarkRunning(m) PROVE ClaimInv'
  BY <1>11, MarkRunningKeepsClaims
<1>12. ASSUME NEW m \in Managers, UpdateRejected(m) PROVE ClaimInv'
  <2>1. /\ pc' = [pc EXCEPT ![m] = pc'[m]] /\ mem' = [mem EXCEPT ![m] = mem'[m]]
        /\ pc'[m] = "idle" /\ mem'[m] = NoPlan
        /\ cache' = [cache EXCEPT ![m] = cache'[m]] /\ cache'[m] = cache[m]
        /\ UNCHANGED <<plan, rev, op, claims>>
    BY <1>12 DEF UpdateRejected, Requeue, TypeOK
  <2> QED BY <2>1, LocalStepKeepsClaims DEF Busy
<1>13. ASSUME NEW m \in Managers, UpdateReplyLost(m) PROVE ClaimInv'
  BY <1>13, LastUpdateKeepsClaims DEF UpdateReplyLost, Requeue
<1>14. ASSUME NEW m \in Managers, SkipAction(m) PROVE ClaimInv'
  BY <1>14, LocalStepKeepsClaims DEF SkipAction, TypeOK
<1>15. ASSUME NEW m \in Managers, NEW outcome \in {"success", "failed"},
              ExecuteAction(m, outcome)
       PROVE  ClaimInv'
  BY <1>15, LocalStepKeepsClaims DEF ExecuteAction, TypeOK
<1>16. ASSUME NEW m \in Managers, Conclude(m) PROVE ClaimInv'
  <2>1. /\ pc' = [pc EXCEPT ![m] = pc'[m]] /\ mem' = [mem EXCEPT ![m] = mem'[m]]
        /\ pc[m] = "executing" /\ pc'[m] = "finishing"
        /\ mem'[m] = [mem[m] EXCEPT !.phase = FinalPhase(results[m]),
                                    !.results = results[m]]
        /\ cache' = [cache EXCEPT ![m] = cache'[m]] /\ cache'[m] = cache[m]
        /\ UNCHANGED <<plan, rev, op, claims>>
    BY <1>16 DEF Conclude, TypeOK
  <2>2. /\ mem'[m].uid = mem[m].uid /\ mem'[m].rv = mem[m].rv
        /\ mem'[m].actions = mem[m].actions
        /\ mem'[m].phase \in Terminal \cup {"running"}
    BY <2>1 DEF TypeOK, Objects, FinalPhase, Terminal
  <2> QED BY <2>1, <2>2, LocalStepKeepsClaims DEF Busy
<1>17. ASSUME NEW m \in Managers, Finish(m) PROVE ClaimInv'
  BY <1>17, LastUpdateKeepsClaims DEF Finish
<1>18. ASSUME NEW m \in Managers, Crash(m) PROVE ClaimInv'
  BY <1>18, LocalStepKeepsClaims DEF Crash, Busy, TypeOK, Procs
<1>19. ASSUME NEW m \in Managers, Start(m) PROVE ClaimInv'
  <2>1. /\ pc' = [pc EXCEPT ![m] = pc'[m]] /\ mem' = [mem EXCEPT ![m] = mem'[m]]
        /\ pc'[m] = "idle" /\ mem'[m] = mem[m]
        /\ cache' = [cache EXCEPT ![m] = cache'[m]] /\ cache'[m] = plan
        /\ UNCHANGED <<plan, rev, op, claims>>
    BY <1>19 DEF Start, TypeOK, Procs
  <2> QED BY <2>1, LocalStepKeepsClaims DEF Busy
<1>20. CASE UNCHANGED vars
  BY <1>20 DEF vars, ClaimInv, Versions, CopiesCurrent, BusyOnRunning, Runnable, CopyPhases,
               Exists, ClaimedIsTaken, AtMostOneExecution, BusyHoldsClaim
<1> QED BY <1>1, <1>2, <1>3, <1>4, <1>5, <1>6, <1>7, <1>8, <1>9, <1>10, <1>11,
           <1>12, <1>13, <1>14, <1>15, <1>16, <1>17, <1>18, <1>19, <1>20
        DEF Next, Operator, User, Reconcile

-----------------------------------------------------------------------------
(* What was performed and reported.                                        *)

\* Most steps perform nothing and report nothing: every manager goes on as it
\* was, or drops what it had.
LEMMA NothingPerformed ==
  ASSUME ClaimInv, LogInv, UNCHANGED log, claims \subseteq claims',
         NEW quiet \in SUBSET Managers,
         \A n \in quiet : pc'[n] = pc[n] /\ mem'[n] = mem[n] /\ results'[n] = results[n],
         \A n \in Managers \ quiet : pc'[n] \notin Busy /\ results'[n] = NoResults,
         \/ plan'.phase \notin Terminal
         \/ plan'.phase = plan.phase /\ plan'.uid = plan.uid
            /\ plan'.results = plan.results
  PROVE  LogInv'
<1> USE DEF LogInv
<1>1. OnlyApprovedActions' /\ ActionsPerformedOnce'
  BY DEF OnlyApprovedActions, ActionsPerformedOnce
<1>2. PerformedIsRecorded'
  BY DEF PerformedIsRecorded
<1>3. RecordedHappened'
  <2> SUFFICES ASSUME NEW n \in Managers PROVE WhatHappened(n)'
    BY DEF RecordedHappened
  <2>1. CASE n \in quiet
    BY <2>1 DEF RecordedHappened, WhatHappened, RecordedOutcome, Recorded, Listed, FinalPhase
  <2>2. CASE n \notin quiet
    BY <2>2 DEF WhatHappened, Busy
  <2> QED BY <2>1, <2>2
<1>4. ResultsTruthful'
  BY DEF ResultsTruthful, Listed, Recorded
<1> QED BY <1>1, <1>2, <1>3, <1>4

\* The claim: nothing was performed under the object before it.
LEMMA MarkRunningKeepsLog ==
  ASSUME TypeOK, TypeOK', ClaimInv, LogInv, NEW m \in Managers, MarkRunning(m)
  PROVE  LogInv'
<1> USE DEF LogInv, ClaimInv
<1>1. /\ pc[m] = "marking" /\ Exists(plan) /\ plan.rv = mem[m].rv
      /\ Runnable(plan) /\ mem[m] = [plan EXCEPT !.phase = "running"]
  BY DEF MarkRunning, Current, CopiesCurrent
<1>2. plan'.uid = plan.uid /\ plan'.phase = "running"
  <2>1. mem[m] \in Objects /\ mem[m].phase = "running"
    BY <1>1 DEF TypeOK, Objects
  <2> QED BY <2>1, WriteStatusEffect DEF MarkRunning
<1>3. /\ pc'[m] = "executing" /\ mem'[m].uid = plan.uid /\ results'[m] = NoResults
      /\ \A n \in Managers : /\ n # m => pc'[n] = pc[n] /\ mem'[n] = mem[n]
                            /\ results'[n] = results[n]
      /\ UNCHANGED log /\ claims \subseteq claims'
  BY <1>1, <1>2 DEF MarkRunning, TypeOK, RecordedHappened, WhatHappened
<1>4. \A k \in DOMAIN log : log[k].uid # plan.uid
  BY <1>1 DEF OnlyApprovedActions, ClaimedIsTaken, Runnable
<1>5. OnlyApprovedActions' /\ ActionsPerformedOnce'
  BY <1>3 DEF OnlyApprovedActions, ActionsPerformedOnce
<1>6. PerformedIsRecorded'
  BY <1>3, <1>4 DEF PerformedIsRecorded
<1>7. RecordedHappened'
  <2> SUFFICES ASSUME NEW n \in Managers PROVE WhatHappened(n)'
    BY DEF RecordedHappened
  <2>1. CASE n = m
    <3>1. Recorded(NoResults) = {}
      BY DEF Recorded, NoResults
    <3> QED BY <1>3, <2>1, <3>1 DEF WhatHappened, Recorded
  <2>2. CASE n # m
    BY <1>3, <2>2 DEF RecordedHappened, WhatHappened, RecordedOutcome, Recorded,
                      Listed, FinalPhase
  <2> QED BY <2>1, <2>2
<1>8. ResultsTruthful'
  BY <1>2 DEF ResultsTruthful, Terminal
<1> QED BY <1>5, <1>6, <1>7, <1>8

\* The report: what the finishing manager has recorded becomes the results.
LEMMA FinalUpdateKeepsLog ==
  ASSUME TypeOK, TypeOK', ClaimInv, LogInv, NEW m \in Managers,
         pc[m] = "finishing", Current(mem[m]), WriteStatus(mem[m]),
         pc' = [pc EXCEPT ![m] = "idle"], mem' = [mem EXCEPT ![m] = NoPlan],
         results' = [results EXCEPT ![m] = NoResults],
         UNCHANGED <<log, claims>>
  PROVE  LogInv'
<1> USE DEF LogInv, ClaimInv
<1>1. /\ plan'.uid = mem[m].uid
      /\ plan'.phase = mem[m].phase /\ plan'.results = mem[m].results
  <2>1. mem[m] \in Objects /\ mem[m].uid = plan.uid
    BY DEF TypeOK, BusyOnRunning, Current, Busy
  <2> QED BY <2>1, WriteStatusEffect
<1>2. /\ pc'[m] = "idle" /\ results'[m] = NoResults
      /\ \A n \in Managers : n # m => /\ pc'[n] = pc[n] /\ mem'[n] = mem[n]
                                      /\ results'[n] = results[n]
  BY DEF TypeOK
<1>3. OnlyApprovedActions' /\ ActionsPerformedOnce'
  BY DEF OnlyApprovedActions, ActionsPerformedOnce
<1>4. PerformedIsRecorded'
  BY <1>2 DEF PerformedIsRecorded, Busy
<1>5. RecordedHappened'
  <2> SUFFICES ASSUME NEW n \in Managers PROVE WhatHappened(n)'
    BY DEF RecordedHappened
  <2>1. CASE n = m
    BY <1>2, <2>1 DEF WhatHappened, Busy
  <2>2. CASE n # m
    BY <1>2, <2>2 DEF RecordedHappened, WhatHappened, RecordedOutcome, Recorded,
                      Listed, FinalPhase
  <2> QED BY <2>1, <2>2
<1>6. ResultsTruthful'
  <2>1. PICK c \in claims : c.uid = mem[m].uid /\ c.actions = mem[m].actions
    BY DEF BusyHoldsClaim, Busy
  <2>2. /\ Recorded(results[m]) = Listed(mem[m].actions)
        /\ mem[m].results = results[m]
        /\ mem[m].phase = FinalPhase(results[m])
        /\ \A i \in Recorded(results[m]) : RecordedOutcome(m, i)
    BY DEF RecordedHappened, WhatHappened, Busy
  <2>3. Recorded(plan'.results) = Listed(c.actions)
    BY <1>1, <2>1, <2>2
  <2>4. \A i \in Listed(c.actions) :
          IF c.actions[i].skip THEN plan'.results[i] = "skipped"
          ELSE \E k \in DOMAIN log : /\ log[k].uid = plan'.uid
                                     /\ log[k].id = i
                                     /\ log[k].outcome = plan'.results[i]
    BY <1>1, <2>1, <2>2 DEF RecordedOutcome
  <2>5. plan'.phase = "failed" <=> \E i \in Ids : plan'.results[i] = "failed"
    BY <1>1, <2>2 DEF FinalPhase
  <2> QED BY <1>1, <2>1, <2>3, <2>4, <2>5 DEF ResultsTruthful, Recorded, Listed
<1> QED BY <1>3, <1>4, <1>5, <1>6

\* A round of the loop that skips: only the results of m change.
LEMMA SkipActionKeepsLog ==
  ASSUME TypeOK, ClaimInv, LogInv, NEW m \in Managers, SkipAction(m)
  PROVE  LogInv'
<1> USE DEF LogInv, ClaimInv
<1> DEFINE i == Next1(m)
<1>1. /\ pc[m] = "executing" /\ i \in Listed(mem[m].actions) /\ i \in Ids
      /\ results[m][i] = "none" /\ mem[m].actions[i].skip
  BY NextRemains DEF SkipAction, Skipped, Remaining, Listed, Recorded
<1>2. /\ results'[m] = [results[m] EXCEPT ![i] = "skipped"]
      /\ \A n \in Managers : n # m => results'[n] = results[n]
      /\ UNCHANGED <<plan, pc, mem, log, claims>>
      /\ results[m] \in [Ids -> Outcomes \cup {"none"}]
  BY DEF SkipAction, Record, TypeOK, history, ResultMaps
<1> HIDE DEF i
<1>3. PerformedIsRecorded'
  BY <1>1, <1>2 DEF PerformedIsRecorded, OnlyApprovedActions, Busy, Listed
<1>4. RecordedHappened'
  <2> SUFFICES ASSUME NEW n \in Managers PROVE WhatHappened(n)'
    BY DEF RecordedHappened
  <2>1. CASE n = m
    <3>1. \A j \in Recorded(results'[m]) :
            j \in Listed(mem[m].actions) /\ RecordedOutcome(m, j)'
      BY <1>1, <1>2 DEF RecordedHappened, WhatHappened, RecordedOutcome, Recorded, Busy
    <3> QED BY <1>1, <1>2, <2>1, <3>1 DEF WhatHappened, Recorded, Listed
  <2>2. CASE n # m
    BY <1>2, <2>2 DEF RecordedHappened, WhatHappened, RecordedOutcome, Recorded,
                      Listed, FinalPhase
  <2> QED BY <2>1, <2>2
<1> QED BY <1>2, <1>3, <1>4 DEF OnlyApprovedActions, ActionsPerformedOnce,
                                ResultsTruthful, Recorded, Listed

\* A round of the loop that acts: the action was claimed, and not performed.
LEMMA ExecuteActionKeepsLog ==
  ASSUME TypeOK, TypeOK', ClaimInv, LogInv, NEW m \in Managers,
         NEW outcome \in {"success", "failed"}, ExecuteAction(m, outcome)
  PROVE  LogInv'
<1> USE DEF LogInv, ClaimInv
<1>0. PICK i \in Ids : i = Next1(m) /\ i \in Remaining(m)
  BY NextRemains DEF ExecuteAction, Remaining, Listed
<1> DEFINE e == [uid |-> mem[m].uid, id |-> i, mgr |-> m,
                 action |-> mem[m].actions[i], outcome |-> outcome]
           new == Len(log) + 1
<1>1. /\ pc[m] = "executing" /\ i \in Listed(mem[m].actions) /\ i \in Ids
      /\ results[m][i] = "none" /\ ~mem[m].actions[i].skip
  BY <1>0 DEF ExecuteAction, Skipped, Remaining, Listed, Recorded
<1>2. /\ results'[m] = [results[m] EXCEPT ![i] = outcome]
      /\ \A n \in Managers : n # m => results'[n] = results[n]
      /\ UNCHANGED <<plan, pc, mem, claims>>
      /\ results[m] \in [Ids -> Outcomes \cup {"none"}]
  BY <1>0 DEF ExecuteAction, Record, TypeOK, ResultMaps
<1>3. /\ DOMAIN log' = DOMAIN log \cup {new} /\ new \notin DOMAIN log
      /\ log'[new] = e /\ \A k \in DOMAIN log : log'[k] = log[k]
  <2>1. log \in Seq(LogEntry) /\ log' = Append(log, e)
    BY <1>0 DEF ExecuteAction, TypeOK
  <2>2. e \in LogEntry
    <3>1. mem[m].uid \in Nat /\ mem[m].actions \in [Ids -> PlanAction]
      BY DEF TypeOK, Objects, ActionMaps
    <3> QED BY <1>1, <3>1 DEF LogEntry
  <2> HIDE DEF e
  <2> QED BY <2>1, <2>2
<1>4. e.uid = mem[m].uid /\ e.id = i /\ e.mgr = m /\ e.outcome = outcome
      /\ e.action = mem[m].actions[i]
  OBVIOUS
<1> HIDE DEF e, new
<1>5. OnlyApprovedActions'
  <2>1. PICK c \in claims : /\ c.uid = mem[m].uid /\ c.mgr = m /\ c.approved
                            /\ c.actions = mem[m].actions
    BY <1>1 DEF BusyHoldsClaim, Busy
  <2> QED BY <1>1, <1>2, <1>3, <1>4, <2>1 DEF OnlyApprovedActions
<1>6. \A k \in DOMAIN log : log[k].uid = mem[m].uid => log[k].id # i
  BY <1>1 DEF PerformedIsRecorded, Busy
<1>7. ActionsPerformedOnce'
  BY <1>3, <1>4, <1>6 DEF ActionsPerformedOnce
<1>8. PerformedIsRecorded'
  <2> SUFFICES ASSUME NEW n \in Managers, pc[n] \in Busy, NEW k \in DOMAIN log',
                      log'[k].uid = mem[n].uid
               PROVE  results'[n][log'[k].id] # "none"
    BY <1>2 DEF PerformedIsRecorded
  <2>1. CASE k = new
    <3>1. n = m
      BY <1>1, <1>3, <1>4, <2>1, BusyAlone DEF Busy
    <3> QED BY <1>1, <1>2, <1>3, <1>4, <2>1, <3>1
  <2>2. CASE k \in DOMAIN log
    <3>1. results[n][log[k].id] # "none" /\ log'[k] = log[k]
      BY <1>3, <2>2 DEF PerformedIsRecorded
    <3>2. log[k].id \in Ids
      <4>1. log[k] \in LogEntry
        BY <2>2 DEF TypeOK
      <4> QED BY <4>1 DEF LogEntry
    <3> QED BY <1>2, <3>1, <3>2
  <2> QED BY <1>3, <2>1, <2>2
<1>9. RecordedHappened'
  <2> SUFFICES ASSUME NEW n \in Managers PROVE WhatHappened(n)'
    BY DEF RecordedHappened
  <2>1. \A j \in Ids : results'[n][j] = results[n][j] /\ RecordedOutcome(n, j) =>
          RecordedOutcome(n, j)'
    BY <1>2, <1>3 DEF RecordedOutcome
  <2>2. CASE n = m
    <3>1. RecordedOutcome(m, i)'
      <4>1. /\ results'[m][i] = outcome /\ mem'[m] = mem[m]
            /\ new \in DOMAIN log' /\ log'[new] = e
        BY <1>1, <1>2, <1>3
      <4> QED BY <1>1, <1>4, <4>1 DEF RecordedOutcome
    <3>2. \A j \in Recorded(results'[m]) :
            j \in Listed(mem[m].actions) /\ RecordedOutcome(m, j)'
      <4> SUFFICES ASSUME NEW j \in Ids, results'[m][j] # "none", j # i
                   PROVE  j \in Listed(mem[m].actions) /\ RecordedOutcome(m, j)'
        BY <1>1, <3>1 DEF Recorded
      <4>1. results'[m][j] = results[m][j]
        BY <1>2
      <4>2. j \in Listed(mem[m].actions) /\ RecordedOutcome(m, j)
        BY <1>1, <4>1 DEF RecordedHappened, WhatHappened, Recorded, Busy
      <4> QED BY <2>1, <2>2, <4>1, <4>2
    <3> QED BY <1>1, <1>2, <2>2, <3>2 DEF WhatHappened, Recorded, Listed
  <2>3. CASE n # m
    BY <1>2, <2>1, <2>3 DEF RecordedHappened, WhatHappened, Recorded, Listed, FinalPhase
  <2> QED BY <2>2, <2>3
<1>10. ResultsTruthful'
  <2> SUFFICES ASSUME plan.phase \in Terminal PROVE ResultsTruthful'
    BY <1>2 DEF ResultsTruthful
  <2>2. PICK c \in claims :
          /\ c.uid = plan.uid
          /\ Recorded(plan.results) = Listed(c.actions)
          /\ \A j \in Listed(c.actions) :
               IF c.actions[j].skip THEN plan.results[j] = "skipped"
               ELSE \E k \in DOMAIN log : /\ log[k].uid = plan.uid
                                          /\ log[k].id = j
                                          /\ log[k].outcome = plan.results[j]
          /\ plan.phase = "failed" <=> \E j \in Ids : plan.results[j] = "failed"
    BY DEF ResultsTruthful
  <2>3. \A j \in Listed(c.actions) :
          IF c.actions[j].skip THEN plan.results[j] = "skipped"
          ELSE \E k \in DOMAIN log' : /\ log'[k].uid = plan.uid
                                      /\ log'[k].id = j
                                      /\ log'[k].outcome = plan.results[j]
    <3> SUFFICES ASSUME NEW j \in Listed(c.actions), ~c.actions[j].skip
                 PROVE  \E k \in DOMAIN log' : /\ log'[k].uid = plan.uid
                                               /\ log'[k].id = j
                                               /\ log'[k].outcome = plan.results[j]
      BY <2>2
    <3>1. PICK k \in DOMAIN log : /\ log[k].uid = plan.uid /\ log[k].id = j
                                  /\ log[k].outcome = plan.results[j]
      BY <2>2
    <3> QED BY <1>3, <3>1
  <2> QED BY <1>2, <2>2, <2>3 DEF ResultsTruthful, Recorded, Listed
<1> QED BY <1>5, <1>7, <1>8, <1>9, <1>10

\* The end of the loop: every action has its result.
LEMMA ConcludeKeepsLog ==
  ASSUME TypeOK, ClaimInv, LogInv, NEW m \in Managers, Conclude(m)
  PROVE  LogInv'
<1> USE DEF LogInv, ClaimInv
<1>1. /\ pc[m] = "executing" /\ pc'[m] = "finishing"
      /\ mem'[m] = [mem[m] EXCEPT !.phase = FinalPhase(results[m]),
                                  !.results = results[m]]
      /\ Listed(mem[m].actions) \subseteq Recorded(results[m])
      /\ \A n \in Managers : n # m => pc'[n] = pc[n] /\ mem'[n] = mem[n]
      /\ UNCHANGED <<plan, results, log, claims>>
  BY DEF Conclude, Remaining, TypeOK, history
<1>2. /\ mem'[m].uid = mem[m].uid /\ mem'[m].actions = mem[m].actions
      /\ mem'[m].results = results[m] /\ mem'[m].phase = FinalPhase(results[m])
  BY <1>1 DEF TypeOK, Objects
<1>3. PerformedIsRecorded'
  <2> SUFFICES ASSUME NEW n \in Managers, pc'[n] \in Busy, NEW k \in DOMAIN log,
                      log[k].uid = mem'[n].uid
               PROVE  results[n][log[k].id] # "none"
    BY <1>1 DEF PerformedIsRecorded
  <2>1. pc[n] \in Busy /\ mem'[n].uid = mem[n].uid
    BY <1>1, <1>2 DEF Busy
  <2> QED BY <2>1 DEF PerformedIsRecorded
<1>4. RecordedHappened'
  <2> SUFFICES ASSUME NEW n \in Managers PROVE WhatHappened(n)'
    BY DEF RecordedHappened
  <2>1. CASE n = m
    <3>1. Recorded(results[m]) = Listed(mem[m].actions)
      BY <1>1 DEF RecordedHappened, WhatHappened, Busy
    <3>2. \A j \in Recorded(results[m]) :
            j \in Listed(mem[m].actions) /\ RecordedOutcome(m, j)'
      BY <1>1, <1>2 DEF RecordedHappened, WhatHappened, RecordedOutcome, Busy
    <3>3. /\ Recorded(results[m])' = Recorded(results[m])
          /\ Listed(mem[m].actions)' = Listed(mem[m].actions)
          /\ FinalPhase(results[m])' = FinalPhase(results[m])
      BY <1>1, <1>2 DEF Recorded, Listed, FinalPhase
    <3> QED BY <1>1, <1>2, <2>1, <3>1, <3>2, <3>3 DEF WhatHappened
  <2>2. CASE n # m
    BY <1>1, <2>2 DEF RecordedHappened, WhatHappened, RecordedOutcome, Recorded,
                      Listed, FinalPhase
  <2> QED BY <2>1, <2>2
<1> QED BY <1>1, <1>3, <1>4 DEF OnlyApprovedActions, ActionsPerformedOnce,
                                ResultsTruthful, Recorded, Listed

\* Every step of the specification keeps what is known of the log.
LEMMA LogStep ==
  ASSUME TypeOK, TypeOK', ClaimInv, LogInv, [Next]_vars
  PROVE  LogInv'
<1> USE DEF exec, history
<1>1. ASSUME NEW ai \in AIAnswers, NEW auto \in AutoApproveSettings,
             Propose(ai, auto)
      PROVE  LogInv'
  BY <1>1, NothingPerformed DEF Propose
<1>2. CASE CreatePlan
  <2>1. plan'.phase \notin Terminal
    BY <1>2 DEF CreatePlan, Store, Terminal
  <2> QED BY <1>2, <2>1, NothingPerformed DEF CreatePlan
<1>3. CASE ReplacePlan
  BY <1>3, NothingPerformed, WriteSpecEffect DEF ReplacePlan
<1>4. CASE ProposalRejected
  BY <1>4, NothingPerformed DEF ProposalRejected
<1>5. ASSUME NEW b \in BOOLEAN, UserApproves(b) PROVE LogInv'
  BY <1>5, NothingPerformed, WriteSpecEffect DEF UserApproves
<1>6. ASSUME NEW i \in Ids, NEW b \in BOOLEAN, UserSkips(i, b) PROVE LogInv'
  BY <1>6, NothingPerformed, WriteSpecEffect DEF UserSkips, history
<1>7. CASE UserDeletes
  <2>1. plan'.phase \notin Terminal
    BY <1>7 DEF UserDeletes, NoPlan, Terminal
  <2> QED BY <1>7, <2>1, NothingPerformed DEF UserDeletes
<1>8. ASSUME NEW p \in Procs, Observe(p) PROVE LogInv'
  BY <1>8, NothingPerformed DEF Observe
<1>9. ASSUME NEW m \in Managers, ReconcileSkips(m) PROVE LogInv'
  BY <1>9, NothingPerformed DEF ReconcileSkips
<1>10. ASSUME NEW m \in Managers, ReconcileClaims(m) PROVE LogInv'
  <2>1. /\ pc'[m] = "marking" /\ results'[m] = NoResults
        /\ \A n \in Managers \ {m} : /\ pc'[n] = pc[n] /\ mem'[n] = mem[n]
                                     /\ results'[n] = results[n]
        /\ UNCHANGED <<plan, log, claims>>
    BY <1>10 DEF ReconcileClaims, TypeOK, LogInv, RecordedHappened, WhatHappened
  <2> QED BY <2>1, NothingPerformed DEF Busy
<1>11. ASSUME NEW m \in Managers, MarkRunning(m) PROVE LogInv'
  BY <1>11, MarkRunningKeepsLog
<1>12. ASSUME NEW m \in Managers, UpdateRejected(m) PROVE LogInv'
  <2>1. /\ pc'[m] = "idle" /\ results'[m] = NoResults
        /\ \A n \in Managers \ {m} : /\ pc'[n] = pc[n] /\ mem'[n] = mem[n]
                                     /\ results'[n] = results[n]
        /\ UNCHANGED <<plan, log, claims>>
    BY <1>12 DEF UpdateRejected, Requeue, TypeOK
  <2> QED BY <2>1, NothingPerformed DEF Busy
<1>13. ASSUME NEW m \in Managers, UpdateReplyLost(m) PROVE LogInv'
  <2>1. CASE pc[m] = "marking"
    <3>1. /\ pc'[m] = "idle" /\ results'[m] = NoResults
          /\ \A n \in Managers \ {m} : /\ pc'[n] = pc[n] /\ mem'[n] = mem[n]
                                       /\ results'[n] = results[n]
          /\ UNCHANGED <<log, claims>>
      BY <1>13 DEF UpdateReplyLost, Requeue, TypeOK
    <3>2. plan'.phase \notin Terminal
      <4>1. mem[m] \in Objects /\ mem[m].phase = "running"
        BY <1>13, <2>1 DEF UpdateReplyLost, Current, ClaimInv, CopiesCurrent,
                           TypeOK, Objects
      <4> QED BY <1>13, <4>1, WriteStatusEffect DEF UpdateReplyLost, Terminal
    <3> QED BY <3>1, <3>2, NothingPerformed DEF Busy
  <2>2. CASE pc[m] = "finishing"
    BY <1>13, <2>2, FinalUpdateKeepsLog DEF UpdateReplyLost, Requeue
  <2> QED BY <1>13, <2>1, <2>2 DEF UpdateReplyLost
<1>14. ASSUME NEW m \in Managers, SkipAction(m) PROVE LogInv'
  BY <1>14, SkipActionKeepsLog
<1>15. ASSUME NEW m \in Managers, NEW outcome \in {"success", "failed"},
              ExecuteAction(m, outcome)
       PROVE  LogInv'
  BY <1>15, ExecuteActionKeepsLog
<1>16. ASSUME NEW m \in Managers, Conclude(m) PROVE LogInv'
  BY <1>16, ConcludeKeepsLog
<1>17. ASSUME NEW m \in Managers, Finish(m) PROVE LogInv'
  BY <1>17, FinalUpdateKeepsLog DEF Finish
<1>18. ASSUME NEW m \in Managers, Crash(m) PROVE LogInv'
  <2>1. /\ pc'[m] = "down" /\ results'[m] = NoResults
        /\ \A n \in Managers \ {m} : /\ pc'[n] = pc[n] /\ mem'[n] = mem[n]
                                     /\ results'[n] = results[n]
        /\ UNCHANGED <<plan, log, claims>>
    BY <1>18 DEF Crash, TypeOK
  <2> QED BY <2>1, NothingPerformed DEF Busy
<1>19. ASSUME NEW m \in Managers, Start(m) PROVE LogInv'
  <2>1. /\ pc'[m] = "idle" /\ results'[m] = NoResults
        /\ \A n \in Managers \ {m} : /\ pc'[n] = pc[n] /\ mem'[n] = mem[n]
                                     /\ results'[n] = results[n]
        /\ UNCHANGED <<plan, log, claims>>
    BY <1>19 DEF Start, TypeOK, LogInv, RecordedHappened, WhatHappened
  <2> QED BY <2>1, NothingPerformed DEF Busy
<1>20. CASE UNCHANGED vars
  BY <1>20, NothingPerformed DEF vars
<1> QED BY <1>1, <1>2, <1>3, <1>4, <1>5, <1>6, <1>7, <1>8, <1>9, <1>10, <1>11,
           <1>12, <1>13, <1>14, <1>15, <1>16, <1>17, <1>18, <1>19, <1>20
        DEF Next, Operator, User, Reconcile

-----------------------------------------------------------------------------
(* What was proposed.                                                      *)

\* A risk level counts at least one, any other string counts nothing.
LEMMA RiskOrderRange ==
  /\ \A risk : RiskOrder(risk) \in 0 .. 3
  /\ \A risk \in RiskLevels : RiskOrder(risk) \in 1 .. 3
BY DEF RiskOrder, RiskLevels

\* The filter of createRemediationPlan keeps actions up to maxRiskLevel.
LEMMA PlanActionsFiltered ==
  ASSUME NEW ai \in AIAnswers, NEW i \in Listed(PlanActions(ai))
  PROVE  RiskOrder(PlanActions(ai)[i].risk) <= RiskOrder(EffectiveMax)
<1>1. i \in Ids /\ i \in Kept(ai)
  BY DEF Listed, PlanActions, NoAction
<1>2. PlanActions(ai)[i].risk = ai[i].risk
  BY <1>1 DEF PlanActions
<1> QED BY <1>1, <1>2 DEF Kept, RiskWithin

\* An empty list has no action above the level.
LEMMA NothingListed == Listed(NoActions) = {} /\ Listed(NoPlan.actions) = {}
BY DEF Listed, NoActions, NoAction, NoPlan

\* A step that leaves both lists, or empties them, keeps the filter.
LEMMA ListsKept ==
  ASSUME RiskInv, plan'.actions \in {plan.actions, NoPlan.actions},
         op'.actions \in {op.actions, NoActions}
  PROVE  RiskInv'
BY NothingListed DEF RiskInv, ProposalFiltered, WithinMaxRisk, Listed, EffectiveMax

\* Every step of the specification keeps the filter.
LEMMA RiskStep ==
  ASSUME TypeOK, RiskInv, [Next]_vars
  PROVE  RiskInv'
<1> USE DEF exec, history
<1>0. OpIdle.actions = NoActions
  BY DEF OpIdle
<1>1. ASSUME NEW ai \in AIAnswers, NEW auto \in AutoApproveSettings,
             Propose(ai, auto)
      PROVE  RiskInv'
  <2>1. op'.actions = PlanActions(ai) /\ plan' = plan
    BY <1>1 DEF Propose
  <2> QED BY <2>1, PlanActionsFiltered
          DEF RiskInv, ProposalFiltered, WithinMaxRisk, Listed, EffectiveMax
<1>2. ASSUME CreatePlan \/ ReplacePlan PROVE RiskInv'
  <2>1. /\ op'.actions = NoActions /\ Valid(op.actions)
        /\ plan'.actions = op.actions
    BY <1>0, <1>2 DEF CreatePlan, CanCreate, ReplacePlan, CanReplace, WriteSpec,
                      Store, TypeOK, Objects
  <2>2. \A i \in Listed(op.actions) :
          RiskOrder(op.actions[i].risk) \in 1 .. RiskOrder(EffectiveMax)
    BY <2>1, RiskOrderRange DEF Valid, RiskInv, ProposalFiltered
  <2> QED BY <2>1, <2>2, NothingListed
          DEF RiskInv, ProposalFiltered, WithinMaxRisk, Listed, EffectiveMax
<1>3. CASE ProposalRejected
  BY <1>0, <1>3, ListsKept DEF ProposalRejected
<1>4. ASSUME NEW b \in BOOLEAN, UserApproves(b) PROVE RiskInv'
  <2>1. plan'.actions = plan.actions /\ op' = op
    BY <1>4 DEF UserApproves, WriteSpec, Store, TypeOK, Objects
  <2> QED BY <2>1, ListsKept
<1>5. ASSUME NEW i \in Ids, NEW b \in BOOLEAN, UserSkips(i, b) PROVE RiskInv'
  <2>1. plan'.actions = [plan.actions EXCEPT ![i].skip = b] /\ op' = op
    BY <1>5 DEF UserSkips, WriteSpec, Store, TypeOK, Objects
  <2>2. \A j \in Ids : /\ plan'.actions[j].type = plan.actions[j].type
                       /\ plan'.actions[j].risk = plan.actions[j].risk
    BY <2>1 DEF TypeOK, Objects, ActionMaps, PlanAction
  <2> QED BY <2>1, <2>2
          DEF RiskInv, ProposalFiltered, WithinMaxRisk, Listed, EffectiveMax
<1>6. CASE UserDeletes
  BY <1>6, ListsKept DEF UserDeletes
<1>7. ASSUME NEW m \in Managers,
             MarkRunning(m) \/ UpdateReplyLost(m) \/ Finish(m)
      PROVE  RiskInv'
  <2>1. WriteStatus(mem[m]) /\ op' = op /\ mem[m] \in Objects
    BY <1>7 DEF MarkRunning, UpdateReplyLost, Finish, TypeOK
  <2> QED BY <2>1, WriteStatusEffect, ListsKept
<1>8. ASSUME UNCHANGED <<plan, op>> PROVE RiskInv'
  BY <1>8, ListsKept
<1> QED BY <1>1, <1>2, <1>3, <1>4, <1>5, <1>6, <1>7, <1>8
        DEF Next, Operator, User, Reconcile, Observe, ReconcileSkips,
            ReconcileClaims, UpdateRejected, SkipAction, ExecuteAction, Conclude,
            Crash, Start, vars

-----------------------------------------------------------------------------
(* The theorems.                                                           *)

\* The strengthening is an invariant: it holds when the plan does not exist
\* yet, and every step of every actor keeps it.
THEOREM InductiveInvariance == Spec => []IInv
<1>1. Init => IInv
  <2> SUFFICES ASSUME Init PROVE IInv
    OBVIOUS
  <2>1. TypeOK
    BY NoneTypes DEF Init, TypeOK, OpIdle, Budget
  <2>2. ~Exists(plan) /\ plan.phase = ""
    BY DEF Init, Exists, NoPlan
  <2>3. Versions
    <3>1. NoPlan.uid = 0 /\ NoPlan.rv = 0
      BY DEF NoPlan
    <3>2. /\ \A p \in Procs : cache[p] = NoPlan
          /\ \A m \in Managers : mem[m] = NoPlan
          /\ op.base = NoPlan /\ plan = NoPlan /\ rev = 0
      BY DEF Init, OpIdle
    <3>3. /\ \A p \in Procs : cache[p].rv <= rev /\ cache[p].uid <= rev
          /\ \A m \in Managers : mem[m].rv <= rev /\ mem[m].uid <= rev
          /\ op.base.rv <= rev /\ plan.rv <= rev /\ plan.uid <= rev
      BY <3>1, <3>2
    <3> QED BY <2>2, <3>3 DEF Versions
  <2>4. ClaimInv
    BY <2>2, <2>3 DEF ClaimInv, CopiesCurrent, BusyOnRunning, CopyPhases, Busy,
         ClaimedIsTaken, AtMostOneExecution, BusyHoldsClaim, Init
  <2>5. LogInv
    <3>1. /\ DOMAIN log = {}
          /\ \A m \in Managers : pc[m] = "idle" /\ results[m] = NoResults
      BY DEF Init
    <3> QED BY <2>2, <3>1 DEF LogInv, OnlyApprovedActions, PerformedIsRecorded,
         Terminal, ActionsPerformedOnce, RecordedHappened, WhatHappened, Busy,
         ResultsTruthful
  <2>6. RiskInv
    BY NothingListed DEF RiskInv, ProposalFiltered, WithinMaxRisk, Init, OpIdle
  <2> QED BY <2>1, <2>4, <2>5, <2>6 DEF IInv
<1>2. TypeOK' /\ IInv /\ [Next]_vars => IInv'
  BY ClaimStep, LogStep, RiskStep DEF IInv
<1> QED BY <1>1, <1>2, TypeInvariance, PTL DEF Spec

\* A plan object is executed at most once, by one manager.
THEOREM ExecutedAtMostOnce == Spec => []AtMostOneExecution
<1>1. IInv => AtMostOneExecution
  BY DEF IInv, ClaimInv
<1> QED BY <1>1, InductiveInvariance, PTL

\* No action of a plan is performed twice.
THEOREM PerformedOnce == Spec => []ActionsPerformedOnce
<1>1. IInv => ActionsPerformedOnce
  BY DEF IInv, LogInv
<1> QED BY <1>1, InductiveInvariance, PTL

\* Only what the stored object approved, unskipped, when it was claimed.
THEOREM PerformedIsApproved == Spec => []OnlyApprovedActions
<1>1. IInv => OnlyApprovedActions
  BY DEF IInv, LogInv
<1> QED BY <1>1, InductiveInvariance, PTL

\* The results of a concluded plan are the outcomes of its execution.
THEOREM ResultsAreTruthful == Spec => []ResultsTruthful
<1>1. IInv => ResultsTruthful
  BY DEF IInv, LogInv
<1> QED BY <1>1, InductiveInvariance, PTL

\* Stored actions never exceed maxRiskLevel.
THEOREM StoredWithinMaxRisk == Spec => []WithinMaxRisk
<1>1. IInv => WithinMaxRisk
  BY DEF IInv, RiskInv
<1> QED BY <1>1, InductiveInvariance, PTL

\* What a write of the status by manager m does to the phase.
LEMMA StatusWritePhase ==
  ASSUME IInv, NEW m \in Managers, pc[m] \in {"marking", "finishing"},
         Current(mem[m]), WriteStatus(mem[m])
  PROVE  \/ plan.phase = "" /\ plan'.phase = "running"
         \/ plan.phase = "running" /\ plan'.phase \in Terminal
<1> USE DEF IInv, ClaimInv, LogInv
<1>1. mem[m] \in Objects /\ plan \in Objects
  BY DEF TypeOK
<1>2. plan'.phase = mem[m].phase
  BY <1>1, WriteStatusEffect
<1>3. CASE pc[m] = "marking"
  <2>1. Runnable(plan) /\ mem[m] = [plan EXCEPT !.phase = "running"]
    BY <1>3 DEF CopiesCurrent, Current
  <2>2. mem[m].phase = "running"
    BY <1>1, <2>1 DEF Objects
  <2>3. plan.phase = ""
    BY <1>1, <2>1 DEF Versions, Runnable, Objects, Phases, Terminal
  <2> QED BY <1>2, <2>2, <2>3
<1>4. CASE pc[m] = "finishing"
  <2>1. plan.phase = "running"
    BY <1>4 DEF BusyOnRunning, Current, Busy
  <2>2. mem[m].phase \in Terminal
    BY <1>4 DEF RecordedHappened, WhatHappened, FinalPhase, Terminal
  <2> QED BY <1>2, <2>1, <2>2
<1> QED BY <1>3, <1>4

\* No write of a stale copy takes the phase of an object back.
THEOREM PhaseMovesForward == Spec => PhaseForward
<1>1. IInv /\ [Next]_vars =>
        [Exists(plan) /\ plan'.uid = plan.uid /\ plan'.phase # plan.phase =>
           \/ plan.phase = "" /\ plan'.phase = "running"
           \/ plan.phase = "running" /\ plan'.phase \in Terminal]_vars
  <2> SUFFICES ASSUME IInv, [Next]_vars, Exists(plan), plan'.uid = plan.uid,
                      plan'.phase # plan.phase
               PROVE  \/ plan.phase = "" /\ plan'.phase = "running"
                      \/ plan.phase = "running" /\ plan'.phase \in Terminal
    OBVIOUS
  <2>0. TypeOK
    BY DEF IInv
  <2>1. ~CreatePlan /\ ~UserDeletes
    <3>1. NoPlan.uid = 0
      BY DEF NoPlan
    <3> QED BY <3>1 DEF CreatePlan, CanCreate, UserDeletes, Exists
  <2>2. ~ReplacePlan /\ (\A b \in BOOLEAN : ~UserApproves(b))
        /\ (\A i \in Ids, b \in BOOLEAN : ~UserSkips(i, b))
    BY <2>0, WriteSpecEffect DEF ReplacePlan, UserApproves, UserSkips
  <2>3. PICK m \in Managers : MarkRunning(m) \/ UpdateReplyLost(m) \/ Finish(m)
    BY <2>1, <2>2 DEF Next, Operator, User, Reconcile, vars, Propose,
       ProposalRejected, Observe, ReconcileSkips, ReconcileClaims,
       UpdateRejected, SkipAction, ExecuteAction, Conclude, Crash, Start
  <2> QED BY <2>3, StatusWritePhase DEF MarkRunning, UpdateReplyLost, Finish
<1> QED BY <1>1, InductiveInvariance, PTL DEF Spec, PhaseForward

\* The steps that touch the log are those that perform an action.
LEMMA PerformingStep ==
  ASSUME IInv, [Next]_vars, log' # log
  PROVE  \E m \in Managers, outcome \in {"success", "failed"} :
           ExecuteAction(m, outcome)
BY DEF Next, Operator, User, Reconcile, vars, history, Propose, CreatePlan,
   ReplacePlan, ProposalRejected, UserApproves, UserSkips, UserDeletes, Observe,
   ReconcileSkips, ReconcileClaims, MarkRunning, UpdateRejected, UpdateReplyLost,
   SkipAction, Conclude, Finish, Crash, Start

\* Actions are performed only while the object, if it is there, says running.
THEOREM PerformsWhileRunning == Spec => PerformedWhileRunning
<1>1. IInv /\ [Next]_vars =>
        [\A k \in DOMAIN log' \ DOMAIN log :
           log'[k].uid = plan.uid => plan.phase = "running"]_vars
  <2> SUFFICES ASSUME IInv, [Next]_vars, NEW k \in DOMAIN log' \ DOMAIN log,
                      log'[k].uid = plan.uid
               PROVE  plan.phase = "running"
    OBVIOUS
  <2>1. PICK m \in Managers, outcome \in {"success", "failed"} :
          ExecuteAction(m, outcome)
    BY PerformingStep
  <2>2. PICK e : log' = Append(log, e) /\ e.uid = mem[m].uid
    BY <2>1 DEF ExecuteAction
  <2>3. log \in Seq(LogEntry)
    BY DEF IInv, TypeOK
  <2>4. log'[k] = e
    BY <2>2, <2>3
  <2> QED BY <2>1, <2>2, <2>4 DEF ExecuteAction, IInv, ClaimInv, BusyOnRunning, Busy
<1> QED BY <1>1, InductiveInvariance, PTL DEF Spec, PerformedWhileRunning

-----------------------------------------------------------------------------
(* Refinement of ApprovedExecution.                                        *)

promised == [uid |-> plan.uid, approved |-> plan.approved,
             actions |-> plan.actions]

\* The approval of an object holds for its list of actions.
KeepsApprovedList ==
  plan'.uid = plan.uid =>
    \/ ~plan'.approved
    \/ Promise!Unskipped(plan'.actions) = Promise!Unskipped(plan.actions)

\* A step that performs and claims nothing is an edit of the promise's spec:
\* the object keeps its identity and its approved list, goes away, or is new.
LEMMA EditStep ==
  ASSUME IInv, UNCHANGED <<claims, log>>, plan'.uid \in {plan.uid, 0, rev + 1},
         KeepsApprovedList
  PROVE  Promise!Edit
<1>1. \A c \in claims : c.uid # 0 /\ c.uid # rev + 1
  BY Numbers DEF IInv, ClaimInv, ClaimedIsTaken
<1>2. \/ plan'.uid = plan.uid
      \/ plan'.uid # plan.uid /\ ~Promise!Claimed(plan'.uid)
  BY <1>1 DEF Promise!Claimed
<1>3. CASE plan'.uid = plan.uid
  BY <1>3 DEF Promise!Edit, KeepsApprovedList
<1>4. CASE ~Promise!Claimed(plan'.uid)
  BY <1>4 DEF Promise!Edit, Promise!Claimed
<1> QED BY <1>2, <1>3, <1>4

\* A write of the spec brings the approval and the list it was given.
LEMMA WrittenSpec ==
  ASSUME TypeOK, NEW b, NEW acts, WriteSpec(b, acts)
  PROVE  \/ UNCHANGED <<plan, rev>>
         \/ plan'.approved = b /\ plan'.actions = acts
BY DEF WriteSpec, Store, TypeOK, Objects

\* The user's write of an approval, or of a flag, keeps the list.
LEMMA UserKeepsList ==
  ASSUME TypeOK, NEW b \in BOOLEAN,
         UserApproves(b) \/ \E i \in Ids : UserSkips(i, b)
  PROVE  KeepsApprovedList
<1>1. CASE UserApproves(b)
  <2>1. plan'.actions = plan.actions
    BY <1>1, WrittenSpec DEF UserApproves
  <2> QED BY <2>1 DEF KeepsApprovedList
<1>2. ASSUME NEW i \in Ids, UserSkips(i, b) PROVE KeepsApprovedList
  <2>1. plan.actions \in ActionMaps
    BY DEF TypeOK, Objects
  <2> DEFINE acts == [plan.actions EXCEPT ![i].skip = b]
  <2>2. Promise!Unskipped(acts) = Promise!Unskipped(plan.actions)
    <3>1. DOMAIN acts = Ids /\ DOMAIN plan.actions = Ids
      BY <2>1 DEF ActionMaps
    <3>2. \A j \in Ids : [acts[j] EXCEPT !.skip = FALSE]
                           = [plan.actions[j] EXCEPT !.skip = FALSE]
      BY <2>1 DEF ActionMaps, PlanAction
    <3> HIDE DEF acts
    <3> QED BY <3>1, <3>2 DEF Promise!Unskipped
  <2>3. plan'.actions = plan.actions \/ plan'.actions = acts
    BY <1>2, WrittenSpec DEF UserSkips
  <2> HIDE DEF acts
  <2> QED BY <2>2, <2>3 DEF KeepsApprovedList
<1> QED BY <1>1, <1>2

\* Marking the plan running is the claim of the promise.
LEMMA ClaimingStep ==
  ASSUME IInv, NEW m \in Managers, MarkRunning(m)
  PROVE  \E c \in claims' : Promise!Claim(c)
<1> USE DEF IInv, ClaimInv, Exists
<1>1. /\ pc[m] = "marking" /\ Exists(plan) /\ Runnable(plan)
      /\ mem[m] \in Objects
  BY DEF MarkRunning, Current, CopiesCurrent, TypeOK
<1>2. promised' = promised
  BY <1>1, WriteStatusEffect DEF MarkRunning, promised
<1>3. ~Promise!Claimed(plan.uid)
  BY <1>1 DEF Promise!Claimed, ClaimedIsTaken, Runnable
<1> DEFINE new == [uid |-> plan.uid, rv |-> rev + 1, mgr |-> m,
                   approved |-> plan.approved, actions |-> plan.actions]
<1>4. claims' = claims \cup {new} /\ log' = log
  BY DEF MarkRunning
<1>5. Promise!Claim(new)
  <2>1. /\ new.uid = plan.uid /\ new.approved = plan.approved
        /\ new.actions = plan.actions
    OBVIOUS
  <2>2. plan.uid # 0 /\ plan.approved
    BY <1>1 DEF Runnable
  <2> HIDE DEF new
  <2> QED BY <1>2, <1>3, <1>4, <2>1, <2>2 DEF Promise!Claim, promised
<1> QED BY <1>4, <1>5

\* Performing an action performs one of the promise.
LEMMA ActingStep ==
  ASSUME IInv, TypeOK', NEW m \in Managers, NEW outcome \in {"success", "failed"},
         ExecuteAction(m, outcome)
  PROVE  Promise!Perform(log'[Len(log')])
<1> USE DEF IInv, ClaimInv, LogInv
<1>1. PICK i \in Ids : i = Next1(m) /\ i \in Remaining(m)
  BY NextRemains DEF ExecuteAction, Remaining, Listed
<1>2. /\ pc[m] \in Busy /\ results[m][i] = "none" /\ ~mem[m].actions[i].skip
      /\ UNCHANGED <<plan, claims>>
  BY <1>1 DEF ExecuteAction, Skipped, Remaining, Recorded, Busy
<1>3. PICK e : /\ log' = Append(log, e) /\ e.uid = mem[m].uid /\ e.id = i
               /\ e.action = mem[m].actions[i]
  BY <1>1 DEF ExecuteAction
<1>4. log'[Len(log')] = e
  <2>1. log \in Seq(LogEntry)
    BY DEF TypeOK
  <2> QED BY <1>3, <2>1
<1>5. \E c \in claims : /\ c.uid = e.uid
                       /\ c.actions[e.id] = e.action /\ ~e.action.skip
  BY <1>2, <1>3 DEF BusyHoldsClaim
<1>6. \A k \in DOMAIN log : ~(log[k].uid = e.uid /\ log[k].id = e.id)
  BY <1>2, <1>3 DEF PerformedIsRecorded
<1> QED BY <1>2, <1>3, <1>4, <1>5, <1>6 DEF Promise!Perform

\* RemediationPlan implements ApprovedExecution: caches, versions, conflicts,
\* crashes and retries never show through.
THEOREM ImplementsPromise == Spec => KeepsPromise
<1>1. Init => Promise!Init
  <2>1. NoPlan.uid = 0
    BY DEF NoPlan
  <2> QED BY <2>1 DEF Init, Promise!Init
<1>2. IInv /\ TypeOK' /\ [Next]_vars => [Promise!Next]_Promise!vars
  <2> SUFFICES ASSUME IInv, TypeOK', [Next]_vars
               PROVE  Promise!Next \/ UNCHANGED Promise!vars
    OBVIOUS
  <2>0. TypeOK
    BY DEF IInv
  <2>1. ASSUME NEW m \in Managers, MarkRunning(m) PROVE Promise!Next
    BY <2>1, ClaimingStep DEF Promise!Next
  <2>2. ASSUME NEW m \in Managers, NEW outcome \in {"success", "failed"},
               ExecuteAction(m, outcome)
        PROVE  Promise!Next
    BY <2>2, ActingStep DEF Promise!Next
  <2>3. ASSUME UNCHANGED <<claims, log>>, plan'.uid \in {plan.uid, 0, rev + 1},
               KeepsApprovedList
        PROVE  Promise!Next
    BY <2>3, EditStep DEF Promise!Next
  <2>4. CASE CreatePlan
    <3>1. plan'.uid = rev + 1 /\ UNCHANGED <<claims, log>>
      BY <2>4 DEF CreatePlan, Store, history
    <3>2. plan'.uid # plan.uid
      <4>1. plan.uid = 0
        BY <2>4 DEF CreatePlan, CanCreate, Exists
      <4>2. rev \in Nat
        BY <2>0 DEF TypeOK
      <4> QED BY <3>1, <4>1, <4>2
    <3> QED BY <2>3, <3>1, <3>2 DEF KeepsApprovedList
  <2>5. CASE ReplacePlan
    <3>1. UNCHANGED <<claims, log>> /\ plan'.uid = plan.uid
      BY <2>0, <2>5, WriteSpecEffect DEF ReplacePlan, history
    <3>2. ~plan'.approved \/ plan' = plan
      BY <2>0, <2>5, WrittenSpec DEF ReplacePlan
    <3> QED BY <2>3, <3>1, <3>2 DEF KeepsApprovedList
  <2>6. ASSUME NEW b \in BOOLEAN, UserApproves(b) PROVE Promise!Next
    BY <2>0, <2>3, <2>6, WriteSpecEffect, UserKeepsList DEF UserApproves, history
  <2>7. ASSUME NEW i \in Ids, NEW b \in BOOLEAN, UserSkips(i, b) PROVE Promise!Next
    BY <2>0, <2>3, <2>7, WriteSpecEffect, UserKeepsList DEF UserSkips, history
  <2>8. CASE UserDeletes
    <3>1. plan'.uid = 0 /\ plan.uid # 0 /\ UNCHANGED <<claims, log>>
      BY <2>8 DEF UserDeletes, NoPlan, Exists, history
    <3> QED BY <2>3, <3>1 DEF KeepsApprovedList
  <2>9. ASSUME NEW m \in Managers, UpdateReplyLost(m) \/ Finish(m)
        PROVE  Promise!Next
    <3>1. mem[m] \in Objects
      BY <2>0 DEF TypeOK
    <3>2. plan'.uid = plan.uid /\ plan'.actions = plan.actions
      BY <2>0, <2>9, <3>1, WriteStatusEffect DEF UpdateReplyLost, Finish
    <3> QED BY <2>3, <2>9, <3>2
            DEF UpdateReplyLost, Finish, history, KeepsApprovedList
  <2>10. ASSUME UNCHANGED <<plan, claims, log>> PROVE Promise!Next
    BY <2>3, <2>10 DEF KeepsApprovedList
  <2> QED BY <2>1, <2>2, <2>4, <2>5, <2>6, <2>7, <2>8, <2>9, <2>10
          DEF Next, Operator, User, Reconcile, Propose, ProposalRejected, Observe,
              ReconcileSkips, ReconcileClaims, UpdateRejected, SkipAction,
              Conclude, Crash, Start, vars, history
<1> QED BY <1>1, <1>2, TypeInvariance, InductiveInvariance, PTL
        DEF Spec, KeepsPromise, Promise!Spec

=============================================================================
