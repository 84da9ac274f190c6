--------------------------- MODULE RemediationPlan ---------------------------
(***************************************************************************)
(* The life of one RemediationPlan object, "<analysis>-remediation":       *)
(*                                                                         *)
(*   the API server stores the object (resourceVersion, generation, spec,  *)
(*     status behind the status subresource, enum validation);             *)
(*   every process reads it through an informer cache that may lag;        *)
(*   the operator proposes it from the answers of the AI                   *)
(*     (createRemediationPlan);                                            *)
(*   the user approves it, skips actions of it, or deletes it;             *)
(*   one or more remediation managers (leader election is off by default)  *)
(*     execute it (RemediationPlanReconciler.Reconcile), and may crash and *)
(*     restart between any two of their calls.                             *)
(*                                                                         *)
(* A step is one call to the API server, one call to the cluster, or one   *)
(* read of the cache with the decision that follows from it.               *)
(***************************************************************************)
EXTENDS Integers, Sequences, FiniteSets

CONSTANTS
  Managers,             \* processes running cmd/remediation
  MaxAnswer,            \* the longest list of actions the AI answers with
  Targets,              \* names of pods, deployments and nodes
  AIAnswers,            \* the lists of actions the AI may answer with
  MaxRiskLevel,         \* spec.ai.remediation.maxRiskLevel of the analysis
  AutoApproveSettings,  \* values of spec.ai.remediation.autoApprove
  \* Bounds of the explored behaviours, not of the system:
  MaxProposals,         \* answers of the AI turned into proposals
  MaxEdits,             \* edits by the user
  MaxCrashes,           \* crashes of managers
  MaxFaults             \* API calls that fail or whose reply is lost

RiskLevels == {"low", "medium", "high"}
ActionTypes == {"restart-pod", "scale-deployment", "cordon-node", "delete-pod"}
Phases == {"", "pending-approval", "running", "completed", "failed"}
Terminal == {"completed", "failed"}
Outcomes == {"success", "failed", "skipped"}

\* The AI is not bound by the enums of the CRD: "other" is any further string.
AIEntry == [type : ActionTypes \cup {"other"}, target : Targets,
            risk : RiskLevels \cup {"other"}]
PlanAction == [type : ActionTypes \cup {"other", "none"},
               target : Targets \cup {"none"},
               risk : RiskLevels \cup {"other"}, skip : BOOLEAN]
Ids == 1 .. MaxAnswer

\* The actions of a plan are kept under the number in their id ("action-<n>"),
\* by which the list is sorted; NoAction stands where the list has none.
\* Results likewise.
NoAction == [type |-> "none", target |-> "none", risk |-> "other", skip |-> FALSE]
NoActions == [i \in Ids |-> NoAction]
NoResults == [i \in Ids |-> "none"]
Listed(actions) == {i \in Ids : actions[i].type # "none"}
Recorded(res) == {i \in Ids : res[i] # "none"}

ASSUME BoundsAssumption ==
  /\ MaxAnswer \in Nat
  /\ MaxProposals \in Nat /\ MaxEdits \in Nat
  /\ MaxCrashes \in Nat /\ MaxFaults \in Nat
ASSUME InputsAssumption ==
  /\ \A ai \in AIAnswers : /\ DOMAIN ai \subseteq Ids
                           /\ \A i \in DOMAIN ai : ai[i] \in AIEntry
  /\ AutoApproveSettings \subseteq BOOLEAN
  /\ MaxRiskLevel \in RiskLevels \cup {""}
  /\ "operator" \notin Managers

Procs == Managers \cup {"operator"}

VARIABLES
  plan,      \* the object in the API server (NoPlan when there is none)
  rev,       \* the API server's revision counter, source of resourceVersions
  cache,     \* cache[p]: the object as the informer cache of process p has it
  queued,    \* queued[m]: the work queue of manager m holds the plan's key
  pc,        \* pc[m]: where the Reconcile of manager m stands
  mem,       \* mem[m]: the copy of the plan that Reconcile works on
  results,   \* results[m]: the outcomes that Reconcile has collected
  op,        \* the operator's createRemediationPlan in progress
  spent,     \* how much of each bound has been used
  claims,    \* history: the executions that were begun
  log        \* history: the actions performed, in order

exec == <<cache, queued, pc, mem, results>>
history == <<claims, log>>
vars == <<plan, rev, cache, queued, pc, mem, results, op, spent, claims, log>>

-----------------------------------------------------------------------------
(* The stored object and the calls of the API server.                      *)

NoPlan == [uid |-> 0, rv |-> 0, gen |-> 0, approved |-> FALSE,
           actions |-> NoActions, phase |-> "", results |-> NoResults]

Exists(obj) == obj.uid # 0

\* An update carries the resourceVersion its copy was read with; the API
\* server rejects it unless the stored object still has that version.
CurrentNoConflict(copy) == Exists(plan)
Current(copy) == Exists(plan) /\ plan.rv = copy.rv

\* Enum validation of the custom resource definition.
Valid(actions) ==
  \A i \in Listed(actions) : /\ actions[i].type \in ActionTypes
                             /\ actions[i].risk \in RiskLevels

Store(obj) == plan' = [obj EXCEPT !.rv = rev + 1] /\ rev' = rev + 1

\* A call that fails on its way, or whose reply does.
UseFault == /\ spent.faults < MaxFaults
            /\ spent' = [spent EXCEPT !.faults = @ + 1]

\* A write to the main resource keeps the stored status, whatever status the
\* caller sent; it bumps the generation, and is no write at all when it
\* changes nothing.
WriteSpec(approved, actions) ==
  IF approved = plan.approved /\ actions = plan.actions
  THEN UNCHANGED <<plan, rev>>
  ELSE Store([plan EXCEPT !.approved = approved, !.actions = actions,
                          !.gen = @ + 1])

\* A write to the status subresource keeps the stored spec.
WriteStatus(copy) ==
  Store([plan EXCEPT !.phase = copy.phase, !.results = copy.results])

-----------------------------------------------------------------------------
(* createRemediationPlan.                                                  *)

RiskOrder(risk) ==
  CASE risk = "low" -> 1 [] risk = "medium" -> 2 [] risk = "high" -> 3
    [] OTHER -> 0

RiskWithin(risk, max) == RiskOrder(risk) <= RiskOrder(max)

EffectiveMax == IF MaxRiskLevel = "" THEN "low" ELSE MaxRiskLevel

\* The actions kept from an answer, under their position in the answer.
Kept(ai) == {i \in DOMAIN ai : RiskWithin(ai[i].risk, EffectiveMax)}
PlanActions(ai) ==
  [i \in Ids |-> IF i \in Kept(ai)
                  THEN [type |-> ai[i].type, target |-> ai[i].target,
                        risk |-> ai[i].risk, skip |-> FALSE]
                  ELSE NoAction]

OpIdle == [pc |-> "idle", base |-> NoPlan, approved |-> FALSE,
           actions |-> NoActions]

Replaceable(obj) == obj.phase \in Terminal \cup {""}

\* The filter and the Get from the cache. Nothing happens when the filter
\* leaves no action, or when the plan as the cache has it is being executed.
Propose(ai, auto) ==
  /\ op.pc = "idle"
  /\ spent.proposals < MaxProposals
  /\ Kept(ai) # {}
  /\ Replaceable(cache["operator"])
  /\ op' = [pc |-> "writing", base |-> cache["operator"],
            approved |-> auto /\ ~Exists(cache["operator"]),
            actions |-> PlanActions(ai)]
  /\ spent' = [spent EXCEPT !.proposals = @ + 1]
  /\ UNCHANGED <<plan, rev, exec, history>>

CanCreate == ~Exists(op.base) /\ ~Exists(plan) /\ Valid(op.actions)
CanReplace == Exists(op.base) /\ Current(op.base) /\ Valid(op.actions)

\* Create: the status of the request (phase "pending-approval") is dropped by
\* the API server, because the resource has a status subresource.
CreatePlan ==
  /\ op.pc = "writing"
  /\ CanCreate
  /\ Store([uid |-> rev + 1, rv |-> 0, gen |-> 1, approved |-> op.approved,
            actions |-> op.actions, phase |-> "", results |-> NoResults])
  /\ op' = OpIdle
  /\ UNCHANGED <<exec, spent, history>>

\* Update: spec replaced, approval withdrawn; the emptied status is ignored.
ReplacePlanStillApproved ==
  /\ op.pc = "writing"
  /\ CanReplace
  /\ WriteSpec(plan.approved, op.actions)
  /\ op' = OpIdle
  /\ UNCHANGED <<exec, spent, history>>
ReplacePlan ==
  /\ op.pc = "writing"
  /\ CanReplace
  /\ WriteSpec(FALSE, op.actions)
  /\ op' = OpIdle
  /\ UNCHANGED <<exec, spent, history>>

\* Conflict, AlreadyExists, NotFound, validation, or a request that fails on
\* its way: the error is logged and the proposal dropped.
ProposalRejected ==
  /\ op.pc = "writing"
  /\ \/ ~CanCreate /\ ~CanReplace /\ spent' = spent
     \/ UseFault
  /\ op' = OpIdle
  /\ UNCHANGED <<plan, rev, exec, history>>

-----------------------------------------------------------------------------
(* The user: patches of the stored object, and its deletion.               *)

UserApproves(b) ==
  /\ Exists(plan) /\ plan.approved # b
  /\ spent.edits < MaxEdits
  /\ WriteSpec(b, plan.actions)
  /\ spent' = [spent EXCEPT !.edits = @ + 1]
  /\ UNCHANGED <<exec, op, history>>

UserSkips(i, b) ==
  /\ Exists(plan) /\ i \in Listed(plan.actions) /\ plan.actions[i].skip # b
  /\ spent.edits < MaxEdits
  /\ WriteSpec(plan.approved, [plan.actions EXCEPT ![i].skip = b])
  /\ spent' = [spent EXCEPT !.edits = @ + 1]
  /\ UNCHANGED <<exec, op, history>>

UserDeletes ==
  /\ Exists(plan)
  /\ spent.edits < MaxEdits
  /\ plan' = NoPlan /\ rev' = rev + 1
  /\ spent' = [spent EXCEPT !.edits = @ + 1]
  /\ UNCHANGED <<exec, op, history>>

-----------------------------------------------------------------------------
(* Informer caches and the event filter of SetupWithManager.               *)

\* GenerationChangedPredicate: creations and deletions pass, updates pass when
\* they changed the generation.
TriggersOnCreation(old, new) == old.uid # new.uid
Triggers(old, new) == old.uid # new.uid \/ old.gen # new.gen

Observe(p) ==
  /\ cache[p] # plan
  /\ cache' = [cache EXCEPT ![p] = plan]
  /\ IF p \in Managers
     THEN /\ pc[p] # "down"
          /\ queued' = [queued EXCEPT ![p] = @ \/ Triggers(cache[p], plan)]
     ELSE queued' = queued
  /\ UNCHANGED <<plan, rev, pc, mem, results, op, spent, history>>

-----------------------------------------------------------------------------
(* RemediationPlanReconciler.Reconcile in manager m.                       *)

RunnableUnapproved(obj) == Exists(obj) /\ obj.phase \notin Terminal \cup {"running"}
RunnableWhenRunning(obj) == Exists(obj) /\ obj.approved /\ obj.phase \notin Terminal
Runnable(obj) ==
  Exists(obj) /\ obj.approved /\ obj.phase \notin Terminal \cup {"running"}

ReconcileSkips(m) ==
  /\ pc[m] = "idle" /\ queued[m]
  /\ ~Runnable(cache[m])
  /\ queued' = [queued EXCEPT ![m] = FALSE]
  /\ UNCHANGED <<plan, rev, cache, pc, mem, results, op, spent, history>>

ReconcileClaims(m) ==
  /\ pc[m] = "idle" /\ queued[m]
  /\ Runnable(cache[m])
  /\ queued' = [queued EXCEPT ![m] = FALSE]
  /\ pc' = [pc EXCEPT ![m] = "marking"]
  /\ mem' = [mem EXCEPT ![m] = [cache[m] EXCEPT !.phase = "running"]]
  /\ UNCHANGED <<plan, rev, cache, results, op, spent, history>>

\* Back to the work queue with an error; the copy and the results are lost.
RequeueKeepingResults(m) ==
  /\ pc' = [pc EXCEPT ![m] = "idle"]
  /\ queued' = [queued EXCEPT ![m] = TRUE]
  /\ mem' = [mem EXCEPT ![m] = NoPlan]
  /\ results' = results
Requeue(m) ==
  /\ pc' = [pc EXCEPT ![m] = "idle"]
  /\ queued' = [queued EXCEPT ![m] = TRUE]
  /\ mem' = [mem EXCEPT ![m] = NoPlan]
  /\ results' = [results EXCEPT ![m] = NoResults]

\* The first Status().Update, phase running. Its reply brings the new version.
MarkRunning(m) ==
  /\ pc[m] = "marking"
  /\ Current(mem[m])
  /\ WriteStatus(mem[m])
  /\ mem' = [mem EXCEPT ![m] = plan']
  /\ pc' = [pc EXCEPT ![m] = "executing"]
  /\ claims' = claims \cup {[uid |-> plan.uid, rv |-> rev + 1, mgr |-> m,
                             approved |-> plan.approved,
                             actions |-> plan.actions]}
  /\ UNCHANGED <<cache, queued, results, op, spent, log>>

\* Conflict or NotFound, or a request that fails on its way.
UpdateRejected(m) ==
  /\ pc[m] \in {"marking", "finishing"}
  /\ \/ ~Current(mem[m]) /\ spent' = spent
     \/ UseFault
  /\ Requeue(m)
  /\ UNCHANGED <<plan, rev, cache, op, history>>

\* The write is stored, but its reply is lost: an error to the caller.
UpdateReplyLost(m) ==
  /\ pc[m] \in {"marking", "finishing"}
  /\ Current(mem[m])
  /\ UseFault
  /\ WriteStatus(mem[m])
  /\ Requeue(m)
  /\ UNCHANGED <<cache, op, history>>

Remaining(m) == Listed(mem[m].actions) \ Recorded(results[m])
Next1(m) == CHOOSE i \in Remaining(m) : \A j \in Remaining(m) : i <= j

Record(m, i, outcome) == results' = [results EXCEPT ![m][i] = outcome]

Skipped(m, i) == mem[m].actions[i].skip

\* One round of the loop over plan.Spec.Actions of the copy: a skipped action
\* is recorded, any other is executed once and succeeds or fails; a failure
\* does not stop the loop.
SkipAction(m) ==
  /\ pc[m] = "executing" /\ Remaining(m) # {}
  /\ Skipped(m, Next1(m))
  /\ Record(m, Next1(m), "skipped")
  /\ UNCHANGED <<plan, rev, cache, queued, pc, mem, op, spent, history>>

ExecuteAction(m, outcome) ==
  /\ pc[m] = "executing" /\ Remaining(m) # {}
  /\ ~Skipped(m, Next1(m))
  /\ Record(m, Next1(m), outcome)
  /\ log' = Append(log, [uid |-> mem[m].uid, id |-> Next1(m), mgr |-> m,
                         action |-> mem[m].actions[Next1(m)],
                         outcome |-> outcome])
  /\ UNCHANGED <<plan, rev, cache, queued, pc, mem, op, spent,
                 claims>>

FinalPhaseIgnoringFailures(res) == "completed"
FinalPhaseOfFailureOnly(res) ==
  IF \E i \in Ids : res[i] = "failed" THEN "failed" ELSE "running"
FinalPhase(res) ==
  IF \E i \in Ids : res[i] = "failed" THEN "failed" ELSE "completed"

Conclude(m) ==
  /\ pc[m] = "executing" /\ Remaining(m) = {}
  /\ mem' = [mem EXCEPT ![m].phase = FinalPhase(results[m]),
                        ![m].results = results[m]]
  /\ pc' = [pc EXCEPT ![m] = "finishing"]
  /\ UNCHANGED <<plan, rev, cache, queued, results, op, spent, history>>

\* The final Status().Update.
Finish(m) ==
  /\ pc[m] = "finishing"
  /\ Current(mem[m])
  /\ WriteStatus(mem[m])
  /\ pc' = [pc EXCEPT ![m] = "idle"]
  /\ mem' = [mem EXCEPT ![m] = NoPlan]
  /\ results' = [results EXCEPT ![m] = NoResults]
  /\ UNCHANGED <<cache, queued, op, spent, history>>

Crash(m) ==
  /\ pc[m] # "down"
  /\ spent.crashes < MaxCrashes
  /\ pc' = [pc EXCEPT ![m] = "down"]
  /\ queued' = [queued EXCEPT ![m] = FALSE]
  /\ mem' = [mem EXCEPT ![m] = NoPlan]
  /\ results' = [results EXCEPT ![m] = NoResults]
  /\ cache' = [cache EXCEPT ![m] = NoPlan]
  /\ spent' = [spent EXCEPT !.crashes = @ + 1]
  /\ UNCHANGED <<plan, rev, op, history>>

\* A manager starts with a fresh list, whose objects arrive as creations.
Start(m) ==
  /\ pc[m] = "down"
  /\ pc' = [pc EXCEPT ![m] = "idle"]
  /\ cache' = [cache EXCEPT ![m] = plan]
  /\ queued' = [queued EXCEPT ![m] = Exists(plan)]
  /\ UNCHANGED <<plan, rev, mem, results, op, spent, history>>

-----------------------------------------------------------------------------
Init ==
  /\ plan = NoPlan /\ rev = 0
  /\ cache = [p \in Procs |-> NoPlan]
  /\ queued = [m \in Managers |-> FALSE]
  /\ pc = [m \in Managers |-> "idle"]
  /\ mem = [m \in Managers |-> NoPlan]
  /\ results = [m \in Managers |-> NoResults]
  /\ op = OpIdle
  /\ spent = [proposals |-> 0, edits |-> 0, crashes |-> 0, faults |-> 0]
  /\ claims = {} /\ log = <<>>

Operator ==
  \/ \E ai \in AIAnswers, auto \in AutoApproveSettings : Propose(ai, auto)
  \/ CreatePlan
  \/ ReplacePlan
  \/ ProposalRejected

User ==
  \/ \E b \in BOOLEAN : UserApproves(b)
  \/ \E i \in Ids, b \in BOOLEAN : UserSkips(i, b)
  \/ UserDeletes

Reconcile(m) ==
  \/ ReconcileSkips(m)
  \/ ReconcileClaims(m)
  \/ MarkRunning(m)
  \/ UpdateRejected(m)
  \/ UpdateReplyLost(m)
  \/ SkipAction(m)
  \/ \E outcome \in {"success", "failed"} : ExecuteAction(m, outcome)
  \/ Conclude(m)
  \/ Finish(m)

Next ==
  \/ Operator
  \/ User
  \/ \E p \in Procs : Observe(p)
  \/ \E m \in Managers : Reconcile(m) \/ Crash(m) \/ Start(m)

Spec == Init /\ [][Next]_vars

\* Informers and work queues deliver, controllers make progress, and a crashed
\* manager is restarted by its Deployment. Nothing is assumed of the operator,
\* the user, or of any fault.
FairSpec ==
  Spec /\ \A m \in Managers : /\ WF_vars(Observe(m))
                              /\ WF_vars(Reconcile(m))
                              /\ WF_vars(Start(m))

-----------------------------------------------------------------------------
(* Properties.                                                             *)

ActionMaps == [Ids -> PlanAction]
ResultMaps == [Ids -> Outcomes \cup {"none"}]
Objects == [uid : Nat, rv : Nat, gen : Nat, approved : BOOLEAN,
            actions : ActionMaps, phase : Phases, results : ResultMaps]
Claim == [uid : Nat, rv : Nat, mgr : Managers, approved : BOOLEAN,
          actions : ActionMaps]
Budget == [proposals : Nat, edits : Nat, crashes : Nat, faults : Nat]
LogEntry == [uid : Nat, id : Ids, mgr : Managers, action : PlanAction,
             outcome : {"success", "failed"}]

\* Every variable keeps its type; in particular the copies that the caches,
\* the operator and the managers hold are well-formed objects.
TypeOK ==
  /\ plan \in Objects /\ rev \in Nat
  /\ cache \in [Procs -> Objects]
  /\ queued \in [Managers -> BOOLEAN]
  /\ pc \in [Managers -> {"idle", "marking", "executing", "finishing", "down"}]
  /\ mem \in [Managers -> Objects]
  /\ results \in [Managers -> ResultMaps]
  /\ op \in [pc : {"idle", "writing"}, base : Objects, approved : BOOLEAN,
             actions : ActionMaps]
  /\ spent \in Budget
  /\ \A c \in claims : c \in Claim
  /\ log \in Seq(LogEntry)

\* A plan object is executed at most once, whatever the number of managers,
\* the lag of their caches, their crashes and retries: the guard on the phase
\* (Reconcile) is read from a cache, and only the conflict on the first status
\* update makes it safe.
AtMostOneExecution ==
  \A c, d \in claims : c.uid = d.uid => c = d

\* No action of a plan is performed twice: a pod is not deleted again, after
\* it came back, by a retry of the reconcile that deleted it.
ActionsPerformedOnce ==
  \A i, j \in DOMAIN log :
    log[i].uid = log[j].uid /\ log[i].id = log[j].id => i = j

\* What is performed is what the stored object approved, unskipped, at the
\* moment it was marked running: an approval withdrawn, an action skipped or
\* replaced after the cache was read is never acted upon.
OnlyApprovedActions ==
  \A i \in DOMAIN log : \E c \in claims :
    /\ c.uid = log[i].uid /\ c.mgr = log[i].mgr /\ c.approved
    /\ log[i].id \in Listed(c.actions)
    /\ c.actions[log[i].id] = log[i].action
    /\ ~log[i].action.skip

\* Actions above maxRiskLevel, or of a risk that is no risk level at all, are
\* never stored: createRemediationPlan filters the ones above, lets unknown
\* ones through, and the enum of the CRD stops those.
WithinMaxRisk ==
  \A i \in Listed(plan.actions) :
    RiskOrder(plan.actions[i].risk) \in 1 .. RiskOrder(EffectiveMax)

\* A stored outcome is what happened: a concluded plan has one result for each
\* action of its execution, "skipped" for the skipped ones, the outcome of the
\* one attempt for the others, and failed exactly if one of them failed.
ResultsTruthful ==
  plan.phase \in Terminal =>
    \E c \in claims :
      /\ c.uid = plan.uid
      /\ Recorded(plan.results) = Listed(c.actions)
      /\ \A i \in Listed(c.actions) :
           IF c.actions[i].skip THEN plan.results[i] = "skipped"
           ELSE \E k \in DOMAIN log : /\ log[k].uid = plan.uid
                                      /\ log[k].id = i
                                      /\ log[k].outcome = plan.results[i]
      /\ plan.phase = "failed"
           <=> \E i \in Ids : plan.results[i] = "failed"

\* The phase of an object only moves forward, from nothing to running to
\* completed or failed: no write of a stale copy takes it back.
PhaseForward ==
  [][Exists(plan) /\ plan'.uid = plan.uid /\ plan'.phase # plan.phase =>
       \/ plan.phase = "" /\ plan'.phase = "running"
       \/ plan.phase = "running" /\ plan'.phase \in Terminal]_vars

\* As long as the object exists, actions are performed only while it says
\* running: nobody who looks at the phase can miss an execution under way.
PerformedWhileRunning ==
  [][\A k \in DOMAIN log' \ DOMAIN log :
       log'[k].uid = plan.uid => plan.phase = "running"]_vars

\* The whole of this refines the promise that ApprovedExecution states.
Promise == INSTANCE ApprovedExecution WITH
  spec <- [uid |-> plan.uid, approved |-> plan.approved,
           actions |-> plan.actions]
KeepsPromise == Promise!Spec

\* Every action of the plan's execution that is not skipped was attempted.
Executed ==
  \E c \in claims :
    /\ c.uid = plan.uid
    /\ \A i \in Listed(c.actions) :
         \/ c.actions[i].skip
         \/ \E k \in DOMAIN log : log[k].uid = c.uid /\ log[k].id = i

\* The plan says running and no manager executes it: one crashed after it had
\* marked the plan, or never got the reply of the update that did.
Abandoned ==
  /\ plan.phase = "running" /\ spent.crashes + spent.faults > 0
  /\ \A m \in Managers :
       pc[m] \in {"executing", "finishing"} => mem[m].uid # plan.uid

\* An approved plan that has not run is executed to its last action, unless it
\* is deleted or its approval withdrawn first: an event that was filtered out,
\* a conflict, a failed call or a crash before the plan is marked running does
\* not make the controller forget it. After the mark it may: the plan is then
\* abandoned, because Reconcile returns early on the phase it finds.
ApprovedIsPickedUp ==
  Runnable(plan) ~> ~Exists(plan) \/ ~plan.approved \/ Executed \/ Abandoned

\* A plan that is marked running comes to an end, whatever fails in the cluster,
\* unless a manager stops, a call is lost, or the spec is edited meanwhile.
Undisturbed ==
  /\ spent.crashes = 0 /\ spent.faults = 0
  /\ \E c \in claims : /\ c.uid = plan.uid /\ c.approved = plan.approved
                       /\ c.actions = plan.actions
RunningConcludes ==
  plan.phase = "running" ~> plan.phase # "running" \/ ~Undisturbed

-----------------------------------------------------------------------------
(* Statements of the repository that the code does not keep.               *)

\* "results holds the outcome of each executed action": what was performed is
\* eventually reported by the object, unless it was deleted.
OutcomeReported ==
  log # <<>> ~> /\ log # <<>>
                /\ \/ plan.uid # log[1].uid
                   \/ log[1].id \in Recorded(plan.results)

\* "Set spec.approved to true to execute the actions": an approved spec gets
\* executed, unless it is changed or deleted first.
ApprovedSpecIsExecuted ==
  \A ai \in AIAnswers :
    Exists(plan) /\ plan.approved /\ plan.actions = PlanActions(ai) ~>
      \/ ~Exists(plan) \/ ~plan.approved \/ plan.actions # PlanActions(ai)
      \/ \E c \in claims : c.uid = plan.uid /\ c.actions = plan.actions
=============================================================================
