# A formal model of mirops

mirops is a Kubernetes operator. It collects a snapshot of its cluster, scores how
ready the cluster is for an upgrade, asks an AI for a second opinion, publishes the
verdict and a dependency graph as reports, and - in a second process - executes the
remediation actions that the AI proposed and a user approved.

This directory models that program in TLA+. TLC checks the models on small
instances; TLAPS proves the most important theorems for every instance. Paths below
are relative to the repository.

## 1. Inventory

| Component | Where | State it keeps | Operations |
|---|---|---|---|
| RemediationPlan controller | `internal/controller/remediationplan_controller.go`, `cmd/remediation/main.go` | the plan's spec and status in the API server, an informer cache, a work queue | `Reconcile`, `executeAction` and the four actions under it |
| Proposer of plans | `createRemediationPlan`, `sortRemediationActions` (same file) | none of its own | create, or replace, the plan of an analysis |
| UpgradeAnalysis controller | `internal/controller/upgradeanalysis_controller.go` | the status of the analysis, the cache of AI answers, a RequeueAfter timer | `Reconcile` |
| AI scorer | `internal/controller/ai_scorer.go` | `aiCache` | build the prompt, ask or remember, parse and range-check |
| Scoring and decision | `internal/analysis/score.go`, `profile.go`, `report.go` | none: a report in the making | `Calculate`, `ApplyAIScore`, `ApplyGraphDecision` |
| ClusterMirror controller | `internal/controller/clustermirror_controller.go`, `internal/analysis/mirror_report.go` | the status of the mirror, a RequeueAfter timer | `Reconcile`, `upgradeSummary` |
| Exporters | `internal/exporter/*.go` | files, objects in a bucket | `Write`, `Read` |
| Report server | `internal/controller/reportserver.go`, `reportdest.go` | none: reads the informer cache and the destinations | `ServeHTTP` |
| Dependency graph | `internal/graph/*.go` | none | `BuildFromSnapshot`, `ApplyRisk`, `AtRisk`, `Dependents` |
| Compatibility engine | `internal/compat/*.go` | the embedded matrix | `Evaluate`, `LoadMatrix` |
| Collector | `internal/collector/*.go` | none; in one `Collect`, the maps from ReplicaSets to Deployments, from workloads to their pods and nodes, and the snapshot so far | `Collect`: some twenty list calls, each answered by its own informer cache |
| CRD installation, process | `internal/crd/crd.go`, `cmd/main.go` | the CRDs in the API server | apply, wait until established, start the parts |
| API types | `api/v1/*.go`, `config/crd/bases` | - | the records and enums of the objects |

How they interact. All controllers talk through the API server: an update carries the
resource version of the copy it was made from and is rejected when the stored object
has moved on; a status subresource keeps spec and status writes apart; reads come
from an informer cache that may lag behind. `cmd/main.go` runs the two report
writing controllers and the report server in one process, on one cache and one
reports directory. The analysis creates the plan; the user approves it by an edit;
the second process executes it. The mirror summarises the analyses.

What is hard here: stale reads before an update; a process that stops between two
calls; calls whose reply is lost; conflicts that throw away finished work; edits by a
user at any moment; RequeueAfter timers that a branch forgets; two controllers on one
file; statuses written on some branches only; decisions taken three times by
different rules; truncation and boundaries in the score; a snapshot put together from
lists that are taken one after another; objects of the cluster that others edit, evict
and recreate between the Get and the write of an action.

What makes each component correct:

* plan: what is performed was approved, is performed once, inside the phase
  `running`, and its outcome is reported truthfully; on the cluster, it changes nothing
  but what it says, and a stateful pod that it restarts does not run twice;
* collection: a snapshot says nothing that was never so, misses nothing that was so all
  the time, and its parts, which apply different rules to different lists, agree;
* analysis: a status is about the spec it says it observed, every change is analysed,
  restarts are counted once as long as the scope stays, and an answer of the AI that is
  at hand is not paid for again;
* decision: an upgrade is stopped exactly for a recorded reason, a worse cluster
  never scores better, the AI does not open a gate;
* mirror: a mirror is never forgotten, an edit is tried at once, a failure shows;
* graph and compatibility: risk does not depend on the order things are listed in,
  what is shown as its cause is one, and a recommendation helps;
* reports: what is served is whole, of the kind asked for, and not older than what
  was published before the request.

`PROJECT.json` lists the places in the code where these are at risk ("hazards") and
the properties that watch them.

## 2. Modules

| Module | Models | Theorems |
|---|---|---|
| `ApprovedExecution` | abstract specification: what a plan's execution promises | |
| `RemediationPlan` | the plan's life, proposer, managers, caches, faults | `RemediationPlanProofs` |
| `ActionExecution` | the four actions on pods, deployments and nodes, call by call | `ActionExecutionProofs` |
| `UpgradeAnalysis` | the analysis controller with its AI cache and timer | `UpgradeAnalysisProofs` |
| `ReadinessDecision` | the three stages of the decision | `ReadinessDecisionProofs` |
| `ClusterMirror` | the mirror controller | `ClusterMirrorProofs` |
| `ReportService` | exporters, directories and the HTTP server | `ReportServiceProofs` |
| `IntervalSnapshot` | abstract specification: what a snapshot taken over an interval promises | |
| `ClusterCollector` | one `Collect`, call by call, over caches that change | `ClusterCollectorProofs` |
| `ComponentRisk` | compatibility of add-ons, the dependency graph, its risks and what the reports say of them | `ComponentRiskProofs` |
| `MC...` | instances for TLC: inputs as small sets, symmetry | |

How they compose. `RemediationPlan` and `ActionExecution` both implement
`ApprovedExecution`: in the first, performing an action is one step with an outcome and
the question is who performs it and when; in the second, one claimed plan is given and
the step is taken apart into the calls it makes. `ClusterCollector` implements
`IntervalSnapshot`; its snapshots are the inputs of `ComponentRisk` and
`ReadinessDecision`. The two controllers that publish reports (`UpgradeAnalysis`,
`ClusterMirror`) call the exporter in one step; `ReportService` is that step, among the
others that use the same directories.

The modules share conventions. An object is a record with `uid`, `rv` (resource
version), `gen` (generation), its spec and its status. `Store` is a write to the API
server, `Current(copy)` its optimistic check, `UseFault` a call that fails or whose
reply is lost; `Observe` is the informer delivering and the event filter deciding
whether the key is queued; `pc` names the call a `Reconcile` makes next. A step is
one call, or one cache read with the local decisions that follow it; everything else
may happen between two steps. History variables (named so in their comments) record
what was performed or counted and influence nothing.

### RemediationPlan

State: `plan`, `cache[p]`, `queued[m]`, `pc[m]`, `mem[m]`, `results[m]` for every
manager `m`; `op` for the proposer. `ReconcileSkips` and `ReconcileClaims` are the
guards of `Reconcile` (not found, not approved, running or ended); marking running, performing or skipping each
action, and the final update are steps of their own. The proposer's `Get`, then
`Create` or `Update`, are two steps. Actions are kept under the number in their id,
which is how the code sorts them. Several managers are allowed because leader
election is off by default (`cmd/remediation/main.go:56`).

Two facts about the API server matter: `Create` drops a status sent along, and
`Update` keeps the stored one, because the CRD declares the status subresource.
So the phase `pending-approval` set by the code is never stored, and the reset of the
status of a replaced plan is lost; both lead to findings below.

Once a plan is marked running it belongs to the manager that marked it. If that one
crashes, or never gets the reply of the update that marked the plan, nobody executes it
further, because `Reconcile` returns early on the phase. `Abandoned` is this state, and
`ApprovedIsPickedUp` names it: an approved plan is executed to its last action unless it
is deleted, its approval withdrawn, or the plan abandoned.

### ActionExecution

The executor is the loop over the plan's actions in one claimed plan. `GetTarget` reads
from the informer cache and parses the parameters; `WriteAccepted`, `WriteRejected`,
`WriteUnreachable` and `ReplyLost` are the outcomes of the Delete or Update; `Record`
appends the result and goes on. A plan is cluster-scoped, so the namespace that
`executeAction` falls back on is empty (`PlanNamespace`): a namespaced action that names
none fails at its Get. There is no retry: an action that meets a conflict,
or a target its cache does not have yet, has failed for good. An object is its resource
version, the field an action sets (replicas, unschedulable) and the rest, so that an
update that would overwrite somebody else's change is visible; a pod is its uid and
whether it is being deleted. `running` holds the incarnations whose containers run: the
kubelet of an unreachable node stops them later than the API server forgets the pod.
The world edits, deletes and evicts, kubelets remove and clean up, a StatefulSet
recreates its pod under the same name. `effects` and `lost` are history.

### UpgradeAnalysis

`Reconcile` is split at its calls: collect, ask the AI, propose a plan, export,
update the status (or, for a refused version, the `ERROR` status). A verdict is
represented by the facts it was computed from, so "the status is right" becomes "it
was computed from this spec and this snapshot". The AI cache holds the prompt of the
answer it remembers. The prompt shows the rows of some lists, and the informer's store
lists its objects in any order, so a snapshot has an `order` and one cluster several
prompts; `MaxReorders` bounds how many snapshots come in another order than the usual.
The new restarts of a verdict are the difference to the counts of the previous one,
floored at zero (`NewRestarts`, from `capPenalty`), whatever scope that one had;
`counted` adds up what the stored verdicts took as new since the scope was last another,
`happened` what happened. The `ERROR` branch returns without a RequeueAfter: from then on
only an edit or a refresh starts another analysis, and the liveness properties make
that exception explicit.

### ReadinessDecision

Three steps: `Calculate`, `ApplyAIScore` (or none), `ApplyGraphDecision`. Scores are
integers; the dimensions are computed in exact fractions and truncated as `int(...)`
does. One rounding effect of binary floating point is modelled because it shows in a
result: `90*0.7` truncates to 62 (`BaseShare`). For all other values of the checked
instance, exact fractions and `float64` give the same integers; in general a score
may differ by one from an exact one where a product falls on an integer.

### ClusterCollector

`Calls` is `Collect` as a table: the list calls in order, the kind each asks for, and
whether an error of it ends the collection (`List`, `ListFails`, `ListOverlooked`).
What a call adds is the set of facts `Facts(call, seen, mem)` that follow from the
sightings it was answered with and from the maps that earlier calls left in `mem`; a
counter of the code is the set of what it counts. `Change` lets any cache move on
between two calls: one informer per kind, none of them in step with the others.

`IntervalSnapshot` says what can be expected of such a snapshot, with `always` and
`sometime` as the sightings one could have made throughout, or at some moment of, the
interval. A list whose error is swallowed counts as an empty one (`Overlook`), so the
promise names exactly what is lost by swallowing it. `KeepsInterval` is the refinement.

### ClusterMirror

`Reconcile` with its two early exits - collection failed, status update failed - the
rebuild, publication and status update. `GenerationChangedPredicate` is part of
`Observe`, refreshes pass the second predicate.

### ReportService

A file is an inode that names link to: `os.WriteFile` on the `.tmp` truncates the inode
the name already links to, `Rename` moves the link, and a reader keeps the inode it
opened. `Crash` restarts the container and keeps the volume; `PodReplaced` empties
the reports directory (an `emptyDir`) and keeps the mounted volume and the bucket.
A server that starts answers 404 until the informer cache is filled (`synced`). The
remote stores put and get whole objects. One operator replica is assumed
(`config/manager/manager.yaml`). `asked` records the destinations every object was
ever given; two objects with a destination in common overwrite each other's reports, and the
properties that are about one object's reports are stated under `Separate`.

### ComponentRisk

One pass of the pure engine. `EvaluateAndBuild` judges the add-ons of the snapshot
(a mirror judges none) and builds the graph; then `compute`, the recursive closure of
`ApplyRisk`, runs call by call: `stack` holds the calls that have not returned,
`eff` is the memo, and the visiting map is the set of ids on the stack. Components
are taken in the order of the passes of the builder and, within a pass, in any order,
as are the dependencies of one component: the lists come from the API server.
`Report` aggregates, and then lists what is at risk if it is a mirror's
(`MirrorReport`, no add-on judged), or computes the impact of the upgrade if it is an
analysis (`AnalysisReport`). A range of versions is the set of the versions it includes, which may be unparsable.
`int(x * 0.6)` in `float64` equals `6 * x \div 10` for every risk from 0 to 100.

## 3. Runs

Passing runs. All bounds are named constants, in the guards of the actions they
bound; the comment at the head of each `.cfg` says what the run is for.

| Run | Checks | Why the bounds are enough |
|---|---|---|
| `plan_interleavings` | at most one execution, only approved actions, the abstract promise | two managers, two proposals out of three different lists - one with an action of unknown risk -, three edits: approve, then withdraw, skip or delete and approve again under both managers |
| `plan_failures` | the inductive invariant (with it: types, nothing above `maxRiskLevel`), nothing performed twice, truthful results; an approved plan is executed to its last action or abandoned, an undisturbed execution ends | three proposed actions, two of which are kept and succeed, fail or are skipped; one crash, one lost call, one edit at any moment |
| `actions` | results are what was done, others' changes are kept, a pod runs once unless deleted by force, the abstract promise | plans with two actions on one target and with every kind of action and parameter; three edits, three incarnations of the pod, one fault and one crash: a pod is replaced between Get and Delete, a field set by two hands, a reply lost before a second action |
| `analysis_status` | verdict of the observed spec, restarts counted once, calls to the AI bounded by what changed, was lost or was listed in another order, report backs status | two specs with different scope, model and destination; a cluster that shrinks and restarts and then has two rows to show, in either order; a crash that empties the AI cache |
| `analysis_progress` | no change and no timer is forgotten; edits and refreshes are analysed, the report catches up, the interval is kept, the controller comes to rest | a target that an upgrade of the cluster overtakes, one of every other event, a clock that passes the interval once |
| `decision` | stopped exactly for a reason, worse is never better, the AI opens no gate | snapshots at each threshold, beyond each budget, both profiles; the AI damning, praising, absent |
| `mirror` | never forgotten, failure shown, edits tried, rebuilding goes on | two specs, one with the default interval; every event and fault at least once |
| `reports` | whole, own kind, not older, for objects that never asked for one destination; never vanishing, even for those that did, once the server's cache is filled | a mirror and an analysis of one name; file with and without a path, mounted volume, bucket; three edits and three exports overlap one request, a fault and a crash anywhere |
| `collection` | types and scope, the promise of `IntervalSnapshot`, one change is one moment, the views of one workload agree, a failing pod is not lost | one object or more of every kind, each in every state the code tells apart; two changes - the least with which a snapshot can be of no moment - and one failing list, at any call, from a good cluster and a bad one; a storage class and its claim, a pod and its ReplicaSet, two Deployments of one add-on |
| `risk` | the reported risks solve the equations of propagation and the cycle guard is never needed, inherited risk is explained and only what blocks the upgrade passes it on, dependents cover the impact, a recommended version helps | the longest chain (ingress, service, workload, what that uses), a shared configuration, dangling edges, a selector that is empty; every status that seeds risk; rules that match, do not, cannot be parsed |

A graph without cycles gives these equations one solution, so `RiskIsDue` says which
number every component has, and not only that the numbers are consistent.

Deadlock checking is off in every run: the bounded actors run out of steps, and a
verdict, a snapshot and a report are final.

Fairness. Liveness is checked under weak fairness of the informer's delivery, the
queue and its timer, `Reconcile`, and the restart of a crashed process by its
Deployment: controller-runtime retries for ever and the API server is reachable
again after finitely many faults. Nothing is assumed of the user, the AI, the cluster
or the clock; a timer property says what holds of a timer whose time has come.
`ActionExecution` and `ClusterCollector` state no liveness: a plan whose manager
crashes stays in the phase running (below), and a collection is a sequence of calls
whose retry is the matter of its controller.

### Findings

Each is a statement of a doc, comment or test that the code does not keep, with the
run whose counterexample shows it (`PROJECT.json`, "findings", quotes the lines).

| Run | What happens |
|---|---|
| `finding_outcome` | an edit during the execution makes the last update conflict: performed, never reported, phase `running` for ever |
| `finding_reproposal` | a re-proposed plan keeps its terminal phase and is never executed, however often it is approved |

Reading the code for the models showed further places where it does less than a
comment or a field's description says, or where a reader may expect more. No run checks
them:

* `score.go:464`: `reason` explains the first of three decisions; a report that the
  graph decision made `CRITICAL` may say "Cluster is ready for upgrade".
* `file.go:29`: two objects that are given one destination write the same `.tmp`, and
  what they publish may be half of one report; the properties of `ReportService` are
  stated for objects that share none.
* `remediationplan_controller.go:231`: a plan that waits for approval is replaced
  too, because the phase set at `:241` is dropped by `Create`; the comment at `:228`
  says only a completed or failed one is. With it go the user's skip marks (`:232`)
  and an approval given by `autoApprove` (`:233`).
* `remediationplan_controller.go:144`: `delete-pod` deletes without a grace period, so
  that two incarnations of a stateful pod may run at once; `OneIncarnationRuns` holds
  for every other action.
* `remediationplan_controller.go:135`, `:159`, `:168`: an action that meets a conflict,
  or a target which the manager's cache does not hold yet, has failed; it is not tried
  again. `scale-deployment` without `replicas` scales to one (`:152`).
* `remediationplan_controller.go:135`, `:144`: a pod is deleted by its name, without the UID
  that was read as a precondition, and may be the one that took its place; the properties
  of the actions count that as the deletion of the named target.
* `upgradeanalysis_controller.go:197`, `:213`: `aiError` and `aiModel` of an earlier
  analysis stay when the AI is disabled.
* `upgradeanalysis_controller.go:126`: the baselines of the counts are those of the
  previous scope. After an edit of the scope, pods out of scope count as lost, and after an
  edit to a wider one restarts that were scored before are "new restarts since the last
  run" (`score.go:142`) again; `RestartsCountedOnce` ends where the scope is edited.
* `ai_scorer.go:198`: issues and workloads are written in the order of the informer's
  store, a Go map, which nothing sorts. With two rows in one list a "resync on a steady
  cluster" does not always rebuild "the exact same prompt" (`ai_scorer.go:69`), and is paid
  for; `CallsBounded` counts these snapshots apart.
* `remediationplan_controller.go:56`: a lost reply, or a crash after the phase running is
  stored, leaves an approved plan that nobody executes and nobody reports; an edit after
  the mark, approval withdrawn included, does not stop the execution.
* `remediationplan_controller.go:104`: the fallback to the plan's namespace is of no use,
  a plan has none (`remediationplan_types.go:137`).
* `evaluate.go:94`: the recommended range is the one of the first rule that supports the
  target, even if it cannot be parsed and a later rule could be followed;
  `RecommendationHelps` says of such a range nothing.
* `score.go:448`: the shares of the blend are truncated one by one; a base of 92 and
  an AI score of 89 make 90 where `base*0.7 + ai*0.3` is 91.1.
* `clustermirror_controller.go:146`: a report is published before a status update
  that may conflict; if the next collection fails, they differ until the interval.
* `clustermirror_controller.go:183`: `upgradeSummary` lists the base name of a custom
  path, which `ServeHTTP` takes for the name of a resource.
* `reportserver.go:84`: a mirror and an analysis of one name answer for each other
  (the run `reports` shows that they do not unless both ask for one destination).
* `cmd/main.go:218`: the report server answers before the cache is filled, 404 for
  reports that are there.
* `cluster_collector.go:112`: a pod with an owner is not shown on its own because its
  "workload or node already stands in" for it. That is so for the workloads that are
  listed (`EveryFailureHasAPlace`), not for a standalone ReplicaSet or an owner of
  another kind.
* `cluster_collector.go:75`: the parts of a snapshot are of different moments; two
  changes suffice for a snapshot of no moment at all (`OneChangeIsOneMoment` holds for
  one only).
* `workload_collector.go:16`: the list of Deployments under `Resources` ignores the scope.
* `workload_inventory.go:110`: a list whose error is swallowed hides what it would have
  shown; in particular an add-on that is not detected is not judged.
* `addon_detector.go:80`: of several Deployments whose names match an add-on, the
  first in the order of the cache decides its version.
* `restart.go:52`: the restart rate of a crashing pod is the average of its lifetime,
  so an old pod that starts to crash exceeds the threshold late.

## 4. Proofs

Every theorem is about any number of objects, any inputs and any bounds that the
assumptions named in the modules (`...Assumption`) allow; those only fix the types of
the constants and what Kubernetes guarantees. The proofs share one shape: a property is
seldom inductive, so `IInv` adds what every copy, queue and history must satisfy for
the next step to keep it; there is a lemma for each action, one step for each conjunct
that the action can disturb, and the theorems follow from `Spec => []IInv`.

**RemediationPlan.** `TypeInvariance`, `ExecutedAtMostOnce`, `PerformedOnce`,
`PerformedIsApproved`, `ResultsAreTruthful`, `StoredWithinMaxRisk`,
`PhaseMovesForward`, `PerformsWhileRunning`, and `ImplementsPromise`: the controller
refines `ApprovedExecution`. "A plan is executed at most once" is not inductive: a
manager that is about to store the phase with a stale copy must fail, and that depends
on every copy in every cache. `IInv` therefore adds: a copy is never newer than the
stored object, and equals it if it has the same version; resource versions grow;
whoever performs actions holds the one claim, the phase it made is stored, and every
other copy from before that claim is outdated; the ledger of performed actions is what
the claim's owner has results for. The run `plan_failures` checks `IInv` on a small
instance. `StoredWithinMaxRisk`, `PhaseMovesForward` and `PerformsWhileRunning` are
theorems only.

**ActionExecution.** `ResultsAreTrue`, `RestartNeverOverlaps`, `OthersChangesAreKept`
and `EffectsArePromised`. The invariant adds that a cached or read copy is never newer
than the object and equals it if it has its version (so an accepted update is made from
the stored state), that what is between Get and write was read from a target of the
right kind, and that under the name of a pod nothing runs but the incarnation stored,
unless the plan removed it by force.

**UpgradeAnalysis.** `StatusIsOfItsSpec`, `RestartsCounted`, `ReportBacks`. A status is
about the spec it observed because the update it is stored with conflicts if the spec
has changed; the invariant says what the copy of a `Reconcile` and the stored object
have in common as long as they have one version (all but the status in the making), and
that everything computed so far - verdict, baseline, location of the report - belongs to
the spec of that copy. For `RestartsCounted` it says of the baseline of the stored status
that what was counted exceeds it by no more than `happened` exceeds what the cluster shows:
a restart is still in the baseline, or its counter is gone for good.

`CallsAreBounded` is about the number of answers asked of the AI, which no state of the
controller tells. The proof pays for them in advance: `CallsDue` counts along a path - the
prompt that is remembered, that of Reconcile's copy, those of the cached and the stored
object, and that of an analysis which finds nothing new - the places at which the prompt
changes. Every question shortens the path by one; only an edit, a change of the cluster,
another order of its lists, a crash or a fault makes it longer, by no more than the bound allows for it; and `CallsPaid`,
calls and path together within the bound, is inductive on top of `IInv`.

`NothingGetsLost` is the safety half of `ChangesAreAnalysed` and `ResyncHappens`: in every
state in which a change is not analysed, something is enabled that leads to its analysis -
the queue, an event that the filter lets pass, or a Reconcile at work on this very state of
the object - or the target is refused; and a controller at rest on a verdict has a timer
that is not late. `Attended` adds why Reconcile may skip: what a cached copy says was
analysed, or refused, is so in the object, if no event lies between the two; a refused
target stays too low, since a cluster is not downgraded (`ClusterChanges`), and so an
object refused at one generation is not given a verdict before the next.

**ClusterMirror.** `MirrorsAreKept`, `FailuresShow`. A mirror that exists always has a
timer, a queued key or a reconcile under way; every copy of a status that is stored,
cached or worked on shows the failure of its report, except between the reset of the
error and the publication.

**ReportService.** `ReportsAreWhole`, `ReportsAreOwnAndNew`, `ReportsDoNotVanish`. The
invariant follows a report from the temporary file to the client: a file has one name;
the temporary file of a writer is its own until the rename; what a destination holds is
whole, of an object that asked for the place and older than what its controller is about
to write; the file a request has opened is not written to any more. The part about
contents holds as long as no two objects share a destination; that reports do not vanish
holds without it.

**ReadinessDecision.** `Coherence` is the inductive invariant: at each stage, level and
permission are what the conditions of the snapshot force, the report is what the calls
make of the snapshot (`Computed`), and every variable has its type. From it follow `ScoresInRange`, `StopsForAReason` (the two sets of rules, `decide`
and `collectBlockers`, agree for every snapshot), `AIOpensNoGate`, `SafeIsStable` and `WorseGetsNoBetter`: every
penalty grows with what it is for, truncation and caps included (`DivGrows`, `ClampGrows`),
the decision and the blockers follow, for snapshots that differ by any amount
(`VerdictWorsens`).

**ComponentRisk.** `RisksAreDue`, `RecommendationsHelp`, `OnlyBlockersSpread`,
`InheritanceExplained`, `ImpactIsCovered`. Every edge of the graph goes down in one order
of the kinds (ingress, service, workload, everything else), so the calls of `compute` on
the stack go strictly up and no dependency of the last one is among them: the cycle guard,
whose answer would be remembered as a component's risk, is never needed. The invariant says
of each remembered risk, and of each call in progress over the dependencies it has visited,
that it is the largest of the component's own and what they pass on. From the equations it
follows that only a blocker of the decision puts another component at risk.

The last two theorems compare what is reported with recursive functions: the closure
`Dependents` of the edges, and `Due`, the risks of a graph in which a component is fine.
Recursion over data needs induction, and the library's induction theorems take an operator
as a parameter, which the provers cannot instantiate. The module therefore proves the least
element of a set of naturals (`LeastNatural`) and, from it, that a set with 0 and all
successors holds every natural (`AllNaturals`) and that an iteration exists (`Iterates`),
each about sets, which can be named. A graph with finitely many components
(`FiniteAssumption`) stops growing the closure (`GrowthStops`).

**ClusterCollector.** `CollectorKeepsInterval`: the collector implements
`IntervalSnapshot`. `TypeInvariance`, `FailuresHaveAPlace`, `ReportAndGraphAgree`,
`OneChangeGivesOneMoment`. The invariant is a sandwich: `always`, what every moment showed,
is part of what a list is answered with, and that of `sometime`; everything that the calls
made so far remember (`MemoryBetween`) or put into the snapshot (`SnapshotBetween`) follows
from `sometime`, and what follows from `always` is there, unless the list was overlooked.
It is inductive because the facts of a call grow with the sightings and with the maps they
are computed from (`FactsGrow`). For one change during the collection the sandwich has two
ends only, and a kind that is listed once has seen one of them. The views of one workload
agree because the rules of both lists, applied to one outcome, do.

The assumptions of this component: the inputs have their types and an initial cluster
consists of states that objects can have (`ObjectsAssumption`); Kubernetes reports no pod
ready that has a waiting container and no replica of a DaemonSet available that is not
ready, and an owner is in the namespace of what it owns (`KubernetesAssumption`); the
outcomes pending and failed are no snapshots (`OutcomeAssumption`). One default storage
class at most (`DefaultClassAssumption`) is a limit of the model, which no proof uses: of
several the code takes the one that is listed last, and the model would give a claim the
binding modes of all.

**Only model-checked.** The liveness properties (the prover does not reason about fairness
and ENABLED): `ApprovedIsPickedUp`, `RunningConcludes`, `ChangesAreAnalysed`,
`ReportCatchesUp`, `ResyncHappens`, `SettlesDown`, `EditIsTried`, `KeepsRebuilding`. Every
safety property that a passing run checks is also a theorem. The type invariants of the
modules are part of their `IInv` and need no run of their own.

## 5. Not modelled

* CRD installation (`internal/crd`): one loop of idempotent applies and one poll, run
  once at start-up before any controller; it shares no state with the rest.
* The composition of `ClusterCollector` with `ComponentRisk` and `ReadinessDecision` as
  one state machine. The facts a snapshot can hold are their inputs, in every combination
  of conditions; what is said of a verdict is said of the snapshot it was given, and
  what a snapshot is worth is the matter of `IntervalSnapshot`.
* In `ClusterCollector`: more than one owner of a pod, the parsing of versions from
  image tags and labels, the configuration maps and secrets a pod template refers to, the
  wording of reasons. One list is atomic, as the informer's store answers it under its
  lock.
* In `ReportService`: a custom path that ends in another report's `.tmp`.
* In `ActionExecution`: what a grace period does to a pod's containers before they stop,
  and the rollout that a changed deployment starts.
* Flags, TLS, probes, metrics, credentials, wording of reports, issues and prompts, the
  HTTP protocols of the AI providers and object stores.
* More than one operator replica (the manifest sets one). Several remediation managers
  are modelled.

## 6. Plan

1. Done: the plan's execution and its actions, the analysis, the decision, the mirror,
   the reports, the collection, the risks and the compatibility of add-ons, each with
   proofs of all the safety properties that the runs check.
2. The safety half of the other liveness properties, as `NothingGetsLost` is for the
   analysis: an approved plan that nobody has claimed is queued, unseen by a cache, or being
   read (`ApprovedIsPickedUp`); a report ahead of its status has a Reconcile that fails or
   stores it (`ReportCatchesUp`); an edit of a mirror is waiting or at work (`EditIsTried`).
3. Start-up: the order of CRDs, cache and servers in one module, should the program come
   to install CRDs while controllers run.
