--------------------------- MODULE UpgradeAnalysis ---------------------------
(***************************************************************************)
(* The life of one UpgradeAnalysis object and of the operator that         *)
(* analyses it (UpgradeAnalysisReconciler.Reconcile): when an analysis is  *)
(* run, what it reads and at which moment, the report it exports, the      *)
(* answer of the AI it asks for or remembers, and the status it stores.    *)
(*                                                                         *)
(* A verdict (decision, score, reason, the content of a report) is         *)
(* represented by what it was computed from.  Scoring itself is in         *)
(* ReadinessDecision, the remediation plan in RemediationPlan.             *)
(*                                                                         *)
(* A step is one call to the API server, the cluster, the AI or the        *)
(* destination of the report; the cluster, the user and the clock move     *)
(* between any two of them, and the operator may crash there.              *)
(***************************************************************************)
EXTENDS Integers, Sequences, FiniteSets

CONSTANTS
  Specs,         \* [target, scope, ai, remediation, source] the user may ask for
  Worlds,        \* [version, pods, restarts, rows] states of the cluster
  Interval,      \* spec.resync.interval; 0 when there is none
  \* Bounds of the explored behaviours, not of the system:
  MaxEdits,      \* creations, edits and deletions by the user
  MaxRefreshes,  \* changes of the mirops.io/refresh annotation
  MaxChanges,    \* changes of the cluster
  MaxReorders,   \* snapshots whose lists come in another order than the usual
  MaxCrashes,    \* crashes of the operator
  MaxFaults,     \* calls that fail or whose reply is lost
  MaxClock       \* the last moment

Scopes == {"all", "some"}
Sources == {"file", "s3"}     \* the local one and the remote ones
Models == {"default", "other"}
SpecRecord == [target : Nat, scope : Scopes, ai : Models \cup {"off"},
               remediation : BOOLEAN, source : Sources]
\* rows: how many rows the prompt shows of one list of the cluster.
World == [version : Nat, pods : [Scopes -> Nat], restarts : [Scopes -> Nat],
          rows : [Scopes -> Nat]]

ASSUME BoundsAssumption ==
  /\ Interval \in Nat /\ MaxClock \in Nat
  /\ MaxEdits \in Nat /\ MaxRefreshes \in Nat /\ MaxChanges \in Nat
  /\ MaxReorders \in Nat /\ MaxCrashes \in Nat /\ MaxFaults \in Nat
ASSUME InputsAssumption == Specs \subseteq SpecRecord /\ Worlds \subseteq World

VARIABLES
  ua,       \* the object in the API server (NoUA when there is none)
  rev,      \* the API server's revision counter
  world,    \* the cluster
  clock,
  cache,    \* the object as the operator's informer cache has it
  queued,   \* the work queue holds the object's key
  timer,    \* when the queue adds the key (RequeueAfter); 0 for no timer
  pc,       \* where Reconcile stands
  work,     \* what Reconcile works on: its copy of the object, its snapshot
  aiCache,  \* the prompt of the remembered answer of the AI
  store,    \* store[d]: the report at destination d
  offered,  \* the verdicts with whose answers createRemediationPlan was called
  spent,    \* how much of each bound has been used
  calls,    \* history: answers asked of the AI
  counted,  \* history: restarts that the stored verdicts have counted as new
            \* since the scope was last another
  happened, \* history: restarts there have been, in each scope
  doneAt    \* history: when the last verdict was stored

world_vars == <<world, clock>>
operator == <<cache, queued, timer, pc, work, aiCache>>
outside == <<store, offered>>
history == <<calls, counted, happened, doneAt>>
vars == <<ua, rev, world, clock, cache, queued, timer, pc, work, aiCache,
          store, offered, spent, calls, counted, happened, doneAt>>

-----------------------------------------------------------------------------
(* What an analysis computes.                                              *)

NoSpec == [target |-> 0, scope |-> "all", ai |-> "off", remediation |-> FALSE,
           source |-> "file"]
Nowhere == [version |-> 0, pods |-> [s \in Scopes |-> 0],
            restarts |-> [s \in Scopes |-> 0], rows |-> [s \in Scopes |-> 0]]

\* A counter that was reset counts as no new restart.
NewRestarts(now, before) == IF now > before THEN now - before ELSE 0

\* A snapshot of w, with the counts of the previous run from the status,
\* whatever scope that run had: the facts that the score and the prompt are
\* computed from.
NoBaseline == [pods |-> 0, restarts |-> 0]
Facts(spec, w, before) ==
  [target |-> spec.target, version |-> w.version,
   pods |-> w.pods[spec.scope], restarts |-> w.restarts[spec.scope],
   delta |-> NewRestarts(w.restarts[spec.scope], before.restarts),
   dropped |-> w.pods[spec.scope] < before.pods]
NoFacts == Facts(NoSpec, Nowhere, NoBaseline)

\* A verdict: the spec and the facts it is about, and whether the AI's score is
\* blended in.
NoVerdict == [spec |-> NoSpec, facts |-> NoFacts, scored |-> FALSE]

NoStatus == [decision |-> "", of |-> NoVerdict, gen |-> 0, refresh |-> 0,
             time |-> -1, before |-> NoBaseline, aiError |-> FALSE,
             aiModel |-> "", report |-> "", location |-> ""]
NoUA == [uid |-> 0, rv |-> 0, gen |-> 0, refresh |-> 0, spec |-> NoSpec,
         status |-> NoStatus]
Exists(obj) == obj.uid # 0

NoWork == [obj |-> NoUA, verdict |-> NoVerdict, order |-> <<>>, now |-> 0]

\* Strictly higher; equal or lower targets are refused.
VersionIsHigher(target, version) == target > version

\* The informer cache lists n objects in any order, and nothing sorts them.
Orders(n) == {o \in [1 .. n -> 1 .. n] : \A i, j \in 1 .. n : o[i] = o[j] => i = j}
UsualOrder(n) == [i \in 1 .. n |-> i]

\* Everything the answer of the AI is remembered under; the rows are written in
\* the order in which they were listed.
Prompt(spec, facts, order) == [model |-> spec.ai, facts |-> facts,
                               remediation |-> spec.remediation,
                               order |-> order]
NoPrompt == Prompt(NoSpec, NoFacts, <<>>)

-----------------------------------------------------------------------------
(* The API server.                                                         *)

CurrentNoConflict(copy) == Exists(ua)
Current(copy) == Exists(ua) /\ ua.rv = copy.rv

Store(obj) == ua' = [obj EXCEPT !.rv = rev + 1] /\ rev' = rev + 1

UseFault == /\ spent.faults < MaxFaults
            /\ spent' = [spent EXCEPT !.faults = @ + 1]

-----------------------------------------------------------------------------
(* The user, the cluster, the clock.                                       *)

UserCreates(s) ==
  /\ ~Exists(ua) /\ spent.edits < MaxEdits
  /\ Store([NoUA EXCEPT !.uid = rev + 1, !.gen = 1, !.spec = s])
  /\ spent' = [spent EXCEPT !.edits = @ + 1]
  /\ counted' = 0
  /\ UNCHANGED <<world_vars, operator, outside, calls, happened, doneAt>>

UserEdits(s) ==
  /\ Exists(ua) /\ s # ua.spec /\ spent.edits < MaxEdits
  /\ Store([ua EXCEPT !.spec = s, !.gen = @ + 1])
  /\ spent' = [spent EXCEPT !.edits = @ + 1]
  /\ UNCHANGED <<world_vars, operator, outside, history>>

\* The annotation is metadata: a new version, the same generation.
UserRefreshes ==
  /\ Exists(ua) /\ spent.refreshes < MaxRefreshes
  /\ Store([ua EXCEPT !.refresh = spent.refreshes + 1])
  /\ spent' = [spent EXCEPT !.refreshes = @ + 1]
  /\ UNCHANGED <<world_vars, operator, outside, history>>

UserDeletes ==
  /\ Exists(ua) /\ spent.edits < MaxEdits
  /\ ua' = NoUA /\ rev' = rev + 1
  /\ spent' = [spent EXCEPT !.edits = @ + 1]
  /\ UNCHANGED <<world_vars, operator, outside, history>>

\* The version of a cluster never goes back.
ClusterChanges(w) ==
  /\ w # world /\ w.version >= world.version /\ spent.changes < MaxChanges
  /\ world' = w
  /\ spent' = [spent EXCEPT !.changes = @ + 1]
  /\ happened' = [s \in Scopes |->
                    happened[s] + NewRestarts(w.restarts[s], world.restarts[s])]
  /\ UNCHANGED <<ua, rev, clock, operator, outside, calls, counted, doneAt>>

Tick ==
  /\ clock < MaxClock
  /\ clock' = clock + 1
  /\ UNCHANGED <<ua, rev, world, operator, outside, spent, history>>

-----------------------------------------------------------------------------
(* Informer, event filter, work queue.                                     *)

\* GenerationChangedPredicate or AnnotationChangedPredicate; creations and
\* deletions pass both.
TriggersOnGeneration(old, new) == old.uid # new.uid \/ old.gen # new.gen
Triggers(old, new) ==
  old.uid # new.uid \/ old.gen # new.gen \/ old.refresh # new.refresh

Observe ==
  /\ pc # "down" /\ cache # ua
  /\ cache' = ua
  /\ queued' = (queued \/ Triggers(cache, ua))
  /\ UNCHANGED <<ua, rev, world_vars, timer, pc, work, aiCache, outside, spent,
                 history>>

TimerFires ==
  /\ timer # 0 /\ clock >= timer
  /\ queued' = TRUE /\ timer' = 0
  /\ UNCHANGED <<ua, rev, world_vars, cache, pc, work, aiCache, outside, spent,
                 history>>

\* RequeueAfter: the queue keeps the earlier of two timers.
RequeueForgotten(t) == timer' = timer
RequeueAt(t) == timer' = IF timer = 0 \/ t < timer THEN t ELSE timer

\* Reconcile returns an error: the key goes back to the queue.
FailForGood == pc' = "idle" /\ queued' = queued /\ work' = NoWork
Fail == pc' = "idle" /\ queued' = TRUE /\ work' = NoWork

-----------------------------------------------------------------------------
(* UpgradeAnalysisReconciler.Reconcile.                                    *)

\* Within the interval of an analysis of the same spec, with no refresh asked.
RecentWhateverIsAsked(obj) ==
  /\ Interval > 0 /\ obj.status.time >= 0
  /\ obj.gen = obj.status.gen
  /\ clock < obj.status.time + Interval
Recent(obj) ==
  /\ Interval > 0 /\ obj.status.time >= 0
  /\ obj.gen = obj.status.gen
  /\ obj.refresh = obj.status.refresh
  /\ clock < obj.status.time + Interval

\* A deleted object is no error: nothing is left to do.
NotFoundIsError == queued' = TRUE
NotFound == queued' = FALSE

ReconcileSkips ==
  /\ pc = "idle" /\ queued
  /\ \/ ~Exists(cache) /\ NotFound /\ timer' = timer
     \/ /\ Exists(cache) /\ Recent(cache)
        /\ RequeueAt(cache.status.time + Interval)
        /\ queued' = FALSE
  /\ UNCHANGED <<ua, rev, world_vars, cache, pc, work, aiCache, outside, spent,
                 history>>

ReconcileBegins ==
  /\ pc = "idle" /\ queued
  /\ Exists(cache) /\ ~Recent(cache)
  /\ queued' = FALSE
  /\ pc' = "collecting"
  /\ work' = [NoWork EXCEPT !.obj = cache]
  /\ UNCHANGED <<ua, rev, world_vars, cache, timer, aiCache, outside, spent,
                 history>>

CollectFails ==
  /\ pc = "collecting"
  /\ UseFault
  /\ Fail
  /\ UNCHANGED <<ua, rev, world_vars, cache, timer, aiCache, outside, history>>

\* A target that is not higher is an error of the user: only the decision, the
\* reason and the time are set, and no analysis is run.
CollectRefuses ==
  /\ pc = "collecting"
  /\ ~VersionIsHigher(work.obj.spec.target, world.version)
  /\ work' = [work EXCEPT !.obj.status.decision = "ERROR",
                          !.obj.status.time = clock]
  /\ pc' = "refusing"
  /\ UNCHANGED <<ua, rev, world_vars, cache, queued, timer, aiCache, outside,
                 spent, history>>

Reordered(order) ==
  IF order = UsualOrder(Len(order)) THEN spent' = spent
  ELSE /\ spent.reorders < MaxReorders
       /\ spent' = [spent EXCEPT !.reorders = @ + 1]

\* The snapshot, its lists in the order of the cache, compared with the counts
\* of the previous run; the time of the analysis is taken here.
Collect ==
  /\ pc = "collecting"
  /\ VersionIsHigher(work.obj.spec.target, world.version)
  /\ \E order \in Orders(world.rows[work.obj.spec.scope]) :
       /\ Reordered(order)
       /\ work' = [work EXCEPT
            !.verdict = [spec |-> work.obj.spec, scored |-> FALSE,
                         facts |-> Facts(work.obj.spec, world,
                                         work.obj.status.before)],
            !.order = order,
            !.now = clock]
  /\ pc' = IF work.obj.spec.ai = "off" THEN "exporting" ELSE "asking"
  /\ UNCHANGED <<ua, rev, world_vars, cache, queued, timer, aiCache, outside,
                 history>>

ThePrompt == Prompt(work.verdict.spec, work.verdict.facts, work.order)

RememberedNever == FALSE
Remembered == aiCache = ThePrompt

\* The answer of the AI, remembered or fresh, is blended into the verdict; the
\* actions it comes with, if it was asked for any, are proposed.
TakeAnswer ==
  /\ work' = [work EXCEPT !.verdict.scored = TRUE,
                          !.obj.status.aiError = FALSE,
                          !.obj.status.aiModel = work.obj.spec.ai]
  /\ pc' = IF work.obj.spec.remediation THEN "proposing" ELSE "exporting"

AskMemory ==
  /\ pc = "asking" /\ Remembered
  /\ TakeAnswer
  /\ UNCHANGED <<ua, rev, world_vars, cache, queued, timer, aiCache, outside,
                 spent, history>>

AskModel ==
  /\ pc = "asking" /\ ~Remembered
  /\ TakeAnswer
  /\ aiCache' = ThePrompt
  /\ calls' = calls + 1
  /\ UNCHANGED <<ua, rev, world_vars, cache, queued, timer, outside, spent,
                 counted, happened, doneAt>>

\* No key in the Secret (read first, whatever is remembered), a call that fails,
\* an answer that does not parse: nothing is remembered, and the analysis goes
\* on without it.
AskFails ==
  /\ pc = "asking"
  /\ UseFault
  /\ work' = [work EXCEPT !.obj.status.aiError = TRUE]
  /\ pc' = "exporting"
  /\ \/ calls' = calls
     \/ ~Remembered /\ calls' = calls + 1
  /\ UNCHANGED <<ua, rev, world_vars, cache, queued, timer, aiCache, outside,
                 counted, happened, doneAt>>

\* createRemediationPlan; its error is only logged.
Propose ==
  /\ pc = "proposing"
  /\ offered' = offered \cup {work.verdict}
  /\ pc' = "exporting"
  /\ UNCHANGED <<ua, rev, world_vars, cache, queued, timer, work, aiCache,
                 store, spent, history>>

\* The status fields that are set last, whatever became of the report.
ReportStateAlwaysWritten(state) == "written"
ReportState(state) == state
Concluded(obj, state, location) ==
  [obj EXCEPT !.status.decision = "verdict", !.status.of = work.verdict,
              !.status.time = work.now, !.status.refresh = obj.refresh,
              !.status.gen = obj.gen,
              !.status.before = [pods |-> work.verdict.facts.pods,
                                 restarts |-> work.verdict.facts.restarts],
              !.status.report = ReportState(state),
              !.status.location = location]

Export ==
  /\ pc = "exporting"
  /\ store' = [store EXCEPT ![work.obj.spec.source] = work.verdict]
  /\ work' = [work EXCEPT !.obj = Concluded(@, "written", work.obj.spec.source)]
  /\ pc' = "updating"
  /\ UNCHANGED <<ua, rev, world_vars, cache, queued, timer, aiCache, offered,
                 spent, history>>

\* The destination fails, or, for a remote one, its credentials cannot be read:
\* then there is no location either.
ExportFails ==
  /\ pc = "exporting"
  /\ UseFault
  /\ \E location \in {work.obj.spec.source} \cup
                     (IF work.obj.spec.source = "file" THEN {} ELSE {""}) :
       work' = [work EXCEPT !.obj = Concluded(@, "failed", location)]
  /\ pc' = "updating"
  /\ UNCHANGED <<ua, rev, world_vars, cache, queued, timer, aiCache, outside,
                 history>>

\* The status is replaced as a whole by that of the copy.
SameScope == work.verdict.spec.scope = ua.status.of.spec.scope
StoreStatus ==
  /\ Store([ua EXCEPT !.status = work.obj.status])
  /\ IF pc = "updating"
     THEN /\ counted' = (IF SameScope THEN counted ELSE 0)
                         + work.verdict.facts.delta
          /\ doneAt' = clock
     ELSE UNCHANGED <<counted, doneAt>>

\* An analysis is repeated after the interval; a refused one is not.
UpdateStatus ==
  /\ pc \in {"updating", "refusing"} /\ Current(work.obj)
  /\ StoreStatus
  /\ pc' = "idle" /\ work' = NoWork
  /\ IF pc = "updating" /\ Interval > 0 THEN RequeueAt(clock + Interval)
     ELSE timer' = timer
  /\ UNCHANGED <<world_vars, cache, queued, aiCache, outside, spent, calls,
                 happened>>

UpdateRejected ==
  /\ pc \in {"updating", "refusing"}
  /\ \/ ~Current(work.obj) /\ spent' = spent
     \/ UseFault
  /\ Fail
  /\ UNCHANGED <<ua, rev, world_vars, cache, timer, aiCache, outside, history>>

UpdateReplyLost ==
  /\ pc \in {"updating", "refusing"} /\ Current(work.obj)
  /\ UseFault
  /\ StoreStatus
  /\ Fail
  /\ UNCHANGED <<world_vars, cache, timer, aiCache, outside, calls, happened>>

-----------------------------------------------------------------------------
(* The operator process.                                                   *)

Crash ==
  /\ pc # "down" /\ spent.crashes < MaxCrashes
  /\ pc' = "down" /\ queued' = FALSE /\ timer' = 0
  /\ work' = NoWork /\ cache' = NoUA /\ aiCache' = NoPrompt
  /\ spent' = [spent EXCEPT !.crashes = @ + 1]
  /\ UNCHANGED <<ua, rev, world_vars, outside, history>>

Start ==
  /\ pc = "down"
  /\ pc' = "idle"
  /\ cache' = ua
  /\ queued' = Exists(ua)
  /\ UNCHANGED <<ua, rev, world_vars, timer, work, aiCache, outside, spent,
                 history>>

-----------------------------------------------------------------------------
Init ==
  /\ \E s \in Specs :
       ua = [NoUA EXCEPT !.uid = 1, !.rv = 1, !.gen = 1, !.spec = s]
  /\ rev = 1
  /\ world \in Worlds
  /\ clock = 0
  /\ cache = NoUA /\ queued = FALSE /\ timer = 0
  /\ pc = "down" /\ work = NoWork /\ aiCache = NoPrompt
  /\ store = [d \in Sources |-> NoVerdict]
  /\ offered = {}
  /\ spent = [edits |-> 0, refreshes |-> 0, changes |-> 0, reorders |-> 0,
              crashes |-> 0, faults |-> 0]
  /\ calls = 0 /\ counted = 0 /\ happened = world.restarts /\ doneAt = 0

User ==
  \/ \E s \in Specs : UserCreates(s) \/ UserEdits(s)
  \/ UserRefreshes
  \/ UserDeletes

Reconcile ==
  \/ ReconcileSkips
  \/ ReconcileBegins
  \/ CollectFails
  \/ CollectRefuses
  \/ Collect
  \/ AskMemory
  \/ AskModel
  \/ AskFails
  \/ Propose
  \/ Export
  \/ ExportFails
  \/ UpdateStatus
  \/ UpdateRejected
  \/ UpdateReplyLost

Next ==
  \/ User
  \/ \E w \in Worlds : ClusterChanges(w)
  \/ Tick
  \/ Observe
  \/ TimerFires
  \/ Reconcile
  \/ Crash
  \/ Start

Spec == Init /\ [][Next]_vars

\* Informer and queue deliver, Reconcile makes progress, a crashed operator is
\* restarted by its Deployment. Nothing is assumed of the clock beyond the
\* moment it shows, nor of the user, the cluster, or any fault.
FairSpec == /\ Spec
            /\ WF_vars(Observe) /\ WF_vars(TimerFires)
            /\ WF_vars(Reconcile) /\ WF_vars(Start)

-----------------------------------------------------------------------------
(* Properties.                                                             *)

Baseline == [pods : Nat, restarts : Nat]
FactsRecord == [target : Nat, version : Nat, pods : Nat, restarts : Nat,
                delta : Nat, dropped : BOOLEAN]
Verdict == [spec : SpecRecord, facts : FactsRecord, scored : BOOLEAN]
Status == [decision : {"", "ERROR", "verdict"}, of : Verdict, gen : Nat,
           refresh : Nat, time : Nat \cup {-1}, before : Baseline,
           aiError : BOOLEAN, aiModel : Models \cup {""},
           report : {"", "written", "failed"}, location : Sources \cup {""}]
Object == [uid : Nat, rv : Nat, gen : Nat, refresh : Nat, spec : SpecRecord,
           status : Status]
PromptRecord == [model : Models \cup {"off"}, facts : FactsRecord,
                 remediation : BOOLEAN, order : Seq(Nat)]

\* Every variable keeps its type; the copies in the cache and in Reconcile are
\* well-formed objects.
TypeOK ==
  /\ ua \in Object /\ cache \in Object /\ rev \in Nat
  /\ world \in World /\ clock \in Nat /\ timer \in Nat
  /\ queued \in BOOLEAN
  /\ pc \in {"down", "idle", "collecting", "asking", "proposing", "exporting",
             "updating", "refusing"}
  /\ work \in [obj : Object, verdict : Verdict, order : Seq(Nat), now : Nat]
  /\ aiCache \in PromptRecord
  /\ store \in [Sources -> Verdict]
  /\ \A v \in offered : v \in Verdict
  /\ spent \in [edits : Nat, refreshes : Nat, changes : Nat, reorders : Nat,
                crashes : Nat, faults : Nat]
  /\ calls \in Nat /\ counted \in Nat /\ happened \in [Scopes -> Nat]
  /\ doneAt \in Nat

\* A status that says it is about the present generation holds a verdict on the
\* present spec: an edit between the read and the status update is never
\* papered over by the generation of a later one.
VerdictOfObservedSpec ==
  Exists(ua) /\ ua.status.decision = "verdict" /\ ua.status.gen = ua.gen
    => ua.status.of.spec = ua.spec

\* When a status is stored that says the report is written, the report that it
\* locates holds the very verdict of the status.
ReportBacksStatus ==
  [][ua'.status # ua.status /\ Exists(ua') /\ ua'.status.report = "written"
     /\ ua'.status.decision = "verdict"
       => /\ ua'.status.location \in Sources
          /\ store[ua'.status.location] = ua'.status.of]_vars

\* A report is exported before the status is stored. When the report differs
\* from the status, after a conflict, a failed call or a crash, the analysis is
\* repeated until they agree: at once, or at the latest when the interval has
\* passed.
Ahead == /\ Exists(ua) /\ ua.status.report = "written"
         /\ store[ua.status.location] # ua.status.of
ReportCatchesUp ==
  Ahead ~> ~Ahead \/ ua.status.decision = "ERROR" \/ timer > clock

\* As long as the scope stays what it is, no restart is scored as new by two
\* stored verdicts: a verdict that is not stored (conflict, crash) leaves the
\* baseline of the previous one, a repeated one does not count again, and a
\* counter that was reset in between takes nothing back. An edit of the scope
\* ends this: the next verdict is compared with the baseline of another scope,
\* and from there the count begins anew.
RestartsCountedOnce ==
  Exists(ua) => counted <= happened[ua.status.of.spec.scope]

\* "A resync on a steady cluster" is not paid for, but for the order of its
\* lists: an answer is only asked of the model when the user or the cluster
\* changed something, twice at most for each change (with and then without its
\* new restarts), when an answer was lost with the process or failed, or when
\* the cache listed unchanged rows in another order than the usual, twice at
\* most for each time (for that order and for the return to the usual one).
CallsBounded ==
  calls <= 2 * (1 + spent.edits + spent.changes + spent.reorders)
           + spent.crashes + spent.faults

\* A new spec, or a refresh, is analysed, or refused for its target.
Analysed == ua.status.gen = ua.gen /\ ua.status.refresh = ua.refresh
Refused == /\ ua.status.decision = "ERROR"
           /\ ~VersionIsHigher(ua.spec.target, world.version)
ChangesAreAnalysed ==
  Exists(ua) /\ ~Analysed ~> ~Exists(ua) \/ Analysed \/ Refused

\* What ChangesAreAnalysed and ResyncHappens rest on, whatever happens while
\* Reconcile runs: a new spec or a refresh that is not analysed is waiting for
\* Reconcile, being worked on, or refused; and when the controller is at rest on
\* a verdict, its timer is set, and not later than the interval asks for.
Analysing == {"collecting", "asking", "proposing", "exporting", "updating", "refusing"}
Same(a, b) == a.uid = b.uid /\ a.gen = b.gen /\ a.refresh = b.refresh
Waiting == pc = "down" \/ queued \/ ~Same(cache, ua)
NoChangeIsLost ==
  Exists(ua) /\ ~Analysed =>
    Waiting \/ (pc \in Analysing /\ Same(work.obj, ua)) \/ Refused
NoResyncIsLost ==
  Exists(ua) /\ ua.status.decision = "verdict" /\ Interval > 0 /\ pc = "idle" =>
    Waiting \/ (timer # 0 /\ timer <= doneAt + Interval)
NothingIsForgotten == NoChangeIsLost /\ NoResyncIsLost

\* An analysis is repeated once the interval has passed since the last one, and
\* its timer survives conflicts, lost calls, and restarts of the operator.
Overdue == /\ Exists(ua) /\ ua.status.decision = "verdict"
           /\ Interval > 0 /\ clock >= doneAt + Interval
ResyncHappens == Overdue ~> ~Overdue

\* The operator comes to rest when nothing changes any more and no interval
\* passes: its own status updates do not start analyses, a deleted object is not
\* tried again.
SettlesDown == <>[](pc = "idle" /\ ~queued)

=============================================================================
