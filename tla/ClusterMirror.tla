---------------------------- MODULE ClusterMirror ----------------------------
(***************************************************************************)
(* The life of one ClusterMirror object and of the operator that rebuilds  *)
(* it (ClusterMirrorReconciler.Reconcile): on every interval, edit and     *)
(* refresh the cluster is collected, the report is published, and then the *)
(* status is stored.  A cluster that cannot be collected is tried again    *)
(* after the interval, a status that cannot be stored at once.             *)
(*                                                                         *)
(* What a rebuild says of the cluster is represented by what it was built  *)
(* from.  A step is one call to the API server, the cluster or the         *)
(* destination of the report.                                              *)
(***************************************************************************)
EXTENDS Integers

CONSTANTS
  Specs,       \* [scope, source, interval] the user may ask for
  Clusters,    \* states of the cluster
  DefaultMirrorInterval,
  \* Bounds of the explored behaviours, not of the system:
  MaxEdits, MaxRefreshes, MaxChanges, MaxCrashes, MaxFaults, MaxClock

Sources == {"file", "s3"}     \* the local one and the remote ones
SpecRecord == [scope : {"all", "some"}, source : Sources, interval : Int]

ASSUME MirrorAssumption ==
  /\ Specs \subseteq SpecRecord
  /\ DefaultMirrorInterval \in Nat \ {0}
  /\ \A m \in {MaxEdits, MaxRefreshes, MaxChanges, MaxCrashes, MaxFaults,
               MaxClock} : m \in Nat

VARIABLES
  cm,       \* the object in the API server (NoCM when there is none)
  rev,      \* the API server's revision counter
  cluster,
  clock,
  cache,    \* the object as the operator's informer cache has it
  queued,   \* the work queue holds the object's key
  timer,    \* when the queue adds the key (RequeueAfter); 0 for no timer
  pc,       \* where Reconcile stands
  work,     \* its copy of the object, what it collected
  store,    \* store[d]: the report at destination d
  spent,    \* how much of each bound has been used
  tried,    \* history: what the last rebuild that began was to answer
  endedAt   \* history: when the last rebuild was over

environment == <<cluster, clock>>
operator == <<cache, queued, timer, pc, work>>
vars == <<cm, rev, cluster, clock, cache, queued, timer, pc, work, store,
          spent, tried, endedAt>>
history == <<tried, endedAt>>

-----------------------------------------------------------------------------
(* Objects.                                                                *)

NoSpec == [scope |-> "all", source |-> "file", interval |-> 0]
NoMirror == [uid |-> 0, scope |-> "all", cluster |-> 0]

\* of: the rebuild that components, edges, atRisk, byNamespace were derived from.
NoStatus == [of |-> NoMirror, gen |-> 0, error |-> "", report |-> "",
             location |-> ""]
NoCM == [uid |-> 0, rv |-> 0, gen |-> 0, refresh |-> 0, spec |-> NoSpec,
         status |-> NoStatus]
Exists(obj) == obj.uid # 0
Asked(obj) == [uid |-> obj.uid, gen |-> obj.gen, refresh |-> obj.refresh]
NoWork == [obj |-> NoCM, mirror |-> NoMirror]

Interval(obj) == IF obj.spec.interval <= 0 THEN DefaultMirrorInterval
                 ELSE obj.spec.interval

-----------------------------------------------------------------------------
(* The API server, the user, the cluster, the clock.                       *)

CurrentNoConflict(copy) == Exists(cm)
Current(copy) == Exists(cm) /\ cm.rv = copy.rv
Store(obj) == cm' = [obj EXCEPT !.rv = rev + 1] /\ rev' = rev + 1
UseFault == /\ spent.faults < MaxFaults
            /\ spent' = [spent EXCEPT !.faults = @ + 1]

UserCreates(s) ==
  /\ ~Exists(cm) /\ spent.edits < MaxEdits
  /\ Store([NoCM EXCEPT !.uid = rev + 1, !.gen = 1, !.spec = s])
  /\ spent' = [spent EXCEPT !.edits = @ + 1]
  /\ endedAt' = clock
  /\ UNCHANGED <<environment, operator, store, tried>>

UserEdits(s) ==
  /\ Exists(cm) /\ s # cm.spec /\ spent.edits < MaxEdits
  /\ Store([cm EXCEPT !.spec = s, !.gen = @ + 1])
  /\ spent' = [spent EXCEPT !.edits = @ + 1]
  /\ UNCHANGED <<environment, operator, store, history>>

UserRefreshes ==
  /\ Exists(cm) /\ spent.refreshes < MaxRefreshes
  /\ Store([cm EXCEPT !.refresh = spent.refreshes + 1])
  /\ spent' = [spent EXCEPT !.refreshes = @ + 1]
  /\ UNCHANGED <<environment, operator, store, history>>

UserDeletes ==
  /\ Exists(cm) /\ spent.edits < MaxEdits
  /\ cm' = NoCM /\ rev' = rev + 1
  /\ spent' = [spent EXCEPT !.edits = @ + 1]
  /\ UNCHANGED <<environment, operator, store, history>>

ClusterChanges(c) ==
  /\ c # cluster /\ spent.changes < MaxChanges
  /\ cluster' = c
  /\ spent' = [spent EXCEPT !.changes = @ + 1]
  /\ UNCHANGED <<cm, rev, clock, operator, store, history>>

Tick ==
  /\ clock < MaxClock
  /\ clock' = clock + 1
  /\ UNCHANGED <<cm, rev, cluster, operator, store, spent, history>>

-----------------------------------------------------------------------------
(* Informer, event filter, work queue.                                     *)

TriggersOnAnnotation(old, new) ==
  old.uid # new.uid \/ old.refresh # new.refresh
Triggers(old, new) ==
  old.uid # new.uid \/ old.gen # new.gen \/ old.refresh # new.refresh

Observe ==
  /\ pc # "down" /\ cache # cm
  /\ cache' = cm
  /\ queued' = (queued \/ Triggers(cache, cm))
  /\ UNCHANGED <<cm, rev, environment, timer, pc, work, store, spent, history>>

TimerFires ==
  /\ timer # 0 /\ clock >= timer
  /\ queued' = TRUE /\ timer' = 0
  /\ UNCHANGED <<cm, rev, environment, cache, pc, work, store, spent, history>>

\* RequeueAfter: the queue keeps the earlier of two timers.
RequeueAt(t) == timer' = IF timer = 0 \/ t < timer THEN t ELSE timer

Done == pc' = "idle" /\ work' = NoWork

-----------------------------------------------------------------------------
(* ClusterMirrorReconciler.Reconcile.                                      *)

ReconcileSkips ==
  /\ pc = "idle" /\ queued
  /\ ~Exists(cache)
  /\ queued' = FALSE
  /\ UNCHANGED <<cm, rev, environment, cache, timer, pc, work, store, spent,
                 history>>

ReconcileBegins ==
  /\ pc = "idle" /\ queued
  /\ Exists(cache)
  /\ queued' = FALSE
  /\ pc' = "collecting"
  /\ work' = [NoWork EXCEPT !.obj = cache]
  /\ tried' = Asked(cache)
  /\ UNCHANGED <<cm, rev, environment, cache, timer, store, spent, endedAt>>

CollectFails ==
  /\ pc = "collecting"
  /\ UseFault
  /\ work' = [work EXCEPT !.obj.status.error = "collect"]
  /\ pc' = "complaining"
  /\ UNCHANGED <<cm, rev, environment, cache, queued, timer, store, history>>

\* The error is stored if it can be; "retry on the normal cadence".
NoRetry == timer' = timer
Retry == RequeueAt(clock + Interval(work.obj))
Over == endedAt' = clock /\ tried' = tried

ComplaintStored ==
  /\ pc = "complaining" /\ Current(work.obj)
  /\ Store([cm EXCEPT !.status = work.obj.status])
  /\ Retry
  /\ Done /\ Over
  /\ UNCHANGED <<environment, cache, queued, store, spent>>

ComplaintRejected ==
  /\ pc = "complaining"
  /\ \/ ~Current(work.obj) /\ spent' = spent
     \/ UseFault
  /\ Retry
  /\ Done /\ Over
  /\ UNCHANGED <<cm, rev, environment, cache, queued, store>>

\* Snapshot, graph, risk: the status is derived from the report.
Collect ==
  /\ pc = "collecting"
  /\ LET m == [uid |-> work.obj.uid, scope |-> work.obj.spec.scope,
               cluster |-> cluster]
     IN work' = [work EXCEPT !.mirror = m, !.obj.status.of = m,
                             !.obj.status.gen = work.obj.gen,
                             !.obj.status.error = ""]
  /\ pc' = "publishing"
  /\ UNCHANGED <<cm, rev, environment, cache, queued, timer, store, spent,
                 history>>

PublishedQuietly(obj, state, location) ==
  [obj EXCEPT !.status.location = location, !.status.report = state]
Published(obj, state, location) ==
  [obj EXCEPT !.status.location = location, !.status.report = state,
              !.status.error = IF state = "failed" THEN "publish" ELSE @]

Publish ==
  /\ pc = "publishing"
  /\ store' = [store EXCEPT ![work.obj.spec.source] = work.mirror]
  /\ work' = [work EXCEPT !.obj = Published(@, "written", @.spec.source)]
  /\ pc' = "updating"
  /\ UNCHANGED <<cm, rev, environment, cache, queued, timer, spent, history>>

\* The destination fails, or, for a remote one, its credentials cannot be read:
\* then there is no location either.
PublishFails ==
  /\ pc = "publishing"
  /\ UseFault
  /\ \E location \in {work.obj.spec.source} \cup
                     (IF work.obj.spec.source = "file" THEN {} ELSE {""}) :
       work' = [work EXCEPT !.obj = Published(@, "failed", location)]
  /\ pc' = "updating"
  /\ UNCHANGED <<cm, rev, environment, cache, queued, timer, store, history>>

UpdateStatus ==
  /\ pc = "updating" /\ Current(work.obj)
  /\ Store([cm EXCEPT !.status = work.obj.status])
  /\ RequeueAt(clock + Interval(work.obj))
  /\ Done /\ Over
  /\ UNCHANGED <<environment, cache, queued, store, spent>>

\* The error is returned: the key goes back to the queue.
RejectedIgnored == queued' = queued
Rejected == queued' = TRUE

UpdateRejected ==
  /\ pc = "updating"
  /\ \/ ~Current(work.obj) /\ spent' = spent
     \/ UseFault
  /\ Rejected
  /\ Done
  /\ UNCHANGED <<cm, rev, environment, cache, timer, store, history>>

\* The update is stored and its reply is lost: an error all the same.
ReplyLost ==
  /\ pc \in {"updating", "complaining"} /\ Current(work.obj)
  /\ UseFault
  /\ Store([cm EXCEPT !.status = work.obj.status])
  /\ IF pc = "updating" THEN Rejected /\ UNCHANGED <<timer, history>>
     ELSE Retry /\ Over /\ queued' = queued
  /\ Done
  /\ UNCHANGED <<environment, cache, store>>

-----------------------------------------------------------------------------
(* The operator process.                                                   *)

Crash ==
  /\ pc # "down" /\ spent.crashes < MaxCrashes
  /\ pc' = "down" /\ queued' = FALSE /\ timer' = 0
  /\ work' = NoWork /\ cache' = NoCM
  /\ spent' = [spent EXCEPT !.crashes = @ + 1]
  /\ UNCHANGED <<cm, rev, environment, store, history>>

Start ==
  /\ pc = "down"
  /\ pc' = "idle" /\ cache' = cm /\ queued' = Exists(cm)
  /\ UNCHANGED <<cm, rev, environment, timer, work, store, spent, history>>

-----------------------------------------------------------------------------
Init ==
  /\ cm = NoCM /\ rev = 0
  /\ cluster \in Clusters /\ clock = 0
  /\ cache = NoCM /\ queued = FALSE /\ timer = 0
  /\ pc = "down" /\ work = NoWork
  /\ store = [d \in Sources |-> NoMirror]
  /\ spent = [edits |-> 0, refreshes |-> 0, changes |-> 0, crashes |-> 0,
              faults |-> 0]
  /\ tried = Asked(NoCM) /\ endedAt = 0

User ==
  \/ \E s \in Specs : UserCreates(s) \/ UserEdits(s)
  \/ UserRefreshes
  \/ UserDeletes

Reconcile ==
  \/ ReconcileSkips
  \/ ReconcileBegins
  \/ CollectFails
  \/ ComplaintStored
  \/ ComplaintRejected
  \/ Collect
  \/ Publish
  \/ PublishFails
  \/ UpdateStatus
  \/ UpdateRejected
  \/ ReplyLost

Next ==
  \/ User
  \/ \E c \in Clusters : ClusterChanges(c)
  \/ Tick
  \/ Observe
  \/ TimerFires
  \/ Reconcile
  \/ Crash
  \/ Start

Spec == Init /\ [][Next]_vars

\* Informer and queue deliver, Reconcile makes progress, a crashed operator is
\* restarted. Nothing is assumed of the clock, the user, the cluster or faults.
FairSpec == /\ Spec
            /\ WF_vars(Observe) /\ WF_vars(TimerFires)
            /\ WF_vars(Reconcile) /\ WF_vars(Start)

-----------------------------------------------------------------------------
(* Properties.                                                             *)

Mirror == [uid : Nat, scope : {"all", "some"}, cluster : Clusters \cup {0}]
Status == [of : Mirror, gen : Nat, error : {"", "collect", "publish"},
           report : {"", "written", "failed"}, location : Sources \cup {""}]
Object == [uid : Nat, rv : Nat, gen : Nat, refresh : Nat,
           spec : SpecRecord, status : Status]

\* Every variable keeps its type.
TypeOK ==
  /\ cm \in Object /\ cache \in Object /\ rev \in Nat
  /\ cluster \in Clusters /\ clock \in Nat /\ timer \in Nat /\ endedAt \in Nat
  /\ queued \in BOOLEAN
  /\ pc \in {"down", "idle", "collecting", "complaining", "publishing",
             "updating"}
  /\ work \in [obj : Object, mirror : Mirror]
  /\ tried \in [uid : Nat, gen : Nat, refresh : Nat]
  /\ store \in [Sources -> Mirror]
  /\ spent \in [edits : Nat, refreshes : Nat, changes : Nat, crashes : Nat,
                faults : Nat]

\* "The long-lived, always-on logical mirror": whatever failed, a mirror the
\* operator knows of is in its queue, on its timer, or in work.
NeverForgotten ==
  pc = "idle" /\ Exists(cache) => queued \/ timer # 0

\* A report that could not be written shows in syncError as well, until the
\* next rebuild; and a failure to collect never hides it.
FailureIsShown ==
  cm.status.report = "failed" => cm.status.error # ""

\* Every edit and every refresh is followed by a rebuild that has read it,
\* whatever becomes of that: it does not wait for the interval.
Untried == Exists(cm) /\ tried # Asked(cm)
EditIsTried == Untried ~> ~Untried

\* The mirror does not stop: once the interval is over since a rebuild that was
\* stored, or could not be collected, another one is.
Overdue == Exists(cm) /\ clock >= endedAt + Interval(cm)
KeepsRebuilding == Overdue ~> ~Overdue
=============================================================================
