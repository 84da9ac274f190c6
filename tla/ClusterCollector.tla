-------------------------- MODULE ClusterCollector --------------------------
(***************************************************************************)
(* One Collect of the cluster collector: the list calls it makes one after *)
(* another, what each adds to the snapshot, and which of them may fail     *)
(* without consequence.                                                    *)
(*                                                                         *)
(* The lists are answered by the informer caches of the manager's client,  *)
(* of which there is one for every kind.  "cluster" is what these caches   *)
(* hold; it changes while the lists are taken, and the kinds change        *)
(* independently: a pod may be seen before its ReplicaSet is.              *)
(*                                                                         *)
(* A snapshot is the set of the facts it records: <<part, object, value>>. *)
(* A counter of the code is the set of what it counts, a sum the set of    *)
(* its summands.                                                           *)
(***************************************************************************)
EXTENDS Integers, Sequences, FiniteSets

CONSTANTS
  Objects,          \* everything the caches may ever hold
  KindOf,           \* the kind of each object
  NamespaceOf,      \* its namespace ("" if it has none)
  OwnerOf,          \* the object its controller reference names, or NoOwner
  StatesOf,         \* the states it may be in, Absent among them if it may go
  InitialClusters,  \* what the caches may hold when the collection starts
  SystemNamespaces, \* systemNamespaces of the code
  Mode, ExcludeNamespaces,        \* the scope
  Addons,           \* addonSignatures: the add-ons that are recognised,
  Deployments, DaemonSets, CRDGroups, \* and what each is recognised by
  Absent, NoOwner, NoNode, NoClass,   \* "not there" for each use
  Pending, Failed,  \* no outcome yet, an error
  MaxChanges,       \* bound: changes of the cluster during the collection
  MaxFailures       \* bound: list calls that fail

ReplicaKinds == {"Deployment", "StatefulSet"}
WorkloadKinds == {"Deployment", "StatefulSet", "DaemonSet", "Job"}
PodPhases == {"Pending", "Running", "Succeeded", "Failed"}
Pressures == {"MemoryPressure", "DiskPressure", "PIDPressure"}

\* What the code reads of the objects of a kind.  crashing: restartPolicy is
\* Always and a container waits in CrashLoopBackOff or for its image.  age is
\* in minutes.  A node that has just registered has no Ready condition.  A class
\* that a claim names and that does not exist is an object that is Absent.
StateOfKind(kind) ==
  CASE kind = "Pod" ->
         [phase : PodPhases, ready : BOOLEAN, crashing : BOOLEAN,
          restarts : Nat, age : Nat, requests : Nat, node : Objects \cup {NoNode}]
    [] kind \in ReplicaKinds -> [ready : Nat, desired : Nat, version : STRING]
    [] kind = "DaemonSet" ->
         [unavailable : Nat, ready : Nat, desired : Nat, version : STRING]
    [] kind = "Job" -> [failed : BOOLEAN, active : Nat, succeeded : Nat]
    [] kind = "CronJob" -> [suspend : BOOLEAN]
    [] kind = "Node" -> [ready : {"True", "False", "Unknown", "none"},
                         pressure : SUBSET Pressures, allocatable : Nat]
    [] kind = "PodDisruptionBudget" -> [disruptionsAllowed : Nat]
    [] kind = "PersistentVolumeClaim" ->
         [phase : {"Bound", "Pending", "Lost"},
          class : {o \in Objects : KindOf[o] = "StorageClass"} \cup {NoClass}]
    [] kind = "StorageClass" ->
         [mode : {"Immediate", "WaitForFirstConsumer"}, default : BOOLEAN]
    [] kind = "Ingress" -> [services : SUBSET Objects, hasTLS : BOOLEAN]
    [] OTHER -> STRING

ASSUME ObjectsAssumption ==
  /\ DOMAIN KindOf = Objects /\ DOMAIN NamespaceOf = Objects
  /\ OwnerOf \in [Objects -> Objects \cup {NoOwner}] /\ NoOwner \notin Objects
  /\ DOMAIN StatesOf = Objects
  /\ \A o \in Objects : StatesOf[o] \subseteq StateOfKind(KindOf[o]) \cup {Absent}
  /\ \A c \in InitialClusters :
       DOMAIN c = Objects /\ \A o \in Objects : c[o] \in StatesOf[o]
  /\ Deployments \in [Addons -> SUBSET {o \in Objects : KindOf[o] = "Deployment"}]
  /\ DaemonSets \in [Addons -> SUBSET {o \in Objects : KindOf[o] = "DaemonSet"}]
  /\ CRDGroups \in [Addons -> SUBSET {o \in Objects : KindOf[o] = "APIGroup"}]

\* What Kubernetes guarantees: a pod with a container that waits is not ready, of
\* a DaemonSet what is available is ready, and a workload owns only what is in
\* its namespace, where the code looks for it.
ASSUME KubernetesAssumption ==
  /\ \A o \in Objects : \A s \in StatesOf[o] \ {Absent} :
       /\ KindOf[o] = "Pod" /\ s.crashing => ~s.ready
       /\ KindOf[o] = "DaemonSet" => s.desired - s.unavailable <= s.ready
  /\ \A o \in Objects :
       OwnerOf[o] # NoOwner /\ KindOf[OwnerOf[o]] \in WorkloadKinds \cup {"ReplicaSet"}
         => NamespaceOf[OwnerOf[o]] = NamespaceOf[o]

\* The clusters that are modelled have one default storage class at most, and
\* always the same.  Kubernetes lets several be marked; the code then takes the
\* one that is listed last.
ASSUME DefaultClassAssumption ==
  \A o, p \in Objects :
    \A s \in StatesOf[o] \ {Absent}, t \in StatesOf[p] \ {Absent} :
      (/\ KindOf[o] = "StorageClass" /\ KindOf[p] = "StorageClass"
       /\ s.default /\ t.default) => o = p

ASSUME BoundsAssumption == MaxChanges \in Nat /\ MaxFailures \in Nat

VARIABLES
  cluster,   \* what the caches hold: the state of every object
  pc,        \* the number of the call that is made next
  mem,       \* the maps Collect builds for the calls that follow
  snap,      \* the snapshot so far
  outcome,   \* Pending, Failed or the snapshot that was returned
  changes, failures, \* counters of the bounds
  always, sometime   \* history: the sightings of the whole, and of some part
                     \* of, the collection; read by no action

vars == <<cluster, pc, mem, snap, outcome, changes, failures, always, sometime>>

Larger(a, b) == IF a > b THEN a ELSE b

-----------------------------------------------------------------------------
(***************************************************************************)
(* The calls                                                               *)
(***************************************************************************)

Call(name, kind, fatal) == [name |-> name, kind |-> kind, fatal |-> fatal]

\* Collect, call by call.  An error of a fatal one ends the collection.
Calls == <<
  Call("ServerVersion", "Version", TRUE),
  Call("NamespaceCount", "Namespace", TRUE),
  Call("buildRSToDeployMap", "ReplicaSet", TRUE),
  Call("Pods", "Pod", TRUE),
  Call("WorkloadCollectors", "Deployment", TRUE),
  Call("collectDeployments", "Deployment", TRUE),
  Call("collectNodes", "Node", TRUE),
  Call("collectPDBs", "PodDisruptionBudget", TRUE),
  Call("collectStatefulSets", "StatefulSet", TRUE),
  Call("collectDaemonSets", "DaemonSet", TRUE),
  Call("collectJobs", "Job", TRUE),
  Call("collectServices", "Service", TRUE),
  Call("collectIngresses", "Ingress", FALSE),
  Call("collectWorkloads", "Deployment", TRUE),
  Call("collectWorkloads", "StatefulSet", TRUE),
  Call("collectWorkloads", "DaemonSet", TRUE),
  Call("collectWorkloads", "Job", TRUE),
  Call("collectWorkloads", "CronJob", TRUE),
  Call("collectPVCs", "PersistentVolumeClaim", FALSE),
  Call("storageClassBindingModes", "StorageClass", FALSE),
  Call("detectDeprecatedAPIs", "DeprecatedAPI", FALSE),
  Call("detectAddonGroups", "APIGroup", FALSE),
  Call("detectAddonDeployments", "Deployment", FALSE),
  Call("detectAddons", "DaemonSet", FALSE) >>

Sightings(c) == {<<o, c[o]>> : o \in Objects}

\* What a list of a kind shows, and what an empty one would.
OfKind(c, kind) == {s \in Sightings(c) : KindOf[s[1]] = kind}
Empty(kind) == {<<o, Absent>> : o \in {o \in Objects : KindOf[o] = kind}}

Listed(P, kind) == {s \in P : KindOf[s[1]] = kind /\ s[2] # Absent}

Excluded ==
  ExcludeNamespaces \cup (IF Mode = "application" THEN SystemNamespaces ELSE {})

InScope(P, kind) == {s \in Listed(P, kind) : NamespaceOf[s[1]] \notin Excluded}

-----------------------------------------------------------------------------
(***************************************************************************)
(* Pods                                                                    *)
(***************************************************************************)

AbnormalRestartRate24h == 10

\* restarts / age * 24, the age at least an hour, of a pod that is crashing.
IsRestartingAbnormally(s) ==
  /\ s.crashing /\ s.restarts > 0
  /\ s.restarts * 24 * 60 >= AbnormalRestartRate24h * Larger(s.age, 60)

PodsOfAllNamespaces(P) == {s \in Listed(P, "Pod") : s[2].phase # "Succeeded"}
Pods(P) == {s \in InScope(P, "Pod") : s[2].phase # "Succeeded"}

PodFacts(P) ==
  {<<"TotalPods", s[1], <<s[2].restarts, s[2].requests>> >> : s \in Pods(P)}
  \cup {<<"RestartingPods", s[1], "">> :
          s \in {s \in Pods(P) : IsRestartingAbnormally(s[2])}}
  \cup {<<"BarePods", s[1], IF s[2].ready THEN "Running" ELSE "Down">> :
          s \in {s \in Pods(P) : OwnerOf[s[1]] = NoOwner}}
  \cup {<<"PodIssues", s[1], s[2].restarts>> : s \in {s \in Pods(P) : ~s[2].ready}}

RSToDeploy(P) ==
  {<<s[1], OwnerOf[s[1]]>> :
     s \in {s \in Listed(P, "ReplicaSet") :
              OwnerOf[s[1]] # NoOwner /\ KindOf[OwnerOf[s[1]]] = "Deployment"}}

ResolveDirectOwner(pod, rsToDeploy) ==
  IF OwnerOf[pod] = NoOwner THEN {}
  ELSE {OwnerOf[pod]} \cap
         {o \in Objects : KindOf[o] \in WorkloadKinds}

\* The workloads a pod belongs to: at most one.
ResolveWorkload(pod, rsToDeploy) ==
  IF OwnerOf[pod] = NoOwner THEN {}
  ELSE IF KindOf[OwnerOf[pod]] = "ReplicaSet"
       THEN {r[2] : r \in {r \in rsToDeploy : r[1] = OwnerOf[pod]}}
       ELSE {OwnerOf[pod]} \cap
              {o \in Objects : KindOf[o] \in {"StatefulSet", "DaemonSet", "Job"}}

RecordPodNode(P, rsToDeploy) ==
  UNION {{<<w, s[2].node>> : w \in ResolveWorkload(s[1], rsToDeploy)} :
           s \in {s \in Pods(P) : s[2].node # NoNode}}

GroupNotReadyPods(P, rsToDeploy) ==
  UNION {{<<w, s[1]>> : w \in ResolveWorkload(s[1], rsToDeploy)} :
           s \in {s \in Pods(P) : ~s[2].ready}}

-----------------------------------------------------------------------------
(***************************************************************************)
(* Nodes and workloads                                                     *)
(***************************************************************************)

NodeStatus(s) == IF s.ready \in {"True", "none"} THEN "Ready" ELSE "NotReady"

NodeFacts(P) ==
  {<<"NodeWorkloads", s[1], NodeStatus(s[2])>> : s \in Listed(P, "Node")}
  \cup {<<"Capacity", s[1], s[2].allocatable>> : s \in Listed(P, "Node")}
  \cup UNION {{<<"NodeIssues", s[1], reason>> : reason \in s[2].pressure
                 \cup (IF NodeStatus(s[2]) = "NotReady" THEN {"NotReady"} ELSE {})} :
                s \in Listed(P, "Node")}

JobStatusOfCounters(s) ==
  CASE s.active > 0 -> "Active"
    [] s.active = 0 /\ s.succeeded > 0 -> "Completed"
    [] OTHER -> "Pending"
JobStatus(s) ==
  CASE s.failed -> "Failed"
    [] ~s.failed /\ s.active > 0 -> "Active"
    [] ~s.failed /\ s.active = 0 /\ s.succeeded > 0 -> "Completed"
    [] OTHER -> "Pending"

ReplicaStatus(ready, desired) ==
  CASE desired = 0 -> "Scaled to zero"
    [] desired > 0 /\ ready >= desired -> "Healthy"
    [] desired > 0 /\ ready = 0 -> "Down"
    [] OTHER -> "Degraded"

\* The status of a workload in the inventory.
WorkloadStatus(kind, s) ==
  CASE kind = "Job" -> JobStatus(s)
    [] kind = "CronJob" -> IF s.suspend THEN "Suspended" ELSE "Scheduled"
    [] OTHER -> ReplicaStatus(s.ready, s.desired)

\* The workloads with a problem, each kind by a rule of its own.
HasIssue(kind, s) ==
  CASE kind = "StatefulSet" -> s.ready < s.desired
    [] kind = "DaemonSet" -> s.unavailable > 0
    [] kind = "Job" -> s.active > 0 \/ s.failed

IssuePart == [StatefulSet |-> "StatefulSetIssues", DaemonSet |-> "DaemonSetIssues",
              Job |-> "JobIssues"]

\* What the report shows of an issue besides the pods that are not ready.
IssueDetail(kind, s) ==
  CASE kind = "StatefulSet" -> <<s.ready, s.desired>>
    [] kind = "DaemonSet" -> <<s.unavailable>>
    [] kind = "Job" -> <<IF s.failed THEN "Failed" ELSE "Active">>

PodsOf(workloads, podsBy) == {<<"Pods", g[1], g[2]>> : g \in {g \in podsBy : g[1] \in workloads}}

IssueFacts(P, kind, podsBy) ==
  LET issues == {s \in InScope(P, kind) : HasIssue(kind, s[2])}
  IN {<<IssuePart[kind], s[1], IssueDetail(kind, s[2])>> : s \in issues}
     \cup PodsOf({s[1] : s \in issues}, podsBy)
     \cup (IF kind = "Job" THEN {}
           ELSE {<<"Resources", s[1], kind>> : s \in InScope(P, kind)})

DeploymentFacts(P, podsBy) ==
  {<<"DeploymentWorkloads", s[1], <<s[2].ready, s[2].desired>> >> :
     s \in InScope(P, "Deployment")}
  \cup PodsOf({s[1] : s \in InScope(P, "Deployment")}, podsBy)

WorkloadFacts(P, kind, nodesBy) ==
  {<<"Workloads", s[1], WorkloadStatus(kind, s[2])>> : s \in InScope(P, kind)}
  \cup {<<"RunsOn", g[1], g[2]>> :
          g \in {g \in nodesBy : \E s \in InScope(P, kind) : s[1] = g[1]}}

-----------------------------------------------------------------------------
(***************************************************************************)
(* Network, storage, deprecated APIs, add-ons                              *)
(***************************************************************************)

IngressFacts(P) ==
  {<<"Ingresses", s[1], s[2]>> : s \in InScope(P, "Ingress")}

PDBFacts(P) ==
  {<<"PDBIssues", s[1], "">> :
     s \in {s \in InScope(P, "PodDisruptionBudget") : s[2].disruptionsAllowed = 0}}

\* The binding mode looked up for a class: "" for one that is not listed.
BindingModes(P, class) ==
  {s[2].mode : s \in {s \in Listed(P, "StorageClass") : s[1] = class}}
  \cup (IF <<class, Absent>> \in P THEN {""} ELSE {})

\* A claim that names no class has the mode of the default one, if any.
DefaultClasses(P) ==
  {s[1] : s \in {s \in Listed(P, "StorageClass") : s[2].default}}

NoDefaultClass(P) ==
  \A o \in {o \in Objects : KindOf[o] = "StorageClass"} :
    \E s \in P : s[1] = o /\ (s[2] = Absent \/ ~s[2].default)

ClaimModes(P, claim) ==
  IF claim.class # NoClass THEN BindingModes(P, claim.class)
  ELSE UNION {BindingModes(P, class) : class \in DefaultClasses(P)}
       \cup (IF NoDefaultClass(P) THEN {""} ELSE {})

PVCFacts(P, claims) ==
  UNION {{<<"PVCs", s[1], <<s[2].phase, mode>> >> : mode \in ClaimModes(P, s[2])} :
           s \in claims}

DeprecatedAPIFacts(P) ==
  {<<"DeprecatedAPIs", s[1], "">> : s \in Listed(P, "DeprecatedAPI")}

\* The detections of an add-on that the lists support: the first Deployment in
\* the list whose name matches, which may be any of them; else a DaemonSet;
\* else a registered group.
Detections(P, addon) ==
  LET Of(names) == {s \in P : s[1] \in names /\ s[2] # Absent}
      None(names) == \A o \in names : <<o, Absent>> \in P
      via == {<<"deployment", s[2].version>> : s \in Of(Deployments[addon])}
      dsets == {<<"daemonset", s[2].version>> : s \in Of(DaemonSets[addon])}
  IN via
     \cup (IF None(Deployments[addon]) THEN dsets ELSE {})
     \cup (IF /\ None(Deployments[addon]) /\ None(DaemonSets[addon])
              /\ Of(CRDGroups[addon]) # {}
           THEN {<<"crd", "">>} ELSE {})

AddonFacts(P) ==
  UNION {{<<"DetectedAddons", addon, d>> : d \in Detections(P, addon)} :
           addon \in Addons}

-----------------------------------------------------------------------------
(***************************************************************************)
(* What a call remembers and what it records                               *)
(***************************************************************************)

Nothing == [rsToDeploy |-> {}, podsBy |-> {}, nodesBy |-> {}, claims |-> {},
            addonLists |-> {}]

RememberPodsAgain(call, P, m) ==
  LET now == Sightings(cluster)
  IN CASE call.name = "buildRSToDeployMap" -> [m EXCEPT !.rsToDeploy = RSToDeploy(P)]
       [] call.name = "Pods" -> [m EXCEPT !.podsBy = GroupNotReadyPods(P, m.rsToDeploy)]
       [] call.name = "collectWorkloads" ->
            [m EXCEPT !.nodesBy = RecordPodNode(now, m.rsToDeploy)]
       [] call.name = "collectPVCs" ->
            [m EXCEPT !.claims = InScope(P, "PersistentVolumeClaim")]
       [] call.name \in {"detectAddonGroups", "detectAddonDeployments"} ->
            [m EXCEPT !.addonLists = @ \cup {s \in P : KindOf[s[1]] = call.kind}]
       [] OTHER -> m

\* m is what was remembered before, P what the call showed.
Remember(call, P, m) ==
  CASE call.name = "buildRSToDeployMap" -> [m EXCEPT !.rsToDeploy = RSToDeploy(P)]
    [] call.name = "Pods" ->
         [m EXCEPT !.podsBy = GroupNotReadyPods(P, m.rsToDeploy),
                   !.nodesBy = RecordPodNode(P, m.rsToDeploy)]
    [] call.name = "collectPVCs" ->
         [m EXCEPT !.claims = InScope(P, "PersistentVolumeClaim")]
    [] call.name \in {"detectAddonGroups", "detectAddonDeployments"} ->
         [m EXCEPT !.addonLists = @ \cup {s \in P : KindOf[s[1]] = call.kind}]
    [] OTHER -> m

\* All that the calls may record; the add-ons of which the last call records
\* one detection each.
Facts(call, P, m) ==
  CASE call.name = "ServerVersion" ->
         {<<"ClusterVersion", s[1], s[2]>> : s \in Listed(P, "Version")}
    [] call.name = "NamespaceCount" ->
         {<<"NamespaceCount", s[1], "">> : s \in Listed(P, "Namespace")}
    [] call.name = "Pods" -> PodFacts(P)
    [] call.name = "WorkloadCollectors" ->
         {<<"Resources", s[1], "Deployment">> : s \in Listed(P, "Deployment")}
    [] call.name = "collectDeployments" -> DeploymentFacts(P, m.podsBy)
    [] call.name = "collectNodes" -> NodeFacts(P)
    [] call.name = "collectPDBs" -> PDBFacts(P)
    [] call.name \in {"collectStatefulSets", "collectDaemonSets", "collectJobs"} ->
         IssueFacts(P, call.kind, m.podsBy)
    [] call.name = "collectServices" ->
         {<<"Services", s[1], "">> : s \in InScope(P, "Service")}
    [] call.name = "collectIngresses" -> IngressFacts(P)
    [] call.name = "collectWorkloads" -> WorkloadFacts(P, call.kind, m.nodesBy)
    [] call.name = "storageClassBindingModes" -> PVCFacts(P, m.claims)
    [] call.name = "detectDeprecatedAPIs" -> DeprecatedAPIFacts(P)
    [] call.name = "detectAddons" -> AddonFacts(P \cup m.addonLists)
    [] OTHER -> {}

\* A snapshot holds one detection of an add-on, and every other fact.
OnePerAddon(facts, chosen) ==
  /\ chosen \subseteq facts
  /\ \A f \in facts : IF f[1] = "DetectedAddons"
                      THEN Cardinality({g \in chosen : g[1] = f[1] /\ g[2] = f[2]}) = 1
                      ELSE f \in chosen

\* One addon record for one detection.
Recordings(facts) ==
  LET addons == {f \in facts : f[1] = "DetectedAddons"}
  IN {(facts \ addons) \cup s :
        s \in {s \in SUBSET addons : OnePerAddon(addons, s)}}

-----------------------------------------------------------------------------

Init ==
  /\ cluster \in InitialClusters
  /\ pc = 1
  /\ mem = Nothing
  /\ snap = {}
  /\ outcome = Pending
  /\ changes = 0 /\ failures = 0
  /\ always = Sightings(cluster) /\ sometime = Sightings(cluster)

\* An event reaches one of the caches.
Change(o) ==
  /\ outcome = Pending /\ changes < MaxChanges
  /\ changes' = changes + 1
  /\ \E s \in StatesOf[o] \ {cluster[o]} : cluster' = [cluster EXCEPT ![o] = s]
  /\ always' = always \cap Sightings(cluster')
  /\ sometime' = sometime \cup Sightings(cluster')
  /\ UNCHANGED <<pc, mem, snap, outcome, failures>>

\* The next call answers with P.
Read(P) ==
  /\ mem' = Remember(Calls[pc], P, mem)
  /\ \E recorded \in Recordings(Facts(Calls[pc], P, mem')) : snap' = snap \cup recorded

List ==
  /\ outcome = Pending /\ pc <= Len(Calls)
  /\ Read(OfKind(cluster, Calls[pc].kind))
  /\ pc' = pc + 1
  /\ UNCHANGED <<cluster, outcome, changes, failures, always, sometime>>

\* An error that ends the collection.
ListFails ==
  /\ outcome = Pending /\ pc <= Len(Calls) /\ failures < MaxFailures
  /\ Calls[pc].fatal
  /\ failures' = failures + 1
  /\ outcome' = Failed
  /\ UNCHANGED <<cluster, pc, mem, snap, changes, always, sometime>>

AnyListOverlooked ==
  /\ outcome = Pending /\ pc <= Len(Calls) /\ failures < MaxFailures
  /\ failures' = failures + 1
  /\ \E known \in (IF Calls[pc].name = "detectDeprecatedAPIs"
                   THEN SUBSET Listed(OfKind(cluster, Calls[pc].kind), Calls[pc].kind)
                   ELSE {{}}) :
       LET blank == {s \in Empty(Calls[pc].kind) : \A k \in known : k[1] # s[1]}
       IN /\ Read(blank \cup known)
          /\ sometime' = sometime \cup blank
          /\ always' = {s \in always : \A b \in blank : b[1] = s[1] => b = s}
  /\ pc' = IF Calls[pc].name = "collectPVCs" THEN pc + 2 ELSE pc + 1
  /\ UNCHANGED <<cluster, outcome, changes>>

\* An error that is swallowed: the list counts as empty.  Without claims the
\* storage classes are not asked for; of the APIs that are served, some may be
\* known in spite of the error.
ListOverlooked ==
  /\ outcome = Pending /\ pc <= Len(Calls) /\ failures < MaxFailures
  /\ ~Calls[pc].fatal
  /\ failures' = failures + 1
  /\ \E known \in (IF Calls[pc].name = "detectDeprecatedAPIs"
                   THEN SUBSET Listed(OfKind(cluster, Calls[pc].kind), Calls[pc].kind)
                   ELSE {{}}) :
       LET blank == {s \in Empty(Calls[pc].kind) : \A k \in known : k[1] # s[1]}
       IN /\ Read(blank \cup known)
          /\ sometime' = sometime \cup blank
          /\ always' = {s \in always : \A b \in blank : b[1] = s[1] => b = s}
  /\ pc' = IF Calls[pc].name = "collectPVCs" THEN pc + 2 ELSE pc + 1
  /\ UNCHANGED <<cluster, outcome, changes>>

Return ==
  /\ outcome = Pending /\ pc > Len(Calls)
  /\ outcome' = snap
  /\ UNCHANGED <<cluster, pc, mem, snap, changes, failures, always, sometime>>

Next ==
  \/ \E o \in Objects : Change(o)
  \/ List \/ ListFails \/ ListOverlooked \/ Return

Spec == Init /\ [][Next]_vars

-----------------------------------------------------------------------------
(***************************************************************************)
(* Properties                                                              *)
(***************************************************************************)

\* The facts that follow from a set of sightings, whoever reads them when.
Remembered(P) ==
  [rsToDeploy |-> RSToDeploy(P),
   podsBy |-> GroupNotReadyPods(P, RSToDeploy(P)),
   nodesBy |-> RecordPodNode(P, RSToDeploy(P)),
   claims |-> InScope(P, "PersistentVolumeClaim"),
   addonLists |-> {}]

Says(P) == UNION {Facts(Calls[i], P, Remembered(P)) : i \in 1..Len(Calls)}

\* Of several Deployments that match one add-on, any may have been taken.
Covers(g, f) == g[1] = f[1] /\ g[2] = f[2] /\ (g[3] = f[3] \/ f[1] = "DetectedAddons")

Returned == outcome # Pending /\ outcome # Failed

Possible == UNION {{<<o, s>> : s \in StatesOf[o] \cup {Absent}} : o \in Objects}

\* The markers of outcome are no snapshots.
ASSUME OutcomeAssumption ==
  Pending # Failed /\ Pending \notin SUBSET Says(Possible) /\ Failed \notin SUBSET Says(Possible)

\* Every variable has its type, and whatever was recorded or remembered out of
\* a namespace that the scope filters is in scope.  What has no namespace, the
\* add-ons and the Deployments among the Resources are not filtered.
Unfiltered == {"ClusterVersion", "NamespaceCount", "Resources", "NodeWorkloads",
               "Capacity", "NodeIssues", "DeprecatedAPIs", "DetectedAddons"}
TypeOK ==
  /\ DOMAIN cluster = Objects /\ \A o \in Objects : cluster[o] \in StatesOf[o]
  /\ pc \in 1..Len(Calls) + 1
  /\ mem.rsToDeploy \subseteq Objects \X Objects
  /\ mem.podsBy \subseteq Objects \X Objects
  /\ mem.nodesBy \subseteq Objects \X Objects
  /\ mem.claims \subseteq Possible /\ mem.addonLists \subseteq Possible
  /\ outcome \in {Pending, Failed, snap}
  /\ changes \in 0..MaxChanges /\ failures \in 0..MaxFailures
  /\ always \subseteq sometime /\ sometime \subseteq Possible
  /\ \A f \in snap : f[1] \in Unfiltered \/ NamespaceOf[f[2]] \notin Excluded

\* The snapshot holds nothing but what follows from states seen at some time
\* during Collect, and all that follows from what did not change, although the
\* lists are taken one after another and some may fail unnoticed.
Interval == INSTANCE IntervalSnapshot WITH
  Says <- Says, Covers <- Covers,
  Blanks <- UNION {SUBSET Empty(Calls[i].kind) : i \in {i \in 1..Len(Calls) : ~Calls[i].fatal}},
  world <- Sightings(cluster), answer <- outcome
KeepsInterval == Interval!Spec

\* If a single object changes during Collect, and its kind is listed once, the
\* snapshot is that of a moment: the one before the change or the one after.
ListedOnce(o) == Cardinality({i \in 1..Len(Calls) : Calls[i].kind = KindOf[o]}) = 1

Moments == IF sometime = always THEN {always}
           ELSE {always \cup {s} : s \in sometime \ always}

OneChangeIsOneMoment ==
  Returned /\ changes <= 1 /\ failures = 0
  /\ (\A s \in sometime \ always : ListedOnce(s[1]))
    => \E P \in Moments : outcome \in Recordings(Says(P))

\* What the report says of an object that did not change and what the graph is
\* told of it agree, though they come from different lists by different rules:
\* a StatefulSet, a Job or a Deployment has a problem in both or in neither, a
\* DaemonSet that is down in the graph is an issue of the report, and a pod
\* that restarts abnormally, or is shown as down, is among the pods not ready.
Troubled == {"Down", "Degraded"}
InPart(part, o) == \E f \in outcome : f[1] = part /\ f[2] = o
ViewsAgree ==
  Returned =>
    /\ \A f \in outcome : f[1] = "Workloads" /\ (\E s \in always : s[1] = f[2]) =>
         CASE KindOf[f[2]] = "StatefulSet" ->
                f[3] \in Troubled <=> InPart("StatefulSetIssues", f[2])
           [] KindOf[f[2]] = "DaemonSet" ->
                f[3] \in Troubled => InPart("DaemonSetIssues", f[2])
           [] KindOf[f[2]] = "Job" ->
                \A status \in {"Active", "Failed"} :
                  f[3] = status <=> <<"JobIssues", f[2], <<status>> >> \in outcome
           [] KindOf[f[2]] = "Deployment" ->
                f[3] \in Troubled <=> \E d \in outcome :
                  d[1] = "DeploymentWorkloads" /\ d[2] = f[2] /\ d[3][1] < d[3][2]
           [] OTHER -> TRUE
    /\ \A f \in outcome : f[1] \in {"RestartingPods", "BarePods"} =>
         f[3] # "Running" <=> InPart("PodIssues", f[2])

\* A pod that is not ready, and stays so, has a place in the graph where its
\* failure can be seen - itself if it is standalone, else its workload - and
\* under the workload in the report, if that is the Deployment of its ReplicaSet;
\* unless its owner is none of the workloads that are listed.
WorkloadOf(pod) ==
  IF KindOf[OwnerOf[pod]] = "ReplicaSet" THEN OwnerOf[OwnerOf[pod]] ELSE OwnerOf[pod]
Lasts(o) == \E s \in always : s[1] = o /\ s[2] # Absent
EveryFailureHasAPlace ==
  Returned =>
    \A f \in outcome : f[1] = "PodIssues" /\ Lasts(f[2]) =>
      IF OwnerOf[f[2]] = NoOwner THEN <<"BarePods", f[2], "Down">> \in outcome
      ELSE LET w == WorkloadOf(f[2])
           IN Lasts(OwnerOf[f[2]]) /\ Lasts(w) /\ KindOf[w] \in WorkloadKinds =>
                /\ InPart("Workloads", w)
                /\ KindOf[w] = "Deployment" /\ KindOf[OwnerOf[f[2]]] = "ReplicaSet"
                     => <<"Pods", w, f[2]>> \in outcome

=============================================================================
