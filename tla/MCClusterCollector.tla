------------------------- MODULE MCClusterCollector -------------------------
(* A small cluster: one of every kind the collector lists, two namespaces of  *)
(* which one may be out of scope, and two Deployments that match one add-on.  *)
EXTENDS ClusterCollector, TLC

Obj(kind, ns, owner, states) == [kind |-> kind, ns |-> ns, owner |-> owner, states |-> states]

Pod(phase, ready, crashing, restarts, age, node) ==
  [phase |-> phase, ready |-> ready, crashing |-> crashing,
   restarts |-> restarts, age |-> age, requests |-> 1, node |-> node]
Fine == Pod("Running", TRUE, FALSE, 0, 90, "node")
Replicas(ready, desired) == [ready |-> ready, desired |-> desired, version |-> "1"]

Table ==
  ("v1.30" :> Obj("Version", "", NoOwner, {"v1.30"})) @@
  ("app" :> Obj("Namespace", "", NoOwner, {"there"})) @@
  ("web" :> Obj("Deployment", "app", NoOwner, {Replicas(1, 1), Replicas(0, 1)})) @@
  ("web-1" :> Obj("ReplicaSet", "app", "web", {"there", Absent})) @@
  ("web-1-x" :> Obj("Pod", "app", "web-1",
      {Fine, Pod("Running", FALSE, TRUE, 1, 144, "node")})) @@
  ("old" :> Obj("ReplicaSet", "app", NoOwner, {"there"})) @@
  ("old-x" :> Obj("Pod", "app", "old", {Pod("Failed", FALSE, FALSE, 3, 90, "node")})) @@
  ("solo" :> Obj("Pod", "app", NoOwner,
      {Fine, Pod("Pending", FALSE, FALSE, 0, 9, NoNode),
       Pod("Succeeded", FALSE, FALSE, 0, 9, "node")})) @@
  ("db" :> Obj("StatefulSet", "app", NoOwner,
      {Replicas(1, 2), Replicas(2, 2), Replicas(0, 0)})) @@
  ("db-0" :> Obj("Pod", "app", "db", {Pod("Running", FALSE, TRUE, 1, 145, "node"), Absent})) @@
  ("agent" :> Obj("DaemonSet", "kube-system", NoOwner,
      {[unavailable |-> 1, ready |-> 1, desired |-> 1, version |-> "1"],
       [unavailable |-> 1, ready |-> 0, desired |-> 1, version |-> "1"]})) @@
  ("agent-x" :> Obj("Pod", "kube-system", "agent", {Fine, [Fine EXCEPT !.ready = FALSE]})) @@
  ("once" :> Obj("Job", "app", NoOwner,
      {[failed |-> TRUE, active |-> 0, succeeded |-> 0],
       [failed |-> FALSE, active |-> 1, succeeded |-> 1],
       [failed |-> FALSE, active |-> 0, succeeded |-> 1]})) @@
  ("nightly" :> Obj("CronJob", "app", NoOwner, {[suspend |-> FALSE]})) @@
  ("node" :> Obj("Node", "", NoOwner,
      {[ready |-> "True", pressure |-> {}, allocatable |-> 8],
       [ready |-> "Unknown", pressure |-> {"DiskPressure"}, allocatable |-> 8],
       [ready |-> "none", pressure |-> {}, allocatable |-> 8]})) @@
  ("budget" :> Obj("PodDisruptionBudget", "app", NoOwner,
      {[disruptionsAllowed |-> 0], [disruptionsAllowed |-> 1]})) @@
  ("front" :> Obj("Service", "app", NoOwner, {"there"})) @@
  ("entry" :> Obj("Ingress", "app", NoOwner, {[services |-> {"front"}, hasTLS |-> TRUE]})) @@
  ("data" :> Obj("PersistentVolumeClaim", "app", NoOwner,
      {[phase |-> "Pending", class |-> "lazy"], [phase |-> "Lost", class |-> NoClass]})) @@
  ("lazy" :> Obj("StorageClass", "", NoOwner,
      {[mode |-> "WaitForFirstConsumer", default |-> TRUE], Absent})) @@
  ("psp" :> Obj("DeprecatedAPI", "", NoOwner, {"there"})) @@
  ("cert-manager.io" :> Obj("APIGroup", "", NoOwner, {"there"})) @@
  ("cert-manager" :> Obj("Deployment", "kube-system", NoOwner, {Replicas(1, 1), Absent})) @@
  ("cert-manager-webhook" :> Obj("Deployment", "kube-system", NoOwner,
      {[Replicas(1, 1) EXCEPT !.version = "2"]}))

MCObjects == DOMAIN Table
MCKindOf == [o \in MCObjects |-> Table[o].kind]
MCNamespaceOf == [o \in MCObjects |-> Table[o].ns]
MCOwnerOf == [o \in MCObjects |-> Table[o].owner]
MCStatesOf == [o \in MCObjects |-> Table[o].states]

\* A cluster in which nothing is wrong that may be right, and one in which all
\* is that may be.
Good == [o \in MCObjects |->
  CASE o = "web" -> Replicas(1, 1) [] o = "db" -> Replicas(2, 2)
    [] o \in {"web-1-x", "solo", "agent-x"} -> Fine
    [] OTHER -> CHOOSE s \in Table[o].states : s # Absent]
Bad == [o \in MCObjects |->
  CASE o = "web" -> Replicas(0, 1) [] o = "db" -> Replicas(1, 2)
    [] o = "node" -> [ready |-> "Unknown", pressure |-> {"DiskPressure"}, allocatable |-> 8]
    [] o = "once" -> [failed |-> TRUE, active |-> 0, succeeded |-> 0]
    [] o = "budget" -> [disruptionsAllowed |-> 0]
    [] o = "data" -> [phase |-> "Lost", class |-> NoClass]
    [] o = "web-1-x" -> Pod("Running", FALSE, TRUE, 1, 144, "node")
    [] o = "solo" -> Pod("Pending", FALSE, FALSE, 0, 9, NoNode)
    [] o = "agent-x" -> [Fine EXCEPT !.ready = FALSE]
    [] OTHER -> CHOOSE s \in Table[o].states : s # Absent]
MCInitialClusters == {Good, Bad}

MCDeployments == [a \in {"cert-manager"} |-> {"cert-manager", "cert-manager-webhook"}]
MCDaemonSets == [a \in {"cert-manager"} |-> {}]
MCCRDGroups == [a \in {"cert-manager"} |-> {"cert-manager.io"}]

\* Sets that are no snapshots.
MCPending == {<<"pending", "", "">>}
MCFailed == {<<"failed", "", "">>}

=============================================================================
