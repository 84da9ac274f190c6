----------------------- MODULE ClusterCollectorProofs -----------------------
(***************************************************************************)
(* Theorems about ClusterCollector, for any objects, add-ons and scope, and *)
(* any number of changes and failures.                                     *)
(***************************************************************************)
EXTENDS ClusterCollector, FiniteSetTheorems, TLAPS

\* The sightings of a kind among P, those of the absent objects too.
Sighted(P, kind) == {s \in P : KindOf[s[1]] = kind}

-----------------------------------------------------------------------------
(***************************************************************************)
(* The calls                                                               *)
(***************************************************************************)

WorkloadListKinds == {"Deployment", "StatefulSet", "DaemonSet", "Job", "CronJob"}
IssueKinds == {"StatefulSet", "DaemonSet", "Job"}

\* A call of this name is of this kind and has a number among these.
Entry(call, i, name, kinds, numbers) ==
  call.name = name => call.kind \in kinds /\ i \in numbers

LEMMA NumberOfCalls == Len(Calls) = 24
BY DEF Calls

\* Collect's calls by name: the kind each lists and its place in the order.
LEMMA CallTable ==
  ASSUME NEW i \in 1 .. Len(Calls)
  PROVE  /\ Entry(Calls[i], i, "ServerVersion", {"Version"}, {1})
         /\ Entry(Calls[i], i, "NamespaceCount", {"Namespace"}, {2})
         /\ Entry(Calls[i], i, "buildRSToDeployMap", {"ReplicaSet"}, {3})
         /\ Entry(Calls[i], i, "Pods", {"Pod"}, {4})
         /\ Entry(Calls[i], i, "WorkloadCollectors", {"Deployment"}, {5})
         /\ Entry(Calls[i], i, "collectDeployments", {"Deployment"}, {6})
         /\ Entry(Calls[i], i, "collectNodes", {"Node"}, {7})
         /\ Entry(Calls[i], i, "collectPDBs", {"PodDisruptionBudget"}, {8})
         /\ Entry(Calls[i], i, "collectStatefulSets", {"StatefulSet"}, {9})
         /\ Entry(Calls[i], i, "collectDaemonSets", {"DaemonSet"}, {10})
         /\ Entry(Calls[i], i, "collectJobs", {"Job"}, {11})
         /\ Entry(Calls[i], i, "collectServices", {"Service"}, {12})
         /\ Entry(Calls[i], i, "collectIngresses", {"Ingress"}, {13})
         /\ Entry(Calls[i], i, "collectWorkloads", WorkloadListKinds, 14 .. 18)
         /\ Entry(Calls[i], i, "collectPVCs", {"PersistentVolumeClaim"}, {19})
         /\ Entry(Calls[i], i, "storageClassBindingModes", {"StorageClass"}, {20})
         /\ Entry(Calls[i], i, "detectDeprecatedAPIs", {"DeprecatedAPI"}, {21})
         /\ Entry(Calls[i], i, "detectAddonGroups", {"APIGroup"}, {22})
         /\ Entry(Calls[i], i, "detectAddonDeployments", {"Deployment"}, {23})
         /\ Entry(Calls[i], i, "detectAddons", {"DaemonSet"}, {24})
<1>1. i \in 1 .. 24
  BY NumberOfCalls
<1> QED BY <1>1 DEF Calls, Call, Entry, WorkloadListKinds

\* The calls of the numbers on which what is remembered depends.
LEMMA CallsByNumber ==
  /\ Calls[3].name = "buildRSToDeployMap"
  /\ Calls[4].name = "Pods"
  /\ Calls[6].name = "collectDeployments"
  /\ Calls[14] = Call("collectWorkloads", "Deployment", TRUE)
  /\ Calls[15] = Call("collectWorkloads", "StatefulSet", TRUE)
  /\ Calls[16] = Call("collectWorkloads", "DaemonSet", TRUE)
  /\ Calls[17] = Call("collectWorkloads", "Job", TRUE)
  /\ Calls[9] = Call("collectStatefulSets", "StatefulSet", TRUE)
  /\ Calls[10] = Call("collectDaemonSets", "DaemonSet", TRUE)
  /\ Calls[11] = Call("collectJobs", "Job", TRUE)
  /\ Calls[19].name = "collectPVCs"
  /\ Calls[20].name = "storageClassBindingModes"
  /\ Calls[22] = Call("detectAddonGroups", "APIGroup", FALSE)
  /\ Calls[23] = Call("detectAddonDeployments", "Deployment", FALSE)
  /\ Calls[24].name = "detectAddons"
BY DEF Calls, Call

-----------------------------------------------------------------------------
(***************************************************************************)
(* What more sightings say                                                 *)
(*                                                                         *)
(* Every list, map and record of the collector grows with the sightings of *)
(* the kinds it is made from: also where the code treats an absence, which *)
(* is a sighting too.                                                      *)
(***************************************************************************)

LEMMA ListedGrows ==
  ASSUME NEW P, NEW Q, NEW kind, Sighted(P, kind) \subseteq Q
  PROVE  Listed(P, kind) \subseteq Listed(Q, kind) /\ InScope(P, kind) \subseteq InScope(Q, kind)
BY DEF Sighted, Listed, InScope

LEMMA PodsGrow ==
  ASSUME NEW P, NEW Q, Sighted(P, "Pod") \subseteq Q
  PROVE  Pods(P) \subseteq Pods(Q)
BY ListedGrows DEF Pods

LEMMA RSToDeployGrows ==
  ASSUME NEW P, NEW Q, Sighted(P, "ReplicaSet") \subseteq Q
  PROVE  RSToDeploy(P) \subseteq RSToDeploy(Q)
BY ListedGrows DEF RSToDeploy

LEMMA WorkloadGrows ==
  ASSUME NEW pod, NEW m, NEW n, m \subseteq n
  PROVE  ResolveWorkload(pod, m) \subseteq ResolveWorkload(pod, n)
BY DEF ResolveWorkload

\* What the two maps of a pod list hold.
LEMMA PodMaps ==
  ASSUME NEW P, NEW m
  PROVE  /\ \A g : g \in GroupNotReadyPods(P, m) <=>
                     \E s \in Pods(P) : /\ ~s[2].ready
                                        /\ \E w \in ResolveWorkload(s[1], m) : g = <<w, s[1]>>
         /\ \A g : g \in RecordPodNode(P, m) <=>
                     \E s \in Pods(P) : /\ s[2].node # NoNode
                                        /\ \E w \in ResolveWorkload(s[1], m) : g = <<w, s[2].node>>
BY DEF GroupNotReadyPods, RecordPodNode

LEMMA PodMapsGrow ==
  ASSUME NEW P, NEW Q, NEW m, NEW n, Sighted(P, "Pod") \subseteq Q, m \subseteq n
  PROVE  /\ GroupNotReadyPods(P, m) \subseteq GroupNotReadyPods(Q, n)
         /\ RecordPodNode(P, m) \subseteq RecordPodNode(Q, n)
<1>1. ASSUME NEW g \in GroupNotReadyPods(P, m) PROVE g \in GroupNotReadyPods(Q, n)
  BY <1>1, PodMaps, PodsGrow, WorkloadGrows
<1>2. ASSUME NEW g \in RecordPodNode(P, m) PROVE g \in RecordPodNode(Q, n)
  BY <1>2, PodMaps, PodsGrow, WorkloadGrows
<1> QED BY <1>1, <1>2

LEMMA PodFactsGrow ==
  ASSUME NEW P, NEW Q, Sighted(P, "Pod") \subseteq Q
  PROVE  PodFacts(P) \subseteq PodFacts(Q)
<1> DEFINE A == Pods(P)
           B == Pods(Q)
<1>1. A \subseteq B
  BY PodsGrow
<1> HIDE DEF A, B
<1> QED BY <1>1 DEF PodFacts, A, B

LEMMA NodeFactsGrow ==
  ASSUME NEW P, NEW Q, Sighted(P, "Node") \subseteq Q
  PROVE  NodeFacts(P) \subseteq NodeFacts(Q)
BY ListedGrows DEF NodeFacts

LEMMA PodsOfGrows ==
  ASSUME NEW A, NEW B, NEW m, NEW n, A \subseteq B, m \subseteq n
  PROVE  PodsOf(A, m) \subseteq PodsOf(B, n)
BY DEF PodsOf

LEMMA IssueFactsGrow ==
  ASSUME NEW P, NEW Q, NEW kind \in IssueKinds, NEW m, NEW n,
         Sighted(P, kind) \subseteq Q, m \subseteq n
  PROVE  IssueFacts(P, kind, m) \subseteq IssueFacts(Q, kind, n)
<1> DEFINE A == {s \in InScope(P, kind) : HasIssue(kind, s[2])}
           B == {s \in InScope(Q, kind) : HasIssue(kind, s[2])}
<1>1. A \subseteq B /\ InScope(P, kind) \subseteq InScope(Q, kind)
  BY ListedGrows
<1>2. PodsOf({s[1] : s \in A}, m) \subseteq PodsOf({s[1] : s \in B}, n)
  BY <1>1, PodsOfGrows
<1>3. {<<IssuePart[kind], s[1], IssueDetail(kind, s[2])>> : s \in A}
        \subseteq {<<IssuePart[kind], s[1], IssueDetail(kind, s[2])>> : s \in B}
  BY <1>1
<1>4. {<<"Resources", s[1], kind>> : s \in InScope(P, kind)}
        \subseteq {<<"Resources", s[1], kind>> : s \in InScope(Q, kind)}
  BY <1>1
<1> QED BY <1>2, <1>3, <1>4, Zenon DEF IssueFacts

LEMMA DeploymentFactsGrow ==
  ASSUME NEW P, NEW Q, NEW m, NEW n, Sighted(P, "Deployment") \subseteq Q, m \subseteq n
  PROVE  DeploymentFacts(P, m) \subseteq DeploymentFacts(Q, n)
<1>1. InScope(P, "Deployment") \subseteq InScope(Q, "Deployment")
  BY ListedGrows
<1>2. PodsOf({s[1] : s \in InScope(P, "Deployment")}, m)
        \subseteq PodsOf({s[1] : s \in InScope(Q, "Deployment")}, n)
  BY <1>1, PodsOfGrows
<1> QED BY <1>1, <1>2 DEF DeploymentFacts

LEMMA WorkloadFactsGrow ==
  ASSUME NEW P, NEW Q, NEW kind, NEW m, NEW n, Sighted(P, kind) \subseteq Q, m \subseteq n
  PROVE  WorkloadFacts(P, kind, m) \subseteq WorkloadFacts(Q, kind, n)
BY ListedGrows DEF WorkloadFacts

\* A claim names a storage class or none.
ClaimsNameClasses(claims) ==
  \A s \in claims : s[2].class = NoClass \/ KindOf[s[2].class] = "StorageClass"

LEMMA ClaimModesGrow ==
  ASSUME NEW P, NEW Q, Sighted(P, "StorageClass") \subseteq Q,
         NEW claim, claim.class = NoClass \/ KindOf[claim.class] = "StorageClass"
  PROVE  ClaimModes(P, claim) \subseteq ClaimModes(Q, claim)
<1>1. ASSUME NEW class, KindOf[class] = "StorageClass"
      PROVE  BindingModes(P, class) \subseteq BindingModes(Q, class)
  <2>1. Listed(P, "StorageClass") \subseteq Listed(Q, "StorageClass")
    BY ListedGrows
  <2>2. <<class, Absent>> \in P => <<class, Absent>> \in Q
    BY <1>1 DEF Sighted
  <2> QED BY <2>1, <2>2 DEF BindingModes
<1>2. \A class \in DefaultClasses(P) :
        class \in DefaultClasses(Q) /\ KindOf[class] = "StorageClass"
  <2>1. SUFFICES ASSUME NEW s \in Listed(P, "StorageClass"), s[2].default
                 PROVE  s[1] \in DefaultClasses(Q) /\ KindOf[s[1]] = "StorageClass"
    BY DEF DefaultClasses
  <2>2. s \in Listed(Q, "StorageClass")
    BY ListedGrows
  <2> QED BY <2>1, <2>2 DEF DefaultClasses, Listed
<1>3. NoDefaultClass(P) => NoDefaultClass(Q)
  BY DEF NoDefaultClass, Sighted
<1> QED BY <1>1, <1>2, <1>3 DEF ClaimModes

LEMMA PVCFactsGrow ==
  ASSUME NEW P, NEW Q, Sighted(P, "StorageClass") \subseteq Q,
         NEW m, NEW n, m \subseteq n, ClaimsNameClasses(m)
  PROVE  PVCFacts(P, m) \subseteq PVCFacts(Q, n)
<1>1. SUFFICES ASSUME NEW s \in m, NEW mode \in ClaimModes(P, s[2])
               PROVE  <<"PVCs", s[1], <<s[2].phase, mode>> >> \in PVCFacts(Q, n)
  BY DEF PVCFacts
<1>2. mode \in ClaimModes(Q, s[2])
  BY <1>1, ClaimModesGrow DEF ClaimsNameClasses
<1> QED BY <1>1, <1>2 DEF PVCFacts

AddonKinds == {"Deployment", "DaemonSet", "APIGroup"}

LEMMA AddonFactsGrow ==
  ASSUME NEW P, NEW Q, \A kind \in AddonKinds : Sighted(P, kind) \subseteq Q
  PROVE  AddonFacts(P) \subseteq AddonFacts(Q)
<1>1. SUFFICES ASSUME NEW addon \in Addons
               PROVE  Detections(P, addon) \subseteq Detections(Q, addon)
  BY DEF AddonFacts
<1> DEFINE Of(R, names) == {s \in R : s[1] \in names /\ s[2] # Absent}
           None(R, names) == \A o \in names : <<o, Absent>> \in R
<1>2. ASSUME NEW kind \in AddonKinds, NEW names \in SUBSET {o \in Objects : KindOf[o] = kind}
      PROVE  Of(P, names) \subseteq Of(Q, names) /\ (None(P, names) => None(Q, names))
  BY <1>2 DEF Sighted
<1>3. /\ Deployments[addon] \in SUBSET {o \in Objects : KindOf[o] = "Deployment"}
      /\ DaemonSets[addon] \in SUBSET {o \in Objects : KindOf[o] = "DaemonSet"}
      /\ CRDGroups[addon] \in SUBSET {o \in Objects : KindOf[o] = "APIGroup"}
  BY ObjectsAssumption
<1>4. /\ Of(P, Deployments[addon]) \subseteq Of(Q, Deployments[addon])
      /\ Of(P, DaemonSets[addon]) \subseteq Of(Q, DaemonSets[addon])
      /\ Of(P, CRDGroups[addon]) \subseteq Of(Q, CRDGroups[addon])
      /\ None(P, Deployments[addon]) => None(Q, Deployments[addon])
      /\ None(P, DaemonSets[addon]) => None(Q, DaemonSets[addon])
  BY <1>2, <1>3 DEF AddonKinds
<1> QED BY <1>4 DEF Detections


\* What each call records, by its name.
FactsByName(call, P, m) ==
  /\ call.name = "ServerVersion" =>
       Facts(call, P, m) = {<<"ClusterVersion", s[1], s[2]>> : s \in Listed(P, "Version")}
  /\ call.name = "NamespaceCount" =>
       Facts(call, P, m) = {<<"NamespaceCount", s[1], "">> : s \in Listed(P, "Namespace")}
  /\ call.name = "Pods" => Facts(call, P, m) = PodFacts(P)
  /\ call.name = "WorkloadCollectors" =>
       Facts(call, P, m) = {<<"Resources", s[1], "Deployment">> : s \in Listed(P, "Deployment")}
  /\ call.name = "collectDeployments" => Facts(call, P, m) = DeploymentFacts(P, m.podsBy)
  /\ call.name = "collectNodes" => Facts(call, P, m) = NodeFacts(P)
  /\ call.name = "collectPDBs" => Facts(call, P, m) = PDBFacts(P)
  /\ call.name \in {"collectStatefulSets", "collectDaemonSets", "collectJobs"} =>
       Facts(call, P, m) = IssueFacts(P, call.kind, m.podsBy)
  /\ call.name = "collectServices" =>
       Facts(call, P, m) = {<<"Services", s[1], "">> : s \in InScope(P, "Service")}
  /\ call.name = "collectIngresses" => Facts(call, P, m) = IngressFacts(P)
  /\ call.name = "collectWorkloads" => Facts(call, P, m) = WorkloadFacts(P, call.kind, m.nodesBy)
  /\ call.name = "storageClassBindingModes" => Facts(call, P, m) = PVCFacts(P, m.claims)
  /\ call.name = "detectDeprecatedAPIs" => Facts(call, P, m) = DeprecatedAPIFacts(P)
  /\ call.name = "detectAddons" => Facts(call, P, m) = AddonFacts(P \cup m.addonLists)
  /\ call.name \in {"buildRSToDeployMap", "collectPVCs", "detectAddonGroups",
                    "detectAddonDeployments"} => Facts(call, P, m) = {}

LEMMA FactsOfCall ==
  ASSUME NEW call, NEW P, NEW m
  PROVE  FactsByName(call, P, m)
BY DEF Facts, FactsByName

\* Every call has one of the names of the table.
CallNames ==
  {"ServerVersion", "NamespaceCount", "buildRSToDeployMap", "Pods", "WorkloadCollectors",
   "collectDeployments", "collectNodes", "collectPDBs", "collectStatefulSets",
   "collectDaemonSets", "collectJobs", "collectServices", "collectIngresses",
   "collectWorkloads", "collectPVCs", "storageClassBindingModes", "detectDeprecatedAPIs",
   "detectAddonGroups", "detectAddonDeployments", "detectAddons"}

LEMMA NamesOfCalls ==
  ASSUME NEW i \in 1 .. Len(Calls)
  PROVE  Calls[i].name \in CallNames
<1>1. i \in 1 .. 24
  BY NumberOfCalls
<1> QED BY <1>1 DEF Calls, Call, CallNames

\* More sightings, and more of what was remembered, give more facts.
LEMMA FactsGrow ==
  ASSUME NEW i \in 1 .. Len(Calls), NEW P, NEW Q, NEW m, NEW n,
         Sighted(P, Calls[i].kind) \subseteq Q,
         i > 4 => m.podsBy \subseteq n.podsBy /\ m.nodesBy \subseteq n.nodesBy,
         i > 19 => m.claims \subseteq n.claims /\ ClaimsNameClasses(m.claims),
         i = 24 => \A kind \in AddonKinds :
                     Sighted(P \cup m.addonLists, kind) \subseteq Q \cup n.addonLists
  PROVE  Facts(Calls[i], P, m) \subseteq Facts(Calls[i], Q, n)
<1> DEFINE call == Calls[i]
<1>1. FactsByName(call, P, m) /\ FactsByName(call, Q, n) /\ call.name \in CallNames
  BY FactsOfCall, NamesOfCalls
<1>2. CASE call.name \in {"ServerVersion", "NamespaceCount", "WorkloadCollectors",
                        "collectServices", "collectIngresses", "collectPDBs",
                        "detectDeprecatedAPIs"}
  <2>1. /\ call.name = "ServerVersion" => call.kind = "Version"
        /\ call.name = "NamespaceCount" => call.kind = "Namespace"
        /\ call.name = "WorkloadCollectors" => call.kind = "Deployment"
        /\ call.name = "collectServices" => call.kind = "Service"
        /\ call.name = "collectIngresses" => call.kind = "Ingress"
        /\ call.name = "collectPDBs" => call.kind = "PodDisruptionBudget"
        /\ call.name = "detectDeprecatedAPIs" => call.kind = "DeprecatedAPI"
    BY CallTable DEF Entry
  <2>2. /\ Listed(P, call.kind) \subseteq Listed(Q, call.kind)
        /\ InScope(P, call.kind) \subseteq InScope(Q, call.kind)
    BY ListedGrows
  <2>3. ASSUME call.name = "ServerVersion" PROVE Facts(call, P, m) \subseteq Facts(call, Q, n)
    BY <1>1, <2>1, <2>2, <2>3 DEF FactsByName
  <2>4. ASSUME call.name = "NamespaceCount" PROVE Facts(call, P, m) \subseteq Facts(call, Q, n)
    BY <1>1, <2>1, <2>2, <2>4 DEF FactsByName
  <2>5. ASSUME call.name = "WorkloadCollectors" PROVE Facts(call, P, m) \subseteq Facts(call, Q, n)
    BY <1>1, <2>1, <2>2, <2>5 DEF FactsByName
  <2>6. ASSUME call.name = "collectServices" PROVE Facts(call, P, m) \subseteq Facts(call, Q, n)
    BY <1>1, <2>1, <2>2, <2>6 DEF FactsByName
  <2>7. ASSUME call.name = "collectIngresses" PROVE Facts(call, P, m) \subseteq Facts(call, Q, n)
    BY <1>1, <2>1, <2>2, <2>7 DEF FactsByName, IngressFacts
  <2>8. ASSUME call.name = "collectPDBs" PROVE Facts(call, P, m) \subseteq Facts(call, Q, n)
    <3>1. InScope(P, "PodDisruptionBudget") \subseteq InScope(Q, "PodDisruptionBudget")
      BY <2>1, <2>2, <2>8
    <3>2. PDBFacts(P) \subseteq PDBFacts(Q)
      BY <3>1 DEF PDBFacts
    <3> QED BY <1>1, <2>8, <3>2 DEF FactsByName
  <2>9. ASSUME call.name = "detectDeprecatedAPIs" PROVE Facts(call, P, m) \subseteq Facts(call, Q, n)
    BY <1>1, <2>1, <2>2, <2>9 DEF FactsByName, DeprecatedAPIFacts
  <2> QED BY <1>2, <2>3, <2>4, <2>5, <2>6, <2>7, <2>8, <2>9
<1>3. CASE call.name = "Pods"
  BY <1>1, <1>3, CallTable, PodFactsGrow DEF Entry, FactsByName
<1>4. CASE call.name = "collectDeployments"
  <2>1. call.kind = "Deployment" /\ i > 4
    BY <1>4, CallTable DEF Entry
  <2> QED BY <1>1, <1>4, <2>1, DeploymentFactsGrow DEF FactsByName
<1>5. CASE call.name = "collectNodes"
  BY <1>1, <1>5, CallTable, NodeFactsGrow DEF Entry, FactsByName
<1>6. CASE call.name \in {"collectStatefulSets", "collectDaemonSets", "collectJobs"}
  <2>1. call.kind \in IssueKinds /\ i > 4
    BY <1>6, CallTable DEF Entry, IssueKinds
  <2>2. IssueFacts(P, call.kind, m.podsBy) \subseteq IssueFacts(Q, call.kind, n.podsBy)
    BY <2>1, IssueFactsGrow
  <2> QED BY <1>1, <1>6, <2>2 DEF FactsByName
<1>7. CASE call.name = "collectWorkloads"
  <2>1. i > 4
    BY <1>7, CallTable DEF Entry
  <2> QED BY <1>1, <1>7, <2>1, WorkloadFactsGrow DEF FactsByName
<1>8. CASE call.name = "storageClassBindingModes"
  <2>1. call.kind = "StorageClass" /\ i > 19
    BY <1>8, CallTable DEF Entry
  <2> QED BY <1>1, <1>8, <2>1, PVCFactsGrow DEF FactsByName
<1>9. CASE call.name = "detectAddons"
  <2>1. i = 24
    BY <1>9, CallTable DEF Entry
  <2> QED BY <1>1, <1>9, <2>1, AddonFactsGrow DEF FactsByName
<1>10. CASE call.name \in {"buildRSToDeployMap", "collectPVCs", "detectAddonGroups",
                         "detectAddonDeployments"}
  BY <1>1, <1>10 DEF FactsByName
<1> QED BY <1>1, <1>2, <1>3, <1>4, <1>5, <1>6, <1>7, <1>8, <1>9, <1>10 DEF CallNames

-----------------------------------------------------------------------------
(***************************************************************************)
(* What is remembered                                                      *)
(***************************************************************************)

Memories ==
  [rsToDeploy : SUBSET (Objects \X Objects), podsBy : SUBSET (Objects \X Objects),
   nodesBy : SUBSET (Objects \X Objects), claims : SUBSET Possible,
   addonLists : SUBSET Possible]

\* A possible sighting is of an object, in a state of its kind if it is there.
LEMMA PossibleSighting ==
  ASSUME NEW s \in Possible
  PROVE  /\ s = <<s[1], s[2]>> /\ s[1] \in Objects
         /\ s[2] # Absent => s[2] \in StatesOf[s[1]] /\ s[2] \in StateOfKind(KindOf[s[1]])
BY ObjectsAssumption DEF Possible

LEMMA PodState ==
  ASSUME NEW P \in SUBSET Possible, NEW s \in Pods(P)
  PROVE  /\ s \in P /\ s[1] \in Objects /\ KindOf[s[1]] = "Pod" /\ s[2] # Absent
         /\ s[2] \in StatesOf[s[1]]
         /\ s[2].ready \in BOOLEAN /\ s[2].crashing \in BOOLEAN
         /\ s[2].node # NoNode => s[2].node \in Objects
<1>1. s \in P /\ KindOf[s[1]] = "Pod" /\ s[2] # Absent
  BY DEF Pods, InScope, Listed
<1>2. s[2] \in StateOfKind("Pod") /\ s[1] \in Objects /\ s[2] \in StatesOf[s[1]]
  BY <1>1, PossibleSighting
<1>3. s[2] \in [phase : PodPhases, ready : BOOLEAN, crashing : BOOLEAN,
                restarts : Nat, age : Nat, requests : Nat, node : Objects \cup {NoNode}]
  BY <1>2 DEF StateOfKind, ReplicaKinds
<1>4. /\ s[2].ready \in BOOLEAN /\ s[2].crashing \in BOOLEAN
      /\ s[2].node \in Objects \cup {NoNode}
  BY <1>3
<1> QED BY <1>1, <1>2, <1>4

LEMMA MapTypes ==
  ASSUME NEW P \in SUBSET Possible, NEW m \in SUBSET (Objects \X Objects)
  PROVE  /\ RSToDeploy(P) \in SUBSET (Objects \X Objects)
         /\ GroupNotReadyPods(P, m) \in SUBSET (Objects \X Objects)
         /\ RecordPodNode(P, m) \in SUBSET (Objects \X Objects)
         /\ InScope(P, "PersistentVolumeClaim") \in SUBSET Possible
<1>1. RSToDeploy(P) \in SUBSET (Objects \X Objects)
  <2>1. SUFFICES ASSUME NEW s \in P, OwnerOf[s[1]] # NoOwner
                 PROVE  <<s[1], OwnerOf[s[1]]>> \in Objects \X Objects
    BY DEF RSToDeploy, Listed
  <2> QED BY <2>1, PossibleSighting, ObjectsAssumption
<1>2. \A o \in Objects : ResolveWorkload(o, m) \subseteq Objects
  BY ObjectsAssumption DEF ResolveWorkload
<1>3. ASSUME NEW g \in GroupNotReadyPods(P, m) PROVE g \in Objects \X Objects
  BY <1>2, <1>3, PodMaps, PodState
<1>4. ASSUME NEW g \in RecordPodNode(P, m) PROVE g \in Objects \X Objects
  BY <1>2, <1>4, PodMaps, PodState
<1>5. InScope(P, "PersistentVolumeClaim") \in SUBSET Possible
  BY DEF InScope, Listed
<1> QED BY <1>1, <1>3, <1>4, <1>5

LEMMA ClaimsOfPossible ==
  ASSUME NEW P \in SUBSET Possible
  PROVE  ClaimsNameClasses(InScope(P, "PersistentVolumeClaim"))
<1>1. SUFFICES ASSUME NEW s \in InScope(P, "PersistentVolumeClaim")
               PROVE  s[2].class = NoClass \/ KindOf[s[2].class] = "StorageClass"
  BY DEF ClaimsNameClasses
<1>2. s[2] \in StateOfKind("PersistentVolumeClaim")
  BY PossibleSighting DEF InScope, Listed
<1> QED BY <1>2 DEF StateOfKind

\* Remember, field by field.
LEMMA RememberFields ==
  ASSUME NEW call, NEW P \in SUBSET Possible, NEW m \in Memories
  PROVE  LET r == Remember(call, P, m)
         IN /\ r \in Memories
            /\ r.rsToDeploy = IF call.name = "buildRSToDeployMap"
                              THEN RSToDeploy(P) ELSE m.rsToDeploy
            /\ r.podsBy = IF call.name = "Pods"
                          THEN GroupNotReadyPods(P, m.rsToDeploy) ELSE m.podsBy
            /\ r.nodesBy = IF call.name = "Pods"
                           THEN RecordPodNode(P, m.rsToDeploy) ELSE m.nodesBy
            /\ r.claims = IF call.name = "collectPVCs"
                          THEN InScope(P, "PersistentVolumeClaim") ELSE m.claims
            /\ r.addonLists =
                 IF call.name \in {"detectAddonGroups", "detectAddonDeployments"}
                 THEN m.addonLists \cup Sighted(P, call.kind) ELSE m.addonLists
<1>1. /\ RSToDeploy(P) \in SUBSET (Objects \X Objects)
      /\ GroupNotReadyPods(P, m.rsToDeploy) \in SUBSET (Objects \X Objects)
      /\ RecordPodNode(P, m.rsToDeploy) \in SUBSET (Objects \X Objects)
      /\ InScope(P, "PersistentVolumeClaim") \in SUBSET Possible
      /\ m.addonLists \cup Sighted(P, call.kind) \in SUBSET Possible
  BY MapTypes DEF Memories, Sighted
<1>2. CASE call.name = "Pods"
  <2>1. Remember(call, P, m) =
          [m EXCEPT !.podsBy = GroupNotReadyPods(P, m.rsToDeploy),
                    !.nodesBy = RecordPodNode(P, m.rsToDeploy)]
    BY <1>2 DEF Remember
  <2> QED BY <1>1, <1>2, <2>1 DEF Memories
<1>3. CASE call.name = "buildRSToDeployMap"
  BY <1>1, <1>3 DEF Memories, Remember
<1>4. CASE call.name = "collectPVCs"
  BY <1>1, <1>4 DEF Memories, Remember
<1>5. CASE call.name \in {"detectAddonGroups", "detectAddonDeployments"}
  <2>1. Remember(call, P, m) = [m EXCEPT !.addonLists = m.addonLists \cup Sighted(P, call.kind)]
    BY <1>5 DEF Remember, Sighted
  <2> QED BY <1>1, <1>5, <2>1 DEF Memories
<1>6. CASE call.name \notin {"Pods", "buildRSToDeployMap", "collectPVCs",
                           "detectAddonGroups", "detectAddonDeployments"}
  BY <1>6 DEF Remember
<1> QED BY <1>2, <1>3, <1>4, <1>5, <1>6

\* m is between what follows from A and what follows from S, as far as the calls
\* before the nth have filled it.
MemoryBetween(m, A, S, n) ==
  /\ m.rsToDeploy \subseteq RSToDeploy(S)
  /\ n > 3 => RSToDeploy(A) \subseteq m.rsToDeploy
  /\ m.podsBy \subseteq GroupNotReadyPods(S, RSToDeploy(S))
  /\ n > 4 => GroupNotReadyPods(A, RSToDeploy(A)) \subseteq m.podsBy
  /\ m.nodesBy \subseteq RecordPodNode(S, RSToDeploy(S))
  /\ n > 4 => RecordPodNode(A, RSToDeploy(A)) \subseteq m.nodesBy
  /\ m.claims \subseteq InScope(S, "PersistentVolumeClaim")
  /\ n > 19 => InScope(A, "PersistentVolumeClaim") \subseteq m.claims
  /\ m.addonLists \subseteq S
  /\ n > 22 => Sighted(A, "APIGroup") \subseteq m.addonLists
  /\ n > 23 => Sighted(A, "Deployment") \subseteq m.addonLists

LEMMA MemoryLoosened ==
  ASSUME NEW A, NEW S, NEW A1, NEW S1, A1 \subseteq A, S \subseteq S1,
         NEW m, NEW n \in Nat, MemoryBetween(m, A, S, n)
  PROVE  MemoryBetween(m, A1, S1, n)
<1>1. \A kind : Sighted(A1, kind) \subseteq A /\ Sighted(S, kind) \subseteq S1
                /\ Sighted(A1, kind) \subseteq Sighted(A, kind)
  BY DEF Sighted
<1>2. RSToDeploy(A1) \subseteq RSToDeploy(A) /\ RSToDeploy(S) \subseteq RSToDeploy(S1)
  BY <1>1, RSToDeployGrows
<1>3. /\ GroupNotReadyPods(A1, RSToDeploy(A1)) \subseteq GroupNotReadyPods(A, RSToDeploy(A))
      /\ GroupNotReadyPods(S, RSToDeploy(S)) \subseteq GroupNotReadyPods(S1, RSToDeploy(S1))
      /\ RecordPodNode(A1, RSToDeploy(A1)) \subseteq RecordPodNode(A, RSToDeploy(A))
      /\ RecordPodNode(S, RSToDeploy(S)) \subseteq RecordPodNode(S1, RSToDeploy(S1))
  BY <1>1, <1>2, PodMapsGrow
<1>4. /\ InScope(A1, "PersistentVolumeClaim") \subseteq InScope(A, "PersistentVolumeClaim")
      /\ InScope(S, "PersistentVolumeClaim") \subseteq InScope(S1, "PersistentVolumeClaim")
  BY <1>1, ListedGrows
<1> QED BY <1>1, <1>2, <1>3, <1>4, Zenon DEF MemoryBetween

\* A call that shows what does not change of its kind, and nothing that was not
\* seen, fills its part of the memory.
LEMMA MemoryStep ==
  ASSUME NEW A, NEW S \in SUBSET Possible, NEW P, NEW i \in 1 .. Len(Calls),
         P \subseteq S, Sighted(A, Calls[i].kind) \subseteq P,
         NEW m \in Memories, MemoryBetween(m, A, S, i)
  PROVE  MemoryBetween(Remember(Calls[i], P, m), A, S, i + 1)
<1> DEFINE r == Remember(Calls[i], P, m)
           call == Calls[i]
<1>1. /\ r.rsToDeploy = IF call.name = "buildRSToDeployMap"
                        THEN RSToDeploy(P) ELSE m.rsToDeploy
      /\ r.podsBy = IF call.name = "Pods"
                    THEN GroupNotReadyPods(P, m.rsToDeploy) ELSE m.podsBy
      /\ r.nodesBy = IF call.name = "Pods"
                     THEN RecordPodNode(P, m.rsToDeploy) ELSE m.nodesBy
      /\ r.claims = IF call.name = "collectPVCs"
                    THEN InScope(P, "PersistentVolumeClaim") ELSE m.claims
      /\ r.addonLists =
           IF call.name \in {"detectAddonGroups", "detectAddonDeployments"}
           THEN m.addonLists \cup Sighted(P, call.kind) ELSE m.addonLists
  <2>1. P \in SUBSET Possible
    OBVIOUS
  <2> QED BY <2>1, RememberFields
<1>2. i \in 1 .. 24
  BY NumberOfCalls
<1>3. /\ call.name = "buildRSToDeployMap" => i = 3 /\ call.kind = "ReplicaSet"
      /\ call.name = "Pods" => i = 4 /\ call.kind = "Pod"
      /\ call.name = "collectPVCs" => i = 19 /\ call.kind = "PersistentVolumeClaim"
      /\ call.name = "detectAddonGroups" => i = 22 /\ call.kind = "APIGroup"
      /\ call.name = "detectAddonDeployments" => i = 23 /\ call.kind = "Deployment"
  BY CallTable DEF Entry
<1>4. /\ i = 3 => call.name = "buildRSToDeployMap"
      /\ i = 4 => call.name = "Pods"
      /\ i = 19 => call.name = "collectPVCs"
      /\ i = 22 => call.name = "detectAddonGroups"
      /\ i = 23 => call.name = "detectAddonDeployments"
  BY CallsByNumber DEF Call
<1>5. Sighted(A, call.kind) \subseteq Sighted(P, call.kind) /\ Sighted(P, call.kind) \subseteq S
  BY DEF Sighted
<1> HIDE DEF r, call
<1>6. /\ r.rsToDeploy \subseteq RSToDeploy(S)
      /\ i + 1 > 3 => RSToDeploy(A) \subseteq r.rsToDeploy
  <2>1. CASE i = 3
    <3>1. RSToDeploy(A) \subseteq RSToDeploy(P) /\ RSToDeploy(P) \subseteq RSToDeploy(S)
      BY <1>3, <1>4, <1>5, <2>1, RSToDeployGrows DEF call
    <3> QED BY <1>1, <1>4, <2>1, <3>1
  <2>2. CASE i # 3
    BY <1>1, <1>2, <1>3, <2>2 DEF MemoryBetween
  <2> QED BY <2>1, <2>2
<1>7. /\ r.podsBy \subseteq GroupNotReadyPods(S, RSToDeploy(S))
      /\ i + 1 > 4 => GroupNotReadyPods(A, RSToDeploy(A)) \subseteq r.podsBy
      /\ r.nodesBy \subseteq RecordPodNode(S, RSToDeploy(S))
      /\ i + 1 > 4 => RecordPodNode(A, RSToDeploy(A)) \subseteq r.nodesBy
  <2>1. CASE i = 4
    <3>1. m.rsToDeploy \subseteq RSToDeploy(S) /\ RSToDeploy(A) \subseteq m.rsToDeploy
      BY <2>1 DEF MemoryBetween
    <3>2. Sighted(A, "Pod") \subseteq P /\ Sighted(P, "Pod") \subseteq S
      BY <1>3, <1>4, <1>5, <2>1 DEF call
    <3>3. /\ GroupNotReadyPods(A, RSToDeploy(A)) \subseteq GroupNotReadyPods(P, m.rsToDeploy)
          /\ GroupNotReadyPods(P, m.rsToDeploy) \subseteq GroupNotReadyPods(S, RSToDeploy(S))
          /\ RecordPodNode(A, RSToDeploy(A)) \subseteq RecordPodNode(P, m.rsToDeploy)
          /\ RecordPodNode(P, m.rsToDeploy) \subseteq RecordPodNode(S, RSToDeploy(S))
      BY <3>1, <3>2, PodMapsGrow
    <3> QED BY <1>1, <1>4, <2>1, <3>3
  <2>2. CASE i # 4
    BY <1>1, <1>2, <1>3, <2>2 DEF MemoryBetween
  <2> QED BY <2>1, <2>2
<1>8. /\ r.claims \subseteq InScope(S, "PersistentVolumeClaim")
      /\ i + 1 > 19 => InScope(A, "PersistentVolumeClaim") \subseteq r.claims
  <2>1. CASE i = 19
    <3>1. /\ InScope(A, "PersistentVolumeClaim") \subseteq InScope(P, "PersistentVolumeClaim")
          /\ InScope(P, "PersistentVolumeClaim") \subseteq InScope(S, "PersistentVolumeClaim")
      BY <1>3, <1>4, <1>5, <2>1, ListedGrows DEF call
    <3> QED BY <1>1, <1>4, <2>1, <3>1
  <2>2. CASE i # 19
    BY <1>1, <1>2, <1>3, <2>2 DEF MemoryBetween
  <2> QED BY <2>1, <2>2
<1>9. /\ r.addonLists \subseteq S
      /\ i + 1 > 22 => Sighted(A, "APIGroup") \subseteq r.addonLists
      /\ i + 1 > 23 => Sighted(A, "Deployment") \subseteq r.addonLists
  <2>1. /\ m.addonLists \subseteq S
        /\ i > 22 => Sighted(A, "APIGroup") \subseteq m.addonLists
        /\ i > 23 => Sighted(A, "Deployment") \subseteq m.addonLists
        /\ m.addonLists \subseteq r.addonLists
    BY <1>1 DEF MemoryBetween
  <2>2. r.addonLists \subseteq S
    BY <1>1, <1>5, <2>1
  <2>3. CASE i = 22
    BY <1>1, <1>3, <1>4, <1>5, <2>2, <2>3
  <2>4. CASE i = 23
    BY <1>1, <1>3, <1>4, <1>5, <2>1, <2>2, <2>4
  <2>5. CASE i # 22 /\ i # 23
    <3>1. i > 22 => i > 23
      BY <1>2, <2>5
    <3> QED BY <1>2, <2>1, <2>2, <2>5
  <2> QED BY <2>3, <2>4, <2>5
<1> QED BY <1>6, <1>7, <1>8, <1>9 DEF MemoryBetween, r

-----------------------------------------------------------------------------
(***************************************************************************)
(* What is recorded                                                        *)
(***************************************************************************)

FactsAsOf(i, P) == Facts(Calls[i], P, Remembered(P))

LEMMA SaysByCall ==
  ASSUME NEW P, NEW f
  PROVE  f \in Says(P) <=> \E i \in 1 .. Len(Calls) : f \in FactsAsOf(i, P)
BY DEF Says, FactsAsOf

LEMMA FactsAsOfGrow ==
  ASSUME NEW Q \in SUBSET Possible, NEW P \in SUBSET Q, NEW i \in 1 .. Len(Calls)
  PROVE  FactsAsOf(i, P) \subseteq FactsAsOf(i, Q)
<1> DEFINE m == Remembered(P)
           n == Remembered(Q)
<1>1. \A kind : Sighted(P, kind) \subseteq Q
  BY DEF Sighted
<1>2. RSToDeploy(P) \subseteq RSToDeploy(Q)
  BY <1>1, RSToDeployGrows
<1>3. m.podsBy \subseteq n.podsBy /\ m.nodesBy \subseteq n.nodesBy
  BY <1>1, <1>2, PodMapsGrow DEF Remembered
<1>4. m.claims \subseteq n.claims /\ ClaimsNameClasses(m.claims)
  BY <1>1, ListedGrows, ClaimsOfPossible DEF Remembered
<1>5. \A kind \in AddonKinds : Sighted(P \cup m.addonLists, kind) \subseteq Q \cup n.addonLists
  BY DEF Sighted, Remembered
<1> HIDE DEF m, n
<1>6. Facts(Calls[i], P, m) \subseteq Facts(Calls[i], Q, n)
  <2>1. Sighted(P, Calls[i].kind) \subseteq Q
    BY <1>1
  <2> QED BY <1>3, <1>4, <1>5, <2>1, FactsGrow
<1> QED BY <1>6 DEF FactsAsOf, m, n

LEMMA SaysGrows ==
  ASSUME NEW Q \in SUBSET Possible, NEW P \in SUBSET Q
  PROVE  Says(P) \subseteq Says(Q)
BY SaysByCall, FactsAsOfGrow

\* What is recorded of some facts stands for all of them, although an add-on that
\* was detected more than once is recorded once.
LEMMA RecordingsCover ==
  ASSUME NEW facts, NEW recorded \in Recordings(facts)
  PROVE  /\ recorded \subseteq facts
         /\ \A f \in facts : \E g \in recorded : Covers(g, f)
         /\ \A f \in facts : f[1] # "DetectedAddons" => f \in recorded
<1> DEFINE addons == {f \in facts : f[1] = "DetectedAddons"}
<1>1. PICK chosen \in SUBSET addons :
        OnePerAddon(addons, chosen) /\ recorded = (facts \ addons) \cup chosen
  BY DEF Recordings
<1>2. ASSUME NEW f \in addons PROVE \E g \in chosen : Covers(g, f)
  <2> DEFINE same == {g \in chosen : g[1] = f[1] /\ g[2] = f[2]}
  <2>1. Cardinality(same) = 1
    BY <1>1 DEF OnePerAddon
  <2>2. same # {}
    <3> HIDE DEF same
    <3> QED BY <2>1, FS_EmptySet
  <2> QED BY <2>2 DEF Covers
<1> QED BY <1>1, <1>2 DEF Covers

\* f is between what follows from A and what follows from S, as far as the calls
\* before the nth have filled it.
SnapshotBetween(f, A, S, n) ==
  /\ f \subseteq Says(S)
  /\ \A i \in 1 .. Len(Calls) : i < n =>
       \A x \in FactsAsOf(i, A) : \E g \in f : Covers(g, x)

LEMMA SnapshotLoosened ==
  ASSUME NEW A \in SUBSET Possible, NEW S1 \in SUBSET Possible,
         NEW A1 \in SUBSET A, NEW S \in SUBSET S1,
         NEW f, NEW n \in Nat, SnapshotBetween(f, A, S, n)
  PROVE  SnapshotBetween(f, A1, S1, n)
<1>1. Says(S) \subseteq Says(S1)
  BY SaysGrows
<1>2. \A i \in 1 .. Len(Calls) : FactsAsOf(i, A1) \subseteq FactsAsOf(i, A)
  BY FactsAsOfGrow
<1> QED BY <1>1, <1>2 DEF SnapshotBetween

\* A call that shows what does not change of its kind, and nothing that was not
\* seen, gives what follows from the one and nothing that does not from the other.
LEMMA FactsBetween ==
  ASSUME NEW S \in SUBSET Possible, NEW A \in SUBSET S, NEW P \in SUBSET S,
         NEW i \in 1 .. Len(Calls), Sighted(A, Calls[i].kind) \subseteq P,
         NEW m, MemoryBetween(m, A, S, i + 1)
  PROVE  /\ FactsAsOf(i, A) \subseteq Facts(Calls[i], P, m)
         /\ Facts(Calls[i], P, m) \subseteq FactsAsOf(i, S)
<1> DEFINE a == Remembered(A)
           s == Remembered(S)
           facts == Facts(Calls[i], P, m)
<1>1. i \in 1 .. 24
  BY NumberOfCalls
<1>2. facts \subseteq FactsAsOf(i, S)
  <2>1. m.podsBy \subseteq s.podsBy /\ m.nodesBy \subseteq s.nodesBy
    BY DEF MemoryBetween, Remembered
  <2>2. m.claims \subseteq s.claims /\ ClaimsNameClasses(m.claims)
    BY ClaimsOfPossible DEF MemoryBetween, Remembered, ClaimsNameClasses
  <2>3. \A kind \in AddonKinds : Sighted(P \cup m.addonLists, kind) \subseteq S \cup s.addonLists
    BY DEF MemoryBetween, Sighted
  <2>4. Sighted(P, Calls[i].kind) \subseteq S
    BY DEF Sighted
  <2> HIDE DEF s
  <2>5. Facts(Calls[i], P, m) \subseteq Facts(Calls[i], S, s)
    BY <2>1, <2>2, <2>3, <2>4, FactsGrow
  <2> QED BY <2>5 DEF FactsAsOf, s
<1>3. FactsAsOf(i, A) \subseteq facts
  <2>1. i > 4 => a.podsBy \subseteq m.podsBy /\ a.nodesBy \subseteq m.nodesBy
    BY <1>1 DEF MemoryBetween, Remembered
  <2>2. i > 19 => a.claims \subseteq m.claims /\ ClaimsNameClasses(a.claims)
    <3>1. A \in SUBSET Possible
      OBVIOUS
    <3> QED BY <1>1, <3>1, ClaimsOfPossible DEF MemoryBetween, Remembered
  <2>3. i = 24 => \A kind \in AddonKinds :
                    Sighted(A \cup a.addonLists, kind) \subseteq P \cup m.addonLists
    <3>1. SUFFICES ASSUME i = 24, NEW kind \in AddonKinds
                   PROVE  Sighted(A, kind) \subseteq P \cup m.addonLists
      BY DEF Remembered
    <3>2. /\ Sighted(A, "APIGroup") \subseteq m.addonLists
          /\ Sighted(A, "Deployment") \subseteq m.addonLists
      BY <3>1 DEF MemoryBetween
    <3>3. Sighted(A, "DaemonSet") \subseteq P
      <4>1. Calls[i].kind = "DaemonSet"
        BY <3>1, CallTable, CallsByNumber DEF Entry
      <4> QED BY <4>1
    <3> QED BY <3>1, <3>2, <3>3 DEF AddonKinds
  <2> HIDE DEF a
  <2>4. Facts(Calls[i], A, a) \subseteq Facts(Calls[i], P, m)
    BY <2>1, <2>2, <2>3, FactsGrow
  <2> QED BY <2>4 DEF FactsAsOf, a
<1> QED BY <1>2, <1>3

LEMMA SnapshotStep ==
  ASSUME NEW S \in SUBSET Possible, NEW A \in SUBSET S, NEW P \in SUBSET S,
         NEW i \in 1 .. Len(Calls), Sighted(A, Calls[i].kind) \subseteq P,
         NEW m, MemoryBetween(m, A, S, i + 1),
         NEW f, SnapshotBetween(f, A, S, i),
         NEW recorded \in Recordings(Facts(Calls[i], P, m))
  PROVE  SnapshotBetween(f \cup recorded, A, S, i + 1)
<1> DEFINE facts == Facts(Calls[i], P, m)
<1>1. i \in 1 .. 24
  BY NumberOfCalls
<1>2. facts \subseteq FactsAsOf(i, S) /\ FactsAsOf(i, A) \subseteq facts
  BY FactsBetween
<1> HIDE DEF facts
<1>4. recorded \subseteq facts /\ \A x \in facts : \E g \in recorded : Covers(g, x)
  BY RecordingsCover DEF facts
<1>5. f \cup recorded \subseteq Says(S)
  BY <1>2, <1>4, SaysByCall DEF SnapshotBetween
<1>6. ASSUME NEW j \in 1 .. Len(Calls), j < i + 1, NEW x \in FactsAsOf(j, A)
      PROVE  \E g \in f \cup recorded : Covers(g, x)
  <2>1. CASE j = i
    BY <1>2, <1>4, <1>6, <2>1
  <2>2. CASE j # i
    <3>1. j < i
      BY <1>1, <1>6, <2>2, NumberOfCalls
    <3> QED BY <1>6, <3>1 DEF SnapshotBetween
  <2> QED BY <2>1, <2>2
<1> QED BY <1>5, <1>6 DEF SnapshotBetween

-----------------------------------------------------------------------------
(***************************************************************************)
(* The inductive invariant                                                 *)
(***************************************************************************)

\* What can be seen now was seen at some time, what was seen always can be seen
\* now, and of an object that was always seen in a state no other was seen.
History ==
  /\ always \subseteq Sightings(cluster)
  /\ Sightings(cluster) \subseteq sometime
  /\ sometime \subseteq Possible
  /\ \A s \in always, t \in sometime : s[1] = t[1] => s = t

Types ==
  /\ DOMAIN cluster = Objects /\ \A o \in Objects : cluster[o] \in StatesOf[o]
  /\ pc \in 1 .. Len(Calls) + 1
  /\ mem \in Memories
  /\ outcome \in {Pending, Failed, snap}
  /\ outcome \notin {Pending, Failed} => pc > Len(Calls)
  /\ changes \in 0 .. MaxChanges /\ failures \in 0 .. MaxFailures

IInv ==
  /\ Types
  /\ History
  /\ MemoryBetween(mem, always, sometime, pc)
  /\ SnapshotBetween(snap, always, sometime, pc)

LEMMA SightingsType ==
  ASSUME Types
  PROVE  /\ Sightings(cluster) \subseteq Possible
         /\ \A s, t \in Sightings(cluster) : s[1] = t[1] => s = t
BY DEF Types, Sightings, Possible

LEMMA InitHolds ==
  ASSUME Init
  PROVE  IInv
<1>1. Len(Calls) = 24
  BY NumberOfCalls
<1>2. Types
  <2>1. mem \in Memories
    BY DEF Init, Nothing, Memories
  <2> QED BY <1>1, <2>1, ObjectsAssumption, BoundsAssumption DEF Init, Types
<1>3. History
  BY <1>2, SightingsType DEF Init, History
<1>4. MemoryBetween(mem, always, sometime, pc)
  BY DEF Init, Nothing, MemoryBetween
<1>5. SnapshotBetween(snap, always, sometime, pc)
  BY <1>1 DEF Init, SnapshotBetween
<1> QED BY <1>2, <1>3, <1>4, <1>5 DEF IInv

\* Whatever a call shows within these limits, its memory and its records keep them.
LEMMA ReadStep ==
  ASSUME IInv, pc <= Len(Calls), NEW S \in SUBSET Possible, NEW A \in SUBSET always,
         sometime \subseteq S, NEW P \in SUBSET S, Sighted(A, Calls[pc].kind) \subseteq P,
         Read(P)
  PROVE  /\ mem' \in Memories
         /\ MemoryBetween(mem', A, S, pc + 1)
         /\ SnapshotBetween(snap', A, S, pc + 1)
<1>1. pc \in 1 .. Len(Calls) /\ pc \in Nat /\ mem \in Memories
  BY NumberOfCalls DEF IInv, Types
<1>2. mem' = Remember(Calls[pc], P, mem)
  BY DEF Read
<1>3. PICK recorded \in Recordings(Facts(Calls[pc], P, mem')) : snap' = snap \cup recorded
  BY DEF Read
<1>4. always \subseteq sometime /\ sometime \subseteq Possible
  BY DEF IInv, History
<1>5. MemoryBetween(mem, A, S, pc)
  BY <1>1, <1>4, MemoryLoosened DEF IInv
<1>6. SnapshotBetween(snap, A, S, pc)
  BY <1>1, <1>4, SnapshotLoosened DEF IInv
<1>7. mem' \in Memories
  BY <1>1, <1>2, RememberFields
<1>8. MemoryBetween(mem', A, S, pc + 1)
  BY <1>1, <1>2, <1>5, MemoryStep
<1>9. A \in SUBSET S
  BY <1>4
<1>10. SnapshotBetween(snap \cup recorded, A, S, pc + 1)
  BY <1>1, <1>6, <1>8, <1>9, SnapshotStep
<1> QED BY <1>3, <1>7, <1>8, <1>10

LEMMA ChangeKeeps ==
  ASSUME IInv, NEW o \in Objects, Change(o)
  PROVE  IInv'
<1>1. PICK s \in StatesOf[o] : cluster' = [cluster EXCEPT ![o] = s]
  BY DEF Change
<1>2. Types'
  <2>1. DOMAIN cluster' = Objects /\ \A p \in Objects : cluster'[p] \in StatesOf[p]
    BY <1>1 DEF IInv, Types
  <2> QED BY <2>1, BoundsAssumption DEF IInv, Types, Change
<1>3. /\ Sightings(cluster)' \subseteq Possible
      /\ \A r, t \in Sightings(cluster)' : r[1] = t[1] => r = t
  BY <1>2, SightingsType DEF Types, Sightings, Possible
<1>4. always' = always \cap Sightings(cluster)' /\ sometime' = sometime \cup Sightings(cluster)'
  BY DEF Change, Sightings
<1>5. History'
  BY <1>3, <1>4 DEF IInv, History
<1>6. pc \in Nat /\ UNCHANGED <<pc, mem, snap>>
  BY NumberOfCalls DEF IInv, Types, Change
<1>7. /\ always' \in SUBSET always /\ sometime \in SUBSET sometime'
      /\ sometime' \in SUBSET Possible /\ always \in SUBSET Possible
  BY <1>3, <1>4 DEF IInv, History
<1>8. MemoryBetween(mem, always', sometime', pc)
  BY <1>6, <1>7, MemoryLoosened DEF IInv
<1>9. SnapshotBetween(snap, always', sometime', pc)
  BY <1>6, <1>7, SnapshotLoosened DEF IInv
<1> QED BY <1>2, <1>5, <1>6, <1>8, <1>9 DEF IInv

LEMMA ListKeeps ==
  ASSUME IInv, List
  PROVE  IInv'
<1> DEFINE P == OfKind(cluster, Calls[pc].kind)
<1>1. pc <= Len(Calls) /\ pc' = pc + 1 /\ Read(P) /\ outcome = Pending
  BY DEF List
<1>2. /\ always \subseteq Sightings(cluster) /\ Sightings(cluster) \subseteq sometime
      /\ sometime \in SUBSET Possible
  BY DEF IInv, History
<1>3. P \in SUBSET sometime /\ Sighted(always, Calls[pc].kind) \subseteq P
  BY <1>2 DEF OfKind, Sighted
<1> HIDE DEF P
<1>4. /\ mem' \in Memories
      /\ MemoryBetween(mem', always, sometime, pc + 1)
      /\ SnapshotBetween(snap', always, sometime, pc + 1)
  BY <1>1, <1>2, <1>3, ReadStep
<1>5. UNCHANGED <<cluster, outcome, changes, failures, always, sometime>>
  BY DEF List
<1>6. Types'
  BY <1>1, <1>4, <1>5, NumberOfCalls DEF IInv, Types
<1>7. History'
  BY <1>5 DEF IInv, History, Sightings
<1> QED BY <1>1, <1>4, <1>5, <1>6, <1>7 DEF IInv

\* What a list that failed is taken for shows all that is left of its kind.
LEMMA BlankShows ==
  ASSUME IInv, NEW kind,
         NEW known \in SUBSET Listed(OfKind(cluster, kind), kind),
         NEW blank, \A s : s \in blank <=> s \in Empty(kind) /\ \A k \in known : k[1] # s[1],
         NEW A \in SUBSET always, \A s \in A : \A b \in blank : b[1] = s[1] => b = s
  PROVE  /\ blank \subseteq Possible
         /\ blank \cup known \subseteq sometime \cup blank
         /\ Sighted(A, kind) \subseteq blank \cup known
<1>1. /\ always \subseteq Sightings(cluster) /\ Sightings(cluster) \subseteq sometime
      /\ sometime \subseteq Possible
  BY DEF IInv, History
<1>2. blank \subseteq Possible
  BY DEF Empty, Possible
<1>3. known \subseteq Sightings(cluster)
  BY DEF Listed, OfKind
<1>4. ASSUME NEW s \in A, KindOf[s[1]] = kind PROVE s \in blank \cup known
  <2>1. s \in Sightings(cluster) /\ s[1] \in Objects
    BY <1>1, PossibleSighting
  <2>2. CASE \E k \in known : k[1] = s[1]
    <3>1. PICK k \in known : k[1] = s[1]
      BY <2>2
    <3>2. k = s
      BY <1>3, <2>1, <3>1, SightingsType DEF IInv
    <3> QED BY <3>2
  <2>3. CASE \A k \in known : k[1] # s[1]
    <3>1. <<s[1], Absent>> \in blank
      BY <1>4, <2>1, <2>3 DEF Empty
    <3> QED BY <1>4, <3>1
  <2> QED BY <2>2, <2>3
<1> QED BY <1>1, <1>2, <1>3, <1>4 DEF Sighted

\* An overlooked list, with what it was taken for.
Overlooked(known, blank) ==
  /\ known \subseteq Listed(OfKind(cluster, Calls[pc].kind), Calls[pc].kind)
  /\ Calls[pc].name # "detectDeprecatedAPIs" => known = {}
  /\ blank = {s \in Empty(Calls[pc].kind) : \A k \in known : k[1] # s[1]}
  /\ Read(blank \cup known)
  /\ sometime' = sometime \cup blank
  /\ always' = {s \in always : \A b \in blank : b[1] = s[1] => b = s}

LEMMA OverlookedParts ==
  ASSUME ListOverlooked
  PROVE  /\ outcome = Pending /\ pc <= Len(Calls) /\ ~Calls[pc].fatal
         /\ failures < MaxFailures /\ failures' = failures + 1
         /\ \E known, blank : Overlooked(known, blank)
         /\ pc' = IF Calls[pc].name = "collectPVCs" THEN pc + 2 ELSE pc + 1
         /\ UNCHANGED <<cluster, outcome, changes>>
<1>1. \E known \in (IF Calls[pc].name = "detectDeprecatedAPIs"
                   THEN SUBSET Listed(OfKind(cluster, Calls[pc].kind), Calls[pc].kind)
                   ELSE {{}}) :
        Overlooked(known, {s \in Empty(Calls[pc].kind) : \A k \in known : k[1] # s[1]})
  BY DEF ListOverlooked, Overlooked
<1> QED BY <1>1 DEF ListOverlooked

LEMMA OverlookedKeeps ==
  ASSUME IInv, ListOverlooked
  PROVE  IInv'
<1>1. /\ outcome = Pending /\ pc <= Len(Calls) /\ failures < MaxFailures
      /\ failures' = failures + 1
      /\ pc' = IF Calls[pc].name = "collectPVCs" THEN pc + 2 ELSE pc + 1
      /\ UNCHANGED <<cluster, outcome, changes>>
  BY OverlookedParts
<1>2. PICK known, blank : Overlooked(known, blank)
  BY OverlookedParts
<1> DEFINE P == blank \cup known
<1>3. /\ always \subseteq Sightings(cluster) /\ Sightings(cluster) \subseteq sometime
      /\ sometime \subseteq Possible /\ Read(P)
  BY <1>2 DEF IInv, History, Overlooked
<1>4. /\ blank \subseteq Possible /\ P \subseteq sometime'
      /\ Sighted(always', Calls[pc].kind) \subseteq P
  <2> DEFINE kind == Calls[pc].kind
             A == always'
  <2>1. /\ known \in SUBSET Listed(OfKind(cluster, kind), kind)
        /\ \A s : s \in blank <=> s \in Empty(kind) /\ \A k \in known : k[1] # s[1]
        /\ A \in SUBSET always /\ \A s \in A : \A b \in blank : b[1] = s[1] => b = s
        /\ sometime' = sometime \cup blank
    BY <1>2 DEF Overlooked
  <2> HIDE DEF A, kind
  <2>2. /\ blank \subseteq Possible
        /\ blank \cup known \subseteq sometime \cup blank
        /\ Sighted(A, kind) \subseteq blank \cup known
    BY <2>1, BlankShows
  <2> QED BY <2>1, <2>2 DEF A, kind
<1>5. /\ always' \in SUBSET always /\ sometime \subseteq sometime'
      /\ sometime' \in SUBSET Possible
  BY <1>2, <1>3, <1>4 DEF Overlooked
<1> HIDE DEF P
<1>6. /\ mem' \in Memories
      /\ MemoryBetween(mem', always', sometime', pc + 1)
      /\ SnapshotBetween(snap', always', sometime', pc + 1)
  BY <1>1, <1>3, <1>4, <1>5, ReadStep
<1>7. pc \in 1 .. Len(Calls)
  BY <1>1, NumberOfCalls DEF IInv, Types
<1>8. Calls[pc].name = "collectPVCs" => pc = 19 /\ Calls[pc].kind = "PersistentVolumeClaim"
  BY <1>7, CallTable DEF Entry
<1>9. Types'
  <2>1. pc' \in 1 .. Len(Calls) + 1
    BY <1>1, <1>7, <1>8, NumberOfCalls
  <2>2. failures' \in 0 .. MaxFailures
    BY <1>1, BoundsAssumption DEF IInv, Types
  <2> QED BY <1>1, <1>6, <2>1, <2>2 DEF IInv, Types
<1>10. History'
  <2>1. Sightings(cluster)' = Sightings(cluster)
    BY <1>1 DEF Sightings
  <2>2. \A s \in always', t \in sometime' : s[1] = t[1] => s = t
    BY <1>2, <1>5 DEF IInv, History, Overlooked
  <2> QED BY <1>3, <1>5, <2>1, <2>2 DEF History
<1>11. MemoryBetween(mem', always', sometime', pc') /\ SnapshotBetween(snap', always', sometime', pc')
  <2>1. CASE Calls[pc].name # "collectPVCs"
    BY <1>1, <1>6, <2>1
  <2>2. CASE Calls[pc].name = "collectPVCs"
    <3>1. pc = 19 /\ pc' = 21
      BY <1>1, <1>8, <2>2
    <3>2. MemoryBetween(mem', always', sometime', pc')
      BY <1>6, <3>1 DEF MemoryBetween
    <3>3. FactsAsOf(20, always') = {}
      <4>1. known = {}
        BY <1>2, <2>2 DEF Overlooked
      <4>2. InScope(always', "PersistentVolumeClaim") = {}
        <5>1. Sighted(always', "PersistentVolumeClaim") \subseteq Empty("PersistentVolumeClaim")
          BY <1>2, <1>4, <1>8, <2>2, <4>1 DEF Overlooked, P
        <5> QED BY <5>1 DEF InScope, Listed, Sighted, Empty
      <4>3. Calls[20].name = "storageClassBindingModes"
        BY CallsByNumber
      <4>4. FactsAsOf(20, always') = PVCFacts(always', InScope(always', "PersistentVolumeClaim"))
        <5>1. FactsByName(Calls[20], always', Remembered(always'))
          BY FactsOfCall
        <5> QED BY <4>3, <5>1 DEF FactsByName, FactsAsOf, Remembered
      <4> QED BY <4>2, <4>4 DEF PVCFacts
    <3>4. ASSUME NEW i \in 1 .. Len(Calls), i < 21, NEW x \in FactsAsOf(i, always')
          PROVE  \E g \in snap' : Covers(g, x)
      <4>1. i # 20
        BY <3>3, <3>4
      <4>2. i < pc + 1
        BY <3>1, <3>4, <4>1, NumberOfCalls
      <4> QED BY <1>6, <3>4, <4>2 DEF SnapshotBetween
    <3> QED BY <1>6, <3>1, <3>2, <3>4 DEF SnapshotBetween
  <2> QED BY <2>1, <2>2
<1> QED BY <1>9, <1>10, <1>11 DEF IInv

THEOREM InductiveInvariance == Spec => []IInv
<1>1. Init => IInv
  BY InitHolds
<1>2. IInv /\ [Next]_vars => IInv'
  <2> SUFFICES ASSUME IInv, [Next]_vars PROVE IInv'
    OBVIOUS
  <2>1. ASSUME NEW o \in Objects, Change(o) PROVE IInv'
    BY <2>1, ChangeKeeps
  <2>2. CASE List
    BY <2>2, ListKeeps
  <2>3. CASE ListOverlooked
    BY <2>3, OverlookedKeeps
  <2>4. CASE ListFails \/ Return \/ UNCHANGED vars
    <3>1. UNCHANGED <<cluster, pc, mem, snap, changes, always, sometime>>
      BY <2>4 DEF ListFails, Return, vars
    <3>2. Types'
      BY <2>4, BoundsAssumption DEF IInv, Types, ListFails, Return, vars
    <3>3. History'
      BY <3>1 DEF IInv, History, Sightings
    <3> QED BY <3>1, <3>2, <3>3 DEF IInv
  <2> QED BY <2>1, <2>2, <2>3, <2>4 DEF Next
<1> QED BY <1>1, <1>2, PTL DEF Spec

-----------------------------------------------------------------------------
(***************************************************************************)
(* The interval snapshot                                                   *)
(***************************************************************************)

LEMMA SnapshotIsNoMarker ==
  ASSUME IInv
  PROVE  snap \subseteq Says(sometime) /\ snap # Pending /\ snap # Failed
<1>1. snap \subseteq Says(sometime) /\ sometime \in SUBSET Possible
  BY DEF IInv, History, SnapshotBetween
<1>2. Says(sometime) \subseteq Says(Possible)
  BY <1>1, SaysGrows
<1> QED BY <1>1, <1>2, OutcomeAssumption

\* When every call has been made, the snapshot has all that follows from what did
\* not change.
LEMMA AllRecorded ==
  ASSUME IInv, pc > Len(Calls), NEW x \in Says(always)
  PROVE  \E g \in snap : Covers(g, x)
<1>1. PICK i \in 1 .. Len(Calls) : x \in FactsAsOf(i, always)
  BY SaysByCall
<1>2. i < pc
  BY <1>1, NumberOfCalls DEF IInv, Types
<1> QED BY <1>1, <1>2 DEF IInv, SnapshotBetween

\* The collector, which takes its lists one after another and goes on without
\* some, answers as the interval from the first list to the last allows.
THEOREM CollectorKeepsInterval == Spec => KeepsInterval
<1>1. Init => Interval!Init
  BY DEF Init, Interval!Init
<1>2. IInv /\ [Next]_vars => [Interval!Next]_(Interval!vars)
  <2> SUFFICES ASSUME IInv, [Next]_vars PROVE [Interval!Next]_(Interval!vars)
    OBVIOUS
  <2>1. ASSUME NEW o \in Objects, Change(o) PROVE Interval!Change
    BY <2>1 DEF Change, Interval!Change, Sightings
  <2>2. ASSUME List \/ UNCHANGED vars PROVE UNCHANGED (Interval!vars)
    BY <2>2 DEF List, vars, Interval!vars, Sightings
  <2>3. ASSUME ListFails PROVE Interval!GiveUp
    BY <2>3 DEF ListFails, Interval!GiveUp, Sightings
  <2>4. ASSUME ListOverlooked
        PROVE  \E blank \in UNION {SUBSET Empty(Calls[i].kind) :
                               i \in {i \in 1 .. Len(Calls) : ~Calls[i].fatal}} :
                 Interval!Overlook(blank)
    <3>1. /\ outcome = Pending /\ pc <= Len(Calls) /\ ~Calls[pc].fatal
          /\ UNCHANGED <<cluster, outcome>>
      BY <2>4, OverlookedParts
    <3>2. PICK known, blank : Overlooked(known, blank)
      BY <2>4, OverlookedParts
    <3>3. pc \in 1 .. Len(Calls)
      BY <3>1, NumberOfCalls DEF IInv, Types
    <3>4. blank \in UNION {SUBSET Empty(Calls[i].kind) :
                            i \in {i \in 1 .. Len(Calls) : ~Calls[i].fatal}}
      <4>1. blank \in SUBSET Empty(Calls[pc].kind)
        BY <3>2 DEF Overlooked
      <4>2. pc \in {i \in 1 .. Len(Calls) : ~Calls[i].fatal}
        BY <3>1, <3>3
      <4> QED BY <4>1, <4>2
    <3>5. Interval!Overlook(blank)
      BY <3>1, <3>2 DEF Overlooked, Interval!Overlook, Sightings
    <3> QED BY <3>4, <3>5
  <2>5. ASSUME Return PROVE Interval!Answer
    <3>1. /\ outcome = Pending /\ pc > Len(Calls) /\ outcome' = snap
          /\ UNCHANGED <<cluster, always, sometime>>
      BY <2>5 DEF Return
    <3>2. /\ snap \subseteq Says(sometime) /\ snap # Pending /\ snap # Failed
          /\ \A x \in Says(always) : \E g \in snap : Covers(g, x)
      BY <3>1, SnapshotIsNoMarker, AllRecorded
    <3> QED BY <3>1, <3>2 DEF Interval!Answer, Sightings
  <2> QED BY <2>1, <2>2, <2>3, <2>4, <2>5 DEF Next, Interval!Next
<1> QED BY <1>1, <1>2, InductiveInvariance, PTL DEF Spec, KeepsInterval, Interval!Spec

-----------------------------------------------------------------------------
(***************************************************************************)
(* The shape of a snapshot                                                 *)
(***************************************************************************)

\* The parts of the snapshot that a call records in.
Parts(name) ==
  CASE name = "ServerVersion" -> {"ClusterVersion"}
    [] name = "NamespaceCount" -> {"NamespaceCount"}
    [] name = "Pods" -> {"TotalPods", "RestartingPods", "BarePods", "PodIssues"}
    [] name = "WorkloadCollectors" -> {"Resources"}
    [] name = "collectDeployments" -> {"DeploymentWorkloads", "Pods"}
    [] name = "collectNodes" -> {"NodeWorkloads", "Capacity", "NodeIssues"}
    [] name = "collectPDBs" -> {"PDBIssues"}
    [] name = "collectStatefulSets" -> {"StatefulSetIssues", "Pods", "Resources"}
    [] name = "collectDaemonSets" -> {"DaemonSetIssues", "Pods", "Resources"}
    [] name = "collectJobs" -> {"JobIssues", "Pods"}
    [] name = "collectServices" -> {"Services"}
    [] name = "collectIngresses" -> {"Ingresses"}
    [] name = "collectWorkloads" -> {"Workloads", "RunsOn"}
    [] name = "storageClassBindingModes" -> {"PVCs"}
    [] name = "detectDeprecatedAPIs" -> {"DeprecatedAPIs"}
    [] name = "detectAddons" -> {"DetectedAddons"}
    [] OTHER -> {}

\* A fact of one of these parts, about something in scope where the scope filters.
Shaped(f, parts) ==
  /\ f = <<f[1], f[2], f[3]>>
  /\ f[1] \in parts
  /\ f[1] \in Unfiltered \/ NamespaceOf[f[2]] \notin Excluded

LEMMA PodFactsByPart ==
  ASSUME NEW P, NEW f \in PodFacts(P)
  PROVE  /\ f = <<f[1], f[2], f[3]>>
         /\ \E s \in Pods(P) :
              /\ f[2] = s[1]
              /\ \/ f[1] = "TotalPods"
                 \/ f[1] = "RestartingPods" /\ f[3] = "" /\ IsRestartingAbnormally(s[2])
                 \/ f[1] = "BarePods" /\ OwnerOf[s[1]] = NoOwner
                      /\ f[3] = IF s[2].ready THEN "Running" ELSE "Down"
                 \/ f[1] = "PodIssues" /\ ~s[2].ready
<1>1. \/ f \in {<<"TotalPods", s[1], <<s[2].restarts, s[2].requests>> >> : s \in Pods(P)}
      \/ f \in {<<"RestartingPods", s[1], "">> :
                 s \in {s \in Pods(P) : IsRestartingAbnormally(s[2])}}
      \/ f \in {<<"BarePods", s[1], IF s[2].ready THEN "Running" ELSE "Down">> :
                 s \in {s \in Pods(P) : OwnerOf[s[1]] = NoOwner}}
      \/ f \in {<<"PodIssues", s[1], s[2].restarts>> : s \in {s \in Pods(P) : ~s[2].ready}}
  BY Zenon DEF PodFacts
<1>2. CASE f \in {<<"TotalPods", s[1], <<s[2].restarts, s[2].requests>> >> : s \in Pods(P)}
  <2>1. PICK s \in Pods(P) : f = <<"TotalPods", s[1], <<s[2].restarts, s[2].requests>> >>
    BY <1>2
  <2> QED BY <2>1
<1>3. CASE f \in {<<"RestartingPods", s[1], "">> :
                 s \in {s \in Pods(P) : IsRestartingAbnormally(s[2])}}
  <2>1. PICK s \in Pods(P) : f = <<"RestartingPods", s[1], "">> /\ IsRestartingAbnormally(s[2])
    BY <1>3
  <2> QED BY <2>1
<1>4. CASE f \in {<<"BarePods", s[1], IF s[2].ready THEN "Running" ELSE "Down">> :
                 s \in {s \in Pods(P) : OwnerOf[s[1]] = NoOwner}}
  <2>1. PICK s \in Pods(P) : /\ f = <<"BarePods", s[1], IF s[2].ready THEN "Running" ELSE "Down">>
                            /\ OwnerOf[s[1]] = NoOwner
    BY <1>4
  <2> QED BY <2>1
<1>5. CASE f \in {<<"PodIssues", s[1], s[2].restarts>> : s \in {s \in Pods(P) : ~s[2].ready}}
  <2>1. PICK s \in Pods(P) : f = <<"PodIssues", s[1], s[2].restarts>> /\ ~s[2].ready
    BY <1>5
  <2> QED BY <2>1
<1> QED BY <1>1, <1>2, <1>3, <1>4, <1>5

LEMMA PodFactShape ==
  ASSUME NEW P, NEW f \in PodFacts(P)
  PROVE  Shaped(f, {"TotalPods", "RestartingPods", "BarePods", "PodIssues"})
<1>1. \A s \in Pods(P) : NamespaceOf[s[1]] \notin Excluded
  BY DEF Pods, InScope
<1> QED BY <1>1, PodFactsByPart DEF Shaped

LEMMA NodeFactShape ==
  ASSUME NEW P, NEW f \in NodeFacts(P)
  PROVE  Shaped(f, {"NodeWorkloads", "Capacity", "NodeIssues"})
BY DEF NodeFacts, Shaped, Unfiltered

LEMMA DeploymentFactShape ==
  ASSUME NEW P, NEW m, NEW f \in DeploymentFacts(P, m)
  PROVE  Shaped(f, {"DeploymentWorkloads", "Pods"})
<1>1. \A s \in InScope(P, "Deployment") : NamespaceOf[s[1]] \notin Excluded
  BY DEF InScope
<1> QED BY <1>1 DEF DeploymentFacts, PodsOf, Shaped

LEMMA IssueFactShape ==
  ASSUME NEW P, NEW kind \in IssueKinds, NEW m, NEW f \in IssueFacts(P, kind, m)
  PROVE  Shaped(f, {IssuePart[kind], "Pods"} \cup IF kind = "Job" THEN {} ELSE {"Resources"})
<1> DEFINE issues == {s \in InScope(P, kind) : HasIssue(kind, s[2])}
<1>1. \A s \in InScope(P, kind) : NamespaceOf[s[1]] \notin Excluded
  BY DEF InScope
<1>2. \/ \E s \in issues : f = <<IssuePart[kind], s[1], IssueDetail(kind, s[2])>>
      \/ f \in PodsOf({s[1] : s \in issues}, m)
      \/ kind # "Job" /\ \E s \in InScope(P, kind) : f = <<"Resources", s[1], kind>>
  BY DEF IssueFacts
<1>3. ASSUME f \in PodsOf({s[1] : s \in issues}, m)
      PROVE  \E s \in issues : \E p : f = <<"Pods", s[1], p>>
  BY <1>3 DEF PodsOf
<1> QED BY <1>1, <1>2, <1>3 DEF Shaped

LEMMA WorkloadFactShape ==
  ASSUME NEW P, NEW kind, NEW m, NEW f \in WorkloadFacts(P, kind, m)
  PROVE  Shaped(f, {"Workloads", "RunsOn"})
<1>1. \A s \in InScope(P, kind) : NamespaceOf[s[1]] \notin Excluded
  BY DEF InScope
<1> QED BY <1>1 DEF WorkloadFacts, Shaped

\* Whatever a call records is in one of its parts, and in scope.
LEMMA FactShape ==
  ASSUME NEW i \in 1 .. Len(Calls), NEW P, NEW m,
         \A s \in m.claims : NamespaceOf[s[1]] \notin Excluded,
         NEW f \in Facts(Calls[i], P, m)
  PROVE  Shaped(f, Parts(Calls[i].name))
<1> DEFINE call == Calls[i]
<1>1. FactsByName(call, P, m) /\ call.name \in CallNames
  BY FactsOfCall, NamesOfCalls
<1>2. \A kind : \A s \in InScope(P, kind) : NamespaceOf[s[1]] \notin Excluded
  BY DEF InScope
<1>3. CASE call.name \in {"ServerVersion", "NamespaceCount", "WorkloadCollectors",
                        "detectDeprecatedAPIs"}
  <2>1. CASE call.name = "ServerVersion"
    BY <1>1, <2>1 DEF FactsByName, Parts, Shaped, Unfiltered
  <2>2. CASE call.name = "NamespaceCount"
    <3>1. PICK s \in Listed(P, "Namespace") : f = <<"NamespaceCount", s[1], "">>
      BY <1>1, <2>2 DEF FactsByName
    <3>2. Parts(call.name) = {"NamespaceCount"}
      BY <2>2 DEF Parts
    <3>3. f[1] = "NamespaceCount" /\ f[2] = s[1] /\ f = <<f[1], f[2], f[3]>>
      BY <3>1
    <3> QED BY <1>2, <3>2, <3>3 DEF Shaped, Unfiltered
  <2>3. CASE call.name = "WorkloadCollectors"
    BY <1>1, <2>3 DEF FactsByName, Parts, Shaped, Unfiltered
  <2>4. CASE call.name = "detectDeprecatedAPIs"
    <3>1. PICK s \in Listed(P, "DeprecatedAPI") : f = <<"DeprecatedAPIs", s[1], "">>
      BY <1>1, <2>4 DEF FactsByName, DeprecatedAPIFacts
    <3>2. Parts(call.name) = {"DeprecatedAPIs"}
      BY <2>4 DEF Parts
    <3>3. f[1] = "DeprecatedAPIs" /\ f[2] = s[1] /\ f = <<f[1], f[2], f[3]>>
      BY <3>1
    <3> QED BY <1>2, <3>2, <3>3 DEF Shaped, Unfiltered
  <2> QED BY <1>3, <2>1, <2>2, <2>3, <2>4
<1>4. CASE call.name \in {"collectServices", "collectIngresses", "collectPDBs"}
  <2>1. CASE call.name = "collectServices"
    <3>1. PICK s \in InScope(P, "Service") : f = <<"Services", s[1], "">>
      BY <1>1, <2>1 DEF FactsByName
    <3>2. Parts(call.name) = {"Services"}
      BY <2>1 DEF Parts
    <3>3. f[1] = "Services" /\ f[2] = s[1] /\ f = <<f[1], f[2], f[3]>>
      BY <3>1
    <3> QED BY <1>2, <3>2, <3>3 DEF Shaped, Unfiltered
  <2>2. CASE call.name = "collectIngresses"
    BY <1>1, <1>2, <2>2 DEF FactsByName, Parts, Shaped, IngressFacts
  <2>3. CASE call.name = "collectPDBs"
    <3>1. PICK s \in InScope(P, "PodDisruptionBudget") : f = <<"PDBIssues", s[1], "">>
      BY <1>1, <2>3 DEF FactsByName, PDBFacts
    <3>2. Parts(call.name) = {"PDBIssues"}
      BY <2>3 DEF Parts
    <3>3. f[1] = "PDBIssues" /\ f[2] = s[1] /\ f = <<f[1], f[2], f[3]>>
      BY <3>1
    <3> QED BY <1>2, <3>2, <3>3 DEF Shaped, Unfiltered
  <2> QED BY <1>4, <2>1, <2>2, <2>3
<1>5. CASE call.name = "Pods"
  BY <1>1, <1>5, PodFactShape DEF FactsByName, Parts
<1>6. CASE call.name = "collectDeployments"
  BY <1>1, <1>6, DeploymentFactShape DEF FactsByName, Parts
<1>7. CASE call.name = "collectNodes"
  BY <1>1, <1>7, NodeFactShape DEF FactsByName, Parts
<1>8. CASE call.name \in {"collectStatefulSets", "collectDaemonSets", "collectJobs"}
  <2>1. /\ call.name = "collectStatefulSets" => call.kind = "StatefulSet"
        /\ call.name = "collectDaemonSets" => call.kind = "DaemonSet"
        /\ call.name = "collectJobs" => call.kind = "Job"
    BY CallTable DEF Entry
  <2>2. call.kind \in IssueKinds
    BY <1>8, <2>1 DEF IssueKinds
  <2>3. Shaped(f, {IssuePart[call.kind], "Pods"}
                  \cup IF call.kind = "Job" THEN {} ELSE {"Resources"})
    <3>1. f \in IssueFacts(P, call.kind, m.podsBy)
      BY <1>1, <1>8 DEF FactsByName
    <3> HIDE DEF call
    <3> QED BY <2>2, <3>1, IssueFactShape
  <2>4. {IssuePart[call.kind], "Pods"} \cup (IF call.kind = "Job" THEN {} ELSE {"Resources"})
          = Parts(call.name)
    BY <1>8, <2>1 DEF IssuePart, Parts
  <2> QED BY <2>3, <2>4
<1>9. CASE call.name = "collectWorkloads"
  BY <1>1, <1>9, WorkloadFactShape DEF FactsByName, Parts
<1>10. CASE call.name = "storageClassBindingModes"
  BY <1>1, <1>10 DEF FactsByName, Parts, Shaped, PVCFacts
<1>11. CASE call.name = "detectAddons"
  BY <1>1, <1>11 DEF FactsByName, Parts, Shaped, Unfiltered, AddonFacts
<1>12. CASE call.name \in {"buildRSToDeployMap", "collectPVCs", "detectAddonGroups",
                         "detectAddonDeployments"}
  BY <1>1, <1>12 DEF FactsByName
<1> QED BY <1>1, <1>3, <1>4, <1>5, <1>6, <1>7, <1>8, <1>9, <1>10, <1>11, <1>12 DEF CallNames

\* What sightings say has that shape.
LEMMA SaysShape ==
  ASSUME NEW P, NEW i \in 1 .. Len(Calls), NEW f \in FactsAsOf(i, P)
  PROVE  Shaped(f, Parts(Calls[i].name))
<1> DEFINE m == Remembered(P)
<1>1. \A s \in m.claims : NamespaceOf[s[1]] \notin Excluded
  BY DEF Remembered, InScope
<1>2. f \in Facts(Calls[i], P, m)
  BY DEF FactsAsOf
<1> HIDE DEF m
<1> QED BY <1>1, <1>2, FactShape

\* The calls that a fact of a part may come from.
LEMMA PartOfCall ==
  ASSUME NEW P, NEW f \in Says(P)
  PROVE  /\ f = <<f[1], f[2], f[3]>>
         /\ f[1] \in Unfiltered \/ NamespaceOf[f[2]] \notin Excluded
         /\ \E i \in 1 .. Len(Calls) :
              /\ f \in FactsAsOf(i, P)
              /\ f[1] \in {"TotalPods", "RestartingPods", "BarePods", "PodIssues"} <=>
                   Calls[i].name = "Pods"
              /\ f[1] = "Workloads" => Calls[i].name = "collectWorkloads"
              /\ f[1] = "DeploymentWorkloads" => Calls[i].name = "collectDeployments"
              /\ f[1] = "StatefulSetIssues" => Calls[i].name = "collectStatefulSets"
              /\ f[1] = "DaemonSetIssues" => Calls[i].name = "collectDaemonSets"
              /\ f[1] = "JobIssues" => Calls[i].name = "collectJobs"
<1>1. PICK i \in 1 .. Len(Calls) : f \in FactsAsOf(i, P)
  BY SaysByCall
<1>2. Shaped(f, Parts(Calls[i].name)) /\ Calls[i].name \in CallNames
  BY <1>1, SaysShape, NamesOfCalls
<1>3. f[1] \in Parts(Calls[i].name)
  BY <1>2 DEF Shaped
<1>4. /\ (f[1] \in {"TotalPods", "RestartingPods", "BarePods", "PodIssues"} <=>
            Calls[i].name = "Pods")
      /\ f[1] = "Workloads" => Calls[i].name = "collectWorkloads"
      /\ f[1] = "DeploymentWorkloads" => Calls[i].name = "collectDeployments"
      /\ f[1] = "StatefulSetIssues" => Calls[i].name = "collectStatefulSets"
      /\ f[1] = "DaemonSetIssues" => Calls[i].name = "collectDaemonSets"
      /\ f[1] = "JobIssues" => Calls[i].name = "collectJobs"
  BY <1>2, <1>3 DEF Parts, CallNames
<1> QED BY <1>1, <1>2, <1>4 DEF Shaped

\* Every variable keeps its type, and what is recorded out of a namespace that the
\* scope excludes is of a part that Collect does not filter.
THEOREM TypeInvariance == Spec => []TypeOK
<1>1. IInv => TypeOK
  <2> SUFFICES ASSUME IInv PROVE TypeOK
    OBVIOUS
  <2>1. /\ mem.rsToDeploy \subseteq Objects \X Objects /\ mem.podsBy \subseteq Objects \X Objects
        /\ mem.nodesBy \subseteq Objects \X Objects
        /\ mem.claims \subseteq Possible /\ mem.addonLists \subseteq Possible
    BY DEF IInv, Types, Memories
  <2>2. always \subseteq sometime /\ sometime \subseteq Possible
    BY DEF IInv, History
  <2>3. \A f \in snap : f[1] \in Unfiltered \/ NamespaceOf[f[2]] \notin Excluded
    BY PartOfCall DEF IInv, SnapshotBetween
  <2> QED BY <2>1, <2>2, <2>3 DEF IInv, Types, TypeOK
<1> QED BY <1>1, InductiveInvariance, PTL

-----------------------------------------------------------------------------
(***************************************************************************)
(* What the snapshot says of what did not change                           *)
(***************************************************************************)

\* The returned snapshot.
LEMMA ReturnedSnapshot ==
  ASSUME IInv, Returned
  PROVE  /\ outcome = snap /\ outcome \subseteq Says(sometime)
         /\ \A x \in Says(always) : \E g \in outcome : Covers(g, x)
         /\ \A x \in Says(always) : x[1] # "DetectedAddons" => x \in outcome
         /\ always \in SUBSET Possible /\ sometime \in SUBSET Possible
         /\ always \subseteq sometime
         /\ \A s \in always, t \in sometime : s[1] = t[1] => s = t
<1>1. outcome = snap /\ pc > Len(Calls)
  BY DEF IInv, Types, Returned
<1>2. outcome \subseteq Says(sometime)
  BY <1>1 DEF IInv, SnapshotBetween
<1>3. \A x \in Says(always) : \E g \in outcome : Covers(g, x)
  BY <1>1, AllRecorded
<1>4. ASSUME NEW x \in Says(always), x[1] # "DetectedAddons" PROVE x \in outcome
  <2>1. PICK g \in outcome : Covers(g, x)
    BY <1>3
  <2>2. g = <<g[1], g[2], g[3]>> /\ x = <<x[1], x[2], x[3]>>
    BY <1>2, <2>1, PartOfCall
  <2>3. g[1] = x[1] /\ g[2] = x[2] /\ g[3] = x[3]
    BY <1>4, <2>1 DEF Covers
  <2> QED BY <2>1, <2>2, <2>3
<1> QED BY <1>1, <1>2, <1>3, <1>4 DEF IInv, History

\* The facts of the calls that the properties speak of.
LEMMA FactsOfPods ==
  ASSUME NEW P
  PROVE  PodFacts(P) \subseteq Says(P) /\ \A f \in Says(P) :
           f[1] \in {"TotalPods", "RestartingPods", "BarePods", "PodIssues"} => f \in PodFacts(P)
<1>1. \A i \in 1 .. Len(Calls) : Calls[i].name = "Pods" => FactsAsOf(i, P) = PodFacts(P)
  BY FactsOfCall DEF FactsByName, FactsAsOf
<1>2. 4 \in 1 .. Len(Calls) /\ Calls[4].name = "Pods"
  BY NumberOfCalls, CallsByNumber
<1>3. PodFacts(P) \subseteq Says(P)
  BY <1>1, <1>2, SaysByCall
<1> QED BY <1>1, <1>3, PartOfCall

LEMMA FactsOfWorkloads ==
  ASSUME NEW P
  PROVE  /\ \A kind \in WorkloadKinds : \A s \in InScope(P, kind) :
              <<"Workloads", s[1], WorkloadStatus(kind, s[2])>> \in Says(P)
         /\ \A f \in Says(P) : f[1] = "Workloads" =>
              \E kind \in WorkloadListKinds : \E s \in InScope(P, kind) :
                f = <<"Workloads", s[1], WorkloadStatus(kind, s[2])>>
<1> DEFINE n == Remembered(P).nodesBy
<1>1. \A i \in 1 .. Len(Calls) : Calls[i].name = "collectWorkloads" =>
        FactsAsOf(i, P) = WorkloadFacts(P, Calls[i].kind, n)
  BY FactsOfCall DEF FactsByName, FactsAsOf
<1>2. \A kind \in WorkloadKinds : \E i \in 1 .. Len(Calls) :
        Calls[i].name = "collectWorkloads" /\ Calls[i].kind = kind
  <2>1. 14 \in 1 .. Len(Calls) /\ 15 \in 1 .. Len(Calls) /\ 16 \in 1 .. Len(Calls) /\ 17 \in 1 .. Len(Calls)
    BY NumberOfCalls
  <2> QED BY <2>1, CallsByNumber DEF Call, WorkloadKinds
<1> HIDE DEF n
<1>3. ASSUME NEW kind \in WorkloadKinds, NEW s \in InScope(P, kind)
      PROVE  <<"Workloads", s[1], WorkloadStatus(kind, s[2])>> \in Says(P)
  <2>1. <<"Workloads", s[1], WorkloadStatus(kind, s[2])>> \in WorkloadFacts(P, kind, n)
    BY <1>3 DEF WorkloadFacts
  <2> QED BY <1>1, <1>2, <1>3, <2>1, SaysByCall
<1>4. ASSUME NEW f \in Says(P), f[1] = "Workloads"
      PROVE  \E kind \in WorkloadListKinds : \E s \in InScope(P, kind) :
               f = <<"Workloads", s[1], WorkloadStatus(kind, s[2])>>
  <2>1. PICK i \in 1 .. Len(Calls) : f \in FactsAsOf(i, P) /\ Calls[i].name = "collectWorkloads"
    BY <1>4, PartOfCall
  <2>2. Calls[i].kind \in WorkloadListKinds /\ f \in WorkloadFacts(P, Calls[i].kind, n)
    BY <1>1, <2>1, CallTable DEF Entry
  <2> QED BY <1>4, <2>2 DEF WorkloadFacts
<1> QED BY <1>3, <1>4

LEMMA FactsOfDeployments ==
  ASSUME NEW P
  PROVE  /\ DeploymentFacts(P, GroupNotReadyPods(P, RSToDeploy(P))) \subseteq Says(P)
         /\ \A f \in Says(P) : f[1] = "DeploymentWorkloads" =>
              \E s \in InScope(P, "Deployment") :
                f = <<"DeploymentWorkloads", s[1], <<s[2].ready, s[2].desired>> >>
<1> DEFINE n == GroupNotReadyPods(P, RSToDeploy(P))
<1>1. \A i \in 1 .. Len(Calls) : Calls[i].name = "collectDeployments" =>
        FactsAsOf(i, P) = DeploymentFacts(P, n)
  <2>1. Remembered(P).podsBy = n
    BY DEF Remembered
  <2> HIDE DEF n
  <2> QED BY <2>1, FactsOfCall DEF FactsByName, FactsAsOf
<1>2. 6 \in 1 .. Len(Calls) /\ Calls[6].name = "collectDeployments"
  BY NumberOfCalls, CallsByNumber
<1> HIDE DEF n
<1>3. DeploymentFacts(P, n) \subseteq Says(P)
  BY <1>1, <1>2, SaysByCall
<1>4. ASSUME NEW f \in Says(P), f[1] = "DeploymentWorkloads"
      PROVE  \E s \in InScope(P, "Deployment") :
               f = <<"DeploymentWorkloads", s[1], <<s[2].ready, s[2].desired>> >>
  <2>1. f \in DeploymentFacts(P, n)
    BY <1>1, <1>4, PartOfCall
  <2> QED BY <1>4, <2>1 DEF DeploymentFacts, PodsOf
<1> QED BY <1>3, <1>4 DEF n

LEMMA FactsOfIssues ==
  ASSUME NEW P, NEW kind \in IssueKinds
  PROVE  /\ \A s \in InScope(P, kind) : HasIssue(kind, s[2]) =>
              <<IssuePart[kind], s[1], IssueDetail(kind, s[2])>> \in Says(P)
         /\ \A f \in Says(P) : f[1] = IssuePart[kind] =>
              \E s \in InScope(P, kind) :
                HasIssue(kind, s[2]) /\ f = <<IssuePart[kind], s[1], IssueDetail(kind, s[2])>>
<1> DEFINE n == Remembered(P).podsBy
           name == [StatefulSet |-> "collectStatefulSets", DaemonSet |-> "collectDaemonSets",
                    Job |-> "collectJobs"][kind]
<1>1. \A i \in 1 .. Len(Calls) : Calls[i].name = name =>
        FactsAsOf(i, P) = IssueFacts(P, kind, n)
  <2>1. SUFFICES ASSUME NEW i \in 1 .. Len(Calls), Calls[i].name = name
                 PROVE  FactsAsOf(i, P) = IssueFacts(P, kind, n)
    OBVIOUS
  <2>2. Calls[i].kind = kind
    BY <2>1, CallTable DEF Entry, IssueKinds
  <2>3. name \in {"collectStatefulSets", "collectDaemonSets", "collectJobs"}
    BY DEF IssueKinds
  <2> HIDE DEF name
  <2> QED BY <2>1, <2>2, <2>3, FactsOfCall DEF FactsByName, FactsAsOf
<1>2. \E i \in 1 .. Len(Calls) : Calls[i].name = name
  <2>1. 9 \in 1 .. Len(Calls) /\ 10 \in 1 .. Len(Calls) /\ 11 \in 1 .. Len(Calls)
    BY NumberOfCalls
  <2> QED BY <2>1, CallsByNumber DEF Call, IssueKinds
<1>3. IssuePart[kind] \in {"StatefulSetIssues", "DaemonSetIssues", "JobIssues"}
  BY DEF IssuePart, IssueKinds
<1>4. \A f \in Says(P) : f[1] = IssuePart[kind] =>
        \E i \in 1 .. Len(Calls) : f \in FactsAsOf(i, P) /\ Calls[i].name = name
  BY PartOfCall DEF IssuePart, IssueKinds
<1> HIDE DEF n, name
<1>5. ASSUME NEW s \in InScope(P, kind), HasIssue(kind, s[2])
      PROVE  <<IssuePart[kind], s[1], IssueDetail(kind, s[2])>> \in Says(P)
  <2>1. <<IssuePart[kind], s[1], IssueDetail(kind, s[2])>> \in IssueFacts(P, kind, n)
    BY <1>5 DEF IssueFacts
  <2> QED BY <1>1, <1>2, <2>1, SaysByCall
<1>6. ASSUME NEW f \in Says(P), f[1] = IssuePart[kind]
      PROVE  \E s \in InScope(P, kind) :
               HasIssue(kind, s[2]) /\ f = <<IssuePart[kind], s[1], IssueDetail(kind, s[2])>>
  <2>1. f \in IssueFacts(P, kind, n)
    BY <1>1, <1>4, <1>6
  <2>2. f[1] # "Pods" /\ f[1] # "Resources"
    BY <1>3, <1>6
  <2>3. \/ \E s \in InScope(P, kind) :
              HasIssue(kind, s[2]) /\ f = <<IssuePart[kind], s[1], IssueDetail(kind, s[2])>>
        \/ f[1] = "Pods"
        \/ f[1] = "Resources"
    BY <2>1 DEF IssueFacts, PodsOf
  <2> QED BY <2>2, <2>3
<1> QED BY <1>5, <1>6

\* A pod that is recorded as not ready, and was there all the time, was not ready
\* all the time.
LEMMA IssueLasts ==
  ASSUME IInv, Returned, NEW f \in outcome, f[1] = "PodIssues", Lasts(f[2])
  PROVE  \E s \in Pods(always) : ~s[2].ready /\ f[2] = s[1]
<1>1. f \in PodFacts(sometime)
  BY ReturnedSnapshot, FactsOfPods
<1>2. PICK s \in Pods(sometime) : ~s[2].ready /\ f[2] = s[1]
  BY <1>1, PodFactsByPart
<1>3. s \in sometime
  BY <1>2 DEF Pods, InScope, Listed
<1>4. PICK t \in always : t[1] = f[2]
  BY DEF Lasts
<1>5. t = s
  BY <1>2, <1>3, <1>4, ReturnedSnapshot
<1>6. s \in Pods(always)
  BY <1>2, <1>4, <1>5 DEF Pods, InScope, Listed
<1> QED BY <1>2, <1>6

\* What was there all the time, in a namespace in scope, is listed.
LEMMA LastingIsListed ==
  ASSUME IInv, NEW o, Lasts(o), NamespaceOf[o] \notin Excluded
  PROVE  o \in Objects /\ \E s \in InScope(always, KindOf[o]) : s[1] = o
<1>1. PICK s \in always : s[1] = o /\ s[2] # Absent
  BY DEF Lasts
<1>2. s \in Possible
  BY <1>1 DEF IInv, History
<1> QED BY <1>1, <1>2, PossibleSighting DEF InScope, Listed

\* A pod that is not ready and stays so is shown as down itself, or its workload is
\* in the graph; and it is listed under the Deployment of its ReplicaSet.
THEOREM FailuresHaveAPlace == Spec => []EveryFailureHasAPlace
<1>1. IInv => EveryFailureHasAPlace
  <2> SUFFICES ASSUME IInv, Returned, NEW f \in outcome, f[1] = "PodIssues", Lasts(f[2])
               PROVE  IF OwnerOf[f[2]] = NoOwner THEN <<"BarePods", f[2], "Down">> \in outcome
                      ELSE LET w == WorkloadOf(f[2])
                           IN Lasts(OwnerOf[f[2]]) /\ Lasts(w) /\ KindOf[w] \in WorkloadKinds =>
                                /\ InPart("Workloads", w)
                                /\ KindOf[w] = "Deployment" /\ KindOf[OwnerOf[f[2]]] = "ReplicaSet"
                                     => <<"Pods", w, f[2]>> \in outcome
    BY DEF EveryFailureHasAPlace
  <2>1. PICK s \in Pods(always) : ~s[2].ready /\ f[2] = s[1]
    BY IssueLasts
  <2>2. \A x \in Says(always) : x[1] # "DetectedAddons" => x \in outcome
    BY ReturnedSnapshot
  <2>3. CASE OwnerOf[f[2]] = NoOwner
    <3>1. <<"BarePods", s[1], "Down">> \in PodFacts(always)
      BY <2>1, <2>3 DEF PodFacts
    <3>2. <<"BarePods", s[1], "Down">> \in Says(always)
      BY <3>1, FactsOfPods
    <3>3. <<"BarePods", s[1], "Down">> \in outcome
      BY <2>2, <3>2
    <3> QED BY <2>1, <2>3, <3>3
  <2>4. CASE OwnerOf[f[2]] # NoOwner
    <3> DEFINE owner == OwnerOf[f[2]]
               w == WorkloadOf(f[2])
    <3>1. SUFFICES ASSUME Lasts(owner), Lasts(w), KindOf[w] \in WorkloadKinds
                   PROVE  /\ InPart("Workloads", w)
                          /\ KindOf[w] = "Deployment" /\ KindOf[owner] = "ReplicaSet"
                               => <<"Pods", w, f[2]>> \in outcome
      BY <2>4
    <3>2. f[2] \in Objects /\ NamespaceOf[f[2]] \notin Excluded
      <4>1. s \in Possible
        BY <2>1, ReturnedSnapshot DEF Pods, InScope, Listed
      <4> QED BY <2>1, <4>1, PossibleSighting DEF Pods, InScope
    <3>3. owner \in Objects
      BY <2>4, <3>2, ObjectsAssumption
    <3>4. w \in Objects
      <4>1. PICK t \in always : t[1] = w
        BY <3>1 DEF Lasts
      <4> QED BY <4>1, PossibleSighting, ReturnedSnapshot
    <3>5. /\ KindOf[owner] = "ReplicaSet" => w = OwnerOf[owner] /\ w # NoOwner
          /\ KindOf[owner] # "ReplicaSet" => w = owner
      BY <3>4, ObjectsAssumption DEF WorkloadOf
    <3>6. NamespaceOf[w] = NamespaceOf[f[2]] /\ NamespaceOf[owner] = NamespaceOf[f[2]]
      BY <2>4, <3>1, <3>2, <3>3, <3>4, <3>5, KubernetesAssumption
    <3> HIDE DEF w
    <3>7. PICK t \in InScope(always, KindOf[w]) : t[1] = w
      BY <3>1, <3>2, <3>6, LastingIsListed
    <3>8. InPart("Workloads", w)
      <4>1. <<"Workloads", w, WorkloadStatus(KindOf[w], t[2])>> \in Says(always)
        BY <3>1, <3>7, FactsOfWorkloads
      <4> QED BY <2>2, <4>1 DEF InPart
    <3>9. ASSUME KindOf[w] = "Deployment", KindOf[owner] = "ReplicaSet"
          PROVE  <<"Pods", w, f[2]>> \in outcome
      <4>1. PICK r \in InScope(always, "ReplicaSet") : r[1] = owner
        BY <3>1, <3>2, <3>6, <3>9, LastingIsListed
      <4>2. <<owner, w>> \in RSToDeploy(always)
        BY <3>5, <3>9, <4>1 DEF RSToDeploy, InScope
      <4>3. w \in ResolveWorkload(f[2], RSToDeploy(always))
        BY <2>4, <3>9, <4>2 DEF ResolveWorkload
      <4>4. <<w, f[2]>> \in GroupNotReadyPods(always, RSToDeploy(always))
        BY <2>1, <4>3, PodMaps
      <4>5. <<"Pods", w, f[2]>> \in DeploymentFacts(always, GroupNotReadyPods(always, RSToDeploy(always)))
        <5> DEFINE m == GroupNotReadyPods(always, RSToDeploy(always))
                   W == {d[1] : d \in InScope(always, "Deployment")}
        <5>1. w \in W
          BY <3>7, <3>9
        <5> HIDE DEF m, W
        <5>2. <<"Pods", w, f[2]>> \in PodsOf(W, m)
          BY <4>4, <5>1 DEF PodsOf, m
        <5> QED BY <5>2 DEF DeploymentFacts, m, W
      <4>6. <<"Pods", w, f[2]>> \in Says(always)
        BY <4>5, FactsOfDeployments
      <4> QED BY <2>2, <4>6
    <3> QED BY <3>8, <3>9
  <2> QED BY <2>3, <2>4
<1> QED BY <1>1, InductiveInvariance, PTL

-----------------------------------------------------------------------------
(***************************************************************************)
(* The report and the graph                                                *)
(***************************************************************************)

\* Of what did not change and is listed, the graph shows the status it had.
LEMMA WorkloadRecord ==
  ASSUME IInv, Returned, NEW f \in outcome, f[1] = "Workloads",
         NEW s \in always, s[1] = f[2]
  PROVE  s \in InScope(always, KindOf[f[2]]) /\ f[3] = WorkloadStatus(KindOf[f[2]], s[2])
<1>1. f \in Says(sometime) /\ \A t \in sometime : s[1] = t[1] => s = t
  BY ReturnedSnapshot
<1>2. PICK kind, t : t \in InScope(sometime, kind) /\
        f = <<"Workloads", t[1], WorkloadStatus(kind, t[2])>>
  BY <1>1, FactsOfWorkloads
<1>3. t[1] = f[2] /\ f[3] = WorkloadStatus(kind, t[2])
  BY <1>2
<1>4. t \in sometime /\ KindOf[t[1]] = kind
  BY <1>2 DEF InScope, Listed
<1>5. t = s
  BY <1>1, <1>3, <1>4
<1> QED BY <1>2, <1>3, <1>4, <1>5 DEF InScope, Listed

\* The issue the report has of it is the one its state gives.
LEMMA IssueRecord ==
  ASSUME IInv, Returned, NEW kind \in IssueKinds, NEW s \in InScope(always, kind)
  PROVE  /\ HasIssue(kind, s[2]) =>
              <<IssuePart[kind], s[1], IssueDetail(kind, s[2])>> \in outcome
         /\ \A g \in outcome : g[1] = IssuePart[kind] /\ g[2] = s[1] =>
              HasIssue(kind, s[2]) /\ g[3] = IssueDetail(kind, s[2])
         /\ InPart(IssuePart[kind], s[1]) <=> HasIssue(kind, s[2])
<1>1. s \in always
  BY DEF InScope, Listed
<1>2. IssuePart[kind] # "DetectedAddons"
  BY DEF IssueKinds, IssuePart
<1>3. ASSUME HasIssue(kind, s[2])
      PROVE  <<IssuePart[kind], s[1], IssueDetail(kind, s[2])>> \in outcome
  <2> DEFINE x == <<IssuePart[kind], s[1], IssueDetail(kind, s[2])>>
  <2>1. x \in Says(always) /\ x[1] # "DetectedAddons"
    BY <1>2, <1>3, FactsOfIssues
  <2> HIDE DEF x
  <2>2. x \in outcome
    BY <2>1, ReturnedSnapshot
  <2> QED BY <2>2 DEF x
<1>4. ASSUME NEW g \in outcome, g[1] = IssuePart[kind], g[2] = s[1]
      PROVE  HasIssue(kind, s[2]) /\ g[3] = IssueDetail(kind, s[2])
  <2>1. PICK t \in InScope(sometime, kind) :
          HasIssue(kind, t[2]) /\ g = <<IssuePart[kind], t[1], IssueDetail(kind, t[2])>>
    BY <1>4, ReturnedSnapshot, FactsOfIssues
  <2>2. t \in sometime /\ g[2] = t[1] /\ g[3] = IssueDetail(kind, t[2])
    BY <2>1 DEF InScope, Listed
  <2>3. t = s
    BY <1>1, <1>4, <2>2, ReturnedSnapshot
  <2> QED BY <2>1, <2>2, <2>3
<1>5. InPart(IssuePart[kind], s[1]) <=> HasIssue(kind, s[2])
  <2>1. ASSUME HasIssue(kind, s[2]) PROVE InPart(IssuePart[kind], s[1])
    <3> DEFINE x == <<IssuePart[kind], s[1], IssueDetail(kind, s[2])>>
    <3>1. x \in outcome /\ x[1] = IssuePart[kind] /\ x[2] = s[1]
      BY <1>3, <2>1
    <3> HIDE DEF x
    <3> QED BY <3>1 DEF InPart
  <2> QED BY <1>4, <2>1 DEF InPart
<1> QED BY <1>3, <1>4, <1>5

\* The states that the two rules of a kind are applied to.
LEMMA WorkloadState ==
  ASSUME NEW P \in SUBSET Possible, NEW kind, NEW s \in InScope(P, kind)
  PROVE  /\ s[1] \in Objects /\ KindOf[s[1]] = kind /\ s[2] \in StatesOf[s[1]] \ {Absent}
         /\ kind \in {"Deployment", "StatefulSet"} => s[2].ready \in Nat /\ s[2].desired \in Nat
         /\ kind = "DaemonSet" => /\ s[2].ready \in Nat /\ s[2].desired \in Nat
                                 /\ s[2].unavailable \in Nat
         /\ kind = "Job" => s[2].failed \in BOOLEAN /\ s[2].active \in Nat
<1>1. s \in Possible /\ KindOf[s[1]] = kind /\ s[2] # Absent
  BY DEF InScope, Listed
<1>2. s[2] \in StateOfKind(kind) /\ s[1] \in Objects /\ s[2] \in StatesOf[s[1]]
  BY <1>1, PossibleSighting
<1>3. ASSUME kind \in {"Deployment", "StatefulSet"}
      PROVE  s[2] \in [ready : Nat, desired : Nat, version : STRING]
  BY <1>2, <1>3 DEF StateOfKind, ReplicaKinds
<1>4. ASSUME kind = "DaemonSet"
      PROVE  s[2] \in [unavailable : Nat, ready : Nat, desired : Nat, version : STRING]
  BY <1>2, <1>4 DEF StateOfKind, ReplicaKinds
<1>5. ASSUME kind = "Job"
      PROVE  s[2] \in [failed : BOOLEAN, active : Nat, succeeded : Nat]
  BY <1>2, <1>5 DEF StateOfKind, ReplicaKinds
<1> QED BY <1>1, <1>2, <1>3, <1>4, <1>5

\* In the graph a workload of replicas is in trouble when some are missing.
LEMMA TroubledReplicas ==
  ASSUME NEW ready \in Nat, NEW desired \in Nat
  PROVE  ReplicaStatus(ready, desired) \in Troubled <=> ready < desired
BY DEF ReplicaStatus, Troubled

\* The two statuses of a job that are an issue.
LEMMA JobIssueStatus ==
  ASSUME NEW s, s.failed \in BOOLEAN, s.active \in Nat, NEW status \in {"Active", "Failed"}
  PROVE  JobStatus(s) = status <=> HasIssue("Job", s) /\ IssueDetail("Job", s) = <<status>>
<1>1. HasIssue("Job", s) <=> s.active > 0 \/ s.failed
  BY DEF HasIssue
<1>2. IssueDetail("Job", s) = <<IF s.failed THEN "Failed" ELSE "Active">>
  BY DEF IssueDetail
<1>3. IssueDetail("Job", s) = <<status>> <=> status = IF s.failed THEN "Failed" ELSE "Active"
  BY <1>2
<1> QED BY <1>1, <1>3 DEF JobStatus

\* The graph and the report agree on a workload that did not change.
LEMMA WorkloadViewsAgree ==
  ASSUME IInv, Returned, NEW f \in outcome, f[1] = "Workloads",
         NEW s \in always, s[1] = f[2]
  PROVE  CASE KindOf[f[2]] = "StatefulSet" ->
                f[3] \in Troubled <=> InPart("StatefulSetIssues", f[2])
           [] KindOf[f[2]] = "DaemonSet" ->
                f[3] \in Troubled => InPart("DaemonSetIssues", f[2])
           [] KindOf[f[2]] = "Job" ->
                \A status \in {"Active", "Failed"} :
                  f[3] = status <=> <<"JobIssues", f[2], <<status>> >> \in outcome
           [] KindOf[f[2]] = "Deployment" ->
                f[3] \in Troubled <=> \E d \in outcome :
                  d[1] = "DeploymentWorkloads" /\ d[2] = f[2] /\ d[3][1] < d[3][2]
           [] OTHER -> TRUE
<1> DEFINE kind == KindOf[f[2]]
<1>1. s \in InScope(always, kind) /\ f[3] = WorkloadStatus(kind, s[2])
  BY WorkloadRecord
<1>2. always \in SUBSET Possible
  BY ReturnedSnapshot
<1>3. ASSUME kind = "StatefulSet"
      PROVE  f[3] \in Troubled <=> InPart("StatefulSetIssues", f[2])
  <2>1. s[2].ready \in Nat /\ s[2].desired \in Nat
    BY <1>1, <1>2, <1>3, WorkloadState
  <2>2. f[3] \in Troubled <=> s[2].ready < s[2].desired
    BY <1>1, <1>3, <2>1, TroubledReplicas DEF WorkloadStatus
  <2>3. HasIssue("StatefulSet", s[2]) <=> s[2].ready < s[2].desired
    BY DEF HasIssue
  <2>4. InPart("StatefulSetIssues", f[2]) <=> HasIssue("StatefulSet", s[2])
    <3>1. IssuePart["StatefulSet"] = "StatefulSetIssues" /\ "StatefulSet" \in IssueKinds
      BY DEF IssueKinds, IssuePart
    <3>2. InPart(IssuePart["StatefulSet"], s[1]) <=> HasIssue("StatefulSet", s[2])
      BY <1>1, <1>3, <3>1, IssueRecord
    <3> QED BY <3>1, <3>2
  <2> QED BY <2>2, <2>3, <2>4
<1>4. ASSUME kind = "DaemonSet", f[3] \in Troubled
      PROVE  InPart("DaemonSetIssues", f[2])
  <2>1. /\ s[2].ready \in Nat /\ s[2].desired \in Nat /\ s[2].unavailable \in Nat
        /\ s[1] \in Objects /\ KindOf[s[1]] = "DaemonSet" /\ s[2] \in StatesOf[s[1]] \ {Absent}
    BY <1>1, <1>2, <1>4, WorkloadState
  <2>2. s[2].ready < s[2].desired
    BY <1>1, <1>4, <2>1, TroubledReplicas DEF WorkloadStatus
  <2>3. s[2].desired - s[2].unavailable <= s[2].ready
    BY <2>1, KubernetesAssumption
  <2>4. HasIssue("DaemonSet", s[2])
    BY <2>1, <2>2, <2>3 DEF HasIssue
  <2>5. IssuePart["DaemonSet"] = "DaemonSetIssues" /\ "DaemonSet" \in IssueKinds
    BY DEF IssueKinds, IssuePart
  <2>6. InPart(IssuePart["DaemonSet"], s[1])
    BY <1>1, <1>4, <2>4, <2>5, IssueRecord
  <2> QED BY <2>5, <2>6
<1>5. ASSUME kind = "Job", NEW status \in {"Active", "Failed"}
      PROVE  f[3] = status <=> <<"JobIssues", f[2], <<status>> >> \in outcome
  <2>1. s[2].failed \in BOOLEAN /\ s[2].active \in Nat
    BY <1>1, <1>2, <1>5, WorkloadState
  <2>2. f[3] = JobStatus(s[2])
    BY <1>1, <1>5 DEF WorkloadStatus
  <2>3. f[3] = status <=> HasIssue("Job", s[2]) /\ IssueDetail("Job", s[2]) = <<status>>
    BY <2>1, <2>2, JobIssueStatus
  <2>4. ASSUME HasIssue("Job", s[2]), IssueDetail("Job", s[2]) = <<status>>
        PROVE  <<"JobIssues", f[2], <<status>> >> \in outcome
    BY <1>1, <1>5, <2>4, IssueRecord DEF IssueKinds, IssuePart
  <2>5. ASSUME <<"JobIssues", f[2], <<status>> >> \in outcome
        PROVE  HasIssue("Job", s[2]) /\ IssueDetail("Job", s[2]) = <<status>>
    <3> DEFINE g == <<"JobIssues", f[2], <<status>> >>
    <3>1. g \in outcome /\ g[1] = IssuePart["Job"] /\ g[2] = s[1] /\ g[3] = <<status>>
      BY <2>5 DEF IssuePart
    <3> HIDE DEF g
    <3> QED BY <1>1, <1>5, <3>1, IssueRecord DEF IssueKinds
  <2> QED BY <2>3, <2>4, <2>5
<1>6. ASSUME kind = "Deployment"
      PROVE  f[3] \in Troubled <=> \E d \in outcome :
               d[1] = "DeploymentWorkloads" /\ d[2] = f[2] /\ d[3][1] < d[3][2]
  <2>1. s[2].ready \in Nat /\ s[2].desired \in Nat
    BY <1>1, <1>2, <1>6, WorkloadState
  <2>2. f[3] \in Troubled <=> s[2].ready < s[2].desired
    BY <1>1, <1>6, <2>1, TroubledReplicas DEF WorkloadStatus
  <2>3. <<"DeploymentWorkloads", f[2], <<s[2].ready, s[2].desired>> >> \in outcome
    <3> DEFINE x == <<"DeploymentWorkloads", f[2], <<s[2].ready, s[2].desired>> >>
    <3>1. x \in Says(always) /\ x[1] # "DetectedAddons"
      BY <1>1, <1>6, FactsOfDeployments DEF DeploymentFacts
    <3> HIDE DEF x
    <3>2. x \in outcome
      BY <3>1, ReturnedSnapshot
    <3> QED BY <3>2 DEF x
  <2>4. ASSUME NEW d \in outcome, d[1] = "DeploymentWorkloads", d[2] = f[2]
        PROVE  d[3] = <<s[2].ready, s[2].desired>>
    <3>1. PICK t \in InScope(sometime, "Deployment") :
            d = <<"DeploymentWorkloads", t[1], <<t[2].ready, t[2].desired>> >>
      BY <2>4, ReturnedSnapshot, FactsOfDeployments
    <3>2. t \in sometime /\ d[2] = t[1] /\ d[3] = <<t[2].ready, t[2].desired>>
      BY <3>1 DEF InScope, Listed
    <3>3. t = s
      BY <2>4, <3>2, ReturnedSnapshot
    <3> QED BY <3>2, <3>3
  <2>5. (\E d \in outcome : d[1] = "DeploymentWorkloads" /\ d[2] = f[2] /\ d[3][1] < d[3][2])
          => s[2].ready < s[2].desired
    BY <2>4
  <2>6. s[2].ready < s[2].desired =>
          \E d \in outcome : d[1] = "DeploymentWorkloads" /\ d[2] = f[2] /\ d[3][1] < d[3][2]
    BY <2>3
  <2> QED BY <2>2, <2>5, <2>6
<1> QED BY <1>3, <1>4, <1>5, <1>6

PodParts == {"TotalPods", "RestartingPods", "BarePods", "PodIssues"}

\* All that the snapshot says of pods is of one moment, that of the list of pods.
PodsOfOneMoment ==
  \E P \in SUBSET Possible :
    /\ \A s, t \in P : s[1] = t[1] => s = t
    /\ \A f : f \in snap /\ f[1] \in PodParts <=> f \in PodFacts(P)
    /\ pc <= 4 => PodFacts(P) = {}

LEMMA PodFactsParts ==
  ASSUME NEW P, NEW f \in PodFacts(P)
  PROVE  f[1] \in PodParts
BY PodFactsByPart DEF PodParts

\* What a call records besides.
LEMMA RecordedPods ==
  ASSUME NEW i \in 1 .. Len(Calls), NEW P, NEW m, NEW S,
         m.claims \subseteq InScope(S, "PersistentVolumeClaim"),
         NEW recorded \in Recordings(Facts(Calls[i], P, m))
  PROVE  /\ i = 4 => recorded = PodFacts(P)
         /\ i # 4 => \A f \in recorded : f[1] \notin PodParts
<1> DEFINE facts == Facts(Calls[i], P, m)
<1>1. /\ recorded \subseteq facts
      /\ \A f \in facts : f[1] # "DetectedAddons" => f \in recorded
  BY RecordingsCover
<1>2. ASSUME i = 4 PROVE recorded = PodFacts(P)
  <2>1. facts = PodFacts(P)
    <3>1. Calls[i].name = "Pods"
      BY <1>2, CallsByNumber
    <3>2. FactsByName(Calls[i], P, m)
      BY FactsOfCall
    <3> QED BY <3>1, <3>2 DEF FactsByName
  <2>2. \A f \in PodFacts(P) : f[1] # "DetectedAddons"
    BY PodFactsParts DEF PodParts
  <2> QED BY <1>1, <2>1, <2>2
<1>3. ASSUME i # 4, NEW f \in recorded PROVE f[1] \notin PodParts
  <2>1. \A s \in m.claims : NamespaceOf[s[1]] \notin Excluded
    BY DEF InScope
  <2>2. f \in facts
    BY <1>1, <1>3
  <2>3. Shaped(f, Parts(Calls[i].name))
    BY <2>1, <2>2, FactShape
  <2>4. Calls[i].name # "Pods" /\ Calls[i].name \in CallNames
    BY <1>3, CallTable, NamesOfCalls DEF Entry
  <2> QED BY <2>3, <2>4 DEF Shaped, Parts, CallNames, PodParts
<1> QED BY <1>2, <1>3

LEMMA PodsOfOneMomentInvariance == Spec => []PodsOfOneMoment
<1>1. Init => PodsOfOneMoment
  <2> SUFFICES ASSUME Init PROVE PodsOfOneMoment
    OBVIOUS
  <2>1. PodFacts({}) = {}
    <3>1. Pods({}) = {}
      BY DEF Pods, InScope, Listed
    <3> QED BY <3>1, PodFactsByPart
  <2> QED BY <2>1 DEF Init, PodsOfOneMoment
<1>2. IInv /\ IInv' /\ PodsOfOneMoment /\ [Next]_vars => PodsOfOneMoment'
  <2> SUFFICES ASSUME IInv, IInv', PodsOfOneMoment, [Next]_vars PROVE PodsOfOneMoment'
    OBVIOUS
  <2>1. PICK P \in SUBSET Possible :
          /\ \A s, t \in P : s[1] = t[1] => s = t
          /\ \A f : f \in snap /\ f[1] \in PodParts <=> f \in PodFacts(P)
          /\ pc <= 4 => PodFacts(P) = {}
    BY DEF PodsOfOneMoment
  <2>2. CASE UNCHANGED <<pc, snap>>
    BY <2>2 DEF PodsOfOneMoment
  <2>3. ASSUME NEW Q, Read(Q), pc <= Len(Calls), pc' >= pc + 1, pc # 4
        PROVE  PodsOfOneMoment'
    <3>1. pc \in 1 .. Len(Calls) /\ pc' \in Int
      BY <2>3, NumberOfCalls DEF IInv, Types
    <3>2. PICK recorded \in Recordings(Facts(Calls[pc], Q, mem')) : snap' = snap \cup recorded
      BY <2>3 DEF Read
    <3>3. mem'.claims \subseteq InScope(sometime', "PersistentVolumeClaim")
      BY DEF IInv, MemoryBetween
    <3>4. \A f \in recorded : f[1] \notin PodParts
      BY <2>3, <3>1, <3>3, RecordedPods
    <3>5. \A f : f \in snap' /\ f[1] \in PodParts <=> f \in PodFacts(P)
      BY <2>1, <3>2, <3>4
    <3>6. pc' <= 4 => PodFacts(P) = {}
      BY <2>1, <2>3, <3>1, NumberOfCalls
    <3> QED BY <2>1, <3>5, <3>6 DEF PodsOfOneMoment
  <2>4. CASE List
    <3> DEFINE Q == OfKind(cluster, Calls[pc].kind)
    <3>1. Read(Q) /\ pc <= Len(Calls) /\ pc' = pc + 1
      BY <2>4 DEF List
    <3>2. pc \in 1 .. Len(Calls)
      BY <3>1, NumberOfCalls DEF IInv, Types
    <3>3. Q \in SUBSET Possible /\ \A s, t \in Q : s[1] = t[1] => s = t
      BY SightingsType DEF IInv, OfKind
    <3> HIDE DEF Q
    <3>4. CASE pc = 4
      <4>1. PICK recorded \in Recordings(Facts(Calls[pc], Q, mem')) : snap' = snap \cup recorded
        BY <3>1 DEF Read
      <4>2. mem'.claims \subseteq InScope(sometime', "PersistentVolumeClaim")
        BY DEF IInv, MemoryBetween
      <4>3. recorded = PodFacts(Q)
        BY <3>2, <3>4, <4>2, RecordedPods
      <4>4. \A f : f \in snap => f[1] \notin PodParts
        BY <2>1, <3>4
      <4>5. \A f : f \in snap' /\ f[1] \in PodParts <=> f \in PodFacts(Q)
        BY <4>1, <4>3, <4>4, PodFactsParts
      <4>6. ~ (pc' <= 4)
        BY <3>1, <3>4
      <4> QED BY <3>3, <4>5, <4>6 DEF PodsOfOneMoment
    <3>5. CASE pc # 4
      <4>1. pc' >= pc + 1
        BY <3>1, <3>2, NumberOfCalls
      <4> QED BY <2>3, <3>1, <3>5, <4>1
    <3> QED BY <3>4, <3>5
  <2>5. CASE ListOverlooked
    <3>1. /\ pc <= Len(Calls) /\ ~Calls[pc].fatal
          /\ pc' = IF Calls[pc].name = "collectPVCs" THEN pc + 2 ELSE pc + 1
      BY <2>5, OverlookedParts
    <3>2. PICK known, blank : Overlooked(known, blank)
      BY <2>5, OverlookedParts
    <3>3. Read(blank \cup known)
      BY <3>2 DEF Overlooked
    <3>4. pc # 4
      BY <3>1 DEF Calls, Call
    <3>5. pc' >= pc + 1
      BY <3>1, NumberOfCalls DEF IInv, Types
    <3> QED BY <2>3, <3>1, <3>3, <3>4, <3>5
  <2>6. CASE ListFails \/ Return \/ UNCHANGED vars
    BY <2>2, <2>6 DEF ListFails, Return, vars
  <2>7. ASSUME NEW o \in Objects, Change(o) PROVE PodsOfOneMoment'
    BY <2>2, <2>7 DEF Change
  <2> QED BY <2>4, <2>5, <2>6, <2>7 DEF Next
<1> QED BY <1>1, <1>2, InductiveInvariance, PTL DEF Spec

\* A pod that restarts abnormally, or is shown as down, is among the pods that are
\* not ready, and a standalone pod that is not ready is shown as down.
LEMMA PodViewsAgree ==
  ASSUME PodsOfOneMoment, NEW f \in snap, f[1] \in {"RestartingPods", "BarePods"}
  PROVE  f[3] # "Running" <=> \E g \in snap : g[1] = "PodIssues" /\ g[2] = f[2]
<1>1. PICK P \in SUBSET Possible :
        /\ \A s, t \in P : s[1] = t[1] => s = t
        /\ \A g : g \in snap /\ g[1] \in PodParts <=> g \in PodFacts(P)
  BY DEF PodsOfOneMoment
<1>2. PICK s \in Pods(P) :
        /\ f[2] = s[1]
        /\ \/ f[1] = "RestartingPods" /\ f[3] = "" /\ IsRestartingAbnormally(s[2])
           \/ f[1] = "BarePods" /\ f[3] = IF s[2].ready THEN "Running" ELSE "Down"
  BY <1>1, PodFactsByPart DEF PodParts
<1>3. f[3] # "Running" <=> ~s[2].ready
  <2>1. s[2].crashing => ~s[2].ready
    BY PodState, KubernetesAssumption
  <2> QED BY <1>2, <2>1 DEF IsRestartingAbnormally
<1>4. ASSUME ~s[2].ready PROVE \E g \in snap : g[1] = "PodIssues" /\ g[2] = f[2]
  <2> DEFINE g == <<"PodIssues", s[1], s[2].restarts>>
  <2>1. g \in PodFacts(P) /\ g[1] = "PodIssues" /\ g[2] = f[2]
    BY <1>2, <1>4 DEF PodFacts
  <2> HIDE DEF g
  <2> QED BY <1>1, <2>1
<1>5. ASSUME NEW g \in snap, g[1] = "PodIssues", g[2] = f[2] PROVE ~s[2].ready
  <2>1. PICK t \in Pods(P) : g[2] = t[1] /\ ~t[2].ready
    <3>1. g \in PodFacts(P)
      BY <1>1, <1>5 DEF PodParts
    <3> QED BY <1>5, <3>1, PodFactsByPart
  <2>2. s \in P /\ t \in P
    BY <2>1 DEF Pods, InScope, Listed
  <2> QED BY <1>1, <1>2, <1>5, <2>1, <2>2
<1> QED BY <1>3, <1>4, <1>5

\* What the graph is told of an object and what the report says of it agree, though
\* they come from different lists, by different rules.
THEOREM ReportAndGraphAgree == Spec => []ViewsAgree
<1>1. IInv /\ PodsOfOneMoment => ViewsAgree
  <2> SUFFICES ASSUME IInv, PodsOfOneMoment, Returned PROVE ViewsAgree
    BY DEF ViewsAgree
  <2>1. outcome = snap
    BY ReturnedSnapshot
  <2>2. ASSUME NEW f \in outcome, f[1] \in {"RestartingPods", "BarePods"}
        PROVE  f[3] # "Running" <=> InPart("PodIssues", f[2])
    BY <2>1, <2>2, PodViewsAgree DEF InPart
  <2> QED BY <2>2, WorkloadViewsAgree DEF ViewsAgree
<1> QED BY <1>1, InductiveInvariance, PodsOfOneMomentInvariance, PTL

-----------------------------------------------------------------------------
(***************************************************************************)
(* One change                                                              *)
(***************************************************************************)

\* What the calls before the nth say, asked at the moment P.
SaysBefore(P, n) == UNION {FactsAsOf(i, P) : i \in {i \in 1 .. Len(Calls) : i < n}}

LEMMA SaysBeforeByCall ==
  ASSUME NEW P, NEW n, NEW f
  PROVE  f \in SaysBefore(P, n) <=>
           \E i \in 1 .. Len(Calls) : i < n /\ f \in FactsAsOf(i, P)
BY DEF SaysBefore

\* The snapshot is what was recorded of a moment at which all that is asked for from
\* now on was as it is.
AsOfMoment(P) ==
  /\ MemoryBetween(mem, P, P, pc)
  /\ snap \in Recordings(SaysBefore(P, pc))
  /\ \A i \in 1 .. Len(Calls) : i >= pc =>
       Sighted(P, Calls[i].kind) = OfKind(cluster, Calls[i].kind)

\* What is remembered only by calls that are still to come.
Unfilled ==
  /\ pc <= 3 => mem.rsToDeploy = {}
  /\ pc <= 4 => mem.podsBy = {} /\ mem.nodesBy = {}
  /\ pc <= 19 => mem.claims = {}
  /\ pc <= 22 => mem.addonLists = {}
  /\ pc <= 23 => \A s \in mem.addonLists : KindOf[s[1]] = "APIGroup"
  /\ \A s \in mem.addonLists : KindOf[s[1]] \in {"APIGroup", "Deployment"}

OneMoment ==
  /\ Unfilled
  /\ changes = 0 /\ failures = 0 => always = Sightings(cluster) /\ sometime = Sightings(cluster)
  /\ changes <= 1 /\ failures = 0 /\ (\A s \in sometime \ always : ListedOnce(s[1])) =>
       \E P \in Moments : P \in SUBSET Possible /\ AsOfMoment(P)

LEMMA NoAddonsBefore ==
  ASSUME NEW P, NEW n \in 1 .. Len(Calls), NEW f \in SaysBefore(P, n)
  PROVE  f[1] # "DetectedAddons"
<1>1. PICK i \in 1 .. Len(Calls) : i < n /\ f \in FactsAsOf(i, P)
  BY SaysBeforeByCall
<1>2. i # 24
  BY <1>1, NumberOfCalls
<1>3. Calls[i].name # "detectAddons" /\ Calls[i].name \in CallNames
  BY <1>2, CallTable, NamesOfCalls DEF Entry
<1>4. f[1] \in Parts(Calls[i].name)
  BY <1>1, SaysShape DEF Shaped
<1> QED BY <1>3, <1>4 DEF Parts, CallNames

\* Recordings of two sets of facts, of which the first names no add-on, are a
\* recording of both.
LEMMA RecordingsJoin ==
  ASSUME NEW F, NEW G, \A f \in F : f[1] # "DetectedAddons",
         NEW X \in Recordings(F), NEW Y \in Recordings(G)
  PROVE  X \cup Y \in Recordings(F \cup G)
<1> DEFINE addons(H) == {f \in H : f[1] = "DetectedAddons"}
<1>1. X = F
  <2>1. X \subseteq F /\ \A f \in F : f[1] # "DetectedAddons" => f \in X
    BY RecordingsCover
  <2> QED BY <2>1
<1>2. PICK chosen \in SUBSET addons(G) :
        OnePerAddon(addons(G), chosen) /\ Y = (G \ addons(G)) \cup chosen
  BY DEF Recordings
<1>3. addons(F \cup G) = addons(G)
  OBVIOUS
<1>4. X \cup Y = ((F \cup G) \ addons(F \cup G)) \cup chosen
  BY <1>1, <1>2
<1> HIDE DEF addons
<1>5. X \cup Y \in {((F \cup G) \ addons(F \cup G)) \cup c :
                     c \in {c \in SUBSET addons(F \cup G) : OnePerAddon(addons(F \cup G), c)}}
  BY <1>2, <1>3, <1>4
<1> QED BY <1>5 DEF Recordings, addons

\* A call says the same at two moments that agree on its kind and on those of the
\* calls before it.
LEMMA FactsAgree ==
  ASSUME NEW P \in SUBSET Possible, NEW Q \in SUBSET Possible, NEW i \in 1 .. Len(Calls),
         \A j \in 1 .. Len(Calls) : j <= i =>
           Sighted(P, Calls[j].kind) \subseteq Sighted(Q, Calls[j].kind)
  PROVE  FactsAsOf(i, P) \subseteq FactsAsOf(i, Q)
<1> DEFINE m == Remembered(P)
           n == Remembered(Q)
<1>1. i \in 1 .. 24
  BY NumberOfCalls
<1>2. \A kind : Sighted(Q, kind) \subseteq Q
  BY DEF Sighted
<1>3. i > 4 => Sighted(P, "ReplicaSet") \subseteq Q /\ Sighted(P, "Pod") \subseteq Q
  <2>1. 3 \in 1 .. Len(Calls) /\ 4 \in 1 .. Len(Calls)
    BY NumberOfCalls
  <2>2. Calls[3].kind = "ReplicaSet" /\ Calls[4].kind = "Pod"
    BY <2>1, CallTable, CallsByNumber DEF Entry
  <2>3. ASSUME i > 4
        PROVE  /\ Sighted(P, Calls[3].kind) \subseteq Sighted(Q, Calls[3].kind)
               /\ Sighted(P, Calls[4].kind) \subseteq Sighted(Q, Calls[4].kind)
    <3>1. 3 <= i /\ 4 <= i
      BY <1>1, <2>3
    <3> QED BY <2>1, <3>1
  <2> QED BY <1>2, <2>2, <2>3
<1>4. i > 4 => m.podsBy \subseteq n.podsBy /\ m.nodesBy \subseteq n.nodesBy
  BY <1>3, RSToDeployGrows, PodMapsGrow DEF Remembered
<1>5. i > 19 => m.claims \subseteq n.claims /\ ClaimsNameClasses(m.claims)
  <2>1. 19 \in 1 .. Len(Calls)
    BY NumberOfCalls
  <2>2. Calls[19].kind = "PersistentVolumeClaim"
    BY <2>1, CallTable, CallsByNumber DEF Entry
  <2>3. i > 19 => Sighted(P, "PersistentVolumeClaim") \subseteq Q
    BY <1>1, <1>2, <2>1, <2>2
  <2> QED BY <2>3, ListedGrows, ClaimsOfPossible DEF Remembered
<1>6. i = 24 => \A kind \in AddonKinds :
                  Sighted(P \cup m.addonLists, kind) \subseteq Q \cup n.addonLists
  <2>1. 22 \in 1 .. Len(Calls) /\ 23 \in 1 .. Len(Calls) /\ 24 \in 1 .. Len(Calls)
    BY NumberOfCalls
  <2>2. Calls[22].kind = "APIGroup" /\ Calls[23].kind = "Deployment" /\ Calls[24].kind = "DaemonSet"
    BY <2>1, CallTable, CallsByNumber DEF Entry, Call
  <2>3. ASSUME i = 24, NEW kind \in AddonKinds PROVE Sighted(P, kind) \subseteq Q
    <3>1. /\ Sighted(P, Calls[22].kind) \subseteq Sighted(Q, Calls[22].kind)
          /\ Sighted(P, Calls[23].kind) \subseteq Sighted(Q, Calls[23].kind)
          /\ Sighted(P, Calls[24].kind) \subseteq Sighted(Q, Calls[24].kind)
      <4>1. 22 <= i /\ 23 <= i /\ 24 <= i
        BY <2>3
      <4> QED BY <2>1, <4>1
    <3> QED BY <1>2, <2>2, <2>3, <3>1 DEF AddonKinds
  <2> QED BY <2>3 DEF Remembered
<1>7. Sighted(P, Calls[i].kind) \subseteq Q
  BY <1>1, <1>2
<1> HIDE DEF m, n
<1>8. Facts(Calls[i], P, m) \subseteq Facts(Calls[i], Q, n)
  BY <1>4, <1>5, <1>6, <1>7, FactsGrow
<1> QED BY <1>8 DEF FactsAsOf, m, n

\* So two moments that agree on all that was listed cannot be told apart.
LEMMA MomentsAgree ==
  ASSUME Unfilled, pc \in 1 .. Len(Calls) + 1,
         NEW P \in SUBSET Possible, NEW Q \in SUBSET Possible,
         \A j \in 1 .. Len(Calls) : j < pc => Sighted(P, Calls[j].kind) = Sighted(Q, Calls[j].kind),
         MemoryBetween(mem, P, P, pc), snap \in Recordings(SaysBefore(P, pc))
  PROVE  MemoryBetween(mem, Q, Q, pc) /\ snap \in Recordings(SaysBefore(Q, pc))
<1>1. pc \in 1 .. 25 /\ Len(Calls) = 24
  BY NumberOfCalls
<1>2. Calls[3].kind = "ReplicaSet" /\ Calls[4].kind = "Pod" /\ Calls[19].kind = "PersistentVolumeClaim"
      /\ Calls[22].kind = "APIGroup" /\ Calls[23].kind = "Deployment"
  BY <1>1, CallTable, CallsByNumber DEF Entry, Call
<1>3. \A kind : Sighted(P, kind) \subseteq P /\ Sighted(Q, kind) \subseteq Q
  BY DEF Sighted
<1>4. /\ pc > 3 => Sighted(P, "ReplicaSet") \subseteq Q /\ Sighted(Q, "ReplicaSet") \subseteq P
      /\ pc > 4 => Sighted(P, "Pod") \subseteq Q /\ Sighted(Q, "Pod") \subseteq P
      /\ pc > 19 => /\ Sighted(P, "PersistentVolumeClaim") \subseteq Q
                    /\ Sighted(Q, "PersistentVolumeClaim") \subseteq P
      /\ pc > 22 => Sighted(P, "APIGroup") = Sighted(Q, "APIGroup")
      /\ pc > 23 => Sighted(P, "Deployment") = Sighted(Q, "Deployment")
  BY <1>1, <1>2, <1>3
<1>5. ASSUME pc > 3 PROVE RSToDeploy(P) = RSToDeploy(Q)
  <2>1. Sighted(P, "ReplicaSet") \subseteq Q /\ Sighted(Q, "ReplicaSet") \subseteq P
    BY <1>4, <1>5
  <2>2. RSToDeploy(P) \subseteq RSToDeploy(Q) /\ RSToDeploy(Q) \subseteq RSToDeploy(P)
    BY <2>1, RSToDeployGrows
  <2> QED BY <2>2
<1>6. pc > 4 => /\ GroupNotReadyPods(P, RSToDeploy(P)) = GroupNotReadyPods(Q, RSToDeploy(Q))
                /\ RecordPodNode(P, RSToDeploy(P)) = RecordPodNode(Q, RSToDeploy(Q))
  <2>1. SUFFICES ASSUME pc > 4
                 PROVE  /\ GroupNotReadyPods(P, RSToDeploy(P)) = GroupNotReadyPods(Q, RSToDeploy(Q))
                        /\ RecordPodNode(P, RSToDeploy(P)) = RecordPodNode(Q, RSToDeploy(Q))
    OBVIOUS
  <2>2. RSToDeploy(P) = RSToDeploy(Q) /\ Sighted(P, "Pod") \subseteq Q /\ Sighted(Q, "Pod") \subseteq P
    BY <1>1, <1>4, <1>5, <2>1
  <2> DEFINE m == RSToDeploy(P)
             n == RSToDeploy(Q)
  <2>3. m \subseteq n /\ n \subseteq m
    BY <2>2
  <2> HIDE DEF m, n
  <2>4. /\ GroupNotReadyPods(P, m) \subseteq GroupNotReadyPods(Q, n)
        /\ RecordPodNode(P, m) \subseteq RecordPodNode(Q, n)
    BY <2>2, <2>3, PodMapsGrow
  <2>5. /\ GroupNotReadyPods(Q, n) \subseteq GroupNotReadyPods(P, m)
        /\ RecordPodNode(Q, n) \subseteq RecordPodNode(P, m)
    BY <2>2, <2>3, PodMapsGrow
  <2> QED BY <2>4, <2>5 DEF m, n
<1>7. ASSUME pc > 19
      PROVE  InScope(P, "PersistentVolumeClaim") = InScope(Q, "PersistentVolumeClaim")
  <2>1. /\ Sighted(P, "PersistentVolumeClaim") \subseteq Q
        /\ Sighted(Q, "PersistentVolumeClaim") \subseteq P
    BY <1>4, <1>7
  <2>2. /\ InScope(P, "PersistentVolumeClaim") \subseteq InScope(Q, "PersistentVolumeClaim")
        /\ InScope(Q, "PersistentVolumeClaim") \subseteq InScope(P, "PersistentVolumeClaim")
    BY <2>1, ListedGrows
  <2> QED BY <2>2
<1>8. mem.addonLists \subseteq Q
  <2>1. mem.addonLists \subseteq P
    BY DEF MemoryBetween
  <2>2. CASE pc <= 22
    BY <2>2 DEF Unfilled
  <2>3. CASE pc = 23
    BY <1>3, <1>4, <2>1, <2>3 DEF Unfilled, Sighted
  <2>4. CASE pc > 23
    BY <1>1, <1>3, <1>4, <2>1, <2>4 DEF Unfilled, Sighted
  <2> QED BY <1>1, <2>2, <2>3, <2>4
<1>9. MemoryBetween(mem, Q, Q, pc)
  <2>1. mem.rsToDeploy \subseteq RSToDeploy(Q) /\ (pc > 3 => RSToDeploy(Q) \subseteq mem.rsToDeploy)
    BY <1>1, <1>5 DEF MemoryBetween, Unfilled
  <2>2. /\ mem.podsBy \subseteq GroupNotReadyPods(Q, RSToDeploy(Q))
        /\ pc > 4 => GroupNotReadyPods(Q, RSToDeploy(Q)) \subseteq mem.podsBy
        /\ mem.nodesBy \subseteq RecordPodNode(Q, RSToDeploy(Q))
        /\ pc > 4 => RecordPodNode(Q, RSToDeploy(Q)) \subseteq mem.nodesBy
    BY <1>1, <1>6 DEF MemoryBetween, Unfilled
  <2>3. /\ mem.claims \subseteq InScope(Q, "PersistentVolumeClaim")
        /\ pc > 19 => InScope(Q, "PersistentVolumeClaim") \subseteq mem.claims
    BY <1>1, <1>7 DEF MemoryBetween, Unfilled
  <2>4. /\ pc > 22 => Sighted(Q, "APIGroup") \subseteq mem.addonLists
        /\ pc > 23 => Sighted(Q, "Deployment") \subseteq mem.addonLists
    BY <1>4 DEF MemoryBetween
  <2> QED BY <1>8, <2>1, <2>2, <2>3, <2>4 DEF MemoryBetween
<1>10. SaysBefore(P, pc) = SaysBefore(Q, pc)
  <2>1. ASSUME NEW i \in 1 .. Len(Calls), i < pc PROVE FactsAsOf(i, P) = FactsAsOf(i, Q)
    <3>1. \A j \in 1 .. Len(Calls) : j <= i => j < pc
      BY <1>1, <2>1
    <3>2. FactsAsOf(i, P) \subseteq FactsAsOf(i, Q)
      BY <3>1, FactsAgree
    <3>3. FactsAsOf(i, Q) \subseteq FactsAsOf(i, P)
      BY <3>1, FactsAgree
    <3> QED BY <3>2, <3>3
  <2>2. \A f : f \in SaysBefore(P, pc) <=> f \in SaysBefore(Q, pc)
    BY <2>1, SaysBeforeByCall
  <2> QED BY <2>2
<1> QED BY <1>9, <1>10

\* A list of the kinds as they were at that moment is recorded as of that moment.
LEMMA ListOfMoment ==
  ASSUME IInv, List, NEW P \in SUBSET Possible, AsOfMoment(P)
  PROVE  AsOfMoment(P)'
<1> DEFINE Q == OfKind(cluster, Calls[pc].kind)
<1>1. /\ pc <= Len(Calls) /\ pc' = pc + 1 /\ Read(Q)
      /\ UNCHANGED cluster
  BY DEF List
<1>2. pc \in 1 .. Len(Calls) /\ mem \in Memories
  BY <1>1, NumberOfCalls DEF IInv, Types
<1>3. Q = Sighted(P, Calls[pc].kind)
  BY <1>2, NumberOfCalls DEF AsOfMoment
<1>4. Q \in SUBSET P /\ Sighted(P, Calls[pc].kind) \subseteq Q
  BY <1>3 DEF Sighted
<1> HIDE DEF Q
<1>5. mem' = Remember(Calls[pc], Q, mem)
  BY <1>1 DEF Read
<1>6. PICK recorded \in Recordings(Facts(Calls[pc], Q, mem')) : snap' = snap \cup recorded
  BY <1>1 DEF Read
<1>7. MemoryBetween(mem', P, P, pc + 1)
  BY <1>2, <1>4, <1>5, MemoryStep DEF AsOfMoment
<1>8. Facts(Calls[pc], Q, mem') = FactsAsOf(pc, P)
  <2> DEFINE m == mem'
  <2>1. MemoryBetween(m, P, P, pc + 1)
    BY <1>7
  <2> HIDE DEF m
  <2>2. /\ FactsAsOf(pc, P) \subseteq Facts(Calls[pc], Q, m)
        /\ Facts(Calls[pc], Q, m) \subseteq FactsAsOf(pc, P)
    BY <1>2, <1>4, <2>1, FactsBetween
  <2> QED BY <2>2 DEF m
<1>9. SaysBefore(P, pc + 1) = SaysBefore(P, pc) \cup FactsAsOf(pc, P)
  <2>1. \A i \in 1 .. Len(Calls) : i < pc + 1 <=> i < pc \/ i = pc
    BY <1>2, NumberOfCalls
  <2>2. \A f : f \in SaysBefore(P, pc + 1) <=> f \in SaysBefore(P, pc) \/ f \in FactsAsOf(pc, P)
    BY <1>2, <2>1, SaysBeforeByCall
  <2> QED BY <2>2
<1>10. snap' \in Recordings(SaysBefore(P, pc + 1))
  <2>1. \A f \in SaysBefore(P, pc) : f[1] # "DetectedAddons"
    BY <1>2, NoAddonsBefore
  <2>2. snap \cup recorded \in Recordings(SaysBefore(P, pc) \cup FactsAsOf(pc, P))
    BY <1>6, <1>8, <2>1, RecordingsJoin DEF AsOfMoment
  <2> QED BY <1>6, <1>9, <2>2
<1>11. \A i \in 1 .. Len(Calls) : i >= pc + 1 =>
         Sighted(P, Calls[i].kind) = OfKind(cluster, Calls[i].kind)'
  BY <1>1, <1>2, NumberOfCalls DEF AsOfMoment, OfKind, Sightings
<1> QED BY <1>1, <1>7, <1>10, <1>11 DEF AsOfMoment

LEMMA UnfilledStep ==
  ASSUME IInv, Unfilled, NEW P \in SUBSET Possible, Read(P), pc <= Len(Calls),
         \A s \in P : KindOf[s[1]] = Calls[pc].kind,
         pc' = pc + 1 \/ (Calls[pc].name = "collectPVCs" /\ pc' = pc + 2)
  PROVE  Unfilled'
<1>1. pc \in 1 .. 24 /\ mem \in Memories /\ pc \in 1 .. Len(Calls)
  BY NumberOfCalls DEF IInv, Types
<1> DEFINE call == Calls[pc]
<1>2. /\ mem'.rsToDeploy = IF call.name = "buildRSToDeployMap"
                           THEN RSToDeploy(P) ELSE mem.rsToDeploy
      /\ mem'.podsBy = IF call.name = "Pods"
                       THEN GroupNotReadyPods(P, mem.rsToDeploy) ELSE mem.podsBy
      /\ mem'.nodesBy = IF call.name = "Pods"
                        THEN RecordPodNode(P, mem.rsToDeploy) ELSE mem.nodesBy
      /\ mem'.claims = IF call.name = "collectPVCs"
                       THEN InScope(P, "PersistentVolumeClaim") ELSE mem.claims
      /\ mem'.addonLists =
           IF call.name \in {"detectAddonGroups", "detectAddonDeployments"}
           THEN mem.addonLists \cup Sighted(P, call.kind) ELSE mem.addonLists
  BY <1>1, RememberFields DEF Read
<1>3. /\ call.name = "buildRSToDeployMap" => pc = 3
      /\ call.name = "Pods" => pc = 4
      /\ call.name = "collectPVCs" => pc = 19
      /\ call.name = "detectAddonGroups" => pc = 22 /\ call.kind = "APIGroup"
      /\ call.name = "detectAddonDeployments" => pc = 23 /\ call.kind = "Deployment"
  BY <1>1, CallTable DEF Entry
<1>4. \A s \in Sighted(P, call.kind) : KindOf[s[1]] = call.kind
  BY DEF Sighted
<1> HIDE DEF call
<1>5. /\ pc' <= 3 => mem'.rsToDeploy = {}
      /\ pc' <= 4 => mem'.podsBy = {} /\ mem'.nodesBy = {}
      /\ pc' <= 19 => mem'.claims = {}
  BY <1>1, <1>2, <1>3 DEF Unfilled, call
<1>6. /\ pc' <= 22 => mem'.addonLists = {}
      /\ pc' <= 23 => \A s \in mem'.addonLists : KindOf[s[1]] = "APIGroup"
      /\ \A s \in mem'.addonLists : KindOf[s[1]] \in {"APIGroup", "Deployment"}
  <2>1. pc' >= pc + 1 /\ pc' \in Int
    BY <1>1
  <2>2. CASE call.name = "detectAddonGroups"
    BY <1>1, <1>2, <1>3, <1>4, <2>1, <2>2 DEF Unfilled
  <2>3. CASE call.name = "detectAddonDeployments"
    BY <1>1, <1>2, <1>3, <1>4, <2>1, <2>3 DEF Unfilled
  <2>4. CASE call.name \notin {"detectAddonGroups", "detectAddonDeployments"}
    BY <1>1, <1>2, <2>1, <2>4 DEF Unfilled
  <2> QED BY <2>2, <2>3, <2>4
<1> QED BY <1>5, <1>6 DEF Unfilled

\* A kind that is listed once is listed before or after a moment, not both.
LEMMA ListedBeforeOrAfter ==
  ASSUME NEW o, ListedOnce(o), NEW i \in 1 .. Len(Calls), NEW j \in 1 .. Len(Calls),
         Calls[i].kind = KindOf[o], Calls[j].kind = KindOf[o]
  PROVE  i = j
<1> DEFINE numbers == {k \in 1 .. Len(Calls) : Calls[k].kind = KindOf[o]}
<1>1. IsFiniteSet(numbers)
  <2>1. IsFiniteSet(1 .. 24)
    <3>1. 1 \in Int /\ 24 \in Int
      OBVIOUS
    <3> QED BY <3>1, FS_Interval, Zenon
  <2>2. numbers \in SUBSET (1 .. 24)
    BY NumberOfCalls
  <2> HIDE DEF numbers
  <2> QED BY <2>1, <2>2, FS_Subset
<1>2. Cardinality(numbers) = 1
  BY DEF ListedOnce
<1>3. i \in numbers /\ j \in numbers
  OBVIOUS
<1> HIDE DEF numbers
<1> QED BY <1>1, <1>2, <1>3, FS_Singleton

\* The first change, of an object whose kind is listed once: if it is still to be
\* listed the snapshot is of the moment after the change, else of the one before.
LEMMA ChangeOfMoment ==
  ASSUME IInv, OneMoment, NEW o \in Objects, Change(o), changes = 0, failures = 0,
         \A s \in sometime' \ always' : ListedOnce(s[1])
  PROVE  \E P \in Moments' : P \in SUBSET Possible /\ AsOfMoment(P)'
<1>1. PICK C : C = Sightings(cluster)
  OBVIOUS
<1>2. PICK D : D = Sightings(cluster)'
  OBVIOUS
<1>3. PICK d \in StatesOf[o] \ {cluster[o]} : cluster' = [cluster EXCEPT ![o] = d]
  BY DEF Change
<1>4. /\ always = C /\ sometime = C
      /\ always' = C \cap D /\ sometime' = C \cup D
      /\ UNCHANGED <<pc, mem, snap>>
  BY <1>1, <1>2 DEF OneMoment, Change, Sightings
<1>5. DOMAIN cluster = Objects /\ C \in SUBSET Possible
  BY <1>1, SightingsType DEF IInv, Types
<1>6. /\ <<o, cluster[o]>> \in C /\ <<o, cluster[o]>> \notin D
      /\ <<o, d>> \in D /\ <<o, d>> \notin C
      /\ \A s \in C \ D : s = <<o, cluster[o]>>
      /\ \A s \in D \ C : s = <<o, d>>
  BY <1>1, <1>2, <1>3, <1>5 DEF Sightings
<1>7. C = (C \cap D) \cup {<<o, cluster[o]>>} /\ D = (C \cap D) \cup {<<o, d>>}
  BY <1>6
<1>8. C \in Moments' /\ D \in Moments'
  <2>1. <<o, cluster[o]>> \in sometime' \ always' /\ <<o, d>> \in sometime' \ always'
    BY <1>4, <1>6
  <2> QED BY <1>4, <1>7, <2>1 DEF Moments
<1>9. D \in SUBSET Possible
  <2>1. <<o, d>> \in Possible
    BY <1>3 DEF Possible
  <2> QED BY <1>5, <1>7, <2>1
<1>10. ListedOnce(o)
  <2>1. <<o, d>> \in sometime' \ always'
    BY <1>4, <1>6
  <2> QED BY <2>1
<1>11. \A kind : kind # KindOf[o] => Sighted(C, kind) = Sighted(D, kind)
  BY <1>6, <1>7 DEF Sighted
<1>12. AsOfMoment(C)
  <2>1. Moments = {C}
    BY <1>4 DEF Moments
  <2> QED BY <1>4, <2>1 DEF OneMoment
<1>13. \A kind : OfKind(cluster, kind)' = Sighted(D, kind)
  BY <1>2 DEF OfKind, Sighted, Sightings
<1>14. CASE \E j \in 1 .. Len(Calls) : j >= pc /\ Calls[j].kind = KindOf[o]
  <2>1. PICK j \in 1 .. Len(Calls) : j >= pc /\ Calls[j].kind = KindOf[o]
    BY <1>14
  <2>2. pc \in 1 .. Len(Calls) + 1 /\ Len(Calls) = 24
    BY NumberOfCalls DEF IInv, Types
  <2>3. ASSUME NEW i \in 1 .. Len(Calls), i < pc PROVE Calls[i].kind # KindOf[o]
    <3>1. i # j
      BY <2>1, <2>2, <2>3
    <3> QED BY <1>10, <2>1, <3>1, ListedBeforeOrAfter
  <2>4. \A i \in 1 .. Len(Calls) : i < pc => Sighted(C, Calls[i].kind) = Sighted(D, Calls[i].kind)
    BY <1>11, <2>3
  <2>5. MemoryBetween(mem, D, D, pc) /\ snap \in Recordings(SaysBefore(D, pc))
    BY <1>5, <1>9, <1>12, <2>2, <2>4, MomentsAgree DEF AsOfMoment, OneMoment
  <2>6. AsOfMoment(D)'
    BY <1>4, <1>13, <2>5 DEF AsOfMoment
  <2> QED BY <1>8, <1>9, <2>6
<1>15. CASE \A j \in 1 .. Len(Calls) : j >= pc => Calls[j].kind # KindOf[o]
  <2>1. AsOfMoment(C)'
    BY <1>4, <1>11, <1>12, <1>13, <1>15 DEF AsOfMoment
  <2> QED BY <1>5, <1>8, <2>1
<1> QED BY <1>14, <1>15

LEMMA OneMomentInvariance == Spec => []OneMoment
<1>1. Init => OneMoment
  <2> SUFFICES ASSUME Init PROVE OneMoment
    OBVIOUS
  <2>1. IInv
    BY InitHolds
  <2>2. Unfilled
    BY DEF Init, Unfilled, Nothing
  <2>3. PICK C : C = Sightings(cluster)
    OBVIOUS
  <2>4. Moments = {C} /\ C \in SUBSET Possible
    BY <2>1, <2>3, SightingsType DEF Init, Moments, IInv
  <2>5. AsOfMoment(C)
    <3>1. MemoryBetween(mem, C, C, pc)
      BY <2>1, <2>3 DEF IInv, Init
    <3>2. SaysBefore(C, pc) = {}
      BY SaysBeforeByCall, NumberOfCalls DEF Init
    <3>3. {} \in Recordings({})
      BY DEF Recordings, OnePerAddon
    <3>4. \A kind : Sighted(C, kind) = OfKind(cluster, kind)
      BY <2>3 DEF Sighted, OfKind
    <3> QED BY <3>1, <3>2, <3>3, <3>4 DEF AsOfMoment, Init
  <2> QED BY <2>2, <2>4, <2>5 DEF OneMoment, Init
<1>2. IInv /\ OneMoment /\ [Next]_vars => OneMoment'
  <2> SUFFICES ASSUME IInv, OneMoment, [Next]_vars PROVE OneMoment'
    OBVIOUS
  <2>1. ASSUME NEW o \in Objects, Change(o) PROVE OneMoment'
    <3>1. changes' = changes + 1 /\ failures' = failures /\ changes \in Nat /\ UNCHANGED <<pc, mem>>
      BY <2>1, BoundsAssumption DEF IInv, Types, Change
    <3>2. Unfilled'
      BY <3>1 DEF OneMoment, Unfilled
    <3>3. ASSUME changes' <= 1, failures' = 0, \A s \in sometime' \ always' : ListedOnce(s[1])
          PROVE  \E P \in Moments' : P \in SUBSET Possible /\ AsOfMoment(P)'
      <4>1. changes = 0 /\ failures = 0
        BY <3>1, <3>3
      <4> QED BY <2>1, <3>3, <4>1, ChangeOfMoment
    <3>4. ~ (changes' = 0)
      BY <3>1
    <3> QED BY <3>2, <3>3, <3>4 DEF OneMoment
  <2>2. CASE List
    <3>1. UNCHANGED <<cluster, changes, failures, always, sometime>>
      BY <2>2 DEF List
    <3>2. Unfilled'
      <4> DEFINE Q == OfKind(cluster, Calls[pc].kind)
      <4>1. Q \in SUBSET Possible /\ \A s \in Q : KindOf[s[1]] = Calls[pc].kind
        BY SightingsType DEF OfKind, IInv
      <4>2. Read(Q) /\ pc <= Len(Calls) /\ pc' = pc + 1
        BY <2>2 DEF List
      <4> HIDE DEF Q
      <4> QED BY <4>1, <4>2, UnfilledStep DEF OneMoment
    <3>3. ASSUME changes' <= 1, failures' = 0, \A s \in sometime' \ always' : ListedOnce(s[1])
          PROVE  \E P \in Moments' : P \in SUBSET Possible /\ AsOfMoment(P)'
      <4>1. PICK P \in Moments : P \in SUBSET Possible /\ AsOfMoment(P)
        BY <3>1, <3>3 DEF OneMoment
      <4>2. AsOfMoment(P)'
        BY <2>2, <4>1, ListOfMoment
      <4>3. P \in Moments'
        BY <3>1, <4>1 DEF Moments
      <4> QED BY <4>1, <4>2, <4>3
    <3> QED BY <3>1, <3>2, <3>3 DEF OneMoment, Sightings
  <2>3. CASE ListOverlooked
    <3>1. /\ pc <= Len(Calls) /\ failures' = failures + 1
          /\ pc' = IF Calls[pc].name = "collectPVCs" THEN pc + 2 ELSE pc + 1
      BY <2>3, OverlookedParts
    <3>2. PICK known, blank : Overlooked(known, blank)
      BY <2>3, OverlookedParts
    <3>3. Unfilled'
      <4> DEFINE Q == blank \cup known
      <4>1. Read(Q)
        BY <3>2 DEF Overlooked
      <4>2. \A s \in Q : KindOf[s[1]] = Calls[pc].kind
        BY <3>2 DEF Overlooked, Empty, Listed
      <4>3. Q \in SUBSET Possible
        <5>1. blank \subseteq Possible
          BY <3>2 DEF Overlooked, Empty, Possible
        <5>2. known \subseteq Possible
          BY <3>2, SightingsType DEF Overlooked, Listed, OfKind, IInv
        <5> QED BY <5>1, <5>2
      <4> HIDE DEF Q
      <4> QED BY <3>1, <4>1, <4>2, <4>3, UnfilledStep DEF OneMoment
    <3>4. ~ (failures' = 0)
      BY <3>1, BoundsAssumption DEF IInv, Types
    <3> QED BY <3>3, <3>4 DEF OneMoment
  <2>4. CASE ListFails
    <3>1. failures' = failures + 1 /\ UNCHANGED <<pc, mem>>
      BY <2>4 DEF ListFails
    <3>2. ~ (failures' = 0)
      BY <3>1, BoundsAssumption DEF IInv, Types
    <3> QED BY <3>1, <3>2 DEF OneMoment, Unfilled
  <2>5. CASE Return \/ UNCHANGED vars
    <3>1. UNCHANGED <<cluster, pc, mem, snap, changes, failures, always, sometime>>
      BY <2>5 DEF Return, vars
    <3>2. \A P : AsOfMoment(P) => AsOfMoment(P)'
      BY <3>1 DEF AsOfMoment, OfKind, Sightings
    <3>3. Moments' = Moments /\ Sightings(cluster)' = Sightings(cluster) /\ Unfilled'
      BY <3>1 DEF Moments, Sightings, Unfilled, OneMoment
    <3> QED BY <3>1, <3>2, <3>3 DEF OneMoment
  <2> QED BY <2>1, <2>2, <2>3, <2>4, <2>5 DEF Next
<1> QED BY <1>1, <1>2, InductiveInvariance, PTL DEF Spec

\* When one object changes during Collect, and its kind is listed once, the snapshot
\* is that of a moment, although it is put together from two dozen lists.
THEOREM OneChangeGivesOneMoment == Spec => []OneChangeIsOneMoment
<1>1. IInv /\ OneMoment => OneChangeIsOneMoment
  <2> SUFFICES ASSUME IInv, OneMoment, Returned, changes <= 1, failures = 0,
                      \A s \in sometime \ always : ListedOnce(s[1])
               PROVE  \E P \in Moments : outcome \in Recordings(Says(P))
    BY DEF OneChangeIsOneMoment
  <2>1. PICK P \in Moments : AsOfMoment(P)
    BY DEF OneMoment
  <2>2. outcome = snap /\ pc > Len(Calls) /\ pc \in 1 .. 25
    BY NumberOfCalls DEF IInv, Types, Returned
  <2>3. SaysBefore(P, pc) = Says(P)
    <3>1. \A i \in 1 .. Len(Calls) : i < pc
      BY <2>2, NumberOfCalls
    <3>2. \A f : f \in SaysBefore(P, pc) <=> f \in Says(P)
      BY <3>1, SaysBeforeByCall, SaysByCall
    <3>3. SaysBefore(P, pc) \subseteq Says(P) /\ Says(P) \subseteq SaysBefore(P, pc)
      BY <3>2
    <3> QED BY <3>3
  <2> QED BY <2>1, <2>2, <2>3 DEF AsOfMoment
<1> QED BY <1>1, InductiveInvariance, OneMomentInvariance, PTL

=============================================================================
