---------------------------- MODULE ComponentRisk ----------------------------
(***************************************************************************)
(* From a snapshot of the cluster to the components at risk: the add-ons   *)
(* are judged against the target version (internal/compat), the snapshot   *)
(* becomes a graph of components, the risk of each flows, decayed, to what *)
(* depends on it, and the report names what is at risk, why, and what      *)
(* would break with it (internal/graph).                                   *)
(*                                                                         *)
(* compute is recursive in the code; here the stack of its calls is state. *)
(* The lists of a snapshot are sets: the API server orders them as it      *)
(* likes, and what is computed must not depend on it.                      *)
(***************************************************************************)
EXTENDS Integers, Sequences, FiniteSets, FiniteSetsExt

CONSTANTS
  Snapshots, Targets,
  Matrix,     \* the rules of the embedded matrix.yaml, by add-on
  Overrides   \* what the ConfigMap may replace of it

NoVersion == -1   \* a version that is empty or cannot be parsed
NoTarget == -2    \* a mirror has none

\* Versions are minor versions; a range is the set of those it includes, if it
\* can be parsed.
VersionRange == [ok : BOOLEAN, of : SUBSET Nat]
Rule == [addon : VersionRange, k8s : VersionRange]
Versions == Nat \cup {NoVersion}

Snapshot ==
  [addons : SUBSET [name : STRING, ns : STRING, version : Versions],
   nodes : SUBSET [name : STRING, status : STRING],
   workloads : SUBSET [name : STRING, ns : STRING, status : STRING,
                       labels : SUBSET STRING, refs : SUBSET STRING,
                       pvcs : SUBSET STRING, nodes : SUBSET STRING,
                       istio : BOOLEAN],
   barePods : SUBSET [name : STRING, ns : STRING, status : STRING],
   services : SUBSET [name : STRING, ns : STRING, selector : SUBSET STRING],
   ingresses : SUBSET [name : STRING, ns : STRING, services : SUBSET STRING,
                       tls : BOOLEAN],
   pvcs : SUBSET [name : STRING, ns : STRING, phase : STRING, wait : BOOLEAN]]

\* The collector reports an add-on once.
ASSUME SnapshotsAssumption ==
  /\ \A s \in Snapshots : s \in Snapshot
  /\ \A s \in Snapshots : \A a, b \in s.addons : a.name = b.name => a = b
  /\ Targets \subseteq Versions \cup {NoTarget}
  /\ \A m \in Overrides \cup {Matrix} : \A n \in DOMAIN m : m[n] \in Seq(Rule)

VARIABLES
  phase,   \* "collected", "scoring" or "reported"
  snap, target, override,
  results, \* results[a]: AddonCompatibility of the add-on named a
  graph,   \* comp[id]: the component, edges: pairs <<from, to>>
  eff,     \* eff[id]: the risk of a component that has been computed
  stack,   \* the calls of compute, the last one first
  out      \* the aggregates by namespace; of a mirror, the components at risk;
           \* of an analysis, what the upgrade affects
vars == <<phase, snap, target, override, results, graph, eff, stack, out>>

-----------------------------------------------------------------------------
(* compat.Evaluate.                                                        *)

\* LoadMatrix: the rules of an add-on are replaced as a whole.
RulesOf(name) ==
  IF name \in DOMAIN override THEN override[name]
  ELSE IF name \in DOMAIN Matrix THEN Matrix[name] ELSE <<>>

Includes(range, v) == range.ok /\ v \in range.of

\* The first of all rules that supports the target; 0 if none does.
RequiredOfFirstRule(rules, t) ==
  IF rules # <<>> /\ Includes(rules[1].k8s, t) THEN 1 ELSE 0
RequiredAddonVersion(rules, t) ==
  LET fits == {i \in DOMAIN rules : Includes(rules[i].k8s, t)}
  IN IF fits = {} THEN 0 ELSE Min(fits)

EvaluateAddon(version, t, rules) ==
  LET applicable == {i \in DOMAIN rules : Includes(rules[i].addon, version)}
      supported == \E i \in applicable : Includes(rules[i].k8s, t)
      status == IF t = NoVersion \/ applicable = {} THEN "unknown"
                ELSE IF supported THEN "compatible" ELSE "incompatible"
  IN [version |-> version, status |-> status,
      required |-> IF status = "incompatible"
                   THEN RequiredAddonVersion(rules, t) ELSE 0]

-----------------------------------------------------------------------------
(* graph.BuildFromSnapshot.                                                *)

Id(kind, ns, name) == [kind |-> kind, ns |-> ns, name |-> name]
Component(id, ns, status) == [id |-> id, ns |-> ns, status |-> status]
Namespaced(kind, r, status) == Component(Id(kind, r.ns, r.name), r.ns, status)

PVCStatus(p) ==
  IF p.phase = "Pending" /\ p.wait THEN "Pending (WaitForFirstConsumer)"
  ELSE p.phase

\* An add-on is one node, whatever its namespace.
Nodes(s) ==
  {Component(Id("Addon", "", a.name), a.ns, "") : a \in s.addons}
  \cup {Component(Id("Node", "", n.name), "", n.status) : n \in s.nodes}
  \cup {Namespaced("Deployment", w, w.status) : w \in s.workloads}
  \cup {Namespaced("Pod", p, p.status) : p \in s.barePods}
  \cup {Namespaced("Service", v, "") : v \in s.services}
  \cup {Namespaced("Ingress", g, "") : g \in s.ingresses}
  \cup {Namespaced("PVC", p, PVCStatus(p)) : p \in s.pvcs}
  \cup UNION {{Component(Id("ConfigMap", w.ns, r), w.ns, "") : r \in w.refs} :
                w \in s.workloads}

\* A snapshot lists finitely many components.
ASSUME FiniteAssumption == \A s \in Snapshots : IsFiniteSet(Nodes(s))

Links(r, kind, ns, names) == {<<r, Id(kind, ns, n)>> : n \in names}
AddonIf(needed, name) == IF needed THEN {name} ELSE {}

Edges(s) ==
  (UNION {Links(Id("Ingress", g.ns, g.name), "Service", g.ns, g.services)
          \cup Links(Id("Ingress", g.ns, g.name), "Addon", "",
                     AddonIf(g.tls, "cert-manager")) : g \in s.ingresses})
  \cup (UNION {Links(Id("Service", v.ns, v.name), "Deployment", v.ns,
                     {w.name : w \in {x \in s.workloads :
                        /\ x.ns = v.ns
                        /\ v.selector # {} /\ v.selector \subseteq x.labels}}) :
                 v \in s.services})
  \cup (UNION {LET from == Id("Deployment", w.ns, w.name)
               IN Links(from, "ConfigMap", w.ns, w.refs)
                  \cup Links(from, "PVC", w.ns, w.pvcs)
                  \cup Links(from, "Node", "", w.nodes)
                  \cup Links(from, "Addon", "", AddonIf(w.istio, "istio")) :
                 w \in s.workloads})

\* addNode ignores an id it has, addEdge an edge without both ends.
BuildFromSnapshot(s) ==
  LET ids == {c.id : c \in Nodes(s)}
  IN [comp |-> [i \in ids |-> CHOOSE c \in Nodes(s) : c.id = i],
      edges |-> {e \in Edges(s) : e[1] \in ids /\ e[2] \in ids}]

Ids == DOMAIN graph.comp
Deps(id) == {e[2] : e \in {x \in graph.edges : x[1] = id}}

-----------------------------------------------------------------------------
(* Graph.ApplyRisk.                                                        *)

Condition(id) ==
  IF id.kind # "Addon" THEN graph.comp[id].status
  ELSE IF id.name \in DOMAIN results THEN results[id.name].status ELSE ""

\* What seeds risk. "Deployment" stands for the kinds of workload, "Degraded" for
\* what begins with it.
BaseRisk(id) ==
  LET c == Condition(id)
  IN CASE id.kind = "Addon" /\ c = "incompatible" -> 90
       [] id.kind = "Addon" /\ c = "unknown" -> 40
       [] id.kind \in {"Deployment", "Pod"} /\ c \in {"Down", "Failed"} -> 70
       [] id.kind \in {"Deployment", "Pod"} /\ c = "Degraded" -> 40
       [] id.kind \in {"Deployment", "Pod"} /\ c = "Scaled to zero" -> 10
       [] id.kind = "Node" /\ c = "NotReady" -> 60
       [] id.kind = "PVC" /\ c = "Lost" -> 90
       [] id.kind = "PVC" /\ c = "Pending" -> 50
       [] OTHER -> 0

Decayed(v) == (6 * v) \div 10

Frame(id) == [id |-> id, best |-> BaseRisk(id), todo |-> Deps(id)]
InheritingLast(f, d, v) ==
  [f EXCEPT !.best = Decayed(v), !.todo = @ \ {d}]
Inheriting(f, d, v) ==
  [f EXCEPT !.best = Max({@, Decayed(v)}), !.todo = @ \ {d}]

Visiting == {stack[k].id : k \in DOMAIN stack}
Running == <<snap, target, override, results, graph, out>>

\* The nodes in the order of the passes that added them.
Passes == <<"Addon", "Node", "Deployment", "Pod", "Service", "Ingress", "PVC",
            "ConfigMap">>
Pass(id) == CHOOSE k \in DOMAIN Passes : Passes[k] = id.kind

Compute(id) ==
  /\ phase = "scoring" /\ stack = <<>> /\ id \notin DOMAIN eff
  /\ \A j \in Ids : Pass(j) < Pass(id) => j \in DOMAIN eff
  /\ stack' = <<Frame(id)>>
  /\ UNCHANGED <<phase, eff, Running>>

Recurse(d) ==
  /\ stack # <<>> /\ d \in Head(stack).todo
  /\ d \notin DOMAIN eff \cup Visiting
  /\ stack' = <<Frame(d)>> \o stack
  /\ UNCHANGED <<phase, eff, Running>>

\* The dependency was computed before, or the cycle guard gives its base risk.
InheritKnown(d) ==
  /\ stack # <<>> /\ d \in Head(stack).todo
  /\ d \in DOMAIN eff \cup Visiting
  /\ LET v == IF d \in DOMAIN eff THEN eff[d] ELSE BaseRisk(d)
     IN stack' = <<Inheriting(Head(stack), d, v)>> \o Tail(stack)
  /\ UNCHANGED <<phase, eff, Running>>

Return ==
  /\ stack # <<>> /\ Head(stack).todo = {}
  /\ eff' = [i \in DOMAIN eff \cup {stack[1].id} |->
               IF i = stack[1].id THEN stack[1].best ELSE eff[i]]
  /\ stack' = IF Len(stack) = 1 THEN <<>>
              ELSE <<Inheriting(stack[2], stack[1].id, stack[1].best)>>
                   \o Tail(Tail(stack))
  /\ UNCHANGED <<phase, Running>>

-----------------------------------------------------------------------------
(* aggregateByNamespace, Graph.AtRisk, upgradeImpact.                      *)

AtRiskThreshold == 50

NamespaceBucket(c) ==
  IF c.id.kind = "Node" THEN "cluster-scoped"
  ELSE IF c.ns = "" THEN "default" ELSE c.ns

AggregateByNamespace ==
  LET bucket(n) == {i \in Ids : NamespaceBucket(graph.comp[i]) = n}
  IN [n \in {NamespaceBucket(graph.comp[i]) : i \in Ids} |->
        [risk |-> Max({eff[i] : i \in bucket(n)}),
         components |-> Cardinality(bucket(n)),
         atRisk |-> Cardinality({i \in bucket(n) : eff[i] >= AtRiskThreshold})]]

DirectDependents(id) == {e[1] : e \in {x \in graph.edges : x[2] = id}}
Dependents(id) ==
  LET seen[k \in Nat] ==
        IF k = 0 THEN {id}
        ELSE LET last == seen[k - 1]
             IN last \cup UNION {DirectDependents(i) : i \in last}
  IN seen[Cardinality(Ids)] \ {id}

\* Of several that are riskiest the code takes the first by name.
Riskiest(ids) == {d \in ids : \A e \in ids : eff[d] >= eff[e]}

AtRiskEntry(id) ==
  [id |-> id,
   from |-> IF BaseRisk(id) < eff[id] THEN Riskiest(Deps(id)) ELSE {},
   dependents |-> Dependents(id)]
AtRiskOfDeps ==
  {[AtRiskEntry(id) EXCEPT !.from = Riskiest(Deps(id))] :
     id \in {i \in Ids : eff[i] >= AtRiskThreshold}}
AtRisk == {AtRiskEntry(id) : id \in {i \in Ids : eff[i] >= AtRiskThreshold}}

Incompatible == {n \in DOMAIN results : results[n].status = "incompatible"}
UpgradeImpact == [n \in Incompatible |-> Dependents(Id("Addon", "", n))]

-----------------------------------------------------------------------------
NoGraph == [comp |-> <<>>, edges |-> {}]
NoReport == [namespaces |-> <<>>, atRisk |-> {}, impact |-> <<>>]

Init ==
  /\ phase = "collected"
  /\ snap \in Snapshots /\ target \in Targets /\ override \in Overrides
  /\ results = <<>> /\ graph = NoGraph
  /\ eff = <<>> /\ stack = <<>> /\ out = NoReport

\* The analysis evaluates the add-ons, the mirror does not.
EvaluateAndBuild ==
  /\ phase = "collected"
  /\ phase' = "scoring"
  /\ results' = [n \in IF target = NoTarget THEN {}
                       ELSE {a.name : a \in snap.addons} |->
                   LET a == CHOOSE x \in snap.addons : x.name = n
                   IN EvaluateAddon(a.version, target, RulesOf(n))]
  /\ graph' = BuildFromSnapshot(snap)
  /\ UNCHANGED <<snap, target, override, eff, stack, out>>

\* BuildMirrorReport: what is at risk now.
MirrorReport ==
  [NoReport EXCEPT !.namespaces = AggregateByNamespace, !.atRisk = AtRisk]

\* The analysis: what the upgrade would break.
AnalysisReport ==
  [NoReport EXCEPT !.namespaces = AggregateByNamespace, !.impact = UpgradeImpact]

Report ==
  /\ phase = "scoring" /\ stack = <<>> /\ DOMAIN eff = Ids
  /\ phase' = "reported"
  /\ out' = IF target = NoTarget THEN MirrorReport ELSE AnalysisReport
  /\ UNCHANGED <<snap, target, override, results, graph, eff, stack>>

Next ==
  \/ EvaluateAndBuild
  \/ \E id \in Ids : Compute(id) \/ Recurse(id) \/ InheritKnown(id)
  \/ Return
  \/ Report

Spec == Init /\ [][Next]_vars

-----------------------------------------------------------------------------
(* Properties.                                                             *)

Risk == 0 .. 100

\* Every variable keeps its type; a risk is between 0 and 100, as the field's
\* comment says.
TypeOK ==
  /\ phase \in {"collected", "scoring", "reported"}
  /\ snap \in Snapshot /\ target \in Targets /\ override \in Overrides
  /\ \A n \in DOMAIN results :
       results[n].status \in {"compatible", "incompatible", "unknown"}
  /\ graph.edges \subseteq Ids \X Ids
  /\ DOMAIN eff \subseteq Ids /\ \A i \in DOMAIN eff : eff[i] \in Risk
  /\ \A k \in DOMAIN stack : /\ stack[k].id \in Ids /\ stack[k].best \in Risk
                             /\ stack[k].todo \subseteq Ids

\* Each component's risk if the base risks were b: the largest of what it depends
\* on over any number of edges, decayed at every edge.
Due(b) ==
  LET after[k \in Nat] ==
        IF k = 0 THEN b
        ELSE LET last == after[k - 1]
             IN [i \in Ids |-> Max({b[i]} \cup {Decayed(last[d]) : d \in Deps(i)})]
  IN after[Cardinality(Ids)]
Base == [i \in Ids |-> BaseRisk(i)]

\* The cycle guard, which would cut a component's risk short and remember it,
\* is never needed: no snapshot gives a graph with a cycle.
GuardUnused == stack # <<>> => Head(stack).todo \cap Visiting = {}

\* Every component has the risk that is due, whatever the order of the nodes and
\* of their edges, and although compute remembers what it finds on the way: the
\* largest of its own and of the decayed risks of what it depends on, as these are
\* reported. Since there is no cycle, these equations have one solution.
RiskIsDue ==
  /\ GuardUnused
  /\ phase = "reported" =>
       \A i \in Ids :
         eff[i] = Max({BaseRisk(i)} \cup {Decayed(eff[d]) : d \in Deps(i)})

Entry(id) == CHOOSE a \in out.atRisk : a.id = id
Listed == {a.id : a \in out.atRisk}

\* The decision calls an incompatible add-on and a Lost volume hard blockers,
\* each "on its own".
Blockers ==
  {i \in Ids : \/ i.kind = "Addon" /\ i.name \in Incompatible
               \/ i.kind = "PVC" /\ graph.comp[i].status = "Lost"}

\* A mirror's "InheritedFrom is the dependency this component's risk comes from":
\* it is what the decision calls a blocker, at risk on its own account and listed,
\* with this component among its dependents. In the graph of an analysis, which
\* has no such list, a component that others put at risk is among what the upgrade
\* affects, or uses a Lost volume. Nothing that the decision does not stop for
\* puts another component at risk.
InheritedRiskIsExplained ==
  /\ \A a \in out.atRisk : \A d \in a.from :
       /\ d \in Blockers
       /\ d \in Listed /\ Entry(d).from = {} /\ a.id \in Entry(d).dependents
  /\ phase = "reported" /\ target # NoTarget =>
       \A i \in Ids : BaseRisk(i) < eff[i] /\ eff[i] >= AtRiskThreshold =>
         \E d \in Deps(i) \cap Blockers :
           d.kind = "Addon" => i \in out.impact[d.name]

\* "What breaks if it fails", and "what the upgrade breaks": whatever would be
\* less at risk if this component, or this add-on, were fine is listed with it.
LessAtRiskWithout(id) ==
  LET without == Due([Base EXCEPT ![id] = 0])
  IN {i \in Ids \ {id} : without[i] # eff[i]}
DependentsCoverImpact ==
  /\ \A a \in out.atRisk : LessAtRiskWithout(a.id) \subseteq a.dependents
  /\ \A n \in DOMAIN out.impact :
       LessAtRiskWithout(Id("Addon", "", n)) \subseteq out.impact[n]

\* "RequiredVersion" is "the version to upgrade TO": any version in it is
\* compatible, if its range can be parsed; there is none only if no version of
\* the add-on is compatible with the target.
RecommendationHelps ==
  \A n \in Incompatible :
    LET rules == RulesOf(n)
        r == results[n].required
        range(i) == IF rules[i].addon.ok THEN rules[i].addon.of ELSE {}
        compatible(v) == EvaluateAddon(v, target, rules).status = "compatible"
    IN IF r # 0 THEN \A v \in range(r) : compatible(v)
       ELSE \A i \in DOMAIN rules : \A v \in range(i) : ~compatible(v)
=============================================================================
