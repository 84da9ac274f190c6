--------------------------- MODULE MCComponentRisk ---------------------------
(* An instance of ComponentRisk for TLC: a shop behind an ingress, with a   *)
(* volume, a shared configuration and two add-ons, in every condition.      *)
EXTENDS ComponentRisk, TLC

Of(versions) == [ok |-> TRUE, of |-> versions]
Malformed == [ok |-> FALSE, of |-> {}]
Supports(addon, k8s) == [addon |-> addon, k8s |-> k8s]

MCMatrix ==
  [istio |-> <<Supports(Of({20, 21}), Of(28 .. 30)),
               Supports(Of({22, 24}), Of(29 .. 32))>>]
  @@ ("cert-manager" :> <<Supports(Of({12}), Of(20 .. 31))>>)
\* Nothing replaced; rules of which one cannot be parsed.
MCOverrides ==
  {<<>>, [istio |-> <<Supports(Of({20}), Malformed), Supports(Malformed, Of({33})),
                      Supports(Of({24, 26}), Of(33 .. 34))>>]}
MCTargets == {31, 33, NoVersion, NoTarget}

Istio(v) == [name |-> "istio", ns |-> "istio-system", version |-> v]
CertManager == [name |-> "cert-manager", ns |-> "", version |-> 12]

\* web uses the volume, api does not; both use the same configuration.
Web(status) ==
  [name |-> "web", ns |-> "shop", status |-> status, labels |-> {"app=web"},
   refs |-> {"settings"}, pvcs |-> {"data"}, nodes |-> {"n1"}, istio |-> TRUE]
Api == [name |-> "api", ns |-> "shop", status |-> "Running", labels |-> {"app=api"},
        refs |-> {"settings"}, pvcs |-> {}, nodes |-> {"n1"}, istio |-> FALSE]
Volumes ==
  {{}} \cup {{[name |-> "data", ns |-> "shop", phase |-> p, wait |-> w]} :
               p \in {"Pending", "Lost"}, w \in BOOLEAN}

MCSnapshots ==
  {[addons |-> a \cup c,
    nodes |-> {[name |-> "n1", status |-> n]},
    workloads |-> {Web(w), Api},
    barePods |-> {[name |-> "job", ns |-> "shop", status |-> "Down"]},
    services |-> {[name |-> "front", ns |-> "shop", selector |-> {"app=web"}],
                  [name |-> "all", ns |-> "shop", selector |-> {}]},
    ingresses |-> {[name |-> "edge", ns |-> "shop", services |-> {"front", "gone"},
                    tls |-> TRUE]},
    pvcs |-> v] :
     a \in {{}} \cup {{Istio(x)} : x \in {20, 24, NoVersion}},
     c \in {{}, {CertManager}}, n \in {"Ready", "NotReady"},
     w \in {"Running", "Down", "Degraded", "Scaled to zero"}, v \in Volumes}
=============================================================================
