------------------------- MODULE ComponentRiskProofs -------------------------
(* Theorems about ComponentRisk, for every snapshot, target and matrix. The *)
(* graph is layered by the kinds of its components, which is why compute    *)
(* terminates without its guard and why its memo is right.                  *)
EXTENDS ComponentRisk, TLAPS, WellFoundedInduction, FiniteSetTheorems

\* Every edge goes down in this order.
Layer(id) ==
  CASE id.kind = "Ingress" -> 3
    [] id.kind = "Service" -> 2
    [] id.kind = "Deployment" -> 1
    [] OTHER -> 0
Layered == \A e \in graph.edges : Layer(e[2]) < Layer(e[1])

\* v is a component's risk as far as it is known: all but the dependencies in
\* todo have been computed, and v is the largest of its own and what they give.
Settled(base, deps, todo, v, e) ==
  /\ v \in Risk /\ v >= base
  /\ \A d \in deps \ todo : d \in DOMAIN e /\ v >= Decayed(e[d])
  /\ v = base \/ \E d \in deps \ todo : v = Decayed(e[d])

Frames == [id : Ids, best : Risk, todo : SUBSET Ids]

MemoSettled ==
  \A i \in DOMAIN eff : Settled(BaseRisk(i), Deps(i), {}, eff[i], eff)
FramesSettled ==
  \A k \in DOMAIN stack :
    /\ stack[k].id \notin DOMAIN eff
    /\ stack[k].todo \subseteq Deps(stack[k].id)
    /\ Settled(BaseRisk(stack[k].id), Deps(stack[k].id), stack[k].todo,
               stack[k].best, eff)
\* Every call is made for a dependency its caller waits for, so the calls go up
\* in the layers from the last one to the first.
Nested ==
  \A k \in 1 .. Len(stack) - 1 : stack[k].id \in stack[k + 1].todo
Ascending ==
  \A k, l \in 1 .. Len(stack) : k < l => Layer(stack[k].id) < Layer(stack[l].id)

Phases ==
  /\ phase = "collected" => DOMAIN eff = {}
  /\ phase # "scoring" => stack = <<>>
  /\ phase = "reported" => DOMAIN eff = Ids

\* What an add-on's result was computed from.
ResultsDue ==
  \A n \in DOMAIN results :
    \E v \in Versions : results[n] = EvaluateAddon(v, target, RulesOf(n))

IInv ==
  /\ TypeOK /\ stack \in Seq(Frames)
  /\ Layered /\ MemoSettled /\ FramesSettled /\ Nested /\ Ascending
  /\ Phases /\ ResultsDue

-----------------------------------------------------------------------------
(* Operators.                                                              *)

\* The largest of a set is the one that bounds it.
LEMMA MaxIs ==
  ASSUME NEW S \in SUBSET Int, NEW v \in S, \A y \in S : v >= y
  PROVE  Max(S) = v
<1>1. PICK m \in S : m = Max(S) /\ \A y \in S : m >= y
  BY DEF Max
<1>2. m \in Int /\ v \in Int /\ m >= v /\ v >= m
  BY <1>1
<1> QED BY <1>1, <1>2

LEMMA DecayedRange ==
  ASSUME NEW v \in Risk
  PROVE  Decayed(v) \in Risk
BY DEF Risk, Decayed

LEMMA MaxOfTwo ==
  ASSUME NEW a \in Risk, NEW b \in Risk
  PROVE  /\ Max({a, b}) \in {a, b}
         /\ Max({a, b}) >= a /\ Max({a, b}) >= b
<1>1. CASE a >= b
  <2>1. Max({a, b}) = a
    BY <1>1, MaxIs, a \in {a, b}, {a, b} \in SUBSET Int DEF Risk
  <2> QED BY <1>1, <2>1 DEF Risk
<1>2. CASE ~ (a >= b)
  <2>1. Max({a, b}) = b
    BY <1>2, MaxIs, b \in {a, b}, {a, b} \in SUBSET Int DEF Risk
  <2> QED BY <1>2, <2>1 DEF Risk
<1> QED BY <1>1, <1>2

\* A call starts with the component's own risk and every dependency to visit.
LEMMA SettledAtFirst ==
  ASSUME NEW base \in Risk, NEW deps, NEW e
  PROVE  Settled(base, deps, deps, base, e)
BY DEF Settled, Risk

\* A dependency that is computed is taken off the list.
LEMMA SettledInheriting ==
  ASSUME NEW base \in Risk, NEW deps, NEW todo \in SUBSET deps, NEW v, NEW e,
         Settled(base, deps, todo, v, e),
         \A x \in DOMAIN e : e[x] \in Risk,
         NEW d \in DOMAIN e, d \in todo
  PROVE  Settled(base, deps, todo \ {d}, Max({v, Decayed(e[d])}), e)
<1> DEFINE m == Max({v, Decayed(e[d])})
<1>1. v \in Risk /\ Decayed(e[d]) \in Risk
  BY DecayedRange DEF Settled
<1>2. m \in {v, Decayed(e[d])} /\ m >= v /\ m >= Decayed(e[d])
  BY <1>1, MaxOfTwo
<1> HIDE DEF m
<1>3. m \in Risk /\ m >= base
  BY <1>1, <1>2 DEF Settled, Risk
<1>4. ASSUME NEW x \in deps \ (todo \ {d})
      PROVE  x \in DOMAIN e /\ m >= Decayed(e[x])
  <2>1. CASE x = d
    BY <1>2, <2>1
  <2>2. CASE x # d
    <3>1. x \in DOMAIN e /\ v >= Decayed(e[x])
      BY <2>2 DEF Settled
    <3>2. CASE m = v
      BY <3>1, <3>2
    <3>3. CASE m = Decayed(e[d])
      <4>1. Decayed(e[x]) \in Risk
        BY <3>1, DecayedRange
      <4> QED BY <1>1, <1>2, <1>3, <3>1, <4>1 DEF Risk
    <3> QED BY <1>2, <3>2, <3>3
  <2> QED BY <2>1, <2>2
<1>5. m = base \/ \E x \in deps \ (todo \ {d}) : m = Decayed(e[x])
  <2>1. CASE m = Decayed(e[d])
    BY <2>1
  <2>2. CASE m = v
    BY <2>2 DEF Settled
  <2> QED BY <1>2, <2>1, <2>2
<1> QED BY <1>3, <1>4, <1>5 DEF Settled, m

\* What another call computes does not change what is known.
LEMMA SettledExtended ==
  ASSUME NEW base, NEW deps, NEW todo, NEW v, NEW e,
         Settled(base, deps, todo, v, e),
         NEW x, x \notin DOMAIN e, NEW b,
         NEW e2, e2 = [i \in DOMAIN e \cup {x} |-> IF i = x THEN b ELSE e[i]]
  PROVE  Settled(base, deps, todo, v, e2)
<1>1. \A d \in DOMAIN e : d \in DOMAIN e2 /\ e2[d] = e[d]
  OBVIOUS
<1>2. \A d \in deps \ todo : d \in DOMAIN e
  BY DEF Settled
<1> QED BY <1>1, <1>2 DEF Settled

\* A component whose dependencies are all computed has the risk that is due.
LEMMA SettledIsDue ==
  ASSUME NEW base \in Risk, NEW deps, NEW v, NEW e,
         \A x \in DOMAIN e : e[x] \in Risk,
         Settled(base, deps, {}, v, e)
  PROVE  v = Max({base} \cup {Decayed(e[d]) : d \in deps})
<1> DEFINE S == {base} \cup {Decayed(e[d]) : d \in deps}
<1>1. \A d \in deps : Decayed(e[d]) \in Risk
  BY DecayedRange DEF Settled
<1>2. S \in SUBSET Int
  BY <1>1 DEF Risk
<1>3. v \in S
  BY DEF Settled
<1>4. \A y \in S : v >= y
  BY DEF Settled
<1> HIDE DEF S
<1>5. Max(S) = v
  BY <1>2, <1>3, <1>4, MaxIs
<1> QED BY <1>5 DEF S

-----------------------------------------------------------------------------
(* The graph.                                                              *)

LEMMA BaseRiskRange ==
  ASSUME NEW id
  PROVE  BaseRisk(id) \in Risk
BY DEF BaseRisk, Risk

LEMMA LinksDescend ==
  ASSUME NEW r, NEW kind, NEW ns, NEW names,
         Layer(Id(kind, "", "")) < Layer(r),
         NEW e \in Links(r, kind, ns, names)
  PROVE  Layer(e[2]) < Layer(e[1])
<1>1. PICK n \in names : e = <<r, Id(kind, ns, n)>>
  BY DEF Links
<1>2. Layer(Id(kind, ns, n)) = Layer(Id(kind, "", ""))
  BY DEF Layer, Id
<1> QED BY <1>1, <1>2

\* No edge goes back: ingresses point to services and add-ons, services to
\* workloads, workloads to what has no dependencies.
LEMMA EdgesDescend ==
  ASSUME NEW s, NEW e \in Edges(s)
  PROVE  Layer(e[2]) < Layer(e[1]) /\ e = <<e[1], e[2]>>
<1> DEFINE Down(r, kind) == Layer(Id(kind, "", "")) < Layer(r)
           OfIngress(g) ==
             Links(Id("Ingress", g.ns, g.name), "Service", g.ns, g.services)
             \cup Links(Id("Ingress", g.ns, g.name), "Addon", "",
                        AddonIf(g.tls, "cert-manager"))
           Selected(v) == {w.name : w \in {x \in s.workloads :
                             /\ x.ns = v.ns
                             /\ v.selector # {} /\ v.selector \subseteq x.labels}}
           OfService(v) ==
             Links(Id("Service", v.ns, v.name), "Deployment", v.ns, Selected(v))
           OfWorkload(w) ==
             LET from == Id("Deployment", w.ns, w.name)
             IN Links(from, "ConfigMap", w.ns, w.refs)
                \cup Links(from, "PVC", w.ns, w.pvcs)
                \cup Links(from, "Node", "", w.nodes)
                \cup Links(from, "Addon", "", AddonIf(w.istio, "istio"))
<1>1. \A ns, n : /\ Down(Id("Ingress", ns, n), "Service")
                 /\ Down(Id("Ingress", ns, n), "Addon")
                 /\ Down(Id("Service", ns, n), "Deployment")
                 /\ Down(Id("Deployment", ns, n), "ConfigMap")
                 /\ Down(Id("Deployment", ns, n), "PVC")
                 /\ Down(Id("Deployment", ns, n), "Node")
                 /\ Down(Id("Deployment", ns, n), "Addon")
  BY DEF Layer, Id
<1>2. Edges(s) = (UNION {OfIngress(g) : g \in s.ingresses})
                 \cup (UNION {OfService(v) : v \in s.services})
                 \cup (UNION {OfWorkload(w) : w \in s.workloads})
  BY Zenon DEF Edges
<1>3. ASSUME NEW r, NEW kind, NEW ns, NEW names, Down(r, kind),
             e \in Links(r, kind, ns, names)
      PROVE  Layer(e[2]) < Layer(e[1]) /\ e = <<e[1], e[2]>>
  <2>1. Layer(Id(kind, "", "")) < Layer(r)
    BY <1>3
  <2>2. Layer(e[2]) < Layer(e[1])
    BY <1>3, <2>1, LinksDescend
  <2>3. e = <<e[1], e[2]>>
    <3>1. PICK n \in names : e = <<r, Id(kind, ns, n)>>
      BY <1>3 DEF Links
    <3> QED BY <3>1
  <2> QED BY <2>2, <2>3
<1> HIDE DEF Down, Selected
<1>4. CASE \E g \in s.ingresses : e \in OfIngress(g)
  BY <1>1, <1>3, <1>4
<1>5. CASE \E v \in s.services : e \in OfService(v)
  BY <1>1, <1>3, <1>5
<1>6. CASE \E w \in s.workloads : e \in OfWorkload(w)
  BY <1>1, <1>3, <1>6
<1> HIDE DEF OfIngress, OfService, OfWorkload
<1> QED BY <1>2, <1>4, <1>5, <1>6

LEMMA BuiltGraph ==
  ASSUME NEW s
  PROVE  LET g == BuildFromSnapshot(s)
         IN /\ g.edges \subseteq (DOMAIN g.comp) \X (DOMAIN g.comp)
            /\ \A e \in g.edges : Layer(e[2]) < Layer(e[1])
<1> DEFINE g == BuildFromSnapshot(s)
           ids == {c.id : c \in Nodes(s)}
<1>1. g.edges = {e \in Edges(s) : e[1] \in ids /\ e[2] \in ids}
  BY DEF BuildFromSnapshot
<1>2. DOMAIN g.comp = ids
  BY DEF BuildFromSnapshot
<1>3. \A e \in Edges(s) : e = <<e[1], e[2]>>
  BY EdgesDescend
<1> HIDE DEF g, ids
<1>4. ASSUME NEW e \in g.edges
      PROVE  e \in (DOMAIN g.comp) \X (DOMAIN g.comp)
  <2>1. e = <<e[1], e[2]>>
    BY <1>1, <1>3
  <2>2. e[1] \in DOMAIN g.comp /\ e[2] \in DOMAIN g.comp
    BY <1>1, <1>2
  <2> QED BY <2>1, <2>2
<1>5. \A e \in g.edges : Layer(e[2]) < Layer(e[1])
  BY <1>1, EdgesDescend
<1>6. /\ g.edges \subseteq (DOMAIN g.comp) \X (DOMAIN g.comp)
      /\ \A e \in g.edges : Layer(e[2]) < Layer(e[1])
  BY <1>4, <1>5
<1> QED BY <1>6 DEF g

\* A dependency lies lower, and is a component of the graph.
LEMMA DepsDescend ==
  ASSUME graph.edges \subseteq Ids \X Ids, Layered, NEW i, NEW d \in Deps(i)
  PROVE  d \in Ids /\ Layer(d) < Layer(i)
BY DEF Deps, Layered

-----------------------------------------------------------------------------
(* The calls of compute.                                                   *)

LEMMA Prepended ==
  ASSUME NEW S, NEW x \in S, NEW s \in Seq(S)
  PROVE  LET t == <<x>> \o s
         IN /\ t \in Seq(S) /\ Len(t) = Len(s) + 1 /\ t[1] = x
            /\ \A k \in 2 .. Len(t) : t[k] = s[k - 1]
OBVIOUS

LEMMA TailFacts ==
  ASSUME NEW S, NEW s \in Seq(S), s # <<>>
  PROVE  /\ Tail(s) \in Seq(S) /\ Len(Tail(s)) = Len(s) - 1
         /\ Len(s) >= 1 /\ Head(s) = s[1] /\ s[1] \in S
         /\ \A k \in 1 .. Len(Tail(s)) : Tail(s)[k] = s[k + 1]
OBVIOUS

\* The first of the calls is the lowest, and what it waits for lies below: no
\* dependency of it is on the stack.
LEMMA NoneVisited ==
  ASSUME IInv, stack # <<>>
  PROVE  Head(stack).todo \cap Visiting = {}
<1> SUFFICES ASSUME NEW d \in Head(stack).todo, d \in Visiting
             PROVE  FALSE
  OBVIOUS
<1>1. Head(stack) = stack[1] /\ 1 \in 1 .. Len(stack) /\ DOMAIN stack = 1 .. Len(stack)
  <2>1. stack \in Seq(Frames)
    BY DEF IInv
  <2> QED BY <2>1, TailFacts
<1>2. Layer(d) < Layer(stack[1].id)
  <2>1. d \in Deps(stack[1].id)
    BY <1>1 DEF IInv, FramesSettled
  <2> QED BY <2>1, DepsDescend DEF IInv, TypeOK
<1>3. PICK k \in 1 .. Len(stack) : d = stack[k].id
  BY <1>1 DEF Visiting
<1>4. \A i : Layer(i) \in Int
  BY DEF Layer
<1>5. CASE k = 1
  BY <1>2, <1>3, <1>4, <1>5
<1>6. CASE k # 1
  <2>1. Layer(stack[1].id) < Layer(stack[k].id)
    BY <1>1, <1>6 DEF IInv, Ascending
  <2> QED BY <1>2, <1>3, <1>4, <2>1
<1> QED BY <1>5, <1>6

\* What stays while the risks are computed.
LEMMA GraphUnchanged ==
  ASSUME UNCHANGED Running
  PROVE  /\ Ids' = Ids /\ Frames' = Frames
         /\ \A i : Deps(i)' = Deps(i) /\ BaseRisk(i)' = BaseRisk(i)
<1>1. graph' = graph /\ results' = results
  BY DEF Running
<1> QED BY <1>1 DEF Ids, Frames, Deps, BaseRisk, Condition

\* A step of the recursion keeps the invariant if its memo and its frames do.
LEMMA ScoringStep ==
  ASSUME IInv, UNCHANGED <<phase, Running>>, phase = "scoring",
         DOMAIN eff' \subseteq Ids, \A i \in DOMAIN eff' : eff'[i] \in Risk,
         stack' \in Seq(Frames),
         \A i \in DOMAIN eff' :
           Settled(BaseRisk(i), Deps(i), {}, eff'[i], eff'),
         \A k \in 1 .. Len(stack') :
           /\ stack'[k].id \notin DOMAIN eff'
           /\ stack'[k].todo \subseteq Deps(stack'[k].id)
           /\ Settled(BaseRisk(stack'[k].id), Deps(stack'[k].id),
                      stack'[k].todo, stack'[k].best, eff'),
         \A k \in 1 .. Len(stack') - 1 : stack'[k].id \in stack'[k + 1].todo,
         Ascending'
  PROVE  IInv'
<1>0. /\ graph' = graph /\ results' = results /\ out' = out
      /\ snap' = snap /\ target' = target /\ override' = override
  BY DEF Running
<1>1. /\ Ids' = Ids /\ Frames' = Frames
      /\ \A i : Deps(i)' = Deps(i) /\ BaseRisk(i)' = BaseRisk(i)
  BY GraphUnchanged
<1>9. Layered' /\ ResultsDue'
  BY <1>0 DEF IInv, Layered, ResultsDue, RulesOf
<1>2. DOMAIN stack' = 1 .. Len(stack')
  OBVIOUS
<1>3. \A k \in DOMAIN stack' : stack'[k] \in Frames
  OBVIOUS
<1>4. TypeOK'
  <2>1. TypeOK
    BY DEF IInv
  <2>2. (\A n \in DOMAIN results :
           results[n].status \in {"compatible", "incompatible", "unknown"})'
    BY <1>0, <2>1 DEF TypeOK
  <2>3. (graph.edges \subseteq Ids \X Ids)'
    BY <1>0, <1>1, <2>1 DEF TypeOK
  <2>4. \A k \in DOMAIN stack' :
          /\ stack'[k].id \in Ids /\ stack'[k].best \in Risk
          /\ stack'[k].todo \subseteq Ids
    BY <1>3 DEF Frames
  <2> QED BY <1>0, <1>1, <2>1, <2>2, <2>3, <2>4 DEF TypeOK
<1>5. MemoSettled'
  BY <1>1 DEF MemoSettled
<1>6. FramesSettled'
  BY <1>1, <1>2 DEF FramesSettled
<1>7. Nested'
  BY DEF Nested
<1>8. Phases'
  BY DEF Phases
<1> QED BY <1>1, <1>4, <1>5, <1>6, <1>7, <1>8, <1>9 DEF IInv

LEMMA NewFrame ==
  ASSUME TypeOK, NEW id \in Ids
  PROVE  /\ Frame(id) \in Frames /\ Frame(id).id = id
         /\ Frame(id).best = BaseRisk(id) /\ Frame(id).todo = Deps(id)
         /\ \A e : Settled(BaseRisk(id), Deps(id), Frame(id).todo,
                           Frame(id).best, e)
<1>1. Deps(id) \subseteq Ids
  BY DEF Deps, TypeOK
<1>2. BaseRisk(id) \in Risk
  BY BaseRiskRange
<1>3. Frame(id) \in Frames /\ Frame(id).id = id
      /\ Frame(id).best = BaseRisk(id) /\ Frame(id).todo = Deps(id)
  BY <1>1, <1>2 DEF Frame, Frames
<1> QED BY <1>2, <1>3, SettledAtFirst

\* A frame of a caller that inherits from d, once d is computed.
LEMMA InheritingFrame ==
  ASSUME NEW f \in Frames, NEW d, NEW e,
         Settled(BaseRisk(f.id), Deps(f.id), f.todo, f.best, e),
         f.todo \subseteq Deps(f.id), d \in f.todo, d \in DOMAIN e,
         \A x \in DOMAIN e : e[x] \in Risk
  PROVE  LET g == Inheriting(f, d, e[d])
         IN /\ g \in Frames /\ g.id = f.id /\ g.todo = f.todo \ {d}
            /\ Settled(BaseRisk(g.id), Deps(g.id), g.todo, g.best, e)
<1> DEFINE m == Max({f.best, Decayed(e[d])})
           h == [id |-> f.id, best |-> m, todo |-> f.todo \ {d}]
<1>1. Settled(BaseRisk(f.id), Deps(f.id), f.todo \ {d}, m, e)
  BY BaseRiskRange, SettledInheriting
<1>2. m \in Risk
  BY <1>1 DEF Settled
<1>3. Inheriting(f, d, e[d]) = h
  <2>1. Inheriting(f, d, e[d]) = [f EXCEPT !.best = m, !.todo = f.todo \ {d}]
    BY DEF Inheriting
  <2> HIDE DEF m
  <2>2. ASSUME NEW g, g = [f EXCEPT !.best = m, !.todo = f.todo \ {d}]
        PROVE  g = h
    BY <1>2, <2>2 DEF Frames
  <2> QED BY <2>1, <2>2
<1> HIDE DEF m
<1>4. h \in Frames /\ h.id = f.id /\ h.todo = f.todo \ {d} /\ h.best = m
  BY <1>2 DEF Frames
<1> HIDE DEF h
<1> QED BY <1>1, <1>3, <1>4

LEMMA StepCompute ==
  ASSUME IInv, NEW id \in Ids, Compute(id)
  PROVE  IInv'
<1> DEFINE t == <<Frame(id)>>
<1>1. /\ phase = "scoring" /\ id \notin DOMAIN eff /\ stack' = t
      /\ UNCHANGED <<phase, Running>> /\ eff' = eff
  BY DEF Compute
<1>2. TypeOK
  BY DEF IInv
<1>3. t \in Seq(Frames) /\ Len(t) = 1 /\ t[1] = Frame(id)
  BY <1>2, NewFrame
<1> HIDE DEF t
<1>4. ASSUME NEW k \in 1 .. Len(t)
      PROVE  /\ t[k].id \notin DOMAIN eff /\ t[k].todo \subseteq Deps(t[k].id)
             /\ Settled(BaseRisk(t[k].id), Deps(t[k].id), t[k].todo, t[k].best, eff)
  <2>1. k = 1
    BY <1>3
  <2> QED BY <1>1, <1>2, <1>3, <2>1, NewFrame
<1>5. Ascending'
  BY <1>1, <1>3 DEF Ascending
<1>6. 1 .. Len(t) - 1 = {}
  BY <1>3
<1>7. /\ DOMAIN eff \subseteq Ids /\ \A i \in DOMAIN eff : eff[i] \in Risk
      /\ MemoSettled
  BY DEF IInv, TypeOK
<1> QED BY <1>1, <1>3, <1>4, <1>5, <1>6, <1>7, ScoringStep DEF MemoSettled

LEMMA StepRecurse ==
  ASSUME IInv, NEW d \in Ids, Recurse(d)
  PROVE  IInv'
<1> DEFINE t == <<Frame(d)>> \o stack
<1>1. /\ stack # <<>> /\ d \in Head(stack).todo /\ d \notin DOMAIN eff
      /\ UNCHANGED <<phase, Running>> /\ eff' = eff /\ stack' = t
  BY DEF Recurse
<1>2. TypeOK /\ stack \in Seq(Frames) /\ phase = "scoring"
  BY <1>1 DEF IInv, Phases
<1>3. Len(stack) >= 1 /\ Head(stack) = stack[1] /\ DOMAIN stack = 1 .. Len(stack)
  BY <1>1, <1>2, TailFacts
<1>4. /\ t \in Seq(Frames) /\ Len(t) = Len(stack) + 1 /\ t[1] = Frame(d)
      /\ \A k \in 2 .. Len(t) : t[k] = stack[k - 1]
  BY <1>2, NewFrame, Prepended
<1> HIDE DEF t
<1>5. ASSUME NEW k \in 1 .. Len(t)
      PROVE  /\ t[k].id \notin DOMAIN eff /\ t[k].todo \subseteq Deps(t[k].id)
             /\ Settled(BaseRisk(t[k].id), Deps(t[k].id), t[k].todo, t[k].best, eff)
  <2>1. CASE k = 1
    BY <1>1, <1>2, <1>4, <2>1, NewFrame
  <2>2. CASE k # 1
    <3>1. k - 1 \in DOMAIN stack /\ t[k] = stack[k - 1]
      BY <1>2, <1>3, <1>4, <2>2
    <3> QED BY <3>1 DEF IInv, FramesSettled
  <2> QED BY <2>1, <2>2
<1>6. ASSUME NEW k \in 1 .. Len(t) - 1
      PROVE  t[k].id \in t[k + 1].todo
  <2>1. CASE k = 1
    BY <1>1, <1>2, <1>3, <1>4, <2>1, NewFrame
  <2>2. CASE k # 1
    <3>1. /\ k - 1 \in 1 .. Len(stack) - 1 /\ (k - 1) + 1 = k
          /\ t[k] = stack[k - 1] /\ t[k + 1] = stack[k]
      BY <1>2, <1>4, <2>2
    <3> QED BY <3>1 DEF IInv, Nested
  <2> QED BY <2>1, <2>2
<1>7. ASSUME NEW k \in 1 .. Len(t), NEW l \in 1 .. Len(t), k < l
      PROVE  Layer(t[k].id) < Layer(t[l].id)
  <2>1. l - 1 \in 1 .. Len(stack) /\ t[l] = stack[l - 1]
    BY <1>2, <1>4, <1>7
  <2>2. CASE k = 1
    <3>1. Layer(d) < Layer(stack[1].id)
      <4>1. d \in Deps(stack[1].id)
        BY <1>1, <1>3 DEF IInv, FramesSettled
      <4> QED BY <4>1, DepsDescend DEF IInv, TypeOK
    <3>2. t[k].id = d
      BY <1>2, <1>4, <2>2, NewFrame
    <3>3. CASE l - 1 = 1
      BY <2>1, <3>1, <3>2, <3>3
    <3>4. CASE l - 1 # 1
      <4>1. Layer(stack[1].id) < Layer(stack[l - 1].id)
        <5>1. 1 \in 1 .. Len(stack) /\ 1 < l - 1
          BY <1>3, <2>1, <3>4
        <5> QED BY <2>1, <5>1 DEF IInv, Ascending
      <4>2. \A i : Layer(i) \in Int
        BY DEF Layer
      <4> QED BY <2>1, <3>1, <3>2, <4>1, <4>2
    <3> QED BY <3>3, <3>4
  <2>3. CASE k # 1
    <3>1. k - 1 \in 1 .. Len(stack) /\ t[k] = stack[k - 1] /\ k - 1 < l - 1
      BY <1>2, <1>4, <1>7, <2>3
    <3> QED BY <2>1, <3>1 DEF IInv, Ascending
  <2> QED BY <2>2, <2>3
<1>8. Ascending'
  BY <1>1, <1>7 DEF Ascending
<1>9. /\ DOMAIN eff \subseteq Ids /\ \A i \in DOMAIN eff : eff[i] \in Risk
      /\ MemoSettled
  BY DEF IInv, TypeOK
<1> QED BY <1>1, <1>2, <1>4, <1>5, <1>6, <1>8, <1>9, ScoringStep DEF MemoSettled

LEMMA HeadReplaced ==
  ASSUME NEW s \in Seq(Frames), s # <<>>, NEW g \in Frames, g.id = s[1].id
  PROVE  LET t == <<g>> \o Tail(s)
         IN /\ t \in Seq(Frames) /\ Len(t) = Len(s) /\ t[1] = g
            /\ \A k \in 2 .. Len(t) : t[k] = s[k]
            /\ \A k \in 1 .. Len(t) : t[k].id = s[k].id
<1> DEFINE t == <<g>> \o Tail(s)
<1>1. /\ Tail(s) \in Seq(Frames) /\ Len(Tail(s)) = Len(s) - 1 /\ Len(s) >= 1
      /\ \A k \in 1 .. Len(Tail(s)) : Tail(s)[k] = s[k + 1]
  BY TailFacts
<1>2. /\ t \in Seq(Frames) /\ Len(t) = Len(Tail(s)) + 1 /\ t[1] = g
      /\ \A k \in 2 .. Len(t) : t[k] = Tail(s)[k - 1]
  BY <1>1, Prepended
<1> HIDE DEF t
<1>3. Len(t) = Len(s) /\ Len(s) \in Nat
  BY <1>1, <1>2
<1>4. ASSUME NEW k \in 2 .. Len(t)
      PROVE  t[k] = s[k]
  <2>1. k - 1 \in 1 .. Len(Tail(s)) /\ (k - 1) + 1 = k
    BY <1>1, <1>3
  <2> QED BY <1>1, <1>2, <2>1
<1>5. ASSUME NEW k \in 1 .. Len(t)
      PROVE  t[k].id = s[k].id
  <2>1. CASE k = 1
    BY <1>2, <2>1
  <2>2. CASE k # 1
    BY <1>3, <1>4, <2>2
  <2> QED BY <2>1, <2>2
<1> QED BY <1>2, <1>3, <1>4, <1>5 DEF t

LEMMA StepInheritKnown ==
  ASSUME IInv, NEW d \in Ids, InheritKnown(d)
  PROVE  IInv'
<1>1. /\ stack # <<>> /\ d \in Head(stack).todo
      /\ UNCHANGED <<phase, Running>> /\ eff' = eff
  BY DEF InheritKnown
<1>2. /\ TypeOK /\ stack \in Seq(Frames) /\ phase = "scoring"
      /\ MemoSettled /\ FramesSettled /\ Nested /\ Ascending
      /\ DOMAIN eff \subseteq Ids /\ \A i \in DOMAIN eff : eff[i] \in Risk
  BY <1>1 DEF IInv, Phases, TypeOK
<1>3. /\ Len(stack) >= 1 /\ Head(stack) = stack[1] /\ stack[1] \in Frames
      /\ DOMAIN stack = 1 .. Len(stack)
  BY <1>1, <1>2, TailFacts
<1>4. d \in DOMAIN eff
  BY <1>1, NoneVisited DEF InheritKnown
<1> DEFINE g == Inheriting(stack[1], d, eff[d])
           t == <<g>> \o Tail(stack)
<1>5. stack' = t
  BY <1>3, <1>4 DEF InheritKnown
<1>6. /\ g \in Frames /\ g.id = stack[1].id /\ g.todo = stack[1].todo \ {d}
      /\ Settled(BaseRisk(g.id), Deps(g.id), g.todo, g.best, eff)
  <2> DEFINE f == stack[1]
  <2>1. /\ Settled(BaseRisk(f.id), Deps(f.id), f.todo, f.best, eff)
        /\ f.todo \subseteq Deps(f.id) /\ d \in f.todo /\ f \in Frames
    BY <1>1, <1>2, <1>3 DEF FramesSettled
  <2> HIDE DEF f
  <2>2. LET h == Inheriting(f, d, eff[d])
        IN /\ h \in Frames /\ h.id = f.id /\ h.todo = f.todo \ {d}
           /\ Settled(BaseRisk(h.id), Deps(h.id), h.todo, h.best, eff)
    BY <1>2, <1>4, <2>1, InheritingFrame
  <2> QED BY <2>2 DEF f
<1> HIDE DEF g
<1>7. /\ t \in Seq(Frames) /\ Len(t) = Len(stack) /\ t[1] = g
      /\ \A k \in 2 .. Len(t) : t[k] = stack[k]
      /\ \A k \in 1 .. Len(t) : t[k].id = stack[k].id
  BY <1>1, <1>2, <1>6, HeadReplaced
<1> HIDE DEF t
<1>8. ASSUME NEW k \in 1 .. Len(t)
      PROVE  /\ t[k].id \notin DOMAIN eff /\ t[k].todo \subseteq Deps(t[k].id)
             /\ Settled(BaseRisk(t[k].id), Deps(t[k].id), t[k].todo, t[k].best, eff)
  <2>1. CASE k = 1
    BY <1>2, <1>3, <1>6, <1>7, <2>1 DEF FramesSettled
  <2>2. CASE k # 1
    BY <1>2, <1>3, <1>7, <2>2 DEF FramesSettled
  <2> QED BY <2>1, <2>2
<1>9. ASSUME NEW k \in 1 .. Len(t) - 1
      PROVE  t[k].id \in t[k + 1].todo
  <2>1. stack[k].id \in stack[k + 1].todo
    BY <1>2, <1>7 DEF Nested
  <2>2. t[k + 1] = stack[k + 1] /\ t[k].id = stack[k].id
    BY <1>2, <1>7
  <2> QED BY <2>1, <2>2
<1>10. Ascending'
  BY <1>2, <1>5, <1>7 DEF Ascending
<1> QED BY <1>1, <1>2, <1>5, <1>7, <1>8, <1>9, <1>10, ScoringStep DEF MemoSettled

LEMMA StepReturn ==
  ASSUME IInv, Return
  PROVE  IInv'
<1> DEFINE x == stack[1].id
           e2 == [i \in DOMAIN eff \cup {x} |->
                    IF i = x THEN stack[1].best ELSE eff[i]]
           s == Tail(stack)
<1>1. /\ stack # <<>> /\ Head(stack).todo = {}
      /\ UNCHANGED <<phase, Running>> /\ eff' = e2
  BY DEF Return
<1>2. /\ TypeOK /\ stack \in Seq(Frames) /\ phase = "scoring"
      /\ MemoSettled /\ FramesSettled /\ Nested /\ Ascending
      /\ DOMAIN eff \subseteq Ids /\ \A i \in DOMAIN eff : eff[i] \in Risk
  BY <1>1 DEF IInv, Phases, TypeOK
<1>3. /\ Len(stack) \in Nat /\ Len(stack) >= 1 /\ Head(stack) = stack[1]
      /\ stack[1] \in Frames /\ DOMAIN stack = 1 .. Len(stack)
      /\ s \in Seq(Frames) /\ Len(s) = Len(stack) - 1
      /\ \A k \in 1 .. Len(s) : s[k] = stack[k + 1]
  BY <1>1, <1>2, TailFacts
<1>4. /\ x \in Ids /\ x \notin DOMAIN eff /\ stack[1].best \in Risk
      /\ Settled(BaseRisk(x), Deps(x), {}, stack[1].best, eff)
  <2>1. 1 \in DOMAIN stack /\ stack[1].todo = {}
    BY <1>1, <1>3
  <2>2. stack[1].id \in Ids /\ stack[1].best \in Risk
    BY <1>3 DEF Frames
  <2> QED BY <1>2, <2>1, <2>2 DEF FramesSettled
<1>5. DOMAIN e2 = DOMAIN eff \cup {x} /\ e2[x] = stack[1].best
      /\ \A i \in DOMAIN eff : e2[i] = eff[i]
  BY <1>4
<1>6. \A base, deps, todo, v :
        Settled(base, deps, todo, v, eff) => Settled(base, deps, todo, v, e2)
  BY <1>4, SettledExtended
<1> HIDE DEF x, e2, s
<1>7. /\ DOMAIN e2 \subseteq Ids /\ \A i \in DOMAIN e2 : e2[i] \in Risk
      /\ \A i \in DOMAIN e2 : Settled(BaseRisk(i), Deps(i), {}, e2[i], e2)
  <2>1. ASSUME NEW i \in DOMAIN e2
        PROVE  /\ i \in Ids /\ e2[i] \in Risk
               /\ Settled(BaseRisk(i), Deps(i), {}, e2[i], e2)
    <3>1. CASE i = x
      BY <1>4, <1>5, <1>6, <3>1
    <3>2. CASE i # x
      BY <1>2, <1>5, <1>6, <3>2 DEF MemoSettled
    <3> QED BY <3>1, <3>2
  <2> QED BY <2>1
<1>8. ASSUME NEW k \in 1 .. Len(s)
      PROVE  /\ s[k].id \notin DOMAIN e2 /\ s[k].todo \subseteq Deps(s[k].id)
             /\ Settled(BaseRisk(s[k].id), Deps(s[k].id), s[k].todo, s[k].best, e2)
  <2>1. s[k] = stack[k + 1] /\ k + 1 \in 1 .. Len(stack) /\ 1 < k + 1
        /\ 1 \in 1 .. Len(stack)
    BY <1>3
  <2>2. s[k].id # x
    <3>1. Layer(stack[1].id) < Layer(stack[k + 1].id)
      BY <1>2, <2>1 DEF Ascending
    <3>2. \A i : Layer(i) \in Int
      BY DEF Layer
    <3>3. Layer(x) # Layer(s[k].id)
      BY <2>1, <3>1, <3>2 DEF x
    <3> QED BY <3>3
  <2> QED BY <1>2, <1>3, <1>5, <1>6, <2>1, <2>2 DEF FramesSettled
<1>9. CASE Len(stack) = 1
  <2>1. stack' = <<>> /\ Len(<<>>) = 0 /\ <<>> \in Seq(Frames)
    BY <1>9 DEF Return
  <2>2. Ascending'
    BY <2>1 DEF Ascending
  <2> QED BY <1>1, <1>2, <1>7, <2>1, <2>2, ScoringStep
<1>10. CASE Len(stack) # 1
  <2> DEFINE g == Inheriting(s[1], x, e2[x])
             t == <<g>> \o Tail(s)
  <2>1. stack' = t
    BY <1>3, <1>5, <1>10 DEF Return, s, x
  <2>2. s # <<>> /\ 1 \in 1 .. Len(s) /\ s[1] \in Frames
    BY <1>3, <1>10
  <2>3. x \in s[1].todo
    <3>1. 1 \in 1 .. Len(stack) - 1 /\ s[1] = stack[1 + 1]
      BY <1>3, <1>10
    <3> QED BY <1>2, <3>1 DEF Nested, x
  <2>4. /\ g \in Frames /\ g.id = s[1].id /\ g.todo = s[1].todo \ {x}
        /\ Settled(BaseRisk(g.id), Deps(g.id), g.todo, g.best, e2)
    <3> DEFINE f == s[1]
    <3>1. /\ Settled(BaseRisk(f.id), Deps(f.id), f.todo, f.best, e2)
          /\ f.todo \subseteq Deps(f.id) /\ x \in f.todo /\ f \in Frames
      BY <1>8, <2>2, <2>3
    <3> HIDE DEF f
    <3>2. LET h == Inheriting(f, x, e2[x])
          IN /\ h \in Frames /\ h.id = f.id /\ h.todo = f.todo \ {x}
             /\ Settled(BaseRisk(h.id), Deps(h.id), h.todo, h.best, e2)
      BY <1>5, <1>7, <3>1, InheritingFrame
    <3> QED BY <3>2 DEF f
  <2> HIDE DEF g
  <2>5. /\ t \in Seq(Frames) /\ Len(t) = Len(s) /\ t[1] = g
        /\ \A k \in 2 .. Len(t) : t[k] = s[k]
        /\ \A k \in 1 .. Len(t) : t[k].id = s[k].id
    BY <1>3, <2>2, <2>4, HeadReplaced
  <2> HIDE DEF t
  <2>6. ASSUME NEW k \in 1 .. Len(t)
        PROVE  /\ t[k].id \notin DOMAIN e2 /\ t[k].todo \subseteq Deps(t[k].id)
               /\ Settled(BaseRisk(t[k].id), Deps(t[k].id), t[k].todo, t[k].best, e2)
    <3>1. CASE k = 1
      BY <1>8, <2>2, <2>4, <2>5, <3>1
    <3>2. CASE k # 1
      BY <1>8, <2>5, <3>2
    <3> QED BY <3>1, <3>2
  <2>7. ASSUME NEW k \in 1 .. Len(t) - 1
        PROVE  t[k].id \in t[k + 1].todo
    <3>1. k + 1 \in 1 .. Len(stack) - 1 /\ s[k] = stack[k + 1]
          /\ s[k + 1] = stack[(k + 1) + 1]
      BY <1>3, <2>5
    <3>2. s[k].id \in s[k + 1].todo
      BY <1>2, <3>1 DEF Nested
    <3>3. t[k + 1] = s[k + 1] /\ t[k].id = s[k].id
      BY <1>3, <2>5
    <3> QED BY <3>2, <3>3
  <2>8. ASSUME NEW k \in 1 .. Len(t), NEW l \in 1 .. Len(t), k < l
        PROVE  Layer(t[k].id) < Layer(t[l].id)
    <3>1. /\ k + 1 \in 1 .. Len(stack) /\ l + 1 \in 1 .. Len(stack) /\ k + 1 < l + 1
          /\ t[k].id = stack[k + 1].id /\ t[l].id = stack[l + 1].id
      BY <1>3, <2>5, <2>8
    <3> QED BY <1>2, <3>1 DEF Ascending
  <2>9. Ascending'
    BY <2>1, <2>8 DEF Ascending
  <2> QED BY <1>1, <1>2, <1>7, <2>1, <2>5, <2>6, <2>7, <2>9, ScoringStep
<1> QED BY <1>9, <1>10

-----------------------------------------------------------------------------
(* The invariant.                                                          *)

LEMMA StepEvaluateAndBuild ==
  ASSUME IInv, EvaluateAndBuild
  PROVE  IInv'
<1>1. /\ phase = "collected" /\ phase' = "scoring"
      /\ graph' = BuildFromSnapshot(snap)
      /\ UNCHANGED <<snap, target, override, eff, stack>>
  BY DEF EvaluateAndBuild
<1>2. TypeOK /\ stack = <<>> /\ DOMAIN eff = {}
  BY <1>1 DEF IInv, Phases
<1>3. /\ graph'.edges \subseteq (DOMAIN graph'.comp) \X (DOMAIN graph'.comp)
      /\ \A e \in graph'.edges : Layer(e[2]) < Layer(e[1])
  BY <1>1, BuiltGraph
<1>4. ResultsDue'
  <2>1. SUFFICES ASSUME NEW n \in DOMAIN results'
                 PROVE  \E v \in Versions :
                          results'[n] = EvaluateAddon(v, target', RulesOf(n)')
    BY DEF ResultsDue
  <2>2. RulesOf(n)' = RulesOf(n) /\ target' = target
    BY <1>1 DEF RulesOf
  <2> DEFINE a == CHOOSE x \in snap.addons : x.name = n
             named == IF target = NoTarget THEN {} ELSE {x.name : x \in snap.addons}
  <2>3. n \in named /\ results'[n] = EvaluateAddon(a.version, target, RulesOf(n))
    BY DEF EvaluateAndBuild
  <2>4. \E x \in snap.addons : x.name = n
    BY <2>3
  <2>5. a \in snap.addons
    BY <2>4
  <2>6. a.version \in Versions
    BY <1>2, <2>5 DEF TypeOK, Snapshot
  <2> QED BY <2>2, <2>3, <2>6
<1>5. \A n \in DOMAIN results' :
        results'[n].status \in {"compatible", "incompatible", "unknown"}
  BY <1>4 DEF ResultsDue, EvaluateAddon
<1>6. TypeOK'
  <2>1. DOMAIN eff' = {} /\ DOMAIN stack' = {}
    BY <1>1, <1>2
  <2>2. (graph.edges \subseteq Ids \X Ids)'
    BY <1>3 DEF Ids
  <2> QED BY <1>1, <1>2, <1>5, <2>1, <2>2 DEF TypeOK
<1>7. Layered'
  BY <1>3 DEF Layered
<1>8. /\ stack' = <<>> /\ Len(stack') = 0 /\ DOMAIN stack' = {} /\ DOMAIN eff' = {}
  BY <1>1, <1>2
<1>9. (stack \in Seq(Frames))'
  BY <1>8
<1>10. MemoSettled' /\ FramesSettled' /\ Nested' /\ Ascending' /\ Phases'
  BY <1>1, <1>8 DEF MemoSettled, FramesSettled, Nested, Ascending, Phases
<1> QED BY <1>4, <1>6, <1>7, <1>9, <1>10 DEF IInv

LEMMA StepReport ==
  ASSUME IInv, Report
  PROVE  IInv'
<1>1. /\ phase' = "reported" /\ stack = <<>> /\ DOMAIN eff = Ids
      /\ graph' = graph /\ results' = results /\ eff' = eff /\ stack' = stack
      /\ snap' = snap /\ target' = target /\ override' = override
  BY DEF Report
<1>2. Ids' = Ids /\ Frames' = Frames
      /\ \A i : Deps(i)' = Deps(i) /\ BaseRisk(i)' = BaseRisk(i)
  BY <1>1 DEF Ids, Frames, Deps, BaseRisk, Condition
<1>3. TypeOK'
  BY <1>1, <1>2 DEF IInv, TypeOK
<1>4. MemoSettled' /\ FramesSettled'
  BY <1>1, <1>2 DEF IInv, MemoSettled, FramesSettled
<1>5. Layered' /\ Nested' /\ Ascending' /\ ResultsDue'
  BY <1>1 DEF IInv, Layered, Nested, Ascending, ResultsDue, RulesOf
<1>6. Phases' /\ (stack \in Seq(Frames))'
  BY <1>1, <1>2 DEF IInv, Phases
<1> QED BY <1>3, <1>4, <1>5, <1>6 DEF IInv

LEMMA Initially ==
  ASSUME Init
  PROVE  IInv
<1>1. /\ phase = "collected" /\ snap \in Snapshots /\ target \in Targets
      /\ override \in Overrides /\ results = <<>> /\ graph = NoGraph
      /\ eff = <<>> /\ stack = <<>>
  BY DEF Init
<1>2. DOMAIN eff = {} /\ DOMAIN stack = {} /\ DOMAIN results = {} /\ Len(stack) = 0
      /\ graph.edges = {}
  BY <1>1 DEF NoGraph
<1>3. TypeOK
  BY <1>1, <1>2, SnapshotsAssumption DEF TypeOK
<1> QED
  BY <1>1, <1>2, <1>3
  DEF IInv, Layered, MemoSettled, FramesSettled, Nested, Ascending, Phases, ResultsDue

\* The invariant holds of every behaviour: types, the layers of the graph, what
\* the memo and the calls of compute (graph/risk.go) hold at every moment.
THEOREM InductiveInvariance == Spec => []IInv
<1>1. Init => IInv
  BY Initially
<1>2. IInv /\ [Next]_vars => IInv'
  <2>1. SUFFICES ASSUME IInv, [Next]_vars PROVE IInv'
    OBVIOUS
  <2>2. CASE EvaluateAndBuild
    BY <2>1, <2>2, StepEvaluateAndBuild
  <2>3. CASE \E id \in Ids : Compute(id)
    BY <2>1, <2>3, StepCompute
  <2>4. CASE \E id \in Ids : Recurse(id)
    BY <2>1, <2>4, StepRecurse
  <2>5. CASE \E id \in Ids : InheritKnown(id)
    BY <2>1, <2>5, StepInheritKnown
  <2>6. CASE Return
    BY <2>1, <2>6, StepReturn
  <2>7. CASE Report
    BY <2>1, <2>7, StepReport
  <2>8. CASE UNCHANGED vars
    <3>1. /\ phase' = phase /\ snap' = snap /\ target' = target
          /\ override' = override /\ results' = results /\ graph' = graph
          /\ eff' = eff /\ stack' = stack
      BY <2>8 DEF vars
    <3>2. /\ Ids' = Ids /\ Frames' = Frames
          /\ \A i : Deps(i)' = Deps(i) /\ BaseRisk(i)' = BaseRisk(i)
      BY <3>1 DEF Ids, Frames, Deps, BaseRisk, Condition
    <3>3. TypeOK' /\ (stack \in Seq(Frames))'
      BY <2>1, <3>1, <3>2 DEF IInv, TypeOK
    <3>4. MemoSettled' /\ FramesSettled' /\ Phases'
      BY <2>1, <3>1, <3>2 DEF IInv, MemoSettled, FramesSettled, Phases
    <3>5. Layered' /\ Nested' /\ Ascending' /\ ResultsDue'
      BY <2>1, <3>1 DEF IInv, Layered, Nested, Ascending, ResultsDue, RulesOf
    <3> QED BY <3>3, <3>4, <3>5 DEF IInv
  <2> QED BY <2>1, <2>2, <2>3, <2>4, <2>5, <2>6, <2>7, <2>8 DEF Next
<1> QED BY <1>1, <1>2, PTL DEF Spec

\* Every reported risk is the largest of the component's own and of the decayed
\* risks of its dependencies, and the cycle guard of compute is never needed.
THEOREM RisksAreDue == Spec => []RiskIsDue
<1>1. IInv => RiskIsDue
  <2>1. SUFFICES ASSUME IInv PROVE RiskIsDue
    OBVIOUS
  <2>2. GuardUnused
    BY <2>1, NoneVisited DEF GuardUnused
  <2>3. ASSUME phase = "reported", NEW i \in Ids
        PROVE  eff[i] = Max({BaseRisk(i)} \cup {Decayed(eff[d]) : d \in Deps(i)})
    <3>1. i \in DOMAIN eff
      BY <2>1, <2>3 DEF IInv, Phases
    <3>2. Settled(BaseRisk(i), Deps(i), {}, eff[i], eff)
      BY <2>1, <3>1 DEF IInv, MemoSettled
    <3>3. \A x \in DOMAIN eff : eff[x] \in Risk
      BY <2>1 DEF IInv, TypeOK
    <3> QED BY <3>2, <3>3, BaseRiskRange, SettledIsDue
  <2> QED BY <2>2, <2>3 DEF RiskIsDue
<1> QED BY <1>1, InductiveInvariance, PTL

\* Every non-empty set of naturals has a least element: the rule, or the action,
\* that a loop over a list meets first.
LEMMA LeastNatural ==
  ASSUME NEW T \in SUBSET Nat, T # {}
  PROVE  \E x \in T : \A y \in T : x <= y
<1>1. PICK x \in T : \A y \in T : <<y, x>> \notin OpToRel(<, Nat)
  BY WFMin, NatLessThanWellFounded, Zenon
<1>2. \A y \in T : ~ (y < x)
  BY <1>1, Zenon DEF OpToRel
<1> QED BY <1>2

\* Induction, on a set of numbers.
LEMMA AllNaturals ==
  ASSUME NEW T \in SUBSET Nat, 0 \in T, \A n \in T : n + 1 \in T
  PROVE  T = Nat
<1>1. SUFFICES ASSUME Nat \ T # {} PROVE FALSE
  OBVIOUS
<1>2. PICK x \in Nat \ T : \A y \in Nat \ T : x <= y
  <2>1. (Nat \ T) \in SUBSET Nat
    OBVIOUS
  <2> QED BY <1>1, <2>1, LeastNatural
<1>3. x # 0 /\ x - 1 \in Nat
  BY <1>2
<1>4. x - 1 \in T
  BY <1>2, <1>3
<1>5. (x - 1) + 1 = x
  BY <1>2
<1> QED BY <1>2, <1>4, <1>5

\* The values that a function on S gives when it is applied again and again.
Iteration(f, S, x, F) ==
  f \in [Nat -> S] /\ f[0] = x /\ \A n \in Nat : f[n + 1] = F[f[n]]

\* They exist.
LEMMA Iterates ==
  ASSUME NEW S, NEW x, x \in S, NEW F, F \in [S -> S]
  PROVE  \E f : Iteration(f, S, x, F)
<1> DEFINE Part(f, n) == /\ f \in [0 .. n -> S] /\ f[0] = x
                         /\ \A k \in Nat : k + 1 <= n => f[k + 1] = F[f[k]]
           Reached == {n \in Nat : \E f : Part(f, n)}
<1>1. Reached = Nat
  <2>1. 0 \in Reached
    <3>1. Part([k \in 0 .. 0 |-> x], 0)
      OBVIOUS
    <3> QED BY <3>1
  <2>2. ASSUME NEW n \in Reached PROVE n + 1 \in Reached
    <3>1. PICK f : Part(f, n)
      OBVIOUS
    <3>2. n \in Nat /\ f \in [0 .. n -> S] /\ f[0] = x
      BY <3>1
    <3>3. PICK g : g = [k \in 0 .. n + 1 |-> IF k = n + 1 THEN F[f[n]] ELSE f[k]]
      OBVIOUS
    <3>4. f[n] \in S /\ F[f[n]] \in S
      BY <3>2
    <3>5. g \in [0 .. n + 1 -> S] /\ g[0] = x
      BY <3>2, <3>3, <3>4
    <3>6. ASSUME NEW k \in Nat, k + 1 <= n + 1 PROVE g[k + 1] = F[g[k]]
      <4>1. CASE k = n
        BY <3>2, <3>3, <4>1
      <4>2. CASE k # n
        <5>1. k + 1 <= n /\ k <= n
          BY <3>2, <3>6, <4>2
        <5>2. f[k + 1] = F[f[k]]
          BY <3>1, <5>1
        <5>3. g[k + 1] = f[k + 1] /\ g[k] = f[k]
          BY <3>2, <3>3, <5>1
        <5> QED BY <5>2, <5>3
      <4> QED BY <4>1, <4>2
    <3>7. Part(g, n + 1)
      BY <3>5, <3>6
    <3> HIDE DEF Part
    <3> QED BY <3>2, <3>7
  <2>3. Reached \in SUBSET Nat
    OBVIOUS
  <2> HIDE DEF Reached
  <2> QED BY <2>1, <2>2, <2>3, AllNaturals
<1>2. ASSUME NEW f, NEW g, NEW m \in Nat, NEW n \in Nat, m <= n,
             Part(f, m), Part(g, n)
      PROVE  \A k \in 0 .. m : f[k] = g[k]
  <2> DEFINE Same == {k \in Nat : k <= m => f[k] = g[k]}
  <2>1. 0 \in Same
    BY <1>2
  <2>2. ASSUME NEW k \in Same PROVE k + 1 \in Same
    <3>1. CASE k + 1 <= m
      <4>1. k \in Nat /\ k <= m /\ k + 1 <= n
        BY <1>2, <3>1
      <4>2. f[k] = g[k] /\ f[k + 1] = F[f[k]] /\ g[k + 1] = F[g[k]]
        BY <1>2, <3>1, <4>1
      <4> QED BY <4>1, <4>2
    <3> QED BY <3>1
  <2>3. Same \in SUBSET Nat
    OBVIOUS
  <2>4. Same = Nat
    <3> HIDE DEF Same
    <3> QED BY <2>1, <2>2, <2>3, AllNaturals
  <2> QED BY <2>4
<1>3. \A n \in Nat : Part(CHOOSE f : Part(f, n), n)
  <2>1. \A n \in Nat : \E f : Part(f, n)
    BY <1>1
  <2> HIDE DEF Part
  <2> QED BY <2>1
<1> DEFINE At(n) == CHOOSE f : Part(f, n)
<1>4. \A n \in Nat : Part(At(n), n)
  BY <1>3
<1> HIDE DEF At
<1>5. PICK h : h = [n \in Nat |-> At(n)[n]]
  OBVIOUS
<1>6. \A n \in Nat : h[n] \in S
  BY <1>4, <1>5
<1>7. h \in [Nat -> S]
  BY <1>5, <1>6
<1>8. h[0] = x
  BY <1>4, <1>5
<1>9. ASSUME NEW n \in Nat PROVE h[n + 1] = F[h[n]]
  <2>1. n + 1 \in Nat /\ n <= n + 1 /\ n \in 0 .. n
    OBVIOUS
  <2>2. Part(At(n), n) /\ Part(At(n + 1), n + 1)
    BY <1>4, <2>1
  <2>3. At(n)[n] = At(n + 1)[n]
    <3> HIDE DEF Part
    <3> QED BY <1>2, <2>1, <2>2
  <2>4. At(n + 1)[n + 1] = F[At(n + 1)[n]]
    BY <2>2
  <2> QED BY <1>5, <2>1, <2>3, <2>4
<1>10. Iteration(h, S, x, F)
  BY <1>7, <1>8, <1>9 DEF Iteration
<1> QED BY <1>10, Zenon

\* An incompatible add-on is given the first rule that supports the target, and
\* its versions are compatible; without one no version of the rules is.
THEOREM RecommendationsHelp == Spec => []RecommendationHelps
<1>1. IInv => RecommendationHelps
  <2>1. SUFFICES ASSUME IInv, NEW n \in Incompatible
                 PROVE  LET rules == RulesOf(n)
                            r == results[n].required
                            range(i) == IF rules[i].addon.ok
                                        THEN rules[i].addon.of ELSE {}
                            compatible(v) ==
                              EvaluateAddon(v, target, rules).status = "compatible"
                        IN IF r # 0 THEN \A v \in range(r) : compatible(v)
                           ELSE \A i \in DOMAIN rules :
                                  \A v \in range(i) : ~compatible(v)
    BY DEF RecommendationHelps
  <2> DEFINE rules == RulesOf(n)
             r == results[n].required
             range(i) == IF rules[i].addon.ok THEN rules[i].addon.of ELSE {}
             fits == {i \in DOMAIN rules : Includes(rules[i].k8s, target)}
             compatible(v) == EvaluateAddon(v, target, rules).status = "compatible"
  <2>2. n \in DOMAIN results /\ results[n].status = "incompatible"
    BY DEF Incompatible
  <2>3. PICK w \in Versions : results[n] = EvaluateAddon(w, target, rules)
    BY <2>1, <2>2 DEF IInv, ResultsDue
  <2>4. r = RequiredAddonVersion(rules, target) /\ target # NoVersion
    BY <2>2, <2>3 DEF EvaluateAddon
  <2>5. r = IF fits = {} THEN 0 ELSE Min(fits)
    BY <2>4 DEF RequiredAddonVersion
  <2>6. rules \in Seq(Rule)
    <3>1. override \in Overrides
      BY <2>1 DEF IInv, TypeOK
    <3>2. <<>> \in Seq(Rule)
      OBVIOUS
    <3> QED BY <3>1, <3>2, SnapshotsAssumption DEF RulesOf
  <2> HIDE DEF rules
  <2>7. DOMAIN rules = 1 .. Len(rules) /\ Len(rules) \in Nat
    BY <2>6
  <2>8. CASE fits = {}
    <3>1. ASSUME NEW i \in DOMAIN rules, NEW v \in range(i) PROVE ~compatible(v)
      BY <2>8 DEF EvaluateAddon
    <3>2. r = 0
      BY <2>5, <2>8
    <3> QED BY <3>1, <3>2 DEF rules
  <2>9. CASE fits # {}
    <3>1. \E x \in fits : \A y \in fits : x <= y
      <4>1. fits \in SUBSET Nat
        BY <2>7
      <4> HIDE DEF fits
      <4> QED BY <2>9, <4>1, LeastNatural
    <3>2. r \in fits
      BY <2>5, <2>9, <3>1 DEF Min
    <3>3. r \in DOMAIN rules /\ Includes(rules[r].k8s, target) /\ r # 0
      BY <2>7, <3>2
    <3>4. ASSUME NEW v \in range(r) PROVE compatible(v)
      <4>1. Includes(rules[r].addon, v)
        BY DEF Includes
      <4> QED BY <2>4, <3>3, <4>1 DEF EvaluateAddon
    <3> QED BY <3>3, <3>4 DEF rules
  <2> QED BY <2>8, <2>9
<1> QED BY <1>1, InductiveInvariance, PTL

\* At the threshold and the factor of risk.go and atrisk.go, whatever puts another
\* component at risk is one of the decision's blockers, and at risk on its own
\* account: risk crosses one edge of the graph and stays visible there, no more.
BlockersAloneSpread ==
  phase = "reported" =>
    \A i \in Ids : BaseRisk(i) < eff[i] /\ eff[i] >= AtRiskThreshold =>
      /\ \E d \in Deps(i) : eff[i] = Decayed(eff[d])
      /\ \A d \in Riskiest(Deps(i)) : d \in Blockers /\ eff[d] = BaseRisk(d)

\* Only the blockers of the decision put other components at risk, for every
\* snapshot and matrix.
THEOREM OnlyBlockersSpread == Spec => []BlockersAloneSpread
<1>1. IInv => BlockersAloneSpread
  <2>1. SUFFICES ASSUME IInv, phase = "reported", NEW i \in Ids,
                        BaseRisk(i) < eff[i], eff[i] >= AtRiskThreshold
                 PROVE  /\ \E d \in Deps(i) : eff[i] = Decayed(eff[d])
                        /\ \A d \in Riskiest(Deps(i)) :
                             d \in Blockers /\ eff[d] = BaseRisk(d)
    BY DEF BlockersAloneSpread
  <2>2. /\ \A j \in Ids : /\ eff[j] \in Risk /\ j \in DOMAIN eff
                          /\ Settled(BaseRisk(j), Deps(j), {}, eff[j], eff)
        /\ \A j \in Ids : Deps(j) \subseteq Ids
    BY <2>1 DEF IInv, Phases, TypeOK, MemoSettled, Deps
  <2>3. ASSUME NEW j \in Ids
        PROVE  eff[j] = BaseRisk(j) \/ \E d \in Deps(j) : eff[j] = Decayed(eff[d])
    BY <2>2 DEF Settled
  <2>4. PICK x \in Deps(i) : eff[i] = Decayed(eff[x])
    BY <2>1, <2>2, <2>3, BaseRiskRange DEF Risk
  <2>5. ASSUME NEW d \in Riskiest(Deps(i))
        PROVE  d \in Blockers /\ eff[d] = BaseRisk(d)
    <3>1. d \in Ids /\ x \in Ids /\ eff[d] >= eff[x]
      BY <2>2 DEF Riskiest
    <3>2. eff[d] >= 84
      <4>1. eff[d] \in Risk /\ eff[x] \in Risk
        BY <2>2, <3>1
      <4> QED BY <2>1, <2>4, <3>1, <4>1 DEF Risk, Decayed, AtRiskThreshold
    <3>3. \A v \in Risk : Decayed(v) < 84
      BY DEF Risk, Decayed
    <3>4. eff[d] = BaseRisk(d)
      <4>1. ASSUME NEW y \in Deps(d) PROVE eff[d] # Decayed(eff[y])
        <5>1. eff[y] \in Risk /\ eff[d] \in Risk
          BY <2>2, <3>1
        <5> QED BY <3>2, <3>3, <5>1 DEF Risk, Decayed
      <4> QED BY <2>3, <3>1, <4>1
    <3>5. BaseRisk(d) >= 84
      BY <3>2, <3>4
    <3>6. \/ d.kind = "Addon" /\ Condition(d) = "incompatible"
          \/ d.kind = "PVC" /\ Condition(d) = "Lost"
      <4>1. SUFFICES ASSUME ~ (d.kind = "Addon" /\ Condition(d) = "incompatible"),
                            ~ (d.kind = "PVC" /\ Condition(d) = "Lost")
                     PROVE  FALSE
        OBVIOUS
      <4>2. BaseRisk(d) \in {0, 10, 40, 50, 60, 70}
        BY <4>1 DEF BaseRisk
      <4> QED BY <3>5, <4>2
    <3>7. d \in Blockers
      BY <3>1, <3>6 DEF Blockers, Incompatible, Condition
    <3> QED BY <3>4, <3>7
  <2> QED BY <2>4, <2>5
<1> QED BY <1>1, InductiveInvariance, PTL
-----------------------------------------------------------------------------
(* What depends on a component (graph/impact.go), and what its risk causes. *)

LEMMA GrowsAlong ==
  ASSUME NEW G, NEW X \in [Nat -> SUBSET G], \A k \in Nat : X[k] \subseteq X[k + 1],
         NEW j \in Nat, NEW k \in Nat, j <= k
  PROVE  X[j] \subseteq X[k]
<1> DEFINE T == {n \in Nat : X[j] \subseteq X[j + n]}
<1>1. 0 \in T
  OBVIOUS
<1>2. ASSUME NEW n \in T PROVE n + 1 \in T
  <2>1. n \in Nat /\ j + n \in Nat /\ X[j] \subseteq X[j + n]
    OBVIOUS
  <2>2. X[j + n] \subseteq X[(j + n) + 1]
    BY <2>1
  <2>3. (j + n) + 1 = j + (n + 1)
    BY <2>1
  <2> QED BY <2>1, <2>2, <2>3
<1>3. T \in SUBSET Nat
  OBVIOUS
<1>4. T = Nat
  <2> HIDE DEF T
  <2> QED BY <1>1, <1>2, <1>3, AllNaturals
<1>5. k - j \in T
  <2>1. k - j \in Nat
    OBVIOUS
  <2> HIDE DEF T
  <2> QED BY <1>4, <2>1
<1>6. j + (k - j) = k
  OBVIOUS
<1> QED BY <1>5, <1>6

\* Sets that grow within a finite one stand still at some step, no later than its
\* size.
LEMMA GrowthStops ==
  ASSUME NEW G, IsFiniteSet(G), NEW X \in [Nat -> SUBSET G],
         \A k \in Nat : X[k] \subseteq X[k + 1]
  PROVE  \E k \in 0 .. Cardinality(G) : X[k + 1] = X[k]
<1>1. SUFFICES ASSUME \A k \in 0 .. Cardinality(G) : X[k + 1] # X[k]
               PROVE  FALSE
  OBVIOUS
<1>2. Cardinality(G) \in Nat
  BY FS_CardinalityType
<1>3. \A k \in Nat : /\ IsFiniteSet(X[k]) /\ Cardinality(X[k]) \in Nat
                     /\ Cardinality(X[k]) <= Cardinality(G)
  <2>1. SUFFICES ASSUME NEW k \in Nat
                 PROVE  /\ IsFiniteSet(X[k]) /\ Cardinality(X[k]) \in Nat
                        /\ Cardinality(X[k]) <= Cardinality(G)
    OBVIOUS
  <2>2. X[k] \in SUBSET G
    OBVIOUS
  <2> QED BY <2>2, FS_Subset, FS_CardinalityType
<1> DEFINE T == {k \in Nat : k <= Cardinality(G) + 1 => Cardinality(X[k]) >= k}
<1>4. 0 \in T
  BY <1>3
<1>5. ASSUME NEW k \in T PROVE k + 1 \in T
  <2>1. SUFFICES ASSUME k + 1 <= Cardinality(G) + 1
                 PROVE  Cardinality(X[k + 1]) >= k + 1
    BY <1>5
  <2>2. k \in Nat /\ k \in 0 .. Cardinality(G) /\ Cardinality(X[k]) >= k
    BY <1>2, <2>1
  <2>3. X[k] \in SUBSET X[k + 1] /\ X[k + 1] # X[k]
    BY <1>1, <2>2
  <2>4. IsFiniteSet(X[k + 1])
    BY <1>3, <2>2
  <2>5. /\ Cardinality(X[k]) <= Cardinality(X[k + 1])
        /\ Cardinality(X[k + 1]) = Cardinality(X[k]) => X[k + 1] = X[k]
    BY <2>3, <2>4, FS_Subset
  <2>6. Cardinality(X[k]) \in Nat /\ Cardinality(X[k + 1]) \in Nat
    BY <1>3, <2>2
  <2> QED BY <2>2, <2>3, <2>5, <2>6
<1>6. T \in SUBSET Nat
  OBVIOUS
<1>7. T = Nat
  <2> HIDE DEF T
  <2> QED BY <1>4, <1>5, <1>6, AllNaturals
<1>8. Cardinality(G) + 1 \in T
  BY <1>2, <1>7
<1>9. /\ Cardinality(G) + 1 \in Nat
      /\ Cardinality(X[Cardinality(G) + 1]) >= Cardinality(G) + 1
  BY <1>2, <1>8
<1> QED BY <1>2, <1>3, <1>9

\* One more round of the search: the set, and what depends on one of its members.
Widened(last) == last \cup UNION {DirectDependents(i) : i \in last}

\* The search of Dependents as a sequence of sets.
LEMMA DependentsSearched ==
  ASSUME graph.edges \subseteq Ids \X Ids, IsFiniteSet(Ids), NEW id \in Ids
  PROVE  \E f \in [Nat -> SUBSET Ids] :
           /\ f[0] = {id} /\ \A n \in Nat : f[n + 1] = Widened(f[n])
           /\ Dependents(id) = f[Cardinality(Ids)] \ {id}
<1> DEFINE Rec(g) == [k \in Nat |->
                        IF k = 0 THEN {id}
                        ELSE LET last == g[k - 1]
                             IN last \cup UNION {DirectDependents(i) : i \in last}]
           seen == CHOOSE g : g = Rec(g)
<1>1. Dependents(id) = seen[Cardinality(Ids)] \ {id}
  BY DEF Dependents
<1>2. PICK F : F = [last \in SUBSET Ids |-> Widened(last)]
  OBVIOUS
<1>3. F \in [SUBSET Ids -> SUBSET Ids] /\ {id} \in SUBSET Ids
  BY <1>2 DEF Widened, DirectDependents
<1>4. PICK f : Iteration(f, SUBSET Ids, {id}, F)
  BY <1>3, Iterates
<1>5. /\ f \in [Nat -> SUBSET Ids] /\ f[0] = {id}
      /\ \A n \in Nat : f[n + 1] = Widened(f[n])
  BY <1>2, <1>4 DEF Iteration
<1>6. f = Rec(f)
  <2>1. \A k \in Nat : f[k] = Rec(f)[k]
    <3>1. SUFFICES ASSUME NEW k \in Nat PROVE f[k] = Rec(f)[k]
      OBVIOUS
    <3>2. CASE k = 0
      BY <1>5, <3>2
    <3>3. CASE k # 0
      <4>1. k - 1 \in Nat /\ (k - 1) + 1 = k
        BY <3>3
      <4>2. f[k] = Widened(f[k - 1])
        BY <1>5, <4>1
      <4> QED BY <3>3, <4>2 DEF Widened
    <3> QED BY <3>2, <3>3
  <2>2. f = [k \in Nat |-> f[k]]
    BY <1>5
  <2> QED BY <2>1, <2>2
<1>7. seen = Rec(seen)
  <2> HIDE DEF Rec
  <2> QED BY <1>6, Zenon
<1>8. \A n \in Nat : seen[n] = f[n]
  <2> DEFINE T == {n \in Nat : seen[n] = f[n]}
  <2> HIDE DEF seen
  <2>1. 0 \in T
    <3>1. seen[0] = {id}
      BY <1>7
    <3> QED BY <1>5, <3>1
  <2>2. ASSUME NEW n \in T PROVE n + 1 \in T
    <3>1. n \in Nat /\ seen[n] = f[n] /\ n + 1 \in Nat /\ n + 1 # 0 /\ (n + 1) - 1 = n
      OBVIOUS
    <3>2. seen[n + 1] = Widened(seen[n])
      BY <1>7, <3>1 DEF Widened
    <3> QED BY <1>5, <3>1, <3>2
  <2>3. T \in SUBSET Nat
    OBVIOUS
  <2>4. T = Nat
    <3> HIDE DEF T
    <3> QED BY <2>1, <2>2, <2>3, AllNaturals
  <2> QED BY <2>4
<1>9. Cardinality(Ids) \in Nat
  BY FS_CardinalityType
<1> QED BY <1>1, <1>5, <1>8, <1>9

\* Dependents misses nothing: whatever depends on the component, or on one of its
\* dependents, is among them.
LEMMA DependentsClosed ==
  ASSUME graph.edges \subseteq Ids \X Ids, IsFiniteSet(Ids), NEW id \in Ids,
         NEW i \in Ids, i # id,
         NEW d \in Deps(i), d \in Dependents(id) \cup {id}
  PROVE  i \in Dependents(id)
<1>1. PICK f \in [Nat -> SUBSET Ids] :
        /\ f[0] = {id} /\ \A n \in Nat : f[n + 1] = Widened(f[n])
        /\ Dependents(id) = f[Cardinality(Ids)] \ {id}
  BY DependentsSearched
<1>2. \A n \in Nat : f[n] \subseteq f[n + 1]
  BY <1>1 DEF Widened
<1>3. PICK k \in 0 .. Cardinality(Ids) : f[k + 1] = f[k]
  BY <1>2, GrowthStops
<1>4. k \in Nat /\ Cardinality(Ids) \in Nat /\ k <= Cardinality(Ids)
  BY FS_CardinalityType
<1>5. f[Cardinality(Ids)] = f[k]
  <2> DEFINE T == {n \in Nat : f[k + n] = f[k]}
  <2>1. 0 \in T
    BY <1>4
  <2>2. ASSUME NEW n \in T PROVE n + 1 \in T
    <3>1. n \in Nat /\ k + n \in Nat /\ (k + n) + 1 = k + (n + 1) /\ f[k + n] = f[k]
      BY <1>4
    <3>2. f[(k + n) + 1] = Widened(f[k + n]) /\ f[k + 1] = Widened(f[k])
      BY <1>1, <1>4, <3>1
    <3>3. f[k + (n + 1)] = f[k]
      BY <1>3, <3>1, <3>2
    <3> QED BY <3>1, <3>3
  <2>3. T \in SUBSET Nat
    OBVIOUS
  <2>4. T = Nat
    <3> HIDE DEF T
    <3> QED BY <2>1, <2>2, <2>3, AllNaturals
  <2>5. Cardinality(Ids) - k \in T
    BY <1>4, <2>4
  <2>6. k + (Cardinality(Ids) - k) = Cardinality(Ids)
    BY <1>4
  <2> QED BY <2>5, <2>6
<1>6. id \in f[k]
  <2>1. f[0] \subseteq f[k]
    <3>1. 0 \in Nat /\ k \in Nat /\ 0 <= k
      BY <1>4
    <3> QED BY <1>2, <3>1, GrowsAlong, Zenon
  <2> QED BY <1>1, <2>1
<1>7. d \in f[k]
  BY <1>1, <1>5, <1>6
<1>8. i \in DirectDependents(d)
  BY DEF Deps, DirectDependents
<1>9. i \in f[k]
  <2>1. f[k] = Widened(f[k])
    BY <1>1, <1>3, <1>4
  <2> QED BY <1>7, <1>8, <2>1 DEF Widened
<1> QED BY <1>1, <1>5, <1>9
LEMMA MaxInRange ==
  ASSUME NEW S \in SUBSET Risk, S # {}
  PROVE  Max(S) \in Risk
<1> DEFINE T == {n \in Nat : 100 - n \in S}
<1>1. PICK y \in S : TRUE
  OBVIOUS
<1>2. y \in Int /\ 0 <= y /\ y <= 100
  BY DEF Risk
<1>3. 100 - y \in Nat /\ 100 - (100 - y) = y
  BY <1>2
<1>4. T # {}
  <2>1. 100 - y \in T
    BY <1>1, <1>3
  <2> QED BY <2>1
<1>5. PICK n \in T : \A m \in T : n <= m
  <2>1. T \in SUBSET Nat
    OBVIOUS
  <2> HIDE DEF T
  <2> QED BY <1>4, <2>1, LeastNatural
<1>6. n \in Nat /\ 100 - n \in S
  BY <1>5
<1>7. ASSUME NEW z \in S PROVE 100 - n >= z
  <2>1. z \in Int /\ 0 <= z /\ z <= 100
    BY DEF Risk
  <2>2. 100 - z \in Nat /\ 100 - (100 - z) = z
    BY <2>1
  <2>3. 100 - z \in T
    BY <1>7, <2>2
  <2>4. n <= 100 - z
    BY <1>5, <2>3
  <2> QED BY <1>6, <2>1, <2>4
<1>8. S \in SUBSET Int
  BY DEF Risk
<1>9. Max(S) = 100 - n
  <2> HIDE DEF T
  <2> QED BY <1>6, <1>7, <1>8, MaxIs
<1> QED BY <1>6, <1>9

\* One more round of the equations of propagation.
OneRound(b, last) ==
  [i \in Ids |-> Max({b[i]} \cup {Decayed(last[d]) : d \in Deps(i)})]

\* The rounds of Due as a sequence.
LEMMA DueComputed ==
  ASSUME graph.edges \subseteq Ids \X Ids, IsFiniteSet(Ids), NEW b \in [Ids -> Risk]
  PROVE  \E f \in [Nat -> [Ids -> Risk]] :
           /\ \A n \in Nat : f[n + 1] = OneRound(b, f[n])
           /\ Due(b) = f[Cardinality(Ids)]
<1> DEFINE Rec(g) == [k \in Nat |->
                        IF k = 0 THEN b
                        ELSE LET last == g[k - 1]
                             IN [i \in Ids |-> Max({b[i]} \cup
                                   {Decayed(last[d]) : d \in Deps(i)})]]
           after == CHOOSE g : g = Rec(g)
<1>1. Due(b) = after[Cardinality(Ids)]
  BY DEF Due
<1>2. PICK F : F = [last \in [Ids -> Risk] |-> OneRound(b, last)]
  OBVIOUS
<1>3. F \in [[Ids -> Risk] -> [Ids -> Risk]]
  <2>1. SUFFICES ASSUME NEW last \in [Ids -> Risk]
                 PROVE  OneRound(b, last) \in [Ids -> Risk]
    BY <1>2
  <2>2. SUFFICES ASSUME NEW i \in Ids
                 PROVE  Max({b[i]} \cup {Decayed(last[d]) : d \in Deps(i)}) \in Risk
    BY DEF OneRound
  <2>3. \A d \in Deps(i) : Decayed(last[d]) \in Risk
    <3>1. Deps(i) \subseteq Ids
      BY DEF Deps
    <3> QED BY <3>1, DecayedRange
  <2>4. ({b[i]} \cup {Decayed(last[d]) : d \in Deps(i)}) \in SUBSET Risk
    BY <2>3
  <2> QED BY <2>4, MaxInRange
<1>4. PICK f : Iteration(f, [Ids -> Risk], b, F)
  BY <1>3, Iterates
<1>5. /\ f \in [Nat -> [Ids -> Risk]] /\ f[0] = b
      /\ \A n \in Nat : f[n + 1] = OneRound(b, f[n])
  BY <1>2, <1>4 DEF Iteration
<1>6. f = Rec(f)
  <2>1. \A k \in Nat : f[k] = Rec(f)[k]
    <3>1. SUFFICES ASSUME NEW k \in Nat PROVE f[k] = Rec(f)[k]
      OBVIOUS
    <3>2. CASE k = 0
      BY <1>5, <3>2
    <3>3. CASE k # 0
      <4>1. k - 1 \in Nat /\ (k - 1) + 1 = k
        BY <3>3
      <4>2. f[k] = OneRound(b, f[k - 1])
        BY <1>5, <4>1
      <4> QED BY <3>3, <4>2 DEF OneRound
    <3> QED BY <3>2, <3>3
  <2>2. f = [k \in Nat |-> f[k]]
    BY <1>5
  <2> QED BY <2>1, <2>2
<1>7. after = Rec(after)
  <2> HIDE DEF Rec
  <2> QED BY <1>6, Zenon
<1>8. \A n \in Nat : after[n] = f[n]
  <2> DEFINE T == {n \in Nat : after[n] = f[n]}
  <2> HIDE DEF after
  <2>1. 0 \in T
    <3>1. after[0] = b
      BY <1>7
    <3> QED BY <1>5, <3>1
  <2>2. ASSUME NEW n \in T PROVE n + 1 \in T
    <3>1. n \in Nat /\ after[n] = f[n] /\ n + 1 \in Nat /\ n + 1 # 0
          /\ (n + 1) - 1 = n
      OBVIOUS
    <3>2. after[n + 1] = OneRound(b, after[n])
      <4>1. after[n + 1] = Rec(after)[n + 1]
        <5> HIDE DEF Rec
        <5> QED BY <1>7, Zenon
      <4>2. Rec(after)[n + 1] = OneRound(b, after[(n + 1) - 1])
        BY <3>1, Zenon DEF OneRound
      <4> QED BY <3>1, <4>1, <4>2
    <3> QED BY <1>5, <3>1, <3>2
  <2>3. T \in SUBSET Nat
    OBVIOUS
  <2>4. T = Nat
    <3> HIDE DEF T
    <3> QED BY <2>1, <2>2, <2>3, AllNaturals
  <2> QED BY <2>4
<1>9. Cardinality(Ids) \in Nat
  BY FS_CardinalityType
<1> QED BY <1>1, <1>5, <1>8, <1>9

\* A component that is no dependent of another has the same risk if the other is
\* fine: what is not reached does not depend on what is, and there the rounds
\* settle, lowest layer first, on the reported risks.
LEMMA OthersUnchanged ==
  ASSUME IInv, phase = "reported", IsFiniteSet(Ids), NEW a \in Ids,
         NEW i \in Ids, i # a, i \notin Dependents(a)
  PROVE  Due([Base EXCEPT ![a] = 0])[i] = eff[i]
<1> DEFINE G == Ids \ (Dependents(a) \cup {a})
<1>1. PICK b : b = [Base EXCEPT ![a] = 0]
  OBVIOUS
<1>2. graph.edges \subseteq Ids \X Ids /\ DOMAIN eff = Ids /\ Layered
  BY DEF IInv, TypeOK, Phases
<1>3. b \in [Ids -> Risk] /\ \A j \in G : b[j] = BaseRisk(j)
  BY <1>1, BaseRiskRange DEF Base, Risk
<1>4. \A j \in G : eff[j] = Max({BaseRisk(j)} \cup {Decayed(eff[d]) : d \in Deps(j)})
  <2>1. SUFFICES ASSUME NEW j \in Ids
                 PROVE  eff[j] = Max({BaseRisk(j)} \cup {Decayed(eff[d]) : d \in Deps(j)})
    OBVIOUS
  <2>2. Settled(BaseRisk(j), Deps(j), {}, eff[j], eff)
    BY <1>2 DEF IInv, MemoSettled
  <2>3. \A x \in DOMAIN eff : eff[x] \in Risk
    BY DEF IInv, TypeOK
  <2> QED BY <2>2, <2>3, BaseRiskRange, SettledIsDue
<1>5. \A j \in G : Deps(j) \subseteq G
  <2>1. SUFFICES ASSUME NEW j \in G, NEW d \in Deps(j) PROVE d \in G
    OBVIOUS
  <2>2. d \in Ids
    BY <1>2 DEF Deps
  <2>3. d \notin Dependents(a) \cup {a}
    BY <1>2, DependentsClosed
  <2> QED BY <2>2, <2>3
<1>6. PICK f \in [Nat -> [Ids -> Risk]] :
        /\ \A n \in Nat : f[n + 1] = OneRound(b, f[n])
        /\ Due(b) = f[Cardinality(Ids)]
  BY <1>2, <1>3, DueComputed
<1>7. PICK X : X = [k \in Nat |-> {j \in G : \A n \in Nat : k <= n => f[n][j] = eff[j]}]
  OBVIOUS
<1> HIDE DEF G
<1>8. X \in [Nat -> SUBSET G] /\ \A k \in Nat : X[k] \subseteq X[k + 1]
  BY <1>7
<1>9. ASSUME NEW k \in Nat, NEW j \in G, Deps(j) \subseteq X[k]
      PROVE  j \in X[k + 1]
  <2>1. SUFFICES ASSUME NEW n \in Nat, k + 1 <= n PROVE f[n][j] = eff[j]
    BY <1>7, <1>9
  <2>2. n - 1 \in Nat /\ k <= n - 1 /\ (n - 1) + 1 = n
    BY <2>1
  <2>3. \A d \in Deps(j) : f[n - 1][d] = eff[d]
    BY <1>7, <1>9, <2>2
  <2>4. j \in Ids
    BY DEF G
  <2>5. f[n] = OneRound(b, f[n - 1])
    BY <1>6, <2>2
  <2>6. f[n][j] = Max({b[j]} \cup {Decayed(f[n - 1][d]) : d \in Deps(j)})
    BY <2>4, <2>5 DEF OneRound
  <2>7. {Decayed(f[n - 1][d]) : d \in Deps(j)} = {Decayed(eff[d]) : d \in Deps(j)}
    BY <2>3
  <2> QED BY <1>3, <1>4, <2>6, <2>7
<1>10. ASSUME NEW k \in Nat, X[k + 1] = X[k] PROVE X[k] = G
  <2> DEFINE left == G \ X[k]
             layers == {Layer(j) : j \in left}
  <2>1. SUFFICES ASSUME left # {} PROVE FALSE
    BY <1>8
  <2>2. layers \in SUBSET Nat /\ layers # {}
    BY <2>1 DEF Layer
  <2>3. PICK l \in layers : \A m \in layers : l <= m
    <3> HIDE DEF layers
    <3> QED BY <2>2, LeastNatural
  <2>4. PICK j \in left : l = Layer(j)
    BY <2>3
  <2>5. ASSUME NEW d \in Deps(j) PROVE d \in X[k]
    <3>1. d \in G
      BY <1>5, <2>4
    <3>2. Layer(d) < Layer(j)
      BY <1>2, <2>5 DEF Layered, Deps
    <3>3. Layer(d) \in Nat /\ Layer(j) \in Nat
      BY DEF Layer
    <3>4. d \notin left
      <4>1. SUFFICES ASSUME d \in left PROVE FALSE
        OBVIOUS
      <4>2. Layer(d) \in layers
        BY <4>1
      <4>3. l <= Layer(d)
        <5> HIDE DEF layers
        <5> QED BY <2>3, <4>2
      <4> QED BY <2>4, <3>2, <3>3, <4>3
    <3> QED BY <3>1, <3>4
  <2>6. j \in X[k + 1]
    BY <1>9, <2>4, <2>5
  <2> QED BY <1>10, <2>4, <2>6
<1>11. G \in SUBSET Ids
  BY DEF G
<1>12. IsFiniteSet(G) /\ Cardinality(G) <= Cardinality(Ids)
       /\ Cardinality(G) \in Nat /\ Cardinality(Ids) \in Nat
  BY <1>11, FS_Subset, FS_CardinalityType
<1>13. PICK k \in 0 .. Cardinality(G) : X[k + 1] = X[k]
  BY <1>8, <1>12, GrowthStops
<1>14. k \in Nat /\ k <= Cardinality(Ids)
  BY <1>12
<1>15. i \in X[k]
  <2>1. i \in G
    BY DEF G
  <2> QED BY <1>10, <1>13, <1>14, <2>1
<1>16. f[Cardinality(Ids)][i] = eff[i]
  BY <1>7, <1>12, <1>14, <1>15
<1> QED BY <1>1, <1>6, <1>16
-----------------------------------------------------------------------------
(* The report (graph/atrisk.go and upgrade_impact).                        *)

\* The graph is that of a snapshot, and a report says what the graph, the risks
\* and the results say, which no longer change.
Reporting ==
  /\ snap \in Snapshots /\ IsFiniteSet(Ids)
  /\ \A i \in Ids : i.kind = "Addon" => i = Id("Addon", "", i.name)
  /\ \A n \in DOMAIN results : Id("Addon", "", n) \in Ids
  /\ phase = "reported" =>
       IF target = NoTarget THEN out.atRisk = AtRisk /\ DOMAIN out.impact = {}
       ELSE out.atRisk = {} /\ out.impact = UpgradeImpact
  /\ phase # "reported" => out.atRisk = {} /\ DOMAIN out.impact = {}

\* The search of Dependents in a given graph.
DependentsIn(g, id) ==
  LET dependents(i) == {e[1] : e \in {x \in g.edges : x[2] = i}}
      seen[k \in Nat] ==
        IF k = 0 THEN {id}
        ELSE LET last == seen[k - 1]
             IN last \cup UNION {dependents(i) : i \in last}
  IN seen[Cardinality(DOMAIN g.comp)] \ {id}

LEMMA DependentsUnchanged ==
  ASSUME graph' = graph, NEW id
  PROVE  Dependents(id)' = Dependents(id)
<1>1. Dependents(id) = DependentsIn(graph, id)
  BY DEF Dependents, DependentsIn, DirectDependents, Ids
<1>2. Dependents(id)' = DependentsIn(graph', id)
  BY DEF Dependents, DependentsIn, DirectDependents, Ids
<1> QED BY <1>1, <1>2

LEMMA ReportUnchanged ==
  ASSUME graph' = graph, results' = results, eff' = eff
  PROVE  AtRisk' = AtRisk /\ UpgradeImpact' = UpgradeImpact
<1>1. Ids' = Ids /\ Incompatible' = Incompatible
  BY DEF Ids, Incompatible
<1>2. \A id : Dependents(id)' = Dependents(id)
  BY DependentsUnchanged
<1>3. \A id : BaseRisk(id)' = BaseRisk(id) /\ Deps(id)' = Deps(id)
  BY DEF BaseRisk, Condition, Deps
<1>4. \A ids : Riskiest(ids)' = Riskiest(ids)
  BY DEF Riskiest
<1>5. \A id : AtRiskEntry(id)' = AtRiskEntry(id)
  BY <1>2, <1>3, <1>4 DEF AtRiskEntry
<1>6. AtRisk' = AtRisk
  BY <1>1, <1>5 DEF AtRisk
<1>7. UpgradeImpact' = UpgradeImpact
  BY <1>1, <1>2 DEF UpgradeImpact
<1> QED BY <1>6, <1>7

LEMMA IdOfComponent ==
  ASSUME NEW id, NEW ns, NEW status
  PROVE  Component(id, ns, status).id = id
BY DEF Component

LEMMA FieldsOfId ==
  ASSUME NEW kind, NEW ns, NEW name
  PROVE  Id(kind, ns, name).kind = kind /\ Id(kind, ns, name).name = name
BY DEF Id

\* The ids of the components of a snapshot.
LEMMA BuiltIds ==
  ASSUME NEW s \in Snapshots
  PROVE  /\ IsFiniteSet(DOMAIN BuildFromSnapshot(s).comp)
         /\ \A i \in DOMAIN BuildFromSnapshot(s).comp :
              i.kind = "Addon" => i = Id("Addon", "", i.name)
<1> DEFINE ids == {c.id : c \in Nodes(s)}
<1>1. DOMAIN BuildFromSnapshot(s).comp = ids
  BY DEF BuildFromSnapshot
<1>2. IsFiniteSet(ids)
  <2>1. IsFiniteSet(Nodes(s))
    BY FiniteAssumption
  <2>2. [c \in Nodes(s) |-> c.id] \in Surjection(Nodes(s), ids)
    BY DEF Surjection
  <2> HIDE DEF ids
  <2> QED BY <2>1, <2>2, FS_Surjection
<1>3. \A i \in ids : i.kind = "Addon" => i = Id("Addon", "", i.name)
  <2> HIDE DEF ids
  <2>1. SUFFICES ASSUME NEW c \in Nodes(s), NEW i, i = c.id, i.kind = "Addon"
                 PROVE  i = Id("Addon", "", i.name)
    BY DEF ids
  <2>2. CASE \E a \in s.addons : c = Component(Id("Addon", "", a.name), a.ns, "")
    <3>1. PICK ns, name : c = Component(Id("Addon", "", name), ns, "")
      BY <2>2
    <3>2. i = Id("Addon", "", name)
      BY <2>1, <3>1, IdOfComponent
    <3>3. \A k, e : Id(k, e, name).name = name
      BY DEF Id
    <3>4. i.name = name
      BY <3>2, <3>3
    <3> QED BY <3>2, <3>4
  <2>3. CASE \/ \E n \in s.nodes : c = Component(Id("Node", "", n.name), "", n.status)
             \/ \E w \in s.workloads : c = Namespaced("Deployment", w, w.status)
             \/ \E p \in s.barePods : c = Namespaced("Pod", p, p.status)
             \/ \E v \in s.services : c = Namespaced("Service", v, "")
             \/ \E g \in s.ingresses : c = Namespaced("Ingress", g, "")
             \/ \E p \in s.pvcs : c = Namespaced("PVC", p, PVCStatus(p))
             \/ \E w \in s.workloads : \E r \in w.refs :
                  c = Component(Id("ConfigMap", w.ns, r), w.ns, "")
    <3>1. \E kind \in {"Node", "Deployment", "Pod", "Service", "Ingress", "PVC", "ConfigMap"} :
            \E ns, name, space, status : c = Component(Id(kind, ns, name), space, status)
      BY <2>3, Zenon DEF Namespaced
    <3>2. PICK kind \in {"Node", "Deployment", "Pod", "Service", "Ingress", "PVC", "ConfigMap"} :
            \E ns, name, space, status : c = Component(Id(kind, ns, name), space, status)
      BY <3>1
    <3>3. PICK ns, name, space, status : c = Component(Id(kind, ns, name), space, status)
      BY <3>2
    <3>4. i.kind = kind
      BY <2>1, <3>3, IdOfComponent, FieldsOfId
    <3> QED BY <2>1, <3>2, <3>4
  <2> QED BY <2>2, <2>3 DEF Nodes
<1> QED BY <1>1, <1>2, <1>3

\* Every add-on that is judged has its node.
LEMMA BuiltAddons ==
  ASSUME NEW s \in Snapshots, NEW a \in s.addons
  PROVE  Id("Addon", "", a.name) \in DOMAIN BuildFromSnapshot(s).comp
<1>1. Component(Id("Addon", "", a.name), a.ns, "") \in Nodes(s)
  BY DEF Nodes
<1>2. Id("Addon", "", a.name) \in {c.id : c \in Nodes(s)}
  BY <1>1, IdOfComponent
<1> QED BY <1>2 DEF BuildFromSnapshot

LEMMA ReportingInvariance == Spec => []Reporting
<1>1. Init => Reporting
  <2>1. SUFFICES ASSUME Init PROVE Reporting
    OBVIOUS
  <2>2. phase = "collected" /\ graph = NoGraph /\ out = NoReport
      /\ snap \in Snapshots
    BY <2>1 DEF Init
  <2>3. Ids = {} /\ out.atRisk = {} /\ DOMAIN out.impact = {} /\ DOMAIN results = {}
    BY <2>1, <2>2 DEF Init, Ids, NoGraph, NoReport
  <2> QED BY <2>2, <2>3, FS_EmptySet DEF Reporting
<1>2. IInv /\ IInv' /\ Reporting /\ [Next]_vars => Reporting'
  <2>1. SUFFICES ASSUME IInv, IInv', Reporting, [Next]_vars PROVE Reporting'
    OBVIOUS
  <2>2. CASE EvaluateAndBuild
    <3>1. /\ phase = "collected" /\ phase' = "scoring" /\ out' = out
          /\ graph' = BuildFromSnapshot(snap) /\ snap' = snap
      BY <2>2 DEF EvaluateAndBuild
    <3>2. snap \in Snapshots /\ out.atRisk = {} /\ DOMAIN out.impact = {}
      BY <2>1, <3>1 DEF Reporting
    <3>3. IsFiniteSet(Ids') /\ \A i \in Ids' : i.kind = "Addon" => i = Id("Addon", "", i.name)
      BY <3>1, <3>2, BuiltIds DEF Ids
    <3>4. \A n \in DOMAIN results' : Id("Addon", "", n) \in Ids'
      <4>1. \A n \in DOMAIN results' : \E a \in snap.addons : n = a.name
        BY <2>2 DEF EvaluateAndBuild
      <4> QED BY <3>1, <3>2, <4>1, BuiltAddons DEF Ids
    <3> QED BY <3>1, <3>2, <3>3, <3>4 DEF Reporting
  <2>3. CASE Report
    <3>1. /\ phase' = "reported" /\ target' = target
          /\ graph' = graph /\ results' = results /\ eff' = eff /\ snap' = snap
      BY <2>3 DEF Report
    <3>2. IF target = NoTarget THEN out'.atRisk = AtRisk /\ DOMAIN out'.impact = {}
          ELSE out'.atRisk = {} /\ out'.impact = UpgradeImpact
      BY <2>3 DEF Report, MirrorReport, AnalysisReport, NoReport
    <3>3. Ids' = Ids /\ AtRisk' = AtRisk /\ UpgradeImpact' = UpgradeImpact
      BY <3>1, ReportUnchanged DEF Ids
    <3> QED BY <2>1, <3>1, <3>2, <3>3 DEF Reporting
  <2>4. CASE phase' = phase /\ phase # "reported" /\ graph' = graph /\ out' = out
              /\ snap' = snap /\ results' = results
    BY <2>1, <2>4 DEF Reporting, Ids
  <2>5. CASE UNCHANGED vars
    <3>1. /\ phase' = phase /\ graph' = graph /\ results' = results /\ eff' = eff
          /\ out' = out /\ snap' = snap /\ target' = target
      BY <2>5 DEF vars
    <3>2. Ids' = Ids /\ AtRisk' = AtRisk /\ UpgradeImpact' = UpgradeImpact
      BY <3>1, ReportUnchanged DEF Ids
    <3> QED BY <2>1, <3>1, <3>2 DEF Reporting
  <2>6. \/ EvaluateAndBuild \/ Report \/ UNCHANGED vars
        \/ \E id \in Ids : Compute(id) \/ Recurse(id) \/ InheritKnown(id)
        \/ Return
    BY <2>1 DEF Next
  <2>7. ASSUME \/ \E id \in Ids : Compute(id) \/ Recurse(id) \/ InheritKnown(id)
               \/ Return
        PROVE  Reporting'
    <3>1. phase' = phase /\ graph' = graph /\ out' = out /\ snap' = snap /\ results' = results
      BY <2>7 DEF Compute, Recurse, InheritKnown, Return, Running
    <3>2. phase = "scoring" \/ stack # <<>>
      BY <2>7 DEF Compute, Recurse, InheritKnown, Return
    <3>3. phase # "reported"
      BY <2>1, <3>2 DEF IInv, Phases
    <3> QED BY <2>4, <3>1, <3>3
  <2> QED BY <2>2, <2>3, <2>5, <2>6, <2>7
<1> QED BY <1>1, <1>2, InductiveInvariance, PTL DEF Spec

\* Of the components of a set, some are the riskiest.
LEMMA RiskiestExists ==
  ASSUME NEW S \in SUBSET Ids, S # {}, \A d \in S : eff[d] \in Risk
  PROVE  \E d \in S : d \in Riskiest(S)
<1> DEFINE T == {100 - eff[d] : d \in S}
<1>1. \A d \in S : 100 - eff[d] \in Nat
  BY DEF Risk
<1>2. T \in SUBSET Nat /\ T # {}
  BY <1>1
<1>3. PICK x \in T : \A y \in T : x <= y
  BY <1>2, LeastNatural
<1>4. PICK d \in S : x = 100 - eff[d]
  BY <1>3
<1>5. ASSUME NEW e \in S PROVE eff[d] >= eff[e]
  <2>1. 100 - eff[d] <= 100 - eff[e]
    BY <1>3, <1>4
  <2>2. eff[d] \in Int /\ eff[e] \in Int
    BY DEF Risk
  <2> QED BY <2>1, <2>2
<1> QED BY <1>4, <1>5 DEF Riskiest

\* What puts another component at risk is a blocker, at risk on its own account,
\* and the search of its dependents finds the component.
LEMMA PutAtRisk ==
  ASSUME IInv, Reporting, BlockersAloneSpread, phase = "reported", NEW i \in Ids,
         BaseRisk(i) < eff[i], eff[i] >= AtRiskThreshold, NEW d \in Riskiest(Deps(i))
  PROVE  /\ d \in Ids /\ d \in Deps(i) /\ d \in Blockers
         /\ eff[d] >= AtRiskThreshold /\ ~(BaseRisk(d) < eff[d])
         /\ i \in Dependents(d)
<1>1. /\ IsFiniteSet(Ids) /\ graph.edges \subseteq Ids \X Ids /\ Layered
      /\ DOMAIN eff = Ids /\ \A j \in Ids : eff[j] \in Risk
  BY DEF Reporting, IInv, TypeOK, Phases
<1>2. d \in Deps(i) /\ d \in Blockers /\ eff[d] = BaseRisk(d)
  BY DEF BlockersAloneSpread, Riskiest
<1>3. PICK x \in Deps(i) : eff[i] = Decayed(eff[x])
  BY DEF BlockersAloneSpread
<1>4. d \in Ids /\ x \in Ids /\ eff[d] >= eff[x]
  BY <1>1, <1>2 DEF Deps, Riskiest
<1>5. eff[d] \in Risk /\ eff[x] \in Risk
  BY <1>1, <1>4
<1>6. eff[d] >= AtRiskThreshold
  BY <1>3, <1>4, <1>5 DEF Risk, Decayed, AtRiskThreshold
<1>7. ~(BaseRisk(d) < eff[d])
  BY <1>2, <1>5 DEF Risk
<1>8. i # d
  <2>1. Layer(d) < Layer(i)
    BY <1>1, <1>2 DEF Layered, Deps
  <2>2. Layer(d) \in Nat /\ Layer(i) \in Nat
    BY DEF Layer
  <2> QED BY <2>1, <2>2
<1>9. i \in Dependents(d)
  BY <1>1, <1>2, <1>4, <1>8, DependentsClosed
<1> QED BY <1>2, <1>4, <1>6, <1>7, <1>9

\* The risk a component is said to inherit comes from a blocker of the decision:
\* in the mirror one that is listed, at risk on its own account, with the component
\* among its dependents (Graph.AtRisk); in an analysis an add-on that is said to
\* affect the component (upgradeImpact), or a volume that is Lost; for every
\* snapshot and matrix.
THEOREM InheritanceExplained == Spec => []InheritedRiskIsExplained
<1>1. ASSUME IInv, Reporting, BlockersAloneSpread,
             NEW r \in out.atRisk, NEW d \in r.from
      PROVE  /\ d \in Blockers
             /\ d \in Listed /\ Entry(d).from = {}
             /\ r.id \in Entry(d).dependents
  <2>2. phase = "reported" /\ out.atRisk = AtRisk
    BY <1>1 DEF Reporting
  <2>3. PICK i \in Ids : eff[i] >= AtRiskThreshold /\ r = AtRiskEntry(i)
    BY <1>1, <2>2 DEF AtRisk
  <2>4. r.id = i /\ BaseRisk(i) < eff[i] /\ d \in Riskiest(Deps(i))
    BY <1>1, <2>3 DEF AtRiskEntry
  <2>5. /\ d \in Ids /\ d \in Blockers /\ eff[d] >= AtRiskThreshold
        /\ ~(BaseRisk(d) < eff[d]) /\ i \in Dependents(d)
    BY <1>1, <2>2, <2>3, <2>4, PutAtRisk
  <2>6. AtRiskEntry(d) \in out.atRisk /\ AtRiskEntry(d).id = d
    BY <2>2, <2>5 DEF AtRisk, AtRiskEntry
  <2>7. Entry(d) = AtRiskEntry(d)
    <3>1. \A e \in out.atRisk : e.id = d => e = AtRiskEntry(d)
      BY <2>2 DEF AtRisk, AtRiskEntry
    <3> QED BY <2>6, <3>1 DEF Entry
  <2>8. Entry(d).from = {} /\ Entry(d).dependents = Dependents(d)
    BY <2>5, <2>7 DEF AtRiskEntry
  <2> QED BY <2>4, <2>5, <2>6, <2>8 DEF Listed
<1>2. ASSUME IInv, Reporting, BlockersAloneSpread, phase = "reported", target # NoTarget,
             NEW i \in Ids, BaseRisk(i) < eff[i], eff[i] >= AtRiskThreshold
      PROVE  \E d \in Deps(i) \cap Blockers : d.kind = "Addon" => i \in out.impact[d.name]
  <2>1. /\ IsFiniteSet(Ids) /\ graph.edges \subseteq Ids \X Ids
        /\ \A j \in Ids : eff[j] \in Risk
    BY <1>2 DEF Reporting, IInv, TypeOK, Phases
  <2>2. \E d \in Deps(i) : d \in Riskiest(Deps(i))
    <3>1. Deps(i) # {} /\ Deps(i) \subseteq Ids
      BY <1>2, <2>1 DEF BlockersAloneSpread, Deps
    <3>2. \A d \in Deps(i) : eff[d] \in Risk
      BY <2>1, <3>1
    <3> QED BY <3>1, <3>2, RiskiestExists
  <2>3. PICK d \in Riskiest(Deps(i)) : d \in Deps(i)
    BY <2>2
  <2>4. d \in Ids /\ d \in Blockers /\ i \in Dependents(d)
    BY <1>2, <2>3, PutAtRisk
  <2>5. ASSUME d.kind = "Addon" PROVE i \in out.impact[d.name]
    <3>1. d.name \in Incompatible
      BY <2>4, <2>5 DEF Blockers
    <3>2. d = Id("Addon", "", d.name)
      BY <1>2, <2>4, <2>5 DEF Reporting
    <3>3. out.impact[d.name] = Dependents(d)
      BY <1>2, <3>1, <3>2 DEF Reporting, UpgradeImpact
    <3> QED BY <2>4, <3>3
  <2> QED BY <2>3, <2>4, <2>5
<1>3. IInv /\ Reporting /\ BlockersAloneSpread => InheritedRiskIsExplained
  BY <1>1, <1>2 DEF InheritedRiskIsExplained
<1>4. Spec => []BlockersAloneSpread
  BY OnlyBlockersSpread
<1> QED BY <1>3, <1>4, InductiveInvariance, ReportingInvariance, PTL

\* Whatever would be less at risk if a reported component, or an incompatible
\* add-on, were fine is among its dependents, over any number of edges: Dependents
\* of graph/impact.go, as the mirror and as the analysis use it.
THEOREM ImpactIsCovered == Spec => []DependentsCoverImpact
<1>1. ASSUME IInv, Reporting, phase = "reported", NEW a \in Ids
      PROVE  LessAtRiskWithout(a) \subseteq Dependents(a)
  <2>1. \A i \in Ids : i # a /\ i \notin Dependents(a)
          => Due([Base EXCEPT ![a] = 0])[i] = eff[i]
    BY <1>1, OthersUnchanged DEF Reporting
  <2> QED BY <2>1 DEF LessAtRiskWithout
<1>2. ASSUME IInv, Reporting, NEW r \in out.atRisk
      PROVE  LessAtRiskWithout(r.id) \subseteq r.dependents
  <2>1. phase = "reported" /\ out.atRisk = AtRisk
    BY <1>2 DEF Reporting
  <2>2. PICK a \in Ids : r = AtRiskEntry(a)
    BY <1>2, <2>1 DEF AtRisk
  <2>3. r.id = a /\ r.dependents = Dependents(a)
    BY <2>2 DEF AtRiskEntry
  <2> QED BY <1>1, <1>2, <2>1, <2>3
<1>3. ASSUME IInv, Reporting, NEW n \in DOMAIN out.impact
      PROVE  LessAtRiskWithout(Id("Addon", "", n)) \subseteq out.impact[n]
  <2>1. phase = "reported" /\ out.impact = UpgradeImpact
    BY <1>3 DEF Reporting
  <2>2. n \in DOMAIN results /\ out.impact[n] = Dependents(Id("Addon", "", n))
    BY <1>3, <2>1 DEF UpgradeImpact, Incompatible
  <2>3. Id("Addon", "", n) \in Ids
    BY <1>3, <2>2 DEF Reporting
  <2> QED BY <1>1, <1>3, <2>1, <2>2, <2>3
<1>4. IInv /\ Reporting => DependentsCoverImpact
  BY <1>2, <1>3 DEF DependentsCoverImpact
<1> QED BY <1>4, InductiveInvariance, ReportingInvariance, PTL
=============================================================================
