----------------------- MODULE ActionExecutionProofs -----------------------
(***************************************************************************)
(* The safety properties of ActionExecution, proved for any objects, any   *)
(* plans and any bounds.                                                   *)
(***************************************************************************)
EXTENDS ActionExecution, FiniteSetTheorems, TLAPS

Outcomes == {"success", "failed", "skipped"}
Effects == [uid : {1}, id : Nat, action : Action]

\* Every variable keeps its type.
TypeOK ==
  /\ plan \in Plans
  /\ DOMAIN store = Objects /\ DOMAIN cache = Objects
  /\ \A o \in Objects : /\ store[o] \in StateOf(o) \cup {Gone}
                        /\ cache[o] \in StateOf(o) \cup {Gone}
  /\ running \in [Pods -> SUBSET Nat]
  /\ pc \in {"next", "write", "finished", "crashed"}
  /\ current \in Nat
  /\ results \in Seq(Outcomes)
  /\ spent \in [edits : Nat, faults : Nat, crashes : Nat, pods : [Pods -> Nat]]
  /\ effects \in Seq(Effects)
  /\ lost \subseteq Nat

\* Between its Get and its write, an action is one that is to be done, of a
\* target that was there when it was read.
ReadBeforeWrite ==
  pc = "write" =>
    /\ current \in DOMAIN plan /\ ~TheAction.skip
    /\ TheAction.type \in ActionTypes
    /\ Target(TheAction) \in Objects
    /\ copy \in StateOf(Target(TheAction))

\* A copy is never newer than what is stored, and is what is stored if it has
\* its version.
UpToDate(stored, obj) ==
  Exists(stored) /\ Exists(obj) =>
    /\ obj.rv <= stored.rv
    /\ obj.rv = stored.rv => obj = stored
CopiesCurrent ==
  \A o \in Objects \ Pods :
    /\ UpToDate(store[o], cache[o])
    /\ pc = "write" /\ o = Target(TheAction) => UpToDate(store[o], copy)

\* What was written belongs to an action of the plan that is not skipped, and
\* only what was dealt with can have lost its reply.
EffectsOfPlan ==
  /\ \A k \in DOMAIN effects :
       /\ effects[k].id \in DOMAIN plan
       /\ effects[k].action = plan[effects[k].id] /\ ~effects[k].action.skip
  /\ \A i \in lost : i < current

\* Unless the plan has removed it, nothing runs under the name of a pod but
\* the one that is stored.
OnlyStoredRuns(o) ==
  running[o] \subseteq (IF Exists(store[o]) THEN {store[o].uid} ELSE {})
StoredRuns == \A o \in Pods : ForceDeleted(o) \/ OnlyStoredRuns(o)

\* The strengthening under which the properties are inductive.
IInv ==
  /\ TypeOK /\ ReadBeforeWrite /\ CopiesCurrent
  /\ ResultsMatchEffects /\ EffectsOfPlan /\ StoredRuns

-----------------------------------------------------------------------------
(* One action.                                                             *)

\* The plan is a list of actions.
LEMMA PlanIsList ==
  ASSUME TypeOK
  PROVE  /\ plan \in Seq(Action) /\ Len(plan) \in Nat
         /\ DOMAIN plan = 1 .. Len(plan)
         /\ \A i \in DOMAIN plan : plan[i] \in Action
<1>1. plan \in Seq(Action)
  BY InputsAssumption DEF TypeOK
<1> QED BY <1>1

\* What the write of an action does, if the API server accepts it: it concerns
\* the target alone, and that as it was read, or as a pod of its name.
Written(o) ==
  /\ Exists(store[o])
  /\ o \in Pods => store'[o] \in {Gone, [store[o] EXCEPT !.terminating = TRUE]}
  /\ o \notin Pods =>
       /\ store[o].rv = copy.rv
       /\ store'[o] \in {store[o], [copy EXCEPT !.field = WantedField(TheAction),
                                              !.rv = store[o].rv + 1]}

LEMMA TargetKind ==
  ASSUME TypeOK, ReadBeforeWrite, pc = "write"
  PROVE  /\ TheAction \in Action
         /\ Target(TheAction) \in Objects
         /\ Target(TheAction) \in Pods <=> TheAction.type \in {"restart-pod", "delete-pod"}
         /\ Target(TheAction)[1] = "Node" <=> TheAction.type = "cordon-node"
         /\ TheAction.type \in ActionTypes
<1>1. TheAction \in Action
  BY PlanIsList DEF TheAction, ReadBeforeWrite
<1>2. Target(TheAction)[1] = KindFor(TheAction.type)
  BY DEF Target
<1>3. TheAction.type \in ActionTypes /\ Target(TheAction) \in Objects
  BY DEF ReadBeforeWrite
<1> QED BY <1>1, <1>2, <1>3 DEF KindFor, ActionTypes, Pods

LEMMA ApplyWrites ==
  ASSUME TypeOK, ReadBeforeWrite, pc = "write",
         Accepts(TheAction), Apply(TheAction)
  PROVE  /\ DOMAIN store' = Objects
         /\ \A o \in Objects \ {Target(TheAction)} : store'[o] = store[o]
         /\ Written(Target(TheAction))
         /\ TheAction.type = "delete-pod" \/ (Target(TheAction) \in Pods =>
               store'[Target(TheAction)] # Gone)
         /\ effects' = Append(effects, [uid |-> 1, id |-> current, action |-> TheAction])

<1> DEFINE t == Target(TheAction)
<1>1. t \in Objects
  BY TargetKind
<1>2. CASE TheAction.type = "restart-pod"
  <2>1. Exists(store[t]) /\ t \in Pods
    BY <1>2, TargetKind DEF Accepts, KindFor
  <2>2. store' = [store EXCEPT ![t] = [store[t] EXCEPT !.terminating = TRUE]]
    BY <1>2 DEF Apply, RestartPod, Put
  <2>3. [store[t] EXCEPT !.terminating = TRUE] # Gone
    BY <1>1, <2>1, InputsAssumption DEF TypeOK, StateOf, Exists
  <2> QED BY <1>1, <1>2, <2>1, <2>2, <2>3 DEF Apply, Written, TypeOK
<1>3. CASE TheAction.type = "delete-pod"
  <2>1. Exists(store[t]) /\ t \in Pods
    BY <1>3, TargetKind DEF Accepts, KindFor
  <2>2. store' = [store EXCEPT ![t] = Gone]
    BY <1>3 DEF Apply, DeletePod, Put
  <2> QED BY <1>1, <1>3, <2>1, <2>2 DEF Apply, Written, TypeOK
<1>4. CASE TheAction.type \in {"scale-deployment", "cordon-node"}
  <2> DEFINE new == [copy EXCEPT !.field = WantedField(TheAction)]
  <2>1. t \notin Pods
    BY <1>4, TargetKind
  <2>2. Exists(store[t]) /\ store[t].rv = copy.rv
    BY <1>4 DEF Accepts, Current, KindFor
  <2>3. Update(t, new)
    BY <1>4 DEF Apply
  <2>4. \/ store' = store
        \/ store' = [store EXCEPT ![t] = [new EXCEPT !.rv = store[t].rv + 1]]
    BY <2>3 DEF Update, Put
  <2>5. store'[t] \in {store[t], [new EXCEPT !.rv = store[t].rv + 1]}
    BY <1>1, <2>4 DEF TypeOK
  <2>6. Written(t)
    BY <2>1, <2>2, <2>5 DEF Written
  <2> QED BY <1>1, <2>1, <2>4, <2>6 DEF Apply, TypeOK
<1>5. TheAction.type \in ActionTypes
  BY TargetKind
<1> QED BY <1>2, <1>3, <1>4, <1>5 DEF ActionTypes

\* An object with another field, version or rest.
LEMMA ChangedObject ==
  ASSUME NEW F, NEW obj \in [rv : Nat, field : F, rest : Nat],
         NEW f \in F, NEW r \in Nat, NEW n \in Nat
  PROVE  /\ [obj EXCEPT !.field = f, !.rv = r] \in [rv : Nat, field : F, rest : Nat]
         /\ [obj EXCEPT !.rest = n, !.rv = r] \in [rv : Nat, field : F, rest : Nat]
         /\ [obj EXCEPT !.field = f, !.rv = r].rv = r
         /\ [obj EXCEPT !.rest = n, !.rv = r].rv = r
OBVIOUS

\* What the write leaves has the type of its target.
LEMMA WrittenIsTyped ==
  ASSUME TypeOK, ReadBeforeWrite, pc = "write", Written(Target(TheAction))
  PROVE  store'[Target(TheAction)] \in StateOf(Target(TheAction)) \cup {Gone}
<1> DEFINE t == Target(TheAction)
<1>1. t \in Objects /\ copy \in StateOf(t) /\ store[t] \in StateOf(t)
  BY TargetKind DEF ReadBeforeWrite, TypeOK, Written, Exists
<1>2. CASE t \in Pods
  BY <1>1, <1>2 DEF Written, StateOf
<1>3. CASE t \notin Pods
  <2> DEFINE field == WantedField(TheAction)
  <2>1. field \in FieldOf(t)
    <3>1. TheAction.replicas \in Int
      BY TargetKind DEF Action
    <3>2. CASE TheAction.type = "cordon-node"
      BY <3>2, TargetKind DEF WantedField, FieldOf
    <3>3. CASE TheAction.type # "cordon-node"
      BY <3>1, <3>3, TargetKind DEF WantedField, FieldOf
    <3> QED BY <3>2, <3>3
  <2>2. copy \in [rv : Nat, field : FieldOf(t), rest : Nat] /\ store[t].rv \in Nat
    BY <1>1, <1>3 DEF StateOf
  <2>3. [copy EXCEPT !.field = field, !.rv = store[t].rv + 1]
          \in [rv : Nat, field : FieldOf(t), rest : Nat]
    <3> DEFINE r == store[t].rv + 1
               F == FieldOf(t)
    <3>1. r \in Nat /\ field \in F /\ copy \in [rv : Nat, field : F, rest : Nat]
      BY <2>1, <2>2
    <3> HIDE DEF field, r, F
    <3>2. [copy EXCEPT !.field = field, !.rv = r] \in [rv : Nat, field : F, rest : Nat]
      BY <3>1, ChangedObject
    <3> QED BY <3>2 DEF r, F
  <2>4. [copy EXCEPT !.field = field, !.rv = store[t].rv + 1] \in StateOf(t)
    BY <1>3, <2>3 DEF StateOf
  <2> QED BY <1>1, <1>3, <2>4 DEF Written
<1> QED BY <1>2, <1>3

-----------------------------------------------------------------------------
(* Types.                                                                  *)

\* The steps that write: the reply arrives, or is lost.
Writes ==
  /\ pc = "write" /\ Accepts(TheAction) /\ Apply(TheAction)
  /\ \/ Record("success") /\ lost' = lost
     \/ Record("failed") /\ lost' = lost \cup {current}
  /\ spent' \in {spent, [spent EXCEPT !.faults = @ + 1]}
  /\ UNCHANGED <<plan, cache, running>>

\* The steps of the executor that change nothing but its own variables.
Moves ==
  /\ \/ \E outcome \in {"failed", "skipped"} :
          /\ pc \in {"next", "write"}
          /\ current \in DOMAIN plan
          /\ outcome = "skipped" <=> TheAction.skip
          /\ Record(outcome)
     \/ GetTarget /\ pc' = "write"
     \/ /\ pc' \in {"finished", "crashed"}
        /\ UNCHANGED <<current, copy, results>>
  /\ spent' \in {spent, [spent EXCEPT !.faults = @ + 1], [spent EXCEPT !.crashes = @ + 1]}
  /\ UNCHANGED <<plan, store, cache, running, effects, lost>>

\* The executor does nothing else.
LEMMA ExecutorSteps ==
  ASSUME TypeOK, ReadBeforeWrite, current >= 1, Executor
  PROVE  Writes \/ Moves
<1>1. CASE SkipAction
  BY <1>1, PlanIsList DEF SkipAction, Moves, TypeOK
<1>2. CASE GetTarget
  <2>1. CASE CanGet(TheAction)
    BY <1>2, <2>1 DEF GetTarget, Moves
  <2>2. CASE ~CanGet(TheAction)
    BY <1>2, <2>2, PlanIsList DEF GetTarget, Moves, TypeOK
  <2> QED BY <2>1, <2>2
<1>3. CASE WriteAccepted
  BY <1>3 DEF WriteAccepted, Writes
<1>4. CASE WriteRejected \/ WriteUnreachable
  BY <1>4 DEF WriteRejected, WriteUnreachable, UseFault, Moves, ReadBeforeWrite
<1>5. CASE ReplyLost
  BY <1>5 DEF ReplyLost, UseFault, Writes
<1>6. CASE Finish \/ Crash
  BY <1>6 DEF Finish, Crash, Moves
<1> QED BY <1>1, <1>2, <1>3, <1>4, <1>5, <1>6 DEF Executor

\* What a step of the rest of the cluster does to an object: an informer delivers
\* it, it is replaced by another state of its, or containers of it end.
Delivers(o) ==
  cache' = [cache EXCEPT ![o] = store[o]] /\ UNCHANGED <<store, running, spent>>
Replaces(o) ==
  /\ \E obj \in StateOf(o) \cup {Gone} :
       /\ store' = [store EXCEPT ![o] = obj]
       /\ o \notin Pods => /\ Exists(store[o])
                           /\ obj # Gone => obj.rv = store[o].rv + 1
  /\ UNCHANGED cache
Ends(o) ==
  o \in Pods /\ UNCHANGED <<store, cache, spent>>
Runs(o) ==
  /\ running' \in [Pods -> SUBSET Nat]
  /\ \A p \in Pods \ {o} : running'[p] = running[p]
  /\ o \in Pods /\ OnlyStoredRuns(o) => OnlyStoredRuns(o)'

\* The rest of the cluster does nothing else.
LEMMA WorldSteps ==
  ASSUME TypeOK, World
  PROVE  /\ \E o \in Objects : (Delivers(o) \/ Replaces(o) \/ Ends(o)) /\ Runs(o)
         /\ spent' \in [edits : Nat, faults : Nat, crashes : Nat, pods : [Pods -> Nat]]
         /\ UNCHANGED <<plan, executor, effects, lost>>
<1> SUFFICES ASSUME NEW o \in Objects,
                    \/ Deliver(o) \/ EditObject(o)
                    \/ o \in Pods /\ (\/ OthersDeletePod(o) \/ KubeletRemoves(o)
                                    \/ KubeletCleansUp(o) \/ Recreate(o))
             PROVE  /\ (Delivers(o) \/ Replaces(o) \/ Ends(o)) /\ Runs(o)
                    /\ spent' \in [edits : Nat, faults : Nat, crashes : Nat, pods : [Pods -> Nat]]
                    /\ UNCHANGED <<plan, executor, effects, lost>>
  BY DEF World, Pods
<1>0. store[o] \in StateOf(o) \cup {Gone} /\ DOMAIN store = Objects
  BY DEF TypeOK
<1>7. spent \in [edits : Nat, faults : Nat, crashes : Nat, pods : [Pods -> Nat]]
  BY DEF TypeOK
<1>1. CASE Deliver(o)
  BY <1>1 DEF Deliver, Elsewhere, Delivers, Runs, OnlyStoredRuns, TypeOK
<1>2. CASE EditObject(o)
  <2>1. /\ o \notin Pods /\ Exists(store[o]) /\ running' = running /\ cache' = cache
        /\ spent' = [spent EXCEPT !.edits = @ + 1]
        /\ UNCHANGED <<plan, executor, effects, lost>>
    BY <1>2 DEF EditObject, UseEdit, Elsewhere
  <2>2. Replaces(o)
    <3>1. store[o] \in [rv : Nat, field : FieldOf(o), rest : Nat]
      BY <1>0, <2>1 DEF StateOf, Exists
    <3> DEFINE r == store[o].rv + 1
               n == store[o].rest + 1
               Changed(obj) == store' = [store EXCEPT ![o] = obj]
    <3>a. r \in Nat /\ n \in Nat
      BY <3>1
    <3>2. CASE \E f \in (IF o[1] = "Node" THEN BOOLEAN ELSE {0, 2}) \ {store[o].field} :
                 Update(o, [store[o] EXCEPT !.field = f])
      <4>1. PICK f \in FieldOf(o) \ {store[o].field} :
                   Update(o, [store[o] EXCEPT !.field = f])
        BY <3>2 DEF FieldOf
      <4> DEFINE obj == [store[o] EXCEPT !.field = f, !.rv = r]
      <4>2. [[store[o] EXCEPT !.field = f] EXCEPT !.rv = store[o].rv].field # store[o].field
        BY <3>1, <4>1
      <4>3. Changed(obj)
        BY <3>1, <4>1, <4>2 DEF Update, Put
      <4>4. obj \in StateOf(o) /\ obj.rv = r
        <5> HIDE DEF r
        <5> QED BY <2>1, <3>1, <3>a, <4>1, ChangedObject DEF StateOf
      <4> HIDE DEF obj
      <4> QED BY <2>1, <4>3, <4>4 DEF Replaces
    <3>3. CASE Update(o, [store[o] EXCEPT !.rest = @ + 1])
      <4> DEFINE obj == [store[o] EXCEPT !.rest = n, !.rv = r]
      <4>1. [[store[o] EXCEPT !.rest = n] EXCEPT !.rv = store[o].rv].rest # store[o].rest
        BY <3>1
      <4>2. Update(o, [store[o] EXCEPT !.rest = n])
        BY <3>3
      <4>3. Changed(obj)
        BY <3>1, <4>1, <4>2 DEF Update, Put
      <4>4. obj \in StateOf(o) /\ obj.rv = r
        <5>1. store[o].field \in FieldOf(o)
          BY <3>1
        <5> HIDE DEF r, n
        <5> QED BY <2>1, <3>1, <3>a, <5>1, ChangedObject DEF StateOf
      <4> HIDE DEF obj
      <4> QED BY <2>1, <4>3, <4>4 DEF Replaces
    <3>4. CASE Put(o, Gone)
      BY <2>1, <3>4 DEF Replaces, Put
    <3> QED BY <1>2, <3>2, <3>3, <3>4 DEF EditObject
  <2>3. Runs(o)
    BY <2>1 DEF Runs, TypeOK
  <2> QED BY <2>1, <2>2, <2>3, <1>7
<1>3. ASSUME o \in Pods, OthersDeletePod(o)
      PROVE  /\ Replaces(o) /\ Runs(o)
             /\ spent' = [spent EXCEPT !.edits = @ + 1]
             /\ UNCHANGED <<plan, executor, effects, lost>>
  <2>1. store[o] \in [uid : Nat, terminating : BOOLEAN] /\ Exists(store[o])
    BY <1>0, <1>3 DEF StateOf, Exists, OthersDeletePod
  <2>2. store' = [store EXCEPT ![o] = [store[o] EXCEPT !.terminating = TRUE]]
    BY <1>3 DEF OthersDeletePod, Put
  <2>3. /\ [store[o] EXCEPT !.terminating = TRUE] \in StateOf(o)
        /\ store'[o].uid = store[o].uid /\ Exists(store'[o])
    BY <1>0, <1>3, <2>1, <2>2, InputsAssumption DEF StateOf, Exists
  <2> QED BY <1>3, <2>1, <2>2, <2>3
          DEF OthersDeletePod, UseEdit, Elsewhere, Replaces, Runs, OnlyStoredRuns, TypeOK
<1>4. ASSUME o \in Pods, KubeletRemoves(o)
      PROVE  /\ Replaces(o) /\ Runs(o) /\ spent' = spent
             /\ UNCHANGED <<plan, executor, effects, lost>>
  <2>1. /\ store' = [store EXCEPT ![o] = Gone] /\ Exists(store[o])
        /\ running' = [running EXCEPT ![o] = @ \ {store[o].uid}]
    BY <1>4 DEF KubeletRemoves, Put
  <2>2. store'[o] = Gone /\ running'[o] = running[o] \ {store[o].uid}
    BY <1>0, <1>4, <2>1 DEF TypeOK
  <2>3. OnlyStoredRuns(o) => OnlyStoredRuns(o)'
    BY <2>1, <2>2 DEF OnlyStoredRuns, Exists
  <2>4. Runs(o)
    BY <1>4, <2>1, <2>3 DEF Runs, TypeOK
  <2> QED BY <1>4, <2>1, <2>4 DEF KubeletRemoves, Elsewhere, Replaces
<1>5. ASSUME o \in Pods, KubeletCleansUp(o)
      PROVE  /\ Ends(o) /\ Runs(o) /\ spent' = spent
             /\ UNCHANGED <<plan, executor, effects, lost>>
  <2>1. PICK uid \in running[o] : running' = [running EXCEPT ![o] = @ \ {uid}]
    BY <1>5 DEF KubeletCleansUp
  <2>2. running'[o] \subseteq running[o] /\ store' = store
    BY <1>5, <2>1 DEF TypeOK, KubeletCleansUp
  <2>3. Runs(o)
    BY <1>5, <2>1, <2>2 DEF Runs, OnlyStoredRuns, TypeOK
  <2> QED BY <1>5, <2>3 DEF KubeletCleansUp, Elsewhere, Ends
<1>6. ASSUME o \in Pods, Recreate(o)
      PROVE  /\ Replaces(o) /\ Runs(o)
             /\ spent' = [spent EXCEPT !.pods[o] = @ + 1]
             /\ UNCHANGED <<plan, executor, effects, lost>>
  <2> DEFINE uid == spent'.pods[o]
             pod == [uid |-> uid, terminating |-> FALSE]
  <2>1. /\ spent' = [spent EXCEPT !.pods[o] = @ + 1]
        /\ store' = [store EXCEPT ![o] = pod] /\ ~Exists(store[o])
        /\ running' = [running EXCEPT ![o] = @ \cup {uid}]
    BY <1>6 DEF Recreate, Put
  <2>2. uid \in Nat
    BY <1>6, <2>1 DEF TypeOK
  <2>3. pod \in StateOf(o) /\ pod # Gone /\ pod.uid = uid
    <3>1. pod \in StateOf(o)
      BY <1>6, <2>2 DEF StateOf
    <3> QED BY <3>1, InputsAssumption
  <2>4. store'[o] = pod /\ running'[o] = running[o] \cup {uid}
    BY <1>0, <1>6, <2>1 DEF TypeOK
  <2>5. OnlyStoredRuns(o) => OnlyStoredRuns(o)'
    <3> HIDE DEF pod, uid
    <3> QED BY <2>1, <2>3, <2>4 DEF OnlyStoredRuns, Exists
  <2>6. Runs(o)
    BY <1>6, <2>1, <2>2, <2>5 DEF Runs, TypeOK
  <2> QED BY <1>6, <2>1, <2>3, <2>6 DEF Recreate, Elsewhere, Replaces
<1>8. ASSUME o \in Pods, spent' = [spent EXCEPT !.pods[o] = @ + 1]
      PROVE  spent' \in [edits : Nat, faults : Nat, crashes : Nat, pods : [Pods -> Nat]]
  BY <1>7, <1>8
<1> QED BY <1>1, <1>2, <1>3, <1>4, <1>5, <1>6, <1>7, <1>8

-----------------------------------------------------------------------------
(* The invariant holds at first, and every step preserves it.              *)

\* A step is one of the executor, or of the rest of the cluster.
LEMMA Steps ==
  ASSUME TypeOK, ReadBeforeWrite, ResultsMatchEffects, [Next]_vars
  PROVE  Writes \/ Moves \/ World \/ UNCHANGED vars
<1>1. current >= 1
  BY DEF ResultsMatchEffects, TypeOK
<1> QED BY <1>1, ExecutorSteps DEF Next

\* A list with one element more.
LEMMA Appended ==
  ASSUME NEW S, NEW s \in Seq(S), NEW e \in S
  PROVE  /\ Append(s, e) \in Seq(S)
         /\ Len(Append(s, e)) = Len(s) + 1
         /\ DOMAIN Append(s, e) = DOMAIN s \cup {Len(s) + 1}
         /\ Append(s, e)[Len(s) + 1] = e
         /\ \A i \in DOMAIN s : Append(s, e)[i] = s[i]
         /\ Len(s) \in Nat /\ DOMAIN s = 1 .. Len(s)
OBVIOUS

\* What is spent of the bounds stays a record of numbers.
Spent == [edits : Nat, faults : Nat, crashes : Nat, pods : [Pods -> Nat]]
LEMMA SpentMore ==
  ASSUME spent \in Spent
  PROVE  /\ [spent EXCEPT !.faults = @ + 1] \in Spent
         /\ [spent EXCEPT !.crashes = @ + 1] \in Spent
BY DEF Spent

\* The executor's own variables keep their types when an outcome is recorded.
LEMMA RecordTypes ==
  ASSUME TypeOK, NEW outcome \in Outcomes, Record(outcome)
  PROVE  /\ results' \in Seq(Outcomes)
         /\ Len(results') = Len(results) + 1
         /\ DOMAIN results' = DOMAIN results \cup {Len(results) + 1}
         /\ results'[Len(results) + 1] = outcome
         /\ \A i \in DOMAIN results : results'[i] = results[i]
         /\ current' = current + 1 /\ current' \in Nat /\ pc' = "next"
<1>1. results \in Seq(Outcomes) /\ current \in Nat
  BY DEF TypeOK
<1>2. results' = Append(results, outcome) /\ current' = current + 1 /\ pc' = "next"
  BY DEF Record
<1> QED BY <1>1, <1>2, Appended

LEMMA TypeStep ==
  ASSUME TypeOK, ReadBeforeWrite, ResultsMatchEffects, [Next]_vars
  PROVE  TypeOK'
<1>0. spent \in Spent
  BY DEF TypeOK, Spent
<1>1. CASE Writes
  <2>1. /\ DOMAIN store' = Objects
        /\ \A o \in Objects : store'[o] \in StateOf(o) \cup {Gone}
    BY <1>1, ApplyWrites, WrittenIsTyped DEF Writes, TypeOK
  <2>2. effects' \in Seq(Effects)
    <3> DEFINE e == [uid |-> 1, id |-> current, action |-> TheAction]
    <3>1. e \in Effects
      BY <1>1, TargetKind DEF Writes, Effects, TypeOK
    <3>2. effects' = Append(effects, e) /\ effects \in Seq(Effects)
      BY <1>1, ApplyWrites DEF Writes, TypeOK
    <3> HIDE DEF e
    <3> QED BY <3>1, <3>2, Appended
  <2>3. /\ results' \in Seq(Outcomes) /\ current' \in Nat /\ pc' = "next"
    BY <1>1, RecordTypes DEF Writes, Outcomes
  <2>4. lost' \subseteq Nat
    BY <1>1 DEF Writes, TypeOK
  <2>5. spent' \in Spent
    BY <1>0, <1>1, SpentMore DEF Writes
  <2> QED BY <1>1, <2>1, <2>2, <2>3, <2>4, <2>5 DEF Writes, TypeOK, Spent
<1>2. CASE Moves
  <2>1. /\ results' \in Seq(Outcomes) /\ current' \in Nat
        /\ pc' \in {"next", "write", "finished", "crashed"}
    <3>1. CASE \E outcome \in {"failed", "skipped"} : Record(outcome)
      BY <3>1, RecordTypes DEF Outcomes
    <3>2. CASE UNCHANGED <<current, results>> /\ pc' \in {"write", "finished", "crashed"}
      BY <3>2 DEF TypeOK
    <3>3. (GetTarget /\ pc' = "write") => UNCHANGED <<current, results>>
      BY DEF GetTarget, Record
    <3> QED BY <1>2, <3>1, <3>2, <3>3 DEF Moves
  <2>2. spent' \in Spent
    BY <1>0, <1>2, SpentMore DEF Moves
  <2> QED BY <1>2, <2>1, <2>2 DEF Moves, TypeOK, Spent
<1>3. CASE World
  <2>1. PICK o \in Objects : (Delivers(o) \/ Replaces(o) \/ Ends(o)) /\ Runs(o)
    BY <1>3, WorldSteps
  <2>2. /\ DOMAIN store' = Objects /\ DOMAIN cache' = Objects
        /\ \A p \in Objects : /\ store'[p] \in StateOf(p) \cup {Gone}
                              /\ cache'[p] \in StateOf(p) \cup {Gone}
    BY <2>1 DEF Delivers, Replaces, Ends, TypeOK
  <2> QED BY <1>3, <2>1, <2>2, WorldSteps DEF Runs, executor, TypeOK
<1>4. CASE UNCHANGED vars
  BY <1>4 DEF vars, TypeOK
<1> QED BY <1>1, <1>2, <1>3, <1>4, Steps

LEMMA ReadBeforeWriteStep ==
  ASSUME TypeOK, ReadBeforeWrite, ResultsMatchEffects, [Next]_vars
  PROVE  ReadBeforeWrite'
<1>1. CASE Writes
  BY <1>1 DEF Writes, Record, ReadBeforeWrite
<1>2. CASE Moves
  <2>1. CASE GetTarget /\ pc' = "write"
    <3>1. CanGet(TheAction) /\ copy' = cache[Target(TheAction)]
      BY <2>1 DEF GetTarget, Record
    <3>2. copy' \in StateOf(Target(TheAction))
      BY <3>1 DEF CanGet, Exists, TypeOK
    <3>3. current \in DOMAIN plan
      BY <2>1, PlanIsList DEF GetTarget, ResultsMatchEffects, TypeOK
    <3>4. TheAction' = TheAction /\ plan' = plan /\ current' = current
      BY <2>1, <3>1 DEF GetTarget, TheAction
    <3> QED BY <2>1, <3>1, <3>2, <3>3, <3>4 DEF GetTarget, CanGet, ReadBeforeWrite, Target
  <2>2. CASE pc' # "write"
    BY <2>2 DEF ReadBeforeWrite
  <2> QED BY <1>2, <2>1, <2>2 DEF Moves, Record
<1>3. CASE World
  <2>1. UNCHANGED <<plan, pc, current, copy>>
    BY <1>3, WorldSteps DEF executor
  <2>2. TheAction' = TheAction
    BY <2>1 DEF TheAction
  <2> QED BY <2>1, <2>2 DEF ReadBeforeWrite, Target
<1>4. CASE UNCHANGED vars
  BY <1>4 DEF vars, ReadBeforeWrite, TheAction, Target
<1> QED BY <1>1, <1>2, <1>3, <1>4, Steps

\* A copy stays up to date when the object takes its next version, or goes.
LEMMA StaysUpToDate ==
  ASSUME NEW o \in Objects \ Pods, NEW stored \in StateOf(o) \cup {Gone},
         NEW obj \in StateOf(o) \cup {Gone}, UpToDate(stored, obj), NEW next,
         next \in {stored, Gone} \/ (Exists(stored) /\ next.rv = stored.rv + 1)
  PROVE  UpToDate(next, obj)
BY DEF UpToDate, Exists, StateOf

\* What is stored is up to date, and nothing is newer.
LEMMA StoredUpToDate ==
  ASSUME NEW o \in Objects \ Pods, NEW obj \in StateOf(o) \cup {Gone}
  PROVE  UpToDate(obj, obj)
BY DEF UpToDate, Exists, StateOf

LEMMA CopiesStep ==
  ASSUME IInv, [Next]_vars
  PROVE  CopiesCurrent'
<1>0. TypeOK /\ ReadBeforeWrite /\ ResultsMatchEffects /\ CopiesCurrent
  BY DEF IInv
<1>1. CASE Writes
  <2>1. pc' # "write" /\ cache' = cache
    BY <1>1 DEF Writes, Record
  <2>2. ASSUME NEW o \in Objects \ Pods
        PROVE  store'[o] \in {store[o], Gone} \/ (Exists(store[o]) /\ store'[o].rv = store[o].rv + 1)
    <3>1. CASE o # Target(TheAction)
      BY <1>0, <1>1, <3>1, ApplyWrites DEF Writes
    <3>2. CASE o = Target(TheAction)
      <4> DEFINE field == WantedField(TheAction)
      <4>1. Written(o) /\ copy \in StateOf(o)
        BY <1>0, <1>1, <3>2, ApplyWrites DEF Writes, ReadBeforeWrite
      <4>2. copy \in [rv : Nat, field : FieldOf(o), rest : Nat]
        BY <4>1, <2>2 DEF StateOf
      <4>3. /\ Exists(store[o])
            /\ store'[o] \in {store[o], [copy EXCEPT !.field = field, !.rv = store[o].rv + 1]}
        BY <3>2, <2>2, <4>1 DEF Written
      <4> HIDE DEF field
      <4> QED BY <4>2, <4>3
    <3> QED BY <3>1, <3>2
  <2> QED BY <1>0, <2>1, <2>2, StaysUpToDate DEF CopiesCurrent, TypeOK
<1>2. CASE Moves
  <2>1. UNCHANGED <<plan, store, cache>>
    BY <1>2 DEF Moves
  <2>2. CASE pc' = "write"
    <3>1. GetTarget
      BY <1>2, <2>2 DEF Moves, Record
    <3>2. copy' = cache[Target(TheAction)] /\ current' = current
      BY <2>2, <3>1 DEF GetTarget, Record
    <3>3. Target(TheAction)' = Target(TheAction)
      BY <2>1, <3>2 DEF Target, TheAction
    <3> QED BY <1>0, <2>1, <3>2, <3>3 DEF CopiesCurrent
  <2> QED BY <1>0, <2>1, <2>2 DEF CopiesCurrent
<1>3. CASE World
  <2>1. PICK o \in Objects : Delivers(o) \/ Replaces(o) \/ Ends(o)
    BY <1>0, <1>3, WorldSteps
  <2>2. UNCHANGED <<plan, pc, current, copy>>
    BY <1>0, <1>3, WorldSteps DEF executor
  <2>3. Target(TheAction)' = Target(TheAction)
    BY <2>2 DEF Target, TheAction
  <2>4. ASSUME NEW p \in Objects \ Pods
        PROVE  store'[p] \in {store[p], Gone} \/ (Exists(store[p]) /\ store'[p].rv = store[p].rv + 1)
    BY <1>0, <2>1, <2>4 DEF Delivers, Replaces, Ends, TypeOK
  <2>5. ASSUME NEW p \in Objects \ Pods
        PROVE  UpToDate(store'[p], cache'[p])
    <3>1. CASE cache'[p] = cache[p]
      BY <1>0, <2>4, <3>1, StaysUpToDate DEF CopiesCurrent, TypeOK
    <3>2. CASE cache'[p] # cache[p]
      <4>1. store' = store /\ cache'[p] = store[p]
        BY <1>0, <2>1, <3>2 DEF Delivers, Replaces, Ends, TypeOK
      <4> QED BY <1>0, <4>1, StoredUpToDate DEF TypeOK
    <3> QED BY <3>1, <3>2
  <2>6. ASSUME NEW p \in Objects \ Pods, pc = "write", p = Target(TheAction)
        PROVE  UpToDate(store'[p], copy)
    <3>1. copy \in StateOf(p) /\ UpToDate(store[p], copy)
      BY <1>0, <2>6 DEF ReadBeforeWrite, CopiesCurrent
    <3> QED BY <1>0, <2>4, <3>1, StaysUpToDate DEF TypeOK
  <2> QED BY <2>2, <2>3, <2>5, <2>6 DEF CopiesCurrent
<1>4. CASE UNCHANGED vars
  BY <1>0, <1>4 DEF vars, CopiesCurrent, Target, TheAction
<1> QED BY <1>0, <1>1, <1>2, <1>3, <1>4, Steps

\* What is written after the write of the action at hand.
LEMMA EffectsOfWrite ==
  ASSUME IInv, Writes
  PROVE  /\ \A i \in Nat : Effect(i)' <=> Effect(i) \/ i = current
         /\ Len(effects') = Len(effects) + 1 /\ Len(effects) \in Nat
         /\ DOMAIN effects' = DOMAIN effects \cup {Len(effects) + 1}
         /\ \A k \in DOMAIN effects : effects'[k] = effects[k]
         /\ effects'[Len(effects) + 1] = [uid |-> 1, id |-> current, action |-> TheAction]
<1> DEFINE e == [uid |-> 1, id |-> current, action |-> TheAction]
<1>1. e \in Effects /\ effects \in Seq(Effects) /\ e.id = current
  BY TargetKind DEF IInv, Writes, Effects, TypeOK
<1>2. effects' = Append(effects, e)
  BY ApplyWrites DEF IInv, Writes
<1> HIDE DEF e
<1>3. /\ Len(effects') = Len(effects) + 1 /\ Len(effects) \in Nat
      /\ DOMAIN effects' = DOMAIN effects \cup {Len(effects) + 1}
      /\ \A k \in DOMAIN effects : effects'[k] = effects[k]
      /\ effects'[Len(effects) + 1] = e
  BY <1>1, <1>2, Appended
<1>4. \A i \in Nat : Effect(i)' <=> Effect(i) \/ i = current
  BY <1>1, <1>3 DEF Effect
<1> QED BY <1>3, <1>4 DEF e

LEMMA ResultsStep ==
  ASSUME IInv, [Next]_vars
  PROVE  ResultsMatchEffects'
<1>0. /\ TypeOK /\ ReadBeforeWrite /\ ResultsMatchEffects /\ EffectsOfPlan
      /\ Len(plan) \in Nat /\ DOMAIN plan = 1 .. Len(plan)
      /\ DOMAIN results = 1 .. Len(results) /\ Len(results) = current - 1
      /\ current \in Nat
  BY PlanIsList DEF IInv, ResultsMatchEffects, TypeOK
<1>a. \A k \in DOMAIN effects : effects[k].id < current /\ effects[k].id \in Nat
  <2>1. effects \in Seq(Effects)
    BY <1>0 DEF TypeOK
  <2>2. \A k \in DOMAIN effects : effects[k] \in Effects
    BY <2>1
  <2>3. \A k \in DOMAIN effects : effects[k].id \in Nat
    BY <2>2 DEF Effects
  <2> QED BY <1>0, <2>3 DEF ResultsMatchEffects
<1>1. ASSUME NEW outcome \in Outcomes, Record(outcome), current \in DOMAIN plan, plan' = plan,
             outcome = "skipped" <=> TheAction.skip,
             \A i \in Nat : i = current =>
                (Effect(i)' <=> outcome = "success" \/ (outcome = "failed" /\ i \in lost')),
             \A i \in Nat : i # current => (Effect(i)' <=> Effect(i)),
             \A i \in Nat : i # current => (i \in lost' <=> i \in lost),
             \A k \in DOMAIN effects' : effects'[k].id < current + 1
      PROVE  ResultsMatchEffects'
  <2>1. /\ Len(results') = Len(results) + 1
        /\ DOMAIN results' = DOMAIN results \cup {current}
        /\ results'[current] = outcome
        /\ \A i \in DOMAIN results : results'[i] = results[i]
        /\ current' = current + 1
    <3>1. Len(results) + 1 = current
      BY <1>0
    <3>2. TypeOK /\ Record(outcome) /\ outcome \in Outcomes
      BY <1>0, <1>1
    <3> QED BY <3>1, <3>2, RecordTypes
  <2>2. Len(results') = current' - 1 /\ current' \in 1 .. Len(plan) + 1
    BY <1>0, <1>1, <2>1
  <2>3. ASSUME NEW i \in DOMAIN results'
        PROVE  /\ Effect(i)' <=> results'[i] = "success" \/ (results'[i] = "failed" /\ i \in lost')
               /\ results'[i] = "skipped" <=> plan[i].skip
    <3>1. CASE i = current
      BY <1>0, <1>1, <2>1, <3>1 DEF TheAction, Outcomes
    <3>2. CASE i # current
      <4>1. i \in DOMAIN results /\ i \in Nat
        BY <1>0, <2>1, <3>2
      <4> QED BY <1>0, <1>1, <2>1, <3>2, <4>1 DEF ResultsMatchEffects
    <3> QED BY <3>1, <3>2
  <2> QED BY <1>1, <2>1, <2>2, <2>3 DEF ResultsMatchEffects
<1>2. CASE Writes
  <2>1. current \in DOMAIN plan /\ ~TheAction.skip
    BY <1>0, <1>2 DEF Writes, ReadBeforeWrite
  <2>2. \A k \in DOMAIN effects' : effects'[k].id < current + 1
    BY <1>0, <1>a, <1>2, EffectsOfWrite
  <2>3. \A i \in Nat : Effect(i)' <=> Effect(i) \/ i = current
    BY <1>2, EffectsOfWrite
  <2>4. plan' = plan
    BY <1>2 DEF Writes
  <2>5. CASE Record("success") /\ lost' = lost
    <3>1. \A i \in Nat : i # current => (i \in lost' <=> i \in lost)
      BY <2>5
    <3>2. "success" \in Outcomes /\ ("success" = "skipped" <=> TheAction.skip)
      BY <2>1 DEF Outcomes
    <3>3. \A i \in Nat : i = current =>
            (Effect(i)' <=> "success" = "success" \/ ("success" = "failed" /\ i \in lost'))
      BY <2>3
    <3> QED BY <1>1, <2>1, <2>2, <2>3, <2>4, <2>5, <3>1, <3>2, <3>3
  <2>6. CASE Record("failed") /\ lost' = lost \cup {current}
    <3>1. \A i \in Nat : i # current => (i \in lost' <=> i \in lost)
      BY <2>6
    <3>2. "failed" \in Outcomes /\ ("failed" = "skipped" <=> TheAction.skip)
      BY <2>1 DEF Outcomes
    <3>3. \A i \in Nat : i = current =>
            (Effect(i)' <=> "failed" = "success" \/ ("failed" = "failed" /\ i \in lost'))
      BY <2>3, <2>6
    <3> QED BY <1>1, <2>1, <2>2, <2>3, <2>4, <2>6, <3>1, <3>2, <3>3
  <2> QED BY <1>2, <2>5, <2>6 DEF Writes
<1>3. CASE Moves
  <2>1. UNCHANGED <<plan, effects, lost>>
    BY <1>3 DEF Moves
  <2>2. /\ \A i \in Nat : Effect(i)' <=> Effect(i)
        /\ ~Effect(current) /\ current \notin lost /\ lost' = lost
    <3>1. \A i \in Nat : Effect(i)' <=> Effect(i)
      BY <2>1 DEF Effect
    <3>2. ~Effect(current)
      BY <1>0, <1>a DEF Effect
    <3>3. current \notin lost
      BY <1>0 DEF EffectsOfPlan
    <3> QED BY <2>1, <3>1, <3>2, <3>3
  <2>3. \A k \in DOMAIN effects' : effects'[k].id < current + 1
    BY <1>0, <1>a, <2>1
  <2>4. ASSUME NEW outcome \in {"failed", "skipped"}, current \in DOMAIN plan,
               outcome = "skipped" <=> TheAction.skip, Record(outcome)
        PROVE  ResultsMatchEffects'
    BY <1>1, <2>1, <2>2, <2>3, <2>4 DEF Outcomes
  <2>5. CASE UNCHANGED <<current, results>>
    BY <1>0, <2>1, <2>5 DEF ResultsMatchEffects, Effect
  <2>6. GetTarget /\ pc' = "write" => UNCHANGED <<current, results>>
    BY DEF GetTarget, Record
  <2> QED BY <1>3, <2>4, <2>5, <2>6 DEF Moves
<1>4. CASE World
  BY <1>0, <1>4, WorldSteps DEF executor, ResultsMatchEffects, Effect
<1>5. CASE UNCHANGED vars
  BY <1>0, <1>5 DEF vars, ResultsMatchEffects, Effect
<1> QED BY <1>0, <1>2, <1>3, <1>4, <1>5, Steps

LEMMA EffectsOfPlanStep ==
  ASSUME IInv, [Next]_vars
  PROVE  EffectsOfPlan'
<1>0. /\ TypeOK /\ ReadBeforeWrite /\ ResultsMatchEffects /\ EffectsOfPlan
      /\ current \in Nat /\ \A i \in lost : i \in Nat /\ i < current
  BY DEF IInv, TypeOK, EffectsOfPlan
<1>1. CASE Writes
  <2>1. /\ current \in DOMAIN plan /\ ~TheAction.skip /\ plan' = plan
        /\ lost' \subseteq lost \cup {current} /\ current' = current + 1
    BY <1>0, <1>1 DEF Writes, ReadBeforeWrite, Record
  <2>2. ASSUME NEW k \in DOMAIN effects'
        PROVE  /\ effects'[k].id \in DOMAIN plan
               /\ effects'[k].action = plan[effects'[k].id] /\ ~effects'[k].action.skip
    <3>1. CASE k \in DOMAIN effects
      BY <1>0, <1>1, <3>1, EffectsOfWrite DEF EffectsOfPlan
    <3>2. CASE k = Len(effects) + 1
      BY <1>1, <2>1, <3>2, EffectsOfWrite DEF TheAction
    <3> QED BY <1>1, <3>1, <3>2, EffectsOfWrite
  <2>3. \A i \in lost' : i < current'
    BY <1>0, <2>1
  <2> QED BY <2>1, <2>2, <2>3 DEF EffectsOfPlan
<1>2. CASE Moves \/ World \/ UNCHANGED vars
  <2>1. UNCHANGED <<plan, effects, lost>> /\ current' \in {current, current + 1}
    BY <1>0, <1>2, WorldSteps DEF Moves, GetTarget, Record, executor, vars
  <2>2. \A i \in lost : i < current'
    BY <1>0, <2>1
  <2> QED BY <1>0, <2>1, <2>2 DEF EffectsOfPlan
<1> QED BY <1>0, <1>1, <1>2, Steps

\* What was deleted without a grace period stays so.
LEMMA ForceDeletedStays ==
  ASSUME IInv, [Next]_vars, NEW o \in Pods, ForceDeleted(o)
  PROVE  ForceDeleted(o)'
<1>0. TypeOK /\ ReadBeforeWrite /\ ResultsMatchEffects
  BY DEF IInv
<1>1. CASE Writes
  BY <1>1, EffectsOfWrite DEF ForceDeleted, Target
<1>2. CASE ~Writes
  BY <1>0, <1>2, Steps, WorldSteps DEF Moves, executor, vars, ForceDeleted, Target
<1> QED BY <1>1, <1>2

LEMMA StoredRunsStep ==
  ASSUME IInv, [Next]_vars
  PROVE  StoredRuns'
<1>0. TypeOK /\ ReadBeforeWrite /\ ResultsMatchEffects /\ StoredRuns
  BY DEF IInv
<1> SUFFICES ASSUME NEW o \in Pods, ~ForceDeleted(o)'
             PROVE  OnlyStoredRuns(o)'
  BY DEF StoredRuns
<1>1. OnlyStoredRuns(o)
  BY <1>0, ForceDeletedStays DEF StoredRuns
<1>a. o \in Objects
  BY DEF Pods
<1>2. CASE Writes
  <2>1. running' = running
    BY <1>2 DEF Writes
  <2>2. CASE o # Target(TheAction)
    BY <1>0, <1>1, <1>a, <1>2, <2>1, <2>2, ApplyWrites DEF Writes, OnlyStoredRuns
  <2>3. CASE o = Target(TheAction)
    <3> DEFINE k == Len(effects) + 1
    <3>1. /\ k \in DOMAIN effects' /\ effects'[k].action = TheAction
      BY <1>2, EffectsOfWrite
    <3>2. TheAction.type # "delete-pod"
      BY <2>3, <3>1 DEF ForceDeleted, Target
    <3>3. Exists(store[o]) /\ store'[o] = [store[o] EXCEPT !.terminating = TRUE]
      BY <1>0, <1>2, <2>3, <3>2, ApplyWrites DEF Writes, Written
    <3>4. store[o] \in [uid : Nat, terminating : BOOLEAN]
      BY <1>0, <1>a, <3>3 DEF TypeOK, StateOf, Exists
    <3>5. store'[o].uid = store[o].uid /\ Exists(store'[o])
      BY <1>0, <1>2, <2>3, <3>2, <3>3, <3>4, ApplyWrites DEF Writes, Exists
    <3> QED BY <1>1, <2>1, <3>3, <3>5 DEF OnlyStoredRuns
  <2> QED BY <2>2, <2>3
<1>3. CASE Moves \/ UNCHANGED vars
  BY <1>1, <1>3 DEF Moves, vars, OnlyStoredRuns
<1>4. CASE World
  <2>1. PICK p \in Objects : (Delivers(p) \/ Replaces(p) \/ Ends(p)) /\ Runs(p)
    BY <1>0, <1>4, WorldSteps
  <2>2. CASE o = p
    BY <1>1, <2>1, <2>2 DEF Runs
  <2>3. CASE o # p
    <3>1. store'[o] = store[o]
      BY <1>0, <1>a, <2>1, <2>3 DEF Delivers, Replaces, Ends, TypeOK
    <3>2. running'[o] = running[o]
      BY <2>1, <2>3 DEF Runs
    <3> QED BY <1>1, <3>1, <3>2 DEF OnlyStoredRuns
  <2> QED BY <2>2, <2>3
<1> QED BY <1>0, <1>2, <1>3, <1>4, Steps

LEMMA InitIInv ==
  ASSUME Init
  PROVE  IInv
<1>1. plan \in Seq(Action) /\ Len(plan) \in Nat
  BY InputsAssumption DEF Init
<1>2. \A o \in Objects : Default(o) \in StateOf(o) /\ Default(o) # Gone
  <2>1. ASSUME NEW o \in Objects
        PROVE  Default(o) \in StateOf(o)
    <3>1. CASE o \in Pods
      BY <3>1 DEF Default, StateOf, Pods
    <3>2. CASE o \notin Pods
      <4>1. o[1] # "Pod" /\ StateOf(o) = [rv : Nat, field : FieldOf(o), rest : Nat]
        BY <2>1, <3>2 DEF StateOf, Pods
      <4> DEFINE field == IF o[1] = "Node" THEN FALSE ELSE 2
      <4>2. field \in FieldOf(o)
        <5>1. CASE o[1] = "Node"
          BY <5>1 DEF FieldOf
        <5>2. CASE o[1] # "Node"
          BY <5>2 DEF FieldOf
        <5> QED BY <5>1, <5>2
      <4>3. Default(o) = [rv |-> 1, field |-> field, rest |-> 0]
        BY <4>1 DEF Default
      <4> HIDE DEF field
      <4> QED BY <4>1, <4>2, <4>3
    <3> QED BY <3>1, <3>2
  <2> QED BY <2>1, InputsAssumption
<1>3. TypeOK
  BY <1>1, <1>2 DEF Init, TypeOK, Outcomes, Effects
<1>4. ReadBeforeWrite /\ EffectsOfPlan /\ ResultsMatchEffects
  BY <1>1 DEF Init, ReadBeforeWrite, EffectsOfPlan, ResultsMatchEffects
<1>5. CopiesCurrent
  <2>1. \A o \in Objects : store[o] = cache[o] /\ store[o] \in StateOf(o) /\ pc = "next"
    BY <1>2 DEF Init
  <2> QED BY <2>1, StoredUpToDate DEF CopiesCurrent
<1>6. StoredRuns
  <2>1. ASSUME NEW o \in Pods
        PROVE  OnlyStoredRuns(o)
    <3>1. o \in Objects /\ store[o] = Default(o) /\ running[o] = {1}
      BY DEF Init, Pods
    <3>2. Default(o).uid = 1 /\ Exists(store[o])
      BY <1>2, <3>1 DEF Default, Pods, Exists
    <3> QED BY <3>1, <3>2 DEF OnlyStoredRuns
  <2> QED BY <2>1 DEF StoredRuns
<1> QED BY <1>3, <1>4, <1>5, <1>6 DEF IInv

\* The strengthened invariant is inductive.
THEOREM InductiveInvariance == Spec => []IInv
<1>1. Init => IInv
  BY InitIInv
<1>2. IInv /\ [Next]_vars => IInv'
  <2> SUFFICES ASSUME IInv, [Next]_vars
               PROVE  IInv'
    OBVIOUS
  <2>1. TypeOK' /\ ReadBeforeWrite'
    BY TypeStep, ReadBeforeWriteStep DEF IInv
  <2>2. CopiesCurrent' /\ ResultsMatchEffects' /\ EffectsOfPlan' /\ StoredRuns'
    BY CopiesStep, ResultsStep, EffectsOfPlanStep, StoredRunsStep
  <2> QED BY <2>1, <2>2 DEF IInv
<1> QED BY <1>1, <1>2, PTL DEF Spec

-----------------------------------------------------------------------------
(* The properties.                                                         *)

\* What is reported of an action is what it did to the cluster, for every plan,
\* and however many calls are lost: the outcomes that Reconcile stores in
\* status.results.
THEOREM ResultsAreTrue == Spec => []ResultsMatchEffects
<1>1. IInv => ResultsMatchEffects
  BY DEF IInv
<1> QED BY <1>1, InductiveInvariance, PTL

\* Unless the plan deletes it without a grace period (delete-pod), a stateful
\* pod runs at most once at any time, also if it is restarted (restart-pod).
THEOREM RestartNeverOverlaps == Spec => []OneIncarnationRuns
<1>1. IInv => OneIncarnationRuns
  <2> SUFFICES ASSUME IInv, NEW o \in Pods, ~ForceDeleted(o)
               PROVE  Cardinality(running[o]) <= 1
    BY DEF OneIncarnationRuns
  <2>1. OnlyStoredRuns(o)
    BY DEF IInv, StoredRuns
  <2>2. PICK uid : running[o] = {} \/ running[o] = {uid}
    BY <2>1 DEF OnlyStoredRuns
  <2>3. Cardinality({}) = 0 /\ Cardinality({uid}) = 1
    BY FS_EmptySet, FS_Singleton
  <2> QED BY <2>2, <2>3
<1> QED BY <1>1, InductiveInvariance, PTL

\* An update (scaleDeployment, cordonNode) changes the one field it is to set,
\* of the object as it is stored: what others changed since it was read stays.
THEOREM OthersChangesAreKept == Spec => KeepsOthersChanges
<1> DEFINE Kept ==
      Accepted =>
        \A o \in Objects \ Pods : store'[o] # store[o] =>
          /\ o = Target(TheAction)
          /\ store[o] = copy
          /\ store'[o] = [store[o] EXCEPT !.rv = @ + 1, !.field = WantedField(TheAction)]
<1>1. ASSUME IInv, [Next]_vars
      PROVE  Kept
  <2>0. TypeOK /\ ReadBeforeWrite /\ ResultsMatchEffects /\ CopiesCurrent
    BY <1>1 DEF IInv
  <2>1. CASE Writes
    <3> SUFFICES ASSUME NEW o \in Objects \ Pods, store'[o] # store[o]
                 PROVE  /\ o = Target(TheAction)
                        /\ store[o] = copy
                        /\ store'[o] = [store[o] EXCEPT !.rv = @ + 1,
                                                        !.field = WantedField(TheAction)]
      OBVIOUS
    <3> DEFINE field == WantedField(TheAction)
    <3>1. o = Target(TheAction)
      BY <2>0, <2>1, ApplyWrites DEF Writes
    <3>2. Written(o) /\ copy \in StateOf(o) /\ UpToDate(store[o], copy)
      BY <2>0, <2>1, <3>1, ApplyWrites DEF Writes, ReadBeforeWrite, CopiesCurrent
    <3>3. /\ Exists(store[o]) /\ store[o].rv = copy.rv
          /\ store'[o] = [copy EXCEPT !.field = field, !.rv = store[o].rv + 1]
      BY <3>1, <3>2 DEF Written
    <3>4. Exists(copy)
      BY <3>2, InputsAssumption DEF Exists
    <3>5. store[o] = copy
      BY <3>2, <3>3, <3>4 DEF UpToDate
    <3>6. [copy EXCEPT !.field = field, !.rv = copy.rv + 1]
            = [copy EXCEPT !.rv = copy.rv + 1, !.field = field]
      <4>1. copy \in [rv : Nat, field : FieldOf(o), rest : Nat]
        BY <3>2 DEF StateOf
      <4> DEFINE r == copy.rv + 1
      <4> HIDE DEF field, r
      <4> QED BY <4>1
    <3> QED BY <3>1, <3>3, <3>5, <3>6
  <2>2. CASE ~Writes
    <3>1. effects' = effects
      BY <1>1, <2>0, <2>2, Steps, WorldSteps DEF Moves, vars
    <3>2. Len(effects) \in Nat
      BY <2>0 DEF TypeOK
    <3> QED BY <3>1, <3>2 DEF Accepted
  <2> QED BY <2>1, <2>2
<1>2. IInv /\ [Next]_vars => [Kept]_vars
  BY <1>1
<1> QED BY <1>2, InductiveInvariance, PTL DEF Spec, KeepsOthersChanges

\* Every write of the manager keeps the promise of the plan: its action was
\* approved, is not skipped, and writes once.
THEOREM EffectsArePromised == Spec => EffectsKeepPromise
<1>1. ASSUME IInv, [Next]_vars
      PROVE  [Promise!Next]_(Promise!vars)
  <2>0. /\ TypeOK /\ ReadBeforeWrite /\ ResultsMatchEffects
    BY <1>1 DEF IInv
  <2>1. CASE Writes
    <3> DEFINE e == effects'[Len(effects')]
               object == [uid |-> 1, approved |-> TRUE, actions |-> plan]
    <3>1. /\ effects' = Append(effects, e)
          /\ e = [uid |-> 1, id |-> current, action |-> TheAction]
      BY <1>1, <2>0, <2>1, EffectsOfWrite, ApplyWrites DEF Writes
    <3>2. \A k \in DOMAIN effects : effects[k].id # current
      BY <2>0 DEF ResultsMatchEffects, TypeOK
    <3>3. ~TheAction.skip /\ plan' = plan
      BY <2>0, <2>1 DEF ReadBeforeWrite, Writes
    <3>4. /\ e.uid = object.uid /\ e.id = current /\ e.action = TheAction
          /\ object.actions[e.id] = e.action /\ ~e.action.skip
      BY <3>1, <3>3 DEF TheAction
    <3>5. object' = object /\ {object}' = {object}
      BY <3>3
    <3> HIDE DEF e
    <3>6. Promise!Perform(e)
      BY <3>1, <3>2, <3>4, <3>5 DEF Promise!Perform
    <3> QED BY <3>6 DEF e, Promise!Next
  <2>2. CASE ~Writes
    <3>1. effects' = effects /\ plan' = plan
      BY <1>1, <2>0, <2>2, Steps, WorldSteps DEF Moves, vars
    <3> QED BY <3>1 DEF Promise!vars
  <2> QED BY <2>1, <2>2
<1>2. IInv /\ [Next]_vars => [Promise!Next]_(Promise!vars)
  BY <1>1
<1> QED BY <1>2, InductiveInvariance, PTL DEF Spec, EffectsKeepPromise

=============================================================================
