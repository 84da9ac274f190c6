--------------------------- MODULE ActionExecution ---------------------------
(***************************************************************************)
(* What the actions of an approved plan do to the cluster: the loop of     *)
(* RemediationPlanReconciler.Reconcile over one claimed plan, with every   *)
(* action in the two calls it makes - a Get, answered by the manager's     *)
(* informer cache, and a Delete or Update - while users, controllers and   *)
(* kubelets go on with their work.                                         *)
(*                                                                         *)
(* That a plan is claimed once, and the results stored, is the matter of   *)
(* RemediationPlan; its steps of performing an action are refined here.    *)
(***************************************************************************)
EXTENDS Integers, Sequences, FiniteSets

CONSTANTS
  Objects,    \* <<kind, namespace, name>> of pods, deployments and nodes
  Plans,      \* the lists of actions that may be approved
  Gone,       \* the state of an object that does not exist
  \* Bounds of the explored behaviours, not of the system:
  MaxEdits,   \* edits by users and controllers
  MaxPods,    \* incarnations of a pod
  MaxFaults,  \* calls that fail on their way or whose reply is lost
  MaxCrashes  \* crashes of the manager

ActionTypes == {"restart-pod", "delete-pod", "scale-deployment", "cordon-node"}
\* param: the parameter "replicas" is a number, absent, or text that is none.
Action == [type : ActionTypes \cup {"other"}, namespace : STRING, name : STRING,
           param : {"number", "absent", "text"}, replicas : Int, skip : BOOLEAN]

Pods == {o \in Objects : o[1] = "Pod"}

\* What is read of a pod: its uid, and whether it is being deleted.  Of any
\* other: its resource version, the field that actions set - replicas, or
\* whether the node is unschedulable - and the rest of it.
FieldOf(o) == IF o[1] = "Node" THEN BOOLEAN ELSE Int
StateOf(o) == IF o \in Pods THEN [uid : Nat, terminating : BOOLEAN]
              ELSE [rv : Nat, field : FieldOf(o), rest : Nat]

ASSUME InputsAssumption ==
  /\ \A o \in Objects : /\ o[1] \in {"Pod", "Deployment", "Node"}
                         /\ Gone \notin StateOf(o)
  /\ Plans \subseteq Seq(Action)
ASSUME BoundsAssumption ==
  /\ MaxEdits \in Nat /\ MaxPods \in Nat /\ MaxFaults \in Nat /\ MaxCrashes \in Nat

VARIABLES
  plan,     \* the actions of the claimed plan
  store,    \* the objects in the API server
  cache,    \* the objects as the manager's informer caches have them
  running,  \* running[pod]: the incarnations whose containers run on some node
  pc,       \* "next" action, its "write", "finished" or "crashed"
  current,  \* the number of the action at hand
  copy,     \* what its Get returned
  results,  \* the outcomes so far
  spent,    \* how much of each bound has been used
  effects,  \* history: the writes of the manager the API server accepted
  lost      \* history: the actions of which the reply was lost

executor == <<pc, current, copy, results>>
vars == <<plan, store, cache, running, pc, current, copy, results, spent, effects, lost>>

-----------------------------------------------------------------------------
(* The objects in the API server.                                             *)

Exists(obj) == obj # Gone

Default(o) == IF o[1] = "Pod" THEN [uid |-> 1, terminating |-> FALSE]
              ELSE [rv |-> 1, field |-> IF o[1] = "Node" THEN FALSE ELSE 2, rest |-> 0]

\* An update carries the resource version of the copy it was made from.
CurrentAnyVersion(o, obj) == Exists(store[o])
Current(o, obj) == Exists(store[o]) /\ store[o].rv = obj.rv

Put(o, obj) == store' = [store EXCEPT ![o] = obj]

Update(o, obj) ==
  IF [obj EXCEPT !.rv = store[o].rv] = store[o] THEN UNCHANGED store
  ELSE Put(o, [obj EXCEPT !.rv = store[o].rv + 1])

-----------------------------------------------------------------------------
(* One action.                                                                *)

TheAction == plan[current]

KindFor(type) == CASE type \in {"restart-pod", "delete-pod"} -> "Pod"
                   [] type = "scale-deployment" -> "Deployment"
                   [] type = "cordon-node" -> "Node"

\* A plan is cluster-scoped: its own namespace is empty.
PlanNamespace == ""

\* A name without a namespace is looked for in the plan's; nodes have none.
Target(action) ==
  LET kind == KindFor(action.type)
  IN <<kind, IF kind = "Node" THEN ""
             ELSE IF action.namespace = "" THEN PlanNamespace ELSE action.namespace,
       action.name>>

\* A plan that names no number of replicas scales to one.
WantedField(action) ==
  IF action.type = "cordon-node" THEN TRUE
  ELSE IF action.param = "absent" THEN 1 ELSE action.replicas

CanGet(action) ==
  /\ action.type \in ActionTypes
  /\ Target(action) \in Objects
  /\ Exists(cache[Target(action)])
  /\ action.type = "scale-deployment" => action.param # "text"

Record(outcome) ==
  /\ results' = Append(results, outcome)
  /\ current' = current + 1
  /\ pc' = "next"
  /\ copy' = Gone

SkipAction ==
  /\ pc = "next" /\ current <= Len(plan) /\ TheAction.skip
  /\ Record("skipped")
  /\ UNCHANGED <<plan, store, cache, running, spent, effects, lost>>

GetTarget ==
  /\ pc = "next" /\ current <= Len(plan) /\ ~TheAction.skip
  /\ IF CanGet(TheAction)
     THEN /\ pc' = "write"
          /\ copy' = cache[Target(TheAction)]
          /\ UNCHANGED <<current, results>>
     ELSE Record("failed")
  /\ UNCHANGED <<plan, store, cache, running, spent, effects, lost>>

\* The API server accepts the write.  A Delete names the pod and not the
\* incarnation that was read.
Accepts(action) ==
  CASE KindFor(action.type) = "Pod" -> Exists(store[Target(action)])
    [] action.type = "scale-deployment" ->
         Current(Target(action), copy) /\ WantedField(action) >= 0
    [] action.type = "cordon-node" -> Current(Target(action), copy)

RestartPodAtOnce(o) == Put(o, Gone)
\* The containers get their time to end; the kubelet removes the pod then.
RestartPod(o) == Put(o, [store[o] EXCEPT !.terminating = TRUE])
\* Without a grace period the pod is removed, whatever runs on its node.
DeletePod(o) == Put(o, Gone)

Apply(action) ==
  /\ CASE action.type = "restart-pod" -> RestartPod(Target(action))
       [] action.type = "delete-pod" -> DeletePod(Target(action))
       [] OTHER -> Update(Target(action),
                          [copy EXCEPT !.field = WantedField(action)])
  /\ effects' = Append(effects, [uid |-> 1, id |-> current, action |-> action])

WriteAccepted ==
  /\ pc = "write" /\ Accepts(TheAction)
  /\ Apply(TheAction)
  /\ Record("success")
  /\ UNCHANGED <<plan, cache, running, spent, lost>>

IgnoreNotFound ==
  /\ pc = "write" /\ ~Accepts(TheAction)
  /\ Record(IF Exists(store[Target(TheAction)]) THEN "failed" ELSE "success")
  /\ UNCHANGED <<plan, store, cache, running, spent, effects, lost>>
\* Not found, a conflict, or an invalid number of replicas.
WriteRejected ==
  /\ pc = "write" /\ ~Accepts(TheAction)
  /\ Record("failed")
  /\ UNCHANGED <<plan, store, cache, running, spent, effects, lost>>

UseFault == /\ spent.faults < MaxFaults
            /\ spent' = [spent EXCEPT !.faults = @ + 1]

WriteUnreachable ==
  /\ pc = "write" /\ UseFault
  /\ Record("failed")
  /\ UNCHANGED <<plan, store, cache, running, effects, lost>>

RetryLostReply ==
  /\ pc = "write" /\ UseFault /\ Accepts(TheAction)
  /\ Apply(TheAction)
  /\ lost' = lost \cup {current}
  /\ UNCHANGED <<plan, cache, running, pc, current, copy, results>>
\* The write is done, and the manager told that it is not.
ReplyLost ==
  /\ pc = "write" /\ UseFault /\ Accepts(TheAction)
  /\ Apply(TheAction)
  /\ Record("failed")
  /\ lost' = lost \cup {current}
  /\ UNCHANGED <<plan, cache, running>>

Finish ==
  /\ pc = "next" /\ current > Len(plan)
  /\ pc' = "finished"
  /\ UNCHANGED <<plan, store, cache, running, current, copy, results, spent, effects, lost>>

\* Nobody takes up a plan that is in the phase running.
Crash ==
  /\ pc \in {"next", "write"} /\ spent.crashes < MaxCrashes
  /\ spent' = [spent EXCEPT !.crashes = @ + 1]
  /\ pc' = "crashed"
  /\ UNCHANGED <<plan, store, cache, running, current, copy, results, effects, lost>>

Executor ==
  \/ SkipAction \/ GetTarget \/ WriteAccepted \/ WriteRejected
  \/ WriteUnreachable \/ ReplyLost \/ Finish \/ Crash

-----------------------------------------------------------------------------
(* The rest of the cluster.                                                   *)

UseEdit == /\ spent.edits < MaxEdits
           /\ spent' = [spent EXCEPT !.edits = @ + 1]

Elsewhere == UNCHANGED <<plan, executor, effects, lost>>

\* The informer delivers what is stored.
Deliver(o) ==
  /\ cache[o] # store[o]
  /\ cache' = [cache EXCEPT ![o] = store[o]]
  /\ UNCHANGED <<store, running, spent>> /\ Elsewhere

\* Somebody sets the field, or changes the rest of the object: a user, a
\* rollout, a controller or a kubelet that writes the status.
EditObject(o) ==
  /\ o \notin Pods /\ Exists(store[o]) /\ UseEdit
  /\ \/ \E f \in (IF o[1] = "Node" THEN BOOLEAN ELSE {0, 2}) \ {store[o].field} :
          Update(o, [store[o] EXCEPT !.field = f])
     \/ Update(o, [store[o] EXCEPT !.rest = @ + 1])
     \/ Put(o, Gone)
  /\ UNCHANGED <<cache, running>> /\ Elsewhere

\* An eviction, a rollout, a user: with the grace period.
OthersDeletePod(o) ==
  /\ Exists(store[o]) /\ ~store[o].terminating /\ UseEdit
  /\ Put(o, [store[o] EXCEPT !.terminating = TRUE])
  /\ UNCHANGED <<cache, running>> /\ Elsewhere

\* The kubelet has stopped the containers of a pod that is being deleted, and
\* removes it.
KubeletRemoves(o) ==
  /\ Exists(store[o]) /\ store[o].terminating
  /\ running' = [running EXCEPT ![o] = @ \ {store[o].uid}]
  /\ Put(o, Gone)
  /\ UNCHANGED <<cache, spent>> /\ Elsewhere

\* The kubelet stops the containers of a pod that was removed.
KubeletCleansUp(o) ==
  /\ \E uid \in running[o] :
       /\ Exists(store[o]) => store[o].uid # uid
       /\ running' = [running EXCEPT ![o] = @ \ {uid}]
  /\ UNCHANGED <<store, cache, spent>> /\ Elsewhere

\* A StatefulSet creates the pod that is missing anew, under the same name, as
\* soon as there is none; it may be scheduled to another node.
Recreate(o) ==
  /\ ~Exists(store[o]) /\ spent.pods[o] < MaxPods
  /\ spent' = [spent EXCEPT !.pods[o] = @ + 1]
  /\ Put(o, [uid |-> spent'.pods[o], terminating |-> FALSE])
  /\ running' = [running EXCEPT ![o] = @ \cup {spent'.pods[o]}]
  /\ UNCHANGED cache /\ Elsewhere

World ==
  \/ \E o \in Objects : Deliver(o) \/ EditObject(o)
  \/ \E o \in Pods :
       OthersDeletePod(o) \/ KubeletRemoves(o) \/ KubeletCleansUp(o) \/ Recreate(o)

-----------------------------------------------------------------------------

Init ==
  /\ plan \in Plans
  /\ store = [o \in Objects |-> Default(o)]
  /\ cache = store
  /\ running = [o \in Pods |-> {1}]
  /\ pc = "next" /\ current = 1 /\ copy = Gone /\ results = <<>>
  /\ spent = [edits |-> 0, faults |-> 0, crashes |-> 0, pods |-> [o \in Pods |-> 1]]
  /\ effects = <<>> /\ lost = {}

Next == Executor \/ World

Spec == Init /\ [][Next]_vars

-----------------------------------------------------------------------------
(* Properties                                                                 *)

Effect(id) == \E k \in DOMAIN effects : effects[k].id = id

\* What is reported of an action is what it did to the cluster: a success
\* stands for a write that was accepted, a failure for none unless its reply
\* was lost, and a skipped action for nothing; and nothing is done but by the
\* action at hand.
ResultsMatchEffects ==
  /\ Len(results) = current - 1 /\ current \in 1 .. Len(plan) + 1
  /\ \A i \in DOMAIN results :
       Effect(i) <=> results[i] = "success" \/ (results[i] = "failed" /\ i \in lost)
  /\ \A k \in DOMAIN effects : effects[k].id < current
  /\ \A i \in DOMAIN results : results[i] = "skipped" <=> plan[i].skip

\* Scaling or cordoning leaves alone whatever somebody else changed since the
\* object was read, in the same field or in another.
Accepted == Len(effects') > Len(effects)
KeepsOthersChanges ==
  [][Accepted =>
       \A o \in Objects \ Pods : store'[o] # store[o] =>
         /\ o = Target(TheAction)
         /\ store[o] = copy
         /\ store'[o] = [store[o] EXCEPT !.rv = @ + 1, !.field = WantedField(TheAction)]]_vars

\* What the plan does to the cluster keeps the promise made for the plan: every
\* write belongs to an action that was approved and not skipped, and no action
\* writes twice - so a pod that returns under its name is not deleted again by
\* the action that deleted the one before.
Promise == INSTANCE ApprovedExecution WITH
  spec <- [uid |-> 1, approved |-> TRUE, actions |-> plan],
  claims <- {[uid |-> 1, approved |-> TRUE, actions |-> plan]},
  log <- effects
EffectsKeepPromise == [][Promise!Next]_(Promise!vars)

\* Two incarnations of a stateful pod run at one time only if the plan deletes
\* it without a grace period: restarting it never brings that about.
ForceDeleted(o) ==
  \E k \in DOMAIN effects : /\ effects[k].action.type = "delete-pod"
                            /\ Target(effects[k].action) = o
OneIncarnationRuns ==
  \A o \in Pods : Cardinality(running[o]) <= 1 \/ ForceDeleted(o)

=============================================================================
