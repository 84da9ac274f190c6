-------------------------- MODULE ApprovedExecution --------------------------
(***************************************************************************)
(* What the RemediationPlan controller promises to the user, without API   *)
(* server versions, caches, managers, crashes or retries: one shared       *)
(* object whose spec anybody may edit at any time, an approval that holds  *)
(* for the list of actions it was given to, and an execution that begins   *)
(* at most once per object, atomically with a look at an approved spec,    *)
(* and then performs the unskipped actions seen in that look, each at most *)
(* once.                                                                   *)
(*                                                                         *)
(* The module stands for no code of its own; RemediationPlan is shown to   *)
(* implement it.                                                           *)
(***************************************************************************)
EXTENDS Naturals, Sequences

VARIABLES
  spec,    \* [uid, approved, actions] of the object; uid 0 when there is none
  claims,  \* the executions begun: [uid, approved, actions, ...]
  log      \* the actions performed: [uid, id, action, ...]

vars == <<spec, claims, log>>

Claimed(uid) == \E c \in claims : c.uid = uid

Init == spec.uid = 0 /\ claims = {} /\ log = <<>>

\* A list of actions, whichever of them are skipped.
Unskipped(actions) ==
  [i \in DOMAIN actions |-> [actions[i] EXCEPT !.skip = FALSE]]

\* The operator proposes, the user edits or deletes. An object that is created
\* has an identity under which nothing was executed; one that gets another list
\* of actions loses its approval.
Edit ==
  /\ \/ /\ spec'.uid = spec.uid
        /\ ~spec'.approved \/ Unskipped(spec'.actions) = Unskipped(spec.actions)
     \/ ~Claimed(spec'.uid)
  /\ UNCHANGED <<claims, log>>

\* An execution begins; spec stands still while it does.
Claim(c) ==
  /\ spec.uid # 0 /\ spec.approved /\ ~Claimed(spec.uid)
  /\ c.uid = spec.uid /\ c.approved = spec.approved /\ c.actions = spec.actions
  /\ claims' = claims \cup {c}
  /\ UNCHANGED <<spec, log>>

\* One claimed, unskipped, not yet attempted action is attempted.
Perform(e) ==
  /\ \E c \in claims : /\ c.uid = e.uid
                       /\ c.actions[e.id] = e.action /\ ~e.action.skip
  /\ \A k \in DOMAIN log : ~(log[k].uid = e.uid /\ log[k].id = e.id)
  /\ log' = Append(log, e)
  /\ UNCHANGED <<spec, claims>>

Next ==
  \/ Edit
  \/ \E c \in claims' : Claim(c)
  \/ Perform(log'[Len(log')])

Spec == Init /\ [][Next]_vars
=============================================================================
