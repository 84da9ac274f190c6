-------------------------- MODULE IntervalSnapshot --------------------------
(***************************************************************************)
(* What a snapshot of the cluster promises, although it is put together    *)
(* from lists that are read one after another.                             *)
(*                                                                         *)
(* The collector never holds the whole cluster still, so there need not be *)
(* a moment at which the cluster was as the snapshot says.  What is        *)
(* promised instead is about the interval from the first list to the last: *)
(* the snapshot says nothing but what follows from states that objects had *)
(* at some time in the interval, and whatever follows from the states of   *)
(* objects that did not change in the interval is in it.                   *)
(*                                                                         *)
(* A sighting is a pair of an object and the state it was seen in, where   *)
(* Absent is a state.                                                      *)
(***************************************************************************)

CONSTANTS
  Says(_),      \* the facts that follow from a set of sightings
  Covers(_, _), \* Covers(g, f): fact g stands for f in a snapshot
  Blanks,       \* sets of sightings that a list which failed may be taken for
  Pending,      \* no answer yet
  Failed        \* the answer is an error and no snapshot

VARIABLES
  world,        \* the sightings one could make now
  always,       \* those that could be made all the time since the start
  sometime,     \* those that could be made at some time since the start
  answer

vars == <<world, always, sometime, answer>>

Init ==
  /\ always = world
  /\ sometime = world
  /\ answer = Pending

\* An object changes while the snapshot is being taken.
Change ==
  /\ answer = Pending
  /\ always' = always \cap world'
  /\ sometime' = sometime \cup world'
  /\ UNCHANGED answer

\* A list that may fail without consequence is taken for an empty one: what
\* it would have shown counts as absent for a moment.
Overlook(blank) ==
  /\ answer = Pending
  /\ sometime' = sometime \cup blank
  /\ always' = {s \in always : \A b \in blank : b[1] = s[1] => b = s}
  /\ UNCHANGED <<world, answer>>

\* The snapshot is returned.
Answer ==
  /\ answer = Pending
  /\ answer' # Failed /\ answer' # Pending
  /\ answer' \subseteq Says(sometime)
  /\ \A f \in Says(always) : \E g \in answer' : Covers(g, f)
  /\ UNCHANGED <<world, always, sometime>>

\* The caller gets an error, and nothing of what was read.
GiveUp ==
  /\ answer = Pending
  /\ answer' = Failed
  /\ UNCHANGED <<world, always, sometime>>

Next ==
  \/ Change
  \/ \E blank \in Blanks : Overlook(blank)
  \/ Answer
  \/ GiveUp

Spec == Init /\ [][Next]_vars

=============================================================================
