-------------------------- MODULE ReadinessDecision --------------------------
(***************************************************************************)
(* How a verdict on an upgrade comes about (internal/analysis): Calculate  *)
(* scores a snapshot and decides, ApplyAIScore blends the score of the AI  *)
(* in and decides again, ApplyGraphDecision has the last word.             *)
(*                                                                         *)
(* The score is a gauge, the decision is the gate: what stops an upgrade   *)
(* is a fact of the cluster, never a number.  Two pieces of code look at   *)
(* those facts, decide and collectBlockers, and must agree.                *)
(*                                                                         *)
(* Ratios are exact fractions here, truncated where the code truncates.    *)
(***************************************************************************)
EXTENDS Integers

CONSTANTS
  Snapshots,  \* the snapshots of the cluster, with the add-ons and the graph
  AIScores    \* the scores the AI may answer with

Profiles == {"production", "non-production"}

\* notReady, restarting: pods; cpu, mem: requests in percent of the capacity;
\* addons: incompatible add-ons; lost: a volume claim is Lost; trouble: with
\* what, other than pods.
Troubles == {"none", "nodes", "workloads"}
Snapshot == [pods : Nat, notReady : Nat, restarting : Nat, restarts : Nat,
             prevPods : Nat, prevRestarts : Nat, cpu : Nat, mem : Nat,
             pdb : BOOLEAN, deprecated : Nat, addons : Nat, lost : BOOLEAN,
             trouble : Troubles]

\* parseAIResponse refuses any other score.
ASSUME SnapshotsAssumption ==
  /\ \A s \in Snapshots : s \in Snapshot
  /\ AIScores \subseteq 0 .. 100

VARIABLES
  stage,    \* the calls made so far
  snap, profile,
  report    \* the scores and the decision
vars == <<stage, snap, profile, report>>

-----------------------------------------------------------------------------
(* The gauge.                                                              *)

NonZero(v) == IF v = 0 THEN 1 ELSE v
Clamp(v, max) == IF v < 0 THEN 0 ELSE IF v > max THEN max ELSE v
CapPenalty(v, limit) == IF v < 0 THEN 0 ELSE IF v > limit THEN limit ELSE v

\* budget - num/den, truncated.
Less(budget, num, den) == (budget * den - num) \div den

Health(s) ==
  Clamp(Less(25, 15 * s.notReady + 10 * s.restarting, NonZero(s.pods)), 25)

Capacity(s) == Clamp(Less(30, 15 * s.cpu + 15 * s.mem, 100), 30)

StabilityOfAnyChange(s) ==
  LET n == NonZero(s.pods)
      change == IF s.prevPods > s.pods THEN s.prevPods - s.pods
                ELSE s.pods - s.prevPods
      crash == CapPenalty(20 * s.restarting, 20 * n)
      restart == CapPenalty((s.restarts - s.prevRestarts) * n, 12 * n)
  IN Clamp(Less(20, crash + restart + CapPenalty(20 * change, 8 * n), 2 * n), 20)

\* Crash loops up to 10, new restarts (half a point each) up to 6, pods lost
\* up to 4; over twice the number of pods.
Stability(s) ==
  LET n == NonZero(s.pods)
      crash == CapPenalty(20 * s.restarting, 20 * n)
      restart == CapPenalty((s.restarts - s.prevRestarts) * n, 12 * n)
      drop == CapPenalty(20 * (s.prevPods - s.pods), 8 * n)
  IN Clamp(Less(20, crash + restart + drop, 2 * n), 20)

\* 25 * 0.6^n for n issues, an incompatible add-on being two.
Decayed == <<25, 15, 9, 5, 3, 1, 1>>
Compatibility(s) ==
  LET n == s.deprecated + 2 * s.addons
  IN IF n < 7 THEN Decayed[n + 1] ELSE 0

Base(s) == Health(s) + Capacity(s) + Stability(s) + Compatibility(s)

-----------------------------------------------------------------------------
(* The gate.                                                               *)

WarnPercent(p) == IF p = "non-production" THEN 15 ELSE 5
BlockPercent(p) == IF p = "non-production" THEN 60 ELSE 30
SafeThreshold(p) == IF p = "non-production" THEN 85 ELSE 90

NotReadyAbove(s, percent) ==
  s.pods > 0 /\ 100 * s.notReady > percent * s.pods

\* buildConditions: what holds of the snapshot under the profile.
Conditions(s, p) ==
  {c \in {"pdb", "cpu", "memory", "unstable", "severe"} :
     \/ c = "pdb" /\ s.pdb
     \/ c = "cpu" /\ s.cpu > 90
     \/ c = "memory" /\ s.mem > 90
     \/ c = "unstable" /\ NotReadyAbove(s, WarnPercent(p))
     \/ c = "severe" /\ NotReadyAbove(s, BlockPercent(p))}
BlockingConditions == {"pdb", "cpu", "memory", "severe"}

Decided(level) == [level |-> level, allow |-> level # "CRITICAL"]
DecideByScore(total, c, p) ==
  IF total < 50 THEN Decided("CRITICAL")
  ELSE IF total < SafeThreshold(p) THEN Decided("WARNING") ELSE Decided("SAFE")
Decide(total, c, p) ==
  IF c \cap BlockingConditions # {} THEN Decided("CRITICAL")
  ELSE IF "unstable" \in c \/ total < SafeThreshold(p)
       THEN Decided("WARNING") ELSE Decided("SAFE")

\* float64(base) * 0.7, truncated: 90 * 0.7 is a little less than 63.
BaseShare(base) == IF base = 90 THEN 62 ELSE (7 * base) \div 10
AIShare(ai) == (3 * ai) \div 10
Blend(base, ai) == BaseShare(base) + AIShare(ai)

\* buildReason: the first of these that holds. Every pod that is not ready is
\* one of the snapshot's pod issues.
Reason(level, c, s) ==
  IF "pdb" \in c THEN "pdb"
  ELSE IF s.trouble = "nodes" THEN "nodes"
  ELSE IF "cpu" \in c THEN "cpu"
  ELSE IF "memory" \in c THEN "memory"
  ELSE IF "unstable" \in c THEN "pods"
  ELSE IF s.trouble = "workloads" THEN "workloads"
  ELSE IF s.deprecated > 0 THEN "deprecated"
  ELSE IF s.addons > 0 THEN "addon"
  ELSE IF level = "SAFE" THEN "ready" ELSE "attention"

\* collectBlockers.
BlockersNoMemory(c, s) ==
  (c \cap {"pdb", "cpu", "severe"})
    \cup (IF s.addons > 0 THEN {"addon"} ELSE {})
    \cup (IF s.lost THEN {"lost"} ELSE {})
Blockers(c, s) ==
  (c \cap {"pdb", "cpu", "memory", "severe"})
    \cup (IF s.addons > 0 THEN {"addon"} ELSE {})
    \cup (IF s.lost THEN {"lost"} ELSE {})

-----------------------------------------------------------------------------
(* The calls, each on the report of the one before.                        *)

NoReport == [level |-> "", allow |-> FALSE, base |-> 0, total |-> 0, ai |-> -1,
             conditions |-> {}, blockers |-> {}, reason |-> ""]

Calculated(s, p) ==
  LET d == Decide(Base(s), Conditions(s, p), p)
  IN [level |-> d.level, allow |-> d.allow, base |-> Base(s), total |-> Base(s),
      ai |-> -1, conditions |-> Conditions(s, p), blockers |-> {},
      reason |-> Reason(d.level, Conditions(s, p), s)]

Blended(r, p, ai) ==
  LET d == Decide(Blend(r.base, ai), r.conditions, p)
  IN [r EXCEPT !.level = d.level, !.allow = d.allow, !.ai = ai,
               !.total = Blend(r.base, ai)]

Finalised(r, s) ==
  LET b == Blockers(r.conditions, s)
  IN IF b = {} THEN r
     ELSE [r EXCEPT !.blockers = b, !.level = "CRITICAL", !.allow = FALSE]

Calculate ==
  /\ stage = "collected"
  /\ stage' = "calculated"
  /\ report' = Calculated(snap, profile)
  /\ UNCHANGED <<snap, profile>>

\* Only when the AI is enabled and answers.
ApplyAIScore(ai) ==
  /\ stage = "calculated"
  /\ stage' = "blended"
  /\ report' = Blended(report, profile, ai)
  /\ UNCHANGED <<snap, profile>>

ApplyGraphDecision ==
  /\ stage \in {"calculated", "blended"}
  /\ stage' = "final"
  /\ report' = Finalised(report, snap)
  /\ UNCHANGED <<snap, profile>>

Init ==
  /\ stage = "collected"
  /\ snap \in Snapshots /\ profile \in Profiles
  /\ report = NoReport

Next ==
  \/ Calculate
  \/ \E ai \in AIScores : ApplyAIScore(ai)
  \/ ApplyGraphDecision

Spec == Init /\ [][Next]_vars

-----------------------------------------------------------------------------
(* Properties.                                                             *)

Levels == {"SAFE", "WARNING", "CRITICAL"}
Reasons == {"", "pdb", "nodes", "cpu", "memory", "pods", "workloads",
            "deprecated", "addon", "ready", "attention"}
AllConditions == BlockingConditions \cup {"unstable"}
Report == [level : Levels \cup {""}, allow : BOOLEAN, base : 0 .. 100,
           total : 0 .. 100, ai : -1 .. 100, conditions : SUBSET AllConditions,
           blockers : SUBSET (BlockingConditions \cup {"addon", "lost"}),
           reason : Reasons]

\* The scores stay between 0 and 100, whatever the counts of the snapshot: a
\* counter that went back, more pods lost than there are, hundreds of issues.
TypeOK ==
  /\ stage \in {"collected", "calculated", "blended", "final"}
  /\ snap \in Snapshot /\ profile \in Profiles
  /\ report \in Report

\* decide and collectBlockers agree: an upgrade is stopped exactly if it is
\* CRITICAL, exactly if a reason is recorded.
StoppedForAReason ==
  stage = "final" => /\ report.level = "CRITICAL" <=> report.blockers # {}
                     /\ report.allow <=> report.blockers = {}

\* "The score alone never blocks an upgrade": whatever the AI answers, what
\* was allowed stays allowed and what was stopped stays stopped.
AIIsNoGate ==
  [][stage = "calculated" /\ stage' = "blended"
       => report'.allow = report.allow]_vars

\* A cluster with more broken pods than the profile bears is never SAFE, how
\* good its score may be; neither is one below the threshold of the profile.
UnstableIsNotSafe ==
  stage = "final" /\ report.level = "SAFE" =>
    /\ 100 * snap.notReady <= WarnPercent(profile) * snap.pods \/ snap.pods = 0
    /\ report.total >= SafeThreshold(profile)

\* One step worse in one respect.
Worsenings(s) ==
  {w \in {[s EXCEPT !.notReady = @ + 1], [s EXCEPT !.restarting = @ + 1],
          [s EXCEPT !.restarts = @ + 1], [s EXCEPT !.prevPods = @ + 1],
          [s EXCEPT !.cpu = @ + 1], [s EXCEPT !.mem = @ + 1],
          [s EXCEPT !.pdb = TRUE], [s EXCEPT !.deprecated = @ + 1],
          [s EXCEPT !.addons = @ + 1], [s EXCEPT !.lost = TRUE]} :
     w.notReady <= w.pods /\ w.restarting <= w.pods}

Rank(level) == CASE level = "SAFE" -> 0 [] level = "WARNING" -> 1
                 [] OTHER -> 2
Verdict(s, p, ai) ==
  Finalised(IF ai < 0 THEN Calculated(s, p) ELSE Blended(Calculated(s, p), p, ai),
            s)

\* A cluster that is worse in any respect never gets the better score or the
\* milder decision: no penalty is a bonus in disguise.
WorseIsNoBetter ==
  stage = "final" =>
    \A w \in Worsenings(snap) :
      LET v == Verdict(w, profile, report.ai)
      IN v.total <= report.total /\ Rank(v.level) >= Rank(report.level)
=============================================================================
