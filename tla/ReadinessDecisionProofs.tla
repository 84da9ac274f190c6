----------------------- MODULE ReadinessDecisionProofs -----------------------
(* Theorems about ReadinessDecision, for all snapshots and all scores.     *)
EXTENDS ReadinessDecision, TLAPS

\* Scores are clamped, whatever the penalties were.
LEMMA ClampBounds ==
  ASSUME NEW v \in Int, NEW max \in Nat
  PROVE  Clamp(v, max) \in 0 .. max
BY DEF Clamp

LEMMA LessIsInt ==
  ASSUME NEW budget \in Nat, NEW num \in Int, NEW den \in Nat \ {0}
  PROVE  Less(budget, num, den) \in Int
BY DEF Less

LEMMA CapPenaltyIsInt ==
  ASSUME NEW v \in Int, NEW limit \in Int
  PROVE  CapPenalty(v, limit) \in Int
BY DEF CapPenalty

\* Four budgets of 25, 30, 20 and 25 make a score of at most 100.
LEMMA BaseBounds ==
  ASSUME NEW s \in Snapshot
  PROVE  Base(s) \in 0 .. 100
<1> DEFINE n == NonZero(s.pods)
<1>1. n \in Nat \ {0}
  BY DEF NonZero, Snapshot
<1>2. Health(s) \in 0 .. 25
  <2>1. 15 * s.notReady + 10 * s.restarting \in Int
    BY DEF Snapshot
  <2> QED BY <1>1, <2>1, LessIsInt, ClampBounds DEF Health
<1>3. Capacity(s) \in 0 .. 30
  <2>1. 15 * s.cpu + 15 * s.mem \in Int
    BY DEF Snapshot
  <2>2. Less(30, 15 * s.cpu + 15 * s.mem, 100) \in Int
    BY <2>1, LessIsInt
  <2> QED BY <2>2, ClampBounds DEF Capacity
<1>4. Stability(s) \in 0 .. 20
  <2> DEFINE crash == CapPenalty(20 * s.restarting, 20 * n)
             restart == CapPenalty((s.restarts - s.prevRestarts) * n, 12 * n)
             drop == CapPenalty(20 * (s.prevPods - s.pods), 8 * n)
  <2>1. crash \in Int
    BY <1>1, CapPenaltyIsInt DEF Snapshot
  <2>2. restart \in Int
    <3>1. (s.restarts - s.prevRestarts) * n \in Int
      BY <1>1 DEF Snapshot
    <3> QED BY <1>1, <3>1, CapPenaltyIsInt
  <2>3. drop \in Int
    BY <1>1, CapPenaltyIsInt DEF Snapshot
  <2>4. Stability(s) = Clamp(Less(20, crash + restart + drop, 2 * n), 20)
    BY DEF Stability
  <2> HIDE DEF crash, restart, drop, n
  <2>5. Less(20, crash + restart + drop, 2 * n) \in Int
    BY <1>1, <2>1, <2>2, <2>3, LessIsInt
  <2> QED BY <2>4, <2>5, ClampBounds
<1>5. Compatibility(s) \in 0 .. 25
  <2>1. s.deprecated + 2 * s.addons \in Nat
    BY DEF Snapshot
  <2>2. \A i \in 1 .. 7 : Decayed[i] \in 0 .. 25
    BY DEF Decayed
  <2> QED BY <2>1, <2>2 DEF Compatibility
<1> QED BY <1>2, <1>3, <1>4, <1>5 DEF Base

LEMMA BlendBounds ==
  ASSUME NEW base \in 0 .. 100, NEW ai \in 0 .. 100
  PROVE  Blend(base, ai) \in 0 .. 100
BY DEF Blend, BaseShare, AIShare

\* What decide makes of the conditions: only the blocking ones stop, and SAFE
\* takes a stable cluster and a good score.
LEMMA DecideFacts ==
  ASSUME NEW total \in Int, NEW c \in SUBSET AllConditions, NEW p \in Profiles
  PROVE  /\ Decide(total, c, p).level \in Levels
         /\ Decide(total, c, p).allow \in BOOLEAN
         /\ Decide(total, c, p).allow <=> c \cap BlockingConditions = {}
         /\ Decide(total, c, p).level = "CRITICAL"
              <=> c \cap BlockingConditions # {}
         /\ Decide(total, c, p).level = "SAFE"
              => "unstable" \notin c /\ total >= SafeThreshold(p)
<1> DEFINE d == Decide(total, c, p)
<1>1. SafeThreshold(p) \in Int
  BY DEF SafeThreshold
<1>2. CASE c \cap BlockingConditions # {}
  <2>1. d = Decided("CRITICAL")
    BY <1>2 DEF Decide
  <2> HIDE DEF d
  <2>2. d.level = "CRITICAL" /\ d.allow = FALSE
    BY <2>1 DEF Decided
  <2> QED BY <1>2, <2>2 DEF Levels, d
<1>3. CASE /\ c \cap BlockingConditions = {}
           /\ "unstable" \in c \/ total < SafeThreshold(p)
  <2>1. d = Decided("WARNING")
    BY <1>3 DEF Decide
  <2> HIDE DEF d
  <2>2. d.level = "WARNING" /\ d.allow = TRUE
    BY <2>1 DEF Decided
  <2> QED BY <1>3, <2>2 DEF Levels, d
<1>4. CASE /\ c \cap BlockingConditions = {}
           /\ "unstable" \notin c /\ ~(total < SafeThreshold(p))
  <2>1. d = Decided("SAFE")
    BY <1>4 DEF Decide
  <2>2. total >= SafeThreshold(p)
    BY <1>1, <1>4
  <2> HIDE DEF d
  <2>3. d.level = "SAFE" /\ d.allow = TRUE
    BY <2>1 DEF Decided
  <2> QED BY <1>4, <2>2, <2>3 DEF Levels, d
<1> QED BY <1>2, <1>3, <1>4

\* The conditions are those of the snapshot; before the last word the decision
\* is that of decide, and after it the blockers have been heard.
Coherent ==
  /\ stage # "collected" => report.conditions = Conditions(snap, profile)
  /\ stage \in {"calculated", "blended"} =>
       /\ report.blockers = {}
       /\ report.allow <=> report.conditions \cap BlockingConditions = {}
       /\ report.level = "CRITICAL"
            <=> report.conditions \cap BlockingConditions # {}
  /\ stage # "collected" /\ report.level = "SAFE" =>
       /\ "unstable" \notin report.conditions
       /\ report.total >= SafeThreshold(profile)
  /\ StoppedForAReason

\* What is reported is what the calls make of the snapshot, with the score of the
\* AI (-1: none) that the report names.
Computed ==
  /\ stage = "calculated" => report = Calculated(snap, profile)
  /\ stage = "blended" =>
       /\ report.ai \in 0 .. 100
       /\ report = Blended(Calculated(snap, profile), profile, report.ai)
  /\ stage = "final" => report = Verdict(snap, profile, report.ai)

IInv == TypeOK /\ Coherent /\ Computed

LEMMA ConditionsType ==
  ASSUME NEW s \in Snapshot, NEW p \in Profiles
  PROVE  Conditions(s, p) \in SUBSET AllConditions
BY DEF Conditions, AllConditions, BlockingConditions

THEOREM InitCoherent == Init => IInv
<1> SUFFICES ASSUME Init PROVE IInv
  OBVIOUS
<1>1. NoReport \in Report
  BY DEF NoReport, Report, Levels, Reasons
<1>2. snap \in Snapshot
  BY SnapshotsAssumption DEF Init
<1> QED BY <1>1, <1>2 DEF Init, IInv, TypeOK, Coherent, StoppedForAReason, Computed

LEMMA CalculateStep ==
  ASSUME IInv, Calculate
  PROVE  IInv'
<1> DEFINE c == Conditions(snap, profile)
           t == Base(snap)
           d == Decide(t, c, profile)
<1>1. snap \in Snapshot /\ profile \in Profiles
  BY DEF IInv, TypeOK
<1>2. t \in 0 .. 100
  BY <1>1, BaseBounds
<1>3. c \in SUBSET AllConditions
  BY <1>1, ConditionsType
<1>4. /\ d.level \in Levels
      /\ d.allow \in BOOLEAN /\ (d.allow <=> c \cap BlockingConditions = {})
      /\ d.level = "CRITICAL" <=> c \cap BlockingConditions # {}
      /\ d.level = "SAFE" => "unstable" \notin c /\ t >= SafeThreshold(profile)
  <2>1. t \in Int /\ profile \in Profiles
    BY <1>1, <1>2
  <2> HIDE DEF c, t
  <2>2. d.level \in Levels
    BY <1>3, <2>1, DecideFacts
  <2>3. d.level = "CRITICAL" <=> c \cap BlockingConditions # {}
    BY <1>3, <2>1, DecideFacts
  <2>4. d.level = "SAFE" => "unstable" \notin c /\ t >= SafeThreshold(profile)
    BY <1>3, <2>1, DecideFacts
  <2>5. d.allow \in BOOLEAN
    BY <1>3, <2>1, DecideFacts
  <2>6. d.allow <=> c \cap BlockingConditions = {}
    BY <1>3, <2>1, DecideFacts
  <2> QED BY <2>2, <2>3, <2>4, <2>5, <2>6
<1>5. /\ stage' = "calculated" /\ snap' = snap /\ profile' = profile
      /\ report' = [level |-> d.level, allow |-> d.allow, base |-> t,
                    total |-> t, ai |-> -1, conditions |-> c, blockers |-> {},
                    reason |-> Reason(d.level, c, snap)]
  BY DEF Calculate, Calculated
<1> HIDE DEF c, d, t
<1>6. report' \in Report
  <2>1. report'.level \in Levels \cup {""} /\ report'.allow \in BOOLEAN
    BY <1>4, <1>5
  <2>2. /\ -1 \in -1 .. 100
        /\ {} \in SUBSET (BlockingConditions \cup {"addon", "lost"})
    OBVIOUS
  <2>3. d.level \in Levels \cup {""} /\ d.allow \in BOOLEAN
    BY <1>4
  <2>4. Reason(d.level, c, snap) \in Reasons
    BY DEF Reason, Reasons
  <2> QED BY <1>2, <1>3, <1>5, <2>2, <2>3, <2>4 DEF Report
<1>7. TypeOK'
  BY <1>1, <1>5, <1>6 DEF TypeOK
<1>8. Coherent'
  BY <1>4, <1>5 DEF Coherent, StoppedForAReason, c
<1>9. Computed'
  BY DEF Calculate, Computed
<1> QED BY <1>7, <1>8, <1>9 DEF IInv

LEMMA BlendStep ==
  ASSUME IInv, NEW ai \in AIScores, ApplyAIScore(ai)
  PROVE  IInv' /\ report'.allow = report.allow
<1> DEFINE c == report.conditions
           t == Blend(report.base, ai)
           d == Decide(t, c, profile)
<1>1. snap \in Snapshot /\ profile \in Profiles /\ report \in Report
  BY DEF IInv, TypeOK
<1>2. t \in 0 .. 100
  <2>1. report.base \in 0 .. 100 /\ ai \in 0 .. 100
    BY <1>1, SnapshotsAssumption DEF Report
  <2> QED BY <2>1, BlendBounds
<1>3. c \in SUBSET AllConditions
  BY <1>1 DEF Report
<1>4. /\ d.level \in Levels
      /\ d.allow \in BOOLEAN /\ (d.allow <=> c \cap BlockingConditions = {})
      /\ d.level = "CRITICAL" <=> c \cap BlockingConditions # {}
      /\ d.level = "SAFE" => "unstable" \notin c /\ t >= SafeThreshold(profile)
  <2>1. t \in Int
    BY <1>2
  <2> HIDE DEF c, t
  <2> QED BY <1>1, <1>3, <2>1, DecideFacts
<1>5. /\ stage = "calculated" /\ stage' = "blended"
      /\ snap' = snap /\ profile' = profile
      /\ report' = [report EXCEPT !.level = d.level, !.allow = d.allow,
                                  !.ai = ai, !.total = t]
  BY DEF ApplyAIScore, Blended
<1>6. /\ c = Conditions(snap, profile) /\ report.blockers = {}
      /\ report.allow <=> c \cap BlockingConditions = {}
  BY <1>5 DEF IInv, Coherent
<1> HIDE DEF c, d, t
<1>7. /\ report'.level = d.level /\ report'.allow = d.allow
      /\ report'.total = t /\ report'.conditions = c
      /\ report'.blockers = report.blockers
  BY <1>1, <1>5 DEF Report, c
<1>8. report' \in Report
  <2>1. /\ d.level \in Levels \cup {""} /\ d.allow \in BOOLEAN
        /\ ai \in -1 .. 100
    <3>1. ai \in 0 .. 100
      BY SnapshotsAssumption
    <3>2. ai \in -1 .. 100
      BY <3>1
    <3> QED BY <1>4, <3>2
  <2>2. [report EXCEPT !.level = d.level] \in Report
    BY <1>1, <2>1 DEF Report
  <2>3. [report EXCEPT !.level = d.level, !.allow = d.allow] \in Report
    BY <2>1, <2>2 DEF Report
  <2> QED BY <1>2, <1>5, <2>1, <2>3 DEF Report
<1>9. TypeOK'
  BY <1>1, <1>5, <1>8 DEF TypeOK
<1>10. Coherent'
  BY <1>4, <1>5, <1>6, <1>7 DEF Coherent, StoppedForAReason
<1>11. report'.allow = report.allow
  <2>1. report'.allow \in BOOLEAN /\ report.allow \in BOOLEAN
    BY <1>1, <1>8 DEF Report
  <2>2. report'.allow <=> report.allow
    BY <1>4, <1>6, <1>7
  <2> QED BY <2>1, <2>2
<1>12. Computed'
  <2>1. report'.ai = ai /\ ai \in 0 .. 100
    BY <1>1, <1>5, SnapshotsAssumption DEF Report
  <2>2. report' = Blended(Calculated(snap, profile), profile, ai)
    BY <1>5 DEF IInv, Computed, ApplyAIScore
  <2> QED BY <1>5, <2>1, <2>2 DEF Computed
<1> QED BY <1>9, <1>10, <1>11, <1>12 DEF IInv

LEMMA FinalStep == IInv /\ ApplyGraphDecision => IInv'
<1> SUFFICES ASSUME IInv, ApplyGraphDecision PROVE IInv'
  OBVIOUS
<1> DEFINE c == report.conditions
           b == Blockers(c, snap)
<1>1. snap \in Snapshot /\ profile \in Profiles /\ report \in Report
  BY DEF IInv, TypeOK
<1>2. /\ stage \in {"calculated", "blended"} /\ stage' = "final"
      /\ snap' = snap /\ profile' = profile
      /\ report' = IF b = {} THEN report
                   ELSE [report EXCEPT !.blockers = b, !.level = "CRITICAL",
                                       !.allow = FALSE]
  BY DEF ApplyGraphDecision, Finalised
<1>3. /\ c = Conditions(snap, profile) /\ report.blockers = {}
      /\ report.allow <=> c \cap BlockingConditions = {}
      /\ report.level = "CRITICAL" <=> c \cap BlockingConditions # {}
      /\ report.level = "SAFE" => /\ "unstable" \notin c
                                  /\ report.total >= SafeThreshold(profile)
  BY <1>2 DEF IInv, Coherent
<1>4. /\ b \in SUBSET (BlockingConditions \cup {"addon", "lost"})
      /\ c \cap BlockingConditions # {} => b # {}
  BY DEF Blockers, BlockingConditions
<1> HIDE DEF c, b
<1>5. report' \in Report
  BY <1>1, <1>2, <1>4 DEF Report, Levels
<1>9. Computed'
  <2>1. report'.ai = report.ai /\ report' = Finalised(report, snap)
    BY <1>1, <1>2 DEF Report, ApplyGraphDecision
  <2>2. CASE stage = "calculated"
    <3>1. report = Calculated(snap, profile)
      BY <2>2 DEF IInv, Computed
    <3>2. report.ai = -1
      BY <3>1 DEF Calculated
    <3> QED BY <1>2, <2>1, <3>1, <3>2 DEF Computed, Verdict
  <2>3. CASE stage = "blended"
    <3>1. /\ report.ai \in 0 .. 100
          /\ report = Blended(Calculated(snap, profile), profile, report.ai)
      BY <2>3 DEF IInv, Computed
    <3>2. ~(report.ai < 0)
      BY <3>1
    <3> QED BY <1>2, <2>1, <3>1, <3>2 DEF Computed, Verdict
  <2> QED BY <1>2, <2>2, <2>3
<1>6. TypeOK'
  BY <1>1, <1>2, <1>5 DEF TypeOK
<1>7. CASE b = {}
  <2>1. report' = report
    BY <1>2, <1>7
  <2>2. Coherent'
    BY <1>2, <1>3, <1>4, <1>7, <2>1 DEF Coherent, StoppedForAReason, c
  <2> QED BY <1>6, <1>9, <2>2 DEF IInv
<1>8. CASE b # {}
  <2>1. /\ report'.blockers = b /\ report'.level = "CRITICAL"
        /\ report'.allow = FALSE /\ report'.conditions = c
    BY <1>1, <1>2, <1>8 DEF Report, c
  <2>2. Coherent'
    BY <1>2, <1>3, <1>8, <2>1 DEF Coherent, StoppedForAReason
  <2> QED BY <1>6, <1>9, <2>2 DEF IInv
<1> QED BY <1>7, <1>8

\* Everything below rests on this invariant: decide has judged the conditions
\* of the snapshot, and the AI cannot change them.
THEOREM Coherence == Spec => []IInv
<1>1. Init => IInv
  BY InitCoherent
<1>2. IInv /\ [Next]_vars => IInv'
  <2> SUFFICES ASSUME IInv, [Next]_vars PROVE IInv'
    OBVIOUS
  <2>1. CASE UNCHANGED vars
    BY <2>1 DEF vars, IInv, TypeOK, Coherent, StoppedForAReason, Computed
  <2> QED BY <2>1, CalculateStep, BlendStep, FinalStep DEF Next
<1> QED BY <1>1, <1>2, PTL DEF Spec

\* The scores of every report of every snapshot are between 0 and 100.
THEOREM ScoresInRange == Spec => []TypeOK
<1>1. IInv => TypeOK
  BY DEF IInv
<1> QED BY <1>1, Coherence, PTL

\* Every upgrade that is stopped is stopped for a recorded reason, every
\* recorded reason stops it.
THEOREM StopsForAReason == Spec => []StoppedForAReason
<1>1. IInv => StoppedForAReason
  BY DEF IInv, Coherent
<1> QED BY <1>1, Coherence, PTL

\* No answer of the AI turns an allowed upgrade into a stopped one, or back.
THEOREM AIOpensNoGate == Spec => AIIsNoGate
<1>1. IInv /\ [Next]_vars
        => [stage = "calculated" /\ stage' = "blended"
              => report'.allow = report.allow]_vars
  <2> SUFFICES ASSUME IInv, [Next]_vars,
                      stage = "calculated", stage' = "blended"
               PROVE  report'.allow = report.allow
    OBVIOUS
  <2>1. PICK ai \in AIScores : ApplyAIScore(ai)
    BY DEF Next, vars, Calculate, ApplyGraphDecision
  <2> QED BY <2>1, BlendStep
<1> QED BY <1>1, Coherence, PTL DEF Spec, AIIsNoGate

\* SAFE is only ever said of a cluster within what its profile bears.
THEOREM SafeIsStable == Spec => []UnstableIsNotSafe
<1>1. IInv => UnstableIsNotSafe
  <2> SUFFICES ASSUME IInv, stage = "final", report.level = "SAFE"
               PROVE  /\ \/ 100 * snap.notReady <= WarnPercent(profile) * snap.pods
                         \/ snap.pods = 0
                      /\ report.total >= SafeThreshold(profile)
    BY DEF UnstableIsNotSafe
  <2>1. /\ "unstable" \notin Conditions(snap, profile)
        /\ report.total >= SafeThreshold(profile)
    BY DEF IInv, Coherent
  <2>2. snap.pods \in Nat /\ snap.notReady \in Nat
    BY DEF IInv, TypeOK, Snapshot
  <2>3. ~NotReadyAbove(snap, WarnPercent(profile))
    BY <2>1 DEF Conditions
  <2>4. WarnPercent(profile) \in Nat
    BY DEF WarnPercent
  <2> QED BY <2>1, <2>2, <2>3, <2>4 DEF NotReadyAbove
<1> QED BY <1>1, Coherence, PTL

-----------------------------------------------------------------------------
(* Every penalty grows with what it is for.                                *)

LEMMA TimesGrows ==
  ASSUME NEW a \in Int, NEW b \in Int, NEW d \in Nat, a <= b
  PROVE  a * d <= b * d
OBVIOUS

LEMMA DivGrows ==
  ASSUME NEW a \in Int, NEW b \in Int, NEW d \in Nat \ {0}, a <= b
  PROVE  a \div d <= b \div d
OBVIOUS

LEMMA LessShrinks ==
  ASSUME NEW budget \in Nat, NEW a \in Int, NEW b \in Int, NEW d \in Nat \ {0}, a <= b
  PROVE  Less(budget, b, d) <= Less(budget, a, d)
<1>1. PICK m \in Int : m = budget * d
  OBVIOUS
<1>2. m - b \in Int /\ m - a \in Int /\ m - b <= m - a
  OBVIOUS
<1>3. (m - b) \div d <= (m - a) \div d
  BY <1>2, DivGrows
<1> QED BY <1>1, <1>3 DEF Less

LEMMA ClampGrows ==
  ASSUME NEW a \in Int, NEW b \in Int, NEW max \in Nat, a <= b
  PROVE  Clamp(a, max) <= Clamp(b, max)
BY DEF Clamp

LEMMA CapPenaltyGrows ==
  ASSUME NEW a \in Int, NEW b \in Int, NEW limit \in Nat, a <= b
  PROVE  CapPenalty(a, limit) <= CapPenalty(b, limit)
BY DEF CapPenalty

\* Two snapshots of as many pods, w in no respect better than s.
Worse(s, w) ==
  /\ s \in Snapshot /\ w \in Snapshot
  /\ w.pods = s.pods /\ w.prevRestarts = s.prevRestarts
  /\ s.notReady <= w.notReady /\ s.restarting <= w.restarting
  /\ s.restarts <= w.restarts /\ s.prevPods <= w.prevPods
  /\ s.cpu <= w.cpu /\ s.mem <= w.mem
  /\ s.deprecated <= w.deprecated /\ s.addons <= w.addons
  /\ s.pdb => w.pdb
  /\ s.lost => w.lost

LEMMA Counts ==
  ASSUME NEW s \in Snapshot
  PROVE  /\ s.pods \in Nat /\ s.notReady \in Nat /\ s.restarting \in Nat
         /\ s.restarts \in Nat /\ s.prevPods \in Nat /\ s.prevRestarts \in Nat
         /\ s.cpu \in Nat /\ s.mem \in Nat /\ s.deprecated \in Nat
         /\ s.addons \in Nat /\ s.pdb \in BOOLEAN /\ s.lost \in BOOLEAN
BY DEF Snapshot

LEMMA WorseningsAreWorse ==
  ASSUME NEW s \in Snapshot, NEW w \in Worsenings(s)
  PROVE  Worse(s, w)
<1>1. PICK f \in {"notReady", "restarting", "restarts", "prevPods", "cpu", "mem",
                 "deprecated", "addons", "pdb", "lost"} :
        w = [s EXCEPT ![f] = IF f \in {"pdb", "lost"} THEN TRUE ELSE @ + 1]
  BY DEF Worsenings
<1>2. CASE f \in {"pdb", "lost"}
  <2>1. w = [s EXCEPT ![f] = TRUE]
    BY <1>1, <1>2
  <2>2. w \in Snapshot
    BY <1>2, <2>1 DEF Snapshot
  <2>3. /\ \A g \in {"pods", "notReady", "restarting", "restarts", "prevPods",
                     "prevRestarts", "cpu", "mem", "deprecated", "addons"} :
              w[g] = s[g] /\ s[g] \in Nat
        /\ s.pdb => w.pdb
        /\ s.lost => w.lost
    BY <1>2, <2>1 DEF Snapshot
  <2>4. \A k \in Nat : k <= k
    OBVIOUS
  <2> QED BY <2>2, <2>3, <2>4 DEF Worse
<1>3. CASE f \notin {"pdb", "lost"}
  <2>1. PICK k \in Nat : k = s[f]
    BY <1>1, <1>3 DEF Snapshot
  <2>2. w = [s EXCEPT ![f] = k + 1] /\ k + 1 \in Nat
    BY <1>1, <1>3, <2>1
  <2>3. w \in Snapshot
    BY <1>1, <1>3, <2>2 DEF Snapshot
  <2>4. w.pods = s.pods /\ w.prevRestarts = s.prevRestarts
        /\ w.pdb = s.pdb /\ w.lost = s.lost
    BY <1>1, <1>3, <2>2 DEF Snapshot
  <2>5. \A g \in {"notReady", "restarting", "restarts", "prevPods", "cpu", "mem",
                  "deprecated", "addons"} : s[g] \in Nat /\ s[g] <= w[g]
    <3> TAKE g \in {"notReady", "restarting", "restarts", "prevPods", "cpu", "mem",
                    "deprecated", "addons"}
    <3>1. s[g] \in Nat
      BY DEF Snapshot
    <3>2. CASE g = f
      BY <2>1, <2>2, <3>1, <3>2 DEF Snapshot
    <3>3. CASE g # f
      <4>1. w[g] = s[g]
        BY <2>2, <3>3 DEF Snapshot
      <4> QED BY <3>1, <4>1
    <3> QED BY <3>2, <3>3
  <2> QED BY <2>3, <2>4, <2>5 DEF Worse
<1> QED BY <1>2, <1>3

\* No part of the score grows when the cluster gets worse.
LEMMA BaseShrinks ==
  ASSUME NEW s, NEW w, Worse(s, w)
  PROVE  Base(w) <= Base(s)
<1>1. PICK n \in Nat \ {0} : n = NonZero(s.pods) /\ n = NonZero(w.pods)
  BY Counts DEF NonZero, Worse
<1>2. Health(w) \in Int /\ Health(s) \in Int /\ Health(w) <= Health(s)
  <2>1. PICK a \in Int, b \in Int : /\ a = 15 * s.notReady + 10 * s.restarting
                                  /\ b = 15 * w.notReady + 10 * w.restarting
                                  /\ a <= b
    BY Counts DEF Worse
  <2>2. Less(25, b, n) \in Int /\ Less(25, a, n) \in Int
        /\ Less(25, b, n) <= Less(25, a, n)
    BY <2>1, LessShrinks, LessIsInt
  <2>3. Clamp(Less(25, b, n), 25) <= Clamp(Less(25, a, n), 25)
    BY <2>2, ClampGrows
  <2> QED BY <1>1, <2>1, <2>2, <2>3, ClampBounds DEF Health
<1>3. Capacity(w) \in Int /\ Capacity(s) \in Int /\ Capacity(w) <= Capacity(s)
  <2>1. PICK a \in Int, b \in Int : /\ a = 15 * s.cpu + 15 * s.mem
                                  /\ b = 15 * w.cpu + 15 * w.mem
                                  /\ a <= b
    BY Counts DEF Worse
  <2>2. Less(30, b, 100) \in Int /\ Less(30, a, 100) \in Int
        /\ Less(30, b, 100) <= Less(30, a, 100)
    <3>1. 30 \in Nat /\ 100 \in Nat \ {0}
      OBVIOUS
    <3> QED BY <2>1, <3>1, LessShrinks, LessIsInt
  <2>3. Clamp(Less(30, b, 100), 30) <= Clamp(Less(30, a, 100), 30)
    BY <2>2, ClampGrows
  <2> QED BY <2>1, <2>2, <2>3, ClampBounds DEF Capacity
<1>4. Stability(w) \in Int /\ Stability(s) \in Int /\ Stability(w) <= Stability(s)
  <2> DEFINE crash(r) == CapPenalty(20 * r.restarting, 20 * n)
             restart(r) == CapPenalty((r.restarts - r.prevRestarts) * n, 12 * n)
             drop(r) == CapPenalty(20 * (r.prevPods - r.pods), 8 * n)
  <2>1. crash(s) \in Int /\ crash(w) \in Int /\ crash(s) <= crash(w)
    <3>1. PICK a \in Int, b \in Int : /\ a = 20 * s.restarting
                                    /\ b = 20 * w.restarting /\ a <= b
      BY Counts DEF Worse
    <3>2. PICK m \in Nat : m = 20 * n
      OBVIOUS
    <3>3. /\ CapPenalty(a, m) \in Int /\ CapPenalty(b, m) \in Int
          /\ CapPenalty(a, m) <= CapPenalty(b, m)
      <4>1. m \in Int
        OBVIOUS
      <4>2. CapPenalty(a, m) \in Int /\ CapPenalty(b, m) \in Int
        BY <4>1, CapPenaltyIsInt
      <4> QED BY <3>1, <4>2, CapPenaltyGrows
    <3> QED BY <3>1, <3>2, <3>3
  <2>2. restart(s) \in Int /\ restart(w) \in Int /\ restart(s) <= restart(w)
    <3>1. PICK a \in Int, b \in Int : /\ a = s.restarts - s.prevRestarts
                                    /\ b = w.restarts - w.prevRestarts /\ a <= b
      BY Counts DEF Worse
    <3>2. PICK c \in Int, d \in Int : c = a * n /\ d = b * n /\ c <= d
      BY <3>1, TimesGrows
    <3>3. PICK m \in Nat : m = 12 * n
      OBVIOUS
    <3>4. /\ CapPenalty(c, m) \in Int /\ CapPenalty(d, m) \in Int
          /\ CapPenalty(c, m) <= CapPenalty(d, m)
      <4>1. m \in Int
        OBVIOUS
      <4>2. CapPenalty(c, m) \in Int /\ CapPenalty(d, m) \in Int
        BY <4>1, CapPenaltyIsInt
      <4> QED BY <3>2, <4>2, CapPenaltyGrows
    <3> QED BY <3>1, <3>2, <3>3, <3>4
  <2>3. drop(s) \in Int /\ drop(w) \in Int /\ drop(s) <= drop(w)
    <3>1. PICK a \in Int, b \in Int : /\ a = 20 * (s.prevPods - s.pods)
                                    /\ b = 20 * (w.prevPods - w.pods) /\ a <= b
      BY Counts DEF Worse
    <3>2. PICK m \in Nat : m = 8 * n
      OBVIOUS
    <3>3. /\ CapPenalty(a, m) \in Int /\ CapPenalty(b, m) \in Int
          /\ CapPenalty(a, m) <= CapPenalty(b, m)
      <4>1. m \in Int
        OBVIOUS
      <4>2. CapPenalty(a, m) \in Int /\ CapPenalty(b, m) \in Int
        BY <4>1, CapPenaltyIsInt
      <4> QED BY <3>1, <4>2, CapPenaltyGrows
    <3> QED BY <3>1, <3>2, <3>3
  <2>4. /\ Stability(s) = Clamp(Less(20, crash(s) + restart(s) + drop(s), 2 * n), 20)
        /\ Stability(w) = Clamp(Less(20, crash(w) + restart(w) + drop(w), 2 * n), 20)
    BY <1>1 DEF Stability
  <2> HIDE DEF crash, restart, drop
  <2>5. PICK a \in Int, b \in Int : /\ a = crash(s) + restart(s) + drop(s)
                                  /\ b = crash(w) + restart(w) + drop(w) /\ a <= b
    BY <2>1, <2>2, <2>3
  <2>6. 2 * n \in Nat \ {0}
    OBVIOUS
  <2>7. Less(20, b, 2 * n) \in Int /\ Less(20, a, 2 * n) \in Int
        /\ Less(20, b, 2 * n) <= Less(20, a, 2 * n)
    BY <2>5, <2>6, LessShrinks, LessIsInt
  <2>8. Clamp(Less(20, b, 2 * n), 20) <= Clamp(Less(20, a, 2 * n), 20)
    BY <2>7, ClampGrows
  <2> QED BY <2>4, <2>5, <2>7, <2>8, ClampBounds
<1>5. Compatibility(w) \in Int /\ Compatibility(s) \in Int
      /\ Compatibility(w) <= Compatibility(s)
  <2>1. PICK a \in Nat, b \in Nat : /\ a = s.deprecated + 2 * s.addons
                                  /\ b = w.deprecated + 2 * w.addons /\ a <= b
    BY Counts DEF Worse
  <2>2. /\ \A i \in 1 .. 7 : Decayed[i] \in Nat
        /\ \A i, j \in 1 .. 7 : i <= j => Decayed[j] <= Decayed[i]
    BY DEF Decayed
  <2> QED BY <2>1, <2>2 DEF Compatibility
<1> QED BY <1>2, <1>3, <1>4, <1>5 DEF Base

LEMMA ConditionsGrow ==
  ASSUME NEW s, NEW w, NEW p \in Profiles, Worse(s, w)
  PROVE  Conditions(s, p) \subseteq Conditions(w, p)
<1>1. WarnPercent(p) \in Nat /\ BlockPercent(p) \in Nat
  BY DEF WarnPercent, BlockPercent
<1>2. ASSUME NEW q \in Nat, NotReadyAbove(s, q)
      PROVE  NotReadyAbove(w, q)
  <2>1. PICK k \in Int : k = q * s.pods /\ k = q * w.pods
    BY Counts DEF Worse
  <2> QED BY <1>2, <2>1, Counts DEF NotReadyAbove, Worse
<1>3. s.cpu > 90 => w.cpu > 90
  BY Counts DEF Worse
<1>4. s.mem > 90 => w.mem > 90
  BY Counts DEF Worse
<1> QED BY <1>1, <1>2, <1>3, <1>4 DEF Conditions, Worse

LEMMA BlockersGrow ==
  ASSUME NEW s, NEW w, NEW c, NEW d, Worse(s, w), c \subseteq d
  PROVE  Blockers(c, s) \subseteq Blockers(d, w)
<1>1. s.addons > 0 => w.addons > 0
  BY Counts DEF Worse
<1> QED BY <1>1 DEF Blockers, Worse

LEMMA BlendGrows ==
  ASSUME NEW a \in 0 .. 100, NEW b \in 0 .. 100, NEW ai \in 0 .. 100, a <= b
  PROVE  Blend(a, ai) <= Blend(b, ai)
BY DEF Blend, BaseShare, AIShare

\* More conditions and a lower score: no milder a decision.
LEMMA DecideWorsens ==
  ASSUME NEW a \in Int, NEW b \in Int, NEW c, NEW d, NEW p \in Profiles,
         a <= b, c \subseteq d
  PROVE  Rank(Decide(b, c, p).level) <= Rank(Decide(a, d, p).level)
<1>1. SafeThreshold(p) \in Int
  BY DEF SafeThreshold
<1>2. /\ Decided("SAFE").level = "SAFE" /\ Decided("WARNING").level = "WARNING"
      /\ Decided("CRITICAL").level = "CRITICAL"
  BY DEF Decided
<1>3. Rank("SAFE") = 0 /\ Rank("WARNING") = 1 /\ Rank("CRITICAL") = 2
  BY DEF Rank
<1>4. /\ d \cap BlockingConditions = {} => c \cap BlockingConditions = {}
      /\ "unstable" \in c => "unstable" \in d
      /\ b < SafeThreshold(p) => a < SafeThreshold(p)
  BY <1>1
<1> QED BY <1>2, <1>3, <1>4 DEF Decide

\* What the report of a snapshot and an answer of the AI says, in one place.
LEMMA VerdictParts ==
  ASSUME NEW s \in Snapshot, NEW p \in Profiles, NEW ai \in -1 .. 100
  PROVE  LET c == Conditions(s, p)
             t == IF ai < 0 THEN Base(s) ELSE Blend(Base(s), ai)
         IN /\ t \in 0 .. 100
            /\ Verdict(s, p, ai).total = t
            /\ Verdict(s, p, ai).level = IF Blockers(c, s) = {}
                                         THEN Decide(t, c, p).level
                                         ELSE "CRITICAL"
<1> DEFINE c == Conditions(s, p)
           b == Blockers(c, s)
           base == Base(s)
           t == IF ai < 0 THEN base ELSE Blend(base, ai)
           r == IF ai < 0 THEN Calculated(s, p)
                ELSE Blended(Calculated(s, p), p, ai)
<1>1. t \in 0 .. 100
  <2>1. base \in 0 .. 100
    BY BaseBounds
  <2>2. CASE ai < 0
    BY <2>1, <2>2
  <2>3. CASE ~(ai < 0)
    <3>1. ai \in 0 .. 100
      BY <2>3
    <3> HIDE DEF base
    <3>2. Blend(base, ai) \in 0 .. 100
      BY <2>1, <3>1, BlendBounds
    <3> QED BY <2>3, <3>2
  <2> QED BY <2>2, <2>3
<1>2. /\ r.total = t /\ r.conditions = c /\ r.level = Decide(t, c, p).level
      /\ r = [r EXCEPT !.total = @]
      /\ DOMAIN r = {"level", "allow", "base", "total", "ai", "conditions",
                     "blockers", "reason"}
  BY DEF Calculated, Blended
<1>3. Verdict(s, p, ai) = IF b = {} THEN r
        ELSE [r EXCEPT !.blockers = b, !.level = "CRITICAL", !.allow = FALSE]
  BY <1>2 DEF Verdict, Finalised
<1> HIDE DEF r, t, c, b
<1>4. /\ Verdict(s, p, ai).total = t
      /\ Verdict(s, p, ai).level = IF b = {} THEN Decide(t, c, p).level
                                   ELSE "CRITICAL"
  BY <1>2, <1>3
<1> QED BY <1>1, <1>4 DEF t, c, b

\* A cluster that is worse in one respect, and in none better, gets no better
\* score and no milder decision, whatever the numbers and the AI's answer.
LEMMA VerdictWorsens ==
  ASSUME NEW s, NEW w, NEW p \in Profiles, NEW ai \in -1 .. 100, Worse(s, w)
  PROVE  /\ Verdict(w, p, ai).total <= Verdict(s, p, ai).total
         /\ Rank(Verdict(w, p, ai).level) >= Rank(Verdict(s, p, ai).level)
<1> DEFINE score(r) == IF ai < 0 THEN Base(r) ELSE Blend(Base(r), ai)
           level(r) == Decide(score(r), Conditions(r, p), p).level
<1>1. s \in Snapshot /\ w \in Snapshot
  BY DEF Worse
<1>2. /\ score(s) \in 0 .. 100 /\ Verdict(s, p, ai).total = score(s)
      /\ Verdict(s, p, ai).level
           = IF Blockers(Conditions(s, p), s) = {} THEN level(s) ELSE "CRITICAL"
  BY <1>1, VerdictParts, Zenon
<1>3. /\ score(w) \in 0 .. 100 /\ Verdict(w, p, ai).total = score(w)
      /\ Verdict(w, p, ai).level
           = IF Blockers(Conditions(w, p), w) = {} THEN level(w) ELSE "CRITICAL"
  BY <1>1, VerdictParts, Zenon
<1>4. score(w) <= score(s)
  <2>1. Base(w) \in 0 .. 100 /\ Base(s) \in 0 .. 100 /\ Base(w) <= Base(s)
    BY <1>1, BaseBounds, BaseShrinks
  <2>2. CASE ai < 0
    BY <2>1, <2>2
  <2>3. CASE ~(ai < 0)
    <3>1. ai \in 0 .. 100
      BY <2>3
    <3>2. Blend(Base(w), ai) <= Blend(Base(s), ai)
      BY <2>1, <3>1, BlendGrows
    <3> QED BY <2>3, <3>2
  <2> QED BY <2>2, <2>3
<1>5. Conditions(s, p) \subseteq Conditions(w, p)
  BY ConditionsGrow
<1>6. Blockers(Conditions(s, p), s) \subseteq Blockers(Conditions(w, p), w)
  BY <1>5, BlockersGrow
<1>7. Rank(level(s)) <= Rank(level(w))
  <2>1. score(w) \in Int /\ score(s) \in Int
    BY <1>2, <1>3
  <2> HIDE DEF score
  <2> QED BY <1>4, <1>5, <2>1, DecideWorsens
<1>8. \A l : Rank(l) \in 0 .. 2 /\ Rank("CRITICAL") = 2
  BY DEF Rank
<1> HIDE DEF score, level
<1> QED BY <1>2, <1>3, <1>4, <1>6, <1>7, <1>8

\* Every reported verdict compares so with those of the worse clusters: no
\* penalty of the score is a bonus in disguise, no blocker a dispensation.
THEOREM WorseGetsNoBetter == Spec => []WorseIsNoBetter
<1>1. IInv => WorseIsNoBetter
  <2> SUFFICES ASSUME IInv, stage = "final", NEW w \in Worsenings(snap)
               PROVE  LET v == Verdict(w, profile, report.ai)
                      IN /\ v.total <= report.total
                         /\ Rank(v.level) >= Rank(report.level)
    BY DEF WorseIsNoBetter
  <2>1. /\ snap \in Snapshot /\ profile \in Profiles /\ report.ai \in -1 .. 100
        /\ report = Verdict(snap, profile, report.ai)
    BY DEF IInv, TypeOK, Report, Computed
  <2>2. Worse(snap, w)
    BY <2>1, WorseningsAreWorse
  <2> QED BY <2>1, <2>2, VerdictWorsens
<1> QED BY <1>1, Coherence, PTL
=============================================================================
