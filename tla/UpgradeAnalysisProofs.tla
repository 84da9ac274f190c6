------------------------ MODULE UpgradeAnalysisProofs ------------------------
(***************************************************************************)
(* The safety properties of UpgradeAnalysis, proved for any specs,         *)
(* clusters, interval and bounds.                                          *)
(***************************************************************************)
EXTENDS UpgradeAnalysis, SequenceTheorems, TLAPS

Work == [obj : Object, verdict : Verdict, order : Seq(Nat), now : Nat]
Spent == [edits : Nat, refreshes : Nat, changes : Nat, reorders : Nat,
          crashes : Nat, faults : Nat]

HasVerdict == {"asking", "proposing", "exporting", "updating"}

\* A version stands for one state of the object.
CacheCurrent ==
  /\ ua.rv <= rev /\ cache.rv <= rev
  /\ Exists(ua) /\ Exists(cache) /\ ua.rv = cache.rv => cache = ua
  /\ ua.status.gen <= ua.gen /\ cache.status.gen <= cache.gen

\* While the copy of Reconcile has the version that is stored, it is the same
\* object, of which Reconcile has set some fields of the status; and the new
\* restarts are those since the counts that are stored.
WorkCurrent ==
  pc \in Analysing =>
    /\ work.obj.rv <= rev /\ work.obj.status.gen <= work.obj.gen
    /\ Exists(ua) /\ ua.rv = work.obj.rv =>
         /\ work.obj.gen = ua.gen /\ work.obj.spec = ua.spec
         /\ pc # "updating" => /\ work.obj.status.before = ua.status.before
                               /\ work.obj.status.of = ua.status.of
         /\ pc \in HasVerdict =>
              work.verdict.facts.delta =
                NewRestarts(work.verdict.facts.restarts, ua.status.before.restarts)

\* What Reconcile has computed so far.
WorkCoherent ==
  /\ pc = "asking" => work.obj.spec.ai # "off"
  /\ pc \in HasVerdict =>
       /\ work.verdict.spec = work.obj.spec
       /\ work.verdict.facts.delta <= work.verdict.facts.restarts
  /\ pc = "refusing" => work.obj.status.decision = "ERROR"
  /\ pc = "updating" =>
       /\ work.obj.status.of = work.verdict
       /\ work.obj.status.gen = work.obj.gen
       /\ work.obj.status.before.restarts = work.verdict.facts.restarts
       /\ work.obj.status.report = "written" =>
            /\ work.obj.status.location \in Sources
            /\ store[work.obj.status.location] = work.verdict

\* What is counted, or about to be, exceeds the counter it was read from by no
\* more than what pods that are gone took with them (happened, less what the
\* cluster shows): a restart is either still in the baseline or gone for good.
RestartsKnown ==
  /\ \A s \in Scopes : world.restarts[s] <= happened[s]
  /\ Exists(ua) =>
       counted + world.restarts[ua.status.of.spec.scope]
         <= ua.status.before.restarts + happened[ua.status.of.spec.scope]
  /\ pc \in HasVerdict =>
       /\ work.verdict.facts.restarts <= happened[work.verdict.spec.scope]
       /\ Exists(ua) /\ ua.rv = work.obj.rv /\ SameScope =>
            /\ counted + work.verdict.facts.delta <= happened[work.verdict.spec.scope]
            /\ counted + work.verdict.facts.delta
                 + world.restarts[work.verdict.spec.scope]
                 <= work.verdict.facts.restarts + happened[work.verdict.spec.scope]

\* The strengthening under which the properties are inductive.
IInv ==
  /\ TypeOK /\ CacheCurrent /\ WorkCurrent /\ WorkCoherent
  /\ VerdictOfObservedSpec /\ RestartsCountedOnce /\ RestartsKnown

-----------------------------------------------------------------------------
(* Objects whose parts are replaced are objects.                           *)

LEMMA WithVersion ==
  ASSUME NEW obj \in Object, NEW rv \in Nat
  PROVE  [obj EXCEPT !.rv = rv] \in Object
BY DEF Object

LEMMA WithSpec ==
  ASSUME NEW obj \in Object, NEW s \in SpecRecord, NEW n \in Nat
  PROVE  [obj EXCEPT !.spec = s, !.gen = n] \in Object
BY DEF Object

LEMMA WithRefresh ==
  ASSUME NEW obj \in Object, NEW n \in Nat
  PROVE  [obj EXCEPT !.refresh = n] \in Object
BY DEF Object

LEMMA WithStatus ==
  ASSUME NEW obj \in Object, NEW s \in Status
  PROVE  [obj EXCEPT !.status = s] \in Object
BY DEF Object

LEMMA FactsTyped ==
  ASSUME NEW spec \in SpecRecord, NEW w \in World, NEW before \in Baseline
  PROVE  /\ Facts(spec, w, before) \in FactsRecord
         /\ Facts(spec, w, before).delta =
              NewRestarts(Facts(spec, w, before).restarts, before.restarts)
         /\ Facts(spec, w, before).delta <= Facts(spec, w, before).restarts
         /\ Facts(spec, w, before).restarts = w.restarts[spec.scope]
<1>1. /\ spec.target \in Nat /\ spec.scope \in Scopes
      /\ w.version \in Nat /\ w.pods \in [Scopes -> Nat] /\ w.restarts \in [Scopes -> Nat]
      /\ before.pods \in Nat /\ before.restarts \in Nat
  BY DEF SpecRecord, World, Baseline
<1> DEFINE p == w.pods[spec.scope]
           r == w.restarts[spec.scope]
<1>2. p \in Nat /\ r \in Nat
  BY <1>1
<1>3. Facts(spec, w, before) =
        [target |-> spec.target, version |-> w.version, pods |-> p, restarts |-> r,
         delta |-> NewRestarts(r, before.restarts), dropped |-> p < before.pods]
  BY DEF Facts
<1> DEFINE d == NewRestarts(r, before.restarts)
<1>4. d \in Nat /\ d <= r
  <2> HIDE DEF r
  <2> QED BY <1>1, <1>2 DEF NewRestarts
<1>5. r = w.restarts[spec.scope]
  OBVIOUS
<1> HIDE DEF p, r, d
<1>6. Facts(spec, w, before) =
        [target |-> spec.target, version |-> w.version, pods |-> p, restarts |-> r,
         delta |-> d, dropped |-> p < before.pods]
  BY <1>3 DEF d
<1> QED BY <1>1, <1>2, <1>4, <1>5, <1>6 DEF FactsRecord, d

LEMMA OrderTyped ==
  ASSUME NEW n \in Nat, NEW order \in Orders(n)
  PROVE  order \in Seq(Nat)
<1>1. order \in [1 .. n -> Nat]
  BY DEF Orders
<1> QED BY <1>1, SeqDef

LEMMA NothingTyped ==
  /\ NoUA \in Object /\ NoStatus \in Status /\ NoWork \in Work
  /\ NoVerdict \in Verdict /\ NoPrompt \in PromptRecord
  /\ NoUA.status = NoStatus /\ NoUA.uid = 0 /\ NoUA.rv = 0 /\ NoUA.gen = 0
<1>0. << >> \in Seq(Nat)
  OBVIOUS
<1>1. NoSpec \in SpecRecord
  BY DEF NoSpec, SpecRecord, Sources, Scopes, Models
<1>2. NoFacts \in FactsRecord
  <2>1. Nowhere \in World /\ NoBaseline \in Baseline
    BY DEF Nowhere, World, NoBaseline, Baseline
  <2> QED BY <1>1, <2>1, FactsTyped DEF NoFacts
<1>3. NoVerdict \in Verdict
  BY <1>1, <1>2 DEF NoVerdict, Verdict
<1>4. NoBaseline \in Baseline
  BY DEF NoBaseline, Baseline
<1>5. NoStatus \in Status
  BY <1>3, <1>4 DEF NoStatus, Status
<1>6. NoUA \in Object
  BY <1>1, <1>5 DEF NoUA, Object
<1>7. NoWork \in Work
  BY <1>0, <1>3, <1>6 DEF NoWork, Work
<1>8. NoPrompt \in PromptRecord
  BY <1>0, <1>1, <1>2 DEF NoPrompt, Prompt, PromptRecord, SpecRecord
<1> QED BY <1>3, <1>5, <1>6, <1>7, <1>8 DEF NoUA

\* What is written to the API server is an object with the next version.
LEMMA Stored ==
  ASSUME TypeOK, NEW obj \in Object, Store(obj)
  PROVE  /\ ua' \in Object /\ rev' = rev + 1 /\ rev' \in Nat
         /\ ua'.rv = rev + 1 /\ ua'.uid = obj.uid /\ ua'.gen = obj.gen
         /\ ua'.spec = obj.spec /\ ua'.status = obj.status /\ ua'.refresh = obj.refresh
<1>1. rev \in Nat /\ ua' = [obj EXCEPT !.rv = rev + 1] /\ rev' = rev + 1
  BY DEF TypeOK, Store
<1> QED BY <1>1, WithVersion DEF Object

LEMMA StatusStored ==
  ASSUME TypeOK, StoreStatus
  PROVE  /\ ua' \in Object /\ rev' = rev + 1 /\ rev' \in Nat
         /\ ua'.rv = rev + 1 /\ ua'.uid = ua.uid /\ ua'.gen = ua.gen
         /\ ua'.spec = ua.spec /\ ua'.status = work.obj.status
         /\ ua'.refresh = ua.refresh
<1>1. ua \in Object /\ work.obj.status \in Status
  BY DEF TypeOK, Object
<1> DEFINE obj == [ua EXCEPT !.status = work.obj.status]
<1>2. /\ obj \in Object /\ obj.status = work.obj.status /\ obj.uid = ua.uid
      /\ obj.gen = ua.gen /\ obj.spec = ua.spec /\ obj.refresh = ua.refresh
  BY <1>1, WithStatus DEF Object
<1>3. Store(obj)
  BY DEF StoreStatus
<1> HIDE DEF obj
<1> QED BY <1>2, <1>3, Stored

\* The user's writes: a new object, a new spec, a new annotation, or none.
UserWrites ==
  /\ ua' \in Object /\ rev' = rev + 1 /\ rev' \in Nat /\ spent' \in Spent
  /\ UNCHANGED <<world_vars, operator, outside, calls, happened, doneAt>>
  /\ \/ ua'.status = NoStatus /\ ua'.rv = rev + 1 /\ counted' = 0
     \/ /\ Exists(ua) /\ ua'.rv = rev + 1 /\ ua'.status = ua.status /\ counted' = counted
        /\ ua'.gen = ua.gen + 1 \/ (ua'.gen = ua.gen /\ ua'.spec = ua.spec)
     \/ ua' = NoUA /\ counted' = counted

LEMMA UserSteps ==
  ASSUME TypeOK, User
  PROVE  UserWrites
<1>0. ua \in Object /\ rev \in Nat /\ spent \in Spent /\ ua.gen \in Nat
  BY DEF TypeOK, Spent, Object
<1>1. ASSUME NEW s \in Specs, UserCreates(s)
      PROVE  /\ ua' \in Object /\ rev' = rev + 1 /\ rev' \in Nat
             /\ ua'.status = NoStatus /\ ua'.rv = rev + 1 /\ counted' = 0
  <2>1. NoUA \in Object /\ s \in SpecRecord /\ NoUA.status = NoStatus
    BY NothingTyped, InputsAssumption
  <2> DEFINE n == rev + 1
             obj == [NoUA EXCEPT !.uid = n, !.gen = 1, !.spec = s]
  <2>2. obj \in Object /\ obj.status = NoStatus
    <3>1. n \in Nat
      BY <1>0
    <3> HIDE DEF n
    <3> QED BY <2>1, <3>1 DEF Object
  <2>3. Store(obj) /\ counted' = 0
    BY <1>1 DEF UserCreates
  <2> HIDE DEF obj
  <2> QED BY <2>2, <2>3, Stored
<1>2. ASSUME NEW s \in Specs, UserEdits(s)
      PROVE  /\ ua' \in Object /\ rev' = rev + 1 /\ rev' \in Nat
             /\ ua'.status = ua.status /\ ua'.rv = rev + 1 /\ ua'.gen = ua.gen + 1
  <2> DEFINE n == ua.gen + 1
             obj == [ua EXCEPT !.spec = s, !.gen = n]
  <2>1. s \in SpecRecord /\ n \in Nat
    BY <1>0, InputsAssumption
  <2>2. obj \in Object /\ obj.status = ua.status /\ obj.gen = n
    <3> HIDE DEF n
    <3> QED BY <1>0, <2>1, WithSpec DEF Object
  <2>3. Store(obj)
    BY <1>2 DEF UserEdits
  <2> HIDE DEF obj
  <2> QED BY <2>2, <2>3, Stored
<1>3. ASSUME UserRefreshes
      PROVE  /\ ua' \in Object /\ rev' = rev + 1 /\ rev' \in Nat
             /\ ua'.status = ua.status /\ ua'.rv = rev + 1 /\ ua'.gen = ua.gen
             /\ ua'.spec = ua.spec
  <2> DEFINE n == spent.refreshes + 1
             obj == [ua EXCEPT !.refresh = n]
  <2>1. n \in Nat
    BY <1>0 DEF Spent
  <2>2. obj \in Object /\ obj.status = ua.status /\ obj.gen = ua.gen /\ obj.spec = ua.spec
    <3> HIDE DEF n
    <3> QED BY <1>0, <2>1, WithRefresh DEF Object
  <2>3. Store(obj)
    BY <1>3 DEF UserRefreshes
  <2> HIDE DEF obj
  <2> QED BY <2>2, <2>3, Stored
<1>4. spent' \in {[spent EXCEPT !.edits = @ + 1], [spent EXCEPT !.refreshes = @ + 1]}
  BY DEF User, UserCreates, UserEdits, UserRefreshes, UserDeletes
<1>5. spent' \in Spent
  BY <1>0, <1>4 DEF Spent
<1>6. CASE \E s \in Specs : UserCreates(s)
  BY <1>1, <1>5, <1>6 DEF UserWrites, UserCreates
<1>7. CASE \E s \in Specs : UserEdits(s)
  BY <1>2, <1>5, <1>7 DEF UserWrites, UserEdits, history
<1>8. CASE UserRefreshes
  BY <1>3, <1>5, <1>8 DEF UserWrites, UserRefreshes, history
<1>9. CASE UserDeletes
  BY <1>0, <1>5, <1>9, NothingTyped DEF UserWrites, UserDeletes, history
<1> QED BY <1>6, <1>7, <1>8, <1>9 DEF User

-----------------------------------------------------------------------------
(* Reconcile's copy of the object while it works on it.                    *)

\* The copy keeps everything but its status, and of that the counts.
SameCopy ==
  /\ work'.obj.rv = work.obj.rv /\ work'.obj.gen = work.obj.gen
  /\ work'.obj.spec = work.obj.spec
  /\ work'.obj.uid = work.obj.uid /\ work'.obj.refresh = work.obj.refresh
SameCounts ==
  /\ work'.obj.status.gen = work.obj.status.gen
  /\ work'.obj.status.refresh = work.obj.status.refresh
  /\ work'.obj.status.before = work.obj.status.before
  /\ work'.obj.status.of = work.obj.status.of

LEMMA WorkParts ==
  ASSUME TypeOK
  PROVE  /\ work \in Work /\ work.obj \in Object /\ work.verdict \in Verdict /\ work.now \in Nat
         /\ work.order \in Seq(Nat)
         /\ work.obj.status \in Status /\ work.obj.spec \in SpecRecord
         /\ work.obj.gen \in Nat /\ work.obj.refresh \in Nat /\ work.obj.rv \in Nat
         /\ work.obj.status.before \in Baseline /\ work.obj.status.gen \in Nat
         /\ work.verdict.facts \in FactsRecord /\ work.verdict.spec \in SpecRecord
<1>1. work \in Work
  BY DEF TypeOK, Work
<1>2. /\ work.obj \in Object /\ work.verdict \in Verdict /\ work.now \in Nat
      /\ work.order \in Seq(Nat)
  BY <1>1 DEF Work
<1>3. work.obj.status \in Status
  BY <1>2 DEF Object
<1> QED BY <1>1, <1>2, <1>3 DEF Object, Status, Verdict

\* A target that is refused.
LEMMA RefusedCopy ==
  ASSUME TypeOK, CollectRefuses
  PROVE  /\ work' \in Work /\ SameCopy /\ SameCounts
         /\ work'.obj.status.decision = "ERROR"
<1> DEFINE t == clock
<1>1. t \in Nat
  BY DEF TypeOK
<1>2. work' = [work EXCEPT !.obj.status.decision = "ERROR", !.obj.status.time = t]
  BY DEF CollectRefuses
<1> HIDE DEF t
<1>3. /\ work'.verdict = work.verdict /\ work'.now = work.now
      /\ work'.obj = [work.obj EXCEPT !.status.decision = "ERROR", !.status.time = t]
  BY <1>2, WorkParts DEF Work
<1>4. /\ SameCopy
      /\ work'.obj.status = [work.obj.status EXCEPT !.decision = "ERROR", !.time = t]
  BY <1>3, WorkParts DEF Object, SameCopy
<1>5. work'.obj.status \in Status /\ SameCounts /\ work'.obj.status.decision = "ERROR"
  BY <1>1, <1>4, WorkParts DEF Status, SameCounts
<1>6. work'.obj \in Object
  BY <1>3, <1>5, WorkParts DEF Object
<1>7. work' \in Work
  BY <1>2, <1>3, <1>6, WorkParts DEF Work
<1> QED BY <1>4, <1>5, <1>7

\* A snapshot is taken.
LEMMA CollectedCopy ==
  ASSUME TypeOK, Collect
  PROVE  /\ work' \in Work /\ work'.obj = work.obj
         /\ work'.verdict.spec = work.obj.spec
         /\ work'.verdict.facts.delta =
              NewRestarts(work'.verdict.facts.restarts, work.obj.status.before.restarts)
         /\ work'.verdict.facts.delta <= work'.verdict.facts.restarts
         /\ work'.verdict.facts.restarts = world.restarts[work.obj.spec.scope]
         /\ work'.now = clock
<1> DEFINE f == Facts(work.obj.spec, world, work.obj.status.before)
           v == [spec |-> work.obj.spec, scored |-> FALSE, facts |-> f]
           t == clock
<1>1. /\ f \in FactsRecord
      /\ f.delta = NewRestarts(f.restarts, work.obj.status.before.restarts)
      /\ f.delta <= f.restarts /\ f.restarts = world.restarts[work.obj.spec.scope]
  BY WorkParts, FactsTyped DEF TypeOK
<1>2. v \in Verdict /\ v.spec = work.obj.spec /\ v.facts = f
  <2> HIDE DEF f
  <2> QED BY <1>1, WorkParts DEF Verdict
<1>3. t \in Nat
  BY DEF TypeOK
<1>4. PICK order \in Orders(world.rows[work.obj.spec.scope]) :
        work' = [work EXCEPT !.verdict = v, !.order = order, !.now = t]
  BY DEF Collect
<1>a. order \in Seq(Nat)
  <2>1. world.rows[work.obj.spec.scope] \in Nat
    BY WorkParts DEF TypeOK, World, SpecRecord
  <2> QED BY <2>1, OrderTyped
<1> HIDE DEF v, t
<1>5. work' \in Work /\ work'.obj = work.obj /\ work'.verdict = v /\ work'.now = t
  BY <1>2, <1>3, <1>4, <1>a, WorkParts DEF Work
<1> QED BY <1>1, <1>2, <1>5 DEF t

\* The AI has answered.
LEMMA AnsweredCopy ==
  ASSUME TypeOK, TakeAnswer, work.obj.spec.ai # "off"
  PROVE  /\ work' \in Work /\ SameCopy /\ SameCounts
         /\ work'.verdict.spec = work.verdict.spec
         /\ work'.verdict.facts = work.verdict.facts /\ work'.now = work.now
<1> DEFINE model == work.obj.spec.ai
<1>1. model \in Models \cup {""}
  BY WorkParts DEF SpecRecord
<1>2. work' = [work EXCEPT !.verdict.scored = TRUE, !.obj.status.aiError = FALSE,
                           !.obj.status.aiModel = model]
  BY DEF TakeAnswer
<1> HIDE DEF model
<1>3. /\ work'.now = work.now
      /\ work'.verdict = [work.verdict EXCEPT !.scored = TRUE]
      /\ work'.obj = [work.obj EXCEPT !.status.aiError = FALSE, !.status.aiModel = model]
  BY <1>2, WorkParts DEF Work
<1>4. /\ SameCopy
      /\ work'.obj.status = [work.obj.status EXCEPT !.aiError = FALSE, !.aiModel = model]
  BY <1>3, WorkParts DEF Object, SameCopy
<1>5. work'.obj.status \in Status /\ SameCounts
  BY <1>1, <1>4, WorkParts DEF Status, SameCounts
<1>6. work'.obj \in Object
  BY <1>3, <1>5, WorkParts DEF Object
<1>7. /\ work'.verdict \in Verdict /\ work'.verdict.spec = work.verdict.spec
      /\ work'.verdict.facts = work.verdict.facts
  BY <1>3, WorkParts DEF Verdict
<1>8. work' \in Work
  BY <1>2, <1>3, <1>6, <1>7, WorkParts DEF Work
<1> QED BY <1>3, <1>4, <1>5, <1>7, <1>8

\* The AI has not answered.
LEMMA UnansweredCopy ==
  ASSUME TypeOK, AskFails
  PROVE  /\ work' \in Work /\ SameCopy /\ SameCounts
         /\ work'.verdict = work.verdict /\ work'.now = work.now
<1>2. work' = [work EXCEPT !.obj.status.aiError = TRUE]
  BY DEF AskFails
<1>3. /\ work'.now = work.now /\ work'.verdict = work.verdict
      /\ work'.obj = [work.obj EXCEPT !.status.aiError = TRUE]
  BY <1>2, WorkParts DEF Work
<1>4. /\ SameCopy
      /\ work'.obj.status = [work.obj.status EXCEPT !.aiError = TRUE]
  BY <1>3, WorkParts DEF Object, SameCopy
<1>5. work'.obj.status \in Status /\ SameCounts
  BY <1>4, WorkParts DEF Status, SameCounts
<1>6. work'.obj \in Object
  BY <1>3, <1>5, WorkParts DEF Object
<1>7. work' \in Work
  BY <1>2, <1>3, <1>6, WorkParts DEF Work
<1> QED BY <1>3, <1>4, <1>5, <1>7

\* The report is exported, or is not, and the status made of the verdict.
LEMMA ConcludedCopy ==
  ASSUME TypeOK, NEW state \in {"written", "failed"}, NEW location \in Sources \cup {""},
         work' = [work EXCEPT !.obj = Concluded(@, state, location)]
  PROVE  /\ work' \in Work /\ SameCopy /\ work'.verdict = work.verdict
         /\ work'.obj.status.of = work.verdict
         /\ work'.obj.status.gen = work.obj.gen
         /\ work'.obj.status.refresh = work.obj.refresh
         /\ work'.now = work.now /\ work'.obj.status.time = work.now
         /\ work'.obj.status.before =
              [pods |-> work.verdict.facts.pods, restarts |-> work.verdict.facts.restarts]
         /\ work'.obj.status.before.restarts = work.verdict.facts.restarts
         /\ work'.obj.status.report = state /\ work'.obj.status.location = location
         /\ work'.obj.status.decision = "verdict"
<1> DEFINE before == [pods |-> work.verdict.facts.pods, restarts |-> work.verdict.facts.restarts]
           obj == Concluded(work.obj, state, location)
           old == work.obj.status
           v == work.verdict
           t == work.now
           n == work.obj.refresh
           g == work.obj.gen
<1>1. before \in Baseline /\ before.restarts = work.verdict.facts.restarts
  BY WorkParts DEF Baseline, FactsRecord
<1>2. v \in Verdict /\ t \in Nat /\ n \in Nat /\ g \in Nat /\ old \in Status
  BY WorkParts
<1>3. obj = [work.obj EXCEPT !.status.decision = "verdict", !.status.of = v,
               !.status.time = t, !.status.refresh = n, !.status.gen = g,
               !.status.before = before, !.status.report = state,
               !.status.location = location]
  BY DEF Concluded, ReportState
<1>4. work' = [work EXCEPT !.obj = obj]
  OBVIOUS
<1> HIDE DEF obj, before, v, t, n, g
<1>5. obj.status = [old EXCEPT !.decision = "verdict", !.of = v, !.time = t,
                      !.refresh = n, !.gen = g, !.before = before, !.report = state,
                      !.location = location]
  BY <1>3, WorkParts DEF Object
<1> HIDE DEF old
<1>6. /\ obj.status \in Status /\ obj.status.of = v /\ obj.status.gen = g
      /\ obj.status.before = before /\ obj.status.report = state
      /\ obj.status.location = location /\ obj.status.decision = "verdict"
      /\ obj.status.refresh = n /\ obj.status.time = t
  BY <1>1, <1>2, <1>5 DEF Status
<1>7. /\ obj \in Object
      /\ obj.rv = work.obj.rv /\ obj.gen = work.obj.gen /\ obj.spec = work.obj.spec
      /\ obj.uid = work.obj.uid /\ obj.refresh = work.obj.refresh
  <2>1. /\ obj.uid = work.obj.uid /\ obj.rv = work.obj.rv /\ obj.gen = work.obj.gen
        /\ obj.refresh = work.obj.refresh /\ obj.spec = work.obj.spec
        /\ DOMAIN obj = DOMAIN work.obj
    BY <1>3, WorkParts DEF Object
  <2>2. obj = [work.obj EXCEPT !.status = obj.status]
    BY <1>3, <2>1, WorkParts DEF Object
  <2>3. obj \in Object
    BY <1>6, <2>2, WorkParts, WithStatus
  <2> QED BY <2>1, <2>3
<1>8. work' \in Work /\ work'.obj = obj /\ work'.verdict = work.verdict
      /\ work'.now = work.now
  BY <1>4, <1>7, WorkParts DEF Work
<1> QED BY <1>1, <1>6, <1>7, <1>8 DEF SameCopy, before, v, g, n, t

-----------------------------------------------------------------------------
(* The steps, by what they do.                                             *)

SpendsFault == spent' \in {spent, [spent EXCEPT !.faults = @ + 1]}
SpendsReorder == spent' \in {spent, [spent EXCEPT !.reorders = @ + 1]}
Spends == SpendsFault \/ (Collect /\ SpendsReorder)

\* The status is stored.
Stores ==
  /\ pc \in {"updating", "refusing"} /\ Current(work.obj) /\ StoreStatus
  /\ pc' = "idle" /\ work' = NoWork /\ SpendsFault
  /\ queued' \in BOOLEAN /\ timer' \in {timer, clock + Interval}
  /\ UNCHANGED <<world_vars, cache, aiCache, outside, calls, happened>>

\* The reconciliation ends with an error.
Fails ==
  /\ pc # "down" /\ pc' = "idle" /\ work' = NoWork /\ SpendsFault
  /\ queued' = TRUE
  /\ UNCHANGED <<ua, rev, world_vars, cache, timer, aiCache, outside, history>>

Asks == AskMemory \/ AskModel
Exports == Export \/ ExportFails

\* The reconciliation goes on with its copy of the object.
Works ==
  /\ ReconcileBegins \/ CollectRefuses \/ Collect \/ Asks \/ AskFails \/ Propose \/ Exports
  /\ pc' \in Analysing /\ Spends /\ queued' \in BOOLEAN
  /\ aiCache' \in {aiCache, ThePrompt}
  /\ offered' \in {offered, offered \cup {work.verdict}}
  /\ calls' \in {calls, calls + 1}
  /\ store' \in {store, [store EXCEPT ![work.obj.spec.source] = work.verdict]}
  /\ UNCHANGED <<ua, rev, world_vars, cache, timer, counted, happened, doneAt>>

LEMMA ReconcileSteps ==
  ASSUME TypeOK, Reconcile
  PROVE  ReconcileSkips \/ Works \/ Stores \/ Fails
<1>1. queued \in BOOLEAN /\ timer \in Nat
  BY DEF TypeOK
<1>2. CASE ReconcileBegins
  BY <1>2 DEF ReconcileBegins, Works, Analysing, Spends, SpendsFault, outside, history
<1>3. CASE CollectRefuses
  BY <1>1, <1>3 DEF CollectRefuses, Works, Analysing, Spends, SpendsFault, outside, history
<1>4. CASE Collect
  <2>1. Collect /\ SpendsReorder
    BY <1>4 DEF Collect, Reordered, SpendsReorder
  <2> QED BY <1>1, <2>1 DEF Collect, Works, Analysing, Spends, outside, history
<1>5. CASE AskMemory
  BY <1>1, <1>5
     DEF AskMemory, TakeAnswer, Works, Asks, Analysing, Spends, SpendsFault, outside,
         history
<1>6. CASE AskModel
  BY <1>1, <1>6
     DEF AskModel, TakeAnswer, Works, Asks, Analysing, Spends, SpendsFault, outside
<1>7. CASE AskFails
  BY <1>1, <1>7 DEF AskFails, UseFault, Works, Analysing, Spends, SpendsFault, outside
<1>8. CASE Propose
  BY <1>1, <1>8 DEF Propose, Works, Analysing, Spends, SpendsFault, history
<1>9. CASE Export
  BY <1>1, <1>9 DEF Export, Works, Exports, Analysing, Spends, SpendsFault, history
<1>10. CASE ExportFails
  BY <1>1, <1>10
     DEF ExportFails, UseFault, Works, Exports, Analysing, Spends, SpendsFault, outside,
         history
<1>11. CASE UpdateStatus
  BY <1>1, <1>11 DEF UpdateStatus, RequeueAt, Stores, SpendsFault
<1>12. CASE UpdateReplyLost
  BY <1>12 DEF UpdateReplyLost, Fail, UseFault, Stores, SpendsFault
<1>13. CASE CollectFails \/ UpdateRejected
  BY <1>13 DEF CollectFails, UpdateRejected, Fail, UseFault, Fails, SpendsFault
<1> QED BY <1>2, <1>3, <1>4, <1>5, <1>6, <1>7, <1>8, <1>9, <1>10, <1>11, <1>12, <1>13
        DEF Reconcile

\* The cluster, the clock, the informer, the timer, the process, and a
\* reconciliation that has nothing to do.
Surroundings ==
  \/ (\E w \in Worlds : ClusterChanges(w)) \/ Tick \/ Observe \/ TimerFires
  \/ Crash \/ Start \/ ReconcileSkips

LEMMA SurroundingSteps ==
  ASSUME TypeOK, Surroundings
  PROVE  /\ UNCHANGED <<ua, rev, outside, calls, counted, doneAt>>
         /\ happened' \in [Scopes -> Nat]
         /\ \A s \in Scopes :
              /\ happened[s] <= happened'[s]
              /\ happened[s] + world'.restarts[s] <= happened'[s] + world.restarts[s]
         /\ cache' \in {cache, ua, NoUA} /\ world' \in World /\ clock' \in Nat
         /\ queued' \in BOOLEAN /\ timer' \in Nat /\ aiCache' \in {aiCache, NoPrompt}
         /\ UNCHANGED <<pc, work>> \/ (pc' \in {"down", "idle"} /\ work' \in {work, NoWork})
         /\ spent' \in Spent
<1>0. /\ world \in World /\ clock \in Nat /\ queued \in BOOLEAN /\ timer \in Nat
      /\ spent \in Spent /\ happened \in [Scopes -> Nat]
  BY DEF TypeOK, Spent
<1>1. spent' \in {spent, [spent EXCEPT !.changes = @ + 1], [spent EXCEPT !.crashes = @ + 1]}
  BY DEF Surroundings, ClusterChanges, Tick, Observe, TimerFires, Crash, Start, ReconcileSkips
<1>2. spent' \in Spent
  BY <1>0, <1>1 DEF Spent
<1>3. queued' \in BOOLEAN
  BY <1>0 DEF Surroundings, ClusterChanges, Tick, Observe, TimerFires, Crash, Start,
     ReconcileSkips, NotFound, operator, Exists
<1>4. timer' \in Nat
  <2>1. CASE ReconcileSkips
    <3>1. timer' \in {timer, cache.status.time + Interval}
      BY <2>1 DEF ReconcileSkips, RequeueAt
    <3>2. timer' = timer \/ (Recent(cache) /\ timer' = cache.status.time + Interval)
      BY <2>1 DEF ReconcileSkips, RequeueAt
    <3>3. cache.status.time \in Nat \cup {-1}
      BY DEF TypeOK, Object, Status
    <3> QED BY <1>0, <3>2, <3>3, BoundsAssumption DEF Recent
  <2>2. CASE ~ReconcileSkips
    BY <1>0, <2>2
       DEF Surroundings, ClusterChanges, Tick, Observe, TimerFires, Crash, Start, operator
  <2> QED BY <2>1, <2>2
<1>5. world' \in World /\ clock' \in Nat
  BY <1>0, InputsAssumption
     DEF Surroundings, ClusterChanges, Tick, Observe, TimerFires, Crash, Start,
         ReconcileSkips, world_vars
<1>6. /\ happened' \in [Scopes -> Nat]
      /\ \A s \in Scopes :
           /\ happened[s] <= happened'[s]
           /\ happened[s] + world'.restarts[s] <= happened'[s] + world.restarts[s]
  <2>0. world.restarts \in [Scopes -> Nat] /\ world'.restarts \in [Scopes -> Nat]
    BY <1>0, <1>5 DEF World
  <2>1. CASE UNCHANGED <<world, happened>>
    BY <1>0, <2>0, <2>1
  <2>2. ASSUME NEW w \in Worlds, ClusterChanges(w)
        PROVE  /\ happened' \in [Scopes -> Nat]
               /\ \A s \in Scopes :
                    /\ happened[s] <= happened'[s]
                    /\ happened[s] + world'.restarts[s] <= happened'[s] + world.restarts[s]
    <3>1. happened' = [s \in Scopes |-> happened[s]
                         + NewRestarts(world'.restarts[s], world.restarts[s])]
      BY <2>2 DEF ClusterChanges
    <3>2. ASSUME NEW s \in Scopes
          PROVE  /\ happened'[s] \in Nat /\ happened[s] <= happened'[s]
                 /\ happened[s] + world'.restarts[s] <= happened'[s] + world.restarts[s]
      <4>1. happened[s] \in Nat /\ world.restarts[s] \in Nat /\ world'.restarts[s] \in Nat
        BY <1>0, <2>0
      <4>2. happened'[s] = happened[s] + NewRestarts(world'.restarts[s], world.restarts[s])
        BY <3>1
      <4> QED BY <4>1, <4>2 DEF NewRestarts
    <3>3. happened' \in [Scopes -> Nat]
      BY <3>1, <3>2
    <3> QED BY <3>2, <3>3
  <2>3. (\E w \in Worlds : ClusterChanges(w)) \/ UNCHANGED <<world, happened>>
    BY DEF Surroundings, Tick, Observe, TimerFires, Crash, Start, ReconcileSkips,
           world_vars, history
  <2> QED BY <2>1, <2>2, <2>3
<1> QED BY <1>0, <1>2, <1>3, <1>4, <1>5, <1>6
        DEF Surroundings, ClusterChanges, Tick, Observe, TimerFires, Crash, Start,
            ReconcileSkips, operator, world_vars, outside, history

LEMMA Steps ==
  ASSUME TypeOK, [Next]_vars
  PROVE  UserWrites \/ Surroundings \/ Works \/ Stores \/ Fails \/ UNCHANGED vars
BY ReconcileSteps, UserSteps DEF Next, Surroundings

-----------------------------------------------------------------------------
(* Types.                                                                  *)

\* What a step on the copy does to it.
LEMMA WorkSteps ==
  ASSUME TypeOK, WorkCoherent, Works
  PROVE  /\ work' \in Work
         /\ \/ ReconcileBegins
            \/ SameCopy /\ pc \in Analysing
<1>1. CASE ReconcileBegins
  <2>1. work' = [NoWork EXCEPT !.obj = cache] /\ cache \in Object /\ NoWork \in Work
    BY <1>1, NothingTyped DEF ReconcileBegins, TypeOK
  <2> QED BY <1>1, <2>1 DEF Work
<1>2. CASE CollectRefuses
  BY <1>2, RefusedCopy DEF CollectRefuses, Analysing
<1>3. CASE Collect
  BY <1>3, CollectedCopy DEF Collect, Analysing, SameCopy
<1>4. CASE Asks
  <2>1. TakeAnswer /\ pc = "asking"
    BY <1>4 DEF Asks, AskMemory, AskModel
  <2> QED BY <2>1, AnsweredCopy DEF WorkCoherent, Analysing
<1>5. CASE AskFails
  BY <1>5, UnansweredCopy DEF AskFails, Analysing
<1>6. CASE Propose
  BY <1>6, WorkParts DEF Propose, Analysing, SameCopy
<1>7. CASE Exports
  <2>1. \E state \in {"written", "failed"}, location \in Sources \cup {""} :
          work' = [work EXCEPT !.obj = Concluded(@, state, location)]
    <3>1. work.obj.spec.source \in Sources
      BY WorkParts DEF SpecRecord
    <3>2. CASE Export
      BY <3>1, <3>2 DEF Export
    <3>3. CASE ExportFails
      BY <3>1, <3>3 DEF ExportFails
    <3> QED BY <1>7, <3>2, <3>3 DEF Exports
  <2> QED BY <1>7, <2>1, ConcludedCopy DEF Exports, Export, ExportFails, Analysing
<1> QED BY <1>1, <1>2, <1>3, <1>4, <1>5, <1>6, <1>7 DEF Works

LEMMA PromptTyped ==
  ASSUME TypeOK
  PROVE  ThePrompt \in PromptRecord
BY WorkParts DEF ThePrompt, Prompt, PromptRecord, SpecRecord

LEMMA TypeStep ==
  ASSUME TypeOK, WorkCoherent, [Next]_vars
  PROVE  TypeOK'
<1>0. spent \in Spent /\ work \in Work
  BY DEF TypeOK, Spent, Work
<1>a. ASSUME SpendsFault
      PROVE  spent' \in Spent
  BY <1>0, <1>a DEF SpendsFault, Spent
<1>1. CASE UserWrites
  <2>1. counted' \in Nat
    BY <1>1 DEF UserWrites, TypeOK
  <2> QED BY <1>1, <2>1 DEF UserWrites, TypeOK, world_vars, operator, outside, Spent
<1>2. CASE Surroundings
  <2>1. /\ NoUA \in Object /\ NoWork \in Work /\ NoPrompt \in PromptRecord
    BY NothingTyped
  <2> QED BY <1>2, <2>1, SurroundingSteps DEF TypeOK, outside, history, Spent, Work
<1>3. CASE Works
  <2>1. work' \in Work
    BY <1>3, WorkSteps
  <2>2. store' \in [Sources -> Verdict]
    <3>1. work.verdict \in Verdict /\ store \in [Sources -> Verdict]
      BY WorkParts DEF TypeOK
    <3> QED BY <1>3, <3>1 DEF Works
  <2>3. spent' \in Spent
    <3>1. ASSUME SpendsReorder
          PROVE  spent' \in Spent
      BY <1>0, <3>1 DEF SpendsReorder, Spent
    <3> QED BY <1>3, <1>a, <3>1 DEF Works, Spends
  <2>4. aiCache' \in PromptRecord /\ \A v \in offered' : v \in Verdict
    BY <1>3, PromptTyped, WorkParts DEF Works, TypeOK
  <2>5. calls' \in Nat
    BY <1>3 DEF Works, TypeOK
  <2> QED BY <1>3, <2>1, <2>2, <2>3, <2>4, <2>5
          DEF Works, Analysing, TypeOK, world_vars, Spent, Work
<1>4. CASE Stores
  <2>1. ua' \in Object /\ rev' \in Nat
    BY <1>4, StatusStored DEF Stores
  <2>2. spent' \in Spent /\ work' \in Work
    BY <1>4, <1>a, NothingTyped DEF Stores
  <2>3. timer' \in Nat
    BY <1>4, BoundsAssumption DEF Stores, TypeOK
  <2>4. counted' \in Nat /\ doneAt' \in Nat
    <3>1. work.verdict.facts.delta \in Nat /\ counted \in Nat
      BY WorkParts DEF FactsRecord, TypeOK
    <3>2. counted' \in {counted, counted + work.verdict.facts.delta,
                        0 + work.verdict.facts.delta}
      BY <1>4 DEF Stores, StoreStatus
    <3> QED BY <1>4, <3>1, <3>2 DEF Stores, StoreStatus, TypeOK
  <2> QED BY <1>4, <2>1, <2>2, <2>3, <2>4 DEF Stores, TypeOK, world_vars, outside, Spent, Work
<1>5. CASE Fails
  <2>1. spent' \in Spent /\ work' \in Work
    BY <1>5, <1>a, NothingTyped DEF Fails
  <2> QED BY <1>5, <2>1 DEF Fails, TypeOK, world_vars, outside, history, Spent, Work
<1>6. CASE UNCHANGED vars
  BY <1>6 DEF vars, TypeOK
<1> QED BY <1>1, <1>2, <1>3, <1>4, <1>5, <1>6, Steps

-----------------------------------------------------------------------------
(* The copies.                                                             *)

LEMMA NothingStored ==
  /\ NoStatus.gen = 0 /\ NoStatus.decision = "" /\ NoStatus.report = ""
  /\ NoStatus.before.restarts = 0 /\ NoStatus.of.spec.scope \in Scopes
<1>1. NoStatus.before = NoBaseline /\ NoBaseline.restarts = 0
  BY DEF NoStatus, NoBaseline
<1>2. NoStatus.of = NoVerdict /\ NoVerdict.spec = NoSpec /\ NoSpec.scope = "all"
  BY DEF NoStatus, NoVerdict, NoSpec
<1> QED BY <1>1, <1>2 DEF NoStatus, Scopes

LEMMA SameNumber == \A m, n \in Nat : m = n => m <= n
  OBVIOUS

LEMMA Numbers ==
  ASSUME TypeOK
  PROVE  /\ rev \in Nat /\ ua.rv \in Nat /\ ua.gen \in Nat /\ ua.status.gen \in Nat
         /\ cache.rv \in Nat /\ cache.gen \in Nat /\ cache.status.gen \in Nat
         /\ ua.status.before.restarts \in Nat /\ ua.status \in Status
         /\ ua.status.of.spec.scope \in Scopes
<1>1. ua \in Object /\ cache \in Object /\ rev \in Nat
  BY DEF TypeOK
<1>2. ua.status.of.spec \in SpecRecord
  BY <1>1 DEF Object, Status, Verdict
<1>3. ua.status.of.spec.scope \in Scopes
  BY <1>2 DEF SpecRecord
<1> QED BY <1>1, <1>3 DEF Object, Status, Baseline

LEMMA CacheStep ==
  ASSUME IInv, [Next]_vars
  PROVE  CacheCurrent'
<1>0. TypeOK /\ CacheCurrent /\ WorkCurrent /\ NoUA.status.gen = 0
  BY NothingTyped, NothingStored DEF IInv
<1>1. CASE UserWrites
  BY <1>0, <1>1, Numbers, NothingTyped DEF UserWrites, operator, CacheCurrent, Exists, Object
<1>2. CASE Surroundings
  BY <1>0, <1>2, SurroundingSteps, Numbers, NothingTyped DEF CacheCurrent, Exists
<1>3. CASE Works \/ Fails \/ UNCHANGED vars
  BY <1>0, <1>3 DEF Works, Fails, vars, CacheCurrent
<1>4. CASE Stores
  <2>1. work.obj.status.gen <= ua.gen
    BY <1>0, <1>4 DEF Stores, Current, WorkCurrent, Analysing
  <2> QED BY <1>0, <1>4, <2>1, StatusStored, Numbers DEF Stores, CacheCurrent, Exists
<1> QED BY <1>0, <1>1, <1>2, <1>3, <1>4, Steps

LEMMA WorkCurrentStep ==
  ASSUME IInv, [Next]_vars
  PROVE  WorkCurrent'
<1>0. TypeOK /\ CacheCurrent /\ WorkCurrent /\ WorkCoherent
  BY DEF IInv
<1>1. CASE UserWrites
  <2>1. work' = work /\ pc' = pc /\ rev' = rev + 1
    BY <1>1 DEF UserWrites, operator
  <2>2. ~Exists(ua') \/ ua'.rv = rev + 1
    BY <1>1, NothingTyped DEF UserWrites, Exists
  <2> QED BY <1>0, <2>1, <2>2, Numbers, WorkParts DEF WorkCurrent
<1>2. CASE Surroundings
  BY <1>0, <1>2, SurroundingSteps DEF WorkCurrent, Analysing
<1>3. CASE Works
  <2>0. ua' = ua /\ rev' = rev
    BY <1>3 DEF Works
  <2>1. CASE ReconcileBegins
    <3>1. pc' = "collecting" /\ work'.obj = cache /\ Exists(cache)
      <4>1. work' = [NoWork EXCEPT !.obj = cache] /\ NoWork \in Work
        BY <2>1, NothingTyped DEF ReconcileBegins
      <4> QED BY <2>1, <4>1 DEF ReconcileBegins, Work
    <3> QED BY <1>0, <2>0, <3>1 DEF CacheCurrent, WorkCurrent, HasVerdict
  <2>2. CASE CollectRefuses
    BY <1>0, <2>0, <2>2, RefusedCopy
       DEF CollectRefuses, WorkCurrent, SameCopy, SameCounts, HasVerdict, Analysing
  <2>3. CASE Collect
    BY <1>0, <2>0, <2>3, CollectedCopy DEF Collect, WorkCurrent, Analysing
  <2>4. CASE Asks
    <3>1. pc = "asking" /\ TakeAnswer /\ work.obj.spec.ai # "off"
      BY <1>0, <2>4 DEF Asks, AskMemory, AskModel, WorkCoherent
    <3> QED BY <1>0, <2>0, <3>1, AnsweredCopy
            DEF WorkCurrent, SameCopy, SameCounts, HasVerdict, Analysing
  <2>5. CASE AskFails
    BY <1>0, <2>0, <2>5, UnansweredCopy
       DEF AskFails, WorkCurrent, SameCopy, SameCounts, HasVerdict, Analysing
  <2>6. CASE Propose
    BY <1>0, <2>0, <2>6 DEF Propose, WorkCurrent, HasVerdict, Analysing
  <2>7. CASE Exports
    <3>1. PICK state \in {"written", "failed"}, location \in Sources \cup {""} :
                 work' = [work EXCEPT !.obj = Concluded(@, state, location)]
      <4>1. work.obj.spec.source \in Sources
        BY <1>0, WorkParts DEF SpecRecord
      <4>2. CASE Export
        BY <4>1, <4>2 DEF Export
      <4>3. CASE ExportFails
        BY <4>1, <4>3 DEF ExportFails
      <4> QED BY <2>7, <4>2, <4>3 DEF Exports
    <3>2. /\ SameCopy /\ work'.verdict = work.verdict /\ work'.obj.status.gen = work.obj.gen
      BY <1>0, <3>1, ConcludedCopy
    <3>3. pc = "exporting" /\ pc' = "updating"
      BY <2>7 DEF Exports, Export, ExportFails
    <3>4. work'.obj.rv <= rev' /\ work'.obj.status.gen <= work'.obj.gen
      <4>1. work.obj.rv <= rev
        BY <1>0, <3>3 DEF WorkCurrent, Analysing
      <4>2. work.obj.gen \in Nat
        BY <1>0, WorkParts
      <4>3. work'.obj.status.gen = work.obj.gen /\ work'.obj.gen = work.obj.gen
        BY <3>2 DEF SameCopy
      <4> QED BY <2>0, <3>2, <4>1, <4>2, <4>3, SameNumber DEF SameCopy
    <3>5. ASSUME Exists(ua'), ua'.rv = work'.obj.rv
          PROVE  /\ work'.obj.gen = ua'.gen /\ work'.obj.spec = ua'.spec
                 /\ work'.verdict.facts.delta =
                      NewRestarts(work'.verdict.facts.restarts, ua'.status.before.restarts)
      <4>1. Exists(ua) /\ ua.rv = work.obj.rv
        BY <2>0, <3>2, <3>5 DEF SameCopy
      <4>2. /\ work.obj.gen = ua.gen /\ work.obj.spec = ua.spec
            /\ work.verdict.facts.delta =
                 NewRestarts(work.verdict.facts.restarts, ua.status.before.restarts)
        BY <1>0, <3>3, <4>1 DEF WorkCurrent, Analysing, HasVerdict
      <4> QED BY <2>0, <3>2, <4>2 DEF SameCopy
    <3> QED BY <3>3, <3>4, <3>5 DEF WorkCurrent
  <2> QED BY <1>3, <2>1, <2>2, <2>3, <2>4, <2>5, <2>6, <2>7 DEF Works
<1>4. CASE Stores \/ Fails
  BY <1>4 DEF Stores, Fails, WorkCurrent, Analysing
<1>5. CASE UNCHANGED vars
  BY <1>0, <1>5 DEF vars, WorkCurrent
<1> QED BY <1>0, <1>1, <1>2, <1>3, <1>4, <1>5, Steps

LEMMA WorkCoherentStep ==
  ASSUME IInv, [Next]_vars
  PROVE  WorkCoherent'
<1>0. TypeOK /\ WorkCoherent
  BY DEF IInv
<1>1. CASE UserWrites \/ UNCHANGED vars
  <2>1. UNCHANGED <<pc, work, store>>
    BY <1>1 DEF UserWrites, operator, outside, vars
  <2> QED BY <1>0, <2>1 DEF WorkCoherent
<1>2. CASE Surroundings
  BY <1>0, <1>2, SurroundingSteps DEF outside, WorkCoherent, HasVerdict
<1>3. CASE Works
  <2>1. CASE ReconcileBegins
    BY <2>1 DEF ReconcileBegins, WorkCoherent, HasVerdict
  <2>2. CASE CollectRefuses
    BY <1>0, <2>2, RefusedCopy DEF CollectRefuses, WorkCoherent, HasVerdict
  <2>3. CASE Collect
    BY <1>0, <2>3, CollectedCopy DEF Collect, WorkCoherent, HasVerdict
  <2>4. CASE Asks
    <3>1. pc = "asking" /\ TakeAnswer /\ work.obj.spec.ai # "off"
      BY <1>0, <2>4 DEF Asks, AskMemory, AskModel, WorkCoherent
    <3>2. pc' \in {"proposing", "exporting"}
      BY <3>1 DEF TakeAnswer
    <3> QED BY <1>0, <3>1, <3>2, AnsweredCopy DEF WorkCoherent, SameCopy, HasVerdict
  <2>5. CASE AskFails
    BY <1>0, <2>5, UnansweredCopy DEF AskFails, WorkCoherent, SameCopy, HasVerdict
  <2>6. CASE Propose
    BY <1>0, <2>6 DEF Propose, WorkCoherent, HasVerdict
  <2>7. CASE Exports
    <3>1. work.obj.spec.source \in Sources /\ DOMAIN store = Sources
      BY <1>0, WorkParts DEF SpecRecord, TypeOK
    <3>2. PICK state \in {"written", "failed"}, location \in Sources \cup {""} :
                 /\ work' = [work EXCEPT !.obj = Concluded(@, state, location)]
                 /\ state = "written" => /\ location \in Sources
                                         /\ store' = [store EXCEPT ![location] = work.verdict]
      <4>2. CASE Export
        BY <3>1, <4>2 DEF Export
      <4>3. CASE ExportFails
        BY <3>1, <4>3 DEF ExportFails
      <4> QED BY <2>7, <4>2, <4>3 DEF Exports
    <3>3. /\ SameCopy /\ work'.verdict = work.verdict
          /\ work'.obj.status.of = work.verdict /\ work'.obj.status.gen = work.obj.gen
          /\ work'.obj.status.before.restarts = work.verdict.facts.restarts
          /\ work'.obj.status.report = state /\ work'.obj.status.location = location
      BY <1>0, <3>2, ConcludedCopy
    <3>4. pc = "exporting" /\ pc' = "updating"
      BY <2>7 DEF Exports, Export, ExportFails
    <3>5. state = "written" => location \in Sources /\ store'[location] = work.verdict
      BY <3>1, <3>2
    <3> QED BY <1>0, <3>3, <3>4, <3>5 DEF WorkCoherent, SameCopy, HasVerdict
  <2> QED BY <1>3, <2>1, <2>2, <2>3, <2>4, <2>5, <2>6, <2>7 DEF Works
<1>4. CASE Stores \/ Fails
  BY <1>4 DEF Stores, Fails, WorkCoherent, HasVerdict
<1> QED BY <1>0, <1>1, <1>2, <1>3, <1>4, Steps

-----------------------------------------------------------------------------
(* What is stored.                                                         *)

LEMMA VerdictStep ==
  ASSUME IInv, [Next]_vars
  PROVE  VerdictOfObservedSpec'
<1>0. /\ TypeOK /\ CacheCurrent /\ WorkCurrent /\ WorkCoherent /\ VerdictOfObservedSpec
  BY DEF IInv
<1>1. CASE UserWrites
  <2>1. CASE ua'.status = NoStatus \/ ua' = NoUA
    BY <2>1, NothingTyped, NothingStored DEF VerdictOfObservedSpec
  <2>2. CASE Exists(ua) /\ ua'.status = ua.status /\ ua'.gen = ua.gen + 1
    <3>1. ua'.status.gen # ua'.gen
      BY <1>0, <2>2, Numbers DEF CacheCurrent
    <3> QED BY <3>1 DEF VerdictOfObservedSpec
  <2>3. CASE Exists(ua) /\ ua'.status = ua.status /\ ua'.gen = ua.gen /\ ua'.spec = ua.spec
    BY <1>0, <2>3 DEF VerdictOfObservedSpec
  <2> QED BY <1>1, <2>1, <2>2, <2>3 DEF UserWrites
<1>2. CASE Surroundings \/ Works \/ Fails \/ UNCHANGED vars
  <2>1. ua' = ua
    BY <1>0, <1>2, SurroundingSteps DEF Works, Fails, vars
  <2> QED BY <1>0, <2>1 DEF VerdictOfObservedSpec
<1>3. CASE Stores
  <2>1. Exists(ua) /\ ua.rv = work.obj.rv /\ pc \in {"updating", "refusing"}
    BY <1>3 DEF Stores, Current
  <2>2. CASE pc = "updating"
    <3>1. work.obj.spec = ua.spec /\ work.obj.status.of.spec = work.obj.spec
      BY <1>0, <2>1, <2>2 DEF WorkCurrent, WorkCoherent, Analysing, HasVerdict
    <3> QED BY <1>0, <1>3, <3>1, StatusStored DEF Stores, VerdictOfObservedSpec
  <2>3. CASE pc = "refusing"
    BY <1>0, <1>3, <2>3, StatusStored DEF Stores, WorkCoherent, VerdictOfObservedSpec
  <2> QED BY <2>1, <2>2, <2>3
<1> QED BY <1>0, <1>1, <1>2, <1>3, Steps

\* In the scope that a verdict is about, its counters are numbers.
LEMMA CountsTyped ==
  ASSUME TypeOK
  PROVE  /\ counted \in Nat
         /\ \A s \in Scopes : world.restarts[s] \in Nat /\ happened[s] \in Nat
         /\ work.verdict.spec.scope \in Scopes /\ work.obj.spec.scope \in Scopes
         /\ work.verdict.facts.delta \in Nat /\ work.verdict.facts.restarts \in Nat
<1>1. world \in World /\ happened \in [Scopes -> Nat] /\ counted \in Nat
  BY DEF TypeOK
<1>2. world.restarts \in [Scopes -> Nat]
  BY <1>1 DEF World
<1> QED BY <1>1, <1>2, WorkParts DEF SpecRecord, FactsRecord

\* A restart of the cluster is one that has happened, and what is taken back by
\* a counter that was reset stays so.
LEMMA RestartsOfCluster ==
  ASSUME IInv, Surroundings
  PROVE  RestartsCountedOnce' /\ RestartsKnown'
<1>0. TypeOK /\ TypeOK' /\ RestartsCountedOnce /\ RestartsKnown
  BY TypeStep DEF IInv, Surroundings, Next, Reconcile
<1>1. /\ UNCHANGED <<ua, counted>>
      /\ UNCHANGED <<pc, work>> \/ pc' \in {"down", "idle"}
      /\ \A s \in Scopes :
           /\ happened[s] <= happened'[s]
           /\ happened[s] + world'.restarts[s] <= happened'[s] + world.restarts[s]
  BY <1>0, SurroundingSteps
<1>2. \A s \in Scopes : world'.restarts[s] \in Nat /\ happened'[s] \in Nat
  <2>1. world' \in World /\ happened' \in [Scopes -> Nat]
    BY <1>0 DEF TypeOK
  <2>2. world'.restarts \in [Scopes -> Nat]
    BY <2>1 DEF World
  <2> QED BY <2>1, <2>2
<1> QED BY <1>0, <1>1, <1>2, CountsTyped, Numbers
        DEF RestartsCountedOnce, RestartsKnown, HasVerdict, SameScope

\* The facts that are collected are those of the cluster at this moment.
LEMMA RestartsCollected ==
  ASSUME IInv, Collect
  PROVE  RestartsKnown'
<1>0. /\ TypeOK /\ WorkCurrent /\ RestartsCountedOnce /\ RestartsKnown
  BY DEF IInv
<1>1. /\ pc = "collecting"
      /\ UNCHANGED <<ua, world, counted, happened>>
  BY DEF Collect, world_vars, history
<1> DEFINE scope == work.obj.spec.scope
           r == world.restarts[scope]
           d == work'.verdict.facts.delta
<1>2. /\ work'.obj = work.obj /\ work'.verdict.spec.scope = scope
      /\ work'.verdict.facts.restarts = r
      /\ d = NewRestarts(r, work.obj.status.before.restarts)
  BY <1>0, CollectedCopy
<1>3. scope \in Scopes /\ r \in Nat /\ happened[scope] \in Nat /\ counted \in Nat
  BY <1>0, CountsTyped
<1>4. r <= happened[scope]
  BY <1>0, <1>3 DEF RestartsKnown
<1>5. ASSUME Exists(ua), ua.rv = work.obj.rv, scope = ua.status.of.spec.scope
      PROVE  counted + d <= happened[scope]
  <2> DEFINE b == ua.status.before.restarts
  <2>1. d = NewRestarts(r, b)
    BY <1>0, <1>1, <1>2, <1>5 DEF WorkCurrent, Analysing
  <2>2. counted + r <= b + happened[scope] /\ counted <= happened[scope] /\ b \in Nat
    BY <1>0, <1>5, Numbers DEF RestartsKnown, RestartsCountedOnce
  <2> HIDE DEF r, d, b, scope
  <2> QED BY <1>3, <2>1, <2>2 DEF NewRestarts
<1> HIDE DEF d
<1>6. (pc \in HasVerdict =>
        /\ work.verdict.facts.restarts <= happened[work.verdict.spec.scope]
        /\ Exists(ua) /\ ua.rv = work.obj.rv /\ SameScope =>
             /\ counted + work.verdict.facts.delta <= happened[work.verdict.spec.scope]
             /\ counted + work.verdict.facts.delta
                  + world.restarts[work.verdict.spec.scope]
                  <= work.verdict.facts.restarts + happened[work.verdict.spec.scope])'
  <2>1. SUFFICES ASSUME Exists(ua), ua.rv = work.obj.rv, scope = ua.status.of.spec.scope
                 PROVE  counted + d <= happened[scope] /\ counted + d + r <= r + happened[scope]
    BY <1>1, <1>2, <1>4 DEF SameScope, d
  <2>2. counted + d <= happened[scope] /\ d \in Nat
    <3>1. work.obj.status.before.restarts \in Nat
      BY <1>0, WorkParts DEF Baseline
    <3> HIDE DEF r
    <3> QED BY <1>2, <1>3, <1>5, <2>1, <3>1 DEF NewRestarts
  <2> HIDE DEF scope, r
  <2> QED BY <1>3, <2>2
<1>7. /\ \A s \in Scopes : world'.restarts[s] <= happened'[s]
      /\ Exists(ua') =>
           counted' + world'.restarts[ua'.status.of.spec.scope]
             <= ua'.status.before.restarts + happened'[ua'.status.of.spec.scope]
  BY <1>0, <1>1 DEF RestartsKnown
<1> QED BY <1>6, <1>7 DEF RestartsKnown

\* Whatever else Reconcile does keeps the facts that it has collected.
LEMMA RestartsAtWork ==
  ASSUME IInv, Works
  PROVE  RestartsKnown'
<1>0. TypeOK /\ WorkCoherent /\ RestartsKnown
  BY DEF IInv
<1>1. UNCHANGED <<ua, world, counted, happened>>
  BY DEF Works, world_vars
<1>2. CASE Collect
  BY <1>2, RestartsCollected
<1>3. CASE ReconcileBegins \/ CollectRefuses
  BY <1>0, <1>1, <1>3 DEF RestartsKnown, ReconcileBegins, CollectRefuses, HasVerdict
<1>4. CASE Asks \/ AskFails \/ Propose \/ Exports
  <2>1. /\ pc \in HasVerdict /\ SameCopy /\ work'.verdict.spec = work.verdict.spec
        /\ work'.verdict.facts = work.verdict.facts
    <3>1. CASE Asks
      <4>1. TakeAnswer /\ pc = "asking"
        BY <3>1 DEF Asks, AskMemory, AskModel
      <4> QED BY <1>0, <4>1, AnsweredCopy DEF WorkCoherent, HasVerdict
    <3>2. CASE AskFails
      BY <1>0, <3>2, UnansweredCopy DEF AskFails, HasVerdict
    <3>3. CASE Propose
      BY <3>3 DEF Propose, HasVerdict, SameCopy
    <3>4. CASE Exports
      <4>1. \E state \in {"written", "failed"}, location \in Sources \cup {""} :
              work' = [work EXCEPT !.obj = Concluded(@, state, location)]
        BY <1>0, <3>4, WorkParts DEF Exports, Export, ExportFails, SpecRecord
      <4> QED BY <1>0, <3>4, <4>1, ConcludedCopy DEF Exports, Export, ExportFails, HasVerdict
    <3> QED BY <1>4, <3>1, <3>2, <3>3, <3>4
  <2> QED BY <1>0, <1>1, <2>1 DEF RestartsKnown, SameCopy, SameScope
<1> QED BY <1>2, <1>3, <1>4 DEF Works

\* A verdict that is stored replaces the baseline it was compared with.
LEMMA RestartsStored ==
  ASSUME IInv, Stores
  PROVE  RestartsCountedOnce' /\ RestartsKnown'
<1>0. TypeOK /\ WorkCurrent /\ WorkCoherent /\ RestartsCountedOnce /\ RestartsKnown
  BY DEF IInv
<1>1. /\ Exists(ua) /\ ua.rv = work.obj.rv /\ pc \in {"updating", "refusing"}
      /\ pc' = "idle" /\ UNCHANGED <<world, happened>> /\ ua'.status = work.obj.status
  BY <1>0, StatusStored DEF Stores, Current, world_vars
<1>2. \A s \in Scopes : world.restarts[s] <= happened[s]
  BY <1>0 DEF RestartsKnown
<1>3. CASE pc = "updating"
  <2> DEFINE scope == work.verdict.spec.scope
             r == work.verdict.facts.restarts
             d == work.verdict.facts.delta
             h == happened[scope]
             c == world.restarts[scope]
  <2>1. /\ ua'.status.of.spec.scope = scope /\ ua'.status.before.restarts = r
        /\ d <= r /\ r <= h /\ c <= h
    BY <1>0, <1>1, <1>2, <1>3, CountsTyped DEF WorkCoherent, RestartsKnown, HasVerdict
  <2>2. h \in Nat /\ c \in Nat /\ r \in Nat /\ d \in Nat /\ counted \in Nat
    BY <1>0, CountsTyped
  <2>3. counted' <= h /\ counted' + c <= r + h
    <3>1. CASE SameScope
      <4>1. counted' = counted + d
        BY <1>3, <3>1 DEF Stores, StoreStatus
      <4>2. counted + d <= h /\ counted + d + c <= r + h
        BY <1>0, <1>1, <1>3, <3>1 DEF RestartsKnown, HasVerdict
      <4> QED BY <4>1, <4>2
    <3>2. CASE ~SameScope
      <4>1. counted' = 0 + d
        BY <1>3, <3>2 DEF Stores, StoreStatus
      <4> HIDE DEF scope, r, d, h, c
      <4> QED BY <2>1, <2>2, <4>1
    <3> QED BY <3>1, <3>2
  <2> QED BY <1>1, <1>2, <2>1, <2>3 DEF RestartsCountedOnce, RestartsKnown, HasVerdict
<1>4. CASE pc = "refusing"
  <2>1. counted' = counted
    BY <1>4 DEF Stores, StoreStatus
  <2>2. /\ ua'.status.before = ua.status.before /\ ua'.status.of = ua.status.of
    BY <1>0, <1>1, <1>4 DEF WorkCurrent, Analysing
  <2> QED BY <1>0, <1>1, <2>1, <2>2 DEF RestartsCountedOnce, RestartsKnown, HasVerdict
<1> QED BY <1>1, <1>3, <1>4

LEMMA RestartsStep ==
  ASSUME IInv, [Next]_vars
  PROVE  RestartsCountedOnce' /\ RestartsKnown'
<1>0. TypeOK /\ WorkCurrent /\ RestartsCountedOnce /\ RestartsKnown
  BY DEF IInv
<1>1. CASE UserWrites
  <2>1. UNCHANGED <<world, happened, pc, work>>
    BY <1>1 DEF UserWrites, world_vars, operator
  <2>2. ~Exists(ua') \/ ua'.rv = rev + 1
    BY <1>1, NothingTyped DEF UserWrites, Exists
  <2>3. pc \in HasVerdict => ~(Exists(ua') /\ ua'.rv = work.obj.rv)
    BY <1>0, <2>2, WorkParts, Numbers DEF WorkCurrent, HasVerdict, Analysing
  <2>4. CASE ua'.status = NoStatus /\ counted' = 0
    <3>1. /\ ua'.status.before.restarts = 0 /\ ua'.status.of.spec.scope \in Scopes
      BY <2>4, NothingStored
    <3> QED BY <1>0, <2>1, <2>3, <2>4, <3>1, CountsTyped
            DEF RestartsCountedOnce, RestartsKnown
  <2>5. CASE Exists(ua) /\ ua'.status = ua.status /\ counted' = counted
    BY <1>0, <2>1, <2>3, <2>5 DEF RestartsCountedOnce, RestartsKnown
  <2>6. CASE ua' = NoUA
    BY <1>0, <2>1, <2>3, <2>6, NothingTyped DEF RestartsCountedOnce, RestartsKnown, Exists
  <2> QED BY <1>1, <2>4, <2>5, <2>6 DEF UserWrites
<1>2. CASE Surroundings
  BY <1>2, RestartsOfCluster
<1>3. CASE Works
  BY <1>0, <1>3, RestartsAtWork DEF Works, RestartsCountedOnce
<1>4. CASE Stores
  BY <1>4, RestartsStored
<1>5. CASE Fails
  BY <1>0, <1>5 DEF Fails, world_vars, history, RestartsCountedOnce, RestartsKnown, HasVerdict
<1>6. CASE UNCHANGED vars
  BY <1>0, <1>6 DEF vars, RestartsCountedOnce, RestartsKnown, SameScope
<1> QED BY <1>0, <1>1, <1>2, <1>3, <1>4, <1>5, <1>6, Steps

-----------------------------------------------------------------------------
(* The answers asked of the AI. What is still to be asked for is the number *)
(* of times the prompt can differ between the answer that is remembered,    *)
(* the prompts of Reconcile's copy, of the cached and of the stored object, *)
(* and the one of an analysis that finds nothing new; a step shortens this  *)
(* path, or is paid for.                                                    *)

Differ(x, y) == IF x = y THEN 0 ELSE 1

\* The prompt of an analysis of the object in the state w of the cluster, listed
\* in the usual order, the part of the object it depends on, and the counts this
\* analysis would leave.
PromptIn(w, obj) ==
  Prompt(obj.spec, Facts(obj.spec, w, obj.status.before),
         UsualOrder(w.rows[obj.spec.scope]))
Asked(obj) == <<obj.spec, obj.status.before>>
CountsIn(w, spec) ==
  [pods |-> w.pods[spec.scope], restarts |-> w.restarts[spec.scope]]
WorkCounts == [pods |-> work.verdict.facts.pods,
               restarts |-> work.verdict.facts.restarts]

\* The verdict of Reconcile may yet be stored.
Storable == pc \in HasVerdict /\ Exists(ua) /\ ua.rv = work.obj.rv

RememberedToCached ==
  CASE pc = "down" -> Differ(aiCache, PromptIn(world, ua))
    [] pc = "collecting" -> Differ(aiCache, PromptIn(world, work.obj))
                            + Differ(Asked(work.obj), Asked(cache))
    [] pc = "asking" -> Differ(aiCache, ThePrompt)
                        + Differ(ThePrompt, PromptIn(world, cache))
    [] OTHER -> Differ(aiCache, PromptIn(world, cache))
CachedToStored == IF pc = "down" THEN 0 ELSE Differ(Asked(cache), Asked(ua))
StoredToRest ==
  IF Storable
  THEN Differ(ua.status.before, WorkCounts)
       + Differ(WorkCounts, CountsIn(world, ua.spec))
  ELSE Differ(ua.status.before, CountsIn(world, ua.spec))
CallsDue == RememberedToCached + CachedToStored + StoredToRest

Budget(s) == 2 * (1 + s.edits + s.changes + s.reorders) + s.crashes + s.faults
CallsPaid ==
  /\ calls + CallsDue <= Budget(spent)
  /\ pc = "updating" => work.obj.status.before = WorkCounts

LEMMA SamePrompt ==
  ASSUME NEW w, NEW a, NEW b, Asked(a) = Asked(b)
  PROVE  PromptIn(w, a) = PromptIn(w, b)
<1>1. a.spec = b.spec /\ a.status.before = b.status.before
  BY DEF Asked
<1> QED BY <1>1 DEF PromptIn

LEMMA DueTyped ==
  RememberedToCached \in Nat /\ CachedToStored \in Nat /\ StoredToRest \in Nat
<1>1. RememberedToCached \in Nat
  BY DEF RememberedToCached, Differ
<1>2. CachedToStored \in Nat /\ StoredToRest \in Nat
  BY DEF CachedToStored, StoredToRest, Differ
<1> QED BY <1>1, <1>2

\* The whole way is no shorter than its last part.
LEMMA RestWithin ==
  Differ(ua.status.before, CountsIn(world, ua.spec)) \in 0 .. StoredToRest
BY DEF StoredToRest, Differ

LEMMA CachedWithin ==
  ASSUME pc # "down"
  PROVE  /\ Differ(aiCache, PromptIn(world, cache)) <= RememberedToCached
         /\ Differ(aiCache, PromptIn(world, ua)) <= RememberedToCached + CachedToStored
<1>1. Differ(aiCache, PromptIn(world, cache)) <= RememberedToCached
  <2>1. CASE pc = "collecting"
    <3>1. CASE Asked(work.obj) = Asked(cache)
      <4>1. PromptIn(world, work.obj) = PromptIn(world, cache)
        BY <3>1, SamePrompt
      <4> QED BY <2>1, <4>1 DEF RememberedToCached, Differ
    <3>2. CASE Asked(work.obj) # Asked(cache)
      BY <2>1, <3>2 DEF RememberedToCached, Differ
    <3> QED BY <3>1, <3>2
  <2>2. CASE pc # "collecting"
    BY <2>2 DEF RememberedToCached, Differ
  <2> QED BY <2>1, <2>2
<1>2. CASE Asked(cache) = Asked(ua)
  <2>1. PromptIn(world, cache) = PromptIn(world, ua)
    BY <1>2, SamePrompt
  <2> QED BY <1>1, <2>1, DueTyped DEF Differ
<1>3. CASE Asked(cache) # Asked(ua)
  <2>1. CachedToStored = 1
    BY <1>3 DEF CachedToStored, Differ
  <2> QED BY <1>1, <2>1, DueTyped DEF Differ
<1> QED BY <1>2, <1>3

LEMMA BudgetGrows ==
  ASSUME TypeOK
  PROVE  /\ Budget(spent) \in Nat /\ calls \in Nat
         /\ Budget([spent EXCEPT !.edits = @ + 1]) = Budget(spent) + 2
         /\ Budget([spent EXCEPT !.refreshes = @ + 1]) = Budget(spent)
         /\ Budget([spent EXCEPT !.changes = @ + 1]) = Budget(spent) + 2
         /\ Budget([spent EXCEPT !.reorders = @ + 1]) = Budget(spent) + 2
         /\ Budget([spent EXCEPT !.crashes = @ + 1]) = Budget(spent) + 1
         /\ Budget([spent EXCEPT !.faults = @ + 1]) = Budget(spent) + 1
<1>1. spent \in Spent /\ calls \in Nat
  BY DEF TypeOK, Spent
<1>2. /\ spent.edits \in Nat /\ spent.refreshes \in Nat /\ spent.changes \in Nat
      /\ spent.reorders \in Nat /\ spent.crashes \in Nat /\ spent.faults \in Nat
  BY <1>1 DEF Spent
<1> QED BY <1>1, <1>2 DEF Budget, Spent

\* What the user does costs two answers at most, a refresh none.
LEMMA CallsOfUser ==
  ASSUME IInv, CallsPaid, User
  PROVE  CallsPaid'
<1>0. TypeOK /\ WorkCurrent
  BY DEF IInv
<1>1. UserWrites
  BY <1>0, UserSteps
<1>2. UNCHANGED <<world, cache, pc, work, aiCache, calls>>
  BY <1>1 DEF UserWrites, world_vars, operator
<1>3. ~Storable'
  <2>1. ~Exists(ua') \/ ua'.rv = rev + 1
    BY <1>1, NothingTyped DEF UserWrites, Exists
  <2>2. pc \in Analysing => work.obj.rv <= rev /\ work.obj.rv \in Nat /\ rev \in Nat
    BY <1>0, WorkParts, Numbers DEF WorkCurrent
  <2> QED BY <1>2, <2>1, <2>2 DEF Storable, HasVerdict, Analysing
<1>4. (pc = "updating" => work.obj.status.before = WorkCounts)'
  BY <1>2 DEF CallsPaid, WorkCounts
<1>5. StoredToRest' = Differ(ua'.status.before, CountsIn(world, ua'.spec))
  BY <1>2, <1>3 DEF StoredToRest
<1>6. CASE UserRefreshes
  <2>1. ua'.spec = ua.spec /\ ua'.status = ua.status
    <3>1. ua \in Object /\ spent \in Spent
      BY <1>0 DEF TypeOK, Spent
    <3> DEFINE n == spent.refreshes + 1
               obj == [ua EXCEPT !.refresh = n]
    <3>2. n \in Nat
      BY <3>1 DEF Spent
    <3>3. obj \in Object /\ obj.spec = ua.spec /\ obj.status = ua.status
      <4> HIDE DEF n
      <4> QED BY <3>1, <3>2, WithRefresh DEF Object
    <3>4. Store(obj)
      BY <1>6 DEF UserRefreshes
    <3> HIDE DEF obj
    <3> QED BY <1>0, <3>3, <3>4, Stored
  <2>2. Asked(ua') = Asked(ua)
    BY <2>1 DEF Asked
  <2>3. PromptIn(world, ua') = PromptIn(world, ua)
    BY <2>2, SamePrompt
  <2>4. RememberedToCached' = RememberedToCached
    BY <1>2, <2>3 DEF RememberedToCached, ThePrompt
  <2>5. CachedToStored' = CachedToStored
    BY <1>2, <2>2 DEF CachedToStored
  <2>6. StoredToRest' <= StoredToRest /\ StoredToRest' \in Nat
    BY <1>5, <2>1, RestWithin, DueTyped
  <2>7. Budget(spent') = Budget(spent) /\ Budget(spent) \in Nat /\ calls \in Nat
    BY <1>0, <1>6, BudgetGrows DEF UserRefreshes
  <2>8. calls' + CallsDue' <= Budget(spent')
    BY <1>2, <2>4, <2>5, <2>6, <2>7, DueTyped DEF CallsPaid, CallsDue
  <2> QED BY <1>4, <2>8 DEF CallsPaid
<1>7. CASE ~UserRefreshes
  <2>1. Budget(spent') = Budget(spent) + 2 /\ Budget(spent) \in Nat /\ calls \in Nat
    <3>1. spent' = [spent EXCEPT !.edits = @ + 1]
      BY <1>7 DEF User, UserCreates, UserEdits, UserDeletes
    <3> QED BY <1>0, <3>1, BudgetGrows
  <2>2. StoredToRest' \in Nat /\ StoredToRest' <= 1
    BY <1>5 DEF Differ
  <2>3. RememberedToCached' + CachedToStored' <= RememberedToCached + 1
        /\ RememberedToCached' \in Nat /\ CachedToStored' \in Nat
    <3>1. CASE pc = "down"
      BY <1>2, <3>1 DEF RememberedToCached, CachedToStored, Differ
    <3>2. CASE pc # "down"
      <4>1. RememberedToCached' = RememberedToCached
        BY <1>2, <3>2 DEF RememberedToCached, ThePrompt
      <4>2. CachedToStored' \in Nat /\ CachedToStored' <= 1
        BY DEF CachedToStored, Differ
      <4>3. RememberedToCached \in Nat
        BY DueTyped
      <4>4. \A b \in Nat : b <= 1 => RememberedToCached + b <= RememberedToCached + 1
        BY <4>3
      <4>5. RememberedToCached + CachedToStored' <= RememberedToCached + 1
        BY <4>2, <4>4
      <4> QED BY <4>1, <4>2, <4>3, <4>5
    <3> QED BY <3>1, <3>2
  <2>4. calls' + CallsDue' <= Budget(spent')
    <3>1. RememberedToCached \in Nat /\ CachedToStored \in Nat /\ StoredToRest \in Nat
      BY DueTyped
    <3>2. calls + (RememberedToCached + CachedToStored + StoredToRest) <= Budget(spent)
      BY DEF CallsPaid, CallsDue
    <3>3. \A x, y, z \in Nat : x + y <= RememberedToCached + 1 /\ z <= 1
            => calls + (x + y + z) <= Budget(spent) + 2
      BY <2>1, <3>1, <3>2
    <3>4. calls + (RememberedToCached' + CachedToStored' + StoredToRest')
            <= Budget(spent) + 2
      BY <2>2, <2>3, <3>3
    <3> QED BY <1>2, <2>1, <3>4 DEF CallsDue
  <2> QED BY <1>4, <2>4 DEF CallsPaid
<1> QED BY <1>6, <1>7

\* A change of the cluster costs two answers at most, a crash one, the other
\* steps around Reconcile none.
LEMMA CallsOfSurroundings ==
  ASSUME IInv, CallsPaid, Surroundings
  PROVE  CallsPaid'
<1>0. TypeOK
  BY DEF IInv
<1>1. ua' = ua /\ calls' = calls
  BY <1>0, SurroundingSteps DEF history
<1>2. ASSUME NEW w \in Worlds, ClusterChanges(w)
      PROVE  CallsPaid'
  <2>1. /\ UNCHANGED <<cache, pc, work, aiCache>>
        /\ Budget(spent') = Budget(spent) + 2 /\ Budget(spent) \in Nat /\ calls \in Nat
    BY <1>0, <1>2, BudgetGrows DEF ClusterChanges, operator
  <2>2. RememberedToCached' <= RememberedToCached + 1 /\ RememberedToCached' \in Nat
    <3>1. CASE pc = "down"
      BY <2>1, <3>1 DEF RememberedToCached, Differ
    <3>2. CASE pc = "collecting"
      BY <2>1, <3>2 DEF RememberedToCached, Differ
    <3>3. CASE pc = "asking"
      BY <2>1, <3>3 DEF RememberedToCached, Differ, ThePrompt
    <3>4. CASE pc \notin {"down", "collecting", "asking"}
      BY <2>1, <3>4 DEF RememberedToCached, Differ
    <3> QED BY <3>1, <3>2, <3>3, <3>4
  <2>3. CachedToStored' = CachedToStored
    BY <1>1, <2>1 DEF CachedToStored
  <2>4. StoredToRest' <= StoredToRest + 1 /\ StoredToRest' \in Nat
    <3>1. Storable' = Storable /\ WorkCounts' = WorkCounts
      BY <1>1, <2>1 DEF Storable, WorkCounts
    <3> QED BY <1>1, <3>1 DEF StoredToRest, Differ
  <2>5. calls' + CallsDue' <= Budget(spent')
    BY <1>1, <2>1, <2>2, <2>3, <2>4, DueTyped DEF CallsPaid, CallsDue
  <2> QED BY <2>1, <2>5 DEF CallsPaid, WorkCounts
<1>3. CASE Tick \/ TimerFires \/ ReconcileSkips
  <2>1. UNCHANGED <<world, cache, pc, work, aiCache, spent>>
    BY <1>3 DEF Tick, TimerFires, ReconcileSkips, world_vars, operator
  <2>2. CallsDue' = CallsDue
    BY <1>1, <2>1 DEF CallsDue, RememberedToCached, CachedToStored, StoredToRest,
                      Storable, ThePrompt, WorkCounts
  <2> QED BY <1>1, <2>1, <2>2 DEF CallsPaid, WorkCounts
<1>4. CASE Observe
  <2>1. /\ UNCHANGED <<world, pc, work, aiCache, spent>>
        /\ cache' = ua /\ pc # "down"
    BY <1>4 DEF Observe, world_vars
  <2>2. CachedToStored' = 0
    BY <1>1, <2>1 DEF CachedToStored, Differ
  <2>3. RememberedToCached' <= RememberedToCached + CachedToStored
        /\ RememberedToCached' \in Nat
    <3>1. CASE pc = "collecting"
      BY <2>1, <3>1 DEF RememberedToCached, CachedToStored, Differ
    <3>2. CASE pc = "asking"
      <4>1. CASE Asked(cache) = Asked(ua)
        <5>1. PromptIn(world, cache) = PromptIn(world, ua)
          BY <4>1, SamePrompt
        <5> QED BY <2>1, <3>2, <5>1
                DEF RememberedToCached, CachedToStored, Differ, ThePrompt
      <4>2. CASE Asked(cache) # Asked(ua)
        BY <2>1, <3>2, <4>2 DEF RememberedToCached, CachedToStored, Differ, ThePrompt
      <4> QED BY <4>1, <4>2
    <3>3. CASE pc \notin {"collecting", "asking"}
      <4>1. RememberedToCached' = Differ(aiCache, PromptIn(world, ua))
        BY <2>1, <3>3 DEF RememberedToCached
      <4> QED BY <2>1, <4>1, CachedWithin DEF Differ
    <3> QED BY <3>1, <3>2, <3>3
  <2>4. StoredToRest' = StoredToRest
    BY <1>1, <2>1 DEF StoredToRest, Storable, WorkCounts
  <2>5. calls \in Nat /\ Budget(spent) \in Nat
    BY <1>0, BudgetGrows
  <2>6. calls' + CallsDue' <= Budget(spent')
    BY <1>1, <2>1, <2>2, <2>3, <2>4, <2>5, DueTyped DEF CallsPaid, CallsDue
  <2> QED BY <2>1, <2>6 DEF CallsPaid, WorkCounts
<1>5. CASE Crash
  <2>1. /\ world' = world /\ pc' = "down"
        /\ Budget(spent') = Budget(spent) + 1 /\ Budget(spent) \in Nat /\ calls \in Nat
    BY <1>0, <1>5, BudgetGrows DEF Crash, world_vars
  <2>2. RememberedToCached' \in 0 .. 1 /\ CachedToStored' = 0
    BY <2>1 DEF RememberedToCached, CachedToStored, Differ
  <2>3. StoredToRest' = Differ(ua.status.before, CountsIn(world, ua.spec))
    BY <1>1, <2>1 DEF StoredToRest, Storable, HasVerdict
  <2>4. calls' + CallsDue' <= Budget(spent')
    BY <1>1, <2>1, <2>2, <2>3, RestWithin, DueTyped DEF CallsPaid, CallsDue
  <2> QED BY <2>1, <2>4 DEF CallsPaid
<1>6. CASE Start
  <2>1. /\ UNCHANGED <<world, work, aiCache, spent>>
        /\ pc = "down" /\ pc' = "idle" /\ cache' = ua
    BY <1>6 DEF Start, world_vars
  <2>2. RememberedToCached' = RememberedToCached /\ CachedToStored' = CachedToStored
    BY <1>1, <2>1 DEF RememberedToCached, CachedToStored, Differ
  <2>3. StoredToRest' = StoredToRest
    BY <1>1, <2>1 DEF StoredToRest, Storable, HasVerdict
  <2> QED BY <1>1, <2>1, <2>2, <2>3 DEF CallsPaid, CallsDue
<1> QED BY <1>2, <1>3, <1>4, <1>5, <1>6 DEF Surroundings

LEMMA SumOfParts ==
  ASSUME NEW asked \in Nat, NEW paid \in Nat, NEW x \in Nat, NEW y \in Nat,
         NEW z \in Nat, NEW p \in Nat, NEW q \in Nat, NEW r \in Nat,
         asked <= paid, x <= p, y = q, z <= r
  PROVE  asked + x + y + z <= paid + p + q + r
OBVIOUS

LEMMA SumOfCalls ==
  ASSUME NEW c \in Nat, NEW b \in Nat, NEW asked \in Nat, NEW paid \in Nat,
         NEW x \in Nat, NEW y \in Nat, NEW z \in Nat,
         NEW p \in Nat, NEW q \in Nat, NEW r \in Nat,
         asked + x + y + z <= paid + p + q + r, c + (p + q + r) <= b
  PROVE  c + asked + (x + y + z) <= b + paid
OBVIOUS

\* The sum of the parts: what is asked and what is left to ask are paid for.
LEMMA Paid ==
  ASSUME TypeOK, CallsPaid, NEW asked \in Nat, NEW paid \in Nat,
         calls' = calls + asked, Budget(spent') = Budget(spent) + paid,
         NEW x \in Nat, NEW y \in Nat, NEW z \in Nat,
         x = RememberedToCached', y = CachedToStored', z = StoredToRest',
         asked + x + y + z
           <= paid + RememberedToCached + CachedToStored + StoredToRest
  PROVE  calls' + CallsDue' <= Budget(spent')
<1>1. RememberedToCached \in Nat /\ CachedToStored \in Nat /\ StoredToRest \in Nat
  BY DueTyped
<1>2. calls \in Nat /\ Budget(spent) \in Nat
  BY BudgetGrows
<1>3. calls + (RememberedToCached + CachedToStored + StoredToRest) <= Budget(spent)
  BY DEF CallsPaid, CallsDue
<1>4. calls + asked + (x + y + z) <= Budget(spent) + paid
  BY <1>1, <1>2, <1>3, SumOfCalls, Zenon
<1> QED BY <1>4 DEF CallsDue

\* A reconciliation that has passed the AI, or ends, leaves the cached object.
LEMMA PastTheAI ==
  ASSUME pc # "down", pc' \notin {"down", "collecting", "asking"},
         UNCHANGED <<ua, world, cache, aiCache>>
  PROVE  /\ \E x \in Nat : x = RememberedToCached' /\ x <= RememberedToCached
         /\ CachedToStored' = CachedToStored
<1>1. RememberedToCached' = Differ(aiCache, PromptIn(world, cache))
  BY DEF RememberedToCached
<1>2. Differ(aiCache, PromptIn(world, cache)) \in Nat
  BY DEF Differ
<1>3. CachedToStored' = CachedToStored
  BY DEF CachedToStored
<1> QED BY <1>1, <1>2, <1>3, CachedWithin

\* A verdict that was about to be stored is kept or given up.
LEMMA KeptOrGivenUp ==
  ASSUME UNCHANGED <<ua, world>>, Storable' => Storable /\ WorkCounts' = WorkCounts
  PROVE  \E z \in Nat : z = StoredToRest' /\ z <= StoredToRest
<1>1. CASE Storable'
  <2>1. StoredToRest' = StoredToRest
    BY <1>1 DEF StoredToRest
  <2> QED BY <2>1, DueTyped
<1>2. CASE ~Storable'
  <2>1. StoredToRest' = Differ(ua.status.before, CountsIn(world, ua.spec))
    BY <1>2 DEF StoredToRest
  <2>2. /\ Differ(ua.status.before, CountsIn(world, ua.spec)) \in Nat
        /\ Differ(ua.status.before, CountsIn(world, ua.spec)) <= StoredToRest
    BY RestWithin, DueTyped DEF Differ
  <2> QED BY <2>1, <2>2
<1> QED BY <1>1, <1>2

\* A step that shortens the way, and asks nothing or pays for it.
LEMMA PastTheAIPaid ==
  ASSUME TypeOK, CallsPaid, NEW asked \in Nat, NEW paid \in Nat, asked <= paid,
         calls' = calls + asked, Budget(spent') = Budget(spent) + paid,
         pc # "down", pc' \notin {"down", "collecting", "asking"},
         UNCHANGED <<ua, world, cache, aiCache>>,
         Storable' => Storable /\ WorkCounts' = WorkCounts
  PROVE  calls' + CallsDue' <= Budget(spent')
<1>1. PICK x \in Nat : x = RememberedToCached' /\ x <= RememberedToCached
  BY PastTheAI
<1>2. PICK y : y = CachedToStored
  OBVIOUS
<1>3. y \in Nat /\ y = CachedToStored'
  BY <1>2, PastTheAI, DueTyped
<1>4. PICK z \in Nat : z = StoredToRest' /\ z <= StoredToRest
  BY KeptOrGivenUp
<1>5. asked + x + y + z
        <= paid + RememberedToCached + CachedToStored + StoredToRest
  BY <1>1, <1>2, <1>3, <1>4, DueTyped, SumOfParts, Zenon
<1> QED BY <1>1, <1>3, <1>4, <1>5, Paid

\* The copy of the object stands for the cached one when it is taken.
LEMMA CallsOfBegin ==
  ASSUME IInv, CallsPaid, ReconcileBegins
  PROVE  CallsPaid'
<1>0. TypeOK
  BY DEF IInv
<1>1. /\ pc = "idle" /\ pc' = "collecting"
      /\ UNCHANGED <<ua, world, cache, aiCache, calls, spent>>
  BY DEF ReconcileBegins, world_vars, history
<1>2. work'.obj = cache
  <2>1. work' = [NoWork EXCEPT !.obj = cache] /\ NoWork \in Work
    BY NothingTyped DEF ReconcileBegins
  <2> QED BY <2>1 DEF Work
<1>3. RememberedToCached' = RememberedToCached /\ CachedToStored' = CachedToStored
  BY <1>1, <1>2 DEF RememberedToCached, CachedToStored, Differ
<1>4. StoredToRest' = StoredToRest
  BY <1>1 DEF StoredToRest, Storable, HasVerdict
<1> QED BY <1>1, <1>3, <1>4 DEF CallsPaid, CallsDue

LEMMA SumOfMore ==
  ASSUME NEW paid \in Nat, NEW x \in Nat, NEW y \in Nat, NEW z \in Nat,
         NEW p \in Nat, NEW q \in Nat, NEW r \in Nat,
         x <= paid + p, y = q, z <= r
  PROVE  0 + x + y + z <= paid + p + q + r
OBVIOUS

LEMMA OrderLength ==
  ASSUME NEW n \in Nat, NEW order \in Orders(n)
  PROVE  Len(order) = n
<1>1. order \in Seq(Nat) /\ DOMAIN order = 1 .. n
  BY OrderTyped DEF Orders
<1> QED BY <1>1, LenProperties

\* The prompt of the collected facts is the one that was due, unless the lists
\* come in another order, which is paid for; and what the analysis will leave are
\* the counts of the cluster.
LEMMA CallsOfCollect ==
  ASSUME IInv, CallsPaid, Collect
  PROVE  CallsPaid'
<1>0. TypeOK /\ WorkCurrent
  BY DEF IInv
<1>1. /\ pc = "collecting" /\ pc' \in {"asking", "exporting"}
      /\ UNCHANGED <<ua, world, cache, aiCache, calls>>
  BY DEF Collect, world_vars, history
<1> DEFINE f == Facts(work.obj.spec, world, work.obj.status.before)
           v == [spec |-> work.obj.spec, scored |-> FALSE, facts |-> f]
           t == clock
           n == world.rows[work.obj.spec.scope]
<1>2. PICK order \in Orders(n) :
        /\ Reordered(order)
        /\ work' = [work EXCEPT !.verdict = v, !.order = order, !.now = t]
  BY DEF Collect
<1>3. v.spec = work.obj.spec /\ v.facts = f
  OBVIOUS
<1> HIDE DEF v, t
<1>4. work'.obj = work.obj /\ work'.verdict = v /\ work'.order = order
  BY <1>0, <1>2, WorkParts DEF Work
<1>5. /\ ThePrompt' = Prompt(work.obj.spec, f, order)
      /\ order = UsualOrder(n) => ThePrompt' = PromptIn(world, work.obj)
  BY <1>3, <1>4 DEF ThePrompt, PromptIn
<1>6. WorkCounts' = CountsIn(world, work.obj.spec)
  <2>1. f.pods = world.pods[work.obj.spec.scope]
        /\ f.restarts = world.restarts[work.obj.spec.scope]
    BY DEF Facts
  <2> QED BY <1>3, <1>4, <2>1 DEF WorkCounts, CountsIn
<1>a. \/ spent' = spent /\ order = UsualOrder(n)
      \/ spent' = [spent EXCEPT !.reorders = @ + 1]
  <2>1. n \in Nat
    BY <1>0, WorkParts DEF TypeOK, World, SpecRecord
  <2> HIDE DEF n
  <2>2. Len(order) = n
    BY <2>1, OrderLength
  <2> QED BY <1>2, <2>2 DEF Reordered
<1> HIDE DEF f, n
<1>7. \E paid \in Nat, x \in Nat :
        /\ x = RememberedToCached' /\ x <= paid + RememberedToCached
        /\ Budget(spent') = Budget(spent) + paid
  <2>0. RememberedToCached \in Nat /\ Budget(spent) \in Nat
    BY <1>0, DueTyped, BudgetGrows
  <2>1. CASE spent' = spent /\ order = UsualOrder(n)
    <3>1. \E x \in Nat : x = RememberedToCached' /\ x <= RememberedToCached
      <4>1. CASE pc' = "exporting"
        BY <1>1, <4>1, PastTheAI
      <4>2. CASE pc' = "asking"
        <5>1. RememberedToCached' = Differ(aiCache, PromptIn(world, work.obj))
                                    + Differ(PromptIn(world, work.obj), PromptIn(world, cache))
          BY <1>1, <1>5, <2>1, <4>2 DEF RememberedToCached
        <5>2. RememberedToCached = Differ(aiCache, PromptIn(world, work.obj))
                                   + Differ(Asked(work.obj), Asked(cache))
          BY <1>1 DEF RememberedToCached
        <5>3. Differ(PromptIn(world, work.obj), PromptIn(world, cache))
                <= Differ(Asked(work.obj), Asked(cache))
          BY SamePrompt DEF Differ
        <5> QED BY <5>1, <5>2, <5>3 DEF Differ
      <4> QED BY <1>1, <4>1, <4>2
    <3>2. PICK x \in Nat : x = RememberedToCached' /\ x <= RememberedToCached
      BY <3>1
    <3>3. x <= 0 + RememberedToCached /\ Budget(spent') = Budget(spent) + 0
      BY <2>0, <2>1, <3>2
    <3> QED BY <3>2, <3>3
  <2>2. CASE spent' = [spent EXCEPT !.reorders = @ + 1]
    <3>1. \E x \in Nat : x = RememberedToCached' /\ x <= 2 + RememberedToCached
      <4>1. CASE pc' = "exporting"
        <5>1. PICK x \in Nat : x = RememberedToCached' /\ x <= RememberedToCached
          BY <1>1, <4>1, PastTheAI
        <5>2. x <= 2 + RememberedToCached
          BY <2>0, <5>1
        <5> QED BY <5>1, <5>2
      <4>2. CASE pc' = "asking"
        <5>1. RememberedToCached' = Differ(aiCache, ThePrompt')
                                    + Differ(ThePrompt', PromptIn(world, cache))
          BY <1>1, <4>2 DEF RememberedToCached
        <5>2. RememberedToCached' \in 0 .. 2
          BY <5>1 DEF Differ
        <5>3. \A k \in 0 .. 2 : k <= 2 + RememberedToCached
          BY <2>0
        <5> QED BY <5>2, <5>3
      <4> QED BY <1>1, <4>1, <4>2
    <3>2. Budget(spent') = Budget(spent) + 2
      BY <1>0, <2>2, BudgetGrows
    <3> QED BY <3>1, <3>2
  <2> QED BY <1>a, <2>1, <2>2
<1>8. \E z \in Nat : z = StoredToRest' /\ z <= StoredToRest
  <2>1. CASE Storable'
    <3>1. Exists(ua) /\ ua.rv = work.obj.rv
      BY <1>1, <1>4, <2>1 DEF Storable
    <3>2. work.obj.spec = ua.spec
      BY <1>0, <1>1, <3>1 DEF WorkCurrent, Analysing
    <3>3. StoredToRest' = Differ(ua.status.before, CountsIn(world, ua.spec)) + 0
      BY <1>1, <1>6, <2>1, <3>2 DEF StoredToRest, Differ
    <3> QED BY <3>3, RestWithin, DueTyped DEF Differ
  <2>2. CASE ~Storable'
    BY <1>1, <2>2, KeptOrGivenUp
  <2> QED BY <2>1, <2>2
<1>9. CachedToStored' = CachedToStored
  BY <1>1 DEF CachedToStored
<1>10. PICK paid \in Nat, x \in Nat :
         /\ x = RememberedToCached' /\ x <= paid + RememberedToCached
         /\ Budget(spent') = Budget(spent) + paid
  BY <1>7
<1>11. PICK z \in Nat : z = StoredToRest' /\ z <= StoredToRest
  BY <1>8
<1>12. PICK y : y = CachedToStored
  OBVIOUS
<1>13. y \in Nat /\ y = CachedToStored'
  BY <1>9, <1>12, DueTyped
<1>14. 0 + x + y + z <= paid + RememberedToCached + CachedToStored + StoredToRest
  BY <1>10, <1>11, <1>12, <1>13, DueTyped, SumOfMore, Zenon
<1>15. calls' = calls + 0
  BY <1>0, <1>1, BudgetGrows
<1>16. calls' + CallsDue' <= Budget(spent')
  BY <1>0, <1>10, <1>11, <1>13, <1>14, <1>15, Paid
<1> QED BY <1>1, <1>16 DEF CallsPaid

\* An answer, remembered or asked for, is of the prompt that comes first.
LEMMA CallsOfAnswer ==
  ASSUME IInv, CallsPaid, Asks
  PROVE  CallsPaid'
<1>0. TypeOK /\ WorkCoherent
  BY DEF IInv
<1>1. /\ pc = "asking" /\ TakeAnswer /\ pc' \in {"proposing", "exporting"}
      /\ UNCHANGED <<ua, world, cache, spent>>
      /\ aiCache' = ThePrompt
      /\ \/ aiCache = ThePrompt /\ calls' = calls + 0
         \/ aiCache # ThePrompt /\ calls' = calls + 1
  <2>1. calls \in Nat
    BY <1>0, BudgetGrows
  <2>2. CASE AskMemory
    BY <2>1, <2>2 DEF AskMemory, TakeAnswer, Remembered, world_vars, history
  <2>3. CASE AskModel
    BY <2>3 DEF AskModel, TakeAnswer, Remembered, world_vars
  <2> QED BY <2>2, <2>3 DEF Asks
<1>2. work.obj.spec.ai # "off"
  BY <1>0, <1>1 DEF WorkCoherent
<1>3. /\ work'.obj.rv = work.obj.rv /\ work'.verdict.facts = work.verdict.facts
  BY <1>0, <1>1, <1>2, AnsweredCopy DEF SameCopy
<1>4. WorkCounts' = WorkCounts /\ (Storable' => Storable)
  BY <1>1, <1>3 DEF WorkCounts, Storable, HasVerdict
<1>5. PICK z \in Nat : z = StoredToRest' /\ z <= StoredToRest
  BY <1>1, <1>4, KeptOrGivenUp
<1>6. PICK y : y = CachedToStored
  OBVIOUS
<1>7. y \in Nat /\ y = CachedToStored'
  BY <1>1, <1>6, DueTyped DEF CachedToStored
<1>8. PICK x : x = Differ(ThePrompt, PromptIn(world, cache))
  OBVIOUS
<1>9. x \in Nat /\ x = RememberedToCached'
  BY <1>1, <1>8 DEF RememberedToCached, Differ
<1>10. PICK n \in Nat : /\ calls' = calls + n
                        /\ RememberedToCached = n + x
  <2>1. RememberedToCached = Differ(aiCache, ThePrompt) + x
    BY <1>1, <1>8 DEF RememberedToCached
  <2>2. CASE aiCache = ThePrompt
    <3>1. Differ(aiCache, ThePrompt) = 0 /\ calls' = calls + 0
      BY <1>1, <2>2 DEF Differ
    <3> QED BY <2>1, <3>1
  <2>3. CASE aiCache # ThePrompt
    <3>1. Differ(aiCache, ThePrompt) = 1 /\ calls' = calls + 1
      BY <1>1, <2>3 DEF Differ
    <3> QED BY <2>1, <3>1
  <2> QED BY <2>2, <2>3
<1>11. n + x + y + z <= 0 + RememberedToCached + CachedToStored + StoredToRest
  <2>1. x \in Nat /\ y \in Nat
    BY <1>7, <1>9
  <2>2. \A p, q, r \in Nat : p = n + x /\ y = q /\ z <= r
          => n + x + y + z <= 0 + p + q + r
    BY <2>1
  <2> QED BY <1>5, <1>6, <1>10, <2>2, DueTyped
<1>12. Budget(spent') = Budget(spent) + 0
  BY <1>0, <1>1, BudgetGrows
<1>13. 0 \in Nat
  OBVIOUS
<1>14. calls' + CallsDue' <= Budget(spent')
  BY <1>0, <1>5, <1>7, <1>9, <1>10, <1>11, <1>12, <1>13, Paid
<1> QED BY <1>1, <1>14 DEF CallsPaid

LEMMA CallsOfReconcile ==
  ASSUME IInv, CallsPaid, Works \/ Fails
  PROVE  CallsPaid'
<1>0. TypeOK
  BY DEF IInv
<1>1. calls \in Nat /\ Budget(spent) \in Nat
      /\ Budget([spent EXCEPT !.faults = @ + 1]) = Budget(spent) + 1
  BY <1>0, BudgetGrows
<1>2. ASSUME SpendsFault
      PROVE  \E paid \in Nat : Budget(spent') = Budget(spent) + paid
  <2>1. CASE spent' = spent
    BY <1>1, <2>1
  <2>2. CASE spent' = [spent EXCEPT !.faults = @ + 1]
    BY <1>1, <2>2
  <2> QED BY <1>2, <2>1, <2>2 DEF SpendsFault
<1>3. ASSUME SpendsFault, calls' = calls,
             pc # "down", pc' \notin {"down", "collecting", "asking"},
             UNCHANGED <<ua, world, cache, aiCache>>,
             Storable' => Storable /\ WorkCounts' = WorkCounts
      PROVE  calls' + CallsDue' <= Budget(spent')
  <2>1. PICK paid \in Nat : Budget(spent') = Budget(spent) + paid
    BY <1>2, <1>3
  <2>2. 0 \in Nat /\ 0 <= paid /\ calls' = calls + 0
    BY <1>1, <1>3
  <2> QED BY <1>0, <1>3, <2>1, <2>2, PastTheAIPaid
<1>4. CASE Fails
  <2>1. pc # "down" /\ pc' = "idle" /\ ~Storable'
    BY <1>4 DEF Fails, Storable, HasVerdict
  <2>2. /\ SpendsFault /\ calls' = calls /\ UNCHANGED <<ua, world, cache, aiCache>>
    BY <1>4 DEF Fails, world_vars, history
  <2>3. calls' + CallsDue' <= Budget(spent')
    BY <1>3, <2>1, <2>2
  <2> QED BY <2>1, <2>3 DEF CallsPaid
<1>5. ASSUME Works, CollectRefuses \/ AskFails \/ Propose \/ Exports
      PROVE  SpendsFault /\ UNCHANGED <<ua, world, cache>>
  <2>1. SpendsFault
    BY <1>5 DEF CollectRefuses, AskFails, UseFault, Propose, Exports, Export, ExportFails,
                SpendsFault
  <2> QED BY <1>5, <2>1 DEF Works, world_vars
<1>6. CASE Works /\ CollectRefuses
  <2>1. /\ pc = "collecting" /\ pc' = "refusing"
        /\ aiCache' = aiCache /\ calls' = calls
    BY <1>6 DEF CollectRefuses, history
  <2>2. calls' + CallsDue' <= Budget(spent')
    BY <1>3, <1>5, <1>6, <2>1 DEF Storable, HasVerdict
  <2> QED BY <2>1, <2>2 DEF CallsPaid
<1>7. CASE Works /\ AskFails
  <2>1. pc = "asking" /\ pc' = "exporting" /\ aiCache' = aiCache
        /\ Budget(spent') = Budget(spent) + 1
    BY <1>1, <1>7 DEF AskFails, UseFault
  <2>2. WorkCounts' = WorkCounts /\ (Storable' => Storable)
    BY <1>0, <1>5, <1>7, <2>1, UnansweredCopy
       DEF WorkCounts, Storable, HasVerdict, SameCopy
  <2>3. PICK n \in {0, 1} : calls' = calls + n
    BY <1>1, <1>7 DEF AskFails
  <2>4. n \in Nat /\ 1 \in Nat /\ n <= 1
    OBVIOUS
  <2>5. calls' + CallsDue' <= Budget(spent')
    BY <1>0, <1>5, <1>7, <2>1, <2>2, <2>3, <2>4, PastTheAIPaid
  <2> QED BY <2>1, <2>5 DEF CallsPaid
<1>8. CASE Works /\ Propose
  <2>1. /\ pc = "proposing" /\ pc' = "exporting" /\ work' = work
        /\ aiCache' = aiCache /\ calls' = calls
    BY <1>8 DEF Propose, history
  <2>2. calls' + CallsDue' <= Budget(spent')
    BY <1>3, <1>5, <1>8, <2>1 DEF Storable, HasVerdict, WorkCounts
  <2> QED BY <2>1, <2>2 DEF CallsPaid
<1>9. CASE Works /\ Exports
  <2>1. /\ pc = "exporting" /\ pc' = "updating"
        /\ aiCache' = aiCache /\ calls' = calls
    BY <1>9 DEF Exports, Export, ExportFails, outside, history
  <2>2. PICK state \in {"written", "failed"}, location \in Sources \cup {""} :
          work' = [work EXCEPT !.obj = Concluded(@, state, location)]
    <3>1. work.obj.spec.source \in Sources
      BY <1>0, WorkParts DEF SpecRecord
    <3>2. CASE Export
      BY <3>1, <3>2 DEF Export
    <3>3. CASE ExportFails
      BY <3>1, <3>3 DEF ExportFails
    <3> QED BY <1>9, <3>2, <3>3 DEF Exports
  <2>3. /\ work'.obj.rv = work.obj.rv /\ work'.verdict = work.verdict
        /\ work'.obj.status.before = WorkCounts
    BY <1>0, <2>2, ConcludedCopy DEF SameCopy, WorkCounts
  <2>4. WorkCounts' = WorkCounts /\ (Storable' => Storable)
    BY <1>5, <1>9, <2>1, <2>3 DEF WorkCounts, Storable, HasVerdict
  <2>5. calls' + CallsDue' <= Budget(spent')
    BY <1>3, <1>5, <1>9, <2>1, <2>4
  <2> QED BY <2>3, <2>4, <2>5 DEF CallsPaid
<1> QED BY <1>4, <1>6, <1>7, <1>8, <1>9, CallsOfBegin, CallsOfCollect, CallsOfAnswer
        DEF Works

\* The stored status takes the place of the verdict that was to be stored.
LEMMA CallsOfStore ==
  ASSUME IInv, CallsPaid, Stores
  PROVE  CallsPaid'
<1>0. TypeOK /\ WorkCurrent
  BY DEF IInv
<1>1. /\ pc \in {"updating", "refusing"} /\ pc' = "idle"
      /\ Exists(ua) /\ ua.rv = work.obj.rv
      /\ UNCHANGED <<world, cache, aiCache, calls>> /\ SpendsFault
  BY DEF Stores, Current, world_vars
<1>2. ua'.spec = ua.spec /\ ua'.status = work.obj.status
  BY <1>0, StatusStored DEF Stores
<1>3. RememberedToCached' = RememberedToCached
  BY <1>1 DEF RememberedToCached
<1>4. /\ CachedToStored' = Differ(Asked(cache), Asked(ua'))
      /\ CachedToStored = Differ(Asked(cache), Asked(ua))
  BY <1>1 DEF CachedToStored
<1>5. StoredToRest' = Differ(ua'.status.before, CountsIn(world, ua.spec))
  BY <1>1, <1>2 DEF StoredToRest, Storable, HasVerdict
<1>6. PICK x : x = RememberedToCached
  OBVIOUS
<1>7. x \in Nat /\ x = RememberedToCached'
  BY <1>3, <1>6, DueTyped
<1>8. PICK y : y = CachedToStored'
  OBVIOUS
<1>9. PICK z : z = StoredToRest'
  OBVIOUS
<1>10. y \in Nat /\ z \in Nat /\ y + z <= CachedToStored + StoredToRest
  <2>1. CASE pc = "updating"
    <3>1. ua'.status.before = WorkCounts
      BY <1>2, <2>1 DEF CallsPaid
    <3>2. StoredToRest = Differ(ua.status.before, WorkCounts)
                         + Differ(WorkCounts, CountsIn(world, ua.spec))
      BY <1>1, <2>1 DEF StoredToRest, Storable, HasVerdict
    <3>3. z = Differ(WorkCounts, CountsIn(world, ua.spec))
      BY <1>5, <1>9, <3>1
    <3>4. y <= CachedToStored + Differ(ua.status.before, WorkCounts)
      <4>1. CASE ua.status.before = WorkCounts
        <5>1. Asked(ua') = Asked(ua)
          BY <1>2, <3>1, <4>1 DEF Asked
        <5> QED BY <1>4, <1>8, <5>1 DEF Differ
      <4>2. CASE ua.status.before # WorkCounts
        BY <1>4, <1>8, <4>2 DEF Differ
      <4> QED BY <4>1, <4>2
    <3> QED BY <1>4, <1>8, <3>2, <3>3, <3>4 DEF Differ
  <2>2. CASE pc = "refusing"
    <3>1. work.obj.status.before = ua.status.before
      BY <1>0, <1>1, <2>2 DEF WorkCurrent, Analysing
    <3>2. Asked(ua') = Asked(ua)
      BY <1>2, <3>1 DEF Asked
    <3>3. y = CachedToStored
      BY <1>4, <1>8, <3>2
    <3>4. z = StoredToRest
      <4>1. ~Storable
        BY <2>2 DEF Storable, HasVerdict
      <4> QED BY <1>2, <1>5, <1>9, <3>1, <4>1 DEF StoredToRest
    <3> QED BY <3>3, <3>4, DueTyped
  <2> QED BY <1>1, <2>1, <2>2
<1>11. calls \in Nat /\ Budget(spent) \in Nat
       /\ Budget([spent EXCEPT !.faults = @ + 1]) = Budget(spent) + 1
  BY <1>0, BudgetGrows
<1>12. PICK paid \in Nat : Budget(spent') = Budget(spent) + paid
  <2>1. CASE spent' = spent
    BY <1>11, <2>1
  <2>2. CASE spent' = [spent EXCEPT !.faults = @ + 1]
    BY <1>11, <2>2
  <2> QED BY <1>1, <2>1, <2>2 DEF SpendsFault
<1>13. 0 + x + y + z <= paid + RememberedToCached + CachedToStored + StoredToRest
  <2>1. x \in Nat /\ y \in Nat /\ z \in Nat
    BY <1>7, <1>10
  <2>2. \A q, r \in Nat : y + z <= q + r => 0 + x + y + z <= paid + x + q + r
    BY <2>1
  <2> QED BY <1>6, <1>10, <2>2, DueTyped
<1>14. 0 \in Nat /\ calls' = calls + 0
  BY <1>1, <1>11
<1>15. calls' + CallsDue' <= Budget(spent')
  BY <1>0, <1>7, <1>8, <1>9, <1>10, <1>12, <1>13, <1>14, Paid
<1> QED BY <1>1, <1>15 DEF CallsPaid

-----------------------------------------------------------------------------
LEMMA InitIInv ==
  ASSUME Init
  PROVE  IInv
<1>1. PICK s \in Specs : ua = [NoUA EXCEPT !.uid = 1, !.rv = 1, !.gen = 1, !.spec = s]
  BY DEF Init
<1>2. s \in SpecRecord /\ world \in World
  BY <1>1, InputsAssumption DEF Init
<1>3. ua \in Object /\ ua.rv = 1 /\ ua.gen = 1 /\ ua.status = NoStatus
  BY <1>1, <1>2, NothingTyped DEF Object
<1>4. TypeOK
  <2>1. store \in [Sources -> Verdict] /\ work \in Work /\ cache \in Object
        /\ aiCache \in PromptRecord
    BY NothingTyped DEF Init
  <2>2. /\ rev = 1 /\ clock = 0 /\ timer = 0 /\ queued = FALSE /\ pc = "down" /\ offered = {}
        /\ calls = 0 /\ counted = 0 /\ doneAt = 0
    BY DEF Init
  <2>3. spent \in Spent
    BY DEF Init, Spent
  <2>4. world \in World /\ ua \in Object /\ cache \in Object /\ rev \in Nat
        /\ clock \in Nat /\ timer \in Nat /\ queued \in BOOLEAN
    BY <1>2, <1>3, <2>1, <2>2
  <2>5. calls \in Nat /\ counted \in Nat /\ doneAt \in Nat /\ \A q \in offered : q \in Verdict
    BY <2>2
  <2>6. happened \in [Scopes -> Nat]
    BY <1>2 DEF Init, World
  <2> QED BY <2>1, <2>2, <2>3, <2>4, <2>5, <2>6 DEF TypeOK, Work, Spent
<1>5. CacheCurrent
  <2>1. cache = NoUA /\ rev = 1
    BY DEF Init
  <2>2. cache.rv = 0 /\ cache.gen = 0 /\ cache.status.gen = 0 /\ ~Exists(cache)
    BY <2>1, NothingTyped, NothingStored DEF Exists
  <2>3. ua.status.gen = 0
    BY <1>3, NothingStored
  <2> QED BY <1>3, <2>1, <2>2, <2>3 DEF CacheCurrent
<1>6. WorkCurrent /\ WorkCoherent
  BY DEF Init, WorkCurrent, WorkCoherent, Analysing, HasVerdict
<1>7. VerdictOfObservedSpec
  BY <1>3, NothingStored DEF VerdictOfObservedSpec
<1>8. RestartsCountedOnce /\ RestartsKnown
  <2>1. counted = 0 /\ happened = world.restarts /\ pc = "down"
    BY DEF Init
  <2>2. \A c \in Scopes : happened[c] \in Nat /\ happened[c] <= happened[c]
    BY <1>4, CountsTyped
  <2>3. ua.status.before.restarts = 0 /\ ua.status.of.spec.scope \in Scopes
    BY <1>3, NothingStored
  <2> QED BY <2>1, <2>2, <2>3 DEF RestartsCountedOnce, RestartsKnown, HasVerdict
<1> QED BY <1>4, <1>5, <1>6, <1>7, <1>8 DEF IInv

\* The invariant is inductive.
THEOREM InductiveInvariance == Spec => []IInv
<1>1. Init => IInv
  BY InitIInv
<1>2. IInv /\ [Next]_vars => IInv'
  <2> SUFFICES ASSUME IInv, [Next]_vars
               PROVE  IInv'
    OBVIOUS
  <2>1. TypeOK'
    BY TypeStep DEF IInv
  <2>2. CacheCurrent' /\ WorkCurrent' /\ WorkCoherent'
    BY CacheStep, WorkCurrentStep, WorkCoherentStep
  <2>3. VerdictOfObservedSpec' /\ RestartsCountedOnce' /\ RestartsKnown'
    BY VerdictStep, RestartsStep
  <2> QED BY <2>1, <2>2, <2>3 DEF IInv
<1> QED BY <1>1, <1>2, PTL DEF Spec

\* A status that claims the present generation (status.observedGeneration) holds
\* a verdict on the present spec, whenever the user edits and whatever is lost.
THEOREM StatusIsOfItsSpec == Spec => []VerdictOfObservedSpec
<1>1. IInv => VerdictOfObservedSpec
  BY DEF IInv
<1> QED BY <1>1, InductiveInvariance, PTL

\* The restarts that the stored verdicts took as new (RestartDelta, floored at 0
\* by capPenalty) are, since the scope was last another, no more than those that
\* happened in that scope: pods that vanish take their counts with them, and
\* neither conflicts, crashes, lost replies nor repeated analyses double any.
THEOREM RestartsCounted == Spec => []RestartsCountedOnce
<1>1. IInv => RestartsCountedOnce
  BY DEF IInv
<1> QED BY <1>1, InductiveInvariance, PTL

\* A status that says the report is written is stored when the report it
\* locates is the one of its verdict.
THEOREM ReportBacks == Spec => ReportBacksStatus
<1> DEFINE Backed ==
      ua'.status # ua.status /\ Exists(ua') /\ ua'.status.report = "written"
      /\ ua'.status.decision = "verdict"
        => /\ ua'.status.location \in Sources
           /\ store[ua'.status.location] = ua'.status.of
<1>1. ASSUME IInv, [Next]_vars
      PROVE  Backed
  <2>0. TypeOK /\ WorkCoherent
    BY <1>1 DEF IInv
  <2>1. CASE UserWrites
    BY <2>1, NothingTyped, NothingStored DEF UserWrites, Exists
  <2>2. CASE Surroundings \/ Works \/ Fails \/ UNCHANGED vars
    BY <2>0, <2>2, SurroundingSteps DEF Works, Fails, vars
  <2>3. CASE Stores
    BY <2>0, <2>3, StatusStored DEF Stores, WorkCoherent
  <2> QED BY <1>1, <2>0, <2>1, <2>2, <2>3, Steps
<1>2. IInv /\ [Next]_vars => [Backed]_vars
  BY <1>1
<1> QED BY <1>2, InductiveInvariance, PTL DEF Spec, ReportBacksStatus

\* The AI is asked at most twice for each change by the user or of the cluster and
\* for each snapshot whose lists come in an unusual order, whatever the cache
\* shows, the analyses race with and the AI remembers, and once more for each
\* crash and each failure (scoreWithAI and the cache of ai_scorer.go).
THEOREM CallsAreBounded == Spec => []CallsBounded
<1>1. Init => CallsPaid
  <2>1. SUFFICES ASSUME Init PROVE CallsPaid
    OBVIOUS
  <2>2. /\ pc = "down" /\ calls = 0
        /\ spent = [edits |-> 0, refreshes |-> 0, changes |-> 0,
                    reorders |-> 0, crashes |-> 0, faults |-> 0]
    BY <2>1 DEF Init
  <2>3. Budget(spent) = 2
    BY <2>2 DEF Budget
  <2>4. /\ RememberedToCached \in {0, 1} /\ CachedToStored = 0
        /\ StoredToRest \in {0, 1}
    BY <2>2 DEF RememberedToCached, CachedToStored, StoredToRest, Storable, HasVerdict,
                Differ
  <2>5. calls + CallsDue <= Budget(spent)
    BY <2>2, <2>3, <2>4 DEF CallsDue
  <2> QED BY <2>2, <2>5 DEF CallsPaid
<1>2. IInv /\ CallsPaid /\ [Next]_vars => CallsPaid'
  <2>1. SUFFICES ASSUME IInv, CallsPaid, [Next]_vars PROVE CallsPaid'
    OBVIOUS
  <2>2. TypeOK
    BY <2>1 DEF IInv
  <2>3. CASE User
    BY <2>1, <2>3, CallsOfUser
  <2>4. CASE Surroundings
    BY <2>1, <2>4, CallsOfSurroundings
  <2>5. CASE Works \/ Fails
    BY <2>1, <2>5, CallsOfReconcile
  <2>6. CASE Stores
    BY <2>1, <2>6, CallsOfStore
  <2>7. CASE UNCHANGED vars
    <3>1. UNCHANGED <<ua, world, cache, pc, work, aiCache, spent, calls>>
      BY <2>7 DEF vars
    <3>2. CallsDue' = CallsDue /\ WorkCounts' = WorkCounts
      BY <3>1 DEF CallsDue, RememberedToCached, CachedToStored, StoredToRest, Storable,
                  ThePrompt, WorkCounts
    <3> QED BY <2>1, <3>1, <3>2 DEF CallsPaid
  <2> QED BY <2>1, <2>2, <2>3, <2>4, <2>5, <2>6, <2>7, ReconcileSteps DEF Next, Surroundings
<1>3. IInv /\ CallsPaid => CallsBounded
  <2>1. SUFFICES ASSUME IInv, CallsPaid PROVE CallsBounded
    OBVIOUS
  <2>2. TypeOK
    BY <2>1 DEF IInv
  <2>3. CallsDue \in Nat
    BY DueTyped DEF CallsDue
  <2>4. calls \in Nat /\ Budget(spent) \in Nat
    BY <2>2, BudgetGrows
  <2>5. calls <= Budget(spent)
    BY <2>1, <2>3, <2>4 DEF CallsPaid
  <2> QED BY <2>5 DEF CallsBounded, Budget
<1> QED BY <1>1, <1>2, <1>3, InductiveInvariance, PTL DEF Spec

-----------------------------------------------------------------------------
(* No change is lost, and no resync: what the liveness properties rest on. *)

IsAnalysed(o) == o.status.gen = o.gen /\ o.status.refresh = o.refresh
IsRefused(o) == o.status.decision = "ERROR" /\ o.status.gen = o.gen

\* Every change gets a new number.
Numbered ==
  /\ cache.uid <= rev /\ ua.uid <= rev
  /\ cache.refresh <= spent.refreshes /\ ua.refresh <= spent.refreshes
  /\ Exists(ua) /\ cache.uid = ua.uid => cache.gen <= ua.gen

\* What has been analysed, or refused, in a cached copy is so in the object; a
\* refused target stays too low, since clusters are not downgraded; the time of
\* an analysis is not after its storage.
CopiesKnown ==
  /\ Exists(ua) /\ Same(cache, ua) =>
       /\ IsAnalysed(cache) => IsAnalysed(ua)
       /\ IsRefused(cache) => IsRefused(ua)
  /\ \A o \in {ua, cache} : Exists(o) =>
       /\ IsRefused(o) => ~VersionIsHigher(o.spec.target, world.version)
       /\ o.status.decision # "ERROR" => o.status.time <= doneAt
  /\ doneAt <= clock

\* What Reconcile is about to store, if its copy has the stored version; if it
\* works on an older state of the object, it is going to be called again.
WorkKnown ==
  pc \in Analysing =>
    /\ Exists(ua) => Waiting \/ Same(work.obj, ua)
    /\ Exists(ua) /\ ua.rv = work.obj.rv =>
         /\ Same(work.obj, ua)
         /\ pc # "updating" => /\ work.obj.status.gen = ua.status.gen
                               /\ work.obj.status.refresh = ua.status.refresh
         /\ pc \in HasVerdict => ~IsRefused(ua)
    /\ pc = "refusing" => ~VersionIsHigher(work.obj.spec.target, world.version)
    /\ pc = "updating" => /\ IsAnalysed(work.obj) /\ work.obj.status.time = work.now
                          /\ work.obj.status.decision = "verdict"
    /\ pc \in HasVerdict => work.now <= clock

Attended ==
  Numbered /\ CopiesKnown /\ WorkKnown /\ NoChangeIsLost /\ NoResyncIsLost

LEMMA MoreNumbers ==
  ASSUME TypeOK
  PROVE  /\ ua \in Object /\ cache \in Object /\ work.obj \in Object
         /\ \A o \in Object :
              /\ o.uid \in Nat /\ o.rv \in Nat /\ o.gen \in Nat /\ o.refresh \in Nat
              /\ o.spec.target \in Nat /\ o.status.gen \in Nat
              /\ o.status.refresh \in Nat /\ o.status.time \in Int
         /\ rev \in Nat /\ clock \in Nat /\ timer \in Nat /\ doneAt \in Nat
         /\ world.version \in Nat /\ spent.refreshes \in Nat /\ Interval \in Nat
         /\ work.now \in Nat /\ queued \in BOOLEAN
<1>1. \A o \in Object : o.status \in Status /\ o.spec \in SpecRecord
  BY DEF Object
<1>2. ASSUME NEW o \in Object
      PROVE  /\ o.spec.target \in Nat /\ o.status.gen \in Nat
             /\ o.status.refresh \in Nat /\ o.status.time \in Int
  <2>1. PICK s \in Status, p \in SpecRecord : s = o.status /\ p = o.spec
    BY <1>1
  <2>2. s.gen \in Nat /\ s.refresh \in Nat /\ s.time \in Nat \cup {-1}
    BY DEF Status
  <2>3. p.target \in Nat
    BY DEF SpecRecord
  <2> QED BY <2>1, <2>2, <2>3
<1>3. world.version \in Nat /\ spent.refreshes \in Nat
  BY DEF TypeOK, World
<1> QED BY <1>2, <1>3, BoundsAssumption, WorkParts DEF TypeOK, Object

LEMMA SameOnes ==
  ASSUME NEW a, NEW b, NEW c
  PROVE  /\ Same(a, a)
         /\ Same(a, b) => Same(b, a)
         /\ Same(a, b) /\ Same(b, c) => Same(a, c)
         /\ Same(a, b) <=> ~Triggers(a, b)
BY DEF Same, Triggers

\* What the user writes is new to the cache.
LEMMA UserIsHeard ==
  ASSUME IInv, Numbered, User
  PROVE  /\ UNCHANGED <<cache, queued, timer, pc, work, world, clock, doneAt>>
         /\ Numbered' /\ rev' = rev + 1
         /\ Exists(ua') => ua'.rv = rev + 1 /\ ~Same(cache, ua')
         /\ Exists(ua') =>
              \/ ua'.status = NoStatus /\ ua'.gen = 1
              \/ Exists(ua) /\ ua'.status = ua.status
                 /\ \/ ua'.gen = ua.gen + 1
                    \/ ua'.gen = ua.gen /\ ua'.spec = ua.spec
<1>0. TypeOK
  BY DEF IInv
<1>1. /\ UNCHANGED <<cache, queued, timer, pc, work, world, clock, doneAt>>
      /\ rev' = rev + 1
  BY <1>0, UserSteps DEF UserWrites, world_vars, operator
<1>2. /\ rev \in Nat /\ ua.gen \in Nat /\ cache.gen \in Nat /\ ua.uid \in Nat /\ cache.uid \in Nat
      /\ spent.refreshes \in Nat /\ cache.refresh \in Nat /\ ua.refresh \in Nat
      /\ ua \in Object /\ cache \in Object /\ spent \in Spent
  BY <1>0, MoreNumbers DEF TypeOK, Spent
<1>3. CASE \E s \in Specs : UserCreates(s)
  <2>1. PICK s \in Specs : UserCreates(s)
    BY <1>3
  <2>2. s \in SpecRecord /\ NoUA \in Object /\ NoUA.status = NoStatus /\ NoUA.refresh = 0
    BY NothingTyped, InputsAssumption DEF NoUA
  <2> DEFINE n == rev + 1
             obj == [NoUA EXCEPT !.uid = n, !.gen = 1, !.spec = s]
  <2>3. /\ obj \in Object /\ obj.status = NoStatus /\ obj.uid = n /\ obj.gen = 1
        /\ obj.refresh = 0
    <3>1. n \in Nat
      BY <1>2
    <3> HIDE DEF n
    <3> QED BY <2>2, <3>1 DEF Object
  <2>4. Store(obj) /\ spent' = [spent EXCEPT !.edits = @ + 1]
    BY <2>1 DEF UserCreates
  <2> HIDE DEF obj
  <2>5. /\ ua'.rv = rev + 1 /\ ua'.uid = rev + 1 /\ ua'.gen = 1 /\ ua'.refresh = 0
        /\ ua'.status = NoStatus
    BY <1>0, <2>3, <2>4, Stored
  <2>6. spent'.refreshes = spent.refreshes
    BY <1>2, <2>4 DEF Spent
  <2> QED BY <1>1, <1>2, <2>5, <2>6 DEF Numbered, Same, Exists
<1>4. CASE \E s \in Specs : UserEdits(s)
  <2>1. PICK s \in Specs : UserEdits(s)
    BY <1>4
  <2> DEFINE n == ua.gen + 1
             obj == [ua EXCEPT !.spec = s, !.gen = n]
  <2>2. s \in SpecRecord /\ n \in Nat
    BY <1>2, InputsAssumption
  <2>3. /\ obj \in Object /\ obj.status = ua.status /\ obj.gen = n /\ obj.uid = ua.uid
        /\ obj.refresh = ua.refresh
    <3> HIDE DEF n
    <3> QED BY <1>2, <2>2, WithSpec DEF Object
  <2>4. Store(obj) /\ Exists(ua) /\ spent' = [spent EXCEPT !.edits = @ + 1]
    BY <2>1 DEF UserEdits
  <2> HIDE DEF obj
  <2>5. /\ ua'.rv = rev + 1 /\ ua'.uid = ua.uid /\ ua'.gen = ua.gen + 1
        /\ ua'.refresh = ua.refresh /\ ua'.status = ua.status
    BY <1>0, <2>3, <2>4, Stored
  <2>6. spent'.refreshes = spent.refreshes
    BY <1>2, <2>4 DEF Spent
  <2> QED BY <1>1, <1>2, <2>4, <2>5, <2>6 DEF Numbered, Same, Exists
<1>5. CASE UserRefreshes
  <2> DEFINE n == spent.refreshes + 1
             obj == [ua EXCEPT !.refresh = n]
  <2>1. n \in Nat
    BY <1>2
  <2>2. /\ obj \in Object /\ obj.status = ua.status /\ obj.gen = ua.gen /\ obj.uid = ua.uid
        /\ obj.refresh = n /\ obj.spec = ua.spec
    <3> HIDE DEF n
    <3> QED BY <1>2, <2>1, WithRefresh DEF Object
  <2>4. Store(obj) /\ Exists(ua) /\ spent' = [spent EXCEPT !.refreshes = @ + 1]
    BY <1>5 DEF UserRefreshes
  <2> HIDE DEF obj
  <2>5. /\ ua'.rv = rev + 1 /\ ua'.uid = ua.uid /\ ua'.gen = ua.gen /\ ua'.spec = ua.spec
        /\ ua'.refresh = spent.refreshes + 1 /\ ua'.status = ua.status
    BY <1>0, <2>2, <2>4, Stored
  <2>6. spent'.refreshes = spent.refreshes + 1
    BY <1>2, <2>4 DEF Spent
  <2> QED BY <1>1, <1>2, <2>4, <2>5, <2>6 DEF Numbered, Same, Exists
<1>6. CASE UserDeletes
  <2>1. /\ ua' = NoUA /\ NoUA.uid = 0 /\ NoUA.gen = 0 /\ NoUA.refresh = 0 /\ Exists(ua)
        /\ spent' = [spent EXCEPT !.edits = @ + 1]
    BY <1>6 DEF UserDeletes, NoUA
  <2>2. spent'.refreshes = spent.refreshes
    BY <1>2, <2>1 DEF Spent
  <2> QED BY <1>1, <1>2, <2>1, <2>2 DEF Numbered, Exists
<1> QED BY <1>3, <1>4, <1>5, <1>6 DEF User

LEMMA NumbersKept ==
  ASSUME IInv, Attended, Next, ~User
  PROVE  Numbered'
<1>0. TypeOK /\ Numbered
  BY DEF IInv, Attended
<1>1. spent'.refreshes = spent.refreshes
  <2>1. spent \in Spent
    BY <1>0 DEF TypeOK, Spent
  <2>2. \/ spent' = spent \/ spent' = [spent EXCEPT !.faults = @ + 1]
        \/ spent' = [spent EXCEPT !.changes = @ + 1]
        \/ spent' = [spent EXCEPT !.crashes = @ + 1]
        \/ spent' = [spent EXCEPT !.reorders = @ + 1]
    <3>1. CASE Surroundings
      BY <3>1 DEF Surroundings, ClusterChanges, Tick, Observe, TimerFires, Crash, Start,
                  ReconcileSkips
    <3>2. CASE Reconcile
      BY <1>0, <3>1, <3>2, ReconcileSteps
         DEF Works, Stores, Fails, Spends, SpendsFault, SpendsReorder, Surroundings
    <3> QED BY <3>1, <3>2 DEF Next, Surroundings
  <2> QED BY <2>1, <2>2 DEF Spent
<1>2. \/ ua' = ua /\ rev' = rev /\ cache' \in {cache, ua, NoUA}
      \/ /\ cache' = cache /\ rev' = rev + 1 /\ ua'.uid = ua.uid /\ ua'.gen = ua.gen
         /\ ua'.refresh = ua.refresh
  <2>1. CASE Surroundings
    BY <1>0, <2>1, SurroundingSteps
  <2>2. CASE Reconcile
    BY <1>0, <2>1, <2>2, ReconcileSteps, StatusStored
       DEF Works, Stores, Fails, Surroundings
  <2> QED BY <2>1, <2>2 DEF Next, Surroundings
<1>3. NoUA.uid = 0 /\ NoUA.refresh = 0
  BY DEF NoUA
<1>4. /\ rev \in Nat /\ ua.uid \in Nat /\ cache.uid \in Nat /\ spent.refreshes \in Nat
      /\ ua.gen \in Nat /\ cache.gen \in Nat
  BY <1>0, MoreNumbers
<1>5. CASE ua' = ua /\ rev' = rev /\ cache' \in {cache, ua, NoUA}
  BY <1>0, <1>1, <1>3, <1>4, <1>5 DEF Numbered, Exists
<1>6. CASE /\ cache' = cache /\ rev' = rev + 1 /\ ua'.uid = ua.uid /\ ua'.gen = ua.gen
           /\ ua'.refresh = ua.refresh
  BY <1>0, <1>1, <1>4, <1>6 DEF Numbered, Exists
<1> QED BY <1>2, <1>5, <1>6

LEMMA AttendedByUser ==
  ASSUME IInv, Attended, User
  PROVE  Attended'
<1>0. /\ TypeOK /\ CacheCurrent /\ WorkCurrent
      /\ Numbered /\ CopiesKnown /\ WorkKnown
  BY DEF IInv, Attended
<1>1. /\ UNCHANGED <<cache, queued, timer, pc, work, world, clock, doneAt>>
      /\ Numbered' /\ rev' = rev + 1
      /\ Exists(ua') => ua'.rv = rev + 1 /\ ~Same(cache, ua')
      /\ Exists(ua') =>
           \/ ua'.status = NoStatus /\ ua'.gen = 1
           \/ Exists(ua) /\ ua'.status = ua.status
              /\ \/ ua'.gen = ua.gen + 1
                 \/ ua'.gen = ua.gen /\ ua'.spec = ua.spec
  BY <1>0, UserIsHeard
<1>2. Exists(ua') => Waiting'
  BY <1>1 DEF Waiting
<1>3. CopiesKnown'
  <2>1. ASSUME Exists(ua')
        PROVE  /\ IsRefused(ua') => ~VersionIsHigher(ua'.spec.target, world.version)
               /\ ua'.status.decision # "ERROR" => ua'.status.time <= doneAt
    <3>1. CASE ua'.status = NoStatus /\ ua'.gen = 1
      <4>1. NoStatus.decision = "" /\ NoStatus.time = -1
        BY DEF NoStatus
      <4>2. doneAt \in Nat
        BY <1>0, MoreNumbers
      <4>3. -1 <= doneAt
        BY <4>2
      <4> QED BY <3>1, <4>1, <4>3 DEF IsRefused
    <3>2. CASE Exists(ua) /\ ua'.status = ua.status /\ ua'.gen = ua.gen + 1
      <4>1. ua.status.gen <= ua.gen /\ ua.gen \in Nat /\ ua.status.gen \in Nat
        BY <1>0, MoreNumbers DEF CacheCurrent
      <4>2. ua.status.gen # ua.gen + 1
        BY <4>1
      <4> QED BY <1>0, <3>2, <4>2 DEF IsRefused, CopiesKnown
    <3>3. CASE /\ Exists(ua) /\ ua'.status = ua.status
               /\ ua'.gen = ua.gen /\ ua'.spec = ua.spec
      BY <1>0, <3>3 DEF IsRefused, CopiesKnown
    <3> QED BY <1>1, <2>1, <3>1, <3>2, <3>3
  <2>2. /\ cache' = cache /\ world' = world /\ clock' = clock /\ doneAt' = doneAt
    BY <1>1
  <2> QED BY <1>0, <1>1, <2>1, <2>2 DEF CopiesKnown
<1>4. WorkKnown'
  <2>1. ASSUME pc \in Analysing, Exists(ua')
        PROVE  ua'.rv # work.obj.rv
    <3>1. work.obj.rv <= rev /\ work.obj.rv \in Nat /\ rev \in Nat
      BY <1>0, <2>1, MoreNumbers DEF WorkCurrent
    <3> QED BY <1>1, <2>1, <3>1
  <2>2. pc' = pc /\ work' = work /\ world' = world /\ clock' = clock
    BY <1>1
  <2> QED BY <1>0, <1>2, <2>1, <2>2 DEF WorkKnown
<1> QED BY <1>1, <1>2, <1>3, <1>4 DEF Attended, NoChangeIsLost, NoResyncIsLost

\* What the steps of Reconcile make of the copy.
Begins ==
  /\ pc = "idle" /\ queued /\ Exists(cache) /\ pc' = "collecting" /\ work'.obj = cache
Refuses ==
  /\ pc = "collecting" /\ pc' = "refusing" /\ queued' = queued /\ SameCopy /\ SameCounts
  /\ ~VersionIsHigher(work.obj.spec.target, world.version)
Collects ==
  /\ pc = "collecting" /\ pc' \in {"asking", "exporting"} /\ queued' = queued
  /\ work'.obj = work.obj /\ work'.now = clock
  /\ VersionIsHigher(work.obj.spec.target, world.version)
Continues ==
  /\ pc \in {"asking", "proposing"} /\ pc' \in {"proposing", "exporting"}
  /\ queued' = queued /\ SameCopy /\ SameCounts /\ work'.now = work.now
Concludes ==
  /\ pc = "exporting" /\ pc' = "updating" /\ queued' = queued /\ SameCopy
  /\ IsAnalysed(work'.obj) /\ work'.obj.status.decision = "verdict"
  /\ work'.now = work.now /\ work'.obj.status.time = work'.now

LEMMA WorkGoesOn ==
  ASSUME IInv, Works
  PROVE  Begins \/ Refuses \/ Collects \/ Continues \/ Concludes
<1>0. TypeOK /\ WorkCoherent
  BY DEF IInv
<1>1. CASE ReconcileBegins
  <2>1. work' = [NoWork EXCEPT !.obj = cache] /\ NoWork \in Work
    BY <1>1, NothingTyped DEF ReconcileBegins
  <2>2. work'.obj = cache
    BY <2>1 DEF Work
  <2> QED BY <1>1, <2>2 DEF ReconcileBegins, Begins
<1>2. CASE CollectRefuses
  BY <1>0, <1>2, RefusedCopy DEF CollectRefuses, Refuses
<1>3. CASE Collect
  BY <1>0, <1>3, CollectedCopy DEF Collect, Collects
<1>4. CASE Asks
  <2>1. /\ pc = "asking" /\ TakeAnswer /\ work.obj.spec.ai # "off" /\ queued' = queued
        /\ pc' \in {"proposing", "exporting"}
    BY <1>0, <1>4 DEF Asks, AskMemory, AskModel, WorkCoherent, TakeAnswer
  <2> QED BY <1>0, <2>1, AnsweredCopy DEF Continues
<1>5. CASE AskFails
  BY <1>0, <1>5, UnansweredCopy DEF AskFails, Continues
<1>6. CASE Propose
  BY <1>6 DEF Propose, Continues, SameCopy, SameCounts
<1>7. CASE Exports
  <2>1. PICK state \in {"written", "failed"}, location \in Sources \cup {""} :
          work' = [work EXCEPT !.obj = Concluded(@, state, location)]
    <3>1. work.obj.spec.source \in Sources
      BY <1>0, WorkParts DEF SpecRecord
    <3>2. CASE Export
      BY <3>1, <3>2 DEF Export
    <3>3. CASE ExportFails
      BY <3>1, <3>3 DEF ExportFails
    <3> QED BY <1>7, <3>2, <3>3 DEF Exports
  <2>2. /\ SameCopy /\ work'.obj.status.gen = work.obj.gen
        /\ work'.obj.status.refresh = work.obj.refresh
        /\ work'.obj.status.decision = "verdict"
        /\ work'.now = work.now /\ work'.obj.status.time = work.now
    BY <1>0, <2>1, ConcludedCopy
  <2>3. pc = "exporting" /\ pc' = "updating" /\ queued' = queued
    BY <1>7 DEF Exports, Export, ExportFails
  <2> QED BY <2>2, <2>3 DEF Concludes, SameCopy, IsAnalysed
<1> QED BY <1>1, <1>2, <1>3, <1>4, <1>5, <1>6, <1>7 DEF Works

LEMMA AttendedByWork ==
  ASSUME IInv, Attended, Numbered', Works
  PROVE  Attended'
<1>0. /\ TypeOK /\ CacheCurrent /\ WorkCurrent /\ CopiesKnown /\ WorkKnown
  BY DEF IInv, Attended
<1>1. UNCHANGED <<ua, cache, world, clock, timer, doneAt>> /\ pc' \in Analysing
  BY DEF Works, world_vars
<1>2. CopiesKnown'
  BY <1>0, <1>1 DEF CopiesKnown
<1>3. WorkKnown'
  <2>1. CASE Begins
    <3>1. Exists(ua) => Waiting' \/ Same(work'.obj, ua)
      BY <1>1, <2>1 DEF Begins, Waiting
    <3>2. Exists(ua) /\ ua.rv = cache.rv => cache = ua
      BY <1>0, <2>1 DEF Begins, CacheCurrent
    <3> QED BY <1>1, <2>1, <3>1, <3>2, SameOnes DEF Begins, WorkKnown, HasVerdict
  <2>2. ASSUME pc \in Analysing, SameCopy \/ work'.obj = work.obj, queued' = queued
        PROVE  /\ Exists(ua) => Waiting' \/ Same(work'.obj, ua)
               /\ Exists(ua) /\ ua.rv = work'.obj.rv =>
                    /\ ua.rv = work.obj.rv
                    /\ Same(work'.obj, ua)
    <3>1. /\ work'.obj.uid = work.obj.uid /\ work'.obj.gen = work.obj.gen
          /\ work'.obj.refresh = work.obj.refresh /\ work'.obj.rv = work.obj.rv
      BY <2>2 DEF SameCopy
    <3>2. pc # "down"
      BY <2>2 DEF Analysing
    <3> QED BY <1>0, <1>1, <2>2, <3>1, <3>2 DEF WorkKnown, Waiting, Same
  <2>3. CASE Refuses
    <3>1. pc \in Analysing /\ work'.obj.spec = work.obj.spec
      BY <2>3 DEF Refuses, Analysing, SameCopy
    <3> QED BY <1>0, <1>1, <2>2, <2>3, <3>1
            DEF Refuses, WorkKnown, HasVerdict, SameCounts
  <2>4. CASE Collects
    <3>1. pc \in Analysing
      BY <2>4 DEF Collects, Analysing
    <3>2. Exists(ua) /\ ua.rv = work.obj.rv => ~IsRefused(ua)
      BY <1>0, <2>4, <3>1 DEF Collects, WorkCurrent, CopiesKnown
    <3>3. work'.now <= clock'
      <4>1. clock \in Nat
        BY <1>0, MoreNumbers
      <4>2. clock <= clock
        BY <4>1
      <4> QED BY <1>1, <2>4, <4>2 DEF Collects
    <3> QED BY <1>0, <1>1, <2>2, <2>4, <3>1, <3>2, <3>3 DEF Collects, WorkKnown
  <2>5. CASE Continues
    <3>1. pc \in Analysing /\ pc \in HasVerdict /\ pc # "updating" /\ pc' \notin {"updating", "refusing"}
      BY <2>5 DEF Continues, Analysing, HasVerdict
    <3> QED BY <1>0, <1>1, <2>2, <2>5, <3>1 DEF Continues, WorkKnown, SameCounts
  <2>6. CASE Concludes
    <3>1. pc \in Analysing /\ pc \in HasVerdict /\ pc' = "updating"
      BY <2>6 DEF Concludes, Analysing, HasVerdict
    <3> QED BY <1>0, <1>1, <2>2, <2>6, <3>1 DEF Concludes, WorkKnown
  <2> QED BY <2>1, <2>3, <2>4, <2>5, <2>6, WorkGoesOn
<1>4. NoChangeIsLost'
  BY <1>1, <1>3 DEF WorkKnown, NoChangeIsLost
<1>5. NoResyncIsLost'
  BY <1>1 DEF NoResyncIsLost, Analysing
<1> QED BY <1>2, <1>3, <1>4, <1>5 DEF Attended

LEMMA AttendedByFailure ==
  ASSUME IInv, Attended, Numbered', Fails
  PROVE  Attended'
<1>0. CopiesKnown
  BY DEF Attended
<1>1. /\ UNCHANGED <<ua, cache, world, clock, doneAt>>
      /\ pc' = "idle" /\ queued' = TRUE
  BY DEF Fails, world_vars, history
<1>2. CopiesKnown'
  BY <1>0, <1>1 DEF CopiesKnown
<1>3. Waiting' /\ WorkKnown'
  BY <1>1 DEF Waiting, WorkKnown, Analysing
<1> QED BY <1>2, <1>3 DEF Attended, NoChangeIsLost, NoResyncIsLost

LEMMA AttendedByStore ==
  ASSUME IInv, Attended, Numbered', UpdateStatus \/ UpdateReplyLost
  PROVE  Attended'
<1>0. /\ TypeOK /\ CacheCurrent /\ WorkCurrent /\ WorkCoherent
      /\ CopiesKnown /\ WorkKnown
  BY DEF IInv, Attended
<1>1. /\ pc \in {"updating", "refusing"} /\ Exists(ua) /\ ua.rv = work.obj.rv
      /\ StoreStatus /\ pc' = "idle" /\ UNCHANGED <<cache, world, clock>>
  BY DEF UpdateStatus, UpdateReplyLost, Current, Fail, world_vars
<1>2. /\ ua'.uid = ua.uid /\ ua'.gen = ua.gen /\ ua'.refresh = ua.refresh
      /\ ua'.spec = ua.spec /\ ua'.status = work.obj.status
  BY <1>0, <1>1, StatusStored
<1>3. /\ Same(work.obj, ua) /\ work.obj.spec = ua.spec
      /\ pc = "refusing" =>
           /\ work.obj.status.gen = ua.status.gen
           /\ work.obj.status.refresh = ua.status.refresh
           /\ work.obj.status.decision = "ERROR"
           /\ ~VersionIsHigher(ua.spec.target, world.version)
      /\ pc = "updating" =>
           /\ IsAnalysed(work.obj) /\ work.obj.status.time = work.now
           /\ work.obj.status.decision = "verdict"
           /\ work.now <= clock /\ ~IsRefused(ua)
  BY <1>0, <1>1 DEF WorkKnown, WorkCurrent, WorkCoherent, Analysing, HasVerdict
<1>4. (IsAnalysed(ua') /\ IsAnalysed(ua') = Analysed') \/ pc = "refusing"
  BY <1>1, <1>2, <1>3 DEF IsAnalysed, Same, Analysed
<1>5. /\ pc = "updating" => doneAt' = clock
      /\ pc = "refusing" => doneAt' = doneAt
      /\ doneAt <= doneAt' /\ doneAt' <= clock
  <2>1. clock \in Nat /\ doneAt \in Nat /\ doneAt <= clock
    BY <1>0, MoreNumbers DEF CopiesKnown
  <2>2. doneAt' = IF pc = "updating" THEN clock ELSE doneAt
    BY <1>1 DEF StoreStatus
  <2>3. \A x \in {clock, doneAt} : doneAt <= x /\ x <= clock
    BY <2>1
  <2> QED BY <1>1, <2>2, <2>3
<1>6. CopiesKnown'
  <2>1. Exists(ua) /\ Same(cache, ua') => Same(cache, ua)
    BY <1>1, <1>2 DEF Same
  <2>2. Same(cache, ua') =>
          /\ IsAnalysed(cache) => IsAnalysed(ua')
          /\ IsRefused(cache) => IsRefused(ua')
    BY <1>0, <1>1, <1>2, <1>3, <1>4, <2>1 DEF CopiesKnown, IsAnalysed, IsRefused
  <2>3. /\ IsRefused(ua') => ~VersionIsHigher(ua'.spec.target, world.version)
        /\ ua'.status.decision # "ERROR" => ua'.status.time <= doneAt'
    BY <1>1, <1>2, <1>3, <1>5 DEF IsRefused
  <2>4. Exists(cache) =>
          /\ IsRefused(cache) => ~VersionIsHigher(cache.spec.target, world.version)
          /\ cache.status.decision # "ERROR" => cache.status.time <= doneAt'
    <3>1. /\ cache.status.time \in Int /\ doneAt \in Nat /\ clock \in Nat
      BY <1>0, MoreNumbers
    <3>2. doneAt' \in {doneAt, clock}
      BY <1>1, <1>5
    <3>3. \A x \in {doneAt, clock} :
            cache.status.time <= doneAt /\ doneAt <= x => cache.status.time <= x
      BY <3>1
    <3> QED BY <1>0, <1>5, <3>2, <3>3 DEF CopiesKnown
  <2>5. cache' = cache /\ world' = world /\ clock' = clock
    BY <1>1
  <2> QED BY <1>5, <2>2, <2>3, <2>4, <2>5 DEF CopiesKnown
<1>7. WorkKnown'
  BY <1>1 DEF WorkKnown, Analysing
<1>8. NoChangeIsLost'
  BY <1>1, <1>2, <1>3, <1>4 DEF NoChangeIsLost, Refused, Analysed, IsAnalysed
<1>9. NoResyncIsLost'
  <2>1. CASE UpdateReplyLost
    BY <2>1 DEF UpdateReplyLost, Fail, NoResyncIsLost, Waiting
  <2>2. CASE UpdateStatus /\ pc = "updating" /\ Interval > 0
    <3>1. clock \in Nat /\ timer \in Nat /\ Interval \in Nat
      BY <1>0, MoreNumbers
    <3>2. PICK t \in Nat : t = clock + Interval /\ t # 0
      BY <2>2, <3>1
    <3>3. timer' = IF timer = 0 \/ t < timer THEN t ELSE timer
      BY <2>2, <3>2 DEF UpdateStatus, RequeueAt
    <3>4. \A x : x = (IF timer = 0 \/ t < timer THEN t ELSE timer) => x # 0 /\ x <= t
      BY <3>1, <3>2
    <3>5. doneAt' + Interval = t
      BY <1>5, <2>2, <3>2
    <3> QED BY <3>3, <3>4, <3>5 DEF NoResyncIsLost
  <2>3. CASE pc = "refusing"
    BY <1>2, <1>3, <2>3 DEF NoResyncIsLost
  <2> QED BY <1>1, <2>1, <2>2, <2>3 DEF NoResyncIsLost
<1> QED BY <1>6, <1>7, <1>8, <1>9 DEF Attended

LEMMA AttendedInTheWorld ==
  ASSUME IInv, Attended, Numbered', (\E w \in Worlds : ClusterChanges(w)) \/ Tick
  PROVE  Attended'
<1>0. TypeOK /\ CopiesKnown /\ WorkKnown /\ NoChangeIsLost /\ NoResyncIsLost
  BY DEF IInv, Attended
<1>1. UNCHANGED <<ua, cache, queued, timer, pc, work, doneAt>>
  BY DEF ClusterChanges, Tick, operator, history
<1>2. /\ world.version \in Nat /\ world'.version \in Nat /\ world.version <= world'.version
      /\ clock \in Nat /\ clock' \in Nat /\ clock <= clock'
  <2>1. clock \in Nat /\ world.version \in Nat
    BY <1>0, MoreNumbers
  <2>2. CASE Tick
    <3>1. clock' = clock + 1 /\ world' = world
      BY <2>2 DEF Tick
    <3> QED BY <2>1, <3>1
  <2>3. CASE \E w \in Worlds : ClusterChanges(w)
    <3>1. PICK w \in Worlds : world' = w /\ w.version >= world.version /\ clock' = clock
      BY <2>3 DEF ClusterChanges
    <3>2. w.version \in Nat
      BY InputsAssumption DEF World
    <3> QED BY <2>1, <3>1, <3>2
  <2> QED BY <2>2, <2>3
<1>3. ASSUME NEW n \in Nat, ~VersionIsHigher(n, world.version)
      PROVE  ~VersionIsHigher(n, world'.version)
  BY <1>2, <1>3 DEF VersionIsHigher
<1>4. ASSUME NEW n \in Nat, n <= clock
      PROVE  n <= clock'
  BY <1>2, <1>4
<1>5. /\ ua.spec.target \in Nat /\ cache.spec.target \in Nat
      /\ work.obj.spec.target \in Nat /\ work.now \in Nat /\ doneAt \in Nat
  BY <1>0, MoreNumbers
<1>6. CopiesKnown'
  BY <1>0, <1>1, <1>3, <1>4, <1>5 DEF CopiesKnown
<1>7. Waiting' <=> Waiting
  BY <1>1 DEF Waiting
<1>8. WorkKnown'
  BY <1>0, <1>1, <1>3, <1>4, <1>5, <1>7 DEF WorkKnown
<1>9. NoChangeIsLost' /\ NoResyncIsLost'
  BY <1>0, <1>1, <1>3, <1>5, <1>7 DEF NoChangeIsLost, NoResyncIsLost, Refused, Analysed
<1> QED BY <1>6, <1>8, <1>9 DEF Attended

LEMMA AttendedAsDelivered ==
  ASSUME IInv, Attended, Numbered', Observe \/ TimerFires \/ Crash \/ Start
  PROVE  Attended'
<1>0. TypeOK /\ CopiesKnown /\ WorkKnown /\ NoChangeIsLost /\ NoResyncIsLost
  BY DEF IInv, Attended
<1>1. UNCHANGED <<ua, world, clock, doneAt>> /\ cache' \in {cache, ua, NoUA}
  BY DEF Observe, TimerFires, Crash, Start, world_vars, history
<1>2. CopiesKnown'
  <2>1. ~Exists(NoUA)
    BY DEF NoUA, Exists
  <2>2. Exists(ua) => ~Same(NoUA, ua)
    BY DEF NoUA, Exists, Same
  <2> QED BY <1>0, <1>1, <2>1, <2>2 DEF CopiesKnown
<1>3. CASE Observe
  <2>1. /\ UNCHANGED <<pc, work, timer>> /\ cache' = ua
        /\ queued' = (queued \/ ~Same(cache, ua))
    BY <1>3, SameOnes DEF Observe
  <2>2. Waiting => Waiting'
    BY <2>1 DEF Waiting
  <2> QED BY <1>0, <1>1, <1>2, <2>1, <2>2
          DEF Attended, WorkKnown, NoChangeIsLost, NoResyncIsLost, Refused, Analysed
<1>4. CASE TimerFires
  <2>1. Waiting' /\ UNCHANGED <<pc, work>>
    BY <1>4 DEF TimerFires, Waiting
  <2> QED BY <1>0, <1>1, <1>2, <2>1
          DEF Attended, WorkKnown, NoChangeIsLost, NoResyncIsLost
<1>5. CASE Crash
  <2>1. Waiting' /\ pc' = "down"
    BY <1>5 DEF Crash, Waiting
  <2> QED BY <1>2, <2>1
          DEF Attended, WorkKnown, NoChangeIsLost, NoResyncIsLost, Analysing
<1>6. CASE Start
  <2>1. /\ Exists(ua') => Waiting'
        /\ pc' = "idle"
    BY <1>1, <1>6 DEF Start, Waiting
  <2> QED BY <1>2, <2>1
          DEF Attended, WorkKnown, NoChangeIsLost, NoResyncIsLost, Analysing
<1> QED BY <1>3, <1>4, <1>5, <1>6

\* Reconcile does nothing: there is no object, or its analysis is recent, and
\* then a timer is set for the rest of the interval.
LEMMA AttendedBySkipping ==
  ASSUME IInv, Attended, Numbered', ReconcileSkips
  PROVE  Attended'
<1>0. TypeOK /\ CopiesKnown
  BY DEF IInv, Attended
<1>1. UNCHANGED <<ua, world, clock, cache, pc, work, doneAt>> /\ pc = "idle"
  BY DEF ReconcileSkips, world_vars, history
<1>2. CopiesKnown' /\ WorkKnown'
  BY <1>0, <1>1 DEF CopiesKnown, WorkKnown, Analysing
<1>3. CASE Exists(ua) => ~Same(cache, ua)
  <2>1. Exists(ua') => Waiting'
    BY <1>1, <1>3 DEF Waiting
  <2> QED BY <1>2, <2>1 DEF Attended, NoChangeIsLost, NoResyncIsLost
<1>4. CASE Exists(ua) /\ Same(cache, ua)
  <2>1. Exists(cache) /\ Recent(cache) /\ RequeueAt(cache.status.time + Interval)
    BY <1>4 DEF ReconcileSkips, Exists, Same
  <2>2. /\ IsAnalysed(cache) /\ IsAnalysed(ua)
        /\ cache.status.decision = "ERROR" => ua.status.decision = "ERROR"
    BY <1>0, <1>4, <2>1 DEF Recent, CopiesKnown, IsAnalysed, IsRefused
  <2>3. NoChangeIsLost'
    BY <1>1, <2>2 DEF NoChangeIsLost, Analysed, IsAnalysed
  <2>4. NoResyncIsLost'
    <3>1. CASE cache.status.decision # "ERROR"
      <4>1. /\ cache.status.time \in Int /\ Interval \in Nat /\ timer \in Nat
            /\ doneAt \in Nat
        BY <1>0, MoreNumbers
      <4>2. cache.status.time <= doneAt /\ 0 <= cache.status.time /\ Interval > 0
        BY <1>0, <2>1, <3>1, <4>1 DEF CopiesKnown, Recent
      <4>3. PICK t \in Nat : /\ t = cache.status.time + Interval
                           /\ t # 0 /\ t <= doneAt + Interval
        BY <4>1, <4>2
      <4>4. timer' = IF timer = 0 \/ t < timer THEN t ELSE timer
        BY <2>1, <4>3 DEF RequeueAt
      <4>5. \A x : x = (IF timer = 0 \/ t < timer THEN t ELSE timer)
                    => x # 0 /\ x <= doneAt + Interval
        BY <4>1, <4>3
      <4> QED BY <1>1, <4>4, <4>5 DEF NoResyncIsLost
    <3>2. CASE cache.status.decision = "ERROR"
      BY <1>1, <2>2, <3>2 DEF NoResyncIsLost
    <3> QED BY <3>1, <3>2
  <2> QED BY <1>2, <2>3, <2>4 DEF Attended
<1> QED BY <1>3, <1>4

LEMMA AttendedSteps ==
  ASSUME IInv, Attended, [Next]_vars
  PROVE  Attended'
<1>0. TypeOK
  BY DEF IInv
<1>1. CASE UNCHANGED vars
  <2>1. UNCHANGED <<ua, rev, world, clock, cache, queued, timer, pc, work, spent, doneAt>>
    BY <1>1 DEF vars
  <2>2. /\ Numbered' /\ CopiesKnown' /\ (Waiting' <=> Waiting)
    BY <2>1 DEF Attended, Numbered, CopiesKnown, Waiting
  <2>3. WorkKnown'
    BY <2>1, <2>2 DEF Attended, WorkKnown
  <2>4. NoChangeIsLost' /\ NoResyncIsLost'
    BY <2>1, <2>2 DEF Attended, NoChangeIsLost, NoResyncIsLost, Refused, Analysed
  <2> QED BY <2>2, <2>3, <2>4 DEF Attended
<1>2. CASE User
  BY <1>2, AttendedByUser
<1>3. CASE Next /\ ~User
  <2>1. Numbered'
    BY <1>3, NumbersKept
  <2>2. CASE UpdateStatus \/ UpdateReplyLost
    BY <2>1, <2>2, AttendedByStore
  <2>3. CASE CollectFails \/ UpdateRejected
    <3>1. Fails
      BY <2>3 DEF CollectFails, UpdateRejected, Fail, UseFault, Fails, SpendsFault
    <3> QED BY <2>1, <3>1, AttendedByFailure
  <2>4. CASE ReconcileSkips
    BY <2>1, <2>4, AttendedBySkipping
  <2>5. CASE /\ ~UpdateStatus /\ ~UpdateReplyLost /\ ~CollectFails /\ ~UpdateRejected
             /\ ~ReconcileSkips /\ Reconcile
    <3>1. Works
      <4>1. Works \/ Stores \/ Fails
        BY <1>0, <2>5, ReconcileSteps
      <4>2. \/ ReconcileBegins \/ CollectRefuses \/ Collect \/ Asks \/ AskFails \/ Propose
            \/ Exports
        BY <2>5 DEF Reconcile, Asks, Exports
      <4>3. pc' # "idle"
        BY <4>2 DEF ReconcileBegins, CollectRefuses, Collect, Asks, AskMemory, AskModel,
                    TakeAnswer, AskFails, Propose, Exports, Export, ExportFails
      <4> QED BY <4>1, <4>3 DEF Stores, Fails
    <3> QED BY <2>1, <3>1, AttendedByWork
  <2>6. CASE (\E w \in Worlds : ClusterChanges(w)) \/ Tick
    BY <2>1, <2>6, AttendedInTheWorld
  <2>7. CASE Observe \/ TimerFires \/ Crash \/ Start
    BY <2>1, <2>7, AttendedAsDelivered
  <2> QED BY <1>3, <2>2, <2>3, <2>4, <2>5, <2>6, <2>7 DEF Next, Reconcile
<1> QED BY <1>1, <1>2, <1>3

\* Whatever the user does while Reconcile runs, and whatever fails: the watches,
\* their filters, the queue and the early returns of Reconcile leave no change
\* of the spec and no refresh behind, and no verdict without a timer for its
\* repetition. ChangesAreAnalysed and ResyncHappens rest on this.
THEOREM NothingGetsLost == Spec => []NothingIsForgotten
<1>1. Init => Attended
  <2>1. SUFFICES ASSUME Init PROVE Attended
    OBVIOUS
  <2>2. PICK s \in Specs : ua = [NoUA EXCEPT !.uid = 1, !.rv = 1, !.gen = 1, !.spec = s]
    BY <2>1 DEF Init
  <2>3. /\ pc = "down" /\ cache = NoUA /\ rev = 1 /\ clock = 0 /\ doneAt = 0
        /\ spent.refreshes = 0
    BY <2>1 DEF Init
  <2>4. /\ ua.uid = 1 /\ ua.refresh = 0 /\ ua.gen = 1 /\ ua.status = NoStatus
        /\ NoUA.uid = 0 /\ NoUA.refresh = 0
        /\ NoStatus.decision = "" /\ NoStatus.time = -1
    BY <2>2 DEF NoUA, NoStatus
  <2>5. Waiting
    BY <2>3 DEF Waiting
  <2>b. 0 <= 1 /\ 1 <= 1 /\ 0 <= 0 /\ -1 <= 0 /\ 0 # 1 /\ "" # "ERROR"
    OBVIOUS
  <2>c. cache.uid = 0 /\ cache.refresh = 0 /\ cache.uid # ua.uid
    BY <2>3, <2>4, <2>b, Zenon
  <2>d. ~Exists(cache) /\ ~Same(cache, ua) /\ ~IsRefused(ua)
    BY <2>4, <2>b, <2>c, Zenon DEF Exists, Same, IsRefused
  <2>6. Numbered
    BY <2>3, <2>4, <2>b, <2>c, Zenon DEF Numbered
  <2>7. CopiesKnown
    BY <2>3, <2>4, <2>b, <2>d, Zenon DEF CopiesKnown
  <2>8. WorkKnown
    BY <2>3 DEF WorkKnown, Analysing
  <2> QED BY <2>5, <2>6, <2>7, <2>8 DEF Attended, NoChangeIsLost, NoResyncIsLost
<1>2. IInv /\ Attended /\ [Next]_vars => Attended'
  BY AttendedSteps
<1>3. Attended => NothingIsForgotten
  BY DEF Attended, NothingIsForgotten
<1> QED BY <1>1, <1>2, <1>3, InductiveInvariance, PTL DEF Spec

=============================================================================
