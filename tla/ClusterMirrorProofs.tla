------------------------- MODULE ClusterMirrorProofs -------------------------
(***************************************************************************)
(* The safety properties of ClusterMirror, proved for any specs, clusters  *)
(* and bounds.                                                             *)
(***************************************************************************)
EXTENDS ClusterMirror, TLAPS

\* A report that could not be written shows in the error of the status.
Shown(status) == status.report = "failed" => status.error # ""

\* The strengthening under which the properties are inductive: what is stored,
\* cached or worked on shows its failures.  Between Collect, which clears the
\* error, and the publication of the report, the copy at hand need not.
IInv ==
  /\ TypeOK
  /\ NeverForgotten
  /\ Shown(cm.status) /\ Shown(cache.status)
  /\ pc # "publishing" => Shown(work.obj.status)

-----------------------------------------------------------------------------
(* Types.                                                                  *)

\* Objects whose parts are replaced are objects.
LEMMA WithVersion ==
  ASSUME NEW obj \in Object, NEW rv \in Nat
  PROVE  [obj EXCEPT !.rv = rv] \in Object
BY DEF Object

LEMMA WithSpec ==
  ASSUME NEW obj \in Object, NEW s \in SpecRecord, NEW n \in Nat
  PROVE  [obj EXCEPT !.spec = s, !.gen = n] \in Object
BY DEF Object

LEMMA WithRefresh ==
  ASSUME NEW obj \in Object, NEW n \in Nat
  PROVE  [obj EXCEPT !.refresh = n] \in Object
BY DEF Object

LEMMA WithStatus ==
  ASSUME NEW obj \in Object, NEW s \in Status
  PROVE  [obj EXCEPT !.status = s] \in Object
BY DEF Object

LEMMA NothingTyped ==
  /\ NoCM \in Object /\ NoMirror \in Mirror /\ NoStatus \in Status
  /\ NoWork \in [obj : Object, mirror : Mirror]
<1>1. NoSpec \in SpecRecord /\ NoMirror \in Mirror
  BY DEF NoSpec, SpecRecord, Sources, NoMirror, Mirror
<1>2. NoStatus \in Status
  BY <1>1 DEF NoStatus, Status
<1>3. NoCM \in Object
  BY <1>1, <1>2 DEF NoCM, Object
<1> QED BY <1>1, <1>2, <1>3 DEF NoWork

Work == [obj : Object, mirror : Mirror]
Spent == [edits : Nat, refreshes : Nat, changes : Nat, crashes : Nat, faults : Nat]

\* What is written to the API server is an object with the next version.
LEMMA Stored ==
  ASSUME TypeOK, NEW obj \in Object, Store(obj)
  PROVE  /\ cm' \in Object /\ rev' \in Nat
         /\ cm' = [obj EXCEPT !.rv = rev + 1]
BY WithVersion DEF Store, TypeOK

LEMMA StatusStored ==
  ASSUME TypeOK, Store([cm EXCEPT !.status = work.obj.status])
  PROVE  cm' \in Object /\ rev' \in Nat /\ cm'.status = work.obj.status
<1>1. cm \in Object /\ work.obj.status \in Status
  BY DEF TypeOK, Object
<1> DEFINE obj == [cm EXCEPT !.status = work.obj.status]
<1>2. obj \in Object /\ obj.status = work.obj.status
  BY <1>1, WithStatus DEF Object
<1>3. Store(obj)
  OBVIOUS
<1> HIDE DEF obj
<1>4. cm' = [obj EXCEPT !.rv = rev + 1] /\ cm' \in Object /\ rev' \in Nat
  BY <1>2, <1>3, Stored
<1> QED BY <1>2, <1>4 DEF Object

\* The user's writes; the status is kept, or there is none yet.
LEMMA UserSteps ==
  ASSUME TypeOK, User
  PROVE  /\ cm' \in Object /\ rev' \in Nat
         /\ cm'.status \in {cm.status, NoStatus}
         /\ spent' \in Spent /\ endedAt' \in Nat
         /\ UNCHANGED <<environment, operator, store, tried>>
<1>0. cm \in Object /\ rev \in Nat /\ spent \in Spent /\ endedAt \in Nat /\ clock \in Nat
  BY DEF TypeOK, Spent
<1>1. ASSUME NEW s \in Specs, UserCreates(s)
      PROVE  /\ cm' \in Object /\ rev' \in Nat /\ cm'.status = NoStatus
  <2>1. NoCM \in Object /\ s \in SpecRecord /\ NoCM.status = NoStatus
    BY NothingTyped, MirrorAssumption DEF NoCM
  <2> DEFINE n == rev + 1
             obj == [NoCM EXCEPT !.uid = n, !.gen = 1, !.spec = s]
  <2>2. obj \in Object /\ obj.status = NoStatus
    <3>1. n \in Nat
      BY <1>0
    <3> HIDE DEF n
    <3> QED BY <2>1, <3>1 DEF Object
  <2>3. Store(obj)
    BY <1>1 DEF UserCreates
  <2> HIDE DEF obj
  <2>4. cm' = [obj EXCEPT !.rv = rev + 1] /\ cm' \in Object /\ rev' \in Nat
    BY <2>2, <2>3, Stored
  <2> QED BY <2>2, <2>4 DEF Object
<1>2. ASSUME NEW s \in Specs, UserEdits(s)
      PROVE  /\ cm' \in Object /\ rev' \in Nat /\ cm'.status = cm.status
  <2> DEFINE n == cm.gen + 1
             obj == [cm EXCEPT !.spec = s, !.gen = n]
  <2>1. s \in SpecRecord /\ n \in Nat
    BY <1>0, MirrorAssumption DEF Object
  <2>2. obj \in Object /\ obj.status = cm.status
    <3> HIDE DEF n
    <3> QED BY <1>0, <2>1, WithSpec DEF Object
  <2>3. Store(obj)
    BY <1>2 DEF UserEdits
  <2> HIDE DEF obj
  <2>4. cm' = [obj EXCEPT !.rv = rev + 1] /\ cm' \in Object /\ rev' \in Nat
    BY <2>2, <2>3, Stored
  <2> QED BY <2>2, <2>4 DEF Object
<1>3. ASSUME UserRefreshes
      PROVE  /\ cm' \in Object /\ rev' \in Nat /\ cm'.status = cm.status
  <2> DEFINE n == spent.refreshes + 1
             obj == [cm EXCEPT !.refresh = n]
  <2>1. n \in Nat
    BY <1>0 DEF Spent
  <2>2. obj \in Object /\ obj.status = cm.status
    <3> HIDE DEF n
    <3> QED BY <1>0, <2>1, WithRefresh DEF Object
  <2>3. Store(obj)
    BY <1>3 DEF UserRefreshes
  <2> HIDE DEF obj
  <2>4. cm' = [obj EXCEPT !.rv = rev + 1] /\ cm' \in Object /\ rev' \in Nat
    BY <2>2, <2>3, Stored
  <2> QED BY <2>2, <2>4 DEF Object
<1>4. ASSUME UserDeletes
      PROVE  /\ cm' \in Object /\ rev' \in Nat /\ cm'.status = NoStatus
  BY <1>0, <1>4, NothingTyped DEF UserDeletes, NoCM
<1>5. spent' \in {[spent EXCEPT !.edits = @ + 1], [spent EXCEPT !.refreshes = @ + 1]}
  BY DEF User, UserCreates, UserEdits, UserRefreshes, UserDeletes
<1>6. spent' \in Spent
  BY <1>0, <1>5 DEF Spent
<1>7. endedAt' \in Nat /\ UNCHANGED <<environment, operator, store, tried>>
  BY <1>0 DEF User, UserCreates, UserEdits, UserRefreshes, UserDeletes, history
<1> QED BY <1>1, <1>2, <1>3, <1>4, <1>6, <1>7 DEF User

\* Reconcile's copy of the object while it works on it.
LEMMA WorkSteps ==
  ASSUME TypeOK
  PROVE  /\ ReconcileBegins => work' \in Work /\ work'.obj = cache
         /\ CollectFails => work' \in Work /\ Shown(work'.obj.status)
         /\ Collect => work' \in Work
         /\ Publish => work' \in Work /\ Shown(work'.obj.status)
         /\ PublishFails => work' \in Work /\ Shown(work'.obj.status)
<1>0. /\ work \in Work /\ work.obj \in Object /\ work.obj.status \in Status
      /\ work.mirror \in Mirror /\ work.obj.spec \in SpecRecord /\ work.obj.uid \in Nat
      /\ cluster \in Clusters /\ work.obj.gen \in Nat
  BY DEF TypeOK, Work, Object
<1>1. ASSUME NEW obj \in Object
      PROVE  [work EXCEPT !.obj = obj] \in Work
  BY <1>0 DEF Work
<1>2. ASSUME ReconcileBegins
      PROVE  work' \in Work /\ work'.obj = cache
  <2>1. work' = [NoWork EXCEPT !.obj = cache] /\ cache \in Object /\ NoWork \in Work
    BY <1>2, NothingTyped DEF ReconcileBegins, TypeOK, Work
  <2> QED BY <2>1 DEF Work
<1>3. ASSUME CollectFails
      PROVE  work' \in Work /\ Shown(work'.obj.status)
  <2> DEFINE status == [work.obj.status EXCEPT !.error = "collect"]
             obj == [work.obj EXCEPT !.status = status]
  <2>1. status \in Status /\ status.error = "collect"
    BY <1>0 DEF Status
  <2>2. work' = [work EXCEPT !.obj = obj]
    BY <1>3 DEF CollectFails
  <2>3. obj \in Object /\ obj.status = status
    <3> HIDE DEF status
    <3> QED BY <1>0, <2>1, WithStatus DEF Object
  <2>4. work' \in Work /\ work'.obj = obj
    <3> HIDE DEF obj
    <3> QED BY <1>0, <1>1, <2>2, <2>3 DEF Work
  <2> QED BY <2>1, <2>3, <2>4 DEF Shown
<1>4. ASSUME Collect
      PROVE  work' \in Work
  <2> DEFINE m == [uid |-> work.obj.uid, scope |-> work.obj.spec.scope, cluster |-> cluster]
             status == [work.obj.status EXCEPT !.of = m, !.gen = work.obj.gen, !.error = ""]
             obj == [work.obj EXCEPT !.status = status]
  <2>1. m \in Mirror
    BY <1>0 DEF Mirror, SpecRecord
  <2>2. status \in Status
    <3> HIDE DEF m
    <3> QED BY <1>0, <2>1 DEF Status
  <2>3. obj \in Object
    <3> HIDE DEF status
    <3> QED BY <1>0, <2>2, WithStatus
  <2>4. work' = [work EXCEPT !.mirror = m, !.obj.status.of = m,
                             !.obj.status.gen = work.obj.gen, !.obj.status.error = ""]
    BY <1>4 DEF Collect
  <2>5. work'.mirror = m /\ DOMAIN work' = {"obj", "mirror"}
    <3> HIDE DEF m
    <3> QED BY <1>0, <2>4 DEF Work
  <2>6. work'.obj = [work.obj EXCEPT !.status.of = m, !.status.gen = work.obj.gen,
                                     !.status.error = ""]
    <3> HIDE DEF m
    <3> QED BY <1>0, <2>4 DEF Work
  <2>7. work'.obj = obj
    <3> HIDE DEF m
    <3> QED BY <1>0, <2>6 DEF Object
  <2>8. work'.obj \in Object /\ work'.mirror \in Mirror
    BY <2>1, <2>3, <2>5, <2>7
  <2> HIDE DEF m, obj
  <2> QED BY <1>0, <2>4, <2>5, <2>8 DEF Work
<1>5. ASSUME NEW state \in {"written", "failed"}, NEW location \in Sources \cup {""}
      PROVE  /\ Published(work.obj, state, location) \in Object
             /\ Shown(Published(work.obj, state, location).status)
  <2> DEFINE error == IF state = "failed" THEN "publish" ELSE work.obj.status.error
             status == [work.obj.status EXCEPT !.location = location, !.report = state,
                                               !.error = error]
             obj == [work.obj EXCEPT !.status = status]
  <2>1. error \in {"", "collect", "publish"} /\ (state = "failed" => error # "")
    BY <1>0 DEF Status
  <2>2. status \in Status /\ status.report = state /\ status.error = error
    <3> HIDE DEF error
    <3> QED BY <1>0, <1>5, <2>1 DEF Status
  <2>3. Published(work.obj, state, location) = obj
    BY <1>0 DEF Published, Object, Status
  <2>4. obj \in Object /\ obj.status = status
    <3> HIDE DEF status
    <3> QED BY <1>0, <2>2, WithStatus DEF Object
  <2> QED BY <2>1, <2>2, <2>3, <2>4 DEF Shown
<1>6. ASSUME NEW state \in {"written", "failed"}, NEW location \in Sources \cup {""},
             work' = [work EXCEPT !.obj = Published(@, state, location)]
      PROVE  work' \in Work /\ Shown(work'.obj.status)
  <2> DEFINE obj == Published(work.obj, state, location)
  <2>1. obj \in Object /\ Shown(obj.status)
    BY <1>5
  <2>2. work' = [work EXCEPT !.obj = obj]
    BY <1>6
  <2> HIDE DEF obj
  <2>3. work' \in Work /\ work'.obj = obj
    BY <1>0, <1>1, <2>1, <2>2 DEF Work
  <2> QED BY <2>1, <2>3
<1>7. work.obj.spec.source \in Sources
  BY <1>0 DEF SpecRecord
<1>8. ASSUME Publish
      PROVE  work' \in Work /\ Shown(work'.obj.status)
  <2>1. work' = [work EXCEPT !.obj = Published(@, "written", work.obj.spec.source)]
    BY <1>8 DEF Publish
  <2> QED BY <1>6, <1>7, <2>1
<1>9. ASSUME PublishFails
      PROVE  work' \in Work /\ Shown(work'.obj.status)
  <2>1. PICK location \in Sources \cup {""} :
               work' = [work EXCEPT !.obj = Published(@, "failed", location)]
    BY <1>7, <1>9 DEF PublishFails
  <2> QED BY <1>6, <2>1
<1> QED BY <1>2, <1>3, <1>4, <1>8, <1>9

\* The status updates of Reconcile, whose reply may be lost.
StatusUpdate ==
  /\ pc \in {"updating", "complaining"}
  /\ Store([cm EXCEPT !.status = work.obj.status])
  /\ spent' \in {spent, [spent EXCEPT !.faults = @ + 1]}
  /\ \/ RequeueAt(clock + Interval(work.obj)) /\ queued' = queued /\ endedAt' = clock
     \/ queued' = TRUE /\ timer' = timer /\ endedAt' = endedAt
  /\ Done /\ UNCHANGED <<environment, cache, store, tried>>

\* The steps that give up on a status update.
GivesUp ==
  /\ pc \in {"updating", "complaining"}
  /\ spent' \in {spent, [spent EXCEPT !.faults = @ + 1]}
  /\ \/ RequeueAt(clock + Interval(work.obj)) /\ queued' = queued /\ endedAt' = clock
     \/ queued' = TRUE /\ timer' = timer /\ endedAt' = endedAt
  /\ Done /\ UNCHANGED <<cm, rev, environment, cache, store, tried>>

\* The steps on the copy of the object.
Works ==
  /\ ReconcileBegins \/ CollectFails \/ Collect \/ Publish \/ PublishFails
  /\ pc' \in {"collecting", "complaining", "publishing", "updating"}
  /\ Collect <=> pc' = "publishing"
  /\ store' \in {store, [store EXCEPT ![work.obj.spec.source] = work.mirror]}
  /\ spent' \in {spent, [spent EXCEPT !.faults = @ + 1]}
  /\ tried' \in {tried, Asked(cache)} /\ queued' \in BOOLEAN
  /\ UNCHANGED <<cm, rev, environment, cache, timer, endedAt>>

LEMMA ReconcileSteps ==
  ASSUME TypeOK, Reconcile
  PROVE  \/ ReconcileSkips \/ Works \/ StatusUpdate \/ GivesUp
<1>1. queued \in BOOLEAN
  BY DEF TypeOK
<1>2. CASE ReconcileBegins
  BY <1>2 DEF ReconcileBegins, Collect, Works
<1>3. CASE CollectFails
  BY <1>1, <1>3 DEF CollectFails, Collect, Works, UseFault, history
<1>4. CASE Collect
  BY <1>1, <1>4 DEF Collect, Works, history
<1>5. CASE Publish
  BY <1>1, <1>5 DEF Publish, Collect, Works, history
<1>6. CASE PublishFails
  BY <1>1, <1>6 DEF PublishFails, Collect, Works, UseFault, history
<1>7. CASE ComplaintStored
  BY <1>7 DEF ComplaintStored, StatusUpdate, Retry, Over
<1>8. CASE UpdateStatus
  BY <1>8 DEF UpdateStatus, StatusUpdate, Over
<1>9. CASE ReplyLost
  BY <1>9 DEF ReplyLost, StatusUpdate, Retry, Rejected, Over, UseFault, history
<1>10. CASE ComplaintRejected
  BY <1>10 DEF ComplaintRejected, GivesUp, Retry, Over, UseFault
<1>11. CASE UpdateRejected
  BY <1>11 DEF UpdateRejected, GivesUp, Rejected, UseFault, history
<1> QED BY <1>2, <1>3, <1>4, <1>5, <1>6, <1>7, <1>8, <1>9, <1>10, <1>11 DEF Reconcile

\* The steps of the cluster, the clock, the informer, the timer and the process.
Surroundings ==
  (\E c \in Clusters : ClusterChanges(c)) \/ Tick \/ Observe \/ TimerFires \/ Crash \/ Start

LEMMA SurroundingSteps ==
  ASSUME TypeOK, Surroundings
  PROVE  /\ UNCHANGED <<cm, rev, store, history>>
         /\ cache' \in {cache, cm, NoCM} /\ cluster' \in Clusters /\ clock' \in Nat
         /\ queued' \in BOOLEAN /\ timer' \in {timer, 0}
         /\ pc' \in {pc, "down", "idle"}
         /\ work' \in {work, NoWork}
         /\ spent' \in Spent
<1>0. /\ cluster \in Clusters /\ clock \in Nat /\ queued \in BOOLEAN
      /\ spent \in Spent
  BY DEF TypeOK, Spent
<1>1. spent' \in {spent, [spent EXCEPT !.changes = @ + 1], [spent EXCEPT !.crashes = @ + 1]}
  BY DEF Surroundings, ClusterChanges, Tick, Observe, TimerFires, Crash, Start
<1>2. spent' \in Spent
  BY <1>0, <1>1 DEF Spent
<1>3. queued' \in BOOLEAN
  BY <1>0 DEF Surroundings, ClusterChanges, Tick, Observe, TimerFires, Crash, Start, operator, Exists
<1> QED BY <1>0, <1>2, <1>3
        DEF Surroundings, ClusterChanges, Tick, Observe, TimerFires, Crash, Start,
            operator, environment, history

LEMMA Steps ==
  ASSUME TypeOK, [Next]_vars
  PROVE  \/ User \/ Surroundings \/ ReconcileSkips \/ Works \/ StatusUpdate \/ GivesUp
         \/ UNCHANGED vars
BY ReconcileSteps DEF Next, Surroundings

LEMMA IntervalPositive ==
  ASSUME TypeOK
  PROVE  Interval(work.obj) \in Nat \ {0}
<1>1. work.obj.spec.interval \in Int
  BY DEF TypeOK, Object, SpecRecord
<1> QED BY <1>1, MirrorAssumption DEF Interval

LEMMA TimerSet ==
  ASSUME TypeOK, RequeueAt(clock + Interval(work.obj))
  PROVE  timer' \in Nat \ {0}
BY IntervalPositive DEF TypeOK, RequeueAt

LEMMA TypeStep ==
  ASSUME TypeOK, [Next]_vars
  PROVE  TypeOK'
<1>0. spent \in Spent /\ work \in Work
  BY DEF TypeOK, Spent, Work
<1>1. CASE User
  BY <1>1, UserSteps DEF TypeOK, environment, operator, Spent
<1>2. CASE Surroundings
  <2>1. NoCM \in Object /\ NoWork \in Work
    BY NothingTyped DEF Work
  <2> QED BY <1>2, <2>1, SurroundingSteps DEF TypeOK, history, Spent, Work
<1>3. CASE ReconcileSkips
  BY <1>3 DEF ReconcileSkips, TypeOK, environment, history
<1>4. CASE Works
  <2>1. work' \in Work
    BY <1>4, WorkSteps DEF Works
  <2>2. store' \in [Sources -> Mirror]
    <3>1. work.mirror \in Mirror /\ store \in [Sources -> Mirror]
      BY DEF TypeOK
    <3> QED BY <1>4, <3>1 DEF Works
  <2>3. tried' \in [uid : Nat, gen : Nat, refresh : Nat]
    <3>1. Asked(cache) \in [uid : Nat, gen : Nat, refresh : Nat]
      BY DEF TypeOK, Asked, Object
    <3> QED BY <1>4, <3>1 DEF Works, TypeOK
  <2>4. spent' \in Spent
    BY <1>0, <1>4 DEF Works, Spent
  <2> QED BY <1>4, <2>1, <2>2, <2>3, <2>4 DEF Works, TypeOK, environment, Spent, Work
<1>5. CASE StatusUpdate \/ GivesUp
  <2>1. cm' \in Object /\ rev' \in Nat
    BY <1>5, StatusStored DEF StatusUpdate, GivesUp, TypeOK
  <2>2. spent' \in Spent
    BY <1>0, <1>5 DEF StatusUpdate, GivesUp, Spent
  <2>3. timer' \in Nat
    BY <1>5, TimerSet DEF StatusUpdate, GivesUp, TypeOK
  <2>4. endedAt' \in Nat /\ queued' \in BOOLEAN
    BY <1>5 DEF StatusUpdate, GivesUp, TypeOK
  <2>5. work' \in Work /\ pc' = "idle"
    BY <1>5, NothingTyped DEF StatusUpdate, GivesUp, Done, Work
  <2> QED BY <1>5, <2>1, <2>2, <2>3, <2>4, <2>5
          DEF StatusUpdate, GivesUp, TypeOK, environment, Spent, Work
<1>6. CASE UNCHANGED vars
  BY <1>6 DEF vars, TypeOK
<1> QED BY <1>1, <1>2, <1>3, <1>4, <1>5, <1>6, Steps

-----------------------------------------------------------------------------
(* A mirror that is known is queued, on its timer, or in work.             *)

LEMMA NeverForgottenStep ==
  ASSUME TypeOK, NeverForgotten, [Next]_vars
  PROVE  NeverForgotten'
<1>1. CASE User \/ UNCHANGED vars
  BY <1>1, UserSteps DEF vars, operator, NeverForgotten
<1>2. CASE Surroundings
  <2>1. CASE (\E c \in Clusters : ClusterChanges(c)) \/ Tick
    BY <2>1 DEF ClusterChanges, Tick, operator, NeverForgotten
  <2>2. CASE Observe
    BY <2>2 DEF Observe, Triggers, Exists, NeverForgotten
  <2>3. CASE TimerFires
    BY <2>3 DEF TimerFires, NeverForgotten
  <2>4. CASE Crash \/ Start
    BY <2>4 DEF Crash, Start, NeverForgotten
  <2> QED BY <1>2, <2>1, <2>2, <2>3, <2>4 DEF Surroundings
<1>3. CASE ReconcileSkips
  BY <1>3 DEF ReconcileSkips, NeverForgotten
<1>4. CASE Works
  BY <1>4 DEF Works, NeverForgotten
<1>5. CASE StatusUpdate \/ GivesUp
  BY <1>5, TimerSet DEF StatusUpdate, GivesUp, NeverForgotten
<1> QED BY <1>1, <1>2, <1>3, <1>4, <1>5, Steps

-----------------------------------------------------------------------------
(* A report that could not be written shows.                               *)

ShownEverywhere ==
  /\ Shown(cm.status) /\ Shown(cache.status)
  /\ pc # "publishing" => Shown(work.obj.status)

LEMMA ShownStep ==
  ASSUME TypeOK, ShownEverywhere, [Next]_vars
  PROVE  ShownEverywhere'
<1>0. Shown(NoStatus) /\ Shown(NoCM.status) /\ Shown(NoWork.obj.status)
  BY DEF Shown, NoStatus, NoCM, NoWork
<1>1. CASE User
  BY <1>0, <1>1, UserSteps DEF operator, ShownEverywhere, Shown
<1>2. CASE Surroundings
  <2>1. UNCHANGED <<pc, work>> \/ work' = NoWork \/ (pc = "down" /\ work' = work)
    BY <1>2 DEF Surroundings, ClusterChanges, Tick, Observe, TimerFires, Crash, Start, operator
  <2> QED BY <1>0, <1>2, <2>1, SurroundingSteps DEF ShownEverywhere, Shown
<1>3. CASE ReconcileSkips \/ UNCHANGED vars
  BY <1>3 DEF ReconcileSkips, vars, ShownEverywhere, Shown
<1>4. CASE Works
  BY <1>4, WorkSteps DEF Works, ShownEverywhere, Shown
<1>5. CASE StatusUpdate
  BY <1>0, <1>5, StatusStored DEF StatusUpdate, Done, ShownEverywhere, Shown
<1>6. CASE GivesUp
  BY <1>0, <1>6 DEF GivesUp, Done, ShownEverywhere, Shown
<1> QED BY <1>1, <1>2, <1>3, <1>4, <1>5, <1>6, Steps

-----------------------------------------------------------------------------
LEMMA InitIInv ==
  ASSUME Init
  PROVE  IInv
<1>1. TypeOK
  BY NothingTyped DEF Init, TypeOK, Asked, NoCM
<1>2. NeverForgotten
  BY DEF Init, NeverForgotten
<1>3. Shown(cm.status) /\ Shown(cache.status) /\ Shown(work.obj.status)
  BY DEF Init, Shown, NoCM, NoStatus, NoWork
<1> QED BY <1>1, <1>2, <1>3 DEF IInv

\* The invariant is inductive.
THEOREM InductiveInvariance == Spec => []IInv
<1>1. Init => IInv
  BY InitIInv
<1>2. IInv /\ [Next]_vars => IInv'
  BY TypeStep, NeverForgottenStep, ShownStep DEF IInv, ShownEverywhere
<1> QED BY <1>1, <1>2, PTL DEF Spec

\* However often the cluster cannot be read, the report not written or the
\* status not stored (Reconcile), a mirror the operator knows of is in its
\* queue, on its timer or in work: for any intervals, edits, faults, crashes.
THEOREM MirrorsAreKept == Spec => []NeverForgotten
<1>1. IInv => NeverForgotten
  BY DEF IInv
<1> QED BY <1>1, InductiveInvariance, PTL

\* A report that could not be written (publishReport) shows in syncError of the
\* stored status, also if the cluster cannot be collected afterwards.
THEOREM FailuresShow == Spec => []FailureIsShown
<1>1. IInv => FailureIsShown
  BY DEF IInv, Shown, FailureIsShown
<1> QED BY <1>1, InductiveInvariance, PTL

=============================================================================
