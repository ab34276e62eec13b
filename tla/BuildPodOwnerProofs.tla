------------------------- MODULE BuildPodOwnerProofs -------------------------
(***************************************************************************)
(* Whose pod it is, who holds a slot and who is under way: the safety      *)
(* theorems about BuildPod.                                                *)
(***************************************************************************)
EXTENDS BuildPodProofs

(***************************************************************************)
(* The inductive invariant.  The pod is named after the Build, so what     *)
(* keeps it from being taken for another is how far the cache may be       *)
(* behind: a Build that is queued, or is seen queued, has no pod; a queued *)
(* Build is not seen Pending; and when a Build that was admitted is seen   *)
(* Pending, it is that Build, not the one it replaces.                     *)
(***************************************************************************)
QueuedHasNoPod(b) == "Scheduling" \in {api[b].phase, cache[b].phase} => pods[b] = NoPod

QueuedNotSeenPending(b) == api[b].phase = "Scheduling" => cache[b].phase # "Pending"

SeenPendingIsIt(b) ==
  api[b].started /\ cache[b].phase = "Pending" => cache[b].created = api[b].created

PodIsItsOwn(b) == api[b].started /\ pods[b] # NoPod => pods[b].owner = api[b].created

OwnPods == \A b \in Builds : /\ QueuedHasNoPod(b) /\ QueuedNotSeenPending(b)
                             /\ SeenPendingIsIt(b) /\ PodIsItsOwn(b)

(* What a step of the worker may do to a Build ... *)
BuildStep(b) ==
  /\ cache' = cache
  /\ \A c \in Builds \ {b} : api'[c] = api[c]
  /\ api'[b].created = api[b].created
  /\ api'[b].phase = "Scheduling" /\ api[b].phase # "Scheduling"
       => cache[b].phase # "Pending" /\ pods'[b] = NoPod
  /\ api'[b].started /\ ~api[b].started => SchedulePod(b) /\ cache[b].phase = "Scheduling"
  /\ api'[b].phase = "Succeeded" /\ api[b].phase # "Succeeded"
       => pods[b].phase = "Succeeded"
  /\ api'[b].phase \in {"Pending", "Running"} /\ api[b].phase \notin {"Pending", "Running"}
       => SchedulePod(b) \/ b \in revived'

(* ... and to its pod. *)
PodStep(b) ==
  /\ \A c \in Builds \ {b} : pods'[c] = pods[c]
  /\ \/ pods'[b] \in {NoPod, pods[b]}
     \/ pods[b] # NoPod /\ pods'[b].owner = pods[b].owner
     \/ cache[b].phase = "Pending" /\ pods'[b].owner = cache[b].created

(* Update writes the phase, if it differs from the one that was read, and  *)
(* StartedAt with the Pending phase only.                                  *)
LEMMA UpdateBuild ==
  ASSUME CtrlTypeOK, NEW b \in Builds, NEW target \in BuildObject, NEW repoll,
         Update(b, cache[b], target, repoll)
  PROVE  /\ cache' = cache
         /\ \A c \in Builds \ {b} : api'[c] = api[c]
         /\ api'[b].created = api[b].created
         /\ \/ api'[b].phase = api[b].phase
            \/ api'[b].phase = target.phase /\ target.phase # cache[b].phase
         /\ api'[b].started = api[b].started \/ (target.phase = "Pending" /\ cache[b].phase # "Pending")
<1>1. CASE PatchStatus(b, cache[b], target)
  BY <1>1 DEF PatchStatus, MergeFrom, CtrlTypeOK, BuildObject
<1>2. CASE PatchFails(b, cache[b], target) \/ PatchNotFound(b)
  BY <1>2 DEF PatchFails, PatchNotFound
<1>3. QED BY <1>1, <1>2 DEF Update

(* The handlers that both strategies share do not touch the pod. *)
LEMMA SharedBuildStep ==
  ASSUME TypeOK, NEW b \in Builds, Shared(b)
  PROVE  BuildStep(b) /\ PodStep(b)
<1>0. CtrlTypeOK /\ cache[b] \in BuildObject
  BY DEF TypeOK, CtrlTypeOK
<1>1. PodStep(b)
  BY DEF Shared, PodStep
<1>2. CASE ScheduleWait(b)
  <2>1. Update(b, cache[b], cache[b], FALSE) /\ cache[b].phase = "Scheduling"
    BY <1>2 DEF ScheduleWait
  <2>2. QED BY <1>0, <1>1, <2>1, UpdateBuild DEF BuildStep
<1>3. CASE ReconcileNothing(b) \/ BackOff(b)
  BY <1>1, <1>3 DEF ReconcileNothing, BackOff, BuildStep
<1>4. CASE RecordFailure(b)
  <2> DEFINE target == [cache[b] EXCEPT !.attempt = 0]
  <2>1. target \in BuildObject /\ target.phase = "Failed"
    BY <1>0, <1>4, BoundsAssumption DEF RecordFailure, BuildObject, NoFailure
  <2>2. Update(b, cache[b], target, FALSE)
    BY <1>4 DEF RecordFailure
  <2> HIDE DEF target
  <2>3. QED BY <1>0, <1>1, <2>1, <2>2, UpdateBuild DEF BuildStep
<1>5. CASE GiveUp(b)
  <2> DEFINE target == [cache[b] EXCEPT !.phase = "Error"]
  <2>1. target \in BuildObject /\ target.phase = "Error"
    BY <1>0 DEF BuildObject, BuildPhases
  <2>2. Update(b, cache[b], target, FALSE)
    BY <1>5 DEF GiveUp
  <2> HIDE DEF target
  <2>3. QED BY <1>0, <1>1, <2>1, <2>2, UpdateBuild DEF BuildStep
<1>6. CASE Retry(b)
  <2> DEFINE target == [cache[b] EXCEPT !.phase = "Initialization", !.attempt = @ + 1]
  <2>1. cache[b].attempt + 1 \in NoFailure..AttemptMax
    BY <1>0, <1>6, BoundsAssumption DEF Retry, CanRetry, BuildObject, NoFailure
  <2>2. target \in BuildObject /\ target.phase = "Initialization"
    BY <1>0, <2>1 DEF BuildObject, BuildPhases
  <2>3. Update(b, cache[b], target, FALSE)
    BY <1>6 DEF Retry
  <2> HIDE DEF target
  <2>4. QED BY <1>0, <1>1, <2>2, <2>3, UpdateBuild DEF BuildStep
<1>7. QED BY <1>2, <1>3, <1>4, <1>5, <1>6 DEF Shared, ErrorRecovery

(* The schedule action, admitted: StartedAt is written with the phase. *)
LEMMA ScheduleBuild ==
  ASSUME CtrlTypeOK, NEW b \in Builds, NEW repoll, Schedule(b, repoll)
  PROVE  /\ cache' = cache /\ cache[b].phase = "Scheduling"
         /\ \A c \in Builds \ {b} : api'[c] = api[c]
         /\ api'[b].created = api[b].created
         /\ api'[b].phase \in {api[b].phase, "Pending"}
<1> DEFINE target == [cache[b] EXCEPT !.phase = "Pending"]
<1>1. target.phase = "Pending" /\ cache[b].phase = "Scheduling"
  BY DEF CtrlTypeOK, BuildObject, Schedule
<1> HIDE DEF target
<1>2. CASE PatchStatus(b, cache[b], target)
  BY <1>1, <1>2 DEF PatchStatus, MergeFrom, CtrlTypeOK, BuildObject
<1>3. CASE PatchFails(b, cache[b], target) \/ PatchNotFound(b)
  BY <1>1, <1>3 DEF PatchFails, PatchNotFound
<1>4. QED BY <1>2, <1>3 DEF Schedule, target

(* Every step of the worker is of this kind. *)
LEMMA ReconcileBuildStep ==
  ASSUME TypeOK, NEW b \in Builds, Reconcile(b)
  PROVE  BuildStep(b) /\ PodStep(b)
<1>0. CtrlTypeOK /\ cache[b] \in BuildObject /\ pods[b] \in Pod /\ pods \in [Builds -> Pod]
  BY DEF TypeOK, CtrlTypeOK
<1>1. ASSUME NEW phase \in BuildPhases \ {"Pending"}, NEW repoll,
             Update(b, cache[b], [cache[b] EXCEPT !.phase = phase], repoll)
      PROVE  /\ cache' = cache
             /\ \A c \in Builds \ {b} : api'[c] = api[c]
             /\ api'[b].created = api[b].created
             /\ api'[b].phase \in {api[b].phase, phase}
             /\ api'[b].started = api[b].started
  <2> DEFINE target == [cache[b] EXCEPT !.phase = phase]
  <2>1. target \in BuildObject /\ target.phase = phase
    BY <1>0 DEF BuildObject, BuildPhases
  <2>2. Update(b, cache[b], target, repoll)
    BY <1>1
  <2> HIDE DEF target
  <2>3. QED BY <1>0, <1>1, <2>1, <2>2, UpdateBuild
<1>2. {"Scheduling", "Running", "Interrupted", "Succeeded", "Error", "Failed"}
        \subseteq BuildPhases \ {"Pending"}
  BY DEF BuildPhases
<1>3. CASE Initialize(b)
  <2>1. /\ cache[b].phase # "Pending" /\ pods' = [pods EXCEPT ![b] = NoPod]
        /\ Update(b, cache[b], [cache[b] EXCEPT !.phase = "Scheduling"], FALSE)
    BY <1>3 DEF Initialize
  <2>2. QED BY <1>0, <1>1, <1>2, <2>1 DEF BuildStep, PodStep
<1>4. CASE \/ InitializeWait(b) \/ PodRequestFails(b) \/ PodVanishes(b) \/ SignalRefused(b)
           \/ MonitorPanics(b)
  <2>1. \/ Deleted(pods[b]) = NoPod
        \/ pods[b] # NoPod /\ Deleted(pods[b]).owner = pods[b].owner
    BY <1>0 DEF Deleted, OnNode, NoPod, Pod
  <2>2. \A pod \in {Annotated(pods[b]), Signalled(pods[b]), Cleared(pods[b])} :
          pod.owner = pods[b].owner
    BY <1>0, SamePod
  <2>3. \/ pods'[b] \in {NoPod, pods[b], Deleted(pods[b])}
        \/ pods[b] # NoPod /\ pods'[b].owner = pods[b].owner
    <3>1. CASE InitializeWait(b) \/ MonitorPanics(b)
      BY <1>0, <3>1 DEF InitializeWait, MonitorPanics
    <3>2. CASE PodRequestFails(b) \/ PodVanishes(b) \/ SignalRefused(b)
      BY <1>0, <2>2, <3>2, FailedPods DEF NoPod
    <3>3. QED BY <1>4, <3>1, <3>2
  <2>4. PodStep(b)
    <3>1. \A c \in Builds \ {b} : pods'[c] = pods[c]
      BY <1>0, <1>4, FailedPods DEF InitializeWait, MonitorPanics
    <3>2. QED BY <2>1, <2>3, <3>1 DEF PodStep
  <2>5. UNCHANGED <<api, cache>>
    BY <1>4 DEF InitializeWait, PodRequestFails, PodVanishes, SignalRefused, MonitorPanics
  <2>6. QED BY <2>4, <2>5 DEF BuildStep
<1>5. CASE SchedulePod(b)
  BY <1>0, <1>5, ScheduleBuild DEF SchedulePod, BuildStep, PodStep
<1>6. CASE CreatePod(b)
  <2>1. PodStep(b)
    BY <1>0, <1>6 DEF CreatePod, PodStep, NewPod
  <2>2. CASE UNCHANGED <<api, cache>>
    BY <2>1, <2>2 DEF BuildStep
  <2>3. CASE Update(b, cache[b], cache[b], TRUE)
    BY <1>0, <2>1, <2>3, UpdateBuild DEF BuildStep
  <2>4. QED BY <1>6, <2>2, <2>3 DEF CreatePod
<1>7. CASE PodGone(b)
  <2>1. Update(b, cache[b], [cache[b] EXCEPT !.phase = "Interrupted"], FALSE) /\ pods' = pods
    BY <1>7 DEF PodGone
  <2>2. QED BY <1>1, <1>2, <2>1 DEF BuildStep, PodStep
<1>8. CASE MonitorPod(b)
  <2>1. pods[b] # NoPod /\ Signalled(pods[b]).owner = pods[b].owner
    BY <1>0, <1>8, SamePod DEF MonitorPod, NoPod
  <2>2. PodStep(b)
    BY <1>0, <1>8, <2>1 DEF MonitorPod, PodStep
  <2>3. CASE Update(b, cache[b], [cache[b] EXCEPT !.phase = "Running"], TRUE)
    <3>1. /\ api'[b].phase = "Running" /\ api[b].phase \notin {"Pending", "Running"}
            => b \in revived'
          /\ api'[b].phase \in {api[b].phase, "Running"}
      BY <1>1, <1>2, <1>8, <2>3 DEF MonitorPod, Revived
    <3>2. QED BY <1>1, <1>2, <2>2, <2>3, <3>1 DEF BuildStep
  <2>4. CASE Update(b, cache[b], cache[b], TRUE)
    BY <1>0, <2>2, <2>4, UpdateBuild DEF BuildStep
  <2>5. QED BY <1>8, <2>3, <2>4 DEF MonitorPod
<1>9. CASE PodEnded(b)
  <2>1. PICK phase \in Outcomes(pods[b]) :
               Update(b, cache[b], [cache[b] EXCEPT !.phase = phase], FALSE)
    BY <1>9 DEF PodEnded
  <2>2. /\ phase \in {"Succeeded", "Error", "Interrupted", "Failed"}
        /\ phase = "Succeeded" => pods[b].phase = "Succeeded"
    BY DEF Outcomes
  <2>3. PodStep(b)
    <3>1. pods[b] # NoPod /\ Cleared(pods[b]).owner = pods[b].owner
      BY <1>0, <1>9, SamePod DEF PodEnded, NoPod
    <3>2. QED BY <1>0, <1>9, <3>1 DEF PodEnded, PodStep
  <2>4. QED BY <1>1, <1>2, <2>1, <2>2, <2>3 DEF BuildStep
<1>10. CASE Shared(b)
  BY <1>10, SharedBuildStep
<1>11. QED BY <1>3, <1>4, <1>5, <1>6, <1>7, <1>8, <1>9, <1>10 DEF Reconcile
-----------------------------------------------------------------------------
(* A step of the worker keeps the invariant. *)
LEMMA ReconcileOwnPods ==
  ASSUME TypeOK, OwnPods, NEW b \in Builds, Reconcile(b)
  PROVE  OwnPods'
<1>1. BuildStep(b) /\ PodStep(b)
  BY ReconcileBuildStep
<1>2. ASSUME NEW c \in Builds \ {b}
      PROVE  /\ QueuedHasNoPod(c)' /\ QueuedNotSeenPending(c)'
             /\ SeenPendingIsIt(c)' /\ PodIsItsOwn(c)'
  <2>1. api'[c] = api[c] /\ cache'[c] = cache[c] /\ pods'[c] = pods[c]
    BY <1>1 DEF BuildStep, PodStep
  <2>2. /\ QueuedHasNoPod(c) /\ QueuedNotSeenPending(c)
        /\ SeenPendingIsIt(c) /\ PodIsItsOwn(c)
    BY DEF OwnPods
  <2>3. QED BY <2>1, <2>2
            DEF QueuedHasNoPod, QueuedNotSeenPending, SeenPendingIsIt, PodIsItsOwn
<1>3. /\ QueuedHasNoPod(b) /\ QueuedNotSeenPending(b)
      /\ SeenPendingIsIt(b) /\ PodIsItsOwn(b)
  BY DEF OwnPods
<1>4. /\ cache' = cache /\ api'[b].created = api[b].created
      /\ api'[b].started /\ ~api[b].started => cache[b].phase = "Scheduling"
  BY <1>1 DEF BuildStep
<1>5. pods[b] = NoPod /\ cache[b].phase # "Pending" => pods'[b] = NoPod
  BY <1>1 DEF PodStep
<1>6. QueuedHasNoPod(b)' /\ QueuedNotSeenPending(b)'
  BY <1>1, <1>3, <1>4, <1>5 DEF QueuedHasNoPod, QueuedNotSeenPending, BuildStep
<1>7. SeenPendingIsIt(b)'
  BY <1>3, <1>4 DEF SeenPendingIsIt
<1>8. PodIsItsOwn(b)'
  <2> SUFFICES ASSUME api'[b].started, pods'[b] # NoPod PROVE pods'[b].owner = api'[b].created
    BY DEF PodIsItsOwn
  <2>1. api[b].started
    BY <1>3, <1>4, <1>5 DEF QueuedHasNoPod
  <2>2. CASE pods'[b] = pods[b] \/ (pods[b] # NoPod /\ pods'[b].owner = pods[b].owner)
    BY <1>3, <1>4, <2>1, <2>2 DEF PodIsItsOwn
  <2>3. CASE cache[b].phase = "Pending" /\ pods'[b].owner = cache[b].created
    BY <1>3, <1>4, <2>1, <2>3 DEF SeenPendingIsIt
  <2>4. QED BY <1>1, <2>2, <2>3 DEF PodStep
<1>9. QED BY <1>2, <1>6, <1>7, <1>8 DEF OwnPods

(* A step of the cluster gives no pod to a Build that has none, and no pod *)
(* another owner.                                                          *)
LEMMA ClusterPods ==
  ASSUME TypeOK, NEW b \in Builds, Cluster(b)
  PROVE  /\ \A c \in Builds \ {b} : pods'[c] = pods[c]
         /\ \/ pods'[b] \in {NoPod, pods[b]}
            \/ pods[b] # NoPod /\ pods'[b].owner = pods[b].owner
<1>0. pods[b] \in Pod /\ pods \in [Builds -> Pod]
  BY DEF TypeOK
<1>1. CASE PodScheduled(b) \/ ContainerStarts(b) \/ ContainerEnds(b)
  <2>1. PICK phase \in {"Waiting", "Running", "Succeeded", "Failed"} :
               pods' = [pods EXCEPT ![b] = [pods[b] EXCEPT !.phase = phase]]
    BY <1>1 DEF PodScheduled, ContainerStarts, ContainerEnds, SetPod
  <2>2. pods[b] # NoPod
    BY <1>1 DEF PodScheduled, ContainerStarts, ContainerEnds, NoPod
  <2>3. QED BY <1>0, <2>1, <2>2 DEF Pod
<1>2. CASE PodRemoved(b)
  BY <1>0, <1>2 DEF PodRemoved, SetPod
<1>3. CASE PodCollected(b) \/ DeletePod(b)
  <2>1. pods' = [pods EXCEPT ![b] = Deleted(pods[b])]
    BY <1>3 DEF PodCollected, DeletePod, SetPod
  <2>2. \/ Deleted(pods[b]) = NoPod
        \/ pods[b] # NoPod /\ Deleted(pods[b]).owner = pods[b].owner
    BY <1>0 DEF Deleted, OnNode, NoPod, Pod
  <2>3. QED BY <1>0, <2>1, <2>2
<1>4. CASE DeadlinePasses(b)
  BY <1>4 DEF DeadlinePasses
<1>5. QED BY <1>1, <1>2, <1>3, <1>4 DEF Cluster

(* Nor do the API server, the informer and a restart. *)
LEMMA OthersOwnPods ==
  ASSUME TypeOK, OwnPods,
         \/ \E b \in Builds : EnvironmentStep(b) \/ Cluster(b)
         \/ RestartOperator
         \/ UNCHANGED vars
  PROVE  OwnPods'
<1>0. CtrlTypeOK
  BY DEF TypeOK
<1>1. ASSUME NEW b \in Builds, EnvironmentStep(b) PROVE OwnPods'
  <2>0. pods' = pods
    BY <1>1 DEF EnvironmentStep
  <2>1. CASE Create(b)
    BY <1>0, <2>0, <2>1 DEF Create, Created, OwnPods, QueuedHasNoPod, QueuedNotSeenPending,
                       SeenPendingIsIt, PodIsItsOwn, CtrlTypeOK
  <2>2. CASE Delete(b)
    BY <1>0, <2>0, <2>2 DEF Delete, Absent, OwnPods, QueuedHasNoPod, QueuedNotSeenPending,
                       SeenPendingIsIt, PodIsItsOwn, CtrlTypeOK
  <2>3. CASE Observe(b)
    BY <1>0, <2>0, <2>3 DEF Observe, OwnPods, QueuedHasNoPod, QueuedNotSeenPending,
                       SeenPendingIsIt, PodIsItsOwn, CtrlTypeOK
  <2>4. CASE TimerFires(b)
    BY <2>0, <2>4 DEF TimerFires, OwnPods, QueuedHasNoPod, QueuedNotSeenPending,
                       SeenPendingIsIt, PodIsItsOwn
  <2>5. QED BY <1>1, <2>1, <2>2, <2>3, <2>4 DEF EnvironmentStep, Environment
<1>2. ASSUME NEW b \in Builds, Cluster(b) PROVE OwnPods'
  <2>1. UNCHANGED <<api, cache>>
    BY <1>2, ClusterType DEF ctrlVars
  <2>2. \A c \in Builds : /\ pods[c] = NoPod => pods'[c] = NoPod
                          /\ pods'[c] # NoPod => pods'[c].owner = pods[c].owner
    BY <1>2, ClusterPods
  <2>3. QED BY <2>1, <2>2 DEF OwnPods, QueuedHasNoPod, QueuedNotSeenPending,
                              SeenPendingIsIt, PodIsItsOwn
<1>3. CASE RestartOperator
  BY <1>3 DEF RestartOperator, Restart, OwnPods, QueuedHasNoPod, QueuedNotSeenPending,
              SeenPendingIsIt, PodIsItsOwn
<1>4. CASE UNCHANGED vars
  BY <1>4 DEF vars, ctrlVars, OwnPods, QueuedHasNoPod, QueuedNotSeenPending,
              SeenPendingIsIt, PodIsItsOwn
<1>5. QED BY <1>1, <1>2, <1>3, <1>4

(* The invariant holds in every behaviour. *)
LEMMA OwnPodsInvariant == Spec => [](TypeOK /\ OwnPods)
<1>1. PodInit => OwnPods
  BY DEF PodInit, Init, Absent, OwnPods, QueuedHasNoPod, QueuedNotSeenPending,
         SeenPendingIsIt, PodIsItsOwn
<1>2. TypeOK /\ OwnPods /\ [Next]_vars => OwnPods'
  BY ReconcileOwnPods, OthersOwnPods DEF Next
<1>3. QED BY <1>1, <1>2, PodTypeInvariant, PTL DEF Spec

(***************************************************************************)
(* The pod of an earlier attempt, or of the Build that was replaced, is    *)
(* gone before initializePodAction queues the Build.                       *)
(***************************************************************************)
THEOREM NoPodIsLeftOver == Spec => []NoLeftoverPod
<1>1. OwnPods => NoLeftoverPod
  BY DEF OwnPods, QueuedHasNoPod, NoLeftoverPod
<1>2. QED BY <1>1, OwnPodsInvariant, PTL

(***************************************************************************)
(* An admitted Build becomes Succeeded on account of a pod it owns: the    *)
(* monitor action never takes the pod of another Build of that name for    *)
(* this one's.                                                             *)
(***************************************************************************)
THEOREM OwnPodSucceeds == Spec => SucceedsByItsOwnPod
<1> DEFINE Own == \A b \in Builds :
                    /\ api[b].phase # "Succeeded" /\ api'[b].phase = "Succeeded"
                    /\ api[b].started
                    => pods[b].owner = api[b].created /\ pods[b].phase = "Succeeded"
<1>1. TypeOK /\ OwnPods /\ [Next]_vars => [Own]_vars
  <2> SUFFICES ASSUME TypeOK, OwnPods, Next, NEW c \in Builds,
                      api[c].phase # "Succeeded", api'[c].phase = "Succeeded", api[c].started
               PROVE  pods[c].owner = api[c].created /\ pods[c].phase = "Succeeded"
    OBVIOUS
  <2>1. CASE \E b \in Builds : Reconcile(b)
    <3>1. PICK b \in Builds : Reconcile(b)
      BY <2>1
    <3>2. b = c /\ pods[b].phase = "Succeeded"
      BY <3>1, ReconcileBuildStep DEF BuildStep
    <3>3. pods[b] # NoPod
      BY <3>2 DEF NoPod
    <3>4. QED BY <3>2, <3>3 DEF OwnPods, PodIsItsOwn
  <2>2. CASE \E b \in Builds : EnvironmentStep(b)
    BY <2>2 DEF EnvironmentStep, Environment, Create, Created, Delete, Absent, Observe,
                TimerFires, TypeOK, CtrlTypeOK
  <2>3. CASE \E b \in Builds : Cluster(b)
    BY <2>3, ClusterType DEF ctrlVars
  <2>4. CASE RestartOperator
    BY <2>4 DEF RestartOperator, Restart
  <2>5. QED BY <2>1, <2>2, <2>3, <2>4 DEF Next
<1>2. QED BY <1>1, OwnPodsInvariant, PTL DEF Spec, SucceedsByItsOwnPod
-----------------------------------------------------------------------------
(* Only an admitted Build stops being a revived one. *)
LEMMA RevivedStep ==
  ASSUME NEW b \in Builds, Reconcile(b)
  PROVE  /\ \A c \in Builds \ {b} : c \in revived' <=> c \in revived
         /\ b \in revived => SchedulePod(b) \/ b \in revived'
BY DEF Reconcile, Initialize, InitializeWait, PodRequestFails, PodVanishes, SignalRefused,
       SchedulePod, CreatePod, PodGone, MonitorPanics, MonitorPod, Revived, PodEnded, Shared

(* In the sequential order the schedule action admits a Build only while   *)
(* no Build of its layout is Pending or Running in the list it reads.      *)
LEMMA SequentialAdmits ==
  ASSUME OrderStrategy = "sequential", NEW b \in Builds, NEW c \in Builds, Allowed(b),
         Attributes[b].layout = Attributes[c].layout,
         Attributes[b].layout \notin {NoLayout, NativeSources}
  PROVE  api[c].phase \notin {"Pending", "Running"}
<1> SUFFICES ASSUME api[c].phase \in {"Pending", "Running"} PROVE FALSE
  OBVIOUS
<1> DEFINE me == BuildView(b, cache[b])
           it == BuildView(c, api[c])
<1>1. it \in BuildList
  BY DEF BuildList, Exists
<1>2. it.layout = me.layout /\ it.phase = api[c].phase /\ me.layout = Attributes[b].layout
  BY DEF BuildView
<1> HIDE DEF me, it
<1>3. it \in withCompatibleLayout(BuildList, me)
  BY <1>1, <1>2 DEF withCompatibleLayout
<1>4. HasRunningBuilds(withCompatibleLayout(BuildList, me))
  BY <1>2, <1>3 DEF HasRunningBuilds
<1>5. QED BY <1>2, <1>4 DEF Allowed, canSchedule, orderAllows, me

(***************************************************************************)
(* In the sequential order, two Builds of one layout that were admitted    *)
(* are never both under way: the schedule action lists the Builds without  *)
(* the cache, and a restart does not change what it lists.                 *)
(***************************************************************************)
THEOREM SequentialOneAtATime == Spec => []OneAtATime
<1>1. PodInit => OneAtATime
  BY DEF PodInit, Init, Absent, OneAtATime, UnderWay
<1>2. TypeOK /\ OneAtATime /\ [Next]_vars => OneAtATime'
  <2> SUFFICES ASSUME TypeOK, OneAtATime, [Next]_vars, OrderStrategy = "sequential",
                      NEW b \in Builds, NEW c \in Builds, b # c,
                      Attributes[b].layout = Attributes[c].layout,
                      Attributes[b].layout \notin {NoLayout, NativeSources},
                      UnderWay(b)', UnderWay(c)'
               PROVE  FALSE
    BY DEF OneAtATime
  <2>0. ~(UnderWay(b) /\ UnderWay(c))
    BY DEF OneAtATime
  <2>1. ASSUME NEW d \in Builds, Reconcile(d) PROVE FALSE
    <3>1. /\ \A e \in Builds \ {d} : api'[e] = api[e] /\ (e \in revived' <=> e \in revived)
          /\ d \in revived => SchedulePod(d) \/ d \in revived'
          /\ BuildStep(d)
      BY <2>1, ReconcileBuildStep, RevivedStep DEF BuildStep
    <3>2. \A e \in Builds \ {d} : UnderWay(e)' => UnderWay(e)
      BY <3>1 DEF UnderWay
    <3>3. d \in {b, c} /\ UnderWay(d)' /\ ~UnderWay(d)
      BY <2>0, <3>2
    <3>4. SchedulePod(d)
      <4>1. CASE ~api[d].started
        BY <3>1, <3>3, <4>1 DEF BuildStep, UnderWay
      <4>2. CASE d \in revived
        BY <3>1, <3>3, <4>2 DEF UnderWay
      <4>3. CASE api[d].phase \notin {"Pending", "Running"}
        BY <3>1, <3>3, <4>3 DEF UnderWay, BuildStep
      <4>4. QED BY <3>3, <4>1, <4>2, <4>3 DEF UnderWay
    <3>5. Allowed(d)
      BY <3>4 DEF SchedulePod, Schedule
    <3>6. PICK e \in {b, c} : e # d
      OBVIOUS
    <3>7. api[e].phase \notin {"Pending", "Running"}
      BY <3>3, <3>5, <3>6, SequentialAdmits
    <3>8. UnderWay(e)
      BY <3>2, <3>6
    <3>9. QED BY <3>7, <3>8 DEF UnderWay
  <2>2. ASSUME NEW d \in Builds, EnvironmentStep(d) PROVE FALSE
    BY <2>0, <2>2 DEF EnvironmentStep, Environment, Create, Created, Delete, Absent, Observe,
                      TimerFires, UnderWay, TypeOK, CtrlTypeOK
  <2>3. ASSUME NEW d \in Builds, Cluster(d) PROVE FALSE
    <3>1. api' = api
      BY <2>3, ClusterType DEF ctrlVars
    <3>2. revived' = revived
      BY <2>3 DEF Cluster, PodScheduled, ContainerStarts, ContainerEnds, PodRemoved,
                  PodCollected, DeletePod, DeadlinePasses, SetPod
    <3>3. QED BY <2>0, <3>1, <3>2 DEF UnderWay
  <2>4. CASE RestartOperator
    BY <2>0, <2>4 DEF RestartOperator, Restart, UnderWay
  <2>5. CASE UNCHANGED vars
    BY <2>0, <2>5 DEF vars, ctrlVars, UnderWay
  <2>6. QED BY <2>1, <2>2, <2>3, <2>4, <2>5 DEF Next
<1>3. QED BY <1>1, <1>2, PodTypeInvariant, PTL DEF Spec
-----------------------------------------------------------------------------
(* What a step of the worker does to the slot of the Build it handles. *)
SlotStep(b) ==
  /\ \A c \in Builds \ {b} : /\ c \in runningBuilds \cup forgotten
                                 => c \in runningBuilds' \cup forgotten'
                             /\ c \in expired' <=> c \in expired
  /\ b \in InTime' => b \in runningBuilds' \cup forgotten'

(* A pod within its deadline that the worker leaves behind has a slot.     *)
LEMMA ReconcileSlotStep ==
  ASSUME TypeOK, OwnPods, PodsHoldSlots, NEW b \in Builds, Reconcile(b)
  PROVE  SlotStep(b)
<1>0. /\ pods[b] \in Pod /\ pods \in [Builds -> Pod]
      /\ b \in InTime => b \in runningBuilds \cup forgotten
  BY DEF TypeOK, PodsHoldSlots
<1>1. NoPod.phase = "None"
  BY DEF NoPod
<1>2. CASE Initialize(b)
  BY <1>0, <1>1, <1>2 DEF Initialize, SlotStep, InTime
<1>3. CASE \/ InitializeWait(b) \/ PodRequestFails(b) \/ PodVanishes(b) \/ SignalRefused(b)
           \/ MonitorPanics(b)
  <2>1. /\ Deleted(pods[b]).phase \in {pods[b].phase, "None"}
        /\ ~Deleted(pods[b]).terminating /\ Deleted(pods[b]).phase # "None"
             => ~pods[b].terminating
    BY <1>0 DEF Deleted, OnNode, NoPod, Pod
  <2>2. \A pod \in {Annotated(pods[b]), Signalled(pods[b]), Cleared(pods[b])} :
          pod.phase = pods[b].phase /\ pod.terminating = pods[b].terminating
    BY <1>0, SamePod
  <2>3. pods'[b] \in {NoPod, pods[b], Deleted(pods[b]), Annotated(pods[b]),
                     Signalled(pods[b]), Cleared(pods[b])}
    <3>1. CASE InitializeWait(b) \/ MonitorPanics(b)
      BY <1>0, <3>1 DEF InitializeWait, MonitorPanics
    <3>2. CASE PodRequestFails(b) \/ PodVanishes(b) \/ SignalRefused(b)
      BY <1>0, <3>2, FailedPods
    <3>3. QED BY <1>3, <3>1, <3>2
  <2>4. UNCHANGED <<runningBuilds, forgotten, expired>>
    BY <1>3 DEF InitializeWait, PodRequestFails, PodVanishes, SignalRefused, MonitorPanics
  <2>5. b \in InTime' => b \in InTime
    BY <1>1, <2>1, <2>2, <2>3, <2>4 DEF InTime
  <2>6. QED BY <1>0, <2>4, <2>5 DEF SlotStep
<1>4. CASE SchedulePod(b)
  <2>1. pods'[b] = NoPod
    BY <1>4 DEF SchedulePod, Schedule, OwnPods, QueuedHasNoPod
  <2>2. /\ b \notin InTime'
        /\ \A c \in Builds \ {b} : c \in expired' <=> c \in expired
        /\ runningBuilds \subseteq runningBuilds' /\ forgotten' = forgotten
    BY <1>1, <1>4, <2>1 DEF InTime, SchedulePod, Schedule
  <2>3. QED BY <2>2 DEF SlotStep
<1>5. CASE CreatePod(b)
  BY <1>0, <1>5 DEF CreatePod, Account, SlotStep, InTime
<1>6. CASE PodGone(b)
  BY <1>1, <1>6 DEF PodGone, SlotStep, InTime
<1>7. CASE MonitorPod(b)
  BY <1>7 DEF MonitorPod, Account, SlotStep, InTime
<1>8. CASE PodEnded(b)
  <2>1. pods'[b].phase = pods[b].phase
    BY <1>0, <1>8, SamePod DEF PodEnded
  <2>2. QED BY <1>8, <2>1 DEF PodEnded, SlotStep, InTime
<1>9. CASE Shared(b)
  <2>1. UNCHANGED <<runningBuilds, forgotten, expired, pods>>
    BY <1>9 DEF Shared, ScheduleWait, ErrorRecovery, RecordFailure, GiveUp, BackOff, Retry,
                ReconcileNothing
  <2>2. QED BY <1>0, <2>1 DEF SlotStep, InTime
<1>10. QED BY <1>2, <1>3, <1>4, <1>5, <1>6, <1>7, <1>8, <1>9 DEF Reconcile

(* A step of the cluster puts no pod back within its deadline. *)
LEMMA ClusterSlots ==
  ASSUME TypeOK, NEW b \in Builds, Cluster(b)
  PROVE  /\ UNCHANGED <<runningBuilds, forgotten>>
         /\ InTime' \subseteq InTime
<1>0. pods[b] \in Pod /\ pods \in [Builds -> Pod]
  BY DEF TypeOK
<1>1. UNCHANGED <<runningBuilds, forgotten>>
  BY DEF Cluster, PodScheduled, ContainerStarts, ContainerEnds, PodRemoved, PodCollected,
         DeletePod, DeadlinePasses, SetPod, ctrlVars
<1>2. CASE PodScheduled(b) \/ ContainerStarts(b) \/ ContainerEnds(b)
  <2>1. PICK phase \in {"Waiting", "Running", "Succeeded", "Failed"} :
               pods' = [pods EXCEPT ![b] = [pods[b] EXCEPT !.phase = phase]]
    BY <1>2 DEF PodScheduled, ContainerStarts, ContainerEnds, SetPod
  <2>2. pods[b].phase \in {"Unscheduled", "Waiting", "Running"} /\ expired' = expired
    BY <1>2 DEF PodScheduled, ContainerStarts, ContainerEnds, SetPod
  <2>3. [pods[b] EXCEPT !.phase = phase].terminating = pods[b].terminating
    BY <1>0 DEF Pod
  <2>4. QED BY <1>0, <1>1, <2>1, <2>2, <2>3 DEF InTime
<1>3. CASE PodRemoved(b)
  BY <1>0, <1>1, <1>3 DEF PodRemoved, SetPod, InTime, NoPod
<1>4. CASE PodCollected(b) \/ DeletePod(b)
  <2>1. pods' = [pods EXCEPT ![b] = Deleted(pods[b])] /\ expired' = expired
    BY <1>4 DEF PodCollected, DeletePod, SetPod
  <2>2. Deleted(pods[b]).phase = "None" \/ Deleted(pods[b]).terminating
    BY <1>0 DEF Deleted, NoPod, Pod
  <2>3. QED BY <1>0, <1>1, <2>1, <2>2 DEF InTime
<1>5. CASE DeadlinePasses(b)
  BY <1>1, <1>5 DEF DeadlinePasses, InTime
<1>6. QED BY <1>2, <1>3, <1>4, <1>5 DEF Cluster

(***************************************************************************)
(* A pod within its deadline holds a slot, so that the limit counts it;    *)
(* after a restart it does from the moment the monitor action sees it.     *)
(***************************************************************************)
THEOREM SlotsAreHeld == Spec => []PodsHoldSlots
<1>1. PodInit => PodsHoldSlots
  BY DEF PodInit, PodsHoldSlots, InTime, NoPod
<1>2. TypeOK /\ OwnPods /\ PodsHoldSlots /\ [Next]_vars => PodsHoldSlots'
  <2> SUFFICES ASSUME TypeOK, OwnPods, PodsHoldSlots, [Next]_vars PROVE PodsHoldSlots'
    OBVIOUS
  <2>1. ASSUME NEW b \in Builds, Reconcile(b) PROVE PodsHoldSlots'
    <3>1. SlotStep(b) /\ \A c \in Builds \ {b} : pods'[c] = pods[c]
      BY <2>1, ReconcileSlotStep, ReconcileBuildStep DEF PodStep
    <3>2. QED BY <3>1 DEF SlotStep, PodsHoldSlots, InTime
  <2>2. CASE \E b \in Builds : EnvironmentStep(b)
    BY <2>2 DEF EnvironmentStep, Environment, Create, Delete, Observe, TimerFires,
                PodsHoldSlots, InTime
  <2>3. CASE \E b \in Builds : Cluster(b)
    BY <2>3, ClusterSlots DEF PodsHoldSlots
  <2>4. CASE RestartOperator
    BY <2>4 DEF RestartOperator, PodsHoldSlots, InTime, NoPod
  <2>5. CASE UNCHANGED vars
    BY <2>5 DEF vars, ctrlVars, PodsHoldSlots, InTime
  <2>6. QED BY <2>1, <2>2, <2>3, <2>4, <2>5 DEF Next
<1>3. QED BY <1>1, <1>2, OwnPodsInvariant, PTL DEF Spec
=============================================================================
