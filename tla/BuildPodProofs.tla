--------------------------- MODULE BuildPodProofs ---------------------------
(***************************************************************************)
(* Theorems about BuildPod, for every set of Builds, every limit and every *)
(* bound.                                                                  *)
(***************************************************************************)
EXTENDS BuildPod, BuildControllerProofs

(* What the type invariant says of the variables of this strategy. *)
PodTypeOK ==
  /\ pods \in [Builds -> Pod]
  /\ expired \subseteq Builds
  /\ podDeletions \in 0..MaxPodDeletions
  /\ forgotten \subseteq Builds
  /\ revived \subseteq Builds

(* The annotation and the signal change nothing else of a pod. *)
LEMMA SamePod ==
  ASSUME NEW pod \in Pod, NEW new \in {Annotated(pod), Signalled(pod), Cleared(pod)}
  PROVE  /\ new \in Pod
         /\ new.phase = pod.phase /\ new.owner = pod.owner
         /\ new.terminating = pod.terminating
BY DEF Pod, Annotated, Signalled, Cleared

(* The pods that the actions write are pods. *)
LEMMA PodTypes ==
  /\ NoPod \in Pod
  /\ \A n \in 0..MaxCreations, late \in BOOLEAN : NewPod(n, late) \in Pod
  /\ \A pod \in Pod : Deleted(pod) \in Pod
<1>1. 0 \in 0..MaxCreations
  BY BoundsAssumption
<1>2. NoPod \in Pod
  BY <1>1 DEF NoPod, Pod
<1>3. \A n \in 0..MaxCreations, late \in BOOLEAN : NewPod(n, late) \in Pod
  BY DEF NewPod, Pod
<1>4. ASSUME NEW pod \in Pod PROVE Deleted(pod) \in Pod
  BY <1>2 DEF Deleted, Pod
<1>5. QED BY <1>2, <1>3, <1>4

(* What a failed request may leave of the pod. *)
LEMMA FailedPods ==
  ASSUME NEW b \in Builds, PodRequestFails(b) \/ PodVanishes(b) \/ SignalRefused(b)
  PROVE  \/ pods' = pods
         \/ \E pod \in {NoPod, Deleted(pods[b])} : pods' = [pods EXCEPT ![b] = pod]
         \/ /\ pods[b].phase # "None"
            /\ \E pod \in {Annotated(pods[b]), Signalled(pods[b]), Cleared(pods[b])} :
                 pods' = [pods EXCEPT ![b] = pod]
<1>1. CASE PodRequestFails(b)
  BY <1>1 DEF PodRequestFails, AsksToEnd, AsksToClear
<1>2. CASE PodVanishes(b) \/ SignalRefused(b)
  BY <1>2 DEF PodVanishes, SignalRefused
<1>3. QED BY <1>1, <1>2

(* One step of the worker keeps the type invariant. *)
LEMMA ReconcileType ==
  ASSUME TypeOK, NEW b \in Builds, Reconcile(b)
  PROVE  TypeOK'
<1>0. /\ CtrlTypeOK /\ PodTypeOK /\ cache[b] \in BuildObject /\ pods[b] \in Pod
      /\ runningBuilds \subseteq Builds
  BY DEF TypeOK, CtrlTypeOK, PodTypeOK
<1>1. ASSUME NEW phase \in BuildPhases, NEW repoll, Read(b), runningBuilds' \subseteq Builds,
             Update(b, cache[b], [cache[b] EXCEPT !.phase = phase], repoll)
      PROVE  CtrlTypeOK'
  <2>1. [cache[b] EXCEPT !.phase = phase] \in BuildObject
    BY <1>0 DEF BuildObject
  <2>2. QED BY <1>0, <1>1, <2>1, HandlerType
<1>2. {"Scheduling", "Running", "Interrupted", "Succeeded", "Error", "Failed"} \subseteq BuildPhases
  BY DEF BuildPhases
<1>3. Account(b) => runningBuilds' \subseteq Builds
  BY <1>0 DEF Account
<1>4. ASSUME count.failures < MaxFailures, count' = [count EXCEPT !.failures = @ + 1]
      PROVE  count' \in [creations : 0..MaxCreations, deletions : 0..MaxDeletions,
                         failures : 0..MaxFailures, restarts : 0..MaxRestarts]
  BY <1>0, <1>4, BoundsAssumption DEF CtrlTypeOK
<1>5. CASE Initialize(b)
  <2>1. CtrlTypeOK'
    BY <1>0, <1>1, <1>2, <1>5 DEF Initialize
  <2>2. QED BY <1>0, <1>5, <2>1, PodTypes DEF Initialize, TypeOK, PodTypeOK
<1>6. CASE InitializeWait(b)
  BY <1>0, <1>6, ReadType, PodTypes DEF InitializeWait, TypeOK, CtrlTypeOK, PodTypeOK, Done
<1>7. CASE PodRequestFails(b) \/ PodVanishes(b) \/ SignalRefused(b)
  <2>1. {NoPod, Deleted(pods[b]), Annotated(pods[b]), Signalled(pods[b]), Cleared(pods[b])}
          \subseteq Pod
    BY <1>0, PodTypes, SamePod
  <2>2. pods' \in [Builds -> Pod]
    BY <1>0, <1>7, <2>1, FailedPods DEF PodTypeOK
  <2>3. CASE PodRequestFails(b) \/ SignalRefused(b)
    BY <1>0, <1>4, <2>2, <2>3, ReadType
       DEF PodRequestFails, SignalRefused, Monitored, TypeOK, CtrlTypeOK, PodTypeOK, Requeue
  <2>4. CASE PodVanishes(b)
    BY <1>0, <2>2, <2>4, ReadType, PodDeletionsAssumption
       DEF PodVanishes, Monitored, TypeOK, CtrlTypeOK, PodTypeOK, Done
  <2>5. QED BY <1>7, <2>3, <2>4
<1>8. CASE SchedulePod(b)
  <2>1. CtrlTypeOK'
    BY <1>0, <1>8, ScheduleType DEF SchedulePod
  <2>2. PodTypeOK'
    BY <1>0, <1>8 DEF SchedulePod, PodTypeOK
  <2>3. QED BY <2>1, <2>2 DEF TypeOK, PodTypeOK
<1>9. CASE CreatePod(b)
  <2>1. PodTypeOK'
    <3>1. PICK late \in BOOLEAN : pods' = [pods EXCEPT ![b] = NewPod(cache[b].created, late)]
      BY <1>9 DEF CreatePod
    <3>2. NewPod(cache[b].created, late) \in Pod
      BY <1>0, PodTypes DEF BuildObject
    <3>3. QED BY <1>0, <1>9, <3>1, <3>2 DEF CreatePod, PodTypeOK
  <2>2. CASE Account(b) /\ Update(b, cache[b], cache[b], TRUE)
    <3>1. CtrlTypeOK'
      BY <1>0, <1>3, <1>9, <2>2, HandlerType DEF CreatePod
    <3>2. QED BY <2>1, <3>1 DEF TypeOK, PodTypeOK
  <2>3. CASE /\ count.failures < MaxFailures
             /\ count' = [count EXCEPT !.failures = @ + 1]
             /\ Requeue(b)
             /\ UNCHANGED <<api, cache, events, runningBuilds>>
    <3>1. CtrlTypeOK'
      BY <1>0, <1>4, <1>9, <2>3, ReadType DEF CreatePod, CtrlTypeOK, Requeue
    <3>2. QED BY <2>1, <3>1 DEF TypeOK, PodTypeOK
  <2>4. QED BY <1>9, <2>2, <2>3 DEF CreatePod
<1>10. CASE PodGone(b)
  <2>1. CtrlTypeOK'
    BY <1>0, <1>1, <1>2, <1>10 DEF PodGone
  <2>2. QED BY <1>0, <1>10, <2>1 DEF PodGone, TypeOK, PodTypeOK
<1>11. CASE MonitorPanics(b)
  BY <1>0, <1>11, ReadType DEF MonitorPanics, TypeOK, CtrlTypeOK, PodTypeOK, Requeue
<1>12. CASE MonitorPod(b)
  <2>1. Signalled(pods[b]) \in Pod
    BY <1>0, SamePod
  <2>2. PodTypeOK'
    BY <1>0, <1>12, <2>1 DEF MonitorPod, PodTypeOK, Revived
  <2>3. CtrlTypeOK'
    BY <1>0, <1>1, <1>2, <1>3, <1>12, HandlerType DEF MonitorPod, Monitored
  <2>4. QED BY <2>2, <2>3 DEF TypeOK, PodTypeOK
<1>13. CASE PodEnded(b)
  <2>1. Outcomes(pods[b]) \subseteq BuildPhases
    BY <1>2 DEF Outcomes
  <2>2. CtrlTypeOK'
    BY <1>0, <1>1, <1>13, <2>1 DEF PodEnded, Monitored
  <2>3. Cleared(pods[b]) \in Pod
    BY <1>0, SamePod
  <2>4. QED BY <1>0, <1>13, <2>2, <2>3 DEF PodEnded, TypeOK, PodTypeOK
<1>14. CASE Shared(b)
  <2>1. CtrlTypeOK'
    BY <1>0, <1>14, SharedType DEF Shared
  <2>2. QED BY <1>0, <1>14, <2>1 DEF Shared, TypeOK, PodTypeOK
<1>15. QED BY <1>5, <1>6, <1>7, <1>8, <1>9, <1>10, <1>11, <1>12, <1>13, <1>14 DEF Reconcile

(* A step of the cluster changes the pods only, or the deadlines. *)
LEMMA ClusterType ==
  ASSUME TypeOK, NEW b \in Builds, Cluster(b)
  PROVE  TypeOK' /\ UNCHANGED ctrlVars
<1>0. CtrlTypeOK /\ PodTypeOK /\ pods[b] \in Pod
  BY DEF TypeOK, PodTypeOK
<1>1. UNCHANGED ctrlVars
  BY DEF Cluster, PodScheduled, ContainerStarts, ContainerEnds, PodRemoved, PodCollected,
         DeletePod, DeadlinePasses, SetPod
<1>2. CtrlTypeOK'
  BY <1>0, <1>1 DEF CtrlTypeOK, ctrlVars
<1>3. ASSUME NEW phase \in {"Waiting", "Running", "Succeeded", "Failed"}
      PROVE  [pods[b] EXCEPT !.phase = phase] \in Pod
  BY <1>0 DEF Pod
<1>4. PodTypeOK'
  BY <1>0, <1>3, PodTypes, PodDeletionsAssumption
     DEF PodTypeOK, Cluster, PodScheduled, ContainerStarts, ContainerEnds, PodRemoved,
         PodCollected, DeletePod, DeadlinePasses, SetPod
<1>5. QED BY <1>1, <1>2, <1>4 DEF TypeOK, PodTypeOK

(***************************************************************************)
(* The variables of the Build controller always have their types, whatever *)
(* happens to the pods.                                                    *)
(***************************************************************************)
THEOREM PodTypeInvariant == Spec => []TypeOK
<1>1. PodInit => TypeOK
  BY InitType, PodTypes, PodDeletionsAssumption DEF PodInit, TypeOK
<1>2. TypeOK /\ [Next]_vars => TypeOK'
  <2> SUFFICES ASSUME TypeOK, [Next]_vars PROVE TypeOK'
    OBVIOUS
  <2>1. CASE \E b \in Builds : EnvironmentStep(b)
    BY <2>1, EnvironmentType DEF EnvironmentStep, TypeOK
  <2>2. CASE \E b \in Builds : Reconcile(b)
    BY <2>2, ReconcileType
  <2>3. CASE \E b \in Builds : Cluster(b)
    BY <2>3, ClusterType
  <2>4. CASE RestartOperator
    BY <2>4, RestartType DEF RestartOperator, TypeOK
  <2>5. CASE UNCHANGED vars
    BY <2>5 DEF vars, ctrlVars, TypeOK, CtrlTypeOK
  <2>6. QED BY <2>1, <2>2, <2>3, <2>4, <2>5 DEF Next
<1>3. QED BY <1>1, <1>2, PTL DEF Spec
-----------------------------------------------------------------------------
(* Every step of the worker spends the retry budget as RetryBudget says. *)
LEMMA ReconcileInStep ==
  ASSUME TypeOK, AttemptsInStep, NEW b \in Builds, Reconcile(b)
  PROVE  InStep
<1>0. CtrlTypeOK /\ cache[b] \in BuildObject
  BY DEF TypeOK, CtrlTypeOK
<1>1. ASSUME NEW phase \in BuildPhases, NEW repoll,
             Update(b, cache[b], [cache[b] EXCEPT !.phase = phase], repoll)
      PROVE  InStep
  <2> DEFINE target == [cache[b] EXCEPT !.phase = phase]
  <2>1. target \in BuildObject /\ target.phase # "Absent" /\ target.attempt = cache[b].attempt
    BY <1>0 DEF BuildObject, BuildPhases
  <2>2. Update(b, cache[b], target, repoll)
    BY <1>1
  <2> HIDE DEF target
  <2>3. QED BY <1>0, <2>1, <2>2, UpdateInStep
<1>2. {"Scheduling", "Running", "Interrupted", "Succeeded", "Error", "Failed"} \subseteq BuildPhases
  BY DEF BuildPhases
<1>3. ASSUME NEW repoll, cache[b].phase # "Absent", Update(b, cache[b], cache[b], repoll)
      PROVE  InStep
  BY <1>0, <1>3, UpdateInStep
<1>4. ASSUME UNCHANGED <<api, cache>> PROVE InStep
  BY <1>0, <1>4, SameAttempts DEF Exists
<1>5. CASE Initialize(b) \/ PodGone(b)
  BY <1>1, <1>2, <1>5 DEF Initialize, PodGone
<1>6. CASE \/ InitializeWait(b) \/ PodRequestFails(b) \/ PodVanishes(b) \/ SignalRefused(b)
           \/ MonitorPanics(b)
  BY <1>4, <1>6
     DEF InitializeWait, PodRequestFails, PodVanishes, SignalRefused, MonitorPanics
<1>7. CASE SchedulePod(b)
  BY <1>0, <1>7, ScheduleInStep DEF SchedulePod
<1>8. CASE CreatePod(b)
  BY <1>3, <1>4, <1>8 DEF CreatePod
<1>9. CASE MonitorPod(b)
  <2>1. cache[b].phase # "Absent"
    BY <1>9 DEF MonitorPod, Monitored
  <2>2. QED BY <1>1, <1>2, <1>3, <1>9, <2>1 DEF MonitorPod
<1>10. CASE PodEnded(b)
  <2>1. Outcomes(pods[b]) \subseteq BuildPhases
    BY <1>2 DEF Outcomes
  <2>2. QED BY <1>1, <1>10, <2>1 DEF PodEnded
<1>11. CASE Shared(b)
  BY <1>0, <1>11, SharedInStep DEF Shared
<1>12. QED BY <1>5, <1>6, <1>7, <1>8, <1>9, <1>10, <1>11 DEF Reconcile

(* So does every step, the others spending nothing. *)
LEMMA NextInStep ==
  ASSUME TypeOK, AttemptsInStep, [Next]_vars
  PROVE  InStep
<1>0. CtrlTypeOK
  BY DEF TypeOK
<1>1. CASE \E b \in Builds : EnvironmentStep(b)
  BY <1>0, <1>1, EnvironmentInStep DEF EnvironmentStep
<1>2. CASE \E b \in Builds : Reconcile(b)
  BY <1>2, ReconcileInStep
<1>3. CASE \E b \in Builds : Cluster(b)
  <2>1. UNCHANGED ctrlVars
    BY <1>3, ClusterType
  <2>2. QED BY <1>0, <2>1, SameAttempts DEF ctrlVars, Exists
<1>4. CASE RestartOperator
  BY <1>0, <1>4, RestartInStep DEF RestartOperator
<1>5. CASE UNCHANGED vars
  BY <1>0, <1>5, SameAttempts DEF vars, ctrlVars, Exists
<1>6. QED BY <1>1, <1>2, <1>3, <1>4, <1>5 DEF Next

(***************************************************************************)
(* The pod strategy implements RetryBudget as well: deleted pods, repeated *)
(* requests and outdated copies never make it count a retry twice, or not  *)
(* at all.                                                                 *)
(***************************************************************************)
THEOREM PodRetriesCounted == Spec => RetriesAreCounted
<1>1. PodInit => AttemptsInStep /\ Budget!Init
  BY DEF PodInit, Init, AttemptsInStep, Absent, attemptOf, Exists, Budget!Init, Budget!Gone
<1>2. TypeOK /\ AttemptsInStep /\ [Next]_vars => AttemptsInStep' /\ [Budget!Next]_attemptOf
  BY NextInStep DEF InStep
<1>3. QED BY <1>1, <1>2, PodTypeInvariant, PTL DEF Spec, RetriesAreCounted, Budget!Spec
-----------------------------------------------------------------------------
(* Every handler moves on from what it has read in order. *)
LEMMA ReconcileOrderly ==
  ASSUME TypeOK, NEW b \in Builds, Reconcile(b)
  PROVE  Orderly
<1>0. /\ CtrlTypeOK
      /\ {"Scheduling", "Running", "Interrupted", "Succeeded", "Error", "Failed"} \subseteq BuildPhases
  BY DEF TypeOK, BuildPhases
<1>1. CASE Initialize(b)
  <2>1. Ordered(cache[b].phase, "Scheduling")
    BY <1>0, <1>1 DEF Initialize, Ordered, Preparing
  <2>2. QED BY <1>0, <1>1, <2>1, UpdateOrderly DEF Initialize
<1>2. CASE \/ InitializeWait(b) \/ PodRequestFails(b) \/ PodVanishes(b) \/ SignalRefused(b)
           \/ MonitorPanics(b)
  BY <1>0, <1>2, ReadOrderly
     DEF InitializeWait, PodRequestFails, PodVanishes, SignalRefused, Monitored, MonitorPanics
<1>3. CASE SchedulePod(b)
  BY <1>0, <1>3, ScheduleOrderly DEF SchedulePod
<1>4. CASE CreatePod(b)
  BY <1>0, <1>4, ReadOrderly, SamePhaseOrderly DEF CreatePod
<1>5. CASE PodGone(b)
  <2>1. Ordered(cache[b].phase, "Interrupted")
    BY <1>5 DEF PodGone, Ordered
  <2>2. QED BY <1>0, <1>5, <2>1, UpdateOrderly DEF PodGone
<1>6. CASE MonitorPod(b)
  <2>1. Ordered(cache[b].phase, "Running") /\ cache[b].phase # "Absent" /\ Read(b)
    BY <1>0, <1>6 DEF MonitorPod, Monitored, Ordered, Preparing
  <2>2. CASE Update(b, cache[b], [cache[b] EXCEPT !.phase = "Running"], TRUE)
    BY <1>0, <2>1, <2>2, UpdateOrderly
  <2>3. CASE Update(b, cache[b], cache[b], TRUE)
    BY <1>0, <2>1, <2>3, SamePhaseOrderly
  <2>4. QED BY <1>6, <2>2, <2>3 DEF MonitorPod
<1>7. CASE PodEnded(b)
  <2>1. Read(b) /\ cache[b].phase \in {"Pending", "Running"}
    BY <1>7 DEF PodEnded, Monitored
  <2>2. PICK phase \in {"Succeeded", "Error", "Interrupted", "Failed"} :
          Update(b, cache[b], [cache[b] EXCEPT !.phase = phase], FALSE)
    BY <1>7 DEF PodEnded, Outcomes
  <2>3. Ordered(cache[b].phase, phase)
    BY <1>0, <2>1 DEF Ordered, Preparing
  <2>4. QED BY <1>0, <2>1, <2>2, <2>3, UpdateOrderly
<1>8. CASE Shared(b)
  BY <1>0, <1>8, SharedOrderly DEF Shared
<1>9. QED BY <1>1, <1>2, <1>3, <1>4, <1>5, <1>6, <1>7, <1>8 DEF Reconcile

(* So is every step orderly, the others writing no phase. *)
LEMMA NextOrderly ==
  ASSUME TypeOK, [Next]_vars
  PROVE  Orderly
<1>1. CASE \E b \in Builds : EnvironmentStep(b)
  BY <1>1, EnvironmentOrderly DEF EnvironmentStep, TypeOK
<1>2. CASE \E b \in Builds : Reconcile(b)
  BY <1>2, ReconcileOrderly
<1>3. CASE \E b \in Builds : Cluster(b)
  <2>1. UNCHANGED ctrlVars
    BY <1>3, ClusterType
  <2>2. QED BY <2>1, NothingWritten DEF ctrlVars
<1>4. CASE RestartOperator
  BY <1>4, NothingWritten DEF RestartOperator, Restart
<1>5. CASE UNCHANGED vars
  BY <1>5, NothingWritten DEF vars, ctrlVars
<1>6. QED BY <1>1, <1>2, <1>3, <1>4, <1>5 DEF Next

(* An orderly step is a step in the life of each Build. *)
LEMMA LifeStep ==
  ASSUME TypeOK, TypeOK', Orderly, NEW b \in Builds
  PROVE  Life(b)!Next
<1> DEFINE p == api[b].phase
           q == api'[b].phase
<1>0. p \in BuildPhases \cup {"Absent"} /\ q \in BuildPhases \cup {"Absent"}
  BY DEF TypeOK, CtrlTypeOK, BuildObject
<1>1. (staleReads > 0) => (staleReads' > 0)
  BY DEF Orderly
<1>2. /\ LifePhase(b) = IF p \in Preparing THEN "Waiting" ELSE p
      /\ LifePhase(b)' = IF q \in Preparing THEN "Waiting" ELSE q
  BY DEF LifePhase, Preparing
<1>3. CASE InOrder(b)
  <2>1. \/ Life(b)!Appear \/ Life(b)!Vanish \/ Life(b)!Work
        \/ LifePhase(b)' = LifePhase(b)
    BY <1>0, <1>2, <1>3 DEF InOrder, Exists, Ordered, Preparing, BuildPhases,
       Life!Appear, Life!Vanish, Life!Work, Life!Ended
  <2>2. QED BY <1>1, <2>1 DEF Life!Next
<1>4. CASE Slipped(b)
  <2>1. Life(b)!Slip \/ LifePhase(b)' = LifePhase(b)
    BY <1>0, <1>2, <1>4 DEF Slipped, Preparing, BuildPhases, Life!Slip, Life!Under, Life!Ended
  <2>2. QED BY <1>1, <2>1 DEF Life!Next
<1>5. QED BY <1>3, <1>4 DEF Orderly

(***************************************************************************)
(* The pod strategy implements BuildLife: unless the worker reads outdated *)
(* copies, a Build goes through its phases in order and its end is final,  *)
(* and with them still no Build comes back after its deletion.             *)
(***************************************************************************)
THEOREM PodKeepsLife == Spec => KeepsBuildLife
<1> DEFINE Step == \A b \in Builds : Life(b)!Next
<1>1. TypeOK /\ TypeOK' /\ [Next]_vars => Step
  BY NextOrderly, LifeStep
<1> HIDE DEF Step
<1>2. Spec => [][Step]_vars
  BY <1>1, PodTypeInvariant, PTL DEF Spec
<1>3. QED BY <1>2 DEF KeepsBuildLife, Step

(* That is the life of every single Build, from its beginning. *)
THEOREM PodImplementsLife ==
  ASSUME NEW b \in Builds
  PROVE  Spec => Life(b)!Spec
<1>1. PodInit => Life(b)!Init
  BY BoundsAssumption DEF PodInit, Init, Absent, LifePhase, Life!Init
<1>2. TypeOK /\ TypeOK' /\ [Next]_vars => [Life(b)!Next]_<<LifePhase(b), staleReads > 0>>
  BY NextOrderly, LifeStep
<1>3. QED BY <1>1, <1>2, PodTypeInvariant, PTL DEF Spec, Life!Spec
=============================================================================
