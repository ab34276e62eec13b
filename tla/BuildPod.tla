------------------------------ MODULE BuildPod ------------------------------
(***************************************************************************)
(* The Build controller with the "pod" strategy: a build runs in a pod     *)
(* whose containers execute its tasks, and the monitor action polls that   *)
(* pod every second.                                                       *)
(*                                                                         *)
(* The pod outlives the operator, and the Build if the Build is deleted;   *)
(* its name is that of the Build, so that a Build that is created again    *)
(* may meet the pod of the one it replaces.  The containers never write    *)
(* the phase of the Build: the phase of the pod is all they report.        *)
(***************************************************************************)
EXTENDS BuildController

CONSTANTS
  Custom,           \* creation times of the Builds that run an image of the user's
  MaxPodDeletions   \* bound: pods deleted by someone else in a behaviour

ASSUME PodDeletionsAssumption == MaxPodDeletions \in Nat

VARIABLES
  pods,          \* pods[b]: the builder pod of b
  expired,       \* builds whose deadline, StartedAt + Timeout, has passed
  podDeletions,  \* how many pods someone else has deleted
  forgotten,     \* history: builds whose slot is not restored (see PodsHoldSlots)
  revived        \* history: builds set to Running after their end (see OneAtATime)

vars == <<ctrlVars, pods, expired, podDeletions, forgotten, revived>>

(***************************************************************************)
(* phase: "Unscheduled", then "Waiting" (it has a node and no container is *)
(* running), "Running", "Succeeded" or "Failed".  owner is the creation    *)
(* time of the Build that controls the pod, annotated says whether it has  *)
(* the annotation of a timeout.                                            *)
(***************************************************************************)
NoPod == [phase |-> "None", owner |-> 0, terminating |-> FALSE, signalled |-> FALSE,
          annotated |-> FALSE]

NewPod(owner, late) ==
  [phase |-> "Unscheduled", owner |-> owner, terminating |-> FALSE, signalled |-> FALSE,
   annotated |-> late]

Pod == [phase : {"None", "Unscheduled", "Waiting", "Running", "Succeeded", "Failed"},
        owner : 0..MaxCreations, terminating : BOOLEAN, signalled : BOOLEAN,
        annotated : BOOLEAN]

OnNode(pod) == pod.phase \in {"Waiting", "Running"}

(* Deleting a pod takes effect at once, but for a pod on a node: that one  *)
(* is given time to terminate.                                             *)
Deleted(pod) == IF OnNode(pod) THEN [pod EXCEPT !.terminating = TRUE] ELSE NoPod

(* Past the deadline a pod is annotated, then its running container is     *)
(* sent SIGTERM; the pod of a Build that succeeds loses the annotation.    *)
Annotated(pod) == [pod EXCEPT !.annotated = TRUE]
Signalled(pod) == [pod EXCEPT !.annotated = TRUE, !.signalled = @ \/ pod.phase = "Running"]
Cleared(pod)   == [pod EXCEPT !.annotated = @ /\ pod.phase # "Succeeded"]

OwnerGone(b) == ~Exists(b) \/ api[b].created # pods[b].owner
-----------------------------------------------------------------------------
PodInit ==
  /\ Init
  /\ pods = [b \in Builds |-> NoPod]
  /\ expired = {}
  /\ podDeletions = 0
  /\ forgotten = {}
  /\ revived = {}

(* Mutant of Initialize: the pod of the last attempt is not deleted. *)
InitializeKeepsPod(b) ==
  /\ Read(b)
  /\ cache[b].phase \in {"None", "Initialization"}
  /\ Update(b, cache[b], [cache[b] EXCEPT !.phase = "Scheduling"], FALSE)
  /\ UNCHANGED <<runningBuilds, pods, expired, podDeletions, forgotten, revived>>

(***************************************************************************)
(* initializePodAction.Handle deletes the pod and reads it back, by when   *)
(* it may have terminated: the Build is queued when it is gone.            *)
(***************************************************************************)
Initialize(b) ==
  /\ Read(b)
  /\ cache[b].phase \in {"None", "Initialization"}
  /\ pods' = [pods EXCEPT ![b] = NoPod]
  /\ Update(b, cache[b], [cache[b] EXCEPT !.phase = "Scheduling"], FALSE)
  /\ UNCHANGED <<runningBuilds, expired, podDeletions, forgotten, revived>>

(* The pod is still there: the handler returns, and Reconcile is done.     *)
InitializeWait(b) ==
  /\ Read(b)
  /\ cache[b].phase \in {"None", "Initialization"}
  /\ pods' = [pods EXCEPT ![b] = Deleted(@)]
  /\ pods'[b] # NoPod
  /\ Done(b)
  /\ UNCHANGED <<api, cache, events, runningBuilds, count, expired, podDeletions, forgotten, revived>>

Monitored(b) ==
  /\ Read(b)
  /\ cache[b].phase \in {"Pending", "Running"} /\ cache[b].started

(* What the monitor action asks of the pod it has read: the annotation and *)
(* the signal past the deadline, the end of the annotation on success.     *)
AsksToEnd(b) ==
  /\ b \in expired
  /\ pods[b].phase = "Running" \/ (pods[b].phase \in {"Unscheduled", "Waiting"} /\ ~pods[b].annotated)

AsksToClear(b) == pods[b].phase = "Succeeded" /\ pods[b].annotated

(* A request for the pod fails, with an error other than NotFound, before  *)
(* or after it has had its effect.                                         *)
PodRequestFails(b) ==
  /\ Read(b)
  /\ count.failures < MaxFailures
  /\ count' = [count EXCEPT !.failures = @ + 1]
  /\ Requeue(b)
  /\ \/ /\ cache[b].phase \in {"None", "Initialization"}
        /\ \/ UNCHANGED pods
           \/ pods' = [pods EXCEPT ![b] = Deleted(@)]
     \/ /\ cache[b].phase \in {"Pending", "Running"}
        /\ UNCHANGED pods
     \/ /\ Monitored(b)
        /\ \/ /\ AsksToEnd(b)
              /\ \E pod \in {Annotated(pods[b]), Signalled(pods[b])} :
                   pods' = [pods EXCEPT ![b] = pod]
           \/ /\ AsksToClear(b)
              /\ pods' = [pods EXCEPT ![b] = Cleared(@)]
  /\ UNCHANGED <<api, cache, events, runningBuilds, expired, podDeletions, forgotten, revived>>

(* The pod goes away between the handler's read and its request, which     *)
(* returns NotFound.  Reconcile takes it for the Build that is gone: it is *)
(* done, the status is not written, and nothing requeues the Build.        *)
PodVanishes(b) ==
  /\ Monitored(b)
  /\ \/ AsksToEnd(b) \/ AsksToClear(b)
     \/ cache[b].phase = "Pending" /\ pods[b] = NoPod /\ b \in expired \* it was just created
  /\ \/ /\ pods[b] # NoPod /\ (pods[b].terminating \/ OwnerGone(b))
        /\ UNCHANGED podDeletions
     \/ /\ podDeletions < MaxPodDeletions
        /\ podDeletions' = podDeletions + 1
  /\ pods' = [pods EXCEPT ![b] = NoPod]
  /\ Done(b)
  /\ UNCHANGED <<api, cache, events, runningBuilds, count, expired, forgotten, revived>>

(* The image of a custom task need not have the shell that would send the  *)
(* signal: then the request fails every time.                              *)
SignalRefused(b) ==
  /\ Monitored(b)
  /\ b \in expired
  /\ pods[b].phase = "Running" /\ pods[b].owner \in Custom
  /\ pods' = [pods EXCEPT ![b] = Annotated(@)]
  /\ Requeue(b)
  /\ UNCHANGED <<api, cache, events, runningBuilds, count, expired, podDeletions, forgotten, revived>>

(* scheduleAction.Handle gives the Build a new StartedAt, and with it a    *)
(* new deadline, when it is admitted.                                      *)
SchedulePod(b) ==
  /\ Schedule(b, TRUE)
  /\ LET admitted == api'[b].phase = "Pending" /\ count' = count
     IN /\ expired' = IF admitted THEN expired \ {b} ELSE expired
        /\ revived' = IF admitted THEN revived \ {b} ELSE revived
  /\ UNCHANGED <<pods, podDeletions, forgotten>>

(* Past the deadline the slot of the build is given back. *)
Account(b) ==
  runningBuilds' = IF b \in expired THEN runningBuilds \ {b} ELSE runningBuilds \cup {b}

(* monitorPodAction.Handle, Pending without a pod: create it.  The request *)
(* may have its effect and fail all the same: nothing is accounted for     *)
(* then, and the handler finds the pod when the Build comes again.         *)
CreatePod(b) ==
  /\ Read(b)
  /\ cache[b].phase = "Pending" /\ pods[b] = NoPod
  /\ \E late \in BOOLEAN :
       /\ late => b \in expired
       /\ pods' = [pods EXCEPT ![b] = NewPod(cache[b].created, late)]
  /\ \/ /\ pods'[b].annotated = (b \in expired)
        /\ Account(b)
        /\ Update(b, cache[b], cache[b], TRUE)
        /\ forgotten' = forgotten \ {b}
     \/ /\ count.failures < MaxFailures
        /\ count' = [count EXCEPT !.failures = @ + 1]
        /\ Requeue(b)
        /\ forgotten' = IF b \in runningBuilds THEN forgotten ELSE forgotten \cup {b}
        /\ UNCHANGED <<api, cache, events, runningBuilds>>
  /\ UNCHANGED <<expired, podDeletions, revived>>

(* Mutant of PodGone: a Build that has succeeded needs its pod as well. *)
PodGoneAfterEnd(b) ==
  /\ Read(b)
  /\ cache[b].phase \in {"Running", "Succeeded"} /\ pods[b] = NoPod
  /\ runningBuilds' = runningBuilds \ {b}
  /\ Update(b, cache[b], [cache[b] EXCEPT !.phase = "Interrupted"], FALSE)
  /\ UNCHANGED <<pods, expired, podDeletions, forgotten, revived>>

(* Running without a pod: someone has deleted it. *)
PodGone(b) ==
  /\ Read(b)
  /\ cache[b].phase = "Running" /\ pods[b] = NoPod
  /\ runningBuilds' = runningBuilds \ {b}
  /\ Update(b, cache[b], [cache[b] EXCEPT !.phase = "Interrupted"], FALSE)
  /\ UNCHANGED <<pods, expired, podDeletions, forgotten, revived>>

(* What the handler computes from StartedAt needs it to be there: it is    *)
(* not in a Build that was patched to Running on behalf of the Build it    *)
(* replaces.  The panic is recovered and Reconcile returns an error.       *)
MonitorPanics(b) ==
  /\ Read(b)
  /\ cache[b].phase = "Running" /\ ~cache[b].started /\ pods[b] # NoPod
  /\ Requeue(b)
  /\ UNCHANGED <<api, cache, events, runningBuilds, count, pods, expired, podDeletions, forgotten, revived>>

(* The Build has ended since it was read, and is set to Running again. *)
Revived(b) ==
  IF api[b].phase \notin {"Pending", "Running"} /\ api'[b].phase = "Running"
  THEN {b} ELSE {}

(* Mutant of MonitorPod: the slot is given back whatever the deadline. *)
MonitorPodForgets(b) ==
  /\ Monitored(b)
  /\ pods[b].phase \in {"Unscheduled", "Waiting", "Running"}
  /\ pods' = IF b \in expired THEN [pods EXCEPT ![b] = Signalled(@)] ELSE pods
  /\ runningBuilds' = runningBuilds \ {b}
  /\ forgotten' = forgotten \ {b}
  /\ Update(b, cache[b],
            IF OnNode(pods[b]) THEN [cache[b] EXCEPT !.phase = "Running"] ELSE cache[b], TRUE)
  /\ revived' = revived \cup Revived(b)
  /\ UNCHANGED <<expired, podDeletions>>

(* Mutant of MonitorPod: no signal is sent. *)
MonitorPodSilently(b) ==
  /\ Monitored(b)
  /\ pods[b].phase \in {"Unscheduled", "Waiting", "Running"}
  /\ pods' = IF b \in expired THEN [pods EXCEPT ![b] = Annotated(@)] ELSE pods
  /\ Account(b)
  /\ forgotten' = forgotten \ {b}
  /\ Update(b, cache[b],
            IF OnNode(pods[b]) THEN [cache[b] EXCEPT !.phase = "Running"] ELSE cache[b], TRUE)
  /\ revived' = revived \cup Revived(b)
  /\ UNCHANGED <<expired, podDeletions>>

(* The pod has not ended: the Build is Running once the pod has a node,    *)
(* and past the deadline the running container is sent SIGTERM.            *)
MonitorPod(b) ==
  /\ Monitored(b)
  /\ pods[b].phase \in {"Unscheduled", "Waiting", "Running"}
  /\ pods' = IF b \in expired THEN [pods EXCEPT ![b] = Signalled(@)] ELSE pods
  /\ Account(b)
  /\ forgotten' = forgotten \ {b}
  /\ Update(b, cache[b],
            IF OnNode(pods[b]) THEN [cache[b] EXCEPT !.phase = "Running"] ELSE cache[b], TRUE)
  /\ revived' = revived \cup Revived(b)
  /\ UNCHANGED <<expired, podDeletions>>

(* The pod has ended.  A custom publishing task that does not report an    *)
(* image or a digest turns success into Error.                             *)
Outcomes(pod) ==
  IF pod.phase = "Succeeded" THEN {"Succeeded", "Error"}
  ELSE IF pod.terminating THEN {"Interrupted"} ELSE {"Failed"}

PodEnded(b) ==
  /\ Monitored(b)
  /\ pods[b].phase \in {"Succeeded", "Failed"}
  /\ runningBuilds' = runningBuilds \ {b}
  /\ \E phase \in Outcomes(pods[b]) :
       Update(b, cache[b], [cache[b] EXCEPT !.phase = phase], FALSE)
  /\ pods' = [pods EXCEPT ![b] = Cleared(@)]
  /\ UNCHANGED <<expired, podDeletions, forgotten, revived>>

Shared(b) ==
  /\ ScheduleWait(b) \/ ErrorRecovery(b) \/ ReconcileNothing(b)
  /\ UNCHANGED <<pods, expired, podDeletions, forgotten, revived>>

Reconcile(b) ==
  \/ Initialize(b) \/ InitializeWait(b) \/ SchedulePod(b)
  \/ PodRequestFails(b) \/ PodVanishes(b) \/ SignalRefused(b)
  \/ CreatePod(b) \/ PodGone(b) \/ MonitorPanics(b) \/ MonitorPod(b) \/ PodEnded(b)
  \/ Shared(b)
-----------------------------------------------------------------------------
(* The cluster. *)
SetPod(b, pod) ==
  /\ pods' = [pods EXCEPT ![b] = pod]
  /\ UNCHANGED <<ctrlVars, expired, forgotten, revived>>

PodScheduled(b) ==
  /\ pods[b].phase = "Unscheduled"
  /\ SetPod(b, [pods[b] EXCEPT !.phase = "Waiting"])
  /\ UNCHANGED podDeletions

ContainerStarts(b) ==
  /\ pods[b].phase = "Waiting" /\ ~pods[b].terminating
  /\ SetPod(b, [pods[b] EXCEPT !.phase = "Running"])
  /\ UNCHANGED podDeletions

(* The last container ends, or a container fails, because of SIGTERM or    *)
(* for a reason of its own.                                                *)
ContainerEnds(b) ==
  /\ pods[b].phase = "Running"
  /\ \E phase \in {"Succeeded", "Failed"} : SetPod(b, [pods[b] EXCEPT !.phase = phase])
  /\ UNCHANGED podDeletions

(* A pod being deleted goes away, seen in its last phase or not. *)
PodRemoved(b) ==
  /\ pods[b].terminating
  /\ SetPod(b, NoPod)
  /\ UNCHANGED podDeletions

(* The garbage collector deletes a pod when the Build that owns it is gone. *)
PodCollected(b) ==
  /\ pods[b] # NoPod /\ ~pods[b].terminating
  /\ OwnerGone(b)
  /\ SetPod(b, Deleted(pods[b]))
  /\ UNCHANGED podDeletions

(* A user, an eviction or a drained node deletes the pod. *)
DeletePod(b) ==
  /\ pods[b] # NoPod /\ ~pods[b].terminating
  /\ podDeletions < MaxPodDeletions
  /\ podDeletions' = podDeletions + 1
  /\ SetPod(b, Deleted(pods[b]))

(* The clock passes StartedAt + Timeout. *)
DeadlinePasses(b) ==
  /\ cache[b].phase \in {"Pending", "Running"} /\ b \notin expired
  /\ expired' = expired \cup {b}
  /\ UNCHANGED <<ctrlVars, pods, podDeletions, forgotten, revived>>

Cluster(b) ==
  \/ PodScheduled(b) \/ ContainerStarts(b) \/ ContainerEnds(b) \/ PodRemoved(b)
  \/ PodCollected(b) \/ DeletePod(b) \/ DeadlinePasses(b)

EnvironmentStep(b) == Environment(b) /\ UNCHANGED <<pods, expired, podDeletions, forgotten, revived>>

(* The pods survive the operator; runningBuilds does not. *)
RestartOperator ==
  /\ Restart
  /\ forgotten' = {b \in Builds : pods[b] # NoPod}
  /\ UNCHANGED <<pods, expired, podDeletions, revived>>
-----------------------------------------------------------------------------
Next ==
  \/ \E b \in Builds : EnvironmentStep(b) \/ Reconcile(b) \/ Cluster(b)
  \/ RestartOperator

Spec == PodInit /\ [][Next]_vars

(***************************************************************************)
(* The watch delivers, timers expire and the worker serves its queue.  A   *)
(* Failed Build is not found inside its backoff for ever (see              *)
(* BuildRoutine).  The clock goes on, the garbage collector works, and a   *)
(* deleted pod goes away.  The builder, sent SIGTERM, cancels its context  *)
(* and ends; nothing is assumed of the image of a custom task.             *)
(***************************************************************************)
Fairness ==
  \A b \in Builds :
    /\ WF_vars(Observe(b) /\ UNCHANGED <<pods, expired, podDeletions, forgotten, revived>>)
    /\ WF_vars(TimerFires(b) /\ UNCHANGED <<pods, expired, podDeletions, forgotten, revived>>)
    /\ SF_vars(Reconcile(b))
    /\ SF_vars(Retry(b) /\ UNCHANGED <<pods, expired, podDeletions, forgotten, revived>>)
    /\ WF_vars(DeadlinePasses(b))
    /\ WF_vars(PodCollected(b))
    /\ WF_vars(PodRemoved(b))
    /\ WF_vars(pods[b].signalled /\ pods[b].owner \notin Custom /\ ContainerEnds(b))

FairSpec == Spec /\ Fairness

(* The scheduler of the cluster finds a node for every pod, and the node   *)
(* starts its containers.                                                  *)
ClusterFairness ==
  \A b \in Builds : WF_vars(PodScheduled(b)) /\ WF_vars(ContainerStarts(b))

FairClusterSpec == FairSpec /\ ClusterFairness
-----------------------------------------------------------------------------
TypeOK ==
  /\ CtrlTypeOK
  /\ pods \in [Builds -> Pod]
  /\ expired \subseteq Builds
  /\ podDeletions \in 0..MaxPodDeletions
  /\ forgotten \subseteq Builds
  /\ revived \subseteq Builds

(***************************************************************************)
(* A queued Build has no pod: the pod of an earlier attempt, or of the     *)
(* Build it replaces, is gone before the Build is queued.  Otherwise the   *)
(* monitor action would take the end of that pod for the end of this one.  *)
(***************************************************************************)
NoLeftoverPod == \A b \in Builds : api[b].phase = "Scheduling" => pods[b] = NoPod

(***************************************************************************)
(* The sequential order: two Builds that have the same layout label, and   *)
(* are not native, are never both under way, although the schedule action  *)
(* reads outdated Builds, patches fail and the operator restarts.  Only a  *)
(* Build that was admitted counts (see MonitorPanics for one that was not) *)
(* and that has not been set to Running, from an outdated copy, after it   *)
(* had ended: that is not the doing of the schedule action.                *)
(***************************************************************************)
UnderWay(b) == api[b].phase \in {"Pending", "Running"} /\ api[b].started /\ b \notin revived

OneAtATime ==
  OrderStrategy = "sequential" =>
    \A b, c \in Builds :
      /\ b # c
      /\ Attributes[b].layout = Attributes[c].layout
      /\ Attributes[b].layout \notin {NoLayout, NativeSources}
      => ~(UnderWay(b) /\ UnderWay(c))

(***************************************************************************)
(* A pod that is within its deadline, and not being deleted, holds a slot  *)
(* of runningBuilds, so that the limit can see it.  A restart of the       *)
(* operator forgets the slots: then it is so again as soon as the monitor  *)
(* action has looked at the pod, whatever it found before.                 *)
(***************************************************************************)
InTime == {b \in Builds : /\ pods[b].phase \in {"Unscheduled", "Waiting", "Running"}
                          /\ ~pods[b].terminating
                          /\ b \notin expired}

PodsHoldSlots == InTime \subseteq runningBuilds \cup forgotten

(***************************************************************************)
(* An admitted Build becomes Succeeded only on account of a pod it owns.   *)
(***************************************************************************)
SucceedsByItsOwnPod ==
  [][\A b \in Builds :
       /\ api[b].phase # "Succeeded" /\ api'[b].phase = "Succeeded"
       /\ api[b].started
       => pods[b].owner = api[b].created /\ pods[b].phase = "Succeeded"]_vars

(***************************************************************************)
(* A Build lives as BuildLife says: until the worker has read an outdated  *)
(* copy it goes through its phases in order and its end is final, whatever *)
(* happens to its pod, and although the operator restarts.                 *)
(***************************************************************************)
Life(b) == INSTANCE BuildLife WITH phase <- LifePhase(b), disturbed <- staleReads > 0

KeepsBuildLife == [][\A b \in Builds : Life(b)!Next]_vars

(***************************************************************************)
(* A Build ends: it succeeds, or uses up its attempts, or is interrupted,  *)
(* whatever restarts, failures, deleted pods and deadlines come between.   *)
(* What can stop it: a slot held by a Build that is not under way (one     *)
(* deleted under way), a pod that terminates while the Build is            *)
(* initialized (see InitializationEnds), a pod that goes away while a      *)
(* handler asks something of it (see PodVanishes), and a custom task that  *)
(* never ends.                                                             *)
(***************************************************************************)
SlotLeaked == \E b \in runningBuilds : api[b].phase \notin {"Pending", "Running"}

Unqueued(b) == b \notin events \cup queue \cup timers

Forgotten(b) == api[b].phase \in {"None", "Initialization"} /\ Unqueued(b)

Unpolled(b) == api[b].phase \in {"Pending", "Running"} /\ pods[b] = NoPod /\ Unqueued(b)

CustomTaskRuns(b) == pods[b].phase = "Running" /\ pods[b].owner \in Custom

BuildsFinish ==
  \A b \in Builds :
    \/ <>[]CustomTaskRuns(b)
    \/ api[b].phase = "None"
         ~> \/ api[b].phase \in {"Succeeded", "Error", "Interrupted", "Absent"}
            \/ SlotLeaked \/ Forgotten(b) \/ Unpolled(b)

(***************************************************************************)
(* What the API documents of the timeout: a Build whose deadline has       *)
(* passed does not stay Pending or Running, but for a pod that vanishes    *)
(* under the handler and a custom task that does not heed the signal.      *)
(***************************************************************************)
DeadlineIsEnforced ==
  \A b \in Builds :
    \/ <>[]CustomTaskRuns(b)
    \/ b \in expired /\ api[b].phase \in {"Pending", "Running"}
         ~> api[b].phase \notin {"Pending", "Running"} \/ Unpolled(b)

(***************************************************************************)
(* What initializePodAction says: it waits for the pod to be deleted, and  *)
(* the Build goes on then.                                                 *)
(***************************************************************************)
InitializationEnds ==
  \A b \in Builds : api[b].phase \in {"None", "Initialization"}
                      ~> api[b].phase \notin {"None", "Initialization"}
=============================================================================
