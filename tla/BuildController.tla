--------------------------- MODULE BuildController ---------------------------
(***************************************************************************)
(* The part of the Build controller that both build strategies share: the  *)
(* Build objects, the reconciliation loop, the schedule action and the     *)
(* error-recovery action.  BuildRoutine and BuildPod extend this module    *)
(* with the initialize and monitor actions of their strategy.              *)
(*                                                                         *)
(* A Build lives in two places: api is what the API server stores, cache   *)
(* is what the informer last delivered to the operator.  Reconcile reads   *)
(* the cache and patches the API server, and a patch carries the fields    *)
(* that differ between the Build it read and the Build it wants: it never  *)
(* fails because the Build has changed in between.                         *)
(*                                                                         *)
(* The controller has one worker.  queue holds the keys that are ready,    *)
(* timers those that a RequeueAfter or an error will make ready later.     *)
(* runningBuilds is the process-wide map of build_monitor.go: it is empty  *)
(* again after a restart of the operator.                                  *)
(***************************************************************************)
EXTENDS BuildOrder

CONSTANTS
  Builds,            \* the names a Build can have
  Attributes,        \* Attributes[b]: layout label, dependencies, runtime version
  MaxRunningBuilds,  \* limit on the builds running at the same time
  OrderStrategy,     \* "fifo", "dependencies" or "sequential"
  AttemptMax,        \* defaultRecoveryMaxAttempt
  MaxCreations,      \* bound: Build objects created in a behaviour
  MaxDeletions,      \* bound: Build objects deleted in a behaviour
  MaxStaleReads,     \* bound: reconciliations that read an outdated Build
  MaxFailures,       \* bound: API requests that fail in a behaviour
  MaxRestarts        \* bound: restarts of the operator in a behaviour

ASSUME BuildsAssumption == Builds \subseteq Nat /\ IsFiniteSet(Builds)

ASSUME AttributesAssumption ==
  \A b \in Builds : {"layout", "deps", "version"} \subseteq DOMAIN Attributes[b]

ASSUME BoundsAssumption ==
  /\ MaxRunningBuilds \in Nat \ {0}
  /\ AttemptMax \in Nat
  /\ {MaxCreations, MaxDeletions, MaxStaleReads, MaxFailures, MaxRestarts} \subseteq Nat

VARIABLES
  api,            \* api[b]: the Build on the API server
  cache,          \* cache[b]: the Build in the informer's cache
  events,         \* Builds with an undelivered event that passes the predicate
  queue,          \* keys ready to be reconciled
  timers,         \* keys that will be ready later
  runningBuilds,  \* builds the monitor counts as running
  staleReads,     \* how often Reconcile has read an outdated Build
  count           \* how much of each other bound has been used

ctrlVars == <<api, cache, events, queue, timers, runningBuilds, staleReads, count>>
-----------------------------------------------------------------------------
(* Status.Failure: attempt is Failure.Recovery.Attempt, or NoFailure. *)
NoFailure == -1

(* started: is Status.StartedAt set? *)
Absent == [phase |-> "Absent", attempt |-> NoFailure, started |-> FALSE, created |-> 0]

Created(time) == [phase |-> "None", attempt |-> NoFailure, started |-> FALSE, created |-> time]

BuildObject == [phase : BuildPhases \cup {"Absent"},
                attempt : NoFailure..AttemptMax,
                started : BOOLEAN,
                created : 0..MaxCreations]

Exists(b) == api[b].phase # "Absent"

(* Mutant of MergeFrom: the whole status is written, as by an update. *)
WriteStatus(stored, base, target) ==
  [stored EXCEPT !.phase = target.phase,
                 !.attempt = target.attempt,
                 !.started = target.started \/ target.phase = "Pending"]

(* A merge patch from base to target, applied to the stored Build: a field *)
(* is written when base and target disagree on it.  StartedAt is only ever *)
(* written together with the Pending phase.                                *)
MergeFrom(stored, base, target) ==
  [stored EXCEPT !.phase   = IF target.phase = base.phase THEN @ ELSE target.phase,
                 !.attempt = IF target.attempt = base.attempt THEN @ ELSE target.attempt,
                 !.started = @ \/ (target.phase # base.phase /\ target.phase = "Pending")]

(* The patch of an existing failure carries the attempt only, and the CRD  *)
(* requires the other fields of a failure: the API server refuses it when  *)
(* the stored Build has none.                                              *)
Valid(stored, base, target) ==
  target.attempt = base.attempt \/ base.attempt = NoFailure \/ stored.attempt # NoFailure

(* Status().Patch of b succeeds.  The watch will deliver an event; the     *)
(* predicate of the controller lets it through when the phase changes.     *)
PatchStatus(b, base, target) ==
  /\ Exists(b) /\ Valid(api[b], base, target)
  /\ api' = [api EXCEPT ![b] = MergeFrom(@, base, target)]
  /\ events' = IF api'[b].phase # api[b].phase THEN events \cup {b} ELSE events
  /\ UNCHANGED <<cache, count>>

(* Status().Patch of b returns an error other than NotFound. *)
PatchFails(b, base, target) ==
  /\ Exists(b)
  /\ \/ /\ ~Valid(api[b], base, target)
        /\ UNCHANGED count
     \/ /\ count.failures < MaxFailures
        /\ count' = [count EXCEPT !.failures = @ + 1]
  /\ UNCHANGED <<api, cache, events>>

(* Status().Patch of b returns NotFound, which Reconcile takes as done. *)
PatchNotFound(b) ==
  /\ ~Exists(b)
  /\ UNCHANGED <<api, cache, events, count>>

(* The worker takes b from the queue; Requeue says it will come again. *)
Done(b)    == queue' = queue \ {b} /\ UNCHANGED timers
Requeue(b) == queue' = queue \ {b} /\ timers' = timers \cup {b}

(* Mutant of Update: a Failed Build is not requeued. *)
UpdateQueuesNoFailed(b, base, target, repoll) ==
  \/ /\ PatchStatus(b, base, target)
     /\ IF target.phase = "Scheduling" \/ repoll THEN Requeue(b) ELSE Done(b)
  \/ PatchFails(b, base, target) /\ Requeue(b)
  \/ PatchNotFound(b) /\ Done(b)

(***************************************************************************)
(* A handler that returns a target: reconcileBuild.update patches it, and  *)
(* a Build left in Scheduling or Failed is requeued after 5 seconds.       *)
(* repoll says whether the strategy polls this phase as well.              *)
(***************************************************************************)
Update(b, base, target, repoll) ==
  \/ /\ PatchStatus(b, base, target)
     /\ IF target.phase \in {"Scheduling", "Failed"} \/ repoll
        THEN Requeue(b) ELSE Done(b)
  \/ PatchFails(b, base, target) /\ Requeue(b)
  \/ PatchNotFound(b) /\ Done(b)
-----------------------------------------------------------------------------
Init ==
  /\ api = [b \in Builds |-> Absent]
  /\ cache = [b \in Builds |-> Absent]
  /\ events = {}
  /\ queue = {}
  /\ timers = {}
  /\ runningBuilds = {}
  /\ staleReads = 0
  /\ count = [creations |-> 0, deletions |-> 0, failures |-> 0, restarts |-> 0]

(* The IntegrationKit or the Integration controller creates a Build. *)
Create(b) ==
  /\ ~Exists(b)
  /\ count.creations < MaxCreations
  /\ count' = [count EXCEPT !.creations = @ + 1]
  /\ api' = [api EXCEPT ![b] = Created(count'.creations)]
  /\ events' = events \cup {b}
  /\ UNCHANGED <<cache, queue, timers, runningBuilds, staleReads>>

(* A Build is deleted: by its owner before it creates a new one with the   *)
(* same name, by the garbage collector, or by a user.                      *)
Delete(b) ==
  /\ Exists(b)
  /\ count.deletions < MaxDeletions
  /\ count' = [count EXCEPT !.deletions = @ + 1]
  /\ api' = [api EXCEPT ![b] = Absent]
  /\ events' = events \cup {b}
  /\ UNCHANGED <<cache, queue, timers, runningBuilds, staleReads>>

(* The watch delivers what was written to b since the last delivery. *)
Observe(b) ==
  /\ cache[b] # api[b] \/ b \in events
  /\ cache' = [cache EXCEPT ![b] = api[b]]
  /\ events' = events \ {b}
  /\ queue' = IF b \in events THEN queue \cup {b} ELSE queue
  /\ UNCHANGED <<api, timers, runningBuilds, staleReads, count>>

(* A RequeueAfter, or the delay after an error, expires. *)
TimerFires(b) ==
  /\ b \in timers
  /\ timers' = timers \ {b}
  /\ queue' = queue \cup {b}
  /\ UNCHANGED <<api, cache, events, runningBuilds, staleReads, count>>

(* The operator stops and starts again: the informer lists every Build,    *)
(* and every Build it lists is reconciled.                                 *)
Restart ==
  /\ count.restarts < MaxRestarts
  /\ count' = [count EXCEPT !.restarts = @ + 1]
  /\ cache' = api
  /\ events' = {}
  /\ queue' = {b \in Builds : Exists(b)}
  /\ timers' = {}
  /\ runningBuilds' = {}
  /\ UNCHANGED <<api, staleReads>>
-----------------------------------------------------------------------------
(* Reconcile takes b from the queue and reads it from the cache, whose     *)
(* copy may be outdated.                                                   *)
Read(b) ==
  /\ b \in queue
  /\ staleReads' = IF cache[b] = api[b] THEN staleReads ELSE staleReads + 1
  /\ staleReads' <= MaxStaleReads

(* Reconcile of a Build that is gone, or that no action can handle, or     *)
(* that the error action handles by doing nothing.                         *)
ReconcileNothing(b) ==
  /\ Read(b)
  /\ cache[b].phase \in {"Absent", "Succeeded", "Interrupted", "Error"}
  /\ Done(b)
  /\ UNCHANGED <<api, cache, events, runningBuilds, count>>

(* What canSchedule sees of Build b when its status is s. *)
BuildView(b, s) ==
  [name |-> b, created |-> s.created, phase |-> s.phase, layout |-> Attributes[b].layout,
   deps |-> Attributes[b].deps, version |-> Attributes[b].version]

BuildList == {BuildView(b, api[b]) : b \in {c \in Builds : Exists(c)}}

Allowed(b) ==
  canSchedule(MaxRunningBuilds, OrderStrategy, Cardinality(runningBuilds),
              BuildList, BuildView(b, cache[b]))

(* scheduleAction.Handle, admitted: patch to Pending inside the handler,   *)
(* then count the build.  The handler's build is now Pending.              *)
Schedule(b, repoll) ==
  /\ Read(b)
  /\ cache[b].phase = "Scheduling"
  /\ Allowed(b)
  /\ LET target == [cache[b] EXCEPT !.phase = "Pending"]
     IN \/ /\ PatchStatus(b, cache[b], target)
           /\ runningBuilds' = runningBuilds \cup {b}
           /\ IF repoll THEN Requeue(b) ELSE Done(b)
        \/ PatchFails(b, cache[b], target) /\ Requeue(b) /\ UNCHANGED runningBuilds
        \/ PatchNotFound(b) /\ Done(b) /\ UNCHANGED runningBuilds

(* scheduleAction.Handle, not admitted: the Scheduled condition says why,  *)
(* and the Build comes again after 5 seconds.                              *)
ScheduleWait(b) ==
  /\ Read(b)
  /\ cache[b].phase = "Scheduling"
  /\ ~Allowed(b)
  /\ Update(b, cache[b], cache[b], FALSE)
  /\ UNCHANGED runningBuilds

(* errorRecoveryAction.Handle, one action per return: the first failure is *)
(* recorded, ...                                                           *)
RecordFailure(b) ==
  /\ Read(b)
  /\ cache[b].phase = "Failed" /\ cache[b].attempt = NoFailure
  /\ Update(b, cache[b], [cache[b] EXCEPT !.attempt = 0], FALSE)
  /\ UNCHANGED runningBuilds

(* ... the attempts are used up, ...                                       *)
GiveUp(b) ==
  /\ Read(b)
  /\ cache[b].phase = "Failed" /\ cache[b].attempt >= AttemptMax
  /\ Update(b, cache[b], [cache[b] EXCEPT !.phase = "Error"], FALSE)
  /\ UNCHANGED runningBuilds

(* Mutant of CanRetry: one attempt too many. *)
CanRetryOnceMore(b) ==
  cache[b].phase = "Failed" /\ cache[b].attempt # NoFailure /\ cache[b].attempt <= AttemptMax

CanRetry(b) ==
  cache[b].phase = "Failed" /\ cache[b].attempt # NoFailure /\ cache[b].attempt < AttemptMax

(* ... the backoff has not elapsed (the clock is free to say so), ...      *)
BackOff(b) ==
  /\ Read(b)
  /\ CanRetry(b)
  /\ Requeue(b)
  /\ UNCHANGED <<api, cache, events, runningBuilds, count>>

(* ... or it has, and the Build starts over.                               *)
Retry(b) ==
  /\ Read(b)
  /\ CanRetry(b)
  /\ Update(b, cache[b],
            [cache[b] EXCEPT !.phase = "Initialization", !.attempt = @ + 1], FALSE)
  /\ UNCHANGED runningBuilds

ErrorRecovery(b) == RecordFailure(b) \/ GiveUp(b) \/ BackOff(b) \/ Retry(b)

(* What both strategies do besides initializing and monitoring. *)
Environment(b) == Create(b) \/ Delete(b) \/ Observe(b) \/ TimerFires(b)
-----------------------------------------------------------------------------
CtrlTypeOK ==
  /\ api \in [Builds -> BuildObject]
  /\ cache \in [Builds -> BuildObject]
  /\ events \subseteq Builds
  /\ queue \subseteq Builds
  /\ timers \subseteq Builds
  /\ runningBuilds \subseteq Builds
  /\ staleReads \in 0..MaxStaleReads
  /\ count \in [creations : 0..MaxCreations, deletions : 0..MaxDeletions,
                failures : 0..MaxFailures, restarts : 0..MaxRestarts]

(***************************************************************************)
(* The invariant behind the retry budget: the cached copy of a Build may   *)
(* be behind by the one attempt its own Failed phase has led to, and by no *)
(* more, unless the Build it shows has been deleted since.                 *)
(***************************************************************************)
AttemptsInStep ==
  \A b \in Builds :
    \/ api[b].attempt = cache[b].attempt
    \/ api[b].attempt = cache[b].attempt + 1 /\ cache[b].phase = "Failed"
    \/ api[b].attempt = NoFailure

(* The refinement mapping: -2 is RetryBudget's Gone, NoFailure its Clean. *)
attemptOf == [b \in Builds |-> IF Exists(b) THEN api[b].attempt ELSE -2]

Budget == INSTANCE RetryBudget WITH attempt <- attemptOf

(***************************************************************************)
(* Every retry is counted once and none is given back, although Reconcile  *)
(* acts on outdated copies and repeats itself after errors and restarts.   *)
(***************************************************************************)
RetriesAreCounted == Budget!Spec

(***************************************************************************)
(* The Build as the kit and the Integration see it (BuildLife).            *)
(***************************************************************************)
LifePhase(b) ==
  IF api[b].phase \in {"None", "Initialization", "Scheduling", "Pending"}
  THEN "Waiting" ELSE api[b].phase
=============================================================================
