------------------------ MODULE BuildControllerProofs ------------------------
(***************************************************************************)
(* Lemmas about the actions that both build strategies share: they keep    *)
(* the type invariant, and they keep the cached attempts in step with the  *)
(* stored ones, spending the retry budget one attempt at a time.           *)
(***************************************************************************)
EXTENDS BuildController, TLAPS

(* The variables that Update and the patches leave to their caller. *)
PatchedTypeOK ==
  /\ api \in [Builds -> BuildObject]
  /\ cache \in [Builds -> BuildObject]
  /\ events \subseteq Builds
  /\ queue \subseteq Builds
  /\ timers \subseteq Builds
  /\ count \in [creations : 0..MaxCreations, deletions : 0..MaxDeletions,
                failures : 0..MaxFailures, restarts : 0..MaxRestarts]

(* A merge of three Builds is a Build. *)
LEMMA MergeType ==
  ASSUME NEW stored \in BuildObject, NEW base \in BuildObject, NEW target \in BuildObject
  PROVE  MergeFrom(stored, base, target) \in BuildObject
BY DEF MergeFrom, BuildObject, BuildPhases

(* A patch that succeeds keeps the Builds and the events well typed. *)
LEMMA PatchStatusType ==
  ASSUME CtrlTypeOK, NEW b \in Builds, NEW base \in BuildObject, NEW target \in BuildObject,
         PatchStatus(b, base, target)
  PROVE  /\ api' \in [Builds -> BuildObject]
         /\ events' \subseteq Builds
         /\ cache' = cache /\ count' = count
BY MergeType DEF PatchStatus, CtrlTypeOK

(* A patch that fails changes the failure count only. *)
LEMMA PatchFailsType ==
  ASSUME CtrlTypeOK, NEW b \in Builds, NEW base, NEW target,
         PatchFails(b, base, target)
  PROVE  /\ api' = api /\ events' = events /\ cache' = cache
         /\ count' \in [creations : 0..MaxCreations, deletions : 0..MaxDeletions,
                        failures : 0..MaxFailures, restarts : 0..MaxRestarts]
BY BoundsAssumption DEF PatchFails, CtrlTypeOK

(* Update keeps everything it writes well typed. *)
LEMMA UpdateType ==
  ASSUME CtrlTypeOK, NEW b \in Builds, NEW base \in BuildObject, NEW target \in BuildObject,
         NEW repoll, Update(b, base, target, repoll)
  PROVE  PatchedTypeOK'
<1>1. CASE PatchStatus(b, base, target) /\ (Requeue(b) \/ Done(b))
  BY <1>1, PatchStatusType DEF PatchedTypeOK, CtrlTypeOK, Requeue, Done
<1>2. CASE PatchFails(b, base, target) /\ Requeue(b)
  BY <1>2, PatchFailsType DEF PatchedTypeOK, CtrlTypeOK, Requeue
<1>3. CASE PatchNotFound(b) /\ Done(b)
  BY <1>3 DEF PatchedTypeOK, CtrlTypeOK, PatchNotFound, Done
<1>4. QED BY <1>1, <1>2, <1>3 DEF Update

(* The bound on stale reads is kept by the guard of Read. *)
LEMMA ReadType ==
  ASSUME CtrlTypeOK, NEW b \in Builds, Read(b)
  PROVE  staleReads' \in 0..MaxStaleReads
BY BoundsAssumption DEF Read, CtrlTypeOK

(* Everything a strategy does not add keeps the type invariant. *)
LEMMA InitType == Init => CtrlTypeOK
BY BoundsAssumption
   DEF Init, CtrlTypeOK, Absent, BuildObject, BuildPhases, NoFailure

(* So do the API server, the watch and the timers. *)
LEMMA EnvironmentType ==
  ASSUME CtrlTypeOK, NEW b \in Builds, Environment(b)
  PROVE  CtrlTypeOK'
<1>1. CASE Create(b)
  <2>1. count'.creations \in 0..MaxCreations
    BY <1>1, BoundsAssumption DEF Create, CtrlTypeOK
  <2>2. Created(count'.creations) \in BuildObject
    BY <2>1, BoundsAssumption DEF Created, BuildObject, BuildPhases, NoFailure
  <2>3. QED BY <1>1, <2>2, BoundsAssumption DEF Create, CtrlTypeOK
<1>2. CASE Delete(b)
  <2>1. Absent \in BuildObject
    BY BoundsAssumption DEF Absent, BuildObject, BuildPhases, NoFailure
  <2>2. QED BY <1>2, <2>1, BoundsAssumption DEF Delete, CtrlTypeOK
<1>3. CASE Observe(b)
  BY <1>3 DEF Observe, CtrlTypeOK
<1>4. CASE TimerFires(b)
  BY <1>4 DEF TimerFires, CtrlTypeOK
<1>5. QED BY <1>1, <1>2, <1>3, <1>4 DEF Environment

(* So does a restart of the operator. *)
LEMMA RestartType ==
  ASSUME CtrlTypeOK, Restart
  PROVE  CtrlTypeOK'
BY BoundsAssumption DEF Restart, CtrlTypeOK

(* A handler that ends in Update, reads its Build from the cache and       *)
(* touches runningBuilds within its type.                                  *)
LEMMA HandlerType ==
  ASSUME CtrlTypeOK, NEW b \in Builds, NEW target \in BuildObject, NEW repoll,
         Read(b), Update(b, cache[b], target, repoll), runningBuilds' \subseteq Builds
  PROVE  CtrlTypeOK'
<1>1. cache[b] \in BuildObject
  BY DEF CtrlTypeOK
<1>2. PatchedTypeOK'
  BY <1>1, UpdateType
<1>3. staleReads' \in 0..MaxStaleReads
  BY ReadType
<1>4. QED BY <1>2, <1>3 DEF PatchedTypeOK, CtrlTypeOK

(* The shared handlers keep the type invariant; error recovery retries only *)
(* below AttemptMax.                                                       *)
LEMMA SharedType ==
  ASSUME CtrlTypeOK, NEW b \in Builds,
         ScheduleWait(b) \/ ErrorRecovery(b) \/ ReconcileNothing(b)
  PROVE  CtrlTypeOK'
<1>0. cache[b] \in BuildObject /\ runningBuilds \subseteq Builds
  BY DEF CtrlTypeOK
<1>1. CASE ScheduleWait(b)
  BY <1>0, <1>1, HandlerType DEF ScheduleWait
<1>2. CASE ReconcileNothing(b)
  BY <1>2, ReadType DEF ReconcileNothing, CtrlTypeOK, Done
<1>3. CASE BackOff(b)
  BY <1>3, ReadType DEF BackOff, CtrlTypeOK, Requeue
<1>4. CASE RecordFailure(b)
  <2>1. [cache[b] EXCEPT !.attempt = 0] \in BuildObject
    BY <1>0, BoundsAssumption DEF BuildObject, NoFailure
  <2>2. QED BY <1>0, <1>4, <2>1, HandlerType DEF RecordFailure
<1>5. CASE GiveUp(b)
  <2>1. [cache[b] EXCEPT !.phase = "Error"] \in BuildObject
    BY <1>0 DEF BuildObject, BuildPhases
  <2>2. QED BY <1>0, <1>5, <2>1, HandlerType DEF GiveUp
<1>6. CASE Retry(b)
  <2>1. cache[b].attempt + 1 \in NoFailure..AttemptMax
    BY <1>0, <1>6, BoundsAssumption DEF Retry, CanRetry, BuildObject, NoFailure
  <2>2. [cache[b] EXCEPT !.phase = "Initialization", !.attempt = @ + 1] \in BuildObject
    BY <1>0, <2>1 DEF BuildObject, BuildPhases
  <2>3. QED BY <1>0, <1>6, <2>2, HandlerType DEF Retry
<1>7. QED BY <1>1, <1>2, <1>3, <1>4, <1>5, <1>6 DEF ErrorRecovery

(* So does the schedule action, in its three outcomes. *)
LEMMA ScheduleType ==
  ASSUME CtrlTypeOK, NEW b \in Builds, NEW repoll, Schedule(b, repoll)
  PROVE  CtrlTypeOK'
<1> DEFINE target == [cache[b] EXCEPT !.phase = "Pending"]
<1>0. cache[b] \in BuildObject /\ target \in BuildObject
  BY DEF CtrlTypeOK, BuildObject, BuildPhases
<1>1. staleReads' \in 0..MaxStaleReads
  BY ReadType DEF Schedule
<1> HIDE DEF target
<1>2. CASE PatchStatus(b, cache[b], target) /\ runningBuilds' = runningBuilds \cup {b}
           /\ (Requeue(b) \/ Done(b))
  BY <1>0, <1>1, <1>2, PatchStatusType DEF CtrlTypeOK, Requeue, Done
<1>3. CASE PatchFails(b, cache[b], target) /\ Requeue(b) /\ UNCHANGED runningBuilds
  BY <1>0, <1>1, <1>3, PatchFailsType DEF CtrlTypeOK, Requeue
<1>4. CASE PatchNotFound(b) /\ Done(b) /\ UNCHANGED runningBuilds
  BY <1>1, <1>4 DEF CtrlTypeOK, PatchNotFound, Done
<1>5. QED BY <1>2, <1>3, <1>4 DEF Schedule, target
-----------------------------------------------------------------------------
(***************************************************************************)
(* The retry budget.  InStep is what every action has to establish: the    *)
(* cached attempts stay in step and the step is one of RetryBudget.        *)
(***************************************************************************)
InStep == AttemptsInStep' /\ [Budget!Next]_attemptOf

(* An action that changes neither which Builds exist nor their attempts,   *)
(* and lets the cache be, is a stuttering step of the budget.              *)
LEMMA SameAttempts ==
  ASSUME CtrlTypeOK, AttemptsInStep, cache' = cache,
         \A c \in Builds : api'[c].attempt = api[c].attempt /\ Exists(c)' = Exists(c)
  PROVE  InStep
<1>1. AttemptsInStep'
  BY DEF AttemptsInStep
<1>2. attemptOf' = attemptOf
  BY DEF attemptOf
<1>3. QED BY <1>1, <1>2 DEF InStep

(* A patch that does not touch the attempt, from any base. *)
LEMMA PatchKeepsAttempt ==
  ASSUME CtrlTypeOK, AttemptsInStep, NEW b \in Builds,
         NEW base \in BuildObject, NEW target \in BuildObject,
         target.attempt = base.attempt, target.phase # "Absent",
         PatchStatus(b, base, target)
  PROVE  InStep
<1>1. \A c \in Builds : api'[c].attempt = api[c].attempt /\ Exists(c)' = Exists(c)
  BY DEF PatchStatus, MergeFrom, Exists, CtrlTypeOK, BuildObject
<1>2. QED BY <1>1, SameAttempts DEF PatchStatus

(* A patch that counts an attempt, from a cached Build that has failed.    *)
(* If the stored Build is already ahead the patch repeats what is there.   *)
LEMMA PatchCountsAttempt ==
  ASSUME CtrlTypeOK, AttemptsInStep, NEW b \in Builds, NEW target \in BuildObject,
         cache[b].phase = "Failed", target.attempt = cache[b].attempt + 1,
         target.phase # "Absent", PatchStatus(b, cache[b], target)
  PROVE  InStep
<1>1. /\ api[b] \in BuildObject /\ cache[b] \in BuildObject /\ Exists(b)
      /\ api[b].attempt \in NoFailure..AttemptMax /\ cache[b].attempt \in NoFailure..AttemptMax
      /\ target.attempt \in NoFailure..AttemptMax
  BY DEF CtrlTypeOK, PatchStatus, BuildObject
<1>2. /\ api'[b].attempt = cache[b].attempt + 1
      /\ Exists(b)'
      /\ \A c \in Builds \ {b} : api'[c] = api[c]
      /\ cache' = cache
  BY <1>1 DEF PatchStatus, MergeFrom, Exists, CtrlTypeOK, BuildObject, NoFailure
<1>3. AttemptsInStep'
  BY <1>2 DEF AttemptsInStep
<1>4. api[b].attempt \in {cache[b].attempt, cache[b].attempt + 1}
  BY <1>1 DEF AttemptsInStep, PatchStatus, Valid, NoFailure
<1>5. CASE api[b].attempt = cache[b].attempt + 1
  <2>1. attemptOf' = attemptOf
    BY <1>1, <1>2, <1>5 DEF attemptOf, Exists
  <2>2. QED BY <1>3, <2>1 DEF InStep
<1>6. CASE api[b].attempt = cache[b].attempt
  <2>1. /\ attemptOf[b] = cache[b].attempt
        /\ attemptOf' = [attemptOf EXCEPT ![b] = @ + 1]
    BY <1>1, <1>2, <1>6 DEF attemptOf, Exists
  <2>2. attemptOf[b] \in Budget!Clean..(AttemptMax - 1)
    BY <1>1, <2>1, BoundsAssumption DEF Budget!Clean, NoFailure
  <2>3. Budget!Spend(b)
    BY <2>1, <2>2 DEF Budget!Spend
  <2>4. QED BY <1>3, <2>3 DEF InStep, Budget!Next
<1>7. QED BY <1>4, <1>5, <1>6

(* Update, whose patch keeps the attempt or counts one after a failure. *)
LEMMA UpdateInStep ==
  ASSUME CtrlTypeOK, AttemptsInStep, NEW b \in Builds, NEW target \in BuildObject, NEW repoll,
         target.phase # "Absent",
         \/ target.attempt = cache[b].attempt
         \/ cache[b].phase = "Failed" /\ target.attempt = cache[b].attempt + 1,
         Update(b, cache[b], target, repoll)
  PROVE  InStep
<1>0. cache[b] \in BuildObject
  BY DEF CtrlTypeOK
<1>1. CASE PatchStatus(b, cache[b], target)
  BY <1>0, <1>1, PatchKeepsAttempt, PatchCountsAttempt
<1>2. CASE PatchFails(b, cache[b], target) \/ PatchNotFound(b)
  BY <1>2, SameAttempts DEF PatchFails, PatchNotFound, Exists
<1>3. QED BY <1>1, <1>2 DEF Update

(* A created Build has a fresh budget, a deleted one has none, and what the *)
(* watch delivers brings the cache in step.                                *)
LEMMA EnvironmentInStep ==
  ASSUME CtrlTypeOK, AttemptsInStep, NEW b \in Builds, Environment(b)
  PROVE  InStep
<1>1. CASE Create(b)
  <2>1. AttemptsInStep'
    BY <1>1 DEF Create, Created, AttemptsInStep, CtrlTypeOK
  <2>2. Budget!Appear(b)
    <3>1. /\ ~Exists(b) /\ api'[b].phase = "None" /\ api'[b].attempt = -1
          /\ \A c \in Builds \ {b} : api'[c] = api[c]
      BY <1>1 DEF Create, Created, CtrlTypeOK, NoFailure
    <3>2. attemptOf[b] = -2 /\ attemptOf' = [attemptOf EXCEPT ![b] = -1]
      BY <3>1 DEF attemptOf, Exists, NoFailure
    <3>3. QED BY <3>2 DEF Budget!Appear, Budget!Gone, Budget!Clean
  <2>3. QED BY <2>1, <2>2 DEF InStep, Budget!Next
<1>2. CASE Delete(b)
  <2>1. AttemptsInStep'
    BY <1>2 DEF Delete, Absent, AttemptsInStep, CtrlTypeOK
  <2>2. Budget!Vanish(b)
    <3>1. /\ Exists(b) /\ api[b].attempt \in NoFailure..AttemptMax
          /\ api'[b].phase = "Absent"
          /\ \A c \in Builds \ {b} : api'[c] = api[c]
      BY <1>2 DEF Delete, Absent, CtrlTypeOK, BuildObject
    <3>2. api[b].attempt # -2
      BY <3>1, BoundsAssumption DEF NoFailure
    <3>3. attemptOf[b] # -2
      BY <3>1, <3>2 DEF attemptOf, Exists
    <3>4. attemptOf' = [attemptOf EXCEPT ![b] = -2]
      BY <3>1 DEF attemptOf, Exists
    <3>5. QED BY <3>3, <3>4 DEF Budget!Vanish, Budget!Gone
  <2>3. QED BY <2>1, <2>2 DEF InStep, Budget!Next
<1>3. CASE Observe(b)
  <2>1. AttemptsInStep'
    BY <1>3 DEF Observe, AttemptsInStep, CtrlTypeOK
  <2>2. QED BY <1>3, <2>1 DEF Observe, InStep, attemptOf, Exists
<1>4. CASE TimerFires(b)
  BY <1>4, SameAttempts DEF TimerFires, Exists
<1>5. QED BY <1>1, <1>2, <1>3, <1>4 DEF Environment

(* A restart reads every Build anew and writes none. *)
LEMMA RestartInStep ==
  ASSUME CtrlTypeOK, AttemptsInStep, Restart
  PROVE  InStep
BY DEF Restart, InStep, AttemptsInStep, CtrlTypeOK, attemptOf, Exists

(* The shared handlers count an attempt after a failure only. *)
LEMMA SharedInStep ==
  ASSUME CtrlTypeOK, AttemptsInStep, NEW b \in Builds,
         ScheduleWait(b) \/ ErrorRecovery(b) \/ ReconcileNothing(b)
  PROVE  InStep
<1>0. cache[b] \in BuildObject /\ cache[b].attempt \in NoFailure..AttemptMax
  BY DEF CtrlTypeOK, BuildObject
<1>1. CASE ScheduleWait(b)
  BY <1>0, <1>1, UpdateInStep DEF ScheduleWait
<1>2. CASE ReconcileNothing(b) \/ BackOff(b)
  BY <1>2, SameAttempts DEF ReconcileNothing, BackOff, Exists
<1>3. CASE RecordFailure(b)
  <2> DEFINE target == [cache[b] EXCEPT !.attempt = 0]
  <2>1. /\ target \in BuildObject /\ target.phase # "Absent"
        /\ cache[b].phase = "Failed" /\ target.attempt = cache[b].attempt + 1
    BY <1>0, <1>3, BoundsAssumption DEF RecordFailure, BuildObject, NoFailure
  <2>2. Update(b, cache[b], target, FALSE)
    BY <1>3 DEF RecordFailure
  <2> HIDE DEF target
  <2>3. QED BY <2>1, <2>2, UpdateInStep
<1>4. CASE GiveUp(b)
  <2> DEFINE target == [cache[b] EXCEPT !.phase = "Error"]
  <2>1. target \in BuildObject /\ target.phase # "Absent" /\ target.attempt = cache[b].attempt
    BY <1>0 DEF BuildObject, BuildPhases
  <2>2. Update(b, cache[b], target, FALSE)
    BY <1>4 DEF GiveUp
  <2> HIDE DEF target
  <2>3. QED BY <2>1, <2>2, UpdateInStep
<1>5. CASE Retry(b)
  <2> DEFINE target == [cache[b] EXCEPT !.phase = "Initialization", !.attempt = @ + 1]
  <2>1. cache[b].attempt + 1 \in NoFailure..AttemptMax
    BY <1>0, <1>5, BoundsAssumption DEF Retry, CanRetry, NoFailure
  <2>2. /\ target \in BuildObject /\ target.phase # "Absent"
        /\ target.attempt = cache[b].attempt + 1
    BY <1>0, <2>1 DEF BuildObject, BuildPhases
  <2>3. cache[b].phase = "Failed" /\ Update(b, cache[b], target, FALSE)
    BY <1>5 DEF Retry, CanRetry
  <2> HIDE DEF target
  <2>4. QED BY <2>2, <2>3, UpdateInStep
<1>6. QED BY <1>1, <1>2, <1>3, <1>4, <1>5 DEF ErrorRecovery

(* The schedule action leaves the attempts alone. *)
LEMMA ScheduleInStep ==
  ASSUME CtrlTypeOK, AttemptsInStep, NEW b \in Builds, NEW repoll, Schedule(b, repoll)
  PROVE  InStep
<1> DEFINE target == [cache[b] EXCEPT !.phase = "Pending"]
<1>0. /\ cache[b] \in BuildObject /\ target \in BuildObject
      /\ target.phase # "Absent" /\ target.attempt = cache[b].attempt
  BY DEF CtrlTypeOK, BuildObject, BuildPhases
<1> HIDE DEF target
<1>1. CASE PatchStatus(b, cache[b], target)
  BY <1>0, <1>1, PatchKeepsAttempt
<1>2. CASE PatchFails(b, cache[b], target) \/ PatchNotFound(b)
  BY <1>2, SameAttempts DEF PatchFails, PatchNotFound, Exists
<1>3. QED BY <1>1, <1>2 DEF Schedule, target
-----------------------------------------------------------------------------
(***************************************************************************)
(* The life of a Build (BuildLife).  Orderly is what every action has to   *)
(* establish: each Build goes on in order, or has slipped because of an    *)
(* outdated copy, now or before, and then it exists as much as it did.     *)
(***************************************************************************)
Preparing == {"None", "Initialization", "Scheduling", "Pending"}

Ordered(p, q) ==
  \/ p = q
  \/ p \in Preparing /\ q \in BuildPhases
  \/ p = "Running" /\ q \in {"Failed", "Succeeded", "Error", "Interrupted"}
  \/ p = "Failed" /\ q \in Preparing \cup {"Error"}

InOrder(b) ==
  \/ Ordered(api[b].phase, api'[b].phase)
  \/ ~Exists(b) /\ api'[b].phase = "None"
  \/ Exists(b) /\ api'[b].phase = "Absent"

Slipped(b) ==
  /\ staleReads' > 0
  /\ api'[b].phase = "Absent" <=> api[b].phase = "Absent"

Orderly ==
  /\ staleReads > 0 => staleReads' > 0
  /\ \A b \in Builds : InOrder(b) \/ Slipped(b)

(* A step that reads no Build and writes none. *)
LEMMA NothingWritten ==
  ASSUME api' = api, staleReads' = staleReads PROVE Orderly
BY DEF Orderly, InOrder, Ordered

(* A reading leaves the count of outdated ones as it is, or raises it. *)
LEMMA ReadCounts ==
  ASSUME CtrlTypeOK, NEW b \in Builds, Read(b)
  PROVE  /\ staleReads > 0 => staleReads' > 0
         /\ cache[b] = api[b] \/ staleReads' > 0
BY BoundsAssumption DEF Read, CtrlTypeOK

(* A handler that only reads. *)
LEMMA ReadOrderly ==
  ASSUME CtrlTypeOK, NEW b \in Builds, Read(b), api' = api
  PROVE  Orderly
BY ReadCounts DEF Orderly, InOrder, Ordered

(* A handler that moves on from what it has read in order. *)
LEMMA PatchOrderly ==
  ASSUME CtrlTypeOK, NEW b \in Builds, NEW target, Read(b),
         target.phase \in BuildPhases, Ordered(cache[b].phase, target.phase),
         PatchStatus(b, cache[b], target) \/ PatchFails(b, cache[b], target) \/ PatchNotFound(b)
  PROVE  Orderly
<1>1. CASE PatchStatus(b, cache[b], target)
  <2>1. /\ api'[b].phase = IF target.phase = cache[b].phase THEN api[b].phase ELSE target.phase
        /\ api[b].phase # "Absent"
        /\ \A c \in Builds \ {b} : api'[c] = api[c]
    BY <1>1 DEF PatchStatus, MergeFrom, Exists, CtrlTypeOK, BuildObject
  <2>2. api'[b].phase # "Absent"
    BY <2>1 DEF BuildPhases
  <2>3. CASE cache[b] = api[b]
    <3>1. InOrder(b)
      BY <2>1, <2>3 DEF InOrder, Ordered
    <3>2. QED BY <2>1, <3>1, ReadCounts DEF Orderly, InOrder, Ordered
  <2>4. CASE staleReads' > 0
    BY <2>1, <2>2, <2>4 DEF Orderly, InOrder, Ordered, Slipped
  <2>5. QED BY <2>3, <2>4, ReadCounts
<1>2. CASE PatchFails(b, cache[b], target) \/ PatchNotFound(b)
  BY <1>2, ReadOrderly DEF PatchFails, PatchNotFound
<1>3. QED BY <1>1, <1>2

(* The same with the patch of Update, for a target that has another phase. *)
LEMMA UpdateOrderly ==
  ASSUME CtrlTypeOK, NEW b \in Builds, NEW phase \in BuildPhases, NEW repoll, Read(b),
         Ordered(cache[b].phase, phase),
         Update(b, cache[b], [cache[b] EXCEPT !.phase = phase], repoll)
  PROVE  Orderly
<1> DEFINE target == [cache[b] EXCEPT !.phase = phase]
<1>1. target.phase = phase
  BY DEF CtrlTypeOK, BuildObject
<1>2. PatchStatus(b, cache[b], target) \/ PatchFails(b, cache[b], target) \/ PatchNotFound(b)
  BY DEF Update
<1> HIDE DEF target
<1>3. QED BY <1>1, <1>2, PatchOrderly

(* The same for a target that has the phase that was read. *)
LEMMA SamePhaseOrderly ==
  ASSUME CtrlTypeOK, NEW b \in Builds, NEW target, NEW repoll, Read(b),
         cache[b].phase # "Absent", target.phase = cache[b].phase,
         Update(b, cache[b], target, repoll)
  PROVE  Orderly
<1>1. target.phase \in BuildPhases
  BY DEF CtrlTypeOK, BuildObject
<1>2. PatchStatus(b, cache[b], target) \/ PatchFails(b, cache[b], target) \/ PatchNotFound(b)
  BY DEF Update
<1>3. QED BY <1>1, <1>2, PatchOrderly DEF Ordered

(* Builds appear and vanish in order. *)
LEMMA EnvironmentOrderly ==
  ASSUME CtrlTypeOK, NEW b \in Builds, Environment(b)
  PROVE  Orderly
<1>1. CASE Create(b)
  <2>1. /\ ~Exists(b) /\ api'[b].phase = "None" /\ staleReads' = staleReads
        /\ \A c \in Builds \ {b} : api'[c] = api[c]
    BY <1>1 DEF Create, Created, CtrlTypeOK
  <2>2. QED BY <2>1 DEF Orderly, InOrder, Ordered
<1>2. CASE Delete(b)
  <2>1. /\ Exists(b) /\ api'[b].phase = "Absent" /\ staleReads' = staleReads
        /\ \A c \in Builds \ {b} : api'[c] = api[c]
    BY <1>2 DEF Delete, Absent, CtrlTypeOK
  <2>2. QED BY <2>1 DEF Orderly, InOrder, Ordered
<1>3. CASE Observe(b) \/ TimerFires(b)
  BY <1>3, NothingWritten DEF Observe, TimerFires
<1>4. QED BY <1>1, <1>2, <1>3 DEF Environment

(* The shared handlers move on from what they have read in order. *)
LEMMA SharedOrderly ==
  ASSUME CtrlTypeOK, NEW b \in Builds,
         ScheduleWait(b) \/ ErrorRecovery(b) \/ ReconcileNothing(b)
  PROVE  Orderly
<1>0. cache[b] \in BuildObject /\ {"Initialization", "Error"} \subseteq BuildPhases
  BY DEF CtrlTypeOK, BuildPhases
<1>1. CASE ReconcileNothing(b) \/ BackOff(b)
  BY <1>1, ReadOrderly DEF ReconcileNothing, BackOff
<1>2. CASE ScheduleWait(b)
  BY <1>2, SamePhaseOrderly DEF ScheduleWait
<1>3. CASE RecordFailure(b)
  <2>1. [cache[b] EXCEPT !.attempt = 0].phase = cache[b].phase
    BY <1>0 DEF BuildObject
  <2>2. QED BY <1>3, <2>1, SamePhaseOrderly DEF RecordFailure
<1>4. CASE GiveUp(b)
  <2>1. Ordered(cache[b].phase, "Error")
    BY <1>4 DEF GiveUp, Ordered
  <2>2. QED BY <1>0, <1>4, <2>1, UpdateOrderly DEF GiveUp
<1>5. CASE Retry(b)
  <2> DEFINE target == [cache[b] EXCEPT !.phase = "Initialization", !.attempt = @ + 1]
  <2>1. target.phase = "Initialization"
    BY <1>0 DEF BuildObject
  <2>2. PatchStatus(b, cache[b], target) \/ PatchFails(b, cache[b], target) \/ PatchNotFound(b)
    BY <1>5 DEF Retry, Update
  <2>3. Read(b) /\ Ordered(cache[b].phase, "Initialization")
    BY <1>5 DEF Retry, CanRetry, Ordered, Preparing
  <2> HIDE DEF target
  <2>4. QED BY <1>0, <2>1, <2>2, <2>3, PatchOrderly
<1>6. QED BY <1>1, <1>2, <1>3, <1>4, <1>5 DEF ErrorRecovery

(* So does the schedule action. *)
LEMMA ScheduleOrderly ==
  ASSUME CtrlTypeOK, NEW b \in Builds, NEW repoll, Schedule(b, repoll)
  PROVE  Orderly
<1> DEFINE target == [cache[b] EXCEPT !.phase = "Pending"]
<1>1. target.phase = "Pending" /\ "Pending" \in BuildPhases
  BY DEF CtrlTypeOK, BuildObject, BuildPhases
<1>2. PatchStatus(b, cache[b], target) \/ PatchFails(b, cache[b], target) \/ PatchNotFound(b)
  BY DEF Schedule
<1>3. Read(b) /\ Ordered(cache[b].phase, "Pending")
  BY <1>1 DEF Schedule, Ordered, Preparing
<1> HIDE DEF target
<1>4. QED BY <1>1, <1>2, <1>3, PatchOrderly
=============================================================================
