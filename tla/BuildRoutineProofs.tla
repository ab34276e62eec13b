------------------------- MODULE BuildRoutineProofs -------------------------
(***************************************************************************)
(* Theorems about BuildRoutine, for every set of Builds, every limit and   *)
(* every bound.                                                            *)
(***************************************************************************)
EXTENDS BuildRoutine, BuildControllerProofs, FiniteSetTheorems

(* What the type invariant says of the variables of this strategy. *)
RoutineTypeOK ==
  /\ routines \subseteq Builds
  /\ gos \in [RoutineIds -> Goroutine \cup {Free}]
  /\ worker \in Builds \cup {Idle}
  /\ voided \in BOOLEAN

(* A started goroutine is one, and a goroutine at work is not free. *)
LEMMA GoroutineTypes ==
  /\ \A b \in Builds : Started(b) \in Goroutine
  /\ TypeOK => \A r \in RoutineIds : gos[r].pc # "free" => gos[r] \in Goroutine
BY DEF Free, Started, Goroutine, BuildPhases, TypeOK

(* Finish keeps the goroutines and runningBuilds well typed. *)
LEMMA FinishType ==
  ASSUME TypeOK, NEW r \in RoutineIds, NEW result \in {"Succeeded", "Failed", "Error"},
         gos[r].pc # "free", Finish(r, result)
  PROVE  gos' \in [RoutineIds -> Goroutine \cup {Free}] /\ runningBuilds' \subseteq Builds
<1>1. gos[r] \in Goroutine
  BY GoroutineTypes
<1>2. [gos[r] EXCEPT !.pc = "update", !.result = result] \in Goroutine
  BY <1>1 DEF Goroutine
<1>3. gos' = [gos EXCEPT ![r] = [gos[r] EXCEPT !.pc = "update", !.result = result]]
  BY <1>1 DEF Finish, TypeOK
<1>4. QED BY <1>2, <1>3 DEF Finish, TypeOK, CtrlTypeOK

(* One step of the worker keeps the type invariant. *)
LEMMA ReconcileType ==
  ASSUME TypeOK, NEW b \in Builds, Reconcile(b)
  PROVE  TypeOK'
<1>0. /\ CtrlTypeOK /\ RoutineTypeOK /\ cache[b] \in BuildObject
      /\ runningBuilds \subseteq Builds
  BY DEF TypeOK, CtrlTypeOK, RoutineTypeOK
<1>1. CASE Initialize(b)
  <2>1. [cache[b] EXCEPT !.phase = "Scheduling"] \in BuildObject
    BY <1>0 DEF BuildObject, BuildPhases
  <2>2. CtrlTypeOK'
    BY <1>0, <1>1, <2>1, HandlerType DEF Initialize
  <2>3. QED BY <1>0, <1>1, <2>2 DEF Initialize, TypeOK, RoutineTypeOK
<1>2. CASE ScheduleRoutine(b)
  <2>1. CtrlTypeOK'
    BY <1>0, <1>2, ScheduleType DEF ScheduleRoutine
  <2>2. RoutineTypeOK'
    BY <1>0, <1>2 DEF ScheduleRoutine, RoutineTypeOK
  <2>3. QED BY <2>1, <2>2 DEF TypeOK, RoutineTypeOK
<1>3. CASE StartRoutine(b)
  <2> DEFINE target == [cache[b] EXCEPT !.phase = "Running"]
  <2>1. target \in BuildObject
    BY <1>0 DEF BuildObject, BuildPhases
  <2>2. staleReads' \in 0..MaxStaleReads
    BY <1>0, <1>3, ReadType DEF StartRoutine
  <2> HIDE DEF target
  <2>3. CASE /\ PatchStatus(b, cache[b], target)
             /\ \E r \in RoutineIds : gos' = [gos EXCEPT ![r] = Started(b)]
             /\ routines' = routines \cup {b} /\ worker' = b
             /\ voided' = (voided \/ api[b].phase # "Pending")
             /\ Done(b) /\ UNCHANGED runningBuilds
    <3>1. CtrlTypeOK'
      BY <1>0, <2>1, <2>2, <2>3, PatchStatusType DEF CtrlTypeOK, Done
    <3>2. RoutineTypeOK'
      BY <1>0, <2>3, GoroutineTypes DEF RoutineTypeOK
    <3>3. QED BY <3>1, <3>2 DEF TypeOK, RoutineTypeOK
  <2>4. CASE /\ PatchFails(b, cache[b], target) /\ Requeue(b)
             /\ UNCHANGED <<routines, gos, worker, voided, runningBuilds>>
    BY <1>0, <2>2, <2>4, PatchFailsType DEF TypeOK, CtrlTypeOK, RoutineTypeOK, Requeue
  <2>5. CASE /\ PatchNotFound(b) /\ Done(b)
             /\ UNCHANGED <<routines, gos, worker, voided, runningBuilds>>
    BY <1>0, <2>2, <2>5 DEF TypeOK, CtrlTypeOK, RoutineTypeOK, PatchNotFound, Done
  <2>6. QED BY <1>3, <2>3, <2>4, <2>5 DEF StartRoutine, target
<1>4. CASE RoutinePanics(b)
  <2>1. api' \in [Builds -> BuildObject]
    BY <1>0, <1>4 DEF RoutinePanics, CtrlTypeOK, BuildObject, BuildPhases
  <2>2. staleReads' \in 0..MaxStaleReads
    BY <1>0, <1>4, ReadType DEF RoutinePanics
  <2>3. QED BY <1>0, <1>4, <2>1, <2>2, GoroutineTypes
            DEF RoutinePanics, TypeOK, CtrlTypeOK, RoutineTypeOK
<1>5. CASE RoutineExists(b) \/ RoutineMissing(b)
  <2>1. [cache[b] EXCEPT !.phase = "Failed"] \in BuildObject
    BY <1>0 DEF BuildObject, BuildPhases
  <2>2. CtrlTypeOK'
    BY <1>0, <1>5, <2>1, HandlerType DEF RoutineExists, RoutineMissing
  <2>3. RoutineTypeOK'
    BY <1>0, <1>5 DEF RoutineExists, RoutineMissing, RoutineTypeOK
  <2>4. QED BY <2>2, <2>3 DEF TypeOK, RoutineTypeOK
<1>6. CASE StillRunning(b)
  BY <1>0, <1>6, ReadType DEF StillRunning, TypeOK, CtrlTypeOK, RoutineTypeOK, Done
<1>7. CASE Shared(b)
  <2>1. CtrlTypeOK'
    BY <1>0, <1>7, SharedType DEF Shared
  <2>2. QED BY <1>0, <1>7, <2>1 DEF Shared, TypeOK, RoutineTypeOK
<1>8. QED BY <1>1, <1>2, <1>3, <1>4, <1>5, <1>6, <1>7 DEF Reconcile

(* One step of a goroutine keeps the type invariant. *)
LEMMA RunBuildType ==
  ASSUME TypeOK, NEW r \in RoutineIds, RunBuild(r)
  PROVE  TypeOK'
<1>0. gos[r].pc # "free" => gos[r] \in Goroutine /\ gos[r].build \in Builds
  BY GoroutineTypes DEF Goroutine
<1>1. CASE NextTask(r)
  <2> DEFINE view == api[gos[r].build].phase
  <2>1. gos[r] \in Goroutine /\ view \in BuildPhases
    BY <1>0, <1>1 DEF NextTask, Exists, Goroutine, TypeOK, CtrlTypeOK, BuildObject
  <2>2. [gos[r] EXCEPT !.view = view] \in Goroutine
    BY <2>1 DEF Goroutine
  <2>3. QED BY <1>1, <2>2 DEF NextTask, TypeOK, CtrlTypeOK, ctrlVars
<1>2. CASE TaskUpdateFails(r)
  <2>1. count' \in [creations : 0..MaxCreations, deletions : 0..MaxDeletions,
                    failures : 0..MaxFailures, restarts : 0..MaxRestarts]
    BY <1>2, BoundsAssumption DEF TaskUpdateFails, TypeOK, CtrlTypeOK
  <2>2. gos' \in [RoutineIds -> Goroutine \cup {Free}] /\ runningBuilds' \subseteq Builds
    BY <1>2, FinishType DEF TaskUpdateFails
  <2>3. QED BY <1>2, <2>1, <2>2 DEF TaskUpdateFails, TypeOK, CtrlTypeOK
<1>3. CASE LastTaskDone(r)
  <2>1. gos' \in [RoutineIds -> Goroutine \cup {Free}] /\ runningBuilds' \subseteq Builds
    BY <1>3, FinishType DEF LastTaskDone
  <2>2. QED BY <1>3, <2>1 DEF LastTaskDone, TypeOK, CtrlTypeOK
<1>4. CASE WriteResult(r)
  <2> DEFINE b == gos[r].build
             base == [api[b] EXCEPT !.phase = gos[r].view]
             target == [api[b] EXCEPT !.phase = gos[r].result]
  <2>1. gos[r] \in Goroutine /\ b \in Builds /\ api[b] \in BuildObject
    BY <1>0, <1>4 DEF WriteResult, TypeOK, CtrlTypeOK
  <2>2. base \in BuildObject /\ target \in BuildObject
    BY <2>1 DEF BuildObject, Goroutine, BuildPhases
  <2>3. [gos[r] EXCEPT !.pc = "exit"] \in Goroutine
    BY <2>1 DEF Goroutine
  <2>4. gos' \in [RoutineIds -> Goroutine \cup {Free}]
    BY <1>4, <2>3 DEF WriteResult, TypeOK
  <2> HIDE DEF b, base, target
  <2>5. /\ api' \in [Builds -> BuildObject] /\ events' \subseteq Builds
        /\ cache' \in [Builds -> BuildObject]
        /\ count' \in [creations : 0..MaxCreations, deletions : 0..MaxDeletions,
                        failures : 0..MaxFailures, restarts : 0..MaxRestarts]
    <3>1. CASE PatchStatus(b, base, target)
      BY <2>1, <2>2, <3>1, PatchStatusType DEF TypeOK, CtrlTypeOK
    <3>2. CASE PatchFails(b, base, target)
      BY <2>1, <2>2, <3>2, PatchFailsType DEF TypeOK, CtrlTypeOK
    <3>3. CASE PatchNotFound(b)
      BY <3>3 DEF PatchNotFound, TypeOK, CtrlTypeOK
    <3>4. QED BY <1>4, <3>1, <3>2, <3>3 DEF WriteResult, b, base, target
  <2>6. QED BY <1>4, <2>4, <2>5 DEF WriteResult, TypeOK, CtrlTypeOK
<1>5. CASE Exit(r)
  BY <1>5 DEF Exit, TypeOK, CtrlTypeOK, ctrlVars
<1>6. QED BY <1>1, <1>2, <1>3, <1>4, <1>5 DEF RunBuild

(***************************************************************************)
(* The variables of the Build controller always have their types: no       *)
(* handler and no goroutine, however they interleave, writes a phase or an *)
(* attempt that is none.                                                   *)
(***************************************************************************)
THEOREM TypeInvariant == Spec => []TypeOK
<1>1. RoutineInit => TypeOK
  BY InitType DEF RoutineInit, TypeOK
<1>2. TypeOK /\ [Next]_vars => TypeOK'
  <2> SUFFICES ASSUME TypeOK, [Next]_vars PROVE TypeOK'
    OBVIOUS
  <2>1. CASE \E b \in Builds : EnvironmentStep(b)
    BY <2>1, EnvironmentType DEF EnvironmentStep, TypeOK
  <2>2. CASE \E b \in Builds : Reconcile(b)
    BY <2>2, ReconcileType
  <2>3. CASE MonitorStarted
    BY <2>3 DEF MonitorStarted, TypeOK, CtrlTypeOK
  <2>4. CASE \E r \in RoutineIds : RunBuild(r)
    BY <2>4, RunBuildType
  <2>5. CASE RestartOperator
    BY <2>5, RestartType DEF RestartOperator, TypeOK
  <2>6. CASE UNCHANGED vars
    BY <2>6 DEF vars, ctrlVars, TypeOK, CtrlTypeOK
  <2>7. QED BY <2>1, <2>2, <2>3, <2>4, <2>5, <2>6 DEF Next
<1>3. QED BY <1>1, <1>2, PTL DEF Spec
-----------------------------------------------------------------------------
(* Every step of the worker spends the retry budget as RetryBudget says. *)
LEMMA ReconcileInStep ==
  ASSUME TypeOK, AttemptsInStep, NEW b \in Builds, Reconcile(b)
  PROVE  InStep
<1>0. CtrlTypeOK /\ cache[b] \in BuildObject
  BY DEF TypeOK, CtrlTypeOK
<1>1. ASSUME NEW phase \in BuildPhases, NEW repoll,
             Update(b, cache[b], [cache[b] EXCEPT !.phase = phase], repoll)
      PROVE  InStep
  <2> DEFINE target == [cache[b] EXCEPT !.phase = phase]
  <2>1. target \in BuildObject /\ target.phase # "Absent" /\ target.attempt = cache[b].attempt
    BY <1>0 DEF BuildObject, BuildPhases
  <2>2. Update(b, cache[b], target, repoll)
    BY <1>1
  <2> HIDE DEF target
  <2>3. QED BY <1>0, <2>1, <2>2, UpdateInStep
<1>2. {"Scheduling", "Failed", "Running"} \subseteq BuildPhases
  BY DEF BuildPhases
<1>3. CASE Initialize(b) \/ RoutineExists(b) \/ RoutineMissing(b)
  BY <1>1, <1>2, <1>3 DEF Initialize, RoutineExists, RoutineMissing
<1>4. CASE ScheduleRoutine(b)
  BY <1>0, <1>4, ScheduleInStep DEF ScheduleRoutine
<1>5. CASE StartRoutine(b)
  <2> DEFINE target == [cache[b] EXCEPT !.phase = "Running"]
  <2>1. target \in BuildObject /\ target.phase # "Absent" /\ target.attempt = cache[b].attempt
    BY <1>0 DEF BuildObject, BuildPhases
  <2> HIDE DEF target
  <2>2. CASE PatchStatus(b, cache[b], target)
    BY <1>0, <2>1, <2>2, PatchKeepsAttempt
  <2>3. CASE PatchFails(b, cache[b], target) \/ PatchNotFound(b)
    BY <1>0, <2>3, SameAttempts DEF PatchFails, PatchNotFound, Exists
  <2>4. QED BY <1>5, <2>2, <2>3 DEF StartRoutine, target
<1>6. CASE RoutinePanics(b)
  <2>1. \A c \in Builds : api'[c].attempt = api[c].attempt /\ Exists(c)' = Exists(c)
    BY <1>0, <1>6 DEF RoutinePanics, Exists, CtrlTypeOK, BuildObject
  <2>2. attemptOf' = attemptOf
    BY <2>1 DEF attemptOf
  <2>3. AttemptsInStep'
    BY <1>6 DEF RoutinePanics, AttemptsInStep
  <2>4. QED BY <2>2, <2>3 DEF InStep
<1>7. CASE StillRunning(b)
  BY <1>0, <1>7, SameAttempts DEF StillRunning, Exists
<1>8. CASE Shared(b)
  BY <1>0, <1>8, SharedInStep DEF Shared
<1>9. QED BY <1>3, <1>4, <1>5, <1>6, <1>7, <1>8 DEF Reconcile

(* The goroutines write no attempt. *)
LEMMA RunBuildInStep ==
  ASSUME TypeOK, AttemptsInStep, NEW r \in RoutineIds, RunBuild(r)
  PROVE  InStep
<1>0. CtrlTypeOK
  BY DEF TypeOK
<1>1. CASE WriteResult(r)
  <2> DEFINE b == gos[r].build
             base == [api[b] EXCEPT !.phase = gos[r].view]
             target == [api[b] EXCEPT !.phase = gos[r].result]
  <2>1. gos[r] \in Goroutine /\ b \in Builds /\ api[b] \in BuildObject
    BY <1>1, GoroutineTypes DEF WriteResult, TypeOK, CtrlTypeOK, Goroutine
  <2>2. /\ base \in BuildObject /\ target \in BuildObject
        /\ target.attempt = base.attempt /\ target.phase # "Absent"
    BY <2>1 DEF BuildObject, Goroutine, BuildPhases
  <2> HIDE DEF b, base, target
  <2>3. CASE PatchStatus(b, base, target)
    BY <1>0, <2>1, <2>2, <2>3, PatchKeepsAttempt
  <2>4. CASE PatchFails(b, base, target) \/ PatchNotFound(b)
    BY <1>0, <2>4, SameAttempts DEF PatchFails, PatchNotFound, Exists
  <2>5. QED BY <1>1, <2>3, <2>4 DEF WriteResult, b, base, target
<1>2. CASE NextTask(r) \/ TaskUpdateFails(r) \/ LastTaskDone(r) \/ Exit(r)
  BY <1>0, <1>2, SameAttempts
     DEF NextTask, TaskUpdateFails, LastTaskDone, Exit, ctrlVars, Exists
<1>3. QED BY <1>1, <1>2 DEF RunBuild

(* So does every step, the others spending nothing. *)
LEMMA NextInStep ==
  ASSUME TypeOK, AttemptsInStep, [Next]_vars
  PROVE  InStep
<1>0. CtrlTypeOK
  BY DEF TypeOK
<1>1. CASE \E b \in Builds : EnvironmentStep(b)
  BY <1>0, <1>1, EnvironmentInStep DEF EnvironmentStep
<1>2. CASE \E b \in Builds : Reconcile(b)
  BY <1>2, ReconcileInStep
<1>3. CASE MonitorStarted
  BY <1>0, <1>3, SameAttempts DEF MonitorStarted, Exists
<1>4. CASE \E r \in RoutineIds : RunBuild(r)
  BY <1>4, RunBuildInStep
<1>5. CASE RestartOperator
  BY <1>0, <1>5, RestartInStep DEF RestartOperator
<1>6. CASE UNCHANGED vars
  BY <1>0, <1>6, SameAttempts DEF vars, ctrlVars, Exists
<1>7. QED BY <1>1, <1>2, <1>3, <1>4, <1>5, <1>6 DEF Next

(***************************************************************************)
(* The routine strategy implements RetryBudget: each retry of a Build is   *)
(* counted exactly once and the count never goes back, whatever outdated   *)
(* copy the worker acts on and whatever the goroutines write meanwhile.    *)
(***************************************************************************)
THEOREM RetriesCounted == Spec => RetriesAreCounted
<1>1. RoutineInit => AttemptsInStep /\ Budget!Init
  BY DEF RoutineInit, Init, AttemptsInStep, Absent, attemptOf, Exists, Budget!Init, Budget!Gone
<1>2. TypeOK /\ AttemptsInStep /\ [Next]_vars => AttemptsInStep' /\ [Budget!Next]_attemptOf
  BY NextInStep DEF InStep
<1>3. QED BY <1>1, <1>2, TypeInvariant, PTL DEF Spec, RetriesAreCounted, Budget!Spec
-----------------------------------------------------------------------------
(***************************************************************************)
(* The two maps against the goroutines.  Every step is one of six kinds.   *)
(***************************************************************************)
Maps == RoutinesAreAlive /\ TrackedIsCounted

(* The goroutines and the worker rest, and a name that leaves              *)
(* runningBuilds has left routines.                                        *)
QuietStep ==
  /\ gos' = gos /\ worker' = worker /\ routines' \subseteq routines
  /\ \A c \in routines' : c \in runningBuilds => c \in runningBuilds'

(* A goroutine starts, and the worker is about to count it. *)
StartStep(b) ==
  /\ worker = Idle /\ worker' = b
  /\ routines' = routines \cup {b} /\ runningBuilds' = runningBuilds
  /\ \E r \in RoutineIds : gos[r].pc = "free" /\ gos' = [gos EXCEPT ![r] = Started(b)]

(* A goroutine goes on, without reaching the end of its last task. *)
WorkStep(r) ==
  /\ worker' = worker /\ routines' = routines /\ runningBuilds' = runningBuilds
  /\ \E g \in Goroutine : /\ g.build = gos[r].build /\ (g.pc = "task" => gos[r].pc = "task")
                          /\ gos' = [gos EXCEPT ![r] = g]

(* A goroutine comes to the end of its tasks. *)
FinishStep(r) ==
  /\ worker' = worker /\ routines' = routines
  /\ runningBuilds' = runningBuilds \ {gos[r].build}
  /\ \E g \in Goroutine : /\ g.build = gos[r].build /\ g.pc # "task"
                          /\ gos' = [gos EXCEPT ![r] = g]

(* Everything in memory is lost. *)
LossStep == routines' = {} /\ gos' = [r \in RoutineIds |-> Free]

MapStep ==
  \/ QuietStep
  \/ \E b \in Builds : StartStep(b)
  \/ MonitorStarted
  \/ \E r \in RoutineIds : gos[r] \in Goroutine /\ (WorkStep(r) \/ FinishStep(r))
  \/ \E r \in RoutineIds : Exit(r)
  \/ LossStep

(* Every step of the worker is of one of the kinds above. *)
LEMMA ReconcileMapStep ==
  ASSUME TypeOK, NEW b \in Builds, Reconcile(b)
  PROVE  MapStep
<1>1. CASE Initialize(b) \/ ScheduleRoutine(b) \/ StillRunning(b)
           \/ RoutineExists(b) \/ RoutineMissing(b)
  BY <1>1 DEF Initialize, ScheduleRoutine, Schedule, StillRunning, RoutineExists, RoutineMissing,
              MapStep, QuietStep
<1>2. CASE Shared(b)
  BY <1>2 DEF Shared, ScheduleWait, ErrorRecovery, RecordFailure, GiveUp, BackOff, Retry,
              ReconcileNothing, MapStep, QuietStep
<1>3. CASE StartRoutine(b)
  BY <1>3 DEF StartRoutine, Reconcile, MapStep, QuietStep, StartStep
<1>4. CASE RoutinePanics(b)
  BY <1>4 DEF RoutinePanics, MapStep, LossStep
<1>5. QED BY <1>1, <1>2, <1>3, <1>4 DEF Reconcile

(* So is every step of a goroutine. *)
LEMMA RunBuildMapStep ==
  ASSUME TypeOK, NEW r \in RoutineIds, RunBuild(r)
  PROVE  MapStep
<1>0. CASE gos[r].pc = "free"
  BY <1>0 DEF RunBuild, NextTask, TaskUpdateFails, LastTaskDone, WriteResult, Exit
<1>1. CASE Exit(r)
  BY <1>1 DEF MapStep
<1> SUFFICES ASSUME gos[r].pc # "free", ~Exit(r) PROVE MapStep
  BY <1>0, <1>1
<1>2. gos[r] \in Goroutine
  BY GoroutineTypes
<1>3. CASE NextTask(r)
  <2> DEFINE view == api[gos[r].build].phase
             g == [gos[r] EXCEPT !.view = view]
  <2>1. view \in BuildPhases
    BY <1>2, <1>3 DEF NextTask, Exists, Goroutine, TypeOK, CtrlTypeOK, BuildObject
  <2>2. g \in Goroutine /\ g.build = gos[r].build /\ g.pc = gos[r].pc
    BY <1>2, <2>1 DEF Goroutine
  <2>3. gos' = [gos EXCEPT ![r] = g]
    BY <1>3 DEF NextTask
  <2> HIDE DEF g
  <2>4. WorkStep(r)
    BY <1>3, <2>2, <2>3 DEF NextTask, WorkStep, ctrlVars
  <2>5. QED BY <1>2, <2>4 DEF MapStep
<1>4. CASE WriteResult(r)
  <2> DEFINE g == [gos[r] EXCEPT !.pc = "exit"]
  <2>1. g \in Goroutine /\ g.build = gos[r].build /\ g.pc = "exit"
    BY <1>2 DEF Goroutine
  <2>2. gos' = [gos EXCEPT ![r] = g]
    BY <1>4 DEF WriteResult
  <2> HIDE DEF g
  <2>3. WorkStep(r)
    BY <1>4, <2>1, <2>2 DEF WriteResult, WorkStep
  <2>4. QED BY <1>2, <2>3 DEF MapStep
<1>5. CASE TaskUpdateFails(r) \/ LastTaskDone(r)
  <2>1. PICK result \in {"Succeeded", "Failed", "Error"} : Finish(r, result)
    BY <1>5 DEF TaskUpdateFails, LastTaskDone
  <2> DEFINE g == [gos[r] EXCEPT !.pc = "update", !.result = result]
  <2>2. g \in Goroutine /\ g.build = gos[r].build /\ g.pc = "update"
    BY <1>2 DEF Goroutine
  <2>3. gos' = [gos EXCEPT ![r] = g]
    BY <2>1 DEF Finish, TypeOK
  <2> HIDE DEF g
  <2>4. FinishStep(r)
    BY <1>5, <2>1, <2>2, <2>3 DEF TaskUpdateFails, LastTaskDone, Finish, FinishStep
  <2>5. QED BY <1>2, <2>4 DEF MapStep
<1>6. QED BY <1>3, <1>4, <1>5 DEF RunBuild

(* So is every step of the system. *)
LEMMA NextMapStep ==
  ASSUME TypeOK, [Next]_vars
  PROVE  MapStep
<1>1. CASE \E b \in Builds : EnvironmentStep(b)
  BY <1>1 DEF EnvironmentStep, Environment, Create, Delete, Observe, TimerFires, MapStep, QuietStep
<1>2. CASE \E b \in Builds : Reconcile(b)
  BY <1>2, ReconcileMapStep
<1>3. CASE MonitorStarted
  BY <1>3 DEF MapStep
<1>4. CASE \E r \in RoutineIds : RunBuild(r)
  BY <1>4, RunBuildMapStep
<1>5. CASE RestartOperator
  BY <1>5 DEF RestartOperator, MapStep, LossStep
<1>6. CASE UNCHANGED vars
  BY <1>6 DEF vars, ctrlVars, MapStep, QuietStep
<1>7. QED BY <1>1, <1>2, <1>3, <1>4, <1>5, <1>6 DEF Next

(* A goroutine that goes on stays with its Build. *)
LEMMA LiveKept ==
  ASSUME TypeOK, NEW r0 \in RoutineIds, NEW g \in Goroutine, gos[r0] \in Goroutine,
         g.build = gos[r0].build, gos' = [gos EXCEPT ![r0] = g]
  PROVE  /\ gos'[r0] = g
         /\ \A r \in RoutineIds \ {r0} : gos'[r] = gos[r]
         /\ \A c : Live(c)' = Live(c)
         /\ r0 \in Live(gos[r0].build)
<1>1. g.pc # "free" /\ gos[r0].pc # "free"
  BY DEF Goroutine
<1>2. gos'[r0] = g /\ \A r \in RoutineIds \ {r0} : gos'[r] = gos[r]
  BY DEF TypeOK
<1>3. QED BY <1>1, <1>2 DEF Live

(* Each kind of step keeps the maps right. *)
LEMMA MapStepKeepsMaps ==
  ASSUME TypeOK, Maps, MapStep
  PROVE  Maps'
<1>1. CASE QuietStep
  BY <1>1 DEF QuietStep, Maps, RoutinesAreAlive, TrackedIsCounted, Live
<1>2. ASSUME NEW b \in Builds, StartStep(b) PROVE Maps'
  <2>1. PICK r0 \in RoutineIds : gos[r0].pc = "free" /\ gos' = [gos EXCEPT ![r0] = Started(b)]
    BY <1>2 DEF StartStep
  <2>2. /\ gos'[r0].pc = "task" /\ gos'[r0].build = b
        /\ \A r \in RoutineIds \ {r0} : gos'[r] = gos[r]
    BY <2>1 DEF Started, TypeOK
  <2>3. r0 \in Live(b)' /\ \A c : c # b => Live(c)' = Live(c)
    BY <2>1, <2>2 DEF Live
  <2>4. \A c : Live(c) \subseteq Live(c)'
    BY <2>1, <2>2 DEF Live
  <2>5. RoutinesAreAlive'
    BY <1>2, <2>3, <2>4 DEF StartStep, Maps, RoutinesAreAlive
  <2>6. ASSUME NEW r \in RoutineIds,
               (gos[r].pc = "task" /\ gos[r].build \in routines /\ Live(gos[r].build) = {r})'
        PROVE  (gos[r].build \in runningBuilds \cup {worker})'
    <3>1. CASE gos'[r].build = b
      BY <1>2, <3>1 DEF StartStep
    <3>2. CASE gos'[r].build # b
      <4>1. gos'[r] = gos[r]
        BY <2>2, <3>2
      <4>2. gos[r].build \in routines /\ Live(gos[r].build) = {r} /\ gos[r].pc = "task"
        BY <1>2, <2>3, <2>6, <3>2, <4>1 DEF StartStep
      <4>3. gos[r].build # Idle
        BY <4>2, BuildsAssumption DEF Idle, TypeOK
      <4>4. QED BY <1>2, <4>1, <4>2, <4>3 DEF StartStep, Maps, TrackedIsCounted
    <3>3. QED BY <3>1, <3>2
  <2>7. TrackedIsCounted'
    BY <2>6 DEF TrackedIsCounted
  <2>8. QED BY <2>5, <2>7 DEF Maps
<1>3. CASE MonitorStarted
  BY <1>3 DEF MonitorStarted, Maps, RoutinesAreAlive, TrackedIsCounted, Live
<1>4. ASSUME NEW r0 \in RoutineIds, gos[r0] \in Goroutine, WorkStep(r0)
      PROVE  Maps'
  <2>1. PICK g \in Goroutine : /\ g.build = gos[r0].build /\ gos' = [gos EXCEPT ![r0] = g]
                              /\ (g.pc = "task" => gos[r0].pc = "task")
    BY <1>4 DEF WorkStep
  <2>2. /\ gos'[r0] = g /\ \A r \in RoutineIds \ {r0} : gos'[r] = gos[r]
        /\ \A c : Live(c)' = Live(c)
    BY <1>4, <2>1, LiveKept
  <2>3. RoutinesAreAlive'
    BY <1>4, <2>2 DEF Maps, RoutinesAreAlive, WorkStep
  <2>4. \A r \in RoutineIds : /\ gos'[r].build = gos[r].build
                              /\ gos'[r].pc = "task" => gos[r].pc = "task"
    BY <2>1, <2>2
  <2>5. TrackedIsCounted'
    BY <1>4, <2>2, <2>4 DEF Maps, TrackedIsCounted, WorkStep
  <2>6. QED BY <2>3, <2>5 DEF Maps
<1>5. ASSUME NEW r0 \in RoutineIds, gos[r0] \in Goroutine, FinishStep(r0)
      PROVE  Maps'
  <2>1. PICK g \in Goroutine : /\ g.build = gos[r0].build /\ g.pc # "task"
                              /\ gos' = [gos EXCEPT ![r0] = g]
    BY <1>5 DEF FinishStep
  <2>2. /\ gos'[r0] = g /\ \A r \in RoutineIds \ {r0} : gos'[r] = gos[r]
        /\ \A c : Live(c)' = Live(c)
        /\ r0 \in Live(gos[r0].build)
    BY <1>5, <2>1, LiveKept
  <2>3. RoutinesAreAlive'
    BY <1>5, <2>2 DEF Maps, RoutinesAreAlive, FinishStep
  <2>4. ASSUME NEW r \in RoutineIds,
               (gos[r].pc = "task" /\ gos[r].build \in routines /\ Live(gos[r].build) = {r})'
        PROVE  (gos[r].build \in runningBuilds \cup {worker})'
    <3>1. r # r0 /\ gos'[r] = gos[r]
      BY <2>1, <2>2, <2>4
    <3>2. gos[r].pc = "task" /\ gos[r].build \in routines /\ Live(gos[r].build) = {r}
      BY <1>5, <2>2, <2>4, <3>1 DEF FinishStep
    <3>3. gos[r].build # gos[r0].build
      BY <2>2, <3>1, <3>2
    <3>4. gos[r].build \in runningBuilds \cup {worker}
      BY <3>2 DEF Maps, TrackedIsCounted
    <3>5. QED BY <1>5, <3>1, <3>3, <3>4 DEF FinishStep
  <2>5. TrackedIsCounted'
    BY <2>4 DEF TrackedIsCounted
  <2>6. QED BY <2>3, <2>5 DEF Maps
<1>6. ASSUME NEW r0 \in RoutineIds, Exit(r0) PROVE Maps'
  <2>1. /\ routines' = routines \ {gos[r0].build}
        /\ runningBuilds' = runningBuilds /\ worker' = worker
        /\ gos'[r0].pc = "free" /\ gos[r0].pc # "free"
        /\ \A r \in RoutineIds \ {r0} : gos'[r] = gos[r]
    BY <1>6 DEF Exit, ctrlVars, Free, TypeOK
  <2>2. \A c : c # gos[r0].build => Live(c)' = Live(c)
    BY <2>1 DEF Live
  <2>3. RoutinesAreAlive'
    BY <2>1, <2>2 DEF Maps, RoutinesAreAlive
  <2>4. TrackedIsCounted'
    BY <2>1, <2>2 DEF Maps, TrackedIsCounted
  <2>5. QED BY <2>3, <2>4 DEF Maps
<1>7. CASE LossStep
  BY <1>7 DEF LossStep, Free, Maps, RoutinesAreAlive, TrackedIsCounted
<1>8. QED BY <1>1, <1>2, <1>3, <1>4, <1>5, <1>6, <1>7 DEF MapStep

(* Every kind of step keeps both maps in agreement with the goroutines. *)
LEMMA MapsInvariant == Spec => []Maps
<1>1. RoutineInit => Maps
  BY DEF RoutineInit, Free, Maps, RoutinesAreAlive, TrackedIsCounted
<1>2. TypeOK /\ Maps /\ [Next]_vars => Maps'
  BY NextMapStep, MapStepKeepsMaps
<1>3. QED BY <1>1, <1>2, TypeInvariant, PTL DEF Spec

(***************************************************************************)
(* A name in the routines map always stands for a goroutine that is alive. *)
(***************************************************************************)
THEOREM RoutinesAlive == Spec => []RoutinesAreAlive
<1>1. Maps => RoutinesAreAlive
  BY DEF Maps
<1>2. QED BY <1>1, MapsInvariant, PTL

(***************************************************************************)
(* A goroutine with work to do that the routines map stands for is counted *)
(* against the limit, through restarts, duplicates and lost updates.       *)
(***************************************************************************)
THEOREM TrackedCounted == Spec => []TrackedIsCounted
<1>1. Maps => TrackedIsCounted
  BY DEF Maps
<1>2. QED BY <1>1, MapsInvariant, PTL
-----------------------------------------------------------------------------
(***************************************************************************)
(* The limit.  A Build that is Pending, or whose goroutine runs a task, is *)
(* under way; the Builds under way never outnumber the slots.              *)
(***************************************************************************)
PendingBuilds == {b \in Builds : api[b].phase = "Pending"}

UnderWay == PendingBuilds \cup {gos[r].build : r \in RunningTasks}

(* The worker has read no later phase of a Build that is Pending. *)
PendingIsRecent == \A b \in PendingBuilds : cache[b].phase \in {"Scheduling", "Pending"}

(* Unless the limit is voided, a Build has one goroutine, which routines   *)
(* stands for, and does not have it before it leaves Pending.              *)
Alive(r) == gos[r].pc # "free"

OneGoroutineEach ==
  \A r \in RoutineIds : Alive(r) =>
    /\ gos[r].build \in routines /\ gos[r].build \notin PendingBuilds
    /\ \A s \in RoutineIds : Alive(s) /\ gos[s].build = gos[r].build => s = r

Limited ==
  /\ OneGoroutineEach
  /\ PendingBuilds \subseteq runningBuilds
  /\ Cardinality(UnderWay) <= MaxRunningBuilds

(* Only the schedule action writes Pending. *)
LEMMA PatchKeepsPending ==
  ASSUME TypeOK, NEW b \in Builds, NEW base, NEW target, PatchStatus(b, base, target),
         target.phase # "Pending" \/ target.phase = base.phase
  PROVE  /\ PendingBuilds' \subseteq PendingBuilds /\ cache' = cache
         /\ target.phase # base.phase => b \notin PendingBuilds'
<1>1. api'[b].phase = IF target.phase = base.phase THEN api[b].phase ELSE target.phase
  BY DEF PatchStatus, MergeFrom, TypeOK, CtrlTypeOK, BuildObject
<1>2. \A c \in Builds \ {b} : api'[c] = api[c]
  BY DEF PatchStatus, TypeOK, CtrlTypeOK
<1>3. QED BY <1>1, <1>2 DEF PendingBuilds, PatchStatus

LEMMA UpdateKeepsPending ==
  ASSUME TypeOK, NEW b \in Builds, NEW base, NEW target, NEW repoll, Update(b, base, target, repoll),
         target.phase # "Pending" \/ target.phase = base.phase
  PROVE  PendingBuilds' \subseteq PendingBuilds /\ cache' = cache
<1>1. CASE PatchStatus(b, base, target)
  BY <1>1, PatchKeepsPending
<1>2. CASE PatchFails(b, base, target) \/ PatchNotFound(b)
  BY <1>2 DEF PatchFails, PatchNotFound, PendingBuilds
<1>3. QED BY <1>1, <1>2 DEF Update

(***************************************************************************)
(* Every step is one of these kinds.                                       *)
(***************************************************************************)

(* A Build is admitted. *)
AdmitStep(b) ==
  /\ worker = Idle /\ Cardinality(runningBuilds) < MaxRunningBuilds
  /\ cache[b].phase = "Scheduling" /\ cache' = cache
  /\ PendingBuilds' \subseteq PendingBuilds \cup {b}
  /\ runningBuilds' = runningBuilds \cup {b}
  /\ gos' = gos /\ routines' = routines
  /\ voided' = (voided \/ Live(b) # {})

(* No Build gets Pending, and what the worker has read stays as recent. *)
NoneAdmitted ==
  /\ PendingBuilds' \subseteq PendingBuilds
  /\ PendingIsRecent => PendingIsRecent'

(* The goroutines go on, and a Build that is still Pending its slot. *)
RestStep ==
  /\ NoneAdmitted
  /\ gos' = gos /\ routines' = routines /\ voided' = voided
  /\ PendingIsRecent => \A b \in PendingBuilds' : b \in runningBuilds => b \in runningBuilds'

(* Only the goroutine r goes on: it may not get back to its tasks. *)
GoStep(r) ==
  /\ NoneAdmitted
  /\ Alive(r) /\ routines' = routines /\ voided' = voided
  /\ runningBuilds \ {gos[r].build} \subseteq runningBuilds'
  /\ \E g \in Goroutine : /\ g.build = gos[r].build /\ (g.pc = "task" => gos[r].pc = "task")
                          /\ gos' = [gos EXCEPT ![r] = g]

(* A Pending Build gets its goroutine. *)
BeginStep(b) ==
  /\ NoneAdmitted
  /\ b \in PendingBuilds /\ b \notin PendingBuilds'
  /\ routines' = routines \cup {b} /\ runningBuilds' = runningBuilds /\ voided' = voided
  /\ \E r \in RoutineIds : gos[r].pc = "free" /\ gos' = [gos EXCEPT ![r] = Started(b)]

(* A goroutine is gone. *)
ExitStep(r) ==
  /\ NoneAdmitted
  /\ Alive(r) /\ voided' = voided
  /\ routines' = routines \ {gos[r].build} /\ runningBuilds' = runningBuilds
  /\ gos' = [gos EXCEPT ![r] = Free]

(* A Pending Build has a goroutine already, which is excluded below. *)
ConflictStep(b) == NoneAdmitted /\ b \in PendingBuilds /\ b \in routines /\ voided' = voided

VoidStep == voided' /\ NoneAdmitted

LimitStep ==
  \/ \E b \in Builds : AdmitStep(b) \/ BeginStep(b) \/ ConflictStep(b)
  \/ RestStep \/ VoidStep
  \/ \E r \in RoutineIds : GoStep(r) \/ ExitStep(r)

LEMMA RecentKept ==
  ASSUME PendingBuilds' \subseteq PendingBuilds, cache' = cache
  PROVE  NoneAdmitted
  BY DEF NoneAdmitted, PendingIsRecent

LEMMA ReconcileLimitStep ==
  ASSUME TypeOK, NEW b \in Builds, Reconcile(b)
  PROVE  LimitStep
<1>0. cache[b] \in BuildObject
  BY DEF TypeOK, CtrlTypeOK
<1>1. \A p : [cache[b] EXCEPT !.phase = p].phase = p
  BY <1>0 DEF BuildObject
<1>2. CASE Initialize(b)
  <2>1. NoneAdmitted
    BY <1>1, <1>2, UpdateKeepsPending, RecentKept DEF Initialize
  <2>2. QED BY <1>2, <2>1 DEF Initialize, LimitStep, RestStep
<1>3. CASE ScheduleRoutine(b)
  <2> DEFINE target == [cache[b] EXCEPT !.phase = "Pending"]
  <2>1. CASE PatchStatus(b, cache[b], target) /\ runningBuilds' = runningBuilds \cup {b}
    <3>1. PendingBuilds' \subseteq PendingBuilds \cup {b} /\ cache' = cache
      BY <2>1 DEF PatchStatus, PendingBuilds, TypeOK, CtrlTypeOK
    <3>2. Cardinality(runningBuilds) < MaxRunningBuilds
      BY <1>3 DEF ScheduleRoutine, Schedule, Allowed, canSchedule
    <3>3. AdmitStep(b)
      BY <1>3, <2>1, <3>1, <3>2 DEF ScheduleRoutine, Schedule, Reconcile, AdmitStep
    <3>4. QED BY <3>3 DEF LimitStep
  <2>2. CASE (PatchFails(b, cache[b], target) \/ PatchNotFound(b)) /\ runningBuilds' = runningBuilds
    <3>1. PendingBuilds' = PendingBuilds /\ cache' = cache
      BY <2>2 DEF PatchFails, PatchNotFound, PendingBuilds
    <3>2. NoneAdmitted
      BY <3>1, RecentKept
    <3>3. voided' \/ voided' = voided
      BY <1>3 DEF ScheduleRoutine, TypeOK
    <3>4. QED BY <1>3, <2>2, <3>2, <3>3 DEF ScheduleRoutine, LimitStep, RestStep, VoidStep
  <2>3. QED BY <1>3, <2>1, <2>2 DEF ScheduleRoutine, Schedule
<1>4. CASE StartRoutine(b)
  <2> DEFINE target == [cache[b] EXCEPT !.phase = "Running"]
  <2>1. CASE /\ PatchStatus(b, cache[b], target)
             /\ \E r \in RoutineIds : gos[r].pc = "free" /\ gos' = [gos EXCEPT ![r] = Started(b)]
             /\ routines' = routines \cup {b} /\ voided' = (voided \/ api[b].phase # "Pending")
             /\ runningBuilds' = runningBuilds
    <3>1. target.phase = "Running" /\ cache[b].phase = "Pending"
      BY <1>1, <1>4 DEF StartRoutine
    <3> HIDE DEF target
    <3>2. /\ PendingBuilds' \subseteq PendingBuilds /\ cache' = cache
          /\ b \notin PendingBuilds'
      BY <2>1, <3>1, PatchKeepsPending
    <3>3. NoneAdmitted
      BY <3>2, RecentKept
    <3>4. CASE api[b].phase = "Pending"
      <4>1. b \in PendingBuilds /\ voided' = voided
        BY <2>1, <3>4 DEF PendingBuilds, TypeOK
      <4>2. BeginStep(b)
        BY <2>1, <3>2, <3>3, <4>1 DEF BeginStep
      <4>3. QED BY <4>2 DEF LimitStep
    <3>5. CASE api[b].phase # "Pending"
      BY <2>1, <3>3, <3>5 DEF LimitStep, VoidStep
    <3>6. QED BY <3>4, <3>5
  <2>2. CASE /\ PatchFails(b, cache[b], target) \/ PatchNotFound(b)
             /\ UNCHANGED <<routines, gos, voided, runningBuilds>>
    <3>1. PendingBuilds' = PendingBuilds /\ cache' = cache
      BY <2>2 DEF PatchFails, PatchNotFound, PendingBuilds
    <3>2. NoneAdmitted
      BY <3>1, RecentKept
    <3>3. QED BY <2>2, <3>2 DEF LimitStep, RestStep
  <2>3. QED BY <1>4, <2>1, <2>2 DEF StartRoutine
<1>5. CASE RoutinePanics(b)
  <2>1. api' = [api EXCEPT ![b].phase = "Running"] /\ cache' = api' /\ voided'
    BY <1>5 DEF RoutinePanics
  <2>2. PendingBuilds' \subseteq PendingBuilds
    BY <2>1 DEF PendingBuilds, TypeOK, CtrlTypeOK, BuildObject
  <2>3. PendingIsRecent'
    BY <2>1 DEF PendingIsRecent, PendingBuilds
  <2>4. QED BY <2>1, <2>2, <2>3 DEF LimitStep, VoidStep, NoneAdmitted
<1>6. CASE RoutineExists(b)
  <2>1. NoneAdmitted
    BY <1>1, <1>6, UpdateKeepsPending, RecentKept DEF RoutineExists
  <2>2. b \in routines /\ voided' = (voided \/ api[b].phase # "Pending")
    BY <1>6 DEF RoutineExists
  <2>3. CASE api[b].phase = "Pending"
    BY <2>1, <2>2, <2>3 DEF LimitStep, ConflictStep, PendingBuilds, TypeOK
  <2>4. CASE api[b].phase # "Pending"
    BY <2>1, <2>2, <2>4 DEF LimitStep, VoidStep
  <2>5. QED BY <2>3, <2>4
<1>7. CASE RoutineMissing(b)
  <2>1. PendingBuilds' \subseteq PendingBuilds /\ cache' = cache
    BY <1>1, <1>7, UpdateKeepsPending DEF RoutineMissing
  <2>2. NoneAdmitted
    BY <2>1, RecentKept
  <2>3. PendingIsRecent => b \notin PendingBuilds
    BY <1>7 DEF RoutineMissing, PendingIsRecent
  <2>4. RestStep
    BY <1>7, <2>1, <2>2, <2>3 DEF RoutineMissing, RestStep
  <2>5. QED BY <2>4 DEF LimitStep
<1>8. CASE StillRunning(b)
  <2>1. NoneAdmitted
    BY <1>8, RecentKept DEF StillRunning, PendingBuilds
  <2>2. QED BY <1>8, <2>1 DEF StillRunning, LimitStep, RestStep
<1>9. CASE Shared(b)
  <2>1. NoneAdmitted
    <3>1. CASE BackOff(b) \/ ReconcileNothing(b)
      BY <3>1, RecentKept DEF BackOff, ReconcileNothing, PendingBuilds
    <3>2. CASE ScheduleWait(b)
      BY <3>2, UpdateKeepsPending, RecentKept DEF ScheduleWait
    <3>3. CASE GiveUp(b)
      BY <1>1, <3>3, UpdateKeepsPending, RecentKept DEF GiveUp
    <3>4. CASE RecordFailure(b)
      <4>1. [cache[b] EXCEPT !.attempt = 0].phase = cache[b].phase
        BY <1>0 DEF BuildObject
      <4>2. QED BY <3>4, <4>1, UpdateKeepsPending, RecentKept DEF RecordFailure
    <3>5. CASE Retry(b)
      <4>1. [cache[b] EXCEPT !.phase = "Initialization", !.attempt = @ + 1].phase = "Initialization"
        BY <1>0 DEF BuildObject
      <4>2. QED BY <3>5, <4>1, UpdateKeepsPending, RecentKept DEF Retry
    <3>6. QED BY <1>9, <3>1, <3>2, <3>3, <3>4, <3>5 DEF Shared, ErrorRecovery
  <2>2. runningBuilds' = runningBuilds
    BY <1>9 DEF Shared, ErrorRecovery, BackOff, ReconcileNothing, ScheduleWait, GiveUp, RecordFailure, Retry
  <2>3. QED BY <1>9, <2>1, <2>2 DEF Shared, LimitStep, RestStep
<1>10. QED BY <1>2, <1>3, <1>4, <1>5, <1>6, <1>7, <1>8, <1>9 DEF Reconcile

LEMMA RunBuildLimitStep ==
  ASSUME TypeOK, NEW r \in RoutineIds, RunBuild(r)
  PROVE  LimitStep
<1>1. Alive(r) /\ gos[r] \in Goroutine
  <2>1. Alive(r)
    BY DEF RunBuild, NextTask, TaskUpdateFails, LastTaskDone, WriteResult, Exit, Alive
  <2>2. QED BY <2>1, GoroutineTypes DEF Alive
<1>2. gos[r].build \in Builds
  BY <1>1 DEF Goroutine
<1>3. CASE Exit(r)
  <2>1. NoneAdmitted
    BY <1>3, RecentKept DEF Exit, ctrlVars, PendingBuilds
  <2>2. QED BY <1>1, <1>3, <2>1 DEF Exit, ctrlVars, LimitStep, ExitStep
<1>4. CASE NextTask(r) \/ TaskUpdateFails(r) \/ LastTaskDone(r)
  <2>1. NoneAdmitted
    BY <1>4, RecentKept DEF NextTask, TaskUpdateFails, LastTaskDone, ctrlVars, PendingBuilds
  <2>2. PICK g \in Goroutine : g.build = gos[r].build /\ gos' = [gos EXCEPT ![r] = g]
    <3>1. CASE NextTask(r)
      <4>1. api[gos[r].build].phase \in BuildPhases
        BY <1>2, <3>1 DEF NextTask, Exists, TypeOK, CtrlTypeOK, BuildObject
      <4>2. [gos[r] EXCEPT !.view = api[gos[r].build].phase] \in Goroutine
        BY <1>1, <4>1 DEF Goroutine
      <4>3. [gos[r] EXCEPT !.view = api[gos[r].build].phase].build = gos[r].build
        BY <1>1 DEF Goroutine
      <4>4. gos' = [gos EXCEPT ![r] = [gos[r] EXCEPT !.view = api[gos[r].build].phase]]
        BY <3>1 DEF NextTask
      <4>5. QED BY <4>2, <4>3, <4>4
    <3>2. CASE TaskUpdateFails(r) \/ LastTaskDone(r)
      <4>1. PICK result \in {"Succeeded", "Failed", "Error"} : Finish(r, result)
        BY <3>2 DEF TaskUpdateFails, LastTaskDone
      <4>2. [gos[r] EXCEPT !.pc = "update", !.result = result] \in Goroutine
        BY <1>1 DEF Goroutine
      <4>3. [gos[r] EXCEPT !.pc = "update", !.result = result].build = gos[r].build
        BY <1>1 DEF Goroutine
      <4>4. gos' = [gos EXCEPT ![r] = [gos[r] EXCEPT !.pc = "update", !.result = result]]
        BY <4>1 DEF Finish, TypeOK
      <4>5. QED BY <4>2, <4>3, <4>4
    <3>3. QED BY <1>4, <3>1, <3>2
  <2>3. gos[r].pc = "task"
    BY <1>4 DEF NextTask, TaskUpdateFails, LastTaskDone
  <2>4. runningBuilds \ {gos[r].build} \subseteq runningBuilds' /\ routines' = routines /\ voided' = voided
    BY <1>4 DEF NextTask, TaskUpdateFails, LastTaskDone, Finish, ctrlVars
  <2>5. GoStep(r)
    BY <1>1, <2>1, <2>2, <2>3, <2>4 DEF GoStep
  <2>6. QED BY <2>5 DEF LimitStep
<1>5. CASE WriteResult(r)
  <2> DEFINE b == gos[r].build
             base == [api[b] EXCEPT !.phase = gos[r].view]
             target == [api[b] EXCEPT !.phase = gos[r].result]
             g == [gos[r] EXCEPT !.pc = "exit"]
  <2>1. target.phase # "Pending"
    BY <1>1, <1>2 DEF Goroutine, TypeOK, CtrlTypeOK, BuildObject
  <2>2. PatchStatus(b, base, target) \/ PatchFails(b, base, target) \/ PatchNotFound(b)
    BY <1>5 DEF WriteResult
  <2>3. g \in Goroutine /\ g.build = b /\ g.pc = "exit" /\ gos' = [gos EXCEPT ![r] = g]
    BY <1>1, <1>5 DEF WriteResult, Goroutine
  <2> HIDE DEF base, target, g
  <2>4. NoneAdmitted
    <3>1. CASE PatchStatus(b, base, target)
      BY <1>2, <2>1, <3>1, PatchKeepsPending, RecentKept
    <3>2. CASE PatchFails(b, base, target) \/ PatchNotFound(b)
      BY <3>2, RecentKept DEF PatchFails, PatchNotFound, PendingBuilds
    <3>3. QED BY <2>2, <3>1, <3>2
  <2>5. runningBuilds' = runningBuilds /\ routines' = routines /\ voided' = voided
    BY <1>5 DEF WriteResult
  <2>6. GoStep(r)
    BY <1>1, <2>3, <2>4, <2>5 DEF GoStep
  <2>7. QED BY <2>6 DEF LimitStep
<1>6. QED BY <1>3, <1>4, <1>5 DEF RunBuild

LEMMA NextLimitStep ==
  ASSUME TypeOK, [Next]_vars
  PROVE  LimitStep
<1>1. ASSUME NEW b \in Builds, EnvironmentStep(b) PROVE LimitStep
  <2>1. NoneAdmitted
    <3>1. CASE Create(b) \/ Delete(b)
      <4>1. api'[b].phase # "Pending" /\ \A c \in Builds \ {b} : api'[c] = api[c]
        BY <3>1 DEF Create, Delete, Created, Absent, TypeOK, CtrlTypeOK
      <4>2. PendingBuilds' \subseteq PendingBuilds
        BY <4>1 DEF PendingBuilds
      <4>3. QED BY <3>1, <4>2, RecentKept DEF Create, Delete
    <3>2. CASE Observe(b)
      <4>1. PendingBuilds' = PendingBuilds
        BY <3>2 DEF Observe, PendingBuilds
      <4>2. cache'[b] = api[b] /\ \A c \in Builds \ {b} : cache'[c] = cache[c]
        BY <3>2 DEF Observe, TypeOK, CtrlTypeOK
      <4>3. PendingIsRecent => PendingIsRecent'
        BY <4>1, <4>2 DEF PendingIsRecent, PendingBuilds
      <4>4. QED BY <4>1, <4>3 DEF NoneAdmitted
    <3>3. CASE TimerFires(b)
      BY <3>3, RecentKept DEF TimerFires, PendingBuilds
    <3>4. QED BY <1>1, <3>1, <3>2, <3>3 DEF EnvironmentStep, Environment
  <2>2. runningBuilds' = runningBuilds
    BY <1>1 DEF EnvironmentStep, Environment, Create, Delete, Observe, TimerFires
  <2>3. QED BY <1>1, <2>1, <2>2 DEF EnvironmentStep, LimitStep, RestStep
<1>2. CASE \E b \in Builds : Reconcile(b)
  BY <1>2, ReconcileLimitStep
<1>3. CASE MonitorStarted
  <2>1. NoneAdmitted
    BY <1>3, RecentKept DEF MonitorStarted, PendingBuilds
  <2>2. QED BY <1>3, <2>1 DEF MonitorStarted, LimitStep, RestStep
<1>4. CASE \E r \in RoutineIds : RunBuild(r)
  BY <1>4, RunBuildLimitStep
<1>5. CASE RestartOperator
  <2>1. cache' = api /\ api' = api /\ voided'
    BY <1>5 DEF RestartOperator, Restart
  <2>2. NoneAdmitted
    BY <2>1 DEF NoneAdmitted, PendingIsRecent, PendingBuilds
  <2>3. QED BY <2>1, <2>2 DEF LimitStep, VoidStep
<1>6. CASE UNCHANGED vars
  <2>1. NoneAdmitted
    BY <1>6, RecentKept DEF vars, ctrlVars, PendingBuilds
  <2>2. QED BY <1>6, <2>1 DEF vars, ctrlVars, LimitStep, RestStep
<1>7. QED BY <1>1, <1>2, <1>3, <1>4, <1>5, <1>6 DEF Next

LEMMA UnderWayFinite ==
  ASSUME TypeOK
  PROVE  IsFiniteSet(UnderWay) /\ UnderWay \subseteq Builds /\ Cardinality(UnderWay) \in Nat
<1>1. \A r \in RunningTasks : gos[r].build \in Builds
  BY DEF RunningTasks, TypeOK, Goroutine, Free
<1>2. UnderWay \subseteq Builds
  BY <1>1 DEF UnderWay, PendingBuilds
<1>3. QED BY <1>2, BuildsAssumption, FS_Subset, FS_CardinalityType

(* Fewer Builds under way stay within the limit. *)
LEMMA FewerUnderWay ==
  ASSUME TypeOK, TypeOK', Cardinality(UnderWay) <= MaxRunningBuilds, UnderWay' \subseteq UnderWay
  PROVE  Cardinality(UnderWay') <= MaxRunningBuilds
<1>1. IsFiniteSet(UnderWay) /\ Cardinality(UnderWay) \in Nat
  BY UnderWayFinite
<1>2. IsFiniteSet(UnderWay') /\ Cardinality(UnderWay') <= Cardinality(UnderWay)
  BY <1>1, FS_Subset
<1>3. Cardinality(UnderWay') \in Nat
  BY <1>2, FS_CardinalityType
<1>4. QED BY <1>1, <1>2, <1>3, BoundsAssumption

LimitInv == PendingIsRecent /\ (~voided => Limited)

LEMMA LimitStepKeeps ==
  ASSUME TypeOK, TypeOK', Maps, LimitInv, LimitStep
  PROVE  LimitInv'
<1>1. ASSUME NEW b \in Builds, AdmitStep(b) PROVE LimitInv'
  <2>1. PendingIsRecent'
    BY <1>1 DEF AdmitStep, LimitInv, PendingIsRecent
  <2>2. ASSUME ~voided' PROVE Limited'
    <3>1. Limited /\ Live(b) = {} /\ ~voided
      BY <1>1, <2>2 DEF AdmitStep, LimitInv, TypeOK
    <3>2. OneGoroutineEach'
      BY <1>1, <3>1 DEF AdmitStep, Limited, OneGoroutineEach, Alive, Live
    <3>3. PendingBuilds' \subseteq runningBuilds'
      BY <1>1, <3>1 DEF AdmitStep, Limited
    <3>4. ASSUME NEW r \in RunningTasks PROVE gos[r].build \in runningBuilds
      <4>1. r \in RoutineIds /\ gos[r].pc = "task" /\ Alive(r)
        BY DEF RunningTasks, Alive
      <4>2. gos[r].build \in routines /\ Live(gos[r].build) = {r}
        BY <3>1, <4>1 DEF Limited, OneGoroutineEach, Alive, Live
      <4>3. gos[r].build \in runningBuilds \cup {Idle}
        BY <1>1, <4>1, <4>2 DEF AdmitStep, Maps, TrackedIsCounted
      <4>4. gos[r].build # Idle
        BY <4>2, BuildsAssumption DEF Idle, TypeOK
      <4>5. QED BY <4>3, <4>4
    <3>5. UnderWay' \subseteq runningBuilds \cup {b}
      BY <1>1, <3>1, <3>4 DEF AdmitStep, Limited, UnderWay, RunningTasks
    <3>6. IsFiniteSet(runningBuilds) /\ Cardinality(runningBuilds) \in Nat
      BY BuildsAssumption, FS_Subset, FS_CardinalityType DEF TypeOK, CtrlTypeOK
    <3>7. IsFiniteSet(runningBuilds \cup {b}) /\ Cardinality(runningBuilds \cup {b}) <= Cardinality(runningBuilds) + 1
      BY <3>6, FS_AddElement
    <3>8. Cardinality(runningBuilds \cup {b}) \in Nat
      BY <3>7, FS_CardinalityType
    <3>9. IsFiniteSet(UnderWay') /\ Cardinality(UnderWay') <= Cardinality(runningBuilds \cup {b})
      BY <3>5, <3>7, FS_Subset
    <3>10. Cardinality(UnderWay') \in Nat
      BY <3>9, FS_CardinalityType
    <3>11. Cardinality(UnderWay') <= MaxRunningBuilds
      BY <1>1, <3>6, <3>7, <3>8, <3>9, <3>10, BoundsAssumption DEF AdmitStep
    <3>12. QED BY <3>2, <3>3, <3>11 DEF Limited
  <2>3. QED BY <2>1, <2>2 DEF LimitInv
<1>2. ASSUME NoneAdmitted, ~voided' => Limited' PROVE LimitInv'
  BY <1>2 DEF NoneAdmitted, LimitInv
<1>3. CASE VoidStep
  BY <1>2, <1>3 DEF VoidStep
<1>4. CASE RestStep
  <2>1. ASSUME ~voided' PROVE Limited'
    <3>1. Limited /\ PendingIsRecent
      BY <1>4, <2>1 DEF RestStep, LimitInv
    <3>2. OneGoroutineEach'
      BY <1>4, <3>1 DEF RestStep, NoneAdmitted, Limited, OneGoroutineEach, Alive
    <3>3. PendingBuilds' \subseteq runningBuilds'
      BY <1>4, <3>1 DEF RestStep, NoneAdmitted, Limited
    <3>4. UnderWay' \subseteq UnderWay
      BY <1>4 DEF RestStep, NoneAdmitted, UnderWay, RunningTasks
    <3>5. QED BY <3>1, <3>2, <3>3, <3>4, FewerUnderWay DEF Limited
  <2>2. QED BY <1>2, <1>4, <2>1 DEF RestStep
<1>5. ASSUME NEW b \in Builds, ConflictStep(b) PROVE LimitInv'
  <2>1. Live(b) # {}
    BY <1>5 DEF ConflictStep, Maps, RoutinesAreAlive
  <2>2. voided
    BY <1>5, <2>1 DEF ConflictStep, LimitInv, Limited, OneGoroutineEach, Alive, Live
  <2>3. QED BY <1>2, <1>5, <2>2 DEF ConflictStep
<1>6. ASSUME NEW b \in Builds, BeginStep(b) PROVE LimitInv'
  <2>1. ASSUME ~voided' PROVE Limited'
    <3>1. Limited /\ b \in PendingBuilds
      BY <1>6, <2>1 DEF BeginStep, LimitInv
    <3>2. PICK r0 \in RoutineIds : gos[r0].pc = "free" /\ gos' = [gos EXCEPT ![r0] = Started(b)]
      BY <1>6 DEF BeginStep
    <3>3. /\ gos'[r0].pc = "task" /\ gos'[r0].build = b
          /\ \A r \in RoutineIds \ {r0} : gos'[r] = gos[r]
      BY <3>2 DEF Started, TypeOK
    <3>4. \A r \in RoutineIds : Alive(r) => gos[r].build # b
      BY <3>1 DEF Limited, OneGoroutineEach
    <3>5. OneGoroutineEach'
      BY <1>6, <3>1, <3>2, <3>3, <3>4 DEF BeginStep, NoneAdmitted, Limited, OneGoroutineEach, Alive
    <3>6. PendingBuilds' \subseteq runningBuilds'
      BY <1>6, <3>1 DEF BeginStep, NoneAdmitted, Limited
    <3>7. UnderWay' \subseteq UnderWay
      BY <1>6, <3>1, <3>3 DEF BeginStep, NoneAdmitted, UnderWay, RunningTasks
    <3>8. QED BY <3>1, <3>5, <3>6, <3>7, FewerUnderWay DEF Limited
  <2>2. QED BY <1>2, <1>6, <2>1 DEF BeginStep
<1>7. ASSUME NEW r0 \in RoutineIds, GoStep(r0) PROVE LimitInv'
  <2>1. ASSUME ~voided' PROVE Limited'
    <3>1. Limited
      BY <1>7, <2>1 DEF GoStep, LimitInv
    <3>2. PICK g \in Goroutine : /\ g.build = gos[r0].build /\ (g.pc = "task" => gos[r0].pc = "task")
                               /\ gos' = [gos EXCEPT ![r0] = g]
      BY <1>7 DEF GoStep
    <3>3. \A r \in RoutineIds : /\ gos'[r].build = gos[r].build
                                /\ (gos'[r].pc = "task" => gos[r].pc = "task")
                                /\ (gos'[r].pc # "free" => gos[r].pc # "free")
      BY <1>7, <3>2 DEF GoStep, Alive, TypeOK
    <3>4. OneGoroutineEach'
      BY <1>7, <3>1, <3>3 DEF GoStep, NoneAdmitted, Limited, OneGoroutineEach, Alive
    <3>5. gos[r0].build \notin PendingBuilds
      BY <1>7, <3>1 DEF GoStep, Limited, OneGoroutineEach
    <3>6. PendingBuilds' \subseteq runningBuilds'
      BY <1>7, <3>1, <3>5 DEF GoStep, NoneAdmitted, Limited
    <3>7. UnderWay' \subseteq UnderWay
      BY <1>7, <3>3 DEF GoStep, NoneAdmitted, UnderWay, RunningTasks
    <3>8. QED BY <3>1, <3>4, <3>6, <3>7, FewerUnderWay DEF Limited
  <2>2. QED BY <1>2, <1>7, <2>1 DEF GoStep
<1>8. ASSUME NEW r0 \in RoutineIds, ExitStep(r0) PROVE LimitInv'
  <2>1. ASSUME ~voided' PROVE Limited'
    <3>1. Limited
      BY <1>8, <2>1 DEF ExitStep, LimitInv
    <3>2. gos'[r0].pc = "free" /\ \A r \in RoutineIds \ {r0} : gos'[r] = gos[r]
      BY <1>8 DEF ExitStep, Free, TypeOK
    <3>3. OneGoroutineEach'
      BY <1>8, <3>1, <3>2 DEF ExitStep, NoneAdmitted, Limited, OneGoroutineEach, Alive
    <3>4. PendingBuilds' \subseteq runningBuilds'
      BY <1>8, <3>1 DEF ExitStep, NoneAdmitted, Limited
    <3>5. UnderWay' \subseteq UnderWay
      BY <1>8, <3>2 DEF ExitStep, NoneAdmitted, UnderWay, RunningTasks
    <3>6. QED BY <3>1, <3>3, <3>4, <3>5, FewerUnderWay DEF Limited
  <2>2. QED BY <1>2, <1>8, <2>1 DEF ExitStep
<1>9. QED BY <1>1, <1>3, <1>4, <1>5, <1>6, <1>7, <1>8 DEF LimitStep

LEMMA InitLimit == RoutineInit => LimitInv
<1> SUFFICES ASSUME RoutineInit PROVE LimitInv
  OBVIOUS
<1>1. PendingBuilds = {} /\ RunningTasks = {}
  BY DEF RoutineInit, Init, Absent, Free, PendingBuilds, RunningTasks
<1>2. UnderWay = {}
  BY <1>1 DEF UnderWay
<1>3. Cardinality(UnderWay) <= MaxRunningBuilds
  BY <1>2, FS_EmptySet, BoundsAssumption
<1>4. OneGoroutineEach
  BY DEF RoutineInit, Free, OneGoroutineEach, Alive
<1>5. QED BY <1>1, <1>3, <1>4 DEF LimitInv, Limited, PendingIsRecent

(* Goroutines that run tasks belong to different Builds, all under way. *)
LEMMA LimitImplies == TypeOK /\ LimitInv => MaxRunningHolds
<1> SUFFICES ASSUME TypeOK, Limited PROVE Cardinality(RunningTasks) <= MaxRunningBuilds
  BY DEF LimitInv, MaxRunningHolds
<1> DEFINE f == [r \in RunningTasks |-> gos[r].build]
<1>1. \A r \in RunningTasks : r \in RoutineIds /\ Alive(r)
  BY DEF RunningTasks, Alive
<1>2. f \in [RunningTasks -> UnderWay]
  BY DEF UnderWay
<1>3. \A r, s \in RunningTasks : gos[r].build = gos[s].build => r = s
  BY <1>1 DEF Limited, OneGoroutineEach
<1>4. f \in Injection(RunningTasks, UnderWay)
  BY <1>2, <1>3 DEF Injection, IsInjective
<1>5. IsFiniteSet(UnderWay) /\ Cardinality(UnderWay) \in Nat
  BY UnderWayFinite
<1> HIDE DEF f
<1>6. IsFiniteSet(RunningTasks) /\ Cardinality(RunningTasks) <= Cardinality(UnderWay)
  BY <1>4, <1>5, FS_Injection
<1>7. Cardinality(RunningTasks) \in Nat
  BY <1>6, FS_CardinalityType
<1>8. QED BY <1>5, <1>6, <1>7, BoundsAssumption DEF Limited

(***************************************************************************)
(* No more than MaxRunningBuilds goroutines run tasks at the same time,    *)
(* until the operator restarts or the worker acts on a Build that has      *)
(* moved on: for any number of Builds, whatever is deleted, whichever      *)
(* request fails.                                                          *)
(***************************************************************************)
THEOREM MaxRunning == Spec => []MaxRunningHolds
<1>1. TypeOK /\ TypeOK' /\ Maps /\ LimitInv /\ [Next]_vars => LimitInv'
  BY NextLimitStep, LimitStepKeeps
<1>2. QED BY <1>1, InitLimit, LimitImplies, TypeInvariant, MapsInvariant, PTL DEF Spec
-----------------------------------------------------------------------------
(***************************************************************************)
(* The end of a Build.  Unless the limit is voided, a goroutine that has   *)
(* its result still to write belongs to a Build that has not ended, and    *)
(* that the worker does not take for failed: nobody else ends it.          *)
(***************************************************************************)
Working(r) == gos[r].pc \in {"task", "update"}

Over == {"Succeeded", "Failed", "Error", "Interrupted"}

NotOver ==
  ~voided => \A r \in RoutineIds : Working(r) =>
    api[gos[r].build].phase \notin Over /\ cache[gos[r].build].phase # "Failed"

(* The worker or a goroutine writes b, and writes no phase outside phases. *)
Writes(b, phases) ==
  /\ cache' = cache /\ \A c \in Builds \ {b} : api'[c] = api[c]
  /\ api'[b].phase \in {api[b].phase} \cup phases

(* A patch writes the phase of its target, if it writes one at all. *)
LEMMA PatchWrites ==
  ASSUME TypeOK, NEW b \in Builds, NEW base, NEW target,
         PatchStatus(b, base, target) \/ PatchFails(b, base, target) \/ PatchNotFound(b)
  PROVE  Writes(b, {target.phase} \ {base.phase})
<1>1. CASE PatchStatus(b, base, target)
  <2>1. api'[b].phase = IF target.phase = base.phase THEN api[b].phase ELSE target.phase
    BY <1>1 DEF PatchStatus, MergeFrom, TypeOK, CtrlTypeOK, BuildObject
  <2>2. \A c \in Builds \ {b} : api'[c] = api[c]
    BY <1>1 DEF PatchStatus, TypeOK, CtrlTypeOK
  <2>3. QED BY <1>1, <2>1, <2>2 DEF PatchStatus, Writes
<1>2. CASE PatchFails(b, base, target) \/ PatchNotFound(b)
  BY <1>2 DEF PatchFails, PatchNotFound, Writes
<1>3. QED BY <1>1, <1>2

(* So does a handler that ends in Update. *)
LEMMA UpdateWrites ==
  ASSUME TypeOK, NEW b \in Builds, NEW base, NEW target, NEW repoll,
         Update(b, base, target, repoll)
  PROVE  Writes(b, {target.phase} \ {base.phase})
<1>1. PatchStatus(b, base, target) \/ PatchFails(b, base, target) \/ PatchNotFound(b)
  BY DEF Update
<1>2. QED BY <1>1, PatchWrites

(* What the handlers that start no goroutine write. *)
LEMMA HandlersWrite ==
  ASSUME TypeOK, NEW b \in Builds
  PROVE  /\ Initialize(b) => Writes(b, {"Scheduling"})
         /\ ScheduleRoutine(b) => Writes(b, {"Pending"})
         /\ RoutineExists(b) \/ RoutineMissing(b) => Writes(b, {"Failed"})
         /\ StillRunning(b) => Writes(b, {})
         /\ Shared(b) => Writes(b, {"Initialization"}) \/ GiveUp(b)
         /\ GiveUp(b) => Writes(b, {"Error"})
<1>0. cache[b] \in BuildObject
  BY DEF TypeOK, CtrlTypeOK
<1>1. \A p : [cache[b] EXCEPT !.phase = p].phase = p
  BY <1>0 DEF BuildObject
<1>2. ASSUME NEW p, NEW q, Writes(b, {p} \ {q}) PROVE Writes(b, {p})
  BY <1>2 DEF Writes
<1>3. ASSUME Initialize(b) PROVE Writes(b, {"Scheduling"})
  BY <1>1, <1>2, <1>3, UpdateWrites DEF Initialize
<1>4. ASSUME ScheduleRoutine(b) PROVE Writes(b, {"Pending"})
  <2> DEFINE target == [cache[b] EXCEPT !.phase = "Pending"]
  <2>1. PatchStatus(b, cache[b], target) \/ PatchFails(b, cache[b], target) \/ PatchNotFound(b)
    BY <1>4 DEF ScheduleRoutine, Schedule
  <2>2. QED BY <1>1, <1>2, <2>1, PatchWrites
<1>5. ASSUME RoutineExists(b) \/ RoutineMissing(b) PROVE Writes(b, {"Failed"})
  BY <1>1, <1>2, <1>5, UpdateWrites DEF RoutineExists, RoutineMissing
<1>6. ASSUME StillRunning(b) PROVE Writes(b, {})
  BY <1>6 DEF StillRunning, Writes
<1>7. ASSUME GiveUp(b) PROVE Writes(b, {"Error"})
  BY <1>1, <1>2, <1>7, UpdateWrites DEF GiveUp
<1>8. ASSUME Shared(b), ~GiveUp(b) PROVE Writes(b, {"Initialization"})
  <2>1. CASE BackOff(b) \/ ReconcileNothing(b)
    BY <2>1 DEF BackOff, ReconcileNothing, Writes
  <2>2. ASSUME NEW target, target.phase = cache[b].phase, Update(b, cache[b], target, FALSE)
        PROVE  Writes(b, {"Initialization"})
    BY <2>2, UpdateWrites DEF Writes
  <2>3. CASE ScheduleWait(b)
    BY <2>2, <2>3 DEF ScheduleWait
  <2>4. CASE RecordFailure(b)
    <3>1. [cache[b] EXCEPT !.attempt = 0].phase = cache[b].phase
      BY <1>0 DEF BuildObject
    <3>2. QED BY <2>2, <2>4, <3>1 DEF RecordFailure
  <2>5. CASE Retry(b)
    <3>1. [cache[b] EXCEPT !.phase = "Initialization", !.attempt = @ + 1].phase = "Initialization"
      BY <1>0 DEF BuildObject
    <3>2. QED BY <1>2, <2>5, <3>1, UpdateWrites DEF Retry
  <2>6. QED BY <1>8, <2>1, <2>3, <2>4, <2>5 DEF Shared, ErrorRecovery
<1>9. QED BY <1>3, <1>4, <1>5, <1>6, <1>7, <1>8

(* A goroutine writes its result to its Build and to no other. *)
LEMMA RunBuildWrites ==
  ASSUME TypeOK, NEW r \in RoutineIds, RunBuild(r)
  PROVE  \/ api' = api /\ cache' = cache
         \/ WriteResult(r) /\ gos[r].build \in Builds /\ Writes(gos[r].build, Over \cup {"None"})
<1>1. CASE WriteResult(r)
  <2> DEFINE b == gos[r].build
             base == [api[b] EXCEPT !.phase = gos[r].view]
             target == [api[b] EXCEPT !.phase = gos[r].result]
  <2>1. gos[r] \in Goroutine /\ b \in Builds /\ api[b] \in BuildObject
    BY <1>1, GoroutineTypes DEF WriteResult, TypeOK, CtrlTypeOK, Goroutine
  <2>2. target.phase \in Over \cup {"None"}
    BY <2>1 DEF BuildObject, Goroutine, Over
  <2>3. PatchStatus(b, base, target) \/ PatchFails(b, base, target) \/ PatchNotFound(b)
    BY <1>1 DEF WriteResult
  <2> HIDE DEF base, target
  <2>4. Writes(b, {target.phase} \ {base.phase})
    BY <2>1, <2>3, PatchWrites
  <2>5. QED BY <1>1, <2>1, <2>2, <2>4 DEF Writes
<1>2. CASE NextTask(r) \/ TaskUpdateFails(r) \/ LastTaskDone(r) \/ Exit(r)
  BY <1>2 DEF NextTask, TaskUpdateFails, LastTaskDone, Exit, ctrlVars
<1>3. QED BY <1>1, <1>2 DEF RunBuild

(* A step starts no goroutine, and ends no Build that still has one at work. *)
LEMMA NotOverKept ==
  ASSUME NotOver, voided => voided',
         \A r \in RoutineIds : Working(r)' =>
           /\ Working(r) /\ gos'[r].build = gos[r].build
           /\ ~voided' => /\ \/ api'[gos[r].build].phase = api[gos[r].build].phase
                             \/ api'[gos[r].build].phase \notin Over
                          /\ \/ cache'[gos[r].build] = cache[gos[r].build]
                             \/ cache'[gos[r].build] = api[gos[r].build]
  PROVE  NotOver'
BY DEF NotOver, Over

(* A handler that writes b and leaves the goroutines alone: it may end b   *)
(* when b has no goroutine at work.                                        *)
LEMMA HandlerKeepsNotOver ==
  ASSUME TypeOK, NotOver, NEW b \in Builds, NEW phases, Writes(b, phases),
         gos' = gos, voided => voided',
         \/ phases \cap Over = {}
         \/ ~voided' => \A r \in RoutineIds : Working(r) => gos[r].build # b
  PROVE  NotOver'
<1> SUFFICES ASSUME NEW r \in RoutineIds, Working(r), ~voided'
             PROVE  /\ \/ api'[gos[r].build].phase = api[gos[r].build].phase
                       \/ api'[gos[r].build].phase \notin Over
                    /\ cache'[gos[r].build] = cache[gos[r].build]
  BY NotOverKept DEF Working
<1>1. gos[r].build \in Builds
  BY GoroutineTypes DEF Working, Goroutine
<1>2. CASE gos[r].build = b
  BY <1>2 DEF Writes
<1>3. CASE gos[r].build # b
  BY <1>1, <1>3 DEF Writes
<1>4. QED BY <1>2, <1>3

LEMMA ReconcileKeepsNotOver ==
  ASSUME TypeOK, Maps, LimitInv, NotOver, NEW b \in Builds, Reconcile(b)
  PROVE  NotOver'
<1>1. ASSUME ~voided, NEW r \in RoutineIds, Working(r), gos[r].build = b
      PROVE  b \in routines /\ b \notin PendingBuilds /\ cache[b].phase # "Failed"
  <2>1. Alive(r)
    BY <1>1 DEF Working, Alive
  <2>2. QED BY <1>1, <2>1 DEF LimitInv, Limited, OneGoroutineEach, NotOver
<1>2. CASE Initialize(b)
  BY <1>2, HandlersWrite, HandlerKeepsNotOver DEF Initialize, Over
<1>3. CASE ScheduleRoutine(b)
  <2>1. gos' = gos /\ (voided => voided')
    BY <1>3 DEF ScheduleRoutine
  <2>2. QED BY <1>3, <2>1, HandlersWrite, HandlerKeepsNotOver DEF Over
<1>4. CASE StartRoutine(b)
  <2> DEFINE target == [cache[b] EXCEPT !.phase = "Running"]
  <2>0. target.phase = "Running" /\ cache[b].phase = "Pending"
    BY <1>4 DEF StartRoutine, TypeOK, CtrlTypeOK, BuildObject
  <2> HIDE DEF target
  <2>1. ASSUME PatchStatus(b, cache[b], target) \/ PatchFails(b, cache[b], target) \/ PatchNotFound(b)
        PROVE  Writes(b, {"Running"})
    BY <2>0, <2>1, PatchWrites DEF Writes
  <2>2. CASE /\ PatchStatus(b, cache[b], target)
             /\ \E r \in RoutineIds : gos[r].pc = "free" /\ gos' = [gos EXCEPT ![r] = Started(b)]
             /\ voided' = (voided \/ api[b].phase # "Pending")
    <3>1. PICK r0 \in RoutineIds : gos[r0].pc = "free" /\ gos' = [gos EXCEPT ![r0] = Started(b)]
      BY <2>2
    <3>2. gos'[r0].build = b /\ \A r \in RoutineIds \ {r0} : gos'[r] = gos[r]
      BY <3>1 DEF Started, TypeOK
    <3>3. Writes(b, {"Running"})
      BY <2>1, <2>2
    <3>4. ASSUME ~voided', NEW r \in RoutineIds, Working(r)'
          PROVE  api'[gos'[r].build].phase \notin Over /\ cache'[gos'[r].build].phase # "Failed"
      <4>1. CASE gos'[r].build = b
        BY <2>0, <2>2, <3>3, <3>4, <4>1 DEF Writes, Over
      <4>2. CASE gos'[r].build # b
        <5>1. gos'[r] = gos[r] /\ Working(r) /\ ~voided
          BY <2>2, <3>2, <3>4, <4>2 DEF Working
        <5>2. gos[r].build \in Builds
          BY <5>1, GoroutineTypes DEF Working, Goroutine
        <5>3. QED BY <3>3, <4>2, <5>1, <5>2 DEF Writes, NotOver
      <4>3. QED BY <4>1, <4>2
    <3>5. QED BY <3>4 DEF NotOver
  <2>3. CASE /\ PatchFails(b, cache[b], target) \/ PatchNotFound(b)
             /\ UNCHANGED <<gos, voided>>
    BY <2>1, <2>3, HandlerKeepsNotOver DEF Over
  <2>4. QED BY <1>4, <2>2, <2>3 DEF StartRoutine, target
<1>5. CASE RoutinePanics(b)
  BY <1>5 DEF RoutinePanics, NotOver
<1>6. CASE RoutineExists(b)
  <2>1. gos' = gos /\ voided' = (voided \/ api[b].phase # "Pending")
    BY <1>6 DEF RoutineExists
  <2>2. ~voided' => b \in PendingBuilds /\ ~voided
    BY <2>1 DEF PendingBuilds
  <2>3. ~voided' => \A r \in RoutineIds : Working(r) => gos[r].build # b
    BY <1>1, <2>2
  <2>4. QED BY <1>6, <2>1, <2>3, HandlersWrite, HandlerKeepsNotOver
<1>7. CASE RoutineMissing(b)
  <2>1. gos' = gos /\ voided' = voided /\ b \notin routines
    BY <1>7 DEF RoutineMissing
  <2>2. ~voided' => \A r \in RoutineIds : Working(r) => gos[r].build # b
    BY <1>1, <2>1
  <2>3. QED BY <1>7, <2>1, <2>2, HandlersWrite, HandlerKeepsNotOver
<1>8. CASE StillRunning(b)
  BY <1>8, HandlersWrite, HandlerKeepsNotOver DEF StillRunning
<1>9. CASE Shared(b)
  <2>1. gos' = gos /\ voided' = voided
    BY <1>9 DEF Shared
  <2>2. CASE GiveUp(b)
    <3>1. ~voided' => \A r \in RoutineIds : Working(r) => gos[r].build # b
      BY <1>1, <2>1, <2>2 DEF GiveUp
    <3>2. QED BY <2>1, <2>2, <3>1, HandlersWrite, HandlerKeepsNotOver
  <2>3. CASE ~GiveUp(b)
    BY <1>9, <2>1, <2>3, HandlersWrite, HandlerKeepsNotOver DEF Over
  <2>4. QED BY <2>2, <2>3
<1>10. QED BY <1>2, <1>3, <1>4, <1>5, <1>6, <1>7, <1>8, <1>9 DEF Reconcile

LEMMA RunBuildKeepsNotOver ==
  ASSUME TypeOK, LimitInv, NotOver, NEW r0 \in RoutineIds, RunBuild(r0)
  PROVE  NotOver'
<1>1. /\ voided' = voided
      /\ \A r \in RoutineIds \ {r0} : gos'[r] = gos[r]
      /\ Working(r0)' => Working(r0) /\ gos'[r0].build = gos[r0].build
  <2>1. CASE NextTask(r0)
    BY <2>1 DEF NextTask, Working, TypeOK, Goroutine, Free
  <2>2. CASE TaskUpdateFails(r0) \/ LastTaskDone(r0)
    BY <2>2 DEF TaskUpdateFails, LastTaskDone, Finish, Working, TypeOK, Goroutine, Free
  <2>3. CASE WriteResult(r0)
    BY <2>3 DEF WriteResult, Working, TypeOK, Goroutine, Free
  <2>4. CASE Exit(r0)
    BY <2>4 DEF Exit, Working, TypeOK, Free
  <2>5. QED BY <2>1, <2>2, <2>3, <2>4 DEF RunBuild
<1>2. CASE api' = api /\ cache' = cache
  <2>1. \A r \in RoutineIds : Working(r)' => Working(r) /\ gos'[r].build = gos[r].build
    BY <1>1 DEF Working
  <2>2. QED BY <1>1, <1>2, <2>1, NotOverKept
<1>3. CASE WriteResult(r0) /\ gos[r0].build \in Builds /\ Writes(gos[r0].build, Over \cup {"None"})
  <2>1. gos[r0].pc = "update" /\ ~Working(r0)' /\ Alive(r0)
    BY <1>3 DEF WriteResult, Working, Alive, TypeOK, Goroutine, Free
  <2>2. ASSUME NEW r \in RoutineIds, Working(r)'
        PROVE  /\ Working(r) /\ gos'[r].build = gos[r].build
               /\ ~voided' => /\ api'[gos[r].build] = api[gos[r].build]
                              /\ cache'[gos[r].build] = cache[gos[r].build]
    <3>1. r # r0 /\ gos'[r] = gos[r] /\ Working(r)
      BY <1>1, <2>1, <2>2 DEF Working
    <3>2. gos[r].build \in Builds /\ Alive(r)
      BY <3>1, GoroutineTypes DEF Working, Alive, Goroutine
    <3>3. ~voided => gos[r].build # gos[r0].build
      BY <2>1, <3>1, <3>2 DEF LimitInv, Limited, OneGoroutineEach
    <3>4. QED BY <1>1, <1>3, <3>1, <3>2, <3>3 DEF Writes
  <2>3. QED BY <1>1, <2>2, NotOverKept
<1>4. QED BY <1>2, <1>3, RunBuildWrites

(* Every step keeps the Builds of goroutines at work from ending. *)
LEMMA NextKeepsNotOver ==
  ASSUME TypeOK, Maps, LimitInv, NotOver, [Next]_vars
  PROVE  NotOver'
<1>1. ASSUME NEW b \in Builds, EnvironmentStep(b) PROVE NotOver'
  <2>1. gos' = gos /\ voided' = voided
    BY <1>1 DEF EnvironmentStep
  <2>2. \A r \in RoutineIds : Working(r) => gos[r].build \in Builds
    BY GoroutineTypes DEF Working, Goroutine
  <2>3. ASSUME NEW c \in Builds
        PROVE  /\ api'[c].phase = api[c].phase \/ api'[c].phase \notin Over
               /\ cache'[c] = cache[c] \/ cache'[c] = api[c]
    <3>1. CASE Create(b)
      BY <3>1 DEF Create, Created, Over, TypeOK, CtrlTypeOK
    <3>2. CASE Delete(b)
      BY <3>2 DEF Delete, Absent, Over, TypeOK, CtrlTypeOK
    <3>3. CASE Observe(b)
      BY <3>3 DEF Observe, TypeOK, CtrlTypeOK
    <3>4. CASE TimerFires(b)
      BY <3>4 DEF TimerFires
    <3>5. QED BY <1>1, <3>1, <3>2, <3>3, <3>4 DEF EnvironmentStep, Environment
  <2>4. QED BY <2>1, <2>2, <2>3, NotOverKept DEF Working
<1>2. CASE \E b \in Builds : Reconcile(b)
  BY <1>2, ReconcileKeepsNotOver
<1>3. CASE MonitorStarted
  BY <1>3 DEF MonitorStarted, NotOver, Working
<1>4. CASE \E r \in RoutineIds : RunBuild(r)
  BY <1>4, RunBuildKeepsNotOver
<1>5. CASE RestartOperator
  BY <1>5 DEF RestartOperator, NotOver
<1>6. CASE UNCHANGED vars
  BY <1>6 DEF vars, ctrlVars, NotOver, Working
<1>7. QED BY <1>1, <1>2, <1>3, <1>4, <1>5, <1>6 DEF Next

-----------------------------------------------------------------------------
(***************************************************************************)
(* The life of a Build (BuildLife).  The worker moves on in order, as in   *)
(* BuildControllerProofs.  A goroutine that has come to its end knows its  *)
(* result, and by NotOver it writes the result where it still belongs.     *)
(***************************************************************************)
ResultKnown == \A r \in RoutineIds : gos[r].pc = "update" => gos[r].result \in Over

(* Every step keeps the results. *)
LEMMA NextKeepsResult ==
  ASSUME TypeOK, ResultKnown, [Next]_vars
  PROVE  ResultKnown'
<1>1. ASSUME gos' = gos PROVE ResultKnown'
  BY <1>1 DEF ResultKnown
<1>2. ASSUME NEW b \in Builds, EnvironmentStep(b) PROVE ResultKnown'
  BY <1>1, <1>2 DEF EnvironmentStep
<1>3. ASSUME NEW b \in Builds, StartRoutine(b) PROVE ResultKnown'
  BY <1>3 DEF StartRoutine, Started, ResultKnown, TypeOK
<1>4. ASSUME NEW b \in Builds, Reconcile(b), ~StartRoutine(b) PROVE ResultKnown'
  <2>1. CASE RoutinePanics(b)
    BY <2>1 DEF RoutinePanics, Free, ResultKnown
  <2>2. CASE ~RoutinePanics(b)
    <3>1. gos' = gos
      BY <1>4, <2>2 DEF Reconcile, Initialize, ScheduleRoutine, RoutineExists, RoutineMissing,
         StillRunning, Shared
    <3>2. QED BY <1>1, <3>1
  <2>3. QED BY <2>1, <2>2
<1>5. ASSUME NEW r \in RoutineIds, RunBuild(r) PROVE ResultKnown'
  <2>1. CASE NextTask(r)
    BY <2>1 DEF NextTask, ResultKnown, TypeOK, Goroutine, Free
  <2>2. CASE TaskUpdateFails(r) \/ LastTaskDone(r)
    BY <2>2 DEF TaskUpdateFails, LastTaskDone, Finish, ResultKnown, Over, TypeOK, Goroutine, Free
  <2>3. CASE WriteResult(r)
    BY <2>3 DEF WriteResult, ResultKnown, TypeOK, Goroutine, Free
  <2>4. CASE Exit(r)
    BY <2>4 DEF Exit, ResultKnown, TypeOK, Free
  <2>5. QED BY <1>5, <2>1, <2>2, <2>3, <2>4 DEF RunBuild
<1>6. CASE MonitorStarted
  BY <1>1, <1>6 DEF MonitorStarted
<1>7. CASE RestartOperator
  BY <1>7 DEF RestartOperator, Free, ResultKnown
<1>8. CASE UNCHANGED vars
  BY <1>1, <1>8 DEF vars
<1>9. QED BY <1>2, <1>3, <1>4, <1>5, <1>6, <1>7, <1>8 DEF Next

(* Every handler but the one that panics is orderly. *)
LEMMA ReconcileOrderly ==
  ASSUME TypeOK, NEW b \in Builds, Reconcile(b), ~RoutinePanics(b)
  PROVE  Orderly
<1>0. CtrlTypeOK /\ {"Scheduling", "Running", "Failed"} \subseteq BuildPhases
  BY DEF TypeOK, BuildPhases
<1>1. CASE Initialize(b)
  <2>1. Ordered(cache[b].phase, "Scheduling")
    BY <1>0, <1>1 DEF Initialize, Ordered, Preparing
  <2>2. QED BY <1>0, <1>1, <2>1, UpdateOrderly DEF Initialize
<1>2. CASE ScheduleRoutine(b)
  BY <1>0, <1>2, ScheduleOrderly DEF ScheduleRoutine
<1>3. CASE StartRoutine(b)
  <2> DEFINE target == [cache[b] EXCEPT !.phase = "Running"]
  <2>1. target.phase = "Running"
    BY <1>0 DEF CtrlTypeOK, BuildObject
  <2>2. PatchStatus(b, cache[b], target) \/ PatchFails(b, cache[b], target) \/ PatchNotFound(b)
    BY <1>3 DEF StartRoutine
  <2>3. Read(b) /\ Ordered(cache[b].phase, "Running")
    BY <1>0, <1>3 DEF StartRoutine, Ordered, Preparing
  <2> HIDE DEF target
  <2>4. QED BY <1>0, <2>1, <2>2, <2>3, PatchOrderly
<1>4. CASE RoutineExists(b) \/ RoutineMissing(b)
  <2>1. Ordered(cache[b].phase, "Failed")
    BY <1>0, <1>4 DEF RoutineExists, RoutineMissing, Ordered, Preparing
  <2>2. QED BY <1>0, <1>4, <2>1, UpdateOrderly DEF RoutineExists, RoutineMissing
<1>5. CASE StillRunning(b)
  BY <1>0, <1>5, ReadOrderly DEF StillRunning
<1>6. CASE Shared(b)
  BY <1>0, <1>6, SharedOrderly DEF Shared
<1>7. QED BY <1>1, <1>2, <1>3, <1>4, <1>5, <1>6 DEF Reconcile

(* So is every step, unless the limit is voided: then nothing but what     *)
(* exists is certain.                                                      *)
VoidedStep ==
  /\ voided' /\ (staleReads > 0 => staleReads' > 0)
  /\ \A b \in Builds : InOrder(b) \/ (api'[b].phase = "Absent" <=> api[b].phase = "Absent")

(* A goroutine writes its result to a Build that has not ended. *)
LEMMA RunBuildOrderly ==
  ASSUME TypeOK, NotOver, ResultKnown, NEW r \in RoutineIds, RunBuild(r)
  PROVE  Orderly \/ VoidedStep
<1>1. staleReads' = staleReads /\ voided' = voided
  BY DEF RunBuild, NextTask, TaskUpdateFails, LastTaskDone, WriteResult, Exit, ctrlVars
<1>2. CASE api' = api
  BY <1>1, <1>2, NothingWritten
<1>3. CASE WriteResult(r)
  <2> DEFINE b == gos[r].build
             base == [api[b] EXCEPT !.phase = gos[r].view]
             target == [api[b] EXCEPT !.phase = gos[r].result]
  <2>1. /\ gos[r] \in Goroutine /\ b \in Builds /\ api[b] \in BuildObject
        /\ gos[r].pc = "update"
    BY <1>3, GoroutineTypes DEF WriteResult, TypeOK, CtrlTypeOK, Goroutine
  <2>2. target.phase \in Over
    BY <2>1 DEF ResultKnown, BuildObject
  <2>3. PatchStatus(b, base, target) \/ api' = api
    BY <1>3 DEF WriteResult, PatchFails, PatchNotFound
  <2> HIDE DEF base, target
  <2>4. CASE PatchStatus(b, base, target)
    <3>1. /\ api'[b].phase \in {api[b].phase, target.phase}
          /\ api[b].phase # "Absent"
          /\ \A c \in Builds \ {b} : api'[c] = api[c]
      BY <2>1, <2>4 DEF PatchStatus, MergeFrom, Exists, TypeOK, CtrlTypeOK, BuildObject
    <3>2. \A c \in Builds \ {b} : InOrder(c)
      BY <3>1 DEF InOrder, Ordered
    <3>3. api'[b].phase # "Absent"
      BY <2>2, <3>1 DEF Over
    <3>4. CASE voided
      BY <1>1, <3>1, <3>2, <3>3, <3>4 DEF VoidedStep
    <3>5. CASE ~voided
      <4>1. api[b].phase \in Preparing \cup {"Running"}
        BY <2>1, <3>1, <3>5 DEF NotOver, Working, Over, BuildObject, BuildPhases, Preparing
      <4>2. InOrder(b)
        BY <2>2, <3>1, <4>1 DEF InOrder, Ordered, Over, BuildPhases
      <4>3. QED BY <1>1, <3>2, <4>2 DEF Orderly
    <3>6. QED BY <3>4, <3>5
  <2>5. QED BY <1>2, <2>3, <2>4
<1>4. QED BY <1>2, <1>3, RunBuildWrites

LEMMA NextOrderly ==
  ASSUME TypeOK, NotOver, ResultKnown, [Next]_vars
  PROVE  (Orderly /\ (voided => voided')) \/ VoidedStep
<1>1. ASSUME NEW b \in Builds, EnvironmentStep(b) PROVE Orderly /\ voided' = voided
  BY <1>1, EnvironmentOrderly DEF EnvironmentStep, TypeOK
<1>2. ASSUME NEW b \in Builds, Reconcile(b), ~RoutinePanics(b)
      PROVE  Orderly /\ (voided => voided')
  <2>1. voided => voided'
    BY <1>2 DEF Reconcile, Initialize, ScheduleRoutine, StartRoutine, RoutineExists,
       RoutineMissing, StillRunning, Shared
  <2>2. QED BY <1>2, <2>1, ReconcileOrderly
<1>3. ASSUME NEW b \in Builds, RoutinePanics(b) PROVE VoidedStep
  <2>1. staleReads > 0 => staleReads' > 0
    BY <1>3, ReadCounts DEF RoutinePanics, TypeOK
  <2>2. /\ api[b].phase # "Absent" /\ api'[b].phase = "Running"
        /\ \A c \in Builds \ {b} : api'[c] = api[c]
    BY <1>3 DEF RoutinePanics, Exists, TypeOK, CtrlTypeOK, BuildObject
  <2>3. QED BY <1>3, <2>1, <2>2 DEF RoutinePanics, VoidedStep, InOrder, Ordered
<1>4. CASE MonitorStarted
  BY <1>4, NothingWritten DEF MonitorStarted
<1>5. ASSUME NEW r \in RoutineIds, RunBuild(r)
      PROVE  (Orderly /\ voided' = voided) \/ VoidedStep
  <2>1. voided' = voided
    BY <1>5 DEF RunBuild, NextTask, TaskUpdateFails, LastTaskDone, WriteResult, Exit
  <2>2. QED BY <1>5, <2>1, RunBuildOrderly
<1>6. CASE RestartOperator
  BY <1>6, NothingWritten DEF RestartOperator, Restart
<1>7. CASE UNCHANGED vars
  BY <1>7, NothingWritten DEF vars, ctrlVars
<1>8. QED BY <1>1, <1>2, <1>3, <1>4, <1>5, <1>6, <1>7 DEF Next

(* Such a step is a step in the life of each Build. *)
LEMMA LifeStep ==
  ASSUME TypeOK, TypeOK', NEW b \in Builds,
         (Orderly /\ (voided => voided')) \/ VoidedStep
  PROVE  Life(b)!Next
<1> DEFINE p == api[b].phase
           q == api'[b].phase
           disturbed == voided \/ staleReads > 0
<1>0. p \in BuildPhases \cup {"Absent"} /\ q \in BuildPhases \cup {"Absent"}
  BY DEF TypeOK, CtrlTypeOK, BuildObject
<1>1. disturbed => disturbed'
  BY DEF Orderly, VoidedStep
<1>2. /\ LifePhase(b) = IF p \in Preparing THEN "Waiting" ELSE p
      /\ LifePhase(b)' = IF q \in Preparing THEN "Waiting" ELSE q
  BY DEF LifePhase, Preparing
<1>3. CASE InOrder(b)
  <2>1. \/ Life(b)!Appear \/ Life(b)!Vanish \/ Life(b)!Work
        \/ LifePhase(b)' = LifePhase(b)
    BY <1>0, <1>2, <1>3 DEF InOrder, Exists, Ordered, Preparing, BuildPhases,
       Life!Appear, Life!Vanish, Life!Work, Life!Ended
  <2>2. QED BY <1>1, <2>1 DEF Life!Next
<1>4. CASE disturbed' /\ (q = "Absent" <=> p = "Absent")
  <2>1. Life(b)!Slip \/ LifePhase(b)' = LifePhase(b)
    BY <1>0, <1>2, <1>4 DEF Preparing, BuildPhases, Life!Slip, Life!Under, Life!Ended
  <2>2. QED BY <1>1, <2>1 DEF Life!Next
<1>5. QED BY <1>3, <1>4 DEF Orderly, VoidedStep, Slipped

(* The invariants that the life of a Build rests on. *)
LEMMA LifeInvariants == Spec => [](TypeOK /\ NotOver /\ ResultKnown)
<1>1. RoutineInit => NotOver /\ ResultKnown
  BY DEF RoutineInit, Free, NotOver, Working, ResultKnown
<1>2. TypeOK /\ TypeOK' /\ Maps /\ LimitInv /\ [Next]_vars => LimitInv'
  BY NextLimitStep, LimitStepKeeps
<1>3. TypeOK /\ Maps /\ LimitInv /\ NotOver /\ [Next]_vars => NotOver'
  BY NextKeepsNotOver
<1>4. TypeOK /\ ResultKnown /\ [Next]_vars => ResultKnown'
  BY NextKeepsResult
<1>5. QED BY <1>1, <1>2, <1>3, <1>4, InitLimit, TypeInvariant, MapsInvariant, PTL DEF Spec

(***************************************************************************)
(* Every step of the routine strategy is one of BuildLife: until the       *)
(* worker reads an outdated copy or the limit is voided, a Build moves on  *)
(* in order, though its goroutine writes from a copy of its own.           *)
(***************************************************************************)
THEOREM RoutineKeepsLife == Spec => KeepsBuildLife
<1> DEFINE Step == \A b \in Builds : Life(b)!Next
<1>1. TypeOK /\ TypeOK' /\ NotOver /\ ResultKnown /\ [Next]_vars => Step
  BY NextOrderly, LifeStep
<1> HIDE DEF Step
<1>2. Spec => [][Step]_vars
  BY <1>1, LifeInvariants, PTL DEF Spec
<1>3. QED BY <1>2 DEF KeepsBuildLife, Step

(* That is the life of every single Build, from its beginning. *)
THEOREM RoutineImplementsLife ==
  ASSUME NEW b \in Builds
  PROVE  Spec => Life(b)!Spec
<1>1. RoutineInit => Life(b)!Init
  BY BoundsAssumption DEF RoutineInit, Init, Absent, LifePhase, Life!Init
<1>2. TypeOK /\ TypeOK' /\ NotOver /\ ResultKnown /\ [Next]_vars
        => [Life(b)!Next]_<<LifePhase(b), voided \/ staleReads > 0>>
  BY NextOrderly, LifeStep
<1>3. QED BY <1>1, <1>2, LifeInvariants, PTL DEF Spec, Life!Spec
=============================================================================
