---------------------------- MODULE BuildRoutine ----------------------------
(***************************************************************************)
(* The Build controller with the "routine" strategy: a build runs as a     *)
(* goroutine of the operator.                                              *)
(*                                                                         *)
(* The reconciling worker and the goroutines share two process-wide maps,  *)
(* routines (the names of the Builds that have a goroutine) and            *)
(* runningBuilds, and both write the status of the Build.  Nothing else    *)
(* synchronizes them.  A handler is one step, but for the monitor action   *)
(* that starts a goroutine: what it does after the go statement is a step  *)
(* of its own, and the goroutine may run in between.                       *)
(***************************************************************************)
EXTENDS BuildController

CONSTANT
  RoutineIds  \* identities for the goroutines alive at the same time

VARIABLES
  routines,  \* builds in the routines map of monitor_routine.go
  gos,       \* gos[r]: what goroutine r is doing
  worker,    \* build whose monitor action is still to run its last line, or Idle
  voided     \* history: has the limit been voided (see MaxRunningHolds)?

vars == <<ctrlVars, routines, gos, worker, voided>>

Idle == -1

(***************************************************************************)
(* A goroutine executes any number of tasks, writes the result and deletes *)
(* its entry of routines.  view is the phase in its copy of the Build,     *)
(* from the last patch it sent; result is the phase it ends with.          *)
(***************************************************************************)
Free == [pc |-> "free", build |-> Idle, view |-> "None", result |-> "None"]

Started(b) == [pc |-> "task", build |-> b, view |-> "Running", result |-> "None"]

Goroutine == [pc : {"task", "update", "exit"}, build : Builds, view : BuildPhases,
              result : {"None", "Succeeded", "Failed", "Error"}]

Live(b) == {r \in RoutineIds : gos[r].pc # "free" /\ gos[r].build = b}
-----------------------------------------------------------------------------
RoutineInit ==
  /\ Init
  /\ routines = {}
  /\ gos = [r \in RoutineIds |-> Free]
  /\ worker = Idle
  /\ voided = FALSE

(* initializeRoutineAction.Handle *)
Initialize(b) ==
  /\ Read(b)
  /\ cache[b].phase \in {"None", "Initialization"}
  /\ Update(b, cache[b], [cache[b] EXCEPT !.phase = "Scheduling"], FALSE)
  /\ UNCHANGED <<runningBuilds, routines, gos, worker, voided>>

(***************************************************************************)
(* monitorRoutineAction.Handle of a Pending Build without a goroutine:     *)
(* patch to Running, then store the entry and start the goroutine.  The    *)
(* worker still has to run the last line of the handler.                   *)
(***************************************************************************)
StartRoutine(b) ==
  /\ Read(b)
  /\ cache[b].phase = "Pending" /\ b \notin routines
  /\ LET target == [cache[b] EXCEPT !.phase = "Running"]
     IN \/ /\ PatchStatus(b, cache[b], target)
           /\ \E r \in RoutineIds : /\ gos[r].pc = "free"
                                    /\ gos' = [gos EXCEPT ![r] = Started(b)]
           /\ routines' = routines \cup {b}
           /\ worker' = b
           /\ voided' = (voided \/ api[b].phase # "Pending")
           /\ api'[b].started
           /\ Done(b)
        \/ /\ \/ PatchFails(b, cache[b], target) /\ Requeue(b)
              \/ PatchNotFound(b) /\ Done(b)
           /\ UNCHANGED <<routines, gos, worker, voided>>
  /\ UNCHANGED runningBuilds

(***************************************************************************)
(* The same, but the Build has been deleted and created again since it was *)
(* read: the new Build has no StartedAt, from which the goroutine computes *)
(* its deadline.  The nil dereference takes the operator down.             *)
(***************************************************************************)
RoutinePanics(b) ==
  /\ Read(b)
  /\ cache[b].phase = "Pending" /\ b \notin routines
  /\ Exists(b) /\ ~api[b].started
  /\ api' = [api EXCEPT ![b].phase = "Running"]
  /\ cache' = api'
  /\ events' = {}
  /\ queue' = {c \in Builds : Exists(c)}
  /\ timers' = {}
  /\ runningBuilds' = {}
  /\ routines' = {}
  /\ gos' = [r \in RoutineIds |-> Free]
  /\ voided' = TRUE
  /\ UNCHANGED <<count, worker>>

(***************************************************************************)
(* The last line of the handler, after the go statement, and the end of    *)
(* Reconcile.  The handler and the goroutine share the Build: Reconcile    *)
(* may read the Failed phase the goroutine has stored there, and requeue.  *)
(***************************************************************************)
MonitorStarted ==
  /\ worker # Idle
  /\ runningBuilds' = runningBuilds \cup {worker}
  /\ worker' = Idle
  /\ \/ UNCHANGED timers
     \/ api[worker].phase = "Failed" /\ timers' = timers \cup {worker}
  /\ UNCHANGED <<api, cache, events, queue, staleReads, count, routines, gos, voided>>

(* A Pending Build that has a goroutine: start over. *)
RoutineExists(b) ==
  /\ Read(b)
  /\ cache[b].phase = "Pending" /\ b \in routines
  /\ routines' = routines \ {b}
  /\ runningBuilds' = runningBuilds \ {b}
  /\ Update(b, cache[b], [cache[b] EXCEPT !.phase = "Failed"], FALSE)
  /\ voided' = (voided \/ api[b].phase # "Pending")
  /\ UNCHANGED <<gos, worker>>

(* Mutant of RoutineMissing: the routines map is not consulted. *)
RoutineTakenForMissing(b) ==
  /\ Read(b)
  /\ cache[b].phase = "Running"
  /\ runningBuilds' = runningBuilds \ {b}
  /\ Update(b, cache[b], [cache[b] EXCEPT !.phase = "Failed"], FALSE)
  /\ UNCHANGED <<routines, gos, worker, voided>>

(* Mutant of RoutineMissing: a Build without a goroutine is left alone. *)
RoutineMissingIgnored(b) ==
  /\ Read(b)
  /\ cache[b].phase = "Running" /\ b \notin routines
  /\ Done(b)
  /\ UNCHANGED <<api, cache, events, runningBuilds, count, routines, gos, worker, voided>>

(* A Running Build that has no goroutine: recover. *)
RoutineMissing(b) ==
  /\ Read(b)
  /\ cache[b].phase = "Running" /\ b \notin routines
  /\ runningBuilds' = runningBuilds \ {b}
  /\ Update(b, cache[b], [cache[b] EXCEPT !.phase = "Failed"], FALSE)
  /\ UNCHANGED <<routines, gos, worker, voided>>

(* A Running Build that has a goroutine: count it, again. *)
StillRunning(b) ==
  /\ Read(b)
  /\ cache[b].phase = "Running" /\ b \in routines
  /\ runningBuilds' = runningBuilds \cup {b}
  /\ Done(b)
  /\ UNCHANGED <<api, cache, events, count, routines, gos, worker, voided>>

(* The actions of the controller that do not depend on the strategy.  The  *)
(* limit is voided when a Build is admitted while an earlier goroutine of  *)
(* the same name is alive, as it is when the monitor action takes for      *)
(* Pending a Build that no longer is.                                      *)
ScheduleRoutine(b) ==
  /\ Schedule(b, FALSE)
  /\ voided' = (voided \/ Live(b) # {})
  /\ UNCHANGED <<routines, gos, worker>>

Shared(b) ==
  /\ ScheduleWait(b) \/ ErrorRecovery(b) \/ ReconcileNothing(b)
  /\ UNCHANGED <<routines, gos, worker, voided>>

Reconcile(b) ==
  /\ worker = Idle
  /\ \/ Initialize(b) \/ ScheduleRoutine(b) \/ StartRoutine(b) \/ RoutinePanics(b)
     \/ RoutineExists(b) \/ RoutineMissing(b) \/ StillRunning(b) \/ Shared(b)
-----------------------------------------------------------------------------
(* runBuild comes to its end with result: monitorFinishedBuild. *)
Finish(r, result) ==
  /\ gos' = [gos EXCEPT ![r].pc = "update", ![r].result = result]
  /\ runningBuilds' = runningBuilds \ {gos[r].build}

(* A task succeeds and is not the last one: the status of the task, which  *)
(* has no phase, is patched, and the goroutine's copy of the Build is what *)
(* the API server answered.  A task that adds nothing sends no patch.      *)
NextTask(r) ==
  /\ gos[r].pc = "task" /\ Exists(gos[r].build)
  /\ gos' = [gos EXCEPT ![r].view = api[gos[r].build].phase]
  /\ UNCHANGED <<ctrlVars, routines, worker, voided>>

(* A task succeeds, it is not the last one, and its status cannot be       *)
(* patched.                                                                *)
TaskUpdateFails(r) ==
  /\ gos[r].pc = "task"
  /\ \/ ~Exists(gos[r].build) /\ UNCHANGED count
     \/ /\ count.failures < MaxFailures
        /\ count' = [count EXCEPT !.failures = @ + 1]
  /\ Finish(r, "Failed")
  /\ UNCHANGED <<api, cache, events, queue, timers, staleReads, routines, worker, voided>>

(* The last task succeeds, or a task fails: a step of it returns an error  *)
(* or the deadline passes (Failed), or the operator cannot run it (Error). *)
LastTaskDone(r) ==
  /\ gos[r].pc = "task"
  /\ \E result \in {"Succeeded", "Failed", "Error"} : Finish(r, result)
  /\ UNCHANGED <<api, cache, events, queue, timers, staleReads, count, routines, worker, voided>>

(* The final updateBuildStatus, whose error is ignored.  The patch is made *)
(* against the goroutine's own copy of the Build.                          *)
WriteResult(r) ==
  LET b == gos[r].build
      base == [api[b] EXCEPT !.phase = gos[r].view]
      target == [api[b] EXCEPT !.phase = gos[r].result]
  IN /\ gos[r].pc = "update"
     /\ PatchStatus(b, base, target) \/ PatchFails(b, base, target) \/ PatchNotFound(b)
     /\ gos' = [gos EXCEPT ![r].pc = "exit"]
     /\ UNCHANGED <<queue, timers, runningBuilds, staleReads, routines, worker, voided>>

(* Mutant of Exit: the entry of routines stays. *)
ExitKeepsEntry(r) ==
  /\ gos[r].pc = "exit"
  /\ gos' = [gos EXCEPT ![r] = Free]
  /\ UNCHANGED <<ctrlVars, routines, worker, voided>>

(* The deferred routines.Delete. *)
Exit(r) ==
  /\ gos[r].pc = "exit"
  /\ routines' = routines \ {gos[r].build}
  /\ gos' = [gos EXCEPT ![r] = Free]
  /\ UNCHANGED <<ctrlVars, worker, voided>>

RunBuild(r) == NextTask(r) \/ TaskUpdateFails(r) \/ LastTaskDone(r) \/ WriteResult(r) \/ Exit(r)

(* The process dies with its goroutines and its maps. *)
RestartOperator ==
  /\ Restart
  /\ routines' = {}
  /\ gos' = [r \in RoutineIds |-> Free]
  /\ worker' = Idle
  /\ voided' = TRUE

EnvironmentStep(b) == Environment(b) /\ UNCHANGED <<routines, gos, worker, voided>>
-----------------------------------------------------------------------------
Next ==
  \/ \E b \in Builds : EnvironmentStep(b) \/ Reconcile(b)
  \/ MonitorStarted
  \/ \E r \in RoutineIds : RunBuild(r)
  \/ RestartOperator

Spec == RoutineInit /\ [][Next]_vars

(***************************************************************************)
(* The watch delivers, timers expire, the worker serves its queue and      *)
(* goroutines come to an end (tasks have a deadline).  Retry is strongly   *)
(* fair because a Build cannot be found inside its backoff for ever: the   *)
(* backoff is at most a second and a Failed Build comes back after five.   *)
(***************************************************************************)
Fairness ==
  /\ \A b \in Builds :
       /\ WF_vars(Observe(b) /\ UNCHANGED <<routines, gos, worker, voided>>)
       /\ WF_vars(TimerFires(b) /\ UNCHANGED <<routines, gos, worker, voided>>)
       /\ SF_vars(Reconcile(b))
       /\ SF_vars(worker = Idle /\ Retry(b) /\ UNCHANGED <<routines, gos, worker, voided>>)
  /\ WF_vars(MonitorStarted)
  /\ \A r \in RoutineIds : WF_vars(LastTaskDone(r)) /\ WF_vars(WriteResult(r) \/ Exit(r))

FairSpec == Spec /\ Fairness
-----------------------------------------------------------------------------
TypeOK ==
  /\ CtrlTypeOK
  /\ routines \subseteq Builds
  /\ gos \in [RoutineIds -> Goroutine \cup {Free}]
  /\ worker \in Builds \cup {Idle}
  /\ voided \in BOOLEAN

(***************************************************************************)
(* A name is in the routines map only while a goroutine of that name is    *)
(* alive.  Otherwise a Build would fail with "Build routine exists" again  *)
(* and again, or stay Running with nothing running.                        *)
(***************************************************************************)
RoutinesAreAlive == \A b \in routines : Live(b) # {}

(***************************************************************************)
(* A goroutine that the routines map still stands for, and that has work   *)
(* to do, is counted in runningBuilds, or about to be.  Whatever happens   *)
(* around it, it never occupies the operator without occupying a slot.     *)
(***************************************************************************)
TrackedIsCounted ==
  \A r \in RoutineIds :
    gos[r].pc = "task" /\ gos[r].build \in routines /\ Live(gos[r].build) = {r}
      => gos[r].build \in runningBuilds \cup {worker}

(***************************************************************************)
(* No more than MaxRunningBuilds goroutines run tasks at the same time,    *)
(* except after a restart, or after the worker has acted on a Build that   *)
(* had moved on since it was read.                                         *)
(***************************************************************************)
RunningTasks == {r \in RoutineIds : gos[r].pc = "task"}

MaxRunningHolds == ~voided => Cardinality(RunningTasks) <= MaxRunningBuilds

(***************************************************************************)
(* A Build lives as BuildLife says: it goes through its phases in order,   *)
(* and its end is the last word, as the kit and the Integration take it.   *)
(* This ends when the worker reads an outdated copy, or the limit is       *)
(* voided (by a restart, or because the Build is admitted while an earlier *)
(* goroutine of its name is alive): then all that holds is that nothing    *)
(* but its creation makes a Build exist.                                   *)
(***************************************************************************)
Life(b) == INSTANCE BuildLife WITH phase <- LifePhase(b), disturbed <- voided \/ staleReads > 0

KeepsBuildLife == [][\A b \in Builds : Life(b)!Next]_vars

(***************************************************************************)
(* A Build that is Pending or Running leaves these phases in the end: its  *)
(* goroutine reports, or the monitor action finds that it is gone.         *)
(***************************************************************************)
NoneLeftRunning ==
  \A b \in Builds : api[b].phase \in {"Pending", "Running"}
                      ~> api[b].phase \notin {"Pending", "Running"}

(***************************************************************************)
(* A Build that waits to be built ends up Succeeded or Error, unless it is *)
(* deleted, or a slot is held by a build that is not running.              *)
(***************************************************************************)
SlotLeaked ==
  \E b \in runningBuilds : api[b].phase \notin {"Pending", "Running"} /\ Live(b) = {}

BuildsFinish ==
  \A b \in Builds : api[b].phase = "None"
                      ~> api[b].phase \in {"Succeeded", "Error", "Absent"} \/ SlotLeaked

(***************************************************************************)
(* What the monitor action says of counting a build that is counted        *)
(* already: it is idempotent.  Once everything has come to rest, no Build  *)
(* but one that is under way holds a slot.                                 *)
(***************************************************************************)
AtRest ==
  /\ events = {} /\ queue = {} /\ timers = {} /\ worker = Idle
  /\ \A r \in RoutineIds : gos[r].pc = "free"

SlotsAreReturned ==
  AtRest => \A b \in runningBuilds : api[b].phase \in {"Pending", "Running"}
=============================================================================
