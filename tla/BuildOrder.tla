----------------------------- MODULE BuildOrder -----------------------------
(***************************************************************************)
(* The admission rule of the Build queue: Monitor.canSchedule and the      *)
(* BuildList queries it is made of.  Everything here is a function of a    *)
(* list of Builds; the state machines BuildRoutine and BuildPod call       *)
(* canSchedule from their schedule action.                                 *)
(*                                                                         *)
(* A Build is a record with the fields the rule reads: its name (a number, *)
(* so that strings.Compare is <), its creation timestamp, the value of the *)
(* layout label, the set of its builder dependencies, its runtime version  *)
(* and its phase.  Which Build is named in the waiting condition is        *)
(* left out: only the verdict matters.                                     *)
(***************************************************************************)
EXTENDS Integers, FiniteSets

(***************************************************************************)
(* BuildPhase.  "Absent" is not a phase of the API: it is how the state    *)
(* machines say that the Build object does not exist.                      *)
(***************************************************************************)
BuildPhases == {"None", "Initialization", "Scheduling", "Pending", "Running",
                "Succeeded", "Failed", "Interrupted", "Error"}

(* BuildStatus.IsFinished *)
IsFinished(b) == b.phase \in {"Succeeded", "Failed", "Interrupted", "Error"}

(* The two values of the layout label with a meaning of their own: the     *)
(* native layout, and no label at all.                                     *)
NativeSources == "native-sources"
NoLayout == "none"

(* Creation timestamps first, names to break the tie. *)
compareBuilds(b1, b2) ==
  IF b1.created < b2.created THEN -1
  ELSE IF b2.created < b1.created THEN 1
  ELSE IF b1.name < b2.name THEN -1
  ELSE IF b2.name < b1.name THEN 1 ELSE 0

(* Mutant of HasRunningBuilds: a build that is Pending is overlooked. *)
HasRunningBuildsOnly(items) == \E b \in items : b.phase = "Running"

(* BuildList.HasRunningBuilds *)
HasRunningBuilds(items) == \E b \in items : b.phase \in {"Pending", "Running"}

(* Mutant of HasScheduledBuildsBefore: equal timestamps count as before. *)
HasScheduledBuildsNotAfter(items, build) ==
  \E b \in items : /\ b.name # build.name
                   /\ b.phase \in {"Initialization", "Scheduling"}
                   /\ b.created <= build.created

(* BuildList.HasScheduledBuildsBefore *)
HasScheduledBuildsBefore(items, build) ==
  \E b \in items : /\ b.name # build.name
                   /\ b.phase \in {"Initialization", "Scheduling"}
                   /\ b.created < build.created

(* Build b could serve as the base image of build: same runtime, nothing   *)
(* that build does not need, and at least one dependency in common.        *)
Suitable(b, build) ==
  /\ b.name # build.name
  /\ ~IsFinished(b)
  /\ b.version = build.version
  /\ b.deps \subseteq build.deps
  /\ b.deps # {}

(* Mutant of WaitsFor: only queued builds are considered. *)
WaitsForQueued(build, b) ==
  /\ Suitable(b, build)
  /\ b.phase \in {"Initialization", "Scheduling"}
  /\ IF b.deps = build.deps THEN compareBuilds(b, build) < 0 ELSE TRUE

(* What makes build wait for one b of the list: b has started, or it is    *)
(* queued with fewer dependencies, or with the same ones and precedence.   *)
WaitsFor(build, b) ==
  /\ Suitable(b, build)
  /\ \/ b.phase \in {"Pending", "Running"}
     \/ /\ b.phase \in {"Initialization", "Scheduling"}
        /\ IF b.deps = build.deps THEN compareBuilds(b, build) < 0 ELSE TRUE

(* BuildList.HasMatchingBuild *)
HasMatchingBuild(items, build) == \E b \in items : WaitsFor(build, b)

(* The Builds the non-caching reader lists: those whose layout label is    *)
(* set and equal.  A Build without the label matches no selector, not even *)
(* its own.                                                                *)
withCompatibleLayout(items, build) ==
  {b \in items : b.layout = build.layout /\ b.layout # NoLayout}

(* The switch on the order strategy; an unknown strategy admits nothing. *)
orderAllows(strategy, items, build) ==
  \/ strategy = "fifo" /\ ~HasScheduledBuildsBefore(items, build)
  \/ strategy = "dependencies" /\ ~HasMatchingBuild(items, build)
  \/ strategy = "sequential" /\ ~HasRunningBuilds(items)

(* Mutant of canSchedule: the limit is off by one. *)
canScheduleOneMore(maxRunningBuilds, strategy, runningTotal, items, build) ==
  /\ runningTotal <= maxRunningBuilds
  /\ \/ build.layout = NativeSources
     \/ orderAllows(strategy, withCompatibleLayout(items, build), build)

(* Monitor.canSchedule, with runningTotal the size of runningBuilds. *)
canSchedule(maxRunningBuilds, strategy, runningTotal, items, build) ==
  /\ runningTotal < maxRunningBuilds
  /\ \/ build.layout = NativeSources
     \/ orderAllows(strategy, withCompatibleLayout(items, build), build)
=============================================================================
