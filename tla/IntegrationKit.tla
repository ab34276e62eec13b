--------------------------- MODULE IntegrationKit ---------------------------
(***************************************************************************)
(* The IntegrationKit controller: one IntegrationKit, the Build of the     *)
(* same name that it creates, the platform and the catalog it waits for.   *)
(*                                                                         *)
(* kit and build are what the API server stores, seen and buildSeen what   *)
(* the two informers last delivered: the operator reads those, and they    *)
(* lag behind independently of each other.  Status patches are merge       *)
(* patches without a lock.  A request may fail; a handler that has changed *)
(* nothing by then is a stuttering step, and one whose effect is there     *)
(* although an error was returned leaves the kit queued.                   *)
(*                                                                         *)
(* The Build controller is reduced to the life of a Build (BuildLife),     *)
(* which both of its strategies implement.                                 *)
(***************************************************************************)
EXTENDS Integers, FiniteSets

CONSTANTS
  Specs,       \* the specifications a user gives the kit
  Digest,      \* Digest[s]: the hash over the fields that are hashed
  WithImage,   \* the specifications that name an image
  Malformed,   \* those whose builder trait fails, and leaves no trace in the kit
  Rejected,    \* those whose builder trait sets the kit to Error
  MaxEdits,    \* bound: edits of the specification
  MaxMishaps   \* bound: outdated kits read, Builds deleted by a user or
               \* taken up again, and platforms and catalogs that are not
               \* ready any more

ASSUME SpecsAssumption ==
  IsFiniteSet(Specs) /\ WithImage \cup Malformed \cup Rejected \subseteq Specs

ASSUME DigestAssumption == Digest \in [Specs -> Nat \ {0}]

ASSUME KitBoundsAssumption == MaxEdits \in Nat /\ MaxMishaps \in Nat

VARIABLES
  kit,        \* the IntegrationKit on the API server
  seen,       \* the IntegrationKit in the cache
  build,      \* the Build of that name on the API server
  buildSeen,  \* that Build in the cache
  events,     \* undelivered events that pass the predicates
  queued,     \* is the kit in the work queue, or will a delay bring it back?
  platform,   \* the IntegrationPlatform in the cache
  catalog,    \* the CamelCatalog in the cache
  overtaken,  \* history: was a build under way of another specification?
  edits,      \* number of edits so far
  mishaps     \* number of mishaps so far

vars == <<kit, seen, build, buildSeen, events, queued, platform, catalog, overtaken, edits, mishaps>>
-----------------------------------------------------------------------------
KitPhases == {"None", "WaitingForPlatform", "Initialization", "WaitingForCatalog",
              "BuildSubmitted", "BuildRunning", "Ready", "Error"}

(* An image is told by where it comes from. *)
NoImage   == [from |-> "nowhere"]
Given(s)  == [from |-> "spec", spec |-> s]
BuiltOf(s) == [from |-> "build", spec |-> s]

Images == {NoImage} \cup {Given(s) : s \in WithImage} \cup {BuiltOf(s) : s \in Specs}

(* external: is the kit labelled external or synthetic? digest 0 is none.  *)
Kit == [external : BOOLEAN, phase : KitPhases, spec : Specs,
        digest : {0} \cup {Digest[s] : s \in Specs}, image : Images]

Builder == INSTANCE BuildLife WITH phase <- build.phase, disturbed <- mishaps > 0

Under == Builder!Under
Ended == Builder!Ended

NoBuild  == [phase |-> "Absent"]
NewBuild(s) == [phase |-> "Waiting", spec |-> s]

Build == [phase : Under \cup Ended, spec : Specs]

(* Status().Patch: a field is written when base and target disagree. *)
MergeFrom(stored, base, target) ==
  [stored EXCEPT !.phase  = IF target.phase = base.phase THEN @ ELSE target.phase,
                 !.digest = IF target.digest = base.digest THEN @ ELSE target.digest,
                 !.image  = IF target.image = base.image THEN @ ELSE target.image]

(* reconcileIntegrationKit.update: every patch carries the digest of the   *)
(* specification that was read.                                            *)
Update(phase, image) ==
  LET target == [seen EXCEPT !.phase = phase, !.image = image, !.digest = Digest[seen.spec]]
  IN /\ kit' = MergeFrom(kit, seen, target)
     /\ events' = IF kit'.phase # kit.phase THEN events \cup {"kit"} ELSE events
     /\ UNCHANGED build

NoUpdate == UNCHANGED <<kit, build, events>>

(* Reconcile reads a kit in one of phases.  Once it is done the kit leaves *)
(* the queue, unless an event or the error of a request that took effect   *)
(* keeps it there.                                                         *)
Read(phases) ==
  /\ queued /\ seen.phase \in phases
  /\ queued' \in BOOLEAN
  /\ mishaps' = IF seen = kit THEN mishaps ELSE mishaps + 1
  /\ mishaps' <= MaxMishaps
  /\ UNCHANGED <<seen, buildSeen, platform, catalog, overtaken, edits>>
-----------------------------------------------------------------------------
Init ==
  /\ \E s \in Specs, e \in BOOLEAN :
       kit = [external |-> e, phase |-> "None", spec |-> s, digest |-> 0, image |-> NoImage]
  /\ seen = kit
  /\ build = NoBuild /\ buildSeen = NoBuild
  /\ events = {} /\ queued = TRUE
  /\ platform \in {"Absent", "NotReady"}
  /\ catalog = "NotReady"
  /\ overtaken = FALSE
  /\ edits = 0 /\ mishaps = 0

(* A new kit goes to Initialization when there is no platform, or a ready  *)
(* one; an external kit does not wait.                                     *)
ShiftPhase ==
  /\ Read({"None", "WaitingForPlatform"})
  /\ LET phase == IF seen.external \/ platform # "NotReady"
                  THEN "Initialization" ELSE "WaitingForPlatform"
     IN IF phase # seen.phase THEN Update(phase, seen.image) ELSE NoUpdate

(* Mutant of InitializeImage: a kit without an image is taken for one that *)
(* names it.                                                               *)
InitializeImageAlways ==
  /\ Read({"Initialization", "WaitingForCatalog"})
  /\ Update("Ready", Given(seen.spec))

(* initializeAction.Handle of a kit that names its image. *)
InitializeImage ==
  /\ Read({"Initialization", "WaitingForCatalog"})
  /\ seen.spec \in WithImage
  /\ Update("Ready", Given(seen.spec))

(* initializeAction.Handle of a kit that has to be built.  It comes again  *)
(* after a delay while it waits for the catalog.                           *)
PhaseFor(c) ==
  IF c = "Ready" THEN "BuildSubmitted" ELSE IF c = "Error" THEN "Error" ELSE "WaitingForCatalog"

InitializeBuild ==
  /\ Read({"Initialization", "WaitingForCatalog"})
  /\ seen.spec \notin WithImage
  /\ Update(PhaseFor(catalog), seen.image)
  /\ PhaseFor(catalog) = "WaitingForCatalog" => queued'

(* handleBuildSubmitted without a Build, or with one that has ended, is up *)
(* to createBuild, which applies the traits first.                         *)
NeedsBuild == buildSeen.phase \in Ended \cup {"Absent"}

(* It deletes the Build and creates another. *)
CreateBuild ==
  /\ Read({"BuildSubmitted"})
  /\ NeedsBuild /\ seen.spec \notin Malformed \cup Rejected
  /\ build' = NewBuild(seen.spec)
  /\ events' = events \cup {"build"}
  /\ UNCHANGED kit

(* The builder trait cannot read the configuration of a task: the error    *)
(* comes every time, and the status says nothing of it.                    *)
BuilderTraitFails ==
  /\ Read({"BuildSubmitted"})
  /\ NeedsBuild /\ seen.spec \in Malformed
  /\ queued'
  /\ NoUpdate

(* failIntegrationKit, in the middle of the traits: it writes the Error by *)
(* an update, which is refused when the kit read is outdated.  Then the    *)
(* traits fail, or the builder trait returns as if nothing had happened    *)
(* and createBuild goes on, with no task to put into the Build.            *)
RejectKit ==
  /\ Read({"BuildSubmitted"})
  /\ NeedsBuild /\ seen.spec \in Rejected /\ seen = kit
  /\ kit' = [kit EXCEPT !.phase = "Error"]
  /\ \/ UNCHANGED build /\ events' = events \cup {"kit"} /\ queued'
     \/ build' = NewBuild(seen.spec) /\ events' = events \cup {"kit", "build"}

(* createBuild deletes the Build and cannot create the new one. *)
CreateBuildFails ==
  /\ Read({"BuildSubmitted"})
  /\ NeedsBuild /\ seen.spec \notin Malformed \cup Rejected /\ build # NoBuild
  /\ build' = NoBuild
  /\ events' = events \cup {"build"}
  /\ queued'
  /\ UNCHANGED kit

(* Mutant of BuildIsSubmitted: a Build that has succeeded is taken over. *)
BuildIsSubmittedAdopts ==
  /\ Read({"BuildSubmitted"})
  /\ \/ buildSeen.phase \in {"Running", "Succeeded"} /\ Update("BuildRunning", seen.image)
     \/ buildSeen.phase \in {"Waiting", "Failed"} /\ NoUpdate

(* handleBuildSubmitted with a Build that has not ended. *)
BuildIsSubmitted ==
  /\ Read({"BuildSubmitted"})
  /\ \/ buildSeen.phase = "Running" /\ Update("BuildRunning", seen.image)
     \/ buildSeen.phase \in {"Waiting", "Failed"} /\ NoUpdate

(* Mutant of BuildIsRunning: the kit starts over when its Build is gone. *)
BuildIsRunningStartsOver ==
  /\ Read({"BuildRunning"})
  /\ \/ buildSeen.phase = "Succeeded" /\ Update("Ready", BuiltOf(buildSeen.spec))
     \/ buildSeen.phase \in {"Error", "Interrupted"} /\ Update("Error", seen.image)
     \/ buildSeen.phase \in Under /\ NoUpdate
     \/ buildSeen = NoBuild /\ Update("Initialization", seen.image)

(* handleBuildRunning: a Build that is not found is an error, and the kit  *)
(* is queued again.                                                        *)
BuildIsRunning ==
  /\ Read({"BuildRunning"})
  /\ \/ buildSeen.phase = "Succeeded" /\ Update("Ready", BuiltOf(buildSeen.spec))
     \/ buildSeen.phase \in {"Error", "Interrupted"} /\ Update("Error", seen.image)
     \/ buildSeen.phase \in Under /\ NoUpdate
     \/ buildSeen = NoBuild /\ NoUpdate /\ queued'

(* Mutant of NeedsRebuild: the digest is not compared. *)
NeedsRebuildForImage ==
  seen.phase = "Ready" /\ seen.spec \in WithImage /\ seen.image # Given(seen.spec)

(* Mutant of NeedsRebuild: every event of a Ready kit starts it over. *)
NeedsRebuildAlways == TRUE

(* What makes monitorAction (Ready) or errorAction (Error) start over. *)
NeedsRebuild ==
  \/ Digest[seen.spec] # seen.digest
  \/ seen.phase = "Ready" /\ seen.spec \in WithImage /\ seen.image # Given(seen.spec)

(* monitorAction.Handle and errorAction.Handle of a managed kit. *)
MonitorKit ==
  /\ Read({"Ready", "Error"})
  /\ ~seen.external
  /\ IF NeedsRebuild THEN Update("Initialization", seen.image) ELSE NoUpdate

(* The same of an external kit: a Ready one is patched as it is. *)
MonitorExternal ==
  /\ Read({"Ready", "Error"})
  /\ seen.external
  /\ IF seen.phase = "Ready" THEN Update(seen.phase, seen.image) ELSE NoUpdate

Reconcile ==
  \/ ShiftPhase \/ InitializeImage \/ InitializeBuild
  \/ CreateBuild \/ BuilderTraitFails \/ RejectKit \/ BuildIsSubmitted \/ BuildIsRunning
  \/ MonitorKit \/ MonitorExternal
-----------------------------------------------------------------------------
(* The watches deliver.  Each change of a phase or of the specification is *)
(* an event that queues the kit.                                           *)
ObserveKit ==
  /\ seen # kit \/ "kit" \in events
  /\ seen' = kit
  /\ events' = events \ {"kit"}
  /\ queued' = (queued \/ "kit" \in events)
  /\ UNCHANGED <<kit, build, buildSeen, platform, catalog, overtaken, edits, mishaps>>

ObserveBuild ==
  /\ "build" \in events
  /\ buildSeen' = build
  /\ events' = events \ {"build"}
  /\ queued' = TRUE
  /\ UNCHANGED <<kit, seen, build, platform, catalog, overtaken, edits, mishaps>>

(* The operator starts again: both informers list, and the kit is queued. *)
Restart ==
  /\ seen' = kit /\ buildSeen' = build
  /\ events' = {} /\ queued' = TRUE
  /\ UNCHANGED <<kit, build, platform, catalog, overtaken, edits, mishaps>>

(* The kit waits for a Build, or a Build is under way, or is taken to be. *)
BuildUnderWay ==
  \/ kit.phase \in {"BuildSubmitted", "BuildRunning"} \/ seen.phase = "BuildSubmitted"
  \/ \E b \in {build, buildSeen} : b.phase \in Under

(* A user edits the specification. *)
Edit ==
  /\ edits < MaxEdits /\ edits' = edits + 1
  /\ \E s \in Specs \ {kit.spec} : kit' = [kit EXCEPT !.spec = s]
  /\ overtaken' = (overtaken \/ BuildUnderWay)
  /\ events' = events \cup {"kit"}
  /\ UNCHANGED <<seen, build, buildSeen, queued, platform, catalog, mishaps>>

SetBuild(phase) ==
  /\ build' = [build EXCEPT !.phase = phase]
  /\ events' = events \cup {"build"}
  /\ UNCHANGED <<kit, seen, buildSeen, queued, platform, catalog, edits>>

(* A Build without a task has no strategy, and so no action: the Build     *)
(* controller leaves it as it is for ever.                                 *)
HasTasks == build.spec \notin Rejected

(* The Build controller, as BuildLife shows it. *)
BuildWorks(phases) ==
  /\ \E phase \in phases : SetBuild(phase)
  /\ Builder!Work /\ HasTasks
  /\ UNCHANGED <<overtaken, mishaps>>

(* It acts on something outdated, and may take up again what has ended. *)
BuildSlips ==
  /\ mishaps < MaxMishaps /\ mishaps' = mishaps + 1
  /\ \E phase \in Under \cup Ended : SetBuild(phase)
  /\ Builder!Slip /\ HasTasks
  /\ overtaken' = (overtaken \/ build.spec # kit.spec)

DeleteBuild ==
  /\ build # NoBuild
  /\ mishaps < MaxMishaps /\ mishaps' = mishaps + 1
  /\ build' = NoBuild
  /\ events' = events \cup {"build"}
  /\ UNCHANGED <<kit, seen, buildSeen, queued, platform, catalog, overtaken, edits>>

(* The platform is Ready: a kit whose cached phase says that it waits for  *)
(* the platform is woken.                                                  *)
PlatformReady ==
  /\ platform = "NotReady" /\ platform' = "Ready"
  /\ queued' = (queued \/ seen.phase = "WaitingForPlatform")
  /\ UNCHANGED <<kit, seen, build, buildSeen, events, catalog, overtaken, edits, mishaps>>

(* A catalog is created and initialized; no kit is told.  NotReady stands  *)
(* for a catalog that is missing as well.                                  *)
CatalogSteps ==
  /\ catalog = "NotReady" /\ catalog' \in {"Ready", "Error"}
  /\ UNCHANGED <<kit, seen, build, buildSeen, events, queued, platform, overtaken, edits, mishaps>>

(* The platform starts over, or a catalog is deleted. *)
Reset ==
  /\ mishaps < MaxMishaps /\ mishaps' = mishaps + 1
  /\ \/ platform = "Ready" /\ platform' = "NotReady" /\ UNCHANGED catalog
     \/ catalog # "NotReady" /\ catalog' = "NotReady" /\ UNCHANGED platform
  /\ UNCHANGED <<kit, seen, build, buildSeen, events, queued, overtaken, edits>>

Environment ==
  \/ ObserveKit \/ ObserveBuild \/ Restart \/ Edit \/ BuildWorks(Under \cup Ended) \/ BuildSlips
  \/ DeleteBuild \/ PlatformReady \/ CatalogSteps \/ Reset
-----------------------------------------------------------------------------
Next == Reconcile \/ CreateBuildFails \/ Environment

Spec == Init /\ [][Next]_vars

(***************************************************************************)
(* The watches deliver, the worker serves its queue, the platform and the  *)
(* catalog get ready.  A Build starts and ends in the end (BuildPod and    *)
(* BuildRoutine, BuildsFinish).  A build is not always so short that the   *)
(* kit finds it ended before it has seen it running.                       *)
(***************************************************************************)
Fairness ==
  /\ WF_vars(ObserveKit) /\ WF_vars(ObserveBuild)
  /\ WF_vars(Reconcile)
  /\ WF_vars(PlatformReady) /\ WF_vars(CatalogSteps)
  /\ SF_vars(BuildWorks({"Running"})) /\ SF_vars(BuildWorks(Ended))
  /\ SF_vars(build.phase = "Running" /\ ObserveBuild)
  /\ SF_vars(buildSeen.phase = "Running" /\ BuildIsSubmitted)

FairSpec == Spec /\ Fairness
-----------------------------------------------------------------------------
TypeOK ==
  /\ kit \in Kit /\ seen \in Kit
  /\ build \in Build \cup {NoBuild} /\ buildSeen \in Build \cup {NoBuild}
  /\ events \subseteq {"kit", "build"}
  /\ queued \in BOOLEAN
  /\ platform \in {"Absent", "NotReady", "Ready"}
  /\ catalog \in {"NotReady", "Ready", "Error"}
  /\ overtaken \in BOOLEAN
  /\ edits \in 0..MaxEdits /\ mishaps \in 0..MaxMishaps

(***************************************************************************)
(* The image of a Ready kit is the one its specification names, or was     *)
(* built from a specification with the digest the kit records, unless the  *)
(* specification was edited during a build, or a Build of an earlier one   *)
(* was taken up again.  Otherwise the monitor action would never notice    *)
(* that the kit has to be built again.                                     *)
(***************************************************************************)
ImageOfDigest ==
  kit.phase = "Ready" /\ ~kit.external
    => kit.image # NoImage /\ Digest[kit.image.spec] = kit.digest

ReadyIsBuilt == overtaken \/ ImageOfDigest

(***************************************************************************)
(* A Ready kit is built again only when the specification, as stored or as *)
(* delivered last, is not the one of its digest or image: no outdated copy *)
(* in an earlier phase, no Build and no restart sends it back.  (It may    *)
(* become Error, when a second Build was created from an outdated copy.)   *)
(***************************************************************************)
Outdated(s) == Digest[s] # kit.digest \/ (s \in WithImage /\ kit.image # Given(s))

RebuiltOnlyWhenChanged ==
  [][kit.phase = "Ready" /\ kit'.phase \notin {"Ready", "Error"}
       => ~kit.external /\ \E s \in {kit.spec, seen.spec} : Outdated(s)]_vars

(***************************************************************************)
(* The kit as its users see it: a kit without a runtime version in its     *)
(* status is New.                                                          *)
(***************************************************************************)
LifePhase ==
  CASE kit.phase \in {"None", "WaitingForPlatform", "Initialization"} -> "New"
    [] kit.phase \in {"WaitingForCatalog", "BuildSubmitted", "BuildRunning"} -> "Building"
    [] kit.phase \in {"Ready", "Error"} -> kit.phase

Life == INSTANCE KitLife WITH phase <- LifePhase, edited <- edits > 0

(***************************************************************************)
(* The phases of the kit keep the promise of KitLife: it goes forward, the *)
(* end may be overturned by what comes late, and it starts over only after *)
(* an edit.                                                                *)
(***************************************************************************)
KeepsKitLife == Life!Spec

(***************************************************************************)
(* A managed kit ends, Ready or in Error, with the digest of its           *)
(* specification; an edit after that is built as well.  Three things keep  *)
(* it from its end: its Build is deleted while it waits for it, its        *)
(* builder trait fails every time, or it waits for the Build without tasks *)
(* that an earlier, rejected, specification of it has left.                *)
(***************************************************************************)
Settled ==
  kit.phase \in {"Ready", "Error"} /\ kit.digest = Digest[kit.spec]

Stuck ==
  \/ kit.phase = "BuildRunning" /\ build = NoBuild
  \/ kit.phase = "BuildSubmitted" /\ kit.spec \in Malformed
  \/ kit.phase = "BuildSubmitted" /\ build # NoBuild /\ ~HasTasks

KitFinishes == []<>(Settled \/ kit.external \/ Stuck)
=============================================================================
