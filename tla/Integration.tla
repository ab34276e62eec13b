---------------------------- MODULE Integration -----------------------------
(***************************************************************************)
(* The Integration controller: one Integration, the IntegrationKits or the *)
(* Build that make its image, and the Deployment that runs it.             *)
(*                                                                         *)
(* it, kits and build are what the API server stores; seen, kitsSeen and   *)
(* buildSeen are what the informers last delivered, independently of each  *)
(* other.  Status patches are merge patches without a lock.  A handler     *)
(* that returns an error is retried; it may have changed something before. *)
(*                                                                         *)
(* The kits live as KitLife says, which IntegrationKit implements, and the *)
(* Build as BuildLife says, which both strategies of Builds implement.     *)
(* An image is told by the need that it serves: what a specification asks  *)
(* of a kit or a Build (dependencies, traits, sources of a native build).  *)
(***************************************************************************)
EXTENDS Integers, FiniteSets

CONSTANTS
  Specs,        \* the specifications a user gives the Integration
  Kind,         \* Kind[s]: is the image built in a kit, from Git, or given?
  Need,         \* Need[s]: what the image has to serve
  Malformed,    \* the needs whose builder trait cannot be parsed
  Rejected,     \* the needs whose properties the builder trait rejects
  MaxKits,      \* bound: kits created
  MaxRequests,  \* bound: what users do after the creation
  MaxMishaps    \* bound: outdated Integrations read, errors, restarts, and
                \* kits and Builds whose end is overturned

ASSUME KindAssumption == Kind \in [Specs -> {"kit", "git", "image"}]

ASSUME NeedAssumption == Specs \subseteq Nat \ {0} /\ Need \in [Specs -> Nat \ {0}]

ASSUME BuilderAssumption == Malformed \subseteq Nat /\ Rejected \subseteq Nat

ASSUME IntegrationBoundsAssumption ==
  MaxKits \in Nat /\ MaxRequests \in Nat /\ MaxMishaps \in Nat

VARIABLES
  it,          \* the Integration on the API server
  seen,        \* the Integration in the cache
  kits,        \* the IntegrationKits on the API server
  kitsSeen,    \* the IntegrationKits in the cache
  build,       \* the Build of the Integration's name, for a Git build
  buildSeen,   \* that Build in the cache
  deployment,  \* the image of the Deployment, None without one
  pods,        \* the condition its pods are in
  dry,         \* is the Integration annotated dont-run-after-build?
  events,      \* undelivered events that pass the predicates
  queued,      \* is the Integration in the work queue, or backing off?
  requests,    \* number of user requests so far
  mishaps      \* number of mishaps so far

vars == <<it, seen, kits, kitsSeen, build, buildSeen, deployment, pods, dry,
          events, queued, requests, mishaps>>
-----------------------------------------------------------------------------
(* WaitingForPlatform is a phase that nothing sets. *)
Phases == {"None", "Initialization", "BuildingKit", "BuildSubmitted", "BuildRunning",
           "BuildComplete", "Deploying", "Running", "Undeploying", "Error"}

(* No kit, no image, no digest, no Deployment. *)
None == 0

KitNames == 1..MaxKits

Needs == {Need[s] : s \in Specs}

(* The digest is told by the specification it was computed for.            *)
(* InitFailed: Ready is False with the reason InitializationFailed;        *)
(* Deployment: DeploymentAvailable is True.                                *)
Integrations ==
  [spec : Specs, phase : Phases, digest : Specs \cup {None}, kit : KitNames \cup {None},
   image : Needs \cup {None}, conditions : SUBSET {"InitFailed", "Deployment"}]

(* New: the traits have not set the runtime version in the status yet.     *)
(* built: there is an image in the status.                                 *)
NoKit == [phase |-> "Absent"]
GoneKit == [phase |-> "Gone"]
Kits ==
  [phase : {"New", "Building", "Ready", "Error"}, need : Needs, built : BOOLEAN]
    \cup {NoKit, GoneKit}

NoBuild == [phase |-> "Absent"]
Builder == INSTANCE BuildLife WITH phase <- build.phase, disturbed <- mishaps > 0

(* Unreadable: no integration container, or a health report that cannot be *)
(* decoded.                                                                *)
PodStates == {"Starting", "Ready", "Failing", "Unreadable"}

Builds == [phase : Builder!Under \cup Builder!Ended, spec : Specs] \cup {NoBuild}

(* Integration.Initialize: everything but the phase is forgotten. *)
Blank(phase) ==
  [spec |-> seen.spec, phase |-> phase, digest |-> None, kit |-> None,
   image |-> None, conditions |-> {}]

(* Status().Patch: a field is written when base and target disagree, and   *)
(* when it is one of written.                                              *)
MergeFrom(stored, base, target, written) ==
  [f \in DOMAIN stored |->
     IF f = "spec" \/ (target[f] = base[f] /\ f \notin written) THEN stored[f] ELSE target[f]]

(* reconcileIntegration.update: every patch carries the digest of the      *)
(* specification that was read.  The list of the conditions is written as  *)
(* a whole when any of them changes, one that is not modelled included.    *)
Write(target) ==
  \E written \in SUBSET {"conditions"} :
    it' = MergeFrom(it, seen, [target EXCEPT !.digest = seen.spec], written)

Patch(target) ==
  /\ Write(target)
  /\ events' = IF it'.phase # it.phase THEN events \cup {"it"} ELSE events

Update(target) == Patch(target) /\ queued' = FALSE

NoUpdate == UNCHANGED <<it, events>>

(* The handler returns an error. *)
Retry == queued' = TRUE

(* The handler has nothing to do. *)
Nothing == NoUpdate /\ queued' = FALSE

(* The handler has done its work, and its status patch fails. *)
PatchFails == NoUpdate /\ Retry

(* Reconcile reads an Integration in one of phases; a failure is a mishap. *)
(* When it is done the Integration leaves the queue; an error keeps it.    *)
Read(phases, failures) ==
  /\ queued /\ seen.phase \in phases
  /\ mishaps' = mishaps + failures + (IF seen = it THEN 0 ELSE 1)
  /\ mishaps' <= MaxMishaps
  /\ UNCHANGED <<seen, kitsSeen, buildSeen, dry, requests>>
-----------------------------------------------------------------------------
Init ==
  /\ \E s \in Specs :
       it = [spec |-> s, phase |-> "None", digest |-> None, kit |-> None,
             image |-> None, conditions |-> {}]
  /\ seen = it
  /\ kits = [k \in KitNames |-> NoKit] /\ kitsSeen = kits
  /\ build = NoBuild /\ buildSeen = NoBuild
  /\ deployment = None /\ pods = "Starting"
  /\ dry \in BOOLEAN
  /\ events = {} /\ queued = TRUE
  /\ requests = 0 /\ mishaps = 0

(* GetIntegrationKit of the kit in the status. *)
Found(k) == kitsSeen[k] \notin {NoKit, GoneKit}

KitIsFound == seen.kit # None => Found(seen.kit)

(* trait.Apply fails without the kit of the status.  In the running phases *)
(* and in Initialization the container trait sets an image that is given.  *)
TraitImage ==
  IF Kind[seen.spec] = "image" /\ seen.phase \notin {"None", "BuildComplete", "Undeploying"}
  THEN Need[seen.spec] ELSE seen.image

(* Mutant of PlatformSetup: the Integration waits for a platform. *)
PlatformSetupWaits ==
  /\ Read({"None"}, 0)
  /\ KitIsFound
  /\ Update([seen EXCEPT !.phase = "WaitingForPlatform"])
  /\ UNCHANGED <<kits, build, deployment, pods>>

(* platformSetupAction.Handle. *)
PlatformSetup ==
  /\ Read({"None"}, 0)
  /\ KitIsFound
  /\ Update([seen EXCEPT !.phase = "Initialization"])
  /\ UNCHANGED <<kits, build, deployment, pods>>

(* initializeAction.Handle of a new Integration. *)
Initialize ==
  /\ Read({"Initialization"}, 0)
  /\ \/ /\ Kind[seen.spec] = "git"
        /\ Update([seen EXCEPT !.phase = "BuildSubmitted"])
     \/ /\ Kind[seen.spec] # "git" /\ KitIsFound
        /\ Update([seen EXCEPT !.image = TraitImage,
                               !.phase = IF TraitImage # None THEN "BuildComplete" ELSE "BuildingKit"])
  /\ UNCHANGED <<kits, build, deployment, pods>>

(* initializeAction.Handle of one that is undeployed: the gc trait deletes *)
(* the Deployment.  A deletion that fails is only logged.                  *)
InitializeUndeploying ==
  \E failures \in 0..1 :
    /\ Read({"Undeploying"}, failures)
    /\ KitIsFound
    /\ LET phase == IF seen.image # None THEN "BuildComplete" ELSE "BuildingKit"
           target == [seen EXCEPT !.phase = phase, !.conditions = @ \ {"InitFailed"}]
       IN \/ failures = 0 /\ Update(target) /\ deployment' = None
          \/ failures = 1 /\ Update(target) /\ UNCHANGED deployment
          \/ failures = 1 /\ PatchFails /\ deployment' = None
    /\ pods' = IF deployment' = deployment THEN pods ELSE "Starting"
    /\ UNCHANGED <<kits, build>>

(* An Integration in one of these phases is deployed by the next           *)
(* reconciliation: the deployment trait is there in the phase Deploying,   *)
(* and afterwards when it was.                                             *)
Failed == seen.phase = "Error" /\ "InitFailed" \in seen.conditions

HasImage == KitIsFound /\ (seen.kit # None \/ seen.image # None)

(* Mutant of Deployable: the digest is not compared. *)
DeployableUnchecked == seen.phase \in {"Deploying", "Running", "Error"} /\ ~Failed /\ HasImage

Deployable ==
  /\ seen.phase \in {"Deploying", "Running", "Error"}
  /\ ~Failed /\ HasImage /\ seen.digest = seen.spec

HasController == seen.phase = "Deploying" \/ "Deployment" \in seen.conditions

(* The gc trait deletes what an earlier generation of the specification    *)
(* has left, unless the deployment trait has applied it anew.              *)
CollectsGarbage == Deployable /\ ~HasController /\ requests > 0

(* The traits fail, or a post action of theirs: the Integration is in      *)
(* Error until its specification changes.  The Deployment may have been    *)
(* applied or deleted all the same.                                        *)
TraitsFail ==
  /\ Read(Phases \ {"BuildingKit", "BuildSubmitted", "BuildRunning"},
          IF KitIsFound THEN 1 ELSE 0)
  /\ seen.phase \in {"Deploying", "Running", "Error"} => Deployable
  /\ ~(seen.phase = "Initialization" /\ Kind[seen.spec] = "git")
  /\ Retry
  /\ \E image \in {seen.image, TraitImage},
        added \in SUBSET (IF seen.phase = "Deploying" THEN {"Deployment"} ELSE {}) :
       Patch([seen EXCEPT !.phase = "Error", !.image = image,
                           !.conditions = @ \cup {"InitFailed"} \cup added])
  /\ \/ UNCHANGED deployment
     \/ Deployable /\ HasController /\ deployment' = TraitImage
     \/ (seen.phase = "Undeploying" \/ CollectsGarbage) /\ deployment' = None
  /\ pods' = IF deployment' = deployment THEN pods ELSE "Starting"
  /\ UNCHANGED <<kits, build>>
-----------------------------------------------------------------------------
(* buildKitAction.Handle *)
BuildingKit(failures) ==
  /\ Read({"BuildingKit"}, failures)
  /\ UNCHANGED <<build, deployment, pods>>

(* The specification has changed since. *)
BuildingKitStartsOver ==
  /\ BuildingKit(0)
  /\ seen.digest # seen.spec
  /\ Update(Blank("Initialization"))
  /\ UNCHANGED kits

Match(kit) == kit.phase \in {"Building", "Ready", "Error"} /\ kit.need = Need[seen.spec]

(* SetIntegrationKit: the image is the kit's, whatever its phase. *)
WithKit(k) ==
  [seen EXCEPT !.kit = k, !.image = IF kitsSeen[k].built THEN kitsSeen[k].need ELSE None]

(* checkIntegrationKit *)
CheckKit ==
  /\ BuildingKit(0)
  /\ seen.digest = seen.spec /\ seen.kit # None
  /\ LET kit == kitsSeen[seen.kit]
     IN \/ ~Found(seen.kit) /\ NoUpdate /\ Retry
        \/ Found(seen.kit) /\ ~Match(kit) /\ Update([seen EXCEPT !.kit = None])
        \/ Found(seen.kit) /\ Match(kit) /\
             IF kit.phase = "Building" THEN Nothing
             ELSE Update([WithKit(seen.kit) EXCEPT !.phase =
                            IF kit.phase = "Ready" THEN "BuildComplete" ELSE "Error"])
  /\ UNCHANGED kits

(* lookupKitsForIntegration passes over kits in error. *)
Candidates == {k \in KitNames : Match(kitsSeen[k]) /\ kitsSeen[k].phase # "Error"}

(* The first kit that matches is taken, in the order of the list. *)
AssignKit ==
  /\ BuildingKit(0)
  /\ seen.digest = seen.spec /\ seen.kit = None
  /\ \E k \in Candidates :
       Update([WithKit(k) EXCEPT
                 !.phase = IF kitsSeen[k].phase = "Ready" THEN "BuildComplete" ELSE @])
  /\ UNCHANGED kits

(* None matches, and one is created under a new name. *)
CreateKit ==
  \E failures \in 0..1 :
    /\ BuildingKit(failures)
    /\ seen.digest = seen.spec /\ seen.kit = None /\ Candidates = {}
    /\ \E k \in KitNames :
         /\ kits[k] = NoKit /\ \A l \in 1..k - 1 : kits[l] # NoKit
         /\ kits' = [kits EXCEPT ![k] = [phase |-> "New", need |-> Need[seen.spec], built |-> FALSE]]
         /\ IF failures = 0 THEN Update([seen EXCEPT !.kit = k, !.image = None]) ELSE PatchFails

(* The lookup, the traits or the creation fails. *)
BuildKitFails ==
  /\ BuildingKit(1)
  /\ seen.digest = seen.spec /\ seen.kit = None
  /\ Retry
  /\ Patch([seen EXCEPT !.phase = "Error", !.conditions = @ \ {"InitFailed"}])
  /\ UNCHANGED kits
-----------------------------------------------------------------------------
(* buildAction.handleBuildSubmitted: a Build that is running is awaited,   *)
(* any other is replaced.                                                  *)
SubmitBuild ==
  \E failures \in 0..1 :
    /\ Read({"BuildSubmitted"}, failures)
    /\ \/ failures = 0 /\ buildSeen.phase = "Running" /\ Nothing /\ UNCHANGED build
       \/ /\ buildSeen.phase # "Running" /\ Need[seen.spec] \notin Malformed
          /\ \/ /\ failures = 0
                /\ build' = [phase |-> "Waiting", spec |-> seen.spec]
                /\ Write([seen EXCEPT !.phase = "BuildRunning"])
                /\ queued' = FALSE
                /\ events' = events \cup {"build"} \cup (IF it'.phase # it.phase THEN {"it"} ELSE {})
             \/ /\ failures = 1
                /\ build' \in {NoBuild, [phase |-> "Waiting", spec |-> seen.spec]}
                /\ it' = it /\ events' = events \cup {"build"} /\ Retry
    /\ UNCHANGED <<kits, deployment, pods>>

(* createBuild: the builder trait fails, and fails again when the          *)
(* Integration is retried.  No status is written.                          *)
BuilderTraitFails ==
  /\ Read({"BuildSubmitted"}, 0)
  /\ buildSeen.phase # "Running" /\ Need[seen.spec] \in Malformed
  /\ NoUpdate /\ Retry
  /\ UNCHANGED <<kits, build, deployment, pods>>

(* buildAction.handleBuildRunning *)
AwaitBuild ==
  /\ Read({"BuildRunning"}, 0)
  /\ \/ buildSeen = NoBuild /\ NoUpdate /\ Retry
     \/ buildSeen.phase \in {"Waiting", "Running"} /\ Update(seen)
     \/ /\ buildSeen.phase = "Succeeded"
        /\ Update([seen EXCEPT !.phase = "BuildComplete", !.image = Need[buildSeen.spec]])
     \/ /\ buildSeen.phase \in {"Failed", "Error", "Interrupted"}
        /\ Update([seen EXCEPT !.phase = "Error", !.conditions = @ \ {"InitFailed"}])
  /\ UNCHANGED <<kits, build, deployment, pods>>

(* buildCompleteAction.Handle *)
BuildComplete ==
  /\ Read({"BuildComplete"}, 0)
  /\ KitIsFound
  /\ Update([seen EXCEPT !.phase = IF dry THEN @ ELSE "Deploying"])
  /\ UNCHANGED <<kits, build, deployment, pods>>
-----------------------------------------------------------------------------
(* monitorAction.Handle *)
Monitored == {"Deploying", "Running", "Error"}

(* checkDigestAndRebuild *)
MonitorStartsOver ==
  /\ Read(Monitored, 0)
  /\ Failed \/ HasImage
  /\ seen.digest # seen.spec
  /\ Update(Blank("Initialization"))
  /\ UNCHANGED <<kits, build, deployment, pods>>

(* The initialization has failed: only the digest is looked at. *)
MonitorFailed ==
  /\ Read(Monitored, 0)
  /\ Failed /\ seen.digest = seen.spec
  /\ Nothing
  /\ UNCHANGED <<kits, build, deployment, pods>>

(* Without a kit or an image, or without a controller, there is an error   *)
(* each time; the traits have been applied in the second case.             *)
MonitorGivesUp ==
  /\ Read(Monitored, 0)
  /\ ~Failed
  /\ ~HasImage \/ (Deployable /\ ~HasController)
  /\ NoUpdate /\ Retry
  /\ deployment' \in {deployment} \cup (IF CollectsGarbage THEN {None} ELSE {})
  /\ pods' = IF deployment' = deployment THEN pods ELSE "Starting"
  /\ UNCHANGED <<kits, build>>

(* updateIntegrationPhaseAndReadyCondition *)
PhaseFor(phase) ==
  CASE pods = "Failing"  -> "Error"
    [] pods = "Ready"    -> "Running"
    [] pods = "Starting" -> IF phase = "Deploying" THEN "Running" ELSE phase

(* Mutant of MonitorPods: a Deployment that is there is left alone. *)
MonitorPodsOnce ==
  /\ Read(Monitored, 0)
  /\ Deployable /\ HasController /\ pods # "Unreadable"
  /\ deployment' = IF deployment = None THEN TraitImage ELSE deployment
  /\ Update([seen EXCEPT !.phase = PhaseFor(@), !.image = TraitImage,
                          !.conditions = (@ \ {"InitFailed"}) \cup {"Deployment"}])
  /\ UNCHANGED <<kits, build, pods>>

(* The traits apply the Deployment and monitorPods looks at its pods, the  *)
(* ones of its last version included.  Pods that cannot be read are an     *)
(* error each time.  The Ready condition changes with the phase.           *)
MonitorPods ==
  \E failures \in 0..1 :
    /\ Read(Monitored, failures)
    /\ Deployable /\ HasController
    /\ deployment' = TraitImage
    /\ pods' = IF deployment' = deployment THEN pods ELSE "Starting"
    /\ IF failures = 1 \/ pods = "Unreadable" THEN PatchFails
       ELSE LET target == [seen EXCEPT !.phase = PhaseFor(@), !.image = TraitImage,
                                       !.conditions = (@ \ {"InitFailed"}) \cup {"Deployment"}]
            IN /\ Update(target)
               /\ target.phase # seen.phase => it'.conditions = target.conditions
    /\ UNCHANGED <<kits, build>>

Reconcile ==
  \/ PlatformSetup \/ Initialize \/ InitializeUndeploying \/ TraitsFail
  \/ BuildingKitStartsOver \/ CheckKit \/ AssignKit \/ CreateKit \/ BuildKitFails
  \/ SubmitBuild \/ BuilderTraitFails \/ AwaitBuild \/ BuildComplete
  \/ MonitorStartsOver \/ MonitorFailed \/ MonitorGivesUp \/ MonitorPods
-----------------------------------------------------------------------------
(* The watches deliver. *)
ObserveIntegration ==
  /\ seen # it \/ "it" \in events
  /\ seen' = it
  /\ events' = events \ {"it"}
  /\ queued' = (queued \/ "it" \in events)
  /\ UNCHANGED <<it, kits, kitsSeen, build, buildSeen, deployment, pods, dry, requests, mishaps>>

(* Mutant of Wakes: an Integration that is being built is not woken. *)
WakesRunning(k) ==
  /\ kits[k] # kitsSeen[k] /\ kits[k].phase \in {"Ready", "Error"}
  /\ seen.phase = "Running"
  /\ seen.kit = k \/ Match(kits[k])

(* A kit that gets Ready or fails wakes the Integrations in the cache that *)
(* use it, or match it, and are BuildingKit or Running.                    *)
Wakes(k) ==
  /\ kits[k] # kitsSeen[k] /\ kits[k].phase \in {"Ready", "Error"}
  /\ seen.phase \in {"BuildingKit", "Running"}
  /\ seen.kit = k \/ Match(kits[k])

ObserveKits ==
  /\ kitsSeen # kits
  /\ kitsSeen' = kits
  /\ queued' = (queued \/ \E k \in KitNames : Wakes(k))
  /\ UNCHANGED <<it, seen, kits, build, buildSeen, deployment, pods, dry, events, requests, mishaps>>

(* Every change of the Build wakes the Integration. *)
ObserveBuild ==
  /\ "build" \in events
  /\ buildSeen' = build
  /\ events' = events \ {"build"}
  /\ queued' = TRUE
  /\ UNCHANGED <<it, seen, kits, kitsSeen, build, deployment, pods, dry, requests, mishaps>>

(* The operator starts again: the informers list, and it is queued. *)
Restart ==
  /\ mishaps < MaxMishaps /\ mishaps' = mishaps + 1
  /\ seen' = it /\ kitsSeen' = kits /\ buildSeen' = build
  /\ events' = {} /\ queued' = TRUE
  /\ UNCHANGED <<it, kits, build, deployment, pods, dry, requests>>

(* An event of a ConfigMap, a Secret or a pod without consequences, or an  *)
(* error returned by a patch that took effect.                             *)
Wake ==
  /\ mishaps < MaxMishaps /\ mishaps' = mishaps + 1
  /\ ~queued /\ queued' = TRUE
  /\ UNCHANGED <<it, seen, kits, kitsSeen, build, buildSeen, deployment, pods, dry, events, requests>>

(* The kit controller, as KitLife shows it.  Nobody edits the kit of an    *)
(* Integration.  A kit is only Ready with an image; with a builder trait   *)
(* that fails it never is.                                                 *)
Life(k) == INSTANCE KitLife WITH phase <- kits[k].phase, edited <- FALSE

SetKit(k, phase, built, failures) ==
  /\ kits[k] \notin {NoKit, GoneKit}
  /\ phase = "Ready" => built /\ kits[k].need \notin Malformed \cup Rejected
  /\ kits' = [kits EXCEPT ![k].phase = phase, ![k].built = built]
  /\ mishaps' = mishaps + failures /\ mishaps' <= MaxMishaps
  /\ UNCHANGED <<it, seen, kitsSeen, build, buildSeen, deployment, pods, dry, events, queued, requests>>

KitProgress(names) ==
  \E k \in names, phase \in {"Building", "Ready", "Error"} :
    SetKit(k, phase, kits[k].built \/ phase = "Ready", 0) /\ Life(k)!Progress

KitOverturned ==
  \E k \in KitNames, phase \in {"Building", "Ready", "Error"}, built \in BOOLEAN :
    SetKit(k, phase, built, 1) /\ Life(k)!Overturn

(* These kits do not stay as they are (IntegrationKit, KitFinishes). *)
Progressing ==
  {k \in KitNames : \/ kits[k].phase = "New"
                    \/ kits[k].phase = "Building" /\ kits[k].need \notin Malformed}

(* The Build controller, as BuildLife shows it. *)
SetBuild(phase, failures) ==
  /\ build' = [build EXCEPT !.phase = phase]
  /\ events' = events \cup {"build"}
  /\ mishaps' = mishaps + failures /\ mishaps' <= MaxMishaps
  /\ UNCHANGED <<it, seen, kits, kitsSeen, buildSeen, deployment, pods, dry, queued, requests>>

(* A Build without tasks has no strategy, and no action handles it. *)
HasTasks == build # NoBuild /\ Need[build.spec] \notin Rejected

BuildWorks(phases) ==
  HasTasks /\ \E phase \in phases : SetBuild(phase, 0) /\ Builder!Work

BuildSlips ==
  HasTasks /\ \E phase \in Builder!Under \cup Builder!Ended : SetBuild(phase, 1) /\ Builder!Slip

(* A pod or the Deployment changes, and wakes the Integration. *)
PodsChange ==
  /\ deployment # None
  /\ pods' \in PodStates \ {pods}
  /\ queued' = TRUE
  /\ UNCHANGED <<it, seen, kits, kitsSeen, build, buildSeen, deployment, dry, events, requests, mishaps>>
-----------------------------------------------------------------------------
(* What users do.  A deployment is not counted: it takes another request   *)
(* to get back to BuildComplete.                                           *)
Set(status) ==
  /\ it' = status
  /\ events' = events \cup {"it"}
  /\ UNCHANGED <<seen, kits, kitsSeen, build, buildSeen, deployment, pods, dry, queued, mishaps>>

Request(status) ==
  /\ requests < MaxRequests /\ requests' = requests + 1
  /\ Set(status)

Edit == \E s \in Specs \ {it.spec} : Request([it EXCEPT !.spec = s])

(* kamel rebuild: the status is replaced by an empty one. *)
Rebuild ==
  it.phase # "None" /\
    Request([it EXCEPT !.phase = "None", !.digest = None, !.kit = None, !.image = None, !.conditions = {}])

(* kamel deploy *)
Deploy ==
  it.phase = "BuildComplete" /\ Set([it EXCEPT !.phase = "Deploying"]) /\ UNCHANGED requests

(* kamel undeploy *)
Undeploy == dry /\ it.phase = "Running" /\ Request([it EXCEPT !.phase = "Undeploying"])

DeleteKit ==
  /\ requests < MaxRequests /\ requests' = requests + 1
  /\ \E k \in KitNames : kits[k] \notin {NoKit, GoneKit} /\ kits' = [kits EXCEPT ![k] = GoneKit]
  /\ UNCHANGED <<it, seen, kitsSeen, build, buildSeen, deployment, pods, dry, events, queued, mishaps>>

User == Edit \/ Rebuild \/ Deploy \/ Undeploy \/ DeleteKit

Environment ==
  \/ ObserveIntegration \/ ObserveKits \/ ObserveBuild \/ Restart \/ Wake
  \/ KitProgress(KitNames) \/ KitOverturned
  \/ BuildWorks(Builder!Under \cup Builder!Ended) \/ BuildSlips \/ PodsChange

Next == Reconcile \/ Environment \/ User

Spec == Init /\ [][Next]_vars

(***************************************************************************)
(* The watches deliver, the worker serves its queue, kits and Builds end   *)
(* (IntegrationKit, KitFinishes; BuildPod and BuildRoutine, BuildsFinish). *)
(***************************************************************************)
Fairness ==
  /\ WF_vars(ObserveIntegration \/ ObserveKits \/ ObserveBuild)
  /\ WF_vars(Reconcile)
  /\ WF_vars(KitProgress(Progressing)) /\ SF_vars(BuildWorks(Builder!Ended))

FairSpec == Spec /\ Fairness
-----------------------------------------------------------------------------
TypeOK ==
  /\ it \in Integrations /\ seen \in Integrations
  /\ kits \in [KitNames -> Kits] /\ kitsSeen \in [KitNames -> Kits]
  /\ build \in Builds /\ buildSeen \in Builds
  /\ deployment \in Needs \cup {None}
  /\ pods \in PodStates
  /\ dry \in BOOLEAN
  /\ events \subseteq {"it", "build"}
  /\ queued \in BOOLEAN
  /\ requests \in 0..MaxRequests /\ mishaps \in 0..MaxMishaps

(***************************************************************************)
(* The image is one that serves the specification the digest was computed  *)
(* for; otherwise the monitor action compares the digest in vain.  It goes *)
(* out of step neither while the Integration is monitored nor while it     *)
(* waits for a kit: there the digest is compared first.  The handlers of   *)
(* the other phases patch the digest of an edit that they do not build,    *)
(* next to the image that is there; only the end of a Git build writes one *)
(* that may not serve it.                                                  *)
(***************************************************************************)
InStep == it.image # None /\ it.digest # None => it.image = Need[it.digest]

InStepWhenCompared ==
  [][InStep /\ ~InStep' => /\ seen.phase \notin Monitored \cup {"BuildingKit"}
                           /\ it'.image = it.image \/ seen.phase = "BuildRunning"]_vars

(***************************************************************************)
(* The status was emptied or never filled, and a late patch or an error    *)
(* has put the Integration in a phase that is monitored: it fails for      *)
(* ever, even when its specification is edited.                            *)
(***************************************************************************)
Lost == it.phase \in Monitored /\ it.kit = None /\ it.image = None

(***************************************************************************)
(* Whatever was edited, rebuilt or undeployed in between, the Deployment   *)
(* of a Running Integration runs the image of its status.                  *)
(***************************************************************************)
RunningIsDeployed == it.phase = "Running" /\ ~Lost => deployment = it.image

(***************************************************************************)
(* An Integration ends Running, in Error or, when it is only built, with   *)
(* its build complete, and has taken note of its last specification:       *)
(* whichever event comes first, one of them finds the kit or the Build     *)
(* ended.  It does not when it is Lost, when its kit was deleted, when the *)
(* builder trait does not let its kit or Build be made, or when its pods   *)
(* cannot be read.                                                         *)
(***************************************************************************)
Settled ==
  /\ it.phase \in {"Running", "Error"} \/ (dry /\ it.phase = "BuildComplete")
  /\ it.digest = it.spec

KitDeleted ==
  \E k \in KitNames : kits[k] = GoneKit /\ (it.kit = k \/ it.phase = "BuildingKit")

(* The bound on kits is reached. *)
KitsExhausted ==
  it.phase = "BuildingKit" /\ it.kit = None /\ \A k \in KitNames : kits[k] # NoKit

(* No handler writes an error: the kit or the Integration is retried, and  *)
(* a Build without tasks is not handled at all.                            *)
NeverBuilt ==
  \/ it.phase \in {"BuildingKit", "BuildSubmitted"} /\ Need[it.spec] \in Malformed
  \/ it.phase = "BuildRunning" /\ build # NoBuild /\ ~HasTasks

NeverMonitored == it.phase = "Deploying" /\ pods = "Unreadable"

Settles == []<>(Settled \/ Lost \/ KitDeleted \/ KitsExhausted \/ NeverBuilt \/ NeverMonitored)
=============================================================================
