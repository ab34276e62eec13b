------------------------- MODULE IntegrationProofs --------------------------
(***************************************************************************)
(* Proofs about Integration, for any specifications, any number of kits    *)
(* and any bounds.                                                         *)
(***************************************************************************)
EXTENDS Integration, TLAPS

(***************************************************************************)
(* What a status patch makes of the stored Integration, whatever was read. *)
(***************************************************************************)
LEMMA Merged ==
  ASSUME it \in Integrations, seen \in Integrations, NEW target \in Integrations,
         NEW written \in SUBSET {"conditions"}, NEW merged, merged = MergeFrom(it, seen, target, written)
  PROVE  /\ merged \in Integrations
         /\ merged.spec = it.spec
         /\ merged.phase = (IF target.phase = seen.phase THEN it.phase ELSE target.phase)
         /\ merged.digest = (IF target.digest = seen.digest THEN it.digest ELSE target.digest)
         /\ merged.kit = (IF target.kit = seen.kit THEN it.kit ELSE target.kit)
         /\ merged.image = (IF target.image = seen.image THEN it.image ELSE target.image)
         /\ merged.conditions \in {it.conditions, target.conditions}
  BY DEF MergeFrom, Integrations

LEMMA Written ==
  ASSUME TypeOK, NEW target \in Integrations, Write(target)
  PROVE  /\ it' \in Integrations
         /\ it'.spec = it.spec
         /\ it'.phase = (IF target.phase = seen.phase THEN it.phase ELSE target.phase)
         /\ it'.digest = (IF seen.spec = seen.digest THEN it.digest ELSE seen.spec)
         /\ it'.kit = (IF target.kit = seen.kit THEN it.kit ELSE target.kit)
         /\ it'.image = (IF target.image = seen.image THEN it.image ELSE target.image)
         /\ it'.conditions \in {it.conditions, target.conditions}
<1> DEFINE t == [target EXCEPT !.digest = seen.spec]
<1>1. t \in Integrations /\ t.digest = seen.spec /\ t.phase = target.phase /\ t.kit = target.kit
        /\ t.image = target.image /\ t.conditions = target.conditions
  BY DEF TypeOK, Integrations
<1>2. PICK written \in SUBSET {"conditions"} : it' = MergeFrom(it, seen, t, written)
  BY DEF Write
<1>3. it \in Integrations /\ seen \in Integrations
  BY DEF TypeOK
<1> HIDE DEF t
<1> QED
  BY <1>1, <1>2, <1>3, Merged

LEMMA Patched ==
  ASSUME TypeOK, NEW target \in Integrations, Patch(target)
  PROVE  /\ it' \in Integrations /\ events' \subseteq {"it", "build"}
         /\ it'.spec = it.spec
         /\ it'.phase = (IF target.phase = seen.phase THEN it.phase ELSE target.phase)
         /\ it'.digest = (IF seen.spec = seen.digest THEN it.digest ELSE seen.spec)
         /\ it'.kit = (IF target.kit = seen.kit THEN it.kit ELSE target.kit)
         /\ it'.image = (IF target.image = seen.image THEN it.image ELSE target.image)
         /\ it'.conditions \in {it.conditions, target.conditions}
<1>1. events' \subseteq {"it", "build"}
  BY DEF Patch, TypeOK
<1> QED
  BY <1>1, Written DEF Patch

(* The targets of the patches. *)
LEMMA Targets ==
  ASSUME TypeOK
  PROVE  /\ \A p \in Phases : [seen EXCEPT !.phase = p] \in Integrations
         /\ \A p \in Phases : Blank(p) \in Integrations
         /\ TraitImage \in Needs \cup {None}
         /\ \A p \in Phases, i \in Needs \cup {None} : [seen EXCEPT !.image = i, !.phase = p] \in Integrations
         /\ \A p \in Phases, i \in Needs \cup {None}, c \in SUBSET {"InitFailed", "Deployment"} :
              [seen EXCEPT !.phase = p, !.image = i, !.conditions = c] \in Integrations
         /\ \A p \in Phases, c \in SUBSET {"InitFailed", "Deployment"} :
              [seen EXCEPT !.phase = p, !.conditions = c] \in Integrations
         /\ [seen EXCEPT !.kit = None] \in Integrations
         /\ \A k \in KitNames : [seen EXCEPT !.kit = k, !.image = None] \in Integrations
         /\ seen.conditions \subseteq {"InitFailed", "Deployment"}
         /\ seen.phase \in Phases /\ seen.image \in Needs \cup {None} /\ seen.spec \in Specs
<1>1. seen \in Integrations
  BY DEF TypeOK
<1>2. TraitImage \in Needs \cup {None}
  BY <1>1 DEF TraitImage, Integrations, Needs
<1>3. \A p \in Phases : Blank(p) \in Integrations
  BY <1>1 DEF Blank, Integrations
<1> QED
  BY <1>1, <1>2, <1>3 DEF Integrations

LEMMA ReadType ==
  ASSUME TypeOK, NEW phases, NEW failures \in 0..1, Read(phases, failures)
  PROVE  /\ seen' = seen /\ kitsSeen' = kitsSeen /\ buildSeen' = buildSeen /\ dry' = dry
         /\ seen.phase \in phases
         /\ mishaps' \in 0..MaxMishaps /\ requests' = requests
<1>1. mishaps' \in 0..MaxMishaps
  BY IntegrationBoundsAssumption DEF TypeOK, Read
<1> QED
  BY <1>1 DEF Read

(* What is left to show of a reconciliation. *)
Rest ==
  /\ it' \in Integrations /\ events' \subseteq {"it", "build"}
  /\ kits' \in [KitNames -> Kits] /\ build' \in Builds
  /\ deployment' \in Needs \cup {None} /\ pods' \in PodStates
  /\ queued' \in BOOLEAN

LEMMA TypeFromRead ==
  ASSUME TypeOK, NEW phases, NEW failures \in 0..1, Read(phases, failures), Rest
  PROVE  TypeOK'
  BY ReadType DEF TypeOK, Rest

LEMMA UpdateType ==
  ASSUME TypeOK, NEW target \in Integrations, Update(target)
  PROVE  it' \in Integrations /\ events' \subseteq {"it", "build"} /\ queued' \in BOOLEAN
  BY Patched DEF Update

LEMMA NoUpdateType ==
  ASSUME TypeOK, NoUpdate
  PROVE  it' \in Integrations /\ events' \subseteq {"it", "build"}
  BY DEF NoUpdate, TypeOK

LEMMA KitSeen ==
  ASSUME TypeOK, NEW k \in KitNames, Match(kitsSeen[k])
  PROVE  /\ WithKit(k) \in Integrations
         /\ \A p \in Phases : [WithKit(k) EXCEPT !.phase = p] \in Integrations
         /\ WithKit(k).phase \in Phases
<1>1. kitsSeen[k].need \in Needs
  BY DEF TypeOK, Kits, Match, NoKit, GoneKit
<1>2. WithKit(k) \in Integrations
  BY <1>1 DEF WithKit, TypeOK, Integrations
<1> QED
  BY <1>2 DEF Integrations

LEMMA TypeSetup ==
  ASSUME TypeOK, PlatformSetup \/ Initialize \/ InitializeUndeploying \/ BuildComplete
  PROVE  TypeOK'
<1>0. {"Initialization", "BuildSubmitted", "BuildComplete", "BuildingKit", "Deploying"} \subseteq Phases
  BY DEF Phases
<1>1. CASE PlatformSetup
  <2>1. Rest
    BY <1>0, <1>1, Targets, UpdateType DEF PlatformSetup, Rest, TypeOK
  <2> QED
    BY <1>1, <2>1, TypeFromRead DEF PlatformSetup
<1>2. CASE Initialize
  <2>1. Rest
    BY <1>0, <1>2, Targets, UpdateType DEF Initialize, Rest, TypeOK
  <2> QED
    BY <1>2, <2>1, TypeFromRead DEF Initialize
<1>3. CASE InitializeUndeploying
  <2>1. PICK failures \in 0..1 :
          /\ Read({"Undeploying"}, failures)
          /\ \E target \in Integrations : Update(target) \/ PatchFails
          /\ deployment' \in {deployment, None}
          /\ pods' = IF deployment' = deployment THEN pods ELSE "Starting"
          /\ UNCHANGED <<kits, build>>
    BY <1>0, <1>3, Targets DEF InitializeUndeploying
  <2>2. Rest
    BY <2>1, UpdateType, NoUpdateType DEF Rest, TypeOK, PatchFails, Retry, PodStates
  <2> QED
    BY <2>1, <2>2, TypeFromRead
<1>4. CASE BuildComplete
  <2>1. Rest
    BY <1>0, <1>4, Targets, UpdateType DEF BuildComplete, Rest, TypeOK
  <2> QED
    BY <1>4, <2>1, TypeFromRead DEF BuildComplete
<1> QED
  BY <1>1, <1>2, <1>3, <1>4

(* A patch after a failure of the traits. *)
FailedTarget(image, added) ==
  [seen EXCEPT !.phase = "Error", !.image = image, !.conditions = @ \cup {"InitFailed"} \cup added]

LEMMA TraitsFailing ==
  ASSUME TypeOK, TraitsFail
  PROVE  /\ \E phases \in SUBSET Phases : \E failures \in 0..1 : Read(phases, failures)
         /\ seen' = seen
         /\ seen.phase \in Monitored => Deployable
         /\ \E image \in {seen.image, TraitImage}, added \in SUBSET {"Deployment"} :
              FailedTarget(image, added) \in Integrations /\ Patch(FailedTarget(image, added))
         /\ \/ deployment' = deployment
            \/ Deployable /\ deployment' = TraitImage
            \/ (seen.phase = "Undeploying" \/ ~HasController) /\ deployment' = None
         /\ pods' = (IF deployment' = deployment THEN pods ELSE "Starting")
         /\ kits' = kits /\ build' = build /\ queued' = TRUE
<1>1. \E phases \in SUBSET Phases : \E failures \in 0..1 : Read(phases, failures)
  <2>1. (IF KitIsFound THEN 1 ELSE 0) \in 0..1
    OBVIOUS
  <2> QED
    BY <2>1 DEF TraitsFail
<1>2. PICK image \in {seen.image, TraitImage}, added \in SUBSET {"Deployment"} : Patch(FailedTarget(image, added))
  BY DEF TraitsFail, FailedTarget
<1>3. FailedTarget(image, added) \in Integrations
  BY Targets DEF FailedTarget, Phases
<1> QED
  BY <1>1, <1>2, <1>3 DEF TraitsFail, CollectsGarbage, Read, Retry, Monitored

LEMMA TypeTraitsFail ==
  ASSUME TypeOK, TraitsFail
  PROVE  TypeOK'
<1>1. PICK target \in Integrations : Patch(target)
  BY TraitsFailing
<1>2. deployment' \in Needs \cup {None} /\ pods' \in PodStates
  BY TraitsFailing, Targets DEF TypeOK, PodStates
<1>3. Rest
  BY <1>1, <1>2, Patched, TraitsFailing DEF Rest, TypeOK
<1> QED
  BY <1>3, TraitsFailing, TypeFromRead

LEMMA TypeKits ==
  ASSUME TypeOK, BuildingKitStartsOver \/ CheckKit \/ AssignKit \/ CreateKit \/ BuildKitFails
  PROVE  TypeOK'
<1>0. {"Initialization", "BuildComplete", "Error"} \subseteq Phases
  BY DEF Phases
<1>1. CASE BuildingKitStartsOver
  <2>1. Rest
    BY <1>0, <1>1, Targets, UpdateType DEF BuildingKitStartsOver, BuildingKit, Rest, TypeOK
  <2> QED
    BY <1>1, <2>1, TypeFromRead DEF BuildingKitStartsOver, BuildingKit
<1>2. CASE CheckKit
  <2>1. seen.kit \in KitNames
    BY <1>2 DEF CheckKit, TypeOK, Integrations
  <2>2. (NoUpdate /\ Retry) \/ Nothing \/ \E target \in Integrations : Update(target)
    BY <1>0, <1>2, <2>1, Targets, KitSeen DEF CheckKit
  <2>3. Rest
    BY <1>2, <2>2, UpdateType, NoUpdateType DEF CheckKit, BuildingKit, Nothing, Retry, Rest, TypeOK
  <2> QED
    BY <1>2, <2>3, TypeFromRead DEF CheckKit, BuildingKit
<1>3. CASE AssignKit
  <2>1. \E target \in Integrations : Update(target)
    BY <1>0, <1>3, KitSeen DEF AssignKit, Candidates
  <2>2. Rest
    BY <1>3, <2>1, UpdateType DEF AssignKit, BuildingKit, Rest, TypeOK
  <2> QED
    BY <1>3, <2>2, TypeFromRead DEF AssignKit, BuildingKit
<1>4. CASE CreateKit
  <2>1. PICK failures \in 0..1, k \in KitNames :
          /\ BuildingKit(failures)
          /\ kits' = [kits EXCEPT ![k] = [phase |-> "New", need |-> Need[seen.spec], built |-> FALSE]]
          /\ Update([seen EXCEPT !.kit = k, !.image = None]) \/ PatchFails
    BY <1>4 DEF CreateKit
  <2>2. Need[seen.spec] \in Needs
    BY Targets DEF Needs
  <2>3. kits' \in [KitNames -> Kits]
    BY <2>1, <2>2 DEF TypeOK, Kits
  <2>4. it' \in Integrations /\ events' \subseteq {"it", "build"} /\ queued' \in BOOLEAN
    BY <2>1, Targets, UpdateType, NoUpdateType DEF PatchFails, Retry
  <2>5. Rest
    BY <2>1, <2>3, <2>4 DEF BuildingKit, Rest, TypeOK
  <2> QED
    BY <2>1, <2>5, TypeFromRead DEF BuildingKit
<1>5. CASE BuildKitFails
  <2>1. PICK target \in Integrations : Patch(target)
    BY <1>0, <1>5, Targets DEF BuildKitFails
  <2>2. Rest
    BY <1>5, <2>1, Patched DEF BuildKitFails, BuildingKit, Retry, Rest, TypeOK
  <2> QED
    BY <1>5, <2>2, TypeFromRead DEF BuildKitFails, BuildingKit
<1> QED
  BY <1>1, <1>2, <1>3, <1>4, <1>5

(* A Build that is submitted patches the Integration like any other step. *)
LEMMA Submitting ==
  ASSUME TypeOK, SubmitBuild
  PROVE  /\ \E failures \in 0..1 : Read({"BuildSubmitted"}, failures)
         /\ \/ it' = it
            \/ Write([seen EXCEPT !.phase = "BuildRunning"])
         /\ events' \subseteq {"it", "build"} /\ queued' \in BOOLEAN
         /\ build' \in {build, NoBuild, [phase |-> "Waiting", spec |-> seen.spec]}
         /\ kits' = kits /\ deployment' = deployment /\ pods' = pods
  BY DEF SubmitBuild, Nothing, NoUpdate, Retry, TypeOK

LEMMA TypeBuilds ==
  ASSUME TypeOK, SubmitBuild \/ BuilderTraitFails \/ AwaitBuild
  PROVE  TypeOK'
<1>1. CASE SubmitBuild
  <2>1. [seen EXCEPT !.phase = "BuildRunning"] \in Integrations
    BY Targets DEF Phases
  <2>2. it' \in Integrations
    BY <1>1, <2>1, Submitting, Written DEF TypeOK
  <2>3. build' \in Builds
    <3>1. [phase |-> "Waiting", spec |-> seen.spec] \in Builds /\ NoBuild \in Builds
      BY Targets DEF Builder!Under, Builds
    <3> QED
      BY <1>1, <3>1, Submitting DEF TypeOK
  <2>4. Rest
    BY <1>1, <2>2, <2>3, Submitting DEF Rest, TypeOK
  <2> QED
    BY <1>1, <2>4, Submitting, TypeFromRead
<1>2. CASE AwaitBuild
  <2>1. buildSeen.phase = "Succeeded" => Need[buildSeen.spec] \in Needs
    BY DEF TypeOK, Builds, NoBuild, Needs
  <2>2. (NoUpdate /\ Retry) \/ \E target \in Integrations : Update(target)
    <3>1. seen \in Integrations /\ {"BuildComplete", "Error"} \subseteq Phases
      BY DEF TypeOK, Phases
    <3>2. \A p \in Phases, i \in Needs : [seen EXCEPT !.phase = p, !.image = i] \in Integrations
      BY <3>1 DEF Integrations
    <3> QED
      BY <1>2, <2>1, <3>1, <3>2, Targets DEF AwaitBuild
  <2>3. Rest
    BY <1>2, <2>2, UpdateType, NoUpdateType DEF AwaitBuild, Retry, Rest, TypeOK
  <2> QED
    BY <1>2, <2>3, TypeFromRead DEF AwaitBuild
<1>3. CASE BuilderTraitFails
  <2>1. Rest
    BY <1>3, NoUpdateType DEF BuilderTraitFails, Retry, Rest, TypeOK
  <2> QED
    BY <1>3, <2>1, TypeFromRead DEF BuilderTraitFails
<1> QED
  BY <1>1, <1>2, <1>3

(* What the monitor action writes when the pods were looked at. *)
DeployedTarget ==
  [seen EXCEPT !.phase = PhaseFor(@), !.image = TraitImage,
               !.conditions = (@ \ {"InitFailed"}) \cup {"Deployment"}]

LEMMA DeployedType ==
  ASSUME TypeOK, pods # "Unreadable"
  PROVE  /\ DeployedTarget \in Integrations
         /\ DeployedTarget.phase = PhaseFor(seen.phase) /\ DeployedTarget.image = TraitImage
         /\ DeployedTarget.kit = seen.kit /\ "Deployment" \in DeployedTarget.conditions
<1>1. PhaseFor(seen.phase) \in Phases
  BY Targets DEF PhaseFor, Phases, TypeOK, PodStates
<1>2. DeployedTarget = [seen EXCEPT !.phase = PhaseFor(seen.phase), !.image = TraitImage,
                                    !.conditions = (seen.conditions \ {"InitFailed"}) \cup {"Deployment"}]
  BY DEF DeployedTarget, TypeOK, Integrations
<1>3. (seen.conditions \ {"InitFailed"}) \cup {"Deployment"} \in SUBSET {"InitFailed", "Deployment"}
  BY Targets
<1>4. seen \in Integrations /\ TraitImage \in Needs \cup {None}
  BY Targets DEF TypeOK
<1> HIDE DEF DeployedTarget, PhaseFor, TraitImage
<1> QED
  BY <1>1, <1>2, <1>3, <1>4 DEF Integrations

LEMMA TypeMonitor ==
  ASSUME TypeOK, MonitorStartsOver \/ MonitorFailed \/ MonitorGivesUp \/ MonitorPods
  PROVE  TypeOK'
<1>0. "Initialization" \in Phases
  BY DEF Phases
<1>1. CASE MonitorStartsOver
  <2>1. Rest
    BY <1>0, <1>1, Targets, UpdateType DEF MonitorStartsOver, Rest, TypeOK
  <2> QED
    BY <1>1, <2>1, TypeFromRead DEF MonitorStartsOver
<1>2. CASE MonitorFailed
  <2>1. Rest
    BY <1>2, NoUpdateType DEF MonitorFailed, Nothing, Rest, TypeOK
  <2> QED
    BY <1>2, <2>1, TypeFromRead DEF MonitorFailed
<1>3. CASE MonitorGivesUp
  <2>1. Rest
    BY <1>3, NoUpdateType DEF MonitorGivesUp, Retry, Rest, TypeOK, PodStates
  <2> QED
    BY <1>3, <2>1, TypeFromRead DEF MonitorGivesUp
<1>4. CASE MonitorPods
  <2>1. PICK failures \in 0..1 :
          /\ Read(Monitored, failures)
          /\ deployment' = TraitImage
          /\ pods' = IF deployment' = deployment THEN pods ELSE "Starting"
          /\ PatchFails \/ (pods # "Unreadable" /\ Update(DeployedTarget))
          /\ UNCHANGED <<kits, build>>
    BY <1>4 DEF MonitorPods, DeployedTarget
  <2>2. it' \in Integrations /\ events' \subseteq {"it", "build"} /\ queued' \in BOOLEAN
    BY <2>1, DeployedType, UpdateType, NoUpdateType DEF PatchFails, Retry
  <2>3. Rest
    BY <2>1, <2>2, Targets DEF Rest, TypeOK, PodStates
  <2> QED
    BY <2>1, <2>3, TypeFromRead
<1> QED
  BY <1>1, <1>2, <1>3, <1>4

LEMMA TypeEnvironment ==
  ASSUME TypeOK, Environment
  PROVE  TypeOK'
<1>1. CASE ObserveIntegration \/ ObserveKits \/ ObserveBuild
  BY <1>1 DEF ObserveIntegration, ObserveKits, ObserveBuild, TypeOK
<1>2. CASE Restart \/ Wake
  <2>1. mishaps' \in 0..MaxMishaps
    BY <1>2, IntegrationBoundsAssumption DEF Restart, Wake, TypeOK
  <2> QED
    BY <1>2, <2>1 DEF Restart, Wake, TypeOK
<1>3. CASE KitProgress(KitNames) \/ KitOverturned
  <2>1. PICK k \in KitNames, phase \in {"Building", "Ready", "Error"}, built \in BOOLEAN, failures \in 0..1 :
          SetKit(k, phase, built, failures)
    <3>1. CASE KitOverturned
      BY <3>1 DEF KitOverturned
    <3>2. CASE KitProgress(KitNames)
      <4>1. PICK k \in KitNames, phase \in {"Building", "Ready", "Error"} :
              SetKit(k, phase, kits[k].built \/ phase = "Ready", 0)
        BY <3>2 DEF KitProgress
      <4>2. (kits[k].built \/ phase = "Ready") \in BOOLEAN /\ 0 \in 0..1
        OBVIOUS
      <4> QED
        BY <4>1, <4>2, Zenon
    <3> QED
      BY <1>3, <3>1, <3>2
  <2>2. [kits[k] EXCEPT !.phase = phase, !.built = built] \in Kits
    BY <2>1 DEF SetKit, TypeOK, Kits
  <2>3. kits' \in [KitNames -> Kits]
    BY <2>1, <2>2 DEF SetKit, TypeOK
  <2>4. mishaps' \in 0..MaxMishaps
    BY <2>1, IntegrationBoundsAssumption DEF SetKit, TypeOK
  <2> QED
    BY <2>1, <2>3, <2>4 DEF SetKit, TypeOK
<1>4. CASE BuildWorks(Builder!Under \cup Builder!Ended) \/ BuildSlips
  <2>1. PICK phase \in Builder!Under \cup Builder!Ended, failures \in 0..1 :
          SetBuild(phase, failures) /\ build.phase # "Absent"
    BY <1>4 DEF BuildWorks, BuildSlips, Builder!Work, Builder!Slip
  <2>2. build' \in Builds
    BY <2>1 DEF SetBuild, TypeOK, Builds, NoBuild
  <2>3. mishaps' \in 0..MaxMishaps
    BY <2>1, IntegrationBoundsAssumption DEF SetBuild, TypeOK
  <2> QED
    BY <2>1, <2>2, <2>3 DEF SetBuild, TypeOK
<1>5. CASE PodsChange
  BY <1>5 DEF PodsChange, TypeOK
<1> QED
  BY <1>1, <1>2, <1>3, <1>4, <1>5 DEF Environment

LEMMA TypeUser ==
  ASSUME TypeOK, User
  PROVE  TypeOK'
<1>1. CASE Edit \/ Rebuild \/ Deploy \/ Undeploy
  <2>1. PICK status \in Integrations : Set(status) /\ requests' \in 0..MaxRequests
    <3>1. \A s \in Specs : [it EXCEPT !.spec = s] \in Integrations
      BY DEF TypeOK, Integrations
    <3>2. [it EXCEPT !.phase = "None", !.digest = None, !.kit = None, !.image = None, !.conditions = {}]
            \in Integrations
      BY DEF TypeOK, Integrations, Phases
    <3>3. [it EXCEPT !.phase = "Deploying"] \in Integrations /\ [it EXCEPT !.phase = "Undeploying"] \in Integrations
      BY DEF TypeOK, Integrations, Phases
    <3>4. ASSUME NEW status, Request(status) PROVE Set(status) /\ requests' \in 0..MaxRequests
      BY <3>4, IntegrationBoundsAssumption DEF Request, TypeOK
    <3>5. CASE Edit
      BY <3>1, <3>4, <3>5 DEF Edit
    <3>6. CASE Rebuild
      BY <3>2, <3>4, <3>6 DEF Rebuild
    <3>7. CASE Deploy
      BY <3>3, <3>7 DEF Deploy, TypeOK
    <3>8. CASE Undeploy
      BY <3>3, <3>4, <3>8 DEF Undeploy
    <3> QED
      BY <1>1, <3>5, <3>6, <3>7, <3>8
  <2> QED
    BY <2>1 DEF Set, TypeOK
<1>2. CASE DeleteKit
  <2>1. requests' \in 0..MaxRequests
    BY <1>2, IntegrationBoundsAssumption DEF DeleteKit, TypeOK
  <2>2. kits' \in [KitNames -> Kits]
    BY <1>2 DEF DeleteKit, TypeOK, Kits
  <2> QED
    BY <1>2, <2>1, <2>2 DEF DeleteKit, TypeOK
<1> QED
  BY <1>1, <1>2 DEF User

LEMMA TypeStep == TypeOK /\ [Next]_vars => TypeOK'
<1> SUFFICES ASSUME TypeOK, [Next]_vars PROVE TypeOK'
  OBVIOUS
<1>1. CASE Reconcile
  BY <1>1, TypeSetup, TypeTraitsFail, TypeKits, TypeBuilds, TypeMonitor DEF Reconcile
<1>2. CASE UNCHANGED vars
  BY <1>2 DEF vars, TypeOK
<1> QED
  BY <1>1, <1>2, TypeEnvironment, TypeUser DEF Next

LEMMA InitType == Init => TypeOK
<1> SUFFICES ASSUME Init PROVE TypeOK
  OBVIOUS
<1>1. it \in Integrations /\ seen = it
  BY DEF Init, Integrations, Phases
<1>2. kits \in [KitNames -> Kits] /\ kitsSeen = kits
  BY DEF Init, Kits
<1>3. build \in Builds /\ buildSeen \in Builds
  BY DEF Init, Builds
<1>4. requests \in 0..MaxRequests /\ mishaps \in 0..MaxMishaps
  BY IntegrationBoundsAssumption DEF Init
<1> QED
  BY <1>1, <1>2, <1>3, <1>4 DEF Init, TypeOK, PodStates

(***************************************************************************)
(* Type correctness, whatever was read when a handler runs.                *)
(***************************************************************************)
THEOREM IntegrationTypeInvariant == Spec => []TypeOK
  BY InitType, TypeStep, PTL DEF Spec
-----------------------------------------------------------------------------
(***************************************************************************)
(* RunningIsDeployed rests on what the cached Integration says of the one  *)
(* that is stored, which is newer.                                         *)
(***************************************************************************)

(* Running is only ever written by the monitor action. *)
RunningIsMonitored == it.phase = "Running" => seen.phase \in Monitored

(* What was stored since is the cached kit and image, what the traits make *)
(* of them, or nothing at all.                                             *)
ReadOrForgotten ==
  seen.phase \in Monitored =>
    /\ it.kit \in {seen.kit, None}
    /\ it.image \in {seen.image, TraitImage} \/ (it.image = None /\ it.kit = None)

(* The Integration got Running after the Deployment was applied. *)
AppliedBefore ==
  seen.phase \in {"Deploying", "Error"} /\ it.phase = "Running" => deployment = TraitImage

(* An Integration that is Running has the image it was given. *)
GivenImageSeen ==
  seen.phase = "Running" /\ (seen.kit # None \/ seen.image # None) /\ seen.digest = seen.spec
    => TraitImage = seen.image

GivenImageStored ==
  it.phase = "Running" /\ ~Lost /\ it.digest # None /\ Kind[it.digest] = "image"
    => it.image = Need[it.digest]

(* The controller of a Running Integration is known, so that its           *)
(* Deployment is not taken for one of an earlier generation.               *)
RunningHasController ==
  it.phase = "Running" => "Deployment" \in it.conditions /\ HasController

(* Every patch carries the digest of the specification that was read. *)
DigestIsRead == it.digest \in {seen.digest, seen.spec, None}

IInv ==
  /\ TypeOK
  /\ RunningIsMonitored /\ RunningHasController /\ ReadOrForgotten /\ AppliedBefore
  /\ GivenImageSeen /\ GivenImageStored /\ DigestIsRead
  /\ RunningIsDeployed

(* A step that leaves the Integration and the Deployment alone. *)
LEMMA Elsewhere ==
  ASSUME IInv, TypeOK', it' = it, seen' = seen, deployment' = deployment
  PROVE  IInv'
<1>1. TraitImage' = TraitImage
  BY DEF TraitImage
<1>2. Lost' = Lost
  BY DEF Lost
<1>3. RunningHasController'
  BY DEF IInv, RunningHasController, HasController
<1> QED
  BY <1>1, <1>2, <1>3 DEF IInv, RunningIsMonitored, ReadOrForgotten, AppliedBefore, GivenImageSeen,
     GivenImageStored, DigestIsRead, RunningIsDeployed

LEMMA Observed ==
  ASSUME IInv, TypeOK', it' = it, seen' = it, deployment' = deployment
  PROVE  IInv'
<1>1. Lost' = Lost
  BY DEF Lost
<1>2. RunningIsMonitored' /\ ReadOrForgotten' /\ AppliedBefore' /\ DigestIsRead'
  BY DEF RunningIsMonitored, ReadOrForgotten, AppliedBefore, DigestIsRead, Monitored
<1>3. GivenImageStored' /\ RunningIsDeployed' /\ RunningHasController'
  BY <1>1 DEF IInv, GivenImageStored, RunningIsDeployed, RunningHasController, HasController
<1>4. GivenImageSeen'
  <2> SUFFICES ASSUME it.phase = "Running", it.kit # None \/ it.image # None, it.digest = it.spec
               PROVE  TraitImage' = it.image
    BY DEF GivenImageSeen
  <2>1. it.digest # None
    BY NeedAssumption DEF IInv, TypeOK, Integrations, None
  <2>2. ~Lost
    BY DEF Lost
  <2>3. Kind[it.digest] = "image" => it.image = Need[it.digest]
    BY <2>1, <2>2 DEF IInv, GivenImageStored
  <2>4. TraitImage' = IF Kind[it.spec] = "image" THEN Need[it.spec] ELSE it.image
    BY DEF TraitImage
  <2> QED
    BY <2>3, <2>4
<1> QED
  BY <1>2, <1>3, <1>4 DEF IInv

(* A step that does not leave the Integration Running, and keeps its kit   *)
(* and image, or forgets both.                                             *)
LEMMA NotRunning ==
  ASSUME IInv, TypeOK', seen' = seen, it'.phase # "Running", it'.digest \in {it.digest, seen.spec, None},
         seen.phase \in Monitored =>
           /\ it'.kit \in {it.kit, None}
           /\ it'.image \in {it.image, TraitImage} \/ (it'.image = None /\ it'.kit = None)
  PROVE  IInv'
<1>1. TraitImage' = TraitImage
  BY DEF TraitImage
<1>2. ReadOrForgotten'
  BY <1>1 DEF IInv, ReadOrForgotten
<1>3. DigestIsRead' /\ GivenImageSeen'
  BY <1>1 DEF IInv, DigestIsRead, GivenImageSeen
<1> QED
  BY <1>2, <1>3 DEF IInv, RunningIsMonitored, RunningHasController, AppliedBefore, GivenImageStored,
     RunningIsDeployed

LEMMA UserStep ==
  ASSUME IInv, TypeOK', User
  PROVE  IInv'
<1>1. it \in Integrations
  BY DEF IInv, TypeOK
<1>2. CASE Edit
  <2>1. PICK s \in Specs : Request([it EXCEPT !.spec = s])
    BY <1>2 DEF Edit
  <2>2. /\ it'.phase = it.phase /\ it'.digest = it.digest /\ it'.kit = it.kit /\ it'.image = it.image
        /\ it'.conditions = it.conditions /\ seen' = seen /\ deployment' = deployment
    BY <1>1, <2>1 DEF Request, Set, Integrations
  <2>3. TraitImage' = TraitImage /\ Lost' = Lost /\ HasController' = HasController
    BY <2>2 DEF TraitImage, Lost, HasController
  <2> QED
    BY <2>2, <2>3 DEF IInv, RunningIsMonitored, RunningHasController, ReadOrForgotten, AppliedBefore, GivenImageSeen,
       GivenImageStored, DigestIsRead, RunningIsDeployed
<1>3. CASE Rebuild
  <2>1. seen' = seen /\ it'.phase = "None" /\ it'.digest = None /\ it'.kit = None /\ it'.image = None
    BY <1>1, <1>3 DEF Rebuild, Request, Set, Integrations
  <2> QED
    BY <2>1, NotRunning
<1>4. CASE Deploy \/ Undeploy
  <2>1. /\ seen' = seen /\ it'.phase \in {"Deploying", "Undeploying"}
        /\ it'.digest = it.digest /\ it'.kit = it.kit /\ it'.image = it.image
    BY <1>1, <1>4 DEF Deploy, Undeploy, Request, Set, Integrations
  <2> QED
    BY <2>1, NotRunning
<1>5. CASE DeleteKit
  BY <1>5, Elsewhere DEF DeleteKit
<1> QED
  BY <1>2, <1>3, <1>4, <1>5 DEF User

LEMMA EnvironmentStep ==
  ASSUME IInv, TypeOK', Environment
  PROVE  IInv'
<1>1. CASE ObserveIntegration \/ Restart
  BY <1>1, Observed DEF ObserveIntegration, Restart
<1>2. CASE ObserveKits \/ ObserveBuild \/ Wake \/ PodsChange
  BY <1>2, Elsewhere DEF ObserveKits, ObserveBuild, Wake, PodsChange
<1>3. CASE KitProgress(KitNames) \/ KitOverturned
  BY <1>3, Elsewhere DEF KitProgress, KitOverturned, SetKit
<1>4. CASE BuildWorks(Builder!Under \cup Builder!Ended) \/ BuildSlips
  BY <1>4, Elsewhere DEF BuildWorks, BuildSlips, SetBuild
<1> QED
  BY <1>1, <1>2, <1>3, <1>4 DEF Environment

(* A reconciliation of an Integration that is not monitored. *)
LEMMA UnmonitoredStep ==
  ASSUME IInv, TypeOK', seen' = seen, seen.phase \notin Monitored,
         it' = it \/ \E target \in Integrations : target.phase # "Running" /\ Patch(target)
  PROVE  IInv'
<1>1. it'.phase # "Running"
  BY Patched DEF IInv, RunningIsMonitored
<1>2. it'.digest \in {it.digest, seen.spec}
  BY Patched DEF IInv
<1> QED
  BY <1>1, <1>2, NotRunning

LEMMA SetupStep ==
  ASSUME IInv, TypeOK', PlatformSetup \/ Initialize \/ InitializeUndeploying \/ BuildComplete
  PROVE  IInv'
<1>1. /\ {"Initialization", "BuildSubmitted", "BuildComplete", "BuildingKit", "Deploying"} \subseteq Phases
      /\ seen \in Integrations /\ TypeOK
  BY DEF IInv, TypeOK, Phases
<1>2. seen' = seen /\ seen.phase \in {"None", "Initialization", "Undeploying", "BuildComplete"}
  BY DEF PlatformSetup, Initialize, InitializeUndeploying, BuildComplete, Read
<1>3. \A p \in Phases, i \in Needs \cup {None}, c \in SUBSET {"InitFailed", "Deployment"} :
        /\ [seen EXCEPT !.phase = p].phase = p
        /\ [seen EXCEPT !.image = i, !.phase = p].phase = p
        /\ [seen EXCEPT !.phase = p, !.conditions = c].phase = p
  BY <1>1 DEF Integrations
<1>4. CASE PlatformSetup \/ BuildComplete
  <2>1. \E p \in {"Initialization", "Deploying", "BuildComplete"} : Patch([seen EXCEPT !.phase = p])
    BY <1>1, <1>4 DEF PlatformSetup, BuildComplete, Update, Read
  <2>2. \E target \in Integrations : target.phase # "Running" /\ Patch(target)
    BY <1>1, <1>3, <2>1, Targets
  <2> QED
    BY <1>2, <2>2, UnmonitoredStep DEF Monitored
<1>5. CASE Initialize
  <2>1. \/ Patch([seen EXCEPT !.phase = "BuildSubmitted"])
        \/ \E p \in {"BuildComplete", "BuildingKit"} : Patch([seen EXCEPT !.image = TraitImage, !.phase = p])
    BY <1>5 DEF Initialize, Update
  <2>2. \E target \in Integrations : target.phase # "Running" /\ Patch(target)
    <3>1. CASE Patch([seen EXCEPT !.phase = "BuildSubmitted"])
      BY <1>1, <1>3, <3>1, Targets
    <3>2. ASSUME NEW p \in {"BuildComplete", "BuildingKit"}, Patch([seen EXCEPT !.image = TraitImage, !.phase = p])
          PROVE  \E target \in Integrations : target.phase # "Running" /\ Patch(target)
      BY <1>1, <1>3, <3>2, Targets
    <3> QED
      BY <2>1, <3>1, <3>2
  <2> QED
    BY <1>2, <2>2, UnmonitoredStep DEF Monitored
<1>6. CASE InitializeUndeploying
  <2>1. \/ it' = it
        \/ \E p \in {"BuildComplete", "BuildingKit"} :
             Patch([seen EXCEPT !.phase = p, !.conditions = seen.conditions \ {"InitFailed"}])
    BY <1>1, <1>6 DEF InitializeUndeploying, Update, PatchFails, NoUpdate, Integrations
  <2>2. seen.conditions \ {"InitFailed"} \in SUBSET {"InitFailed", "Deployment"}
    BY <1>1, Targets
  <2>3. ASSUME NEW p \in {"BuildComplete", "BuildingKit"}
        PROVE  /\ [seen EXCEPT !.phase = p, !.conditions = seen.conditions \ {"InitFailed"}] \in Integrations
               /\ [seen EXCEPT !.phase = p, !.conditions = seen.conditions \ {"InitFailed"}].phase # "Running"
    BY <1>1, <2>2 DEF Integrations
  <2>4. it' = it \/ \E target \in Integrations : target.phase # "Running" /\ Patch(target)
    BY <2>1, <2>3
  <2> QED
    BY <1>2, <2>4, UnmonitoredStep DEF Monitored
<1> QED
  BY <1>4, <1>5, <1>6

LEMMA KitsStep ==
  ASSUME IInv, TypeOK', BuildingKitStartsOver \/ CheckKit \/ AssignKit \/ CreateKit \/ BuildKitFails
  PROVE  IInv'
<1>1. {"Initialization", "BuildComplete", "Error", "BuildingKit"} \subseteq Phases
      /\ seen \in Integrations /\ TypeOK
  BY DEF IInv, TypeOK, Phases
<1>2. seen' = seen /\ seen.phase = "BuildingKit"
  BY DEF BuildingKitStartsOver, CheckKit, AssignKit, CreateKit, BuildKitFails, BuildingKit, Read
<1>3. \A k \in KitNames : WithKit(k).phase = "BuildingKit"
  BY <1>1, <1>2 DEF WithKit, Integrations
<1>4. CASE BuildingKitStartsOver
  <2>1. Patch(Blank("Initialization")) /\ Blank("Initialization").phase = "Initialization"
    BY <1>4 DEF BuildingKitStartsOver, Update, Blank
  <2> QED
    BY <1>1, <1>2, <2>1, Targets, UnmonitoredStep DEF Monitored
<1>5. ASSUME NEW k \in KitNames, Match(kitsSeen[k]), NEW p \in {"BuildComplete", "Error", "BuildingKit"}
      PROVE  /\ [WithKit(k) EXCEPT !.phase = p] \in Integrations
             /\ [WithKit(k) EXCEPT !.phase = p].phase = p
  <2>1. WithKit(k) \in Integrations
    BY <1>1, <1>5, KitSeen
  <2> QED
    BY <1>1, <2>1 DEF Integrations
<1>6. CASE CheckKit
  <2>1. seen.kit \in KitNames
    BY <1>1, <1>6 DEF CheckKit, Integrations
  <2>2. \/ it' = it
        \/ Patch([seen EXCEPT !.kit = None])
        \/ /\ Match(kitsSeen[seen.kit])
           /\ \E p \in {"BuildComplete", "Error"} : Patch([WithKit(seen.kit) EXCEPT !.phase = p])
    BY <1>6 DEF CheckKit, Update, Nothing, NoUpdate
  <2>3. [seen EXCEPT !.kit = None] \in Integrations /\ [seen EXCEPT !.kit = None].phase = "BuildingKit"
    BY <1>1, <1>2 DEF Integrations
  <2> QED
    BY <1>2, <1>5, <2>1, <2>2, <2>3, UnmonitoredStep DEF Monitored
<1>7. CASE AssignKit
  <2>1. PICK k \in KitNames : /\ Match(kitsSeen[k])
                             /\ Patch([WithKit(k) EXCEPT !.phase = IF kitsSeen[k].phase = "Ready"
                                                                   THEN "BuildComplete" ELSE @])
    BY <1>7 DEF AssignKit, Candidates, Update
  <2>2. \E p \in {"BuildComplete", "BuildingKit"} : Patch([WithKit(k) EXCEPT !.phase = p])
    BY <1>3, <2>1
  <2> QED
    BY <1>2, <1>5, <2>1, <2>2, UnmonitoredStep DEF Monitored
<1>8. CASE CreateKit
  <2>1. it' = it \/ \E k \in KitNames : Patch([seen EXCEPT !.kit = k, !.image = None])
    BY <1>8 DEF CreateKit, Update, PatchFails, NoUpdate
  <2>2. \A k \in KitNames : /\ [seen EXCEPT !.kit = k, !.image = None] \in Integrations
                           /\ [seen EXCEPT !.kit = k, !.image = None].phase = "BuildingKit"
    BY <1>1, <1>2 DEF Integrations
  <2> QED
    BY <1>2, <2>1, <2>2, UnmonitoredStep DEF Monitored
<1>9. CASE BuildKitFails
  <2> DEFINE c == seen.conditions \ {"InitFailed"}
  <2>1. Patch([seen EXCEPT !.phase = "Error", !.conditions = c])
    BY <1>1, <1>9 DEF BuildKitFails, Integrations
  <2>2. /\ [seen EXCEPT !.phase = "Error", !.conditions = c] \in Integrations
        /\ [seen EXCEPT !.phase = "Error", !.conditions = c].phase = "Error"
    BY <1>1 DEF Integrations
  <2> QED
    BY <1>2, <2>1, <2>2, UnmonitoredStep DEF Monitored
<1> QED
  BY <1>4, <1>6, <1>7, <1>8, <1>9

LEMMA BuildsStep ==
  ASSUME IInv, TypeOK', SubmitBuild \/ BuilderTraitFails \/ AwaitBuild
  PROVE  IInv'
<1>1. /\ {"BuildRunning", "BuildComplete", "Error"} \subseteq Phases
      /\ it \in Integrations /\ seen \in Integrations /\ TypeOK
  BY DEF IInv, TypeOK, Phases
<1>2. CASE SubmitBuild
  <2> DEFINE target == [seen EXCEPT !.phase = "BuildRunning"]
  <2>1. seen' = seen /\ seen.phase = "BuildSubmitted" /\ (it' = it \/ Write(target))
    BY <1>1, <1>2, Submitting DEF Read
  <2>2. target \in Integrations /\ target.phase = "BuildRunning"
    BY <1>1 DEF Integrations
  <2> HIDE DEF target
  <2>3. it'.phase \in {it.phase, "BuildRunning"} /\ it'.digest \in {it.digest, seen.spec}
    BY <1>1, <2>1, <2>2, Written
  <2>4. it.phase # "Running"
    BY <2>1 DEF IInv, RunningIsMonitored, Monitored
  <2> QED
    BY <2>1, <2>3, <2>4, NotRunning DEF Monitored
<1>3. CASE AwaitBuild
  <2>1. seen' = seen /\ seen.phase = "BuildRunning"
    BY <1>3 DEF AwaitBuild, Read
  <2>2. CASE buildSeen = NoBuild
    BY <1>3, <2>1, <2>2, UnmonitoredStep DEF AwaitBuild, NoUpdate, NoBuild, Update, Monitored
  <2>3. CASE buildSeen.phase \in {"Waiting", "Running"}
    BY <1>1, <1>3, <2>1, <2>3, UnmonitoredStep DEF AwaitBuild, NoBuild, Update, Monitored
  <2>4. CASE buildSeen.phase = "Succeeded"
    <3> DEFINE target == [seen EXCEPT !.phase = "BuildComplete", !.image = Need[buildSeen.spec]]
    <3>1. Patch(target)
      BY <1>3, <2>4 DEF AwaitBuild, NoBuild, Update
    <3>2. Need[buildSeen.spec] \in Needs
      BY <1>1, <2>4 DEF TypeOK, Builds, NoBuild, Needs
    <3>3. target \in Integrations /\ target.phase = "BuildComplete"
      BY <1>1, <3>2 DEF Integrations
    <3> HIDE DEF target
    <3> QED
      BY <2>1, <3>1, <3>3, UnmonitoredStep DEF Monitored
  <2>5. CASE buildSeen.phase \in {"Failed", "Error", "Interrupted"}
    <3> DEFINE target == [seen EXCEPT !.phase = "Error", !.conditions = seen.conditions \ {"InitFailed"}]
    <3>1. Patch(target)
      BY <1>1, <1>3, <2>5 DEF AwaitBuild, NoBuild, Update, Integrations
    <3>2. target \in Integrations /\ target.phase = "Error"
      BY <1>1 DEF Integrations
    <3> HIDE DEF target
    <3> QED
      BY <2>1, <3>1, <3>2, UnmonitoredStep DEF Monitored
  <2> QED
    BY <1>3, <2>2, <2>3, <2>4, <2>5 DEF AwaitBuild
<1>4. CASE BuilderTraitFails
  BY <1>4, Elsewhere DEF BuilderTraitFails, NoUpdate, Read
<1> QED
  BY <1>2, <1>3, <1>4

(* A monitored Integration that is Running and is patched in this step has *)
(* the image that the traits give it.                                      *)
LEMMA GivenImage ==
  ASSUME IInv, Deployable, it.digest # None, Kind[it.digest] = "image"
  PROVE  TraitImage = Need[it.digest]
<1>1. it.digest = seen.spec
  BY DEF IInv, DigestIsRead, Deployable
<1> QED
  BY <1>1 DEF Deployable, TraitImage

LEMMA TraitsFailStep ==
  ASSUME IInv, TypeOK', TraitsFail
  PROVE  IInv'
<1>1. TypeOK
  BY DEF IInv
<1>2. PICK image \in {seen.image, TraitImage}, added \in SUBSET {"Deployment"} :
        FailedTarget(image, added) \in Integrations /\ Patch(FailedTarget(image, added))
  BY <1>1, TraitsFailing
<1>3. /\ FailedTarget(image, added).phase = "Error" /\ FailedTarget(image, added).kit = seen.kit
      /\ FailedTarget(image, added).image = image
      /\ seen.conditions \subseteq FailedTarget(image, added).conditions
  BY <1>1 DEF FailedTarget, TypeOK, Integrations
<1>4. seen' = seen
  BY <1>1, TraitsFailing
<1>5. CASE seen.phase \notin Monitored
  BY <1>2, <1>3, <1>4, <1>5, UnmonitoredStep
<1>6. CASE seen.phase \in Monitored
  <2>1. Deployable /\ (deployment' \in {deployment, TraitImage} \/ ~HasController)
    BY <1>1, <1>6, TraitsFailing DEF Monitored
  <2>2. /\ it'.phase = (IF seen.phase = "Error" THEN it.phase ELSE "Error")
        /\ it'.digest = it.digest /\ it'.kit = it.kit
        /\ it'.image \in {it.image, TraitImage}
        /\ seen.conditions \subseteq it'.conditions \/ it'.conditions = it.conditions
    BY <1>1, <1>2, <1>3, <2>1, Patched DEF Deployable
  <2>3. CASE it'.phase # "Running"
    BY <1>4, <2>2, <2>3, NotRunning
  <2>4. CASE it'.phase = "Running"
    <3>1. seen.phase = "Error" /\ it.phase = "Running"
      BY <2>2, <2>4
    <3>0. HasController /\ "Deployment" \in it.conditions /\ "Deployment" \in seen.conditions
      BY <3>1 DEF IInv, RunningHasController, HasController
    <3>2. deployment = TraitImage /\ deployment' = TraitImage
      BY <2>1, <3>0, <3>1 DEF IInv, AppliedBefore
    <3>3. TraitImage' = TraitImage
      BY <1>4 DEF TraitImage
    <3>9. RunningHasController'
      BY <1>4, <2>2, <3>0 DEF RunningHasController, HasController
    <3>4. RunningIsMonitored' /\ AppliedBefore' /\ GivenImageSeen' /\ DigestIsRead'
      BY <1>4, <1>6, <2>2, <3>2, <3>3 DEF IInv, RunningIsMonitored, AppliedBefore, GivenImageSeen, DigestIsRead
    <3>5. ReadOrForgotten'
      BY <1>4, <2>2, <3>3 DEF IInv, ReadOrForgotten
    <3>6. Lost' \/ it'.image = TraitImage
      BY <2>2, <3>1, <3>2 DEF IInv, RunningIsDeployed, Lost, Monitored
    <3>7. RunningIsDeployed'
      BY <3>2, <3>6 DEF RunningIsDeployed
    <3>8. GivenImageStored'
      BY <2>1, <2>2, <3>6, GivenImage DEF GivenImageStored
    <3> QED
      BY <3>4, <3>5, <3>7, <3>8, <3>9 DEF IInv
  <2> QED
    BY <2>3, <2>4
<1> QED
  BY <1>5, <1>6

(* A reconciliation that has applied the Deployment, and whose patch fails *)
(* or writes the phase and the image.                                      *)
LEMMA DeployedStep ==
  ASSUME IInv, TypeOK', Deployable, seen' = seen, deployment' = TraitImage,
         \/ it' = it
         \/ /\ it'.digest = it.digest /\ it'.kit = it.kit
            /\ it'.image = (IF TraitImage = seen.image THEN it.image ELSE TraitImage),
         RunningHasController'
  PROVE  IInv'
<1>1. TraitImage' = TraitImage
  BY DEF TraitImage
<1>2. seen.phase \in Monitored
  BY DEF Deployable, Monitored
<1>3. /\ it'.digest = it.digest /\ it'.kit = it.kit /\ it'.image \in {it.image, TraitImage}
  OBVIOUS
<1>4. RunningIsMonitored' /\ AppliedBefore' /\ GivenImageSeen' /\ DigestIsRead'
  BY <1>1, <1>2, <1>3 DEF IInv, RunningIsMonitored, AppliedBefore, GivenImageSeen, DigestIsRead
<1>5. ReadOrForgotten'
  BY <1>1, <1>3 DEF IInv, ReadOrForgotten
<1>6. it'.phase = "Running" => Lost' \/ it'.image = TraitImage
  <2> SUFFICES ASSUME it'.phase = "Running", ~Lost' PROVE it'.image = TraitImage
    OBVIOUS
  <2>1. ~(it'.kit = None /\ it'.image = None)
    BY DEF Lost, Monitored
  <2>2. CASE it' = it
    <3>1. ~Lost
      BY <2>1, <2>2 DEF Lost
    <3>2. CASE seen.phase \in {"Deploying", "Error"}
      BY <2>2, <3>1, <3>2 DEF IInv, AppliedBefore, RunningIsDeployed
    <3>3. CASE seen.phase = "Running"
      <4>1. TraitImage = seen.image
        BY <3>3 DEF IInv, GivenImageSeen, Deployable, HasImage
      <4> QED
        BY <1>2, <2>1, <2>2, <4>1 DEF IInv, ReadOrForgotten
    <3> QED
      BY <1>2, <3>2, <3>3 DEF Monitored
  <2>3. CASE it'.image = (IF TraitImage = seen.image THEN it.image ELSE TraitImage) /\ it'.kit = it.kit
    BY <1>2, <2>1, <2>3 DEF IInv, ReadOrForgotten
  <2> QED
    BY <2>2, <2>3
<1>7. RunningIsDeployed' /\ GivenImageStored'
  BY <1>3, <1>6, GivenImage DEF RunningIsDeployed, GivenImageStored
<1> QED
  BY <1>4, <1>5, <1>7 DEF IInv

LEMMA MonitorStep ==
  ASSUME IInv, TypeOK', MonitorStartsOver \/ MonitorFailed \/ MonitorGivesUp \/ MonitorPods
  PROVE  IInv'
<1>1. TypeOK
  BY DEF IInv
<1>2. CASE MonitorStartsOver
  <2>1. Patch(Blank("Initialization")) /\ Blank("Initialization") \in Integrations
    BY <1>1, <1>2, Targets DEF MonitorStartsOver, Update, Phases
  <2>2. /\ Blank("Initialization").phase = "Initialization" /\ Blank("Initialization").kit = None
        /\ Blank("Initialization").image = None
    BY DEF Blank
  <2>3. seen' = seen /\ seen.phase \in Monitored
    BY <1>2 DEF MonitorStartsOver, Read
  <2>4. /\ it'.phase = "Initialization" /\ it'.digest \in {it.digest, seen.spec}
        /\ it'.kit = (IF seen.kit = None THEN it.kit ELSE None)
        /\ it'.image = (IF seen.image = None THEN it.image ELSE None)
    BY <1>1, <2>1, <2>2, <2>3, Patched DEF Monitored
  <2>5. it'.kit = None
    BY <2>3, <2>4 DEF IInv, ReadOrForgotten
  <2> QED
    BY <2>3, <2>4, <2>5, NotRunning
<1>3. CASE MonitorFailed
  BY <1>3, Elsewhere DEF MonitorFailed, Nothing, NoUpdate, Read
<1>4. CASE MonitorGivesUp
  <2>1. it' = it /\ seen' = seen
    BY <1>4 DEF MonitorGivesUp, NoUpdate, Read
  <2>2. CASE deployment' = deployment
    BY <2>1, <2>2, Elsewhere
  <2>3. CASE deployment' # deployment
    <3>1. ~HasController
      BY <1>4, <2>3 DEF MonitorGivesUp, CollectsGarbage
    <3>2. it'.phase # "Running"
      BY <2>1, <3>1 DEF IInv, RunningHasController
    <3> QED
      BY <2>1, <3>2, NotRunning
  <2> QED
    BY <2>2, <2>3
<1>5. CASE MonitorPods
  <2>1. /\ seen' = seen /\ Deployable /\ HasController /\ deployment' = TraitImage
        /\ \/ it' = it
           \/ /\ pods # "Unreadable" /\ Patch(DeployedTarget)
              /\ DeployedTarget.phase # seen.phase => it'.conditions = DeployedTarget.conditions
    BY <1>5 DEF MonitorPods, DeployedTarget, Read, PatchFails, NoUpdate, Update
  <2>2. CASE it' = it
    <3>1. RunningHasController'
      BY <2>1, <2>2 DEF IInv, RunningHasController, HasController
    <3> QED
      BY <2>1, <2>2, <3>1, DeployedStep
  <2>3. CASE it' # it
    <3>1. /\ it'.digest = it.digest /\ it'.kit = it.kit
          /\ it'.image = (IF TraitImage = seen.image THEN it.image ELSE TraitImage)
      BY <1>1, <2>1, <2>3, DeployedType, Patched DEF Deployable
    <3>2. /\ "Deployment" \in it'.conditions \/ it'.conditions = it.conditions
          /\ it'.phase # it.phase => "Deployment" \in it'.conditions
      BY <1>1, <2>1, <2>3, DeployedType, Patched
    <3>3. RunningHasController'
      BY <2>1, <3>2 DEF IInv, RunningHasController, HasController
    <3> QED
      BY <2>1, <3>1, <3>3, DeployedStep
  <2> QED
    BY <2>2, <2>3
<1> QED
  BY <1>2, <1>3, <1>4, <1>5

LEMMA IInvStep == IInv /\ [Next]_vars => IInv'
<1> SUFFICES ASSUME IInv, [Next]_vars PROVE IInv'
  OBVIOUS
<1>1. TypeOK'
  BY TypeStep DEF IInv
<1>2. CASE Reconcile
  BY <1>1, <1>2, SetupStep, TraitsFailStep, KitsStep, BuildsStep, MonitorStep DEF Reconcile
<1>3. CASE UNCHANGED vars
  BY <1>1, <1>3, Elsewhere DEF vars
<1> QED
  BY <1>1, <1>2, <1>3, EnvironmentStep, UserStep DEF Next

LEMMA InitIInv == Init => IInv
<1> SUFFICES ASSUME Init PROVE IInv
  OBVIOUS
<1>1. it = seen /\ it.phase = "None" /\ it.digest = None
  BY DEF Init
<1> QED
  BY <1>1, InitType DEF IInv, RunningIsMonitored, RunningHasController, ReadOrForgotten, AppliedBefore, GivenImageSeen,
     GivenImageStored, DigestIsRead, RunningIsDeployed, Monitored

(***************************************************************************)
(* Whatever was read, edited, rebuilt or undeployed in between, the        *)
(* Deployment of a Running Integration runs the image of its status.       *)
(***************************************************************************)
THEOREM RunningIsAlwaysDeployed == Spec => []RunningIsDeployed
<1>1. IInv => RunningIsDeployed
  BY DEF IInv
<1> QED
  BY <1>1, InitIInv, IInvStep, PTL DEF Spec
-----------------------------------------------------------------------------
(***************************************************************************)
(* InStepWhenCompared.  What is stored may be ahead of what was read; a    *)
(* handler that has found the digest changed must not have been overtaken  *)
(* by an image.                                                            *)
(***************************************************************************)
ComparedPhases == Monitored \cup {"BuildingKit"}

ComparedFirst ==
  seen.phase \in ComparedPhases /\ seen.digest # seen.spec => it.image \in {seen.image, None}

(* What a reconciliation does to the image and to the digest. *)
ImageAndDigest ==
  \/ it' = it
  \/ /\ it'.digest = (IF seen.digest = seen.spec THEN it.digest ELSE seen.spec)
     /\ it'.image \in {it.image, None, Need[seen.spec]} \/ seen.phase = "BuildRunning"
     /\ seen.phase \in ComparedPhases /\ seen.digest # seen.spec
          => it'.image = (IF seen.image = None THEN it.image ELSE None)

LEMMA PatchedImage ==
  ASSUME TypeOK, NEW target \in Integrations, Patch(target),
         target.image \in {seen.image, None, Need[seen.spec]} \/ seen.phase = "BuildRunning",
         seen.phase \in ComparedPhases /\ seen.digest # seen.spec => target.image = None
  PROVE  ImageAndDigest
  BY Patched DEF ImageAndDigest

(* The traits change the image only to the one that is given. *)
LEMMA TraitImageIsGiven == TraitImage \in {seen.image, Need[seen.spec]}
  BY DEF TraitImage

LEMMA SetupImage ==
  ASSUME TypeOK, PlatformSetup \/ Initialize \/ InitializeUndeploying \/ BuildComplete
  PROVE  ImageAndDigest
<1>1. /\ {"Initialization", "BuildSubmitted", "BuildComplete", "BuildingKit", "Deploying"} \subseteq Phases
      /\ seen \in Integrations
  BY DEF TypeOK, Phases
<1>2. seen.phase \notin ComparedPhases
  BY DEF PlatformSetup, Initialize, InitializeUndeploying, BuildComplete, Read, ComparedPhases, Monitored
<1>3. \/ it' = it
      \/ \E p \in Phases, i \in {seen.image, TraitImage}, c \in SUBSET {"InitFailed", "Deployment"} :
           Patch([seen EXCEPT !.phase = p, !.image = i, !.conditions = c])
  <2>1. /\ \A p \in Phases : [seen EXCEPT !.phase = p]
                               = [seen EXCEPT !.phase = p, !.image = seen.image, !.conditions = seen.conditions]
        /\ \A p \in Phases : [seen EXCEPT !.image = TraitImage, !.phase = p]
                               = [seen EXCEPT !.phase = p, !.image = TraitImage, !.conditions = seen.conditions]
        /\ \A p \in Phases : [seen EXCEPT !.phase = p, !.conditions = @ \ {"InitFailed"}]
                               = [seen EXCEPT !.phase = p, !.image = seen.image,
                                              !.conditions = seen.conditions \ {"InitFailed"}]
    BY <1>1 DEF Integrations
  <2>2. /\ seen.conditions \in SUBSET {"InitFailed", "Deployment"}
        /\ seen.conditions \ {"InitFailed"} \in SUBSET {"InitFailed", "Deployment"}
        /\ seen.phase \in Phases
    BY Targets
  <2>3. CASE PlatformSetup \/ BuildComplete
    <3>1. \E p \in Phases : Patch([seen EXCEPT !.phase = p])
      BY <1>1, <2>2, <2>3 DEF PlatformSetup, BuildComplete, Update
    <3> QED
      BY <2>1, <2>2, <3>1
  <2>4. CASE Initialize
    <3>1. \E p \in Phases : \/ Patch([seen EXCEPT !.phase = p])
                            \/ Patch([seen EXCEPT !.image = TraitImage, !.phase = p])
      BY <1>1, <2>4 DEF Initialize, Update
    <3> QED
      BY <2>1, <2>2, <3>1
  <2>5. CASE InitializeUndeploying
    <3>1. it' = it \/ \E p \in Phases : Patch([seen EXCEPT !.phase = p, !.conditions = @ \ {"InitFailed"}])
      BY <1>1, <2>5 DEF InitializeUndeploying, Update, PatchFails, NoUpdate
    <3> QED
      BY <2>1, <2>2, <3>1
  <2> QED
    BY <2>3, <2>4, <2>5
<1>4. CASE it' = it
  BY <1>4 DEF ImageAndDigest
<1>5. ASSUME NEW p \in Phases, NEW i \in {seen.image, TraitImage},
             NEW c \in SUBSET {"InitFailed", "Deployment"},
             Patch([seen EXCEPT !.phase = p, !.image = i, !.conditions = c])
      PROVE  ImageAndDigest
  <2> DEFINE target == [seen EXCEPT !.phase = p, !.image = i, !.conditions = c]
  <2>0. i \in Needs \cup {None}
    BY Targets
  <2>1. target \in Integrations /\ target.image = i
    BY <1>1, <2>0 DEF Integrations
  <2>2. Patch(target)
    BY <1>5
  <2> HIDE DEF target
  <2> QED
    BY <1>2, <2>1, <2>2, TraitImageIsGiven, PatchedImage
<1> QED
  BY <1>3, <1>4, <1>5

LEMMA TraitsFailImage ==
  ASSUME TypeOK, TraitsFail
  PROVE  ImageAndDigest
<1>1. PICK image \in {seen.image, TraitImage}, added \in SUBSET {"Deployment"} :
        FailedTarget(image, added) \in Integrations /\ Patch(FailedTarget(image, added))
  BY TraitsFailing
<1>2. FailedTarget(image, added).image = image
  BY DEF FailedTarget, TypeOK, Integrations
<1>3. seen.phase \in ComparedPhases => seen.digest = seen.spec
  BY DEF TraitsFail, Read, Phases, ComparedPhases, Monitored, Deployable
<1> QED
  BY <1>1, <1>2, <1>3, TraitImageIsGiven, PatchedImage

LEMMA KitsImage ==
  ASSUME TypeOK, BuildingKitStartsOver \/ CheckKit \/ AssignKit \/ CreateKit \/ BuildKitFails
  PROVE  ImageAndDigest
<1>1. seen \in Integrations /\ {"Initialization", "BuildComplete", "Error", "BuildingKit"} \subseteq Phases
  BY DEF TypeOK, Phases
<1>2. CASE BuildingKitStartsOver
  <2>1. Patch(Blank("Initialization")) /\ Blank("Initialization").image = None
    BY <1>2 DEF BuildingKitStartsOver, Update, Blank
  <2> QED
    BY <1>1, <2>1, Targets, PatchedImage
<1>3. ASSUME NEW k \in KitNames, Match(kitsSeen[k]), NEW p \in {"BuildComplete", "Error", "BuildingKit"},
             seen.digest = seen.spec, Patch([WithKit(k) EXCEPT !.phase = p])
      PROVE  ImageAndDigest
  <2> DEFINE target == [WithKit(k) EXCEPT !.phase = p]
  <2>1. target \in Integrations
    BY <1>1, <1>3, KitSeen
  <2>2. target.image \in {None, Need[seen.spec]}
    BY <1>1, <1>3 DEF WithKit, Match, Integrations
  <2>3. Patch(target)
    BY <1>3
  <2> HIDE DEF target
  <2> QED
    BY <1>3, <2>1, <2>2, <2>3, PatchedImage
<1>4. CASE CheckKit
  <2>1. seen.kit \in KitNames /\ seen.digest = seen.spec
    BY <1>1, <1>4 DEF CheckKit, Integrations
  <2>2. \/ it' = it
        \/ Patch([seen EXCEPT !.kit = None])
        \/ /\ Match(kitsSeen[seen.kit])
           /\ \E p \in {"BuildComplete", "Error"} : Patch([WithKit(seen.kit) EXCEPT !.phase = p])
    BY <1>4 DEF CheckKit, Update, Nothing, NoUpdate
  <2>3. [seen EXCEPT !.kit = None] \in Integrations /\ [seen EXCEPT !.kit = None].image = seen.image
    BY <1>1 DEF Integrations
  <2> QED
    BY <1>3, <2>1, <2>2, <2>3, PatchedImage DEF ImageAndDigest
<1>5. CASE AssignKit
  <2>1. \A k \in KitNames : WithKit(k).phase = "BuildingKit"
    BY <1>1, <1>5 DEF WithKit, Integrations, AssignKit, BuildingKit, Read
  <2>2. PICK k \in KitNames : /\ Match(kitsSeen[k])
                             /\ Patch([WithKit(k) EXCEPT !.phase = IF kitsSeen[k].phase = "Ready"
                                                                   THEN "BuildComplete" ELSE @])
    BY <1>5 DEF AssignKit, Candidates, Update
  <2>3. \E p \in {"BuildComplete", "BuildingKit"} : Patch([WithKit(k) EXCEPT !.phase = p])
    BY <2>1, <2>2
  <2> QED
    BY <1>3, <1>5, <2>2, <2>3 DEF AssignKit
<1>6. CASE CreateKit
  <2>1. it' = it \/ \E k \in KitNames : Patch([seen EXCEPT !.kit = k, !.image = None])
    BY <1>6 DEF CreateKit, Update, PatchFails, NoUpdate
  <2>2. \A k \in KitNames : /\ [seen EXCEPT !.kit = k, !.image = None] \in Integrations
                           /\ [seen EXCEPT !.kit = k, !.image = None].image = None
    BY <1>1 DEF Integrations
  <2> QED
    BY <2>1, <2>2, PatchedImage DEF ImageAndDigest
<1>7. CASE BuildKitFails
  <2> DEFINE c == seen.conditions \ {"InitFailed"}
  <2>1. Patch([seen EXCEPT !.phase = "Error", !.conditions = c]) /\ seen.digest = seen.spec
    BY <1>1, <1>7 DEF BuildKitFails, Integrations
  <2>2. /\ [seen EXCEPT !.phase = "Error", !.conditions = c] \in Integrations
        /\ [seen EXCEPT !.phase = "Error", !.conditions = c].image = seen.image
    BY <1>1 DEF Integrations
  <2> QED
    BY <2>1, <2>2, PatchedImage
<1> QED
  BY <1>2, <1>4, <1>5, <1>6, <1>7

LEMMA BuildsImage ==
  ASSUME TypeOK, SubmitBuild \/ BuilderTraitFails \/ AwaitBuild
  PROVE  ImageAndDigest
<1>1. it \in Integrations /\ seen \in Integrations /\ {"BuildRunning", "BuildComplete", "Error"} \subseteq Phases
  BY DEF TypeOK, Phases
<1>2. CASE SubmitBuild
  <2> DEFINE target == [seen EXCEPT !.phase = "BuildRunning"]
  <2>1. seen.phase = "BuildSubmitted" /\ (it' = it \/ Write(target))
    BY <1>1, <1>2, Submitting DEF Read
  <2>2. target \in Integrations /\ target.image = seen.image
    BY <1>1 DEF Integrations
  <2> HIDE DEF target
  <2> QED
    BY <1>1, <2>1, <2>2, Written DEF ImageAndDigest, ComparedPhases, Monitored
<1>3. CASE AwaitBuild
  <2>1. seen.phase = "BuildRunning" /\ "BuildRunning" \notin ComparedPhases
    BY <1>3 DEF AwaitBuild, Read, ComparedPhases, Monitored
  <2>2. it' = it \/ \E target \in Integrations : Patch(target)
    <3>1. buildSeen.phase = "Succeeded" => Need[buildSeen.spec] \in Needs
      BY DEF TypeOK, Builds, NoBuild, Needs
    <3>2. \A p \in Phases, i \in Needs : [seen EXCEPT !.phase = p, !.image = i] \in Integrations
      BY <1>1 DEF Integrations
    <3> QED
      BY <1>1, <1>3, <3>1, <3>2, Targets DEF AwaitBuild, Update, NoUpdate
  <2> QED
    BY <2>1, <2>2, PatchedImage DEF ImageAndDigest
<1>4. CASE BuilderTraitFails
  BY <1>4 DEF BuilderTraitFails, NoUpdate, ImageAndDigest
<1> QED
  BY <1>2, <1>3, <1>4

LEMMA MonitorImage ==
  ASSUME TypeOK, MonitorStartsOver \/ MonitorFailed \/ MonitorGivesUp \/ MonitorPods
  PROVE  ImageAndDigest
<1>1. CASE MonitorStartsOver
  <2>1. Patch(Blank("Initialization")) /\ Blank("Initialization").image = None
        /\ Blank("Initialization") \in Integrations
    BY <1>1, Targets DEF MonitorStartsOver, Update, Blank, Phases
  <2> QED
    BY <2>1, PatchedImage
<1>2. CASE MonitorFailed \/ MonitorGivesUp
  BY <1>2 DEF MonitorFailed, MonitorGivesUp, Nothing, NoUpdate, ImageAndDigest
<1>3. CASE MonitorPods
  <2>1. Deployable /\ (it' = it \/ (pods # "Unreadable" /\ Patch(DeployedTarget)))
    BY <1>3 DEF MonitorPods, DeployedTarget, PatchFails, NoUpdate, Update
  <2> QED
    BY <2>1, DeployedType, TraitImageIsGiven, PatchedImage DEF ImageAndDigest, Deployable
<1> QED
  BY <1>1, <1>2, <1>3

LEMMA ReconcileImage ==
  ASSUME TypeOK, Reconcile
  PROVE  ImageAndDigest /\ seen' = seen
<1>1. ImageAndDigest
  BY SetupImage, TraitsFailImage, KitsImage, BuildsImage, MonitorImage DEF Reconcile
<1>2. seen' = seen
  BY DEF Reconcile, PlatformSetup, Initialize, InitializeUndeploying, TraitsFail, BuildingKitStartsOver,
     CheckKit, AssignKit, CreateKit, BuildKitFails, BuildingKit, SubmitBuild, BuilderTraitFails, AwaitBuild, BuildComplete,
     MonitorStartsOver, MonitorFailed, MonitorGivesUp, MonitorPods, Read
<1> QED
  BY <1>1, <1>2

(* Steps of others: they leave the status alone, forget it, or deliver it. *)
LEMMA OthersImage ==
  ASSUME TypeOK, Environment \/ User \/ UNCHANGED vars
  PROVE  \/ it' = it /\ seen' \in {it, seen}
         \/ /\ seen' = seen
            /\ \/ it'.image = it.image /\ it'.digest = it.digest
               \/ it'.image = None
<1>1. it \in Integrations
  BY DEF TypeOK
<1>2. CASE Environment
  BY <1>2 DEF Environment, ObserveIntegration, ObserveKits, ObserveBuild, Restart, Wake,
     KitProgress, KitOverturned, SetKit, BuildWorks, BuildSlips, SetBuild, PodsChange
<1>3. CASE Edit \/ Deploy \/ Undeploy
  BY <1>1, <1>3 DEF Edit, Deploy, Undeploy, Request, Set, Integrations
<1>4. CASE Rebuild
  BY <1>1, <1>4 DEF Rebuild, Request, Set, Integrations
<1>5. CASE DeleteKit
  BY <1>5 DEF DeleteKit
<1>6. CASE UNCHANGED vars
  BY <1>6 DEF vars
<1> QED
  BY <1>2, <1>3, <1>4, <1>5, <1>6 DEF User

LEMMA ComparedFirstStep == TypeOK /\ ComparedFirst /\ [Next]_vars => ComparedFirst'
<1> SUFFICES ASSUME TypeOK, ComparedFirst, [Next]_vars PROVE ComparedFirst'
  OBVIOUS
<1>1. CASE Reconcile
  BY <1>1, ReconcileImage DEF ImageAndDigest, ComparedFirst
<1>2. CASE Environment \/ User \/ UNCHANGED vars
  BY <1>2, OthersImage DEF ComparedFirst
<1> QED
  BY <1>1, <1>2 DEF Next

LEMMA InStepStep ==
  ASSUME IInv, ComparedFirst, [Next]_vars, InStep, ~InStep'
  PROVE  /\ seen.phase \notin ComparedPhases
         /\ it'.image = it.image \/ seen.phase = "BuildRunning"
<1>1. TypeOK
  BY DEF IInv
<1>2. ~(Environment \/ User \/ UNCHANGED vars)
  BY <1>1, OthersImage DEF InStep
<1>3. ImageAndDigest /\ it' # it
  BY <1>1, <1>2, ReconcileImage DEF Next, InStep
<1>4. it'.digest \in {seen.spec, None}
  BY <1>3 DEF ImageAndDigest, IInv, DigestIsRead
<1>5. it'.image # None /\ it'.digest = seen.spec /\ it'.image # Need[seen.spec]
  BY <1>4 DEF InStep
<1>6. it'.image = it.image \/ seen.phase = "BuildRunning"
  BY <1>3, <1>5 DEF ImageAndDigest
<1>7. CASE seen.phase \in ComparedPhases
  <2>1. it'.image = it.image
    BY <1>6, <1>7 DEF ComparedPhases, Monitored
  <2>2. CASE seen.digest = seen.spec
    BY <1>3, <1>5, <2>1, <2>2 DEF ImageAndDigest, InStep
  <2>3. CASE seen.digest # seen.spec
    BY <1>3, <1>5, <1>7, <2>1, <2>3 DEF ImageAndDigest, ComparedFirst
  <2> QED
    BY <2>2, <2>3
<1> QED
  BY <1>6, <1>7

(***************************************************************************)
(* Image and digest go out of step neither while the Integration is        *)
(* monitored nor while it waits for a kit, however many edits, rebuilds    *)
(* and outdated reads meet.                                                *)
(***************************************************************************)
THEOREM StaysInStepWhenCompared == Spec => InStepWhenCompared
<1>1. Init => ComparedFirst
  BY DEF Init, ComparedFirst
<1>2. IInv => TypeOK
  BY DEF IInv
<1>3. IInv /\ ComparedFirst /\ [Next]_vars
        => [InStep /\ ~InStep' => /\ seen.phase \notin Monitored \cup {"BuildingKit"}
                                  /\ it'.image = it.image \/ seen.phase = "BuildRunning"]_vars
  BY InStepStep DEF ComparedPhases
<1> QED
  BY <1>1, <1>2, <1>3, InitIInv, IInvStep, ComparedFirstStep, PTL DEF Spec, InStepWhenCompared
=============================================================================
