------------------------ MODULE IntegrationKitProofs ------------------------
(***************************************************************************)
(* Proofs about IntegrationKit, for any set of specifications, any digest  *)
(* (two specifications may have the same one) and any bounds.              *)
(*                                                                         *)
(* The invariant says how far the stored kit may be ahead of the copy that *)
(* a reconciliation reads: by phase (PhaseAhead), by digest and image      *)
(* (StatusAhead), and by the Builds that were made meanwhile (Unovertaken). *)
(***************************************************************************)
EXTENDS IntegrationKit, TLAPS

(* The phases the stored kit may have reached, by the phase of the copy.   *)
PhaseAhead ==
  /\ seen.phase \in {"None", "WaitingForPlatform"}
       => kit.phase \in {"None", "WaitingForPlatform", "Initialization"}
  /\ seen.phase = "BuildSubmitted" => kit.phase \in {"BuildSubmitted", "BuildRunning", "Error"}
  /\ seen.phase = "BuildRunning" => kit.phase \in {"BuildRunning", "Ready", "Error"}
  /\ seen.phase = "Ready" => kit.phase \in {"Ready", "Initialization"}
  /\ seen.phase = "Error" => kit.phase \in {"Error", "Initialization"}

Initializing == seen.phase \in {"Initialization", "WaitingForCatalog"}

(* The digest and the image it may have got since the copy. *)
StatusAhead ==
  /\ kit.external = seen.external
  /\ kit.digest \in {seen.digest, Digest[seen.spec]}
  /\ \/ kit.image = seen.image
     \/ Initializing /\ seen.spec \in WithImage /\ kit.image = Given(seen.spec)
     \/ seen.phase = "BuildRunning" /\ ~overtaken /\ kit.image = BuiltOf(seen.spec)
     \/ seen.phase = "BuildRunning" /\ overtaken
  /\ Initializing /\ kit.phase = "Ready"
       => seen.spec \in WithImage /\ kit.image = Given(seen.spec) /\ kit.digest = Digest[seen.spec]
  /\ seen.phase = "Ready" /\ kit.phase = "Ready" /\ ~kit.external
       => kit.digest = seen.digest /\ kit.image = seen.image

(* Without an edit during a build: the Builds, stored and cached, are of   *)
(* the specification that the kit, stored or cached, waits for.            *)
UnderWay(b) == b.phase \in Under

BuiltFrom(s) == \A b \in {build, buildSeen} : b # NoBuild => b.spec = s

Unovertaken ==
  /\ \A b \in {build, buildSeen} : UnderWay(b) => b.spec = kit.spec
  /\ UnderWay(buildSeen) /\ build # NoBuild => build.spec = kit.spec
  /\ kit.phase = "BuildRunning" => BuiltFrom(kit.spec)
  /\ seen.phase = "BuildSubmitted" => seen.spec = kit.spec
  /\ seen.phase = "BuildRunning" => BuiltFrom(seen.spec)
  /\ seen.phase = "BuildRunning" /\ kit.phase = "BuildRunning" => seen.spec = kit.spec

IInv == TypeOK /\ PhaseAhead /\ StatusAhead /\ (overtaken \/ Unovertaken) /\ ReadyIsBuilt

(* A step of the Build controller changes the phase of a Build that is     *)
(* there; unless it slips, of one that is under way.                       *)
LEMMA BuildSteps ==
  ASSUME TypeOK, BuildWorks(Under \cup Ended) \/ BuildSlips
  PROVE  /\ build \in Build /\ build' \in Build
         /\ build'.spec = build.spec /\ buildSeen' = buildSeen
         /\ BuildWorks(Under \cup Ended) => UnderWay(build)
<1>1. PICK phase \in Under \cup Ended : SetBuild(phase)
  BY DEF BuildWorks, BuildSlips
<1>2. build' = [build EXCEPT !.phase = phase] /\ buildSeen' = buildSeen
  BY <1>1 DEF SetBuild
<1>3. build.phase # "Absent" /\ (BuildWorks(Under \cup Ended) => UnderWay(build))
  BY DEF BuildWorks, BuildSlips, Builder!Work, Builder!Slip, Builder!Under, Under, UnderWay
<1>4. build \in Build
  BY <1>3 DEF TypeOK, NoBuild
<1>5. QED BY <1>2, <1>3, <1>4 DEF Build

LEMMA InitHolds == Init => IInv
<1> SUFFICES ASSUME Init PROVE IInv
  OBVIOUS
<1>1. kit \in Kit
  <2>1. PICK s \in Specs, e \in BOOLEAN :
          kit = [external |-> e, phase |-> "None", spec |-> s, digest |-> 0, image |-> NoImage]
    BY DEF Init
  <2>2. NoImage \in Images /\ "None" \in KitPhases
    BY DEF Images, KitPhases
  <2> QED
    BY <2>1, <2>2 DEF Kit
<1>2. TypeOK
  <2>1. edits \in 0..MaxEdits /\ mishaps \in 0..MaxMishaps
    BY KitBoundsAssumption DEF Init
  <2> QED
    BY <1>1, <2>1 DEF Init, TypeOK
<1>3. kit.phase = "None" /\ seen.phase = "None" /\ kit = seen
  BY DEF Init
<1>4. PhaseAhead /\ StatusAhead /\ ReadyIsBuilt
  BY <1>3 DEF PhaseAhead, StatusAhead, ReadyIsBuilt, ImageOfDigest, Initializing
<1>5. Unovertaken
  BY <1>3 DEF Under, Builder!Under, Init, Unovertaken, UnderWay, BuiltFrom, NoBuild
<1> QED
  BY <1>2, <1>4, <1>5 DEF IInv

(***************************************************************************)
(* What a status patch makes of the stored kit: whatever it read, the      *)
(* digest is the one of the specification it read.                         *)
(***************************************************************************)
LEMMA Patched ==
  ASSUME TypeOK, StatusAhead, NEW phase, NEW image, Update(phase, image)
  PROVE  /\ kit' = [kit EXCEPT !.phase  = IF phase = seen.phase THEN @ ELSE phase,
                               !.digest = Digest[seen.spec],
                               !.image  = IF image = seen.image THEN @ ELSE image]
         /\ kit'.external = kit.external /\ kit'.spec = kit.spec
         /\ kit'.phase = (IF phase = seen.phase THEN kit.phase ELSE phase)
         /\ kit'.digest = Digest[seen.spec]
         /\ kit'.image = (IF image = seen.image THEN kit.image ELSE image)
  BY DEF TypeOK, StatusAhead, Update, MergeFrom, Kit

LEMMA PatchedType ==
  ASSUME TypeOK, StatusAhead, NEW phase \in KitPhases, NEW image \in Images, Update(phase, image)
  PROVE  kit' \in Kit /\ build' = build /\ events' \subseteq {"kit", "build"}
<1>1. kit' = [kit EXCEPT !.phase  = IF phase = seen.phase THEN @ ELSE phase,
                         !.digest = Digest[seen.spec],
                         !.image  = IF image = seen.image THEN @ ELSE image]
  BY Patched
<1>2. Digest[seen.spec] \in {Digest[s] : s \in Specs}
  BY DEF TypeOK, Kit
<1>3. kit' \in Kit
  BY <1>1, <1>2 DEF TypeOK, Kit
<1> QED
  BY <1>3 DEF TypeOK, Update

LEMMA ReadType ==
  ASSUME TypeOK, NEW phases, Read(phases)
  PROVE  /\ seen' = seen /\ buildSeen' = buildSeen /\ overtaken' = overtaken
         /\ mishaps' \in 0..MaxMishaps /\ edits' \in 0..MaxEdits /\ queued' \in BOOLEAN
         /\ platform' \in {"Absent", "NotReady", "Ready"} /\ catalog' \in {"NotReady", "Ready", "Error"}
  BY KitBoundsAssumption DEF TypeOK, Read

(***************************************************************************)
(* Every reconciliation leaves the copies alone, and patches the kit, or   *)
(* replaces the Build, or does nothing.                                    *)
(***************************************************************************)
TypeAfterRead ==
  /\ kit' \in Kit /\ build' \in Build \cup {NoBuild}
  /\ events' \subseteq {"kit", "build"}

LEMMA TypeFromRead ==
  ASSUME TypeOK, NEW phases, Read(phases), TypeAfterRead
  PROVE  TypeOK'
  BY ReadType DEF TypeOK, TypeAfterRead

LEMMA TypeStep == TypeOK /\ StatusAhead /\ [Next]_vars => TypeOK'
<1> SUFFICES ASSUME TypeOK, StatusAhead, [Next]_vars PROVE TypeOK'
  OBVIOUS
<1>0. seen.image \in Images /\ seen.phase \in KitPhases /\ seen.spec \in Specs
  BY DEF TypeOK, Kit
<1>00. NoUpdate => TypeAfterRead
  BY DEF NoUpdate, TypeAfterRead, TypeOK
<1>1. CASE ShiftPhase
  <2>1. TypeAfterRead
    BY <1>1, <1>0, <1>00, PatchedType DEF ShiftPhase, TypeAfterRead, TypeOK, KitPhases
  <2> QED
    BY <1>1, <2>1, TypeFromRead DEF ShiftPhase
<1>2. CASE InitializeImage
  <2>1. Given(seen.spec) \in Images
    BY <1>2 DEF InitializeImage, Images
  <2>2. TypeAfterRead
    BY <1>2, <2>1, PatchedType DEF InitializeImage, TypeAfterRead, TypeOK, KitPhases
  <2> QED
    BY <1>2, <2>2, TypeFromRead DEF InitializeImage
<1>3. CASE InitializeBuild
  <2>1. PhaseFor(catalog) \in KitPhases
    BY DEF PhaseFor, KitPhases
  <2>2. TypeAfterRead
    BY <1>3, <1>0, <2>1, PatchedType DEF InitializeBuild, TypeAfterRead, TypeOK
  <2> QED
    BY <1>3, <2>2, TypeFromRead DEF InitializeBuild
<1>4. CASE CreateBuild
  <2>1. TypeAfterRead
    BY <1>4, <1>0 DEF Under, Builder!Under, CreateBuild, NewBuild, Build, TypeAfterRead, TypeOK
  <2> QED
    BY <1>4, <2>1, TypeFromRead DEF CreateBuild
<1>19. CASE BuilderTraitFails
  BY <1>00, <1>19, TypeFromRead DEF BuilderTraitFails
<1>20. CASE RejectKit
  <2>1. kit' \in Kit
    BY <1>20 DEF RejectKit, TypeOK, Kit, KitPhases
  <2>2. build' \in Build \cup {NoBuild} /\ events' \subseteq {"kit", "build"}
    BY <1>0, <1>20 DEF RejectKit, NewBuild, Build, Under, Builder!Under, TypeOK
  <2> QED
    BY <1>20, <2>1, <2>2, TypeFromRead DEF RejectKit, TypeAfterRead
<1>5. CASE CreateBuildFails
  <2>1. TypeAfterRead
    BY <1>5 DEF CreateBuildFails, TypeAfterRead, TypeOK
  <2> QED
    BY <1>5, <2>1, TypeFromRead DEF CreateBuildFails
<1>6. CASE BuildIsSubmitted
  <2>1. TypeAfterRead
    BY <1>6, <1>0, <1>00, PatchedType DEF BuildIsSubmitted, TypeAfterRead, TypeOK, KitPhases
  <2> QED
    BY <1>6, <2>1, TypeFromRead DEF BuildIsSubmitted
<1>7. CASE BuildIsRunning
  <2>1. buildSeen.phase = "Succeeded" => BuiltOf(buildSeen.spec) \in Images
    BY DEF TypeOK, Build, NoBuild, Images
  <2>2. TypeAfterRead
    BY <1>7, <1>0, <1>00, <2>1, PatchedType DEF BuildIsRunning, TypeAfterRead, TypeOK, KitPhases
  <2> QED
    BY <1>7, <2>2, TypeFromRead DEF BuildIsRunning
<1>8. CASE MonitorKit
  <2>1. TypeAfterRead
    BY <1>8, <1>0, <1>00, PatchedType DEF MonitorKit, TypeAfterRead, TypeOK, KitPhases
  <2> QED
    BY <1>8, <2>1, TypeFromRead DEF MonitorKit
<1>9. CASE MonitorExternal
  <2>1. TypeAfterRead
    BY <1>9, <1>0, <1>00, PatchedType DEF MonitorExternal, TypeAfterRead, TypeOK
  <2> QED
    BY <1>9, <2>1, TypeFromRead DEF MonitorExternal
<1>10. CASE ObserveKit \/ ObserveBuild \/ Restart
  BY <1>10 DEF ObserveKit, ObserveBuild, Restart, TypeOK
<1>11. CASE Edit
  <2>1. kit' \in Kit
    BY <1>11 DEF Edit, TypeOK, Kit
  <2>2. edits' \in 0..MaxEdits
    BY <1>11, KitBoundsAssumption DEF Edit, TypeOK
  <2>3. overtaken' \in BOOLEAN
    BY <1>11 DEF Edit, TypeOK
  <2> QED
    BY <1>11, <2>1, <2>2, <2>3 DEF Edit, TypeOK
<1>12. CASE BuildWorks(Under \cup Ended)
  BY <1>12, BuildSteps DEF BuildWorks, SetBuild, TypeOK
<1>13. CASE DeleteBuild
  BY <1>13, KitBoundsAssumption DEF DeleteBuild, TypeOK
<1>14. CASE PlatformReady
  BY <1>14 DEF PlatformReady, TypeOK
<1>15. CASE CatalogSteps
  BY <1>15 DEF CatalogSteps, TypeOK
<1>16. CASE Reset
  BY <1>16, KitBoundsAssumption DEF Reset, TypeOK
<1>17. CASE UNCHANGED vars
  BY <1>17 DEF vars, TypeOK
<1>18. CASE BuildSlips
  <2>1. mishaps' \in 0..MaxMishaps /\ overtaken' \in BOOLEAN
    BY <1>18, KitBoundsAssumption DEF BuildSlips, TypeOK
  <2> QED
    BY <1>18, <2>1, BuildSteps DEF BuildSlips, SetBuild, TypeOK
<1> QED
  BY <1>1, <1>2, <1>3, <1>4, <1>5, <1>6, <1>7, <1>8, <1>9, <1>10, <1>11, <1>12, <1>13, <1>14,
     <1>15, <1>16, <1>17, <1>18, <1>19, <1>20
  DEF Next, Reconcile, Environment

(***************************************************************************)
(* Steps that leave the kit and its copy as they are.                      *)
(***************************************************************************)
Elsewhere ==
  \/ CreateBuild \/ CreateBuildFails \/ BuilderTraitFails \/ ObserveBuild
  \/ BuildWorks(Under \cup Ended) \/ DeleteBuild
  \/ PlatformReady \/ CatalogSteps \/ Reset
  \/ UNCHANGED vars

LEMMA ElsewhereKeeps ==
  ASSUME Elsewhere
  PROVE  kit' = kit /\ seen' = seen /\ overtaken' = overtaken
  BY DEF Elsewhere, CreateBuild, CreateBuildFails, BuilderTraitFails, NoUpdate, Read, ObserveBuild, BuildWorks,
         SetBuild, DeleteBuild, PlatformReady, CatalogSteps, Reset, vars

(* What a reconciliation of the kit does: a patch, or nothing. *)
Patching == ShiftPhase \/ InitializeImage \/ InitializeBuild \/ BuildIsSubmitted
            \/ BuildIsRunning \/ MonitorKit \/ MonitorExternal

LEMMA Steps ==
  [Next]_vars
    => Elsewhere \/ Patching \/ RejectKit \/ ObserveKit \/ Restart \/ Edit \/ BuildSlips
  BY DEF Next, Reconcile, Environment, Elsewhere, Patching

(* Every patch there is, by what was read and what it writes. *)
Writes(phase, image) ==
  \/ /\ seen.phase \in {"None", "WaitingForPlatform"}
     /\ phase \in {"Initialization", "WaitingForPlatform"} /\ phase # seen.phase
     /\ image = seen.image
  \/ /\ Initializing /\ seen.spec \in WithImage
     /\ phase = "Ready" /\ image = Given(seen.spec)
  \/ /\ Initializing /\ seen.spec \notin WithImage
     /\ phase \in {"BuildSubmitted", "WaitingForCatalog", "Error"} /\ image = seen.image
  \/ /\ seen.phase = "BuildSubmitted" /\ buildSeen.phase = "Running"
     /\ phase = "BuildRunning" /\ image = seen.image
  \/ /\ seen.phase = "BuildRunning" /\ buildSeen.phase = "Succeeded"
     /\ phase = "Ready" /\ image = BuiltOf(buildSeen.spec)
  \/ /\ seen.phase = "BuildRunning"
     /\ phase = "Error" /\ image = seen.image
  \/ /\ seen.phase \in {"Ready", "Error"} /\ ~seen.external /\ NeedsRebuild
     /\ phase = "Initialization" /\ image = seen.image
  \/ /\ seen.phase = "Ready" /\ seen.external
     /\ phase = "Ready" /\ image = seen.image

LEMMA PatchingWrites ==
  ASSUME Patching
  PROVE  /\ seen' = seen /\ buildSeen' = buildSeen /\ overtaken' = overtaken /\ build' = build
         /\ \/ kit' = kit
            \/ \E phase, image : Writes(phase, image) /\ Update(phase, image)
<1>1. seen' = seen /\ buildSeen' = buildSeen /\ overtaken' = overtaken
  BY DEF Patching, ShiftPhase, InitializeImage, InitializeBuild, BuildIsSubmitted, BuildIsRunning,
         MonitorKit, MonitorExternal, Read
<1> DEFINE Good == build' = build /\ (kit' = kit \/ \E phase, image : Writes(phase, image) /\ Update(phase, image))
<1>0. NoUpdate => Good
  BY DEF NoUpdate
<1>00. ASSUME NEW phase, NEW image, Update(phase, image), Writes(phase, image) PROVE Good
  <2>1. build' = build
    BY <1>00 DEF Update
  <2> QED
    BY <2>1, <1>00
<1> HIDE DEF Good
<1>2. Good
  <2>1. CASE ShiftPhase
    <3>1. CASE NoUpdate
      BY <3>1, <1>0
    <3>2. PICK phase \in {"Initialization", "WaitingForPlatform"} :
            phase # seen.phase /\ (NoUpdate \/ Update(phase, seen.image))
      BY <2>1, <3>1 DEF ShiftPhase
    <3>3. seen.phase \in {"None", "WaitingForPlatform"}
      BY <2>1 DEF ShiftPhase, Read
    <3> QED
      BY <1>0, <1>00, <3>2, <3>3 DEF Writes
  <2>2. CASE InitializeImage
    BY <2>2, <1>00 DEF InitializeImage, Read, Writes, Initializing
  <2>3. CASE InitializeBuild
    <3>1. PhaseFor(catalog) \in {"BuildSubmitted", "WaitingForCatalog", "Error"}
      BY DEF PhaseFor
    <3> QED
      BY <2>3, <3>1, <1>00 DEF InitializeBuild, Read, Writes, Initializing
  <2>4. CASE BuildIsSubmitted
    BY <2>4, <1>0, <1>00 DEF BuildIsSubmitted, Read, Writes
  <2>5. CASE BuildIsRunning
    BY <2>5, <1>0, <1>00 DEF BuildIsRunning, Read, Writes
  <2>6. CASE MonitorKit
    BY <2>6, <1>0, <1>00 DEF MonitorKit, Read, Writes
  <2>7. CASE MonitorExternal
    BY <2>7, <1>0, <1>00 DEF MonitorExternal, Read, Writes
  <2> QED
    BY <2>1, <2>2, <2>3, <2>4, <2>5, <2>6, <2>7 DEF Patching
<1> QED
  BY <1>1, <1>2 DEF Good

LEMMA EditKeeps ==
  ASSUME TypeOK, Edit
  PROVE  /\ kit'.phase = kit.phase /\ kit'.external = kit.external
         /\ kit'.digest = kit.digest /\ kit'.image = kit.image
         /\ seen' = seen /\ build' = build /\ buildSeen' = buildSeen
         /\ overtaken => overtaken'
         /\ BuildUnderWay => overtaken'
  BY DEF Edit, TypeOK, Kit

(* A rejected kit, up to date in the cache, is in Error and otherwise as   *)
(* it was; the Build, if one is created, is its own.                       *)
LEMMA RejectKeeps ==
  ASSUME TypeOK, RejectKit
  PROVE  /\ seen = kit /\ seen.phase = "BuildSubmitted" /\ kit'.phase = "Error"
         /\ kit'.spec = kit.spec /\ kit'.external = kit.external
         /\ kit'.digest = kit.digest /\ kit'.image = kit.image
         /\ seen' = seen /\ buildSeen' = buildSeen /\ overtaken' = overtaken
         /\ edits' = edits
         /\ build' \in {build, NewBuild(kit.spec)}
  BY DEF RejectKit, Read, TypeOK, Kit

LEMMA SlipKeeps ==
  ASSUME BuildSlips
  PROVE  kit' = kit /\ seen' = seen /\ buildSeen' = buildSeen /\ (overtaken => overtaken')
  BY DEF BuildSlips, SetBuild

LEMMA PhaseStep == IInv /\ [Next]_vars => PhaseAhead'
<1> SUFFICES ASSUME IInv, [Next]_vars PROVE PhaseAhead'
  OBVIOUS
<1>1. CASE Elsewhere
  BY <1>1, ElsewhereKeeps DEF IInv, PhaseAhead
<1>2. CASE Patching
  <2>1. CASE kit' = kit
    BY <1>2, <2>1, PatchingWrites DEF IInv, PhaseAhead
  <2>2. CASE kit' # kit
    <3>1. PICK phase, image : Writes(phase, image) /\ Update(phase, image)
      BY <1>2, <2>2, PatchingWrites
    <3>2. kit'.phase = (IF phase = seen.phase THEN kit.phase ELSE phase)
      BY <3>1, Patched DEF IInv
    <3>3. seen' = seen
      BY <1>2, PatchingWrites
    <3> QED
      BY <3>1, <3>2, <3>3 DEF IInv, PhaseAhead, Writes, Initializing
  <2> QED
    BY <2>1, <2>2
<1>3. CASE ObserveKit \/ Restart
  BY <1>3 DEF ObserveKit, Restart, PhaseAhead
<1>4. CASE Edit
  BY <1>4, EditKeeps DEF IInv, PhaseAhead
<1>5. CASE BuildSlips
  BY <1>5, SlipKeeps DEF IInv, PhaseAhead
<1>6. CASE RejectKit
  BY <1>6, RejectKeeps DEF IInv, PhaseAhead
<1> QED
  BY <1>1, <1>2, <1>3, <1>4, <1>5, <1>6, Steps

(* A patch with the copy, its digest and its image. *)
LEMMA StatusPatched ==
  ASSUME IInv, NEW phase, NEW image, Writes(phase, image), Update(phase, image),
         seen' = seen, overtaken' = overtaken
  PROVE  StatusAhead'
<1>1. /\ kit'.external = kit.external
      /\ kit'.phase = (IF phase = seen.phase THEN kit.phase ELSE phase)
      /\ kit'.digest = Digest[seen.spec]
      /\ kit'.image = (IF image = seen.image THEN kit.image ELSE image)
  BY Patched DEF IInv
<1>2. image = seen.image \/ (Initializing /\ seen.spec \in WithImage /\ image = Given(seen.spec))
        \/ (seen.phase = "BuildRunning" /\ image = BuiltOf(buildSeen.spec) /\ buildSeen # NoBuild)
  BY DEF Writes, NoBuild
<1>3. buildSeen # NoBuild /\ seen.phase = "BuildRunning" /\ ~overtaken => buildSeen.spec = seen.spec
  BY DEF IInv, Unovertaken, BuiltFrom
<1>4. Initializing' <=> Initializing
  BY DEF Initializing
<1>5. /\ kit'.external = seen'.external
      /\ kit'.digest \in {seen'.digest, Digest[seen'.spec]}
  BY <1>1 DEF IInv, StatusAhead
<1>6. \/ kit'.image = seen'.image
      \/ Initializing' /\ seen'.spec \in WithImage /\ kit'.image = Given(seen'.spec)
      \/ seen'.phase = "BuildRunning" /\ ~overtaken' /\ kit'.image = BuiltOf(seen'.spec)
      \/ seen'.phase = "BuildRunning" /\ overtaken'
  BY <1>1, <1>2, <1>3, <1>4 DEF IInv, StatusAhead
<1>7. Initializing /\ kit'.phase = "Ready"
        => seen.spec \in WithImage /\ kit'.image = Given(seen.spec) /\ kit'.digest = Digest[seen.spec]
  <2> SUFFICES ASSUME Initializing, kit'.phase = "Ready"
               PROVE  seen.spec \in WithImage /\ kit'.image = Given(seen.spec)
    BY <1>1
  <2>1. CASE seen.spec \in WithImage
    <3>1. image = Given(seen.spec)
      BY <2>1 DEF Writes, Initializing
    <3> QED
      BY <1>1, <2>1, <3>1 DEF IInv, StatusAhead, Initializing
  <2>2. CASE seen.spec \notin WithImage
    <3>1. phase # "Ready" /\ kit.phase # "Ready"
      BY <2>2 DEF Writes, Initializing, IInv, StatusAhead
    <3> QED
      BY <1>1, <3>1
  <2> QED
    BY <2>1, <2>2
<1>8. seen.phase = "Ready" /\ kit'.phase = "Ready" => kit'.external
  BY <1>1 DEF Writes, Initializing, IInv, StatusAhead
<1> QED
  BY <1>4, <1>5, <1>6, <1>7, <1>8 DEF StatusAhead

LEMMA StatusStep == IInv /\ [Next]_vars => StatusAhead'
<1> SUFFICES ASSUME IInv, [Next]_vars PROVE StatusAhead'
  OBVIOUS
<1>1. CASE Elsewhere
  BY <1>1, ElsewhereKeeps DEF IInv, StatusAhead, Initializing
<1>2. CASE Patching
  <2>1. CASE kit' = kit
    BY <1>2, <2>1, PatchingWrites DEF IInv, StatusAhead, Initializing
  <2>2. CASE kit' # kit
    BY <1>2, <2>2, PatchingWrites, StatusPatched
  <2> QED
    BY <2>1, <2>2
<1>3. CASE ObserveKit \/ Restart
  <2>1. kit' = kit /\ seen' = kit
    BY <1>3 DEF ObserveKit, Restart
  <2>2. kit.phase # "Ready" \/ ~Initializing'
    BY <2>1 DEF Initializing
  <2> QED
    BY <2>1, <2>2 DEF StatusAhead
<1>4. CASE Edit
  <2>1. Initializing' <=> Initializing
    BY <1>4, EditKeeps DEF Initializing, IInv
  <2> QED
    BY <1>4, <2>1, EditKeeps DEF IInv, StatusAhead
<1>5. CASE BuildSlips
  <2>1. Initializing' <=> Initializing
    BY <1>5, SlipKeeps DEF Initializing
  <2> QED
    BY <1>5, <2>1, SlipKeeps DEF IInv, StatusAhead
<1>6. CASE RejectKit
  BY <1>6, RejectKeeps DEF IInv, StatusAhead, Initializing
<1> QED
  BY <1>1, <1>2, <1>3, <1>4, <1>5, <1>6, Steps

(***************************************************************************)
(* The Builds, step by step.                                               *)
(***************************************************************************)
LEMMA UnovertakenPatched ==
  ASSUME IInv, ~overtaken, NEW phase, NEW image, Writes(phase, image), Update(phase, image),
         seen' = seen, build' = build, buildSeen' = buildSeen
  PROVE  Unovertaken'
<1>1. kit'.spec = kit.spec /\ kit'.phase = (IF phase = seen.phase THEN kit.phase ELSE phase)
  BY Patched DEF IInv
<1>2. Unovertaken
  BY DEF IInv
<1>3. CASE phase = "BuildRunning"
  <2>1. seen.phase = "BuildSubmitted" /\ UnderWay(buildSeen)
    BY <1>3 DEF Under, Builder!Under, Writes, UnderWay
  <2>2. BuiltFrom(kit.spec)
    BY <1>2, <2>1 DEF Unovertaken, BuiltFrom
  <2> QED
    BY <1>1, <1>2, <2>1, <2>2 DEF Unovertaken, BuiltFrom, UnderWay
<1>4. CASE phase # "BuildRunning"
  <2>1. kit'.phase = "BuildRunning" => kit.phase = "BuildRunning"
    BY <1>1, <1>4
  <2> QED
    BY <1>1, <1>2, <2>1 DEF Unovertaken, BuiltFrom, UnderWay
<1> QED
  BY <1>3, <1>4

LEMMA UnovertakenStep == IInv /\ [Next]_vars => overtaken' \/ Unovertaken'
<1> SUFFICES ASSUME IInv, [Next]_vars, ~overtaken' PROVE Unovertaken'
  OBVIOUS
<1>0. ~overtaken /\ Unovertaken
  BY Steps, ElsewhereKeeps, PatchingWrites, EditKeeps, SlipKeeps, RejectKeeps
     DEF IInv, ObserveKit, Restart
<1>1. CASE Elsewhere
  <2>0. kit' = kit /\ seen' = seen
    BY <1>1, ElsewhereKeeps
  <2>1. CASE CreateBuild
    <3>1. build' = NewBuild(seen.spec) /\ buildSeen' = buildSeen /\ seen.phase = "BuildSubmitted"
      BY <2>1 DEF CreateBuild, Read
    <3>2. build'.spec = kit.spec
      BY <1>0, <3>1 DEF Unovertaken, NewBuild
    <3> QED
      BY <1>0, <2>0, <3>1, <3>2 DEF Unovertaken, BuiltFrom, UnderWay
  <2>2. CASE CreateBuildFails \/ DeleteBuild
    <3>1. build' = NoBuild /\ buildSeen' = buildSeen
      BY <2>2 DEF CreateBuildFails, DeleteBuild, Read
    <3>2. ~UnderWay(NoBuild)
      BY DEF Under, Builder!Under, UnderWay, NoBuild
    <3> QED
      BY <1>0, <2>0, <3>1, <3>2 DEF Unovertaken, BuiltFrom, UnderWay
  <2>3. CASE ObserveBuild
    <3>1. build' = build /\ buildSeen' = build
      BY <2>3 DEF ObserveBuild
    <3> QED
      BY <1>0, <2>0, <3>1 DEF Unovertaken, BuiltFrom, UnderWay
  <2>4. CASE BuildWorks(Under \cup Ended)
    <3>1. /\ UnderWay(build) /\ build # NoBuild /\ build' # NoBuild
          /\ build'.spec = build.spec /\ buildSeen' = buildSeen
      BY <2>4, BuildSteps DEF IInv, Build, NoBuild
    <3>2. build.spec = kit.spec
      BY <1>0, <3>1 DEF Unovertaken
    <3> QED
      BY <1>0, <2>0, <3>1, <3>2 DEF Unovertaken, BuiltFrom, UnderWay
  <2>5. CASE BuilderTraitFails \/ PlatformReady \/ CatalogSteps \/ Reset \/ UNCHANGED vars
    <3>1. build' = build /\ buildSeen' = buildSeen
      BY <2>5 DEF BuilderTraitFails, NoUpdate, Read, PlatformReady, CatalogSteps, Reset, vars
    <3> QED
      BY <1>0, <2>0, <3>1 DEF Unovertaken, BuiltFrom, UnderWay
  <2> QED
    BY <1>1, <2>1, <2>2, <2>3, <2>4, <2>5 DEF Elsewhere
<1>2. CASE Patching
  <2>1. CASE kit' = kit
    BY <1>0, <1>2, <2>1, PatchingWrites DEF Unovertaken, BuiltFrom, UnderWay
  <2>2. CASE kit' # kit
    BY <1>0, <1>2, <2>2, PatchingWrites, UnovertakenPatched
  <2> QED
    BY <2>1, <2>2
<1>3. CASE ObserveKit
  <2>1. kit' = kit /\ seen' = kit /\ build' = build /\ buildSeen' = buildSeen
    BY <1>3 DEF ObserveKit
  <2> QED
    BY <1>0, <2>1 DEF Unovertaken, BuiltFrom, UnderWay
<1>4. CASE Restart
  <2>1. kit' = kit /\ seen' = kit /\ build' = build /\ buildSeen' = build
    BY <1>4 DEF Restart
  <2> QED
    BY <1>0, <2>1 DEF Unovertaken, BuiltFrom, UnderWay
<1>5. CASE Edit
  <2>1. ~BuildUnderWay
    BY <1>5, EditKeeps DEF IInv
  <2>2. kit.phase \notin {"BuildSubmitted", "BuildRunning"} /\ ~UnderWay(build) /\ ~UnderWay(buildSeen)
    BY <2>1 DEF BuildUnderWay, UnderWay
  <2>3. seen.phase # "BuildSubmitted"
    BY <2>1 DEF BuildUnderWay
  <2> QED
    BY <1>0, <1>5, <2>2, <2>3, EditKeeps DEF IInv, Unovertaken, BuiltFrom, UnderWay
<1>6. CASE BuildSlips
  <2>0. ~(build.spec # kit.spec)
    BY <1>6, Zenon DEF BuildSlips
  <2>1. build # NoBuild /\ build' # NoBuild /\ build'.spec = build.spec /\ build.spec = kit.spec
    BY <1>6, <2>0, BuildSteps DEF IInv, Build, NoBuild
  <2> QED
    BY <1>0, <1>6, <2>1, SlipKeeps DEF Unovertaken, BuiltFrom, UnderWay
<1>7. CASE RejectKit
  <2>1. build' = build \/ build'.spec = kit.spec
    BY <1>7, RejectKeeps DEF IInv, NewBuild
  <2> QED
    BY <1>0, <1>7, <2>1, RejectKeeps DEF IInv, Unovertaken, BuiltFrom, UnderWay
<1> QED
  BY <1>1, <1>2, <1>3, <1>4, <1>5, <1>6, <1>7, Steps

(***************************************************************************)
(* The image of a Ready kit.                                               *)
(***************************************************************************)
LEMMA ReadyPatched ==
  ASSUME IInv, ~overtaken, NEW phase, NEW image, Writes(phase, image), Update(phase, image)
  PROVE  ImageOfDigest'
<1>1. /\ kit'.external = kit.external
      /\ kit'.phase = (IF phase = seen.phase THEN kit.phase ELSE phase)
      /\ kit'.digest = Digest[seen.spec]
      /\ kit'.image = (IF image = seen.image THEN kit.image ELSE image)
  BY Patched DEF IInv
<1> SUFFICES ASSUME kit'.phase = "Ready", ~kit'.external
             PROVE  kit'.image # NoImage /\ Digest[kit'.image.spec] = kit'.digest
  BY DEF ImageOfDigest
<1>2. ~seen.external
  BY <1>1 DEF IInv, StatusAhead
<1>3. CASE Initializing
  <2>1. seen.spec \in WithImage /\ image = Given(seen.spec)
    BY <1>1, <1>3 DEF Writes, Initializing, IInv, StatusAhead
  <2>2. kit'.image = Given(seen.spec)
    BY <1>1, <1>3, <2>1 DEF IInv, StatusAhead, Initializing
  <2> QED
    BY <1>1, <2>2 DEF Given, NoImage
<1>4. CASE seen.phase = "BuildRunning"
  <2>1. phase = "Ready" /\ image = BuiltOf(buildSeen.spec) /\ buildSeen # NoBuild
    BY <1>1, <1>4 DEF Writes, Initializing, NoBuild
  <2>2. buildSeen.spec = seen.spec
    BY <1>4, <2>1 DEF IInv, Unovertaken, BuiltFrom
  <2>3. kit'.image = BuiltOf(seen.spec)
    BY <1>1, <1>4, <2>1, <2>2 DEF IInv, StatusAhead, Initializing
  <2> QED
    BY <1>1, <2>3 DEF BuiltOf, NoImage
<1>5. CASE ~Initializing /\ seen.phase # "BuildRunning"
  BY <1>1, <1>2, <1>5 DEF Writes, IInv, PhaseAhead
<1> QED
  BY <1>3, <1>4, <1>5

LEMMA ReadyStep == IInv /\ [Next]_vars => ReadyIsBuilt'
<1> SUFFICES ASSUME IInv, [Next]_vars, ~overtaken' PROVE ImageOfDigest'
  BY DEF ReadyIsBuilt
<1>0. ~overtaken /\ ImageOfDigest
  BY Steps, ElsewhereKeeps, PatchingWrites, EditKeeps, SlipKeeps, RejectKeeps
     DEF IInv, ReadyIsBuilt, ObserveKit, Restart
<1>1. CASE kit' = kit
  BY <1>0, <1>1 DEF ImageOfDigest
<1>2. CASE Patching /\ kit' # kit
  BY <1>0, <1>2, PatchingWrites, ReadyPatched
<1>3. CASE Edit
  BY <1>0, <1>3, EditKeeps DEF IInv, ImageOfDigest
<1>4. CASE RejectKit
  BY <1>4, RejectKeeps DEF IInv, ImageOfDigest
<1> QED
  BY <1>1, <1>2, <1>3, <1>4, Steps, ElsewhereKeeps, SlipKeeps DEF ObserveKit, Restart

LEMMA InvariantHolds == Spec => []IInv
<1>1. IInv /\ [Next]_vars => IInv'
  <2> SUFFICES ASSUME IInv, [Next]_vars PROVE IInv'
    OBVIOUS
  <2>1. TypeOK'
    BY TypeStep DEF IInv
  <2> QED
    BY <2>1, PhaseStep, StatusStep, UnovertakenStep, ReadyStep DEF IInv
<1> QED
  BY <1>1, InitHolds, PTL DEF Spec

(***************************************************************************)
(* The kit controller keeps its state within its types, for every set of   *)
(* specifications and every digest.                                        *)
(***************************************************************************)
THEOREM KitTypeInvariant == Spec => []TypeOK
<1>1. IInv => TypeOK
  BY DEF IInv
<1> QED
  BY <1>1, InvariantHolds, PTL

(***************************************************************************)
(* A Ready kit has the image its specification names, or one built from a  *)
(* specification with the digest it records, however far the two caches    *)
(* are behind, unless it was edited during a build.                        *)
(***************************************************************************)
THEOREM KitReadyIsBuilt == Spec => []ReadyIsBuilt
<1>1. IInv => ReadyIsBuilt
  BY DEF IInv
<1> QED
  BY <1>1, InvariantHolds, PTL

(***************************************************************************)
(* A Ready kit is sent back only because its specification has changed:    *)
(* no outdated copy, no Build and no restart has it built again.           *)
(***************************************************************************)
THEOREM KitRebuiltOnlyWhenChanged == Spec => RebuiltOnlyWhenChanged
<1> DEFINE Changed == \E s \in {kit.spec, seen.spec} : Outdated(s)
<1>1. ASSUME IInv, [Next]_vars, kit.phase = "Ready", kit'.phase \notin {"Ready", "Error"}
      PROVE  ~kit.external /\ Changed
  <2>1. kit' # kit
    BY <1>1
  <2>2. Patching
    BY <1>1, <2>1, Steps, ElsewhereKeeps, SlipKeeps, EditKeeps, RejectKeeps
       DEF ObserveKit, Restart, IInv
  <2>3. PICK phase, image : Writes(phase, image) /\ Update(phase, image)
    BY <2>1, <2>2, PatchingWrites
  <2>4. kit'.phase = (IF phase = seen.phase THEN kit.phase ELSE phase)
    BY <1>1, <2>3, Patched DEF IInv
  <2>5. seen.phase = "Ready" /\ ~seen.external /\ NeedsRebuild
    BY <1>1, <2>3, <2>4 DEF Writes, IInv, PhaseAhead, StatusAhead, Initializing
  <2>6. ~kit.external /\ kit.digest = seen.digest /\ kit.image = seen.image
    BY <1>1, <2>5 DEF IInv, StatusAhead
  <2>7. Outdated(seen.spec)
    BY <2>5, <2>6 DEF NeedsRebuild, Outdated
  <2> QED
    BY <2>6, <2>7
<1>2. IInv /\ [Next]_vars
        => [kit.phase = "Ready" /\ kit'.phase \notin {"Ready", "Error"}
              => ~kit.external /\ Changed]_vars
  BY <1>1
<1> QED
  BY <1>2, InvariantHolds, PTL DEF Spec, RebuiltOnlyWhenChanged
-----------------------------------------------------------------------------
(***************************************************************************)
(* The life of the kit.  As long as nothing is edited, the copy and the    *)
(* stored kit have the same specification, the digest is its digest, and   *)
(* a kit that names its image is not built.                                *)
(***************************************************************************)
DigestIsRecorded(k) == k.phase # "None" => k.digest = Digest[k.spec]

ImageIsGiven(k) ==
  k.spec \in WithImage
    => /\ k.phase \in {"None", "WaitingForPlatform", "Initialization", "Ready"}
       /\ k.phase = "Ready" => k.image = Given(k.spec)

Unedited ==
  edits = 0 => /\ seen.spec = kit.spec
               /\ \A k \in {kit, seen} : DigestIsRecorded(k) /\ ImageIsGiven(k)

LEMMA UneditedPatched ==
  ASSUME IInv, Unedited, edits = 0, edits' = edits, NEW phase, NEW image,
         Writes(phase, image), Update(phase, image), seen' = seen
  PROVE  Unedited'
<1>1. /\ kit'.spec = kit.spec
      /\ kit'.phase = (IF phase = seen.phase THEN kit.phase ELSE phase)
      /\ kit'.digest = Digest[seen.spec]
      /\ kit'.image = (IF image = seen.image THEN kit.image ELSE image)
  BY Patched DEF IInv
<1>2. seen.spec = kit.spec /\ DigestIsRecorded(seen) /\ ImageIsGiven(kit) /\ ImageIsGiven(seen)
  BY DEF Unedited
<1>3. DigestIsRecorded(kit')
  BY <1>1, <1>2 DEF DigestIsRecorded
<1>4. ImageIsGiven(kit')
  <2> SUFFICES ASSUME kit.spec \in WithImage
               PROVE  /\ kit'.phase \in {"None", "WaitingForPlatform", "Initialization", "Ready"}
                      /\ kit'.phase = "Ready" => kit'.image = Given(kit.spec)
    BY <1>1 DEF ImageIsGiven
  <2>1. kit'.phase \in {"None", "WaitingForPlatform", "Initialization", "Ready"}
    BY <1>1, <1>2 DEF Writes, Initializing, ImageIsGiven
  <2>2. ASSUME kit'.phase = "Ready" PROVE kit'.image = Given(kit.spec)
    <3>1. CASE Initializing
      <4>1. image = Given(kit.spec)
        BY <1>2, <3>1 DEF Writes, Initializing
      <4> QED
        BY <1>1, <1>2, <3>1, <4>1 DEF IInv, StatusAhead, Initializing
    <3>2. CASE ~Initializing
      <4>1. kit.phase = "Ready" /\ image = seen.image
        BY <1>1, <1>2, <2>2, <3>2 DEF Writes, ImageIsGiven
      <4> QED
        BY <1>1, <1>2, <4>1 DEF ImageIsGiven
    <3> QED
      BY <3>1, <3>2
  <2> QED
    BY <2>1, <2>2
<1> QED
  BY <1>1, <1>2, <1>3, <1>4 DEF Unedited

(* What a step does to the number of edits. *)
LEMMA EditsKept ==
  ASSUME TypeOK, [Next]_vars
  PROVE  edits' = edits \/ (Edit /\ edits' = edits + 1)
  BY DEF Next, Reconcile, Environment, ShiftPhase, InitializeImage, InitializeBuild, CreateBuild,
         BuilderTraitFails, RejectKit,
         BuildIsSubmitted, BuildIsRunning, MonitorKit, MonitorExternal, CreateBuildFails, Read,
         ObserveKit, ObserveBuild, Restart, Edit, BuildWorks, SetBuild, BuildSlips,
         DeleteBuild, PlatformReady, CatalogSteps, Reset, vars

LEMMA UneditedStep == IInv /\ Unedited /\ [Next]_vars => Unedited'
<1> SUFFICES ASSUME IInv, Unedited, [Next]_vars, edits' = 0 PROVE Unedited'
  BY DEF Unedited
<1>0. edits = 0 /\ ~Edit
  BY EditsKept DEF IInv, TypeOK, Edit
<1>1. CASE Elsewhere \/ BuildSlips
  BY <1>0, <1>1, ElsewhereKeeps, SlipKeeps DEF Unedited, DigestIsRecorded, ImageIsGiven
<1>2. CASE Patching
  <2>1. CASE kit' = kit
    BY <1>0, <1>2, <2>1, PatchingWrites DEF Unedited, DigestIsRecorded, ImageIsGiven
  <2>2. CASE kit' # kit
    BY <1>0, <1>2, <2>2, PatchingWrites, UneditedPatched
  <2> QED
    BY <2>1, <2>2
<1>3. CASE ObserveKit \/ Restart
  <2>1. kit' = kit /\ seen' = kit
    BY <1>3 DEF ObserveKit, Restart
  <2> QED
    BY <1>0, <2>1 DEF Unedited, DigestIsRecorded, ImageIsGiven
<1>4. CASE RejectKit
  BY <1>0, <1>4, RejectKeeps DEF IInv, Unedited, DigestIsRecorded, ImageIsGiven
<1> QED
  BY <1>0, <1>1, <1>2, <1>3, <1>4, Steps

(* A patch that changes the phase as users see it. *)
LEMMA LifePatched ==
  ASSUME IInv, Unedited, NEW phase, NEW image, Writes(phase, image), Update(phase, image),
         edits' = edits, LifePhase' # LifePhase
  PROVE  Life!Progress \/ Life!Overturn \/ Life!StartOver
<1>1. kit'.phase = (IF phase = seen.phase THEN kit.phase ELSE phase)
  BY Patched DEF IInv
<1>2. kit.phase \in KitPhases /\ kit'.phase = phase /\ phase # seen.phase
  BY <1>1 DEF IInv, TypeOK, Kit, LifePhase
<1>3. (edits > 0)' = (edits > 0)
  OBVIOUS
<1>4. CASE seen.phase \in {"Ready", "Error"}
  <2>1. ~seen.external /\ NeedsRebuild /\ phase = "Initialization"
    BY <1>2, <1>4 DEF Writes, Initializing
  <2>2. kit.phase \in {"Ready", "Error", "Initialization"}
    BY <1>4 DEF IInv, PhaseAhead
  <2>3. LifePhase \in {"Ready", "Error"} /\ LifePhase' = "New"
    BY <1>2, <2>1, <2>2 DEF LifePhase
  <2>4. edits # 0
    BY <1>4, <2>1 DEF Unedited, DigestIsRecorded, ImageIsGiven, NeedsRebuild
  <2>5. edits > 0
    BY <2>4, KitBoundsAssumption DEF IInv, TypeOK
  <2> QED
    BY <1>3, <2>3, <2>5 DEF Life!StartOver
<1>5. CASE Initializing
  <2>1. CASE seen.spec \in WithImage
    <3>1. LifePhase' = "Ready" /\ LifePhase \in {"New", "Building", "Error"}
      BY <1>2, <1>5, <2>1 DEF Writes, Initializing, LifePhase, KitPhases
    <3> QED
      BY <1>3, <3>1 DEF Life!Progress, Life!Overturn
  <2>2. CASE seen.spec \notin WithImage
    <3>1. phase \in {"BuildSubmitted", "WaitingForCatalog", "Error"} /\ kit.phase # "Ready"
      BY <1>5, <2>2 DEF Writes, Initializing, IInv, StatusAhead
    <3>2. LifePhase' \in {"Building", "Error"} /\ LifePhase \in {"New", "Building", "Error"}
      BY <1>2, <3>1 DEF LifePhase, KitPhases
    <3> QED
      BY <1>3, <3>2 DEF Life!Progress, Life!Overturn
  <2> QED
    BY <2>1, <2>2
<1>6. CASE seen.phase = "BuildRunning"
  <2>1. LifePhase' \in {"Ready", "Error"} /\ LifePhase \in {"Building", "Ready", "Error"}
    BY <1>2, <1>6 DEF Writes, Initializing, IInv, PhaseAhead, LifePhase
  <2> QED
    BY <1>3, <2>1 DEF Life!Progress, Life!Overturn
<1>7. CASE seen.phase = "BuildSubmitted"
  <2>1. LifePhase = "Error" /\ LifePhase' = "Building"
    BY <1>2, <1>7 DEF Writes, Initializing, IInv, PhaseAhead, LifePhase
  <2> QED
    BY <1>3, <2>1 DEF Life!Overturn
<1>8. CASE seen.phase \in {"None", "WaitingForPlatform"}
  BY <1>2, <1>8 DEF Writes, Initializing, IInv, PhaseAhead, LifePhase
<1> QED
  BY <1>4, <1>5, <1>6, <1>7, <1>8 DEF Writes

(* Every step is one of the life of a kit, or is not seen by its users. *)
LEMMA LifeStep ==
  ASSUME IInv, Unedited, [Next]_vars
  PROVE  [Life!Next]_<<LifePhase, edits > 0>>
<1>1. CASE Edit
  <2>1. LifePhase' = LifePhase
    BY <1>1, EditKeeps DEF IInv, LifePhase
  <2>2. (edits > 0)' = TRUE
    BY <1>1, KitBoundsAssumption DEF Edit, IInv, TypeOK
  <2> QED
    BY <2>1, <2>2 DEF Life!Next, Life!Edit
<1>2. CASE ~Edit /\ LifePhase' = LifePhase
  <2>1. (edits > 0)' = (edits > 0)
    BY <1>2, EditsKept DEF IInv
  <2> QED
    BY <1>2, <2>1
<1>3. CASE RejectKit /\ LifePhase' # LifePhase
  <2>1. LifePhase = "Building" /\ LifePhase' = "Error" /\ edits' = edits
    BY <1>3, RejectKeeps DEF IInv, LifePhase
  <2> QED
    BY <2>1 DEF Life!Next, Life!Progress
<1>4. CASE ~Edit /\ ~RejectKit /\ LifePhase' # LifePhase
  <2>1. edits' = edits
    BY <1>4, EditsKept DEF IInv
  <2>2. kit' # kit
    BY <1>4 DEF LifePhase
  <2>3. Patching
    BY <1>4, <2>2, Steps, ElsewhereKeeps, SlipKeeps DEF ObserveKit, Restart
  <2>4. PICK phase, image : Writes(phase, image) /\ Update(phase, image)
    BY <2>2, <2>3, PatchingWrites
  <2>5. Life!Progress \/ Life!Overturn \/ Life!StartOver
    BY <1>4, <2>1, <2>4, LifePatched
  <2> QED
    BY <2>5 DEF Life!Next
<1> QED
  BY <1>1, <1>2, <1>3, <1>4

(***************************************************************************)
(* The kit controller implements KitLife: its users see a kit go forward,  *)
(* see its end overturned only between Ready, Error and Building, and see  *)
(* it start over only after an edit, for any specifications and bounds.    *)
(***************************************************************************)
THEOREM KitKeepsLife == Spec => KeepsKitLife
<1>1. Init => Unedited /\ Life!Init
  <2> SUFFICES ASSUME Init PROVE Unedited /\ Life!Init
    OBVIOUS
  <2>1. kit.phase = "None" /\ seen = kit /\ edits = 0
    BY DEF Init
  <2>2. (edits > 0) = FALSE
    BY <2>1
  <2> QED
    BY <2>1, <2>2 DEF Unedited, DigestIsRecorded, ImageIsGiven, Life!Init, LifePhase
<1>2. IInv /\ Unedited /\ [Next]_vars => [Life!Next]_<<LifePhase, edits > 0>>
  BY LifeStep
<1> QED
  BY <1>1, <1>2, UneditedStep, InvariantHolds, PTL DEF Spec, KeepsKitLife, Life!Spec
=============================================================================
