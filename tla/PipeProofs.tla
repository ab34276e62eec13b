----------------------------- MODULE PipeProofs -----------------------------
(***************************************************************************)
(* Proofs about Pipe, for any settings, traits, specifications and         *)
(* translations, and any number of changes.                                *)
(***************************************************************************)
EXTENDS Pipe, TLAPS

(* What has no event under way is in the cache as it is stored. *)
Fresh ==
  /\ "pipe" \notin events => seen = pipe
  /\ "it" \notin events => itSeen = it

IInv == TypeOK /\ Fresh /\ AgreeWhenQuiet

LEMMA InitHolds == Init => IInv
  BY MaxChangesAssumption
  DEF Init, IInv, TypeOK, Fresh, AgreeWhenQuiet, Pipes, PipePhases

(***************************************************************************)
(* The type invariant, one action at a time.                               *)
(***************************************************************************)
LEMMA PhaseForType ==
  ASSUME NEW p
  PROVE  PhaseFor(p) \in PipePhases
  BY DEF PhaseFor, PipePhases

LEMMA UpdateType ==
  ASSUME TypeOK, NEW phase \in PipePhases, Update(phase)
  PROVE  pipe' \in Pipes
  BY DEF TypeOK, Update, Pipes

LEMMA ReplaceType ==
  ASSUME TypeOK, ReplaceResource(seen.spec)
  PROVE  it' \in Integrations
  BY TranslationsAssumption DEF TypeOK, ReplaceResource, Integrations, IntegrationPhases, Pipes

LEMMA NotifyType ==
  ASSUME TypeOK, Notify
  PROVE  events' \subseteq {"pipe", "it"}
  BY DEF TypeOK, Notify

LEMMA ChangeType ==
  ASSUME TypeOK, Change
  PROVE  changes' \in 0..MaxChanges
  BY MaxChangesAssumption DEF TypeOK, Change

LEMMA TypeStep == TypeOK /\ [Next]_vars => TypeOK'
<1> SUFFICES ASSUME TypeOK, [Next]_vars PROVE TypeOK'
  OBVIOUS
<1>1. CASE InitializePipe
  <2>1. pipe' \in Pipes
    BY <1>1, UpdateType DEF InitializePipe, PipePhases
  <2> QED
    BY <1>1, <2>1, ReplaceType, NotifyType DEF InitializePipe, TypeOK
<1>2. CASE InitializePipeFails
  BY <1>2, ReplaceType, NotifyType, ChangeType DEF InitializePipeFails, TypeOK
<1>3. CASE CreateIntegrationFails
  <2>1. pipe' \in Pipes
    BY <1>3, UpdateType DEF CreateIntegrationFails, PipePhases
  <2> QED
    BY <1>3, <2>1, NotifyType, ChangeType DEF CreateIntegrationFails, TypeOK
<1>4. CASE Monitor
  <2>1. PICK phase \in PipePhases : Update(phase)
    BY <1>4, PhaseForType DEF Monitor, PipePhases
  <2>2. pipe' \in Pipes
    BY <2>1, UpdateType
  <2> QED
    BY <1>4, <2>2, NotifyType DEF Monitor, TypeOK
<1>5. CASE ObservePipe
  BY <1>5 DEF ObservePipe, TypeOK
<1>6. CASE ObserveIntegration
  BY <1>6 DEF ObserveIntegration, TypeOK
<1>7. CASE Restart
  BY <1>7, ChangeType DEF Restart, TypeOK
<1>8. CASE Edit
  BY <1>8, ChangeType, NotifyType DEF Edit, TypeOK, Pipes
<1>9. CASE IntegrationChanges
  <2>1. it' \in Integrations \cup {NoIntegration}
    BY <1>9 DEF IntegrationChanges, TypeOK, Integrations
  <2> QED
    BY <1>9, <2>1, ChangeType, NotifyType DEF IntegrationChanges, TypeOK
<1>10. CASE UNCHANGED vars
  BY <1>10 DEF vars, TypeOK
<1> QED
  BY <1>1, <1>2, <1>3, <1>4, <1>5, <1>6, <1>7, <1>8, <1>9, <1>10
  DEF Next, Reconcile, Environment

(***************************************************************************)
(* A step that writes one of the two objects leaves an event behind.       *)
(***************************************************************************)
LEMMA NotifyKeepsFresh ==
  ASSUME Fresh, Notify, UNCHANGED <<seen, itSeen>>
  PROVE  Fresh'
  BY DEF Fresh, Notify

LEMMA FreshStep == Fresh /\ [Next]_vars => Fresh'
<1> SUFFICES ASSUME Fresh, [Next]_vars PROVE Fresh'
  OBVIOUS
<1>1. CASE Reconcile \/ InitializePipeFails \/ Edit \/ IntegrationChanges
  BY <1>1, NotifyKeepsFresh
  DEF Reconcile, InitializePipe, CreateIntegrationFails, Monitor, InitializePipeFails,
      Edit, IntegrationChanges
<1>2. CASE ObservePipe
  BY <1>2 DEF ObservePipe, Fresh
<1>3. CASE ObserveIntegration
  BY <1>3 DEF ObserveIntegration, Fresh
<1>4. CASE Restart
  BY <1>4 DEF Restart, Fresh
<1>5. CASE UNCHANGED vars
  BY <1>5 DEF vars, Fresh
<1> QED
  BY <1>1, <1>2, <1>3, <1>4, <1>5 DEF Next, Environment

(***************************************************************************)
(* The two reconciliations that take the Pipe off the queue.               *)
(***************************************************************************)
LEMMA NotifyLeavesAnEvent ==
  ASSUME Notify, events' = {}
  PROVE  pipe' = pipe /\ it' = it /\ events = {}
  BY DEF Notify

LEMMA InitializeLeavesAnEvent ==
  ASSUME IInv, InitializePipe
  PROVE  events' # {}
<1> SUFFICES ASSUME events' = {} PROVE FALSE
  OBVIOUS
<1>1. pipe' = pipe /\ it' = it /\ events = {}
  BY NotifyLeavesAnEvent DEF InitializePipe
<1>2. seen = pipe /\ itSeen = it
  BY <1>1 DEF IInv, Fresh
<1>3. CASE seen.phase = "None"
  <2>1. pipe' = [pipe EXCEPT !.phase = "Creating"]
    BY <1>3 DEF InitializePipe, Update
  <2> QED
    BY <1>1, <1>2, <1>3, <2>1 DEF IInv, TypeOK, Pipes
<1>4. CASE itSeen = NoIntegration
  <2>1. PICK t : it' = [spec |-> t, phase |-> "Building"]
    BY <1>2, <1>4 DEF InitializePipe, ReplaceResource
  <2>2. it'.phase = "Building"
    BY <2>1
  <2>3. it.phase = "Absent"
    BY <1>2, <1>4 DEF NoIntegration
  <2> QED
    BY <1>1, <2>2, <2>3
<1> QED
  BY <1>3, <1>4 DEF InitializePipe

LEMMA MonitorAgrees ==
  ASSUME IInv, Monitor, events' = {}
  PROVE  Agree'
<1>1. pipe' = pipe /\ it' = it /\ events = {}
  BY NotifyLeavesAnEvent DEF Monitor
<1>2. seen = pipe /\ itSeen = it
  BY <1>1 DEF IInv, Fresh
<1>0. PICK expected \in Translations[seen.spec] :
        Update(IF UpToDate(seen.spec, expected, itSeen.spec) THEN PhaseFor(itSeen.phase) ELSE "None")
  BY DEF Monitor
<1> DEFINE phase == IF UpToDate(seen.spec, expected, itSeen.spec) THEN PhaseFor(itSeen.phase) ELSE "None"
<1>3. phase = seen.phase
  <2>1. SUFFICES ASSUME phase # seen.phase PROVE FALSE
    OBVIOUS
  <2>2. pipe' = [pipe EXCEPT !.phase = phase]
    BY <1>0, <2>1 DEF Update
  <2>3. pipe'.phase = phase
    BY <2>2 DEF IInv, TypeOK, Pipes
  <2> QED
    BY <1>1, <1>2, <2>1, <2>3
<1>4. UpToDate(seen.spec, expected, itSeen.spec) /\ PhaseFor(itSeen.phase) = seen.phase
  BY <1>3 DEF Monitor
<1>5. itSeen # NoIntegration
  BY DEF Monitor
<1>6. it # NoIntegration /\ PhaseFor(it.phase) = pipe.phase /\ UpToDate(pipe.spec, expected, it.spec)
  BY <1>2, <1>4, <1>5
<1> QED
  BY <1>0, <1>1, <1>2, <1>6 DEF Agree, UpToDate, SameTraits, PhaseFor

LEMMA AgreeStep == IInv /\ [Next]_vars => AgreeWhenQuiet'
<1> SUFFICES ASSUME IInv, [Next]_vars, events' = {}, ~queued' PROVE Agree'
  BY DEF AgreeWhenQuiet
<1>1. CASE InitializePipe
  BY <1>1, InitializeLeavesAnEvent
<1>2. CASE Monitor
  BY <1>2, MonitorAgrees
<1>3. CASE CreateIntegrationFails \/ InitializePipeFails
  BY <1>3 DEF CreateIntegrationFails, InitializePipeFails
<1>4. CASE ObservePipe \/ ObserveIntegration \/ Restart
  BY <1>4 DEF ObservePipe, ObserveIntegration, Restart
<1>5. CASE Edit \/ IntegrationChanges
  <2>1. pipe' = pipe /\ it' = it /\ events = {}
    BY <1>5, NotifyLeavesAnEvent DEF Edit, IntegrationChanges
  <2>2. ~queued
    BY <1>5 DEF Edit, IntegrationChanges
  <2> QED
    BY <2>1, <2>2 DEF IInv, AgreeWhenQuiet, Agree, UpToDate, SameTraits, PhaseFor
<1>6. CASE UNCHANGED vars
  BY <1>6 DEF vars, IInv, AgreeWhenQuiet, Agree, UpToDate, SameTraits, PhaseFor
<1> QED
  BY <1>1, <1>2, <1>3, <1>4, <1>5, <1>6 DEF Next, Reconcile, Environment

LEMMA InvariantHolds == Spec => []IInv
<1>1. IInv /\ [Next]_vars => IInv'
  BY TypeStep, FreshStep, AgreeStep DEF IInv
<1> QED
  BY <1>1, InitHolds, PTL DEF Spec

(***************************************************************************)
(* The Pipe controller keeps its state within its types, for any settings  *)
(* and translations.                                                       *)
(***************************************************************************)
THEOREM PipeTypeInvariant == Spec => []TypeOK
<1>1. IInv => TypeOK
  BY DEF IInv
<1> QED
  BY <1>1, InvariantHolds, PTL

(***************************************************************************)
(* Whenever nothing is left to deliver or to reconcile, the Integration is *)
(* up to date and the Pipe shows its phase, whatever was edited, deleted,  *)
(* refused or restarted before.                                            *)
(***************************************************************************)
THEOREM PipeAgreesWhenQuiet == Spec => []AgreeWhenQuiet
<1>1. IInv => AgreeWhenQuiet
  BY DEF IInv
<1> QED
  BY <1>1, InvariantHolds, PTL
=============================================================================
