-------------------------------- MODULE Pipe --------------------------------
(***************************************************************************)
(* The Pipe controller: one Pipe and the Integration of the same name that *)
(* it creates, replaces and follows.                                       *)
(*                                                                         *)
(* pipe and it are what the API server stores, seen and itSeen what the    *)
(* two informers last delivered.  A handler that returns an error is       *)
(* retried; when nothing was changed before, that is a stuttering step.    *)
(*                                                                         *)
(* A specification is the set of its settings, the annotations included    *)
(* that name an operator or a profile.  The Integration controller         *)
(* (Integration) is reduced to the phases that a Pipe tells apart, which   *)
(* may change at any time.                                                 *)
(***************************************************************************)
EXTENDS Integers, FiniteSets

CONSTANTS
  Settings,      \* what a Pipe, and the Integration made from it, may set
  Traits,        \* for each trait, its settings
  Specs,         \* the specifications a user gives the Pipe
  Translations,  \* Translations[s]: the Integrations that may be made from s
  MaxChanges     \* bound: what users, the Integration controller and faults do

ASSUME TraitsAssumption == Traits \subseteq SUBSET Settings

ASSUME TranslationsAssumption ==
  Specs \subseteq SUBSET Settings /\ Translations \in [Specs -> SUBSET (SUBSET Settings)]

ASSUME MaxChangesAssumption == MaxChanges \in Nat

VARIABLES
  pipe,     \* the Pipe on the API server
  seen,     \* the Pipe in the cache
  it,       \* the Integration on the API server
  itSeen,   \* the Integration in the cache
  events,   \* undelivered events that pass the predicates
  queued,   \* is the Pipe in the work queue, or backing off?
  changes   \* number of changes so far

vars == <<pipe, seen, it, itSeen, events, queued, changes>>
-----------------------------------------------------------------------------
PipePhases == {"None", "Creating", "BuildComplete", "Ready", "Error"}

Pipes == [spec : Specs, phase : PipePhases]

(* Building: every phase that is neither of the other three. *)
IntegrationPhases == {"Building", "BuildComplete", "Running", "Error"}

NoIntegration == [phase |-> "Absent"]

Integrations == [spec : SUBSET Settings, phase : IntegrationPhases]

(* CreateIntegrationFor.  The bindings add settings of their own to the    *)
(* traits, the filters of a broker in an order of chance; a Pipe that is   *)
(* malformed has no translation.                                           *)
Malformed == {s \in Specs : Translations[s] = {}}

(* IntegrationAndPipeSameTraits: a trait that the Pipe configures is the   *)
(* same in the Integration, to the last setting.                           *)
SameTraits(spec, itSpec) ==
  \A t \in Traits : spec \cap t # {} => itSpec \cap t = spec \cap t

(* monitorAction.Handle: an Integration that lacks an expected setting is  *)
(* not up to date (DeepDerivative: one that has more is), and neither is   *)
(* one whose traits differ.                                                *)
UpToDate(spec, expected, itSpec) == expected \subseteq itSpec /\ SameTraits(spec, itSpec)

(* update: a status patch writes the phase when it is not the one that was *)
(* read.                                                                   *)
Update(phase) == pipe' = IF phase = seen.phase THEN pipe ELSE [pipe EXCEPT !.phase = phase]

(* Every event of the Integration passes, and of the Pipe those that       *)
(* change its phase or its specification.                                  *)
Notify ==
  events' = events \cup (IF pipe' # pipe THEN {"pipe"} ELSE {})
                   \cup (IF it' # it THEN {"it"} ELSE {})

Change == changes < MaxChanges /\ changes' = changes + 1
-----------------------------------------------------------------------------
Init ==
  /\ \E s \in Specs : pipe = [spec |-> s, phase |-> "None"]
  /\ seen = pipe
  /\ it = NoIntegration /\ itSeen = NoIntegration
  /\ events = {} /\ queued = TRUE
  /\ changes = 0

(* Mutant of ReplaceResource: an Integration that exists is left alone. *)
CreateResource(spec) ==
  \E t \in Translations[spec] :
    it' = IF it = NoIntegration THEN [spec |-> t, phase |-> "Building"] ELSE it

(* ReplaceResource: create, or update with the version in the cache, which *)
(* is refused when the stored one is newer.  The status is left alone.     *)
ReplaceResource(spec) ==
  \E t \in Translations[spec] :
    \/ it = NoIntegration /\ it' = [spec |-> t, phase |-> "Building"]
    \/ it # NoIntegration /\ "it" \notin events /\ it' = [it EXCEPT !.spec = t]

(* initializePipe, by the initialize action, or by the monitor action when *)
(* the Integration is gone.                                                *)
InitializePipe ==
  /\ queued
  /\ seen.phase = "None" \/ itSeen = NoIntegration
  /\ ReplaceResource(seen.spec)
  /\ Update("Creating") /\ Notify
  /\ queued' = FALSE
  /\ UNCHANGED <<seen, itSeen, changes>>

(* The Integration is there, and the status of the Pipe is not patched. *)
InitializePipeFails ==
  /\ queued
  /\ seen.phase = "None" \/ itSeen = NoIntegration
  /\ ReplaceResource(seen.spec)
  /\ Change
  /\ pipe' = pipe /\ Notify
  /\ UNCHANGED <<seen, itSeen, queued>>

(* CreateIntegrationFor fails, in either action: a specification that is   *)
(* malformed, or a Kamelet or a platform that is not found for once.       *)
CreateIntegrationFails ==
  /\ queued
  /\ \/ seen.spec \in Malformed /\ UNCHANGED changes
     \/ Change
  /\ Update("Error") /\ UNCHANGED it /\ Notify
  /\ UNCHANGED <<seen, itSeen, queued>>

(* Mutant of PhaseFor: the phase of the Integration is copied. *)
PhaseForAny(phase) == phase

(* monitorAction.Handle: the phase of an Integration that is as it should. *)
PhaseFor(phase) ==
  CASE phase = "Running"       -> "Ready"
    [] phase = "Error"         -> "Error"
    [] phase = "BuildComplete" -> "BuildComplete"
    [] OTHER                   -> "Creating"

(* monitorAction.Handle: an Integration that is not up to date is replaced *)
(* by the initialize action.                                               *)
Monitor ==
  /\ queued
  /\ seen.phase # "None" /\ itSeen # NoIntegration
  /\ \E expected \in Translations[seen.spec] :
       Update(IF UpToDate(seen.spec, expected, itSeen.spec) THEN PhaseFor(itSeen.phase) ELSE "None")
  /\ UNCHANGED it /\ Notify
  /\ queued' = FALSE
  /\ UNCHANGED <<seen, itSeen, changes>>

Reconcile == InitializePipe \/ CreateIntegrationFails \/ Monitor
-----------------------------------------------------------------------------
(* The watches deliver. *)
ObservePipe ==
  /\ "pipe" \in events
  /\ seen' = pipe
  /\ events' = events \ {"pipe"} /\ queued' = TRUE
  /\ UNCHANGED <<pipe, it, itSeen, changes>>

(* Mutant of ObserveIntegration: an update that leaves the phase alone is  *)
(* filtered out.                                                           *)
ObserveIntegrationPhase ==
  /\ "it" \in events
  /\ itSeen' = it
  /\ events' = events \ {"it"} /\ queued' = (queued \/ it.phase # itSeen.phase)
  /\ UNCHANGED <<pipe, seen, it, changes>>

ObserveIntegration ==
  /\ "it" \in events
  /\ itSeen' = it
  /\ events' = events \ {"it"} /\ queued' = TRUE
  /\ UNCHANGED <<pipe, seen, it, changes>>

(* The operator starts again: the informers list, and the Pipe is queued. *)
Restart ==
  /\ Change
  /\ seen' = pipe /\ itSeen' = it
  /\ events' = {} /\ queued' = TRUE
  /\ UNCHANGED <<pipe, it>>

(* A user edits the Pipe. *)
Edit ==
  /\ Change
  /\ \E s \in Specs : pipe' = [pipe EXCEPT !.spec = s]
  /\ UNCHANGED it /\ Notify
  /\ UNCHANGED <<seen, itSeen, queued>>

(* A user edits or deletes the Integration, or its controller takes a step. *)
IntegrationChanges ==
  /\ Change
  /\ it # NoIntegration
  /\ \/ \E x \in Settings : it' \in {[it EXCEPT !.spec = @ \cup {x}], [it EXCEPT !.spec = @ \ {x}]}
     \/ \E phase \in IntegrationPhases : it' = [it EXCEPT !.phase = phase]
     \/ it' = NoIntegration
  /\ UNCHANGED pipe /\ Notify
  /\ UNCHANGED <<seen, itSeen, queued>>

Environment == ObservePipe \/ ObserveIntegration \/ Restart \/ Edit \/ IntegrationChanges

Next == Reconcile \/ InitializePipeFails \/ Environment

Spec == Init /\ [][Next]_vars

(* The watches deliver, and the worker serves its queue. *)
Fairness == WF_vars(ObservePipe) /\ WF_vars(ObserveIntegration) /\ WF_vars(Reconcile)

FairSpec == Spec /\ Fairness
-----------------------------------------------------------------------------
TypeOK ==
  /\ pipe \in Pipes /\ seen \in Pipes
  /\ it \in Integrations \cup {NoIntegration}
  /\ itSeen \in Integrations \cup {NoIntegration}
  /\ events \subseteq {"pipe", "it"}
  /\ queued \in BOOLEAN
  /\ changes \in 0..MaxChanges

(* The Integration is up to date, and the Pipe shows its phase. *)
Agree ==
  /\ it # NoIntegration
  /\ \E expected \in Translations[pipe.spec] : UpToDate(pipe.spec, expected, it.spec)
  /\ pipe.phase = PhaseFor(it.phase)

(***************************************************************************)
(* When nothing is left to deliver or to reconcile, the Pipe and its       *)
(* Integration agree: whatever the caches were behind by, no reconciliation*)
(* was the last one too early.                                             *)
(***************************************************************************)
AgreeWhenQuiet == events = {} /\ ~queued => Agree

(***************************************************************************)
(* An edit of the Pipe, and one of the Integration behind its back, comes  *)
(* to an end: replacing an Integration does not go on for ever, although   *)
(* the action works on copies of what it has itself written.  It does go   *)
(* on when the Pipe configures a trait to which its bindings add, or when  *)
(* its translation is not the same every time.                             *)
(***************************************************************************)
Steady(spec) == \E t \in Translations[spec] : Translations[spec] = {t} /\ SameTraits(spec, t)

PipeFollows == []<>(Agree \/ ~Steady(pipe.spec))
=============================================================================
