----------------------------- MODULE BuildQueue -----------------------------
(***************************************************************************)
(* The queue of Builds as the admission rule means it to be, without       *)
(* caches, failures and restarts: Builds with any attributes arrive, are   *)
(* initialized, admitted by Monitor.canSchedule one at a time, and end.    *)
(* It is here that the rule is tried on every combination of layouts,      *)
(* dependencies, runtime versions and creation times; BuildRoutine and     *)
(* BuildPod use the same operators with two Builds of fixed attributes.    *)
(*                                                                         *)
(* Creation timestamps have a resolution of one second: Builds that arrive *)
(* one after the other may carry the same one.                             *)
(***************************************************************************)
EXTENDS BuildOrder

CONSTANTS
  Names,             \* the names a Build can have
  Layouts,           \* values of the layout label
  Dependencies,      \* sets of builder dependencies
  Versions,          \* runtime versions
  MaxRunningBuilds   \* limit on the builds running at the same time

ASSUME QueueAssumption ==
  /\ Names \subseteq Nat /\ IsFiniteSet(Names)
  /\ \A deps \in Dependencies : IsFiniteSet(deps)
  /\ MaxRunningBuilds \in Nat \ {0}

VARIABLES
  strategy,  \* the order strategy of the platform
  clock,     \* the last creation timestamp given
  items      \* the Builds that exist

vars == <<strategy, clock, items>>

Strategies == {"fifo", "dependencies", "sequential"}

Running == {b \in items : b.phase \in {"Pending", "Running"}}
Queued  == {b \in items : b.phase = "Scheduling"}

Init == strategy \in Strategies /\ clock = 0 /\ items = {}

(* The second may be over when a Build is created, or not. *)
Arrive(name) ==
  /\ \A b \in items : b.name # name
  /\ clock' \in {clock, clock + 1}
  /\ \E layout \in Layouts, deps \in Dependencies, version \in Versions :
       items' = items \cup
         {[name |-> name, created |-> clock', layout |-> layout,
           deps |-> deps, version |-> version, phase |-> "None"]}
  /\ UNCHANGED strategy

(* b moves to a phase. *)
Move(b, phase) ==
  /\ items' = (items \ {b}) \cup {[b EXCEPT !.phase = phase]}
  /\ UNCHANGED <<strategy, clock>>

Initialize(b) == b.phase = "None" /\ Move(b, "Scheduling")

Admit(b) ==
  /\ b \in Queued
  /\ canSchedule(MaxRunningBuilds, strategy, Cardinality(Running), items, b)
  /\ Move(b, "Pending")

Start(b) == b.phase = "Pending" /\ Move(b, "Running")

End(b) == b \in Running /\ \E phase \in {"Succeeded", "Error"} : Move(b, phase)

Next ==
  \/ \E name \in Names : Arrive(name)
  \/ \E b \in items : Initialize(b) \/ Admit(b) \/ Start(b) \/ End(b)

Spec == Init /\ [][Next]_vars
-----------------------------------------------------------------------------
TypeOK ==
  /\ strategy \in Strategies
  /\ clock \in Nat
  /\ items \subseteq [name : Names, created : Nat, layout : Layouts,
                      deps : Dependencies, version : Versions, phase : BuildPhases]
  /\ \A b, c \in items : b.name = c.name => b = c

(***************************************************************************)
(* The Builds of a layout never all wait for one another: when some are    *)
(* queued and none is on its way to the queue or under way, the order lets *)
(* one of them go, whatever the strategy.                                  *)
(***************************************************************************)
Peers(b) == {c \in items : c.layout = b.layout}

NoStandstill ==
  \A b \in Queued :
    (\A c \in Peers(b) : c.phase = "Scheduling" \/ IsFinished(c))
      => \E c \in Queued \cap Peers(b) :
           orderAllows(strategy, withCompatibleLayout(items, c), c)

(***************************************************************************)
(* The purpose of the dependencies order: of two Builds that could share   *)
(* an image because they need the same, the second waits for the first.    *)
(***************************************************************************)
SameImageOnce ==
  strategy = "dependencies" =>
    \A b, c \in Running :
      /\ b.name # c.name
      /\ b.layout = c.layout /\ b.layout \notin {NoLayout, NativeSources}
      /\ b.version = c.version
      /\ b.deps = c.deps
      => b.deps = {}
=============================================================================
