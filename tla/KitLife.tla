------------------------------- MODULE KitLife -------------------------------
(***************************************************************************)
(* The life of an IntegrationKit as those who use it may rely on it: what  *)
(* the phases of a kit promise, whatever the caches and the Builds behind  *)
(* it do.  IntegrationKit implements this specification, and Integration   *)
(* takes its kits from it.                                                 *)
(***************************************************************************)
VARIABLES
  phase,   \* "New", "Building", "Ready" or "Error"
  edited   \* has the specification of the kit been edited?

Init == phase = "New" /\ edited = FALSE

(* The kit is initialized and built, or fails. *)
Progress ==
  /\ phase \in {"New", "Building"} /\ phase' \in {"Building", "Ready", "Error"} \ {phase}
  /\ UNCHANGED edited

(* A second Build, or an outdated copy of the kit, has the last word; but  *)
(* a kit that was Ready never gets back to Building by itself.             *)
Overturn ==
  /\ \/ phase = "Ready" /\ phase' = "Error"
     \/ phase = "Error" /\ phase' \in {"Building", "Ready"}
  /\ UNCHANGED edited

Edit == edited' = TRUE /\ UNCHANGED phase

(* Only a kit that was edited starts over. *)
StartOver ==
  /\ edited /\ phase \in {"Ready", "Error"} /\ phase' = "New"
  /\ UNCHANGED edited

Next == Progress \/ Overturn \/ Edit \/ StartOver

Spec == Init /\ [][Next]_<<phase, edited>>
=============================================================================
