------------------------------ MODULE BuildLife ------------------------------
(***************************************************************************)
(* The life of a Build as those who wait for it may rely on it.  Both      *)
(* strategies, BuildRoutine and BuildPod, implement this specification,    *)
(* and the kit and the Integration take their Build from it.               *)
(***************************************************************************)
VARIABLES
  phase,      \* "Absent", one of Under or one of Ended
  disturbed   \* has the operator acted on something outdated, or lost count?

(* Waiting stands for every phase before Running. *)
Under == {"Waiting", "Running", "Failed"}
Ended == {"Succeeded", "Error", "Interrupted"}

Init == phase = "Absent" /\ disturbed = FALSE

Appear == phase = "Absent" /\ phase' = "Waiting"
Vanish == phase # "Absent" /\ phase' = "Absent"

(* In order: what runs does not wait again before it has failed, what has  *)
(* failed waits again or is given up, and what has ended stays as it is.   *)
Work ==
  \/ /\ phase \in {"Waiting", "Running"}
     /\ phase' \in ({"Running", "Failed"} \cup Ended) \ {phase}
  \/ phase = "Failed" /\ phase' \in {"Waiting", "Error"}

(* Once disturbed, a Build may be set back to any phase, but not be made   *)
(* to exist again.                                                         *)
Slip ==
  /\ disturbed'
  /\ phase # "Absent" /\ phase' \in (Under \cup Ended) \ {phase}

(* A disturbance comes with any step, or by itself, and remains. *)
Next ==
  /\ Appear \/ Vanish \/ Work \/ Slip \/ UNCHANGED phase
  /\ disturbed => disturbed'

Spec == Init /\ [][Next]_<<phase, disturbed>>
=============================================================================
