--------------------------- MODULE MCBuildRoutine ---------------------------
(***************************************************************************)
(* Instances of BuildRoutine for TLC.                                      *)
(***************************************************************************)
EXTENDS BuildRoutine, TLC

(* Two Builds of the same layout; the second can use the first as base. *)
OneBuild == {1}
TwoBuilds == {1, 2}
SameLayout ==
  (1 :> [layout |-> "fast-jar", deps |-> {"core"}, version |-> "v"])
  @@ (2 :> [layout |-> "fast-jar", deps |-> {"core", "http"}, version |-> "v"])

(* Goroutines are told apart by what they do only. *)
RoutineSymmetry == Permutations(RoutineIds)
=============================================================================
