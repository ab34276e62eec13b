----------------------------- MODULE MCBuildPod -----------------------------
(***************************************************************************)
(* Instances of BuildPod for TLC.                                          *)
(***************************************************************************)
EXTENDS BuildPod, TLC

OneBuild == {1}
TwoBuilds == {1, 2}

(* Two Builds of the same layout; the second can use the first as base. *)
SameLayout ==
  (1 :> [layout |-> "fast-jar", deps |-> {"core"}, version |-> "v"])
  @@ (2 :> [layout |-> "fast-jar", deps |-> {"core", "http"}, version |-> "v"])
=============================================================================
