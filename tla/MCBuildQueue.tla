---------------------------- MODULE MCBuildQueue ----------------------------
(***************************************************************************)
(* Three Builds, every combination of attributes that the rule can tell    *)
(* apart, for TLC.                                                         *)
(***************************************************************************)
EXTENDS BuildQueue

ThreeNames == 1..3
LayoutValues == {"fast-jar", NoLayout}
DependencySets == {{"core"}, {"http"}, {"core", "http"}}
=============================================================================
