---------------------------- MODULE MCIntegration ---------------------------
(***************************************************************************)
(* Instances of Integration for TLC.                                       *)
(***************************************************************************)
EXTENDS Integration, TLC

(* One that needs a kit, a Git build and an image; then a Git build and a  *)
(* kit with a builder trait that cannot be parsed, and a Git build with    *)
(* properties that the trait rejects.                                      *)
SixSpecs == 1..6
KindOf == (1 :> "kit") @@ (2 :> "git") @@ (3 :> "image") @@ (4 :> "git") @@ (5 :> "git") @@ (6 :> "kit")
NeedOf == (1 :> 1) @@ (2 :> 2) @@ (3 :> 3) @@ (4 :> 4) @@ (5 :> 5) @@ (6 :> 4)

(* An image, and what is rejected, is only named by an edit.  The one that *)
(* needs a kit is deployed when a user says so, the others when they are   *)
(* built.  One begins as what cannot be parsed, to be edited.              *)
MCInit == Init /\ it.spec \in {1, 2, 4} /\ dry = (it.spec = 1)

MCSpec == MCInit /\ [][Next]_vars /\ Fairness
=============================================================================
