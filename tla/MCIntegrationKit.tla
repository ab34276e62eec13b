-------------------------- MODULE MCIntegrationKit --------------------------
(***************************************************************************)
(* Instances of IntegrationKit for TLC.                                    *)
(***************************************************************************)
EXTENDS IntegrationKit, TLC

(* The second differs from the first in what is hashed, the third names an *)
(* image; the builder trait of the last two fails, or sets the kit to      *)
(* Error.                                                                  *)
FiveSpecs == 1..5
DigestOf == [s \in FiveSpecs |-> s]
ImageSpecs == {3}
MalformedSpecs == {4}
RejectedSpecs == {5}

(* The first two specifications are alike but for their digests; what the  *)
(* kit waits for before it is built does not depend on its builder trait,  *)
(* nor on who made it.                                                     *)
MCInit ==
  /\ Init
  /\ kit.spec \in {1, 3, 5}
  /\ kit.external => kit.spec = 1 /\ platform = "Absent"
  /\ kit.spec = 5 => platform = "Absent"

MCSpec == MCInit /\ [][Next]_vars /\ Fairness
=============================================================================
