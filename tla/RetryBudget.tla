----------------------------- MODULE RetryBudget -----------------------------
(***************************************************************************)
(* What the Build controller promises about retries, whatever the strategy *)
(* and however late it sees its own writes: the attempts recorded in a     *)
(* Build go up one at a time, up to AttemptMax, and never come down while  *)
(* the Build exists.  A Build that is created again starts from nothing.   *)
(***************************************************************************)
EXTENDS Integers

CONSTANTS Builds, AttemptMax

VARIABLE attempt  \* attempt[b]: Gone, Clean, or the attempts made so far

Gone  == -2  \* there is no such Build
Clean == -1  \* no failure has been recorded

Init == attempt = [b \in Builds |-> Gone]

Appear(b) == attempt[b] = Gone /\ attempt' = [attempt EXCEPT ![b] = Clean]

Vanish(b) == attempt[b] # Gone /\ attempt' = [attempt EXCEPT ![b] = Gone]

Spend(b) ==
  /\ attempt[b] \in Clean..(AttemptMax - 1)
  /\ attempt' = [attempt EXCEPT ![b] = @ + 1]

Next == \E b \in Builds : Appear(b) \/ Vanish(b) \/ Spend(b)

Spec == Init /\ [][Next]_attempt
=============================================================================
