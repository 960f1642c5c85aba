-------------------------------- MODULE OneShot -------------------------------
(***************************************************************************)
(* What a single-capacity operation manager promises: operations are       *)
(* numbered in the order they begin, one at most is active, and each ends  *)
(* exactly once with a result that never changes.                          *)
(***************************************************************************)
EXTENDS Naturals

CONSTANTS Operations,  \* the numbers an operation may carry
          Results      \* the ways an operation may end

VARIABLE phase   \* phase[n]: "unborn", "active", or the result of operation n

Init == phase = [n \in Operations |-> "unborn"]

\* Operations begin in order, each after every earlier one has its result.
Begin(n) ==
  /\ phase[n] = "unborn"
  /\ \A m \in Operations : m < n => phase[m] \in Results
  /\ phase' = [phase EXCEPT ![n] = "active"]

End(n, result) ==
  /\ phase[n] = "active"
  /\ phase' = [phase EXCEPT ![n] = result]

Next == \E n \in Operations : Begin(n) \/ \E r \in Results : End(n, r)

Spec == Init /\ [][Next]_phase

===============================================================================
