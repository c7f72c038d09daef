------------------------- MODULE MCBoundedExecutor --------------------------
(* Two failures that may be retried and one that may not.                  *)
EXTENDS BoundedExecutor, TLC

CONSTANTS h1, h2

MCReport == {[cause |-> "Code", code |-> "E1"], [cause |-> "Code", code |-> "E2"],
             [cause |-> "Unknown", code |-> "E1"]}

Symmetry == Permutations({h1, h2})
=============================================================================
