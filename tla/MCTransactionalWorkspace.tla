---------------------- MODULE MCTransactionalWorkspace ----------------------
(* One path is in the base commit, the other is not and lies in a new      *)
(* directory.  Processes are interchangeable, and so are no other values.  *)
EXTENDS TransactionalWorkspace, TLC

CONSTANTS old, new, b1, b2

MCBase == (old :> b1) @@ (new :> Absent)

\* Failing calls with contents that are new, and torn saves and failing
\* fingerprints with the contents of the base commit only.
MCSettings ==
  {[faults |-> {"save", "effect", "git"}, written |-> {b2}, ignored |-> {new}],
   [faults |-> {"torn", "fingerprint"}, written |-> {b1}, ignored |-> {}],
   [faults |-> {"torn"}, written |-> {b1, b2}, ignored |-> {}]}

Symmetry == Permutations(Process)
=============================================================================
