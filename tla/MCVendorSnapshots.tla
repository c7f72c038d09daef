------------------------- MODULE MCVendorSnapshots -------------------------
(* Processes and digests are interchangeable in the safety properties.     *)
EXTENDS VendorSnapshots, TLC

Symmetry == Permutations(Process) \cup Permutations(Digest)
=============================================================================
