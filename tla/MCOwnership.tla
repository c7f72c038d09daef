---------------------------- MODULE MCOwnership ----------------------------
(* The ownership specification for TLC: identities are interchangeable.    *)
EXTENDS Ownership, TLC

Symmetry ==
    Permutations(Owner) \cup Permutations(Allocation)
        \cup Permutations(Borrow) \cup Permutations(Resource)
=============================================================================
