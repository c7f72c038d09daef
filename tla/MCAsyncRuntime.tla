--------------------------- MODULE MCAsyncRuntime ---------------------------
(***************************************************************************)
(* Programs of a main function and four tasks: Main spawns A and B, A may  *)
(* run C and B may run D, under a join, a timeout or unattended; the       *)
(* handle of A is joined by Main or handed to B.                           *)
(***************************************************************************)
EXTENDS AsyncRuntime, TLC

CONSTANTS A, B, C, D

I(op, t) == [op |-> op, of |-> t]
Leaf == <<<<>>, <<I("sleep", Main)>>, <<I("panic", Main)>>>>
Parent(t) ==
  <<<<I("spawn", t), I("join", t)>>, <<I("timeout", t)>>, <<I("spawn", t)>>, <<>>>>

\* Main joins A and then B, or B which joins A.
MainBody == <<I("spawn", A), I("spawn", B)>>
Joins == <<<<I("join", A), I("join", B)>>, <<I("join", B)>>>>

Body(j, a, b, c) ==
  (Main :> MainBody \o Joins[j])
    @@ (A :> Parent(C)[a])
    @@ (B :> Parent(D)[b] \o (IF j = 2 THEN <<I("join", A)>> ELSE <<>>))
    @@ (C :> Leaf[c]) @@ (D :> <<>>)

Handles(j) == [t \in Task \cup {Main} |-> IF t = B /\ j = 2 THEN {A} ELSE {}]

MCPrograms ==
  {[body |-> Body(j, a, b, c), handles |-> Handles(j), canceled |-> canceled, max_workers |-> n] :
     j \in 1..2, a \in 1..4, b \in 1..4, c \in 1..3, canceled \in SUBSET {D}, n \in 1..MaxWorkers}
=============================================================================
