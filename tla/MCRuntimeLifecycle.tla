------------------------ MODULE MCRuntimeLifecycle ------------------------
(* LifecycleRuntime with a handful of identities for TLC.  The answer and  *)
(* the trace of the last operation are read by no operation: two states    *)
(* that differ only in them have the same successors, and the properties   *)
(* read their primed values only.                                          *)
(*                                                                         *)
(* The state of Ownership is a function of the store.  A step that leaves  *)
(* the store alone (a refusal, a read, a copy) is therefore a stuttering   *)
(* step of it, and ChangeSpec leaves those out where only the refinement   *)
(* is in question.                                                         *)
EXTENDS RuntimeLifecycle

ChangeSpec == Init /\ [][Next /\ store' # store]_vars

StoreView == <<next_id, store>>
=============================================================================
