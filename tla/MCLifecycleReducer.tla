------------------------- MODULE MCLifecycleReducer -------------------------
(* Finite instances of LifecycleReducer.                                   *)
EXTENDS LifecycleReducer
=============================================================================
