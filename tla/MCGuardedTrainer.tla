-------------------------- MODULE MCGuardedTrainer --------------------------
(* Finite instances of GuardedTrainer.                                     *)
EXTENDS GuardedTrainer
=============================================================================
