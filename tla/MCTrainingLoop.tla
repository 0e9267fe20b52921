--------------------------- MODULE MCTrainingLoop ---------------------------
(* Finite instances of TrainingLoop.                                       *)
EXTENDS TrainingLoop
=============================================================================
