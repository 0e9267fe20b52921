--------------------------- MODULE PolicyLineage ---------------------------
(***************************************************************************)
(* What resumable training promises, without processes, logs or            *)
(* checkpoints: finished training steps form one lineage of policies.      *)
(* Each finished step adds one delta to the policy of the step before it,  *)
(* and no finished step is ever lost, reverted or done twice.              *)
(* TrainingLoop implements this.                                           *)
(***************************************************************************)
EXTENDS Sequences

CONSTANT Delta

VARIABLE lineage   \* the deltas of the finished steps, in order

LineageInit == lineage = <<>>

FinishOne == \E d \in Delta : lineage' = Append(lineage, d)

LineageSpec == LineageInit /\ [][FinishOne]_lineage
=============================================================================
