----------------------------- MODULE Alignment -----------------------------
(***************************************************************************)
(* validators/align.py: the canonical masks, rebuilt from spans.           *)
(*                                                                         *)
(* A span <<s, e>> covers the positions s..e-1 of a sequence of n tokens,  *)
(* counted from 0.  A mask artifact is its length, the positions it        *)
(* selects, and whether its bytes are all 0 or 1.                          *)
(***************************************************************************)
EXTENDS Integers

Positions(span) == span[1] .. (span[2] - 1)

Padding(pads) == UNION {Positions(p) : p \in pads}

\* How reconstruct_alignment ends: with an Alignment, or with one of the two
\* exceptions.  EmptyCompletionError is an AlignmentError too: see Illegal.
AlignmentResult(n, span, pads) ==
  IF ~(0 <= span[1] /\ span[1] <= span[2] /\ span[2] <= n) THEN "AlignmentError"
  ELSE IF span[2] - span[1] <= 0 THEN "EmptyCompletionError"
  ELSE IF n - 1 <= 0 \/ \E p \in pads : ~(0 <= p[1] /\ p[1] < p[2] /\ p[2] <= n)
    THEN "AlignmentError"
  ELSE "Alignment"

completion_target_mask(span, pads) == Positions(span) \ Padding(pads)

\* The target at j is predicted by the logits at j - 1.
canonical_loss_mask(n, span, pads) ==
  {i \in 0..(n - 2) : i + 1 \in completion_target_mask(span, pads)}

prediction_positions(span) == (span[1] - 1) .. (span[2] - 2)

padding_within_completion(span, pads) ==
  \E p \in pads : p[1] < span[2] /\ p[2] > span[1]

\* mask_from_artifact_bytes raises AlignmentError unless this holds.
Decodes(mask, len) == mask.n = len /\ mask.binary
=============================================================================
