----------------------------- MODULE Validator -----------------------------
(***************************************************************************)
(* validators/rules.py, validator.py and context.py: the staged rules over *)
(* one envelope, its events and artifacts, and how their results combine.  *)
(*                                                                         *)
(* A ValidationContext c is a record; c.events maps event ids to events.   *)
(* An artifact reference is its content, so equal references are equal     *)
(* hashes; c.corrupt holds those whose blob is missing or altered.  A      *)
(* token sequence is [n, prompt, completion]; n is the length element_count*)
(* returns.  A checkpoint hash is the policy version it was saved for.     *)
(* Of a contract only what a rule reads is kept.                           *)
(***************************************************************************)
EXTENDS Alignment, FiniteSets

CONSTANT None  \* Python's None

Event(c, id) == IF id \in DOMAIN c.events THEN c.events[id] ELSE None

Typed(c, id, type) ==
  IF id # None /\ Event(c, id) # None
    THEN IF c.events[id].type = type THEN c.events[id] ELSE None
    ELSE None

Gen(c) == Typed(c, c.env.gen, "generation_finished")
Scoring(c) == Typed(c, c.env.scoring, "behavior_scoring_finished")
Reward(c) == Typed(c, c.env.reward, "reward_finished")
HasGen(c) == Gen(c) # None

SYNC_TERMINAL_SUCCESS == {"canary_passed", "sync_reconciled_canary_passed"}

Readable(c, artifact) == artifact \notin c.corrupt

\* _alignment: an unreadable sequence is an AlignmentError too.
Aligns(c) ==
  IF ~Readable(c, Gen(c).tokens) THEN "AlignmentError"
  ELSE AlignmentResult(Gen(c).tokens.n, Gen(c).completion_span, Gen(c).padding_spans)

Reject(fires) == IF fires THEN "reject" ELSE "pass"
Quarantine(fires) == IF fires THEN "quarantine" ELSE "pass"

----------------------------------------------------------------------------
(* P: policy                                                               *)

p001_missing_policy_manifest(c) == Reject(c.manifest = None)

p002_checkpoint_hash_mismatch(c) ==
  Reject(HasGen(c) /\ c.manifest # None /\ Gen(c).checkpoint # c.manifest.checkpoint)

\* Mutant: any sync event will do.
p003_any_sync_event(c) == Quarantine(HasGen(c) /\ Event(c, Gen(c).sync) = None)

p003_missing_sync_event(c) ==
  Quarantine(/\ HasGen(c)
             /\ \/ Event(c, Gen(c).sync) = None
                \/ c.events[Gen(c).sync].type \notin SYNC_TERMINAL_SUCCESS)

policy_lag(c) ==
  LET behind == c.env.contract.parent_version - Gen(c).version
  IN  IF behind > 0 THEN behind ELSE 0

p004_stale_policy_strict(c) ==
  Reject(c.protocol.mode = "strict_on_policy" /\ HasGen(c) /\ policy_lag(c) > 0)

p005_lag_exceeds_bound(c) ==
  Reject(/\ c.protocol.mode = "bounded_off_policy" /\ HasGen(c)
         /\ policy_lag(c) > c.protocol.max_lag)

p006_correction_undeclared(c) ==
  Reject(c.protocol.mode = "bounded_off_policy" /\ ~c.protocol.correction)

p009_contract_protocol_mismatch(c) == Reject(c.env.contract.protocol # c.protocol.mode)

p007_event_order_invalid(c) ==
  Reject(/\ HasGen(c)
         /\ \/ Event(c, Gen(c).sync) # None /\ c.events[Gen(c).sync].seq > Gen(c).seq
            \/ c.update # None /\ c.update.seq < Gen(c).seq)

p008_canary_mismatch(c) == Reject(c.canary = "mismatch")

----------------------------------------------------------------------------
(* T: tokens                                                               *)

\* The scorer's logprobs are not among the artifacts checked.
t001_artifact_hash_mismatch(c) ==
  Reject(/\ HasGen(c)
         /\ \/ \E a \in {Gen(c).target_mask, Gen(c).loss_mask} : ~Readable(c, a)
            \/ ~Readable(c, Gen(c).tokens)
            \/ Gen(c).logprobs # None /\ ~Readable(c, Gen(c).logprobs))

t002_tokenizer_mismatch(c) ==
  Reject(HasGen(c) /\ c.manifest # None /\ Gen(c).tokenizer # c.manifest.tokenizer)

t003_chat_template_mismatch(c) ==
  Reject(HasGen(c) /\ c.manifest # None /\ Gen(c).template # c.manifest.template)

t004_token_sequence_mismatch(c) ==
  Reject(HasGen(c) /\ c.update # None /\ c.update.tokens # Gen(c).tokens)

t005_span_out_of_range(c) == Reject(HasGen(c) /\ Aligns(c) = "AlignmentError")

----------------------------------------------------------------------------
(* M: masks.  A readable mask that does not decode raises AlignmentError,  *)
(* which only _alignment's callers catch: the rule raises.                 *)

TargetDecodes(c) == Decodes(Gen(c).target_mask, Gen(c).tokens.n)
LossDecodes(c) == Decodes(Gen(c).loss_mask, Gen(c).tokens.n - 1)

completion_length(c) == Gen(c).completion_span[2] - Gen(c).completion_span[1]

\* Mutant: an unreadable target mask raises.
m001_unreadable_raises(c) ==
  IF ~HasGen(c) \/ Aligns(c) = "EmptyCompletionError" THEN "pass"
  ELSE IF Aligns(c) = "AlignmentError" THEN "reject"
  ELSE IF ~Readable(c, Gen(c).target_mask) \/ ~TargetDecodes(c) THEN "raise"
  ELSE "pass"

m001_mask_shape_mismatch(c) ==
  IF ~HasGen(c) \/ Aligns(c) = "EmptyCompletionError" THEN "pass"
  ELSE IF Aligns(c) = "AlignmentError" THEN "reject"
  ELSE IF ~Readable(c, Gen(c).target_mask) THEN "pass"
  ELSE IF ~TargetDecodes(c) THEN "raise"
  ELSE IF ~Readable(c, Gen(c).loss_mask) THEN "pass"
  ELSE IF ~LossDecodes(c) THEN "raise"
  ELSE Reject(/\ Gen(c).logprobs # None /\ Readable(c, Gen(c).logprobs)
              /\ Gen(c).logprobs.n # completion_length(c))

\* _mask_violation, with what its three callers check.
mask_violation(c, violated) ==
  IF ~HasGen(c) \/ Aligns(c) # "Alignment" \/ ~Readable(c, Gen(c).target_mask) THEN "pass"
  ELSE IF ~TargetDecodes(c) THEN "raise"
  ELSE Reject(violated)

m002_prompt_selected(c) ==
  mask_violation(c, \E i \in Gen(c).target_mask.sel : i < Gen(c).completion_span[1])

m003_padding_selected(c) ==
  mask_violation(c, Gen(c).target_mask.sel \cap Padding(Gen(c).padding_spans) # {})

\* Mutant: the loss mask is not compared.
TargetCanonical(g) ==
  g.target_mask.sel = completion_target_mask(g.completion_span, g.padding_spans)

IsCanonical(g) ==
  /\ g.target_mask.sel = completion_target_mask(g.completion_span, g.padding_spans)
  /\ g.loss_mask.sel = canonical_loss_mask(g.tokens.n, g.completion_span, g.padding_spans)

m004_canonical_mask_mismatch(c) ==
  IF mask_violation(c, TRUE) # "reject" THEN mask_violation(c, TRUE)
  ELSE IF ~Readable(c, Gen(c).loss_mask) THEN "pass"
  ELSE IF ~LossDecodes(c) THEN "raise"
  ELSE Reject(~IsCanonical(Gen(c)))

m005_empty_completion(c) == Quarantine(HasGen(c) /\ completion_length(c) <= 0)

----------------------------------------------------------------------------
(* L: logprobs                                                             *)

l001_missing_behavior_logprob(c) ==
  Reject(HasGen(c) /\ Gen(c).logprobs = None /\ Scoring(c) = None)

l002_source_event_mismatch(c) ==
  LET auth == c.env.contract.auth
      ev == Event(c, auth)
  IN  Reject(\/ ev = None
             \/ /\ c.env.contract.source = "generation_service"
                /\ \/ ev.type # "generation_finished"
                   \/ auth # c.env.gen
                   \/ Gen(c).logprobs = None
             \/ /\ c.env.contract.source = "exact_behavior_scorer"
                /\ ev.type # "behavior_scoring_finished")

l003_scorer_policy_mismatch(c) ==
  Reject(/\ HasGen(c) /\ Scoring(c) # None
         /\ \/ Scoring(c).version # Gen(c).version
            \/ Scoring(c).checkpoint # Gen(c).checkpoint
            \/ Scoring(c).tokens # Gen(c).tokens)

\* Mutant: padding inside the completion is not quarantined.
l004_padding_allowed(c) ==
  IF ~HasGen(c) \/ Aligns(c) # "Alignment" THEN "pass"
  ELSE Reject(Gen(c).logprobs # None /\ Readable(c, Gen(c).logprobs)
              /\ Gen(c).logprobs.n # completion_length(c))

\* Corrupt scorer logprobs end the rule before the service's are counted.
l004_token_logprob_length_mismatch(c) ==
  IF ~HasGen(c) \/ Aligns(c) # "Alignment" THEN "pass"
  ELSE IF padding_within_completion(Gen(c).completion_span, Gen(c).padding_spans)
    THEN "quarantine"
  ELSE IF Scoring(c) # None /\ ~Readable(c, Scoring(c).logprobs) THEN "pass"
  ELSE Reject(\/ Scoring(c) # None /\ Scoring(c).logprobs.n # completion_length(c)
              \/ /\ Gen(c).logprobs # None /\ Readable(c, Gen(c).logprobs)
                 /\ Gen(c).logprobs.n # completion_length(c))

l005_scoring_after_update(c) ==
  Reject(Scoring(c) # None /\ c.update # None /\ Scoring(c).seq > c.update.seq)

l006_unsupported_provenance(c) ==
  Quarantine(Scoring(c) # None /\ Scoring(c).source # c.env.gen)

l007_authoritative_source_ambiguous(c) ==
  Reject(/\ HasGen(c) /\ Gen(c).logprobs # None /\ Scoring(c) # None
         /\ ~c.env.contract.diagnostic)

l008_nonauthoritative_logprob_consumed(c) ==
  Reject(c.update # None /\ c.update.auth # c.env.contract.auth)

----------------------------------------------------------------------------
(* D and R: data and reward                                                *)

d001_split_manifest_missing(c) == Reject(c.split = None)

d002_prompt_not_in_declared_split(c) ==
  Reject(HasGen(c) /\ c.split # None /\ Gen(c).prompt_id \notin c.split.prompts)

\* content maps prompt ids to hashes of their tokens; unreadable tokens pass.
d004_prompt_content_mismatch(c) ==
  Reject(/\ HasGen(c) /\ c.split # None
         /\ Gen(c).prompt_id \in DOMAIN c.split.content
         /\ Readable(c, Gen(c).tokens)
         /\ Gen(c).tokens.prompt # c.split.content[Gen(c).prompt_id])

r001_reward_protocol_missing(c) == Quarantine(Reward(c) # None /\ Reward(c).protocol = None)

r002_infra_error_as_task_fail(c) ==
  Reject(/\ Reward(c) # None /\ Reward(c).nonzero
         /\ Reward(c).status \in {"infra_error", "timeout", "invalid"})

r003_reward_missing_pre_update(c) == Reject(c.env.stage = "pre_update" /\ c.env.reward = None)

r004_reward_present_pre_reward(c) == Reject(c.env.stage = "pre_reward" /\ c.env.reward # None)

r005_parent_identity_not_allowed(c) ==
  Reject(/\ c.env.stage = "pre_update"
         /\ \/ c.env.parent = None
            \/ Typed(c, c.env.parent, "validation_decision") = None
            \/ c.events[c.env.parent].decision # "allow")

\* split_registry is the set of all split manifests.
d003_split_overlap(c) ==
  Reject(/\ HasGen(c) /\ c.split_registry # None
         /\ \E s1, s2 \in c.split_registry :
              s1 # s2 /\ Gen(c).prompt_id \in s1.prompts \cap s2.prompts)

r006_evaluator_alias(c) ==
  Quarantine(/\ Reward(c) # None /\ c.eval_protocol # None
             /\ Reward(c).protocol = c.eval_protocol)

\* verifiers maps registered verifier names to their protocols.
r008_reward_verifier_unregistered(c) ==
  Reject(/\ Reward(c) # None /\ c.verifiers # None
         /\ \/ Reward(c).verifier \notin DOMAIN c.verifiers
            \/ Reward(c).protocol # c.verifiers[Reward(c).verifier])

----------------------------------------------------------------------------
(* validate_envelope                                                       *)

ALL_RULES(c) == [
  P001 |-> p001_missing_policy_manifest(c),   P002 |-> p002_checkpoint_hash_mismatch(c),
  P003 |-> p003_missing_sync_event(c),        P004 |-> p004_stale_policy_strict(c),
  P005 |-> p005_lag_exceeds_bound(c),         P006 |-> p006_correction_undeclared(c),
  P007 |-> p007_event_order_invalid(c),       P008 |-> p008_canary_mismatch(c),
  P009 |-> p009_contract_protocol_mismatch(c),
  T001 |-> t001_artifact_hash_mismatch(c),    T002 |-> t002_tokenizer_mismatch(c),
  T003 |-> t003_chat_template_mismatch(c),    T004 |-> t004_token_sequence_mismatch(c),
  T005 |-> t005_span_out_of_range(c),
  M001 |-> m001_mask_shape_mismatch(c),       M002 |-> m002_prompt_selected(c),
  M003 |-> m003_padding_selected(c),          M004 |-> m004_canonical_mask_mismatch(c),
  M005 |-> m005_empty_completion(c),
  L001 |-> l001_missing_behavior_logprob(c),  L002 |-> l002_source_event_mismatch(c),
  L003 |-> l003_scorer_policy_mismatch(c),    L004 |-> l004_token_logprob_length_mismatch(c),
  L005 |-> l005_scoring_after_update(c),      L006 |-> l006_unsupported_provenance(c),
  L007 |-> l007_authoritative_source_ambiguous(c),
  L008 |-> l008_nonauthoritative_logprob_consumed(c),
  D001 |-> d001_split_manifest_missing(c),    D002 |-> d002_prompt_not_in_declared_split(c),
  D003 |-> d003_split_overlap(c),             D004 |-> d004_prompt_content_mismatch(c),
  R001 |-> r001_reward_protocol_missing(c),   R002 |-> r002_infra_error_as_task_fail(c),
  R003 |-> r003_reward_missing_pre_update(c), R004 |-> r004_reward_present_pre_reward(c),
  R005 |-> r005_parent_identity_not_allowed(c),
  R006 |-> r006_evaluator_alias(c),           R008 |-> r008_reward_verifier_unregistered(c)]

IDENTITY_STAGE_RULES ==
  {"P001", "P002", "P003", "P004", "P005", "P006", "P007", "P008", "P009",
   "T001", "T002", "T003", "T004", "T005", "M001", "M002", "M003", "M004", "M005",
   "L001", "L002", "L003", "L004", "L005", "L006", "L007", "L008", "R004"}

PRE_UPDATE_STAGE_RULES ==
  IDENTITY_STAGE_RULES \cup
  {"D001", "D002", "R001", "R002", "R003", "R005", "D003", "R006", "D004", "R008"}

RULES_BY_STAGE(stage) ==
  IF stage = "full_pre_update" THEN PRE_UPDATE_STAGE_RULES ELSE IDENTITY_STAGE_RULES

\* The result of validate_envelope; "raise" when a rule raises.
validate_envelope(c, stage) ==
  LET verdicts == ALL_RULES(c)
      Ended(v) == {r \in RULES_BY_STAGE(stage) : verdicts[r] = v}
      decision == IF Ended("raise") # {} THEN "raise"
                  ELSE IF Ended("reject") # {} THEN "reject"
                  ELSE IF Ended("quarantine") # {} THEN "quarantine" ELSE "allow"
  IN  [decision |-> decision,
       codes |-> IF decision = "allow" THEN RULES_BY_STAGE(stage) ELSE Ended(decision)]

next_seq(c) ==
  IF DOMAIN c.events = {} THEN 0
  ELSE 1 + (CHOOSE n \in {c.events[id].seq : id \in DOMAIN c.events} :
              \A id \in DOMAIN c.events : c.events[id].seq <= n)
=============================================================================
