-------------------------- MODULE ValidationProofs --------------------------
(***************************************************************************)
(* Proofs about the validator: what an allow means for any context, that   *)
(* every context of ValidationPipeline is one of those, and that a         *)
(* trajectory nobody changed is let through.  Then about the drivers of    *)
(* FaultMatrix: a frozen case is never replaced, and every fault family    *)
(* ends as registered, in every driver and when it is replayed.            *)
(***************************************************************************)
EXTENDS ValidationPipeline, FaultMatrix, SequenceTheorems, TLAPS

Stages == {"identity_pre_reward", "full_pre_update"}

MaskRules == {"M001", "M002", "M003", "M004"}

----------------------------------------------------------------------------
(* How the rules' results combine.                                         *)

LEMMA IdentityRulesAlways ==
  ASSUME NEW stage
  PROVE  /\ IDENTITY_STAGE_RULES \subseteq RULES_BY_STAGE(stage)
         /\ RULES_BY_STAGE(stage) \subseteq PRE_UPDATE_STAGE_RULES
BY DEF RULES_BY_STAGE, PRE_UPDATE_STAGE_RULES

\* An allow needs every rule of the stage to pass.
LEMMA Passed ==
  ASSUME NEW c, NEW stage, validate_envelope(c, stage).decision = "allow",
         NEW r \in RULES_BY_STAGE(stage)
  PROVE  ALL_RULES(c)[r] \notin {"raise", "reject", "quarantine"}
BY DEF validate_envelope

LEMMA Raised ==
  ASSUME NEW c, NEW stage
  PROVE  validate_envelope(c, stage).decision = "raise"
           <=> \E r \in RULES_BY_STAGE(stage) : ALL_RULES(c)[r] = "raise"
BY DEF validate_envelope

LEMMA VerdictType ==
  ASSUME NEW c, NEW stage
  PROVE  LET v == validate_envelope(c, stage)
         IN  /\ v.decision \in {"allow", "quarantine", "reject", "raise"}
             /\ v.codes # {} /\ v.codes \subseteq RULES_BY_STAGE(stage)
             /\ v.decision = "allow" => v.codes = RULES_BY_STAGE(stage)
<1>1. RULES_BY_STAGE(stage) # {}
  BY DEF RULES_BY_STAGE, IDENTITY_STAGE_RULES, PRE_UPDATE_STAGE_RULES
<1> QED BY <1>1 DEF validate_envelope

\* Only the four mask rules raise.
LEMMA OnlyMaskRulesRaise ==
  ASSUME NEW c, NEW r \in PRE_UPDATE_STAGE_RULES \ MaskRules
  PROVE  ALL_RULES(c)[r] # "raise"
<1> USE DEF Reject, Quarantine
<1>1. CASE r \in {"P001", "P002", "P003", "P004", "P005", "P006", "P007", "P008", "P009"}
  BY <1>1 DEF ALL_RULES, p001_missing_policy_manifest, p002_checkpoint_hash_mismatch,
       p003_missing_sync_event, p004_stale_policy_strict, p005_lag_exceeds_bound,
       p006_correction_undeclared, p007_event_order_invalid, p008_canary_mismatch,
       p009_contract_protocol_mismatch
<1>2. CASE r \in {"T001", "T002", "T003", "T004", "T005", "M005"}
  BY <1>2 DEF ALL_RULES, t001_artifact_hash_mismatch, t002_tokenizer_mismatch,
       t003_chat_template_mismatch, t004_token_sequence_mismatch, t005_span_out_of_range,
       m005_empty_completion
<1>3. CASE r \in {"L001", "L002", "L003", "L004", "L005", "L006", "L007", "L008"}
  BY <1>3 DEF ALL_RULES, l001_missing_behavior_logprob, l002_source_event_mismatch,
       l003_scorer_policy_mismatch, l004_token_logprob_length_mismatch,
       l005_scoring_after_update, l006_unsupported_provenance,
       l007_authoritative_source_ambiguous, l008_nonauthoritative_logprob_consumed
<1>4. CASE r \in {"D001", "D002", "D003", "D004"}
  BY <1>4 DEF ALL_RULES, d001_split_manifest_missing, d002_prompt_not_in_declared_split,
       d003_split_overlap, d004_prompt_content_mismatch
<1>5. CASE r \in {"R001", "R002", "R003", "R004", "R005", "R006", "R008"}
  BY <1>5 DEF ALL_RULES, r001_reward_protocol_missing, r002_infra_error_as_task_fail,
       r003_reward_missing_pre_update, r004_reward_present_pre_reward,
       r005_parent_identity_not_allowed, r006_evaluator_alias, r008_reward_verifier_unregistered
<1> QED BY <1>1, <1>2, <1>3, <1>4, <1>5
        DEF PRE_UPDATE_STAGE_RULES, IDENTITY_STAGE_RULES, MaskRules

\* And they raise for exactly these masks.
LEMMA MaskRulesRaise ==
  ASSUME NEW c
  PROVE  (\E r \in MaskRules : ALL_RULES(c)[r] = "raise")
           <=> /\ HasGen(c) /\ Aligns(c) = "Alignment"
               /\ Readable(c, Gen(c).target_mask)
               /\ \/ ~TargetDecodes(c)
                  \/ Readable(c, Gen(c).loss_mask) /\ ~LossDecodes(c)
<1>1. /\ ALL_RULES(c)["M001"] = m001_mask_shape_mismatch(c)
      /\ ALL_RULES(c)["M002"] = m002_prompt_selected(c)
      /\ ALL_RULES(c)["M003"] = m003_padding_selected(c)
      /\ ALL_RULES(c)["M004"] = m004_canonical_mask_mismatch(c)
  BY DEF ALL_RULES
<1>2. Aligns(c) \in {"Alignment", "AlignmentError", "EmptyCompletionError"}
  BY DEF Aligns, AlignmentResult
<1>3. m001_mask_shape_mismatch(c) = "raise"
        <=> /\ HasGen(c) /\ Aligns(c) = "Alignment"
            /\ Readable(c, Gen(c).target_mask)
            /\ \/ ~TargetDecodes(c)
               \/ Readable(c, Gen(c).loss_mask) /\ ~LossDecodes(c)
  BY <1>2 DEF m001_mask_shape_mismatch, Reject
<1>4. \A v \in BOOLEAN : mask_violation(c, v) = "raise"
        <=> /\ HasGen(c) /\ Aligns(c) = "Alignment"
            /\ Readable(c, Gen(c).target_mask) /\ ~TargetDecodes(c)
  BY DEF mask_violation, Reject
<1>5. m002_prompt_selected(c) = "raise" \/ m003_padding_selected(c) = "raise"
        => /\ HasGen(c) /\ Aligns(c) = "Alignment"
           /\ Readable(c, Gen(c).target_mask) /\ ~TargetDecodes(c)
  BY <1>4 DEF m002_prompt_selected, m003_padding_selected
<1>6. m004_canonical_mask_mismatch(c) = "raise"
        => /\ HasGen(c) /\ Aligns(c) = "Alignment"
           /\ Readable(c, Gen(c).target_mask)
           /\ \/ ~TargetDecodes(c)
              \/ Readable(c, Gen(c).loss_mask) /\ ~LossDecodes(c)
  BY DEF m004_canonical_mask_mismatch, mask_violation, Reject
<1> QED BY <1>1, <1>3, <1>5, <1>6 DEF MaskRules

LEMMA RaisesForBadMask ==
  ASSUME NEW c, NEW stage
  PROVE  validate_envelope(c, stage).decision = "raise"
           <=> /\ HasGen(c) /\ Aligns(c) = "Alignment"
               /\ Readable(c, Gen(c).target_mask)
               /\ \/ ~TargetDecodes(c)
                  \/ Readable(c, Gen(c).loss_mask) /\ ~LossDecodes(c)
<1>1. MaskRules \subseteq RULES_BY_STAGE(stage)
  BY IdentityRulesAlways DEF MaskRules, IDENTITY_STAGE_RULES
<1>2. (\E r \in RULES_BY_STAGE(stage) : ALL_RULES(c)[r] = "raise")
        <=> \E r \in MaskRules : ALL_RULES(c)[r] = "raise"
  BY <1>1, IdentityRulesAlways, OnlyMaskRulesRaise
<1> QED BY <1>2, Raised, MaskRulesRaise
----------------------------------------------------------------------------
(* What an allow says of the masks.                                        *)

\* The types a generation's rules compute with.
TypedGeneration(g) ==
  /\ g.completion_span \in Int \X Int
  /\ g.padding_spans \subseteq Int \X Int
  /\ g.tokens.n \in Int
  /\ g.version \in Int /\ g.seq \in Int

Aligned(g) ==
  /\ g.target_mask.sel = Positions(g.completion_span)
  /\ g.completion_span[1] >= 1 => g.loss_mask.sel = prediction_positions(g.completion_span)
  /\ g.logprobs # None => g.logprobs.n = g.completion_span[2] - g.completion_span[1]

\* No padding span that leaves the completion alone selects a position of it.
LEMMA NoPaddingSelected ==
  ASSUME NEW span \in Int \X Int, NEW pads, pads \subseteq Int \X Int,
         ~padding_within_completion(span, pads)
  PROVE  completion_target_mask(span, pads) = Positions(span)
<1> SUFFICES ASSUME NEW x \in Positions(span), NEW p \in pads, x \in Positions(p)
             PROVE  FALSE
  BY DEF completion_target_mask, Padding
<1>1. span[1] <= x /\ x < span[2] /\ p[1] <= x /\ x < p[2] /\ x \in Int
  BY DEF Positions
<1>2. p[1] < span[2] /\ p[2] > span[1] BY <1>1
<1> QED BY <1>2 DEF padding_within_completion

\* Every target is predicted one position earlier.
LEMMA LossIsShifted ==
  ASSUME NEW n \in Int, NEW span \in Int \X Int, NEW pads, span[1] >= 1, span[2] <= n,
         completion_target_mask(span, pads) = Positions(span)
  PROVE  canonical_loss_mask(n, span, pads) = prediction_positions(span)
<1>1. ASSUME NEW i \in canonical_loss_mask(n, span, pads) PROVE i \in prediction_positions(span)
  <2>1. i \in 0..(n - 2) /\ i + 1 \in Positions(span) BY <1>1 DEF canonical_loss_mask
  <2>2. i \in Int BY <2>1
  <2> QED BY <2>1, <2>2 DEF Positions, prediction_positions
<1>2. ASSUME NEW i \in prediction_positions(span) PROVE i \in canonical_loss_mask(n, span, pads)
  <2>1. i \in Int /\ span[1] - 1 <= i /\ i <= span[2] - 2 BY <1>2 DEF prediction_positions
  <2>2. i \in 0..(n - 2) BY <2>1
  <2>3. i + 1 \in Positions(span) BY <2>1 DEF Positions
  <2> QED BY <2>2, <2>3 DEF canonical_loss_mask
<1> QED BY <1>1, <1>2

LEMMA AllowMeansAligned ==
  ASSUME NEW c, NEW stage, validate_envelope(c, stage).decision = "allow",
         HasGen(c), TypedGeneration(Gen(c))
  PROVE  Aligned(Gen(c))
<1> DEFINE g == Gen(c)
<1>1. \A r \in {"T001", "T005", "M001", "M004", "M005", "L004"} :
        ALL_RULES(c)[r] \notin {"raise", "reject", "quarantine"}
  BY Passed, IdentityRulesAlways DEF IDENTITY_STAGE_RULES
<1>2. /\ ALL_RULES(c)["T001"] = t001_artifact_hash_mismatch(c)
      /\ ALL_RULES(c)["T005"] = t005_span_out_of_range(c)
      /\ ALL_RULES(c)["M001"] = m001_mask_shape_mismatch(c)
      /\ ALL_RULES(c)["M004"] = m004_canonical_mask_mismatch(c)
      /\ ALL_RULES(c)["M005"] = m005_empty_completion(c)
      /\ ALL_RULES(c)["L004"] = l004_token_logprob_length_mismatch(c)
  BY DEF ALL_RULES
<1>3. /\ Readable(c, g.target_mask) /\ Readable(c, g.loss_mask) /\ Readable(c, g.tokens)
      /\ g.logprobs # None => Readable(c, g.logprobs)
  BY <1>1, <1>2 DEF t001_artifact_hash_mismatch, Reject
<1>4. Aligns(c) # "AlignmentError" BY <1>1, <1>2 DEF t005_span_out_of_range, Reject
<1>5. ~(completion_length(c) <= 0) BY <1>1, <1>2 DEF m005_empty_completion, Quarantine
<1>6. Aligns(c) = "Alignment" /\ g.completion_span[2] <= g.tokens.n
  BY <1>3, <1>4, <1>5 DEF Aligns, AlignmentResult, completion_length
<1>7. TargetDecodes(c) /\ LossDecodes(c)
  BY <1>1, <1>2, <1>3, <1>6 DEF m001_mask_shape_mismatch
<1>8. IsCanonical(g)
  BY <1>1, <1>2, <1>3, <1>6, <1>7 DEF m004_canonical_mask_mismatch, mask_violation, Reject
<1>9. ~padding_within_completion(g.completion_span, g.padding_spans)
  BY <1>1, <1>2, <1>6 DEF l004_token_logprob_length_mismatch
<1>10. g.logprobs # None => g.logprobs.n = completion_length(c)
  BY <1>1, <1>2, <1>3, <1>6, <1>7 DEF m001_mask_shape_mismatch, Reject
<1>11. completion_target_mask(g.completion_span, g.padding_spans) = Positions(g.completion_span)
  BY <1>9, NoPaddingSelected DEF TypedGeneration
<1>12. g.completion_span[1] >= 1 =>
         canonical_loss_mask(g.tokens.n, g.completion_span, g.padding_spans)
           = prediction_positions(g.completion_span)
  BY <1>6, <1>11, LossIsShifted DEF TypedGeneration
<1> QED BY <1>8, <1>10, <1>11, <1>12 DEF IsCanonical, Aligned, completion_length

----------------------------------------------------------------------------
(* What an allow says of the policy.                                       *)

LEMMA AllowMeansOnPolicy ==
  ASSUME NEW c, NEW stage, validate_envelope(c, stage).decision = "allow",
         HasGen(c), TypedGeneration(Gen(c)), None \notin DOMAIN c.events,
         c.env.contract.source \in Sources, c.env.contract.parent_version \in Int,
         c.env.contract.auth \in {c.env.gen, c.env.scoring},
         c.protocol.mode \in {"strict_on_policy", "bounded_off_policy"},
         c.protocol.max_lag \in Int,
         \A id \in DOMAIN c.events :
           c.events[id].type \in SYNC_TERMINAL_SUCCESS => c.events[id].seq \in Int
  PROVE  LET g == Gen(c)
             auth == c.events[c.env.contract.auth]
             p == c.protocol
         IN  /\ \/ auth = g /\ g.logprobs # None
                \/ /\ auth.type = "behavior_scoring_finished" /\ auth.source = c.env.gen
                   /\ auth.version = g.version /\ auth.checkpoint = g.checkpoint
                   /\ auth.tokens = g.tokens
             /\ g.checkpoint = c.manifest.checkpoint
             /\ g.tokenizer = c.manifest.tokenizer /\ g.template = c.manifest.template
             /\ c.events[g.sync].type \in SYNC_TERMINAL_SUCCESS
             /\ c.events[g.sync].seq <= g.seq
             /\ c.env.contract.parent_version - g.version
                  <= IF p.mode = "strict_on_policy" THEN 0 ELSE p.max_lag
<1> DEFINE g == Gen(c)
           auth == c.env.contract.auth
<1>1. \A r \in {"P001", "P002", "P003", "P004", "P005", "P007", "T002", "T003",
                "L002", "L003", "L006"} :
        ALL_RULES(c)[r] \notin {"raise", "reject", "quarantine"}
  BY Passed, IdentityRulesAlways DEF IDENTITY_STAGE_RULES
<1>2. /\ ALL_RULES(c)["P001"] = p001_missing_policy_manifest(c)
      /\ ALL_RULES(c)["P002"] = p002_checkpoint_hash_mismatch(c)
      /\ ALL_RULES(c)["P003"] = p003_missing_sync_event(c)
      /\ ALL_RULES(c)["P004"] = p004_stale_policy_strict(c)
      /\ ALL_RULES(c)["P005"] = p005_lag_exceeds_bound(c)
      /\ ALL_RULES(c)["P007"] = p007_event_order_invalid(c)
  BY DEF ALL_RULES
<1>3. /\ ALL_RULES(c)["T002"] = t002_tokenizer_mismatch(c)
      /\ ALL_RULES(c)["T003"] = t003_chat_template_mismatch(c)
      /\ ALL_RULES(c)["L002"] = l002_source_event_mismatch(c)
      /\ ALL_RULES(c)["L003"] = l003_scorer_policy_mismatch(c)
      /\ ALL_RULES(c)["L006"] = l006_unsupported_provenance(c)
  BY DEF ALL_RULES
<1>4. c.manifest # None BY <1>1, <1>2 DEF p001_missing_policy_manifest, Reject
<1>5. g.checkpoint = c.manifest.checkpoint
  BY <1>1, <1>2, <1>4 DEF p002_checkpoint_hash_mismatch, Reject
<1>6. g.tokenizer = c.manifest.tokenizer /\ g.template = c.manifest.template
  BY <1>1, <1>3, <1>4 DEF t002_tokenizer_mismatch, t003_chat_template_mismatch, Reject
<1>7. Event(c, g.sync) # None /\ c.events[g.sync].type \in SYNC_TERMINAL_SUCCESS
  BY <1>1, <1>2 DEF p003_missing_sync_event, Quarantine
<1>8. c.events[g.sync].seq <= g.seq
  <2>1. g.sync \in DOMAIN c.events BY <1>7 DEF Event
  <2>2. c.events[g.sync].seq \in Int /\ g.seq \in Int BY <1>7, <2>1 DEF TypedGeneration
  <2>3. ~(c.events[g.sync].seq > g.seq)
    BY <1>1, <1>2, <1>7 DEF p007_event_order_invalid, Reject
  <2> QED BY <2>2, <2>3
<1>9. c.env.contract.parent_version - g.version
        <= IF c.protocol.mode = "strict_on_policy" THEN 0 ELSE c.protocol.max_lag
  <2>1. c.env.contract.parent_version - g.version \in Int BY DEF TypedGeneration
  <2>2. CASE c.protocol.mode = "strict_on_policy"
    <3>1. ~(policy_lag(c) > 0) BY <1>1, <1>2, <2>2 DEF p004_stale_policy_strict, Reject
    <3> QED BY <2>1, <2>2, <3>1 DEF policy_lag
  <2>3. CASE c.protocol.mode = "bounded_off_policy"
    <3>1. ~(policy_lag(c) > c.protocol.max_lag)
      BY <1>1, <1>2, <2>3 DEF p005_lag_exceeds_bound, Reject
    <3> QED BY <2>1, <2>3, <3>1 DEF policy_lag
  <2> QED BY <2>2, <2>3
<1>10. Event(c, auth) # None
  BY <1>1, <1>3 DEF l002_source_event_mismatch, Reject
<1>11. auth \in DOMAIN c.events /\ auth # None BY <1>10 DEF Event
<1>12. g = c.events[c.env.gen] /\ g.type = "generation_finished"
  BY DEF HasGen, Gen, Typed
<1>13. CASE c.env.contract.source = "generation_service"
  <2>1. auth = c.env.gen /\ g.logprobs # None
    BY <1>1, <1>3, <1>13 DEF l002_source_event_mismatch, Reject
  <2> QED BY <1>5, <1>6, <1>7, <1>8, <1>9, <1>12, <2>1
<1>14. CASE c.env.contract.source = "exact_behavior_scorer"
  <2>1. c.events[auth].type = "behavior_scoring_finished"
    BY <1>1, <1>3, <1>11, <1>14 DEF l002_source_event_mismatch, Reject, Event
  <2>2. auth = c.env.scoring BY <1>12, <2>1
  <2>3. Scoring(c) = c.events[auth] BY <1>10, <1>11, <2>1, <2>2 DEF Scoring, Typed
  <2>4. Scoring(c) # None BY <1>10, <1>11, <2>3 DEF Event
  <2>5. /\ Scoring(c).version = g.version /\ Scoring(c).checkpoint = g.checkpoint
        /\ Scoring(c).tokens = g.tokens
    BY <1>1, <1>3, <2>4 DEF l003_scorer_policy_mismatch, Reject
  <2>6. Scoring(c).source = c.env.gen
    BY <1>1, <1>3, <2>4 DEF l006_unsupported_provenance, Quarantine
  <2> QED BY <1>5, <1>6, <1>7, <1>8, <1>9, <2>1, <2>3, <2>5, <2>6
<1> QED BY <1>13, <1>14 DEF Sources
----------------------------------------------------------------------------
(* The contexts of the pipeline.                                           *)

\* The names event ids are made of.
IdNames == {"gen", "score", "reward", "sync", "vdec", "other", "sync_requested",
            "sync_started", "runtime_loaded", "canary_passed"}

\* An event has what the rules above compute with, and fields that a change
\* of another field leaves alone.
TypedEvent(e) ==
  /\ {"type", "seq"} \subseteq DOMAIN e
  /\ e.seq \in Int \/ e.type \notin SYNC_TERMINAL_SUCCESS \cup {"generation_finished"}
  /\ e.type = "generation_finished" =>
       /\ {"version", "completion_span", "padding_spans", "tokens"} \subseteq DOMAIN e
       /\ "n" \in DOMAIN e.tokens
       /\ TypedGeneration(e)

TypedEvents(evs) ==
  /\ DOMAIN evs \subseteq Seq(IdNames)
  /\ \A id \in DOMAIN evs : TypedEvent(evs[id])

TypedContract(k) ==
  /\ {"parent_version", "source"} \subseteq DOMAIN k
  /\ k.parent_version \in Int /\ k.source \in Sources

TypedContext(c) ==
  /\ {"events", "env", "protocol"} \subseteq DOMAIN c
  /\ "contract" \in DOMAIN c.env
  /\ TypedEvents(c.events)
  /\ TypedContract(c.env.contract)
  /\ c.protocol \in Protocols

LEMMA MergeTyped ==
  ASSUME NEW f, NEW g, TypedEvents(f), TypedEvents(g)
  PROVE  TypedEvents(f @@ g)
BY DEF TypedEvents, @@

LEMMA SingleTyped ==
  ASSUME NEW id \in Seq(IdNames), NEW e, TypedEvent(e)
  PROVE  TypedEvents(id :> e)
BY DEF TypedEvents, :>

\* A new value for one event.
LEMMA ReplaceTyped ==
  ASSUME NEW evs, NEW id, NEW e, TypedEvents(evs), id \in DOMAIN evs => TypedEvent(e)
  PROVE  TypedEvents([evs EXCEPT ![id] = e])
BY DEF TypedEvents

\* Changes of the fields that are not computed with, and of those that are.
LEMMA OtherFieldTyped ==
  ASSUME NEW e, NEW f, NEW V, NEW x \in Field(e, f, V), TypedEvent(e),
         f \notin {"type", "seq", "version", "completion_span", "padding_spans", "tokens"}
  PROVE  TypedEvent(x)
<1>1. PICK v \in V : x = [e EXCEPT ![f] = v] BY DEF Field
<1>2. DOMAIN x = DOMAIN e BY <1>1
<1>3. \A h \in {"type", "seq", "version", "completion_span", "padding_spans", "tokens"} :
        h \in DOMAIN e => x[h] = e[h]
  BY <1>1
<1> QED BY <1>2, <1>3 DEF TypedEvent, TypedGeneration

LEMMA TypedFieldTyped ==
  ASSUME NEW e, NEW f, NEW V, NEW x \in Field(e, f, V), TypedEvent(e),
         \/ f \in {"seq", "version"} /\ V \subseteq Int
         \/ f = "completion_span" /\ V \subseteq Int \X Int
         \/ f = "padding_spans" /\ V \subseteq SUBSET (Int \X Int)
         \/ f = "tokens" /\ e.type # "generation_finished"
         \/ f = "tokens" /\ \A v \in V : "n" \in DOMAIN v /\ v.n \in Int
  PROVE  TypedEvent(x)
<1>1. PICK v \in V : x = [e EXCEPT ![f] = v] BY DEF Field
<1>2. DOMAIN x = DOMAIN e BY <1>1
<1>3. \A h \in {"type", "seq", "version", "completion_span", "padding_spans", "tokens"} :
        h \in DOMAIN e => x[h] = IF h = f THEN v ELSE e[h]
  BY <1>1
<1> QED BY <1>2, <1>3 DEF TypedEvent, TypedGeneration

LEMMA GenerationChange ==
  ASSUME NEW e, TypedEvent(e), e.type = "generation_finished", NEW x \in ChangedGeneration(e)
  PROVE  TypedEvent(x)
<1>1. "n" \in DOMAIN e.tokens /\ e.tokens.n \in Int BY DEF TypedEvent, TypedGeneration
<1>2. \A v \in {[e.tokens EXCEPT !.n = @ - 1], [e.tokens EXCEPT !.prompt = @ + 1]} :
        "n" \in DOMAIN v /\ v.n \in Int
  BY <1>1
<1>3. Spans \subseteq Int \X Int /\ {{s} : s \in Spans} \subseteq SUBSET (Int \X Int)
  BY PipelineConstants
<1>4. CASE x \in Field(e, "version", {0, 7}) \/ x \in Field(e, "seq", {0})
  BY <1>4, TypedFieldTyped
<1>5. CASE x \in Field(e, "completion_span", Spans) BY <1>3, <1>5, TypedFieldTyped
<1>6. CASE x \in Field(e, "padding_spans", {{s} : s \in Spans})
  BY <1>3, <1>6, TypedFieldTyped
<1>7. CASE x \in Field(e, "tokens", {[e.tokens EXCEPT !.n = @ - 1], [e.tokens EXCEPT !.prompt = @ + 1]})
  BY <1>2, <1>7, TypedFieldTyped
<1>8. CASE \E V : \E f \in {"checkpoint", "prompt_id", "sync", "tokenizer", "template",
                             "target_mask", "loss_mask", "logprobs"} : x \in Field(e, f, V)
  BY <1>8, OtherFieldTyped
<1> QED BY <1>4, <1>5, <1>6, <1>7, <1>8 DEF ChangedGeneration
LEMMA ScoringChange ==
  ASSUME NEW e, TypedEvent(e), NEW x \in ChangedScoring(e)
  PROVE  TypedEvent(x)
<1>1. CASE x \in Field(e, "version", {7}) \/ x \in Field(e, "seq", {999})
  BY <1>1, TypedFieldTyped
<1>2. CASE x \in Field(e, "tokens", {[e.tokens EXCEPT !.completion = "re-encoded"]})
  <2>1. CASE e.type # "generation_finished" BY <1>2, <2>1, TypedFieldTyped
  <2>2. CASE e.type = "generation_finished"
    <3>1. "n" \in DOMAIN e.tokens /\ e.tokens.n \in Int
      BY <2>2 DEF TypedEvent, TypedGeneration
    <3>2. \A v \in {[e.tokens EXCEPT !.completion = "re-encoded"]} :
            "n" \in DOMAIN v /\ v.n \in Int
      BY <3>1
    <3> QED BY <1>2, <3>2, TypedFieldTyped
  <2> QED BY <2>1, <2>2
<1>3. CASE \E V : \E f \in {"checkpoint", "source", "logprobs"} : x \in Field(e, f, V)
  BY <1>3, OtherFieldTyped
<1> QED BY <1>1, <1>2, <1>3 DEF ChangedScoring

LEMMA RewardChange ==
  ASSUME NEW e, TypedEvent(e), NEW x \in ChangedReward(e)
  PROVE  TypedEvent(x)
<1>1. \E V : \E f \in {"status", "protocol", "verifier"} : x \in Field(e, f, V)
  BY DEF ChangedReward
<1> QED BY <1>1, OtherFieldTyped

LEMMA ContractChange ==
  ASSUME NEW k, TypedContract(k), NEW x \in ChangedContract(k)
  PROVE  TypedContract(x)
<1>1. CASE x \in Field(k, "parent_version", {1, 2}) BY <1>1 DEF Field, TypedContract
<1>2. CASE \E V : \E f \in {"diagnostic", "protocol"} : x \in Field(k, f, V)
  BY <1>2 DEF Field, TypedContract
<1>3. CASE x \in {[k EXCEPT !.source = "exact_behavior_scorer", !.auth = a] :
                   a \in {scoring_id, stray_scoring_id}}
  BY <1>3 DEF TypedContract, Sources
<1> QED BY <1>1, <1>2, <1>3 DEF ChangedContract

\* The parts of a context that matter here.
LEMMA SameParts ==
  ASSUME NEW c, NEW d, TypedContext(c), {"events", "env", "protocol"} \subseteq DOMAIN d,
         d.protocol = c.protocol,
         "contract" \in DOMAIN d.env,
         d.env.contract = c.env.contract \/ TypedContract(d.env.contract),
         d.events = c.events \/ TypedEvents(d.events)
  PROVE  TypedContext(d)
BY DEF TypedContext

LEMMA FaultTyped ==
  ASSUME NEW c, TypedContext(c), HasGen(c), NEW d \in OneFieldChanged(c)
  PROVE  TypedContext(d)
<1> USE DEF TypedContext
<1>1. c.env.gen \in DOMAIN c.events /\ Gen(c) = c.events[c.env.gen]
      /\ Gen(c).type = "generation_finished"
  BY DEF HasGen, Gen, Typed, Event
<1>2. ASSUME NEW id, NEW e, id \in DOMAIN c.events => TypedEvent(e),
             d = [c EXCEPT !.events[id] = e]
      PROVE  TypedContext(d)
  <2>1. d.events = [c.events EXCEPT ![id] = e] BY <1>2
  <2>2. TypedEvents(d.events) BY <1>2, <2>1, ReplaceTyped
  <2>3. DOMAIN d = DOMAIN c /\ d.env = c.env /\ d.protocol = c.protocol BY <1>2
  <2> QED BY <2>2, <2>3
<1>3. ASSUME NEW f, NEW v, d = [c EXCEPT ![f] = v], f \notin {"events", "env", "protocol"}
      PROVE  TypedContext(d)
  <2>1. DOMAIN d = DOMAIN c /\ d.events = c.events /\ d.env = c.env /\ d.protocol = c.protocol
    BY <1>3
  <2> QED BY <2>1
<1>4. CASE d \in {[c EXCEPT !.events[c.env.gen] = g] : g \in ChangedGeneration(Gen(c))}
  <2>1. PICK g \in ChangedGeneration(Gen(c)) : d = [c EXCEPT !.events[c.env.gen] = g] BY <1>4
  <2>2. TypedEvent(g) BY <1>1, GenerationChange DEF TypedEvents
  <2> QED BY <1>2, <2>1, <2>2
<1>5. CASE d \in {[c EXCEPT !.events[scoring_id] = s] :
         s \in IF scoring_id \in DOMAIN c.events THEN ChangedScoring(c.events[scoring_id]) ELSE {}}
  <2>1. PICK s \in ChangedScoring(c.events[scoring_id]) :
          scoring_id \in DOMAIN c.events /\ d = [c EXCEPT !.events[scoring_id] = s]
    BY <1>5
  <2>2. TypedEvent(s) BY <2>1, ScoringChange DEF TypedEvents
  <2> QED BY <1>2, <2>1, <2>2
<1>6. CASE d \in {[c EXCEPT !.events[reward_id] = r] : r \in ChangedReward(c.events[reward_id])}
  <2>1. PICK r \in ChangedReward(c.events[reward_id]) : d = [c EXCEPT !.events[reward_id] = r]
    BY <1>6
  <2>2. reward_id \in DOMAIN c.events => TypedEvent(r) BY RewardChange DEF TypedEvents
  <2> QED BY <1>2, <2>1, <2>2
<1>7. CASE d \in {[c EXCEPT !.env.contract = k] : k \in ChangedContract(c.env.contract)}
  <2>1. PICK k \in ChangedContract(c.env.contract) : d = [c EXCEPT !.env.contract = k] BY <1>7
  <2>2. TypedContract(k) BY ContractChange
  <2>3. /\ DOMAIN d = DOMAIN c /\ d.events = c.events /\ d.protocol = c.protocol
        /\ d.env = [c.env EXCEPT !.contract = k]
    BY <2>1
  <2>4. DOMAIN d.env = DOMAIN c.env /\ d.env.contract = k BY <2>3
  <2> QED BY <2>2, <2>3, <2>4
<1>8. CASE \/ d \in {[c EXCEPT !.env.scoring = id] : id \in {None, stray_scoring_id}}
           \/ d \in {[c EXCEPT !.env.gen = <<"gen", "lost">>]}
  <2>1. DOMAIN d = DOMAIN c /\ d.events = c.events /\ d.protocol = c.protocol BY <1>8
  <2>2. DOMAIN d.env = DOMAIN c.env /\ d.env.contract = c.env.contract BY <1>8
  <2> QED BY <2>1, <2>2
<1>9. CASE d \in {[c EXCEPT !.corrupt = {a}] : a \in Artifacts(c)} BY <1>3, <1>9
<1>10. CASE d \in IF c.split = None THEN {} ELSE Attached(c)
  <2>1. \E V : \E f \in {"manifest", "canary", "split", "split_registry", "eval_protocol", "verifiers"} :
          d \in Field(c, f, V)
    BY <1>10 DEF Attached
  <2> QED BY <1>3, <2>1 DEF Field
<1>11. CASE \E v : d = [c EXCEPT !.update = v] BY <1>3, <1>11
<1> QED BY <1>4, <1>5, <1>6, <1>7, <1>8, <1>9, <1>10, <1>11 DEF OneFieldChanged
----------------------------------------------------------------------------
(* What the factory builds.                                                *)

LEMMA ChainTyped == TypedEvents(make_sync_chain(0))
<1> DEFINE Types == <<"sync_requested", "sync_started", "runtime_loaded", "canary_passed">>
<1>1. \A i \in 1..4 : Types[i] \in IdNames \ {"generation_finished"} BY DEF IdNames
<1>2. ASSUME NEW i \in 1..4
      PROVE  /\ Append(sync_id, Types[i]) \in Seq(IdNames)
             /\ Append(sync_id, Types[i])[2] = Types[i]
  <2>1. sync_id \in Seq(IdNames) /\ Len(sync_id) = 1 BY DEF sync_id, IdNames
  <2>2. Types[i] \in IdNames BY <1>1
  <2> HIDE DEF Types
  <2>3. /\ Append(sync_id, Types[i]) \in Seq(IdNames)
        /\ Append(sync_id, Types[i])[Len(sync_id) + 1] = Types[i]
    BY <2>1, <2>2, AppendProperties
  <2>4. Len(sync_id) + 1 = 2 BY <2>1
  <2> QED BY <2>3, <2>4
<1>3. DOMAIN make_sync_chain(0) = {Append(sync_id, Types[i]) : i \in 1..4}
  BY DEF make_sync_chain
<1>4. ASSUME NEW id \in DOMAIN make_sync_chain(0)
      PROVE  TypedEvent(make_sync_chain(0)[id])
  <2>1. PICK i \in 1..4 : id = Append(sync_id, Types[i]) BY <1>3
  <2>2. id[2] = Types[i] BY <1>2, <2>1
  <2> DEFINE m == CHOOSE j \in 1..4 : Types[j] = id[2]
  <2>3. m \in 1..4 BY <2>2
  <2>4. make_sync_chain(0)[id] = [type |-> id[2], seq |-> 0 + m - 1]
    BY <1>3 DEF make_sync_chain
  <2> HIDE DEF m
  <2>5. make_sync_chain(0)[id].seq \in Int BY <2>3, <2>4
  <2> HIDE DEF Types
  <2>6. id[2] # "generation_finished"
    <3>1. Types[i] \notin {"generation_finished"} BY <1>1
    <3> QED BY <2>2, <3>1
  <2> QED BY <2>4, <2>5, <2>6 DEF TypedEvent
<1>5. DOMAIN make_sync_chain(0) \subseteq Seq(IdNames) BY <1>2, <1>3
<1> QED BY <1>4, <1>5 DEF TypedEvents

TypedOptions(o) ==
  /\ o.n \in Int /\ o.span \in Int \X Int /\ o.pads \subseteq Int \X Int /\ o.version \in Int
  /\ o.source \in Sources

LEMMA GenerationTyped ==
  ASSUME NEW o, TypedOptions(o), NEW seq_num \in Int
  PROVE  TypedEvent(generation(o, seq_num))
BY DEF generation, sequence, TypedOptions, TypedEvent, TypedGeneration

LEMMA OtherEventsTyped ==
  ASSUME NEW n
  PROVE  /\ \A source : TypedEvent(reward(source, n))
         /\ \A source, v, tokens, lps : TypedEvent(make_scoring(source, n, v, tokens, lps))
         /\ \A decision : TypedEvent(validation_event(decision, n))
BY DEF reward, make_scoring, validation_event, TypedEvent, SYNC_TERMINAL_SUCCESS

LEMMA IdsAreSequences ==
  {gen_id, reward_id, scoring_id, stray_scoring_id, decision_id} \subseteq Seq(IdNames)
BY DEF gen_id, reward_id, scoring_id, stray_scoring_id, decision_id, IdNames

LEMMA BuiltTyped ==
  ASSUME NEW o, TypedOptions(o)
  PROVE  LET t == build_trajectory(o)
         IN  /\ {"events", "env", "protocol"} \subseteq DOMAIN t
             /\ "contract" \in DOMAIN t.env
             /\ TypedEvents(t.events)
             /\ TypedContract(t.env.contract)
<1> DEFINE t == build_trajectory(o)
           seq_num == 10 + 100 * o.version
           scored == o.source = "exact_behavior_scorer"
           scoring == make_scoring(gen_id, seq_num, o.version, sequence(o.n),
                                   behavior_logprobs(o.span[2] - o.span[1]))
           evs == make_sync_chain(0) @@ (gen_id :> generation(o, seq_num))
                    @@ (reward_id :> reward(gen_id, seq_num + IF scored THEN 2 ELSE 1))
                    @@ IF scored THEN scoring_id :> scoring ELSE <<>>
<1>1. t.events = evs BY DEF build_trajectory
<1>2. {"events", "env", "protocol"} \subseteq DOMAIN t /\ "contract" \in DOMAIN t.env
      /\ t.env.contract = build_contract(o)
  BY DEF build_trajectory
<1>3. TypedContract(build_contract(o)) BY DEF build_contract, TypedContract, TypedOptions, Sources
<1>4. seq_num \in Int BY DEF TypedOptions
<1>5. TypedEvents(gen_id :> generation(o, seq_num))
  BY <1>4, GenerationTyped, SingleTyped, IdsAreSequences
<1>6. TypedEvents(reward_id :> reward(gen_id, seq_num + IF scored THEN 2 ELSE 1))
  BY OtherEventsTyped, SingleTyped, IdsAreSequences
<1>7. TypedEvents(scoring_id :> scoring) BY OtherEventsTyped, SingleTyped, IdsAreSequences
<1>8. TypedEvents(<<>>) BY DEF TypedEvents
<1>9. TypedEvents(evs)
  <2>1. TypedEvents(IF scored THEN scoring_id :> scoring ELSE <<>>) BY <1>7, <1>8
  <2> HIDE DEF scored, scoring, seq_num
  <2>2. TypedEvents(make_sync_chain(0) @@ (gen_id :> generation(o, seq_num)))
    BY <1>5, ChainTyped, MergeTyped
  <2>3. TypedEvents(make_sync_chain(0) @@ (gen_id :> generation(o, seq_num))
                      @@ (reward_id :> reward(gen_id, seq_num + IF scored THEN 2 ELSE 1)))
    BY <1>6, <2>2, MergeTyped
  <2> QED BY <2>1, <2>3, MergeTyped
<1> HIDE DEF t, evs
<1> QED BY <1>1, <1>2, <1>3, <1>9 DEF t

----------------------------------------------------------------------------
(* The invariant.                                                          *)

\* The last verdict is validate_envelope's of what was judged.
Judged ==
  verdict # None =>
    /\ TypedContext(judged)
    /\ verdict.stage \in Stages
    /\ verdict.decision = validate_envelope(judged, verdict.stage).decision
    /\ verdict.codes = validate_envelope(judged, verdict.stage).codes

PipelineInv == TypedContext(ctx) /\ Judged

LEMMA InitTyped == Init => PipelineInv
<1> SUFFICES ASSUME Init PROVE PipelineInv OBVIOUS
<1>1. PICK layout \in Layouts, p \in Protocols, s \in Sources :
        ctx = Trajectory(Options(layout, p, s), p)
  BY DEF Init
<1>10. PICK o : o = Options(layout, p, s) OBVIOUS
<1> DEFINE t == build_trajectory(o)
           stray == make_scoring(<<"gen", "other">>, 20, 1, sequence(o.n), behavior_logprobs(o.n))
<1>2. layout.n \in Int /\ layout.span \in Int \X Int /\ layout.pads \subseteq Int \X Int
  BY PipelineConstants
<1>3. TypedOptions(o) BY <1>2, <1>10 DEF TypedOptions, Options, default_options
<1>4. /\ {"events", "env", "protocol"} \subseteq DOMAIN t
      /\ "contract" \in DOMAIN t.env /\ TypedEvents(t.events) /\ TypedContract(t.env.contract)
  BY <1>3, BuiltTyped
<1>5. TypedEvents(stray_scoring_id :> stray)
  BY OtherEventsTyped, SingleTyped, IdsAreSequences
<1>6. ctx = [t EXCEPT !.protocol = p, !.events = stray_scoring_id :> stray @@ @]
  BY <1>1, <1>10 DEF Trajectory
<1> HIDE DEF t, stray
<1>7. /\ DOMAIN ctx = DOMAIN t /\ ctx.protocol = p /\ ctx.env = t.env
      /\ ctx.events = (stray_scoring_id :> stray @@ t.events)
  BY <1>4, <1>6
<1>8. TypedEvents(ctx.events) BY <1>4, <1>5, <1>7, MergeTyped
<1>9. TypedContext(ctx) BY <1>4, <1>7, <1>8 DEF TypedContext
<1> QED BY <1>9 DEF Init, PipelineInv, Judged

LEMMA ValidateJudges ==
  ASSUME NEW stage \in Stages, TypedContext(ctx), Validate(stage)
  PROVE  Judged'
<1> DEFINE v == validate_envelope(ctx, stage)
<1>1. DOMAIN v = {"decision", "codes"} BY DEF validate_envelope
<1>2. verdict' = v @@ [stage |-> stage] /\ judged' = ctx BY DEF Validate
<1> HIDE DEF v
<1>3. verdict'.decision = v.decision /\ verdict'.codes = v.codes /\ verdict'.stage = stage
  BY <1>1, <1>2 DEF @@
<1> QED BY <1>2, <1>3 DEF Judged, v

LEMMA NextTyped == PipelineInv /\ [Next]_vars => PipelineInv'
<1> SUFFICES ASSUME PipelineInv, [Next]_vars PROVE PipelineInv' OBVIOUS
<1> USE DEF PipelineInv
<1>1. CASE UNCHANGED vars BY <1>1 DEF vars, Judged
<1>2. CASE ValidateIdentity
  <2>1. Judged' BY <1>2, ValidateJudges DEF ValidateIdentity, Stages
  <2>2. CASE ctx' = ctx BY <2>1, <2>2
  <2>3. CASE ctx' = [ctx EXCEPT !.events =
                      decision_id :> validation_event(verdict'.decision, next_seq(ctx)) @@ @]
    <3>1. TypedEvents(decision_id :> validation_event(verdict'.decision, next_seq(ctx)))
      BY OtherEventsTyped, SingleTyped, IdsAreSequences
    <3>2. TypedEvents(decision_id :> validation_event(verdict'.decision, next_seq(ctx)) @@ ctx.events)
      BY <3>1, MergeTyped DEF TypedContext
    <3>3. /\ DOMAIN ctx' = DOMAIN ctx /\ ctx'.env = ctx.env /\ ctx'.protocol = ctx.protocol
          /\ ctx'.events =
               (decision_id :> validation_event(verdict'.decision, next_seq(ctx)) @@ ctx.events)
      BY <2>3 DEF TypedContext
    <3>4. TypedContext(ctx') BY <3>2, <3>3 DEF TypedContext
    <3> QED BY <2>1, <3>4
  <2> QED BY <1>2, <2>2, <2>3 DEF ValidateIdentity
<1>3. CASE PreUpdateEnvelope
  <2>1. /\ DOMAIN ctx' = DOMAIN ctx /\ ctx'.events = ctx.events /\ ctx'.protocol = ctx.protocol
        /\ DOMAIN ctx'.env = DOMAIN ctx.env /\ ctx'.env.contract = ctx.env.contract
    BY <1>3 DEF PreUpdateEnvelope, TypedContext
  <2>2. TypedContext(ctx') BY <2>1 DEF TypedContext
  <2> QED BY <1>3, <2>2 DEF PreUpdateEnvelope, Judged
<1>4. CASE Materialize
  <2>1. /\ DOMAIN ctx' = DOMAIN ctx /\ ctx'.events = ctx.events /\ ctx'.protocol = ctx.protocol
        /\ ctx'.env = ctx.env
    BY <1>4 DEF Materialize, TypedContext
  <2>2. TypedContext(ctx') BY <2>1 DEF TypedContext
  <2> QED BY <1>4, <2>2 DEF Materialize, Judged
<1>5. CASE ValidateFull
  <2>1. Judged' BY <1>5, ValidateJudges DEF ValidateFull, Stages
  <2> QED BY <1>5, <2>1 DEF ValidateFull
<1>6. CASE Fault
  <2>1. TypedContext(ctx') BY <1>6, FaultTyped DEF Fault
  <2> QED BY <1>6, <2>1 DEF Fault, Judged
<1> QED BY <1>1, <1>2, <1>3, <1>4, <1>5, <1>6 DEF Next

LEMMA AlwaysTyped == Spec => []PipelineInv
BY InitTyped, NextTyped, PTL DEF Spec

----------------------------------------------------------------------------
(* Trajectories nobody changed.                                            *)

ByScorer(o) == o.source = "exact_behavior_scorer"

CompletionLogprobs(o) == behavior_logprobs(o.span[2] - o.span[1])

ScorerEvent(o) == make_scoring(gen_id, 10, 0, sequence(o.n), CompletionLogprobs(o))

HonestOptions(o) ==
  /\ o.n \in Int /\ o.span \in Int \X Int /\ o.pads \subseteq Int \X Int
  /\ o.source \in Sources /\ o.version = 0 /\ o.diagnostic = FALSE

\* The event with the greatest lifecycle_seq: next_seq counts on from it.
HasLatest(c) ==
  /\ \A id \in DOMAIN c.events : c.events[id].seq \in Int
  /\ \E id \in DOMAIN c.events : \A j \in DOMAIN c.events : c.events[j].seq <= c.events[id].seq

\* What a fault would change.
HonestEvents(c, o) ==
  /\ {gen_id, reward_id, canary_ref} \subseteq DOMAIN c.events
  /\ c.events[gen_id] = generation(o, 10)
  /\ c.events[canary_ref] = [type |-> "canary_passed", seq |-> 3]
  /\ \E n \in Int : c.events[reward_id] = reward(gen_id, n)
  /\ ByScorer(o) => scoring_id \in DOMAIN c.events /\ c.events[scoring_id] = ScorerEvent(o)
  /\ HasLatest(c)

HonestParts(c, o) ==
  /\ c.manifest = make_policy_manifest(0)
  /\ c.split = make_split_manifest("train", {"countdown-0001"})
  /\ c.protocol \in Protocols /\ c.protocol.mode = o.protocol
  /\ c.corrupt = {} /\ c.canary = None /\ c.split_registry = None /\ c.eval_protocol = None
  /\ c.verifiers = None
  /\ c.env.gen = gen_id /\ c.env.contract = build_contract(o)
  /\ c.env.scoring = IF ByScorer(o) THEN scoring_id ELSE None

\* What HonestAllowed says of a context.
Outcome(o, p, stage) ==
  IF Supported(o) /\ Admits(p) THEN "allow"
  ELSE IF \/ stage = "full_pre_update" \/ ~Admits(p)
          \/ AlignmentResult(o.n, o.span, o.pads) = "AlignmentError"
    THEN "reject" ELSE "quarantine"

\* The envelope of the first stage, and that of the second, which names the
\* decision of the first.
HonestStages(c, o) ==
  /\ decision_id \in DOMAIN c.events =>
       /\ c.events[decision_id].type = "validation_decision"
       /\ c.events[decision_id].decision = Outcome(o, c.protocol, "identity_pre_reward")
       /\ c.events[decision_id] # None
  /\ \/ c.env.stage = "pre_reward" /\ c.env.reward = None /\ c.update = None
     \/ /\ c.env.stage = "pre_update" /\ c.env.reward = reward_id
        /\ c.env.parent = decision_id /\ decision_id \in DOMAIN c.events
        /\ c.update # None =>
             /\ c.update.tokens = sequence(o.n) /\ c.update.auth = c.env.contract.auth
             /\ \A id \in DOMAIN c.events : c.update.seq > c.events[id].seq
             /\ c.update.seq \in Int

\* None of them is None.
Distinct(o) ==
  /\ None \notin {"mismatch", "countdown-protocol"} /\ None \notin Seq(IdNames)
  /\ None \notin [n : Int, dtype : {"bf16"}]
  /\ None \notin {make_policy_manifest(0), make_split_manifest("train", {"countdown-0001"}),
                  generation(o, 10), [type |-> "canary_passed", seq |-> 3]}
  /\ ByScorer(o) => None # ScorerEvent(o)

Honest(c, o) ==
  /\ HonestOptions(o) /\ Distinct(o)
  /\ HonestParts(c, o) /\ HonestEvents(c, o) /\ HonestStages(c, o)

LEMMA HonestReads ==
  ASSUME NEW c, NEW o, Honest(c, o)
  PROVE  /\ HasGen(c) /\ Gen(c) = generation(o, 10)
         /\ Event(c, canary_ref) = [type |-> "canary_passed", seq |-> 3]
         /\ Event(c, canary_ref) # None
         /\ c.manifest # None /\ c.split # None
         /\ ByScorer(o) => Scoring(c) = ScorerEvent(o) /\ Scoring(c) # None
                         /\ Event(c, scoring_id) = ScorerEvent(o)
         /\ ~ByScorer(o) => Scoring(c) = None /\ Gen(c).logprobs # None
                         /\ Event(c, gen_id) = generation(o, 10)
         /\ Reward(c) # None => \E n \in Int : Reward(c) = reward(gen_id, n)
         /\ {gen_id, scoring_id, reward_id, decision_id} \subseteq Seq(IdNames)
<1> USE DEF Honest, HonestParts, HonestEvents, Distinct
<1>1. {gen_id, scoring_id, reward_id, decision_id} \subseteq Seq(IdNames) BY IdsAreSequences
<1>2. Event(c, gen_id) = generation(o, 10) /\ generation(o, 10) # None BY DEF Event
<1>3. generation(o, 10).type = "generation_finished" BY DEF generation
<1>4. Gen(c) = generation(o, 10) BY <1>1, <1>2, <1>3 DEF Gen, Typed
<1>5. Event(c, canary_ref) = [type |-> "canary_passed", seq |-> 3] /\ Event(c, canary_ref) # None
  BY DEF Event
<1>6. CASE ByScorer(o)
  <2>1. Event(c, scoring_id) = ScorerEvent(o) /\ ScorerEvent(o) # None /\ c.env.scoring = scoring_id
    BY <1>6 DEF Event
  <2>2. ScorerEvent(o).type = "behavior_scoring_finished" BY DEF ScorerEvent, make_scoring
  <2>3. Scoring(c) = ScorerEvent(o) BY <1>1, <1>6, <2>1, <2>2 DEF Scoring, Typed
  <2>4. Reward(c) # None => \E n \in Int : Reward(c) = reward(gen_id, n)
    BY DEF Reward, Typed, Event, HonestStages
  <2> QED BY <1>1, <1>2, <1>4, <1>5, <1>6, <2>1, <2>3, <2>4 DEF HasGen
<1>7. CASE ~ByScorer(o)
  <2>1. Scoring(c) = None BY <1>7 DEF Scoring, Typed
  <2>2. generation(o, 10).logprobs = CompletionLogprobs(o)
    BY <1>7 DEF generation, CompletionLogprobs, ByScorer, HonestOptions, Sources
  <2>3. CompletionLogprobs(o) \in [n : Int, dtype : {"bf16"}]
    <3>1. PICK n \in Int : n = o.span[2] - o.span[1] BY DEF HonestOptions
    <3> QED BY <3>1 DEF CompletionLogprobs, behavior_logprobs
  <2>4. Reward(c) # None => \E n \in Int : Reward(c) = reward(gen_id, n)
    BY DEF Reward, Typed, Event, HonestStages
  <2> QED BY <1>1, <1>2, <1>4, <1>5, <1>7, <2>1, <2>2, <2>3, <2>4 DEF HasGen
<1> QED BY <1>6, <1>7

----------------------------------------------------------------------------
(* The rules, one by one.                                                  *)

LEMMA HonestPolicyRules ==
  ASSUME NEW c, NEW o, Honest(c, o)
  PROVE  /\ p001_missing_policy_manifest(c) = "pass" /\ p002_checkpoint_hash_mismatch(c) = "pass"
         /\ p003_missing_sync_event(c) = "pass" /\ p004_stale_policy_strict(c) = "pass"
         /\ p007_event_order_invalid(c) = "pass" /\ p008_canary_mismatch(c) = "pass"
         /\ p009_contract_protocol_mismatch(c) = "pass"
         /\ p005_lag_exceeds_bound(c) \in {"pass", "reject"}
         /\ p006_correction_undeclared(c) \in {"pass", "reject"}
         /\ Admits(c.protocol) <=>
              p005_lag_exceeds_bound(c) = "pass" /\ p006_correction_undeclared(c) = "pass"
<1> USE HonestReads DEF Reject, Quarantine
<1> DEFINE g == Gen(c)
<1>1. /\ g.version = 0 /\ g.checkpoint = 0 /\ g.sync = canary_ref /\ g.seq = 10
      /\ g.tokenizer = "tokenizer" /\ g.template = "template"
  <2>1. o.version = 0 BY DEF Honest, HonestOptions
  <2> QED BY <2>1 DEF generation, make_policy_manifest
<1>2. c.manifest.checkpoint = 0 BY DEF Honest, HonestParts, make_policy_manifest
<1>3. c.env.contract.parent_version = 0 /\ c.env.contract.protocol = c.protocol.mode
  BY DEF Honest, HonestParts, HonestOptions, build_contract
<1>4. policy_lag(c) = 0 BY <1>1, <1>3 DEF policy_lag
<1>5. c.events[canary_ref] = [type |-> "canary_passed", seq |-> 3]
  BY DEF Honest, HonestEvents
<1>6. c.protocol.max_lag \in Int BY PipelineConstants DEF Honest, HonestParts
<1>7. c.update # None => c.update.seq > 10
  BY <1>1 DEF Honest, HonestStages, HonestEvents
<1>8. c.canary = None /\ None # "mismatch" BY DEF Honest, HonestParts, Distinct
<1> HIDE DEF g
<1>9. p001_missing_policy_manifest(c) = "pass" BY DEF p001_missing_policy_manifest
<1>10. p002_checkpoint_hash_mismatch(c) = "pass"
  BY <1>1, <1>2 DEF p002_checkpoint_hash_mismatch, g
<1>11. p003_missing_sync_event(c) = "pass"
  BY <1>1, <1>5 DEF p003_missing_sync_event, g, SYNC_TERMINAL_SUCCESS
<1>12. p004_stale_policy_strict(c) = "pass" BY <1>4 DEF p004_stale_policy_strict
<1>13. p007_event_order_invalid(c) = "pass"
  <2>1. ~(c.update # None /\ c.update.seq < Gen(c).seq)
    BY <1>1, <1>7 DEF g, Honest, HonestStages
  <2> QED BY <1>1, <1>5, <2>1 DEF p007_event_order_invalid, g
<1>14. p008_canary_mismatch(c) = "pass" BY <1>8 DEF p008_canary_mismatch
<1>15. p009_contract_protocol_mismatch(c) = "pass" BY <1>3 DEF p009_contract_protocol_mismatch
<1>16. /\ p005_lag_exceeds_bound(c) \in {"pass", "reject"}
       /\ p006_correction_undeclared(c) \in {"pass", "reject"}
       /\ Admits(c.protocol) <=>
              p005_lag_exceeds_bound(c) = "pass" /\ p006_correction_undeclared(c) = "pass"
  BY <1>4, <1>6 DEF p005_lag_exceeds_bound, p006_correction_undeclared, Admits
<1> QED BY <1>9, <1>10, <1>11, <1>12, <1>13, <1>14, <1>15, <1>16

\* How the layout aligns.
LEMMA HonestAligns ==
  ASSUME NEW c, NEW o, Honest(c, o)
  PROVE  /\ Aligns(c) = AlignmentResult(o.n, o.span, o.pads)
         /\ Aligns(c) \in {"Alignment", "EmptyCompletionError", "AlignmentError"}
         /\ Aligns(c) = "EmptyCompletionError" => completion_length(c) = 0
         /\ Aligns(c) = "Alignment" => completion_length(c) > 0
         /\ completion_length(c) = CompletionLogprobs(o).n
         /\ \A a : Readable(c, a)
<1>1. /\ Gen(c).tokens.n = o.n /\ Gen(c).completion_span = o.span /\ Gen(c).padding_spans = o.pads
  BY HonestReads DEF generation, sequence
<1>2. \A a : Readable(c, a) BY DEF Readable, Honest, HonestParts
<1>3. o.span[1] \in Int /\ o.span[2] \in Int BY DEF Honest, HonestOptions
<1>4. AlignmentResult(o.n, o.span, o.pads) = "EmptyCompletionError" => o.span[2] - o.span[1] = 0
  BY <1>3 DEF AlignmentResult
<1>5. AlignmentResult(o.n, o.span, o.pads) = "Alignment" => o.span[2] - o.span[1] > 0
  BY <1>3 DEF AlignmentResult
<1>6. Aligns(c) = AlignmentResult(o.n, o.span, o.pads) BY <1>1, <1>2 DEF Aligns
<1>7. AlignmentResult(o.n, o.span, o.pads) \in {"Alignment", "EmptyCompletionError", "AlignmentError"}
  BY DEF AlignmentResult
<1> QED BY <1>1, <1>2, <1>4, <1>5, <1>6, <1>7 DEF completion_length, CompletionLogprobs, behavior_logprobs

\* The producer's masks lie inside the sequence, so a slice keeps all of them.
LEMMA MasksInside ==
  ASSUME NEW n \in Int, NEW span \in Int \X Int, NEW pads,
         AlignmentResult(n, span, pads) = "Alignment"
  PROVE  /\ completion_target_mask(span, pads) \cap (0..(n - 1)) = completion_target_mask(span, pads)
         /\ canonical_loss_mask(n, span, pads) \cap (0..(n - 1 - 1)) = canonical_loss_mask(n, span, pads)
<1>1. 0 <= span[1] /\ span[2] <= n BY DEF AlignmentResult
<1>2. Positions(span) \subseteq 0..(n - 1) BY <1>1 DEF Positions
<1>3. completion_target_mask(span, pads) \subseteq Positions(span) BY DEF completion_target_mask
<1>4. canonical_loss_mask(n, span, pads) \subseteq 0..(n - 2) BY DEF canonical_loss_mask
<1>5. n - 1 - 1 = n - 2 OBVIOUS
<1> QED BY <1>2, <1>3, <1>4, <1>5

LEMMA HonestMaskRules ==
  ASSUME NEW c, NEW o, Honest(c, o)
  PROVE  /\ m002_prompt_selected(c) = "pass" /\ m003_padding_selected(c) = "pass"
         /\ m004_canonical_mask_mismatch(c) = "pass"
         /\ m001_mask_shape_mismatch(c) = IF Aligns(c) = "AlignmentError" THEN "reject" ELSE "pass"
         /\ m005_empty_completion(c) \in {"pass", "quarantine"}
         /\ Aligns(c) = "EmptyCompletionError" => m005_empty_completion(c) = "quarantine"
         /\ Aligns(c) = "Alignment" => m005_empty_completion(c) = "pass"
<1> USE HonestAligns DEF Reject, Quarantine
<1> DEFINE g == Gen(c)
<1>1. /\ g.tokens.n = o.n /\ g.completion_span = o.span /\ g.padding_spans = o.pads
      /\ g.target_mask = mask(o.n, completion_target_mask(o.span, o.pads))
      /\ g.loss_mask = mask(o.n - 1, canonical_loss_mask(o.n, o.span, o.pads))
      /\ g.logprobs = IF o.source = "generation_service" THEN CompletionLogprobs(o) ELSE None
  BY HonestReads DEF generation, sequence, CompletionLogprobs
<1>2. TargetDecodes(c) /\ LossDecodes(c) BY <1>1 DEF TargetDecodes, LossDecodes, Decodes, mask
<1>3. Aligns(c) = "Alignment" =>
        /\ g.target_mask.sel = completion_target_mask(o.span, o.pads)
        /\ g.loss_mask.sel = canonical_loss_mask(o.n, o.span, o.pads)
  <2>1. o.n \in Int /\ o.span \in Int \X Int BY DEF Honest, HonestOptions
  <2>2. CASE Aligns(c) = "Alignment"
    <3>1. AlignmentResult(o.n, o.span, o.pads) = "Alignment" BY <2>2
    <3> HIDE DEF g
    <3> QED BY <1>1, <2>1, <3>1, MasksInside DEF mask
  <2> QED BY <2>2
<1>4. HasGen(c) BY HonestReads
<1> HIDE DEF g
<1>5. m005_empty_completion(c) \in {"pass", "quarantine"}
      /\ (Aligns(c) = "EmptyCompletionError" => m005_empty_completion(c) = "quarantine")
      /\ (Aligns(c) = "Alignment" => m005_empty_completion(c) = "pass")
  <2>1. PICK n \in Int : n = o.span[2] - o.span[1] BY DEF Honest, HonestOptions
  <2>2. completion_length(c) \in Int BY <2>1 DEF CompletionLogprobs, behavior_logprobs
  <2> QED BY <1>4, <2>2 DEF m005_empty_completion
<1>6. m001_mask_shape_mismatch(c) = IF Aligns(c) = "AlignmentError" THEN "reject" ELSE "pass"
  BY <1>1, <1>2, <1>4 DEF m001_mask_shape_mismatch, g
<1>7. m002_prompt_selected(c) = "pass"
  <2>1. Aligns(c) = "Alignment" => ~\E i \in Gen(c).target_mask.sel : i < Gen(c).completion_span[1]
    <3>1. o.span[1] \in Int BY DEF Honest, HonestOptions
    <3> QED BY <1>1, <1>3, <3>1 DEF g, completion_target_mask, Positions
  <2> QED BY <1>2, <2>1 DEF m002_prompt_selected, mask_violation
<1>8. m003_padding_selected(c) = "pass"
  <2>1. Aligns(c) = "Alignment" => Gen(c).target_mask.sel \cap Padding(Gen(c).padding_spans) = {}
    BY <1>1, <1>3 DEF g, completion_target_mask
  <2> QED BY <1>2, <2>1 DEF m003_padding_selected, mask_violation
<1>9. m004_canonical_mask_mismatch(c) = "pass"
  <2>1. Aligns(c) = "Alignment" => IsCanonical(Gen(c)) BY <1>1, <1>3 DEF g, IsCanonical
  <2> QED BY <1>2, <2>1 DEF m004_canonical_mask_mismatch, mask_violation
<1> QED BY <1>5, <1>6, <1>7, <1>8, <1>9

LEMMA HonestTokenRules ==
  ASSUME NEW c, NEW o, Honest(c, o)
  PROVE  /\ t001_artifact_hash_mismatch(c) = "pass" /\ t002_tokenizer_mismatch(c) = "pass"
         /\ t003_chat_template_mismatch(c) = "pass" /\ t004_token_sequence_mismatch(c) = "pass"
         /\ t005_span_out_of_range(c) = IF Aligns(c) = "AlignmentError" THEN "reject" ELSE "pass"
<1> USE HonestReads, HonestAligns DEF Reject
<1> DEFINE g == Gen(c)
<1>1. g.tokens = sequence(o.n) /\ g.tokenizer = "tokenizer" /\ g.template = "template"
  BY DEF generation
<1>2. c.manifest.tokenizer = "tokenizer" /\ c.manifest.template = "template"
  BY DEF Honest, HonestParts, make_policy_manifest
<1>3. c.update # None => c.update.tokens = sequence(o.n) BY DEF Honest, HonestStages
<1> QED BY <1>1, <1>2, <1>3
        DEF t001_artifact_hash_mismatch, t002_tokenizer_mismatch, t003_chat_template_mismatch,
            t004_token_sequence_mismatch, t005_span_out_of_range

LEMMA HonestLogprobRules ==
  ASSUME NEW c, NEW o, Honest(c, o)
  PROVE  /\ l001_missing_behavior_logprob(c) = "pass" /\ l002_source_event_mismatch(c) = "pass"
         /\ l003_scorer_policy_mismatch(c) = "pass" /\ l005_scoring_after_update(c) = "pass"
         /\ l006_unsupported_provenance(c) = "pass"
         /\ l007_authoritative_source_ambiguous(c) = "pass"
         /\ l008_nonauthoritative_logprob_consumed(c) = "pass"
         /\ l004_token_logprob_length_mismatch(c) =
              IF Aligns(c) = "Alignment" /\ padding_within_completion(o.span, o.pads)
                THEN "quarantine" ELSE "pass"
<1> USE HonestReads, HonestAligns DEF Reject, Quarantine
<1> DEFINE g == Gen(c)
           s == Scoring(c)
<1>1. /\ g.version = 0 /\ g.checkpoint = 0 /\ g.tokens = sequence(o.n)
      /\ g.completion_span = o.span /\ g.padding_spans = o.pads
      /\ g.logprobs = IF ~ByScorer(o) THEN CompletionLogprobs(o) ELSE None
      /\ g.type = "generation_finished"
  <2>1. o.version = 0 /\ o.source \in Sources BY DEF Honest, HonestOptions
  <2> QED BY <2>1 DEF generation, make_policy_manifest, CompletionLogprobs, ByScorer, Sources
<1>2. s # None => /\ s.version = 0 /\ s.checkpoint = 0 /\ s.tokens = sequence(o.n)
                  /\ s.source = gen_id /\ s.logprobs = CompletionLogprobs(o) /\ ByScorer(o)
                  /\ s.type = "behavior_scoring_finished"
  BY DEF ScorerEvent, make_scoring, make_policy_manifest
<1>3. c.env.gen = gen_id BY DEF Honest, HonestParts
<1>4. c.env.contract.source = o.source
      /\ c.env.contract.auth = IF ByScorer(o) THEN scoring_id ELSE gen_id
  BY DEF Honest, HonestParts, HonestOptions, Sources, build_contract, ByScorer
<1>5. s # None /\ c.update # None => ~(s.seq > c.update.seq)
  <2> SUFFICES ASSUME s # None, c.update # None PROVE ~(s.seq > c.update.seq) OBVIOUS
  <2>1. scoring_id \in DOMAIN c.events /\ c.events[scoring_id] = s
    BY <1>2 DEF Honest, HonestEvents
  <2>2. c.update.seq > s.seq /\ c.update.seq \in Int BY <2>1 DEF Honest, HonestStages
  <2>3. s.seq \in Int BY <2>1 DEF Honest, HonestEvents, HasLatest
  <2> QED BY <2>2, <2>3
<1>6. c.update # None => c.update.auth = c.env.contract.auth BY DEF Honest, HonestStages
<1>7. o.source = IF ByScorer(o) THEN "exact_behavior_scorer" ELSE "generation_service"
  BY DEF Honest, HonestOptions, Sources, ByScorer
<1> HIDE DEF g, s
<1>8. l001_missing_behavior_logprob(c) = "pass" BY <1>1 DEF l001_missing_behavior_logprob, g
<1>9. l002_source_event_mismatch(c) = "pass"
  <2>1. CASE ByScorer(o)
    <3>1. Event(c, scoring_id) # None /\ Event(c, scoring_id).type = "behavior_scoring_finished"
      BY <1>2, <2>1 DEF s
    <3> QED BY <1>4, <1>7, <2>1, <3>1 DEF l002_source_event_mismatch
  <2>2. CASE ~ByScorer(o)
    <3>1. Event(c, gen_id) # None /\ Event(c, gen_id).type = "generation_finished"
      BY <1>1, <2>2 DEF g, HasGen
    <3>2. Gen(c).logprobs # None BY <2>2
    <3> QED BY <1>3, <1>4, <1>7, <2>2, <3>1, <3>2 DEF l002_source_event_mismatch
  <2> QED BY <2>1, <2>2
<1>10. l003_scorer_policy_mismatch(c) = "pass"
  BY <1>1, <1>2 DEF l003_scorer_policy_mismatch, g, s
<1>11. l005_scoring_after_update(c) = "pass" BY <1>5 DEF l005_scoring_after_update, s
<1>12. l006_unsupported_provenance(c) = "pass"
  BY <1>2, <1>3 DEF l006_unsupported_provenance, s
<1>13. l007_authoritative_source_ambiguous(c) = "pass"
  BY <1>1, <1>2 DEF l007_authoritative_source_ambiguous, g, s
<1>14. l008_nonauthoritative_logprob_consumed(c) = "pass"
  BY <1>6 DEF l008_nonauthoritative_logprob_consumed
<1>15. l004_token_logprob_length_mismatch(c) =
              IF Aligns(c) = "Alignment" /\ padding_within_completion(o.span, o.pads)
                THEN "quarantine" ELSE "pass"
  BY <1>1, <1>2 DEF l004_token_logprob_length_mismatch, g, s
<1> QED BY <1>8, <1>9, <1>10, <1>11, <1>12, <1>13, <1>14, <1>15

\* Of the second stage only the parent decision can stop a trajectory.
LEMMA HonestDataRules ==
  ASSUME NEW c, NEW o, Honest(c, o)
  PROVE  /\ d001_split_manifest_missing(c) = "pass" /\ d002_prompt_not_in_declared_split(c) = "pass"
         /\ d003_split_overlap(c) = "pass" /\ d004_prompt_content_mismatch(c) = "pass"
         /\ r001_reward_protocol_missing(c) = "pass" /\ r002_infra_error_as_task_fail(c) = "pass"
         /\ r003_reward_missing_pre_update(c) = "pass"
         /\ r004_reward_present_pre_reward(c) = "pass"
         /\ r006_evaluator_alias(c) = "pass" /\ r008_reward_verifier_unregistered(c) = "pass"
         /\ c.env.stage = "pre_update" =>
              r005_parent_identity_not_allowed(c) =
                IF Outcome(o, c.protocol, "identity_pre_reward") = "allow" THEN "pass" ELSE "reject"
<1> USE HonestReads DEF Reject, Quarantine
<1>1. Gen(c).prompt_id = "countdown-0001" BY DEF generation
<1>2. c.split.prompts = {"countdown-0001"} /\ c.split.content = <<>>
  BY DEF Honest, HonestParts, make_split_manifest
<1>3. c.split_registry = None /\ c.eval_protocol = None /\ c.verifiers = None
  BY DEF Honest, HonestParts
<1>4. Reward(c) # None =>
        /\ Reward(c).protocol = "countdown-protocol" /\ Reward(c).status = "success"
  BY DEF reward
<1>5. d001_split_manifest_missing(c) = "pass" /\ d002_prompt_not_in_declared_split(c) = "pass"
      /\ d003_split_overlap(c) = "pass"
  BY <1>1, <1>2, <1>3
     DEF d001_split_manifest_missing, d002_prompt_not_in_declared_split, d003_split_overlap
<1>6. d004_prompt_content_mismatch(c) = "pass"
  <2>1. DOMAIN c.split.content = {} BY <1>2
  <2> QED BY <2>1 DEF d004_prompt_content_mismatch
<1>7. r001_reward_protocol_missing(c) = "pass" /\ r002_infra_error_as_task_fail(c) = "pass"
  BY <1>4 DEF r001_reward_protocol_missing, r002_infra_error_as_task_fail, Honest, Distinct
<1>8. r006_evaluator_alias(c) = "pass" /\ r008_reward_verifier_unregistered(c) = "pass"
  BY <1>3 DEF r006_evaluator_alias, r008_reward_verifier_unregistered
<1>9. r003_reward_missing_pre_update(c) = "pass" /\ r004_reward_present_pre_reward(c) = "pass"
  BY DEF r003_reward_missing_pre_update, r004_reward_present_pre_reward, Honest, HonestStages, Distinct
<1>10. c.env.stage = "pre_update" =>
         r005_parent_identity_not_allowed(c) =
           IF Outcome(o, c.protocol, "identity_pre_reward") = "allow" THEN "pass" ELSE "reject"
  <2> SUFFICES ASSUME c.env.stage = "pre_update"
               PROVE  r005_parent_identity_not_allowed(c) =
                        IF Outcome(o, c.protocol, "identity_pre_reward") = "allow"
                          THEN "pass" ELSE "reject"
    OBVIOUS
  <2>1. c.env.parent = decision_id /\ decision_id \in DOMAIN c.events /\ decision_id # None
    BY DEF Honest, HonestStages, Distinct
  <2>2. /\ c.events[decision_id].type = "validation_decision" /\ c.events[decision_id] # None
        /\ c.events[decision_id].decision = Outcome(o, c.protocol, "identity_pre_reward")
    BY <2>1 DEF Honest, HonestStages
  <2>3. Typed(c, c.env.parent, "validation_decision") # None BY <2>1, <2>2 DEF Typed, Event
  <2> QED BY <2>1, <2>2, <2>3 DEF r005_parent_identity_not_allowed
<1> QED BY <1>5, <1>6, <1>7, <1>8, <1>9, <1>10

Special == {"P005", "P006", "T005", "M001", "M005", "L004", "R005"}

LEMMA HonestVerdict ==
  ASSUME NEW c, NEW o, Honest(c, o), NEW stage \in Stages,
         stage = "full_pre_update" => c.env.stage = "pre_update"
  PROVE  validate_envelope(c, stage).decision = Outcome(o, c.protocol, stage)
<1>1. PICK v : v = ALL_RULES(c) OBVIOUS
<1>2. \A r \in {"P001", "P002", "P003", "P004", "P007", "P008", "P009"} : v[r] = "pass"
  BY <1>1, HonestPolicyRules DEF ALL_RULES
<1>3. \A r \in {"T001", "T002", "T003", "T004", "M002", "M003", "M004"} : v[r] = "pass"
  BY <1>1, HonestTokenRules, HonestMaskRules DEF ALL_RULES
<1>4. \A r \in {"L001", "L002", "L003", "L005", "L006", "L007", "L008"} : v[r] = "pass"
  BY <1>1, HonestLogprobRules DEF ALL_RULES
<1>5. \A r \in {"D001", "D002", "D003", "D004", "R001", "R002", "R003", "R004", "R006", "R008"} :
        v[r] = "pass"
  BY <1>1, HonestDataRules DEF ALL_RULES
<1>6. PRE_UPDATE_STAGE_RULES \subseteq
        Special \cup {"P001", "P002", "P003", "P004", "P007", "P008", "P009"}
        \cup {"T001", "T002", "T003", "T004", "M002", "M003", "M004"}
        \cup {"L001", "L002", "L003", "L005", "L006", "L007", "L008"}
        \cup {"D001", "D002", "D003", "D004", "R001", "R002", "R003", "R004", "R006", "R008"}
  BY DEF PRE_UPDATE_STAGE_RULES, IDENTITY_STAGE_RULES, Special
<1>7. \A r \in RULES_BY_STAGE(stage) : v[r] # "pass" => r \in Special
  BY <1>2, <1>3, <1>4, <1>5, <1>6, IdentityRulesAlways
<1>8. Special \ {"R005"} \subseteq RULES_BY_STAGE(stage)
  BY IdentityRulesAlways DEF Special, IDENTITY_STAGE_RULES
<1>9. "R005" \in RULES_BY_STAGE(stage) <=> stage = "full_pre_update"
  BY DEF RULES_BY_STAGE, IDENTITY_STAGE_RULES, PRE_UPDATE_STAGE_RULES, Stages
<1>10. PICK a : a = AlignmentResult(o.n, o.span, o.pads) OBVIOUS
<1>11. a = Aligns(c) /\ a \in {"Alignment", "EmptyCompletionError", "AlignmentError"}
  BY <1>10, HonestAligns
<1>12. /\ v["P005"] \in {"pass", "reject"} /\ v["P006"] \in {"pass", "reject"}
       /\ Admits(c.protocol) <=> v["P005"] = "pass" /\ v["P006"] = "pass"
  BY <1>1, HonestPolicyRules DEF ALL_RULES
<1>13. /\ v["T005"] = IF a = "AlignmentError" THEN "reject" ELSE "pass"
       /\ v["M001"] = IF a = "AlignmentError" THEN "reject" ELSE "pass"
       /\ v["M005"] \in {"pass", "quarantine"}
       /\ a = "EmptyCompletionError" => v["M005"] = "quarantine"
       /\ a = "Alignment" => v["M005"] = "pass"
  BY <1>1, <1>11, HonestTokenRules, HonestMaskRules DEF ALL_RULES
<1> DEFINE Padded == a = "Alignment" /\ padding_within_completion(o.span, o.pads)
<1>14. v["L004"] = IF Padded THEN "quarantine" ELSE "pass"
  BY <1>1, <1>11, HonestLogprobRules DEF ALL_RULES
<1>15. stage = "full_pre_update" =>
         v["R005"] = IF Outcome(o, c.protocol, "identity_pre_reward") = "allow"
                       THEN "pass" ELSE "reject"
  BY <1>1, HonestDataRules DEF ALL_RULES
<1>16. Supported(o) <=> a = "Alignment" /\ ~Padded BY <1>10 DEF Supported
<1> HIDE DEF Padded
<1> DEFINE Ended(x) == \E r \in RULES_BY_STAGE(stage) : v[r] = x
<1>17. ~Ended("raise")
  BY <1>7, <1>9, <1>12, <1>13, <1>14, <1>15 DEF Special
<1>18. Ended("reject") <=>
         \/ ~Admits(c.protocol) \/ a = "AlignmentError"
         \/ /\ stage = "full_pre_update"
            /\ Outcome(o, c.protocol, "identity_pre_reward") # "allow"
  <2>1. Ended("reject") => \/ ~Admits(c.protocol) \/ a = "AlignmentError"
                           \/ /\ stage = "full_pre_update"
                              /\ Outcome(o, c.protocol, "identity_pre_reward") # "allow"
    BY <1>7, <1>9, <1>12, <1>13, <1>14, <1>15 DEF Special
  <2>2. ~Admits(c.protocol) \/ a = "AlignmentError" => Ended("reject")
    BY <1>8, <1>12, <1>13 DEF Special
  <2>3. stage = "full_pre_update" /\ Outcome(o, c.protocol, "identity_pre_reward") # "allow"
          => Ended("reject")
    BY <1>9, <1>15
  <2> QED BY <2>1, <2>2, <2>3
<1>19. Ended("quarantine") <=> v["M005"] = "quarantine" \/ Padded
  <2>1. Ended("quarantine") => v["M005"] = "quarantine" \/ Padded
    BY <1>7, <1>9, <1>12, <1>13, <1>14, <1>15 DEF Special
  <2>2. v["M005"] = "quarantine" \/ Padded => Ended("quarantine")
    BY <1>8, <1>14 DEF Special
  <2> QED BY <2>1, <2>2
<1>20. validate_envelope(c, stage).decision =
         IF Ended("raise") THEN "raise" ELSE IF Ended("reject") THEN "reject"
         ELSE IF Ended("quarantine") THEN "quarantine" ELSE "allow"
  <2>1. /\ {r \in RULES_BY_STAGE(stage) : v[r] = "raise"} # {} <=> Ended("raise")
        /\ {r \in RULES_BY_STAGE(stage) : v[r] = "reject"} # {} <=> Ended("reject")
        /\ {r \in RULES_BY_STAGE(stage) : v[r] = "quarantine"} # {} <=> Ended("quarantine")
    OBVIOUS
  <2>2. validate_envelope(c, stage).decision =
          IF {r \in RULES_BY_STAGE(stage) : v[r] = "raise"} # {} THEN "raise"
          ELSE IF {r \in RULES_BY_STAGE(stage) : v[r] = "reject"} # {} THEN "reject"
          ELSE IF {r \in RULES_BY_STAGE(stage) : v[r] = "quarantine"} # {} THEN "quarantine" ELSE "allow"
    BY <1>1 DEF validate_envelope
  <2> HIDE DEF Ended
  <2> QED BY <2>1, <2>2
<1> HIDE DEF Ended
<1> QED BY <1>10, <1>11, <1>13, <1>16, <1>17, <1>18, <1>19, <1>20 DEF Outcome, Stages

----------------------------------------------------------------------------
(* The trajectories of the pipeline, as long as nobody changed them.       *)

EnvFields == {"stage", "gen", "scoring", "reward", "parent", "contract"}

HonestInv ==
  /\ faults \in Nat
  /\ faults = 0 =>
       /\ \E o : Honest(ctx, o)
       /\ {"events", "env", "update"} \subseteq DOMAIN ctx /\ DOMAIN ctx.env = EnvFields
  /\ HonestAllowed

\* next_seq is greater than every lifecycle_seq.
LEMMA NextSeqIsNext ==
  ASSUME NEW c, HasLatest(c)
  PROVE  next_seq(c) \in Int /\ \A id \in DOMAIN c.events : next_seq(c) > c.events[id].seq
<1> DEFINE S == {c.events[id].seq : id \in DOMAIN c.events}
           Top(n) == \A id \in DOMAIN c.events : c.events[id].seq <= n
<1>1. \E n \in S : Top(n) BY DEF HasLatest
<1>2. PICK m : m = CHOOSE n \in S : Top(n) OBVIOUS
<1>3. m \in S /\ Top(m) BY <1>1, <1>2
<1>4. DOMAIN c.events # {} BY DEF HasLatest
<1>5. m \in Int BY <1>3 DEF HasLatest
<1>6. next_seq(c) = 1 + m BY <1>2, <1>4 DEF next_seq
<1> QED BY <1>3, <1>5, <1>6 DEF HasLatest

\* What the honest verdict says in the words of HonestAllowed.
LEMMA HonestValidation ==
  ASSUME NEW stage \in Stages, Validate(stage), faults' = 0,
         NEW o, Honest(ctx, o), stage = "full_pre_update" => ctx.env.stage = "pre_update"
  PROVE  HonestAllowed' /\ verdict'.decision = Outcome(o, ctx.protocol, stage)
<1>1. PICK v : v = validate_envelope(ctx, stage) OBVIOUS
<1>2. DOMAIN v = {"decision", "codes"} BY <1>1 DEF validate_envelope
<1>3. verdict' = v @@ [stage |-> stage] /\ judged' = ctx BY <1>1 DEF Validate
<1>4. verdict'.decision = v.decision /\ verdict'.stage = stage BY <1>2, <1>3 DEF @@
<1>5. verdict'.decision = Outcome(o, ctx.protocol, stage) BY <1>1, <1>4, HonestVerdict
<1>6. /\ Gen(ctx).tokens.n = o.n /\ Gen(ctx).completion_span = o.span
      /\ Gen(ctx).padding_spans = o.pads
  BY HonestReads DEF generation, sequence
<1>7. PICK l : l = [n |-> Gen(ctx).tokens.n, span |-> Gen(ctx).completion_span,
                    pads |-> Gen(ctx).padding_spans]
  OBVIOUS
<1>8. l.n = o.n /\ l.span = o.span /\ l.pads = o.pads BY <1>6, <1>7
<1>9. Supported(l) <=> Supported(o) BY <1>8 DEF Supported
<1>10. verdict'.decision =
         IF Supported(l) /\ Admits(ctx.protocol) THEN "allow"
         ELSE IF \/ verdict'.stage = "full_pre_update" \/ ~Admits(ctx.protocol)
                 \/ AlignmentResult(l.n, l.span, l.pads) = "AlignmentError"
           THEN "reject" ELSE "quarantine"
  BY <1>4, <1>5, <1>8, <1>9 DEF Outcome
<1>11. HonestAllowed' BY <1>3, <1>7, <1>10 DEF HonestAllowed
<1> QED BY <1>5, <1>11

LEMMA ChainEvents ==
  LET chain == make_sync_chain(0)
  IN  /\ \A id \in DOMAIN chain : Len(id) = 2 /\ id[1] = "sync"
      /\ \A id \in DOMAIN chain : chain[id].seq \in 0..3
      /\ canary_ref \in DOMAIN chain
      /\ chain[canary_ref] = [type |-> "canary_passed", seq |-> 3]
<1> DEFINE Types == <<"sync_requested", "sync_started", "runtime_loaded", "canary_passed">>
           chain == make_sync_chain(0)
           At(x) == CHOOSE i \in 1..4 : Types[i] = x
<1>1. \A i \in 1..4 : Types[i] \in IdNames BY DEF IdNames
<1>2. ASSUME NEW i \in 1..4
      PROVE  /\ Len(Append(sync_id, Types[i])) = 2 /\ Append(sync_id, Types[i])[1] = "sync"
             /\ Append(sync_id, Types[i])[2] = Types[i]
  <2>1. sync_id \in Seq(IdNames) /\ Len(sync_id) = 1 /\ sync_id[1] = "sync" BY DEF sync_id, IdNames
  <2>2. Types[i] \in IdNames BY <1>1
  <2> HIDE DEF Types
  <2>3. /\ Len(Append(sync_id, Types[i])) = Len(sync_id) + 1
        /\ Append(sync_id, Types[i])[Len(sync_id) + 1] = Types[i]
    BY <2>1, <2>2, AppendProperties
  <2>4. Append(sync_id, Types[i])[1] = sync_id[1]
    <3>1. PICK name \in IdNames : name = Types[i] BY <2>2
    <3>2. Append(sync_id, name)[1] = sync_id[1] BY <2>1, AppendProperties
    <3> QED BY <3>1, <3>2
  <2> QED BY <2>1, <2>3, <2>4
<1>3. DOMAIN chain = {Append(sync_id, Types[i]) : i \in 1..4} BY DEF make_sync_chain
<1>4. \A id \in DOMAIN chain : chain[id] = [type |-> id[2], seq |-> 0 + At(id[2]) - 1]
  BY <1>3 DEF make_sync_chain
<1>5. ASSUME NEW i \in 1..4 PROVE At(Types[i]) \in 1..4 /\ Types[At(Types[i])] = Types[i]
  OBVIOUS
<1>6. At("canary_passed") = 4
  <2>1. Types[4] = "canary_passed" /\ \A i \in 1..4 : Types[i] = "canary_passed" => i = 4 OBVIOUS
  <2> QED BY <2>1
<1>7. ASSUME NEW id \in DOMAIN chain
      PROVE  Len(id) = 2 /\ id[1] = "sync" /\ chain[id].seq \in 0..3
  <2>1. PICK i \in 1..4 : id = Append(sync_id, Types[i]) BY <1>3
  <2>2. Len(id) = 2 /\ id[1] = "sync" /\ id[2] = Types[i] BY <1>2, <2>1
  <2>3. PICK k \in 1..4 : k = At(id[2]) BY <1>5, <2>2
  <2>4. chain[id].seq = 0 + k - 1 BY <1>4, <2>3
  <2> HIDE DEF chain, At
  <2> QED BY <2>2, <2>3, <2>4
<1>8. canary_ref \in DOMAIN chain /\ canary_ref[2] = "canary_passed"
  <2>1. Types[4] = "canary_passed" OBVIOUS
  <2>2. canary_ref = Append(sync_id, Types[4]) BY <2>1 DEF canary_ref
  <2>3. canary_ref[2] = Types[4] BY <1>2, <2>2
  <2>4. canary_ref \in DOMAIN chain
    <3> HIDE DEF Types, chain
    <3> QED BY <1>3, <2>2
  <2> QED BY <2>1, <2>3, <2>4
<1>9. chain[canary_ref] = [type |-> "canary_passed", seq |-> 3]
  <2> HIDE DEF At, chain
  <2>1. chain[canary_ref] = [type |-> "canary_passed", seq |-> 0 + 4 - 1] BY <1>4, <1>6, <1>8
  <2> QED BY <2>1
<1> QED BY <1>7, <1>8, <1>9

LEMMA HonestInit == Init => HonestInv
<1> SUFFICES ASSUME Init PROVE HonestInv OBVIOUS
<1>1. PICK layout \in Layouts, p \in Protocols, s \in Sources :
        ctx = Trajectory(Options(layout, p, s), p)
  BY DEF Init
<1>2. PICK o : o = Options(layout, p, s) OBVIOUS
<1>3. /\ o.n = layout.n /\ o.span = layout.span /\ o.pads = layout.pads /\ o.source = s
      /\ o.protocol = p.mode /\ o.version = 0 /\ o.diagnostic = FALSE /\ o.stage = "pre_reward"
      /\ o.parent = None
  BY <1>2 DEF Options, default_options
<1>4. HonestOptions(o)
  <2>1. layout.n \in Int /\ layout.span \in Int \X Int /\ layout.pads \subseteq Int \X Int
    BY PipelineConstants
  <2> QED BY <1>3, <2>1 DEF HonestOptions
<1>5. PICK t : t = build_trajectory(o) OBVIOUS
<1>6. PICK stray : stray = make_scoring(<<"gen", "other">>, 20, 1, sequence(o.n), behavior_logprobs(o.n))
  OBVIOUS
<1>7. ctx = [t EXCEPT !.protocol = p, !.events = stray_scoring_id :> stray @@ @]
  BY <1>1, <1>2, <1>5, <1>6 DEF Trajectory
<1>8. PICK chain : chain = make_sync_chain(0) OBVIOUS
<1>9. PICK rw : rw = reward(gen_id, 10 + IF ByScorer(o) THEN 2 ELSE 1) OBVIOUS
<1>10. PICK scored : scored = IF ByScorer(o) THEN scoring_id :> ScorerEvent(o) ELSE <<>> OBVIOUS
<1>11. t.events = chain @@ (gen_id :> generation(o, 10)) @@ (reward_id :> rw) @@ scored
  <2>1. 10 + 100 * o.version = 10 BY <1>3
  <2> QED BY <1>3, <1>5, <1>8, <1>9, <1>10, <2>1
          DEF build_trajectory, ByScorer, ScorerEvent, CompletionLogprobs
<1>12. /\ {"events", "env", "update"} \subseteq DOMAIN ctx /\ DOMAIN ctx.env = EnvFields
       /\ ctx.events = (stray_scoring_id :> stray @@ t.events) /\ ctx.env = t.env
  BY <1>5, <1>7 DEF build_trajectory, EnvFields
<1>13. HonestParts(ctx, o)
  <2>1. /\ ctx.manifest = t.manifest /\ ctx.split = t.split /\ ctx.protocol = p
        /\ ctx.corrupt = t.corrupt /\ ctx.canary = t.canary
        /\ ctx.split_registry = t.split_registry /\ ctx.eval_protocol = t.eval_protocol
        /\ ctx.verifiers = t.verifiers
    BY <1>5, <1>7 DEF build_trajectory
  <2>2. /\ t.env.gen = gen_id /\ t.env.contract = build_contract(o)
        /\ t.env.scoring = IF ByScorer(o) THEN scoring_id ELSE None
    BY <1>5 DEF build_trajectory, ByScorer
  <2> QED BY <1>3, <1>5, <1>12, <2>1, <2>2 DEF HonestParts, build_trajectory
<1>14. /\ \A id \in DOMAIN chain : Len(id) = 2 /\ id[1] = "sync" /\ chain[id].seq \in 0..3
       /\ canary_ref \in DOMAIN chain
       /\ chain[canary_ref] = [type |-> "canary_passed", seq |-> 3]
  BY <1>8, ChainEvents
<1>15. /\ {gen_id, reward_id, scoring_id, decision_id, stray_scoring_id} \cap DOMAIN chain = {}
       /\ gen_id # reward_id /\ gen_id # scoring_id /\ reward_id # scoring_id
       /\ decision_id \notin {gen_id, reward_id, scoring_id, stray_scoring_id}
       /\ stray_scoring_id \notin {gen_id, reward_id, scoring_id}
  <2>1. /\ Len(gen_id) = 1 /\ Len(reward_id) = 1 /\ Len(scoring_id) = 1 /\ Len(decision_id) = 1
        /\ Len(stray_scoring_id) = 2 /\ stray_scoring_id[1] = "score"
    BY DEF gen_id, reward_id, scoring_id, decision_id, stray_scoring_id
  <2>2. {gen_id, reward_id, scoring_id, decision_id, stray_scoring_id} \cap DOMAIN chain = {}
    BY <1>14, <2>1
  <2>3. gen_id[1] = "gen" /\ reward_id[1] = "reward" /\ scoring_id[1] = "score"
        /\ decision_id[1] = "vdec"
    BY DEF gen_id, reward_id, scoring_id, decision_id
  <2> QED BY <2>1, <2>2, <2>3
<1>16. DOMAIN scored = IF ByScorer(o) THEN {scoring_id} ELSE {} BY <1>10 DEF :>
<1>17. DOMAIN ctx.events = {stray_scoring_id} \cup DOMAIN chain \cup {gen_id, reward_id}
                             \cup DOMAIN scored
  BY <1>11, <1>12 DEF @@, :>
<1>18. /\ ctx.events[stray_scoring_id] = stray /\ ctx.events[gen_id] = generation(o, 10)
       /\ ctx.events[reward_id] = rw
       /\ \A id \in DOMAIN chain : ctx.events[id] = chain[id]
       /\ ByScorer(o) => ctx.events[scoring_id] = ScorerEvent(o)
  <2>1. PICK f : f = chain @@ (gen_id :> generation(o, 10)) OBVIOUS
  <2>2. /\ DOMAIN f = DOMAIN chain \cup {gen_id} /\ f[gen_id] = generation(o, 10)
        /\ \A id \in DOMAIN chain : f[id] = chain[id]
    BY <1>15, <2>1 DEF @@, :>
  <2>3. PICK g : g = f @@ (reward_id :> rw) OBVIOUS
  <2>4. /\ DOMAIN g = DOMAIN f \cup {reward_id} /\ g[reward_id] = rw
        /\ \A id \in DOMAIN f : g[id] = f[id]
    BY <1>15, <2>2, <2>3 DEF @@, :>
  <2>5. t.events = g @@ scored BY <1>11, <2>1, <2>3
  <2>6. /\ DOMAIN t.events = DOMAIN g \cup DOMAIN scored
        /\ \A id \in DOMAIN g : t.events[id] = g[id]
        /\ \A id \in DOMAIN scored \ DOMAIN g : t.events[id] = scored[id]
    BY <2>5 DEF @@
  <2>7. /\ ctx.events[stray_scoring_id] = stray
        /\ \A id \in DOMAIN t.events \ {stray_scoring_id} : ctx.events[id] = t.events[id]
    BY <1>12 DEF @@, :>
  <2>8. ByScorer(o) => ctx.events[scoring_id] = ScorerEvent(o)
    <3>1. ByScorer(o) => scored[scoring_id] = ScorerEvent(o) BY <1>10 DEF :>
    <3> QED BY <1>15, <1>16, <2>2, <2>4, <2>6, <2>7, <3>1
  <2> QED BY <1>15, <2>2, <2>4, <2>6, <2>7, <2>8
<1>19. /\ stray.seq = 21 /\ generation(o, 10).seq = 10 /\ rw.seq \in {11, 12}
       /\ ScorerEvent(o).seq = 11
  BY <1>6, <1>9 DEF make_scoring, generation, reward, ScorerEvent
<1>20. HasLatest(ctx)
  <2>1. \A id \in DOMAIN ctx.events : ctx.events[id].seq \in 0..21
    BY <1>14, <1>16, <1>17, <1>18, <1>19
  <2>2. stray_scoring_id \in DOMAIN ctx.events /\ ctx.events[stray_scoring_id].seq = 21
    BY <1>17, <1>18, <1>19
  <2> QED BY <2>1, <2>2 DEF HasLatest
<1>21. HonestEvents(ctx, o)
  BY <1>9, <1>14, <1>16, <1>17, <1>18, <1>20 DEF HonestEvents
<1>22. HonestStages(ctx, o)
  <2>1. decision_id \notin DOMAIN ctx.events BY <1>15, <1>16, <1>17
  <2>2. t.env.stage = "pre_reward" /\ t.env.reward = None /\ t.update = None
    BY <1>3, <1>5 DEF build_trajectory
  <2>3. ctx.update = t.update BY <1>5, <1>7 DEF build_trajectory
  <2> QED BY <1>12, <2>1, <2>2, <2>3 DEF HonestStages
<1>23. Distinct(o)
  <2>1. None \notin {ctx.manifest, ctx.split} \cup {ctx.events[id] : id \in DOMAIN ctx.events}
    BY <1>1, NoneIsNoValue
  <2>2. None \notin Seq(IdNames) BY PipelineConstants DEF IdNames
  <2>3. /\ None \notin {make_policy_manifest(0), make_split_manifest("train", {"countdown-0001"})}
        /\ None \notin {generation(o, 10), [type |-> "canary_passed", seq |-> 3]}
        /\ ByScorer(o) => None # ScorerEvent(o)
    BY <1>13, <1>21, <2>1 DEF HonestParts, HonestEvents
  <2> QED BY <2>2, <2>3, NoneIsNoValue DEF Distinct
<1>24. Honest(ctx, o) BY <1>4, <1>13, <1>21, <1>22, <1>23 DEF Honest
<1> QED BY <1>12, <1>24 DEF Init, HonestInv, HonestAllowed

LEMMA IdentityKeepsHonest ==
  ASSUME HonestInv, faults = 0, faults' = 0, ValidateIdentity
  PROVE  HonestInv'
<1>1. PICK o : Honest(ctx, o) BY DEF HonestInv
<1>2. HonestAllowed' /\ verdict'.decision = Outcome(o, ctx.protocol, "identity_pre_reward")
  BY <1>1, HonestValidation DEF ValidateIdentity, Stages
<1>3. PICK d \in {"allow", "quarantine", "reject"} : d = verdict'.decision BY <1>2 DEF Outcome
<1>4. PICK e : e = validation_event(d, next_seq(ctx)) OBVIOUS
<1>5. ctx' = [ctx EXCEPT !.events = decision_id :> e @@ @] BY <1>3, <1>4 DEF ValidateIdentity
<1>6. decision_id \notin DOMAIN ctx.events BY DEF ValidateIdentity
<1>7. HasLatest(ctx) BY <1>1 DEF Honest, HonestEvents
<1>8. e.seq \in Int /\ \A id \in DOMAIN ctx.events : e.seq > ctx.events[id].seq
  BY <1>4, <1>7, NextSeqIsNext DEF validation_event
<1>9. e.type = "validation_decision" /\ e.decision = d /\ e # None
  <2>1. next_seq(ctx) \in Int BY <1>7, NextSeqIsNext
  <2>2. e \in [type : {"validation_decision"}, seq : Int, decision : {"allow", "quarantine", "reject"}]
    BY <1>3, <1>4, <2>1 DEF validation_event
  <2>3. None \notin [type : {"validation_decision"}, seq : Int,
                     decision : {"allow", "quarantine", "reject"}]
    BY NoneIsNoValue
  <2> QED BY <1>4, <2>2, <2>3 DEF validation_event
<1>10. /\ DOMAIN ctx' = DOMAIN ctx /\ \A f \in DOMAIN ctx \ {"events"} : ctx'[f] = ctx[f]
       /\ ctx'.events = (decision_id :> e @@ ctx.events)
       /\ ctx'.env = ctx.env
  BY <1>5 DEF HonestInv
<1>11. /\ DOMAIN ctx'.events = {decision_id} \cup DOMAIN ctx.events
       /\ ctx'.events[decision_id] = e
       /\ \A id \in DOMAIN ctx.events : ctx'.events[id] = ctx.events[id]
  BY <1>6, <1>10 DEF @@, :>
<1>12. HasLatest(ctx')
  <2>1. \A id \in DOMAIN ctx'.events : ctx'.events[id].seq \in Int BY <1>7, <1>8, <1>11 DEF HasLatest
  <2>2. \A id \in DOMAIN ctx'.events : ctx'.events[id].seq <= e.seq
    BY <1>7, <1>8, <1>11 DEF HasLatest
  <2> QED BY <1>11, <2>1, <2>2 DEF HasLatest
<1>13. HonestEvents(ctx', o) BY <1>1, <1>11, <1>12 DEF Honest, HonestEvents
<1>14. /\ ctx'.manifest = ctx.manifest /\ ctx'.split = ctx.split /\ ctx'.protocol = ctx.protocol
       /\ ctx'.corrupt = ctx.corrupt /\ ctx'.canary = ctx.canary
       /\ ctx'.split_registry = ctx.split_registry /\ ctx'.eval_protocol = ctx.eval_protocol
       /\ ctx'.verifiers = ctx.verifiers /\ ctx'.update = ctx.update
  BY <1>5
<1>15. HonestParts(ctx', o) BY <1>1, <1>10, <1>14 DEF Honest, HonestParts
<1>16. HonestStages(ctx', o)
  <2>1. ctx.env.stage = "pre_reward" BY DEF ValidateIdentity
  <2>2. ctx.env.reward = None /\ ctx.update = None BY <1>1, <2>1 DEF Honest, HonestStages
  <2> QED BY <1>2, <1>3, <1>9, <1>10, <1>11, <1>14, <2>1, <2>2 DEF HonestStages
<1>17. Honest(ctx', o) BY <1>1, <1>13, <1>15, <1>16 DEF Honest
<1> QED BY <1>2, <1>10, <1>17 DEF HonestInv

\* Steps that change the envelope or the update input only.
LEMMA EnvelopeKeepsHonest ==
  ASSUME HonestInv, faults = 0, faults' = 0, PreUpdateEnvelope \/ Materialize
  PROVE  HonestInv'
<1>1. PICK o : Honest(ctx, o) BY DEF HonestInv
<1>2. {"events", "env", "update"} \subseteq DOMAIN ctx /\ DOMAIN ctx.env = EnvFields
  BY DEF HonestInv
<1>3. /\ DOMAIN ctx' = DOMAIN ctx /\ DOMAIN ctx'.env = EnvFields
      /\ ctx'.events = ctx.events
      /\ ctx'.manifest = ctx.manifest /\ ctx'.split = ctx.split /\ ctx'.protocol = ctx.protocol
      /\ ctx'.corrupt = ctx.corrupt /\ ctx'.canary = ctx.canary
      /\ ctx'.split_registry = ctx.split_registry /\ ctx'.eval_protocol = ctx.eval_protocol
      /\ ctx'.verifiers = ctx.verifiers
      /\ ctx'.env.gen = ctx.env.gen /\ ctx'.env.scoring = ctx.env.scoring
      /\ ctx'.env.contract = ctx.env.contract
  <2>1. CASE PreUpdateEnvelope
    <3>1. PICK v : v = [ctx.env EXCEPT !.stage = "pre_update", !.reward = reward_id,
                                       !.parent = decision_id]
      OBVIOUS
    <3>2. ctx' = [ctx EXCEPT !.env = v] BY <1>2, <2>1, <3>1 DEF PreUpdateEnvelope, EnvFields
    <3>3. /\ DOMAIN v = EnvFields /\ v.gen = ctx.env.gen /\ v.scoring = ctx.env.scoring
          /\ v.contract = ctx.env.contract
      BY <1>2, <3>1 DEF EnvFields
    <3> QED BY <1>2, <3>2, <3>3
  <2>2. CASE Materialize
    <3>1. PICK u : ctx' = [ctx EXCEPT !.update = u] BY <2>2 DEF Materialize
    <3> QED BY <1>2, <3>1
  <2> QED BY <2>1, <2>2
<1>4. HonestParts(ctx', o) BY <1>1, <1>3 DEF Honest, HonestParts
<1>5. HonestEvents(ctx', o) BY <1>1, <1>3 DEF Honest, HonestEvents, HasLatest
<1>6. HonestStages(ctx', o)
  <2>1. CASE PreUpdateEnvelope
    <3>1. ctx.env.stage = "pre_reward" /\ decision_id \in DOMAIN ctx.events
      BY <2>1 DEF PreUpdateEnvelope
    <3>2. ctx.update = None BY <1>1, <3>1 DEF Honest, HonestStages
    <3>3. /\ ctx'.env.stage = "pre_update" /\ ctx'.env.reward = reward_id
          /\ ctx'.env.parent = decision_id /\ ctx'.update = ctx.update
      BY <1>2, <2>1 DEF PreUpdateEnvelope, EnvFields
    <3> QED BY <1>1, <1>3, <3>1, <3>2, <3>3 DEF Honest, HonestStages
  <2>2. CASE Materialize
    <3>1. PICK n : n = next_seq(ctx) OBVIOUS
    <3>2. n \in Int /\ \A id \in DOMAIN ctx.events : n > ctx.events[id].seq
      BY <1>1, <3>1, NextSeqIsNext DEF Honest, HonestEvents
    <3>3. Gen(ctx).tokens = sequence(o.n) BY <1>1, HonestReads DEF generation
    <3>4. ctx'.update = [tokens |-> sequence(o.n), auth |-> ctx.env.contract.auth, seq |-> n]
      BY <1>2, <2>2, <3>1, <3>3 DEF Materialize, update_input
    <3>5. ctx.env.stage = "pre_update" /\ ctx'.env = ctx.env BY <2>2 DEF Materialize
    <3>6. /\ ctx.env.reward = reward_id /\ ctx.env.parent = decision_id
          /\ decision_id \in DOMAIN ctx.events
      BY <1>1, <3>5 DEF Honest, HonestStages
    <3> QED BY <1>1, <1>3, <3>2, <3>4, <3>5, <3>6 DEF Honest, HonestStages
  <2> QED BY <2>1, <2>2
<1>7. Honest(ctx', o) BY <1>1, <1>4, <1>5, <1>6 DEF Honest
<1>8. verdict' = None BY DEF PreUpdateEnvelope, Materialize
<1> QED BY <1>3, <1>2, <1>7, <1>8 DEF HonestInv, HonestAllowed

LEMMA HonestNext == HonestInv /\ [Next]_vars => HonestInv'
<1> SUFFICES ASSUME HonestInv, [Next]_vars PROVE HonestInv' OBVIOUS
<1>1. CASE Fault
  <2>1. faults' \in Nat /\ faults' # 0 /\ verdict' = None BY <1>1 DEF Fault, HonestInv
  <2> QED BY <2>1 DEF HonestInv, HonestAllowed
<1>2. ASSUME ~Fault, faults # 0 PROVE HonestInv'
  <2>1. faults' = faults
    BY <1>2 DEF Next, ValidateIdentity, PreUpdateEnvelope, Materialize, ValidateFull, vars
  <2> QED BY <1>2, <2>1 DEF HonestInv, HonestAllowed
<1>3. ASSUME ~Fault, faults = 0 PROVE HonestInv'
  <2>1. faults' = 0
    BY <1>3 DEF Next, ValidateIdentity, PreUpdateEnvelope, Materialize, ValidateFull, vars
  <2>2. CASE ValidateIdentity BY <1>3, <2>1, <2>2, IdentityKeepsHonest
  <2>3. CASE PreUpdateEnvelope \/ Materialize BY <1>3, <2>1, <2>3, EnvelopeKeepsHonest
  <2>4. CASE ValidateFull
    <3>1. PICK o : Honest(ctx, o) BY <1>3 DEF HonestInv
    <3>2. HonestAllowed' BY <2>1, <2>4, <3>1, HonestValidation DEF ValidateFull, Stages
    <3>3. ctx' = ctx BY <2>4 DEF ValidateFull
    <3> QED BY <1>3, <2>1, <3>1, <3>2, <3>3 DEF HonestInv
  <2>5. CASE UNCHANGED vars
    <3>1. ctx' = ctx /\ faults' = faults /\ (HonestAllowed <=> HonestAllowed')
      BY <2>5 DEF vars, HonestAllowed
    <3> QED BY <3>1 DEF HonestInv
  <2> QED BY <1>3, <2>2, <2>3, <2>4, <2>5 DEF Next
<1> QED BY <1>1, <1>2, <1>3

----------------------------------------------------------------------------
(* Theorems                                                                *)

\* Every verdict is of a known kind and lists rules of its stage.
THEOREM VerdictsTyped == Spec => []TypeOK
<1>1. PipelineInv => TypeOK BY VerdictType DEF PipelineInv, Judged, TypeOK
<1> QED BY <1>1, AlwaysTyped, PTL

\* Whatever fields were changed, what the validator allows has the canonical
\* masks and one behaviour logprob per completion token.
THEOREM AllowedAligned == Spec => []AllowedIsAligned
<1>1. PipelineInv => AllowedIsAligned
  <2> SUFFICES ASSUME PipelineInv, Allowed PROVE Aligned(Gen(judged))
    BY DEF AllowedIsAligned, Aligned, completion_length
  <2>1. TypedContext(judged) /\ validate_envelope(judged, verdict.stage).decision = "allow"
    BY DEF PipelineInv, Judged, Allowed
  <2>2. TypedGeneration(Gen(judged)) 
    BY <2>1 DEF Allowed, HasGen, Gen, Typed, Event, TypedContext, TypedEvents, TypedEvent
  <2> QED BY <2>1, <2>2, AllowMeansAligned DEF Allowed
<1> QED BY <1>1, AlwaysTyped, PTL

\* What the validator allows was generated under the manifest's checkpoint,
\* after a canary that passed (of which policy, the rules do not compare), and
\* no further behind than the protocol allows; its logprobs are its own, or
\* those of a scorer of the same policy.
THEOREM AllowedOnPolicy == Spec => []AllowedIsOnPolicy
<1>1. PipelineInv => AllowedIsOnPolicy
  <2> SUFFICES ASSUME PipelineInv, Allowed, AuthorityNamed PROVE AllowedIsOnPolicy
    BY DEF AllowedIsOnPolicy
  <2>1. TypedContext(judged) /\ validate_envelope(judged, verdict.stage).decision = "allow"
    BY DEF PipelineInv, Judged, Allowed
  <2>2. TypedGeneration(Gen(judged)) 
    BY <2>1 DEF Allowed, HasGen, Gen, Typed, Event, TypedContext, TypedEvents, TypedEvent
  <2>3. None \notin DOMAIN judged.events
    BY <2>1, PipelineConstants DEF TypedContext, TypedEvents, IdNames
  <2>4. /\ judged.env.contract.source \in Sources /\ judged.env.contract.parent_version \in Int
        /\ judged.protocol.mode \in {"strict_on_policy", "bounded_off_policy"}
        /\ judged.protocol.max_lag \in Int
    BY <2>1, PipelineConstants DEF TypedContext, TypedContract
  <2>5. \A id \in DOMAIN judged.events :
          judged.events[id].type \in SYNC_TERMINAL_SUCCESS => judged.events[id].seq \in Int
    BY <2>1 DEF TypedContext, TypedEvents, TypedEvent
  <2> QED BY <2>1, <2>2, <2>3, <2>4, <2>5, AllowMeansOnPolicy
          DEF Allowed, AuthorityNamed, AllowedIsOnPolicy
<1> QED BY <1>1, AlwaysTyped, PTL

\* Only a producer mask that does not decode ends a validation without a
\* decision; no other fault does.
THEOREM RaisesOnlyForBadMask == Spec => []RaiseIsBadMask
<1>1. PipelineInv => RaiseIsBadMask
  BY RaisesForBadMask DEF PipelineInv, Judged, RaiseIsBadMask
<1> QED BY <1>1, AlwaysTyped, PTL

\* Both validations let through what nobody changed, for every layout and
\* protocol that can be let through, and stop the others as the design says:
\* the guard does not starve the training of good trajectories.
THEOREM HonestAreAllowed == Spec => []HonestAllowed
<1>1. HonestInv => HonestAllowed BY DEF HonestInv
<1> QED BY <1>1, HonestInit, HonestNext, PTL DEF Spec

----------------------------------------------------------------------------
(* The drivers: the case directories, for any number of cases, deaths and  *)
(* runs of the freezing command.                                           *)

\* A driver that writes case.json or an earlier file of a case writes what the
\* directory it created holds.
WriterInv ==
  /\ DOMAIN frozen = Cases(driver)
  /\ ~alive => writing = None
  /\ writing # None =>
       /\ DOMAIN writing = {"case", "trajectory", "at"}
       /\ writing.case \in done
       /\ writing.at \in {"absent", "inputs", "sums", "torn"}
       /\ writing.at # "absent" =>
            /\ frozen[writing.case].at = writing.at
            /\ frozen[writing.case].trajectory = writing.trajectory

FreezeInv == DriversTypeOK /\ WriterInv

\* The drivers leave the case directories alone; two of them start a write.
Starts(case) ==
  \/ run_fault_matrix(case) \/ run_day3_matrix(case) \/ run_v02_matrix(case)
  \/ freeze_v02_cases(case) \/ online_matrix(case) \/ batch_online(case)

Writes == write_inputs \/ write_sums \/ open_spec \/ write_spec

LEMMA StartsWhat ==
  ASSUME NEW case, Starts(case)
  PROVE  /\ \E d : Running(d, case)
         /\ \/ UNCHANGED writing
            \/ \E t : writing' = [case |-> case, trajectory |-> t, at |-> "absent"]
BY DEF Starts, run_fault_matrix, run_day3_matrix, run_v02_matrix, freeze_v02_cases,
       online_matrix, batch_online

LEMMA WritesWhat ==
  ASSUME Writes
  PROVE  \E from \in {"absent", "inputs", "sums", "torn"}, to \in {"inputs", "sums", "torn", "complete"} :
           /\ Writing(from, to)
           /\ from = "absent" => to = "inputs" /\ ~Exists(writing.case)
BY DEF Writes, write_inputs, write_sums, open_spec, write_spec

LEMMA InitFreeze == MatrixInit => FreezeInv
<1> SUFFICES ASSUME MatrixInit PROVE FreezeInv OBVIOUS
<1> USE MatrixConstants DEF MatrixInit
<1>1. Bound(driver) \in Nat BY DEF Bound
<1>2. DriversTypeOK BY <1>1 DEF DriversTypeOK
<1>3. WriterInv BY DEF WriterInv
<1> QED BY <1>2, <1>3 DEF FreezeInv

\* One step keeps the invariant, and the directories as NoOverwrite asks.
Kept ==
  \A case \in DOMAIN frozen :
    /\ Exists(case) => frozen'[case].trajectory = frozen[case].trajectory
    /\ frozen[case].at = "complete" => frozen'[case].at = "complete"

LEMMA StartsKeep ==
  ASSUME FreezeInv, NEW case, Starts(case)
  PROVE  FreezeInv' /\ Kept
<1>1. PICK d : Running(d, case) BY StartsWhat
<1>2. /\ driver = d /\ ran < Bound(d) /\ case \in Cases(d) /\ ran' = ran + 1
      /\ done' = done \cup {case} /\ writing = None /\ alive
      /\ UNCHANGED <<driver, alive, deaths, frozen, checked>>
  BY <1>1 DEF Running
<1>3. Bound(d) \in Nat BY MatrixConstants DEF Bound
<1>4. writing' = writing \/ \E t : writing' = [case |-> case, trajectory |-> t, at |-> "absent"]
  BY StartsWhat
<1>5. DriversTypeOK' BY <1>2, <1>3, <1>4 DEF FreezeInv, DriversTypeOK, Bound
<1>6. WriterInv' BY <1>2, <1>4 DEF FreezeInv, WriterInv
<1>7. Kept BY <1>2 DEF Kept
<1> QED BY <1>5, <1>6, <1>7 DEF FreezeInv

LEMMA WritesKeep ==
  ASSUME FreezeInv, Writes
  PROVE  FreezeInv' /\ Kept
<1>1. PICK from \in {"absent", "inputs", "sums", "torn"},
           to \in {"inputs", "sums", "torn", "complete"} :
        /\ Writing(from, to)
        /\ from = "absent" => to = "inputs" /\ ~Exists(writing.case)
  BY WritesWhat
<1> DEFINE c == writing.case
           dir == [at |-> to, trajectory |-> writing.trajectory]
<1>2. /\ writing # None /\ writing.at = from /\ alive
      /\ frozen' = [frozen EXCEPT ![c] = dir]
      /\ writing' = IF to = "complete" THEN None ELSE [writing EXCEPT !.at = to]
      /\ UNCHANGED <<driver, alive, events, damaged, done, ran, deaths, last, checked>>
  BY <1>1 DEF Writing
<1>3. c \in done /\ c \in DOMAIN frozen /\ DOMAIN writing = {"case", "trajectory", "at"}
  BY <1>2 DEF FreezeInv, DriversTypeOK, WriterInv
<1>4. frozen'[c] = dir /\ \A case \in DOMAIN frozen : case # c => frozen'[case] = frozen[case]
  BY <1>2, <1>3
<1>5. from # "absent" => frozen[c].at = from /\ frozen[c].trajectory = writing.trajectory
  BY <1>2 DEF FreezeInv, WriterInv
<1>6. DOMAIN frozen' = DOMAIN frozen BY <1>2
<1>7. writing' # None =>
        /\ DOMAIN writing' = {"case", "trajectory", "at"} /\ writing'.case = c
        /\ writing'.at = to /\ writing'.trajectory = writing.trajectory /\ to # "complete"
  BY <1>2, <1>3
<1>8. dir.at = to /\ dir.trajectory = writing.trajectory OBVIOUS
<1> HIDE DEF c, dir
<1>9. DriversTypeOK'
  <2>1. \A case \in DOMAIN frozen' :
          frozen'[case].at \in {"absent", "inputs", "sums", "torn", "complete"}
    BY <1>4, <1>6, <1>8 DEF FreezeInv, DriversTypeOK
  <2> QED BY <1>2, <1>3, <1>7, <2>1 DEF FreezeInv, DriversTypeOK, Bound
<1>10. WriterInv' BY <1>2, <1>3, <1>4, <1>6, <1>7, <1>8 DEF FreezeInv, WriterInv
<1>11. Kept BY <1>1, <1>4, <1>5, <1>8 DEF Kept, Exists, c
<1> QED BY <1>9, <1>10, <1>11 DEF FreezeInv

LEMMA OthersKeep ==
  ASSUME FreezeInv,
         FrozenCaseExists \/ Die \/ Rerun \/ (\E case \in DOMAIN frozen : contract_check(case))
           \/ UNCHANGED matrix_vars
  PROVE  FreezeInv' /\ Kept
<1>1. UNCHANGED <<driver, frozen>> 
  BY DEF FrozenCaseExists, Die, Rerun, contract_check, matrix_vars
<1>2. Kept BY <1>1 DEF Kept
<1>3. CASE FrozenCaseExists \/ Die
  <2>1. deaths' \in 0..MaxDeaths
    BY <1>3, MatrixConstants DEF FrozenCaseExists, Die, FreezeInv, DriversTypeOK
  <2>2. writing' = None /\ alive' = FALSE /\ UNCHANGED <<driver, frozen, ran, done>>
    BY <1>3 DEF FrozenCaseExists, Die
  <2> QED BY <1>2, <2>1, <2>2 DEF FreezeInv, DriversTypeOK, WriterInv, Bound
<1>4. CASE Rerun
  <2>1. writing' = None /\ done' = {} /\ UNCHANGED <<driver, frozen, ran, deaths>> /\ alive' = TRUE
    BY <1>4 DEF Rerun, FreezeInv, WriterInv
  <2> QED BY <1>2, <2>1 DEF FreezeInv, DriversTypeOK, WriterInv, Bound
<1>5. CASE (\E case \in DOMAIN frozen : contract_check(case)) \/ UNCHANGED matrix_vars
  <2>1. UNCHANGED <<driver, alive, done, ran, deaths, writing, frozen>>
    BY <1>5 DEF contract_check, matrix_vars
  <2> QED BY <1>2, <2>1 DEF FreezeInv, DriversTypeOK, WriterInv, Bound
<1> QED BY <1>3, <1>4, <1>5

LEMMA NextKeeps == FreezeInv /\ [MatrixNext]_matrix_vars => FreezeInv' /\ Kept
<1> SUFFICES ASSUME FreezeInv, [MatrixNext]_matrix_vars PROVE FreezeInv' /\ Kept OBVIOUS
<1>1. CASE \E case : Starts(case) BY <1>1, StartsKeep
<1>2. CASE Writes BY <1>2, WritesKeep
<1>3. CASE FrozenCaseExists \/ Die \/ Rerun \/ (\E case \in DOMAIN frozen : contract_check(case))
            \/ UNCHANGED matrix_vars
  BY <1>3, OthersKeep
<1> QED BY <1>1, <1>2, <1>3 DEF MatrixNext, Starts, Writes

----------------------------------------------------------------------------
(* Theorems                                                                *)

\* Types of the drivers' state, for any bounds.
THEOREM DriversTyped == MatrixSpec => []DriversTypeOK
<1>1. FreezeInv => DriversTypeOK BY DEF FreezeInv
<1> QED BY <1>1, InitFreeze, NextKeeps, PTL DEF MatrixSpec

\* write_case: no death, rerun or second freezing replaces what a case
\* directory holds, and a complete case stays complete.
THEOREM CasesAreFinal == MatrixSpec => NoOverwrite
<1>1. FreezeInv /\ [MatrixNext]_matrix_vars =>
        [\A case \in DOMAIN frozen :
           /\ Exists(case) => frozen'[case].trajectory = frozen[case].trajectory
           /\ frozen[case].at = "complete" => frozen'[case].at = "complete"]_matrix_vars
  BY NextKeeps DEF Kept
<1> QED BY <1>1, InitFreeze, NextKeeps, PTL DEF MatrixSpec, NoOverwrite

----------------------------------------------------------------------------
(* The fault cases: what one rule decides.                                 *)

\* The result of a validation is the one registered for the case.
MeetsExpected(case, c, stage) ==
  LET v == validate_envelope(c, stage)
  IN  v.decision = Expected(case)[1] /\ Expected(case)[2] \subseteq v.codes

LEMMA MeetsResult ==
  ASSUME NEW case, NEW c, NEW stage, MeetsExpected(case, c, stage)
  PROVE  Meets(Result(case, c, stage))
<1>1. PICK v : v = validate_envelope(c, stage) OBVIOUS
<1>2. DOMAIN v = {"decision", "codes"} BY <1>1 DEF validate_envelope
<1>3. PICK w : w = v @@ [case |-> case] OBVIOUS
<1>4. w.decision = v.decision /\ w.codes = v.codes /\ w.case = case BY <1>2, <1>3 DEF @@
<1>5. Result(case, c, stage) = w BY <1>1, <1>3 DEF Result
<1> QED BY <1>1, <1>4, <1>5 DEF Meets, MeetsExpected

\* The producer's masks decode, so that no rule raises.
Decodable(c) == TargetDecodes(c) /\ LossDecodes(c)

LEMMA NoRaise ==
  ASSUME NEW c, Decodable(c), NEW stage, NEW r \in RULES_BY_STAGE(stage)
  PROVE  ALL_RULES(c)[r] # "raise"
<1>1. CASE r \in PRE_UPDATE_STAGE_RULES \ MaskRules BY <1>1, OnlyMaskRulesRaise
<1>2. CASE r \in MaskRules
  BY <1>2 DEF MaskRules, ALL_RULES, Decodable, m001_mask_shape_mismatch, m002_prompt_selected,
       m003_padding_selected, m004_canonical_mask_mismatch, mask_violation, Reject
<1> QED BY <1>1, <1>2, IdentityRulesAlways

LEMMA OneRejects ==
  ASSUME NEW c, Decodable(c), NEW stage, NEW r \in RULES_BY_STAGE(stage),
         ALL_RULES(c)[r] = "reject", NEW case, Expected(case) = <<"reject", {r}>>
  PROVE  MeetsExpected(case, c, stage)
<1>1. PICK v : v = ALL_RULES(c) OBVIOUS
<1>2. \A q \in RULES_BY_STAGE(stage) : v[q] # "raise" BY <1>1, NoRaise
<1>3. {q \in RULES_BY_STAGE(stage) : v[q] = "raise"} = {} BY <1>2
<1>4. r \in {q \in RULES_BY_STAGE(stage) : v[q] = "reject"} BY <1>1
<1>5. /\ validate_envelope(c, stage).decision = "reject"
      /\ r \in validate_envelope(c, stage).codes
  BY <1>1, <1>3, <1>4 DEF validate_envelope
<1> QED BY <1>5 DEF MeetsExpected

LEMMA OneQuarantines ==
  ASSUME NEW c, NEW stage, NEW r \in RULES_BY_STAGE(stage), ALL_RULES(c)[r] = "quarantine",
         \A q \in RULES_BY_STAGE(stage) \ {r} : ALL_RULES(c)[q] = "pass",
         NEW case, Expected(case) = <<"quarantine", {r}>>
  PROVE  MeetsExpected(case, c, stage)
<1>1. PICK v : v = ALL_RULES(c) OBVIOUS
<1>2. {q \in RULES_BY_STAGE(stage) : v[q] = "raise"} = {} BY <1>1
<1>3. {q \in RULES_BY_STAGE(stage) : v[q] = "reject"} = {} BY <1>1
<1>4. r \in {q \in RULES_BY_STAGE(stage) : v[q] = "quarantine"} BY <1>1
<1>5. /\ validate_envelope(c, stage).decision = "quarantine"
      /\ r \in validate_envelope(c, stage).codes
  BY <1>1, <1>2, <1>3, <1>4 DEF validate_envelope
<1> QED BY <1>5 DEF MeetsExpected

LEMMA AllPass ==
  ASSUME NEW c, NEW stage, \A q \in RULES_BY_STAGE(stage) : ALL_RULES(c)[q] = "pass",
         NEW case, Expected(case) = <<"allow", {}>>
  PROVE  MeetsExpected(case, c, stage)
<1>1. PICK v : v = ALL_RULES(c) OBVIOUS
<1>2. /\ {q \in RULES_BY_STAGE(stage) : v[q] = "raise"} = {}
      /\ {q \in RULES_BY_STAGE(stage) : v[q] = "reject"} = {}
      /\ {q \in RULES_BY_STAGE(stage) : v[q] = "quarantine"} = {}
  BY <1>1
<1>3. validate_envelope(c, stage).decision = "allow" BY <1>1, <1>2 DEF validate_envelope
<1> QED BY <1>3 DEF MeetsExpected

----------------------------------------------------------------------------
(* Trajectories of the drivers that only the rules on the sync, the empty  *)
(* completion, the provenance of the scorer and the evaluator may stop.    *)

Sensible(o) ==
  /\ o.n = 12 /\ o.span \in Int \X Int /\ o.pads \subseteq Int \X Int
  /\ AlignmentResult(12, o.span, o.pads) # "AlignmentError"
  /\ ~padding_within_completion(o.span, o.pads)

\* A generation of this layout, with the producer's masks.
LaidOut(g, o) ==
  /\ g.tokens.n = 12 /\ g.completion_span = o.span /\ g.padding_spans = o.pads
  /\ g.target_mask = mask(12, completion_target_mask(o.span, o.pads))
  /\ g.loss_mask = mask(11, canonical_loss_mask(12, o.span, o.pads))

OnPolicy(c) ==
  LET g == Gen(c)
  IN  /\ c.manifest # None /\ g.checkpoint = c.manifest.checkpoint
      /\ g.tokenizer = c.manifest.tokenizer /\ g.template = c.manifest.template
      /\ c.protocol.mode = "strict_on_policy" /\ c.env.contract.protocol = "strict_on_policy"
      /\ g.version = 0 /\ c.env.contract.parent_version = 0
      /\ ~(Event(c, g.sync) # None /\ c.events[g.sync].seq > g.seq)

\* One source of logprobs, which is the authoritative one.
OneSource(c) ==
  LET g == Gen(c)
      s == Scoring(c)
      auth == c.env.contract.auth
      count == completion_length(c)
  IN  \/ /\ s = None /\ g.logprobs # None /\ g.logprobs.n = count
         /\ c.env.contract.source = "generation_service" /\ auth = c.env.gen
         /\ Event(c, auth) = g
      \/ /\ s # None /\ g.logprobs = None /\ s.logprobs.n = count
         /\ s.version = g.version /\ s.checkpoint = g.checkpoint /\ s.tokens = g.tokens
         /\ c.env.contract.source = "exact_behavior_scorer" /\ Event(c, auth) = s

Staged(c) ==
  \/ c.env.stage = "pre_reward" /\ c.env.reward = None
  \/ /\ c.env.stage = "pre_update" /\ c.env.reward # None /\ c.env.parent # None
     /\ Typed(c, c.env.parent, "validation_decision") # None
     /\ c.events[c.env.parent].decision = "allow"

Orderly(c, o) ==
  /\ HasGen(c) /\ Sensible(o) /\ LaidOut(Gen(c), o) /\ OnPolicy(c) /\ OneSource(c) /\ Staged(c)
  /\ c.update = None /\ c.canary = None /\ c.corrupt = {} /\ c.split_registry = None
  /\ c.verifiers = None
  /\ c.split # None /\ Gen(c).prompt_id \in c.split.prompts /\ c.split.content = <<>>
  /\ Reward(c) # None => Reward(c).protocol # None /\ Reward(c).status = "success"

LEMMA OrderlyPolicy ==
  ASSUME NEW c, NEW o, Orderly(c, o)
  PROVE  \A r \in {"P001", "P002", "P004", "P005", "P006", "P007", "P008", "P009"} :
           ALL_RULES(c)[r] = "pass"
<1> USE DEF Orderly, OnPolicy, Reject
<1>1. policy_lag(c) = 0 BY DEF policy_lag
<1>2. p007_event_order_invalid(c) = "pass" BY DEF p007_event_order_invalid
<1>3. p008_canary_mismatch(c) = "pass" BY NoneIsNoEvidence DEF p008_canary_mismatch
<1>4. /\ p001_missing_policy_manifest(c) = "pass" /\ p002_checkpoint_hash_mismatch(c) = "pass"
      /\ p004_stale_policy_strict(c) = "pass" /\ p005_lag_exceeds_bound(c) = "pass"
      /\ p006_correction_undeclared(c) = "pass" /\ p009_contract_protocol_mismatch(c) = "pass"
  BY <1>1 DEF p001_missing_policy_manifest, p002_checkpoint_hash_mismatch,
       p004_stale_policy_strict, p005_lag_exceeds_bound, p006_correction_undeclared,
       p009_contract_protocol_mismatch
<1> QED BY <1>2, <1>3, <1>4 DEF ALL_RULES

LEMMA OrderlyMasks ==
  ASSUME NEW c, NEW o, Orderly(c, o)
  PROVE  /\ \A r \in {"M001", "M002", "M003", "M004"} : ALL_RULES(c)[r] = "pass"
         /\ Aligns(c) = AlignmentResult(12, o.span, o.pads) /\ Aligns(c) # "AlignmentError"
         /\ \A a : Readable(c, a)
<1> USE DEF Reject
<1>1. PICK g : g = Gen(c) OBVIOUS
<1>2. /\ g.tokens.n = 12 /\ g.completion_span = o.span /\ g.padding_spans = o.pads
      /\ g.target_mask = mask(12, completion_target_mask(o.span, o.pads))
      /\ g.loss_mask = mask(11, canonical_loss_mask(12, o.span, o.pads))
  BY <1>1 DEF Orderly, LaidOut
<1>3. \A a : Readable(c, a) BY DEF Orderly, Readable
<1>4. Aligns(c) = AlignmentResult(12, o.span, o.pads) /\ Aligns(c) # "AlignmentError"
  BY <1>1, <1>2, <1>3 DEF Aligns, Orderly, Sensible
<1>5. Aligns(c) \in {"Alignment", "EmptyCompletionError"} BY <1>4 DEF AlignmentResult
<1>6. HasGen(c) BY DEF Orderly
<1>7. TargetDecodes(c) /\ LossDecodes(c)
  BY <1>1, <1>2 DEF TargetDecodes, LossDecodes, Decodes, mask
<1>8. CASE Aligns(c) = "EmptyCompletionError"
  <2>1. m001_mask_shape_mismatch(c) = "pass" BY <1>8 DEF m001_mask_shape_mismatch
  <2>2. m002_prompt_selected(c) = "pass" /\ m003_padding_selected(c) = "pass"
        /\ m004_canonical_mask_mismatch(c) = "pass"
    BY <1>8 DEF mask_violation, m002_prompt_selected, m003_padding_selected,
         m004_canonical_mask_mismatch
  <2> QED BY <1>3, <1>4, <2>1, <2>2 DEF ALL_RULES
<1>9. CASE Aligns(c) = "Alignment"
  <2>1. o.span \in Int \X Int BY DEF Orderly, Sensible
  <2>2. AlignmentResult(12, o.span, o.pads) = "Alignment" BY <1>4, <1>9
  <2>3. /\ completion_target_mask(o.span, o.pads) \cap (0..(12 - 1)) = completion_target_mask(o.span, o.pads)
        /\ canonical_loss_mask(12, o.span, o.pads) \cap (0..(12 - 1 - 1)) = canonical_loss_mask(12, o.span, o.pads)
    BY <2>1, <2>2, MasksInside
  <2>4. 12 - 1 - 1 = 11 - 1 OBVIOUS
  <2>5. /\ g.target_mask.sel = completion_target_mask(o.span, o.pads)
        /\ g.loss_mask.sel = canonical_loss_mask(12, o.span, o.pads)
    BY <1>2, <2>3, <2>4 DEF mask
  <2>6. mask_violation(c, FALSE) = "pass" /\ mask_violation(c, TRUE) = "reject"
    BY <1>3, <1>6, <1>7, <1>9 DEF mask_violation
  <2>7. m002_prompt_selected(c) = "pass"
    <3>1. ~\E i \in Gen(c).target_mask.sel : i < Gen(c).completion_span[1]
      BY <1>1, <1>2, <2>1, <2>5 DEF completion_target_mask, Positions
    <3> QED BY <2>6, <3>1, <1>3, <1>6, <1>7, <1>9 DEF m002_prompt_selected, mask_violation
  <2>8. m003_padding_selected(c) = "pass"
    <3>1. Gen(c).target_mask.sel \cap Padding(Gen(c).padding_spans) = {}
      BY <1>1, <1>2, <2>5 DEF completion_target_mask
    <3> QED BY <3>1, <1>3, <1>6, <1>7, <1>9 DEF m003_padding_selected, mask_violation
  <2>9. m004_canonical_mask_mismatch(c) = "pass"
    <3>1. IsCanonical(Gen(c)) BY <1>1, <1>2, <2>5 DEF IsCanonical
    <3> QED BY <3>1, <1>3, <1>7, <2>6 DEF m004_canonical_mask_mismatch
  <2>10. m001_mask_shape_mismatch(c) = "pass"
    <3>1. ~(Gen(c).logprobs # None /\ Gen(c).logprobs.n # completion_length(c))
      BY DEF Orderly, OneSource
    <3> QED BY <3>1, <1>3, <1>6, <1>7, <1>9 DEF m001_mask_shape_mismatch
  <2> QED BY <1>3, <1>4, <2>7, <2>8, <2>9, <2>10 DEF ALL_RULES
<1> QED BY <1>5, <1>8, <1>9

LEMMA OrderlyTokens ==
  ASSUME NEW c, NEW o, Orderly(c, o)
  PROVE  \A r \in {"T001", "T002", "T003", "T004", "T005"} : ALL_RULES(c)[r] = "pass"
<1> USE OrderlyMasks DEF Reject
<1>1. /\ c.update = None /\ HasGen(c) BY DEF Orderly
<1>2. Gen(c).tokenizer = c.manifest.tokenizer /\ Gen(c).template = c.manifest.template
  BY DEF Orderly, OnPolicy
<1>3. t001_artifact_hash_mismatch(c) = "pass" BY DEF t001_artifact_hash_mismatch
<1>4. /\ t002_tokenizer_mismatch(c) = "pass" /\ t003_chat_template_mismatch(c) = "pass"
      /\ t004_token_sequence_mismatch(c) = "pass" /\ t005_span_out_of_range(c) = "pass"
  BY <1>1, <1>2 DEF t002_tokenizer_mismatch, t003_chat_template_mismatch,
       t004_token_sequence_mismatch, t005_span_out_of_range
<1> QED BY <1>3, <1>4 DEF ALL_RULES

LEMMA OrderlyLogprobs ==
  ASSUME NEW c, NEW o, Orderly(c, o)
  PROVE  \A r \in {"L001", "L002", "L003", "L004", "L005", "L007", "L008"} :
           ALL_RULES(c)[r] = "pass"
<1> USE OrderlyMasks DEF Reject, OneSource
<1>1. /\ HasGen(c) /\ c.update = None /\ OneSource(c) BY DEF Orderly
<1>2. ~padding_within_completion(Gen(c).completion_span, Gen(c).padding_spans)
  BY DEF Orderly, Sensible, LaidOut
<1>3. Event(c, c.env.contract.auth) # None BY <1>1 DEF HasGen
<1>4. /\ Gen(c).type = "generation_finished"
      /\ Scoring(c) # None => Scoring(c).type = "behavior_scoring_finished"
  BY <1>1 DEF HasGen, Gen, Scoring, Typed
<1>5. l001_missing_behavior_logprob(c) = "pass" BY <1>1 DEF l001_missing_behavior_logprob
<1>6. l002_source_event_mismatch(c) = "pass" BY <1>1, <1>3, <1>4 DEF l002_source_event_mismatch
<1>7. l003_scorer_policy_mismatch(c) = "pass" BY <1>1 DEF l003_scorer_policy_mismatch
<1>8. l004_token_logprob_length_mismatch(c) = "pass"
  BY <1>1, <1>2 DEF l004_token_logprob_length_mismatch
<1>9. /\ l005_scoring_after_update(c) = "pass" /\ l007_authoritative_source_ambiguous(c) = "pass"
      /\ l008_nonauthoritative_logprob_consumed(c) = "pass"
  BY <1>1 DEF l005_scoring_after_update, l007_authoritative_source_ambiguous,
       l008_nonauthoritative_logprob_consumed
<1> QED BY <1>5, <1>6, <1>7, <1>8, <1>9 DEF ALL_RULES

LEMMA OrderlyData ==
  ASSUME NEW c, NEW o, Orderly(c, o)
  PROVE  \A r \in {"D001", "D002", "D003", "D004", "R001", "R002", "R003", "R004", "R005", "R008"} :
           ALL_RULES(c)[r] = "pass"
<1> USE DEF Reject, Quarantine
<1>1. /\ c.split # None /\ Gen(c).prompt_id \in c.split.prompts /\ c.split.content = <<>>
      /\ c.split_registry = None /\ c.verifiers = None /\ Staged(c)
      /\ Reward(c) # None => Reward(c).protocol # None /\ Reward(c).status = "success"
  BY DEF Orderly
<1>2. d001_split_manifest_missing(c) = "pass" /\ d002_prompt_not_in_declared_split(c) = "pass"
      /\ d003_split_overlap(c) = "pass"
  BY <1>1 DEF d001_split_manifest_missing, d002_prompt_not_in_declared_split, d003_split_overlap
<1>3. d004_prompt_content_mismatch(c) = "pass"
  <2>1. DOMAIN c.split.content = {} BY <1>1
  <2> QED BY <2>1 DEF d004_prompt_content_mismatch
<1>4. r001_reward_protocol_missing(c) = "pass" /\ r002_infra_error_as_task_fail(c) = "pass"
      /\ r008_reward_verifier_unregistered(c) = "pass"
  BY <1>1 DEF r001_reward_protocol_missing, r002_infra_error_as_task_fail,
       r008_reward_verifier_unregistered
<1>5. r003_reward_missing_pre_update(c) = "pass" /\ r004_reward_present_pre_reward(c) = "pass"
      /\ r005_parent_identity_not_allowed(c) = "pass"
  BY <1>1 DEF Staged, r003_reward_missing_pre_update, r004_reward_present_pre_reward,
       r005_parent_identity_not_allowed
<1> QED BY <1>2, <1>3, <1>4, <1>5 DEF ALL_RULES

\* The rules that are left.
FaultRules == {"P003", "M005", "L006", "R006"}

LEMMA OrderlyRules ==
  ASSUME NEW c, NEW o, Orderly(c, o), NEW stage, NEW r \in RULES_BY_STAGE(stage) \ FaultRules
  PROVE  ALL_RULES(c)[r] = "pass"
<1>1. r \in PRE_UPDATE_STAGE_RULES BY IdentityRulesAlways
<1>2. r \in {"P001", "P002", "P004", "P005", "P006", "P007", "P008", "P009"}
             \cup {"M001", "M002", "M003", "M004"} \cup {"T001", "T002", "T003", "T004", "T005"}
             \cup {"L001", "L002", "L003", "L004", "L005", "L007", "L008"}
             \cup {"D001", "D002", "D003", "D004", "R001", "R002", "R003", "R004", "R005", "R008"}
  BY <1>1 DEF PRE_UPDATE_STAGE_RULES, IDENTITY_STAGE_RULES, FaultRules
<1> QED BY <1>2, OrderlyPolicy, OrderlyMasks, OrderlyTokens, OrderlyLogprobs, OrderlyData

\* What of them fires.
LEMMA FaultRulesPass ==
  ASSUME NEW c, NEW o, Orderly(c, o)
  PROVE  /\ Event(c, Gen(c).sync) # None /\ c.events[Gen(c).sync].type \in SYNC_TERMINAL_SUCCESS
              => ALL_RULES(c)["P003"] = "pass"
         /\ o.span[2] - o.span[1] > 0 => ALL_RULES(c)["M005"] = "pass"
         /\ Scoring(c) = None => ALL_RULES(c)["L006"] = "pass"
         /\ (Reward(c) = None \/ c.eval_protocol = None \/ Reward(c).protocol # c.eval_protocol)
              => ALL_RULES(c)["R006"] = "pass"
<1> USE DEF Quarantine
<1>1. ALL_RULES(c)["P003"] = p003_missing_sync_event(c) BY DEF ALL_RULES
<1>2. ALL_RULES(c)["M005"] = m005_empty_completion(c) BY DEF ALL_RULES
<1>3. ALL_RULES(c)["L006"] = l006_unsupported_provenance(c) BY DEF ALL_RULES
<1>4. ALL_RULES(c)["R006"] = r006_evaluator_alias(c) BY DEF ALL_RULES
<1>5. completion_length(c) = o.span[2] - o.span[1] BY DEF Orderly, LaidOut, completion_length
<1>6. o.span[2] - o.span[1] > 0 => ~(o.span[2] - o.span[1] <= 0)
  BY DEF Orderly, Sensible
<1>7. p003_missing_sync_event(c) = "pass"
        \/ ~(Event(c, Gen(c).sync) # None /\ c.events[Gen(c).sync].type \in SYNC_TERMINAL_SUCCESS)
  BY DEF p003_missing_sync_event
<1>8. m005_empty_completion(c) = "pass" \/ ~(o.span[2] - o.span[1] > 0)
  BY <1>5, <1>6 DEF m005_empty_completion
<1>9. l006_unsupported_provenance(c) = "pass" \/ Scoring(c) # None
  BY DEF l006_unsupported_provenance
<1>10. r006_evaluator_alias(c) = "pass"
         \/ ~(Reward(c) = None \/ c.eval_protocol = None \/ Reward(c).protocol # c.eval_protocol)
  BY DEF r006_evaluator_alias
<1> QED BY <1>1, <1>2, <1>3, <1>4, <1>7, <1>8, <1>9, <1>10

----------------------------------------------------------------------------
(* What the drivers hand to an injector.                                   *)

TrajectoryFields ==
  {"events", "env", "manifest", "split", "corrupt", "protocol", "canary", "update",
   "split_registry", "eval_protocol", "verifiers", "bogus_sequence", "requires_update_input"}
ContractFields == {"protocol", "parent_version", "diagnostic", "source", "auth"}

Shaped(t) ==
  /\ DOMAIN t = TrajectoryFields /\ DOMAIN t.env = EnvFields
  /\ DOMAIN t.env.contract = ContractFields

\* No injector has attached anything.
Untouched(t) ==
  /\ t.corrupt = {} /\ t.canary = None /\ t.update = None /\ t.split_registry = None
  /\ t.eval_protocol = None /\ t.verifiers = None /\ t.bogus_sequence = None
  /\ t.requires_update_input = FALSE

\* A generation as the service of the evidence returned it, but for the prompt.
Served(g, o) ==
  /\ g \in GenerationEvents /\ LaidOut(g, o)
  /\ g.version = 0 /\ g.checkpoint = 0 /\ g.sync = canary_ref /\ g.seq \in {10, 11}
  /\ g.tokenizer = "tokenizer" /\ g.template = "template"
  /\ g.tokens.completion = "completion" /\ g.tokens.prompt \in Nat /\ g.tokens.prompt < 32000
  /\ g.logprobs \in LogprobArrays /\ g.logprobs.n = o.span[2] - o.span[1]

LastName(id) == id[Len(id)]

PreUpdate(t) ==
  /\ t.env.stage = "pre_update"
  /\ {t.env.reward, t.env.parent} \subseteq Seq(EvidenceNames) \cap DOMAIN t.events
  /\ LastName(t.env.reward) = "reward" /\ LastName(t.env.parent) = "parent"
  /\ Len(t.env.reward) \in Nat \ {0}
  /\ t.events[t.env.reward] \in RewardEvents /\ t.events[t.env.parent] \in DecisionEvents

Fresh(t, o) ==
  /\ Shaped(t) /\ Untouched(t) /\ Sensible(o)
  /\ t.manifest = make_policy_manifest(0) /\ t.protocol.mode = "strict_on_policy"
  /\ t.split \in SplitManifests /\ t.split.name = "train" /\ t.split.content = <<>>
  /\ t.env.gen \in {gen_id, second_id} /\ t.env.gen \in DOMAIN t.events
  /\ Served(t.events[t.env.gen], o) /\ t.events[t.env.gen].prompt_id \in t.split.prompts
  /\ canary_ref \in DOMAIN t.events
  /\ t.events[canary_ref] \in SyncEvents /\ t.events[canary_ref].type = "canary_passed"
  /\ t.events[canary_ref].seq <= 3
  /\ t.env.scoring = None /\ t.env.contract.protocol = "strict_on_policy"
  /\ t.env.contract.parent_version = 0 /\ t.env.contract.source = "generation_service"
  /\ t.env.contract.auth = t.env.gen
  /\ (t.env.stage = "pre_reward" /\ t.env.reward = None) \/ PreUpdate(t)

LEMMA Ids ==
  /\ {gen_id, second_id, reward_id, sync_id, canary_ref, <<"uinput">>, <<"reward", "second">>}
       \subseteq Seq(EvidenceNames)
  /\ LastName(gen_id) = "gen" /\ LastName(second_id) = "second" /\ LastName(reward_id) = "reward"
  /\ LastName(canary_ref) = "canary_passed" /\ LastName(<<"uinput">>) = "uinput"
  /\ LastName(<<"reward", "second">>) = "second"
  /\ gen_id[1] = "gen" /\ second_id[1] = "gen" /\ reward_id[1] = "reward"
  /\ canary_ref[1] = "sync" /\ Len(reward_id) = 1 /\ Len(gen_id) = 1 /\ Len(second_id) = 2
  /\ sync_id[1] = "sync" /\ Len(sync_id) = 1
<1> USE DEF EvidenceNames, LastName
<1>1. /\ gen_id \in Seq(EvidenceNames) /\ LastName(gen_id) = "gen" /\ gen_id[1] = "gen"
      /\ Len(gen_id) = 1
  BY DEF gen_id
<1>2. second_id \in Seq(EvidenceNames) /\ LastName(second_id) = "second" /\ second_id[1] = "gen"
      /\ Len(second_id) = 2
  BY DEF second_id
<1>3. /\ reward_id \in Seq(EvidenceNames) /\ LastName(reward_id) = "reward"
      /\ reward_id[1] = "reward" /\ Len(reward_id) = 1
  BY DEF reward_id
<1>4. /\ sync_id \in Seq(EvidenceNames) /\ canary_ref \in Seq(EvidenceNames)
      /\ LastName(canary_ref) = "canary_passed" /\ canary_ref[1] = "sync"
      /\ sync_id[1] = "sync" /\ Len(sync_id) = 1
  BY DEF sync_id, canary_ref
<1>5. <<"uinput">> \in Seq(EvidenceNames) /\ LastName(<<"uinput">>) = "uinput" OBVIOUS
<1>6. /\ <<"reward", "second">> \in Seq(EvidenceNames)
      /\ LastName(<<"reward", "second">>) = "second"
  OBVIOUS
<1> QED BY <1>1, <1>2, <1>3, <1>4, <1>5, <1>6

LEMMA Suffixed ==
  ASSUME NEW id \in Seq(EvidenceNames), NEW name \in EvidenceNames
  PROVE  /\ Append(id, name) \in Seq(EvidenceNames) /\ LastName(Append(id, name)) = name
         /\ Len(Append(id, name)) = Len(id) + 1 /\ Append(id, name) # id
         /\ Len(id) > 0 => Append(id, name)[1] = id[1]
BY AppendProperties DEF LastName

LEMMA FreshReads ==
  ASSUME NEW t, NEW o, Fresh(t, o)
  PROVE  /\ Gen(t) = t.events[t.env.gen] /\ HasGen(t) /\ Served(Gen(t), o)
         /\ Gen(t).type = "generation_finished" /\ Gen(t).logprobs # None
         /\ Scoring(t) = None /\ Decodable(t) /\ t.env.gen \in Seq(EvidenceNames)
         /\ t.env.gen # None /\ t.env.gen[1] = "gen" /\ LastName(t.env.gen) \in {"gen", "second"}
         /\ Len(t.env.gen) \in {1, 2}
         /\ Event(t, canary_ref) = t.events[canary_ref] /\ Event(t, canary_ref) # None
         /\ t.env.reward = None => Reward(t) = None
         /\ t.env.reward # None => PreUpdate(t) /\ Reward(t) = t.events[t.env.reward]
<1> USE NoneIsNoEvidence, Ids
<1>1. t.env.gen \in Seq(EvidenceNames) /\ t.env.gen # None /\ t.env.gen[1] = "gen"
      /\ LastName(t.env.gen) \in {"gen", "second"} /\ Len(t.env.gen) \in {1, 2}
  BY DEF Fresh
<1>2. t.events[t.env.gen] \in GenerationEvents BY DEF Fresh, Served
<1>3. t.events[t.env.gen] # None /\ t.events[t.env.gen].type = "generation_finished"
  BY <1>2 DEF GenerationEvents
<1>4. Gen(t) = t.events[t.env.gen] BY <1>1, <1>3 DEF Gen, Typed, Event, Fresh
<1>5. Scoring(t) = None BY DEF Scoring, Typed, Fresh
<1>6. Gen(t).logprobs # None BY <1>4 DEF Fresh, Served
<1>7. Decodable(t)
  <2>1. LaidOut(Gen(t), o) BY <1>4 DEF Fresh, Served
  <2> QED BY <2>1 DEF Decodable, LaidOut, TargetDecodes, LossDecodes, Decodes, mask
<1>8. Event(t, canary_ref) = t.events[canary_ref] /\ Event(t, canary_ref) # None
  BY DEF Fresh, Event
<1>9. t.env.reward = None => Reward(t) = None BY DEF Reward, Typed
<1>10. t.env.reward # None => PreUpdate(t) /\ Reward(t) = t.events[t.env.reward]
  <2> SUFFICES ASSUME t.env.reward # None
               PROVE  PreUpdate(t) /\ Reward(t) = t.events[t.env.reward]
    OBVIOUS
  <2>1. PreUpdate(t) BY DEF Fresh
  <2>2. t.events[t.env.reward] \in RewardEvents /\ t.env.reward \in DOMAIN t.events
    BY <2>1 DEF PreUpdate
  <2>3. t.events[t.env.reward].type = "reward_finished" /\ t.events[t.env.reward] # None
    BY <2>2 DEF RewardEvents
  <2> QED BY <2>1, <2>2, <2>3 DEF Reward, Typed, Event
<1> QED BY <1>1, <1>3, <1>4, <1>5, <1>6, <1>7, <1>8, <1>9, <1>10 DEF HasGen, Fresh

LEMMA FreshOrderly ==
  ASSUME NEW t, NEW o, Fresh(t, o)
  PROVE  Orderly(t, o) /\ Gen(t).sync = canary_ref
         /\ t.events[canary_ref].type \in SYNC_TERMINAL_SUCCESS
<1> USE NoneIsNoEvidence, FreshReads
<1>1. PICK g : g = Gen(t) OBVIOUS
<1>2. Served(g, o) /\ g # None BY <1>1 DEF HasGen
<1>3. OnPolicy(t)
  <2>1. t.manifest = [version |-> 0, checkpoint |-> 0, tokenizer |-> "tokenizer", template |-> "template"]
    BY DEF Fresh, make_policy_manifest
  <2>2. t.manifest # None
    <3>1. t.manifest \in PolicyManifests BY <2>1 DEF PolicyManifests
    <3> QED BY <3>1
  <2>3. /\ g.version = 0 /\ g.checkpoint = 0 /\ g.sync = canary_ref /\ g.seq \in {10, 11}
        /\ g.tokenizer = "tokenizer" /\ g.template = "template"
    BY <1>2 DEF Served
  <2>4. /\ t.protocol.mode = "strict_on_policy" /\ t.env.contract.protocol = "strict_on_policy"
        /\ t.env.contract.parent_version = 0
        /\ t.events[canary_ref].seq <= 3 /\ t.events[canary_ref] \in SyncEvents
    BY DEF Fresh
  <2>5. ~(t.events[canary_ref].seq > g.seq)
    <3>1. t.events[canary_ref].seq \in Int BY <2>4 DEF SyncEvents
    <3> QED BY <2>3, <2>4, <3>1
  <2> QED BY <1>1, <2>1, <2>2, <2>3, <2>4, <2>5 DEF OnPolicy
<1>4. OneSource(t)
  <2>1. completion_length(t) = o.span[2] - o.span[1]
    BY <1>1, <1>2 DEF completion_length, Served, LaidOut
  <2>2. g.logprobs # None /\ g.logprobs.n = o.span[2] - o.span[1] BY <1>1, <1>2 DEF Served
  <2>3. /\ t.env.contract.source = "generation_service" /\ t.env.contract.auth = t.env.gen
        /\ t.env.gen \in DOMAIN t.events
    BY DEF Fresh
  <2>4. Event(t, t.env.gen) = g BY <1>1, <2>3 DEF Event
  <2> QED BY <1>1, <2>1, <2>2, <2>3, <2>4 DEF OneSource
<1>5. Staged(t) /\ (Reward(t) # None => Reward(t).protocol # None /\ Reward(t).status = "success")
  <2>1. CASE t.env.stage = "pre_reward" /\ t.env.reward = None BY <2>1 DEF Staged
  <2>2. CASE PreUpdate(t)
    <3>1. t.env.reward # None /\ t.env.parent # None BY <2>2 DEF PreUpdate
    <3>2. t.events[t.env.parent] \in DecisionEvents /\ t.events[t.env.parent] # None
          /\ t.env.parent \in DOMAIN t.events
      BY <2>2 DEF PreUpdate
    <3>3. /\ t.events[t.env.parent].type = "validation_decision"
          /\ t.events[t.env.parent].decision = "allow"
      BY <3>2 DEF DecisionEvents
    <3>4. Typed(t, t.env.parent, "validation_decision") # None
      BY <3>1, <3>2, <3>3 DEF Typed, Event
    <3>5. Reward(t) \in RewardEvents BY <2>2, <3>1 DEF PreUpdate
    <3>6. Reward(t).protocol # None /\ Reward(t).status = "success" BY <3>5 DEF RewardEvents
    <3> QED BY <2>2, <3>1, <3>3, <3>4, <3>6 DEF Staged, PreUpdate
  <2> QED BY <2>1, <2>2 DEF Fresh
<1>6. t.split # None BY DEF Fresh
<1>7. LaidOut(g, o) /\ g.sync = canary_ref BY <1>2 DEF Served
<1> QED BY <1>1, <1>3, <1>4, <1>5, <1>6, <1>7 DEF Orderly, Fresh, Untouched, SYNC_TERMINAL_SUCCESS

\* Without a fault only an empty completion stops a trajectory.
LEMMA FreshRules ==
  ASSUME NEW t, NEW o, Fresh(t, o), NEW stage, NEW r \in RULES_BY_STAGE(stage),
         r = "M005" => o.span[2] - o.span[1] > 0
  PROVE  ALL_RULES(t)[r] = "pass"
<1>1. Orderly(t, o) BY FreshOrderly
<1>2. CASE r \notin FaultRules BY <1>1, <1>2, OrderlyRules
<1>3. CASE r \in FaultRules
  <2>1. t.eval_protocol = None BY DEF Fresh, Untouched
  <2>2. /\ Gen(t).sync = canary_ref /\ t.events[canary_ref].type \in SYNC_TERMINAL_SUCCESS
        /\ Event(t, canary_ref) # None /\ Scoring(t) = None
    BY FreshOrderly, FreshReads
  <2> QED BY <1>1, <1>3, <2>1, <2>2, FaultRulesPass DEF FaultRules
<1> QED BY <1>2, <1>3

LEMMA FreshAllowed ==
  ASSUME NEW t, NEW o, Fresh(t, o), o.span[2] - o.span[1] > 0, NEW stage,
         NEW case, Expected(case) = <<"allow", {}>>
  PROVE  MeetsExpected(case, t, stage)
BY FreshRules, AllPass

LEMMA EmptyQuarantined ==
  ASSUME NEW t, NEW o, Fresh(t, o), o.span[2] - o.span[1] <= 0, NEW stage
  PROVE  MeetsExpected("empty_completion", t, stage)
<1>1. \A r \in RULES_BY_STAGE(stage) \ {"M005"} : ALL_RULES(t)[r] = "pass" BY FreshRules
<1>2. "M005" \in RULES_BY_STAGE(stage) BY IdentityRulesAlways DEF IDENTITY_STAGE_RULES
<1>3. ALL_RULES(t)["M005"] = "quarantine"
  <2>1. completion_length(t) <= 0 /\ HasGen(t)
    BY FreshOrderly, FreshReads DEF Orderly, LaidOut, completion_length
  <2>2. ALL_RULES(t)["M005"] = m005_empty_completion(t) BY DEF ALL_RULES
  <2> QED BY <2>1, <2>2 DEF m005_empty_completion, Quarantine
<1>4. Expected("empty_completion") = <<"quarantine", {"M005"}>> BY DEF Expected
<1> QED BY <1>1, <1>2, <1>3, <1>4, OneQuarantines

----------------------------------------------------------------------------
(* What an injector leaves of a trajectory.                                *)

\* f is ev with the event e under id.
Added(f, ev, id, e) ==
  /\ DOMAIN f = {id} \cup DOMAIN ev /\ f[id] = e
  /\ \A j \in DOMAIN ev : j # id => f[j] = ev[j]

LEMMA AddedIs ==
  ASSUME NEW ev, NEW id, NEW e
  PROVE  Added(id :> e @@ ev, ev, id, e)
BY DEF :>, @@, Added

SameRest(n, t) ==
  /\ n.manifest = t.manifest /\ n.split = t.split /\ n.corrupt = t.corrupt
  /\ n.protocol = t.protocol /\ n.canary = t.canary /\ n.update = t.update
  /\ n.split_registry = t.split_registry /\ n.eval_protocol = t.eval_protocol
  /\ n.verifiers = t.verifiers /\ n.bogus_sequence = t.bogus_sequence
  /\ n.requires_update_input = t.requires_update_input

SameEnvelope(n, t) ==
  /\ n.env.stage = t.env.stage /\ n.env.reward = t.env.reward /\ n.env.parent = t.env.parent
  /\ n.env.contract.protocol = t.env.contract.protocol

IsRenamed(n, t, id, g) ==
  /\ Shaped(n) /\ SameRest(n, t) /\ SameEnvelope(n, t)
  /\ n.env.gen = id /\ n.env.contract.auth = id /\ n.env.scoring = t.env.scoring
  /\ n.env.contract.parent_version = t.env.contract.parent_version
  /\ n.env.contract.source = t.env.contract.source
  /\ Added(n.events, t.events, id, g)

LEMMA RenamedIs ==
  ASSUME NEW t, Shaped(t), NEW suffix, NEW g
  PROVE  IsRenamed(Renamed(t, suffix, g), t, Append(t.env.gen, suffix), g)
<1>1. PICK n : n = Renamed(t, suffix, g) OBVIOUS
<1>2. PICK id : id = Append(t.env.gen, suffix) OBVIOUS
<1> SUFFICES IsRenamed(n, t, id, g) BY <1>1, <1>2
<1> USE DEF Shaped, TrajectoryFields, EnvFields, ContractFields
<1>3. PICK ev : ev = (id :> g @@ t.events) OBVIOUS
<1>4. PICK k : k = [t.env.contract EXCEPT !.auth = id] OBVIOUS
<1>9. PICK env : env = [t.env EXCEPT !.gen = id, !.contract = k] OBVIOUS
<1>10. n = [t EXCEPT !.events = ev, !.env = env] BY <1>1, <1>2, <1>3, <1>4, <1>9 DEF Renamed
<1>5. /\ DOMAIN k = ContractFields /\ k.auth = id /\ k.parent_version = t.env.contract.parent_version
      /\ k.source = t.env.contract.source /\ k.protocol = t.env.contract.protocol
  BY <1>4
<1>6. /\ DOMAIN env = EnvFields /\ env.contract = k /\ env.gen = id /\ env.stage = t.env.stage
      /\ env.reward = t.env.reward /\ env.parent = t.env.parent /\ env.scoring = t.env.scoring
  BY <1>9
<1>7. DOMAIN n = TrajectoryFields /\ n.env = env /\ n.events = ev /\ SameRest(n, t)
  BY <1>10 DEF SameRest
<1>8. Added(ev, t.events, id, g) BY <1>3, AddedIs
<1> QED BY <1>5, <1>6, <1>7, <1>8 DEF SameEnvelope, IsRenamed

IsScored(n, t, id, e) ==
  /\ Shaped(n) /\ SameRest(n, t) /\ SameEnvelope(n, t)
  /\ n.env.gen = t.env.gen /\ n.env.scoring = id /\ n.env.contract = t.env.contract
  /\ Added(n.events, t.events, id, e)

LEMMA ScoredIs ==
  ASSUME NEW t, Shaped(t), NEW suffix, NEW e
  PROVE  IsScored(Scored(t, suffix, e), t, Append(t.env.gen, suffix), e)
<1>1. PICK n : n = Scored(t, suffix, e) OBVIOUS
<1>2. PICK id : id = Append(t.env.gen, suffix) OBVIOUS
<1> SUFFICES IsScored(n, t, id, e) BY <1>1, <1>2
<1> USE DEF Shaped, TrajectoryFields, EnvFields, ContractFields
<1>3. PICK ev : ev = (id :> e @@ t.events) OBVIOUS
<1>4. PICK env : env = [t.env EXCEPT !.scoring = id] OBVIOUS
<1>5. n = [t EXCEPT !.events = ev, !.env = env] BY <1>1, <1>2, <1>3, <1>4 DEF Scored
<1>6. /\ DOMAIN env = EnvFields /\ env.contract = t.env.contract /\ env.gen = t.env.gen
      /\ env.stage = t.env.stage /\ env.reward = t.env.reward /\ env.parent = t.env.parent
      /\ env.scoring = id
  BY <1>4
<1>7. DOMAIN n = TrajectoryFields /\ n.env = env /\ n.events = ev /\ SameRest(n, t)
  BY <1>5 DEF SameRest
<1>8. Added(ev, t.events, id, e) BY <1>3, AddedIs
<1> QED BY <1>6, <1>7, <1>8 DEF SameEnvelope, IsScored

IsResourced(n, t, scoring) ==
  /\ Shaped(n) /\ SameRest(n, t) /\ SameEnvelope(n, t) /\ n.events = t.events
  /\ n.env.gen = t.env.gen /\ n.env.scoring = t.env.scoring
  /\ n.env.contract.parent_version = t.env.contract.parent_version
  /\ n.env.contract.source = "exact_behavior_scorer" /\ n.env.contract.auth = scoring

LEMMA ResourcedIs ==
  ASSUME NEW t, Shaped(t), NEW scoring
  PROVE  IsResourced(Resourced(t, scoring), t, scoring)
<1>1. PICK n : n = Resourced(t, scoring) OBVIOUS
<1> SUFFICES IsResourced(n, t, scoring) BY <1>1
<1> USE DEF Shaped, TrajectoryFields, EnvFields, ContractFields
<1>2. PICK k : k = [t.env.contract EXCEPT !.source = "exact_behavior_scorer", !.auth = scoring] OBVIOUS
<1>3. PICK env : env = [t.env EXCEPT !.contract = k] OBVIOUS
<1>4. n = [t EXCEPT !.env = env] BY <1>1, <1>2, <1>3 DEF Resourced
<1>5. /\ DOMAIN k = ContractFields /\ k.auth = scoring /\ k.source = "exact_behavior_scorer"
      /\ k.parent_version = t.env.contract.parent_version /\ k.protocol = t.env.contract.protocol
  BY <1>2
<1>6. /\ DOMAIN env = EnvFields /\ env.contract = k /\ env.gen = t.env.gen /\ env.stage = t.env.stage
      /\ env.reward = t.env.reward /\ env.parent = t.env.parent /\ env.scoring = t.env.scoring
  BY <1>3
<1>7. DOMAIN n = TrajectoryFields /\ n.env = env /\ n.events = t.events /\ SameRest(n, t)
  BY <1>4 DEF SameRest
<1> QED BY <1>5, <1>6, <1>7 DEF SameEnvelope, IsResourced

IsRebuilt(n, t) == Shaped(n) /\ SameRest(n, t) /\ Untouched(n) /\ n.events = t.events /\ n.env = t.env

LEMMA RebuiltIs ==
  ASSUME NEW t, Shaped(t), Untouched(t)
  PROVE  IsRebuilt(Rebuilt(t), t)
<1> USE DEF Shaped, TrajectoryFields, Untouched
<1>4. PICK n : n = Rebuilt(t) OBVIOUS
<1>1. n = [t EXCEPT !.split_registry = None, !.eval_protocol = None, !.verifiers = None,
                    !.requires_update_input = FALSE]
  BY <1>4 DEF Rebuilt
<1>2. DOMAIN n = TrajectoryFields /\ n.events = t.events /\ n.env = t.env BY <1>1
<1>3. SameRest(n, t) BY <1>1 DEF SameRest
<1> QED BY <1>2, <1>3, <1>4 DEF SameRest, IsRebuilt

LEMMA ReadsGeneration ==
  ASSUME NEW c, c.env.gen \in Seq(EvidenceNames), c.env.gen \in DOMAIN c.events,
         NEW g, c.events[c.env.gen] = g, g \in GenerationEvents
  PROVE  Gen(c) = g /\ HasGen(c)
<1>1. g # None /\ g.type = "generation_finished" BY NoneIsNoEvidence DEF GenerationEvents
<1>2. c.env.gen # None BY NoneIsNoEvidence
<1> QED BY <1>1, <1>2 DEF Gen, HasGen, Typed, Event

LEMMA ReadsScoring ==
  ASSUME NEW c, c.env.scoring \in Seq(EvidenceNames), c.env.scoring \in DOMAIN c.events,
         NEW s, c.events[c.env.scoring] = s, s \in ScoringEvents
  PROVE  Scoring(c) = s /\ s # None
<1>1. s # None /\ s.type = "behavior_scoring_finished" BY NoneIsNoEvidence DEF ScoringEvents
<1>2. c.env.scoring # None BY NoneIsNoEvidence
<1> QED BY <1>1, <1>2 DEF Scoring, Typed, Event

LEMMA Decodes12 ==
  ASSUME NEW c, NEW o, LaidOut(Gen(c), o)
  PROVE  Decodable(c)
BY DEF Decodable, LaidOut, TargetDecodes, LossDecodes, Decodes, mask

\* A trajectory that is replayed as it is.
Plain(x) == x.bogus_sequence = None /\ x.requires_update_input = FALSE

\* A rebuilt trajectory whose generation event is a changed copy.
IsSwapped(x, t, id, g) ==
  /\ IsRenamed(x, t, id, g) /\ Untouched(x) /\ Plain(x) /\ id \in Seq(EvidenceNames)
  /\ Gen(x) = g /\ HasGen(x)

LEMMA SwappedIs ==
  ASSUME NEW t, NEW o, Fresh(t, o), NEW suffix \in EvidenceNames, NEW g \in GenerationEvents
  PROVE  IsSwapped(Rebuilt(Renamed(t, suffix, g)), t, Append(t.env.gen, suffix), g)
<1>1. PICK id : id = Append(t.env.gen, suffix) OBVIOUS
<1>2. PICK n : n = Renamed(t, suffix, g) OBVIOUS
<1>3. PICK x : x = Rebuilt(n) OBVIOUS
<1>4. Shaped(t) /\ Untouched(t) /\ t.env.gen \in Seq(EvidenceNames) BY FreshReads DEF Fresh
<1>5. IsRenamed(n, t, id, g) BY <1>1, <1>2, <1>4, RenamedIs
<1>6. Shaped(n) /\ SameRest(n, t) BY <1>5 DEF IsRenamed
<1>7. Untouched(n) BY <1>4, <1>6 DEF Untouched, SameRest
<1>8. IsRebuilt(x, n) BY <1>3, <1>6, <1>7, RebuiltIs
<1>9. Shaped(x) /\ SameRest(x, n) /\ Untouched(x) /\ x.events = n.events /\ x.env = n.env
  BY <1>8 DEF IsRebuilt
<1>10. SameRest(x, t) BY <1>6, <1>9 DEF SameRest
<1>11. IsRenamed(x, t, id, g) BY <1>5, <1>9, <1>10 DEF IsRenamed, SameEnvelope
<1>12. id \in Seq(EvidenceNames) BY <1>1, <1>4, Suffixed
<1>13. x.env.gen = id /\ Added(x.events, t.events, id, g) BY <1>11 DEF IsRenamed
<1>14. x.env.gen \in DOMAIN x.events /\ x.events[x.env.gen] = g BY <1>13 DEF Added
<1>15. Gen(x) = g /\ HasGen(x) BY <1>12, <1>13, <1>14, ReadsGeneration
<1>16. Plain(x) BY <1>9 DEF Plain, Untouched
<1> QED BY <1>1, <1>2, <1>3, <1>9, <1>11, <1>12, <1>15, <1>16 DEF IsSwapped

----------------------------------------------------------------------------
(* F1 to F4.                                                               *)

LEMMA StaticRollout ==
  ASSUME NEW t, NEW o, Fresh(t, o), NEW claimed \in {1, 2}, NEW stage,
         NEW case, Expected(case) = <<"reject", {"P004"}>>
  PROVE  /\ MeetsExpected(case, inject_f1_static_rollout(t, 0, claimed), stage)
         /\ Plain(inject_f1_static_rollout(t, 0, claimed))
<1>1. PICK g : g = [Gen(t) EXCEPT !.version = 0] OBVIOUS
<1>2. Gen(t) \in GenerationEvents /\ LaidOut(Gen(t), o) BY FreshReads DEF Served
<1>3. g \in GenerationEvents /\ g.version = 0 /\ LaidOut(g, o)
  <2>1. g \in GenerationEvents BY <1>1, <1>2 DEF GenerationEvents
  <2>2. /\ g.version = 0 /\ g.tokens = Gen(t).tokens /\ g.completion_span = Gen(t).completion_span
        /\ g.padding_spans = Gen(t).padding_spans /\ g.target_mask = Gen(t).target_mask
        /\ g.loss_mask = Gen(t).loss_mask
    BY <1>1, <1>2 DEF GenerationEvents
  <2> QED BY <1>2, <2>1, <2>2 DEF LaidOut
<1>4. PICK n : n = Renamed(t, "f1", g) OBVIOUS
<1>5. PICK id : id = Append(t.env.gen, "f1") OBVIOUS
<1>6. Shaped(t) /\ Untouched(t) /\ t.env.gen \in Seq(EvidenceNames) BY FreshReads DEF Fresh
<1>7. IsRenamed(n, t, id, g) BY <1>4, <1>5, <1>6, RenamedIs
<1>8. Shaped(n) /\ SameRest(n, t) /\ n.env.gen = id /\ Added(n.events, t.events, id, g)
  BY <1>7 DEF IsRenamed
<1>9. id \in Seq(EvidenceNames)
  <2>1. "f1" \in EvidenceNames BY DEF EvidenceNames
  <2> QED BY <1>5, <1>6, <2>1, Suffixed
<1>10. PICK k : k = [n.env.contract EXCEPT !.parent_version = claimed, !.diagnostic = FALSE] OBVIOUS
<1>11. PICK env : env = [n.env EXCEPT !.contract = k] OBVIOUS
<1>12. PICK m : m = [n EXCEPT !.env = env] OBVIOUS
<1>13. PICK x : x = Rebuilt(m) OBVIOUS
<1>14. DOMAIN n = TrajectoryFields /\ DOMAIN n.env = EnvFields /\ DOMAIN n.env.contract = ContractFields
  BY <1>8 DEF Shaped
<1>15. DOMAIN k = ContractFields /\ k.parent_version = claimed
  BY <1>10, <1>14 DEF ContractFields
<1>16. DOMAIN env = EnvFields /\ env.contract = k /\ env.gen = id
  BY <1>8, <1>11, <1>14 DEF EnvFields
<1>17. DOMAIN m = TrajectoryFields /\ m.env = env /\ m.events = n.events /\ SameRest(m, n)
  BY <1>12, <1>14 DEF TrajectoryFields, SameRest
<1>18. m = [n EXCEPT !.env.contract.parent_version = claimed, !.env.contract.diagnostic = FALSE]
  <2>1. k = [[n.env.contract EXCEPT !.parent_version = claimed] EXCEPT !.diagnostic = FALSE]
    BY <1>10
  <2> QED BY <1>10, <1>11, <1>12, <1>14, <2>1 DEF TrajectoryFields, EnvFields, ContractFields
<1>19. x = inject_f1_static_rollout(t, 0, claimed)
  BY <1>1, <1>4, <1>13, <1>18 DEF inject_f1_static_rollout
<1>20. Shaped(m) BY <1>15, <1>16, <1>17 DEF Shaped
<1>21. Untouched(m) /\ m.protocol = t.protocol BY <1>6, <1>8, <1>17 DEF Untouched, SameRest
<1>22. IsRebuilt(x, m) BY <1>13, <1>20, <1>21, RebuiltIs
<1>23. SameRest(x, m) /\ x.events = n.events /\ x.env = env /\ Untouched(x)
  BY <1>17, <1>22 DEF IsRebuilt
<1>24. id \in DOMAIN x.events /\ x.events[id] = g BY <1>8, <1>23 DEF Added
<1>25. Gen(x) = g /\ HasGen(x) BY <1>3, <1>9, <1>16, <1>23, <1>24, ReadsGeneration
<1>26. Decodable(x) BY <1>3, <1>25, Decodes12
<1>27. x.protocol.mode = "strict_on_policy" BY <1>21, <1>23 DEF SameRest, Fresh
<1>28. policy_lag(x) > 0 BY <1>3, <1>15, <1>16, <1>23, <1>25 DEF policy_lag
<1>29. ALL_RULES(x)["P004"] = p004_stale_policy_strict(x) BY DEF ALL_RULES
<1>30. ALL_RULES(x)["P004"] = "reject" BY <1>25, <1>27, <1>28, <1>29 DEF p004_stale_policy_strict, Reject
<1>31. "P004" \in RULES_BY_STAGE(stage) BY IdentityRulesAlways DEF IDENTITY_STAGE_RULES
<1>32. MeetsExpected(case, x, stage) BY <1>26, <1>30, <1>31, OneRejects
<1> QED BY <1>19, <1>23, <1>32 DEF Plain, Untouched

\* The sync events of the evidence; the first of them is a request.
Chain(ev) ==
  /\ Append(sync_id, "sync_requested") \in DOMAIN ev
  /\ ev[Append(sync_id, "sync_requested")].seq = 0
  /\ \A id \in DOMAIN ev : id[1] = "sync" =>
       /\ id \in Seq(EvidenceNames) /\ ev[id] \in SyncEvents /\ ev[id].seq >= 0
       /\ ev[id].seq = 0 => ev[id].type = "sync_requested"

Earliest(id, ids, ev) == id \in ids /\ \A other \in ids : ev[id].seq <= ev[other].seq

LEMMA FirstSync ==
  ASSUME NEW ev, Chain(ev), NEW ids, ids = {id \in DOMAIN ev : id[1] = "sync"}
  PROVE  /\ \E id \in ids : Earliest(id, ids, ev)
         /\ \A id \in ids : Earliest(id, ids, ev) =>
              /\ id \in Seq(EvidenceNames) /\ ev[id] \in SyncEvents
              /\ ev[id].type = "sync_requested" /\ ev[id].seq = 0
<1>1. PICK r : r = Append(sync_id, "sync_requested") OBVIOUS
<1>2. r \in ids /\ ev[r].seq = 0
  <2>1. "sync_requested" \in EvidenceNames BY DEF EvidenceNames
  <2>2. r[1] = "sync" BY <1>1, <2>1, Ids, Suffixed
  <2> QED BY <1>1, <2>2 DEF Chain
<1>3. \A id \in ids : ev[id] \in SyncEvents /\ ev[id].seq >= 0 BY DEF Chain
<1>4. Earliest(r, ids, ev) BY <1>2, <1>3 DEF SyncEvents, Earliest
<1>5. ASSUME NEW id \in ids, Earliest(id, ids, ev)
      PROVE  /\ id \in Seq(EvidenceNames) /\ ev[id] \in SyncEvents
             /\ ev[id].type = "sync_requested" /\ ev[id].seq = 0
  <2>1. ev[id].seq <= 0 BY <1>2, <1>5 DEF Earliest
  <2>2. ev[id].seq >= 0 /\ ev[id].seq \in Int BY <1>3 DEF SyncEvents
  <2>3. ev[id].seq = 0 BY <2>1, <2>2
  <2> QED BY <1>3, <2>3 DEF Chain
<1> QED BY <1>2, <1>4, <1>5

\* A rollout before its reward.
Rollout(t, o) == Fresh(t, o) /\ t.env.stage = "pre_reward" /\ t.env.reward = None

\* What of a generation a fault leaves, if it changes the sync or the source.
SameRollout(g, h) ==
  /\ g.version = h.version /\ g.checkpoint = h.checkpoint /\ g.tokenizer = h.tokenizer
  /\ g.template = h.template /\ g.seq = h.seq /\ g.prompt_id = h.prompt_id /\ g.tokens = h.tokens
  /\ g.completion_span = h.completion_span /\ g.padding_spans = h.padding_spans
  /\ g.target_mask = h.target_mask /\ g.loss_mask = h.loss_mask

LEMMA SameLayout ==
  ASSUME NEW g, NEW h, NEW o, SameRollout(g, h), LaidOut(h, o)
  PROVE  LaidOut(g, o)
BY DEF SameRollout, LaidOut

LEMMA SameOnPolicy ==
  ASSUME NEW t, NEW o, Rollout(t, o), NEW x, SameRest(x, t), SameEnvelope(x, t),
         x.env.contract.parent_version = 0, SameRollout(Gen(x), Gen(t)),
         ~(Event(x, Gen(x).sync) # None /\ x.events[Gen(x).sync].seq > Gen(x).seq)
  PROVE  OnPolicy(x) /\ Staged(x) /\ LaidOut(Gen(x), o)
         /\ x.split # None /\ Gen(x).prompt_id \in x.split.prompts /\ x.split.content = <<>>
         /\ x.split_registry = None /\ x.verifiers = None /\ x.update = None /\ x.canary = None
         /\ x.corrupt = {} /\ Reward(x) = None
<1>1. Fresh(t, o) BY DEF Rollout
<1>2. OnPolicy(t) /\ LaidOut(Gen(t), o) /\ Gen(t).version = 0
  BY <1>1, FreshOrderly DEF Orderly, OnPolicy
<1>3. /\ t.split # None /\ Gen(t).prompt_id \in t.split.prompts /\ t.split.content = <<>>
      /\ t.split_registry = None /\ t.verifiers = None /\ t.update = None /\ t.canary = None
      /\ t.corrupt = {}
  BY <1>1, FreshOrderly DEF Orderly
<1>4. LaidOut(Gen(x), o) BY <1>2, SameLayout
<1>5. x.manifest = t.manifest /\ x.protocol = t.protocol /\ x.env.contract.protocol = t.env.contract.protocol
  BY DEF SameRest, SameEnvelope
<1>6. /\ Gen(x).version = Gen(t).version /\ Gen(x).checkpoint = Gen(t).checkpoint
      /\ Gen(x).tokenizer = Gen(t).tokenizer /\ Gen(x).template = Gen(t).template
      /\ Gen(x).prompt_id = Gen(t).prompt_id
  BY DEF SameRollout
<1>7. OnPolicy(x) BY <1>2, <1>5, <1>6 DEF OnPolicy
<1>8. x.env.stage = "pre_reward" /\ x.env.reward = None BY DEF SameEnvelope, Rollout
<1>9. Reward(x) = None BY <1>8 DEF Reward, Typed
<1> QED BY <1>3, <1>4, <1>6, <1>7, <1>8, <1>9 DEF Staged, SameRest

LEMMA StaleSync ==
  ASSUME NEW t, NEW o, Rollout(t, o), Chain(t.events), o.span[2] - o.span[1] > 0, NEW stage
  PROVE  MeetsExpected("f1:held_out", inject_f1_stale_sync(t), stage) /\ Plain(inject_f1_stale_sync(t))
<1>40. PICK Syncs : Syncs = {id \in DOMAIN t.events : id[1] = "sync"} OBVIOUS
<1>1. PICK first : first = CHOOSE id \in Syncs : \A other \in Syncs : t.events[id].seq <= t.events[other].seq
  OBVIOUS
<1>2. /\ first \in DOMAIN t.events /\ first[1] = "sync" /\ first \in Seq(EvidenceNames)
      /\ t.events[first] \in SyncEvents /\ t.events[first].type = "sync_requested"
      /\ t.events[first].seq = 0
  <2>1. \E id \in Syncs : Earliest(id, Syncs, t.events) BY <1>40, FirstSync
  <2>2. first \in Syncs /\ Earliest(first, Syncs, t.events) BY <1>1, <2>1 DEF Earliest
  <2> QED BY <1>40, <2>2, FirstSync
<1>3. Fresh(t, o) BY DEF Rollout
<1>4. PICK h : h = Gen(t) OBVIOUS
<1>5. h \in GenerationEvents /\ h.seq \in {10, 11} BY <1>3, <1>4, FreshReads DEF Served
<1>6. h.logprobs # None /\ h.logprobs.n = o.span[2] - o.span[1]
  BY <1>3, <1>4, FreshReads DEF Served
<1>7. PICK g : g = [h EXCEPT !.sync = first] OBVIOUS
<1>8. g \in GenerationEvents BY <1>2, <1>5, <1>7 DEF GenerationEvents
<1>9. g.sync = first /\ SameRollout(g, h) /\ g.logprobs = h.logprobs
  BY <1>5, <1>7 DEF GenerationEvents, SameRollout
<1>10. PICK id : id = Append(t.env.gen, "f1stale") OBVIOUS
<1>11. PICK x : x = Rebuilt(Renamed(t, "f1stale", g)) OBVIOUS
<1>12. x = inject_f1_stale_sync(t) BY <1>1, <1>40, <1>4, <1>7, <1>11 DEF inject_f1_stale_sync
<1>13. "f1stale" \in EvidenceNames BY DEF EvidenceNames
<1>14. IsSwapped(x, t, id, g) BY <1>3, <1>8, <1>10, <1>11, <1>13, SwappedIs
<1>15. Gen(x) = g /\ HasGen(x) /\ Plain(x) /\ IsRenamed(x, t, id, g) /\ Untouched(x)
  BY <1>14 DEF IsSwapped
<1>16. /\ SameRest(x, t) /\ SameEnvelope(x, t) /\ x.env.gen = id /\ x.env.contract.auth = id
       /\ x.env.scoring = None /\ x.env.contract.parent_version = 0
       /\ x.env.contract.source = "generation_service"
  BY <1>3, <1>15 DEF IsRenamed, Fresh
<1>17. Added(x.events, t.events, id, g) BY <1>15 DEF IsRenamed
<1>18. id[1] = "gen"
  <2>1. t.env.gen \in Seq(EvidenceNames) /\ t.env.gen[1] = "gen" /\ Len(t.env.gen) > 0
    BY <1>3, FreshReads
  <2> QED BY <1>10, <1>13, <2>1, Suffixed
<1>19. first # id BY <1>2, <1>18
<1>20. first \in DOMAIN x.events /\ x.events[first] = t.events[first]
  BY <1>2, <1>17, <1>19 DEF Added
<1>21. Event(x, id) = g BY <1>17 DEF Added, Event
<1>22. ~(Event(x, Gen(x).sync) # None /\ x.events[Gen(x).sync].seq > Gen(x).seq)
  <2>1. g.seq = h.seq BY <1>9 DEF SameRollout
  <2> QED BY <1>2, <1>5, <1>9, <1>15, <1>20, <2>1
<1>23. SameRollout(Gen(x), Gen(t)) BY <1>4, <1>9, <1>15
<1>24. /\ OnPolicy(x) /\ Staged(x) /\ LaidOut(g, o) /\ x.split # None /\ g.prompt_id \in x.split.prompts
       /\ x.split.content = <<>> /\ x.split_registry = None /\ x.verifiers = None
       /\ x.update = None /\ x.canary = None /\ x.corrupt = {} /\ Reward(x) = None
  BY <1>15, <1>16, <1>22, <1>23, SameOnPolicy
<1>25. Scoring(x) = None BY <1>16 DEF Scoring, Typed
<1>26. completion_length(x) = o.span[2] - o.span[1] BY <1>15, <1>24 DEF completion_length, LaidOut
<1>27. OneSource(x) BY <1>6, <1>9, <1>15, <1>16, <1>21, <1>25, <1>26 DEF OneSource
<1>28. Sensible(o) BY <1>3 DEF Fresh
<1>29. Orderly(x, o) BY <1>15, <1>24, <1>27, <1>28 DEF Orderly
<1>30. ALL_RULES(x)["P003"] = "quarantine"
  <2>1. ALL_RULES(x)["P003"] = p003_missing_sync_event(x) BY DEF ALL_RULES
  <2>2. x.events[g.sync].type \notin SYNC_TERMINAL_SUCCESS BY <1>2, <1>9, <1>20 DEF SYNC_TERMINAL_SUCCESS
  <2> QED BY <1>15, <2>1, <2>2 DEF p003_missing_sync_event, Quarantine
<1>31. \A r \in RULES_BY_STAGE(stage) \ {"P003"} : ALL_RULES(x)[r] = "pass"
  <2> TAKE r \in RULES_BY_STAGE(stage) \ {"P003"}
  <2>1. x.eval_protocol = None BY <1>15 DEF Untouched
  <2>2. CASE r \notin FaultRules BY <1>29, <2>2, OrderlyRules
  <2>3. CASE r \in FaultRules BY <1>24, <1>25, <1>29, <2>1, <2>3, FaultRulesPass DEF FaultRules
  <2> QED BY <2>2, <2>3
<1>32. "P003" \in RULES_BY_STAGE(stage) BY IdentityRulesAlways DEF IDENTITY_STAGE_RULES
<1>33. Expected("f1:held_out") = <<"quarantine", {"P003"}>> BY DEF Expected
<1>34. MeetsExpected("f1:held_out", x, stage) BY <1>30, <1>31, <1>32, <1>33, OneQuarantines
<1> QED BY <1>12, <1>15, <1>34

LEMMA FreshManifest ==
  ASSUME NEW t, NEW o, Fresh(t, o)
  PROVE  /\ t.manifest # None /\ t.manifest.tokenizer = "tokenizer" /\ t.manifest.template = "template"
         /\ t.manifest.version = 0 /\ t.manifest.checkpoint = 0
<1>1. t.manifest = [version |-> 0, checkpoint |-> 0, tokenizer |-> "tokenizer", template |-> "template"]
  BY DEF Fresh, make_policy_manifest
<1>2. t.manifest \in PolicyManifests BY <1>1 DEF PolicyManifests
<1> QED BY <1>1, <1>2, NoneIsNoEvidence

LEMMA Retokenized ==
  ASSUME NEW t, NEW o, Fresh(t, o), NEW template \in {"template", "bad"}, NEW stage,
         NEW case, Expected(case) = <<"reject", {"T002"}>>
  PROVE  /\ MeetsExpected(case, inject_f3_retokenization(t, template), stage)
         /\ Plain(inject_f3_retokenization(t, template))
<1>1. PICK h : h = Gen(t) OBVIOUS
<1>2. h \in GenerationEvents /\ LaidOut(h, o) BY <1>1, FreshReads DEF Served
<1>3. PICK g : g = [h EXCEPT !.tokenizer = "bad", !.template = template] OBVIOUS
<1>4. g \in GenerationEvents BY <1>2, <1>3 DEF GenerationEvents
<1>5. /\ g.tokenizer = "bad" /\ g.tokens = h.tokens /\ g.completion_span = h.completion_span
      /\ g.padding_spans = h.padding_spans /\ g.target_mask = h.target_mask /\ g.loss_mask = h.loss_mask
  BY <1>2, <1>3 DEF GenerationEvents
<1>6. LaidOut(g, o) BY <1>2, <1>5 DEF LaidOut
<1>7. PICK x : x = Rebuilt(Renamed(t, "f3", g)) OBVIOUS
<1>8. x = inject_f3_retokenization(t, template) BY <1>1, <1>3, <1>7 DEF inject_f3_retokenization
<1>9. "f3" \in EvidenceNames BY DEF EvidenceNames
<1>10. IsSwapped(x, t, Append(t.env.gen, "f3"), g) BY <1>4, <1>7, <1>9, SwappedIs
<1>11. Gen(x) = g /\ HasGen(x) /\ Plain(x) /\ SameRest(x, t) BY <1>10 DEF IsSwapped, IsRenamed
<1>12. Decodable(x) BY <1>6, <1>11, Decodes12
<1>13. ALL_RULES(x)["T002"] = "reject"
  <2>1. ALL_RULES(x)["T002"] = t002_tokenizer_mismatch(x) BY DEF ALL_RULES
  <2>2. x.manifest # None /\ x.manifest.tokenizer = "tokenizer" BY <1>11, FreshManifest DEF SameRest
  <2> QED BY <1>5, <1>11, <2>1, <2>2 DEF t002_tokenizer_mismatch, Reject
<1>14. "T002" \in RULES_BY_STAGE(stage) BY IdentityRulesAlways DEF IDENTITY_STAGE_RULES
<1> QED BY <1>8, <1>11, <1>12, <1>13, <1>14, OneRejects

\* With an update input attached the rest of a trajectory reads as before.
IsAttached(x, t, u) ==
  /\ Gen(x) = Gen(t) /\ (HasGen(t) => HasGen(x)) /\ Scoring(x) = Scoring(t) /\ x.update = u
  /\ Decodable(t) => Decodable(x)

LEMMA AttachedIs ==
  ASSUME NEW t, Shaped(t), NEW u
  PROVE  IsAttached([t EXCEPT !.update = u], t, u)
<1>1. PICK x : x = [t EXCEPT !.update = u] OBVIOUS
<1>2. x.env = t.env /\ x.events = t.events /\ x.update = u
  BY <1>1 DEF Shaped, TrajectoryFields
<1>3. Gen(x) = Gen(t) /\ Scoring(x) = Scoring(t) BY <1>2 DEF Gen, Scoring, Typed, Event
<1>4. Decodable(t) => Decodable(x)
  BY <1>3 DEF Decodable, TargetDecodes, LossDecodes
<1>5. HasGen(t) => HasGen(x) BY <1>3 DEF HasGen
<1>6. IsAttached(x, t, u) BY <1>2, <1>3, <1>4, <1>5 DEF IsAttached
<1> QED BY <1>1, <1>6

LEMMA UpdateIsSome ==
  ASSUME NEW t, t.env.contract.auth \in Seq(EvidenceNames), NEW tokens \in TokenSequences,
         NEW seq \in Int
  PROVE  /\ update_input(t, tokens, seq) # None /\ update_input(t, tokens, seq).tokens = tokens
         /\ update_input(t, tokens, seq).seq = seq
<1>1. PICK u : u = update_input(t, tokens, seq) OBVIOUS
<1>2. u \in [tokens : TokenSequences, auth : Seq(EvidenceNames), seq : Int]
  BY <1>1 DEF update_input
<1>3. u.tokens = tokens /\ u.seq = seq BY <1>1 DEF update_input
<1> QED BY <1>1, <1>2, <1>3, NoneIsNoEvidence

LEMMA Reencoded ==
  ASSUME NEW t, NEW o, Fresh(t, o), NEW x, x = inject_f3_retokenized_sequence(t), NEW seq \in Int
  PROVE  /\ x.bogus_sequence # None
         /\ MeetsExpected("f3:held_out", [x EXCEPT !.update = update_input(x, x.bogus_sequence, seq)],
                          "full_pre_update")
<1>1. PICK h : h = Gen(t) OBVIOUS
<1>2. h \in GenerationEvents /\ h.tokens.completion = "completion"
  BY <1>1, FreshReads DEF Served
<1>3. PICK b : b = [h.tokens EXCEPT !.completion = "re-encoded"] OBVIOUS
<1>4. h.tokens \in TokenSequences BY <1>2 DEF GenerationEvents
<1>5. b \in TokenSequences /\ b.completion = "re-encoded" BY <1>3, <1>4 DEF TokenSequences
<1>6. Shaped(t) /\ t.env.contract.auth = t.env.gen BY DEF Fresh
<1>7. x = [t EXCEPT !.bogus_sequence = b] BY <1>1, <1>3 DEF inject_f3_retokenized_sequence
<1>8. /\ DOMAIN x = TrajectoryFields /\ x.bogus_sequence = b /\ x.env = t.env /\ x.events = t.events
  BY <1>6, <1>7 DEF Shaped, TrajectoryFields
<1>9. Shaped(x) BY <1>6, <1>8 DEF Shaped
<1>10. Gen(x) = h BY <1>1, <1>8 DEF Gen, Typed, Event
<1>11. HasGen(x) /\ Decodable(x)
  <2>1. HasGen(t) /\ Decodable(t) BY FreshReads
  <2> QED BY <1>1, <1>10, <2>1 DEF HasGen, Decodable, TargetDecodes, LossDecodes
<1>12. x.env.contract.auth \in Seq(EvidenceNames) BY <1>6, <1>8, FreshReads
<1>13. PICK u : u = update_input(x, x.bogus_sequence, seq) OBVIOUS
<1>14. u # None /\ u.tokens = b BY <1>5, <1>8, <1>12, <1>13, UpdateIsSome
<1>15. PICK c : c = [x EXCEPT !.update = u] OBVIOUS
<1>16. Gen(c) = h /\ HasGen(c) /\ Decodable(c) /\ c.update = u
  <2>1. IsAttached(c, x, u) BY <1>9, <1>15, AttachedIs
  <2> QED BY <1>10, <1>11, <2>1 DEF IsAttached
<1>17. ALL_RULES(c)["T004"] = "reject"
  <2>1. ALL_RULES(c)["T004"] = t004_token_sequence_mismatch(c) BY DEF ALL_RULES
  <2>2. c.update.tokens # Gen(c).tokens BY <1>2, <1>5, <1>14, <1>16
  <2> QED BY <1>14, <1>16, <2>1, <2>2 DEF t004_token_sequence_mismatch, Reject
<1>18. "T004" \in RULES_BY_STAGE("full_pre_update") BY IdentityRulesAlways DEF IDENTITY_STAGE_RULES
<1>19. Expected("f3:held_out") = <<"reject", {"T004"}>> BY DEF Expected
<1>20. MeetsExpected("f3:held_out", c, "full_pre_update") BY <1>16, <1>17, <1>18, <1>19, OneRejects
<1>21. x.bogus_sequence # None BY <1>5, <1>8, NoneIsNoEvidence
<1> QED BY <1>13, <1>15, <1>20, <1>21

LEMMA ShiftedMask ==
  ASSUME NEW t, NEW o, Fresh(t, o), o.span = <<4, 12>>, o.pads = {}, NEW shift \in {1, 3, -1},
         NEW stage, NEW case, Expected(case) = <<"reject", {"M004"}>>
  PROVE  /\ MeetsExpected(case, inject_f4_mask_shift(t, shift), stage)
         /\ Plain(inject_f4_mask_shift(t, shift))
<1>1. PICK h : h = Gen(t) OBVIOUS
<1>2. h \in GenerationEvents /\ LaidOut(h, o) BY <1>1, FreshReads DEF Served
<1>3. h.tokens.n = 12 /\ h.completion_span = <<4, 12>> /\ h.padding_spans = {}
  BY <1>2 DEF LaidOut
<1>4. h.completion_span[1] = 4 /\ h.completion_span[2] = 12 BY <1>3
<1>5. PICK shifted :
        shifted = {i \in 0..(h.tokens.n - 1) :
                     h.completion_span[1] - shift <= i /\ i < h.tokens.n - shift}
                    \ Padding(h.padding_spans)
  OBVIOUS
<1>6. Padding(h.padding_spans) = {} BY <1>3 DEF Padding
<1>7. shifted = {i \in 0..11 : 4 - shift <= i /\ i < 12 - shift}
  <2>1. 12 - 1 = 11 OBVIOUS
  <2>2. h.tokens.n - 1 = 11 BY <1>3, <2>1
  <2> QED BY <1>3, <1>4, <1>5, <1>6, <2>2
<1>8. PICK target : target = mask(h.tokens.n, shifted) OBVIOUS
<1>9. PICK loss : loss = mask(h.tokens.n - 1, {i - 1 : i \in shifted \ {0}}) OBVIOUS
<1>10. /\ target.n = 12 /\ target.binary /\ target.sel = shifted \cap (0..11)
       /\ loss.n = 11 /\ loss.binary
  BY <1>3, <1>8, <1>9 DEF mask
<1>11. target \in Masks
  <2>1. target = [n |-> 12, sel |-> shifted \cap (0..11), binary |-> TRUE]
    BY <1>3, <1>8 DEF mask
  <2>2. shifted \cap (0..11) \in SUBSET Int BY <1>7
  <2> QED BY <2>1, <2>2 DEF Masks
<1>12. loss \in Masks
  <2>1. PICK moved : moved = {i - 1 : i \in shifted \ {0}} \cap (0..(h.tokens.n - 1 - 1)) OBVIOUS
  <2>2. loss = [n |-> 11, sel |-> moved, binary |-> TRUE] BY <1>3, <1>9, <2>1 DEF mask
  <2>3. moved \in SUBSET Int BY <2>1
  <2> QED BY <2>2, <2>3 DEF Masks
<1>13. PICK g : g = [h EXCEPT !.target_mask = target, !.loss_mask = loss] OBVIOUS
<1>14. g \in GenerationEvents BY <1>2, <1>11, <1>12, <1>13 DEF GenerationEvents
<1>15. /\ g.target_mask = target /\ g.loss_mask = loss /\ g.tokens = h.tokens
       /\ g.completion_span = h.completion_span /\ g.padding_spans = h.padding_spans
  BY <1>2, <1>13 DEF GenerationEvents
<1>16. ~IsCanonical(g)
  <2>1. completion_target_mask(g.completion_span, g.padding_spans) = 4..11
    <3>1. 12 - 1 = 11 OBVIOUS
    <3>2. Positions(h.completion_span) = 4..11 BY <1>4, <3>1 DEF Positions
    <3> QED BY <1>6, <1>15, <3>2 DEF completion_target_mask
  <2>2. target.sel # 4..11
    <3>1. 11 \in 4..11 /\ 4 \in 4..11 OBVIOUS
    <3>2. CASE shift \in {1, 3}
      <4>1. 11 \notin shifted BY <1>7, <3>2
      <4> QED BY <1>10, <3>1, <4>1
    <3>3. CASE shift = -1
      <4>1. 4 \notin shifted BY <1>7, <3>3
      <4> QED BY <1>10, <3>1, <4>1
    <3> QED BY <3>2, <3>3
  <2> QED BY <1>15, <2>1, <2>2 DEF IsCanonical
<1>17. PICK x : x = Rebuilt(Renamed(t, "f4", g)) OBVIOUS
<1>18. x = inject_f4_mask_shift(t, shift)
  BY <1>1, <1>5, <1>8, <1>9, <1>13, <1>17 DEF inject_f4_mask_shift
<1>19. "f4" \in EvidenceNames BY DEF EvidenceNames
<1>20. IsSwapped(x, t, Append(t.env.gen, "f4"), g) BY <1>14, <1>17, <1>19, SwappedIs
<1>21. Gen(x) = g /\ HasGen(x) /\ Plain(x) /\ Untouched(x) BY <1>20 DEF IsSwapped
<1>22. TargetDecodes(x) /\ LossDecodes(x)
  BY <1>3, <1>10, <1>15, <1>21 DEF TargetDecodes, LossDecodes, Decodes
<1>23. \A a : Readable(x, a) BY <1>21 DEF Readable, Untouched
<1>24. Aligns(x) = "Alignment"
  <2>1. AlignmentResult(12, h.completion_span, h.padding_spans) = "Alignment"
    BY <1>3, <1>4 DEF AlignmentResult
  <2> QED BY <1>3, <1>15, <1>21, <1>23, <2>1 DEF Aligns
<1>25. ALL_RULES(x)["M004"] = "reject"
  <2>1. ALL_RULES(x)["M004"] = m004_canonical_mask_mismatch(x) BY DEF ALL_RULES
  <2>2. mask_violation(x, TRUE) = "reject"
    BY <1>21, <1>22, <1>23, <1>24 DEF mask_violation, Reject
  <2> QED BY <1>16, <1>21, <1>22, <1>23, <2>1, <2>2 DEF m004_canonical_mask_mismatch, Reject
<1>26. "M004" \in RULES_BY_STAGE(stage) BY IdentityRulesAlways DEF IDENTITY_STAGE_RULES
<1>27. Decodable(x) BY <1>22 DEF Decodable
<1> QED BY <1>18, <1>21, <1>25, <1>26, <1>27, OneRejects

\* A scoring event that was added, and the envelope's view of it.
LEMMA ReadsScored ==
  ASSUME NEW t, NEW o, Fresh(t, o), NEW suffix \in EvidenceNames, NEW s \in ScoringEvents,
         NEW n, n = Scored(t, suffix, s)
  PROVE  /\ Gen(n) = Gen(t) /\ HasGen(n) /\ Scoring(n) = s /\ s # None
         /\ IsScored(n, t, Append(t.env.gen, suffix), s)
<1>1. PICK id : id = Append(t.env.gen, suffix) OBVIOUS
<1>2. Shaped(t) /\ t.env.gen \in Seq(EvidenceNames) /\ t.env.gen \in DOMAIN t.events
  BY FreshReads DEF Fresh
<1>3. IsScored(n, t, id, s) BY <1>1, <1>2, ScoredIs
<1>4. n.env.gen = t.env.gen /\ n.env.scoring = id /\ Added(n.events, t.events, id, s)
  BY <1>3 DEF IsScored
<1>5. id \in Seq(EvidenceNames) /\ id # t.env.gen BY <1>1, <1>2, Suffixed
<1>6. Event(n, t.env.gen) = Event(t, t.env.gen) /\ n.events[t.env.gen] = t.events[t.env.gen]
  BY <1>2, <1>4, <1>5 DEF Added, Event
<1>7. Gen(n) = Gen(t) BY <1>4, <1>6 DEF Gen, Typed
<1>8. HasGen(n) BY <1>7, FreshReads DEF HasGen
<1>9. Scoring(n) = s /\ s # None BY <1>4, <1>5, ReadsScoring DEF Added
<1> QED BY <1>1, <1>3, <1>7, <1>8, <1>9

IsScoring(s, source, seq, version, tokens, logprobs) ==
  /\ s \in ScoringEvents /\ s.source = source /\ s.version = version /\ s.checkpoint = version
  /\ s.tokens = tokens /\ s.logprobs = logprobs /\ s.seq = seq + 1

LEMMA MakeScoring ==
  ASSUME NEW source \in Seq(EvidenceNames), NEW seq \in Int, NEW version \in Int,
         NEW tokens \in TokenSequences, NEW logprobs \in LogprobArrays
  PROVE  IsScoring(make_scoring(source, seq, version, tokens, logprobs),
                   source, seq, version, tokens, logprobs)
BY DEF make_scoring, make_policy_manifest, ScoringEvents, IsScoring

LEMMA Misbound ==
  ASSUME NEW t, NEW o, Fresh(t, o), NEW version \in {1, 2}, NEW stage,
         NEW case, Expected(case) = <<"reject", {"L003"}>>
  PROVE  /\ MeetsExpected(case, inject_f2_misbound_logprob(t, version), stage)
         /\ Plain(inject_f2_misbound_logprob(t, version))
<1>1. PICK h : h = Gen(t) OBVIOUS
<1>2. /\ h \in GenerationEvents /\ h.version = 0 /\ h.logprobs \in LogprobArrays /\ LaidOut(h, o)
      /\ t.env.gen \in Seq(EvidenceNames)
  BY <1>1, FreshReads DEF Served
<1>3. h.seq \in Int /\ h.tokens \in TokenSequences BY <1>2 DEF GenerationEvents
<1>4. PICK s : s = make_scoring(t.env.gen, h.seq, version, h.tokens, h.logprobs) OBVIOUS
<1>5. s \in ScoringEvents /\ s.version = version
  <2>1. version \in Int OBVIOUS
  <2>2. IsScoring(s, t.env.gen, h.seq, version, h.tokens, h.logprobs)
    BY <1>2, <1>3, <1>4, <2>1, MakeScoring
  <2> QED BY <2>2 DEF IsScoring
<1>6. PICK n : n = Scored(t, "f2", s) OBVIOUS
<1>7. "f2" \in EvidenceNames BY DEF EvidenceNames
<1>8. /\ Gen(n) = h /\ HasGen(n) /\ Scoring(n) = s /\ s # None
      /\ IsScored(n, t, Append(t.env.gen, "f2"), s)
  BY <1>1, <1>5, <1>6, <1>7, ReadsScored
<1>9. Shaped(n) /\ SameRest(n, t) /\ Untouched(n)
  BY <1>8 DEF IsScored, SameRest, Fresh, Untouched
<1>10. PICK m : m = Resourced(n, Append(t.env.gen, "f2")) OBVIOUS
<1>11. IsResourced(m, n, Append(t.env.gen, "f2")) BY <1>9, <1>10, ResourcedIs
<1>12. Shaped(m) /\ SameRest(m, n) /\ Untouched(m) /\ m.events = n.events
       /\ m.env.gen = n.env.gen /\ m.env.scoring = n.env.scoring
  BY <1>9, <1>11 DEF IsResourced, SameRest, Untouched
<1>13. PICK x : x = Rebuilt(m) OBVIOUS
<1>14. IsRebuilt(x, m) BY <1>12, <1>13, RebuiltIs
<1>15. x.events = n.events /\ x.env.gen = n.env.gen /\ x.env.scoring = n.env.scoring /\ Untouched(x)
  BY <1>12, <1>14 DEF IsRebuilt
<1>16. Gen(x) = h /\ HasGen(x) /\ Scoring(x) = s
  BY <1>8, <1>15 DEF Gen, Scoring, HasGen, Typed, Event
<1>17. x = inject_f2_misbound_logprob(t, version)
  BY <1>1, <1>4, <1>6, <1>10, <1>13 DEF inject_f2_misbound_logprob
<1>18. Decodable(x) BY <1>2, <1>16, Decodes12
<1>19. ALL_RULES(x)["L003"] = "reject"
  <2>1. ALL_RULES(x)["L003"] = l003_scorer_policy_mismatch(x) BY DEF ALL_RULES
  <2> QED BY <1>2, <1>5, <1>8, <1>16, <2>1 DEF l003_scorer_policy_mismatch, Reject
<1>20. "L003" \in RULES_BY_STAGE(stage) BY IdentityRulesAlways DEF IDENTITY_STAGE_RULES
<1> QED BY <1>15, <1>17, <1>18, <1>19, <1>20, OneRejects DEF Plain, Untouched

LEMMA WrongGeneration ==
  ASSUME NEW t, NEW o, Rollout(t, o), o.span[2] - o.span[1] > 0, NEW stage
  PROVE  /\ MeetsExpected("f2:held_out", inject_f2_wrong_generation(t), stage)
         /\ Plain(inject_f2_wrong_generation(t))
<1>1. PICK h : h = Gen(t) OBVIOUS
<1>2. Fresh(t, o) BY DEF Rollout
<1>3. /\ h \in GenerationEvents /\ h.version = 0 /\ h.checkpoint = 0 /\ h.logprobs \in LogprobArrays
      /\ h.logprobs.n = o.span[2] - o.span[1] /\ h.sync = canary_ref /\ h.seq \in {10, 11}
      /\ t.env.gen \in Seq(EvidenceNames)
  BY <1>1, <1>2, FreshReads DEF Served
<1>4. h.seq \in Int /\ h.tokens \in TokenSequences BY <1>3 DEF GenerationEvents
<1>5. PICK made : made = make_scoring(gen_id, h.seq, h.version, h.tokens, h.logprobs) OBVIOUS
<1>6. PICK s : s = [made EXCEPT !.checkpoint = h.checkpoint] OBVIOUS
<1>7. /\ s \in ScoringEvents /\ s.source = gen_id /\ s.version = 0 /\ s.checkpoint = 0
      /\ s.tokens = h.tokens /\ s.logprobs = h.logprobs
  <2>1. 0 \in Int /\ gen_id \in Seq(EvidenceNames) BY Ids
  <2>2. /\ made \in ScoringEvents /\ made.source = gen_id /\ made.version = 0
        /\ made.tokens = h.tokens /\ made.logprobs = h.logprobs
    <3>1. IsScoring(made, gen_id, h.seq, h.version, h.tokens, h.logprobs)
      BY <1>3, <1>4, <1>5, <2>1, MakeScoring
    <3> QED BY <1>3, <3>1 DEF IsScoring
  <2> QED BY <1>3, <1>6, <2>1, <2>2 DEF ScoringEvents
<1>8. PICK n : n = Scored(t, "f2wg", s) OBVIOUS
<1>9. "f2wg" \in EvidenceNames /\ "f2wg-nolp" \in EvidenceNames BY DEF EvidenceNames
<1>10. PICK sid : sid = Append(t.env.gen, "f2wg") OBVIOUS
<1>11. IsScored(n, t, sid, s) /\ s # None BY <1>2, <1>7, <1>8, <1>9, <1>10, ReadsScored
<1>12. Shaped(n) /\ n.env.gen = t.env.gen BY <1>11 DEF IsScored
<1>13. PICK g : g = [h EXCEPT !.logprobs = None] OBVIOUS
<1>14. g \in GenerationEvents BY <1>3, <1>13 DEF GenerationEvents
<1>15. SameRollout(g, h) /\ g.logprobs = None /\ g.sync = h.sync
  BY <1>3, <1>13 DEF GenerationEvents, SameRollout
<1>16. PICK m : m = Renamed(n, "f2wg-nolp", g) OBVIOUS
<1>17. PICK id : id = Append(t.env.gen, "f2wg-nolp") OBVIOUS
<1>18. IsRenamed(m, n, id, g) BY <1>12, <1>16, <1>17, RenamedIs
<1>19. PICK k : k = Resourced(m, sid) OBVIOUS
<1>20. IsResourced(k, m, sid) BY <1>18, <1>19, ResourcedIs DEF IsRenamed
<1>21. /\ Shaped(k) /\ SameRest(k, t) /\ SameEnvelope(k, t) /\ k.env.gen = id /\ k.env.scoring = sid
       /\ k.events = m.events /\ k.env.contract.auth = sid
       /\ k.env.contract.source = "exact_behavior_scorer" /\ k.env.contract.parent_version = 0
  <2>1. /\ Shaped(k) /\ SameRest(k, m) /\ SameEnvelope(k, m) /\ k.env.gen = m.env.gen
        /\ k.env.scoring = m.env.scoring /\ k.events = m.events /\ k.env.contract.auth = sid
        /\ k.env.contract.source = "exact_behavior_scorer"
        /\ k.env.contract.parent_version = m.env.contract.parent_version
    BY <1>20 DEF IsResourced
  <2>2. /\ SameRest(m, n) /\ SameEnvelope(m, n) /\ m.env.gen = id /\ m.env.scoring = n.env.scoring
        /\ m.env.contract.parent_version = n.env.contract.parent_version
    BY <1>18 DEF IsRenamed
  <2>3. /\ SameRest(n, t) /\ SameEnvelope(n, t) /\ n.env.scoring = sid
        /\ n.env.contract = t.env.contract
    BY <1>11 DEF IsScored
  <2>4. t.env.contract.parent_version = 0 BY <1>2 DEF Fresh
  <2>5. SameRest(k, t) BY <2>1, <2>2, <2>3 DEF SameRest
  <2>6. SameEnvelope(k, t) BY <2>1, <2>2, <2>3 DEF SameEnvelope
  <2> QED BY <2>1, <2>2, <2>3, <2>4, <2>5, <2>6
<1>22. Untouched(k) BY <1>2, <1>21 DEF Fresh, Untouched, SameRest
<1>23. PICK x : x = Rebuilt(k) OBVIOUS
<1>24. IsRebuilt(x, k) BY <1>21, <1>22, <1>23, RebuiltIs
<1>25. x.events = m.events /\ x.env = k.env /\ Untouched(x) /\ SameRest(x, k)
  BY <1>21, <1>24 DEF IsRebuilt
<1>26. SameRest(x, t) /\ SameEnvelope(x, t) BY <1>21, <1>25 DEF SameRest, SameEnvelope
<1>27. x = inject_f2_wrong_generation(t)
  BY <1>1, <1>5, <1>6, <1>8, <1>10, <1>13, <1>16, <1>19, <1>23 DEF inject_f2_wrong_generation
<1>28. /\ sid \in Seq(EvidenceNames) /\ id \in Seq(EvidenceNames) /\ sid # id
       /\ sid[1] = "gen" /\ id[1] = "gen" /\ Len(id) > 1
  <2>1. LastName(sid) = "f2wg" /\ LastName(id) = "f2wg-nolp" BY <1>3, <1>9, <1>10, <1>17, Suffixed
  <2>2. t.env.gen[1] = "gen" /\ Len(t.env.gen) > 0 BY <1>2, FreshReads
  <2> QED BY <1>3, <1>9, <1>10, <1>17, <2>1, <2>2, Suffixed
<1>29. /\ Added(n.events, t.events, sid, s) /\ Added(m.events, n.events, id, g)
  BY <1>11, <1>18 DEF IsScored, IsRenamed
<1>30. /\ sid \in DOMAIN x.events /\ x.events[sid] = s /\ id \in DOMAIN x.events /\ x.events[id] = g
  BY <1>25, <1>28, <1>29 DEF Added
<1>31. Gen(x) = g /\ HasGen(x) BY <1>14, <1>21, <1>25, <1>28, <1>30, ReadsGeneration
<1>32. Scoring(x) = s BY <1>7, <1>21, <1>25, <1>28, <1>30, ReadsScoring
<1>33. ~(Event(x, Gen(x).sync) # None /\ x.events[Gen(x).sync].seq > Gen(x).seq)
       /\ x.events[Gen(x).sync].type \in SYNC_TERMINAL_SUCCESS /\ Event(x, Gen(x).sync) # None
  <2>1. /\ canary_ref \in DOMAIN t.events /\ t.events[canary_ref] \in SyncEvents
        /\ t.events[canary_ref].seq <= 3 /\ t.events[canary_ref].type = "canary_passed"
    BY <1>2 DEF Fresh
  <2>2. canary_ref # id /\ canary_ref # sid BY <1>28, Ids
  <2>3. canary_ref \in DOMAIN x.events /\ x.events[canary_ref] = t.events[canary_ref]
    BY <1>25, <1>29, <2>1, <2>2 DEF Added
  <2>4. g.seq \in {10, 11} /\ Gen(x).sync = canary_ref
    BY <1>3, <1>15, <1>31 DEF SameRollout
  <2>5. t.events[canary_ref].seq \in Int BY <2>1 DEF SyncEvents
  <2>6. ~(t.events[canary_ref].seq > g.seq) BY <2>1, <2>4, <2>5
  <2>7. Event(x, canary_ref) # None BY <2>1, <2>3, NoneIsNoEvidence DEF Event
  <2> QED BY <1>31, <2>1, <2>3, <2>4, <2>6, <2>7 DEF SYNC_TERMINAL_SUCCESS
<1>34. SameRollout(Gen(x), Gen(t)) BY <1>1, <1>15, <1>31
<1>35. x.env.contract.parent_version = 0 BY <1>21, <1>25
<1>36. /\ OnPolicy(x) /\ Staged(x) /\ LaidOut(g, o) /\ x.split # None /\ g.prompt_id \in x.split.prompts
       /\ x.split.content = <<>> /\ x.split_registry = None /\ x.verifiers = None
       /\ x.update = None /\ x.canary = None /\ x.corrupt = {} /\ Reward(x) = None
  BY <1>26, <1>31, <1>33, <1>34, <1>35, SameOnPolicy
<1>37. completion_length(x) = o.span[2] - o.span[1] BY <1>31, <1>36 DEF completion_length, LaidOut
<1>38. OneSource(x)
  <2>1. s.logprobs.n = completion_length(x) BY <1>3, <1>7, <1>37
  <2>2. s.version = g.version /\ s.checkpoint = g.checkpoint /\ s.tokens = g.tokens
    BY <1>3, <1>7, <1>15 DEF SameRollout
  <2>3. Event(x, x.env.contract.auth) = s BY <1>21, <1>25, <1>30 DEF Event
  <2> QED BY <1>11, <1>15, <1>21, <1>25, <1>31, <1>32, <2>1, <2>2, <2>3 DEF OneSource
<1>39. Sensible(o) BY <1>2 DEF Fresh
<1>40. Orderly(x, o) BY <1>31, <1>36, <1>38, <1>39 DEF Orderly
<1>41. ALL_RULES(x)["L006"] = "quarantine"
  <2>1. ALL_RULES(x)["L006"] = l006_unsupported_provenance(x) BY DEF ALL_RULES
  <2>2. gen_id # id BY <1>28, Ids
  <2>3. x.env.gen = id BY <1>21, <1>25
  <2> QED BY <1>7, <1>11, <1>32, <2>1, <2>2, <2>3 DEF l006_unsupported_provenance, Quarantine
<1>42. \A r \in RULES_BY_STAGE(stage) \ {"L006"} : ALL_RULES(x)[r] = "pass"
  <2> TAKE r \in RULES_BY_STAGE(stage) \ {"L006"}
  <2>1. CASE r \notin FaultRules BY <1>40, <2>1, OrderlyRules
  <2>2. CASE r \in FaultRules BY <1>33, <1>36, <1>40, <2>2, FaultRulesPass DEF FaultRules
  <2> QED BY <2>1, <2>2
<1>43. "L006" \in RULES_BY_STAGE(stage) BY IdentityRulesAlways DEF IDENTITY_STAGE_RULES
<1>44. Expected("f2:held_out") = <<"quarantine", {"L006"}>> BY DEF Expected
<1>45. MeetsExpected("f2:held_out", x, stage) BY <1>41, <1>42, <1>43, <1>44, OneQuarantines
<1>46. Plain(x) BY <1>25 DEF Plain, Untouched
<1> QED BY <1>27, <1>45, <1>46

----------------------------------------------------------------------------
(* The evidence of a loop, whatever F5 to F10 have left in it.             *)

\* A reward stands for its generation before its copies do, and the
\* evaluator's verifier comes with the evaluator's protocol.
RewardInOrder(id, e) ==
  e.type = "reward_finished" =>
    /\ (e.source = gen_id /\ id # reward_id) => Len(id) \in Nat \ {0, 1}
    /\ e.verifier = "countdown-rule-v1-eval" => e.protocol = "countdown-eval-protocol-v1"

Loop(ev) ==
  /\ {gen_id, second_id, canary_ref, <<"uinput">>, reward_id} \subseteq DOMAIN ev
  /\ Served(ev[gen_id], default_options) /\ Served(ev[second_id], default_options)
  /\ ev[canary_ref] \in SyncEvents /\ ev[canary_ref].type = "canary_passed"
  /\ ev[canary_ref].seq <= 3
  /\ ev[<<"uinput">>].seq = 20
  /\ ev[reward_id] \in RewardEvents /\ ev[reward_id].source = gen_id
  /\ ev[reward_id].protocol \in {"countdown-protocol", "f"}
  /\ \A id \in DOMAIN ev : RewardInOrder(id, ev[id])

LEMMA LoopAdded ==
  ASSUME NEW ev, Loop(ev), NEW f, NEW id \in Seq(EvidenceNames), NEW e, Added(f, ev, id, e),
         LastName(id) \notin {"gen", "second", "reward", "canary_passed", "uinput"},
         RewardInOrder(id, e)
  PROVE  Loop(f)
<1>1. id \notin {gen_id, second_id, canary_ref, <<"uinput">>, reward_id} BY Ids
<1>2. \A j \in {gen_id, second_id, canary_ref, <<"uinput">>, reward_id} :
        j \in DOMAIN f /\ f[j] = ev[j]
  BY <1>1 DEF Added, Loop
<1>3. \A j \in DOMAIN f : RewardInOrder(j, f[j])
  <2> TAKE j \in DOMAIN f
  <2>1. CASE j = id BY <2>1 DEF Added
  <2>2. CASE j # id
    <3>1. j \in DOMAIN ev /\ f[j] = ev[j] BY <2>2 DEF Added
    <3> QED BY <3>1 DEF Loop
  <2> QED BY <2>1, <2>2
<1> QED BY <1>2, <1>3 DEF Loop

\* f is ev with another event e under an id it has.
Replaced(f, ev, id, e) ==
  /\ DOMAIN f = DOMAIN ev /\ f[id] = e /\ \A j \in DOMAIN ev : j # id => f[j] = ev[j]

LEMMA LoopReward ==
  ASSUME NEW ev, Loop(ev), NEW f, NEW e \in RewardEvents, Replaced(f, ev, reward_id, e),
         e.source = gen_id, e.protocol = "f", e.verifier \in {"fake-reward-v1", "countdown-rule-v1"}
  PROVE  Loop(f)
<1>1. reward_id \notin {gen_id, second_id, canary_ref, <<"uinput">>} BY Ids
<1>2. \A j \in {gen_id, second_id, canary_ref, <<"uinput">>} : j \in DOMAIN f /\ f[j] = ev[j]
  BY <1>1 DEF Replaced, Loop
<1>3. reward_id \in DOMAIN f /\ f[reward_id] = e BY DEF Replaced, Loop
<1>4. \A j \in DOMAIN f : RewardInOrder(j, f[j])
  <2> TAKE j \in DOMAIN f
  <2>1. CASE j = reward_id BY <1>3, <2>1 DEF RewardInOrder
  <2>2. CASE j # reward_id
    <3>1. j \in DOMAIN ev /\ f[j] = ev[j] BY <2>2 DEF Replaced
    <3> QED BY <3>1 DEF Loop
  <2> QED BY <2>1, <2>2
<1> QED BY <1>2, <1>3, <1>4 DEF Loop

LEMMA LoopGeneration ==
  ASSUME NEW ev, Loop(ev), NEW f, NEW id \in {gen_id, second_id}, NEW g, Replaced(f, ev, id, g),
         Served(g, default_options)
  PROVE  Loop(f)
<1>1. id \notin {reward_id, canary_ref, <<"uinput">>} BY Ids
<1>2. \A j \in {reward_id, canary_ref, <<"uinput">>} : j \in DOMAIN f /\ f[j] = ev[j]
  BY <1>1 DEF Replaced, Loop
<1>3. /\ gen_id \in DOMAIN f /\ second_id \in DOMAIN f /\ f[id] = g
      /\ Served(f[gen_id], default_options) /\ Served(f[second_id], default_options)
  BY DEF Replaced, Loop
<1>4. g.type = "generation_finished" BY DEF Served, GenerationEvents
<1>5. \A j \in DOMAIN f : RewardInOrder(j, f[j])
  <2> TAKE j \in DOMAIN f
  <2>1. CASE j = id BY <1>3, <1>4, <2>1 DEF RewardInOrder
  <2>2. CASE j # id
    <3>1. j \in DOMAIN ev /\ f[j] = ev[j] BY <2>2 DEF Replaced
    <3> QED BY <3>1 DEF Loop
  <2> QED BY <2>1, <2>2
<1> QED BY <1>2, <1>3, <1>5 DEF Loop

\* What a case leaves to the cases after it.
KeepsEvidence(x, t) == x.corrupt = t.corrupt /\ (Loop(t.events) => Loop(x.events))

----------------------------------------------------------------------------
(* F5 to F10.                                                              *)

\* A trajectory with the same envelope and events reads the same.
SameReading(x, t) ==
  /\ Gen(x) = Gen(t) /\ (HasGen(t) => HasGen(x)) /\ Scoring(x) = Scoring(t) /\ Reward(x) = Reward(t)
  /\ (Decodable(t) => Decodable(x))

LEMMA SameReadingIs ==
  ASSUME NEW x, NEW t, x.env = t.env, x.events = t.events
  PROVE  SameReading(x, t)
<1>1. Gen(x) = Gen(t) /\ Scoring(x) = Scoring(t) /\ Reward(x) = Reward(t)
  BY DEF Gen, Scoring, Reward, Typed, Event
<1>2. Decodable(t) => Decodable(x) BY <1>1 DEF Decodable, TargetDecodes, LossDecodes
<1>3. HasGen(t) => HasGen(x) BY <1>1 DEF HasGen
<1> QED BY <1>1, <1>2, <1>3 DEF SameReading

LEMMA Leaked ==
  ASSUME NEW t, NEW o, Fresh(t, o), NEW others \in SUBSET {"held_out", "calibration"}, others # {},
         NEW case, Expected(case) = <<"reject", {"D003"}>>
  PROVE  /\ MeetsExpected(case, inject_f5_split_leakage(t, others), "full_pre_update")
         /\ Plain(inject_f5_split_leakage(t, others))
         /\ inject_f5_split_leakage(t, others).split_registry # None
         /\ KeepsEvidence(inject_f5_split_leakage(t, others), t)
<1>1. PICK h : h = Gen(t) OBVIOUS
<1>2. h \in GenerationEvents /\ HasGen(t) /\ Decodable(t) BY <1>1, FreshReads DEF Served
<1>3. h.prompt_id \in {"countdown-0001", "countdown-0002"} BY <1>2 DEF GenerationEvents
<1>4. t.split \in SplitManifests /\ t.split.name = "train" /\ t.split.content = <<>>
      /\ h.prompt_id \in t.split.prompts
  <2>1. h = t.events[t.env.gen] BY <1>1, FreshReads
  <2> QED BY <2>1 DEF Fresh
<1>5. PICK R : R = {t.split} \cup {make_split_manifest(name, {h.prompt_id}) : name \in others} OBVIOUS
<1>6. PICK x : x = [t EXCEPT !.split_registry = R] OBVIOUS
<1>7. x = inject_f5_split_leakage(t, others) BY <1>1, <1>5, <1>6 DEF inject_f5_split_leakage
<1>8. /\ x.split_registry = R /\ x.corrupt = t.corrupt /\ x.env = t.env /\ x.events = t.events
      /\ x.bogus_sequence = t.bogus_sequence /\ x.requires_update_input = t.requires_update_input
  BY <1>6 DEF Fresh, Shaped, TrajectoryFields
<1>9. Plain(x) BY <1>8 DEF Plain, Fresh, Untouched
<1>10. R # None
  <2> DEFINE M == [name : {"train", "held_out", "calibration"}, content : {<<>>},
                   prompts : SUBSET {"countdown-0001", "countdown-0002"}]
  <2>1. t.split \in M BY <1>4 DEF SplitManifests
  <2>2. \A name \in others : make_split_manifest(name, {h.prompt_id}) \in M
    BY <1>3 DEF make_split_manifest
  <2> HIDE DEF M
  <2>3. R \subseteq M BY <1>5, <2>1, <2>2
  <2> QED BY <2>3, NoneIsNoEvidence DEF M
<1>11. ALL_RULES(x)["D003"] = "reject"
  <2>1. ALL_RULES(x)["D003"] = d003_split_overlap(x) BY DEF ALL_RULES
  <2>2. PICK name \in others : TRUE OBVIOUS
  <2>3. PICK s : s = make_split_manifest(name, {h.prompt_id}) OBVIOUS
  <2>4. s \in R /\ t.split \in R BY <1>5, <2>3
  <2>5. s.name = name /\ s.prompts = {h.prompt_id} BY <2>3 DEF make_split_manifest
  <2>6. s # t.split BY <1>4, <2>2, <2>5
  <2>7. h.prompt_id \in s.prompts \cap t.split.prompts BY <1>4, <2>5
  <2>8. Gen(x) = h /\ HasGen(x) BY <1>1, <1>2, <1>8, SameReadingIs DEF SameReading
  <2> QED BY <1>8, <1>10, <2>1, <2>4, <2>6, <2>7, <2>8 DEF d003_split_overlap, Reject
<1>12. Decodable(x) BY <1>2, <1>8, SameReadingIs DEF SameReading
<1>13. "D003" \in RULES_BY_STAGE("full_pre_update") BY DEF RULES_BY_STAGE, PRE_UPDATE_STAGE_RULES
<1>14. MeetsExpected(case, x, "full_pre_update") BY <1>11, <1>12, <1>13, OneRejects
<1> QED BY <1>7, <1>8, <1>9, <1>10, <1>14 DEF KeepsEvidence

LEMMA Mutated ==
  ASSUME NEW t, NEW o, Fresh(t, o), NEW which \in {"sequence", "loss_mask", "logprobs"}, NEW stage,
         NEW case, Expected(case) = <<"reject", {"T001"}>>
  PROVE  /\ MeetsExpected(case, inject_f8_artifact_mutation(t, which), stage)
         /\ Plain(inject_f8_artifact_mutation(t, which))
<1>1. PICK h : h = Gen(t) OBVIOUS
<1>2. HasGen(t) /\ Decodable(t) /\ h.logprobs # None BY <1>1, FreshReads
<1>3. PICK a : a = CASE which = "sequence" -> h.tokens
                     [] which = "loss_mask" -> h.loss_mask
                     [] which = "completion_target_mask" -> h.target_mask
                     [] which = "logprobs" -> h.logprobs
  OBVIOUS
<1>4. a \in {h.tokens, h.loss_mask, h.logprobs} BY <1>3
<1>5. PICK x : x = [t EXCEPT !.corrupt = @ \cup {a}] OBVIOUS
<1>6. x = inject_f8_artifact_mutation(t, which) BY <1>1, <1>3, <1>5 DEF inject_f8_artifact_mutation
<1>7. /\ x.corrupt = t.corrupt \cup {a} /\ x.env = t.env /\ x.events = t.events
      /\ x.bogus_sequence = t.bogus_sequence /\ x.requires_update_input = t.requires_update_input
  BY <1>5 DEF Fresh, Shaped, TrajectoryFields
<1>8. Plain(x) BY <1>7 DEF Plain, Fresh, Untouched
<1>9. Gen(x) = h /\ HasGen(x) /\ Decodable(x) BY <1>1, <1>2, <1>7, SameReadingIs DEF SameReading
<1>10. ~Readable(x, a) BY <1>7 DEF Readable
<1>11. ALL_RULES(x)["T001"] = "reject"
  <2>1. ALL_RULES(x)["T001"] = t001_artifact_hash_mismatch(x) BY DEF ALL_RULES
  <2> QED BY <1>2, <1>4, <1>9, <1>10, <2>1 DEF t001_artifact_hash_mismatch, Reject
<1>12. "T001" \in RULES_BY_STAGE(stage) BY IdentityRulesAlways DEF IDENTITY_STAGE_RULES
<1> QED BY <1>6, <1>8, <1>9, <1>11, <1>12, OneRejects

BeforeLate(seq, t) == seq < Gen(t).seq + 9999

LateMeets(x, t, tokens, seq, case, stage) ==
  /\ x.bogus_sequence = None /\ x.requires_update_input = TRUE /\ Gen(x) = Gen(t)
  /\ MeetsExpected(case, [x EXCEPT !.update = update_input(x, tokens, seq)], stage)
  /\ KeepsEvidence(x, t)

LEMMA LateScorer ==
  ASSUME NEW t, NEW o, Fresh(t, o), NEW version \in {0, 1}, NEW seq \in Int,
         BeforeLate(seq, t), NEW tokens \in TokenSequences,
         NEW case, Expected(case) = <<"reject", {"L005"}>>, NEW stage
  PROVE  LateMeets(inject_f7_event_reorder(t, version), t, tokens, seq, case, stage)
<1>1. PICK h : h = Gen(t) OBVIOUS
<1>2. /\ h \in GenerationEvents /\ h.version = 0 /\ h.checkpoint = 0 /\ h.logprobs \in LogprobArrays
      /\ h.seq \in {10, 11} /\ LaidOut(h, o) /\ t.env.gen \in Seq(EvidenceNames)
  BY <1>1, FreshReads DEF Served
<1>3. h.seq + 9998 \in Int /\ h.tokens \in TokenSequences /\ version \in Int
  BY <1>2 DEF GenerationEvents
<1>4. PICK made : made = make_scoring(t.env.gen, h.seq + 9998, version, h.tokens, h.logprobs) OBVIOUS
<1>5. IsScoring(made, t.env.gen, h.seq + 9998, version, h.tokens, h.logprobs)
  BY <1>2, <1>3, <1>4, MakeScoring
<1>28. PICK k : k = IF version = h.version THEN h.checkpoint ELSE made.checkpoint OBVIOUS
<1>6. PICK s : s = [made EXCEPT !.checkpoint = k] OBVIOUS
<1>7. s \in ScoringEvents /\ s.seq = h.seq + 9999
  <2>1. made \in ScoringEvents /\ made.seq = h.seq + 9998 + 1 BY <1>5 DEF IsScoring
  <2>2. made.seq = h.seq + 9999 BY <1>2, <2>1
  <2>3. k \in Int
    <3>1. made.checkpoint \in Int BY <2>1 DEF ScoringEvents
    <3> QED BY <1>2, <1>28, <3>1
  <2> QED BY <1>6, <2>1, <2>2, <2>3 DEF ScoringEvents
<1>8. PICK n : n = Scored(t, "f7late", s) OBVIOUS
<1>9. "f7late" \in EvidenceNames BY DEF EvidenceNames
<1>10. /\ Gen(n) = h /\ HasGen(n) /\ Scoring(n) = s /\ s # None
       /\ IsScored(n, t, Append(t.env.gen, "f7late"), s)
  BY <1>1, <1>7, <1>8, <1>9, ReadsScored
<1>27. PICK x : x = [n EXCEPT !.requires_update_input = TRUE] OBVIOUS
<1>11. x = inject_f7_event_reorder(t, version)
  BY <1>27, <1>1, <1>4, <1>6, <1>8, <1>28 DEF inject_f7_event_reorder
<1>12. Shaped(n) /\ SameRest(n, t) /\ n.env.contract = t.env.contract BY <1>10 DEF IsScored
<1>13. /\ DOMAIN x = TrajectoryFields /\ x.env = n.env /\ x.events = n.events
       /\ x.requires_update_input = TRUE /\ x.bogus_sequence = n.bogus_sequence
  BY <1>27, <1>12 DEF Shaped, TrajectoryFields
<1>14. Shaped(x) BY <1>12, <1>13 DEF Shaped
<1>15. x.bogus_sequence = None BY <1>12, <1>13 DEF SameRest, Fresh, Untouched
<1>16. Gen(x) = h /\ HasGen(x) /\ Scoring(x) = s
  BY <1>10, <1>13, SameReadingIs DEF SameReading
<1>17. Decodable(x) BY <1>2, <1>16, Decodes12
<1>18. x.env.contract.auth \in Seq(EvidenceNames) BY <1>2, <1>12, <1>13 DEF Fresh
<1>19. PICK u : u = update_input(x, tokens, seq) OBVIOUS
<1>20. u # None /\ u.seq = seq BY <1>18, <1>19, UpdateIsSome
<1>21. PICK c : c = [x EXCEPT !.update = u] OBVIOUS
<1>22. IsAttached(c, x, u) BY <1>14, <1>21, AttachedIs
<1>23. Scoring(c) = s /\ c.update = u /\ Decodable(c) BY <1>16, <1>17, <1>22 DEF IsAttached
<1>24. ALL_RULES(c)["L005"] = "reject"
  <2>1. ALL_RULES(c)["L005"] = l005_scoring_after_update(c) BY DEF ALL_RULES
  <2>2. s.seq > u.seq BY <1>1, <1>2, <1>7, <1>20 DEF BeforeLate
  <2> QED BY <1>10, <1>20, <1>23, <2>1, <2>2 DEF l005_scoring_after_update, Reject
<1>25. "L005" \in RULES_BY_STAGE(stage) BY IdentityRulesAlways DEF IDENTITY_STAGE_RULES
<1>26. MeetsExpected(case, c, stage) BY <1>23, <1>24, <1>25, OneRejects
<1>29. KeepsEvidence(x, t)
  <2>1. PICK id : id = Append(t.env.gen, "f7late") OBVIOUS
  <2>2. id \in Seq(EvidenceNames) /\ LastName(id) = "f7late" BY <1>2, <1>9, <2>1, Suffixed
  <2>3. Added(x.events, t.events, id, s) BY <1>10, <1>13, <2>1 DEF IsScored
  <2>4. RewardInOrder(id, s) BY <1>7 DEF RewardInOrder, ScoringEvents
  <2>5. x.corrupt = t.corrupt BY <1>12, <1>27 DEF Shaped, TrajectoryFields, SameRest
  <2> QED BY <2>2, <2>3, <2>4, <2>5, LoopAdded DEF KeepsEvidence
<1> QED BY <1>1, <1>11, <1>13, <1>15, <1>16, <1>19, <1>21, <1>26, <1>29 DEF LateMeets

LEMMA LateSync ==
  ASSUME NEW t, NEW o, Fresh(t, o), NEW stage
  PROVE  /\ MeetsExpected("f7:held_out", inject_f7_sync_reorder(t), stage)
         /\ Plain(inject_f7_sync_reorder(t)) /\ KeepsEvidence(inject_f7_sync_reorder(t), t)
<1>1. PICK h : h = Gen(t) OBVIOUS
<1>2. /\ h \in GenerationEvents /\ h.sync = canary_ref /\ LaidOut(h, o) /\ h.seq \in {10, 11}
      /\ t.env.gen \in Seq(EvidenceNames) /\ LastName(t.env.gen) \in {"gen", "second"}
  BY <1>1, FreshReads DEF Served
<1>3. PICK sid : sid = Append(h.sync, "f7late") OBVIOUS
<1>4. "f7late" \in EvidenceNames /\ "f7sync" \in EvidenceNames BY DEF EvidenceNames
<1>5. sid \in Seq(EvidenceNames) /\ LastName(sid) = "f7late" BY <1>2, <1>3, <1>4, Ids, Suffixed
<1>6. PICK e : e = t.events[h.sync] OBVIOUS
<1>7. e \in SyncEvents BY <1>2, <1>6 DEF Fresh
<1>8. PICK n \in Int : n = h.seq + 5000 BY <1>2
<1>9. PICK late : late = [e EXCEPT !.seq = n] OBVIOUS
<1>10. late \in SyncEvents /\ late.seq = n BY <1>7, <1>9 DEF SyncEvents
<1>11. PICK ev : ev = (sid :> late @@ t.events) OBVIOUS
<1>12. PICK m : m = [t EXCEPT !.events = ev] OBVIOUS
<1>13. /\ Shaped(m) /\ SameRest(m, t) /\ m.env = t.env /\ m.events = ev
  BY <1>12 DEF Fresh, Shaped, TrajectoryFields, SameRest
<1>14. PICK g : g = [h EXCEPT !.sync = sid] OBVIOUS
<1>15. g \in GenerationEvents /\ g.sync = sid BY <1>2, <1>5, <1>14 DEF GenerationEvents
<1>16. SameRollout(g, h) BY <1>2, <1>14 DEF GenerationEvents, SameRollout
<1>17. PICK id : id = Append(t.env.gen, "f7sync") OBVIOUS
<1>18. id \in Seq(EvidenceNames) /\ LastName(id) = "f7sync" BY <1>2, <1>4, <1>17, Suffixed
<1>19. PICK x : x = Renamed(m, "f7sync", g) OBVIOUS
<1>20. x = inject_f7_sync_reorder(t)
  BY <1>1, <1>3, <1>6, <1>8, <1>9, <1>11, <1>12, <1>14, <1>19 DEF inject_f7_sync_reorder
<1>21. IsRenamed(x, m, id, g) BY <1>13, <1>17, <1>19, RenamedIs
<1>22. x.env.gen = id /\ SameRest(x, m) /\ Added(x.events, ev, id, g)
  BY <1>13, <1>21 DEF IsRenamed
<1>23. Added(ev, t.events, sid, late) BY <1>11, AddedIs
<1>24. id \in DOMAIN x.events /\ x.events[id] = g /\ sid \in DOMAIN x.events /\ x.events[sid] = late
  BY <1>5, <1>18, <1>22, <1>23 DEF Added
<1>25. Gen(x) = g /\ HasGen(x) BY <1>15, <1>18, <1>22, <1>24, ReadsGeneration
<1>26. LaidOut(g, o) BY <1>2, <1>16, SameLayout
<1>27. Decodable(x) BY <1>25, <1>26, Decodes12
<1>28. Plain(x) BY <1>13, <1>22 DEF Plain, SameRest, Fresh, Untouched
<1>29. ALL_RULES(x)["P007"] = "reject"
  <2>1. ALL_RULES(x)["P007"] = p007_event_order_invalid(x) BY DEF ALL_RULES
  <2>2. late # None BY <1>10, NoneIsNoEvidence
  <2>3. Event(x, sid) # None BY <1>24, <2>2 DEF Event
  <2>4. g.seq = h.seq BY <1>16 DEF SameRollout
  <2>5. late.seq > g.seq BY <1>2, <1>8, <1>10, <2>4
  <2> QED BY <1>15, <1>24, <1>25, <2>1, <2>3, <2>5 DEF p007_event_order_invalid, Reject
<1>30. "P007" \in RULES_BY_STAGE(stage) BY IdentityRulesAlways DEF IDENTITY_STAGE_RULES
<1>31. Expected("f7:held_out") = <<"reject", {"P007"}>> BY DEF Expected
<1>32. MeetsExpected("f7:held_out", x, stage) BY <1>27, <1>29, <1>30, <1>31, OneRejects
<1>33. KeepsEvidence(x, t)
  <2>1. RewardInOrder(sid, late)
    <3>1. late.type \in EvidenceNames /\ late.type # "reward_finished"
      BY <1>10 DEF SyncEvents, EvidenceNames
    <3> QED BY <3>1 DEF RewardInOrder
  <2>2. RewardInOrder(id, g) BY <1>15 DEF RewardInOrder, GenerationEvents
  <2>3. Loop(t.events) => Loop(ev) BY <1>5, <1>23, <2>1, LoopAdded
  <2>4. Loop(ev) => Loop(x.events) BY <1>18, <1>22, <2>2, LoopAdded
  <2>5. x.corrupt = t.corrupt BY <1>13, <1>22 DEF SameRest
  <2> QED BY <2>3, <2>4, <2>5 DEF KeepsEvidence
<1> QED BY <1>20, <1>28, <1>32, <1>33

LEMMA Hacked ==
  ASSUME NEW t, NEW o, Fresh(t, o), PreUpdate(t),
         NEW fake \in {"fake-reward-v1", "countdown-rule-v1"},
         NEW case, Expected(case) = <<"reject", {"R008"}>>
  PROVE  /\ MeetsExpected(case, inject_f9_reward_hacking(t, fake), "full_pre_update")
         /\ Plain(inject_f9_reward_hacking(t, fake))
         /\ inject_f9_reward_hacking(t, fake).env.stage = "pre_update"
         /\ t.env.reward = reward_id => KeepsEvidence(inject_f9_reward_hacking(t, fake), t)
<1>1. PICK id : id = t.env.reward OBVIOUS
<1>2. PICK e : e = t.events[id] OBVIOUS
<1>3. /\ id \in DOMAIN t.events /\ id \in Seq(EvidenceNames) /\ LastName(id) = "reward"
      /\ e \in RewardEvents /\ t.env.stage = "pre_update"
  BY <1>1, <1>2 DEF PreUpdate
<1>4. id # None BY <1>3, NoneIsNoEvidence
<1>5. PICK V : V = "countdown-rule-v1" :> "0" @@ "gsm8k-rule-v1" :> "1" OBVIOUS
<1>6. /\ V \in [{"countdown-rule-v1", "gsm8k-rule-v1"} -> {"0", "1"}]
      /\ V["countdown-rule-v1"] = "0" /\ V["gsm8k-rule-v1"] = "1"
      /\ DOMAIN V = {"countdown-rule-v1", "gsm8k-rule-v1"}
  BY <1>5 DEF :>, @@
<1>7. PICK a : a = [t EXCEPT !.verifiers = V] OBVIOUS
<1>8. /\ DOMAIN a = TrajectoryFields /\ a.verifiers = V /\ a.env = t.env /\ a.events = t.events
      /\ a.corrupt = t.corrupt
      /\ a.bogus_sequence = t.bogus_sequence /\ a.requires_update_input = t.requires_update_input
  BY <1>7 DEF Fresh, Shaped, TrajectoryFields
<1>9. PICK f : f = [e EXCEPT !.verifier = fake, !.protocol = "f"] OBVIOUS
<1>10. f.type = "reward_finished" /\ f.protocol = "f" /\ f.verifier = fake
       /\ f \in RewardEvents
  BY <1>3, <1>9 DEF RewardEvents
<1>11. PICK ev : ev = [t.events EXCEPT ![id] = f] OBVIOUS
<1>12. PICK x : x = [a EXCEPT !.events = ev] OBVIOUS
<1>13. x = inject_f9_reward_hacking(t, fake)
  <2>1. x = [[a EXCEPT !.events[id].verifier = fake] EXCEPT !.events[id].protocol = "f"]
    <3>1. PICK e1 : e1 = [e EXCEPT !.verifier = fake] OBVIOUS
    <3>2. f = [e1 EXCEPT !.protocol = "f"] BY <1>9, <3>1
    <3>3. PICK ev1 : ev1 = [t.events EXCEPT ![id] = e1] OBVIOUS
    <3>4. PICK a1 : a1 = [a EXCEPT !.events = ev1] OBVIOUS
    <3>5. a1 = [a EXCEPT !.events[id].verifier = fake]
      BY <1>2, <1>8, <3>1, <3>3, <3>4
    <3>6. a1.events = ev1 /\ ev1[id] = e1 BY <1>3, <1>8, <3>3, <3>4 DEF TrajectoryFields
    <3>7. ev = [ev1 EXCEPT ![id] = f] BY <1>11, <3>3
    <3>8. x = [a1 EXCEPT !.events = ev] BY <1>12, <3>4
    <3>9. x = [a1 EXCEPT !.events[id].protocol = "f"] BY <3>2, <3>6, <3>7, <3>8
    <3> QED BY <3>5, <3>9
  <2> QED BY <1>1, <1>4, <1>5, <1>7, <2>1 DEF inject_f9_reward_hacking
<1>14. /\ x.env = t.env /\ x.events = ev /\ x.verifiers = V
       /\ x.bogus_sequence = t.bogus_sequence /\ x.requires_update_input = t.requires_update_input
  BY <1>8, <1>12 DEF TrajectoryFields
<1>15. /\ t.env.gen # id /\ t.env.gen \in DOMAIN t.events /\ Gen(t) = t.events[t.env.gen]
       /\ HasGen(t) /\ t.env.gen # None /\ LaidOut(Gen(t), o)
       /\ Gen(t) \in GenerationEvents
  <2>1. LastName(t.env.gen) # "reward" BY FreshReads
  <2>2. t.env.gen \in DOMAIN t.events BY DEF Fresh
  <2>3. Served(Gen(t), o) /\ Gen(t) = t.events[t.env.gen] /\ HasGen(t) /\ t.env.gen # None
    BY FreshReads
  <2>4. LaidOut(Gen(t), o) /\ Gen(t) \in GenerationEvents BY <2>3 DEF Served
  <2> QED BY <1>3, <2>1, <2>2, <2>3, <2>4
<1>16. DOMAIN ev = DOMAIN t.events /\ ev[id] = f /\ ev[t.env.gen] = t.events[t.env.gen]
  BY <1>3, <1>11, <1>15
<1>17. Gen(x) = Gen(t) /\ HasGen(x)
  <2>1. t.env.gen \in Seq(EvidenceNames) BY FreshReads
  <2> QED BY <1>14, <1>15, <1>16, <2>1, ReadsGeneration
<1>18. Decodable(x) BY <1>15, <1>17, Decodes12
<1>19. Reward(x) = f /\ f # None
  <2>1. f # None BY <1>10, NoneIsNoEvidence
  <2> QED BY <1>1, <1>3, <1>4, <1>10, <1>14, <1>16, <2>1 DEF Reward, Typed, Event
<1>20. ALL_RULES(x)["R008"] = "reject"
  <2>1. ALL_RULES(x)["R008"] = r008_reward_verifier_unregistered(x) BY DEF ALL_RULES
  <2>2. V # None BY <1>6, NoneIsNoEvidence
  <2>3. f.verifier \notin DOMAIN V \/ f.protocol # V[f.verifier] BY <1>6, <1>10
  <2> QED BY <1>14, <1>19, <2>1, <2>2, <2>3 DEF r008_reward_verifier_unregistered, Reject
<1>21. "R008" \in RULES_BY_STAGE("full_pre_update") BY DEF RULES_BY_STAGE, PRE_UPDATE_STAGE_RULES
<1>22. Plain(x) BY <1>14 DEF Plain, Fresh, Untouched
<1>23. MeetsExpected(case, x, "full_pre_update") BY <1>18, <1>20, <1>21, OneRejects
<1>24. id = reward_id => KeepsEvidence(x, t)
  <2>1. Replaced(x.events, t.events, id, f) BY <1>3, <1>11, <1>14 DEF Replaced
  <2>2. f.source = e.source BY <1>3, <1>9 DEF RewardEvents
  <2>3. Loop(t.events) /\ id = reward_id => e.source = gen_id BY <1>2 DEF Loop
  <2>4. Loop(t.events) /\ id = reward_id => Loop(x.events) BY <1>10, <2>1, <2>2, <2>3, LoopReward
  <2>5. x.corrupt = t.corrupt BY <1>8, <1>12 DEF TrajectoryFields
  <2> QED BY <2>4, <2>5 DEF KeepsEvidence
<1> QED BY <1>1, <1>3, <1>13, <1>14, <1>22, <1>23, <1>24

TokenId(p) == p \in Nat /\ p < 32000
NextToken(p) == (p + 1) % 32000

LEMMA TokenChanges ==
  ASSUME NEW p, TokenId(p)
  PROVE  NextToken(p) # p /\ TokenId(NextToken(p))
<1> USE DEF TokenId, NextToken
<1>1. CASE p + 1 < 32000
  <2>1. (p + 1) % 32000 = p + 1 BY <1>1
  <2> QED BY <1>1, <2>1
<1>2. CASE ~(p + 1 < 32000)
  <2>1. p + 1 = 32000 /\ p = 31999 BY <1>2
  <2>2. (p + 1) % 32000 = 0 BY <2>1
  <2> QED BY <2>1, <2>2
<1> QED BY <1>1, <1>2

LEMMA Poisoned ==
  ASSUME NEW t, Fresh(t, default_options), NEW x, x = inject_f10_data_poisoning(t)
  PROVE  /\ MeetsExpected("f10:canonical", x, "full_pre_update") /\ Plain(x)
         /\ DOMAIN x.split.content # {} /\ KeepsEvidence(x, t)
<1>1. PICK h : h = Gen(t) OBVIOUS
<1>2. PICK id : id = t.env.gen OBVIOUS
<1>3. /\ Served(h, default_options) /\ h = t.events[id] /\ id \in Seq(EvidenceNames)
  BY <1>1, <1>2, FreshReads
<1>4. h \in GenerationEvents /\ LaidOut(h, default_options) /\ TokenId(h.tokens.prompt)
      /\ h.tokens.completion = "completion"
  BY <1>3 DEF Served, TokenId
<1>5. id \in DOMAIN t.events /\ id \in {gen_id, second_id} BY <1>2 DEF Fresh
<1>6. PICK p : p = NextToken(h.tokens.prompt) OBVIOUS
<1>7. p # h.tokens.prompt /\ TokenId(p) BY <1>4, <1>6, TokenChanges
<1>8. h.tokens \in TokenSequences BY <1>4 DEF GenerationEvents
<1>9. PICK k : k = [h.tokens EXCEPT !.prompt = p] OBVIOUS
<1>10. p \in Int BY <1>7 DEF TokenId
<1>11. k \in TokenSequences /\ k.prompt = p /\ k.n = h.tokens.n /\ k.completion = h.tokens.completion
  BY <1>8, <1>9, <1>10 DEF TokenSequences
<1>12. PICK g : g = [h EXCEPT !.tokens = k] OBVIOUS
<1>13. g \in GenerationEvents BY <1>4, <1>11, <1>12 DEF GenerationEvents
<1>14. /\ g.tokens = k /\ g.version = h.version /\ g.checkpoint = h.checkpoint /\ g.sync = h.sync
       /\ g.seq = h.seq /\ g.tokenizer = h.tokenizer /\ g.template = h.template
       /\ g.logprobs = h.logprobs /\ g.completion_span = h.completion_span
       /\ g.padding_spans = h.padding_spans /\ g.target_mask = h.target_mask
       /\ g.loss_mask = h.loss_mask /\ g.prompt_id = h.prompt_id
  BY <1>4, <1>12 DEF GenerationEvents
<1>15. LaidOut(g, default_options) BY <1>4, <1>11, <1>14 DEF LaidOut
<1>16. Served(g, default_options)
  <2>1. g.tokens.prompt = p /\ g.tokens.completion = "completion" BY <1>4, <1>11, <1>14
  <2>2. p \in Nat /\ p < 32000 BY <1>7 DEF TokenId
  <2> QED BY <1>3, <1>13, <1>14, <1>15, <2>1, <2>2 DEF Served
<1>17. t.split \in SplitManifests /\ t.split.content = <<>> BY DEF Fresh
<1>18. PICK q : q = (h.prompt_id :> h.tokens.prompt @@ t.split.content) OBVIOUS
<1>19. DOMAIN q = {h.prompt_id} /\ q[h.prompt_id] = h.tokens.prompt
  <2>1. DOMAIN t.split.content = {} BY <1>17
  <2> QED BY <1>18, <2>1 DEF :>, @@
<1>20. PICK split : split = [t.split EXCEPT !.content = q] OBVIOUS
<1>21. split.content = q BY <1>17, <1>20 DEF SplitManifests
<1>22. PICK ev : ev = [t.events EXCEPT ![id] = g] OBVIOUS
<1>23. PICK m : m = [t EXCEPT !.split = split] OBVIOUS
<1>24. x = [m EXCEPT !.events = ev]
  <2>1. x = [[t EXCEPT !.split.content = q] EXCEPT !.events[id].tokens.prompt = NextToken(@)]
    BY <1>1, <1>2, <1>18 DEF inject_f10_data_poisoning, NextToken
  <2>2. m = [t EXCEPT !.split.content = q] BY <1>20, <1>23
  <2>3. m.events = t.events BY <1>23 DEF Fresh, Shaped, TrajectoryFields
  <2> QED BY <1>3, <1>6, <1>9, <1>12, <1>22, <2>1, <2>2, <2>3
<1>25. /\ x.env = t.env /\ x.events = ev /\ x.split = split /\ x.corrupt = t.corrupt
       /\ x.bogus_sequence = t.bogus_sequence /\ x.requires_update_input = t.requires_update_input
  BY <1>23, <1>24 DEF Fresh, Shaped, TrajectoryFields
<1>26. Replaced(ev, t.events, id, g) BY <1>5, <1>22 DEF Replaced
<1>27. KeepsEvidence(x, t) BY <1>5, <1>16, <1>25, <1>26, LoopGeneration DEF KeepsEvidence
<1>28. Plain(x) BY <1>25 DEF Plain, Fresh, Untouched
<1>29. Gen(x) = g /\ HasGen(x)
  <2>1. x.env.gen = id /\ id \in DOMAIN x.events /\ x.events[id] = g
    BY <1>2, <1>5, <1>25, <1>26 DEF Replaced
  <2> QED BY <1>3, <1>13, <2>1, ReadsGeneration
<1>30. Decodable(x) BY <1>15, <1>29, Decodes12
<1>31. ALL_RULES(x)["D004"] = "reject"
  <2>1. ALL_RULES(x)["D004"] = d004_prompt_content_mismatch(x) BY DEF ALL_RULES
  <2>2. x.split # None
    <3>1. q \in [{h.prompt_id} -> Int] BY <1>4, <1>19, <1>18 DEF TokenId, :>, @@
    <3>2. h.prompt_id \in {"countdown-0001", "countdown-0002"} BY <1>4 DEF GenerationEvents
    <3>3. q \in [{"countdown-0001"} -> Int] \cup [{"countdown-0002"} -> Int] BY <3>1, <3>2
    <3>4. split \in SplitManifests BY <1>17, <1>20, <3>3 DEF SplitManifests
    <3> QED BY <1>25, <3>4, NoneIsNoEvidence
  <2>3. Readable(x, k) BY <1>25 DEF Readable, Fresh, Untouched
  <2>4. g.prompt_id \in DOMAIN split.content /\ k.prompt # split.content[g.prompt_id]
    BY <1>7, <1>11, <1>14, <1>19, <1>21
  <2> QED BY <1>14, <1>25, <1>29, <2>1, <2>2, <2>3, <2>4 DEF d004_prompt_content_mismatch, Reject
<1>32. "D004" \in RULES_BY_STAGE("full_pre_update") BY DEF RULES_BY_STAGE, PRE_UPDATE_STAGE_RULES
<1>33. Expected("f10:canonical") = <<"reject", {"D004"}>> BY DEF Expected
<1>34. MeetsExpected("f10:canonical", x, "full_pre_update") BY <1>30, <1>31, <1>32, <1>33, OneRejects
<1> QED BY <1>19, <1>21, <1>25, <1>27, <1>28, <1>34

LEMMA Aliased ==
  ASSUME NEW t, NEW o, Fresh(t, o), PreUpdate(t), o.span[2] - o.span[1] > 0,
         NEW protocol \in {"countdown-protocol", "countdown-eval-protocol-v1"},
         NEW verifier \in {None, "countdown-rule-v1-eval"},
         NEW case, Expected(case) = <<"quarantine", {"R006"}>>
  PROVE  /\ MeetsExpected(case, inject_f6_evaluator_alias(t, protocol, verifier), "full_pre_update")
         /\ Plain(inject_f6_evaluator_alias(t, protocol, verifier))
         /\ inject_f6_evaluator_alias(t, protocol, verifier).env.stage = "pre_update"
         /\ protocol = "countdown-eval-protocol-v1"
              => KeepsEvidence(inject_f6_evaluator_alias(t, protocol, verifier), t)
<1>1. PICK old : old = t.env.reward OBVIOUS
<1>2. PICK e : e = t.events[old] OBVIOUS
<1>3. PICK parent : parent = t.env.parent OBVIOUS
<1>4. /\ old \in DOMAIN t.events /\ old \in Seq(EvidenceNames) /\ LastName(old) = "reward"
      /\ e \in RewardEvents /\ t.env.stage = "pre_update"
      /\ parent \in DOMAIN t.events /\ parent \in Seq(EvidenceNames) /\ LastName(parent) = "parent"
      /\ t.events[parent] \in DecisionEvents
  BY <1>1, <1>2, <1>3 DEF PreUpdate
<1>5. old # None /\ parent # None BY <1>4, NoneIsNoEvidence
<1>6. PICK id : id = Append(old, "f6") OBVIOUS
<1>7. "f6" \in EvidenceNames BY DEF EvidenceNames
<1>8. id \in Seq(EvidenceNames) /\ LastName(id) = "f6" /\ Len(id) = Len(old) + 1
  BY <1>4, <1>6, <1>7, Suffixed
<1>9. PICK copy : copy = [e EXCEPT !.protocol = protocol,
                                       !.verifier = IF verifier = None THEN @ ELSE verifier]
  OBVIOUS
<1>10. /\ copy \in RewardEvents /\ copy.protocol = protocol
       /\ copy.status = "success" /\ copy.type = "reward_finished"
  BY <1>4, <1>9 DEF RewardEvents
<1>11. PICK ev : ev = (id :> copy @@ t.events) OBVIOUS
<1>12. PICK env : env = [t.env EXCEPT !.reward = id] OBVIOUS
<1>13. PICK d : d = [t EXCEPT !.eval_protocol = protocol] OBVIOUS
<1>14. PICK x : x = [d EXCEPT !.events = ev, !.env = env] OBVIOUS
<1>15. d.env = t.env /\ d.events = t.events BY <1>13 DEF Fresh, Shaped, TrajectoryFields
<1>16. x = inject_f6_evaluator_alias(t, protocol, verifier)
  BY <1>1, <1>2, <1>5, <1>6, <1>9, <1>11, <1>12, <1>13, <1>14, <1>15 DEF inject_f6_evaluator_alias
<1>17. DOMAIN t = TrajectoryFields /\ DOMAIN t.env = EnvFields BY DEF Fresh, Shaped
<1>18. /\ env.reward = id /\ env.stage = t.env.stage /\ env.gen = t.env.gen
       /\ env.scoring = t.env.scoring /\ env.parent = parent /\ env.contract = t.env.contract
  BY <1>3, <1>12, <1>17 DEF EnvFields
<1>19. /\ x.events = ev /\ x.env = env /\ x.eval_protocol = protocol /\ x.corrupt = t.corrupt
       /\ x.manifest = t.manifest /\ x.split = t.split /\ x.protocol = t.protocol
       /\ x.canary = t.canary /\ x.update = t.update /\ x.split_registry = t.split_registry
       /\ x.verifiers = t.verifiers /\ x.bogus_sequence = t.bogus_sequence
       /\ x.requires_update_input = t.requires_update_input
  BY <1>13, <1>14, <1>17 DEF TrajectoryFields
<1>20. Added(ev, t.events, id, copy) BY <1>11, AddedIs
<1>21. \A j \in DOMAIN t.events : j # id => Event(x, j) = t.events[j] /\ ev[j] = t.events[j]
  BY <1>19, <1>20 DEF Added, Event
<1>22. /\ t.env.gen \in DOMAIN t.events /\ canary_ref \in DOMAIN t.events
  BY DEF Fresh
<1>23. id # t.env.gen /\ id # canary_ref /\ id # parent
  <2>1. LastName(t.env.gen) \in {"gen", "second"} BY FreshReads
  <2>2. LastName(canary_ref) = "canary_passed" BY Ids
  <2> QED BY <1>4, <1>8, <2>1, <2>2
<1>24. Gen(t) = t.events[t.env.gen] /\ HasGen(t) /\ Gen(t).type = "generation_finished" /\ t.env.gen # None
  BY FreshReads
<1>25. Gen(x) = Gen(t) /\ HasGen(x)
  <2>1. Event(x, t.env.gen) = Gen(t) /\ ev[t.env.gen] = Gen(t) BY <1>21, <1>22, <1>23, <1>24
  <2> QED BY <1>18, <1>19, <1>24, <2>1 DEF Gen, Typed, HasGen
<1>26. Scoring(x) = None
  <2>1. x.env.scoring = None BY <1>18, <1>19 DEF Fresh
  <2> QED BY <2>1 DEF Scoring, Typed
<1>27. Reward(x) = copy /\ copy # None
  <2>1. copy # None BY <1>10, NoneIsNoEvidence
  <2>2. Event(x, id) = copy /\ ev[id] = copy BY <1>19, <1>20 DEF Added, Event
  <2>3. id # None BY <1>8, NoneIsNoEvidence
  <2> QED BY <1>10, <1>18, <1>19, <2>1, <2>2, <2>3 DEF Reward, Typed
<1>28. Orderly(t, o) /\ Gen(t).sync = canary_ref /\ t.events[canary_ref].type \in SYNC_TERMINAL_SUCCESS
  BY FreshOrderly
<1>29. Event(x, canary_ref) = Event(t, canary_ref) /\ ev[canary_ref] = t.events[canary_ref]
       /\ Event(t, canary_ref) # None
  BY <1>21, <1>22, <1>23, FreshReads
<1>30. OnPolicy(x)
  <2>1. OnPolicy(t) BY <1>28 DEF Orderly
  <2> QED BY <1>18, <1>19, <1>25, <1>28, <1>29, <2>1 DEF OnPolicy
<1>31. OneSource(x)
  <2>1. OneSource(t) /\ Scoring(t) = None BY <1>28, FreshReads DEF Orderly
  <2>2. completion_length(x) = completion_length(t) BY <1>25 DEF completion_length
  <2>3. t.env.contract.auth = t.env.gen BY DEF Fresh
  <2>4. Event(x, t.env.gen) = Gen(x) BY <1>21, <1>22, <1>23, <1>24, <1>25
  <2> QED BY <1>18, <1>19, <1>25, <1>26, <2>1, <2>2, <2>3, <2>4 DEF OneSource
<1>32. Staged(x)
  <2>1. ev[parent] = t.events[parent] /\ Event(x, parent) = t.events[parent]
    BY <1>4, <1>21, <1>23
  <2>2. t.events[parent] # None BY <1>4, NoneIsNoEvidence
  <2>3. t.events[parent].type = "validation_decision" /\ t.events[parent].decision = "allow"
    BY <1>4 DEF DecisionEvents
  <2>4. id # None BY <1>8, NoneIsNoEvidence
  <2> QED BY <1>4, <1>5, <1>18, <1>19, <2>1, <2>2, <2>3, <2>4 DEF Staged, Typed
<1>33. Orderly(x, o)
  <2>1. Reward(x).protocol # None /\ Reward(x).status = "success"
    BY <1>10, <1>27, NoneIsNoEvidence
  <2> QED BY <1>19, <1>25, <1>28, <1>30, <1>31, <1>32, <2>1 DEF Orderly
<1>34. ALL_RULES(x)["R006"] = "quarantine"
  <2>1. ALL_RULES(x)["R006"] = r006_evaluator_alias(x) BY DEF ALL_RULES
  <2>2. protocol # None BY NoneIsNoEvidence
  <2> QED BY <1>10, <1>19, <1>27, <2>1, <2>2 DEF r006_evaluator_alias, Quarantine
<1>35. \A r \in RULES_BY_STAGE("full_pre_update") \ {"R006"} : ALL_RULES(x)[r] = "pass"
  <2> TAKE r \in RULES_BY_STAGE("full_pre_update") \ {"R006"}
  <2>1. CASE r \notin FaultRules BY <1>33, <2>1, OrderlyRules
  <2>2. CASE r \in FaultRules
    BY <1>19, <1>25, <1>26, <1>28, <1>29, <1>33, <2>2, FaultRulesPass DEF FaultRules
  <2> QED BY <2>1, <2>2
<1>36. "R006" \in RULES_BY_STAGE("full_pre_update") BY DEF RULES_BY_STAGE, PRE_UPDATE_STAGE_RULES
<1>37. MeetsExpected(case, x, "full_pre_update") BY <1>34, <1>35, <1>36, OneQuarantines
<1>38. Plain(x) BY <1>19 DEF Plain, Fresh, Untouched
<1>39. protocol = "countdown-eval-protocol-v1" => KeepsEvidence(x, t)
  <2>1. Len(id) \in Nat \ {0, 1}
    <3>1. Len(old) \in Nat \ {0} BY <1>1 DEF PreUpdate
    <3> QED BY <1>8, <3>1
  <2>2. protocol = "countdown-eval-protocol-v1" => RewardInOrder(id, copy)
    BY <1>10, <2>1 DEF RewardInOrder
  <2>3. x.events = ev /\ x.corrupt = t.corrupt BY <1>19
  <2>4. protocol = "countdown-eval-protocol-v1"
          => (Loop(t.events) => Loop(ev))
    BY <1>8, <1>20, <2>2, LoopAdded
  <2> QED BY <2>3, <2>4 DEF KeepsEvidence
<1> QED BY <1>4, <1>16, <1>18, <1>19, <1>37, <1>38, <1>39

LEMMA NotAliased ==
  ASSUME NEW t, NEW o, Fresh(t, o), o.span[2] - o.span[1] > 0, NEW protocol,
         Reward(t).protocol # protocol, NEW stage
  PROVE  /\ MeetsExpected("f6:boundary", inject_f6_no_alias(t, protocol), stage)
         /\ Plain(inject_f6_no_alias(t, protocol)) /\ KeepsEvidence(inject_f6_no_alias(t, protocol), t)
         /\ inject_f6_no_alias(t, protocol).env = t.env
<1>1. PICK x : x = [t EXCEPT !.eval_protocol = protocol] OBVIOUS
<1>2. x = inject_f6_no_alias(t, protocol) BY <1>1 DEF inject_f6_no_alias
<1>3. /\ x.events = t.events /\ x.env = t.env /\ x.eval_protocol = protocol /\ x.corrupt = t.corrupt
      /\ x.manifest = t.manifest /\ x.split = t.split /\ x.protocol = t.protocol
      /\ x.canary = t.canary /\ x.update = t.update /\ x.split_registry = t.split_registry
      /\ x.verifiers = t.verifiers /\ x.bogus_sequence = t.bogus_sequence
      /\ x.requires_update_input = t.requires_update_input
  BY <1>1 DEF Fresh, Shaped, TrajectoryFields
<1>4. /\ Gen(x) = Gen(t) /\ HasGen(x) /\ Scoring(x) = Scoring(t) /\ Reward(x) = Reward(t)
  BY <1>3, SameReadingIs, FreshReads DEF SameReading
<1>5. /\ Orderly(t, o) /\ Gen(t).sync = canary_ref
      /\ t.events[canary_ref].type \in SYNC_TERMINAL_SUCCESS
      /\ Event(t, canary_ref) # None /\ Scoring(t) = None
  BY FreshOrderly, FreshReads
<1>6. \A j : Event(x, j) = Event(t, j) BY <1>3 DEF Event
<1>7. OnPolicy(x) BY <1>3, <1>4, <1>5, <1>6 DEF Orderly, OnPolicy
<1>8. OneSource(x)
  <2>1. completion_length(x) = completion_length(t) BY <1>4 DEF completion_length
  <2>2. OneSource(t) BY <1>5 DEF Orderly
  <2>3. Event(x, t.env.contract.auth) = Event(t, t.env.contract.auth) BY <1>6
  <2> QED BY <1>3, <1>4, <1>5, <2>1, <2>2, <2>3 DEF OneSource
<1>9. Staged(x) BY <1>3, <1>5, <1>6 DEF Orderly, Staged, Typed
<1>10. Orderly(x, o) BY <1>3, <1>4, <1>5, <1>7, <1>8, <1>9 DEF Orderly
<1>11. \A r \in RULES_BY_STAGE(stage) : ALL_RULES(x)[r] = "pass"
  <2> TAKE r \in RULES_BY_STAGE(stage)
  <2>1. CASE r \notin FaultRules BY <1>10, <2>1, OrderlyRules
  <2>2. CASE r \in FaultRules
    BY <1>3, <1>4, <1>5, <1>6, <1>10, <2>2, FaultRulesPass DEF FaultRules
  <2> QED BY <2>1, <2>2
<1>12. Expected("f6:boundary") = <<"allow", {}>> BY DEF Expected
<1>13. MeetsExpected("f6:boundary", x, stage) BY <1>11, <1>12, AllPass
<1>14. Plain(x) BY <1>3 DEF Plain, Fresh, Untouched
<1> QED BY <1>2, <1>3, <1>13, <1>14 DEF KeepsEvidence

----------------------------------------------------------------------------
(* The trajectories the drivers build.                                     *)

IsChain(c) ==
  /\ canary_ref \in DOMAIN c /\ c[canary_ref].type = "canary_passed" /\ c[canary_ref].seq = 3
  /\ Append(sync_id, "sync_requested") \in DOMAIN c /\ c[Append(sync_id, "sync_requested")].seq = 0
  /\ \A id \in DOMAIN c :
       /\ id[1] = "sync" /\ id \in Seq(EvidenceNames) /\ c[id] \in SyncEvents /\ c[id].seq >= 0
       /\ c[id].seq = 0 => c[id].type = "sync_requested"
       /\ c[id].seq <= 3

LEMMA SyncChain == IsChain(make_sync_chain(0))
<1>1. PICK T : T = <<"sync_requested", "sync_started", "runtime_loaded", "canary_passed">> OBVIOUS
<1>2. PICK c : c = make_sync_chain(0) OBVIOUS
<1>3. /\ T[1] = "sync_requested" /\ T[2] = "sync_started" /\ T[3] = "runtime_loaded"
      /\ T[4] = "canary_passed"
  BY <1>1
<1>4. DOMAIN c = {Append(sync_id, T[i]) : i \in 1..4}
  BY <1>1, <1>2 DEF make_sync_chain
<1>5. ASSUME NEW i \in 1..4, NEW id, id = Append(sync_id, T[i])
      PROVE  /\ id \in DOMAIN c /\ c[id] = [type |-> T[i], seq |-> i - 1]
             /\ id[1] = "sync" /\ id \in Seq(EvidenceNames) /\ T[i] \in EvidenceNames
  <2>1. id \in DOMAIN c BY <1>4, <1>5
  <2>2. PICK n : n = T[i] OBVIOUS
  <2>3. n \in EvidenceNames BY <1>3, <2>2 DEF EvidenceNames
  <2>4. id = Append(sync_id, n) /\ sync_id[1] = "sync" /\ Len(sync_id) = 1
        /\ sync_id \in Seq(EvidenceNames)
    BY <1>5, <2>2, Ids DEF sync_id
  <2>5. id[1] = "sync" /\ id[2] = n BY <2>3, <2>4, AppendProperties
  <2>6. id \in Seq(EvidenceNames) BY <1>5, <2>2, <2>3, Ids, Suffixed
  <2>7. PICK k : k = CHOOSE j \in 1..4 : T[j] = n OBVIOUS
  <2>8. k \in 1..4 /\ T[k] = n BY <2>2, <2>7
  <2>9. k = i BY <1>3, <2>2, <2>8
  <2>10. c[id] = [type |-> n, seq |-> 0 + k - 1]
    BY <1>1, <1>2, <1>4, <2>1, <2>5, <2>7 DEF make_sync_chain
  <2>11. 0 + k - 1 = i - 1 BY <2>9
  <2> QED BY <2>1, <2>2, <2>3, <2>5, <2>6, <2>10, <2>11
<1>6. \A id \in DOMAIN c :
        /\ id[1] = "sync" /\ id \in Seq(EvidenceNames) /\ c[id] \in SyncEvents /\ c[id].seq >= 0
        /\ c[id].seq = 0 => c[id].type = "sync_requested"
        /\ c[id].seq <= 3
  <2> TAKE id \in DOMAIN c
  <2>1. PICK i \in 1..4 : id = Append(sync_id, T[i]) BY <1>4
  <2>2. /\ c[id] = [type |-> T[i], seq |-> i - 1] /\ id[1] = "sync" /\ id \in Seq(EvidenceNames)
        /\ T[i] \in EvidenceNames
    BY <1>5, <2>1
  <2>3. c[id] \in SyncEvents /\ c[id].seq = i - 1 /\ c[id].type = T[i] BY <2>2 DEF SyncEvents
  <2>4. i - 1 = 0 => T[i] = "sync_requested" BY <1>3
  <2>5. i - 1 <= 3 OBVIOUS
  <2> QED BY <2>2, <2>3, <2>4, <2>5
<1>7. canary_ref \in DOMAIN c /\ c[canary_ref].type = "canary_passed" /\ c[canary_ref].seq = 3
  <2>1. canary_ref = Append(sync_id, T[4]) /\ 4 \in 1..4 BY <1>3 DEF canary_ref
  <2>2. canary_ref \in DOMAIN c /\ c[canary_ref] = [type |-> T[4], seq |-> 4 - 1] BY <1>5, <2>1
  <2>3. 4 - 1 = 3 OBVIOUS
  <2> QED BY <1>3, <2>2, <2>3
<1>8. Append(sync_id, "sync_requested") \in DOMAIN c /\ c[Append(sync_id, "sync_requested")].seq = 0
  <2>1. PICK id : id = Append(sync_id, T[1]) OBVIOUS
  <2>2. 1 \in 1..4 OBVIOUS
  <2>3. id \in DOMAIN c /\ c[id] = [type |-> T[1], seq |-> 1 - 1]
    BY <1>5, <2>1, <2>2
  <2>4. 1 - 1 = 0 OBVIOUS
  <2>5. id = Append(sync_id, "sync_requested") BY <1>3, <2>1
  <2> QED BY <2>3, <2>4, <2>5
<1> QED BY <1>2, <1>6, <1>7, <1>8 DEF IsChain

LEMMA SensibleOptions ==
  ASSUME NEW o, o.n = 12,
         \/ o.span = <<4, 12>> /\ o.pads = {}
         \/ o.span = <<4, 4>> /\ o.pads = {}
         \/ o.span = <<4, 12>> /\ o.pads = {<<0, 2>>}
  PROVE  Sensible(o)
<1>1. CASE o.span = <<4, 12>> /\ o.pads = {}
  <2>1. o.span \in Int \X Int /\ o.pads \subseteq Int \X Int BY <1>1
  <2>2. AlignmentResult(12, o.span, o.pads) = "Alignment"
    <3>1. o.span[1] = 4 /\ o.span[2] = 12 BY <1>1
    <3> QED BY <1>1, <3>1 DEF AlignmentResult
  <2>3. ~padding_within_completion(o.span, o.pads) BY <1>1 DEF padding_within_completion
  <2> QED BY <2>1, <2>2, <2>3 DEF Sensible
<1>2. CASE o.span = <<4, 4>> /\ o.pads = {}
  <2>1. o.span \in Int \X Int /\ o.pads \subseteq Int \X Int BY <1>2
  <2>2. AlignmentResult(12, o.span, o.pads) = "EmptyCompletionError"
    <3>1. o.span[1] = 4 /\ o.span[2] = 4 BY <1>2
    <3> QED BY <1>2, <3>1 DEF AlignmentResult
  <2>3. ~padding_within_completion(o.span, o.pads) BY <1>2 DEF padding_within_completion
  <2> QED BY <2>1, <2>2, <2>3 DEF Sensible
<1>3. CASE o.span = <<4, 12>> /\ o.pads = {<<0, 2>>}
  <2>1. o.span \in Int \X Int /\ o.pads \subseteq Int \X Int BY <1>3
  <2>2. AlignmentResult(12, o.span, o.pads) = "Alignment"
    <3>1. o.span[1] = 4 /\ o.span[2] = 12 BY <1>3
    <3>2. \A p \in o.pads : p[1] = 0 /\ p[2] = 2 BY <1>3
    <3> QED BY <1>3, <3>1, <3>2 DEF AlignmentResult
  <2>3. ~padding_within_completion(o.span, o.pads)
    <3>1. o.span[1] = 4 BY <1>3
    <3>2. \A p \in o.pads : p[2] = 2 BY <1>3
    <3> QED BY <3>1, <3>2 DEF padding_within_completion
  <2> QED BY <2>1, <2>2, <2>3 DEF Sensible
<1> QED BY <1>1, <1>2, <1>3

\* The options of the drivers' factories.
DriverOptions(o) ==
  /\ Sensible(o) /\ o.n = 12 /\ o.version = 0 /\ o.source = "generation_service"
  /\ o.stage = "pre_reward" /\ o.protocol = "strict_on_policy" /\ o.parent = None

LEMMA DefaultOptions ==
  /\ DriverOptions(default_options) /\ default_options.span = <<4, 12>>
  /\ default_options.pads = {} /\ default_options.span[2] - default_options.span[1] > 0
<1>1. PICK o : o = default_options OBVIOUS
<1>2. /\ o.n = 12 /\ o.span = <<4, 12>> /\ o.pads = {} /\ o.version = 0
      /\ o.source = "generation_service" /\ o.stage = "pre_reward"
      /\ o.protocol = "strict_on_policy" /\ o.parent = None
  BY <1>1 DEF default_options
<1>3. Sensible(o) BY <1>2, SensibleOptions
<1>4. o.span[2] - o.span[1] > 0
  <2>1. o.span[1] = 4 /\ o.span[2] = 12 BY <1>2
  <2> QED BY <2>1
<1> QED BY <1>1, <1>2, <1>3, <1>4 DEF DriverOptions

LEMMA GenerationServed ==
  ASSUME NEW o, DriverOptions(o), NEW seq \in {10, 11}
  PROVE  Served(generation(o, seq), o) /\ generation(o, seq).prompt_id = "countdown-0001"
         /\ generation(o, seq).seq = seq
<1>1. PICK g : g = generation(o, seq) OBVIOUS
<1>2. /\ o.n = 12 /\ o.version = 0 /\ o.source = "generation_service" /\ o.span \in Int \X Int
      /\ o.pads \subseteq Int \X Int
  BY DEF DriverOptions, Sensible
<1>3. 12 - 1 = 11 OBVIOUS
<1>4. o.span[2] - o.span[1] \in Int BY <1>2
<1>5. PICK target : target = mask(12, completion_target_mask(o.span, o.pads)) OBVIOUS
<1>6. PICK loss : loss = mask(11, canonical_loss_mask(12, o.span, o.pads)) OBVIOUS
<1>7. target \in Masks /\ loss \in Masks BY <1>5, <1>6 DEF mask, Masks
<1>8. PICK logprobs : logprobs = behavior_logprobs(o.span[2] - o.span[1]) OBVIOUS
<1>9. logprobs \in LogprobArrays /\ logprobs.n = o.span[2] - o.span[1]
  BY <1>4, <1>8 DEF behavior_logprobs, LogprobArrays
<1>10. PICK tokens : tokens = sequence(12) OBVIOUS
<1>11. tokens \in TokenSequences /\ tokens.n = 12 /\ tokens.prompt = 0
       /\ tokens.completion = "completion"
  BY <1>10 DEF sequence, TokenSequences
<1>12. g = [type |-> "generation_finished", seq |-> seq, prompt_id |-> "countdown-0001",
            version |-> 0, checkpoint |-> 0, sync |-> canary_ref, tokenizer |-> "tokenizer",
            template |-> "template", completion_span |-> o.span, padding_spans |-> o.pads,
            tokens |-> tokens, target_mask |-> target, loss_mask |-> loss, logprobs |-> logprobs]
  BY <1>1, <1>2, <1>3, <1>5, <1>6, <1>8, <1>10 DEF generation, make_policy_manifest
<1>13. g \in GenerationEvents
  <2>1. canary_ref \in Seq(EvidenceNames) BY Ids
  <2>2. seq \in Int OBVIOUS
  <2> QED BY <1>2, <1>7, <1>9, <1>11, <1>12, <2>1, <2>2 DEF GenerationEvents
<1>14. LaidOut(g, o) BY <1>5, <1>6, <1>11, <1>12 DEF LaidOut
<1>15. 0 \in Nat /\ 0 < 32000 OBVIOUS
<1> QED BY <1>1, <1>9, <1>11, <1>12, <1>13, <1>14, <1>15 DEF Served

\* A sync chain with other events behind it.
LEMMA ChainFirst ==
  ASSUME NEW c, IsChain(c), NEW ev, DOMAIN c \subseteq DOMAIN ev,
         \A id \in DOMAIN c : ev[id] = c[id],
         \A id \in DOMAIN ev \ DOMAIN c : id[1] # "sync"
  PROVE  /\ Chain(ev) /\ canary_ref \in DOMAIN ev /\ ev[canary_ref] \in SyncEvents
         /\ ev[canary_ref].type = "canary_passed" /\ ev[canary_ref].seq <= 3
<1>1. PICK r : r = Append(sync_id, "sync_requested") OBVIOUS
<1>2. r \in DOMAIN ev /\ ev[r].seq = 0 BY <1>1 DEF IsChain
<1>3. \A id \in DOMAIN ev : id[1] = "sync" =>
        /\ id \in Seq(EvidenceNames) /\ ev[id] \in SyncEvents /\ ev[id].seq >= 0
        /\ ev[id].seq = 0 => ev[id].type = "sync_requested"
  <2> TAKE id \in DOMAIN ev
  <2> HAVE id[1] = "sync"
  <2>1. id \in DOMAIN c OBVIOUS
  <2>2. ev[id] = c[id] BY <2>1
  <2> QED BY <2>1, <2>2 DEF IsChain
<1>4. canary_ref \in DOMAIN c /\ c[canary_ref] \in SyncEvents /\ c[canary_ref].type = "canary_passed"
      /\ c[canary_ref].seq = 3
  BY DEF IsChain
<1>5. 3 <= 3 OBVIOUS
<1> QED BY <1>1, <1>2, <1>3, <1>4, <1>5 DEF Chain

IsBuilt(t, o) == Rollout(t, o) /\ Chain(t.events) /\ HasLatest(t)

LEMMA Built ==
  ASSUME NEW o, DriverOptions(o)
  PROVE  IsBuilt(build_trajectory(o), o)
<1>1. PICK t : t = build_trajectory(o) OBVIOUS
<1>2. PICK c : c = make_sync_chain(0) OBVIOUS
<1>3. PICK g : g = generation(o, 10) OBVIOUS
<1>4. PICK r : r = reward(gen_id, 11) OBVIOUS
<1>5. PICK ev : ev = (c @@ (gen_id :> g) @@ (reward_id :> r) @@ <<>>) OBVIOUS
<1>6. /\ o.version = 0 /\ o.source = "generation_service" /\ o.stage = "pre_reward"
      /\ o.protocol = "strict_on_policy" /\ o.parent = None /\ Sensible(o)
  BY DEF DriverOptions
<1>7. 10 + 100 * 0 = 10 /\ 10 + 1 = 11 OBVIOUS
<1>8. PICK k : k = build_contract(o) OBVIOUS
<1>9. /\ DOMAIN k = ContractFields /\ k.protocol = "strict_on_policy" /\ k.parent_version = 0
      /\ k.source = "generation_service" /\ k.auth = gen_id
  BY <1>6, <1>8 DEF build_contract, ContractFields
<1>10. PICK env : env = [stage |-> "pre_reward", gen |-> gen_id, scoring |-> None, reward |-> None,
                         parent |-> None, contract |-> k]
  OBVIOUS
<1>11. PICK p : p = [mode |-> "strict_on_policy", max_lag |-> 0, correction |-> FALSE] OBVIOUS
<1>12. t = [events |-> ev, env |-> env, manifest |-> make_policy_manifest(0),
            split |-> make_split_manifest("train", {"countdown-0001"}),
            corrupt |-> {}, protocol |-> p,
            canary |-> None, update |-> None, split_registry |-> None, eval_protocol |-> None,
            verifiers |-> None, bogus_sequence |-> None, requires_update_input |-> FALSE]
  <2>1. 10 + 100 * o.version = 10 BY <1>6, <1>7
  <2>2. t.events = ev
    BY <1>1, <1>2, <1>3, <1>4, <1>5, <1>6, <1>7, <2>1 DEF build_trajectory
  <2>3. t.env = env BY <1>1, <1>6, <1>8, <1>10 DEF build_trajectory
  <2> QED BY <1>1, <1>6, <1>11, <2>2, <2>3 DEF build_trajectory
<1>13. IsChain(c) BY <1>2, SyncChain
<1>14. gen_id \notin DOMAIN c /\ reward_id \notin DOMAIN c /\ gen_id # reward_id
  BY <1>13, Ids DEF IsChain
<1>15. /\ DOMAIN ev = DOMAIN c \cup {gen_id, reward_id} /\ ev[gen_id] = g /\ ev[reward_id] = r
       /\ \A id \in DOMAIN c : ev[id] = c[id]
  <2>1. PICK a : a = c @@ (gen_id :> g) OBVIOUS
  <2>2. /\ DOMAIN a = DOMAIN c \cup {gen_id} /\ a[gen_id] = g /\ \A id \in DOMAIN c : a[id] = c[id]
    BY <1>14, <2>1 DEF :>, @@
  <2>3. PICK b : b = a @@ (reward_id :> r) OBVIOUS
  <2>4. /\ DOMAIN b = DOMAIN a \cup {reward_id} /\ \A id \in DOMAIN a : b[id] = a[id]
        /\ b[reward_id] = r
    BY <1>14, <2>2, <2>3 DEF :>, @@
  <2>5. ev = b @@ <<>> BY <1>5, <2>1, <2>3
  <2>6. DOMAIN <<>> = {} OBVIOUS
  <2>7. DOMAIN ev = DOMAIN b /\ \A id \in DOMAIN b : ev[id] = b[id] BY <2>5, <2>6 DEF @@
  <2> QED BY <2>2, <2>4, <2>7
<1>16. /\ Chain(ev) /\ canary_ref \in DOMAIN ev /\ ev[canary_ref] \in SyncEvents
       /\ ev[canary_ref].type = "canary_passed" /\ ev[canary_ref].seq <= 3
  <2>1. \A id \in DOMAIN ev \ DOMAIN c : id[1] # "sync" BY <1>15, Ids
  <2> QED BY <1>13, <1>15, <2>1, ChainFirst
<1>17. Served(g, o) /\ g.prompt_id = "countdown-0001" BY <1>3, GenerationServed
<1>18. Shaped(t)
  <2>1. DOMAIN t = TrajectoryFields BY <1>12 DEF TrajectoryFields
  <2>2. t.env = env /\ DOMAIN env = EnvFields /\ env.contract = k BY <1>10, <1>12 DEF EnvFields
  <2> QED BY <1>9, <2>1, <2>2 DEF Shaped
<1>19. Untouched(t) BY <1>12 DEF Untouched
<1>20. /\ t.events = ev /\ t.env.gen = gen_id /\ t.env.stage = "pre_reward" /\ t.env.reward = None
       /\ t.env.scoring = None /\ t.env.contract = k /\ t.manifest = make_policy_manifest(0)
       /\ t.protocol.mode = "strict_on_policy"
  BY <1>10, <1>11, <1>12
<1>21. t.split \in SplitManifests /\ t.split.name = "train" /\ t.split.content = <<>>
       /\ t.split.prompts = {"countdown-0001"}
  <2>1. t.split = make_split_manifest("train", {"countdown-0001"}) BY <1>12
  <2> QED BY <2>1 DEF make_split_manifest, SplitManifests
<1>22. Fresh(t, o)
  BY <1>6, <1>9, <1>15, <1>16, <1>17, <1>18, <1>19, <1>20, <1>21 DEF Fresh
<1>23. HasLatest(t)
  <2>1. r.seq = 11 BY <1>4 DEF reward
  <2>2. g.seq = 10 BY <1>3, GenerationServed
  <2>3. \A id \in DOMAIN ev : ev[id].seq \in Int /\ ev[id].seq <= 11
    <3> TAKE id \in DOMAIN ev
    <3>1. CASE id \in DOMAIN c
      <4>1. c[id] \in SyncEvents /\ c[id].seq <= 3 BY <1>13, <3>1 DEF IsChain
      <4>2. c[id].seq \in Int BY <4>1 DEF SyncEvents
      <4> QED BY <1>15, <3>1, <4>1, <4>2
    <3>2. CASE id \in {gen_id, reward_id} BY <1>15, <2>1, <2>2, <3>2
    <3> QED BY <1>15, <3>1, <3>2
  <2>4. reward_id \in DOMAIN ev /\ ev[reward_id].seq = 11 BY <1>15, <2>1
  <2> QED BY <1>20, <2>3, <2>4 DEF HasLatest
<1> QED BY <1>1, <1>16, <1>20, <1>22, <1>23 DEF IsBuilt, Rollout

FactoryOptions(case) ==
  CASE case = "empty_completion" -> [default_options EXCEPT !.span = <<4, 4>>]
    [] case = "left_padding" -> [default_options EXCEPT !.pads = {<<0, 2>>}]
    [] case = "dual_source_diagnostic" -> [default_options EXCEPT !.diagnostic = TRUE]
    [] OTHER -> default_options

LEMMA FactoryBuilt ==
  ASSUME NEW case
  PROVE  /\ case \notin Boundaries => FactoryOptions(case) = default_options
         /\ IsBuilt(Factory(case), FactoryOptions(case))
         /\ case # "empty_completion" => FactoryOptions(case).span = <<4, 12>>
         /\ case = "empty_completion" => FactoryOptions(case).span = <<4, 4>>
         /\ case \notin Boundaries => FactoryOptions(case).pads = {}
<1>1. PICK o : o = FactoryOptions(case) OBVIOUS
<1>2. /\ o.n = 12 /\ o.version = 0 /\ o.source = "generation_service"
      /\ o.stage = "pre_reward" /\ o.protocol = "strict_on_policy" /\ o.parent = None
      /\ case # "empty_completion" => o.span = <<4, 12>>
      /\ case = "empty_completion" => o.span = <<4, 4>> /\ o.pads = {}
      /\ o.pads = {} \/ o.pads = {<<0, 2>>}
      /\ case \notin Boundaries => o.pads = {}
  BY <1>1 DEF FactoryOptions, default_options, Boundaries
<1>3. Sensible(o) BY <1>2, SensibleOptions
<1>4. DriverOptions(o) BY <1>2, <1>3 DEF DriverOptions
<1>5. Factory(case) = build_trajectory(o) BY <1>1 DEF Factory, FactoryOptions
<1>6. case \notin Boundaries => o = default_options BY <1>1 DEF FactoryOptions, Boundaries
<1> QED BY <1>1, <1>2, <1>4, <1>5, <1>6, Built

\* f @@ g in one fact.
Merged(h, f, g) ==
  /\ DOMAIN h = DOMAIN f \cup DOMAIN g /\ \A id \in DOMAIN f : h[id] = f[id]
  /\ \A id \in DOMAIN g \ DOMAIN f : h[id] = g[id]

LEMMA MergedIs ==
  ASSUME NEW f, NEW g
  PROVE  Merged(f @@ g, f, g)
BY DEF @@, Merged

LEMMA SingletonIs ==
  ASSUME NEW id, NEW e
  PROVE  DOMAIN (id :> e) = {id} /\ (id :> e)[id] = e
BY DEF :>

IsGenerations(gens) ==
  /\ DOMAIN gens = {gen_id, second_id}
  /\ \A id \in {gen_id, second_id} :
       /\ Served(gens[id], default_options)
       /\ gens[id].prompt_id \in {"countdown-0001", "countdown-0002"}

LEMMA Generations == IsGenerations(generations)
<1>1. PICK h : h = generation(default_options, 11) OBVIOUS
<1>2. PICK g : g = generation(default_options, 10) OBVIOUS
<1>3. Served(h, default_options) BY <1>1, DefaultOptions, GenerationServed
<1>4. Served(g, default_options) BY <1>2, DefaultOptions, GenerationServed
<1>5. PICK s : s = [h EXCEPT !.prompt_id = "countdown-0002"] OBVIOUS
<1>6. h \in GenerationEvents /\ LaidOut(h, default_options) BY <1>3 DEF Served
<1>7. s \in GenerationEvents /\ s.prompt_id = "countdown-0002"
  BY <1>5, <1>6 DEF GenerationEvents
<1>14. /\ s.version = h.version /\ s.checkpoint = h.checkpoint /\ s.sync = h.sync
       /\ s.seq = h.seq /\ s.tokenizer = h.tokenizer /\ s.template = h.template
       /\ s.logprobs = h.logprobs /\ s.completion_span = h.completion_span
       /\ s.padding_spans = h.padding_spans /\ s.target_mask = h.target_mask
       /\ s.loss_mask = h.loss_mask /\ s.tokens = h.tokens
  BY <1>5, <1>6 DEF GenerationEvents
<1>8. LaidOut(s, default_options) BY <1>6, <1>14 DEF LaidOut
<1>9. Served(s, default_options) BY <1>3, <1>7, <1>8, <1>14 DEF Served
<1>10. gen_id # second_id BY Ids
<1>11. generations = gen_id :> g @@ second_id :> s BY <1>1, <1>2, <1>5 DEF generations
<1>12. /\ DOMAIN generations = {gen_id, second_id} /\ generations[gen_id] = g
       /\ generations[second_id] = s
  BY <1>10, <1>11 DEF :>, @@
<1>13. /\ g.prompt_id \in {"countdown-0001", "countdown-0002"}
       /\ s.prompt_id \in {"countdown-0001", "countdown-0002"}
  BY <1>4, <1>7 DEF Served, GenerationEvents
<1> QED BY <1>4, <1>9, <1>12, <1>13 DEF IsGenerations

second_reward_id == <<"reward", "second">>
update_input_id == <<"uinput">>

LEMMA MoreIds ==
  /\ second_reward_id[1] = "reward" /\ LastName(second_reward_id) = "second"
  /\ update_input_id[1] = "uinput" /\ second_id[1] = "gen"
  /\ second_reward_id # reward_id /\ second_id # gen_id
<1>1. second_reward_id[1] = "reward" BY DEF second_reward_id
<1>2. LastName(second_reward_id) = "second" BY Ids DEF second_reward_id
<1>3. update_input_id[1] = "uinput" BY DEF update_input_id
<1> QED BY <1>1, <1>2, <1>3, Ids

IsReward(r, source, seq) ==
  /\ r \in RewardEvents /\ r.source = source /\ r.protocol = "countdown-protocol"
  /\ r.verifier = "countdown-rule-v1" /\ r.seq = seq /\ r.type = "reward_finished"

LEMMA RewardIs ==
  ASSUME NEW source \in Seq(EvidenceNames), NEW seq \in Int
  PROVE  IsReward(reward(source, seq), source, seq)
<1>1. PICK r : r = reward(source, seq) OBVIOUS
<1>2. r \in RewardEvents BY <1>1 DEF reward, RewardEvents
<1> QED BY <1>1, <1>2 DEF reward, IsReward

\* All the events of the loop; the update input is the last of them.
IsLoopEvidence(ev) ==
  /\ Loop(ev) /\ Chain(ev) /\ update_input_id \in DOMAIN ev /\ ev[update_input_id].seq = 20
  /\ \A id \in DOMAIN ev : ev[id].seq \in Int /\ ev[id].seq <= 20

LEMMA LoopEvidence == IsLoopEvidence(load_loop_evidence)
<1>1. PICK c : c = make_sync_chain(0) OBVIOUS
<1>2. PICK gens : gens = generations OBVIOUS
<1>3. PICK r : r = reward(gen_id, 12) OBVIOUS
<1>4. PICK q : q = reward(second_id, 13) OBVIOUS
<1>5. PICK u : u = [type |-> "update_input", seq |-> 20] OBVIOUS
<1>6. PICK a : a = c @@ gens OBVIOUS
<1>7. PICK b : b = a @@ (reward_id :> r) OBVIOUS
<1>8. PICK d : d = b @@ (second_reward_id :> q) OBVIOUS
<1>9. PICK ev : ev = d @@ (update_input_id :> u) OBVIOUS
<1>10. ev = load_loop_evidence
  BY <1>1, <1>2, <1>3, <1>4, <1>5, <1>6, <1>7, <1>8, <1>9
  DEF load_loop_evidence, second_reward_id, update_input_id
<1>11. IsChain(c) BY <1>1, SyncChain
<1>12. IsGenerations(gens) BY <1>2, Generations
<1>13. IsReward(r, gen_id, 12) /\ IsReward(q, second_id, 13)
  <2>1. gen_id \in Seq(EvidenceNames) /\ second_id \in Seq(EvidenceNames) BY Ids
  <2>2. 12 \in Int /\ 13 \in Int OBVIOUS
  <2> QED BY <1>3, <1>4, <2>1, <2>2, RewardIs
<1>14. \A id \in DOMAIN c : id[1] = "sync" BY <1>11 DEF IsChain
<1>15. /\ gen_id[1] = "gen" /\ second_id[1] = "gen" /\ reward_id[1] = "reward"
       /\ second_reward_id[1] = "reward" /\ update_input_id[1] = "uinput"
       /\ second_reward_id # reward_id /\ second_id # gen_id
  BY Ids, MoreIds
<1>16. /\ DOMAIN a = DOMAIN c \cup {gen_id, second_id} /\ \A id \in DOMAIN c : a[id] = c[id]
       /\ a[gen_id] = gens[gen_id] /\ a[second_id] = gens[second_id]
  <2>1. DOMAIN gens = {gen_id, second_id} BY <1>12 DEF IsGenerations
  <2>2. gen_id \notin DOMAIN c /\ second_id \notin DOMAIN c BY <1>14, <1>15
  <2>3. Merged(a, c, gens) BY <1>6, MergedIs
  <2> QED BY <2>1, <2>2, <2>3 DEF Merged
<1>17. /\ DOMAIN b = DOMAIN a \cup {reward_id} /\ b[reward_id] = r
       /\ \A id \in DOMAIN a : b[id] = a[id]
  <2>1. reward_id \notin DOMAIN a BY <1>14, <1>15, <1>16
  <2>2. PICK s : s = (reward_id :> r) OBVIOUS
  <2>3. DOMAIN s = {reward_id} /\ s[reward_id] = r BY <2>2, SingletonIs
  <2>4. Merged(b, a, s) BY <1>7, <2>2, MergedIs
  <2> QED BY <2>1, <2>3, <2>4 DEF Merged
<1>18. /\ DOMAIN d = DOMAIN b \cup {second_reward_id} /\ d[second_reward_id] = q
       /\ \A id \in DOMAIN b : d[id] = b[id]
  <2>1. second_reward_id \notin DOMAIN b BY <1>14, <1>15, <1>16, <1>17
  <2>2. PICK s : s = (second_reward_id :> q) OBVIOUS
  <2>3. DOMAIN s = {second_reward_id} /\ s[second_reward_id] = q BY <2>2, SingletonIs
  <2>4. Merged(d, b, s) BY <1>8, <2>2, MergedIs
  <2> QED BY <2>1, <2>3, <2>4 DEF Merged
<1>19. /\ DOMAIN ev = DOMAIN d \cup {update_input_id} /\ ev[update_input_id] = u
       /\ \A id \in DOMAIN d : ev[id] = d[id]
  <2>1. update_input_id \notin DOMAIN d BY <1>14, <1>15, <1>16, <1>17, <1>18
  <2>2. PICK s : s = (update_input_id :> u) OBVIOUS
  <2>3. DOMAIN s = {update_input_id} /\ s[update_input_id] = u BY <2>2, SingletonIs
  <2>4. Merged(ev, d, s) BY <1>9, <2>2, MergedIs
  <2> QED BY <2>1, <2>3, <2>4 DEF Merged
<1>20. /\ DOMAIN ev = DOMAIN c \cup {gen_id, second_id, reward_id, second_reward_id, update_input_id}
       /\ \A id \in DOMAIN c : ev[id] = c[id]
       /\ ev[gen_id] = gens[gen_id] /\ ev[second_id] = gens[second_id]
       /\ ev[reward_id] = r /\ ev[second_reward_id] = q /\ ev[update_input_id] = u
  BY <1>16, <1>17, <1>18, <1>19
<1>21. /\ Chain(ev) /\ canary_ref \in DOMAIN ev /\ ev[canary_ref] \in SyncEvents
       /\ ev[canary_ref].type = "canary_passed" /\ ev[canary_ref].seq <= 3
  <2>1. \A id \in DOMAIN ev \ DOMAIN c : id[1] # "sync" BY <1>15, <1>20
  <2> QED BY <1>11, <1>20, <2>1, ChainFirst
<1>22. /\ Served(ev[gen_id], default_options) /\ Served(ev[second_id], default_options)
  BY <1>12, <1>20 DEF IsGenerations
<1>23. u.seq = 20 /\ u.type = "update_input" BY <1>5
<1>24. \A id \in DOMAIN ev : RewardInOrder(id, ev[id])
  <2> TAKE id \in DOMAIN ev
  <2>1. CASE id \in DOMAIN c
    <3>1. ev[id].type \in EvidenceNames BY <1>11, <1>20, <2>1 DEF IsChain, SyncEvents
    <3> QED BY <3>1 DEF RewardInOrder, EvidenceNames
  <2>2. CASE id \in {gen_id, second_id}
    <3>1. ev[id].type = "generation_finished" BY <1>22, <2>2 DEF Served, GenerationEvents
    <3> QED BY <3>1 DEF RewardInOrder
  <2>3. CASE id = reward_id BY <1>13, <1>20, <2>3 DEF RewardInOrder, IsReward
  <2>4. CASE id = second_reward_id
    BY <1>13, <1>15, <1>20, <2>4 DEF RewardInOrder, IsReward
  <2>5. CASE id = update_input_id BY <1>20, <1>23, <2>5 DEF RewardInOrder
  <2> QED BY <1>20, <2>1, <2>2, <2>3, <2>4, <2>5
<1>25. Loop(ev)
  <2>1. /\ ev[reward_id] \in RewardEvents /\ ev[reward_id].source = gen_id
        /\ ev[reward_id].protocol \in {"countdown-protocol", "f"}
    BY <1>13, <1>20 DEF IsReward
  <2>2. ev[<<"uinput">>].seq = 20 BY <1>20, <1>23 DEF update_input_id
  <2>3. {gen_id, second_id, canary_ref, <<"uinput">>, reward_id} \subseteq DOMAIN ev
    BY <1>20, <1>21 DEF update_input_id
  <2> QED BY <1>21, <1>22, <1>24, <2>1, <2>2, <2>3 DEF Loop
<1>26. \A id \in DOMAIN ev : ev[id].seq \in Int /\ ev[id].seq <= 20
  <2> TAKE id \in DOMAIN ev
  <2>1. CASE id \in DOMAIN c
    <3>1. c[id] \in SyncEvents /\ c[id].seq <= 3 BY <1>11, <2>1 DEF IsChain
    <3>2. c[id].seq \in Int BY <3>1 DEF SyncEvents
    <3> QED BY <1>20, <2>1, <3>1, <3>2
  <2>2. CASE id \in {gen_id, second_id}
    <3>1. ev[id].seq \in {10, 11} BY <1>22, <2>2 DEF Served
    <3> QED BY <3>1
  <2>3. CASE id \in {reward_id, second_reward_id, update_input_id}
    <3>1. ev[id].seq \in {12, 13, 20} BY <1>13, <1>20, <1>23, <2>3 DEF IsReward
    <3> QED BY <3>1
  <2> QED BY <1>20, <2>1, <2>2, <2>3
<1> QED BY <1>10, <1>20, <1>21, <1>23, <1>25, <1>26 DEF IsLoopEvidence

\* Evidence of two generations behind a canary.
Evident(ev) ==
  /\ {gen_id, second_id, canary_ref} \subseteq DOMAIN ev
  /\ Served(ev[gen_id], default_options) /\ Served(ev[second_id], default_options)
  /\ ev[canary_ref] \in SyncEvents /\ ev[canary_ref].type = "canary_passed"
  /\ ev[canary_ref].seq <= 3

LEMMA LoopEvident ==
  ASSUME NEW ev, Loop(ev)
  PROVE  Evident(ev)
BY DEF Loop, Evident

LEMMA LogEvident == Evident(online_log)
<1>1. PICK e : e = [type |-> "canary_passed", seq |-> 0] OBVIOUS
<1>2. PICK s : s = (canary_ref :> e) OBVIOUS
<1>3. DOMAIN s = {canary_ref} /\ s[canary_ref] = e BY <1>2, SingletonIs
<1>4. PICK gens : gens = generations OBVIOUS
<1>5. PICK ev : ev = s @@ gens OBVIOUS
<1>6. ev = online_log BY <1>1, <1>2, <1>4, <1>5 DEF online_log
<1>7. Merged(ev, s, gens) BY <1>5, MergedIs
<1>8. IsGenerations(gens) BY <1>4, Generations
<1>9. DOMAIN gens = {gen_id, second_id} BY <1>8 DEF IsGenerations
<1>10. canary_ref # gen_id /\ canary_ref # second_id BY Ids
<1>11. /\ DOMAIN ev = {canary_ref, gen_id, second_id} /\ ev[canary_ref] = e
       /\ ev[gen_id] = gens[gen_id] /\ ev[second_id] = gens[second_id]
  BY <1>3, <1>7, <1>9, <1>10 DEF Merged
<1>12. e \in SyncEvents /\ e.type = "canary_passed" /\ e.seq = 0
  BY <1>1 DEF SyncEvents, EvidenceNames
<1>13. 0 <= 3 OBVIOUS
<1> QED BY <1>6, <1>8, <1>11, <1>12, <1>13 DEF Evident, IsGenerations

IsFromLoop(t, ev, id) ==
  /\ Rollout(t, default_options) /\ t.events = ev /\ t.env.gen = id /\ Gen(t) = ev[id]

LEMMA FromLoop ==
  ASSUME NEW ev, Evident(ev), NEW id \in {gen_id, second_id}
  PROVE  IsFromLoop(trajectory_from_loop(ev, id, {}), ev, id)
<1>1. PICK o : o = default_options OBVIOUS
<1>2. PICK b : b = build_trajectory(o) OBVIOUS
<1>3. IsBuilt(b, o) BY <1>1, <1>2, DefaultOptions, Built
<1>4. Fresh(b, o) /\ b.env.stage = "pre_reward" /\ b.env.reward = None
  BY <1>3 DEF IsBuilt, Rollout
<1>5. PICK h : h = ev[id] OBVIOUS
<1>6. Served(h, o) /\ id \in DOMAIN ev BY <1>1, <1>5 DEF Evident
<1>7. /\ h \in GenerationEvents /\ h.tokenizer = "tokenizer" /\ h.template = "template"
  BY <1>6 DEF Served
<1>8. PICK k : k = [b.env.contract EXCEPT !.auth = id] OBVIOUS
<1>9. PICK env : env = [b.env EXCEPT !.gen = id, !.contract = k] OBVIOUS
<1>10. PICK man : man = [b.manifest EXCEPT !.tokenizer = h.tokenizer, !.template = h.template] OBVIOUS
<1>11. PICK split : split = [b.split EXCEPT !.prompts = {"countdown-0001", "countdown-0002"}] OBVIOUS
<1>12. PICK x : x = [b EXCEPT !.events = ev, !.corrupt = {}, !.env = env, !.manifest = man,
                              !.split = split]
  OBVIOUS
<1>13. /\ Shaped(b) /\ Untouched(b) /\ Sensible(o)
       /\ b.manifest = make_policy_manifest(0) /\ b.protocol.mode = "strict_on_policy"
       /\ b.split \in SplitManifests /\ b.split.name = "train" /\ b.split.content = <<>>
       /\ b.env.scoring = None /\ b.env.contract.protocol = "strict_on_policy"
       /\ b.env.contract.parent_version = 0 /\ b.env.contract.source = "generation_service"
  BY <1>4 DEF Fresh
<1>14. /\ DOMAIN b = TrajectoryFields /\ DOMAIN b.env = EnvFields
       /\ DOMAIN b.env.contract = ContractFields
  BY <1>13 DEF Shaped
<1>15. x = trajectory_from_loop(ev, id, {})
  <2>1. trajectory_from_loop(ev, id, {}) =
          [b EXCEPT
             !.events = ev, !.corrupt = {}, !.env.gen = id, !.env.contract.auth = id,
             !.manifest.tokenizer = h.tokenizer, !.manifest.template = h.template,
             !.split.prompts = {"countdown-0001", "countdown-0002"}]
    BY <1>1, <1>2, <1>5 DEF trajectory_from_loop
  <2>2. PICK b1 : b1 = [b EXCEPT !.events = ev, !.corrupt = {}] OBVIOUS
  <2>3. DOMAIN b1 = TrajectoryFields /\ b1.env = b.env /\ b1.manifest = b.manifest /\ b1.split = b.split
    BY <1>14, <2>2 DEF TrajectoryFields
  <2>4. PICK b2 : b2 = [b1 EXCEPT !.env = env] OBVIOUS
  <2>5. b2 = [b1 EXCEPT !.env.gen = id, !.env.contract.auth = id]
    BY <1>8, <1>9, <1>14, <2>3, <2>4 DEF TrajectoryFields, EnvFields
  <2>6. DOMAIN b2 = TrajectoryFields /\ b2.manifest = b.manifest /\ b2.split = b.split
    BY <2>3, <2>4 DEF TrajectoryFields
  <2>7. PICK b3 : b3 = [b2 EXCEPT !.manifest = man] OBVIOUS
  <2>8. b3 = [b2 EXCEPT !.manifest.tokenizer = h.tokenizer, !.manifest.template = h.template]
    <3>1. PICK m1 : m1 = [b.manifest EXCEPT !.tokenizer = h.tokenizer] OBVIOUS
    <3>2. man = [m1 EXCEPT !.template = h.template] BY <1>10, <3>1
    <3>3. PICK c1 : c1 = [b2 EXCEPT !.manifest = m1] OBVIOUS
    <3>4. c1 = [b2 EXCEPT !.manifest.tokenizer = h.tokenizer] BY <2>6, <3>1, <3>3
    <3>5. c1.manifest = m1 /\ DOMAIN c1 = TrajectoryFields BY <2>6, <3>3 DEF TrajectoryFields
    <3>6. b3 = [c1 EXCEPT !.manifest = man] BY <2>7, <3>3
    <3>7. b3 = [c1 EXCEPT !.manifest.template = h.template] BY <3>2, <3>5, <3>6
    <3> QED BY <3>4, <3>7
  <2>9. DOMAIN b3 = TrajectoryFields /\ b3.split = b.split BY <2>6, <2>7 DEF TrajectoryFields
  <2>10. x = [b3 EXCEPT !.split = split]
    BY <1>12, <1>14, <2>2, <2>3, <2>4, <2>6, <2>7, <2>9 DEF TrajectoryFields
  <2>11. x = [b3 EXCEPT !.split.prompts = {"countdown-0001", "countdown-0002"}]
    BY <1>11, <2>9, <2>10
  <2>12. x = [[[[b EXCEPT !.events = ev, !.corrupt = {}]
                  EXCEPT !.env.gen = id, !.env.contract.auth = id]
                 EXCEPT !.manifest.tokenizer = h.tokenizer, !.manifest.template = h.template]
                EXCEPT !.split.prompts = {"countdown-0001", "countdown-0002"}]
    BY <2>2, <2>5, <2>8, <2>11
  <2> QED BY <2>1, <2>12
<1>16. /\ DOMAIN x = TrajectoryFields /\ x.env = env /\ x.events = ev /\ x.corrupt = {}
       /\ x.manifest = man /\ x.split = split /\ x.protocol = b.protocol /\ x.canary = b.canary
       /\ x.update = b.update /\ x.split_registry = b.split_registry
       /\ x.eval_protocol = b.eval_protocol /\ x.verifiers = b.verifiers
       /\ x.bogus_sequence = b.bogus_sequence /\ x.requires_update_input = b.requires_update_input
  BY <1>12, <1>14 DEF TrajectoryFields
<1>17. /\ DOMAIN k = ContractFields /\ k.auth = id /\ k.protocol = "strict_on_policy"
       /\ k.parent_version = 0 /\ k.source = "generation_service"
  BY <1>8, <1>13, <1>14 DEF ContractFields
<1>18. /\ DOMAIN env = EnvFields /\ env.gen = id /\ env.contract = k /\ env.scoring = None
       /\ env.stage = "pre_reward" /\ env.reward = None
  BY <1>4, <1>9, <1>13, <1>14 DEF EnvFields
<1>19. man = make_policy_manifest(0)
  <2>1. b.manifest = [version |-> 0, checkpoint |-> 0, tokenizer |-> "tokenizer",
                      template |-> "template"]
    BY <1>13 DEF make_policy_manifest
  <2>2. PICK m : m = b.manifest OBVIOUS
  <2>3. man = [m EXCEPT !.tokenizer = "tokenizer", !.template = "template"] BY <1>7, <1>10, <2>2
  <2>4. m = [version |-> 0, checkpoint |-> 0, tokenizer |-> "tokenizer", template |-> "template"]
    BY <2>1, <2>2
  <2>5. man = [version |-> 0, checkpoint |-> 0, tokenizer |-> "tokenizer",
               template |-> "template"]
    <3>3. m \in PolicyManifests BY <2>4 DEF PolicyManifests
    <3>1. man \in PolicyManifests BY <2>3, <3>3 DEF PolicyManifests
    <3>2. man.version = 0 /\ man.checkpoint = 0 /\ man.tokenizer = "tokenizer"
          /\ man.template = "template"
      BY <2>3, <2>4
    <3> QED BY <3>1, <3>2 DEF PolicyManifests
  <2> QED BY <1>13, <2>1, <2>5
<1>20. /\ split \in SplitManifests /\ split.name = "train" /\ split.content = <<>>
       /\ split.prompts = {"countdown-0001", "countdown-0002"}
  BY <1>11, <1>13 DEF SplitManifests
<1>21. h.prompt_id \in split.prompts BY <1>7, <1>20 DEF GenerationEvents
<1>22. Untouched(x) BY <1>13, <1>16 DEF Untouched
<1>23. Shaped(x) BY <1>16, <1>17, <1>18 DEF Shaped
<1>24. /\ canary_ref \in DOMAIN ev /\ ev[canary_ref] \in SyncEvents
       /\ ev[canary_ref].type = "canary_passed" /\ ev[canary_ref].seq <= 3
  BY DEF Evident
<1>25. Fresh(x, o)
  BY <1>5, <1>6, <1>13, <1>16, <1>17, <1>18, <1>19, <1>20, <1>21, <1>22, <1>23, <1>24 DEF Fresh
<1>26. Rollout(x, o) BY <1>16, <1>18, <1>25 DEF Rollout
<1>27. Gen(x) = h BY <1>5, <1>16, <1>18, <1>25, FreshReads
<1> QED BY <1>1, <1>5, <1>15, <1>16, <1>18, <1>26, <1>27 DEF IsFromLoop

IsRewarded(x, t, id, e) ==
  /\ Fresh(x, default_options) /\ PreUpdate(x) /\ x.env.reward = id /\ Reward(x) = e
  /\ x.corrupt = t.corrupt /\ x.env.gen = t.env.gen /\ x.env.stage = "pre_update"
  /\ Gen(x) = Gen(t)
  /\ id = reward_id /\ Loop(t.events) /\ e = t.events[reward_id] => Loop(x.events)

LEMMA RewardedIs ==
  ASSUME NEW t, Rollout(t, default_options), NEW id \in Seq(EvidenceNames), LastName(id) = "reward",
         Len(id) \in Nat \ {0}, NEW e \in RewardEvents, NEW seq \in Int
  PROVE  IsRewarded(Rewarded(t, id, e, seq), t, id, e)
<1>1. PICK o : o = default_options OBVIOUS
<1>2. Fresh(t, o) BY <1>1 DEF Rollout
<1>3. PICK parent : parent = Append(id, "parent") OBVIOUS
<1>4. /\ parent \in Seq(EvidenceNames) /\ LastName(parent) = "parent"
  BY <1>3, Suffixed DEF EvidenceNames
<1>5. PICK v : v = validation_event("allow", seq) OBVIOUS
<1>6. v \in DecisionEvents /\ v.type = "validation_decision"
  BY <1>5 DEF validation_event, DecisionEvents
<1>7. PICK f : f = (id :> e) @@ (parent :> v) OBVIOUS
<1>8. DOMAIN f = {id, parent} /\ f[id] = e /\ f[parent] = v
  <2>1. PICK a : a = (id :> e) OBVIOUS
  <2>2. PICK b : b = (parent :> v) OBVIOUS
  <2>3. DOMAIN a = {id} /\ a[id] = e /\ DOMAIN b = {parent} /\ b[parent] = v
    BY <2>1, <2>2, SingletonIs
  <2>4. Merged(f, a, b) BY <1>7, <2>1, <2>2, MergedIs
  <2>5. id # parent BY <1>4
  <2> QED BY <2>3, <2>4, <2>5 DEF Merged
<1>9. PICK ev : ev = f @@ t.events OBVIOUS
<1>10. /\ DOMAIN ev = DOMAIN t.events \cup {id, parent} /\ ev[id] = e /\ ev[parent] = v
       /\ \A j \in DOMAIN t.events \ {id, parent} : ev[j] = t.events[j]
  <2>1. Merged(ev, f, t.events) BY <1>9, MergedIs
  <2> QED BY <1>8, <2>1 DEF Merged
<1>11. PICK env : env = [t.env EXCEPT !.stage = "pre_update", !.reward = id, !.parent = parent] OBVIOUS
<1>12. PICK x : x = [t EXCEPT !.env = env, !.events = ev] OBVIOUS
<1>13. /\ DOMAIN t = TrajectoryFields /\ DOMAIN t.env = EnvFields
       /\ DOMAIN t.env.contract = ContractFields
  BY <1>2 DEF Fresh, Shaped
<1>14. x = Rewarded(t, id, e, seq)
  <2>1. Rewarded(t, id, e, seq) =
          [t EXCEPT !.env.stage = "pre_update", !.env.reward = id, !.env.parent = parent,
                    !.events = f @@ @]
    BY <1>3, <1>5, <1>7 DEF Rewarded
  <2>2. PICK t1 : t1 = [t EXCEPT !.env = env] OBVIOUS
  <2>3. t1 = [t EXCEPT !.env.stage = "pre_update", !.env.reward = id, !.env.parent = parent]
    BY <1>11, <1>13, <2>2 DEF TrajectoryFields, EnvFields
  <2>4. t1.events = t.events BY <1>13, <2>2 DEF TrajectoryFields
  <2>5. x = [t1 EXCEPT !.events = ev] BY <1>12, <2>2
  <2>6. x = [t1 EXCEPT !.events = f @@ @] BY <1>9, <2>4, <2>5
  <2> QED BY <2>1, <2>3, <2>6
<1>15. /\ DOMAIN x = TrajectoryFields /\ x.env = env /\ x.events = ev /\ SameRest(x, t)
       /\ x.corrupt = t.corrupt
  BY <1>12, <1>13 DEF TrajectoryFields, SameRest
<1>16. /\ DOMAIN env = EnvFields /\ env.gen = t.env.gen /\ env.contract = t.env.contract
       /\ env.scoring = t.env.scoring /\ env.stage = "pre_update" /\ env.reward = id
       /\ env.parent = parent
  BY <1>11, <1>13 DEF EnvFields
<1>17. Shaped(x) BY <1>13, <1>15, <1>16 DEF Shaped
<1>18. /\ Untouched(t) /\ Sensible(o)
       /\ t.manifest = make_policy_manifest(0) /\ t.protocol.mode = "strict_on_policy"
       /\ t.split \in SplitManifests /\ t.split.name = "train" /\ t.split.content = <<>>
       /\ t.env.gen \in {gen_id, second_id} /\ t.env.gen \in DOMAIN t.events
       /\ Served(t.events[t.env.gen], o) /\ t.events[t.env.gen].prompt_id \in t.split.prompts
       /\ canary_ref \in DOMAIN t.events
       /\ t.events[canary_ref] \in SyncEvents /\ t.events[canary_ref].type = "canary_passed"
       /\ t.events[canary_ref].seq <= 3
       /\ t.env.scoring = None /\ t.env.contract.protocol = "strict_on_policy"
       /\ t.env.contract.parent_version = 0 /\ t.env.contract.source = "generation_service"
       /\ t.env.contract.auth = t.env.gen
  BY <1>2 DEF Fresh
<1>19. Untouched(x) BY <1>15, <1>18 DEF SameRest, Untouched
<1>20. /\ canary_ref \notin {id, parent} /\ t.env.gen \notin {id, parent}
  BY <1>4, <1>18, Ids
<1>21. /\ ev[canary_ref] = t.events[canary_ref] /\ ev[t.env.gen] = t.events[t.env.gen]
       /\ canary_ref \in DOMAIN ev /\ t.env.gen \in DOMAIN ev
  BY <1>10, <1>18, <1>20
<1>22. PreUpdate(x)
  BY <1>4, <1>6, <1>10, <1>15, <1>16 DEF PreUpdate
<1>23. Fresh(x, o)
  BY <1>15, <1>16, <1>17, <1>18, <1>19, <1>21, <1>22 DEF Fresh, SameRest
<1>24. Reward(x) = e /\ Gen(x) = Gen(t)
  <2>1. x.env.reward # None BY <1>15, <1>16, NoneIsNoEvidence
  <2> QED BY <1>2, <1>10, <1>15, <1>16, <1>21, <1>23, <2>1, FreshReads
<1>25. ASSUME id = reward_id, Loop(t.events), e = t.events[reward_id]
       PROVE  Loop(ev)
  <2>1. PICK m : m = (parent :> v @@ t.events) OBVIOUS
  <2>2. Added(m, t.events, parent, v) BY <2>1, AddedIs
  <2>3. RewardInOrder(parent, v) BY <1>6 DEF RewardInOrder
  <2>4. Loop(m) BY <1>4, <1>25, <2>2, <2>3, LoopAdded
  <2>5. reward_id \in DOMAIN t.events BY <1>25 DEF Loop
  <2>6. DOMAIN ev = DOMAIN m /\ \A j \in DOMAIN m : ev[j] = m[j]
    BY <1>4, <1>10, <1>25, <2>2, <2>5 DEF Added
  <2> QED BY <2>4, <2>6 DEF Loop
<1> QED BY <1>1, <1>14, <1>15, <1>16, <1>22, <1>23, <1>24, <1>25 DEF IsRewarded

----------------------------------------------------------------------------
(* The cases of the v0.2 families.                                         *)

IsFirstReward(id, ev) ==
  /\ id \in DOMAIN ev /\ ev[id].type = "reward_finished" /\ ev[id].source = gen_id
  /\ \A other \in DOMAIN ev :
       ev[other].type = "reward_finished" /\ ev[other].source = gen_id => Len(id) <= Len(other)

LEMMA FirstReward ==
  ASSUME NEW ev, Loop(ev)
  PROVE  first_reward(ev, gen_id) = reward_id
<1>1. \A id \in DOMAIN ev : RewardInOrder(id, ev[id]) BY DEF Loop
<1>2. /\ reward_id \in DOMAIN ev /\ ev[reward_id].type = "reward_finished"
      /\ ev[reward_id].source = gen_id
  BY DEF Loop, RewardEvents
<1>3. Len(reward_id) = 1 BY Ids
<1>4. \A id \in DOMAIN ev : ev[id].type = "reward_finished" /\ ev[id].source = gen_id /\ id # reward_id
        => Len(id) \in Nat \ {0, 1}
  BY <1>1 DEF RewardInOrder
<1>5. IsFirstReward(reward_id, ev)
  <2>1. \A other \in DOMAIN ev :
          ev[other].type = "reward_finished" /\ ev[other].source = gen_id => 1 <= Len(other)
    <3> SUFFICES ASSUME NEW other \in DOMAIN ev, ev[other].type = "reward_finished",
                        ev[other].source = gen_id
                 PROVE  1 <= Len(other)
      OBVIOUS
    <3>1. PICK n : n = Len(other) OBVIOUS
    <3>2. other # reward_id => n \in Nat \ {0, 1} BY <1>4, <3>1
    <3>3. other = reward_id => n = 1 BY <1>3, <3>1
    <3> QED BY <3>1, <3>2, <3>3
  <2> QED BY <1>2, <1>3, <2>1 DEF IsFirstReward
<1>6. \A id : IsFirstReward(id, ev) => id = reward_id
  <2> TAKE id
  <2> HAVE IsFirstReward(id, ev)
  <2>1. Len(id) <= 1 BY <1>2, <1>3 DEF IsFirstReward
  <2>2. id # reward_id => Len(id) \in Nat \ {0, 1} BY <1>4 DEF IsFirstReward
  <2>3. PICK n : n = Len(id) OBVIOUS
  <2>4. ~(n \in Nat \ {0, 1} /\ n <= 1) OBVIOUS
  <2> QED BY <2>1, <2>2, <2>3, <2>4
<1>7. first_reward(ev, gen_id) = CHOOSE id \in DOMAIN ev : IsFirstReward(id, ev)
  BY DEF first_reward, IsFirstReward
<1>8. PICK id : id = CHOOSE j \in DOMAIN ev : IsFirstReward(j, ev) OBVIOUS
<1>9. IsFirstReward(id, ev) BY <1>2, <1>5, <1>8
<1> QED BY <1>6, <1>7, <1>8, <1>9

LEMMA EvalProtocol ==
  ASSUME NEW ev, Loop(ev)
  PROVE  eval_protocol_sha(ev) = "countdown-eval-protocol-v1"
<1>1. PICK Eval : Eval = {id \in DOMAIN ev : /\ ev[id].type = "reward_finished"
                                             /\ ev[id].verifier = "countdown-rule-v1-eval"}
  OBVIOUS
<1>2. \A id \in Eval : ev[id].protocol = "countdown-eval-protocol-v1"
  BY <1>1 DEF Loop, RewardInOrder
<1>3. eval_protocol_sha(ev) = IF Eval = {} THEN "countdown-eval-protocol-v1"
                              ELSE ev[CHOOSE id \in Eval : TRUE].protocol
  BY <1>1 DEF eval_protocol_sha
<1> QED BY <1>2, <1>3

LEMMA LoopBase ==
  ASSUME NEW ev, Loop(ev)
  PROVE  LET b == pre_update_base_for(ev, gen_id, {})
         IN  /\ Fresh(b, default_options) /\ PreUpdate(b) /\ b.env.reward = reward_id
             /\ Reward(b).protocol # "countdown-eval-protocol-v1" /\ b.corrupt = {}
             /\ Loop(b.events)
<1>1. PICK t : t = trajectory_from_loop(ev, gen_id, {}) OBVIOUS
<1>2. IsFromLoop(t, ev, gen_id) BY <1>1, LoopEvident, FromLoop
<1>3. Rollout(t, default_options) /\ t.events = ev BY <1>2 DEF IsFromLoop
<1>4. t.corrupt = {} BY <1>3 DEF Rollout, Fresh, Untouched
<1>5. PICK e : e = ev[reward_id] OBVIOUS
<1>6. /\ e \in RewardEvents /\ e.protocol \in {"countdown-protocol", "f"} /\ gen_id \in DOMAIN ev
      /\ Served(ev[gen_id], default_options)
  BY <1>5 DEF Loop
<1>7. PICK seq : seq = ev[gen_id].seq + 1 OBVIOUS
<1>8. ev[gen_id].seq \in {10, 11} BY <1>6 DEF Served
<1>9. seq \in Int BY <1>7, <1>8
<1>10. PICK b : b = Rewarded(t, reward_id, e, seq) OBVIOUS
<1>11. b = pre_update_base_for(ev, gen_id, {})
  BY <1>1, <1>5, <1>7, <1>10, FirstReward DEF pre_update_base_for
<1>12. /\ reward_id \in Seq(EvidenceNames) /\ LastName(reward_id) = "reward"
       /\ Len(reward_id) \in Nat \ {0}
  BY Ids
<1>13. IsRewarded(b, t, reward_id, e) BY <1>3, <1>6, <1>9, <1>10, <1>12, RewardedIs
<1>14. /\ Fresh(b, default_options) /\ PreUpdate(b) /\ b.env.reward = reward_id /\ Reward(b) = e
       /\ b.corrupt = t.corrupt /\ Loop(b.events)
  BY <1>3, <1>5, <1>13 DEF IsRewarded
<1>15. e.protocol # "countdown-eval-protocol-v1" BY <1>6
<1> QED BY <1>4, <1>11, <1>14, <1>15

\* A frozen trajectory replays to what its case is registered to end with.
ReplayMeets(case, t) ==
  MeetsExpected(case, Replayed(t), IF needs_full(t) THEN "full_pre_update" ELSE "identity_pre_reward")

WithLate(x, seq) ==
  IF x.requires_update_input THEN [x EXCEPT !.update = update_input(x, Gen(x).tokens, seq)] ELSE x

\* A v0.2 case ends as registered, now and when it is replayed, and leaves the
\* evidence to the next case.
V02Ends(case, x) ==
  /\ MeetsExpected(case, WithLate(x, 20), "full_pre_update") /\ ReplayMeets(case, x)
  /\ Loop(x.events) /\ (case \notin F8 => x.corrupt = {})

LEMMA PlainReplay ==
  ASSUME NEW x, Plain(x), NEW case, MeetsExpected(case, x, "full_pre_update"),
         needs_full(x) \/ MeetsExpected(case, x, "identity_pre_reward")
  PROVE  ReplayMeets(case, x) /\ WithLate(x, 20) = x
<1>1. Replayed(x) = x /\ WithLate(x, 20) = x BY DEF Replayed, WithLate, Plain
<1> QED BY <1>1 DEF ReplayMeets

LEMMA PlainEnds ==
  ASSUME NEW x, NEW t, Plain(x), NEW case, MeetsExpected(case, x, "full_pre_update"),
         needs_full(x) \/ MeetsExpected(case, x, "identity_pre_reward"),
         KeepsEvidence(x, t), t.corrupt = {}, Loop(t.events)
  PROVE  V02Ends(case, x)
<1>1. ReplayMeets(case, x) /\ WithLate(x, 20) = x BY PlainReplay
<1>2. Loop(x.events) /\ x.corrupt = {} BY DEF KeepsEvidence
<1> QED BY <1>1, <1>2 DEF V02Ends

LEMMA LateEnds ==
  ASSUME NEW t, NEW o, Fresh(t, o), NEW version \in {0, 1},
         NEW case, Expected(case) = <<"reject", {"L005"}>>
  PROVE  LET x == inject_f7_event_reorder(t, version)
         IN  /\ \A stage : MeetsExpected(case, WithLate(x, 20), stage)
             /\ \A stage : MeetsExpected(case, WithLate(x, Gen(t).seq + 100), stage)
             /\ x.requires_update_input = TRUE /\ Gen(x) = Gen(t)
             /\ ReplayMeets(case, x) /\ KeepsEvidence(x, t)
<1>1. PICK x : x = inject_f7_event_reorder(t, version) OBVIOUS
<1>2. PICK n : n = Gen(t).seq OBVIOUS
<1>3. PICK k : k = Gen(t).tokens OBVIOUS
<1>4. n \in {10, 11} /\ k \in TokenSequences
  <2>1. Served(Gen(t), o) BY FreshReads
  <2>2. Gen(t) \in GenerationEvents /\ Gen(t).seq \in {10, 11} BY <2>1 DEF Served
  <2> QED BY <1>2, <1>3, <2>2 DEF GenerationEvents
<1>5. PICK m : m = n + 100 OBVIOUS
<1>6. m \in Int /\ 20 \in Int BY <1>4, <1>5
<1>7. BeforeLate(m, t) /\ BeforeLate(20, t) BY <1>2, <1>4, <1>5 DEF BeforeLate
<1>8. \A stage : LateMeets(x, t, k, m, case, stage) BY <1>1, <1>4, <1>6, <1>7, LateScorer
<1>9. \A stage : LateMeets(x, t, k, 20, case, stage) BY <1>1, <1>4, <1>6, <1>7, LateScorer
<1>10. /\ x.bogus_sequence = None /\ x.requires_update_input = TRUE /\ Gen(x) = Gen(t)
       /\ KeepsEvidence(x, t)
  BY <1>8 DEF LateMeets
<1>11. PICK a : a = [x EXCEPT !.update = update_input(x, k, m)] OBVIOUS
<1>12. PICK b : b = [x EXCEPT !.update = update_input(x, k, 20)] OBVIOUS
<1>13. /\ \A stage : MeetsExpected(case, a, stage)
       /\ \A stage : MeetsExpected(case, b, stage)
  BY <1>8, <1>9, <1>11, <1>12 DEF LateMeets
<1>14. WithLate(x, m) = a /\ WithLate(x, 20) = b
  BY <1>3, <1>10, <1>11, <1>12 DEF WithLate
<1>15. Replayed(x) = a BY <1>2, <1>3, <1>5, <1>10, <1>11 DEF Replayed
<1>16. ReplayMeets(case, x) BY <1>13, <1>15 DEF ReplayMeets
<1> QED BY <1>1, <1>2, <1>5, <1>10, <1>13, <1>14, <1>16

LEMMA F5Ends ==
  ASSUME NEW t, Fresh(t, default_options), Loop(t.events), NEW protocol,
         NEW case \in {"f5:canonical", "f5:boundary", "f5:held_out"}
  PROVE  V02Ends(case, INJECTORS_V02(case, t, protocol))
<1>1. PICK others \in SUBSET {"held_out", "calibration"} :
        /\ others # {}
        /\ INJECTORS_V02(case, t, protocol) = inject_f5_split_leakage(t, others)
  <2>1. CASE case = "f5:canonical"
    <3>1. INJECTORS_V02(case, t, protocol) = inject_f5_split_leakage(t, {"held_out"})
      BY <2>1 DEF INJECTORS_V02
    <3> QED BY <3>1
  <2>2. CASE case = "f5:boundary"
    <3>1. INJECTORS_V02(case, t, protocol) = inject_f5_split_leakage(t, {"held_out", "calibration"})
      BY <2>2 DEF INJECTORS_V02
    <3> QED BY <3>1
  <2>3. CASE case = "f5:held_out"
    <3>1. INJECTORS_V02(case, t, protocol) = inject_f5_split_leakage(t, {"calibration"})
      BY <2>3 DEF INJECTORS_V02
    <3> QED BY <3>1
  <2> QED BY <2>1, <2>2, <2>3
<1>2. PICK x : x = inject_f5_split_leakage(t, others) OBVIOUS
<1>3. Expected(case) = <<"reject", {"D003"}>> BY DEF Expected
<1>4. /\ MeetsExpected(case, x, "full_pre_update") /\ Plain(x) /\ x.split_registry # None
      /\ KeepsEvidence(x, t)
  BY <1>1, <1>2, <1>3, Leaked
<1>5. needs_full(x) BY <1>4 DEF needs_full
<1>6. t.corrupt = {} BY DEF Fresh, Untouched
<1>7. V02Ends(case, x) BY <1>4, <1>5, <1>6, PlainEnds
<1> QED BY <1>1, <1>2, <1>7

LEMMA F7Ends ==
  ASSUME NEW t, Fresh(t, default_options), Loop(t.events), NEW protocol,
         NEW case \in {"f7:canonical", "f7:boundary", "f7:held_out"}
  PROVE  V02Ends(case, INJECTORS_V02(case, t, protocol))
<1>1. t.corrupt = {} BY DEF Fresh, Untouched
<1>2. CASE case = "f7:held_out"
  <2>1. PICK x : x = inject_f7_sync_reorder(t) OBVIOUS
  <2>2. INJECTORS_V02(case, t, protocol) = x BY <1>2, <2>1 DEF INJECTORS_V02
  <2>3. \A stage : MeetsExpected(case, x, stage) /\ Plain(x) /\ KeepsEvidence(x, t)
    BY <1>2, <2>1, LateSync
  <2> QED BY <1>1, <2>2, <2>3, PlainEnds
<1>3. CASE case \in {"f7:canonical", "f7:boundary"}
  <2>1. Gen(t).version = 0 BY FreshReads DEF Served
  <2>2. PICK version \in {0, 1} :
          INJECTORS_V02(case, t, protocol) = inject_f7_event_reorder(t, version)
    <3>1. CASE case = "f7:canonical"
      <4>1. INJECTORS_V02(case, t, protocol) = inject_f7_event_reorder(t, 0)
        BY <2>1, <3>1 DEF INJECTORS_V02
      <4> QED BY <4>1
    <3>2. CASE case = "f7:boundary"
      <4>1. INJECTORS_V02(case, t, protocol) = inject_f7_event_reorder(t, 1)
        BY <3>2 DEF INJECTORS_V02
      <4> QED BY <4>1
    <3> QED BY <1>3, <3>1, <3>2
  <2>3. Expected(case) = <<"reject", {"L005"}>> BY <1>3 DEF Expected
  <2>4. PICK x : x = inject_f7_event_reorder(t, version) OBVIOUS
  <2>5. /\ MeetsExpected(case, WithLate(x, 20), "full_pre_update")
        /\ ReplayMeets(case, x) /\ KeepsEvidence(x, t)
    BY <2>3, <2>4, LateEnds
  <2>6. Loop(x.events) /\ x.corrupt = {} BY <1>1, <2>5 DEF KeepsEvidence
  <2> QED BY <2>2, <2>4, <2>5, <2>6 DEF V02Ends
<1> QED BY <1>2, <1>3

LEMMA F8Ends ==
  ASSUME NEW t, Fresh(t, default_options), Loop(t.events), NEW protocol, NEW case \in F8
  PROVE  V02Ends(case, INJECTORS_V02(case, t, protocol))
<1>1. PICK which \in {"sequence", "loss_mask", "logprobs"} :
        INJECTORS_V02(case, t, protocol) = inject_f8_artifact_mutation(t, which)
  <2>1. CASE case = "f8:canonical"
    <3>1. INJECTORS_V02(case, t, protocol) = inject_f8_artifact_mutation(t, "sequence")
      BY <2>1 DEF INJECTORS_V02
    <3> QED BY <3>1
  <2>2. CASE case = "f8:boundary"
    <3>1. INJECTORS_V02(case, t, protocol) = inject_f8_artifact_mutation(t, "loss_mask")
      BY <2>2 DEF INJECTORS_V02
    <3> QED BY <3>1
  <2>3. CASE case = "f8:held_out"
    <3>1. INJECTORS_V02(case, t, protocol) = inject_f8_artifact_mutation(t, "logprobs")
      BY <2>3 DEF INJECTORS_V02
    <3> QED BY <3>1
  <2> QED BY <2>1, <2>2, <2>3 DEF F8
<1>2. PICK x : x = inject_f8_artifact_mutation(t, which) OBVIOUS
<1>3. Expected(case) = <<"reject", {"T001"}>> BY DEF Expected, F8
<1>4. \A stage : MeetsExpected(case, x, stage) /\ Plain(x) BY <1>2, <1>3, Mutated
<1>5. ReplayMeets(case, x) /\ WithLate(x, 20) = x BY <1>4, PlainReplay
<1>6. x.events = t.events
  <2>1. \E a : x = [t EXCEPT !.corrupt = @ \cup {a}] BY <1>2 DEF inject_f8_artifact_mutation
  <2>2. DOMAIN t = TrajectoryFields BY DEF Fresh, Shaped
  <2> QED BY <2>1, <2>2 DEF TrajectoryFields
<1> QED BY <1>1, <1>2, <1>4, <1>5, <1>6 DEF V02Ends

\* The trajectory F6 and F9 start from.
IsRewardedBase(b) ==
  /\ Fresh(b, default_options) /\ PreUpdate(b) /\ b.env.reward = reward_id
  /\ Reward(b).protocol # "countdown-eval-protocol-v1" /\ Loop(b.events)

EvalProtocolName == "countdown-eval-protocol-v1"

LEMMA F6Ends ==
  ASSUME NEW b, IsRewardedBase(b), NEW case \in {"f6:canonical", "f6:boundary", "f6:held_out"}
  PROVE  V02Ends(case, INJECTORS_V02(case, b, EvalProtocolName))
<1>1. /\ Fresh(b, default_options) /\ PreUpdate(b) /\ Loop(b.events)
      /\ Reward(b).protocol # EvalProtocolName
  BY DEF IsRewardedBase, EvalProtocolName
<1>2. b.corrupt = {} BY <1>1 DEF Fresh, Untouched
<1>3. default_options.span[2] - default_options.span[1] > 0 BY DefaultOptions
<1>4. CASE case = "f6:boundary"
  <2>1. PICK x : x = inject_f6_no_alias(b, EvalProtocolName) OBVIOUS
  <2>2. INJECTORS_V02(case, b, EvalProtocolName) = x BY <1>4, <2>1 DEF INJECTORS_V02
  <2>3. \A stage : MeetsExpected(case, x, stage) /\ Plain(x) /\ KeepsEvidence(x, b)
    BY <1>1, <1>3, <1>4, <2>1, NotAliased
  <2> QED BY <1>1, <1>2, <2>2, <2>3, PlainEnds
<1>5. CASE case \in {"f6:canonical", "f6:held_out"}
  <2>1. PICK verifier \in {None, "countdown-rule-v1-eval"} :
          INJECTORS_V02(case, b, EvalProtocolName)
            = inject_f6_evaluator_alias(b, EvalProtocolName, verifier)
    <3>1. CASE case = "f6:canonical"
      <4>1. INJECTORS_V02(case, b, EvalProtocolName)
              = inject_f6_evaluator_alias(b, EvalProtocolName, None)
        BY <3>1 DEF INJECTORS_V02
      <4> QED BY <4>1
    <3>2. CASE case = "f6:held_out"
      <4>1. INJECTORS_V02(case, b, EvalProtocolName)
              = inject_f6_evaluator_alias(b, EvalProtocolName, "countdown-rule-v1-eval")
        BY <3>2 DEF INJECTORS_V02
      <4> QED BY <4>1
    <3> QED BY <1>5, <3>1, <3>2
  <2>2. PICK x : x = inject_f6_evaluator_alias(b, EvalProtocolName, verifier) OBVIOUS
  <2>3. Expected(case) = <<"quarantine", {"R006"}>> BY <1>5 DEF Expected
  <2>4. EvalProtocolName \in {"countdown-protocol", "countdown-eval-protocol-v1"}
    BY DEF EvalProtocolName
  <2>5. /\ MeetsExpected(case, x, "full_pre_update") /\ Plain(x) /\ x.env.stage = "pre_update"
        /\ KeepsEvidence(x, b)
    BY <1>1, <1>3, <2>2, <2>3, <2>4, Aliased DEF EvalProtocolName
  <2>6. needs_full(x) BY <2>5 DEF needs_full
  <2> QED BY <1>1, <1>2, <2>1, <2>2, <2>5, <2>6, PlainEnds
<1> QED BY <1>4, <1>5

LEMMA F9Ends ==
  ASSUME NEW b, IsRewardedBase(b), NEW case \in {"f9:canonical", "f9:held_out"}
  PROVE  V02Ends(case, INJECTORS_V02(case, b, EvalProtocolName))
<1>1. /\ Fresh(b, default_options) /\ PreUpdate(b) /\ Loop(b.events) /\ b.env.reward = reward_id
  BY DEF IsRewardedBase
<1>2. b.corrupt = {} BY <1>1 DEF Fresh, Untouched
<1>3. PICK fake \in {"fake-reward-v1", "countdown-rule-v1"} :
        INJECTORS_V02(case, b, EvalProtocolName) = inject_f9_reward_hacking(b, fake)
  <2>1. CASE case = "f9:canonical"
    <3>1. INJECTORS_V02(case, b, EvalProtocolName) = inject_f9_reward_hacking(b, "fake-reward-v1")
      BY <2>1 DEF INJECTORS_V02
    <3> QED BY <3>1
  <2>2. CASE case = "f9:held_out"
    <3>1. INJECTORS_V02(case, b, EvalProtocolName) = inject_f9_reward_hacking(b, "countdown-rule-v1")
      BY <2>2 DEF INJECTORS_V02
    <3> QED BY <3>1
  <2> QED BY <2>1, <2>2
<1>4. PICK x : x = inject_f9_reward_hacking(b, fake) OBVIOUS
<1>5. Expected(case) = <<"reject", {"R008"}>> BY DEF Expected
<1>6. /\ MeetsExpected(case, x, "full_pre_update") /\ Plain(x) /\ x.env.stage = "pre_update"
      /\ KeepsEvidence(x, b)
  BY <1>1, <1>4, <1>5, Hacked
<1>7. needs_full(x) BY <1>6 DEF needs_full
<1> QED BY <1>1, <1>2, <1>3, <1>4, <1>6, <1>7, PlainEnds

LEMMA F10Ends ==
  ASSUME NEW t, Fresh(t, default_options), Loop(t.events), NEW protocol
  PROVE  V02Ends("f10:canonical", INJECTORS_V02("f10:canonical", t, protocol))
<1>1. PICK x : x = inject_f10_data_poisoning(t) OBVIOUS
<1>2. INJECTORS_V02("f10:canonical", t, protocol) = x BY <1>1 DEF INJECTORS_V02
<1>3. /\ MeetsExpected("f10:canonical", x, "full_pre_update") /\ Plain(x)
      /\ DOMAIN x.split.content # {} /\ KeepsEvidence(x, t)
  BY <1>1, Poisoned
<1>4. needs_full(x) BY <1>3 DEF needs_full
<1>5. t.corrupt = {} BY DEF Fresh, Untouched
<1> QED BY <1>2, <1>3, <1>4, <1>5, PlainEnds

\* A trajectory without a fault is allowed at every stage.
LEMMA NormalMeets ==
  ASSUME NEW t, Fresh(t, default_options), NEW case \in Normals
  PROVE  (\A stage : MeetsExpected(case, t, stage)) /\ Plain(t)
<1>1. Expected(case) = <<"allow", {}>> BY DEF Normals, Expected
<1>2. Plain(t) BY DEF Fresh, Untouched, Plain
<1> QED BY <1>1, <1>2, DefaultOptions, FreshAllowed

LEMMA NormalEnds ==
  ASSUME NEW t, Fresh(t, default_options), Loop(t.events), NEW protocol, NEW case \in Normals
  PROVE  V02Ends(case, INJECTORS_V02(case, t, protocol))
<1>1. INJECTORS_V02(case, t, protocol) = t BY DEF INJECTORS_V02, Normals
<1>2. (\A stage : MeetsExpected(case, t, stage)) /\ Plain(t) BY NormalMeets
<1>3. KeepsEvidence(t, t) BY DEF KeepsEvidence
<1>4. t.corrupt = {} BY DEF Fresh, Untouched
<1> QED BY <1>1, <1>2, <1>3, <1>4, PlainEnds

LEMMA V02CaseEnds ==
  ASSUME NEW ev, Loop(ev), NEW case \in F5F10 \cup Normals
  PROVE  V02Ends(case, INJECTORS_V02(case, V02Base(case, ev, {}), EvalProtocolName))
<1>1. PICK b : b = V02Base(case, ev, {}) OBVIOUS
<1>2. CASE case \in {"f6:canonical", "f6:boundary", "f6:held_out", "f9:canonical", "f9:held_out"}
  <2>1. b = pre_update_base_for(ev, gen_id, {}) BY <1>1, <1>2 DEF V02Base
  <2>2. IsRewardedBase(b) BY <2>1, LoopBase DEF IsRewardedBase
  <2> QED BY <1>1, <1>2, <2>2, F6Ends, F9Ends
<1>3. CASE case \notin {"f6:canonical", "f6:boundary", "f6:held_out", "f9:canonical", "f9:held_out"}
  <2>1. PICK id : id = NormalGen(case) OBVIOUS
  <2>2. id \in {gen_id, second_id} BY <2>1 DEF NormalGen
  <2>3. b = trajectory_from_loop(ev, id, {}) BY <1>1, <1>3, <2>1 DEF V02Base
  <2>4. IsFromLoop(b, ev, id) BY <2>2, <2>3, LoopEvident, FromLoop
  <2>5. Fresh(b, default_options) /\ Loop(b.events) BY <2>4 DEF IsFromLoop, Rollout
  <2>6. \/ case \in {"f5:canonical", "f5:boundary", "f5:held_out"}
        \/ case \in {"f7:canonical", "f7:boundary", "f7:held_out"}
        \/ case \in F8 \/ case = "f10:canonical" \/ case \in Normals
    BY <1>3 DEF F5F10, F8
  <2> QED BY <1>1, <2>5, <2>6, F5Ends, F7Ends, F8Ends, F10Ends, NormalEnds
<1> QED BY <1>2, <1>3

----------------------------------------------------------------------------
(* The cases of F1 to F4 and of the layouts.                               *)

\* A case ends as registered when it is validated before its reward, and when
\* it is replayed.
DriverEnds(case, x) ==
  /\ x.bogus_sequence = None => MeetsExpected(case, x, "identity_pre_reward")
  /\ x.bogus_sequence # None => \A seq \in Int :
       MeetsExpected(case, [x EXCEPT !.update = update_input(x, x.bogus_sequence, seq)],
                     "full_pre_update")
  /\ ReplayMeets(case, x)

LEMMA PlainDriver ==
  ASSUME NEW x, NEW case, \A stage : MeetsExpected(case, x, stage), Plain(x)
  PROVE  DriverEnds(case, x)
<1>1. ReplayMeets(case, x) BY PlainReplay
<1> QED BY <1>1 DEF DriverEnds, Plain

LEMMA F1F4Ends ==
  ASSUME NEW t, Rollout(t, default_options), NEW case \in F1F4,
         case = "f1:held_out" => Chain(t.events)
  PROVE  /\ DriverEnds(case, INJECTORS(case, t))
         /\ INJECTORS(case, t).bogus_sequence # None => INJECTORS(case, t).events = t.events
         /\ case # "f3:held_out" => INJECTORS(case, t).bogus_sequence = None
<1>1. Fresh(t, default_options) BY DEF Rollout
<1>2. default_options.span[2] - default_options.span[1] > 0 BY DefaultOptions
<1>3. PICK x : x = INJECTORS(case, t) OBVIOUS
<1>4. CASE case # "f3:held_out"
  <2>1. \A stage : MeetsExpected(case, x, stage) /\ Plain(x)
    <3> TAKE stage
    <3>1. CASE case \in {"f1:canonical", "f1:boundary"}
      <4>1. Expected(case) = <<"reject", {"P004"}>> BY <3>1 DEF Expected
      <4>2. x = inject_f1_static_rollout(t, 0, 1) \/ x = inject_f1_static_rollout(t, 0, 2)
        BY <1>3, <3>1 DEF INJECTORS
      <4> QED BY <1>1, <4>1, <4>2, StaticRollout
    <3>2. CASE case = "f1:held_out"
      <4>1. x = inject_f1_stale_sync(t) BY <1>3, <3>2 DEF INJECTORS
      <4> QED BY <1>2, <3>2, <4>1, StaleSync
    <3>3. CASE case \in {"f2:canonical", "f2:boundary"}
      <4>1. Expected(case) = <<"reject", {"L003"}>> BY <3>3 DEF Expected
      <4>2. x = inject_f2_misbound_logprob(t, 1) \/ x = inject_f2_misbound_logprob(t, 2)
        BY <1>3, <3>3 DEF INJECTORS
      <4> QED BY <1>1, <4>1, <4>2, Misbound
    <3>4. CASE case = "f2:held_out"
      <4>1. x = inject_f2_wrong_generation(t) BY <1>3, <3>4 DEF INJECTORS
      <4> QED BY <1>2, <3>4, <4>1, WrongGeneration
    <3>5. CASE case \in {"f3:canonical", "f3:boundary"}
      <4>1. Expected(case) = <<"reject", {"T002"}>> BY <3>5 DEF Expected
      <4>2. Gen(t).template = "template" BY <1>1, FreshReads DEF Served
      <4>3. \/ x = inject_f3_retokenization(t, "template")
            \/ x = inject_f3_retokenization(t, "bad")
        BY <1>3, <3>5, <4>2 DEF INJECTORS, inject_f3_template_variant
      <4> QED BY <1>1, <4>1, <4>3, Retokenized
    <3>6. CASE case \in {"f4:canonical", "f4:boundary", "f4:held_out"}
      <4>1. Expected(case) = <<"reject", {"M004"}>> BY <3>6 DEF Expected
      <4>2. PICK shift \in {1, 3, -1} : x = inject_f4_mask_shift(t, shift)
        <5>1. \/ x = inject_f4_mask_shift(t, 1) \/ x = inject_f4_mask_shift(t, 3)
              \/ x = inject_f4_mask_shift(t, -1)
          BY <1>3, <3>6 DEF INJECTORS
        <5> QED BY <5>1
      <4> QED BY <1>1, <4>1, <4>2, DefaultOptions, ShiftedMask
    <3> QED BY <1>4, <3>1, <3>2, <3>3, <3>4, <3>5, <3>6 DEF F1F4
  <2> QED BY <1>3, <1>4, <2>1, PlainDriver DEF Plain
<1>5. CASE case = "f3:held_out"
  <2>1. x = inject_f3_retokenized_sequence(t) BY <1>3, <1>5 DEF INJECTORS
  <2>10. 0 \in Int OBVIOUS
  <2>2. x.bogus_sequence # None BY <1>1, <2>1, <2>10, Reencoded
  <2>3. \A seq \in Int :
          MeetsExpected(case, [x EXCEPT !.update = update_input(x, x.bogus_sequence, seq)],
                        "full_pre_update")
    BY <1>1, <1>5, <2>1, Reencoded
  <2>4. x.events = t.events /\ x.env = t.env
    <3>1. \E a : x = [t EXCEPT !.bogus_sequence = a] BY <2>1 DEF inject_f3_retokenized_sequence
    <3>2. DOMAIN t = TrajectoryFields BY <1>1 DEF Fresh, Shaped
    <3> QED BY <3>1, <3>2 DEF TrajectoryFields
  <2>5. PICK n : n = Gen(x).seq + 1 OBVIOUS
  <2>6. n \in Int
    <3>1. Gen(x) = Gen(t) BY <2>4, SameReadingIs DEF SameReading
    <3>2. Gen(t).seq \in {10, 11} BY <1>1, FreshReads DEF Served
    <3> QED BY <2>5, <3>1, <3>2
  <2>7. Replayed(x) = [x EXCEPT !.update = update_input(x, x.bogus_sequence, n)]
    BY <2>2, <2>5 DEF Replayed
  <2>8. needs_full(x) BY <2>2 DEF needs_full
  <2>9. ReplayMeets(case, x) BY <2>3, <2>6, <2>7, <2>8 DEF ReplayMeets
  <2> QED BY <1>3, <1>5, <2>2, <2>3, <2>4, <2>9 DEF DriverEnds
<1> QED BY <1>4, <1>5

\* validate_with_stage then ends as registered.
LEMMA ValidatedMeets ==
  ASSUME NEW case, NEW x, DriverEnds(case, x), x.bogus_sequence # None => HasLatest(x)
  PROVE  Meets(validate_with_stage(case, x))
<1>1. CASE x.bogus_sequence = None
  BY <1>1, MeetsResult DEF validate_with_stage, DriverEnds
<1>2. CASE x.bogus_sequence # None
  <2>1. PICK n : n = next_seq(x) OBVIOUS
  <2>2. n \in Int BY <1>2, <2>1, NextSeqIsNext
  <2>3. PICK y : y = [x EXCEPT !.update = update_input(x, x.bogus_sequence, n)] OBVIOUS
  <2>4. MeetsExpected(case, y, "full_pre_update") BY <1>2, <2>2, <2>3 DEF DriverEnds
  <2>5. validate_with_stage(case, x) = Result(case, y, "full_pre_update")
    BY <1>2, <2>1, <2>3 DEF validate_with_stage
  <2> QED BY <2>4, <2>5, MeetsResult
<1> QED BY <1>1, <1>2

LEMMA BoundaryEnds ==
  ASSUME NEW case \in Boundaries
  PROVE  DriverEnds(case, Factory(case)) /\ Factory(case).bogus_sequence = None
<1>1. PICK o : o = FactoryOptions(case) OBVIOUS
<1>2. PICK t : t = Factory(case) OBVIOUS
<1>3. /\ IsBuilt(t, o)
      /\ case # "empty_completion" => o.span = <<4, 12>>
      /\ case = "empty_completion" => o.span = <<4, 4>>
  BY <1>1, <1>2, FactoryBuilt
<1>4. Fresh(t, o) BY <1>3 DEF IsBuilt, Rollout
<1>5. Plain(t) BY <1>4 DEF Fresh, Untouched, Plain
<1>6. CASE case = "empty_completion"
  <2>1. o.span[1] = 4 /\ o.span[2] = 4 BY <1>3, <1>6
  <2>2. o.span[2] - o.span[1] <= 0 BY <2>1
  <2>3. \A stage : MeetsExpected(case, t, stage) BY <1>4, <1>6, <2>2, EmptyQuarantined
  <2> QED BY <1>2, <1>5, <2>3, PlainDriver DEF Plain
<1>7. CASE case # "empty_completion"
  <2>1. o.span = <<4, 12>> BY <1>3, <1>7
  <2>2. o.span[1] = 4 /\ o.span[2] = 12 BY <2>1
  <2>3. o.span[2] - o.span[1] > 0 BY <2>2
  <2>4. Expected(case) = <<"allow", {}>> BY <1>7 DEF Expected, Boundaries
  <2>5. \A stage : MeetsExpected(case, t, stage) BY <1>4, <2>3, <2>4, FreshAllowed
  <2> QED BY <1>2, <1>5, <2>5, PlainDriver DEF Plain
<1> QED BY <1>6, <1>7

LEMMA InjectedEnds ==
  ASSUME NEW t, Rollout(t, default_options), Chain(t.events), NEW case \in F1F4 \cup Normals
  PROVE  /\ DriverEnds(case, INJECTORS(case, t))
         /\ INJECTORS(case, t).bogus_sequence # None => INJECTORS(case, t).events = t.events
<1>1. CASE case \in F1F4 BY <1>1, F1F4Ends
<1>2. CASE case \in Normals
  <2>1. INJECTORS(case, t) = t BY <1>2 DEF INJECTORS, Normals
  <2>2. Fresh(t, default_options) BY DEF Rollout
  <2>3. (\A stage : MeetsExpected(case, t, stage)) /\ Plain(t) BY <1>2, <2>2, NormalMeets
  <2>4. DriverEnds(case, t) BY <2>3, PlainDriver
  <2> QED BY <2>1, <2>4
<1> QED BY <1>1, <1>2

\* matrix.py: a case over a trajectory of the factory.
LEMMA FactoryCaseEnds ==
  ASSUME NEW case \in F1F4 \cup Boundaries \cup Normals
  PROVE  /\ Meets(validate_with_stage(case, INJECTORS(case, Factory(case))))
         /\ ReplayMeets(case, INJECTORS(case, Factory(case)))
<1>1. PICK t : t = Factory(case) OBVIOUS
<1>2. PICK x : x = INJECTORS(case, t) OBVIOUS
<1>3. CASE case \in Boundaries
  <2>1. x = t BY <1>2, <1>3 DEF INJECTORS, Boundaries
  <2>2. DriverEnds(case, x) /\ x.bogus_sequence = None BY <1>1, <1>3, <2>1, BoundaryEnds
  <2> QED BY <1>1, <1>2, <2>2, ValidatedMeets DEF DriverEnds
<1>4. CASE case \notin Boundaries
  <2>1. IsBuilt(t, default_options) BY <1>1, <1>4, FactoryBuilt
  <2>2. Rollout(t, default_options) /\ Chain(t.events) /\ HasLatest(t) BY <2>1 DEF IsBuilt
  <2>3. DriverEnds(case, x) /\ (x.bogus_sequence # None => x.events = t.events)
    BY <1>2, <1>4, <2>2, InjectedEnds
  <2>4. x.bogus_sequence # None => HasLatest(x) BY <2>2, <2>3 DEF HasLatest
  <2>5. ReplayMeets(case, x) BY <2>3 DEF DriverEnds
  <2>6. Meets(validate_with_stage(case, x)) BY <2>3, <2>4, ValidatedMeets
  <2> QED BY <1>1, <1>2, <2>5, <2>6
<1> QED BY <1>3, <1>4

\* day3_matrix.py: a case over the evidence of the loop.
LEMMA LoopCaseEnds ==
  ASSUME NEW case \in F1F4 \cup Normals
  PROVE  Meets(validate_with_stage(case,
           INJECTORS(case, trajectory_from_loop(load_loop_evidence, NormalGen(case), {}))))
<1>1. PICK ev : ev = load_loop_evidence OBVIOUS
<1>2. PICK id : id = NormalGen(case) OBVIOUS
<1>3. id \in {gen_id, second_id} BY <1>2 DEF NormalGen
<1>4. IsLoopEvidence(ev) BY <1>1, LoopEvidence
<1>5. Loop(ev) /\ Chain(ev) BY <1>4 DEF IsLoopEvidence
<1>6. PICK t : t = trajectory_from_loop(ev, id, {}) OBVIOUS
<1>7. IsFromLoop(t, ev, id) BY <1>3, <1>5, <1>6, LoopEvident, FromLoop
<1>8. Rollout(t, default_options) /\ t.events = ev BY <1>7 DEF IsFromLoop
<1>9. HasLatest(t) BY <1>4, <1>8 DEF IsLoopEvidence, HasLatest
<1>10. PICK x : x = INJECTORS(case, t) OBVIOUS
<1>11. DriverEnds(case, x) /\ (x.bogus_sequence # None => x.events = t.events)
  BY <1>5, <1>8, <1>10, InjectedEnds
<1>12. x.bogus_sequence # None => HasLatest(x) BY <1>9, <1>11 DEF HasLatest
<1> QED BY <1>1, <1>2, <1>6, <1>10, <1>11, <1>12, ValidatedMeets

\* online_matrix.py and batch_online.py: a case over a live rollout.
LEMMA OnlineEnds ==
  ASSUME NEW case \in Online \cup Normals, NEW id \in {gen_id, second_id},
         NEW rewarded_at \in Int, NEW parent_at \in Int
  PROVE  Meets(OnlineFault(case, id, rewarded_at, parent_at))
<1>1. PICK fresh : fresh = trajectory_from_loop(online_log, id, {}) OBVIOUS
<1>2. IsFromLoop(fresh, online_log, id) BY <1>1, LogEvident, FromLoop
<1>3. Rollout(fresh, default_options) /\ Fresh(fresh, default_options) /\ fresh.env.gen = id
  BY <1>2 DEF IsFromLoop, Rollout
<1>4. PICK seq : seq = Gen(fresh).seq OBVIOUS
<1>5. seq \in {10, 11} BY <1>3, <1>4, FreshReads DEF Served
<1>6. default_options.span[2] - default_options.span[1] > 0 BY DefaultOptions
<1>7. CASE case \in F1F4 \cup Normals
  <2>1. PICK x : x = INJECTORS(case, fresh) OBVIOUS
  <2>2. INJECTORS_V02(case, x, "countdown-protocol") = x
    BY <1>7 DEF INJECTORS_V02, F1F4, Normals
  <2>3. MeetsExpected(case, x, "identity_pre_reward")
    <3>1. CASE case \in Normals
      <4>1. x = fresh BY <2>1, <3>1 DEF INJECTORS, Normals
      <4> QED BY <1>3, <3>1, <4>1, NormalMeets
    <3>2. CASE case \in F1F4
      <4>1. case # "f1:held_out" /\ case # "f3:held_out" BY <3>2 DEF Online, Normals
      <4> QED BY <1>3, <2>1, <3>2, <4>1, F1F4Ends DEF DriverEnds
    <3> QED BY <1>7, <3>1, <3>2
  <2>4. case # "f6:canonical" BY <1>7 DEF F1F4, Normals
  <2>5. OnlineFault(case, id, rewarded_at, parent_at) = Result(case, x, "identity_pre_reward")
    BY <1>1, <1>7, <2>1, <2>2, <2>4 DEF OnlineFault
  <2> QED BY <2>3, <2>5, MeetsResult
<1>8. CASE case = "f5:canonical"
  <2>1. PICK x : x = inject_f5_split_leakage(fresh, {"held_out"}) OBVIOUS
  <2>2. INJECTORS_V02(case, INJECTORS(case, fresh), "countdown-protocol") = x
    BY <1>8, <2>1 DEF INJECTORS_V02, INJECTORS
  <2>3. MeetsExpected(case, x, "full_pre_update")
    <3>1. Expected(case) = <<"reject", {"D003"}>> BY <1>8 DEF Expected
    <3>2. {"held_out"} \in SUBSET {"held_out", "calibration"} /\ {"held_out"} # {} OBVIOUS
    <3> QED BY <1>3, <2>1, <3>1, <3>2, Leaked
  <2>4. OnlineFault(case, id, rewarded_at, parent_at) = Result(case, x, "full_pre_update")
    BY <1>1, <1>8, <2>2 DEF OnlineFault, F1F4, Normals
  <2> QED BY <2>3, <2>4, MeetsResult
<1>9. CASE case = "f8:canonical"
  <2>1. PICK x : x = inject_f8_artifact_mutation(fresh, "sequence") OBVIOUS
  <2>2. INJECTORS_V02(case, INJECTORS(case, fresh), "countdown-protocol") = x
    BY <1>9, <2>1 DEF INJECTORS_V02, INJECTORS
  <2>3. MeetsExpected(case, x, "full_pre_update")
    <3>1. Expected(case) = <<"reject", {"T001"}>> BY <1>9 DEF Expected
    <3> QED BY <1>3, <2>1, <3>1, Mutated
  <2>4. OnlineFault(case, id, rewarded_at, parent_at) = Result(case, x, "full_pre_update")
    BY <1>1, <1>9, <2>2 DEF OnlineFault, F1F4, Normals
  <2> QED BY <2>3, <2>4, MeetsResult
<1>10. CASE case = "f7:canonical"
  <2>1. PICK x : x = inject_f7_event_reorder(fresh, 0) OBVIOUS
  <2>2. Gen(fresh).version = 0 BY <1>3, FreshReads DEF Served
  <2>3. INJECTORS_V02(case, INJECTORS(case, fresh), "countdown-protocol") = x
    BY <1>10, <2>1, <2>2 DEF INJECTORS_V02, INJECTORS
  <2>4. Expected(case) = <<"reject", {"L005"}>> BY <1>10 DEF Expected
  <2>5. 0 \in {0, 1} OBVIOUS
  <2>6. /\ MeetsExpected(case, WithLate(x, seq + 100), "full_pre_update")
        /\ x.requires_update_input = TRUE
    BY <1>3, <1>4, <2>1, <2>4, <2>5, LateEnds
  <2>7. PICK y : y = [x EXCEPT !.update = update_input(x, Gen(x).tokens, seq + 100)] OBVIOUS
  <2>8. MeetsExpected(case, y, "full_pre_update") BY <2>6, <2>7 DEF WithLate
  <2>9. OnlineFault(case, id, rewarded_at, parent_at) = Result(case, y, "full_pre_update")
    BY <1>1, <1>4, <1>10, <2>3, <2>7 DEF OnlineFault, F1F4, Normals
  <2> QED BY <2>8, <2>9, MeetsResult
<1>11. CASE case = "f6:canonical"
  <2>1. PICK reward_of : reward_of = Append(id, "reward") OBVIOUS
  <2>2. /\ reward_of \in Seq(EvidenceNames) /\ LastName(reward_of) = "reward"
        /\ Len(reward_of) \in Nat \ {0} /\ id \in Seq(EvidenceNames)
    <3>1. id \in Seq(EvidenceNames) /\ Len(id) \in {1, 2} BY Ids
    <3>2. "reward" \in EvidenceNames BY DEF EvidenceNames
    <3>3. PICK n : n = Len(id) OBVIOUS
    <3>4. Len(reward_of) = n + 1 BY <2>1, <3>1, <3>2, <3>3, Suffixed
    <3>5. n + 1 \in Nat \ {0} BY <3>1, <3>3
    <3> QED BY <2>1, <3>1, <3>2, <3>4, <3>5, Suffixed
  <2>3. PICK at : at = seq + rewarded_at OBVIOUS
  <2>4. PICK later : later = seq + parent_at OBVIOUS
  <2>5. at \in Int /\ later \in Int BY <1>5, <2>3, <2>4
  <2>6. PICK e : e = reward(id, at) OBVIOUS
  <2>7. e \in RewardEvents BY <2>2, <2>5, <2>6, RewardIs DEF IsReward
  <2>8. PICK b : b = Rewarded(fresh, reward_of, e, later) OBVIOUS
  <2>9. IsRewarded(b, fresh, reward_of, e) BY <1>3, <2>2, <2>5, <2>7, <2>8, RewardedIs
  <2>10. Fresh(b, default_options) /\ PreUpdate(b) BY <2>9 DEF IsRewarded
  <2>11. PICK x : x = inject_f6_evaluator_alias(b, "countdown-protocol", None) OBVIOUS
  <2>12. INJECTORS_V02(case, INJECTORS(case, b), "countdown-protocol") = x
    BY <1>11, <2>11 DEF INJECTORS_V02, INJECTORS
  <2>13. MeetsExpected(case, x, "full_pre_update")
    <3>1. Expected(case) = <<"quarantine", {"R006"}>> BY <1>11 DEF Expected
    <3> QED BY <1>6, <2>10, <2>11, <3>1, Aliased
  <2>14. OnlineFault(case, id, rewarded_at, parent_at) = Result(case, x, "full_pre_update")
    BY <1>1, <1>4, <1>11, <2>1, <2>3, <2>4, <2>6, <2>8, <2>12 DEF OnlineFault, F1F4, Normals
  <2> QED BY <2>13, <2>14, MeetsResult
<1> QED BY <1>7, <1>8, <1>9, <1>10, <1>11 DEF Online, F1F4

----------------------------------------------------------------------------
(* The drivers: every case, whatever ran before it.                        *)

\* What a case directory holds replays as registered.
FrozenReplay == \A case \in DOMAIN frozen : Exists(case) => ReplayMeets(case, frozen[case].trajectory)

\* The evidence of a driver stays what the next case needs.
EvidenceKept ==
  /\ driver \in {"v02", "freeze_v02"} => Loop(events)
  /\ driver = "day3" => events = load_loop_evidence

\* With that, what a driver writes or wrote replays as registered.
CasesInv ==
  /\ FreezeInv /\ damaged = {} /\ EvidenceKept
  /\ ExpectedDecision /\ ReplayAgrees
  /\ writing # None => ReplayMeets(writing.case, writing.trajectory)
  /\ FrozenReplay

LEMMA EvidenceOf ==
  ASSUME NEW d
  PROVE  /\ d \in {"v02", "freeze_v02"} => Loop(Evidence(d))
         /\ d = "day3" => Evidence(d) = load_loop_evidence
BY LoopEvidence DEF Evidence, IsLoopEvidence

LEMMA InitCases == MatrixInit => CasesInv
<1> SUFFICES ASSUME MatrixInit PROVE CasesInv OBVIOUS
<1>1. FreezeInv BY InitFreeze
<1>2. /\ damaged = {} /\ last = None /\ checked = None /\ writing = None /\ events = Evidence(driver)
      /\ \A case \in DOMAIN frozen : frozen[case].at = "absent"
  BY DEF MatrixInit
<1>3. FrozenReplay BY <1>2 DEF FrozenReplay, Exists
<1> QED BY <1>1, <1>2, <1>3, EvidenceOf DEF CasesInv, EvidenceKept, ExpectedDecision, ReplayAgrees

\* What a step that runs a case must show.
RunsWell(case) ==
  /\ damaged' = {} /\ EvidenceKept' /\ ExpectedDecision'
  /\ UNCHANGED writing \/ \E t : /\ writing' = [case |-> case, trajectory |-> t, at |-> "absent"]
                                 /\ ReplayMeets(case, t)

LEMMA MatrixRuns ==
  ASSUME CasesInv, NEW case, run_fault_matrix(case)
  PROVE  RunsWell(case)
<1>1. driver = "matrix" /\ driver' = driver /\ case \in F1F4 \cup Boundaries \cup Normals
  BY DEF run_fault_matrix, Running, Cases
<1>2. PICK x : x = INJECTORS(case, Factory(case)) OBVIOUS
<1>3. /\ last' = validate_with_stage(case, x)
      /\ writing' = [case |-> case, trajectory |-> x, at |-> "absent"]
      /\ events' = events /\ damaged' = damaged
  BY <1>2 DEF run_fault_matrix
<1>4. Meets(validate_with_stage(case, x)) /\ ReplayMeets(case, x) BY <1>1, <1>2, FactoryCaseEnds
<1>5. EvidenceKept' BY <1>1 DEF EvidenceKept
<1>6. ExpectedDecision' BY <1>3, <1>4 DEF ExpectedDecision
<1>7. damaged' = {} BY <1>3 DEF CasesInv
<1> QED BY <1>3, <1>4, <1>5, <1>6, <1>7 DEF RunsWell

LEMMA Day3Runs ==
  ASSUME CasesInv, NEW case, run_day3_matrix(case)
  PROVE  RunsWell(case)
<1>1. driver = "day3" /\ driver' = driver /\ case \in F1F4 \cup Boundaries \cup Normals
  BY DEF run_day3_matrix, Running, Cases
<1>2. events = load_loop_evidence /\ damaged = {} BY <1>1 DEF CasesInv, EvidenceKept
<1>3. events' = events /\ damaged' = damaged /\ writing' = writing BY DEF run_day3_matrix
<1>4. Meets(last')
  <2>1. CASE case \in Boundaries
    <3>1. last' = validate_with_stage(case, Factory(case)) BY <2>1 DEF run_day3_matrix
    <3>2. DriverEnds(case, Factory(case)) /\ Factory(case).bogus_sequence = None
      BY <2>1, BoundaryEnds
    <3> QED BY <3>1, <3>2, ValidatedMeets
  <2>2. CASE case \notin Boundaries
    <3>1. last' = validate_with_stage(case,
                    INJECTORS(case, trajectory_from_loop(load_loop_evidence, NormalGen(case), {})))
      BY <1>2, <2>2 DEF run_day3_matrix
    <3> QED BY <1>1, <2>2, <3>1, LoopCaseEnds
  <2> QED BY <2>1, <2>2
<1>5. EvidenceKept' BY <1>1, <1>2, <1>3 DEF EvidenceKept
<1>6. ExpectedDecision' BY <1>4 DEF ExpectedDecision
<1> QED BY <1>2, <1>3, <1>5, <1>6 DEF RunsWell

LEMMA V02Runs ==
  ASSUME CasesInv, NEW case, run_v02_matrix(case)
  PROVE  RunsWell(case)
<1>1. driver = "v02" /\ driver' = driver /\ case \in F5F10 \cup Normals
  BY DEF run_v02_matrix, Running, Cases
<1>2. Loop(events) /\ damaged = {} BY <1>1 DEF CasesInv, EvidenceKept
<1>3. PICK x : x = INJECTORS_V02(case, V02Base(case, events, {}), EvalProtocolName) OBVIOUS
<1>4. eval_protocol_sha(load_loop_evidence) = EvalProtocolName
  BY LoopEvidence, EvalProtocol DEF IsLoopEvidence, EvalProtocolName
<1>5. V02Ends(case, x) BY <1>1, <1>2, <1>3, V02CaseEnds
<1>6. events[<<"uinput">>].seq = 20 BY <1>2 DEF Loop
<1>7. /\ last' = Result(case, WithLate(x, 20), "full_pre_update")
      /\ events' = x.events /\ damaged' = StoreAfter(case, x) /\ writing' = writing
  BY <1>2, <1>3, <1>4, <1>6 DEF run_v02_matrix, WithLate
<1>8. damaged' = {} BY <1>2, <1>5, <1>7 DEF StoreAfter, V02Ends
<1>9. Loop(events') BY <1>5, <1>7 DEF V02Ends
<1>10. EvidenceKept' BY <1>1, <1>9 DEF EvidenceKept
<1>11. ExpectedDecision' BY <1>5, <1>7, MeetsResult DEF ExpectedDecision, V02Ends
<1> QED BY <1>7, <1>8, <1>10, <1>11 DEF RunsWell

LEMMA FreezeRuns ==
  ASSUME CasesInv, NEW case, freeze_v02_cases(case)
  PROVE  RunsWell(case)
<1>1. driver = "freeze_v02" /\ driver' = driver /\ case \in F5F10 \cup Normals
  BY DEF freeze_v02_cases, Running, Cases
<1>2. Loop(events) /\ damaged = {} /\ ExpectedDecision
  BY <1>1 DEF CasesInv, EvidenceKept
<1>3. PICK x : x = INJECTORS_V02(case, V02Base(case, events, {}), EvalProtocolName) OBVIOUS
<1>4. eval_protocol_sha(events) = EvalProtocolName BY <1>2, EvalProtocol DEF EvalProtocolName
<1>5. V02Ends(case, x) BY <1>1, <1>2, <1>3, V02CaseEnds
<1>6. /\ writing' = [case |-> case, trajectory |-> x, at |-> "absent"]
      /\ events' = x.events /\ damaged' = StoreAfter(case, x) /\ last' = last
  BY <1>2, <1>3, <1>4 DEF freeze_v02_cases
<1>7. damaged' = {} BY <1>2, <1>5, <1>6 DEF StoreAfter, V02Ends
<1>8. Loop(events') /\ ReplayMeets(case, x) BY <1>5, <1>6 DEF V02Ends
<1>9. EvidenceKept' BY <1>1, <1>8 DEF EvidenceKept
<1>10. ExpectedDecision' BY <1>2, <1>6 DEF ExpectedDecision
<1> QED BY <1>6, <1>7, <1>8, <1>9, <1>10 DEF RunsWell

LEMMA OnlineRuns ==
  ASSUME CasesInv, NEW case, online_matrix(case) \/ batch_online(case)
  PROVE  RunsWell(case)
<1>1. driver \in {"online", "batch"} /\ driver' = driver /\ case \in Online \cup Normals
  BY DEF online_matrix, batch_online, Running, Cases
<1>2. damaged' = damaged /\ events' = events /\ writing' = writing
  BY DEF online_matrix, batch_online
<1>3. Meets(last')
  <2>1. 1 \in Int /\ 2 \in Int OBVIOUS
  <2>2. CASE online_matrix(case)
    <3>1. PICK id : id = NormalGen(case) OBVIOUS
    <3>2. id \in {gen_id, second_id} BY <3>1 DEF NormalGen
    <3>3. last' = OnlineFault(case, id, 1, 2) BY <2>2, <3>1 DEF online_matrix
    <3> QED BY <1>1, <2>1, <3>2, <3>3, OnlineEnds
  <2>3. CASE batch_online(case)
    <3>1. PICK id \in DOMAIN generations : last' = OnlineFault(case, id, 2, 1)
      BY <2>3 DEF batch_online
    <3>2. id \in {gen_id, second_id} BY <3>1, Generations DEF IsGenerations
    <3> QED BY <1>1, <2>1, <3>1, <3>2, OnlineEnds
  <2> QED BY <2>2, <2>3
<1>4. EvidenceKept' BY <1>1 DEF EvidenceKept
<1>5. ExpectedDecision' BY <1>3 DEF ExpectedDecision
<1>6. damaged' = {} BY <1>2 DEF CasesInv
<1> QED BY <1>2, <1>4, <1>5, <1>6 DEF RunsWell

LEMMA StartsEnd ==
  ASSUME CasesInv, NEW case, Starts(case)
  PROVE  CasesInv'
<1>1. RunsWell(case) BY MatrixRuns, Day3Runs, V02Runs, FreezeRuns, OnlineRuns DEF Starts
<1>2. FreezeInv' BY StartsKeep DEF CasesInv
<1>3. frozen' = frozen /\ checked' = checked
  <2>1. PICK d : Running(d, case) BY StartsWhat
  <2> QED BY <2>1 DEF Running
<1>4. FrozenReplay' BY <1>3 DEF CasesInv, FrozenReplay, Exists
<1>5. ReplayAgrees' BY <1>3 DEF CasesInv, ReplayAgrees
<1>6. writing' # None => ReplayMeets(writing'.case, writing'.trajectory)
  <2>1. CASE UNCHANGED writing BY <2>1 DEF CasesInv
  <2>2. CASE \E t : /\ writing' = [case |-> case, trajectory |-> t, at |-> "absent"]
                    /\ ReplayMeets(case, t)
    <3>1. PICK t : /\ writing' = [case |-> case, trajectory |-> t, at |-> "absent"]
                   /\ ReplayMeets(case, t)
      BY <2>2
    <3>2. writing'.case = case /\ writing'.trajectory = t BY <3>1
    <3> QED BY <3>1, <3>2
  <2> QED BY <1>1, <2>1, <2>2 DEF RunsWell
<1> QED BY <1>1, <1>2, <1>4, <1>5, <1>6 DEF RunsWell, CasesInv

LEMMA WritesEnd ==
  ASSUME CasesInv, Writes
  PROVE  CasesInv'
<1>1. PICK from \in {"absent", "inputs", "sums", "torn"},
           to \in {"inputs", "sums", "torn", "complete"} : Writing(from, to)
  BY WritesWhat
<1>2. PICK c : c = writing.case OBVIOUS
<1>3. PICK t : t = writing.trajectory OBVIOUS
<1>4. PICK dir : dir = [at |-> to, trajectory |-> t] OBVIOUS
<1>5. /\ writing # None /\ frozen' = [frozen EXCEPT ![c] = dir]
      /\ writing' = IF to = "complete" THEN None ELSE [writing EXCEPT !.at = to]
      /\ UNCHANGED <<driver, alive, events, damaged, done, ran, deaths, last, checked>>
  BY <1>1, <1>2, <1>3, <1>4 DEF Writing
<1>6. ReplayMeets(c, t) /\ DOMAIN writing = {"case", "trajectory", "at"}
  BY <1>2, <1>3, <1>5 DEF CasesInv, FreezeInv, WriterInv
<1>7. FrozenReplay'
  <2>1. dir.trajectory = t BY <1>4
  <2>2. \A case \in DOMAIN frozen : case # c => frozen'[case] = frozen[case] BY <1>5
  <2>3. c \in DOMAIN frozen => frozen'[c] = dir BY <1>5
  <2>4. DOMAIN frozen' = DOMAIN frozen BY <1>5
  <2>5. FrozenReplay BY DEF CasesInv
  <2> SUFFICES ASSUME NEW case \in DOMAIN frozen', Exists(case)'
               PROVE  ReplayMeets(case, frozen'[case].trajectory)
    BY DEF FrozenReplay
  <2>6. CASE case = c BY <1>6, <2>1, <2>3, <2>4, <2>6
  <2>7. CASE case # c
    <3>1. frozen'[case] = frozen[case] /\ case \in DOMAIN frozen BY <2>2, <2>4, <2>7
    <3>2. Exists(case) BY <3>1 DEF Exists
    <3> QED BY <2>5, <3>1, <3>2 DEF FrozenReplay
  <2> QED BY <2>6, <2>7
<1>8. writing' # None => ReplayMeets(writing'.case, writing'.trajectory)
  <2>1. writing' # None => writing'.case = c /\ writing'.trajectory = t
    BY <1>2, <1>3, <1>5, <1>6
  <2> QED BY <1>6, <2>1
<1>9. FreezeInv' BY WritesKeep DEF CasesInv
<1>10. ExpectedDecision' /\ ReplayAgrees' BY <1>5 DEF CasesInv, ExpectedDecision, ReplayAgrees
<1>11. damaged' = {} /\ EvidenceKept' BY <1>5 DEF CasesInv, EvidenceKept
<1> QED BY <1>7, <1>8, <1>9, <1>10, <1>11 DEF CasesInv, EvidenceKept

LEMMA OthersEnd ==
  ASSUME CasesInv,
         FrozenCaseExists \/ Die \/ Rerun \/ (\E case \in DOMAIN frozen : contract_check(case))
           \/ UNCHANGED matrix_vars
  PROVE  CasesInv'
<1>1. FreezeInv' BY OthersKeep DEF CasesInv
<1>2. UNCHANGED <<driver, frozen, damaged>>
  BY DEF FrozenCaseExists, Die, Rerun, contract_check, matrix_vars
<1>3. FrozenReplay' BY <1>2 DEF CasesInv, FrozenReplay, Exists
<1>4. writing' = None \/ writing' = writing
  BY DEF FrozenCaseExists, Die, Rerun, contract_check, matrix_vars
<1>5. writing' # None => ReplayMeets(writing'.case, writing'.trajectory) BY <1>4 DEF CasesInv
<1>6. EvidenceKept'
  <2>1. events' = events \/ events' = Evidence(driver)
    BY DEF FrozenCaseExists, Die, Rerun, contract_check, matrix_vars
  <2> QED BY <1>2, <2>1, EvidenceOf DEF CasesInv, EvidenceKept
<1>7. ExpectedDecision'
  <2>1. last' = last \/ last' = None
    BY DEF FrozenCaseExists, Die, Rerun, contract_check, matrix_vars
  <2> QED BY <2>1 DEF CasesInv, ExpectedDecision
<1>8. ReplayAgrees'
  <2>1. CASE UNCHANGED checked BY <2>1 DEF CasesInv, ReplayAgrees
  <2>2. CASE \E case \in DOMAIN frozen : contract_check(case)
    <3>1. PICK case \in DOMAIN frozen : contract_check(case) BY <2>2
    <3>2. CASE frozen[case].at = "torn"
      <4>1. checked' = [case |-> case, decision |-> "unreadable", codes |-> {}]
        BY <3>1, <3>2 DEF contract_check
      <4>2. checked'.decision = "unreadable" BY <4>1
      <4> QED BY <4>2 DEF ReplayAgrees
    <3>3. CASE frozen[case].at # "torn"
      <4>1. PICK t : t = frozen[case].trajectory OBVIOUS
      <4>2. PICK stage : stage = IF needs_full(t) THEN "full_pre_update" ELSE "identity_pre_reward"
        OBVIOUS
      <4>3. checked' = Result(case, Replayed(t), stage)
        BY <3>1, <3>3, <4>1, <4>2 DEF contract_check
      <4>4. frozen[case].at # "absent" BY <3>1 DEF contract_check
      <4>5. ReplayMeets(case, t) BY <4>1, <4>4 DEF CasesInv, FrozenReplay, Exists
      <4>6. MeetsExpected(case, Replayed(t), stage) BY <4>2, <4>5 DEF ReplayMeets
      <4> QED BY <4>3, <4>6, MeetsResult DEF ReplayAgrees
    <3> QED BY <3>2, <3>3
  <2> QED BY <2>1, <2>2 DEF FrozenCaseExists, Die, Rerun, matrix_vars
<1>9. damaged' = {} BY <1>2 DEF CasesInv
<1> QED BY <1>1, <1>3, <1>5, <1>6, <1>7, <1>8, <1>9 DEF CasesInv, EvidenceKept

LEMMA NextEnds == CasesInv /\ [MatrixNext]_matrix_vars => CasesInv'
<1> SUFFICES ASSUME CasesInv, [MatrixNext]_matrix_vars PROVE CasesInv' OBVIOUS
<1>1. CASE \E case : Starts(case) BY <1>1, StartsEnd
<1>2. CASE Writes BY <1>2, WritesEnd
<1>3. CASE FrozenCaseExists \/ Die \/ Rerun \/ (\E case \in DOMAIN frozen : contract_check(case))
            \/ UNCHANGED matrix_vars
  BY <1>3, OthersEnd
<1> QED BY <1>1, <1>2, <1>3 DEF MatrixNext, Starts, Writes

\* configs/faults: in every driver each case ends with its registered decision
\* and codes, whatever cases ran before it, for any bounds.
THEOREM CasesEndAsRegistered == MatrixSpec => []ExpectedDecision
<1>1. CasesInv => ExpectedDecision BY DEF CasesInv
<1> QED BY <1>1, InitCases, NextEnds, PTL DEF MatrixSpec

\* contract_check.py: a frozen case that can be read replays to its registered
\* decision, whatever the evidence had been through when it was frozen.
THEOREM ReplaysAgree == MatrixSpec => []ReplayAgrees
<1>1. CasesInv => ReplayAgrees BY DEF CasesInv
<1> QED BY <1>1, InitCases, NextEnds, PTL DEF MatrixSpec
=============================================================================
