------------------------- MODULE ValidationPipeline -------------------------
(***************************************************************************)
(* The two validations of a trajectory, with wiring faults between them.   *)
(*                                                                         *)
(* A trajectory starts as testing.build_trajectory makes it, beside the    *)
(* scoring event of another rollout.  The identity validation seals its    *)
(* decision as an event, the pre-update envelope refers to that event, and *)
(* the full validation decides with or without an update input.  At any    *)
(* moment a fault may change one field, as the mutations of                *)
(* tests/property/test_chaos.py and the fault families do.                 *)
(***************************************************************************)
EXTENDS Fixture

CONSTANTS
  Layouts,   \* set of [n, span, pads]
  Spans,     \* completion spans a fault may put in their place
  Protocols, \* ProtocolConfigs: [mode, max_lag, correction]
  MaxFaults  \* bound: fields changed

ASSUME PipelineConstants ==
  /\ None \notin Seq({"gen", "score", "reward", "sync", "vdec", "other", "sync_requested",
                     "sync_started", "runtime_loaded", "canary_passed"})
  /\ Layouts \subseteq [n : Int, span : Int \X Int, pads : SUBSET (Int \X Int)]
  /\ Spans \subseteq Int \X Int
  /\ Protocols \subseteq [mode : {"strict_on_policy", "bounded_off_policy"}, max_lag : Int,
                          correction : BOOLEAN]

\* build_trajectory with one of the layouts, protocols and logprob sources,
\* beside the scoring event of another rollout.
Options(layout, p, s) ==
  [default_options EXCEPT !.n = layout.n, !.span = layout.span, !.pads = layout.pads,
                          !.source = s, !.protocol = p.mode]

stray_scoring_id == <<"score", "other">>

Trajectory(o, p) ==
  LET stray == make_scoring(<<"gen", "other">>, 20, 1, sequence(o.n), behavior_logprobs(o.n))
  IN  [build_trajectory(o) EXCEPT !.protocol = p, !.events = stray_scoring_id :> stray @@ @]

Sources == {"generation_service", "exact_behavior_scorer"}

\* None is none of the values it stands in for.
ASSUME NoneIsNoValue ==
  /\ None \notin {"mismatch", "countdown-protocol"} /\ None \notin [n : Int, dtype : {"bf16"}]
  /\ None \notin [type : {"validation_decision"}, seq : Int,
                   decision : {"allow", "quarantine", "reject"}]
  /\ \A layout \in Layouts, p \in Protocols, s \in Sources :
       LET t == Trajectory(Options(layout, p, s), p)
       IN  None \notin {t.manifest, t.split} \cup {t.events[id] : id \in DOMAIN t.events}

VARIABLES
  ctx,     \* what the next validation will see
  faults,  \* fields changed so far
  judged,  \* what the last validation saw, or None
  verdict  \* its result with its stage, or None

vars == <<ctx, faults, judged, verdict>>

decision_id == <<"vdec">>

Supported(layout) ==
  /\ AlignmentResult(layout.n, layout.span, layout.pads) = "Alignment"
  /\ ~padding_within_completion(layout.span, layout.pads)

\* A protocol some trajectory satisfies (P005 and P006).
Admits(p) == p.mode = "bounded_off_policy" => p.correction /\ p.max_lag >= 0

Init ==
  /\ \E layout \in Layouts, p \in Protocols, s \in Sources :
       ctx = Trajectory(Options(layout, p, s), p)
  /\ faults = 0 /\ judged = None /\ verdict = None

Validate(stage) ==
  /\ judged' = ctx
  /\ verdict' = validate_envelope(ctx, stage) @@ [stage |-> stage]

\* The event id is that of the envelope: the event is appended once.
ValidateIdentity ==
  /\ ctx.env.stage = "pre_reward" /\ decision_id \notin DOMAIN ctx.events
  /\ Validate("identity_pre_reward")
  /\ ctx' = IF verdict'.decision = "raise" THEN ctx
            ELSE [ctx EXCEPT !.events =
                    decision_id :> validation_event(verdict'.decision, next_seq(ctx)) @@ @]
  /\ UNCHANGED faults

PreUpdateEnvelope ==
  /\ ctx.env.stage = "pre_reward" /\ decision_id \in DOMAIN ctx.events
  /\ ctx' = [ctx EXCEPT !.env.stage = "pre_update", !.env.reward = reward_id,
                        !.env.parent = decision_id]
  /\ judged' = None /\ verdict' = None
  /\ UNCHANGED faults

Materialize ==
  /\ ctx.env.stage = "pre_update" /\ ctx.update = None /\ HasGen(ctx)
  /\ ctx' = [ctx EXCEPT !.update = update_input(ctx, Gen(ctx).tokens, next_seq(ctx))]
  /\ judged' = None /\ verdict' = None
  /\ UNCHANGED faults

ValidateFull ==
  /\ ctx.env.stage = "pre_update" /\ verdict = None
  /\ Validate("full_pre_update")
  /\ UNCHANGED <<ctx, faults>>

\* One field of a record changed: {[r EXCEPT !.f = v] : v \in V}.
Field(r, f, V) == {[r EXCEPT ![f] = v] : v \in V}

ChangedMask(m) ==
  {[m EXCEPT !.sel = {i - 1 : i \in @} \ {-1}], [m EXCEPT !.n = @ - 1], [m EXCEPT !.binary = FALSE]}

ChangedGeneration(g) == UNION {
  Field(g, "version", {0, 7}), Field(g, "checkpoint", {1}), Field(g, "prompt_id", {"fuzz-prompt"}),
  Field(g, "sync", {Append(sync_id, "sync_requested"), <<"lost">>}), Field(g, "seq", {0}),
  Field(g, "tokenizer", {"bad"}), Field(g, "template", {"bad"}),
  Field(g, "completion_span", Spans), Field(g, "padding_spans", {{s} : s \in Spans}),
  Field(g, "tokens", {[g.tokens EXCEPT !.n = @ - 1], [g.tokens EXCEPT !.prompt = @ + 1]}),
  Field(g, "target_mask", ChangedMask(g.target_mask)),
  Field(g, "loss_mask", ChangedMask(g.loss_mask)),
  Field(g, "logprobs", {None, behavior_logprobs(g.tokens.n - 1)})}

ChangedScoring(s) == UNION {
  Field(s, "version", {7}), Field(s, "checkpoint", {1}), Field(s, "source", {<<"gen", "other">>}),
  Field(s, "tokens", {[s.tokens EXCEPT !.completion = "re-encoded"]}),
  Field(s, "logprobs", {behavior_logprobs(1)}), Field(s, "seq", {999})}

ChangedReward(r) == UNION {
  Field(r, "status", {"timeout"}), Field(r, "protocol", {None, "eval-protocol"}),
  Field(r, "verifier", {"fake-reward-v1"})}

ChangedContract(k) == UNION {
  Field(k, "parent_version", {1, 2}), Field(k, "diagnostic", {TRUE}),
  Field(k, "protocol", {"strict_on_policy", "bounded_off_policy"}),
  {[k EXCEPT !.source = "exact_behavior_scorer", !.auth = a] : a \in {scoring_id, stray_scoring_id}}}

Artifacts(c) ==
  ({Gen(c).tokens, Gen(c).target_mask, Gen(c).loss_mask, Gen(c).logprobs} \ {None})
  \cup IF Scoring(c) = None THEN {} ELSE {Scoring(c).logprobs}

\* Fields of the context that are attached for single rules.
Attached(c) == UNION {
  Field(c, "manifest", {None, make_policy_manifest(1)}), Field(c, "canary", {"mismatch", "pass"}),
  Field(c, "split", {None, [c.split EXCEPT !.content = "countdown-0001" :> 7]}),
  Field(c, "split_registry", {{make_split_manifest(name, {"countdown-0001"}) :
                                 name \in {"train", "held_out"}}}),
  Field(c, "eval_protocol", {"eval-protocol"}),
  Field(c, "verifiers", {"countdown-rule-v1" :> "countdown-protocol"})}

OneFieldChanged(c) == UNION {
  {[c EXCEPT !.events[c.env.gen] = g] : g \in ChangedGeneration(Gen(c))},
  {[c EXCEPT !.events[scoring_id] = s] :
     s \in IF scoring_id \in DOMAIN c.events THEN ChangedScoring(c.events[scoring_id]) ELSE {}},
  {[c EXCEPT !.events[reward_id] = r] : r \in ChangedReward(c.events[reward_id])},
  {[c EXCEPT !.env.contract = k] : k \in ChangedContract(c.env.contract)},
  {[c EXCEPT !.env.scoring = id] : id \in {None, stray_scoring_id}},
  {[c EXCEPT !.env.gen = <<"gen", "lost">>]},
  {[c EXCEPT !.corrupt = {a}] : a \in Artifacts(c)},
  IF c.split = None THEN {} ELSE Attached(c),
  {[c EXCEPT !.update = u] :
     u \in IF c.update = None THEN {}
           ELSE Field(c.update, "tokens", {sequence(1)}) \cup Field(c.update, "seq", {5})
                \cup Field(c.update, "auth", {stray_scoring_id})}}

Fault ==
  /\ faults < MaxFaults /\ HasGen(ctx)
  /\ ctx' \in OneFieldChanged(ctx) \ {ctx}
  /\ faults' = faults + 1 /\ judged' = None /\ verdict' = None

Next == ValidateIdentity \/ PreUpdateEnvelope \/ Materialize \/ ValidateFull \/ Fault

Spec == Init /\ [][Next]_vars

----------------------------------------------------------------------------
(* Properties                                                              *)

Allowed == verdict # None /\ verdict.decision = "allow" /\ HasGen(judged)

\* The consumer of scored logprobs is promised an event the envelope names.
AuthorityNamed == judged.env.contract.auth \in {judged.env.gen, judged.env.scoring}

\* Every verdict is of a known kind and lists rules of its stage: all of them
\* for an allow, at least one that fired for a reject or a quarantine.
TypeOK ==
  verdict # None =>
    /\ verdict.decision \in {"allow", "quarantine", "reject", "raise"}
    /\ verdict.codes # {} /\ verdict.codes \subseteq RULES_BY_STAGE(verdict.stage)
    /\ verdict.decision = "allow" => verdict.codes = RULES_BY_STAGE(verdict.stage)

\* validators/align.py and the M rules: what is allowed trains on exactly the
\* completion's tokens, each of which is predicted one position earlier and
\* has one behaviour logprob.  It needs a prompt: with none, the first
\* completion token has no prediction and the loss mask is one short.
AllowedIsAligned ==
  Allowed =>
    LET g == Gen(judged)
    IN  /\ g.target_mask.sel = Positions(g.completion_span)
        /\ g.completion_span[1] >= 1 =>
             g.loss_mask.sel = prediction_positions(g.completion_span)
        /\ g.logprobs # None => g.logprobs.n = completion_length(judged)

\* The P, T and L rules together.  The logprobs of an allowed trajectory are
\* the generation's own, or those of a scorer of the same policy, checkpoint
\* and tokens; the checkpoint, tokenizer and template are the manifest's; it
\* refers to a sync that passed before it was generated; and it is no further
\* behind than the validator's protocol allows.  Which policy that sync loaded
\* is not said: no rule compares it (P003 and P007, rules.py:95-174).
AllowedIsOnPolicy ==
  Allowed /\ AuthorityNamed =>
    LET g == Gen(judged)
        auth == judged.events[judged.env.contract.auth]
        p == judged.protocol
    IN  /\ \/ auth = g /\ g.logprobs # None
           \/ /\ auth.type = "behavior_scoring_finished" /\ auth.source = judged.env.gen
              /\ auth.version = g.version /\ auth.checkpoint = g.checkpoint
              /\ auth.tokens = g.tokens
        /\ g.checkpoint = judged.manifest.checkpoint
        /\ g.tokenizer = judged.manifest.tokenizer /\ g.template = judged.manifest.template
        /\ judged.events[g.sync].type \in SYNC_TERMINAL_SUCCESS
        /\ judged.events[g.sync].seq <= g.seq
        /\ judged.env.contract.parent_version - g.version
             <= IF p.mode = "strict_on_policy" THEN 0 ELSE p.max_lag

\* Validation ends without a decision only for a producer mask that can be
\* read but has the wrong length or values other than 0 and 1, over a sequence
\* that aligns (validators/validator.py runs the rules without a handler).
RaiseIsBadMask ==
  verdict # None =>
    (verdict.decision = "raise" <=>
       /\ HasGen(judged) /\ Aligns(judged) = "Alignment"
       /\ Readable(judged, Gen(judged).target_mask)
       /\ \/ ~TargetDecodes(judged)
          \/ Readable(judged, Gen(judged).loss_mask) /\ ~LossDecodes(judged))

\* Without a fault both validations allow every supported layout with either
\* source, under every protocol a trajectory can meet.  What cannot be aligned
\* and what no protocol admits is rejected, an empty completion or padding
\* inside it is quarantined, and no envelope gets past a parent that was not
\* allowed.
HonestAllowed ==
  verdict # None /\ faults = 0 =>
    LET g == Gen(judged)
        layout == [n |-> g.tokens.n, span |-> g.completion_span, pads |-> g.padding_spans]
    IN  verdict.decision =
          IF Supported(layout) /\ Admits(judged.protocol) THEN "allow"
          ELSE IF \/ verdict.stage = "full_pre_update" \/ ~Admits(judged.protocol)
                  \/ AlignmentResult(layout.n, layout.span, layout.pads) = "AlignmentError"
            THEN "reject" ELSE "quarantine"

\* The design document (section 7.7): with exact_behavior_scorer the
\* authoritative event matches the behaviour checkpoint and tokens.  The rules
\* compare only the scorer the envelope names.
AuthoritativeScorerMatches ==
  Allowed /\ judged.env.contract.source = "exact_behavior_scorer" =>
    LET auth == judged.events[judged.env.contract.auth]
    IN  auth.checkpoint = Gen(judged).checkpoint /\ auth.tokens = Gen(judged).tokens
=============================================================================
