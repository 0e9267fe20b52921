------------------------------- MODULE Faults -------------------------------
(***************************************************************************)
(* faults/: the fault families F1-F10.  An injector takes a trajectory and *)
(* changes one target field.                                               *)
(*                                                                         *)
(* F1-F4 build a new Trajectory over a copy of the events, and what other  *)
(* injectors attached is gone.  F6, F7, F9 and F10 work on the trajectory  *)
(* in place: what they do to its events, whoever shares the events sees.   *)
(***************************************************************************)
EXTENDS Fixture

Rebuilt(t) ==
  [t EXCEPT !.split_registry = None, !.eval_protocol = None, !.verifiers = None,
            !.requires_update_input = FALSE]

\* A changed copy of the generation event under a new id, which the envelope
\* and its contract then name.
Renamed(t, suffix, gen) ==
  LET id == Append(t.env.gen, suffix)
  IN  [t EXCEPT !.events = id :> gen @@ @, !.env.gen = id, !.env.contract.auth = id]

Scored(t, suffix, scoring) ==
  LET id == Append(t.env.gen, suffix)
  IN  [t EXCEPT !.events = id :> scoring @@ @, !.env.scoring = id]

Resourced(t, scoring) ==
  [t EXCEPT !.env.contract.source = "exact_behavior_scorer", !.env.contract.auth = scoring]

----------------------------------------------------------------------------
inject_f1_static_rollout(t, runtime_version, claimed_parent) ==
  LET new == Renamed(t, "f1", [Gen(t) EXCEPT !.version = runtime_version])
  IN  Rebuilt([new EXCEPT !.env.contract.parent_version = claimed_parent,
                          !.env.contract.diagnostic = FALSE])

\* The first sync event of the trajectory is not a terminal success.
inject_f1_stale_sync(t) ==
  LET Syncs == {id \in DOMAIN t.events : id[1] = "sync"}
      first == CHOOSE id \in Syncs : \A other \in Syncs : t.events[id].seq <= t.events[other].seq
  IN  Rebuilt(Renamed(t, "f1stale", [Gen(t) EXCEPT !.sync = first]))

inject_f2_misbound_logprob(t, scorer_version) ==
  LET scoring == make_scoring(t.env.gen, Gen(t).seq, scorer_version, Gen(t).tokens, Gen(t).logprobs)
  IN  Rebuilt(Resourced(Scored(t, "f2", scoring), Append(t.env.gen, "f2")))

\* The scorer refers to the generation of another run; the envelope's own
\* generation loses its service logprobs, so that only the scorer is left.
inject_f2_wrong_generation(t) ==
  LET scoring == [make_scoring(gen_id, Gen(t).seq, Gen(t).version, Gen(t).tokens, Gen(t).logprobs)
                    EXCEPT !.checkpoint = Gen(t).checkpoint]
      bare == Renamed(Scored(t, "f2wg", scoring), "f2wg-nolp", [Gen(t) EXCEPT !.logprobs = None])
  IN  Rebuilt(Resourced(bare, Append(t.env.gen, "f2wg")))

inject_f3_retokenization(t, template) ==
  Rebuilt(Renamed(t, "f3", [Gen(t) EXCEPT !.tokenizer = "bad", !.template = template]))

inject_f3_template_variant(t) == inject_f3_retokenization(t, "bad")

\* The materializer consumes re-encoded tokens.
inject_f3_retokenized_sequence(t) ==
  [t EXCEPT !.bogus_sequence = [Gen(t).tokens EXCEPT !.completion = "re-encoded"]]

inject_f4_mask_shift(t, shift) ==
  LET g == Gen(t)
      shifted == {i \in 0..(g.tokens.n - 1) :
                    g.completion_span[1] - shift <= i /\ i < g.tokens.n - shift}
                   \ Padding(g.padding_spans)
  IN  Rebuilt(Renamed(t, "f4",
        [g EXCEPT !.target_mask = mask(g.tokens.n, shifted),
                  !.loss_mask = mask(g.tokens.n - 1, {i - 1 : i \in shifted \ {0}})]))

----------------------------------------------------------------------------
inject_f5_split_leakage(t, other_splits) ==
  [t EXCEPT !.split_registry =
     {t.split} \cup {make_split_manifest(name, {Gen(t).prompt_id}) : name \in other_splits}]

\* The first reward of the trajectory stays; its copy under the evaluation
\* protocol, and of another verifier if one is given, takes its place in the
\* envelope.
inject_f6_evaluator_alias(t, eval_protocol, verifier) ==
  LET declared == [t EXCEPT !.eval_protocol = eval_protocol]
      id == Append(t.env.reward, "f6")
      copy == [t.events[t.env.reward] EXCEPT !.protocol = eval_protocol,
                 !.verifier = IF verifier = None THEN @ ELSE verifier]
  IN  IF t.env.reward = None THEN declared
      ELSE [declared EXCEPT !.events = id :> copy @@ @, !.env.reward = id]

inject_f6_no_alias(t, eval_protocol) == [t EXCEPT !.eval_protocol = eval_protocol]

inject_f7_event_reorder(t, scorer_version) ==
  LET g == Gen(t)
      late == [make_scoring(t.env.gen, g.seq + 9998, scorer_version, g.tokens, g.logprobs)
                 EXCEPT !.checkpoint = IF scorer_version = g.version THEN g.checkpoint ELSE @]
  IN  [Scored(t, "f7late", late) EXCEPT !.requires_update_input = TRUE]

inject_f7_sync_reorder(t) ==
  LET id == Append(Gen(t).sync, "f7late")
      late == [t.events[Gen(t).sync] EXCEPT !.seq = Gen(t).seq + 5000]
  IN  Renamed([t EXCEPT !.events = id :> late @@ @], "f7sync", [Gen(t) EXCEPT !.sync = id])

inject_f8_artifact_mutation(t, which) ==
  LET artifact == CASE which = "sequence" -> Gen(t).tokens
                    [] which = "loss_mask" -> Gen(t).loss_mask
                    [] which = "completion_target_mask" -> Gen(t).target_mask
                    [] which = "logprobs" -> Gen(t).logprobs
  IN  [t EXCEPT !.corrupt = @ \cup {artifact}]

\* The registry it attaches knows the honest verifier under another protocol.
inject_f9_reward_hacking(t, fake_version) ==
  LET attached == [t EXCEPT !.verifiers = "countdown-rule-v1" :> "0" @@ "gsm8k-rule-v1" :> "1"]
  IN  IF t.env.reward = None THEN attached
      ELSE [attached EXCEPT !.events[t.env.reward].verifier = fake_version,
                            !.events[t.env.reward].protocol = "f"]

\* The frozen manifest registers the prompt as it was; then every prompt token
\* of the generation changes under the same id.
inject_f10_data_poisoning(t) ==
  LET g == Gen(t)
  IN  [t EXCEPT !.split.content = g.prompt_id :> g.tokens.prompt @@ @,
                !.events[t.env.gen].tokens.prompt = (@ + 1) % 32000]
=============================================================================
