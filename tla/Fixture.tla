------------------------------ MODULE Fixture ------------------------------
(***************************************************************************)
(* testing.py: the deterministic trajectory factory.  A trajectory is a    *)
(* validation context: its envelope, events, artifacts and manifests, with *)
(* what a fault injector may attach to it (None until one does).           *)
(*                                                                         *)
(* An id is a sequence of names, so an injector derives the id of a        *)
(* changed event by Append.  Layout options o: n tokens, the completion    *)
(* span, padding spans, logprob source, envelope stage, contract protocol, *)
(* policy version, dual sources allowed, parent decision.                  *)
(***************************************************************************)
EXTENDS Validator, Sequences

\* As in module TLC, with definitions a proof can expand.
id :> e == [x \in {id} |-> e]
f @@ g == [x \in DOMAIN f \cup DOMAIN g |-> IF x \in DOMAIN f THEN f[x] ELSE g[x]]

gen_id == <<"gen">>
scoring_id == <<"score">>
reward_id == <<"reward">>
sync_id == <<"sync">>

make_policy_manifest(version) ==
  [version |-> version, checkpoint |-> version, tokenizer |-> "tokenizer", template |-> "template"]

make_split_manifest(name, prompts) == [name |-> name, prompts |-> prompts, content |-> <<>>]

\* Requested, started, loaded, canary passed.
make_sync_chain(start_seq) ==
  LET Types == <<"sync_requested", "sync_started", "runtime_loaded", "canary_passed">>
  IN  [id \in {Append(sync_id, Types[i]) : i \in 1..4} |->
        [type |-> id[2], seq |-> start_seq + (CHOOSE i \in 1..4 : Types[i] = id[2]) - 1]]

canary_ref == Append(sync_id, "canary_passed")

sequence(n) == [n |-> n, prompt |-> 0, completion |-> "completion"]
behavior_logprobs(n) == [n |-> n, dtype |-> "bf16"]
\* A slice of an array ends where the array does.
mask(n, sel) == [n |-> n, sel |-> sel \cap (0..(n - 1)), binary |-> TRUE]

make_scoring(source, seq_num, version, tokens, logprobs) ==
  [type |-> "behavior_scoring_finished", seq |-> seq_num + 1, source |-> source,
   version |-> version, checkpoint |-> make_policy_manifest(version).checkpoint,
   tokens |-> tokens, logprobs |-> logprobs]

\* The producer's masks agree with the canonical ones.
generation(o, seq_num) ==
  [type |-> "generation_finished", seq |-> seq_num, prompt_id |-> "countdown-0001",
   version |-> o.version, checkpoint |-> make_policy_manifest(o.version).checkpoint,
   sync |-> canary_ref, tokenizer |-> "tokenizer", template |-> "template",
   completion_span |-> o.span, padding_spans |-> o.pads, tokens |-> sequence(o.n),
   target_mask |-> mask(o.n, completion_target_mask(o.span, o.pads)),
   loss_mask |-> mask(o.n - 1, canonical_loss_mask(o.n, o.span, o.pads)),
   logprobs |-> IF o.source = "generation_service"
                  THEN behavior_logprobs(o.span[2] - o.span[1]) ELSE None]

reward(source, seq) ==
  [type |-> "reward_finished", seq |-> seq, verifier |-> "countdown-rule-v1",
   protocol |-> "countdown-protocol", source |-> source, nonzero |-> TRUE, status |-> "success"]

validation_event(decision, seq) ==
  [type |-> "validation_decision", seq |-> seq, decision |-> decision]

build_contract(o) ==
  [protocol |-> o.protocol, parent_version |-> o.version, diagnostic |-> o.diagnostic,
   source |-> IF o.source = "none" THEN "generation_service" ELSE o.source,
   auth |-> IF o.source = "exact_behavior_scorer" THEN scoring_id ELSE gen_id]

build_trajectory(o) ==
  LET seq_num == 10 + 100 * o.version
      scored == o.source = "exact_behavior_scorer"
      scoring == make_scoring(gen_id, seq_num, o.version, sequence(o.n),
                               behavior_logprobs(o.span[2] - o.span[1]))
  IN  [events |-> make_sync_chain(0) @@ (gen_id :> generation(o, seq_num))
                  @@ (reward_id :> reward(gen_id, seq_num + IF scored THEN 2 ELSE 1))
                  @@ IF scored THEN scoring_id :> scoring ELSE <<>>,
       env |-> [stage |-> o.stage, gen |-> gen_id,
                scoring |-> IF scored THEN scoring_id ELSE None,
                reward |-> IF o.stage = "pre_update" THEN reward_id ELSE None,
                parent |-> o.parent, contract |-> build_contract(o)],
       manifest |-> make_policy_manifest(o.version),
       split |-> make_split_manifest("train", {"countdown-0001"}),
       corrupt |-> {}, protocol |-> [mode |-> o.protocol, max_lag |-> 0, correction |-> FALSE],
       canary |-> None, update |-> None, split_registry |-> None, eval_protocol |-> None,
       verifiers |-> None, bogus_sequence |-> None, requires_update_input |-> FALSE]

\* The default layout of the factory: T = 12, P = 4, C = 8.
default_options ==
  [n |-> 12, span |-> <<4, 12>>, pads |-> {}, source |-> "generation_service",
   stage |-> "pre_reward", protocol |-> "strict_on_policy", version |-> 0,
   diagnostic |-> FALSE, parent |-> None]

\* An UpdateInputEvent over the producer's own artifacts (as the drivers build it).
update_input(c, tokens, seq) == [tokens |-> tokens, auth |-> c.env.contract.auth, seq |-> seq]
=============================================================================
