---------------------------- MODULE FaultMatrix ----------------------------
(***************************************************************************)
(* The drivers that run the fault families through the validator, freeze   *)
(* the faulted trajectories as cases and check the cases again.            *)
(*                                                                         *)
(* A driver loads its evidence once and runs one case after the other, in  *)
(* the order of its config: here in any order.  What an injector or driver *)
(* writes into the shared events or the shared store stays for the cases   *)
(* that follow.  A frozen case is written file by file, and a death leaves *)
(* what was written; contract-check may look at it at any time.            *)
(***************************************************************************)
EXTENDS Faults

CONSTANTS
  Drivers,   \* a subset of AllDrivers
  MaxCases,  \* cases run by a driver, over all restarts
  MaxFrozen, \* the same for the two drivers that freeze
  MaxDeaths

AllDrivers == {"matrix", "day3", "v02", "freeze_v02", "online", "batch"}

ASSUME MatrixConstants ==
  /\ Drivers \subseteq AllDrivers
  /\ MaxCases \in Nat /\ MaxFrozen \in Nat /\ MaxDeaths \in Nat

\* The drivers' evidence: an id is that of the event it was derived from, followed
\* by the name of the injector.
EvidenceNames ==
  {"gen", "second", "reward", "score", "sync", "uinput", "parent", "sync_requested", "sync_started",
   "runtime_loaded", "canary_passed", "f1", "f1stale", "f2", "f2wg", "f2wg-nolp", "f3", "f4",
   "f6", "f7late", "f7sync"}

TokenSequences == [n : Int, prompt : Int, completion : {"completion", "re-encoded"}]
LogprobArrays == [n : Int, dtype : {"bf16"}]
Masks == [n : Int, sel : SUBSET Int, binary : BOOLEAN]

GenerationEvents ==
  [type : {"generation_finished"}, seq : Int, prompt_id : {"countdown-0001", "countdown-0002"},
   version : Int, checkpoint : Int, sync : Seq(EvidenceNames), tokenizer : {"tokenizer", "bad"},
   template : {"template", "bad"}, completion_span : Int \X Int, padding_spans : SUBSET (Int \X Int),
   tokens : TokenSequences, target_mask : Masks, loss_mask : Masks,
   logprobs : {None} \cup LogprobArrays]
ScoringEvents ==
  [type : {"behavior_scoring_finished"}, seq : Int, source : Seq(EvidenceNames), version : Int,
   checkpoint : Int, tokens : TokenSequences, logprobs : {None} \cup LogprobArrays]
RewardEvents ==
  [type : {"reward_finished"}, seq : Int,
   verifier : {"countdown-rule-v1", "countdown-rule-v1-eval", "fake-reward-v1"},
   protocol : {"countdown-protocol", "countdown-eval-protocol-v1", "f"},
   source : Seq(EvidenceNames), nonzero : {TRUE}, status : {"success"}]
DecisionEvents == [type : {"validation_decision"}, seq : Int, decision : {"allow"}]
SyncEvents == [type : EvidenceNames, seq : Int]
PolicyManifests ==
  [version : Int, checkpoint : Int, tokenizer : {"tokenizer"}, template : {"template"}]
SplitManifests ==
  [name : {"train", "held_out", "calibration"}, prompts : SUBSET {"countdown-0001", "countdown-0002"},
   content : {<<>>} \cup [{"countdown-0001"} -> Int] \cup [{"countdown-0002"} -> Int]]

\* None is none of the values it stands in for: an optional field, an absent
\* event or artifact, the splits a case was given (enumerated for TLC, which cannot
\* ask whether a model value is in a SUBSET).
ASSUME NoneIsNoEvidence ==
  /\ None \notin {"mismatch", "countdown-protocol", "countdown-eval-protocol-v1", "f"}
  /\ None \notin Seq(EvidenceNames) /\ None \notin TokenSequences /\ None \notin LogprobArrays
  /\ None \notin GenerationEvents /\ None \notin ScoringEvents /\ None \notin RewardEvents
  /\ None \notin DecisionEvents /\ None \notin SyncEvents
  /\ None \notin PolicyManifests /\ None \notin SplitManifests
  /\ None \notin {R : R \in SUBSET [name : {"train", "held_out", "calibration"}, content : {<<>>},
                                    prompts : SUBSET {"countdown-0001", "countdown-0002"}]}
  /\ None \notin [{"countdown-rule-v1", "gsm8k-rule-v1"} -> {"0", "1"}]
  /\ None \notin [tokens : TokenSequences, auth : Seq(EvidenceNames), seq : Int]

VARIABLES
  driver,
  alive,    \* FALSE after a death and after FrozenCaseExists
  events,   \* the evidence in the driver's memory
  damaged,  \* artifacts altered in the store of the evidence
  done,     \* cases run since the driver started
  ran, deaths,
  last,     \* [case, decision, codes] of the last validation, or None
  writing,  \* [case, trajectory, at] while write_case runs, or None
  frozen,   \* case -> [at, trajectory]
  checked   \* result of the last case contract-check evaluated, or None

matrix_vars == <<driver, alive, events, damaged, done, ran, deaths, last, writing, frozen, checked>>

Bound(d) == IF d \in {"matrix", "freeze_v02"} THEN MaxFrozen ELSE MaxCases

----------------------------------------------------------------------------
(* The cases of configs/faults and what each is registered to end with.    *)

F1F4 == {"f1:canonical", "f1:boundary", "f1:held_out", "f2:canonical", "f2:boundary", "f2:held_out",
         "f3:canonical", "f3:boundary", "f3:held_out", "f4:canonical", "f4:boundary", "f4:held_out"}
F5F10 == {"f5:canonical", "f5:boundary", "f5:held_out", "f6:canonical", "f6:boundary", "f6:held_out",
          "f7:canonical", "f7:boundary", "f7:held_out", "f8:canonical", "f8:boundary", "f8:held_out",
          "f9:canonical", "f9:held_out", "f10:canonical"}
Boundaries == {"empty_completion", "left_padding", "dual_source_diagnostic"}
Normals == {"normal_0", "normal_1"}
Online == {"f1:canonical", "f2:canonical", "f3:canonical", "f4:canonical",
           "f5:canonical", "f6:canonical", "f7:canonical", "f8:canonical"}

Cases(d) ==
  CASE d \in {"matrix", "day3"} -> F1F4 \cup Boundaries \cup Normals
    [] d \in {"v02", "freeze_v02"} -> F5F10 \cup Normals
    [] d \in {"online", "batch"} -> Online \cup Normals

Expected(case) ==
  CASE case = "f1:held_out" -> <<"quarantine", {"P003"}>>
    [] case \in {"f1:canonical", "f1:boundary"} -> <<"reject", {"P004"}>>
    [] case = "f2:held_out" -> <<"quarantine", {"L006"}>>
    [] case \in {"f2:canonical", "f2:boundary"} -> <<"reject", {"L003"}>>
    [] case = "f3:held_out" -> <<"reject", {"T004"}>>
    [] case \in {"f3:canonical", "f3:boundary"} -> <<"reject", {"T002"}>>
    [] case \in {"f4:canonical", "f4:boundary", "f4:held_out"} -> <<"reject", {"M004"}>>
    [] case \in {"f5:canonical", "f5:boundary", "f5:held_out"} -> <<"reject", {"D003"}>>
    [] case \in {"f6:canonical", "f6:held_out"} -> <<"quarantine", {"R006"}>>
    [] case = "f7:held_out" -> <<"reject", {"P007"}>>
    [] case \in {"f7:canonical", "f7:boundary"} -> <<"reject", {"L005"}>>
    [] case \in {"f8:canonical", "f8:boundary", "f8:held_out"} -> <<"reject", {"T001"}>>
    [] case \in {"f9:canonical", "f9:held_out"} -> <<"reject", {"R008"}>>
    [] case = "f10:canonical" -> <<"reject", {"D004"}>>
    [] case = "empty_completion" -> <<"quarantine", {"M005"}>>
    [] OTHER -> <<"allow", {}>>

\* INJECTORS and INJECTORS_V02; a case without a fault keeps its trajectory.
INJECTORS(case, t) ==
  CASE case = "f1:canonical" -> inject_f1_static_rollout(t, 0, 1)
    [] case = "f1:boundary" -> inject_f1_static_rollout(t, 0, 2)
    [] case = "f1:held_out" -> inject_f1_stale_sync(t)
    [] case = "f2:canonical" -> inject_f2_misbound_logprob(t, 1)
    [] case = "f2:boundary" -> inject_f2_misbound_logprob(t, 2)
    [] case = "f2:held_out" -> inject_f2_wrong_generation(t)
    [] case = "f3:canonical" -> inject_f3_retokenization(t, Gen(t).template)
    [] case = "f3:boundary" -> inject_f3_template_variant(t)
    [] case = "f3:held_out" -> inject_f3_retokenized_sequence(t)
    [] case = "f4:canonical" -> inject_f4_mask_shift(t, 1)
    [] case = "f4:boundary" -> inject_f4_mask_shift(t, 3)
    [] case = "f4:held_out" -> inject_f4_mask_shift(t, -1)
    [] OTHER -> t

INJECTORS_V02(case, t, eval_protocol) ==
  CASE case = "f5:canonical" -> inject_f5_split_leakage(t, {"held_out"})
    [] case = "f5:boundary" -> inject_f5_split_leakage(t, {"held_out", "calibration"})
    [] case = "f5:held_out" -> inject_f5_split_leakage(t, {"calibration"})
    [] case = "f6:canonical" -> inject_f6_evaluator_alias(t, eval_protocol, None)
    [] case = "f6:boundary" -> inject_f6_no_alias(t, eval_protocol)
    [] case = "f6:held_out" -> inject_f6_evaluator_alias(t, eval_protocol, "countdown-rule-v1-eval")
    [] case = "f7:canonical" -> inject_f7_event_reorder(t, Gen(t).version)
    [] case = "f7:boundary" -> inject_f7_event_reorder(t, 1)
    [] case = "f7:held_out" -> inject_f7_sync_reorder(t)
    [] case = "f8:canonical" -> inject_f8_artifact_mutation(t, "sequence")
    [] case = "f8:boundary" -> inject_f8_artifact_mutation(t, "loss_mask")
    [] case = "f8:held_out" -> inject_f8_artifact_mutation(t, "logprobs")
    [] case = "f9:canonical" -> inject_f9_reward_hacking(t, "fake-reward-v1")
    [] case = "f9:held_out" -> inject_f9_reward_hacking(t, "countdown-rule-v1")
    [] case = "f10:canonical" -> inject_f10_data_poisoning(t)
    [] OTHER -> t

----------------------------------------------------------------------------
(* Evidence and trajectories                                               *)

second_id == <<"gen", "second">>
NormalGen(case) == IF case = "normal_1" THEN second_id ELSE gen_id

generations ==
  gen_id :> generation(default_options, 10)
  @@ second_id :> [generation(default_options, 11) EXCEPT !.prompt_id = "countdown-0002"]

\* The events of a finished loop: the sync chain, its generations, a reward
\* for each and the first update input.
load_loop_evidence ==
  make_sync_chain(0) @@ generations
  @@ (reward_id :> reward(gen_id, 12)) @@ (<<"reward", "second">> :> reward(second_id, 13))
  @@ (<<"uinput">> :> [type |-> "update_input", seq |-> 20])

\* The logs of online_matrix and batch_online: a canary and the generations.
online_log == (canary_ref :> [type |-> "canary_passed", seq |-> 0]) @@ generations

\* Envelope, policy and split of generation id over the events ev.
trajectory_from_loop(ev, id, stored) ==
  [build_trajectory(default_options) EXCEPT
     !.events = ev, !.corrupt = stored, !.env.gen = id, !.env.contract.auth = id,
     !.manifest.tokenizer = ev[id].tokenizer, !.manifest.template = ev[id].template,
     !.split.prompts = {"countdown-0001", "countdown-0002"}]

Rewarded(t, id, rewarded, parent_seq) ==
  LET parent == Append(id, "parent")
  IN  [t EXCEPT !.env.stage = "pre_update", !.env.reward = id, !.env.parent = parent,
         !.events = id :> rewarded @@ parent :> validation_event("allow", parent_seq) @@ @]

\* The first reward of the generation in the evidence: copies come later and
\* have longer ids.
first_reward(ev, gen) ==
  CHOOSE id \in DOMAIN ev :
    /\ ev[id].type = "reward_finished" /\ ev[id].source = gen
    /\ \A other \in DOMAIN ev :
         ev[other].type = "reward_finished" /\ ev[other].source = gen => Len(id) <= Len(other)

pre_update_base_for(ev, gen, stored) ==
  LET id == first_reward(ev, gen)
  IN  Rewarded(trajectory_from_loop(ev, gen, stored), id, ev[id], ev[gen].seq + 1)

eval_protocol_sha(ev) ==
  LET Eval == {id \in DOMAIN ev : /\ ev[id].type = "reward_finished"
                                  /\ ev[id].verifier = "countdown-rule-v1-eval"}
  IN  IF Eval = {} THEN "countdown-eval-protocol-v1" ELSE ev[CHOOSE id \in Eval : TRUE].protocol

V02Base(case, ev, stored) ==
  CASE case \in {"f6:canonical", "f6:boundary", "f6:held_out", "f9:canonical", "f9:held_out"} ->
         pre_update_base_for(ev, gen_id, stored)
    [] OTHER -> trajectory_from_loop(ev, NormalGen(case), stored)

F8 == {"f8:canonical", "f8:boundary", "f8:held_out"}

\* Mutant: F8 alters the store of the evidence.
StoreAfterNoClone(case, faulted) == faulted.corrupt

\* F8 runs on a clone of the store.
StoreAfter(case, faulted) == IF case \in F8 THEN damaged ELSE faulted.corrupt

Result(case, c, stage) == validate_envelope(c, stage) @@ [case |-> case]

\* A re-encoded sequence needs the pre-update stage and an update input.
validate_with_stage(case, t) ==
  IF t.bogus_sequence = None THEN Result(case, t, "identity_pre_reward")
  ELSE Result(case, [t EXCEPT !.update = update_input(t, t.bogus_sequence, next_seq(t))],
              "full_pre_update")

----------------------------------------------------------------------------
(* The drivers                                                             *)

Evidence(d) == IF d \in {"day3", "v02", "freeze_v02"} THEN load_loop_evidence ELSE <<>>

MatrixInit ==
  /\ driver \in Drivers /\ alive = TRUE /\ events = Evidence(driver) /\ damaged = {}
  /\ done = {} /\ ran = 0 /\ deaths = 0 /\ last = None /\ writing = None /\ checked = None
  /\ frozen = [case \in Cases(driver) |-> [at |-> "absent", trajectory |-> None]]

Running(d, case) ==
  /\ driver = d /\ alive /\ writing = None /\ ran < Bound(d) /\ case \in Cases(d) \ done
  /\ ran' = ran + 1 /\ done' = done \cup {case}
  /\ UNCHANGED <<driver, alive, deaths, frozen, checked>>

Factory(case) ==
  build_trajectory(
    CASE case = "empty_completion" -> [default_options EXCEPT !.span = <<4, 4>>]
      [] case = "left_padding" -> [default_options EXCEPT !.pads = {<<0, 2>>}]
      [] case = "dual_source_diagnostic" -> [default_options EXCEPT !.diagnostic = TRUE]
      [] OTHER -> default_options)

\* matrix.py with --freeze, as scripts/run_fault_matrix.sh calls it.
run_fault_matrix(case) ==
  /\ Running("matrix", case)
  /\ LET faulted == INJECTORS(case, Factory(case))
     IN  /\ last' = validate_with_stage(case, faulted)
         /\ writing' = [case |-> case, trajectory |-> faulted, at |-> "absent"]
  /\ UNCHANGED <<events, damaged>>

\* F1-F4 copy the events.
run_day3_matrix(case) ==
  /\ Running("day3", case)
  /\ last' = validate_with_stage(case,
               IF case \in Boundaries THEN Factory(case)
               ELSE INJECTORS(case, trajectory_from_loop(events, NormalGen(case), damaged)))
  /\ UNCHANGED <<events, damaged, writing>>

\* An F7 case that is late to an update gets the loop's own update input.
run_v02_matrix(case) ==
  /\ Running("v02", case)
  /\ LET t == INJECTORS_V02(case, V02Base(case, events, damaged), eval_protocol_sha(load_loop_evidence))
         late == update_input(t, Gen(t).tokens, events[<<"uinput">>].seq)
     IN  /\ last' = Result(case, IF t.requires_update_input THEN [t EXCEPT !.update = late] ELSE t,
                           "full_pre_update")
         /\ events' = t.events /\ damaged' = StoreAfter(case, t)
  /\ UNCHANGED writing

freeze_v02_cases(case) ==
  /\ Running("freeze_v02", case)
  /\ LET t == INJECTORS_V02(case, V02Base(case, events, damaged), eval_protocol_sha(events))
     IN  /\ writing' = [case |-> case, trajectory |-> t, at |-> "absent"]
         /\ events' = t.events /\ damaged' = StoreAfter(case, t)
  /\ UNCHANGED last

\* The two matrices over live rollouts read the log again for every case.
OnlineFault(case, id, rewarded_at, parent_at) ==
  LET fresh == trajectory_from_loop(online_log, id, {})
      seq == Gen(fresh).seq
      t == IF case = "f6:canonical"
             THEN Rewarded(fresh, Append(id, "reward"), reward(id, seq + rewarded_at), seq + parent_at)
             ELSE fresh
      faulted == INJECTORS_V02(case, INJECTORS(case, t), "countdown-protocol")
  IN  IF case \in F1F4 \cup Normals THEN Result(case, faulted, "identity_pre_reward")
      ELSE IF case = "f7:canonical"
        THEN Result(case, [faulted EXCEPT !.update = update_input(faulted, Gen(faulted).tokens, seq + 100)],
                    "full_pre_update")
      ELSE Result(case, faulted, "full_pre_update")

online_matrix(case) ==
  /\ Running("online", case)
  /\ last' = OnlineFault(case, NormalGen(case), 1, 2)
  /\ UNCHANGED <<events, damaged, writing>>

batch_online(case) ==
  /\ Running("batch", case)
  /\ \E id \in DOMAIN generations : last' = OnlineFault(case, id, 2, 1)
  /\ UNCHANGED <<events, damaged, writing>>

----------------------------------------------------------------------------
(* Frozen cases                                                            *)

Writing(from, to) ==
  /\ alive /\ writing # None /\ writing.at = from
  /\ frozen' = [frozen EXCEPT ![writing.case] = [at |-> to, trajectory |-> writing.trajectory]]
  /\ writing' = IF to = "complete" THEN None ELSE [writing EXCEPT !.at = to]
  /\ UNCHANGED <<driver, alive, events, damaged, done, ran, deaths, last, checked>>

Exists(case) == frozen[case].at # "absent"

\* Mutant: an existing directory is written again.
write_inputs_overwrites == Writing("absent", "inputs")

\* write_case: the inputs, their hashes, then case.json, opened and written.
write_inputs == Writing("absent", "inputs") /\ ~Exists(writing.case)
write_sums == Writing("inputs", "sums")
open_spec == Writing("sums", "torn")
write_spec == Writing("torn", "complete")

\* No overwrite: the freezing command ends with the exception.
FrozenCaseExists ==
  /\ alive /\ writing # None /\ writing.at = "absent" /\ Exists(writing.case)
  /\ alive' = FALSE /\ writing' = None
  /\ UNCHANGED <<driver, events, damaged, done, ran, deaths, last, frozen, checked>>

Die ==
  /\ alive /\ deaths < MaxDeaths
  /\ alive' = FALSE /\ deaths' = deaths + 1 /\ writing' = None
  /\ UNCHANGED <<driver, events, damaged, done, ran, last, frozen, checked>>

\* The command is given again over the same evidence and the same freeze dir.
Rerun ==
  /\ ~alive /\ ran < Bound(driver)
  /\ alive' = TRUE /\ done' = {} /\ last' = None
  /\ events' = Evidence(driver) /\ UNCHANGED <<driver, damaged, ran, deaths, writing, frozen, checked>>

\* load_case: SHA256SUMS is not read, the store is filled from the inputs.
Replayed(t) ==
  IF t.bogus_sequence # None
    THEN [t EXCEPT !.update = update_input(t, t.bogus_sequence, Gen(t).seq + 1)]
  ELSE IF t.requires_update_input
    THEN [t EXCEPT !.update = update_input(t, Gen(t).tokens, Gen(t).seq + 100)]
  ELSE t

\* Mutant: registered prompt contents do not ask for the full stage.
needs_full_no_content(t) ==
  \/ t.env.stage = "pre_update" \/ t.bogus_sequence # None \/ t.split_registry # None
  \/ t.eval_protocol # None \/ t.verifiers # None \/ t.requires_update_input

needs_full(t) ==
  \/ t.env.stage = "pre_update" \/ t.bogus_sequence # None \/ t.split_registry # None
  \/ t.eval_protocol # None \/ t.verifiers # None \/ t.requires_update_input
  \/ DOMAIN t.split.content # {}

\* A directory without case.json is passed over; a torn one ends the check.
contract_check(case) ==
  /\ frozen[case].at \in {"torn", "complete"}
  /\ checked' = IF frozen[case].at = "torn" THEN [case |-> case, decision |-> "unreadable", codes |-> {}]
                ELSE LET t == frozen[case].trajectory
                     IN  Result(case, Replayed(t),
                                IF needs_full(t) THEN "full_pre_update" ELSE "identity_pre_reward")
  /\ UNCHANGED <<driver, alive, events, damaged, done, ran, deaths, last, writing, frozen>>

MatrixNext ==
  \/ \E case \in DOMAIN frozen :
       \/ run_fault_matrix(case) \/ run_day3_matrix(case) \/ run_v02_matrix(case)
       \/ freeze_v02_cases(case) \/ online_matrix(case) \/ batch_online(case)
       \/ contract_check(case)
  \/ write_inputs \/ write_sums \/ open_spec \/ write_spec \/ FrozenCaseExists
  \/ Die \/ Rerun

MatrixSpec == MatrixInit /\ [][MatrixNext]_matrix_vars

----------------------------------------------------------------------------
(* Properties                                                              *)

Meets(result) ==
  /\ result.decision = Expected(result.case)[1]
  /\ Expected(result.case)[2] \subseteq result.codes

\* The types of the drivers' state: a driver writes only a case it ran.
DriversTypeOK ==
  /\ driver \in Drivers /\ alive \in BOOLEAN /\ done \subseteq Cases(driver)
  /\ ran \in 0..Bound(driver) /\ deaths \in 0..MaxDeaths
  /\ writing # None => writing.case \in done
  /\ \A case \in DOMAIN frozen :
       frozen[case].at \in {"absent", "inputs", "sums", "torn", "complete"}

\* configs/faults: each case ends with its registered decision and codes in
\* every driver, whatever cases ran before over the same evidence and store.
ExpectedDecision == last # None => Meets(last)

\* contract_check.py: a frozen case that can be read replays to its registered
\* decision, whatever was in the evidence when it was frozen.  (Only case.json
\* may be unreadable; that the validator raises meets no registration.)
ReplayAgrees == checked # None /\ checked.decision # "unreadable" => Meets(checked)

\* frozen.py: test code never overwrites a case; what a case directory holds
\* stays, and a complete case stays complete, through deaths and reruns.
NoOverwrite ==
  [][\A case \in DOMAIN frozen :
       /\ Exists(case) => frozen'[case].trajectory = frozen[case].trajectory
       /\ frozen[case].at = "complete" => frozen'[case].at = "complete"]_matrix_vars
=============================================================================
