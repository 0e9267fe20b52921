# GRPO-Guard in TLA+

GRPO-Guard puts a guard between the rollouts of a GRPO trainer and its
optimizer: trajectories are recorded as sealed events and content-addressed
artifacts, validated, frozen into single-use handles, and only then turned into
an optimizer step, with a write-ahead log, checkpoints and an event log to
recover from. This directory holds TLA+ models of that machinery, the TLC runs
that check them and the TLAPS proofs about them. Paths below are relative to
the repository root; `$P` stands for `src/grpo_guard`.

## 1. Inventory

| component | code | state it keeps | operations |
|---|---|---|---|
| guarded optimizer step | `$P/adapters/guarded_update.py` | handles (`_consumed`), model parameters | `materialize`, `guarded_optimizer_step`, `GuardedUpdateAdapter.update` |
| nonce registry | same | SQLite table `consumed_nonce`; one-time import of the legacy JSONL file | `consume`, `is_consumed`, migration |
| update WAL | same | append-only JSONL file | `write`, `status`, `dangling` |
| checkpoint promotion | same | checkpoint directories | `atomic_checkpoint_promotion` |
| append log | `$P/store/append_log.py` | one file per event, edge lists, `lease.json` | `acquire_lease`, `append`, `append_provenance_edge`, `iterate` |
| artifact store | `$P/store/artifact_store.py` | blobs named by their hash | `put`, `get`, `verify` |
| reducers | `$P/store/reducer.py` | none (folds of event lists) | `reduce_sync`, `reduce_update` |
| trainer control plane | `$P/adapters/trl_control.py` | sequence counter | sync and commit events |
| rollout runtime | `$P/adapters/vllm_runtime.py` | load epoch, sequence counter | `emit_generation` |
| training loop and resume | `examples/countdown/rl_training_loop.py`, `$P/resume.py` | model, server weights, FIFO rollout buffer; all of the stores above | start, resume, sync, rollout, update, commit, finish a step |
| TRL mixin | `$P/adapters/guarded_grpo_trainer.py` | unconsumed rollout records, step capability | rollout seam, step seam, capability optimizer |
| validators | `$P/validators/` | none (a fold of rules over an envelope, its events and artifacts) | 38 rules, `validate_envelope`, `reconstruct_alignment` |
| inference server | `examples/countdown/closed_loop.py` (`start_server`, `stop_server`), `$P/canary.py` | a process group with a port, weights on the card, a calibrated canary | start, stop, push weights, reload and sketch, monitor, generate |
| fault injection and matrices | `$P/faults/`, `$P/testing.py`, `$P/matrix.py`, `$P/matrix_v02.py`, `examples/countdown/online_matrix.py`, `batch_online.py` | one evidence (events, blobs) shared by all cases of a driver | ten fault families, six drivers |
| frozen cases and contract checks | `$P/frozen.py`, `$P/contract_check.py` | a directory per case, written file by file | `write_case`, `load_case`, contract check |
| runtime attestation, tool environment | `$P/adapters/runtime_attest.py`, `$P/adapters/tool_env.py` | call budgets | `verify`, `run_turn` |
| run verification | `$P/verify.py` | none | comparison of stored events and artifacts |
| replay, reports, CLI, monitor | `$P/replay`, `$P/report.py`, `$P/cli.py`, `$P/monitor.py` ... | files | reading and formatting |

How they interact. The training loop owns one trainer process. It acquires the
lease of the append log, starts an inference server, pushes the weights to it
(sync events), compares a canary, rolls out batches, validates each trajectory
and appends everything to the log. `materialize` freezes a trajectory into a
handle; `guarded_optimizer_step` checks a list of handles, burns their nonces
in the registry shared by all trainer processes, writes the WAL, steps the
optimizer and calls back into the loop, which promotes a checkpoint and appends
`update_committed`. After a crash a new process reads the event log
(`analyze_training`), loads a checkpoint and continues.

What is hard here: processes that share the registry, the WAL and the log
without a common lock; a crash between any two of a dozen durable writes; a
step that is redone after it was half committed; half written files; single-use
resources that must not be used twice, nor be lost silently; ids that two
lives of a run share; an inference server that outlives the loop that started
it; fault cases that mutate evidence other cases read; 38 rules over
one context, any of which may raise.

What makes each component correct:

- guarded step: a nonce feeds at most one optimizer step, whoever races or
  retries; a step runs only on what was verified; the WAL names every step that
  may have changed parameters; COMMITTED means the whole sequence happened.
- training loop: finished steps form one lineage, and the recovery plan can be
  loaded; rollouts come from the policy they claim; the lag is bounded; a
  trainer that is restarted finishes.
- append log: an event, once appended, stays; a fenced writer writes nothing;
  one id has one content.
- artifact store: a digest names its bytes at every moment; putting bytes again
  succeeds.
- reducers: late and duplicate events never show in the result; what an older
  attempt may leave in that of a newer one is exactly known; terminal events of
  different types are refused.
- TRL mixin: as long as a window has records, what reaches the gradients was
  recorded in it, and no sequence twice; a row as generated is refused only if
  its sequence was used before or sampled twice.
- validators: what is allowed is aligned and on policy; an untouched trajectory
  is allowed; validation decides, and raises only for a mask nobody can decode.
- inference server: a generation comes from the weights it claims; the canary's
  tolerance is measured on the base model; load epochs in the records agree.
- faults and matrices: a case ends as its family registers it, whatever cases
  ran before over the same evidence.
- frozen cases: replaying a case gives the verdict it was frozen with; a case
  that exists is never written over.

## 2. Modules

| module | models | composes |
|---|---|---|
| `GuardedStep` | `guarded_update.py`: several workers, one registry, one WAL | implements `NonceLedger` |
| `TrainingLoop` | `rl_training_loop.py`, `resume.py`, `trl_control.py`, promotion | implements `PolicyLineage` |
| `EventLog` | `append_log.py` | |
| `ArtifactStore` | `artifact_store.py` | |
| `LifecycleReducer` | `reducer.py` and its event types | |
| `GuardedTrainer` | `guarded_grpo_trainer.py` inside TRL's loop | |
| `Alignment` | `validators/align.py`: masks rebuilt from spans | |
| `Validator` | `validators/rules.py`, `validator.py`, `context.py` | `Alignment` |
| `Fixture` | `testing.py`: the trajectory factory | `Validator` |
| `ValidationPipeline` | the two validations of a trajectory | `Fixture` |
| `Faults` | `faults/`: the families F1 to F10 | `Fixture` |
| `FaultMatrix` | `matrix*.py`, the two online drivers, `frozen.py`, `contract_check.py` | `Faults` |
| `InferenceServer` | `start_server`, `stop_server`, the canary, pushes and generations of the loop | |

`MC*` modules give the constants finite values. Eight modules hold proofs:
`GuardedStepProofs`, `TrainingLoopProofs`, `EventLogProofs`,
`ArtifactStoreProofs`, `LifecycleReducerProofs`, `GuardedTrainerProofs`,
`InferenceServerProofs`, and `ValidationProofs`, which speaks of the rules, the
pipeline and the fault drivers.

**GuardedStep.** A worker is a training process; its `pc` follows the phases of
`guarded_optimizer_step`, one action per registry transaction, WAL record,
optimizer step, promotion. `registry`, `wal`, `intact` (artifacts whose bytes
still match) and `ckpts` survive crashes; `handle`, `adapterSeen`, `params` die
with a worker. An input is a model value; a handle keeps the bindings its event
froze (group size, member order, parent model), whether it is consumed and
whether its reward tensor was swapped. The loss is abstract: a model is the set
of inputs it has absorbed. `applications` is a history variable. `NonceLedger`
is its abstract specification: burn once, spend once.

**TrainingLoop** models the loop, `resume.py` and the control plane. A policy is
the sequence of the deltas its steps added; a redone step may add another
delta, since it samples new rollouts. On disk are the three kinds of events that
can collide or are read back (`commits`, `syncs`, `tsteps`), the checkpoint
directories and the last WAL record of each update. A death inside an append may
leave a file that cannot be parsed (`torn`): `analyze_training` skips it, and
`next_lifecycle` raises on it before the next event. What is inside an append is
the subject of `EventLog`.
`PolicyLineage` is its abstract specification: finished steps extend one another.

**EventLog.** `append_log.py` has no lock, so an operation is a read of a file
followed by `write_text`, which truncates (`Torn`) and then fills it: `Acquire`,
`OpenLease`, `WriteLease`; `BeginAppend` (the lease check), `Exists`,
`OpenEvent`, `WriteEvent`; `BeginEdge`, `OpenEdges`, `WriteEdges`. An operation
that raises is one whose guard is false. `Crash` ends an operation anywhere.
`Wipe` is the fresh start of a training loop, which removes the directory.
Anything may overlap; the history variable `overlaps` records which kinds of
operations did (`acquire`: two acquisitions of a lease; `fence`: an acquisition
inside an append of the same lease; `append`: two appends of an event; `fresh`:
a fresh start beside others). Each property names the kinds it needs absent, and
without any one of them TLC finds it violated.

**ArtifactStore.** Names and inodes are apart: `blob` and `tmp` are what the two
names of a digest point to, `fd` what a process has open, `whole` what an inode
holds. `Open` truncates what is under the temporary name, `Write` fills what was
opened, `Replace` renames whatever is under the temporary name by then. Whether
puts overlapped (`raced`) and how many processes died inside one (`deaths`) is
history, and the properties say which of the two they survive.

**LifecycleReducer.** `reduce_sync` and `reduce_update` are one fold with two
tables; `Apply` is one turn of their loops, with the code's order of tests. A
state is a log and its fold. The reference definitions (`Timely`, `Effective`,
`StateFrom`, `TypesDiffer`) quantify over positions of the whole log and share
nothing with `Apply`. They name what the fold reads of older attempts: a state or
a value until the newest attempt shows its own. A terminal event is decided by its own type; which events carry an
observed value follows the producers in `trl_control.py`.

**GuardedTrainer.** TRL's part is external: `Generate` fills a window, slices are
served in any order and any number of iterations, `training_step` goes backward,
the optimizer steps every few slices. The guard's part is the code:
`_guard_rollouts`, `_guard_pre_update` (`RowsMatch`, `AdvantagesMatch`,
`Unconsumed`) and the step capability. Between window and guard a slice may get
any columns: other values, old logprobs or advantages left out or cut, one
advantage too many. That is what the guard exists for, and what `RowsMatch` and
`AdvantagesMatch` do not look at (`SpanMatches`: a span's length only, where none
was recorded) passes. A generation batch has old logprobs or none. A token
sequence is a model value, so hashing is the comparison of values.

**Alignment, Validator, Fixture.** A `ValidationContext` is a record. An
artifact reference stands for its content, so two references are equal when
their hashes are, and `corrupt` holds those whose blob is missing or altered. A
token sequence is its length with its prompt and completion; a mask its length,
the positions it selects, and whether its bytes are all 0 or 1. A rule is an
operator from a context to its verdict (allow, quarantine, reject or raise);
`validate_envelope` takes the rules of a stage, and the gravest verdict decides. `Fixture` builds an honest trajectory, with ids as sequences of
names because injectors derive the id of a changed event from the old one.

**ValidationPipeline.** The identity validation seals its decision as an event,
the pre-update envelope refers to that event, an update input may be attached,
and the full validation decides. `Fault` changes one field of the envelope, the
contract, an event, an artifact or a manifest, at any moment: before the first
validation or between the two.

**Faults, FaultMatrix.** An injector is an operator on trajectories; those that
work in place change what later cases see. A driver loads its evidence once and
runs any cases in any order; only F8 works on a clone of the store. Freezing a
case is four steps, in the order of `write_case`: the inputs, the checksums, the
opening of `case.json` and its writing, with `Die` between any two and `Rerun`
after; `contract_check` may read a case at any time and gives what `load_case`
and a replay give.

**InferenceServer.** Weights are numbered in the order the optimizer made them.
`port` is the server that listens, with the weights its engine holds and whether
this loop launched it; `proc` is the server this loop launched last, `stray`
one that no loop owns and that still loads. A loop that is killed leaves its
server; the next loop launches its own and talks to whichever holds the port.
The calibration sketches the base model over `Reloads` reloads and freezes the
largest drift as tolerance; a push may fail half way (`Mixed`); the monitor
sketches again after each sync; `emit_generation` records version and epoch.

## 3. Runs

| run | expects | properties | shows |
|---|---|---|---|
| `guarded_step` | pass | `AppliedAtMostOnce`, `ImplementsLedger` | two symmetric workers, overlapping batches in both orders, crashes and restarts anywhere: no nonce feeds two steps |
| `guarded_step_faults` | pass | `RecoveryFindsEveryStep`, `CommittedIsComplete`, `StepOnVerifiedBatch` | one worker; two inputs with one nonce, one handle twice in a batch, tampered rewards, corrupt artifacts, failing and torn log writes, an input that was not allowed: a step runs on a verified batch, and recovery finds it unless a torn record swallowed another |
| `training_loop` | pass | `StepInv`, `PlanIsLoadable`, `WalCommittedIsPromoted`, `RolloutFromCurrentPolicy`, `LagBounded`, `ImplementsLineage`, `CompletesUnlessWedged` | three steps, three deaths anywhere, restarts: one lineage, loadable plans, bounded lag, and the run ends unless it is wedged |
| `resume_wedge` | violation | `EventuallyFinished` | a death between the commit event and the end of its step cannot be resumed |
| `event_log` | pass | `SingleWriter`, `EdgesAgree`, `FencedWrites`, `NeverOverwritten`, `LeaseNotStolen` | three processes, two leases, operations interleaved file by file, deaths inside them, fresh starts: epochs are unique, the fence holds, events, edges and leases stay, unless operations of a named kind overlapped |
| `artifact_store` | pass | `PublishedIsWhole`, `PutNeverRaises`, `SettledIsReadable`, `EventuallyStored` | three processes and two deaths, puts in turn or at once |
| `reducers` | pass | `ReducesNewestAttempt`, `ConflictIsOfTypes`, `DecisionIsFinal` | every log of four events of two attempts, for either reducer: what the result takes from which attempt, and which logs are refused |
| `guarded_trainer` | pass | `TypeOK`, `NeverUsedTwice`, `NothingBlind`, `BatchRecorded`, `HonestAccepted` | windows of two rows, repeats included, in slices of one or two, served twice, any column changed, left out or cut |
| `validation` | pass | `AllowedIsAligned`, `AllowedIsOnPolicy`, `RaiseIsBadMask`, `HonestAllowed` | trajectories of six layouts under three protocols and both logprob sources, up to two fields changed before or between the validations |
| `unchecked_scorer` | violation | `AuthoritativeScorerMatches` | a contract that names another rollout's scoring event as authoritative is allowed |
| `fault_matrix` | pass | `ExpectedDecision`, `ReplayAgrees`, `NoOverwrite` | six drivers, any four cases in any order over shared evidence, freezing, a death, reruns, contract checks at any time |
| `inference_server` | pass | `GenerationUnderPolicy`, `CalibratedOnBase`, `LoadEpochAgrees` | runs of three steps, killed, failed, resumed, started afresh, over one port and one card |

Bounds.

- `GuardedStep`: two workers are enough for the races: every conflict is between
  two holders of one nonce, and the proofs cover any number. Two inputs give
  batches that overlap in both orders; four give aliasing between nonces and
  update ids. `Fragile`, `AdapterUsers`, `LogFaults` and `TornWrites` switch the
  fault actions on where a run is about them. The log is as long as the registry
  allows, and needs no bound: every PREPARED burns a nonce.
- `TrainingLoop`: three steps are what the lag needs to exceed its bound when it
  can; three deaths (`MaxCrashes`) allow a death while recovering from another.
  `TornWrites` lets a death tear an event file; `resume_wedge` has it off, so that
  its counterexample is the commit event alone.
- `EventLog`: two processes of one lease and one of another; one event with two
  contents, since events do not meet; one artifact with two roles, whose edge
  lists do; two epochs (`MaxEpoch`), so that a lease is fenced off once (three
  pass as well, at four times the cost).
- `ArtifactStore`: with three processes one can truncate what a second wrote
  while a third renames; two deaths (`MaxDeaths`); an inode for each descriptor
  and each name. Digests do not meet, so one is followed.
- `LifecycleReducer`: four events (`MaxLog`) give two decisions of one attempt
  with events of another between and after them; two attempts and two values are
  what the properties tell apart.
- `GuardedTrainer`: in a window of two, slices of one row meet the records of
  the other, and slices of two can exchange rows; three token sequences leave
  one that was never generated, two logprob tensors and two advantages leave a
  wrong one for each row; old logprobs may also be absent (`None`) or too short
  (`Short`). A window is served twice (`Iterations`), so a row meets its own
  consumed record, or none at all. `micro`, the slices since the last optimizer
  step, is bounded by `Accumulate`.
- `ValidationPipeline`: sequences of four tokens have every border an alignment
  can meet: no prompt and trailing padding, padding on both sides, an empty
  completion, padding inside a completion, a span that ends behind the sequence,
  none; strict, bounded with a correction and bounded without. Two changed fields
  (`MaxFaults`) let one fault hide another or fall on each side of the first
  validation.
- `FaultMatrix`: four cases (`MaxCases`) let a case that changes the shared
  events, one that attaches and one that rebuilds stand before a fourth; two
  frozen cases (`MaxFrozen`) and one death (`MaxDeaths`) let a rerun meet a
  whole case and a partial one.
- `InferenceServer`: three steps with a buffer between; `Reloads` is the code's
  five; a drift between different weights (`Shift`) is larger than one between
  sketches of the same (`Natural`), else a canary could not tell; four updates
  over all runs, two kills (`MaxKills`), so that two strays can meet.

Fairness. `TrainingLoop`: a live trainer keeps executing, and an operator
restarts a dead one (with `--resume` when a step is finished, from nothing
otherwise, as `analyze_training` advises). The number of deaths is bounded by
`MaxCrashes`; deaths that the code itself causes (an event id that collides, a
torn file)
are not counted. `ArtifactStore`: a live process runs `put` to its end (it waits
for nobody) and puts again; deaths are bounded by `MaxDeaths`. The other
modules claim no liveness: nothing in the code obliges a caller to call.

`reducers`, `validation`, `unchecked_scorer` and `fault_matrix` disable the
deadlock check: a log of the largest length, a trajectory that is decided and
drivers that have run their cases end the behaviour.

## 4. Proofs

`GuardedStepProofs` proves for all constants: `TypeCorrect`, `OwnershipHolds`,
`ExactlyOnce`, `RefinesLedger`, `StepsAreVerified`, `EveryStepIsFound`,
`CommittedStandsForAll`. Exactly-once is not inductive by itself: two calls
might hold one nonce. `Ownership` strengthens it: the nonces a call holds after
its `consume` transactions are burnt, unspent and held by no other call.
`StepsAreVerified` needs what each phase established about the handles of a call
and that no later action takes it away (`Phases`, one `PhaseInv` per value of
`pc`). The two theorems about the WAL share `WalInv`: a call under way has its
records in the log, in order (`CallLogged`), a nonce that was applied stands in
a PREPARED record (`AppliedIsPrepared`), and every COMMITTED closes its sequence
(`AllComplete`). A step lets the log grow or glues its last two lines
(`Grown`); the record recovery finds is the last of its update (`LastLine`, from
the well-foundedness of the naturals).

`TrainingLoopProofs` proves `LoopInvariant`, `RecoveryPlanIsLoadable`,
`RefinesLineage`, `RolloutsAreCurrent`, `LagIsBounded` and `CommittedIsPromoted`
from `RunInv`. Its core is `StepInv`: the place of the process in a step
determines how its model relates to the policy of the last finished step
(equal, one delta ahead, or ahead and committed), and the finished steps are an
initial segment. `ServerInv` adds what the server holds, `BufferedInv` the
versions of the buffered batches, `WalInv` which updates the WAL calls
committed. TLC checks `StepInv` first.

`EventLogProofs` proves `LogInvariant`, `SingleWriterHolds`, `WritesAreFenced`,
`WholeEventsStay` and `LeaseStays` for any number of processes, leases, events
and acquisitions, and for any interleaving: each conclusion is under the kinds
of overlap its property names. That no two processes hold one epoch is not
inductive: `MarkerCovers` adds that the readable marker is at least every epoch
held, `OneAcquirer` and `AcquiresNext` that an acquisition under way is alone
and above them all, `EpochsUnique` the claim itself; `FenceInv` says that the
check of the lease still holds when the event is written, `AppendInv` that the
event was absent when it is. `EdgesStayUnique` needs no absence of overlaps:
however edge lists are read and written over each other, each list written
agrees with itself.

`ArtifactStoreProofs`: `StoreInvariant` has types always, and the rest as long
as no puts overlapped, namely that at most one put is under way and where it has
got (`PutOnTrack`). From it follow `BlobsAreWhole`, `PutIsIdempotent` and
`ReturnedIsReadable`, for any number of processes and deaths.

`LifecycleReducerProofs` proves `ReducedTypes`, `DecisionsAreFinal`,
`NewestAttemptReduced` and `ConflictsAreOfTypes` for logs of any length.
The last two compare the fold with a reference that quantifies over positions.
An induction over logs would need an operator as parameter; here the log grows by
one event per step, so the comparison is an invariant (`Reference`): one more
event changes the reference at the new position only (`AppendedReference`), and
the tests of one turn of the loop place it there (`PlaceOfNext`), given what the
fold knows of the log so far (`Known`).

`ValidationProofs` rests on three facts about the rules alone, for every typed
context: `AllowMeansAligned`, `AllowMeansOnPolicy` (no rule of the full stage
fires, hence ...) and `RaisesForBadMask`. With the invariant that every context
the pipeline reaches is typed, whatever `Fault` changed, they give `AllowedAligned`,
`AllowedOnPolicy` and `RaisesOnlyForBadMask` for any layouts, protocols and
number of faults. `VerdictsTyped` is its type correctness. `HonestAreAllowed`
is the other direction: a trajectory no fault touched is allowed whatever its
logprob source, provided its layout is supported (the spans align, the
completion is not empty and has no padding inside) and its protocol satisfiable
(`Admits`: P005 and P006 pass), and otherwise gets the one verdict its layout
or protocol calls for. Every rule of either stage is evaluated for it. The
invariant `HonestInv` says what the rules read of such a trajectory: the events,
the masks and the contract are those of the factory, what the pipeline adds
(decision, parent, update input) is later and allowed, and the rest is still
there.

For the drivers the same module proves `DriversTyped` and `CasesAreFinal`:
`WriterInv` says that while a case is being written its directory is where the
writer left it, so that the next write is the first of its file. On it rest
`CasesEndAsRegistered` and `ReplaysAgree`, for any number of cases in any order,
deaths and reruns. `ExpectedDecision` is not inductive by itself: injectors add
events to the evidence the next case starts from, F9 changes its reward and F10
its prompt. `CasesInv` adds what survives that:

- the store that outlives a case is undamaged, as F8 mutates a clone;
- the evidence of the `v02` drivers is still a `Loop`: both generations and the
  canary as loaded up to prompt tokens, the first reward that of the first
  generation, under its own protocol or F9's, and every other reward of that
  generation a copy, which stands after it; `day3` leaves its evidence alone;
- what is being written and what was frozen replays as registered
  (`FrozenReplay`), since the contract check may read a case long after the
  evidence moved on.

Below that stands one lemma for each way an injector works: which rules read what
it changed, that these give the registered code, and that every other rule of the
stage gives what it gave before.

`GuardedTrainerProofs` proves `TrainerTyped`, `RowsUsedOnce`, `RecordsLast`,
`SlicesRecorded` and `HonestNeverRefused` for windows of any size, repeats
included, any slicing, number of iterations and columns. That no sequence is
used twice is not inductive by itself: one used once must have lost its record.
`Records` says that every record is a row of the window as generated; `Spent`
that, while there were records, a sequence is recorded, in the slice at work or
used, no two of the three, and used once; `Kept` that none of the window is lost. `HonestNeverRefused` needs, of a slice as generated
whose sequences occur once and are unused, that there are records enough for all
its rows (`RoomForAll`) and that each takes its own (`HonestPasses`);
`SlicesRecorded` that fewer advantages than rows inject into the records'
(`FewerTakeTheirs`).

`InferenceServerProofs` proves `ServerInvariant`, `GenerationsAreUnderPolicy`,
`LoadEpochsAgree`, and `ToleranceIsNatural` for behaviours without a kill.
`Ownership` is the step that matters: while a run talks to a server, the port can
only become free for good, so no stray server can take over between a push and
a generation. `Pushed` and `Synced` say what a completed push leaves, `BaseOnly`
that a calibration without strays sees only the base model.

Assumptions of the modules (`ASSUME`) only give constants their types and keep
`None`, `Torn` and the like apart from values (`NoneIsNoEvidence` does so for
everything that the drivers' evidence may hold). A type invariant that is a theorem
is not run as well, except that of `GuardedTrainer`, which bounds the records.

Only model-checked: liveness (out of the prover's reach); what overlapping puts
end with. Every other invariant that a passing run checks is stated by a theorem.

## 5. Known deviations

Two runs end in a counterexample and are findings: `resume_wedge` and
`unchecked_scorer`. The models behave as the code does in these places too; where
a property would fail, it is stated with the exception. Paths `rules.py`,
`guarded_update.py` and so on are those of the inventory.

Step, loop and stores:

- A WAL line torn by a death is glued to the next record, and both are lost: a
  PREPARED that recovery needs may be hidden (`guarded_update.py:269`). Hence
  `RecordLost` in `RecoveryFindsEveryStep`.
- Two overlapping acquisitions read one marker and take the same epoch
  (`append_log.py:53`). `SingleWriter`, `FencedWrites`, `NeverOverwritten` and
  `LeaseNotStolen` name the kinds of overlap that break them.
- The reducers carry an older attempt's state and value into a newer one until
  that shows its own, and `canary_mismatch` shows none (`reducer.py:82-99`): attempt
  2 of `canary_passed` of attempt 1, `canary_mismatch` of attempt 2 is reported as
  CANARY_PASSED. A late superseded event of an old attempt replaces the state of
  the new one (`reducer.py:59`), although the comment below it says that a late
  callback can never advance state. `terminal` is never reset. All three are in
  `ReducesNewestAttempt`.
- The reducers compare the types of two terminal events, not their payloads
  (`reducer.py:69`): of two `update_committed` of one attempt with different
  versions the first is reported, where `reducer.py:23` and the design manual
  (`GRPO-Guard_详细项目设计与旧项目迁移手册.md:611`) let two different committed
  payloads invalidate the run. Contradictory terminal events of an older attempt
  that come late are ignored. `ConflictIsOfTypes` says exactly what is refused.
- `guarded_optimizer_step` burns nonces before it checks group size, membership
  and parent, although its docstring puts every check first
  (`guarded_update.py:513-589`): a call refused there has lost its nonces.
- A redone step promotes its checkpoint before its commit event is refused
  (`rl_training_loop.py:471`), so the first try's event names weights that are
  gone; and promotion over an existing directory removes it first
  (`guarded_update.py:664`), so it can be found half removed or missing.
- On resume the load epoch starts again at 1 while `runtime_loaded` carries the
  version plus one, and the resumed run's first `canary_passed` is logged without
  a measurement. That sync is the exception in `LoadEpochAgrees`, which
  therefore describes this divergence and does not catch it. When the monitor finds a drift, it logs `canary_mismatch` and
  then `canary_passed` for the same sync (`rl_training_loop.py:522`), a sequence
  `reduce_sync` refuses; nothing in the loop reduces it.
- `next_lifecycle` reads every event file (`rl_training_loop.py:152`): one file
  torn by a death stops every later event, while `analyze_training` skips it and
  reports the run as resumable: the second state in `Wedged`. `write_recovery_plan`, which only the CLI calls,
  replaces the committed hash by its argument, `None` by default (`resume.py:94`).
- `N_STEPS` is assigned in `main` only when `--steps` is given
  (`rl_training_loop.py:106`), so without the option its first use at line 397
  raises `UnboundLocalError`; the models run with the option.
- `append` checks for the event and writes it later (`append_log.py:97-104`): of
  two overlapping appends the second replaces the first.
- A death inside `_write_lease` leaves a marker nobody can read or acquire again
  (`append_log.py:75`); an event torn that way stays torn. A fresh start beside
  a process of the old run begins again at epoch 1, and the old process passes
  the fence (`rl_training_loop.py:133`).
- Overlapping puts share `<digest>.tmp` (`artifact_store.py:42`): a put can
  raise although the bytes are stored, and a death after truncating leaves a cut
  blob for good. `SettledIsReadable` and `EventuallyStored` say how far this goes.

TRL mixin (`guarded_grpo_trainer.py`):

- Without records nothing is compared (line 352). That is so in every iteration
  over a window whose sequences were all used, so with `num_iterations` above 1
  the second pass over a window goes unverified. `NothingBlind` says that it is
  so in no other case; `NeverUsedTwice` and `BatchRecorded` hold until then.
- Records are kept by sequence hash (line 378). If a sequence was sampled twice
  in a window, as in a group of GRPO, its second row is refused as generated
  (388-391), and consuming the first drops the records of both. `HonestAccepted`
  names this, and a sequence a changed slice or an earlier iteration has used.
- Old logprobs are not compared when the slice has none (394), and only by
  length when none were recorded (401-407). Advantages are not compared when
  the slice has none; fewer of them than rows pass; and they are compared as a
  multiset, so two rows of a slice can exchange them (408-423). `BatchRecorded`
  says what is left.

Validators:

- `l002` asks of an authoritative scorer only that it is a scoring event
  (`rules.py:383`); checkpoint and tokens are compared for the scorer the
  envelope names. Another rollout's scoring event is allowed (`unchecked_scorer`),
  and so is every contract that names an existing scoring event when the
  generation event is missing.
- `mask_from_artifact_bytes` raises `AlignmentError`, which M001 to M004 do not
  catch (`rules.py:305`), so validation ends in an exception where
  `tests/property/test_chaos.py:1` says that it never crashes; the check for it
  at line 284 is never reached. `RaiseIsBadMask` says that nothing else raises.
- P003 and P007 ask of the generation's sync that it succeeded and came first
  (`rules.py:95-174`), not which policy it loaded. `AllowedIsOnPolicy` is stated
  accordingly.
- T001 does not look at the scorer's logprobs, and L004 swallows a hash mismatch.
  P009's docstring leaves lag and correction of the contract to P005 and P006,
  which read the protocol configuration instead.
- An empty prompt is allowed with a loss mask one position short, as the first
  completion token has no prediction. `AllowedIsAligned` is stated accordingly.
- A `pre_reward` envelope passes the full stage without reward and parent, and
  R005 does not ask whether the parent decided on this generation.

Faults and frozen cases:

- F9's registry refuses the honest reward as well; F9 and F10 change shared
  evidence in place, where a comment in `day3.py:167` promises a fresh
  trajectory. Each family still ends as registered, in any order
  (`ExpectedDecision`).
- A death inside `write_case` leaves a partial case, which readers skip and which
  makes freezing again fail for good; a torn `case.json` ends the contract
  check, the one case `ReplayAgrees` exempts; the checksums are written and
  never read.
- `matrix --guard-mode bounded_off_policy` refuses every trajectory (P009).

Inference server and the older loops:

- A killed loop leaves its server, which answers the next run's first sketch
  (`closed_loop.py:90`). `CalibratedOnBase` therefore speaks of behaviours
  without a kill. The first `start_server` stands before the `try`, so a server
  that does not become healthy in time is never stopped.
- `stop_server` ends every process whose command line matches the engine's name,
  not only its own as the comment at `closed_loop.py:129` says, and uses the port
  of `closed_loop` whatever port the caller was given. Its pidfile is checked and
  then used (`closed_loop.py:323-332`), with a directory removed in between.
- `closed_loop.py:378,496` and `multi_step_loop.py:149,302` call
  `control.sync_chain`, which `TrlControlAdapter` does not have, so both programs
  end at their first sync; they create a `GuardedUpdateAdapter` and never call it.

## 6. Not modelled

- The one-time import of the legacy registry, and `resume.py`'s plan beyond what
  the loop uses.
- In the TRL mixin the fault hook and the arm with the guard off (they exist to
  measure), and the shape checks of a malformed row, which raise and change
  nothing.
- The removal of the artifact store by a fresh start: the store is then new.
- `closed_loop.py` and `multi_step_loop.py` beyond the server they share with the
  training loop: they end at their first sync. `batch_online_256.py` and
  `batch_online_512.py` are copies of `batch_online.py`.
- `verify.py`, `smoke.py`, replay and gradient probes, reports, monitor, CLI: they
  read and format finished data and keep no state that a later step depends on.
- `tool_env.py` and `runtime_attest.py`: a budget counter, and one probe compared
  with a manifest.
- Loss, reward and gradient numerics, canary sketches: floating point. A sketch
  is modelled by the drift it shows.
- Hashing, schemas and canonical JSON: data classes; hashes are equality here.
  The parent manifest of a step, a hash over the first and last bytes of every
  parameter (`guarded_update.py:306-334`), is taken to tell models apart.
- The store that the contract check fills from a frozen case, a directory
  `store` inside the case: nothing reads it again but the next check.

## 7. Plan

Done, in the order of importance: the guarded step, the training loop, the
stores, the reducers, the TRL mixin; then validators and alignment, the
validation pipeline, faults and frozen cases, the inference server; and the
theorems named above. Left:

1. Theorem: that `EventLog` implements an abstract write-once map.
2. `NonceMigration`: two processes open a legacy registry and both import it.
3. The loop's sync events fed to `LifecycleReducer`.
4. `ToolEnv` (call budget, turns) and `Verify` as reference integrity of a
   finished run, which composes `EventLog` and `ArtifactStore`.
