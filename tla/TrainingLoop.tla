---------------------------- MODULE TrainingLoop ----------------------------
(***************************************************************************)
(* examples/countdown/rl_training_loop.py with resume.py and the           *)
(* trl_control adapter: one trainer process at a time, which may die at    *)
(* any point and is started again with --resume.                           *)
(*                                                                         *)
(* On disk: the event log, the checkpoint directories ckpt_v<k>, and the   *)
(* update WAL.  In memory: the model, the inference server's weights and   *)
(* the FIFO rollout buffer.  The inside of guarded_optimizer_step (handles *)
(* and nonces) is GuardedStep; here it is the loop's WAL, promotion and    *)
(* commit steps that matter.                                               *)
(***************************************************************************)
EXTENDS Naturals, Sequences

CONSTANTS
  N,          \* N_STEPS
  Delta,      \* what one optimizer step can add to the weights; a redo of the
              \* step samples new rollouts and may add something else
  NoEvent,    \* the event log has no file of that id
  Absent, Partial,  \* a checkpoint directory missing, or half removed
  TornWrites, \* a death inside append leaves a file nobody can parse
  MaxCrashes  \* bound: deaths of the process by crash or runtime error

ASSUME LoopConstants ==
  /\ N \in Nat \ {0}
  /\ TornWrites \in BOOLEAN
  /\ MaxCrashes \in Nat
  /\ NoEvent \notin Seq(Delta)
  /\ Absent \notin Seq(Delta)
  /\ Partial \notin Seq(Delta)
  /\ Absent # Partial

Step == 1..N
Model == Seq(Delta)   \* the deltas of versions 1, 2, ... in order

VARIABLES
  \* on disk
  commits,   \* commits[k]: checkpoint named by upd-commit-update-<k>, or NoEvent
  syncs,     \* syncs[k]: event types recorded under sync-run-<k>
  tsteps,    \* tsteps[k]: model whose training_step_finished is logged, or NoEvent
  ckpt,      \* ckpt[k]: content of directory ckpt_v<k>
  wal,       \* wal[k]: last WAL status of update-<k>
  torn,      \* some event file is cut off
  \* in the process
  pc,
  k,         \* policy version the loop works on
  resumed,   \* TRUE until the sync that follows a resume is over
  model,
  server,    \* weights the inference server answers with
  buffer,    \* data versions of the buffered rollout batches, oldest first
  consumed,  \* data version of the batch this step trains on
  \* bound
  crashes

disk == <<commits, syncs, tsteps, ckpt, wal, torn>>
memory == <<k, resumed, model, server, buffer, consumed>>
vars == <<commits, syncs, tsteps, ckpt, wal, torn, pc, k, resumed, model, server,
          buffer, consumed, crashes>>

SyncTypes == {"sync_requested", "sync_started", "runtime_loaded", "sync_failed",
              "canary_mismatch", "canary_passed"}

Finished == {j \in Step : tsteps[j] # NoEvent}

\* Mutant: the plan takes the first logged step.
IsFirstStep(j) == j \in Finished /\ \A i \in Finished : j <= i

\* analyze_training: plan.last_step, the largest logged step.
IsLastStep(j) == j \in Finished /\ \A i \in Finished : i <= j

----------------------------------------------------------------------------
Init ==
  /\ commits = [j \in Step |-> NoEvent]
  /\ syncs = [j \in 0..N |-> {}]
  /\ tsteps = [j \in Step |-> NoEvent]
  /\ ckpt = [j \in Step |-> Absent]
  /\ wal = [j \in Step |-> "none"]
  /\ torn = FALSE
  /\ pc = "down" /\ k = 0 /\ resumed = FALSE
  /\ model = <<>> /\ server = <<>> /\ buffer = <<>> /\ consumed = 0
  /\ crashes = 0

\* The exception or the crash ends the process, and stop_server the server.
Down ==
  /\ pc' = "down" /\ k' = 0 /\ resumed' = FALSE
  /\ model' = <<>> /\ server' = <<>> /\ buffer' = <<>> /\ consumed' = 0

\* The loop over steps goes on, or is over and the run ends.
NextStep ==
  \/ k < N /\ k' = k + 1 /\ pc' = "rollout"
  \/ k = N /\ pc' = "finished" /\ UNCHANGED k

\* A start without --resume, which an operator falls back to when the plan is
\* not ok: the event log is removed, the checkpoints and the WAL are not.
StartFresh ==
  /\ pc = "down"
  /\ Finished = {}
  /\ commits' = [j \in Step |-> NoEvent]
  /\ syncs' = [j \in 0..N |-> {}]
  /\ torn' = FALSE
  /\ pc' = "sync_requested"
  /\ UNCHANGED <<tsteps, ckpt, wal, k, resumed, model, server, buffer, consumed, crashes>>

\* Mutant: the checkpoint is not loaded into the model.
ResumeFromBase ==
  \E last \in Finished :
    /\ pc = "down"
    /\ IsLastStep(last)
    /\ k' = last
    /\ resumed' = TRUE
    /\ pc' = "sync_requested"
    /\ UNCHANGED <<disk, model, server, buffer, consumed, crashes>>

\* Mutant: the sync of a resume uses the version-keyed default sync_id.
ResumeOldSyncId ==
  \E last \in Finished :
    /\ pc = "down"
    /\ IsLastStep(last)
    /\ model' = ckpt[last]
    /\ k' = last
    /\ pc' = "sync_requested"
    /\ UNCHANGED <<disk, resumed, server, buffer, consumed, crashes>>

\* A start with --resume: load ckpt_v<last_step>, sync under a fresh sync_id.
\* A missing or half removed directory has no manifest to read: it raises.
Resume ==
  \E last \in Finished :
    /\ pc = "down"
    /\ IsLastStep(last)
    /\ ckpt[last] \notin {Absent, Partial}
    /\ model' = ckpt[last]
    /\ k' = last
    /\ resumed' = TRUE
    /\ pc' = "sync_requested"
    /\ UNCHANGED <<disk, server, buffer, consumed, crashes>>

----------------------------------------------------------------------------
(* do_sync and the canary.  The log is keyed by event id, and a second     *)
(* event of one id has another payload (run_id, time), so its append       *)
(* raises EventAlreadyAppended and the process ends.  next_lifecycle parses *)
(* every file before each event: with one cut off, the first sync raises.  *)

\* A resume's own sync_id is new; sync-run-<k> may hold the type already.
AppendSync(label, type, next) ==
  /\ pc = label
  /\ \/ /\ ~torn /\ resumed
        /\ pc' = next
        /\ UNCHANGED <<disk, memory, crashes>>
     \/ /\ ~torn /\ ~resumed /\ type \notin syncs[k]
        /\ syncs' = [syncs EXCEPT ![k] = @ \cup {type}]
        /\ pc' = next
        /\ UNCHANGED <<commits, tsteps, ckpt, wal, torn, memory, crashes>>
     \/ /\ torn \/ (~resumed /\ type \in syncs[k])
        /\ Down
        /\ UNCHANGED <<disk, crashes>>

SyncRequested == AppendSync("sync_requested", "sync_requested", "sync_started")
SyncStarted == AppendSync("sync_started", "sync_started", "push")

\* Mutant: runtime_loaded is claimed without the weight calls.
PushNothing ==
  /\ pc = "push"
  /\ pc' = "runtime_loaded"
  /\ UNCHANGED <<disk, memory, crashes>>

\* Every update_named_param call succeeds.
PushWeights ==
  /\ pc = "push"
  /\ server' = model
  /\ pc' = "runtime_loaded"
  /\ UNCHANGED <<disk, k, resumed, model, buffer, consumed, crashes>>

RuntimeLoaded == AppendSync("runtime_loaded", "runtime_loaded", "canary")

\* The drift monitor runs after an update of this process only.  A mismatch
\* is logged, the baseline recalibrated, and canary_passed logged after it.
CanaryMismatch ==
  ~resumed /\ k > 0 /\ AppendSync("canary", "canary_mismatch", "canary_passed")

CanaryAgrees ==
  /\ pc = "canary"
  /\ pc' = "canary_passed"
  /\ UNCHANGED <<disk, memory, crashes>>

CanaryPassed ==
  AppendSync("canary_passed", "canary_passed",
             IF resumed \/ k = 0 THEN "warmup" ELSE "tstep")

\* The warm-up batch of a new process, then step k+1 if there is one.
WarmUp ==
  /\ pc = "warmup"
  /\ buffer' = <<k>>
  /\ resumed' = FALSE
  /\ NextStep
  /\ UNCHANGED <<disk, model, server, consumed, crashes>>

----------------------------------------------------------------------------
(* One training step.                                                      *)

Rollout ==
  /\ pc = "rollout"
  /\ buffer' = Append(buffer, k - 1)
  /\ pc' = "consume"
  /\ UNCHANGED <<disk, k, resumed, model, server, consumed, crashes>>

\* Mutant: the oldest batch is trained on and stays in the buffer.
ConsumeKeeping ==
  /\ pc = "consume"
  /\ consumed' = Head(buffer)
  /\ pc' = "prepare"
  /\ UNCHANGED <<disk, k, resumed, model, server, buffer, crashes>>

\* Pop the oldest batch; pre-update validation admits it within the lag bound.
Consume ==
  /\ pc = "consume"
  /\ consumed' = Head(buffer)
  /\ buffer' = Tail(buffer)
  /\ pc' = "prepare"
  /\ UNCHANGED <<disk, k, resumed, model, server, crashes>>

LogStatus(label, status, next) ==
  /\ pc = label
  /\ wal' = [wal EXCEPT ![k] = status]
  /\ pc' = next
  /\ UNCHANGED <<commits, syncs, tsteps, ckpt, torn, memory, crashes>>

WalPrepared == LogStatus("prepare", "PREPARED", "step")

OptimizerStep ==
  /\ pc = "step"
  /\ \E d \in Delta : model' = Append(model, d)
  /\ pc' = "applied"
  /\ UNCHANGED <<disk, k, resumed, server, buffer, consumed, crashes>>

WalApplied == LogStatus("applied", "APPLIED", "promote")

SetCkpt(c, next) ==
  /\ ckpt' = [ckpt EXCEPT ![k] = c]
  /\ pc' = next
  /\ UNCHANGED <<commits, syncs, tsteps, wal, torn, memory, crashes>>

\* atomic_checkpoint_promotion of the complete tmp directory: rmtree of an
\* existing final directory, file by file, then os.replace.
RemoveOld ==
  \/ pc = "promote" /\ ckpt[k] # Absent /\ SetCkpt(Partial, "removing")
  \/ pc = "removing" /\ SetCkpt(Absent, "promote")

Promote == pc = "promote" /\ ckpt[k] = Absent /\ SetCkpt(model, "commit")

\* Mutant: an event of that id counts as appended, whatever it says.
AppendCommitAnyway ==
  /\ pc = "commit"
  /\ commits' = IF commits[k] = NoEvent THEN [commits EXCEPT ![k] = model] ELSE commits
  /\ pc' = "checkpointed"
  /\ UNCHANGED <<syncs, tsteps, ckpt, wal, torn, memory, crashes>>

\* upd-commit-update-<k> carries no run id.  A collision raises out of
\* commit_fn: ABORTED, and the process ends.
AppendCommit ==
  /\ pc = "commit"
  /\ \/ /\ commits[k] = NoEvent
        /\ commits' = [commits EXCEPT ![k] = model]
        /\ pc' = "checkpointed"
        /\ UNCHANGED <<wal, memory>>
     \/ /\ commits[k] # NoEvent
        /\ wal' = [wal EXCEPT ![k] = "ABORTED"]
        /\ Down
        /\ UNCHANGED commits
  /\ UNCHANGED <<syncs, tsteps, ckpt, torn, crashes>>

WalCheckpointed == LogStatus("checkpointed", "CHECKPOINTED", "committed")
WalCommitted == LogStatus("committed", "COMMITTED", "sync_requested")

\* tstep-<run>-<k> names the run: no collision.
FinishStep ==
  /\ pc = "tstep"
  /\ tsteps' = [tsteps EXCEPT ![k] = model]
  /\ NextStep
  /\ UNCHANGED <<commits, syncs, ckpt, wal, torn, resumed, model, server, buffer, consumed,
                 crashes>>

----------------------------------------------------------------------------
InTry == {"step", "applied", "promote", "removing", "commit", "checkpointed", "committed"}

\* Where events are appended.
Appending == {"sync_requested", "sync_started", "push", "runtime_loaded", "canary",
              "canary_passed", "warmup", "rollout", "consume", "commit", "tstep"}

\* Out of memory, a lost server, a failed validation or a killed process.
\* append truncates and then fills a file: a death between them leaves it torn.
Crash ==
  /\ pc \notin {"down", "finished"}
  /\ crashes < MaxCrashes
  /\ crashes' = crashes + 1
  /\ \/ UNCHANGED wal
     \/ pc \in InTry /\ wal' = [wal EXCEPT ![k] = "ABORTED"]
  /\ \/ UNCHANGED torn
     \/ TornWrites /\ pc \in Appending /\ torn' = TRUE
  /\ Down
  /\ UNCHANGED <<commits, syncs, tsteps, ckpt>>

\* A weight call fails half way: sync_failed is logged and the error raised.
PushFails ==
  /\ pc = "push"
  /\ crashes < MaxCrashes
  /\ crashes' = crashes + 1
  /\ syncs' = IF resumed THEN syncs ELSE [syncs EXCEPT ![k] = @ \cup {"sync_failed"}]
  /\ Down
  /\ UNCHANGED <<commits, tsteps, ckpt, wal, torn>>

Trainer ==
  \/ SyncRequested \/ SyncStarted \/ PushWeights \/ RuntimeLoaded
  \/ CanaryMismatch \/ CanaryAgrees \/ CanaryPassed \/ WarmUp
  \/ Rollout \/ Consume \/ WalPrepared \/ OptimizerStep \/ WalApplied
  \/ RemoveOld \/ Promote \/ AppendCommit \/ WalCheckpointed \/ WalCommitted
  \/ FinishStep

Done == pc = "finished" /\ UNCHANGED vars

Next ==
  \/ Trainer \/ Done
  \/ StartFresh \/ Resume \/ PushFails \/ Crash

\* The operator restarts a dead trainer, and a live one keeps executing.
Fairness == WF_vars(Trainer) /\ WF_vars(StartFresh \/ Resume)

Spec == Init /\ [][Next]_vars
FairSpec == Spec /\ Fairness

----------------------------------------------------------------------------
(* Properties                                                              *)

SyncPCs == {"sync_requested", "sync_started", "push", "runtime_loaded",
            "canary", "canary_passed"}
BeforeStep == {"rollout", "consume", "prepare", "step"}
AfterStep == {"applied", "promote", "removing", "commit"}
AfterCommit == {"checkpointed", "committed", "tstep"}
PCs == {"down", "warmup", "finished"} \cup SyncPCs \cup BeforeStep
         \cup AfterStep \cup AfterCommit

\* Types of the log, the checkpoints and the process state.
TypeOK ==
  /\ commits \in [Step -> Model \cup {NoEvent}]
  /\ syncs \in [0..N -> SUBSET SyncTypes]
  /\ tsteps \in [Step -> Model \cup {NoEvent}]
  /\ ckpt \in [Step -> Model \cup {Absent, Partial}]
  /\ wal \in [Step -> {"none", "PREPARED", "APPLIED", "CHECKPOINTED",
                       "COMMITTED", "ABORTED"}]
  /\ torn \in BOOLEAN
  /\ pc \in PCs
  /\ k \in 0..N
  /\ resumed \in BOOLEAN
  /\ model \in Model /\ server \in Model
  /\ buffer \in Seq(0..N)
  /\ consumed \in 0..N
  /\ crashes \in 0..MaxCrashes

\* What a recovery plan relies on: for every step logged as finished, the
\* checkpoint directory and the update_committed event hold the policy that
\* step produced -- whatever crashes, redone steps and half removed
\* directories came since.
PlanIsLoadable ==
  \A j \in Finished : ckpt[j] = tsteps[j] /\ commits[j] = tsteps[j]

\* UpdateWal: COMMITTED follows the promotion and the commit event.  As long as
\* it is the last record of an update, the checkpoint is whole, and an
\* update_committed event of that update names the same weights.
WalCommittedIsPromoted ==
  \A j \in Step : wal[j] = "COMMITTED" =>
    /\ ckpt[j] \notin {Absent, Partial}
    /\ commits[j] \in {ckpt[j], NoEvent}

\* Every rollout is answered by the weights the trainer holds, also in the
\* first steps after a resume, and those are the policy k-1 its generation
\* events claim.
RolloutFromCurrentPolicy ==
  pc \in {"warmup", "rollout"} =>
    server = model /\ Len(model) = (IF pc = "warmup" THEN k ELSE k - 1)

\* "bounded off-policy, lag=1": a consumed batch is at most one policy behind
\* the model, in every step of every life of the trainer.
LagBounded ==
  pc = "prepare" => consumed <= k - 1 /\ k - 1 <= consumed + 1

\* The policy of the last finished step.
LastPolicy ==
  IF Finished = {} THEN <<>> ELSE tsteps[CHOOSE j \in Finished : IsLastStep(j)]

\* Finished steps form one lineage of policies, one delta per step; crashes
\* and resumes neither lose, revert nor repeat one.
Lineage == INSTANCE PolicyLineage WITH lineage <- LastPolicy
ImplementsLineage == Lineage!LineageSpec

\* A crash after the commit event of step k and before its
\* training_step_finished: every resume redoes step k and collides with
\* upd-commit-update-<k>.  Or a death inside an append once a step is finished:
\* every resume meets the torn file, which analyze_training skips.
Wedged ==
  pc = "down" /\ \/ \E j \in 1..(N - 1) : IsLastStep(j) /\ commits[j + 1] # NoEvent
                 \/ torn /\ Finished # {}

\* An operator who keeps restarting a trainer that dies finitely often sees
\* the run end, or finds it in one of the two states resuming cannot leave.
CompletesUnlessWedged == <>(pc = "finished" \/ Wedged)

\* resume.py: "Training itself resumes by loading that checkpoint and
\* continuing the loop."
EventuallyFinished == <>(pc = "finished")

\* Why all of this holds: where the process is in a step determines how its
\* model relates to the last finished step.
FinishedIsPrefix ==
  \A i, j \in Step : j \in Finished /\ i <= j => i \in Finished

AtRest == model = LastPolicy /\ (IF k = 0 THEN Finished = {} ELSE IsLastStep(k))
InStep == k \in Step /\ k \notin Finished /\ (IF k = 1 THEN Finished = {} ELSE IsLastStep(k - 1))
Stepped == InStep /\ \E d \in Delta : model = Append(LastPolicy, d)
Committed == Stepped /\ ckpt[k] = model /\ commits[k] = model

FirstSync == resumed \/ k = 0

StepInv ==
  /\ FinishedIsPrefix
  /\ pc = "down" => model = <<>> /\ k = 0 /\ ~resumed
  /\ pc \in SyncPCs => IF FirstSync THEN AtRest ELSE Committed
  /\ pc = "warmup" => AtRest /\ FirstSync
  /\ pc \in BeforeStep => InStep /\ model = LastPolicy
  /\ pc \in AfterStep => Stepped
  /\ pc = "commit" => ckpt[k] = model
  /\ pc \in AfterCommit => Committed
  /\ pc \in BeforeStep \cup AfterStep \cup AfterCommit => ~resumed
=============================================================================
