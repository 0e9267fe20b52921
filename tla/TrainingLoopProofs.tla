------------------------- MODULE TrainingLoopProofs -------------------------
(***************************************************************************)
(* Proofs about TrainingLoop for every number of steps, every set of       *)
(* deltas and every number of crashes.                                     *)
(***************************************************************************)
EXTENDS TrainingLoop, SequenceTheorems, TLAPS

\* A batch is in the buffer when one is to be popped.
BufferInv == pc = "consume" => buffer # <<>>

IInv == TypeOK /\ StepInv /\ PlanIsLoadable /\ BufferInv

\* LastPolicy is well defined: the policy of whatever step is the last.
LEMMA LastPolicyIs ==
  ASSUME NEW j, IsLastStep(j)
  PROVE  LastPolicy = tsteps[j]
<1>1. j \in Finished BY DEF IsLastStep
<1>2. \A i \in Finished : IsLastStep(i) => i = j
  BY DEF IsLastStep, Finished, Step
<1>3. IsLastStep(CHOOSE i \in Finished : IsLastStep(i))
  BY <1>1
<1>4. (CHOOSE i \in Finished : IsLastStep(i)) = j
  BY <1>1, <1>2, <1>3 DEF IsLastStep
<1> QED BY <1>1, <1>4 DEF LastPolicy

\* Steps that log no training step keep the finished ones and their policy.
LEMMA SameFinished ==
  ASSUME UNCHANGED tsteps
  PROVE  /\ Finished' = Finished
         /\ LastPolicy' = LastPolicy
         /\ \A j : IsLastStep(j)' <=> IsLastStep(j)
BY DEF Finished, LastPolicy, IsLastStep

\* The policy of the last finished step is a sequence of deltas.
LEMMA LastPolicyType ==
  ASSUME TypeOK
  PROVE  LastPolicy \in Model \/ ~\E j : IsLastStep(j)
<1> SUFFICES ASSUME NEW j, IsLastStep(j) PROVE LastPolicy \in Model
  OBVIOUS
<1>1. LastPolicy = tsteps[j] BY LastPolicyIs
<1> QED BY <1>1 DEF TypeOK, IsLastStep, Finished

LEMMA InitInv == Init => IInv
<1> SUFFICES ASSUME Init PROVE IInv OBVIOUS
<1> USE LoopConstants DEF Init
<1>1. <<>> \in Model BY DEF Model
<1>2. Finished = {} BY DEF Finished
<1>3. TypeOK
  <2>1. /\ commits \in [Step -> Model \cup {NoEvent}]
        /\ tsteps \in [Step -> Model \cup {NoEvent}]
        /\ ckpt \in [Step -> Model \cup {Absent, Partial}]
        /\ wal \in [Step -> {"none", "PREPARED", "APPLIED", "CHECKPOINTED",
                             "COMMITTED", "ABORTED"}]
    OBVIOUS
  <2>2. syncs \in [0..N -> SUBSET SyncTypes] OBVIOUS
  <2>3. pc \in PCs BY DEF PCs
  <2>4. k \in 0..N /\ consumed \in 0..N /\ crashes \in 0..MaxCrashes OBVIOUS
  <2>5. buffer \in Seq(0..N) OBVIOUS
  <2>6. resumed \in BOOLEAN OBVIOUS
  <2> QED BY <1>1, <2>1, <2>2, <2>3, <2>4, <2>5, <2>6 DEF TypeOK
<1>4. StepInv
  BY <1>2 DEF StepInv, FinishedIsPrefix, SyncPCs, BeforeStep, AfterStep, AfterCommit
<1> QED BY <1>2, <1>3, <1>4 DEF IInv, PlanIsLoadable, BufferInv

----------------------------------------------------------------------------
(* Type correctness of one step.  Down and the appends of sync events come *)
(* first: several actions end in them.                                     *)

LEMMA DownType ==
  ASSUME Down
  PROVE  /\ pc' \in PCs /\ k' \in 0..N /\ resumed' \in BOOLEAN
         /\ model' \in Model /\ server' \in Model
         /\ buffer' \in Seq(0..N) /\ consumed' \in 0..N
<1> USE LoopConstants DEF Down
<1>1. pc' \in PCs BY DEF PCs
<1>2. k' \in 0..N /\ consumed' \in 0..N OBVIOUS
<1>3. resumed' \in BOOLEAN OBVIOUS
<1>4. model' \in Model /\ server' \in Model BY DEF Model
<1>5. buffer' \in Seq(0..N) OBVIOUS
<1> QED BY <1>1, <1>2, <1>3, <1>4, <1>5

LEMMA AppendSyncType ==
  ASSUME NEW label \in SyncPCs, NEW type \in SyncTypes,
         NEW next \in SyncPCs \cup {"warmup", "tstep"},
         TypeOK, AppendSync(label, type, next)
  PROVE  TypeOK'
<1>1. CASE resumed /\ pc' = next /\ UNCHANGED <<disk, memory, crashes>>
  BY <1>1 DEF TypeOK, disk, memory, PCs, AfterCommit
<1>2. CASE /\ syncs' = [syncs EXCEPT ![k] = @ \cup {type}]
           /\ pc' = next
           /\ UNCHANGED <<commits, tsteps, ckpt, wal, torn, memory, crashes>>
  <2>1. syncs' \in [0..N -> SUBSET SyncTypes] BY <1>2 DEF TypeOK
  <2> QED BY <1>2, <2>1 DEF TypeOK, memory, PCs, AfterCommit
<1>3. CASE Down /\ UNCHANGED <<disk, crashes>>
  BY <1>3, DownType DEF TypeOK, disk
<1> QED BY <1>1, <1>2, <1>3 DEF AppendSync

LEMMA TypeStep ==
  ASSUME TypeOK, StepInv, BufferInv, [Next]_vars
  PROVE  TypeOK'
<1> USE LoopConstants
<1>1. CASE UNCHANGED vars
  BY <1>1 DEF TypeOK, vars
<1>2. CASE StartFresh
  <2>1. /\ commits' \in [Step -> Model \cup {NoEvent}]
        /\ syncs' \in [0..N -> SUBSET SyncTypes]
    BY <1>2 DEF StartFresh
  <2>2. pc' \in PCs BY <1>2 DEF StartFresh, PCs, SyncPCs
  <2> QED BY <1>2, <2>1, <2>2 DEF StartFresh, TypeOK
<1>3. CASE Resume
  <2>1. PICK last \in Finished : ckpt[last] \notin {Absent, Partial} /\ model' = ckpt[last] /\ k' = last
    BY <1>3 DEF Resume
  <2>2. model' \in Model /\ k' \in 0..N BY <2>1 DEF Finished, TypeOK, Step
  <2>3. pc' \in PCs BY <1>3 DEF Resume, PCs, SyncPCs
  <2>4. resumed' \in BOOLEAN BY <1>3 DEF Resume
  <2> QED BY <1>3, <2>2, <2>3, <2>4 DEF Resume, TypeOK, disk
<1>4. CASE PushFails
  <2>1. crashes' \in 0..MaxCrashes BY <1>4 DEF PushFails, TypeOK
  <2>2. syncs' \in [0..N -> SUBSET SyncTypes]
    BY <1>4 DEF PushFails, TypeOK, SyncTypes
  <2> QED BY <1>4, <2>1, <2>2, DownType DEF PushFails, TypeOK
<1>5. CASE Crash
  <2>1. crashes' \in 0..MaxCrashes BY <1>5 DEF Crash, TypeOK
  <2>2. wal' \in [Step -> {"none", "PREPARED", "APPLIED", "CHECKPOINTED",
                           "COMMITTED", "ABORTED"}]
    BY <1>5 DEF Crash, TypeOK
  <2> QED BY <1>5, <2>1, <2>2, DownType DEF Crash, TypeOK
<1>6. CASE Trainer
  <2>1. CASE SyncRequested
    BY <2>1, AppendSyncType DEF SyncRequested, SyncPCs, SyncTypes
  <2>2. CASE SyncStarted
    BY <2>2, AppendSyncType DEF SyncStarted, SyncPCs, SyncTypes
  <2>3. CASE PushWeights
    BY <2>3 DEF PushWeights, TypeOK, disk, PCs, SyncPCs
  <2>4. CASE RuntimeLoaded
    BY <2>4, AppendSyncType DEF RuntimeLoaded, SyncPCs, SyncTypes
  <2>5. CASE CanaryMismatch
    BY <2>5, AppendSyncType DEF CanaryMismatch, SyncPCs, SyncTypes
  <2>6. CASE CanaryAgrees
    BY <2>6 DEF CanaryAgrees, TypeOK, disk, memory, PCs, SyncPCs
  <2>7. CASE CanaryPassed
    BY <2>7, AppendSyncType DEF CanaryPassed, SyncPCs, SyncTypes
  <2>8. CASE WarmUp
    <3>1. k' \in 0..N BY <2>8 DEF WarmUp, NextStep, TypeOK
    <3>2. pc' \in PCs BY <2>8 DEF WarmUp, NextStep, PCs, BeforeStep
    <3>3. buffer' \in Seq(0..N) BY <2>8 DEF WarmUp, TypeOK
    <3>4. resumed' \in BOOLEAN BY <2>8 DEF WarmUp
    <3> QED BY <2>8, <3>1, <3>2, <3>3, <3>4 DEF WarmUp, TypeOK, disk
  <2>9. CASE Rollout
    <3>1. k - 1 \in 0..N
      BY <2>9 DEF Rollout, StepInv, InStep, BeforeStep, Step
    <3>2. buffer' \in Seq(0..N) BY <2>9, <3>1 DEF Rollout, TypeOK
    <3> QED BY <2>9, <3>2 DEF Rollout, TypeOK, disk, PCs, BeforeStep
  <2>10. CASE Consume
    <3>1. buffer # <<>> BY <2>10 DEF Consume, BufferInv
    <3>2. buffer' \in Seq(0..N) /\ consumed' \in 0..N
      BY <2>10, <3>1 DEF Consume, TypeOK
    <3> QED BY <2>10, <3>2 DEF Consume, TypeOK, disk, PCs, BeforeStep
  <2>11. CASE WalPrepared \/ WalApplied \/ WalCheckpointed \/ WalCommitted
    BY <2>11 DEF WalPrepared, WalApplied, WalCheckpointed, WalCommitted,
         LogStatus, TypeOK, memory, PCs, BeforeStep, AfterStep, AfterCommit, SyncPCs
  <2>12. CASE OptimizerStep
    <3>1. model' \in Model BY <2>12 DEF OptimizerStep, TypeOK, Model
    <3> QED BY <2>12, <3>1 DEF OptimizerStep, TypeOK, disk, PCs, AfterStep
  <2>13. CASE RemoveOld \/ Promote
    BY <2>13 DEF RemoveOld, Promote, SetCkpt, TypeOK, memory, PCs, AfterStep
  <2>14. CASE AppendCommit
    <3>1. CASE pc' = "checkpointed" /\ UNCHANGED <<wal, memory>>
      BY <2>14, <3>1 DEF AppendCommit, TypeOK, memory, PCs, AfterCommit, Down
    <3>2. CASE Down
      BY <2>14, <3>2, DownType DEF AppendCommit, TypeOK
    <3> QED BY <2>14, <3>1, <3>2 DEF AppendCommit
  <2>15. CASE FinishStep
    <3>1. k' \in 0..N BY <2>15 DEF FinishStep, NextStep, TypeOK
    <3>2. pc' \in PCs BY <2>15 DEF FinishStep, NextStep, PCs, BeforeStep
    <3>3. tsteps' \in [Step -> Model \cup {NoEvent}] BY <2>15 DEF FinishStep, TypeOK
    <3> QED BY <2>15, <3>1, <3>2, <3>3 DEF FinishStep, TypeOK
  <2> QED
    BY <1>6, <2>1, <2>2, <2>3, <2>4, <2>5, <2>6, <2>7, <2>8, <2>9, <2>10, <2>11,
       <2>12, <2>13, <2>14, <2>15 DEF Trainer
<1> QED BY <1>1, <1>2, <1>3, <1>4, <1>5, <1>6 DEF Next, Done

----------------------------------------------------------------------------
(* The relation between the process and the finished steps.                *)

\* A process that is down owes nothing.
LEMMA DownInv ==
  ASSUME FinishedIsPrefix, Down, UNCHANGED tsteps
  PROVE  StepInv' /\ BufferInv'
<1>1. FinishedIsPrefix' BY SameFinished DEF FinishedIsPrefix
<1> QED
  BY <1>1 DEF Down, StepInv, BufferInv, SyncPCs, BeforeStep, AfterStep, AfterCommit

\* What a step that logs and promotes nothing carries over.
LEMMA Carried ==
  ASSUME UNCHANGED <<tsteps, commits, ckpt>>
  PROVE  /\ FinishedIsPrefix => FinishedIsPrefix'
         /\ PlanIsLoadable => PlanIsLoadable'
         /\ k' = k /\ model' = model => /\ AtRest => AtRest'
                                        /\ InStep => InStep'
                                        /\ Stepped => Stepped'
                                        /\ Committed => Committed'
<1>1. Finished' = Finished /\ LastPolicy' = LastPolicy /\ \A j : IsLastStep(j)' <=> IsLastStep(j)
  BY SameFinished
<1>2. FinishedIsPrefix => FinishedIsPrefix' BY <1>1 DEF FinishedIsPrefix
<1>3. PlanIsLoadable => PlanIsLoadable' BY <1>1 DEF PlanIsLoadable
<1>4. ASSUME k' = k, model' = model
      PROVE /\ AtRest => AtRest'
            /\ InStep => InStep'
            /\ Stepped => Stepped'
            /\ Committed => Committed'
  <2>1. AtRest => AtRest' BY <1>1, <1>4 DEF AtRest, IsLastStep
  <2>2. InStep => InStep' BY <1>1, <1>4 DEF InStep, IsLastStep
  <2>3. Stepped => Stepped' BY <1>1, <1>4, <2>2 DEF Stepped
  <2>4. Committed => Committed' BY <1>4, <2>3 DEF Committed
  <2> QED BY <2>1, <2>2, <2>3, <2>4
<1> QED BY <1>2, <1>3, <1>4

LEMMA AppendSyncInv ==
  ASSUME NEW label \in SyncPCs, NEW type, NEW next \in SyncPCs \cup {"warmup", "tstep"},
         IInv, AppendSync(label, type, next),
         next = "warmup" => FirstSync,
         next = "tstep" => ~FirstSync
  PROVE  StepInv' /\ PlanIsLoadable' /\ BufferInv'
<1> USE DEF IInv
<1>1. UNCHANGED <<tsteps, commits, ckpt>> BY DEF AppendSync, disk
<1>2. PlanIsLoadable' BY <1>1, Carried
<1>3. CASE Down
  BY <1>1, <1>2, <1>3, DownInv DEF StepInv
<1>4. CASE pc' = next /\ UNCHANGED memory
  <2>1. FinishedIsPrefix' BY <1>1, Carried DEF StepInv
  <2>2. FirstSync' <=> FirstSync BY <1>4 DEF FirstSync, memory
  <2>3. IF FirstSync THEN AtRest ELSE Committed
    BY DEF StepInv, AppendSync
  <2>4. IF FirstSync THEN AtRest' ELSE Committed'
    BY <1>1, <1>4, <2>3, Carried DEF memory
  <2>5. ~FirstSync => ~resumed' BY <1>4 DEF FirstSync, memory
  <2>6. StepInv'
    BY <1>4, <2>1, <2>2, <2>4, <2>5 DEF StepInv, SyncPCs, BeforeStep, AfterStep, AfterCommit
  <2>7. BufferInv' BY <1>4 DEF BufferInv, SyncPCs
  <2> QED BY <1>2, <2>6, <2>7
<1> QED BY <1>3, <1>4 DEF AppendSync

LEMMA SyncInv ==
  ASSUME IInv,
         SyncRequested \/ SyncStarted \/ PushWeights \/ RuntimeLoaded
           \/ CanaryMismatch \/ CanaryAgrees \/ CanaryPassed
  PROVE  StepInv' /\ PlanIsLoadable' /\ BufferInv'
<1>1. CASE SyncRequested \/ SyncStarted \/ RuntimeLoaded \/ CanaryMismatch
  BY <1>1, AppendSyncInv DEF SyncRequested, SyncStarted, RuntimeLoaded, CanaryMismatch, SyncPCs
<1>2. CASE CanaryPassed
  BY <1>2, AppendSyncInv DEF CanaryPassed, SyncPCs, FirstSync
<1>3. CASE PushWeights \/ CanaryAgrees
  <2>1. /\ UNCHANGED <<tsteps, commits, ckpt, k, model, resumed>>
        /\ pc \in SyncPCs
        /\ pc' \in SyncPCs
    BY <1>3 DEF PushWeights, CanaryAgrees, disk, memory, SyncPCs
  <2>2. PlanIsLoadable' /\ FinishedIsPrefix'
    BY <2>1, Carried DEF IInv, StepInv
  <2>3. IF FirstSync THEN AtRest ELSE Committed
    BY <2>1 DEF IInv, StepInv
  <2>4. IF FirstSync' THEN AtRest' ELSE Committed'
    BY <2>1, <2>3, Carried DEF FirstSync
  <2>5. StepInv'
    BY <2>1, <2>2, <2>4 DEF StepInv, SyncPCs, BeforeStep, AfterStep, AfterCommit
  <2>6. BufferInv' BY <2>1 DEF BufferInv, SyncPCs
  <2> QED BY <2>2, <2>5, <2>6
<1> QED BY <1>1, <1>2, <1>3

\* The loop turns to the step after the last finished one.
LEMMA TurnInv ==
  ASSUME k \in 0..N, resumed' = FALSE, NextStep,
         FinishedIsPrefix', model' = LastPolicy',
         IF k = 0 THEN Finished' = {}
         ELSE k \in Finished' /\ \A i \in Finished' : i <= k
  PROVE  StepInv' /\ BufferInv'
<1> USE LoopConstants
<1>1. CASE pc' = "rollout" /\ k < N /\ k' = k + 1
  <2>1. k' \in Step /\ k' - 1 = k BY <1>1 DEF Step
  <2>2. k' \notin Finished' BY <1>1, <2>1
  <2>3. IF k' = 1 THEN Finished' = {} ELSE IsLastStep(k - 1)'
    BY <1>1, <2>1 DEF IsLastStep
  <2>4. InStep' BY <2>1, <2>2, <2>3 DEF InStep
  <2> QED
    BY <1>1, <2>4 DEF StepInv, BufferInv, SyncPCs, BeforeStep, AfterStep, AfterCommit
<1>2. CASE pc' = "finished"
  BY <1>2 DEF StepInv, BufferInv, SyncPCs, BeforeStep, AfterStep, AfterCommit
<1> QED BY <1>1, <1>2 DEF NextStep

LEMMA WarmUpInv ==
  ASSUME IInv, WarmUp
  PROVE  StepInv' /\ PlanIsLoadable' /\ BufferInv'
<1>1. UNCHANGED <<tsteps, commits, ckpt, model>> BY DEF WarmUp, disk
<1>2. AtRest BY DEF IInv, StepInv, WarmUp
<1>3. FinishedIsPrefix' /\ PlanIsLoadable' BY <1>1, Carried DEF IInv, StepInv
<1>4. Finished' = Finished /\ LastPolicy' = LastPolicy BY <1>1, SameFinished
<1>5. IF k = 0 THEN Finished' = {} ELSE k \in Finished' /\ \A i \in Finished' : i <= k
  BY <1>2, <1>4 DEF AtRest, IsLastStep
<1>6. model' = LastPolicy' BY <1>1, <1>2, <1>4 DEF AtRest
<1> QED BY <1>3, <1>5, <1>6, TurnInv DEF WarmUp, IInv, TypeOK

\* Logging the training step makes k the last finished step.
LEMMA FinishFacts ==
  ASSUME IInv, FinishStep
  PROVE  /\ Finished' = Finished \cup {k}
         /\ k \in Finished' /\ \A i \in Finished' : i <= k
         /\ LastPolicy' = model
         /\ \E d \in Delta : model = Append(LastPolicy, d)
<1> USE LoopConstants
<1>1. Committed BY DEF IInv, StepInv, FinishStep, AfterCommit
<1>2. k \in Step /\ k \notin Finished BY <1>1 DEF Committed, Stepped, InStep
<1>3. tsteps' = [tsteps EXCEPT ![k] = model] BY DEF FinishStep
<1>4. tsteps'[k] = model /\ model # NoEvent BY <1>2, <1>3 DEF IInv, TypeOK, Model
<1>5. Finished' = Finished \cup {k} BY <1>2, <1>3, <1>4 DEF Finished, IInv, TypeOK
<1>6. \A i \in Finished : i <= k
  BY <1>1, <1>2 DEF Committed, Stepped, InStep, IsLastStep, Finished, Step
<1>7. k \in Finished' /\ \A i \in Finished' : i <= k
  BY <1>2, <1>5, <1>6 DEF Step
<1>8. (CHOOSE j \in Finished' : j \in Finished' /\ \A i \in Finished' : i <= j) = k
  BY <1>7 DEF Finished, Step
<1>9. LastPolicy' = model BY <1>4, <1>7, <1>8 DEF LastPolicy, IsLastStep
<1> QED BY <1>1, <1>5, <1>7, <1>9 DEF Committed, Stepped

LEMMA FinishInv ==
  ASSUME IInv, FinishStep
  PROVE  StepInv' /\ PlanIsLoadable' /\ BufferInv'
<1> USE LoopConstants
<1>1. Committed /\ ~resumed BY DEF IInv, StepInv, FinishStep, AfterCommit
<1>2. k \in Step BY <1>1 DEF Committed, Stepped, InStep
<1>3. Finished' = Finished \cup {k} /\ LastPolicy' = model BY FinishFacts
<1>4. k \in Finished' /\ \A i \in Finished' : i <= k BY FinishFacts
<1>5. FinishedIsPrefix'
  <2> SUFFICES ASSUME NEW i \in Step, NEW j \in Step, j \in Finished', i <= j
               PROVE  i \in Finished'
    BY DEF FinishedIsPrefix, Step
  <2>1. CASE j \in Finished BY <1>3, <2>1 DEF IInv, StepInv, FinishedIsPrefix
  <2>2. CASE j = k /\ i = k BY <1>3, <2>2
  <2>3. CASE j = k /\ i # k
    <3>1. k # 1 /\ i <= k - 1 /\ k - 1 \in Step BY <1>2, <2>3 DEF Step
    <3>2. k - 1 \in Finished
      BY <1>1, <3>1 DEF Committed, Stepped, InStep, IsLastStep
    <3> QED BY <1>3, <3>1, <3>2 DEF IInv, StepInv, FinishedIsPrefix
  <2> QED BY <1>3, <2>1, <2>2, <2>3
<1>6. PlanIsLoadable'
  <2> SUFFICES ASSUME NEW j \in Finished' PROVE ckpt'[j] = tsteps'[j] /\ commits'[j] = tsteps'[j]
    BY DEF PlanIsLoadable
  <2>1. CASE j = k BY <1>1, <1>2, <2>1 DEF FinishStep, Committed, IInv, TypeOK
  <2>2. CASE j # k /\ j \in Finished
    BY <2>2 DEF FinishStep, IInv, TypeOK, PlanIsLoadable, Finished
  <2> QED BY <1>3, <2>1, <2>2
<1>7. k # 0 BY <1>2 DEF Step
<1> QED BY <1>1, <1>3, <1>4, <1>5, <1>6, <1>7, TurnInv DEF FinishStep, IInv, TypeOK

----------------------------------------------------------------------------
(* The steps from the rollout to the commit, and the start of a process.   *)

LEMMA BodyInv ==
  ASSUME IInv,
         Rollout \/ Consume \/ WalPrepared \/ OptimizerStep \/ WalApplied
           \/ WalCheckpointed \/ WalCommitted
  PROVE  StepInv' /\ PlanIsLoadable' /\ BufferInv'
<1> USE DEF SyncPCs, BeforeStep, AfterStep, AfterCommit
<1>1. UNCHANGED <<tsteps, commits, ckpt, k, resumed>>
  BY DEF Rollout, Consume, WalPrepared, OptimizerStep, WalApplied, WalCheckpointed,
         WalCommitted, LogStatus, disk, memory
<1>2. FinishedIsPrefix' /\ PlanIsLoadable' BY <1>1, Carried DEF IInv, StepInv
<1>3. LastPolicy' = LastPolicy BY <1>1, SameFinished
<1>4. CASE Rollout \/ Consume \/ WalPrepared
  <2>1. InStep /\ model = LastPolicy /\ ~resumed
    BY <1>4 DEF IInv, StepInv, Rollout, Consume, WalPrepared, LogStatus
  <2>2. model' = model
    BY <1>4 DEF Rollout, Consume, WalPrepared, LogStatus, memory
  <2>3. InStep' /\ model' = LastPolicy' BY <1>1, <1>3, <2>1, <2>2, Carried
  <2>4. pc' \in {"consume", "prepare", "step"}
    BY <1>4 DEF Rollout, Consume, WalPrepared, LogStatus
  <2>5. StepInv' BY <1>1, <1>2, <2>1, <2>3, <2>4 DEF StepInv
  <2>6. BufferInv'
    <3>1. CASE Rollout
      <4>1. k - 1 \in 0..N BY <2>1, LoopConstants DEF InStep, Step
      <4>2. buffer' # <<>> BY <3>1, <4>1 DEF Rollout, IInv, TypeOK
      <4> QED BY <4>2 DEF BufferInv
    <3>2. CASE Consume \/ WalPrepared
      BY <3>2 DEF Consume, WalPrepared, LogStatus, BufferInv
    <3> QED BY <1>4, <3>1, <3>2
  <2> QED BY <1>2, <2>5, <2>6
<1>5. CASE OptimizerStep
  <2>1. InStep /\ model = LastPolicy /\ ~resumed BY <1>5 DEF IInv, StepInv, OptimizerStep
  <2>2. InStep'
    BY <1>1, <2>1, SameFinished DEF InStep, IsLastStep
  <2>3. \E d \in Delta : model' = Append(LastPolicy', d)
    BY <1>3, <1>5, <2>1 DEF OptimizerStep
  <2>4. Stepped' BY <2>2, <2>3 DEF Stepped
  <2> QED BY <1>1, <1>2, <1>5, <2>1, <2>4 DEF OptimizerStep, StepInv, BufferInv
<1>6. CASE WalApplied
  <2>1. Stepped /\ ~resumed /\ model' = model /\ pc' = "promote"
    BY <1>6 DEF IInv, StepInv, WalApplied, LogStatus, memory
  <2>2. Stepped' BY <1>1, <2>1, Carried
  <2> QED BY <1>1, <1>2, <2>1, <2>2 DEF StepInv, BufferInv
<1>7. CASE WalCheckpointed \/ WalCommitted
  <2>1. Committed /\ ~resumed /\ model' = model /\ pc' \in {"committed", "sync_requested"}
    BY <1>7 DEF IInv, StepInv, WalCheckpointed, WalCommitted, LogStatus, memory
  <2>2. Committed' BY <1>1, <2>1, Carried
  <2>3. ~FirstSync'
    BY <1>1, <2>1 DEF FirstSync, Committed, Stepped, InStep, Step
  <2> QED BY <1>1, <1>2, <2>1, <2>2, <2>3 DEF StepInv, BufferInv
<1> QED BY <1>4, <1>5, <1>6, <1>7

LEMMA PromoteInv ==
  ASSUME IInv, RemoveOld \/ Promote \/ AppendCommit
  PROVE  StepInv' /\ PlanIsLoadable' /\ BufferInv'
<1> USE DEF SyncPCs, BeforeStep, AfterStep, AfterCommit
<1>1. Stepped /\ ~resumed
  BY DEF IInv, StepInv, RemoveOld, Promote, AppendCommit
<1>2. k \in Step /\ k \notin Finished BY <1>1 DEF Stepped, InStep
<1>3. UNCHANGED tsteps BY DEF RemoveOld, Promote, AppendCommit, SetCkpt
<1>4. Finished' = Finished /\ LastPolicy' = LastPolicy BY <1>3, SameFinished
<1>5. FinishedIsPrefix' BY <1>4 DEF FinishedIsPrefix, IInv, StepInv
<1>6. \A j \in Step \ {k} : ckpt'[j] = ckpt[j] /\ commits'[j] = commits[j]
  BY <1>2 DEF RemoveOld, Promote, AppendCommit, SetCkpt, IInv, TypeOK
<1>7. PlanIsLoadable'
  BY <1>2, <1>3, <1>4, <1>6 DEF PlanIsLoadable, IInv, Finished
<1>8. CASE RemoveOld \/ Promote
  <2>1. UNCHANGED memory BY <1>8 DEF RemoveOld, Promote, SetCkpt
  <2>2. InStep' BY <1>1, <1>3, <2>1, SameFinished DEF Stepped, InStep, IsLastStep, memory
  <2>3. Stepped' BY <1>1, <1>4, <2>1, <2>2 DEF Stepped, memory
  <2>4. pc' = "commit" => ckpt'[k] = model
    BY <1>2, <1>8 DEF RemoveOld, Promote, SetCkpt, IInv, TypeOK
  <2>5. pc' \in AfterStep BY <1>8 DEF RemoveOld, Promote, SetCkpt
  <2> QED BY <1>1, <1>5, <1>7, <2>1, <2>3, <2>4, <2>5 DEF StepInv, BufferInv, memory
<1>9. CASE AppendCommit /\ Down
  BY <1>3, <1>5, <1>7, <1>9, DownInv DEF IInv, StepInv
<1>10. CASE AppendCommit /\ pc' = "checkpointed" /\ UNCHANGED memory
  <2>1. InStep' BY <1>1, <1>3, <1>10, SameFinished DEF Stepped, InStep, IsLastStep, memory
  <2>2. Stepped' BY <1>1, <1>4, <1>10, <2>1 DEF Stepped, memory
  <2>3. ckpt[k] = model BY <1>10 DEF AppendCommit, IInv, StepInv
  <2>4. ckpt' = ckpt /\ commits'[k] = model
    BY <1>2, <1>10 DEF AppendCommit, IInv, TypeOK, Down
  <2>5. Committed' BY <1>10, <2>2, <2>3, <2>4 DEF Committed, memory
  <2> QED BY <1>1, <1>5, <1>7, <1>10, <2>5 DEF StepInv, BufferInv, memory
<1> QED BY <1>8, <1>9, <1>10 DEF AppendCommit

LEMMA StartInv ==
  ASSUME IInv, StartFresh \/ Resume
  PROVE  StepInv' /\ PlanIsLoadable' /\ BufferInv'
<1> USE DEF SyncPCs, BeforeStep, AfterStep, AfterCommit
<1>1. UNCHANGED tsteps BY DEF StartFresh, Resume, disk
<1>2. Finished' = Finished /\ LastPolicy' = LastPolicy BY <1>1, SameFinished
<1>3. FinishedIsPrefix' BY <1>2 DEF FinishedIsPrefix, IInv, StepInv
<1>4. CASE StartFresh
  <2>1. LastPolicy = <<>> BY <1>4 DEF StartFresh, LastPolicy
  <2>2. model' = <<>> /\ k' = 0 BY <1>4 DEF StartFresh, IInv, StepInv
  <2>3. AtRest' BY <1>2, <1>4, <2>1, <2>2 DEF AtRest, StartFresh
  <2>4. PlanIsLoadable' BY <1>2, <1>4 DEF PlanIsLoadable, StartFresh
  <2> QED BY <1>3, <1>4, <2>2, <2>3, <2>4 DEF StartFresh, StepInv, BufferInv, FirstSync
<1>5. CASE Resume
  <2>1. PICK last \in Finished : IsLastStep(last) /\ model' = ckpt[last] /\ k' = last
    BY <1>5 DEF Resume
  <2>2. model' = LastPolicy'
    BY <1>2, <2>1, LastPolicyIs DEF IInv, PlanIsLoadable
  <2>3. IsLastStep(last)' BY <1>1, <2>1, SameFinished
  <2>4. AtRest' BY <2>1, <2>2, <2>3 DEF AtRest, IsLastStep, Finished, Step
  <2>5. PlanIsLoadable' BY <1>5, <1>1, Carried DEF Resume, disk, IInv
  <2> QED BY <1>3, <1>5, <2>4, <2>5 DEF Resume, StepInv, BufferInv, FirstSync
<1> QED BY <1>4, <1>5

LEMMA DieInv ==
  ASSUME IInv, Crash \/ PushFails
  PROVE  StepInv' /\ PlanIsLoadable' /\ BufferInv'
BY DownInv, Carried DEF Crash, PushFails, IInv, StepInv

LEMMA InvStep == IInv /\ [Next]_vars => IInv'
<1> SUFFICES ASSUME IInv, [Next]_vars PROVE IInv' OBVIOUS
<1>1. TypeOK' BY TypeStep DEF IInv
<1>2. CASE UNCHANGED vars
  <2>1. UNCHANGED <<tsteps, commits, ckpt, pc, k, model, resumed>> BY <1>2 DEF vars
  <2>2. PlanIsLoadable' /\ FinishedIsPrefix' BY <2>1, Carried DEF IInv, StepInv
  <2>3. /\ AtRest => AtRest'
        /\ InStep => InStep'
        /\ Stepped => Stepped'
        /\ Committed => Committed'
    BY <2>1, Carried
  <2>4. LastPolicy' = LastPolicy BY <2>1, SameFinished
  <2>5. StepInv'
    BY <2>1, <2>2, <2>3, <2>4
    DEF IInv, StepInv, FirstSync, SyncPCs, BeforeStep, AfterStep, AfterCommit
  <2>6. BufferInv' BY <1>2 DEF IInv, BufferInv, vars
  <2> QED BY <1>1, <2>2, <2>5, <2>6 DEF IInv
<1>3. CASE StartFresh \/ Resume BY <1>1, <1>3, StartInv DEF IInv
<1>4. CASE Crash \/ PushFails BY <1>1, <1>4, DieInv DEF IInv
<1>5. CASE Trainer
  BY <1>1, <1>5, SyncInv, WarmUpInv, BodyInv, PromoteInv, FinishInv DEF Trainer, IInv
<1> QED BY <1>2, <1>3, <1>4, <1>5 DEF Next, Done

----------------------------------------------------------------------------
(* A second invariant, over IInv: what the server answers with, what the   *)
(* buffer holds, and what the WAL says of the checkpoints.                 *)

\* A finished step's policy has one delta per step, and the server holds the
\* model from the push until the step that follows.
ServerInv ==
  /\ \A j \in Finished : Len(tsteps[j]) = j
  /\ pc \in {"runtime_loaded", "canary", "canary_passed", "warmup", "tstep", "rollout"} =>
       server = model

Recent(b) == b <= k - 1 /\ k - 1 <= b + 1

\* Between the pop of a step and the next rollout the buffer holds the batch
\* of the step alone.
HoldsOneBatch ==
  {"prepare", "step"} \cup AfterStep \cup AfterCommit
    \cup (IF FirstSync THEN {} ELSE SyncPCs)

BufferedInv ==
  /\ pc = "rollout" => Len(buffer) = 1 /\ Recent(buffer[1])
  /\ pc = "consume" => Len(buffer) = 2 /\ Recent(buffer[1]) /\ buffer[2] = k - 1
  /\ pc \in HoldsOneBatch => Len(buffer) = 1 /\ buffer[1] = k - 1
  /\ LagBounded

\* The WAL does not say COMMITTED while the step may change its checkpoint.
WalInv ==
  /\ WalCommittedIsPromoted
  /\ pc \in InTry => wal[k] # "COMMITTED"

RunInv == IInv /\ ServerInv /\ BufferedInv /\ WalInv

LEMMA DownRun ==
  ASSUME Down
  PROVE  BufferedInv' /\ pc' \notin InTry
BY DEF Down, BufferedInv, HoldsOneBatch, LagBounded, AfterStep, AfterCommit, SyncPCs, InTry

LEMMA ServerStep ==
  ASSUME IInv, ServerInv, [Next]_vars
  PROVE  ServerInv'
<1>1. CASE FinishStep
  <2>1. Finished' = Finished \cup {k} BY <1>1, FinishFacts
  <2>2. Committed /\ k \in Step /\ k \notin Finished
    BY <1>1 DEF IInv, StepInv, FinishStep, AfterCommit, Committed, Stepped, InStep
  <2>3. Len(model) = k
    <3>1. PICK d \in Delta : model = Append(LastPolicy, d) BY <2>2 DEF Committed, Stepped
    <3>2. CASE k = 1
      <4>1. LastPolicy = <<>> BY <2>2, <3>2 DEF Committed, Stepped, InStep, LastPolicy
      <4> QED BY <3>1, <3>2, <4>1
    <3>3. CASE k # 1
      <4>1. IsLastStep(k - 1) BY <2>2, <3>3 DEF Committed, Stepped, InStep
      <4>2. LastPolicy = tsteps[k - 1] /\ k - 1 \in Finished
        BY <4>1, LastPolicyIs DEF IsLastStep
      <4>3. LastPolicy \in Model /\ Len(LastPolicy) = k - 1
        BY <4>2 DEF ServerInv, IInv, TypeOK, Finished
      <4> QED BY <2>2, <3>1, <4>3 DEF Model, Step
    <3> QED BY <3>2, <3>3
  <2>4. \A j \in Finished' : Len(tsteps'[j]) = j
    <3> SUFFICES ASSUME NEW j \in Finished' PROVE Len(tsteps'[j]) = j OBVIOUS
    <3>1. CASE j = k BY <1>1, <2>2, <2>3, <3>1 DEF FinishStep, IInv, TypeOK
    <3>2. CASE j \in Finished /\ j # k
      BY <1>1, <3>2 DEF FinishStep, IInv, TypeOK, ServerInv, Finished
    <3> QED BY <2>1, <3>1, <3>2
  <2> QED BY <1>1, <2>4 DEF ServerInv, FinishStep
<1>2. CASE ~FinishStep
  <2>1. tsteps' = tsteps
    BY <1>2 DEF Next, vars, disk, Trainer, Done, StartFresh, Resume, Crash, PushFails,
         SyncRequested, SyncStarted, PushWeights, RuntimeLoaded, CanaryMismatch,
         CanaryAgrees, CanaryPassed, AppendSync, WarmUp, Rollout, Consume, WalPrepared,
         OptimizerStep, WalApplied, RemoveOld, Promote, SetCkpt, AppendCommit,
         WalCheckpointed, WalCommitted, LogStatus
  <2>2. \A j \in Finished' : Len(tsteps'[j]) = j BY <2>1, SameFinished DEF ServerInv
  <2>3. pc' \in {"runtime_loaded", "canary", "canary_passed", "warmup", "tstep", "rollout"} =>
          server' = model'
    <3>1. CASE Down BY <3>1 DEF Down
    <3>2. CASE UNCHANGED vars BY <3>2 DEF vars, ServerInv
    <3>3. CASE StartFresh \/ Resume BY <3>3 DEF StartFresh, Resume
    <3>4. CASE SyncRequested \/ SyncStarted \/ RuntimeLoaded \/ CanaryMismatch \/ CanaryPassed
      BY <3>1, <3>4 DEF SyncRequested, SyncStarted, RuntimeLoaded, CanaryMismatch, CanaryPassed,
           AppendSync, memory, ServerInv
    <3>5. CASE PushWeights \/ CanaryAgrees \/ WarmUp
      BY <3>5 DEF PushWeights, CanaryAgrees, WarmUp, NextStep, memory, ServerInv
    <3>6. CASE Rollout \/ Consume \/ OptimizerStep
      BY <3>6 DEF Rollout, Consume, OptimizerStep
    <3>7. CASE WalPrepared \/ WalApplied \/ WalCheckpointed \/ WalCommitted
      BY <3>7 DEF WalPrepared, WalApplied, WalCheckpointed, WalCommitted, LogStatus
    <3>8. CASE RemoveOld \/ Promote \/ (AppendCommit /\ ~Down)
      BY <3>8 DEF RemoveOld, Promote, SetCkpt, AppendCommit
    <3> QED BY <1>2, <3>1, <3>2, <3>3, <3>4, <3>5, <3>6, <3>7, <3>8
            DEF Next, Trainer, Done, Crash, PushFails
  <2> QED BY <2>2, <2>3 DEF ServerInv
<1> QED BY <1>1, <1>2

LEMMA PushPop ==
  ASSUME NEW S, NEW s \in Seq(S)
  PROVE  /\ Len(s) = 1 => \A x \in S : /\ Len(Append(s, x)) = 2
                                       /\ Append(s, x)[1] = s[1] /\ Append(s, x)[2] = x
         /\ Len(s) = 2 => Head(s) = s[1] /\ Len(Tail(s)) = 1 /\ Tail(s)[1] = s[2]
<1>1. ASSUME Len(s) = 1, NEW x \in S
      PROVE  Len(Append(s, x)) = 2 /\ Append(s, x)[1] = s[1] /\ Append(s, x)[2] = x
  <2>1. /\ Len(Append(s, x)) = Len(s) + 1
        /\ \A i \in 1..Len(s) : Append(s, x)[i] = s[i]
        /\ Append(s, x)[Len(s) + 1] = x
    BY AppendProperties
  <2> QED BY <1>1, <2>1
<1>2. ASSUME Len(s) = 2
      PROVE  Head(s) = s[1] /\ Len(Tail(s)) = 1 /\ Tail(s)[1] = s[2]
  <2>1. s # <<>> BY <1>2
  <2>2. Len(Tail(s)) = 1 /\ Tail(s)[1] = s[1 + 1] BY <1>2, <2>1, HeadTailProperties
  <2> QED BY <2>2, <1>2
<1> QED BY <1>1, <1>2

LEMMA BufferedStep ==
  ASSUME IInv, BufferedInv, [Next]_vars
  PROVE  BufferedInv'
<1> USE DEF HoldsOneBatch, Recent, LagBounded, AfterStep, AfterCommit, SyncPCs
<1>1. CASE Down BY <1>1, DownRun
<1>2. CASE UNCHANGED vars BY <1>2 DEF vars, BufferedInv, FirstSync
<1>3. CASE StartFresh \/ Resume
  BY <1>3 DEF StartFresh, Resume, BufferedInv, FirstSync, IInv, StepInv
<1>4. CASE SyncRequested \/ SyncStarted \/ RuntimeLoaded \/ CanaryMismatch
  BY <1>1, <1>4 DEF SyncRequested, SyncStarted, RuntimeLoaded, CanaryMismatch,
       AppendSync, memory, BufferedInv, FirstSync
<1>5. CASE CanaryPassed
  BY <1>1, <1>5 DEF CanaryPassed, AppendSync, memory, BufferedInv, FirstSync
<1>6. CASE PushWeights \/ CanaryAgrees
  BY <1>6 DEF PushWeights, CanaryAgrees, memory, BufferedInv, FirstSync
<1>7. CASE WarmUp
  <2>1. k \in 0..N BY DEF IInv, TypeOK
  <2> QED BY <1>7, <2>1, LoopConstants DEF WarmUp, NextStep, BufferedInv
<1>8. CASE Rollout
  <2>1. k \in Step BY <1>8 DEF Rollout, IInv, StepInv, BeforeStep, InStep
  <2>2. k - 1 \in 0..N /\ buffer \in Seq(0..N) BY <2>1, LoopConstants DEF Step, IInv, TypeOK
  <2>3. Len(buffer) = 1 /\ Recent(buffer[1]) BY <1>8 DEF Rollout, BufferedInv
  <2>4. buffer' = Append(buffer, k - 1) BY <1>8 DEF Rollout
  <2>5. Len(buffer') = 2 /\ buffer'[1] = buffer[1] /\ buffer'[2] = k - 1
    BY <2>2, <2>3, <2>4, PushPop
  <2> QED BY <1>8, <2>3, <2>5 DEF Rollout, BufferedInv
<1>9. CASE Consume
  <2>1. buffer \in Seq(0..N) /\ Len(buffer) = 2 BY <1>9 DEF Consume, BufferedInv, IInv, TypeOK
  <2>2. /\ consumed' = buffer[1]
        /\ Len(buffer') = 1 /\ buffer'[1] = buffer[2]
    BY <1>9, <2>1, PushPop DEF Consume
  <2> QED BY <1>9, <2>2 DEF Consume, BufferedInv
<1>10. CASE WalPrepared \/ WalApplied \/ WalCheckpointed \/ WalCommitted
  BY <1>10 DEF WalPrepared, WalApplied, WalCheckpointed, WalCommitted, LogStatus, memory, BufferedInv
<1>11. CASE OptimizerStep BY <1>11 DEF OptimizerStep, BufferedInv
<1>12. CASE RemoveOld \/ Promote \/ (AppendCommit /\ ~Down)
  BY <1>12 DEF RemoveOld, Promote, SetCkpt, AppendCommit, memory, BufferedInv
<1>13. CASE FinishStep
  <2>1. k \in Step /\ k \in 1..N
    BY <1>13 DEF FinishStep, IInv, StepInv, Committed, Stepped, InStep, Step
  <2> QED BY <1>13, <2>1, LoopConstants DEF FinishStep, NextStep, BufferedInv
<1> QED
  BY <1>1, <1>2, <1>3, <1>4, <1>5, <1>6, <1>7, <1>8, <1>9, <1>10, <1>11, <1>12, <1>13
  DEF Next, Trainer, Done, Crash, PushFails

LEMMA WalStep ==
  ASSUME IInv, WalInv, [Next]_vars
  PROVE  WalInv'
<1> USE DEF WalInv, WalCommittedIsPromoted, InTry
<1>1. CASE Down /\ UNCHANGED <<commits, ckpt, wal>> BY <1>1, DownRun
<1>2. CASE UNCHANGED vars BY <1>2 DEF vars
<1>3. CASE StartFresh \/ Resume BY <1>3 DEF StartFresh, Resume, disk
<1>4. CASE Crash
  <2>1. \A j \in Step : wal'[j] \in {wal[j], "ABORTED"} BY <1>4 DEF Crash, IInv, TypeOK
  <2> QED BY <1>4, <2>1, DownRun DEF Crash
<1>5. CASE PushFails BY <1>1, <1>5 DEF PushFails
<1>6. CASE SyncRequested \/ SyncStarted \/ RuntimeLoaded \/ CanaryMismatch \/ CanaryPassed
  BY <1>1, <1>6 DEF SyncRequested, SyncStarted, RuntimeLoaded, CanaryMismatch, CanaryPassed,
       AppendSync, disk
<1>7. CASE PushWeights \/ CanaryAgrees \/ WarmUp \/ Rollout \/ Consume \/ FinishStep
  BY <1>7 DEF PushWeights, CanaryAgrees, WarmUp, NextStep, Rollout, Consume, FinishStep, disk
<1>8. CASE WalPrepared \/ WalApplied \/ WalCheckpointed
  <2>1. k \in Step
    BY <1>8 DEF WalPrepared, WalApplied, WalCheckpointed, LogStatus, IInv, StepInv, BeforeStep,
         AfterStep, AfterCommit, Committed, Stepped, InStep
  <2>2. \A j \in Step : wal'[j] = "COMMITTED" => wal[j] = "COMMITTED"
    BY <1>8, <2>1 DEF WalPrepared, WalApplied, WalCheckpointed, LogStatus, IInv, TypeOK
  <2>3. wal'[k] # "COMMITTED"
    BY <1>8, <2>1 DEF WalPrepared, WalApplied, WalCheckpointed, LogStatus, IInv, TypeOK
  <2> QED BY <1>8, <2>2, <2>3 DEF WalPrepared, WalApplied, WalCheckpointed, LogStatus, memory
<1>9. CASE WalCommitted
  <2>1. Committed BY <1>9 DEF WalCommitted, LogStatus, IInv, StepInv, AfterCommit
  <2>2. k \in Step /\ ckpt[k] = model /\ commits[k] = model
    BY <2>1 DEF Committed, Stepped, InStep
  <2>3. model \notin {Absent, Partial} BY LoopConstants DEF IInv, TypeOK, Model
  <2>4. \A j \in Step : j # k => wal'[j] = wal[j]
    BY <1>9 DEF WalCommitted, LogStatus, IInv, TypeOK
  <2> QED BY <1>9, <2>2, <2>3, <2>4 DEF WalCommitted, LogStatus
<1>10. CASE OptimizerStep BY <1>10 DEF OptimizerStep, disk
<1>11. CASE RemoveOld \/ Promote \/ (AppendCommit /\ ~Down)
  <2>1. wal[k] # "COMMITTED" BY <1>11 DEF RemoveOld, Promote, AppendCommit
  <2>2. \A j \in Step : j # k => ckpt'[j] = ckpt[j] /\ commits'[j] = commits[j]
    BY <1>11 DEF RemoveOld, Promote, SetCkpt, AppendCommit, IInv, TypeOK
  <2>3. wal' = wal /\ k' = k
    BY <1>11 DEF RemoveOld, Promote, SetCkpt, AppendCommit, memory
  <2> QED BY <2>1, <2>2, <2>3
<1>12. CASE AppendCommit /\ Down
  <2>1. k \in Step
    BY <1>12 DEF AppendCommit, IInv, StepInv, AfterStep, Stepped, InStep
  <2>2. \A j \in Step : wal'[j] = "COMMITTED" => wal[j] = "COMMITTED" /\ commits'[j] = commits[j]
    BY <1>12, <2>1 DEF AppendCommit, IInv, TypeOK, Down
  <2>3. ckpt' = ckpt BY <1>12 DEF AppendCommit
  <2> QED BY <1>12, <2>2, <2>3, DownRun
<1> QED
  BY <1>2, <1>3, <1>4, <1>5, <1>6, <1>7, <1>8, <1>9, <1>10, <1>11, <1>12
  DEF Next, Trainer, Done

LEMMA RunInvariant == Spec => []RunInv
<1>1. Init => ServerInv /\ BufferedInv /\ WalInv
  BY DEF Init, ServerInv, BufferedInv, WalInv, HoldsOneBatch, AfterStep, AfterCommit, SyncPCs,
       LagBounded, WalCommittedIsPromoted, InTry, Finished
<1>2. RunInv /\ [Next]_vars => RunInv'
  BY InvStep, ServerStep, BufferedStep, WalStep DEF RunInv
<1> QED BY <1>1, <1>2, InitInv, PTL DEF Spec, RunInv

----------------------------------------------------------------------------
(* Theorems                                                                *)

\* The training loop is type correct, and where its process is in a step
\* determines how its model relates to the last finished step.
THEOREM LoopInvariant == Spec => [](TypeOK /\ StepInv)
<1>1. IInv => TypeOK /\ StepInv BY DEF IInv
<1> QED BY <1>1, InitInv, InvStep, PTL DEF Spec

\* analyze_training and --resume: the checkpoint and the commit event of every
\* finished step hold the policy that step produced, for any number of steps
\* and crashes.
THEOREM RecoveryPlanIsLoadable == Spec => []PlanIsLoadable
<1>1. IInv => PlanIsLoadable BY DEF IInv
<1> QED BY <1>1, InitInv, InvStep, PTL DEF Spec

\* Crash and resume never lose, revert or repeat a finished training step.
THEOREM RefinesLineage == Spec => ImplementsLineage
<1>1. Init => Lineage!LineageInit
  BY DEF Init, Lineage!LineageInit, LastPolicy, Finished
<1>2. IInv /\ [Next]_vars => [Lineage!FinishOne]_LastPolicy
  <2> SUFFICES ASSUME IInv, [Next]_vars, LastPolicy' # LastPolicy
               PROVE  Lineage!FinishOne
    OBVIOUS
  <2>1. tsteps' # tsteps BY SameFinished
  <2>2. FinishStep
    BY <2>1 DEF Next, vars, disk, Trainer, Done, StartFresh, Resume, Crash, PushFails,
         SyncRequested, SyncStarted, PushWeights, RuntimeLoaded, CanaryMismatch,
         CanaryAgrees, CanaryPassed, AppendSync, WarmUp, Rollout, Consume, WalPrepared,
         OptimizerStep, WalApplied, RemoveOld, Promote, SetCkpt, AppendCommit,
         WalCheckpointed, WalCommitted, LogStatus
  <2> QED BY <2>2, FinishFacts DEF Lineage!FinishOne
<1> QED BY <1>1, <1>2, InitInv, InvStep, PTL DEF Spec, ImplementsLineage, Lineage!LineageSpec

\* Also in the first steps after a resume, a rollout is answered by the weights
\* the trainer holds, and those are the policy its generation events claim.
THEOREM RolloutsAreCurrent == Spec => []RolloutFromCurrentPolicy
<1>1. RunInv => RolloutFromCurrentPolicy
  <2> SUFFICES ASSUME RunInv, pc \in {"warmup", "rollout"}
               PROVE  server = model /\ Len(model) = (IF pc = "warmup" THEN k ELSE k - 1)
    BY DEF RolloutFromCurrentPolicy
  <2>1. server = model BY DEF RunInv, ServerInv
  <2>2. CASE pc = "warmup"
    <3>1. AtRest BY <2>2 DEF RunInv, IInv, StepInv
    <3>2. CASE k = 0 BY <2>1, <2>2, <3>1, <3>2 DEF AtRest, LastPolicy
    <3>3. CASE k # 0
      <4>1. IsLastStep(k) BY <3>1, <3>3 DEF AtRest
      <4>2. LastPolicy = tsteps[k] /\ k \in Finished BY <4>1, LastPolicyIs DEF IsLastStep
      <4> QED BY <2>1, <2>2, <3>1, <3>3, <4>2 DEF AtRest, RunInv, ServerInv
    <3> QED BY <2>1, <3>2, <3>3, <2>2
  <2>3. CASE pc = "rollout"
    <3>1. InStep /\ model = LastPolicy BY <2>3 DEF RunInv, IInv, StepInv, BeforeStep
    <3>2. CASE k = 1 BY <2>1, <2>3, <3>1, <3>2 DEF InStep, LastPolicy
    <3>3. CASE k # 1
      <4>1. IsLastStep(k - 1) BY <3>1, <3>3 DEF InStep
      <4>2. LastPolicy = tsteps[k - 1] /\ k - 1 \in Finished BY <4>1, LastPolicyIs DEF IsLastStep
      <4> QED BY <2>1, <2>3, <3>1, <4>2 DEF RunInv, ServerInv
    <3> QED BY <2>1, <3>2, <3>3, <2>3
  <2> QED BY <2>1, <2>2, <2>3
<1> QED BY <1>1, RunInvariant, PTL

\* The FIFO of one batch keeps the data of a step at most one policy behind,
\* for any number of steps, crashes and resumes.
THEOREM LagIsBounded == Spec => []LagBounded
<1>1. RunInv => LagBounded BY DEF RunInv, BufferedInv
<1> QED BY <1>1, RunInvariant, PTL

\* Whenever the WAL ends in COMMITTED, the checkpoint of that update is whole
\* and no commit event contradicts it, also after a fresh start removed the log.
THEOREM CommittedIsPromoted == Spec => []WalCommittedIsPromoted
<1>1. RunInv => WalCommittedIsPromoted BY DEF RunInv, WalInv
<1> QED BY <1>1, RunInvariant, PTL
=============================================================================
