------------------------- MODULE GuardedStepProofs -------------------------
(***************************************************************************)
(* Proofs about GuardedStep for every number of workers, inputs, nonces    *)
(* and batches: type correctness, exactly-once application of nonces, and  *)
(* the refinement of NonceLedger.                                          *)
(***************************************************************************)
EXTENDS GuardedStep, SequenceTheorems, WellFoundedInduction, TLAPS

\* A call in flight has a batch, and its loop index points into it.
CallInv ==
  \A w \in Worker : pc[w] \notin {"idle", "dead"} =>
    batch[w] \in Batches /\ pos[w] \in 1..Len(batch[w])

\* The caller holds a handle for every member of the batch it passed.
HandlesInv ==
  \A w \in Worker : pc[w] \notin {"idle", "dead"} =>
    \A i \in Members(batch[w]) : handle[w][i] # NoHandle

\* Batches are non-empty sequences of inputs, whose nonces are nonces.
LEMMA BatchFacts ==
  ASSUME NEW b \in Batches
  PROVE  /\ b \in Seq(Input)
         /\ Len(b) \in Nat \ {0}
         /\ DOMAIN b = 1..Len(b)
         /\ \A k \in 1..Len(b) : b[k] \in Input /\ NonceOf[b[k]] \in Nonce
         /\ Members(b) \subseteq Input
         /\ NoncesOf(b) \subseteq Nonce
         /\ NoncesOf(b) # {}
         /\ NoncesOf(b) = {NonceOf[b[k]] : k \in DOMAIN b}
<1>1. b \in Seq(Input) /\ b # <<>>
  BY ConstantsOK
<1>2. Len(b) \in Nat \ {0} /\ DOMAIN b = 1..Len(b)
  BY <1>1, EmptySeq, LenProperties
<1>3. \A k \in 1..Len(b) : b[k] \in Input /\ NonceOf[b[k]] \in Nonce
  BY <1>1, <1>2, ElementOfSeq, ConstantsOK
<1>4. 1 \in 1..Len(b)
  BY <1>2
<1>5. Members(b) \subseteq Input /\ b[1] \in Members(b)
  BY <1>2, <1>3, <1>4 DEF Members
<1>6. NoncesOf(b) \subseteq Nonce /\ NonceOf[b[1]] \in NoncesOf(b)
  BY <1>5, ConstantsOK DEF NoncesOf
<1>7. NoncesOf(b) = {NonceOf[b[k]] : k \in DOMAIN b}
  BY DEF NoncesOf, Members
<1> QED
  BY <1>1, <1>2, <1>3, <1>5, <1>6, <1>7

\* Every way of adding to the log keeps it a sequence of lines.
LEMMA WriteLineType ==
  ASSUME NEW log \in Seq(Line), NEW status \in Statuses, NEW b \in Batches
  PROVE  WriteLine(log, Record(status, b)) \in Seq(Line)
<1>1. Record(status, b) \in Line
  <2>1. UpdateOf[b[1]] \in UpdateId
    BY BatchFacts, ConstantsOK
  <2> QED
    BY <2>1, BatchFacts DEF Record, Line, Statuses
<1>2. Rubble("GLUED") \in Line
  BY DEF Rubble, Line
<1>3. Append(log, Record(status, b)) \in Seq(Line)
  BY <1>1, AppendProperties
<1>4. ASSUME log # <<>>
      PROVE  [log EXCEPT ![Len(log)] = Rubble("GLUED")] \in Seq(Line)
  <2>1. Len(log) \in 1..Len(log)
    BY <1>4, EmptySeq
  <2> QED
    BY <1>2, <2>1, ExceptSeq
<1> QED
  BY <1>3, <1>4 DEF WriteLine, EndsTorn

LEMMA TearLineType ==
  ASSUME NEW log \in Seq(Line)
  PROVE  TearLine(log) \in Seq(Line)
<1>1. Rubble("TORN") \in Line
  BY DEF Rubble, Line
<1> QED
  BY <1>1, AppendProperties DEF TearLine

----------------------------------------------------------------------------
\* A log write keeps the log typed.
LEMMA LoggedType ==
  ASSUME TypeOK, NEW w \in Worker, batch[w] \in Batches,
         NEW status \in Statuses, Logged(w, status)
  PROVE  wal' \in Seq(Line)
BY WriteLineType DEF TypeOK, Logged

\* A step of the loop keeps the index inside the batch.
LEMMA AdvanceType ==
  ASSUME TypeOK, CallInv, NEW w \in Worker, pc[w] \notin {"idle", "dead"},
         NEW label \in PCs, Advance(w, label)
  PROVE  /\ pos' \in [Worker -> Nat \ {0}]
         /\ pc' \in [Worker -> PCs]
         /\ UNCHANGED <<batch, gsize>>
         /\ CallInv'
<1>1. /\ pc \in [Worker -> PCs]
      /\ pos \in [Worker -> Nat \ {0}]
      /\ batch' = batch /\ gsize' = gsize
  BY DEF TypeOK, Advance
<1>2. batch[w] \in Batches /\ Len(batch[w]) \in Nat \ {0} /\ pos[w] \in 1..Len(batch[w])
  BY BatchFacts DEF CallInv
<1>3. CASE pos[w] < Len(batch[w])
  <2>1. pos' = [pos EXCEPT ![w] = @ + 1] /\ pc' = pc
    BY <1>2, <1>3 DEF Advance
  <2> QED
    BY <1>1, <1>2, <1>3, <2>1 DEF CallInv
<1>4. CASE pos[w] >= Len(batch[w])
  <2>1. pos' = [pos EXCEPT ![w] = 1] /\ pc' = [pc EXCEPT ![w] = label]
    BY <1>2, <1>4 DEF Advance, Goto
  <2> QED
    BY <1>1, <1>2, <2>1 DEF CallInv
<1> QED
  BY <1>2, <1>3, <1>4

\* The end of a call, and the end of a process, keep the call typed.
LEMMA LeaveType ==
  ASSUME TypeOK, CallInv, NEW w \in Worker,
         Goto(w, "idle") \/ Goto(w, "dead"),
         batch' = [batch EXCEPT ![w] = <<>>],
         gsize' = [gsize EXCEPT ![w] = Unbound],
         pos' = [pos EXCEPT ![w] = 1]
  PROVE  /\ pos' \in [Worker -> Nat \ {0}]
         /\ pc' \in [Worker -> PCs]
         /\ batch' \in [Worker -> Batches \cup {<<>>}]
         /\ gsize' \in [Worker -> GroupSize \cup {Unbound}]
         /\ CallInv'
<1>1. /\ pc \in [Worker -> PCs]
      /\ pos \in [Worker -> Nat \ {0}]
      /\ batch \in [Worker -> Batches \cup {<<>>}]
      /\ gsize \in [Worker -> GroupSize \cup {Unbound}]
  BY DEF TypeOK
<1> QED
  BY <1>1 DEF CallInv, Goto, PCs

\* Moving on inside a call, its arguments unchanged.
LEMMA GotoType ==
  ASSUME TypeOK, CallInv, NEW w \in Worker, pc[w] \notin {"idle", "dead"},
         NEW label \in PCs, Goto(w, label), UNCHANGED Arguments
  PROVE  /\ pc' \in [Worker -> PCs]
         /\ CallInv'
BY DEF TypeOK, CallInv, Goto, Arguments

\* Setting a flag of a handle.
LEMMA HandleType ==
  ASSUME TypeOK, NEW w \in Worker, NEW i \in Input, handle[w][i] # NoHandle,
         \/ handle' = [handle EXCEPT ![w][i].consumed = TRUE]
         \/ handle' = [handle EXCEPT ![w][i].rewired = TRUE]
  PROVE  handle' \in [Worker -> [Input -> Handle \cup {NoHandle}]]
<1>1. handle \in [Worker -> [Input -> Handle \cup {NoHandle}]]
  BY DEF TypeOK
<1>2. handle[w] \in [Input -> Handle \cup {NoHandle}] /\ handle[w][i] \in Handle
  BY <1>1
<1>3. /\ [handle[w][i] EXCEPT !.consumed = TRUE] \in Handle
      /\ [handle[w][i] EXCEPT !.rewired = TRUE] \in Handle
  BY <1>2 DEF Handle
<1> QED
  BY <1>1, <1>2, <1>3

LEMMA TypeStep ==
  ASSUME TypeOK, CallInv, HandlesInv, [Next]_vars
  PROVE  TypeOK' /\ CallInv'
<1>1. CASE Corrupt
  BY <1>1 DEF Corrupt, TypeOK, CallInv, local
<1>2. CASE UNCHANGED vars
  BY <1>2 DEF vars, TypeOK, CallInv
<1>3. ASSUME NEW w \in Worker, WorkerStep(w)
      PROVE  TypeOK' /\ CallInv'
  <2>1. CASE Materialize(w)
    BY <2>1 DEF Materialize, Handle, TypeOK, CallInv, shared, Arguments
  <2>2. CASE RewireReward(w)
    <3>1. PICK i \in Input : /\ handle[w][i] # NoHandle
                             /\ handle' = [handle EXCEPT ![w][i].rewired = TRUE]
      BY <2>2, ConstantsOK DEF RewireReward
    <3>2. handle' \in [Worker -> [Input -> Handle \cup {NoHandle}]]
      BY <3>1, HandleType
    <3> QED
      BY <2>2, <3>2 DEF RewireReward, TypeOK, CallInv, shared, Arguments
  <2>3. CASE AdapterUpdate(w)
    <3>1. adapterSeen' \in [Worker -> SUBSET Nonce]
      BY <2>3, ConstantsOK DEF AdapterUpdate, TypeOK
    <3>2. PICK i \in Input : /\ handle[w][i] # NoHandle
                             /\ handle' = [handle EXCEPT ![w][i].consumed = TRUE]
      BY <2>3, ConstantsOK DEF AdapterUpdate
    <3>3. handle' \in [Worker -> [Input -> Handle \cup {NoHandle}]]
      BY <3>2, HandleType
    <3> QED
      BY <2>3, <3>1, <3>3 DEF AdapterUpdate, TypeOK, CallInv, shared, Arguments
  <2>4. CASE Submit(w)
    BY <2>4, BatchFacts DEF Submit, TypeOK, CallInv, PCs, Goto, shared
  <2>5. CASE Check(w)
    <3>1. /\ pos' \in [Worker -> Nat \ {0}] /\ pc' \in [Worker -> PCs]
          /\ batch' \in [Worker -> Batches \cup {<<>>}]
          /\ gsize' \in [Worker -> GroupSize \cup {Unbound}]
          /\ CallInv'
      BY <2>5, AdvanceType, LeaveType DEF Check, Leave, PCs, TypeOK
    <3> QED
      BY <2>5, <3>1 DEF Check, TypeOK, shared
  <2>6. CASE Consume(w)
    <3>1. /\ pos' \in [Worker -> Nat \ {0}] /\ pc' \in [Worker -> PCs]
          /\ batch' \in [Worker -> Batches \cup {<<>>}]
          /\ gsize' \in [Worker -> GroupSize \cup {Unbound}]
          /\ CallInv'
      BY <2>6, AdvanceType, LeaveType DEF Consume, Leave, PCs, TypeOK
    <3>2. NonceOf[Current(w)] \in Nonce
      BY <2>6, BatchFacts DEF Consume, Current, CallInv
    <3> QED
      BY <2>6, <3>1, <3>2 DEF Consume, TypeOK
  <2>7. CASE Take(w)
    <3>1. /\ pos' \in [Worker -> Nat \ {0}] /\ pc' \in [Worker -> PCs]
          /\ batch' \in [Worker -> Batches \cup {<<>>}]
          /\ gsize' \in [Worker -> GroupSize \cup {Unbound}]
          /\ CallInv'
      BY <2>7, AdvanceType, LeaveType DEF Take, Leave, PCs, TypeOK
    <3>2. Current(w) \in Input
      BY <2>7, BatchFacts DEF Take, Current, CallInv
    <3>3. handle' \in [Worker -> [Input -> Handle \cup {NoHandle}]]
      <4>1. CASE handle' = handle
        BY <4>1 DEF TypeOK
      <4>2. CASE handle' # handle
        <5>1. /\ ~handle[w][Current(w)].consumed
              /\ handle' = [handle EXCEPT ![w][Current(w)].consumed = TRUE]
          BY <2>7, <4>2 DEF Take
        <5>2. Current(w) \in Members(batch[w]) /\ pc[w] = "take"
          BY <2>7, BatchFacts DEF Take, Current, CallInv, Members
        <5>3. handle[w][Current(w)] # NoHandle
          BY <5>2 DEF HandlesInv
        <5> QED
          BY <3>2, <5>1, <5>3, HandleType
      <4> QED
        BY <4>1, <4>2
    <3> QED
      BY <2>7, <3>1, <3>3 DEF Take, TypeOK, shared
  <2>8. CASE Bind(w)
    <3>1. /\ pos' \in [Worker -> Nat \ {0}] /\ pc' \in [Worker -> PCs]
          /\ batch' \in [Worker -> Batches \cup {<<>>}]
          /\ gsize' \in [Worker -> GroupSize \cup {Unbound}]
          /\ CallInv'
      BY <2>8, GotoType, LeaveType DEF Bind, Leave, PCs, TypeOK, Arguments
    <3> QED
      BY <2>8, <3>1 DEF Bind, TypeOK, shared
  <2>9. CASE Prepare(w)
    <3>1. /\ pos' \in [Worker -> Nat \ {0}] /\ pc' \in [Worker -> PCs]
          /\ batch' \in [Worker -> Batches \cup {<<>>}]
          /\ gsize' \in [Worker -> GroupSize \cup {Unbound}]
          /\ CallInv'
      BY <2>9, GotoType, LeaveType DEF Prepare, Leave, PCs, TypeOK, Arguments
    <3>2. wal' \in Seq(Line)
      BY <2>9, LoggedType DEF Prepare, LogRaises, Statuses, TypeOK, CallInv
    <3> QED
      BY <2>9, <3>1, <3>2 DEF Prepare, TypeOK
  <2>10. CASE OptimizerStep(w)
    <3>1. pc' \in [Worker -> PCs] /\ CallInv'
      BY <2>10, GotoType DEF OptimizerStep, PCs
    <3>2. params' \in [Worker -> SUBSET Input]
      <4>1. params \in [Worker -> SUBSET Input] /\ Members(batch[w]) \subseteq Input
        <5>1. batch[w] \in Batches
          BY <2>10 DEF OptimizerStep, CallInv
        <5> QED
          BY <5>1, BatchFacts DEF TypeOK
      <4>2. params' = [params EXCEPT ![w] = @ \cup Members(batch[w])] \/ params' = params
        BY <2>10 DEF OptimizerStep
      <4> QED
        BY <4>1, <4>2
    <3>3. applications' \in [Nonce -> Nat]
      <4>1. applications \in [Nonce -> Nat]
        BY DEF TypeOK
      <4> QED
        BY <2>10, <4>1 DEF OptimizerStep
    <3> QED
      BY <2>10, <3>1, <3>2, <3>3 DEF OptimizerStep, TypeOK, shared, Arguments
  <2>11. CASE LogApplied(w) \/ LogCheckpointed(w) \/ LogCommitted(w)
    <3>1. pc' \in [Worker -> PCs] /\ CallInv'
      BY <2>11, GotoType DEF LogApplied, LogCheckpointed, LogCommitted, LogInTry, PCs
    <3>2. wal' \in Seq(Line)
      BY <2>11, LoggedType DEF LogApplied, LogCheckpointed, LogCommitted, LogInTry,
         LogRaises, Statuses, TypeOK, CallInv
    <3> QED
      BY <2>11, <3>1, <3>2 DEF LogApplied, LogCheckpointed, LogCommitted, LogInTry,
         TypeOK, Arguments
  <2>12. CASE CommitFn(w)
    <3>1. pc' \in [Worker -> PCs] /\ CallInv'
      BY <2>12, GotoType DEF CommitFn, PCs
    <3>2. ckpts' \subseteq SUBSET Input
      <4>1. ckpts \subseteq SUBSET Input /\ params[w] \subseteq Input
        BY DEF TypeOK
      <4>2. ckpts' \subseteq ckpts \cup {params[w]}
        BY <2>12 DEF CommitFn
      <4> QED
        BY <4>1, <4>2
    <3> QED
      BY <2>12, <3>1, <3>2 DEF CommitFn, TypeOK, Arguments
  <2>13. CASE Return(w)
    BY <2>13, LeaveType DEF Return, Leave, TypeOK, shared
  <2>14. CASE Die(w) /\ UNCHANGED <<registry, intact, ckpts, applications>>
              /\ wal' \in Seq(Line)
    <3>1. /\ handle' \in [Worker -> [Input -> Handle \cup {NoHandle}]]
          /\ adapterSeen' \in [Worker -> SUBSET Nonce]
          /\ params' \in [Worker -> SUBSET Input]
      BY <2>14 DEF Die, TypeOK
    <3> QED
      BY <2>14, <3>1, LeaveType DEF Die, TypeOK
  <2>15. CASE Abort(w)
    <3>1. wal' \in Seq(Line)
      BY <2>15, LoggedType DEF Abort, LogRaises, Statuses, TypeOK, CallInv
    <3> QED
      BY <2>14, <2>15, <3>1 DEF Abort
  <2>16. CASE Crash(w)
    BY <2>14, <2>16, TearLineType DEF Crash, TypeOK
  <2>17. CASE Restart(w)
    BY <2>17 DEF Restart, TypeOK, CallInv, PCs, Goto, Arguments, shared
  <2> QED
    BY <1>3, <2>1, <2>2, <2>3, <2>4, <2>5, <2>6, <2>7, <2>8, <2>9, <2>10,
       <2>11, <2>12, <2>13, <2>15, <2>16, <2>17 DEF WorkerStep
<1> QED
  BY <1>1, <1>2, <1>3 DEF Next

\* Every step that moves a call on keeps its handles; a call starts with them.
LEMMA HandlesStep ==
  ASSUME TypeOK, CallInv, HandlesInv, [Next]_vars
  PROVE  HandlesInv'
<1> USE DEF HandlesInv
<1>1. CASE Corrupt \/ UNCHANGED vars
  BY <1>1 DEF Corrupt, vars, local
<1>2. ASSUME NEW w \in Worker, WorkerStep(w)
      PROVE  HandlesInv'
  <2> USE DEF TypeOK, Goto, Arguments, shared
  <2>1. CASE Materialize(w) \/ RewireReward(w) \/ AdapterUpdate(w)
    BY <2>1 DEF Materialize, RewireReward, AdapterUpdate
  <2>2. CASE Submit(w)
    BY <2>2 DEF Submit
  <2>3. CASE Check(w) \/ Consume(w)
    BY <2>3 DEF Check, Consume, Advance, Leave
  <2>4. CASE Take(w)
    <3>1. CASE handle' = handle
      BY <2>4, <3>1 DEF Take, Advance, Leave
    <3>2. CASE handle' # handle
      <4>1. /\ handle' = [handle EXCEPT ![w][Current(w)].consumed = TRUE]
            /\ Advance(w, "bind")
        BY <2>4, <3>2 DEF Take
      <4>2. Current(w) \in Members(batch[w]) /\ pc[w] = "take"
        BY <2>4, BatchFacts DEF Take, Current, CallInv, Members
      <4>3. handle[w][Current(w)] \in Handle
        <5>1. Current(w) \in Input /\ handle[w][Current(w)] # NoHandle
          BY <4>2, BatchFacts DEF CallInv
        <5> QED
          BY <5>1
      <4>4. [handle[w][Current(w)] EXCEPT !.consumed = TRUE] \in Handle
        BY <4>3 DEF Handle
      <4>5. [handle[w][Current(w)] EXCEPT !.consumed = TRUE] # NoHandle
        BY <4>4, ConstantsOK
      <4>6. \A v \in Worker : \A i \in Input :
              handle[v][i] # NoHandle => handle'[v][i] # NoHandle
        BY <4>1, <4>5
      <4>7. \A v \in Worker : pc'[v] \notin {"idle", "dead"} =>
              pc[v] \notin {"idle", "dead"} /\ batch'[v] = batch[v]
        BY <4>1, <4>2 DEF Advance
      <4>8. \A v \in Worker : pc[v] \notin {"idle", "dead"} => Members(batch[v]) \subseteq Input
        BY BatchFacts DEF CallInv
      <4> QED
        BY <4>6, <4>7, <4>8
    <3> QED
      BY <3>1, <3>2
  <2>5. CASE Bind(w) \/ Prepare(w) \/ OptimizerStep(w) \/ CommitFn(w) \/ Return(w)
    BY <2>5 DEF Bind, Prepare, OptimizerStep, CommitFn, Return, Leave
  <2>6. CASE LogApplied(w) \/ LogCheckpointed(w) \/ LogCommitted(w)
    BY <2>6 DEF LogApplied, LogCheckpointed, LogCommitted, LogInTry
  <2>7. CASE Abort(w) \/ Crash(w) \/ Restart(w)
    BY <2>7 DEF Abort, Crash, Restart, Die
  <2> QED
    BY <1>2, <2>1, <2>2, <2>3, <2>4, <2>5, <2>6, <2>7 DEF WorkerStep
<1> QED
  BY <1>1, <1>2 DEF Next

\* guarded_optimizer_step and its registry, log and handles are type-correct:
\* in particular the log only ever holds complete lines and crash debris, and
\* every call in flight works on a non-empty list of sealed inputs.
THEOREM TypeCorrect == Spec => [](TypeOK /\ CallInv /\ HandlesInv)
<1>1. Init => TypeOK /\ CallInv /\ HandlesInv
  BY EmptySeq DEF Init, TypeOK, CallInv, HandlesInv, PCs
<1>2. TypeOK /\ CallInv /\ HandlesInv /\ [Next]_vars
        => (TypeOK /\ CallInv /\ HandlesInv)'
  BY TypeStep, HandlesStep
<1> QED
  BY <1>1, <1>2, PTL DEF Spec

----------------------------------------------------------------------------
(* Exactly-once.                                                           *)

\* A step of w moves the calls of no other worker.
LEMMA StepIsLocal ==
  ASSUME TypeOK, NEW w \in Worker, WorkerStep(w), NEW v \in Worker, v # w
  PROVE  pc'[v] = pc[v] /\ batch'[v] = batch[v] /\ pos'[v] = pos[v]
<1> USE DEF TypeOK, Goto, Leave, Arguments, Die, Advance
<1>1. CASE Materialize(w) \/ RewireReward(w) \/ AdapterUpdate(w) \/ Submit(w)
  BY <1>1 DEF Materialize, RewireReward, AdapterUpdate, Submit
<1>2. CASE Check(w) \/ Consume(w) \/ Take(w) \/ Bind(w) \/ Prepare(w)
  BY <1>2 DEF Check, Consume, Take, Bind, Prepare
<1>3. CASE \/ OptimizerStep(w) \/ LogApplied(w) \/ CommitFn(w) \/ LogCheckpointed(w)
           \/ LogCommitted(w)
  BY <1>3 DEF OptimizerStep, LogApplied, CommitFn, LogCheckpointed, LogCommitted, LogInTry
<1>4. CASE Return(w) \/ Abort(w) \/ Crash(w) \/ Restart(w)
  BY <1>4 DEF Return, Abort, Crash, Restart
<1> QED
  BY <1>1, <1>2, <1>3, <1>4 DEF WorkerStep

\* So their calls hold what they held.
LEMMA OthersHold ==
  ASSUME TypeOK, NEW w \in Worker, WorkerStep(w), NEW v \in Worker, v # w
  PROVE  Held(v)' = Held(v)
BY StepIsLocal DEF Held

\* A call holds nothing before its first nonce and after the optimizer step.
LEMMA HoldsNothing ==
  ASSUME TypeOK, NEW w \in Worker,
         \/ pc[w] \notin {"consume", "take", "bind", "prepare", "compute"}
         \/ pc[w] = "consume" /\ pos[w] = 1 /\ batch[w] \in Batches
  PROVE  Held(w) = {}
<1>1. CASE pc[w] \notin {"consume", "take", "bind", "prepare", "compute"}
  BY <1>1 DEF Held
<1>2. CASE pc[w] = "consume" /\ pos[w] = 1 /\ batch[w] \in Batches
  <2>1. \A j \in DOMAIN batch[w] : ~(j < pos[w])
    BY <1>2, BatchFacts
  <2> QED
    BY <1>2, <2>1 DEF Held
<1> QED
  BY <1>1, <1>2

\* Past the consume loop it holds every nonce of its batch.
LEMMA HoldsAll ==
  ASSUME NEW w \in Worker, batch[w] \in Batches,
         pc[w] \in {"take", "bind", "prepare", "compute"}
  PROVE  Held(w) = NoncesOf(batch[w])
BY BatchFacts DEF Held

\* A step that burns and spends nothing, and after which w holds no more than
\* before, keeps the ownership discipline.
LEMMA KeepOwnership ==
  ASSUME TypeOK, Ownership, NEW w \in Worker, WorkerStep(w),
         Held(w)' \subseteq Held(w),
         UNCHANGED <<registry, applications>>
  PROVE  Ownership'
<1>1. \A v \in Worker : Held(v)' \subseteq Held(v)
  BY OthersHold
<1>2. registry' = registry /\ applications' = applications
  OBVIOUS
<1> QED
  BY <1>1, <1>2 DEF Ownership

\* NonceRegistry.consume, as the ledger sees it.
LEMMA ConsumeBurns ==
  ASSUME TypeOK, TypeOK', CallInv, CallInv', NEW w \in Worker, Consume(w), registry' # registry
  PROVE  \E n \in Nonce :
           /\ n \notin registry
           /\ registry' = registry \cup {n}
           /\ Held(w)' = Held(w) \cup {n}
<1> DEFINE n == NonceOf[Current(w)]
<1>1. /\ pc[w] = "consume"
      /\ n \notin registry /\ registry' = registry \cup {n}
      /\ Advance(w, "take")
  BY DEF Consume
<1>2. batch[w] \in Batches /\ pos[w] \in 1..Len(batch[w]) /\ batch' = batch
  BY <1>1 DEF CallInv, Advance
<1>3. n \in Nonce /\ n = NonceOf[batch[w][pos[w]]]
  BY <1>2, BatchFacts DEF Current
<1>4. DOMAIN batch[w] = 1..Len(batch[w]) /\ Len(batch[w]) \in Nat
  BY <1>2, BatchFacts
<1>5. Held(w)' = {NonceOf[batch[w][k]] : k \in {j \in DOMAIN batch[w] : j <= pos[w]}}
  <2>1. CASE pos[w] < Len(batch[w])
    <3>1. pc'[w] = "consume" /\ pos'[w] = pos[w] + 1
      BY <1>1, <1>2, <1>4, <2>1 DEF Advance, TypeOK
    <3>2. \A j \in DOMAIN batch[w] : j < pos[w] + 1 <=> j <= pos[w]
      BY <1>2, <1>4
    <3> QED
      BY <1>2, <3>1, <3>2 DEF Held
  <2>2. CASE pos[w] >= Len(batch[w])
    <3>1. pc'[w] = "take"
      BY <1>1, <1>2, <1>4, <2>2 DEF Advance, Goto, TypeOK
    <3>2. \A j \in DOMAIN batch[w] : j <= pos[w]
      BY <1>2, <1>4, <2>2
    <3> QED
      BY <1>2, <3>1, <3>2 DEF Held
  <2> QED
    BY <1>2, <1>4, <2>1, <2>2
<1>6. Held(w) = {NonceOf[batch[w][k]] : k \in {j \in DOMAIN batch[w] : j < pos[w]}}
  BY <1>1 DEF Held
<1>7. \A j \in DOMAIN batch[w] : j <= pos[w] <=> j < pos[w] \/ j = pos[w]
  BY <1>2, <1>4
<1>8. Held(w)' = Held(w) \cup {n}
  BY <1>2, <1>3, <1>4, <1>5, <1>6, <1>7
<1> QED
  BY <1>1, <1>3, <1>8

\* optimizer.step, as the ledger sees it.
LEMMA OptimizerStepSpends ==
  ASSUME TypeOK, TypeOK', CallInv, Ownership, NEW w \in Worker, OptimizerStep(w),
         applications' # applications
  PROVE  \E S \in SUBSET Nonce :
           /\ S # {} /\ S = Held(w) /\ Held(w)' = {}
           /\ S \subseteq registry
           /\ \A n \in S : applications[n] = 0
           /\ applications' = [n \in Nonce |-> IF n \in S THEN 1 ELSE applications[n]]
<1> DEFINE S == NoncesOf(batch[w])
<1>1. /\ pc[w] = "compute"
      /\ applications' = [n \in Nonce |-> IF n \in S THEN applications[n] + 1
                                           ELSE applications[n]]
      /\ Goto(w, "applied")
  BY DEF OptimizerStep
<1>2. batch[w] \in Batches
  BY <1>1 DEF CallInv
<1>3. S \in SUBSET Nonce /\ S # {} /\ S = Held(w)
  BY <1>1, <1>2, BatchFacts, HoldsAll
<1>4. S \subseteq registry /\ \A n \in S : applications[n] = 0
  BY <1>3 DEF Ownership
<1>5. pc'[w] = "applied"
  BY <1>1 DEF Goto, TypeOK
<1>6. Held(w)' = {}
  BY <1>5 DEF Held
<1>7. applications' = [n \in Nonce |-> IF n \in S THEN 1 ELSE applications[n]]
  BY <1>1, <1>3, <1>4
<1> QED
  BY <1>3, <1>4, <1>6, <1>7

\* The three kinds of step the ledger can tell apart.
LEMMA OwnershipStep ==
  ASSUME TypeOK, CallInv, HandlesInv, Ownership, [Next]_vars
  PROVE  Ownership' /\ [Ledger!LedgerNext]_<<registry, applications>>
<1>1. TypeOK' /\ CallInv'
  BY TypeStep
<1>2. CASE Corrupt \/ UNCHANGED vars
  BY <1>2 DEF Corrupt, vars, local, Ownership, Held
<1>3. ASSUME NEW w \in Worker, WorkerStep(w)
      PROVE  Ownership' /\ [Ledger!LedgerNext]_<<registry, applications>>
  <2>1. CASE Materialize(w) \/ RewireReward(w) \/ AdapterUpdate(w)
    <3>1. Held(w)' \subseteq Held(w) /\ UNCHANGED <<registry, applications>>
      BY <2>1 DEF Materialize, RewireReward, AdapterUpdate, Arguments, shared, Held
    <3> QED
      BY <1>3, <3>1, KeepOwnership
  <2>2. CASE Submit(w)
    <3>1. pc'[w] = "check" /\ UNCHANGED <<registry, applications>>
      BY <2>2 DEF Submit, Goto, TypeOK, shared
    <3> QED
      BY <1>3, <3>1, KeepOwnership DEF Held
  <2>3. CASE Check(w)
    <3>1. /\ UNCHANGED <<registry, applications>>
          /\ \/ pc'[w] \in {"idle", "check"}
             \/ pc'[w] = "consume" /\ pos'[w] = 1
      BY <2>3 DEF Check, Advance, Leave, Goto, TypeOK, shared
    <3>2. Held(w)' = {}
      <4>1. CASE pc'[w] \in {"idle", "check"}
        BY <4>1 DEF Held
      <4>2. CASE pc'[w] = "consume" /\ pos'[w] = 1
        <5>1. batch'[w] \in Batches
          BY <1>1, <4>2 DEF CallInv
        <5>2. \A j \in DOMAIN batch'[w] : ~(j < 1)
          BY <5>1, BatchFacts
        <5> QED
          BY <4>2, <5>2 DEF Held
      <4> QED
        BY <3>1, <4>1, <4>2
    <3> QED
      BY <1>3, <3>1, <3>2, KeepOwnership
  <2>4. CASE Consume(w) /\ registry' = registry
    <3>1. pc'[w] = "idle" /\ UNCHANGED <<registry, applications>>
      BY <2>4 DEF Consume, Leave, Goto, TypeOK
    <3> QED
      BY <1>3, <3>1, KeepOwnership DEF Held
  <2>5. CASE Consume(w) /\ registry' # registry
    <3>1. PICK n \in Nonce : /\ n \notin registry
                             /\ registry' = registry \cup {n}
                             /\ Held(w)' = Held(w) \cup {n}
      BY <1>1, <2>5, ConsumeBurns
    <3>2. applications' = applications
      BY <2>5 DEF Consume
    <3>3. \A v \in Worker : v # w => Held(v)' = Held(v)
      BY <1>3, OthersHold
    <3>4. Ledger!Burn(n)
      BY <3>1, <3>2 DEF Ledger!Burn
    <3>5. applications[n] = 0 /\ \A v \in Worker : n \notin Held(v)
      BY <3>1 DEF Ownership, TypeOK
    <3>6. Ownership'
      <4>1. \A v \in Worker : Held(v)' \subseteq registry'
        BY <3>1, <3>3 DEF Ownership
      <4>2. \A v \in Worker : \A m \in Held(v)' : applications'[m] = 0
        BY <3>1, <3>2, <3>3, <3>5 DEF Ownership
      <4>3. \A u, v \in Worker : u # v => Held(u)' \cap Held(v)' = {}
        BY <3>1, <3>3, <3>5 DEF Ownership
      <4>4. \A m \in Nonce : applications'[m] > 0 => m \in registry'
        BY <3>1, <3>2 DEF Ownership
      <4> QED
        BY <4>1, <4>2, <4>3, <4>4 DEF Ownership
    <3> QED
      BY <3>4, <3>6 DEF Ledger!LedgerNext
  <2>6. CASE Take(w) \/ Bind(w) \/ Prepare(w)
    <3>1. /\ pc[w] \in {"take", "bind", "prepare"}
          /\ \/ pc'[w] = "idle"
             \/ pc'[w] \in {"take", "bind", "prepare", "compute"} /\ batch'[w] = batch[w]
          /\ UNCHANGED <<registry, applications>>
      BY <2>6 DEF Take, Bind, Prepare, Advance, Leave, Goto, Arguments, TypeOK, shared
    <3>2. Held(w)' \subseteq Held(w)
      BY <3>1 DEF Held
    <3> QED
      BY <1>3, <3>1, <3>2, KeepOwnership
  <2>7. CASE OptimizerStep(w) /\ applications' = applications
    <3>1. pc[w] = "compute" /\ pc'[w] \in {"applied", "abort"} /\ registry' = registry
      BY <2>7 DEF OptimizerStep, Goto, TypeOK, shared
    <3>2. Held(w)' \subseteq Held(w)
      BY <3>1 DEF Held
    <3> QED
      BY <1>3, <2>7, <3>1, <3>2, KeepOwnership
  <2>8. CASE OptimizerStep(w) /\ applications' # applications
    <3>1. PICK S \in SUBSET Nonce :
             /\ S # {} /\ S = Held(w) /\ Held(w)' = {}
             /\ S \subseteq registry
             /\ \A n \in S : applications[n] = 0
             /\ applications' = [n \in Nonce |-> IF n \in S THEN 1 ELSE applications[n]]
      BY <1>1, <2>8, OptimizerStepSpends
    <3>2. registry' = registry
      BY <2>8 DEF OptimizerStep, shared
    <3>3. \A v \in Worker : v # w => Held(v)' = Held(v) /\ Held(v) \cap S = {}
      BY <1>3, <3>1, OthersHold DEF Ownership
    <3>4. Ledger!Spend(S)
      BY <3>1, <3>2 DEF Ledger!Spend
    <3>5. \A v \in Worker : Held(v)' \subseteq Nonce
      BY <3>1, <3>2, <3>3 DEF Ownership, TypeOK
    <3>6. Ownership'
      <4>1. \A v \in Worker : Held(v)' \subseteq registry'
        BY <3>1, <3>2, <3>3 DEF Ownership
      <4>2. \A v \in Worker : \A m \in Held(v)' : applications'[m] = 0
        BY <3>1, <3>3, <3>5 DEF Ownership
      <4>3. \A u, v \in Worker : u # v => Held(u)' \cap Held(v)' = {}
        BY <3>1, <3>3 DEF Ownership
      <4>4. \A m \in Nonce : applications'[m] > 0 => m \in registry'
        BY <3>1, <3>2 DEF Ownership
      <4> QED
        BY <4>1, <4>2, <4>3, <4>4 DEF Ownership
    <3> QED
      BY <3>4, <3>6 DEF Ledger!LedgerNext
  <2>9. CASE \/ LogApplied(w) \/ CommitFn(w) \/ LogCheckpointed(w) \/ LogCommitted(w)
             \/ Return(w) \/ Abort(w) \/ Crash(w) \/ Restart(w)
    <3>1. /\ pc'[w] \in {"idle", "commit", "checkpointed", "committing", "done", "abort", "dead"}
          /\ UNCHANGED <<registry, applications>>
      BY <2>9 DEF LogApplied, CommitFn, LogCheckpointed, LogCommitted, LogInTry, Return,
         Abort, Crash, Restart, Die, Leave, Goto, TypeOK, shared
    <3> QED
      BY <1>3, <3>1, KeepOwnership DEF Held
  <2> QED
    BY <1>3, <2>1, <2>2, <2>3, <2>4, <2>5, <2>6, <2>7, <2>8, <2>9 DEF WorkerStep
<1> QED
  BY <1>2, <1>3 DEF Next

\* Between burning and spending, every nonce belongs to one call only.
THEOREM OwnershipHolds == Spec => []Ownership
<1>1. Init => Ownership
  BY DEF Init, Ownership, Held
<1>2. TypeOK /\ CallInv /\ HandlesInv /\ Ownership /\ [Next]_vars => Ownership'
  BY OwnershipStep
<1> QED
  BY <1>1, <1>2, TypeCorrect, PTL DEF Spec

\* guarded_optimizer_step implements the ledger: its registry transactions
\* burn one nonce each, its optimizer steps spend burnt and unspent nonces,
\* and nothing else it does -- crashes and restarts included -- touches either.
THEOREM RefinesLedger == Spec => ImplementsLedger
<1>1. Init => Ledger!LedgerInit
  BY DEF Init, Ledger!LedgerInit
<1>2. TypeOK /\ CallInv /\ HandlesInv /\ Ownership /\ [Next]_vars
        => [Ledger!LedgerNext]_(Ledger!ledgerVars)
  BY OwnershipStep DEF Ledger!ledgerVars
<1> QED
  BY <1>1, <1>2, TypeCorrect, OwnershipHolds, PTL DEF Spec, ImplementsLedger, Ledger!LedgerSpec

\* No nonce feeds a second optimizer step.
THEOREM ExactlyOnce == Spec => []AppliedAtMostOnce
<1>1. Init => AppliedAtMostOnce
  BY DEF Init, AppliedAtMostOnce
<1>2. AppliedAtMostOnce /\ [Ledger!LedgerNext]_(Ledger!ledgerVars) => AppliedAtMostOnce'
  BY DEF AppliedAtMostOnce, Ledger!LedgerNext, Ledger!Burn, Ledger!Spend, Ledger!ledgerVars
<1> QED
  BY <1>1, <1>2, RefinesLedger, PTL DEF Spec, ImplementsLedger, Ledger!LedgerSpec

----------------------------------------------------------------------------
(* The capability of the optimizer entry.                                  *)

\* Nor does a step of w touch the memory of another worker.
LEMMA MemoryIsLocal ==
  ASSUME TypeOK, NEW w \in Worker, WorkerStep(w), NEW v \in Worker, v # w
  PROVE  handle'[v] = handle[v] /\ params'[v] = params[v] /\ gsize'[v] = gsize[v]
<1> USE DEF TypeOK, Leave, Arguments, Die, Advance
<1>1. CASE Materialize(w) \/ RewireReward(w) \/ AdapterUpdate(w) \/ Submit(w)
  BY <1>1 DEF Materialize, RewireReward, AdapterUpdate, Submit
<1>2. CASE Check(w) \/ Consume(w) \/ Take(w) \/ Bind(w) \/ Prepare(w)
  BY <1>2 DEF Check, Consume, Take, Bind, Prepare
<1>3. CASE \/ OptimizerStep(w) \/ LogApplied(w) \/ CommitFn(w) \/ LogCheckpointed(w)
           \/ LogCommitted(w)
  BY <1>3 DEF OptimizerStep, LogApplied, CommitFn, LogCheckpointed, LogCommitted, LogInTry
<1>4. CASE Return(w) \/ Abort(w) \/ Crash(w) \/ Restart(w)
  BY <1>4 DEF Return, Abort, Crash, Restart
<1> QED
  BY <1>1, <1>2, <1>3, <1>4 DEF WorkerStep

\* Phase 1 has seen input i of w's call.
Seen(w, i) == i \in Allowed /\ ~handle[w][i].rewired

\* What the phases behind a call have established about its handles.
PhaseInv(w) ==
  /\ pc[w] = "check" =>
       \A k \in DOMAIN batch[w] : k < pos[w] => Seen(w, batch[w][k])
  /\ pc[w] \in {"consume", "take", "bind", "prepare", "compute"} =>
       \A i \in Members(batch[w]) : Seen(w, i)
  /\ pc[w] = "take" =>
       \A k \in DOMAIN batch[w] : k < pos[w] => handle[w][batch[w][k]].consumed
  /\ pc[w] \in {"bind", "prepare", "compute"} =>
       \A i \in Members(batch[w]) : handle[w][i].consumed
  /\ pc[w] \in {"prepare", "compute"} => BindingHolds(w)

\* The calls of the others keep what they have established.
LEMMA OthersPhase ==
  ASSUME TypeOK, NEW w \in Worker, WorkerStep(w), NEW v \in Worker, v # w, PhaseInv(v)
  PROVE  PhaseInv(v)'
BY StepIsLocal, MemoryIsLocal DEF PhaseInv, Seen, BindingHolds

\* The loops over the handles: one more is seen, the last one ends the phase.
LEMMA AdvanceCovers ==
  ASSUME TypeOK, CallInv, NEW w \in Worker, pc[w] \notin {"idle", "dead"},
         NEW label \in PCs, label # pc[w], Advance(w, label)
  PROVE  /\ batch'[w] = batch[w]
         /\ Current(w) \in Members(batch[w])
         /\ \/ /\ pc'[w] = pc[w]
               /\ \A k \in DOMAIN batch[w] : k < pos'[w] => k < pos[w] \/ k = pos[w]
            \/ /\ pc'[w] = label /\ pos'[w] = 1
               /\ \A k \in DOMAIN batch[w] : k < pos[w] \/ k = pos[w]
<1>1. /\ batch[w] \in Batches /\ pos[w] \in 1..Len(batch[w])
      /\ Len(batch[w]) \in Nat /\ DOMAIN batch[w] = 1..Len(batch[w])
  BY BatchFacts DEF CallInv
<1>2. batch'[w] = batch[w] /\ Current(w) \in Members(batch[w])
  BY <1>1 DEF Advance, Current, Members
<1>3. CASE pos[w] < Len(batch[w])
  BY <1>1, <1>2, <1>3 DEF Advance, TypeOK
<1>4. CASE pos[w] >= Len(batch[w])
  BY <1>1, <1>2, <1>4 DEF Advance, Goto, TypeOK
<1> QED
  BY <1>1, <1>3, <1>4

\* h.consume() sets one flag of one handle.
LEMMA TakeSetsFlag ==
  ASSUME TypeOK, NEW w \in Worker, NEW i \in Input, handle[w][i] # NoHandle,
         handle' = [handle EXCEPT ![w][i].consumed = TRUE]
  PROVE  /\ handle'[w][i].consumed
         /\ \A j \in Input : /\ handle'[w][j].rewired = handle[w][j].rewired
                             /\ handle[w][j].consumed => handle'[w][j].consumed
<1>1. handle[w] \in [Input -> Handle \cup {NoHandle}] /\ handle[w][i] \in Handle
  BY DEF TypeOK
<1>2. handle'[w] = [handle[w] EXCEPT ![i] = [handle[w][i] EXCEPT !.consumed = TRUE]]
  BY DEF TypeOK
<1>3. handle'[w][i] = [handle[w][i] EXCEPT !.consumed = TRUE]
  BY <1>1, <1>2
<1>4. /\ handle'[w][i].consumed = TRUE
      /\ handle'[w][i].rewired = handle[w][i].rewired
  BY <1>1, <1>3 DEF Handle
<1>5. \A j \in Input : j # i => handle'[w][j] = handle[w][j]
  BY <1>1, <1>2
<1> QED
  BY <1>4, <1>5

\* Each phase of a call establishes its part.
LEMMA PhaseStep ==
  ASSUME TypeOK, TypeOK', CallInv, HandlesInv, NEW w \in Worker, WorkerStep(w), PhaseInv(w)
  PROVE  PhaseInv(w)'
<1>1. CASE pc'[w] \notin {"check", "consume", "take", "bind", "prepare", "compute"}
  BY <1>1 DEF PhaseInv
<1>2. CASE \/ Materialize(w) \/ RewireReward(w) \/ AdapterUpdate(w)
           \/ LogApplied(w) \/ CommitFn(w) \/ LogCheckpointed(w) \/ LogCommitted(w)
           \/ OptimizerStep(w) \/ Return(w) \/ Abort(w) \/ Crash(w) \/ Restart(w)
  <2>1. pc'[w] \notin {"check", "consume", "take", "bind", "prepare", "compute"}
    BY <1>2 DEF Materialize, RewireReward, AdapterUpdate, LogApplied, CommitFn,
       LogCheckpointed, LogCommitted, LogInTry, OptimizerStep, Return, Abort, Crash,
       Restart, Die, Leave, Goto, TypeOK
  <2> QED
    BY <1>1, <2>1
<1>3. CASE Submit(w)
  <2>1. pc'[w] = "check" /\ pos'[w] = 1 /\ batch'[w] \in Batches
    BY <1>3 DEF Submit, Goto, TypeOK
  <2>2. \A k \in DOMAIN batch'[w] : ~(k < 1)
    BY <2>1, BatchFacts
  <2> QED
    BY <2>1, <2>2 DEF PhaseInv
<1>4. CASE Check(w) /\ pc'[w] \in {"check", "consume"}
  <2>1. pc[w] = "check" /\ Verified(w) /\ Advance(w, "consume") /\ handle' = handle
    BY <1>4 DEF Check, Leave, Goto, TypeOK
  <2>2. Seen(w, batch[w][pos[w]])
    BY <2>1 DEF Verified, Seen, Current
  <2>3. /\ batch'[w] = batch[w]
        /\ \/ /\ pc'[w] = "check"
              /\ \A k \in DOMAIN batch[w] : k < pos'[w] => k < pos[w] \/ k = pos[w]
           \/ /\ pc'[w] = "consume"
              /\ \A k \in DOMAIN batch[w] : k < pos[w] \/ k = pos[w]
    BY <2>1, AdvanceCovers DEF PCs
  <2> QED
    BY <2>1, <2>2, <2>3 DEF PhaseInv, Seen, Members
<1>5. CASE Consume(w) /\ pc'[w] \in {"consume", "take"}
  <2>1. pc[w] = "consume" /\ Advance(w, "take") /\ handle' = handle
    BY <1>5 DEF Consume, Leave, Goto, TypeOK
  <2>2. /\ batch'[w] = batch[w] /\ batch[w] \in Batches
        /\ \/ pc'[w] = "consume"
           \/ pc'[w] = "take" /\ pos'[w] = 1
    BY <2>1, AdvanceCovers DEF PCs, CallInv
  <2>3. \A k \in DOMAIN batch[w] : ~(k < 1)
    BY <2>2, BatchFacts
  <2> QED
    BY <2>1, <2>2, <2>3 DEF PhaseInv, Seen
<1>6. CASE Take(w) /\ pc'[w] \in {"take", "bind"}
  <2>1. /\ pc[w] = "take" /\ Advance(w, "bind")
        /\ handle' = [handle EXCEPT ![w][Current(w)].consumed = TRUE]
    BY <1>6 DEF Take, Leave, Goto, TypeOK
  <2>2. /\ batch'[w] = batch[w] /\ Current(w) \in Members(batch[w])
        /\ \/ /\ pc'[w] = "take"
              /\ \A k \in DOMAIN batch[w] : k < pos'[w] => k < pos[w] \/ k = pos[w]
           \/ /\ pc'[w] = "bind"
              /\ \A k \in DOMAIN batch[w] : k < pos[w] \/ k = pos[w]
    BY <2>1, AdvanceCovers DEF PCs
  <2>3. batch[w] \in Batches /\ Members(batch[w]) \subseteq Input
    BY <2>1, BatchFacts DEF CallInv
  <2>4. handle[w][Current(w)] # NoHandle
    BY <2>1, <2>2 DEF HandlesInv
  <2>5. /\ handle'[w][Current(w)].consumed
        /\ \A j \in Members(batch[w]) :
             /\ handle'[w][j].rewired = handle[w][j].rewired
             /\ handle[w][j].consumed => handle'[w][j].consumed
    BY <2>1, <2>2, <2>3, <2>4, TakeSetsFlag
  <2>6. \A j \in Members(batch[w]) : Seen(w, j)'
    BY <2>1, <2>5 DEF PhaseInv, Seen
  <2>7. \A k \in DOMAIN batch[w] : (k < pos[w] \/ k = pos[w]) =>
          handle'[w][batch[w][k]].consumed
    BY <2>1, <2>5 DEF PhaseInv, Members, Current
  <2> QED
    BY <2>2, <2>6, <2>7 DEF PhaseInv, Members
<1>7. CASE Bind(w) /\ pc'[w] = "prepare"
  <2>1. pc[w] = "bind" /\ BindingHolds(w) /\ UNCHANGED <<handle, params, batch, gsize>>
    BY <1>7 DEF Bind, Leave, Goto, Arguments, TypeOK
  <2> QED
    BY <1>7, <2>1 DEF PhaseInv, Seen, BindingHolds
<1>8. CASE Prepare(w) /\ pc'[w] = "compute"
  <2>1. pc[w] = "prepare" /\ UNCHANGED <<handle, params, batch, gsize>>
    BY <1>8 DEF Prepare, Leave, Goto, Arguments, TypeOK
  <2> QED
    BY <1>8, <2>1 DEF PhaseInv, Seen, BindingHolds
<1>9. Check(w) => pc'[w] \in {"check", "consume", "idle"}
  BY DEF Check, Advance, Leave, Goto, TypeOK
<1>10. Consume(w) => pc'[w] \in {"consume", "take", "idle"}
  BY DEF Consume, Advance, Leave, Goto, TypeOK
<1>11. Take(w) => pc'[w] \in {"take", "bind", "idle"}
  BY DEF Take, Advance, Leave, Goto, TypeOK
<1>12. (Bind(w) => pc'[w] \in {"prepare", "idle"}) /\ (Prepare(w) => pc'[w] \in {"compute", "idle"})
  BY DEF Bind, Prepare, Leave, Goto, TypeOK
<1> QED
  BY <1>1, <1>2, <1>3, <1>4, <1>5, <1>6, <1>7, <1>8, <1>9, <1>10, <1>11, <1>12 DEF WorkerStep

Phases == \A w \in Worker : PhaseInv(w)

LEMMA PhasesStep ==
  ASSUME TypeOK, CallInv, HandlesInv, Phases, [Next]_vars
  PROVE  Phases'
<1>1. TypeOK'
  BY TypeStep
<1>2. CASE Corrupt \/ UNCHANGED vars
  BY <1>2 DEF Corrupt, vars, local, Phases, PhaseInv, Seen, BindingHolds
<1>3. ASSUME NEW w \in Worker, WorkerStep(w)
      PROVE  Phases'
  <2> SUFFICES ASSUME NEW v \in Worker PROVE PhaseInv(v)'
    BY DEF Phases
  <2>1. PhaseInv(v)
    BY DEF Phases
  <2>2. CASE v = w
    BY <1>1, <1>3, <2>1, <2>2, PhaseStep
  <2>3. CASE v # w
    BY <1>3, <2>1, <2>3, OthersPhase
  <2> QED
    BY <2>2, <2>3
<1> QED
  BY <1>2, <1>3 DEF Next

\* A parameter update runs on verified, consumed and correctly bound handles
\* with burnt nonces, although other workers and the log come in between.
THEOREM StepsAreVerified == Spec => StepOnVerifiedBatch
<1>1. Init => Phases
  BY DEF Init, Phases, PhaseInv
<1>2. ASSUME TypeOK, CallInv, HandlesInv, Ownership, Phases, NEW w \in Worker, StepTaken(w)
      PROVE  /\ BindingHolds(w)
             /\ NoncesOf(batch[w]) \subseteq registry
             /\ \A i \in Members(batch[w]) :
                  /\ i \in Allowed
                  /\ handle[w][i].consumed
                  /\ ~handle[w][i].rewired
  <2>1. pc[w] = "compute" /\ batch[w] \in Batches
    BY <1>2 DEF StepTaken, CallInv
  <2>2. NoncesOf(batch[w]) \subseteq registry
    BY <1>2, <2>1, HoldsAll DEF Ownership
  <2>3. PhaseInv(w)
    BY <1>2 DEF Phases
  <2> QED
    BY <2>1, <2>2, <2>3 DEF PhaseInv, Seen
<1>3. TypeOK /\ CallInv /\ HandlesInv /\ Ownership /\ Phases =>
        [\A w \in Worker : StepTaken(w) =>
           /\ BindingHolds(w)
           /\ NoncesOf(batch[w]) \subseteq registry
           /\ \A i \in Members(batch[w]) :
                /\ i \in Allowed
                /\ handle[w][i].consumed
                /\ ~handle[w][i].rewired]_vars
  BY <1>2
<1>4. TypeOK /\ CallInv /\ HandlesInv /\ Phases /\ [Next]_vars => Phases'
  BY PhasesStep
<1> QED
  BY <1>1, <1>3, <1>4, TypeCorrect, OwnershipHolds, PTL DEF Spec, StepOnVerifiedBatch

----------------------------------------------------------------------------
(* The write-ahead log.                                                    *)

\* Every non-empty set of line numbers has a last one.
LEMMA LastLine ==
  ASSUME NEW n \in Nat, NEW S \in SUBSET (1..n), S # {}
  PROVE  \E k \in S : \A j \in S : j <= k
<1> DEFINE T == {m \in Nat : n - m \in S}
<1>1. T \subseteq Nat /\ T # {}
  <2>1. PICK k \in S : TRUE
    OBVIOUS
  <2>2. n - k \in Nat /\ n - (n - k) = k
    BY <2>1
  <2> QED
    BY <2>1, <2>2
<1>2. PICK m \in T : \A l \in T : ~(<<l, m>> \in OpToRel(<, Nat))
  BY <1>1, NatLessThanWellFounded, WFMin
<1>3. m \in Nat /\ n - m \in S /\ \A l \in Nat : n - l \in S => ~(l < m)
  BY <1>2 DEF OpToRel
<1>4. ASSUME NEW j \in S
      PROVE  j <= n - m
  <2>1. n - j \in Nat /\ n - (n - j) = j
    OBVIOUS
  <2>2. ~(n - j < m)
    BY <1>3, <2>1
  <2> QED
    BY <1>3, <2>1, <2>2
<1> QED
  BY <1>3, <1>4

\* An update with a PREPARED record is dangling or was committed after it.
LEMMA PreparedIsFound ==
  ASSUME wal \in Seq(Line), NEW k \in DOMAIN wal, NEW u \in UpdateId,
         wal[k].status = "PREPARED", wal[k].uid = {u}
  PROVE  \/ u \in Dangling(wal)
         \/ \E j \in LinesOf(wal, u) : j > k /\ wal[j].status = "COMMITTED"
<1> DEFINE L == LinesOf(wal, u)
<1>1. DOMAIN wal = 1..Len(wal) /\ Len(wal) \in Nat /\ L \subseteq DOMAIN wal /\ k \in L
  BY LenProperties DEF LinesOf
<1>2. \E last \in L : \A j \in L : j <= last
  BY <1>1, LastLine
<1> DEFINE last == CHOOSE m \in L : \A j \in L : j <= m
<1>3. last \in L /\ k <= last
  BY <1>1, <1>2
<1>4. LastStatus(wal, u) = wal[last].status
  BY DEF LastStatus
<1>5. CASE wal[last].status = "COMMITTED"
  BY <1>1, <1>3, <1>5
<1>6. CASE wal[last].status # "COMMITTED"
  BY <1>1, <1>4, <1>6 DEF Dangling
<1> QED
  BY <1>5, <1>6

\* What a step may do to the log: leave it, add a line, or glue a record to a
\* torn one.
Grown(new, old) ==
  /\ \A k \in DOMAIN old : \/ k \in DOMAIN new /\ new[k] = old[k]
                           \/ \E g \in DOMAIN new : new[g].status = "GLUED"
  /\ (\E g \in DOMAIN old : old[g].status = "GLUED") =>
       \E g \in DOMAIN new : new[g].status = "GLUED"

\* A write adds its record at the end, or it is lost.
LEMMA WriteGrows ==
  ASSUME NEW log \in Seq(Line), NEW rec \in Line
  PROVE  /\ Grown(WriteLine(log, rec), log)
         /\ \/ /\ WriteLine(log, rec) = Append(log, rec)
               /\ Len(log) + 1 \in DOMAIN WriteLine(log, rec)
               /\ WriteLine(log, rec)[Len(log) + 1] = rec
               /\ \A k \in DOMAIN WriteLine(log, rec) : \/ k = Len(log) + 1
                                                        \/ k \in DOMAIN log
               /\ \A k \in DOMAIN log : WriteLine(log, rec)[k] = log[k]
            \/ /\ \E g \in DOMAIN WriteLine(log, rec) : WriteLine(log, rec)[g].status = "GLUED"
               /\ \A k \in DOMAIN WriteLine(log, rec) :
                    \/ k \in DOMAIN log /\ WriteLine(log, rec)[k] = log[k]
                    \/ WriteLine(log, rec)[k].status = "GLUED"
<1> DEFINE new == WriteLine(log, rec)
<1>1. Len(log) \in Nat /\ DOMAIN log = 1..Len(log)
  BY LenProperties
<1>2. CASE EndsTorn(log)
  <2>1. new = [log EXCEPT ![Len(log)] = Rubble("GLUED")] /\ Len(log) \in 1..Len(log)
    BY <1>2, EmptySeq DEF EndsTorn, WriteLine
  <2>2. Rubble("GLUED") \in Line /\ Rubble("GLUED").status = "GLUED"
    BY DEF Rubble, Line
  <2>3. /\ DOMAIN new = DOMAIN log
        /\ \A k \in DOMAIN log : new[k] = IF k = Len(log) THEN Rubble("GLUED") ELSE log[k]
    BY <1>1, <2>1
  <2>4. new[Len(log)].status = "GLUED" /\ Len(log) \in DOMAIN new
    BY <1>1, <2>1, <2>2, <2>3
  <2>5. \A k \in DOMAIN new : k \in DOMAIN log /\ (new[k] = log[k] \/ new[k].status = "GLUED")
    BY <2>2, <2>3
  <2> QED
    BY <2>4, <2>5 DEF Grown
<1>3. CASE ~EndsTorn(log)
  <2>1. new = Append(log, rec)
    BY <1>3 DEF WriteLine
  <2>2. /\ new \in Seq(Line) /\ Len(new) = Len(log) + 1
        /\ \A k \in 1..Len(log) : new[k] = log[k]
        /\ new[Len(log) + 1] = rec
    BY <2>1, AppendProperties
  <2>3. DOMAIN new = 1..(Len(log) + 1)
    BY <2>2, LenProperties
  <2>4. \A k \in DOMAIN log : k \in DOMAIN new /\ new[k] = log[k]
    BY <1>1, <2>2, <2>3
  <2>5. Grown(new, log)
    BY <2>4 DEF Grown
  <2> QED
    BY <1>1, <2>1, <2>2, <2>3, <2>4, <2>5
<1> QED
  BY <1>2, <1>3

LEMMA TearGrows ==
  ASSUME NEW log \in Seq(Line)
  PROVE  /\ Grown(TearLine(log), log)
         /\ \A k \in DOMAIN TearLine(log) :
              \/ k \in DOMAIN log /\ TearLine(log)[k] = log[k]
              \/ TearLine(log)[k].status = "TORN"
<1>1. Len(log) \in Nat /\ DOMAIN log = 1..Len(log)
  BY LenProperties
<1>2. Rubble("TORN") \in Line /\ Rubble("TORN").status = "TORN"
  BY DEF Rubble, Line
<1>3. CASE EndsTorn(log)
  BY <1>3 DEF TearLine, Grown
<1>4. CASE ~EndsTorn(log)
  <2> DEFINE new == Append(log, Rubble("TORN"))
  <2>1. TearLine(log) = new
    BY <1>4 DEF TearLine
  <2>2. /\ new \in Seq(Line) /\ Len(new) = Len(log) + 1
        /\ \A k \in 1..Len(log) : new[k] = log[k]
        /\ new[Len(log) + 1] = Rubble("TORN")
    BY <1>2, AppendProperties
  <2>3. DOMAIN new = 1..(Len(log) + 1)
    BY <2>2, LenProperties
  <2>4. \A k \in DOMAIN log : k \in DOMAIN new /\ new[k] = log[k]
    BY <1>1, <2>2, <2>3
  <2>5. \A k \in DOMAIN new : k \in DOMAIN log \/ k = Len(log) + 1
    BY <1>1, <2>3
  <2> QED
    BY <1>2, <2>1, <2>2, <2>4, <2>5 DEF Grown
<1> QED
  BY <1>3, <1>4

----------------------------------------------------------------------------
(* Recovery.                                                               *)

\* The records w's call has written so far, in their order, and what they
\* report of it.
CallLogged(w) ==
  /\ \/ RecordLost
     \/ pc[w] \in {"compute", "applied"} =>
          \E p \in DOMAIN wal : wal[p] = Record("PREPARED", batch[w])
  /\ \/ RecordLost
     \/ pc[w] \in {"commit", "checkpointed"} =>
          \E p, a \in DOMAIN wal : /\ p < a
                                   /\ wal[p] = Record("PREPARED", batch[w])
                                   /\ wal[a] = Record("APPLIED", batch[w])
  /\ \/ RecordLost
     \/ pc[w] = "committing" =>
          \E p, a, c \in DOMAIN wal : /\ p < a /\ a < c
                                      /\ wal[p] = Record("PREPARED", batch[w])
                                      /\ wal[a] = Record("APPLIED", batch[w])
                                      /\ wal[c] = Record("CHECKPOINTED", batch[w])
  /\ pc[w] \in {"applied", "commit", "checkpointed", "committing"} =>
       /\ Members(batch[w]) \subseteq params[w]
       /\ \A n \in NoncesOf(batch[w]) : applications[n] = 1
  /\ pc[w] \in {"checkpointed", "committing"} =>
       \E c \in ckpts : Members(batch[w]) \subseteq c

\* Every applied nonce stands in a PREPARED record.
AppliedIsPrepared ==
  \A n \in Nonce : applications[n] > 0 /\ ~RecordLost =>
    \E k \in DOMAIN wal, u \in UpdateId :
      wal[k].status = "PREPARED" /\ n \in wal[k].nonces /\ wal[k].uid = {u}

\* What one COMMITTED record stands for.
Complete(k) ==
  /\ RecordLost \/ \E p, a, c \in 1..(k - 1) :
       /\ p < a /\ a < c
       /\ wal[p].status = "PREPARED" /\ wal[p].nonces = wal[k].nonces
       /\ wal[a].status = "APPLIED" /\ wal[a].nonces = wal[k].nonces
       /\ wal[c].status = "CHECKPOINTED" /\ wal[c].nonces = wal[k].nonces
  /\ \A n \in wal[k].nonces : applications[n] = 1
  /\ \E c \in ckpts : wal[k].nonces \subseteq {NonceOf[i] : i \in c}

AllComplete == \A k \in DOMAIN wal : wal[k].status = "COMMITTED" => Complete(k)

WalInv ==
  /\ \A w \in Worker : CallLogged(w)
  /\ AppliedIsPrepared
  /\ AllComplete

\* A write raises or not: the log has grown by the record, or it is the same.
LEMMA WritesGrow ==
  ASSUME TypeOK, NEW w \in Worker, batch[w] \in Batches, NEW status \in Statuses,
         Logged(w, status)
  PROVE  /\ Grown(wal', wal)
         /\ \/ /\ Len(wal) + 1 \in DOMAIN wal'
               /\ wal'[Len(wal) + 1] = Record(status, batch[w])
               /\ \A k \in DOMAIN wal' : k = Len(wal) + 1 \/ k \in DOMAIN wal
               /\ \A k \in DOMAIN wal : wal'[k] = wal[k]
            \/ /\ RecordLost'
               /\ \A k \in DOMAIN wal' : \/ k \in DOMAIN wal /\ wal'[k] = wal[k]
                                         \/ wal'[k].status = "GLUED"
<1>1. Record(status, batch[w]) \in Line
  <2>1. UpdateOf[batch[w][1]] \in UpdateId
    BY BatchFacts, ConstantsOK
  <2> QED
    BY <2>1, BatchFacts DEF Record, Line, Statuses
<1>2. wal \in Seq(Line) /\ wal' = WriteLine(wal, Record(status, batch[w]))
  BY DEF TypeOK, Logged
<1> QED
  BY <1>1, <1>2, WriteGrows DEF RecordLost

LEMMA SameGrows == Grown(wal, wal)
BY DEF Grown

\* Whatever a step does, the log grows, checkpoints stay and a nonce that was
\* applied once stays so.
LEMMA EveryStepGrows ==
  ASSUME TypeOK, CallInv, HandlesInv, Ownership, [Next]_vars
  PROVE  /\ Grown(wal', wal)
         /\ ckpts \subseteq ckpts'
         /\ \A n \in Nonce : applications[n] = 1 => applications'[n] = 1
<1>1. [Ledger!LedgerNext]_<<registry, applications>>
  BY OwnershipStep
<1>2. \A n \in Nonce : applications[n] = 1 => applications'[n] = 1
  BY <1>1 DEF Ledger!LedgerNext, Ledger!Burn, Ledger!Spend, TypeOK
<1>3. CASE Corrupt \/ UNCHANGED vars
  BY <1>2, <1>3, SameGrows DEF Corrupt, vars, local
<1>4. ASSUME NEW w \in Worker, WorkerStep(w)
      PROVE  Grown(wal', wal) /\ ckpts \subseteq ckpts'
  <2> USE SameGrows DEF shared
  <2>1. CASE \/ Materialize(w) \/ RewireReward(w) \/ AdapterUpdate(w) \/ Submit(w)
             \/ Check(w) \/ Consume(w) \/ Take(w) \/ Bind(w)
    BY <2>1 DEF Materialize, RewireReward, AdapterUpdate, Submit, Check, Consume, Take, Bind
  <2>2. CASE OptimizerStep(w) \/ CommitFn(w) \/ Return(w) \/ Restart(w)
    BY <2>2 DEF OptimizerStep, CommitFn, Return, Restart
  <2>3. CASE Prepare(w) \/ LogApplied(w) \/ LogCheckpointed(w) \/ LogCommitted(w) \/ Abort(w)
    <3>1. batch[w] \in Batches
      BY <2>3 DEF Prepare, LogApplied, LogCheckpointed, LogCommitted, LogInTry, Abort, CallInv
    <3>2. ckpts' = ckpts /\ (wal' = wal \/ \E status \in Statuses : Logged(w, status))
      BY <2>3 DEF Prepare, LogApplied, LogCheckpointed, LogCommitted, LogInTry, Abort,
         LogRaises, Statuses
    <3> QED
      BY <3>1, <3>2, WritesGrow
  <2>4. CASE Crash(w)
    BY <2>4, TearGrows DEF Crash, TypeOK
  <2> QED
    BY <1>4, <2>1, <2>2, <2>3, <2>4 DEF WorkerStep
<1> QED
  BY <1>2, <1>3, <1>4 DEF Next

\* A call that stays where it is keeps what it has logged.
LEMMA CallLoggedKept ==
  ASSUME TypeOK, CallInv, NEW v \in Worker, CallLogged(v),
         pc'[v] = pc[v], batch'[v] = batch[v], params'[v] = params[v],
         Grown(wal', wal), ckpts \subseteq ckpts',
         \A n \in Nonce : applications[n] = 1 => applications'[n] = 1
  PROVE  CallLogged(v)'
<1>1. RecordLost => RecordLost'
  BY DEF Grown, RecordLost
<1>2. RecordLost' \/ \A k \in DOMAIN wal : k \in DOMAIN wal' /\ wal'[k] = wal[k]
  BY DEF Grown, RecordLost
<1>3. \A status : Record(status, batch[v])' = Record(status, batch[v])
  BY DEF Record, NoncesOf, Members
<1>4. pc[v] \in {"applied", "commit", "checkpointed", "committing"} =>
        /\ NoncesOf(batch[v]) \subseteq Nonce
        /\ NoncesOf(batch[v])' = NoncesOf(batch[v])
        /\ Members(batch[v])' = Members(batch[v])
  BY BatchFacts DEF CallInv, NoncesOf, Members
<1>5. CASE RecordLost'
  BY <1>4, <1>5 DEF CallLogged
<1>6. CASE ~RecordLost'
  <2>1. ~RecordLost /\ \A k \in DOMAIN wal : k \in DOMAIN wal' /\ wal'[k] = wal[k]
    BY <1>1, <1>2, <1>6
  <2> QED
    BY <1>3, <1>4, <2>1 DEF CallLogged
<1> QED
  BY <1>5, <1>6

\* A record of w's own call follows those it has written.
LEMMA CallLoggedMoves ==
  ASSUME TypeOK, TypeOK', CallInv, Ownership, NEW w \in Worker, WorkerStep(w), CallLogged(w)
  PROVE  CallLogged(w)'
<1>1. CASE pc'[w] \notin {"compute", "applied", "commit", "checkpointed", "committing"}
  BY <1>1 DEF CallLogged
<1>2. \A status : batch'[w] = batch[w] => Record(status, batch[w])' = Record(status, batch[w])
  BY DEF Record, NoncesOf, Members
<1>3. DOMAIN wal = 1..Len(wal) /\ Len(wal) \in Nat
  BY LenProperties DEF TypeOK
<1>4. CASE Prepare(w) /\ pc'[w] = "compute"
  <2>1. pc[w] = "prepare" /\ batch'[w] = batch[w] /\ Logged(w, "PREPARED") /\ batch[w] \in Batches
    BY <1>4 DEF Prepare, Leave, Goto, Arguments, TypeOK, CallInv
  <2>2. RecordLost' \/ \E p \in DOMAIN wal' : wal'[p] = Record("PREPARED", batch[w])
    BY <2>1, WritesGrow DEF Statuses
  <2> QED
    BY <1>2, <1>4, <2>1, <2>2 DEF CallLogged
<1>5. CASE OptimizerStep(w) /\ pc'[w] = "applied"
  <2>1. /\ pc[w] = "compute" /\ batch'[w] = batch[w] /\ wal' = wal /\ batch[w] \in Batches
        /\ params'[w] = params[w] \cup Members(batch[w])
        /\ applications' = [n \in Nonce |-> IF n \in NoncesOf(batch[w]) THEN applications[n] + 1
                                             ELSE applications[n]]
    BY <1>5 DEF OptimizerStep, Goto, Arguments, TypeOK, CallInv, shared
  <2>2. \A n \in NoncesOf(batch[w]) : n \in Nonce /\ applications[n] = 0
    BY <2>1, HoldsAll, BatchFacts DEF Ownership
  <2>3. \A n \in NoncesOf(batch[w]) : applications'[n] = 1
    BY <2>1, <2>2
  <2>4. Members(batch[w])' = Members(batch[w]) /\ NoncesOf(batch[w])' = NoncesOf(batch[w])
    BY <2>1 DEF Members, NoncesOf
  <2>5. RecordLost' = RecordLost
    BY <2>1 DEF RecordLost
  <2> QED
    BY <1>2, <1>5, <2>1, <2>3, <2>4, <2>5 DEF CallLogged
<1>6. ASSUME NEW label \in PCs, NEW status \in Statuses, NEW next \in PCs,
             LogInTry(w, label, status, next), pc'[w] # "abort"
      PROVE  /\ pc[w] = label /\ pc'[w] = next /\ batch'[w] = batch[w]
             /\ UNCHANGED <<params, applications, ckpts>>
             /\ Members(batch[w])' = Members(batch[w]) /\ NoncesOf(batch[w])' = NoncesOf(batch[w])
             /\ label \notin {"idle", "dead"} =>
                  \/ RecordLost'
                  \/ /\ ~RecordLost /\ Len(wal) + 1 \in DOMAIN wal'
                     /\ wal'[Len(wal) + 1] = Record(status, batch[w])
                     /\ \A k \in DOMAIN wal : k \in DOMAIN wal' /\ wal'[k] = wal[k]
  <2>1. /\ pc[w] = label /\ pc'[w] = next /\ batch'[w] = batch[w] /\ Logged(w, status)
        /\ UNCHANGED <<params, applications, ckpts>>
    BY <1>6 DEF LogInTry, Goto, Arguments, TypeOK
  <2>2. Members(batch[w])' = Members(batch[w]) /\ NoncesOf(batch[w])' = NoncesOf(batch[w])
    BY <2>1 DEF Members, NoncesOf
  <2>3. ASSUME label \notin {"idle", "dead"}, ~RecordLost'
        PROVE  /\ ~RecordLost /\ Len(wal) + 1 \in DOMAIN wal'
               /\ wal'[Len(wal) + 1] = Record(status, batch[w])
               /\ \A k \in DOMAIN wal : k \in DOMAIN wal' /\ wal'[k] = wal[k]
    <3>1. batch[w] \in Batches
      BY <2>1, <2>3 DEF CallInv
    <3> QED
      BY <2>1, <2>3, <3>1, WritesGrow DEF Grown, RecordLost
  <2> QED
    BY <2>1, <2>2, <2>3
<1>7. CASE LogApplied(w) /\ pc'[w] = "commit"
  <2>1. /\ pc[w] = "applied" /\ batch'[w] = batch[w]
        /\ UNCHANGED <<params, applications, ckpts>>
        /\ Members(batch[w])' = Members(batch[w]) /\ NoncesOf(batch[w])' = NoncesOf(batch[w])
        /\ \/ RecordLost'
           \/ /\ ~RecordLost /\ Len(wal) + 1 \in DOMAIN wal'
              /\ wal'[Len(wal) + 1] = Record("APPLIED", batch[w])
              /\ \A k \in DOMAIN wal : k \in DOMAIN wal' /\ wal'[k] = wal[k]
    BY <1>6, <1>7 DEF LogApplied, PCs, Statuses
  <2>2. \/ RecordLost'
        \/ \E p, a \in DOMAIN wal' : /\ p < a
                                     /\ wal'[p] = Record("PREPARED", batch[w])
                                     /\ wal'[a] = Record("APPLIED", batch[w])
    BY <1>3, <2>1 DEF CallLogged
  <2> QED
    BY <1>2, <1>7, <2>1, <2>2 DEF CallLogged
<1>8. CASE CommitFn(w) /\ pc'[w] = "checkpointed"
  <2>1. /\ pc[w] = "commit" /\ batch'[w] = batch[w] /\ wal' = wal
        /\ UNCHANGED <<params, applications>> /\ params[w] \in ckpts'
    BY <1>8 DEF CommitFn, Goto, Arguments, TypeOK
  <2>2. Members(batch[w])' = Members(batch[w]) /\ NoncesOf(batch[w])' = NoncesOf(batch[w])
    BY <2>1 DEF Members, NoncesOf
  <2>3. RecordLost' = RecordLost
    BY <2>1 DEF RecordLost
  <2> QED
    BY <1>2, <1>8, <2>1, <2>2, <2>3 DEF CallLogged
<1>9. CASE LogCheckpointed(w) /\ pc'[w] = "committing"
  <2>1. /\ pc[w] = "checkpointed" /\ batch'[w] = batch[w]
        /\ UNCHANGED <<params, applications, ckpts>>
        /\ Members(batch[w])' = Members(batch[w]) /\ NoncesOf(batch[w])' = NoncesOf(batch[w])
        /\ \/ RecordLost'
           \/ /\ ~RecordLost /\ Len(wal) + 1 \in DOMAIN wal'
              /\ wal'[Len(wal) + 1] = Record("CHECKPOINTED", batch[w])
              /\ \A k \in DOMAIN wal : k \in DOMAIN wal' /\ wal'[k] = wal[k]
    BY <1>6, <1>9 DEF LogCheckpointed, PCs, Statuses
  <2>2. \/ RecordLost'
        \/ \E p, a, c \in DOMAIN wal' : /\ p < a /\ a < c
                                        /\ wal'[p] = Record("PREPARED", batch[w])
                                        /\ wal'[a] = Record("APPLIED", batch[w])
                                        /\ wal'[c] = Record("CHECKPOINTED", batch[w])
    BY <1>3, <2>1 DEF CallLogged
  <2> QED
    BY <1>2, <1>9, <2>1, <2>2 DEF CallLogged
<1>10. CASE \/ Materialize(w) \/ RewireReward(w) \/ AdapterUpdate(w) \/ Submit(w) \/ Check(w)
            \/ Consume(w) \/ Take(w) \/ Bind(w) \/ Return(w) \/ Abort(w) \/ Crash(w) \/ Restart(w)
  <2>1. pc'[w] \notin {"compute", "applied", "commit", "checkpointed", "committing"}
    BY <1>10 DEF Materialize, RewireReward, AdapterUpdate, Submit, Check, Consume, Take, Bind,
       Return, Abort, Crash, Restart, Advance, Leave, Die, Goto, TypeOK
  <2> QED
    BY <1>1, <2>1
<1>11. /\ Prepare(w) => pc'[w] \in {"compute", "idle"}
       /\ OptimizerStep(w) => pc'[w] \in {"applied", "abort"}
       /\ CommitFn(w) => pc'[w] \in {"checkpointed", "abort"}
  BY DEF Prepare, OptimizerStep, CommitFn, Leave, Goto, TypeOK
<1>12. /\ LogApplied(w) => pc'[w] \in {"commit", "abort"}
       /\ LogCheckpointed(w) => pc'[w] \in {"committing", "abort"}
       /\ LogCommitted(w) => pc'[w] \in {"done", "abort"}
  BY DEF LogApplied, LogCheckpointed, LogCommitted, LogInTry, Goto, TypeOK
<1> QED
  BY <1>1, <1>4, <1>5, <1>7, <1>8, <1>9, <1>10, <1>11, <1>12 DEF WorkerStep

\* A nonce is applied after its record was written, and the record stays.
LEMMA AppliedStep ==
  ASSUME TypeOK, TypeOK', CallInv, HandlesInv, Ownership, WalInv, [Next]_vars
  PROVE  AppliedIsPrepared'
<1> SUFFICES ASSUME NEW n \in Nonce, applications'[n] > 0, ~RecordLost'
             PROVE  \E k \in DOMAIN wal', u \in UpdateId :
                      wal'[k].status = "PREPARED" /\ n \in wal'[k].nonces /\ wal'[k].uid = {u}
  BY DEF AppliedIsPrepared
<1>1. ~RecordLost /\ \A k \in DOMAIN wal : k \in DOMAIN wal' /\ wal'[k] = wal[k]
  BY EveryStepGrows DEF Grown, RecordLost
<1>2. CASE applications[n] > 0
  <2>1. PICK k \in DOMAIN wal, u \in UpdateId :
          wal[k].status = "PREPARED" /\ n \in wal[k].nonces /\ wal[k].uid = {u}
    BY <1>1, <1>2 DEF WalInv, AppliedIsPrepared
  <2> QED
    BY <1>1, <2>1
<1>3. CASE ~(applications[n] > 0)
  <2>1. applications'[n] # applications[n]
    BY <1>3
  <2>2. PICK w \in Worker : OptimizerStep(w)
    <3>1. ~Corrupt /\ ~UNCHANGED vars
      BY <2>1 DEF Corrupt, vars
    <3>2. PICK w \in Worker : WorkerStep(w)
      BY <3>1 DEF Next
    <3> QED
      BY <2>1, <3>2 DEF WorkerStep, Materialize, RewireReward, AdapterUpdate, Submit, Check,
         Consume, Take, Bind, Prepare, LogApplied, LogCheckpointed, LogCommitted, LogInTry,
         CommitFn, Return, Abort, Crash, Restart
  <2>3. pc[w] = "compute" /\ n \in NoncesOf(batch[w]) /\ batch[w] \in Batches
    BY <2>1, <2>2 DEF OptimizerStep, CallInv, TypeOK
  <2>4. PICK p \in DOMAIN wal : wal[p] = Record("PREPARED", batch[w])
    BY <1>1, <2>3 DEF WalInv, CallLogged
  <2>5. /\ wal[p].status = "PREPARED" /\ n \in wal[p].nonces
        /\ wal[p].uid = {UpdateOf[batch[w][1]]} /\ UpdateOf[batch[w][1]] \in UpdateId
    BY <2>3, <2>4, BatchFacts, ConstantsOK DEF Record
  <2> QED
    BY <1>1, <2>5
<1> QED
  BY <1>2, <1>3

\* Only the end of a call writes COMMITTED.
LEMMA CommittedLine ==
  ASSUME TypeOK, TypeOK', CallInv, [Next]_vars,
         NEW k \in DOMAIN wal', wal'[k].status = "COMMITTED",
         ~(k \in DOMAIN wal /\ wal'[k] = wal[k])
  PROVE  \E w \in Worker :
           /\ pc[w] = "committing" /\ batch[w] \in Batches
           /\ k = Len(wal) + 1 /\ wal'[k] = Record("COMMITTED", batch[w])
           /\ UNCHANGED <<ckpts, applications>>
<1>1. wal' # wal
  OBVIOUS
<1>2. PICK w \in Worker : WorkerStep(w)
  BY <1>1 DEF Next, Corrupt, vars
<1>3. ASSUME NEW status \in Statuses, batch[w] \in Batches, Logged(w, status)
      PROVE  /\ status = "COMMITTED"
             /\ k = Len(wal) + 1 /\ wal'[k] = Record("COMMITTED", batch[w])
  <2>1. k = Len(wal) + 1 /\ wal'[k] = Record(status, batch[w])
    BY <1>3, WritesGrow
  <2> QED
    BY <2>1 DEF Record
<1>4. CASE \/ Materialize(w) \/ RewireReward(w) \/ AdapterUpdate(w) \/ Submit(w) \/ Check(w)
           \/ Consume(w) \/ Take(w) \/ Bind(w) \/ OptimizerStep(w) \/ CommitFn(w)
           \/ Return(w) \/ Restart(w)
  BY <1>1, <1>4 DEF Materialize, RewireReward, AdapterUpdate, Submit, Check, Consume, Take,
     Bind, OptimizerStep, CommitFn, Return, Restart, shared
<1>5. CASE Crash(w)
  BY <1>1, <1>5, TearGrows DEF Crash, TypeOK
<1>6. CASE Prepare(w) \/ LogApplied(w) \/ LogCheckpointed(w) \/ Abort(w)
  <2>1. batch[w] \in Batches
    BY <1>6 DEF Prepare, LogApplied, LogCheckpointed, LogInTry, Abort, CallInv
  <2>2. \E status \in Statuses \ {"COMMITTED"} : Logged(w, status)
    BY <1>1, <1>6 DEF Prepare, LogApplied, LogCheckpointed, LogInTry, Abort, LogRaises, Statuses
  <2> QED
    BY <1>3, <2>1, <2>2
<1>7. CASE LogCommitted(w)
  <2>1. /\ pc[w] = "committing" /\ batch[w] \in Batches /\ Logged(w, "COMMITTED")
        /\ UNCHANGED <<ckpts, applications>>
    BY <1>1, <1>7 DEF LogCommitted, LogInTry, LogRaises, CallInv
  <2> QED
    BY <1>3, <2>1 DEF Statuses
<1> QED
  BY <1>2, <1>4, <1>5, <1>6, <1>7 DEF WorkerStep

\* A COMMITTED record is complete when written, and stays so.
LEMMA CompleteStep ==
  ASSUME TypeOK, TypeOK', CallInv, HandlesInv, Ownership, WalInv, [Next]_vars
  PROVE  AllComplete'
<1> SUFFICES ASSUME NEW k \in DOMAIN wal', wal'[k].status = "COMMITTED"
             PROVE  Complete(k)'
  BY DEF AllComplete
<1>1. /\ RecordLost => RecordLost'
      /\ RecordLost' \/ \A j \in DOMAIN wal : j \in DOMAIN wal' /\ wal'[j] = wal[j]
      /\ ckpts \subseteq ckpts'
      /\ \A n \in Nonce : applications[n] = 1 => applications'[n] = 1
  BY EveryStepGrows DEF Grown, RecordLost
<1>2. /\ DOMAIN wal = 1..Len(wal) /\ Len(wal) \in Nat
      /\ \A j \in DOMAIN wal : wal[j].nonces \subseteq Nonce
  <2>1. wal \in Seq(Line)
    BY DEF TypeOK
  <2>2. /\ DOMAIN wal = 1..Len(wal) /\ Len(wal) \in Nat
        /\ \A j \in 1..Len(wal) : wal[j] \in Line
    BY <2>1, LenProperties, ElementOfSeq
  <2>3. \A line \in Line : line.nonces \subseteq Nonce
    BY DEF Line
  <2> QED
    BY <2>2, <2>3
<1>3. CASE k \in DOMAIN wal /\ wal'[k] = wal[k]
  <2>1. Complete(k)
    BY <1>3 DEF WalInv, AllComplete
  <2>2. \A j \in 1..(k - 1) : j \in DOMAIN wal
    BY <1>2, <1>3
  <2>3. \/ RecordLost'
        \/ \E p, a, c \in 1..(k - 1) :
             /\ p < a /\ a < c
             /\ wal'[p].status = "PREPARED" /\ wal'[p].nonces = wal'[k].nonces
             /\ wal'[a].status = "APPLIED" /\ wal'[a].nonces = wal'[k].nonces
             /\ wal'[c].status = "CHECKPOINTED" /\ wal'[c].nonces = wal'[k].nonces
    <3>1. CASE RecordLost'
      BY <3>1
    <3>2. CASE ~RecordLost'
      <4>1. PICK p, a, c \in 1..(k - 1) :
              /\ p < a /\ a < c
              /\ wal[p].status = "PREPARED" /\ wal[p].nonces = wal[k].nonces
              /\ wal[a].status = "APPLIED" /\ wal[a].nonces = wal[k].nonces
              /\ wal[c].status = "CHECKPOINTED" /\ wal[c].nonces = wal[k].nonces
        BY <1>1, <2>1, <3>2 DEF Complete
      <4>2. wal'[p] = wal[p] /\ wal'[a] = wal[a] /\ wal'[c] = wal[c]
        BY <1>1, <2>2, <3>2, <4>1
      <4> QED
        BY <1>3, <4>1, <4>2
    <3> QED
      BY <3>1, <3>2
  <2>4. \A n \in wal'[k].nonces : applications'[n] = 1
    BY <1>1, <1>2, <1>3, <2>1 DEF Complete
  <2>5. \E c \in ckpts' : wal'[k].nonces \subseteq {NonceOf[i] : i \in c}
    BY <1>1, <1>3, <2>1 DEF Complete
  <2> QED
    BY <2>3, <2>4, <2>5 DEF Complete
<1>4. CASE ~(k \in DOMAIN wal /\ wal'[k] = wal[k])
  <2>1. PICK w \in Worker :
          /\ pc[w] = "committing" /\ batch[w] \in Batches
          /\ k = Len(wal) + 1 /\ wal'[k] = Record("COMMITTED", batch[w])
          /\ UNCHANGED <<ckpts, applications>>
    BY <1>4, CommittedLine
  <2>2. CallLogged(w)
    BY DEF WalInv
  <2>3. wal'[k].nonces = NoncesOf(batch[w])
    BY <2>1 DEF Record
  <2>4. \/ RecordLost'
        \/ \E p, a, c \in 1..(k - 1) :
             /\ p < a /\ a < c
             /\ wal'[p].status = "PREPARED" /\ wal'[p].nonces = wal'[k].nonces
             /\ wal'[a].status = "APPLIED" /\ wal'[a].nonces = wal'[k].nonces
             /\ wal'[c].status = "CHECKPOINTED" /\ wal'[c].nonces = wal'[k].nonces
    <3>1. CASE RecordLost'
      BY <3>1
    <3>2. CASE ~RecordLost'
      <4>1. PICK p, a, c \in DOMAIN wal : /\ p < a /\ a < c
                                          /\ wal[p] = Record("PREPARED", batch[w])
                                          /\ wal[a] = Record("APPLIED", batch[w])
                                          /\ wal[c] = Record("CHECKPOINTED", batch[w])
        BY <1>1, <2>1, <2>2, <3>2 DEF CallLogged
      <4>2. /\ wal'[p] = wal[p] /\ wal'[a] = wal[a] /\ wal'[c] = wal[c]
            /\ p \in 1..(k - 1) /\ a \in 1..(k - 1) /\ c \in 1..(k - 1)
        BY <1>1, <1>2, <2>1, <3>2
      <4> QED
        BY <2>3, <4>1, <4>2 DEF Record
    <3> QED
      BY <3>1, <3>2
  <2>5. \A n \in wal'[k].nonces : applications'[n] = 1
    BY <2>1, <2>2, <2>3 DEF CallLogged
  <2>6. \E c \in ckpts' : wal'[k].nonces \subseteq {NonceOf[i] : i \in c}
    BY <2>1, <2>2, <2>3 DEF CallLogged, NoncesOf
  <2> QED
    BY <2>4, <2>5, <2>6 DEF Complete
<1> QED
  BY <1>3, <1>4

LEMMA WalStep ==
  ASSUME TypeOK, CallInv, HandlesInv, Ownership, WalInv, [Next]_vars
  PROVE  WalInv'
<1>1. TypeOK'
  BY TypeStep
<1>2. AppliedIsPrepared' /\ AllComplete'
  BY <1>1, AppliedStep, CompleteStep
<1>3. ASSUME NEW v \in Worker
      PROVE  CallLogged(v)'
  <2>1. CallLogged(v)
    BY DEF WalInv
  <2>2. CASE Corrupt \/ UNCHANGED vars
    <3>1. pc' = pc /\ batch' = batch /\ params' = params
      BY <2>2 DEF Corrupt, vars, local
    <3> QED
      BY <2>1, <3>1, EveryStepGrows, CallLoggedKept
  <2>3. ASSUME NEW w \in Worker, WorkerStep(w)
        PROVE  CallLogged(v)'
    <3>1. CASE v = w
      BY <1>1, <2>1, <2>3, <3>1, CallLoggedMoves
    <3>2. CASE v # w
      BY <2>1, <2>3, <3>2, StepIsLocal, MemoryIsLocal, EveryStepGrows, CallLoggedKept
    <3> QED
      BY <3>1, <3>2
  <2> QED
    BY <2>2, <2>3 DEF Next
<1> QED
  BY <1>2, <1>3 DEF WalInv

LEMMA WalHolds == Spec => []WalInv
<1>1. Init => WalInv
  BY DEF Init, WalInv, CallLogged, AppliedIsPrepared, AllComplete
<1>2. TypeOK /\ CallInv /\ HandlesInv /\ Ownership /\ WalInv /\ [Next]_vars => WalInv'
  BY WalStep
<1> QED
  BY <1>1, <1>2, TypeCorrect, OwnershipHolds, PTL DEF Spec

\* Unless a torn line swallowed a record, the log names the update of every
\* nonce that has changed parameters, as dangling or as committed.
THEOREM EveryStepIsFound == Spec => []RecoveryFindsEveryStep
<1>1. TypeOK /\ WalInv => RecoveryFindsEveryStep
  <2> SUFFICES ASSUME TypeOK, WalInv, NEW n \in Nonce, applications[n] > 0, ~RecordLost
               PROVE  \E k \in DOMAIN wal, u \in UpdateId :
                        /\ wal[k].status = "PREPARED"
                        /\ n \in wal[k].nonces
                        /\ wal[k].uid = {u}
                        /\ \/ u \in Dangling(wal)
                           \/ \E j \in LinesOf(wal, u) : j > k /\ wal[j].status = "COMMITTED"
    BY DEF RecoveryFindsEveryStep
  <2>1. PICK k \in DOMAIN wal, u \in UpdateId :
          wal[k].status = "PREPARED" /\ n \in wal[k].nonces /\ wal[k].uid = {u}
    BY DEF WalInv, AppliedIsPrepared
  <2> QED
    BY <2>1, PreparedIsFound DEF TypeOK
<1> QED
  BY <1>1, TypeCorrect, WalHolds, PTL

\* A COMMITTED record ends a whole call: unless a record was lost its three
\* others stand before it, its nonces were applied once, and a promoted
\* checkpoint holds them.
THEOREM CommittedStandsForAll == Spec => []CommittedIsComplete
<1>1. WalInv => CommittedIsComplete
  BY DEF WalInv, AllComplete, Complete, CommittedIsComplete
<1> QED
  BY <1>1, WalHolds, PTL
=============================================================================
