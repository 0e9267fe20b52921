---------------------------- MODULE GuardedStep ----------------------------
(***************************************************************************)
(* adapters/guarded_update.py: the capability-gated optimizer entry.       *)
(*                                                                         *)
(* Several training processes ("workers") materialize single-use handles   *)
(* from sealed update inputs and call guarded_optimizer_step on batches of *)
(* them.  They share the transactional NonceRegistry and the UpdateWal     *)
(* file; the model, the handle objects and the GuardedUpdateAdapter's      *)
(* nonce set live in the memory of one process and die with it.            *)
(*                                                                         *)
(* Each SELECT and each INSERT on the registry, each WAL record and the    *)
(* checkpoint promotion is a step of its own, so that workers interleave   *)
(* where the code lets them and a crash can fall between any two of them.  *)
(***************************************************************************)
EXTENDS Naturals, Sequences

CONSTANTS
  Worker,       \* training processes
  Input,        \* sealed UpdateInputEvents
  Nonce,        \* single_use_nonce_sha256 values
  UpdateId,     \* update ids
  NonceOf,      \* [Input -> Nonce]
  UpdateOf,     \* [Input -> UpdateId]
  Allowed,      \* inputs the decision verifier confirms as ALLOW
  Batches,      \* the handle lists a caller may pass
  GroupSize,    \* values of the group_size argument
  Freezes,      \* which bindings a caller of materialize may freeze together
  Unbound,      \* a binding the event leaves open (None or "")
  NoHandle,     \* the worker holds no handle for an input
  Fragile,      \* bound: inputs whose artifacts or rewards may be tampered with
  AdapterUsers, \* bound: workers that also run a GuardedUpdateAdapter
  LogFaults,    \* TRUE: a WAL write may raise
  TornWrites    \* TRUE: a crash may leave half a WAL record in the file

\* _consumed, a reward tensor that no longer matches the bound hash, and the
\* three bindings a sealed event may freeze.
Handle == [consumed : BOOLEAN, rewired : BOOLEAN,
           size : GroupSize \cup {Unbound},
           members : Batches \cup {<<>>},
           parent : (SUBSET Input) \cup {Unbound}]

ASSUME ConstantsOK ==
  /\ NonceOf \in [Input -> Nonce]
  /\ UpdateOf \in [Input -> UpdateId]
  /\ Allowed \subseteq Input
  /\ Batches \subseteq Seq(Input) \ {<<>>}
  /\ Freezes \subseteq SUBSET {"size", "members", "parent"}
  /\ Fragile \subseteq Input
  /\ AdapterUsers \subseteq Worker
  /\ NoHandle \notin Handle
  /\ LogFaults \in BOOLEAN
  /\ TornWrites \in BOOLEAN

VARIABLES
  \* shared, survives a crash
  registry,     \* nonces in the consumed_nonce table
  wal,          \* lines of the UpdateWal file
  intact,       \* inputs whose stored artifacts still match their hashes
  ckpts,        \* models (as sets of absorbed inputs) promoted by commit_fn
  \* local to a worker
  handle,       \* handle[w][i]: the handle w holds for input i, or NoHandle
  adapterSeen,  \* nonces the worker's GuardedUpdateAdapter has consumed
  params,       \* params[w]: inputs absorbed by the model in w's memory
  pc,           \* where w is in guarded_optimizer_step
  batch,        \* the handles argument of w's call
  gsize,        \* the group_size argument of w's call
  pos,          \* index of the loop over handles
  \* history
  applications  \* applications[n]: optimizer steps fed by nonce n

shared == <<registry, wal, intact, ckpts>>
local == <<handle, adapterSeen, params, pc, batch, gsize, pos>>
vars == <<registry, wal, intact, ckpts, handle, adapterSeen, params, pc,
          batch, gsize, pos, applications>>

Members(b) == {b[k] : k \in DOMAIN b}
NoncesOf(b) == {NonceOf[i] : i \in Members(b)}

----------------------------------------------------------------------------
(* The write-ahead log.  A line is a record, or the debris of a crash: a   *)
(* TORN last line has no newline yet, so the next record is glued to it    *)
(* and the GLUED line decodes as neither.                                  *)

Statuses == {"PREPARED", "APPLIED", "CHECKPOINTED", "COMMITTED", "ABORTED"}

Line == [status : Statuses \cup {"TORN", "GLUED"},
         uid : SUBSET UpdateId, nonces : SUBSET Nonce]

\* Keyed by the first handle's update id.  Only PREPARED lists the nonces in
\* the code; the other records carry them here to name the call that wrote
\* them, and no reader of the log looks at them.
Record(status, b) ==
  [status |-> status, uid |-> {UpdateOf[b[1]]}, nonces |-> NoncesOf(b)]
Rubble(kind) == [status |-> kind, uid |-> {}, nonces |-> {}]

EndsTorn(log) == log # <<>> /\ log[Len(log)].status = "TORN"

WriteLine(log, rec) ==
  IF EndsTorn(log) THEN [log EXCEPT ![Len(log)] = Rubble("GLUED")]
  ELSE Append(log, rec)

\* Half of a record reaches the file before the crash.
TearLine(log) ==
  IF EndsTorn(log) THEN log ELSE Append(log, Rubble("TORN"))

LinesOf(log, u) == {k \in DOMAIN log : log[k].uid = {u}}
LastStatus(log, u) ==
  LET last == CHOOSE k \in LinesOf(log, u) : \A j \in LinesOf(log, u) : j <= k
  IN  log[last].status

\* UpdateWal.dangling
Dangling(log) ==
  {u \in UpdateId : LinesOf(log, u) # {} /\ LastStatus(log, u) # "COMMITTED"}

----------------------------------------------------------------------------
Init ==
  /\ registry = {}
  /\ wal = <<>>
  /\ intact = Input
  /\ ckpts = {{}}
  /\ handle = [w \in Worker |-> [i \in Input |-> NoHandle]]
  /\ adapterSeen = [w \in Worker |-> {}]
  /\ params = [w \in Worker |-> {}]
  /\ pc = [w \in Worker |-> "idle"]
  /\ batch = [w \in Worker |-> <<>>]
  /\ gsize = [w \in Worker |-> Unbound]
  /\ pos = [w \in Worker |-> 1]
  /\ applications = [n \in Nonce |-> 0]

Goto(w, label) == pc' = [pc EXCEPT ![w] = label]

\* The call is over: it returned, or it raised before the try block and the
\* caller may go on using the process.
Leave(w) ==
  /\ Goto(w, "idle")
  /\ batch' = [batch EXCEPT ![w] = <<>>]
  /\ gsize' = [gsize EXCEPT ![w] = Unbound]
  /\ pos' = [pos EXCEPT ![w] = 1]

Arguments == <<batch, gsize, pos>>

\* The process is gone and its memory with it.
Die(w) ==
  /\ Goto(w, "dead")
  /\ batch' = [batch EXCEPT ![w] = <<>>]
  /\ gsize' = [gsize EXCEPT ![w] = Unbound]
  /\ pos' = [pos EXCEPT ![w] = 1]
  /\ handle' = [handle EXCEPT ![w] = [i \in Input |-> NoHandle]]
  /\ adapterSeen' = [adapterSeen EXCEPT ![w] = {}]
  /\ params' = [params EXCEPT ![w] = {}]

----------------------------------------------------------------------------
(* materialize for every input of a batch: the caller starts a new list of *)
(* fresh, unconsumed handles that freeze the group size, the member order  *)
(* and the parent model as far as it passes them.                          *)
Materialize(w) ==
  \E b \in Batches, g \in GroupSize, frozen \in Freezes :
    /\ pc[w] = "idle"
    /\ Members(b) \subseteq intact          \* store.get verifies the hash
    /\ handle' = [handle EXCEPT ![w] = [i \in Input |->
         IF i \in Members(b)
         THEN [consumed |-> FALSE, rewired |-> FALSE,
               size |-> IF "size" \in frozen THEN g ELSE Unbound,
               members |-> IF "members" \in frozen THEN b ELSE <<>>,
               parent |-> IF "parent" \in frozen THEN params[w] ELSE Unbound]
         ELSE NoHandle]]
    /\ UNCHANGED <<shared, adapterSeen, params, pc, Arguments, applications>>

(* Code holding the handle swaps its reward tensor after materialization.  *)
RewireReward(w) ==
  \E i \in Fragile :
    /\ pc[w] = "idle"
    /\ handle[w][i] # NoHandle
    /\ handle' = [handle EXCEPT ![w][i].rewired = TRUE]
    /\ UNCHANGED <<shared, adapterSeen, params, pc, Arguments, applications>>

(* Stored artifact bytes stop matching their content hash.                 *)
Corrupt ==
  \E i \in intact \cap Fragile :
    /\ intact' = intact \ {i}
    /\ UNCHANGED <<registry, wal, ckpts, local, applications>>

(* GuardedUpdateAdapter.update: the nonce joins the adapter's own set and  *)
(* the handle is consumed before the artifacts are verified, so a handle   *)
(* already consumed or a failed verification raises out of the same state. *)
AdapterUpdate(w) ==
  \E i \in Allowed :
    /\ w \in AdapterUsers
    /\ pc[w] = "idle"
    /\ handle[w][i] # NoHandle
    /\ NonceOf[i] \notin adapterSeen[w]
    /\ adapterSeen' = [adapterSeen EXCEPT ![w] = @ \cup {NonceOf[i]}]
    /\ handle' = [handle EXCEPT ![w][i].consumed = TRUE]
    /\ UNCHANGED <<shared, params, pc, Arguments, applications>>

----------------------------------------------------------------------------
(* guarded_optimizer_step                                                  *)

Submit(w) ==
  \E b \in Batches, g \in GroupSize :
    /\ pc[w] = "idle"
    /\ \A i \in Members(b) : handle[w][i] # NoHandle
    /\ Goto(w, "check")
    /\ batch' = [batch EXCEPT ![w] = b]
    /\ gsize' = [gsize EXCEPT ![w] = g]
    /\ pos' = [pos EXCEPT ![w] = 1]
    /\ UNCHANGED <<shared, handle, adapterSeen, params, applications>>

Current(w) == batch[w][pos[w]]

\* Mutant: the reward tensor is not compared with its bound hash.
VerifiedWithoutReward(w) ==
  /\ Current(w) \in Allowed
  /\ Current(w) \in intact
  /\ NonceOf[Current(w)] \notin registry

\* Phase 1 for one handle.
Verified(w) ==
  /\ Current(w) \in Allowed
  /\ Current(w) \in intact
  /\ ~handle[w][Current(w)].rewired
  /\ NonceOf[Current(w)] \notin registry

\* Step the loop over handles, or leave it for the next phase.
Advance(w, next) ==
  /\ \/ pos[w] < Len(batch[w]) /\ pos' = [pos EXCEPT ![w] = @ + 1] /\ UNCHANGED pc
     \/ pos[w] >= Len(batch[w]) /\ pos' = [pos EXCEPT ![w] = 1] /\ Goto(w, next)
  /\ UNCHANGED <<batch, gsize>>

Check(w) ==
  /\ pc[w] = "check"
  /\ \/ Verified(w) /\ Advance(w, "consume")
     \/ ~Verified(w) /\ Leave(w)
  /\ UNCHANGED <<shared, handle, adapterSeen, params, applications>>

\* Mutant: INSERT OR IGNORE without looking at the row count.
ConsumeIgnored(w) ==
  /\ pc[w] = "consume"
  /\ registry' = registry \cup {NonceOf[Current(w)]}
  /\ Advance(w, "take")
  /\ UNCHANGED <<wal, intact, ckpts, handle, adapterSeen, params, applications>>

(* NonceRegistry.consume: one INSERT OR IGNORE transaction per nonce.      *)
Consume(w) ==
  /\ pc[w] = "consume"
  /\ \/ /\ NonceOf[Current(w)] \notin registry
        /\ registry' = registry \cup {NonceOf[Current(w)]}
        /\ Advance(w, "take")
     \/ /\ NonceOf[Current(w)] \in registry        \* NonceReuseError
        /\ Leave(w)
        /\ UNCHANGED registry
  /\ UNCHANGED <<wal, intact, ckpts, handle, adapterSeen, params, applications>>

(* h.consume() for each handle in turn; the handles before a consumed one  *)
(* stay consumed when it raises HandleConsumedError.                       *)
Take(w) ==
  /\ pc[w] = "take"
  /\ \/ /\ ~handle[w][Current(w)].consumed
        /\ handle' = [handle EXCEPT ![w][Current(w)].consumed = TRUE]
        /\ Advance(w, "bind")
     \/ /\ handle[w][Current(w)].consumed
        /\ Leave(w)
        /\ UNCHANGED handle
  /\ UNCHANGED <<shared, adapterSeen, params, applications>>

\* The bindings frozen in the events, against the objects of this call.  (The
\* parent is a hash over sampled bytes of the parameters, lines 306-334, taken
\* here to tell models apart.)
BindingHolds(w) ==
  \A i \in Members(batch[w]) :
    /\ handle[w][i].size \in {Unbound, gsize[w]}
    /\ handle[w][i].members \in {<<>>, batch[w]}
    /\ handle[w][i].parent \in {Unbound, params[w]}

\* Mutant: the frozen bindings are not compared with the call's objects.
BindUnchecked(w) ==
  /\ pc[w] = "bind"
  /\ Goto(w, "prepare")
  /\ UNCHANGED <<shared, handle, adapterSeen, params, Arguments, applications>>

Bind(w) ==
  /\ pc[w] = "bind"
  /\ \/ BindingHolds(w) /\ Goto(w, "prepare") /\ UNCHANGED Arguments
     \/ ~BindingHolds(w) /\ Leave(w)
  /\ UNCHANGED <<shared, handle, adapterSeen, params, applications>>

Logged(w, status) == wal' = WriteLine(wal, Record(status, batch[w]))

\* A write to the log that raises, with or without the record in the file
\* (fsync can fail after the write).
LogRaises(w, status) == LogFaults /\ (Logged(w, status) \/ UNCHANGED wal)

\* Mutant: the step starts without its write-ahead record.
PrepareUnlogged(w) ==
  /\ pc[w] = "prepare"
  /\ Goto(w, "compute")
  /\ UNCHANGED <<shared, handle, adapterSeen, params, Arguments, applications>>

(* PREPARED is written outside the try block: its failure is not ABORTED.  *)
Prepare(w) ==
  /\ pc[w] = "prepare"
  /\ \/ Logged(w, "PREPARED") /\ Goto(w, "compute") /\ UNCHANGED Arguments
     \/ LogRaises(w, "PREPARED") /\ Leave(w)
  /\ UNCHANGED <<registry, intact, ckpts, handle, adapterSeen, params, applications>>

(* loss, zero_grad, backward and optimizer.step, with the failpoints       *)
(* after_prepared, loss, backward and step in between: only the last call  *)
(* changes the parameters.                                                 *)
OptimizerStep(w) ==
  /\ pc[w] = "compute"
  /\ \/ /\ params' = [params EXCEPT ![w] = @ \cup Members(batch[w])]
        /\ applications' = [n \in Nonce |->
             IF n \in NoncesOf(batch[w]) THEN applications[n] + 1
             ELSE applications[n]]
        /\ Goto(w, "applied")
     \/ /\ Goto(w, "abort")
        /\ UNCHANGED <<params, applications>>
  /\ UNCHANGED <<shared, handle, adapterSeen, Arguments>>

\* A record inside the try block; an exception goes to the ABORTED handler.
LogInTry(w, label, status, next) ==
  /\ pc[w] = label
  /\ \/ Logged(w, status) /\ Goto(w, next)
     \/ LogRaises(w, status) /\ Goto(w, "abort")
  /\ UNCHANGED <<registry, intact, ckpts, handle, adapterSeen, params,
                 Arguments, applications>>

LogApplied(w) == LogInTry(w, "applied", "APPLIED", "commit")

\* Mutant: an exception of commit_fn is swallowed.
CommitFnSwallowed(w) ==
  /\ pc[w] = "commit"
  /\ ckpts' \in {ckpts, ckpts \cup {params[w]}}
  /\ Goto(w, "checkpointed")
  /\ UNCHANGED <<registry, wal, intact, handle, adapterSeen, params,
                 Arguments, applications>>

(* commit_fn promotes the model; it may raise before or after the          *)
(* promotion (the commit event is appended after it).                      *)
CommitFn(w) ==
  /\ pc[w] = "commit"
  /\ \/ ckpts' = ckpts \cup {params[w]} /\ Goto(w, "checkpointed")
     \/ ckpts' \in {ckpts, ckpts \cup {params[w]}} /\ Goto(w, "abort")
  /\ UNCHANGED <<registry, wal, intact, handle, adapterSeen, params,
                 Arguments, applications>>

LogCheckpointed(w) == LogInTry(w, "checkpointed", "CHECKPOINTED", "committing")

LogCommitted(w) == LogInTry(w, "committing", "COMMITTED", "done")

Return(w) ==
  /\ pc[w] = "done"
  /\ Leave(w)
  /\ UNCHANGED <<shared, handle, adapterSeen, params, applications>>

(* The handler records ABORTED (the write itself may fail) and re-raises;  *)
(* the exception ends the training process.                                *)
Abort(w) ==
  /\ pc[w] = "abort"
  /\ Logged(w, "ABORTED") \/ LogRaises(w, "ABORTED")
  /\ Die(w)
  /\ UNCHANGED <<registry, intact, ckpts, applications>>

----------------------------------------------------------------------------
WritesLog == {"prepare", "applied", "checkpointed", "committing", "abort"}

(* The process dies wherever it is, possibly in the middle of a WAL write. *)
Crash(w) ==
  /\ pc[w] # "dead"
  /\ Die(w)
  /\ \/ UNCHANGED wal
     \/ TornWrites /\ pc[w] \in WritesLog /\ wal' = TearLine(wal)
  /\ UNCHANGED <<registry, intact, ckpts, applications>>

(* A new process takes over with a promoted checkpoint.                    *)
Restart(w) ==
  /\ pc[w] = "dead"
  /\ Goto(w, "idle")
  /\ \E c \in ckpts : params' = [params EXCEPT ![w] = c]
  /\ UNCHANGED <<shared, handle, adapterSeen, Arguments, applications>>

WorkerStep(w) ==
  \/ Materialize(w) \/ RewireReward(w) \/ AdapterUpdate(w)
  \/ Submit(w) \/ Check(w) \/ Consume(w) \/ Take(w) \/ Bind(w)
  \/ Prepare(w) \/ OptimizerStep(w) \/ LogApplied(w) \/ CommitFn(w)
  \/ LogCheckpointed(w) \/ LogCommitted(w) \/ Return(w) \/ Abort(w)
  \/ Crash(w) \/ Restart(w)

Next == Corrupt \/ \E w \in Worker : WorkerStep(w)

Spec == Init /\ [][Next]_vars

----------------------------------------------------------------------------
(* Properties                                                              *)

PCs == {"idle", "check", "consume", "take", "bind", "prepare", "compute",
        "applied", "commit", "checkpointed", "committing", "done", "abort",
        "dead"}

\* Types of the registry, the log, the handles and the calls in flight.
TypeOK ==
  /\ registry \subseteq Nonce
  /\ wal \in Seq(Line)
  /\ intact \subseteq Input
  /\ ckpts \subseteq SUBSET Input
  /\ handle \in [Worker -> [Input -> Handle \cup {NoHandle}]]
  /\ adapterSeen \in [Worker -> SUBSET Nonce]
  /\ params \in [Worker -> SUBSET Input]
  /\ pc \in [Worker -> PCs]
  /\ batch \in [Worker -> Batches \cup {<<>>}]
  /\ gsize \in [Worker -> GroupSize \cup {Unbound}]
  /\ pos \in [Worker -> Nat \ {0}]
  /\ applications \in [Nonce -> Nat]

\* Exactly-once (NonceRegistry, guarded_optimizer_step phase 2): whatever the
\* interleaving of the workers, their crashes and their retries with freshly
\* materialized handles, no nonce ever feeds a second optimizer step.
AppliedAtMostOnce == \A n \in Nonce : applications[n] <= 1

StepTaken(w) == pc[w] = "compute" /\ pc'[w] = "applied"

\* The capability of the optimizer entry: a parameter update runs only on the
\* handles phases 1 to 3 saw -- allowed, rewards as bound, each consumed, in
\* the frozen order, group and parent model -- although the log write and the
\* other workers' steps come between those phases and the update.
StepOnVerifiedBatch ==
  [][\A w \in Worker : StepTaken(w) =>
       /\ BindingHolds(w)
       /\ NoncesOf(batch[w]) \subseteq registry
       /\ \A i \in Members(batch[w]) :
            /\ i \in Allowed
            /\ handle[w][i].consumed
            /\ ~handle[w][i].rewired]_vars

\* A crash tore a record and the next one was glued to it: both are lost.
RecordLost == \E k \in DOMAIN wal : wal[k].status = "GLUED"

\* UpdateWal.dangling ("update ids whose last record is not COMMITTED, must be
\* redone"): a nonce that has changed parameters is named by a PREPARED record
\* whose update is dangling or has been committed since, as long as no record
\* was glued to a torn one; a torn record alone costs nothing.
RecoveryFindsEveryStep ==
  \A n \in Nonce : applications[n] > 0 /\ ~RecordLost =>
    \E k \in DOMAIN wal, u \in UpdateId :
      /\ wal[k].status = "PREPARED"
      /\ n \in wal[k].nonces
      /\ wal[k].uid = {u}
      /\ \/ u \in Dangling(wal)
         \/ \E j \in LinesOf(wal, u) : j > k /\ wal[j].status = "COMMITTED"

\* UpdateWal class: a COMMITTED record closes one call's PREPARED -> APPLIED ->
\* CHECKPOINTED, in that order, if no record was lost; its nonces fed one step,
\* and a promoted checkpoint holds their updates.
CommittedIsComplete ==
  \A k \in DOMAIN wal : wal[k].status = "COMMITTED" =>
    LET mine(j, status) == wal[j].status = status /\ wal[j].nonces = wal[k].nonces
    IN  /\ RecordLost \/ \E p, a, c \in 1..(k - 1) :
             /\ p < a /\ a < c
             /\ mine(p, "PREPARED") /\ mine(a, "APPLIED") /\ mine(c, "CHECKPOINTED")
        /\ \A n \in wal[k].nonces : applications[n] = 1
        /\ \E c \in ckpts : wal[k].nonces \subseteq {NonceOf[i] : i \in c}

\* The nonces a call has consumed so far.
Held(w) ==
  {NonceOf[batch[w][k]] : k \in
     {j \in DOMAIN batch[w] : \/ pc[w] = "consume" /\ j < pos[w]
                              \/ pc[w] \in {"take", "bind", "prepare", "compute"}}}

\* Why exactly-once holds: the nonces of the calls in flight are burnt, unspent
\* and each held by one call only; a spent nonce is burnt.
Ownership ==
  /\ \A w \in Worker : Held(w) \subseteq registry
  /\ \A w \in Worker : \A n \in Held(w) : applications[n] = 0
  /\ \A v, w \in Worker : v # w => Held(v) \cap Held(w) = {}
  /\ \A n \in Nonce : applications[n] > 0 => n \in registry

\* The abstract ledger: registry transactions are Burn, optimizer steps Spend.
Ledger == INSTANCE NonceLedger WITH burnt <- registry, uses <- applications
ImplementsLedger == Ledger!LedgerSpec
=============================================================================
