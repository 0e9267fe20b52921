--------------------------- MODULE GuardedTrainer ---------------------------
(***************************************************************************)
(* adapters/guarded_grpo_trainer.py: the guard as a mixin of TRL's         *)
(* GRPOTrainer (guard_enabled, no fault hook).                             *)
(*                                                                         *)
(* TRL generates a window of rollouts, serves it in shuffled slices, as    *)
(* often as its number of iterations says, and steps the optimizer every   *)
(* few slices.  The guard records the window's rows and has each slice     *)
(* match records not consumed yet.  A row is what the guard hashes: tokens,*)
(* old logprobs and advantage.  Between window and slice a wiring bug may  *)
(* have changed a column, left it out or cut it.                           *)
(***************************************************************************)
EXTENDS Naturals, Sequences, FiniteSets, SequencesExt

CONSTANTS
  Tokens,     \* token sequences (prompt and completion)
  Logps,      \* old logprobs of a completion
  Advantage,
  None,       \* a column or a recorded span that is absent
  Short,      \* old logprobs that do not cover the completion
  WindowSize,
  SliceSizes, \* sizes the slices of a run may have
  Iterations, \* times TRL serves a window
  Accumulate  \* slices to an optimizer step

ASSUME TrainerConstants ==
  /\ WindowSize \in Nat \ {0} /\ SliceSizes \subseteq 1..WindowSize
  /\ Iterations \in Nat \ {0} /\ Accumulate \in Nat \ {0}
  /\ None \notin Logps /\ Short \notin Logps

Slot == 1..WindowSize

\* A row as it is recorded.
Row == [tokens : Tokens, logps : Logps \cup {None}, advantage : Advantage]

\* TRL puts old_per_token_logps into a generation batch or leaves them out.
Windows ==
  {w \in [Slot -> Row] :
     (\A i \in Slot : w[i].logps = None) \/ (\A i \in Slot : w[i].logps # None)}

\* The columns training_step is given, n rows of them.  (Old logprobs for fewer
\* rows end in an IndexError, which like a refusal consumes nothing.)
SlicesOf(n) ==
  [tokens : [1..n -> Tokens],
   logps : {None} \cup [1..n -> Logps \cup {Short}],
   advantages : {None} \cup UNION {[1..m -> Advantage] : m \in 1..(n + 1)}]

NoSlice == [tokens |-> <<>>, logps |-> None, advantages |-> None]

VARIABLES
  \* TRL
  sliceSize,  \* as configured
  window,     \* the generation batch, or <<>>
  unserved,   \* slots of the window this iteration still serves
  passes,     \* iterations over the window that have begun
  batch,      \* the slice training_step works on, or NoSlice
  micro,      \* slices whose gradients wait for the optimizer
  \* guard
  rollouts,   \* _guard_rollouts: recorded rows not consumed
  capability, \* _guard_step_capability
  \* history
  uses,       \* uses[t]: rows with tokens t that reached backward, this window
  blind,      \* a slice of this window passed when no record was left
  refused     \* slots of the slice just refused, if it came as generated

trl == <<sliceSize, window, unserved, passes>>
history == <<uses, blind, refused>>
vars == <<trl, batch, micro, rollouts, capability, history>>

Init ==
  /\ sliceSize \in SliceSizes
  /\ window = <<>> /\ unserved = {} /\ passes = 0 /\ batch = NoSlice /\ micro = 0
  /\ rollouts = <<>> /\ capability = FALSE
  /\ uses = [t \in Tokens |-> 0] /\ blind = FALSE /\ refused = {}

----------------------------------------------------------------------------
(* Rollout seam                                                            *)

\* Mutant: the records of the window before stay.
GenerateKeeping ==
  /\ batch = NoSlice /\ unserved = {} /\ passes \in {0, Iterations}
  /\ \E w \in Windows :
       /\ window' = w
       /\ rollouts' = w \o rollouts
  /\ unserved' = Slot /\ passes' = 1
  /\ uses' = [t \in Tokens |-> 0] /\ blind' = FALSE /\ refused' = {}
  /\ UNCHANGED <<sliceSize, batch, micro, capability>>

\* _generate_and_score_completions: every row is recorded.  (A malformed row
\* raises and leaves all as it was.)
Generate ==
  /\ batch = NoSlice /\ unserved = {} /\ passes \in {0, Iterations}
  /\ \E w \in Windows :
       /\ window' = w
       /\ rollouts' = w
  /\ unserved' = Slot /\ passes' = 1
  /\ uses' = [t \in Tokens |-> 0] /\ blind' = FALSE /\ refused' = {}
  /\ UNCHANGED <<sliceSize, batch, micro, capability>>

NextIteration ==
  /\ batch = NoSlice /\ unserved = {} /\ passes \in 1..(Iterations - 1)
  /\ unserved' = Slot /\ passes' = passes + 1
  /\ UNCHANGED <<sliceSize, window, batch, micro, rollouts, capability, history>>

----------------------------------------------------------------------------
(* Step seam                                                               *)

\* available: by token hash, the last record with these tokens.
Available ==
  LET known == {rollouts[i].tokens : i \in DOMAIN rollouts} IN
  [t \in known |->
     rollouts[CHOOSE i \in DOMAIN rollouts :
       rollouts[i].tokens = t /\ \A j \in DOMAIN rollouts : j > i => rollouts[j].tokens # t]]

\* A span against its record; where none was recorded, its length only.
SpanMatches(span, recorded) == IF recorded = None THEN span # Short ELSE span = recorded

\* Mutant: rows are compared with records by position.
RowsMatchInOrder(b) ==
  /\ Len(b.tokens) <= Len(rollouts)
  /\ \A i \in DOMAIN b.tokens :
       /\ b.tokens[i] = rollouts[i].tokens
       /\ b.logps # None => SpanMatches(b.logps[i], rollouts[i].logps)

\* Every row takes another record with its tokens.  Old logprobs are looked at
\* if the slice has any.
RowsMatch(b) ==
  /\ Len(b.tokens) <= Len(rollouts)
  /\ \A i \in DOMAIN b.tokens :
       /\ b.tokens[i] \in DOMAIN Available
       /\ \A j \in DOMAIN b.tokens : j # i => b.tokens[j] # b.tokens[i]
       /\ b.logps # None => SpanMatches(b.logps[i], Available[b.tokens[i]].logps)

Occurrences(v, f) == Cardinality({i \in DOMAIN f : f[i] = v})

\* Mutant: advantages are not compared.
AnyAdvantages(b) == TRUE

\* The advantages, if the slice has any, are some of the matched records', in
\* any order.
AdvantagesMatch(b) ==
  b.advantages # None =>
    \A v \in Advantage :
      Occurrences(v, b.advantages)
        <= Occurrences(v, [i \in DOMAIN b.tokens |-> Available[b.tokens[i]].advantage])

\* _guard_pre_update.  Without records nothing is compared.
PreUpdate(b) == rollouts = <<>> \/ (RowsMatch(b) /\ AdvantagesMatch(b))

\* Mutant: the records stay after the batch was verified.
NothingConsumed(b) == rollouts

\* Mutant: one slice consumes all records.
AllConsumed(b) == <<>>

\* The records that are left once the batch is verified.
Unconsumed(b) ==
  LET rest == DOMAIN Available \ {b.tokens[i] : i \in DOMAIN b.tokens} IN
  SetToSeq({Available[t] : t \in rest})

\* A slice of the window, in any order, and its columns as generated.
Slices == {f \in [1..sliceSize -> unserved] : \A i, j \in 1..sliceSize : i # j => f[i] # f[j]}

Served(f) ==
  [tokens |-> [i \in DOMAIN f |-> window[f[i]].tokens],
   logps |-> IF \A i \in DOMAIN f : window[f[i]].logps = None THEN None
             ELSE [i \in DOMAIN f |-> window[f[i]].logps],
   advantages |-> [i \in DOMAIN f |-> window[f[i]].advantage]]

\* GuardViolation out of _prepare_inputs: no backward.  The caller may go on
\* with the next slice.
Refuse(b, f) ==
  /\ capability' = FALSE
  /\ refused' = IF b = Served(f) THEN {f[i] : i \in DOMAIN f} ELSE {}
  /\ UNCHANGED <<batch, micro, rollouts, uses, blind>>

Accept(b, f) ==
  /\ capability' = TRUE
  /\ batch' = b
  /\ rollouts' = IF rollouts = <<>> THEN rollouts ELSE Unconsumed(b)
  /\ blind' = (rollouts = <<>>)
  /\ refused' = {}
  /\ UNCHANGED <<micro, uses>>

\* _prepare_inputs
PrepareInputs ==
  /\ batch = NoSlice
  /\ Cardinality(unserved) >= sliceSize
  /\ \E f \in Slices, b \in SlicesOf(sliceSize) :
       /\ unserved' = unserved \ {f[i] : i \in DOMAIN f}
       /\ UNCHANGED <<sliceSize, window, passes>>
       /\ \/ PreUpdate(b) /\ Accept(b, f)
          \/ ~PreUpdate(b) /\ Refuse(b, f)

\* Loss and backward of the rest of training_step.
Backward ==
  /\ batch # NoSlice
  /\ uses' = [t \in Tokens |-> uses[t] + Occurrences(t, batch.tokens)]
  /\ batch' = NoSlice
  /\ micro' = micro + 1
  /\ UNCHANGED <<trl, rollouts, capability, blind, refused>>

\* _CapabilityOptimizer.step, every Accumulate slices or, at the end of the
\* epoch, for the slices left over.  Without the capability it raises.
OptimizerStep ==
  /\ micro > 0 /\ batch = NoSlice
  /\ micro = Accumulate \/ unserved = {}
  /\ capability
  /\ micro' = 0
  /\ UNCHANGED <<trl, batch, rollouts, capability, history>>

Next ==
  \/ Generate \/ NextIteration
  \/ micro < Accumulate /\ PrepareInputs
  \/ Backward \/ OptimizerStep

Spec == Init /\ [][Next]_vars

----------------------------------------------------------------------------
(* Properties                                                              *)

TypeOK ==
  /\ window = <<>> \/ window \in Windows
  /\ unserved \subseteq Slot /\ passes \in 0..Iterations
  /\ batch = NoSlice \/ batch \in SlicesOf(sliceSize)
  /\ micro \in 0..Accumulate
  /\ rollouts \in Seq(Row) /\ Len(rollouts) <= WindowSize
  /\ capability \in BOOLEAN

\* "a row can never be used twice": as long as no slice passed without records,
\* a sequence reaches the gradients of its window once at most, in whatever
\* iteration and however often it was sampled, and no other sequence does.
NeverUsedTwice ==
  ~blind =>
    \A t \in Tokens :
      uses[t] > 0 => uses[t] = 1 /\ \E j \in Slot : window[j].tokens = t

\* "cannot run blind": a slice passes without records only when every sequence
\* of the window was used, whatever was refused before.  So it does in every
\* later iteration over a window that was used up.
NothingBlind == blind => \A j \in Slot : uses[window[j].tokens] > 0

\* What a slice that passed is known to be, as long as there were records.  Its
\* tokens are those of different rows of the window.  Its old logprobs are the
\* recorded ones; they cover the completion where none were recorded, and are
\* not looked at when the slice has none.  Its advantages are those of some of
\* these rows, each taken once, in any order; the slice may have fewer
\* advantages than rows, or none.
BatchRecorded ==
  ~blind =>
    \E f \in [DOMAIN batch.tokens -> Slot] :
      /\ \A i, j \in DOMAIN f : i # j => batch.tokens[i] # batch.tokens[j]
      /\ \A i \in DOMAIN f :
           /\ batch.tokens[i] = window[f[i]].tokens
           /\ batch.logps # None => SpanMatches(batch.logps[i], window[f[i]].logps)
      /\ batch.advantages # None =>
           \E g \in [DOMAIN batch.advantages -> DOMAIN f] :
             /\ \A i, j \in DOMAIN g : i # j => g[i] # g[j]
             /\ \A i \in DOMAIN g : batch.advantages[i] = window[f[g[i]]].advantage

\* A slice that comes as it was generated is refused for one of two reasons:
\* the window holds one of its sequences twice (lines 388-391: the second one
\* finds no record), or one was used before, by a slice that was changed or in
\* an earlier iteration.
HonestAccepted ==
  refused # {} =>
    \E i \in refused :
      \/ uses[window[i].tokens] > 0
      \/ \E j \in Slot : j # i /\ window[j].tokens = window[i].tokens
=============================================================================
