-------------------------- MODULE LifecycleReducer --------------------------
(***************************************************************************)
(* store/reducer.py: the state of a weight sync or of an update, derived   *)
(* from its events.                                                        *)
(*                                                                         *)
(* reduce_sync and reduce_update fold the events of one id in the order    *)
(* (lifecycle_seq, event_id).  kind says which of the two is followed, log *)
(* is that sequence, red the fold so far, so every reachable state is one  *)
(* input and its result.                                                   *)
(***************************************************************************)
EXTENDS Naturals, Sequences, FiniteSetsExt

CONSTANTS
  Attempt,   \* attempts of the id
  Value,     \* observed load epochs, or output policy versions
  None,
  MaxLog     \* bound: events of the id

ASSUME ReducerConstants ==
  /\ Attempt \subseteq Nat \ {0}
  /\ None \notin Value
  /\ MaxLog \in Nat

VARIABLES kind, log, red
vars == <<kind, log, red>>

----------------------------------------------------------------------------
(* Event types                                                             *)

\* The state an event type leads to; types without a branch keep the state.
StateAfter ==
  IF kind = "sync"
  THEN [sync_requested |-> "REQUESTED", sync_started |-> "STARTED",
        runtime_loaded |-> "LOADED", canary_passed |-> "CANARY_PASSED",
        sync_reconciled_canary_passed |-> "RECONCILED_CANARY_PASSED",
        sync_retryable_old |-> "RETRYABLE_OLD", sync_quarantined |-> "QUARANTINED",
        sync_failed |-> "FAILED", sync_unknown |-> "UNKNOWN"]
  ELSE [update_started |-> "STARTED", update_prepared |-> "PREPARED",
        update_unknown |-> "UNKNOWN", update_committed |-> "COMMITTED",
        update_restored_parent |-> "RESTORED_PARENT", update_aborted |-> "ABORTED"]

Superseded == IF kind = "sync" THEN "sync_attempt_superseded" ELSE "update_attempt_superseded"

EventType ==
  DOMAIN StateAfter \cup {Superseded} \cup (IF kind = "sync" THEN {"canary_mismatch"} ELSE {})

\* ..._TERMINAL_SUCCESS and ..._TERMINAL_FAILURE
SYNC_TERMINAL ==
  {"canary_passed", "sync_reconciled_canary_passed", "sync_failed",
   "sync_quarantined", "sync_retryable_old", "canary_mismatch"}
UPDATE_TERMINAL == {"update_committed", "update_restored_parent", "update_aborted"}

ASSUME NoneIsNoType == None \notin SYNC_TERMINAL \cup UPDATE_TERMINAL

Terminal == {Superseded} \cup IF kind = "sync" THEN SYNC_TERMINAL ELSE UPDATE_TERMINAL

\* Types written with observed_runtime_load_epoch or output_policy_version.
Observing == {"runtime_loaded", "canary_passed", "canary_mismatch", "update_committed"}

Event ==
  {e \in [type : EventType, attempt : Attempt, value : Value \cup {None}] :
     e.type \in Observing <=> e.value # None}

----------------------------------------------------------------------------
(* reduce_sync, reduce_update                                              *)

\* final: the type of the terminal event of the newest attempt, while there is
\* one (terminal_reached of another attempt is not looked at).
Start == [state |-> "NEW", attempt |-> 0, value |-> None, terminal |-> FALSE,
          final |-> None, conflict |-> FALSE]

Take(r, e) ==
  [r EXCEPT
    !.attempt = e.attempt,
    !.state = IF e.type \in DOMAIN StateAfter THEN StateAfter[e.type] ELSE @,
    !.value = IF e.value # None THEN e.value ELSE @,
    !.terminal = @ \/ e.type \in Terminal,
    !.final = IF e.type \in Terminal THEN e.type ELSE None]

\* Mutant: events after a decision are not skipped.
ApplyReopening(r, e) ==
  IF r.conflict THEN r
  ELSE IF e.type = Superseded THEN [r EXCEPT !.state = "SUPERSEDED"]
  ELSE IF e.attempt < r.attempt THEN r
  ELSE IF e.attempt = r.attempt /\ r.final # None /\ e.type \in Terminal /\ e.type # r.final
    THEN [r EXCEPT !.conflict = TRUE]
  ELSE Take(r, e)

\* Mutant: late events are not skipped.
ApplyLate(r, e) ==
  IF r.conflict THEN r
  ELSE IF e.type = Superseded THEN [r EXCEPT !.state = "SUPERSEDED"]
  ELSE IF e.attempt = r.attempt /\ r.final # None
    THEN [r EXCEPT !.conflict = e.type \in Terminal /\ e.type # r.final]
  ELSE Take(r, e)

\* Mutant: a second terminal event is skipped whatever it says.
ApplyTrusting(r, e) ==
  IF e.type = Superseded THEN [r EXCEPT !.state = "SUPERSEDED"]
  ELSE IF e.attempt < r.attempt THEN r
  ELSE IF e.attempt = r.attempt /\ r.final # None THEN r
  ELSE Take(r, e)

\* One turn of the loop.  ConflictingCommit ends it for good.
Apply(r, e) ==
  IF r.conflict THEN r
  ELSE IF e.type = Superseded THEN [r EXCEPT !.state = "SUPERSEDED"]
  ELSE IF e.attempt < r.attempt THEN r
  ELSE IF e.attempt = r.attempt /\ r.final # None
    THEN [r EXCEPT !.conflict = e.type \in Terminal /\ e.type # r.final]
  ELSE Take(r, e)

----------------------------------------------------------------------------
Init == kind \in {"sync", "update"} /\ log = <<>> /\ red = Start

\* The next event in the log.
Append1(e) ==
  /\ Len(log) < MaxLog
  /\ log' = Append(log, e)
  /\ red' = Apply(red, e)
  /\ UNCHANGED kind

Next == \E e \in Event : Append1(e)

Spec == Init /\ [][Next]_vars

----------------------------------------------------------------------------
(* Reference: the result, read off the whole log.                          *)

Lifecycle == {i \in DOMAIN log : log[i].type # Superseded}

\* Events of an attempt that was the newest when they came.
Timely == {i \in Lifecycle : \A j \in Lifecycle : j < i => log[j].attempt <= log[i].attempt}

Decides(i) == log[i].type \in Terminal

\* Timely events that no decision of their own attempt precedes.
Effective ==
  {i \in Timely : \A j \in Timely : j < i /\ Decides(j) => log[j].attempt # log[i].attempt}

Stateful == {i \in Effective : log[i].type \in DOMAIN StateAfter}
Observed == {i \in Effective : log[i].value # None}

NewestAttempt == IF Lifecycle = {} THEN 0 ELSE Max({log[i].attempt : i \in Lifecycle})

OfNewest(S) == {i \in S : log[i].attempt = NewestAttempt}

Last(S) == IF S = {} THEN 0 ELSE Max(S)

SupersededAfter(k) == \E i \in DOMAIN log : i > k /\ log[i].type = Superseded

\* The state that the last of some events leaves, and the value.
StateFrom(S) ==
  IF SupersededAfter(Last(S)) THEN "SUPERSEDED"
  ELSE IF S = {} THEN "NEW" ELSE StateAfter[log[Last(S)].type]

ValueFrom(S) == IF S = {} THEN None ELSE log[Last(S)].value

\* Two terminal events of one attempt, which was the newest when they came, are
\* of different types.
TypesDiffer ==
  \E i, j \in Timely :
    /\ i \in Effective /\ Decides(i) /\ i < j /\ Decides(j)
    /\ log[i].attempt = log[j].attempt /\ log[i].type # log[j].type

----------------------------------------------------------------------------
(* Properties                                                              *)

TypeOK ==
  /\ kind \in {"sync", "update"}
  /\ log \in Seq(Event)
  /\ red.attempt \in Attempt \cup {0}
  /\ red.value \in Value \cup {None}
  /\ red.final \in (Terminal \ {Superseded}) \cup {None}
  /\ red.final # None => red.terminal

\* A late event of an older attempt, or one after its attempt's decision, never
\* shows: the result has the newest attempt, and of its own effective events
\* the state of the last that leads to one and the last observed value.
\* Three things in it are not the newest attempt's own.  Before that attempt
\* has shown a state or a value, the older attempts' stays (canary_mismatch
\* shows none: attempt 2 of <<canary_passed 1, canary_mismatch 2>> is reported
\* as CANARY_PASSED).  A superseded event, of whatever attempt (line 63), turns
\* the state to SUPERSEDED until the next that leads to one.  terminal, once
\* set, is never reset.
ReducesNewestAttempt ==
  ~red.conflict =>
    /\ red.attempt = NewestAttempt
    /\ red.state = IF OfNewest(Stateful) # {} THEN StateFrom(OfNewest(Stateful))
                   ELSE StateFrom(Stateful)
    /\ red.value = IF OfNewest(Observed) # {} THEN ValueFrom(OfNewest(Observed))
                   ELSE ValueFrom(Observed)
    /\ red.terminal <=> \E i \in Effective : Decides(i)

\* The log is refused exactly when two terminal events of one attempt, the
\* newest when they came, are of different types (line 69).  So it is not for
\* two payloads under the same type, of which the first is reported, though
\* line 23 has "two different committed payloads" invalidate the run; and not
\* for terminal events of an older attempt that come late.
ConflictIsOfTypes == red.conflict <=> TypesDiffer

\* A decided attempt stays decided: until a newer attempt or a conflict, its
\* state changes to SUPERSEDED only.
DecisionIsFinal ==
  [][red.final # None /\ red'.attempt = red.attempt /\ ~red'.conflict =>
       red'.state \in {red.state, "SUPERSEDED"} /\ red'.value = red.value]_vars
=============================================================================
