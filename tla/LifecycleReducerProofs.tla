------------------------ MODULE LifecycleReducerProofs ------------------------
(***************************************************************************)
(* Proofs about LifecycleReducer, for any attempts, values and length of   *)
(* the log.                                                                *)
(***************************************************************************)
EXTENDS LifecycleReducer, SequenceTheorems, TLAPS

\* The fields of the reduced state.
IsReduced(r) ==
  /\ r \in [DOMAIN r -> {r[f] : f \in DOMAIN r}]
  /\ DOMAIN r = {"state", "attempt", "value", "terminal", "final", "conflict"}
  /\ r.attempt \in Nat

\* One turn of the loop never goes back to an older attempt.
LEMMA ApplyReduces ==
  ASSUME NEW r, NEW e, IsReduced(r), e.attempt \in Nat
  PROVE  IsReduced(Apply(r, e)) /\ Apply(r, e).attempt >= r.attempt
<1> USE DEF IsReduced
<1>1. CASE r.conflict
  BY <1>1 DEF Apply
<1>2. CASE ~r.conflict /\ e.type = Superseded
  BY <1>2 DEF Apply
<1>3. CASE ~r.conflict /\ e.type # Superseded /\ e.attempt < r.attempt
  <2>1. Apply(r, e) = r
    BY <1>3 DEF Apply
  <2> QED BY <2>1
<1>4. CASE ~r.conflict /\ e.type # Superseded /\ e.attempt = r.attempt /\ r.final # None
  <2>1. e.attempt < r.attempt <=> FALSE
    BY <1>4
  <2>2. Apply(r, e) = [r EXCEPT !.conflict = e.type \in Terminal /\ e.type # r.final]
    BY <1>4, <2>1 DEF Apply
  <2> QED BY <2>2
<1>5. CASE ~r.conflict /\ e.type # Superseded /\ ~(e.attempt < r.attempt)
           /\ ~(e.attempt = r.attempt /\ r.final # None)
  <2>1. Apply(r, e) = Take(r, e)
    BY <1>5 DEF Apply
  <2>2. IsReduced(Take(r, e)) /\ Take(r, e).attempt = e.attempt
    BY DEF Take
  <2>3. e.attempt >= r.attempt
    BY <1>5
  <2> QED BY <2>1, <2>2, <2>3
<1> QED BY <1>1, <1>2, <1>3, <1>4, <1>5

\* A turn of the loop that neither raises nor starts a newer attempt leaves a
\* decision, but for SUPERSEDED.
LEMMA DecidedStays ==
  ASSUME NEW r, NEW e, IsReduced(r), e.attempt \in Nat, r.final # None,
         Apply(r, e).attempt = r.attempt, ~Apply(r, e).conflict
  PROVE  Apply(r, e).state \in {r.state, "SUPERSEDED"} /\ Apply(r, e).value = r.value
<1> USE DEF IsReduced
<1>1. CASE r.conflict
  BY <1>1 DEF Apply
<1>2. CASE ~r.conflict /\ e.type = Superseded
  BY <1>2 DEF Apply
<1>3. CASE ~r.conflict /\ e.type # Superseded /\ e.attempt < r.attempt
  BY <1>3 DEF Apply
<1>4. CASE ~r.conflict /\ e.type # Superseded /\ e.attempt = r.attempt
  BY <1>4 DEF Apply
<1>5. CASE ~r.conflict /\ e.type # Superseded /\ e.attempt > r.attempt
  <2>1. Apply(r, e) = Take(r, e)
    BY <1>5 DEF Apply
  <2>2. Take(r, e).attempt = e.attempt
    BY DEF Take
  <2> QED BY <1>5, <2>1, <2>2
<1> QED BY <1>1, <1>2, <1>3, <1>4, <1>5

\* So the result of every log has these fields.
LEMMA RedIsReduced == Spec => []IsReduced(red)
<1>1. Init => IsReduced(red)
  BY DEF Init, Start, IsReduced
<1>2. IsReduced(red) /\ [Next]_vars => IsReduced(red)'
  <2>1. ASSUME IsReduced(red), NEW e \in Event, Append1(e) PROVE IsReduced(red')
    <3>1. e.attempt \in Nat
      BY ReducerConstants DEF Event
    <3> QED BY <2>1, <3>1, ApplyReduces DEF Append1
  <2>2. ASSUME IsReduced(red), UNCHANGED vars PROVE IsReduced(red')
    BY <2>2 DEF vars
  <2> QED BY <2>1, <2>2 DEF Next
<1> QED BY <1>1, <1>2, PTL DEF Spec

\* reduce_sync and reduce_update never revise a decision of an attempt.
THEOREM DecisionsAreFinal == Spec => DecisionIsFinal
<1>1. IsReduced(red) /\ [Next]_vars =>
        [red.final # None /\ red'.attempt = red.attempt /\ ~red'.conflict =>
           red'.state \in {red.state, "SUPERSEDED"} /\ red'.value = red.value]_vars
  <2> SUFFICES ASSUME IsReduced(red), NEW e \in Event, Append1(e),
                      red.final # None, red'.attempt = red.attempt, ~red'.conflict
               PROVE  red'.state \in {red.state, "SUPERSEDED"} /\ red'.value = red.value
    BY DEF Next
  <2>1. e.attempt \in Nat
    BY ReducerConstants DEF Event
  <2>2. red' = Apply(red, e)
    BY DEF Append1
  <2> QED BY <2>1, <2>2, DecidedStays
<1> QED BY <1>1, RedIsReduced, PTL DEF Spec, DecisionIsFinal

\* The fields of the reduced state hold what its events carry.
Fields(r) ==
  /\ IsReduced(r)
  /\ r.attempt \in Attempt \cup {0}
  /\ r.value \in Value \cup {None}
  /\ r.final \in (Terminal \ {Superseded}) \cup {None}
  /\ r.final # None => r.terminal

LEMMA ApplyTyped ==
  ASSUME NEW r, NEW e \in Event, Fields(r)
  PROVE  Fields(Apply(r, e))
<1>1. e.attempt \in Attempt /\ e.attempt \in Nat /\ e.value \in Value \cup {None}
  BY ReducerConstants DEF Event
<1>2. IsReduced(Apply(r, e)) BY <1>1, ApplyReduces DEF Fields
<1>3. CASE r.conflict BY <1>3 DEF Apply, Fields, IsReduced
<1>4. CASE ~r.conflict /\ e.type = Superseded
  <2>1. Apply(r, e) = [r EXCEPT !.state = "SUPERSEDED"] BY <1>4 DEF Apply, Fields, IsReduced
  <2>2. /\ Apply(r, e).attempt = r.attempt /\ Apply(r, e).value = r.value
        /\ Apply(r, e).final = r.final /\ Apply(r, e).terminal = r.terminal
    BY <2>1 DEF Fields, IsReduced
  <2> QED BY <1>2, <2>2 DEF Fields
<1>5. CASE ~r.conflict /\ e.type # Superseded /\ e.attempt < r.attempt
  <2>1. Apply(r, e) = r BY <1>5 DEF Apply, Fields, IsReduced
  <2> QED BY <2>1
<1>6. CASE ~r.conflict /\ e.type # Superseded /\ e.attempt = r.attempt /\ r.final # None
  <2>1. ~(e.attempt < r.attempt) BY <1>1, <1>6
  <2>2. Apply(r, e) = [r EXCEPT !.conflict = e.type \in Terminal /\ e.type # r.final]
    BY <1>6, <2>1 DEF Apply
  <2>3. /\ Apply(r, e).attempt = r.attempt /\ Apply(r, e).value = r.value
        /\ Apply(r, e).final = r.final /\ Apply(r, e).terminal = r.terminal
    BY <2>2 DEF Fields, IsReduced
  <2> QED BY <1>2, <2>3 DEF Fields
<1>7. CASE ~r.conflict /\ e.type # Superseded /\ ~(e.attempt < r.attempt)
           /\ ~(e.attempt = r.attempt /\ r.final # None)
  <2>1. Apply(r, e) = Take(r, e) BY <1>7 DEF Apply
  <2>2. /\ Take(r, e).attempt = e.attempt
        /\ Take(r, e).value \in {e.value, r.value}
        /\ Take(r, e).final = IF e.type \in Terminal THEN e.type ELSE None
        /\ Take(r, e).terminal = (r.terminal \/ e.type \in Terminal)
    BY DEF Take, Fields, IsReduced
  <2> QED BY <1>1, <1>2, <1>7, <2>1, <2>2 DEF Fields
<1> QED BY <1>3, <1>4, <1>5, <1>6, <1>7

\* Types of the log and of its result, for logs of any length.
THEOREM ReducedTypes == Spec => []TypeOK
<1> DEFINE Inv == kind \in {"sync", "update"} /\ log \in Seq(Event) /\ Fields(red)
<1>1. Init => Inv
  <2> SUFFICES ASSUME Init PROVE Inv OBVIOUS
  <2>1. kind \in {"sync", "update"} /\ log \in Seq(Event) BY DEF Init
  <2>2. Fields(red) BY DEF Init, Start, Fields, IsReduced
  <2> QED BY <2>1, <2>2
<1>2. Inv /\ [Next]_vars => Inv'
  <2> SUFFICES ASSUME Inv, [Next]_vars PROVE Inv' OBVIOUS
  <2>1. CASE UNCHANGED vars
    BY <2>1 DEF vars, Fields, Terminal, Superseded, Event, EventType, StateAfter
  <2>2. ASSUME NEW e \in Event, Append1(e) PROVE Inv'
    <3>1. kind' = kind BY <2>2 DEF Append1
    <3>2. Event' = Event BY <3>1 DEF Event, EventType, StateAfter, Superseded
    <3>3. log' \in Seq(Event) BY <2>2 DEF Append1
    <3>4. Fields(red') BY <2>2, ApplyTyped DEF Append1
    <3>5. Fields(red)' BY <3>1, <3>4 DEF Fields, Terminal, Superseded
    <3> QED BY <3>1, <3>2, <3>3, <3>5
  <2> QED BY <2>1, <2>2 DEF Next
<1>3. Inv => TypeOK BY DEF TypeOK, Fields
<1> QED BY <1>1, <1>2, <1>3, PTL DEF Spec

----------------------------------------------------------------------------
(* The fold against its reference.  Both read the log from the left, so an  *)
(* appended event leaves what the reference says of the earlier positions,  *)
(* and the fold knows enough of them to place the new one.                  *)

\* What one more event changes in the reference.
LEMMA AppendedReference ==
  ASSUME log \in Seq(Event), NEW e \in Event, Append1(e)
  PROVE  LET n == Len(log) + 1 IN
         /\ n \notin DOMAIN log
         /\ \A i \in DOMAIN log : i < n /\ log'[i] = log[i]
         /\ log'[n] = e
         /\ Superseded' = Superseded /\ Terminal' = Terminal /\ StateAfter' = StateAfter
         /\ Lifecycle' = IF e.type = Superseded THEN Lifecycle ELSE Lifecycle \cup {n}
         /\ Timely' = IF /\ e.type # Superseded
                         /\ \A j \in Lifecycle : log[j].attempt <= e.attempt
                      THEN Timely \cup {n} ELSE Timely
         /\ Effective' = IF /\ n \in Timely'
                            /\ \A j \in Timely : Decides(j) => log[j].attempt # e.attempt
                         THEN Effective \cup {n} ELSE Effective
<1> DEFINE n == Len(log) + 1
<1>1. /\ Len(log) \in Nat /\ n \in Nat /\ DOMAIN log = 1..Len(log)
      /\ DOMAIN log' = 1..n /\ log'[n] = e
      /\ \A i \in DOMAIN log : log'[i] = log[i]
  <2>1. Len(log) \in Nat /\ DOMAIN log = 1..Len(log)
    BY LenProperties
  <2>2. log' \in Seq(Event) /\ Len(log') = n /\ log'[n] = e
        /\ \A i \in 1..Len(log) : log'[i] = log[i]
    BY AppendProperties DEF Append1
  <2>3. DOMAIN log' = 1..n
    BY <2>2, LenProperties
  <2> QED BY <2>1, <2>2, <2>3
<1>2. n \notin DOMAIN log /\ \A i \in DOMAIN log : i < n /\ ~(n < i)
  BY <1>1
<1>3. Superseded' = Superseded /\ Terminal' = Terminal /\ StateAfter' = StateAfter
  BY DEF Append1, Terminal, StateAfter, Superseded
<1>4. DOMAIN log' = DOMAIN log \cup {n}
  BY <1>1
<1>5. Lifecycle' = IF e.type = Superseded THEN Lifecycle ELSE Lifecycle \cup {n}
  BY <1>1, <1>2, <1>3, <1>4 DEF Lifecycle
<1>6. Lifecycle \subseteq DOMAIN log /\ Timely \subseteq Lifecycle
  BY DEF Lifecycle, Timely
<1>7. \A i \in DOMAIN log : i \in Lifecycle' <=> i \in Lifecycle
  BY <1>2, <1>5, <1>6
<1>8. \A i \in DOMAIN log : i \in Timely' <=> i \in Timely
  <2> SUFFICES ASSUME NEW i \in DOMAIN log PROVE i \in Timely' <=> i \in Timely
    OBVIOUS
  <2>1. \A j \in Lifecycle' : j < i => j \in DOMAIN log
    BY <1>2, <1>5, <1>6
  <2>2. \A j \in DOMAIN log : j < i =>
          (j \in Lifecycle' => log'[j].attempt <= log'[i].attempt)
          <=> (j < i => (j \in Lifecycle => log[j].attempt <= log[i].attempt))
    BY <1>1, <1>7
  <2> QED BY <1>1, <1>6, <1>7, <2>1, <2>2 DEF Timely
<1>9. n \in Timely' <=> /\ e.type # Superseded
                        /\ \A j \in Lifecycle : log[j].attempt <= e.attempt
  <2>1. n \in Timely' <=> /\ n \in Lifecycle'
                          /\ \A j \in Lifecycle' : j < n => log'[j].attempt <= e.attempt
    BY <1>1 DEF Timely
  <2>2. ~(n < n)
    BY <1>1
  <2>3. \A j \in Lifecycle : j < n /\ log'[j] = log[j]
    BY <1>1, <1>2, <1>6
  <2> QED BY <1>2, <1>5, <1>6, <2>1, <2>2, <2>3
<1>10. Timely' \subseteq DOMAIN log \cup {n}
  BY <1>4 DEF Timely, Lifecycle
<1>11. Timely' = IF /\ e.type # Superseded
                    /\ \A j \in Lifecycle : log[j].attempt <= e.attempt
                 THEN Timely \cup {n} ELSE Timely
  <2>1. \A i : i \in Timely' <=> i \in Timely \/ (i = n /\ n \in Timely')
    BY <1>2, <1>6, <1>8, <1>10
  <2>2. Timely' = IF n \in Timely' THEN Timely \cup {n} ELSE Timely
    BY <2>1
  <2> QED BY <1>9, <2>2
<1>12. \A i \in DOMAIN log : Decides(i)' <=> Decides(i)
  BY <1>1, <1>3 DEF Decides
<1>13. \A i \in DOMAIN log : i \in Effective' <=> i \in Effective
  <2> SUFFICES ASSUME NEW i \in DOMAIN log PROVE i \in Effective' <=> i \in Effective
    OBVIOUS
  <2>1. \A j \in Timely' : j < i => j \in Timely
    BY <1>2, <1>8, <1>10
  <2>2. Timely \subseteq Timely'
    BY <1>11
  <2> QED BY <1>1, <1>6, <1>8, <1>12, <2>1, <2>2 DEF Effective
<1>14. n \in Effective' <=> /\ n \in Timely'
                            /\ \A j \in Timely : Decides(j) => log[j].attempt # e.attempt
  <2>1. n \in Effective' <=>
          /\ n \in Timely'
          /\ \A j \in Timely' : j < n /\ Decides(j)' => log'[j].attempt # e.attempt
    BY <1>1 DEF Effective
  <2>2. ~(n < n)
    BY <1>1
  <2>3. \A j \in Timely : j < n /\ log'[j] = log[j] /\ (Decides(j)' <=> Decides(j))
    BY <1>1, <1>2, <1>6, <1>12
  <2> QED BY <1>11, <2>1, <2>2, <2>3
<1>15. Effective' \subseteq DOMAIN log \cup {n} /\ Effective \subseteq DOMAIN log
  BY <1>6, <1>10 DEF Effective
<1>16. Effective' = IF /\ n \in Timely'
                       /\ \A j \in Timely : Decides(j) => log[j].attempt # e.attempt
                    THEN Effective \cup {n} ELSE Effective
  <2>1. \A i : i \in Effective' <=> i \in Effective \/ (i = n /\ n \in Effective')
    BY <1>2, <1>13, <1>15
  <2>2. Effective' = IF n \in Effective' THEN Effective \cup {n} ELSE Effective
    BY <2>1
  <2> QED BY <1>14, <2>2
<1>17. \A i \in DOMAIN log : i < n /\ log'[i] = log[i]
  BY <1>1, <1>2
<1> HIDE DEF n
<1>18. /\ n \notin DOMAIN log /\ log'[n] = e
       /\ \A i \in DOMAIN log : i < n /\ log'[i] = log[i]
  BY <1>1, <1>2, <1>17
<1> QED
  BY <1>3, <1>5, <1>11, <1>16, <1>18 DEF n

\* What the fold knows of the log while it has raised nothing.
AttemptIsNewest ==
  /\ \A i \in Lifecycle : log[i].attempt <= red.attempt
  /\ IF Lifecycle = {} THEN red.attempt = 0
     ELSE \E i \in Lifecycle : log[i].attempt = red.attempt

FinalIsDecision ==
  /\ red.final = None => \A i \in Timely : Decides(i) => log[i].attempt # red.attempt
  /\ red.final # None => \E i \in Effective : Decides(i) /\ log[i].attempt = red.attempt
  /\ \A i \in Effective : Decides(i) /\ log[i].attempt = red.attempt => red.final = log[i].type

IsLast(k, S) == k \in S /\ \A i \in S : i <= k

StateIsLast ==
  IF Stateful = {} THEN red.state = IF SupersededAfter(0) THEN "SUPERSEDED" ELSE "NEW"
  ELSE \E k : /\ IsLast(k, Stateful)
             /\ red.state = IF SupersededAfter(k) THEN "SUPERSEDED" ELSE StateAfter[log[k].type]

ValueIsLast ==
  IF Observed = {} THEN red.value = None
  ELSE \E k : IsLast(k, Observed) /\ red.value = log[k].value

TerminalIsDecided == red.terminal <=> \E i \in Effective : Decides(i)

Known == AttemptIsNewest /\ FinalIsDecision /\ StateIsLast /\ ValueIsLast /\ TerminalIsDecided

Reference ==
  /\ red.conflict <=> TypesDiffer
  /\ ~red.conflict => Known

\* Positions the reference speaks of, and what stands there.
LEMMA Positions ==
  ASSUME log \in Seq(Event)
  PROVE  /\ Effective \subseteq Timely /\ Timely \subseteq Lifecycle
         /\ Lifecycle \subseteq DOMAIN log /\ DOMAIN log \subseteq Nat \ {0}
         /\ \A i \in DOMAIN log : log[i].attempt \in Nat
<1>1. DOMAIN log = 1..Len(log) /\ Len(log) \in Nat /\ \A i \in DOMAIN log : log[i] \in Event
  BY LenProperties, ElementOfSeq
<1>2. \A x \in Event : x.attempt \in Nat
  BY ReducerConstants DEF Event
<1> QED BY <1>1, <1>2 DEF Effective, Timely, Lifecycle

\* The tests of one turn of the loop place the event as the reference does.
LEMMA PlaceOfNext ==
  ASSUME log \in Seq(Event), Fields(red), AttemptIsNewest, FinalIsDecision,
         NEW e \in Event
  PROVE  /\ (\A j \in Lifecycle : log[j].attempt <= e.attempt) <=> ~(e.attempt < red.attempt)
         /\ ~(e.attempt < red.attempt) =>
              ((\A j \in Timely : Decides(j) => log[j].attempt # e.attempt)
               <=> ~(e.attempt = red.attempt /\ red.final # None))
<1>1. e.attempt \in Nat /\ red.attempt \in Nat
  BY ReducerConstants DEF Event, Fields, IsReduced
<1>2. /\ Effective \subseteq Timely /\ Timely \subseteq Lifecycle
      /\ \A i \in Lifecycle : log[i].attempt \in Nat
  BY Positions
<1>3. (\A j \in Lifecycle : log[j].attempt <= e.attempt) <=> ~(e.attempt < red.attempt)
  BY <1>1, <1>2 DEF AttemptIsNewest
<1>4. CASE e.attempt > red.attempt
  <2>1. \A j \in Timely : log[j].attempt # e.attempt
    BY <1>1, <1>2, <1>4 DEF AttemptIsNewest
  <2> QED BY <1>1, <1>3, <1>4, <2>1
<1>5. CASE e.attempt = red.attempt
  BY <1>1, <1>2, <1>3, <1>5 DEF FinalIsDecision
<1> QED BY <1>1, <1>3, <1>4, <1>5

\* A superseded event is after every position of the log before it.
LEMMA SupersededNext ==
  ASSUME log \in Seq(Event), NEW e \in Event, Append1(e), NEW k \in DOMAIN log \cup {0}
  PROVE  SupersededAfter(k)' <=> SupersededAfter(k) \/ e.type = Superseded
<1>0. PICK n : n = Len(log) + 1
  OBVIOUS
<1>1. /\ n \notin DOMAIN log /\ log'[n] = e
      /\ \A i \in DOMAIN log : i < n /\ log'[i] = log[i]
  BY <1>0, AppendedReference
<1>2. DOMAIN log' = DOMAIN log \cup {n} /\ n > k /\ Superseded' = Superseded
  <2>1. Len(log') = n /\ log' \in Seq(Event)
    BY <1>0, AppendProperties DEF Append1
  <2>2. DOMAIN log' = 1..n /\ DOMAIN log = 1..Len(log) /\ Len(log) \in Nat
    BY <2>1, LenProperties
  <2> QED BY <1>0, <1>1, <2>2 DEF Append1, Superseded
<1> QED BY <1>1, <1>2 DEF SupersededAfter

\* An event that is not effective leaves the reference's result, but for
\* SUPERSEDED.
LEMMA SameResult ==
  ASSUME log \in Seq(Event), NEW e \in Event, Append1(e), Effective' = Effective,
         StateIsLast, ValueIsLast, TerminalIsDecided,
         red'.state = IF e.type = Superseded THEN "SUPERSEDED" ELSE red.state,
         red'.value = red.value, red'.terminal = red.terminal
  PROVE  (StateIsLast /\ ValueIsLast /\ TerminalIsDecided)'
<1>1. \A i \in Effective : log'[i] = log[i] /\ i \in DOMAIN log
  BY AppendedReference, Positions
<1>2. StateAfter' = StateAfter /\ Terminal' = Terminal
  BY AppendedReference
<1>3. Stateful' = Stateful /\ Stateful \subseteq Effective
  BY <1>1, <1>2 DEF Stateful
<1>4. Observed' = Observed /\ Observed \subseteq Effective
  BY <1>1 DEF Observed
<1>5. StateIsLast'
  <2>1. CASE Stateful = {}
    <3>1. SupersededAfter(0)' <=> SupersededAfter(0) \/ e.type = Superseded
      BY SupersededNext
    <3> QED BY <1>3, <2>1, <3>1 DEF StateIsLast
  <2>2. CASE Stateful # {}
    <3>1. PICK k : /\ IsLast(k, Stateful)
                   /\ red.state = IF SupersededAfter(k) THEN "SUPERSEDED"
                                  ELSE StateAfter[log[k].type]
      BY <2>2 DEF StateIsLast
    <3>2. k \in Stateful /\ k \in DOMAIN log /\ log'[k] = log[k]
      BY <1>1, <1>3, <3>1 DEF IsLast
    <3>3. SupersededAfter(k)' <=> SupersededAfter(k) \/ e.type = Superseded
      BY <3>2, SupersededNext
    <3>4. red'.state = IF SupersededAfter(k)' THEN "SUPERSEDED" ELSE StateAfter'[log'[k].type]
      BY <1>2, <3>1, <3>2, <3>3
    <3>5. IsLast(k, Stateful)'
      BY <1>3, <3>1 DEF IsLast
    <3> QED BY <1>3, <2>2, <3>4, <3>5 DEF StateIsLast
  <2> QED BY <2>1, <2>2
<1>6. ValueIsLast'
  BY <1>1, <1>4 DEF ValueIsLast, IsLast
<1>7. TerminalIsDecided'
  BY <1>1, <1>2 DEF TerminalIsDecided, Decides
<1> QED BY <1>5, <1>6, <1>7

\* Differences in a longer log: the old ones, and those with its last event.
LEMMA DifferenceOfNext ==
  ASSUME log \in Seq(Event), NEW e \in Event, Append1(e)
  PROVE  LET n == Len(log) + 1 IN
         TypesDiffer' <=>
           \/ TypesDiffer
           \/ /\ n \in Timely' /\ e.type \in Terminal
              /\ \E i \in Effective : /\ Decides(i) /\ log[i].attempt = e.attempt
                                      /\ log[i].type # e.type
<1>0. PICK n : n = Len(log) + 1
  OBVIOUS
<1>1. /\ n \notin DOMAIN log /\ log'[n] = e
      /\ \A i \in DOMAIN log : i < n /\ log'[i] = log[i]
  BY <1>0, AppendedReference
<1>2. /\ Timely \subseteq Timely' /\ Timely' \subseteq Timely \cup {n}
      /\ Effective \subseteq Effective' /\ Effective' \subseteq Effective \cup {n}
  BY <1>0, AppendedReference
<1>3. /\ Effective \subseteq Timely /\ Timely \subseteq DOMAIN log
      /\ DOMAIN log \subseteq Nat /\ n \in Nat
  BY <1>0, Positions, LenProperties
<1>4. Terminal' = Terminal
  BY AppendedReference
<1>5. \A i \in DOMAIN log : ~(n < i) /\ (Decides(i)' <=> Decides(i))
  BY <1>1, <1>3, <1>4 DEF Decides
<1>6. ~(n < n) /\ (Decides(n)' <=> e.type \in Terminal)
  BY <1>1, <1>3, <1>4 DEF Decides
<1>7. ASSUME TypesDiffer' PROVE
           \/ TypesDiffer
           \/ /\ n \in Timely' /\ e.type \in Terminal
              /\ \E i \in Effective : /\ Decides(i) /\ log[i].attempt = e.attempt
                                      /\ log[i].type # e.type
  <2>1. PICK i \in Timely', j \in Timely' :
          /\ i \in Effective' /\ Decides(i)' /\ i < j /\ Decides(j)'
          /\ log'[i].attempt = log'[j].attempt /\ log'[i].type # log'[j].type
    BY <1>7 DEF TypesDiffer
  <2>2. i \in Effective /\ i \in Timely /\ i \in DOMAIN log
    BY <1>2, <1>3, <1>5, <1>6, <2>1
  <2>3. CASE j = n
    BY <1>1, <1>5, <1>6, <2>1, <2>2, <2>3
  <2>4. CASE j \in Timely
    BY <1>1, <1>3, <1>5, <2>1, <2>2, <2>4 DEF TypesDiffer
  <2> QED BY <1>2, <2>1, <2>3, <2>4
<1>8. ASSUME TypesDiffer PROVE TypesDiffer'
  <2>1. PICK i \in Timely, j \in Timely :
          /\ i \in Effective /\ Decides(i) /\ i < j /\ Decides(j)
          /\ log[i].attempt = log[j].attempt /\ log[i].type # log[j].type
    BY <1>8 DEF TypesDiffer
  <2>2. /\ i \in Timely' /\ j \in Timely' /\ i \in Effective'
        /\ Decides(i)' /\ Decides(j)' /\ log'[i] = log[i] /\ log'[j] = log[j]
    BY <1>1, <1>2, <1>3, <1>5, <2>1
  <2> QED BY <2>1, <2>2 DEF TypesDiffer
<1>9. ASSUME n \in Timely', e.type \in Terminal, NEW i \in Effective,
             Decides(i), log[i].attempt = e.attempt, log[i].type # e.type
      PROVE  TypesDiffer'
  <2>1. /\ i \in Timely' /\ i \in Effective' /\ i < n /\ Decides(i)' /\ Decides(n)'
        /\ log'[i] = log[i] /\ log'[n] = e
    BY <1>1, <1>2, <1>3, <1>5, <1>6, <1>9
  <2> QED BY <1>9, <2>1 DEF TypesDiffer
<1> QED BY <1>0, <1>7, <1>8, <1>9

\* One turn of the loop is one position of the reference: a case for each test.
LEMMA ReferenceStep ==
  ASSUME log \in Seq(Event), Fields(red), Reference, NEW e \in Event, Append1(e)
  PROVE  Reference'
<1>0. PICK n : n = Len(log) + 1
  OBVIOUS
<1>1. /\ n \notin DOMAIN log /\ log'[n] = e
      /\ \A i \in DOMAIN log : i < n /\ log'[i] = log[i]
      /\ Terminal' = Terminal /\ StateAfter' = StateAfter
      /\ Lifecycle' = IF e.type = Superseded THEN Lifecycle ELSE Lifecycle \cup {n}
      /\ Timely' = IF e.type # Superseded /\ \A j \in Lifecycle : log[j].attempt <= e.attempt
                   THEN Timely \cup {n} ELSE Timely
      /\ Effective' = IF /\ n \in Timely'
                         /\ \A j \in Timely : Decides(j) => log[j].attempt # e.attempt
                      THEN Effective \cup {n} ELSE Effective
  BY <1>0, AppendedReference
<1>2. /\ Effective \subseteq Timely /\ Timely \subseteq Lifecycle /\ Lifecycle \subseteq DOMAIN log
      /\ \A i \in DOMAIN log : log[i].attempt \in Nat /\ i \in Nat
      /\ n \in Nat /\ e.attempt \in Nat \ {0} /\ red.attempt \in Nat
  BY <1>0, Positions, LenProperties, ReducerConstants DEF Event, Fields, IsReduced
<1>3. TypesDiffer' <=>
        \/ TypesDiffer
        \/ /\ n \in Timely' /\ e.type \in Terminal
           /\ \E i \in Effective : /\ Decides(i) /\ log[i].attempt = e.attempt
                                   /\ log[i].type # e.type
  BY <1>0, DifferenceOfNext
<1>4. red' = Apply(red, e)
  BY DEF Append1
<1>5. \A i \in DOMAIN log : Decides(i)' <=> Decides(i)
  BY <1>1 DEF Decides
<1>6. CASE red.conflict
  BY <1>3, <1>4, <1>6 DEF Apply, Reference
<1>7. CASE ~red.conflict /\ e.type = Superseded
  <2>1. red' = [red EXCEPT !.state = "SUPERSEDED"]
    BY <1>4, <1>7 DEF Apply
  <2>2. /\ red'.state = "SUPERSEDED" /\ red'.value = red.value /\ red'.final = red.final
        /\ red'.attempt = red.attempt /\ red'.conflict = red.conflict
        /\ red'.terminal = red.terminal
    BY <2>1 DEF Fields, IsReduced
  <2>3. Lifecycle' = Lifecycle /\ Timely' = Timely /\ n \notin Timely'
    BY <1>1, <1>2, <1>7
  <2>4. Effective' = Effective
    BY <1>1, <2>3
  <2>5. Known
    BY <1>7 DEF Reference
  <2>6. (StateIsLast /\ ValueIsLast /\ TerminalIsDecided)'
    BY <1>7, <2>2, <2>4, <2>5, SameResult DEF Known
  <2>7. AttemptIsNewest'
    BY <1>1, <1>2, <2>2, <2>3, <2>5 DEF Known, AttemptIsNewest
  <2>8. FinalIsDecision'
    BY <1>1, <1>2, <1>5, <2>2, <2>3, <2>4, <2>5 DEF Known, FinalIsDecision
  <2>9. ~TypesDiffer'
    BY <1>3, <1>7, <2>3 DEF Reference
  <2> QED BY <1>7, <2>2, <2>6, <2>7, <2>8, <2>9 DEF Reference, Known
<1>8. CASE ~red.conflict /\ e.type # Superseded /\ e.attempt < red.attempt
  <2>1. Known
    BY <1>8 DEF Reference
  <2>2. red' = red
    BY <1>2, <1>4, <1>8 DEF Apply
  <2>3. ~\A j \in Lifecycle : log[j].attempt <= e.attempt
    BY <1>8, <2>1, PlaceOfNext DEF Known
  <2>4. Lifecycle' = Lifecycle \cup {n} /\ Timely' = Timely /\ n \notin Timely'
    BY <1>1, <1>2, <1>8, <2>3
  <2>5. Effective' = Effective
    BY <1>1, <2>4
  <2>6. (StateIsLast /\ ValueIsLast /\ TerminalIsDecided)'
    BY <1>8, <2>1, <2>2, <2>5, SameResult DEF Known
  <2>7. AttemptIsNewest'
    BY <1>1, <1>2, <1>8, <2>1, <2>2, <2>4 DEF Known, AttemptIsNewest
  <2>8. FinalIsDecision'
    BY <1>1, <1>2, <1>5, <2>1, <2>2, <2>4, <2>5 DEF Known, FinalIsDecision
  <2>9. ~TypesDiffer'
    BY <1>3, <1>8, <2>4 DEF Reference
  <2> QED BY <1>8, <2>2, <2>6, <2>7, <2>8, <2>9 DEF Reference, Known
<1>9. CASE /\ ~red.conflict /\ e.type # Superseded
           /\ e.attempt = red.attempt /\ red.final # None
  <2>1. Known
    BY <1>9 DEF Reference
  <2>2. ~(e.attempt < red.attempt)
    BY <1>2, <1>9
  <2>3. red' = [red EXCEPT !.conflict = e.type \in Terminal /\ e.type # red.final]
    BY <1>4, <1>9, <2>2 DEF Apply
  <2>4. /\ red'.state = red.state /\ red'.value = red.value /\ red'.final = red.final
        /\ red'.attempt = red.attempt /\ red'.terminal = red.terminal
        /\ red'.conflict <=> e.type \in Terminal /\ e.type # red.final
    BY <2>3 DEF Fields, IsReduced
  <2>5. /\ \A j \in Lifecycle : log[j].attempt <= e.attempt
        /\ ~\A j \in Timely : Decides(j) => log[j].attempt # e.attempt
    BY <1>9, <2>1, <2>2, PlaceOfNext DEF Known
  <2>6. Lifecycle' = Lifecycle \cup {n} /\ Timely' = Timely \cup {n}
    BY <1>1, <1>9, <2>5
  <2>7. Effective' = Effective
    BY <1>1, <2>5
  <2>8. (StateIsLast /\ ValueIsLast /\ TerminalIsDecided)'
    BY <1>9, <2>1, <2>4, <2>7, SameResult DEF Known
  <2>9. AttemptIsNewest'
    BY <1>1, <1>2, <1>9, <2>1, <2>4, <2>6 DEF Known, AttemptIsNewest
  <2>10. FinalIsDecision'
    BY <1>1, <1>2, <1>5, <1>9, <2>1, <2>4, <2>7 DEF Known, FinalIsDecision
  <2>11. TypesDiffer' <=> e.type \in Terminal /\ e.type # red.final
    BY <1>3, <1>9, <2>1, <2>6 DEF Reference, Known, FinalIsDecision
  <2> QED BY <2>4, <2>8, <2>9, <2>10, <2>11 DEF Reference, Known
<1>10. CASE /\ ~red.conflict /\ e.type # Superseded /\ ~(e.attempt < red.attempt)
            /\ ~(e.attempt = red.attempt /\ red.final # None)
  <2>1. Known
    BY <1>10 DEF Reference
  <2>2. red' = Take(red, e)
    BY <1>4, <1>10 DEF Apply
  <2>3. /\ red'.attempt = e.attempt /\ ~red'.conflict
        /\ red'.state = IF e.type \in DOMAIN StateAfter THEN StateAfter[e.type] ELSE red.state
        /\ red'.value = IF e.value # None THEN e.value ELSE red.value
        /\ red'.final = IF e.type \in Terminal THEN e.type ELSE None
        /\ red'.terminal = (red.terminal \/ e.type \in Terminal)
    BY <1>10, <2>2 DEF Take, Fields, IsReduced
  <2>4. /\ \A j \in Lifecycle : log[j].attempt <= e.attempt
        /\ \A j \in Timely : Decides(j) => log[j].attempt # e.attempt
    BY <1>10, <2>1, PlaceOfNext DEF Known
  <2>5. Lifecycle' = Lifecycle \cup {n} /\ Timely' = Timely \cup {n}
    BY <1>1, <1>10, <2>4
  <2>6. Effective' = Effective \cup {n}
    BY <1>1, <2>4, <2>5
  <2>7. AttemptIsNewest'
    BY <1>1, <1>2, <2>3, <2>4, <2>5 DEF AttemptIsNewest
  <2>8. FinalIsDecision'
    <3>1. Decides(n)' <=> e.type \in Terminal
      BY <1>1 DEF Decides
    <3>2. e.type \in Terminal => e.type # None
      BY <1>10, NoneIsNoType DEF Terminal
    <3>3. \A i \in Timely : Decides(i)' => log'[i].attempt # red'.attempt
      BY <1>1, <1>2, <1>5, <2>3, <2>4
    <3> QED BY <1>1, <1>2, <2>3, <2>5, <2>6, <3>1, <3>2, <3>3 DEF FinalIsDecision
  <2>9. \A i \in Effective : i <= n /\ log'[i] = log[i]
    BY <1>1, <1>2
  <2>10. StateIsLast'
    <3>1. Stateful' = IF e.type \in DOMAIN StateAfter THEN Stateful \cup {n} ELSE Stateful
      BY <1>1, <2>6, <2>9 DEF Stateful
    <3>2. CASE e.type \in DOMAIN StateAfter
      <4>1. Stateful' = Stateful \cup {n} /\ Stateful \subseteq Effective
        BY <3>1, <3>2 DEF Stateful
      <4>2. n \in Stateful' /\ \A i \in Stateful' : i <= n
        BY <1>2, <2>9, <4>1
      <4>3. red'.state = StateAfter'[log'[n].type]
        BY <1>1, <2>3, <3>2
      <4>4. ~SupersededAfter(n)'
        <5>1. log' \in Seq(Event) /\ Len(log') = n
          BY <1>0, AppendProperties DEF Append1
        <5>2. \A i \in DOMAIN log' : ~(i > n)
          BY <1>2, <5>1, LenProperties
        <5> QED BY <5>2 DEF SupersededAfter
      <4> QED BY <4>2, <4>3, <4>4 DEF StateIsLast, IsLast
    <3>3. CASE e.type \notin DOMAIN StateAfter
      <4>1. Stateful' = Stateful /\ red'.state = red.state /\ Stateful \subseteq Effective
        BY <2>3, <3>1, <3>3 DEF Stateful
      <4>2. \A k \in DOMAIN log \cup {0} : SupersededAfter(k)' <=> SupersededAfter(k)
        BY <1>10, SupersededNext
      <4>3. CASE Stateful = {}
        BY <2>1, <4>1, <4>2, <4>3 DEF Known, StateIsLast
      <4>4. CASE Stateful # {}
        <5>1. PICK k : /\ IsLast(k, Stateful)
                       /\ red.state = IF SupersededAfter(k) THEN "SUPERSEDED"
                                      ELSE StateAfter[log[k].type]
          BY <2>1, <4>4 DEF Known, StateIsLast
        <5>2. k \in DOMAIN log /\ log'[k] = log[k]
          BY <1>1, <1>2, <4>1, <5>1 DEF IsLast
        <5>3. red'.state = IF SupersededAfter(k)' THEN "SUPERSEDED" ELSE StateAfter'[log'[k].type]
          BY <1>1, <4>1, <4>2, <5>1, <5>2
        <5>4. IsLast(k, Stateful)'
          BY <4>1, <5>1 DEF IsLast
        <5> QED BY <4>1, <4>4, <5>3, <5>4 DEF StateIsLast
      <4> QED BY <4>3, <4>4
    <3> QED BY <3>2, <3>3
  <2>11. ValueIsLast'
    <3>1. Observed' = IF e.value # None THEN Observed \cup {n} ELSE Observed
      BY <1>1, <2>6, <2>9 DEF Observed
    <3>2. CASE e.value # None
      <4>1. Observed' = Observed \cup {n} /\ Observed \subseteq Effective
        BY <3>1, <3>2 DEF Observed
      <4>2. n \in Observed' /\ \A i \in Observed' : i <= n
        BY <1>2, <2>9, <4>1
      <4>3. red'.value = log'[n].value
        BY <1>1, <2>3, <3>2
      <4> QED BY <4>2, <4>3 DEF ValueIsLast, IsLast
    <3>3. CASE e.value = None
      <4>1. Observed' = Observed /\ red'.value = red.value /\ Observed \subseteq Effective
        BY <2>3, <3>1, <3>3 DEF Observed
      <4> QED BY <1>1, <2>1, <2>9, <4>1 DEF Known, ValueIsLast, IsLast
    <3> QED BY <3>2, <3>3
  <2>12. ~TypesDiffer'
    BY <1>2, <1>3, <1>10, <2>4 DEF Reference
  <2>13. TerminalIsDecided'
    <3>1. Decides(n)' <=> e.type \in Terminal
      BY <1>1 DEF Decides
    <3>2. \A i \in Effective : Decides(i)' <=> Decides(i)
      BY <1>2, <1>5
    <3>3. (\E i \in Effective' : Decides(i)')
             <=> (\E i \in Effective : Decides(i)) \/ e.type \in Terminal
      BY <2>6, <3>1, <3>2
    <3> QED BY <2>1, <2>3, <3>3 DEF Known, TerminalIsDecided
  <2> QED BY <2>3, <2>7, <2>8, <2>10, <2>11, <2>12, <2>13 DEF Reference, Known
<1> QED BY <1>6, <1>7, <1>8, <1>9, <1>10

\* The reference holds of logs of any length.
LEMMA ReferenceHolds == Spec => [](log \in Seq(Event) /\ Fields(red) /\ Reference)
<1> DEFINE Inv == kind \in {"sync", "update"} /\ log \in Seq(Event) /\ Fields(red) /\ Reference
<1>1. Init => Inv
  <2> SUFFICES ASSUME Init PROVE Inv OBVIOUS
  <2>1. kind \in {"sync", "update"} /\ log \in Seq(Event) /\ DOMAIN log = {}
    BY DEF Init
  <2>2. Fields(red) /\ red = Start
    BY DEF Init, Start, Fields, IsReduced
  <2>3. /\ Lifecycle = {} /\ Timely = {} /\ Effective = {} /\ ~TypesDiffer
        /\ Stateful = {} /\ Observed = {}
    BY <2>1 DEF Lifecycle, Timely, Effective, TypesDiffer, Stateful, Observed
  <2>4. ~SupersededAfter(0)
    BY <2>1 DEF SupersededAfter
  <2>5. ~red.conflict /\ Known
    BY <2>2, <2>3, <2>4
       DEF Start, Known, AttemptIsNewest, FinalIsDecision, StateIsLast, ValueIsLast, TerminalIsDecided
  <2> QED BY <2>1, <2>2, <2>3, <2>5 DEF Reference
<1>2. Inv /\ [Next]_vars => Inv'
  <2> SUFFICES ASSUME Inv, [Next]_vars PROVE Inv' OBVIOUS
  <2>1. CASE UNCHANGED vars
    <3>1. /\ kind' = kind /\ log' = log /\ red' = red
          /\ Terminal' = Terminal /\ StateAfter' = StateAfter /\ Event' = Event
      BY <2>1 DEF vars, Terminal, Superseded, StateAfter, Event, EventType
    <3>2. Lifecycle' = Lifecycle /\ \A i : Decides(i)' <=> Decides(i)
      BY <3>1 DEF Lifecycle, Decides, Superseded
    <3>3. Timely' = Timely
      BY <3>1, <3>2 DEF Timely
    <3>4. Effective' = Effective
      BY <3>1, <3>2, <3>3 DEF Effective
    <3>5. Stateful' = Stateful /\ Observed' = Observed
      BY <3>1, <3>4 DEF Stateful, Observed
    <3>6. TypesDiffer' <=> TypesDiffer
      BY <3>1, <3>2, <3>3, <3>4 DEF TypesDiffer
    <3>7. Known' <=> Known
      <4>1. \A k : SupersededAfter(k)' <=> SupersededAfter(k)
        BY <3>1 DEF SupersededAfter, Superseded
      <4>2. (StateIsLast' <=> StateIsLast) /\ (ValueIsLast' <=> ValueIsLast)
        BY <3>1, <3>5, <4>1 DEF StateIsLast, ValueIsLast, IsLast
      <4>3. (AttemptIsNewest' <=> AttemptIsNewest) /\ (FinalIsDecision' <=> FinalIsDecision)
        BY <3>1, <3>2, <3>3, <3>4 DEF AttemptIsNewest, FinalIsDecision
      <4>4. TerminalIsDecided' <=> TerminalIsDecided
        BY <3>1, <3>2, <3>4 DEF TerminalIsDecided
      <4> QED BY <4>2, <4>3, <4>4 DEF Known
    <3>8. Fields(red)'
      BY <3>1 DEF Fields, Superseded
    <3> QED BY <3>1, <3>6, <3>7, <3>8 DEF Reference
  <2>2. ASSUME NEW e \in Event, Append1(e) PROVE Inv'
    <3>1. kind' = kind BY <2>2 DEF Append1
    <3>2. Event' = Event BY <3>1 DEF Event, EventType, StateAfter, Superseded
    <3>3. log' \in Seq(Event) BY <2>2 DEF Append1
    <3>4. Fields(red)' BY <2>2, <3>1, ApplyTyped DEF Append1, Fields, Terminal, Superseded
    <3>5. Reference' BY <2>2, ReferenceStep
    <3> QED BY <3>1, <3>2, <3>3, <3>4, <3>5
  <2> QED BY <2>1, <2>2 DEF Next
<1> QED BY <1>1, <1>2, PTL DEF Spec

\* reducer.py refuses a log exactly when two terminal events of one attempt,
\* the newest when they came, are of different types.
THEOREM ConflictsAreOfTypes == Spec => []ConflictIsOfTypes
<1>1. Reference => ConflictIsOfTypes
  BY DEF Reference, ConflictIsOfTypes
<1> QED BY <1>1, ReferenceHolds, PTL

\* reducer.py: whatever late and repeated events a log holds, the result is the
\* newest attempt's, with the state and the value of its own events as soon as
\* it has shown one, and until then those of the attempts before.
THEOREM NewestAttemptReduced == Spec => []ReducesNewestAttempt
<1>1. ASSUME log \in Seq(Event), Fields(red), Reference, ~red.conflict
      PROVE  red.attempt = NewestAttempt
  <2>1. AttemptIsNewest /\ red.attempt \in Nat
    BY <1>1 DEF Reference, Known, Fields, IsReduced
  <2> DEFINE A == {log[i].attempt : i \in Lifecycle}
  <2>2. A \subseteq Nat
    BY <1>1, Positions
  <2>3. CASE Lifecycle = {}
    BY <2>1, <2>3 DEF AttemptIsNewest, NewestAttempt
  <2>4. CASE Lifecycle # {}
    <3>1. red.attempt \in A /\ \A x \in A : red.attempt >= x
      BY <2>1, <2>2, <2>4 DEF AttemptIsNewest
    <3>2. Max(A) = red.attempt
      BY <2>2, <3>1 DEF Max
    <3> QED BY <2>4, <3>2 DEF NewestAttempt
  <2> QED BY <2>3, <2>4
<1>2. ASSUME NEW S \in SUBSET (Nat \ {0})
      PROVE  /\ S = {} => Last(S) = 0
             /\ \A k : IsLast(k, S) => Last(S) = k /\ k # 0
  <2>1. ASSUME NEW k, IsLast(k, S) PROVE Last(S) = k /\ k # 0
    <3>1. k \in S /\ k \in Nat \ {0} /\ \A y \in S : k >= y
      BY <2>1 DEF IsLast
    <3>2. ASSUME NEW m \in S, \A y \in S : m >= y PROVE m = k
      BY <3>1, <3>2
    <3>3. Max(S) = k
      BY <3>1, <3>2 DEF Max
    <3> QED BY <3>1, <3>3 DEF Last
  <2> QED BY <2>1 DEF Last
\* The last of the effective events is of the newest attempt, if any is.
<1>3. ASSUME log \in Seq(Event), Fields(red), Reference, ~red.conflict,
             NEW S \in SUBSET Effective, NEW k, IsLast(k, S), OfNewest(S) # {}
      PROVE  IsLast(k, OfNewest(S))
  <2>1. /\ k \in S /\ k \in Timely /\ S \subseteq Lifecycle /\ Lifecycle \subseteq Nat
        /\ \A i \in Lifecycle : log[i].attempt \in Nat
    BY <1>3, Positions DEF IsLast
  <2>2. PICK i \in S : log[i].attempt = NewestAttempt
    BY <1>3 DEF OfNewest
  <2>3. i <= k /\ i \in Lifecycle /\ i \in Nat /\ k \in Nat /\ k \in Lifecycle
    BY <1>3, <2>1, <2>2 DEF IsLast
  <2>4. log[i].attempt <= log[k].attempt
    BY <2>1, <2>3 DEF Timely
  <2>5. log[k].attempt <= NewestAttempt
    BY <1>1, <1>3, <2>1 DEF Reference, Known, AttemptIsNewest
  <2>6. log[k].attempt = NewestAttempt
    BY <2>1, <2>2, <2>3, <2>4, <2>5
  <2> QED BY <1>3, <2>1, <2>6 DEF IsLast, OfNewest
<1>4. ASSUME log \in Seq(Event), Fields(red), Reference, ~red.conflict
      PROVE  /\ Stateful \subseteq Effective /\ Observed \subseteq Effective
             /\ Effective \subseteq Nat \ {0}
             /\ StateIsLast /\ ValueIsLast /\ TerminalIsDecided
  BY <1>4, Positions DEF Reference, Known, Stateful, Observed
<1>5. ASSUME log \in Seq(Event), Fields(red), Reference, ~red.conflict,
             NEW S \in {Stateful, OfNewest(Stateful)},
             S = Stateful \/ OfNewest(Stateful) # {}
      PROVE  red.state = StateFrom(S)
  <2>1. S \in SUBSET (Nat \ {0})
    BY <1>4, <1>5 DEF OfNewest
  <2>2. CASE Stateful = {}
    <3>1. S = {} /\ Last(S) = 0
      BY <1>2, <1>5, <2>1, <2>2 DEF OfNewest
    <3> QED BY <1>4, <1>5, <2>2, <3>1 DEF StateIsLast, StateFrom
  <2>3. CASE Stateful # {}
    <3>1. PICK k : /\ IsLast(k, Stateful)
                   /\ red.state = IF SupersededAfter(k) THEN "SUPERSEDED"
                                  ELSE StateAfter[log[k].type]
      BY <1>4, <1>5, <2>3 DEF StateIsLast
    <3>2. IsLast(k, S)
      BY <1>3, <1>4, <1>5, <3>1
    <3>3. Last(S) = k /\ S # {}
      BY <1>2, <2>1, <3>2 DEF IsLast
    <3> QED BY <3>1, <3>3 DEF StateFrom
  <2> QED BY <2>2, <2>3
<1>6. ASSUME log \in Seq(Event), Fields(red), Reference, ~red.conflict,
             NEW S \in {Observed, OfNewest(Observed)},
             S = Observed \/ OfNewest(Observed) # {}
      PROVE  red.value = ValueFrom(S)
  <2>1. S \in SUBSET (Nat \ {0})
    BY <1>4, <1>6 DEF OfNewest
  <2>2. CASE Observed = {}
    <3>1. S = {}
      BY <1>6, <2>2 DEF OfNewest
    <3> QED BY <1>4, <1>6, <2>2, <3>1 DEF ValueIsLast, ValueFrom
  <2>3. CASE Observed # {}
    <3>1. PICK k : IsLast(k, Observed) /\ red.value = log[k].value
      BY <1>4, <1>6, <2>3 DEF ValueIsLast
    <3>2. IsLast(k, S)
      BY <1>3, <1>4, <1>6, <3>1
    <3>3. Last(S) = k /\ S # {}
      BY <1>2, <2>1, <3>2 DEF IsLast
    <3> QED BY <3>1, <3>3 DEF ValueFrom
  <2> QED BY <2>2, <2>3
<1>7. ASSUME log \in Seq(Event), Fields(red), Reference, ~red.conflict
      PROVE  /\ red.attempt = NewestAttempt
             /\ red.state = IF OfNewest(Stateful) # {} THEN StateFrom(OfNewest(Stateful))
                            ELSE StateFrom(Stateful)
             /\ red.value = IF OfNewest(Observed) # {} THEN ValueFrom(OfNewest(Observed))
                            ELSE ValueFrom(Observed)
             /\ red.terminal <=> \E i \in Effective : Decides(i)
  <2>1. red.attempt = NewestAttempt
    BY <1>1, <1>7
  <2>2. /\ OfNewest(Stateful) # {} => red.state = StateFrom(OfNewest(Stateful))
        /\ red.state = StateFrom(Stateful)
    BY <1>5, <1>7
  <2>3. /\ OfNewest(Observed) # {} => red.value = ValueFrom(OfNewest(Observed))
        /\ red.value = ValueFrom(Observed)
    BY <1>6, <1>7
  <2>4. red.terminal <=> \E i \in Effective : Decides(i)
    BY <1>4, <1>7 DEF TerminalIsDecided
  <2> QED BY <2>1, <2>2, <2>3, <2>4
<1>8. log \in Seq(Event) /\ Fields(red) /\ Reference => ReducesNewestAttempt
  BY <1>7 DEF ReducesNewestAttempt
<1> QED BY <1>8, ReferenceHolds, PTL
=============================================================================
