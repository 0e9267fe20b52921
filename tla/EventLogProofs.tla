---------------------------- MODULE EventLogProofs ----------------------------
(***************************************************************************)
(* Theorems about EventLog: what the lease and the event files promise for *)
(* any number of processes, leases, events and acquisitions, whatever      *)
(* operation a process dies in, and which overlaps each promise survives.  *)
(***************************************************************************)
EXTENDS EventLog, TLAPS

Linking == {"open_edges", "write_edges"}

\* What an operation under way is about to write.
Drafted ==
  /\ draft = [p \in Process |-> draft[p]]
  /\ \A p \in Process :
       /\ pc[p] \in Acquiring => draft[p] \in Marker /\ draft[p].id = LeaseOf[p]
       /\ pc[p] \in Appending => arg[p] \in EventId /\ draft[p] \in Payload
       /\ pc[p] \in Linking => arg[p] \in EventId /\ draft[p] \in SUBSET Edge

Typed == TypeOK /\ Drafted

OneAcquirer == \A p, q \in Process : pc[p] \in Acquiring /\ pc[q] \in Acquiring => p = q

\* An acquisition under way announces an epoch nobody has, of the one lease.
AcquiresNext ==
  \A p, q \in Process : pc[p] \in Acquiring =>
    epoch[q] < draft[p].epoch /\ (epoch[q] > 0 => LeaseOf[q] = LeaseOf[p])

\* A readable marker covers every epoch that is held.
MarkerCovers ==
  /\ lease = None => \A q \in Process : epoch[q] = 0
  /\ lease \in Marker => \A q \in Process :
       epoch[q] <= lease.epoch /\ (epoch[q] > 0 => LeaseOf[q] = lease.id)

EpochsUnique ==
  \A p, q \in Process :
    p # q /\ LeaseOf[p] = LeaseOf[q] /\ epoch[p] > 0 => epoch[p] # epoch[q]

LeaseInv ==
  Without({"acquire", "fresh"}) => OneAcquirer /\ AcquiresNext /\ MarkerCovers /\ EpochsUnique

\* Between the check of the lease and the write the marker stays.
FenceInv ==
  Without({"acquire", "fence", "fresh"}) =>
    \A p, q \in Process : pc[p] \in Appending =>
      epoch[p] > 0 /\ Holds(p) /\ pc[q] \notin Acquiring

\* Between the look at an event's file and the write nobody else fills it.
AppendInv ==
  Without({"append"}) =>
    \A p, q \in Process :
      /\ pc[p] \in Appending /\ pc[q] \in Appending /\ arg[p] = arg[q] => p = q
      /\ pc[p] = "open_event" => events[arg[p]] = None
      /\ pc[p] = "write_event" => ~Whole(arg[p])

Agree(E) == \A g, h \in E : g.artifact = h.artifact => g = h

EdgeInv == EdgesAgree /\ \A p \in Process : pc[p] \in Linking => Agree(draft[p])

LEMMA InitLog == Init => Typed /\ LeaseInv /\ FenceInv /\ AppendInv /\ EdgeInv
<1> SUFFICES ASSUME Init PROVE Typed /\ LeaseInv /\ FenceInv /\ AppendInv /\ EdgeInv
  OBVIOUS
<1> USE LogConstants, NoMarker DEF Init, Acquiring, Appending, Linking
<1>1. Typed BY DEF Typed, TypeOK, PCs, Drafted
<1>2. LeaseInv
  BY DEF LeaseInv, OneAcquirer, AcquiresNext, MarkerCovers, EpochsUnique
<1>3. FenceInv /\ AppendInv BY DEF FenceInv, AppendInv
<1>4. EdgeInv BY DEF EdgeInv, EdgesAgree
<1> QED BY <1>1, <1>2, <1>3, <1>4

LEMMA TypedStep == Typed /\ [Next]_vars => Typed'
<1> SUFFICES ASSUME Typed, [Next]_vars PROVE Typed'
  OBVIOUS
<1> USE LogConstants, NoMarker
        DEF Typed, TypeOK, PCs, Drafted, Acquiring, Appending, Linking, files, Goto, Meeting, Kinds
<1>1. ASSUME NEW p \in Process, Acquire(p) PROVE Typed'
  <2>1. draft'[p] \in Marker /\ draft'[p].id = LeaseOf[p]
    <3>1. CASE lease = None
      <4>1. draft'[p] = [id |-> LeaseOf[p], epoch |-> 1]
        BY <1>1, <3>1 DEF Acquire
      <4>2. 1 \in 1..MaxEpoch /\ LeaseOf[p] \in LeaseId
        OBVIOUS
      <4> QED BY <4>1, <4>2 DEF Marker
    <3>2. CASE lease # None
      <4>1. lease \in Marker /\ lease.id = LeaseOf[p] /\ lease.epoch < MaxEpoch
        BY <1>1, <3>2 DEF Acquire
      <4>2. draft'[p] = [lease EXCEPT !.epoch = lease.epoch + 1]
        BY <1>1, <3>2 DEF Acquire
      <4>3. lease.epoch + 1 \in 1..MaxEpoch
        BY <4>1 DEF Marker
      <4> QED BY <4>1, <4>2, <4>3 DEF Marker
    <3> QED BY <3>1, <3>2
  <2>2. /\ draft' = [draft EXCEPT ![p] = draft'[p]]
        /\ UNCHANGED <<lease, events, edges, epoch, arg>>
        /\ pc' = [pc EXCEPT ![p] = "open_lease"]
    BY <1>1 DEF Acquire
  <2>3. overlaps' \subseteq Kinds
    BY <1>1 DEF Acquire
  <2> QED BY <2>1, <2>2, <2>3
<1>2. ASSUME NEW p \in Process, OpenLease(p) PROVE Typed'
  BY <1>2 DEF OpenLease
<1>3. ASSUME NEW p \in Process, WriteLease(p) PROVE Typed'
  BY <1>3 DEF WriteLease, Finish, Marker
<1>4. ASSUME NEW p \in Process, BeginAppend(p) PROVE Typed'
  BY <1>4 DEF BeginAppend
<1>5. ASSUME NEW p \in Process, Exists(p) PROVE Typed'
  <2>1. CASE Finish(p)
    BY <1>5, <2>1 DEF Exists, Finish
  <2>2. CASE Goto(p, "open_event") /\ UNCHANGED <<arg, draft>>
    BY <1>5, <2>2 DEF Exists
  <2> QED BY <1>5, <2>1, <2>2 DEF Exists
<1>6. ASSUME NEW p \in Process, OpenEvent(p) \/ WriteEvent(p) PROVE Typed'
  BY <1>6 DEF OpenEvent, WriteEvent, Finish
<1>7. ASSUME NEW p \in Process, BeginEdge(p) PROVE Typed'
  <2>1. PICK e \in EventId, g \in Edge :
          /\ edges[e] # Torn
          /\ arg' = [arg EXCEPT ![p] = e] /\ draft' = [draft EXCEPT ![p] = edges[e] \cup {g}]
    BY <1>7 DEF BeginEdge
  <2>2. edges[e] \cup {g} \in SUBSET Edge
    BY <2>1
  <2>3. /\ pc' = [pc EXCEPT ![p] = "open_edges"]
        /\ UNCHANGED <<lease, events, edges, epoch, overlaps>>
    BY <1>7 DEF BeginEdge
  <2>4. TypeOK' BY <2>1, <2>3
  <2>5. /\ draft' = [draft EXCEPT ![p] = draft'[p]]
        /\ draft'[p] \in SUBSET Edge /\ arg'[p] \in EventId
    BY <2>1, <2>2
  <2>6. Drafted' BY <2>1, <2>3, <2>5
  <2> QED BY <2>4, <2>6
<1>8. ASSUME NEW p \in Process, OpenEdges(p) \/ WriteEdges(p) PROVE Typed'
  BY <1>8 DEF OpenEdges, WriteEdges, Finish
<1>9. ASSUME NEW p \in Process, Crash(p) PROVE Typed'
  BY <1>9 DEF Crash, Finish
<1>10. ASSUME NEW p \in Process, Wipe(p) PROVE Typed'
  BY <1>10 DEF Wipe
<1>11. CASE UNCHANGED vars
  BY <1>11 DEF vars
<1> QED
  BY <1>1, <1>2, <1>3, <1>4, <1>5, <1>6, <1>7, <1>8, <1>9, <1>10, <1>11 DEF Next, ProcessStep

\* An overlap is never forgotten.
LEMMA OverlapsStay == [Next]_vars => overlaps \subseteq overlaps'
BY DEF Next, vars, ProcessStep, Acquire, OpenLease, WriteLease, BeginAppend, Exists, OpenEvent,
       WriteEvent, BeginEdge, OpenEdges, WriteEdges, Crash, Wipe

LEMMA LeaseStep == Typed /\ LeaseInv /\ [Next]_vars => LeaseInv'
<1> SUFFICES ASSUME Typed, LeaseInv, [Next]_vars, Without({"acquire", "fresh"})'
             PROVE  (OneAcquirer /\ AcquiresNext /\ MarkerCovers /\ EpochsUnique)'
  BY DEF LeaseInv
<1>0. OneAcquirer /\ AcquiresNext /\ MarkerCovers /\ EpochsUnique
  BY OverlapsStay DEF LeaseInv, Without
<1> USE <1>0, LogConstants, NoMarker
        DEF Typed, TypeOK, PCs, Drafted, OneAcquirer, AcquiresNext, MarkerCovers, EpochsUnique,
            Acquiring, Goto
<1> DEFINE Inv == OneAcquirer /\ AcquiresNext /\ MarkerCovers /\ EpochsUnique
<1>1. ASSUME NEW p \in Process, Acquire(p) PROVE Inv'
  <2>1. \A q \in Process \ {p} : pc[q] \notin Acquiring
    BY <1>1 DEF Acquire, Meeting, Without
  <2>2. \A q \in Process : epoch[q] < draft'[p].epoch /\ (epoch[q] > 0 => LeaseOf[q] = LeaseOf[p])
    BY <1>1 DEF Acquire, Marker
  <2> QED BY <1>1, <2>1, <2>2 DEF Acquire, files
<1>2. ASSUME NEW p \in Process, OpenLease(p) PROVE Inv'
  BY <1>2 DEF OpenLease
<1>3. ASSUME NEW p \in Process, WriteLease(p) PROVE Inv'
  BY <1>3 DEF WriteLease, Finish, Marker
<1>4. ASSUME NEW p \in Process, BeginAppend(p) \/ BeginEdge(p) PROVE Inv'
  BY <1>4 DEF BeginAppend, BeginEdge, files
<1>5. ASSUME NEW p \in Process, Exists(p) PROVE Inv'
  BY <1>5 DEF Exists, Finish, files
<1>6. ASSUME NEW p \in Process, OpenEvent(p) \/ WriteEvent(p) PROVE Inv'
  BY <1>6 DEF OpenEvent, WriteEvent, Finish
<1>7. ASSUME NEW p \in Process, OpenEdges(p) \/ WriteEdges(p) PROVE Inv'
  BY <1>7 DEF OpenEdges, WriteEdges, Finish
<1>8. ASSUME NEW p \in Process, Crash(p) PROVE Inv'
  <2>1. /\ \A q \in Process : epoch'[q] \in {0, epoch[q]}
        /\ \A q \in Process : pc'[q] \in Acquiring => pc[q] \in Acquiring /\ draft'[q] = draft[q]
        /\ lease' = lease
    BY <1>8 DEF Crash, Finish, files
  <2>2. OneAcquirer' BY <2>1
  <2>3. AcquiresNext' BY <2>1 DEF Marker
  <2>4. MarkerCovers' BY <2>1 DEF Marker
  <2>5. EpochsUnique' BY <2>1
  <2> QED BY <2>2, <2>3, <2>4, <2>5
<1>9. ASSUME NEW p \in Process, Wipe(p) PROVE Inv'
  <2>1. \A q \in Process : pc[q] = "idle" /\ epoch[q] = 0
    BY <1>9 DEF Wipe, Without
  <2> QED BY <1>9, <2>1 DEF Wipe
<1>10. CASE UNCHANGED vars
  BY <1>10 DEF vars
<1> QED
  BY <1>1, <1>2, <1>3, <1>4, <1>5, <1>6, <1>7, <1>8, <1>9, <1>10 DEF Next, ProcessStep

LEMMA FenceStep == Typed /\ FenceInv /\ [Next]_vars => FenceInv'
<1> SUFFICES ASSUME Typed, FenceInv, [Next]_vars, Without({"acquire", "fence", "fresh"})',
                    NEW p \in Process, NEW q \in Process, pc'[p] \in Appending
             PROVE  epoch'[p] > 0 /\ Holds(p)' /\ pc'[q] \notin Acquiring
  BY DEF FenceInv
<1> DEFINE Fenced == epoch'[p] > 0 /\ Holds(p)' /\ pc'[q] \notin Acquiring
<1>0. pc[p] \in Appending => epoch[p] > 0 /\ Holds(p) /\ \A r \in Process : pc[r] \notin Acquiring
  BY OverlapsStay DEF FenceInv, Without
<1> USE <1>0, LogConstants, NoMarker DEF Typed, TypeOK, PCs, Acquiring, Appending, Holds, Goto
<1>1. ASSUME NEW r \in Process, Acquire(r) PROVE Fenced
  BY <1>1 DEF Acquire, Meeting, Without
<1>2. ASSUME NEW r \in Process, OpenLease(r) \/ WriteLease(r) PROVE Fenced
  BY <1>2 DEF OpenLease, WriteLease, Finish
<1>3. ASSUME NEW r \in Process, BeginAppend(r) PROVE Fenced
  <2>1. \A s \in Process : pc[s] \notin Acquiring
    BY <1>3 DEF BeginAppend, Meeting, Without
  <2> QED BY <1>3, <2>1 DEF BeginAppend, files
<1>4. ASSUME NEW r \in Process, Exists(r) \/ BeginEdge(r) PROVE Fenced
  BY <1>4 DEF Exists, BeginEdge, Finish, files
<1>5. ASSUME NEW r \in Process, OpenEvent(r) \/ WriteEvent(r) PROVE Fenced
  BY <1>5 DEF OpenEvent, WriteEvent, Finish
<1>6. ASSUME NEW r \in Process, OpenEdges(r) \/ WriteEdges(r) PROVE Fenced
  BY <1>6 DEF OpenEdges, WriteEdges, Finish
<1>7. ASSUME NEW r \in Process, Crash(r) PROVE Fenced
  BY <1>7 DEF Crash, Finish, files
<1>8. ASSUME NEW r \in Process, Wipe(r) PROVE Fenced
  BY <1>8 DEF Wipe, Without
<1>9. CASE UNCHANGED vars
  BY <1>9 DEF vars
<1> QED
  BY <1>1, <1>2, <1>3, <1>4, <1>5, <1>6, <1>7, <1>8, <1>9 DEF Next, ProcessStep

LEMMA AppendStep == Typed /\ AppendInv /\ [Next]_vars => AppendInv'
<1> DEFINE Alone(p, q) == pc[p] \in Appending /\ pc[q] \in Appending /\ arg[p] = arg[q] => p = q
           Unfilled(p) == /\ pc[p] = "open_event" => events[arg[p]] = None
                          /\ pc[p] = "write_event" => ~Whole(arg[p])
           Inv == \A p, q \in Process : Alone(p, q) /\ Unfilled(p)
<1> SUFFICES ASSUME Typed, AppendInv, [Next]_vars, Without({"append"})' PROVE Inv'
  BY DEF AppendInv
<1>0. Inv
  BY OverlapsStay DEF AppendInv, Without
<1> USE <1>0, LogConstants DEF Typed, TypeOK, PCs, Drafted, Appending, Whole, Goto
<1>1. ASSUME NEW r \in Process, Acquire(r) PROVE Inv'
  BY <1>1 DEF Acquire, files
<1>2. ASSUME NEW r \in Process, OpenLease(r) \/ WriteLease(r) PROVE Inv'
  BY <1>2 DEF OpenLease, WriteLease, Finish
<1>3. ASSUME NEW r \in Process, BeginAppend(r) PROVE Inv'
  BY <1>3 DEF BeginAppend, Without, files
<1>4. ASSUME NEW r \in Process, Exists(r) PROVE Inv'
  <2>1. CASE Finish(r)
    BY <1>4, <2>1 DEF Exists, Finish, files
  <2>2. CASE events[arg[r]] = None /\ Goto(r, "open_event") /\ UNCHANGED <<arg, draft>>
    BY <1>4, <2>2 DEF Exists, files
  <2> QED BY <1>4, <2>1, <2>2 DEF Exists
<1>5. ASSUME NEW r \in Process, OpenEvent(r) PROVE Inv'
  BY <1>5 DEF OpenEvent
<1>6. ASSUME NEW r \in Process, WriteEvent(r) PROVE Inv'
  BY <1>6 DEF WriteEvent, Finish
<1>7. ASSUME NEW r \in Process, BeginEdge(r) PROVE Inv'
  BY <1>7 DEF BeginEdge, files
<1>8. ASSUME NEW r \in Process, OpenEdges(r) \/ WriteEdges(r) PROVE Inv'
  BY <1>8 DEF OpenEdges, WriteEdges, Finish
<1>9. ASSUME NEW r \in Process, Crash(r) PROVE Inv'
  BY <1>9 DEF Crash, Finish, files
<1>10. ASSUME NEW r \in Process, Wipe(r) PROVE Inv'
  BY <1>10 DEF Wipe
<1>11. CASE UNCHANGED vars
  BY <1>11 DEF vars
<1> QED
  BY <1>1, <1>2, <1>3, <1>4, <1>5, <1>6, <1>7, <1>8, <1>9, <1>10, <1>11 DEF Next, ProcessStep

LEMMA EdgeStep == Typed /\ EdgeInv /\ [Next]_vars => EdgeInv'
<1> SUFFICES ASSUME Typed, EdgeInv, [Next]_vars PROVE EdgeInv'
  OBVIOUS
<1> USE DEF Typed, TypeOK, PCs, Drafted, EdgeInv, EdgesAgree, Linking, Goto, files
<1>1. ASSUME NEW p \in Process, BeginEdge(p) PROVE EdgeInv'
  <2>1. PICK e \in EventId, g \in Edge :
          /\ edges[e] # Torn
          /\ \A h \in edges[e] : h.artifact # g.artifact
          /\ draft' = [draft EXCEPT ![p] = edges[e] \cup {g}]
    BY <1>1 DEF BeginEdge
  <2>2. Agree(edges[e] \cup {g})
    BY <2>1 DEF Agree
  <2> QED BY <1>1, <2>1, <2>2 DEF BeginEdge
<1>2. ASSUME NEW p \in Process, OpenEdges(p) \/ WriteEdges(p) PROVE EdgeInv'
  BY <1>2 DEF OpenEdges, WriteEdges, Finish, Agree
<1>3. ASSUME NEW p \in Process, Acquire(p) \/ OpenLease(p) \/ WriteLease(p) PROVE EdgeInv'
  BY <1>3 DEF Acquire, OpenLease, WriteLease, Finish
<1>4. ASSUME NEW p \in Process, BeginAppend(p) \/ Exists(p) PROVE EdgeInv'
  BY <1>4 DEF BeginAppend, Exists, Finish
<1>5. ASSUME NEW p \in Process, OpenEvent(p) \/ WriteEvent(p) PROVE EdgeInv'
  BY <1>5 DEF OpenEvent, WriteEvent, Finish
<1>6. ASSUME NEW p \in Process, Crash(p) \/ Wipe(p) PROVE EdgeInv'
  BY <1>6 DEF Crash, Wipe, Finish
<1>7. CASE UNCHANGED vars
  BY <1>7 DEF vars
<1> QED
  BY <1>1, <1>2, <1>3, <1>4, <1>5, <1>6, <1>7 DEF Next, ProcessStep

----------------------------------------------------------------------------

\* Types, what operations are about to write, and the inductive invariants of
\* the lease, the fence and the event files.
THEOREM LogInvariant == Spec => []TypeOK /\ [](Typed /\ LeaseInv /\ FenceInv /\ AppendInv)
<1>1. Typed => TypeOK
  BY DEF Typed
<1> QED BY <1>1, InitLog, TypedStep, LeaseStep, FenceStep, AppendStep, PTL DEF Spec

\* No two processes hold one fencing epoch of a lease until two acquisitions
\* overlap or a run is started anew beside another.
THEOREM SingleWriterHolds == Spec => []SingleWriter
<1>1. LeaseInv => SingleWriter
  BY DEF LeaseInv, SingleWriter, EpochsUnique
<1> QED BY <1>1, LogInvariant, PTL

\* Only the newest holder of the lease changes an event file, until besides an
\* acquisition overlaps an append.
THEOREM WritesAreFenced == Spec => FencedWrites
<1>1. Typed /\ LeaseInv /\ FenceInv /\ [Next]_vars =>
        [Without({"acquire", "fence", "fresh"}) =>
           \A p \in Process : pc[p] \in {"open_event", "write_event"} /\ pc'[p] # pc[p]
               /\ events' # events =>
             /\ Holds(p)
             /\ \A q \in Process : LeaseOf[q] = LeaseOf[p] => epoch[q] <= epoch[p]]_vars
  <2> SUFFICES ASSUME Typed, LeaseInv, FenceInv, Without({"acquire", "fence", "fresh"}),
                      NEW p \in Process, pc[p] \in {"open_event", "write_event"}
               PROVE  Holds(p) /\ \A q \in Process : epoch[q] <= epoch[p]
    OBVIOUS
  <2>1. epoch[p] > 0 /\ Holds(p)
    BY DEF FenceInv, Appending
  <2>2. lease \in Marker
    BY <2>1, LogConstants DEF Typed, TypeOK, Holds, Marker
  <2>3. MarkerCovers
    BY DEF LeaseInv, Without
  <2> QED BY <2>1, <2>2, <2>3 DEF MarkerCovers, Holds
<1> QED BY <1>1, LogInvariant, PTL DEF Spec, FencedWrites

\* A whole event is never written again, until two appends of it overlap.
THEOREM WholeEventsStay == Spec => NeverOverwritten
<1>1. Typed /\ AppendInv /\ [Next]_vars =>
        [Without({"append"}) =>
           \A e \in EventId : Whole(e) =>
             events'[e] = events[e] \/ (lease' = None /\ \A d \in EventId : events'[d] = None)]_vars
  <2> SUFFICES ASSUME Typed, AppendInv, Next, Without({"append"}), NEW e \in EventId, Whole(e)
               PROVE  events'[e] = events[e] \/ (lease' = None /\ \A d \in EventId : events'[d] = None)
    BY DEF vars
  <2>1. PICK p \in Process : ProcessStep(p)
    BY DEF Next
  <2>2. CASE OpenEvent(p)
    BY <2>2 DEF OpenEvent, Typed, TypeOK, AppendInv, Appending, Whole
  <2>3. CASE WriteEvent(p)
    BY <2>3 DEF WriteEvent, Typed, TypeOK, AppendInv, Appending, Whole
  <2>4. CASE Wipe(p)
    BY <2>4 DEF Wipe
  <2>5. CASE ~OpenEvent(p) /\ ~WriteEvent(p) /\ ~Wipe(p)
    BY <2>1, <2>5 DEF ProcessStep, files, Acquire, OpenLease, WriteLease, BeginAppend,
       Exists, BeginEdge, OpenEdges, WriteEdges, Crash
  <2> QED BY <2>2, <2>3, <2>4, <2>5
<1> QED BY <1>1, LogInvariant, PTL DEF Spec, NeverOverwritten

\* A lease in use is never taken over by another lease_id, until two
\* acquisitions overlap or a run is started anew beside another.
THEOREM LeaseStays == Spec => LeaseNotStolen
<1>1. LeaseInv /\ [Next]_vars =>
        [Without({"acquire", "fresh"}) =>
           \A p \in Process : pc[p] = "write_lease" /\ lease' # lease =>
             \A q \in Process : epoch[q] > 0 => LeaseOf[q] = LeaseOf[p]]_vars
  BY DEF LeaseInv, AcquiresNext, Acquiring
<1> QED BY <1>1, LogInvariant, PTL DEF Spec, LeaseNotStolen

\* One artifact of an event has one role, however operations overlap.
THEOREM EdgesStayUnique == Spec => []EdgesAgree
<1>1. EdgeInv => EdgesAgree
  BY DEF EdgeInv
<1> QED BY <1>1, InitLog, EdgeStep, LogInvariant, PTL DEF Spec
=============================================================================
