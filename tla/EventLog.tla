------------------------------ MODULE EventLog ------------------------------
(***************************************************************************)
(* store/append_log.py: the append-only event log with its single-writer   *)
(* lease.                                                                  *)
(*                                                                         *)
(* Nothing locks the directory.  Every operation is a read of a file       *)
(* followed, for a write, by write_text: open truncates the file (it reads *)
(* as broken JSON until the content is there) and a later step fills it.   *)
(***************************************************************************)
EXTENDS Naturals

CONSTANTS
  Process,   \* processes with an AppendLog on this directory
  LeaseId, LeaseOf,
  EventId,
  Payload,   \* contents (event_sha256) an event of one id may come with
  Edge,      \* provenance edges: [artifact, role]
  None,      \* no such file
  Torn,      \* a truncated file
  MaxEpoch   \* bound: acquisitions

ASSUME LogConstants ==
  /\ LeaseOf \in [Process -> LeaseId]
  /\ MaxEpoch \in Nat \ {0}
  /\ None # Torn
  /\ {None, Torn} \cap (Payload \cup Edge) = {}

Marker == [id : LeaseId, epoch : 1..MaxEpoch]

ASSUME NoMarker == {None, Torn} \cap Marker = {}

VARIABLES
  \* files
  lease,     \* lease.json
  events,    \* events[e]: content of events/<e>.json
  edges,     \* edges[e]: content of edges/<e>.json
  \* per process
  pc,
  epoch,     \* the fencing epoch the process acquired, 0 before
  arg,       \* the event, and the payload or edge, of the operation under way
  draft,     \* what the operation is about to write
  \* history
  overlaps   \* kinds of operations that overlapped in time so far

files == <<lease, events, edges>>
vars == <<lease, events, edges, pc, epoch, arg, draft, overlaps>>

Init ==
  /\ lease = None
  /\ events = [e \in EventId |-> None]
  /\ edges = [e \in EventId |-> {}]
  /\ pc = [p \in Process |-> "idle"]
  /\ epoch = [p \in Process |-> 0]
  /\ arg = [p \in Process |-> None]
  /\ draft = [p \in Process |-> None]
  /\ overlaps = {}

Acquiring == {"open_lease", "write_lease"}
Appending == {"exists", "open_event", "write_event"}

\* Two acquisitions, an acquisition and an append, two appends of one event, a
\* fresh start beside a process of the old run.
Kinds == {"acquire", "fence", "append", "fresh"}

\* {kind} if an operation that p begins meets one of another process.
Meeting(p, kind, labels) == {k \in {kind} : \E q \in Process \ {p} : pc[q] \in labels}

Goto(p, label) == pc' = [pc EXCEPT ![p] = label]

\* The operation returned or raised.
Finish(p) ==
  /\ Goto(p, "idle")
  /\ arg' = [arg EXCEPT ![p] = None]
  /\ draft' = [draft EXCEPT ![p] = None]

----------------------------------------------------------------------------
(* acquire_lease                                                           *)

\* Mutant: the epoch of a marker of one's own is taken over as it is.
AcquireSame(p) ==
  /\ pc[p] = "idle"
  /\ \/ lease = None /\ draft' = [draft EXCEPT ![p] = [id |-> LeaseOf[p], epoch |-> 1]]
     \/ /\ lease \notin {None, Torn}
        /\ lease.id = LeaseOf[p]
        /\ draft' = [draft EXCEPT ![p] = lease]
  /\ Goto(p, "open_lease")
  /\ overlaps' = overlaps \cup Meeting(p, "acquire", Acquiring) \cup Meeting(p, "fence", Appending)
  /\ UNCHANGED <<files, epoch, arg>>

\* Mutant: a marker of another lease_id is taken over.
AcquireAny(p) ==
  /\ pc[p] = "idle"
  /\ lease \notin {None, Torn} => lease.epoch < MaxEpoch
  /\ lease # Torn
  /\ draft' = [draft EXCEPT ![p] =
       [id |-> LeaseOf[p], epoch |-> IF lease = None THEN 1 ELSE lease.epoch + 1]]
  /\ Goto(p, "open_lease")
  /\ overlaps' = overlaps \cup Meeting(p, "acquire", Acquiring) \cup Meeting(p, "fence", Appending)
  /\ UNCHANGED <<files, epoch, arg>>

\* Read the marker.  A torn marker and one of another lease_id raise.
Acquire(p) ==
  /\ pc[p] = "idle"
  /\ \/ lease = None /\ draft' = [draft EXCEPT ![p] = [id |-> LeaseOf[p], epoch |-> 1]]
     \/ /\ lease \notin {None, Torn}
        /\ lease.id = LeaseOf[p]
        /\ lease.epoch < MaxEpoch
        /\ draft' = [draft EXCEPT ![p] = [lease EXCEPT !.epoch = @ + 1]]
  /\ Goto(p, "open_lease")
  /\ overlaps' = overlaps \cup Meeting(p, "acquire", Acquiring) \cup Meeting(p, "fence", Appending)
  /\ UNCHANGED <<files, epoch, arg>>

OpenLease(p) ==
  /\ pc[p] = "open_lease"
  /\ lease' = Torn
  /\ Goto(p, "write_lease")
  /\ UNCHANGED <<events, edges, epoch, arg, draft, overlaps>>

WriteLease(p) ==
  /\ pc[p] = "write_lease"
  /\ lease' = draft[p]
  /\ epoch' = [epoch EXCEPT ![p] = draft[p].epoch]
  /\ Finish(p)
  /\ UNCHANGED <<events, edges, overlaps>>

----------------------------------------------------------------------------
(* append                                                                  *)

\* The marker is p's, in the epoch p passes as required_epoch.
Holds(p) == lease = [id |-> LeaseOf[p], epoch |-> epoch[p]]

\* Mutant: required_epoch is not compared.
BeginAppendUnfenced(p) ==
  \E e \in EventId, v \in Payload :
    /\ pc[p] = "idle"
    /\ epoch[p] > 0
    /\ lease \notin {None, Torn} /\ lease.id = LeaseOf[p]
    /\ arg' = [arg EXCEPT ![p] = e]
    /\ draft' = [draft EXCEPT ![p] = v]
    /\ Goto(p, "exists")
    /\ overlaps' = overlaps \cup Meeting(p, "fence", Acquiring)
         \cup {k \in {"append"} : \E q \in Process \ {p} : pc[q] \in Appending /\ arg[q] = e}
    /\ UNCHANGED <<files, epoch>>

\* The check of the lease; without it the append raises.
BeginAppend(p) ==
  \E e \in EventId, v \in Payload :
    /\ pc[p] = "idle"
    /\ epoch[p] > 0
    /\ Holds(p)
    /\ arg' = [arg EXCEPT ![p] = e]
    /\ draft' = [draft EXCEPT ![p] = v]
    /\ Goto(p, "exists")
    /\ overlaps' = overlaps \cup Meeting(p, "fence", Acquiring)
         \cup {k \in {"append"} : \E q \in Process \ {p} : pc[q] \in Appending /\ arg[q] = e}
    /\ UNCHANGED <<files, epoch>>

\* Mutant: an event of that id is written again.
ExistsIgnored(p) ==
  /\ pc[p] = "exists"
  /\ Goto(p, "open_event")
  /\ UNCHANGED <<files, epoch, arg, draft, overlaps>>

\* An event of that id with the same hash is success, with another content or
\* torn it raises: either way nothing is written.
Exists(p) ==
  /\ pc[p] = "exists"
  /\ \/ events[arg[p]] = None /\ Goto(p, "open_event") /\ UNCHANGED <<arg, draft>>
     \/ events[arg[p]] # None /\ Finish(p)
  /\ UNCHANGED <<files, epoch, overlaps>>

OpenEvent(p) ==
  /\ pc[p] = "open_event"
  /\ events' = [events EXCEPT ![arg[p]] = Torn]
  /\ Goto(p, "write_event")
  /\ UNCHANGED <<lease, edges, epoch, arg, draft, overlaps>>

WriteEvent(p) ==
  /\ pc[p] = "write_event"
  /\ events' = [events EXCEPT ![arg[p]] = draft[p]]
  /\ Finish(p)
  /\ UNCHANGED <<lease, edges, epoch, overlaps>>

----------------------------------------------------------------------------
(* append_provenance_edge: no lease is asked for.                          *)

\* Mutant: one artifact may have two roles.
BeginEdgeMerged(p) ==
  \E e \in EventId, g \in Edge :
    /\ pc[p] = "idle"
    /\ edges[e] # Torn
    /\ arg' = [arg EXCEPT ![p] = e]
    /\ draft' = [draft EXCEPT ![p] = edges[e] \cup {g}]
    /\ Goto(p, "open_edges")
    /\ UNCHANGED <<files, epoch, overlaps>>

\* The list read, and the new edge added in memory.  A torn list and an edge
\* of the artifact with another role raise; an identical edge returns.
BeginEdge(p) ==
  \E e \in EventId, g \in Edge :
    /\ pc[p] = "idle"
    /\ edges[e] # Torn
    /\ \A h \in edges[e] : h.artifact # g.artifact
    /\ arg' = [arg EXCEPT ![p] = e]
    /\ draft' = [draft EXCEPT ![p] = edges[e] \cup {g}]
    /\ Goto(p, "open_edges")
    /\ UNCHANGED <<files, epoch, overlaps>>

OpenEdges(p) ==
  /\ pc[p] = "open_edges"
  /\ edges' = [edges EXCEPT ![arg[p]] = Torn]
  /\ Goto(p, "write_edges")
  /\ UNCHANGED <<lease, events, epoch, arg, draft, overlaps>>

WriteEdges(p) ==
  /\ pc[p] = "write_edges"
  /\ edges' = [edges EXCEPT ![arg[p]] = draft[p]]
  /\ Finish(p)
  /\ UNCHANGED <<lease, events, epoch, overlaps>>

----------------------------------------------------------------------------
(* A process dies anywhere; its name then stands for a new process.        *)
Crash(p) ==
  /\ epoch' = [epoch EXCEPT ![p] = 0]
  /\ Finish(p)
  /\ UNCHANGED <<files, overlaps>>

(* A training loop started without --resume removes the event directory,   *)
(* marker included.                                                        *)
Wipe(p) ==
  /\ pc[p] = "idle"
  /\ epoch[p] = 0
  /\ overlaps' = overlaps \cup
       {k \in {"fresh"} : \E q \in Process : pc[q] # "idle" \/ epoch[q] > 0}
  /\ lease' = None
  /\ events' = [e \in EventId |-> None]
  /\ edges' = [e \in EventId |-> {}]
  /\ UNCHANGED <<pc, epoch, arg, draft>>

ProcessStep(p) ==
  \/ Acquire(p) \/ OpenLease(p) \/ WriteLease(p)
  \/ BeginAppend(p) \/ Exists(p) \/ OpenEvent(p) \/ WriteEvent(p)
  \/ BeginEdge(p) \/ OpenEdges(p) \/ WriteEdges(p)
  \/ Crash(p) \/ Wipe(p)

Next == \E p \in Process : ProcessStep(p)

Spec == Init /\ [][Next]_vars

----------------------------------------------------------------------------
(* Properties                                                              *)

PCs == {"idle", "open_lease", "write_lease", "exists", "open_event",
        "write_event", "open_edges", "write_edges"}

\* Types of the files and of the operations under way.
TypeOK ==
  /\ lease \in Marker \cup {None, Torn}
  /\ events \in [EventId -> Payload \cup {None, Torn}]
  /\ edges \in [EventId -> {Torn} \cup SUBSET Edge]
  /\ pc \in [Process -> PCs]
  /\ epoch \in [Process -> 0..MaxEpoch]
  /\ arg \in [Process -> EventId \cup {None}]
  /\ overlaps \subseteq Kinds

Without(kinds) == overlaps \cap kinds = {}

\* Single-writer lease: no two processes hold the same fencing epoch of the
\* same lease, so at most one of them can match the marker, until two
\* acquisitions overlap or a run is started anew beside another.
SingleWriter ==
  Without({"acquire", "fresh"}) =>
    \A p, q \in Process :
      p # q /\ LeaseOf[p] = LeaseOf[q] /\ epoch[p] > 0 => epoch[p] # epoch[q]

\* "every write checks the marker and fails closed if the epoch moved on": a
\* file of the event directory changes only by a process that is not fenced
\* off -- no process has acquired the lease after it.  The check is not atomic
\* with the write, so no acquisition may overlap an append either.
FencedWrites ==
  [][Without({"acquire", "fence", "fresh"}) =>
       \A p \in Process : pc[p] \in {"open_event", "write_event"} /\ pc'[p] # pc[p]
           /\ events' # events =>
         /\ Holds(p)
         /\ \A q \in Process : LeaseOf[q] = LeaseOf[p] => epoch[q] <= epoch[p]]_vars

Whole(e) == events[e] \notin {None, Torn}

\* append: "never overwrites".  A whole event keeps its content, whatever
\* other writers, retries and crashes do, unless two appends of one event
\* overlapped; it goes only with all others, when the run is started anew.
NeverOverwritten ==
  [][Without({"append"}) =>
       \A e \in EventId : Whole(e) =>
         events'[e] = events[e] \/ (lease' = None /\ \A d \in EventId : events'[d] = None)]_vars

\* One artifact of an event has one role, however operations overlap.
EdgesAgree ==
  \A e \in EventId : edges[e] # Torn =>
    \A g, h \in edges[e] : g.artifact = h.artifact => g = h

\* A different lease_id never takes over a lease that is held, until two
\* acquisitions overlap or a run is started anew beside another.
LeaseNotStolen ==
  [][Without({"acquire", "fresh"}) =>
       \A p \in Process : pc[p] = "write_lease" /\ lease' # lease =>
         \A q \in Process : epoch[q] > 0 => LeaseOf[q] = LeaseOf[p]]_vars
=============================================================================
