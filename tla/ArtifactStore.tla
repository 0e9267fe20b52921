---------------------------- MODULE ArtifactStore ----------------------------
(***************************************************************************)
(* store/artifact_store.py: blobs addressed by the SHA-256 of their bytes. *)
(*                                                                         *)
(* put writes blobs/<digest>.tmp and renames it to blobs/<digest>.  The    *)
(* temporary name depends on the digest only, so two processes that put    *)
(* the same bytes share it: what one of them opened can be what the other  *)
(* one published.  Files are therefore inodes and names: a name points to  *)
(* an inode, an open file descriptor keeps its inode across a rename.      *)
(* Blobs of different digests do not meet; the module follows one digest.  *)
(***************************************************************************)
EXTENDS Naturals

CONSTANTS
  Process,   \* processes with an ArtifactStore on this directory
  Inode,     \* files that can be created
  None,
  MaxDeaths  \* bound: deaths inside put

ASSUME StoreConstants ==
  /\ MaxDeaths \in Nat
  /\ None \notin Inode

VARIABLES
  blob,      \* inode under blobs/<digest>, or None
  tmp,       \* inode under blobs/<digest>.tmp, or None
  whole,     \* whole[i]: inode i holds the bytes (else it is cut short)
  pc,        \* where put is
  fd,        \* the open temporary file of the process
  ref,       \* put returned an ArtifactRef, which the process keeps
  \* history
  failed,    \* a put of the process raised
  raced,     \* a put began while another one was under way
  deaths     \* deaths inside put

files == <<blob, tmp, whole>>
vars == <<blob, tmp, whole, pc, fd, ref, failed, raced, deaths>>

Init ==
  /\ blob = None /\ tmp = None
  /\ whole = [i \in Inode |-> FALSE]
  /\ pc = [p \in Process |-> "idle"]
  /\ fd = [p \in Process |-> None]
  /\ ref = [p \in Process |-> FALSE]
  /\ failed = [p \in Process |-> FALSE]
  /\ raced = FALSE /\ deaths = 0

Goto(p, label) == pc' = [pc EXCEPT ![p] = label]

Return(p) ==
  /\ Goto(p, "idle")
  /\ ref' = [ref EXCEPT ![p] = TRUE]
  /\ UNCHANGED failed

Raise(p) ==
  /\ Goto(p, "idle")
  /\ failed' = [failed EXCEPT ![p] = TRUE]
  /\ UNCHANGED ref

----------------------------------------------------------------------------
(* put                                                                     *)

\* An existing blob is read back: the same bytes are success, others raise.
Call(p) ==
  /\ pc[p] = "idle"
  /\ raced' = (raced \/ \E q \in Process : pc[q] # "idle")
  /\ \/ blob = None /\ Goto(p, "open") /\ UNCHANGED <<ref, failed>>
     \/ blob # None /\ whole[blob] /\ Return(p)
     \/ blob # None /\ ~whole[blob] /\ Raise(p)
  /\ UNCHANGED <<files, fd, deaths>>

\* Inodes some name or descriptor still holds.
InUse == {blob, tmp} \cup {fd[q] : q \in Process}

\* Mutant: the bytes go straight to the final name.
OpenInPlace(p) ==
  /\ pc[p] = "open"
  /\ \E i \in Inode :
       /\ IF blob = None THEN i \notin InUse ELSE i = blob
       /\ blob' = i
       /\ tmp' = i
       /\ whole' = [whole EXCEPT ![i] = FALSE]
       /\ fd' = [fd EXCEPT ![p] = i]
  /\ Goto(p, "write")
  /\ UNCHANGED <<ref, failed, raced, deaths>>

\* tmp.write_bytes opens: an existing temporary file is truncated, else a new
\* one is created.
Open(p) ==
  /\ pc[p] = "open"
  /\ \E i \in Inode :
       /\ IF tmp = None THEN i \notin InUse ELSE i = tmp
       /\ tmp' = i
       /\ whole' = [whole EXCEPT ![i] = FALSE]
       /\ fd' = [fd EXCEPT ![p] = i]
  /\ Goto(p, "write")
  /\ UNCHANGED <<blob, ref, failed, raced, deaths>>

\* The bytes reach the inode that was opened, whatever its name is by now.
Write(p) ==
  /\ pc[p] = "write"
  /\ whole' = [whole EXCEPT ![fd[p]] = TRUE]
  /\ fd' = [fd EXCEPT ![p] = None]
  /\ Goto(p, "replace")
  /\ UNCHANGED <<blob, tmp, ref, failed, raced, deaths>>

\* Mutant: the rename is forgotten.
ReplaceNothing(p) ==
  /\ pc[p] = "replace"
  /\ Return(p)
  /\ UNCHANGED <<files, fd, raced, deaths>>

\* tmp.replace(path); without a temporary file it raises.
Replace(p) ==
  /\ pc[p] = "replace"
  /\ \/ tmp # None /\ blob' = tmp /\ tmp' = None /\ Return(p)
     \/ tmp = None /\ UNCHANGED <<blob, tmp>> /\ Raise(p)
  /\ UNCHANGED <<whole, fd, raced, deaths>>

\* A process dies inside put; its name then stands for a new process.
Crash(p) ==
  /\ pc[p] # "idle"
  /\ deaths < MaxDeaths
  /\ deaths' = deaths + 1
  /\ Goto(p, "idle")
  /\ fd' = [fd EXCEPT ![p] = None]
  /\ ref' = [ref EXCEPT ![p] = FALSE]
  /\ UNCHANGED <<files, failed, raced>>

Next == \E p \in Process : Call(p) \/ Open(p) \/ Write(p) \/ Replace(p) \/ Crash(p)

\* put always runs on to its end.
Progress(p) == Open(p) \/ Write(p) \/ Replace(p)

Spec == Init /\ [][Next]_vars
FairSpec == Spec /\ \A p \in Process : WF_vars(Progress(p)) /\ WF_vars(Call(p))

----------------------------------------------------------------------------
(* Properties                                                              *)

\* get returns the bytes: the blob is there and its hash is the digest.
Get == blob # None /\ whole[blob]

PCs == {"idle", "open", "write", "replace"}

\* Types; a temporary file and the blob are never one file.
TypeOK ==
  /\ blob \in Inode \cup {None} /\ tmp \in Inode \cup {None}
  /\ blob = tmp => blob = None
  /\ whole \in [Inode -> BOOLEAN]
  /\ pc \in [Process -> PCs]
  /\ fd \in [Process -> Inode \cup {None}]
  /\ \A p \in Process : fd[p] # None <=> pc[p] = "write"
  /\ ref \in [Process -> BOOLEAN] /\ failed \in [Process -> BOOLEAN]
  /\ raced \in BOOLEAN /\ deaths \in 0..MaxDeaths

\* What stands under blobs/<digest> has that digest, at every moment and after
\* a death at any point of put, as long as no two puts overlapped.
PublishedIsWhole == ~raced /\ blob # None => whole[blob]

\* "writing is idempotent": a put of bytes the store holds, or that a process
\* was putting when it died, does not raise, as long as no two puts overlapped.
PutNeverRaises == ~raced => \A p \in Process : ~failed[p]

\* put, then get: once no put is under way, an ArtifactRef some process got
\* can be read -- also when puts overlapped, or a process died, but not both.
SettledIsReadable ==
  /\ ~raced \/ deaths = 0
  /\ \A p \in Process : pc[p] = "idle"
  /\ \E p \in Process : ref[p]
  => Get

\* Processes that keep putting the same bytes end with the blob in place,
\* unless a process died in puts that overlapped.
EventuallyStored == <>(raced /\ deaths > 0) \/ <>[]Get
=============================================================================
