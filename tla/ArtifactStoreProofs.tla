-------------------------- MODULE ArtifactStoreProofs --------------------------
(***************************************************************************)
(* Proofs about ArtifactStore: for any number of processes and deaths,     *)
(* whatever step of put a process dies in.                                 *)
(***************************************************************************)
EXTENDS ArtifactStore, TLAPS

\* One put at a time.
OneAtATime == \A p, q \in Process : pc[p] # "idle" /\ pc[q] # "idle" => p = q

\* Where the one put under way has got.
PutOnTrack ==
  \A p \in Process :
    /\ pc[p] # "idle" => blob = None
    /\ pc[p] = "write" => fd[p] = tmp /\ tmp # None
    /\ pc[p] = "replace" => tmp # None /\ whole[tmp]

StoreInv ==
  /\ TypeOK
  /\ ~raced => OneAtATime /\ PutOnTrack
  /\ PublishedIsWhole
  /\ PutNeverRaises

\* Type correctness and the inductive invariant.
THEOREM StoreInvariant == Spec => [](TypeOK /\ StoreInv)
<1>1. Init => StoreInv
  <2> SUFFICES ASSUME Init PROVE StoreInv
    OBVIOUS
  <2>1. TypeOK
    <3>1. raced \in BOOLEAN
      BY DEF Init
    <3>2. whole \in [Inode -> BOOLEAN] /\ ref \in [Process -> BOOLEAN] /\ failed \in [Process -> BOOLEAN]
      BY DEF Init
    <3>3. pc \in [Process -> PCs] /\ fd \in [Process -> Inode \cup {None}]
      BY DEF Init, PCs
    <3>4. deaths \in 0..MaxDeaths
      BY StoreConstants DEF Init
    <3> QED BY <3>1, <3>2, <3>3, <3>4 DEF Init, TypeOK
  <2>2. OneAtATime /\ PutOnTrack
    BY DEF Init, OneAtATime, PutOnTrack
  <2>3. PublishedIsWhole /\ PutNeverRaises
    BY DEF Init, PublishedIsWhole, PutNeverRaises
  <2> QED BY <2>1, <2>2, <2>3 DEF StoreInv
<1>2. StoreInv /\ [Next]_vars => StoreInv'
  <2> SUFFICES ASSUME StoreInv, [Next]_vars PROVE StoreInv'
    OBVIOUS
  <2> USE StoreConstants DEF StoreInv
  <2>1. ASSUME NEW p \in Process, Call(p) PROVE StoreInv'
    <3>1. UNCHANGED files /\ UNCHANGED <<fd, deaths>> /\ raced' \in BOOLEAN
      BY <2>1 DEF Call, files, TypeOK
    <3>2. TypeOK'
      BY <2>1, <3>1 DEF Call, Goto, Return, Raise, files, TypeOK, PCs
    <3>3. ASSUME ~raced' PROVE OneAtATime' /\ PutOnTrack' /\ failed' = failed
      <4>1. ~raced /\ \A q \in Process : pc[q] = "idle"
        BY <2>1, <3>3 DEF Call, TypeOK
      <4>2. \/ blob = None /\ pc' = [pc EXCEPT ![p] = "open"] /\ failed' = failed
            \/ blob # None /\ pc' = [pc EXCEPT ![p] = "idle"] /\ failed' = failed
        BY <2>1, <4>1 DEF Call, Goto, Return, Raise, PublishedIsWhole
      <4> QED BY <3>1, <4>1, <4>2 DEF files, OneAtATime, PutOnTrack, TypeOK
    <3>4. raced => raced'
      BY <2>1 DEF Call
    <3> QED BY <3>1, <3>2, <3>3, <3>4 DEF files, PublishedIsWhole, PutNeverRaises
  <2>2. ASSUME NEW p \in Process, Open(p) PROVE StoreInv'
    <3>1. PICK i \in Inode :
            /\ IF tmp = None THEN i \notin InUse ELSE i = tmp
            /\ tmp' = i
            /\ whole' = [whole EXCEPT ![i] = FALSE]
            /\ fd' = [fd EXCEPT ![p] = i]
      BY <2>2 DEF Open
    <3>2. /\ pc[p] = "open" /\ pc' = [pc EXCEPT ![p] = "write"]
          /\ UNCHANGED <<blob, ref, failed, raced, deaths>>
      BY <2>2 DEF Open, Goto
    <3>3. i # blob
      BY <3>1 DEF InUse, TypeOK
    <3>4. TypeOK'
      BY <3>1, <3>2, <3>3 DEF TypeOK, PCs
    <3>5. ASSUME ~raced PROVE OneAtATime' /\ PutOnTrack'
      BY <3>1, <3>2, <3>5 DEF OneAtATime, PutOnTrack, TypeOK
    <3>6. PublishedIsWhole'
      BY <3>1, <3>2, <3>3 DEF PublishedIsWhole, TypeOK
    <3> QED BY <3>2, <3>4, <3>5, <3>6 DEF PutNeverRaises
  <2>3. ASSUME NEW p \in Process, Write(p) PROVE StoreInv'
    <3>1. TypeOK'
      BY <2>3 DEF Write, Goto, TypeOK, PCs
    <3>2. ASSUME ~raced PROVE OneAtATime' /\ PutOnTrack'
      BY <2>3, <3>2 DEF Write, Goto, TypeOK, OneAtATime, PutOnTrack
    <3> QED BY <2>3, <3>1, <3>2 DEF Write, PublishedIsWhole, PutNeverRaises, TypeOK
  <2>4. ASSUME NEW p \in Process, Replace(p) PROVE StoreInv'
    <3>1. TypeOK'
      BY <2>4 DEF Replace, Return, Raise, Goto, TypeOK, PCs
    <3>2. ASSUME ~raced
          PROVE  tmp # None /\ whole[tmp] /\ blob' = tmp /\ pc' = [pc EXCEPT ![p] = "idle"]
                 /\ UNCHANGED failed
      BY <2>4, <3>2 DEF Replace, PutOnTrack, Return, Raise, Goto
    <3>3. ASSUME ~raced PROVE OneAtATime' /\ PutOnTrack'
      BY <2>4, <3>2, <3>3 DEF Replace, TypeOK, OneAtATime, PutOnTrack
    <3> QED BY <2>4, <3>1, <3>2, <3>3 DEF Replace, PublishedIsWhole, PutNeverRaises
  <2>5. ASSUME NEW p \in Process, Crash(p) PROVE StoreInv'
    <3>1. TypeOK'
      BY <2>5 DEF Crash, Goto, files, TypeOK, PCs
    <3> QED BY <2>5, <3>1 DEF Crash, Goto, files, TypeOK, OneAtATime, PutOnTrack,
          PublishedIsWhole, PutNeverRaises
  <2>6. CASE UNCHANGED vars
    BY <2>6 DEF vars, files, TypeOK, OneAtATime, PutOnTrack, PublishedIsWhole, PutNeverRaises
  <2> QED BY <2>1, <2>2, <2>3, <2>4, <2>5, <2>6 DEF Next
<1>3. StoreInv => TypeOK
  BY DEF StoreInv
<1> QED BY <1>1, <1>2, <1>3, PTL DEF Spec

\* A blob is published whole or not at all.
THEOREM BlobsAreWhole == Spec => []PublishedIsWhole
<1>1. StoreInv => PublishedIsWhole
  BY DEF StoreInv
<1> QED BY <1>1, StoreInvariant, PTL

\* Putting bytes again, also after a death inside put, succeeds.
THEOREM PutIsIdempotent == Spec => []PutNeverRaises
<1>1. StoreInv => PutNeverRaises
  BY DEF StoreInv
<1> QED BY <1>1, StoreInvariant, PTL

\* Once puts are over, what one of them returned can be read: here for deaths
\* without overlapping puts.
THEOREM ReturnedIsReadable == Spec => [](~raced => SettledIsReadable)
<1> DEFINE RefStored == ~raced /\ (\E p \in Process : ref[p]) => blob # None
<1>1. Init => RefStored
  BY DEF Init
<1>2. StoreInv /\ RefStored /\ [Next]_vars => RefStored'
  <2> SUFFICES ASSUME StoreInv, RefStored, [Next]_vars, ~raced', NEW q \in Process, ref'[q]
               PROVE  blob' # None
    OBVIOUS
  <2> USE StoreConstants DEF StoreInv, TypeOK
  <2>1. ASSUME NEW p \in Process, Call(p) PROVE blob' # None
    BY <2>1 DEF Call, Return, Raise, files
  <2>2. ASSUME NEW p \in Process, Replace(p) PROVE blob' # None
    BY <2>2 DEF Replace, Return, Raise, PutOnTrack
  <2>3. ASSUME NEW p \in Process, Open(p) \/ Write(p) \/ Crash(p) PROVE blob' # None
    BY <2>3 DEF Open, Write, Crash, files
  <2>4. CASE UNCHANGED vars
    BY <2>4 DEF vars, files
  <2> QED BY <2>1, <2>2, <2>3, <2>4 DEF Next
<1>3. StoreInv /\ RefStored => (~raced => SettledIsReadable)
  BY DEF StoreInv, SettledIsReadable, Get, PublishedIsWhole
<1>4. Spec => []StoreInv
  BY StoreInvariant, PTL
<1> QED BY <1>1, <1>2, <1>3, <1>4, PTL DEF Spec

=============================================================================
