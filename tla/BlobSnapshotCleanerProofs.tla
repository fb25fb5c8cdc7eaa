--------------------- MODULE BlobSnapshotCleanerProofs ---------------------
(***************************************************************************)
(* Proofs about BlobSnapshotCleaner, for any snapshots and ages: types,    *)
(* and what the cleaner does instead of what it is for.                    *)
(***************************************************************************)
EXTENDS BlobSnapshotCleaner, TLAPS

\* The container, the ages and the cleaner keep their types.
THEOREM TypeCorrect ==
  ASSUME LastAge \in Nat
  PROVE  Spec => []TypeOK
<1>1. Init => TypeOK
  <2>1. Init => pageBlob \in BOOLEAN
    BY Zenon DEF Init
  <2> QED BY <2>1 DEF Init, TypeOK
<1>2. TypeOK /\ [Next]_vars => TypeOK'
  <2> SUFFICES ASSUME TypeOK, [Next]_vars PROVE TypeOK'
    OBVIOUS
  <2> USE DEF TypeOK
  <2>1. ASSUME NEW s \in Snapshots, TakeSnapshot(s) \/ DeleteSnapshot(s) PROVE TypeOK'
    BY <2>1 DEF TakeSnapshot, DeleteSnapshot
  <2>2. ASSUME NEW s \in Snapshots, OnExecuting(s) \/ OnExecutingFails(s) PROVE TypeOK'
    BY <2>2 DEF OnExecuting, OnExecutingFails
  <2>3. CASE UploadPageBlob \/ DeletePageBlob
    <3>1. pageBlob' \in BOOLEAN
      BY <2>3, Zenon DEF UploadPageBlob, DeletePageBlob
    <3> QED BY <2>3, <3>1 DEF UploadPageBlob, DeletePageBlob
  <2>4. CASE Tick
    BY <2>4 DEF Tick
  <2>5. CASE TryGetWork \/ ListingFails \/ BatchOver
    <3>1. pageBlob' = pageBlob /\ taken' = taken /\ age' = age
      BY <2>5 DEF TryGetWork, ListingFails, BatchOver
    <3>2. work' \subseteq Snapshots /\ polling' \in {"polls", "works", "faulted"}
      BY <2>5 DEF TryGetWork, ListingFails, BatchOver
    <3> QED BY <3>1, <3>2
  <2>6. CASE UNCHANGED vars
    BY <2>6 DEF vars
  <2> QED BY <2>1, <2>2, <2>3, <2>4, <2>5, <2>6 DEF Next
<1> QED BY <1>1, <1>2, PTL DEF Spec
-----------------------------------------------------------------------------
\* A snapshot that has reached the age at which it should go, and that the
\* cleaner did not find before.
Spared(s) == s \in taken /\ age[s] >= MaxAge /\ s \notin work

\* It stays for good, unless others delete it.
SparedForEver ==
  [][\A s \in Snapshots : Spared(s) => Spared(s)' \/ DeleteSnapshot(s)]_vars

\* "Keep Snapshots for a specific amount of time": the cleaner never deletes a
\* snapshot it has let grow older than that, for any ages and any polls.
THEOREM OldSnapshotsStay ==
  ASSUME LastAge \in Nat, MaxAge \in Nat
  PROVE  Spec => SparedForEver
<1>1. ASSUME TypeOK, [Next]_vars, NEW s \in Snapshots, Spared(s)
      PROVE  Spared(s)' \/ DeleteSnapshot(s)
  <2>1. age[s] \in Nat /\ s \in taken /\ age[s] >= MaxAge /\ s \notin work
    BY <1>1 DEF TypeOK, Spared
  <2>2. ASSUME NEW r \in Snapshots, DeleteSnapshot(r) PROVE Spared(s)' \/ DeleteSnapshot(s)
    BY <2>1, <2>2 DEF DeleteSnapshot, Spared
  <2>3. ASSUME NEW r \in Snapshots, TakeSnapshot(r) \/ OnExecuting(r) \/ OnExecutingFails(r) PROVE Spared(s)'
    BY <2>1, <2>3 DEF TakeSnapshot, OnExecuting, OnExecutingFails, Spared
  <2>4. CASE TryGetWork
    <3>1. ~IsExpired(s)
      BY <2>1 DEF IsExpired
    <3> QED BY <2>1, <2>4, <3>1 DEF TryGetWork, Spared
  <2>5. CASE Tick
    <3>1. age'[s] \in {age[s], age[s] + 1}
      BY <2>5 DEF Tick
    <3> QED BY <2>1, <2>5, <3>1 DEF Tick, Spared
  <2>6. CASE UploadPageBlob \/ DeletePageBlob \/ ListingFails \/ BatchOver \/ UNCHANGED vars
    BY <2>1, <2>6 DEF UploadPageBlob, DeletePageBlob, ListingFails, BatchOver, vars, Spared
  <2> QED BY <1>1, <2>2, <2>3, <2>4, <2>5, <2>6 DEF Next
<1>2. TypeOK /\ [Next]_vars => [\A s \in Snapshots : Spared(s) => Spared(s)' \/ DeleteSnapshot(s)]_vars
  BY <1>1
<1> QED BY <1>2, TypeCorrect, PTL DEF Spec, SparedForEver
=============================================================================
