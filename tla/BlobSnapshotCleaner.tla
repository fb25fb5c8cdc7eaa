------------------------ MODULE BlobSnapshotCleaner ------------------------
(***************************************************************************)
(* A BlobSnapshotCleaner over a container in which others take snapshots   *)
(* and upload page blobs, and delete either.  The polling around it is     *)
(* PollingTask: one poll at a time, the snapshots found by it are deleted  *)
(* beside one another, and a poll that throws ends the polling.            *)
(***************************************************************************)
EXTENDS Integers

CONSTANTS
  Snapshots,  \* the snapshots that may be taken
  MaxAge,     \* maxAge, in ticks
  LastAge     \* where the ages stop counting, above MaxAge

VARIABLES
  taken,     \* the snapshots in the container
  age,       \* age[s]: the ticks since s was taken
  pageBlob,  \* there is a page blob in the container, too
  polling,   \* the polling task polls, works, or has faulted
  work       \* what is still to be deleted of the last poll

vars == <<taken, age, pageBlob, polling, work>>

TypeOK ==
  /\ taken \subseteq Snapshots /\ work \subseteq Snapshots
  /\ age \in [Snapshots -> 0..LastAge]
  /\ pageBlob \in BOOLEAN
  /\ polling \in {"polls", "works", "faulted"}

Init ==
  /\ taken = {} /\ work = {}
  /\ age = [s \in Snapshots |-> 0]
  /\ pageBlob \in BOOLEAN /\ polling = "polls"
-----------------------------------------------------------------------------
(* The container.                                                          *)

\* One that nobody knows any more, and that is gone within the tick it was taken
\* in, may stand for another.
TakeSnapshot(s) ==
  /\ s \notin taken \cup work /\ age[s] = 0
  /\ taken' = taken \cup {s}
  /\ UNCHANGED <<age, pageBlob, polling, work>>

DeleteSnapshot(s) == s \in taken /\ taken' = taken \ {s} /\ UNCHANGED <<age, pageBlob, polling, work>>

UploadPageBlob == pageBlob' = TRUE /\ UNCHANGED <<taken, age, polling, work>>
DeletePageBlob == pageBlob' = FALSE /\ UNCHANGED <<taken, age, polling, work>>

Tick == /\ age' = [s \in Snapshots |-> IF s \in taken /\ age[s] < LastAge THEN age[s] + 1 ELSE age[s]]
        /\ UNCHANGED <<taken, pageBlob, polling, work>>
-----------------------------------------------------------------------------
(* The cleaner.                                                            *)

\* The comparison of the code.
IsExpired(s) == age[s] < MaxAge

\* The whole container is listed, snapshots too.  Cast throws at a blob of the
\* other kind, which nothing catches.
TryGetWork ==
  /\ polling = "polls"
  /\ IF pageBlob
       THEN polling' = "faulted" /\ UNCHANGED work
       ELSE /\ work' = {s \in taken : IsExpired(s)}
            /\ polling' = IF work' = {} THEN "polls" ELSE "works"
  /\ UNCHANGED <<taken, age, pageBlob>>

\* ListBlobs throws, which nothing catches either.
ListingFails ==
  /\ polling = "polls" /\ polling' = "faulted"
  /\ UNCHANGED <<taken, age, pageBlob, work>>

\* DeleteIfExists of one of them; Completed deletes nothing.
OnExecuting(s) ==
  /\ polling = "works" /\ s \in work
  /\ taken' = taken \ {s}
  /\ work' = work \ {s}
  /\ UNCHANGED <<age, pageBlob, polling>>

\* It fails, and what has not begun is abandoned with it or goes on.
OnExecutingFails(s) ==
  /\ polling = "works" /\ s \in work
  /\ work' \in SUBSET (work \ {s})
  /\ UNCHANGED <<taken, age, pageBlob, polling>>

BatchOver == polling = "works" /\ work = {} /\ polling' = "polls" /\ UNCHANGED <<taken, age, pageBlob, work>>

Next ==
  \/ \E s \in Snapshots : TakeSnapshot(s) \/ DeleteSnapshot(s) \/ OnExecuting(s) \/ OnExecutingFails(s)
  \/ UploadPageBlob \/ DeletePageBlob \/ Tick
  \/ TryGetWork \/ ListingFails \/ BatchOver

Spec == Init /\ [][Next]_vars
-----------------------------------------------------------------------------
\* "Keep Snapshots for a specific amount of time", the "MAX Age for a Blob
\* Snapshot": the cleaner deletes none before it has that age.
KeptForMaxAge ==
  [][\A s \in Snapshots : OnExecuting(s) /\ s \in taken => age[s] >= MaxAge]_vars
=============================================================================
