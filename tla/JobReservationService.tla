----------------------- MODULE JobReservationService -----------------------
(***************************************************************************)
(* JobReservationServices competing for one job: each has a                *)
(* BlobLeaseManager of its own, whose lease of the job's blob is the       *)
(* reservation, and the content of the blob is the log of who reserved the *)
(* job.  Every call of the blob service is a step.  A service is known to  *)
(* the log by its reserverName, here the manager itself, and its caller    *)
(* makes one call at a time.                                               *)
(***************************************************************************)
EXTENDS BlobLeaseManager, Sequences

CONSTANT MaxReservations  \* the reservations a log keeps

ASSUME MaxReservationsAssumption == MaxReservations \in Nat \ {0}

VARIABLES
  log,        \* the reservers, the last first; empty while there is no blob
  call,       \* call[m]: where its service is in TryReserveJob
  draft,      \* draft[m]: the log it has downloaded or is about to upload
  condition,  \* condition[m]: the lease id of the upload, or NoLease
  told,       \* told[m]: the lease TryReserveJob returned true with, while there
              \* is an entry for it
  lapsed      \* the lease the blob was last under has run out, if only for a while

callVars == <<call, draft, condition>>
serviceVars == <<log, callVars, told, lapsed>>
allVars == <<vars, serviceVars>>

Logs == {s \in Seq(Managers) : Len(s) <= MaxReservations}

ServiceTypeOK ==
  /\ log \in Logs
  /\ call \in [Managers -> {"none", "creating", "acquiring", "logging", "downloaded", "updating"}]
  /\ draft \in [Managers -> Logs]
  /\ condition \in [Managers -> Ids]
  /\ told \in [Managers -> Ids]
  /\ lapsed \in BOOLEAN
  /\ \A k \in 1..(Len(log) - 1) : log[k] # log[k + 1]

ServiceInit ==
  /\ Init
  /\ log = <<>>
  /\ call = [m \in Managers |-> "none"]
  /\ draft = [m \in Managers |-> <<>>]
  /\ condition = [m \in Managers |-> NoLease]
  /\ told = [m \in Managers |-> NoLease]
  /\ lapsed = TRUE

Exists == log # <<>>

\* Mutant: the oldest reservation is looked at.
OldestReservation(s) == s[Len(s)]

LastReservation(s) == s[1]

\* Mutant: nothing is removed.
AddOnly(s, m) == <<m>> \o s

\* Add inserts in front, and removes the oldest when there are too many.
Add(s, m) == [k \in 1..(IF Len(s) < MaxReservations THEN Len(s) + 1 ELSE MaxReservations) |->
                IF k = 1 THEN m ELSE s[k - 1]]

\* The service takes an upload without a lease id unless the blob is leased,
\* and one with a lease id only under that lease.
Accepted(id) == IF id = NoLease THEN remaining = 0 ELSE leaseId = id /\ remaining > 0

\* TryReserveJob of m goes on at c, or is left.
Continue(m, c) == call' = [call EXCEPT ![m] = c]

\* What was told counts as long as the entry is the same.
Remembered == told' = [m \in Managers |-> IF entry'[m] = told[m] THEN told[m] ELSE NoLease]
-----------------------------------------------------------------------------
(* TryReserveJob of the service whose manager is m.                        *)

\* Exists is asked.  Without a blob there is no entry for it, so GetLeaseId
\* gives the upload of InitializeLeaseBlob no condition.
TryReserveJob(m) ==
  /\ life[m] = "up" /\ app[m] = "idle" /\ call[m] = "none"
  /\ IF Exists
       THEN Continue(m, "acquiring") /\ UNCHANGED <<draft, condition>>
       ELSE /\ Continue(m, "creating")
            /\ draft' = [draft EXCEPT ![m] = Add(<<>>, m)]
            /\ condition' = [condition EXCEPT ![m] = NoLease]
  /\ UNCHANGED <<vars, log, told, lapsed>>

\* UploadText replaces the content.
Uploaded(m) == Accepted(condition[m]) /\ log' = draft[m]

\* It is refused, or fails before or after the content is replaced: the
\* StorageException leaves TryReserveJob.
UploadFails(m) == Uploaded(m) \/ UNCHANGED log

UploadText(m) == /\ draft' = [draft EXCEPT ![m] = <<>>]
                 /\ condition' = [condition EXCEPT ![m] = NoLease]
                 /\ UNCHANGED <<vars, lapsed>>

\* The blob may have been created, and even leased, since Exists.
InitializeLeaseBlob(m) ==
  /\ call[m] = "creating" /\ UploadText(m)
  /\ \/ Uploaded(m) /\ Continue(m, "acquiring")
     \/ UploadFails(m) /\ Continue(m, "none")
  /\ UNCHANGED told

\* The blob is leased to m; or it is and the answer is lost.
TryAcquireLease(m, i) ==
  /\ call[m] = "acquiring" /\ AcquireLease(m, i)
  /\ Continue(m, IF app'[m] = "acquired" THEN "acquiring" ELSE "none")
  /\ lapsed' = FALSE
  /\ UNCHANGED <<log, draft, condition, told>>

\* It is not, or the call fails: TryReserveJob returns false.
TryAcquireLeaseFails(m) ==
  /\ call[m] = "acquiring" /\ app[m] = "idle"
  /\ Continue(m, "none")
  /\ UNCHANGED <<vars, log, draft, condition, told, lapsed>>

\* TryAcquireLease returns true, unless there is an entry to be cleared first.
LeaseAcquired(m) ==
  /\ UpdateAcquiredLease(m)
  /\ Continue(m, IF app'[m] = "idle" THEN "logging" ELSE "acquiring")
  /\ UNCHANGED <<log, draft, condition, told, lapsed>>

\* It returns true without an entry, or its exception leaves TryReserveJob.
EntryMismatched(m) ==
  /\ ClearLease(m)
  /\ Continue(m, IF HasLease(m) THEN "logging" ELSE "none")
  /\ Remembered
  /\ UNCHANGED <<log, draft, condition, lapsed>>

\* TryReserveJob returns true, under the lease there is an entry for.
ReturnTrue(m) == told' = [told EXCEPT ![m] = entry[m]]

\* UpdateReservationLog downloads the log, and is done when m is the last in it.
UpdateReservationLog(m) ==
  /\ call[m] = "logging"
  /\ IF LastReservation(log) = m
       THEN Continue(m, "none") /\ ReturnTrue(m) /\ UNCHANGED draft
       ELSE /\ Continue(m, "downloaded")
            /\ draft' = [draft EXCEPT ![m] = log]
            /\ UNCHANGED told
  /\ UNCHANGED <<vars, log, condition, lapsed>>

\* The download fails.
DownloadFails(m) ==
  call[m] = "logging" /\ Continue(m, "none") /\ UNCHANGED <<vars, log, draft, condition, told, lapsed>>

\* Mutant: a new log takes the place of the downloaded one.
NewLog(m) == Add(<<>>, m)

\* MakeJobReservation is added to what was downloaded.
UpdatedLog(m) == Add(draft[m], m)

\* The lease id there is an entry for, if any.
GetLeaseId(m) == entry[m]

\* UpdateBlobContent up to the upload.  An entry that is removed between
\* HasLease and the indexer of GetLeaseId ends the call with an exception.
UpdateBlobContent(m) ==
  /\ call[m] = "downloaded"
  /\ \/ /\ Continue(m, "updating")
        /\ draft' = [draft EXCEPT ![m] = UpdatedLog(m)]
        /\ condition' = [condition EXCEPT ![m] = GetLeaseId(m)]
     \/ /\ ~HasLease(m) /\ Continue(m, "none")
        /\ draft' = [draft EXCEPT ![m] = <<>>] /\ UNCHANGED condition
  /\ UNCHANGED <<vars, log, told, lapsed>>

\* The log is replaced and TryReserveJob returns true.
BlobContentUpdated(m) ==
  /\ call[m] = "updating" /\ UploadText(m) /\ Continue(m, "none")
  /\ \/ Uploaded(m) /\ ReturnTrue(m)
     \/ UploadFails(m) /\ UNCHANGED told
-----------------------------------------------------------------------------
(* The other calls, and what goes on beside them.                          *)

CancelReservation(m) ==
  call[m] = "none" /\ ReleaseLease(m) /\ Remembered /\ UNCHANGED <<log, callVars, lapsed>>

DisposeService(m) == call[m] = "none" /\ Dispose(m) /\ UNCHANGED serviceVars

\* The calls of a process that has ended are gone, and a lease may run out.
Meanwhile ==
  /\ call' = [m \in Managers |-> IF life'[m] = "gone" THEN "none" ELSE call[m]]
  /\ draft' = [m \in Managers |-> IF life'[m] = "gone" THEN <<>> ELSE draft[m]]
  /\ condition' = [m \in Managers |-> IF life'[m] = "gone" THEN NoLease ELSE condition[m]]
  /\ lapsed' = (lapsed \/ remaining' = 0)
  /\ Remembered
  /\ UNCHANGED log

TimePasses == Tick /\ Meanwhile

LeaseReleased(m) == Released(m) /\ Meanwhile

ServiceCrash(m) == Crash(m) /\ Meanwhile

KeepAlive(i) == Callback(i) /\ Meanwhile

\* A call that m has made goes on.
Answer(m) ==
  \/ InitializeLeaseBlob(m) \/ TryAcquireLeaseFails(m)
  \/ \E i \in Leases : TryAcquireLease(m, i)
  \/ LeaseAcquired(m) \/ EntryMismatched(m) \/ LeaseReleased(m)
  \/ UpdateReservationLog(m) \/ DownloadFails(m) \/ UpdateBlobContent(m) \/ BlobContentUpdated(m)

ServiceNext ==
  \/ \E m \in Managers : \/ TryReserveJob(m) \/ CancelReservation(m) \/ DisposeService(m)
                         \/ Answer(m) \/ ServiceCrash(m)
  \/ \E i \in Leases : KeepAlive(i)
  \/ TimePasses

ServiceSpec == ServiceInit /\ [][ServiceNext]_allVars
-----------------------------------------------------------------------------
(* Properties.                                                             *)

\* Nobody else could lease the blob, or write to it, since lease i was granted.
InForce(i) == Leased(i) /\ ~lapsed

\* While a service has the reservation that TryReserveJob returned true with,
\* and its lease never ran out, the log says so: neither the creation of the
\* blob, which looks for it and uploads in two calls, nor a log downloaded by a
\* service that has lost its reservation since, replaces the entry.
ReservedIsLogged == \A m \in Managers :
  Believes(m) /\ told[m] = entry[m] /\ InForce(entry[m]) => Exists /\ log[1] = m

\* While a reservation is in force, the log changes only by the holder being put
\* before what is in it: no reservation is dropped from it before its turn.
LogKeptWhileReserved == [][InForce(leaseId) /\ log' # log =>
  /\ log'[1] = owner[leaseId]
  /\ Len(log') \in {Len(log) + 1, MaxReservations}
  /\ \A k \in 2..Len(log') : log'[k] = log[k - 1]]_allVars
=============================================================================
