# Verification of Brisebois.WindowsAzure

TLA+ models of the parts of this library that poll, retry, lease and batch:
what they do when threads, role instances, timers and storage calls meet in an
unlucky order. TLC checks each model on small instances; TLAPS proves the
central properties for every value of the constants.

## The system

The library is a set of building blocks for worker roles. Most of them run
inside a loop on a thread of their own and talk to Azure storage.

| component | state | operations | interacts with |
|---|---|---|---|
| `PollingTask` | task, cancellation source, attempts | Start, Cancel, ResetAttempts, Dispose; the loop | its owner's thread, thread pool, subclasses' `TryGetWork`/`Execute`/`Completed` |
| `DelayCalculator` | none | ExponentialDelay | `PollingTask.BackOff` |
| `QueueWorker` (a `PollingTask`) | queue, poison queue, maxAttempts | TryGetWork, Execute, Completed | the queue service, other instances |
| `BlobContainerWorker` (a `PollingTask`), `BlobCompressor`, `BlobSnapshotCleaner` | container, batch size | the same three | the blob service, clients, other instances |
| `BlobLeaseManager` | dictionary of leases with keep-alive timers | TryAcquireLease, ReleaseLease, HasLease, Dispose; RenewLease as timer callback | the blob service, other managers |
| `JobReservationService` | a lease manager, a log in each blob | TryReserveJob, HasReservation, CancelReservation | `BlobLeaseManager` |
| `TableStorageWriter` | a concurrent queue of operations | Insert, Delete, ..., Execute | the table service, several threads |
| `ShardedQueue`, `ShardedBlobContainer` | the lists of queues, two indexes | Get, Add, Upload, Find | several storage accounts |
| `CloudTableQueryCache`, `DatabaseCache` | memory cache | query through the cache | readers |
| `Database`, `BulkWriter` | a context or connection, retry policy | QueryAsync, DoAsync, Insert | SQL Database |
| `SqlDatabaseAutoScaler` (an `IntervalTask`) | interval | Execute | a stored procedure |
| `RestClient` and its string and stream variants | headers, parameters, retry policy | GET, POST, PUT, DELETE | HTTP services |
| `JobSchedule` | a Quartz scheduler | ScheduleDailyJob, ScheduleWeeklyJob | Quartz |

What is hard in it: owners and loops share fields without locks; a message may
be in the hands of several workers, one of which is slow; calls of the storage
services fail, or succeed and their answer is lost, and are repeated by the
storage client; timers and their callbacks outlive what they were made for; and
there are no tests in the repository. `PROJECT.json` lists the hazards with
their lines and the property that watches each.

What makes each component correct:

- `PollingTask`: one loop at a time, which can always be stopped, polls at most
  once after it is, treats every item of a batch as the template method says,
  and sleeps what the table lists, no longer than the back-offs since the last
  reset account for.
- `QueueWorker`: no message is lost, none is executed more than maxAttempts
  times, and with a sufficient visibility timeout one that was processed does
  not come back until a call fails or a process dies.
- `BlobLeaseManager`: who believes to have the lease has it, and a lease nobody
  believes in goes away.
- `TableStorageWriter`: every operation is accounted for, written in the order
  of its partition, once unless an answer was lost.
- `BlobCompressor`: every blob gets compressed, once, without harm, as long as a
  worker polls.
- `BlobSnapshotCleaner`: a snapshot is kept for `maxAge`.
- `JobReservationService`: one service has the reservation, and the log says
  which, whatever fails or comes late.
- `IntervalTask`: after `Cancel`, one execution at most.
- `SqlDatabaseAutoScaler`: it acts on recommendations of the last minute, and a
  database that keeps its size gets the maximum it needs.

## Modules

| module | models | abstract view |
|---|---|---|
| `DelayCalculator` | `DelayCalculator.ExponentialDelay` | the table in its source, as `Listed` in `PollingTask` |
| `PollingTask` | `PollingTask<T>` | `WorkLoop` |
| `QueueWorker` | `QueueWorker` on a storage queue | `AtLeastOnce`, `WorkLoop` |
| `BlobLeaseManager` | `BlobLeaseManager` on one blob | `ExclusiveLease` |
| `JobReservationService`, `MC_JobReservationService` | `JobReservationService` composed with `BlobLeaseManager` | `BlobLeaseManager`, `ExclusiveLease` |
| `TableStorageWriter` | `TableStorageWriter` | `PartitionedLog` |
| `BlobCompressor` | `BlobCompressor` over `BlobContainerWorker` | |
| `BlobSnapshotCleaner` | `BlobSnapshotCleaner` over `BlobContainerWorker` | |
| `IntervalTask` | `IntervalTask`, without what `Execute` does | |
| `SqlDatabaseAutoScaler` | `SqlDatabaseAutoScaler` with `IntervalTask`, `DatabaseCache`, `Database` and the stored procedure | |

Proofs are in `PollingTaskProofs`, `QueueWorkerProofs`, `BlobLeaseManagerProofs`,
`JobReservationServiceProofs`, `TableStorageWriterProofs`, `BlobCompressorProofs`,
`BlobSnapshotCleanerProofs` and `SqlDatabaseAutoScalerProofs`, each about the module it is named after.

Definitions carry the names of the code. `map` in `PROJECT.json` gives the lines
of each. Definitions whose comment begins with "Mutant:" are deliberate faults,
used by no specification: a property is only kept if one of them, put in place
of the definition that follows it, violates the property.

### PollingTask and WorkLoop

The owner's calls are atomic with respect to one another (one thread owns the
task) and interleave with the loops. A call that throws is no step: what it
changes before it throws is nothing the model could see. Each successful `Start`
takes a new Task object. `Task.Run` is a queued task that a pool thread takes
up, or that ends unrun when the token is cancelled first. The loop is one step
per read or write of a shared field: the check of the token, the poll, the read
and the write of `attempts++`, the delay, the end of the sleep. PLINQ's `ForAll`
lets items run side by side; after one has thrown, items that were not started
may be abandoned. A poll has four outcomes: work, nothing, an AggregateException
(reported, the loop goes on) and any other exception, which ends the loop.
`emptyPolls` is history: the back-offs begun since the attempts were last reset, by
work that was found or by the owner. A reset is not noted there if it falls into
`attempts++`, where the code loses it; one that falls anywhere else counts.

`WorkLoop` is the contract of the template method: poll, take a batch, each item
through Execute and then Completed, no poll and no end with an item in hand.
`PollingTask` and `QueueWorker` are both shown to implement it.

### QueueWorker and AtLeastOnce

Several workers, each with the loop of `PollingTask` (waits left out). A
delivery is identified by the dequeue count it carries, which is also what the
pop receipt stands for: a delete with an old receipt fails. `GetMessages` hides
up to 32 messages; the timeout of a hidden message expires at any time, or, with
`VisibilityOutlastsBatch`, only when no worker has that delivery in hand. That no two workers then have
one message is what the service is assumed to give, and no claim about the code;
`ProcessedOnce` is what the code makes of it. Answers
may be lost, calls may fail or be applied twice, processes die; each costs one
of `MaxFaults`. A new process may take the place of one that has ended. `Completed` is called twice on the way to the poison queue,
as in the code. Messages' time to live is left out.

`AtLeastOnce` is what a sender sees: a message goes away only after it was
processed to the end or parked.

### BlobLeaseManager and ExclusiveLease

Managers have an application thread and one timer per lease; ids are used once,
as GUIDs are. Operations on the dictionary are atomic, but the steps between
them are not: the callback looks for the entry, reads the id, calls the service
and removes the entry in four steps, and acquiring and releasing interleave with
it. The service grants a lease when none is running and renews one that has
lapsed as long as no other was granted. Time passes in ticks. The history
variable `prompt` is true while every acquisition was answered and entered, and
every callback through, within `Lateness` ticks of when it was sent or due, and
`2 * Lateness < Second`: both together fit in the second the code leaves between
the renewal and the end of the lease. Nothing keeps time from passing: what is
slower makes `prompt` false for good. Mutual exclusion is claimed while it is
true; nothing else needs it. Concurrent writes that corrupt a `Dictionary` are
left out.

`ExclusiveLease` is what callers of `TryAcquireLease` and `HasLease` rely on: a
lease is granted once, held by whom it was granted to, and never again after it
was released, lost or its manager crashed. While `prompt`, leases come in turn:
none is granted while a manager says to have one or is about to.

### JobReservationService

It extends `BlobLeaseManager`: a service is its manager, with the place its
caller is at in `TryReserveJob`, the log it has downloaded or is about to upload
(`draft`), and the lease id that upload carries (`condition`). `Exists`, the
upload that creates the blob, the acquisition, the download and the upload of
the log are separate steps; each may fail, and an upload that fails may have
replaced the log. The service takes an upload without a lease id as long as the
blob is not leased, and one with a lease id under that lease. `ServiceNext` is
made from the actions of the managers, every one of them, with what goes on
beside them: when a process ends, its calls are gone. `told` and `lapsed` are
history: under which entry `TryReserveJob` returned true, and whether the lease
has run out since it was granted, even if it was renewed afterwards.

### TableStorageWriter and PartitionedLog

An operation is the number of its enqueueing, so that the queue is the interval
between the last number dequeued and the last given. `Execute` counts once,
tries that many dequeues (another thread may have been faster), groups what it got
by partition key, takes the groups by the first appearance of their keys, each as a list, and
sends batches of `BatchSize`. What it has dequeued, and a group before its turn, are
sets: the numbers give their order. The table takes a batch as a whole; a
request may be refused, which ends `Execute`, or stay without an answer, and is
then sent again up to `Retries` times, whether or not the table took it.

`PartitionedLog` is what each executing thread promises for the batches it
sends; nothing orders the batches of two threads.

### BlobCompressor

One blob, several workers, clients that overwrite it. The listing, the download
(which fetches the metadata too), the flag and the upload are steps. Others may
upload a page blob into the container and delete it again. A poll throws when the
listing fails, which costs a failure, or when it casts a page blob; nothing
catches either, the task of the worker is faulted, and stays so unless the
instance is replaced, which counts as a failure and is never forced. The stream
of `CompressStream` is modelled by bytes and position: how much the GZipStream
writes before it is closed is left open, except that the trailer comes last.

### BlobSnapshotCleaner

A container in which others take and delete snapshots and page blobs,
with ages in ticks. The poll lists all and casts what it finds, and ends the
polling when either throws; the batch deletes beside one another. The polling around it is that of `PollingTask`.

### IntervalTask and SqlDatabaseAutoScaler

`IntervalTask` is the owner and the loop: check, delay, `Execute`.
`SqlDatabaseAutoScaler` extends it. Its `Execute` is `async void`, so that the
loop waits only until the first thing that has to be waited for; after that the
next interval may begin another execution beside it. An execution looks for the
cache entry, reads it or queries the stored procedure, adds the answer to the
cache under the expiration it chose before the query, decides, and alters the
database. Attempts that fail are repeated `MaxRetries` times; the failure after
that, and the null that the cache returns for an entry which expired after it
was found, leave an `async void` method and end the process. Others change the
size of the database at any time.

## Runs

| run | question | instance |
|---|---|---|
| `polling` | do any calls of the owner upset the loop? does it sleep what the table lists? | 3 tasks, 2 items, fair; attempts saturate where the delay does |
| `refused_start` | does Start refuse only while a loop runs, as long as nobody cancels? | violated, see below |
| `queue` | with a sufficient timeout, is a message processed once until something fails, are the copies on the poison queue in order, and does every message leave the queue? | 2 workers, one of which may end, crash and be restarted, 2 messages, 1 failure, fair |
| `zombies` | with any timeout, nothing lost, nothing executed too often? | 3 workers, 1 message, 4 deliveries, 1 failure |
| `reservation` | is HasLease true only under the lease? do the managers implement the exclusive lease? does the log say who has the reservation? | 2 services, 2 leases, logs of 2 entries, 2 failures, symmetric |
| `lease_late` | however late: do wrong beliefs end, forgotten leases lapse? | 2 managers, 2 leases, 2 failures |
| `writer` | with two executing threads, is every operation accounted for and each partition in order, and does Execute end? | 3 operations, 2 partitions, batches of 2, 2 failures, fair |
| `compressor` | compressed once, and flagged in the end unless polls that threw have ended every worker? | 2 workers, 2 overwritings, page blobs that come and go, 2 failures, fair |
| `flag_before_upload`, `gzip_stream` | does the compressor keep its promise? | violated, see below |
| `autoscaler` | is what is cached recent? does Cancel stop the executions? does the maximum size settle? | 2 executions, 3 sizes, a cache of 2 ticks, 1 retry, fair |
| `snapshots` | is a snapshot kept for maxAge? | violated, see below |

The bounds. Two actors of a kind are what most races here need; a third adds
interleavings of the same steps. `polling` has a third task for a `Start` after
a `Dispose` or a second `Cancel`, `zombies` a third worker so that two may be past the last attempt
while another still executes. `AttemptsBound` is where the delay has reached its
maximum, which an assumption checks. `DequeueBound` of `queue` is never
reached: deadlock is checked there, and a message that could not be delivered
would be one. In `zombies` it lies two above `MaxAttempts`, so that the poison path is
taken and repeated. Two leases in `reservation` are one for each service, or two for
one of them, which acquires again while the callback of the first lease is
still out; logs of two entries drop one with the third reservation. The sizes of `autoscaler` need
less than the limit, the limit and more than it, the cache expires while an
execution is under way, and two executions are what it takes to act on an old
recommendation after a new one; the database begins with a maximum above the
limit. Three operations over two partitions give
groups of one and two batches. Where the table states a number of failures it is
a budget for all calls together: any of them may fail, the listing of the
compressor included, but not all of them in one behaviour. In the other runs
failures may happen at any time. The writer's two exhaust its one retry. `compressor` has two, so that the listings of both workers
may fail; a page blob ends them without any.

Deadlock is checked wherever the program should not stop. It is not where
bounded inputs or deliveries are used up: `zombies`, `reservation`,
`lease_late`, `compressor`, and the violated runs of the latter. Nor is it in
`autoscaler`, where the process may end, and in `snapshots`, where polling may
fault and every snapshot grow old.

Fairness. A thread that has work takes its next step until an exception ends its
task (the thread pool runs what it is given; `OnExecuting` and the storage calls
return); timers fire and time passes; visibility timeouts expire. No owner, client, or caller is obliged to
do anything, and failures are never forced. The scaler's loop and executions go
on and time passes; retries are bounded, and a process that ended owes nothing,
so that what is claimed is claimed of a scaler that keeps `Running`.

## What the runs found

- `Start` throws "Task is already running" when nothing runs: an exception of
  `TryGetWork` other than an AggregateException ends the task, and only `Cancel`
  and `Dispose` clear the field (`refused_start`; TLC's trace is Start, a poll that
  throws, and nothing else).
- The compressor sets its flag before it uploads; a failure in between leaves a
  raw blob that is never looked at again (`flag_before_upload`).
- `CompressStream` rewinds the stream before the GZipStream is closed, so the
  upload starts behind what was written last (`gzip_stream`).
- `BlobSnapshotCleaner` compares the wrong way round: it deletes the snapshots
  that are younger than `maxAge` and keeps the others (`snapshots`).

What the models show beside these:

- A failed listing, or a page blob in the container when it is polled, ends the
  polling of the compressor and of the snapshot cleaner: the exception is no
  AggregateException, and nothing catches it. "Upload new blobs and they will be
  compressed", the promise of the repository's `README.md` (line 21), does not
  survive that. `GetsTheFlag` is weaker than the promise by exactly this: a blob
  gets the flag, or every worker has ended this way.

Behaviour the models show that no comment in the code speaks against:

- A cancelled `PollingTask` cannot be started again: the token stays cancelled,
  and the new task is born canceled. As it too stays in `internalTask`, the next
  `Start` is refused until another `Cancel` or a `Dispose`.
- A `ResetAttempts` between the read and the write of `attempts++` is lost. A
  batch that fails resets the attempts and does not back off.
- With a sufficient visibility timeout a message is processed exactly once until
  a call fails or a process dies (`OnceUntilAFailure`); exceptions of `OnExecuting` and
  cancellations do not change that.
- A message may be parked without ever having been executed, since lost answers
  and abandoned items use up its dequeue count; and one that was processed may
  be parked too, when its delete failed.
- Without a sufficient visibility timeout a message may be parked while it is
  still executed.
- When a lease lapses and the same manager acquires again, `TryAcquireLease`
  returns true and leaves no entry. The failure of an old renewal may remove the
  entry of a newer lease. Neither breaks `BeliefIsTrue`: the belief errs towards
  no.
- The timer of an entry that a failed renewal removed is not disposed of. If the
  manager then acquires another lease and is disposed of, that timer goes on to
  renew it, and the blob stays locked while the process lives.
  `ForgottenLeaseLapses` excludes exactly that.
- Two threads in `TableStorageWriter.Execute` may write one partition out of
  order, and an `Execute` that throws drops all it has dequeued.
- The compressor's upload is unconditional: a client's newer content is lost if
  it arrives after the download.
- A snapshot that was not found before it reached `maxAge`
  stays for good (`OldSnapshotsStay`).
- After one compression the content is gone: what the upload leaves is empty or
  a piece without header and trailer (`ContentLost`). A raw blob that
  a failure left with the flag is left alone until a client uploads it
  again (`AbandonedForEver`).
- When writing the log fails, `TryReserveJob` throws with the lease held and kept
  alive: nobody can reserve the job until its owner cancels a reservation it
  was not told of. Of two services that create the blob, the second may throw
  because the first has leased it already.
- `TryReserveJob` may return true for a service without an entry (see above); its
  upload then has no lease id and is taken if nobody has the blob.
- `IntervalTask.Dispose` throws unless the task was born canceled: before
  `Cancel` the task is not completed, after it the field is null.
- An execution acts on no recommendation that was made while the maximum was the
  absolute limit, nor on one above the limit, rather than going up to it; a maximum
  above the limit is the one the database began with (`LimitIsRespected`). Failing
  queries, or an entry that expires between `Contains` and the read, end the
  process. An old recommendation may shrink the maximum of a database that
  has grown since; the next execution puts that right.

## Proofs

All theorems hold for any finite or infinite sets and any bounds that satisfy
the `ConstantsAssumption` of the module.

`PollingTaskProofs`. Types first. `LoopsUnderControl` needs no more than the two
conjuncts together: a second loop could only start with `internalTask` null, that
is after a Cancel, and then it is born canceled; and one can only let go of a
loop that has ended or is cancelled. `PollsAfterCancel` needs to know that after
the cancellation the only loop with a poll before it is one that has passed its
check (`PollInv`). `SleepsAccountedFor` bounds `attempts` and what the loop is about to
write back to it by the back-offs since the last reset (`BackOffInv`): at most one loop is
between the halves of `attempts++`, and outside them the reset bounds both. `ImplementsTheContract` maps
each step to a step of `WorkLoop` or none; `ItemsInv` says that items are in hand only
inside `ForAll`. `SleepsWhatIsListed` compares the delays with the table: that 2^n doubles
is taken from the number of subsets of 1..n, as the library has no theorem about powers.
`LoopsAlwaysAdvance` counts the places of the loop and what is left of `ExecuteWork`:
each step brings a live loop nearer to its next poll or, when it is cancelled, to its end.
`BatchesGoOn`: `ForAll` may return or some item has a step.

`QueueWorkerProofs`. `DeliveryInv`: a receipt is never above the dequeue count,
and one that matches and is past execution is finished; hence `NothingLost` for
any timeout, and the refinement to `AtLeastOnce`. `CountInv`: the executions of
a message are as many as the deliveries they began on, each at most maxAttempts;
hence `AttemptsBounded`. `ExclusiveInv`, under `VisibilityOutlastsBatch`: a message in
hand is hidden under the delivery in hand, so no second worker gets it; from it
follow the quiet of parked messages and the bound on copies. `OnceInv` adds,
until the first failure, that what was processed or parked is deleted or with the
worker that will delete it, and never both; hence `OnceUntilAFailure`. `ParkedInv`
needs no timeout: the way to the poison queue begins past the last attempt.
`BatchesAlwaysAdvance` is for the batches of a worker what is proved of `PollingTask`.

`BlobLeaseManagerProofs`. `Bookkept` ties entries, timers and calls to the manager
that owns the lease id: no other manager's step touches them. On top of it, `LeaseInv` is
the arithmetic of the second: the time left is at least `due + Second - Lateness` for a
lease with an entry, at least `LeaseTime - age` for one just granted. With
callbacks at most `Lateness` late the first is positive, so no one else can
acquire. `BeliefsAreTrue` and `OneBelieverAtATime` follow. The assumption `2 * Lateness <
Second` is used there and nowhere else, and is as weak as it can be. `ImplementsTheLease`
is the refinement: a step grants, hands over or ends at most one lease, `Bookkept` says whose, and
`LeaseInv` that leases come in turn. Two more theorems do without `prompt`.
`FalseBeliefsCannotLast` counts the ticks until the keep-alive is due and the parts of its callback;
`ReadInv` is what it needs: a callback of a lease that is still entered has read that
lease. `ForgottenLeasesCannotLast` is about the callbacks under way that may renew the
lease: `EndedInv` (a disposed manager has no timer for its entry) excludes that one joins them,
each renewal takes one away, there are finitely many, and between renewals the time runs down.

`JobReservationServiceProofs`. `UsesTheManagers` is the refinement: whatever is
proved of the managers holds of the services, exclusion and the exclusive lease
(`ReservationsTakeTurns`) among it. `DraftsInv`
relates the place a call is at to what it has in hand: a log to be uploaded
names its service first, and a lease id on the upload is one of its own.
`LogInv` adds, for leases in force, that the log has the holder of the
reservation first, that what the holder has downloaded is still the log, and that an upload
with a lease id replaces the log by itself with the holder put before it. Neither uses
`prompt`: the condition on the upload, not the time it takes, protects the log.

`TableStorageWriterProofs`. `WriterInv` relates what a thread has in hand to what
the table has of it. `CallOK`: the lists increase, and groups have a key each.
`WrittenOK`: a batch the table has taken is no longer in hand, unless it is the
one that is out, and comes before what is in hand of its partition. `Apart`:
threads share nothing. Seen from outside, every step but a dequeue is a move
(`Moves`): some of what is in hand becomes done or lost, the batch that is out may be
sent. What moves preserve is proved once; each action is then shown to be one.
The arithmetic of Skip and Take is in `BatchProperties`. The theorems hold for any
`BatchSize`, the 100 of the code included. `Acknowledged` adds that what counts as
done is in the table. Why `Execute` ends: `NeverStuck` (there is a dequeue to try, a batch to send, or a group whose
key came first and whose list is not empty) and `AlwaysAdvances` (dequeues left, then
groups left, then what is left of the group, then retries go down). That a least
operation and a list with all of a group exist is proved with the minimal element that
`WFMin` gives for the order of the numbers, in place of an induction.

`BlobCompressorProofs`. `WhatIsUploaded` is the lemma on streams behind the types:
whatever the GZipStream buffers, what is uploaded is a piece of its output.
`DepthInv`: compressed content carries the flag, in the blob and in every
download, so that only what was downloaded raw passes `Metadata.Add`. `ContentLost` follows from
the lemma and `DepthInv`. `AbandonedForEver` and `FlagOrEndComes` are steps of one
worker seen against the flag: an abandoned blob is abandoned after the step, or a client has
uploaded; while the flag is missing the work of a worker brings it nearer or ends the worker, which
only a poll does that lists a page blob or fails, and no other step takes that back unless a failure is spent.

`SqlDatabaseAutoScalerProofs`. `TaskOK` and `CancelInv`: when an execution has begun after a
`Cancel`, the source is not live and the loop has no delay left that would lead
to another. `ExecutionsOK`: the age of an
answer and the time left of its policy add up to no more than `CacheTime`, so an
entry is never older than it may be. `RecommendationListed` says what the
stored procedure chooses: the smallest size on its list with room. `FreshAdviceIsGood` rests on it: a
recommendation that is still the present one when it is applied, or found to change
nothing, leaves the maximum settled. `LimitInv` carries the limit into what is being
altered. `ExecutionsComeToAnEnd` counts the parts of an execution and its retries.

`BlobSnapshotCleanerProofs`. The only run of this module is violated, so its
theorems say what the cleaner does instead; what they assume of the ages is stated in each.
`OldSnapshotsStay` holds step by step over the types.

Only model-checked: what holds under fairness, since temporal induction and
ENABLED are out of the prover's reach: `ExecuteEnds`, `GetsTheFlag`, `SettlesInTheEnd`, `EventuallyGone`,
`CancelledLoopsEnd`, `KeepsPolling`, `FalseBeliefEnds` and `ForgottenLeaseLapses`. The safety half of
most of them is proved, for every value of the constants: that each fair step brings the end nearer, that nothing
else takes it back, and for `Execute`, `ForAll` and the keep-alive that there is a step to take. Of
`EventuallyGone` this is proved for batches, of `SettlesInTheEnd` for executions,
the rest of both only checked. That the four violated runs find their violation is a matter of TLC
too.

## Not modelled

- `ShardedQueue` and `ShardedBlobContainer`: a round robin over two indexes, and calls
  that are passed through. That the indexes advance together, so that some queues
  may never be reached, is listed as a hazard; nothing in the repository says they should be.
- `BlobContainerWorker` with a batch size, or deleting what it has completed: no
  class of the repository asks for either.
- `CloudTableQueryCache`: the same code as `DatabaseCache`, which is modelled as the scaler uses it.
- `Database.DoAsync` with its transaction, and `BulkWriter`: not used in the repository.
- `RestClient` and `WebClientExtensions`: one request under a retry policy, with no
  state between requests; what a repeated request does is up to the server.
- `JobSchedule`: calls of Quartz.
- Queries, entities and key formats: data with nothing that steps.
- NuGet packages, designer files and `NDependOut`, whose `NDependReport.js` is the only
  JavaScript of the repository and part of a generated report. The library
  itself is C#, with one stored procedure in SQL.
