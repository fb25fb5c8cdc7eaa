------------------------- MODULE TableStorageWriter -------------------------
(***************************************************************************)
(* A TableStorageWriter: any thread enqueues operations, and threads that  *)
(* call Execute take what is queued, group it by partition key and send it *)
(* to the table in batches.  An operation is known by its number in the    *)
(* order of the enqueueing, so the ConcurrentQueue is what lies between    *)
(* the last number taken and the last one given.                           *)
(***************************************************************************)
EXTENDS Integers, Sequences, FiniteSets

CONSTANTS
  Executors,      \* the threads that call Execute
  Partitions,     \* the partition keys of the entities
  BatchSize,
  Retries,        \* how often LinearRetry sends a request again
  MaxOperations,  \* the bound on the operations enqueued
  MaxFaults       \* the budget of requests that fail or are refused

ASSUME ConstantsAssumption ==
  /\ BatchSize \in Nat \ {0} /\ Retries \in Nat
  /\ MaxOperations \in Nat /\ MaxFaults \in Nat

VARIABLES
  keys,       \* keys[n]: the partition key of the n-th operation
  dequeued,   \* the number of the operation dequeued last
  pc,         \* where each thread is in Execute
  count,      \* how many dequeues it has left to try
  toExecute,  \* the operations it has dequeued
  groups,     \* the groups it has not come to
  current,    \* the operations of the group it is at, in order
  batch,      \* the number of its batch in that group
  retry,      \* how often the request for that batch was sent again
  written,    \* the batches the table has taken from each thread, in order
  done,       \* the operations of batches whose success was answered
  lost,       \* the operations an Execute dropped when it threw
  faults      \* how much of the budget is spent

queueVars == <<keys, dequeued>>
callVars  == <<pc, count, toExecute, groups, current, batch, retry>>
tableVars == <<written, done, lost, faults>>
vars == <<queueVars, callVars, tableVars>>

Elements(s) == {s[k] : k \in DOMAIN s}

TypeOK ==
  /\ keys \in Seq(Partitions) /\ Len(keys) <= MaxOperations
  /\ dequeued \in 0..Len(keys)
  /\ pc \in [Executors -> {"idle", "dequeuing", "executing"}]
  /\ count \in [Executors -> 0..MaxOperations]
  /\ toExecute \in [Executors -> SUBSET (1..MaxOperations)]
  /\ groups \in [Executors -> SUBSET SUBSET (1..MaxOperations)]
  /\ current \in [Executors -> Seq(1..MaxOperations)]
  /\ batch \in [Executors -> Nat]
  /\ retry \in [Executors -> 0..Retries]
  /\ written \in [Executors -> Seq(SUBSET (1..MaxOperations))]
  /\ done \subseteq 1..MaxOperations /\ lost \subseteq 1..MaxOperations
  /\ faults \in 0..MaxFaults

Init ==
  /\ keys = <<>> /\ dequeued = 0
  /\ pc = [e \in Executors |-> "idle"]
  /\ count = [e \in Executors |-> 0]
  /\ toExecute = [e \in Executors |-> {}]
  /\ groups = [e \in Executors |-> {}]
  /\ current = [e \in Executors |-> <<>>]
  /\ batch = [e \in Executors |-> 0]
  /\ retry = [e \in Executors |-> 0]
  /\ written = [e \in Executors |-> <<>>]
  /\ done = {} /\ lost = {} /\ faults = 0

OutstandingOperations == Len(keys) - dequeued

\* Insert, Delete, InsertOrMerge, InsertOrReplace, Merge and Replace.
Enqueue(p) ==
  /\ Len(keys) < MaxOperations
  /\ keys' = Append(keys, p)
  /\ UNCHANGED <<dequeued, callVars, tableVars>>
-----------------------------------------------------------------------------
(* Execute, by thread e.                                                    *)

\* It looks once how many operations are queued.
Count(e) ==
  /\ pc[e] = "idle" /\ pc' = [pc EXCEPT ![e] = "dequeuing"]
  /\ count' = [count EXCEPT ![e] = OutstandingOperations]
  /\ UNCHANGED <<queueVars, toExecute, groups, current, batch, retry, tableVars>>

\* Mutant: dequeues, queue empty or not.
DequeueFromEmpty == dequeued + 1

\* The queue after TryDequeue; another thread may have emptied it.
AfterDequeue == IF OutstandingOperations > 0 THEN dequeued + 1 ELSE dequeued

\* Mutant: counts what it was given.
TriesUntilGiven(e) == IF OutstandingOperations > 0 THEN count[e] - 1 ELSE count[e]

TriesLeft(e) == count[e] - 1

TryDequeue(e) ==
  /\ pc[e] = "dequeuing" /\ count[e] > 0
  /\ count' = [count EXCEPT ![e] = TriesLeft(e)]
  /\ dequeued' = AfterDequeue
  /\ toExecute' = [toExecute EXCEPT ![e] =
                     IF OutstandingOperations > 0 THEN @ \cup {dequeued + 1} ELSE @]
  /\ UNCHANGED <<keys, pc, groups, current, batch, retry, tableVars>>

\* The operations ops by partition key.
GroupByKey(ops) == {{o \in ops : keys[o] = keys[q]} : q \in ops}

Group(e) ==
  /\ pc[e] = "dequeuing" /\ count[e] = 0
  /\ pc' = [pc EXCEPT ![e] = "executing"]
  /\ groups' = [groups EXCEPT ![e] = GroupByKey(toExecute[e])]
  /\ toExecute' = [toExecute EXCEPT ![e] = {}]
  /\ UNCHANGED <<queueVars, count, current, batch, retry, tableVars>>

\* Mutant: skips batches, not operations.
SkipBatches(ops, b) ==
  SubSeq(ops, b + 1, IF b + BatchSize < Len(ops) THEN b + BatchSize ELSE Len(ops))

\* Mutant: Skip without Take.
SkipOnly(ops, b) == SubSeq(ops, b * BatchSize + 1, Len(ops))

\* The operations of batch b.
GetOperations(ops, b) ==
  LET skip == b * BatchSize
      last == skip + BatchSize
  IN  SubSeq(ops, skip + 1, IF last < Len(ops) THEN last ELSE Len(ops))

OperationBatch(e) == Elements(GetOperations(current[e], batch[e]))

\* A request for a batch is out.
Sending(e) == pc[e] = "executing" /\ OperationBatch(e) # {}

\* The batches of the group are through.
GroupDone(e) == pc[e] = "executing" /\ OperationBatch(e) = {}

\* The group whose key appeared first.
ComesFirst(g, gs) == \E o \in g : \A q \in UNION gs : o <= q

\* The group in the order of its operations.
ToList(g) == {s \in [1..Cardinality(g) -> g] : /\ Elements(s) = g
                                               /\ \A i, j \in DOMAIN s : i < j => s[i] < s[j]}

\* Mutant: counts batches over all groups.
BatchCarriedOver(e) == batch[e]

FirstBatch(e) == 0

\* ForEach comes to the next group.
NextGroup(e) ==
  /\ GroupDone(e)
  /\ \E g \in groups[e] : /\ ComesFirst(g, groups[e])
                         /\ \E s \in ToList(g) : current' = [current EXCEPT ![e] = s]
                         /\ groups' = [groups EXCEPT ![e] = @ \ {g}]
  /\ batch' = [batch EXCEPT ![e] = FirstBatch(e)]
  /\ UNCHANGED <<queueVars, pc, count, toExecute, retry, tableVars>>

\* All groups are through, and Execute returns.
Return(e) ==
  /\ GroupDone(e) /\ groups[e] = {}
  /\ pc' = [pc EXCEPT ![e] = "idle"]
  /\ current' = [current EXCEPT ![e] = <<>>]
  /\ batch' = [batch EXCEPT ![e] = 0]
  /\ UNCHANGED <<queueVars, count, toExecute, groups, retry, tableVars>>

\* The table takes the batch of e as one transaction.
Taken(e) == [written EXCEPT ![e] = Append(@, OperationBatch(e))]

\* It says so.
BatchSucceeds(e) ==
  /\ Sending(e)
  /\ written' = Taken(e)
  /\ done' = done \cup OperationBatch(e)
  /\ batch' = [batch EXCEPT ![e] = @ + 1]
  /\ retry' = [retry EXCEPT ![e] = 0]
  /\ UNCHANGED <<queueVars, pc, count, toExecute, groups, current, lost, faults>>

Fault == faults < MaxFaults /\ faults' = faults + 1

\* The operations that the batches before b are not about.
Rest(ops, b) == {ops[k] : k \in {j \in DOMAIN ops : j > b * BatchSize}}

\* What Execute has in hand and not done.
InHand(e) == toExecute[e] \cup Rest(current[e], batch[e]) \cup UNION groups[e]

\* The StorageException leaves Execute, and with it all it has in hand.
Throw(e) ==
  /\ lost' = lost \cup InHand(e)
  /\ pc' = [pc EXCEPT ![e] = "idle"]
  /\ groups' = [groups EXCEPT ![e] = {}]
  /\ current' = [current EXCEPT ![e] = <<>>]
  /\ batch' = [batch EXCEPT ![e] = 0]
  /\ retry' = [retry EXCEPT ![e] = 0]

\* The table refuses: an entity is there already, is not there or has changed,
\* perhaps because an earlier request for this batch was taken.
BatchRefused(e) ==
  /\ Sending(e) /\ Fault
  /\ Throw(e)
  /\ UNCHANGED <<queueVars, count, toExecute, written, done>>

\* No answer comes, whether the table took the batch or not; the request is
\* sent again until the policy gives up.
NoAnswer(e) ==
  /\ Sending(e) /\ Fault
  /\ written' \in {written, Taken(e)}
  /\ IF retry[e] < Retries
       THEN retry' = [retry EXCEPT ![e] = @ + 1] /\ UNCHANGED <<pc, groups, current, batch, lost>>
       ELSE Throw(e)
  /\ UNCHANGED <<queueVars, count, toExecute, done>>

Execute(e) ==
  \/ TryDequeue(e) \/ Group(e) \/ NextGroup(e) \/ Return(e)
  \/ BatchSucceeds(e) \/ BatchRefused(e) \/ NoAnswer(e)

Next == \/ \E p \in Partitions : Enqueue(p)
        \/ \E e \in Executors : Count(e) \/ Execute(e)

Spec == Init /\ [][Next]_vars

\* A thread that has called Execute goes on; nobody has to call it.
FairSpec == Spec /\ \A e \in Executors : WF_vars(Execute(e))
-----------------------------------------------------------------------------
(* Properties.                                                              *)

\* The operations that are in the table.
InTable == UNION UNION {Elements(written[e]) : e \in Executors}

\* Every operation enqueued is in exactly one place: queued, in hand of one
\* Execute, done, or dropped by an Execute that threw.  None is skipped between
\* batches or groups and none is taken twice, however many threads execute.
\* What counts as done is in the table, and of what does not count as done or
\* dropped yet, only a batch that is out may be.
EveryOperationAccountedFor ==
  LET Queued == (dequeued + 1)..Len(keys)
      InHands == UNION {InHand(e) : e \in Executors}
  IN  /\ Queued \cup InHands \cup done \cup lost = 1..Len(keys)
      /\ \A d, e \in Executors : d # e => InHand(d) \cap InHand(e) = {}
      /\ (Queued \cup InHands) \cap (done \cup lost) = {} /\ done \cap lost = {}
      /\ Queued \cap InHands = {}
      /\ done \subseteq InTable /\ Queued \cap InTable = {}
      /\ \A e \in Executors : InHand(e) \cap InTable \subseteq OperationBatch(e)

\* No batch is larger than the table takes or mixes partitions, and the table
\* takes nothing twice but a batch whose answer was lost.
BatchesWellFormed == \A d \in Executors : \A j \in DOMAIN written[d] :
  /\ Cardinality(written[d][j]) \in 1..BatchSize
  /\ \A m, n \in written[d][j] : keys[m] = keys[n]
  /\ \A e \in Executors : \A k \in DOMAIN written[e] :
       written[d][j] \cap written[e][k] # {} => d = e /\ written[d][j] = written[e][k]

\* An Execute that throws leaves at most one batch in doubt: of the operations
\* it drops, only those of that batch can be in the table.
OneBatchInDoubt == [][Cardinality((lost' \ lost) \cap InTable') <= BatchSize]_vars

\* However many operations are added meanwhile, and whoever else empties the
\* queue that was counted, Execute returns or throws.
ExecuteEnds == \A e \in Executors : pc[e] # "idle" ~> pc[e] = "idle"

Log(e) == INSTANCE PartitionedLog
            WITH submitted <- keys, written <- written[e], BatchLimit <- BatchSize

\* Every thread keeps the order of each partition, through batches, retries and
\* failures; a single one executing thus keeps the order of the queue.  Between
\* threads there is none, as each takes a share and does not wait for others.
\* For all e, Log(e)!Spec, written as one action formula.
ImplementsPartitionedLog ==
  /\ \A e \in Executors : Log(e)!Init
  /\ [][\A e \in Executors : Log(e)!Next \/ UNCHANGED Log(e)!vars]_vars
=============================================================================
