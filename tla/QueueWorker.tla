---------------------------- MODULE QueueWorker -----------------------------
(***************************************************************************)
(* QueueWorkers, each a PollingTask, on one storage queue.  A delivery of  *)
(* a message is identified by the dequeue count it carries, which is also  *)
(* what its pop receipt stands for: DeleteMessage works only while nobody  *)
(* else has dequeued the message since.  The loop of PollingTask appears   *)
(* here with its waits left out (see PollingTask for those); storage may   *)
(* fail, lose answers or apply a call twice, within a budget.              *)
(***************************************************************************)
EXTENDS Integers, FiniteSets

CONSTANTS
  Workers,
  Unreliable,               \* the workers that may be cancelled, fault or crash
  Messages,
  MaxAttempts,              \* maxAttempts
  BatchSize,                \* the 32 of GetMessages
  VisibilityOutlastsBatch,  \* visibilityTimeout is longer than any batch takes
  DequeueBound,             \* no message is delivered more often than this
  MaxFaults                 \* the budget of failures and crashes

ASSUME ConstantsAssumption ==
  /\ Unreliable \subseteq Workers
  /\ MaxAttempts \in Nat /\ BatchSize \in Nat \ {0}
  /\ VisibilityOutlastsBatch \in BOOLEAN
  /\ DequeueBound \in Nat /\ MaxFaults \in Nat

VARIABLES
  state,         \* state[m]: where m is in the queue
  dequeueCount,  \* dequeueCount[m]: how often it was delivered
  poison,        \* poison[m]: its copies on the poison queue
  pc,            \* pc[w]: where the loop of w is
  cancelled,     \* cancelled[w]: its token
  item,          \* item[w][m]: how far w has come with m in the present batch
  receipt,       \* receipt[w][m]: the delivery w got, workItem.DequeueCount
  executions,    \* history: executions[m] counts the calls of OnExecuting
  started,       \* history: started[m], the deliveries OnExecuting began on
  finished,      \* history: finished[m], the deliveries executed or poisoned
  processed,     \* history: processed[m], OnExecuting has returned once
  faults         \* how much of the budget is spent

queueVars   == <<state, dequeueCount, poison>>
loopVars    == <<pc, cancelled>>
itemVars    == <<item, receipt>>
historyVars == <<executions, started, finished, processed>>
vars == <<queueVars, loopVars, itemVars, historyVars, faults>>

Batch(S) == [m \in Messages |-> IF m \in S THEN "waiting" ELSE "absent"]
NoItems  == Batch({})

\* An item w has not finished with.
InHand     == {"waiting", "executing", "poisoning", "poisoned", "executed"}
ItemStates == {"absent", "done", "threw"} \cup InHand

TypeOK ==
  /\ state \in [Messages -> {"unsent", "visible", "hidden", "deleted"}]
  /\ dequeueCount \in [Messages -> 0..DequeueBound]
  /\ poison \in [Messages -> Nat]
  /\ pc \in [Workers -> {"check", "getWork", "forAll", "ended", "crashed"}]
  /\ cancelled \in [Workers -> BOOLEAN]
  /\ item \in [Workers -> [Messages -> ItemStates]]
  /\ receipt \in [Workers -> [Messages -> 0..DequeueBound]]
  /\ executions \in [Messages -> Nat]
  /\ started \in [Messages -> SUBSET (0..MaxAttempts)]
  /\ finished \in [Messages -> SUBSET (0..DequeueBound)]
  /\ processed \in [Messages -> BOOLEAN]
  /\ faults \in 0..MaxFaults

Init ==
  /\ state = [m \in Messages |-> "unsent"]
  /\ dequeueCount = [m \in Messages |-> 0]
  /\ poison = [m \in Messages |-> 0]
  /\ pc = [w \in Workers |-> "check"]
  /\ cancelled = [w \in Workers |-> FALSE]
  /\ item = [w \in Workers |-> NoItems]
  /\ receipt = [w \in Workers |-> [m \in Messages |-> 0]]
  /\ executions = [m \in Messages |-> 0]
  /\ started = [m \in Messages |-> {}]
  /\ finished = [m \in Messages |-> {}]
  /\ processed = [m \in Messages |-> FALSE]
  /\ faults = 0

\* A failure is charged to the budget.
Fault == faults < MaxFaults /\ faults' = faults + 1
-----------------------------------------------------------------------------
(* The queue service and its clients.                                      *)

\* Some client adds m to the queue.
AddMessage(m) ==
  /\ state[m] = "unsent"
  /\ state' = [state EXCEPT ![m] = "visible"]
  /\ UNCHANGED <<dequeueCount, poison, loopVars, itemVars, historyVars, faults>>

\* w has the present delivery of m in hand.
Holds(w, m) == item[w][m] \in InHand /\ receipt[w][m] = dequeueCount[m]

\* The visibility timeout of a delivery runs out.
VisibilityExpires(m) ==
  /\ state[m] = "hidden"
  /\ VisibilityOutlastsBatch => \A w \in Workers : ~Holds(w, m)
  /\ state' = [state EXCEPT ![m] = "visible"]
  /\ UNCHANGED <<dequeueCount, poison, loopVars, itemVars, historyVars, faults>>

\* The messages in S are delivered: hidden, and counted.
Deliver(S) ==
  /\ S # {} /\ Cardinality(S) <= BatchSize
  /\ \A m \in S : state[m] = "visible" /\ dequeueCount[m] < DequeueBound
  /\ state' = [m \in Messages |-> IF m \in S THEN "hidden" ELSE state[m]]
  /\ dequeueCount' = [m \in Messages |-> IF m \in S THEN dequeueCount[m] + 1 ELSE dequeueCount[m]]

\* The receipt of delivery r still deletes m; being visible again is no harm.
ReceiptValid(m, r) == state[m] \in {"visible", "hidden"} /\ dequeueCount[m] = r

\* Mutant: Completed does not delete.
KeepMessage(m, r) == UNCHANGED <<state, faults>>

\* queue.DeleteMessage(workItem); a StorageException is reported and dropped.
DeleteMessage(m, r) ==
  \/ ReceiptValid(m, r) /\ state' = [state EXCEPT ![m] = "deleted"] /\ UNCHANGED faults
  \/ ~ReceiptValid(m, r) /\ UNCHANGED <<state, faults>>
  \/ Fault /\ UNCHANGED state
-----------------------------------------------------------------------------
(* The loop that QueueWorker inherits, and TryGetWork.                     *)

LoopCheck(w) ==
  /\ pc[w] = "check"
  /\ pc' = [pc EXCEPT ![w] = IF cancelled[w] THEN "ended" ELSE "getWork"]
  /\ UNCHANGED <<queueVars, cancelled, itemVars, historyVars, faults>>

\* queue.GetMessages(32, visibilityTimeout) returns the messages S.
TryGetWork(w, S) ==
  /\ pc[w] = "getWork" /\ pc' = [pc EXCEPT ![w] = "forAll"]
  /\ Deliver(S)
  /\ item' = [item EXCEPT ![w] = Batch(S)]
  /\ receipt' = [receipt EXCEPT ![w] = [m \in Messages |-> IF m \in S THEN dequeueCount'[m] ELSE 0]]
  /\ UNCHANGED <<poison, cancelled, historyVars, faults>>

\* It returns none: the loop backs off and polls again.
FindNothing(w) ==
  /\ pc[w] = "getWork" /\ pc' = [pc EXCEPT ![w] = "check"]
  /\ \A m \in Messages : state[m] # "visible"
  /\ UNCHANGED <<queueVars, cancelled, itemVars, historyVars, faults>>

\* The answer is lost and the storage client asks again: the messages in S
\* were delivered to nobody.
LoseAnswer(w, S) ==
  /\ pc[w] = "getWork"
  /\ Deliver(S) /\ Fault
  /\ UNCHANGED <<poison, loopVars, itemVars, historyVars>>

\* A StorageException, no AggregateException, ends the task.
PollFaults(w) ==
  /\ w \in Unreliable
  /\ pc[w] = "getWork" /\ pc' = [pc EXCEPT ![w] = "ended"]
  /\ Fault
  /\ UNCHANGED <<queueVars, cancelled, itemVars, historyVars>>

Cancel(w) ==
  /\ w \in Unreliable /\ ~cancelled[w]
  /\ cancelled' = [cancelled EXCEPT ![w] = TRUE]
  /\ UNCHANGED <<queueVars, pc, itemVars, historyVars, faults>>

\* The process of w dies, with all it has in hand.
Crash(w) ==
  /\ w \in Unreliable
  /\ pc[w] \notin {"ended", "crashed"} /\ pc' = [pc EXCEPT ![w] = "crashed"]
  /\ item' = [item EXCEPT ![w] = NoItems]
  /\ receipt' = [receipt EXCEPT ![w] = [m \in Messages |-> 0]]
  /\ Fault
  /\ UNCHANGED <<queueVars, cancelled, historyVars>>

\* A new process takes the place of one that has ended, with nothing in hand.
Restart(w) ==
  /\ w \in Unreliable
  /\ pc[w] \in {"ended", "crashed"} /\ pc' = [pc EXCEPT ![w] = "check"]
  /\ cancelled' = [cancelled EXCEPT ![w] = FALSE]
  /\ UNCHANGED <<queueVars, itemVars, historyVars, faults>>

\* Mutant: the AggregateException of ForAll is not caught.
EndedByThrow(w) == IF \E m \in Messages : item[w][m] = "threw" THEN "ended" ELSE "check"

AfterForAll(w) == "check"

\* ForAll returns when every item is through; once one has thrown, items not
\* yet started are abandoned, their deliveries counted all the same.
EndForAll(w) ==
  /\ pc[w] = "forAll" /\ pc' = [pc EXCEPT ![w] = AfterForAll(w)]
  /\ \A m \in Messages : item[w][m] \notin InHand \ {"waiting"}
  /\ \A m \in Messages : item[w][m] = "waiting" => \E n \in Messages : item[w][n] = "threw"
  /\ item' = [item EXCEPT ![w] = NoItems]
  /\ receipt' = [receipt EXCEPT ![w] = [m \in Messages |-> 0]]
  /\ UNCHANGED <<queueVars, cancelled, historyVars, faults>>
-----------------------------------------------------------------------------
(* ExecuteWork: Execute, then Completed, for one message.                  *)

Move(w, m, from, to) ==
  /\ pc[w] = "forAll" /\ item[w][m] = from
  /\ item' = [item EXCEPT ![w][m] = to]
  /\ UNCHANGED <<loopVars, receipt>>

\* Mutants: an attempt too many, and a test for the one delivery that is one too many.
MoreAttemptsLeft(r) == r <= MaxAttempts + 1
NotJustOver(r) == r # MaxAttempts + 1

AttemptsLeft(r) == r <= MaxAttempts

\* Execute, up to the call of OnExecuting.
BeginExecuting(w, m) ==
  /\ Move(w, m, "waiting", "executing")
  /\ AttemptsLeft(receipt[w][m])
  /\ executions' = [executions EXCEPT ![m] = @ + 1]
  /\ started' = [started EXCEPT ![m] = @ \cup {receipt[w][m]}]
  /\ UNCHANGED <<queueVars, finished, processed, faults>>

\* Execute, up to the call of PlaceMessageOnPoisonQueue.
BeginPoisoning(w, m) ==
  /\ Move(w, m, "waiting", "poisoning")
  /\ ~AttemptsLeft(receipt[w][m])
  /\ UNCHANGED <<queueVars, historyVars, faults>>

\* w is through with its delivery of m.
Finish(w, m) == finished' = [finished EXCEPT ![m] = @ \cup {receipt[w][m]}]

\* OnExecuting returns.
OnExecutingReturns(w, m) ==
  /\ Move(w, m, "executing", "executed")
  /\ Finish(w, m)
  /\ processed' = [processed EXCEPT ![m] = TRUE]
  /\ UNCHANGED <<queueVars, executions, started, faults>>

\* Mutant: ExecuteWork goes on to Completed when Execute has thrown.
AfterThrow == "executed"

Abandoned == "threw"

OnExecutingThrows(w, m) ==
  /\ Move(w, m, "executing", Abandoned)
  /\ UNCHANGED <<queueVars, historyVars, faults>>

\* Mutant: Execute returns and nobody calls Completed.
PoisonedIsDone == "done"

AfterPoison == "poisoned"

\* poisonQueue.AddMessage(message): one copy, or two when the client repeats
\* a call whose answer was lost.
PlaceMessageOnPoisonQueue(w, m) ==
  /\ Move(w, m, "poisoning", AfterPoison)
  /\ \/ poison' = [poison EXCEPT ![m] = @ + 1] /\ UNCHANGED faults
     \/ poison' = [poison EXCEPT ![m] = @ + 2] /\ Fault
  /\ Finish(w, m)
  /\ UNCHANGED <<state, dequeueCount, executions, started, processed>>

\* AddMessage throws, whether or not the copy got there.
PlaceMessageFails(w, m) ==
  /\ Move(w, m, "poisoning", "threw")
  /\ poison' \in {poison, [poison EXCEPT ![m] = @ + 1]}
  /\ Fault
  /\ UNCHANGED <<state, dequeueCount, historyVars>>

\* Completed: once more than needed on the way to the poison queue, where
\* PlaceMessageOnPoisonQueue has called it and ExecuteWork calls it again.
Completed(w, m) ==
  /\ Move(w, m, "poisoned", "executed") \/ Move(w, m, "executed", "done")
  /\ DeleteMessage(m, receipt[w][m])
  /\ UNCHANGED <<dequeueCount, poison, historyVars>>

ExecuteWork(w, m) ==
  \/ BeginExecuting(w, m) \/ OnExecutingReturns(w, m) \/ OnExecutingThrows(w, m)
  \/ BeginPoisoning(w, m) \/ PlaceMessageOnPoisonQueue(w, m) \/ PlaceMessageFails(w, m)
  \/ Completed(w, m)
-----------------------------------------------------------------------------
Loop(w) ==
  \/ LoopCheck(w) \/ FindNothing(w) \/ PollFaults(w) \/ EndForAll(w)
  \/ \E S \in SUBSET Messages : TryGetWork(w, S) \/ LoseAnswer(w, S)
  \/ \E m \in Messages : ExecuteWork(w, m)

Queue == \E m \in Messages : AddMessage(m) \/ VisibilityExpires(m)

Next == Queue \/ \E w \in Workers : Loop(w) \/ Cancel(w) \/ Crash(w) \/ Restart(w)

Spec == Init /\ [][Next]_vars

\* The loop of a worker keeps running (PollingTask shows that it polls again
\* and again), OnExecuting ends, and the queue service lets timeouts expire.
\* Nothing is assumed of those who add messages, cancel, crash or restart.
FairSpec == /\ Spec
            /\ \A w \in Workers : WF_vars(Loop(w))
            /\ \A m \in Messages : WF_vars(VisibilityExpires(m))
-----------------------------------------------------------------------------
(* Properties.                                                             *)

\* No message is lost: the delivery under which it was deleted had been
\* executed to the end or copied to the poison queue.  That some earlier
\* delivery had is not enough, for a failed one may follow.
NoLostMessage == \A m \in Messages : state[m] = "deleted" => dequeueCount[m] \in finished[m]

\* OnExecuting is called at most maxAttempts times for a message, by all the
\* workers together, in spite of redeliveries under way.
AtMostMaxAttempts == \A m \in Messages : executions[m] <= MaxAttempts

\* With a visibility timeout longer than any batch takes, and as long as no
\* call fails and no process dies, a message that was processed is not executed
\* a second time, and not parked either: at least once is then exactly once,
\* though OnExecuting throws, other items are abandoned with it, and workers are
\* cancelled and replaced as their owners like.
ProcessedOnce ==
  VisibilityOutlastsBatch /\ faults = 0 =>
    \A m \in Messages : processed[m] =>
      /\ poison[m] = 0
      /\ \A w \in Workers : item[w][m] \in InHand => item[w][m] = "executed"

\* With the same timeout, whoever reads a message from the poison queue can
\* rely on it that no worker is processing the original any more.
PoisonedIsQuiet ==
  VisibilityOutlastsBatch =>
    \A m \in Messages : poison[m] > 0 => \A w \in Workers : item[w][m] # "executing"

\* With the same timeout, every copy on the poison queue beyond the first is
\* down to a failure: the doubled Completed call does not double the message.
PoisonCopiesAccountedFor ==
  VisibilityOutlastsBatch => \A m \in Messages : poison[m] <= 1 + faults

\* The queue and its poison queue, seen by a sender.
Life(m) == CASE state[m] = "unsent" -> "unsent"
             [] state[m] = "deleted" -> "gone"
             [] OTHER -> "pending"

A == INSTANCE AtLeastOnce WITH life <- [m \in Messages |-> Life(m)],
                               parked <- [m \in Messages |-> poison[m] > 0]

\* Every message is delivered at least once in the sense of AtLeastOnce.
ImplementsAtLeastOnce == A!Spec

\* A message that was sent leaves the queue in the end, processed or parked,
\* as long as one worker keeps running.
EventuallyGone == A!EventuallyGone

\* The loop of w, seen as a work loop: poisoning is a way of executing.
Phase(w) == CASE pc[w] = "check"   -> "idle"
              [] pc[w] = "getWork" -> "polling"
              [] pc[w] = "forAll"  -> "working"
              [] OTHER             -> "stopped"

Progress(s) == IF s \in {"poisoning", "poisoned"} THEN "executing" ELSE s

W(w) == INSTANCE WorkLoop WITH Items <- Messages, MayCrash <- TRUE, phase <- Phase(w),
                               item <- [m \in Messages |-> Progress(item[w][m])]

\* The worker keeps to the template it inherits from PollingTask: for all w,
\* W(w)!Spec, written as one action formula.
ImplementsWorkLoop ==
  /\ \A w \in Workers : W(w)!Init
  /\ [][\A w \in Workers : W(w)!Next \/ UNCHANGED W(w)!vars]_vars
=============================================================================
