------------------------- MODULE QueueWorkerProofs --------------------------
(***************************************************************************)
(* Proofs about QueueWorker, for any set of workers and messages, any      *)
(* number of attempts and any budget of failures.  The argument rests on   *)
(* deliveries: every dequeue count is handed to at most one worker, and    *)
(* what is remembered of a message is remembered delivery by delivery.     *)
(***************************************************************************)
EXTENDS QueueWorker, FiniteSetTheorems, TLAPS

LEMMA ConstantsType ==
  /\ MaxAttempts \in Nat /\ DequeueBound \in Nat /\ MaxFaults \in Nat
  /\ 0 \in 0..DequeueBound /\ 0 \in 0..MaxFaults
  BY ConstantsAssumption

\* The queue, the loops and the histories keep their types; the deliveries
\* OnExecuting is called for are among the first maxAttempts.
THEOREM TypeCorrect == Spec => []TypeOK
<1>1. Init => TypeOK
  <2> SUFFICES ASSUME Init PROVE TypeOK
    OBVIOUS
  <2>1. /\ state \in [Messages -> {"unsent", "visible", "hidden", "deleted"}]
        /\ dequeueCount \in [Messages -> 0..DequeueBound]
        /\ poison \in [Messages -> Nat]
    BY ConstantsType DEF Init
  <2>2. /\ pc \in [Workers -> {"check", "getWork", "forAll", "ended", "crashed"}]
        /\ cancelled \in [Workers -> BOOLEAN]
    BY DEF Init
  <2>3. /\ item \in [Workers -> [Messages -> ItemStates]]
        /\ receipt \in [Workers -> [Messages -> 0..DequeueBound]]
    BY ConstantsType DEF Init, NoItems, Batch, ItemStates
  <2>4. /\ executions \in [Messages -> Nat]
        /\ started \in [Messages -> SUBSET (0..MaxAttempts)]
        /\ finished \in [Messages -> SUBSET (0..DequeueBound)]
    BY DEF Init
  <2>5. processed \in [Messages -> BOOLEAN]
    BY DEF Init
  <2>6. faults \in 0..MaxFaults
    BY ConstantsType DEF Init
  <2> QED BY <2>1, <2>2, <2>3, <2>4, <2>5, <2>6 DEF TypeOK
<1>2. TypeOK /\ [Next]_vars => TypeOK'
  <2> SUFFICES ASSUME TypeOK, [Next]_vars PROVE TypeOK'
    OBVIOUS
  <2> USE DEF TypeOK, queueVars, loopVars, itemVars, historyVars
  <2>1. Fault => faults' \in 0..MaxFaults
    BY ConstantsType DEF Fault
  <2>2. CASE Queue
    BY <2>2 DEF Queue, AddMessage, VisibilityExpires
  <2>3. ASSUME NEW w \in Workers, LoopCheck(w) \/ FindNothing(w) \/ PollFaults(w) PROVE TypeOK'
    BY <2>1, <2>3 DEF LoopCheck, FindNothing, PollFaults
  <2>4. ASSUME NEW w \in Workers, Cancel(w) \/ Restart(w) PROVE TypeOK'
    BY <2>4 DEF Cancel, Restart
  <2>5. ASSUME NEW w \in Workers, EndForAll(w) \/ Crash(w) PROVE TypeOK'
    <3>1. /\ item' \in [Workers -> [Messages -> ItemStates]]
          /\ receipt' \in [Workers -> [Messages -> 0..DequeueBound]]
      <4>1. NoItems \in [Messages -> ItemStates]
        BY DEF NoItems, Batch, ItemStates
      <4>2. [m \in Messages |-> 0] \in [Messages -> 0..DequeueBound]
        BY ConstantsType
      <4> QED BY <2>5, <4>1, <4>2 DEF EndForAll, Crash
    <3> QED BY <2>1, <2>5, <3>1 DEF EndForAll, AfterForAll, Crash
  <2>6. ASSUME NEW S \in SUBSET Messages, Deliver(S)
        PROVE  /\ state' \in [Messages -> {"unsent", "visible", "hidden", "deleted"}]
               /\ dequeueCount' \in [Messages -> 0..DequeueBound]
    <3>1. \A m \in S : dequeueCount[m] + 1 \in 0..DequeueBound
      BY <2>6, ConstantsType DEF Deliver
    <3> QED BY <2>6, <3>1 DEF Deliver
  <2>7. ASSUME NEW w \in Workers, NEW S \in SUBSET Messages, TryGetWork(w, S) PROVE TypeOK'
    <3>1. item' \in [Workers -> [Messages -> ItemStates]]
      BY <2>7 DEF TryGetWork, Batch, ItemStates, InHand
    <3>2. dequeueCount' \in [Messages -> 0..DequeueBound]
      BY <2>6, <2>7 DEF TryGetWork
    <3>3. receipt' \in [Workers -> [Messages -> 0..DequeueBound]]
      BY <2>7, <3>2, ConstantsType DEF TryGetWork
    <3> QED BY <2>6, <2>7, <3>1, <3>3 DEF TryGetWork
  <2>8. ASSUME NEW w \in Workers, NEW S \in SUBSET Messages, LoseAnswer(w, S) PROVE TypeOK'
    BY <2>1, <2>6, <2>8 DEF LoseAnswer
  <2>9. ASSUME NEW w \in Workers, NEW m \in Messages, NEW from, NEW to \in ItemStates,
               Move(w, m, from, to)
        PROVE  /\ item' \in [Workers -> [Messages -> ItemStates]]
               /\ receipt' \in [Workers -> [Messages -> 0..DequeueBound]]
               /\ pc' = pc /\ cancelled' = cancelled
    BY <2>9 DEF Move
  <2>10. ASSUME NEW w \in Workers, NEW m \in Messages, ExecuteWork(w, m) PROVE TypeOK'
    <3> USE DEF ItemStates, InHand
    <3>1. CASE BeginExecuting(w, m)
      <4>1. receipt[w][m] \in 0..MaxAttempts
        BY <3>1, ConstantsType DEF BeginExecuting, AttemptsLeft
      <4> QED BY <2>9, <3>1, <4>1 DEF BeginExecuting
    <3>2. CASE OnExecutingReturns(w, m)
      BY <2>9, <3>2 DEF OnExecutingReturns, Finish
    <3>3. CASE OnExecutingThrows(w, m) \/ BeginPoisoning(w, m)
      BY <2>9, <3>3 DEF OnExecutingThrows, Abandoned, BeginPoisoning
    <3>4. CASE PlaceMessageOnPoisonQueue(w, m)
      <4>1. poison' \in [Messages -> Nat] /\ faults' \in 0..MaxFaults
        <5>1. CASE poison' = [poison EXCEPT ![m] = @ + 1] /\ UNCHANGED faults
          BY <5>1
        <5>2. CASE poison' = [poison EXCEPT ![m] = @ + 2] /\ Fault
          BY <2>1, <5>2
        <5> QED BY <3>4, <5>1, <5>2 DEF PlaceMessageOnPoisonQueue
      <4>2. item' \in [Workers -> [Messages -> ItemStates]] /\ UNCHANGED <<loopVars, receipt>>
        BY <3>4 DEF PlaceMessageOnPoisonQueue, AfterPoison, Move
      <4>3. finished' \in [Messages -> SUBSET (0..DequeueBound)]
        BY <3>4 DEF PlaceMessageOnPoisonQueue, Finish
      <4> QED BY <3>4, <4>1, <4>2, <4>3 DEF PlaceMessageOnPoisonQueue
    <3>5. CASE PlaceMessageFails(w, m)
      <4>1. poison' \in [Messages -> Nat] /\ faults' \in 0..MaxFaults
        BY <2>1, <3>5 DEF PlaceMessageFails
      <4>2. item' \in [Workers -> [Messages -> ItemStates]] /\ UNCHANGED <<loopVars, receipt>>
        BY <3>5 DEF PlaceMessageFails, Move
      <4> QED BY <3>5, <4>1, <4>2 DEF PlaceMessageFails
    <3>6. CASE Completed(w, m)
      BY <2>1, <2>9, <3>6 DEF Completed, DeleteMessage
    <3> QED BY <2>10, <3>1, <3>2, <3>3, <3>4, <3>5, <3>6 DEF ExecuteWork
  <2>11. CASE UNCHANGED vars
    BY <2>11 DEF vars
  <2> QED BY <2>2, <2>3, <2>4, <2>5, <2>7, <2>8, <2>10, <2>11 DEF Next, Loop
<1> QED BY <1>1, <1>2, PTL DEF Spec
-----------------------------------------------------------------------------
\* What is known of the delivery of m that w has in its batch.
DeliveryOf(w, m) ==
  /\ pc[w] = "forAll"
  /\ receipt[w][m] \in 1..dequeueCount[m]
  /\ item[w][m] = "waiting" => receipt[w][m] \notin started[m]
  /\ item[w][m] \in {"poisoned", "executed"} => receipt[w][m] \in finished[m]
  /\ \A v \in Workers : item[v][m] # "absent" /\ receipt[v][m] = receipt[w][m] => v = w

\* Every delivery went to at most one worker; what is executed or deleted is
\* a delivery that took place.
DeliveryInv ==
  \A m \in Messages :
    /\ state[m] = "unsent" => dequeueCount[m] = 0
    /\ started[m] \subseteq 1..dequeueCount[m]
    /\ state[m] = "deleted" => dequeueCount[m] \in finished[m]
    /\ \A w \in Workers : item[w][m] # "absent" => DeliveryOf(w, m)

\* What w does not have after a step, it need not account for: the invariant
\* survives a step that empties the batch of w and leaves the rest alone.
LEMMA BatchDropped ==
  ASSUME TypeOK, DeliveryInv, NEW w \in Workers,
         item' = [item EXCEPT ![w] = NoItems],
         receipt' = [receipt EXCEPT ![w] = [m \in Messages |-> 0]],
         \A v \in Workers \ {w} : pc'[v] = pc[v],
         UNCHANGED <<queueVars, historyVars>>
  PROVE  DeliveryInv'
<1> USE DEF TypeOK, queueVars, historyVars
<1>1. \A m \in Messages : item'[w][m] = "absent"
  BY DEF NoItems, Batch
<1>2. \A v \in Workers \ {w} : item'[v] = item[v] /\ receipt'[v] = receipt[v]
  OBVIOUS
<1>3. ASSUME NEW m \in Messages, NEW v \in Workers, item'[v][m] # "absent"
      PROVE  DeliveryOf(v, m)'
  <2>1. v # w /\ DeliveryOf(v, m)
    BY <1>1, <1>2, <1>3 DEF DeliveryInv
  <2> QED BY <1>1, <1>2, <2>1 DEF DeliveryOf
<1> QED BY <1>3 DEF DeliveryInv

\* A delivery makes every count at most larger, and the present ones past.
LEMMA DeliveryCounted ==
  ASSUME TypeOK, NEW S \in SUBSET Messages, Deliver(S)
  PROVE  /\ \A m \in S : /\ state[m] = "visible" /\ state'[m] = "hidden"
                         /\ dequeueCount'[m] = dequeueCount[m] + 1
         /\ \A m \in Messages \ S : state'[m] = state[m] /\ dequeueCount'[m] = dequeueCount[m]
         /\ \A m \in Messages : 1..dequeueCount[m] \subseteq 1..dequeueCount'[m]
  BY DEF TypeOK, Deliver

\* The invariant survives a delivery whose answer is lost.
LEMMA AnswerLost ==
  ASSUME TypeOK, DeliveryInv, NEW w \in Workers, NEW S \in SUBSET Messages, LoseAnswer(w, S)
  PROVE  DeliveryInv'
<1>1. UNCHANGED <<pc, item, receipt, started, finished>>
  BY DEF LoseAnswer, loopVars, itemVars, historyVars
<1>2. Deliver(S)
  BY DEF LoseAnswer
<1>3. ASSUME NEW m \in Messages, NEW v \in Workers, item'[v][m] # "absent"
      PROVE  DeliveryOf(v, m)'
  <2>1. DeliveryOf(v, m)
    BY <1>1, <1>3 DEF DeliveryInv
  <2> QED BY <1>1, <1>2, <2>1, DeliveryCounted DEF DeliveryOf
<1>4. ASSUME NEW m \in Messages
      PROVE  /\ (state[m] = "unsent" => dequeueCount[m] = 0)'
             /\ (started[m] \subseteq 1..dequeueCount[m])'
             /\ (state[m] = "deleted" => dequeueCount[m] \in finished[m])'
  BY <1>1, <1>2, DeliveryCounted DEF DeliveryInv
<1> QED BY <1>3, <1>4 DEF DeliveryInv

\* The invariant survives a poll that finds work: the counts it hands out are
\* larger than every receipt there is.
LEMMA WorkTaken ==
  ASSUME TypeOK, DeliveryInv, NEW w \in Workers, NEW S \in SUBSET Messages, TryGetWork(w, S)
  PROVE  DeliveryInv'
<1>1. /\ UNCHANGED <<started, finished>>
      /\ \A v \in Workers \ {w} : pc'[v] = pc[v] /\ item'[v] = item[v] /\ receipt'[v] = receipt[v]
      /\ pc[w] = "getWork" /\ pc'[w] = "forAll" /\ item'[w] = Batch(S)
      /\ receipt'[w] = [m \in Messages |-> IF m \in S THEN dequeueCount'[m] ELSE 0]
  BY DEF TypeOK, TryGetWork, historyVars
<1>2. Deliver(S)
  BY DEF TryGetWork
<1>3. \A m \in Messages : item[w][m] = "absent"
  BY <1>1 DEF DeliveryInv, DeliveryOf
<1>4. ASSUME NEW m \in Messages, NEW v \in Workers \ {w}, item'[v][m] # "absent"
      PROVE  /\ DeliveryOf(v, m)
             /\ receipt'[v][m] \in 1..dequeueCount[m]
  BY <1>1, <1>4 DEF DeliveryInv, DeliveryOf
<1>5. ASSUME NEW m \in Messages, item'[w][m] # "absent"
      PROVE  /\ m \in S /\ item'[w][m] = "waiting"
             /\ receipt'[w][m] = dequeueCount[m] + 1 /\ dequeueCount'[m] = dequeueCount[m] + 1
             /\ dequeueCount[m] \in Nat
  BY <1>1, <1>2, <1>5, DeliveryCounted DEF Batch, TypeOK
<1>6. ASSUME NEW m \in Messages, NEW v \in Workers, item'[v][m] # "absent"
      PROVE  DeliveryOf(v, m)'
  <2>1. CASE v = w
    <3>1. receipt'[w][m] \in 1..dequeueCount'[m] /\ receipt'[w][m] \notin started'[m]
      BY <1>1, <1>5, <1>6, <2>1 DEF DeliveryInv
    <3>2. \A u \in Workers : item'[u][m] # "absent" /\ receipt'[u][m] = receipt'[w][m] => u = w
      BY <1>4, <1>5, <1>6, <2>1
    <3> QED BY <1>1, <1>5, <1>6, <2>1, <3>1, <3>2 DEF DeliveryOf
  <2>2. CASE v # w
    <3>1. DeliveryOf(v, m) /\ receipt'[v][m] \in 1..dequeueCount[m]
      BY <1>4, <1>6, <2>2
    <3>2. \A u \in Workers : item'[u][m] # "absent" /\ receipt'[u][m] = receipt'[v][m] => u = v
      BY <1>1, <1>5, <2>2, <3>1 DEF DeliveryOf
    <3> QED BY <1>1, <1>2, <2>2, <3>1, <3>2, DeliveryCounted DEF DeliveryOf
  <2> QED BY <2>1, <2>2
<1>7. ASSUME NEW m \in Messages
      PROVE  /\ (state[m] = "unsent" => dequeueCount[m] = 0)'
             /\ (started[m] \subseteq 1..dequeueCount[m])'
             /\ (state[m] = "deleted" => dequeueCount[m] \in finished[m])'
  BY <1>1, <1>2, DeliveryCounted DEF DeliveryInv
<1> QED BY <1>6, <1>7 DEF DeliveryInv

\* The invariant survives a step of one item, provided that what the step
\* counts as finished or deletes is the delivery in hand.
LEMMA ItemMoved ==
  ASSUME TypeOK, DeliveryInv, NEW w \in Workers, NEW m \in Messages,
         NEW to \in ItemStates \ {"absent", "waiting"},
         item[w][m] # "absent", item' = [item EXCEPT ![w][m] = to],
         UNCHANGED <<pc, receipt, dequeueCount>>,
         \A n \in Messages : finished[n] \subseteq finished'[n],
         to \in {"poisoned", "executed"} => receipt[w][m] \in finished'[m],
         \/ started' = started
         \/ started' = [started EXCEPT ![m] = @ \cup {receipt[w][m]}],
         \/ state' = state
         \/ state' = [state EXCEPT ![m] = "deleted"] /\ dequeueCount[m] \in finished'[m]
  PROVE  DeliveryInv'
<1> USE DEF TypeOK
<1>1. /\ item'[w][m] = to
      /\ \A v \in Workers, n \in Messages : v # w \/ n # m => item'[v][n] = item[v][n]
  OBVIOUS
<1>2. DeliveryOf(w, m)
  BY DEF DeliveryInv
<1>3. \A n \in Messages : n # m => started'[n] = started[n]
  OBVIOUS
<1>4. started'[m] \subseteq started[m] \cup {receipt[w][m]}
  OBVIOUS
<1>5. ASSUME NEW n \in Messages, NEW v \in Workers, item'[v][n] # "absent"
      PROVE  DeliveryOf(v, n)'
  <2>1. item[v][n] # "absent" /\ DeliveryOf(v, n)
    BY <1>1, <1>5 DEF DeliveryInv
  <2>2. \A u \in Workers : item'[u][n] # "absent" /\ receipt'[u][n] = receipt'[v][n] => u = v
    BY <1>1, <2>1 DEF DeliveryOf
  <2>3. item'[v][n] = "waiting" => receipt'[v][n] \notin started'[n]
    BY <1>1, <1>2, <1>3, <1>4, <2>1 DEF DeliveryOf
  <2>4. item'[v][n] \in {"poisoned", "executed"} => receipt'[v][n] \in finished'[n]
    BY <1>1, <2>1 DEF DeliveryOf
  <2> QED BY <2>1, <2>2, <2>3, <2>4 DEF DeliveryOf
<1>6. ASSUME NEW n \in Messages
      PROVE  /\ (state[n] = "unsent" => dequeueCount[n] = 0)'
             /\ (started[n] \subseteq 1..dequeueCount[n])'
             /\ (state[n] = "deleted" => dequeueCount[n] \in finished[n])'
  <2>1. (started[n] \subseteq 1..dequeueCount[n])'
    BY <1>2, <1>3, <1>4 DEF DeliveryInv, DeliveryOf
  <2>2. (state[n] = "unsent" => dequeueCount[n] = 0)'
    BY DEF DeliveryInv
  <2>3. (state[n] = "deleted" => dequeueCount[n] \in finished[n])'
    BY DEF DeliveryInv
  <2> QED BY <2>1, <2>2, <2>3
<1> QED BY <1>5, <1>6 DEF DeliveryInv

\* The invariant survives every step of ExecuteWork.
LEMMA WorkExecuted ==
  ASSUME TypeOK, DeliveryInv, NEW w \in Workers, NEW m \in Messages, ExecuteWork(w, m)
  PROVE  DeliveryInv'
<1> USE DEF Move, loopVars, queueVars, historyVars, ItemStates, InHand
<1>1. CASE BeginExecuting(w, m)
  BY <1>1, ItemMoved DEF BeginExecuting
<1>2. CASE BeginPoisoning(w, m)
  BY <1>2, ItemMoved DEF BeginPoisoning
<1>3. CASE OnExecutingReturns(w, m) \/ PlaceMessageOnPoisonQueue(w, m)
  <2>1. /\ \A n \in Messages : finished[n] \subseteq finished'[n]
        /\ receipt[w][m] \in finished'[m]
    <3>1. finished' = [finished EXCEPT ![m] = @ \cup {receipt[w][m]}]
      BY <1>3 DEF OnExecutingReturns, PlaceMessageOnPoisonQueue, Finish
    <3> QED BY <3>1 DEF TypeOK
  <2> QED BY <1>3, <2>1, ItemMoved DEF OnExecutingReturns, PlaceMessageOnPoisonQueue, AfterPoison
<1>4. CASE OnExecutingThrows(w, m) \/ PlaceMessageFails(w, m)
  BY <1>4, ItemMoved DEF OnExecutingThrows, Abandoned, PlaceMessageFails
<1>5. CASE Completed(w, m)
  <2>1. receipt[w][m] \in finished[m]
    BY <1>5 DEF Completed, DeliveryInv, DeliveryOf
  <2>2. \/ state' = state
        \/ state' = [state EXCEPT ![m] = "deleted"] /\ dequeueCount[m] = receipt[w][m]
    BY <1>5 DEF Completed, DeleteMessage, ReceiptValid
  <2>3. PICK to \in {"executed", "done"} : item' = [item EXCEPT ![w][m] = to]
    BY <1>5 DEF Completed
  <2>4. item[w][m] # "absent"
    BY <1>5 DEF Completed
  <2> QED BY <1>5, <2>1, <2>2, <2>3, <2>4, ItemMoved DEF Completed
<1> QED BY <1>1, <1>2, <1>3, <1>4, <1>5 DEF ExecuteWork

LEMMA Deliveries == Spec => []DeliveryInv
<1>1. Init => DeliveryInv
  BY DEF Init, DeliveryInv, NoItems, Batch
<1>2. TypeOK /\ DeliveryInv /\ [Next]_vars => DeliveryInv'
  <2> SUFFICES ASSUME TypeOK, DeliveryInv, [Next]_vars PROVE DeliveryInv'
    OBVIOUS
  <2> USE DEF queueVars, loopVars, itemVars, historyVars
  <2>1. ASSUME UNCHANGED <<pc, itemVars, dequeueCount, historyVars>>,
               \A m \in Messages : state'[m] \in {"unsent", "deleted"} => state'[m] = state[m]
        PROVE  DeliveryInv'
    BY <2>1 DEF DeliveryInv, DeliveryOf
  <2>2. CASE Queue
    BY <2>1, <2>2 DEF Queue, AddMessage, VisibilityExpires, TypeOK
  <2>3. ASSUME NEW w \in Workers,
               LoopCheck(w) \/ FindNothing(w) \/ PollFaults(w) \/ Restart(w)
        PROVE  DeliveryInv'
    <3>1. \A v \in Workers : pc[v] = "forAll" => pc'[v] = "forAll"
      BY <2>3 DEF LoopCheck, FindNothing, PollFaults, Restart, TypeOK
    <3> QED BY <2>3, <3>1 DEF LoopCheck, FindNothing, PollFaults, Restart, DeliveryInv, DeliveryOf
  <2>4. ASSUME NEW w \in Workers, Cancel(w) PROVE DeliveryInv'
    BY <2>1, <2>4 DEF Cancel
  <2>5. ASSUME NEW w \in Workers, EndForAll(w) \/ Crash(w) PROVE DeliveryInv'
    BY <2>5, BatchDropped DEF EndForAll, Crash, TypeOK
  <2>6. ASSUME NEW w \in Workers, NEW S \in SUBSET Messages, TryGetWork(w, S) \/ LoseAnswer(w, S)
        PROVE  DeliveryInv'
    BY <2>6, WorkTaken, AnswerLost
  <2>7. ASSUME NEW w \in Workers, NEW m \in Messages, ExecuteWork(w, m) PROVE DeliveryInv'
    BY <2>7, WorkExecuted
  <2>8. CASE UNCHANGED vars
    BY <2>1, <2>8 DEF vars
  <2> QED BY <2>2, <2>3, <2>4, <2>5, <2>6, <2>7, <2>8 DEF Next, Loop
<1> QED BY <1>1, <1>2, TypeCorrect, PTL DEF Spec

\* A message leaves the queue only under a delivery that was executed to the
\* end or copied to the poison queue: whatever is deleted is deleted with the
\* receipt of the present delivery, which is in finished by then.
THEOREM NothingLost == Spec => []NoLostMessage
<1>1. DeliveryInv => NoLostMessage
  BY DEF DeliveryInv, NoLostMessage
<1> QED BY <1>1, Deliveries, PTL
-----------------------------------------------------------------------------
\* Every call of OnExecuting was for a delivery of its own.
CountInv == \A m \in Messages : /\ IsFiniteSet(started[m])
                                /\ executions[m] = Cardinality(started[m])

LEMMA ExecutionsCounted == Spec => []CountInv
<1>1. Init => CountInv
  BY FS_EmptySet DEF Init, CountInv
<1>2. TypeOK /\ DeliveryInv /\ CountInv /\ [Next]_vars => CountInv'
  <2> SUFFICES ASSUME TypeOK, DeliveryInv, CountInv, [Next]_vars PROVE CountInv'
    OBVIOUS
  <2>1. ASSUME UNCHANGED <<executions, started>> PROVE CountInv'
    BY <2>1 DEF CountInv
  <2>2. ASSUME NEW w \in Workers, NEW m \in Messages, BeginExecuting(w, m) PROVE CountInv'
    <3>1. item[w][m] = "waiting"
      BY <2>2 DEF BeginExecuting, Move
    <3>2. receipt[w][m] \notin started[m]
      BY <3>1 DEF DeliveryInv, DeliveryOf
    <3>3. /\ IsFiniteSet(started[m] \cup {receipt[w][m]})
          /\ Cardinality(started[m] \cup {receipt[w][m]}) = Cardinality(started[m]) + 1
      BY <3>2, FS_AddElement DEF CountInv
    <3>4. /\ started' = [started EXCEPT ![m] = started[m] \cup {receipt[w][m]}]
          /\ executions' = [executions EXCEPT ![m] = executions[m] + 1]
      BY <2>2 DEF BeginExecuting
    <3> QED BY <3>3, <3>4 DEF CountInv, TypeOK
  <2>3. ASSUME NEW w \in Workers, NEW m \in Messages, ExecuteWork(w, m) PROVE CountInv'
    BY <2>1, <2>2, <2>3
       DEF ExecuteWork, OnExecutingReturns, OnExecutingThrows, BeginPoisoning,
           PlaceMessageOnPoisonQueue, PlaceMessageFails, Completed, historyVars
  <2>4. CASE Queue
    BY <2>1, <2>4 DEF Queue, AddMessage, VisibilityExpires, historyVars
  <2>5. ASSUME NEW w \in Workers,
               \/ LoopCheck(w) \/ FindNothing(w) \/ PollFaults(w) \/ EndForAll(w)
               \/ Cancel(w) \/ Crash(w) \/ Restart(w)
               \/ \E S \in SUBSET Messages : TryGetWork(w, S) \/ LoseAnswer(w, S)
        PROVE  CountInv'
    BY <2>1, <2>5 DEF LoopCheck, FindNothing, PollFaults, EndForAll, Cancel, Crash, Restart,
                      TryGetWork, LoseAnswer, historyVars
  <2>6. CASE UNCHANGED vars
    BY <2>1, <2>6 DEF vars, historyVars
  <2> QED BY <2>3, <2>4, <2>5, <2>6 DEF Next, Loop
<1> QED BY <1>1, <1>2, TypeCorrect, Deliveries, PTL DEF Spec

\* OnExecuting is called at most maxAttempts times for a message, however many
\* workers have a delivery of it in hand: there are only that many deliveries
\* it is called for, and it is called once for each.
THEOREM AttemptsBounded == Spec => []AtMostMaxAttempts
<1>1. TypeOK /\ DeliveryInv /\ CountInv => AtMostMaxAttempts
  <2> SUFFICES ASSUME TypeOK, DeliveryInv, CountInv, NEW m \in Messages
               PROVE  executions[m] <= MaxAttempts
    BY DEF AtMostMaxAttempts
  <2>1. started[m] \subseteq 1..MaxAttempts
    BY ConstantsType DEF TypeOK, DeliveryInv
  <2>2. IsFiniteSet(1..MaxAttempts) /\ Cardinality(1..MaxAttempts) = MaxAttempts
    BY FS_Interval, ConstantsType
  <2>3. Cardinality(started[m]) <= Cardinality(1..MaxAttempts)
    BY <2>1, <2>2, FS_Subset
  <2> QED BY <2>2, <2>3 DEF CountInv
<1> QED BY <1>1, TypeCorrect, Deliveries, ExecutionsCounted, PTL
-----------------------------------------------------------------------------
\* A delivery counts as finished only once its message was processed or parked.
HandledInv == \A m \in Messages : finished[m] # {} => processed[m] \/ poison[m] > 0

LEMMA FinishedIsHandled == Spec => []HandledInv
<1>1. Init => HandledInv
  BY DEF Init, HandledInv
<1>2. TypeOK /\ HandledInv /\ [Next]_vars => HandledInv'
  <2> SUFFICES ASSUME TypeOK, HandledInv, [Next]_vars PROVE HandledInv'
    OBVIOUS
  <2> USE DEF queueVars, historyVars
  <2>1. ASSUME UNCHANGED <<poison, processed, finished>> PROVE HandledInv'
    BY <2>1 DEF HandledInv
  <2>2. ASSUME NEW w \in Workers, NEW m \in Messages, OnExecutingReturns(w, m) PROVE HandledInv'
    BY <2>2 DEF OnExecutingReturns, Finish, HandledInv, TypeOK
  <2>3. ASSUME NEW w \in Workers, NEW m \in Messages, PlaceMessageOnPoisonQueue(w, m)
        PROVE  HandledInv'
    <3>1. poison'[m] > 0 /\ \A n \in Messages : n # m => poison'[n] = poison[n]
      BY <2>3 DEF PlaceMessageOnPoisonQueue, TypeOK
    <3>2. \A n \in Messages : n # m => finished'[n] = finished[n]
      BY <2>3 DEF PlaceMessageOnPoisonQueue, Finish, TypeOK
    <3> QED BY <2>3, <3>1, <3>2 DEF PlaceMessageOnPoisonQueue, HandledInv
  <2>4. ASSUME NEW w \in Workers, NEW m \in Messages, PlaceMessageFails(w, m) PROVE HandledInv'
    <3>1. \A n \in Messages : poison[n] > 0 => poison'[n] > 0
      BY <2>4 DEF PlaceMessageFails, TypeOK
    <3> QED BY <2>4, <3>1 DEF PlaceMessageFails, HandledInv
  <2>5. ASSUME NEW w \in Workers, NEW m \in Messages, ExecuteWork(w, m) PROVE HandledInv'
    BY <2>1, <2>2, <2>3, <2>4, <2>5
       DEF ExecuteWork, BeginExecuting, OnExecutingThrows, BeginPoisoning, Completed
  <2>6. CASE Queue
    BY <2>1, <2>6 DEF Queue, AddMessage, VisibilityExpires
  <2>7. ASSUME NEW w \in Workers,
               \/ LoopCheck(w) \/ FindNothing(w) \/ PollFaults(w) \/ EndForAll(w)
               \/ Cancel(w) \/ Crash(w) \/ Restart(w)
               \/ \E S \in SUBSET Messages : TryGetWork(w, S) \/ LoseAnswer(w, S)
        PROVE  HandledInv'
    BY <2>1, <2>7 DEF LoopCheck, FindNothing, PollFaults, EndForAll, Cancel, Crash, Restart,
                      TryGetWork, LoseAnswer
  <2>8. CASE UNCHANGED vars
    BY <2>1, <2>8 DEF vars
  <2> QED BY <2>5, <2>6, <2>7, <2>8 DEF Next, Loop
<1> QED BY <1>1, <1>2, TypeCorrect, PTL DEF Spec

\* A step that moves no message in or out of the queue and neither processes
\* nor parks one is a stutter of AtLeastOnce.
LEMMA SenderSeesNothing ==
  ASSUME \A m \in Messages : Life(m)' = Life(m), UNCHANGED <<poison, processed>>
  PROVE  UNCHANGED A!vars
  BY DEF A!vars

\* A step of one item is a step of AtLeastOnce or a stutter.
LEMMA WorkRefines ==
  ASSUME TypeOK, DeliveryInv, HandledInv, NEW w \in Workers, NEW m \in Messages, ExecuteWork(w, m)
  PROVE  A!Next \/ UNCHANGED A!vars
<1> DEFINE life   == [n \in Messages |-> Life(n)]
           parked == [n \in Messages |-> poison[n] > 0]
<1> USE DEF Life, queueVars, historyVars
<1>1. state[m] # "unsent"
  <2>1. item[w][m] # "absent"
    BY DEF ExecuteWork, BeginExecuting, BeginPoisoning, OnExecutingReturns, OnExecutingThrows,
           PlaceMessageOnPoisonQueue, PlaceMessageFails, Completed, Move
  <2> QED BY <2>1 DEF DeliveryInv, DeliveryOf, TypeOK
<1>2. CASE BeginExecuting(w, m) \/ BeginPoisoning(w, m) \/ OnExecutingThrows(w, m)
  BY <1>2, SenderSeesNothing DEF BeginExecuting, BeginPoisoning, OnExecutingThrows
<1>3. CASE OnExecutingReturns(w, m)
  <2>1. A!Process(m)
    BY <1>1, <1>3 DEF OnExecutingReturns, A!Process
  <2> QED BY <2>1 DEF A!Next
<1>4. ASSUME poison'[m] > 0, \A n \in Messages : n # m => poison'[n] = poison[n],
             UNCHANGED <<state, processed>>
      PROVE  A!Next
  <2>1. parked' = [parked EXCEPT ![m] = TRUE]
    BY <1>4
  <2>2. life' = life
    BY <1>4
  <2>3. A!Park(m)
    BY <1>1, <1>4, <2>1, <2>2 DEF A!Park
  <2> QED BY <2>3 DEF A!Next
<1>5. CASE PlaceMessageOnPoisonQueue(w, m)
  <2>1. poison'[m] > 0 /\ \A n \in Messages : n # m => poison'[n] = poison[n]
    BY <1>5 DEF PlaceMessageOnPoisonQueue, TypeOK
  <2> QED BY <1>4, <1>5, <2>1 DEF PlaceMessageOnPoisonQueue
<1>6. CASE PlaceMessageFails(w, m)
  <2>1. CASE poison' = poison
    BY <1>6, <2>1, SenderSeesNothing DEF PlaceMessageFails
  <2>2. CASE poison' = [poison EXCEPT ![m] = @ + 1]
    BY <1>4, <1>6, <2>2 DEF PlaceMessageFails, TypeOK
  <2> QED BY <1>6, <2>1, <2>2 DEF PlaceMessageFails
<1>7. CASE Completed(w, m)
  <2>1. CASE state' = state
    BY <1>7, <2>1, SenderSeesNothing DEF Completed
  <2>2. CASE /\ state[m] \in {"visible", "hidden"}
             /\ state' = [state EXCEPT ![m] = "deleted"]
    <3>1. processed[m] \/ poison[m] > 0
      BY <1>7 DEF Completed, Move, DeliveryInv, DeliveryOf, HandledInv
    <3>2. life' = [life EXCEPT ![m] = "gone"]
      BY <2>2 DEF TypeOK
    <3>3. A!Remove(m)
      BY <1>7, <2>2, <3>1, <3>2 DEF Completed, A!Remove
    <3> QED BY <3>3 DEF A!Next
  <2> QED BY <1>7, <2>1, <2>2 DEF Completed, DeleteMessage, ReceiptValid
<1> QED BY <1>2, <1>3, <1>5, <1>6, <1>7 DEF ExecuteWork

\* QueueWorkers on a queue implement AtLeastOnce: a sender can count on it
\* that its message goes away only after it was processed or parked, whatever
\* fails, expires, crashes or is delivered again.
THEOREM ImplementsTheQueue == Spec => ImplementsAtLeastOnce
<1>1. Init => A!Init
  <2> SUFFICES ASSUME Init PROVE A!Init
    OBVIOUS
  <2>1. \A m \in Messages : Life(m) = "unsent" /\ (poison[m] > 0) = FALSE
    BY DEF Init, Life
  <2> QED BY <2>1 DEF Init, A!Init
<1>2. TypeOK /\ DeliveryInv /\ HandledInv /\ [Next]_vars => [A!Next]_(A!vars)
  <2> SUFFICES ASSUME TypeOK, DeliveryInv, HandledInv, [Next]_vars
               PROVE  A!Next \/ UNCHANGED A!vars
    OBVIOUS
  <2> USE DEF queueVars, historyVars
  <2>1. ASSUME NEW m \in Messages, AddMessage(m) PROVE A!Next
    <3>1. A!Send(m)
      BY <2>1 DEF AddMessage, A!Send, Life, TypeOK
    <3> QED BY <3>1 DEF A!Next
  <2>2. ASSUME NEW m \in Messages, VisibilityExpires(m) PROVE UNCHANGED A!vars
    BY <2>2, SenderSeesNothing DEF VisibilityExpires, Life, TypeOK
  <2>3. ASSUME NEW w \in Workers, LoopCheck(w) \/ FindNothing(w) \/ PollFaults(w) \/ EndForAll(w)
                                  \/ Cancel(w) \/ Crash(w) \/ Restart(w)
        PROVE  UNCHANGED A!vars
    BY <2>3, SenderSeesNothing
       DEF LoopCheck, FindNothing, PollFaults, EndForAll, Cancel, Crash, Restart, Life
  <2>4. ASSUME NEW w \in Workers, NEW S \in SUBSET Messages, TryGetWork(w, S) \/ LoseAnswer(w, S)
        PROVE  UNCHANGED A!vars
    <3>1. Deliver(S) /\ UNCHANGED <<poison, processed>>
      BY <2>4 DEF TryGetWork, LoseAnswer
    <3>2. \A m \in Messages : Life(m)' = Life(m)
      BY <3>1, DeliveryCounted DEF Life
    <3> QED BY <3>1, <3>2, SenderSeesNothing
  <2>5. ASSUME NEW w \in Workers, NEW m \in Messages, ExecuteWork(w, m)
        PROVE  A!Next \/ UNCHANGED A!vars
    BY <2>5, WorkRefines
  <2>6. CASE UNCHANGED vars
    BY <2>6, SenderSeesNothing DEF vars, Life
  <2> QED BY <2>1, <2>2, <2>3, <2>4, <2>5, <2>6 DEF Next, Queue, Loop
<1> QED BY <1>1, <1>2, TypeCorrect, Deliveries, FinishedIsHandled, PTL
        DEF Spec, ImplementsAtLeastOnce, A!Spec
-----------------------------------------------------------------------------
\* What w has in hand it has by the present delivery, and the message stays
\* hidden until w deletes it.
HoldsHidden(w, m) ==
  /\ receipt[w][m] = dequeueCount[m]
  /\ state[m] = "hidden" \/ (item[w][m] = "executed" /\ state[m] = "deleted")

\* The attempts decide between executing and poisoning, and copies beyond the
\* failures are those whose delete is still to come or has succeeded.
ExclusiveInv ==
  \A m \in Messages :
    /\ \A w \in Workers : item[w][m] \in InHand => HoldsHidden(w, m)
    /\ \A w \in Workers : item[w][m] = "executing" => receipt[w][m] <= MaxAttempts
    /\ \A w \in Workers : item[w][m] \in {"poisoning", "poisoned"} => receipt[w][m] > MaxAttempts
    /\ poison[m] > 0 => dequeueCount[m] > MaxAttempts
    /\ poison[m] <= 1 + faults
    /\ poison[m] > faults => \/ state[m] = "deleted"
                             \/ \E w \in Workers : item[w][m] = "poisoned"

\* Two workers cannot both have a message in hand: both would hold the present
\* delivery, and every delivery went to one worker.
LEMMA OneHolder ==
  ASSUME DeliveryInv, ExclusiveInv, NEW m \in Messages,
         NEW v \in Workers, NEW w \in Workers, item[v][m] \in InHand, item[w][m] \in InHand
  PROVE  v = w
<1>1. receipt[v][m] = receipt[w][m] /\ item[v][m] # "absent" /\ item[w][m] # "absent"
  BY DEF ExclusiveInv, HoldsHidden, InHand
<1> QED BY <1>1 DEF DeliveryInv, DeliveryOf

\* A message that can be delivered, or expires, is in nobody's hands.
LEMMA ExpiryIsQuiet ==
  ASSUME ExclusiveInv, NEW m \in Messages,
         state[m] = "visible" \/ \A w \in Workers : ~Holds(w, m)
  PROVE  \A w \in Workers : item[w][m] \notin InHand
  BY DEF ExclusiveInv, HoldsHidden, Holds

\* The invariant survives a step that only drops items and may spend a fault.
LEMMA ItemsDropped ==
  ASSUME TypeOK, ExclusiveInv, faults' \in Nat, faults <= faults',
         UNCHANGED queueVars,
         \A w \in Workers : \/ item'[w] = item[w] /\ receipt'[w] = receipt[w]
                            \/ /\ item'[w] = NoItems
                               /\ \/ \A m \in Messages : item[w][m] # "poisoned"
                                  \/ faults' = faults + 1
  PROVE  ExclusiveInv'
<1> USE DEF TypeOK, queueVars
<1>1. \A m \in Messages : NoItems[m] = "absent"
  BY DEF NoItems, Batch
<1>2. ASSUME NEW m \in Messages, NEW w \in Workers, item'[w][m] # "absent"
      PROVE  item'[w][m] = item[w][m] /\ receipt'[w][m] = receipt[w][m]
  BY <1>1, <1>2
<1>3. ASSUME NEW m \in Messages, poison'[m] > faults'
      PROVE  state'[m] = "deleted" \/ \E w \in Workers : item'[w][m] = "poisoned"
  <2>1. poison[m] > faults /\ faults' # faults + 1
    BY <1>3, ConstantsType DEF ExclusiveInv
  <2>2. state[m] = "deleted" \/ \E w \in Workers : item[w][m] = "poisoned"
    BY <2>1 DEF ExclusiveInv
  <2> QED BY <2>1, <2>2
<1>4. ASSUME NEW m \in Messages PROVE poison'[m] <= 1 + faults'
  BY ConstantsType DEF ExclusiveInv
<1>5. ASSUME NEW m \in Messages, NEW w \in Workers
      PROVE  /\ item'[w][m] \in InHand => HoldsHidden(w, m)'
             /\ item'[w][m] = "executing" => receipt'[w][m] <= MaxAttempts
             /\ item'[w][m] \in {"poisoning", "poisoned"} => receipt'[w][m] > MaxAttempts
  BY <1>2 DEF ExclusiveInv, HoldsHidden, InHand
<1>6. \A m \in Messages : poison'[m] > 0 => dequeueCount'[m] > MaxAttempts
  BY DEF ExclusiveInv
<1> QED BY <1>3, <1>4, <1>5, <1>6 DEF ExclusiveInv

\* The invariant survives a delivery, with or without its answer: what is
\* delivered was visible, so nobody has it in hand.
LEMMA DeliveryKeepsExclusion ==
  ASSUME TypeOK, DeliveryInv, ExclusiveInv, NEW w \in Workers, NEW S \in SUBSET Messages,
         TryGetWork(w, S) \/ LoseAnswer(w, S)
  PROVE  ExclusiveInv'
<1> USE DEF TypeOK
<1>1. Deliver(S) /\ UNCHANGED poison /\ faults' \in Nat /\ faults <= faults'
  BY DEF TryGetWork, LoseAnswer, Fault
<1>2. ASSUME NEW m \in Messages, NEW v \in Workers, item'[v][m] \in InHand
      PROVE  \/ /\ m \notin S /\ item'[v][m] = item[v][m] /\ receipt'[v][m] = receipt[v][m]
             \/ m \in S /\ item'[v][m] = "waiting" /\ receipt'[v][m] = dequeueCount'[m]
  <2>1. CASE item'[v] = item[v] /\ receipt'[v] = receipt[v]
    <3>1. m \notin S
      BY <1>1, <1>2, <2>1, ExpiryIsQuiet, DeliveryCounted
    <3> QED BY <2>1, <3>1
  <2>2. CASE TryGetWork(w, S) /\ v = w
    <3>1. item'[w] = Batch(S)
          /\ receipt'[w] = [n \in Messages |-> IF n \in S THEN dequeueCount'[n] ELSE 0]
      BY <2>2 DEF TryGetWork
    <3> QED BY <1>2, <2>2, <3>1 DEF Batch, InHand
  <2> QED BY <2>1, <2>2 DEF TryGetWork, LoseAnswer, itemVars
<1>3. ASSUME NEW m \in Messages, NEW v \in Workers, item'[v][m] \in InHand
      PROVE  /\ HoldsHidden(v, m)'
             /\ item'[v][m] = "executing" => receipt'[v][m] <= MaxAttempts
             /\ item'[v][m] \in {"poisoning", "poisoned"} => receipt'[v][m] > MaxAttempts
  BY <1>1, <1>2, <1>3, DeliveryCounted DEF ExclusiveInv, HoldsHidden, InHand
<1>4. ASSUME NEW m \in Messages
      PROVE  /\ poison'[m] > 0 => dequeueCount'[m] > MaxAttempts
             /\ poison'[m] <= 1 + faults'
  <2>1. dequeueCount[m] <= dequeueCount'[m] /\ dequeueCount'[m] \in Nat
    <3>1. CASE m \in S
      BY <1>1, <3>1, ConstantsType, DeliveryCounted
    <3>2. CASE m \notin S
      BY <1>1, <3>2, ConstantsType, DeliveryCounted
    <3> QED BY <3>1, <3>2
  <2>2. poison[m] > 0 => dequeueCount[m] > MaxAttempts
    BY DEF ExclusiveInv
  <2>3. poison[m] <= 1 + faults
    BY DEF ExclusiveInv
  <2> QED BY <1>1, <2>1, <2>2, <2>3, ConstantsType
<1>5. ASSUME NEW m \in Messages, poison'[m] > faults'
      PROVE  state'[m] = "deleted" \/ \E v \in Workers : item'[v][m] = "poisoned"
  <2>1. poison[m] > faults
    BY <1>1, <1>5, ConstantsType
  <2>2. CASE state[m] = "deleted"
    BY <1>1, <2>2, DeliveryCounted
  <2>3. ASSUME NEW v \in Workers, item[v][m] = "poisoned"
        PROVE  item'[v][m] = "poisoned"
    <3>1. TryGetWork(w, S) => v # w
      BY <2>3 DEF TryGetWork, DeliveryInv, DeliveryOf
    <3> QED BY <2>3, <3>1 DEF TryGetWork, LoseAnswer, itemVars
  <2> QED BY <2>1, <2>2, <2>3 DEF ExclusiveInv
<1> QED BY <1>3, <1>4, <1>5 DEF ExclusiveInv, InHand

\* The invariant survives a step of one item after which it is still in the
\* hands of w, or done with; a copy is added only on the way to "poisoned".
LEMMA ItemKeepsExclusion ==
  ASSUME TypeOK, DeliveryInv, ExclusiveInv, NEW w \in Workers, NEW m \in Messages,
         NEW to \in ItemStates \ {"absent", "waiting"},
         item[w][m] \in InHand, item' = [item EXCEPT ![w][m] = to],
         UNCHANGED <<receipt, dequeueCount>>,
         faults' \in Nat, faults <= faults',
         \A n \in Messages : n # m => poison'[n] = poison[n],
         poison'[m] \in Nat,
         \/ state' = state
         \/ state' = [state EXCEPT ![m] = "deleted"] /\ to \in {"executed", "done"},
         to = "executing" => receipt[w][m] <= MaxAttempts,
         to \in {"poisoning", "poisoned"} => receipt[w][m] > MaxAttempts,
         poison'[m] > 0 => dequeueCount[m] > MaxAttempts,
         poison'[m] <= 1 + faults',
         poison'[m] > faults' => \/ state'[m] = "deleted"
                                 \/ \E v \in Workers : item'[v][m] = "poisoned",
         state[m] = "deleted" => to \in {"executed", "done", "threw"}
  PROVE  ExclusiveInv'
<1> USE DEF TypeOK
<1>1. /\ item'[w][m] = to
      /\ \A v \in Workers, n \in Messages : v # w \/ n # m => item'[v][n] = item[v][n]
  OBVIOUS
<1>2. \A n \in Messages : n # m => state'[n] = state[n]
  OBVIOUS
<1>3. \A v \in Workers : item[v][m] \in InHand => v = w
  BY OneHolder
<1>4. ASSUME NEW n \in Messages, NEW v \in Workers, item'[v][n] \in InHand
      PROVE  HoldsHidden(v, n)'
  <2>1. CASE n # m
    BY <1>1, <1>2, <1>4, <2>1 DEF ExclusiveInv, HoldsHidden
  <2>2. CASE n = m
    <3>1. v = w
      BY <1>1, <1>3, <1>4, <2>2
    <3>2. receipt[w][m] = dequeueCount[m] /\ state[m] \in {"hidden", "deleted"}
      BY DEF ExclusiveInv, HoldsHidden
    <3> QED BY <1>1, <1>4, <2>2, <3>1, <3>2 DEF HoldsHidden, InHand
  <2> QED BY <2>1, <2>2
<1>5. ASSUME NEW n \in Messages, NEW v \in Workers
      PROVE  /\ item'[v][n] = "executing" => receipt'[v][n] <= MaxAttempts
             /\ item'[v][n] \in {"poisoning", "poisoned"} => receipt'[v][n] > MaxAttempts
  BY <1>1 DEF ExclusiveInv
<1>6. ASSUME NEW n \in Messages
      PROVE  /\ poison'[n] > 0 => dequeueCount'[n] > MaxAttempts
             /\ poison'[n] <= 1 + faults'
  <2>1. CASE n = m
    BY <2>1
  <2>2. CASE n # m
    BY <2>2, ConstantsType DEF ExclusiveInv
  <2> QED BY <2>1, <2>2
<1>7. ASSUME NEW n \in Messages, poison'[n] > faults'
      PROVE  state'[n] = "deleted" \/ \E v \in Workers : item'[v][n] = "poisoned"
  <2>1. CASE n = m
    BY <1>7, <2>1
  <2>2. CASE n # m
    <3>1. poison[n] > faults
      BY <1>7, <2>2, ConstantsType
    <3> QED BY <1>1, <1>2, <2>2, <3>1 DEF ExclusiveInv
  <2> QED BY <2>1, <2>2
<1> QED BY <1>4, <1>5, <1>6, <1>7 DEF ExclusiveInv

\* The invariant survives every step of ExecuteWork.
LEMMA WorkKeepsExclusion ==
  ASSUME TypeOK, DeliveryInv, ExclusiveInv, NEW w \in Workers, NEW m \in Messages, ExecuteWork(w, m)
  PROVE  ExclusiveInv'
<1> USE DEF TypeOK, queueVars, historyVars
<1>1. /\ poison[m] <= 1 + faults
      /\ poison[m] > 0 => dequeueCount[m] > MaxAttempts
      /\ poison[m] > faults => \/ state[m] = "deleted"
                               \/ \E v \in Workers : item[v][m] = "poisoned"
      /\ item[w][m] \in InHand => HoldsHidden(w, m)
      /\ item[w][m] \in {"poisoning", "poisoned"} => receipt[w][m] > MaxAttempts
  BY DEF ExclusiveInv
<1>2. item[w][m] \in InHand
  BY DEF ExecuteWork, BeginExecuting, BeginPoisoning, OnExecutingReturns, OnExecutingThrows,
         PlaceMessageOnPoisonQueue, PlaceMessageFails, Completed, Move, InHand
<1>3. \A v \in Workers : item[v][m] \in InHand => v = w
  BY <1>2, OneHolder
<1>4. faults \in Nat /\ (Fault => faults' = faults + 1) /\ dequeueCount[m] \in Nat
      /\ receipt[w][m] \in Nat /\ poison[m] \in Nat
  BY ConstantsType DEF Fault
\* Without a copy and without a fault, only w leaving "poisoned" matters.
<1>5. ASSUME NEW to \in {"executing", "poisoning", "executed", "threw"},
             item[w][m] \in {"waiting", "executing"}, item' = [item EXCEPT ![w][m] = to],
             UNCHANGED <<receipt, queueVars, faults>>,
             to = "executing" => receipt[w][m] <= MaxAttempts,
             to = "poisoning" => receipt[w][m] > MaxAttempts
      PROVE  ExclusiveInv'
  <2>1. state[m] = "hidden"
    BY <1>1, <1>2, <1>5 DEF HoldsHidden
  <2>2. ~(poison[m] > faults)
    BY <1>1, <1>3, <1>5, <2>1 DEF InHand
  <2>3. to \in ItemStates \ {"absent", "waiting"}
    BY DEF ItemStates, InHand
  <2>4. to # "poisoned" /\ state[m] # "deleted"
    BY <2>1
  <2>5. state' = state /\ UNCHANGED <<receipt, dequeueCount>>
    BY <1>5
  <2>6. /\ faults' \in Nat /\ faults <= faults'
        /\ poison'[m] \in Nat /\ poison'[m] <= 1 + faults' /\ ~(poison'[m] > faults')
        /\ (poison'[m] > 0 => dequeueCount[m] > MaxAttempts)
        /\ \A n \in Messages : n # m => poison'[n] = poison[n]
    BY <1>1, <1>4, <1>5, <2>2
  <2>7. /\ item' = [item EXCEPT ![w][m] = to]
        /\ to = "executing" => receipt[w][m] <= MaxAttempts
        /\ to \in {"poisoning", "poisoned"} => receipt[w][m] > MaxAttempts
    BY <1>5, <2>4
  <2> QED BY <1>2, <2>3, <2>4, <2>5, <2>6, <2>7, ItemKeepsExclusion
<1>6. CASE BeginExecuting(w, m)
  BY <1>5, <1>6 DEF BeginExecuting, AttemptsLeft, Move
<1>7. CASE BeginPoisoning(w, m)
  <2>1. receipt[w][m] > MaxAttempts
    BY <1>4, <1>7, ConstantsType DEF BeginPoisoning, AttemptsLeft
  <2> QED BY <1>5, <1>7, <2>1 DEF BeginPoisoning, Move
<1>8. CASE OnExecutingReturns(w, m) \/ OnExecutingThrows(w, m)
  BY <1>5, <1>8 DEF OnExecutingReturns, OnExecutingThrows, Abandoned, Move
<1>9. CASE PlaceMessageOnPoisonQueue(w, m) \/ PlaceMessageFails(w, m)
  <2>1. /\ item[w][m] = "poisoning" /\ UNCHANGED <<receipt, state, dequeueCount>>
        /\ \A n \in Messages : n # m => poison'[n] = poison[n]
    BY <1>9 DEF PlaceMessageOnPoisonQueue, PlaceMessageFails, Move
  <2>2. state[m] = "hidden" /\ dequeueCount[m] > MaxAttempts
    BY <1>1, <1>2, <2>1 DEF HoldsHidden
  <2>3. poison[m] <= faults
    BY <1>1, <1>3, <1>4, <2>1, <2>2 DEF InHand
  <2>4. PICK to \in {"poisoned", "threw"} :
             /\ item' = [item EXCEPT ![w][m] = to]
             /\ poison'[m] \in Nat /\ poison'[m] <= 1 + faults'
             /\ faults' \in Nat /\ faults <= faults'
             /\ to = "threw" => poison'[m] <= faults'
    <3>1. CASE PlaceMessageOnPoisonQueue(w, m)
      <4>1. CASE poison' = [poison EXCEPT ![m] = @ + 1] /\ UNCHANGED faults
        BY <1>4, <2>3, <3>1, <4>1 DEF PlaceMessageOnPoisonQueue, AfterPoison, Move
      <4>2. CASE poison' = [poison EXCEPT ![m] = @ + 2] /\ Fault
        BY <1>4, <2>3, <3>1, <4>2 DEF PlaceMessageOnPoisonQueue, AfterPoison, Move
      <4> QED BY <3>1, <4>1, <4>2 DEF PlaceMessageOnPoisonQueue
    <3>2. CASE PlaceMessageFails(w, m)
      <4>1. poison'[m] \in {poison[m], poison[m] + 1} /\ faults' = faults + 1
        BY <1>4, <3>2 DEF PlaceMessageFails
      <4> QED BY <1>4, <2>3, <3>2, <4>1 DEF PlaceMessageFails, Move
    <3> QED BY <1>9, <3>1, <3>2
  <2>5. poison'[m] > faults' => item'[w][m] = "poisoned"
    BY <2>4
  <2>6. to \in ItemStates \ {"absent", "waiting"}
    BY DEF ItemStates, InHand
  <2> QED BY <1>1, <1>2, <2>1, <2>2, <2>4, <2>5, <2>6, ItemKeepsExclusion
<1>10. CASE Completed(w, m)
  <2>1. PICK to \in {"executed", "done"} :
             /\ item' = [item EXCEPT ![w][m] = to]
             /\ item[w][m] = IF to = "executed" THEN "poisoned" ELSE "executed"
    BY <1>10 DEF Completed, Move
  <2>2. UNCHANGED <<receipt, dequeueCount, poison>> /\ faults' \in Nat /\ faults <= faults'
    BY <1>4, <1>10 DEF Completed, Move, DeleteMessage
  <2>3. state' = state \/ state' = [state EXCEPT ![m] = "deleted"]
    BY <1>10 DEF Completed, DeleteMessage
  <2>4. poison'[m] > faults' => state'[m] = "deleted"
    <3>1. CASE Fault
      BY <1>1, <1>4, <2>2, <3>1
    <3>2. CASE ReceiptValid(m, receipt[w][m]) /\ state' = [state EXCEPT ![m] = "deleted"]
      BY <3>2
    <3>3. CASE ~ReceiptValid(m, receipt[w][m]) /\ UNCHANGED <<state, faults>>
      BY <1>1, <1>2, <3>3 DEF ReceiptValid, HoldsHidden
    <3> QED BY <1>10, <3>1, <3>2, <3>3 DEF Completed, DeleteMessage
  <2>5. to \in ItemStates \ {"absent", "waiting"}
    BY DEF ItemStates, InHand
  <2>6. poison'[m] \in Nat /\ poison'[m] <= 1 + faults'
        /\ (poison'[m] > 0 => dequeueCount[m] > MaxAttempts)
    BY <1>1, <1>4, <2>2
  <2>7. \A n \in Messages : n # m => poison'[n] = poison[n]
    BY <2>2
  <2> QED BY <1>2, <2>1, <2>2, <2>3, <2>4, <2>5, <2>6, <2>7, ItemKeepsExclusion
<1> QED BY <1>6, <1>7, <1>8, <1>9, <1>10 DEF ExecuteWork

LEMMA Exclusion == Spec => [](VisibilityOutlastsBatch => ExclusiveInv)
<1> DEFINE Inv == VisibilityOutlastsBatch => ExclusiveInv
<1>1. Init => Inv
  BY ConstantsType DEF Init, ExclusiveInv, NoItems, Batch, InHand
<1>2. TypeOK /\ DeliveryInv /\ Inv /\ [Next]_vars => Inv'
  <2> SUFFICES ASSUME TypeOK, DeliveryInv, ExclusiveInv, VisibilityOutlastsBatch, [Next]_vars
               PROVE  ExclusiveInv'
    OBVIOUS
  <2> USE DEF queueVars, loopVars, itemVars, historyVars
  <2>1. faults \in Nat /\ faults + 1 \in Nat /\ faults <= faults + 1 /\ faults <= faults
    BY ConstantsType DEF TypeOK
  <2>2. ASSUME NEW m \in Messages, AddMessage(m) \/ VisibilityExpires(m) PROVE ExclusiveInv'
    <3>1. \A w \in Workers : item[w][m] \notin InHand
      BY <2>2, ExpiryIsQuiet DEF AddMessage, VisibilityExpires, ExclusiveInv, HoldsHidden
    <3>2. \A n \in Messages : n # m => state'[n] = state[n]
      BY <2>2 DEF AddMessage, VisibilityExpires, TypeOK
    <3>3. /\ state[m] # "deleted"
          /\ UNCHANGED <<item, receipt, dequeueCount, poison, faults>>
      BY <2>2 DEF AddMessage, VisibilityExpires
    <3> QED BY <3>1, <3>2, <3>3 DEF ExclusiveInv, HoldsHidden
  <2>3. ASSUME NEW w \in Workers,
               \/ LoopCheck(w) \/ FindNothing(w) \/ PollFaults(w)
               \/ Cancel(w) \/ Restart(w)
        PROVE  ExclusiveInv'
    <3>1. UNCHANGED <<queueVars, item, receipt>> /\ faults' \in {faults, faults + 1}
      BY <2>3 DEF LoopCheck, FindNothing, PollFaults, Cancel, Restart, Fault
    <3> QED BY <2>1, <3>1, ItemsDropped
  <2>4. ASSUME NEW w \in Workers, EndForAll(w) PROVE ExclusiveInv'
    <3>1. \A m \in Messages : item[w][m] # "poisoned"
      BY <2>4 DEF EndForAll, InHand
    <3>2. item'[w] = NoItems /\ \A v \in Workers : v # w => item'[v] = item[v] /\ receipt'[v] = receipt[v]
      BY <2>4 DEF EndForAll, TypeOK
    <3> QED BY <2>1, <2>4, <3>1, <3>2, ItemsDropped DEF EndForAll
  <2>5. ASSUME NEW w \in Workers, Crash(w) PROVE ExclusiveInv'
    <3>1. item'[w] = NoItems /\ \A v \in Workers : v # w => item'[v] = item[v] /\ receipt'[v] = receipt[v]
      BY <2>5 DEF Crash, TypeOK
    <3> QED BY <2>1, <2>5, <3>1, ItemsDropped DEF Crash, Fault
  <2>6. ASSUME NEW w \in Workers, NEW S \in SUBSET Messages, TryGetWork(w, S) \/ LoseAnswer(w, S)
        PROVE  ExclusiveInv'
    BY <2>6, DeliveryKeepsExclusion
  <2>7. ASSUME NEW w \in Workers, NEW m \in Messages, ExecuteWork(w, m) PROVE ExclusiveInv'
    BY <2>7, WorkKeepsExclusion
  <2>8. CASE UNCHANGED vars
    BY <2>8 DEF vars, ExclusiveInv, HoldsHidden
  <2> QED BY <2>2, <2>3, <2>4, <2>5, <2>6, <2>7, <2>8 DEF Next, Queue, Loop
<1> QED BY <1>1, <1>2, TypeCorrect, Deliveries, PTL DEF Spec

\* When the visibility timeout outlasts every batch, a message that has a copy
\* on the poison queue is not being executed by any worker.
THEOREM PoisonedIsNotExecuted == Spec => []PoisonedIsQuiet
<1>1. TypeOK /\ (VisibilityOutlastsBatch => ExclusiveInv) => PoisonedIsQuiet
  <2> SUFFICES ASSUME TypeOK, ExclusiveInv, NEW m \in Messages, poison[m] > 0,
                      NEW w \in Workers, item[w][m] = "executing"
               PROVE  FALSE
    BY DEF PoisonedIsQuiet
  <2>1. receipt[w][m] <= MaxAttempts /\ receipt[w][m] = dequeueCount[m]
    BY DEF ExclusiveInv, HoldsHidden, InHand
  <2>2. dequeueCount[m] > MaxAttempts
    BY DEF ExclusiveInv
  <2> QED BY <2>1, <2>2, ConstantsType DEF TypeOK
<1> QED BY <1>1, TypeCorrect, Exclusion, PTL

\* With the same timeout, a message has no more copies on the poison queue
\* than one, and one for each failure or crash there has been.
THEOREM PoisonCopiesBounded == Spec => []PoisonCopiesAccountedFor
<1>1. (VisibilityOutlastsBatch => ExclusiveInv) => PoisonCopiesAccountedFor
  BY DEF ExclusiveInv, PoisonCopiesAccountedFor
<1> QED BY <1>1, Exclusion, PTL
-----------------------------------------------------------------------------
\* A worker has items only inside ForAll.
LoopInv == \A w \in Workers : pc[w] # "forAll" => item[w] = NoItems

LEMMA ItemsInsideForAll == Spec => []LoopInv
<1>1. Init => LoopInv
  BY DEF Init, LoopInv
<1>2. TypeOK /\ LoopInv /\ [Next]_vars => LoopInv'
  <2> SUFFICES ASSUME TypeOK, LoopInv, [Next]_vars PROVE LoopInv'
    OBVIOUS
  <2> USE DEF TypeOK, LoopInv
  <2>1. CASE Queue
    BY <2>1 DEF Queue, AddMessage, VisibilityExpires, loopVars, itemVars
  <2>2. ASSUME NEW w \in Workers, LoopCheck(w) \/ FindNothing(w) \/ PollFaults(w) \/ EndForAll(w) PROVE LoopInv'
    BY <2>2 DEF LoopCheck, FindNothing, PollFaults, EndForAll, AfterForAll, itemVars
  <2>3. ASSUME NEW w \in Workers, NEW S \in SUBSET Messages, TryGetWork(w, S) \/ LoseAnswer(w, S) PROVE LoopInv'
    BY <2>3 DEF TryGetWork, LoseAnswer, loopVars, itemVars
  <2>4. ASSUME NEW w \in Workers, NEW m \in Messages, ExecuteWork(w, m) PROVE LoopInv'
    <3>1. \E from, to : Move(w, m, from, to)
      BY <2>4 DEF ExecuteWork, BeginExecuting, BeginPoisoning, OnExecutingReturns, OnExecutingThrows,
                  PlaceMessageOnPoisonQueue, PlaceMessageFails, Completed
    <3> QED BY <3>1 DEF Move, loopVars
  <2>5. ASSUME NEW w \in Workers, Cancel(w) \/ Crash(w) \/ Restart(w) PROVE LoopInv'
    BY <2>5 DEF Cancel, Crash, Restart, itemVars
  <2>6. CASE UNCHANGED vars
    BY <2>6 DEF vars, loopVars, itemVars
  <2> QED BY <2>1, <2>2, <2>3, <2>4, <2>5, <2>6 DEF Next, Loop
<1> QED BY <1>1, <1>2, TypeCorrect, PTL DEF Spec

\* The items of the work loop of w.
Seen(w) == [m \in Messages |-> Progress(item[w][m])]

LEMMA SeenOfBatch == \A S \in SUBSET Messages : [m \in Messages |-> Progress(Batch(S)[m])] = Batch(S)
  BY DEF Batch, Progress

LEMMA SeenOfNoItems == [m \in Messages |-> Progress(NoItems[m])] = NoItems
  BY SeenOfBatch DEF NoItems

\* A step that leaves the loop of w alone is a stutter of its work loop.
LEMMA OtherLoops ==
  ASSUME NEW w \in Workers, pc'[w] = pc[w], item'[w] = item[w]
  PROVE  UNCHANGED W(w)!vars
  BY DEF W!vars, Phase

\* An item that moves on moves on in the work loop, or stays: on the way to
\* the poison queue only the first and the last step are seen.
LEMMA ItemOfLoop ==
  ASSUME TypeOK, NEW w \in Workers, NEW m \in Messages, ExecuteWork(w, m)
  PROVE  W(w)!Next \/ UNCHANGED W(w)!vars
<1>1. \E from, to : /\ Move(w, m, from, to)
                   /\ \/ <<Progress(from), Progress(to)>> \in W(w)!ItemSteps
                      \/ Progress(from) = Progress(to)
  BY DEF ExecuteWork, BeginExecuting, BeginPoisoning, OnExecutingReturns, OnExecutingThrows, Abandoned,
         PlaceMessageOnPoisonQueue, AfterPoison, PlaceMessageFails, Completed, W!ItemSteps, Progress
<1>2. PICK from, to : /\ Move(w, m, from, to)
                      /\ \/ <<Progress(from), Progress(to)>> \in W(w)!ItemSteps
                         \/ Progress(from) = Progress(to)
  BY <1>1
<1>3. /\ item[w][m] = from /\ item'[w] = [item[w] EXCEPT ![m] = to]
      /\ pc[w] = "forAll" /\ pc' = pc
  BY <1>2 DEF Move, TypeOK, loopVars
<1>4. Seen(w)' = [Seen(w) EXCEPT ![m] = Progress(to)] /\ Seen(w)[m] = Progress(from)
  BY <1>3 DEF Seen, TypeOK
<1>5. Phase(w) = "working" /\ Phase(w)' = Phase(w)
  BY <1>3 DEF Phase
<1>6. CASE <<Progress(from), Progress(to)>> \in W(w)!ItemSteps
  <2>1. W(w)!Work(m)
    BY <1>4, <1>5, <1>6 DEF W!Work, Seen
  <2> QED BY <2>1 DEF W!Next
<1>7. CASE Progress(from) = Progress(to)
  <2>1. Seen(w)' = Seen(w)
    BY <1>4, <1>7 DEF Seen
  <2> QED BY <1>5, <2>1 DEF W!vars, Seen
<1> QED BY <1>2, <1>6, <1>7

\* The other steps of the loop of w, its cancellation and its process.
LEMMA StepOfLoop ==
  ASSUME TypeOK, LoopInv, NEW w \in Workers, Loop(w) \/ Cancel(w) \/ Crash(w) \/ Restart(w)
  PROVE  W(w)!Next \/ UNCHANGED W(w)!vars
<1> USE DEF TypeOK, Phase
<1>1. CASE LoopCheck(w) \/ FindNothing(w) \/ PollFaults(w) \/ Restart(w)
  <2>1. /\ item' = item
        /\ <<Phase(w), Phase(w)'>> \in {<<"idle", "polling">>, <<"idle", "stopped">>, <<"polling", "idle">>,
                                       <<"polling", "stopped">>, <<"stopped", "idle">>}
    BY <1>1 DEF LoopCheck, FindNothing, PollFaults, Restart, itemVars
  <2> QED BY <2>1 DEF W!Next, W!Poll, W!FindNothing, W!Stop, W!Restart
<1>2. ASSUME NEW S \in SUBSET Messages, TryGetWork(w, S) PROVE W(w)!Next
  <2>1. Phase(w) = "polling" /\ Phase(w)' = "working" /\ item'[w] = Batch(S) /\ S # {}
    BY <1>2 DEF TryGetWork, Deliver
  <2>2. Seen(w)' = W(w)!Batch(S)
    BY <2>1, SeenOfBatch DEF Seen, W!Batch, Batch
  <2> QED BY <2>1, <2>2 DEF W!Next, W!Take, Seen
<1>3. ASSUME NEW S \in SUBSET Messages, LoseAnswer(w, S) PROVE UNCHANGED W(w)!vars
  BY <1>3, OtherLoops DEF LoseAnswer, loopVars, itemVars
<1>4. CASE Cancel(w)
  BY <1>4, OtherLoops DEF Cancel, itemVars
<1>5. CASE EndForAll(w)
  <2>1. Phase(w) = "working" /\ Phase(w)' = "idle" /\ item'[w] = NoItems
    BY <1>5 DEF EndForAll, AfterForAll
  <2>2. Seen(w)' = W(w)!NoItems
    <3>1. Seen(w)' = NoItems
      BY <2>1, SeenOfNoItems DEF Seen
    <3> QED BY <3>1 DEF W!NoItems, W!Batch, NoItems, Batch
  <2>3. /\ \A m \in Messages : Seen(w)[m] \notin {"executing", "executed"}
        /\ \A m \in Messages : Seen(w)[m] = "waiting" => \E n \in Messages : Seen(w)[n] = "threw"
    BY <1>5 DEF EndForAll, Seen, Progress, InHand
  <2> QED BY <2>1, <2>2, <2>3 DEF W!Next, W!EndBatch, Seen
<1>6. CASE Crash(w)
  <2>1. Phase(w) # "stopped" /\ Phase(w)' = "stopped" /\ item'[w] = NoItems
    BY <1>6 DEF Crash
  <2>2. Seen(w)' = W(w)!NoItems
    <3>1. Seen(w)' = NoItems
      BY <2>1, SeenOfNoItems DEF Seen
    <3> QED BY <3>1 DEF W!NoItems, W!Batch, NoItems, Batch
  <2> QED BY <2>1, <2>2 DEF W!Next, W!Crash, Seen
<1>7. ASSUME NEW m \in Messages, ExecuteWork(w, m) PROVE W(w)!Next \/ UNCHANGED W(w)!vars
  BY <1>7, ItemOfLoop
<1> QED BY <1>1, <1>2, <1>3, <1>4, <1>5, <1>6, <1>7 DEF Loop

\* A queue worker keeps to the template it inherits: whatever the queue, the
\* other workers and crashes do, each of its messages goes through Execute (or
\* the poison queue) and then Completed, and no poll starts and no loop ends by
\* itself while one is in hand.
THEOREM ImplementsTheLoop == Spec => ImplementsWorkLoop
<1>1. Init => \A w \in Workers : W(w)!Init
  <2> SUFFICES ASSUME Init, NEW w \in Workers PROVE W(w)!Init
    OBVIOUS
  <2>1. Phase(w) = "idle" /\ item[w] = NoItems
    BY DEF Init, Phase
  <2>2. [m \in Messages |-> Progress(item[w][m])] = NoItems
    BY <2>1, SeenOfNoItems
  <2> QED BY <2>1, <2>2 DEF W!Init, W!NoItems, W!Batch, NoItems, Batch
<1>2. TypeOK /\ LoopInv /\ [Next]_vars => [\A w \in Workers : W(w)!Next \/ UNCHANGED W(w)!vars]_vars
  <2> SUFFICES ASSUME TypeOK, LoopInv, Next, NEW w \in Workers
               PROVE  W(w)!Next \/ UNCHANGED W(w)!vars
    OBVIOUS
  <2>1. CASE Queue
    BY <2>1, OtherLoops DEF Queue, AddMessage, VisibilityExpires, loopVars, itemVars
  <2>2. ASSUME NEW v \in Workers, Loop(v) \/ Cancel(v) \/ Crash(v) \/ Restart(v)
        PROVE  W(w)!Next \/ UNCHANGED W(w)!vars
    <3>1. CASE v = w
      BY <2>2, <3>1, StepOfLoop
    <3>2. CASE v # w
      <4>1. pc'[w] = pc[w] /\ item'[w] = item[w]
        BY <2>2, <3>2
           DEF Loop, LoopCheck, FindNothing, PollFaults, EndForAll, TryGetWork, LoseAnswer, ExecuteWork,
               BeginExecuting, BeginPoisoning, OnExecutingReturns, OnExecutingThrows, Move,
               PlaceMessageOnPoisonQueue, PlaceMessageFails, Completed, Cancel, Crash, Restart,
               loopVars, itemVars, TypeOK
      <4> QED BY <4>1, OtherLoops
    <3> QED BY <3>1, <3>2
  <2> QED BY <2>1, <2>2 DEF Next
<1> QED BY <1>1, <1>2, TypeCorrect, ItemsInsideForAll, PTL DEF Spec, ImplementsWorkLoop
-----------------------------------------------------------------------------
(* What a message goes through.                                            *)

\* The way to the poison queue begins with a delivery past the last attempt.
ParkedInv ==
  \A m \in Messages :
    /\ \A w \in Workers : item[w][m] \in {"poisoning", "poisoned"} => receipt[w][m] > MaxAttempts
    /\ poison[m] > 0 => dequeueCount[m] > MaxAttempts

\* A message is only parked once it has been delivered more than maxAttempts
\* times, even while old deliveries of it are still in the hands of workers.
ParkedAfterItsAttempts == \A m \in Messages : poison[m] > 0 => dequeueCount[m] > MaxAttempts

\* As long as nothing has failed, what was processed or parked is on its way
\* out: it is deleted, or with the worker that will delete it.
OnItsWayOut(m) == state[m] = "deleted" \/ \E w \in Workers : item[w][m] \in {"poisoned", "executed"}

OnceInv == \A m \in Messages : /\ processed[m] \/ poison[m] > 0 => OnItsWayOut(m)
                               /\ ~(processed[m] /\ poison[m] > 0)
                               /\ \A w \in Workers : item[w][m] = "poisoned" => poison[m] > 0

\* How much of ExecuteWork an item has before it.
ItemLeft(s) == CASE s = "waiting" -> 4
                 [] s = "poisoning" -> 3
                 [] s \in {"executing", "poisoned"} -> 2
                 [] s = "executed" -> 1
                 [] OTHER -> 0

\* One item of the batch is nearer to its end, and the others are where they were.
ItemNearer(w) == \E m \in Messages : /\ ItemLeft(item'[w][m]) < ItemLeft(item[w][m])
                                     /\ \A n \in Messages \ {m} : item'[w][n] = item[w][n]

\* In ForAll a worker ends the batch, dies, does more of it, or keeps it.
Advances(w) ==
  pc[w] = "forAll" =>
    /\ Loop(w) => pc'[w] = "check" \/ (pc'[w] = "forAll" /\ ItemNearer(w))
    /\ ~Loop(w) => (pc'[w] = "forAll" /\ item'[w] = item[w]) \/ (pc'[w] = "crashed" /\ faults' = faults + 1)

BatchesAdvance == [][\A w \in Workers : Advances(w)]_vars

\* No step takes failures back.
LEMMA FaultsGrow ==
  ASSUME TypeOK, [Next]_vars
  PROVE  faults' = faults \/ faults' = faults + 1
  BY DEF Next, Queue, AddMessage, VisibilityExpires, Loop, LoopCheck, FindNothing, PollFaults, EndForAll,
         TryGetWork, LoseAnswer, ExecuteWork, BeginExecuting, BeginPoisoning, OnExecutingReturns,
         OnExecutingThrows, PlaceMessageOnPoisonQueue, PlaceMessageFails, Completed, DeleteMessage,
         Cancel, Crash, Restart, Fault, vars, historyVars

\* What an item's step does to ParkedInv.
LEMMA WorkKeepsParked ==
  ASSUME TypeOK, DeliveryInv, ParkedInv, NEW w \in Workers, NEW m \in Messages, ExecuteWork(w, m)
  PROVE  ParkedInv'
<1> USE DEF TypeOK, queueVars, historyVars, itemVars
<1>1. receipt[w][m] \in Nat /\ dequeueCount[m] \in Nat
  BY ConstantsType
<1>2. ASSUME NEW from, NEW to, Move(w, m, from, to)
      PROVE  /\ item[w][m] = from /\ item'[w][m] = to /\ receipt' = receipt
             /\ \A v \in Workers, n \in Messages : v # w \/ n # m => item'[v][n] = item[v][n]
  BY <1>2 DEF Move
<1>3. /\ receipt' = receipt
      /\ \A v \in Workers, n \in Messages : v # w \/ n # m => item'[v][n] = item[v][n]
      /\ item'[w][m] = "poisoning" => receipt[w][m] > MaxAttempts
      /\ item'[w][m] = "poisoned" => item[w][m] = "poisoning"
  <2>1. CASE BeginExecuting(w, m) \/ OnExecutingReturns(w, m) \/ OnExecutingThrows(w, m)
    BY <1>2, <2>1 DEF BeginExecuting, OnExecutingReturns, OnExecutingThrows, Abandoned
  <2>2. CASE BeginPoisoning(w, m)
    BY <1>1, <1>2, <2>2, ConstantsType DEF BeginPoisoning, AttemptsLeft
  <2>3. CASE PlaceMessageOnPoisonQueue(w, m) \/ PlaceMessageFails(w, m)
    BY <1>2, <2>3 DEF PlaceMessageOnPoisonQueue, AfterPoison, PlaceMessageFails
  <2>4. CASE Completed(w, m)
    BY <1>2, <2>4 DEF Completed
  <2> QED BY <2>1, <2>2, <2>3, <2>4 DEF ExecuteWork
<1>4. ASSUME NEW v \in Workers, NEW n \in Messages, item'[v][n] \in {"poisoning", "poisoned"}
      PROVE  receipt'[v][n] > MaxAttempts
  <2>1. CASE v = w /\ n = m
    BY <1>3, <1>4, <2>1 DEF ParkedInv
  <2>2. CASE ~(v = w /\ n = m)
    BY <1>3, <1>4, <2>2 DEF ParkedInv
  <2> QED BY <2>1, <2>2
<1>5. dequeueCount' = dequeueCount
  BY DEF ExecuteWork, BeginExecuting, BeginPoisoning, OnExecutingReturns, OnExecutingThrows,
         PlaceMessageOnPoisonQueue, PlaceMessageFails, Completed
<1>6. ASSUME NEW n \in Messages, poison'[n] > 0 PROVE dequeueCount'[n] > MaxAttempts
  <2>1. CASE poison'[n] = poison[n]
    BY <1>5, <1>6, <2>1 DEF ParkedInv
  <2>2. CASE poison'[n] # poison[n]
    <3>1. item[w][m] = "poisoning" /\ n = m
      BY <2>2 DEF ExecuteWork, BeginExecuting, BeginPoisoning, OnExecutingReturns, OnExecutingThrows,
                  PlaceMessageOnPoisonQueue, PlaceMessageFails, Completed, Move
    <3>2. receipt[w][m] > MaxAttempts /\ receipt[w][m] <= dequeueCount[m]
      BY <1>1, <3>1 DEF ParkedInv, DeliveryInv, DeliveryOf
    <3> QED BY <1>1, <1>5, <3>1, <3>2, ConstantsType
  <2> QED BY <2>1, <2>2
<1> QED BY <1>4, <1>6 DEF ParkedInv

LEMMA Parked == Spec => []ParkedInv
<1>1. Init => ParkedInv
  BY DEF Init, ParkedInv, NoItems, Batch
<1>2. TypeOK /\ DeliveryInv /\ ParkedInv /\ [Next]_vars => ParkedInv'
  <2> SUFFICES ASSUME TypeOK, DeliveryInv, ParkedInv, [Next]_vars PROVE ParkedInv'
    OBVIOUS
  <2> USE DEF TypeOK, queueVars, loopVars, itemVars, historyVars
  <2>1. ASSUME NEW m \in Messages, AddMessage(m) \/ VisibilityExpires(m) PROVE ParkedInv'
    BY <2>1 DEF AddMessage, VisibilityExpires, ParkedInv
  <2>2. ASSUME NEW w \in Workers, LoopCheck(w) \/ FindNothing(w) \/ PollFaults(w) \/ Cancel(w) \/ Restart(w)
        PROVE  ParkedInv'
    BY <2>2 DEF LoopCheck, FindNothing, PollFaults, Cancel, Restart, ParkedInv
  <2>3. ASSUME NEW w \in Workers, EndForAll(w) \/ Crash(w) PROVE ParkedInv'
    <3>1. \A m \in Messages : item'[w][m] = "absent"
      BY <2>3 DEF EndForAll, Crash, NoItems, Batch
    <3>2. /\ UNCHANGED queueVars
          /\ \A v \in Workers : v # w => item'[v] = item[v] /\ receipt'[v] = receipt[v]
      BY <2>3 DEF EndForAll, Crash
    <3> QED BY <3>1, <3>2 DEF ParkedInv
  <2>4. ASSUME NEW w \in Workers, NEW S \in SUBSET Messages, TryGetWork(w, S) \/ LoseAnswer(w, S)
        PROVE  ParkedInv'
    <3>1. Deliver(S) /\ UNCHANGED poison
      BY <2>4 DEF TryGetWork, LoseAnswer
    <3>2. ASSUME NEW v \in Workers, NEW m \in Messages, item'[v][m] \in {"poisoning", "poisoned"}
          PROVE  item'[v][m] = item[v][m] /\ receipt'[v][m] = receipt[v][m]
      <4>1. CASE TryGetWork(w, S) /\ v = w
        BY <3>2, <4>1 DEF TryGetWork, Batch
      <4> QED BY <2>4, <4>1 DEF TryGetWork, LoseAnswer
    <3>3. ASSUME NEW m \in Messages, poison'[m] > 0 PROVE dequeueCount'[m] > MaxAttempts
      <4>1. dequeueCount[m] > MaxAttempts /\ dequeueCount[m] \in Nat
        BY <3>1, <3>3, ConstantsType DEF ParkedInv
      <4>2. dequeueCount'[m] \in {dequeueCount[m], dequeueCount[m] + 1}
        BY <3>1 DEF Deliver
      <4> QED BY <4>1, <4>2, ConstantsType
    <3> QED BY <3>2, <3>3 DEF ParkedInv
  <2>5. ASSUME NEW w \in Workers, NEW m \in Messages, ExecuteWork(w, m) PROVE ParkedInv'
    BY <2>5, WorkKeepsParked
  <2>6. CASE UNCHANGED vars
    BY <2>6 DEF vars, ParkedInv
  <2> QED BY <2>1, <2>2, <2>3, <2>4, <2>5, <2>6 DEF Next, Queue, Loop
<1> QED BY <1>1, <1>2, TypeCorrect, Deliveries, PTL DEF Spec

\* A message comes to the poison queue only after maxAttempts deliveries and
\* one, whatever the visibility timeout, and however late workers are.
THEOREM ParkedLate == Spec => []ParkedAfterItsAttempts
<1>1. ParkedInv => ParkedAfterItsAttempts
  BY DEF ParkedInv, ParkedAfterItsAttempts
<1> QED BY <1>1, Parked, PTL

\* What an item's step without a failure does to OnceInv.
LEMMA WorkKeepsOnce ==
  ASSUME TypeOK, DeliveryInv, ExclusiveInv, OnceInv, NEW w \in Workers, NEW m \in Messages,
         ExecuteWork(w, m), ~Fault
  PROVE  OnceInv'
<1> USE DEF TypeOK, queueVars, historyVars, itemVars
<1>1. item[w][m] \in InHand
  BY DEF ExecuteWork, BeginExecuting, BeginPoisoning, OnExecutingReturns, OnExecutingThrows,
         PlaceMessageOnPoisonQueue, PlaceMessageFails, Completed, Move, InHand
<1>2. \A v \in Workers : item[v][m] \in InHand => v = w
  BY <1>1, OneHolder
<1>3. HoldsHidden(w, m)
  BY <1>1 DEF ExclusiveInv
<1>4. ASSUME NEW from, NEW to, Move(w, m, from, to)
      PROVE  /\ item[w][m] = from /\ item'[w][m] = to /\ receipt' = receipt
             /\ \A v \in Workers, n \in Messages : v # w \/ n # m => item'[v][n] = item[v][n]
  BY <1>4 DEF Move
\* Of the other messages nothing changes.
<1>5. ASSUME NEW n \in Messages, n # m
      PROVE  /\ processed'[n] = processed[n] /\ poison'[n] = poison[n] /\ state'[n] = state[n]
             /\ \A v \in Workers : item'[v][n] = item[v][n]
  BY <1>4, <1>5 DEF ExecuteWork, BeginExecuting, BeginPoisoning, OnExecutingReturns, OnExecutingThrows,
        PlaceMessageOnPoisonQueue, PlaceMessageFails, Completed, DeleteMessage, Move
<1>6. /\ processed'[m] \/ poison'[m] > 0 => OnItsWayOut(m)'
      /\ ~(processed'[m] /\ poison'[m] > 0)
      /\ \A v \in Workers : item'[v][m] = "poisoned" => poison'[m] > 0
  <2>1. /\ processed[m] \/ poison[m] > 0 => OnItsWayOut(m)
        /\ ~(processed[m] /\ poison[m] > 0)
        /\ \A v \in Workers : item[v][m] = "poisoned" => poison[m] > 0
    BY DEF OnceInv
  <2>2. \A v \in Workers : item[v][m] \in {"poisoned", "executed"} => v = w
    BY <1>2 DEF InHand
  <2>3. CASE item[w][m] \in {"waiting", "executing", "poisoning"}
    <3>1. ~processed[m] /\ ~(poison[m] > 0)
      BY <1>3, <2>1, <2>2, <2>3 DEF OnItsWayOut, HoldsHidden
    <3>2. CASE BeginExecuting(w, m) \/ BeginPoisoning(w, m) \/ OnExecutingThrows(w, m)
      BY <1>4, <2>1, <3>1, <3>2 DEF BeginExecuting, BeginPoisoning, OnExecutingThrows, Abandoned
    <3>3. CASE OnExecutingReturns(w, m)
      <4>1. item'[w][m] = "executed" /\ poison' = poison
        BY <1>4, <3>3 DEF OnExecutingReturns
      <4> QED BY <1>4, <2>1, <3>1, <3>3, <4>1 DEF OnExecutingReturns, OnItsWayOut
    <3>4. CASE PlaceMessageOnPoisonQueue(w, m)
      <4>1. /\ item'[w][m] = "poisoned" /\ processed' = processed
            /\ poison' = [poison EXCEPT ![m] = @ + 1]
        BY <1>4, <3>4 DEF PlaceMessageOnPoisonQueue, AfterPoison
      <4>2. poison'[m] > 0
        BY <4>1
      <4> QED BY <3>1, <4>1, <4>2 DEF OnItsWayOut
    <3>5. CASE PlaceMessageFails(w, m)
      BY <3>5 DEF PlaceMessageFails
    <3>6. CASE Completed(w, m)
      BY <1>4, <2>3, <3>6 DEF Completed
    <3> QED BY <3>2, <3>3, <3>4, <3>5, <3>6 DEF ExecuteWork
  <2>4. CASE item[w][m] \in {"poisoned", "executed"}
    <3>1. Completed(w, m)
      BY <1>4, <2>4 DEF ExecuteWork, BeginExecuting, BeginPoisoning, OnExecutingReturns, OnExecutingThrows,
            PlaceMessageOnPoisonQueue, PlaceMessageFails
    <3>2. UNCHANGED <<processed, poison>>
      BY <3>1 DEF Completed
    <3>3. ASSUME NEW v \in Workers, item'[v][m] = "poisoned" PROVE poison'[m] > 0
      <4>1. item'[w][m] \in {"executed", "done"}
        BY <1>4, <3>1 DEF Completed
      <4>2. v # w => item'[v][m] = item[v][m]
        BY <1>4, <3>1 DEF Completed
      <4> QED BY <2>1, <3>2, <3>3, <4>1, <4>2
    <3>4. state'[m] = "deleted"
      <4>1. DeleteMessage(m, receipt[w][m])
        BY <3>1 DEF Completed
      <4> QED BY <1>3, <4>1 DEF DeleteMessage, ReceiptValid, HoldsHidden
    <3> QED BY <2>1, <3>2, <3>3, <3>4 DEF OnItsWayOut
  <2> QED BY <1>1, <2>3, <2>4 DEF InHand
<1>7. ASSUME NEW n \in Messages, n # m
      PROVE  /\ processed'[n] \/ poison'[n] > 0 => OnItsWayOut(n)'
             /\ ~(processed'[n] /\ poison'[n] > 0)
             /\ \A v \in Workers : item'[v][n] = "poisoned" => poison'[n] > 0
  <2>1. OnItsWayOut(n) => OnItsWayOut(n)'
    BY <1>5, <1>7 DEF OnItsWayOut
  <2> QED BY <1>5, <1>7, <2>1 DEF OnceInv
<1> QED BY <1>6, <1>7 DEF OnceInv

LEMMA Once == Spec => [](VisibilityOutlastsBatch /\ faults = 0 => OnceInv)
<1> DEFINE Inv == VisibilityOutlastsBatch /\ faults = 0 => OnceInv
<1>1. Init => Inv
  BY DEF Init, OnceInv, NoItems, Batch
<1>2. TypeOK /\ DeliveryInv /\ (VisibilityOutlastsBatch => ExclusiveInv) /\ Inv /\ [Next]_vars => Inv'
  <2> SUFFICES ASSUME TypeOK, DeliveryInv, ExclusiveInv, Inv, [Next]_vars,
                      VisibilityOutlastsBatch, faults' = 0
               PROVE  OnceInv'
    OBVIOUS
  <2>1. faults = 0 /\ ~Fault
    <3>1. faults \in Nat
      BY ConstantsType DEF TypeOK
    <3> QED BY <3>1, FaultsGrow DEF Fault
  <2>2. OnceInv
    BY <2>1
  <2> HIDE DEF Inv
  <2> USE DEF TypeOK, queueVars, loopVars, itemVars, historyVars
  <2>3. ASSUME NEW m \in Messages, AddMessage(m) \/ VisibilityExpires(m) PROVE OnceInv'
    <3>1. /\ UNCHANGED <<poison, processed, item>>
          /\ \A n \in Messages : state[n] = "deleted" => state'[n] = "deleted"
      BY <2>3 DEF AddMessage, VisibilityExpires
    <3> QED BY <2>2, <3>1 DEF OnceInv, OnItsWayOut
  <2>4. ASSUME NEW w \in Workers, LoopCheck(w) \/ FindNothing(w) \/ Cancel(w) \/ Restart(w)
        PROVE  OnceInv'
    BY <2>2, <2>4 DEF LoopCheck, FindNothing, Cancel, Restart, OnceInv, OnItsWayOut
  <2>5. ASSUME NEW w \in Workers, PollFaults(w) \/ Crash(w) PROVE OnceInv'
    BY <2>1, <2>5 DEF PollFaults, Crash
  <2>6. ASSUME NEW w \in Workers, EndForAll(w) PROVE OnceInv'
    <3>1. /\ \A m \in Messages : item'[w][m] = "absent" /\ item[w][m] \notin {"poisoned", "executed"}
          /\ UNCHANGED <<poison, processed, state>>
          /\ \A v \in Workers : v # w => item'[v] = item[v]
      BY <2>6 DEF EndForAll, NoItems, Batch, InHand
    <3>2. ASSUME NEW m \in Messages, OnItsWayOut(m) PROVE OnItsWayOut(m)'
      BY <3>1, <3>2 DEF OnItsWayOut
    <3>3. ASSUME NEW m \in Messages, NEW v \in Workers, item'[v][m] = "poisoned" PROVE item[v][m] = "poisoned"
      BY <3>1, <3>3
    <3> QED BY <2>2, <3>1, <3>2, <3>3 DEF OnceInv
  <2>7. ASSUME NEW w \in Workers, NEW S \in SUBSET Messages, TryGetWork(w, S) PROVE OnceInv'
    <3>1. \A m \in Messages : item[w][m] = "absent"
      BY <2>7 DEF TryGetWork, DeliveryInv, DeliveryOf
    <3>2. /\ \A m \in Messages : item'[w][m] \in {"waiting", "absent"}
          /\ \A v \in Workers : v # w => item'[v] = item[v]
          /\ UNCHANGED <<poison, processed>>
      BY <2>7 DEF TryGetWork, Batch
    <3>3. \A n \in Messages : state[n] = "deleted" => state'[n] = "deleted"
      BY <2>7 DEF TryGetWork, Deliver
    <3>4. ASSUME NEW m \in Messages, OnItsWayOut(m) PROVE OnItsWayOut(m)'
      BY <3>1, <3>2, <3>3, <3>4 DEF OnItsWayOut
    <3>5. ASSUME NEW m \in Messages, NEW v \in Workers, item'[v][m] = "poisoned" PROVE item[v][m] = "poisoned"
      BY <3>2, <3>5
    <3> QED BY <2>2, <3>2, <3>4, <3>5 DEF OnceInv
  <2>8. ASSUME NEW w \in Workers, NEW S \in SUBSET Messages, LoseAnswer(w, S) PROVE OnceInv'
    BY <2>1, <2>8 DEF LoseAnswer
  <2>9. ASSUME NEW w \in Workers, NEW m \in Messages, ExecuteWork(w, m) PROVE OnceInv'
    BY <2>1, <2>2, <2>9, WorkKeepsOnce
  <2>10. CASE UNCHANGED vars
    BY <2>2, <2>10 DEF vars, OnceInv, OnItsWayOut
  <2> QED BY <2>3, <2>4, <2>5, <2>6, <2>7, <2>8, <2>9, <2>10 DEF Next, Queue, Loop
<1> QED BY <1>1, <1>2, TypeCorrect, Deliveries, Exclusion, PTL DEF Spec

\* With a sufficient visibility timeout, at least once is exactly once until
\* something fails: whoever executes a message that was processed before owes
\* it to a lost answer, a failed call or a crash, or to the timeout.
THEOREM OnceUntilAFailure == Spec => []ProcessedOnce
<1>1. TypeOK /\ DeliveryInv /\ (VisibilityOutlastsBatch => ExclusiveInv)
        /\ (VisibilityOutlastsBatch /\ faults = 0 => OnceInv) => ProcessedOnce
  <2> SUFFICES ASSUME TypeOK, DeliveryInv, ExclusiveInv, OnceInv, NEW m \in Messages, processed[m]
               PROVE  /\ poison[m] = 0
                      /\ \A w \in Workers : item[w][m] \in InHand => item[w][m] = "executed"
    BY DEF ProcessedOnce
  <2>1. poison[m] = 0
    BY DEF TypeOK, OnceInv
  <2>2. ASSUME NEW w \in Workers, item[w][m] \in InHand PROVE item[w][m] = "executed"
    <3>1. CASE state[m] = "deleted"
      BY <2>2, <3>1 DEF ExclusiveInv, HoldsHidden
    <3>2. ASSUME NEW v \in Workers, item[v][m] \in {"poisoned", "executed"} PROVE item[w][m] = "executed"
      <4>1. v = w
        BY <2>2, <3>2, OneHolder DEF InHand
      <4> QED BY <2>1, <3>2, <4>1 DEF OnceInv
    <3> QED BY <3>1, <3>2 DEF OnceInv, OnItsWayOut
  <2> QED BY <2>1, <2>2
<1> QED BY <1>1, TypeCorrect, Deliveries, Exclusion, Once, PTL

\* A step of ExecuteWork is a step towards the end of the batch.
LEMMA ItemsComeNearer ==
  ASSUME TypeOK, NEW w \in Workers, NEW m \in Messages, ExecuteWork(w, m)
  PROVE  ItemNearer(w) /\ pc[w] = "forAll" /\ pc' = pc
<1>1. \E from, to : Move(w, m, from, to) /\ ItemLeft(to) < ItemLeft(from)
  <2>1. /\ ItemLeft("waiting") = 4 /\ ItemLeft("poisoning") = 3 /\ ItemLeft("executing") = 2
        /\ ItemLeft("poisoned") = 2 /\ ItemLeft("executed") = 1
        /\ ItemLeft("done") = 0 /\ ItemLeft("threw") = 0
    BY DEF ItemLeft
  <2>2. \E from, to : /\ Move(w, m, from, to)
                      /\ <<from, to>> \in {<<"waiting", "executing">>, <<"waiting", "poisoning">>,
                           <<"executing", "executed">>, <<"executing", "threw">>, <<"poisoning", "poisoned">>,
                           <<"poisoning", "threw">>, <<"poisoned", "executed">>, <<"executed", "done">>}
    BY DEF ExecuteWork, BeginExecuting, BeginPoisoning, OnExecutingReturns, OnExecutingThrows, Abandoned,
           PlaceMessageOnPoisonQueue, AfterPoison, PlaceMessageFails, Completed
  <2> QED BY <2>1, <2>2
<1>2. PICK from, to : Move(w, m, from, to) /\ ItemLeft(to) < ItemLeft(from)
  BY <1>1
<1>3. /\ pc[w] = "forAll" /\ pc' = pc
      /\ item[w][m] = from /\ item'[w][m] = to
      /\ \A n \in Messages \ {m} : item'[w][n] = item[w][n]
  BY <1>2 DEF Move, TypeOK, loopVars
<1> QED BY <1>2, <1>3 DEF ItemNearer

\* Every step of ForAll, executing or parking, throwing or returning, failing
\* or not, brings its batch nearer to the end; redeliveries, other workers and
\* cancellation leave it alone, and only a crash takes it away.
THEOREM BatchesAlwaysAdvance == Spec => BatchesAdvance
<1>1. ASSUME TypeOK, NEW w \in Workers, pc[w] = "forAll", Loop(w)
      PROVE  pc'[w] = "check" \/ (pc'[w] = "forAll" /\ ItemNearer(w))
  <2>1. CASE EndForAll(w)
    BY <1>1, <2>1 DEF EndForAll, AfterForAll, TypeOK
  <2>2. ASSUME NEW m \in Messages, ExecuteWork(w, m)
        PROVE  pc'[w] = "forAll" /\ ItemNearer(w)
    BY <1>1, <2>2, ItemsComeNearer
  <2> QED BY <1>1, <2>1, <2>2 DEF Loop, LoopCheck, FindNothing, PollFaults, TryGetWork, LoseAnswer
<1>2. ASSUME TypeOK, Next, NEW w \in Workers, pc[w] = "forAll", ~Loop(w)
      PROVE  (pc'[w] = "forAll" /\ item'[w] = item[w]) \/ (pc'[w] = "crashed" /\ faults' = faults + 1)
  <2>1. CASE Queue
    BY <1>2, <2>1 DEF Queue, AddMessage, VisibilityExpires, loopVars, itemVars
  <2>2. ASSUME NEW v \in Workers, v # w, Loop(v) PROVE pc'[w] = "forAll" /\ item'[w] = item[w]
    BY <1>2, <2>2
       DEF Loop, LoopCheck, FindNothing, PollFaults, EndForAll, TryGetWork, LoseAnswer, ExecuteWork,
           BeginExecuting, BeginPoisoning, OnExecutingReturns, OnExecutingThrows, Move,
           PlaceMessageOnPoisonQueue, PlaceMessageFails, Completed, loopVars, itemVars, TypeOK
  <2>3. ASSUME NEW v \in Workers, v # w \/ Cancel(v), Cancel(v) \/ Crash(v) \/ Restart(v)
        PROVE  pc'[w] = "forAll" /\ item'[w] = item[w]
    BY <1>2, <2>3 DEF Cancel, Crash, Restart, itemVars, TypeOK
  <2>4. CASE Crash(w) \/ Restart(w)
    BY <1>2, <2>4 DEF Crash, Restart, Fault, TypeOK
  <2> QED BY <1>2, <2>1, <2>2, <2>3, <2>4 DEF Next
<1>3. TypeOK /\ [Next]_vars => [\A w \in Workers : Advances(w)]_vars
  BY <1>1, <1>2 DEF Advances
<1> QED BY <1>3, TypeCorrect, PTL DEF Spec, BatchesAdvance
=============================================================================
