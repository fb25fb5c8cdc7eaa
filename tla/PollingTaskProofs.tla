------------------------- MODULE PollingTaskProofs --------------------------
(***************************************************************************)
(* Proofs about PollingTask: for any number of tasks and items and any     *)
(* maximal delay, types, mutual exclusion of loops, the owner's hold on a  *)
(* live loop, the single poll after a cancellation, the account of the     *)
(* sleeps, the table they follow, and why loops and batches end.           *)
(***************************************************************************)
EXTENDS PollingTask, FiniteSetTheorems, FunctionTheorems, TLAPS

\* The rounding never passes a maximum the unrounded delay respects, so the
\* back-off of ExponentialDelay stays within maxDelayInSeconds whatever the
\* number of failed attempts.
THEOREM CappedWithinMaximum ==
  ASSUME NEW halves \in Int, NEW max \in Int
  PROVE  Capped(halves, max) <= max
  BY DEF Capped, ToInt64

LEMMA ConstantsType ==
  AttemptsBound \in Nat /\ 0 \in 0..AttemptsBound /\ NoTask \notin Tasks
  BY ConstantsAssumption

LEMMA IncrementType ==
  ASSUME NEW n \in 0..AttemptsBound
  PROVE  Increment(n) \in 0..AttemptsBound
  BY ConstantsAssumption DEF Increment

\* Increment keeps the order of the two counters it is applied to.
LEMMA IncrementMonotone ==
  ASSUME NEW m \in 0..AttemptsBound, NEW n \in 0..AttemptsBound, m <= n
  PROVE  Increment(m) <= Increment(n)
  BY ConstantsAssumption DEF Increment

LEMMA DelayInDelays ==
  ASSUME NEW n \in Nat, NEW k \in 0..n
  PROVE  ExponentialDelay(k, MaxDelay) \in Delays(n)
  BY DEF Delays

\* The fields, the task objects and the loops keep their types; in particular
\* a delay is always one that ExponentialDelay lists.
THEOREM TypeCorrect == Spec => []TypeOK
<1>1. Init => TypeOK
  <2> SUFFICES ASSUME Init PROVE TypeOK
    OBVIOUS
  <2>1. delay \in [Tasks -> Delays(AttemptsBound)]
    BY ConstantsType, DelayInDelays DEF Init, Timeout
  <2>2. item \in [Tasks -> [WorkItems -> ItemStates]]
    BY DEF Init, NoItems, Batch, ItemStates
  <2>3. status \in [Tasks -> {"none"} \cup Live \cup Ended] /\ pc \in [Tasks -> Positions]
    BY DEF Init, Positions
  <2>4. cancelled \in BOOLEAN /\ disposed \in BOOLEAN
    BY Zenon DEF Init
  <2>5. /\ internalTask \in Tasks \cup {NoTask}
        /\ attempts \in 0..AttemptsBound
        /\ loaded \in [Tasks -> 0..AttemptsBound]
        /\ emptyPolls \in 0..AttemptsBound
        /\ pollsAfterCancel \in 0..2
    BY ConstantsType DEF Init
  <2> QED BY <2>1, <2>2, <2>3, <2>4, <2>5 DEF TypeOK
<1>2. TypeOK /\ [Next]_vars => TypeOK'
  <2> SUFFICES ASSUME TypeOK, [Next]_vars PROVE TypeOK'
    OBVIOUS
  <2> USE DEF TypeOK
  <2>1. CASE Owner
    BY <2>1, ConstantsType
       DEF Owner, Start, taskVars, MayStart, Cancel, ResetAttempts, AttemptsAfterReset, Dispose, MayDispose,
           ownerVars, backOffVars, historyVars, Live, Ended
  <2>2. ASSUME NEW t \in Tasks, Schedule(t) \/ LoopCheck(t) PROVE TypeOK'
    BY <2>2 DEF Schedule, LoopCheck, LoopCondition, Goto, ownerVars, backOffVars, historyVars, Positions, Live, Ended
  <2>3. ASSUME NEW t \in Tasks, NEW S \in SUBSET WorkItems, TakeWork(t, S) PROVE TypeOK'
    <3>1. Batch(S) \in [WorkItems -> ItemStates]
      BY DEF Batch, ItemStates
    <3> QED BY <2>3, <3>1, ConstantsType
            DEF TakeWork, AttemptsAfterReset, CountPoll, Goto, ownerVars, backOffVars, Positions
  <2>4. ASSUME NEW t \in Tasks, FindNothing(t) \/ PollFails(t) \/ PollFaults(t) PROVE TypeOK'
    <3>1. pollsAfterCancel' \in 0..2
      BY <2>4 DEF FindNothing, PollFails, PollFaults, CountPoll
    <3>2. status' \in [Tasks -> {"none"} \cup Live \cup Ended] /\ pc' \in [Tasks -> Positions]
      BY <2>4 DEF FindNothing, PollFails, PollFaults, Goto, Positions, Ended
    <3> QED BY <2>4, <3>1, <3>2 DEF FindNothing, PollFails, PollFaults, ownerVars, backOffVars
  <2>5. ASSUME NEW t \in Tasks, BackOff(t) PROVE TypeOK'
    <3>1. Increment(loaded[t]) \in 0..AttemptsBound /\ Increment(emptyPolls) \in 0..AttemptsBound
      BY IncrementType
    <3>2. ExponentialDelay(attempts, MaxDelay) \in Delays(AttemptsBound)
      BY DelayInDelays, ConstantsType
    <3> QED BY <2>5, <3>1, <3>2
            DEF BackOff, LoadAttempts, StoreAttempts, GetTimeoutAsTimeSpan, Timeout, Wake, Goto,
                ownerVars, backOffVars, historyVars, Positions
  <2>6. ASSUME NEW t \in Tasks, NEW i \in WorkItems, ExecuteWork(t, i) PROVE TypeOK'
    BY <2>6 DEF ExecuteWork, ItemSteps, ownerVars, backOffVars, historyVars, ItemStates
  <2>7. ASSUME NEW t \in Tasks, EndForAll(t) PROVE TypeOK'
    BY <2>7 DEF EndForAll, BatchOver, Goto, NoItems, Batch, ownerVars, backOffVars, historyVars, Positions, ItemStates
  <2>8. CASE UNCHANGED vars
    BY <2>8 DEF vars, taskVars, ownerVars, backOffVars, historyVars
  <2> QED BY <2>1, <2>2, <2>3, <2>4, <2>5, <2>6, <2>7, <2>8 DEF Next, Loop
<1> QED BY <1>1, <1>2, PTL DEF Spec
-----------------------------------------------------------------------------
\* Every step of a loop leaves the owner's variables alone, brings no task to
\* life and stops at most its own.
LEMMA LoopKeepsOwner ==
  ASSUME TypeOK, NEW t \in Tasks, Loop(t)
  PROVE  /\ UNCHANGED ownerVars
         /\ LiveTasks' \subseteq LiveTasks
  BY DEF TypeOK, LiveTasks, Loop, Schedule, LoopCheck, LoopCondition, TakeWork, AttemptsAfterReset, FindNothing, PollFails, PollFaults,
         BackOff, LoadAttempts, StoreAttempts, GetTimeoutAsTimeSpan, Timeout, Wake, ExecuteWork, ItemSteps, EndForAll, BatchOver,
         At, Goto, ownerVars, Live, Ended

\* At most one loop is alive, and the owner holds it or has cancelled it.  The
\* two are inductive together: a new task is queued only while the source is
\* not cancelled and internalTask is null, and then no loop can be alive.
THEOREM LoopsUnderControl == Spec => [](AtMostOneLoop /\ NoUnstoppableLoop)
<1> DEFINE Inv == AtMostOneLoop /\ NoUnstoppableLoop
<1>1. Init => Inv
  BY DEF Init, AtMostOneLoop, NoUnstoppableLoop, LiveTasks, Live
<1>2. TypeOK /\ Inv /\ [Next]_vars => Inv'
  <2> SUFFICES ASSUME TypeOK, Inv, [Next]_vars PROVE Inv'
    OBVIOUS
  <2> USE DEF AtMostOneLoop, NoUnstoppableLoop, LiveTasks
  <2>1. ASSUME NEW t \in Tasks, Start(t) PROVE Inv'
    <3>1. cancelled \/ LiveTasks = {}
      BY <2>1, ConstantsType DEF Start, taskVars, MayStart
    <3> QED BY <2>1, <3>1, ConstantsType DEF Start, taskVars, MayStart, TypeOK, Live
  <2>2. CASE Cancel
    BY <2>2 DEF Cancel, taskVars
  <2>3. CASE ResetAttempts
    BY <2>3 DEF ResetAttempts, taskVars, ownerVars
  <2>4. CASE Dispose
    BY <2>4 DEF Dispose, taskVars, MayDispose, Live, Ended
  <2>5. ASSUME NEW t \in Tasks, Loop(t) PROVE Inv'
    BY <2>5, LoopKeepsOwner DEF ownerVars
  <2>6. CASE UNCHANGED vars
    BY <2>6 DEF vars, taskVars, ownerVars
  <2> QED BY <2>1, <2>2, <2>3, <2>4, <2>5, <2>6 DEF Next, Owner
<1> QED BY <1>1, <1>2, TypeCorrect, PTL DEF Spec
\* The one loop can always be stopped: its cancellation source is only
\* disposed of when it has ended, or is forgotten once it is cancelled.
THEOREM LoopsCanBeStopped == Spec => []NoUnstoppableLoop
<1>1. (AtMostOneLoop /\ NoUnstoppableLoop) => NoUnstoppableLoop
  OBVIOUS
<1> QED BY <1>1, LoopsUnderControl, PTL
-----------------------------------------------------------------------------
\* While a poll is to come, none has been made since the cancellation.
PollInv ==
  /\ ~cancelled => pollsAfterCancel = 0
  /\ pollsAfterCancel <= 1
  /\ \A t \in Tasks : At(t, "getWork") => pollsAfterCancel = 0

\* At most one poll is made after the cancellation: the loop that makes it is
\* the only one, and finds the token cancelled at its next turn.
THEOREM PollsAfterCancel == Spec => []OnePollAfterCancel
<1>1. Init => PollInv
  BY DEF Init, PollInv, At
<1>2. TypeOK /\ AtMostOneLoop /\ PollInv /\ [Next]_vars => PollInv'
  <2> SUFFICES ASSUME TypeOK, AtMostOneLoop, PollInv, [Next]_vars PROVE PollInv'
    OBVIOUS
  <2> USE DEF TypeOK, AtMostOneLoop, LiveTasks, Live, PollInv, At
  <2>1. CASE Owner
    BY <2>1 DEF Owner, Start, taskVars, MayStart, Cancel, ResetAttempts, Dispose, MayDispose, ownerVars, historyVars
  <2>2. ASSUME NEW t \in Tasks, Schedule(t) PROVE PollInv'
    BY <2>2 DEF Schedule, ownerVars, historyVars
  <2>3. ASSUME NEW t \in Tasks, LoopCheck(t) PROVE PollInv'
    BY <2>3 DEF LoopCheck, LoopCondition, Goto, ownerVars, historyVars
  <2>4. ASSUME NEW t \in Tasks, At(t, "getWork"), CountPoll, UNCHANGED cancelled,
               ~At(t, "getWork")', \A u \in Tasks \ {t} : At(u, "getWork")' => At(u, "getWork")
        PROVE  PollInv'
    BY <2>4 DEF CountPoll
  <2>5. ASSUME NEW t \in Tasks, NEW S \in SUBSET WorkItems, TakeWork(t, S) PROVE PollInv'
    BY <2>4, <2>5 DEF TakeWork, AttemptsAfterReset, Goto, ownerVars
  <2>6. ASSUME NEW t \in Tasks, FindNothing(t) \/ PollFails(t) \/ PollFaults(t) PROVE PollInv'
    BY <2>4, <2>6 DEF FindNothing, PollFails, PollFaults, Goto, ownerVars
  <2>7. ASSUME NEW t \in Tasks, BackOff(t) PROVE PollInv'
    BY <2>7 DEF BackOff, LoadAttempts, StoreAttempts, GetTimeoutAsTimeSpan, Timeout, Wake, Goto,
                ownerVars, historyVars
  <2>8. ASSUME NEW t \in Tasks, EndForAll(t) \/ \E i \in WorkItems : ExecuteWork(t, i) PROVE PollInv'
    BY <2>8 DEF EndForAll, BatchOver, ExecuteWork, ItemSteps, Goto, ownerVars, historyVars
  <2>9. CASE UNCHANGED vars
    BY <2>9 DEF vars, taskVars, ownerVars, historyVars
  <2> QED BY <2>1, <2>2, <2>3, <2>5, <2>6, <2>7, <2>8, <2>9 DEF Next, Loop
<1>3. PollInv => OnePollAfterCancel
  BY DEF PollInv, OnePollAfterCancel
<1> QED BY <1>1, <1>2, <1>3, TypeCorrect, LoopsUnderControl, PTL DEF Spec
-----------------------------------------------------------------------------
\* The attempts field, and what the loop has read of it and will write back
\* with one added, never run ahead of the back-offs since the last reset.
BackOffInv ==
  /\ attempts <= emptyPolls
  /\ \A t \in Tasks :
       /\ status[t] \in {"none", "queued"} => pc[t] = "check"
       /\ At(t, "store") => Increment(loaded[t]) <= emptyPolls

\* One step keeps that, and a sleep it decides on is accounted for.
LEMMA BackOffStep ==
  ASSUME TypeOK, AtMostOneLoop, BackOffInv, Next
  PROVE  /\ BackOffInv'
         /\ \A t \in Tasks : At(t, "timeout") /\ ~At(t, "timeout")' => delay'[t] \in Delays(emptyPolls)
<1> DEFINE Accounted == \A t \in Tasks :
             At(t, "timeout") /\ ~At(t, "timeout")' => delay'[t] \in Delays(emptyPolls)
<1> USE DEF TypeOK, AtMostOneLoop, LiveTasks, Live, BackOffInv, At
<1>1. CASE ResetAttempts
  <2>1. UNCHANGED <<status, pc, loaded>> /\ attempts' = 0
    BY <1>1 DEF ResetAttempts, AttemptsAfterReset, taskVars, backOffVars
  <2>2. CASE \E t \in Tasks : At(t, "store")
    BY <1>1, <2>1, <2>2 DEF ResetAttempts
  <2>3. CASE ~\E t \in Tasks : At(t, "store")
    BY <1>1, <2>1, <2>3 DEF ResetAttempts
  <2> QED BY <2>2, <2>3
<1>2. CASE Cancel \/ Dispose
  BY <1>2 DEF Cancel, taskVars, Dispose, MayDispose, backOffVars, historyVars
<1>3. ASSUME NEW t \in Tasks, Start(t) PROVE BackOffInv' /\ Accounted
  BY <1>3 DEF Start, taskVars, MayStart, backOffVars, historyVars
<1>4. ASSUME NEW t \in Tasks, Schedule(t) PROVE BackOffInv' /\ Accounted
  BY <1>4 DEF Schedule, ownerVars, backOffVars, historyVars
<1>5. ASSUME NEW t \in Tasks, LoopCheck(t) PROVE BackOffInv' /\ Accounted
  BY <1>5 DEF LoopCheck, LoopCondition, Goto, ownerVars, backOffVars, historyVars
<1>6. ASSUME NEW t \in Tasks, NEW S \in SUBSET WorkItems, TakeWork(t, S) PROVE BackOffInv' /\ Accounted
  <2>1. status' = status /\ pc'[t] = "forAll" /\ \A u \in Tasks : u # t => pc'[u] = pc[u]
    BY <1>6 DEF TakeWork, Goto
  <2>2. \A u \in Tasks : ~At(u, "store")' /\ ~At(u, "timeout")
    BY <1>6, <2>1 DEF TakeWork
  <2>3. \A u \in Tasks : status'[u] \in {"none", "queued"} => pc'[u] = "check"
    BY <1>6, <2>1 DEF TakeWork
  <2>4. attempts' <= emptyPolls'
    BY <1>6 DEF TakeWork, AttemptsAfterReset
  <2> QED BY <2>2, <2>3, <2>4
<1>7. ASSUME NEW t \in Tasks, FindNothing(t) \/ PollFails(t) \/ PollFaults(t) PROVE BackOffInv' /\ Accounted
  BY <1>7 DEF FindNothing, PollFails, PollFaults, Goto, ownerVars, backOffVars
<1>8. ASSUME NEW t \in Tasks, LoadAttempts(t) PROVE BackOffInv' /\ Accounted
  <2>1. Increment(attempts) <= Increment(emptyPolls) /\ emptyPolls <= Increment(emptyPolls)
    BY IncrementMonotone, ConstantsType DEF Increment
  <2>2. emptyPolls' = Increment(emptyPolls) /\ attempts' = attempts /\ status' = status
    BY <1>8 DEF LoadAttempts
  <2>3. attempts' <= emptyPolls'
    BY <2>1, <2>2, IncrementType
  <2>4. loaded'[t] = attempts /\ pc'[t] = "store" /\ \A u \in Tasks : u # t => pc'[u] = pc[u]
    BY <1>8 DEF LoadAttempts, Goto
  <2>5. \A u \in Tasks : u # t => status[u] # "running"
    BY <1>8 DEF LoadAttempts
  <2>6. \A u \in Tasks : At(u, "store")' => Increment(loaded'[u]) <= emptyPolls'
    BY <2>1, <2>2, <2>4, <2>5
  <2> QED BY <1>8, <2>2, <2>3, <2>4, <2>5, <2>6 DEF LoadAttempts
<1>9. ASSUME NEW t \in Tasks, StoreAttempts(t) PROVE BackOffInv' /\ Accounted
  BY <1>9, IncrementType DEF StoreAttempts, Goto, ownerVars, backOffVars, historyVars
<1>10. ASSUME NEW t \in Tasks, GetTimeoutAsTimeSpan(t) PROVE BackOffInv' /\ Accounted
  <2>1. ExponentialDelay(attempts, MaxDelay) \in Delays(emptyPolls)
    BY DelayInDelays, ConstantsType
  <2> QED BY <1>10, <2>1 DEF GetTimeoutAsTimeSpan, Timeout, Goto, ownerVars, backOffVars, historyVars
<1>11. ASSUME NEW t \in Tasks, Wake(t) PROVE BackOffInv' /\ Accounted
  BY <1>11 DEF Wake, Goto, ownerVars, backOffVars, historyVars
<1>12. ASSUME NEW t \in Tasks, EndForAll(t) \/ \E i \in WorkItems : ExecuteWork(t, i)
       PROVE  BackOffInv' /\ Accounted
  BY <1>12 DEF EndForAll, BatchOver, ExecuteWork, ItemSteps, Goto, ownerVars, backOffVars, historyVars
<1> QED BY <1>1, <1>2, <1>3, <1>4, <1>5, <1>6, <1>7, <1>8, <1>9, <1>10, <1>11, <1>12
        DEF Next, Owner, Loop, BackOff

\* The loop never sleeps longer than the back-offs since the last reset account
\* for: a reset is lost only between the two halves of attempts++.
THEOREM SleepsAccountedFor == Spec => SleepAccountedFor
<1>1. Init => BackOffInv
  BY DEF Init, BackOffInv, At
<1>2. TypeOK /\ AtMostOneLoop /\ BackOffInv /\ [Next]_vars => BackOffInv'
  <2>1. ASSUME BackOffInv, UNCHANGED vars PROVE BackOffInv'
    BY <2>1 DEF BackOffInv, At, vars, taskVars, ownerVars, backOffVars, historyVars
  <2> QED BY <2>1, BackOffStep
<1>3. TypeOK /\ AtMostOneLoop /\ BackOffInv /\ [Next]_vars
      => [\A t \in Tasks :
            At(t, "timeout") /\ ~At(t, "timeout")' => delay'[t] \in Delays(emptyPolls)]_vars
  BY BackOffStep
<1> QED BY <1>1, <1>2, <1>3, TypeCorrect, LoopsUnderControl, PTL DEF Spec, SleepAccountedFor
-----------------------------------------------------------------------------
\* 2^n counts the sets of numbers up to n; those with n + 1 are as many again.
LEMMA PowerOfTwo ==
  ASSUME NEW n \in Nat
  PROVE  2^n \in Nat \ {0} /\ 2^(n + 1) = 2 * 2^n
<1> DEFINE S == 1..n
           T == SUBSET S
           U == {X \cup {n + 1} : X \in T}
<1>1. IsFiniteSet(T) /\ Cardinality(T) = 2^n /\ Cardinality(T) \in Nat
  <2>1. IsFiniteSet(S) /\ Cardinality(S) = n
    BY FS_Interval
  <2> HIDE DEF S
  <2> QED BY <2>1, FS_SUBSET, FS_CardinalityType
<1>2. SUBSET (1..(n + 1)) = T \cup U
  <2>1. SUBSET (1..(n + 1)) \subseteq T \cup U
    <3> SUFFICES ASSUME NEW Y \in SUBSET (1..(n + 1)), Y \notin T PROVE Y \in U
      OBVIOUS
    <3>1. Y \ {n + 1} \in T /\ n + 1 \in Y
      OBVIOUS
    <3>2. Y = (Y \ {n + 1}) \cup {n + 1}
      BY <3>1
    <3> HIDE DEF T
    <3> QED BY <3>1, <3>2
  <2>2. T \cup U \subseteq SUBSET (1..(n + 1))
    <3> SUFFICES ASSUME NEW X \in T PROVE X \subseteq 1..(n + 1) /\ X \cup {n + 1} \subseteq 1..(n + 1)
      OBVIOUS
    <3>1. S \subseteq 1..(n + 1) /\ n + 1 \in 1..(n + 1)
      OBVIOUS
    <3> HIDE DEF S
    <3> QED BY <3>1
  <2> HIDE DEF T, U
  <2> QED BY <2>1, <2>2
<1>3. T \cap U = {}
  OBVIOUS
<1>4. IsFiniteSet(U) /\ Cardinality(U) = 2^n
  <2> DEFINE f == [X \in T |-> X \cup {n + 1}]
  <2>1. f \in [T -> U] /\ \A X \in T : f[X] = X \cup {n + 1}
    OBVIOUS
  <2>2. \A Y \in U : \E X \in T : f[X] = Y
    BY <2>1
  <2>3. \A X, Y \in T : f[X] = f[Y] => X = Y
    <3> SUFFICES ASSUME NEW X \in T, NEW Y \in T, f[X] = f[Y] PROVE X = Y
      OBVIOUS
    <3>1. X \cup {n + 1} = Y \cup {n + 1}
      BY <2>1
    <3>2. n + 1 \notin X /\ n + 1 \notin Y
      OBVIOUS
    <3> QED BY <3>1, <3>2
  <2> HIDE DEF f, T, U
  <2>4. f \in Bijection(T, U)
    BY <2>1, <2>2, <2>3, Fun_IsBij
  <2> QED BY <1>1, <2>4, FS_Bijection DEF ExistsBijection
<1>5. Cardinality(SUBSET (1..(n + 1))) = 2^n + 2^n
  <2> HIDE DEF T, U
  <2>1. 2^n \in Nat
    BY <1>1
  <2>2. Cardinality(T \cup U) = Cardinality(T) + Cardinality(U) - Cardinality(T \cap U)
    BY <1>1, <1>4, FS_Union
  <2>3. Cardinality(T \cap U) = 0
    BY <1>3, FS_EmptySet
  <2>4. Cardinality(T \cup U) = 2^n + 2^n
    BY <2>1, <2>2, <2>3, <1>1, <1>4
  <2> QED BY <2>4, <1>2
<1>6. Cardinality(SUBSET (1..(n + 1))) = 2^(n + 1)
  <2>1. IsFiniteSet(1..(n + 1)) /\ Cardinality(1..(n + 1)) = n + 1
    BY FS_Interval
  <2> QED BY <2>1, FS_SUBSET
<1>7. 2^n # 0
  <2>1. {} \in T
    OBVIOUS
  <2> HIDE DEF T
  <2> QED BY <1>1, <2>1, FS_EmptySet
<1> HIDE DEF T
<1> QED BY <1>1, <1>5, <1>6, <1>7

\* The first two powers.
LEMMA FirstPowers == 2^0 = 1 /\ 2^1 = 2
<1>1. 2^0 = 1
  <2>1. SUBSET {} = {{}}
    OBVIOUS
  <2> QED BY <2>1, FS_EmptySet, FS_SUBSET, FS_Singleton
<1> QED BY <1>1, PowerOfTwo

\* The delay that is computed in half seconds, cut and rounded is the one the
\* table lists, for any number of attempts and any maximum: from two attempts on
\* there is a half second, and it is rounded up.
LEMMA DelayIsListed ==
  ASSUME NEW n \in Nat
  PROVE  ExponentialDelay(n, MaxDelay) = Listed(n)
<1> MaxDelay \in Nat
  BY ConstantsAssumption
<1> USE DEF ExponentialDelay, HalfSeconds, Capped, ToInt64, Listed
<1>1. CASE n = 0
  BY <1>1, FirstPowers
<1>2. CASE n = 1
  BY <1>2, FirstPowers
<1>3. CASE n > 1
  <2> DEFINE q == 2^(n - 2)
  <2>1. q \in Nat \ {0} /\ 2^(n - 1) = 2 * q /\ 2^n = 4 * q
    <3>1. n - 2 \in Nat /\ n - 1 \in Nat /\ (n - 2) + 1 = n - 1 /\ (n - 1) + 1 = n
      BY <1>3
    <3> QED BY <3>1, PowerOfTwo
  <2> HIDE DEF q
  <2>2. (4 * q - 1) \div 2 = 2 * q - 1 /\ (4 * q - 1) % 2 = 1 /\ (2 * q - 1) % 2 = 1
    BY <2>1
  <2> QED BY <1>3, <2>1, <2>2
<1> QED BY <1>1, <1>2, <1>3

\* What a loop that reads its attempts sleeps is what the table lists, for any
\* number of attempts and any maximum; no other step ends that phase.
THEOREM SleepsWhatIsListed == Spec => SleepsAsListed
<1>1. TypeOK /\ [Next]_vars
      => [\A t \in Tasks : At(t, "timeout") /\ ~At(t, "timeout")' => delay'[t] = Listed(attempts)]_vars
  <2> SUFFICES ASSUME TypeOK, Next, NEW t \in Tasks, At(t, "timeout"), ~At(t, "timeout")'
               PROVE  delay'[t] = Listed(attempts)
    BY DEF vars
  <2> USE DEF TypeOK, At
  <2>1. CASE Owner
    BY <2>1 DEF Owner, Start, Cancel, ResetAttempts, Dispose, taskVars
  <2>2. ASSUME NEW u \in Tasks, Loop(u), u # t PROVE FALSE
    BY <2>2 DEF Loop, Schedule, LoopCheck, TakeWork, FindNothing, PollFails, PollFaults, BackOff, LoadAttempts,
                StoreAttempts, GetTimeoutAsTimeSpan, Wake, ExecuteWork, EndForAll, Goto
  <2>3. CASE Loop(t)
    <3>1. GetTimeoutAsTimeSpan(t)
      BY <2>3 DEF Loop, Schedule, LoopCheck, TakeWork, FindNothing, PollFails, PollFaults, BackOff, LoadAttempts,
                  StoreAttempts, Wake, ExecuteWork, EndForAll
    <3>2. delay'[t] = ExponentialDelay(attempts, MaxDelay)
      BY <3>1 DEF GetTimeoutAsTimeSpan, Timeout
    <3> QED BY <3>2, DelayIsListed, ConstantsAssumption
  <2> QED BY <2>1, <2>2, <2>3 DEF Next
<1> QED BY <1>1, TypeCorrect, PTL DEF Spec, SleepsAsListed
-----------------------------------------------------------------------------
\* Items are in hand only inside ForAll, and a loop starts at its condition.
ItemsInv ==
  \A t \in Tasks : /\ ~At(t, "forAll") => item[t] = NoItems
                   /\ status[t] \in {"none", "queued"} => pc[t] = "check"

LEMMA ItemsInHand == Spec => []ItemsInv
<1>1. Init => ItemsInv
  BY DEF Init, ItemsInv
<1>2. TypeOK /\ ItemsInv /\ [Next]_vars => ItemsInv'
  <2> SUFFICES ASSUME TypeOK, ItemsInv, [Next]_vars PROVE ItemsInv'
    OBVIOUS
  <2> USE DEF TypeOK, ItemsInv, At, Goto
  <2>1. CASE Owner
    BY <2>1 DEF Owner, Start, MayStart, Cancel, ResetAttempts, Dispose, taskVars
  <2>2. ASSUME NEW t \in Tasks, Schedule(t) \/ LoopCheck(t) PROVE ItemsInv'
    BY <2>2 DEF Schedule, LoopCheck
  <2>3. ASSUME NEW t \in Tasks, NEW S \in SUBSET WorkItems, TakeWork(t, S) PROVE ItemsInv'
    BY <2>3 DEF TakeWork
  <2>4. ASSUME NEW t \in Tasks, FindNothing(t) \/ PollFails(t) \/ PollFaults(t) \/ BackOff(t)
        PROVE  ItemsInv'
    BY <2>4 DEF FindNothing, PollFails, PollFaults,
                BackOff, LoadAttempts, StoreAttempts, GetTimeoutAsTimeSpan, Wake
  <2>5. ASSUME NEW t \in Tasks, EndForAll(t) \/ \E i \in WorkItems : ExecuteWork(t, i)
        PROVE  ItemsInv'
    BY <2>5 DEF EndForAll, ExecuteWork
  <2>6. CASE UNCHANGED vars
    BY <2>6 DEF vars, taskVars
  <2> QED BY <2>1, <2>2, <2>3, <2>4, <2>5, <2>6 DEF Next, Loop
<1> QED BY <1>1, <1>2, TypeCorrect, PTL DEF Spec

\* A step that leaves the loop of t alone is a stutter of its work loop.
LEMMA OtherLoops ==
  ASSUME NEW t \in Tasks, status'[t] = status[t], pc'[t] = pc[t], item'[t] = item[t]
  PROVE  UNCHANGED W(t)!vars
  BY DEF W!vars, Phase, At

\* A step of the loop of t is a step of its work loop, or a stutter.
LEMMA OwnLoop ==
  ASSUME TypeOK, ItemsInv, NEW t \in Tasks, Loop(t)
  PROVE  W(t)!Next \/ UNCHANGED W(t)!vars
<1> USE DEF TypeOK, ItemsInv, At, Goto, Phase, Live, Ended
<1>1. CASE Schedule(t)
  <2>1. item' = item /\ Phase(t) = "idle" /\ Phase(t)' \in {"idle", "stopped"}
    BY <1>1 DEF Schedule
  <2> QED BY <2>1 DEF W!Next, W!Stop, W!vars
<1>2. CASE LoopCheck(t)
  <2>1. item' = item /\ Phase(t) = "idle" /\ Phase(t)' \in {"polling", "stopped"}
    BY <1>2 DEF LoopCheck
  <2> QED BY <2>1 DEF W!Next, W!Stop, W!Poll
<1>3. ASSUME NEW S \in SUBSET WorkItems, S # {}, TakeWork(t, S) PROVE W(t)!Next
  <2>1. Phase(t) = "polling" /\ Phase(t)' = "working" /\ item'[t] = Batch(S)
    BY <1>3 DEF TakeWork
  <2> QED BY <1>3, <2>1 DEF W!Next, W!Take, W!Batch, Batch
<1>4. CASE FindNothing(t) \/ PollFails(t) \/ PollFaults(t)
  <2>1. item' = item /\ Phase(t) = "polling" /\ Phase(t)' \in {"idle", "stopped"}
    BY <1>4 DEF FindNothing, PollFails, PollFaults
  <2> QED BY <2>1 DEF W!Next, W!FindNothing, W!Stop
<1>5. CASE BackOff(t)
  <2>1. item' = item /\ Phase(t) = "idle" /\ Phase(t)' = "idle"
    BY <1>5 DEF BackOff, LoadAttempts, StoreAttempts, GetTimeoutAsTimeSpan, Wake
  <2> QED BY <2>1 DEF W!vars
<1>6. ASSUME NEW i \in WorkItems, ExecuteWork(t, i) PROVE W(t)!Next
  <2>1. Phase(t) = "working" /\ Phase(t)' = "working"
    BY <1>6 DEF ExecuteWork
  <2>2. PICK step \in ItemSteps : item[t][i] = step[1] /\ item' = [item EXCEPT ![t][i] = step[2]]
    BY <1>6 DEF ExecuteWork
  <2>3. item'[t] = [item[t] EXCEPT ![i] = step[2]]
    BY <2>2
  <2>4. W(t)!Work(i)
    BY <2>1, <2>2, <2>3 DEF W!Work, W!ItemSteps, ItemSteps
  <2> QED BY <2>4 DEF W!Next
<1>7. CASE EndForAll(t)
  <2>1. Phase(t) = "working" /\ Phase(t)' = "idle" /\ item'[t] = NoItems
    BY <1>7 DEF EndForAll
  <2>2. BatchOver(item[t])
    BY <1>7 DEF EndForAll
  <2> QED BY <2>1, <2>2 DEF W!Next, W!EndBatch, W!NoItems, W!Batch, NoItems, Batch, BatchOver
<1> QED BY <1>1, <1>2, <1>3, <1>4, <1>5, <1>6, <1>7 DEF Loop

\* Start of a task that is born canceled is a stop of its work loop; the rest
\* of what the owner does is a stutter of every loop.
LEMMA OwnerRefines ==
  ASSUME TypeOK, ItemsInv, Owner, NEW t \in Tasks
  PROVE  W(t)!Next \/ UNCHANGED W(t)!vars
<1>1. ASSUME NEW u \in Tasks, Start(u) PROVE W(t)!Next \/ UNCHANGED W(t)!vars
  <2>1. CASE u = t
    <3>1. item' = item /\ Phase(t) = "idle" /\ Phase(t)' \in {"idle", "stopped"}
      BY <1>1, <2>1 DEF Start, TypeOK, Phase, Ended, At
    <3> QED BY <3>1 DEF W!Next, W!Stop, W!vars
  <2>2. CASE u # t
    BY <1>1, <2>2, OtherLoops DEF Start, TypeOK
  <2> QED BY <2>1, <2>2
<1>2. CASE Cancel \/ ResetAttempts \/ Dispose
  BY <1>2, OtherLoops DEF Cancel, ResetAttempts, Dispose, taskVars
<1> QED BY <1>1, <1>2 DEF Owner

\* The loop of PollingTask implements the contract of WorkLoop, for every
\* task: whatever the owner does meanwhile, an item goes through Execute and
\* Completed at most once per batch, in that order, and no poll starts and no
\* loop ends while one is in hand.
THEOREM ImplementsTheContract == Spec => ImplementsWorkLoop
<1>1. Init => \A t \in Tasks : W(t)!Init
  <2> SUFFICES ASSUME Init, NEW t \in Tasks PROVE W(t)!Init
    OBVIOUS
  <2>1. Phase(t) = "idle" /\ item[t] = NoItems
    <3>1. status[t] = "none" /\ item[t] = NoItems
      BY DEF Init
    <3> QED BY <3>1 DEF Phase, At, Ended
  <2> QED BY <2>1 DEF W!Init, W!NoItems, W!Batch, NoItems, Batch
<1>2. TypeOK /\ ItemsInv /\ [Next]_vars => [\A t \in Tasks : W(t)!Next \/ UNCHANGED W(t)!vars]_vars
  <2> SUFFICES ASSUME TypeOK, ItemsInv, Next, NEW t \in Tasks
               PROVE  W(t)!Next \/ UNCHANGED W(t)!vars
    OBVIOUS
  <2>1. CASE Owner
    BY <2>1, OwnerRefines
  <2>2. ASSUME NEW u \in Tasks, Loop(u) PROVE W(t)!Next \/ UNCHANGED W(t)!vars
    <3>1. CASE u = t
      BY <2>2, <3>1, OwnLoop
    <3>2. CASE u # t
      <4>1. status'[t] = status[t] /\ pc'[t] = pc[t] /\ item'[t] = item[t]
        BY <2>2, <3>2
           DEF Loop, Schedule, LoopCheck, TakeWork, FindNothing, PollFails, PollFaults, BackOff,
               LoadAttempts, StoreAttempts, GetTimeoutAsTimeSpan, Wake, ExecuteWork, EndForAll,
               Goto, TypeOK
      <4> QED BY <4>1, OtherLoops
    <3> QED BY <3>1, <3>2
  <2> QED BY <2>1, <2>2 DEF Next
<1> QED BY <1>1, <1>2, TypeCorrect, ItemsInHand, PTL DEF Spec, ImplementsWorkLoop
-----------------------------------------------------------------------------
(* Why a cancelled loop ends, and one that is not polls again.             *)

\* How many places of the loop lie before the next poll, or, once it is
\* cancelled, before its end.
Before(t) == CASE pc[t] = "getWork"             -> IF cancelled THEN 6 ELSE 0
               [] pc[t] = "check"               -> 1
               [] pc[t] \in {"sleep", "forAll"} -> 2
               [] pc[t] = "timeout"             -> 3
               [] pc[t] = "store"               -> 4
               [] pc[t] = "load"                -> 5

\* How much of ExecuteWork an item has before it.
ItemLeft(s) == CASE s = "waiting" -> 3 [] s = "executing" -> 2 [] s = "executed" -> 1 [] OTHER -> 0

\* One item of the batch is nearer to its end, and the others are where they were.
ItemNearer(t) == \E i \in WorkItems : /\ ItemLeft(item'[t][i]) < ItemLeft(item[t][i])
                                      /\ \A j \in WorkItems \ {i} : item'[t][j] = item[t][j]

\* A queued task runs or ends unrun; a running one ends, comes to a place
\* nearer to the next poll or the end, or has done more of its batch.
Nearer(t) == \/ status'[t] \in Ended
             \/ status[t] = "queued" /\ status'[t] = "running" /\ ~cancelled
             \/ status[t] = "running" /\ status'[t] = "running" /\ Before(t)' < Before(t)
             \/ status[t] = "running" /\ status'[t] = "running" /\ pc'[t] = pc[t] /\ ItemNearer(t)

Stays(t) == status'[t] = status[t] /\ pc'[t] = pc[t] /\ item'[t] = item[t]

\* Whatever a live loop does, short of a poll while it is not cancelled, brings
\* it nearer; and neither its owner nor other tasks take that back.  A
\* cancellation is for good, and no live task comes after it.
Advances(t) ==
  /\ Loop(t) /\ (cancelled \/ ~At(t, "getWork")) => Nearer(t)
  /\ status[t] \in Live /\ ~Loop(t) => Stays(t)
  /\ cancelled /\ status'[t] \in Live => status[t] \in Live

LoopsAdvance == [][(cancelled => cancelled') /\ \A t \in Tasks : Advances(t)]_vars

\* The places as numbers.
LEMMA Places ==
  ASSUME TypeOK, NEW t \in Tasks
  PROVE  Before(t) = IF pc[t] = "getWork" THEN IF cancelled THEN 6 ELSE 0
                     ELSE IF pc[t] = "check" THEN 1
                     ELSE IF pc[t] = "timeout" THEN 3
                     ELSE IF pc[t] = "store" THEN 4
                     ELSE IF pc[t] = "load" THEN 5 ELSE 2
<1>1. pc[t] \in Positions
  BY DEF TypeOK
<1> QED BY <1>1 DEF Before, Positions

\* A step of an item is a step towards the end of its batch.
LEMMA ItemsComeNearer ==
  ASSUME TypeOK, NEW t \in Tasks, NEW i \in WorkItems, ExecuteWork(t, i)
  PROVE  ItemNearer(t) /\ status' = status /\ pc' = pc /\ At(t, "forAll")
<1>1. PICK step \in ItemSteps : item[t][i] = step[1] /\ item' = [item EXCEPT ![t][i] = step[2]]
  BY DEF ExecuteWork
<1>2. item'[t] = [item[t] EXCEPT ![i] = step[2]] /\ item[t] \in [WorkItems -> ItemStates]
  BY <1>1 DEF TypeOK
<1>3. item'[t][i] = step[2] /\ \A j \in WorkItems \ {i} : item'[t][j] = item[t][j]
  BY <1>2
<1>4. ItemLeft(step[2]) < ItemLeft(step[1])
  <2>1. /\ ItemLeft("waiting") = 3 /\ ItemLeft("executing") = 2 /\ ItemLeft("executed") = 1
        /\ ItemLeft("done") = 0 /\ ItemLeft("threw") = 0
    BY DEF ItemLeft
  <2> QED BY <2>1 DEF ItemSteps
<1>5. ItemNearer(t)
  BY <1>1, <1>3, <1>4 DEF ItemNearer
<1> QED BY <1>5 DEF ExecuteWork

\* A step of a live loop of its own.
LEMMA OwnStepAdvances ==
  ASSUME TypeOK, TypeOK', NEW t \in Tasks, Loop(t), cancelled \/ ~At(t, "getWork")
  PROVE  Nearer(t) /\ cancelled' = cancelled /\ status[t] \in Live
<1> USE DEF Live, Ended, At, Goto, TypeOK
<1>1. CASE Schedule(t)
  BY <1>1 DEF Schedule, ownerVars, Nearer
<1>2. ASSUME status[t] = "running", status'[t] = "running", UNCHANGED ownerVars,
             pc'[t] \in Positions,
             <<pc[t], pc'[t]>> \in {<<"getWork", "forAll">>, <<"getWork", "load">>, <<"getWork", "check">>,
                <<"check", "getWork">>, <<"load", "store">>, <<"store", "timeout">>,
                <<"timeout", "sleep">>, <<"sleep", "check">>, <<"forAll", "check">>},
             pc[t] = "check" => ~cancelled
      PROVE  Nearer(t) /\ cancelled' = cancelled /\ status[t] \in Live
  <2>1. cancelled' = cancelled
    BY <1>2 DEF ownerVars
  <2>2. Before(t)' = IF pc'[t] = "getWork" THEN IF cancelled THEN 6 ELSE 0
                     ELSE IF pc'[t] = "check" THEN 1
                     ELSE IF pc'[t] = "timeout" THEN 3
                     ELSE IF pc'[t] = "store" THEN 4
                     ELSE IF pc'[t] = "load" THEN 5 ELSE 2
    BY <1>2, <2>1 DEF Before, Positions
  <2>3. pc[t] = "getWork" => cancelled
    BY <1>2
  <2>4. Before(t)' < Before(t)
    BY <1>2, <2>2, <2>3, Places
  <2> QED BY <1>2, <2>1, <2>4 DEF Nearer
<1>3. CASE LoopCheck(t)
  <2>1. CASE LoopCondition
    BY <1>2, <1>3, <2>1 DEF LoopCheck, LoopCondition, Positions
  <2>2. CASE ~LoopCondition
    BY <1>3, <2>2 DEF LoopCheck, Nearer, ownerVars
  <2> QED BY <2>1, <2>2
<1>4. ASSUME NEW S \in SUBSET WorkItems, TakeWork(t, S)
      PROVE  Nearer(t) /\ cancelled' = cancelled /\ status[t] \in Live
  BY <1>2, <1>4 DEF TakeWork, Positions
<1>5. CASE FindNothing(t) \/ PollFails(t)
  BY <1>2, <1>5 DEF FindNothing, PollFails, Positions
<1>6. CASE PollFaults(t)
  BY <1>6 DEF PollFaults, Nearer, ownerVars
<1>7. CASE LoadAttempts(t) \/ StoreAttempts(t) \/ GetTimeoutAsTimeSpan(t) \/ Wake(t)
  BY <1>2, <1>7 DEF LoadAttempts, StoreAttempts, GetTimeoutAsTimeSpan, Wake, Positions
<1>8. ASSUME NEW i \in WorkItems, ExecuteWork(t, i)
      PROVE  Nearer(t) /\ cancelled' = cancelled /\ status[t] \in Live
  <2>1. ItemNearer(t) /\ status' = status /\ pc' = pc /\ status[t] = "running"
    BY <1>8, ItemsComeNearer
  <2>2. cancelled' = cancelled
    BY <1>8 DEF ExecuteWork, ownerVars
  <2> QED BY <2>1, <2>2 DEF Nearer
<1>9. CASE EndForAll(t)
  BY <1>2, <1>9 DEF EndForAll, Positions
<1> QED BY <1>1, <1>3, <1>4, <1>5, <1>6, <1>7, <1>8, <1>9 DEF Loop, BackOff

\* A step of another loop leaves t alone, and the token.
LEMMA OtherStepsStay ==
  ASSUME TypeOK, NEW t \in Tasks, NEW u \in Tasks, u # t, Loop(u)
  PROVE  Stays(t) /\ cancelled' = cancelled
  BY DEF Loop, Schedule, LoopCheck, TakeWork, FindNothing, PollFails, PollFaults, BackOff,
         LoadAttempts, StoreAttempts, GetTimeoutAsTimeSpan, Wake, ExecuteWork, EndForAll,
         Goto, TypeOK, Stays, ownerVars

\* What the owner does to a task: nothing, unless it starts it.
LEMMA OwnerStays ==
  ASSUME TypeOK, NEW t \in Tasks, Owner
  PROVE  /\ cancelled => cancelled'
         /\ status[t] \in Live => Stays(t)
         /\ cancelled /\ status'[t] \in Live => status[t] \in Live
<1>1. ASSUME NEW u \in Tasks, Start(u)
      PROVE  /\ cancelled' = cancelled
             /\ status[t] \in Live => Stays(t)
             /\ cancelled /\ status'[t] \in Live => status[t] \in Live
  BY <1>1 DEF Start, TypeOK, Live, Stays
<1>2. CASE Cancel
  <2>1. cancelled' = TRUE /\ status' = status /\ pc' = pc /\ item' = item
    BY <1>2 DEF Cancel, taskVars
  <2> QED BY <2>1 DEF Stays
<1>3. CASE ResetAttempts \/ Dispose
  <2>1. cancelled' = cancelled /\ status' = status /\ pc' = pc /\ item' = item
    BY <1>3 DEF ResetAttempts, Dispose, taskVars, ownerVars
  <2> QED BY <2>1 DEF Stays
<1> QED BY <1>1, <1>2, <1>3 DEF Owner

\* A batch never blocks its loop: while ForAll may not return, there is an item
\* for which ExecuteWork has a step to take.
BatchGoesOn ==
  \A t \in Tasks : At(t, "forAll") =>
    BatchOver(item[t]) \/ \E i \in WorkItems, step \in ItemSteps : item[t][i] = step[1]

\* Wherever items throw, and however many are abandoned, the batch goes on.
THEOREM BatchesGoOn == Spec => []BatchGoesOn
<1>1. TypeOK => BatchGoesOn
  BY DEF TypeOK, BatchGoesOn, BatchOver, ItemSteps
<1> QED BY <1>1, TypeCorrect, PTL

\* Every step of a live loop brings it nearer to its next poll or, once it is
\* cancelled, to its end, through back-off, batch and failures of items; and
\* nothing the owner or other tasks do takes that back.
THEOREM LoopsAlwaysAdvance == Spec => LoopsAdvance
<1>1. ASSUME TypeOK, TypeOK', Next, NEW t \in Tasks
      PROVE  (cancelled => cancelled') /\ Advances(t)
  <2>1. CASE Owner
    <3>1. Loop(t) /\ (cancelled \/ ~At(t, "getWork")) => Nearer(t)
      BY <1>1, OwnStepAdvances
    <3> QED BY <1>1, <2>1, <3>1, OwnerStays DEF Advances
  <2>2. CASE Loop(t)
    <3>1. cancelled \/ ~At(t, "getWork") => Nearer(t) /\ cancelled' = cancelled /\ status[t] \in Live
      BY <1>1, <2>2, OwnStepAdvances
    <3>2. cancelled => cancelled'
      BY <3>1
    <3> QED BY <2>2, <3>1, <3>2 DEF Advances
  <2>3. ASSUME NEW u \in Tasks, u # t, Loop(u), ~Loop(t)
        PROVE  (cancelled => cancelled') /\ Advances(t)
    <3>1. Stays(t) /\ cancelled' = cancelled
      BY <1>1, <2>3, OtherStepsStay
    <3> QED BY <2>3, <3>1 DEF Advances, Stays
  <2> QED BY <1>1, <2>1, <2>2, <2>3 DEF Next
<1>2. ASSUME TypeOK, TypeOK', Next PROVE cancelled => cancelled'
  <2>1. ASSUME NEW u \in Tasks, Start(u) \/ Loop(u) PROVE cancelled => cancelled'
    BY <1>1, <1>2, <2>1
  <2>2. CASE Cancel
    BY <2>2 DEF Cancel
  <2>3. CASE ResetAttempts \/ Dispose
    <3>1. cancelled' = cancelled
      BY <2>3 DEF ResetAttempts, Dispose, ownerVars
    <3> QED BY <3>1
  <2> QED BY <1>2, <2>1, <2>2, <2>3 DEF Next, Owner
<1>3. TypeOK /\ TypeOK' /\ Next => (cancelled => cancelled') /\ \A t \in Tasks : Advances(t)
  BY <1>1, <1>2, Zenon
<1>4. TypeOK /\ TypeOK' /\ [Next]_vars
        => [(cancelled => cancelled') /\ \A t \in Tasks : Advances(t)]_vars
  BY <1>3, Zenon
<1> QED BY <1>4, TypeCorrect, PTL DEF Spec, LoopsAdvance
=============================================================================
