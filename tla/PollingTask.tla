---------------------------- MODULE PollingTask -----------------------------
(***************************************************************************)
(* PollingTask<TWorkItem>: an owner starts, cancels and disposes the task  *)
(* object while the loop Task.Run started works on another thread and the  *)
(* items of a batch on a third, fourth...  The owner is sequential: its    *)
(* calls are atomic with respect to one another and interleave with the    *)
(* steps of the loop.  Each Start that gets through makes a new Task; all  *)
(* of them share one CancellationTokenSource, which nothing ever renews.   *)
(***************************************************************************)
EXTENDS DelayCalculator

CONSTANTS Tasks,          \* the Task objects Start may create
          NoTask,         \* null
          WorkItems,      \* the items TryGetWork may return
          MaxDelay,       \* maxDelayInSeconds
          AttemptsBound   \* attempts is not counted past this value

\* The bound on attempts hides nothing: the delay has reached its maximum.
ASSUME ConstantsAssumption ==
  /\ NoTask \notin Tasks
  /\ MaxDelay \in Nat
  /\ AttemptsBound \in Nat \ {0}
  /\ ExponentialDelay(AttemptsBound, MaxDelay) = MaxDelay

VARIABLES
  internalTask,      \* the field of that name
  cancelled,         \* source.IsCancellationRequested
  disposed,          \* source has been disposed
  attempts,          \* the field of that name
  status,            \* status[t]: the TaskStatus of t, "none" before it exists
  pc,                \* pc[t]: where the loop of t is
  loaded,            \* loaded[t]: the value attempts++ has read
  delay,             \* delay[t]: the seconds BackOff sleeps
  item,              \* item[t][i]: how far item i of the present batch has come
  emptyPolls,        \* history: back-offs begun since the attempts were last reset
  pollsAfterCancel   \* history: polls begun after the cancellation

ownerVars   == <<internalTask, cancelled, disposed>>
taskVars    == <<status, pc, item>>
backOffVars == <<loaded, delay>>
historyVars == <<emptyPolls, pollsAfterCancel>>
vars == <<ownerVars, attempts, taskVars, backOffVars, historyVars>>

Live       == {"queued", "running"}
Ended      == {"ranToCompletion", "faulted", "canceled"}
Positions  == {"check", "getWork", "forAll", "load", "store", "timeout", "sleep"}
ItemStates == {"absent", "waiting", "executing", "executed", "done", "threw"}

Batch(S) == [i \in WorkItems |-> IF i \in S THEN "waiting" ELSE "absent"]
NoItems  == Batch({})

\* Mutant: the constructor's maximum is ignored.
DefaultTimeout(n) == ExponentialDelay(n, 1024)

Timeout(n) == ExponentialDelay(n, MaxDelay)

\* The delays that up to n attempts without work account for.
Delays(n) == {ExponentialDelay(k, MaxDelay) : k \in 0..n}

TypeOK ==
  /\ internalTask \in Tasks \cup {NoTask}
  /\ cancelled \in BOOLEAN /\ disposed \in BOOLEAN
  /\ attempts \in 0..AttemptsBound
  /\ status \in [Tasks -> {"none"} \cup Live \cup Ended]
  /\ pc \in [Tasks -> Positions]
  /\ loaded \in [Tasks -> 0..AttemptsBound]
  /\ delay \in [Tasks -> Delays(AttemptsBound)]
  /\ item \in [Tasks -> [WorkItems -> ItemStates]]
  /\ emptyPolls \in 0..AttemptsBound
  /\ pollsAfterCancel \in 0..2

Init ==
  /\ internalTask = NoTask
  /\ cancelled = FALSE /\ disposed = FALSE
  /\ attempts = 0
  /\ status = [t \in Tasks |-> "none"]
  /\ pc = [t \in Tasks |-> "check"]
  /\ loaded = [t \in Tasks |-> 0]
  /\ delay = [t \in Tasks |-> Timeout(0)]
  /\ item = [t \in Tasks |-> NoItems]
  /\ emptyPolls = 0 /\ pollsAfterCancel = 0
-----------------------------------------------------------------------------
(* The owner.  A call that throws changes nothing and is no step: Start    *)
(* while internalTask is set, Start and Cancel once the source is          *)
(* disposed, Dispose with no task or with one that has not ended.          *)

\* Mutant: the test of internalTask is gone.
StartUnchecked == TRUE

MayStart == internalTask = NoTask

\* A task whose token is already cancelled is born canceled and never runs.
Start(t) ==
  /\ ~disposed /\ MayStart
  /\ status[t] = "none"
  /\ internalTask' = t
  /\ status' = [status EXCEPT ![t] = IF cancelled THEN "canceled" ELSE "queued"]
  /\ UNCHANGED <<cancelled, disposed, attempts, pc, item, backOffVars, historyVars>>

Cancel ==
  /\ ~disposed
  /\ cancelled' = TRUE
  /\ internalTask' = NoTask
  /\ UNCHANGED <<disposed, attempts, taskVars, backOffVars, historyVars>>

\* Mutant: the attempts outlive their reset.
AttemptsKept == attempts

AttemptsAfterReset == 0

\* t is running and its loop is at the given place.
At(t, place) == status[t] = "running" /\ pc[t] = place

\* A reset that falls between the two halves of attempts++ is undone by the
\* second; the history takes note of every other.
ResetAttempts ==
  /\ attempts' = AttemptsAfterReset
  /\ emptyPolls' = IF \E t \in Tasks : At(t, "store") THEN emptyPolls ELSE 0
  /\ UNCHANGED <<ownerVars, taskVars, backOffVars, pollsAfterCancel>>

\* Mutant: a live task is let go of.
DisposeUnchecked(t) == TRUE

\* Task.Dispose throws on a task that has not ended.
MayDispose(t) == status[t] \in Ended

Dispose ==
  /\ internalTask # NoTask /\ MayDispose(internalTask)
  /\ disposed' = TRUE
  /\ internalTask' = NoTask
  /\ UNCHANGED <<cancelled, attempts, taskVars, backOffVars, historyVars>>

Owner == (\E t \in Tasks : Start(t)) \/ Cancel \/ ResetAttempts \/ Dispose
-----------------------------------------------------------------------------
(* The thread pool and the loop.                                           *)

Goto(t, place) == pc' = [pc EXCEPT ![t] = place]

\* A thread takes the task up; a token cancelled by then ends it unrun.
Schedule(t) ==
  /\ status[t] = "queued"
  /\ status' = [status EXCEPT ![t] = IF cancelled THEN "canceled" ELSE "running"]
  /\ UNCHANGED <<ownerVars, attempts, pc, item, backOffVars, historyVars>>

\* Mutant: the loop has no condition.
LoopForever == TRUE

LoopCondition == ~cancelled

LoopCheck(t) ==
  /\ At(t, "check")
  /\ IF LoopCondition
       THEN Goto(t, "getWork") /\ UNCHANGED status
       ELSE status' = [status EXCEPT ![t] = "ranToCompletion"] /\ UNCHANGED pc
  /\ UNCHANGED <<ownerVars, attempts, item, backOffVars, historyVars>>

\* The bounded increment of attempts and of the history that mirrors it.
Increment(n) == IF n < AttemptsBound THEN n + 1 ELSE AttemptsBound

\* The history of the polls; the two counters stop at 2.
CountPoll == pollsAfterCancel' = IF cancelled /\ pollsAfterCancel < 2
                                   THEN pollsAfterCancel + 1 ELSE pollsAfterCancel

\* TryGetWork finds the work S: ResetAttempts, and the items go to ForAll.
TakeWork(t, S) ==
  /\ At(t, "getWork") /\ Goto(t, "forAll")
  /\ attempts' = AttemptsAfterReset
  /\ item' = [item EXCEPT ![t] = Batch(S)]
  /\ emptyPolls' = 0 /\ CountPoll
  /\ UNCHANGED <<ownerVars, status, backOffVars>>

\* TryGetWork finds nothing: BackOff.
FindNothing(t) ==
  /\ At(t, "getWork") /\ Goto(t, "load")
  /\ CountPoll
  /\ UNCHANGED <<ownerVars, attempts, status, item, backOffVars, emptyPolls>>

\* TryGetWork throws an AggregateException: it is reported, the loop goes on.
PollFails(t) ==
  /\ At(t, "getWork") /\ Goto(t, "check")
  /\ CountPoll
  /\ UNCHANGED <<ownerVars, attempts, status, item, backOffVars, emptyPolls>>

\* TryGetWork throws anything else, or returns null: nothing catches it, the
\* task ends Faulted and internalTask still refers to it.
PollFaults(t) ==
  /\ At(t, "getWork")
  /\ status' = [status EXCEPT ![t] = "faulted"]
  /\ CountPoll
  /\ UNCHANGED <<ownerVars, attempts, pc, item, backOffVars, emptyPolls>>

\* attempts++ is a read and a write: a ResetAttempts between them is lost.
LoadAttempts(t) ==
  /\ At(t, "load") /\ Goto(t, "store")
  /\ loaded' = [loaded EXCEPT ![t] = attempts]
  /\ emptyPolls' = Increment(emptyPolls)
  /\ UNCHANGED <<ownerVars, attempts, status, item, delay, pollsAfterCancel>>

StoreAttempts(t) ==
  /\ At(t, "store") /\ Goto(t, "timeout")
  /\ attempts' = Increment(loaded[t])
  /\ UNCHANGED <<ownerVars, status, item, backOffVars, historyVars>>

GetTimeoutAsTimeSpan(t) ==
  /\ At(t, "timeout") /\ Goto(t, "sleep")
  /\ delay' = [delay EXCEPT ![t] = Timeout(attempts)]
  /\ UNCHANGED <<ownerVars, attempts, status, item, loaded, historyVars>>

\* Thread.Sleep returns; it does not watch the token.
Wake(t) ==
  /\ At(t, "sleep") /\ Goto(t, "check")
  /\ UNCHANGED <<ownerVars, attempts, status, item, backOffVars, historyVars>>

BackOff(t) == LoadAttempts(t) \/ StoreAttempts(t) \/ GetTimeoutAsTimeSpan(t) \/ Wake(t)

\* Mutant: Completed runs even for an item that has thrown.
StepsOfFinally == {<<"waiting", "executing">>, <<"executing", "executed">>, <<"threw", "executed">>,
                   <<"executed", "done">>, <<"executing", "threw">>}

\* The steps of ExecuteWork: Execute, then Completed; either may throw.
ItemSteps == {<<"waiting", "executing">>, <<"executing", "executed">>,
              <<"executed", "done">>, <<"executing", "threw">>, <<"executed", "threw">>}

ExecuteWork(t, i) ==
  /\ At(t, "forAll")
  /\ \E step \in ItemSteps :
       item[t][i] = step[1] /\ item' = [item EXCEPT ![t][i] = step[2]]
  /\ UNCHANGED <<ownerVars, attempts, status, pc, backOffVars, historyVars>>

\* Mutant: ForAll waits for the items that have thrown, too.
AllCompleted(batch) == \A i \in WorkItems : batch[i] \in {"absent", "done"}

\* ForAll returns when every item is through.  After one has thrown the
\* partitions stop at their next item and those not started are abandoned.
BatchOver(batch) ==
  /\ \A i \in WorkItems : batch[i] \notin {"executing", "executed"}
  /\ \A i \in WorkItems : batch[i] = "waiting" => \E j \in WorkItems : batch[j] = "threw"

\* With or without an AggregateException the loop goes on at once.
EndForAll(t) ==
  /\ At(t, "forAll") /\ Goto(t, "check")
  /\ BatchOver(item[t])
  /\ item' = [item EXCEPT ![t] = NoItems]
  /\ UNCHANGED <<ownerVars, attempts, status, backOffVars, historyVars>>

\* A step of the thread that runs t, or of the items it works on.
Loop(t) ==
  \/ Schedule(t) \/ LoopCheck(t)
  \/ \E S \in SUBSET WorkItems : S # {} /\ TakeWork(t, S)
  \/ FindNothing(t) \/ PollFails(t) \/ PollFaults(t)
  \/ BackOff(t)
  \/ \E i \in WorkItems : ExecuteWork(t, i)
  \/ EndForAll(t)

Next == Owner \/ \E t \in Tasks : Loop(t)

Spec == Init /\ [][Next]_vars

\* The thread pool runs what it is given, a sleep ends, and Execute,
\* Completed and TryGetWork return: no other fairness is assumed, and none of
\* the owner.
FairSpec == Spec /\ \A t \in Tasks : WF_vars(Loop(t))
-----------------------------------------------------------------------------
(* Properties.                                                             *)

LiveTasks == {t \in Tasks : status[t] \in Live}

\* However Start, Cancel and Dispose are mixed, at most one loop is alive:
\* Cancel forgets a loop that may go on for a while, and what keeps a second
\* one from running beside it is that the source is never renewed.
AtMostOneLoop == \A s, t \in LiveTasks : s = t

\* A loop that is alive can still be stopped or has been told to: the owner
\* either holds it in internalTask or has cancelled it.  In particular a
\* disposed source, on which Cancel throws, leaves no loop running for ever.
NoUnstoppableLoop ==
  \A t \in LiveTasks : cancelled \/ (internalTask = t /\ ~disposed)

\* Cancellation is seen at the next turn of the loop: at most one more poll
\* is made, the one whose check had already passed.
OnePollAfterCancel == pollsAfterCancel <= 1

\* The loop never sleeps longer than the back-offs since the attempts were
\* last reset account for, although the field is shared without a lock: a
\* ResetAttempts by another thread is lost only inside attempts++, and at any
\* other moment shortens the very next sleep.
SleepAccountedFor ==
  [][\A t \in Tasks :
       At(t, "timeout") /\ ~At(t, "timeout")' => delay'[t] \in Delays(emptyPolls)]_vars

\* The sleep that the table in DelayCalculator.cs lists after n attempts.
Listed(n) == LET seconds == IF n <= 1 THEN 0 ELSE 2^(n - 1)
             IN  IF seconds > MaxDelay THEN MaxDelay ELSE seconds

\* A loop sleeps what the table lists for the attempts counted when it reads
\* them: nothing after the first, then doubling, cut to the maximum.  The code
\* halves 2^n - 1, which gives the table only because every half second goes to
\* the even second.
SleepsAsListed ==
  [][\A t \in Tasks : At(t, "timeout") /\ ~At(t, "timeout")' => delay'[t] = Listed(attempts)]_vars

\* Start refuses with "Task is already running" only when that is so, at least
\* as long as nobody has cancelled.
StartRefusedOnlyWhileRunning ==
  internalTask # NoTask /\ ~cancelled => status[internalTask] \in Live

\* A cancelled loop ends, wherever the cancellation finds it.
CancelledLoopsEnd == cancelled ~> LiveTasks = {}

\* A loop that neither ends nor faults polls again and again.
KeepsPolling == \A t \in Tasks :
  status[t] = "running" ~> status[t] \in Ended \/ At(t, "getWork")

\* The loop of t, seen as a work loop.
Phase(t) ==
  CASE status[t] \in {"none", "queued"} -> "idle"
    [] status[t] \in Ended              -> "stopped"
    [] At(t, "getWork")                 -> "polling"
    [] At(t, "forAll")                  -> "working"
    [] OTHER                            -> "idle"

W(t) == INSTANCE WorkLoop WITH Items <- WorkItems, MayCrash <- FALSE,
                               phase <- Phase(t), item <- item[t]

\* Every loop does what the template method promises: for all t, W(t)!Spec,
\* written as one action formula over the variables of this module.
ImplementsWorkLoop ==
  /\ \A t \in Tasks : W(t)!Init
  /\ [][\A t \in Tasks : W(t)!Next \/ UNCHANGED W(t)!vars]_vars
=============================================================================
