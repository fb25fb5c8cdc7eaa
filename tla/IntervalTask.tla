---------------------------- MODULE IntervalTask ----------------------------
(***************************************************************************)
(* An IntervalTask: the loop that Start makes waits for an interval and    *)
(* then calls Execute, until it sees the cancellation.  What Execute does  *)
(* is left to who extends the module; its exceptions reach TryExecute as   *)
(* an AggregateException, and the loop goes on.                            *)
(***************************************************************************)
EXTENDS Integers

CONSTANT Interval   \* the interval, in ticks

ASSUME IntervalAssumption == Interval \in Nat

VARIABLES
  internalTask,  \* null, the task of the loop, or a task that was born canceled
  source,        \* the cancellation source is live, canceled, or disposed too
  loop,          \* where the loop is
  delay,         \* the ticks until Task.Delay completes
  afterCancel    \* the executions begun since the first Cancel

taskVars == <<internalTask, source, loop, delay, afterCancel>>

TaskTypeOK ==
  /\ internalTask \in {"null", "loop", "canceled"}
  /\ source \in {"live", "canceled", "disposed"}
  /\ loop \in {"none", "checking", "delaying", "executing", "over"}
  /\ delay \in 0..Interval
  /\ afterCancel \in Nat

TaskInit ==
  /\ internalTask = "null" /\ source = "live"
  /\ loop = "none" /\ delay = 0 /\ afterCancel = 0

\* Start throws when there is a task, and when the source is disposed.  With
\* the token canceled, Task.Run makes a task that never runs.
Start ==
  /\ internalTask = "null" /\ source # "disposed"
  /\ IF source = "live" THEN internalTask' = "loop" /\ loop' = "checking"
                        ELSE internalTask' = "canceled" /\ UNCHANGED loop
  /\ UNCHANGED <<source, delay, afterCancel>>

\* Cancel throws on a disposed source.
Cancel ==
  /\ source # "disposed"
  /\ source' = "canceled" /\ internalTask' = "null"
  /\ UNCHANGED <<loop, delay, afterCancel>>

\* Dispose(true) throws without a task and with one that is not completed:
\* after Cancel, that is, and before.
Dispose ==
  /\ internalTask = "canceled"
  /\ source' = "disposed" /\ internalTask' = "null"
  /\ UNCHANGED <<loop, delay, afterCancel>>

\* Mutant: the cancellation is not looked at.
Forever == TRUE

\* The condition of the loop.
NotCanceled == source = "live"

LoopCheck ==
  /\ loop = "checking"
  /\ IF NotCanceled THEN loop' = "delaying" /\ delay' = Interval
                    ELSE loop' = "over" /\ UNCHANGED delay
  /\ UNCHANGED <<internalTask, source, afterCancel>>

\* The delay is over and Execute is called, canceled or not.
BeginExecute ==
  /\ loop = "delaying" /\ delay = 0
  /\ loop' = "executing"
  /\ afterCancel' = IF source = "live" THEN 0 ELSE afterCancel + 1
  /\ UNCHANGED <<internalTask, source, delay>>

\* Execute returns; the continuation that TryExecute waits for is completed.
ExecuteReturns ==
  loop = "executing" /\ loop' = "checking" /\ UNCHANGED <<internalTask, source, delay, afterCancel>>

Elapse == /\ delay' = IF delay > 0 THEN delay - 1 ELSE 0
          /\ UNCHANGED <<internalTask, source, loop, afterCancel>>

Owner == Start \/ Cancel \/ Dispose

Running == loop \in {"checking", "delaying", "executing"}
=============================================================================
