----------------------- MODULE SqlDatabaseAutoScaler -----------------------
(***************************************************************************)
(* A SqlDatabaseAutoScaler and its database, which others fill and empty.  *)
(* Execute is async void: it returns to the loop as soon as it has to wait *)
(* for the query, so that executions overlap, and an exception it throws   *)
(* ends the process.  Recommendations come through the DatabaseCache; the  *)
(* query and the ALTER DATABASE are retried.  Sizes are in tenths of a     *)
(* gigabyte, maximum sizes in gigabytes.                                   *)
(***************************************************************************)
EXTENDS IntervalTask

CONSTANTS
  Executions,      \* those that may be under way at once
  Sizes,           \* the sizes the database may have
  InitialMaxSize,  \* the maximum size it was made with
  AbsoluteMaxSize, \* absoluteMaxSize
  CacheTime,       \* the minute of the cache, in ticks
  MaxRetries,      \* RetryParams.MaxRetries
  None             \* no entry, no recommendation, no execution

ASSUME ScalerAssumption ==
  /\ Sizes \subseteq Nat /\ InitialMaxSize \in Nat /\ AbsoluteMaxSize \in Nat
  /\ CacheTime \in Nat \ {0} /\ MaxRetries \in Nat
  /\ None \notin Executions

VARIABLES
  size,     \* what the database holds
  maxSize,  \* its MAXSIZE
  cached,   \* the entry of the cache, with the ticks it has left and its age
  step,     \* step[e]: where Execute is
  advice,   \* advice[e]: the recommendation it has
  policy,   \* policy[e]: the ticks until its CacheItemPolicy expires
  age,      \* age[e]: the ticks since its query was answered
  tries,    \* tries[e]: the attempts of its query or command that have failed
  waiting,  \* the execution the loop waits for, or None
  alive     \* the process is

databaseVars == <<size, maxSize>>
executionVars == <<step, advice, policy, age, tries, waiting>>
vars == <<taskVars, databaseVars, cached, executionVars, alive>>

ListedSizes == {1, 5, 10, 20, 30, 40, 50, 100, 150}

MaxSizes == ListedSizes \cup {InitialMaxSize}

Advice == [current : MaxSizes, max : ListedSizes]

ScalerTypeOK ==
  /\ TaskTypeOK
  /\ size \in Sizes /\ maxSize \in MaxSizes
  /\ cached = None \/ cached \in [advice : Advice, left : 1..CacheTime, age : 0..CacheTime]
  /\ step \in [Executions -> {"none", "started", "found", "querying", "answered", "altering"}]
  /\ advice \in [Executions -> Advice \cup {None}]
  /\ \A e \in Executions : step[e] \in {"answered", "altering"} => advice[e] \in Advice
  /\ policy \in [Executions -> 0..CacheTime]
  /\ age \in [Executions -> 0..CacheTime]
  /\ tries \in [Executions -> 0..MaxRetries]
  /\ waiting \in Executions \cup {None}
  /\ alive \in BOOLEAN

Init ==
  /\ TaskInit
  /\ size \in Sizes /\ maxSize = InitialMaxSize
  /\ cached = None
  /\ step = [e \in Executions |-> "none"]
  /\ advice = [e \in Executions |-> None]
  /\ policy = [e \in Executions |-> 0]
  /\ age = [e \in Executions |-> 0]
  /\ tries = [e \in Executions |-> 0]
  /\ waiting = None /\ alive = TRUE
-----------------------------------------------------------------------------
(* The database.                                                           *)

Increment == 1

\* A database of size s and the increment has room under the maximum n, or n is
\* the last one listed.
Holds(n, s) == s + Increment < 10 * n \/ n = 150

\* The stored procedure tries the listed sizes from the largest to the smallest.
GetDatabaseSizeRecommendation ==
  [current |-> maxSize,
   max |-> CHOOSE n \in ListedSizes : /\ Holds(n, size)
                                      /\ \A k \in ListedSizes : Holds(k, size) => n <= k]

\* Others insert and delete.
SizeChanges == /\ size' \in Sizes \ {size}
               /\ UNCHANGED <<taskVars, maxSize, cached, executionVars, alive>>
-----------------------------------------------------------------------------
(* Execute.                                                                *)

\* e goes on at s, with what it needs to know there.
GoOn(e, s, r, p) ==
  /\ step' = [step EXCEPT ![e] = s]
  /\ advice' = [advice EXCEPT ![e] = r]
  /\ policy' = [policy EXCEPT ![e] = p]
  /\ age' = [age EXCEPT ![e] = 0]
  /\ tries' = [tries EXCEPT ![e] = 0]

\* If the loop waits for e, it does no longer.
LoopReleased(e) ==
  IF waiting = e THEN waiting' = None /\ ExecuteReturns ELSE UNCHANGED <<waiting, taskVars>>

Return(e) == GoOn(e, "none", None, 0) /\ LoopReleased(e)

\* An exception leaves an async void method.
ProcessEnds ==
  /\ alive' = FALSE /\ loop' = "over" /\ delay' = 0
  /\ cached' = None /\ waiting' = None
  /\ step' = [e \in Executions |-> "none"]
  /\ advice' = [e \in Executions |-> None]
  /\ policy' = [e \in Executions |-> 0]
  /\ age' = [e \in Executions |-> 0]
  /\ tries' = [e \in Executions |-> 0]
  /\ UNCHANGED <<internalTask, source, afterCancel, size>>

\* WithCache makes the policy.
Execute(e) ==
  /\ BeginExecute /\ step[e] = "none"
  /\ GoOn(e, "started", None, CacheTime) /\ waiting' = e
  /\ UNCHANGED <<databaseVars, cached, alive>>

\* QueryAsync looks for the entry.  Without one it goes to the database, and
\* the loop goes on.
Contains(e) ==
  /\ step[e] = "started"
  /\ IF cached # None
       THEN GoOn(e, "found", None, 0) /\ UNCHANGED <<waiting, taskVars>>
       ELSE GoOn(e, "querying", None, policy[e]) /\ LoopReleased(e)
  /\ UNCHANGED <<databaseVars, cached, alive>>

\* Mutant: a database that is large enough is left alone.
LargeEnough(r) == r.current >= r.max

\* There is nothing to change.
UpToDate(r) == r.current = r.max

\* The recommendation is applied, unless it changes nothing or the limit is
\* reached or exceeded.
Decide(e, r) ==
  IF UpToDate(r) \/ r.current = AbsoluteMaxSize \/ r.max > AbsoluteMaxSize
    THEN Return(e)
    ELSE GoOn(e, "altering", r, 0) /\ UNCHANGED <<waiting, taskVars>>

\* The entry may have expired since it was found: the null that the cache
\* returns then is dereferenced.
GetFromCache(e) ==
  /\ step[e] = "found"
  /\ \/ cached # None /\ Decide(e, cached.advice) /\ UNCHANGED <<databaseVars, cached, alive>>
     \/ cached = None /\ ProcessEnds /\ UNCHANGED maxSize

Query(e) ==
  /\ step[e] = "querying"
  /\ GoOn(e, "answered", GetDatabaseSizeRecommendation, policy[e])
  /\ UNCHANGED <<taskVars, databaseVars, cached, waiting, alive>>

\* Mutant: an entry is valid for the full time from when it is added.
SlidingExpiration(e) == CacheTime

\* The policy was made before the query.
Expiration(e) == policy[e]

\* The recommendation is cached, unless it has expired already or there is
\* another by now, and acted upon.
AddToCache(e) ==
  /\ step[e] = "answered"
  /\ cached' = IF cached = None /\ Expiration(e) > 0
                 THEN [advice |-> advice[e], left |-> Expiration(e), age |-> age[e]]
                 ELSE cached
  /\ Decide(e, advice[e])
  /\ UNCHANGED <<databaseVars, alive>>

\* ALTER DATABASE sets MAXSIZE.
Alter(e) ==
  /\ step[e] = "altering"
  /\ maxSize' = advice[e].max
  /\ Return(e)
  /\ UNCHANGED <<size, cached, alive>>

\* Mutant: one attempt more.
RetriesLeftMore(e) == tries[e] <= MaxRetries

RetriesLeft(e) == tries[e] < MaxRetries

\* An attempt fails.  It is tried again, unless the failure is permanent or no
\* retry is left.  A command that fails may have been carried out.
AttemptFails(e) ==
  /\ step[e] \in {"querying", "altering"}
  /\ maxSize' = maxSize \/ (step[e] = "altering" /\ maxSize' = advice[e].max)
  /\ \/ /\ RetriesLeft(e)
        /\ tries' = [tries EXCEPT ![e] = @ + 1]
        /\ UNCHANGED <<taskVars, size, cached, step, advice, policy, age, waiting, alive>>
     \/ ProcessEnds

\* Time passes: the cache drops what has expired.
Tick ==
  /\ alive /\ Elapse
  /\ cached' = IF cached = None \/ cached.left = 1 THEN None
               ELSE [cached EXCEPT !.left = @ - 1, !.age = IF @ < CacheTime THEN @ + 1 ELSE @]
  /\ policy' = [e \in Executions |-> IF policy[e] > 0 THEN policy[e] - 1 ELSE 0]
  /\ age' = [e \in Executions |-> IF step[e] = "answered" /\ age[e] < CacheTime THEN age[e] + 1 ELSE age[e]]
  /\ UNCHANGED <<databaseVars, step, advice, tries, waiting, alive>>

Loop == /\ alive
        /\ \/ LoopCheck /\ UNCHANGED <<databaseVars, cached, executionVars, alive>>
           \/ \E e \in Executions : Execute(e)

Proceed(e) == Contains(e) \/ GetFromCache(e) \/ Query(e) \/ AddToCache(e) \/ Alter(e) \/ AttemptFails(e)

Next ==
  \/ alive /\ Owner /\ UNCHANGED <<databaseVars, cached, executionVars, alive>>
  \/ Loop
  \/ \E e \in Executions : Proceed(e)
  \/ SizeChanges
  \/ Tick

Spec == Init /\ [][Next]_vars

\* Threads go on, calls are answered and time passes; nobody has to start or
\* cancel the scaler, and the size of the database changes or not.
FairSpec == /\ Spec
            /\ WF_vars(Loop) /\ WF_vars(Tick)
            /\ \A e \in Executions : WF_vars(Proceed(e))
-----------------------------------------------------------------------------
(* Properties.                                                             *)

\* However long a query takes and whichever execution adds its answer, what
\* comes from the cache was recommended less than a minute ago.
RecommendationIsRecent == cached # None => cached.age < CacheTime

\* Cancel does not stop the delay: one execution may begin after it, and never
\* another, whatever is started or disposed of afterwards.
OneExecutionAfterCancel == afterCancel <= 1

\* The smallest listed size with room for the database is its maximum, or the
\* limit keeps it from being so.
Settled == \/ maxSize = AbsoluteMaxSize
           \/ \A n \in ListedSizes : Holds(n, size) => AbsoluteMaxSize < n
           \/ /\ Holds(maxSize, size)
              /\ \A n \in ListedSizes : n < maxSize => ~Holds(n, size)

\* Once the database keeps its size, the scaler settles its maximum size for
\* good, although executions overlap and act on old recommendations.
SettlesInTheEnd == \A s \in Sizes :
  <>[](size = s /\ Running) => <>[]Settled
=============================================================================
