-------------------- MODULE SqlDatabaseAutoScalerProofs --------------------
(***************************************************************************)
(* Proofs about SqlDatabaseAutoScaler, for any number of overlapping       *)
(* executions, any sizes, limit, interval and cache time: types, the age   *)
(* of what is cached, what follows a Cancel, the limit, what a fresh       *)
(* recommendation is good for, and that executions come to their end.      *)
(***************************************************************************)
EXTENDS SqlDatabaseAutoScaler, TLAPS

\* The executions, of which an answer on its way to the cache expires a minute
\* after its policy was made.
ExecutionsOK ==
  /\ step \in [Executions -> {"none", "started", "found", "querying", "answered", "altering"}]
  /\ advice \in [Executions -> Advice \cup {None}]
  /\ \A e \in Executions : step[e] \in {"answered", "altering"} => advice[e] \in Advice
  /\ policy \in [Executions -> 0..CacheTime]
  /\ age \in [Executions -> 0..CacheTime]
  /\ tries \in [Executions -> 0..MaxRetries]
  /\ \A e \in Executions : step[e] = "answered" => age[e] + policy[e] <= CacheTime

\* When an execution has begun after Cancel, no delay is running any more.
CancelInv ==
  /\ afterCancel \in {0, 1}
  /\ afterCancel = 1 => source # "live" /\ loop \in {"executing", "checking", "over"}

TaskOK == TaskTypeOK /\ CancelInv /\ waiting \in Executions \cup {None}

\* The database, and the cache with an entry that expires in time.
OthersOK ==
  /\ size \in Sizes /\ maxSize \in MaxSizes
  /\ cached = None \/ cached \in [advice : Advice, left : 1..CacheTime, age : 0..CacheTime]
  /\ cached # None => cached.age + cached.left <= CacheTime
  /\ alive \in BOOLEAN

ScalerInv == ExecutionsOK /\ TaskOK /\ OthersOK

\* The procedure recommends the smallest listed size with room for the database.
LEMMA RecommendationListed ==
  ASSUME maxSize \in MaxSizes
  PROVE  /\ GetDatabaseSizeRecommendation \in Advice
         /\ GetDatabaseSizeRecommendation.current = maxSize
         /\ Holds(GetDatabaseSizeRecommendation.max, size)
         /\ \A k \in ListedSizes : Holds(k, size) => GetDatabaseSizeRecommendation.max <= k
<1> DEFINE Fits(n) == Holds(n, size)
<1>1. Fits(150)
  BY DEF Holds
<1> HIDE DEF Fits
<1>2. \E n \in ListedSizes : Fits(n) /\ \A k \in ListedSizes : Fits(k) => n <= k
  <2>1. CASE Fits(1)
    BY <2>1 DEF ListedSizes
  <2>2. CASE ~Fits(1) /\ Fits(5)
    BY <2>2 DEF ListedSizes
  <2>3. CASE ~Fits(1) /\ ~Fits(5) /\ Fits(10)
    BY <2>3 DEF ListedSizes
  <2>4. CASE ~Fits(1) /\ ~Fits(5) /\ ~Fits(10) /\ Fits(20)
    BY <2>4 DEF ListedSizes
  <2>5. CASE ~Fits(1) /\ ~Fits(5) /\ ~Fits(10) /\ ~Fits(20) /\ Fits(30)
    BY <2>5 DEF ListedSizes
  <2>6. CASE ~Fits(1) /\ ~Fits(5) /\ ~Fits(10) /\ ~Fits(20) /\ ~Fits(30) /\ Fits(40)
    BY <2>6 DEF ListedSizes
  <2>7. CASE ~Fits(1) /\ ~Fits(5) /\ ~Fits(10) /\ ~Fits(20) /\ ~Fits(30) /\ ~Fits(40) /\ Fits(50)
    BY <2>7 DEF ListedSizes
  <2>8. CASE ~Fits(1) /\ ~Fits(5) /\ ~Fits(10) /\ ~Fits(20) /\ ~Fits(30) /\ ~Fits(40) /\ ~Fits(50) /\ Fits(100)
    BY <2>8 DEF ListedSizes
  <2>9. CASE ~Fits(1) /\ ~Fits(5) /\ ~Fits(10) /\ ~Fits(20) /\ ~Fits(30) /\ ~Fits(40) /\ ~Fits(50) /\ ~Fits(100)
    BY <1>1, <2>9 DEF ListedSizes
  <2> QED BY <2>1, <2>2, <2>3, <2>4, <2>5, <2>6, <2>7, <2>8, <2>9
<1> DEFINE best == CHOOSE n \in ListedSizes : Fits(n) /\ \A k \in ListedSizes : Fits(k) => n <= k
<1>3. best \in ListedSizes /\ Fits(best) /\ \A k \in ListedSizes : Fits(k) => best <= k
  BY <1>2
<1>4. GetDatabaseSizeRecommendation = [current |-> maxSize, max |-> best]
  BY DEF GetDatabaseSizeRecommendation, Fits
<1> HIDE DEF best
<1> QED BY <1>3, <1>4 DEF Advice, Fits
-----------------------------------------------------------------------------
(* The parts that the steps are made of.                                    *)

LEMMA InitScalerInv == Init => ScalerInv
<1> SUFFICES ASSUME Init PROVE ScalerInv
  OBVIOUS
<1>1. TaskOK
  BY IntervalAssumption DEF Init, TaskInit, TaskOK, TaskTypeOK, CancelInv
<1> QED BY <1>1, ScalerAssumption DEF Init, TaskInit, ScalerInv, ExecutionsOK, OthersOK, MaxSizes

LEMMA GoOnOK ==
  ASSUME ExecutionsOK, NEW e \in Executions,
         NEW s \in {"none", "started", "found", "querying", "answered", "altering"},
         NEW r \in Advice \cup {None}, NEW p \in 0..CacheTime,
         s \in {"answered", "altering"} => r \in Advice,
         GoOn(e, s, r, p)
  PROVE  ExecutionsOK'
<1> USE ScalerAssumption DEF ExecutionsOK, GoOn
<1>1. advice' \in [Executions -> Advice \cup {None}]
  OBVIOUS
<1>2. \A n \in Executions : step'[n] \in {"answered", "altering"} => advice'[n] \in Advice
  OBVIOUS
<1>3. /\ step' \in [Executions -> {"none", "started", "found", "querying", "answered", "altering"}]
      /\ policy' \in [Executions -> 0..CacheTime]
      /\ age' \in [Executions -> 0..CacheTime] /\ tries' \in [Executions -> 0..MaxRetries]
  OBVIOUS
<1>4. \A n \in Executions : step'[n] = "answered" => age'[n] + policy'[n] <= CacheTime
  OBVIOUS
<1> QED BY <1>1, <1>2, <1>3, <1>4

LEMMA ReleasedOK ==
  ASSUME TaskOK, NEW e \in Executions, LoopReleased(e)
  PROVE  TaskOK'
  BY DEF TaskOK, TaskTypeOK, CancelInv, LoopReleased, ExecuteReturns, taskVars

LEMMA EndsOK ==
  ASSUME ExecutionsOK, TaskOK, OthersOK, ProcessEnds, maxSize' \in MaxSizes
  PROVE  ExecutionsOK' /\ TaskOK' /\ OthersOK'
<1>1. ExecutionsOK'
  BY ScalerAssumption DEF ProcessEnds, ExecutionsOK
<1>2. TaskOK'
  BY IntervalAssumption DEF ProcessEnds, TaskOK, TaskTypeOK, CancelInv
<1>3. OthersOK'
  BY DEF ProcessEnds, OthersOK
<1> QED BY <1>1, <1>2, <1>3

LEMMA DecideOK ==
  ASSUME ExecutionsOK, TaskOK, NEW e \in Executions, NEW r \in Advice, Decide(e, r)
  PROVE  ExecutionsOK' /\ TaskOK'
<1>1. CASE Return(e)
  BY <1>1, GoOnOK, ReleasedOK, ScalerAssumption DEF Return
<1>2. CASE GoOn(e, "altering", r, 0) /\ UNCHANGED <<waiting, taskVars>>
  BY <1>2, GoOnOK, ScalerAssumption DEF TaskOK, TaskTypeOK, CancelInv, taskVars
<1> QED BY <1>1, <1>2 DEF Decide
-----------------------------------------------------------------------------
(* The steps.                                                               *)

LEMMA ProceedOK ==
  ASSUME ScalerInv, NEW e \in Executions, Proceed(e)
  PROVE  ScalerInv'
<1> USE ScalerAssumption DEF ScalerInv
<1>1. CASE Contains(e)
  <2>1. policy[e] \in 0..CacheTime
    BY DEF ExecutionsOK
  <2>2. ExecutionsOK'
    BY <1>1, <2>1, GoOnOK DEF Contains
  <2>3. TaskOK'
    BY <1>1, ReleasedOK DEF Contains, TaskOK, TaskTypeOK, CancelInv, taskVars
  <2>4. OthersOK'
    BY <1>1 DEF Contains, OthersOK, databaseVars
  <2> QED BY <2>2, <2>3, <2>4
<1>2. CASE GetFromCache(e)
  <2>1. CASE cached # None /\ Decide(e, cached.advice) /\ UNCHANGED <<databaseVars, cached, alive>>
    <3>1. cached.advice \in Advice
      BY <2>1 DEF OthersOK
    <3> QED BY <2>1, <3>1, DecideOK DEF OthersOK, databaseVars
  <2>2. CASE ProcessEnds /\ UNCHANGED maxSize
    BY <2>2, EndsOK DEF OthersOK
  <2> QED BY <1>2, <2>1, <2>2 DEF GetFromCache
<1>3. CASE Query(e)
  <2>1. GetDatabaseSizeRecommendation \in Advice /\ policy[e] \in 0..CacheTime
    BY RecommendationListed DEF OthersOK, ExecutionsOK
  <2>2. ExecutionsOK'
    BY <1>3, <2>1, GoOnOK DEF Query
  <2> QED BY <1>3, <2>2 DEF Query, TaskOK, TaskTypeOK, CancelInv, taskVars, OthersOK, databaseVars
<1>4. CASE AddToCache(e)
  <2>1. /\ step[e] = "answered" /\ advice[e] \in Advice /\ policy[e] \in 0..CacheTime /\ age[e] \in 0..CacheTime
        /\ age[e] + policy[e] <= CacheTime
    BY <1>4 DEF AddToCache, ExecutionsOK
  <2>2. ExecutionsOK' /\ TaskOK'
    BY <1>4, <2>1, DecideOK DEF AddToCache
  <2>3. OthersOK'
    <3>1. CASE cached' = cached
      BY <1>4, <3>1 DEF AddToCache, OthersOK, databaseVars
    <3>2. CASE cached' = [advice |-> advice[e], left |-> policy[e], age |-> age[e]] /\ policy[e] > 0
      BY <1>4, <2>1, <3>2 DEF AddToCache, OthersOK, databaseVars
    <3> QED BY <1>4, <3>1, <3>2 DEF AddToCache, Expiration
  <2> QED BY <2>2, <2>3
<1>5. CASE Alter(e)
  <2>1. advice[e] \in Advice
    BY <1>5 DEF Alter, ExecutionsOK
  <2>2. ExecutionsOK' /\ TaskOK'
    BY <1>5, GoOnOK, ReleasedOK DEF Alter, Return
  <2> QED BY <1>5, <2>1, <2>2 DEF Alter, OthersOK, Advice, MaxSizes
<1>6. CASE AttemptFails(e)
  <2>1. maxSize' \in MaxSizes
    BY <1>6 DEF AttemptFails, ExecutionsOK, OthersOK, Advice, MaxSizes
  <2>2. CASE ProcessEnds
    BY <2>1, <2>2, EndsOK
  <2>3. CASE /\ RetriesLeft(e)
             /\ tries' = [tries EXCEPT ![e] = @ + 1]
             /\ UNCHANGED <<taskVars, size, cached, step, advice, policy, age, waiting, alive>>
    <3>1. ExecutionsOK'
      BY <2>3 DEF ExecutionsOK, RetriesLeft
    <3>2. TaskOK'
      BY <2>3 DEF TaskOK, TaskTypeOK, CancelInv, taskVars
    <3>3. OthersOK'
      BY <2>1, <2>3 DEF OthersOK
    <3> QED BY <3>1, <3>2, <3>3
  <2> QED BY <1>6, <2>2, <2>3 DEF AttemptFails
<1> QED BY <1>1, <1>2, <1>3, <1>4, <1>5, <1>6 DEF Proceed

LEMMA LoopOK ==
  ASSUME ScalerInv, Loop
  PROVE  ScalerInv'
<1> USE ScalerAssumption, IntervalAssumption DEF ScalerInv
<1>1. CASE LoopCheck /\ UNCHANGED <<databaseVars, cached, executionVars, alive>>
  <2>1. ExecutionsOK' /\ OthersOK'
    BY <1>1 DEF ExecutionsOK, OthersOK, executionVars, databaseVars
  <2>2. TaskOK'
    BY <1>1 DEF LoopCheck, NotCanceled, TaskOK, TaskTypeOK, CancelInv, executionVars
  <2> QED BY <2>1, <2>2
<1>2. ASSUME NEW e \in Executions, Execute(e) PROVE ScalerInv'
  <2>1. ExecutionsOK'
    BY <1>2, GoOnOK DEF Execute
  <2>2. TaskOK'
    BY <1>2 DEF Execute, BeginExecute, TaskOK, TaskTypeOK, CancelInv
  <2>3. OthersOK'
    BY <1>2 DEF Execute, OthersOK, databaseVars
  <2> QED BY <2>1, <2>2, <2>3
<1> QED BY <1>1, <1>2 DEF Loop

LEMMA TickOK ==
  ASSUME ScalerInv, Tick
  PROVE  ScalerInv'
<1> USE ScalerAssumption DEF Tick, ScalerInv
<1>1. ExecutionsOK'
  BY DEF ExecutionsOK
<1>2. TaskOK'
  BY IntervalAssumption DEF Elapse, TaskOK, TaskTypeOK, CancelInv
<1>3. OthersOK'
  <2>1. CASE cached' = None
    BY <2>1 DEF OthersOK, databaseVars
  <2>2. CASE cached # None /\ cached.left # 1
            /\ cached' = [cached EXCEPT !.left = @ - 1, !.age = IF @ < CacheTime THEN @ + 1 ELSE @]
    <3>1. PICK r \in Advice, l \in 1..CacheTime, a \in 0..CacheTime : cached = [advice |-> r, left |-> l, age |-> a]
      BY <2>2 DEF OthersOK
    <3>2. l # 1 /\ a + l <= CacheTime
      BY <2>2, <3>1 DEF OthersOK
    <3>3. cached' = [advice |-> r, left |-> l - 1, age |-> a + 1]
      <4> HIDE DEF Tick
      <4> QED BY <2>2, <3>1, <3>2, a < CacheTime
    <3> QED BY <3>1, <3>2, <3>3 DEF OthersOK, databaseVars
  <2> QED BY <2>1, <2>2 DEF OthersOK
<1> QED BY <1>1, <1>2, <1>3

LEMMA NextScalerInv == ScalerInv /\ [Next]_vars => ScalerInv'
<1> SUFFICES ASSUME ScalerInv, [Next]_vars PROVE ScalerInv'
  OBVIOUS
<1> USE DEF ScalerInv
<1>1. CASE Owner /\ UNCHANGED <<databaseVars, cached, executionVars, alive>>
  <2>1. ExecutionsOK' /\ OthersOK'
    BY <1>1 DEF ExecutionsOK, OthersOK, executionVars, databaseVars
  <2>2. TaskOK'
    BY <1>1 DEF Owner, Start, Cancel, Dispose, TaskOK, TaskTypeOK, CancelInv, executionVars
  <2> QED BY <2>1, <2>2
<1>2. CASE SizeChanges \/ UNCHANGED vars
  <2>1. ExecutionsOK' /\ OthersOK'
    BY <1>2 DEF SizeChanges, vars, ExecutionsOK, OthersOK, executionVars, databaseVars
  <2>2. TaskOK'
    BY <1>2 DEF SizeChanges, vars, TaskOK, TaskTypeOK, CancelInv, taskVars, executionVars
  <2> QED BY <2>1, <2>2
<1> QED BY <1>1, <1>2, ProceedOK, LoopOK, TickOK DEF Next

LEMMA AlwaysScalerInv == Spec => []ScalerInv
  BY InitScalerInv, NextScalerInv, PTL DEF Spec

\* The task, the database, the cache and the executions keep their types: an
\* execution decides and alters only with a recommendation in hand.
THEOREM ScalerTypeCorrect == Spec => []ScalerTypeOK
<1>1. ScalerInv => ScalerTypeOK
  BY DEF ScalerInv, ExecutionsOK, TaskOK, OthersOK, ScalerTypeOK
<1> QED BY <1>1, AlwaysScalerInv, PTL

\* What comes from the cache was recommended less than a minute ago, however
\* many executions overlap and however long their queries take.
THEOREM CachedIsRecent == Spec => []RecommendationIsRecent
<1>1. ScalerInv => RecommendationIsRecent
  BY ScalerAssumption DEF ScalerInv, OthersOK, RecommendationIsRecent
<1> QED BY <1>1, AlwaysScalerInv, PTL

\* At most one execution begins after Cancel.
THEOREM ExecutionsAfterCancel == Spec => []OneExecutionAfterCancel
<1>1. ScalerInv => OneExecutionAfterCancel
  BY DEF ScalerInv, TaskOK, CancelInv, OneExecutionAfterCancel
<1> QED BY <1>1, AlwaysScalerInv, PTL
-----------------------------------------------------------------------------
(* The limit, and what a recommendation is good for.                        *)

\* The scaler never makes the maximum larger than the limit; it may have been
\* made so.
LimitRespected == maxSize = InitialMaxSize \/ maxSize <= AbsoluteMaxSize

\* So much is known of an execution that is about to alter the database.
LimitInv == /\ LimitRespected
            /\ \A e \in Executions : step[e] = "altering" => advice[e].max <= AbsoluteMaxSize

\* An execution that alters the database as it would be recommended now, and
\* one that leaves it alone on the recommendation of now, leave it settled.
Settles(e) ==
  /\ Alter(e) /\ advice[e].max = GetDatabaseSizeRecommendation.max => Settled'
  /\ Decide(e, GetDatabaseSizeRecommendation) /\ step'[e] = "none" => Settled

FreshAdviceSettles == [][\A e \in Executions : Settles(e)]_vars

\* The maximum stays within the limit, whichever recommendations the executions
\* have and however often a command is tried again.
THEOREM LimitIsRespected == Spec => []LimitRespected
<1>1. Init => LimitInv
  BY DEF Init, LimitInv, LimitRespected
<1>2. ScalerInv /\ LimitInv /\ [Next]_vars => LimitInv'
  <2> SUFFICES ASSUME ScalerInv, LimitInv, [Next]_vars PROVE LimitInv'
    OBVIOUS
  <2> USE DEF LimitInv, LimitRespected
  <2>1. /\ step \in [Executions -> {"none", "started", "found", "querying", "answered", "altering"}]
        /\ advice \in [Executions -> Advice \cup {None}]
        /\ \A e \in Executions : step[e] \in {"answered", "altering"} => advice[e] \in Advice
    BY DEF ScalerInv, ExecutionsOK
  <2>2. ASSUME NEW e \in Executions, NEW s, NEW r, NEW p, GoOn(e, s, r, p), s = "altering" => r.max <= AbsoluteMaxSize
        PROVE  \A n \in Executions : step'[n] = "altering" => advice'[n].max <= AbsoluteMaxSize
    BY <2>1, <2>2 DEF GoOn
  <2>3. ASSUME NEW e \in Executions, NEW r \in Advice, Decide(e, r)
        PROVE  \A n \in Executions : step'[n] = "altering" => advice'[n].max <= AbsoluteMaxSize
    <3>1. r.max \in Int /\ AbsoluteMaxSize \in Int
      BY ScalerAssumption DEF Advice, ListedSizes
    <3>2. CASE Return(e)
      BY <2>2, <3>2 DEF Return
    <3>3. CASE ~(r.max > AbsoluteMaxSize) /\ GoOn(e, "altering", r, 0)
      BY <2>2, <3>1, <3>3
    <3> QED BY <2>3, <3>2, <3>3 DEF Decide
  <2>4. ASSUME NEW e \in Executions, Contains(e) \/ Query(e) \/ Execute(e) PROVE LimitInv'
    BY <2>2, <2>4 DEF Contains, Query, Execute, databaseVars
  <2>5. ASSUME NEW e \in Executions, GetFromCache(e) PROVE LimitInv'
    <3>1. CASE cached # None /\ Decide(e, cached.advice) /\ UNCHANGED <<databaseVars, cached, alive>>
      <4>1. cached.advice \in Advice
        BY <3>1 DEF ScalerInv, OthersOK
      <4> QED BY <2>3, <3>1, <4>1 DEF databaseVars
    <3>2. CASE ProcessEnds /\ UNCHANGED maxSize
      BY <3>2 DEF ProcessEnds
    <3> QED BY <2>5, <3>1, <3>2 DEF GetFromCache
  <2>6. ASSUME NEW e \in Executions, AddToCache(e) PROVE LimitInv'
    BY <2>1, <2>3, <2>6 DEF AddToCache, databaseVars
  <2>7. ASSUME NEW e \in Executions, Alter(e) PROVE LimitInv'
    <3>1. maxSize' <= AbsoluteMaxSize
      BY <2>7 DEF Alter
    <3> QED BY <2>2, <2>7, <3>1 DEF Alter, Return
  <2>8. ASSUME NEW e \in Executions, AttemptFails(e) PROVE LimitInv'
    BY <2>8 DEF AttemptFails, ProcessEnds
  <2>9. CASE Tick \/ SizeChanges \/ UNCHANGED <<databaseVars, executionVars>>
    <3>1. UNCHANGED <<maxSize, step, advice>>
      BY <2>9 DEF Tick, SizeChanges, databaseVars, executionVars
    <3> QED BY <3>1
  <2> QED BY <2>4, <2>5, <2>6, <2>7, <2>8, <2>9 DEF Next, Proceed, Loop, vars
<1> QED BY <1>1, <1>2, AlwaysScalerInv, PTL DEF Spec, LimitInv

\* A recommendation that is applied while it is still what the procedure would
\* say settles the maximum; and where it changes nothing, because the maximum is
\* right or the limit is in the way, nothing is left to settle.
THEOREM FreshAdviceIsGood == Spec => FreshAdviceSettles
<1>1. ASSUME ScalerInv, ScalerInv', [Next]_vars, NEW e \in Executions PROVE Settles(e)
  <2> DEFINE r == GetDatabaseSizeRecommendation
  <2>1. /\ r \in Advice /\ r.current = maxSize /\ Holds(r.max, size)
        /\ \A k \in ListedSizes : Holds(k, size) => r.max <= k
    BY <1>1, RecommendationListed DEF ScalerInv, OthersOK
  <2>2. /\ r.max \in ListedSizes /\ ListedSizes \subseteq Nat /\ maxSize \in Nat /\ AbsoluteMaxSize \in Nat
        /\ \A n \in ListedSizes : n < r.max => ~Holds(n, size)
    BY <1>1, <2>1, ScalerAssumption DEF Advice, ListedSizes, ScalerInv, OthersOK, MaxSizes
  <2> HIDE DEF r
  <2>3. ASSUME Alter(e), advice[e].max = r.max PROVE Settled'
    <3>1. maxSize' = r.max /\ size' = size
      BY <2>3 DEF Alter
    <3>2. Holds(maxSize, size)' /\ \A n \in ListedSizes : n < maxSize' => ~Holds(n, size)'
      BY <2>1, <2>2, <3>1 DEF Holds, Increment
    <3> QED BY <3>2 DEF Settled
  <2>4. ASSUME Decide(e, r), step'[e] = "none" PROVE Settled
    <3>1. UpToDate(r) \/ r.current = AbsoluteMaxSize \/ r.max > AbsoluteMaxSize
      <4>1. CASE GoOn(e, "altering", r, 0)
        BY <1>1, <2>4, <4>1 DEF GoOn, ScalerInv, ExecutionsOK
      <4> QED BY <2>4, <4>1 DEF Decide
    <3>2. CASE UpToDate(r)
      BY <2>1, <2>2, <3>2 DEF UpToDate, Settled
    <3>3. CASE r.current = AbsoluteMaxSize
      BY <2>1, <3>3 DEF Settled
    <3>4. CASE r.max > AbsoluteMaxSize
      <4>1. ASSUME NEW n \in ListedSizes, Holds(n, size) PROVE AbsoluteMaxSize < n
        <5>1. r.max <= n /\ n \in Nat /\ r.max \in Nat
          BY <2>1, <2>2, <4>1
        <5> QED BY <2>2, <3>4, <5>1
      <4> QED BY <4>1 DEF Settled
    <3> QED BY <3>1, <3>2, <3>3, <3>4
  <2> QED BY <2>3, <2>4 DEF Settles, r
<1>2. ScalerInv /\ ScalerInv' /\ [Next]_vars => [\A e \in Executions : Settles(e)]_vars
  BY <1>1
<1> QED BY <1>2, AlwaysScalerInv, PTL DEF Spec, FreshAdviceSettles

\* How many parts of Execute lie before e.
Before(e) == CASE step[e] = "none" -> 0
               [] step[e] = "altering" -> 1
               [] step[e] \in {"found", "answered"} -> 2
               [] step[e] = "querying" -> 3
               [] OTHER -> 4

\* What an execution does brings it nearer to its end, by a part or by one of
\* the retries it has; what the others, the loop and the owner do does not take that back.
Advances(e) == step[e] # "none" =>
  /\ Proceed(e) => \/ Before(e)' < Before(e)
                   \/ Before(e)' = Before(e) /\ tries[e] < tries'[e] /\ tries'[e] <= MaxRetries
  /\ ~Proceed(e) => (Before(e)' = Before(e) /\ tries'[e] = tries[e]) \/ Before(e)' = 0

ExecutionsAdvance == [][\A e \in Executions : Advances(e)]_vars

\* The parts as numbers.
LEMMA Parts ==
  ASSUME ScalerInv, ScalerInv', NEW e \in Executions
  PROVE  /\ step[e] \in {"none", "started", "found", "querying", "answered", "altering"}
         /\ step'[e] \in {"none", "started", "found", "querying", "answered", "altering"}
         /\ Before(e) = IF step[e] = "none" THEN 0 ELSE IF step[e] = "altering" THEN 1
                        ELSE IF step[e] = "querying" THEN 3 ELSE IF step[e] = "started" THEN 4 ELSE 2
         /\ Before(e)' = IF step'[e] = "none" THEN 0 ELSE IF step'[e] = "altering" THEN 1
                         ELSE IF step'[e] = "querying" THEN 3 ELSE IF step'[e] = "started" THEN 4 ELSE 2
<1>1. /\ step[e] \in {"none", "started", "found", "querying", "answered", "altering"}
      /\ step'[e] \in {"none", "started", "found", "querying", "answered", "altering"}
  BY DEF ScalerInv, ExecutionsOK
<1> QED BY <1>1 DEF Before

\* An execution comes to its end: it takes at most the parts of Execute and the
\* retries, whatever the cache holds and however many others are under way.
THEOREM ExecutionsComeToAnEnd == Spec => ExecutionsAdvance
<1>1. ASSUME ScalerInv, ScalerInv', [Next]_vars, NEW d \in Executions PROVE Advances(d)
  <2>1. /\ step \in [Executions -> {"none", "started", "found", "querying", "answered", "altering"}]
        /\ tries \in [Executions -> 0..MaxRetries] /\ tries' \in [Executions -> 0..MaxRetries]
    BY <1>1 DEF ScalerInv, ExecutionsOK
  <2>2. ASSUME NEW e \in Executions, NEW s, NEW r, NEW p, GoOn(e, s, r, p)
        PROVE  step'[e] = s /\ \A n \in Executions \ {e} : step'[n] = step[n] /\ tries'[n] = tries[n]
    BY <2>1, <2>2 DEF GoOn
  <2>3. ASSUME NEW e \in Executions, NEW r, Decide(e, r)
        PROVE  step'[e] \in {"none", "altering"} /\ \A n \in Executions \ {e} : step'[n] = step[n] /\ tries'[n] = tries[n]
    <3>1. Return(e) \/ GoOn(e, "altering", r, 0)
      BY <2>3 DEF Decide
    <3> QED BY <2>2, <3>1 DEF Return
  <2>4. ASSUME ProcessEnds PROVE \A n \in Executions : step'[n] = "none"
    BY <2>4 DEF ProcessEnds
  <2> DEFINE Moved(e) == \/ step[e] = "started" /\ step'[e] \in {"found", "querying"}
                         \/ step[e] \in {"found", "answered"} /\ step'[e] \in {"none", "altering"}
                         \/ step[e] = "querying" /\ step'[e] = "answered"
                         \/ step[e] = "altering" /\ step'[e] = "none"
                         \/ step[e] # "none" /\ step'[e] = step[e] /\ tries'[e] = tries[e] + 1
                         \/ step[e] \in {"found", "querying", "altering"} /\ step'[e] = "none"
             Kept(e) == \A n \in Executions \ {e} : (step'[n] = step[n] /\ tries'[n] = tries[n]) \/ step'[n] = "none"
  <2>5. ASSUME NEW e \in Executions, Proceed(e) PROVE Moved(e) /\ Kept(e)
    <3>1. CASE Contains(e)
      BY <2>2, <3>1 DEF Contains
    <3>2. CASE GetFromCache(e)
      BY <2>3, <2>4, <3>2 DEF GetFromCache
    <3>3. CASE Query(e)
      BY <2>2, <3>3 DEF Query
    <3>4. CASE AddToCache(e)
      BY <2>3, <3>4 DEF AddToCache
    <3>5. CASE Alter(e)
      BY <2>2, <3>5 DEF Alter, Return
    <3>6. CASE AttemptFails(e) /\ ProcessEnds
      BY <2>4, <3>6 DEF AttemptFails
    <3>7. CASE AttemptFails(e) /\ tries' = [tries EXCEPT ![e] = tries[e] + 1] /\ UNCHANGED step
      BY <2>1, <3>7 DEF AttemptFails
    <3> QED BY <2>5, <3>1, <3>2, <3>3, <3>4, <3>5, <3>6, <3>7 DEF Proceed, AttemptFails
  <2>6. ASSUME NEW e \in Executions, Execute(e) PROVE step[e] = "none" /\ Kept(e)
    BY <2>2, <2>6 DEF Execute
  <2>7. Proceed(d) => Moved(d)
    BY <2>5
  <2>8. tries[d] \in Nat /\ tries'[d] \in 0..MaxRetries /\ MaxRetries \in Nat
    BY <2>1, ScalerAssumption
  <2>9. ASSUME Moved(d), step[d] # "none"
         PROVE  \/ Before(d)' < Before(d)
                \/ Before(d)' = Before(d) /\ tries[d] < tries'[d] /\ tries'[d] <= MaxRetries
    BY <1>1, <2>8, <2>9, Parts
  <2>10. ASSUME step[d] # "none", ~Proceed(d)
         PROVE  (Before(d)' = Before(d) /\ tries'[d] = tries[d]) \/ Before(d)' = 0
    <3>1. CASE UNCHANGED <<step[d], tries[d]>>
      BY <1>1, <3>1, Parts
    <3>2. CASE step'[d] = "none"
      BY <1>1, <3>2, Parts
    <3>3. CASE \E e \in Executions \ {d} : Kept(e)
      BY <3>1, <3>2, <3>3
    <3>4. CASE Tick \/ SizeChanges \/ UNCHANGED <<databaseVars, executionVars>>
      BY <3>1, <3>4 DEF Tick, SizeChanges, executionVars
    <3> HIDE DEF Kept
    <3> QED BY <1>1, <2>5, <2>6, <2>10, <3>3, <3>4 DEF Next, Loop, vars
  <2> QED BY <2>7, <2>9, <2>10 DEF Advances
<1>2. ScalerInv /\ ScalerInv' /\ [Next]_vars => [\A e \in Executions : Advances(e)]_vars
  BY <1>1
<1> QED BY <1>2, AlwaysScalerInv, PTL DEF Spec, ExecutionsAdvance
=============================================================================
