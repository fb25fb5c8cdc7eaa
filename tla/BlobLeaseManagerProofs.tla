----------------------- MODULE BlobLeaseManagerProofs -----------------------
(***************************************************************************)
(* Proofs about BlobLeaseManager, for any number of managers and leases    *)
(* and any lease time: every entry keeps its keep-alive, and managers      *)
(* whose calls and callbacks keep to the second the keep-alive leaves them *)
(* never believe in a lease the blob is not under; together they implement *)
(* the exclusive lease.  However late they are, a false belief comes out,  *)
(* and a lease that is forgotten runs down.                                *)
(***************************************************************************)
EXTENDS BlobLeaseManager, FiniteSetTheorems, TLAPS

\* A timer belongs to a manager, is due within an interval, and was due before
\* its callback began.
TimersInv == \A i \in Leases :
  /\ alive[i] \/ callback[i] # "none" => owner[i] \in Managers
  /\ due[i] <= Interval
  /\ callback[i] # "none" => due[i] <= 0

\* A call of the application thread is made by a manager that is up, about a
\* lease of its own, which has no timer yet or no entry any more.
CallsInv == \A m \in Managers :
  /\ app[m] # "idle" => life[m] = "up"
  /\ app[m] \in {"acquired", "releasing"} => pending[m] \in Leases /\ owner[pending[m]] = m
  /\ app[m] = "acquired" => ~alive[pending[m]] /\ callback[pending[m]] = "none"
  /\ app[m] = "releasing" => ~HasLease(m)

\* An entry names a lease granted to its manager, and has its keep-alive until
\* the manager is disposed of.
EntriesInv == \A m \in Managers :
  HasLease(m) => owner[entry[m]] = m /\ (life[m] = "up" => alive[entry[m]])

Bookkept == TypeOK /\ TimersInv /\ CallsInv /\ EntriesInv

\* The time the blob stays leased, for a lease just granted and for one that
\* has an entry: the keep-alive is due Second - Lateness before its end.
LeaseInv ==
  /\ \A m \in Managers : app[m] = "acquired" =>
       leaseId = pending[m] /\ remaining >= LeaseTime - age[m]
  /\ \A m \in Managers : Believes(m) =>
       leaseId = entry[m] /\ remaining >= due[entry[m]] + Second - Lateness

LEMMA ConstantsType ==
  /\ LeaseTime \in Nat /\ Second \in Nat /\ Lateness \in Nat /\ MaxFaults \in Nat
  /\ Interval \in 1..LeaseTime /\ Interval = LeaseTime - Second
  /\ 2 * Lateness < Second
  /\ NoLease \notin Leases /\ NoLease \notin Managers
  BY ConstantsAssumption DEF Interval

LEMMA InitBookkept == Init => Bookkept
<1> SUFFICES ASSUME Init PROVE Bookkept
  OBVIOUS
<1>1. TypeOK
  BY ConstantsType DEF Init, TypeOK, Ids
<1>2. TimersInv /\ CallsInv /\ EntriesInv
  BY ConstantsType DEF Init, TimersInv, CallsInv, EntriesInv, HasLease
<1> QED BY <1>1, <1>2 DEF Bookkept

LEMMA AcquireBookkept ==
  ASSUME Bookkept, NEW m \in Managers, NEW i \in Leases, AcquireLease(m, i)
  PROVE  Bookkept'
<1> USE DEF Bookkept, AcquireLease, Fresh
<1>1. TypeOK'
  BY ConstantsType DEF TypeOK, Ids, Fault, appVars
<1>2. TimersInv'
  BY DEF TypeOK, TimersInv
<1>3. ~alive[i] /\ callback[i] = "none"
  BY ConstantsType DEF TypeOK, TimersInv
<1>4. CallsInv'
  BY <1>3, ConstantsType DEF TypeOK, CallsInv, appVars, HasLease
<1>5. EntriesInv'
  BY ConstantsType DEF TypeOK, EntriesInv, HasLease, Ids
<1> QED BY <1>1, <1>2, <1>4, <1>5

LEMMA UpdateBookkept ==
  ASSUME Bookkept, NEW m \in Managers, UpdateAcquiredLease(m) \/ ClearLease(m)
  PROVE  Bookkept'
<1> USE DEF Bookkept, HasLease, IsAcquiredLeaseMissMatched, blobVars
<1>1. CASE UpdateAcquiredLease(m)
  <2> USE <1>1 DEF UpdateAcquiredLease
  <2>1. /\ pending[m] \in Leases /\ owner[pending[m]] = m
        /\ ~alive[pending[m]] /\ callback[pending[m]] = "none" /\ life[m] = "up"
    BY DEF CallsInv
  <2>2. TypeOK'
    <3>1. alive' \in [Leases -> BOOLEAN]
      BY Zenon, <2>1 DEF TypeOK
    <3>2. /\ due' \in [Leases -> (-Lateness)..LeaseTime]
          /\ entry' \in [Managers -> Ids] /\ pending' \in [Managers -> Ids]
      BY <2>1, ConstantsType DEF TypeOK, Ids
    <3>3. /\ app' \in [Managers -> {"idle", "acquired", "clearing", "releasing"}]
          /\ age' \in [Managers -> 0..Lateness]
      BY ConstantsType DEF TypeOK
    <3> QED BY <3>1, <3>2, <3>3 DEF TypeOK
  <2>3. TimersInv'
    BY <2>1, ConstantsType DEF TypeOK, TimersInv
  <2>4. CallsInv'
    BY <2>1, ConstantsType DEF TypeOK, CallsInv
  <2>5. EntriesInv'
    BY <2>1, ConstantsType DEF TypeOK, EntriesInv, Ids
  <2> QED BY <2>2, <2>3, <2>4, <2>5
<1>2. CASE ClearLease(m)
  <2> USE <1>2 DEF ClearLease
  <2>1. TypeOK' /\ TimersInv'
    BY ConstantsType DEF TypeOK, Ids, TimersInv
  <2>2. CallsInv'
    BY ConstantsType DEF TypeOK, CallsInv, Ids
  <2>3. EntriesInv'
    BY ConstantsType DEF TypeOK, EntriesInv, Ids
  <2> QED BY <2>1, <2>2, <2>3
<1> QED BY <1>1, <1>2

LEMMA ReleaseBookkept ==
  ASSUME Bookkept, NEW m \in Managers, ReleaseLease(m) \/ Released(m) \/ Dispose(m)
  PROVE  Bookkept'
<1> USE DEF Bookkept, HasLease, blobVars, appVars, timerVars
<1>1. CASE ReleaseLease(m)
  <2> USE <1>1 DEF ReleaseLease, EntryCleared
  <2>1. TypeOK' /\ TimersInv'
    BY ConstantsType DEF TypeOK, Ids, TimersInv
  <2>2. CallsInv'
    BY ConstantsType DEF TypeOK, CallsInv, EntriesInv, Ids
  <2>3. EntriesInv'
    BY ConstantsType DEF TypeOK, EntriesInv, Ids
  <2> QED BY <2>1, <2>2, <2>3
<1>2. CASE Released(m)
  <2> USE <1>2 DEF Released
  <2>1. TypeOK' /\ TimersInv'
    BY ConstantsType DEF TypeOK, Ids, TimersInv, Fault
  <2>2. CallsInv' /\ EntriesInv'
    BY ConstantsType DEF TypeOK, CallsInv, EntriesInv, Ids
  <2> QED BY <2>1, <2>2
<1>3. CASE Dispose(m)
  <2> USE <1>3 DEF Dispose, TimersDisposed
  <2>1. alive' \in [Leases -> BOOLEAN] /\ \A i \in Leases : alive'[i] => alive[i]
    BY Zenon DEF TypeOK
  <2>2. TypeOK' /\ TimersInv'
    BY <2>1, ConstantsType DEF TypeOK, Ids, TimersInv
  <2>3. CallsInv'
    BY <2>1, ConstantsType DEF TypeOK, CallsInv, Ids
  <2>4. EntriesInv'
    BY ConstantsType DEF TypeOK, EntriesInv, Ids
  <2> QED BY <2>2, <2>3, <2>4
<1> QED BY <1>1, <1>2, <1>3

LEMMA EndBookkept ==
  ASSUME Bookkept, NEW m \in Managers, ProcessEnds(m), faults' \in 0..MaxFaults
  PROVE  Bookkept'
<1> USE DEF Bookkept, HasLease, blobVars, ProcessEnds
<1>1. alive' \in [Leases -> BOOLEAN] /\ \A i \in Leases : alive'[i] <=> alive[i] /\ owner[i] # m
  BY Zenon DEF TypeOK
<1>2. TypeOK'
  BY <1>1, ConstantsType DEF TypeOK, Ids
<1>3. TimersInv'
  BY <1>1, ConstantsType DEF TypeOK, TimersInv
<1>4. CallsInv'
  BY <1>1, ConstantsType DEF TypeOK, CallsInv, Ids
<1>5. EntriesInv'
  BY <1>1, ConstantsType DEF TypeOK, EntriesInv, Ids
<1> QED BY <1>2, <1>3, <1>4, <1>5

LEMMA CallbackBookkept ==
  ASSUME Bookkept, NEW i \in Leases, Callback(i)
  PROVE  Bookkept'
<1> USE DEF Bookkept, HasLease, blobVars, appVars
<1>1. CASE Fire(i)
  <2> USE <1>1 DEF Fire, Over
  <2>1. TypeOK'
    BY ConstantsType DEF TypeOK, Ids
  <2>2. TimersInv'
    BY ConstantsType DEF TypeOK, TimersInv
  <2>3. CallsInv' /\ EntriesInv'
    BY ConstantsType DEF TypeOK, CallsInv, EntriesInv, Ids
  <2> QED BY <2>1, <2>2, <2>3
<1>2. CASE ReadLeaseId(i)
  <2>1. owner[i] \in Managers
    BY <1>2 DEF ReadLeaseId, TimersInv
  <2>2. CASE ProcessEnds(owner[i])
    <3>1. faults' \in 0..MaxFaults
      BY <1>2 DEF ReadLeaseId, TypeOK
    <3> QED BY <2>1, <2>2, <3>1, EndBookkept
  <2>3. CASE ~ProcessEnds(owner[i])
    <3> USE <1>2, <2>3 DEF ReadLeaseId
    <3>1. TypeOK'
      BY <2>1 DEF TypeOK, Ids
    <3>2. TimersInv' /\ CallsInv' /\ EntriesInv'
      BY DEF TypeOK, TimersInv, CallsInv, EntriesInv, Ids
    <3> QED BY <3>1, <3>2
  <2> QED BY <2>2, <2>3
<1>3. CASE RenewLease(i)
  <2> USE <1>3 DEF RenewLease, Over
  <2>1. TypeOK'
    BY ConstantsType DEF TypeOK, Ids, TimersInv
  <2>2. TimersInv'
    BY ConstantsType DEF TypeOK, TimersInv
  <2>3. CallsInv' /\ EntriesInv'
    BY ConstantsType DEF TypeOK, CallsInv, EntriesInv, Ids
  <2> QED BY <2>1, <2>2, <2>3
<1>4. CASE RenewalFails(i)
  <2> USE <1>4 DEF RenewalFails, Fault
  <2>1. TypeOK'
    BY ConstantsType DEF TypeOK, Ids
  <2>2. TimersInv' /\ CallsInv' /\ EntriesInv'
    BY DEF TypeOK, TimersInv, CallsInv, EntriesInv, Ids
  <2> QED BY <2>1, <2>2
<1>5. CASE RemoveEntry(i)
  <2> USE <1>5 DEF RemoveEntry, EntryAfterFailure, Over
  <2>1. TypeOK'
    BY ConstantsType DEF TypeOK, Ids, TimersInv
  <2>2. TimersInv'
    BY ConstantsType DEF TypeOK, TimersInv
  <2>3. CallsInv' /\ EntriesInv'
    BY ConstantsType DEF TypeOK, CallsInv, EntriesInv, Ids
  <2> QED BY <2>1, <2>2, <2>3
<1> QED BY <1>1, <1>2, <1>3, <1>4, <1>5 DEF Callback

LEMMA TickBookkept ==
  ASSUME Bookkept, Tick
  PROVE  Bookkept'
<1> USE DEF Bookkept, HasLease, Tick
<1>1. TypeOK'
  BY ConstantsType DEF TypeOK, Ids
<1>2. TimersInv'
  BY ConstantsType DEF TypeOK, TimersInv
<1>3. CallsInv' /\ EntriesInv'
  BY DEF TypeOK, CallsInv, EntriesInv, Ids
<1> QED BY <1>1, <1>2, <1>3

LEMMA NextBookkept == Bookkept /\ [Next]_vars => Bookkept'
<1> SUFFICES ASSUME Bookkept, [Next]_vars PROVE Bookkept'
  OBVIOUS
<1>1. ASSUME NEW m \in Managers, Crash(m) PROVE Bookkept'
  <2>1. faults' \in 0..MaxFaults
    BY <1>1, ConstantsType DEF Crash, Fault, Bookkept, TypeOK
  <2> QED BY <1>1, <2>1, EndBookkept DEF Crash
<1>2. CASE UNCHANGED vars
  BY <1>2 DEF vars, blobVars, appVars, timerVars, Bookkept, TypeOK, Ids, TimersInv, CallsInv, EntriesInv, HasLease
<1> QED
  BY <1>1, <1>2, AcquireBookkept, UpdateBookkept, ReleaseBookkept, CallbackBookkept, TickBookkept
     DEF Next, App

LEMMA AlwaysBookkept == Spec => []Bookkept
  BY InitBookkept, NextBookkept, PTL DEF Spec

\* The blob, the dictionaries, the timers and the threads keep their types; in
\* particular a keep-alive is never due later than the lease ends.
THEOREM TypeCorrect == Spec => []TypeOK
<1>1. Bookkept => TypeOK
  BY DEF Bookkept
<1> QED BY <1>1, AlwaysBookkept, PTL

\* Whatever the callbacks of RenewLease remove and however late, an entry of a
\* manager in use has the keep-alive that was made for it.
THEOREM EntriesKeptAlive == Spec => []EntryKeptAlive
<1>1. Bookkept => EntryKeptAlive
  BY DEF Bookkept, EntriesInv, EntryKeptAlive, Believes
<1> QED BY <1>1, AlwaysBookkept, PTL
-----------------------------------------------------------------------------
(* The lease: what LeaseInv says survives every step, as long as calls and  *)
(* callbacks keep to Lateness.                                              *)

LEMMA LeaseBelieved ==
  ASSUME Bookkept, LeaseInv
  PROVE  BeliefIsTrue
<1> SUFFICES ASSUME NEW m \in Managers, Believes(m) PROVE Leased(entry[m])
  BY DEF BeliefIsTrue
<1>1. entry[m] \in Leases
  BY DEF Believes, HasLease, Bookkept, TypeOK, Ids
<1>2. due[entry[m]] \in Int /\ due[entry[m]] >= -Lateness
  BY <1>1, ConstantsType DEF Bookkept, TypeOK
<1>3. leaseId = entry[m] /\ remaining >= due[entry[m]] + Second - Lateness
  BY DEF LeaseInv
<1>4. remaining > 0
  BY <1>2, <1>3, ConstantsType DEF Bookkept, TypeOK
<1> QED BY <1>3, <1>4 DEF Leased

LEMMA AcquireLeased ==
  ASSUME Bookkept, LeaseInv, prompt, NEW m \in Managers, NEW i \in Leases, AcquireLease(m, i)
  PROVE  LeaseInv'
<1> USE DEF Bookkept, AcquireLease
<1>1. \A n \in Managers : ~Believes(n)
  BY LeaseBelieved DEF BeliefIsTrue, Leased
<1>2. \A n \in Managers : app[n] # "acquired"
  <2> SUFFICES ASSUME NEW n \in Managers, app[n] = "acquired" PROVE FALSE
    OBVIOUS
  <2>1. remaining >= LeaseTime - age[n] /\ age[n] \in 0..Lateness
    BY DEF LeaseInv, TypeOK
  <2> QED BY <2>1, ConstantsType DEF Interval
<1>3. \A n \in Managers : Believes(n)' => Believes(n)
  BY DEF Believes, HasLease
<1> QED BY <1>1, <1>2, <1>3, ConstantsType DEF LeaseInv, TypeOK, appVars

LEMMA UpdateLeased ==
  ASSUME Bookkept, LeaseInv, NEW m \in Managers, UpdateAcquiredLease(m) \/ ClearLease(m)
  PROVE  LeaseInv'
<1> USE DEF Bookkept, HasLease, Believes, IsAcquiredLeaseMissMatched, blobVars
<1>1. CASE UpdateAcquiredLease(m)
  <2> USE <1>1 DEF UpdateAcquiredLease
  <2>1. /\ pending[m] \in Leases /\ owner[pending[m]] = m /\ ~alive[pending[m]]
        /\ leaseId = pending[m] /\ remaining >= LeaseTime - age[m] /\ age[m] \in 0..Lateness
    BY DEF CallsInv, LeaseInv, TypeOK
  <2>2. \A n \in Managers \ {m} : app'[n] = app[n] /\ entry'[n] = entry[n] /\ age'[n] = age[n] /\ pending'[n] = pending[n]
    BY DEF TypeOK
  <2>3. ASSUME NEW n \in Managers, app'[n] = "acquired"
        PROVE  leaseId' = pending'[n] /\ remaining' >= LeaseTime - age'[n]
    BY <2>2, <2>3 DEF LeaseInv, TypeOK
  <2>4. ASSUME NEW n \in Managers \ {m}, Believes(n)'
        PROVE  leaseId' = entry'[n] /\ remaining' >= due'[entry'[n]] + Second - Lateness
    <3>1. Believes(n) /\ entry[n] \in Leases /\ entry[n] # pending[m]
      BY <2>1, <2>2, <2>4 DEF EntriesInv, TypeOK, Ids
    <3>2. due'[entry[n]] = due[entry[n]]
      BY <3>1 DEF TypeOK
    <3> QED BY <2>2, <3>1, <3>2 DEF LeaseInv
  <2>5. ASSUME Believes(m)'
        PROVE  leaseId' = entry'[m] /\ remaining' >= due'[entry'[m]] + Second - Lateness
    <3>1. CASE HasLease(m) /\ entry[m] # pending[m]
      BY <2>5, <3>1 DEF LeaseInv
    <3>2. CASE ~(HasLease(m) /\ entry[m] # pending[m])
      <4>1. entry'[m] = pending[m] /\ due'[pending[m]] = Interval
        BY <2>1, <3>2 DEF TypeOK
      <4> QED BY <2>1, <4>1, ConstantsType DEF TypeOK
    <3> QED BY <3>1, <3>2
  <2> QED BY <2>3, <2>4, <2>5 DEF LeaseInv
<1>2. CASE ClearLease(m)
  BY <1>2, ConstantsType DEF ClearLease, LeaseInv, TypeOK
<1> QED BY <1>1, <1>2

LEMMA ReleaseLeased ==
  ASSUME Bookkept, LeaseInv, NEW m \in Managers, ReleaseLease(m) \/ Released(m) \/ Dispose(m)
  PROVE  LeaseInv'
<1> USE DEF Bookkept, HasLease, Believes, blobVars, appVars, timerVars
<1>1. CASE ReleaseLease(m)
  BY <1>1, ConstantsType DEF ReleaseLease, EntryCleared, LeaseInv, TypeOK
<1>2. CASE Released(m)
  <2> USE <1>2 DEF Released
  <2>1. pending[m] \in Leases /\ owner[pending[m]] = m /\ ~HasLease(m)
    BY DEF CallsInv
  <2>2. ASSUME NEW n \in Managers, app'[n] = "acquired"
        PROVE  n # m /\ app[n] = "acquired" /\ pending[n] # pending[m] /\ pending'[n] = pending[n]
    BY <2>1, <2>2 DEF TypeOK, CallsInv
  <2>3. ASSUME NEW n \in Managers, Believes(n)'
        PROVE  Believes(n) /\ entry[n] # pending[m]
    BY <2>1, <2>3 DEF TypeOK, EntriesInv
  <2> QED BY <2>1, <2>2, <2>3 DEF LeaseInv
<1>3. CASE Dispose(m)
  BY <1>3 DEF Dispose, LeaseInv, TypeOK
<1> QED BY <1>1, <1>2, <1>3

LEMMA EndLeased ==
  ASSUME Bookkept, LeaseInv, NEW m \in Managers, ProcessEnds(m)
  PROVE  LeaseInv'
  BY DEF ProcessEnds, LeaseInv, Bookkept, TypeOK, Believes, HasLease, blobVars

LEMMA CallbackLeased ==
  ASSUME Bookkept, LeaseInv, NEW i \in Leases, Callback(i)
  PROVE  LeaseInv'
<1> USE DEF Bookkept, HasLease, Believes, blobVars, appVars
<1>1. CASE Fire(i)
  <2> USE <1>1 DEF Fire, Over
  <2>1. ASSUME NEW n \in Managers, Believes(n)
        PROVE  entry[n] \in Leases /\ due'[entry[n]] = due[entry[n]]
    BY <2>1 DEF TypeOK, Ids, EntriesInv
  <2> QED BY <2>1 DEF LeaseInv
<1>2. CASE ReadLeaseId(i)
  <2>1. owner[i] \in Managers
    BY <1>2 DEF ReadLeaseId, TimersInv
  <2>2. CASE ProcessEnds(owner[i])
    BY <2>1, <2>2, EndLeased
  <2>3. CASE ~ProcessEnds(owner[i])
    BY <1>2, <2>3 DEF ReadLeaseId, LeaseInv
  <2> QED BY <2>2, <2>3
<1>3. CASE RenewLease(i)
  <2> USE <1>3 DEF RenewLease, Over
  <2>1. remaining' = LeaseTime /\ remaining <= LeaseTime /\ remaining \in Nat
    BY DEF TypeOK
  <2>2. ASSUME NEW n \in Managers, app[n] = "acquired"
        PROVE  leaseId' = pending'[n] /\ remaining' >= LeaseTime - age'[n]
    BY <2>1, <2>2, ConstantsType DEF LeaseInv, TypeOK
  <2>3. ASSUME NEW n \in Managers, Believes(n)
        PROVE  leaseId' = entry'[n] /\ remaining' >= due'[entry'[n]] + Second - Lateness
    <3>1. entry[n] \in Leases /\ leaseId = entry[n]
      BY <2>3 DEF TypeOK, Ids, LeaseInv
    <3>2. due'[entry[n]] <= Interval /\ due'[entry[n]] \in Int
      BY <3>1, ConstantsType DEF TypeOK, TimersInv
    <3> QED BY <2>1, <3>1, <3>2, ConstantsType
  <2> QED BY <2>2, <2>3 DEF LeaseInv
<1>4. CASE RenewalFails(i)
  BY <1>4, ConstantsType DEF RenewalFails, LeaseInv, TypeOK, TimersInv, Ids
<1>5. CASE RemoveEntry(i)
  <2> USE <1>5 DEF RemoveEntry, EntryAfterFailure, Over
  <2>1. ASSUME NEW n \in Managers, Believes(n)'
        PROVE  /\ Believes(n) /\ entry'[n] = entry[n] /\ entry[n] \in Leases
               /\ due'[entry[n]] = due[entry[n]]
    <3>1. n # owner[i] /\ entry'[n] = entry[n] /\ Believes(n) /\ entry[n] \in Leases
      BY <2>1 DEF TypeOK, Ids
    <3>2. entry[n] # i
      BY <3>1 DEF EntriesInv
    <3> QED BY <3>1, <3>2 DEF TypeOK
  <2> QED BY <2>1 DEF LeaseInv
<1> QED BY <1>1, <1>2, <1>3, <1>4, <1>5 DEF Callback

LEMMA TickLeased ==
  ASSUME Bookkept, LeaseInv, Tick, prompt'
  PROVE  LeaseInv'
<1> USE DEF Bookkept, HasLease, Believes
<1>0. /\ ~Overdue
      /\ remaining' = IF remaining > 0 THEN remaining - 1 ELSE 0
      /\ age' = [m \in Managers |-> IF app[m] = "acquired" /\ age[m] < Lateness
                                      THEN age[m] + 1 ELSE age[m]]
      /\ due' = [i \in Leases |-> IF (alive[i] \/ callback[i] # "none") /\ due[i] > -Lateness
                                    THEN due[i] - 1 ELSE due[i]]
      /\ UNCHANGED <<leaseId, entry, life, app, pending, owner, alive>>
  BY Zenon DEF Tick
<1>1. ASSUME NEW m \in Managers, app'[m] = "acquired"
      PROVE  leaseId' = pending'[m] /\ remaining' >= LeaseTime - age'[m]
  <2>1. age[m] \in 0..Lateness /\ age'[m] = age[m] + 1
    BY <1>0, <1>1, ConstantsType DEF TypeOK, Overdue
  <2>2. leaseId = pending[m] /\ remaining >= LeaseTime - age[m]
    BY <1>0, <1>1 DEF LeaseInv
  <2> QED BY <1>0, <2>1, <2>2, ConstantsType DEF TypeOK
<1>2. ASSUME NEW m \in Managers, Believes(m)'
      PROVE  leaseId' = entry'[m] /\ remaining' >= due'[entry'[m]] + Second - Lateness
  <2>1. entry[m] \in Leases /\ alive[entry[m]]
    BY <1>0, <1>2 DEF TypeOK, Ids, EntriesInv
  <2>2. due[entry[m]] \in (-Lateness)..LeaseTime /\ due'[entry[m]] = due[entry[m]] - 1
    BY <1>0, <2>1, ConstantsType DEF TypeOK, Overdue
  <2>3. leaseId = entry[m] /\ remaining >= due[entry[m]] + Second - Lateness
    BY <1>0, <1>2 DEF LeaseInv
  <2> QED BY <1>0, <2>2, <2>3, ConstantsType DEF TypeOK
<1> QED BY <1>1, <1>2 DEF LeaseInv

LEMMA PromptSoFar == Bookkept /\ [Next]_vars /\ prompt' => prompt
<1> SUFFICES ASSUME Bookkept, [Next]_vars, prompt' PROVE prompt
  OBVIOUS
<1>1. CASE Tick
  BY <1>1, Zenon DEF Tick
<1>2. CASE prompt' = prompt
  BY <1>2
<1>3. CASE \E m \in Managers : (\E i \in Leases : AcquireLease(m, i)) \/ App(m) \/ ReleaseLease(m) \/ Dispose(m) \/ Crash(m)
  BY <1>2, <1>3 DEF AcquireLease, App, UpdateAcquiredLease, ClearLease, Released, ReleaseLease, Dispose, Crash, ProcessEnds
<1>4. CASE \E i \in Leases : Callback(i)
  BY <1>2, <1>4 DEF Callback, Fire, ReadLeaseId, RenewLease, RenewalFails, RemoveEntry, ProcessEnds
<1> QED BY <1>1, <1>2, <1>3, <1>4 DEF Next, vars

LEMMA AlwaysLeased == Spec => [](prompt => LeaseInv)
<1>1. Init => LeaseInv
  BY DEF Init, LeaseInv, Believes, HasLease
<1>2. Bookkept /\ (prompt => LeaseInv) /\ [Next]_vars => (prompt => LeaseInv)'
  <2> SUFFICES ASSUME Bookkept, prompt, prompt', LeaseInv, [Next]_vars PROVE LeaseInv'
    BY PromptSoFar
  <2>1. CASE UNCHANGED vars
    BY <2>1 DEF vars, blobVars, appVars, timerVars, LeaseInv, Believes, HasLease
  <2>2. ASSUME NEW m \in Managers, Crash(m) PROVE LeaseInv'
    BY <2>2, EndLeased DEF Crash
  <2> QED
    BY <2>1, <2>2, AcquireLeased, UpdateLeased, ReleaseLeased, CallbackLeased, TickLeased
       DEF Next, App
<1> QED BY <1>1, <1>2, AlwaysBookkept, PTL DEF Spec

\* HasLease is true only while the blob is under that lease: acquiring,
\* renewing and releasing, failures, crashes and callbacks that outlive their
\* entry included, provided calls and callbacks keep to Lateness.
THEOREM BeliefsAreTrue == Spec => []BeliefIsTrue
<1>1. Bookkept /\ (prompt => LeaseInv) => BeliefIsTrue
  BY LeaseBelieved DEF BeliefIsTrue
<1> QED BY <1>1, AlwaysBookkept, AlwaysLeased, PTL

\* So two managers in use never believe to have the blob at once.
THEOREM OneBelieverAtATime ==
  Spec => [](prompt => \A m, n \in Managers : Believes(m) /\ Believes(n) => m = n)
<1>1. Bookkept /\ BeliefIsTrue
      => (prompt => \A m, n \in Managers : Believes(m) /\ Believes(n) => m = n)
  BY DEF Bookkept, EntriesInv, BeliefIsTrue, Believes, Leased
<1> QED BY <1>1, AlwaysBookkept, BeliefsAreTrue, PTL
-----------------------------------------------------------------------------
(* The exclusive lease: every step is one of ExclusiveLease or none.        *)

\* A step that takes at most something from one manager ends what it has.
LEMMA TakesAtMost ==
  ASSUME NEW m \in Managers, owner' = owner,
         \A n \in Managers \ {m} : GrantedTo(n)' = GrantedTo(n) /\ HeldBy(n)' = HeldBy(n),
         GrantedTo(m)' \in {GrantedTo(m), NoLease}, HeldBy(m)' \in {HeldBy(m), NoLease}
  PROVE  L!Next /\ L!InTurn
<1>1. UNCHANGED {i \in Leases : ~Fresh(i)}
  BY DEF Fresh
<1> DEFINE g == [n \in Managers |-> GrantedTo(n)]
           h == [n \in Managers |-> HeldBy(n)]
<1>2. g' = g \/ g' = [g EXCEPT ![m] = NoLease]
  OBVIOUS
<1>3. h' = h \/ h' = [h EXCEPT ![m] = NoLease]
  OBVIOUS
<1>4. L!End(m)
  BY <1>1, <1>2, <1>3 DEF L!End
<1> QED BY <1>1, <1>4 DEF L!Next, L!InTurn

\* A step that changes no application thread, no entry and no life is none.
LEMMA TakesNothing ==
  ASSUME UNCHANGED <<entry, life, app, pending, owner>>
  PROVE  UNCHANGED L!vars
  BY DEF L!vars, Fresh, GrantedTo, HeldBy, Believes, HasLease

\* While LeaseInv holds, a lease that lapses is in nobody's hands.
LEMMA LapsedInNobodysHands ==
  ASSUME Bookkept, LeaseInv, remaining = 0
  PROVE  L!InNobodysHands
<1>1. ASSUME NEW m \in Managers PROVE GrantedTo(m) = NoLease /\ HeldBy(m) = NoLease
  <2>1. app[m] # "acquired"
    BY ConstantsType, ConstantsAssumption DEF LeaseInv, Bookkept, TypeOK
  <2>2. ~Believes(m)
    <3> SUFFICES ASSUME Believes(m) PROVE FALSE
      OBVIOUS
    <3>1. entry[m] \in Leases
      BY DEF Believes, HasLease, Bookkept, TypeOK, Ids
    <3> QED BY <3>1, ConstantsType DEF LeaseInv, Bookkept, TypeOK
  <2> QED BY <2>1, <2>2 DEF GrantedTo, HeldBy
<1> QED BY <1>1 DEF L!InNobodysHands

LEMMA AcquireGrants ==
  ASSUME Bookkept, prompt => LeaseInv, NEW m \in Managers, NEW i \in Leases, AcquireLease(m, i)
  PROVE  L!Next /\ (prompt' => L!InTurn)
<1> USE DEF AcquireLease
<1>1. prompt' => L!InTurn
  BY LapsedInNobodysHands DEF L!InTurn
<1>2. /\ i \notin {j \in Leases : ~Fresh(j)}
      /\ {j \in Leases : ~Fresh(j)}' = {j \in Leases : ~Fresh(j)} \cup {i}
  BY ConstantsType DEF Fresh, Bookkept, TypeOK
<1>3. \A n \in Managers : HeldBy(n)' = HeldBy(n)
  BY DEF HeldBy, Believes, HasLease
<1>4. /\ \A n \in Managers \ {m} : GrantedTo(n)' = GrantedTo(n)
      /\ GrantedTo(m)' \in {GrantedTo(m), i}
  BY DEF GrantedTo, appVars, Bookkept, TypeOK
<1> DEFINE g == [n \in Managers |-> GrantedTo(n)]
<1>5. g' \in {g, [g EXCEPT ![m] = i]}
  BY <1>4
<1>6. L!Grant(m, i)
  BY <1>2, <1>3, <1>5 DEF L!Grant
<1> QED BY <1>1, <1>6 DEF L!Next

LEMMA UpdateHolds ==
  ASSUME Bookkept, NEW m \in Managers, UpdateAcquiredLease(m)
  PROVE  L!Next /\ L!InTurn
<1> USE DEF UpdateAcquiredLease, Bookkept
<1>1. pending[m] \in Leases /\ ~alive[pending[m]] /\ life[m] = "up" /\ GrantedTo(m) = pending[m]
  BY DEF CallsInv, GrantedTo
<1>2. CASE IsAcquiredLeaseMissMatched(m, pending[m])
  <2>1. GrantedTo(m)' = NoLease /\ \A n \in Managers \ {m} : GrantedTo(n)' = GrantedTo(n)
    BY <1>2 DEF GrantedTo, TypeOK
  <2>2. \A n \in Managers : HeldBy(n)' = HeldBy(n)
    BY <1>2 DEF HeldBy, Believes, HasLease
  <2> QED BY <2>1, <2>2, TakesAtMost
<1>3. CASE ~IsAcquiredLeaseMissMatched(m, pending[m])
  <2>1. ~HasLease(m)
    BY <1>1, <1>3 DEF IsAcquiredLeaseMissMatched, EntriesInv
  <2>2. GrantedTo(m)' = NoLease /\ \A n \in Managers \ {m} : GrantedTo(n)' = GrantedTo(n)
    BY <1>3 DEF GrantedTo, TypeOK
  <2>3. /\ HeldBy(m) = NoLease /\ HeldBy(m)' = pending[m]
        /\ \A n \in Managers \ {m} : HeldBy(n)' = HeldBy(n)
    BY <1>1, <1>3, <2>1, ConstantsType DEF HeldBy, Believes, HasLease, TypeOK
  <2> DEFINE g == [n \in Managers |-> GrantedTo(n)]
             h == [n \in Managers |-> HeldBy(n)]
  <2>4. g' = [g EXCEPT ![m] = NoLease] /\ h' = [h EXCEPT ![m] = g[m]]
    BY <1>1, <2>2, <2>3
  <2>5. UNCHANGED {i \in Leases : ~Fresh(i)}
    BY DEF Fresh
  <2>6. L!Hold(m)
    BY <1>1, <2>3, <2>4, <2>5, ConstantsType DEF L!Hold
  <2> QED BY <2>5, <2>6 DEF L!Next, L!InTurn
<1> QED BY <1>2, <1>3

LEMMA AppEnds ==
  ASSUME Bookkept, NEW m \in Managers,
         \/ ClearLease(m) \/ ReleaseLease(m) \/ Released(m) \/ Dispose(m) \/ ProcessEnds(m)
  PROVE  L!Next /\ L!InTurn
<1> USE DEF Bookkept, TypeOK, GrantedTo, HeldBy, Believes, HasLease
<1>1. CASE ClearLease(m) \/ ReleaseLease(m)
  BY <1>1, TakesAtMost DEF ClearLease, ReleaseLease, EntryCleared
<1>2. CASE Released(m)
  BY <1>2, TakesAtMost DEF Released, timerVars
<1>3. CASE Dispose(m)
  BY <1>3, TakesAtMost DEF Dispose, appVars
<1>4. CASE ProcessEnds(m)
  BY <1>4, TakesAtMost DEF ProcessEnds
<1> QED BY <1>1, <1>2, <1>3, <1>4

LEMMA CallbackEnds ==
  ASSUME Bookkept, NEW i \in Leases, Callback(i)
  PROVE  (L!Next /\ L!InTurn) \/ UNCHANGED L!vars
<1>1. CASE Fire(i) \/ RenewLease(i) \/ RenewalFails(i)
  BY <1>1, TakesNothing DEF Fire, RenewLease, RenewalFails, appVars
<1>2. CASE ReadLeaseId(i)
  <2>1. owner[i] \in Managers
    BY <1>2 DEF ReadLeaseId, TimersInv, Bookkept
  <2> QED BY <1>2, <2>1, TakesNothing, AppEnds DEF ReadLeaseId, appVars
<1>3. CASE RemoveEntry(i)
  <2>1. owner[i] \in Managers
    BY <1>3 DEF RemoveEntry, TimersInv, Bookkept
  <2> QED BY <1>3, <2>1, TakesAtMost
          DEF RemoveEntry, EntryAfterFailure, appVars, GrantedTo, HeldBy, Believes, HasLease, Bookkept, TypeOK
<1> QED BY <1>1, <1>2, <1>3 DEF Callback

\* The managers implement the exclusive lease, for any number of managers and
\* leases: that no lease comes back and none goes astray needs no bound on the
\* time that calls take, that none is granted too early needs Lateness.
THEOREM ImplementsTheLease == Spec => ImplementsExclusiveLease
<1>1. Init => L!Init
  BY DEF Init, L!Init, Fresh, GrantedTo, HeldBy, Believes, HasLease
<1>2. Bookkept /\ (prompt => LeaseInv) /\ [Next]_vars
      => [(L!Next /\ (prompt' => L!InTurn)) \/ UNCHANGED L!vars]_vars
  <2> SUFFICES ASSUME Bookkept, prompt => LeaseInv, Next
               PROVE  (L!Next /\ (prompt' => L!InTurn)) \/ UNCHANGED L!vars
    OBVIOUS
  <2>1. CASE Tick
    BY <2>1, TakesNothing DEF Tick
  <2>2. CASE \E i \in Leases : Callback(i)
    BY <2>2, CallbackEnds
  <2>3. ASSUME NEW m \in Managers, NEW i \in Leases, AcquireLease(m, i)
        PROVE  L!Next /\ (prompt' => L!InTurn)
    BY <2>3, AcquireGrants
  <2>4. ASSUME NEW m \in Managers, App(m) \/ ReleaseLease(m) \/ Dispose(m) \/ Crash(m)
        PROVE  L!Next /\ L!InTurn
    BY <2>4, UpdateHolds, AppEnds DEF App, Crash
  <2> QED BY <2>1, <2>2, <2>3, <2>4 DEF Next
<1> QED BY <1>1, <1>2, AlwaysBookkept, AlwaysLeased, PTL DEF Spec, ImplementsExclusiveLease
-----------------------------------------------------------------------------
(* Why a false belief ends.                                                 *)

\* m believes in lease i, and the blob is not under it.
FalseBelief(m, i) == Believes(m) /\ entry[m] = i /\ ~Leased(i)

\* The ticks and the parts of RenewLease that are left until the keep-alive of
\* i has renewed the lease or taken the entry out.
UntilKnown(i) == CASE callback[i] = "none"     -> IF due[i] > 0 THEN due[i] + 4 ELSE 4
                   [] callback[i] = "checked"  -> 3
                   [] callback[i] = "renewing" -> 2
                   [] callback[i] = "failed"   -> 1

\* As long as the belief stays false, each tick its keep-alive waits for and each
\* part of its callback bring the end nearer; nothing else takes that back.
\* That the keep-alive is there is EntryKeptAlive.
FindsOut(m, i) ==
  FalseBelief(m, i) /\ FalseBelief(m, i)' =>
    /\ UntilKnown(i)' <= UntilKnown(i)
    /\ Callback(i) => UntilKnown(i)' < UntilKnown(i)
    /\ Tick /\ callback[i] = "none" /\ due[i] > 0 => UntilKnown(i)' < UntilKnown(i)

FalseBeliefsComeOut == [][\A m \in Managers, i \in Leases : FindsOut(m, i)]_vars

\* What is read for a lease that is still entered is that lease.
ReadInv == \A m \in Managers : Believes(m) /\ callback[entry[m]] = "renewing" => renewing[entry[m]] = entry[m]

LEMMA AlwaysRead == Spec => []ReadInv
<1>1. Init => ReadInv
  BY DEF Init, ReadInv, Believes, HasLease
<1>2. Bookkept /\ ReadInv /\ [Next]_vars => ReadInv'
  <2> SUFFICES ASSUME Bookkept, ReadInv, [Next]_vars,
                      NEW m \in Managers, Believes(m)', callback'[entry'[m]] = "renewing"
               PROVE  renewing'[entry'[m]] = entry'[m]
    BY DEF ReadInv
  <2> USE DEF Bookkept, TypeOK, Ids, Believes, HasLease, blobVars, appVars, timerVars
  <2>1. ASSUME NEW n \in Managers, UpdateAcquiredLease(n) PROVE renewing'[entry'[m]] = entry'[m]
    <3>1. CASE entry'[m] = entry[m]
      BY <2>1, <3>1 DEF UpdateAcquiredLease, ReadInv
    <3>2. CASE entry'[m] # entry[m]
      <4>1. entry'[m] = pending[n] /\ callback' = callback
        BY <2>1, <3>2 DEF UpdateAcquiredLease
      <4>2. callback[pending[n]] = "none"
        BY <2>1 DEF UpdateAcquiredLease, CallsInv
      <4> QED BY <4>1, <4>2
    <3> QED BY <3>1, <3>2
  <2>2. ASSUME NEW n \in Managers, NEW i \in Leases, AcquireLease(n, i) PROVE renewing'[entry'[m]] = entry'[m]
    BY <2>2 DEF AcquireLease, ReadInv
  <2>3. ASSUME NEW n \in Managers, Released(n) \/ Dispose(n) PROVE renewing'[entry'[m]] = entry'[m]
    BY <2>3 DEF Released, Dispose, ReadInv
  <2>4. ASSUME NEW n \in Managers, ClearLease(n) \/ ReleaseLease(n) PROVE renewing'[entry'[m]] = entry'[m]
    <3>1. entry'[m] = entry[m] /\ callback' = callback /\ renewing' = renewing /\ life' = life
      BY <2>4 DEF ClearLease, ReleaseLease, EntryCleared
    <3> QED BY <3>1 DEF ReadInv
  <2>5. ASSUME NEW n \in Managers, ProcessEnds(n) PROVE renewing'[entry'[m]] = entry'[m]
    <3>1. m # n /\ entry'[m] = entry[m] /\ life'[m] = life[m]
      BY <2>5 DEF ProcessEnds
    <3>2. owner[entry[m]] = m /\ entry[m] \in Leases
      BY <3>1 DEF EntriesInv
    <3>3. callback'[entry[m]] = callback[entry[m]] /\ renewing'[entry[m]] = renewing[entry[m]]
      BY <2>5, <3>1, <3>2 DEF ProcessEnds
    <3> QED BY <3>1, <3>3 DEF ReadInv
  <2>6. ASSUME NEW i \in Leases, Fire(i) \/ RenewLease(i) \/ RenewalFails(i) \/ RemoveEntry(i)
        PROVE  renewing'[entry'[m]] = entry'[m]
    <3>1. entry'[m] = entry[m] /\ life' = life
      BY <2>6 DEF Fire, RenewLease, RenewalFails, RemoveEntry, EntryAfterFailure
    <3>2. \A j \in Leases : callback'[j] = "renewing" => callback[j] = "renewing" /\ renewing'[j] = renewing[j]
      BY <2>6 DEF Fire, RenewLease, RenewalFails, RemoveEntry, Over
    <3> QED BY <3>1, <3>2 DEF ReadInv
  <2>7. ASSUME NEW i \in Leases, ReadLeaseId(i), UNCHANGED entry PROVE renewing'[entry'[m]] = entry'[m]
    <3>1. CASE ProcessEnds(owner[i])
      <4>1. owner[i] \in Managers
        BY <2>7 DEF ReadLeaseId, TimersInv
      <4> QED BY <2>5, <3>1, <4>1
    <3>2. CASE ~ProcessEnds(owner[i])
      <4>1. /\ renewing' = [renewing EXCEPT ![i] = entry[owner[i]]]
            /\ callback' = [callback EXCEPT ![i] = "renewing"]
            /\ life' = life
        BY <2>7, <3>2 DEF ReadLeaseId
      <4>2. owner[entry[m]] = m
        BY <2>7 DEF EntriesInv
      <4>3. CASE i = entry[m]
        BY <2>7, <4>1, <4>2, <4>3
      <4>4. CASE i # entry[m]
        BY <2>7, <4>1, <4>4 DEF ReadInv
      <4> QED BY <4>3, <4>4
    <3> QED BY <3>1, <3>2
  <2>8. ASSUME NEW i \in Leases, ReadLeaseId(i), ~(UNCHANGED entry) PROVE renewing'[entry'[m]] = entry'[m]
    <3>1. owner[i] \in Managers /\ ProcessEnds(owner[i])
      BY <2>8 DEF ReadLeaseId, TimersInv
    <3> QED BY <2>5, <3>1
  <2>9. CASE Tick \/ UNCHANGED vars
    BY <2>9 DEF Tick, vars, ReadInv
  <2> QED BY <2>1, <2>2, <2>3, <2>4, <2>5, <2>6, <2>7, <2>8, <2>9 DEF Next, App, Callback, Crash
<1> QED BY <1>1, <1>2, AlwaysBookkept, PTL DEF Spec

\* The parts as numbers.
LEMMA PartsOfRenewal ==
  ASSUME TypeOK, TypeOK', NEW i \in Leases
  PROVE  /\ due[i] \in Int /\ due'[i] \in Int
         /\ callback[i] \in {"none", "checked", "renewing", "failed"}
         /\ UntilKnown(i) = IF callback[i] = "none" THEN IF due[i] > 0 THEN due[i] + 4 ELSE 4
                            ELSE IF callback[i] = "checked" THEN 3
                            ELSE IF callback[i] = "renewing" THEN 2 ELSE 1
         /\ UntilKnown(i)' = IF callback'[i] = "none" THEN IF due'[i] > 0 THEN due'[i] + 4 ELSE 4
                             ELSE IF callback'[i] = "checked" THEN 3
                             ELSE IF callback'[i] = "renewing" THEN 2 ELSE 1
<1>1. /\ callback[i] \in {"none", "checked", "renewing", "failed"}
      /\ callback'[i] \in {"none", "checked", "renewing", "failed"}
  BY DEF TypeOK
<1>2. due[i] \in Int /\ due'[i] \in Int
  BY ConstantsType DEF TypeOK
<1> QED BY <1>1, <1>2 DEF UntilKnown

\* A false belief ends, unless the renewal makes it true: after finitely many
\* ticks and parts of one callback, however late they are, and whatever fails
\* and whoever else acquires meanwhile.
THEOREM FalseBeliefsCannotLast == Spec => FalseBeliefsComeOut
<1>1. ASSUME Bookkept, Bookkept', ReadInv, [Next]_vars, NEW m \in Managers, NEW i \in Leases,
             FalseBelief(m, i), FalseBelief(m, i)'
      PROVE  /\ UntilKnown(i)' <= UntilKnown(i)
             /\ Callback(i) => UntilKnown(i)' < UntilKnown(i)
             /\ Tick /\ callback[i] = "none" /\ due[i] > 0 => UntilKnown(i)' < UntilKnown(i)
  <2> USE DEF Bookkept, TypeOK, Ids
  <2>1. /\ life[m] = "up" /\ entry[m] = i /\ HasLease(m) /\ ~Leased(i)
        /\ life'[m] = "up" /\ entry'[m] = i /\ HasLease(m)' /\ ~Leased(i)'
        /\ owner[i] = m /\ alive[i] /\ i # NoLease
    BY <1>1, ConstantsType DEF FalseBelief, Believes, EntriesInv
  <2>2. /\ due[i] \in Int /\ due'[i] \in Int
        /\ callback[i] \in {"none", "checked", "renewing", "failed"}
        /\ UntilKnown(i) = IF callback[i] = "none" THEN IF due[i] > 0 THEN due[i] + 4 ELSE 4
                           ELSE IF callback[i] = "checked" THEN 3
                           ELSE IF callback[i] = "renewing" THEN 2 ELSE 1
        /\ UntilKnown(i)' = IF callback'[i] = "none" THEN IF due'[i] > 0 THEN due'[i] + 4 ELSE 4
                            ELSE IF callback'[i] = "checked" THEN 3
                            ELSE IF callback'[i] = "renewing" THEN 2 ELSE 1
    BY <1>1, PartsOfRenewal
  <2>3. CASE Fire(i)
    <3>1. callback[i] = "none" /\ due[i] <= 0 /\ callback'[i] = "checked"
      BY <1>1, <2>1, <2>3 DEF Fire
    <3> QED BY <2>2, <3>1
  <2>4. CASE ReadLeaseId(i)
    <3>1. callback[i] = "checked" /\ callback'[i] = "renewing"
      BY <1>1, <2>1, <2>4 DEF ReadLeaseId
    <3> QED BY <2>2, <3>1
  <2>5. ~RenewLease(i)
    <3> SUFFICES ASSUME RenewLease(i) PROVE FALSE
      OBVIOUS
    <3>1. callback[i] = "renewing" /\ renewing[i] = i
      BY <1>1, <2>1 DEF RenewLease, ReadInv, Believes
    <3>2. leaseId' = i /\ remaining' = LeaseTime /\ LeaseTime > 0
      BY <3>1, ConstantsAssumption DEF RenewLease
    <3> QED BY <2>1, <3>2 DEF Leased
  <2>6. CASE RenewalFails(i)
    <3>1. callback[i] = "renewing" /\ callback'[i] = "failed"
      BY <1>1, <2>6 DEF RenewalFails
    <3> QED BY <2>2, <3>1
  <2>7. ~RemoveEntry(i)
    BY <1>1, <2>1 DEF RemoveEntry, EntryAfterFailure, HasLease
  <2>8. CASE Tick
    <3>1. /\ callback'[i] = callback[i]
          /\ due'[i] = IF due[i] > -Lateness THEN due[i] - 1 ELSE due[i]
      BY <2>1, <2>8 DEF Tick
    <3>2. due[i] > 0 => due'[i] = due[i] - 1
      BY <2>2, <3>1, ConstantsType
    <3>3. due'[i] <= due[i]
      BY <2>2, <3>1
    <3>4. ~Callback(i) \/ UntilKnown(i)' < UntilKnown(i)
      BY <2>3, <2>4, <2>5, <2>6, <2>7, <2>2 DEF Callback
    <3> QED BY <2>2, <3>1, <3>2, <3>3, <3>4
  <2>9. ASSUME ~Tick, ~Callback(i) PROVE UntilKnown(i)' <= UntilKnown(i)
    <3>1. ASSUME callback'[i] = callback[i], due'[i] = due[i] PROVE UntilKnown(i)' <= UntilKnown(i)
      BY <2>2, <3>1
    <3>2. ASSUME NEW n \in Managers, UpdateAcquiredLease(n) PROVE UntilKnown(i)' <= UntilKnown(i)
      <4>1. pending[n] # i
        BY <1>1, <2>1, <3>2 DEF UpdateAcquiredLease, CallsInv
      <4>2. callback' = callback /\ due'[i] = due[i]
        BY <1>1, <3>2, <4>1 DEF UpdateAcquiredLease
      <4> QED BY <3>1, <4>2
    <3>3. ASSUME NEW n \in Managers,
                 \/ \E j \in Leases : AcquireLease(n, j)
                 \/ ClearLease(n) \/ ReleaseLease(n) \/ Dispose(n) \/ Released(n)
          PROVE  UntilKnown(i)' <= UntilKnown(i)
      BY <3>1, <3>3 DEF AcquireLease, ClearLease, ReleaseLease, Dispose, Released, timerVars
    <3>4. ASSUME NEW n \in Managers, ProcessEnds(n) PROVE UntilKnown(i)' <= UntilKnown(i)
      <4>1. n # m
        BY <1>1, <2>1, <3>4 DEF ProcessEnds
      <4>2. callback'[i] = callback[i] /\ due'[i] = due[i]
        BY <2>1, <3>4, <4>1 DEF ProcessEnds
      <4> QED BY <3>1, <4>2
    <3>5. ASSUME NEW j \in Leases, j # i, Fire(j) \/ RenewLease(j) \/ RenewalFails(j) \/ RemoveEntry(j)
          PROVE  UntilKnown(i)' <= UntilKnown(i)
      BY <1>1, <3>1, <3>5 DEF Fire, RenewLease, RenewalFails, RemoveEntry, Over
    <3>6. ASSUME NEW j \in Leases, j # i, ReadLeaseId(j) PROVE UntilKnown(i)' <= UntilKnown(i)
      <4>1. CASE ProcessEnds(owner[j])
        <5>1. owner[j] \in Managers
          BY <1>1, <3>6 DEF ReadLeaseId, TimersInv
        <5> QED BY <3>4, <4>1, <5>1
      <4>2. CASE ~ProcessEnds(owner[j])
        BY <1>1, <3>1, <3>6, <4>2 DEF ReadLeaseId
      <4> QED BY <4>1, <4>2
    <3>7. CASE UNCHANGED vars
      BY <3>1, <3>7 DEF vars, timerVars
    <3> QED BY <1>1, <2>9, <3>2, <3>3, <3>4, <3>5, <3>6, <3>7 DEF Next, App, Callback, Crash
  <2>10. Callback(i) => UntilKnown(i)' < UntilKnown(i)
    BY <2>2, <2>3, <2>4, <2>5, <2>6, <2>7 DEF Callback
  <2>11. UntilKnown(i) \in Int /\ UntilKnown(i)' \in Int
    BY <2>2
  <2> QED BY <2>8, <2>9, <2>10, <2>11
<1>2. Bookkept /\ Bookkept' /\ ReadInv /\ [Next]_vars
        => [\A m \in Managers, i \in Leases : FindsOut(m, i)]_vars
  BY <1>1 DEF FindsOut
<1> QED BY <1>2, AlwaysBookkept, AlwaysRead, PTL DEF Spec, FalseBeliefsComeOut

-----------------------------------------------------------------------------
(* Why a forgotten lease lapses.                                            *)

\* The blob is under lease i, nobody believes to have it, and its manager is
\* not one that was disposed of with a timer left over.
Forgotten(i) ==
  /\ Leased(i)
  /\ \A m \in Managers : ~(Believes(m) /\ entry[m] = i)
  /\ ~(life[owner[i]] = "disposed" /\ LeftOver(owner[i]) # {})

\* The callbacks under way that may still renew lease i.
Renewers(i) == {j \in Leases : \/ callback[j] = "renewing" /\ renewing[j] = i
                               \/ callback[j] = "checked" /\ entry[owner[j]] = i}

\* While it is forgotten no callback joins them, each renews once at most, and
\* in between the time runs down.
RunsDown(i) ==
  Forgotten(i) /\ Forgotten(i)' =>
    /\ Renewers(i)' \subseteq Renewers(i)
    /\ Renewers(i)' = Renewers(i) => remaining' <= remaining
    /\ Tick => remaining' < remaining

ForgottenLeasesRunDown == [][\A i \in Leases : RunsDown(i)]_vars

\* Finitely many callbacks are under way.
CallbacksFinite == IsFiniteSet({j \in Leases : callback[j] # "none"})

\* A manager that was disposed of has no timer for its entry, and one whose
\* process is gone has no entry.
EndedInv == \A m \in Managers : /\ life[m] = "disposed" /\ HasLease(m) => ~alive[entry[m]]
                                /\ life[m] = "gone" => ~HasLease(m)

LEMMA AlwaysEnded == Spec => []EndedInv
<1>1. Init => EndedInv
  <2>1. Init => \A m \in Managers : life[m] = "up"
    BY DEF Init
  <2> QED BY <2>1 DEF EndedInv
<1>2. Bookkept /\ EndedInv /\ [Next]_vars => EndedInv'
  <2> SUFFICES ASSUME Bookkept, EndedInv, [Next]_vars, NEW m \in Managers
               PROVE  /\ life'[m] = "disposed" /\ HasLease(m)' => ~alive'[entry'[m]]
                      /\ life'[m] = "gone" => ~HasLease(m)'
    BY DEF EndedInv
  <2> DEFINE Goal == /\ life'[m] = "disposed" /\ HasLease(m)' => ~alive'[entry'[m]]
                     /\ life'[m] = "gone" => ~HasLease(m)'
  <2> USE DEF Bookkept, TypeOK, Ids, HasLease
\* Entries go, timers too: for most steps that is all.
  <2>1. ASSUME life'[m] = life[m], entry'[m] \in {entry[m], NoLease},
               \A i \in Leases : alive'[i] => alive[i]
        PROVE  Goal
    BY <2>1 DEF EndedInv
  <2>2. ASSUME NEW n \in Managers, UpdateAcquiredLease(n) PROVE Goal
    <3>1. /\ life[n] = "up" /\ life' = life /\ pending[n] \in Leases /\ owner[pending[n]] = n
          /\ entry' = entry \/ entry' = [entry EXCEPT ![n] = pending[n]]
          /\ alive' = alive \/ alive' = [alive EXCEPT ![pending[n]] = TRUE]
      BY <2>2 DEF UpdateAcquiredLease, CallsInv
    <3>2. CASE n = m
      BY <3>1, <3>2
    <3>3. CASE n # m
      <4>1. entry'[m] = entry[m]
        BY <3>1, <3>3
      <4>2. HasLease(m) => owner[entry[m]] = m /\ entry[m] # pending[n]
        BY <3>1, <3>3 DEF EntriesInv
      <4>3. HasLease(m) => alive'[entry[m]] = alive[entry[m]]
        BY <3>1, <4>2
      <4> QED BY <3>1, <4>1, <4>3 DEF EndedInv
    <3> QED BY <3>2, <3>3
  <2>3. ASSUME NEW n \in Managers, Dispose(n) PROVE Goal
    BY <2>3 DEF Dispose, TimersDisposed, EndedInv
  <2>4. ASSUME NEW n \in Managers, ClearLease(n) \/ ReleaseLease(n) PROVE Goal
    BY <2>1, <2>4 DEF ClearLease, ReleaseLease, EntryCleared
  <2>5. ASSUME NEW n \in Managers, Released(n) \/ \E i \in Leases : AcquireLease(n, i) PROVE Goal
    BY <2>1, <2>5 DEF Released, AcquireLease, timerVars
  <2>6. ASSUME NEW n \in Managers, ProcessEnds(n) PROVE Goal
    <3>1. CASE n = m
      BY <2>6, <3>1 DEF ProcessEnds
    <3>2. CASE n # m
      BY <2>1, <2>6, <3>2 DEF ProcessEnds
    <3> QED BY <3>1, <3>2
  <2>7. ASSUME NEW i \in Leases, Fire(i) \/ RenewLease(i) \/ RenewalFails(i) \/ RemoveEntry(i) PROVE Goal
    BY <2>1, <2>7 DEF Fire, RenewLease, RenewalFails, RemoveEntry, EntryAfterFailure
  <2>8. ASSUME NEW i \in Leases, ReadLeaseId(i) PROVE Goal
    <3>1. CASE ProcessEnds(owner[i])
      <4>1. owner[i] \in Managers
        BY <2>8 DEF ReadLeaseId, TimersInv
      <4> QED BY <2>6, <3>1, <4>1
    <3>2. CASE ~ProcessEnds(owner[i])
      BY <2>1, <2>8, <3>2 DEF ReadLeaseId
    <3> QED BY <3>1, <3>2
  <2>9. CASE Tick \/ UNCHANGED vars
    BY <2>1, <2>9 DEF Tick, vars, timerVars
  <2> QED BY <2>2, <2>3, <2>4, <2>5, <2>6, <2>7, <2>8, <2>9 DEF Next, App, Callback, Crash
<1> QED BY <1>1, <1>2, AlwaysBookkept, PTL DEF Spec

\* What a callback needs to become one that may renew a lease which is not
\* entered by anybody in use: nothing gives it that while the lease is forgotten.
LEMMA NobodyJoins ==
  ASSUME Bookkept, EndedInv, NEW i \in Leases, Forgotten(i),
         NEW j \in Leases, Fire(j), HasLease(owner[j])
  PROVE  entry[owner[j]] # i
<1> SUFFICES ASSUME entry[owner[j]] = i PROVE FALSE
  OBVIOUS
<1> USE DEF Bookkept, TypeOK, Ids
<1>1. owner[j] \in Managers /\ alive[j]
  BY DEF Fire, TimersInv
<1>2. owner[i] = owner[j]
  BY <1>1 DEF EntriesInv
<1>3. life[owner[j]] = "disposed"
  BY <1>1 DEF Forgotten, Believes, EndedInv
<1>4. ~alive[i]
  BY <1>1, <1>3 DEF EndedInv
<1>5. j \in LeftOver(owner[j])
  BY <1>1, <1>4 DEF LeftOver
<1> QED BY <1>2, <1>3, <1>5 DEF Forgotten

\* A step in which some callbacks end, entries go and nothing is renewed.
LEMMA NothingRenewed ==
  ASSUME Bookkept, NEW i \in Leases, owner' = owner, remaining' = remaining,
         \A j \in Leases : \/ callback'[j] \notin {"checked", "renewing"}
                           \/ callback'[j] = callback[j] /\ renewing'[j] = renewing[j],
         \A m \in Managers : entry'[m] = i => entry[m] = i
  PROVE  Renewers(i)' \subseteq Renewers(i) /\ remaining' <= remaining
<1> USE DEF Bookkept, TypeOK
<1>1. ASSUME NEW j \in Leases, j \in Renewers(i)' PROVE j \in Renewers(i)
  <2>1. callback'[j] = callback[j] /\ renewing'[j] = renewing[j] /\ callback[j] # "none"
    BY <1>1 DEF Renewers
  <2>2. owner[j] \in Managers
    BY <2>1 DEF TimersInv
  <2> QED BY <1>1, <2>1, <2>2 DEF Renewers
<1>2. remaining \in Int
  BY ConstantsType
<1> QED BY <1>1, <1>2 DEF Renewers

\* A lease that nobody believes to have lapses, unless its manager was disposed
\* of with a timer left over: while it is forgotten no renewal begins, the
\* callbacks under way renew it once each at most, and otherwise its time runs
\* down, whatever fails and whoever else calls.
THEOREM ForgottenLeasesCannotLast == Spec => ForgottenLeasesRunDown
<1>1. ASSUME Bookkept, EndedInv, Next, NEW i \in Leases, Forgotten(i), Forgotten(i)'
      PROVE  /\ Renewers(i)' \subseteq Renewers(i)
             /\ Renewers(i)' = Renewers(i) => remaining' <= remaining
  <2> DEFINE Goal == /\ Renewers(i)' \subseteq Renewers(i)
                     /\ Renewers(i)' = Renewers(i) => remaining' <= remaining
  <2> USE DEF Bookkept, TypeOK, Ids
  <2>1. leaseId = i /\ remaining > 0 /\ leaseId' = i /\ remaining' > 0 /\ i # NoLease
    BY <1>1, ConstantsType DEF Forgotten, Leased
  <2>2. ASSUME NEW j \in Leases, Fire(j) PROVE Goal
    <3>1. CASE HasLease(owner[j])
      <4>1. entry[owner[j]] # i
        BY <1>1, <2>2, <3>1, NobodyJoins
      <4>2. /\ UNCHANGED <<owner, entry, renewing, remaining>>
            /\ callback' = [callback EXCEPT ![j] = "checked"]
        BY <2>2, <3>1 DEF Fire, blobVars
      <4>3. ASSUME NEW k \in Leases, k \in Renewers(i)' PROVE k \in Renewers(i)
        BY <1>1, <4>1, <4>2, <4>3 DEF Renewers
      <4>4. remaining' <= remaining
        BY <1>1, <4>2, ConstantsType
      <4> QED BY <4>3, <4>4 DEF Renewers
    <3>2. CASE ~HasLease(owner[j])
      <4>1. /\ UNCHANGED <<owner, entry, remaining>>
            /\ \A k \in Leases : \/ callback'[k] = "none"
                                 \/ callback'[k] = callback[k] /\ renewing'[k] = renewing[k]
        BY <1>1, <2>2, <3>2 DEF Fire, Over, blobVars
      <4> QED BY <1>1, <4>1, NothingRenewed
    <3> QED BY <3>1, <3>2
  <2>3. ASSUME NEW n \in Managers, ProcessEnds(n) PROVE Goal
    <3>1. /\ UNCHANGED <<owner, remaining>>
          /\ \A k \in Leases : \/ callback'[k] = "none"
                               \/ callback'[k] = callback[k] /\ renewing'[k] = renewing[k]
          /\ \A m \in Managers : entry'[m] = i => entry[m] = i
      BY <1>1, <2>1, <2>3 DEF ProcessEnds, blobVars
    <3> QED BY <1>1, <3>1, NothingRenewed
  <2>4. ASSUME NEW j \in Leases, ReadLeaseId(j) PROVE Goal
    <3>1. owner[j] \in Managers
      BY <1>1, <2>4 DEF ReadLeaseId, TimersInv
    <3>2. CASE ProcessEnds(owner[j])
      BY <2>3, <3>1, <3>2
    <3>3. CASE ~ProcessEnds(owner[j])
      <4>1. /\ UNCHANGED <<owner, entry, remaining>> /\ callback[j] = "checked"
            /\ renewing' = [renewing EXCEPT ![j] = entry[owner[j]]]
            /\ callback' = [callback EXCEPT ![j] = "renewing"]
        BY <2>4, <3>3 DEF ReadLeaseId, blobVars
      <4>2. ASSUME NEW k \in Leases, k \in Renewers(i)' PROVE k \in Renewers(i)
        BY <1>1, <4>1, <4>2 DEF Renewers
      <4>3. remaining' <= remaining
        BY <1>1, <4>1, ConstantsType
      <4> QED BY <4>2, <4>3 DEF Renewers
    <3> QED BY <3>2, <3>3
\* A renewal is the last that its callback can do for the lease.
  <2>5. ASSUME NEW j \in Leases, RenewLease(j) \/ RenewalFails(j) PROVE Goal
    <3>1. /\ UNCHANGED <<owner, entry>> /\ callback[j] = "renewing"
          /\ \A k \in Leases : \/ callback'[k] \in {"none", "failed"}
                               \/ callback'[k] = callback[k] /\ renewing'[k] = renewing[k]
          /\ callback'[j] \in {"none", "failed"}
      BY <1>1, <2>5 DEF RenewLease, RenewalFails, Over
    <3>2. CASE remaining' = remaining
      BY <1>1, <3>1, <3>2, NothingRenewed
    <3>3. CASE remaining' # remaining
      <4>1. renewing[j] = i
        BY <2>1, <2>5, <3>3 DEF RenewLease, RenewalFails
      <4>2. j \in Renewers(i) /\ j \notin Renewers(i)'
        BY <3>1, <4>1 DEF Renewers
      <4>3. Renewers(i)' \subseteq Renewers(i)
        BY <3>1 DEF Renewers
      <4> QED BY <4>2, <4>3
    <3> QED BY <3>2, <3>3
  <2>6. ASSUME NEW j \in Leases, RemoveEntry(j) PROVE Goal
    <3>1. /\ UNCHANGED <<owner, remaining>>
          /\ \A k \in Leases : \/ callback'[k] = "none"
                               \/ callback'[k] = callback[k] /\ renewing'[k] = renewing[k]
          /\ \A m \in Managers : entry'[m] = i => entry[m] = i
      BY <1>1, <2>1, <2>6 DEF RemoveEntry, EntryAfterFailure, Over, blobVars
    <3> QED BY <1>1, <3>1, NothingRenewed
  <2>7. ASSUME NEW n \in Managers, UpdateAcquiredLease(n) PROVE Goal
    <3>1. /\ UNCHANGED <<owner, remaining, callback, renewing, life>> /\ life[n] = "up"
          /\ entry' = entry \/ entry' = [entry EXCEPT ![n] = pending[n]]
      BY <1>1, <2>7 DEF UpdateAcquiredLease, CallsInv, blobVars
    <3>2. \A m \in Managers : entry'[m] = i => entry[m] = i
      <4> SUFFICES ASSUME NEW m \in Managers, entry'[m] = i, entry[m] # i PROVE FALSE
        OBVIOUS
      <4>1. m = n
        BY <1>1, <3>1
      <4>2. Believes(n)'
        BY <2>1, <3>1, <4>1 DEF Believes, HasLease
      <4> QED BY <1>1, <4>1, <4>2 DEF Forgotten
    <3> QED BY <1>1, <3>1, <3>2, NothingRenewed
  <2>8. ASSUME NEW n \in Managers, ClearLease(n) \/ ReleaseLease(n) \/ Dispose(n) PROVE Goal
    <3>1. /\ UNCHANGED <<owner, remaining, callback, renewing>>
          /\ \A m \in Managers : entry'[m] = i => entry[m] = i
      BY <1>1, <2>1, <2>8 DEF ClearLease, ReleaseLease, EntryCleared, Dispose, blobVars
    <3> QED BY <1>1, <3>1, NothingRenewed
  <2>9. ASSUME NEW n \in Managers, Released(n) PROVE Goal
    <3>1. UNCHANGED <<owner, remaining, callback, renewing, entry>>
      BY <2>1, <2>9 DEF Released, blobVars, timerVars
    <3> QED BY <1>1, <3>1, NothingRenewed
  <2>10. ~\E n \in Managers, j \in Leases : AcquireLease(n, j)
    BY <2>1 DEF AcquireLease
  <2>11. CASE Tick
    <3>1. UNCHANGED <<owner, callback, renewing, entry>> /\ remaining' = remaining - 1
      BY <2>1, <2>11 DEF Tick
    <3>2. Renewers(i)' = Renewers(i)
      BY <3>1 DEF Renewers
    <3> QED BY <1>1, <3>1, <3>2, ConstantsType
  <2> QED BY <1>1, <2>2, <2>3, <2>4, <2>5, <2>6, <2>7, <2>8, <2>9, <2>10, <2>11
          DEF Next, App, Callback, Crash
<1>2. ASSUME Bookkept, NEW i \in Leases, Forgotten(i), Tick PROVE remaining' < remaining
  <2>1. remaining > 0 /\ remaining' = IF remaining > 0 THEN remaining - 1 ELSE 0
    BY <1>2 DEF Forgotten, Leased, Tick
  <2>2. remaining \in Int
    BY <1>2, ConstantsType DEF Bookkept, TypeOK
  <2> QED BY <2>1, <2>2
<1>3. Bookkept /\ EndedInv /\ [Next]_vars => [\A i \in Leases : RunsDown(i)]_vars
  BY <1>1, <1>2 DEF RunsDown
<1> QED BY <1>3, AlwaysBookkept, AlwaysEnded, PTL DEF Spec, ForgottenLeasesRunDown

\* Only finitely many callbacks are under way at any time, so that the renewals
\* that a forgotten lease may still get come to an end.
LEMMA CallbacksAreFinite == Spec => []CallbacksFinite
<1> DEFINE UnderWay == {j \in Leases : callback[j] # "none"}
<1>1. Init => CallbacksFinite
  <2> SUFFICES ASSUME Init PROVE CallbacksFinite
    OBVIOUS
  <2>1. UnderWay = {}
    BY DEF Init
  <2> QED BY <2>1, FS_EmptySet DEF CallbacksFinite
<1>2. ASSUME CallbacksFinite, NEW j \in Leases, UnderWay' \subseteq UnderWay \cup {j} PROVE CallbacksFinite'
  <2>1. IsFiniteSet(UnderWay)
    BY <1>2 DEF CallbacksFinite
  <2>2. IsFiniteSet(UnderWay \cup {j})
    BY <2>1, FS_AddElement
  <2>3. IsFiniteSet(UnderWay')
    BY <1>2, <2>2, FS_Subset
  <2> QED BY <2>3 DEF CallbacksFinite
<1>3. ASSUME CallbacksFinite, UnderWay' \subseteq UnderWay PROVE CallbacksFinite'
  <2>1. IsFiniteSet(UnderWay')
    BY <1>3, FS_Subset DEF CallbacksFinite
  <2> QED BY <2>1 DEF CallbacksFinite
<1>4. TypeOK /\ CallbacksFinite /\ [Next]_vars => CallbacksFinite'
  <2> SUFFICES ASSUME TypeOK, CallbacksFinite, [Next]_vars PROVE CallbacksFinite'
    OBVIOUS
  <2> USE DEF TypeOK
  <2>1. ASSUME NEW j \in Leases, Callback(j), ~ProcessEnds(owner[j]) PROVE CallbacksFinite'
    <3>1. UnderWay' \subseteq UnderWay \cup {j}
      BY <2>1 DEF Callback, Fire, ReadLeaseId, RenewLease, RenewalFails, RemoveEntry, Over
    <3> QED BY <1>2, <3>1
  <2>2. ASSUME NEW m, ProcessEnds(m) PROVE CallbacksFinite'
    <3>1. UnderWay' \subseteq UnderWay
      BY <2>2 DEF ProcessEnds
    <3> QED BY <1>3, <3>1
  <2>3. ASSUME callback' = callback PROVE CallbacksFinite'
    BY <1>3, <2>3
  <2>4. ASSUME NEW m \in Managers, App(m) \/ ReleaseLease(m) \/ Dispose(m) \/ \E i \in Leases : AcquireLease(m, i)
        PROVE  CallbacksFinite'
    BY <2>3, <2>4 DEF App, UpdateAcquiredLease, ClearLease, Released, ReleaseLease, Dispose, AcquireLease, timerVars
  <2>5. CASE Tick \/ UNCHANGED vars
    BY <2>3, <2>5 DEF Tick, vars, timerVars
  <2> QED BY <2>1, <2>2, <2>4, <2>5 DEF Next, Crash
<1> QED BY <1>1, <1>4, TypeCorrect, PTL DEF Spec
=============================================================================
