-------------------------- MODULE BlobLeaseManager --------------------------
(***************************************************************************)
(* BlobLeaseManagers competing for the lease of one blob.  A manager has   *)
(* an application thread, which acquires and releases, and one keep-alive  *)
(* timer for each lease it has entered in acquiredLeases; the callbacks of *)
(* different timers run beside one another and beside the application      *)
(* thread.  Operations on the dictionary are atomic, calls to the blob     *)
(* service take time.  Time passes in ticks, Second of them to a second.   *)
(***************************************************************************)
EXTENDS Integers

CONSTANTS
  Managers,
  Leases,      \* the lease ids Guid.NewGuid may propose, each used once
  NoLease,     \* no id: no entry for the blob, or the blob was never leased
  LeaseTime,   \* leaseTimeInSeconds, in ticks
  Second,      \* the ticks in a second
  Lateness,    \* how late a prompt call or callback may be through
  MaxFaults    \* the budget of failed calls, lost answers and crashes

ASSUME ConstantsAssumption ==
  /\ NoLease \notin Leases \cup Managers
  /\ LeaseTime \in Nat /\ Second \in Nat \ {0} /\ LeaseTime > Second
  /\ Lateness \in Nat /\ 2 * Lateness < Second
  /\ MaxFaults \in Nat

VARIABLES
  leaseId,    \* the id the blob was last leased under
  remaining,  \* the ticks until that lease lapses
  entry,      \* entry[m]: acquiredLeases[blob.Name].LeaseId, or NoLease
  life,       \* life[m]: the manager is up, disposed, or its process is gone
  app,        \* app[m]: where the application thread is in its call
  pending,    \* pending[m]: the lease that call is about
  age,        \* age[m]: the ticks since the service granted it
  owner,      \* owner[i]: the manager whose timer was made for lease i
  alive,      \* alive[i]: that timer has been made and not disposed
  due,        \* due[i]: the ticks until it is due; negative when it is late
  callback,   \* callback[i]: where its callback is in RenewLease
  renewing,   \* renewing[i]: the lease id that callback has read
  faults,     \* how much of the budget is spent
  prompt      \* no call and no callback has taken longer than Lateness so far

blobVars  == <<leaseId, remaining>>
appVars   == <<app, pending, age>>
timerVars == <<owner, alive, due, callback, renewing>>
vars == <<blobVars, entry, life, appVars, timerVars, faults, prompt>>

Ids == Leases \cup {NoLease}

\* Mutant: a second more than the lease.
LateInterval == LeaseTime + Second

\* The interval of the keep-alive, one second less than the lease.
Interval == LeaseTime - Second

TypeOK ==
  /\ leaseId \in Ids /\ remaining \in 0..LeaseTime
  /\ entry \in [Managers -> Ids]
  /\ life \in [Managers -> {"up", "disposed", "gone"}]
  /\ app \in [Managers -> {"idle", "acquired", "clearing", "releasing"}]
  /\ pending \in [Managers -> Ids]
  /\ age \in [Managers -> 0..Lateness]
  /\ owner \in [Leases -> Managers \cup {NoLease}]
  /\ alive \in [Leases -> BOOLEAN]
  /\ due \in [Leases -> (-Lateness)..LeaseTime]
  /\ callback \in [Leases -> {"none", "checked", "renewing", "failed"}]
  /\ renewing \in [Leases -> Ids]
  /\ faults \in 0..MaxFaults /\ prompt \in BOOLEAN

Init ==
  /\ leaseId = NoLease /\ remaining = 0
  /\ entry = [m \in Managers |-> NoLease]
  /\ life = [m \in Managers |-> "up"]
  /\ app = [m \in Managers |-> "idle"]
  /\ pending = [m \in Managers |-> NoLease]
  /\ age = [m \in Managers |-> 0]
  /\ owner = [i \in Leases |-> NoLease]
  /\ alive = [i \in Leases |-> FALSE]
  /\ due = [i \in Leases |-> 0]
  /\ callback = [i \in Leases |-> "none"]
  /\ renewing = [i \in Leases |-> NoLease]
  /\ faults = 0 /\ prompt = TRUE

Fault == faults < MaxFaults /\ faults' = faults + 1

HasLease(m) == entry[m] # NoLease
-----------------------------------------------------------------------------
(* The application thread.                                                 *)

\* i was never proposed: no thread, timer or blob knows it.
Fresh(i) == owner[i] = NoLease

\* TryAcquireLease(m), up to the answer of the service, which grants the lease
\* i when no other is running.  A refusal or a failed call returns false and
\* is no step; when the answer is lost, the lease is granted to nobody.
AcquireLease(m, i) ==
  /\ life[m] = "up" /\ app[m] = "idle"
  /\ remaining = 0 /\ Fresh(i)
  /\ leaseId' = i /\ remaining' = LeaseTime
  /\ owner' = [owner EXCEPT ![i] = m]
  /\ \/ /\ app' = [app EXCEPT ![m] = "acquired"]
        /\ pending' = [pending EXCEPT ![m] = i]
        /\ age' = [age EXCEPT ![m] = 0]
        /\ UNCHANGED faults
     \/ Fault /\ UNCHANGED appVars
  /\ UNCHANGED <<entry, life, alive, due, callback, renewing, prompt>>

\* acquiredLeases holds another lease of the blob.
IsAcquiredLeaseMissMatched(m, i) == HasLease(m) /\ entry[m] # i

\* UpdateAcquiredLease, before TryAcquireLease returns true: the lease gets an
\* entry and a keep-alive, unless there is an entry already; then the new lease
\* gets neither, and that entry is to be cleared.
UpdateAcquiredLease(m) ==
  LET i == pending[m] IN
  /\ app[m] = "acquired"
  /\ pending' = [pending EXCEPT ![m] = NoLease]
  /\ age' = [age EXCEPT ![m] = 0]
  /\ IF IsAcquiredLeaseMissMatched(m, i)
       THEN app' = [app EXCEPT ![m] = "clearing"] /\ UNCHANGED <<entry, alive, due>>
       ELSE /\ app' = [app EXCEPT ![m] = "idle"]
            /\ entry' = [entry EXCEPT ![m] = i]
            /\ alive' = [alive EXCEPT ![i] = TRUE]
            /\ due' = [due EXCEPT ![i] = Interval]
  /\ UNCHANGED <<blobVars, life, owner, callback, renewing, faults, prompt>>

\* ClearLease, after the mismatch.  If a callback has taken the entry out
\* meanwhile, TryAcquireLease throws and the timer is left running.
ClearLease(m) ==
  /\ app[m] = "clearing" /\ app' = [app EXCEPT ![m] = "idle"]
  /\ IF HasLease(m)
       THEN /\ entry' = [entry EXCEPT ![m] = NoLease]
            /\ alive' = [alive EXCEPT ![entry[m]] = FALSE]
       ELSE UNCHANGED <<entry, alive>>
  /\ UNCHANGED <<blobVars, life, pending, age, owner, due, callback, renewing, faults, prompt>>

\* Mutant: only the keep-alive is disposed of.
EntryNotRemoved(m) == entry

\* ClearLease takes the entry out before the service is asked.
EntryCleared(m) == [entry EXCEPT ![m] = NoLease]

\* ReleaseLease, up to the call of the service.
ReleaseLease(m) ==
  /\ life[m] = "up" /\ app[m] = "idle" /\ HasLease(m)
  /\ app' = [app EXCEPT ![m] = "releasing"]
  /\ pending' = [pending EXCEPT ![m] = entry[m]]
  /\ alive' = [alive EXCEPT ![entry[m]] = FALSE]
  /\ entry' = EntryCleared(m)
  /\ UNCHANGED <<blobVars, life, age, owner, due, callback, renewing, faults, prompt>>

\* The service releases the lease if it is the one the blob has; what else
\* happens is swallowed.
Released(m) ==
  /\ app[m] = "releasing" /\ app' = [app EXCEPT ![m] = "idle"]
  /\ pending' = [pending EXCEPT ![m] = NoLease]
  /\ \/ /\ remaining' = IF leaseId = pending[m] THEN 0 ELSE remaining
        /\ leaseId' = IF leaseId = pending[m] THEN NoLease ELSE leaseId
        /\ UNCHANGED faults
     \/ Fault /\ UNCHANGED blobVars
  /\ UNCHANGED <<entry, life, age, timerVars, prompt>>

\* Mutant: the keep-alives go on.
TimersUntouched(m) == alive

TimersDisposed(m) == [i \in Leases |-> alive[i] /\ entry[m] # i]

\* Dispose stops the keep-alives of the entries and leaves the entries.
Dispose(m) ==
  /\ life[m] = "up" /\ app[m] = "idle"
  /\ life' = [life EXCEPT ![m] = "disposed"]
  /\ alive' = TimersDisposed(m)
  /\ UNCHANGED <<blobVars, entry, appVars, owner, due, callback, renewing, faults, prompt>>

\* The process of m ends: its entries, threads and timers are gone.
ProcessEnds(m) ==
  /\ life' = [life EXCEPT ![m] = "gone"]
  /\ entry' = [entry EXCEPT ![m] = NoLease]
  /\ app' = [app EXCEPT ![m] = "idle"]
  /\ pending' = [pending EXCEPT ![m] = NoLease]
  /\ age' = [age EXCEPT ![m] = 0]
  /\ alive' = [i \in Leases |-> alive[i] /\ owner[i] # m]
  /\ callback' = [i \in Leases |-> IF owner[i] = m THEN "none" ELSE callback[i]]
  /\ renewing' = [i \in Leases |-> IF owner[i] = m THEN NoLease ELSE renewing[i]]
  /\ UNCHANGED <<blobVars, owner, due, prompt>>

Crash(m) == life[m] # "gone" /\ Fault /\ ProcessEnds(m)
-----------------------------------------------------------------------------
(* RenewLease, the callback of the keep-alive made for lease i.            *)

\* The callback is over; the next one is due an interval after this one was.
Over(i) == /\ callback' = [callback EXCEPT ![i] = "none"]
           /\ renewing' = [renewing EXCEPT ![i] = NoLease]
           /\ due' = [due EXCEPT ![i] = @ + Interval]

\* The timer fires, and the callback looks whether there is an entry.
Fire(i) ==
  /\ alive[i] /\ due[i] <= 0 /\ callback[i] = "none"
  /\ IF HasLease(owner[i])
       THEN callback' = [callback EXCEPT ![i] = "checked"] /\ UNCHANGED <<renewing, due>>
       ELSE Over(i)
  /\ UNCHANGED <<blobVars, entry, life, appVars, owner, alive, faults, prompt>>

\* It reads the id of the entry, whichever that is by now.  If there is none
\* the KeyNotFoundException escapes from a timer callback and ends the process.
ReadLeaseId(i) ==
  /\ callback[i] = "checked"
  /\ \/ /\ HasLease(owner[i])
        /\ renewing' = [renewing EXCEPT ![i] = entry[owner[i]]]
        /\ callback' = [callback EXCEPT ![i] = "renewing"]
        /\ UNCHANGED <<blobVars, entry, life, appVars, owner, alive, due, prompt>>
     \/ ~HasLease(owner[i]) /\ ProcessEnds(owner[i])
  /\ UNCHANGED faults

\* The service renews the lease, lapsed or not, as long as the blob has had no
\* other since.
RenewLease(i) ==
  /\ callback[i] = "renewing" /\ leaseId = renewing[i]
  /\ remaining' = LeaseTime
  /\ Over(i)
  /\ UNCHANGED <<leaseId, entry, life, appVars, owner, alive, faults, prompt>>

\* It refuses, or the call fails before or after the lease is renewed.
RenewalFails(i) ==
  /\ callback[i] = "renewing"
  /\ callback' = [callback EXCEPT ![i] = "failed"]
  /\ \/ leaseId # renewing[i] /\ UNCHANGED <<faults, remaining>>
     \/ Fault /\ UNCHANGED remaining
     \/ Fault /\ leaseId = renewing[i] /\ remaining' = LeaseTime
  /\ UNCHANGED <<leaseId, entry, life, appVars, owner, alive, due, renewing, prompt>>

\* Mutant: a failed renewal leaves the entry.
EntryKept(m) == entry

EntryAfterFailure(m) == [entry EXCEPT ![m] = NoLease]

\* acquiredLeases.Remove(name): whatever entry there is by now, and without
\* disposing of its timer.
RemoveEntry(i) ==
  /\ callback[i] = "failed"
  /\ entry' = EntryAfterFailure(owner[i])
  /\ Over(i)
  /\ UNCHANGED <<blobVars, life, appVars, owner, alive, faults, prompt>>
-----------------------------------------------------------------------------
\* A call or a callback that has taken as long as Lateness allows.
Overdue == \/ \E m \in Managers : app[m] = "acquired" /\ age[m] = Lateness
           \/ \E i \in Leases : /\ alive[i] \/ callback[i] # "none"
                                /\ due[i] = -Lateness

\* A tick passes.  Lateness beyond the bound is not counted.
Tick ==
  /\ prompt' = (prompt /\ ~Overdue)
  /\ remaining' = IF remaining > 0 THEN remaining - 1 ELSE 0
  /\ age' = [m \in Managers |-> IF app[m] = "acquired" /\ age[m] < Lateness
                                  THEN age[m] + 1 ELSE age[m]]
  /\ due' = [i \in Leases |-> IF (alive[i] \/ callback[i] # "none") /\ due[i] > -Lateness
                                THEN due[i] - 1 ELSE due[i]]
  /\ UNCHANGED <<leaseId, entry, life, app, pending, owner, alive, callback, renewing, faults>>

App(m) == UpdateAcquiredLease(m) \/ ClearLease(m) \/ Released(m)

Callback(i) == Fire(i) \/ ReadLeaseId(i) \/ RenewLease(i) \/ RenewalFails(i) \/ RemoveEntry(i)

Next ==
  \/ \E m \in Managers : \/ \E i \in Leases : AcquireLease(m, i)
                         \/ App(m) \/ ReleaseLease(m) \/ Dispose(m) \/ Crash(m)
  \/ \E i \in Leases : Callback(i)
  \/ Tick

Spec == Init /\ [][Next]_vars

\* Time passes, timers fire, and calls that were made are answered; nobody has
\* to acquire, release or dispose of anything.
FairSpec == /\ Spec
            /\ WF_vars(Tick)
            /\ \A m \in Managers : WF_vars(App(m))
            /\ \A i \in Leases : WF_vars(Callback(i))
-----------------------------------------------------------------------------
(* Properties.                                                             *)

\* The blob is under lease i at this moment.
Leased(i) == leaseId = i /\ remaining > 0

\* m is in use and its HasLease says yes.
Believes(m) == life[m] = "up" /\ HasLease(m)

\* As long as calls and callbacks have kept to the second the keep-alive leaves
\* them, HasLease is true only while the blob is under that lease, whatever
\* fails, is released, acquired again or crashes meanwhile: at most one manager
\* believes to have it.
BeliefIsTrue == prompt => \A m \in Managers : Believes(m) => Leased(entry[m])

\* The lease that was granted to m, until UpdateAcquiredLease is through.
GrantedTo(m) == IF app[m] = "acquired" THEN pending[m] ELSE NoLease

\* The lease that m says to have.
HeldBy(m) == IF Believes(m) THEN entry[m] ELSE NoLease

L == INSTANCE ExclusiveLease
       WITH used    <- {i \in Leases : ~Fresh(i)},
            granted <- [m \in Managers |-> GrantedTo(m)],
            holds   <- [m \in Managers |-> HeldBy(m)]

\* Every step passes the lease on as an exclusive lease is passed on: it goes to
\* the manager it was granted to, and HasLease never comes back under a lease
\* that was released, lost or whose manager crashed; and as long as calls and
\* callbacks keep to that second, it is granted only when no manager says to
\* have it nor is about to.
ImplementsExclusiveLease ==
  L!Init /\ [][(L!Next /\ (prompt' => L!InTurn)) \/ UNCHANGED L!vars]_vars

\* However slow they are, an entry has the keep-alive that was made for it:
\* none is left that nothing would ever renew or take out.
EntryKeptAlive == \A m \in Managers :
  Believes(m) => alive[entry[m]] /\ owner[entry[m]] = m

\* A manager that believes in a lease the blob is not under finds out: the
\* belief ends or the renewal makes it true.
FalseBeliefEnds == \A m \in Managers, i \in Leases :
  Believes(m) /\ entry[m] = i /\ ~Leased(i) ~> ~(Believes(m) /\ entry[m] = i) \/ Leased(i)

\* Keep-alives of a lease that has no entry any more: the timer of a lease
\* whose renewal failed is not disposed of, by Dispose neither.
LeftOver(m) == {j \in Leases : alive[j] /\ owner[j] = m /\ entry[m] # j}

\* A lease nobody believes to have does not lock the blob for ever: a lost
\* answer, a crash, Dispose or the loss of the entry costs the time until it
\* lapses.  The exception is a disposed manager with a timer left over, which
\* renews whatever lease its entries name.
ForgottenLeaseLapses == \A i \in Leases :
  Leased(i) ~> \/ ~Leased(i)
               \/ \E m \in Managers : Believes(m) /\ entry[m] = i
               \/ life[owner[i]] = "disposed" /\ LeftOver(owner[i]) # {}
=============================================================================
