-------------------- MODULE JobReservationServiceProofs --------------------
(***************************************************************************)
(* Proofs about JobReservationService, for any number of services, leases  *)
(* and reservations kept: the services use their lease managers as the     *)
(* managers allow, and the log agrees with the reservation in force.       *)
(***************************************************************************)
EXTENDS JobReservationService, BlobLeaseManagerProofs, SequenceTheorems

\* Every step of a service is a step of the lease managers, or none.
LEMMA StepOfManagers == [ServiceNext]_allVars => [Next]_vars
<1> SUFFICES ASSUME [ServiceNext]_allVars PROVE [Next]_vars
  OBVIOUS
<1>1. ASSUME NEW m \in Managers, TryReserveJob(m) \/ InitializeLeaseBlob(m) \/ TryAcquireLeaseFails(m)
                                 \/ UpdateReservationLog(m) \/ DownloadFails(m)
                                 \/ UpdateBlobContent(m) \/ BlobContentUpdated(m)
      PROVE  UNCHANGED vars
  BY <1>1 DEF TryReserveJob, InitializeLeaseBlob, TryAcquireLeaseFails, UpdateReservationLog,
              DownloadFails, UpdateBlobContent, BlobContentUpdated, UploadText
<1>2. ASSUME NEW m \in Managers, NEW i \in Leases, TryAcquireLease(m, i) PROVE Next
  BY <1>2 DEF TryAcquireLease, Next
<1>3. ASSUME NEW m \in Managers, LeaseAcquired(m) \/ EntryMismatched(m) \/ LeaseReleased(m)
                                 \/ CancelReservation(m) \/ DisposeService(m) \/ ServiceCrash(m)
      PROVE  Next
  BY <1>3 DEF LeaseAcquired, EntryMismatched, LeaseReleased, CancelReservation, DisposeService,
              ServiceCrash, Next, App
<1>4. ASSUME NEW i \in Leases, KeepAlive(i) PROVE Next
  BY <1>4 DEF KeepAlive, Next
<1>5. CASE TimePasses
  BY <1>5 DEF TimePasses, Next
<1>6. CASE UNCHANGED allVars
  BY <1>6 DEF allVars
<1> QED BY <1>1, <1>2, <1>3, <1>4, <1>5, <1>6 DEF ServiceNext, Answer

\* The services implement the lease managers: every step of TryReserveJob,
\* CancelReservation and Dispose is one of a manager or leaves it alone.
THEOREM UsesTheManagers == ServiceSpec => Spec
<1>1. ServiceInit => Init
  BY DEF ServiceInit
<1> QED BY <1>1, StepOfManagers, PTL DEF ServiceSpec, Spec

\* So at most one service has the reservation, as long as calls and callbacks
\* of the managers have been prompt.
THEOREM ReservationIsExclusive ==
  ServiceSpec => [](prompt => \A m, n \in Managers : Believes(m) /\ Believes(n) => m = n)
  BY UsesTheManagers, OneBelieverAtATime, PTL

\* And the reservation is passed from service to service as an exclusive lease
\* is, whatever calls fail and whichever services end.
THEOREM ReservationsTakeTurns == ServiceSpec => ImplementsExclusiveLease
  BY UsesTheManagers, ImplementsTheLease, PTL
-----------------------------------------------------------------------------
(* The log as a sequence.                                                   *)

\* No service is twice in a row in it.
Alternates(s) == \A k \in 1..(Len(s) - 1) : s[k] # s[k + 1]

LEMMA AddProperties ==
  ASSUME NEW m \in Managers, NEW s \in Logs
  PROVE  /\ Add(s, m) \in Logs
         /\ Len(Add(s, m)) = (IF Len(s) < MaxReservations THEN Len(s) + 1 ELSE MaxReservations)
         /\ Add(s, m) # <<>> /\ Add(s, m)[1] = m
         /\ \A k \in 2..Len(Add(s, m)) : Add(s, m)[k] = s[k - 1]
         /\ Alternates(s) /\ (s # <<>> => s[1] # m) => Alternates(Add(s, m))
<1> DEFINE n == IF Len(s) < MaxReservations THEN Len(s) + 1 ELSE MaxReservations
           t == Add(s, m)
<1>1. /\ s \in Seq(Managers) /\ Len(s) \in Nat /\ Len(s) <= MaxReservations
      /\ \A k \in 1..Len(s) : s[k] \in Managers
  BY LenProperties DEF Logs
<1>2. n \in Nat /\ 1 <= n /\ n <= MaxReservations /\ n - 1 <= Len(s)
  BY <1>1, MaxReservationsAssumption
<1>3. t = [k \in 1..n |-> IF k = 1 THEN m ELSE s[k - 1]]
  BY DEF Add
<1>4. t \in [1..n -> Managers]
  <2>1. ASSUME NEW k \in 1..n PROVE (IF k = 1 THEN m ELSE s[k - 1]) \in Managers
    BY <1>1, <1>2
  <2> QED BY <1>3, <2>1
<1>5. t \in Seq(Managers)
  BY <1>2, <1>4, SeqDef
<1>6. Len(t) = n
  <2>1. DOMAIN t = 1..n
    BY <1>3
  <2> QED BY <1>2, <1>5, <2>1, LenProperties
<1>7. t[1] = m /\ t # <<>> /\ \A k \in 2..n : t[k] = s[k - 1]
  BY <1>2, <1>3, <1>6
<1>8. Alternates(s) /\ (s # <<>> => s[1] # m) => Alternates(t)
  <2> SUFFICES ASSUME Alternates(s), s # <<>> => s[1] # m, NEW k \in 1..(n - 1)
               PROVE  t[k] # t[k + 1]
    BY <1>6 DEF Alternates
  <2>1. CASE k = 1
    <3>1. s # <<>>
      BY <1>1, <1>2, <2>1
    <3> QED BY <1>2, <1>7, <2>1, <3>1
  <2>2. CASE k # 1
    <3>1. k - 1 \in 1..(Len(s) - 1) /\ k \in 2..n /\ k + 1 \in 2..n
      BY <1>1, <1>2, <2>2
    <3>2. t[k] = s[k - 1] /\ t[k + 1] = s[k] /\ s[k - 1] # s[k]
      <4>1. s[k - 1] # s[(k - 1) + 1]
        BY <3>1 DEF Alternates
      <4> QED BY <1>7, <3>1, <4>1
    <3> QED BY <3>2
  <2> QED BY <2>1, <2>2
<1> HIDE DEF n, t
<1>9. t \in Logs
  BY <1>2, <1>5, <1>6 DEF Logs
<1> QED BY <1>6, <1>7, <1>8, <1>9 DEF n, t
-----------------------------------------------------------------------------
(* The reservation and the log.                                             *)

Types ==
  /\ log \in Logs
  /\ call \in [Managers -> {"none", "creating", "acquiring", "logging", "downloaded", "updating"}]
  /\ draft \in [Managers -> Logs]
  /\ condition \in [Managers -> Ids]
  /\ told \in [Managers -> Ids]
  /\ lapsed \in BOOLEAN

\* What a service is about to upload, and under which lease: from the download
\* to the upload it is not the last in the log, and there is a blob from the
\* moment it was seen or created.
DraftsInv == \A m \in Managers :
  /\ call[m] = "creating" => draft[m] = Add(<<>>, m)
  /\ call[m] = "downloaded" => draft[m][1] # m /\ Alternates(draft[m])
  /\ call[m] = "updating" => draft[m][1] = m /\ Alternates(draft[m])
  /\ call[m] \in {"downloaded", "updating"} => draft[m] # <<>>
  /\ call[m] \in {"acquiring", "logging", "downloaded"} => Exists
  /\ condition[m] # NoLease => call[m] = "updating" /\ owner[condition[m]] = m
  /\ told[m] # NoLease => told[m] = entry[m]
  /\ app[m] \in {"acquired", "clearing"} => call[m] = "acquiring"

\* While a lease is in force, its holder knows the log.
LogInv == \A m \in Managers :
  /\ told[m] # NoLease /\ InForce(told[m]) => Exists /\ log[1] = m
  /\ call[m] = "downloaded" /\ HasLease(m) /\ InForce(entry[m]) => draft[m] = log
  /\ condition[m] # NoLease /\ InForce(condition[m]) => draft[m] = Add(log, m)

ServiceBookkept ==
  Types /\ Alternates(log) /\ (remaining = 0 => lapsed) /\ DraftsInv /\ LogInv

LEMMA EmptyLog == <<>> \in Logs /\ Len(<<>>) = 0 /\ Alternates(<<>>)
  BY MaxReservationsAssumption DEF Logs, Alternates

LEMMA InitServiceBookkept == ServiceInit => ServiceBookkept
<1> SUFFICES ASSUME ServiceInit PROVE ServiceBookkept
  OBVIOUS
<1>1. Types /\ Alternates(log)
  BY EmptyLog DEF ServiceInit, Types, Ids
<1>2. DraftsInv /\ LogInv
  BY ConstantsType DEF ServiceInit, Init, DraftsInv, LogInv
<1> QED BY <1>1, <1>2 DEF ServiceBookkept, ServiceInit

\* The steps of the managers' timers and of time: no entry is made, no lease
\* granted, and none of those that run out counts as in force again.
LEMMA MeanwhileOnlyEnds ==
  ASSUME Bookkept, remaining = 0 => lapsed, lapsed \in BOOLEAN, Meanwhile,
         \/ Tick
         \/ \E m \in Managers : Released(m) \/ Crash(m)
         \/ \E i \in Leases : Callback(i)
  PROVE  /\ owner' = owner
         /\ \A m \in Managers : entry'[m] \in {entry[m], NoLease} /\ app'[m] \in {app[m], "idle"}
         /\ \A i \in Ids : InForce(i)' => InForce(i)
         /\ remaining' = 0 => lapsed'
<1> USE DEF Bookkept
<1>1. CASE Tick
  BY <1>1, ConstantsType DEF Tick, TypeOK, Meanwhile, InForce, Leased, Ids
<1>2. ASSUME NEW m \in Managers, Released(m)
      PROVE  /\ owner' = owner /\ entry' = entry
             /\ \A n \in Managers : app'[n] \in {app[n], "idle"}
             /\ leaseId' = leaseId \/ remaining' = 0
             /\ remaining' \in {remaining, 0}
  BY <1>2 DEF Released, TypeOK, timerVars, blobVars
<1>3. ASSUME NEW m \in Managers, ProcessEnds(m)
      PROVE  /\ owner' = owner /\ UNCHANGED blobVars
             /\ \A n \in Managers : entry'[n] \in {entry[n], NoLease} /\ app'[n] \in {app[n], "idle"}
  BY <1>3 DEF ProcessEnds, TypeOK
<1>4. ASSUME NEW i \in Leases, Callback(i)
      PROVE  /\ owner' = owner /\ leaseId' = leaseId
             /\ \A n \in Managers : entry'[n] \in {entry[n], NoLease} /\ app'[n] \in {app[n], "idle"}
  <2>1. CASE ReadLeaseId(i)
    <3>1. owner[i] \in Managers
      BY <2>1 DEF ReadLeaseId, TimersInv
    <3> QED BY <2>1, <3>1, <1>3 DEF ReadLeaseId, appVars, blobVars
  <2>2. CASE Fire(i)
    BY <2>2 DEF Fire, appVars, blobVars
  <2>3. CASE RenewLease(i) \/ RenewalFails(i)
    BY <2>3 DEF RenewLease, RenewalFails, appVars, blobVars
  <2>4. CASE RemoveEntry(i)
    BY <2>4 DEF RemoveEntry, EntryAfterFailure, TypeOK, appVars, blobVars
  <2> QED BY <1>4, <2>1, <2>2, <2>3, <2>4 DEF Callback
<1>5. (remaining' = 0 => lapsed') /\ (lapsed => lapsed')
  BY DEF Meanwhile
<1>6. ASSUME leaseId' = leaseId \/ remaining' = 0, NEW i \in Ids, InForce(i)' PROVE InForce(i)
  BY <1>5, <1>6 DEF InForce, Leased, TypeOK
<1>7. CASE \E m \in Managers : Released(m)
  BY <1>7, <1>2, <1>5, <1>6
<1>8. CASE \E m \in Managers : Crash(m)
  BY <1>8, <1>3, <1>5, <1>6 DEF Crash, blobVars
<1>9. CASE \E i \in Leases : Callback(i)
  BY <1>9, <1>4, <1>5, <1>6
<1> QED BY <1>1, <1>7, <1>8, <1>9

LEMMA MeanwhileKeepsBooks ==
  ASSUME Bookkept, Bookkept', ServiceBookkept, Meanwhile,
         \/ Tick
         \/ \E m \in Managers : Released(m) \/ Crash(m)
         \/ \E i \in Leases : Callback(i)
  PROVE  ServiceBookkept'
<1> USE DEF ServiceBookkept
<1>1. /\ owner' = owner
      /\ \A m \in Managers : entry'[m] \in {entry[m], NoLease} /\ app'[m] \in {app[m], "idle"}
      /\ \A i \in Ids : InForce(i)' => InForce(i)
      /\ remaining' = 0 => lapsed'
  BY MeanwhileOnlyEnds DEF Types
<1>2. /\ log' = log
      /\ \A m \in Managers :
           /\ \/ call'[m] = call[m] /\ draft'[m] = draft[m] /\ condition'[m] = condition[m]
              \/ call'[m] = "none" /\ draft'[m] = <<>> /\ condition'[m] = NoLease /\ life'[m] = "gone"
           /\ told'[m] \in {told[m], NoLease}
           /\ told'[m] # NoLease => told'[m] = entry'[m]
  BY DEF Meanwhile, Remembered, Types
<1>3. Types'
  <2>1. lapsed' \in BOOLEAN
    BY Zenon DEF Meanwhile
  <2> QED BY <2>1, EmptyLog DEF Types, Meanwhile, Remembered, Ids
<1>4. \A m \in Managers : app'[m] # "idle" => life'[m] = "up"
  BY DEF Bookkept, CallsInv
<1>5. DraftsInv'
  BY <1>1, <1>2, <1>4 DEF DraftsInv, Exists
<1>6. LogInv'
  <2> SUFFICES ASSUME NEW m \in Managers
               PROVE  /\ told'[m] # NoLease /\ InForce(told[m])' => Exists' /\ log'[1] = m
                      /\ call'[m] = "downloaded" /\ HasLease(m)' /\ InForce(entry[m])' => draft'[m] = log'
                      /\ condition'[m] # NoLease /\ InForce(condition[m])' => draft'[m] = Add(log, m)'
    BY DEF LogInv
  <2>1. ASSUME told'[m] # NoLease, InForce(told[m])' PROVE Exists' /\ log'[1] = m
    <3>1. told'[m] = told[m] /\ told[m] \in Ids
      BY <1>2, <2>1 DEF Types
    <3>2. InForce(told[m])
      BY <1>1, <2>1, <3>1 DEF InForce, Leased
    <3> QED BY <1>2, <2>1, <3>1, <3>2 DEF LogInv, Exists
  <2>2. ASSUME call'[m] = "downloaded", HasLease(m)', InForce(entry[m])' PROVE draft'[m] = log'
    <3>1. entry'[m] = entry[m] /\ entry[m] \in Ids /\ HasLease(m) /\ call[m] = "downloaded" /\ draft'[m] = draft[m]
      BY <1>1, <1>2, <2>2 DEF Bookkept, TypeOK, HasLease
    <3>2. InForce(entry[m])
      BY <1>1, <2>2, <3>1 DEF InForce, Leased
    <3> QED BY <1>2, <3>1, <3>2 DEF LogInv
  <2>3. ASSUME condition'[m] # NoLease, InForce(condition[m])' PROVE draft'[m] = Add(log, m)'
    <3>1. condition'[m] = condition[m] /\ condition[m] \in Ids /\ draft'[m] = draft[m]
      BY <1>2, <2>3 DEF Types
    <3>2. InForce(condition[m])
      BY <1>1, <2>3, <3>1 DEF InForce, Leased
    <3> QED BY <1>2, <2>3, <3>1, <3>2 DEF LogInv, Add
  <2> QED BY <2>1, <2>2, <2>3
<1> QED BY <1>1, <1>2, <1>3, <1>5, <1>6 DEF Alternates

\* What an upload does to the log, if anything: whoever has a lease in force is
\* the one that uploads.
LEMMA UploadFollows ==
  ASSUME Bookkept, ServiceBookkept, NEW m \in Managers, call[m] \in {"creating", "updating"},
         Uploaded(m)
  PROVE  /\ log' = draft[m] /\ draft[m] \in Logs /\ draft[m] # <<>> /\ Alternates(draft[m])
         /\ \A i \in Leases : InForce(i) =>
              owner[i] = m /\ call[m] = "updating" /\ condition[m] = i /\ draft[m] = Add(log, m)
<1> USE DEF ServiceBookkept
<1>1. draft[m] \in Logs /\ draft[m] # <<>> /\ Alternates(draft[m])
  <2>1. CASE call[m] = "creating"
    <3>1. draft[m] = Add(<<>>, m)
      BY <2>1 DEF DraftsInv
    <3> QED BY <3>1, EmptyLog, AddProperties
  <2>2. CASE call[m] = "updating"
    BY <2>2 DEF DraftsInv, Types
  <2> QED BY <2>1, <2>2
<1>2. ASSUME NEW i \in Leases, InForce(i)
      PROVE  owner[i] = m /\ call[m] = "updating" /\ condition[m] = i /\ draft[m] = Add(log, m)
  <2>1. condition[m] = i /\ i # NoLease
    BY <1>2, ConstantsType DEF Uploaded, Accepted, InForce, Leased, Bookkept, TypeOK
  <2> QED BY <1>2, <2>1 DEF DraftsInv, LogInv
<1> QED BY <1>1, <1>2 DEF Uploaded

LEMMA UploadKeepsBooks ==
  ASSUME Bookkept, ServiceBookkept, NEW m \in Managers, InitializeLeaseBlob(m) \/ BlobContentUpdated(m)
  PROVE  ServiceBookkept'
<1> USE DEF ServiceBookkept
<1>1. /\ UNCHANGED vars /\ lapsed' = lapsed
      /\ draft' = [draft EXCEPT ![m] = <<>>]
      /\ condition' = [condition EXCEPT ![m] = NoLease]
      /\ call[m] \in {"creating", "updating"}
  BY DEF InitializeLeaseBlob, BlobContentUpdated, UploadText
<1>2. Uploaded(m) \/ log' = log
  BY DEF InitializeLeaseBlob, BlobContentUpdated, UploadFails
<1>3. /\ call' = [call EXCEPT ![m] = call'[m]] /\ call'[m] \in {"acquiring", "none"}
      /\ call'[m] = "acquiring" => Uploaded(m)
  BY DEF InitializeLeaseBlob, BlobContentUpdated, Continue, Types
<1>4. \/ told' = told
      \/ Uploaded(m) /\ call[m] = "updating" /\ told' = [told EXCEPT ![m] = entry[m]]
  BY DEF InitializeLeaseBlob, BlobContentUpdated, ReturnTrue
<1>5. /\ UNCHANGED <<leaseId, remaining, owner, entry, app>>
      /\ \A i : InForce(i)' <=> InForce(i)
      /\ \A n \in Managers : HasLease(n)' <=> HasLease(n)
  BY <1>1 DEF vars, blobVars, appVars, timerVars, InForce, Leased, HasLease
<1>6. /\ log' \in Logs /\ Alternates(log)' /\ (Exists => Exists')
  <2>1. CASE Uploaded(m)
    BY <1>1, <2>1, UploadFollows DEF Exists, Alternates
  <2>2. CASE log' = log
    BY <2>2 DEF Types, Exists, Alternates
  <2> QED BY <1>2, <2>1, <2>2
<1>7. Uploaded(m) => Exists'
  BY <1>1, UploadFollows DEF Exists
<1>8. Types'
  <2>1. lapsed' \in BOOLEAN
    BY Zenon, <1>1 DEF Types
  <2>2. entry[m] \in Ids
    BY DEF Bookkept, TypeOK
  <2>3. told' \in [Managers -> Ids]
    BY <1>4, <2>2 DEF Types
  <2>4. draft' \in [Managers -> Logs] /\ condition' \in [Managers -> Ids]
    BY <1>1, EmptyLog DEF Types, Ids
  <2>5. call' \in [Managers -> {"none", "creating", "acquiring", "logging", "downloaded", "updating"}]
    BY <1>3 DEF Types
  <2> QED BY <1>6, <2>1, <2>3, <2>4, <2>5 DEF Types
<1>9. \A n \in Managers \ {m} : /\ call'[n] = call[n] /\ draft'[n] = draft[n] /\ condition'[n] = condition[n]
                               /\ told'[n] = told[n]
  BY <1>1, <1>3, <1>4 DEF Types
<1>10. /\ draft'[m] = <<>> /\ condition'[m] = NoLease
       /\ told'[m] # told[m] => Uploaded(m) /\ call[m] = "updating" /\ told'[m] = entry[m]
  BY <1>1, <1>4 DEF Types
<1>11. DraftsInv'
  <2> SUFFICES ASSUME NEW n \in Managers
               PROVE  /\ call'[n] = "creating" => draft'[n] = Add(<<>>, n)'
                      /\ call'[n] = "downloaded" => draft'[n][1] # n /\ Alternates(draft[n])'
                      /\ call'[n] = "updating" => draft'[n][1] = n /\ Alternates(draft[n])'
                      /\ call'[n] \in {"downloaded", "updating"} => draft'[n] # <<>>
                      /\ call'[n] \in {"acquiring", "logging", "downloaded"} => Exists'
                      /\ condition'[n] # NoLease => call'[n] = "updating" /\ owner'[condition'[n]] = n
                      /\ told'[n] # NoLease => told'[n] = entry'[n]
                      /\ app'[n] \in {"acquired", "clearing"} => call'[n] = "acquiring"
    BY DEF DraftsInv
  <2>1. CASE n = m
    BY <1>1, <1>3, <1>5, <1>7, <1>10, <2>1 DEF DraftsInv
  <2>2. CASE n # m
    <3>1. /\ call'[n] = call[n] /\ draft'[n] = draft[n] /\ condition'[n] = condition[n]
          /\ told'[n] = told[n] /\ entry'[n] = entry[n] /\ app'[n] = app[n]
      BY <1>5, <1>9, <2>2
    <3>2. Add(<<>>, n)' = Add(<<>>, n) /\ (Alternates(draft[n])' <=> Alternates(draft[n]))
      BY <3>1 DEF Add, Alternates
    <3>3. /\ call[n] = "creating" => draft[n] = Add(<<>>, n)
          /\ call[n] = "downloaded" => draft[n][1] # n /\ Alternates(draft[n])
          /\ call[n] = "updating" => draft[n][1] = n /\ Alternates(draft[n])
          /\ call[n] \in {"downloaded", "updating"} => draft[n] # <<>>
          /\ call[n] \in {"acquiring", "logging", "downloaded"} => Exists
      BY DEF DraftsInv
    <3>4. /\ condition[n] # NoLease => call[n] = "updating" /\ owner[condition[n]] = n
          /\ told[n] # NoLease => told[n] = entry[n]
          /\ app[n] \in {"acquired", "clearing"} => call[n] = "acquiring"
      BY DEF DraftsInv
    <3>5. /\ call'[n] = "creating" => draft'[n] = Add(<<>>, n)'
          /\ call'[n] = "downloaded" => draft'[n][1] # n /\ Alternates(draft[n])'
          /\ call'[n] = "updating" => draft'[n][1] = n /\ Alternates(draft[n])'
          /\ call'[n] \in {"downloaded", "updating"} => draft'[n] # <<>>
      BY <3>1, <3>2, <3>3
    <3>6. call'[n] \in {"acquiring", "logging", "downloaded"} => Exists'
      BY <1>6, <3>1, <3>3
    <3>7. owner'[condition'[n]] = owner[condition[n]]
      BY <1>5, <3>1
    <3> QED BY <3>1, <3>4, <3>5, <3>6, <3>7
  <2> QED BY <2>1, <2>2
<1>12. LogInv'
  <2> SUFFICES ASSUME NEW n \in Managers
               PROVE  /\ told'[n] # NoLease /\ InForce(told[n])' => Exists' /\ log'[1] = n
                      /\ call'[n] = "downloaded" /\ HasLease(n)' /\ InForce(entry[n])' => draft'[n] = log'
                      /\ condition'[n] # NoLease /\ InForce(condition[n])' => draft'[n] = Add(log, n)'
    BY DEF LogInv
  <2>1. ASSUME NEW i \in Leases, InForce(i), owner[i] = n, n # m PROVE log' = log
    BY <1>1, <1>2, <2>1, UploadFollows
  <2>2. ASSUME told'[n] # NoLease, InForce(told[n])' PROVE Exists' /\ log'[1] = n
    <3>1. told'[n] \in Leases /\ InForce(told'[n])
      BY <1>5, <1>8, <2>2 DEF Types, Ids, InForce, Leased
    <3>2. told'[n] = entry[n] /\ owner[told'[n]] = n
      <4>1. told'[n] = entry[n]
        BY <1>5, <1>11, <2>2 DEF DraftsInv
      <4> QED BY <2>2, <4>1 DEF Bookkept, EntriesInv, HasLease
    <3>3. CASE Uploaded(m)
      <4>1. n = m /\ call[m] = "updating" /\ log' = draft[m]
        BY <1>1, <3>1, <3>2, <3>3, UploadFollows
      <4> QED BY <1>7, <3>3, <4>1 DEF DraftsInv
    <3>4. CASE ~Uploaded(m)
      BY <1>2, <1>4, <1>6, <2>2, <3>1, <3>4 DEF LogInv
    <3> QED BY <3>3, <3>4
  <2>3. ASSUME call'[n] = "downloaded", HasLease(n)', InForce(entry[n])' PROVE draft'[n] = log'
    <3>1. n # m /\ entry[n] \in Leases /\ owner[entry[n]] = n /\ InForce(entry[n]) /\ HasLease(n)
      BY <1>3, <1>5, <2>3 DEF Bookkept, TypeOK, EntriesInv, HasLease, Ids, InForce, Leased
    <3>2. log' = log
      BY <2>1, <3>1
    <3> QED BY <1>9, <2>3, <3>1, <3>2 DEF LogInv
  <2>4. ASSUME condition'[n] # NoLease, InForce(condition[n])' PROVE draft'[n] = Add(log, n)'
    <3>1. /\ n # m /\ condition'[n] = condition[n] /\ condition[n] \in Leases /\ owner[condition[n]] = n
          /\ InForce(condition[n])
      BY <1>5, <1>9, <1>10, <2>4 DEF DraftsInv, Types, Ids, InForce, Leased
    <3>2. log' = log
      BY <2>1, <3>1
    <3>3. Add(log, n)' = Add(log, n)
      BY <3>2 DEF Add
    <3> QED BY <1>9, <2>4, <3>1, <3>3 DEF LogInv
  <2> QED BY <2>2, <2>3, <2>4
<1> QED BY <1>1, <1>5, <1>6, <1>8, <1>11, <1>12

\* A step of m's service that leaves the blob, the log and the other services
\* alone has to answer for m only.
LEMMA StepOfOneService ==
  ASSUME Bookkept', ServiceBookkept, NEW m \in Managers, Types',
         UNCHANGED <<blobVars, owner, log, lapsed>>,
         \A n \in Managers \ {m} :
           /\ call'[n] = call[n] /\ draft'[n] = draft[n] /\ condition'[n] = condition[n]
           /\ told'[n] = told[n] /\ entry'[n] = entry[n] /\ app'[n] = app[n],
         /\ call'[m] = "creating" => draft'[m] = Add(<<>>, m)
         /\ call'[m] = "downloaded" => draft'[m] # <<>> /\ draft'[m][1] # m /\ Alternates(draft'[m])
         /\ call'[m] = "updating" => draft'[m] # <<>> /\ draft'[m][1] = m /\ Alternates(draft'[m])
         /\ call'[m] \in {"acquiring", "logging", "downloaded"} => Exists
         /\ condition'[m] # NoLease => call'[m] = "updating" /\ owner[condition'[m]] = m
         /\ told'[m] # NoLease => told'[m] = entry'[m]
         /\ app'[m] \in {"acquired", "clearing"} => call'[m] = "acquiring",
         /\ told'[m] # NoLease /\ InForce(told'[m]) => Exists /\ log[1] = m
         /\ call'[m] = "downloaded" /\ entry'[m] # NoLease /\ InForce(entry'[m]) => draft'[m] = log
         /\ condition'[m] # NoLease /\ InForce(condition'[m]) => draft'[m] = Add(log, m)
  PROVE  ServiceBookkept'
<1> USE DEF ServiceBookkept
<1>1. /\ \A i : InForce(i)' <=> leaseId = i /\ remaining > 0 /\ ~lapsed
      /\ \A i : InForce(i) <=> leaseId = i /\ remaining > 0 /\ ~lapsed
      /\ log' = log /\ owner' = owner /\ (Exists' <=> Exists)
      /\ \A n : Add(<<>>, n)' = Add(<<>>, n) /\ Add(log, n)' = Add(log, n)
  BY DEF blobVars, InForce, Leased, Exists, Add
<1>2. DraftsInv'
  <2> SUFFICES ASSUME NEW n \in Managers
               PROVE  /\ call'[n] = "creating" => draft'[n] = Add(<<>>, n)
                      /\ call'[n] = "downloaded" => draft'[n][1] # n /\ Alternates(draft'[n])
                      /\ call'[n] = "updating" => draft'[n][1] = n /\ Alternates(draft'[n])
                      /\ call'[n] \in {"downloaded", "updating"} => draft'[n] # <<>>
                      /\ call'[n] \in {"acquiring", "logging", "downloaded"} => Exists
                      /\ condition'[n] # NoLease => call'[n] = "updating" /\ owner[condition'[n]] = n
                      /\ told'[n] # NoLease => told'[n] = entry'[n]
                      /\ app'[n] \in {"acquired", "clearing"} => call'[n] = "acquiring"
    BY <1>1 DEF DraftsInv, Alternates
  <2>1. CASE n # m
    BY <2>1 DEF DraftsInv
  <2> QED BY <2>1
<1>3. LogInv'
  <2> SUFFICES ASSUME NEW n \in Managers
               PROVE  /\ told'[n] # NoLease /\ InForce(told'[n]) => Exists /\ log[1] = n
                      /\ call'[n] = "downloaded" /\ entry'[n] # NoLease /\ InForce(entry'[n]) => draft'[n] = log
                      /\ condition'[n] # NoLease /\ InForce(condition'[n]) => draft'[n] = Add(log, n)
    BY <1>1 DEF LogInv, HasLease
  <2>1. CASE n # m
    BY <2>1 DEF LogInv, HasLease
  <2> QED BY <2>1
<1> QED BY <1>1, <1>2, <1>3 DEF Alternates, blobVars

LEMMA CallKeepsBooks ==
  ASSUME Bookkept, Bookkept', ServiceBookkept, NEW m \in Managers,
         \/ TryReserveJob(m) \/ TryAcquireLeaseFails(m) \/ UpdateReservationLog(m)
         \/ DownloadFails(m) \/ UpdateBlobContent(m)
  PROVE  ServiceBookkept'
<1> USE DEF ServiceBookkept, Continue
<1>1. /\ UNCHANGED <<vars, log, lapsed>>
      /\ UNCHANGED <<blobVars, owner, entry, app>>
      /\ call' = [call EXCEPT ![m] = call'[m]] /\ draft' = [draft EXCEPT ![m] = draft'[m]]
      /\ condition' = [condition EXCEPT ![m] = condition'[m]] /\ told' = [told EXCEPT ![m] = told'[m]]
  BY DEF TryReserveJob, TryAcquireLeaseFails, UpdateReservationLog, DownloadFails, UpdateBlobContent,
         Types, vars, appVars, timerVars, ReturnTrue
<1>2. entry[m] \in Ids /\ (HasLease(m) => owner[entry[m]] = m) /\ lapsed' = lapsed
  BY <1>1 DEF Bookkept, TypeOK, EntriesInv
<1>3. \A n \in Managers \ {m} :
           /\ call'[n] = call[n] /\ draft'[n] = draft[n] /\ condition'[n] = condition[n]
           /\ told'[n] = told[n] /\ entry'[n] = entry[n] /\ app'[n] = app[n]
  BY <1>1 DEF Types
<1>4. CASE TryReserveJob(m)
  <2>1. Add(<<>>, m) \in Logs
    BY EmptyLog, AddProperties
  <2>2. Types'
    BY <1>4, <2>1 DEF TryReserveJob, Types, Ids
  <2>3. /\ \/ call'[m] = "acquiring" /\ Exists
           \/ call'[m] = "creating" /\ draft'[m] = Add(<<>>, m)
        /\ condition'[m] = NoLease /\ told'[m] = told[m] /\ app[m] = "idle"
    BY <1>4 DEF TryReserveJob, Types, DraftsInv
  <2> QED BY <1>1, <1>3, <2>2, <2>3, StepOfOneService DEF DraftsInv, LogInv
<1>5. CASE TryAcquireLeaseFails(m) \/ DownloadFails(m)
  <2>1. Types'
    BY <1>5 DEF TryAcquireLeaseFails, DownloadFails, Types
  <2>2. call'[m] = "none" /\ condition'[m] = NoLease /\ told'[m] = told[m] /\ app[m] \notin {"acquired", "clearing"}
    BY <1>5 DEF TryAcquireLeaseFails, DownloadFails, Types, DraftsInv
  <2> QED BY <1>1, <1>3, <2>1, <2>2, StepOfOneService DEF DraftsInv, LogInv
<1>6. CASE UpdateReservationLog(m)
  <2>1. Types'
    BY <1>1, <1>2, <1>6 DEF UpdateReservationLog, ReturnTrue, Types
  <2>2. condition'[m] = NoLease /\ Exists /\ log # <<>> /\ app[m] \notin {"acquired", "clearing"}
    BY <1>6 DEF UpdateReservationLog, Types, DraftsInv, Exists
  <2>3. \/ call'[m] = "none" /\ told'[m] = entry[m] /\ log[1] = m
        \/ call'[m] = "downloaded" /\ draft'[m] = log /\ log[1] # m /\ told'[m] = told[m]
    BY <1>6 DEF UpdateReservationLog, ReturnTrue, LastReservation, Types
  <2> QED BY <1>1, <1>3, <2>1, <2>2, <2>3, StepOfOneService DEF DraftsInv, LogInv
<1>7. CASE UpdateBlobContent(m)
  <2>1. /\ draft[m] \in Logs /\ draft[m][1] # m /\ draft[m] # <<>> /\ Alternates(draft[m]) /\ Exists
        /\ app[m] \notin {"acquired", "clearing"} /\ condition[m] = NoLease /\ told'[m] = told[m]
    BY <1>7 DEF UpdateBlobContent, Types, DraftsInv
  <2>2. Add(draft[m], m) \in Logs /\ Add(draft[m], m) # <<>> /\ Add(draft[m], m)[1] = m /\ Alternates(Add(draft[m], m))
    BY <2>1, AddProperties
  <2>3. Types'
    BY <1>2, <1>7, <2>2, EmptyLog DEF UpdateBlobContent, UpdatedLog, GetLeaseId, Types
  <2>4. \/ call'[m] = "none" /\ condition'[m] = NoLease
        \/ call'[m] = "updating" /\ condition'[m] = entry[m] /\ draft'[m] = Add(draft[m], m)
    BY <1>7, <2>1 DEF UpdateBlobContent, UpdatedLog, GetLeaseId, Types
  <2>5. HasLease(m) /\ InForce(entry[m]) => draft[m] = log
    BY <1>7 DEF UpdateBlobContent, LogInv
  <2> QED BY <1>1, <1>2, <1>3, <2>1, <2>2, <2>3, <2>4, <2>5, StepOfOneService DEF DraftsInv, LogInv, HasLease
<1> QED BY <1>4, <1>5, <1>6, <1>7

LEMMA ManagerCallKeepsBooks ==
  ASSUME Bookkept, Bookkept', ServiceBookkept, NEW m \in Managers,
         LeaseAcquired(m) \/ EntryMismatched(m) \/ CancelReservation(m) \/ DisposeService(m)
  PROVE  ServiceBookkept'
<1> USE DEF ServiceBookkept, Continue
<1>1. /\ UNCHANGED <<blobVars, owner, log, draft, condition, lapsed>>
      /\ call' = [call EXCEPT ![m] = call'[m]]
      /\ \A n \in Managers \ {m} : entry'[n] = entry[n] /\ app'[n] = app[n]
  BY DEF LeaseAcquired, EntryMismatched, CancelReservation, DisposeService, UpdateAcquiredLease, ClearLease,
         ReleaseLease, EntryCleared, Dispose, Types, Bookkept, TypeOK, appVars, serviceVars, callVars
<1>2. \A n \in Managers : told'[n] \in {told[n], NoLease} /\ (told'[n] # NoLease => told'[n] = entry'[n])
  <2>1. CASE Remembered
    BY <2>1 DEF Remembered, Types
  <2>2. CASE LeaseAcquired(m)
    BY <1>1, <2>2 DEF LeaseAcquired, UpdateAcquiredLease, IsAcquiredLeaseMissMatched, HasLease, DraftsInv,
                      Bookkept, TypeOK
  <2>3. CASE DisposeService(m)
    BY <2>3 DEF DisposeService, Dispose, serviceVars, DraftsInv
  <2> QED BY <2>1, <2>2, <2>3 DEF EntryMismatched, CancelReservation
<1>3. \A n \in Managers \ {m} :
           /\ call'[n] = call[n] /\ draft'[n] = draft[n] /\ condition'[n] = condition[n]
           /\ told'[n] = told[n] /\ entry'[n] = entry[n] /\ app'[n] = app[n]
  <2>1. CASE Remembered
    BY <1>1, <2>1 DEF Remembered, Types, DraftsInv
  <2>2. CASE told' = told
    BY <1>1, <2>2 DEF Types
  <2> QED BY <2>1, <2>2 DEF LeaseAcquired, EntryMismatched, CancelReservation, DisposeService, serviceVars
<1>4. /\ call[m] \in {"acquiring", "none"} /\ call'[m] \in {"acquiring", "logging", "none"}
      /\ call'[m] # "none" => call[m] = "acquiring"
      /\ app'[m] \in {"acquired", "clearing"} => call'[m] = "acquiring"
  BY DEF LeaseAcquired, EntryMismatched, CancelReservation, DisposeService, UpdateAcquiredLease, ClearLease,
         ReleaseLease, Dispose, Types, Bookkept, TypeOK, DraftsInv, serviceVars, callVars, appVars
<1>5. Types'
  <2>1. told' \in [Managers -> Ids]
    <3>1. told' = [n \in Managers |-> told'[n]]
      BY DEF LeaseAcquired, EntryMismatched, CancelReservation, DisposeService, serviceVars, Remembered, Types
    <3> QED BY <1>2, <3>1 DEF Types, Ids
  <2>2. lapsed' \in BOOLEAN
    BY Zenon, <1>1 DEF Types
  <2> QED BY <1>1, <1>4, <2>1, <2>2 DEF Types
<1>6. told'[m] # NoLease /\ InForce(told'[m]) => Exists /\ log[1] = m
  BY <1>2 DEF LogInv
<1> QED BY <1>1, <1>2, <1>3, <1>4, <1>5, <1>6, StepOfOneService DEF DraftsInv, LogInv

\* The new lease is in force, and nobody has anything to do with it yet.
LEMMA AcquireKeepsBooks ==
  ASSUME Bookkept, Bookkept', ServiceBookkept, NEW m \in Managers, NEW i \in Leases, TryAcquireLease(m, i)
  PROVE  ServiceBookkept'
<1> USE DEF ServiceBookkept
<1>1. /\ UNCHANGED <<log, draft, condition, told, entry>> /\ lapsed' = FALSE
      /\ call[m] = "acquiring" /\ call' = [call EXCEPT ![m] = call'[m]]
      /\ call'[m] = IF app'[m] = "acquired" THEN "acquiring" ELSE "none"
      /\ owner[i] = NoLease /\ owner' = [owner EXCEPT ![i] = m]
      /\ leaseId' = i /\ remaining' = LeaseTime
      /\ app[m] = "idle" /\ app' = [app EXCEPT ![m] = app'[m]] /\ app'[m] \in {"idle", "acquired"}
  BY DEF TryAcquireLease, AcquireLease, Fresh, Continue, Types, Bookkept, TypeOK, appVars
<1>2. Types'
  BY <1>1 DEF Types
<1>3. \A n \in Managers : entry[n] # i /\ condition[n] # i /\ told[n] # i
  BY <1>1, ConstantsType DEF Bookkept, EntriesInv, HasLease, DraftsInv
<1>4. \A n \in Managers : condition[n] # NoLease => owner'[condition[n]] = n
  BY <1>1, <1>3 DEF DraftsInv, Types, Ids, Bookkept, TypeOK
<1>5. DraftsInv'
  <2> SUFFICES ASSUME NEW n \in Managers
               PROVE  /\ call'[n] = "creating" => draft[n] = Add(<<>>, n)
                      /\ call'[n] = "downloaded" => draft[n][1] # n /\ Alternates(draft[n])
                      /\ call'[n] = "updating" => draft[n][1] = n /\ Alternates(draft[n])
                      /\ call'[n] \in {"downloaded", "updating"} => draft[n] # <<>>
                      /\ call'[n] \in {"acquiring", "logging", "downloaded"} => Exists
                      /\ condition[n] # NoLease => call'[n] = "updating" /\ owner'[condition[n]] = n
                      /\ told[n] # NoLease => told[n] = entry[n]
                      /\ app'[n] \in {"acquired", "clearing"} => call'[n] = "acquiring"
    BY <1>1 DEF DraftsInv, Alternates, Add, Exists
  <2>1. CASE n = m
    BY <1>1, <2>1 DEF DraftsInv, Types
  <2>2. CASE n # m
    BY <1>1, <1>4, <2>2 DEF DraftsInv, Types, Bookkept, TypeOK
  <2> QED BY <2>1, <2>2
<1>6. LogInv'
  BY <1>1, <1>3 DEF LogInv, InForce, Leased, HasLease
<1> QED BY <1>1, <1>2, <1>5, <1>6, ConstantsType DEF Alternates

LEMMA NextServiceBookkept ==
  Bookkept /\ Bookkept' /\ ServiceBookkept /\ [ServiceNext]_allVars => ServiceBookkept'
<1> SUFFICES ASSUME Bookkept, Bookkept', ServiceBookkept, [ServiceNext]_allVars PROVE ServiceBookkept'
  OBVIOUS
<1>1. ASSUME NEW m \in Managers, LeaseReleased(m) \/ ServiceCrash(m) PROVE ServiceBookkept'
  BY <1>1, MeanwhileKeepsBooks DEF LeaseReleased, ServiceCrash
<1>2. ASSUME NEW i \in Leases, KeepAlive(i) PROVE ServiceBookkept'
  BY <1>2, MeanwhileKeepsBooks DEF KeepAlive
<1>3. CASE TimePasses
  BY <1>3, MeanwhileKeepsBooks DEF TimePasses
<1>4. CASE UNCHANGED allVars
  <2>1. /\ UNCHANGED <<leaseId, remaining, entry, app, owner, log, call, draft, condition, told, lapsed>>
        /\ \A n : Add(<<>>, n)' = Add(<<>>, n) /\ Add(log, n)' = Add(log, n)
    BY <1>4 DEF allVars, vars, blobVars, appVars, timerVars, serviceVars, callVars, Add
  <2>2. Types' /\ Alternates(log)' /\ DraftsInv'
    BY <2>1 DEF ServiceBookkept, Types, DraftsInv, Alternates, Exists
  <2>3. LogInv'
    BY <2>1 DEF ServiceBookkept, LogInv, InForce, Leased, Exists, HasLease
  <2> QED BY <2>1, <2>2, <2>3 DEF ServiceBookkept
<1> QED
  BY <1>1, <1>2, <1>3, <1>4, UploadKeepsBooks, CallKeepsBooks, ManagerCallKeepsBooks, AcquireKeepsBooks
     DEF ServiceNext, Answer

LEMMA AlwaysServiceBookkept == ServiceSpec => [](Bookkept /\ ServiceBookkept)
  BY UsesTheManagers, AlwaysBookkept, InitServiceBookkept, NextServiceBookkept, PTL DEF ServiceSpec

\* What services know and upload keeps its type, and nobody is twice in a row
\* in the log, although of those that competed one may add to what another had
\* uploaded or downloaded.
THEOREM ServiceTypeCorrect == ServiceSpec => []ServiceTypeOK
<1>1. ServiceBookkept => ServiceTypeOK
  BY DEF ServiceBookkept, Types, Alternates, ServiceTypeOK
<1> QED BY <1>1, AlwaysServiceBookkept, PTL

\* A reservation whose lease never ran out is the last one in the log.
THEOREM ReservationIsLogged == ServiceSpec => []ReservedIsLogged
<1>1. Bookkept /\ ServiceBookkept => ReservedIsLogged
  BY DEF ServiceBookkept, LogInv, ReservedIsLogged, Believes, HasLease
<1> QED BY <1>1, AlwaysServiceBookkept, PTL

\* Only an upload changes the log.
LEMMA OnlyUploads ==
  ASSUME ServiceNext, log' # log
  PROVE  \E m \in Managers : call[m] \in {"creating", "updating"} /\ Uploaded(m) /\ UNCHANGED vars
<1>1. ASSUME NEW m \in Managers, InitializeLeaseBlob(m) \/ BlobContentUpdated(m)
      PROVE  call[m] \in {"creating", "updating"} /\ Uploaded(m) /\ UNCHANGED vars
  BY <1>1 DEF InitializeLeaseBlob, BlobContentUpdated, UploadFails, UploadText
<1> QED
  BY <1>1 DEF ServiceNext, Answer, TryReserveJob, TryAcquireLease, TryAcquireLeaseFails, LeaseAcquired,
     EntryMismatched, UpdateReservationLog, DownloadFails, UpdateBlobContent, CancelReservation, DisposeService,
     LeaseReleased, ServiceCrash, KeepAlive, TimePasses, Meanwhile, serviceVars

\* While a reservation is in force, only its holder changes the log, and only
\* by adding itself to what is in it.
THEOREM LogIsKeptWhileReserved == ServiceSpec => LogKeptWhileReserved
<1>1. ASSUME Bookkept, ServiceBookkept, ServiceNext, InForce(leaseId), log' # log
      PROVE  /\ log'[1] = owner[leaseId]
             /\ Len(log') \in {Len(log) + 1, MaxReservations}
             /\ \A k \in 2..Len(log') : log'[k] = log[k - 1]
  <2>1. PICK m \in Managers : call[m] \in {"creating", "updating"} /\ Uploaded(m) /\ UNCHANGED vars
    BY <1>1, OnlyUploads
  <2>2. leaseId \in Leases
    <3>1. leaseId # NoLease
      BY <1>1, <2>1, UploadFollows DEF Uploaded, Accepted, InForce, Leased, ServiceBookkept
    <3> QED BY <1>1, <3>1 DEF Bookkept, TypeOK, Ids
  <2>3. log' = Add(log, m) /\ owner[leaseId] = m
    BY <1>1, <2>1, <2>2, UploadFollows
  <2>4. log \in Logs
    BY <1>1 DEF ServiceBookkept, Types
  <2> QED BY <2>3, <2>4, AddProperties
<1>2. Bookkept /\ ServiceBookkept /\ [ServiceNext]_allVars =>
        [InForce(leaseId) /\ log' # log =>
           /\ log'[1] = owner[leaseId]
           /\ Len(log') \in {Len(log) + 1, MaxReservations}
           /\ \A k \in 2..Len(log') : log'[k] = log[k - 1]]_allVars
  BY <1>1
<1> QED BY <1>2, AlwaysServiceBookkept, PTL DEF ServiceSpec, LogKeptWhileReserved
=============================================================================
