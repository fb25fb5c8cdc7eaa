\* Two services for one job, with calls and callbacks of any length: after two
\* leases of the job nothing can be reserved any more.
CONSTANTS
  Managers = {m1, m2}
  Leases = {i1, i2}
  NoLease = NoLease
  LeaseTime = 4
  Second = 3
  Lateness = 1
  MaxFaults = 2
  MaxReservations = 2
SPECIFICATION ServiceSpec
SYMMETRY Symmetry
INVARIANTS TypeOK BeliefIsTrue ServiceTypeOK ReservedIsLogged
PROPERTIES LogKeptWhileReserved ImplementsExclusiveLease
CHECK_DEADLOCK FALSE
