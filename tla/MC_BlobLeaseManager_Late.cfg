\* Calls and callbacks of any length.
CONSTANTS
  Managers = {m1, m2}
  Leases = {i1, i2}
  NoLease = NoLease
  LeaseTime = 2
  Second = 1
  Lateness = 0
  MaxFaults = 2
SPECIFICATION FairSpec
INVARIANTS EntryKeptAlive
PROPERTIES FalseBeliefEnds ForgottenLeaseLapses
CHECK_DEADLOCK FALSE
