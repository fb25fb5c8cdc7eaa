\* Two workers, a blob overwritten twice, two failures.
CONSTANTS
  Workers = {w1, w2}
  MaxUploads = 2
  MaxFaults = 2
SPECIFICATION FairSpec
INVARIANTS TypeOK NeverCompressedTwice
PROPERTIES GetsTheFlag
CHECK_DEADLOCK FALSE
