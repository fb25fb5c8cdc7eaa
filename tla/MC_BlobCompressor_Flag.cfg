\* A worker fails between the flag and the upload.
CONSTANTS
  Workers = {w1, w2}
  MaxUploads = 0
  MaxFaults = 1
SPECIFICATION Spec
INVARIANTS FlaggedIsCompressed
CHECK_DEADLOCK FALSE
