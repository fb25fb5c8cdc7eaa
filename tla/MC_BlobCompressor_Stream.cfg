\* Nothing fails.
CONSTANTS
  Workers = {w1, w2}
  MaxUploads = 0
  MaxFaults = 0
SPECIFICATION Spec
INVARIANTS CompressedIsGZip
CHECK_DEADLOCK FALSE
