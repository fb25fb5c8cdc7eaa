CONSTANTS
  Snapshots = {s1, s2}
  MaxAge = 2
  LastAge = 3
SPECIFICATION Spec
PROPERTIES KeptForMaxAge
CHECK_DEADLOCK FALSE
