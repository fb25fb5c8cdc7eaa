\* Two Task objects: a loop that has died still counts as running.
CONSTANTS
  Tasks = {t1, t2}
  NoTask = NoTask
  WorkItems = {i1}
  MaxDelay = 1
  AttemptsBound = 2
SPECIFICATION Spec
INVARIANT StartRefusedOnlyWhileRunning
