\* The visibility timeout may run out in the middle of a batch: up to four
\* deliveries of one message in the hands of three workers at a time, two of
\* them past the last attempt, and a failure or crash.  After four deliveries
\* there are no more, and the workers may stop.
CONSTANTS
  Workers = {w1, w2, w3}
  Unreliable = {w1, w2, w3}
  Messages = {m1}
  MaxAttempts = 2
  BatchSize = 1
  VisibilityOutlastsBatch = FALSE
  DequeueBound = 4
  MaxFaults = 1
SPECIFICATION Spec
INVARIANTS NoLostMessage AtMostMaxAttempts
PROPERTY ImplementsAtLeastOnce
CHECK_DEADLOCK FALSE
