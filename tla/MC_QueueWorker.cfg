\* Two messages in one batch, so that one can throw while the other waits, is
\* executed or is poisoned; two workers, one of which keeps running, so that
\* what one abandons comes to the other; two attempts, so that a redelivery is
\* executed before the poison queue is due; one failure, lost answer or crash.
\* DequeueBound is never reached: w1 would be stuck there, and deadlock is
\* checked.
CONSTANTS
  Workers = {w1, w2}
  Unreliable = {w2}
  Messages = {m1, m2}
  MaxAttempts = 2
  BatchSize = 2
  VisibilityOutlastsBatch = TRUE
  DequeueBound = 6
  MaxFaults = 1
SPECIFICATION FairSpec
INVARIANTS TypeOK ProcessedOnce PoisonedIsQuiet PoisonCopiesAccountedFor
PROPERTIES ImplementsWorkLoop EventuallyGone
