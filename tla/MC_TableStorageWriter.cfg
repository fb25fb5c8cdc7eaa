\* Two threads that empty the queue under each other, groups of one and two
\* batches, a request that is sent again once and then given up.
CONSTANTS
  Executors = {e1, e2}
  Partitions = {p1, p2}
  BatchSize = 2
  Retries = 1
  MaxOperations = 3
  MaxFaults = 2
SPECIFICATION FairSpec
INVARIANTS TypeOK EveryOperationAccountedFor BatchesWellFormed
PROPERTIES OneBatchInDoubt ImplementsPartitionedLog ExecuteEnds
