\* A limit of 5 GB: of the three sizes one needs less, one needs the limit and
\* one needs more; the database was made larger than the limit.
CONSTANTS
  Interval = 1
  Executions = {e1, e2}
  Sizes = {5, 30, 70}
  InitialMaxSize = 10
  AbsoluteMaxSize = 5
  CacheTime = 2
  MaxRetries = 1
  None = None
SPECIFICATION FairSpec
INVARIANTS ScalerTypeOK RecommendationIsRecent OneExecutionAfterCancel
PROPERTIES SettlesInTheEnd
CHECK_DEADLOCK FALSE
