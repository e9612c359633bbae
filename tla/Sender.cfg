\* Two runs that overlap, over two chunks that are tried twice; safety and liveness.
CONSTANTS
  TotalChunks = 2
  MaxWorkers = 1
  MaxRetries = 2
  MaxRuns = 2
SPECIFICATION FairSpec
CHECK_DEADLOCK FALSE
INVARIANTS
  TypeOK
  ProgressNotAhead
  ReportsComplete
  SingleRunBounds
  CompletedUnlessStopped
  FailedAfterRetries
PROPERTY RunsEnd
