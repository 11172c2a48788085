SPECIFICATION FairSpec
CONSTANTS
  Workers = {w1, w2}
  Main = main
  UseCaller = TRUE
  Jobs = {j1, j2}
  MaxYields = 1
  AnyThread = any
  NoJob = none
INVARIANT StopReturnsQuiescent
PROPERTIES EveryJobFinishes StopReturns PoolSpec
