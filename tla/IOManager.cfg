SPECIFICATION IOFairSpec
CONSTANTS
  Workers = {w1}
  Main = main
  UseCaller = FALSE
  Fibers = {f1, f2}
  Jobs <- MCJobs
  MaxYields = 1
  AnyThread = any
  NoJob = none
  Events = {"READ"}
  Conditions = {"READ", "HUP"}
PROPERTIES EveryFiberFinishes IOStopReturns
