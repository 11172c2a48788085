SPECIFICATION IOSpec
CONSTANTS
  Workers = {w1, w2}
  Main = main
  UseCaller = FALSE
  Fibers = {f1, f2}
  Jobs <- MCJobs
  MaxYields = 1
  AnyThread = any
  NoJob = none
  Events = {"READ", "WRITE"}
  Conditions = {"READ", "WRITE"}
SYMMETRY Symmetry
INVARIANTS OneResumer CompleteUnlessLateRun
