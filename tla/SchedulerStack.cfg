SPECIFICATION Spec
CONSTANTS
  Workers = {w1, w2}
  Main = main
  UseCaller = FALSE
  Jobs = {j1, j2}
  MaxYields = 1
  AnyThread = any
  NoJob = none
SYMMETRY Symmetry
INVARIANT OneStackUser
