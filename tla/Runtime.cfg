SPECIFICATION RuntimeSpec
CONSTANTS
  Parts = {"timers", "descriptors", "settings"}
  Addresses = {1, 2}
  Threads = {p1, p2}
  Users = {u1}
  Periods = {1, 2}
  MaxTimeout = 5
  Boot = 10
  MaxNow = 12
  Hour = 10
  Wrap = 64
  Callers = {c1, c2, c3}
  Outsiders = {c3}
  Fds = {2, 3}
  TableSize = 2
  ContextSize = 2
  MaxOpen = 2
  Loaders = {l1, l2}
  Appenders = {"out", "file"}
  LoggerNames <- MCLoggerNames
  Contents <- MCContents
  Defaults <- MCDefaults
  Broken = Broken
  Bad = Bad
  Daemon = FALSE
  NotSet = NotSet
  MaxLoads = 3
  MaxChanges = 1
SYMMETRY Symmetry
INVARIANTS CancelTells SomeoneWakes ContextsFit WaitersReachable LoadApplies
PROPERTY OnTime
CHECK_DEADLOCK FALSE
