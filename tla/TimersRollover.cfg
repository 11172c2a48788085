SPECIFICATION TimersSpec
CONSTANTS
  Addresses = {1, 2}
  Threads = {p1, p2}
  Users = {u1}
  Periods = {1, 2}
  MaxTimeout = 5
  Boot = 0
  MaxNow = 3
  Hour = 10
  Wrap = 64
PROPERTY OnTime
CHECK_DEADLOCK FALSE
