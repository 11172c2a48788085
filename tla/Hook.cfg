SPECIFICATION FairSpec
CONSTANTS
  reader = reader
  writer = writer
  Fibers = {reader, writer}
  EventOf <- MCEventOf
  Connecting = {writer}
  Timed = {reader, writer}
  NoFiber = none
  CallsOf <- MCCallsOf
  MaxAttempts = 4
  MaxThreads = 2
INVARIANTS OneWaker TimeoutCovers TimeoutIsOwn
PROPERTIES ConnectHonest TimedCallsEnd
CHECK_DEADLOCK FALSE
