SPECIFICATION MessagesSpec
CONSTANTS
  Parts = {"http", "tcp", "urls", "bytes"}
  Listeners = {s1, s2}
  MaxStarts = 2
  Alpha = {"a", "b", "h", "x", "http", "wss"}
  Hex = {"a"}
  MaxPort = 100
  MaxHeader = 60
  MaxLength = 100
  Requests <- MCRequests
  Bodies <- MCBodies
  KeepAlive = TRUE
  MaxRequest = 3
  ReadSizes = {1, 2, 3, 4, 5, 6, 7, 8}
  SplitAnywhere = FALSE
  MaxSends = 3
  Symbols <- MCSymbols
  Beginnings <- MCBeginnings
  MaxMore = 4
  CodeSymbols <- MCCodeSymbols
  Octet <- MCOctet
  Half = 2
  Numbers = 8
  MaxGroups = 3
  FixedSize = 2
  BaseSize = 2
  MaxSize = 4
  Junk = Junk
  Data <- MCData
INVARIANTS ServedAsSent AnswerIsOwn FieldsAreParts RoundTrip
PROPERTIES DoRequestReturns StopEnds FlatSpec
CHECK_DEADLOCK FALSE
