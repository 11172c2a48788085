SPECIFICATION RedisSpec
CONSTANTS
  Clients = {f1, f2}
  Cleaner = Cleaner
  Links = {k1, k2, k3}
  NoLink = NoLink
  Tries = 1
  Confs <- MCConfs
  Setups <- MCSetups
  Keys = {k}
  MaxNumber = 2
  MaxQueue = 2
  Database = 0
INVARIANTS OneUser AnswersAsMeant TransactionWhole
PROPERTY GetReturns
CHECK_DEADLOCK FALSE
