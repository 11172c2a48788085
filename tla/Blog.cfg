SPECIFICATION BlogSpec
CONSTANTS
  Requests = {r1, r2, r3}
  Users = {u1, u2}
  Posts = {p1}
  NoRequest = noRequest
  NoRow = noRow
  UserRequests = {u1, u2}
  Ids = {1, 2}
  Names = {n1, n2}
  Nobody = Nobody
  Gone = Gone
  Entries = {r1, r2, r3}
  Absent = Absent
  Sizes = {0, 1}
  MaxTime = 2
  Callers = {u1, u2}
  Jtis = {n1, n2}
  None = None
  MaxClock = 3
  Lifetime = 2
  PoolSize = 4
SYMMETRY Symmetry
INVARIANTS ViewsCounted NamesUnique PasswordStands TokenNamesItsUser
  FailedChangesNothing NothingSkipped
PROPERTIES OnlyAuthorChanges ExchangedIsRefused
CHECK_DEADLOCK FALSE
