----------------------------- MODULE Statements -----------------------------
(***************************************************************************)
(* What the wrapper of the MySQL client (mysql_connector.cc) lets its      *)
(* callers see of a statement.  It throws nothing: a lost connection, an   *)
(* error of the server and an exception of the client become a value.  An  *)
(* outcome says, too, whether the server executed the statement, which the *)
(* caller is not told.                                                     *)
(***************************************************************************)
EXTENDS Integers

Outcome(ran, value) == [ran |-> ran, value |-> value]

\* prepareStatement() returns null: the caller gives up.
NotPrepared(value) == Outcome(FALSE, value)

\* MySQLPreparedStatement::execute(): FALSE also for a statement that was
\* executed and whose answer was lost.
Executed ==
  {Outcome(TRUE, TRUE), Outcome(TRUE, FALSE), Outcome(FALSE, FALSE)}

\* MySQLPreparedStatement::executeUpdate() of a statement that changes n rows.
Updated(n) == {Outcome(TRUE, n), Outcome(TRUE, -1), Outcome(FALSE, -1)}

\* The data access objects take an update for failed if it changed no row.
UpdateOutcomes(n) == {NotPrepared(0)} \cup Updated(n)

\* Faulty: the error, too, is taken for a failure of the change.
UpdateSucceededPositive(o) == o.value > 0

UpdateSucceeded(o) == o.value # 0

InsertOutcomes == {NotPrepared(FALSE)} \cup Executed

\* executeQuery() and next(): the row, one of several, or none; none as well
\* when the statement failed.
QueryOutcomes(rows, none) == rows \cup {none}

\* getRow().getInt64(0) of SELECT COUNT(*): 0 as well when it failed.
CountOutcomes(n) == {0, n}

\* getLastInsertId(): a statement of its own, on the same connection.
LastIdOutcomes(id, none) == {id, none}
=============================================================================
