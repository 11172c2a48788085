---------------------------- MODULE RedisSession ----------------------------
(***************************************************************************)
(* RedisConnection and RedisReply of redis_connector.cc: one connection,   *)
(* its commands and transactions, and the server (external) at its other   *)
(* end, whose keys other clients change too.  A key stands for whatever    *)
(* the command is about: a string, a field of a hash, a member of a set,   *)
(* the end of a list.  What the answers tell apart is kept: a number or    *)
(* nothing.  A call may be lost with its connection before the server has  *)
(* it or after.                                                            *)
(***************************************************************************)
EXTENDS Integers, Sequences, SequencesExt, FiniteSets

CONSTANTS
  Keys,
  MaxNumber,     \* INT64_MAX: INCR beyond it is an error
  MaxQueue,      \* bound: commands of a transaction
  Database       \* the database the pool selects

VARIABLES
  context,       \* m_context: "none", "open", "broken" (its err is set)
  inTransaction, \* m_inTransaction
  session,       \* the server's: in MULTI, spoilt, its queue, its database
  store,         \* the server's values: database, key
  last,          \* the call made last: command, answer, what the server did
  issued         \* the commands called since multi() returned true

sessionVars == <<context, inTransaction, session, store, last, issued>>

Absent == 0
\* the texts of statuses and errors, none of them a number kept under a key
OK == -1
PONG == -2
QUEUED == -3
ERR == -4
Databases == {0, Database}
NewSession == [multi |-> FALSE, spoilt |-> FALSE, queue |-> <<>>, db |-> 0]
Named(names, values) == [name : names, key : Keys, value : values]
Commands == Named({"get", "exists", "ttl", "keys", "del", "pop", "incr"}, {Absent})
              \cup Named({"set", "getset", "setnx", "setnxex", "hset"}, 1..MaxNumber)
Call(name) == [name |-> name, key |-> CHOOSE k \in Keys : TRUE, value |-> Absent]

(***************************************************************************)
(* The server.                                                             *)
(***************************************************************************)
Reply(type, value) == [type |-> type, value |-> value]
Error == Reply("ERROR", ERR)
Text(v) == IF v = Absent THEN Reply("NIL", 0) ELSE Reply("STRING", v)
Number(n) == Reply("INTEGER", n)
Status(s) == Reply("STATUS", s)
Truth(condition) == IF condition THEN 1 ELSE 0
Present(s) == {k \in Keys : s[k] # Absent}

ReplyTo(c, s) ==
  LET v == s[c.key]
  IN CASE c.name = "set" -> Status(OK)
       [] c.name \in {"get", "getset", "pop"} -> Text(v)
       [] c.name \in {"del", "exists"} -> Number(Truth(v # Absent))
       [] c.name = "setnx" -> Number(Truth(v = Absent))
       [] c.name = "setnxex" -> IF v = Absent THEN Status(OK) ELSE Reply("NIL", 0)
       [] c.name = "hset" -> Number(Truth(v = Absent))
       [] c.name = "incr" -> IF v = MaxNumber THEN Error ELSE Number(v + 1)
       [] c.name = "ttl" -> Number(IF v = Absent THEN -2 ELSE -1)
       [] c.name = "keys" -> Reply("ARRAY", Cardinality(Present(s)))
Stored(c, s) ==
  LET v == s[c.key]
  IN [s EXCEPT ![c.key] =
        CASE c.name \in {"set", "getset", "hset"} -> c.value
          [] c.name \in {"setnx", "setnxex"} -> IF v = Absent THEN c.value ELSE v
          [] c.name \in {"del", "pop"} -> Absent
          [] c.name = "incr" -> IF v = MaxNumber THEN v ELSE v + 1
          [] OTHER -> v]
StoredAll(queue, s) == FoldLeft(LAMBDA t, c : Stored(c, t), s, queue)

\* what the server makes of a command: its reply, its session, what it executed
Effect(reply, next, done) == [reply |-> reply, session |-> next, done |-> done]
Closed == [NewSession EXCEPT !.db = session.db]
OnMulti ==
  {Effect(IF session.multi THEN Error ELSE Status(OK), [session EXCEPT !.multi = TRUE], <<>>)}
OnDiscard == {Effect(IF session.multi THEN Status(OK) ELSE Error, Closed, <<>>)}
OnExec ==
  IF ~session.multi \/ session.spoilt THEN {Effect(Error, Closed, <<>>)}
  ELSE {Effect(Reply("ARRAY", Len(session.queue)), Closed, session.queue)}
OnPing == {Effect(Status(PONG), session, <<>>)}
OnCommand(c) ==
  IF session.multi
    THEN {Effect(Status(QUEUED), [session EXCEPT !.queue = Append(@, c)], <<>>),
          Effect(Error, [session EXCEPT !.spoilt = TRUE], <<>>)}   \* out of memory
    ELSE {Effect(ReplyTo(c, store[session.db]), session, <<c>>)}
Served(c) ==
  CASE c.name = "MULTI"   -> OnMulti
    [] c.name = "DISCARD" -> OnDiscard
    [] c.name = "EXEC"    -> OnExec
    [] c.name = "PING"    -> OnPing
    [] c \in Commands     -> OnCommand(c)

(***************************************************************************)
(* RedisReply, and what each function makes of a reply; None is the null   *)
(* pointer of executeCommand().  Absent stands for "", 1 and 0 for yes *)
(* and no.                                                                 *)
(***************************************************************************)
None == Reply("none", 0)
GetString(r) == IF r.type \in {"STRING", "STATUS", "ERROR"} THEN r.value ELSE Absent
GetInteger(r) == IF r.type = "INTEGER" THEN r.value ELSE 0
GetArraySize(r) == IF r.type = "ARRAY" THEN r.value ELSE 0
Failed(r) == r.type \in {"none", "ERROR"}
SetAnswer(r) == ~Failed(r) /\ r.type = "STATUS" /\ r.value = OK
GetAnswer(r) == IF Failed(r) \/ r.type = "NIL" THEN Absent ELSE GetString(r)
CountAnswer(r) == IF Failed(r) THEN 0 ELSE GetInteger(r)
ExistsAnswer(r) == ~Failed(r) /\ GetInteger(r) > 0
SetnxAnswer(r) == ~Failed(r) /\ GetInteger(r) = 1
\* Faulty: the NIL of a key that is there is not told from OK.
AnyAnswer(r) == ~Failed(r)
SetnxexAnswer(r) == ~Failed(r) /\ r.type # "NIL"
TtlAnswer(r) == IF Failed(r) THEN -2 ELSE GetInteger(r)
KeysAnswer(r) == IF Failed(r) \/ r.type # "ARRAY" THEN 0 ELSE GetArraySize(r)
HsetAnswer(r) == ~Failed(r)
Answer(c, r) ==
  CASE c.name = "set" -> Truth(SetAnswer(r))
    [] c.name \in {"get", "getset", "pop"} -> GetAnswer(r)
    [] c.name \in {"del", "incr"} -> CountAnswer(r)
    [] c.name = "exists" -> Truth(ExistsAnswer(r))
    [] c.name = "setnx" -> Truth(SetnxAnswer(r))
    [] c.name = "setnxex" -> Truth(SetnxexAnswer(r))
    [] c.name = "ttl" -> TtlAnswer(r)
    [] c.name = "keys" -> KeysAnswer(r)
    [] c.name = "hset" -> Truth(HsetAnswer(r))
    [] c.name = "EXEC" -> KeysAnswer(r)
    [] OTHER -> Truth(~Failed(r))                \* MULTI, DISCARD, PING

\* Faulty: a failed EXEC leaves the transaction on.
InTransactionKeeping(c, answer) ==
  CASE c.name = "MULTI" -> inTransaction \/ answer = 1
    [] c.name \in {"EXEC", "DISCARD"} -> inTransaction /\ answer = 0
    [] OTHER -> inTransaction
\* what multi(), exec() and discard() make of m_inTransaction
InTransaction(c, answer) ==
  CASE c.name = "MULTI" -> inTransaction \/ answer = 1
    [] c.name = "EXEC" -> FALSE
    [] c.name = "DISCARD" -> inTransaction /\ answer = 0
    [] OTHER -> inTransaction

\* the caller's commands since multi(), for what exec() is expected to have done
Issued(c, r) ==
  IF c.name = "MULTI" THEN IF r.type = "STATUS" THEN <<>> ELSE issued
  ELSE IF c.name = "EXEC" THEN issued
  ELSE IF ~session.multi THEN <<>>
  ELSE IF c \in Commands THEN Append(issued, c) ELSE issued

(***************************************************************************)
(* executeCommand(): the reply, or none when the connection is not open or *)
(* is lost, with what the server had queued.                               *)
(***************************************************************************)
Execute(c) ==
  \/ /\ context = "open"
     /\ \E s \in Served(c), lost \in BOOLEAN :
          LET r == IF lost THEN None ELSE s.reply
          IN /\ context' = IF lost THEN "broken" ELSE "open"
             /\ session' = IF lost THEN NewSession ELSE s.session
             /\ store' = [store EXCEPT ![session.db] = StoredAll(s.done, @)]
             /\ last' = [call |-> c, answer |-> Answer(c, r), done |-> s.done,
                         queued |-> session.multi, before |-> store[Database],
                         open |-> ~lost]
             /\ issued' = Issued(c, r)
             /\ inTransaction' = InTransaction(c, Answer(c, r))
  \/ /\ \/ context = "open" /\ context' = "broken" /\ session' = NewSession
        \/ context # "open" /\ UNCHANGED <<context, session>>
     /\ last' = [call |-> c, answer |-> Answer(c, None), done |-> <<>>,
                 queued |-> session.multi, before |-> store[Database], open |-> FALSE]
     /\ inTransaction' = InTransaction(c, Answer(c, None))
     /\ UNCHANGED <<store, issued>>

Command == /\ ~session.multi \/ Len(issued) < MaxQueue
           /\ \E c \in Commands : Execute(c)
PingServer == Execute(Call("PING"))
Multi == Execute(Call("MULTI"))
Exec == Execute(Call("EXEC"))
Discard == Execute(Call("DISCARD"))

NoCall == [call |-> Call("PING"), answer |-> 1, done |-> <<>>, queued |-> FALSE,
           before |-> [k \in Keys |-> Absent], open |-> TRUE]
\* connect(), with the AUTH and, of the pool, the SELECT that follow it
SessionInit ==
  /\ context = "open" /\ inTransaction = FALSE
  /\ session = [NewSession EXCEPT !.db = Database]
  /\ store = [d \in Databases |-> [k \in Keys |-> Absent]]
  /\ last = NoCall /\ issued = <<>>
\* reconnect(): close() and connect(), and no SELECT
Reconnect ==
  /\ context' \in {"open", "none"}
  /\ inTransaction' = FALSE /\ session' = NewSession
  /\ last' = NoCall /\ issued' = <<>>
  /\ UNCHANGED store
Close == /\ context' = "none" /\ inTransaction' = FALSE /\ session' = NewSession
         /\ last' = NoCall /\ issued' = <<>>
         /\ UNCHANGED store

\* external: other clients, and the expiry of a key
OtherClient ==
  /\ \E k \in Keys, v \in Absent..MaxNumber : store' = [store EXCEPT ![Database][k] = v]
  /\ last' = NoCall
  /\ UNCHANGED <<context, inTransaction, session, issued>>

SessionNext == Command \/ PingServer \/ Multi \/ Exec \/ Discard \/ Reconnect \/ Close \/ OtherClient
SessionSpec == SessionInit /\ [][SessionNext]_sessionVars

\* What the answer of a command is to say of the values the server had.
Meant(c, s) ==
  LET v == s[c.key]
  IN CASE c.name \in {"set", "hset"} -> 1
       [] c.name \in {"get", "getset", "pop"} -> v
       [] c.name = "del" -> IF v = Absent THEN 0 ELSE 1
       [] c.name = "exists" -> Truth(v # Absent)
       [] c.name \in {"setnx", "setnxex"} -> Truth(v = Absent)
       [] c.name = "incr" -> IF v = MaxNumber THEN 0 ELSE v + 1
       [] c.name = "ttl" -> IF v = Absent THEN -2 ELSE -1
       [] c.name = "keys" -> Cardinality(Present(s))

(***************************************************************************)
(* Outside a transaction the answer of each command says what the server   *)
(* found and did, though the functions fold failures, empty values and     *)
(* NIL into one: yes, a value or a count only if it is so; and no, nothing *)
(* or 0 of a connection that is still open only if nothing was changed     *)
(* that the caller is not told of.                                         *)
(***************************************************************************)
AnswersAsMeant ==
  LET c == last.call
  IN c \in Commands /\ ~last.queued =>
       \/ /\ last.answer = Meant(c, last.before)
          /\ last.done = <<c>> \/ last.answer = Answer(c, None)
       \/ last.answer = Answer(c, None) /\ ~last.open

(***************************************************************************)
(* EXEC is all or nothing to its caller: when exec() returns results, the  *)
(* server has executed all that was called since multi(), in that order;   *)
(* when it returns none and the connection is still open, nothing.  And an *)
(* open connection is in a transaction for the server when it is for the   *)
(* caller, so that one given back after exec() or discard() queues nothing *)
(* of its next user.                                                       *)
(***************************************************************************)
TransactionWhole ==
  /\ last.call.name = "EXEC" =>
       /\ last.answer # 0 => last.done = issued /\ last.answer = Len(issued)
       /\ last.answer = 0 /\ last.open => last.done = <<>>
  /\ context = "open" => (inTransaction <=> session.multi)
=============================================================================
