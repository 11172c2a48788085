------------------------------ MODULE MySQLPool -----------------------------
(***************************************************************************)
(* sylar::db::MySQLConnectionPool (sylar/db/mysql_connector.cc): a pool of *)
(* connections shared by the fibers and threads that serve requests.  Each *)
(* DAO of the blog takes a connection when it is built and returns it when *)
(* it is destroyed.                                                        *)
(*                                                                         *)
(* getConnection() takes and drops m_mutex several times; it checks or     *)
(* opens a connection, which is slow, in between.  A step is what happens  *)
(* under the lock, or one of the slow calls.                               *)
(***************************************************************************)
EXTENDS Naturals, Sequences, SequencesExt, FiniteSets

CONSTANTS
  Callers,         \* requests, each with at most one connection at a time
  Conns,           \* the MySQLConnection objects that can be alive at once
  NoConn,          \* nullptr
  MaxConnections,
  MinConnections

ASSUME PoolAssumption ==
  /\ IsFiniteSet(Callers) /\ Callers # {}
  /\ NoConn \notin Conns
  /\ MaxConnections \in Nat \ {0}
  /\ MinConnections \in Nat
  /\ MinConnections <= MaxConnections

VARIABLES
  m_idleConnections,    \* deque: taken at the back, cleaned at the front
  m_activeConnections,
  m_running,
  open,                 \* connections for which isClosed() is false
  pc,                   \* where each caller is
  conn,                 \* its local variable conn, or the connection it uses
  sweeping              \* has the cleanup passed its check of m_running?

poolVars == <<m_idleConnections, m_activeConnections, m_running>>
callVars == <<pc, conn>>
vars == <<poolVars, open, callVars, sweeping>>

Labels == {"out", "pop", "validate", "count", "recheck", "connect", "push",
           "using"}

Idle == ToSet(m_idleConnections)
Active == ToSet(m_activeConnections)
Held == {conn[k] : k \in Callers} \ {NoConn}
Size == Len(m_idleConnections) + Len(m_activeConnections)

\* The constructor opens up to m_minConnections connections.
Init ==
  /\ \E s \in UNION {[1..n -> Conns] : n \in 0..MinConnections} :
       /\ \A i, j \in DOMAIN s : s[i] = s[j] => i = j
       /\ m_idleConnections = s
       /\ open = ToSet(s)
  /\ m_activeConnections = <<>>
  /\ m_running = TRUE
  /\ pc = [k \in Callers |-> "out"]
  /\ conn = [k \in Callers |-> NoConn]
  /\ sweeping = FALSE

Goto(k, from, to) ==
  /\ pc[k] = from
  /\ pc' = [pc EXCEPT ![k] = to]

-----------------------------------------------------------------------------
(* getConnection().                                                        *)

\* Is there an idle connection?  Under the read lock.
CheckIdle(k) ==
  /\ Goto(k, "out", IF m_idleConnections # <<>> THEN "pop" ELSE "count")
  /\ UNCHANGED <<poolVars, open, conn, sweeping>>

\* Faulty: the connection stays in the idle list until it is pushed.
PopLater(k) ==
  /\ IF m_idleConnections # <<>>
     THEN /\ Goto(k, "pop", "validate")
          /\ conn' = [conn EXCEPT ![k] = Last(m_idleConnections)]
     ELSE /\ Goto(k, "pop", "count")
          /\ UNCHANGED conn
  /\ UNCHANGED <<poolVars, open, sweeping>>

\* Under the write lock, after the read lock was given up: check again.
Pop(k) ==
  /\ IF m_idleConnections # <<>>
     THEN /\ Goto(k, "pop", "validate")
          /\ conn' = [conn EXCEPT ![k] = Last(m_idleConnections)]
          /\ m_idleConnections' = Front(m_idleConnections)
     ELSE /\ Goto(k, "pop", "count")
          /\ UNCHANGED <<conn, m_idleConnections>>
  /\ UNCHANGED <<m_activeConnections, m_running, open, sweeping>>

\* Without the lock: a closed connection is reconnected, or dropped.
Validate(k) ==
  /\ \/ Goto(k, "validate", "push") /\ open' = open \cup {conn[k]}
        /\ UNCHANGED conn
     \/ /\ conn[k] \notin open
        /\ Goto(k, "validate", "out")
        /\ conn' = [conn EXCEPT ![k] = NoConn]
        /\ UNCHANGED open
  /\ UNCHANGED <<poolVars, sweeping>>

\* canCreate, under the read lock.
Count(k) ==
  /\ Goto(k, "count", IF Size < MaxConnections THEN "recheck" ELSE "out")
  /\ UNCHANGED <<poolVars, open, conn, sweeping>>

\* The same check again, under the write lock.
Recheck(k) ==
  /\ Goto(k, "recheck", IF Size < MaxConnections THEN "connect" ELSE "out")
  /\ UNCHANGED <<poolVars, open, conn, sweeping>>

\* Without the lock: a new object connects, or fails.
Connect(k) ==
  /\ \/ \E x \in Conns \ (Idle \cup Active \cup Held) :
          /\ Goto(k, "connect", "push")
          /\ conn' = [conn EXCEPT ![k] = x]
          /\ open' = open \cup {x}
     \/ Goto(k, "connect", "out") /\ UNCHANGED <<conn, open>>
  /\ UNCHANGED <<poolVars, sweeping>>

\* Under the write lock again; the connection is handed to the caller.
Push(k) ==
  /\ Goto(k, "push", "using")
  /\ m_activeConnections' = Append(m_activeConnections, conn[k])
  /\ UNCHANGED <<m_idleConnections, m_running, open, conn, sweeping>>

-----------------------------------------------------------------------------
(* The other operations.                                                   *)

\* returnConnection(), all of it under the write lock.
Return(k) ==
  /\ Goto(k, "using", "out")
  /\ conn' = [conn EXCEPT ![k] = NoConn]
  /\ \/ \E i \in DOMAIN m_activeConnections :
          /\ m_activeConnections[i] = conn[k]
          /\ \A j \in 1..(i - 1) : m_activeConnections[j] # conn[k]
          /\ m_activeConnections' = RemoveAt(m_activeConnections, i)
     \/ conn[k] \notin Active /\ UNCHANGED m_activeConnections
  /\ IF conn[k] \in open /\ Len(m_idleConnections) < MaxConnections
     THEN /\ m_idleConnections' = Append(m_idleConnections, conn[k])
          /\ UNCHANGED open
     ELSE /\ open' = open \ {conn[k]}
          /\ UNCHANGED m_idleConnections
  /\ UNCHANGED <<m_running, sweeping>>

\* cleanupIdleConnections() reads m_running without the lock.
CheckRunning ==
  /\ ~sweeping /\ m_running
  /\ sweeping' = TRUE
  /\ UNCHANGED <<poolVars, open, callVars>>

\* It then closes the oldest idle connections beyond m_minConnections.
Sweep ==
  /\ sweeping
  /\ sweeping' = FALSE
  /\ LET surplus == IF Len(m_idleConnections) > MinConnections
                    THEN Len(m_idleConnections) - MinConnections ELSE 0
     IN  /\ open' = open \ {m_idleConnections[i] : i \in 1..surplus}
         /\ m_idleConnections' =
              SubSeq(m_idleConnections, surplus + 1, Len(m_idleConnections))
  /\ UNCHANGED <<m_activeConnections, m_running, callVars>>

\* closeAll() does not wait for the callers.
CloseAll ==
  /\ m_running
  /\ m_running' = FALSE
  /\ open' = open \ (Active \cup Idle)
  /\ m_activeConnections' = <<>>
  /\ m_idleConnections' = <<>>
  /\ UNCHANGED <<callVars, sweeping>>

\* The server, or a failed statement, ends a connection.
Drop(x) ==
  /\ x \in open
  /\ open' = open \ {x}
  /\ UNCHANGED <<poolVars, callVars, sweeping>>

-----------------------------------------------------------------------------
Call(k) ==
  \/ Pop(k) \/ Validate(k) \/ Count(k) \/ Recheck(k) \/ Connect(k) \/ Push(k)

Next ==
  \/ \E k \in Callers : CheckIdle(k) \/ Call(k) \/ Return(k)
  \/ CheckRunning \/ Sweep \/ CloseAll
  \/ \E x \in Conns : Drop(x)

Spec == Init /\ [][Next]_vars

-----------------------------------------------------------------------------
(* Properties.                                                             *)

TypeOK ==
  /\ m_idleConnections \in Seq(Conns)
  /\ m_activeConnections \in Seq(Conns)
  /\ m_running \in BOOLEAN
  /\ open \subseteq Conns
  /\ pc \in [Callers -> Labels]
  /\ conn \in [Callers -> Conns \cup {NoConn}]
  /\ sweeping \in BOOLEAN

\* No connection is at two places at once, among the idle ones, in the hands
\* of a caller or in a call under way, although the lock is given up between
\* the steps of getConnection().
OnePlace ==
  /\ \A i, j \in DOMAIN m_idleConnections :
       m_idleConnections[i] = m_idleConnections[j] => i = j
  /\ \A k, l \in Callers : conn[k] = conn[l] /\ conn[k] # NoConn => k = l
  /\ Idle \cap Held = {}

\* Until closeAll() the active list holds the connections in use, each once.
ActiveInUse ==
  m_running =>
    /\ Active = {conn[k] : k \in {l \in Callers : pc[l] = "using"}}
    /\ \A i, j \in DOMAIN m_activeConnections :
         m_activeConnections[i] = m_activeConnections[j] => i = j

\* The callers that hold a connection, and those that found none idle and may
\* open one.
Engaged == {k \in Callers : pc[k] \notin {"out", "pop"}}

\* A connection is opened only for a call that found every other one in use:
\* however the steps of calls interleave, there are never more connections
\* than simultaneous callers, or than the constructor opened.
OpenedOnDemand ==
  \E bound \in {MinConnections, Cardinality(Callers)} :
    Len(m_idleConnections) + Cardinality(Engaged) <= bound

\* The pool leases connections: a caller has one while it uses it.
leases == [k \in Callers |-> IF pc[k] = "using" THEN conn[k] ELSE NoConn]

L == INSTANCE Leases WITH lease <- leases

LeasesSpec == L!Spec
-----------------------------------------------------------------------------
\* What a comment says and the code does not keep: TLC refutes it with the
\* constants of MySQLPool.cfg (README, section 5).  The second check "prevents
\* concurrent creation beyond the limit" (mysql_connector.cc:682).
MaxRespected == Size <= MaxConnections
=============================================================================
