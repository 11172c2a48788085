------------------------------ MODULE TcpServer ------------------------------
(***************************************************************************)
(* TcpServer of tcp_server.cc over Socket of socket.cc: bind(), start(),   *)
(* the accept loops, and stop(), which only leaves word for the thread     *)
(* that accepts.  As in the blog, that is one thread: the fibers that      *)
(* accept and those that start and stop the server take turns, and a fiber *)
(* goes on until it waits.                                                 *)
(***************************************************************************)
EXTENDS Integers, Sequences, SequencesExt, FiniteSetsExt

CONSTANTS
  Listeners,     \* the sockets bind() can make
  MaxStarts      \* bound: calls of start() that schedule loops

VARIABLES
  m_isStop,
  m_socks,
  sock,          \* m_sock: "none", "open", or "closed" (-1)
  starts,
  loop,          \* where the accept loop of a socket and a start() is
  queue,         \* of the scheduler: loops, and what stop() has scheduled
  running,       \* the loop whose fiber runs
  pending        \* connections nobody has accepted

tcpVars == <<m_isStop, m_socks, sock, starts, loop, queue, running, pending>>
Loops == Listeners \X (1..MaxStarts)
NoLoop == <<>>
CloseTask == <<"close">>
LoopsOf(s) == {x \in Loops : x[1] = s}
Gone(x) == loop[x] \in {"none", "ended"}

TcpInit ==
  /\ m_isStop = TRUE /\ m_socks = {} /\ starts = 0
  /\ sock = [s \in Listeners |-> "none"]
  /\ loop = [x \in Loops |-> "none"]
  /\ queue = <<>> /\ running = NoLoop
  /\ pending = [s \in Listeners |-> FALSE]

-----------------------------------------------------------------------------
(* The calls of whoever owns the server.                                   *)

\* Socket::bind() and listen(): the address may be in use, or of another family
BindOutcomes == BOOLEAN
\* Socket::cancelAll(), close()
CloseSockets(socks) == sock' = [s \in Listeners |-> IF s \in socks THEN "closed" ELSE sock[s]]
\* bind() is called, until it succeeds, before the server is started; when one
\* address fails, those bound before are given up as well, and their sockets closed
Bind ==
  /\ running = NoLoop /\ starts = 0
  /\ \E made \in SUBSET {s \in Listeners : sock[s] = "none"} :
       /\ made # {}
       /\ \E bound \in [made -> BindOutcomes] :
            IF \A s \in made : bound[s]
              THEN /\ m_socks' = m_socks \cup made
                   /\ sock' = [s \in Listeners |-> IF s \in made THEN "open" ELSE sock[s]]
              ELSE m_socks' = {} /\ CloseSockets(m_socks \cup made)
  /\ UNCHANGED <<m_isStop, starts, loop, queue, running, pending>>
Start ==
  /\ running = NoLoop /\ m_isStop /\ starts < MaxStarts
  /\ m_isStop' = FALSE /\ starts' = starts + 1
  /\ loop' = [x \in Loops |-> IF x[1] \in m_socks /\ x[2] = starts' THEN "check" ELSE loop[x]]
  /\ queue' = queue \o SetToSeq({x \in Loops : x[1] \in m_socks /\ x[2] = starts'})
  /\ UNCHANGED <<m_socks, sock, running, pending>>
Stop ==
  /\ running = NoLoop /\ CloseTask \notin ToSet(queue)
  /\ m_isStop' = TRUE
  /\ queue' = Append(queue, CloseTask)
  /\ UNCHANGED <<m_socks, sock, starts, loop, running, pending>>

-----------------------------------------------------------------------------
(* The thread that accepts.                                                *)

Waiting(s) == {x \in LoopsOf(s) : loop[x] = "waiting"}
\* cancelAll() wakes the loops that wait, and close() makes m_sock -1
CloseAll ==
  /\ running = NoLoop /\ queue # <<>> /\ Head(queue) = CloseTask
  /\ LET woken == UNION {Waiting(s) : s \in m_socks}
     IN /\ loop' = [x \in Loops |-> IF x \in woken THEN "accept" ELSE loop[x]]
        /\ queue' = Tail(queue) \o SetToSeq(woken)
  /\ CloseSockets(m_socks)
  /\ m_socks' = {}
  /\ UNCHANGED <<m_isStop, starts, running, pending>>
RunLoop ==
  /\ running = NoLoop /\ queue # <<>> /\ Head(queue) # CloseTask
  /\ running' = Head(queue) /\ queue' = Tail(queue)
  /\ UNCHANGED <<m_isStop, m_socks, sock, starts, loop, pending>>
Check ==
  /\ running # NoLoop /\ loop[running] = "check"
  /\ loop' = [loop EXCEPT ![running] = IF m_isStop THEN "ended" ELSE "accept"]
  /\ running' = IF m_isStop THEN NoLoop ELSE running
  /\ UNCHANGED <<m_isStop, m_socks, sock, starts, queue, pending>>
\* Socket::accept() and init(): a client, which is scheduled
TakeClient(s) ==
  /\ sock[s] = "open" /\ pending[s]
  /\ pending' = [pending EXCEPT ![s] = FALSE]
  /\ loop' = [loop EXCEPT ![running] = "check"] /\ UNCHANGED running
\* nobody, and the fiber waits in the hook
WaitForClient(s) ==
  /\ sock[s] = "open" /\ ~pending[s]
  /\ loop' = [loop EXCEPT ![running] = "waiting"] /\ running' = NoLoop
  /\ UNCHANGED pending
\* m_sock is -1, or there are too many descriptors
AcceptFails ==
  /\ loop' = [loop EXCEPT ![running] = "check"]
  /\ UNCHANGED <<running, pending>>
\* Faulty: a failed accept() is tried again without a look at m_isStop.
AcceptAgain ==
  /\ running # NoLoop /\ loop[running] = "accept"
  /\ TakeClient(running[1]) \/ WaitForClient(running[1])
  /\ UNCHANGED <<m_isStop, m_socks, sock, starts, queue>>
Accept ==
  /\ running # NoLoop /\ loop[running] = "accept"
  /\ TakeClient(running[1]) \/ WaitForClient(running[1]) \/ AcceptFails
  /\ UNCHANGED <<m_isStop, m_socks, sock, starts, queue>>
\* external: a client connects; a loop that waits is scheduled
Arrive ==
  /\ \E s \in Listeners :
       /\ sock[s] = "open" /\ ~pending[s]
       /\ pending' = [pending EXCEPT ![s] = TRUE]
       /\ loop' = [x \in Loops |-> IF x \in Waiting(s) THEN "accept" ELSE loop[x]]
       /\ queue' = queue \o SetToSeq(Waiting(s))
  /\ UNCHANGED <<m_isStop, m_socks, sock, starts, running>>

AcceptorStep == CloseAll \/ RunLoop \/ Check \/ Accept
TcpNext == Bind \/ Start \/ Stop \/ AcceptorStep \/ Arrive
\* the thread runs, and a fiber that waits is resumed by its event
TcpFairness == WF_tcpVars(AcceptorStep)
TcpSpec == TcpInit /\ [][TcpNext]_tcpVars /\ TcpFairness

(***************************************************************************)
(* stop() ends the server although it only leaves word: every accept loop  *)
(* ends, those that wait for a connection too, and every socket that was   *)
(* bound is closed, unless the server is started again meanwhile.          *)
(***************************************************************************)
StopEnds ==
  CloseTask \in ToSet(queue) ~>
    \/ ~m_isStop
    \/ (\A x \in Loops : Gone(x)) /\ \A s \in Listeners : sock[s] # "open"
=============================================================================
