----------------------------- MODULE RedisPool ------------------------------
(***************************************************************************)
(* RedisConnectionPool of redis_connector.cc.  Users are fibers.  With one *)
(* thread (as the blog server runs) a fiber goes on until it waits: for a  *)
(* connect(), a PING or usleep().  With more threads any of them takes the *)
(* next step.  What is done under the write lock is one step; what is read *)
(* under the read lock, which the code gives up before it takes the write  *)
(* lock, is another.                                                       *)
(***************************************************************************)
EXTENDS Naturals, Sequences, SequencesExt, FiniteSets

CONSTANTS
  Clients,
  Cleaner,       \* the fiber of the cleanup timer
  Links,         \* the connections there may be at a time
  NoLink,
  Tries,         \* rounds of the waiting loop; 10 in the code
  Confs,         \* what redis.yml says of a pool
  Setups         \* threads (1, or 2 for more) and limits of pools made without it

ASSUME RedisPoolAssumption ==
  /\ Tries \in Nat /\ Links # {} /\ NoLink \notin Links /\ Cleaner \notin Clients
  /\ Setups \subseteq [threads : {1, 2}, max : Nat, min : Nat]
  /\ Confs \subseteq [threads : {1, 2}, mode : {"single", "sentinel", "cluster"},
                      pool_min_size : Nat, pool_max_size : Nat]

VARIABLES
  setup,         \* m_maxConnections and m_minConnections, number of threads
  link,          \* "none", "open", "broken": the context has an error
  idle, active,  \* m_idleConnections, m_activeConnections
  doing,         \* what each fiber does next
  hand,          \* the connection it has
  place,         \* the iterator of returnConnection()
  tries,         \* rounds of the waiting loop
  checking,      \* to_check and healthy of the cleanup, in this order
  stuck,         \* fibers that wait for the write lock and hold the read lock
  running        \* who keeps the thread, when there is one, or NoLink

poolVars == <<setup, link, idle, active, doing, hand, place, tries,
              checking, stuck, running>>

Fibers == Clients \cup {Cleaner}

\* RedisManager::Init() makes no pool for sentinels and clusters, and hands the
\* least size over as the greatest and the greatest as the least
SetupOf(conf) ==
  [threads |-> conf.threads, max |-> conf.pool_min_size, min |-> conf.pool_max_size]
Configured == {SetupOf(conf) : conf \in {c \in Confs : c.mode = "single"}}

\* Of the connections that the constructor creates one may have succeeded.
RedisPoolInit ==
  /\ setup \in Configured \cup Setups
  /\ \E first \in {<<>>, <<CHOOSE c \in Links : TRUE>>} :
       /\ idle = first
       /\ link = [c \in Links |-> IF c \in ToSet(first) THEN "open" ELSE "none"]
  /\ active = <<>>
  /\ doing = [f \in Fibers |-> "out"]
  /\ hand = [f \in Fibers |-> NoLink]
  /\ place = [f \in Fibers |-> <<>>]
  /\ tries = [f \in Fibers |-> 0]
  /\ checking = [ask |-> <<>>, healthy |-> <<>>]
  /\ stuck = {}
  /\ running = NoLink

Total == Len(idle) + Len(active)

\* A connection somebody still has a pointer to.
Referenced(c) ==
  \/ c \in ToSet(idle \o active \o checking.ask \o checking.healthy)
  \/ \E f \in Fibers : hand[f] = c

\* Between its waits a fiber keeps the thread.
Waits == {"out", "connect", "sleep", "ping", "using"}

Step(f, from, to) ==
  /\ f \notin stuck
  /\ doing[f] = from
  /\ running \in {f, NoLink}
  /\ doing' = [doing EXCEPT ![f] = to]
  /\ running' = IF setup.threads = 1 /\ to \notin Waits THEN f ELSE NoLink

\* Nobody holds the read lock for good.
WriteLock == stuck = {}

Keep == UNCHANGED setup

-----------------------------------------------------------------------------
(* getConnection()                                                         *)

TakeFirst(f) ==
  /\ hand' = [hand EXCEPT ![f] = Head(idle)]
  /\ idle' = Tail(idle)
  /\ active' = Append(active, Head(idle))

\* The first look under the read lock; how many there are is looked at next.
Get(f) ==
  /\ \/ idle # <<>> /\ Step(f, "out", "pop")
     \/ idle = <<>> /\ Step(f, "out", "count")
  /\ Keep /\ UNCHANGED <<link, idle, active, hand, place, tries, checking, stuck>>

\* Under the write lock: is one still there?
Pop(f) ==
  /\ WriteLock
  /\ \/ idle # <<>> /\ Step(f, "pop", "using") /\ TakeFirst(f)
     \/ idle = <<>> /\ Step(f, "pop", "count") /\ UNCHANGED <<idle, active, hand>>
  /\ Keep /\ UNCHANGED <<link, place, tries, checking, stuck>>

Count(f) ==
  /\ Step(f, "count", IF Total < setup.max THEN "connect" ELSE "wait")
  /\ Keep /\ UNCHANGED <<link, idle, active, hand, place, tries, checking, stuck>>

\* createConnection(): the new connection becomes an idle one.  (Unused ones
\* are alike: the first of them is taken.)
Connected ==
  LET unused == {k \in Links : link[k] = "none" /\ ~Referenced(k)}
      c == CHOOSE k \in unused : TRUE
  IN  /\ WriteLock /\ unused # {}
      /\ link' = [link EXCEPT ![c] = "open"]
      /\ idle' = Append(idle, c)

Connect(f) ==
  /\ \/ /\ Step(f, "connect", "second")
        /\ Connected
     \/ Step(f, "connect", "wait") /\ UNCHANGED <<link, idle>>
  /\ Keep /\ UNCHANGED <<active, hand, place, tries, checking, stuck>>

\* Faulty: the connection that was created is taken for granted.
SecondUnchecked(f) ==
  /\ WriteLock
  /\ Step(f, "second", "using")
  /\ IF idle # <<>> THEN TakeFirst(f)
     ELSE /\ active # <<>> /\ hand' = [hand EXCEPT ![f] = Last(active)]
          /\ UNCHANGED <<idle, active>>
  /\ Keep /\ UNCHANGED <<link, place, tries, checking, stuck>>

\* Another fiber may have taken the connection that was created.
Second(f) ==
  /\ WriteLock
  /\ \/ idle # <<>> /\ Step(f, "second", "using") /\ TakeFirst(f)
     \/ idle = <<>> /\ Step(f, "second", "wait") /\ UNCHANGED <<idle, active, hand>>
  /\ Keep /\ UNCHANGED <<link, place, tries, checking, stuck>>

\* The waiting loop.
Wait(f) ==
  /\ \/ idle # <<>> /\ Step(f, "wait", "last")
     \/ idle = <<>> /\ tries[f] < Tries /\ Step(f, "wait", "sleep")
     \/ idle = <<>> /\ tries[f] = Tries /\ Step(f, "wait", "out")
  /\ tries' = IF doing'[f] = "sleep" THEN tries ELSE [tries EXCEPT ![f] = 0]
  /\ Keep /\ UNCHANGED <<link, idle, active, hand, place, checking, stuck>>

\* Faulty: the rounds are not counted.
WakeUncounted(f) ==
  /\ Step(f, "sleep", "wait")
  /\ Keep /\ UNCHANGED <<link, idle, active, hand, place, tries, checking, stuck>>

Wake(f) ==
  /\ Step(f, "sleep", "wait")
  /\ tries' = [tries EXCEPT ![f] = @ + 1]
  /\ Keep /\ UNCHANGED <<link, idle, active, hand, place, checking, stuck>>

\* The last attempt: a null pointer if it comes too late.
LastPop(f) ==
  /\ WriteLock
  /\ \/ idle # <<>> /\ Step(f, "last", "using") /\ TakeFirst(f)
     \/ idle = <<>> /\ Step(f, "last", "out") /\ UNCHANGED <<idle, active, hand>>
  /\ Keep /\ UNCHANGED <<link, place, tries, checking, stuck>>

-----------------------------------------------------------------------------
(* returnConnection()                                                      *)

\* A command of the user fails and sets the context's error.
Break(f) ==
  /\ f \in Clients /\ doing[f] = "using" /\ link[hand[f]] = "open"
  /\ link' = [link EXCEPT ![hand[f]] = "broken"]
  /\ Keep /\ UNCHANGED <<idle, active, doing, hand, place, tries, checking, stuck, running>>

\* std::find() under the read lock.  When the connection is not there the lock
\* is still held as the write lock is asked for.
Find(f) ==
  /\ f \in Clients
  /\ \/ /\ hand[f] \in ToSet(active)
        /\ Step(f, "using", "erase")
        /\ place' = [place EXCEPT ![f] = active]
        /\ UNCHANGED <<hand, stuck>>
     \/ /\ hand[f] \notin ToSet(active)
        /\ Step(f, "using", "out")
        /\ IF link[hand[f]] = "open"
             THEN stuck' = stuck \cup {f} /\ UNCHANGED hand
             ELSE hand' = [hand EXCEPT ![f] = NoLink] /\ UNCHANGED stuck
        /\ UNCHANGED place
  /\ Keep /\ UNCHANGED <<link, idle, active, tries, checking>>

\* What std::find() finds.
IsFirst(s, i, x) == s[i] = x /\ \A j \in 1..(i - 1) : s[j] # x

\* erase() under the write lock: the iterator is good as long as the deque did
\* not change; otherwise it takes out one connection or another.
Erase(f) ==
  /\ WriteLock
  /\ Step(f, "erase", "put")
  /\ \/ active = <<>> /\ UNCHANGED active
     \/ \E i \in DOMAIN active :
          /\ active = place[f] => IsFirst(active, i, hand[f])
          /\ active' = RemoveAt(active, i)
  /\ place' = [place EXCEPT ![f] = <<>>]
  /\ Keep /\ UNCHANGED <<link, idle, hand, tries, checking, stuck>>

\* Back to the idle ones, or dropped.
Put(f) ==
  /\ WriteLock
  /\ Step(f, "put", "out")
  /\ IF link[hand[f]] = "open"
       THEN idle' = Append(idle, hand[f]) /\ UNCHANGED link
       ELSE link' = [link EXCEPT ![hand[f]] = "none"] /\ UNCHANGED idle
  /\ hand' = [hand EXCEPT ![f] = NoLink]
  /\ Keep /\ UNCHANGED <<active, place, tries, checking, stuck>>

-----------------------------------------------------------------------------
(* cleanupIdleConnections()                                                *)

\* All idle connections are taken out, so that nobody uses one meanwhile.
TakeAll ==
  /\ WriteLock
  /\ idle # <<>>
  /\ Step(Cleaner, "out", "ping")
  /\ checking' = [ask |-> idle, healthy |-> <<>>]
  /\ idle' = <<>>
  /\ Keep /\ UNCHANGED <<link, active, hand, place, tries, stuck>>

\* A PING outside the lock; who does not answer is closed.
Ping ==
  LET c == Head(checking.ask)
  IN  /\ checking.ask # <<>>
      /\ Step(Cleaner, "ping", IF Len(checking.ask) = 1 THEN "putback" ELSE "ping")
      /\ \/ /\ link[c] = "open"
            /\ checking' = [ask |-> Tail(checking.ask),
                            healthy |-> Append(checking.healthy, c)]
            /\ UNCHANGED link
         \/ /\ checking' = [checking EXCEPT !.ask = Tail(@)]
            /\ link' = [link EXCEPT ![c] = "none"]
      /\ Keep /\ UNCHANGED <<idle, active, hand, place, tries, stuck>>

\* The healthy ones go back while there is room, the others are closed.
PutBack ==
  LET healthy == checking.healthy
      room == IF setup.max <= Total THEN 0 ELSE Min({setup.max - Total, Len(healthy)})
  IN  /\ WriteLock
      /\ Step(Cleaner, "putback", "fill")
      /\ idle' = idle \o SubSeq(healthy, 1, room)
      /\ link' = [c \in Links |->
                    IF \E i \in room + 1 .. Len(healthy) : healthy[i] = c
                      THEN "none" ELSE link[c]]
      /\ checking' = [ask |-> <<>>, healthy |-> <<>>]
      /\ Keep /\ UNCHANGED <<active, hand, place, tries, stuck>>

\* The loop that keeps up the least number, with the lock given up around each
\* createConnection(); it ends as well when one fails.
Fill ==
  /\ WriteLock
  /\ Step(Cleaner, "fill", IF Len(idle) < setup.min THEN "connect" ELSE "out")
  /\ Keep /\ UNCHANGED <<link, idle, active, hand, place, tries, checking, stuck>>

FillConnect ==
  /\ \/ /\ Step(Cleaner, "connect", "fill")
        /\ Connected
     \/ Step(Cleaner, "connect", "out") /\ UNCHANGED <<link, idle>>
  /\ Keep /\ UNCHANGED <<active, hand, place, tries, checking, stuck>>

-----------------------------------------------------------------------------
GetSteps(f) ==
  \/ Pop(f) \/ Count(f) \/ Connect(f) \/ Second(f) \/ Wait(f) \/ Wake(f) \/ LastPop(f)
ReturnSteps(f) == Find(f) \/ Erase(f) \/ Put(f)
CleanupSteps == Ping \/ PutBack \/ Fill \/ FillConnect

RedisPoolNext ==
  \/ \E f \in Clients : Get(f) \/ GetSteps(f) \/ Break(f) \/ ReturnSteps(f)
  \/ TakeAll \/ CleanupSteps

\* Ready fibers are run in the order in which they became ready, and what they
\* wait for, sleeps, connects and PINGs, ends.  Nobody has to give a connection
\* back.
RedisPoolFairness ==
  /\ \A f \in Clients : SF_poolVars(GetSteps(f) \/ Erase(f) \/ Put(f))
  /\ SF_poolVars(CleanupSteps)

RedisPoolSpec ==
  RedisPoolInit /\ [][RedisPoolNext]_poolVars /\ RedisPoolFairness
-----------------------------------------------------------------------------
(* Properties.                                                             *)

\* Nobody uses a connection that another fiber has, that is idle, or that the
\* cleanup is asking, even when the stale iterator takes the wrong connection
\* out of the active ones (redis_connector.cc:802).
OneUser ==
  \A f \in Clients : hand[f] # NoLink =>
    /\ hand[f] \notin ToSet(idle \o checking.ask \o checking.healthy)
    /\ \A g \in Clients \ {f} : hand[g] # hand[f]

\* To its users the pool behaves as the specification of leases: a connection is
\* handed to somebody when nobody else has it, until it is given back
\* (redis_connector.cc:735, 793).
L == INSTANCE Leases WITH
       Callers <- Clients, Conns <- Links, NoConn <- NoLink,
       lease <- [f \in Clients |-> hand[f]]

LeasesSpec == L!Spec

\* With one thread everybody who asks for a connection gets an answer, whether
\* the others give theirs back or not.
GetReturns ==
  \A f \in Clients :
    setup.threads = 1 /\ doing[f] = "count" ~> doing[f] \in {"using", "out"}
=============================================================================
