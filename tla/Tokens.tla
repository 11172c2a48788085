------------------------------- MODULE Tokens -------------------------------
(***************************************************************************)
(* JWTUtil: tokens are issued, verified, exchanged for new ones, and the   *)
(* exchanged ones are kept in a blacklist in Redis and in MySQL.  The      *)
(* servlets issue tokens and read them; verifyToken() and refreshToken()   *)
(* are there for callers to come.                                          *)
(*                                                                         *)
(* A caller is a fiber.  It waits for Redis, and for MySQL, and others go  *)
(* on meanwhile.  Both keep connections in a pool; the code takes one for  *)
(* each access and does not give it back.                                  *)
(***************************************************************************)
EXTENDS Statements, FiniteSets

CONSTANTS
  Callers,
  Jtis,          \* the ids tokens may come to have: they do not collide
  None,
  MaxClock,      \* bound of the clock
  Lifetime,      \* expires_in
  PoolSize       \* connections of each pool that are not in use elsewhere

ASSUME TokensAssumption ==
  {MaxClock, Lifetime, PoolSize} \subseteq Nat /\ None \notin Callers \cup Jtis

VARIABLES
  clock,
  issued,        \* jti -> claims, or None; nick: the claim nickname is not empty
  redisUntil,    \* Redis: until when a key jwt_blacklist:<jti> is there, 0: not
  listed,        \* MySQL: the rows of jwt_blacklist
  pools,         \* connections left in each pool
  step,          \* what each caller does next
  holds,         \* the token it verifies or exchanges
  blind,         \* the stores that could not tell it whether they have the token
  verdict,       \* the result of verifyToken()
  exchanged,     \* history: tokens whose exchange is over, and the stores that
                 \* took them in
  known          \* history: exchanged, when this verification began

tokenVars == <<clock, issued, redisUntil, listed, pools, step, holds, blind,
               verdict, exchanged, known>>

Stores == {"redis", "mysql"}
Steps == {"start", "redis?", "mysql?", "check", "redis!", "mysql!"}

TokensInit ==
  /\ clock = 1
  /\ issued = [j \in Jtis |-> None]
  /\ redisUntil = [j \in Jtis |-> 0]
  /\ listed = {}
  /\ pools = [s \in Stores |-> PoolSize]
  /\ step = [c \in Callers |-> "start"]
  /\ holds = [c \in Callers |-> [jti |-> None, refresh |-> FALSE, took |-> {}]]
  /\ blind = [c \in Callers |-> {}]
  /\ verdict = [c \in Callers |-> "none"]
  /\ exchanged = [j \in Jtis |-> {}]
  /\ known = [c \in Callers |-> {}]

To(c, from, to) == step[c] = from /\ step' = [step EXCEPT ![c] = to]

\* getConnection() of a pool, which is not followed by returnConnection().
Connects(s) ==
  \/ pools[s] > 0 /\ pools' = [pools EXCEPT ![s] = @ - 1]

NoConnection(s) == pools[s] = 0 /\ UNCHANGED pools

-----------------------------------------------------------------------------
\* generateToken(), for a user who may have no nickname.
Issue(nick) ==
  \E j \in Jtis :
    /\ issued[j] = None
    /\ issued' = [issued EXCEPT ![j] = [exp |-> clock + Lifetime, nick |-> nick]]

\* A user registers or logs in.
IssueToken ==
  /\ \E nick \in BOOLEAN : Issue(nick)
  /\ UNCHANGED <<clock, redisUntil, listed, pools, step, holds, blind, verdict,
                 exchanged, known>>

\* verifyToken() or refreshToken() of a token of ours begins.
BeginVerify(c) ==
  /\ To(c, "start", "redis?")
  /\ \E j \in Jtis, refresh \in BOOLEAN :
       /\ issued[j] # None
       /\ holds' = [holds EXCEPT ![c] = [jti |-> j, refresh |-> refresh, took |-> {}]]
       /\ known' = [known EXCEPT ![c] = exchanged[j]]
  /\ blind' = [blind EXCEPT ![c] = {}]
  /\ verdict' = [verdict EXCEPT ![c] = "none"]
  /\ UNCHANGED <<clock, issued, redisUntil, listed, pools, exchanged>>

Refuse(c, from) ==
  /\ To(c, from, "start")
  /\ verdict' = [verdict EXCEPT ![c] = "refused"]

\* In the second in which a key expires it may be there or not.
InRedis(j) == redisUntil[j] >= clock
NotInRedis(j) == redisUntil[j] <= clock

\* isInRedisBlacklist(): EXISTS; no connection and no reply count as no.
AskRedis(c) ==
  /\ step[c] = "redis?"
  /\ \/ /\ Connects("redis") /\ InRedis(holds[c].jti)
        /\ Refuse(c, "redis?") /\ UNCHANGED blind
     \/ /\ Connects("redis") /\ NotInRedis(holds[c].jti)
        /\ To(c, "redis?", "mysql?") /\ UNCHANGED <<blind, verdict>>
     \/ /\ Connects("redis") \/ NoConnection("redis")
        /\ To(c, "redis?", "mysql?")
        /\ blind' = [blind EXCEPT ![c] = @ \cup {"redis"}] /\ UNCHANGED verdict
  /\ UNCHANGED <<clock, issued, redisUntil, listed, holds, exchanged, known>>

\* Faulty: the persistent list is not asked.
SkipMySQL(c) ==
  /\ To(c, "mysql?", "check")
  /\ UNCHANGED <<clock, issued, redisUntil, listed, pools, holds, blind, verdict,
                 exchanged, known>>

\* isInMySQLBlacklist(): any result of the COUNT(*) counts as yes, 0 as well;
\* no connection and no result count as no.
AskMySQL(c) ==
  /\ step[c] = "mysql?"
  /\ \/ Connects("mysql") /\ Refuse(c, "mysql?") /\ UNCHANGED blind
     \/ /\ Connects("mysql") \/ NoConnection("mysql")
        /\ To(c, "mysql?", "check")
        /\ blind' = [blind EXCEPT ![c] = @ \cup {"mysql"}] /\ UNCHANGED verdict
  /\ UNCHANGED <<clock, issued, redisUntil, listed, holds, exchanged, known>>

\* parseToken(), validateTokenStructure(), isExpired() and the signature.
Sound(j) == issued[j].nick /\ clock <= issued[j].exp

\* The rest of verifyToken(); refreshToken() issues the new token at once.
CheckToken(c) ==
  /\ step[c] = "check"
  /\ \/ /\ ~Sound(holds[c].jti)
        /\ Refuse(c, "check") /\ UNCHANGED issued
     \/ /\ Sound(holds[c].jti)
        /\ To(c, "check", IF holds[c].refresh THEN "redis!" ELSE "start")
        /\ verdict' = [verdict EXCEPT ![c] = "accepted"]
        /\ IF holds[c].refresh THEN Issue(issued[holds[c].jti].nick)
                               ELSE UNCHANGED issued
  /\ UNCHANGED <<clock, redisUntil, listed, pools, holds, blind, exchanged, known>>

\* addToRedisBlacklist(): SETEX, which may fail; a token that expires now is
\* not kept.
TellRedis(c) ==
  LET j == holds[c].jti
      ttl == issued[j].exp - clock
  IN  /\ To(c, "redis!", "mysql!")
      /\ \/ /\ Connects("redis") /\ ttl > 0
            /\ redisUntil' = [redisUntil EXCEPT ![j] = issued[j].exp]
            /\ holds' = [holds EXCEPT ![c].took = @ \cup {"redis"}]
         \/ /\ Connects("redis") \/ NoConnection("redis")
            /\ UNCHANGED <<redisUntil, holds>>
      /\ UNCHANGED <<clock, issued, listed, blind, verdict, exchanged, known>>

\* addToMySQLBlacklist(); addToBlacklist() succeeds if one of them does, and
\* refreshToken() does not look.
TellMySQL(c) ==
  LET j == holds[c].jti
  IN  /\ To(c, "mysql!", "start")
      /\ \E o \in InsertOutcomes :
           /\ \/ Connects("mysql")
              \/ ~o.ran /\ NoConnection("mysql")
           /\ listed' = IF o.ran THEN listed \cup {j} ELSE listed
           /\ exchanged' = [exchanged EXCEPT ![j] = @ \cup holds[c].took
                              \cup (IF o.ran THEN {"mysql"} ELSE {})]
      /\ UNCHANGED <<clock, issued, redisUntil, holds, blind, verdict, known>>

TickClock ==
  /\ clock < MaxClock /\ clock' = clock + 1
  /\ UNCHANGED <<issued, redisUntil, listed, pools, step, holds, blind, verdict,
                 exchanged, known>>

TokensNext ==
  \/ IssueToken \/ TickClock
  \/ \E c \in Callers :
       \/ BeginVerify(c) \/ AskRedis(c) \/ AskMySQL(c) \/ CheckToken(c)
       \/ TellRedis(c) \/ TellMySQL(c)

TokensSpec == TokensInit /\ [][TokensNext]_tokenVars
-----------------------------------------------------------------------------
\* A token whose exchange was over when its verification began is accepted
\* only if every store that took it in failed to answer, or gave no connection:
\* the two lists make up for each other.  In its last second, though, it may be
\* gone from Redis and is not expired yet (jwt_util.cc:587).
ExchangedIsRefused ==
  [][\A c \in Callers :
       verdict[c] # "accepted" /\ verdict'[c] = "accepted" =>
         \/ known[c] \subseteq blind[c]
         \/ clock = issued[holds[c].jti].exp]_tokenVars
=============================================================================
