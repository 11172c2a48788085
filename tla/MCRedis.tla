------------------------------ MODULE MCRedis -------------------------------
(***************************************************************************)
(* The pool and a connection, each for itself: in a behaviour one of the   *)
(* two moves, and the other rests in its first state.                      *)
(***************************************************************************)
EXTENDS RedisPool, RedisSession, TLC

VARIABLE part

\* At least one connection, at most two: as Init() hands them over, and as meant.
MCConfs ==
  [threads : {1}, mode : {"single", "cluster"}, pool_min_size : {1}, pool_max_size : {2}]
MCSetups == [threads : {1, 2}, max : {2}, min : {1}]

RedisInit ==
  /\ part \in {"pool", "session"}
  /\ RedisPoolInit /\ SessionInit
  /\ part = "session" => setup.max = 1 /\ idle = <<>>
RedisNext ==
  /\ \/ part = "pool" /\ RedisPoolNext /\ UNCHANGED sessionVars
     \/ part = "session" /\ SessionNext /\ UNCHANGED poolVars
  /\ UNCHANGED part
RedisSpec == RedisInit /\ [][RedisNext]_<<part, poolVars, sessionVars>> /\ RedisPoolFairness
=============================================================================
