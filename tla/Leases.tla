------------------------------- MODULE Leases -------------------------------
(***************************************************************************)
(* What a connection pool promises its callers: whoever holds a connection *)
(* holds it alone.  Which connections exist, are idle or are being opened  *)
(* is the pool's business.                                                 *)
(***************************************************************************)
CONSTANTS Callers, Conns, NoConn

VARIABLE lease   \* the connection each caller holds, if any

Init == lease = [k \in Callers |-> NoConn]

Acquire(k) ==
  /\ lease[k] = NoConn
  /\ \E x \in Conns :
       /\ \A other \in Callers : lease[other] # x
       /\ lease' = [lease EXCEPT ![k] = x]

Release(k) ==
  /\ lease[k] # NoConn
  /\ lease' = [lease EXCEPT ![k] = NoConn]

Next == \E k \in Callers : Acquire(k) \/ Release(k)

Spec == Init /\ [][Next]_lease
=============================================================================
