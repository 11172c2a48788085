----------------------------- MODULE MCMySQLPool ----------------------------
(* Instances of MySQLPool for TLC.                                         *)
EXTENDS MySQLPool, TLC

Symmetry == Permutations(Callers) \cup Permutations(Conns)
=============================================================================
