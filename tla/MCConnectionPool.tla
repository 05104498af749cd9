-------------------------- MODULE MCConnectionPool --------------------------
(* Instances of ConnectionPool for TLC. *)
EXTENDS ConnectionPool, TLC

Symmetry == Permutations(Tasks) \cup Permutations(Conns)
             \cup Permutations(Origins)
=============================================================================
