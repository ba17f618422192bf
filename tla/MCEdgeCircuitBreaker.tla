------------------------ MODULE MCEdgeCircuitBreaker ------------------------
(* Instances of EdgeCircuitBreaker for TLC. *)
EXTENDS EdgeCircuitBreaker, TLC

CONSTANTS s1, h1, h2

Symmetry == Permutations(Requests)
====
