--------------------------- MODULE MCApiKeyQuota ---------------------------
(* Instances of ApiKeyQuota for TLC. *)
EXTENDS ApiKeyQuota, TLC

CONSTANTS k1, h1, h2, h3

\* One key, of two requests a month.
MCQuota == [k \in Keys |-> 2]
Symmetry == Permutations(Requests)
====
