------------------------- MODULE MCQuorumProposals -------------------------
(* Instances of QuorumProposals for TLC. *)
EXTENDS QuorumProposals, TLC

CONSTANTS p1, alice, bob, carol, h1, h2

\* alice proposes; bob and carol may both approve, alice is on the list as well.
MCTerms == [p \in Proposals |->
              [proposer |-> alice, min |-> 2, allowed |-> People, distinct |-> FALSE]]
\* The owners: alice and bob share one.
MCDistinct == {<<x, y>> \in People \X People : {x, y} # {alice, bob} /\ x # y}
MCDemands == {[agent |-> alice, min |-> 2, allowed |-> People, distinct |-> FALSE,
               maxAge |-> 3],
              [agent |-> alice, min |-> 1, allowed |-> {carol}, distinct |-> TRUE,
               maxAge |-> 3]}

Symmetry == Permutations(Requests)
====
