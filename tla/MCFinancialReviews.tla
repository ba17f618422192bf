------------------------ MODULE MCFinancialReviews ------------------------
(* Instances of FinancialReviews for TLC. *)
EXTENDS FinancialReviews, FiniteSetsExt, TLC

CONSTANTS r1, r2, q1, w1, t1, h1, h2

MCWallet == [r \in Financial |-> w1]
MCAmount == [r \in Financial |-> 1]
MCTotal == [S \in SUBSET Financial |-> MapThenSumSet(LAMBDA r : MCAmount[r], S)]

\* t1 executes the action of r1; or r1 and r2 name the same action.
MatchesFirst == [t \in Txs |-> {r1}]
MatchesBoth == [t \in Txs |-> Financial]

On(daily) == [single |-> 1, daily |-> daily, enabled |-> TRUE]
Off == [single |-> 1, daily |-> 2, enabled |-> FALSE]
MCPolicies == {On(1), On(2), Off}
Enabling == {On(2), Off}
AlwaysOn == {On(2)}

Symmetry == Permutations(Handlers)
====
