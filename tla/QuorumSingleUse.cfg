SPECIFICATION Spec
CONSTANTS
  p1 = p1  alice = alice  bob = bob  carol = carol  h1 = h1  h2 = h2
  Proposals = {p1}
  People = {alice, bob, carol}
  Requests = {h1, h2}
  Terms <- MCTerms
  Distinct <- MCDistinct
  Demands <- MCDemands
  Lifetimes = {4}
  Dates = {1}
  LastProposal = 1
  MaxUses = 2
  Second = 2
  MinTTL = 2
  Lag = 0
  MaxOlder = 2
  MaxTime = 6
SYMMETRY Symmetry
INVARIANT SingleUse
CHECK_DEADLOCK FALSE
