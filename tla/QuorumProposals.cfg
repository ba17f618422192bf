SPECIFICATION Spec
CONSTANTS
  p1 = p1  alice = alice  bob = bob  carol = carol  h1 = h1  h2 = h2
  Proposals = {p1}
  People = {alice, bob, carol}
  Requests = {h1, h2}
  Terms <- MCTerms
  Distinct <- MCDistinct
  Demands <- MCDemands
  Lifetimes = {5}
  Dates = {1}
  LastProposal = 1
  MaxUses = 2
  Second = 2
  MinTTL = 2
  Lag = 1
  MaxOlder = 1
  MaxTime = 6
SYMMETRY Symmetry
INVARIANTS RecordsSound
PROPERTIES UsesAreEndorsed ReplayBounded ClosedForGood
CHECK_DEADLOCK FALSE
