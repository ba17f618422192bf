SPECIFICATION FairSpec
CONSTANTS
  r1 = r1  v1 = v1
  Reviews = {r1}
  Plans = {v1, v2, elsewhere}
  InScope = {v1, v2}
  Packet <- MCPacket
  Runs = {x1, x2}
  NoRun = NoRun
  Gateways = {g1}
  Direct = Direct
  GrantExpiries = {2}
  Skew = 1
  TokenTTL = 1
  VerifyTimeout = 1
  ClaimTimeout = 1
  PostTimeout = 1
  MaxTime = 3
INVARIANTS ReportsHonest RefusalsKeepApproval RequestsAreTimely
PROPERTIES GatewaysFreed Ledger
CHECK_DEADLOCK FALSE
