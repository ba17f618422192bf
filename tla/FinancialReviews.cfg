SPECIFICATION Spec
CONSTANTS
  r1 = r1  r2 = r2  q1 = q1  w1 = w1  t1 = t1  h1 = h1  h2 = h2
  Reviews = {r1, r2}
  Financial = {r1, r2}
  Wallets = {w1}
  Txs = {t1}
  Handlers = {h1, h2}
  Wallet <- MCWallet
  Amount <- MCAmount
  Matches <- MatchesFirst
  Total <- MCTotal
  Policies <- MCPolicies
  Lifetimes = {2}
  Outgoing = {0}
  NoTx = NoTx
  NoPolicy = NoPolicy
  TokenTTL = 1
  HistoryAge = 1
  HistoryLead = 0
  SpendWindow = 1
  Retention = 2
  Skew = 0
  LastSubmit = 1
  MaxTime = 5
SYMMETRY Symmetry
INVARIANTS TypeOK TablesAgree ExposureWithinLimit
PROPERTIES AdmissionWithinPolicy ClaimsResolveByEvidence PruneSparesExposure
