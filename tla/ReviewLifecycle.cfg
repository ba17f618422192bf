SPECIFICATION FairSpec
CONSTANTS
  r1 = r1  r2 = r2  q1 = q1  w1 = w1  t1 = t1  h1 = h1  h2 = h2
  Reviews = {r1, q1}
  Financial = {r1}
  Wallets = {w1}
  Txs = {}
  Handlers = {h1, h2}
  Wallet <- MCWallet
  Amount <- MCAmount
  Matches <- MatchesBoth
  Total <- MCTotal
  Policies <- AlwaysOn
  Lifetimes = {2}
  Outgoing = {0}
  NoTx = NoTx
  NoPolicy = NoPolicy
  TokenTTL = 1
  HistoryAge = 1
  HistoryLead = 0
  SpendWindow = 1
  Retention = 3
  Skew = 1
  LastSubmit = 2
  MaxTime = 5
PROPERTIES Lifecycle UnclaimedHoldsLapse
