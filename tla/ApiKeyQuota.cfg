SPECIFICATION Spec
CONSTANTS
  k1 = k1  h1 = h1  h2 = h2  h3 = h3
  Keys = {k1}
  Requests = {h1, h2, h3}
  Quota <- MCQuota
  MaxCharges = 4
  MaxMonth = 3
SYMMETRY Symmetry
INVARIANTS MonthlyQuotaButForStrays NoPhantomUsage
PROPERTY RevocationHolds
CHECK_DEADLOCK FALSE
