SPECIFICATION Spec
CONSTANTS
  acme = acme  beta = beta  buyer = buyer  other = other
  oldKey = oldKey  newKey = newKey  betaKey = betaKey  spareKey = spareKey  kid1 = kid1  kid2 = kid2
  pay = pay  deploy = deploy  shop = shop  bank = bank  USD = USD  EUR = EUR  staging = staging
  Keys = {oldKey, newKey, betaKey, spareKey}
  KeyId <- MCKeyId
  KeyOwner <- MCKeyOwner
  SensitiveActions = {deploy}
  MaxLifetime = 3
  Skew = 1
  MaxDrift = 1
  Nobody = Nobody  NoGrant = NoGrant  NoKey = NoKey  AnyCurrency = AnyCurrency
  NoAudience = NoAudience  Deployment = Deployment
  Calls = {c1}
  Delegations <- MCDelegations
  Intents <- MCIntents
  Authorities <- MCAuthorities
  Environments <- MCEnvironments
  Screens <- MCScreens
  Patience = 1
  MaxGrants = 1
  MaxDeploys = 0
  LastSigning = 1
  LastCall = 2
  MaxTime = 5
INVARIANTS AddressedHere
CHECK_DEADLOCK FALSE
