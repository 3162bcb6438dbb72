\* Two requests of one user, one failing call, lost reply or crash, one reset and the end of the subscription.
CONSTANTS
  Requests = {r1, r2}
  Kinds <- AllKinds
  Estimates = {0, 2}
  Actuals = {1, 3}
  InitWallet = 4  InitToken = 3  SubTotal = 3  TrustQuota = 3
  MaxTries = 3  MaxFaults = 1  MaxResets = 1
SPECIFICATION Spec
SYMMETRY Interchangeable
INVARIANTS WalletBalances TokenBalances SubscriptionBalances
CHECK_DEADLOCK FALSE
