CONSTANTS
  r1 = r1  r2 = r2  alice = alice  boss = boss
  Requests = {r1, r2}
  Members = {alice, boss}
  Owner = boss
  MemberOf <- AliceAndBoss
  Playground = {r2}
  Relayed = {r1}
  Repairers = {w1}
  InitQuota = 3  InitRemain = 2  MemberLimit <- Limits
  Amounts = {0, 2}
  Adjustments <- Cuts
  TTL = 2  Lease = 1
  BeatsOnTime = TRUE
  MaxTime = 4  Horizon = 2  MaxAdmin = 2  MaxFaults = 0
SPECIFICATION Spec
INVARIANTS BooksAgree DissolvedHoldsNothing CountersBalance LiveNeverClaimed
