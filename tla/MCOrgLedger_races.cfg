CONSTANTS
  r1 = r1  r2 = r2  alice = alice  boss = boss
  Requests = {r1, r2}
  Members = {alice, boss}
  Owner = boss
  MemberOf <- BothAlice
  Playground = {}
  Relayed = {}
  Repairers = {w1}
  InitQuota = 3  InitRemain = 2  MemberLimit <- NoLimits
  Amounts = {1, 2}
  Adjustments <- Cuts
  TTL = 1  Lease = 1
  BeatsOnTime = FALSE
  MaxTime = 3  Horizon = 2  MaxAdmin = 0  MaxFaults = 1
SPECIFICATION Spec
INVARIANTS TypeOK WithinQuota RefundedOnce KeysFree OrgBalances RecordsExplain
PROPERTY ImplementsCharges
