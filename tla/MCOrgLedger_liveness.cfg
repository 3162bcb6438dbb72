CONSTANTS
  r1 = r1  r2 = r2  alice = alice  boss = boss
  Requests = {r1}
  Members = {alice, boss}
  Owner = boss
  MemberOf <- JustAlice
  Playground = {}
  Relayed = {r1}
  Repairers = {w1, w2}
  InitQuota = 3  InitRemain = 2  MemberLimit <- Limits
  Amounts = {0, 1}
  Adjustments <- Cuts
  TTL = 2  Lease = 1
  BeatsOnTime = FALSE
  MaxTime = 6  Horizon = 4  MaxAdmin = 0  MaxFaults = 2
SPECIFICATION FairSpec
PROPERTY OrphansReclaimed RefundedIsFinal
