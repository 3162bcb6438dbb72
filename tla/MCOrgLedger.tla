----------------------------- MODULE MCOrgLedger -----------------------------
(***************************************************************************)
(* The organization ledger on small instances, and totals compared with    *)
(* sums that are added up.                                                 *)
(***************************************************************************)
EXTENDS OrgLedger, FiniteSetsExt, TLC

CONSTANTS r1, r2, alice, boss

Two == {r1, r2}
JustAlice == [r \in {r1} |-> alice]
BothAlice == [r \in Two |-> alice]
AliceAndBoss == (r1 :> alice) @@ (r2 :> boss)
Limits == (alice :> 2) @@ (boss :> 1)
NoLimits == (alice :> 0) @@ (boss :> 0)
Cuts == {-2, 1}

\* Counting gives what adding gives.
ASSUME NetIsSum ==
  \A f \in [1 .. 3 -> -2 .. 2] : Net(f) = MapThenSumSet(LAMBDA x : f[x], 1 .. 3)
=============================================================================
