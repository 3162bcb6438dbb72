-------------------------- MODULE MCPersonalBilling --------------------------
(* Requests of one user: every preference on a limited token, the other tokens *)
(* with one each.                                                              *)
EXTENDS PersonalBilling, TLC

AllKinds ==
  [pref : Prefs, token : {"limited"}]
    \cup {[pref |-> "subscription_first", token |-> "unlimited"],
          [pref |-> "wallet_only", token |-> "playground"]}

Interchangeable == Permutations(Requests)
=============================================================================
