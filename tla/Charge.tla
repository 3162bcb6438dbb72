-------------------------------- MODULE Charge --------------------------------
(***************************************************************************)
(* What the organization ledger promises for one request: a charge that is *)
(* held, then charged or released.  Both books, the organization's and the *)
(* token's, move by the same amount in the same step, unless the token was *)
(* unlimited or absent when the charge was opened; and what is released is *)
(* all of it, once.                                                        *)
(***************************************************************************)
EXTENDS Naturals

CONSTANT Requests

VARIABLE charge   \* per request: phase, whether a limited token pays too, both holds

NoCharge == [phase |-> "none", limited |-> FALSE, org |-> 0, token |-> 0]

Init == charge = [r \in Requests |-> NoCharge]

\* The charge of r, and no other, moves to this phase, both books with it.
Move(r, phase) ==
  LET c == charge'[r]
  IN /\ charge' = [charge EXCEPT ![r] = c]
     /\ c \in [phase : {phase}, limited : BOOLEAN, org : Nat, token : Nat]
     /\ c.token = IF c.limited THEN c.org ELSE 0

SameToken(r) == charge'[r].limited = charge[r].limited

Open(r) == charge[r].phase = "none" /\ Move(r, "held")

More(r) ==
  /\ charge[r].phase = "held" /\ Move(r, "held") /\ SameToken(r)
  /\ charge'[r].org > charge[r].org

Close(r) == charge[r].phase = "held" /\ Move(r, "charged") /\ SameToken(r)

Release(r) ==
  /\ charge[r].phase \in {"held", "charged"} /\ Move(r, "released") /\ SameToken(r)
  /\ charge'[r].org = 0

Next == \E r \in Requests : Open(r) \/ More(r) \/ Close(r) \/ Release(r)

Spec == Init /\ [][Next]_charge
=============================================================================
