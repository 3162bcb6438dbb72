--------------------------- MODULE PersonalBilling ---------------------------
(***************************************************************************)
(* Charging a personal request (service/billing_session.go over            *)
(* funding_source.go): the session is opened on the wallet or on the       *)
(* subscription as the user prefers, reserves on the token and then on the *)
(* funding, may reserve more, and is settled or refunded.  Wallet, token   *)
(* and subscription are separate rows and every statement is a step of its *)
(* own, so requests interleave, a call may fail or take effect and report  *)
(* an error, and a gateway may die between any two of them.  The           *)
(* subscription is reset or ended meanwhile.  The balances are the         *)
(* database rows: neither Redis nor batch updates.                         *)
(***************************************************************************)
EXTENDS Integers, FiniteSets, Totals

CONSTANTS Requests,      \* requests of one user with one token
          Kinds,         \* billing preference and token of a request
          Estimates,     \* quotas a request is estimated at
          Actuals,       \* quotas a request turns out to cost
          InitWallet, InitToken,
          SubTotal,      \* the subscription's amount_total, 0 for no limit
          TrustQuota,    \* above it wallet and token are trusted
          MaxTries,      \* attempts of refundWithRetry
          MaxFaults,     \* bound on failing calls and crashes
          MaxResets      \* bound on resets and endings of the subscription

Prefs == {"wallet_only", "subscription_only", "wallet_first", "subscription_first"}

ASSUME PersonalBillingAssumption ==
  /\ IsFiniteSet(Requests)
  /\ Kinds \subseteq [pref : Prefs, token : {"limited", "unlimited", "playground"}]
  /\ Estimates \subseteq Nat /\ Actuals \subseteq Nat
  /\ InitWallet \in Nat /\ InitToken \in Nat /\ SubTotal \in Nat /\ TrustQuota \in Nat
  /\ MaxTries \in Nat \ {0} /\ MaxFaults \in Nat /\ MaxResets \in Nat

VARIABLES wallet,   \* users.quota, negative for a debt
          token,    \* tokens.remain_quota; used_quota moves against it in the same UPDATE
          sub,      \* the user's subscription row
          req,      \* each request: its BillingSession and its pre-consume record
          again,    \* what was given back and will be given back once more
          faults, changes

vars == <<wallet, token, sub, req, again, faults, changes>>

\* A request before its session: pc is the call it makes next.
NewRequest(k) ==
  [kind |-> k, pc |-> "idle", src |-> "none", est |-> 0, rich |-> FALSE,
   trusted |-> FALSE, pre |-> 0, tok |-> 0, extra |-> 0, consumed |-> 0, subPre |-> 0,
   record |-> "none", tries |-> 0, delta |-> 0, actual |-> 0, why |-> "none",
   out |-> "none", hurt |-> FALSE]

Init ==
  /\ wallet = InitWallet /\ token = InitToken
  /\ \E active, strict \in BOOLEAN : sub = [used |-> 0, active |-> active, strict |-> strict]
  /\ \E k \in [Requests -> Kinds] : req = [r \in Requests |-> NewRequest(k[r])]
  /\ again = 0 /\ faults = 0 /\ changes = 0

At(r, pc) == req[r].pc = pc
Becomes(r, q) == req' = [req EXCEPT ![r] = q]
Playground(q) == q.kind.token = "playground"

(***************************************************************************)
(* Opening a session: NewBillingSession.                                   *)
(***************************************************************************)

\* The quota of an untrusted session: a subscription is charged at least 1.
SessionQuota(q) == IF q.src = "subscription" /\ q.est = 0 THEN 1 ELSE q.est

\* A fresh BillingSession on a source: the wallet's balance is read first, the
\* subscription goes straight to the token.
TryWallet(q) == [q EXCEPT !.src = "wallet", !.pc = "wallet", !.tok = 0, !.why = "none"]
TrySubscription(q) ==
  [q EXCEPT !.src = "subscription", !.pc = "token", !.tok = 0, !.why = "none"]

\* An attempt on q.src ended in error: the preference says whether another is made.
NextAttempt(q) ==
  CASE q.why = "insufficient" /\ q.kind.pref = "wallet_first" /\ q.src = "wallet"
         -> TrySubscription(q)
    [] q.why = "insufficient" /\ q.kind.pref = "subscription_first" /\ q.src = "subscription"
         -> [q EXCEPT !.pc = "overflow"]
    [] OTHER -> [q EXCEPT !.pc = "done", !.out = "failed", !.tok = 0]

Begin(r) ==
  /\ At(r, "idle")
  /\ \E e \in Estimates :
       LET q == [req[r] EXCEPT !.est = e,
                   !.rich = req[r].kind.token = "unlimited" \/ token > TrustQuota]
       IN Becomes(r, CASE q.kind.pref = "subscription_only" -> TrySubscription(q)
                       [] q.kind.pref = "subscription_first" -> [q EXCEPT !.pc = "check"]
                       [] OTHER -> TryWallet(q))
  /\ UNCHANGED <<wallet, token, sub, faults, changes, again>>

\* HasActiveUserSubscription.
CheckSubscription(r) ==
  /\ At(r, "check")
  /\ Becomes(r, IF sub.active THEN TrySubscription(req[r])
                ELSE TryWallet(req[r]))
  /\ UNCHANGED <<wallet, token, sub, faults, changes, again>>

\* UserActiveSubscriptionsAllowWalletOverflow.
CheckOverflow(r) ==
  /\ At(r, "overflow")
  /\ Becomes(r, IF sub.active /\ sub.strict
                THEN [req[r] EXCEPT !.pc = "done", !.out = "failed", !.tok = 0]
                ELSE TryWallet(req[r]))
  /\ UNCHANGED <<wallet, token, sub, faults, changes, again>>

\* The balance is read, and both balances above the trust quota skip the reservation.
CheckWallet(r) ==
  LET q == req[r] IN
  /\ At(r, "wallet")
  /\ Becomes(r,
       IF wallet <= 0 \/ wallet < q.est
       THEN NextAttempt([q EXCEPT !.why = "insufficient"])
       ELSE IF q.est = 0 \/ (q.rich /\ wallet > TrustQuota)
       THEN [q EXCEPT !.trusted = q.rich /\ wallet > TrustQuota, !.pc = "open"]
       ELSE [q EXCEPT !.pc = "token"])
  /\ UNCHANGED <<wallet, token, sub, faults, changes, again>>

(***************************************************************************)
(* The token's statements.                                                 *)
(***************************************************************************)

\* TryReserveTokenQuota: a limited token must cover the quota, an unlimited one is
\* booked all the same, and the playground has no token.
TokenCovers(q, n) == q.kind.token # "limited" \/ token >= n
TokenLess(q, n) == IF Playground(q) THEN token ELSE token - n

ReserveToken(r) ==
  LET q == req[r]  n == SessionQuota(q) IN
  /\ At(r, "token")
  /\ IF TokenCovers(q, n)
     THEN /\ token' = TokenLess(q, n)
          /\ Becomes(r, [q EXCEPT !.tok = n, !.pc = "funding"])
     ELSE /\ Becomes(r, NextAttempt([q EXCEPT !.why = "token"]))
          /\ UNCHANGED token
  /\ UNCHANGED <<wallet, sub, faults, changes, again>>

RollbackForgotten(r) ==
  /\ At(r, "rollback")
  /\ Becomes(r, NextAttempt(req[r]))
  /\ UNCHANGED <<wallet, token, sub, faults, changes, again>>

\* The funding refused: the token is given back and the attempt is over.
Rollback(r) ==
  LET q == req[r] IN
  /\ At(r, "rollback")
  /\ token' = TokenLess(q, -q.tok)
  /\ Becomes(r, NextAttempt(q))
  /\ UNCHANGED <<wallet, sub, faults, changes, again>>

(***************************************************************************)
(* The funding's statements.                                               *)
(***************************************************************************)

Refused(q) == [q EXCEPT !.pc = "rollback", !.why = "insufficient"]
Opened(q) == [q EXCEPT !.pc = "open", !.pre = SessionQuota(q)]

ReserveWallet(r) ==
  LET q == req[r] IN
  /\ At(r, "funding") /\ q.src = "wallet"
  /\ IF wallet >= q.est
     THEN /\ wallet' = wallet - q.est
          /\ Becomes(r, Opened([q EXCEPT !.consumed = q.est]))
     ELSE Becomes(r, Refused(q)) /\ UNCHANGED wallet
  /\ UNCHANGED <<token, sub, faults, changes, again>>

\* PreConsumeUserSubscription: the clock decides whether the period is over, then the
\* row is reset in the same transaction; the record of the request makes it repeatable.
PreConsumeSubscription(r) ==
  LET q == req[r]  n == SessionQuota(q) IN
  /\ At(r, "funding") /\ q.src = "subscription"
  /\ \E due \in BOOLEAN :
       LET used == IF due THEN 0 ELSE sub.used IN
       /\ due => sub.active /\ changes < MaxResets
       /\ IF sub.active /\ (SubTotal = 0 \/ SubTotal - used >= n)
          THEN /\ sub' = [sub EXCEPT !.used = used + n]
               /\ changes' = IF due THEN changes + 1 ELSE changes
               /\ Becomes(r, Opened([q EXCEPT !.subPre = n, !.record = "consumed"]))
          ELSE Becomes(r, Refused(q)) /\ UNCHANGED <<sub, changes>>
  /\ UNCHANGED <<wallet, token, faults, again>>

\* PostConsumeUserSubscriptionDelta, floored at zero.
PostConsumed(n) == IF sub.used + n < 0 THEN 0 ELSE sub.used + n

\* Move the funding by n after the session was opened: the wallet may go into debt, the
\* subscription past its total.
MoveFunding(q, n) ==
  IF q.src = "wallet" THEN wallet' = wallet - n /\ UNCHANGED sub
  ELSE sub' = [sub EXCEPT !.used = PostConsumed(n)] /\ UNCHANGED wallet

(***************************************************************************)
(* Reserving more: Reserve.                                                *)
(***************************************************************************)

\* At most once per request, a bound of the model.
Reserve(r) ==
  LET q == req[r] IN
  /\ At(r, "open") /\ ~q.trusted /\ q.extra = 0
  /\ \E target \in Actuals :
       /\ target > q.pre
       /\ Becomes(r, [q EXCEPT !.delta = target - q.pre, !.pc = "moreFunding"])
  /\ UNCHANGED <<wallet, token, sub, faults, changes, again>>

\* funding.consumed of the wallet follows every reservation that was made.
Consumes(q, n) == IF q.src = "wallet" THEN q.consumed + n ELSE q.consumed

ReserveFunding(r) ==
  LET q == req[r] IN
  /\ At(r, "moreFunding")
  /\ MoveFunding(q, q.delta)
  /\ Becomes(r, [q EXCEPT !.consumed = Consumes(q, q.delta), !.pc = "moreToken"])
  /\ UNCHANGED <<token, faults, changes, again>>

ReserveMoreToken(r) ==
  LET q == req[r] IN
  /\ At(r, "moreToken")
  /\ IF TokenCovers(q, q.delta)
     THEN /\ token' = TokenLess(q, q.delta)
          /\ Becomes(r, [q EXCEPT !.pre = @ + q.delta, !.tok = @ + q.delta,
                                  !.extra = @ + q.delta, !.pc = "open"])
     ELSE Becomes(r, [q EXCEPT !.pc = "undo"]) /\ UNCHANGED token
  /\ UNCHANGED <<wallet, sub, faults, changes, again>>

UndoKeepsConsumed(q) == q.consumed
\* funding.consumed after the rollback.
Undone(q) == Consumes(q, -q.delta)

\* rollbackFundingReserve; the caller fails the request on any error of Reserve.
UndoReserve(r) ==
  LET q == req[r] IN
  /\ At(r, "undo")
  /\ MoveFunding(q, -q.delta)
  /\ Becomes(r, [q EXCEPT !.consumed = Undone(q), !.pc = "fail"])
  /\ UNCHANGED <<token, faults, changes, again>>

(***************************************************************************)
(* Settling: Settle moves the funding and then the token.                  *)
(***************************************************************************)

Settled(q) == [q EXCEPT !.pc = "done", !.out = "settled"]

Settle(r) ==
  LET q == req[r] IN
  /\ At(r, "open")
  /\ \E a \in Actuals :
       LET s == [q EXCEPT !.actual = a, !.delta = a - q.pre]
       IN Becomes(r, IF s.delta = 0 THEN Settled(s) ELSE [s EXCEPT !.pc = "settleFunding"])
  /\ UNCHANGED <<wallet, token, sub, faults, changes, again>>

SettleFunding(r) ==
  LET q == req[r] IN
  /\ At(r, "settleFunding")
  /\ MoveFunding(q, q.delta)
  /\ Becomes(r, [q EXCEPT !.pc = "settleToken"])
  /\ UNCHANGED <<token, faults, changes, again>>

SettleToken(r) ==
  LET q == req[r] IN
  /\ At(r, "settleToken")
  /\ token' = TokenLess(q, q.delta)
  /\ Becomes(r, Settled(q))
  /\ UNCHANGED <<wallet, sub, faults, changes, again>>

(***************************************************************************)
(* Refunding: Refund starts a background function, needsRefundLocked says  *)
(* whether there is anything to give back.                                 *)
(***************************************************************************)

NeedsRefund(q) == q.tok > 0 \/ (q.src = "subscription" /\ q.subPre > 0)

\* The request failed upstream, or on its second reservation.
Refund(r) ==
  LET q == req[r] IN
  /\ q.pc \in {"open", "fail"}
  /\ Becomes(r, IF NeedsRefund(q) THEN [q EXCEPT !.pc = "refund"]
                ELSE [q EXCEPT !.pc = "done", !.out = "refunded"])
  /\ UNCHANGED <<wallet, token, sub, faults, changes, again>>

RefundWallet(r) ==
  LET q == req[r] IN
  /\ At(r, "refund") /\ q.src = "wallet"
  /\ wallet' = wallet + q.consumed
  /\ Becomes(r, [q EXCEPT !.pc = "refundToken"])
  /\ UNCHANGED <<token, sub, faults, changes, again>>

\* RefundSubscriptionPreConsume holds the record, gives the amount back in a transaction
\* of its own and only then saves the record as refunded.
RefundSubscription(r) ==
  LET q == req[r] IN
  /\ At(r, "refund") /\ q.src = "subscription" /\ q.record = "consumed"
  /\ MoveFunding(q, -q.subPre)
  /\ Becomes(r, [q EXCEPT !.pc = "refundSave"])
  /\ UNCHANGED <<token, faults, changes, again>>

RefundSave(r) ==
  /\ At(r, "refundSave")
  /\ Becomes(r, [req[r] EXCEPT !.record = "refunded", !.pc = "refundExtra"])
  /\ UNCHANGED <<wallet, token, sub, faults, changes, again>>

ExtraForgotten(q) == 0
\* What Reserve added to a subscription is not in the record and is given back by itself.
ExtraOf(q) == q.extra

RefundExtra(r) ==
  LET q == req[r] IN
  /\ At(r, "refundExtra")
  /\ MoveFunding(q, -ExtraOf(q))
  /\ Becomes(r, [q EXCEPT !.pc = "refundToken"])
  /\ UNCHANGED <<token, faults, changes, again>>

RefundToken(r) ==
  LET q == req[r] IN
  /\ At(r, "refundToken")
  /\ token' = IF q.kind.token = "limited" THEN token + q.tok ELSE token
  /\ Becomes(r, [q EXCEPT !.pc = "done", !.out = "refunded"])
  /\ UNCHANGED <<wallet, sub, faults, changes, again>>

(***************************************************************************)
(* Faults: the statement a request is at fails without effect, or takes    *)
(* effect and the reply is lost; the session cannot tell one from the      *)
(* other.  hurt marks the request for the properties.                      *)
(***************************************************************************)

\* refundWithRetry tries again, up to MaxTries.
Retried(q) ==
  IF q.tries + 1 < MaxTries THEN [q EXCEPT !.tries = @ + 1, !.pc = "refund"]
  ELSE [q EXCEPT !.tries = @ + 1, !.pc = "refundExtra"]

\* What the session does with the error of each statement.
AfterError(q) ==
  CASE q.pc \in {"check", "wallet", "overflow", "token"} -> NextAttempt([q EXCEPT !.why = "error"])
    [] q.pc = "funding" -> [q EXCEPT !.pc = "rollback", !.why = "error"]
    [] q.pc = "rollback" -> NextAttempt(q)
    [] q.pc \in {"moreFunding", "undo"} -> [q EXCEPT !.pc = "fail"]
    [] q.pc = "moreToken" -> [q EXCEPT !.pc = "undo"]
    [] q.pc = "settleFunding" -> [q EXCEPT !.pc = "done", !.out = "unsettled"]
    [] q.pc = "settleToken" -> Settled(q)
    [] q.pc = "refund" /\ q.src = "wallet" -> [q EXCEPT !.pc = "refundToken"]
    [] q.pc = "refundSave" \/ (q.pc = "refund" /\ q.src # "wallet") -> Retried(q)
    [] q.pc = "refundExtra" -> [q EXCEPT !.pc = "refundToken"]
    [] q.pc = "refundToken" -> [q EXCEPT !.pc = "done", !.out = "refunded"]

Calling == {"check", "wallet", "overflow", "token", "funding", "rollback", "moreFunding",
            "moreToken", "undo", "settleFunding", "settleToken", "refund", "refundSave",
            "refundExtra", "refundToken"}

TokenCalls == {"token", "rollback", "moreToken", "settleToken", "refundToken"}

Fault == faults < MaxFaults /\ faults' = faults + 1

Hurt(q) == [q EXCEPT !.hurt = TRUE]

\* The playground's token is not called at all.
CallFails(r) ==
  /\ req[r].pc \in Calling
  /\ Playground(req[r]) => req[r].pc \notin TokenCalls
  /\ Fault /\ Becomes(r, Hurt(AfterError(req[r])))
  /\ UNCHANGED <<wallet, token, sub, changes, again>>

\* PreConsumeUserSubscription reports a failing query as "no active subscription", which
\* the session takes for a refusal.
QueryFails(r) ==
  /\ At(r, "funding") /\ req[r].src = "subscription"
  /\ Fault /\ Becomes(r, Hurt(Refused(req[r])))
  /\ UNCHANGED <<wallet, token, sub, changes, again>>

\* What the statement a request is at takes from the token, negative for what it returns.
TokenMove(q) ==
  CASE q.pc = "token" -> SessionQuota(q)
    [] q.pc \in {"moreToken", "settleToken"} -> q.delta
    [] q.pc \in {"rollback", "refundToken"} -> -q.tok

TokenReplyLost(r) ==
  LET q == req[r] IN
  /\ q.pc \in TokenCalls /\ ~Playground(q)
  /\ q.pc \in {"token", "moreToken"} => TokenCovers(q, TokenMove(q))
  /\ q.pc = "refundToken" => q.kind.token = "limited"
  /\ token' = TokenLess(q, TokenMove(q))
  /\ Fault /\ Becomes(r, Hurt(AfterError(q)))
  /\ UNCHANGED <<wallet, sub, changes, again>>

\* The same of the funding, on the wallet or on the subscription.
FundingMove(q) ==
  CASE q.pc = "funding" -> SessionQuota(q)
    [] q.pc \in {"moreFunding", "settleFunding"} -> q.delta
    [] q.pc = "undo" -> -q.delta
    [] q.pc = "refund" /\ q.src = "wallet" -> -q.consumed
    [] q.pc = "refund" /\ q.src = "subscription" -> -q.subPre
    [] q.pc = "refundExtra" -> -ExtraOf(q)

FundingCovers(q) ==
  IF q.src = "wallet" THEN wallet >= q.est
  ELSE sub.active /\ (SubTotal = 0 \/ SubTotal - sub.used >= SessionQuota(q))

\* The wallet keeps the rollback of a second reservation and the session does not know:
\* funding.consumed stays, so the refund returns that amount again.
PaidAgain(q) == IF q.pc = "undo" /\ q.src = "wallet" THEN q.delta ELSE 0

\* The record of a subscription is in the transaction whose reply is lost.
FundingReplyLost(r) ==
  LET q == req[r] IN
  /\ q.pc \in {"funding", "moreFunding", "undo", "settleFunding", "refund", "refundExtra"}
  /\ q.pc = "funding" => FundingCovers(q)
  /\ q.pc = "refund" /\ q.src = "subscription" => q.record = "consumed"
  /\ MoveFunding(q, FundingMove(q))
  /\ again' = again + PaidAgain(q)
  /\ Fault
  /\ Becomes(r, [Hurt(AfterError(q)) EXCEPT
                  !.record = IF q.pc = "funding" /\ q.src = "subscription" THEN "consumed" ELSE @])
  /\ UNCHANGED <<token, changes>>

\* The retry finds the record refunded and has nothing left to do.
RefundSaveReplyLost(r) ==
  /\ At(r, "refundSave")
  /\ Fault /\ Becomes(r, Hurt([req[r] EXCEPT !.record = "refunded", !.pc = "refundExtra"]))
  /\ UNCHANGED <<wallet, token, sub, changes, again>>

\* The gateway dies: nothing repairs a personal session.
Crash(r) ==
  /\ req[r].pc \notin {"idle", "done", "dead"}
  /\ Fault /\ Becomes(r, Hurt([req[r] EXCEPT !.pc = "dead"]))
  /\ UNCHANGED <<wallet, token, sub, changes, again>>

(***************************************************************************)
(* The subscription's own life.                                            *)
(***************************************************************************)

\* ResetDueSubscriptions at the end of a period, or an administrator's reset.
ResetSubscription ==
  /\ sub.active /\ changes < MaxResets
  /\ sub' = [sub EXCEPT !.used = 0]
  /\ changes' = changes + 1
  /\ UNCHANGED <<wallet, token, req, faults, again>>

\* The subscription expires or is cancelled; its row stays.
EndSubscription ==
  /\ sub.active
  /\ sub' = [sub EXCEPT !.active = FALSE]
  /\ UNCHANGED <<wallet, token, req, faults, changes, again>>

Opening(r) ==
  \/ CheckSubscription(r) \/ CheckOverflow(r) \/ CheckWallet(r) \/ ReserveToken(r)
  \/ ReserveWallet(r) \/ PreConsumeSubscription(r) \/ Rollback(r)
Reserving(r) == ReserveFunding(r) \/ ReserveMoreToken(r) \/ UndoReserve(r)
Closing(r) ==
  \/ SettleFunding(r) \/ SettleToken(r)
  \/ RefundWallet(r) \/ RefundSubscription(r) \/ RefundSave(r)
  \/ RefundExtra(r) \/ RefundToken(r)

Faults(r) ==
  \/ CallFails(r) \/ QueryFails(r)
  \/ TokenReplyLost(r) \/ FundingReplyLost(r) \/ RefundSaveReplyLost(r)
  \/ Crash(r)

Next ==
  \/ \E r \in Requests :
       \/ Begin(r) \/ Opening(r)
       \/ Reserve(r) \/ Reserving(r)
       \/ Settle(r) \/ Refund(r) \/ Closing(r)
       \/ Faults(r)
  \/ ResetSubscription \/ EndSubscription

Spec == Init /\ [][Next]_vars

(***************************************************************************)
(* Properties.                                                             *)
(***************************************************************************)

RequestType ==
  [kind : Kinds, pc : Calling \cup {"idle", "open", "fail", "done", "dead"},
   src : {"none", "wallet", "subscription"}, est : Nat, rich : BOOLEAN, trusted : BOOLEAN,
   pre : Nat, tok : Nat, extra : Nat, consumed : Nat, subPre : Nat,
   record : {"none", "consumed", "refunded"}, tries : Nat, delta : Int, actual : Nat,
   why : {"none", "insufficient", "token", "error"},
   out : {"none", "settled", "unsettled", "refunded", "failed"}, hurt : BOOLEAN]

\* Rows and sessions keep their types: no reservation, and nothing a session means to give
\* back, is ever negative.
TypeOK ==
  /\ wallet \in Int /\ token \in Int
  /\ sub \in [used : Nat, active : BOOLEAN, strict : BOOLEAN]
  /\ req \in [Requests -> RequestType]
  /\ again \in Nat /\ faults \in Nat /\ changes \in Nat

\* No request is between two statements.
AtRest == \A r \in Requests : req[r].pc \in {"idle", "open", "done", "dead"}
Sound == {r \in Requests : ~req[r].hurt}

\* What a request costs its funding at rest: its reservation while it is open, its
\* actual cost once settled, nothing when it failed.
Owes(q) == IF q.pc = "open" THEN q.pre ELSE IF q.out = "settled" THEN q.actual ELSE 0

OwedBy(S) == Total([r \in S |-> Owes(req[r])])
On(src) == {r \in Sound : req[r].src = src}

\* Whatever reservations, fallbacks, rollbacks, settlements and refunds interleave, the
\* wallet is short by exactly what its requests owe; a failing call, a lost reply or a dying
\* gateway may cost the user more, and pays out nothing but the rollback of a second
\* reservation whose reply was lost, once (WalletFunding, rollbackFundingReserve).
WalletBalances ==
  AtRest => LET left == InitWallet - OwedBy(On("wallet"))
            IN /\ wallet <= left + again
               /\ Sound = Requests => wallet = left

\* A limited token follows the funding, whichever source paid in the end; it is never given
\* back more than was taken from it, with whatever replies are lost. (The refund of a request
\* on an unlimited token returns nothing although the reservation was booked.)
TokenKeeps(q) == IF Playground(q) THEN 0 ELSE Owes(q)
TokenBalances ==
  AtRest /\ (\A r \in Requests : req[r].kind.token # "unlimited") =>
    LET left == InitToken - Total([r \in Sound |-> TokenKeeps(req[r])])
    IN token <= left /\ (Sound = Requests => token = left)

\* Until a reset amount_used is exactly what the requests owe, the second reservation
\* included; a refund or settlement after a reset never leaves more than that, and less
\* than nothing at no time.
SubscriptionBalances ==
  /\ sub.used >= 0
  /\ AtRest /\ Sound = Requests =>
       /\ sub.used <= OwedBy(On("subscription"))
       /\ changes = 0 => sub.used = OwedBy(On("subscription"))
=============================================================================
