------------------------------ MODULE OrgLedger ------------------------------
(***************************************************************************)
(* The organization ledger (service/organization_billing.go).              *)
(*                                                                         *)
(* One organization request moves two books: the organization's used_quota *)
(* and the remain_quota of the token it came in with.  Both move in one    *)
(* database transaction, against a billing session row that is the voucher *)
(* of the request.  Every transaction is one action here, but for the      *)
(* pre-consumption of zero, which takes no lock.  Around them are          *)
(*   - the request (BillingSession): pre-consume, reserve more, settle, or *)
(*     refund in the background; the handler's heartbeat renews the lease; *)
(*   - the repair task: scans for expired sessions, claims each with a     *)
(*     conditional UPDATE, re-reads it and refunds it, in separate steps;  *)
(*   - administrators, who change quota, status, token and members.        *)
(* Failures: a database error or a lost commit reply anywhere, a crash of  *)
(* a request or of the repair task, a late heartbeat.                      *)
(***************************************************************************)
EXTENDS Integers, FiniteSets, Totals

CONSTANTS
  Requests,      \* requests; each has its own idempotency key, so its own session row
  Members,       \* users with a member row in the organization
  Owner,         \* organization.owner_user_id, exempt from the member limit
  MemberOf,      \* the responsible member of each request
  Playground,    \* requests without a token
  Relayed,       \* requests whose handler runs the heartbeat goroutine
  Repairers,     \* nodes that run the repair task
  InitQuota, InitRemain, MemberLimit,
  Amounts,       \* estimates, reserve targets and actual costs
  Adjustments,   \* quota_delta of the platform's adjustments
  TTL, Lease,    \* organizationBillingSessionTTLSeconds, ...RepairLeaseSeconds
  BeatsOnTime,   \* TRUE: the clock waits for a heartbeat that is due and for an open transaction
  MaxTime,       \* bound: the clock stops here
  Horizon,       \* bound: no request takes a lease and nothing fails after this time
  MaxAdmin,      \* bound: administrator steps
  MaxFaults      \* bound: failed calls, lost replies and crashes

ASSUME LedgerConstants ==
  /\ IsFiniteSet(Requests) /\ IsFiniteSet(Members)
  /\ Owner \in Members
  /\ MemberOf \in [Requests -> Members]
  /\ Playground \subseteq Requests
  /\ Relayed \subseteq Requests
  /\ InitQuota \in Nat /\ InitRemain \in Nat
  /\ MemberLimit \in [Members -> Nat]
  /\ Amounts \subseteq Nat
  /\ Adjustments \subseteq Int \ {0}
  /\ TTL \in Nat \ {0} /\ Lease \in Nat \ {0}
  /\ BeatsOnTime \in BOOLEAN
  /\ MaxTime \in Nat /\ Horizon \in Nat /\ MaxAdmin \in Nat /\ MaxFaults \in Nat

VARIABLES
  org,       \* the organization row
  member,    \* the member rows
  token,     \* the organization token all requests use
  sess,      \* the billing session row of each request
  records,   \* the append-only billing records
  direct,    \* what was consumed without a session: per member, and of the token
  req,       \* the BillingSession of each request, in the memory of its handler
  rep,       \* the repair task of each node, in its memory
  now, admin, faults

vars == <<org, member, token, sess, records, direct, req, rep, now, admin, faults>>
books == <<org, member, token, sess, records>>

Unopened == {"none", "uncommitted"}
Open == {"pre_consumed", "failed", "repairing"}
NoSession == [status |-> "none", pre |-> 0, tok |-> 0, unl |-> FALSE,
              tokRefunded |-> FALSE, settled |-> 0, refunded |-> 0, hb |-> 0, exp |-> 0]
NoMemory == [pc |-> "new", pre |-> 0, cached |-> 0, actual |-> 0, beat |-> 0]
NoRepair == [at |-> 0, cand |-> {}, claimed |-> {}, picked |-> {}, failing |-> {}]

Init ==
  /\ org = [quota |-> InitQuota, used |-> 0, count |-> 0, status |-> "active",
            selfDisabled |-> FALSE, platformDisabled |-> FALSE]
  /\ member = [m \in Members |-> [limit |-> MemberLimit[m], used |-> 0, row |-> TRUE]]
  /\ \E unlimited \in BOOLEAN :
       token = [remain |-> InitRemain, used |-> 0, unlimited |-> unlimited, deleted |-> FALSE]
  /\ sess = [r \in Requests |-> NoSession]
  /\ records = {}
  /\ direct = [of |-> [m \in Members |-> 0], tok |-> 0, tokUsed |-> 0]
  /\ req = [r \in Requests |-> NoMemory]
  /\ rep = [w \in Repairers |-> NoRepair]
  /\ now = 1 /\ admin = 0 /\ faults = 0

(***************************************************************************)
(* The statements every transaction is built from.                         *)
(***************************************************************************)
Floor(x) == IF x < 0 THEN 0 ELSE x

\* Faulty variant: any quota left is enough.
OrgAdmitsAnyLeft(delta, requireActive) ==
  /\ requireActive => org.status = "active"
  /\ delta > 0 => org.used < org.quota

\* The WHERE clause of the used_quota update.
OrgAdmits(delta, requireActive) ==
  /\ requireActive => org.status = "active"
  /\ delta > 0 => org.used + delta <= org.quota

MemberAdmits(m, delta) ==
  \/ delta = 0 \/ m = Owner \/ ~member[m].row
  \/ member[m].limit = 0
  \/ member[m].used + delta <= member[m].limit

UseOrg(delta, count) ==
  org' = [org EXCEPT !.used = Floor(@ + delta), !.count = @ + count]

\* Faulty variant: the owner's exemption also skips the counter.
UseMemberNotOwner(m, delta) ==
  member' = IF member[m].row /\ m # Owner
            THEN [member EXCEPT ![m].used = Floor(@ + delta)] ELSE member

UseMember(m, delta) ==
  member' = IF member[m].row THEN [member EXCEPT ![m].used = Floor(@ + delta)] ELSE member

\* Faulty variant: the token's flag of today instead of the session's snapshot.
TakenByCurrentFlag(r, q, unlimited) == IF r \in Playground \/ token.unlimited THEN 0 ELSE q

\* What a decrease really takes from remain_quota under an unlimited snapshot.
Taken(r, q, unlimited) == IF r \in Playground \/ unlimited THEN 0 ELSE q

\* Faulty variant: remain_quota is decreased without the condition on it.
TokenCoversAlways(r, q, unlimited) == TRUE

TokenCovers(r, q, unlimited) == Taken(r, q, unlimited) <= token.remain

\* decreaseTokenQuotaTx for q > 0, increaseTokenQuotaTx for q < 0.
MoveToken(r, q, unlimited) ==
  token' = IF r \in Playground THEN token
           ELSE [token EXCEPT !.remain = @ - Taken(r, q, unlimited),
                              !.used = Floor(@ + q)]

RecordKeyFree(type, r, at) ==
  \A x \in records : ~(x.type = type /\ x.req = r /\ x.at = at)

\* Faulty variant: the record's usage is the difference, not the actual cost.
BookDeltaAsUsage(type, r, at, delta, usage) ==
  records' = records \cup
    {[type |-> type, req |-> r, at |-> at, delta |-> delta, usage |-> delta]}

Book(type, r, at, delta, usage) ==
  records' = records \cup
    {[type |-> type, req |-> r, at |-> at, delta |-> delta, usage |-> usage]}

(***************************************************************************)
(* The ledger's transactions on the session of request r.                  *)
(***************************************************************************)
PreConsumeAdmits(r, amount) ==
  /\ r \in Playground \/ ~token.deleted
  /\ OrgAdmits(amount, TRUE)
  /\ MemberAdmits(MemberOf[r], amount)
  /\ TokenCovers(r, amount, token.unlimited)

NewSession(r, amount, status) ==
  LET unlimited == r \notin Playground /\ token.unlimited
  IN [NoSession EXCEPT !.status = status, !.pre = amount,
        !.tok = Taken(r, amount, unlimited), !.unl = unlimited,
        !.hb = now, !.exp = now + TTL]

\* An amount above zero: the conditional UPDATE locks the organization's row until the
\* commit, so nothing comes between the check and the session.
PreConsumeTx(r, amount) ==
  /\ amount > 0
  /\ sess[r].status = "none"
  /\ PreConsumeAdmits(r, amount)
  /\ sess' = [sess EXCEPT ![r] = NewSession(r, amount, "pre_consumed")]
  /\ UseOrg(amount, 0)
  /\ UseMember(MemberOf[r], amount)
  /\ MoveToken(r, amount, r \notin Playground /\ token.unlimited)
  /\ Book("pre_consume", r, 0, amount, 0)

\* The amount zero: updateOrganizationUsedQuotaTx only reads the organization's status, so
\* the inserted row is not yet visible to others when they dissolve the organization.
PreConsumeZeroTx(r) ==
  /\ sess[r].status = "none"
  /\ PreConsumeAdmits(r, 0)
  /\ sess' = [sess EXCEPT ![r] = NewSession(r, 0, "uncommitted")]
  /\ UNCHANGED <<org, member, token, records>>

CommitZeroTx(r) ==
  /\ sess[r].status = "uncommitted"
  /\ sess' = [sess EXCEPT ![r].status = "pre_consumed"]
  /\ UNCHANGED <<org, member, token, records>>

RollbackZeroTx(r) ==
  /\ sess[r].status = "uncommitted"
  /\ sess' = [sess EXCEPT ![r] = NoSession]
  /\ UNCHANGED <<org, member, token, records>>

ReserveAdmits(r, delta) ==
  /\ OrgAdmits(delta, TRUE)
  /\ TokenCovers(r, delta, sess[r].unl)
  /\ RecordKeyFree("reserve", r, sess[r].pre + delta)

ReserveMoreTx(r, delta) ==
  LET s == sess[r]
  IN /\ s.status \in {"pre_consumed", "failed"}
     /\ ReserveAdmits(r, delta)
     /\ sess' = [sess EXCEPT ![r].pre = @ + delta,
                             ![r].tok = @ + Taken(r, delta, s.unl),
                             ![r].hb = now, ![r].exp = now + TTL]
     /\ UseOrg(delta, 0)
     /\ UseMember(MemberOf[r], delta)
     /\ MoveToken(r, delta, s.unl)
     /\ Book("reserve", r, s.pre + delta, delta, 0)

\* Faulty variant: a refunded session can still be settled.
SettleAdmitsRefunded(r, actual) ==
  LET delta == actual - sess[r].pre
  IN /\ actual >= 0
     /\ sess[r].status \in Open \cup {"refunded"}
     /\ OrgAdmits(delta, delta > 0)
     /\ delta > 0 => TokenCovers(r, delta, sess[r].unl)
     /\ RecordKeyFree("settle", r, 0)

SettleAdmits(r, actual) ==
  LET delta == actual - sess[r].pre
  IN /\ actual >= 0
     /\ sess[r].status \in Open
     /\ OrgAdmits(delta, delta > 0)
     /\ delta > 0 => TokenCovers(r, delta, sess[r].unl)
     /\ RecordKeyFree("settle", r, 0)

SettleTx(r, actual) ==
  LET s == sess[r]
      delta == actual - s.pre
  IN /\ SettleAdmits(r, actual)
     /\ sess' = [sess EXCEPT ![r].status = "settled", ![r].settled = actual,
                             ![r].tok = Floor(@ + Taken(r, delta, s.unl))]
     /\ UseOrg(delta, IF actual > 0 THEN 1 ELSE 0)
     /\ UseMember(MemberOf[r], delta)
     /\ MoveToken(r, delta, s.unl)
     /\ Book("settle", r, 0, delta, actual)

\* Faulty variant: a settled session is refunded by its pre-consumption.
RefundAmountOfPre(s) == Floor(s.pre - s.refunded)

RefundAmount(s) ==
  Floor((IF s.status = "settled" THEN s.settled ELSE s.pre) - s.refunded)

TokenRefund(s) ==
  IF s.tokRefunded THEN 0 ELSE IF s.unl THEN RefundAmount(s) ELSE s.tok

RefundTx(r) ==
  LET s == sess[r]
      amount == RefundAmount(s)
  IN /\ s.status \in Open \cup {"settled"}
     /\ RecordKeyFree("refund", r, 0)
     /\ sess' = [sess EXCEPT ![r].status = "refunded",
                             ![r].refunded = @ + amount,
                             ![r].tok = Floor(@ - Taken(r, TokenRefund(s), s.unl)),
                             ![r].tokRefunded = TRUE]
     /\ UseOrg(-amount, 0)
     /\ UseMember(MemberOf[r], -amount)
     /\ MoveToken(r, -TokenRefund(s), s.unl)
     /\ Book("refund", r, 0, -amount, IF s.status = "settled" THEN -amount ELSE 0)

\* Faulty variant: a second refund returns the organization's part again.
RefundTwice(r) ==
  IF sess[r].status = "refunded"
  THEN UseOrg(-sess[r].pre, 0) /\ UNCHANGED <<member, token, sess, records>>
  ELSE RefundTx(r)

\* RefundWithToken: a session that is already refunded is left alone.
RefundWithToken(r) ==
  IF sess[r].status = "refunded" THEN UNCHANGED books ELSE RefundTx(r)

(***************************************************************************)
(* The request: BillingSession over OrganizationFunding.                   *)
(***************************************************************************)
\* Faulty variant: a heartbeat every TTL.
FullInterval == TTL

Interval == IF TTL \div 2 < 1 THEN 1 ELSE TTL \div 2

\* The handler returned or died: what its BillingSession remembered is gone.
Over(r, pc, actual) == req' = [req EXCEPT ![r] = [NoMemory EXCEPT !.pc = pc, !.actual = actual]]

Running(r) == req[r].pc \in {"active", "ending"}
Fault == faults < MaxFaults /\ now <= Horizon /\ faults' = faults + 1

Begin(r, amount) ==
  req' = [req EXCEPT ![r] = [pc |-> "active", pre |-> amount, cached |-> amount, actual |-> 0,
                             beat |-> IF r \in Relayed THEN now + Interval ELSE 0]]

PreConsume(r, amount) ==
  /\ req[r].pc = "new" /\ now <= Horizon
  /\ PreConsumeTx(r, amount)
  /\ Begin(r, amount)
  /\ UNCHANGED <<direct, rep, now, admin, faults>>

PreConsumeZero(r) ==
  /\ req[r].pc = "new" /\ now <= Horizon /\ 0 \in Amounts
  /\ PreConsumeZeroTx(r)
  /\ req' = [req EXCEPT ![r].pc = "opening"]
  /\ UNCHANGED <<direct, rep, now, admin, faults>>

CommitZero(r) ==
  /\ req[r].pc = "opening"
  /\ CommitZeroTx(r)
  /\ Begin(r, 0)
  /\ UNCHANGED <<direct, rep, now, admin, faults>>

\* The commit fails and the row is rolled back, or only its reply is lost.
CommitZeroFails(r) ==
  /\ req[r].pc = "opening" /\ Fault
  /\ CommitZeroTx(r) \/ RollbackZeroTx(r)
  /\ Over(r, "over", 0)
  /\ UNCHANGED <<direct, rep, now, admin>>

PreConsumeRefused(r, amount) ==
  /\ req[r].pc = "new" /\ now <= Horizon
  /\ ~PreConsumeAdmits(r, amount)
  /\ Over(r, "over", 0)
  /\ UNCHANGED <<books, direct, rep, now, admin, faults>>

\* The commit went through and its reply was lost: the caller sees an error and
\* gives up without a BillingSession, so nobody but the repair task owns the row.
PreConsumeReplyLost(r, amount) ==
  /\ req[r].pc = "new" /\ now <= Horizon /\ Fault
  /\ PreConsumeTx(r, amount)
  /\ Over(r, "over", 0)
  /\ UNCHANGED <<direct, rep, now, admin>>

\* BillingSession.Reserve: the session keeps its own running total req.pre, and a
\* copy req.cached of the row's pre_consumed_quota, which the ledger refreshes.
Reserve(r, target) ==
  LET delta == target - req[r].pre
  IN /\ req[r].pc = "active" /\ now <= Horizon /\ delta > 0
     /\ \/ /\ ReserveMoreTx(r, delta)
           /\ req' = [req EXCEPT ![r].pre = target, ![r].cached = sess[r].pre + delta]
        \/ /\ sess[r].status \in {"repairing", "settled", "refunded"}
           /\ req' = [req EXCEPT ![r].pre = target, ![r].cached = sess[r].pre]
           /\ UNCHANGED books
     /\ UNCHANGED <<direct, rep, now, admin, faults>>

\* A refused reservation fails the request.
ReserveRefused(r, target) ==
  LET delta == target - req[r].pre
  IN /\ req[r].pc = "active" /\ now <= Horizon /\ delta > 0
     /\ sess[r].status \in {"pre_consumed", "failed"}
     /\ ~ReserveAdmits(r, delta)
     /\ req' = [req EXCEPT ![r].pc = "aborting"]
     /\ UNCHANGED <<books, direct, rep, now, admin, faults>>

\* The commit went through and its reply was lost: also an error for the request.
ReserveReplyLost(r, target) ==
  LET delta == target - req[r].pre
  IN /\ req[r].pc = "active" /\ now <= Horizon /\ delta > 0 /\ Fault
     /\ ReserveMoreTx(r, delta)
     /\ req' = [req EXCEPT ![r].pc = "aborting"]
     /\ UNCHANGED <<direct, rep, now, admin>>

\* BillingSession.Settle passes on the difference; SettleWithToken adds it to the
\* cached pre-consumption.
SettleTarget(r, actual) == req[r].cached + (actual - req[r].pre)

Settle(r, actual) ==
  /\ req[r].pc = "active"
  /\ SettleTx(r, SettleTarget(r, actual))
  /\ Over(r, "settled", actual)
  /\ UNCHANGED <<direct, rep, now, admin, faults>>

\* An error of Settle is only logged; the row is left as it is.
SettleFails(r, actual) ==
  /\ req[r].pc = "active"
  /\ ~SettleAdmits(r, SettleTarget(r, actual))
  /\ req' = [req EXCEPT ![r].pc = "ending", ![r].actual = actual]
  /\ UNCHANGED <<books, direct, rep, now, admin, faults>>

SettleReplyLost(r, actual) ==
  /\ req[r].pc = "active" /\ Fault
  /\ SettleTx(r, SettleTarget(r, actual))
  /\ req' = [req EXCEPT ![r].pc = "ending", ![r].actual = actual]
  /\ UNCHANGED <<direct, rep, now, admin>>

\* After a failed settlement the handler either returns normally ...
ReturnUnsettled(r) ==
  /\ req[r].pc = "ending"
  /\ Over(r, "over", 0)
  /\ UNCHANGED <<books, direct, rep, now, admin, faults>>

\* ... or with an error, like a request whose upstream failed: BillingSession.Refund.
Abort(r) ==
  /\ Running(r)
  /\ req' = [req EXCEPT ![r].pc = "aborting"]
  /\ UNCHANGED <<books, direct, rep, now, admin, faults>>

\* Refund returns at once when nothing was pre-consumed (needsRefundLocked); else a
\* background goroutine runs RefundWithToken and only logs an error.
BackgroundRefund(r) ==
  /\ req[r].pc = "aborting"
  /\ IF req[r].pre > 0 THEN RefundWithToken(r) ELSE UNCHANGED books
  /\ Over(r, "over", 0)
  /\ UNCHANGED <<direct, rep, now, admin, faults>>

\* The node dies, or the background refund meets a database error.
RequestDies(r) ==
  /\ Running(r) \/ req[r].pc = "aborting"
  /\ Fault
  /\ Over(r, "over", 0)
  /\ UNCHANGED <<books, direct, rep, now, admin>>

\* The ticker of StartOrganizationBillingSessionHeartbeat: TouchOrganizationBillingSession.
Heartbeat(r) ==
  /\ r \in Relayed /\ Running(r) /\ req[r].beat <= now /\ now <= Horizon
  /\ sess' = IF sess[r].status = "pre_consumed"
             THEN [sess EXCEPT ![r].hb = now, ![r].exp = now + TTL] ELSE sess
  /\ req' = [req EXCEPT ![r].beat = now + Interval]
  /\ UNCHANGED <<org, member, token, records, direct, rep, now, admin, faults>>

(***************************************************************************)
(* The repair task: one pass scans, claims, then re-reads and refunds.     *)
(***************************************************************************)
\* Faulty variant: any row whose expires_at has passed, whatever its status.
ClaimableAnyStatus(s, t) ==
  \/ s.status # "repairing" /\ s.exp > 0 /\ s.exp <= t
  \/ s.status = "repairing" /\ s.hb <= t - Lease

\* Faulty variant: nobody takes over from a repairer that died.
ClaimableNoTakeover(s, t) == s.status \in {"pre_consumed", "failed"} /\ s.exp > 0 /\ s.exp <= t

Claimable(s, t) ==
  \/ s.status \in {"pre_consumed", "failed"} /\ s.exp > 0 /\ s.exp <= t
  \/ s.status = "repairing" /\ s.hb <= t - Lease

Idle(p) == p.cand = {} /\ p.claimed = {} /\ p.picked = {} /\ p.failing = {}

\* The pass goes on as p; when nothing is left in it, it is over.
Pass(w, p) == rep' = [rep EXCEPT ![w] = IF Idle(p) THEN NoRepair ELSE p]

\* One timestamp, taken here, serves every claim of the pass.
RepairScan(w) ==
  LET found == {r \in Requests : Claimable(sess[r], now)}
  IN /\ Idle(rep[w])
     /\ Pass(w, [NoRepair EXCEPT !.at = now, !.cand = found])
     /\ UNCHANGED <<books, direct, req, now, admin, faults>>

\* claimExpiredOrganizationBillingSession: the UPDATE repeats the condition.
RepairClaim(w, r) ==
  /\ r \in rep[w].cand
  /\ IF Claimable(sess[r], rep[w].at)
     THEN /\ sess' = [sess EXCEPT ![r].status = "repairing", ![r].hb = rep[w].at,
                                  ![r].exp = rep[w].at + Lease]
          /\ Pass(w, [rep[w] EXCEPT !.cand = @ \ {r}, !.claimed = @ \cup {r}])
     ELSE /\ Pass(w, [rep[w] EXCEPT !.cand = @ \ {r}])
          /\ UNCHANGED sess
  /\ UNCHANGED <<org, member, token, records, direct, req, now, admin, faults>>

\* RepairOrganizationBillingSessions reads the row again and skips what moved on.
RepairReread(w, r) ==
  /\ rep[w].cand = {} /\ rep[w].picked = {} /\ rep[w].failing = {}
  /\ r \in rep[w].claimed
  /\ Pass(w, [rep[w] EXCEPT !.claimed = @ \ {r},
                             !.picked = IF sess[r].status = "repairing" THEN {r} ELSE {}])
  /\ UNCHANGED <<books, direct, req, now, admin, faults>>

RepairRefund(w, r) ==
  /\ r \in rep[w].picked
  /\ RefundWithToken(r)
  /\ Pass(w, [rep[w] EXCEPT !.picked = {}])
  /\ UNCHANGED <<direct, req, now, admin, faults>>

\* The refund returns an error: it was rolled back, or its reply was lost.
RepairRefundFails(w, r) ==
  /\ r \in rep[w].picked /\ Fault
  /\ RefundWithToken(r) \/ UNCHANGED books
  /\ Pass(w, [rep[w] EXCEPT !.picked = {}, !.failing = {r}])
  /\ UNCHANGED <<direct, req, now, admin>>

\* Faulty variant: the mark does not ask whether the row is still repairing.
RepairMarkFailedBlindly(w, r) ==
  /\ r \in rep[w].failing
  /\ sess' = [sess EXCEPT ![r].status = "failed", ![r].exp = rep[w].at + Lease]
  /\ Pass(w, [rep[w] EXCEPT !.failing = {}])
  /\ UNCHANGED <<org, member, token, records, direct, req, now, admin, faults>>

\* markOrganizationBillingSessionRepairFailed
RepairMarkFailed(w, r) ==
  /\ r \in rep[w].failing
  /\ sess' = IF sess[r].status = "repairing"
             THEN [sess EXCEPT ![r].status = "failed", ![r].exp = rep[w].at + Lease]
             ELSE sess
  /\ Pass(w, [rep[w] EXCEPT !.failing = {}])
  /\ UNCHANGED <<org, member, token, records, direct, req, now, admin, faults>>

\* A crash, or an error of a claim or of the mark: the pass forgets what it claimed.
RepairAbandon(w) ==
  /\ ~Idle(rep[w]) /\ Fault
  /\ rep' = [rep EXCEPT ![w] = NoRepair]
  /\ UNCHANGED <<books, direct, req, now, admin>>

(***************************************************************************)
(* Administrators, sessionless consumption and the clock.                  *)
(***************************************************************************)
AdminStep == admin < MaxAdmin /\ admin' = admin + 1

AdjustQuota(d) ==
  /\ AdminStep
  /\ org.status # "dissolved" /\ org.quota + d >= org.used
  /\ org' = [org EXCEPT !.quota = @ + d]
  /\ UNCHANGED <<member, token, sess, records, direct, req, rep, now, faults>>

\* setOrganizationStatus: the status follows from the disable records that are left.
\* Enabling clears the records of its own source; the platform's also clears the owner's.
SetStatus(source, disable) ==
  LET self == IF source = "self" \/ ~disable THEN disable ELSE org.selfDisabled
      platform == IF source = "platform" THEN disable ELSE org.platformDisabled
  IN /\ AdminStep
     /\ org.status # "dissolved"
     /\ self # org.selfDisabled \/ platform # org.platformDisabled
     /\ org' = [org EXCEPT !.selfDisabled = self, !.platformDisabled = platform,
                           !.status = IF self \/ platform THEN "disabled" ELSE "active"]
     /\ UNCHANGED <<member, token, sess, records, direct, req, rep, now, faults>>

\* Faulty variant: only sessions still pre_consumed block the dissolution.
DissolveOverRepairs ==
  /\ AdminStep
  /\ org.status # "dissolved" /\ \A r \in Requests : sess[r].status # "pre_consumed"
  /\ org' = [org EXCEPT !.status = "dissolved"]
  /\ UNCHANGED <<member, token, sess, records, direct, req, rep, now, faults>>

Dissolve ==
  /\ AdminStep
  /\ org.status # "dissolved" /\ \A r \in Requests : sess[r].status \notin Open
  /\ org' = [org EXCEPT !.status = "dissolved"]
  /\ UNCHANGED <<member, token, sess, records, direct, req, rep, now, faults>>

\* UpdateOrganizationToken writes remain_quota as the form has it, not as a difference;
\* the difference is booked with what did not go through a session.
EditToken(unlimited, remain) ==
  /\ AdminStep
  /\ org.status # "dissolved" /\ ~token.deleted
  /\ token' = [token EXCEPT !.unlimited = unlimited, !.remain = remain]
  /\ direct' = [direct EXCEPT !.tok = @ + token.remain - remain]
  /\ UNCHANGED <<org, member, sess, records, req, rep, now, faults>>

\* DeleteOrganizationToken: a soft delete, which settlement and refund look through.
DeleteToken ==
  /\ AdminStep
  /\ org.status # "dissolved" /\ ~token.deleted
  /\ token' = [token EXCEPT !.deleted = TRUE]
  /\ UNCHANGED <<org, member, sess, records, direct, req, rep, now, faults>>

\* A user who has handed over his keys is deleted: the member row goes, and the ledger
\* skips its counter from then on.
DeleteMemberRow(m) ==
  /\ AdminStep
  /\ member[m].row /\ (m # Owner \/ org.status = "dissolved")
  /\ member' = [member EXCEPT ![m].row = FALSE]
  /\ UNCHANGED <<org, token, sess, records, direct, req, rep, now, faults>>

\* consumeOrganizationAndTokenQuotaWithRequestCount, with the token's current flag;
\* a negative amount gives back (part of) what an earlier one took.
ConsumeDirect(m, q) ==
  LET taken == IF token.unlimited THEN 0 ELSE q
  IN /\ AdminStep
     /\ q # 0 /\ direct.of[m] + q >= 0 /\ direct.tokUsed + q >= 0
     /\ ~token.deleted
     /\ OrgAdmits(q, q > 0)
     /\ q > 0 => taken <= token.remain
     /\ UseOrg(q, IF q > 0 THEN 1 ELSE 0)
     /\ UseMember(m, q)
     /\ token' = [token EXCEPT !.remain = @ - taken, !.used = Floor(@ + q)]
     /\ direct' = [of |-> [direct.of EXCEPT ![m] = @ + q],
                   tok |-> direct.tok + taken, tokUsed |-> direct.tokUsed + q]
     /\ UNCHANGED <<sess, records, req, rep, now, faults>>

Tick ==
  /\ now < MaxTime
  /\ BeatsOnTime => \A r \in Relayed :
       req[r].pc # "opening" /\ (Running(r) => now < req[r].beat)
  /\ now' = now + 1
  /\ UNCHANGED <<books, direct, req, rep, admin, faults>>

RequestStep(r) ==
  \/ \E a \in Amounts : PreConsume(r, a) \/ PreConsumeRefused(r, a) \/ PreConsumeReplyLost(r, a)
  \/ PreConsumeZero(r) \/ CommitZero(r) \/ CommitZeroFails(r)
  \/ \E a \in Amounts : Reserve(r, a) \/ ReserveRefused(r, a) \/ ReserveReplyLost(r, a)
  \/ \E a \in Amounts : Settle(r, a) \/ SettleFails(r, a) \/ SettleReplyLost(r, a)
  \/ ReturnUnsettled(r) \/ Abort(r) \/ BackgroundRefund(r) \/ RequestDies(r)
  \/ Heartbeat(r)

RepairWork(w) ==
  \/ RepairScan(w)
  \/ \E r \in Requests : \/ RepairClaim(w, r) \/ RepairReread(w, r)
                         \/ RepairRefund(w, r) \/ RepairMarkFailed(w, r)

RepairFault(w) == RepairAbandon(w) \/ \E r \in Requests : RepairRefundFails(w, r)

AdminAction ==
  \/ \E d \in Adjustments : AdjustQuota(d)
  \/ \E source \in {"self", "platform"}, disable \in BOOLEAN : SetStatus(source, disable)
  \/ Dissolve \/ DeleteToken
  \/ \E unlimited \in BOOLEAN, remain \in Amounts : EditToken(unlimited, remain)
  \/ \E m \in Members : DeleteMemberRow(m)
  \/ \E m \in Members, a \in Amounts : ConsumeDirect(m, a) \/ ConsumeDirect(m, -a)

Next ==
  \/ \E r \in Requests : RequestStep(r)
  \/ \E w \in Repairers : RepairWork(w) \/ RepairFault(w)
  \/ AdminAction
  \/ Tick

Spec == Init /\ [][Next]_vars

\* The ticker of the repair task and the clock go on; requests and administrators
\* may stop at any point.
FairSpec ==
  /\ Spec
  /\ WF_vars(Tick)
  /\ \A w \in Repairers : WF_vars(RepairWork(w))

(***************************************************************************)
(* Properties.                                                             *)
(***************************************************************************)

\* What the organization still owes for a session.
Hold(s) == IF s.status \in Open THEN s.pre
           ELSE IF s.status = "settled" THEN s.settled ELSE 0

OrgType ==
  [quota : Nat, used : Nat, count : Nat, status : {"active", "disabled", "dissolved"},
   selfDisabled : BOOLEAN, platformDisabled : BOOLEAN]

MemberType == [limit : Nat, used : Nat, row : BOOLEAN]

TokenType == [remain : Nat, used : Nat, unlimited : BOOLEAN, deleted : BOOLEAN]

SessionType ==
  [status : {"none", "uncommitted", "pre_consumed", "failed", "repairing", "settled", "refunded"},
   pre : Nat, tok : Nat, unl : BOOLEAN, tokRefunded : BOOLEAN,
   settled : Nat, refunded : Nat, hb : Nat, exp : Nat]

RecordType ==
  [type : {"pre_consume", "reserve", "settle", "refund"}, req : Requests,
   at : Nat, delta : Int, usage : Int]

RequestType ==
  [pc : {"new", "opening", "active", "ending", "aborting", "settled", "over"},
   pre : Nat, cached : Nat, actual : Nat, beat : Nat]

RepairType ==
  [at : Nat, cand : SUBSET Requests, claimed : SUBSET Requests,
   picked : SUBSET Requests, failing : SUBSET Requests]

BooksType ==
  /\ org \in OrgType
  /\ member \in [Members -> MemberType]
  /\ token \in TokenType
  /\ sess \in [Requests -> SessionType]
  /\ records \subseteq RecordType

MemoryType ==
  /\ direct \in [of : [Members -> Nat], tok : Int, tokUsed : Nat]
  /\ req \in [Requests -> RequestType]
  /\ rep \in [Repairers -> RepairType]
  /\ now \in Nat /\ admin \in Nat /\ faults \in Nat

\* Every row and every piece of memory has its type; in particular no counter of the
\* organization, of a member or of the token, and not the token's balance, is ever
\* negative: the floors and the conditional UPDATEs suffice.
TypeOK == BooksType /\ MemoryType

\* Concurrent pre-consumptions, reservations, settlements and quota cuts never push
\* used_quota past quota: each checks inside its own UPDATE
\* (updateOrganizationUsedQuotaTx, AdjustOrganizationQuota).
WithinQuota == org.used <= org.quota

\* The two books never drift apart: what a session holds on a limited token is what
\* it holds on the organization, whatever the order of reservations, settlement,
\* refund, repair and edits of the token ("otherwise a crash in between leaves the
\* organization charged and the token not").
BooksAgree ==
  \A r \in Requests :
    sess[r].tok = IF r \in Playground \/ sess[r].unl THEN 0 ELSE Hold(sess[r])

\* A refund gives back exactly what the session held, once: an unfinished session has
\* returned nothing, a refunded one the cost it was settled at, or else all it reserved.
RefundedOnce ==
  \A r \in Requests :
    LET s == sess[r]
    IN /\ s.status # "refunded" => s.refunded = 0 /\ ~s.tokRefunded
       /\ s.status = "refunded" =>
            /\ s.refunded = IF RecordKeyFree("settle", r, 0) THEN s.pre ELSE s.settled
            /\ s.tokRefunded

\* The unique record key never stands in the way of finishing a session: no settle or
\* refund row exists while the session is open, exactly the settle row once it is settled.
\* Otherwise the insert would fail, the transaction roll back, and repair retry forever.
KeysFree ==
  \A r \in Requests :
    /\ sess[r].status \in Open \cup Unopened =>
         RecordKeyFree("settle", r, 0) /\ RecordKeyFree("refund", r, 0)
    /\ sess[r].status = "settled" =>
         ~RecordKeyFree("settle", r, 0) /\ RecordKeyFree("refund", r, 0)

\* A dissolved organization is charged for nothing that is still open.  The blocker check
\* of DissolveOrganization and the conditional UPDATE of a pre-consumption exclude each
\* other; a session opened over zero passes between them, but it cannot reserve, so it
\* holds nothing as long as it is open.
DissolvedHoldsNothing ==
  org.status = "dissolved" =>
    \A r \in Requests : sess[r].status \in Open => sess[r].pre = 0

\* What the sessions of the requests in S hold together.
HeldBy(S) == Total([r \in S |-> Hold(sess[r])])

\* used_quota is exactly what the sessions hold plus what was consumed without one;
\* the floor at zero of the refund UPDATE never hides a loss.
OrgBalances == org.used = HeldBy(Requests) + Total(direct.of)

\* The same for each member's used_quota, as long as the member row exists.
MemberBalances ==
  \A m \in Members : member[m].row =>
    member[m].used = HeldBy({r \in Requests : MemberOf[r] = m}) + direct.of[m]

\* The token's balance is short by what sessions hold on it, its used_quota is what they
\* hold on the organization: flipping unlimited_quota in flight moves neither.
TokenBalances ==
  /\ token.remain = InitRemain - Total([r \in Requests |-> sess[r].tok]) - direct.tok
  /\ token.used = HeldBy(Requests \ Playground) + direct.tokUsed

\* What administrators do while sessions are open unbalances neither member nor token.
CountersBalance == MemberBalances /\ TokenBalances

Used(s) == IF s.status = "settled" THEN s.settled ELSE 0
RecordsOf(r) == {x \in records : x.req = r}

\* The append-only records of a session explain what it holds and what it used.
RecordsExplain ==
  \A r \in Requests :
    /\ Net([x \in RecordsOf(r) |-> x.delta]) = Hold(sess[r])
    /\ Net([x \in RecordsOf(r) |-> x.usage]) = Used(sess[r])

Phase(status) ==
  CASE status \in Unopened -> "none"
    [] status \in Open -> "held"
    [] status = "settled" -> "charged"
    [] status = "refunded" -> "released"

ChargeOf ==
  [r \in Requests |->
    [phase |-> Phase(sess[r].status),
     limited |-> sess[r].status \notin Unopened /\ r \notin Playground /\ ~sess[r].unl,
     org |-> Hold(sess[r]), token |-> sess[r].tok]]

\* Every request is one charge that moves both books together and is given back at most
\* once: the sessions implement the abstract charges of module Charge.
Charges == INSTANCE Charge WITH charge <- ChargeOf
ImplementsCharges == Charges!Spec

\* With heartbeats on time the repair task never claims the session of a request that
\* still runs: half the TTL is margin enough.
LiveNeverClaimed ==
  \A r \in Relayed : Running(r) => sess[r].status \notin {"repairing", "failed", "refunded"}

\* A refunded session is final: no late settlement, reservation, heartbeat or repair
\* touches it again.
RefundedIsFinal ==
  [][\A r \in Requests : sess[r].status = "refunded" => sess'[r] = sess[r]]_vars

\* A session left behind by a crash, a lost reply or a failed settlement is settled or
\* refunded in the end, also when repair passes fail or die half way ("rather than
\* leaking").
OrphansReclaimed ==
  \A r \in Requests :
    (sess[r].status \in Open) ~> (sess[r].status \in {"settled", "refunded"})

(***************************************************************************)
(* What the comments and the design document say, and the code does not do. *)
(***************************************************************************)

\* RepairOrganizationBillingSessions re-reads the row "to confirm it is still repairing
\* before acting": so a settlement that has succeeded is never undone by repair.
SettlementKept ==
  [][\A r \in Requests :
       req[r].pc = "settled" /\ sess[r].status = "settled" => sess'[r].status = "settled"]_vars

\* The state machine of the design document: repairing moves to refunded or failed only,
\* failed to repairing or refunded only.
DocumentedTransitions ==
  [][\A r \in Requests :
       /\ sess[r].status = "repairing" => sess'[r].status \in {"repairing", "refunded", "failed"}
       /\ sess[r].status = "failed" => sess'[r].status \in {"failed", "repairing", "refunded"}]_vars

\* SettleWithToken books usage_quota = actual: a settled session carries the actual cost
\* of its request.
SettledAtActual ==
  \A r \in Requests :
    req[r].pc = "settled" /\ sess[r].status = "settled" => sess[r].settled = req[r].actual
=============================================================================
