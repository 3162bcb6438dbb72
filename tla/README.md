# TLA+ models of cuberouter

cuberouter is an LLM gateway: it relays requests to model providers, meters them, and
charges them to a user's wallet, a subscription or an organization. Several nodes share
one SQL database and one Redis, and a web console in TypeScript talks to them. What is hard
about it is not the relaying but the money and the sessions around it: each charge, each
login and each image job is moved by several statements of several actors, any of which
may be late, repeated, or cut off by a crash. This project models those parts.

Contents: [inventory](#1-inventory) · [modules](#2-modules-and-plan)
· [organization ledger](#3-the-organization-ledger) · [system tasks](#4-system-task-leases)
· [personal billing](#5-personal-billing) · [asynchronous tasks](#6-asynchronous-tasks)
· [login sessions](#7-login-sessions) · [image studio](#8-image-studio) · [proofs](#9-proofs)
· [disagreements](#10-where-code-and-words-differ) · [limits](#11-what-is-not-modelled)

Paths below are relative to the repository (`src/`).

## 1. Inventory

| Component | State it keeps | Operations | Hard part | What makes it correct |
|---|---|---|---|---|
| Organization ledger (`service/organization_billing.go`, `organization_member_quota.go`, `model/organization_foundation.go`) | organization row (quota, used_quota, status), member rows, token row, one billing session per request, append-only records | pre-consume, reserve more, settle, refund, direct consumption | two books and three counters per charge; concurrent requests; lost commit replies | quota never exceeded, books agree, a refund happens once, counters explained by sessions |
| Repair task (`organization_billing.go:850-1030`, `organization_billing_repair_task.go`) | the batch in memory, claim = status `repairing` + heartbeat | scan, claim, re-read, refund, mark failed | steps in separate transactions; several repairers; dies anywhere | every orphan is reclaimed, nothing finished is touched |
| Heartbeat (`organization_billing_heartbeat.go`) | `last_heartbeat_at`, `expires_at` | renew every half TTL | races the repair scan | a live request is not refunded |
| Billing session (`billing_session.go`, `funding_source.go`) | cached reservation of one request, settled/refunded flags | preConsume, Reserve, Settle, Refund | wallet, subscription and token move in separate statements; fallback between sources | charge = actual cost, once |
| Subscriptions (`model/subscription.go`) | amount_used, period, pre-consume records | pre-consume, delta, refund, reset, expire | reset between a charge and its refund | usage = what the period's requests owe |
| Organization administration (`organization.go`, `organization_token.go`) | status, disable records, quota, token | adjust, disable/enable, dissolve, edit/delete token | while requests are in flight | ledger survives each of them |
| System task leases (`model/system_task.go`, `service/system_task.go`) | task rows with a unique `active_key`, one lock row per type | create, claim, start, heartbeat, finish, stale-lock pass | a lease in four unrelated statements, on every master node | executed once, never stuck |
| Asynchronous tasks (`controller/relay.go`, `task_polling.go`, `task_billing.go`, `async_billing.go`, `relay/relay_task.go`) | task status and quota | submit, poll, compare-and-set, timeout sweep, settle or refund on completion | two pollers, the sweep, the submission and the caller's queries; money after the status | one outcome, billed for what it is worth |
| Login sessions (`service/auth_session.go`, `model/user_session.go`) | session row, current and previous refresh digest, replay window | issue, rotate, revoke | concurrent rotation, replay, revocation during rotation | one live refresh token, no revival |
| Console authentication (`web/src/lib/auth-session.ts`, `auth-session-sync.ts`, `http-client.ts`, route guards, sign-out dialog) | access token and epoch of each tab, shared cookie, web lock, events between tabs | refresh, retry, guard, sign in, sign out, reload | answers after sign-out, joined and superseded refreshes, missed events | a signed-out session stays out, nobody waits for ever |
| Image studio queue (`service/studioqueue`, `controller/studio_image_*.go`, `model/studio_image.go`) | jobs, slots and bytes in RAM of a gateway, leases in the database | admit, dispatch, execute, commit, cancel, expire, acknowledge | work outside the lock; two gateways; restart; a relay of unknown outcome | one job per account and per GPU within their leases, cancelled is not billed, room is returned |
| Image studio browser (`web/src/features/media-studio`) | pending record and history in IndexedDB, state of each tab | generate, poll, save, acknowledge, cancel, resume, discard | lost answers, two tabs, reload between two awaits | no billed image is lost, nothing cancelled is kept |
| Quota cache and batch update (`model/quota_reserve.go`) | Redis counters, pending batch, database | reserve, persist, compensate, hydrate, flush | three stores without a transaction | cache and database converge |
| Top-up, redemption, campaigns; membership and invitations | order, code and invitation rows | complete, redeem, join | redelivery | credited once, under one row lock |
| Rate limits, channel selection, converters, payment gateways, console pages | — | — | data transformation and I/O | not modelled |

Interactions: a relay handler creates a *billing session*, which calls the *ledger* (for an
organization) or *funding* and *token quota* (for a user); the *heartbeat* goroutine of the
handler and the *repair task* of the master nodes meet the handler only in the session row.
*System tasks* run the pollers of *asynchronous tasks*, which settle or refund what the
submission has charged. Administrators write the rows the ledger reads. The *console* holds
a *login session* in each tab; its *image studio* submits jobs to the *queue* of a gateway,
which relays them to a GPU worker. Shared state is in the database; a node's and a tab's
memory hold what they last read.

`PROJECT.json` lists the hazards of this code, each at its line, with the properties that
would catch it; a hazard without a property says why.

## 2. Modules and plan

| Module | Contents | State |
|---|---|---|
| `OrgLedger`, `Charge` | ledger, billing session, repair, heartbeat, administration; `Charge` is what it promises | checked, proved |
| `SystemTask` | task rows, lease, runner loop, handlers | checked, proved |
| `PersonalBilling` | wallet, subscription and token under one billing session | checked, proved |
| `AsyncTask` | submission, polling, sweep, completion billing, on a wallet or a ledger session | checked, proved |
| `AuthSession` | refresh rotation of the server composed with the tabs of a browser | checked, proved |
| `StudioJob` | what the queue promises about a job | refined and used |
| `StudioQueue` | gateways, dispatcher, executions, leases; implements `StudioJob` | checked, proved |
| `StudioBrowser` | tabs and IndexedDB, built on `StudioJob` | checked, proved |
| `Totals` | sums of a function's values, by counting | used, proved |

`MC...` modules hold the instances, `...Proofs` modules the theorems (section 9). `StudioJob` composes the two halves of the studio: the
queue is shown to implement it, the browser is checked against it.

Left of the plan: a model of the Redis quota cache, once its intended bound is written
down, and more of the components marked `partly` in `PROJECT.json`.

## 3. The organization ledger

Modules `OrgLedger` (state, actions, properties), `Charge` (abstract), `Totals` (the sums in
the balances), `MCOrgLedger` (instances, and counting compared with adding).

**State.** `org`, `member`, `token`, `sess`, `records` are the rows. All requests use one
token: what matters is that they compete for it. A session keeps reserved (`pre`), deducted
from the token (`tok`), the unlimited flag at pre-consumption (`unl`), settled and refunded
amounts, heartbeat and expiry. `req[r]` is the `BillingSession` in the handler's memory: its
own reserved total (`pre`), the total of the row it last saw (`cached`), and its stage.
`rep[w]` is the batch of a repair pass. `direct` only accumulates what is consumed without a
session, so that balances can be stated.

**Actions.** One per transaction: `PreConsume`, `Reserve`, `Settle`, `BackgroundRefund`,
`Heartbeat`, `RepairClaim`, `RepairReread`, `RepairRefund`, `RepairMarkFailed`,
`ConsumeDirect`, and the administrators'. The guards are the WHERE clauses and early
returns; a failing guard has an action of its own where the handler goes on differently
(`PreConsumeRefused`, `ReserveRefused`, `SettleFails`). A `...ReplyLost` action commits and
lets the handler believe it failed. `RequestDies` and `RepairAbandon` are crashes. The steps
of a repair pass are separate because the code's transactions are. A pre-consumption of zero
is two steps, `PreConsumeZero` and `CommitZero`: `updateOrganizationUsedQuotaTx` only reads
the organization's status then, without an UPDATE or a lock, so that other transactions
commit in between and do not see the row (`uncommitted`).

**Runs.** All runs let two or three of everything meet; more requests add no new pair of
actors, and the invariants are proved for any number anyway.

| Run | Bounds | Shows |
|---|---|---|
| `races` | 2 requests of one member, 1 repairer, amounts 1–2, quota 3, token 2, 1 fault, time 3 | `TypeOK`, `WithinQuota`, `RefundedOnce`, `KeysFree`, `OrgBalances` (used_quota is exactly what the sessions hold), `RecordsExplain` (the records add up to it), `ImplementsCharges` |
| `admin` | 2 requests (member and owner, one in the playground, one relayed with beats on time), amounts 0 and 2, 2 administrator steps, TTL 2, beats until time 2, clock to 4 | `BooksAgree`, `CountersBalance` (member and token) while quota, status, token and member row change under open sessions; `DissolvedHoldsNothing`: dissolution and a charge exclude each other, and the session over zero that may slip in stays empty; `LiveNeverClaimed`: half the TTL is margin enough when beats are on time |
| `liveness` | 1 request, amounts 0 and 1, 2 repairers, 2 faults until time 4, clock to 6 | `OrphansReclaimed`; `RefundedIsFinal` when a claim expires and is taken over |

The quota (3) and token (2) are smaller than what two requests of up to 2 can ask for, so
refusals happen; `races` sets no member limit, so that the organization's quota is what
refuses, the other runs a limit of 2, which refuses on its own. TTL and lease are one or two ticks,
so that expiry happens within the bound on the clock. `Horizon` stops new leases and faults
before the clock stops: after it the leases still expire, which is what liveness needs. In
`admin` the first beat is due at time 2, within the horizon, and the lease it renews would
have expired at 3, within the clock: the repair pass meets renewed and unrenewed sessions.

**Fairness.** `WF(Tick)` and, for each repairer, `WF(RepairWork)`: the repair task is a
ticker that runs as long as its node is up and is started again with it. Requests and
administrators have none. Faults are bounded, so the assumption is that some pass
eventually meets no error.

## 4. System task leases

Modules `SystemTask`, `MCSystemTask`. One task type; types share no row.

**State.** `task` (status, active_key, locked_by, updated_at), `lock` (the lease row),
`loop[w]` (stage and local variables of the runner loop of a node), `run[i][w]` (the
goroutine of a claimed task), `asked` (administrators between their look and their insert).

**Actions.** Each database call of the loop is an action, because no two share a
transaction: `StaleRead`, `StaleMark`, `StaleDelete`; `Schedule`, `Create`; `ClaimFind`,
`ClaimRead`, `ClaimInsert`, `ClaimLook`, `ClaimTake`, `ClaimMark`, `ClaimStart`,
`ClaimRelease`. A handler heartbeats, writes progress, finishes (`Finish`, then
`FinishRelease`). Each may fail, with or without its effect. The two throttles of the
loop are covered by the arbitrary time between steps. `now` and `lockUntil` of a claim are
read at the same instant as the row.

Claims and passes may pause for any time between two statements. A claim that pauses for
longer than the lease it asked for (60 s), or whose UPDATE was done although an error was
reported, starts a task whose lock is lost or given back; `adrift` remembers these tasks, and
`RunningIsLocked` and `RunsEnd` speak of all others.

**Runs.**

| Run | Bounds | Shows |
|---|---|---|
| `task_races` | 2 nodes, 1 administrator, 2 rows (one may be a row without `active_key`, as the tests construct), claims of any length, 1 failing call | `TypeOK`, `ExecutedOnce`, `OneActive`, `FinishedIsFinal` |
| `task_liveness` | 2 nodes, 1 crash, claims of any length, 1 failing call or lost reply, fair | `RunningIsLocked`, `RunsEnd`, `PendingStarts` |

Two rows suffice for a stale run and its successor; TTL 1 lets a lease expire, be taken
over and expire again within the clock's bound. After `Horizon` nothing is created or
renewed and nobody crashes, so that leases run out.

**Fairness.** `WF(LoopStep(w))`: the loop is a ticker in a goroutine; a node that is down
has no enabled step. `WF(HandlerEnds(i, w))`: `SystemTaskHandler.Run` "MUST call
model.FinishSystemTask (succeeded/failed) before returning and MUST honor ctx
cancellation". `WF(Tick)`.

## 5. Personal billing

Module `PersonalBilling`. Requests of one user with one token; `wallet`, `token` and `sub`
are the three rows, `req[r]` the `BillingSession` of a request with the fields of the Go
struct (`pre`, `tok`, `extra`, `consumed`, `trusted`), its pre-consume record, and `pc`, the
statement it makes next. `kind` fixes the billing preference and whether the token is
limited, unlimited or the playground's.

Each statement is an action: `CheckWallet`, `ReserveToken`, `ReserveWallet` or
`PreConsumeSubscription`, `Rollback` when the funding refuses (`NextAttempt` then decides on
the other source), `ReserveFunding`, `ReserveMoreToken` and `UndoReserve`, `SettleFunding`
and `SettleToken`, and the steps of the background refund. `CallFails` makes the statement
at `pc` fail without effect and continues as the code does (`AfterError`); `TokenReplyLost`,
`FundingReplyLost` and `RefundSaveReplyLost` continue alike, but the statement was done;
`QueryFails` is the error that `PreConsumeUserSubscription` reports as "no active
subscription", so that the wallet is tried. `Crash` ends the request anywhere. `again` adds up
the wallet rollbacks that were done and not noticed, which the refund pays once more.
`RefundSubscriptionPreConsume` is two steps because the function it calls inside its
transaction opens one of its own.

Run `personal_races`: 2 requests of every preference and token, estimates 0 and 2, costs 1
and 3, wallet 4, token and subscription 3, one failing call, lost reply or crash, one reset
and an expiry. Estimates and costs exceed what wallet, token or subscription can bear together, so
every refusal and fallback occurs; both wallet and token may lie above the trust quota.
`WalletBalances`, `TokenBalances` and `SubscriptionBalances` compare the rows, whenever no
request is between two statements, with what the requests owe: exactly, or never in the
payer's favour when a call has failed (but for `again`). `TokenBalances` is about limited
tokens; what happens to unlimited ones contradicts a comment (section 10). A second reset would add nothing, since the first
already separates the usage of the row from that of the requests.

## 6. Asynchronous tasks

Module `AsyncTask`. `sub[t]` is the submitting request, `job[t]` the provider's job
(external), `row[t]` the tasks row, `held[t]` what the payer has given, `sess[t]` the ledger
session's status, `node[n]` the pass of a node with the copies it read, `get[t]` a query of
the caller. The ledger session is reduced to the three transactions that the task code
uses; their guards are those of `organization_billing.go`, which `OrgLedger` has in full.

A pass reads the rows (`StartSweep`, `StartPoll`), asks the provider (`Fetch`), writes the
row by compare-and-set (`FailAndRefund`, `Apply`) and, if it won, adjusts the charge
(`Bill`) and then the row's quota (`WriteQuota`); in between other nodes, the submission's
`Settle` and queries go on. Several nodes may poll at once because a pass outlives a lost
lease of its system task. The poll-failure counter is left open (any bad answer may be the
last): `TASK_POLL_MAX_FAILURES` is configuration and may be off. `row.full` is a progress of
"100%", which the queries of passes and sweep leave out, and which an adaptor may report of a
job that still runs. `job.metered` says that the completion computes an actual quota, which
may be zero; otherwise a success keeps its price.

Run `async_races`: one task of every kind, two nodes, price 2, usage 0, 1 or 3, one crash, failing
call, lost reply or query. Tasks share nothing but the pass that visits them, so one task
and two passes meet in every way. `PaidForOutcome`, `NeverPaysOut`, `EndedIsFinal`,
`TaskEnds` (a task ends, or stands at 100% unfinished for good). Fairness: `WF(PassWork)`, as the runner starts a pass every 15 seconds while a
task is unfinished, and `WF(TimesOut)`, as `TASK_TIMEOUT_MINUTES` is a day by default;
switched off, a task that a provider reports as running for ever is polled for ever.

Run `async_organization` ends in the violation of section 10.

## 7. Login sessions

Module `AuthSession`. The server's rows, the cookie jar, the memory of each tab (access
token, epoch, refresh under way, guard, refused call, sign-out), undelivered events and the
requests of pages that are gone. A refresh token is a session and a generation, because the
server derives the successor of a secret from the secret: a replay within the window gets
the same successor.

One action per arrival: the server handles a request, the tab handles the answer, the
guard decides. `LockModes` covers browsers without `navigator.locks`. `Environment` is what
users, clocks and networks do, `MaxInputs` times in all.

Run `auth_tabs`: two tabs, two sessions. The tabs share a session and two inputs are to
come (`SignedIn`), or each tab is about to receive the answer to a login of its own and one
is to come (`SigningIn`). Two tabs race for a rotation; one input takes a session away, the
second loses an answer, closes the window or reloads; of two logins the second leaves the
first tab with a session that is not the cookie's, whose sign-out must recover.
`SignedOutStaysOut`, `ReuseOnlyAfterLoss`, `GuardsDecide`, `RevokedLeaves`. Fairness
(`TabStep`) is weak for each tab as a whole: a tab that has something to do, or waits for an
answer, goes on. That a page asks the server anything (`RefusedCall`) is not assumed: a few
pages poll, the console does not in general (`main.tsx` switches `refetchOnWindowFocus` off).
Nothing is assumed of the order in which a tab's requests, events and guards go on.

`RevokedLeaves` is about the pages of the console, and says that a tab leaves the session
that was revoked or sends no request any more: an idle tab keeps showing the console, and
one whose refresh is lost leaves with a later request. A tab at the sign-in page may keep a
revoked session: a request repeated while the tab signs out can refresh into the session
another tab has just opened, and the sign-in page sends nothing that would be refused.

Reduced: the account context store, the session hint that lets public pages skip a
refresh, and `applyAuthRotation` change what is shown, not who is signed in. The 409 race
answer of the server cannot occur with derived successors; its retry is in the model.

## 8. Image studio

`StudioQueue` has, per gateway, the entries, `order`, `bytes` and `running` of `Queue`; per
job its `execute` goroutine; and the shared leases of accounts and GPUs. Everything between
two acquisitions of the lock is a step: a pass of `Tick` that reserves a worker, the relay,
the commitment, the releases. `tick.todo` are the entries a pass has yet to visit, in the order
of the queue (`NotBehind`). Time is countdowns, and `StudioDurations` states the one relation
between them that is needed: the account's lease (16 minutes) is longer than the wait (15).
An execution may take any time: its context ends after 11 minutes, but the relay's request
is built without it, waits half an hour for the header and without limit for the body. It may
therefore outlast both leases. `late` in `StudioJob` is a running job whose account lease has
run out. `work[x]` are the executions a worker may be busy with, which a gateway cannot see;
`exec.heard` says that an answer below 500 came in time, which the code takes for proof that
the worker is idle, and which it need not be (`RelayRefused`).

`StudioBrowser` has the generation and cancellation mutation of each tab, the pending record
and the history. Each `await` is a step; a POST may be handled after its tab gave up. A save
cuts the history to its limits in the same transaction, the image just put included (`Keep`);
`cut` are the images the history held and gave up, to its limits or to the user's `Delete`.

| Run | Bounds | Shows |
|---|---|---|
| `queue_races` | 2 gateways, 2 jobs of one or two accounts, 1 GPU, room for 1 running and 1 waiting, bytes for both, leases 2, wait 1, 1 restart | `Accounted`, `GpuExclusive`, `CancelNeverBilled`, `Implements` |
| `queue_liveness` | 1 gateway, the rest alike, fair | `AdmissionEnds` |
| `browser_tabs` | 2 tabs, 2 jobs, 3 inputs, 2 faults | `Recoverable`, `ReleasedIsSaved`, `SavedIsBilled`, `GenerationEnds` |

Two jobs compete for the account, the worker and the slot; bytes (6, of which a job takes 3
until it ends) hold one running and one waiting job of a gateway. Leases of two units let an
execution end within them, outlast its deadline or outlast them. `GpuExclusive` speaks of
executions within their lease that nobody has answered for, `Implements` of one job per account
that waits or runs within its lease.

Fairness of the queue: dispatcher and goroutines run, and the clock advances (strongly, since
other steps may pre-empt it). Nothing is assumed of a worker or of a relay in flight:
`AdmissionEnds` says that a job ends and gives everything back, or hangs in its relay for
ever. Of the browser: promises settle, and the server starts what it admitted and ends what
came back, which is `AdmissionEnds`; `GenerationEnds` excepts the job whose relay hangs.

Reduced: audit rows, the validation semaphore, the limit of 1024 entries, and a panic after
the commitment. A POST prepared before a restart may be admitted or refused by the new
epoch; the model allows both.

## 9. Proofs

Every safety property of every passing run is a theorem, checked by TLAPS, for every value
of the constants: any number of requests, nodes, tabs, jobs, faults and inputs. The
assumptions are those the modules name: `LedgerConstants`, `TaskConstants`,
`PersonalBillingAssumption`, `AsyncAssumption`, `AuthAssumption`, `StudioConstants`,
`StudioDurations`, `BrowserConstants`. They say that sets are finite, amounts and times are
numbers, a null is no value, for the queue that a job stops waiting before its account's lease ends, and for the browser that
its tabs belong to one account. TLC evaluates them on each run. Two theorems have hypotheses of
their own, named below.

Each module `M` has its proofs in `MProofs`, laid out alike: the inductive invariant, one
lemma per action (and below it one step per part of the invariant the action can disturb),
and the theorems at the end.

**Sums.** `OrgBalances`, the balances of personal billing and the budgets of the queue are
sums over sets of unknown size, and a recursive sum would need an induction the prover does
not do. `Totals` therefore counts: `Total(f)` is the number of pairs `<<x, i>>` with
`i \in 1 .. f[x]`. What a change of one value does to a total is then a fact about finite
cardinalities, proved once in `TotalsProofs`. TLC compares counting with adding
(`NetIsSum` in `MCOrgLedger`).

**Ledger** (`OrgLedgerProofs`). `LedgerInv` is `TypeOK`, `WithinQuota`, the session invariant
(`BooksAgree`, `RefundedOnce`, `KeysFree`) and `DissolvedHoldsNothing`. The three parts of the
session invariant need each other: a refund returns the right amount only if nothing was
refunded before, which the unique record keys show, and the token gets back what the
organization gets back only because the two agreed. `TypeOK` needs the books: that a
subtraction stays in `Nat` is a fact about quota and reservations. One lemma per
transaction states what it does to a session; requests, repair and administrators reuse it.

- `TypeCorrect`, `QuotaRespected`, `BooksNeverDrift`, `RefundsHappenOnce`, `KeysNeverBlock`,
  `DissolutionIsClean`: the invariants. `RefundedStays`: `RefundedIsFinal`.
- `LedgerImplementsCharges`: every step of the ledger is a step of `Charge`, or leaves all
  charges alone, under the refinement mapping `ChargeOf`.
- `OrganizationBalances`, `CountersAlwaysBalance`, `RecordsAlwaysExplain`: by `BalanceInv`,
  which adds to `LedgerInv` that the counters are the totals and that the records are finite
  and belong to opened sessions. The totals show that the code's floors at zero never bite:
  a counter always holds at least what is given back.
- `LiveRequestsKeepTheirSessions` assumes `BeatsOnTime` and `TTL > 1`. `LiveInv`: a relayed
  running request has an unexpired lease, and a repair pass holds sessions of ended requests
  only. The heart is that half the TTL is less than the TTL (`IntervalFits`).

**System tasks** (`SystemTaskProofs`). Every step changes at most one row, and only by creating,
starting, ending or stamping it (`RowMoves`). From this follow `FinishedStays` (`FinishedIsFinal`)
and `KeyIsUnique` (`OneActive`); with "a dispatched handler's row names its runner" (`RunIsBy`)
also `ExecutesOnce`. These hold with pauses, crashes and failing calls of any number.

`RunningStaysLocked` assumes only that no row predates `active_key` (`~Legacy`); claims and
passes pause for any time and any number of calls fail. `RunningIsLocked` is not inductive:
`LeaseInv` adds that a claim is for a task its node never ran (`ClaimIsFresh`), that a claim
which got the lock has it until the lease it asked for runs out (`ClaimHasLock`), that no task
with a lock runs behind one that some claim or pass would find stale (`NoRunBehindStaleLock`,
`NoRunBehindStaleDelete`), and that a handler is finished before it releases
(`FinishingIsFinished`); `OneActive` and `RunIsBy` carry the rest. `Sound` tasks are those that
run and are not `adrift`. Most steps start nothing under a lease and leave the lock alone
(`LeaseFrame`), or move the lock while nothing runs under one (`LockFrame`); what is left is the
start of a task (`StartLease`) and the heartbeat. That a row without `active_key` breaks it is
why the assumption is there: two tasks of a type may then be active at once.

**Personal billing** (`PersonalBillingProofs`). The balances hold only when no request is between
two statements, so they are not inductive. `BillingInv` says what holds in between:
`SessionOK` relates what a `BillingSession` remembers to the statement it makes next, and
`WalletTaken`, `TokenTaken` and `SubTaken` are what it has taken from each row at that point,
at least (for the wallet, less what was rolled back unnoticed: `again`). The rows are short by the totals of these, exactly when no call failed
(`WalletCovered`, `TokenCovered`, `SubCovered`). At rest they are what the requests owe:
`WalletAlwaysBalances`, `TokenAlwaysBalances`, `SubscriptionAlwaysBalances`.

**Asynchronous tasks** (`AsyncTaskProofs`). `AsyncInv` says what a stale copy is still good for:
its quota is the price the task was stored with, since nothing writes the quota of an
unfinished row (`CopyOK`); a success was reported by a job that has ended (`AnswerOK`); one pass
at most bills a task, for a row it has ended and at what the outcome is worth (`OneBiller`,
`BillOK`); and what the wallet gave is what the row says, up to the adjustment that this pass or
the submission still owes (`WalletOK`), exactly unless a fault touched the task. Hence `WalletPaysForOutcome`, `TaskNeverPaysOut` and, as an action
property, `EndedTasksAreFinal`.

**Login sessions** (`AuthSessionProofs`). `AuthInv`: a session nobody has received was never used
(`FreshOK`); a page holds, and will accept from an answer under way, no session it has
signed out of, and such a session is revoked (`EndedOK`); under the web lock one tab at most is
past its queue (`LockOK`); and unless an answer was lost, the cookie or the one answer under way
has the newest generation of a session, and no request of a closed page names it (`NewestOK`).
The first three carry `SignedOutForGood`; the last, which needs them, `NoTabIsTakenForAThief`.

**Studio queue** (`StudioQueueProofs`). `QueueInv`: an entry and its goroutine agree (`EntryOK`);
a waiting job has the lease of its account for longer than it may wait, which is where
`StudioDurations` enters (`LeaseOK`); an execution that nobody answered for has the
GPU's lease for as long as it lasts (`WorkOK`); what a dispatcher
has reserved is still its own (`TickOK`); bytes and slots are totals over the entries
(`GateOK`). From it `CancelledIsNeverBilled`, `GpuIsExclusive`, `BudgetsAreAccounted`.
`QueueImplementsStudioJob` is the refinement: the mapping `StatusOf` shows of each entry what
`Status` does, and every step of any gateway, also a restart or a pass that ages many entries
at once, is a step of `StudioJob`.

**Studio browser** (`StudioBrowserProofs`). `BrowserInv` adds to the three properties what the queue
guarantees of a job (`JobOK`), what a tab knows at each `await` (`TabOK`), and that only
drawn keys are in use and a POST under way was not handled yet (`KeysOK`). The theorems
`JobsStayRecoverable`, `ReleasedImagesAreSaved` (saved, or cut from the history since) and
`SavedImagesAreBilled` are about the
browser with `StudioJob` as its server, and `QueueImplementsStudioJob` says that the queue is one;
that the two then fit together is not a theorem of its own.

**Only model-checked.** The liveness properties `OrphansReclaimed`, `RunsEnd`, `PendingStarts`,
`GuardsDecide`, `RevokedLeaves`, `AdmissionEnds`, `GenerationEnds` and `TaskEnds`: the prover
does not handle fairness. That the queue's `order` stays a sequence of jobs: `SelectSeq` is
recursive, and `QueueInv` does without it. `NetIsSum`, which would be an induction.
`OrganizationPaysActual` is violated (section 10).

## 10. Where code and words differ

**`async_organization`.** A comment (`service/async_billing.go:111-112`) says that an
organization's session is settled at completion directly at the actual amount. By then the
submission has settled it at the submitted price, and a settled session only confirms the
same amount; the conflict is logged, and the organization keeps paying the estimate
(`OrganizationPaysActual`). A failed task that reports usage is not refunded either.

The modules also state what other comments and documents say and the code does not do. No
run lists these properties; each is refuted when put into a configuration as given.

| Property | Refuted with | What happens |
|---|---|---|
| `OrgLedger!SettlementKept` (comment `organization_billing.go:923`) | 1 request, amounts 1–2, TTL and lease 1, time 3, no faults | the repair pass re-reads a session and refunds it in another transaction; a settlement in between is given back |
| `OrgLedger!DocumentedTransitions` (`docs/ORGANIZATION_TECHNICAL_DESIGN.md:1095`) | the same | a session in `repairing` is settled by its request (`organization_billing.go:647`) |
| `OrgLedger!SettledAtActual` (the same document, `:1081`) | the same | a reservation during repair is skipped but counted by the handler; the settlement books too little (`:540`) |
| `SystemTask!EveryRunEnds` (`service/system_task.go:18-19`) | the instance of `task_liveness`; or no fault, time 5, horizon 2 | an UPDATE that is done although an error is reported, or a claim that pauses for longer than its lease, leaves its task running without a lock, for ever |
| `SystemTask!LeaseProtects` (`service/system_task.go:306-307`) | 3 runners, 1 crash, no fault, time 4, horizon 3 | a stale-lock pass fails, by id, a task another node runs under a valid lease |
| `AuthSession!AnonymousOnVerdict` (`docs/authentication.md`) | the instance of `auth_tabs` | a database error while the session is read is answered as an invalid token and clears the cookie (`service/auth_session.go:216-222`) |
| `StudioBrowser!MissingStaysMissing` (`docs/image-studio-server-jobs.md`) | 4 inputs, 2 faults | a lookup overtakes the POST and finds nothing, the draft is restored, and the POST is admitted afterwards (`image-jobs.ts:250`) |
| `AsyncTask!RefundedAtMostOnce` (comment `task_polling.go:82-83`) | `MaxInputs = 2` | a caller's query writes the row it read before a refund, with its old quota (`relay_task.go:619`), and a later end refunds again |

Further observations made while modelling, outside the properties:

- A row that was stored while the reply was lost is refunded by its submission and, when
  the task fails, once more (`controller/relay.go:847`). `NeverPaysOut` excepts it by name.
- A plugin may answer a submission with an immediate `FAILURE`; the row is then stored as
  ended and settled at its price (`controller/relay.go:831-853`). The shipped plugins only
  answer with `SUCCESS`, and so does the model.
- `RefundSubscriptionPreConsume` calls a function with a transaction of its own; if only the
  save of its record fails, the retry gives the amount back again (`subscription.go:1418`).
- A comment (`billing_session.go:133-135`) says unlimited tokens are never charged;
  `TryReserveTokenQuota` books the reservation on them as well (`model/quota_reserve.go:210-211`)
  and the refund returns nothing to them, so that a failed request leaves their `used_quota`
  too high. `TokenBalances` speaks of limited tokens only.
- A second reservation whose token part fails is rolled back (`billing_session.go:323-327`). If
  that payment is made and its reply lost, `consumed` is not lowered, and the refund of the
  request pays the amount again (`funding_source.go:73`). `WalletBalances` excepts this amount
  (`again`) and no other.
- `PreConsumeUserSubscription` reports a failing query as "no active subscription"
  (`subscription.go:1334-1338`), and the wallet pays.
- A pre-consumption of zero takes no lock on the organization
  (`organization_billing.go:211-223`): its session may be committed after the organization was
  found without open sessions and dissolved. It holds nothing and can reserve nothing.
- A provider may report 100% for a job that still runs (`relay/channel/task/cubestack/adaptor.go:510-524`), and the
  poll stores it (`task_polling.go:597-599`); polling and sweep leave such rows out
  (`model/task.go:456`, `:472`), so the task never ends and its quota stays charged. `TaskEnds`
  excepts these rows.
- An image execution is not bounded by its context (`relay/channel/api_request.go:319`,
  `studio_image_review.go:251`). It may outlast the leases of its GPU and its account; another
  gateway then admits a second job of the account, although the shared lease "prevents multiple
  replicas from accepting a second waiting or running job for the same account"
  (`docs/image-studio-server-jobs.md:47`), and may use the busy worker. A body that breaks off is
  answered as 422 (`studio_image_review.go:251-258`) and the GPU's lease released, while the
  comment at `studio_image_execution.go:203-204` means to keep it as long as the worker may be
  busy. A relay that hangs keeps its slot and its admission.
- `saveStudioJob` cuts the history to 50 entries and 100 MiB by `created_at` and may cut the
  image it has just put, which is acknowledged all the same (`studio-storage.ts:116-126`).
- A refund after the reset of a subscription lowers the usage of the new period.
- A sign-out with an expired access token and a refresh cookie of the previous generation
  reports success without revoking the session.

## 11. What is not modelled

- The branch of `PreConsumeWithToken` that reuses a session of the same idempotency key:
  request ids are generated by the server, so keys are fresh. The repair batch limit (100).
  Audit records, cache invalidation and logs.
- Redis copies of quotas and the batch writer: balances are the database rows. Nothing in
  code or documents says how far the copies may be off, so there is nothing to check.
- Midjourney tasks, task rows older than the refund cutoff, the token's share of a task
  refund; the session cache and deny fence; subscription orders, plans and group changes.
- Clock differences between nodes: all nodes read one clock.
- The work inside a system task handler; format converters, payment gateways, channel
  selection; the pages of the console, which are forms and tables over single requests and
  make up most of its code; the components marked `not_modelled` in `PROJECT.json`.
- Integer width: quotas are Go `int`s (64 bits), far from overflow in the operations
  modelled here.

## Running

    tlc -workers 2 -config MCOrgLedger_races.cfg MCOrgLedger
    tlc -workers 2 -config MCStudioQueue_races.cfg MCStudioQueue
    tlapm OrgLedgerProofs.tla
    tlapm StudioQueueProofs.tla

The configuration file and module of each run are in `PROJECT.json`, and so is the module of
each theorem. The operators marked
"Faulty variant" or "Mutant", and those named there under "mutants", replace the definition
after them to show that a property can fail.
