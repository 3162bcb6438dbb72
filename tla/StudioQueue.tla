---------------------------- MODULE StudioQueue ----------------------------
(***************************************************************************)
(* The image studio's job queue on several gateways that share one         *)
(* database (service/studioqueue/queue.go, controller/studio_image_jobs.go,*)
(* controller/studio_image_execution.go, model/studio_image.go).           *)
(*                                                                         *)
(* A gateway keeps its jobs in RAM under one lock.  Its dispatcher, and    *)
(* one goroutine per running job, work mostly outside of that lock: they   *)
(* read an entry, talk to the database or to a GPU worker, and come back.  *)
(* Every such return is a step of its own.  What is shared is two kinds of *)
(* database lease: one per account, so that an account has one job at a    *)
(* time whichever gateway admitted it, and one per GPU worker.             *)
(*                                                                         *)
(* Time is a set of countdowns, in units of which the code's 15, 16, 11,   *)
(* 10 and half a minute are small multiples.  Sizes are units too.         *)
(***************************************************************************)
EXTENDS Integers, Sequences, FiniteSets, Totals

CONSTANTS
    Jobs, Accounts, \* submissions and who may submit them
    Gateways, GPUs,
    NoJob,          \* no job, no gateway, no worker
    MaxRunning,     \* executions of a gateway at once
    MaxWaiting,     \* waiting jobs of a gateway
    MaxBytes,       \* its budget for bodies and results
    MaxResult,      \* what one result may take of it
    AccountLease,   \* studioImageLeaseDuration, 16 minutes
    GpuLease,       \* 15 minutes
    QueueTTL,       \* a job waits at most 15 minutes
    ExecMax,        \* the context of an execution is done after 11
    CancelGrace,    \* a cancellation counts after 30 seconds
    ResultTTL,      \* an ended job is kept for 10 minutes
    MaxCrashes      \* bound on gateway restarts

Body == 1           \* size of every request
Image == 1          \* size of every result

ASSUME StudioConstants ==
    /\ IsFiniteSet(Jobs) /\ Accounts # {} /\ NoJob \notin Jobs \union Gateways \union GPUs
    /\ {MaxRunning, MaxWaiting, MaxBytes, CancelGrace, ResultTTL, MaxCrashes} \subseteq Nat
    /\ MaxResult \in Nat /\ Image <= MaxResult

\* A job stops waiting before the lease of its account runs out.  Nothing of the kind is
\* assumed of an execution: the relay's request has no context and its answer no deadline.
ASSUME StudioDurations ==
    /\ {QueueTTL, ExecMax} \subseteq Nat /\ GpuLease \in Nat \ {0}
    /\ AccountLease \in Nat /\ AccountLease > QueueTTL

VARIABLES
    entry,      \* the queue entry of each submission
    order,      \* per gateway: Queue.order
    bytes,      \* per gateway: Queue.bytes
    running,    \* per gateway: Queue.running
    tick,       \* per gateway: where the pass of Tick is
    exec,       \* per job: its execute goroutine
    owed,       \* jobs whose account lease a Cancel or a Tick is about to release
    account,    \* lease rows "account:<owner>"
    gpu,        \* lease rows "gpu:<channel>"
    work,       \* per GPU: executions that its worker may be busy with
    crashes

vars == <<entry, order, bytes, running, tick, exec, owed, account, gpu, work, crashes>>

-----------------------------------------------------------------------------
(* Entries, leases and goroutines.                                         *)

\* wait, grace and keep count down from `created`, `cancelled` and `ended`.
NoEntry == [state |-> "none", owner |-> CHOOSE a \in Accounts : TRUE, active |-> FALSE, cancelReq |-> FALSE, committed |-> FALSE,
            gate |-> NoJob,
            body |-> 0, result |-> 0, wait |-> 0, grace |-> 0, keep |-> 0]

NewEntry(a, g) == [NoEntry EXCEPT !.state = "queued", !.owner = a, !.gate = g,
                                  !.body = Body, !.wait = QueueTTL]

Held(e) == e.state \notin {"none", "gone", "lost"}

OnGate(g) == {j \in Jobs : Held(entry[j]) /\ entry[j].gate = g}

Free == [holder |-> NoJob, left |-> 0]

\* AcquireStudioImageLease: the row is taken when it has expired, whoever held it.
Acquired(lease, j, duration) == [holder |-> j, left |-> duration]

TakesAny(lease) == TRUE

CanAcquire(lease) == lease.left = 0

\* ReleaseStudioImageLease: only the holder's row is cleared.
Released(lease, j) == IF lease.holder = j THEN Free ELSE lease

\* RenewStudioImageLease: only while it is held and has not expired.
CanRenew(lease, j) == lease.holder = j /\ lease.left > 0

Renewed(lease) == [lease EXCEPT !.left = AccountLease]

\* What Status shows of an entry, and whether its execution has outlived the account lease.
Shown(e, late) == [state |-> e.state, owner |-> e.owner, active |-> e.active,
                   cancelReq |-> e.cancelReq, committed |-> e.committed, late |-> late]

Late(j) == entry[j].active /\ ~CanRenew(account[entry[j].owner], j)

StatusOf == [j \in Jobs |-> Shown(entry[j], Late(j))]

J == INSTANCE StudioJob WITH job <- StatusOf

TickIdle == [todo |-> {}, cur |-> NoJob, got |-> "none", on |-> NoJob]

\* phase: setup, relay, answered, settling, returned, then the deferred calls.  left counts
\* down with the GPU lease; heard: the relay was answered below 500 before the deadline.
NoExec == [phase |-> "idle", on |-> NoJob, left |-> 0, safe |-> TRUE, ok |-> FALSE,
           billed |-> FALSE, heard |-> FALSE]

\* What remains of an execution whose goroutine is gone.
Past(e) == [NoExec EXCEPT !.left = e.left, !.billed = e.billed, !.heard = e.heard]

Init ==
    /\ entry = [j \in Jobs |-> NoEntry]
    /\ order = [g \in Gateways |-> <<>>]
    /\ bytes = [g \in Gateways |-> 0]
    /\ running = [g \in Gateways |-> 0]
    /\ tick = [g \in Gateways |-> TickIdle]
    /\ exec = [j \in Jobs |-> NoExec]
    /\ owed = {}
    /\ account = [o \in Accounts |-> Free]
    /\ gpu = [x \in GPUs |-> Free]
    /\ work = [x \in GPUs |-> {}]
    /\ crashes = 0

-----------------------------------------------------------------------------
(* Requests of the browser, each under the gateway's lock.                 *)

Waiting(g) == {j \in OnGate(g) : entry[j].state = "queued"}

Unfinished(e) == e.state = "queued" \/ e.active

\* Another job of the account waits or runs on this gateway.
BusyHere(a, g) == \E k \in OnGate(g) : entry[k].owner = a /\ Unfinished(entry[k])

\* Queue.Submit with admitStudioImage: every refusal leaves the state as it was (when
\* the audit row cannot be written the lease just taken is released again).
Submit(j, a, g) ==
    /\ entry[j].state = "none"
    /\ ~BusyHere(a, g)
    /\ Cardinality(Waiting(g)) < MaxWaiting
    /\ bytes[g] + Body + MaxResult <= MaxBytes
    /\ CanAcquire(account[a])
    /\ account' = [account EXCEPT ![a] = Acquired(@, j, AccountLease)]
    /\ entry' = [entry EXCEPT ![j] = NewEntry(a, g)]
    /\ order' = [order EXCEPT ![g] = Append(@, j)]
    /\ bytes' = [bytes EXCEPT ![g] = @ + Body + MaxResult]
    /\ UNCHANGED <<running, tick, exec, owed, gpu, work, crashes>>

\* Queue.Cancel on an entry the gateway holds.
CancelledEntry(e) ==
    IF e.committed THEN e
    ELSE IF e.state = "completed"
         THEN [e EXCEPT !.result = 0, !.state = "cancelled", !.cancelReq = TRUE]
         ELSE IF e.active
              THEN [e EXCEPT !.grace = IF e.cancelReq THEN @ ELSE CancelGrace,
                             !.cancelReq = TRUE,
                             !.state = IF @ = "cancelled" THEN @ ELSE "cancelling"]
              ELSE IF e.state = "queued"
                   THEN [e EXCEPT !.state = "cancelled", !.cancelReq = TRUE,
                                  !.keep = ResultTTL, !.body = 0]
                   ELSE e

CancelFrees(e) ==
    IF e.committed \/ e.active THEN 0
    ELSE IF e.state = "queued" THEN e.body + MaxResult
    ELSE IF e.state = "completed" THEN e.result ELSE 0

\* The account lease of a waiting job is released after the lock is given up.
Cancel(j) ==
    /\ Held(entry[j])
    /\ CancelledEntry(entry[j]) # entry[j]
    /\ entry' = [entry EXCEPT ![j] = CancelledEntry(@)]
    /\ bytes' = [bytes EXCEPT ![entry[j].gate] = @ - CancelFrees(entry[j])]
    /\ owed' = IF entry[j].state = "queued" THEN owed \union {j} ELSE owed
    /\ UNCHANGED <<order, running, tick, exec, account, gpu, work, crashes>>

\* Queue.Ack: the browser has stored the image.
Ack(j) ==
    /\ Held(entry[j])
    /\ ~entry[j].active
    /\ entry[j].state \notin {"queued", "released"}
    /\ bytes' = [bytes EXCEPT ![entry[j].gate] = @ - entry[j].result]
    /\ entry' = [entry EXCEPT ![j].result = 0, ![j].state = "released"]
    /\ UNCHANGED <<order, running, tick, exec, owed, account, gpu, work, crashes>>

\* The release that Cancel or Tick calls once the lock is free.
ReleaseAdmission(j) ==
    /\ j \in owed
    /\ owed' = owed \ {j}
    /\ account' = [account EXCEPT ![entry[j].owner] = Released(@, j)]
    /\ UNCHANGED <<entry, order, bytes, running, tick, exec, gpu, work, crashes>>

-----------------------------------------------------------------------------
(* Queue.Tick: one pass of the dispatcher at a time (dispatchMu).          *)

GraceOver(e) == e.active /\ e.state = "cancelling" /\ e.grace = 0

NeverOver(e) == FALSE

WaitOver(e) == e.state = "queued" /\ e.wait = 0

Collected(e) == Held(e) /\ ~e.active /\ e.state # "queued" /\ e.keep = 0

\* The locked part: entries age, and the waiting ones are noted.
Aged(e) ==
    IF GraceOver(e) THEN [e EXCEPT !.state = "cancelled"]
    ELSE IF WaitOver(e)
         THEN [e EXCEPT !.state = "expired", !.keep = ResultTTL, !.body = 0]
         ELSE IF Collected(e) THEN [e EXCEPT !.state = "gone", !.result = 0] ELSE e

TickForgetsRoom(e) == IF Collected(e) THEN e.result ELSE 0

TickFrees(e) == IF WaitOver(e) THEN e.body + MaxResult ELSE IF Collected(e) THEN e.result ELSE 0

TickScan(g) ==
    LET aged == [j \in Jobs |-> IF j \in OnGate(g) THEN Aged(entry[j]) ELSE entry[j]]
        held(j) == aged[j].state # "gone"
        freed == Total([j \in OnGate(g) |-> TickFrees(entry[j])])
    IN  /\ tick[g] = TickIdle
        /\ OnGate(g) # {}
        /\ entry' = aged
        /\ bytes' = [bytes EXCEPT ![g] = @ - freed]
        /\ owed' = owed \union {j \in OnGate(g) : WaitOver(entry[j])}
        /\ order' = [order EXCEPT ![g] = SelectSeq(@, held)]
        /\ tick' = [tick EXCEPT ![g].todo = {j \in OnGate(g) : aged[j].state = "queued"}]
        /\ UNCHANGED <<running, exec, account, gpu, work, crashes>>

\* j is not behind k in the queue.
NotBehind(queue, j, k) == \E m, n \in DOMAIN queue : m <= n /\ queue[m] = j /\ queue[n] = k

\* The loop over the waiting entries, in the order of the queue: it stops when every slot
\* is taken, and passes over an entry that was cancelled since the scan.
DispatchNext(g) ==
    /\ tick[g].cur = NoJob
    /\ \E j \in tick[g].todo :
        /\ \A k \in tick[g].todo : NotBehind(order[g], j, k)
        /\ tick' = [tick EXCEPT ![g] =
                IF running[g] >= MaxRunning THEN TickIdle
                ELSE IF entry[j].state # "queued" THEN [tick[g] EXCEPT !.todo = @ \ {j}]
                ELSE [tick[g] EXCEPT !.todo = @ \ {j}, !.cur = j]]
    /\ UNCHANGED <<entry, order, bytes, running, exec, owed, account, gpu, work, crashes>>

Considering(g) == tick[g].cur # NoJob /\ tick[g].got = "none"

\* reserveStudioImage found no worker: the job waits for the next pass.
ReserveNothing(g) ==
    /\ Considering(g)
    /\ tick' = [tick EXCEPT ![g].cur = NoJob]
    /\ UNCHANGED <<entry, order, bytes, running, exec, owed, account, gpu, work, crashes>>

\* It found a reason to fail the job: access, scope, model or account lease lost.
ReserveRefusal(g) ==
    /\ Considering(g)
    /\ tick' = [tick EXCEPT ![g].got = "refusal"]
    /\ UNCHANGED <<entry, order, bytes, running, exec, owed, account, gpu, work, crashes>>

\* It took a GPU lease, probed the worker and renewed the account lease.  A renewal
\* that fails gives the GPU lease back and is the refusal above.
ReserveWorker(g, x) ==
    LET j == tick[g].cur
    IN  /\ Considering(g)
        /\ CanAcquire(gpu[x])
        /\ CanRenew(account[entry[j].owner], j)
        /\ gpu' = [gpu EXCEPT ![x] = Acquired(@, j, GpuLease)]
        /\ account' = [account EXCEPT ![entry[j].owner] = Renewed(@)]
        /\ tick' = [tick EXCEPT ![g].got = "worker", ![g].on = x]
        /\ UNCHANGED <<entry, order, bytes, running, exec, owed, work, crashes>>

\* Back under the lock: the entry may have been cancelled meanwhile, and then the
\* reservation is released; otherwise it becomes active and execute starts.
Activate(g) ==
    LET t == tick[g]
        j == t.cur
        go == entry[j].state = "queued"
    IN  /\ t.got # "none"
        /\ tick' = [tick EXCEPT ![g] = [TickIdle EXCEPT !.todo = t.todo]]
        /\ IF go
           THEN /\ entry' = [entry EXCEPT ![j].state = "running", ![j].active = TRUE]
                /\ running' = [running EXCEPT ![g] = @ + 1]
                /\ exec' = [exec EXCEPT ![j] =
                        [NoExec EXCEPT !.phase = IF t.got = "worker" THEN "setup" ELSE "returned",
                                       !.on = t.on, !.left = GpuLease]]
                /\ UNCHANGED gpu
           ELSE /\ gpu' = IF t.got = "worker"
                          THEN [gpu EXCEPT ![t.on] = Released(@, j)] ELSE gpu
                /\ UNCHANGED <<entry, running, exec>>
        /\ UNCHANGED <<order, bytes, owed, account, work, crashes>>

-----------------------------------------------------------------------------
(* Queue.execute and studioImageExecution.run, one goroutine per job.      *)

\* Run has used up its 11 minutes: execCtx is done.
TimedOut(j) == exec[j].left + ExecMax <= GpuLease

ExecBecomes(j, e) ==
    /\ exec' = [exec EXCEPT ![j] = e]
    /\ UNCHANGED <<order, running, tick, owed, account, crashes>>

\* run fails or sees the cancellation before it has sent anything.
RunGivesUp(j) ==
    /\ exec[j].phase = "setup"
    /\ ExecBecomes(j, [exec[j] EXCEPT !.phase = "returned"])
    /\ UNCHANGED <<entry, bytes, gpu, work>>

\* The one request to the worker, never repeated (PinRetrySingleAttempt, shouldRetry).
\* Only a cancellation is looked for: the request is built without execCtx.
SendInference(j) ==
    /\ exec[j].phase = "setup"
    /\ ~entry[j].cancelReq
    /\ work' = [work EXCEPT ![exec[j].on] = @ \union {j}]
    /\ ExecBecomes(j, [exec[j] EXCEPT !.phase = "relay", !.safe = FALSE])
    /\ UNCHANGED <<entry, bytes, gpu>>

\* The worker is through with the job, done, failed or told to cancel.
WorkerEnds(x) ==
    /\ \E j \in work[x] : work' = [work EXCEPT ![x] = @ \ {j}]
    /\ UNCHANGED <<entry, order, bytes, running, tick, exec, owed, account, gpu, crashes>>

\* The worker answered and the review approved the image.
ReviewApproves(j) ==
    /\ exec[j].phase = "relay"
    /\ j \notin work[exec[j].on]
    /\ ExecBecomes(j, [exec[j] EXCEPT !.phase = "answered"])
    /\ UNCHANGED <<entry, bytes, gpu, work>>

\* An answer below 500, by the relay, the worker or the review, which run takes for proof
\* that the GPU is idle.  It is none: a body that breaks off becomes a 422, and a mapped
\* status may stand for a 5xx, so the worker may be busy still.
RelayRefused(j) ==
    /\ exec[j].phase = "relay"
    /\ ExecBecomes(j, [exec[j] EXCEPT !.phase = "returned", !.safe = ~TimedOut(j),
                                      !.heard = ~TimedOut(j)])
    /\ UNCHANGED <<entry, bytes, gpu, work>>

RelayTrusted(j) ==
    /\ exec[j].phase = "relay"
    /\ ExecBecomes(j, [exec[j] EXCEPT !.phase = "returned", !.safe = TRUE])
    /\ UNCHANGED <<entry, bytes, gpu, work>>

\* A transport error or a 5xx: nobody knows what the GPU is doing.
RelayUncertain(j) ==
    /\ exec[j].phase = "relay"
    /\ ExecBecomes(j, [exec[j] EXCEPT !.phase = "returned"])
    /\ UNCHANGED <<entry, bytes, gpu, work>>

CommitIgnored(j) ==
    /\ exec[j].phase = "answered"
    /\ ExecBecomes(j, [exec[j] EXCEPT !.phase = "settling"])
    /\ entry' = [entry EXCEPT ![j].committed = ~entry[j].cancelReq]
    /\ UNCHANGED <<bytes, gpu, work>>

\* TryCommitResult under the queue's lock: billing is claimed, or the cancellation
\* came first and the pre-consumption is refunded.
CommitResult(j) ==
    /\ exec[j].phase = "answered"
    /\ IF entry[j].cancelReq
       THEN /\ ExecBecomes(j, [exec[j] EXCEPT !.phase = "returned", !.safe = ~TimedOut(j)])
            /\ UNCHANGED entry
       ELSE /\ ExecBecomes(j, [exec[j] EXCEPT !.phase = "settling"])
            /\ entry' = [entry EXCEPT ![j].committed = TRUE]
    /\ UNCHANGED <<bytes, gpu, work>>

\* PostTextConsumeQuota, after which run returns the image.
SettleBill(j) ==
    /\ exec[j].phase = "settling"
    /\ ExecBecomes(j, [exec[j] EXCEPT !.phase = "returned", !.safe = ~TimedOut(j),
                                      !.ok = TRUE, !.billed = TRUE])
    /\ UNCHANGED <<entry, bytes, gpu, work>>

\* The end of execute under the lock.
ConcludedEntry(e, ok) ==
    LET state == IF e.cancelReq THEN "cancelled" ELSE IF ok THEN "completed" ELSE "failed"
    IN  [e EXCEPT !.body = 0, !.active = FALSE, !.keep = ResultTTL, !.state = state,
                  !.result = IF state = "completed" THEN Image ELSE 0]

Conclude(j) ==
    LET e == ConcludedEntry(entry[j], exec[j].ok)
    IN  /\ exec[j].phase = "returned"
        /\ entry' = [entry EXCEPT ![j] = e]
        /\ bytes' = [bytes EXCEPT ![e.gate] = @ - (entry[j].body + MaxResult) + e.result]
        /\ ExecBecomes(j, [exec[j] EXCEPT !.phase = "releaseGPU"])
        /\ UNCHANGED <<gpu, work>>

\* The deferred calls, in their order: the GPU lease if the GPU is known to be idle,
\* the account lease, the slot.
ReleaseGPU(j) ==
    /\ exec[j].phase = "releaseGPU"
    /\ gpu' = IF exec[j].on \in GPUs /\ exec[j].safe
              THEN [gpu EXCEPT ![exec[j].on] = Released(@, j)] ELSE gpu
    /\ ExecBecomes(j, [exec[j] EXCEPT !.phase = "releaseAccount"])
    /\ UNCHANGED <<entry, bytes, work>>

ReleaseAccount(j) ==
    /\ exec[j].phase = "releaseAccount"
    /\ account' = [account EXCEPT ![entry[j].owner] = Released(@, j)]
    /\ exec' = [exec EXCEPT ![j].phase = "releaseSlot"]
    /\ UNCHANGED <<entry, order, bytes, running, tick, owed, gpu, work, crashes>>

ReleaseSlot(j) ==
    /\ exec[j].phase = "releaseSlot"
    /\ running' = [running EXCEPT ![entry[j].gate] = @ - 1]
    /\ exec' = [exec EXCEPT ![j] = Past(@)]
    /\ UNCHANGED <<entry, order, bytes, tick, owed, account, gpu, work, crashes>>

-----------------------------------------------------------------------------
(* Restarts and time.                                                      *)

\* A gateway restarts: its RAM and its goroutines are gone, its leases are not.
Crash(g) ==
    /\ crashes < MaxCrashes
    /\ OnGate(g) # {}
    /\ crashes' = crashes + 1
    /\ entry' = [j \in Jobs |-> IF j \in OnGate(g)
                                THEN [NoEntry EXCEPT !.state = "lost", !.gate = g, !.owner = entry[j].owner,
                                                     !.cancelReq = entry[j].cancelReq,
                                                     !.committed = entry[j].committed]
                                ELSE entry[j]]
    /\ exec' = [j \in Jobs |-> IF entry[j].gate = g /\ exec[j].phase # "idle"
                               THEN Past(exec[j]) ELSE exec[j]]
    /\ order' = [order EXCEPT ![g] = <<>>]
    /\ bytes' = [bytes EXCEPT ![g] = 0]
    /\ running' = [running EXCEPT ![g] = 0]
    /\ tick' = [tick EXCEPT ![g] = TickIdle]
    /\ owed' = owed \ {j \in Jobs : entry[j].gate = g}
    /\ UNCHANGED <<account, gpu, work>>

Less(n) == IF n = 0 THEN 0 ELSE n - 1

Elapsed(lease) == IF lease.left <= 1 THEN Free ELSE [lease EXCEPT !.left = @ - 1]

\* What cannot take a whole unit of time: the dispatcher comes round every second, and a
\* reservation in hand is activated at once.  An execution may take any time.
TimeMayPass ==
    /\ \A j \in Jobs : Held(entry[j]) => ~WaitOver(entry[j])
    /\ \A g \in Gateways : tick[g].got = "none"

Advance ==
    /\ TimeMayPass
    /\ entry' = [j \in Jobs |-> [entry[j] EXCEPT !.wait = Less(@), !.grace = Less(@),
                                                 !.keep = Less(@)]]
    /\ exec' = [j \in Jobs |-> [exec[j] EXCEPT !.left = Less(@)]]
    /\ account' = [o \in Accounts |-> Elapsed(account[o])]
    /\ gpu' = [x \in GPUs |-> Elapsed(gpu[x])]
    /\ <<entry', exec', account', gpu'>> # <<entry, exec, account, gpu>>
    /\ UNCHANGED <<order, bytes, running, tick, owed, work, crashes>>

-----------------------------------------------------------------------------
TickStep(g) == \/ TickScan(g) \/ DispatchNext(g) \/ ReserveNothing(g) \/ ReserveRefusal(g)
               \/ \E x \in GPUs : ReserveWorker(g, x)
               \/ Activate(g)

\* The relay comes back when the worker or the connection lets it.
RelayStep(j) == ReviewApproves(j) \/ RelayRefused(j) \/ RelayUncertain(j)

ExecStep(j) == \/ RunGivesUp(j) \/ SendInference(j) \/ CommitResult(j) \/ SettleBill(j)
               \/ Conclude(j) \/ ReleaseGPU(j) \/ ReleaseAccount(j) \/ ReleaseSlot(j)

Next == \/ \E j \in Jobs : \/ \E a \in Accounts, g \in Gateways : Submit(j, a, g)
                           \/ Cancel(j) \/ Ack(j) \/ ReleaseAdmission(j) \/ ExecStep(j)
                           \/ RelayStep(j)
        \/ \E g \in Gateways : TickStep(g) \/ Crash(g)
        \/ \E x \in GPUs : WorkerEnds(x)
        \/ Advance

Spec == Init /\ [][Next]_vars

\* The dispatcher's ticker and the goroutines run and time passes.  Nothing is assumed of
\* the worker, nor that a relay ever comes back.
FairSpec == /\ Spec
            /\ \A g \in Gateways : WF_vars(TickStep(g))
            /\ \A j \in Jobs : WF_vars(ExecStep(j)) /\ WF_vars(ReleaseAdmission(j))
            /\ SF_vars(Advance)

-----------------------------------------------------------------------------
(* Properties.                                                             *)

Phases == {"idle", "setup", "relay", "answered", "settling", "returned", "releaseGPU",
           "releaseAccount", "releaseSlot"}

LeaseOf(n) == [holder : Jobs \union {NoJob}, left : 0..n]

\* Every variable keeps its type; the counters of a gateway never go below zero.
TypeOK ==
    /\ entry \in [Jobs -> [state : J!States, owner : Accounts, active : BOOLEAN, cancelReq : BOOLEAN,
                           committed : BOOLEAN, gate : Gateways \union {NoJob}, body : {0, Body},
                           result : {0, Image}, wait : 0..QueueTTL, grace : 0..CancelGrace,
                           keep : 0..ResultTTL]]
    /\ \A g \in Gateways : order[g] \in Seq(Jobs)
    /\ bytes \in [Gateways -> Nat] /\ running \in [Gateways -> Nat]
    /\ tick \in [Gateways -> [todo : SUBSET Jobs, cur : Jobs \union {NoJob},
                              got : {"none", "refusal", "worker"}, on : GPUs \union {NoJob}]]
    /\ exec \in [Jobs -> [phase : Phases, on : GPUs \union {NoJob}, left : 0..GpuLease,
                          safe : BOOLEAN, ok : BOOLEAN, billed : BOOLEAN, heard : BOOLEAN]]
    /\ owed \subseteq Jobs
    /\ account \in [Accounts -> LeaseOf(AccountLease)]
    /\ gpu \in [GPUs -> LeaseOf(GpuLease)]
    /\ work \in [GPUs -> SUBSET Jobs]

\* What an entry takes of its gateway's budget: its body and the room reserved for
\* its result until it ends, then the result itself.
Retained(e) == IF Unfinished(e) THEN Body + MaxResult ELSE e.result

\* The byte budget and the slots of a gateway are exactly what its jobs use, and within
\* their limits: however cancellation, expiry, completion and collection interleave,
\* nothing is given back twice and nothing leaks (Queue.bytes, Queue.running).
Accounted ==
    \A g \in Gateways :
        /\ bytes[g] = Total([j \in OnGate(g) |-> Retained(entry[j])])
        /\ bytes[g] <= MaxBytes
        /\ running[g] = Cardinality({j \in Jobs : exec[j].phase # "idle" /\ entry[j].gate = g})
        /\ running[g] <= MaxRunning

\* Until its lease has run out, a worker that may be busy with an execution nobody has
\* answered for gets no second one, whether its gateway cancelled, timed out, crashed or
\* lost the answer: the lease of an uncertain relay is kept (studioImageExecution.release).
GpuExclusive ==
    \A x \in GPUs : Cardinality({j \in work[x] : exec[j].left > 0 /\ ~exec[j].heard}) <= 1

\* A cancellation that was accepted is never billed, and what was billed is never
\* reported as cancelled: TryCommitResult and Cancel decide under one lock.
CancelNeverBilled ==
    \A j \in Jobs : /\ entry[j].cancelReq => ~exec[j].billed
                    /\ exec[j].billed => ~entry[j].cancelReq /\ entry[j].state # "cancelled"

\* The queue keeps the promise of StudioJob: across gateways an account has at most one
\* job that waits, or runs within its lease; a committed image is kept for collection, a
\* cancelled job never completed, an identity never reused.
Implements == J!Spec

\* Neither the gateway nor the account has anything left of the job.
Settled(j) == /\ entry[j].state # "queued" /\ ~entry[j].active
              /\ exec[j].phase = "idle"
              /\ account[entry[j].owner].holder # j

\* Every admitted job comes to an end and gives back what it took, unless its relay never
\* returns: it is dispatched, cancelled or expires, its slot is returned and its account is
\* free again, although a restart may have left the lease behind.
AdmissionEnds == \A j \in Jobs : []<>Settled(j) \/ <>[](exec[j].phase = "relay")
=============================================================================
