------------------------------ MODULE AsyncTask ------------------------------
(***************************************************************************)
(* Asynchronous generation tasks: a request pays for a task, hands it to a *)
(* provider and stores a row (controller/relay.go); polling passes of      *)
(* several nodes, a timeout sweep and, for Gemini and Vertex, the caller's *)
(* own queries move the row to its end, and whoever ends it adjusts the    *)
(* charge (service/task_polling.go, task_billing.go, async_billing.go).    *)
(***************************************************************************)
EXTENDS Integers, FiniteSets

CONSTANTS
    Tasks,        \* submissions
    Nodes,        \* nodes that run polling passes
    Amounts,      \* quota a task may cost
    Estimates,    \* quota the estimate may come to before the submission
    MaxInputs     \* bound: crashes, failing calls, lost replies and queries of the caller

ASSUME AsyncAssumption ==
    /\ Tasks # {}
    /\ Amounts \subseteq Nat \ {0} /\ Estimates \subseteq Nat \ {0}
    /\ MaxInputs \in Nat

VARIABLES
    kind,     \* what a submission is: its payer, and whether a Gemini or Vertex channel serves it
    sub,      \* the submitting request
    job,      \* the provider's job
    row,      \* the tasks table
    held,     \* quota the payer has given for the task, less what it got back
    sess,     \* status of the organization's billing session
    node,     \* polling pass of each node
    get,      \* query of the caller in flight
    inputs,   \* inputs still to come
    spoiled   \* tasks whose charge a crash or a failing call has touched

vars == <<kind, sub, job, row, held, sess, node, get, inputs, spoiled>>

Unfinished == {"NOT_START", "IN_PROGRESS"}
Terminal == {"SUCCESS", "FAILURE"}

\* A task row, and the copy of it a poller or a query holds.
Quotas == {0} \cup Amounts \cup Estimates
\* `full` is a progress of "100%", which the queries of the passes leave out.
Row == [status : {"absent"} \cup Unfinished \cup Terminal, quota : Quotas,
        old : BOOLEAN, full : BOOLEAN]
NoRow == [status |-> "absent", quota |-> 0, old |-> FALSE, full |-> FALSE]

\* Tasks a step of billing has still to run for.
Billing(n, t) == node[n].at \in {"bill", "write"} /\ node[n].task = t

Idle == [at |-> "idle", pass |-> "sweep", todo |-> {}, mem |-> [t \in Tasks |-> NoRow],
         task |-> CHOOSE t \in Tasks : TRUE, ans |-> "none", due |-> 0, refund |-> FALSE]

Init ==
    /\ kind \in [Tasks -> [payer : {"wallet", "organization"}, live : BOOLEAN]]
    /\ sub = [t \in Tasks |-> [at |-> "new", pre |-> 0, quota |-> 0]]
    /\ job = [t \in Tasks |-> [state |-> "none", metered |-> FALSE, usage |-> 0, id |-> TRUE]]
    /\ row = [t \in Tasks |-> NoRow]
    /\ held = [t \in Tasks |-> 0]
    /\ sess = [t \in Tasks |-> "none"]
    /\ node = [n \in Nodes |-> Idle]
    /\ get = [t \in Tasks |-> NoRow]
    /\ inputs = MaxInputs
    /\ spoiled = {}

Input == inputs > 0 /\ inputs' = inputs - 1

Fault(t) ==
    /\ Input
    /\ spoiled' = spoiled \cup {t}

-----------------------------------------------------------------------------
(***************************************************************************)
(* The organization's billing session, as organization_billing.go has it.  *)
(***************************************************************************)
IsOrg(t) == kind[t].payer = "organization"

\* SettleWithTokenActual(a) goes through: an open session is settled, a settled one
\* only confirms the same amount, a refunded one refuses.
SettleAccepts(t, a) ==
    \/ sess[t] = "pre_consumed"
    \/ sess[t] = "settled" /\ held[t] = a

SettleSession(t, a) ==
    /\ held' = [held EXCEPT ![t] = a]
    /\ sess' = [sess EXCEPT ![t] = "settled"]

\* RefundWithToken gives back all that the session still holds, and only once.
RefundSession(t) ==
    /\ held' = [held EXCEPT ![t] = 0]
    /\ sess' = [sess EXCEPT ![t] = IF @ = "none" THEN "none" ELSE "refunded"]

-----------------------------------------------------------------------------
(***************************************************************************)
(* Submission.                                                             *)
(***************************************************************************)

\* RelayTaskSubmit takes the estimated quota before it calls the provider.
PreConsume(t) ==
    /\ sub[t].at = "new"
    /\ \E q \in Estimates :
        /\ sub' = [sub EXCEPT ![t].at = "charged", ![t].pre = q]
        /\ held' = [held EXCEPT ![t] = q]
    /\ sess' = [sess EXCEPT ![t] = IF IsOrg(t) THEN "pre_consumed" ELSE "none"]
    /\ UNCHANGED <<kind, job, row, node, get, inputs, spoiled>>

\* The deferred refund of a submission that stored no task.
RefundSubmission(t) ==
    /\ sub' = [sub EXCEPT ![t].at = "over"]
    /\ RefundSession(t)

\* The provider refuses, the caller goes away or the higher price cannot be reserved.
SubmitFails(t) ==
    /\ sub[t].at \in {"charged", "accepted"}
    /\ RefundSubmission(t)
    /\ UNCHANGED <<kind, job, row, node, get, inputs, spoiled>>

\* The provider takes the task, perhaps without naming it, and the price is adjusted:
\* a higher one is reserved at once. Some providers answer with the result; the plugins
\* shipped with the program do so only for a success.
SubmitAccepted(t) ==
    /\ sub[t].at = "charged"
    /\ \E q \in Amounts, id \in BOOLEAN, s \in {"queued", "immediate"} :
        LET paid == IF q > sub[t].pre THEN q ELSE sub[t].pre IN
        /\ sub' = [sub EXCEPT ![t] = [at |-> "accepted", pre |-> paid, quota |-> q]]
        /\ held' = [held EXCEPT ![t] = paid]
        /\ job' = [job EXCEPT ![t] = [state |-> s, metered |-> FALSE, usage |-> 0, id |-> id]]
    /\ UNCHANGED <<kind, row, sess, node, get, inputs, spoiled>>

\* The row to store; one that comes with its result is stored as ended.
InsertRow(t) ==
    row' = [row EXCEPT ![t] = [NoRow EXCEPT
        !.status = IF job[t].state = "immediate" THEN "SUCCESS" ELSE "NOT_START",
        !.quota = sub[t].quota, !.full = job[t].state = "immediate"]]

Insert(t) ==
    /\ sub[t].at = "accepted"
    /\ InsertRow(t)
    /\ sub' = [sub EXCEPT ![t].at = "durable"]
    /\ UNCHANGED <<kind, job, held, sess, node, get, inputs, spoiled>>

\* The row is stored and the reply is lost: the submission takes it for a failure.
InsertLost(t) ==
    /\ sub[t].at = "accepted"
    /\ InsertRow(t)
    /\ sub' = [sub EXCEPT ![t].at = "lost"]
    /\ RefundSession(t)
    /\ Fault(t)
    /\ UNCHANGED <<kind, job, node, get>>

\* SettleBilling brings the charge from the pre-consumption to the price of the task.
Settle(t) ==
    /\ sub[t].at = "durable"
    /\ sub' = [sub EXCEPT ![t].at = "over", ![t].pre = sub[t].quota]
    /\ CASE ~IsOrg(t) ->
               /\ held' = [held EXCEPT ![t] = @ + sub[t].quota - sub[t].pre]
               /\ UNCHANGED sess
         [] IsOrg(t) /\ SettleAccepts(t, sub[t].quota) -> SettleSession(t, sub[t].quota)
         [] OTHER -> UNCHANGED <<held, sess>>
    /\ UNCHANGED <<kind, job, row, node, get, inputs, spoiled>>

\* The node dies, or the settlement fails after the row is stored.
SubmitDies(t) ==
    /\ sub[t].at \in {"charged", "accepted", "durable"}
    /\ sub' = [sub EXCEPT ![t].at = "over"]
    /\ Fault(t)
    /\ UNCHANGED <<kind, job, row, held, sess, node, get>>

-----------------------------------------------------------------------------
(***************************************************************************)
(* The provider.                                                           *)
(***************************************************************************)
JobStarts(t) ==
    /\ job[t].state = "queued"
    /\ job' = [job EXCEPT ![t].state = "IN_PROGRESS"]
    /\ UNCHANGED <<kind, sub, row, held, sess, node, get, inputs, spoiled>>

\* The job ends, or is forgotten (404, 410). It is metered if settleTaskBillingOnComplete
\* recalculates its price, to the usage it reports, which an expression or a ratio may make 0;
\* it is not if the price is per call, the task failed under an expression, no usage is
\* reported or the expression cannot be evaluated.
JobEnds(t) ==
    /\ job[t].state = "IN_PROGRESS"
    /\ \E s \in Terminal \cup {"gone"}, metered \in BOOLEAN, u \in {0} \cup Amounts :
        /\ s = "gone" => ~metered
        /\ ~metered => u = 0
        /\ job' = [job EXCEPT ![t].state = s, ![t].metered = metered, ![t].usage = u]
    /\ UNCHANGED <<kind, sub, row, held, sess, node, get, inputs, spoiled>>

\* submit_time passes TASK_TIMEOUT_MINUTES.
TimesOut(t) ==
    /\ row[t].status \in Unfinished /\ ~row[t].old
    /\ row' = [row EXCEPT ![t].old = TRUE]
    /\ UNCHANGED <<kind, sub, job, held, sess, node, get, inputs, spoiled>>

-----------------------------------------------------------------------------
(***************************************************************************)
(* Polling passes.                                                         *)
(***************************************************************************)

\* Faulty variant: Save, which writes whatever the row has become.
SaveRow(t, from, new) ==
    row' = [row EXCEPT ![t] = new]

\* UpdateWithStatus: the whole row as the caller has it, if the status is still `from`.
\* The age of the row is not the caller's to change.
UpdateWithStatus(t, from, new) ==
    row' = IF row[t].status = from THEN [row EXCEPT ![t] = [new EXCEPT !.old = row[t].old]]
                                   ELSE row

\* Faulty variant: the number of rows the update has changed is not looked at.
WonAnyway(t, from) == TRUE

Won(t, from) == row[t].status = from

\* The pass works on task t, and is through with it.
Turn(n, t, at) == [node[n] EXCEPT !.at = at, !.todo = @ \ {t}, !.task = t]
Back(n, t) ==
    IF node[n].pass = "poll" /\ node[n].todo \subseteq {t} THEN Idle
    ELSE [Turn(n, t, "pick") EXCEPT !.mem[t] = NoRow, !.ans = "none", !.due = 0, !.refund = FALSE]

\* The rows a pass asks for, and its copies of them.
Open == {t \in Tasks : row[t].status \in Unfinished /\ ~row[t].full}

\* Faulty variant: the sweep knows only the status a row is stored with.
TimedOutUnstarted == {t \in Open : row[t].old /\ row[t].status = "NOT_START"}

TimedOut == {t \in Open : row[t].old}
Copies(S) == [t \in Tasks |-> IF t \in S THEN [row[t] EXCEPT !.old = FALSE] ELSE NoRow]

\* sweepTimedOutTasks reads the unfinished rows that are too old.
StartSweep(n) ==
    /\ node[n].at = "idle" /\ TimedOut # {}
    /\ node' = [node EXCEPT ![n] = [Idle EXCEPT
            !.at = "pick", !.todo = TimedOut, !.mem = Copies(TimedOut)]]
    /\ UNCHANGED <<kind, sub, job, row, held, sess, get, inputs, spoiled>>

\* GetAllUnFinishSyncTasks, once the sweep is through or has nothing to do.
StartPoll(n) ==
    /\ \/ node[n].at = "idle" /\ TimedOut = {} /\ Open # {}
       \/ node[n].at = "pick" /\ node[n].todo = {}
    /\ node' = [node EXCEPT ![n] = IF Open = {} THEN Idle ELSE [Idle EXCEPT
            !.at = "pick", !.pass = "poll", !.todo = Open, !.mem = Copies(Open)]]
    /\ UNCHANGED <<kind, sub, job, row, held, sess, get, inputs, spoiled>>

\* The last write of a row that has been seen to end.
EndedRow(mem, s) == [mem EXCEPT !.status = s, !.full = TRUE]

\* Back to the list, or on to the billing of the task this node has ended: a settlement at
\* `due` (RecalculateTaskQuota) or a refund (RefundTaskQuota), if the end calls for either.
Ended(n, t, won, owed, due, refund) ==
    IF won /\ owed
        THEN [Turn(n, t, "bill") EXCEPT !.ans = "none", !.due = due, !.refund = refund]
        ELSE Back(n, t)

\* failAndRefundTasks: a task that is too old, or that the provider never named.
FailAndRefund(n, t) ==
    /\ node[n].at = "pick" /\ t \in node[n].todo
    /\ node[n].pass = "sweep" \/ ~job[t].id
    /\ LET mem == node[n].mem[t] IN
        /\ UpdateWithStatus(t, mem.status, EndedRow(mem, "FAILURE"))
        /\ node' = [node EXCEPT ![n] =
               Ended(n, t, Won(t, mem.status), mem.quota # 0, 0, TRUE)]
    /\ UNCHANGED <<kind, sub, job, held, sess, get, inputs, spoiled>>

\* What FetchTask may bring: the state of the job, nothing of it any more, or an answer
\* that does not count (network, 401, 403, 429, 5xx, unreadable, channel unreadable).
Answers(t) ==
    {"bad", CASE ~job[t].id -> "bad"
              [] job[t].state = "queued" -> "NOT_START"
              [] job[t].state = "immediate" -> "SUCCESS"
              [] OTHER -> job[t].state}

Fetch(n, t) ==
    /\ node[n].at = "pick" /\ node[n].pass = "poll" /\ t \in node[n].todo
    /\ job[t].id
    /\ \E a \in Answers(t) : node' = [node EXCEPT ![n] = [Turn(n, t, "answer") EXCEPT !.ans = a]]
    /\ UNCHANGED <<kind, sub, job, row, held, sess, get, inputs, spoiled>>

\* failTaskFromPoll: the end of a task whose polls fail too often or find nothing. The
\* failure it makes up reports no usage.
FailFromPoll(n) ==
    LET t == node[n].task
        mem == node[n].mem[t] IN
    /\ UpdateWithStatus(t, mem.status, EndedRow(mem, "FAILURE"))
    /\ node' = [node EXCEPT ![n] = Ended(n, t, Won(t, mem.status), mem.quota # 0, 0, TRUE)]

\* recordPollFailure: an answer that does not count leaves the task as it is, unless it is
\* one too many in a row. How many have come is left open: TASK_POLL_MAX_FAILURES may also
\* switch the limit off.
RecordPollFailure(n) ==
    LET t == node[n].task
        mem == node[n].mem[t] IN
    /\ node[n].ans = "bad"
    /\ \/ FailFromPoll(n)
       \/ /\ UpdateWithStatus(t, mem.status, mem)
          /\ node' = [node EXCEPT ![n] = Back(n, t)]

\* A task that runs: the row follows, with the progress the provider reports, be it "100%";
\* a copy that has not changed is not written.
Follow(n) ==
    LET t == node[n].task
        mem == node[n].mem[t] IN
    /\ node[n].ans \in Unfinished
    /\ \/ \E full \in BOOLEAN :
            UpdateWithStatus(t, mem.status, [mem EXCEPT !.status = node[n].ans, !.full = full])
       \/ node[n].ans = mem.status /\ UNCHANGED row
    /\ node' = [node EXCEPT ![n] = Back(n, t)]

\* A task that has ended: whoever wins the row adjusts the charge, to the usage if the
\* price follows it, to nothing if the task failed, and not at all otherwise.
Finish(n) ==
    LET t == node[n].task
        s == node[n].ans
        mem == node[n].mem[t]
        metered == job[t].metered IN
    /\ s \in Terminal
    /\ UpdateWithStatus(t, mem.status, EndedRow(mem, s))
    /\ node' = [node EXCEPT ![n] =
           Ended(n, t, Won(t, mem.status), metered \/ (s = "FAILURE" /\ mem.quota # 0),
                 job[t].usage, ~metered)]

Apply(n) ==
    /\ node[n].at = "answer"
    /\ \/ RecordPollFailure(n)
       \/ node[n].ans = "gone" /\ FailFromPoll(n)
       \/ Follow(n)
       \/ Finish(n)
    /\ UNCHANGED <<kind, sub, job, held, sess, get, inputs, spoiled>>

-----------------------------------------------------------------------------
(***************************************************************************)
(* RefundTaskQuota and RecalculateTaskQuota: the payer, then the row.      *)
(***************************************************************************)

\* taskAdjustFunding by the difference to what the row says was paid.
AdjustFunding(t, quota, due) ==
    held' = [held EXCEPT ![t] = @ + due - quota]

\* An organization is refunded or settled through its session; a settlement that the
\* session refuses is logged and the end counts as billed all the same.
BillOrganization(t, due, refund) ==
    CASE refund -> RefundSession(t)
      [] ~refund /\ SettleAccepts(t, due) -> SettleSession(t, due)
      [] OTHER -> UNCHANGED <<held, sess>>

\* Only a refund of an organization and a refused settlement leave the row's quota alone.
WritesQuota(t, due, refund) == ~IsOrg(t) \/ (~refund /\ SettleAccepts(t, due))

Bill(n) ==
    LET t == node[n].task
        due == node[n].due
        refund == node[n].refund IN
    /\ node[n].at = "bill"
    /\ IF IsOrg(t) THEN BillOrganization(t, due, refund)
                   ELSE AdjustFunding(t, node[n].mem[t].quota, due) /\ UNCHANGED sess
    /\ node' = [node EXCEPT ![n] =
           IF WritesQuota(t, due, refund) THEN [@ EXCEPT !.at = "write"] ELSE Back(n, t)]
    /\ UNCHANGED <<kind, sub, job, row, get, inputs, spoiled>>

\* Faulty variant: the quota of the row is not cleared or corrected.
KeepQuota(n) ==
    /\ node[n].at = "write"
    /\ node' = [node EXCEPT ![n] = Back(n, node[n].task)]
    /\ UNCHANGED <<kind, sub, job, row, held, sess, get, inputs, spoiled>>

\* UpdateQuota, whatever the row has become.
WriteQuota(n) ==
    /\ node[n].at = "write"
    /\ row' = [row EXCEPT ![node[n].task].quota = node[n].due]
    /\ node' = [node EXCEPT ![n] = Back(n, node[n].task)]
    /\ UNCHANGED <<kind, sub, job, held, sess, get, inputs, spoiled>>

\* The call fails and is logged; nothing tries it again.
BillFails(n) ==
    /\ node[n].at \in {"bill", "write"}
    /\ Fault(node[n].task)
    /\ node' = [node EXCEPT ![n] = Back(n, node[n].task)]
    /\ UNCHANGED <<kind, sub, job, row, held, sess, get>>

\* The node dies; what it was about to bill stays as it is.
Crash(n) ==
    /\ node[n].at # "idle"
    /\ Input
    /\ spoiled' = spoiled \cup {t \in Tasks : Billing(n, t)}
    /\ node' = [node EXCEPT ![n] = Idle]
    /\ UNCHANGED <<kind, sub, job, row, held, sess, get>>

-----------------------------------------------------------------------------
(***************************************************************************)
(* tryRealtimeFetch: a query of the caller for a Gemini or Vertex task     *)
(* reads the row, asks the provider and writes what it heard, if it heard  *)
(* anything new.                                                           *)
(***************************************************************************)
GetRead(t) ==
    /\ kind[t].live /\ row[t].status # "absent" /\ get[t] = NoRow
    /\ Input
    /\ get' = [get EXCEPT ![t] = [row[t] EXCEPT !.old = FALSE]]
    /\ UNCHANGED <<kind, sub, job, row, held, sess, node, spoiled>>

GetWrite(t) ==
    /\ get[t] # NoRow
    /\ \/ \E a \in Answers(t) \cap (Unfinished \cup Terminal), full \in BOOLEAN :
            UpdateWithStatus(t, get[t].status, [get[t] EXCEPT !.status = a, !.full = full])
       \/ UNCHANGED row
    /\ get' = [get EXCEPT ![t] = NoRow]
    /\ UNCHANGED <<kind, sub, job, held, sess, node, inputs, spoiled>>

-----------------------------------------------------------------------------
Submission(t) ==
    \/ PreConsume(t) \/ SubmitFails(t) \/ SubmitAccepted(t) \/ Insert(t)
    \/ InsertLost(t) \/ Settle(t) \/ SubmitDies(t)

PassWork(n) ==
    \/ StartSweep(n) \/ StartPoll(n) \/ Apply(n) \/ Bill(n) \/ WriteQuota(n)
    \/ \E t \in Tasks : FailAndRefund(n, t) \/ Fetch(n, t)

Next ==
    \/ \E t \in Tasks : \/ Submission(t) \/ JobStarts(t) \/ JobEnds(t) \/ TimesOut(t)
                        \/ GetRead(t) \/ GetWrite(t)
    \/ \E n \in Nodes : PassWork(n) \/ BillFails(n) \/ Crash(n)

Spec == Init /\ [][Next]_vars

\* The system task runner starts a pass every 15 seconds while a task is unfinished, and
\* submissions grow old.
FairSpec ==
    /\ Spec
    /\ \A n \in Nodes : WF_vars(PassWork(n))
    /\ \A t \in Tasks : WF_vars(TimesOut(t))

-----------------------------------------------------------------------------
(***************************************************************************)
(* Properties.                                                             *)
(***************************************************************************)

Pass == [at : {"idle", "pick", "answer", "bill", "write"}, pass : {"sweep", "poll"},
         todo : SUBSET Tasks, mem : [Tasks -> Row], task : Tasks,
         ans : {"none", "bad", "gone"} \cup Unfinished \cup Terminal, due : Quotas,
         refund : BOOLEAN]

\* Rows, charges, sessions and the memory of the passes keep their types.
TypeOK ==
    /\ kind \in [Tasks -> [payer : {"wallet", "organization"}, live : BOOLEAN]]
    /\ sub \in [Tasks -> [at : {"new", "charged", "accepted", "durable", "over", "lost"},
                          pre : Quotas, quota : Quotas]]
    /\ job \in [Tasks -> [state : {"none", "queued", "immediate", "IN_PROGRESS", "gone"} \cup Terminal,
                          metered : BOOLEAN, usage : Quotas, id : BOOLEAN]]
    /\ row \in [Tasks -> Row] /\ get \in [Tasks -> Row]
    /\ held \in [Tasks -> Int]
    /\ sess \in [Tasks -> {"none", "pre_consumed", "settled", "refunded"}]
    /\ node \in [Nodes -> Pass]
    /\ inputs \in Nat /\ spoiled \subseteq Tasks

\* Nobody is about to change the charge of the task.
Quiet(t) == sub[t].at = "over" /\ \A n \in Nodes : ~Billing(n, t)

\* What the outcome of a task is worth: a success the usage it reported if it is metered,
\* else the price it was stored with; a failure that usage or nothing.
Worth(t) ==
    IF row[t].status = "SUCCESS"
        THEN {IF job[t].metered THEN job[t].usage ELSE sub[t].quota}
        ELSE {0, job[t].usage}

\* However passes, sweeps and the submission interleave, the row tells what a wallet has
\* paid (a refund gives back the quota of the row), and at the end that is exactly what the
\* outcome is worth.
PaidForOutcome ==
    \A t \in Tasks \ spoiled :
        Quiet(t) /\ row[t].status # "absent" /\ ~IsOrg(t) /\ ~kind[t].live
            => /\ row[t].quota = held[t]
               /\ row[t].status \in Terminal => held[t] \in Worth(t)

\* Crashes and failing calls may leave a refund undone, but never make the payer receive
\* more than it gave, as long as no stored row was taken for a failed insert.
NeverPaysOut ==
    \A t \in Tasks : ~kind[t].live /\ sub[t].at # "lost" => held[t] >= 0

\* An organization, too, pays what the outcome is worth: its session is "settled at the
\* actual amount, more or less in one transaction" (async_billing.go).
OrganizationPaysActual ==
    \A t \in Tasks \ spoiled :
        Quiet(t) /\ row[t].status \in Terminal /\ IsOrg(t) /\ ~kind[t].live
            => held[t] \in Worth(t)

\* The refund is made by whoever wins the row, so at most once (failAndRefundTasks), also
\* for a task its caller may query.
RefundedAtMostOnce ==
    \A t \in Tasks : sub[t].at # "lost" => held[t] >= 0

\* Passes of several nodes with stale copies never reopen or turn a task that has ended.
EndedIsFinal ==
    [][\A t \in Tasks : ~kind[t].live /\ row[t].status \in Terminal
            => row'[t].status = row[t].status]_vars

\* Every stored task ends, by its result, by failing polls or by the sweep, unless it comes
\* to stand at "100%" unfinished: then no pass and no sweep selects it again.
TaskEnds ==
    \A t \in Tasks :
        row[t].status \in Unfinished ~> (row[t].status \in Terminal \/ [](row[t].full))

=============================================================================
