----------------------------- MODULE StudioJob -----------------------------
(***************************************************************************)
(* What the image studio's queue promises the browser about one job: the   *)
(* life of the status that GET /api/media-studio/image-jobs/{key} returns  *)
(* (service/studioqueue/queue.go, type Status and the methods of Queue).   *)
(*                                                                         *)
(* The promise is stated without gateways, dispatchers, leases or timers.  *)
(* StudioQueue is shown to implement it, and StudioBrowser is built on it: *)
(* the browser may rely on what is here and on nothing else.               *)
(***************************************************************************)
EXTENDS FiniteSets

CONSTANTS Jobs,      \* submissions: one idempotency key, one job id
          Accounts   \* who may submit them

VARIABLE job         \* the status of each submission

Ended == {"cancelled", "completed", "failed", "expired", "released"}

States == {"none", "queued", "running", "cancelling", "gone", "lost"} \union Ended

\* `state`, `cancel_requested` and `result_committed` are the fields of Status;
\* `active` is the entry's flag, from which recovery_pending is computed.  `late` is no
\* field: the job runs on although the lease of its account has run out.
Status == [state : States, owner : Accounts, active : BOOLEAN, cancelReq : BOOLEAN,
           committed : BOOLEAN, late : BOOLEAN]

\* The owner of a job that was not submitted means nothing.
NotSubmitted == [state |-> "none", owner |-> CHOOSE a \in Accounts : TRUE, active |-> FALSE,
                 cancelReq |-> FALSE, committed |-> FALSE, late |-> FALSE]

Queued(a) == [NotSubmitted EXCEPT !.state = "queued", !.owner = a]

\* The account has a job that waits or runs: Submit answers studio_account_busy.  Nothing
\* bounds the time an execution takes, and one that outlives the lease is not seen any more.
Waits(e) == e.state = "queued" \/ (e.active /\ ~e.late)

AccountBusy(a) == \E k \in Jobs : Waits(job[k]) /\ job[k].owner = a

CancelAlways(e) ==
    IF e.state \in {"queued", "completed"} \/ e.active
    THEN [e EXCEPT !.cancelReq = TRUE,
                   !.state = IF e.active /\ @ # "cancelled" THEN "cancelling" ELSE "cancelled"]
    ELSE e

\* What Cancel does to an entry that the gateway still holds.
CancelEffect(e) ==
    IF e.committed THEN e
    ELSE IF e.state = "completed"
         THEN [e EXCEPT !.state = "cancelled", !.cancelReq = TRUE]
         ELSE IF e.active
              THEN [e EXCEPT !.cancelReq = TRUE,
                             !.state = IF @ = "cancelled" THEN @ ELSE "cancelling"]
              ELSE IF e.state = "queued"
                   THEN [e EXCEPT !.cancelReq = TRUE, !.state = "cancelled"]
                   ELSE e

\* How execute leaves the entry, given whether Run returned an image.
ConcludeEffect(e, ok) ==
    [e EXCEPT !.active = FALSE, !.late = FALSE,
              !.state = IF e.cancelReq THEN "cancelled"
                        ELSE IF ok THEN "completed" ELSE "failed"]

Held(e) == e.state \notin {"none", "gone", "lost"}

-----------------------------------------------------------------------------
Init == job = [j \in Jobs |-> NotSubmitted]

Becomes(j, e) == job' = [job EXCEPT ![j] = e]

Submit(j, a) == /\ job[j].state = "none"
                /\ ~AccountBusy(a)
                /\ Becomes(j, Queued(a))

Dispatch(j) == /\ job[j].state = "queued"
               /\ Becomes(j, [job[j] EXCEPT !.state = "running", !.active = TRUE])

\* Billing and cancellation exclude each other here.
CommitResult(j) == /\ job[j].active
                   /\ ~job[j].cancelReq /\ ~job[j].committed
                   /\ Becomes(j, [job[j] EXCEPT !.committed = TRUE])

\* A committed result is always the one that is kept for collection.
Conclude(j) == /\ job[j].active
               /\ Becomes(j, ConcludeEffect(job[j], job[j].committed))

Cancel(j) == /\ Held(job[j])
             /\ Becomes(j, CancelEffect(job[j]))

Ack(j) == /\ job[j].state \in Ended
          /\ ~job[j].active
          /\ Becomes(j, [job[j] EXCEPT !.state = "released"])

\* A gateway restarts and its jobs, RAM only, are lost together.
Restart(js) == job' = [j \in Jobs |-> IF j \in js /\ Held(job[j])
                                      THEN [job[j] EXCEPT !.state = "lost", !.active = FALSE,
                                                          !.late = FALSE]
                                      ELSE job[j]]

\* What a pass of the dispatcher, or time alone, may make of an entry: a cancellation
\* counts after 30 seconds, cleaned up or not; a waiting job expires; an ended one is
\* forgotten; a running one outlives the lease of its account.
Ages(e) == {e}
      \union (IF e.active THEN {[e EXCEPT !.late = TRUE]} ELSE {})
      \union (IF e.active /\ e.state = "cancelling"
              THEN {[e EXCEPT !.state = "cancelled"]} ELSE {})
      \union (IF e.state = "queued" THEN {[e EXCEPT !.state = "expired"]} ELSE {})
      \union (IF e.state \in Ended /\ ~e.active THEN {[e EXCEPT !.state = "gone"]} ELSE {})

Age(j) == \E e \in Ages(job[j]) \ {job[j]} : Becomes(j, e)

\* One pass ages any number of entries together.
Sweep == /\ DOMAIN job' = Jobs
         /\ \A j \in Jobs : job'[j] \in Ages(job[j])

Next == \/ \E j \in Jobs : \/ \E a \in Accounts : Submit(j, a)
                           \/ Dispatch(j) \/ CommitResult(j)
                           \/ Conclude(j) \/ Cancel(j) \/ Ack(j)
        \/ \E js \in SUBSET Jobs : Restart(js)
        \/ Sweep

Spec == Init /\ [][Next]_job
=============================================================================
