------------------------------ MODULE SystemTask ------------------------------
(***************************************************************************)
(* Background tasks on several master nodes (model/system_task.go,         *)
(* service/system_task.go).                                                *)
(*                                                                         *)
(* A task row is pending, running, then succeeded or failed.  Its unique   *)
(* active_key admits one unfinished row per type; the lock row of the type *)
(* is a lease.  Every node runs one loop: fail the tasks of stale locks,   *)
(* create the tasks that are due, claim the earliest pending one; each     *)
(* claimed task runs in a goroutine of its own whose heartbeat renews the  *)
(* lease.  No two database calls of the loop share a transaction, so each  *)
(* is an action, and other nodes may act and time may pass in between.     *)
(* Types do not interact: the module is about the rows of one type.        *)
(***************************************************************************)
EXTENDS Integers

CONSTANTS
  Runners,      \* runner ids; a node that restarts draws a new one
  NoRunner,     \* the empty locked_by
  Callers,      \* administrators that enqueue a task by hand
  TTL,          \* systemTaskLockTTL
  Period,       \* Interval() of the scheduled handler
  Legacy,       \* TRUE: the table may start with a pending row without active_key
  MaxTasks,     \* bound: rows of the table
  MaxTime,      \* bound: the clock stops here
  Horizon,      \* bound: no row is created, no lease renewed, nothing fails after this time
  MaxCrashes,   \* bound: nodes that die
  MaxFaults     \* bound: database calls that return an error

ASSUME TaskConstants ==
  /\ NoRunner \notin Runners
  /\ TTL \in Nat \ {0} /\ Period \in Nat
  /\ Legacy \in BOOLEAN
  /\ MaxTasks \in Nat /\ MaxTime \in Nat /\ Horizon \in Nat
  /\ MaxCrashes \in Nat /\ MaxFaults \in Nat

VARIABLES
  task,     \* the rows of system_tasks by id
  lock,     \* the row of system_task_locks
  loop,     \* the runner loop of each node, with its local variables
  run,      \* the goroutine of a claimed task, by task and runner
  asked,    \* callers that found no active task and are about to create one
  adrift,   \* tasks started by a claim that had lost its lease, or was about to give it up
  now, crashes, faults

vars == <<task, lock, loop, run, asked, adrift, now, crashes, faults>>

Ids == 1 .. MaxTasks
NoRow == [status |-> "absent", key |-> FALSE, by |-> NoRunner, updated |-> 0]
NoLock == [id |-> 0, by |-> NoRunner, until |-> 0]
NoClaim == [id |-> 0, at |-> 0, until |-> 0, old |-> 0, oldBy |-> NoRunner]
Active == {"pending", "running"}

Init ==
  /\ task \in {[i \in Ids |-> NoRow]} \cup
       {[i \in Ids |-> IF i = 1 THEN [NoRow EXCEPT !.status = "pending"] ELSE NoRow] :
          legacy \in {Legacy} \ {FALSE}}
  /\ lock = NoLock
  /\ loop = [w \in Runners |-> [pc |-> "stale", claim |-> NoClaim]]
  /\ run = [i \in Ids |-> [w \in Runners |-> "none"]]
  /\ asked = {} /\ adrift = {}
  /\ now = 1 /\ crashes = 0 /\ faults = 0

(***************************************************************************)
(* The statements.                                                         *)
(***************************************************************************)
LockedBy(i, w) == lock.id = i /\ lock.by = w
Held(i, w) == LockedBy(i, w) /\ lock.until >= now

\* Faulty variant: the clock in seconds meets a lease in milliseconds.
ExpiredInMillis(t) == lock.id # 0 /\ lock.until * 1000 < t

\* locked_until < t
Expired(t) == lock.id # 0 /\ lock.until < t

\* Faulty variant: the status is not part of the condition.
MarkBlindly(i) ==
  task' = [task EXCEPT ![i].status = "failed", ![i].key = FALSE, ![i].updated = now]

\* Faulty variant: the active_key stays.
MarkKeepsKey(i) ==
  task' = IF i \in Ids /\ task[i].status = "running"
          THEN [task EXCEPT ![i].status = "failed", ![i].updated = now]
          ELSE task

MarkSystemTaskLeaseExpired(i) ==
  task' = IF i \in Ids /\ task[i].status = "running"
          THEN [task EXCEPT ![i].status = "failed", ![i].key = FALSE, ![i].updated = now]
          ELSE task

ReleaseSystemTaskLock(i, w) == lock' = IF LockedBy(i, w) THEN NoLock ELSE lock

\* Faulty variant: the row is inserted without its status.
CreateWithoutStatus ==
  \E i \in Ids :
    /\ task[i].status = "absent"
    /\ task' = [task EXCEPT ![i] = [status |-> "", key |-> TRUE, by |-> NoRunner, updated |-> now]]

\* The unique index on active_key refuses a second active row; a full table (a bound)
\* does too.
CreateSystemTask ==
  LET absent == {i \in Ids : task[i].status = "absent"}
  IN IF absent # {} /\ now <= Horizon /\ \A i \in Ids : ~task[i].key
     THEN \E i \in absent :
            /\ \A j \in absent : i <= j
            /\ task' = [task EXCEPT ![i] = [status |-> "pending", key |-> TRUE,
                                            by |-> NoRunner, updated |-> now]]
     ELSE UNCHANGED task

(***************************************************************************)
(* The runner loop: stale locks, schedule, claim.                          *)
(***************************************************************************)
At(w, pc) == loop[w].pc = pc
Goto(w, pc) == loop' = [loop EXCEPT ![w].pc = pc]
Restart(w) == loop' = [loop EXCEPT ![w] = [pc |-> "stale", claim |-> NoClaim]]
Fault == faults < MaxFaults /\ now <= Horizon /\ faults' = faults + 1

\* ExpireStaleSystemTaskLocks reads the stale lock, ...
StaleRead(w) ==
  /\ At(w, "stale")
  /\ loop' = [loop EXCEPT ![w] =
       IF Expired(now)
       THEN [pc |-> "stale_mark",
             claim |-> [NoClaim EXCEPT !.at = now, !.old = lock.id, !.oldBy = lock.by]]
       ELSE [pc |-> "schedule", claim |-> NoClaim]]
  /\ UNCHANGED <<task, lock, run, asked, adrift, now, crashes, faults>>

\* ... fails the task it names, whoever holds the lock by now, ...
StaleMark(w) ==
  /\ At(w, "stale_mark")
  /\ MarkSystemTaskLeaseExpired(loop[w].claim.old)
  /\ Goto(w, "stale_delete")
  /\ UNCHANGED <<lock, run, asked, adrift, now, crashes, faults>>

\* Faulty variant: the lock goes, whoever holds it by now.
StaleDeleteBlindly(w) ==
  /\ At(w, "stale_delete")
  /\ lock' = NoLock
  /\ Goto(w, "schedule")
  /\ UNCHANGED <<task, run, asked, adrift, now, crashes, faults>>

\* ... and deletes the lock if it is still the one it read.
StaleDelete(w) ==
  LET c == loop[w].claim
  IN /\ At(w, "stale_delete")
     /\ lock' = IF LockedBy(c.old, c.oldBy) /\ Expired(c.at) THEN NoLock ELSE lock
     /\ Goto(w, "schedule")
     /\ UNCHANGED <<task, run, asked, adrift, now, crashes, faults>>

\* An error ends the pass over the locks, and the loop goes on; what the failed statement
\* was to do may have been done.
StaleFails(w) ==
  /\ loop[w].pc \in {"stale", "stale_mark", "stale_delete"} /\ Fault
  /\ \/ UNCHANGED task
     \/ At(w, "stale_mark") /\ MarkSystemTaskLeaseExpired(loop[w].claim.old)
  /\ Goto(w, "schedule")
  /\ UNCHANGED <<lock, run, asked, adrift, now, crashes>>

\* runSystemTaskScheduler: the latest row is finished and old enough; the handler's
\* Enabled() may say no.
Due ==
  \A i \in Ids :
    task[i].status # "absent" /\ (\A j \in Ids : task[j].status # "absent" => j <= i)
      => task[i].status \notin Active /\ now - task[i].updated >= Period

Schedule(w) ==
  /\ At(w, "schedule")
  /\ \E pc \in {"claim"} \cup (IF Due THEN {"create"} ELSE {}) : Goto(w, pc)
  /\ UNCHANGED <<task, lock, run, asked, adrift, now, crashes, faults>>

Create(w) ==
  /\ At(w, "create")
  /\ CreateSystemTask
  /\ Goto(w, "claim")
  /\ UNCHANGED <<lock, run, asked, adrift, now, crashes, faults>>

\* runSystemTaskClaimPass looks for the earliest pending row ...
ClaimFind(w) ==
  /\ At(w, "claim")
  /\ \/ /\ \A i \in Ids : task[i].status # "pending"
        /\ Restart(w)
     \/ \E i \in Ids :
          /\ task[i].status = "pending"
          /\ \A j \in Ids : task[j].status = "pending" => i <= j
          /\ loop' = [loop EXCEPT ![w] = [pc |-> "found", claim |-> [NoClaim EXCEPT !.id = i]]]
  /\ UNCHANGED <<task, lock, run, asked, adrift, now, crashes, faults>>

\* ... and ClaimSystemTask reads it again: another node may have taken it meanwhile.
ClaimRead(w) ==
  LET i == loop[w].claim.id
  IN /\ At(w, "found")
     /\ IF i \in Ids /\ task[i].status = "pending"
        THEN loop' = [loop EXCEPT ![w] =
               [pc |-> "insert",
                claim |-> [NoClaim EXCEPT !.id = i, !.at = now, !.until = now + TTL]]]
        ELSE Restart(w)
     /\ UNCHANGED <<task, lock, run, asked, adrift, now, crashes, faults>>

\* The lease that the claim asked for has run out.
Overtaken(w) == now > loop[w].claim.until

Claimed(w) == [id |-> loop[w].claim.id, by |-> w, until |-> loop[w].claim.until]

\* acquireSystemTaskLock: the lock row is inserted, ...
ClaimInsert(w) ==
  /\ At(w, "insert")
  /\ IF lock = NoLock
     THEN lock' = Claimed(w) /\ Goto(w, "start")
     ELSE Goto(w, "look") /\ UNCHANGED lock
  /\ UNCHANGED <<task, run, asked, adrift, now, crashes, faults>>

\* ... or, when that fails for whatever reason, the row that is there is read ...
ClaimInsertFails(w) ==
  /\ At(w, "insert") /\ Fault
  /\ lock' \in {lock} \cup (IF lock = NoLock THEN {Claimed(w)} ELSE {})
  /\ Goto(w, "look")
  /\ UNCHANGED <<task, run, asked, adrift, now, crashes>>

ClaimLook(w) ==
  /\ At(w, "look")
  /\ IF Expired(loop[w].claim.at)
     THEN loop' = [loop EXCEPT ![w].pc = "take", ![w].claim.old = lock.id]
     ELSE Restart(w)
  /\ UNCHANGED <<task, lock, run, asked, adrift, now, crashes, faults>>

\* ... and taken over if it is stale.
ClaimTake(w) ==
  LET c == loop[w].claim
  IN /\ At(w, "take")
     /\ IF Expired(c.at)
        THEN lock' = Claimed(w) /\ Goto(w, IF c.old # c.id THEN "mark" ELSE "start")
        ELSE Restart(w) /\ UNCHANGED lock
     /\ UNCHANGED <<task, run, asked, adrift, now, crashes, faults>>

\* The task of the lease that was taken over is failed.
ClaimMark(w) ==
  /\ At(w, "mark")
  /\ MarkSystemTaskLeaseExpired(loop[w].claim.old)
  /\ Goto(w, "start")
  /\ UNCHANGED <<lock, run, asked, adrift, now, crashes, faults>>

\* Faulty variant: the status is not part of the condition.
ClaimStartBlindly(w) ==
  LET i == loop[w].claim.id
  IN /\ At(w, "start")
     /\ task' = [task EXCEPT ![i].status = "running", ![i].by = w,
                             ![i].updated = loop[w].claim.at]
     /\ run' = [run EXCEPT ![i][w] = "running"]
     /\ Restart(w)
     /\ UNCHANGED <<lock, asked, adrift, now, crashes, faults>>

\* pending becomes running, and the handler is dispatched with its heartbeat; when the
\* row is not pending any more the lock is given back.
ClaimStart(w) ==
  LET i == loop[w].claim.id
  IN /\ At(w, "start")
     /\ IF i \in Ids /\ task[i].status = "pending"
        THEN /\ task' = [task EXCEPT ![i].status = "running", ![i].by = w,
                                     ![i].updated = loop[w].claim.at]
             /\ run' = [run EXCEPT ![i][w] = "running"]
             /\ adrift' = IF Overtaken(w) THEN adrift \cup {i} ELSE adrift
             /\ Restart(w)
        ELSE Goto(w, "release") /\ UNCHANGED <<task, run, adrift>>
     /\ UNCHANGED <<lock, asked, now, crashes, faults>>

\* An error of the UPDATE or of the mark before it gives the lock back, also when only
\* the reply was lost; an error of the read after it only gives up.
ClaimFails(w) ==
  LET i == loop[w].claim.id
  IN /\ loop[w].pc \in {"mark", "start"} /\ Fault
     /\ \/ /\ Goto(w, "release") /\ UNCHANGED adrift
           /\ UNCHANGED task \/ (At(w, "mark") /\ MarkSystemTaskLeaseExpired(loop[w].claim.old))
        \/ /\ At(w, "start") /\ i \in Ids /\ task[i].status = "pending"
           /\ task' = [task EXCEPT ![i].status = "running", ![i].by = w,
                                   ![i].updated = loop[w].claim.at]
           /\ \/ Goto(w, "release") /\ adrift' = adrift \cup {i}
              \/ /\ Restart(w)
                 /\ adrift' = IF Overtaken(w) THEN adrift \cup {i} ELSE adrift
     /\ UNCHANGED <<lock, run, asked, now, crashes>>

ClaimRelease(w) ==
  /\ At(w, "release")
  /\ ReleaseSystemTaskLock(loop[w].claim.id, w)
  /\ Restart(w)
  /\ UNCHANGED <<task, run, asked, adrift, now, crashes, faults>>

\* Errors of the reads and of the takeover give up, also when the takeover was done; so
\* does an error of the release, which is ignored.
ClaimAbandons(w) ==
  /\ loop[w].pc \in {"claim", "found", "look", "take", "release"} /\ Fault
  /\ lock' \in {lock} \cup (IF At(w, "take") /\ Expired(loop[w].claim.at)
                            THEN {Claimed(w)} ELSE {})
  /\ Restart(w)
  /\ UNCHANGED <<task, run, asked, adrift, now, crashes>>

(***************************************************************************)
(* The handler of task i on runner w.                                      *)
(***************************************************************************)
Becomes(i, w, state) == run' = [run EXCEPT ![i][w] = state]

\* RenewSystemTaskLock; a lost lease, or an error, cancels the handler's context.
Heartbeat(i, w) ==
  /\ run[i][w] \in {"running", "finishing"} /\ now <= Horizon
  /\ IF Held(i, w)
     THEN lock' = [lock EXCEPT !.until = now + TTL] /\ UNCHANGED run
     ELSE /\ run[i][w] = "running"
          /\ Becomes(i, w, "cancelled") /\ UNCHANGED lock
  /\ UNCHANGED <<task, loop, asked, adrift, now, crashes, faults>>

HeartbeatFails(i, w) ==
  /\ run[i][w] = "running" /\ Fault
  /\ Becomes(i, w, "cancelled")
  /\ UNCHANGED <<task, lock, loop, asked, adrift, now, crashes>>

MayWrite(i, w) == task[i].status = "running" /\ task[i].by = w /\ Held(i, w)

\* UpdateSystemTaskState: the log cleanup stops when the lock is lost, the progress
\* reporter of the other handlers does not mind.
Progress(i, w) ==
  /\ run[i][w] \in {"running", "cancelled"}
  /\ IF MayWrite(i, w)
     THEN task' = [task EXCEPT ![i].updated = now] /\ UNCHANGED run
     ELSE Becomes(i, w, "done") /\ UNCHANGED task
  /\ UNCHANGED <<lock, loop, asked, adrift, now, crashes, faults>>

\* FinishSystemTask, its UPDATE ...
Finish(i, w, status) ==
  /\ run[i][w] \in {"running", "cancelled"}
  /\ IF MayWrite(i, w)
     THEN /\ task' = [task EXCEPT ![i].status = status, ![i].key = FALSE, ![i].updated = now]
          /\ Becomes(i, w, "finishing")
     ELSE Becomes(i, w, "done") /\ UNCHANGED task
  /\ UNCHANGED <<lock, loop, asked, adrift, now, crashes, faults>>

\* ... and its release.
FinishRelease(i, w) ==
  /\ run[i][w] = "finishing"
  /\ ReleaseSystemTaskLock(i, w)
  /\ Becomes(i, w, "done")
  /\ UNCHANGED <<task, loop, asked, adrift, now, crashes, faults>>

\* An error of a write ends the handler without a release; the write may have happened.
HandlerFails(i, w) ==
  /\ run[i][w] \in {"running", "cancelled", "finishing"} /\ Fault
  /\ \/ UNCHANGED task
     \/ /\ run[i][w] # "finishing" /\ MayWrite(i, w)
        /\ \E status \in {"succeeded", "failed"} :
             task' = [task EXCEPT ![i].status = status, ![i].key = FALSE, ![i].updated = now]
  /\ Becomes(i, w, "done")
  /\ UNCHANGED <<lock, loop, asked, adrift, now, crashes>>

(***************************************************************************)
(* Callers, crashes and the clock.                                         *)
(***************************************************************************)
\* EnqueueSystemTask, StartLogCleanupTask: look for an active task, then create one.
EnqueueLook(c) ==
  /\ c \notin asked /\ now <= Horizon
  /\ \A i \in Ids : task[i].status \notin Active
  /\ asked' = asked \cup {c}
  /\ UNCHANGED <<task, lock, loop, run, adrift, now, crashes, faults>>

EnqueueCreate(c) ==
  /\ c \in asked
  /\ CreateSystemTask
  /\ asked' = asked \ {c}
  /\ UNCHANGED <<lock, loop, run, adrift, now, crashes, faults>>

Crash(w) ==
  /\ ~At(w, "down") /\ crashes < MaxCrashes /\ now <= Horizon
  /\ crashes' = crashes + 1
  /\ loop' = [loop EXCEPT ![w] = [pc |-> "down", claim |-> NoClaim]]
  /\ run' = [i \in Ids |-> [run[i] EXCEPT ![w] = IF @ = "none" THEN "none" ELSE "done"]]
  /\ UNCHANGED <<task, lock, asked, adrift, now, faults>>

Tick ==
  /\ now < MaxTime
  /\ now' = now + 1
  /\ UNCHANGED <<task, lock, loop, run, asked, adrift, crashes, faults>>

LoopStep(w) ==
  \/ StaleRead(w) \/ StaleMark(w) \/ StaleDelete(w)
  \/ Schedule(w) \/ Create(w)
  \/ ClaimFind(w) \/ ClaimRead(w) \/ ClaimInsert(w) \/ ClaimLook(w) \/ ClaimTake(w)
  \/ ClaimMark(w) \/ ClaimStart(w) \/ ClaimRelease(w)

LoopFault(w) == StaleFails(w) \/ ClaimInsertFails(w) \/ ClaimFails(w) \/ ClaimAbandons(w)

HandlerEnds(i, w) ==
  FinishRelease(i, w) \/ \E status \in {"succeeded", "failed"} : Finish(i, w, status)

HandlerStep(i, w) ==
  \/ HandlerEnds(i, w) \/ Heartbeat(i, w) \/ HeartbeatFails(i, w)
  \/ Progress(i, w) \/ HandlerFails(i, w)

Next ==
  \/ \E w \in Runners : LoopStep(w) \/ LoopFault(w) \/ Crash(w)
  \/ \E i \in Ids, w \in Runners : HandlerStep(i, w)
  \/ \E c \in Callers : EnqueueLook(c) \/ EnqueueCreate(c)
  \/ Tick

Spec == Init /\ [][Next]_vars

\* The loops of the nodes that are up keep turning, the clock goes on, and a handler ends:
\* its Run must finish the task before it returns.
FairSpec ==
  /\ Spec
  /\ WF_vars(Tick)
  /\ \A w \in Runners : WF_vars(LoopStep(w))
  /\ \A i \in Ids, w \in Runners : WF_vars(HandlerEnds(i, w))

(***************************************************************************)
(* Properties.                                                             *)
(***************************************************************************)
RowType ==
  [status : {"absent", "pending", "running", "succeeded", "failed"}, key : BOOLEAN,
   by : Runners \cup {NoRunner}, updated : Nat]

ClaimType ==
  [id : Ids \cup {0}, at : Nat, until : Nat, old : Ids \cup {0},
   oldBy : Runners \cup {NoRunner}]

Stages ==
  {"stale", "stale_mark", "stale_delete", "schedule", "create", "claim", "found", "insert",
   "look", "take", "mark", "start", "release", "down"}

LoopType == [pc : Stages, claim : ClaimType]

TypeOK ==
  /\ task \in [Ids -> RowType]
  /\ lock \in [id : Ids \cup {0}, by : Runners \cup {NoRunner}, until : Nat]
  /\ loop \in [Runners -> LoopType]
  /\ run \in [Ids -> [Runners -> {"none", "running", "cancelled", "finishing", "done"}]]
  /\ asked \subseteq Callers /\ adrift \subseteq Ids
  /\ now \in Nat /\ crashes \in Nat /\ faults \in Nat

\* A claimed task names its runner.
RunIsBy ==
  \A i \in Ids, w \in Runners :
    run[i][w] # "none" => task[i].by = w /\ task[i].status \notin {"absent", "pending"}

\* A task is executed by one runner only, and not again: claims that race, or that time has
\* overtaken, never dispatch it a second time, and nothing makes it pending once it was
\* dispatched ("the per-type lock guarantees only one runner executes the task"; it is the
\* conditional UPDATE of the status that does).
ExecutedOnce ==
  \A i \in Ids, v \in Runners : run[i][v] # "none" =>
    /\ task[i].status # "pending"
    /\ \A w \in Runners : run[i][w] # "none" => v = w

KeyIsActive ==
  \A i \in Ids :
    /\ task[i].key => task[i].status \in Active
    /\ task[i].status \in Active => task[i].key \/ (Legacy /\ i = 1)

\* At most one row holds the active_key, a row created by this code holds it exactly until
\* it is finished: a key left behind would stop all later tasks of the type.
OneActive == KeyIsActive /\ \A i, j \in Ids : task[i].key /\ task[j].key => i = j

\* A finished task stays as it is: a late heartbeat, a stale claim or a stale-lock pass
\* of another node never reopens it or rewrites its outcome.
FinishedIsFinal ==
  [][\A i \in Ids : task[i].status \in {"succeeded", "failed"} => task'[i] = task[i]]_vars

\* The task runs, and the lock was its runner's when it started.
Sound(i) == task[i].status = "running" /\ i \notin adrift

\* A running task is locked by its runner; without the lock nobody would ever fail the task
\* when its node dies, and its active_key would stop the type for good.  The one way to lose
\* it is a claim that pauses for longer than its own lease, or whose UPDATE is done although
\* an error is reported: no takeover, stale-lock pass or late release of another node takes
\* the lock from a task that runs.
RunningIsLocked == \A i \in Ids : Sound(i) => LockedBy(i, task[i].by)

Asking == {"insert", "look", "take"}
Acquired == {"mark", "start", "release"}

\* The rest of the invariant makes RunningIsLocked inductive.
\* A claim is for a task that its node does not run.
ClaimIsFresh ==
  \A w \in Runners : loop[w].pc \in Asking \cup Acquired =>
    LET c == loop[w].claim
    IN /\ c.id \in Ids /\ c.at <= now /\ run[c.id][w] = "none"
       /\ Sound(c.id) => task[c.id].by # w

\* A claim that got the lock has it for as long as it asked for.
HasLock(w) == loop[w].pc \in Acquired /\ ~Overtaken(w)

ClaimHasLock == \A w \in Runners : HasLock(w) => lock = Claimed(w)

\* A claim on its way to the lock finds no running task behind a stale lock.
NoRunBehindStaleLock ==
  \A w \in Runners, i \in Ids :
    loop[w].pc \in Asking /\ Sound(i) => lock.until >= loop[w].claim.at

\* A stale-lock pass that has marked its task deletes no lock of a later run.
NoRunBehindStaleDelete ==
  \A w \in Runners : loop[w].pc \in {"stale_mark", "stale_delete"} =>
    LET c == loop[w].claim
    IN /\ c.old \in Ids /\ c.at <= now
       /\ loop[w].pc = "stale_delete" /\ Sound(c.old) => lock.until >= c.at

\* A handler that has finished its task releases the lock of no running task.
FinishingIsFinished ==
  \A i \in Ids, w \in Runners : run[i][w] = "finishing" => ~Sound(i)

\* The lease protocol: claims and stale-lock passes may act long after they read, and act
\* on the lock of no task that runs under its lease.
LeaseInv ==
  /\ RunningIsLocked /\ ClaimIsFresh /\ ClaimHasLock /\ NoRunBehindStaleLock
  /\ NoRunBehindStaleDelete /\ FinishingIsFinished

\* Every task that runs ends, also when its node dies or its claim reported an error: the
\* stale-lock pass fails it, unless it was started without a lease.
RunsEnd ==
  \A i \in Ids :
    (task[i].status = "running") ~> (task[i].status \in {"succeeded", "failed"} \/ i \in adrift)

\* A pending task is claimed in the end: a dead node's lock does not hold the type up.
PendingStarts ==
  \A i \in Ids : (task[i].status = "pending") ~> (task[i].status # "pending")

(***************************************************************************)
(* What the comments say and the code does not do.                         *)
(***************************************************************************)

\* The runner is to "mark expired leases failed": no task runs for ever, also when its claim
\* took longer than its lease or reported an error.
EveryRunEnds ==
  \A i \in Ids : (task[i].status = "running") ~> (task[i].status # "running")

\* "An arbitrarily long handler stays alive as long as the heartbeat succeeds": a task under
\* a lease that is held is not failed by another node.
LeaseProtects ==
  [][\A i \in Ids, w \in Runners :
       MayWrite(i, w) /\ task'[i].status = "failed" => run'[i][w] \in {"finishing", "done"}]_vars
=============================================================================
