--------------------------- MODULE SystemTaskProofs ---------------------------
(***************************************************************************)
(* Proofs about the background tasks, for any number of runners, callers   *)
(* and rows.                                                               *)
(***************************************************************************)
EXTENDS SystemTask, TLAPS

States == {"none", "running", "cancelled", "finishing", "done"}

LockType == [id : Ids \cup {0}, by : Runners \cup {NoRunner}, until : Nat]

(***************************************************************************)
(* Types.                                                                  *)
(***************************************************************************)

\* The statements that change a row, as one whole row each: the row is started by w at
\* time t, ended with a status, or stamped by a progress write.
Started(i, w, t) == [task[i] EXCEPT !.status = "running", !.by = w, !.updated = t]
Ended(i, status) == [task[i] EXCEPT !.status = status, !.key = FALSE, !.updated = now]
Stamped(i) == [task[i] EXCEPT !.updated = now]
Put(i, new) == task' = [j \in Ids |-> IF j = i THEN new ELSE task[j]]

\* What a started row holds.
LEMMA StartedRow ==
  ASSUME TypeOK, NEW i \in Ids, NEW w \in Runners, NEW t \in Nat
  PROVE  /\ Started(i, w, t) \in RowType
         /\ Started(i, w, t).status = "running" /\ Started(i, w, t).by = w
         /\ Started(i, w, t).key = task[i].key
  BY DEF TypeOK, RowType, Started

\* What an ended row holds.
LEMMA EndedRow ==
  ASSUME TypeOK, NEW i \in Ids, NEW s \in {"succeeded", "failed"}
  PROVE  /\ Ended(i, s) \in RowType
         /\ Ended(i, s).status = s /\ Ended(i, s).by = task[i].by
         /\ Ended(i, s).key = FALSE
  BY DEF TypeOK, RowType, Ended

\* What a stamped row holds.
LEMMA StampedRow ==
  ASSUME TypeOK, NEW i \in Ids
  PROVE  /\ Stamped(i) \in RowType
         /\ Stamped(i).status = task[i].status /\ Stamped(i).by = task[i].by
         /\ Stamped(i).key = task[i].key
  BY DEF TypeOK, RowType, Stamped

\* The statements put these rows into the table.
LEMMA StartedIs ==
  ASSUME TypeOK, NEW i \in Ids, NEW w, NEW t,
         task' = [task EXCEPT ![i].status = "running", ![i].by = w, ![i].updated = t]
  PROVE  Put(i, Started(i, w, t))
  BY DEF TypeOK, Put, Started

\* The same for an ended row.
LEMMA EndedIs ==
  ASSUME TypeOK, NEW i \in Ids, NEW s,
         task' = [task EXCEPT ![i].status = s, ![i].key = FALSE, ![i].updated = now]
  PROVE  Put(i, Ended(i, s))
  BY DEF TypeOK, Put, Ended

\* The same for a stamped row.
LEMMA StampedIs ==
  ASSUME TypeOK, NEW i \in Ids, task' = [task EXCEPT ![i].updated = now]
  PROVE  Put(i, Stamped(i))
  BY DEF TypeOK, Put, Stamped

\* Replacing a row by a row keeps the type of the table.
LEMMA PutType ==
  ASSUME TypeOK, NEW i \in Ids, NEW new \in RowType, Put(i, new)
  PROVE  task' \in [Ids -> RowType]
  BY DEF TypeOK, Put

\* Failing the task of a stale lock ends one running row or changes nothing.
LEMMA MarkIs ==
  ASSUME TypeOK, NEW i, MarkSystemTaskLeaseExpired(i)
  PROVE  \/ UNCHANGED task
         \/ i \in Ids /\ task[i].status = "running" /\ Put(i, Ended(i, "failed"))
  BY EndedIs DEF MarkSystemTaskLeaseExpired

\* Failing the task of a stale lock keeps the rows' type.
LEMMA MarkType ==
  ASSUME TypeOK, NEW i, MarkSystemTaskLeaseExpired(i)
  PROVE  task' \in [Ids -> RowType]
  BY MarkIs, EndedRow, PutType DEF TypeOK

\* Starting a row, or a claim that names none, keeps the rows' type.
LEMMA StartIs ==
  ASSUME TypeOK, NEW i, NEW w \in Runners, NEW t \in Nat,
         task' = [task EXCEPT ![i].status = "running", ![i].by = w, ![i].updated = t]
  PROVE  /\ task' \in [Ids -> RowType]
         /\ UNCHANGED task \/ (i \in Ids /\ Put(i, Started(i, w, t)))
<1>1. CASE i \in Ids
  BY <1>1, StartedIs, StartedRow, PutType
<1>2. CASE i \notin Ids
  BY <1>2 DEF TypeOK
<1> QED
  BY <1>1, <1>2

\* Creating a row keeps the rows' type.
LEMMA CreateType ==
  ASSUME TypeOK, CreateSystemTask
  PROVE  task' \in [Ids -> RowType]
<1>1. [status |-> "pending", key |-> TRUE, by |-> NoRunner, updated |-> now] \in RowType
  BY DEF TypeOK, RowType
<1> QED
  BY <1>1 DEF TypeOK, CreateSystemTask

\* A lock that a claim writes, or that a release leaves, is a lock.
LEMMA LockTypes ==
  ASSUME TypeOK, NEW w \in Runners
  PROVE  Claimed(w) \in LockType /\ NoLock \in LockType
  BY DEF TypeOK, LoopType, ClaimType, LockType, NoLock, Claimed

\* The loop of a runner keeps its type when only its stage changes, and at a restart.
LEMMA LoopTypes ==
  ASSUME TypeOK, NEW w \in Runners, NEW pc \in Stages, Goto(w, pc) \/ Restart(w)
  PROVE  loop' \in [Runners -> LoopType]
<1>1. CASE Goto(w, pc)
  BY <1>1 DEF TypeOK, Goto, LoopType
<1>2. CASE Restart(w)
  BY <1>2 DEF TypeOK, Restart, LoopType, NoClaim, ClaimType, Stages
<1> QED
  BY <1>1, <1>2

\* A handler's new state keeps the type of run.
LEMMA RunTypes ==
  ASSUME TypeOK, NEW i \in Ids, NEW w \in Runners, NEW state \in States, Becomes(i, w, state)
  PROVE  run' \in [Ids -> [Runners -> States]]
  BY DEF TypeOK, Becomes, States

\* So does the dispatch of a claim, which may name no row.
LEMMA DispatchType ==
  ASSUME TypeOK, NEW i, NEW w \in Runners, Becomes(i, w, "running") \/ UNCHANGED run
  PROVE  run' \in [Ids -> [Runners -> States]]
<1>1. CASE i \in Ids
  BY <1>1, RunTypes DEF TypeOK, States
<1>2. CASE i \notin Ids
  BY <1>2 DEF TypeOK, States, Becomes
<1> QED
  BY <1>1, <1>2

\* The count of errors stays a number.
LEMMA FaultType ==
  ASSUME TypeOK, Fault PROVE faults' \in Nat
  BY DEF TypeOK, Fault

\* A step of the runner loop keeps the types.
LEMMA LoopStepType ==
  ASSUME TypeOK, NEW w \in Runners, LoopStep(w) \/ LoopFault(w)
  PROVE  TypeOK'
<1>0. /\ task \in [Ids -> RowType] /\ lock \in LockType /\ loop \in [Runners -> LoopType]
      /\ loop[w] \in LoopType /\ loop[w].claim \in ClaimType /\ now \in Nat
      /\ run \in [Ids -> [Runners -> States]] /\ asked \subseteq Callers
      /\ crashes \in Nat /\ faults \in Nat /\ adrift \subseteq Ids
  BY DEF TypeOK, LockType, States, LoopType
<1>1. CASE StaleRead(w)
  BY <1>0, <1>1 DEF TypeOK, StaleRead, LoopType, ClaimType, NoClaim, LockType, Stages
<1>2. CASE StaleMark(w)
  BY <1>0, <1>2, MarkType, LoopTypes DEF TypeOK, StaleMark, Stages
<1>3. CASE StaleDelete(w)
  BY <1>0, <1>3, LockTypes, LoopTypes DEF TypeOK, StaleDelete, Stages, LockType
<1>4. CASE StaleFails(w)
  <2>1. task' \in [Ids -> RowType]
    BY <1>0, <1>4, MarkType DEF StaleFails
  <2>2. loop' \in [Runners -> LoopType]
    BY <1>4, LoopTypes DEF StaleFails, Stages
  <2>3. faults' \in Nat
    BY <1>4, FaultType DEF StaleFails
  <2> QED
    BY <1>0, <1>4, <2>1, <2>2, <2>3 DEF TypeOK, StaleFails, States, LockType
<1>5. CASE Schedule(w)
  BY <1>0, <1>5, LoopTypes DEF TypeOK, Schedule, Stages
<1>6. CASE Create(w)
  BY <1>0, <1>6, CreateType, LoopTypes DEF TypeOK, Create, Stages
<1>7. CASE ClaimRead(w)
  <2>1. ASSUME NEW i \in Ids,
               loop' = [loop EXCEPT ![w] = [pc |-> "insert",
                 claim |-> [NoClaim EXCEPT !.id = i, !.at = now, !.until = now + TTL]]]
        PROVE  loop' \in [Runners -> LoopType]
    <3>1. now + TTL \in Nat
      BY <1>0, TaskConstants
    <3>2. [NoClaim EXCEPT !.id = i, !.at = now, !.until = now + TTL] \in ClaimType
      BY <1>0, <3>1 DEF NoClaim, ClaimType
    <3> QED
      BY <1>0, <2>1, <3>2 DEF LoopType, Stages
  <2>2. ASSUME Restart(w) PROVE loop' \in [Runners -> LoopType]
    BY <2>2, LoopTypes DEF Stages
  <2>3. loop' \in [Runners -> LoopType]
    BY <1>7, <2>1, <2>2 DEF ClaimRead
  <2> QED
    BY <1>0, <1>7, <2>3 DEF TypeOK, ClaimRead, States, LockType
<1>17. CASE ClaimFind(w)
  <2>1. ASSUME NEW i \in Ids,
               loop' = [loop EXCEPT ![w] =
                 [pc |-> "found", claim |-> [NoClaim EXCEPT !.id = i]]]
        PROVE  loop' \in [Runners -> LoopType]
    <3>1. [NoClaim EXCEPT !.id = i] \in ClaimType
      BY DEF NoClaim, ClaimType
    <3> QED
      BY <1>0, <2>1, <3>1 DEF LoopType, Stages
  <2>2. ASSUME Restart(w) PROVE loop' \in [Runners -> LoopType]
    BY <2>2, LoopTypes DEF Stages
  <2>3. loop' \in [Runners -> LoopType]
    BY <1>17, <2>1, <2>2 DEF ClaimFind
  <2> QED
    BY <1>0, <1>17, <2>3 DEF TypeOK, ClaimFind, States, LockType
<1>8. CASE ClaimInsert(w)
  BY <1>0, <1>8, LockTypes, LoopTypes DEF TypeOK, ClaimInsert, Stages, LockType
<1>9. CASE ClaimInsertFails(w)
  <2>1. lock' \in LockType
    BY <1>0, <1>9, LockTypes DEF ClaimInsertFails
  <2>2. loop' \in [Runners -> LoopType]
    BY <1>9, LoopTypes DEF ClaimInsertFails, Stages
  <2> QED
    BY <1>0, <1>9, <2>1, <2>2 DEF TypeOK, ClaimInsertFails, Fault, States, LockType
<1>10. CASE ClaimLook(w)
  <2> DEFINE new == [loop[w] EXCEPT !.pc = "take", !.claim = [@ EXCEPT !.old = lock.id]]
  <2>1. [loop[w].claim EXCEPT !.old = lock.id] \in ClaimType
    BY <1>0 DEF ClaimType, LockType
  <2>2. new \in LoopType
    BY <1>0, <2>1 DEF LoopType, Stages
  <2>3. ASSUME loop' = [loop EXCEPT ![w].pc = "take", ![w].claim.old = lock.id]
        PROVE  loop' \in [Runners -> LoopType]
    <3>1. loop' = [loop EXCEPT ![w] = new]
      BY <1>0, <2>3
    <3> HIDE DEF new
    <3> QED
      BY <1>0, <2>2, <3>1
  <2>4. ASSUME Restart(w) PROVE loop' \in [Runners -> LoopType]
    BY <2>4, LoopTypes DEF Stages
  <2>5. loop' \in [Runners -> LoopType]
    BY <1>10, <2>3, <2>4 DEF ClaimLook
  <2> QED
    BY <1>0, <1>10, <2>5 DEF TypeOK, ClaimLook, States, LockType
<1>11. CASE ClaimTake(w)
  BY <1>0, <1>11, LockTypes, LoopTypes DEF TypeOK, ClaimTake, Stages, LockType
<1>12. CASE ClaimMark(w)
  BY <1>0, <1>12, MarkType, LoopTypes DEF TypeOK, ClaimMark, Stages
<1>13. CASE ClaimStart(w)
  <2>1. loop[w].claim.at \in Nat
    BY <1>0 DEF ClaimType
  <2>2. task' \in [Ids -> RowType]
    <3> DEFINE i == loop[w].claim.id
    <3>1. \/ UNCHANGED task
          \/ task' = [task EXCEPT ![i].status = "running", ![i].by = w,
                                  ![i].updated = loop[w].claim.at]
      BY <1>13 DEF ClaimStart
    <3> HIDE DEF i
    <3> QED
      BY <1>0, <2>1, <3>1, StartIs
  <2>3. loop' \in [Runners -> LoopType]
    BY <1>13, LoopTypes DEF ClaimStart, Stages
  <2>4. run' \in [Ids -> [Runners -> States]]
    BY <1>13, DispatchType DEF ClaimStart, Becomes
  <2>5. adrift' \subseteq Ids
    BY <1>13 DEF ClaimStart, TypeOK
  <2> QED
    BY <1>0, <1>13, <2>2, <2>3, <2>4, <2>5 DEF TypeOK, ClaimStart, States, LockType
<1>14. CASE ClaimFails(w)
  <2>1. loop[w].claim.at \in Nat
    BY <1>0 DEF ClaimType
  <2>2. task' \in [Ids -> RowType]
    <3> DEFINE i == loop[w].claim.id
    <3>1. \/ UNCHANGED task
          \/ MarkSystemTaskLeaseExpired(loop[w].claim.old)
          \/ task' = [task EXCEPT ![i].status = "running", ![i].by = w,
                                  ![i].updated = loop[w].claim.at]
      BY <1>14 DEF ClaimFails
    <3> HIDE DEF i
    <3> QED
      BY <1>0, <2>1, <3>1, StartIs, MarkType
  <2>3. loop' \in [Runners -> LoopType]
    BY <1>14, LoopTypes DEF ClaimFails, Stages
  <2>4. adrift' \subseteq Ids
    BY <1>14 DEF ClaimFails, TypeOK
  <2> QED
    BY <1>0, <1>14, <2>2, <2>3, <2>4 DEF TypeOK, ClaimFails, Fault, States, LockType
<1>15. CASE ClaimRelease(w)
  BY <1>0, <1>15, LockTypes, LoopTypes
  DEF TypeOK, ClaimRelease, ReleaseSystemTaskLock, Stages, LockType
<1>16. CASE ClaimAbandons(w)
  <2>1. lock' \in LockType
    BY <1>0, <1>16, LockTypes DEF ClaimAbandons
  <2>2. loop' \in [Runners -> LoopType]
    BY <1>16, LoopTypes DEF ClaimAbandons, Stages
  <2> QED
    BY <1>0, <1>16, <2>1, <2>2 DEF TypeOK, ClaimAbandons, Fault, States, LockType
<1> QED
  BY <1>1, <1>2, <1>3, <1>4, <1>5, <1>6, <1>7, <1>8, <1>9, <1>10, <1>11, <1>12, <1>13,
     <1>14, <1>15, <1>16, <1>17 DEF LoopStep, LoopFault

\* A step of a handler keeps the types.
LEMMA HandlerStepType ==
  ASSUME TypeOK, NEW i \in Ids, NEW w \in Runners, HandlerStep(i, w)
  PROVE  TypeOK'
<1>0. /\ task \in [Ids -> RowType] /\ lock \in LockType /\ loop \in [Runners -> LoopType]
      /\ now \in Nat /\ run \in [Ids -> [Runners -> States]] /\ asked \subseteq Callers
      /\ crashes \in Nat /\ faults \in Nat /\ TTL \in Nat /\ adrift \subseteq Ids
  BY TaskConstants DEF TypeOK, LockType, States
<1>1. CASE Heartbeat(i, w)
  BY <1>0, <1>1, RunTypes DEF TypeOK, Heartbeat, LockType, States
<1>2. CASE HeartbeatFails(i, w)
  BY <1>0, <1>2, RunTypes DEF TypeOK, HeartbeatFails, Fault, States
<1>3. CASE Progress(i, w)
  <2>1. task' \in [Ids -> RowType]
    BY <1>0, <1>3, StampedIs, StampedRow, PutType DEF Progress
  <2>2. run' \in [Ids -> [Runners -> States]]
    BY <1>0, <1>3, RunTypes DEF Progress, States
  <2> QED
    BY <1>0, <1>3, <2>1, <2>2 DEF TypeOK, Progress, LockType, States
<1>4. ASSUME NEW status \in {"succeeded", "failed"}, Finish(i, w, status) PROVE TypeOK'
  <2>1. task' \in [Ids -> RowType]
    BY <1>0, <1>4, EndedIs, EndedRow, PutType DEF Finish
  <2>2. run' \in [Ids -> [Runners -> States]]
    BY <1>0, <1>4, RunTypes DEF Finish, States
  <2> QED
    BY <1>0, <1>4, <2>1, <2>2 DEF TypeOK, Finish, LockType, States
<1>5. CASE FinishRelease(i, w)
  BY <1>0, <1>5, RunTypes, LockTypes
  DEF TypeOK, FinishRelease, ReleaseSystemTaskLock, LockType, States
<1>6. CASE HandlerFails(i, w)
  <2>1. task' \in [Ids -> RowType]
    BY <1>0, <1>6, EndedIs, EndedRow, PutType DEF HandlerFails
  <2>2. run' \in [Ids -> [Runners -> States]]
    BY <1>0, <1>6, RunTypes DEF HandlerFails, States
  <2> QED
    BY <1>0, <1>6, <2>1, <2>2 DEF TypeOK, HandlerFails, Fault, LockType, States
<1> QED
  BY <1>1, <1>2, <1>3, <1>4, <1>5, <1>6 DEF HandlerStep, HandlerEnds

\* The first state has its type.
LEMMA TaskTypeInit == Init => TypeOK
<1> SUFFICES ASSUME Init PROVE TypeOK
  OBVIOUS
<1>1. NoRow \in RowType /\ [NoRow EXCEPT !.status = "pending"] \in RowType
  BY DEF NoRow, RowType
<1>2. task \in [Ids -> RowType]
  BY <1>1 DEF Init
<1>3. [pc |-> "stale", claim |-> NoClaim] \in LoopType
  BY DEF NoClaim, LoopType, ClaimType, Stages
<1>4. loop \in [Runners -> LoopType]
  BY <1>3 DEF Init
<1>5. lock \in LockType
  BY DEF Init, NoLock, LockType
<1> QED
  BY <1>2, <1>4, <1>5 DEF Init, TypeOK, LockType

\* Every step keeps the types.
LEMMA TaskTypeStep == TypeOK /\ [Next]_vars => TypeOK'
<1> SUFFICES ASSUME TypeOK, [Next]_vars PROVE TypeOK'
  OBVIOUS
<1>1. ASSUME NEW w \in Runners, Crash(w) PROVE TypeOK'
  <2>1. loop' \in [Runners -> LoopType]
    BY <1>1 DEF TypeOK, Crash, LoopType, NoClaim, ClaimType, Stages
  <2>2. run' \in [Ids -> [Runners -> States]]
    BY <1>1 DEF TypeOK, Crash, States
  <2> QED
    BY <1>1, <2>1, <2>2 DEF TypeOK, Crash, States
<1>2. ASSUME NEW c \in Callers, EnqueueLook(c) \/ EnqueueCreate(c) PROVE TypeOK'
  BY <1>2, CreateType DEF TypeOK, EnqueueLook, EnqueueCreate
<1>3. CASE Tick
  BY <1>3 DEF TypeOK, Tick
<1>4. CASE UNCHANGED vars
  BY <1>4 DEF TypeOK, vars
<1> QED
  BY <1>1, <1>2, <1>3, <1>4, LoopStepType, HandlerStepType DEF Next

\* Every reachable state has its type: rows, lock, loops and handlers.
THEOREM TaskTypeCorrect == Spec => []TypeOK
  BY TaskTypeInit, TaskTypeStep, PTL DEF Spec

(***************************************************************************)
(* Every step changes at most one row, in one of four ways.                *)
(***************************************************************************)
NewRow == [status |-> "pending", key |-> TRUE, by |-> NoRunner, updated |-> now]

CreatesRow ==
  \E i \in Ids :
    /\ task[i].status = "absent" /\ \A j \in Ids : ~task[j].key
    /\ Put(i, NewRow)

StartsRow ==
  \E i \in Ids, w \in Runners, t \in Nat :
    task[i].status = "pending" /\ Put(i, Started(i, w, t))

EndsRow ==
  \E i \in Ids, s \in {"succeeded", "failed"} :
    task[i].status = "running" /\ Put(i, Ended(i, s))

StampsRow == \E i \in Ids : task[i].status = "running" /\ Put(i, Stamped(i))

Moves == UNCHANGED task \/ CreatesRow \/ StartsRow \/ EndsRow \/ StampsRow

\* Creation adds a row where there was none, while no key is taken.
LEMMA CreateMoves ==
  ASSUME TypeOK, CreateSystemTask PROVE UNCHANGED task \/ CreatesRow
<1>1. ASSUME NEW i \in Ids, task' = [task EXCEPT ![i] = NewRow] PROVE Put(i, NewRow)
  BY <1>1 DEF TypeOK, Put
<1> QED
  BY <1>1 DEF CreateSystemTask, CreatesRow, NewRow

\* The mark of a stale lock ends a running row.
LEMMA MarkMoves ==
  ASSUME TypeOK, NEW i, MarkSystemTaskLeaseExpired(i) PROVE UNCHANGED task \/ EndsRow
  BY MarkIs DEF EndsRow

\* The claim's UPDATE starts a pending row; the mark before it may be done when it fails.
LEMMA StartMoves ==
  ASSUME TypeOK, NEW w \in Runners, ClaimStart(w) \/ ClaimFails(w)
  PROVE  UNCHANGED task \/ StartsRow \/ EndsRow
<1> DEFINE i == loop[w].claim.id
<1> DEFINE t == loop[w].claim.at
<1>1. t \in Nat
  BY DEF TypeOK, LoopType, ClaimType
<1>2. \/ UNCHANGED task
      \/ MarkSystemTaskLeaseExpired(loop[w].claim.old)
      \/ /\ task[i].status = "pending"
         /\ task' = [task EXCEPT ![i].status = "running", ![i].by = w, ![i].updated = t]
  BY DEF ClaimStart, ClaimFails
<1> HIDE DEF i, t
<1>3. CASE /\ task[i].status = "pending"
           /\ task' = [task EXCEPT ![i].status = "running", ![i].by = w, ![i].updated = t]
  <2>1. UNCHANGED task \/ (i \in Ids /\ Put(i, Started(i, w, t)))
    BY <1>1, <1>3, StartIs
  <2> QED
    BY <1>1, <1>3, <2>1 DEF StartsRow
<1> QED
  BY <1>2, <1>3, MarkMoves

\* The handler ends or stamps a running row.
LEMMA HandlerMoves ==
  ASSUME TypeOK, NEW i \in Ids, NEW w \in Runners, HandlerStep(i, w)
  PROVE  Moves
<1>1. CASE Heartbeat(i, w) \/ HeartbeatFails(i, w) \/ FinishRelease(i, w)
  BY <1>1 DEF Heartbeat, HeartbeatFails, FinishRelease, Moves
<1>2. CASE Progress(i, w)
  BY <1>2, StampedIs DEF Progress, MayWrite, Moves, StampsRow
<1>3. ASSUME NEW s \in {"succeeded", "failed"}, Finish(i, w, s) PROVE Moves
  BY <1>3, EndedIs DEF Finish, MayWrite, Moves, EndsRow
<1>4. CASE HandlerFails(i, w)
  BY <1>4, EndedIs DEF HandlerFails, MayWrite, Moves, EndsRow
<1> QED
  BY <1>1, <1>2, <1>3, <1>4 DEF HandlerStep, HandlerEnds

\* The loop creates, starts or ends a row.
LEMMA LoopMoves ==
  ASSUME TypeOK, NEW w \in Runners, LoopStep(w) \/ LoopFault(w)
  PROVE  Moves
<1>1. CASE StaleMark(w) \/ StaleFails(w) \/ ClaimMark(w)
  BY <1>1, MarkMoves DEF StaleMark, StaleFails, ClaimMark, Moves
<1>2. CASE Create(w)
  BY <1>2, CreateMoves DEF Create, Moves
<1>3. CASE ClaimStart(w) \/ ClaimFails(w)
  BY <1>3, StartMoves DEF Moves
<1>4. CASE StaleRead(w) \/ StaleDelete(w) \/ Schedule(w) \/ ClaimFind(w) \/ ClaimRead(w)
           \/ ClaimInsert(w) \/ ClaimLook(w) \/ ClaimTake(w) \/ ClaimRelease(w)
  BY <1>4
  DEF StaleRead, StaleDelete, Schedule, ClaimFind, ClaimRead, ClaimInsert, ClaimLook,
      ClaimTake, ClaimRelease, Moves
<1>5. CASE ClaimInsertFails(w) \/ ClaimAbandons(w)
  BY <1>5 DEF ClaimInsertFails, ClaimAbandons, Moves
<1> QED
  BY <1>1, <1>2, <1>3, <1>4, <1>5 DEF LoopStep, LoopFault

\* So does every step.
LEMMA RowMoves == TypeOK /\ [Next]_vars => Moves
<1> SUFFICES ASSUME TypeOK, [Next]_vars PROVE Moves
  OBVIOUS
<1>1. ASSUME NEW c \in Callers, EnqueueLook(c) \/ EnqueueCreate(c) PROVE Moves
  BY <1>1, CreateMoves DEF EnqueueLook, EnqueueCreate, Moves
<1>2. ASSUME NEW w \in Runners, Crash(w) PROVE Moves
  BY <1>2 DEF Crash, Moves
<1>3. CASE Tick \/ UNCHANGED vars
  BY <1>3 DEF Tick, vars, Moves
<1> QED
  BY <1>1, <1>2, <1>3, LoopMoves, HandlerMoves DEF Next

(***************************************************************************)
(* Consequences: finished rows, the active key, and who executes a task.   *)
(***************************************************************************)

\* A step leaves finished rows alone.
LEMMA FinishedStep ==
  ASSUME TypeOK, Moves, NEW i \in Ids, task[i].status \in {"succeeded", "failed"}
  PROVE  task'[i] = task[i]
  BY DEF Moves, CreatesRow, StartsRow, EndsRow, StampsRow, Put

\* No step of any node reopens or rewrites a finished task (FinishSystemTask,
\* UpdateSystemTaskState, MarkSystemTaskLeaseExpired and the claim are all conditional).
THEOREM FinishedStays == Spec => FinishedIsFinal
<1>1. TypeOK /\ [Next]_vars =>
        [\A i \in Ids : task[i].status \in {"succeeded", "failed"} => task'[i] = task[i]]_vars
  BY RowMoves, FinishedStep
<1> QED
  BY <1>1, TaskTypeCorrect, PTL DEF Spec, FinishedIsFinal

\* The table starts with no key taken; a legacy row has none.
LEMMA OneActiveInit == Init => OneActive
<1> SUFFICES ASSUME Init PROVE OneActive
  OBVIOUS
<1>1. CASE task = [i \in Ids |-> NoRow]
  BY <1>1 DEF OneActive, KeyIsActive, NoRow, Active
<1>2. CASE Legacy /\ task = [i \in Ids |->
                IF i = 1 THEN [NoRow EXCEPT !.status = "pending"] ELSE NoRow]
  BY <1>2 DEF OneActive, KeyIsActive, NoRow, Active
<1> QED
  BY <1>1, <1>2, TaskConstants DEF Init

\* A step keeps the active key with the one unfinished row.
LEMMA OneActiveStep ==
  ASSUME TypeOK, OneActive, Moves PROVE OneActive'
<1>1. CASE UNCHANGED task
  BY <1>1 DEF OneActive, KeyIsActive
<1>2. CASE CreatesRow
  BY <1>2 DEF CreatesRow, Put, NewRow, OneActive, KeyIsActive, Active
<1>3. CASE StartsRow
  <2>1. PICK i \in Ids, w \in Runners, t \in Nat :
          task[i].status = "pending" /\ Put(i, Started(i, w, t))
    BY <1>3 DEF StartsRow
  <2> QED
    BY <2>1, StartedRow DEF Put, OneActive, KeyIsActive, Active
<1>4. CASE EndsRow
  <2>1. PICK i \in Ids, s \in {"succeeded", "failed"} :
          task[i].status = "running" /\ Put(i, Ended(i, s))
    BY <1>4 DEF EndsRow
  <2> QED
    BY <2>1, EndedRow DEF Put, OneActive, KeyIsActive, Active
<1>5. CASE StampsRow
  <2>1. PICK i \in Ids : task[i].status = "running" /\ Put(i, Stamped(i))
    BY <1>5 DEF StampsRow
  <2> QED
    BY <2>1, StampedRow DEF Put, OneActive, KeyIsActive, Active
<1> QED
  BY <1>1, <1>2, <1>3, <1>4, <1>5 DEF Moves

\* At most one row holds the active key, and it is given up exactly when the task is
\* finished (the unique index of CreateSystemTask and the NULLs of the three end states).
THEOREM KeyIsUnique == Spec => []OneActive
<1>1. TypeOK /\ OneActive /\ [Next]_vars => OneActive'
  BY RowMoves, OneActiveStep
<1> QED
  BY <1>1, OneActiveInit, TaskTypeCorrect, PTL DEF Spec

\* A handler that is new was dispatched for a row its runner has just started.
Dispatches ==
  \A i \in Ids, w \in Runners : run'[i][w] # "none" =>
    \/ run[i][w] # "none"
    \/ task[i].status = "pending" /\ task'[i].status = "running" /\ task'[i].by = w

\* A change of a handler's state is no dispatch.
LEMMA BecomesDispatches ==
  ASSUME TypeOK, NEW i \in Ids, NEW w \in Runners, NEW state, Becomes(i, w, state),
         run[i][w] # "none"
  PROVE  Dispatches
  BY DEF TypeOK, Becomes, Dispatches

\* Only the claim dispatches.
LEMMA RunMoves == TypeOK /\ [Next]_vars => Dispatches
<1> SUFFICES ASSUME TypeOK, [Next]_vars PROVE Dispatches
  OBVIOUS
<1>1. CASE UNCHANGED run
  BY <1>1 DEF Dispatches
<1>2. ASSUME NEW w \in Runners, Crash(w) PROVE Dispatches
  BY <1>2 DEF Crash, TypeOK, Dispatches
<1>3. ASSUME NEW w \in Runners, ClaimStart(w) PROVE Dispatches
  <2> DEFINE i == loop[w].claim.id
  <2> DEFINE t == loop[w].claim.at
  <2>1. t \in Nat
    BY DEF TypeOK, LoopType, ClaimType
  <2>2. \/ UNCHANGED run
        \/ /\ task[i].status = "pending"
           /\ task' = [task EXCEPT ![i].status = "running", ![i].by = w, ![i].updated = t]
           /\ run' = [run EXCEPT ![i][w] = "running"]
    BY <1>3 DEF ClaimStart
  <2> HIDE DEF i, t
  <2>3. CASE i \in Ids /\ ~UNCHANGED run
    <3>1. Put(i, Started(i, w, t))
      BY <2>2, <2>3, StartedIs
    <3>2. task'[i].status = "running" /\ task'[i].by = w
      BY <2>1, <2>3, <3>1, StartedRow DEF Put
    <3> QED
      BY <2>2, <2>3, <3>2 DEF TypeOK, Dispatches
  <2>4. CASE i \notin Ids /\ ~UNCHANGED run
    <3>1. UNCHANGED run
      BY <2>2, <2>4 DEF TypeOK
    <3> QED
      BY <2>4, <3>1
  <2> QED
    BY <1>1, <2>3, <2>4
<1>4. ASSUME NEW i \in Ids, NEW w \in Runners, HandlerStep(i, w) PROVE Dispatches
  BY <1>1, <1>4, BecomesDispatches
  DEF HandlerStep, HandlerEnds, Heartbeat, HeartbeatFails, Progress, Finish, FinishRelease,
      HandlerFails
<1>5. ASSUME NEW w \in Runners, LoopStep(w) \/ LoopFault(w), ~ClaimStart(w)
      PROVE  UNCHANGED run
  BY <1>5
  DEF LoopStep, LoopFault, StaleRead, StaleMark, StaleDelete, StaleFails, Schedule, Create,
      ClaimFind, ClaimRead, ClaimInsert, ClaimInsertFails, ClaimLook, ClaimTake, ClaimMark, ClaimFails,
      ClaimRelease, ClaimAbandons
<1>6. ASSUME NEW c \in Callers, EnqueueLook(c) \/ EnqueueCreate(c) PROVE UNCHANGED run
  BY <1>6 DEF EnqueueLook, EnqueueCreate
<1>7. Tick \/ UNCHANGED vars => UNCHANGED run
  BY DEF Tick, vars
<1> QED
  BY <1>1, <1>2, <1>3, <1>4, <1>5, <1>6, <1>7 DEF Next

\* The row of a dispatched task keeps the runner that started it.
LEMMA RunIsByStep ==
  ASSUME TypeOK, RunIsBy, Moves, Dispatches PROVE RunIsBy'
<1> SUFFICES ASSUME NEW i \in Ids, NEW w \in Runners, run'[i][w] # "none"
             PROVE  task'[i].by = w /\ task'[i].status \notin {"absent", "pending"}
  BY DEF RunIsBy
<1>1. CASE run[i][w] # "none"
  <2>0. task[i].by = w /\ task[i].status \notin {"absent", "pending"}
    BY <1>1 DEF RunIsBy
  <2>1. CASE UNCHANGED task \/ CreatesRow \/ StartsRow
    BY <2>0, <2>1 DEF CreatesRow, StartsRow, Put
  <2>2. CASE EndsRow
    <3>1. PICK j \in Ids, s \in {"succeeded", "failed"} :
            task[j].status = "running" /\ Put(j, Ended(j, s))
      BY <2>2 DEF EndsRow
    <3> QED
      BY <2>0, <3>1, EndedRow DEF Put
  <2>3. CASE StampsRow
    <3>1. PICK j \in Ids : task[j].status = "running" /\ Put(j, Stamped(j))
      BY <2>3 DEF StampsRow
    <3> QED
      BY <2>0, <3>1, StampedRow DEF Put
  <2> QED
    BY <2>1, <2>2, <2>3 DEF Moves
<1>2. CASE run[i][w] = "none"
  BY <1>2 DEF Dispatches
<1> QED
  BY <1>1, <1>2

\* No task is ever executed by two runners, or twice: of all claims, however late, one
\* finds the row pending (the conditional UPDATE of ClaimSystemTask).
THEOREM ExecutesOnce == Spec => []ExecutedOnce
<1>1. Init => RunIsBy
  BY DEF Init, RunIsBy
<1>2. TypeOK /\ RunIsBy /\ [Next]_vars => RunIsBy'
  BY RowMoves, RunMoves, RunIsByStep
<1>3. RunIsBy => ExecutedOnce
  BY DEF RunIsBy, ExecutedOnce
<1> QED
  BY <1>1, <1>2, <1>3, TaskTypeCorrect, PTL DEF Spec

(***************************************************************************)
(* The lease: a running task is locked by its runner, unless it was        *)
(* started without a lease, while no row predates active_key.              *)
(***************************************************************************)
Lease == TypeOK /\ OneActive /\ RunIsBy /\ LeaseInv

\* The stages of a loop that LeaseInv speaks of.
Bound == Asking \cup Acquired \cup {"stale_mark", "stale_delete"}

\* Sound in the next state.
Soon(i) == task'[i].status = "running" /\ i \notin adrift'

\* No row begins to run under a lease, and those that do keep their runner.
NoNewRun == \A i \in Ids : Soon(i) => Sound(i) /\ task'[i].by = task[i].by

\* Ending, stamping and creating rows starts nothing.
LEMMA NoNewRunMoves ==
  ASSUME TypeOK, UNCHANGED task \/ CreatesRow \/ EndsRow \/ StampsRow, UNCHANGED adrift
  PROVE  NoNewRun
<1>1. CASE UNCHANGED task \/ CreatesRow
  BY <1>1 DEF CreatesRow, Put, NewRow, NoNewRun, Sound, Soon
<1>2. CASE EndsRow
  <2>1. PICK j \in Ids, s \in {"succeeded", "failed"} :
          task[j].status = "running" /\ Put(j, Ended(j, s))
    BY <1>2 DEF EndsRow
  <2> QED
    BY <2>1, EndedRow DEF Put, NoNewRun, Sound, Soon
<1>3. CASE StampsRow
  <2>1. PICK j \in Ids : task[j].status = "running" /\ Put(j, Stamped(j))
    BY <1>3 DEF StampsRow
  <2> QED
    BY <2>1, StampedRow DEF Put, NoNewRun, Sound, Soon
<1> QED
  BY <1>1, <1>2, <1>3

\* Neither does starting a row without a lease.
LEMMA AdriftMoves ==
  ASSUME TypeOK, NEW i \in Ids, NEW new, Put(i, new), adrift' = adrift \cup {i}
  PROVE  NoNewRun
  BY DEF Put, NoNewRun, Sound, Soon

\* What a step of the loop of w does to the loops.
LEMMA GotoIs ==
  ASSUME TypeOK, NEW w \in Runners, NEW pc, Goto(w, pc)
  PROVE  /\ loop'[w].pc = pc /\ loop'[w].claim = loop[w].claim
         /\ \A v \in Runners : v # w => loop'[v] = loop[v]
  BY DEF TypeOK, LoopType, Goto

\* The same for a restart.
LEMMA RestartIs ==
  ASSUME TypeOK, NEW w \in Runners, Restart(w)
  PROVE  /\ loop'[w].pc = "stale"
         /\ \A v \in Runners : v # w => loop'[v] = loop[v]
  BY DEF TypeOK, LoopType, Restart

\* The times of a claim are numbers.
LEMMA ClaimTimes ==
  ASSUME TypeOK, NEW v \in Runners
  PROVE  /\ loop[v].claim.at \in Nat /\ loop[v].claim.until \in Nat /\ loop[v].claim \in ClaimType
         /\ now \in Nat /\ lock.until \in Nat
  BY DEF TypeOK, LoopType, ClaimType

\* Loop v stays where it is, leaves the claim and the pass over stale locks, moves on
\* within the claim, reads a stale lock, has failed the task of the lock it read, or
\* begins a claim while nothing runs under a lease.
Walks(v) ==
  \/ loop'[v] = loop[v]
  \/ loop'[v].pc \notin Bound
  \/ /\ \/ loop[v].pc \in Asking /\ loop'[v].pc \in Asking
        \/ loop[v].pc \in Acquired /\ loop'[v].pc \in Acquired
     /\ loop'[v].claim.id = loop[v].claim.id
     /\ loop'[v].claim.at = loop[v].claim.at
     /\ loop'[v].claim.until = loop[v].claim.until
  \/ /\ loop'[v].pc = "stale_mark"
     /\ loop'[v].claim.old \in Ids /\ loop'[v].claim.at <= now'
  \/ /\ loop[v].pc = "stale_mark" /\ loop'[v].pc = "stale_delete"
     /\ loop'[v].claim = loop[v].claim /\ ~Soon(loop[v].claim.old)
  \/ /\ loop'[v].pc = "insert" /\ \A i \in Ids : ~Soon(i)
     /\ loop'[v].claim.id \in Ids /\ loop'[v].claim.at <= now'
     /\ run'[loop'[v].claim.id][v] = "none"

\* A handler is dispatched by no node that has a claim, and finishes only an ended task.
Handles ==
  \A i \in Ids, v \in Runners :
    /\ run[i][v] = "none" /\ loop'[v].pc \in Bound => run'[i][v] = "none"
    /\ run'[i][v] = "finishing" => run[i][v] = "finishing" \/ ~Soon(i)

\* A step that starts nothing under a lease and leaves the lock alone keeps the invariant.
LEMMA LeaseFrame ==
  ASSUME Lease, NoNewRun, lock' = lock, now' \in Nat, now' >= now, Handles,
         \A v \in Runners : Walks(v)
  PROVE  LeaseInv'
<1>0. TypeOK /\ LeaseInv
  BY DEF Lease
<1>1. RunningIsLocked'
  BY <1>0 DEF LeaseInv, NoNewRun, RunningIsLocked, LockedBy, Sound, Soon
<1>2. ASSUME NEW v \in Runners, loop'[v].pc \in Asking \cup Acquired
      PROVE  \/ /\ loop[v].pc \in Asking \cup Acquired
                /\ (loop'[v].pc \in Asking => loop[v].pc \in Asking)
                /\ (loop'[v].pc \in Acquired => loop[v].pc \in Acquired)
                /\ loop'[v].claim.id = loop[v].claim.id /\ loop'[v].claim.at = loop[v].claim.at
                /\ loop'[v].claim.until = loop[v].claim.until /\ loop'[v].pc \in Bound
             \/ /\ loop'[v].pc = "insert" /\ \A i \in Ids : ~Soon(i)
                /\ loop'[v].claim.id \in Ids /\ loop'[v].claim.at <= now'
                /\ run'[loop'[v].claim.id][v] = "none"
  BY <1>2 DEF Walks, Bound, Asking, Acquired
<1>3. ClaimIsFresh'
  <2> SUFFICES ASSUME NEW v \in Runners, loop'[v].pc \in Asking \cup Acquired
               PROVE  /\ loop'[v].claim.id \in Ids /\ loop'[v].claim.at <= now'
                      /\ run'[loop'[v].claim.id][v] = "none"
                      /\ Soon(loop'[v].claim.id) => task'[loop'[v].claim.id].by # v
    BY DEF ClaimIsFresh, Sound, Soon
  <2> DEFINE i == loop[v].claim.id
  <2>0. CASE /\ loop'[v].pc = "insert" /\ \A j \in Ids : ~Soon(j)
             /\ loop'[v].claim.id \in Ids /\ loop'[v].claim.at <= now'
             /\ run'[loop'[v].claim.id][v] = "none"
    BY <2>0
  <2>1. CASE /\ loop[v].pc \in Asking \cup Acquired /\ loop'[v].claim.id = loop[v].claim.id
             /\ loop'[v].claim.at = loop[v].claim.at /\ loop'[v].pc \in Bound
    <3>1. /\ i \in Ids /\ loop[v].claim.at <= now /\ run[i][v] = "none"
          /\ Sound(i) => task[i].by # v
      BY <1>0, <2>1 DEF LeaseInv, ClaimIsFresh
    <3>2. loop'[v].claim.id = i /\ loop'[v].claim.at = loop[v].claim.at
      BY <2>1
    <3>3. loop'[v].claim.at <= now'
      BY <1>0, <3>1, <3>2, ClaimTimes
    <3> HIDE DEF i
    <3>4. run'[i][v] = "none"
      BY <2>1, <3>1 DEF Handles
    <3>5. Soon(i) => task'[i].by # v
      BY <3>1 DEF NoNewRun
    <3> QED
      BY <3>1, <3>2, <3>3, <3>4, <3>5
  <2> QED
    BY <1>2, <2>0, <2>1
<1>4. ClaimHasLock'
  <2> SUFFICES ASSUME NEW v \in Runners, HasLock(v)' PROVE lock' = Claimed(v)'
    BY DEF ClaimHasLock
  <2>1. loop'[v].pc \in Acquired /\ ~(now' > loop'[v].claim.until)
    BY DEF HasLock, Overtaken
  <2>2. /\ loop[v].pc \in Acquired /\ loop'[v].claim.until = loop[v].claim.until
        /\ loop'[v].claim.id = loop[v].claim.id
    BY <1>2, <2>1 DEF Acquired
  <2>3. HasLock(v)
    BY <1>0, <2>1, <2>2, ClaimTimes DEF HasLock, Overtaken
  <2> QED
    BY <1>0, <2>2, <2>3 DEF LeaseInv, ClaimHasLock, Claimed
<1>5. NoRunBehindStaleLock'
  <2> SUFFICES ASSUME NEW v \in Runners, NEW i \in Ids, loop'[v].pc \in Asking, Soon(i)
               PROVE  lock'.until >= loop'[v].claim.at
    BY DEF NoRunBehindStaleLock, Sound, Soon
  <2>1. loop[v].pc \in Asking /\ loop'[v].claim.at = loop[v].claim.at /\ Sound(i)
    BY <1>2 DEF NoNewRun
  <2> QED
    BY <1>0, <2>1 DEF LeaseInv, NoRunBehindStaleLock
<1>6. NoRunBehindStaleDelete'
  <2> SUFFICES ASSUME NEW v \in Runners, loop'[v].pc \in {"stale_mark", "stale_delete"}
               PROVE  /\ loop'[v].claim.old \in Ids /\ loop'[v].claim.at <= now'
                      /\ loop'[v].pc = "stale_delete" /\ Soon(loop'[v].claim.old)
                           => lock'.until >= loop'[v].claim.at
    BY DEF NoRunBehindStaleDelete, Sound, Soon
  <2>1. CASE /\ loop'[v].pc = "stale_mark"
             /\ loop'[v].claim.old \in Ids /\ loop'[v].claim.at <= now'
    BY <2>1
  <2>2. CASE /\ loop[v].pc \in {"stale_mark", "stale_delete"} /\ loop'[v].claim = loop[v].claim
             /\ loop'[v].pc = "stale_delete" =>
                  loop[v].pc = "stale_delete" \/ ~Soon(loop[v].claim.old)
    <3> DEFINE i == loop[v].claim.old
    <3>1. /\ i \in Ids /\ loop[v].claim.at <= now
          /\ loop[v].pc = "stale_delete" /\ Sound(i) => lock.until >= loop[v].claim.at
      BY <1>0, <2>2 DEF LeaseInv, NoRunBehindStaleDelete
    <3>2. loop'[v].claim.old = i /\ loop'[v].claim.at = loop[v].claim.at
      BY <2>2
    <3>3. loop'[v].claim.at <= now'
      BY <1>0, <3>1, <3>2, ClaimTimes
    <3>4. loop'[v].pc = "stale_delete" => loop[v].pc = "stale_delete" \/ ~Soon(i)
      BY <2>2
    <3> HIDE DEF i
    <3>5. Soon(i) => Sound(i)
      BY <3>1 DEF NoNewRun
    <3> QED
      BY <3>1, <3>2, <3>3, <3>4, <3>5
  <2>3. Walks(v)
    OBVIOUS
  <2> QED
    BY <2>1, <2>2, <2>3 DEF Walks, Bound, Asking, Acquired
<1>7. FinishingIsFinished'
  BY <1>0 DEF LeaseInv, NoNewRun, Handles, FinishingIsFinished, Sound, Soon
<1> QED
  BY <1>1, <1>3, <1>4, <1>5, <1>6, <1>7 DEF LeaseInv

\* The lock may move while nothing runs under its lease: to a claim, or away from one that
\* nobody has.
LEMMA LockFrame ==
  ASSUME Lease, \A i \in Ids : ~Soon(i), now' = now,
         \A i \in Ids, v \in Runners : run[i][v] = "none" => run'[i][v] = "none",
         \A v \in Runners :
           \/ loop'[v].pc \notin Bound
           \/ /\ loop'[v].claim = loop[v].claim
              /\ \/ loop'[v] = loop[v]
                 \/ loop[v].pc \in Asking \cup Acquired /\ loop'[v].pc \in Asking \cup Acquired
              /\ HasLock(v)' => lock' = Claimed(v)
  PROVE  LeaseInv'
<1>0. TypeOK /\ LeaseInv
  BY DEF Lease
<1>1. RunningIsLocked' /\ NoRunBehindStaleLock' /\ FinishingIsFinished'
  BY DEF RunningIsLocked, NoRunBehindStaleLock, FinishingIsFinished, Sound, Soon
<1>2. ClaimIsFresh'
  <2> SUFFICES ASSUME NEW v \in Runners, loop'[v].pc \in Asking \cup Acquired
               PROVE  /\ loop'[v].claim.id \in Ids /\ loop'[v].claim.at <= now'
                      /\ run'[loop'[v].claim.id][v] = "none"
                      /\ ~Soon(loop'[v].claim.id)
    BY DEF ClaimIsFresh, Sound, Soon
  <2>1. loop'[v].claim = loop[v].claim /\ loop[v].pc \in Asking \cup Acquired
    BY DEF Bound
  <2>2. loop[v].claim.id \in Ids /\ loop[v].claim.at <= now /\ run[loop[v].claim.id][v] = "none"
    BY <1>0, <2>1 DEF LeaseInv, ClaimIsFresh
  <2>3. ~Soon(loop'[v].claim.id)
    BY <2>1, <2>2
  <2> QED
    BY <2>1, <2>2, <2>3
<1>3. ClaimHasLock'
  <2> SUFFICES ASSUME NEW v \in Runners, HasLock(v)' PROVE lock' = Claimed(v)'
    BY DEF ClaimHasLock
  <2>1. loop'[v].pc \in Bound
    BY DEF HasLock, Bound
  <2> QED
    BY <2>1 DEF Claimed
<1>4. NoRunBehindStaleDelete'
  <2> SUFFICES ASSUME NEW v \in Runners, loop'[v].pc \in {"stale_mark", "stale_delete"}
               PROVE  /\ loop'[v].claim.old \in Ids /\ loop'[v].claim.at <= now'
                      /\ ~Soon(loop'[v].claim.old)
    BY DEF NoRunBehindStaleDelete, Sound, Soon
  <2>1. loop'[v] = loop[v]
    BY DEF Bound, Asking, Acquired
  <2>2. loop[v].claim.old \in Ids /\ loop[v].claim.at <= now
    BY <1>0, <2>1 DEF LeaseInv, NoRunBehindStaleDelete
  <2>3. ~Soon(loop'[v].claim.old)
    BY <2>1, <2>2
  <2> QED
    BY <2>1, <2>2, <2>3
<1> QED
  BY <1>1, <1>2, <1>3, <1>4 DEF LeaseInv

\* Nothing runs under a lease behind no lock, or behind one that a claim finds stale.
LEMMA NothingRuns ==
  ASSUME Lease,
         \/ lock = NoLock
         \/ \E w \in Runners : loop[w].pc \in Asking /\ Expired(loop[w].claim.at)
  PROVE  \A i \in Ids : ~Sound(i)
<1>1. CASE lock = NoLock
  BY <1>1 DEF Lease, LeaseInv, RunningIsLocked, LockedBy, NoLock, Ids
<1>2. ASSUME NEW w \in Runners, loop[w].pc \in Asking, Expired(loop[w].claim.at)
      PROVE  \A i \in Ids : ~Sound(i)
  BY <1>2, ClaimTimes DEF Lease, LeaseInv, NoRunBehindStaleLock, Expired
<1> QED
  BY <1>1, <1>2

\* A lock that is stale now, or for a claim or a pass of an earlier moment, is nobody's
\* claim.
LEMMA StaleIsUnclaimed ==
  ASSUME Lease, NEW t \in Nat, t <= now, lock = NoLock \/ Expired(t)
  PROVE  \A v \in Runners : ~HasLock(v)
<1> SUFFICES ASSUME NEW v \in Runners, HasLock(v) PROVE FALSE
  OBVIOUS
<1>0. TypeOK
  BY DEF Lease
<1>1. lock = Claimed(v) /\ loop[v].claim.id \in Ids /\ ~(now > loop[v].claim.until)
  BY DEF Lease, LeaseInv, ClaimHasLock, ClaimIsFresh, HasLock, Overtaken
<1>2. lock.id # 0 /\ lock.until = loop[v].claim.until
  BY <1>1 DEF Claimed, Ids
<1>3. lock.until >= now
  BY <1>0, <1>1, <1>2, ClaimTimes
<1> QED
  BY <1>0, <1>2, <1>3, ClaimTimes DEF NoLock, Expired

\* The lock goes to the claim of w, which finds none or a stale one.
LEMMA GetsLock ==
  ASSUME Lease, NEW w \in Runners, loop[w].pc \in Asking, UNCHANGED <<task, run, adrift, now>>,
         lock = NoLock \/ Expired(loop[w].claim.at), lock' = Claimed(w),
         \A v \in Runners : v # w => loop'[v] = loop[v],
         \/ loop'[w].pc \notin Bound
         \/ loop'[w].claim = loop[w].claim /\ loop'[w].pc \in Asking \cup Acquired
  PROVE  LeaseInv'
<1>0. TypeOK /\ now \in Nat
  BY DEF Lease, TypeOK
<1>1. \A i \in Ids : ~Sound(i)
  BY NothingRuns
<1>2. \A i \in Ids : ~Soon(i)
  BY <1>1 DEF Sound, Soon
<1>3. \A v \in Runners : ~HasLock(v)
  <2>1. loop[w].claim.at \in Nat /\ loop[w].claim.at <= now
    BY <1>0, ClaimTimes DEF Lease, LeaseInv, ClaimIsFresh
  <2> QED
    BY <2>1, StaleIsUnclaimed
<1>4. \A v \in Runners : v # w => ~HasLock(v)'
  BY <1>3 DEF HasLock, Overtaken
<1> QED
  BY <1>2, <1>4, LockFrame

\* The pass over stale locks keeps the invariant: it fails a task before it deletes the
\* lock, and deletes only the lock it read.
LEMMA StaleLease ==
  ASSUME Lease, NEW w \in Runners, StaleRead(w) \/ StaleMark(w) \/ StaleDelete(w) \/ StaleFails(w)
  PROVE  LeaseInv'
<1>0. TypeOK /\ now \in Nat /\ LeaseInv /\ lock.until \in Nat
  BY DEF Lease, TypeOK
<1>r. UNCHANGED <<run, adrift, now>> /\ Handles
  <2>1. UNCHANGED <<run, adrift, now>>
    BY DEF StaleRead, StaleMark, StaleDelete, StaleFails
  <2> QED
    BY <2>1 DEF Handles
<1>1. CASE StaleRead(w)
  <2>0. UNCHANGED <<task, lock>>
    BY <1>1 DEF StaleRead
  <2>1. CASE ~Expired(now)
    <3>1. loop'[w].pc = "schedule" /\ \A v \in Runners : v # w => loop'[v] = loop[v]
      BY <1>0, <1>1, <2>1 DEF StaleRead, TypeOK
    <3> QED
      BY <1>0, <1>r, <2>0, <3>1, LeaseFrame DEF NoNewRun, Sound, Soon, Walks, Bound, Asking, Acquired
  <2>2. CASE Expired(now)
    <3>1. /\ loop'[w].pc = "stale_mark" /\ loop'[w].claim.at = now
          /\ loop'[w].claim.old = lock.id
          /\ \A v \in Runners : v # w => loop'[v] = loop[v]
      BY <1>0, <1>1, <2>2 DEF StaleRead, TypeOK, NoClaim
    <3>2. lock.id \in Ids
      BY <1>0, <2>2 DEF TypeOK, Expired
    <3> QED
      BY <1>0, <1>r, <2>0, <3>1, <3>2, LeaseFrame DEF NoNewRun, Sound, Soon, Walks
  <2> QED
    BY <2>1, <2>2
<1>2. CASE StaleMark(w)
  <2> DEFINE c == loop[w].claim
  <2>1. /\ loop[w].pc = "stale_mark" /\ loop'[w].pc = "stale_delete" /\ loop'[w].claim = c
        /\ \A v \in Runners : v # w => loop'[v] = loop[v]
    BY <1>0, <1>2, GotoIs DEF StaleMark, At
  <2>2. UNCHANGED lock /\ MarkSystemTaskLeaseExpired(c.old)
    BY <1>2 DEF StaleMark
  <2>3. c.old \in Ids
    BY <1>0, <2>1 DEF LeaseInv, NoRunBehindStaleDelete
  <2>4. NoNewRun
    BY <1>0, <1>r, <2>2, MarkMoves, NoNewRunMoves
  <2>5. ~Soon(c.old)
    <3> HIDE DEF c
    <3>1. CASE task[c.old].status = "running"
      <4>1. task' = [task EXCEPT ![c.old].status = "failed", ![c.old].key = FALSE,
                                 ![c.old].updated = now]
        BY <2>2, <2>3, <3>1 DEF MarkSystemTaskLeaseExpired
      <4>3. Put(c.old, Ended(c.old, "failed"))
        BY <1>0, <2>3, <4>1, EndedIs
      <4>2. task'[c.old] = Ended(c.old, "failed")
        BY <2>3, <4>3 DEF Put
      <4> QED
        BY <1>0, <2>3, <4>2, EndedRow DEF Soon
    <3> QED
      BY <2>3, <2>4, <3>1 DEF NoNewRun, Sound
  <2> QED
    BY <1>0, <1>r, <2>1, <2>2, <2>4, <2>5, LeaseFrame DEF Walks
<1>3. CASE StaleDelete(w)
  <2> DEFINE c == loop[w].claim
  <2>1. /\ loop[w].pc = "stale_delete" /\ loop'[w].pc = "schedule" /\ UNCHANGED task
        /\ \A v \in Runners : v # w => loop'[v] = loop[v]
    BY <1>0, <1>3, GotoIs DEF StaleDelete, At
  <2>2. CASE UNCHANGED lock
    BY <1>0, <1>r, <2>1, <2>2, LeaseFrame
    DEF NoNewRun, Sound, Soon, Walks, Bound, Asking, Acquired
  <2>3. CASE LockedBy(c.old, c.oldBy) /\ Expired(c.at)
    <3>1. c.at \in Nat /\ c.at <= now /\ (Sound(c.old) => lock.until >= c.at) /\ c.old \in Ids
      BY <1>0, <2>1, ClaimTimes DEF LeaseInv, NoRunBehindStaleDelete
    <3>2. ~Sound(c.old)
      BY <1>0, <2>3, <3>1 DEF Expired
    <3>3. \A i \in Ids : ~Sound(i)
      BY <1>0, <2>3, <3>2 DEF LeaseInv, RunningIsLocked, LockedBy
    <3>4. \A i \in Ids : ~Soon(i)
      BY <1>r, <2>1, <3>3 DEF Sound, Soon
    <3>5. \A v \in Runners : ~HasLock(v)
      BY <2>3, <3>1, StaleIsUnclaimed
    <3>6. \A v \in Runners : v # w => ~HasLock(v)'
      BY <1>r, <2>1, <3>5 DEF HasLock, Overtaken
    <3> QED
      BY <1>r, <2>1, <3>4, <3>6, LockFrame DEF Bound, Asking, Acquired
  <2> QED
    BY <1>3, <2>2, <2>3 DEF StaleDelete
<1>4. CASE StaleFails(w)
  <2>1. /\ loop'[w].pc = "schedule" /\ UNCHANGED lock
        /\ \A v \in Runners : v # w => loop'[v] = loop[v]
    BY <1>0, <1>4, GotoIs DEF StaleFails
  <2>2. NoNewRun
    BY <1>0, <1>4, <1>r, MarkMoves, NoNewRunMoves DEF StaleFails
  <2> QED
    BY <1>0, <1>r, <2>1, <2>2, LeaseFrame DEF Walks, Bound, Asking, Acquired
<1> QED
  BY <1>1, <1>2, <1>3, <1>4

\* A claim up to the lock keeps the invariant: it reads a pending row while nothing runs,
\* and gets the lock only when there is none or when it is stale for the claim.
LEMMA AskLease ==
  ASSUME ~Legacy, Lease, NEW w \in Runners,
         \/ ClaimFind(w) \/ ClaimRead(w) \/ ClaimInsert(w) \/ ClaimInsertFails(w)
         \/ ClaimLook(w) \/ ClaimTake(w) \/ ClaimAbandons(w)
  PROVE  LeaseInv'
<1>0. TypeOK /\ now \in Nat /\ LeaseInv
  BY DEF Lease, TypeOK
<1>r. UNCHANGED <<task, run, adrift, now>> /\ Handles /\ NoNewRun
  <2>1. UNCHANGED <<task, run, adrift, now>>
    BY DEF ClaimFind, ClaimRead, ClaimInsert, ClaimInsertFails, ClaimLook, ClaimTake,
           ClaimAbandons
  <2> QED
    BY <2>1 DEF Handles, NoNewRun, Sound, Soon
<1>s. ASSUME Restart(w), UNCHANGED lock PROVE LeaseInv'
  BY <1>0, <1>r, <1>s, RestartIs, LeaseFrame DEF Walks, Bound, Asking, Acquired
<1>1. CASE ClaimFind(w)
  <2>1. /\ loop'[w].pc \in {"stale", "found"} /\ UNCHANGED lock
        /\ \A v \in Runners : v # w => loop'[v] = loop[v]
    BY <1>0, <1>1, RestartIs DEF ClaimFind, TypeOK
  <2> QED
    BY <1>0, <1>r, <2>1, LeaseFrame DEF Walks, Bound, Asking, Acquired
<1>2. CASE ClaimRead(w)
  <2>0. UNCHANGED lock
    BY <1>2 DEF ClaimRead
  <2>1. ASSUME NEW i \in Ids, task[i].status = "pending",
               loop' = [loop EXCEPT ![w] = [pc |-> "insert",
                 claim |-> [NoClaim EXCEPT !.id = i, !.at = now, !.until = now + TTL]]]
        PROVE  LeaseInv'
    <3>1. /\ loop'[w].pc = "insert" /\ loop'[w].claim.id = i /\ loop'[w].claim.at = now
          /\ \A v \in Runners : v # w => loop'[v] = loop[v]
      BY <1>0, <2>1 DEF TypeOK, NoClaim
    <3>2. \A j \in Ids : ~Soon(j)
      BY <1>r, <2>1 DEF Lease, OneActive, KeyIsActive, Active, Soon
    <3>3. run'[i][w] = "none"
      BY <1>r, <2>1 DEF Lease, RunIsBy
    <3> QED
      BY <1>0, <1>r, <2>0, <3>1, <3>2, <3>3, LeaseFrame DEF Walks
  <2> QED
    BY <1>2, <1>s, <2>0, <2>1 DEF ClaimRead
<1>3. CASE ClaimInsert(w) \/ ClaimInsertFails(w)
  <2>1. /\ loop[w].pc = "insert" /\ loop'[w].claim = loop[w].claim
        /\ \/ UNCHANGED lock /\ loop'[w].pc = "look"
           \/ lock = NoLock /\ lock' = Claimed(w) /\ loop'[w].pc \in {"start", "look"}
        /\ \A v \in Runners : v # w => loop'[v] = loop[v]
    BY <1>0, <1>3, GotoIs DEF ClaimInsert, ClaimInsertFails, At
  <2>2. CASE UNCHANGED lock /\ loop'[w].pc = "look"
    BY <1>0, <1>r, <2>1, <2>2, LeaseFrame DEF Walks, Asking
  <2>3. CASE lock = NoLock /\ lock' = Claimed(w) /\ loop'[w].pc \in {"start", "look"}
    BY <1>0, <1>r, <2>1, <2>3, GetsLock DEF Asking, Acquired
  <2> QED
    BY <2>1, <2>2, <2>3
<1>4. CASE ClaimLook(w)
  <2>1. UNCHANGED lock /\ loop[w].pc = "look"
    BY <1>4 DEF ClaimLook, At
  <2>2. CASE loop' = [loop EXCEPT ![w].pc = "take", ![w].claim.old = lock.id]
    <3>1. /\ loop'[w].pc = "take" /\ loop'[w].claim.id = loop[w].claim.id
          /\ loop'[w].claim.at = loop[w].claim.at /\ loop'[w].claim.until = loop[w].claim.until
          /\ \A v \in Runners : v # w => loop'[v] = loop[v]
      BY <1>0, <2>2 DEF TypeOK, LoopType, ClaimType
    <3> QED
      BY <1>0, <1>r, <2>1, <3>1, LeaseFrame DEF Walks, Asking
  <2> QED
    BY <1>4, <1>s, <2>1, <2>2 DEF ClaimLook
<1>5. CASE ClaimTake(w)
  <2>1. CASE ~Expired(loop[w].claim.at)
    BY <1>5, <1>s, <2>1 DEF ClaimTake
  <2>2. CASE Expired(loop[w].claim.at)
    <3>1. /\ lock' = Claimed(w) /\ loop'[w].pc \in {"mark", "start"} /\ loop[w].pc = "take"
          /\ loop'[w].claim = loop[w].claim
          /\ \A v \in Runners : v # w => loop'[v] = loop[v]
      BY <1>0, <1>5, <2>2, GotoIs DEF ClaimTake, At
    <3> QED
      BY <1>r, <2>2, <3>1, GetsLock DEF Asking, Acquired
  <2> QED
    BY <2>1, <2>2
<1>6. CASE ClaimAbandons(w)
  <2>1. \/ UNCHANGED lock
        \/ loop[w].pc = "take" /\ Expired(loop[w].claim.at) /\ lock' = Claimed(w)
    BY <1>6 DEF ClaimAbandons, At
  <2>2. CASE loop[w].pc = "take" /\ Expired(loop[w].claim.at) /\ lock' = Claimed(w)
    <3>1. loop'[w].pc = "stale" /\ \A v \in Runners : v # w => loop'[v] = loop[v]
      BY <1>0, <1>6, RestartIs DEF ClaimAbandons
    <3> QED
      BY <1>r, <2>2, <3>1, GetsLock DEF Bound, Asking, Acquired
  <2> QED
    BY <1>6, <1>s, <2>1, <2>2 DEF ClaimAbandons
<1> QED
  BY <1>1, <1>2, <1>3, <1>4, <1>5, <1>6

\* Two claims do not have the lock.
LEMMA OneHasLock ==
  ASSUME Lease, NEW v \in Runners, NEW w \in Runners, HasLock(v), lock.by = w
  PROVE  v = w
  BY DEF Lease, LeaseInv, ClaimHasLock, Claimed

\* A claim that is not overtaken starts its task under its own lease.
LEMMA StartLease ==
  ASSUME Lease, NEW w \in Runners, NEW i \in Ids, NEW t, loop[w].pc = "start",
         loop[w].claim.id = i, ~Overtaken(w), task[i].status = "pending",
         task' = [task EXCEPT ![i].status = "running", ![i].by = w, ![i].updated = t],
         t \in Nat, Becomes(i, w, "running") \/ UNCHANGED run, Restart(w),
         UNCHANGED <<lock, adrift, now>>
  PROVE  LeaseInv'
<1>0. TypeOK /\ now \in Nat /\ LeaseInv
  BY DEF Lease, TypeOK
<1>1. HasLock(w)
  BY DEF HasLock, Acquired
<1>2. lock = Claimed(w)
  BY <1>0, <1>1 DEF LeaseInv, ClaimHasLock
<1>3. lock.id = i /\ lock.by = w /\ lock.until = loop[w].claim.until
  BY <1>2 DEF Claimed
<1>4. lock.until >= now
  BY <1>0, <1>3, ClaimTimes DEF Overtaken
<1>5. \A j \in Ids : ~Sound(j)
  BY <1>0, <1>3 DEF LeaseInv, RunningIsLocked, LockedBy, Sound
<1>6. loop'[w].pc = "stale" /\ \A v \in Runners : v # w => loop'[v] = loop[v]
  BY <1>0, RestartIs
<1>7. \A v \in Runners : ~HasLock(v)'
  BY <1>3, <1>6, OneHasLock DEF HasLock, Overtaken, Acquired
<1>8. task'[i].by = w /\ \A j \in Ids : Soon(j) => j = i
  <2>1. Put(i, Started(i, w, t))
    BY <1>0, StartedIs
  <2> QED
    BY <1>0, <1>5, <2>1, StartedRow DEF Put, Sound, Soon
<1>9. \A j \in Ids, v \in Runners :
        /\ v # w => run'[j][v] = run[j][v]
        /\ run'[j][v] = "finishing" => run[j][v] = "finishing"
  BY <1>0 DEF TypeOK, Becomes
<1>10. RunningIsLocked'
  BY <1>3, <1>8 DEF RunningIsLocked, LockedBy, Sound, Soon
<1>11. ClaimIsFresh'
  <2> SUFFICES ASSUME NEW v \in Runners, loop'[v].pc \in Asking \cup Acquired
               PROVE  /\ loop'[v].claim.id \in Ids /\ loop'[v].claim.at <= now'
                      /\ run'[loop'[v].claim.id][v] = "none"
                      /\ Soon(loop'[v].claim.id) => task'[loop'[v].claim.id].by # v
    BY DEF ClaimIsFresh, Sound, Soon
  <2>1. v # w /\ loop'[v] = loop[v]
    BY <1>6 DEF Asking, Acquired
  <2>2. loop[v].claim.id \in Ids /\ loop[v].claim.at <= now /\ run[loop[v].claim.id][v] = "none"
    BY <1>0, <2>1 DEF LeaseInv, ClaimIsFresh
  <2> QED
    BY <1>8, <1>9, <2>1, <2>2
<1>12. ClaimHasLock'
  BY <1>7 DEF ClaimHasLock
<1>13. NoRunBehindStaleLock'
  <2> SUFFICES ASSUME NEW v \in Runners, loop'[v].pc \in Asking
               PROVE  lock'.until >= loop'[v].claim.at
    BY DEF NoRunBehindStaleLock
  <2>1. loop'[v] = loop[v] /\ loop[v].claim.at <= now
    BY <1>0, <1>6 DEF LeaseInv, ClaimIsFresh, Asking
  <2> QED
    BY <1>0, <1>4, <2>1, ClaimTimes
<1>14. NoRunBehindStaleDelete'
  <2> SUFFICES ASSUME NEW v \in Runners, loop'[v].pc \in {"stale_mark", "stale_delete"}
               PROVE  /\ loop'[v].claim.old \in Ids /\ loop'[v].claim.at <= now'
                      /\ lock'.until >= loop'[v].claim.at
    BY DEF NoRunBehindStaleDelete
  <2>1. loop'[v] = loop[v] /\ loop[v].claim.at <= now /\ loop[v].claim.old \in Ids
    BY <1>0, <1>6 DEF LeaseInv, NoRunBehindStaleDelete
  <2> QED
    BY <1>0, <1>4, <2>1, ClaimTimes
<1>15. FinishingIsFinished'
  <2>1. \A v \in Runners : run[i][v] = "none"
    BY DEF Lease, RunIsBy
  <2> QED
    BY <1>8, <1>9, <2>1 DEF FinishingIsFinished, Sound, Soon
<1> QED
  BY <1>10, <1>11, <1>12, <1>13, <1>14, <1>15 DEF LeaseInv

\* A claim that has reached the lock keeps the invariant, however late it is: its task starts
\* under its own lease or counts as adrift, and the lock it gives back hides no running task.
LEMMA AcquiredLease ==
  ASSUME Lease, NEW w \in Runners,
         ClaimMark(w) \/ ClaimStart(w) \/ ClaimFails(w) \/ ClaimRelease(w)
  PROVE  LeaseInv'
<1> DEFINE i == loop[w].claim.id
<1> DEFINE t == loop[w].claim.at
<1> DEFINE Starts == /\ i \in Ids /\ task[i].status = "pending" /\ loop[w].pc = "start"
                     /\ task' = [task EXCEPT ![i].status = "running", ![i].by = w,
                                             ![i].updated = t]
<1>0. TypeOK /\ now \in Nat /\ LeaseInv /\ loop[w].pc \in Acquired /\ t \in Nat
  BY ClaimTimes
  DEF Lease, TypeOK, ClaimMark, ClaimStart, ClaimFails, ClaimRelease, At, Acquired
<1>r. UNCHANGED now
  BY DEF ClaimMark, ClaimStart, ClaimFails, ClaimRelease
<1>g. ASSUME NEW pc \in Acquired, Goto(w, pc), NoNewRun, UNCHANGED <<lock, run>>
      PROVE  LeaseInv'
  <2>1. /\ loop'[w].pc \in Acquired /\ loop'[w].claim = loop[w].claim
        /\ \A v \in Runners : v # w => loop'[v] = loop[v]
    BY <1>0, <1>g, GotoIs
  <2>2. Handles
    BY <1>0, <1>g DEF LeaseInv, FinishingIsFinished, Handles
  <2> QED
    BY <1>0, <1>g, <1>r, <2>1, <2>2, LeaseFrame DEF Walks
<1>s. ASSUME Starts, Restart(w), UNCHANGED lock,
             run' = [run EXCEPT ![i][w] = "running"] \/ UNCHANGED run,
             adrift' = IF Overtaken(w) THEN adrift \cup {i} ELSE adrift
      PROVE  LeaseInv'
  <2>1. CASE ~Overtaken(w)
    <3>1. Becomes(i, w, "running") \/ UNCHANGED run
      BY <1>s DEF Becomes
    <3>2. /\ i \in Ids /\ loop[w].claim.id = i /\ task[i].status = "pending"
          /\ task' = [task EXCEPT ![i].status = "running", ![i].by = w, ![i].updated = t]
          /\ loop[w].pc = "start" /\ Restart(w) /\ UNCHANGED <<lock, adrift, now>>
      BY <1>r, <1>s, <2>1
    <3> HIDE DEF i, t, Starts
    <3> QED
      BY <1>0, <2>1, <3>1, <3>2, StartLease
  <2>2. CASE Overtaken(w)
    <3>0. i \in Ids /\ adrift' = adrift \cup {i}
      BY <1>s, <2>2
    <3>1. loop'[w].pc = "stale" /\ \A v \in Runners : v # w => loop'[v] = loop[v]
      BY <1>0, <1>s, RestartIs
    <3>2. Put(i, Started(i, w, t))
      <4>1. i \in Ids /\ task' = [task EXCEPT ![i].status = "running", ![i].by = w,
                                              ![i].updated = t]
        BY <1>s
      <4> HIDE DEF i, t, Starts
      <4> QED
        BY <1>0, <4>1, StartedIs
    <3>3. NoNewRun
      <4> HIDE DEF i, t, Starts
      <4> QED
        BY <1>0, <3>0, <3>2, AdriftMoves
    <3>4. Handles
      <4>1. run' = [run EXCEPT ![i][w] = "running"] \/ UNCHANGED run
        BY <1>s
      <4> HIDE DEF i, t, Starts
      <4>2. \A j \in Ids, v \in Runners :
              /\ v # w => run'[j][v] = run[j][v]
              /\ run'[j][v] = "finishing" => run[j][v] = "finishing"
        BY <1>0, <3>0, <4>1 DEF TypeOK
      <4> QED
        BY <3>1, <4>2 DEF Handles, Bound, Asking, Acquired
    <3> QED
      BY <1>0, <1>r, <1>s, <3>1, <3>3, <3>4, LeaseFrame DEF Walks, Bound, Asking, Acquired
  <2> QED
    BY <2>1, <2>2
<1>1. CASE ClaimMark(w)
  <2>1. NoNewRun
    BY <1>0, <1>1, MarkMoves, NoNewRunMoves DEF ClaimMark
  <2> QED
    BY <1>1, <1>g, <2>1 DEF ClaimMark, Acquired
<1>2. CASE ClaimRelease(w)
  <2>1. UNCHANGED <<task, run, adrift>>
    BY <1>2 DEF ClaimRelease
  <2>2. loop'[w].pc = "stale" /\ \A v \in Runners : v # w => loop'[v] = loop[v]
    BY <1>0, <1>2, RestartIs DEF ClaimRelease
  <2>3. CASE UNCHANGED lock
    BY <1>0, <1>r, <2>1, <2>2, <2>3, LeaseFrame
    DEF NoNewRun, Sound, Soon, Handles, Walks, Bound, Asking, Acquired
  <2>4. CASE LockedBy(i, w)
    <3>1. Sound(i) => task[i].by # w
      BY <1>0 DEF LeaseInv, ClaimIsFresh
    <3>2. \A j \in Ids : ~Sound(j)
      <4> HIDE DEF i
      <4> QED
        BY <1>0, <2>4, <3>1 DEF LeaseInv, RunningIsLocked, LockedBy
    <3>3. \A j \in Ids : ~Soon(j)
      BY <2>1, <3>2 DEF Sound, Soon
    <3>4. \A v \in Runners : v # w => ~HasLock(v)
      BY <2>4, OneHasLock DEF LockedBy
    <3>5. \A v \in Runners : v # w => ~HasLock(v)'
      BY <1>r, <2>2, <3>4 DEF HasLock, Overtaken
    <3> QED
      BY <1>r, <2>1, <2>2, <3>3, <3>5, LockFrame DEF Bound, Asking, Acquired
  <2> QED
    BY <1>2, <2>3, <2>4 DEF ClaimRelease, ReleaseSystemTaskLock
<1>3. CASE ClaimStart(w)
  <2>1. CASE i \in Ids /\ task[i].status = "pending"
    BY <1>3, <1>s, <2>1 DEF ClaimStart, At
  <2>2. CASE ~(i \in Ids /\ task[i].status = "pending")
    <3>1. Goto(w, "release") /\ UNCHANGED <<task, run, adrift, lock>>
      BY <1>3, <2>2 DEF ClaimStart
    <3> QED
      BY <1>g, <3>1 DEF NoNewRun, Sound, Soon, Acquired
  <2> QED
    BY <2>1, <2>2
<1>4. CASE ClaimFails(w)
  <2>0. UNCHANGED <<lock, run>>
    BY <1>4 DEF ClaimFails
  <2>1. CASE /\ Goto(w, "release") /\ UNCHANGED adrift
             /\ UNCHANGED task \/ MarkSystemTaskLeaseExpired(loop[w].claim.old)
    <3>1. NoNewRun
      BY <1>0, <2>1, MarkMoves, NoNewRunMoves
    <3> QED
      BY <1>g, <2>0, <2>1, <3>1 DEF Acquired
  <2>2. CASE Starts /\ Goto(w, "release") /\ adrift' = adrift \cup {i}
    <3>1. /\ i \in Ids /\ adrift' = adrift \cup {i}
          /\ task' = [task EXCEPT ![i].status = "running", ![i].by = w, ![i].updated = t]
      BY <2>2
    <3>2. NoNewRun
      <4> HIDE DEF i, t, Starts
      <4>1. Put(i, Started(i, w, t))
        BY <1>0, <3>1, StartedIs
      <4> QED
        BY <1>0, <3>1, <4>1, AdriftMoves
    <3> QED
      BY <1>g, <2>0, <2>2, <3>2 DEF Acquired
  <2>3. CASE /\ Starts /\ Restart(w)
             /\ adrift' = IF Overtaken(w) THEN adrift \cup {i} ELSE adrift
    BY <1>s, <2>0, <2>3
  <2> QED
    BY <1>4, <2>1, <2>2, <2>3 DEF ClaimFails, At
<1> QED
  BY <1>1, <1>2, <1>3, <1>4

\* A handler's change of state, without the lock, keeps the invariant.
LEMMA HandlerFrame ==
  ASSUME Lease, NoNewRun, UNCHANGED <<lock, loop, now>>,
         NEW i \in Ids, NEW w \in Runners, NEW state \in States,
         Becomes(i, w, state) \/ UNCHANGED run, run[i][w] # "none",
         state = "finishing" => ~Soon(i)
  PROVE  LeaseInv'
<1>0. now \in Nat /\ run \in [Ids -> [Runners -> States]]
  BY DEF Lease, TypeOK, States
<1>1. Handles
  BY <1>0 DEF Becomes, Handles
<1> QED
  BY <1>0, <1>1, LeaseFrame DEF Walks

\* A node that executes a task has no claim on the lock it holds for it.
LEMMA HandlerIsNoClaim ==
  ASSUME Lease, NEW i \in Ids, NEW w \in Runners, run[i][w] # "none", LockedBy(i, w)
  PROVE  \A v \in Runners : ~HasLock(v)
<1> SUFFICES ASSUME NEW v \in Runners, HasLock(v) PROVE FALSE
  OBVIOUS
<1>1. lock = Claimed(v) /\ run[loop[v].claim.id][v] = "none"
  BY DEF Lease, LeaseInv, ClaimHasLock, ClaimIsFresh, HasLock
<1>2. v = w /\ loop[v].claim.id = i
  BY <1>1 DEF Claimed, LockedBy
<1> QED
  BY <1>1, <1>2

\* Handlers keep the invariant: a heartbeat only prolongs the lease, and the task is
\* finished before its lock is released.
LEMMA HandlerLease ==
  ASSUME Lease, NEW i \in Ids, NEW w \in Runners, HandlerStep(i, w)
  PROVE  LeaseInv'
<1>0. TypeOK /\ now \in Nat /\ TTL \in Nat /\ LeaseInv /\ lock.until \in Nat
  BY TaskConstants DEF Lease, TypeOK
<1>r. UNCHANGED <<loop, adrift, now>>
  BY DEF HandlerStep, HandlerEnds, Heartbeat, HeartbeatFails, Progress, Finish, FinishRelease,
         HandlerFails
<1>1. CASE Heartbeat(i, w)
  <2>1. CASE UNCHANGED lock /\ (Becomes(i, w, "cancelled") \/ UNCHANGED run)
    BY <1>r, <1>1, <2>1, HandlerFrame DEF Heartbeat, NoNewRun, Sound, Soon, States
  <2>2. CASE Held(i, w)
    <3>1. /\ lock'.id = lock.id /\ lock'.by = lock.by /\ lock'.until = now + TTL
          /\ UNCHANGED <<task, run>> /\ LockedBy(i, w)
      BY <1>0, <1>1, <2>2 DEF Heartbeat, Held, TypeOK
    <3>2. \A v \in Runners : ~HasLock(v)
      BY <1>1, <3>1, HandlerIsNoClaim DEF Heartbeat
    <3>3. ClaimHasLock'
      BY <1>r, <3>2 DEF ClaimHasLock, HasLock, Overtaken
    <3>4. (RunningIsLocked /\ ClaimIsFresh /\ FinishingIsFinished)'
      BY <1>0, <1>r, <3>1
      DEF LeaseInv, RunningIsLocked, ClaimIsFresh, FinishingIsFinished, LockedBy, Sound
    <3>5. NoRunBehindStaleLock'
      <4> SUFFICES ASSUME NEW v \in Runners, loop[v].pc \in Asking
                   PROVE  now + TTL >= loop[v].claim.at
        BY <1>r, <3>1 DEF NoRunBehindStaleLock
      <4>1. loop[v].claim.at <= now /\ loop[v].claim.at \in Nat
        BY <1>0, ClaimTimes DEF LeaseInv, ClaimIsFresh
      <4> QED
        BY <1>0, <4>1
    <3>6. NoRunBehindStaleDelete'
      <4> SUFFICES ASSUME NEW v \in Runners, loop[v].pc \in {"stale_mark", "stale_delete"}
                   PROVE  /\ loop[v].claim.old \in Ids /\ loop[v].claim.at <= now
                          /\ now + TTL >= loop[v].claim.at
        BY <1>r, <3>1 DEF NoRunBehindStaleDelete
      <4>1. /\ loop[v].claim.old \in Ids /\ loop[v].claim.at <= now
            /\ loop[v].claim.at \in Nat
        BY <1>0, ClaimTimes DEF LeaseInv, NoRunBehindStaleDelete
      <4> QED
        BY <1>0, <4>1
    <3> QED
      BY <3>3, <3>4, <3>5, <3>6 DEF LeaseInv
  <2> QED
    BY <1>1, <2>1, <2>2 DEF Heartbeat
<1>2. CASE HeartbeatFails(i, w)
  BY <1>r, <1>2, HandlerFrame DEF HeartbeatFails, NoNewRun, Sound, Soon, States
<1>3. CASE Progress(i, w)
  <2>1. NoNewRun
    BY <1>0, <1>r, <1>3, StampedIs, NoNewRunMoves DEF Progress, MayWrite, StampsRow
  <2> QED
    BY <1>r, <1>3, <2>1, HandlerFrame DEF Progress, States
<1>4. ASSUME NEW s \in {"succeeded", "failed"}, Finish(i, w, s) PROVE LeaseInv'
  <2>1. CASE UNCHANGED task /\ Becomes(i, w, "done")
    BY <1>r, <1>4, <2>1, HandlerFrame DEF Finish, NoNewRun, Sound, Soon, States
  <2>2. CASE MayWrite(i, w)
    <3>1. Put(i, Ended(i, s)) /\ task[i].status = "running"
      BY <1>0, <1>4, <2>2, EndedIs DEF Finish, MayWrite
    <3>2. NoNewRun
      BY <1>0, <1>r, <3>1, NoNewRunMoves DEF EndsRow
    <3>3. ~Soon(i)
      BY <1>0, <3>1, EndedRow DEF Put, Soon
    <3> QED
      BY <1>r, <1>4, <2>2, <3>2, <3>3, HandlerFrame DEF Finish, States
  <2> QED
    BY <1>4, <2>1, <2>2 DEF Finish
<1>5. CASE FinishRelease(i, w)
  <2>1. UNCHANGED task /\ run[i][w] = "finishing" /\ Becomes(i, w, "done")
    BY <1>5 DEF FinishRelease
  <2>2. CASE UNCHANGED lock
    BY <1>r, <2>1, <2>2, HandlerFrame DEF NoNewRun, Sound, Soon, States
  <2>3. CASE LockedBy(i, w)
    <3>1. \A v \in Runners : ~HasLock(v)'
      BY <1>r, <2>1, <2>3, HandlerIsNoClaim DEF HasLock, Overtaken
    <3>2. \A j \in Ids : ~Sound(j)
      BY <1>0, <2>1, <2>3 DEF LeaseInv, RunningIsLocked, FinishingIsFinished, LockedBy
    <3>3. \A j \in Ids : ~Soon(j)
      BY <1>r, <2>1, <3>2 DEF Sound, Soon
    <3>4. \A j \in Ids, v \in Runners : run[j][v] = "none" => run'[j][v] = "none"
      BY <1>0, <2>1 DEF TypeOK, Becomes
    <3> QED
      BY <1>r, <3>1, <3>3, <3>4, LockFrame
  <2> QED
    BY <1>5, <2>2, <2>3 DEF FinishRelease, ReleaseSystemTaskLock
<1>6. CASE HandlerFails(i, w)
  <2>1. NoNewRun
    BY <1>0, <1>r, <1>6, EndedIs, NoNewRunMoves DEF HandlerFails, MayWrite, EndsRow
  <2> QED
    BY <1>r, <1>6, <2>1, HandlerFrame DEF HandlerFails, States
<1> QED
  BY <1>1, <1>2, <1>3, <1>4, <1>5, <1>6 DEF HandlerStep, HandlerEnds

\* Every step keeps the invariant.
LEMMA LeaseStep == ~Legacy /\ Lease /\ [Next]_vars => LeaseInv'
<1> SUFFICES ASSUME ~Legacy, Lease, [Next]_vars PROVE LeaseInv'
  OBVIOUS
<1>0. TypeOK /\ now \in Nat
  BY DEF Lease, TypeOK
<1>1. ASSUME NEW w \in Runners, Schedule(w) \/ Create(w) PROVE LeaseInv'
  <2>1. loop'[w].pc \in {"create", "claim"} /\ \A v \in Runners : v # w => loop'[v] = loop[v]
    BY <1>0, <1>1, GotoIs DEF Schedule, Create
  <2>2. NoNewRun /\ UNCHANGED <<lock, run, now>>
    BY <1>0, <1>1, CreateMoves, NoNewRunMoves DEF Schedule, Create
  <2> QED
    BY <1>0, <2>1, <2>2, LeaseFrame DEF Handles, Walks, Bound, Asking, Acquired
<1>2. ASSUME NEW w \in Runners, LoopStep(w) \/ LoopFault(w) PROVE LeaseInv'
  BY <1>1, <1>2, StaleLease, AskLease, AcquiredLease DEF LoopStep, LoopFault
<1>3. ASSUME NEW w \in Runners, Crash(w) PROVE LeaseInv'
  <2>1. /\ UNCHANGED <<task, lock, adrift, now>> /\ loop'[w].pc = "down"
        /\ \A v \in Runners : v # w => loop'[v] = loop[v]
    BY <1>0, <1>3 DEF Crash, TypeOK
  <2>2. Handles
    BY <1>0, <1>3 DEF Crash, TypeOK, Handles
  <2> QED
    BY <1>0, <2>1, <2>2, LeaseFrame
    DEF NoNewRun, Sound, Soon, Walks, Bound, Asking, Acquired
<1>4. ASSUME NEW c \in Callers, EnqueueLook(c) \/ EnqueueCreate(c) PROVE LeaseInv'
  <2>1. NoNewRun /\ UNCHANGED <<lock, loop, run, now>>
    BY <1>0, <1>4, CreateMoves, NoNewRunMoves DEF EnqueueLook, EnqueueCreate
  <2> QED
    BY <1>0, <2>1, LeaseFrame DEF Handles, Walks
<1>5. CASE Tick \/ UNCHANGED vars
  <2>1. UNCHANGED <<task, lock, loop, run, adrift>> /\ (now' = now + 1 \/ now' = now)
    BY <1>5 DEF Tick, vars
  <2>2. now' \in Nat /\ now' >= now
    BY <1>0, <2>1
  <2> QED
    BY <2>1, <2>2, LeaseFrame DEF NoNewRun, Sound, Soon, Handles, Walks
<1> QED
  BY <1>2, <1>3, <1>4, <1>5, HandlerLease DEF Next

\* The first state satisfies it.
LEMMA LeaseInit == Init => LeaseInv
<1> SUFFICES ASSUME Init PROVE LeaseInv
  OBVIOUS
<1>1. \A i \in Ids : ~Sound(i)
  <2> SUFFICES ASSUME NEW i \in Ids PROVE task[i].status # "running"
    BY DEF Sound
  <2>1. NoRow.status # "running" /\ [NoRow EXCEPT !.status = "pending"].status # "running"
    BY DEF NoRow
  <2>2. task[i] = NoRow \/ task[i] = [NoRow EXCEPT !.status = "pending"]
    BY DEF Init
  <2> QED
    BY <2>1, <2>2
<1>2. \A w \in Runners : loop[w].pc = "stale"
  BY DEF Init
<1>3. \A i \in Ids, w \in Runners : run[i][w] = "none"
  BY DEF Init
<1> QED
  BY <1>1, <1>2, <1>3
  DEF LeaseInv, RunningIsLocked, ClaimIsFresh, ClaimHasLock, HasLock, NoRunBehindStaleLock,
      NoRunBehindStaleDelete, FinishingIsFinished, Asking, Acquired

\* A running task is always locked by its runner, so that a stale-lock pass finds it when its
\* node dies: for any number of nodes, crashes and failing calls, and for claims and passes
\* that pause for as long as they like.  Only a task that was started by a claim whose own
\* lease had run out, or whose UPDATE was done although an error was reported, may be without
\* it.  No row may predate active_key.
THEOREM RunningStaysLocked ==
  ASSUME ~Legacy
  PROVE  Spec => []RunningIsLocked
<1>1. Init => LeaseInv /\ RunIsBy /\ OneActive
  <2>1. Init => RunIsBy
    BY DEF Init, RunIsBy
  <2> QED
    BY <2>1, LeaseInit, OneActiveInit
<1>2. TypeOK /\ OneActive /\ RunIsBy /\ LeaseInv /\ [Next]_vars
        => LeaseInv' /\ RunIsBy' /\ OneActive'
  BY LeaseStep, RowMoves, RunMoves, RunIsByStep, OneActiveStep DEF Lease
<1>3. LeaseInv => RunningIsLocked
  BY DEF LeaseInv
<1> QED
  BY <1>1, <1>2, <1>3, TaskTypeCorrect, PTL DEF Spec
===============================================================================
