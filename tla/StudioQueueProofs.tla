-------------------------- MODULE StudioQueueProofs --------------------------
(***************************************************************************)
(* Proofs about the image studio's queue, for every number of jobs,        *)
(* accounts, gateways, workers and restarts, and for all durations that    *)
(* stand in the relations StudioDurations names.                           *)
(***************************************************************************)
EXTENDS StudioQueue, TotalsProofs

(***************************************************************************)
(* The inductive invariant.                                                *)
(***************************************************************************)

\* The goroutine of a job up to the end of execute.
Executing == {"setup", "relay", "answered", "settling", "returned"}

Entry == [state : J!States, owner : Accounts, active : BOOLEAN, cancelReq : BOOLEAN,
          committed : BOOLEAN, gate : Gateways \union {NoJob}, body : {0, Body},
          result : {0, Image}, wait : 0..QueueTTL, grace : 0..CancelGrace,
          keep : 0..ResultTTL]

Goroutine == [phase : Phases, on : GPUs \union {NoJob}, left : 0..GpuLease,
              safe : BOOLEAN, ok : BOOLEAN, billed : BOOLEAN, heard : BOOLEAN]

PassOf == [todo : SUBSET Jobs, cur : Jobs \union {NoJob},
           got : {"none", "refusal", "worker"}, on : GPUs \union {NoJob}]

\* The types, without that of the order of the queue.
Types ==
    /\ entry \in [Jobs -> Entry] /\ exec \in [Jobs -> Goroutine]
    /\ bytes \in [Gateways -> Nat] /\ running \in [Gateways -> Nat] /\ tick \in [Gateways -> PassOf]
    /\ account \in [Accounts -> LeaseOf(AccountLease)] /\ gpu \in [GPUs -> LeaseOf(GpuLease)]
    /\ work \in [GPUs -> SUBSET Jobs] /\ owed \subseteq Jobs

\* An entry and its goroutine agree: who executes is active, an image is committed before it
\* is billed and not once the cancellation is accepted, and run returns an image exactly if
\* it was committed.
EntryOK(e, x, inOwed) ==
    /\ e.active <=> x.phase \in Executing
    /\ e.active => e.state \in {"running", "cancelling", "cancelled"} /\ e.body = Body
    /\ e.state \in {"running", "cancelling"} => e.active
    /\ e.state \in {"none", "queued"} => x.phase = "idle" /\ ~e.committed /\ ~e.cancelReq
    /\ e.state = "queued" => e.body = Body /\ e.result = 0
    /\ e.state # "none" => e.gate \in Gateways
    /\ e.committed => ~e.cancelReq
    /\ e.state \in {"cancelling", "cancelled"} => e.cancelReq
    /\ e.state = "completed" => e.committed
    /\ x.phase \in {"setup", "relay", "answered"} => ~e.committed /\ ~x.ok
    /\ x.phase = "settling" => e.committed
    /\ x.phase = "returned" => (x.ok <=> e.committed)
    /\ x.billed => e.committed
    /\ inOwed => e.state \notin {"none", "queued"} /\ ~e.active

JobOK(j) == EntryOK(entry[j], exec[j], j \in owed)

\* A job that waits has the lease of its account, for longer than it may wait.
LeaseOK(j) ==
    LET lease == account[entry[j].owner] IN
    entry[j].state = "queued" => lease.holder = j /\ lease.left > entry[j].wait

\* GPU x is reserved for j for as long as its execution counts.
Reserved(x, j) == exec[j].left > 0 => gpu[x].holder = j /\ gpu[x].left >= exec[j].left

\* A job about to be sent to a worker, or that the worker may be busy with, has the lease of
\* the GPU until it runs out, and does not give it back as long as nobody has answered.
WorkOK(j) ==
    /\ exec[j].phase = "setup" =>
         /\ exec[j].on \in GPUs /\ Reserved(exec[j].on, j) /\ ~exec[j].heard
         /\ \A x \in GPUs : j \notin work[x]
    /\ exec[j].phase \in {"relay", "answered", "settling"} => exec[j].on \in GPUs
    /\ exec[j].phase = "relay" => ~exec[j].heard
    /\ \A x \in GPUs : j \in work[x] =>
         /\ ~exec[j].heard => Reserved(x, j)
         /\ entry[j].state \notin {"none", "queued"}
         /\ exec[j].phase \notin {"setup", "answered", "settling"}
         /\ exec[j].phase # "idle" => exec[j].on = x
         /\ exec[j].phase = "relay" => ~exec[j].safe
         /\ exec[j].phase \in {"returned", "releaseGPU"} /\ exec[j].safe => exec[j].heard

\* The job a dispatcher considers is on its gateway and not yet started, there is a slot for
\* it, and a reservation in hand is as fresh as when it was made.
TickOK(g) ==
    LET t == tick[g] IN
    /\ \A j \in t.todo : entry[j].gate = g /\ entry[j].state # "none"
    /\ t.got # "none" => t.cur # NoJob
    /\ t.got = "worker" => t.on \in GPUs
    /\ t.cur # NoJob =>
         /\ entry[t.cur].gate = g /\ entry[t.cur].state # "none" /\ exec[t.cur].phase = "idle"
         /\ \A x \in GPUs : t.cur \notin work[x]
         /\ running[g] < MaxRunning
    /\ t.got = "worker" /\ entry[t.cur].state = "queued" =>
         gpu[t.on].holder = t.cur /\ gpu[t.on].left = GpuLease

\* What a job takes of the budget of gateway g, and the goroutines of g.
ShareOf(e, g) == IF Held(e) /\ e.gate = g THEN Retained(e) ELSE 0
Shares(g) == [j \in Jobs |-> ShareOf(entry[j], g)]
Slots(g) == {j \in Jobs : exec[j].phase # "idle" /\ entry[j].gate = g}

\* The books of gateway g.
GateOK(g) ==
    /\ bytes[g] = Total(Shares(g)) /\ bytes[g] <= MaxBytes
    /\ running[g] = Cardinality(Slots(g)) /\ running[g] <= MaxRunning

QueueInv ==
    /\ Types
    /\ \A j \in Jobs : JobOK(j) /\ LeaseOK(j) /\ WorkOK(j)
    /\ \A g \in Gateways : TickOK(g) /\ GateOK(g)

(***************************************************************************)
(* The facts every step starts from.                                       *)
(***************************************************************************)

\* The constants are numbers in the relations the exclusion rests on.
LEMMA DurationFacts ==
  /\ QueueTTL \in Nat /\ ExecMax \in Nat /\ CancelGrace \in Nat /\ ResultTTL \in Nat
  /\ AccountLease \in Nat /\ AccountLease > QueueTTL /\ GpuLease \in Nat /\ GpuLease > 0
  /\ MaxRunning \in Nat /\ MaxBytes \in Nat /\ MaxResult \in Nat /\ Image <= MaxResult
  /\ IsFiniteSet(Jobs) /\ NoJob \notin Jobs /\ NoJob \notin Gateways /\ NoJob \notin GPUs
  BY StudioConstants, StudioDurations

\* The types of what a step reads of a job.
LEMMA JobFacts ==
  ASSUME Types, NEW j \in Jobs
  PROVE  /\ entry[j] \in Entry /\ exec[j] \in Goroutine /\ entry[j].owner \in Accounts
         /\ account[entry[j].owner] \in LeaseOf(AccountLease)
         /\ account[entry[j].owner].left \in Nat /\ exec[j].left \in Nat /\ entry[j].wait \in Nat
         /\ entry[j].gate \in Gateways \union {NoJob} /\ entry[j].state \in J!States
         /\ exec[j].phase \in Phases
<1>1. entry[j] \in Entry /\ exec[j] \in Goroutine
  BY DEF Types
<1>2. entry[j].owner \in Accounts /\ exec[j].left \in Nat /\ entry[j].wait \in Nat
  BY <1>1, DurationFacts DEF Entry, Goroutine
<1>3. account[entry[j].owner] \in LeaseOf(AccountLease)
  BY <1>2 DEF Types
<1>4. account[entry[j].owner].left \in Nat
  BY <1>3, DurationFacts DEF LeaseOf
<1> QED
  BY <1>1, <1>2, <1>3, <1>4 DEF Entry, Goroutine

\* Values the fields of an entry take.
LEMMA EntryValues ==
  /\ "none" \in J!States /\ "queued" \in J!States /\ "running" \in J!States
  /\ "cancelling" \in J!States /\ "cancelled" \in J!States /\ "completed" \in J!States
  /\ "failed" \in J!States /\ "expired" \in J!States /\ "released" \in J!States
  /\ "gone" \in J!States /\ "lost" \in J!States
  /\ 0 \in 0..QueueTTL /\ QueueTTL \in 0..QueueTTL /\ 0 \in 0..CancelGrace
  /\ CancelGrace \in 0..CancelGrace /\ 0 \in 0..ResultTTL /\ ResultTTL \in 0..ResultTTL
<1>1. /\ "none" \in J!States /\ "queued" \in J!States /\ "running" \in J!States
      /\ "cancelling" \in J!States /\ "cancelled" \in J!States /\ "completed" \in J!States
      /\ "failed" \in J!States /\ "expired" \in J!States /\ "released" \in J!States
      /\ "gone" \in J!States /\ "lost" \in J!States
  BY DEF J!States, J!Ended
<1>2. /\ 0 \in 0..QueueTTL /\ QueueTTL \in 0..QueueTTL /\ 0 \in 0..CancelGrace
      /\ CancelGrace \in 0..CancelGrace /\ 0 \in 0..ResultTTL /\ ResultTTL \in 0..ResultTTL
  BY DurationFacts
<1> QED
  BY <1>1, <1>2

\* The parts of the invariant that are about one job or one gateway.
LEMMA Parts ==
  ASSUME QueueInv
  PROVE  /\ Types /\ \A j \in Jobs : JobOK(j) /\ LeaseOK(j) /\ WorkOK(j)
         /\ \A g \in Gateways : TickOK(g) /\ GateOK(g)
  BY DEF QueueInv

\* The share of a job is at most what an entry may retain.
LEMMA ShareType == ASSUME NEW e \in Entry, NEW g PROVE ShareOf(e, g) \in Nat
  BY DurationFacts DEF ShareOf, Retained, Unfinished, Entry, Body, Image

(***************************************************************************)
(* Steps that concern one job.                                             *)
(***************************************************************************)

\* The other jobs are none the worse: their leases are theirs.
LEMMA OtherJobs ==
  ASSUME QueueInv, Types', NEW j \in Jobs, NEW k \in Jobs \ {j},
         entry'[k] = entry[k], exec'[k] = exec[k], k \in owed' <=> k \in owed,
         \A x \in GPUs : k \in work'[x] => k \in work[x],
         \A a \in Accounts : account'[a] = account[a] \/ account[a].holder = j \/ account[a].left = 0,
         \A x \in GPUs : gpu'[x] = gpu[x] \/ gpu[x].holder = j \/ gpu[x].left = 0
  PROVE  JobOK(k)' /\ LeaseOK(k)' /\ WorkOK(k)'
<1>1. Types /\ JobOK(k) /\ LeaseOK(k) /\ WorkOK(k)
  BY Parts
<1>2. /\ entry[k].owner \in Accounts /\ account[entry[k].owner].left \in Nat
      /\ exec[k].left \in Nat /\ entry[k].wait \in Nat
  BY <1>1, JobFacts
<1>3. JobOK(k)'
  BY <1>1 DEF JobOK
<1>4. LeaseOK(k)'
  <2>1. entry[k].state = "queued" => account'[entry[k].owner] = account[entry[k].owner]
    BY <1>1, <1>2 DEF LeaseOK
  <2> QED
    BY <1>1, <2>1 DEF LeaseOK
<1>5. WorkOK(k)'
  <2>1. ASSUME NEW x \in GPUs, Reserved(x, k) PROVE Reserved(x, k)'
    <3> SUFFICES ASSUME exec[k].left > 0 PROVE gpu'[x] = gpu[x]
      BY <2>1 DEF Reserved
    <3>1. gpu[x].left \in Nat
      BY <1>1, DurationFacts DEF Types, LeaseOf
    <3>2. gpu[x].left # 0 /\ gpu[x].holder # j
      BY <1>2, <2>1, <3>1 DEF Reserved
    <3> QED
      BY <3>2
  <2> QED
    BY <1>1, <2>1 DEF WorkOK
<1> QED
  BY <1>3, <1>4, <1>5

\* The books follow the share of the one job that has changed.
LEMMA BytesStep ==
  ASSUME QueueInv, Types', NEW j \in Jobs, NEW g \in Gateways,
         \A k \in Jobs \ {j} : entry'[k] = entry[k],
         bytes'[g] = bytes[g] - ShareOf(entry[j], g) + ShareOf(entry'[j], g)
  PROVE  bytes'[g] = Total(Shares(g)')
<1> DEFINE f == Shares(g)
           n == ShareOf(entry'[j], g)
<1>1. Types /\ bytes[g] = Total(f)
  BY Parts DEF GateOK
<1>2. \A k \in Jobs : entry[k] \in Entry /\ entry'[k] \in Entry
  BY <1>1 DEF Types
<1>3. f \in [Jobs -> Nat] /\ n \in Nat
  BY <1>2, ShareType DEF Shares
<1>4. Shares(g)' = [f EXCEPT ![j] = n]
  BY DEF Shares
<1>5. f[j] = ShareOf(entry[j], g)
  BY DEF Shares
<1>f. IsFiniteSet(Jobs)
  BY DurationFacts
<1> HIDE DEF f, n
<1>6. Total([f EXCEPT ![j] = n]) = Total(f) - f[j] + n
  BY <1>3, <1>f, TotalUpdate
<1> QED
  BY <1>1, <1>4, <1>5, <1>6 DEF n

\* A finite set of goroutines, one of which has ended.
LEMMA SlotEnds ==
  ASSUME QueueInv, NEW j \in Jobs, NEW g \in Gateways, j \in Slots(g), Slots(g)' = Slots(g) \ {j},
         running'[g] = running[g] - 1
  PROVE  running'[g] = Cardinality(Slots(g)') /\ running'[g] <= MaxRunning /\ running'[g] <= running[g]
<1>1. running[g] = Cardinality(Slots(g)) /\ running[g] <= MaxRunning /\ running[g] \in Nat
  BY DEF QueueInv, GateOK, Types
<1>2. IsFiniteSet(Slots(g))
  BY DurationFacts, FS_Subset DEF Slots
<1>3. Cardinality(Slots(g) \ {j}) = Cardinality(Slots(g)) - 1
  BY <1>2, FS_RemoveElement
<1> QED
  BY <1>1, <1>3, DurationFacts

\* A step of one job while the dispatchers stand still.
LEMMA JobStep ==
  ASSUME QueueInv, NEW j \in Jobs, NEW h \in Gateways, Types', UNCHANGED tick,
         \A k \in Jobs \ {j} : entry'[k] = entry[k] /\ exec'[k] = exec[k],
         \A k \in Jobs \ {j} : k \in owed' <=> k \in owed,
         \A x \in GPUs, k \in Jobs \ {j} : k \in work'[x] => k \in work[x],
         \A a \in Accounts : account'[a] = account[a] \/ account[a].holder = j \/ account[a].left = 0,
         \A x \in GPUs : gpu'[x] = gpu[x] \/ gpu[x].holder = j \/ gpu[x].left = 0,
         entry'[j].gate = h, entry'[j].state # "none",
         entry[j].state # "none" => entry[j].gate = h,
         entry[j].state = "none" \/ entry'[j].state # "queued",
         exec[j].phase = "idle" => /\ exec'[j].phase = "idle"
                                   /\ \A x \in GPUs : j \in work'[x] => j \in work[x],
         \A g \in Gateways \ {h} : bytes'[g] = bytes[g] /\ running'[g] = running[g],
         bytes'[h] = bytes[h] - ShareOf(entry[j], h) + ShareOf(entry'[j], h), bytes'[h] <= MaxBytes,
         exec'[j].phase = "idle" /\ exec[j].phase # "idle" => running'[h] = running[h] - 1,
         exec'[j].phase # "idle" \/ exec[j].phase = "idle" => running'[h] = running[h],
         JobOK(j)', LeaseOK(j)', WorkOK(j)'
  PROVE  QueueInv'
<1>0. /\ Types /\ \A k \in Jobs : JobOK(k) /\ LeaseOK(k) /\ WorkOK(k)
      /\ \A g \in Gateways : TickOK(g) /\ GateOK(g)
  BY Parts
<1>1. ASSUME NEW k \in Jobs \ {j} PROVE JobOK(k)' /\ LeaseOK(k)' /\ WorkOK(k)'
  BY OtherJobs
<1>2. \A g \in Gateways \ {h} : ShareOf(entry[j], g) = 0 /\ ShareOf(entry'[j], g) = 0
  BY DEF ShareOf, Held
<1>3. ASSUME NEW g \in Gateways PROVE bytes'[g] = Total(Shares(g)') /\ bytes'[g] <= MaxBytes
  <2>1. bytes'[g] = bytes[g] - ShareOf(entry[j], g) + ShareOf(entry'[j], g)
    <3>1. CASE g = h
      BY <3>1
    <3>2. CASE g # h
      BY <1>0, <1>2, <3>2 DEF Types
    <3> QED
      BY <3>1, <3>2
  <2> QED
    BY <1>0, <2>1, BytesStep DEF GateOK
<1>4. ASSUME NEW g \in Gateways
      PROVE  running'[g] = Cardinality(Slots(g)') /\ running'[g] <= MaxRunning /\ running'[g] <= running[g]
  <2>0. JobOK(j) /\ running[g] = Cardinality(Slots(g)) /\ running[g] <= MaxRunning /\ running[g] \in Nat
    BY <1>0 DEF GateOK, Types
  <2>1. exec[j].phase # "idle" => entry[j].gate = h
    BY <2>0 DEF JobOK, EntryOK
  <2>2. CASE g = h /\ exec[j].phase # "idle" /\ exec'[j].phase = "idle"
    <3>1. j \in Slots(g) /\ Slots(g)' = Slots(g) \ {j}
      BY <2>1, <2>2 DEF Slots
    <3> QED
      BY <2>2, <3>1, SlotEnds
  <2>3. CASE ~(g = h /\ exec[j].phase # "idle" /\ exec'[j].phase = "idle")
    <3>1. Slots(g)' = Slots(g)
      BY <2>1, <2>3 DEF Slots
    <3>2. running'[g] = running[g]
      BY <2>3
    <3> QED
      BY <2>0, <3>1, <3>2
  <2> QED
    BY <2>2, <2>3
<1>5. ASSUME NEW g \in Gateways PROVE TickOK(g)'
  <2> DEFINE t == tick[g]
  <2>0. TickOK(g) /\ t.todo \subseteq Jobs /\ t.cur \in Jobs \union {NoJob} /\ running[g] \in Nat
        /\ running'[g] \in Nat
    BY <1>0 DEF Types, PassOf
  <2>1. \A k \in t.todo : entry'[k].gate = g /\ entry'[k].state # "none"
    BY <2>0 DEF TickOK
  <2>2. t.cur # NoJob =>
         /\ entry'[t.cur].gate = g /\ entry'[t.cur].state # "none" /\ exec'[t.cur].phase = "idle"
         /\ \A x \in GPUs : t.cur \notin work'[x]
    BY <2>0 DEF TickOK
  <2>3. t.cur # NoJob => running'[g] < MaxRunning
    BY <1>4, <2>0, DurationFacts DEF TickOK
  <2>4. t.got = "worker" /\ entry'[t.cur].state = "queued" =>
         gpu'[t.on].holder = t.cur /\ gpu'[t.on].left = GpuLease
    <3> SUFFICES ASSUME t.got = "worker", entry'[t.cur].state = "queued"
                 PROVE  gpu'[t.on].holder = t.cur /\ gpu'[t.on].left = GpuLease
      OBVIOUS
    <3>1. t.cur \in Jobs /\ t.cur # j /\ t.on \in GPUs
      BY <2>0 DEF TickOK
    <3>2. entry'[t.cur] = entry[t.cur] /\ gpu[t.on].holder = t.cur /\ gpu[t.on].left = GpuLease
      BY <2>0, <3>1 DEF TickOK
    <3>3. GpuLease # 0
      BY DurationFacts
    <3> QED
      BY <3>1, <3>2, <3>3
  <2> QED
    BY <2>0, <2>1, <2>2, <2>3, <2>4 DEF TickOK
<1>6. \A g \in Gateways : GateOK(g)'
  BY <1>3, <1>4 DEF GateOK
<1>7. \A k \in Jobs : JobOK(k)' /\ LeaseOK(k)' /\ WorkOK(k)'
  BY <1>1
<1> QED
  BY <1>5, <1>6, <1>7 DEF QueueInv

(***************************************************************************)
(* Requests of the browser.                                                *)
(***************************************************************************)

\* A job is admitted under the lease of its account.
LEMMA SubmitStep ==
  ASSUME QueueInv, NEW j \in Jobs, NEW a \in Accounts, NEW g \in Gateways, Submit(j, a, g)
  PROVE  QueueInv'
<1> DEFINE e == NewEntry(a, g)
           lease == [holder |-> j, left |-> AccountLease]
<1>0. /\ Types /\ JobOK(j) /\ WorkOK(j) /\ entry[j].state = "none" /\ account[a].left = 0
      /\ bytes[g] + Body + MaxResult <= MaxBytes
      /\ account' = [account EXCEPT ![a] = lease] /\ entry' = [entry EXCEPT ![j] = e]
      /\ bytes' = [bytes EXCEPT ![g] = @ + Body + MaxResult]
      /\ UNCHANGED <<running, tick, exec, owed, gpu, work, crashes>>
  BY Parts DEF Submit, CanAcquire, Acquired
<1>1. /\ e \in Entry /\ e.state = "queued" /\ e.owner = a /\ e.gate = g /\ ~e.active /\ ~e.cancelReq
      /\ ~e.committed /\ e.body = Body /\ e.result = 0 /\ e.wait = QueueTTL
  <2>1. (CHOOSE b \in Accounts : TRUE) \in Accounts
    BY StudioConstants
  <2>2. NoEntry \in Entry
    BY <2>1, EntryValues DEF NoEntry, Entry
  <2>3. e \in Entry
    BY <2>2, EntryValues DEF NewEntry, Entry
  <2> QED
    BY <2>2, <2>3 DEF NewEntry, NoEntry, Entry
<1>2. lease \in LeaseOf(AccountLease) /\ lease.holder = j /\ lease.left = AccountLease
  BY DurationFacts DEF LeaseOf
<1> HIDE DEF e, lease
<1>3. /\ entry'[j] = e /\ \A k \in Jobs \ {j} : entry'[k] = entry[k]
      /\ account'[a] = lease /\ \A b \in Accounts \ {a} : account'[b] = account[b]
      /\ bytes'[g] = bytes[g] + Body + MaxResult /\ \A h \in Gateways \ {g} : bytes'[h] = bytes[h]
      /\ entry' \in [Jobs -> Entry] /\ account' \in [Accounts -> LeaseOf(AccountLease)]
  BY <1>0, <1>1, <1>2 DEF Types
<1>4. bytes' \in [Gateways -> Nat] /\ bytes'[g] <= MaxBytes
  BY <1>0, DurationFacts DEF Types, Body
<1>5. Types'
  BY <1>0, <1>3, <1>4 DEF Types
<1>6. JobOK(j)'
  BY <1>0, <1>1, <1>3 DEF JobOK, EntryOK, Executing
<1>7. LeaseOK(j)'
  BY <1>0, <1>1, <1>2, <1>3, DurationFacts DEF LeaseOK
<1>8. WorkOK(j)'
  BY <1>0 DEF WorkOK, Reserved, JobOK, EntryOK
<1>9. bytes'[g] = bytes[g] - ShareOf(entry[j], g) + ShareOf(entry'[j], g)
  <2>1. ShareOf(entry[j], g) = 0 /\ ShareOf(entry'[j], g) = Body + MaxResult
    BY <1>0, <1>1, <1>3 DEF ShareOf, Held, Retained, Unfinished
  <2> QED
    BY <1>0, <1>3, <2>1, DurationFacts DEF Types, Body
<1> QED
  BY <1>0, <1>1, <1>3, <1>4, <1>5, <1>6, <1>7, <1>8, <1>9, JobStep

\* The entry of a job changes and nothing else but the books and what is owed.
LEMMA EntryStep ==
  ASSUME QueueInv, NEW j \in Jobs, entry[j].state # "none", NEW e \in Entry,
         entry' = [entry EXCEPT ![j] = e], NEW freed \in Nat,
         bytes' = [bytes EXCEPT ![entry[j].gate] = @ - freed],
         owed' = owed \/ owed' = owed \union {j},
         e.gate = entry[j].gate, e.state \notin {"none", "queued"},
         ShareOf(e, entry[j].gate) + freed = ShareOf(entry[j], entry[j].gate),
         EntryOK(e, exec[j], j \in owed'),
         UNCHANGED <<running, tick, exec, account, gpu, work>>
  PROVE  QueueInv'
<1> DEFINE h == entry[j].gate
<1>0. Types /\ JobOK(j) /\ LeaseOK(j) /\ WorkOK(j) /\ h \in Gateways
  BY Parts DEF JobOK, EntryOK
<1>1. bytes[h] = Total(Shares(h)) /\ bytes[h] <= MaxBytes /\ bytes[h] \in Nat
  BY <1>0, Parts DEF GateOK, Types
<1>2. ShareOf(entry[j], h) \in Nat /\ ShareOf(e, h) \in Nat /\ ShareOf(entry[j], h) <= Total(Shares(h))
  <2>1. \A k \in Jobs : entry[k] \in Entry
    BY <1>0 DEF Types
  <2>2. Shares(h) \in [Jobs -> Nat] /\ Shares(h)[j] = ShareOf(entry[j], h)
    BY <2>1, ShareType DEF Shares
  <2>3. IsFiniteSet(Jobs)
    BY DurationFacts
  <2>4. Shares(h)[j] <= Total(Shares(h))
    BY <2>2, <2>3, TotalBounds
  <2> QED
    BY <2>1, <2>2, <2>4, ShareType
<1>3. bytes[h] - freed \in Nat /\ bytes[h] - freed <= MaxBytes
      /\ bytes[h] - freed = bytes[h] - ShareOf(entry[j], h) + ShareOf(e, h)
  BY <1>1, <1>2, DurationFacts
<1>4. /\ bytes' \in [Gateways -> Nat] /\ bytes'[h] = bytes[h] - freed
      /\ \A g \in Gateways \ {h} : bytes'[g] = bytes[g]
  BY <1>0, <1>3 DEF Types
<1>5. entry'[j] = e /\ (\A k \in Jobs \ {j} : entry'[k] = entry[k]) /\ entry' \in [Jobs -> Entry]
  BY <1>0 DEF Types
<1>6. Types'
  BY <1>0, <1>4, <1>5 DEF Types
<1>7. JobOK(j)'
  BY <1>5 DEF JobOK
<1>8. LeaseOK(j)'
  BY <1>0, <1>5 DEF LeaseOK, Executing
<1>9. WorkOK(j)'
  BY <1>0, <1>5 DEF WorkOK, Reserved
<1>10. \A k \in Jobs \ {j} : k \in owed' <=> k \in owed
  OBVIOUS
<1> QED
  BY <1>0, <1>3, <1>4, <1>5, <1>6, <1>7, <1>8, <1>9, <1>10, JobStep

\* A cancellation, of a job that waits, runs or has ended.
LEMMA CancelStep ==
  ASSUME QueueInv, NEW j \in Jobs, Cancel(j)
  PROVE  QueueInv'
<1> DEFINE o == entry[j]
           h == o.gate
<1>0. Types /\ JobOK(j) /\ o \in Entry /\ Held(o)
  BY Parts, JobFacts DEF Cancel
<1>1. ~o.committed /\ CancelledEntry(o) # o
  BY DEF Cancel, CancelledEntry
<1>2. /\ entry' = [entry EXCEPT ![j] = CancelledEntry(o)]
      /\ bytes' = [bytes EXCEPT ![h] = @ - CancelFrees(o)]
      /\ owed' = IF o.state = "queued" THEN owed \union {j} ELSE owed
      /\ UNCHANGED <<running, tick, exec, account, gpu, work>>
  BY DEF Cancel
<1>3. o.state # "completed" /\ o.state # "none"
  BY <1>0, <1>1 DEF JobOK, EntryOK, Held
<1>4. CASE o.active
  <2> DEFINE e == [o EXCEPT !.grace = IF o.cancelReq THEN @ ELSE CancelGrace, !.cancelReq = TRUE,
                            !.state = IF @ = "cancelled" THEN @ ELSE "cancelling"]
  <2>1. CancelledEntry(o) = e /\ CancelFrees(o) = 0 /\ o.state # "queued"
    BY <1>0, <1>1, <1>3, <1>4 DEF CancelledEntry, CancelFrees, JobOK, EntryOK
  <2>2. /\ e \in Entry /\ e.gate = h /\ e.owner = o.owner /\ e.active /\ e.cancelReq /\ ~e.committed
        /\ e.state \in {"cancelling", "cancelled"} /\ e.body = o.body /\ e.result = o.result
    <3>1. e \in Entry
      BY <1>0, EntryValues DEF Entry
    <3> QED
      BY <1>0, <1>1, <1>3, <1>4, <3>1 DEF Entry, JobOK, EntryOK
  <2> HIDE DEF e
  <2>3. EntryOK(e, exec[j], j \in owed)
    BY <1>0, <1>1, <1>4, <2>2 DEF JobOK, EntryOK
  <2>4. ShareOf(e, h) + 0 = ShareOf(o, h)
    <3>1. ShareOf(e, h) = Body + MaxResult /\ ShareOf(o, h) = Body + MaxResult
      BY <1>0, <1>4, <2>2 DEF ShareOf, Held, Retained, Unfinished
    <3> QED
      BY <3>1, DurationFacts DEF Body
  <2>5. owed' = owed /\ 0 \in Nat
    BY <1>2, <2>1
  <2>6. EntryOK(e, exec[j], j \in owed')
    BY <2>3, <2>5
  <2> QED
    BY <1>2, <1>3, <2>1, <2>2, <2>4, <2>5, <2>6, EntryStep
<1>5. CASE ~o.active
  <2> DEFINE e == [o EXCEPT !.state = "cancelled", !.cancelReq = TRUE, !.keep = ResultTTL, !.body = 0]
  <2>1. o.state = "queued"
    BY <1>1, <1>3, <1>5 DEF CancelledEntry
  <2>2. CancelledEntry(o) = e /\ CancelFrees(o) = Body + MaxResult /\ o.body = Body /\ o.result = 0
    BY <1>0, <1>1, <1>3, <1>5, <2>1 DEF CancelledEntry, CancelFrees, JobOK, EntryOK
  <2>3. /\ e \in Entry /\ e.gate = h /\ e.owner = o.owner /\ ~e.active /\ e.cancelReq /\ ~e.committed
        /\ e.state = "cancelled" /\ e.body = 0 /\ e.result = 0
    <3>1. e \in Entry
      BY <1>0, EntryValues DEF Entry
    <3> QED
      BY <1>0, <1>1, <1>5, <2>2, <3>1 DEF Entry
  <2> HIDE DEF e
  <2>4. EntryOK(e, exec[j], j \in owed')
    BY <1>0, <1>1, <1>5, <2>1, <2>3 DEF JobOK, EntryOK
  <2>5. ShareOf(e, h) + (Body + MaxResult) = ShareOf(o, h) /\ Body + MaxResult \in Nat
    <3>1. ShareOf(e, h) = 0 /\ ShareOf(o, h) = Body + MaxResult
      BY <1>0, <2>1, <2>3 DEF ShareOf, Held, Retained, Unfinished
    <3> QED
      BY <3>1, DurationFacts DEF Body
  <2> QED
    BY <1>2, <1>3, <2>1, <2>2, <2>3, <2>4, <2>5, EntryStep
<1> QED
  BY <1>4, <1>5

\* The browser has stored the image.
LEMMA AckStep ==
  ASSUME QueueInv, NEW j \in Jobs, Ack(j)
  PROVE  QueueInv'
<1> DEFINE o == entry[j]
           h == o.gate
           e == [o EXCEPT !.result = 0, !.state = "released"]
<1>0. Types /\ JobOK(j) /\ o \in Entry /\ Held(o) /\ ~o.active /\ o.state \notin {"queued", "released"}
  BY Parts, JobFacts DEF Ack
<1>1. /\ entry' = [entry EXCEPT ![j] = e] /\ bytes' = [bytes EXCEPT ![h] = @ - o.result]
      /\ UNCHANGED <<running, tick, exec, owed, account, gpu, work>>
  BY DEF Ack
<1>2. /\ e \in Entry /\ e.gate = h /\ e.owner = o.owner /\ ~e.active /\ e.cancelReq = o.cancelReq
      /\ e.committed = o.committed /\ e.state = "released" /\ e.result = 0 /\ o.result \in Nat
  <2>1. e \in Entry
    BY <1>0, EntryValues DEF Entry
  <2> QED
    BY <1>0, <2>1 DEF Entry, Image
<1> HIDE DEF e
<1>3. EntryOK(e, exec[j], j \in owed')
  BY <1>0, <1>1, <1>2 DEF JobOK, EntryOK, Held
<1>4. ShareOf(e, h) + o.result = ShareOf(o, h)
  BY <1>0, <1>2 DEF ShareOf, Held, Retained, Unfinished
<1>5. o.state # "none"
  BY <1>0 DEF Held
<1> QED
  BY <1>1, <1>2, <1>3, <1>4, <1>5, EntryStep

\* Giving a lease back clears the row of its holder and no other.
LEMMA ReleaseFacts ==
  ASSUME NEW n \in Nat, NEW lease \in LeaseOf(n), NEW j \in Jobs
  PROVE  /\ Released(lease, j) \in LeaseOf(n)
         /\ Released(lease, j) = lease \/ lease.holder = j
<1>1. Free \in LeaseOf(n)
  BY DEF Free, LeaseOf
<1> QED
  BY <1>1 DEF Released

\* The account lease of a job that ended before it ran is given back.
LEMMA ReleaseAdmissionStep ==
  ASSUME QueueInv, NEW j \in Jobs, ReleaseAdmission(j)
  PROVE  QueueInv'
<1> DEFINE o == entry[j].owner
           h == entry[j].gate
<1>0. /\ Types /\ JobOK(j) /\ WorkOK(j) /\ o \in Accounts /\ account[o] \in LeaseOf(AccountLease)
      /\ j \in owed /\ owed' = owed \ {j}
      /\ account' = [account EXCEPT ![o] = Released(@, j)]
      /\ UNCHANGED <<entry, bytes, running, tick, exec, gpu, work>>
  BY Parts, JobFacts DEF ReleaseAdmission
<1>1. entry[j].state \notin {"none", "queued"} /\ ~entry[j].active /\ exec[j].phase \notin Executing
      /\ h \in Gateways
  BY <1>0 DEF JobOK, EntryOK
<1>2. Released(account[o], j) \in LeaseOf(AccountLease)
      /\ (Released(account[o], j) = account[o] \/ account[o].holder = j)
  BY <1>0, DurationFacts, ReleaseFacts
<1>3. /\ account' \in [Accounts -> LeaseOf(AccountLease)]
      /\ \A a \in Accounts : account'[a] = account[a] \/ account[a].holder = j
  BY <1>0, <1>2 DEF Types
<1>4. Types'
  BY <1>0, <1>3 DEF Types
<1>5. JobOK(j)'
  BY <1>0 DEF JobOK, EntryOK
<1>6. LeaseOK(j)'
  BY <1>0, <1>1 DEF LeaseOK, Executing
<1>7. WorkOK(j)'
  BY <1>0 DEF WorkOK, Reserved
<1>8. bytes'[h] = bytes[h] - ShareOf(entry[j], h) + ShareOf(entry'[j], h) /\ bytes'[h] <= MaxBytes
  <2>1. bytes[h] \in Nat /\ bytes[h] <= MaxBytes /\ ShareOf(entry[j], h) \in Nat
    BY <1>0, <1>1, Parts, JobFacts, ShareType DEF GateOK, Types
  <2> QED
    BY <1>0, <2>1
<1> QED
  BY <1>0, <1>1, <1>3, <1>4, <1>5, <1>6, <1>7, <1>8, JobStep

(***************************************************************************)
(* The goroutine of a job.                                                 *)
(***************************************************************************)

\* A step of the goroutine that leaves the entry alone.
LEMMA ExecOnly ==
  ASSUME QueueInv, NEW j \in Jobs, exec[j].phase # "idle", NEW e \in Goroutine,
         exec' = [exec EXCEPT ![j] = e], e.phase # "idle",
         UNCHANGED <<entry, bytes, running, tick, owed>>,
         account' \in [Accounts -> LeaseOf(AccountLease)], gpu' \in [GPUs -> LeaseOf(GpuLease)],
         work' \in [GPUs -> SUBSET Jobs],
         \A x \in GPUs, k \in Jobs \ {j} : k \in work'[x] => k \in work[x],
         \A a \in Accounts : account'[a] = account[a] \/ account[a].holder = j,
         \A x \in GPUs : gpu'[x] = gpu[x] \/ gpu[x].holder = j,
         EntryOK(entry[j], e, j \in owed), WorkOK(j)'
  PROVE  QueueInv'
<1> DEFINE h == entry[j].gate
<1>0. Types /\ JobOK(j) /\ LeaseOK(j)
  BY Parts
<1>1. entry[j].state \notin {"none", "queued"} /\ h \in Gateways
  BY <1>0 DEF JobOK, EntryOK
<1>2. exec'[j] = e /\ (\A k \in Jobs \ {j} : exec'[k] = exec[k]) /\ exec' \in [Jobs -> Goroutine]
  BY <1>0 DEF Types
<1>3. Types'
  BY <1>0, <1>2 DEF Types
<1>4. JobOK(j)'
  BY <1>2 DEF JobOK
<1>5. LeaseOK(j)'
  BY <1>1 DEF LeaseOK
<1>6. bytes'[h] = bytes[h] - ShareOf(entry[j], h) + ShareOf(entry'[j], h) /\ bytes'[h] <= MaxBytes
  <2>1. bytes[h] \in Nat /\ bytes[h] <= MaxBytes /\ ShareOf(entry[j], h) \in Nat
    BY <1>0, <1>1, Parts, JobFacts, ShareType DEF GateOK, Types
  <2> QED
    BY <1>0, <2>1
<1> QED
  BY <1>0, <1>1, <1>2, <1>3, <1>4, <1>5, <1>6, JobStep

\* The goroutine goes on, and neither its leases nor its worker know.
LEMMA PhaseStep ==
  ASSUME QueueInv, NEW j \in Jobs, exec[j].phase # "idle", NEW e \in Goroutine,
         exec' = [exec EXCEPT ![j] = e], e.phase \notin {"idle", "setup", "relay"},
         e.left = exec[j].left, e.on = exec[j].on,
         UNCHANGED <<entry, bytes, running, tick, owed, account, gpu, work>>,
         EntryOK(entry[j], e, j \in owed),
         e.phase \in {"relay", "answered", "settling"} => exec[j].phase \in {"relay", "answered", "settling"},
         exec[j].heard => e.heard,
         \A x \in GPUs : j \in work[x] =>
            /\ e.phase \notin {"answered", "settling"}
            /\ e.phase \in {"returned", "releaseGPU"} /\ e.safe => e.heard
  PROVE  QueueInv'
<1>0. Types /\ JobOK(j) /\ WorkOK(j)
  BY Parts
<1>1. exec'[j] = e
  BY <1>0 DEF Types
<1>2. e.phase \in {"relay", "answered", "settling"} => exec[j].on \in GPUs
  BY <1>0 DEF WorkOK
<1>3. WorkOK(j)'
  BY <1>0, <1>1, <1>2 DEF WorkOK, Reserved
<1>4. /\ account' \in [Accounts -> LeaseOf(AccountLease)] /\ gpu' \in [GPUs -> LeaseOf(GpuLease)]
      /\ work' \in [GPUs -> SUBSET Jobs]
  BY <1>0 DEF Types
<1> QED
  BY <1>3, <1>4, ExecOnly

\* Phases before anything was sent, and what run returns.
LEMMA ReturnSteps ==
  ASSUME QueueInv, NEW j \in Jobs,
         RunGivesUp(j) \/ ReviewApproves(j) \/ RelayRefused(j) \/ RelayUncertain(j) \/ SettleBill(j)
  PROVE  QueueInv'
<1>0. /\ Types /\ JobOK(j) /\ WorkOK(j) /\ exec[j] \in Goroutine
      /\ UNCHANGED <<entry, bytes, running, tick, owed, account, gpu, work>>
  BY Parts, JobFacts DEF RunGivesUp, ReviewApproves, RelayRefused, RelayUncertain, SettleBill, ExecBecomes
<1>s. /\ "returned" \in Executing /\ "answered" \in Executing /\ "setup" \in Executing
      /\ "relay" \in Executing /\ "settling" \in Executing /\ "returned" \in Phases /\ "answered" \in Phases
  BY DEF Executing, Phases
<1>t. (~TimedOut(j)) \in BOOLEAN
  BY DEF TimedOut
<1>1. CASE RunGivesUp(j)
  <2> DEFINE e == [exec[j] EXCEPT !.phase = "returned"]
  <2>1. exec[j].phase = "setup" /\ exec' = [exec EXCEPT ![j] = e]
    BY <1>1 DEF RunGivesUp, ExecBecomes
  <2>2. /\ e \in Goroutine /\ e.phase = "returned" /\ e.left = exec[j].left /\ e.on = exec[j].on
        /\ e.ok = exec[j].ok /\ e.billed = exec[j].billed /\ e.heard = exec[j].heard
    BY <1>0, <1>s DEF Goroutine
  <2> HIDE DEF e
  <2>3. EntryOK(entry[j], e, j \in owed)
    BY <1>0, <1>s, <2>1, <2>2 DEF JobOK, EntryOK
  <2>4. \A x \in GPUs : j \notin work[x]
    BY <1>0, <2>1 DEF WorkOK, Reserved
  <2> QED
    BY <1>0, <1>s, <2>1, <2>2, <2>3, <2>4, PhaseStep
<1>2. CASE ReviewApproves(j)
  <2> DEFINE e == [exec[j] EXCEPT !.phase = "answered"]
  <2>1. exec[j].phase = "relay" /\ exec' = [exec EXCEPT ![j] = e] /\ j \notin work[exec[j].on]
    BY <1>2 DEF ReviewApproves, ExecBecomes
  <2>2. /\ e \in Goroutine /\ e.phase = "answered" /\ e.left = exec[j].left /\ e.on = exec[j].on
        /\ e.ok = exec[j].ok /\ e.billed = exec[j].billed /\ e.heard = exec[j].heard
    BY <1>0, <1>s DEF Goroutine
  <2> HIDE DEF e
  <2>3. EntryOK(entry[j], e, j \in owed)
    BY <1>0, <1>s, <2>1, <2>2 DEF JobOK, EntryOK
  <2>4. \A x \in GPUs : j \notin work[x]
    BY <1>0, <2>1 DEF WorkOK, Reserved
  <2> QED
    BY <1>0, <1>s, <2>1, <2>2, <2>3, <2>4, PhaseStep
<1>3. CASE RelayRefused(j)
  <2> DEFINE e == [exec[j] EXCEPT !.phase = "returned", !.safe = ~TimedOut(j), !.heard = ~TimedOut(j)]
  <2>1. exec[j].phase = "relay" /\ exec' = [exec EXCEPT ![j] = e]
    BY <1>3 DEF RelayRefused, ExecBecomes
  <2>2. /\ e \in Goroutine /\ e.phase = "returned" /\ e.left = exec[j].left /\ e.on = exec[j].on
        /\ e.ok = exec[j].ok /\ e.billed = exec[j].billed /\ (e.safe => e.heard)
    BY <1>0, <1>s, <1>t DEF Goroutine
  <2> HIDE DEF e
  <2>3. EntryOK(entry[j], e, j \in owed)
    BY <1>0, <1>s, <2>1, <2>2 DEF JobOK, EntryOK
  <2>4. ~exec[j].heard
    BY <1>0, <2>1 DEF WorkOK
  <2> QED
    BY <1>0, <1>s, <2>1, <2>2, <2>3, <2>4, PhaseStep
<1>4. CASE RelayUncertain(j)
  <2> DEFINE e == [exec[j] EXCEPT !.phase = "returned"]
  <2>1. exec[j].phase = "relay" /\ exec' = [exec EXCEPT ![j] = e]
    BY <1>4 DEF RelayUncertain, ExecBecomes
  <2>2. /\ e \in Goroutine /\ e.phase = "returned" /\ e.left = exec[j].left /\ e.on = exec[j].on
        /\ e.ok = exec[j].ok /\ e.billed = exec[j].billed /\ e.safe = exec[j].safe /\ e.heard = exec[j].heard
    BY <1>0, <1>s DEF Goroutine
  <2> HIDE DEF e
  <2>3. EntryOK(entry[j], e, j \in owed)
    BY <1>0, <1>s, <2>1, <2>2 DEF JobOK, EntryOK
  <2>4. \A x \in GPUs : j \in work[x] => ~e.safe
    BY <1>0, <2>1, <2>2 DEF WorkOK, Reserved
  <2> QED
    BY <1>0, <1>s, <2>1, <2>2, <2>3, <2>4, PhaseStep
<1>5. CASE SettleBill(j)
  <2> DEFINE e == [exec[j] EXCEPT !.phase = "returned", !.safe = ~TimedOut(j), !.ok = TRUE, !.billed = TRUE]
  <2>1. exec[j].phase = "settling" /\ exec' = [exec EXCEPT ![j] = e]
    BY <1>5 DEF SettleBill, ExecBecomes
  <2>2. /\ e \in Goroutine /\ e.phase = "returned" /\ e.left = exec[j].left /\ e.on = exec[j].on
        /\ e.ok /\ e.billed /\ e.heard = exec[j].heard
    BY <1>0, <1>s, <1>t DEF Goroutine
  <2> HIDE DEF e
  <2>3. EntryOK(entry[j], e, j \in owed)
    BY <1>0, <1>s, <2>1, <2>2 DEF JobOK, EntryOK
  <2>4. \A x \in GPUs : j \notin work[x]
    BY <1>0, <2>1 DEF WorkOK, Reserved
  <2> QED
    BY <1>0, <1>s, <2>1, <2>2, <2>3, <2>4, PhaseStep
<1> QED
  BY <1>1, <1>2, <1>3, <1>4, <1>5

\* The one request to the worker.
LEMMA SendStep ==
  ASSUME QueueInv, NEW j \in Jobs, SendInference(j)
  PROVE  QueueInv'
<1> DEFINE e == [exec[j] EXCEPT !.phase = "relay", !.safe = FALSE]
           x == exec[j].on
<1>0. /\ Types /\ JobOK(j) /\ WorkOK(j) /\ exec[j] \in Goroutine /\ exec[j].phase = "setup"
      /\ exec' = [exec EXCEPT ![j] = e] /\ work' = [work EXCEPT ![x] = @ \union {j}]
      /\ UNCHANGED <<entry, bytes, running, tick, owed, account, gpu>>
  BY Parts, JobFacts DEF SendInference, ExecBecomes
<1>1. /\ e \in Goroutine /\ e.phase = "relay" /\ e.left = exec[j].left /\ e.on = x
      /\ e.ok = exec[j].ok /\ e.billed = exec[j].billed /\ ~e.safe /\ e.heard = exec[j].heard
  BY <1>0 DEF Goroutine, Phases
<1> HIDE DEF e
<1>2. /\ x \in GPUs /\ Reserved(x, j) /\ ~exec[j].heard
      /\ \A y \in GPUs : j \notin work[y]
  BY <1>0 DEF WorkOK, Reserved
<1>3. /\ work' \in [GPUs -> SUBSET Jobs] /\ \A y \in GPUs : j \in work'[y] => y = x
      /\ \A y \in GPUs, k \in Jobs \ {j} : k \in work'[y] => k \in work[y]
  BY <1>0, <1>2 DEF Types
<1>4. exec'[j] = e
  BY <1>0 DEF Types
<1>5. EntryOK(entry[j], e, j \in owed)
  BY <1>0, <1>1 DEF JobOK, EntryOK, Executing
<1>6. entry[j].state \notin {"none", "queued"}
  BY <1>0 DEF JobOK, EntryOK
<1>7. WorkOK(j)'
  BY <1>0, <1>1, <1>2, <1>3, <1>4, <1>6 DEF WorkOK, Reserved
<1>8. /\ account' \in [Accounts -> LeaseOf(AccountLease)] /\ gpu' \in [GPUs -> LeaseOf(GpuLease)]
  BY <1>0 DEF Types
<1> QED
  BY <1>0, <1>1, <1>3, <1>5, <1>7, <1>8, ExecOnly

\* Billing is claimed, or the cancellation came first.
LEMMA CommitStep ==
  ASSUME QueueInv, NEW j \in Jobs, CommitResult(j)
  PROVE  QueueInv'
<1> DEFINE o == entry[j]
           h == o.gate
<1>0. /\ Types /\ JobOK(j) /\ LeaseOK(j) /\ WorkOK(j) /\ exec[j] \in Goroutine /\ o \in Entry
      /\ exec[j].phase = "answered"
      /\ UNCHANGED <<bytes, running, tick, owed, account, gpu, work>>
  BY Parts, JobFacts DEF CommitResult, ExecBecomes
<1>s. /\ "answered" \in Executing /\ "settling" \in Executing /\ "returned" \in Executing
      /\ "settling" \in Phases /\ "returned" \in Phases
  BY DEF Executing, Phases
<1>1. \A x \in GPUs : j \notin work[x]
  BY <1>0 DEF WorkOK, Reserved
<1>2. CASE o.cancelReq
  <2> DEFINE e == [exec[j] EXCEPT !.phase = "returned", !.safe = ~TimedOut(j)]
  <2>1. exec' = [exec EXCEPT ![j] = e] /\ UNCHANGED entry
    BY <1>2 DEF CommitResult, ExecBecomes
  <2>2. (~TimedOut(j)) \in BOOLEAN
    BY DEF TimedOut
  <2>3. /\ e \in Goroutine /\ e.phase = "returned" /\ e.left = exec[j].left /\ e.on = exec[j].on
        /\ e.ok = exec[j].ok /\ e.billed = exec[j].billed /\ e.heard = exec[j].heard
    BY <1>0, <1>s, <2>2 DEF Goroutine
  <2> HIDE DEF e
  <2>4. EntryOK(entry[j], e, j \in owed)
    BY <1>0, <1>s, <2>3 DEF JobOK, EntryOK
  <2> QED
    BY <1>0, <1>s, <1>1, <2>1, <2>3, <2>4, PhaseStep
<1>3. CASE ~o.cancelReq
  <2> DEFINE e == [exec[j] EXCEPT !.phase = "settling"]
             c == [o EXCEPT !.committed = TRUE]
  <2>1. exec' = [exec EXCEPT ![j] = e] /\ entry' = [entry EXCEPT ![j] = c]
    BY <1>3 DEF CommitResult, ExecBecomes
  <2>2. /\ e \in Goroutine /\ e.phase = "settling" /\ e.left = exec[j].left /\ e.on = exec[j].on
        /\ e.ok = exec[j].ok /\ e.billed = exec[j].billed /\ e.heard = exec[j].heard
    BY <1>0, <1>s DEF Goroutine
  <2>3. /\ c \in Entry /\ c.committed /\ c.state = o.state /\ c.gate = h /\ c.owner = o.owner
        /\ c.active = o.active /\ c.cancelReq = o.cancelReq /\ c.body = o.body /\ c.result = o.result
    BY <1>0 DEF Entry
  <2> HIDE DEF e, c
  <2>4. /\ exec'[j] = e /\ (\A k \in Jobs \ {j} : exec'[k] = exec[k]) /\ exec' \in [Jobs -> Goroutine]
        /\ entry'[j] = c /\ (\A k \in Jobs \ {j} : entry'[k] = entry[k]) /\ entry' \in [Jobs -> Entry]
    BY <1>0, <2>1, <2>2, <2>3 DEF Types
  <2>5. Types'
    BY <1>0, <2>4 DEF Types
  <2>6. o.state \notin {"none", "queued"} /\ h \in Gateways /\ o.active
    BY <1>0, <1>s DEF JobOK, EntryOK
  <2>7. JobOK(j)'
    BY <1>0, <1>s, <1>3, <2>2, <2>3, <2>4 DEF JobOK, EntryOK
  <2>8. LeaseOK(j)'
    BY <1>0, <1>s, <2>2, <2>3, <2>4, <2>6 DEF LeaseOK
  <2>9. WorkOK(j)'
    BY <1>0, <1>1, <2>2, <2>4 DEF WorkOK, Reserved
  <2>10. bytes'[h] = bytes[h] - ShareOf(o, h) + ShareOf(c, h) /\ bytes'[h] <= MaxBytes
    <3>1. bytes[h] \in Nat /\ bytes[h] <= MaxBytes /\ ShareOf(o, h) \in Nat
      BY <1>0, <2>6, Parts, ShareType DEF GateOK, Types
    <3>2. ShareOf(c, h) = ShareOf(o, h)
      BY <2>3 DEF ShareOf, Held, Retained, Unfinished
    <3> QED
      BY <1>0, <3>1, <3>2
  <2> QED
    BY <1>0, <2>2, <2>3, <2>4, <2>5, <2>6, <2>7, <2>8, <2>9, <2>10, JobStep
<1> QED
  BY <1>2, <1>3

\* The end of execute.
LEMMA ConcludeStep ==
  ASSUME QueueInv, NEW j \in Jobs, Conclude(j)
  PROVE  QueueInv'
<1> DEFINE o == entry[j]
           h == o.gate
           c == ConcludedEntry(o, exec[j].ok)
           e == [exec[j] EXCEPT !.phase = "releaseGPU"]
<1>0. /\ Types /\ JobOK(j) /\ LeaseOK(j) /\ WorkOK(j) /\ exec[j] \in Goroutine /\ o \in Entry
      /\ exec[j].phase = "returned" /\ entry' = [entry EXCEPT ![j] = c]
      /\ bytes' = [bytes EXCEPT ![c.gate] = @ - (o.body + MaxResult) + c.result]
      /\ exec' = [exec EXCEPT ![j] = e]
      /\ UNCHANGED <<running, tick, owed, account, gpu, work>>
  BY Parts, JobFacts DEF Conclude, ExecBecomes
<1>1. /\ o.state \in {"running", "cancelling", "cancelled"} /\ o.active /\ o.body = Body
      /\ (exec[j].ok <=> o.committed) /\ h \in Gateways /\ j \notin owed /\ (o.committed => ~o.cancelReq)
      /\ o.state \in {"cancelling", "cancelled"} => o.cancelReq
  BY <1>0 DEF JobOK, EntryOK, Executing
<1>2. /\ e \in Goroutine /\ e.phase = "releaseGPU" /\ e.left = exec[j].left /\ e.on = exec[j].on
      /\ e.billed = exec[j].billed /\ e.safe = exec[j].safe /\ e.heard = exec[j].heard
  BY <1>0 DEF Goroutine, Phases
<1>3. /\ c \in Entry /\ c.gate = h /\ c.owner = o.owner /\ ~c.active /\ c.committed = o.committed
      /\ c.cancelReq = o.cancelReq /\ c.state \in {"cancelled", "completed", "failed"}
      /\ (c.state = "cancelled" => o.cancelReq) /\ (c.state = "completed" => o.committed)
      /\ c.result \in {0, Image}
  <2> DEFINE st == IF o.cancelReq THEN "cancelled" ELSE IF exec[j].ok THEN "completed" ELSE "failed"
             r == IF st = "completed" THEN Image ELSE 0
  <2>1. c = [o EXCEPT !.body = 0, !.active = FALSE, !.keep = ResultTTL, !.state = st, !.result = r]
    BY DEF ConcludedEntry
  <2>2. /\ st \in {"cancelled", "completed", "failed"} /\ r \in {0, Image} /\ st \in J!States
        /\ (st = "cancelled" => o.cancelReq) /\ (st = "completed" => o.committed)
    BY <1>1, EntryValues
  <2> HIDE DEF st, r, c
  <2>3. c \in Entry
    BY <1>0, <2>1, <2>2, EntryValues DEF Entry
  <2> QED
    BY <1>0, <2>1, <2>2, <2>3 DEF Entry
<1> HIDE DEF c, e
<1>4. bytes[h] \in Nat /\ bytes[h] <= MaxBytes /\ bytes[h] = Total(Shares(h))
  BY <1>0, <1>1, Parts DEF GateOK, Types
<1>5. ShareOf(o, h) = Body + MaxResult /\ ShareOf(c, h) = c.result
  BY <1>0, <1>1, <1>3 DEF ShareOf, Held, Retained, Unfinished
<1>6. ShareOf(o, h) <= bytes[h]
  <2>1. \A k \in Jobs : entry[k] \in Entry
    BY <1>0 DEF Types
  <2>2. Shares(h) \in [Jobs -> Nat] /\ Shares(h)[j] = ShareOf(o, h)
    BY <2>1, ShareType DEF Shares
  <2>3. IsFiniteSet(Jobs)
    BY DurationFacts
  <2>4. Shares(h)[j] <= Total(Shares(h))
    BY <2>2, <2>3, TotalBounds
  <2> QED
    BY <1>4, <2>2, <2>4
<1>7. /\ bytes[h] - (Body + MaxResult) + c.result \in Nat
      /\ bytes[h] - (Body + MaxResult) + c.result <= MaxBytes
  BY <1>3, <1>4, <1>5, <1>6, DurationFacts DEF Body, Image
<1>8. /\ bytes' \in [Gateways -> Nat] /\ bytes'[h] = bytes[h] - (Body + MaxResult) + c.result
      /\ \A g \in Gateways \ {h} : bytes'[g] = bytes[g]
  BY <1>0, <1>1, <1>3, <1>7 DEF Types
<1>9. /\ exec'[j] = e /\ (\A k \in Jobs \ {j} : exec'[k] = exec[k]) /\ exec' \in [Jobs -> Goroutine]
      /\ entry'[j] = c /\ (\A k \in Jobs \ {j} : entry'[k] = entry[k]) /\ entry' \in [Jobs -> Entry]
  BY <1>0, <1>2, <1>3 DEF Types
<1>10. Types'
  BY <1>0, <1>8, <1>9 DEF Types
<1>11. JobOK(j)'
  BY <1>0, <1>1, <1>2, <1>3, <1>9 DEF JobOK, EntryOK, Executing
<1>12. LeaseOK(j)'
  BY <1>2, <1>3, <1>9 DEF LeaseOK, Executing
<1>13. WorkOK(j)'
  BY <1>0, <1>2, <1>3, <1>9 DEF WorkOK, Reserved
<1>14. bytes'[h] = bytes[h] - ShareOf(o, h) + ShareOf(c, h) /\ bytes'[h] <= MaxBytes
  BY <1>5, <1>7, <1>8
<1> QED
  BY <1>0, <1>1, <1>2, <1>3, <1>8, <1>9, <1>10, <1>11, <1>12, <1>13, <1>14, JobStep

\* The deferred calls give the leases back.
LEMMA ReleaseSteps ==
  ASSUME QueueInv, NEW j \in Jobs, ReleaseGPU(j) \/ ReleaseAccount(j)
  PROVE  QueueInv'
<1>0. /\ Types /\ JobOK(j) /\ WorkOK(j) /\ exec[j] \in Goroutine /\ entry[j].owner \in Accounts
      /\ UNCHANGED <<entry, bytes, running, tick, owed, work>>
      /\ exec[j].phase \in {"releaseGPU", "releaseAccount"}
  BY Parts, JobFacts DEF ReleaseGPU, ReleaseAccount, ExecBecomes
<1>s. /\ "releaseAccount" \notin Executing /\ "releaseSlot" \notin Executing
      /\ "releaseAccount" \in Phases /\ "releaseSlot" \in Phases
      /\ "releaseGPU" \notin Executing
  BY DEF Executing, Phases
<1>w. work' \in [GPUs -> SUBSET Jobs]
  BY <1>0 DEF Types
<1>e. entry[j].state \notin {"none", "queued"}
  BY <1>0 DEF JobOK, EntryOK
<1>1. CASE ReleaseGPU(j)
  <2> DEFINE e == [exec[j] EXCEPT !.phase = "releaseAccount"]
             x == exec[j].on
  <2>1. /\ exec[j].phase = "releaseGPU" /\ exec' = [exec EXCEPT ![j] = e] /\ UNCHANGED account
        /\ \/ gpu' = gpu
           \/ x \in GPUs /\ exec[j].safe /\ gpu' = [gpu EXCEPT ![x] = Released(@, j)]
    BY <1>1 DEF ReleaseGPU, ExecBecomes
  <2>2. /\ e \in Goroutine /\ e.phase = "releaseAccount" /\ e.left = exec[j].left /\ e.on = x
        /\ e.billed = exec[j].billed /\ e.safe = exec[j].safe /\ e.heard = exec[j].heard
    BY <1>0, <1>s DEF Goroutine
  <2> HIDE DEF e
  <2>3. EntryOK(entry[j], e, j \in owed)
    BY <1>0, <1>s, <2>1, <2>2 DEF JobOK, EntryOK
  <2>4. /\ gpu' \in [GPUs -> LeaseOf(GpuLease)]
        /\ \A y \in GPUs : gpu'[y] = gpu[y] \/ (y = x /\ gpu[y].holder = j /\ exec[j].safe)
    <3>1. CASE gpu' = gpu
      BY <1>0, <3>1 DEF Types
    <3>2. CASE x \in GPUs /\ exec[j].safe /\ gpu' = [gpu EXCEPT ![x] = Released(@, j)]
      <4>1. gpu[x] \in LeaseOf(GpuLease)
        BY <1>0, <3>2 DEF Types
      <4>2. Released(gpu[x], j) \in LeaseOf(GpuLease)
            /\ (Released(gpu[x], j) = gpu[x] \/ gpu[x].holder = j)
        BY <4>1, DurationFacts, ReleaseFacts
      <4> QED
        BY <1>0, <3>2, <4>2 DEF Types
    <3> QED
      BY <2>1, <3>1, <3>2
  <2>5. exec'[j] = e
    BY <1>0, <2>1 DEF Types
  <2>6. WorkOK(j)'
    <3>1. \A y \in GPUs : j \in work[y] /\ ~exec[j].heard => gpu'[y] = gpu[y]
      BY <1>0, <2>1, <2>4 DEF WorkOK
    <3> QED
      BY <1>0, <1>e, <2>1, <2>2, <2>5, <3>1 DEF WorkOK, Reserved
  <2>7. account' \in [Accounts -> LeaseOf(AccountLease)]
    BY <1>0, <2>1 DEF Types
  <2> QED
    BY <1>0, <1>s, <1>w, <2>1, <2>2, <2>3, <2>4, <2>6, <2>7, ExecOnly
<1>2. CASE ReleaseAccount(j)
  <2> DEFINE e == [exec[j] EXCEPT !.phase = "releaseSlot"]
             o == entry[j].owner
  <2>1. /\ exec[j].phase = "releaseAccount" /\ exec' = [exec EXCEPT ![j] = e] /\ UNCHANGED gpu
        /\ account' = [account EXCEPT ![o] = Released(@, j)]
    BY <1>2 DEF ReleaseAccount
  <2>2. /\ e \in Goroutine /\ e.phase = "releaseSlot" /\ e.left = exec[j].left /\ e.on = exec[j].on
        /\ e.billed = exec[j].billed /\ e.safe = exec[j].safe /\ e.heard = exec[j].heard
    BY <1>0, <1>s DEF Goroutine
  <2> HIDE DEF e
  <2>3. EntryOK(entry[j], e, j \in owed)
    BY <1>0, <1>s, <2>1, <2>2 DEF JobOK, EntryOK
  <2>4. account[o] \in LeaseOf(AccountLease)
    BY <1>0 DEF Types
  <2>5. Released(account[o], j) \in LeaseOf(AccountLease)
        /\ (Released(account[o], j) = account[o] \/ account[o].holder = j)
    BY <2>4, DurationFacts, ReleaseFacts
  <2>6. /\ account' \in [Accounts -> LeaseOf(AccountLease)]
        /\ \A a \in Accounts : account'[a] = account[a] \/ account[a].holder = j
    BY <1>0, <2>1, <2>5 DEF Types
  <2>7. exec'[j] = e
    BY <1>0, <2>1 DEF Types
  <2>8. WorkOK(j)'
    BY <1>0, <1>e, <2>1, <2>2, <2>7 DEF WorkOK, Reserved
  <2>9. gpu' \in [GPUs -> LeaseOf(GpuLease)]
    BY <1>0, <2>1 DEF Types
  <2> QED
    BY <1>0, <1>s, <1>w, <2>1, <2>2, <2>3, <2>6, <2>8, <2>9, ExecOnly
<1> QED
  BY <1>1, <1>2

\* The slot is returned.
LEMMA ReleaseSlotStep ==
  ASSUME QueueInv, NEW j \in Jobs, ReleaseSlot(j)
  PROVE  QueueInv'
<1> DEFINE e == [NoExec EXCEPT !.left = exec[j].left, !.billed = exec[j].billed, !.heard = exec[j].heard]
           h == entry[j].gate
<1>0. /\ Types /\ JobOK(j) /\ WorkOK(j) /\ exec[j] \in Goroutine /\ entry[j] \in Entry
      /\ exec[j].phase = "releaseSlot" /\ exec' = [exec EXCEPT ![j] = e]
      /\ running' = [running EXCEPT ![h] = @ - 1]
      /\ UNCHANGED <<entry, bytes, tick, owed, account, gpu, work>>
  BY Parts, JobFacts DEF ReleaseSlot, Past
<1>1. /\ e \in Goroutine /\ e.phase = "idle" /\ e.left = exec[j].left /\ e.billed = exec[j].billed
      /\ e.heard = exec[j].heard
  BY <1>0 DEF Goroutine, NoExec, Phases
<1> HIDE DEF e
<1>2. entry[j].state \notin {"none", "queued"} /\ h \in Gateways /\ ~entry[j].active
  BY <1>0 DEF JobOK, EntryOK, Executing
<1>3. running[h] = Cardinality(Slots(h)) /\ running[h] \in Nat /\ j \in Slots(h)
      /\ bytes[h] \in Nat /\ bytes[h] <= MaxBytes /\ ShareOf(entry[j], h) \in Nat
  BY <1>0, <1>2, Parts, ShareType DEF GateOK, Types, Slots
<1>4. running[h] # 0
  <2>1. IsFiniteSet(Slots(h))
    BY DurationFacts, FS_Subset DEF Slots
  <2> QED
    BY <1>3, <2>1, FS_EmptySet
<1>5. /\ running' \in [Gateways -> Nat] /\ running'[h] = running[h] - 1
      /\ \A g \in Gateways \ {h} : running'[g] = running[g]
  BY <1>0, <1>2, <1>3, <1>4 DEF Types
<1>6. exec'[j] = e /\ (\A k \in Jobs \ {j} : exec'[k] = exec[k]) /\ exec' \in [Jobs -> Goroutine]
  BY <1>0, <1>1 DEF Types
<1>7. Types'
  BY <1>0, <1>5, <1>6 DEF Types
<1>8. JobOK(j)'
  BY <1>0, <1>1, <1>2, <1>6 DEF JobOK, EntryOK, Executing
<1>9. LeaseOK(j)'
  BY <1>0, <1>1, <1>2, <1>6 DEF LeaseOK, Executing
<1>10. WorkOK(j)'
  BY <1>0, <1>1, <1>6 DEF WorkOK, Reserved
<1>11. bytes'[h] = bytes[h] - ShareOf(entry[j], h) + ShareOf(entry'[j], h) /\ bytes'[h] <= MaxBytes
  BY <1>0, <1>3
<1> QED
  BY <1>0, <1>1, <1>2, <1>5, <1>6, <1>7, <1>8, <1>9, <1>10, <1>11, JobStep

\* The worker is through with a job.
LEMMA WorkerStep ==
  ASSUME QueueInv, NEW x \in GPUs, WorkerEnds(x)
  PROVE  QueueInv'
<1>0. Types /\ UNCHANGED <<entry, bytes, running, tick, exec, owed, account, gpu>>
  BY Parts DEF WorkerEnds
<1>1. PICK j \in work[x] : work' = [work EXCEPT ![x] = @ \ {j}]
  BY DEF WorkerEnds
<1>2. j \in Jobs /\ work' \in [GPUs -> SUBSET Jobs] /\ \A y \in GPUs : work'[y] \subseteq work[y]
  BY <1>0, <1>1 DEF Types
<1>3. JobOK(j) /\ LeaseOK(j) /\ WorkOK(j) /\ entry[j].state \notin {"none", "queued"}
  BY <1>1, <1>2, Parts DEF WorkOK, Reserved
<1> DEFINE h == entry[j].gate
<1>4. h \in Gateways
  BY <1>3 DEF JobOK, EntryOK
<1>5. Types'
  BY <1>0, <1>2 DEF Types
<1>6. JobOK(j)' /\ LeaseOK(j)'
  BY <1>0, <1>3 DEF JobOK, LeaseOK
<1>7. WorkOK(j)'
  BY <1>0, <1>2, <1>3 DEF WorkOK, Reserved
<1>8. bytes'[h] = bytes[h] - ShareOf(entry[j], h) + ShareOf(entry'[j], h) /\ bytes'[h] <= MaxBytes
  <2>1. bytes[h] \in Nat /\ bytes[h] <= MaxBytes /\ ShareOf(entry[j], h) \in Nat
    BY <1>0, <1>2, <1>4, Parts, JobFacts, ShareType DEF GateOK, Types
  <2> QED
    BY <1>0, <2>1
<1>9. /\ \A k \in Jobs \ {j} : entry'[k] = entry[k] /\ exec'[k] = exec[k]
      /\ \A k \in Jobs \ {j} : k \in owed' <=> k \in owed
      /\ \A y \in GPUs, k \in Jobs \ {j} : k \in work'[y] => k \in work[y]
      /\ \A a \in Accounts : account'[a] = account[a]
      /\ \A y \in GPUs : gpu'[y] = gpu[y]
      /\ entry'[j].gate = h /\ entry'[j].state # "none" /\ entry'[j].state # "queued"
      /\ exec'[j].phase = exec[j].phase /\ \A y \in GPUs : j \in work'[y] => j \in work[y]
      /\ \A g \in Gateways : bytes'[g] = bytes[g] /\ running'[g] = running[g]
  BY <1>0, <1>2, <1>3
<1> HIDE DEF h
<1>10. entry[j].gate = h /\ UNCHANGED tick
  BY <1>0 DEF h
<1> QED
  BY <1>2, <1>4, <1>5, <1>6, <1>7, <1>8, <1>9, <1>10, JobStep

(***************************************************************************)
(* The dispatcher.                                                         *)
(***************************************************************************)

\* A step of the dispatcher of gateway g about a job of that gateway leaves the other
\* dispatchers as they were.
LEMMA OtherTicks ==
  ASSUME QueueInv, Types', NEW g \in Gateways, NEW h \in Gateways \ {g}, tick'[h] = tick[h],
         running'[h] = running[h], UNCHANGED work,
         \A k \in Jobs : entry[k].gate = h => entry'[k] = entry[k] /\ exec'[k] = exec[k],
         NEW j \in Jobs, entry[j].gate = g,
         \A a \in Accounts : account'[a] = account[a] \/ account[a].holder = j \/ account[a].left = 0,
         \A x \in GPUs : gpu'[x] = gpu[x] \/ gpu[x].holder = j \/ gpu[x].left = 0
  PROVE  TickOK(h)'
<1> DEFINE t == tick[h]
<1>0. Types /\ TickOK(h) /\ t.todo \subseteq Jobs /\ t.cur \in Jobs \union {NoJob}
  BY Parts DEF Types, PassOf
<1>1. \A k \in t.todo : entry'[k].gate = h /\ entry'[k].state # "none"
  BY <1>0 DEF TickOK
<1>2. t.cur # NoJob =>
       /\ entry'[t.cur] = entry[t.cur] /\ exec'[t.cur] = exec[t.cur] /\ t.cur # j /\ t.cur \in Jobs
       /\ entry[t.cur].gate = h
  BY <1>0 DEF TickOK
<1>3. t.got = "worker" /\ entry'[t.cur].state = "queued" =>
       gpu'[t.on].holder = t.cur /\ gpu'[t.on].left = GpuLease
  <2> SUFFICES ASSUME t.got = "worker", entry'[t.cur].state = "queued"
               PROVE  gpu'[t.on].holder = t.cur /\ gpu'[t.on].left = GpuLease
    OBVIOUS
  <2>1. t.cur \in Jobs /\ t.cur # j /\ t.on \in GPUs /\ entry'[t.cur] = entry[t.cur]
    BY <1>0, <1>2 DEF TickOK
  <2>2. gpu[t.on].holder = t.cur /\ gpu[t.on].left = GpuLease
    BY <1>0, <2>1 DEF TickOK
  <2>3. GpuLease # 0
    BY DurationFacts
  <2> QED
    BY <2>1, <2>2, <2>3
<1> QED
  BY <1>0, <1>1, <1>2, <1>3 DEF TickOK

\* A step of a dispatcher that concerns only its own pass.
LEMMA PassStep ==
  ASSUME QueueInv, NEW g \in Gateways, NEW t \in PassOf, tick' = [tick EXCEPT ![g] = t],
         UNCHANGED <<entry, bytes, running, exec, owed, account, gpu, work>>, TickOK(g)'
  PROVE  QueueInv'
<1>0. /\ Types /\ \A k \in Jobs : JobOK(k) /\ LeaseOK(k) /\ WorkOK(k)
      /\ \A h \in Gateways : TickOK(h) /\ GateOK(h)
  BY Parts
<1>1. Types'
  BY <1>0 DEF Types
<1>2. ASSUME NEW k \in Jobs PROVE JobOK(k)' /\ LeaseOK(k)' /\ WorkOK(k)'
  BY <1>0 DEF JobOK, LeaseOK, WorkOK, Reserved
<1>3. ASSUME NEW h \in Gateways PROVE GateOK(h)'
  BY <1>0 DEF GateOK, Shares, Slots
<1>4. ASSUME NEW h \in Gateways \ {g} PROVE TickOK(h)'
  <2>1. tick'[h] = tick[h]
    BY <1>0 DEF Types
  <2> QED
    BY <1>0, <2>1 DEF TickOK
<1> QED
  BY <1>1, <1>2, <1>3, <1>4 DEF QueueInv

\* The loop over the waiting entries, and a reservation that finds nothing or a refusal.
LEMMA DispatchSteps ==
  ASSUME QueueInv, NEW g \in Gateways, DispatchNext(g) \/ ReserveNothing(g) \/ ReserveRefusal(g)
  PROVE  QueueInv'
<1>0. /\ Types /\ TickOK(g) /\ tick[g] \in PassOf /\ tick[g].todo \subseteq Jobs
      /\ UNCHANGED <<entry, bytes, running, exec, owed, account, gpu, work>>
  BY Parts DEF DispatchNext, ReserveNothing, ReserveRefusal, Types, PassOf
<1>1. ASSUME NEW t \in PassOf, tick' = [tick EXCEPT ![g] = t], t.todo \subseteq tick[g].todo,
             t.got # "worker", t.got # "none" => t.cur # NoJob,
             t.cur # NoJob => \/ t.cur = tick[g].cur
                              \/ /\ t.cur \in tick[g].todo /\ entry[t.cur].state = "queued"
                                 /\ running[g] < MaxRunning
      PROVE  QueueInv'
  <2>1. tick'[g] = t
    BY <1>0, <1>1 DEF Types
  <2>2. t.cur # NoJob => /\ entry[t.cur].gate = g /\ entry[t.cur].state # "none"
                         /\ exec[t.cur].phase = "idle" /\ \A x \in GPUs : t.cur \notin work[x]
                         /\ running[g] < MaxRunning
    <3>1. ASSUME t.cur # NoJob, t.cur = tick[g].cur
          PROVE  /\ entry[t.cur].gate = g /\ entry[t.cur].state # "none"
                 /\ exec[t.cur].phase = "idle" /\ \A x \in GPUs : t.cur \notin work[x]
                 /\ running[g] < MaxRunning
      BY <1>0, <3>1 DEF TickOK
    <3>2. ASSUME NEW j \in Jobs, j \in tick[g].todo, entry[j].state = "queued"
          PROVE  /\ entry[j].gate = g /\ entry[j].state # "none"
                 /\ exec[j].phase = "idle" /\ \A x \in GPUs : j \notin work[x]
      <4>1. JobOK(j) /\ WorkOK(j)
        BY Parts
      <4> QED
        BY <1>0, <3>2, <4>1 DEF TickOK, JobOK, EntryOK, WorkOK, Reserved
    <3> QED
      BY <1>0, <1>1, <3>1, <3>2
  <2>3. TickOK(g)'
    BY <1>0, <1>1, <2>1, <2>2 DEF TickOK
  <2> QED
    BY <1>0, <1>1, <2>3, PassStep
<1>2. CASE DispatchNext(g)
  <2>1. PICK j \in tick[g].todo :
          tick' = [tick EXCEPT ![g] =
                IF running[g] >= MaxRunning THEN TickIdle
                ELSE IF entry[j].state # "queued" THEN [tick[g] EXCEPT !.todo = @ \ {j}]
                ELSE [tick[g] EXCEPT !.todo = @ \ {j}, !.cur = j]]
    BY <1>2 DEF DispatchNext
  <2>2. j \in Jobs /\ tick[g].cur = NoJob /\ tick[g].got = "none"
        /\ running[g] \in Nat
    BY <1>0, <1>2, <2>1 DEF DispatchNext, TickOK, Types
  <2>3. CASE running[g] >= MaxRunning
    <3>1. TickIdle \in PassOf /\ TickIdle.todo = {} /\ TickIdle.cur = NoJob /\ TickIdle.got = "none"
      BY DEF TickIdle, PassOf
    <3>2. tick' = [tick EXCEPT ![g] = TickIdle]
      BY <2>1, <2>3
    <3> QED
      BY <1>1, <3>1, <3>2
  <2>4. CASE ~(running[g] >= MaxRunning) /\ entry[j].state # "queued"
    <3> DEFINE t == [tick[g] EXCEPT !.todo = @ \ {j}]
    <3>1. t \in PassOf /\ t.todo \subseteq tick[g].todo /\ t.cur = NoJob /\ t.got = "none"
      BY <1>0, <2>2 DEF PassOf
    <3>2. tick' = [tick EXCEPT ![g] = t]
      BY <2>1, <2>4
    <3> HIDE DEF t
    <3> QED
      BY <1>1, <3>1, <3>2
  <2>5. CASE ~(running[g] >= MaxRunning) /\ entry[j].state = "queued"
    <3> DEFINE t == [tick[g] EXCEPT !.todo = @ \ {j}, !.cur = j]
    <3>1. t \in PassOf /\ t.todo \subseteq tick[g].todo /\ t.cur = j /\ t.got = "none"
      BY <1>0, <2>2 DEF PassOf
    <3>2. tick' = [tick EXCEPT ![g] = t]
      BY <2>1, <2>5
    <3>3. running[g] < MaxRunning
      BY <2>2, <2>5, DurationFacts
    <3> HIDE DEF t
    <3> QED
      BY <1>1, <2>1, <2>5, <3>1, <3>2, <3>3
  <2> QED
    BY <2>3, <2>4, <2>5
<1>3. CASE ReserveNothing(g)
  <2> DEFINE t == [tick[g] EXCEPT !.cur = NoJob]
  <2>1. tick' = [tick EXCEPT ![g] = t] /\ tick[g].got = "none"
    BY <1>3 DEF ReserveNothing, Considering
  <2>2. t \in PassOf /\ t.todo \subseteq tick[g].todo /\ t.cur = NoJob /\ t.got = "none"
    BY <1>0, <2>1 DEF PassOf
  <2> HIDE DEF t
  <2> QED
    BY <1>1, <2>1, <2>2
<1>4. CASE ReserveRefusal(g)
  <2> DEFINE t == [tick[g] EXCEPT !.got = "refusal"]
  <2>1. tick' = [tick EXCEPT ![g] = t] /\ tick[g].cur # NoJob
    BY <1>4 DEF ReserveRefusal, Considering
  <2>2. t \in PassOf /\ t.todo \subseteq tick[g].todo /\ t.cur = tick[g].cur /\ t.got = "refusal"
    BY <1>0, <2>1 DEF PassOf
  <2> HIDE DEF t
  <2> QED
    BY <1>1, <2>1, <2>2
<1> QED
  BY <1>2, <1>3, <1>4

\* A worker and a fresh account lease are reserved.
LEMMA ReserveStep ==
  ASSUME QueueInv, NEW g \in Gateways, NEW x \in GPUs, ReserveWorker(g, x)
  PROVE  QueueInv'
<1>0. /\ Types /\ TickOK(g) /\ tick[g] \in PassOf
      /\ UNCHANGED <<entry, bytes, running, exec, owed, work>>
      /\ tick[g].cur # NoJob /\ gpu[x].left = 0
  BY Parts DEF ReserveWorker, Considering, CanAcquire, Types
<1>j. PICK j \in Jobs : j = tick[g].cur
  BY <1>0 DEF PassOf
<1> DEFINE o == entry[j].owner
           lease == [holder |-> j, left |-> GpuLease]
           renewed == [account[o] EXCEPT !.left = AccountLease]
           t == [tick[g] EXCEPT !.got = "worker", !.on = x]
<1>1. /\ gpu' = [gpu EXCEPT ![x] = lease] /\ account' = [account EXCEPT ![o] = renewed]
      /\ tick' = [tick EXCEPT ![g] = t] /\ account[o].holder = j /\ account[o].left > 0
  BY <1>j DEF ReserveWorker, Acquired, Renewed, CanRenew
<1>2. /\ JobOK(j) /\ LeaseOK(j) /\ WorkOK(j) /\ o \in Accounts /\ account[o] \in LeaseOf(AccountLease)
      /\ entry[j].wait \in Nat /\ entry[j].wait <= QueueTTL
      /\ entry[j].gate = g /\ entry[j].state # "none" /\ exec[j].phase = "idle" /\ running[g] < MaxRunning
      /\ \A y \in GPUs : j \notin work[y]
  <2>1. entry[j] \in Entry
    BY <1>0, JobFacts
  <2>2. entry[j].wait \in Nat /\ entry[j].wait <= QueueTTL
    BY <2>1, DurationFacts DEF Entry
  <2> QED
    BY <1>0, <1>j, <2>2, Parts, JobFacts DEF TickOK
<1>3. /\ lease \in LeaseOf(GpuLease) /\ lease.holder = j /\ lease.left = GpuLease
      /\ renewed \in LeaseOf(AccountLease) /\ renewed.holder = j /\ renewed.left = AccountLease
  <2>1. GpuLease \in 0..GpuLease /\ AccountLease \in 0..AccountLease
    BY DurationFacts
  <2> QED
    BY <1>1, <1>2, <2>1 DEF LeaseOf
<1>4. t \in PassOf /\ t.todo = tick[g].todo /\ t.cur = j /\ t.got = "worker" /\ t.on = x
  BY <1>0, <1>j DEF PassOf
<1> HIDE DEF lease, renewed, t
<1>5. /\ gpu' \in [GPUs -> LeaseOf(GpuLease)] /\ gpu'[x] = lease
      /\ \A y \in GPUs : gpu'[y] = gpu[y] \/ gpu[y].left = 0
      /\ account' \in [Accounts -> LeaseOf(AccountLease)] /\ account'[o] = renewed
      /\ \A a \in Accounts : account'[a] = account[a] \/ account[a].holder = j
      /\ tick' \in [Gateways -> PassOf] /\ tick'[g] = t /\ \A h \in Gateways \ {g} : tick'[h] = tick[h]
  BY <1>0, <1>1, <1>2, <1>3, <1>4 DEF Types
<1>6. Types'
  BY <1>0, <1>5 DEF Types
<1>7. ASSUME NEW k \in Jobs \ {j} PROVE JobOK(k)' /\ LeaseOK(k)' /\ WorkOK(k)'
  BY <1>0, <1>5, <1>6, OtherJobs
<1>8. JobOK(j)'
  BY <1>0, <1>2 DEF JobOK
<1>9. LeaseOK(j)'
  <2>1. AccountLease > entry[j].wait
    BY <1>2, DurationFacts
  <2> QED
    BY <1>0, <1>3, <1>5, <2>1 DEF LeaseOK
<1>10. WorkOK(j)'
  BY <1>0, <1>2 DEF WorkOK, Reserved
<1>11. ASSUME NEW h \in Gateways \ {g} PROVE TickOK(h)'
  BY <1>0, <1>2, <1>5, <1>6, OtherTicks
<1>12. TickOK(g)'
  <2>1. \A k \in t.todo : entry[k].gate = g /\ entry[k].state # "none"
    BY <1>0, <1>4 DEF TickOK
  <2>2. /\ j # NoJob /\ entry[j].gate = g /\ entry[j].state # "none" /\ exec[j].phase = "idle"
        /\ (\A y \in GPUs : j \notin work[y]) /\ running[g] < MaxRunning
    BY <1>0, <1>j, <1>2
  <2>3. gpu'[x].holder = j /\ gpu'[x].left = GpuLease
    BY <1>3, <1>5
  <2>4. /\ tick'[g].todo = t.todo /\ tick'[g].cur = j /\ tick'[g].got = "worker" /\ tick'[g].on = x
        /\ entry' = entry /\ exec' = exec /\ work' = work /\ running' = running
    BY <1>0, <1>4, <1>5
  <2> HIDE DEF o
  <2> QED
    BY <2>1, <2>2, <2>3, <2>4 DEF TickOK
<1>13. ASSUME NEW h \in Gateways PROVE GateOK(h)'
  BY <1>0, Parts DEF GateOK, Shares, Slots
<1> QED
  BY <1>6, <1>7, <1>8, <1>9, <1>10, <1>11, <1>12, <1>13 DEF QueueInv

\* A job that still waits becomes active; the reservation of one that does not is released.
LEMMA ActivateStep ==
  ASSUME QueueInv, NEW g \in Gateways, Activate(g)
  PROVE  QueueInv'
<1>0. /\ Types /\ TickOK(g) /\ tick[g] \in PassOf /\ tick[g].got # "none" /\ tick[g].cur # NoJob
      /\ UNCHANGED <<bytes, owed, account, work>>
  BY Parts DEF Activate, TickOK, Types
<1>j. PICK j \in Jobs : j = tick[g].cur
  BY <1>0 DEF PassOf
<1> DEFINE o == entry[j]
           t == [TickIdle EXCEPT !.todo = tick[g].todo]
           x == tick[g].on
<1>1. /\ JobOK(j) /\ LeaseOK(j) /\ WorkOK(j) /\ o \in Entry /\ o.owner \in Accounts
      /\ o.gate = g /\ o.state # "none" /\ exec[j].phase = "idle" /\ running[g] < MaxRunning
      /\ \A y \in GPUs : j \notin work[y]
  BY <1>0, <1>j, Parts, JobFacts DEF TickOK
<1>2. t \in PassOf /\ t.todo = tick[g].todo /\ t.cur = NoJob /\ t.got = "none"
  BY <1>0 DEF PassOf, TickIdle
<1>3. tick' = [tick EXCEPT ![g] = t]
  BY DEF Activate
<1> HIDE DEF t
<1>4. tick' \in [Gateways -> PassOf] /\ tick'[g] = t /\ \A h \in Gateways \ {g} : tick'[h] = tick[h]
  BY <1>0, <1>2, <1>3 DEF Types
<1>5. CASE o.state # "queued"
  <2>1. /\ UNCHANGED <<entry, running, exec>>
        /\ gpu' = gpu \/ (x \in GPUs /\ gpu' = [gpu EXCEPT ![x] = Released(@, j)])
    BY <1>0, <1>j, <1>5 DEF Activate, TickOK
  <2>2. /\ gpu' \in [GPUs -> LeaseOf(GpuLease)]
        /\ \A y \in GPUs : gpu'[y] = gpu[y] \/ gpu[y].holder = j
    <3>1. CASE gpu' = gpu
      BY <1>0, <3>1 DEF Types
    <3>2. CASE x \in GPUs /\ gpu' = [gpu EXCEPT ![x] = Released(@, j)]
      <4>1. gpu[x] \in LeaseOf(GpuLease)
        BY <1>0, <3>2 DEF Types
      <4>2. Released(gpu[x], j) \in LeaseOf(GpuLease)
            /\ (Released(gpu[x], j) = gpu[x] \/ gpu[x].holder = j)
        BY <4>1, DurationFacts, ReleaseFacts
      <4> QED
        BY <1>0, <3>2, <4>2 DEF Types
    <3> QED
      BY <2>1, <3>1, <3>2
  <2>3. Types'
    BY <1>0, <1>4, <2>1, <2>2 DEF Types
  <2>4. ASSUME NEW k \in Jobs \ {j} PROVE JobOK(k)' /\ LeaseOK(k)' /\ WorkOK(k)'
    BY <1>0, <2>1, <2>2, <2>3, OtherJobs
  <2>5. JobOK(j)' /\ LeaseOK(j)'
    BY <1>0, <1>1, <2>1 DEF JobOK, LeaseOK
  <2>6. WorkOK(j)'
    BY <1>0, <1>1, <2>1 DEF WorkOK, Reserved
  <2>7. ASSUME NEW h \in Gateways \ {g} PROVE TickOK(h)'
    BY <1>0, <1>1, <1>4, <2>1, <2>2, <2>3, OtherTicks
  <2>8. TickOK(g)'
    BY <1>0, <1>2, <1>4, <2>1 DEF TickOK
  <2>9. ASSUME NEW h \in Gateways PROVE GateOK(h)'
    BY <1>0, <2>1, Parts DEF GateOK, Shares, Slots
  <2> QED
    BY <2>3, <2>4, <2>5, <2>6, <2>7, <2>8, <2>9 DEF QueueInv
<1>6. CASE o.state = "queued"
  <2> DEFINE c == [o EXCEPT !.state = "running", !.active = TRUE]
             p == IF tick[g].got = "worker" THEN "setup" ELSE "returned"
             e == [NoExec EXCEPT !.phase = p, !.on = x, !.left = GpuLease]
  <2>1. /\ entry' = [entry EXCEPT ![j] = c] /\ running' = [running EXCEPT ![g] = @ + 1]
        /\ exec' = [exec EXCEPT ![j] = e] /\ UNCHANGED gpu
    BY <1>j, <1>6 DEF Activate
  <2>2. p \in {"setup", "returned"} /\ p \in Phases /\ p \in Executing /\ (p = "setup" => tick[g].got = "worker")
    BY DEF Phases, Executing
  <2> HIDE DEF p
  <2>3. /\ e \in Goroutine /\ e.phase = p /\ e.on = x /\ e.left = GpuLease
        /\ ~e.ok /\ ~e.billed /\ ~e.heard
    <3>1. GpuLease \in 0..GpuLease /\ x \in GPUs \union {NoJob}
      BY <1>0, DurationFacts DEF PassOf
    <3>2. e \in Goroutine
      BY <2>2, <3>1 DEF Goroutine, NoExec
    <3> QED
      BY <3>2 DEF Goroutine, NoExec
  <2>4. /\ c \in Entry /\ c.state = "running" /\ c.active /\ c.gate = g /\ c.owner = o.owner
        /\ c.cancelReq = o.cancelReq /\ c.committed = o.committed /\ c.body = o.body /\ c.result = o.result
    <3>1. c \in Entry
      BY <1>1, EntryValues DEF Entry
    <3> QED
      BY <1>1, <3>1 DEF Entry
  <2> HIDE DEF c, e
  <2>5. running[g] \in Nat /\ running[g] + 1 \in Nat
    BY <1>0 DEF Types
  <2>6. /\ exec'[j] = e /\ (\A k \in Jobs \ {j} : exec'[k] = exec[k]) /\ exec' \in [Jobs -> Goroutine]
        /\ entry'[j] = c /\ (\A k \in Jobs \ {j} : entry'[k] = entry[k]) /\ entry' \in [Jobs -> Entry]
        /\ running' \in [Gateways -> Nat] /\ running'[g] = running[g] + 1
        /\ \A h \in Gateways \ {g} : running'[h] = running[h]
    BY <1>0, <2>1, <2>3, <2>4, <2>5 DEF Types
  <2>7. Types'
    BY <1>0, <1>4, <2>1, <2>6 DEF Types
  <2>8. ASSUME NEW k \in Jobs \ {j} PROVE JobOK(k)' /\ LeaseOK(k)' /\ WorkOK(k)'
    BY <1>0, <2>1, <2>6, <2>7, OtherJobs
  <2>9. /\ ~o.committed /\ ~o.cancelReq /\ ~o.active /\ o.body = Body /\ j \notin owed
        /\ account[o.owner].holder = j /\ account[o.owner].left > o.wait /\ o.wait \in Nat
        /\ account[o.owner].left \in Nat
    BY <1>0, <1>1, <1>6, JobFacts DEF JobOK, EntryOK, LeaseOK, Executing
  <2>10. JobOK(j)'
    BY <1>0, <1>1, <2>2, <2>3, <2>4, <2>6, <2>9 DEF JobOK, EntryOK
  <2>11. p = "setup" => x \in GPUs /\ gpu[x].holder = j /\ gpu[x].left = GpuLease
    BY <1>0, <1>j, <1>6, <2>2 DEF TickOK
  <2>12. LeaseOK(j)'
    BY <2>4, <2>6 DEF LeaseOK
  <2>13. WorkOK(j)'
    <3>1. p = "setup" => gpu[x].left >= GpuLease
      BY <2>11, DurationFacts
    <3> QED
      BY <1>0, <1>1, <2>1, <2>2, <2>3, <2>4, <2>6, <2>11, <3>1 DEF WorkOK, Reserved
  <2>14. ASSUME NEW h \in Gateways \ {g} PROVE TickOK(h)'
    <3>1. \A k \in Jobs : entry[k].gate = h => entry'[k] = entry[k] /\ exec'[k] = exec[k]
      BY <1>1, <2>6
    <3> QED
      BY <1>0, <1>1, <1>4, <2>1, <2>6, <2>7, <3>1, OtherTicks
  <2>15. TickOK(g)'
    <3>1. /\ tick'[g].todo = tick[g].todo /\ tick'[g].cur = NoJob /\ tick'[g].got = "none"
          /\ tick[g].todo \subseteq Jobs
      BY <1>0, <1>2, <1>4 DEF PassOf
    <3>2. \A k \in tick[g].todo : entry[k].gate = g /\ entry[k].state # "none"
      BY <1>0 DEF TickOK
    <3>3. \A k \in tick[g].todo : entry'[k].gate = g /\ entry'[k].state # "none"
      BY <2>4, <2>6, <3>1, <3>2
    <3> HIDE DEF o, x
    <3> QED
      BY <3>1, <3>3 DEF TickOK
  <2>16. ASSUME NEW h \in Gateways PROVE bytes'[h] = Total(Shares(h)') /\ bytes'[h] <= MaxBytes
    <3>1. ShareOf(c, h) = ShareOf(o, h) /\ ShareOf(o, h) \in Nat
      BY <1>1, <1>6, <2>4, ShareType DEF ShareOf, Held, Retained, Unfinished
    <3>2. bytes[h] \in Nat /\ bytes[h] <= MaxBytes
      BY <1>0, Parts DEF Types, GateOK
    <3>3. bytes'[h] = bytes[h] - ShareOf(entry[j], h) + ShareOf(entry'[j], h)
      BY <1>0, <2>6, <3>1, <3>2
    <3> QED
      BY <1>0, <2>6, <2>7, <3>2, <3>3, BytesStep
  <2>17. ASSUME NEW h \in Gateways \ {g}
         PROVE  running'[h] = Cardinality(Slots(h)') /\ running'[h] <= MaxRunning
    <3>1. Slots(h)' = Slots(h)
      BY <1>1, <2>4, <2>6 DEF Slots
    <3> QED
      BY <2>6, <3>1, Parts DEF GateOK
  <2>18. running'[g] = Cardinality(Slots(g)') /\ running'[g] <= MaxRunning
    <3>1. Slots(g)' = Slots(g) \union {j} /\ j \notin Slots(g)
      BY <1>1, <2>2, <2>3, <2>4, <2>6 DEF Slots
    <3>2. IsFiniteSet(Slots(g))
      BY DurationFacts, FS_Subset DEF Slots
    <3>3. Cardinality(Slots(g) \union {j}) = Cardinality(Slots(g)) + 1
      BY <3>1, <3>2, FS_AddElement
    <3>4. running[g] = Cardinality(Slots(g))
      BY Parts DEF GateOK
    <3> QED
      BY <1>1, <2>5, <2>6, <3>1, <3>3, <3>4, DurationFacts
  <2>19. ASSUME NEW h \in Gateways PROVE GateOK(h)'
    BY <2>16, <2>17, <2>18 DEF GateOK
  <2> QED
    BY <2>7, <2>8, <2>10, <2>12, <2>13, <2>14, <2>15, <2>19 DEF QueueInv
<1> QED
  BY <1>5, <1>6

(***************************************************************************)
(* The scan of a pass.                                                     *)
(***************************************************************************)

\* What the scan makes of one entry: it stays consistent with its goroutine, an expired one
\* now owes the release of its lease, and the scan gives back the room that it no longer takes.
LEMMA AgedFacts ==
  ASSUME NEW e \in Entry, NEW x, NEW b \in BOOLEAN, NEW g \in Gateways, EntryOK(e, x, b), Held(e), e.gate = g
  PROVE  /\ Aged(e) \in Entry /\ EntryOK(Aged(e), x, b \/ WaitOver(e))
         /\ Aged(e).gate = g /\ Aged(e).owner = e.owner /\ Aged(e).state # "none"
         /\ (Aged(e).state = "queued" => Aged(e) = e)
         /\ (e.state \notin {"none", "queued"} => Aged(e).state \notin {"none", "queued"})
         /\ TickFrees(e) \in Nat /\ ShareOf(e, g) \in Nat /\ ShareOf(Aged(e), g) \in Nat
         /\ ShareOf(e, g) = ShareOf(Aged(e), g) + TickFrees(e)
<1>1. /\ (e.active => e.state \in {"running", "cancelling", "cancelled"})
      /\ (e.state = "queued" => e.body = Body /\ e.result = 0 /\ ~e.active)
      /\ e.result \in {0, 1} /\ e.active \in BOOLEAN /\ e.state \notin {"none", "gone", "lost"}
      /\ MaxResult \in Nat /\ g \in Gateways
  <2>1. e.result \in {0, 1} /\ e.active \in BOOLEAN
    BY DEF Entry, Image
  <2>2. MaxResult \in Nat
    BY DurationFacts
  <2> QED
    BY <2>1, <2>2 DEF EntryOK, Held
<1>2. CASE GraceOver(e)
  <2> DEFINE n == [e EXCEPT !.state = "cancelled"]
  <2>1. Aged(e) = n /\ e.active /\ e.state = "cancelling" /\ ~WaitOver(e) /\ ~Collected(e)
    BY <1>2 DEF Aged, GraceOver, WaitOver, Collected
  <2>2. n \in Entry
    BY EntryValues DEF Entry
  <2>3. /\ n.state = "cancelled" /\ n.active = e.active /\ n.cancelReq = e.cancelReq /\ n.owner = e.owner
        /\ n.committed = e.committed /\ n.gate = g /\ n.body = e.body /\ n.result = e.result
    BY <2>2 DEF Entry
  <2> HIDE DEF n
  <2>4. EntryOK(n, x, b)
    BY <2>1, <2>3 DEF EntryOK
  <2>5. TickFrees(e) = 0
    BY <2>1 DEF TickFrees
  <2>6. ShareOf(e, g) = Body + MaxResult /\ ShareOf(n, g) = Body + MaxResult
    BY <1>1, <2>1, <2>3 DEF ShareOf, Held, Retained, Unfinished
  <2>7. Body + MaxResult \in Nat /\ Body + MaxResult = Body + MaxResult + 0
    BY <1>1 DEF Body
  <2>8. EntryOK(n, x, b \/ WaitOver(e))
    BY <2>1, <2>4
  <2> QED
    BY <2>1, <2>2, <2>3, <2>5, <2>6, <2>7, <2>8
<1>3. CASE ~GraceOver(e) /\ WaitOver(e)
  <2> DEFINE n == [e EXCEPT !.state = "expired", !.keep = ResultTTL, !.body = 0]
  <2>1. Aged(e) = n /\ e.state = "queued"
    BY <1>3 DEF Aged, WaitOver
  <2>2. n \in Entry
    BY EntryValues DEF Entry
  <2>3. /\ n.state = "expired" /\ n.active = e.active /\ n.cancelReq = e.cancelReq /\ n.owner = e.owner
        /\ n.committed = e.committed /\ n.gate = g /\ n.result = e.result
    BY <2>2 DEF Entry
  <2> HIDE DEF n
  <2>4. EntryOK(n, x, b \/ WaitOver(e))
    BY <1>1, <2>1, <2>3 DEF EntryOK
  <2>5. TickFrees(e) = Body + MaxResult
    BY <1>1, <1>3, <2>1 DEF TickFrees
  <2>6. ShareOf(e, g) = Body + MaxResult /\ ShareOf(n, g) = 0
    BY <1>1, <2>1, <2>3 DEF ShareOf, Held, Retained, Unfinished
  <2>7. Body + MaxResult \in Nat /\ Body + MaxResult = 0 + (Body + MaxResult)
    BY <1>1 DEF Body
  <2> QED
    BY <2>1, <2>2, <2>3, <2>4, <2>5, <2>6, <2>7
<1>4. CASE ~GraceOver(e) /\ ~WaitOver(e) /\ Collected(e)
  <2> DEFINE n == [e EXCEPT !.state = "gone", !.result = 0]
  <2>1. Aged(e) = n /\ e.state # "queued" /\ ~e.active
    BY <1>4 DEF Aged, Collected
  <2>2. n \in Entry
    BY EntryValues DEF Entry
  <2>3. /\ n.state = "gone" /\ n.active = e.active /\ n.cancelReq = e.cancelReq /\ n.owner = e.owner
        /\ n.committed = e.committed /\ n.gate = g
    BY <2>2 DEF Entry
  <2> HIDE DEF n
  <2>4. EntryOK(n, x, b \/ WaitOver(e))
    BY <1>1, <1>4, <2>1, <2>3 DEF EntryOK
  <2>5. TickFrees(e) = e.result
    BY <1>4 DEF TickFrees
  <2>6. ShareOf(e, g) = e.result /\ ShareOf(n, g) = 0
    BY <1>1, <2>1, <2>3 DEF ShareOf, Held, Retained, Unfinished
  <2>7. e.result \in Nat /\ e.result = 0 + e.result
    BY <1>1
  <2> QED
    BY <2>1, <2>2, <2>3, <2>4, <2>5, <2>6, <2>7
<1>5. CASE ~GraceOver(e) /\ ~WaitOver(e) /\ ~Collected(e)
  <2>1. Aged(e) = e /\ TickFrees(e) = 0
    BY <1>5 DEF Aged, TickFrees
  <2>2. EntryOK(e, x, b \/ WaitOver(e))
    BY <1>5
  <2>3. ShareOf(e, g) \in Nat
    BY ShareType
  <2>4. ShareOf(e, g) = ShareOf(e, g) + 0
    BY <2>3
  <2> QED
    BY <1>1, <2>1, <2>2, <2>3, <2>4
<1> QED
  BY <1>2, <1>3, <1>4, <1>5

\* A pass of the dispatcher begins: the entries of its gateway age together.
LEMMA ScanStep ==
  ASSUME QueueInv, NEW g \in Gateways, TickScan(g)
  PROVE  QueueInv'
<1> DEFINE todo == {j \in OnGate(g) : entry'[j].state = "queued"}
           t == [TickIdle EXCEPT !.todo = todo]
           frees == [j \in OnGate(g) |-> TickFrees(entry[j])]
<1>0. /\ Types /\ tick[g] = TickIdle /\ UNCHANGED <<running, exec, account, gpu, work>>
      /\ entry' = [j \in Jobs |-> IF j \in OnGate(g) THEN Aged(entry[j]) ELSE entry[j]]
      /\ bytes' = [bytes EXCEPT ![g] = @ - Total(frees)]
      /\ owed' = owed \union {j \in OnGate(g) : WaitOver(entry[j])}
  BY Parts DEF TickScan
<1>1. /\ (\A j \in OnGate(g) : entry'[j] = Aged(entry[j]) /\ j \in Jobs)
      /\ \A j \in Jobs \ OnGate(g) : entry'[j] = entry[j]
  BY <1>0 DEF OnGate
<1>2. tick' = [tick EXCEPT ![g] = t]
  <2>1. tick' = [tick EXCEPT ![g].todo = todo]
    BY <1>1 DEF TickScan, OnGate
  <2>2. tick' = [tick EXCEPT ![g] = [tick[g] EXCEPT !.todo = todo]]
    BY <2>1
  <2> QED
    BY <1>0, <2>2
<1>3. t \in PassOf /\ t.todo = todo /\ t.cur = NoJob /\ t.got = "none"
  <2>1. todo \in SUBSET Jobs
    BY DEF OnGate
  <2> HIDE DEF todo
  <2> QED
    BY <2>1 DEF PassOf, TickIdle
<1> HIDE DEF t
<1>4. tick' \in [Gateways -> PassOf] /\ tick'[g] = t /\ \A h \in Gateways \ {g} : tick'[h] = tick[h]
  BY <1>0, <1>2, <1>3 DEF Types
<1>5. ASSUME NEW j \in OnGate(g)
      PROVE  /\ entry'[j] \in Entry /\ JobOK(j)'
             /\ entry'[j].gate = g /\ entry[j].gate = g /\ entry'[j].owner = entry[j].owner
             /\ entry'[j].state # "none" /\ (entry'[j].state = "queued" => entry'[j] = entry[j])
             /\ (entry[j].state \notin {"none", "queued"} => entry'[j].state \notin {"none", "queued"})
             /\ TickFrees(entry[j]) \in Nat /\ ShareOf(entry[j], g) \in Nat /\ ShareOf(entry'[j], g) \in Nat
             /\ ShareOf(entry[j], g) = ShareOf(entry'[j], g) + TickFrees(entry[j])
  <2>1. /\ j \in Jobs /\ entry[j] \in Entry /\ EntryOK(entry[j], exec[j], j \in owed)
        /\ Held(entry[j]) /\ entry[j].gate = g
    BY <1>0, Parts DEF OnGate, Types, JobOK
  <2>2. entry'[j] = Aged(entry[j]) /\ exec'[j] = exec[j]
    BY <1>0, <1>1
  <2>3. j \in owed' <=> (j \in owed \/ WaitOver(entry[j]))
    BY <1>0
  <2> DEFINE e == entry[j]
             b == j \in owed
  <2>4. b \in BOOLEAN
    OBVIOUS
  <2>5. EntryOK(e, exec[j], b) /\ Held(e) /\ e.gate = g /\ e \in Entry
    BY <2>1
  <2> HIDE DEF e, b
  <2>6. /\ Aged(e) \in Entry /\ EntryOK(Aged(e), exec[j], b \/ WaitOver(e))
        /\ Aged(e).gate = g /\ Aged(e).owner = e.owner /\ Aged(e).state # "none"
        /\ (Aged(e).state = "queued" => Aged(e) = e)
        /\ (e.state \notin {"none", "queued"} => Aged(e).state \notin {"none", "queued"})
        /\ TickFrees(e) \in Nat /\ ShareOf(e, g) \in Nat /\ ShareOf(Aged(e), g) \in Nat
        /\ ShareOf(e, g) = ShareOf(Aged(e), g) + TickFrees(e)
    BY <2>4, <2>5, AgedFacts
  <2>7. JobOK(j)'
    <3>1. EntryOK(entry'[j], exec'[j], b \/ WaitOver(e))
      BY <2>2, <2>6 DEF e
    <3>2. (b \/ WaitOver(e)) <=> j \in owed'
      BY <2>3 DEF b, e
    <3> QED
      BY <3>1, <3>2 DEF JobOK, EntryOK
  <2> QED
    BY <2>1, <2>2, <2>6, <2>7 DEF e
<1>6. entry' \in [Jobs -> Entry] /\ owed' \subseteq Jobs
  BY <1>0, <1>5 DEF Types, OnGate
<1>7. ASSUME NEW j \in Jobs \ OnGate(g) PROVE JobOK(j)' /\ LeaseOK(j)' /\ WorkOK(j)'
  <2>1. entry'[j] = entry[j] /\ exec'[j] = exec[j] /\ (j \in owed' <=> j \in owed)
    BY <1>0, <1>1
  <2>2. JobOK(j) /\ LeaseOK(j) /\ WorkOK(j)
    BY Parts
  <2> QED
    BY <1>0, <2>1, <2>2 DEF JobOK, LeaseOK, WorkOK, Reserved
<1>8. ASSUME NEW j \in OnGate(g) PROVE LeaseOK(j)' /\ WorkOK(j)'
  <2>1. j \in Jobs /\ LeaseOK(j) /\ WorkOK(j) /\ exec'[j] = exec[j]
    BY <1>0, Parts DEF OnGate
  <2>2. /\ entry'[j].owner = entry[j].owner /\ (entry'[j].state = "queued" => entry'[j] = entry[j])
        /\ (entry[j].state \notin {"none", "queued"} => entry'[j].state \notin {"none", "queued"})
    BY <1>5
  <2>3. LeaseOK(j)'
    BY <1>0, <2>1, <2>2 DEF LeaseOK
  <2>4. WorkOK(j)'
    BY <1>0, <2>1, <2>2 DEF WorkOK, Reserved
  <2> QED
    BY <2>3, <2>4
<1>9. ASSUME NEW h \in Gateways \ {g} PROVE TickOK(h)'
  <2>1. TickOK(h) /\ tick'[h] = tick[h] /\ tick[h] \in PassOf
    BY <1>0, <1>4, Parts DEF Types
  <2>2. \A j \in Jobs : entry[j].gate = h => entry'[j] = entry[j]
    BY <1>1 DEF OnGate
  <2>3. tick[h].todo \subseteq Jobs /\ tick[h].cur \in Jobs \union {NoJob}
    BY <2>1 DEF PassOf
  <2>4. \A j \in tick[h].todo : entry'[j] = entry[j]
    BY <2>1, <2>2, <2>3 DEF TickOK
  <2>5. tick[h].cur # NoJob => entry'[tick[h].cur] = entry[tick[h].cur]
    BY <2>1, <2>2, <2>3 DEF TickOK
  <2>6. tick[h].got = "worker" => tick[h].cur # NoJob
    BY <2>1 DEF TickOK
  <2> QED
    BY <1>0, <2>1, <2>4, <2>5, <2>6 DEF TickOK
<1>10. TickOK(g)'
  <2>1. \A j \in todo : entry'[j].gate = g /\ entry'[j].state # "none"
    BY <1>5
  <2>2. tick'[g].todo = todo /\ tick'[g].cur = NoJob /\ tick'[g].got = "none"
    BY <1>3, <1>4
  <2> HIDE DEF todo
  <2> QED
    BY <2>1, <2>2 DEF TickOK
<1>11. ASSUME NEW h \in Gateways PROVE running'[h] = Cardinality(Slots(h)') /\ running'[h] <= MaxRunning
  <2>1. \A j \in Jobs : entry'[j].gate = entry[j].gate
    BY <1>1, <1>5
  <2>2. Slots(h)' = Slots(h)
    BY <1>0, <2>1 DEF Slots
  <2> QED
    BY <1>0, <2>2, Parts DEF GateOK
<1>12. ASSUME NEW h \in Gateways \ {g} PROVE bytes'[h] = Total(Shares(h)') /\ bytes'[h] <= MaxBytes
  <2>1. \A j \in Jobs : ShareOf(entry'[j], h) = ShareOf(entry[j], h)
    BY <1>1, <1>5 DEF ShareOf
  <2>2. Shares(h)' = Shares(h)
    BY <2>1 DEF Shares
  <2>3. bytes'[h] = bytes[h]
    BY <1>0 DEF Types
  <2> QED
    BY <2>2, <2>3, Parts DEF GateOK
<1>13. bytes'[g] = Total(Shares(g)') /\ bytes'[g] <= MaxBytes /\ bytes'[g] \in Nat
  <2> DEFINE old == Shares(g)
             new == Shares(g)'
             all == [j \in Jobs |-> IF j \in OnGate(g) THEN TickFrees(entry[j]) ELSE 0]
  <2>1. IsFiniteSet(Jobs) /\ OnGate(g) \in SUBSET Jobs
    BY DurationFacts DEF OnGate
  <2>2. frees \in [OnGate(g) -> Nat] /\ all \in [Jobs -> Nat]
        /\ (\A j \in OnGate(g) : frees[j] = all[j]) /\ \A j \in Jobs \ OnGate(g) : all[j] = 0
    BY <1>5, <2>1
  <2>3. ASSUME NEW j \in Jobs
        PROVE  /\ ShareOf(entry[j], g) \in Nat /\ ShareOf(entry'[j], g) \in Nat
               /\ ShareOf(entry[j], g) = ShareOf(entry'[j], g) + all[j]
    <3>1. CASE j \in OnGate(g)
      BY <1>5, <3>1
    <3>2. CASE j \notin OnGate(g)
      BY <1>1, <3>2 DEF OnGate, ShareOf
    <3> QED
      BY <3>1, <3>2
  <2>4. old \in [Jobs -> Nat] /\ new \in [Jobs -> Nat] /\ \A j \in Jobs : old[j] = new[j] + all[j]
    BY <2>3 DEF Shares
  <2>5. bytes[g] = Total(old) /\ bytes[g] <= MaxBytes /\ bytes[g] \in Nat
    BY <1>0, Parts DEF GateOK, Types
  <2>6. bytes'[g] = bytes[g] - Total(frees)
    BY <1>0 DEF Types
  <2> HIDE DEF old, new, all, frees
  <2>7. Total(frees) = Total(all)
    BY <2>1, <2>2, TotalWithin
  <2>8. Total(old) = Total(new) + Total(all)
    BY <2>1, <2>2, <2>4, TotalPlus
  <2>9. Total(new) \in Nat /\ Total(all) \in Nat
    BY <2>1, <2>2, <2>4, TotalType
  <2>10. bytes'[g] = Total(new) /\ bytes'[g] <= MaxBytes /\ bytes'[g] \in Nat
    BY <2>5, <2>6, <2>7, <2>8, <2>9, DurationFacts
  <2> QED
    BY <2>10 DEF new
<1>14. Types'
  <2>1. bytes' \in [Gateways -> Nat]
    BY <1>0, <1>13 DEF Types
  <2> QED
    BY <1>0, <1>4, <1>6, <2>1 DEF Types
<1> QED
  BY <1>5, <1>7, <1>8, <1>9, <1>10, <1>11, <1>12, <1>13, <1>14 DEF QueueInv, GateOK

(***************************************************************************)
(* Restarts and time.                                                      *)
(***************************************************************************)

\* A gateway restarts: its jobs are lost with their goroutines, the leases stay.
LEMMA CrashStep ==
  ASSUME QueueInv, NEW g \in Gateways, Crash(g)
  PROVE  QueueInv'
<1>0. /\ Types /\ UNCHANGED <<account, gpu, work>>
      /\ bytes' = [bytes EXCEPT ![g] = 0] /\ running' = [running EXCEPT ![g] = 0]
      /\ tick' = [tick EXCEPT ![g] = TickIdle] /\ owed' = owed \ {j \in Jobs : entry[j].gate = g}
  BY Parts DEF Crash
<1>1. /\ tick' \in [Gateways -> PassOf] /\ tick'[g] = TickIdle /\ (\A h \in Gateways \ {g} : tick'[h] = tick[h])
      /\ bytes' \in [Gateways -> Nat] /\ bytes'[g] = 0 /\ (\A h \in Gateways \ {g} : bytes'[h] = bytes[h])
      /\ running' \in [Gateways -> Nat] /\ running'[g] = 0
      /\ (\A h \in Gateways \ {g} : running'[h] = running[h])
  <2>1. TickIdle \in PassOf
    BY DEF TickIdle, PassOf
  <2> QED
    BY <1>0, <2>1 DEF Types
<1>2. ASSUME NEW j \in OnGate(g)
      PROVE  /\ entry'[j] \in Entry /\ entry'[j].state = "lost" /\ entry'[j].gate = g /\ ~entry'[j].active
             /\ entry'[j].owner = entry[j].owner /\ entry'[j].cancelReq = entry[j].cancelReq
             /\ entry'[j].committed = entry[j].committed
  <2> DEFINE e == [NoEntry EXCEPT !.state = "lost", !.gate = g, !.owner = entry[j].owner,
                                  !.cancelReq = entry[j].cancelReq, !.committed = entry[j].committed]
  <2>1. j \in Jobs /\ entry'[j] = e
    BY DEF Crash, OnGate
  <2>2. entry[j] \in Entry
    BY <1>0, <2>1 DEF Types
  <2>3. entry[j].owner \in Accounts /\ entry[j].cancelReq \in BOOLEAN /\ entry[j].committed \in BOOLEAN
    BY <2>2 DEF Entry
  <2>4. e \in Entry
    BY <2>3, EntryValues DEF Entry, NoEntry
  <2>5. /\ e.state = "lost" /\ e.gate = g /\ ~e.active /\ e.owner = entry[j].owner
        /\ e.cancelReq = entry[j].cancelReq /\ e.committed = entry[j].committed
    BY <2>3 DEF NoEntry
  <2> HIDE DEF e
  <2> QED
    BY <2>1, <2>4, <2>5
<1>3. \A j \in Jobs \ OnGate(g) : entry'[j] = entry[j]
  BY DEF Crash
<1>4. ASSUME NEW j \in Jobs, entry[j].gate = g
      PROVE  /\ exec'[j] \in Goroutine /\ exec'[j].phase = "idle" /\ exec'[j].left = exec[j].left
             /\ (exec'[j].billed <=> exec[j].billed) /\ j \notin owed'
             /\ (exec'[j].heard <=> exec[j].heard)
  <2> DEFINE e == [NoExec EXCEPT !.left = exec[j].left, !.billed = exec[j].billed, !.heard = exec[j].heard]
  <2>0. exec[j] \in Goroutine
    BY <1>0 DEF Types
  <2>1. exec[j].left \in 0..GpuLease /\ exec[j].billed \in BOOLEAN /\ exec[j].heard \in BOOLEAN
    BY <2>0 DEF Goroutine
  <2>2. e \in Goroutine
    BY <2>1 DEF Goroutine, NoExec, Phases
  <2>3. e.phase = "idle" /\ e.left = exec[j].left /\ e.billed = exec[j].billed /\ e.heard = exec[j].heard
    BY <2>1 DEF NoExec
  <2>4. exec'[j] = IF exec[j].phase # "idle" THEN e ELSE exec[j]
    BY <1>4 DEF Crash, Past
  <2> HIDE DEF e
  <2> QED
    BY <1>0, <1>4, <2>0, <2>2, <2>3, <2>4
<1>5. ASSUME NEW j \in Jobs, entry[j].gate # g
      PROVE  entry'[j] = entry[j] /\ exec'[j] = exec[j] /\ (j \in owed' <=> j \in owed)
  BY <1>0, <1>3, <1>5 DEF Crash, OnGate
<1>6. Types'
  <2>1. entry' \in [Jobs -> Entry]
    <3>1. \A j \in Jobs : entry'[j] \in Entry
      BY <1>0, <1>2, <1>3 DEF Types
    <3>2. entry' = [j \in Jobs |-> entry'[j]]
      BY DEF Crash
    <3> QED
      BY <3>1, <3>2
  <2>2. exec' \in [Jobs -> Goroutine]
    <3>1. \A j \in Jobs : exec'[j] \in Goroutine
      BY <1>0, <1>4, <1>5 DEF Types
    <3>2. exec' = [j \in Jobs |-> exec'[j]]
      BY DEF Crash
    <3> QED
      BY <3>1, <3>2
  <2> QED
    BY <1>0, <1>1, <2>1, <2>2 DEF Types
<1>7. ASSUME NEW j \in Jobs, entry[j].gate # g PROVE JobOK(j)' /\ LeaseOK(j)' /\ WorkOK(j)'
  <2>1. JobOK(j) /\ LeaseOK(j) /\ WorkOK(j)
    BY Parts
  <2> QED
    BY <1>0, <1>5, <1>7, <2>1 DEF JobOK, LeaseOK, WorkOK, Reserved
<1>8. ASSUME NEW j \in Jobs, entry[j].gate = g PROVE JobOK(j)' /\ LeaseOK(j)' /\ WorkOK(j)'
  <2>0. JobOK(j) /\ LeaseOK(j) /\ WorkOK(j)
    BY Parts
  <2>1. /\ (entry'[j].committed <=> entry[j].committed) /\ (entry'[j].cancelReq <=> entry[j].cancelReq)
        /\ ~entry'[j].active /\ entry'[j].state \in {"none", "gone", "lost"} /\ entry'[j].gate = g
        /\ (entry[j].state \notin {"none", "queued"} => entry'[j].state \notin {"none", "queued"})
        /\ (entry'[j].state = "none" => entry[j].state = "none")
    <3>1. CASE j \in OnGate(g)
      BY <1>2, <3>1
    <3>2. CASE j \notin OnGate(g)
      <4>1. entry'[j] = entry[j] /\ ~Held(entry[j])
        BY <1>3, <1>8, <3>2 DEF OnGate
      <4>2. entry[j].state \in {"none", "gone", "lost"} /\ ~entry[j].active
        BY <2>0, <4>1 DEF Held, JobOK, EntryOK
      <4> QED
        BY <1>8, <4>1, <4>2
    <3> QED
      BY <3>1, <3>2
  <2>2. exec'[j].phase = "idle" /\ exec'[j].left = exec[j].left /\ (exec'[j].billed <=> exec[j].billed)
        /\ j \notin owed' /\ (exec'[j].heard <=> exec[j].heard)
    BY <1>4, <1>8
  <2>3. JobOK(j)'
    BY <2>0, <2>1, <2>2 DEF JobOK, EntryOK, Executing
  <2>4. LeaseOK(j)'
    BY <2>1, <2>2 DEF LeaseOK, Executing
  <2>5. WorkOK(j)'
    BY <1>0, <2>0, <2>1, <2>2 DEF WorkOK, Reserved
  <2> QED
    BY <2>3, <2>4, <2>5
<1>9. ASSUME NEW h \in Gateways \ {g} PROVE TickOK(h)'
  <2>1. TickOK(h) /\ tick'[h] = tick[h] /\ tick[h] \in PassOf /\ running'[h] = running[h]
    BY <1>0, <1>1, Parts DEF Types
  <2>2. \A j \in Jobs : entry[j].gate = h => entry'[j] = entry[j] /\ exec'[j] = exec[j]
    BY <1>5
  <2>3. tick[h].todo \subseteq Jobs /\ tick[h].cur \in Jobs \union {NoJob}
    BY <2>1 DEF PassOf
  <2>4. \A j \in tick[h].todo : entry'[j] = entry[j]
    BY <2>1, <2>2, <2>3 DEF TickOK
  <2>5. tick[h].cur # NoJob => /\ entry'[tick[h].cur] = entry[tick[h].cur]
                               /\ exec'[tick[h].cur] = exec[tick[h].cur]
    BY <2>1, <2>2, <2>3 DEF TickOK
  <2>6. tick[h].got = "worker" => tick[h].cur # NoJob
    BY <2>1 DEF TickOK
  <2> QED
    BY <1>0, <2>1, <2>4, <2>5, <2>6 DEF TickOK
<1>10. TickOK(g)'
  BY <1>1 DEF TickOK, TickIdle
<1>11. \A j \in Jobs : entry'[j].gate = entry[j].gate
  BY <1>2, <1>3 DEF OnGate
<1>12. ASSUME NEW h \in Gateways \ {g} PROVE GateOK(h)'
  <2>1. \A j \in Jobs : ShareOf(entry'[j], h) = ShareOf(entry[j], h)
    BY <1>2, <1>3 DEF ShareOf, OnGate
  <2>2. Shares(h)' = Shares(h)
    BY <2>1 DEF Shares
  <2>3. Slots(h)' = Slots(h)
    BY <1>5, <1>11 DEF Slots
  <2> QED
    BY <1>1, <2>2, <2>3, Parts DEF GateOK
<1>13. GateOK(g)'
  <2> DEFINE new == Shares(g)'
  <2>1. \A j \in Jobs : ShareOf(entry'[j], g) = 0
    BY <1>2, <1>3 DEF ShareOf, OnGate, Held
  <2>2. new \in [Jobs -> Nat] /\ \A j \in Jobs : new[j] = 0
    BY <2>1 DEF Shares
  <2>3. Slots(g)' = {}
    BY <1>4, <1>11 DEF Slots
  <2> HIDE DEF new
  <2>4. Total(new) = 0
    BY <2>2, TotalZero
  <2>5. Cardinality(Slots(g)') = 0
    BY <2>3, FS_EmptySet
  <2>6. 0 <= MaxBytes /\ 0 <= MaxRunning
    BY DurationFacts
  <2> QED
    BY <1>1, <2>4, <2>5, <2>6 DEF GateOK, new
<1> QED
  BY <1>6, <1>7, <1>8, <1>9, <1>10, <1>12, <1>13 DEF QueueInv

\* A lease that has more than one unit left loses one and keeps its holder.
LEMMA ElapsedFacts ==
  ASSUME NEW n \in Nat, NEW lease \in LeaseOf(n)
  PROVE  /\ Elapsed(lease) \in LeaseOf(n) /\ lease.left \in Nat
         /\ lease.left > 1 => /\ Elapsed(lease).holder = lease.holder
                              /\ Elapsed(lease).left = lease.left - 1
<1>1. lease.left \in 0..n /\ lease.left \in Nat
  BY DEF LeaseOf
<1>2. CASE lease.left <= 1
  <2>1. Elapsed(lease) = Free /\ 0 \in 0..n
    BY <1>2 DEF Elapsed
  <2> QED
    BY <1>1, <1>2, <2>1 DEF LeaseOf, Free
<1>3. CASE ~(lease.left <= 1)
  <2> DEFINE m == lease.left - 1
  <2>1. m \in 0..n
    BY <1>1, <1>3
  <2>2. Elapsed(lease) = [lease EXCEPT !.left = m]
    BY <1>3 DEF Elapsed
  <2> HIDE DEF m
  <2>3. [lease EXCEPT !.left = m] \in LeaseOf(n)
    BY <2>1 DEF LeaseOf
  <2>4. [lease EXCEPT !.left = m].holder = lease.holder /\ [lease EXCEPT !.left = m].left = m
    BY DEF LeaseOf
  <2> QED
    BY <1>1, <2>2, <2>3, <2>4 DEF m
<1> QED
  BY <1>2, <1>3

\* A countdown stays within its range.
LEMMA LessFacts ==
  ASSUME NEW n \in Nat, NEW i \in 0..n
  PROVE  Less(i) \in 0..n /\ (i > 0 => Less(i) = i - 1)
  BY DEF Less

\* A unit of time passes.
LEMMA AdvanceStep ==
  ASSUME QueueInv, Advance
  PROVE  QueueInv'
<1>0. /\ Types /\ TimeMayPass /\ UNCHANGED <<bytes, running, tick, owed, work>>
      /\ account' = [o \in Accounts |-> Elapsed(account[o])] /\ gpu' = [x \in GPUs |-> Elapsed(gpu[x])]
  BY Parts DEF Advance
<1>1. ASSUME NEW j \in Jobs
      PROVE  /\ entry'[j] \in Entry /\ entry'[j].state = entry[j].state /\ entry'[j].owner = entry[j].owner
             /\ (entry'[j].active <=> entry[j].active) /\ (entry'[j].cancelReq <=> entry[j].cancelReq)
             /\ (entry'[j].committed <=> entry[j].committed) /\ entry'[j].gate = entry[j].gate
             /\ entry'[j].body = entry[j].body /\ entry'[j].result = entry[j].result
             /\ (entry[j].wait > 0 => entry'[j].wait = entry[j].wait - 1)
  <2> DEFINE e == entry[j]
             w == Less(e.wait)
             r == Less(e.grace)
             k == Less(e.keep)
             n == [e EXCEPT !.wait = w, !.grace = r, !.keep = k]
  <2>1. entry'[j] = n
    BY DEF Advance
  <2>2. e \in Entry
    BY <1>0 DEF Types
  <2>3. e.wait \in 0..QueueTTL /\ e.grace \in 0..CancelGrace /\ e.keep \in 0..ResultTTL
    BY <2>2 DEF Entry
  <2>4. w \in 0..QueueTTL /\ (e.wait > 0 => w = e.wait - 1) /\ r \in 0..CancelGrace /\ k \in 0..ResultTTL
    BY <2>3, DurationFacts, LessFacts
  <2> HIDE DEF w, r, k, e
  <2>5. n \in Entry
    BY <2>2, <2>4 DEF Entry
  <2>6. /\ n.state = e.state /\ n.owner = e.owner /\ n.active = e.active /\ n.cancelReq = e.cancelReq
        /\ n.committed = e.committed /\ n.gate = e.gate /\ n.body = e.body /\ n.result = e.result /\ n.wait = w
    BY <2>2 DEF Entry
  <2> HIDE DEF n
  <2> QED
    BY <2>1, <2>4, <2>5, <2>6 DEF e
<1>2. ASSUME NEW j \in Jobs
      PROVE  /\ exec'[j] \in Goroutine /\ exec'[j].phase = exec[j].phase /\ exec'[j].on = exec[j].on
             /\ (exec'[j].safe <=> exec[j].safe) /\ (exec'[j].ok <=> exec[j].ok)
             /\ (exec'[j].billed <=> exec[j].billed) /\ (exec'[j].heard <=> exec[j].heard)
             /\ exec[j].left \in Nat /\ (exec[j].left > 0 => exec'[j].left = exec[j].left - 1)
             /\ (exec[j].left = 0 => exec'[j].left = 0)
  <2> DEFINE e == exec[j]
             m == Less(e.left)
             n == [e EXCEPT !.left = m]
  <2>1. exec'[j] = n
    BY DEF Advance
  <2>2. e \in Goroutine
    BY <1>0 DEF Types
  <2>3. e.left \in 0..GpuLease /\ GpuLease \in Nat
    BY <2>2, DurationFacts DEF Goroutine
  <2>4. m \in 0..GpuLease /\ (e.left > 0 => m = e.left - 1) /\ e.left \in Nat /\ (e.left = 0 => m = 0)
    BY <2>3, LessFacts DEF Less
  <2> HIDE DEF m, e
  <2>5. n \in Goroutine
    BY <2>2, <2>4 DEF Goroutine
  <2>6. /\ n.phase = e.phase /\ n.on = e.on /\ n.safe = e.safe /\ n.ok = e.ok /\ n.billed = e.billed
        /\ n.heard = e.heard /\ n.left = m
    BY <2>2 DEF Goroutine
  <2> HIDE DEF n
  <2> QED
    BY <2>1, <2>4, <2>5, <2>6 DEF e
<1>3. ASSUME NEW a \in Accounts
      PROVE  /\ account'[a] \in LeaseOf(AccountLease) /\ account[a].left \in Nat
             /\ account[a].left > 1 => /\ account'[a].holder = account[a].holder
                                       /\ account'[a].left = account[a].left - 1
  <2>1. account[a] \in LeaseOf(AccountLease) /\ AccountLease \in Nat /\ account'[a] = Elapsed(account[a])
    BY <1>0, DurationFacts DEF Types
  <2> QED
    BY <2>1, ElapsedFacts
<1>4. ASSUME NEW x \in GPUs
      PROVE  /\ gpu'[x] \in LeaseOf(GpuLease) /\ gpu[x].left \in Nat
             /\ gpu[x].left > 1 => gpu'[x].holder = gpu[x].holder /\ gpu'[x].left = gpu[x].left - 1
  <2>1. gpu[x] \in LeaseOf(GpuLease) /\ GpuLease \in Nat /\ gpu'[x] = Elapsed(gpu[x])
    BY <1>0, DurationFacts DEF Types
  <2> QED
    BY <2>1, ElapsedFacts
<1>5. Types'
  <2>1. entry' = [j \in Jobs |-> entry'[j]] /\ exec' = [j \in Jobs |-> exec'[j]]
    BY DEF Advance
  <2>2. entry' \in [Jobs -> Entry] /\ exec' \in [Jobs -> Goroutine]
    BY <1>1, <1>2, <2>1
  <2>3. account' \in [Accounts -> LeaseOf(AccountLease)] /\ gpu' \in [GPUs -> LeaseOf(GpuLease)]
    BY <1>0, <1>3, <1>4
  <2> QED
    BY <1>0, <2>2, <2>3 DEF Types
<1>6. ASSUME NEW j \in Jobs PROVE JobOK(j)'
  <2>1. JobOK(j)
    BY Parts
  <2> QED
    BY <1>0, <1>1, <1>2, <2>1 DEF JobOK, EntryOK
<1>7. ASSUME NEW j \in Jobs PROVE LeaseOK(j)'
  <2> DEFINE a == entry[j].owner
  <2>0. LeaseOK(j) /\ a \in Accounts /\ entry[j].wait \in Nat
    BY <1>0, Parts, JobFacts
  <2>1. CASE entry[j].state = "queued"
    <3>1. entry[j].wait # 0
      BY <1>0, <2>1 DEF TimeMayPass, WaitOver, Held
    <3>3. account[a].holder = j /\ account[a].left > entry[j].wait
      BY <2>0, <2>1 DEF LeaseOK
    <3>4. account[a].left \in Nat
      BY <1>3, <2>0
    <3>5. account[a].left > 1 /\ account[a].left - 1 > entry[j].wait - 1 /\ entry[j].wait > 0
      BY <2>0, <3>1, <3>3, <3>4
    <3>6. account'[a].holder = j /\ account'[a].left > entry'[j].wait
      BY <1>1, <1>3, <2>0, <3>3, <3>5
    <3> HIDE DEF a
    <3>7. entry'[j].owner = a
      BY <1>1 DEF a
    <3> QED
      BY <3>6, <3>7 DEF LeaseOK
  <2>2. CASE entry[j].state # "queued"
    BY <1>1, <2>2 DEF LeaseOK
  <2> QED
    BY <2>1, <2>2
<1>8. ASSUME NEW j \in Jobs, NEW x \in GPUs, Reserved(x, j)
      PROVE  Reserved(x, j)'
  <2> SUFFICES ASSUME exec'[j].left > 0 PROVE gpu'[x].holder = j /\ gpu'[x].left >= exec'[j].left
    BY DEF Reserved
  <2>1. gpu[x].left \in Nat /\ exec[j].left \in Nat
    BY <1>2, <1>4
  <2>2. exec[j].left > 1 /\ exec'[j].left = exec[j].left - 1
    BY <1>2, <2>1
  <2>3. gpu[x].holder = j /\ gpu[x].left > 1 /\ gpu[x].left - 1 >= exec[j].left - 1
    BY <1>8, <2>1, <2>2 DEF Reserved
  <2>4. gpu'[x].holder = j /\ gpu'[x].left = gpu[x].left - 1
    BY <1>4, <2>3
  <2> QED
    BY <2>2, <2>3, <2>4
<1>9. ASSUME NEW j \in Jobs PROVE WorkOK(j)'
  <2>0. WorkOK(j)
    BY Parts
  <2>1. \A x \in GPUs : Reserved(x, j) => Reserved(x, j)'
    BY <1>8
  <2> QED
    BY <1>0, <1>1, <1>2, <2>0, <2>1 DEF WorkOK
<1>10. ASSUME NEW g \in Gateways PROVE TickOK(g)'
  <2>1. TickOK(g) /\ tick'[g] = tick[g] /\ tick[g] \in PassOf /\ tick[g].got = "none"
    BY <1>0, Parts DEF Types, TimeMayPass
  <2>2. tick[g].todo \subseteq Jobs /\ tick[g].cur \in Jobs \union {NoJob}
    BY <2>1 DEF PassOf
  <2> QED
    BY <1>0, <1>1, <1>2, <2>1, <2>2 DEF TickOK
<1>11. ASSUME NEW g \in Gateways PROVE GateOK(g)'
  <2>1. \A j \in Jobs : ShareOf(entry'[j], g) = ShareOf(entry[j], g)
    BY <1>1 DEF ShareOf, Held, Retained, Unfinished
  <2>2. Shares(g)' = Shares(g)
    BY <2>1 DEF Shares
  <2>3. Slots(g)' = Slots(g)
    BY <1>1, <1>2 DEF Slots
  <2> QED
    BY <1>0, <2>2, <2>3, Parts DEF GateOK
<1> QED
  BY <1>5, <1>6, <1>7, <1>9, <1>10, <1>11 DEF QueueInv

(***************************************************************************)
(* The invariant, and what follows from it.                                *)
(***************************************************************************)

\* Gateways that have just started, and a database without leases.
LEMMA QueueInvInit == Init => QueueInv
<1> SUFFICES ASSUME Init PROVE QueueInv
  OBVIOUS
<1>1. NoEntry \in Entry /\ NoEntry.state = "none" /\ ~NoEntry.active /\ ~NoEntry.committed /\ ~NoEntry.cancelReq
  <2>1. (CHOOSE a \in Accounts : TRUE) \in Accounts
    BY StudioConstants
  <2>2. NoEntry \in Entry
    BY <2>1, EntryValues DEF NoEntry, Entry
  <2> QED
    BY <2>2 DEF NoEntry
<1>2. NoExec \in Goroutine /\ NoExec.phase = "idle" /\ ~NoExec.billed
  <2>1. 0 \in 0..GpuLease
    BY DurationFacts
  <2> QED
    BY <2>1 DEF NoExec, Goroutine, Phases
<1>3. TickIdle \in PassOf /\ TickIdle.todo = {} /\ TickIdle.cur = NoJob /\ TickIdle.got = "none"
  BY DEF TickIdle, PassOf
<1>4. Free \in LeaseOf(AccountLease) /\ Free \in LeaseOf(GpuLease)
  <2>1. 0 \in 0..AccountLease /\ 0 \in 0..GpuLease
    BY DurationFacts
  <2> QED
    BY <2>1 DEF Free, LeaseOf
<1>5. Types
  BY <1>1, <1>2, <1>3, <1>4 DEF Init, Types
<1>6. ASSUME NEW j \in Jobs PROVE JobOK(j) /\ LeaseOK(j) /\ WorkOK(j)
  <2>1. entry[j] = NoEntry /\ exec[j] = NoExec /\ owed = {} /\ \A x \in GPUs : work[x] = {}
    BY DEF Init
  <2>2. JobOK(j)
    BY <1>1, <1>2, <2>1 DEF JobOK, EntryOK, Executing
  <2>3. LeaseOK(j)
    BY <1>1, <1>2, <2>1 DEF LeaseOK, Executing
  <2>4. WorkOK(j)
    BY <1>2, <2>1 DEF WorkOK, Reserved
  <2> QED
    BY <2>2, <2>3, <2>4
<1>7. ASSUME NEW g \in Gateways PROVE TickOK(g) /\ GateOK(g)
  <2>1. tick[g] = TickIdle /\ bytes[g] = 0 /\ running[g] = 0
    BY DEF Init
  <2>2. TickOK(g)
    BY <1>3, <2>1 DEF TickOK
  <2>3. \A j \in Jobs : ShareOf(entry[j], g) = 0 /\ exec[j].phase = "idle"
    BY <1>1, <1>2 DEF Init, ShareOf, Held
  <2> DEFINE f == Shares(g)
  <2>4. f \in [Jobs -> Nat] /\ (\A j \in Jobs : f[j] = 0) /\ Slots(g) = {}
    BY <2>3 DEF Shares, Slots
  <2> HIDE DEF f
  <2>5. Total(f) = 0
    BY <2>4, TotalZero
  <2>6. Cardinality(Slots(g)) = 0
    BY <2>4, FS_EmptySet
  <2>7. 0 <= MaxBytes /\ 0 <= MaxRunning
    BY DurationFacts
  <2> QED
    BY <2>1, <2>2, <2>5, <2>6, <2>7 DEF GateOK, f
<1> QED
  BY <1>5, <1>6, <1>7 DEF QueueInv

\* Every step keeps the invariant.
LEMMA QueueInvStep == QueueInv /\ [Next]_vars => QueueInv'
<1> SUFFICES ASSUME QueueInv, [Next]_vars PROVE QueueInv'
  OBVIOUS
<1>1. ASSUME NEW j \in Jobs, NEW a \in Accounts, NEW g \in Gateways, Submit(j, a, g) PROVE QueueInv'
  BY <1>1, SubmitStep
<1>2. ASSUME NEW j \in Jobs, Cancel(j) \/ Ack(j) \/ ReleaseAdmission(j) PROVE QueueInv'
  BY <1>2, CancelStep, AckStep, ReleaseAdmissionStep
<1>3. ASSUME NEW j \in Jobs, ExecStep(j) \/ RelayStep(j) PROVE QueueInv'
  BY <1>3, ReturnSteps, SendStep, CommitStep, ConcludeStep, ReleaseSteps, ReleaseSlotStep
  DEF ExecStep, RelayStep
<1>4. ASSUME NEW g \in Gateways, TickStep(g) PROVE QueueInv'
  BY <1>4, ScanStep, DispatchSteps, ReserveStep, ActivateStep DEF TickStep
<1>5. ASSUME NEW g \in Gateways, Crash(g) PROVE QueueInv'
  BY <1>5, CrashStep
<1>6. ASSUME NEW x \in GPUs, WorkerEnds(x) PROVE QueueInv'
  BY <1>6, WorkerStep
<1>7. CASE Advance
  BY <1>7, AdvanceStep
<1>8. CASE UNCHANGED vars
  <2>1. UNCHANGED <<entry, bytes, running, tick, exec, owed, account, gpu, work>>
    BY <1>8 DEF vars
  <2>2. Types'
    BY <2>1, Parts DEF Types
  <2>3. ASSUME NEW j \in Jobs PROVE JobOK(j)' /\ LeaseOK(j)' /\ WorkOK(j)'
    BY <2>1, Parts DEF JobOK, LeaseOK, WorkOK, Reserved
  <2>4. ASSUME NEW g \in Gateways PROVE TickOK(g)'
    BY <2>1, Parts DEF TickOK
  <2>5. ASSUME NEW g \in Gateways PROVE GateOK(g)'
    BY <2>1, Parts DEF GateOK, Shares, Slots
  <2> QED
    BY <2>2, <2>3, <2>4, <2>5 DEF QueueInv
<1> QED
  BY <1>1, <1>2, <1>3, <1>4, <1>5, <1>6, <1>7, <1>8 DEF Next

\* Entries, goroutines, leases, workers, dispatchers and books of all gateways agree, in
\* every reachable state.
THEOREM QueueInvariant == Spec => []QueueInv
<1> QED
  BY QueueInvInit, QueueInvStep, PTL DEF Spec

\* TryCommitResult and Cancel decide under one lock: an image that was billed was committed
\* before any cancellation was accepted, and none is accepted after that.
THEOREM CancelledIsNeverBilled == Spec => []CancelNeverBilled
<1>1. QueueInv => CancelNeverBilled
  <2> SUFFICES ASSUME QueueInv, NEW j \in Jobs
               PROVE  /\ entry[j].cancelReq => ~exec[j].billed
                      /\ exec[j].billed => ~entry[j].cancelReq /\ entry[j].state # "cancelled"
    BY DEF CancelNeverBilled
  <2>1. JobOK(j)
    BY Parts
  <2> QED
    BY <2>1 DEF JobOK, EntryOK
<1> QED
  BY <1>1, QueueInvariant, PTL

\* Whoever a GPU may be busy with and nobody has answered for holds its lease until it runs
\* out, and a lease has one holder: cancellations, timeouts, lost answers and restarts do not
\* give a GPU two such executions, however long they take.
THEOREM GpuIsExclusive == Spec => []GpuExclusive
<1>1. QueueInv => GpuExclusive
  <2> SUFFICES ASSUME QueueInv, NEW x \in GPUs
               PROVE  Cardinality({j \in work[x] : exec[j].left > 0 /\ ~exec[j].heard}) <= 1
    BY DEF GpuExclusive
  <2> DEFINE busy == {j \in work[x] : exec[j].left > 0 /\ ~exec[j].heard}
  <2>1. work[x] \subseteq Jobs
    BY Parts DEF Types
  <2>2. \A j \in busy : gpu[x].holder = j
    BY <2>1, Parts DEF WorkOK, Reserved
  <2> HIDE DEF busy
  <2>3. CASE busy = {}
    BY <2>3, FS_EmptySet DEF busy
  <2>4. CASE busy # {}
    <3>1. PICK j : j \in busy
      BY <2>4
    <3>2. busy = {j}
      BY <2>2, <3>1
    <3>3. Cardinality({j}) = 1
      BY FS_Singleton
    <3> QED
      BY <3>2, <3>3 DEF busy
  <2> QED
    BY <2>3, <2>4
<1> QED
  BY <1>1, QueueInvariant, PTL

\* The byte budget and the slots of a gateway are exactly what its jobs take, within their
\* limits.
THEOREM BudgetsAreAccounted == Spec => []Accounted
<1>1. QueueInv => Accounted
  <2> SUFFICES ASSUME QueueInv, NEW g \in Gateways
               PROVE  /\ bytes[g] = Total([j \in OnGate(g) |-> Retained(entry[j])])
                      /\ bytes[g] <= MaxBytes
                      /\ running[g] = Cardinality({j \in Jobs : exec[j].phase # "idle" /\ entry[j].gate = g})
                      /\ running[g] <= MaxRunning
    BY DEF Accounted
  <2> DEFINE all == Shares(g)
             here == [j \in OnGate(g) |-> Retained(entry[j])]
  <2>0. Types /\ GateOK(g)
    BY Parts
  <2>1. IsFiniteSet(Jobs) /\ OnGate(g) \in SUBSET Jobs
    BY DurationFacts DEF OnGate
  <2>2. all \in [Jobs -> Nat]
    BY <2>0, ShareType DEF Shares, Types
  <2>3. (\A j \in OnGate(g) : here[j] = all[j]) /\ \A j \in Jobs \ OnGate(g) : all[j] = 0
    BY DEF Shares, ShareOf, OnGate
  <2>4. here \in [OnGate(g) -> Nat]
    BY <2>1, <2>2, <2>3
  <2>5. bytes[g] = Total(all)
    BY <2>0 DEF GateOK
  <2> HIDE DEF all, here
  <2>6. Total(here) = Total(all)
    BY <2>1, <2>2, <2>3, <2>4, TotalWithin
  <2> QED
    BY <2>0, <2>5, <2>6 DEF GateOK, Slots, here
<1> QED
  BY <1>1, QueueInvariant, PTL

(***************************************************************************)
(* The queue implements StudioJob.                                         *)
(***************************************************************************)

\* What a Status shows, before and after a step.
LEMMA StatusFacts ==
  ASSUME NEW j \in Jobs
  PROVE  /\ StatusOf[j] = Shown(entry[j], Late(j)) /\ StatusOf'[j] = Shown(entry'[j], Late(j)')
         /\ StatusOf[j].state = entry[j].state /\ StatusOf[j].owner = entry[j].owner
         /\ StatusOf[j].active = entry[j].active /\ StatusOf[j].cancelReq = entry[j].cancelReq
         /\ StatusOf[j].committed = entry[j].committed /\ StatusOf[j].late = Late(j)
  BY DEF StatusOf, Shown

\* What is shown of an entry that differs in whether its result is committed.
LEMMA ShownCommitted ==
  ASSUME NEW o, NEW e, NEW c, NEW l, e.committed = c, e.state = o.state, e.active = o.active,
         e.owner = o.owner, e.cancelReq = o.cancelReq
  PROVE  Shown(e, l) = [Shown(o, l) EXCEPT !.committed = c]
<1> DEFINE n == [state |-> o.state, owner |-> o.owner, active |-> o.active, cancelReq |-> o.cancelReq,
                 committed |-> c, late |-> l]
<1>1. Shown(e, l) = n
  BY DEF Shown
<1>2. ASSUME NEW r, r = [Shown(o, l) EXCEPT !.committed = c] PROVE r = n
  BY <1>2 DEF Shown
<1> QED
  BY <1>1, <1>2

\* Nothing is shown differently.
LEMMA SameStatus ==
  ASSUME \A j \in Jobs : Shown(entry'[j], Late(j)') = Shown(entry[j], Late(j))
  PROVE  UNCHANGED StatusOf
<1>1. StatusOf' = [j \in Jobs |-> Shown(entry'[j], Late(j)')]
  BY DEF StatusOf, Shown
<1> QED
  BY <1>1 DEF StatusOf

\* One entry has changed, and its status becomes what it shows.
LEMMA StatusBecomes ==
  ASSUME NEW j \in Jobs, \A k \in Jobs \ {j} : entry'[k] = entry[k] /\ Late(k)' = Late(k)
  PROVE  J!Becomes(j, Shown(entry'[j], Late(j)'))
<1>1. StatusOf' = [k \in Jobs |-> Shown(entry'[k], Late(k)')]
  BY DEF StatusOf, Shown
<1>2. StatusOf' = [StatusOf EXCEPT ![j] = Shown(entry'[j], Late(j)')]
  BY <1>1 DEF StatusOf
<1> QED
  BY <1>2 DEF J!Becomes

\* Nobody is late who was in time, and nobody in time who was late, if the only lease rows
\* that change are held by one job, before and after, or have run out.
LEMMA SameLate ==
  ASSUME Types, NEW j \in Jobs,
         \A a \in Accounts : \/ account'[a] = account[a]
                             \/ /\ account[a].holder = j \/ account[a].left = 0
                                /\ account'[a].holder = j \/ account'[a].left = 0,
         NEW k \in Jobs \ {j}, entry'[k] = entry[k]
  PROVE  Late(k)' = Late(k)
<1>1. entry[k].owner \in Accounts
  BY JobFacts
<1> QED
  BY <1>1 DEF Late, CanRenew

\* The account leases stay as they are, and so does who is late.
LEMMA SameLeases ==
  ASSUME UNCHANGED account, NEW k \in Jobs, entry'[k].active = entry[k].active,
         entry'[k].owner = entry[k].owner
  PROVE  Late(k)' = Late(k)
  BY DEF Late, CanRenew

\* A step on the lease of a job that does not run shows nothing.
LEMMA LeaseUnseen ==
  ASSUME Types, UNCHANGED entry, NEW j \in Jobs, ~entry[j].active,
         \A a \in Accounts : \/ account'[a] = account[a]
                             \/ /\ account[a].holder = j \/ account[a].left = 0
                                /\ account'[a].holder = j \/ account'[a].left = 0
  PROVE  UNCHANGED StatusOf
<1>1. ASSUME NEW k \in Jobs PROVE Late(k)' = Late(k)
  <2>1. CASE k = j
    BY <2>1 DEF Late
  <2>2. CASE k # j
    BY <2>2, SameLate
  <2> QED
    BY <2>1, <2>2
<1> QED
  BY <1>1, SameStatus

\* Nor does one that leaves the entries and the account leases alone.
LEMMA Unseen ==
  ASSUME UNCHANGED <<entry, account>>
  PROVE  UNCHANGED StatusOf
<1>1. \A k \in Jobs : Late(k)' = Late(k)
  BY SameLeases
<1> QED
  BY <1>1, SameStatus

\* An admission is one of an account that has no other job on any gateway, unless one has
\* outlived its lease.
LEMMA SubmitImplements ==
  ASSUME QueueInv, NEW j \in Jobs, NEW a \in Accounts, NEW g \in Gateways, Submit(j, a, g)
  PROVE  J!Submit(j, a)
<1>0. /\ entry[j].state = "none" /\ account[a].left = 0 /\ entry' = [entry EXCEPT ![j] = NewEntry(a, g)]
      /\ account' = [account EXCEPT ![a] = [holder |-> j, left |-> AccountLease]]
  BY DEF Submit, CanAcquire, Acquired
<1>1. StatusOf[j].state = "none"
  BY <1>0, StatusFacts
<1>2. ~J!AccountBusy(a)
  <2> SUFFICES ASSUME NEW k \in Jobs, J!Waits(StatusOf[k]), StatusOf[k].owner = a PROVE FALSE
    BY DEF J!AccountBusy
  <2>1. (entry[k].state = "queued" \/ (entry[k].active /\ ~Late(k))) /\ entry[k].owner = a
    BY StatusFacts DEF J!Waits
  <2>2. JobOK(k) /\ LeaseOK(k) /\ entry[k].wait \in Nat /\ account[a].left \in Nat
    BY <2>1, Parts, JobFacts
  <2>3. entry[k].active /\ ~Late(k) => account[a].left > 0
    BY <2>1 DEF Late, CanRenew
  <2>4. entry[k].state = "queued" => account[a].left > entry[k].wait
    BY <2>1, <2>2 DEF LeaseOK
  <2> QED
    BY <1>0, <2>1, <2>2, <2>3, <2>4
<1>3. entry'[j] = NewEntry(a, g) /\ \A k \in Jobs \ {j} : entry'[k] = entry[k]
  BY <1>0, Parts DEF Types
<1>l. (Late(j)' = FALSE) /\ \A k \in Jobs \ {j} : Late(k)' = Late(k)
  <2>1. Late(j)' = FALSE
    BY <1>3 DEF Late, NewEntry, NoEntry
  <2>2. \A b \in Accounts : \/ account'[b] = account[b]
                            \/ account[b].left = 0 /\ account'[b].holder = j
    <3> DEFINE r == [holder |-> j, left |-> AccountLease]
    <3>1. account \in [Accounts -> LeaseOf(AccountLease)] /\ account' = [account EXCEPT ![a] = r]
      BY <1>0, Parts DEF Types
    <3>2. r.holder = j
      OBVIOUS
    <3> HIDE DEF r
    <3>3. account'[a] = r /\ \A b \in Accounts \ {a} : account'[b] = account[b]
      BY <3>1
    <3> QED
      BY <1>0, <3>2, <3>3
  <2> QED
    BY <1>3, <2>1, <2>2, Parts, SameLate
<1>4. Shown(NewEntry(a, g), FALSE) = J!Queued(a)
  <2> DEFINE n == NewEntry(a, g)
             s == [state |-> "queued", owner |-> a, active |-> FALSE, cancelReq |-> FALSE, committed |-> FALSE,
                   late |-> FALSE]
  <2>1. n.state = "queued" /\ n.owner = a /\ n.active = FALSE /\ n.cancelReq = FALSE /\ n.committed = FALSE
    BY DEF NewEntry, NoEntry
  <2>2. J!Queued(a) = s
    <3> DEFINE c == CHOOSE b \in Accounts : TRUE
               none == [state |-> "none", owner |-> c, active |-> FALSE, cancelReq |-> FALSE,
                        committed |-> FALSE, late |-> FALSE]
    <3>1. J!Queued(a) = [none EXCEPT !.state = "queued", !.owner = a]
      BY DEF J!Queued, J!NotSubmitted
    <3> HIDE DEF c
    <3>2. ASSUME NEW r, r = [none EXCEPT !.state = "queued", !.owner = a] PROVE r = s
      BY <3>2
    <3> QED
      BY <3>1, <3>2
  <2> HIDE DEF n
  <2>3. Shown(n, FALSE) = s
    BY <2>1 DEF Shown
  <2> QED
    BY <2>2, <2>3 DEF n
<1>5. J!Becomes(j, Shown(entry'[j], Late(j)'))
  BY <1>3, <1>l, StatusBecomes
<1> QED
  BY <1>1, <1>2, <1>3, <1>l, <1>4, <1>5 DEF J!Submit

\* The browser's cancellation.
LEMMA CancelImplements ==
  ASSUME QueueInv, NEW j \in Jobs, Cancel(j)
  PROVE  J!Cancel(j)
<1> DEFINE o == entry[j]
           l == Late(j)
<1>0. o \in Entry /\ Held(o) /\ entry' = [entry EXCEPT ![j] = CancelledEntry(o)] /\ JobOK(j)
  BY Parts, JobFacts DEF Cancel
<1>1. entry'[j] = CancelledEntry(o) /\ \A k \in Jobs \ {j} : entry'[k] = entry[k]
  BY <1>0, Parts DEF Types
<1>l. Late(j)' = l /\ \A k \in Jobs \ {j} : Late(k)' = Late(k)
  <2>1. UNCHANGED account
    BY DEF Cancel
  <2>2. CancelledEntry(o).active = o.active /\ CancelledEntry(o).owner = o.owner
    BY <1>0 DEF CancelledEntry, Entry
  <2> QED
    BY <1>1, <2>1, <2>2, SameLeases
<1>2. J!Becomes(j, Shown(entry'[j], Late(j)'))
  BY <1>1, <1>l, StatusBecomes
<1>3. StatusOf[j] = Shown(o, l)
  BY StatusFacts
<1>4. o.state = "queued" => ~o.active
  BY <1>0 DEF JobOK, EntryOK
<1> HIDE DEF o, l
<1>5. /\ Shown(o, l).state = o.state /\ Shown(o, l).active = o.active /\ Shown(o, l).committed = o.committed
      /\ Shown(o, l).cancelReq = o.cancelReq
  BY DEF Shown
<1>6. Shown(CancelledEntry(o), l) = J!CancelEffect(Shown(o, l))
  <2>1. CASE o.committed
    BY <1>5, <2>1 DEF CancelledEntry, J!CancelEffect
  <2>2. CASE ~o.committed /\ o.state = "completed"
    <3>1. /\ CancelledEntry(o) = [o EXCEPT !.result = 0, !.state = "cancelled", !.cancelReq = TRUE]
          /\ J!CancelEffect(Shown(o, l)) = [Shown(o, l) EXCEPT !.state = "cancelled", !.cancelReq = TRUE]
      BY <1>5, <2>2 DEF CancelledEntry, J!CancelEffect
    <3> QED
      BY <1>0, <3>1 DEF Shown, Entry
  <2>3. CASE ~o.committed /\ o.state # "completed" /\ o.active
    <3> DEFINE s == IF o.state = "cancelled" THEN "cancelled" ELSE "cancelling"
               n == IF o.cancelReq THEN o.grace ELSE CancelGrace
    <3>1. /\ CancelledEntry(o) = [o EXCEPT !.grace = n, !.cancelReq = TRUE, !.state = s]
          /\ J!CancelEffect(Shown(o, l)) = [Shown(o, l) EXCEPT !.cancelReq = TRUE, !.state = s]
      BY <1>0, <1>5, <2>3 DEF CancelledEntry, J!CancelEffect, Entry
    <3> HIDE DEF s, n
    <3> QED
      BY <1>0, <3>1 DEF Shown, Entry
  <2>4. CASE ~o.committed /\ ~o.active /\ o.state = "queued"
    <3>1. /\ CancelledEntry(o) = [o EXCEPT !.state = "cancelled", !.cancelReq = TRUE,
                                           !.keep = ResultTTL, !.body = 0]
          /\ J!CancelEffect(Shown(o, l)) = [Shown(o, l) EXCEPT !.cancelReq = TRUE, !.state = "cancelled"]
      BY <1>5, <2>4 DEF CancelledEntry, J!CancelEffect
    <3> QED
      BY <1>0, <3>1 DEF Shown, Entry
  <2>5. CASE ~o.committed /\ ~o.active /\ o.state \notin {"queued", "completed"}
    BY <1>5, <2>5 DEF CancelledEntry, J!CancelEffect
  <2> QED
    BY <1>4, <2>1, <2>2, <2>3, <2>4, <2>5
<1>7. J!Held(StatusOf[j])
  BY <1>0, <1>3, <1>5 DEF Held, J!Held
<1> QED
  BY <1>1, <1>l, <1>2, <1>3, <1>6, <1>7 DEF J!Cancel

\* The browser has stored the image.
LEMMA AckImplements ==
  ASSUME QueueInv, NEW j \in Jobs, Ack(j)
  PROVE  J!Ack(j)
<1> DEFINE o == entry[j]
           l == Late(j)
           e == [o EXCEPT !.result = 0, !.state = "released"]
<1>0. /\ o \in Entry /\ Held(o) /\ ~o.active /\ o.state \notin {"queued", "released"} /\ JobOK(j)
      /\ entry' = [entry EXCEPT ![j] = e]
  BY Parts, JobFacts DEF Ack
<1>1. entry'[j] = e /\ \A k \in Jobs \ {j} : entry'[k] = entry[k]
  BY <1>0, Parts DEF Types
<1>l. Late(j)' = l /\ \A k \in Jobs \ {j} : Late(k)' = Late(k)
  <2>1. UNCHANGED account
    BY DEF Ack
  <2>2. e.active = o.active /\ e.owner = o.owner
    BY <1>0 DEF Entry
  <2> QED
    BY <1>1, <2>1, <2>2, SameLeases
<1>2. J!Becomes(j, Shown(entry'[j], Late(j)'))
  BY <1>1, <1>l, StatusBecomes
<1>3. o.state \in J!Ended
  <2>1. o.state \in J!States
    BY Parts, JobFacts
  <2> QED
    BY <1>0, <2>1 DEF J!States, J!Ended, Held, JobOK, EntryOK
<1>4. StatusOf[j] = Shown(o, l) /\ StatusOf[j].state \in J!Ended /\ ~StatusOf[j].active
  BY <1>0, <1>3, StatusFacts
<1> HIDE DEF o, l
<1>5. Shown(e, l) = [Shown(o, l) EXCEPT !.state = "released"]
  BY <1>0 DEF Shown, Entry
<1> QED
  BY <1>1, <1>l, <1>2, <1>4, <1>5 DEF J!Ack

\* A waiting job becomes active, or the pass returns with nothing changed.
LEMMA ActivateImplements ==
  ASSUME QueueInv, NEW g \in Gateways, Activate(g)
  PROVE  UNCHANGED StatusOf \/ \E j \in Jobs : J!Dispatch(j)
<1>0. Types /\ TickOK(g) /\ tick[g] \in PassOf /\ tick[g].got # "none"
  BY Parts DEF Activate, Types
<1>1. PICK j \in Jobs : j = tick[g].cur
  BY <1>0 DEF TickOK, PassOf
<1> DEFINE o == entry[j]
           e == [o EXCEPT !.state = "running", !.active = TRUE]
<1>2. CASE o.state # "queued"
  <2>1. UNCHANGED <<entry, account>>
    BY <1>1, <1>2 DEF Activate
  <2> QED
    BY <2>1, Unseen
<1>3. CASE o.state = "queued"
  <2>0. o \in Entry /\ entry' = [entry EXCEPT ![j] = e]
    BY <1>0, <1>1, <1>3, JobFacts DEF Activate
  <2>1. entry'[j] = e /\ \A k \in Jobs \ {j} : entry'[k] = entry[k]
    BY <1>0, <2>0 DEF Types
  <2>a. UNCHANGED account
    BY DEF Activate
  <2>l. Late(j) = FALSE /\ Late(j)' = FALSE /\ \A k \in Jobs \ {j} : Late(k)' = Late(k)
    <3>1. Late(j) = FALSE
      BY <1>3, Parts DEF JobOK, EntryOK, Late, Executing
    <3>2. CanRenew(account[o.owner], j)
      <4>1. LeaseOK(j) /\ o.wait \in Nat /\ account[o.owner].left \in Nat
        BY <1>0, Parts, JobFacts
      <4> QED
        BY <1>3, <4>1 DEF LeaseOK, CanRenew
    <3>3. e.owner = o.owner
      BY <2>0 DEF Entry
    <3>4. Late(j)' = FALSE
      BY <2>1, <2>a, <3>2, <3>3 DEF Late
    <3> QED
      BY <2>1, <2>a, <3>1, <3>4, SameLeases
  <2>2. J!Becomes(j, Shown(entry'[j], Late(j)'))
    BY <2>1, <2>l, StatusBecomes
  <2>3. StatusOf[j] = Shown(o, FALSE) /\ StatusOf[j].state = "queued"
    BY <1>3, <2>l, StatusFacts
  <2> HIDE DEF o
  <2>4. Shown(e, FALSE) = [Shown(o, FALSE) EXCEPT !.state = "running", !.active = TRUE]
    <3>1. /\ e.state = "running" /\ e.active = TRUE /\ e.owner = o.owner /\ e.cancelReq = o.cancelReq
          /\ e.committed = o.committed
      BY <2>0 DEF Entry
    <3> DEFINE n == [state |-> "running", owner |-> o.owner, active |-> TRUE, cancelReq |-> o.cancelReq,
                     committed |-> o.committed, late |-> FALSE]
    <3> HIDE DEF e
    <3>2. Shown(e, FALSE) = n
      BY <3>1 DEF Shown
    <3>3. ASSUME NEW r, r = [Shown(o, FALSE) EXCEPT !.state = "running", !.active = TRUE] PROVE r = n
      BY <3>3 DEF Shown
    <3> QED
      BY <3>2, <3>3
  <2>5. J!Dispatch(j)
    BY <2>1, <2>l, <2>2, <2>3, <2>4 DEF J!Dispatch
  <2> QED
    BY <2>5
<1> QED
  BY <1>2, <1>3

\* The image is claimed for billing, unless the cancellation came first.
LEMMA CommitImplements ==
  ASSUME QueueInv, NEW j \in Jobs, CommitResult(j)
  PROVE  UNCHANGED StatusOf \/ J!CommitResult(j)
<1> DEFINE o == entry[j]
           l == Late(j)
           e == [o EXCEPT !.committed = TRUE]
<1>0. Types /\ JobOK(j) /\ o \in Entry /\ exec[j].phase = "answered"
  BY Parts, JobFacts DEF CommitResult
<1>1. o.active /\ ~o.committed
  BY <1>0 DEF JobOK, EntryOK, Executing
<1>2. CASE o.cancelReq
  <2>1. UNCHANGED <<entry, account>>
    BY <1>2 DEF CommitResult, ExecBecomes
  <2> QED
    BY <2>1, Unseen
<1>3. CASE ~o.cancelReq
  <2>0. entry' = [entry EXCEPT ![j] = e]
    BY <1>3 DEF CommitResult
  <2>1. entry'[j] = e /\ \A k \in Jobs \ {j} : entry'[k] = entry[k]
    BY <1>0, <2>0 DEF Types
  <2>l. Late(j)' = l /\ \A k \in Jobs \ {j} : Late(k)' = Late(k)
    <3>1. UNCHANGED account
      BY <1>3 DEF CommitResult, ExecBecomes
    <3>2. e.active = o.active /\ e.owner = o.owner
      BY <1>0 DEF Entry
    <3> QED
      BY <2>1, <3>1, <3>2, SameLeases
  <2>2. J!Becomes(j, Shown(entry'[j], Late(j)'))
    BY <2>1, <2>l, StatusBecomes
  <2>3. StatusOf[j] = Shown(o, l) /\ StatusOf[j].active /\ ~StatusOf[j].cancelReq /\ ~StatusOf[j].committed
    BY <1>1, <1>3, StatusFacts
  <2> HIDE DEF o, l
  <2>4. Shown(e, l) = [Shown(o, l) EXCEPT !.committed = TRUE]
    <3>1. /\ e.committed = TRUE /\ e.state = o.state /\ e.active = o.active /\ e.owner = o.owner
          /\ e.cancelReq = o.cancelReq
      BY <1>0 DEF Entry
    <3> HIDE DEF e
    <3> QED
      BY <3>1, ShownCommitted
  <2> QED
    BY <2>1, <2>l, <2>2, <2>3, <2>4 DEF J!CommitResult
<1> QED
  BY <1>2, <1>3

\* execute ends: what was committed is kept, and only that.
LEMMA ConcludeImplements ==
  ASSUME QueueInv, NEW j \in Jobs, Conclude(j)
  PROVE  J!Conclude(j)
<1> DEFINE o == entry[j]
           l == Late(j)
           s == IF o.cancelReq THEN "cancelled" ELSE IF exec[j].ok THEN "completed" ELSE "failed"
           r == IF s = "completed" THEN Image ELSE 0
           e == [o EXCEPT !.body = 0, !.active = FALSE, !.keep = ResultTTL, !.state = s, !.result = r]
<1>0. Types /\ JobOK(j) /\ o \in Entry /\ exec[j].phase = "returned" /\ entry' = [entry EXCEPT ![j] = e]
  BY Parts, JobFacts DEF Conclude, ConcludedEntry
<1>1. o.active /\ (exec[j].ok <=> o.committed)
  BY <1>0 DEF JobOK, EntryOK, Executing
<1>2. entry'[j] = e /\ \A k \in Jobs \ {j} : entry'[k] = entry[k]
  BY <1>0 DEF Types
<1>l. (Late(j)' = FALSE) /\ \A k \in Jobs \ {j} : Late(k)' = Late(k)
  <2>1. UNCHANGED account
    BY DEF Conclude, ExecBecomes
  <2>2. e.active = FALSE
    BY <1>0 DEF Entry
  <2>3. Late(j)' = FALSE
    BY <1>2, <2>2 DEF Late
  <2> QED
    BY <1>2, <2>1, <2>3, SameLeases
<1>3. J!Becomes(j, Shown(entry'[j], Late(j)'))
  BY <1>2, <1>l, StatusBecomes
<1>4. /\ StatusOf[j] = Shown(o, l) /\ StatusOf[j].active
      /\ Shown(o, l).cancelReq = o.cancelReq /\ Shown(o, l).committed = o.committed
  BY <1>1, StatusFacts
<1>5. s = IF o.cancelReq THEN "cancelled" ELSE IF o.committed THEN "completed" ELSE "failed"
  BY <1>1
<1> HIDE DEF o, l, s, r
<1>6. J!ConcludeEffect(Shown(o, l), Shown(o, l).committed) = [Shown(o, l) EXCEPT !.active = FALSE, !.late = FALSE, !.state = s]
  BY <1>4, <1>5 DEF J!ConcludeEffect
<1>7. Shown(e, FALSE) = [Shown(o, l) EXCEPT !.active = FALSE, !.late = FALSE, !.state = s]
  <2>1. /\ e.state = s /\ e.active = FALSE /\ e.owner = o.owner /\ e.cancelReq = o.cancelReq
        /\ e.committed = o.committed
    BY <1>0 DEF Entry
  <2> DEFINE n == [state |-> s, owner |-> o.owner, active |-> FALSE, cancelReq |-> o.cancelReq,
                   committed |-> o.committed, late |-> FALSE]
  <2> HIDE DEF e
  <2>2. Shown(e, FALSE) = n
    BY <2>1 DEF Shown
  <2>3. ASSUME NEW q, q = [Shown(o, l) EXCEPT !.active = FALSE, !.late = FALSE, !.state = s] PROVE q = n
    BY <2>3 DEF Shown
  <2> QED
    BY <2>2, <2>3
<1> HIDE DEF e
<1>8. Shown(entry'[j], Late(j)') = J!ConcludeEffect(StatusOf[j], StatusOf[j].committed)
  BY <1>2, <1>l, <1>4, <1>6, <1>7
<1> QED
  BY <1>3, <1>4, <1>8 DEF J!Conclude

\* A pass ages the entries of one gateway.
LEMMA ScanImplements ==
  ASSUME QueueInv, NEW g \in Gateways, TickScan(g)
  PROVE  J!Sweep
<1>0. Types /\ entry' = [j \in Jobs |-> IF j \in OnGate(g) THEN Aged(entry[j]) ELSE entry[j]]
  BY Parts DEF TickScan
<1>1. DOMAIN StatusOf' = Jobs
  BY DEF StatusOf
<1>2. ASSUME NEW j \in Jobs PROVE StatusOf'[j] \in J!Ages(StatusOf[j])
  <2> DEFINE o == entry[j]
             l == Late(j)
  <2>0. o \in Entry /\ JobOK(j) /\ (entry'[j] = o \/ entry'[j] = Aged(o)) /\ o.state \in J!States
    BY <1>0, Parts, JobFacts
  <2>l. Late(j)' = l
    <3>1. UNCHANGED account
      BY DEF TickScan
    <3>2. Aged(o).active = o.active /\ Aged(o).owner = o.owner
      BY <2>0 DEF Aged, Entry
    <3> QED
      BY <2>0, <3>1, <3>2, SameLeases
  <2>1. StatusOf[j] = Shown(o, l) /\ StatusOf'[j] = Shown(entry'[j], l)
    BY <2>l, StatusFacts
  <2>2. o.active => o.state \in {"running", "cancelling", "cancelled"}
    BY <2>0 DEF JobOK, EntryOK
  <2>3. o.state \in {"running", "cancelling"} => o.active
    BY <2>0 DEF JobOK, EntryOK
  <2> HIDE DEF o, l
  <2>4. Shown(o, l).state = o.state /\ Shown(o, l).active = o.active
    BY DEF Shown
  <2>5. Shown(o, l) \in J!Ages(Shown(o, l))
    BY DEF J!Ages
  <2>6. Shown(Aged(o), l) \in J!Ages(Shown(o, l))
    <3>1. CASE GraceOver(o)
      <4> DEFINE e == [o EXCEPT !.state = "cancelled"]
      <4>1. Aged(o) = e /\ o.active /\ o.state = "cancelling"
        BY <3>1 DEF Aged, GraceOver
      <4>2. Shown(e, l) = [Shown(o, l) EXCEPT !.state = "cancelled"]
        BY <2>0 DEF Shown, Entry
      <4> HIDE DEF e
      <4> QED
        BY <2>4, <4>1, <4>2 DEF J!Ages
    <3>2. CASE ~GraceOver(o) /\ WaitOver(o)
      <4> DEFINE e == [o EXCEPT !.state = "expired", !.keep = ResultTTL, !.body = 0]
      <4>1. Aged(o) = e /\ o.state = "queued"
        BY <3>2 DEF Aged, WaitOver
      <4>2. Shown(e, l) = [Shown(o, l) EXCEPT !.state = "expired"]
        BY <2>0 DEF Shown, Entry
      <4> HIDE DEF e
      <4> QED
        BY <2>4, <4>1, <4>2 DEF J!Ages
    <3>3. CASE ~GraceOver(o) /\ ~WaitOver(o) /\ Collected(o)
      <4> DEFINE e == [o EXCEPT !.state = "gone", !.result = 0]
      <4>1. Aged(o) = e /\ o.state # "queued" /\ ~o.active /\ Held(o)
        BY <3>3 DEF Aged, Collected
      <4>2. Shown(e, l) = [Shown(o, l) EXCEPT !.state = "gone"]
        BY <2>0 DEF Shown, Entry
      <4>3. o.state \in J!Ended
        BY <2>0, <2>3, <4>1 DEF J!States, J!Ended, Held
      <4> HIDE DEF e
      <4> QED
        BY <2>4, <4>1, <4>2, <4>3 DEF J!Ages
    <3>4. CASE ~GraceOver(o) /\ ~WaitOver(o) /\ ~Collected(o)
      <4>1. Aged(o) = o
        BY <3>4 DEF Aged
      <4> QED
        BY <2>5, <4>1
    <3> QED
      BY <3>1, <3>2, <3>3, <3>4
  <2> QED
    BY <2>0, <2>1, <2>5, <2>6
<1> QED
  BY <1>1, <1>2 DEF J!Sweep

\* The jobs of a gateway that restarts are lost together.
LEMMA CrashImplements ==
  ASSUME QueueInv, NEW g \in Gateways, Crash(g)
  PROVE  J!Restart(OnGate(g))
<1>0. Types
  BY Parts
<1>1. ASSUME NEW j \in OnGate(g)
      PROVE  Shown(entry'[j], Late(j)') =
                 [Shown(entry[j], Late(j)) EXCEPT !.state = "lost", !.active = FALSE, !.late = FALSE]
  <2> DEFINE o == entry[j]
             l == Late(j)
             e == [NoEntry EXCEPT !.state = "lost", !.gate = g, !.owner = o.owner,
                                  !.cancelReq = o.cancelReq, !.committed = o.committed]
  <2>1. j \in Jobs /\ entry'[j] = e
    BY DEF Crash, OnGate
  <2>2. /\ e.state = "lost" /\ e.active = FALSE /\ e.owner = o.owner /\ e.cancelReq = o.cancelReq
        /\ e.committed = o.committed
    BY DEF NoEntry
  <2>l. Late(j)' = FALSE
    BY <2>1, <2>2 DEF Late
  <2> HIDE DEF e, o, l
  <2>3. Shown(e, FALSE) = [Shown(o, l) EXCEPT !.state = "lost", !.active = FALSE, !.late = FALSE]
    <3> DEFINE n == [state |-> "lost", owner |-> o.owner, active |-> FALSE, cancelReq |-> o.cancelReq,
                     committed |-> o.committed, late |-> FALSE]
    <3>1. Shown(e, FALSE) = n
      BY <2>2 DEF Shown
    <3>2. ASSUME NEW r, r = [Shown(o, l) EXCEPT !.state = "lost", !.active = FALSE, !.late = FALSE] PROVE r = n
      BY <3>2 DEF Shown
    <3> QED
      BY <3>1, <3>2
  <2> QED
    BY <2>1, <2>l, <2>3 DEF o, l
<1>2. \A j \in Jobs \ OnGate(g) : entry'[j] = entry[j] /\ Late(j)' = Late(j)
  <2>1. UNCHANGED account /\ \A j \in Jobs \ OnGate(g) : entry'[j] = entry[j]
    BY DEF Crash
  <2> QED
    BY <2>1, SameLeases
<1>3. \A j \in OnGate(g) : J!Held(StatusOf[j]) /\ j \in Jobs
  <2> SUFFICES ASSUME NEW j \in OnGate(g) PROVE J!Held(StatusOf[j]) /\ j \in Jobs
    OBVIOUS
  <2>1. j \in Jobs /\ Held(entry[j])
    BY DEF OnGate
  <2>2. StatusOf[j].state = entry[j].state
    BY <2>1, StatusFacts
  <2> QED
    BY <2>1, <2>2 DEF Held, J!Held
<1>4. \A j \in Jobs : StatusOf'[j] = IF j \in OnGate(g) /\ J!Held(StatusOf[j])
                                     THEN [StatusOf[j] EXCEPT !.state = "lost", !.active = FALSE,
                                                              !.late = FALSE]
                                     ELSE StatusOf[j]
  <2> SUFFICES ASSUME NEW j \in Jobs
               PROVE  StatusOf'[j] = IF j \in OnGate(g) /\ J!Held(StatusOf[j])
                                     THEN [StatusOf[j] EXCEPT !.state = "lost", !.active = FALSE,
                                                              !.late = FALSE]
                                     ELSE StatusOf[j]
    OBVIOUS
  <2>1. StatusOf[j] = Shown(entry[j], Late(j)) /\ StatusOf'[j] = Shown(entry'[j], Late(j)')
    BY StatusFacts
  <2>2. CASE j \in OnGate(g)
    BY <1>1, <1>3, <2>1, <2>2
  <2>3. CASE j \notin OnGate(g)
    BY <1>2, <2>1, <2>3
  <2> QED
    BY <2>2, <2>3
<1>5. StatusOf' = [j \in Jobs |-> StatusOf'[j]]
  BY DEF StatusOf
<1> QED
  BY <1>4, <1>5 DEF J!Restart

\* The lease of a job that does not run is given back.
LEMMA LeaseReleased ==
  ASSUME Types, UNCHANGED entry, NEW j \in Jobs, ~entry[j].active,
         account' = [account EXCEPT ![entry[j].owner] = Released(@, j)]
  PROVE  UNCHANGED StatusOf
<1>1. \A a \in Accounts : \/ account'[a] = account[a]
                          \/ account[a].holder = j /\ account'[a].left = 0
  BY DEF Types, Released, Free
<1> QED
  BY <1>1, LeaseUnseen

\* Time makes a job that runs late and changes nothing else that is shown.
LEMMA AdvanceImplements ==
  ASSUME QueueInv, Advance
  PROVE  J!Sweep
<1>1. DOMAIN StatusOf' = Jobs
  BY DEF StatusOf
<1>2. ASSUME NEW j \in Jobs PROVE StatusOf'[j] \in J!Ages(StatusOf[j])
  <2> DEFINE o == entry[j]
             l == Late(j)
             e == [o EXCEPT !.wait = Less(o.wait), !.grace = Less(o.grace), !.keep = Less(o.keep)]
  <2>0. o \in Entry /\ entry'[j] = e /\ Types
    BY Parts, JobFacts DEF Advance
  <2>1. /\ e.state = o.state /\ e.owner = o.owner /\ e.active = o.active /\ e.cancelReq = o.cancelReq
        /\ e.committed = o.committed
    BY <2>0 DEF Entry
  <2>2. Late(j)' = l \/ (o.active /\ Late(j)' = TRUE)
    <3>1. o.owner \in Accounts /\ account[o.owner] \in LeaseOf(AccountLease)
      BY <2>0, JobFacts
    <3>2. account'[o.owner] = Elapsed(account[o.owner])
      BY <3>1 DEF Advance
    <3>3. CanRenew(account'[o.owner], j) => CanRenew(account[o.owner], j)
      BY <3>1, <3>2, DurationFacts DEF LeaseOf, CanRenew, Elapsed, Free
    <3> HIDE DEF o, e
    <3>4. Late(j)' <=> o.active /\ ~CanRenew(account'[o.owner], j)
      BY <2>0, <2>1 DEF Late
    <3>5. l <=> o.active /\ ~CanRenew(account[o.owner], j)
      BY DEF Late, o
    <3>6. o.active \in BOOLEAN
      BY <2>0 DEF Entry
    <3> QED
      BY <3>3, <3>4, <3>5, <3>6 DEF Late
  <2>3. StatusOf[j] = Shown(o, l) /\ StatusOf'[j] = Shown(entry'[j], Late(j)')
    BY StatusFacts
  <2> HIDE DEF o, l, e
  <2>4. Shown(e, Late(j)') = Shown(o, Late(j)')
    BY <2>1 DEF Shown
  <2>5. Shown(o, l) \in J!Ages(Shown(o, l))
    BY DEF J!Ages
  <2>6. o.active => Shown(o, TRUE) \in J!Ages(Shown(o, l))
    <3>1. ASSUME NEW r, r = [Shown(o, l) EXCEPT !.late = TRUE] PROVE r = Shown(o, TRUE)
      BY <3>1 DEF Shown
    <3>2. Shown(o, l).active = o.active
      BY DEF Shown
    <3> QED
      BY <3>1, <3>2 DEF J!Ages
  <2> QED
    BY <2>0, <2>2, <2>3, <2>4, <2>5, <2>6
<1> QED
  BY <1>1, <1>2 DEF J!Sweep

\* Every step of the queue is a step of StudioJob or changes nothing a Status shows.
LEMMA StepImplements == QueueInv /\ [Next]_vars => [J!Next]_StatusOf
<1> SUFFICES ASSUME QueueInv, [Next]_vars PROVE J!Next \/ UNCHANGED StatusOf
  OBVIOUS
<1>0. Types
  BY Parts
<1>1. ASSUME NEW j \in Jobs, NEW a \in Accounts, NEW g \in Gateways, Submit(j, a, g) PROVE J!Next
  BY <1>1, SubmitImplements DEF J!Next
<1>2. ASSUME NEW j \in Jobs, Cancel(j) PROVE J!Next
  BY <1>2, CancelImplements DEF J!Next
<1>3. ASSUME NEW j \in Jobs, Ack(j) PROVE J!Next
  BY <1>3, AckImplements DEF J!Next
<1>4. ASSUME NEW j \in Jobs, ReleaseAdmission(j) PROVE UNCHANGED StatusOf
  <2>1. j \in owed /\ UNCHANGED entry /\ account' = [account EXCEPT ![entry[j].owner] = Released(@, j)]
    BY <1>4 DEF ReleaseAdmission
  <2>2. ~entry[j].active
    BY <2>1, Parts DEF JobOK, EntryOK
  <2> QED
    BY <1>0, <2>1, <2>2, LeaseReleased
<1>5. ASSUME NEW j \in Jobs, ExecStep(j) \/ RelayStep(j) PROVE J!Next \/ UNCHANGED StatusOf
  <2>1. CASE CommitResult(j)
    BY <2>1, CommitImplements DEF J!Next
  <2>2. CASE Conclude(j)
    BY <2>2, ConcludeImplements DEF J!Next
  <2>3. CASE \/ RunGivesUp(j) \/ SendInference(j) \/ ReviewApproves(j) \/ RelayRefused(j)
             \/ RelayUncertain(j) \/ SettleBill(j) \/ ReleaseGPU(j) \/ ReleaseSlot(j)
    <3>1. UNCHANGED <<entry, account>>
      BY <2>3 DEF RunGivesUp, SendInference, ReviewApproves, RelayRefused, RelayUncertain, SettleBill,
                  ReleaseGPU, ReleaseSlot, ExecBecomes
    <3> QED
      BY <3>1, Unseen
  <2>4. CASE ReleaseAccount(j)
    <3>1. /\ exec[j].phase = "releaseAccount" /\ UNCHANGED entry
          /\ account' = [account EXCEPT ![entry[j].owner] = Released(@, j)]
      BY <2>4 DEF ReleaseAccount
    <3>2. ~entry[j].active
      BY <3>1, Parts DEF JobOK, EntryOK, Executing
    <3> QED
      BY <1>0, <3>1, <3>2, LeaseReleased
  <2> QED
    BY <1>5, <2>1, <2>2, <2>3, <2>4 DEF ExecStep, RelayStep
<1>6. ASSUME NEW g \in Gateways, TickStep(g) PROVE J!Next \/ UNCHANGED StatusOf
  <2>1. CASE TickScan(g)
    BY <2>1, ScanImplements DEF J!Next
  <2>2. CASE Activate(g)
    BY <2>2, ActivateImplements DEF J!Next
  <2>3. CASE DispatchNext(g) \/ ReserveNothing(g) \/ ReserveRefusal(g)
    <3>1. UNCHANGED <<entry, account>>
      BY <2>3 DEF DispatchNext, ReserveNothing, ReserveRefusal
    <3> QED
      BY <3>1, Unseen
  <2>4. CASE \E x \in GPUs : ReserveWorker(g, x)
    <3> DEFINE j == tick[g].cur
               a == entry[j].owner
    <3>1. /\ j # NoJob /\ UNCHANGED entry /\ account[a].holder = j
          /\ account' = [account EXCEPT ![a] = [@ EXCEPT !.left = AccountLease]]
      BY <2>4 DEF ReserveWorker, Considering, CanRenew, Renewed
    <3>2. j \in Jobs /\ exec[j].phase = "idle"
      BY <1>0, <3>1, Parts DEF Types, PassOf, TickOK
    <3>3. ~entry[j].active /\ a \in Accounts
      BY <1>0, <3>2, Parts, JobFacts DEF JobOK, EntryOK, Executing
    <3> HIDE DEF j, a
    <3>4. account[a] \in LeaseOf(AccountLease)
      BY <1>0, <3>3 DEF Types
    <3>5. \A b \in Accounts : \/ account'[b] = account[b]
                              \/ account[b].holder = j /\ account'[b].holder = j
      <4> DEFINE r == [account[a] EXCEPT !.left = AccountLease]
      <4>1. account' = [account EXCEPT ![a] = r]
        BY <3>1
      <4>2. r.holder = j
        BY <3>1, <3>4 DEF LeaseOf
      <4> HIDE DEF r
      <4>3. account'[a] = r /\ \A b \in Accounts \ {a} : account'[b] = account[b]
        BY <1>0, <3>3, <4>1 DEF Types
      <4> QED
        BY <3>1, <4>2, <4>3
    <3> QED
      BY <1>0, <3>1, <3>2, <3>3, <3>5, LeaseUnseen
  <2> QED
    BY <1>6, <2>1, <2>2, <2>3, <2>4 DEF TickStep
<1>7. ASSUME NEW g \in Gateways, Crash(g) PROVE J!Next
  <2>1. OnGate(g) \in SUBSET Jobs
    BY DEF OnGate
  <2> QED
    BY <1>7, <2>1, CrashImplements DEF J!Next
<1>8. ASSUME NEW x \in GPUs, WorkerEnds(x) PROVE UNCHANGED StatusOf
  <2>1. UNCHANGED <<entry, account>>
    BY <1>8 DEF WorkerEnds
  <2> QED
    BY <2>1, Unseen
<1>9. ASSUME Advance PROVE J!Next
  BY <1>9, AdvanceImplements DEF J!Next
<1>10. CASE UNCHANGED vars
  <2>1. UNCHANGED <<entry, account>>
    BY <1>10 DEF vars
  <2> QED
    BY <2>1, Unseen
<1> QED
  BY <1>1, <1>2, <1>3, <1>4, <1>5, <1>6, <1>7, <1>8, <1>9, <1>10 DEF Next

\* The queue of several gateways with leases, dispatchers, timers and restarts keeps the
\* promise that the browser relies on: it implements StudioJob.
THEOREM QueueImplementsStudioJob == Spec => Implements
<1>1. Init => J!Init
  <2> SUFFICES ASSUME Init PROVE StatusOf = [j \in Jobs |-> J!NotSubmitted]
    BY DEF J!Init
  <2>1. Shown(NoEntry, FALSE) = J!NotSubmitted
    BY DEF Shown, NoEntry, J!NotSubmitted
  <2>2. \A j \in Jobs : entry[j] = NoEntry /\ Late(j) = FALSE
    BY DEF Init, NoEntry, Late
  <2> QED
    BY <2>1, <2>2 DEF StatusOf
<1>2. QueueInv /\ [Next]_vars => [J!Next]_StatusOf
  BY StepImplements
<1> QED
  BY <1>1, <1>2, QueueInvariant, PTL DEF Spec, Implements, J!Spec
=============================================================================
