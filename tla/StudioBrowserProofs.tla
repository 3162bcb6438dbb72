------------------------- MODULE StudioBrowserProofs -------------------------
(***************************************************************************)
(* Proofs about the image studio in the browser, for every number of tabs, *)
(* jobs, inputs of the users and faults, against any server that keeps the *)
(* promise of StudioJob.                                                   *)
(***************************************************************************)
EXTENDS StudioBrowser, FiniteSetTheorems, TLAPS

(***************************************************************************)
(* The inductive invariant.                                                *)
(***************************************************************************)

\* What the server keeps of a job: who executes has not ended, an image is committed before
\* it is completed, and not once the cancellation is accepted.
JobOK(e) ==
    /\ e.active => e.state \in {"running", "cancelling", "cancelled"}
    /\ e.committed => ~e.cancelReq /\ e.state # "none"
    /\ e.state = "completed" => e.committed

\* The image of j is billed, which no cancellation undoes.
Billed(j) == job[j].committed /\ ~job[j].cancelReq

\* The images that were put in the history, whether they are still there or not.
Put == hist \union cut

PutIsBilled == \A j \in Put : Billed(j)

\* The server has nothing of the job any more.
Over(e) == e.state \in {"released", "gone", "lost"}

\* Key j was drawn by tab t and by no other, and nobody but t has heard of it.
Unclaimed(j, t) ==
    /\ j \notin posts /\ job[j].state = "none" /\ pend.key # j
    /\ \A u \in Tabs : tab[u].mine # j
    /\ \A u \in Tabs \ {t} : tab[u].rec # j

\* A tab works on a key that was drawn.  A refusal is certain; an image that was fetched is
\* billed, the acknowledgement follows the history, and the record goes after the release.
TabOK(t) ==
    LET x == tab[t] IN
    /\ x.at \notin {"idle", "failed"} => x.rec # NoJob
    /\ x.rec # NoJob => x.rec \in used
    /\ x.mine # NoJob => x.mine \in used
    /\ x.seen.is \in {"queued", "running", "cancelling"} => x.seen.of # NoJob
    /\ x.at = "claim" => Unclaimed(x.rec, t)
    /\ x.at = "refused" => x.rec \notin posts /\ job[x.rec].state = "none"
    /\ x.at \in {"verify", "save", "ack", "forget"} => Billed(x.rec)
    /\ x.at \in {"ack", "forget"} => x.rec \in Put
    /\ x.at = "forget" => Over(job[x.rec])
    /\ cxl[t].at # "idle" => cxl[t].key # NoJob /\ cxl[t].id # NoJob

\* A POST that is on its way has not been handled, and no other job was submitted.
KeysOK ==
    /\ \A j \in posts : job[j].state = "none"
    /\ \A j \in Jobs \ used : job[j].state = "none"
    /\ pend.key # NoJob => pend.key \in used
    /\ pend.key = NoJob => ~pend.cancel

BrowserInv ==
    /\ TypeOK
    /\ \A j \in Jobs : JobOK(job[j])
    /\ \A t \in Tabs : TabOK(t)
    /\ KeysOK
    /\ Recoverable /\ ReleasedIsSaved /\ PutIsBilled

(***************************************************************************)
(* The server.                                                             *)
(***************************************************************************)

\* What the browser relies on when the status of a job changes from e to f; saved says that
\* its image was put in the history.
Later(e, f, saved) ==
    /\ JobOK(f)
    /\ e.state = "none" <=> f.state = "none"
    /\ (Live(f) => Live(e)) /\ (Over(e) => Over(f))
    /\ e.committed /\ ~e.cancelReq => f.committed /\ ~f.cancelReq
    /\ f.committed /\ f.state = "released" => saved \/ (e.committed /\ e.state = "released")

ServerKeeps == job' \in [Jobs -> Status] /\ \A j \in Jobs : Later(job[j], job'[j], j \in Put)

\* A server that does nothing.
LEMMA ServerIdle == ASSUME BrowserInv, UNCHANGED job PROVE ServerKeeps
  BY DEF BrowserInv, TypeOK, ServerKeeps, Later

\* One job moves on.
LEMMA OneJob ==
  ASSUME BrowserInv, NEW j \in Jobs, NEW e \in Status, Becomes(j, e), Later(job[j], e, j \in Put)
  PROVE  ServerKeeps
<1>1. job \in [Jobs -> Status] /\ \A k \in Jobs : JobOK(job[k])
  BY DEF BrowserInv, TypeOK
<1>2. job' \in [Jobs -> Status] /\ job'[j] = e /\ \A k \in Jobs \ {j} : job'[k] = job[k]
  BY <1>1 DEF Becomes
<1>3. ASSUME NEW k \in Jobs PROVE Later(job[k], job'[k], k \in Put)
  <2>1. CASE k = j
    BY <1>2, <2>1
  <2>2. CASE k # j
    BY <1>1, <1>2, <2>2 DEF Later
  <2> QED
    BY <2>1, <2>2
<1> QED
  BY <1>2, <1>3 DEF ServerKeeps

\* The states of a job are different from each other.
LEMMA StateFacts ==
  /\ {"none", "queued", "running", "cancelling", "gone", "lost"} \subseteq States /\ Ended \subseteq States
  /\ {"cancelled", "completed", "failed", "expired", "released"} = Ended
  BY DEF States, Ended

\* What one job of the server holds.
LEMMA JobFacts ==
  ASSUME BrowserInv, NEW j \in Jobs
  PROVE  /\ job[j] \in Status /\ JobOK(job[j]) /\ job[j].state \in States /\ job[j].active \in BOOLEAN
         /\ job[j].cancelReq \in BOOLEAN /\ job[j].committed \in BOOLEAN
  BY DEF BrowserInv, TypeOK, Status

\* A job becomes active, is committed, ends or is acknowledged.
LEMMA WorkKeeps ==
  ASSUME BrowserInv, NEW j \in Jobs,
         Dispatch(j) \/ CommitResult(j) \/ Conclude(j) \/ (Ack(j) /\ j \in Put)
  PROVE  ServerKeeps
<1> DEFINE o == job[j]
<1>0. o \in Status /\ JobOK(o) /\ o.state \in States
  BY JobFacts
<1>1. CASE Dispatch(j)
  <2> DEFINE e == [o EXCEPT !.state = "running", !.active = TRUE]
  <2>1. Becomes(j, e) /\ o.state = "queued"
    BY <1>1 DEF Dispatch
  <2>2. e \in Status /\ e.state = "running" /\ e.active /\ e.cancelReq = o.cancelReq /\ e.committed = o.committed
    BY <1>0, StateFacts DEF Status
  <2> HIDE DEF o, e
  <2>3. Later(o, e, j \in Put)
    BY <1>0, <2>1, <2>2 DEF Later, JobOK, Live, Over
  <2> QED
    BY <2>1, <2>2, <2>3, OneJob DEF o
<1>2. CASE CommitResult(j)
  <2> DEFINE e == [o EXCEPT !.committed = TRUE]
  <2>1. Becomes(j, e) /\ o.active /\ ~o.cancelReq
    BY <1>2 DEF CommitResult
  <2>2. e \in Status /\ e.state = o.state /\ e.active = o.active /\ e.cancelReq = o.cancelReq /\ e.committed
    BY <1>0 DEF Status
  <2> HIDE DEF o, e
  <2>3. Later(o, e, j \in Put)
    BY <1>0, <2>1, <2>2 DEF Later, JobOK, Live, Over
  <2> QED
    BY <2>1, <2>2, <2>3, OneJob DEF o
<1>3. CASE Conclude(j)
  <2> DEFINE s == IF o.cancelReq THEN "cancelled" ELSE IF o.committed THEN "completed" ELSE "failed"
             e == [o EXCEPT !.active = FALSE, !.late = FALSE, !.state = s]
  <2>1. Becomes(j, e) /\ o.active
    BY <1>3 DEF Conclude, ConcludeEffect
  <2>2. s \in States
    BY StateFacts
  <2>s. /\ (s = "completed" => o.committed /\ ~o.cancelReq) /\ s \in {"cancelled", "completed", "failed"}
        /\ (s = "cancelled" <=> o.cancelReq)
    OBVIOUS
  <2> HIDE DEF o, s
  <2>3. e \in Status /\ e.state = s /\ e.active = FALSE /\ e.cancelReq = o.cancelReq /\ e.committed = o.committed
    BY <1>0, <2>2 DEF Status
  <2> HIDE DEF e
  <2>4. Later(o, e, j \in Put)
    BY <1>0, <2>1, <2>s, <2>3 DEF Later, JobOK, Live, Over
  <2> QED
    BY <2>1, <2>3, <2>4, OneJob DEF o
<1>4. CASE Ack(j) /\ j \in Put
  <2> DEFINE e == [o EXCEPT !.state = "released"]
  <2>1. Becomes(j, e) /\ ~o.active /\ o.state # "none"
    BY <1>4 DEF Ack, Ended
  <2>2. e \in Status /\ e.state = "released" /\ e.active = o.active /\ e.cancelReq = o.cancelReq
        /\ e.committed = o.committed
    BY <1>0, StateFacts DEF Status
  <2> HIDE DEF o, e
  <2>3. Later(o, e, j \in Put)
    BY <1>0, <1>4, <2>1, <2>2 DEF Later, JobOK, Live, Over
  <2> QED
    BY <2>1, <2>2, <2>3, OneJob DEF o
<1> QED
  BY <1>1, <1>2, <1>3, <1>4

\* A cancellation takes back nothing that is committed.
LEMMA CancelKeeps ==
  ASSUME BrowserInv, NEW j \in Jobs, Cancel(j)
  PROVE  ServerKeeps
<1> DEFINE o == job[j]
           e == CancelEffect(o)
<1>0. o \in Status /\ JobOK(o) /\ o.state \in States /\ Held(o) /\ Becomes(j, e)
  BY JobFacts DEF Cancel
<1> HIDE DEF o
<1>1. e \in Status /\ Later(o, e, j \in Put)
  <2>1. CASE e = o
    BY <1>0, <2>1 DEF Later
  <2>2. CASE ~o.committed /\ o.state = "completed"
    BY <1>0, <2>2 DEF JobOK
  <2>3. CASE ~o.committed /\ o.state # "completed" /\ o.active
    <3> DEFINE s == IF o.state = "cancelled" THEN "cancelled" ELSE "cancelling"
               n == [o EXCEPT !.cancelReq = TRUE, !.state = s]
    <3>1. e = n
      BY <1>0, <2>3 DEF CancelEffect, Status
    <3>2. s \in States /\ s \in {"cancelled", "cancelling"}
      BY StateFacts
    <3> HIDE DEF s
    <3>3. n \in Status /\ n.state = s /\ n.active = o.active /\ n.cancelReq /\ n.committed = o.committed
      BY <1>0, <3>2 DEF Status
    <3> HIDE DEF n, e
    <3>4. Later(o, n, j \in Put)
      BY <1>0, <2>3, <3>2, <3>3 DEF Later, JobOK, Live, Over
    <3> QED
      BY <3>1, <3>3, <3>4
  <2>4. CASE ~o.committed /\ ~o.active /\ o.state = "queued"
    <3> DEFINE n == [o EXCEPT !.cancelReq = TRUE, !.state = "cancelled"]
    <3>1. e = n
      BY <2>4 DEF CancelEffect
    <3>2. n \in Status /\ n.state = "cancelled" /\ n.active = o.active /\ n.cancelReq /\ n.committed = o.committed
      BY <1>0, StateFacts DEF Status
    <3> HIDE DEF n, e
    <3>3. Later(o, n, j \in Put)
      BY <1>0, <2>4, <3>2 DEF Later, JobOK, Live, Over
    <3> QED
      BY <3>1, <3>2, <3>3
  <2> QED
    BY <2>1, <2>2, <2>3, <2>4 DEF CancelEffect
<1> HIDE DEF e
<1> QED
  BY <1>0, <1>1, OneJob DEF o

\* A job ages.
LEMMA AgeKeeps ==
  ASSUME BrowserInv, NEW j \in Jobs, Age(j)
  PROVE  ServerKeeps
<1> DEFINE o == job[j]
<1>0. o \in Status /\ JobOK(o) /\ o.state \in States
  BY JobFacts
<1>1. PICK e \in Ages(o) : Becomes(j, e)
  BY DEF Age
<1> HIDE DEF o
<1>2. e \in Status /\ Later(o, e, j \in Put)
  <2>1. CASE e = o
    BY <1>0, <2>1 DEF Later
  <2>2. ASSUME NEW s \in {"cancelled", "expired", "gone"}, e = [o EXCEPT !.state = s],
               o.state # "none", s = "cancelled" => o.active, s = "expired" => o.state = "queued",
               s = "gone" => ~o.active
        PROVE  e \in Status /\ Later(o, e, j \in Put)
    <3>1. s \in States
      BY <2>2, StateFacts
    <3>2. e \in Status /\ e.state = s /\ e.active = o.active /\ e.cancelReq = o.cancelReq /\ e.committed = o.committed
      BY <1>0, <2>2, <3>1 DEF Status
    <3>3. Later(o, e, j \in Put)
      BY <1>0, <2>2, <3>2 DEF Later, JobOK, Live, Over
    <3> QED
      BY <3>2, <3>3
  <2>l. CASE o.active /\ e = [o EXCEPT !.late = TRUE]
    <3>1. e \in Status /\ e.state = o.state /\ e.active = o.active /\ e.cancelReq = o.cancelReq
          /\ e.committed = o.committed
      BY <1>0, <2>l DEF Status
    <3> QED
      BY <1>0, <3>1 DEF Later, JobOK, Live, Over
  <2>3. \/ e = o
        \/ o.active /\ e = [o EXCEPT !.late = TRUE]
        \/ o.active /\ o.state = "cancelling" /\ e = [o EXCEPT !.state = "cancelled"]
        \/ o.state = "queued" /\ e = [o EXCEPT !.state = "expired"]
        \/ o.state \in Ended /\ ~o.active /\ e = [o EXCEPT !.state = "gone"]
    BY <1>1 DEF Ages
  <2>4. o.state \in Ended => o.state # "none"
    BY DEF Ended
  <2> QED
    BY <2>1, <2>2, <2>l, <2>3, <2>4
<1> QED
  BY <1>1, <1>2, OneJob DEF o

\* A gateway restarts.
LEMMA RestartKeeps ==
  ASSUME BrowserInv, Restart(Jobs)
  PROVE  ServerKeeps
<1>1. ASSUME NEW j \in Jobs PROVE job'[j] \in Status /\ Later(job[j], job'[j], j \in Put)
  <2> DEFINE o == job[j]
             n == [o EXCEPT !.state = "lost", !.active = FALSE, !.late = FALSE]
  <2>0. o \in Status /\ JobOK(o)
    BY JobFacts
  <2>1. job'[j] = IF Held(o) THEN n ELSE o
    BY DEF Restart
  <2> HIDE DEF o
  <2>2. CASE ~Held(o)
    BY <2>0, <2>1, <2>2 DEF Later, o
  <2>3. CASE Held(o)
    <3>1. n \in Status /\ n.state = "lost" /\ n.active = FALSE /\ n.cancelReq = o.cancelReq /\ n.committed = o.committed
      BY <2>0, StateFacts DEF Status
    <3>2. job'[j] = n /\ o.state # "none"
      BY <2>1, <2>3 DEF Held
    <3> HIDE DEF n
    <3>3. Later(o, n, j \in Put)
      BY <2>0, <3>1, <3>2 DEF Later, JobOK, Live, Over
    <3> QED
      BY <3>1, <3>2, <3>3 DEF o
  <2> QED
    BY <2>2, <2>3
<1>2. job' = [j \in Jobs |-> job'[j]]
  BY DEF Restart
<1> QED
  BY <1>1, <1>2 DEF ServerKeeps

(***************************************************************************)
(* The tabs.                                                               *)
(***************************************************************************)

\* The parts of the invariant.
LEMMA Parts ==
  ASSUME BrowserInv
  PROVE  /\ TypeOK /\ KeysOK /\ Recoverable /\ ReleasedIsSaved /\ PutIsBilled /\ NoJob \notin Jobs
         /\ (\A j \in Jobs : JobOK(job[j])) /\ \A t \in Tabs : TabOK(t)
  BY BrowserConstants DEF BrowserInv

\* The types of what a tab holds.
LEMMA TabFacts ==
  ASSUME TypeOK, NEW t \in Tabs
  PROVE  /\ tab[t] \in TabState /\ cxl[t] \in Cancellation
         /\ tab[t].at \in Places /\ tab[t].rec \in Jobs \union {NoJob} /\ tab[t].mine \in Jobs \union {NoJob}
         /\ tab[t].seen \in QueueStatus
         /\ cxl[t].key \in Jobs \union {NoJob} /\ cxl[t].id \in Jobs \union {NoJob}
  BY DEF TypeOK, TabState, Cancellation

\* What was billed stays billed, and what was never submitted stays so.
LEMMA ServerFacts ==
  ASSUME ServerKeeps, NEW j \in Jobs
  PROVE  /\ (job[j].state = "none" <=> job'[j].state = "none") /\ (Billed(j) => Billed(j)')
         /\ JobOK(job'[j]) /\ (Over(job[j]) => Over(job'[j]))
  BY DEF ServerKeeps, Later, Billed

\* A tab that stands still is none the worse for what another one does: the key that it has
\* drawn is unknown to the others.
LEMMA OtherTab ==
  ASSUME BrowserInv, NEW t \in Tabs, NEW u \in Tabs \ {t},
         \A v \in Tabs \ {t} : tab'[v] = tab[v], cxl'[u] = cxl[u],
         ServerKeeps, used \subseteq used', Put \subseteq Put',
         \A j \in posts' : j \in posts \/ (j = tab[t].rec /\ tab[t].at = "claim"),
         pend'.key \in {pend.key, NoJob, tab[t].rec},
         tab'[t].mine \in {tab[t].mine, pend.key, NoJob},
         tab'[t].rec \in {tab[t].rec, tab[t].mine, pend.key, NoJob} \/ tab'[t].rec \notin used
  PROVE  TabOK(u)'
<1> DEFINE x == tab[u]
           j == x.rec
<1>0. /\ TypeOK /\ TabOK(u) /\ TabOK(t) /\ x \in TabState /\ j \in Jobs \union {NoJob} /\ tab'[u] = x
      /\ x.mine \in Jobs \union {NoJob} /\ NoJob \notin Jobs
  BY Parts, TabFacts
<1>1. (j # NoJob => j \in used') /\ (x.mine # NoJob => x.mine \in used')
  BY <1>0 DEF TabOK
<1>2. x.at = "claim" => Unclaimed(j, u)'
  <2> SUFFICES ASSUME x.at = "claim" PROVE Unclaimed(j, u)'
    OBVIOUS
  <2>1. Unclaimed(j, u) /\ j # NoJob /\ j \in used /\ j \in Jobs
    BY <1>0 DEF TabOK
  <2>2. pend.key # j /\ tab[t].mine # j /\ tab[t].rec # j /\ j \notin posts /\ job[j].state = "none"
    BY <2>1 DEF Unclaimed
  <2>3. job'[j].state = "none"
    BY <2>1, <2>2, ServerFacts
  <2>4. tab'[t].mine # j /\ tab'[t].rec # j /\ pend'.key # j /\ j \notin posts'
    BY <2>1, <2>2
  <2>5. (\A v \in Tabs : tab'[v].mine # j) /\ \A v \in Tabs \ {u} : tab'[v].rec # j
    BY <2>1, <2>4 DEF Unclaimed
  <2>6. x' = x
    BY <1>0
  <2> HIDE DEF x
  <2> QED
    BY <2>3, <2>4, <2>5, <2>6 DEF Unclaimed
<1>3. x.at = "refused" => j \notin posts' /\ job'[j].state = "none"
  <2> SUFFICES ASSUME x.at = "refused" PROVE j \notin posts' /\ job'[j].state = "none"
    OBVIOUS
  <2>1. j \notin posts /\ job[j].state = "none" /\ j # NoJob /\ j \in Jobs
    BY <1>0 DEF TabOK
  <2>2. tab[t].at = "claim" => tab[t].rec # j
    BY <1>0 DEF TabOK, Unclaimed
  <2> QED
    BY <2>1, <2>2, ServerFacts
<1>4. x.at \in {"verify", "save", "ack", "forget"} => Billed(j)'
  <2> SUFFICES ASSUME x.at \in {"verify", "save", "ack", "forget"} PROVE job'[j].committed /\ ~job'[j].cancelReq
    BY <1>0 DEF Billed
  <2>1. Billed(j) /\ j # NoJob /\ j \in Jobs
    BY <1>0 DEF TabOK
  <2> QED
    BY <2>1 DEF ServerKeeps, Later, Billed
<1>5. tab'[u].rec = j /\ x' = x
  BY <1>0
<1>6. x.at = "forget" => Over(job'[j])
  <2>1. x.at = "forget" => Over(job[j]) /\ j \in Jobs
    BY <1>0 DEF TabOK
  <2> QED
    BY <2>1, ServerFacts
<1> QED
  BY <1>0, <1>1, <1>2, <1>3, <1>4, <1>5, <1>6 DEF TabOK, Billed

\* The three promises survive a step in which the server does its part, the record changes
\* hands only when its job is over, discarded or was never admitted, only what is billed
\* enters the history, and a POST leaves only for the record.
LEMMA PromisesKept ==
  ASSUME BrowserInv, ServerKeeps, Put \subseteq Put', Put' \subseteq Jobs, gaveUp \subseteq gaveUp',
         \A j \in Put' \ Put : Billed(j)',
         \A j \in posts' : j \in posts \/ pend'.key = j,
         \A j \in Jobs : pend.key = j => \/ pend'.key = j \/ Over(job'[j])
                                         \/ \E d \in gaveUp' : d.key = j
                                         \/ j \notin posts' /\ job'[j].state = "none"
  PROVE  Recoverable' /\ ReleasedIsSaved' /\ PutIsBilled'
<1>0. Recoverable /\ ReleasedIsSaved /\ PutIsBilled /\ Put \subseteq Jobs /\ KeysOK
  BY Parts DEF TypeOK, Put
<1>1. ASSUME NEW j \in Jobs, j \in posts' \/ Live(job'[j])
      PROVE  pend'.key = j \/ \E d \in gaveUp' : d.key = j
  <2>1. Later(job[j], job'[j], j \in Put) /\ JobOK(job'[j])
    BY DEF ServerKeeps, Later
  <2>2. CASE j \in posts' /\ j \notin posts
    BY <2>2
  <2>3. CASE j \in posts \/ Live(job[j])
    <3>1. pend.key = j \/ Discarded(j)
      BY <1>0, <2>3 DEF Recoverable
    <3>2. Discarded(j) => \E d \in gaveUp' : d.key = j
      BY DEF Discarded
    <3>3. Live(job'[j]) => job'[j].state # "none" /\ ~Over(job'[j])
      BY <2>1 DEF JobOK, Live, Over
    <3>4. j \in posts => job'[j].state = "none" /\ ~Over(job'[j])
      BY <1>0, <2>1 DEF KeysOK, Later, Over
    <3> QED
      BY <1>1, <2>2, <3>1, <3>2, <3>3, <3>4
  <2>4. j \notin posts' => Live(job[j])
    BY <1>1, <2>1 DEF Later
  <2> QED
    BY <2>2, <2>3, <2>4
<1>2. Recoverable'
  BY <1>1 DEF Recoverable, Discarded
<1>3. ReleasedIsSaved'
  <2> SUFFICES ASSUME NEW j \in Jobs, job'[j].committed /\ job'[j].state = "released" PROVE j \in Put'
    BY DEF ReleasedIsSaved, Put
  <2>1. j \in Put \/ (job[j].committed /\ job[j].state = "released")
    BY DEF ServerKeeps, Later
  <2>2. job[j].committed /\ job[j].state = "released" => j \in Put
    BY <1>0 DEF ReleasedIsSaved, Put
  <2> QED
    BY <2>1, <2>2
<1>4. PutIsBilled'
  <2> SUFFICES ASSUME NEW j \in Put' PROVE job'[j].committed /\ ~job'[j].cancelReq
    BY DEF PutIsBilled, Billed
  <2>1. CASE j \in Put
    <3>1. Billed(j) /\ j \in Jobs
      BY <1>0, <2>1 DEF PutIsBilled, Billed
    <3> QED
      BY <3>1 DEF ServerKeeps, Later, Billed
  <2>2. CASE j \notin Put
    BY <2>2 DEF Billed
  <2> QED
    BY <2>1, <2>2
<1> QED
  BY <1>2, <1>3, <1>4

\* A step of one tab that draws no key and sends no POST.
LEMMA OneTab ==
  ASSUME BrowserInv, NEW t \in Tabs, NEW x \in TabState, NEW c \in Cancellation,
         tab' = [tab EXCEPT ![t] = x], cxl' = [cxl EXCEPT ![t] = c], ServerKeeps,
         used' = used, posts' = posts,
         pend' \in Record, pend'.key \in {pend.key, NoJob}, pend'.key = NoJob => ~pend'.cancel,
         Put \subseteq Put', Put' \subseteq Jobs, \A j \in Put' \ Put : Billed(j)',
         gaveUp \subseteq gaveUp',
         gaveUp' \subseteq [key : used, shown : States \union {"missing", "reconnecting"}],
         inputs' \in 0..MaxInputs, faults' \in 0..MaxFaults,
         pend.key # NoJob /\ pend'.key = NoJob =>
             \/ Over(job'[pend.key]) \/ \E d \in gaveUp' : d.key = pend.key
             \/ pend.key \notin posts /\ job[pend.key].state = "none",
         c.at # "idle" => c.key # NoJob /\ c.id # NoJob,
         \/ x = tab[t]
         \/ /\ x.at \notin {"claim", "refused"}
            /\ x.rec \in {tab[t].rec, tab[t].mine, pend.key, NoJob}
            /\ x.mine \in {tab[t].mine, pend.key, NoJob}
            /\ x.at \notin {"idle", "failed"} => x.rec # NoJob
            /\ x.seen.is \in {"queued", "running", "cancelling"} => x.seen.of # NoJob
            /\ x.at \in {"verify", "save", "ack", "forget"} => Billed(x.rec)
            /\ x.at \in {"ack", "forget"} => x.rec \in Put'
            /\ x.at = "forget" => Over(job'[x.rec])
  PROVE  BrowserInv'
<1>0. /\ TypeOK /\ KeysOK /\ TabOK(t) /\ NoJob \notin Jobs
      /\ tab[t].rec \in Jobs \union {NoJob} /\ tab[t].mine \in Jobs \union {NoJob} /\ pend \in Record
      /\ pend.key \in Jobs \union {NoJob} /\ used \subseteq Jobs /\ posts \subseteq used
  <2>1. TypeOK /\ KeysOK /\ TabOK(t) /\ NoJob \notin Jobs
    BY Parts
  <2>2. pend \in Record /\ used \subseteq Jobs /\ posts \subseteq used
    BY <2>1 DEF TypeOK
  <2> QED
    BY <2>1, <2>2, TabFacts DEF Record
<1>1. /\ tab' \in [Tabs -> TabState] /\ cxl' \in [Tabs -> Cancellation]
      /\ tab'[t] = x /\ cxl'[t] = c /\ \A u \in Tabs \ {t} : tab'[u] = tab[u] /\ cxl'[u] = cxl[u]
  BY <1>0 DEF TypeOK
<1>2. TypeOK'
  BY <1>0, <1>1 DEF TypeOK, ServerKeeps, Put
<1>3. KeysOK'
  <2>1. pend'.key # NoJob => pend'.key \in used'
    BY <1>0 DEF KeysOK
  <2>2. (\A j \in posts' : job'[j].state = "none") /\ \A j \in Jobs \ used' : job'[j].state = "none"
    BY <1>0, ServerFacts DEF KeysOK
  <2> QED
    BY <2>1, <2>2 DEF KeysOK
<1>4. \A j \in Jobs : JobOK(job'[j])
  BY ServerFacts
<1>5. Recoverable' /\ ReleasedIsSaved' /\ PutIsBilled'
  <2>1. ASSUME NEW j \in Jobs, pend.key = j
        PROVE  \/ pend'.key = j \/ Over(job'[j]) \/ \E d \in gaveUp' : d.key = j
               \/ j \notin posts' /\ job'[j].state = "none"
    <3>1. job[j].state = "none" <=> job'[j].state = "none"
      BY ServerFacts
    <3> QED
      BY <1>0, <2>1, <3>1
  <2> QED
    BY <2>1, PromisesKept
<1>6. x.rec \in Jobs \union {NoJob} /\ tab'[t].rec = x.rec
  BY <1>1 DEF TabState
<1>7. TabOK(t)'
  <2>1. CASE x = tab[t]
    <3>1. (x.rec # NoJob => x.rec \in used) /\ (x.mine # NoJob => x.mine \in used)
      BY <1>0, <2>1 DEF TabOK
    <3>2. x.at = "claim" => Unclaimed(x.rec, t)'
      <4> SUFFICES ASSUME x.at = "claim" PROVE Unclaimed(x.rec, t)'
        OBVIOUS
      <4>1. Unclaimed(x.rec, t) /\ x.rec # NoJob /\ x.rec \in Jobs
        BY <1>0, <1>6, <2>1 DEF TabOK
      <4>2. job'[x.rec].state = "none" /\ pend'.key # x.rec
        BY <4>1, ServerFacts DEF Unclaimed
      <4>3. (\A v \in Tabs : tab'[v].mine # x.rec) /\ \A v \in Tabs \ {t} : tab'[v].rec # x.rec
        BY <1>1, <2>1, <4>1 DEF Unclaimed
      <4> QED
        BY <4>1, <4>2, <4>3 DEF Unclaimed
    <3>3. x.at = "refused" => x.rec \notin posts' /\ job'[x.rec].state = "none"
      BY <1>0, <1>6, <2>1, ServerFacts DEF TabOK
    <3>4. x.at \in {"verify", "save", "ack", "forget"} => Billed(x.rec)'
      <4>1. x.at \in {"verify", "save", "ack", "forget"} => Billed(x.rec) /\ x.rec \in Jobs
        BY <1>0, <1>6, <2>1 DEF TabOK
      <4> QED
        BY <4>1, ServerFacts
    <3>5. x.at = "forget" => Over(job'[x.rec])
      BY <1>0, <1>6, <2>1, ServerFacts DEF TabOK
    <3> QED
      BY <1>0, <1>1, <2>1, <3>1, <3>2, <3>3, <3>4, <3>5 DEF TabOK
  <2>2. CASE /\ x.at \notin {"claim", "refused"}
             /\ x.rec \in {tab[t].rec, tab[t].mine, pend.key, NoJob}
             /\ x.mine \in {tab[t].mine, pend.key, NoJob}
             /\ x.at \notin {"idle", "failed"} => x.rec # NoJob
             /\ x.seen.is \in {"queued", "running", "cancelling"} => x.seen.of # NoJob
             /\ x.at \in {"verify", "save", "ack", "forget"} => Billed(x.rec)
             /\ x.at \in {"ack", "forget"} => x.rec \in Put'
             /\ x.at = "forget" => Over(job'[x.rec])
    <3>1. (x.rec # NoJob => x.rec \in used) /\ (x.mine # NoJob => x.mine \in used)
      BY <1>0, <2>2 DEF TabOK, KeysOK
    <3>2. x.at \in {"verify", "save", "ack", "forget"} => Billed(x.rec)'
      <4>1. x.at \in {"verify", "save", "ack", "forget"} => Billed(x.rec) /\ x.rec \in Jobs
        BY <1>6, <2>2
      <4> QED
        BY <4>1, ServerFacts
    <3> QED
      BY <1>1, <2>2, <3>1, <3>2 DEF TabOK
  <2> QED
    BY <2>1, <2>2
<1>8. ASSUME NEW u \in Tabs \ {t} PROVE TabOK(u)'
  <2>1. tab'[t].mine \in {tab[t].mine, pend.key, NoJob}
    BY <1>1
  <2>2. tab'[t].rec \in {tab[t].rec, tab[t].mine, pend.key, NoJob}
    BY <1>1
  <2>3. cxl'[u] = cxl[u] /\ \A v \in Tabs \ {t} : tab'[v] = tab[v]
    BY <1>1
  <2> QED
    BY <2>1, <2>2, <2>3, OtherTab
<1> QED
  BY <1>2, <1>3, <1>4, <1>5, <1>7, <1>8 DEF BrowserInv

(***************************************************************************)
(* The actions.                                                            *)
(***************************************************************************)

\* The bounds.
LEMMA Bounds ==
  ASSUME TypeOK
  PROVE  /\ (Calm => inputs' \in 0..MaxInputs /\ faults' \in 0..MaxFaults)
         /\ (Input /\ faults' = faults => inputs' \in 0..MaxInputs /\ faults' \in 0..MaxFaults)
         /\ (Fault /\ inputs' = inputs => inputs' \in 0..MaxInputs /\ faults' \in 0..MaxFaults)
  BY BrowserConstants DEF TypeOK, Calm, Input, Fault

\* The fields of a tab that moves to another place.
LEMMA Moved ==
  ASSUME TypeOK, NEW t \in Tabs, NEW at \in Places
  PROVE  /\ To(t, at) \in TabState /\ To(t, at).at = at /\ To(t, at).rec = tab[t].rec
         /\ To(t, at).mine = tab[t].mine /\ To(t, at).seen = tab[t].seen
  BY TabFacts DEF To, TabState

\* What a status may say.
LEMMA StatusFacts ==
  /\ Nothing \in QueueStatus /\ Nothing.is = "none" /\ Nothing.of = NoJob
  /\ \A j \in Jobs : \A s \in {"missing", "reconnecting"} :
        Unavailable(j, s) \in QueueStatus /\ Unavailable(j, s).is = s /\ Unavailable(j, s).of = j
  /\ \A j \in Jobs : \A e \in Status :
        Shown(j, e) \in QueueStatus /\ Shown(j, e).is = e.state /\ Shown(j, e).of = j
<1>1. Nothing = [of |-> NoJob, is |-> "none", active |-> FALSE, cancelReq |-> FALSE, committed |-> FALSE]
  BY DEF Nothing, Shown, NotSubmitted
<1>2. Nothing \in QueueStatus /\ Nothing.is = "none" /\ Nothing.of = NoJob
  BY <1>1, StateFacts DEF QueueStatus
<1>3. ASSUME NEW j \in Jobs, NEW s \in {"missing", "reconnecting"}
      PROVE  Unavailable(j, s) \in QueueStatus /\ Unavailable(j, s).is = s /\ Unavailable(j, s).of = j
  BY <1>2 DEF Unavailable, QueueStatus
<1>4. ASSUME NEW j \in Jobs, NEW e \in Status
      PROVE  Shown(j, e) \in QueueStatus /\ Shown(j, e).is = e.state /\ Shown(j, e).of = j
  BY DEF Shown, Status, QueueStatus
<1> QED
  BY <1>2, <1>3, <1>4

\* A tab moves on, and so may the server; the database stays.
TabOf(t, x) == /\ tab' = [tab EXCEPT ![t] = x] /\ ServerKeeps
               /\ UNCHANGED <<cxl, pend, hist, cut, used, posts, gaveUp>>

\* A tab may move on alone.
LEMMA Alone ==
  ASSUME BrowserInv, NEW t \in Tabs, NEW x, Tab(t, x)
  PROVE  TabOf(t, x)
  BY ServerIdle DEF Tab, TabOf

\* A step of one tab that does not touch the database.
LEMMA TabOnly ==
  ASSUME BrowserInv, NEW t \in Tabs, NEW x \in TabState, TabOf(t, x),
         inputs' \in 0..MaxInputs, faults' \in 0..MaxFaults,
         x.at \notin {"claim", "refused"},
         x.rec \in {tab[t].rec, tab[t].mine, pend.key, NoJob},
         x.mine \in {tab[t].mine, pend.key, NoJob},
         x.at \notin {"idle", "failed"} => x.rec # NoJob,
         x.seen.is \in {"queued", "running", "cancelling"} => x.seen.of # NoJob,
         x.at \in {"verify", "save", "ack", "forget"} => Billed(x.rec),
         x.at \in {"ack", "forget"} => x.rec \in Put, x.at = "forget" => Over(job'[x.rec])
  PROVE  BrowserInv'
<1>1. TypeOK /\ KeysOK /\ TabOK(t)
  BY Parts
<1>2. ServerKeeps
  BY DEF TabOf
<1>3. /\ used' = used /\ posts' = posts /\ pend' = pend /\ Put' = Put /\ gaveUp' = gaveUp
      /\ tab' = [tab EXCEPT ![t] = x]
  BY DEF TabOf, Put
<1>4. cxl[t] \in Cancellation /\ cxl' = [cxl EXCEPT ![t] = cxl[t]]
  BY <1>1, TabFacts DEF TabOf, TypeOK
<1>5. pend \in Record /\ Put \subseteq Jobs
      /\ gaveUp \subseteq [key : used, shown : States \union {"missing", "reconnecting"}]
  BY <1>1 DEF TypeOK, Put
<1>6. pend.key = NoJob => ~pend.cancel
  BY <1>1 DEF KeysOK
<1>7. cxl[t].at # "idle" => cxl[t].key # NoJob /\ cxl[t].id # NoJob
  BY <1>1 DEF TabOK
<1> QED
  BY <1>2, <1>3, <1>4, <1>5, <1>6, <1>7, OneTab

\* What a tab that is at work works on.
LEMMA AtWork ==
  ASSUME BrowserInv, NEW t \in Tabs
  PROVE  /\ (tab[t].at \notin {"idle", "failed"} => tab[t].rec \in Jobs)
         /\ (tab[t].seen.is \in {"queued", "running", "cancelling"} => tab[t].seen.of \in Jobs)
         /\ (tab[t].at \in {"verify", "save", "ack", "forget"} => Billed(tab[t].rec))
         /\ (tab[t].at \in {"ack", "forget"} => tab[t].rec \in Put)
         /\ tab[t].seen \in QueueStatus /\ TypeOK
         /\ (tab[t].rec = NoJob \/ tab[t].rec \in Jobs) /\ NoJob \notin Jobs
<1>1. TypeOK /\ TabOK(t) /\ NoJob \notin Jobs
  BY Parts
<1>2. tab[t].rec \in Jobs \union {NoJob} /\ tab[t].seen \in QueueStatus
  BY <1>1, TabFacts
<1>3. tab[t].seen.of \in Jobs \union {NoJob}
  BY <1>2 DEF QueueStatus
<1> QED
  BY <1>1, <1>2, <1>3 DEF TabOK

\* A tab moves to another place and nothing else happens.
LEMMA MoveStep ==
  ASSUME BrowserInv, NEW t \in Tabs, NEW at \in Places \ {"claim", "refused"}, TabOf(t, To(t, at)),
         inputs' \in 0..MaxInputs, faults' \in 0..MaxFaults,
         at \notin {"idle", "failed"} => tab[t].at \notin {"idle", "failed"},
         at \in {"verify", "save", "ack", "forget"} => Billed(tab[t].rec),
         at \in {"ack", "forget"} => tab[t].rec \in Put, at = "forget" => Over(job'[tab[t].rec])
  PROVE  BrowserInv'
<1> DEFINE x == To(t, at)
<1>1. x \in TabState /\ x.at = at /\ x.rec = tab[t].rec /\ x.mine = tab[t].mine /\ x.seen = tab[t].seen
  BY AtWork, Moved
<1>2. /\ (x.at \notin {"idle", "failed"} => x.rec # NoJob)
      /\ (x.seen.is \in {"queued", "running", "cancelling"} => x.seen.of # NoJob)
  BY <1>1, AtWork
<1>3. TabOf(t, x)
  OBVIOUS
<1> HIDE DEF x
<1> QED
  BY <1>1, <1>2, <1>3, TabOnly

\* A tab fails, or rests, or waits for the next poll, having read a status.
LEMMA TellStep ==
  ASSUME BrowserInv, NEW t \in Tabs, NEW at \in {"idle", "failed", "check"}, NEW s \in QueueStatus,
         TabOf(t, [To(t, at) EXCEPT !.seen = s]), inputs' \in 0..MaxInputs, faults' \in 0..MaxFaults,
         tab[t].at \notin {"idle", "failed"}, s.of = tab[t].rec
  PROVE  BrowserInv'
<1>0. at \in Places
  BY DEF Places
<1>w. TypeOK /\ tab[t].rec # NoJob
  BY AtWork
<1> DEFINE x == [To(t, at) EXCEPT !.seen = s]
<1>1. x \in TabState /\ x.at = at /\ x.rec = tab[t].rec /\ x.mine = tab[t].mine /\ x.seen = s
  <2>1. To(t, at) \in TabState /\ To(t, at).at = at /\ To(t, at).rec = tab[t].rec /\ To(t, at).mine = tab[t].mine
    BY <1>0, <1>w, Moved
  <2> QED
    BY <2>1 DEF TabState
<1>3. TabOf(t, x)
  OBVIOUS
<1> HIDE DEF x
<1> QED
  BY <1>w, <1>1, <1>3, TabOnly

\* A tab that stops: PostUncertain, SaveFails and RequestFails.
LEMMA StopStep ==
  ASSUME BrowserInv, NEW t \in Tabs, PostUncertain(t) \/ SaveFails(t) \/ RequestFails(t)
  PROVE  BrowserInv'
<1>1. TypeOK
  BY Parts
<1>2. inputs' \in 0..MaxInputs /\ faults' \in 0..MaxFaults
  BY <1>1, Bounds DEF PostUncertain, SaveFails, RequestFails
<1>3. PICK at \in {"idle", "failed"} : Tab(t, To(t, at))
  BY DEF PostUncertain, SaveFails, RequestFails
<1>4. at \in Places \ {"claim", "refused"}
  BY DEF Places
<1>5. TabOf(t, To(t, at))
  BY <1>3, Alone
<1> QED
  BY <1>2, <1>4, <1>5, MoveStep

\* Check and Verify only decide where to go on; what was verified is billed.
LEMMA DecideStep ==
  ASSUME BrowserInv, NEW t \in Tabs, Check(t) \/ Verify(t)
  PROVE  BrowserInv'
<1>1. TypeOK
  BY Parts
<1>2. inputs' \in 0..MaxInputs /\ faults' \in 0..MaxFaults
  BY <1>1, Bounds DEF Check, Verify
<1>3. PICK at \in {"resend", "fetch", "poll", "failed", "save"} :
         Tab(t, To(t, at)) /\ (at = "save" => tab[t].at = "verify")
  <2>1. CASE Check(t)
    <3> DEFINE s == tab[t].seen
               resend == /\ pend.key = tab[t].rec /\ pend.cancel
                         /\ ~s.committed /\ ~s.cancelReq
                         /\ s.is \in {"queued", "running", "completed"}
               at == IF resend THEN "resend"
                     ELSE IF s.is = "completed" THEN "fetch"
                     ELSE IF s.is \in {"queued", "running", "cancelling", "cancelled"} THEN "poll"
                     ELSE "failed"
    <3>1. Tab(t, To(t, at))
      BY <2>1 DEF Check
    <3>2. at \in {"resend", "fetch", "poll", "failed"}
      OBVIOUS
    <3> HIDE DEF at
    <3> QED
      BY <3>1, <3>2
  <2>2. CASE Verify(t)
    <3> DEFINE at == IF pend.key # tab[t].rec THEN "failed"
                     ELSE IF pend.cancel /\ ~tab[t].seen.committed THEN "resend" ELSE "save"
    <3>1. Tab(t, To(t, at)) /\ tab[t].at = "verify"
      BY <2>2 DEF Verify
    <3>2. at \in {"resend", "failed", "save"}
      OBVIOUS
    <3> HIDE DEF at
    <3> QED
      BY <3>1, <3>2
  <2> QED
    BY <2>1, <2>2
<1>4. at \in Places \ {"claim", "refused"} /\ at \notin {"ack", "forget"}
  BY DEF Places
<1>5. TabOf(t, To(t, at))
  BY <1>3, Alone
<1>6. tab[t].at \notin {"idle", "failed"}
  BY DEF Check, Verify
<1>7. at \in {"verify", "save", "ack", "forget"} => Billed(tab[t].rec)
  BY <1>3, AtWork
<1> QED
  BY <1>2, <1>4, <1>5, <1>6, <1>7, MoveStep

\* GET of the status.
LEMMA PollStep ==
  ASSUME BrowserInv, NEW t \in Tabs, Poll(t)
  PROVE  BrowserInv'
<1> DEFINE j == tab[t].rec
           e == job[j]
<1>1. TypeOK /\ j \in Jobs /\ tab[t].at = "poll"
  BY AtWork DEF Poll
<1>2. inputs' \in 0..MaxInputs /\ faults' \in 0..MaxFaults
  BY <1>1, Bounds DEF Poll
<1>3. e \in Status
  BY <1>1, JobFacts
<1>4. \/ Tab(t, [To(t, "failed") EXCEPT !.seen = Unavailable(j, "missing")])
      \/ Tab(t, [To(t, "failed") EXCEPT !.seen = Unavailable(j, "reconnecting")])
      \/ Tab(t, [To(t, "idle") EXCEPT !.seen = Shown(j, e)])
      \/ Tab(t, [To(t, "check") EXCEPT !.seen = Shown(j, e)])
  BY DEF Poll
<1> HIDE DEF j, e
<1>5. PICK at \in {"idle", "failed", "check"}, s \in QueueStatus :
         Tab(t, [To(t, at) EXCEPT !.seen = s]) /\ s.of = j
  BY <1>1, <1>3, <1>4, StatusFacts
<1>6. TabOf(t, [To(t, at) EXCEPT !.seen = s])
  BY <1>5, Alone
<1> QED
  BY <1>1, <1>2, <1>5, <1>6, TellStep DEF j

\* GET of the result: what is completed was billed.
LEMMA FetchStep ==
  ASSUME BrowserInv, NEW t \in Tabs, Fetch(t)
  PROVE  BrowserInv'
<1> DEFINE j == tab[t].rec
<1>1. TypeOK /\ j \in Jobs /\ tab[t].at = "fetch"
  BY AtWork DEF Fetch
<1>2. inputs' \in 0..MaxInputs /\ faults' \in 0..MaxFaults
  BY <1>1, Bounds DEF Fetch
<1>3. CASE job[j].state = "completed"
  <2>1. TabOf(t, To(t, "verify"))
    BY <1>3, Alone DEF Fetch
  <2>2. Billed(j)
    BY <1>1, <1>3, JobFacts DEF JobOK, Billed
  <2>3. "verify" \in Places \ {"claim", "refused"}
    BY DEF Places
  <2> QED
    BY <1>1, <1>2, <2>1, <2>2, <2>3, MoveStep
<1>4. CASE job[j].state # "completed"
  <2>1. \/ Tab(t, [To(t, "failed") EXCEPT !.seen = Unavailable(j, "missing")])
        \/ Tab(t, [To(t, "failed") EXCEPT !.seen = Unavailable(j, "reconnecting")])
    BY <1>4 DEF Fetch
  <2> HIDE DEF j
  <2>2. PICK s \in QueueStatus : Tab(t, [To(t, "failed") EXCEPT !.seen = s]) /\ s.of = j
    BY <1>1, <2>1, StatusFacts
  <2>3. TabOf(t, [To(t, "failed") EXCEPT !.seen = s])
    BY <2>2, Alone
  <2> QED
    BY <1>1, <1>2, <2>2, <2>3, TellStep DEF j
<1> QED
  BY <1>3, <1>4

\* The loop sends a recorded cancellation again.
LEMMA ResendStep ==
  ASSUME BrowserInv, NEW t \in Tabs, Resend(t)
  PROVE  BrowserInv'
<1> DEFINE j == tab[t].rec
<1>1. TypeOK /\ j \in Jobs /\ tab[t].at = "resend"
  BY AtWork DEF Resend
<1>2. inputs' \in 0..MaxInputs /\ faults' \in 0..MaxFaults
  BY <1>1, Bounds DEF Resend
<1>3. CASE Held(job[j])
  <2>1. TabOf(t, To(t, "poll"))
    BY <1>1, <1>3, CancelKeeps DEF Resend, TabOf
  <2>2. "poll" \in Places \ {"claim", "refused"}
    BY DEF Places
  <2> QED
    BY <1>1, <1>2, <2>1, <2>2, MoveStep
<1>4. CASE ~Held(job[j])
  <2>1. \/ TabOf(t, [To(t, "failed") EXCEPT !.seen = Unavailable(j, "missing")])
        \/ TabOf(t, [To(t, "failed") EXCEPT !.seen = Unavailable(j, "reconnecting")])
    BY <1>4, ServerIdle DEF Resend, TabOf
  <2> HIDE DEF j
  <2>2. PICK s \in QueueStatus : TabOf(t, [To(t, "failed") EXCEPT !.seen = s]) /\ s.of = j
    BY <1>1, <2>1, StatusFacts
  <2> QED
    BY <1>1, <1>2, <2>2, TellStep DEF j
<1> QED
  BY <1>3, <1>4

\* The acknowledgement follows the history; its answer may be lost.
LEMMA AckStep ==
  ASSUME BrowserInv, NEW t \in Tabs, SendAck(t) \/ AckAnswerLost(t)
  PROVE  BrowserInv'
<1> DEFINE j == tab[t].rec
<1>1. TypeOK /\ j \in Jobs /\ tab[t].at = "ack" /\ j \in Put /\ Billed(j)
  BY AtWork DEF SendAck, AckAnswerLost
<1>2. inputs' \in 0..MaxInputs /\ faults' \in 0..MaxFaults
  BY <1>1, Bounds DEF SendAck, AckAnswerLost
<1>3. ServerKeeps
  <2>1. Ack(j) \/ UNCHANGED job
    BY DEF SendAck, AckAnswerLost
  <2> QED
    BY <1>1, <2>1, WorkKeeps, ServerIdle
<1>4. PICK at \in {"forget", "idle"} : TabOf(t, To(t, at)) /\ (at = "forget" => Ack(j))
  BY <1>3 DEF SendAck, AckAnswerLost, TabOf
<1>6. Ack(j) => Over(job'[j])
  <2>1. job \in [Jobs -> Status]
    BY <1>1 DEF TypeOK
  <2> QED
    BY <1>1, <2>1 DEF Ack, Becomes, Over, Status
<1>5. at \in Places \ {"claim", "refused"}
  BY DEF Places
<1> QED
  BY <1>1, <1>2, <1>4, <1>5, <1>6, MoveStep

\* The image enters the history: it is billed.
LEMMA SaveStep ==
  ASSUME BrowserInv, NEW t \in Tabs, Save(t)
  PROVE  BrowserInv'
<1> DEFINE j == tab[t].rec
           wanted == pend.key = tab[t].rec /\ (pend.cancel => tab[t].seen.committed)
           at == IF wanted THEN "ack" ELSE "failed"
           x == To(t, at)
<1>1. TypeOK /\ KeysOK /\ TabOK(t) /\ j \in Jobs /\ Billed(j)
  BY AtWork, Parts DEF Save
<1>2. inputs' \in 0..MaxInputs /\ faults' \in 0..MaxFaults
  BY <1>1, Bounds DEF Save, Keep
<1>3. /\ tab' = [tab EXCEPT ![t] = x] /\ used' = used /\ posts' = posts /\ pend' = pend /\ gaveUp' = gaveUp
      /\ job' = job /\ cxl' = cxl
  BY DEF Save
<1>p. Put' = IF wanted THEN Put \union {j} ELSE Put
  <2>1. CASE wanted
    <3>1. Keep(hist \union {j})
      BY <2>1 DEF Save
    <3> QED
      BY <2>1, <3>1 DEF Keep, Put
  <2>2. CASE ~wanted
    BY <2>2 DEF Save, Put
  <2> QED
    BY <2>1, <2>2
<1>4. ServerKeeps
  BY <1>3, ServerIdle
<1>5. at \in {"ack", "failed"} /\ (at = "ack" => wanted)
  OBVIOUS
<1>6. Put \subseteq Put' /\ Put' \subseteq Jobs /\ (\A k \in Put' \ Put : k = j) /\ (wanted => j \in Put')
  BY <1>1, <1>p DEF TypeOK, Put
<1> HIDE DEF wanted, at
<1>7. x \in TabState /\ x.at = at /\ x.rec = j /\ x.mine = tab[t].mine /\ x.seen = tab[t].seen
  <2>1. at \in Places
    BY <1>5 DEF Places
  <2> QED
    BY <1>1, <2>1, Moved
<1>8. \A k \in Put' \ Put : Billed(k)'
  BY <1>1, <1>3, <1>6 DEF Billed
<1>9. cxl[t] \in Cancellation /\ cxl' = [cxl EXCEPT ![t] = cxl[t]]
  BY <1>1, <1>3, TabFacts DEF TypeOK
<1>10. /\ pend \in Record /\ gaveUp \subseteq [key : used, shown : States \union {"missing", "reconnecting"}]
       /\ NoJob \notin Jobs
  BY <1>1, BrowserConstants DEF TypeOK
<1>11. (pend.key = NoJob => ~pend.cancel) /\ (cxl[t].at # "idle" => cxl[t].key # NoJob /\ cxl[t].id # NoJob)
       /\ (x.seen.is \in {"queued", "running", "cancelling"} => x.seen.of # NoJob)
  BY <1>1, <1>7 DEF KeysOK, TabOK
<1> HIDE DEF x
<1>12. x.at \notin {"claim", "refused"} /\ x.rec # NoJob /\ (x.at \in {"ack", "forget"} => x.rec \in Put')
       /\ x.at # "forget"
  BY <1>1, <1>5, <1>6, <1>7, <1>10
<1>13. Billed(x.rec)
  BY <1>1, <1>7
<1>14. x.mine \in {tab[t].mine, pend.key, NoJob} /\ x.rec \in {tab[t].rec, tab[t].mine, pend.key, NoJob}
  BY <1>7
<1> QED
  BY <1>2, <1>3, <1>4, <1>6, <1>7, <1>8, <1>9, <1>10, <1>11, <1>12, <1>13, <1>14, OneTab

\* A tab takes up the record: after an error, and with "Reconnect".
LEMMA TakeUpStep ==
  ASSUME BrowserInv, NEW t \in Tabs, Recover(t) \/ Reconnect(t)
  PROVE  BrowserInv'
<1>1. TypeOK /\ TabOK(t) /\ tab[t].seen \in QueueStatus /\ tab[t] \in TabState
      /\ pend.key \in Jobs \union {NoJob} /\ tab[t].mine \in Jobs \union {NoJob}
  <2>1. TypeOK /\ TabOK(t)
    BY Parts
  <2> QED
    BY <2>1, TabFacts DEF TypeOK, Record
<1>2. inputs' \in 0..MaxInputs /\ faults' \in 0..MaxFaults
  BY <1>1, Bounds DEF Recover, Reconnect
<1>3. CASE Recover(t)
  <2> DEFINE x == [To(t, "idle") EXCEPT !.mine = pend.key]
  <2>1. TabOf(t, x)
    BY <1>3, Alone DEF Recover
  <2>2. "idle" \in Places
    BY DEF Places
  <2>3. x \in TabState /\ x.at = "idle" /\ x.rec = tab[t].rec /\ x.mine = pend.key /\ x.seen = tab[t].seen
    BY <1>1, <2>2 DEF To, TabState
  <2> HIDE DEF x
  <2>4. x.seen.is \in {"queued", "running", "cancelling"} => x.seen.of # NoJob
    BY <1>1, <2>3 DEF TabOK
  <2> QED
    BY <1>2, <2>1, <2>3, <2>4, TabOnly
<1>4. CASE Reconnect(t)
  <2> DEFINE x == [To(t, "poll") EXCEPT !.rec = tab[t].mine]
  <2>1. TabOf(t, x) /\ tab[t].mine # NoJob
    BY <1>4, Alone DEF Reconnect
  <2>2. "poll" \in Places
    BY DEF Places
  <2>3. x \in TabState /\ x.at = "poll" /\ x.rec = tab[t].mine /\ x.mine = tab[t].mine /\ x.seen = tab[t].seen
    BY <1>1, <2>2 DEF To, TabState
  <2> HIDE DEF x
  <2>4. x.seen.is \in {"queued", "running", "cancelling"} => x.seen.of # NoJob
    BY <1>1, <2>3 DEF TabOK
  <2> QED
    BY <1>2, <2>1, <2>3, <2>4, TabOnly
<1> QED
  BY <1>3, <1>4

\* The record is removed if it is still this one.
LEMMA Without ==
  ASSUME BrowserInv, NEW j, pend' = RecordWithout(j)
  PROVE  /\ pend' \in Record /\ pend'.key \in {pend.key, NoJob} /\ (pend'.key = NoJob => ~pend'.cancel)
         /\ (pend.key # NoJob /\ pend'.key = NoJob => pend.key = j)
<1>1. pend \in Record /\ KeysOK
  BY Parts DEF TypeOK
<1>2. NoRecord \in Record /\ NoRecord.key = NoJob /\ NoRecord.cancel = FALSE
  BY DEF NoRecord, Record
<1>3. CASE pend.key = j
  BY <1>1, <1>2, <1>3 DEF RecordWithout
<1>4. CASE pend.key # j
  BY <1>1, <1>4 DEF RecordWithout, KeysOK
<1> QED
  BY <1>3, <1>4

\* The record of j may go.
Kept(j) == Over(job[j]) \/ (\E d \in gaveUp' : d.key = j) \/ (j \notin posts /\ job[j].state = "none")

\* A step of one tab that may remove the record, and leaves server, cancellation, history
\* and POSTs alone.
LEMMA ReleaseStep ==
  ASSUME BrowserInv, NEW t \in Tabs, NEW x \in TabState, NEW j, pend' = RecordWithout(j),
         tab' = [tab EXCEPT ![t] = x], UNCHANGED <<job, cxl, hist, cut, used, posts>>,
         gaveUp \subseteq gaveUp',
         gaveUp' \subseteq [key : used, shown : States \union {"missing", "reconnecting"}],
         inputs' \in 0..MaxInputs, faults' \in 0..MaxFaults,
         x.at \in {"idle", "failed"}, x.rec = tab[t].rec, x.mine \in {tab[t].mine, NoJob},
         x.seen.is \in {"queued", "running", "cancelling"} => x.seen.of # NoJob,
         pend.key = j => Kept(j)
  PROVE  BrowserInv'
<1>1. TypeOK /\ KeysOK /\ TabOK(t)
  BY Parts
<1>2. ServerKeeps
  BY ServerIdle
<1>3. /\ pend' \in Record /\ pend'.key \in {pend.key, NoJob} /\ (pend'.key = NoJob => ~pend'.cancel)
      /\ (pend.key # NoJob /\ pend'.key = NoJob => pend.key = j)
  BY Without
<1>4. cxl[t] \in Cancellation /\ cxl' = [cxl EXCEPT ![t] = cxl[t]] /\ Put' \subseteq Jobs
  BY <1>1, TabFacts DEF TypeOK, Put
<1>5. cxl[t].at # "idle" => cxl[t].key # NoJob /\ cxl[t].id # NoJob
  BY <1>1 DEF TabOK
<1>6. used' = used /\ posts' = posts /\ Put' = Put
  BY DEF Put
<1>7. pend.key # NoJob /\ pend'.key = NoJob =>
             \/ Over(job'[pend.key]) \/ \E d \in gaveUp' : d.key = pend.key
             \/ pend.key \notin posts /\ job[pend.key].state = "none"
  BY <1>3, <1>6 DEF Kept
<1>8. x.rec \in {tab[t].rec, tab[t].mine, pend.key, NoJob} /\ x.mine \in {tab[t].mine, pend.key, NoJob}
  OBVIOUS
<1> QED
  BY <1>2, <1>3, <1>4, <1>5, <1>6, <1>7, <1>8, OneTab

\* A refusal is certain, so that the record may go.
LEMMA DropStep ==
  ASSUME BrowserInv, NEW t \in Tabs, DropRecord(t)
  PROVE  BrowserInv'
<1> DEFINE j == tab[t].rec
           x == To(t, "failed")
<1>1. TypeOK /\ TabOK(t) /\ tab[t].at = "refused"
  BY Parts DEF DropRecord
<1>2. inputs' \in 0..MaxInputs /\ faults' \in 0..MaxFaults
  BY <1>1, Bounds DEF DropRecord
<1>3. /\ pend' = RecordWithout(j) /\ tab' = [tab EXCEPT ![t] = x]
      /\ UNCHANGED <<job, cxl, hist, cut, used, posts>> /\ gaveUp' = gaveUp
  BY DEF DropRecord
<1>4. x \in TabState /\ x.at = "failed" /\ x.rec = tab[t].rec /\ x.mine = tab[t].mine /\ x.seen = tab[t].seen
  BY <1>1, Moved DEF Places
<1>5. Kept(j)
  BY <1>1 DEF TabOK, Kept
<1>6. gaveUp \subseteq [key : used, shown : States \union {"missing", "reconnecting"}]
  BY <1>1 DEF TypeOK
<1>7. x.seen.is \in {"queued", "running", "cancelling"} => x.seen.of # NoJob
  BY <1>1, <1>4 DEF TabOK
<1> HIDE DEF x, j
<1> QED
  BY <1>2, <1>3, <1>4, <1>5, <1>6, <1>7, ReleaseStep

\* A tab that is ready for another job.
LEMMA Cleared ==
  ASSUME TypeOK, NEW t \in Tabs, NEW x, x = [To(t, "idle") EXCEPT !.mine = NoJob, !.seen = Nothing]
  PROVE  x \in TabState /\ x.at = "idle" /\ x.rec = tab[t].rec /\ x.mine = NoJob /\ x.seen = Nothing
<1>1. tab[t] \in TabState /\ Nothing \in QueueStatus /\ "idle" \in Places
  BY TabFacts, StatusFacts DEF Places
<1> QED
  BY <1>1 DEF To, TabState

\* The server has let go of the image when the record goes.
LEMMA ForgetStep ==
  ASSUME BrowserInv, NEW t \in Tabs, ForgetRecord(t)
  PROVE  BrowserInv'
<1>1. TypeOK /\ TabOK(t) /\ tab[t].at = "forget"
  BY Parts DEF ForgetRecord
<1>2. inputs' \in 0..MaxInputs /\ faults' \in 0..MaxFaults
  BY <1>1, Bounds DEF ForgetRecord
<1> DEFINE j == tab[t].rec
           x == [To(t, "idle") EXCEPT !.mine = NoJob, !.seen = Nothing]
<1>3. /\ pend' = RecordWithout(j) /\ tab' = [tab EXCEPT ![t] = x]
      /\ UNCHANGED <<job, cxl, hist, cut, used, posts>> /\ gaveUp' = gaveUp
  BY DEF ForgetRecord
<1>e. x = [To(t, "idle") EXCEPT !.mine = NoJob, !.seen = Nothing]
  OBVIOUS
<1> HIDE DEF x
<1>4. x \in TabState /\ x.at = "idle" /\ x.rec = tab[t].rec /\ x.mine = NoJob /\ x.seen = Nothing
  BY <1>1, <1>e, Cleared
<1>5. Over(job[j])
  BY <1>1 DEF TabOK
<1>6. gaveUp \subseteq [key : used, shown : States \union {"missing", "reconnecting"}]
  BY <1>1 DEF TypeOK
<1> HIDE DEF j
<1>7. x.at \in {"idle", "failed"} /\ x.mine \in {tab[t].mine, NoJob}
      /\ (x.seen.is \in {"queued", "running", "cancelling"} => x.seen.of # NoJob)
  BY <1>4, StatusFacts
<1>8. x \in TabState /\ x.rec = tab[t].rec /\ gaveUp \subseteq gaveUp'
      /\ gaveUp' \subseteq [key : used, shown : States \union {"missing", "reconnecting"}]
  BY <1>3, <1>4, <1>6
<1>9. Kept(j)
  BY <1>5 DEF Kept
<1>10. UNCHANGED <<job, cxl, hist, cut, used, posts>> /\ pend' = RecordWithout(j) /\ tab' = [tab EXCEPT ![t] = x]
  BY <1>3
<1> QED
  BY <1>2, <1>7, <1>8, <1>9, <1>10, ReleaseStep

\* The user gives up what the record names.
LEMMA RestoreStep ==
  ASSUME BrowserInv, NEW t \in Tabs, Restore(t)
  PROVE  BrowserInv'
<1>1. TypeOK /\ TabOK(t) /\ tab[t].mine # NoJob
  BY Parts DEF Restore
<1>2. inputs' \in 0..MaxInputs /\ faults' \in 0..MaxFaults
  BY <1>1, Bounds DEF Restore
<1> DEFINE j == tab[t].mine
           s == tab[t].seen
           d == [key |-> j, shown |-> s.is]
           x == [To(t, "idle") EXCEPT !.mine = NoJob, !.seen = Nothing]
<1>3. /\ pend' = RecordWithout(j) /\ tab' = [tab EXCEPT ![t] = x]
      /\ UNCHANGED <<job, cxl, hist, cut, used, posts>>
      /\ gaveUp' = IF pend.key # j THEN gaveUp ELSE gaveUp \union {d}
  BY DEF Restore
<1>e. x = [To(t, "idle") EXCEPT !.mine = NoJob, !.seen = Nothing]
  OBVIOUS
<1> HIDE DEF x
<1>4. x \in TabState /\ x.at = "idle" /\ x.rec = tab[t].rec /\ x.mine = NoJob /\ x.seen = Nothing
  BY <1>1, <1>e, Cleared
<1>5. j \in used /\ s.is \in States \union {"missing", "reconnecting"}
  BY <1>1, TabFacts DEF TabOK, QueueStatus
<1>6. d \in [key : used, shown : States \union {"missing", "reconnecting"}] /\ d.key = j
  BY <1>5
<1> HIDE DEF d, s, j
<1>7. /\ gaveUp \subseteq gaveUp' /\ gaveUp' \subseteq [key : used, shown : States \union {"missing", "reconnecting"}]
      /\ (pend.key = j => d \in gaveUp')
  BY <1>1, <1>3, <1>6 DEF TypeOK
<1>8. x.at \in {"idle", "failed"} /\ x.mine \in {tab[t].mine, NoJob}
      /\ (x.seen.is \in {"queued", "running", "cancelling"} => x.seen.of # NoJob)
  BY <1>4, StatusFacts
<1>9. x \in TabState /\ x.rec = tab[t].rec /\ pend' = RecordWithout(j) /\ tab' = [tab EXCEPT ![t] = x]
      /\ UNCHANGED <<job, cxl, hist, cut, used, posts>>
  BY <1>3, <1>4
<1>10. pend.key = j => Kept(j)
  BY <1>6, <1>7 DEF Kept
<1> QED
  BY <1>2, <1>7, <1>8, <1>9, <1>10, ReleaseStep

\* A step of the cancellation mutation.
LEMMA CancellationStep ==
  ASSUME BrowserInv, NEW t \in Tabs, NEW c \in Cancellation, cxl' = [cxl EXCEPT ![t] = c],
         UNCHANGED <<tab, hist, cut, used, posts, gaveUp>>, ServerKeeps,
         pend' \in Record, pend'.key = pend.key, pend'.key = NoJob => ~pend'.cancel,
         inputs' \in 0..MaxInputs, faults' \in 0..MaxFaults,
         c.at # "idle" => c.key # NoJob /\ c.id # NoJob
  PROVE  BrowserInv'
<1>1. TypeOK
  BY Parts
<1>2. tab[t] \in TabState /\ tab' = [tab EXCEPT ![t] = tab[t]] /\ Put \subseteq Jobs
      /\ gaveUp \subseteq [key : used, shown : States \union {"missing", "reconnecting"}]
  BY <1>1, TabFacts DEF TypeOK, Put
<1>3. used' = used /\ posts' = posts /\ Put' = Put /\ gaveUp' = gaveUp
  BY DEF Put
<1> QED
  BY <1>2, <1>3, OneTab

\* The user cancels, the intention is written, and then it is sent.
LEMMA CancelStep ==
  ASSUME BrowserInv, NEW t \in Tabs, PressCancel(t) \/ MarkCancel(t) \/ SendCancel(t)
  PROVE  BrowserInv'
<1>1. /\ TypeOK /\ TabOK(t) /\ KeysOK /\ NoJob \notin Jobs /\ pend \in Record /\ cxl[t] \in Cancellation
      /\ (pend.key = NoJob => ~pend.cancel)
      /\ (cxl[t].at # "idle" => cxl[t].key # NoJob /\ cxl[t].id # NoJob)
  <2>1. TypeOK /\ TabOK(t) /\ KeysOK /\ NoJob \notin Jobs
    BY Parts
  <2> QED
    BY <2>1, TabFacts DEF TypeOK, TabOK, KeysOK
<1>2. inputs' \in 0..MaxInputs /\ faults' \in 0..MaxFaults
  BY <1>1, Bounds DEF PressCancel, MarkCancel, SendCancel, Calm
<1>3. CASE PressCancel(t)
  <2> DEFINE c == [at |-> "mark", key |-> tab[t].mine, id |-> tab[t].seen.of]
  <2>1. /\ cxl' = [cxl EXCEPT ![t] = c] /\ tab[t].mine # NoJob
        /\ UNCHANGED <<job, tab, pend, hist, cut, used, posts, gaveUp>> /\ ShownActive(tab[t].seen)
    BY <1>3 DEF PressCancel
  <2>2. tab[t].seen.of \in Jobs
    BY <2>1, AtWork DEF ShownActive
  <2>3. tab[t].mine \in Jobs \union {NoJob}
    BY <1>1, TabFacts
  <2>4. c \in Cancellation /\ c.key # NoJob /\ c.id # NoJob
    BY <1>1, <2>1, <2>2, <2>3 DEF Cancellation
  <2>5. ServerKeeps
    BY <2>1, ServerIdle
  <2> HIDE DEF c
  <2>6. pend' = pend
    BY <2>1
  <2> QED
    BY <1>1, <1>2, <2>1, <2>4, <2>5, <2>6, CancellationStep
<1>4. CASE MarkCancel(t)
  <2> DEFINE c == [cxl[t] EXCEPT !.at = "send"]
  <2>1. /\ cxl' = [cxl EXCEPT ![t] = c] /\ cxl[t].at = "mark"
        /\ UNCHANGED <<job, tab, hist, cut, used, posts, gaveUp>>
        /\ pend' = IF pend.key = cxl[t].key THEN [pend EXCEPT !.cancel = TRUE] ELSE pend
    BY <1>4 DEF MarkCancel
  <2>2. c \in Cancellation /\ c.key = cxl[t].key /\ c.id = cxl[t].id
    BY <1>1 DEF Cancellation
  <2>3. ServerKeeps
    BY <2>1, ServerIdle
  <2>4. pend' \in Record /\ pend'.key = pend.key /\ (pend'.key = NoJob => ~pend'.cancel)
    <3>1. CASE pend.key = cxl[t].key
      <4>1. [pend EXCEPT !.cancel = TRUE] \in Record /\ [pend EXCEPT !.cancel = TRUE].key = pend.key
        BY <1>1 DEF Record
      <4> QED
        BY <1>1, <2>1, <3>1, <4>1
    <3>2. CASE pend.key # cxl[t].key
      BY <1>1, <2>1, <3>2
    <3> QED
      BY <3>1, <3>2
  <2>5. c.key # NoJob /\ c.id # NoJob
    BY <1>1, <2>1, <2>2
  <2> HIDE DEF c
  <2> QED
    BY <1>2, <2>1, <2>2, <2>3, <2>4, <2>5, CancellationStep
<1>5. CASE SendCancel(t)
  <2> DEFINE i == cxl[t].id
  <2>1. /\ cxl' = [cxl EXCEPT ![t] = NoCancellation] /\ cxl[t].at = "send"
        /\ UNCHANGED <<tab, pend, hist, cut, used, posts, gaveUp>>
        /\ Cancel(i) \/ UNCHANGED job
    BY <1>5 DEF SendCancel
  <2>2. NoCancellation \in Cancellation /\ NoCancellation.at = "idle"
    BY DEF NoCancellation, Cancellation
  <2>3. i \in Jobs
    BY <1>1, <2>1, TabFacts
  <2>4. ServerKeeps
    <3> HIDE DEF i
    <3> QED
      BY <2>1, <2>3, CancelKeeps, ServerIdle
  <2>5. pend' = pend
    BY <2>1
  <2> QED
    BY <1>1, <1>2, <2>1, <2>2, <2>4, <2>5, CancellationStep
<1> QED
  BY <1>3, <1>4, <1>5

\* The page is loaded again.
LEMMA ReloadStep ==
  ASSUME BrowserInv, NEW t \in Tabs, Reload(t)
  PROVE  BrowserInv'
<1>1. /\ TypeOK /\ KeysOK /\ NoJob \notin Jobs /\ pend \in Record /\ pend.key \in Jobs \union {NoJob}
      /\ (pend.key = NoJob => ~pend.cancel) /\ pend.cancel \in BOOLEAN /\ Put \subseteq Jobs
      /\ gaveUp \subseteq [key : used, shown : States \union {"missing", "reconnecting"}]
  <2>1. TypeOK /\ KeysOK /\ NoJob \notin Jobs
    BY Parts
  <2> QED
    BY <2>1 DEF TypeOK, KeysOK, Record, Put
<1>2. inputs' \in 0..MaxInputs /\ faults' \in 0..MaxFaults
  BY <1>1, Bounds DEF Reload
<1>3. PICK x : /\ tab' = [tab EXCEPT ![t] = x]
               /\ x = IF pend = NoRecord THEN FreshTab
                      ELSE [FreshTab EXCEPT !.at = "poll", !.rec = pend.key, !.mine = pend.key]
  BY DEF Reload
<1>4. pend # NoRecord => pend.key # NoJob
  <2>1. pend = [key |-> pend.key, cancel |-> pend.cancel]
    BY <1>1 DEF Record
  <2> SUFFICES ASSUME pend.key = NoJob PROVE pend = NoRecord
    OBVIOUS
  <2>2. pend.cancel = FALSE
    BY <1>1
  <2> QED
    BY <2>1, <2>2 DEF NoRecord
<1>5. /\ x \in TabState /\ x.at \in {"idle", "poll"} /\ (x.at = "poll" => x.rec # NoJob)
      /\ x.rec \in {pend.key, NoJob} /\ x.mine \in {pend.key, NoJob} /\ x.seen = Nothing
  <2>1. Nothing \in QueueStatus
    BY StatusFacts
  <2>2. CASE pend = NoRecord
    BY <1>3, <2>1, <2>2 DEF FreshTab, TabState, Places
  <2>3. CASE pend # NoRecord
    BY <1>1, <1>3, <1>4, <2>1, <2>3 DEF FreshTab, TabState, Places
  <2> QED
    BY <2>2, <2>3
<1>6. NoCancellation \in Cancellation /\ NoCancellation.at = "idle"
  BY DEF NoCancellation, Cancellation
<1>7. ServerKeeps
  BY ServerIdle DEF Reload
<1>8. /\ used' = used /\ posts' = posts /\ Put' = Put /\ gaveUp' = gaveUp /\ pend' = pend
      /\ cxl' = [cxl EXCEPT ![t] = NoCancellation]
  BY DEF Reload, Put
<1>9. x.seen.is \in {"queued", "running", "cancelling"} => x.seen.of # NoJob
  BY <1>5, StatusFacts
<1>10. /\ x.rec \in {tab[t].rec, tab[t].mine, pend.key, NoJob} /\ x.mine \in {tab[t].mine, pend.key, NoJob}
       /\ x.at \notin {"claim", "refused", "verify", "save", "ack", "forget"}
       /\ (x.at \notin {"idle", "failed"} => x.rec # NoJob)
  BY <1>5
<1>11. x \in TabState
  BY <1>5
<1> QED
  BY <1>1, <1>2, <1>3, <1>6, <1>7, <1>8, <1>9, <1>10, <1>11, OneTab

\* A new key is drawn, or the record refuses.
LEMMA GenerateStep ==
  ASSUME BrowserInv, NEW t \in Tabs, Generate(t)
  PROVE  BrowserInv'
<1>1. /\ TypeOK /\ KeysOK /\ TabOK(t) /\ NoJob \notin Jobs /\ tab[t] \in TabState
      /\ posts \subseteq used /\ used \subseteq Jobs
  <2>1. TypeOK /\ KeysOK /\ TabOK(t) /\ NoJob \notin Jobs
    BY Parts
  <2> QED
    BY <2>1, TabFacts DEF TypeOK
<1>2. inputs' \in 0..MaxInputs /\ faults' \in 0..MaxFaults
  BY <1>1, Bounds DEF Generate
<1>3. ServerKeeps
  BY ServerIdle DEF Generate
<1>4. CASE pend # NoRecord
  <2>1. TabOf(t, To(t, "failed"))
    BY <1>3, <1>4 DEF Generate, TabOf
  <2>2. "failed" \in Places \ {"claim", "refused"}
    BY DEF Places
  <2> QED
    BY <1>2, <2>1, <2>2, MoveStep
<1>5. CASE pend = NoRecord
  <2>1. PICK j \in Jobs \ used : /\ used' = used \union {j}
                                 /\ tab' = [tab EXCEPT ![t] = [To(t, "claim") EXCEPT !.rec = j]]
    BY <1>5 DEF Generate
  <2> DEFINE x == [To(t, "claim") EXCEPT !.rec = j]
  <2>2. x \in TabState /\ x.at = "claim" /\ x.rec = j /\ x.mine = tab[t].mine /\ x.seen = tab[t].seen
    BY <1>1 DEF To, TabState, Places
  <2>3. tab' = [tab EXCEPT ![t] = x]
    BY <2>1
  <2> HIDE DEF x
  <2>4. tab' \in [Tabs -> TabState] /\ tab'[t] = x /\ \A u \in Tabs \ {t} : tab'[u] = tab[u]
    BY <1>1, <2>2, <2>3 DEF TypeOK
  <2>5. UNCHANGED <<job, cxl, pend, hist, cut, posts, gaveUp>>
    BY DEF Generate
  <2>6. TypeOK'
    <3>1. job \in [Jobs -> Status] /\ cxl \in [Tabs -> Cancellation] /\ pend \in Record /\ hist \subseteq Jobs
          /\ cut \subseteq Jobs /\ gaveUp \subseteq [key : used, shown : States \union {"missing", "reconnecting"}]
      BY <1>1 DEF TypeOK
    <3>2. used \subseteq used' /\ used' \subseteq Jobs
      BY <1>1, <2>1
    <3>3. gaveUp \subseteq [key : used', shown : States \union {"missing", "reconnecting"}]
      BY <3>1, <3>2
    <3> QED
      BY <1>1, <1>2, <2>4, <2>5, <3>1, <3>2, <3>3 DEF TypeOK
  <2>7. KeysOK'
    BY <1>1, <2>1, <2>5 DEF KeysOK
  <2>8. Recoverable' /\ ReleasedIsSaved' /\ PutIsBilled' /\ \A k \in Jobs : JobOK(job'[k])
    <3>1. Recoverable /\ ReleasedIsSaved /\ PutIsBilled /\ \A k \in Jobs : JobOK(job[k])
      BY Parts
    <3> QED
      BY <2>5, <3>1 DEF Recoverable, ReleasedIsSaved, PutIsBilled, Discarded, Put, Billed
  <2>9. Unclaimed(j, t)'
    <3>1. ASSUME NEW u \in Tabs PROVE tab[u].rec # j /\ tab[u].mine # j
      BY <1>1, Parts, TabFacts DEF TabOK
    <3>2. j \notin posts /\ job[j].state = "none" /\ pend.key # j
      BY <1>1, <1>5 DEF KeysOK, NoRecord
    <3> QED
      BY <2>2, <2>4, <2>5, <3>1, <3>2 DEF Unclaimed
  <2>10. TabOK(t)'
    <3>1. /\ x.rec # NoJob /\ x.rec \in used' /\ (x.mine # NoJob => x.mine \in used')
          /\ (x.seen.is \in {"queued", "running", "cancelling"} => x.seen.of # NoJob)
          /\ (cxl[t].at # "idle" => cxl[t].key # NoJob /\ cxl[t].id # NoJob)
      BY <1>1, <2>1, <2>2 DEF TabOK
    <3> QED
      BY <2>2, <2>4, <2>5, <2>9, <3>1 DEF TabOK
  <2>11. ASSUME NEW u \in Tabs \ {t} PROVE TabOK(u)'
    <3>1. tab'[t].mine = tab[t].mine /\ tab'[t].rec \notin used
      BY <2>2, <2>4
    <3>2. \A v \in Tabs \ {t} : tab'[v] = tab[v]
      BY <2>4
    <3>3. used \subseteq used' /\ cxl'[u] = cxl[u] /\ Put' = Put /\ posts' = posts /\ pend' = pend
      BY <2>1, <2>5 DEF Put
    <3> QED
      BY <1>3, <3>1, <3>2, <3>3, OtherTab
  <2> QED
    BY <2>6, <2>7, <2>8, <2>10, <2>11 DEF BrowserInv
<1> QED
  BY <1>4, <1>5

\* The record is claimed in one transaction, and only then the POST leaves.
LEMMA ClaimStep ==
  ASSUME BrowserInv, NEW t \in Tabs, Claim(t)
  PROVE  BrowserInv'
<1> DEFINE j == tab[t].rec
<1>1. /\ TypeOK /\ KeysOK /\ TabOK(t) /\ NoJob \notin Jobs /\ tab[t] \in TabState
      /\ posts \subseteq used /\ used \subseteq Jobs
  <2>1. TypeOK /\ KeysOK /\ TabOK(t) /\ NoJob \notin Jobs
    BY Parts
  <2> QED
    BY <2>1, TabFacts DEF TypeOK
<1>2. inputs' \in 0..MaxInputs /\ faults' \in 0..MaxFaults
  BY <1>1, Bounds DEF Claim
<1>3. ServerKeeps /\ tab[t].at = "claim" /\ UNCHANGED <<job, cxl, hist, cut, used, gaveUp>>
  BY ServerIdle DEF Claim
<1>4. CASE pend # NoRecord
  <2>1. TabOf(t, To(t, "failed"))
    BY <1>3, <1>4 DEF Claim, TabOf
  <2>2. "failed" \in Places \ {"claim", "refused"}
    BY DEF Places
  <2> QED
    BY <1>2, <2>1, <2>2, MoveStep
<1>5. CASE pend = NoRecord
  <2> DEFINE x == To(t, "post")
             r == [key |-> j, cancel |-> FALSE]
  <2>1. tab' = [tab EXCEPT ![t] = x] /\ pend' = r /\ posts' = posts \union {j}
    BY <1>5 DEF Claim
  <2>2. x \in TabState /\ x.at = "post" /\ x.rec = j /\ x.mine = tab[t].mine /\ x.seen = tab[t].seen
    BY <1>1, Moved DEF Places
  <2>3. j \in used /\ j \in Jobs /\ Unclaimed(j, t) /\ j # NoJob
    BY <1>1, <1>3 DEF TabOK
  <2>4. r \in Record /\ r.key = j /\ r.cancel = FALSE
    BY <2>3 DEF Record
  <2> HIDE DEF x, r
  <2>5. tab' \in [Tabs -> TabState] /\ tab'[t] = x /\ \A u \in Tabs \ {t} : tab'[u] = tab[u]
    BY <1>1, <2>1, <2>2 DEF TypeOK
  <2>6. TypeOK'
    BY <1>1, <1>2, <1>3, <2>1, <2>3, <2>4, <2>5 DEF TypeOK
  <2>7. KeysOK'
    BY <1>1, <1>3, <2>1, <2>3, <2>4 DEF KeysOK, Unclaimed
  <2>8. Recoverable' /\ ReleasedIsSaved' /\ PutIsBilled'
    <3>1. Put' = Put /\ gaveUp' = gaveUp /\ Put \subseteq Jobs
      BY <1>1, <1>3 DEF TypeOK, Put
    <3>2. \A k \in posts' : k \in posts \/ pend'.key = k
      BY <2>1, <2>4
    <3>3. \A k \in Jobs : pend.key # k
      BY <1>1, <1>5 DEF NoRecord
    <3> QED
      BY <1>3, <3>1, <3>2, <3>3, PromisesKept
  <2>9. \A k \in Jobs : JobOK(job'[k])
    BY <1>3, ServerFacts
  <2>10. TabOK(t)'
    <3>1. /\ (x.mine # NoJob => x.mine \in used')
          /\ (x.seen.is \in {"queued", "running", "cancelling"} => x.seen.of # NoJob)
          /\ (cxl[t].at # "idle" => cxl[t].key # NoJob /\ cxl[t].id # NoJob)
      BY <1>1, <1>3, <2>2 DEF TabOK
    <3> QED
      BY <1>3, <2>2, <2>3, <2>5, <3>1 DEF TabOK
  <2>11. ASSUME NEW u \in Tabs \ {t} PROVE TabOK(u)'
    <3>1. tab'[t].mine = tab[t].mine /\ tab'[t].rec = tab[t].rec
      BY <2>2, <2>5
    <3>2. \A v \in Tabs \ {t} : tab'[v] = tab[v]
      BY <2>5
    <3>3. used' = used /\ cxl'[u] = cxl[u] /\ Put' = Put /\ pend'.key = tab[t].rec
      BY <1>3, <2>1, <2>4 DEF Put
    <3>4. \A k \in posts' : k \in posts \/ (k = tab[t].rec /\ tab[t].at = "claim")
      BY <1>3, <2>1
    <3> QED
      BY <1>3, <3>1, <3>2, <3>3, <3>4, OtherTab
  <2> QED
    BY <2>6, <2>7, <2>8, <2>9, <2>10, <2>11 DEF BrowserInv
<1> QED
  BY <1>4, <1>5

\* A POST is handled: job j becomes e, and the tabs that wait for the answer hear of it.
LEMMA HandledStep ==
  ASSUME BrowserInv, NEW j \in posts, NEW e \in Status, posts' = posts \ {j}, Becomes(j, e),
         JobOK(e), e.state \in {"none", "queued"}, ~e.committed,
         UNCHANGED <<cxl, pend, hist, cut, used, gaveUp>>, tab' \in [Tabs -> TabState],
         inputs' \in 0..MaxInputs, faults' \in 0..MaxFaults,
         \A u \in Tabs :
            \/ tab'[u] = tab[u]
            \/ /\ tab[u].at = "post" /\ tab[u].rec = j /\ tab'[u].rec = j
               /\ tab'[u].at \in {"poll", "failed", "refused"} /\ tab'[u].mine \in {tab[u].mine, j}
               /\ tab'[u].seen = tab[u].seen /\ (tab'[u].at = "refused" => e.state = "none")
  PROVE  BrowserInv'
<1>1. /\ TypeOK /\ KeysOK /\ NoJob \notin Jobs /\ posts \subseteq used /\ used \subseteq Jobs
      /\ job \in [Jobs -> Status] /\ (\A k \in Jobs : JobOK(job[k]))
      /\ Recoverable /\ ReleasedIsSaved /\ PutIsBilled
  BY Parts DEF TypeOK
<1>2. j \in Jobs /\ j \in used /\ job[j].state = "none" /\ ~job[j].committed
  BY <1>1 DEF KeysOK, JobOK
<1>3. job' \in [Jobs -> Status] /\ job'[j] = e /\ \A k \in Jobs \ {j} : job'[k] = job[k]
  BY <1>1, <1>2 DEF Becomes
<1>4. TypeOK'
  BY <1>1, <1>3 DEF TypeOK
<1>5. KeysOK'
  BY <1>1, <1>2, <1>3 DEF KeysOK
<1>6. \A k \in Jobs : JobOK(job'[k])
  BY <1>1, <1>3
<1>7. Recoverable'
  <2> SUFFICES ASSUME NEW k \in Jobs, k \in posts' \/ Live(job'[k])
               PROVE  pend.key = k \/ Discarded(k)
    BY DEF Recoverable, Discarded
  <2>1. CASE k = j
    BY <1>1, <2>1 DEF Recoverable
  <2>2. CASE k # j
    BY <1>1, <1>3, <2>2 DEF Recoverable
  <2> QED
    BY <2>1, <2>2
<1>8. ReleasedIsSaved'
  BY <1>1, <1>3 DEF ReleasedIsSaved
<1>9. j \notin Put /\ PutIsBilled'
  <2>1. j \notin Put
    BY <1>1, <1>2 DEF PutIsBilled, Billed
  <2>2. Put' = Put /\ Put \subseteq Jobs
    BY <1>1 DEF TypeOK, Put
  <2> QED
    BY <1>1, <1>3, <2>1, <2>2 DEF PutIsBilled, Billed
<1>10. ASSUME NEW u \in Tabs PROVE TabOK(u)'
  <2> DEFINE x == tab[u]
             k == x.rec
  <2>1. TabOK(u) /\ x.rec \in Jobs \union {NoJob}
    BY <1>1, Parts, TabFacts
  <2>2. CASE tab'[u] = tab[u]
    <3>1. ASSUME x.at = "claim" PROVE Unclaimed(x.rec, u)'
      <4>1. Unclaimed(k, u) /\ k \in Jobs
        BY <2>1, <3>1 DEF TabOK
      <4>2. k # j
        BY <4>1 DEF Unclaimed
      <4>3. (\A v \in Tabs : tab'[v].mine # k) /\ \A v \in Tabs \ {u} : tab'[v].rec # k
        BY <4>1, <4>2 DEF Unclaimed
      <4>4. k \notin posts' /\ job'[k].state = "none" /\ pend'.key # k
        BY <1>3, <4>1, <4>2 DEF Unclaimed
      <4>5. tab'[u].rec = k
        BY <2>2
      <4> QED
        BY <4>3, <4>4, <4>5 DEF Unclaimed
    <3>2. x.at = "refused" => k \notin posts' /\ job'[k].state = "none"
      BY <1>3, <2>1 DEF TabOK
    <3>3. x.at \in {"verify", "save", "ack", "forget"} => job'[k].committed /\ ~job'[k].cancelReq
      BY <1>2, <1>3, <2>1 DEF TabOK, Billed
    <3>4. x.at \in {"ack", "forget"} => k \in Put'
      BY <2>1 DEF TabOK, Put
    <3>5. x.at = "forget" => Over(job'[k])
      BY <1>2, <1>3, <2>1 DEF TabOK, Over
    <3> QED
      BY <2>1, <2>2, <3>1, <3>2, <3>3, <3>4, <3>5 DEF TabOK, Billed
  <2>3. CASE /\ tab[u].at = "post" /\ tab[u].rec = j /\ tab'[u].rec = j
             /\ tab'[u].at \in {"poll", "failed", "refused"} /\ tab'[u].mine \in {tab[u].mine, j}
             /\ tab'[u].seen = tab[u].seen /\ (tab'[u].at = "refused" => e.state = "none")
    BY <1>1, <1>2, <1>3, <2>1, <2>3 DEF TabOK
  <2> QED
    BY <2>2, <2>3
<1> QED
  BY <1>4, <1>5, <1>6, <1>7, <1>8, <1>9, <1>10 DEF BrowserInv

\* The answer reaches the tabs that wait for it, or is lost.
LEMMA AnswerFacts ==
  ASSUME BrowserInv, NEW j \in Jobs, NEW at \in {"poll", "refused"}, Answer(j, at)
  PROVE  /\ tab' \in [Tabs -> TabState] /\ inputs' \in 0..MaxInputs /\ faults' \in 0..MaxFaults
         /\ \A u \in Tabs :
               \/ tab'[u] = tab[u]
               \/ /\ tab[u].at = "post" /\ tab[u].rec = j /\ tab'[u].rec = j
                  /\ tab'[u].at \in {at, "failed"} /\ tab'[u].mine \in {tab[u].mine, j}
                  /\ tab'[u].seen = tab[u].seen
<1>1. TypeOK
  BY Parts
<1>2. inputs' \in 0..MaxInputs /\ faults' \in 0..MaxFaults
  BY <1>1, Bounds DEF Answer
<1>3. tab' = [u \in Tabs |-> tab'[u]]
  BY DEF Answer
<1>4. ASSUME NEW u \in Tabs
      PROVE  /\ tab'[u] \in TabState
             /\ \/ tab'[u] = tab[u]
                \/ /\ tab[u].at = "post" /\ tab[u].rec = j /\ tab'[u].rec = j
                   /\ tab'[u].at \in {at, "failed"} /\ tab'[u].mine \in {tab[u].mine, j}
                   /\ tab'[u].seen = tab[u].seen
  <2>1. tab[u] \in TabState
    BY <1>1, TabFacts
  <2> DEFINE x == [tab[u] EXCEPT !.at = at, !.mine = IF at = "poll" THEN j ELSE @]
             y == To(u, "failed")
  <2>2. at \in Places /\ "failed" \in Places
    BY DEF Places
  <2>3. x \in TabState /\ x.at = at /\ x.rec = tab[u].rec /\ x.mine \in {tab[u].mine, j} /\ x.seen = tab[u].seen
    BY <2>1, <2>2 DEF TabState
  <2>4. y \in TabState /\ y.at = "failed" /\ y.rec = tab[u].rec /\ y.mine = tab[u].mine /\ y.seen = tab[u].seen
    BY <1>1, <2>2, Moved
  <2>5. tab'[u] = tab[u] \/ (tab[u].at = "post" /\ tab[u].rec = j /\ tab'[u] \in {x, y})
    BY DEF Answer
  <2> HIDE DEF x, y
  <2> QED
    BY <2>1, <2>3, <2>4, <2>5
<1> QED
  BY <1>2, <1>3, <1>4

\* The server admits a job or refuses it.
LEMMA PostStep ==
  ASSUME BrowserInv, NEW j \in Jobs, PostAdmitted(j) \/ PostRefused(j)
  PROVE  BrowserInv'
<1>1. TypeOK /\ KeysOK /\ j \in posts
  BY Parts DEF PostAdmitted, PostRefused
<1>2. job[j] \in Status /\ JobOK(job[j]) /\ job[j].state = "none" /\ ~job[j].committed /\ job \in [Jobs -> Status]
  BY <1>1, JobFacts DEF KeysOK, JobOK, TypeOK
<1>3. CASE PostRefused(j)
  <2>1. posts' = posts \ {j} /\ UNCHANGED <<job, cxl, pend, hist, cut, used, gaveUp>> /\ Answer(j, "refused")
    BY <1>3 DEF PostRefused
  <2>2. Becomes(j, job[j])
    BY <1>2, <2>1 DEF Becomes
  <2>3. /\ tab' \in [Tabs -> TabState] /\ inputs' \in 0..MaxInputs /\ faults' \in 0..MaxFaults
        /\ \A u \in Tabs :
               \/ tab'[u] = tab[u]
               \/ /\ tab[u].at = "post" /\ tab[u].rec = j /\ tab'[u].rec = j
                  /\ tab'[u].at \in {"refused", "failed"} /\ tab'[u].mine \in {tab[u].mine, j}
                  /\ tab'[u].seen = tab[u].seen
    BY <2>1, AnswerFacts
  <2> QED
    BY <1>1, <1>2, <2>1, <2>2, <2>3, HandledStep
<1>4. CASE PostAdmitted(j)
  <2>1. posts' = posts \ {j} /\ UNCHANGED <<cxl, pend, hist, cut, used, gaveUp>> /\ Answer(j, "poll")
        /\ Becomes(j, Queued(Me))
    BY <1>4 DEF PostAdmitted, Submit
  <2>2. Queued(Me) \in Status /\ Queued(Me).state = "queued" /\ ~Queued(Me).committed /\ ~Queued(Me).active
    <3>1. Me \in Accounts
      <4>1. Accounts # {}
        BY FS_EmptySet, BrowserConstants
      <4> QED
        BY <4>1 DEF Me
    <3> QED
      BY <3>1, StateFacts DEF Queued, NotSubmitted, Status
  <2>3. JobOK(Queued(Me))
    BY <2>2 DEF JobOK
  <2>4. /\ tab' \in [Tabs -> TabState] /\ inputs' \in 0..MaxInputs /\ faults' \in 0..MaxFaults
        /\ \A u \in Tabs :
               \/ tab'[u] = tab[u]
               \/ /\ tab[u].at = "post" /\ tab[u].rec = j /\ tab'[u].rec = j
                  /\ tab'[u].at \in {"poll", "failed"} /\ tab'[u].mine \in {tab[u].mine, j}
                  /\ tab'[u].seen = tab[u].seen
    BY <2>1, AnswerFacts
  <2> QED
    BY <1>1, <2>1, <2>2, <2>3, <2>4, HandledStep
<1> QED
  BY <1>3, <1>4

\* The server on its own.
LEMMA ServerStep ==
  ASSUME BrowserInv, ServerKeeps, UNCHANGED <<tab, cxl, pend, hist, cut, used, posts, gaveUp>>,
         inputs' \in 0..MaxInputs, faults' \in 0..MaxFaults
  PROVE  BrowserInv'
<1>1. TypeOK /\ KeysOK /\ NoJob \notin Jobs /\ Put \subseteq Jobs /\ posts \subseteq Jobs /\ Put' = Put
  BY Parts DEF TypeOK, Put
<1>2. TypeOK'
  BY <1>1 DEF TypeOK, ServerKeeps
<1>3. KeysOK' /\ \A j \in Jobs : JobOK(job'[j])
  BY <1>1, ServerFacts DEF KeysOK
<1>4. Recoverable' /\ ReleasedIsSaved' /\ PutIsBilled'
  BY <1>1, PromisesKept
<1>5. ASSUME NEW u \in Tabs PROVE TabOK(u)'
  <2> DEFINE k == tab[u].rec
  <2>1. TabOK(u) /\ k \in Jobs \union {NoJob}
    BY <1>1, Parts, TabFacts
  <2>2. ASSUME tab[u].at = "claim" PROVE Unclaimed(tab[u].rec, u)'
    <3>1. Unclaimed(k, u) /\ k \in Jobs
      BY <2>1, <2>2 DEF TabOK
    <3>2. job'[k].state = "none"
      BY <3>1, ServerFacts DEF Unclaimed
    <3> QED
      BY <3>1, <3>2 DEF Unclaimed
  <2>3. tab[u].at = "refused" => k \notin posts' /\ job'[k].state = "none"
    BY <2>1, ServerFacts DEF TabOK
  <2>4. tab[u].at \in {"verify", "save", "ack", "forget"} => job'[k].committed /\ ~job'[k].cancelReq
    BY <2>1 DEF TabOK, Billed, ServerKeeps, Later
  <2>5. tab[u].at = "forget" => Over(job'[k])
    BY <2>1, ServerFacts DEF TabOK
  <2> QED
    BY <1>1, <2>1, <2>2, <2>3, <2>4, <2>5 DEF TabOK, Billed
<1> QED
  BY <1>2, <1>3, <1>4, <1>5 DEF BrowserInv

\* What leaves the history was put there.
LEMMA DeleteStep ==
  ASSUME BrowserInv, NEW t \in Tabs, Delete(t)
  PROVE  BrowserInv'
<1>1. /\ TypeOK /\ KeysOK /\ Recoverable /\ ReleasedIsSaved /\ PutIsBilled
      /\ (\A j \in Jobs : JobOK(job[j])) /\ \A u \in Tabs : TabOK(u)
  BY Parts
<1>2. UNCHANGED <<job, tab, cxl, pend, used, posts, gaveUp>>
  BY DEF Delete
<1>3. inputs' \in 0..MaxInputs /\ faults' \in 0..MaxFaults
  BY <1>1, Bounds DEF Delete
<1>4. Put' = Put /\ hist' \subseteq Jobs /\ cut' \subseteq Jobs
  BY <1>1 DEF Delete, Put, TypeOK
<1>5. TypeOK'
  BY <1>1, <1>2, <1>3, <1>4 DEF TypeOK
<1>6. KeysOK' /\ Recoverable' /\ PutIsBilled' /\ \A j \in Jobs : JobOK(job'[j])
  BY <1>1, <1>2, <1>4 DEF KeysOK, Recoverable, Discarded, PutIsBilled, Billed
<1>7. ReleasedIsSaved'
  BY <1>1, <1>2, <1>4 DEF ReleasedIsSaved, Put
<1>8. ASSUME NEW u \in Tabs PROVE TabOK(u)'
  BY <1>1, <1>2, <1>4 DEF TabOK, Unclaimed, Billed
<1> QED
  BY <1>5, <1>6, <1>7, <1>8 DEF BrowserInv

(***************************************************************************)
(* The invariant is inductive.                                             *)
(***************************************************************************)

\* Nothing was submitted, drawn or saved yet.
LEMMA BrowserInvInit == InitBrowser => BrowserInv
<1> SUFFICES ASSUME InitBrowser PROVE BrowserInv
  OBVIOUS
<1>1. NotSubmitted \in Status /\ NotSubmitted.state = "none" /\ ~NotSubmitted.active /\ ~NotSubmitted.committed
  <2>1. (CHOOSE a \in Accounts : TRUE) \in Accounts
    <3>1. Accounts # {}
      BY FS_EmptySet, BrowserConstants
    <3> QED
      BY <3>1
  <2> QED
    BY <2>1, StateFacts DEF NotSubmitted, Status
<1>2. FreshTab \in TabState /\ FreshTab.at = "idle" /\ FreshTab.rec = NoJob /\ FreshTab.mine = NoJob
      /\ FreshTab.seen.is = "none"
  BY StatusFacts DEF FreshTab, TabState, Places
<1>3. NoCancellation \in Cancellation /\ NoCancellation.at = "idle"
  BY DEF NoCancellation, Cancellation
<1>4. NoRecord \in Record /\ NoRecord.key = NoJob /\ NoRecord.cancel = FALSE
  BY DEF NoRecord, Record
<1>5. TypeOK
  BY <1>1, <1>2, <1>3, <1>4, BrowserConstants DEF InitBrowser, Init, TypeOK
<1>6. \A j \in Jobs : job[j] = NotSubmitted
  BY DEF InitBrowser, Init
<1>7. \A j \in Jobs : JobOK(job[j])
  BY <1>1, <1>6 DEF JobOK
<1>8. \A t \in Tabs : TabOK(t)
  BY <1>2, <1>3 DEF InitBrowser, TabOK
<1>9. KeysOK
  BY <1>1, <1>4, <1>6 DEF InitBrowser, KeysOK
<1>10. Recoverable /\ ReleasedIsSaved /\ PutIsBilled
  BY <1>1, <1>6 DEF InitBrowser, Recoverable, ReleasedIsSaved, PutIsBilled, Put, Live
<1> QED
  BY <1>5, <1>7, <1>8, <1>9, <1>10 DEF BrowserInv

\* Every step keeps it.
LEMMA BrowserInvStep == BrowserInv /\ [NextBrowser]_vars => BrowserInv'
<1> SUFFICES ASSUME BrowserInv, [NextBrowser]_vars PROVE BrowserInv'
  OBVIOUS
<1>0. TypeOK
  BY Parts
<1>1. ASSUME NEW t \in Tabs, Moves(t) PROVE BrowserInv'
  BY <1>1, ClaimStep, DropStep, TakeUpStep, PollStep, DecideStep, ResendStep, FetchStep, SaveStep,
     AckStep, ForgetStep DEF Moves
<1>2. ASSUME NEW t \in Tabs, Fails(t) PROVE BrowserInv'
  BY <1>2, StopStep, AckStep DEF Fails
<1>3. ASSUME NEW t \in Tabs, Uses(t) PROVE BrowserInv'
  BY <1>3, GenerateStep, CancelStep, TakeUpStep, RestoreStep, ReloadStep, DeleteStep DEF Uses
<1>4. ASSUME NEW t \in Tabs, MarkCancel(t) \/ SendCancel(t) PROVE BrowserInv'
  BY <1>4, CancelStep
<1>5. ASSUME NEW j \in Jobs, PostAdmitted(j) \/ PostRefused(j) PROVE BrowserInv'
  BY <1>5, PostStep
<1>6. ASSUME NEW j \in Jobs, ServerWorks(j) \/ ServerReturns(j) \/ ServerAges(j) PROVE BrowserInv'
  <2>1. ServerKeeps
    BY <1>6, WorkKeeps, AgeKeeps DEF ServerWorks, ServerReturns, ServerAges, Server
  <2>2. UNCHANGED <<tab, cxl, pend, hist, cut, used, posts, gaveUp>> /\ Calm
    BY <1>6 DEF ServerWorks, ServerReturns, ServerAges, Server
  <2> QED
    BY <1>0, <2>1, <2>2, Bounds, ServerStep
<1>7. CASE ServerRestarts
  <2>1. ServerKeeps
    BY <1>7, RestartKeeps DEF ServerRestarts, Server
  <2>2. UNCHANGED <<tab, cxl, pend, hist, cut, used, posts, gaveUp>> /\ Fault /\ inputs' = inputs
    BY <1>7 DEF ServerRestarts, Server
  <2> QED
    BY <1>0, <2>1, <2>2, Bounds, ServerStep
<1>8. CASE UNCHANGED vars
  <2>1. ServerKeeps
    BY <1>8, ServerIdle DEF vars
  <2>2. UNCHANGED <<tab, cxl, pend, hist, cut, used, posts, gaveUp>> /\ Calm
    BY <1>8 DEF vars, Calm
  <2> QED
    BY <1>0, <2>1, <2>2, Bounds, ServerStep
<1> QED
  BY <1>1, <1>2, <1>3, <1>4, <1>5, <1>6, <1>7, <1>8 DEF NextBrowser

(***************************************************************************)
(* Theorems.                                                               *)
(***************************************************************************)

\* The inductive invariant of the browser holds for any number of tabs, jobs, inputs and
\* faults: web/src/features/media-studio against the promise of the queue.
THEOREM BrowserInvariant == SpecBrowser => []BrowserInv
  BY BrowserInvInit, BrowserInvStep, PTL DEF SpecBrowser

\* Every variable of the browser keeps its type.
THEOREM BrowserTypeOK == SpecBrowser => []TypeOK
<1>1. BrowserInv => TypeOK
  BY DEF BrowserInv
<1> QED
  BY <1>1, BrowserInvariant, PTL

\* While the server works on a job or keeps its image, or its POST may still arrive, the
\* pending record names it, unless the user discarded it: it is claimed before the POST, and
\* removed only on a certain refusal, an acknowledged image or "Restore draft".
THEOREM JobsStayRecoverable == SpecBrowser => []Recoverable
<1>1. BrowserInv => Recoverable
  BY DEF BrowserInv
<1> QED
  BY <1>1, BrowserInvariant, PTL

\* A billed image is released only when it was put in the history, which only its limits and
\* the user empty: saveStudioJob comes before acknowledgeStudioImage, whatever the other tabs
\* do.  Its last transaction may be the one that cuts the image again.
THEOREM ReleasedImagesAreSaved == SpecBrowser => []ReleasedIsSaved
<1>1. BrowserInv => ReleasedIsSaved
  BY DEF BrowserInv
<1> QED
  BY <1>1, BrowserInvariant, PTL

\* Only billed images enter the history, and no cancellation is accepted for them: the queue
\* completes what it committed, and commits nothing once the cancellation is accepted.
THEOREM SavedImagesAreBilled == SpecBrowser => []SavedIsBilled
<1>1. BrowserInv => SavedIsBilled
  BY DEF BrowserInv, PutIsBilled, SavedIsBilled, Billed, Put
<1> QED
  BY <1>1, BrowserInvariant, PTL
=============================================================================
