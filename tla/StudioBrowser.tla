--------------------------- MODULE StudioBrowser ---------------------------
(***************************************************************************)
(* The image studio in the browser: the tabs of one account submit image   *)
(* jobs, follow them, cancel them and collect their images                 *)
(* (web/src/features/media-studio: lib/image-jobs.ts, lib/studio-storage.ts*)
(* hooks/use-workflow.ts, components/image-job-panel.tsx).                 *)
(*                                                                         *)
(* The tabs share one IndexedDB: a single pending record, which names the  *)
(* job that a reload must come back to, and the local history.  Every      *)
(* `await` of the code is a step: between two of them the other tab, the   *)
(* user and the server go on.  The server is StudioJob, the promise that   *)
(* StudioQueue keeps.  Requests and answers may be lost, and a POST may    *)
(* still reach the server after its tab stopped waiting for it.            *)
(***************************************************************************)
EXTENDS Naturals, StudioJob

CONSTANTS
    Tabs,
    NoJob,       \* no job
    MaxInputs,   \* bound on what the users do
    MaxFaults    \* bound on lost messages, full disks and histories, and gateway restarts

ASSUME BrowserConstants == /\ NoJob \notin Jobs /\ Cardinality(Accounts) = 1
                           /\ MaxInputs \in Nat /\ MaxFaults \in Nat

VARIABLES
    tab,      \* per tab: the generation mutation and the React state around it
    cxl,      \* per tab: the cancellation mutation
    pend,     \* IndexedDB, store `pending`: the one record
    hist,     \* IndexedDB, store `jobs`: the images of the local history
    cut,      \* images the history held and gave up, to its limits or to the user
    used,     \* keys that were drawn (newId)
    posts,    \* POSTs that the server has not handled yet
    gaveUp,   \* jobs that the user discarded with "Restore draft", and as what
    inputs, faults

vars == <<job, tab, cxl, pend, hist, cut, used, posts, gaveUp, inputs, faults>>

Me == CHOOSE a \in Accounts : TRUE

NoRecord == [key |-> NoJob, cancel |-> FALSE]

\* queueStatus: what the last answer said, or that there was none to find.
Shown(j, s) == [of |-> j, is |-> s.state, active |-> s.active, cancelReq |-> s.cancelReq,
                committed |-> s.committed]

Nothing == Shown(NoJob, NotSubmitted)

Unavailable(j, state) == [Nothing EXCEPT !.of = j, !.is = state]

\* at: where the generation mutation is; idle and failed are not pending.
\* rec: the record it works on; mine: the state `pending`; seen: queueStatus.
FreshTab == [at |-> "idle", rec |-> NoJob, mine |-> NoJob, seen |-> Nothing]

NoCancellation == [at |-> "idle", key |-> NoJob, id |-> NoJob]

InitBrowser ==
    /\ Init
    /\ tab = [t \in Tabs |-> FreshTab]
    /\ cxl = [t \in Tabs |-> NoCancellation]
    /\ pend = NoRecord
    /\ hist = {} /\ cut = {} /\ used = {} /\ posts = {} /\ gaveUp = {}
    /\ inputs = 0 /\ faults = 0

-----------------------------------------------------------------------------
(* What the steps are made of.                                             *)

Input == inputs < MaxInputs /\ inputs' = inputs + 1

Fault == faults < MaxFaults /\ faults' = faults + 1

\* A tab moves on, and touches neither the server nor the database.
Tab(t, s) == /\ tab' = [tab EXCEPT ![t] = s]
             /\ UNCHANGED <<job, cxl, pend, hist, cut, used, posts, gaveUp>>

To(t, at) == [tab[t] EXCEPT !.at = at]

Calm == UNCHANGED <<inputs, faults>>

Resting(t) == tab[t].at \in {"idle", "failed"}

\* pendingStudioImage with expectedKey: the record is removed if it is still this one.
RecordWithout(j) == IF pend.key = j THEN NoRecord ELSE pend

-----------------------------------------------------------------------------
(* submitStudioImage.                                                      *)

\* The user presses Generate: a record in the database refuses at once.  The request
\* is prepared, the epoch is read and a new key is drawn.
Generate(t) ==
    /\ Input /\ UNCHANGED faults
    /\ Resting(t)
    /\ IF pend = NoRecord
       THEN \E j \in Jobs \ used :
                /\ used' = used \union {j}
                /\ tab' = [tab EXCEPT ![t] = [To(t, "claim") EXCEPT !.rec = j]]
       ELSE /\ tab' = [tab EXCEPT ![t] = To(t, "failed")]
            /\ UNCHANGED used
    /\ UNCHANGED <<job, cxl, pend, hist, cut, posts, gaveUp>>

\* The identity is claimed in one transaction, and only then the POST leaves.
Claim(t) ==
    LET mine == pend = NoRecord
    IN  /\ tab[t].at = "claim"
        /\ pend' = IF mine THEN [key |-> tab[t].rec, cancel |-> FALSE] ELSE pend
        /\ posts' = IF mine THEN posts \union {tab[t].rec} ELSE posts
        /\ tab' = [tab EXCEPT ![t] = To(t, IF mine THEN "post" ELSE "failed")]
        /\ UNCHANGED <<job, cxl, hist, cut, used, gaveUp>> /\ Calm

\* The server handles a POST; a tab that waits for the answer gets it, unless it is lost.
Answer(j, at) ==
    \/ /\ tab' = [t \in Tabs |-> IF tab[t].at = "post" /\ tab[t].rec = j
                                 THEN [tab[t] EXCEPT !.at = at,
                                                     !.mine = IF at = "poll" THEN j ELSE @]
                                 ELSE tab[t]]
       /\ Calm
    \/ /\ \E t \in Tabs : tab[t].at = "post" /\ tab[t].rec = j
       /\ Fault /\ UNCHANGED inputs
       /\ tab' = [t \in Tabs |-> IF tab[t].at = "post" /\ tab[t].rec = j
                                 THEN To(t, "failed") ELSE tab[t]]

PostAdmitted(j) ==
    /\ j \in posts
    /\ Submit(j, Me)
    /\ posts' = posts \ {j}
    /\ Answer(j, "poll")
    /\ UNCHANGED <<cxl, pend, hist, cut, used, gaveUp>>

\* 400, 401, 403, 409, 413, 429 and three named 503s: the job does not exist.
PostRefused(j) ==
    /\ j \in posts
    /\ posts' = posts \ {j}
    /\ Answer(j, "refused")
    /\ UNCHANGED <<job, cxl, pend, hist, cut, used, gaveUp>>

ForgetOnError(t) ==
    /\ tab[t].at = "post"
    /\ Fault /\ UNCHANGED inputs
    /\ pend' = RecordWithout(tab[t].rec)
    /\ tab' = [tab EXCEPT ![t] = To(t, "failed")]
    /\ UNCHANGED <<job, cxl, hist, cut, used, posts, gaveUp>>

\* A transport error while the POST may still be on its way: the record stays.
PostUncertain(t) ==
    /\ tab[t].at = "post"
    /\ Fault /\ UNCHANGED inputs
    /\ Tab(t, To(t, "failed"))

\* A refusal is certain, and the record goes.
DropRecord(t) ==
    /\ tab[t].at = "refused"
    /\ pend' = RecordWithout(tab[t].rec)
    /\ tab' = [tab EXCEPT ![t] = To(t, "failed")]
    /\ UNCHANGED <<job, cxl, hist, cut, used, posts, gaveUp>> /\ Calm

\* onError of the mutation reads the record that is left.
Recover(t) ==
    /\ tab[t].at = "failed"
    /\ Tab(t, [To(t, "idle") EXCEPT !.mine = pend.key]) /\ Calm

-----------------------------------------------------------------------------
(* collectStudioImage.                                                     *)

NeverStops(s) == FALSE

\* A cancellation that is cleaned up ends the collection without an image.
Stops(s) == s.state = "cancelled" /\ ~s.active

\* GET .../{key}: 404, 409 after a restart, or the status.
Poll(t) ==
    LET j == tab[t].rec
        s == job[j]
    IN  /\ tab[t].at = "poll"
        /\ Tab(t, IF s.state \in {"none", "gone"}
                  THEN [To(t, "failed") EXCEPT !.seen = Unavailable(j, "missing")]
                  ELSE IF s.state = "lost"
                       THEN [To(t, "failed") EXCEPT !.seen = Unavailable(j, "reconnecting")]
                       ELSE [To(t, IF Stops(s) THEN "idle" ELSE "check")
                                EXCEPT !.seen = Shown(j, s)])
        /\ Calm

\* A recorded cancellation that the server has not seen is sent again; otherwise the
\* state decides: fetch, wait for the next poll, or give up.
Check(t) ==
    LET s == tab[t].seen
        resend == /\ pend.key = tab[t].rec /\ pend.cancel
                  /\ ~s.committed /\ ~s.cancelReq
                  /\ s.is \in {"queued", "running", "completed"}
    IN  /\ tab[t].at = "check"
        /\ Tab(t, To(t, IF resend THEN "resend"
                        ELSE IF s.is = "completed" THEN "fetch"
                        ELSE IF s.is \in {"queued", "running", "cancelling", "cancelled"} THEN "poll"
                        ELSE "failed"))
        /\ Calm

\* sendStudioCancellation from the loop.
Resend(t) ==
    LET j == tab[t].rec
    IN  /\ tab[t].at = "resend"
        /\ IF Held(job[j])
           THEN /\ Cancel(j)
                /\ tab' = [tab EXCEPT ![t] = To(t, "poll")]
           ELSE /\ tab' = [tab EXCEPT ![t] =
                        [To(t, "failed") EXCEPT !.seen = Unavailable(j,
                            IF job[j].state = "lost" THEN "reconnecting" ELSE "missing")]]
                /\ UNCHANGED job
        /\ UNCHANGED <<cxl, pend, hist, cut, used, posts, gaveUp>> /\ Calm

\* GET .../result.
Fetch(t) ==
    LET j == tab[t].rec
    IN  /\ tab[t].at = "fetch"
        /\ Tab(t, IF job[j].state = "completed" THEN To(t, "verify")
                  ELSE [To(t, "failed") EXCEPT !.seen = Unavailable(j,
                            IF job[j].state = "lost" THEN "reconnecting" ELSE "missing")])
        /\ Calm

\* The image is here: is it still wanted?
Verify(t) ==
    /\ tab[t].at = "verify"
    /\ Tab(t, To(t, IF pend.key # tab[t].rec THEN "failed"
                    ELSE IF pend.cancel /\ ~tab[t].seen.committed THEN "resend" ELSE "save"))
    /\ Calm

\* The history becomes these images, or some of them when it is at its limits: it is cut to
\* 50 entries and 100 MiB, the last created first.  created_at is of the gateway's clock or,
\* for images generated without the queue, of the browser's, so that any entry may go.
Keep(images) ==
    \/ hist' = images /\ cut' = cut \ images /\ Calm
    \/ /\ Fault /\ UNCHANGED inputs
       /\ \E kept \in SUBSET images \ {images} : hist' = kept /\ cut' = (cut \union images) \ kept

\* saveStudioJob: the record is checked, the image is put and the history is cut in one
\* transaction.  The image just put may go with the rest, and the answer is still true.
Save(t) ==
    LET wanted == pend.key = tab[t].rec /\ (pend.cancel => tab[t].seen.committed)
    IN  /\ tab[t].at = "save"
        /\ IF wanted THEN Keep(hist \union {tab[t].rec}) ELSE UNCHANGED <<hist, cut>> /\ Calm
        /\ tab' = [tab EXCEPT ![t] = To(t, IF wanted THEN "ack" ELSE "failed")]
        /\ UNCHANGED <<job, cxl, pend, used, posts, gaveUp>>

SaveFailsAcked(t) ==
    /\ tab[t].at = "save"
    /\ Fault /\ UNCHANGED inputs
    /\ Tab(t, To(t, "ack"))

\* Storage is full: the result is shown with a notice, the record stays.
SaveFails(t) ==
    /\ tab[t].at = "save"
    /\ Fault /\ UNCHANGED inputs
    /\ Tab(t, To(t, "idle"))

\* acknowledgeStudioImage: 204 and the record goes, or an error and it stays.
SendAck(t) ==
    LET j == tab[t].rec
        taken == job[j].state \in Ended /\ ~job[j].active
    IN  /\ tab[t].at = "ack"
        /\ IF taken THEN Ack(j) ELSE UNCHANGED job
        /\ tab' = [tab EXCEPT ![t] = To(t, IF taken THEN "forget" ELSE "idle")]
        /\ UNCHANGED <<cxl, pend, hist, cut, used, posts, gaveUp>> /\ Calm

\* The acknowledgement arrives, its answer does not.
AckAnswerLost(t) ==
    LET j == tab[t].rec
    IN  /\ tab[t].at = "ack"
        /\ Fault /\ UNCHANGED inputs
        /\ IF job[j].state \in Ended /\ ~job[j].active THEN Ack(j) ELSE UNCHANGED job
        /\ tab' = [tab EXCEPT ![t] = To(t, "idle")]
        /\ UNCHANGED <<cxl, pend, hist, cut, used, posts, gaveUp>>

ForgetRecord(t) ==
    /\ tab[t].at = "forget"
    /\ pend' = RecordWithout(tab[t].rec)
    /\ tab' = [tab EXCEPT ![t] = [To(t, "idle") EXCEPT !.mine = NoJob, !.seen = Nothing]]
    /\ UNCHANGED <<job, cxl, hist, cut, used, posts, gaveUp>> /\ Calm

\* Any other request fails on the way and ends the generation.
RequestFails(t) ==
    /\ tab[t].at \in {"poll", "resend", "fetch"}
    /\ Fault /\ UNCHANGED inputs
    /\ Tab(t, To(t, "failed"))

-----------------------------------------------------------------------------
(* ImageJobPanel and the cancellation mutation.                            *)

ShownActive(s) == s.is \in {"queued", "running", "cancelling"}

ShownRecovering(s) == s.is = "cancelled" /\ s.active

\* "Cancel image job": the record and the status are the ones of this render.
PressCancel(t) ==
    LET s == tab[t].seen
    IN  /\ Input /\ UNCHANGED faults
        /\ tab[t].mine # NoJob
        /\ ShownActive(s) /\ ~s.cancelReq /\ ~s.committed
        /\ cxl[t].at = "idle"
        /\ cxl' = [cxl EXCEPT ![t] = [at |-> "mark", key |-> tab[t].mine, id |-> s.of]]
        /\ UNCHANGED <<job, tab, pend, hist, cut, used, posts, gaveUp>>

\* cancelStudioImage writes the intention first, and then sends it.
MarkCancel(t) ==
    /\ cxl[t].at = "mark"
    /\ pend' = IF pend.key = cxl[t].key THEN [pend EXCEPT !.cancel = TRUE] ELSE pend
    /\ cxl' = [cxl EXCEPT ![t].at = "send"]
    /\ UNCHANGED <<job, tab, hist, cut, used, posts, gaveUp>> /\ Calm

SendCancel(t) ==
    /\ cxl[t].at = "send"
    /\ cxl' = [cxl EXCEPT ![t] = NoCancellation]
    /\ \/ /\ IF Held(job[cxl[t].id]) THEN Cancel(cxl[t].id) ELSE UNCHANGED job
          /\ Calm
       \/ /\ Fault /\ UNCHANGED <<inputs, job>>
    /\ UNCHANGED <<tab, pend, hist, cut, used, posts, gaveUp>>

\* "Reconnect to image job" resumes with the record of this render.
Reconnect(t) ==
    LET s == tab[t].seen
    IN  /\ Input /\ UNCHANGED faults
        /\ Resting(t)
        /\ tab[t].mine # NoJob
        /\ s.is # "cancelled" \/ ShownRecovering(s)
        /\ Tab(t, [To(t, "poll") EXCEPT !.rec = tab[t].mine])

\* "Restore draft": clearPending.
Restore(t) ==
    LET s == tab[t].seen
    IN  /\ Input /\ UNCHANGED faults
        /\ Resting(t)
        /\ tab[t].mine # NoJob
        /\ s # Nothing /\ ~ShownActive(s) /\ ~ShownRecovering(s)
        /\ pend' = RecordWithout(tab[t].mine)
        /\ gaveUp' = IF pend.key # tab[t].mine THEN gaveUp
                     ELSE gaveUp \union {[key |-> tab[t].mine, shown |-> s.is]}
        /\ tab' = [tab EXCEPT ![t] = [To(t, "idle") EXCEPT !.mine = NoJob, !.seen = Nothing]]
        /\ UNCHANGED <<job, cxl, hist, cut, used, posts>>

\* The page is loaded again, at any moment: a record is taken up where it is.
Reload(t) ==
    /\ Input /\ UNCHANGED faults
    /\ tab' = [tab EXCEPT ![t] = IF pend = NoRecord THEN FreshTab
                                 ELSE [FreshTab EXCEPT !.at = "poll", !.rec = pend.key,
                                                       !.mine = pend.key]]
    /\ cxl' = [cxl EXCEPT ![t] = NoCancellation]
    /\ UNCHANGED <<job, pend, hist, cut, used, posts, gaveUp>>

\* The user deletes an image of the history, or all of them (deleteStudioJob).
Delete(t) ==
    /\ Input /\ UNCHANGED faults
    /\ hist # {}
    /\ \E images \in {hist} \union {{j} : j \in hist} :
            hist' = hist \ images /\ cut' = cut \union images
    /\ UNCHANGED <<job, tab, cxl, pend, used, posts, gaveUp>>

-----------------------------------------------------------------------------
(* The server on its own.                                                  *)

Server(A) == A /\ UNCHANGED <<tab, cxl, pend, hist, cut, used, posts, gaveUp>>

\* A waiting job is started, and one whose image is committed is kept for collection.
ServerWorks(j) == Server(Dispatch(j) \/ (job[j].committed /\ Conclude(j))) /\ Calm

\* The relay comes back, with an image that is committed or without one.
ServerReturns(j) == Server(CommitResult(j) \/ (~job[j].committed /\ Conclude(j))) /\ Calm

ServerAges(j) == Server(Age(j)) /\ Calm

ServerRestarts == Server(Restart(Jobs)) /\ Fault /\ UNCHANGED inputs

-----------------------------------------------------------------------------
Moves(t) == \/ Claim(t) \/ DropRecord(t) \/ Recover(t)
            \/ Poll(t) \/ Check(t) \/ Resend(t) \/ Fetch(t) \/ Verify(t) \/ Save(t)
            \/ SendAck(t) \/ ForgetRecord(t)

Fails(t) == PostUncertain(t) \/ SaveFails(t) \/ AckAnswerLost(t) \/ RequestFails(t)

Uses(t) == Generate(t) \/ PressCancel(t) \/ Reconnect(t) \/ Restore(t) \/ Reload(t) \/ Delete(t)

NextBrowser ==
    \/ \E t \in Tabs : Moves(t) \/ Fails(t) \/ Uses(t) \/ MarkCancel(t) \/ SendCancel(t)
    \/ \E j \in Jobs : PostAdmitted(j) \/ PostRefused(j)
                       \/ ServerWorks(j) \/ ServerReturns(j) \/ ServerAges(j)
    \/ ServerRestarts

SpecBrowser == InitBrowser /\ [][NextBrowser]_vars

\* Promises settle, POSTs are handled, and the server starts every job it admitted and ends
\* the ones whose relay has come back (AdmissionEnds of StudioQueue): no relay has to.
FairBrowser ==
    /\ SpecBrowser
    /\ \A t \in Tabs : WF_vars(Moves(t)) /\ WF_vars(MarkCancel(t)) /\ WF_vars(SendCancel(t))
    /\ \A j \in Jobs : /\ WF_vars(PostAdmitted(j) \/ PostRefused(j))
                       /\ WF_vars(ServerWorks(j))

-----------------------------------------------------------------------------
(* Properties.                                                             *)

Places == {"idle", "failed", "claim", "post", "refused", "poll", "check", "resend", "fetch",
           "verify", "save", "ack", "forget"}

QueueStatus == [of : Jobs \union {NoJob}, is : States \union {"missing", "reconnecting"},
                active : BOOLEAN, cancelReq : BOOLEAN, committed : BOOLEAN]

TabState == [at : Places, rec : Jobs \union {NoJob}, mine : Jobs \union {NoJob}, seen : QueueStatus]

Cancellation == [at : {"idle", "mark", "send"}, key : Jobs \union {NoJob}, id : Jobs \union {NoJob}]

Record == [key : Jobs \union {NoJob}, cancel : BOOLEAN]

\* Every variable keeps its type.
TypeOK ==
    /\ job \in [Jobs -> Status]
    /\ tab \in [Tabs -> TabState] /\ cxl \in [Tabs -> Cancellation]
    /\ pend \in Record
    /\ hist \subseteq Jobs /\ cut \subseteq Jobs /\ used \subseteq Jobs /\ posts \subseteq used
    /\ gaveUp \subseteq [key : used, shown : States \union {"missing", "reconnecting"}]
    /\ inputs \in 0..MaxInputs /\ faults \in 0..MaxFaults

Discarded(j) == \E d \in gaveUp : d.key = j

\* The server has the job and it may still be billed.
Live(e) == e.state = "queued" \/ e.active \/ e.state = "completed"

\* A job is never out of reach: while the server works on it or keeps its image, or its POST
\* may still arrive, the pending record names it, unless the user discarded it.  No tab,
\* reload or lost answer makes the browser forget a job that may be billed
\* (submitStudioImage, acknowledgeStudioImage, expectedKey).
Recoverable ==
    \A j \in Jobs : j \in posts \/ Live(job[j]) => pend.key = j \/ Discarded(j)

\* The server lets go of a billed image only when it was written to the history, where it is
\* still, unless the history's limits or the user removed it, or when nobody asked for it
\* during the retention time: no acknowledgement comes too early.
ReleasedIsSaved ==
    \A j \in Jobs : job[j].committed /\ job[j].state = "released" => j \in hist \union cut

\* Only images that were billed are saved: one whose cancellation was accepted never
\* turns up in the history, whatever the tab had read before (saveStudioJob).
SavedIsBilled == \A j \in hist : job[j].committed /\ ~job[j].cancelReq

\* The tab follows a job whose relay has not come back.
Stalled(t) == \E j \in Jobs : tab[t].rec = j /\ job[j].active /\ ~job[j].committed

\* A generation ends, unless the relay of its job never comes back: the mutation does not
\* poll for ever for a job that ended, was cancelled, forgotten, lost or released.
GenerationEnds == \A t \in Tabs : []<>Resting(t) \/ <>[]Stalled(t)

\* A job that the server reported missing, and whose draft was restored for that reason,
\* does not come to life afterwards ("A confirmed missing job on the owning gateway can
\* be restored as a draft").
MissingStaysMissing ==
    \A d \in gaveUp : d.shown = "missing" => ~Waits(job[d.key])
=============================================================================
