---------------------------- MODULE AuthSession ----------------------------
(***************************************************************************)
(* Login sessions of the web console: the tabs of one browser              *)
(* (web/src/lib/auth-session.ts, auth-session-sync.ts, http-client.ts, the *)
(* route guards and the sign-out dialog), the cookie jar they share and    *)
(* the refresh-token rotation of the server (service/auth_session.go,      *)
(* model/user_session.go, controller/auth_session.go).                     *)
(*                                                                         *)
(* A refresh token is the pair of its session and its generation: the      *)
(* server derives the successor of a secret from the secret, so that the   *)
(* successor of generation g is generation g + 1 whoever asks for it.  The *)
(* 30 s replay window of the previous generation is the flag "grace",      *)
(* which GraceEnds lowers.  An access token is its session and the flag    *)
(* "fresh".  authEpoch is compared for equality only, and by the refresh   *)
(* that is under way: "current" says that the epoch has not moved since    *)
(* that refresh began.                                                     *)
(***************************************************************************)
EXTENDS Naturals, Sequences, FiniteSets, Functions

CONSTANTS
    Tabs,        \* the open tabs of one browser profile
    Sids,        \* identities of login sessions
    First,       \* the session all tabs hold at first
    None,
    LockModes,   \* whether navigator.locks exists: a subset of BOOLEAN
    MaxInputs    \* bound on what users, clocks and networks do

ASSUME AuthAssumption ==
    /\ First \in Sids
    /\ None \notin Sids \cup [sid : Sids, gen : Nat]
    /\ LockModes \subseteq BOOLEAN
    /\ MaxInputs \in Nat \ {0}

VARIABLES
    row,         \* the user_sessions table
    cookie,      \* the refresh cookie, None or a token
    tab,         \* the memory of each tab
    inbox,       \* auth-session events posted to a tab and not yet delivered
    orphans,     \* refresh requests of pages that are gone
    locks,       \* navigator.locks exists
    inputs,      \* inputs still to come
    ended,       \* history: the sessions the sign-outs of a tab have ended
    lost         \* history: sessions with a refresh whose answer never came

vars == <<row, cookie, tab, inbox, orphans, locks, inputs, ended, lost>>
----------------------------------------------------------------------------
Token == [sid : Sids, gen : Nat]
Row == [status : {"none", "active", "revoked"}, gen : Nat,
        prev : Nat \cup {None}, grace : BOOLEAN,
        why : {"none", "logout", "reuse", "remote"}]
Event == [kind : {"authenticated", "signed_out"}, sid : Sids]
Orphan == [token : Token \cup {None}, expect : Sids \cup {None}]

\* A request of the console that the server has refused with 401, and whose
\* answer is on the way, or that waits for a refresh.  The server decides when
\* the request is sent; the requests it grants do not touch the session.
Call == [retry : BOOLEAN, phase : {"denied", "refreshing"}]
Refresh == [pc : {"idle", "queued", "ready", "sent", "handled"},
            current : BOOLEAN, race : 0 .. 3, retry : BOOLEAN,
            expect : Sids \cup {None}, token : Token \cup {None},
            code : {"none", "ok", "denied", "mismatch", "race"}]
Logout == [pc : {"idle", "handled", "recovering"}, sid : Sids \cup {None},
           clears : BOOLEAN, allow : BOOLEAN,
           code : {"none", "ok", "mismatch"}]
Guard == [to : {"none", "app", "signin"}, wait : BOOLEAN]
Tab == [sess : Sids \cup {None}, fresh : BOOLEAN,
        boot : {"idle", "checking", "complete"}, page : {"app", "signin"},
        live : BOOLEAN, rf : Refresh, guard : Guard, out : Logout,
        log : Sids \cup {None}, calls : SUBSET Call]

\* The refresh of a tab: refreshPromise and the closure of its runner.
NoRefresh == [pc |-> "idle", current |-> FALSE, race |-> 0, retry |-> FALSE,
              expect |-> None, token |-> None, code |-> "none"]
Begun == [NoRefresh EXCEPT !.pc = "queued", !.current = TRUE, !.retry = TRUE]
\* The sign-out of a tab: executeLogout and the answer to its request.
NoLogout == [pc |-> "idle", sid |-> None, clears |-> FALSE, allow |-> FALSE,
             code |-> "none"]
\* A route guard that awaits resolveAuthentication.
NoGuard == [to |-> "none", wait |-> FALSE]

\* What a page has before its first guard has run.
NewPage(p) ==
    [sess |-> None, fresh |-> FALSE, boot |-> "checking", page |-> p,
     live |-> FALSE, rf |-> Begun, guard |-> [to |-> p, wait |-> TRUE],
     out |-> NoLogout, log |-> None, calls |-> {}]
----------------------------------------------------------------------------
(***************************************************************************)
(* The server.                                                             *)
(***************************************************************************)
Active(s) == row[s].status = "active"

\* A token that RotateUserSessionRefresh and RevokeUserSessionByRefreshHash
\* accept: the current one, or the previous one inside its window.
Usable(k) ==
    /\ k # None
    /\ Active(k.sid)
    /\ \/ k.gen = row[k.sid].gen
       \/ k.gen = row[k.sid].prev /\ row[k.sid].grace

\* The row after the conditional update of RotateUserSessionRefresh.
Rotated(k) == [row[k.sid] EXCEPT !.gen = k.gen + 1, !.prev = k.gen,
                                 !.grace = TRUE]
Revoked(s, why) == [row[s] EXCEPT !.status = "revoked", !.why = why]

\* RefreshLoginSession: the code of the answer to the token k and the SID e.
\* A previous token inside its window is answered with the current one.
RefreshCode(k, e) ==
    CASE k = None -> "denied"
      [] k # None /\ e \notin {None, k.sid} -> "mismatch"
      [] k # None /\ e \in {None, k.sid} ->
           IF ~Usable(k) THEN "denied"
           ELSE IF k.gen + 1 = row[k.sid].gen \/ k.gen = row[k.sid].gen
           THEN "ok" ELSE "race"

\* The previous token comes back after its window: the family is revoked.
Reused(k) == k # None /\ Active(k.sid) /\ k.gen = row[k.sid].prev

RefreshEffect(k, e) ==
    CASE RefreshCode(k, e) = "ok" /\ k.gen = row[k.sid].gen ->
           [row EXCEPT ![k.sid] = Rotated(k)]
      [] RefreshCode(k, e) = "denied" /\ Reused(k) ->
           [row EXCEPT ![k.sid] = Revoked(k.sid, "reuse")]
      [] OTHER -> row

\* AuthLogout: a request with the SID e, the cookie k and the access token of
\* session b, None when it has expired.
LogoutCode(e, k) ==
    IF e # None /\ k # None /\ k.sid # e THEN "mismatch" ELSE "ok"
LogoutRevokes(b, e, k) ==
    {s \in Sids : /\ LogoutCode(e, k) = "ok"
                  /\ Active(s)
                  /\ IF b # None THEN s = b ELSE Usable(k) /\ s = k.sid}
LogoutClears(b, e, k) ==
    LogoutCode(e, k) = "ok" /\ (b = None \/ (k # None /\ k.sid = b))

\* The server refuses a request with the access token of x.
Refuses(x) == ~x.fresh \/ ~Active(x.sess)
----------------------------------------------------------------------------
(***************************************************************************)
(* The memory of a tab.                                                    *)
(***************************************************************************)
\* applyAuthBundle: the epoch moves, the store holds the new session.
ApplyAuthBundle(x, s) ==
    [x EXCEPT !.sess = s, !.fresh = TRUE, !.boot = "complete",
              !.rf.current = FALSE]

\* Mutant: a clear that keeps the epoch.
ClearKeepsEpoch(x) == [x EXCEPT !.sess = None, !.fresh = FALSE,
                                !.boot = "complete"]

\* useAuthStore.reset
Reset(x, b) == [x EXCEPT !.sess = None, !.fresh = FALSE, !.boot = b]

\* clearAuthentication: the epoch moves, the store is reset.
ClearAuthentication(x) == [Reset(x, "complete") EXCEPT !.rf.current = FALSE]

\* refreshAuthentication: join the refresh under way or begin one.
RefreshAuthentication(x) ==
    IF x.rf.pc = "idle" THEN [x EXCEPT !.rf = Begun] ELSE x

\* resolveAuthentication in the guard of page p.
ResolveAuthentication(x, p) ==
    LET go(w) == [x EXCEPT !.guard = [to |-> p, wait |-> w]] IN
    IF x.sess # None /\ x.fresh THEN [go(FALSE) EXCEPT !.boot = "complete"]
    ELSE IF x.boot = "complete" /\ x.sess = None THEN go(FALSE)
    ELSE RefreshAuthentication([go(TRUE) EXCEPT !.boot = "checking"])

\* The request of executeLogout is sent with the SID and the token of the store
\* and the cookie k, and handled.
LogoutAnswer(x, k, allow) ==
    LET b == IF x.fresh THEN x.sess ELSE None IN
    [pc |-> "handled", sid |-> x.sess, clears |-> LogoutClears(b, x.sess, k),
     allow |-> allow, code |-> LogoutCode(x.sess, k)]
LogoutEffect(x, k) ==
    LET b == IF x.fresh THEN x.sess ELSE None IN
    [s \in Sids |-> IF s \in LogoutRevokes(b, x.sess, k)
                    THEN Revoked(s, "logout") ELSE row[s]]

\* The refresh of x is over.  The calls that wait for it are sent again with
\* the token of the store or given up; a guard goes on.
Waiting(x) == {c \in x.calls : c.phase = "refreshing"}
Settled(x, outcome) ==
    [x EXCEPT !.rf = NoRefresh, !.guard.wait = FALSE,
              !.calls = (@ \ Waiting(x)) \cup
                  IF outcome = "authenticated" /\ Refuses(x)
                  THEN {[c EXCEPT !.phase = "denied"] : c \in Waiting(x)}
                  ELSE {}]

\* The sign-out that waits for the refresh is taken as done when nobody is
\* signed in, and fails when that is not known.
Recovered(x, outcome) ==
    IF x.out.pc # "recovering" THEN x
    ELSE IF outcome # "anonymous" THEN [x EXCEPT !.out = NoLogout]
    ELSE ResolveAuthentication(
             [ClearAuthentication(x) EXCEPT !.out = NoLogout], "signin")
----------------------------------------------------------------------------
NewRow(st) == [status |-> st, gen |-> 0, prev |-> None, grace |-> FALSE,
               why |-> "none"]
NewTab(s, p, l) ==
    [sess |-> s, fresh |-> s # None, boot |-> "complete", page |-> p,
     live |-> TRUE, rf |-> NoRefresh, guard |-> NoGuard, out |-> NoLogout,
     log |-> l, calls |-> {}]

\* All tabs hold the session First and are idle.
SignedIn ==
    /\ row = [s \in Sids |-> NewRow(IF s = First THEN "active" ELSE "none")]
    /\ cookie = [sid |-> First, gen |-> 0]
    /\ tab = [t \in Tabs |-> NewTab(First, "app", None)]
    /\ inputs = MaxInputs

\* Every tab has sent a login of its own from the sign-in page and is about to
\* receive the answer; the sessions are interchangeable, so which tab has which
\* does not matter.  One of the inputs is spent.
SigningIn ==
    /\ row = [s \in Sids |-> NewRow("active")]
    /\ cookie = None
    /\ ExistsBijection(Tabs, Sids)
    /\ tab = LET l == CHOOSE l \in Bijection(Tabs, Sids) : TRUE
             IN  [t \in Tabs |-> NewTab(None, "signin", l[t])]
    /\ inputs = MaxInputs - 1

Init ==
    /\ SignedIn \/ SigningIn
    /\ inbox = [t \in Tabs |-> <<>>]
    /\ orphans = {}
    /\ locks \in LockModes
    /\ ended = [t \in Tabs |-> {}]
    /\ lost = {}

Input == inputs > 0 /\ inputs' = inputs - 1
Put(t, x) == tab' = [tab EXCEPT ![t] = x]

\* The page of tab t is replaced by page p: its requests are abandoned, and the
\* new page does not listen yet.
Unanswered(t) == tab[t].rf.pc \in {"sent", "handled"} /\ tab[t].rf.token # None
LostBy(t) == IF Unanswered(t) THEN {tab[t].rf.token.sid} ELSE {}
Abandoned(t) ==
    IF tab[t].rf.pc = "sent"
    THEN {[token |-> tab[t].rf.token, expect |-> tab[t].rf.expect]} ELSE {}
LoadPage(t, p) ==
    /\ Put(t, NewPage(p))
    /\ inbox' = [inbox EXCEPT ![t] = <<>>]
    /\ orphans' = orphans \cup Abandoned(t)
    /\ lost' = lost \cup LostBy(t)

\* publishAuthSessionEvent reaches the other tabs that listen; own is what is
\* left of the inbox of t.
Publish(t, kind, s, own) ==
    inbox' = [u \in Tabs |->
                IF u = t THEN own
                ELSE IF tab[u].live /\ s # None
                THEN Append(inbox[u], [kind |-> kind, sid |-> s])
                ELSE inbox[u]]
----------------------------------------------------------------------------
(***************************************************************************)
(* The refresh runner.                                                     *)
(***************************************************************************)
\* Mutants: a lock that is shared; a lock that waits for the others in its queue.
SharedLock(t) == TRUE
LockBehindQueue(t) == locks => \A u \in Tabs \ {t} : tab[u].rf.pc = "idle"

\* The web lock new-api:auth-refresh is free for tab t.
LockFree(t) ==
    locks => \A u \in Tabs \ {t} : tab[u].rf.pc \in {"idle", "queued"}
Runs(t) == tab[t].rf.pc = "ready" \/ (tab[t].rf.pc = "queued" /\ LockFree(t))

\* run(): the request leaves with the SID of the store and the cookie.
SendRefresh(t) ==
    /\ Runs(t)
    /\ tab[t].rf.current
    /\ Put(t, [tab[t] EXCEPT !.rf.pc = "sent", !.rf.expect = tab[t].sess,
                             !.rf.token = cookie])
    /\ UNCHANGED <<row, cookie, inbox, orphans, locks, inputs, ended, lost>>

\* run() when the epoch has moved before the request.
SkipRefresh(t) ==
    /\ Runs(t)
    /\ ~tab[t].rf.current
    /\ Put(t, Recovered(Settled(tab[t], "transient"), "transient"))
    /\ UNCHANGED <<row, cookie, inbox, orphans, locks, inputs, ended, lost>>

HandleRefresh(t) ==
    LET r == tab[t].rf
        code == RefreshCode(r.token, r.expect)
    IN
    /\ r.pc = "sent"
    /\ row' = RefreshEffect(r.token, r.expect)
    /\ Put(t, [tab[t] EXCEPT !.rf.pc = "handled", !.rf.code = code,
                 !.rf.token = IF code = "ok" THEN [r.token EXCEPT !.gen = @ + 1]
                              ELSE r.token])
    /\ UNCHANGED <<cookie, inbox, orphans, locks, inputs, ended, lost>>

\* The session cannot be read from the database: RefreshLoginSession answers
\* as it does to a token it does not know.
HandleRefreshOutage(t) ==
    LET r == tab[t].rf IN
    /\ Input
    /\ r.pc = "sent"
    /\ r.token # None
    /\ r.expect \in {None, r.token.sid}
    /\ Put(t, [tab[t] EXCEPT !.rf.pc = "handled", !.rf.code = "denied"])
    /\ UNCHANGED <<row, cookie, inbox, orphans, locks, ended, lost>>

\* The server still handles the request of a page that is gone.
HandleOrphan(o) ==
    /\ o \in orphans
    /\ orphans' = orphans \ {o}
    /\ row' = RefreshEffect(o.token, o.expect)
    /\ UNCHANGED <<cookie, tab, inbox, locks, inputs, ended, lost>>

\* The request or its answer is lost, or the server answers 5xx or 429.
FailRefresh(t) ==
    LET x == [tab[t] EXCEPT !.boot = IF tab[t].rf.current THEN "idle" ELSE @]
    IN
    /\ Input
    /\ tab[t].rf.pc \in {"sent", "handled"}
    /\ Put(t, Recovered(Settled(x, "transient"), "transient"))
    /\ lost' = lost \cup LostBy(t)
    /\ UNCHANGED <<row, cookie, inbox, orphans, locks, ended>>

\* Set-Cookie of the answer to a refresh.
RefreshCookie(r) ==
    IF r.code = "ok" THEN r.token
    ELSE IF r.code = "denied" THEN None ELSE cookie

\* The answer of a refresh that is not current any more: only the cookie jar
\* sees it.
DropAnswer(t) ==
    /\ tab[t].rf.pc = "handled"
    /\ ~tab[t].rf.current
    /\ cookie' = RefreshCookie(tab[t].rf)
    /\ Put(t, Recovered(Settled(tab[t], "transient"), "transient"))
    /\ UNCHANGED <<row, inbox, orphans, locks, inputs, ended, lost>>

\* The new bundle is accepted; a sign-out that waits for it is sent again.
AcceptBundle(t) ==
    LET r == tab[t].rf
        x == Settled(ApplyAuthBundle(tab[t], r.token.sid), "authenticated")
    IN
    /\ r.pc = "handled" /\ r.current /\ r.code = "ok"
    /\ cookie' = RefreshCookie(r)
    /\ IF tab[t].out.pc = "recovering"
       THEN /\ Put(t, [x EXCEPT !.out = LogoutAnswer(x, r.token, FALSE)])
            /\ row' = LogoutEffect(x, r.token)
       ELSE Put(t, x) /\ UNCHANGED row
    /\ UNCHANGED <<inbox, orphans, locks, inputs, ended, lost>>

\* 409: wait and ask again, or forget the SID and ask again, once.
Again(r) == \/ r.code = "race" /\ r.race < 3
            \/ r.code = "mismatch" /\ r.retry
RunAgain(t) ==
    LET r == tab[t].rf
        x == IF r.code = "mismatch" THEN Reset(tab[t], "idle") ELSE tab[t]
    IN
    /\ r.pc = "handled" /\ r.current /\ Again(r)
    /\ Put(t, [x EXCEPT !.rf.pc = "ready", !.rf.code = "none",
                        !.rf.race = IF r.code = "race" THEN @ + 1 ELSE 0,
                        !.rf.retry = @ /\ r.code = "race"])
    /\ UNCHANGED <<row, cookie, inbox, orphans, locks, inputs, ended, lost>>

\* 401, or a 409 that is not retried: the tab is anonymous.  A call that
\* waited takes the tab to the sign-in page.
EndAnonymous(t) ==
    LET r == tab[t].rf
        outcome == IF r.code = "denied" THEN "anonymous" ELSE "out_of_sync"
        x == Settled(ClearAuthentication(tab[t]), outcome)
        redirect == Waiting(tab[t]) # {} /\ tab[t].page # "signin"
    IN
    /\ r.pc = "handled" /\ r.current /\ r.code # "ok" /\ ~Again(r)
    /\ cookie' = RefreshCookie(r)
    /\ Put(t, IF redirect THEN NewPage("signin") ELSE Recovered(x, outcome))
    /\ Publish(t, "signed_out", IF outcome = "anonymous" THEN tab[t].sess
                                ELSE None,
               IF redirect THEN <<>> ELSE inbox[t])
    /\ UNCHANGED <<row, orphans, locks, inputs, ended, lost>>
----------------------------------------------------------------------------
(***************************************************************************)
(* Route guards.                                                           *)
(***************************************************************************)
\* The user goes to page p.
Navigate(t, p) ==
    /\ Input
    /\ tab[t].live
    /\ tab[t].guard = NoGuard
    /\ tab[t].log = None
    /\ p # tab[t].page
    /\ Put(t, ResolveAuthentication(tab[t], p))
    /\ UNCHANGED <<row, cookie, inbox, orphans, locks, ended, lost>>

\* The guard has its answer: a protected page needs a session, the sign-in page
\* none.  The page is shown, or the guard of the other page takes over.
GuardDecides(t) ==
    LET g == tab[t].guard
        fits == (g.to = "app") = (tab[t].sess # None)
        other == IF g.to = "app" THEN "signin" ELSE "app"
    IN
    /\ g.to # "none" /\ ~g.wait
    /\ Put(t, IF fits THEN [tab[t] EXCEPT !.guard = NoGuard, !.page = g.to,
                                          !.live = TRUE]
              ELSE ResolveAuthentication(tab[t], other))
    /\ UNCHANGED <<row, cookie, inbox, orphans, locks, inputs, ended, lost>>

\* The user reloads the page.
Reload(t) ==
    /\ Input
    /\ tab[t].live
    /\ LoadPage(t, tab[t].page)
    /\ UNCHANGED <<row, cookie, locks, ended>>
----------------------------------------------------------------------------
(***************************************************************************)
(* Login and sign-out.                                                     *)
(***************************************************************************)
\* The server issues a session to a login sent from the sign-in page.
HandleLogin(t, s) ==
    /\ Input
    /\ tab[t].page = "signin" /\ tab[t].live
    /\ tab[t].guard = NoGuard
    /\ tab[t].log = None
    /\ row[s].status = "none"
    /\ row' = [row EXCEPT ![s].status = "active"]
    /\ Put(t, [tab[t] EXCEPT !.log = s])
    /\ UNCHANGED <<cookie, inbox, orphans, locks, ended, lost>>

\* handleLoginSuccess: the bundle is applied, the other tabs are told, the
\* console is opened.
AcceptLogin(t) ==
    LET s == tab[t].log
        x == ApplyAuthBundle([tab[t] EXCEPT !.log = None], s)
    IN
    /\ s # None
    /\ cookie' = [sid |-> s, gen |-> 0]
    /\ Put(t, ResolveAuthentication(x, "app"))
    /\ Publish(t, "authenticated", IF tab[t].sess = s THEN None ELSE s, inbox[t])
    /\ UNCHANGED <<row, orphans, locks, inputs, ended, lost>>

\* handleSignOut: the request is sent and handled.
SignOut(t) ==
    /\ Input
    /\ tab[t].live /\ tab[t].page = "app"
    /\ tab[t].sess # None
    /\ tab[t].out = NoLogout
    /\ row' = LogoutEffect(tab[t], cookie)
    /\ Put(t, [tab[t] EXCEPT !.out = LogoutAnswer(tab[t], cookie, TRUE)])
    /\ UNCHANGED <<cookie, inbox, orphans, locks, ended, lost>>

\* The sign-out succeeds: the client state is cleared and the tabs are told.
AcceptLogout(t) ==
    LET o == tab[t].out IN
    /\ o.pc = "handled" /\ o.code = "ok"
    /\ cookie' = IF o.clears THEN None ELSE cookie
    /\ Put(t, ResolveAuthentication(
                [ClearAuthentication(tab[t]) EXCEPT !.out = NoLogout], "signin"))
    /\ Publish(t, "signed_out", tab[t].sess, inbox[t])
    /\ ended' = [ended EXCEPT ![t] =
                   @ \cup {s \in Sids : s = o.sid /\ ~Active(s)}]
    /\ UNCHANGED <<row, orphans, locks, inputs, lost>>

\* 409 AUTH_SESSION_MISMATCH: recover once through a refresh.
RecoverLogout(t) ==
    LET o == tab[t].out IN
    /\ o.pc = "handled" /\ o.code = "mismatch"
    /\ Put(t, IF o.allow
              THEN RefreshAuthentication(
                     [tab[t] EXCEPT !.out = [NoLogout EXCEPT !.pc = "recovering"]])
              ELSE [tab[t] EXCEPT !.out = NoLogout])
    /\ UNCHANGED <<row, cookie, inbox, orphans, locks, inputs, ended, lost>>

\* The answer is lost: the dialog reports it and nothing is cleared.
FailLogout(t) ==
    /\ Input
    /\ tab[t].out.pc = "handled"
    /\ Put(t, [tab[t] EXCEPT !.out = NoLogout])
    /\ UNCHANGED <<row, cookie, inbox, orphans, locks, ended, lost>>
----------------------------------------------------------------------------
(***************************************************************************)
(* Requests of the console.                                                *)
(***************************************************************************)
\* A page of the console sends a request that the server refuses.  Nothing makes it
\* send one: few pages poll, and no query is repeated when the window gets the focus.
RefusedCall(t) ==
    /\ tab[t].page = "app" /\ tab[t].live
    /\ tab[t].sess # None
    /\ tab[t].calls = {}
    /\ Refuses(tab[t])
    /\ Put(t, [tab[t] EXCEPT !.calls = {[retry |-> FALSE, phase |-> "denied"]}])
    /\ UNCHANGED <<row, cookie, inbox, orphans, locks, inputs, ended, lost>>

\* Mutant: a 401 is reported and forgotten.
ForgottenCall(t, c) ==
    /\ c \in tab[t].calls /\ c.phase = "denied" /\ ~c.retry
    /\ Put(t, [tab[t] EXCEPT !.calls = @ \ {c}])
    /\ UNCHANGED <<row, cookie, inbox, orphans, locks, inputs, ended, lost>>

\* A first 401 asks for a refresh and waits.
RefreshCall(t, c) ==
    /\ c \in tab[t].calls /\ c.phase = "denied" /\ ~c.retry
    /\ Put(t, RefreshAuthentication(
                [tab[t] EXCEPT !.calls =
                   (@ \ {c}) \cup {[retry |-> TRUE, phase |-> "refreshing"]}]))
    /\ UNCHANGED <<row, cookie, inbox, orphans, locks, inputs, ended, lost>>

\* A second 401 clears the tab, whatever session it holds by now, and loads the
\* sign-in page unless the tab is on it.
ExpireCall(t, c) ==
    /\ c \in tab[t].calls /\ c.phase = "denied" /\ c.retry
    /\ IF tab[t].page = "signin"
       THEN /\ Put(t, ClearAuthentication([tab[t] EXCEPT !.calls = @ \ {c}]))
            /\ UNCHANGED <<inbox, orphans, lost>>
       ELSE LoadPage(t, "signin")
    /\ UNCHANGED <<row, cookie, locks, inputs, ended>>
----------------------------------------------------------------------------
(***************************************************************************)
(* Events of the other tabs (RootComponent), and the clocks.               *)
(***************************************************************************)
HearAuthenticated(t) ==
    LET e == Head(inbox[t]) IN
    /\ inbox[t] # <<>> /\ e.kind = "authenticated"
    /\ IF e.sid = tab[t].sess
       THEN /\ inbox' = [inbox EXCEPT ![t] = Tail(@)]
            /\ UNCHANGED <<tab, orphans, lost>>
       ELSE LoadPage(t, tab[t].page)
    /\ UNCHANGED <<row, cookie, locks, inputs, ended>>

HearSignedOut(t) ==
    LET e == Head(inbox[t]) IN
    /\ inbox[t] # <<>> /\ e.kind = "signed_out"
    /\ inbox' = [inbox EXCEPT ![t] = Tail(@)]
    /\ IF e.sid = tab[t].sess
       THEN Put(t, ResolveAuthentication(ClearAuthentication(tab[t]), "signin"))
       ELSE UNCHANGED tab
    /\ UNCHANGED <<row, cookie, orphans, locks, inputs, ended, lost>>

\* The access token of a tab passes its 15 minutes.
ExpireAccess(t) ==
    /\ Input
    /\ tab[t].fresh
    /\ Put(t, [tab[t] EXCEPT !.fresh = FALSE])
    /\ UNCHANGED <<row, cookie, inbox, orphans, locks, ended, lost>>

\* The replay window of the previous refresh token closes.
GraceEnds(s) ==
    /\ row[s].grace
    /\ row' = [row EXCEPT ![s].grace = FALSE]
    /\ UNCHANGED <<cookie, tab, inbox, orphans, locks, inputs, ended, lost>>

\* DeleteLoginSession from another device.
RevokeRemotely(s) ==
    /\ Input
    /\ Active(s)
    /\ row' = [row EXCEPT ![s] = Revoked(s, "remote")]
    /\ UNCHANGED <<cookie, tab, inbox, orphans, locks, ended, lost>>
----------------------------------------------------------------------------
Runner(t) ==
    \/ SendRefresh(t) \/ SkipRefresh(t) \/ HandleRefresh(t)
    \/ DropAnswer(t) \/ AcceptBundle(t) \/ RunAgain(t) \/ EndAnonymous(t)
Signing(t) == AcceptLogin(t) \/ AcceptLogout(t) \/ RecoverLogout(t)
Requests(t) == \E c \in Call : RefreshCall(t, c) \/ ExpireCall(t, c)
Listening(t) == HearAuthenticated(t) \/ HearSignedOut(t)

\* What users, clocks and networks do.
Environment ==
    \/ \E t \in Tabs :
         \/ \E p \in {"app", "signin"} : Navigate(t, p)
         \/ RefusedCall(t)
         \/ Reload(t) \/ ExpireAccess(t) \/ FailRefresh(t) \/ FailLogout(t)
         \/ HandleRefreshOutage(t) \/ SignOut(t)
         \/ \E s \in Sids : HandleLogin(t, s)
    \/ \E s \in Sids : GraceEnds(s) \/ RevokeRemotely(s)
    \/ \E o \in orphans : HandleOrphan(o)

\* What the page of a tab and the server do for it.
TabStep(t) ==
    \/ Runner(t) \/ GuardDecides(t) \/ Signing(t)
    \/ Requests(t) \/ Listening(t)

Next == (\E t \in Tabs : TabStep(t)) \/ Environment

Spec == Init /\ [][Next]_vars

\* The event loop of a tab does not stop while it has something to do.
Fairness == \A t \in Tabs : WF_vars(TabStep(t))

FairSpec == Spec /\ Fairness
----------------------------------------------------------------------------
(***************************************************************************)
(* Properties.                                                             *)
(***************************************************************************)
\* Every variable has its type.
TypeOK ==
    /\ row \in [Sids -> Row]
    /\ cookie \in Token \cup {None}
    /\ tab \in [Tabs -> Tab]
    /\ inbox \in [Tabs -> Seq(Event)]
    /\ orphans \subseteq Orphan
    /\ ended \in [Tabs -> SUBSET Sids]
    /\ locks \in LockModes
    /\ inputs \in 0 .. MaxInputs
    /\ lost \subseteq Sids

\* A session that the sign-out of a tab has ended never comes back to that tab,
\* although a refresh of it may have been answered before the sign-out and
\* arrive after it (authEpoch, auth-session.ts), the cookie may be restored by
\* such an answer, and the tab may be reloaded.
SignedOutStaysOut == \A t \in Tabs : tab[t].sess \notin ended[t]

\* With the web lock, the tabs of one browser never make the server take one of
\* them for a thief: a session is revoked as reused only when the answer to one
\* of its refreshes never reached the browser (RotateUserSessionRefresh).
ReuseOnlyAfterLoss ==
    locks => \A s \in Sids : row[s].why = "reuse" => s \in lost

\* A route guard that waits for resolveAuthentication goes on: no tab waits for
\* ever on the web lock, on a refresh it has joined or on a superseded one.
GuardsDecide == \A t \in Tabs : tab[t].guard.wait ~> ~tab[t].guard.wait

\* Tab t shows the console to a session that is revoked.
Deceived(t) ==
    tab[t].page = "app" /\ tab[t].sess # None /\ ~Active(tab[t].sess)

\* A session that is revoked, from whatever side, leaves every tab that goes on
\* using it: the signed_out event, or a refused request and the refused refresh
\* after it (http-client.ts), reach also a tab that was loading when the event
\* was sent, and a refresh that gets lost is asked for again by the next request.
\* Only a tab that sends no request any more may keep the session, or one at the
\* sign-in page, which a request repeated during its sign-out has brought it.
RevokedLeaves ==
    \A t \in Tabs : Deceived(t) ~> (~Deceived(t) \/ [](tab[t].calls = {}))

\* docs/authentication.md: only when the server has found the refresh cookie
\* invalid does the client enter the completed anonymous state.
AnonymousOnVerdict ==
    [][\A t \in Tabs :
          EndAnonymous(t) /\ tab[t].rf.code = "denied" => ~Usable(cookie)]_vars
============================================================================
