-------------------------- MODULE AuthSessionProofs --------------------------
(***************************************************************************)
(* Proofs about the login sessions of the web console, for every number of *)
(* tabs, sessions and inputs, with and without Web Locks.                  *)
(***************************************************************************)
EXTENDS AuthSession, TLAPS

(***************************************************************************)
(* The inductive invariant.                                                *)
(***************************************************************************)

\* The page x has something that names session s.
Knows(x, s) == x.sess = s \/ x.out.sid = s \/ (x.rf.token # None /\ x.rf.token.sid = s)

\* Session s is known outside of the server, by more than an answer to its login.
Heard(s) ==
    \/ cookie # None /\ cookie.sid = s
    \/ \E u \in Tabs : Knows(tab[u], s)
    \/ \E o \in orphans : o.token # None /\ o.token.sid = s

Fresh(s) == ~Heard(s) /\ row[s].gen = 0 /\ \A u \in Tabs : s \notin ended[u]

\* A session that was not issued, or whose login is not answered yet, was never used.
FreshOK ==
    /\ \A s \in Sids : row[s].status = "none" => Fresh(s) /\ \A u \in Tabs : tab[u].log # s
    /\ \A u \in Tabs : tab[u].log # None =>
          Fresh(tab[u].log) /\ \A v \in Tabs \ {u} : tab[v].log # tab[u].log

\* The page x holds none of the sessions E, and will accept none of them.
OutOK(x, E) ==
    /\ x.sess \notin E
    /\ x.rf.pc = "handled" /\ x.rf.current /\ x.rf.code = "ok" =>
          x.rf.token # None /\ x.rf.token.sid \notin E

EndedOK ==
    \A t \in Tabs : OutOK(tab[t], ended[t]) /\ \A s \in ended[t] : row[s].status = "revoked"

\* The web lock: one runner at a time is past its queue.
Busy(x) == x.rf.pc \in {"ready", "sent", "handled"}

LockOK == locks => \A t, u \in Tabs : Busy(tab[t]) /\ Busy(tab[u]) => t = u

\* The answer that the page x waits for has the newest token of s.
InFlight(x, s) ==
    x.rf.pc = "handled" /\ x.rf.code = "ok" /\ x.rf.token # None /\ x.rf.token.sid = s

Carries(x, s) ==
    InFlight(x, s) \/ (x.rf.pc = "sent" /\ x.rf.token # None /\ x.rf.token.sid = s)

\* As long as no answer was lost, the browser has the newest token of the session s.
Newest(s) ==
    /\ row[s].why # "reuse"
    /\ \A u \in Tabs : Carries(tab[u], s) => tab[u].rf.token.gen = row[s].gen
    /\ cookie # None /\ cookie.sid = s =>
          cookie.gen = row[s].gen \/ \E u \in Tabs : InFlight(tab[u], s)
    /\ \A o \in orphans : o.token # None => o.token.sid # s

NewestOK == locks => \A s \in Sids \ lost : Newest(s)

AuthInv == TypeOK /\ FreshOK /\ EndedOK /\ LockOK /\ NewestOK

(***************************************************************************)
(* The memory of a tab.                                                    *)
(***************************************************************************)

\* The refresh q is p with nothing new learned; q is over, or has not begun.
Same(p, q) == q.pc = p.pc /\ q.token = p.token /\ q.code = p.code /\ (q.current => p.current)
Gone(q) == q.pc \in {"idle", "queued"} /\ q.token = None

\* The page x has learned of no session that y did not know.
Quiet(y, x) ==
    /\ x.sess \in {y.sess, None}
    /\ x.out.sid \in {y.out.sid, y.sess, None}
    /\ x.log \in {y.log, None}
    /\ Same(y.rf, x.rf) \/ Gone(x.rf)

\* ... and has not given up a refresh.
Steady(y, x) == Quiet(y, x) /\ (y.rf.pc # "idle" => Same(y.rf, x.rf))

\* What a page consists of.
LEMMA TabFields ==
  ASSUME NEW x \in Tab
  PROVE  /\ x.sess \in Sids \cup {None} /\ x.fresh \in BOOLEAN /\ x.boot \in {"idle", "checking", "complete"}
         /\ x.page \in {"app", "signin"} /\ x.live \in BOOLEAN /\ x.rf \in Refresh /\ x.guard \in Guard
         /\ x.out \in Logout /\ x.log \in Sids \cup {None} /\ x.calls \in SUBSET Call
  BY DEF Tab

\* What a refresh consists of.
LEMMA RefreshFields ==
  ASSUME NEW r \in Refresh
  PROVE  /\ r.pc \in {"idle", "queued", "ready", "sent", "handled"} /\ r.current \in BOOLEAN /\ r.race \in 0 .. 3
         /\ r.retry \in BOOLEAN /\ r.expect \in Sids \cup {None} /\ r.token \in Token \cup {None}
         /\ r.code \in {"none", "ok", "denied", "mismatch", "race"}
  BY DEF Refresh

\* Nothing is learned in two such steps either, and nothing by standing still.
LEMMA QuietTrans ==
  ASSUME NEW x, NEW y, NEW z, Quiet(x, y), Quiet(y, z)
  PROVE  Quiet(x, z)
  BY DEF Quiet, Same, Gone

\* Two steady steps are one.
LEMMA SteadyTrans ==
  ASSUME NEW x, NEW y, NEW z, Steady(x, y), Steady(y, z)
  PROVE  Steady(x, z)
<1>1. Quiet(x, z)
  BY QuietTrans DEF Steady
<1> QED
  BY <1>1 DEF Steady, Same

\* Nothing is learned by standing still.
LEMMA SteadySelf == ASSUME NEW x PROVE Steady(x, x) /\ Quiet(x, x)
  BY DEF Steady, Quiet, Same

\* The constants.
LEMMA RecordFacts ==
  /\ NoRefresh \in Refresh /\ Gone(NoRefresh) /\ NoRefresh.pc = "idle" /\ NoRefresh.current = FALSE
  /\ Begun \in Refresh /\ Gone(Begun) /\ Begun.pc = "queued"
  /\ NoLogout \in Logout /\ NoLogout.sid = None /\ NoLogout.pc = "idle"
  /\ NoGuard \in Guard
<1>1. NoRefresh \in Refresh /\ Gone(NoRefresh) /\ NoRefresh.pc = "idle" /\ NoRefresh.current = FALSE
  BY DEF NoRefresh, Refresh, Gone
<1>3. Begun \in Refresh /\ Gone(Begun) /\ Begun.pc = "queued"
  BY <1>1 DEF Begun, Refresh, Gone
<1>4. NoLogout \in Logout /\ NoLogout.sid = None /\ NoLogout.pc = "idle" /\ NoGuard \in Guard
  BY DEF NoLogout, Logout, NoGuard, Guard
<1> QED
  BY <1>1, <1>3, <1>4

\* A tab whose epoch has moved.
LEMMA MovedEpoch ==
  ASSUME NEW x \in Tab
  PROVE  /\ [x EXCEPT !.rf.current = FALSE] \in Tab
         /\ [x EXCEPT !.rf.current = FALSE].rf \in Refresh
         /\ Same(x.rf, [x EXCEPT !.rf.current = FALSE].rf)
         /\ [x EXCEPT !.rf.current = FALSE].rf.current = FALSE
         /\ [x EXCEPT !.rf.current = FALSE].sess = x.sess
         /\ [x EXCEPT !.rf.current = FALSE].out = x.out
         /\ [x EXCEPT !.rf.current = FALSE].log = x.log
<1>1. x.rf \in Refresh
  BY TabFields
<1> DEFINE r == [x.rf EXCEPT !.current = FALSE]
<1>2. r \in Refresh /\ Same(x.rf, r) /\ r.current = FALSE
  BY <1>1 DEF Refresh, Same
<1> DEFINE z == [x EXCEPT !.rf.current = FALSE]
<1>3. z = [x EXCEPT !.rf = r]
  OBVIOUS
<1>4. z.rf = r /\ z.sess = x.sess /\ z.out = x.out /\ z.log = x.log
  BY <1>3 DEF Tab
<1> HIDE DEF r
<1>5. z \in Tab
  BY <1>2, <1>3 DEF Tab
<1> QED
  BY <1>2, <1>4, <1>5

\* useAuthStore.reset.
LEMMA ResetFacts ==
  ASSUME NEW x \in Tab, NEW b \in {"idle", "complete"}
  PROVE  /\ Reset(x, b) \in Tab /\ Reset(x, b).sess = None /\ Reset(x, b).rf = x.rf
         /\ Reset(x, b).out = x.out /\ Reset(x, b).log = x.log /\ Reset(x, b).calls = x.calls
  BY DEF Reset, Tab

\* clearAuthentication.
LEMMA ClearFacts ==
  ASSUME NEW x \in Tab
  PROVE  /\ ClearAuthentication(x) \in Tab /\ Steady(x, ClearAuthentication(x))
         /\ ClearAuthentication(x).sess = None /\ ClearAuthentication(x).rf.current = FALSE
         /\ ClearAuthentication(x).out = x.out
<1> DEFINE y == Reset(x, "complete")
<1>1. y \in Tab /\ y.sess = None /\ y.rf = x.rf /\ y.out = x.out /\ y.log = x.log
  BY ResetFacts
<1>2. ClearAuthentication(x) = [y EXCEPT !.rf.current = FALSE]
  BY DEF ClearAuthentication
<1> HIDE DEF y
<1>3. /\ [y EXCEPT !.rf.current = FALSE] \in Tab
      /\ Same(y.rf, [y EXCEPT !.rf.current = FALSE].rf)
      /\ [y EXCEPT !.rf.current = FALSE].rf.current = FALSE
      /\ [y EXCEPT !.rf.current = FALSE].sess = y.sess
      /\ [y EXCEPT !.rf.current = FALSE].out = y.out
      /\ [y EXCEPT !.rf.current = FALSE].log = y.log
  BY <1>1, MovedEpoch
<1> QED
  BY <1>1, <1>2, <1>3 DEF Steady, Quiet

\* refreshAuthentication.
LEMMA JoinFacts ==
  ASSUME NEW x \in Tab
  PROVE  /\ RefreshAuthentication(x) \in Tab /\ Steady(x, RefreshAuthentication(x))
         /\ RefreshAuthentication(x).sess = x.sess
<1>1. CASE x.rf.pc # "idle"
  BY <1>1, SteadySelf DEF RefreshAuthentication
<1>2. CASE x.rf.pc = "idle"
  <2> DEFINE y == [x EXCEPT !.rf = Begun]
  <2>1. y \in Tab /\ y.rf = Begun /\ y.sess = x.sess /\ y.out = x.out /\ y.log = x.log
    BY RecordFacts DEF Tab
  <2>2. RefreshAuthentication(x) = y
    BY <1>2 DEF RefreshAuthentication
  <2> HIDE DEF y
  <2> QED
    BY <1>2, <2>1, <2>2, RecordFacts DEF Steady, Quiet
<1> QED
  BY <1>1, <1>2

\* resolveAuthentication.
LEMMA ResolveFacts ==
  ASSUME NEW x \in Tab, NEW p \in {"app", "signin"}
  PROVE  /\ ResolveAuthentication(x, p) \in Tab /\ Steady(x, ResolveAuthentication(x, p))
         /\ ResolveAuthentication(x, p).sess = x.sess
<1> DEFINE go(w) == [x EXCEPT !.guard = [to |-> p, wait |-> w]]
<1>1. ASSUME NEW w \in BOOLEAN
      PROVE  go(w) \in Tab /\ go(w).sess = x.sess /\ go(w).out = x.out /\ go(w).log = x.log /\ go(w).rf = x.rf
  <2>1. [to |-> p, wait |-> w] \in Guard
    BY DEF Guard
  <2> QED
    BY <2>1 DEF Tab
<1>2. ASSUME NEW w \in BOOLEAN, NEW b \in {"checking", "complete"}
      PROVE  [go(w) EXCEPT !.boot = b] \in Tab /\ Steady(x, [go(w) EXCEPT !.boot = b])
             /\ [go(w) EXCEPT !.boot = b].sess = x.sess
  <2> DEFINE g == go(w)
             y == [g EXCEPT !.boot = b]
  <2>1. g \in Tab /\ g.sess = x.sess /\ g.out = x.out /\ g.log = x.log /\ g.rf = x.rf
    BY <1>1
  <2> HIDE DEF g
  <2>2. y \in Tab /\ y.sess = g.sess /\ y.out = g.out /\ y.log = g.log /\ y.rf = g.rf
    BY <2>1 DEF Tab
  <2> HIDE DEF y
  <2>3. y \in Tab /\ Steady(x, y) /\ y.sess = x.sess
    BY <2>1, <2>2 DEF Steady, Quiet, Same
  <2> QED
    BY <2>3 DEF y, g
<1>3. go(FALSE) \in Tab /\ Steady(x, go(FALSE)) /\ go(FALSE).sess = x.sess
  <2>1. go(FALSE) \in Tab /\ go(FALSE).sess = x.sess /\ go(FALSE).out = x.out /\ go(FALSE).log = x.log
        /\ go(FALSE).rf = x.rf
    BY <1>1
  <2> HIDE DEF go
  <2> QED
    BY <2>1 DEF Steady, Quiet, Same
<1> DEFINE a == [go(FALSE) EXCEPT !.boot = "complete"]
           c == [go(TRUE) EXCEPT !.boot = "checking"]
<1>4. a \in Tab /\ Steady(x, a) /\ a.sess = x.sess
  BY <1>2
<1>5. c \in Tab /\ Steady(x, c) /\ c.sess = x.sess
  BY <1>2
<1>6. ResolveAuthentication(x, p) \in {a, go(FALSE), RefreshAuthentication(c)}
  BY DEF ResolveAuthentication
<1> HIDE DEF a, c, go
<1>7. RefreshAuthentication(c) \in Tab /\ Steady(x, RefreshAuthentication(c))
      /\ RefreshAuthentication(c).sess = x.sess
  BY <1>5, JoinFacts, SteadyTrans
<1> QED
  BY <1>3, <1>4, <1>6, <1>7

\* The refresh is over.
LEMMA SettledFacts ==
  ASSUME NEW x \in Tab, NEW o
  PROVE  /\ Settled(x, o) \in Tab /\ Quiet(x, Settled(x, o)) /\ Settled(x, o).sess = x.sess
         /\ Settled(x, o).out = x.out /\ Settled(x, o).log = x.log /\ Settled(x, o).rf = NoRefresh
         /\ Settled(x, o).page = x.page /\ Settled(x, o).fresh = x.fresh
<1> DEFINE cs == (x.calls \ Waiting(x)) \cup
                     IF o = "authenticated" /\ Refuses(x)
                     THEN {[c EXCEPT !.phase = "denied"] : c \in Waiting(x)}
                     ELSE {}
           g == [x.guard EXCEPT !.wait = FALSE]
           y == [x EXCEPT !.rf = NoRefresh, !.guard = g, !.calls = cs]
<1>1. g \in Guard
  BY TabFields DEF Guard
<1>2. cs \in SUBSET Call
  <2>1. \A c \in Waiting(x) : [c EXCEPT !.phase = "denied"] \in Call
    BY TabFields DEF Waiting, Call
  <2> QED
    BY <2>1, TabFields
<1>3. Settled(x, o) = y
  BY DEF Settled
<1> HIDE DEF cs, g
<1>4. /\ y \in Tab /\ y.sess = x.sess /\ y.out = x.out /\ y.log = x.log /\ y.rf = NoRefresh
      /\ y.page = x.page /\ y.fresh = x.fresh
  BY <1>1, <1>2, RecordFacts DEF Tab
<1> HIDE DEF y
<1> QED
  BY <1>3, <1>4, RecordFacts DEF Quiet

\* A page whose sign-out is forgotten.
LEMMA NoLogoutFacts ==
  ASSUME NEW x \in Tab
  PROVE  /\ [x EXCEPT !.out = NoLogout] \in Tab /\ Steady(x, [x EXCEPT !.out = NoLogout])
         /\ [x EXCEPT !.out = NoLogout].sess = x.sess /\ [x EXCEPT !.out = NoLogout].rf = x.rf
<1> DEFINE y == [x EXCEPT !.out = NoLogout]
<1>1. y \in Tab /\ y.sess = x.sess /\ y.out = NoLogout /\ y.log = x.log /\ y.rf = x.rf
  BY RecordFacts DEF Tab
<1> HIDE DEF y
<1>2. Steady(x, y)
  BY <1>1, RecordFacts DEF Steady, Quiet, Same
<1> QED
  BY <1>1, <1>2 DEF y

\* The sign-out that waits for the refresh.
LEMMA RecoveredFacts ==
  ASSUME NEW x \in Tab, NEW o
  PROVE  Recovered(x, o) \in Tab /\ Quiet(x, Recovered(x, o))
<1> DEFINE a == [x EXCEPT !.out = NoLogout]
           c == ClearAuthentication(x)
           b == [c EXCEPT !.out = NoLogout]
           d == ResolveAuthentication(b, "signin")
<1>1. a \in Tab /\ Quiet(x, a)
  BY NoLogoutFacts DEF Steady
<1>2. c \in Tab /\ Quiet(x, c)
  BY ClearFacts DEF Steady
<1>3. Recovered(x, o) \in {x, a, d}
  BY DEF Recovered
<1> HIDE DEF a, c
<1>4. b \in Tab /\ Quiet(c, b)
  BY <1>2, NoLogoutFacts DEF Steady
<1> HIDE DEF b
<1>5. d \in Tab /\ Quiet(b, d)
  BY <1>4, ResolveFacts DEF Steady
<1> HIDE DEF d
<1>6. Quiet(x, b)
  BY <1>2, <1>4, QuietTrans
<1>7. Quiet(x, d)
  BY <1>5, <1>6, QuietTrans
<1> QED
  BY <1>1, <1>3, <1>5, <1>7, SteadySelf

\* A page that is loaded.
LEMMA NewPageFacts ==
  ASSUME NEW p \in {"app", "signin"}, NEW x
  PROVE  NewPage(p) \in Tab /\ Quiet(x, NewPage(p)) /\ NewPage(p).sess = None
<1>1. [to |-> p, wait |-> TRUE] \in Guard
  BY DEF Guard
<1>2. /\ NewPage(p) \in Tab /\ NewPage(p).sess = None /\ NewPage(p).rf = Begun
      /\ NewPage(p).out = NoLogout /\ NewPage(p).log = None
  BY <1>1, RecordFacts DEF NewPage, Tab
<1> QED
  BY <1>2, RecordFacts DEF Quiet

\* applyAuthBundle.
LEMMA ApplyFacts ==
  ASSUME NEW x \in Tab, NEW s \in Sids
  PROVE  /\ ApplyAuthBundle(x, s) \in Tab /\ ApplyAuthBundle(x, s).sess = s
         /\ ApplyAuthBundle(x, s).out = x.out /\ ApplyAuthBundle(x, s).log = x.log
         /\ Same(x.rf, ApplyAuthBundle(x, s).rf) /\ ApplyAuthBundle(x, s).rf.current = FALSE
<1> DEFINE r == [x.rf EXCEPT !.current = FALSE]
           y == [x EXCEPT !.sess = s, !.fresh = TRUE, !.boot = "complete", !.rf = r]
<1>1. r \in Refresh /\ Same(x.rf, r) /\ r.current = FALSE
  <2>1. x.rf \in Refresh
    BY TabFields
  <2> QED
    BY <2>1 DEF Refresh, Same
<1>2. ApplyAuthBundle(x, s) = y
  BY DEF ApplyAuthBundle
<1> HIDE DEF r
<1>3. y \in Tab /\ y.sess = s /\ y.out = x.out /\ y.log = x.log /\ y.rf = r
  BY <1>1 DEF Tab
<1> HIDE DEF y
<1> QED
  BY <1>1, <1>2, <1>3

(***************************************************************************)
(* The server.                                                             *)
(***************************************************************************)

\* What becomes of a row e when no token is rotated and none is found reused.
Settles(e, f) ==
    /\ f.status = "none" <=> e.status = "none"
    /\ e.status = "revoked" => f.status = "revoked"
    /\ f.gen = e.gen
    /\ f.why = "reuse" => e.why = "reuse"

RowsKeep == row' \in [Sids -> Row] /\ \A s \in Sids : Settles(row[s], row'[s])

\* What a row consists of.
LEMMA RowFields ==
  ASSUME TypeOK, NEW s \in Sids
  PROVE  /\ row[s] \in Row /\ row[s].status \in {"none", "active", "revoked"} /\ row[s].gen \in Nat
         /\ row[s].grace \in BOOLEAN
  BY DEF TypeOK, Row

\* A server that does nothing.
LEMMA RowsIdle == ASSUME TypeOK, row' = row PROVE RowsKeep
  BY DEF TypeOK, RowsKeep, Settles

\* A session is revoked for another reason than reuse.
LEMMA RevokedFacts ==
  ASSUME TypeOK, NEW s \in Sids, NEW why \in {"logout", "remote"}, Active(s)
  PROVE  Revoked(s, why) \in Row /\ Settles(row[s], Revoked(s, why))
<1>1. row[s] \in Row /\ row[s].status = "active"
  BY RowFields DEF Active
<1> DEFINE f == Revoked(s, why)
<1>2. f \in Row /\ f.status = "revoked" /\ f.gen = row[s].gen /\ f.why = why
  BY <1>1 DEF Revoked, Row
<1> QED
  BY <1>1, <1>2 DEF Settles

\* The sign-out revokes active sessions only.
LEMMA LogoutKeeps ==
  ASSUME TypeOK, NEW x, NEW k, row' = LogoutEffect(x, k)
  PROVE  RowsKeep
<1> DEFINE S == LogoutRevokes(IF x.fresh THEN x.sess ELSE None, x.sess, k)
<1>1. \A s \in S : Active(s)
  BY DEF LogoutRevokes
<1>2. row' = [s \in Sids |-> IF s \in S THEN Revoked(s, "logout") ELSE row[s]]
  BY DEF LogoutEffect
<1> HIDE DEF S
<1>3. ASSUME NEW s \in Sids PROVE row'[s] \in Row /\ Settles(row[s], row'[s])
  <2>1. CASE s \in S
    BY <1>1, <1>2, <2>1, RevokedFacts
  <2>2. CASE s \notin S
    BY <1>2, <2>2, RowFields DEF Settles
  <2> QED
    BY <2>1, <2>2
<1> QED
  BY <1>2, <1>3 DEF RowsKeep

\* One row changes.
LEMMA OneRow ==
  ASSUME TypeOK, NEW s \in Sids, NEW f \in Row, Settles(row[s], f), row' = [row EXCEPT ![s] = f]
  PROVE  RowsKeep
<1>1. row \in [Sids -> Row]
  BY DEF TypeOK
<1> QED
  BY <1>1 DEF RowsKeep, Settles

\* RefreshLoginSession and RotateUserSessionRefresh: only the session of the token is
\* touched, a granted token is the newest, and the newest is never found reused.
LEMMA RefreshFacts ==
  ASSUME TypeOK, NEW k \in Token \cup {None}, NEW e, row' = RefreshEffect(k, e)
  PROVE  /\ row' \in [Sids -> Row]
         /\ \A s \in Sids : /\ row'[s].status = "none" <=> row[s].status = "none"
                            /\ row[s].status = "revoked" => row'[s].status = "revoked"
         /\ \A s \in Sids : k = None \/ k.sid # s => row'[s] = row[s]
         /\ RefreshCode(k, e) = "ok" => /\ k # None /\ Active(k.sid)
                                        /\ row'[k.sid].gen = k.gen + 1 /\ row'[k.sid].why = row[k.sid].why
         /\ RefreshCode(k, e) # "ok" => \A s \in Sids : row'[s].gen = row[s].gen
         /\ k # None => (k.gen = row[k.sid].gen => row'[k.sid].why = row[k.sid].why)
<1>0. row \in [Sids -> Row] /\ (k # None => k.sid \in Sids /\ k.gen \in Nat)
  BY DEF TypeOK, Token
<1>1. CASE RefreshCode(k, e) = "ok"
  <2>1. k # None /\ Usable(k) /\ (k.gen + 1 = row[k.sid].gen \/ k.gen = row[k.sid].gen)
    BY <1>1 DEF RefreshCode
  <2>2. Active(k.sid) /\ row[k.sid].status = "active" /\ row[k.sid] \in Row
    BY <1>0, <2>1 DEF Usable, Active
  <2>3. CASE k.gen = row[k.sid].gen
    <3> DEFINE f == Rotated(k)
    <3>1. f \in Row /\ f.status = row[k.sid].status /\ f.gen = k.gen + 1 /\ f.why = row[k.sid].why
      <4> DEFINE o == row[k.sid]
                 g == k.gen
                 n == k.gen + 1
                 h == [o EXCEPT !.gen = n, !.prev = g, !.grace = TRUE]
      <4>1. o \in Row /\ g \in Nat /\ n \in Nat
        BY <1>0, <2>1, <2>2
      <4>2. f = h
        BY DEF Rotated
      <4> HIDE DEF o, g, n
      <4>3. h \in Row /\ h.status = o.status /\ h.gen = n /\ h.why = o.why
        BY <4>1 DEF Row
      <4> QED
        BY <4>2, <4>3 DEF n, o
    <3>2. row' = [row EXCEPT ![k.sid] = f]
      BY <1>1, <2>3 DEF RefreshEffect
    <3> HIDE DEF f
    <3> QED
      BY <1>0, <1>1, <2>1, <2>2, <3>1, <3>2
  <2>4. CASE k.gen # row[k.sid].gen
    <3>1. row' = row
      BY <1>1, <2>4 DEF RefreshEffect
    <3> QED
      BY <1>0, <1>1, <2>1, <2>2, <2>4, <3>1
  <2> QED
    BY <2>3, <2>4
<1>2. CASE RefreshCode(k, e) = "denied" /\ Reused(k)
  <2>1. k # None /\ Active(k.sid) /\ ~Usable(k)
    BY <1>2 DEF RefreshCode, Reused
  <2>2. row[k.sid] \in Row /\ row[k.sid].status = "active" /\ k.gen # row[k.sid].gen
    BY <1>0, <2>1 DEF Usable, Active
  <2> DEFINE f == Revoked(k.sid, "reuse")
  <2>3. f \in Row /\ f.status = "revoked" /\ f.gen = row[k.sid].gen
    BY <2>2 DEF Revoked, Row
  <2>4. row' = [row EXCEPT ![k.sid] = f]
    BY <1>2 DEF RefreshEffect
  <2> HIDE DEF f
  <2> QED
    BY <1>0, <1>2, <2>1, <2>2, <2>3, <2>4
<1>3. CASE RefreshCode(k, e) # "ok" /\ ~(RefreshCode(k, e) = "denied" /\ Reused(k))
  <2>1. row' = row
    BY <1>3 DEF RefreshEffect
  <2> QED
    BY <1>0, <1>3, <2>1
<1> QED
  BY <1>1, <1>2, <1>3

(***************************************************************************)
(* The steps.                                                              *)
(***************************************************************************)

RestOK ==
    /\ cookie \in Token \cup {None} /\ inbox \in [Tabs -> Seq(Event)] /\ orphans \subseteq Orphan
    /\ inputs \in 0 .. MaxInputs /\ lost \subseteq Sids

\* The parts of the invariant.
LEMMA Parts ==
  ASSUME AuthInv
  PROVE  /\ TypeOK /\ FreshOK /\ EndedOK /\ LockOK /\ NewestOK /\ RestOK
         /\ tab \in [Tabs -> Tab] /\ ended \in [Tabs -> SUBSET Sids] /\ row \in [Sids -> Row]
         /\ locks \in LockModes /\ None \notin Sids
  BY AuthAssumption DEF AuthInv, TypeOK, RestOK

\* FreshOK survives a step that brings no news of a session to the browser, other than the
\* answer to a login.
LEMMA FreshKept ==
  ASSUME AuthInv,
         \A s \in Sids : Heard(s)' => Heard(s),
         \A s \in Sids : row'[s].status = "none" => row[s].status = "none",
         \A s \in Sids : Fresh(s) => row'[s].gen = 0,
         \A u \in Tabs : \A s \in ended'[u] : s \in ended[u] \/ Heard(s),
         \A u \in Tabs : tab'[u].log \in {tab[u].log, None}
  PROVE  FreshOK'
<1>0. FreshOK /\ \A u \in Tabs : tab[u].log \in Sids \cup {None}
  BY Parts, TabFields
<1>1. ASSUME NEW s \in Sids, Fresh(s) PROVE Fresh(s)'
  BY <1>1 DEF Fresh
<1>2. ASSUME NEW s \in Sids, row'[s].status = "none" PROVE Fresh(s)' /\ \A u \in Tabs : tab'[u].log # s
  <2>1. Fresh(s) /\ \A u \in Tabs : tab[u].log # s
    BY <1>0, <1>2 DEF FreshOK
  <2>2. s # None
    BY AuthAssumption
  <2> QED
    BY <1>1, <2>1, <2>2
<1>3. ASSUME NEW u \in Tabs, tab'[u].log # None
      PROVE  Fresh(tab[u].log)' /\ tab'[u].log = tab[u].log /\ \A v \in Tabs \ {u} : tab'[v].log # tab'[u].log
  <2> DEFINE s == tab[u].log
  <2>1. tab'[u].log = s /\ s # None /\ s \in Sids
    BY <1>0, <1>3
  <2>2. Fresh(s) /\ \A v \in Tabs \ {u} : tab[v].log # s
    BY <1>0, <2>1 DEF FreshOK
  <2>3. s' = s
    BY <2>1
  <2> HIDE DEF s
  <2>4. Fresh(s)'
    <3>1. PICK c \in Sids : c = s
      BY <2>1
    <3>2. Fresh(c)'
      BY <1>1, <2>2, <3>1
    <3> QED
      BY <2>3, <3>1, <3>2
  <2> QED
    BY <1>3, <2>1, <2>2, <2>4 DEF s
<1> QED
  BY <1>2, <1>3 DEF FreshOK

\* The tokens of session s are still the newest when tab t has become x.
StillNewest(x, s) ==
    /\ Carries(x, s) => x.rf.token.gen = row[s].gen
    /\ cookie' # None /\ cookie'.sid = s =>
          cookie'.gen = row[s].gen \/ \E u \in Tabs : InFlight(tab'[u], s)
    /\ \A o \in orphans' : o.token # None => o.token.sid # s

\* The browser may name session s: it names nothing after the step that it did not before.
NoNews(x) ==
    /\ \A s \in Sids : Knows(x, s) => Heard(s)
    /\ cookie' # None => Heard(cookie'.sid)
    /\ \A o \in orphans' : o.token # None => Heard(o.token.sid)

\* A step of tab t, after which it is x and its sign-outs have ended the sessions E.
LEMMA OneTab ==
  ASSUME AuthInv, NEW t \in Tabs, NEW x \in Tab, NEW E \in SUBSET Sids,
         tab' = [tab EXCEPT ![t] = x], ended' = [ended EXCEPT ![t] = E],
         RowsKeep, locks' = locks, RestOK', lost \subseteq lost',
         NoNews(x), x.log \in {tab[t].log, None},
         ended[t] \subseteq E, \A s \in E \ ended[t] : Heard(s) /\ row'[s].status = "revoked",
         OutOK(x, E),
         locks /\ Busy(x) => \A u \in Tabs \ {t} : ~Busy(tab[u]),
         locks => \A s \in Sids \ lost' : StillNewest(x, s)
  PROVE  AuthInv'
<1>0. /\ TypeOK /\ FreshOK /\ EndedOK /\ LockOK /\ NewestOK
      /\ tab \in [Tabs -> Tab] /\ ended \in [Tabs -> SUBSET Sids] /\ row \in [Sids -> Row]
  BY Parts
<1>1. /\ tab' \in [Tabs -> Tab] /\ tab'[t] = x /\ (\A u \in Tabs \ {t} : tab'[u] = tab[u])
      /\ ended' \in [Tabs -> SUBSET Sids] /\ ended'[t] = E /\ \A u \in Tabs \ {t} : ended'[u] = ended[u]
  BY <1>0
<1>2. TypeOK'
  BY <1>0, <1>1 DEF TypeOK, RestOK, RowsKeep
<1>3. FreshOK'
  <2>1. ASSUME NEW s \in Sids, Heard(s)' PROVE Heard(s)
    <3>1. CASE cookie' # None /\ cookie'.sid = s
      BY <3>1 DEF NoNews
    <3>2. CASE \E o \in orphans' : o.token # None /\ o.token.sid = s
      BY <3>2 DEF NoNews
    <3>3. CASE \E u \in Tabs : Knows(tab'[u], s)
      <4>1. PICK u \in Tabs : Knows(tab'[u], s)
        BY <3>3
      <4>2. CASE u = t
        BY <1>1, <4>1, <4>2 DEF NoNews
      <4>3. CASE u # t
        BY <1>1, <4>1, <4>3 DEF Heard
      <4> QED
        BY <4>2, <4>3
    <3> QED
      BY <2>1, <3>1, <3>2, <3>3 DEF Heard
  <2>2. \A s \in Sids : row'[s].status = "none" => row[s].status = "none"
    BY DEF RowsKeep, Settles
  <2>3. \A s \in Sids : Fresh(s) => row'[s].gen = 0
    BY DEF RowsKeep, Settles, Fresh
  <2>4. \A u \in Tabs : \A s \in ended'[u] : s \in ended[u] \/ Heard(s)
    BY <1>1
  <2>5. \A u \in Tabs : tab'[u].log \in {tab[u].log, None}
    BY <1>1
  <2> QED
    BY <2>1, <2>2, <2>3, <2>4, <2>5, FreshKept
<1>4. EndedOK'
  <2> SUFFICES ASSUME NEW u \in Tabs
               PROVE  OutOK(tab'[u], ended'[u]) /\ \A s \in ended'[u] : row'[s].status = "revoked"
    BY DEF EndedOK, OutOK
  <2>1. ASSUME NEW s \in ended[u] PROVE row'[s].status = "revoked"
    <3>1. row[s].status = "revoked" /\ s \in Sids
      BY <1>0 DEF EndedOK
    <3> QED
      BY <3>1 DEF RowsKeep, Settles
  <2>2. CASE u = t
    BY <1>1, <2>1, <2>2
  <2>3. CASE u # t
    BY <1>0, <1>1, <2>1, <2>3 DEF EndedOK
  <2> QED
    BY <2>2, <2>3
<1>5. LockOK'
  <2> SUFFICES ASSUME locks, NEW u \in Tabs, NEW v \in Tabs, Busy(tab'[u]), Busy(tab'[v]) PROVE u = v
    BY DEF LockOK, Busy
  <2> QED
    BY <1>0, <1>1 DEF LockOK
<1>6. NewestOK'
  <2> SUFFICES ASSUME locks, NEW s \in Sids \ lost'
               PROVE  /\ row'[s].why # "reuse"
                      /\ \A u \in Tabs : Carries(tab'[u], s) => tab'[u].rf.token.gen = row'[s].gen
                      /\ cookie' # None /\ cookie'.sid = s =>
                            cookie'.gen = row'[s].gen \/ \E u \in Tabs : InFlight(tab'[u], s)
                      /\ \A o \in orphans' : o.token # None => o.token.sid # s
    BY DEF NewestOK, Newest, Carries, InFlight
  <2>1. Newest(s) /\ StillNewest(x, s)
    BY <1>0 DEF NewestOK
  <2>2. row'[s].gen = row[s].gen /\ (row'[s].why = "reuse" => row[s].why = "reuse")
    BY DEF RowsKeep, Settles
  <2>3. ASSUME NEW u \in Tabs, Carries(tab'[u], s) PROVE tab'[u].rf.token.gen = row'[s].gen
    <3>1. CASE u = t
      BY <1>1, <2>1, <2>2, <2>3, <3>1 DEF StillNewest
    <3>2. CASE u # t
      BY <1>1, <2>1, <2>2, <2>3, <3>2 DEF Newest
    <3> QED
      BY <3>1, <3>2
  <2> QED
    BY <2>1, <2>2, <2>3 DEF Newest, StillNewest
<1> QED
  BY <1>2, <1>3, <1>4, <1>5, <1>6 DEF AuthInv

\* What the browser may do with the answer that tab t waits for, the page of t becoming x:
\* use it for the cookie, keep it, or count it as lost.
AnswerKept(t, x) ==
    /\ \/ cookie' \in {cookie, None}
       \/ tab[t].rf.pc = "handled" /\ tab[t].rf.code = "ok" /\ cookie' = tab[t].rf.token
    /\ \A o \in orphans' : \/ o \in orphans
                           \/ o.token = tab[t].rf.token /\ (o.token # None => o.token.sid \in lost')
    /\ Gone(x.rf) /\ tab[t].rf.pc = "handled" /\ tab[t].rf.code = "ok" /\ tab[t].rf.token # None =>
          tab[t].rf.token.sid \in lost' \/ cookie' = tab[t].rf.token

\* A step in which a page learns nothing, and its sign-outs have ended the sessions E.
LEMMA QuietEnd ==
  ASSUME AuthInv, NEW t \in Tabs, NEW x \in Tab, NEW E \in SUBSET Sids,
         tab' = [tab EXCEPT ![t] = x], ended' = [ended EXCEPT ![t] = E],
         RowsKeep, locks' = locks, RestOK', lost \subseteq lost', Quiet(tab[t], x), AnswerKept(t, x),
         ended[t] \subseteq E, \A s \in E \ ended[t] : Heard(s) /\ row'[s].status = "revoked",
         OutOK(x, E)
  PROVE  AuthInv'
<1> DEFINE y == tab[t]
<1>0. /\ y \in Tab /\ y.rf \in Refresh /\ LockOK /\ NewestOK /\ None \notin Sids
      /\ (y.rf.token # None => y.rf.token \in Token /\ y.rf.token.sid \in Sids)
      /\ (x.rf.token # None => x.rf.token \in Token /\ x.rf.token.sid \in Sids)
      /\ x.sess \in Sids \cup {None} /\ x.out \in Logout
  BY Parts, TabFields, RefreshFields DEF Token
<1>1. NoNews(x)
  <2>1. ASSUME NEW s \in Sids, Knows(x, s) PROVE Heard(s)
    <3>1. Knows(y, s)
      BY <1>0, <2>1 DEF Knows, Quiet, Same, Gone
    <3> QED
      BY <3>1 DEF Heard
  <2>2. y.rf.token # None => Heard(y.rf.token.sid)
    BY DEF Heard, Knows
  <2>3. cookie' # None => Heard(cookie'.sid)
    BY <2>2 DEF AnswerKept, Heard
  <2>4. \A o \in orphans' : o.token # None => Heard(o.token.sid)
    BY <2>2 DEF AnswerKept, Heard
  <2> QED
    BY <2>1, <2>3, <2>4 DEF NoNews
<1>2. x.log \in {tab[t].log, None}
  BY DEF Quiet
<1>3. locks /\ Busy(x) => \A u \in Tabs \ {t} : ~Busy(tab[u])
  BY <1>0 DEF Quiet, Same, Gone, Busy, LockOK
<1>4. tab'[t] = x /\ \A u \in Tabs \ {t} : tab'[u] = tab[u]
  BY Parts
<1>5. ASSUME locks, NEW s \in Sids \ lost' PROVE StillNewest(x, s)
  <2>1. Newest(s)
    BY <1>0, <1>5 DEF NewestOK
  <2>2. Carries(x, s) => Carries(y, s) /\ x.rf.token = y.rf.token
    BY DEF Carries, InFlight, Quiet, Same, Gone
  <2>3. Carries(y, s) => y.rf.token.gen = row[s].gen
    BY <2>1 DEF Newest
  <2>4. ASSUME cookie' # None, cookie'.sid = s
        PROVE  cookie'.gen = row[s].gen \/ \E u \in Tabs : InFlight(tab'[u], s)
    <3>1. CASE tab[t].rf.pc = "handled" /\ tab[t].rf.code = "ok" /\ cookie' = tab[t].rf.token
      <4>1. Carries(y, s)
        BY <2>4, <3>1 DEF Carries, InFlight
      <4> QED
        BY <2>3, <3>1, <4>1
    <3>2. CASE cookie' = cookie
      <4>1. cookie.gen = row[s].gen \/ \E u \in Tabs : InFlight(tab[u], s)
        BY <2>1, <2>4, <3>2 DEF Newest
      <4>2. ASSUME NEW u \in Tabs, InFlight(tab[u], s)
            PROVE  cookie'.gen = row[s].gen \/ \E v \in Tabs : InFlight(tab'[v], s)
        <5>1. CASE u # t
          BY <1>4, <4>2, <5>1
        <5>2. CASE u = t /\ Same(y.rf, x.rf)
          <6>1. InFlight(x, s)
            BY <4>2, <5>2 DEF InFlight, Same
          <6> QED
            BY <1>4, <6>1
        <5>3. CASE u = t /\ Gone(x.rf)
          <6>1. y.rf.pc = "handled" /\ y.rf.code = "ok" /\ y.rf.token # None /\ y.rf.token.sid = s
            BY <4>2, <5>3 DEF InFlight
          <6>2. cookie' = y.rf.token
            BY <5>3, <6>1 DEF AnswerKept
          <6> QED
            BY <3>1, <6>1, <6>2
        <5> QED
          BY <5>1, <5>2, <5>3 DEF Quiet
      <4> QED
        BY <3>2, <4>1, <4>2
    <3> QED
      BY <2>4, <3>1, <3>2 DEF AnswerKept
  <2>5. \A o \in orphans' : o.token # None => o.token.sid # s
    BY <2>1 DEF AnswerKept, Newest
  <2> QED
    BY <2>2, <2>3, <2>4, <2>5 DEF StillNewest
<1> HIDE DEF y
<1> QED
  BY <1>1, <1>2, <1>3, <1>5, OneTab

\* What a page holds, a page that has learned nothing does not make worse.
LEMMA QuietOut ==
  ASSUME AuthInv, NEW t \in Tabs, NEW x \in Tab, Quiet(tab[t], x)
  PROVE  OutOK(x, ended[t])
<1>1. OutOK(tab[t], ended[t]) /\ None \notin ended[t]
  BY Parts DEF EndedOK
<1> QED
  BY <1>1 DEF OutOK, Quiet, Same, Gone

\* A step in which a page learns nothing and signs out of nothing.
LEMMA QuietStep ==
  ASSUME AuthInv, NEW t \in Tabs, NEW x \in Tab, tab' = [tab EXCEPT ![t] = x], ended' = ended,
         RowsKeep, locks' = locks, RestOK', lost \subseteq lost', Quiet(tab[t], x), AnswerKept(t, x)
  PROVE  AuthInv'
<1>1. ended[t] \in SUBSET Sids /\ ended' = [ended EXCEPT ![t] = ended[t]]
  BY Parts
<1>2. OutOK(x, ended[t])
  BY QuietOut
<1>3. \A s \in ended[t] \ ended[t] : Heard(s) /\ row'[s].status = "revoked"
  OBVIOUS
<1> QED
  BY <1>1, <1>2, <1>3, QuietEnd

\* A page that learns nothing, while the browser keeps its cookie and its orphans.
LEMMA CalmStep ==
  ASSUME AuthInv, NEW t \in Tabs, NEW x \in Tab, tab' = [tab EXCEPT ![t] = x], Quiet(tab[t], x),
         RowsKeep, UNCHANGED <<cookie, orphans, locks, ended, lost>>,
         inbox' \in [Tabs -> Seq(Event)], inputs' \in 0 .. MaxInputs,
         Same(tab[t].rf, x.rf) \/ tab[t].rf.pc # "handled"
  PROVE  AuthInv'
<1>1. RestOK'
  BY Parts DEF RestOK
<1>2. AnswerKept(t, x)
  BY DEF AnswerKept, Same, Gone
<1>3. ended' = ended /\ locks' = locks /\ lost \subseteq lost'
  OBVIOUS
<1> QED
  BY <1>1, <1>2, <1>3, QuietStep

\* A page that does not give up its refresh.
LEMMA SteadyStep ==
  ASSUME AuthInv, NEW t \in Tabs, NEW x \in Tab, tab' = [tab EXCEPT ![t] = x], Steady(tab[t], x),
         RowsKeep, UNCHANGED <<cookie, orphans, locks, ended, lost>>,
         inbox' \in [Tabs -> Seq(Event)], inputs' \in 0 .. MaxInputs
  PROVE  AuthInv'
<1>1. Quiet(tab[t], x) /\ (Same(tab[t].rf, x.rf) \/ tab[t].rf.pc # "handled")
  BY DEF Steady
<1> QED
  BY <1>1, CalmStep

\* A page that changes elsewhere.
LEMMA Elsewhere ==
  ASSUME NEW y, NEW x, x.sess = y.sess, x.out = y.out, x.log = y.log, x.rf = y.rf
  PROVE  Steady(y, x)
  BY DEF Steady, Quiet, Same

\* The inputs.
LEMMA InputFacts ==
  ASSUME AuthInv
  PROVE  /\ (Input => inputs' \in 0 .. MaxInputs) /\ (inputs' = inputs => inputs' \in 0 .. MaxInputs)
         /\ (inbox' = inbox => inbox' \in [Tabs -> Seq(Event)])
         /\ (row' = row => RowsKeep)
<1>1. TypeOK /\ inputs \in 0 .. MaxInputs /\ inbox \in [Tabs -> Seq(Event)]
  BY Parts DEF RestOK
<1>2. Input => inputs' \in 0 .. MaxInputs
  BY <1>1, AuthAssumption DEF Input
<1> QED
  BY <1>1, <1>2, RowsIdle

\* publishAuthSessionEvent.
LEMMA PublishFacts ==
  ASSUME AuthInv, NEW t \in Tabs, NEW kind \in {"authenticated", "signed_out"}, NEW s \in Sids \cup {None},
         NEW own \in Seq(Event), Publish(t, kind, s, own)
  PROVE  inbox' \in [Tabs -> Seq(Event)]
<1>1. inbox \in [Tabs -> Seq(Event)]
  BY Parts DEF RestOK
<1>2. ASSUME NEW u \in Tabs PROVE inbox'[u] \in Seq(Event)
  <2>1. inbox'[u] = IF u = t THEN own
                    ELSE IF tab[u].live /\ s # None
                    THEN Append(inbox[u], [kind |-> kind, sid |-> s])
                    ELSE inbox[u]
    BY DEF Publish
  <2>2. s # None => [kind |-> kind, sid |-> s] \in Event
    BY DEF Event
  <2> DEFINE e == [kind |-> kind, sid |-> s]
  <2> HIDE DEF e
  <2>3. s # None => Append(inbox[u], e) \in Seq(Event)
    BY <1>1, <2>2 DEF e
  <2> QED
    BY <1>1, <2>1, <2>3 DEF e
<1>3. inbox' = [u \in Tabs |-> inbox'[u]]
  BY DEF Publish
<1> QED
  BY <1>2, <1>3

\* What a tab is.
LEMMA TabHere ==
  ASSUME AuthInv, NEW t \in Tabs
  PROVE  /\ TypeOK /\ tab[t] \in Tab /\ tab[t].sess \in Sids \cup {None} /\ tab[t].rf \in Refresh
         /\ tab[t].rf.token \in Token \cup {None} /\ tab[t].log \in Sids \cup {None}
         /\ inbox[t] \in Seq(Event) /\ tab[t].page \in {"app", "signin"} /\ tab[t].guard \in Guard
         /\ tab[t].out \in Logout /\ tab[t].calls \in SUBSET Call
         /\ ended[t] \in SUBSET Sids
  BY Parts, TabFields, RefreshFields DEF RestOK

\* The answer to a sign-out names the session of the store.
LEMMA AnswerFacts ==
  ASSUME NEW x \in Tab, NEW k, NEW a \in BOOLEAN
  PROVE  LogoutAnswer(x, k, a) \in Logout /\ LogoutAnswer(x, k, a).sid = x.sess
<1> DEFINE b == IF x.fresh THEN x.sess ELSE None
           c == LogoutClears(b, x.sess, k)
           d == LogoutCode(x.sess, k)
<1>1. c \in BOOLEAN
  BY DEF LogoutClears
<1>2. d \in {"ok", "mismatch"}
  BY DEF LogoutCode
<1>3. x.sess \in Sids \cup {None}
  BY TabFields
<1>4. LogoutAnswer(x, k, a) = [pc |-> "handled", sid |-> x.sess, clears |-> c, allow |-> a, code |-> d]
  BY DEF LogoutAnswer
<1> HIDE DEF b, c, d
<1> QED
  BY <1>1, <1>2, <1>3, <1>4 DEF Logout

\* Route guards, lost sign-outs, refused calls and expired access tokens.
LEMMA TabSteps ==
  ASSUME AuthInv, NEW t \in Tabs,
         \/ \E p \in {"app", "signin"} : Navigate(t, p)
         \/ GuardDecides(t) \/ FailLogout(t) \/ RefusedCall(t) \/ ExpireAccess(t)
  PROVE  AuthInv'
<1>0. tab[t] \in Tab /\ tab[t].guard \in Guard /\ inbox' = inbox
  BY TabHere DEF Navigate, GuardDecides, FailLogout, RefusedCall, ExpireAccess
<1>1. /\ UNCHANGED <<cookie, orphans, locks, ended, lost>> /\ RowsKeep
      /\ inbox' \in [Tabs -> Seq(Event)] /\ inputs' \in 0 .. MaxInputs
  BY InputFacts DEF Navigate, GuardDecides, FailLogout, RefusedCall, ExpireAccess
<1>2. ASSUME NEW x \in Tab, tab' = [tab EXCEPT ![t] = x], Steady(tab[t], x) PROVE AuthInv'
  BY <1>1, <1>2, SteadyStep
<1>3. ASSUME NEW p \in {"app", "signin"}, Put(t, ResolveAuthentication(tab[t], p)) PROVE AuthInv'
  BY <1>0, <1>2, <1>3, ResolveFacts DEF Put
<1>4. CASE \E p \in {"app", "signin"} : Navigate(t, p)
  BY <1>3, <1>4 DEF Navigate
<1>5. CASE GuardDecides(t)
  <2> DEFINE g == tab[t].guard
             other == IF g.to = "app" THEN "signin" ELSE "app"
             y == [tab[t] EXCEPT !.guard = NoGuard, !.page = g.to, !.live = TRUE]
  <2>1. g.to \in {"app", "signin"}
    BY <1>0, <1>5 DEF GuardDecides, Guard
  <2>2. y \in Tab /\ y.sess = tab[t].sess /\ y.out = tab[t].out /\ y.log = tab[t].log /\ y.rf = tab[t].rf
    <3> HIDE DEF g
    <3> QED
      BY <1>0, <2>1, RecordFacts DEF Tab
  <2>3. Put(t, y) \/ Put(t, ResolveAuthentication(tab[t], other))
    BY <1>5 DEF GuardDecides
  <2>4. other \in {"app", "signin"}
    OBVIOUS
  <2> HIDE DEF y, other
  <2>5. Steady(tab[t], y)
    BY <2>2, Elsewhere
  <2> QED
    BY <1>2, <1>3, <2>2, <2>3, <2>4, <2>5 DEF Put
<1>6. CASE FailLogout(t)
  <2>1. [tab[t] EXCEPT !.out = NoLogout] \in Tab /\ Steady(tab[t], [tab[t] EXCEPT !.out = NoLogout])
    BY <1>0, NoLogoutFacts
  <2> QED
    BY <1>2, <1>6, <2>1 DEF FailLogout, Put
<1>7. CASE RefusedCall(t)
  <2> DEFINE y == [tab[t] EXCEPT !.calls = {[retry |-> FALSE, phase |-> "denied"]}]
  <2>1. {[retry |-> FALSE, phase |-> "denied"]} \in SUBSET Call
    BY DEF Call
  <2>2. y \in Tab /\ y.sess = tab[t].sess /\ y.out = tab[t].out /\ y.log = tab[t].log /\ y.rf = tab[t].rf
    BY <1>0, <2>1 DEF Tab
  <2>3. tab' = [tab EXCEPT ![t] = y]
    BY <1>7 DEF RefusedCall, Put
  <2> HIDE DEF y
  <2> QED
    BY <1>2, <2>2, <2>3, Elsewhere
<1>8. CASE ExpireAccess(t)
  <2> DEFINE y == [tab[t] EXCEPT !.fresh = FALSE]
  <2>2. y \in Tab /\ y.sess = tab[t].sess /\ y.out = tab[t].out /\ y.log = tab[t].log /\ y.rf = tab[t].rf
    BY <1>0 DEF Tab
  <2>3. tab' = [tab EXCEPT ![t] = y]
    BY <1>8 DEF ExpireAccess, Put
  <2> HIDE DEF y
  <2> QED
    BY <1>2, <2>2, <2>3, Elsewhere
<1> QED
  BY <1>4, <1>5, <1>6, <1>7, <1>8

\* handleSignOut, and the recovery of a mismatch.
LEMMA SignOutStep ==
  ASSUME AuthInv, NEW t \in Tabs, SignOut(t) \/ RecoverLogout(t)
  PROVE  AuthInv'
<1>0. tab[t] \in Tab /\ inbox' = inbox /\ TypeOK
  BY TabHere DEF SignOut, RecoverLogout
<1>1. /\ UNCHANGED <<cookie, orphans, locks, ended, lost>>
      /\ inbox' \in [Tabs -> Seq(Event)] /\ inputs' \in 0 .. MaxInputs
  BY InputFacts DEF SignOut, RecoverLogout
<1>2. ASSUME NEW x \in Tab, tab' = [tab EXCEPT ![t] = x], Steady(tab[t], x), RowsKeep PROVE AuthInv'
  BY <1>1, <1>2, SteadyStep
<1>3. CASE SignOut(t)
  <2> DEFINE o == LogoutAnswer(tab[t], cookie, TRUE)
             y == [tab[t] EXCEPT !.out = o]
  <2>1. o \in Logout /\ o.sid = tab[t].sess
    BY <1>0, AnswerFacts
  <2>2. tab' = [tab EXCEPT ![t] = y] /\ row' = LogoutEffect(tab[t], cookie)
    BY <1>3 DEF SignOut, Put
  <2> HIDE DEF o
  <2>3. y \in Tab /\ y.sess = tab[t].sess /\ y.out = o /\ y.log = tab[t].log /\ y.rf = tab[t].rf
    BY <1>0, <2>1 DEF Tab
  <2> HIDE DEF y
  <2>4. Steady(tab[t], y)
    BY <2>1, <2>3 DEF Steady, Quiet, Same
  <2>5. RowsKeep
    BY <1>0, <2>2, LogoutKeeps
  <2> QED
    BY <1>2, <2>2, <2>3, <2>4, <2>5
<1>4. CASE RecoverLogout(t)
  <2> DEFINE o == [NoLogout EXCEPT !.pc = "recovering"]
             y == [tab[t] EXCEPT !.out = o]
             z == [tab[t] EXCEPT !.out = NoLogout]
  <2>1. o \in Logout /\ o.sid = None
    BY RecordFacts DEF Logout
  <2>2. tab' = [tab EXCEPT ![t] = RefreshAuthentication(y)] \/ tab' = [tab EXCEPT ![t] = z]
    BY <1>4 DEF RecoverLogout, Put
  <2>3. z \in Tab /\ Steady(tab[t], z)
    BY <1>0, NoLogoutFacts
  <2> HIDE DEF o, z
  <2>4. y \in Tab /\ y.sess = tab[t].sess /\ y.out = o /\ y.log = tab[t].log /\ y.rf = tab[t].rf
    BY <1>0, <2>1 DEF Tab
  <2> HIDE DEF y
  <2>5. Steady(tab[t], y)
    BY <2>1, <2>4 DEF Steady, Quiet, Same
  <2>6. RefreshAuthentication(y) \in Tab /\ Steady(y, RefreshAuthentication(y))
    BY <2>4, JoinFacts
  <2>7. Steady(tab[t], RefreshAuthentication(y))
    BY <2>5, <2>6, SteadyTrans
  <2>8. RowsKeep
    BY <1>4, InputFacts DEF RecoverLogout
  <2> QED
    BY <1>2, <2>2, <2>3, <2>6, <2>7, <2>8
<1> QED
  BY <1>3, <1>4

\* A page is loaded: its refresh is abandoned, and counts as lost.
LEMMA LoadStep ==
  ASSUME AuthInv, NEW t \in Tabs, NEW p \in {"app", "signin"}, LoadPage(t, p),
         row' = row, cookie' = cookie, locks' = locks, ended' = ended, inputs' \in 0 .. MaxInputs
  PROVE  AuthInv'
<1>0. /\ tab[t].rf.token \in Token \cup {None} /\ tab[t].rf \in Refresh /\ tab[t].rf.expect \in Sids \cup {None}
      /\ (tab[t].rf.token # None => tab[t].rf.token.sid \in Sids)
      /\ RestOK
  BY TabHere, Parts, RefreshFields DEF Token
<1>1. NewPage(p) \in Tab /\ Quiet(tab[t], NewPage(p)) /\ tab' = [tab EXCEPT ![t] = NewPage(p)]
  BY NewPageFacts DEF LoadPage, Put
<1>2. lost' = lost \cup LostBy(t) /\ orphans' = orphans \cup Abandoned(t) /\ inbox' = [inbox EXCEPT ![t] = <<>>]
  BY DEF LoadPage
<1>3. LostBy(t) \subseteq Sids
  BY <1>0 DEF LostBy, Unanswered
<1>4. Abandoned(t) \subseteq Orphan
  BY <1>0 DEF Abandoned, Orphan
<1>5. RestOK'
  BY <1>0, <1>2, <1>3, <1>4 DEF RestOK
<1>6. AnswerKept(t, NewPage(p))
  <2>1. \A o \in Abandoned(t) : o.token = tab[t].rf.token /\ (o.token # None => o.token.sid \in LostBy(t))
    BY DEF Abandoned, LostBy, Unanswered
  <2>2. tab[t].rf.pc = "handled" /\ tab[t].rf.token # None => tab[t].rf.token.sid \in LostBy(t)
    BY DEF LostBy, Unanswered
  <2> QED
    BY <1>2, <2>1, <2>2 DEF AnswerKept
<1>7. RowsKeep
  BY InputFacts
<1> QED
  BY <1>1, <1>2, <1>5, <1>6, <1>7, QuietStep

\* A call that was refused.
LEMMA CallStep ==
  ASSUME AuthInv, NEW t \in Tabs, NEW c \in Call, RefreshCall(t, c) \/ ExpireCall(t, c)
  PROVE  AuthInv'
<1>0. tab[t] \in Tab /\ tab[t].calls \in SUBSET Call
  BY TabHere
<1>1. CASE RefreshCall(t, c)
  <2> DEFINE n == (tab[t].calls \ {c}) \cup {[retry |-> TRUE, phase |-> "refreshing"]}
             y == [tab[t] EXCEPT !.calls = n]
  <2>0. [retry |-> TRUE, phase |-> "refreshing"] \in Call
    BY DEF Call
  <2>1. n \in SUBSET Call
    BY <1>0, <2>0
  <2>2. tab' = [tab EXCEPT ![t] = RefreshAuthentication(y)]
    BY <1>1 DEF RefreshCall, Put
  <2> HIDE DEF n
  <2>3. y \in Tab /\ y.sess = tab[t].sess /\ y.out = tab[t].out /\ y.log = tab[t].log /\ y.rf = tab[t].rf
    BY <1>0, <2>1 DEF Tab
  <2> HIDE DEF y
  <2>4. RefreshAuthentication(y) \in Tab /\ Steady(tab[t], RefreshAuthentication(y))
    BY <2>3, JoinFacts, Elsewhere, SteadyTrans
  <2>5. /\ UNCHANGED <<cookie, orphans, locks, ended, lost>> /\ RowsKeep
        /\ inbox' \in [Tabs -> Seq(Event)] /\ inputs' \in 0 .. MaxInputs
    BY <1>1, InputFacts DEF RefreshCall
  <2> QED
    BY <2>2, <2>4, <2>5, SteadyStep
<1>2. CASE ExpireCall(t, c) /\ tab[t].page = "signin"
  <2> DEFINE n == tab[t].calls \ {c}
             y == [tab[t] EXCEPT !.calls = n]
  <2>1. n \in SUBSET Call
    BY <1>0
  <2>2. tab' = [tab EXCEPT ![t] = ClearAuthentication(y)]
    BY <1>2 DEF ExpireCall, Put
  <2> HIDE DEF n
  <2>3. y \in Tab /\ y.sess = tab[t].sess /\ y.out = tab[t].out /\ y.log = tab[t].log /\ y.rf = tab[t].rf
    BY <1>0, <2>1 DEF Tab
  <2> HIDE DEF y
  <2>4. ClearAuthentication(y) \in Tab /\ Steady(tab[t], ClearAuthentication(y))
    BY <2>3, ClearFacts, Elsewhere, SteadyTrans
  <2>5. /\ UNCHANGED <<cookie, orphans, locks, ended, lost>> /\ RowsKeep
        /\ inbox' \in [Tabs -> Seq(Event)] /\ inputs' \in 0 .. MaxInputs
    BY <1>2, InputFacts DEF ExpireCall
  <2> QED
    BY <2>2, <2>4, <2>5, SteadyStep
<1>3. CASE ExpireCall(t, c) /\ tab[t].page # "signin"
  <2>1. LoadPage(t, "signin") /\ row' = row /\ cookie' = cookie /\ locks' = locks /\ ended' = ended
        /\ inputs' = inputs
    BY <1>3 DEF ExpireCall
  <2>2. inputs' \in 0 .. MaxInputs
    BY <2>1, InputFacts
  <2> QED
    BY <2>1, <2>2, LoadStep
<1> QED
  BY <1>1, <1>2, <1>3

\* Reloads, and events of the other tabs.
LEMMA HearStep ==
  ASSUME AuthInv, NEW t \in Tabs, Reload(t) \/ HearAuthenticated(t) \/ HearSignedOut(t)
  PROVE  AuthInv'
<1>0. tab[t] \in Tab /\ tab[t].page \in {"app", "signin"} /\ inbox[t] \in Seq(Event)
      /\ inbox \in [Tabs -> Seq(Event)]
  BY TabHere, Parts DEF RestOK
<1>1. CASE Reload(t)
  <2>1. inputs' \in 0 .. MaxInputs
    BY <1>1, InputFacts DEF Reload
  <2>2. LoadPage(t, tab[t].page) /\ row' = row /\ cookie' = cookie /\ locks' = locks /\ ended' = ended
    BY <1>1 DEF Reload
  <2> QED
    BY <1>0, <2>1, <2>2, LoadStep
<1>2. ASSUME inbox[t] # <<>>, inbox' = [inbox EXCEPT ![t] = Tail(@)]
      PROVE  inbox' \in [Tabs -> Seq(Event)]
  <2>1. Tail(inbox[t]) \in Seq(Event)
    BY <1>0, <1>2
  <2> QED
    BY <1>0, <1>2, <2>1
<1>3. CASE HearAuthenticated(t)
  <2>0. inputs' \in 0 .. MaxInputs /\ row' = row /\ cookie' = cookie /\ locks' = locks /\ ended' = ended
    BY <1>3, InputFacts DEF HearAuthenticated
  <2>1. CASE Head(inbox[t]).sid = tab[t].sess
    <3>1. /\ inbox' \in [Tabs -> Seq(Event)] /\ tab' = tab /\ orphans' = orphans /\ lost' = lost
      BY <1>2, <1>3, <2>1 DEF HearAuthenticated
    <3>2. tab' = [tab EXCEPT ![t] = tab[t]] /\ Steady(tab[t], tab[t]) /\ RowsKeep
      BY <2>0, <3>1, Parts, SteadySelf, InputFacts
    <3> QED
      BY <1>0, <2>0, <3>1, <3>2, SteadyStep
  <2>2. CASE Head(inbox[t]).sid # tab[t].sess
    <3>1. LoadPage(t, tab[t].page)
      BY <1>3, <2>2 DEF HearAuthenticated
    <3> QED
      BY <1>0, <2>0, <3>1, LoadStep
  <2> QED
    BY <2>1, <2>2
<1>4. CASE HearSignedOut(t)
  <2>1. /\ inputs' \in 0 .. MaxInputs /\ RowsKeep /\ UNCHANGED <<cookie, orphans, locks, ended, lost>>
        /\ inbox' \in [Tabs -> Seq(Event)]
    BY <1>2, <1>4, InputFacts DEF HearSignedOut
  <2> DEFINE c == ClearAuthentication(tab[t])
             y == ResolveAuthentication(c, "signin")
  <2>2. c \in Tab /\ Steady(tab[t], c)
    BY <1>0, ClearFacts
  <2>3. tab' = [tab EXCEPT ![t] = y] \/ tab' = [tab EXCEPT ![t] = tab[t]]
    <3>1. tab' = [tab EXCEPT ![t] = y] \/ tab' = tab
      BY <1>4 DEF HearSignedOut, Put
    <3> QED
      BY <3>1, Parts
  <2> HIDE DEF c
  <2>4. y \in Tab /\ Steady(c, y)
    BY <2>2, ResolveFacts
  <2> HIDE DEF y
  <2>5. Steady(tab[t], y) /\ Steady(tab[t], tab[t])
    BY <2>2, <2>4, SteadyTrans, SteadySelf
  <2> QED
    BY <1>0, <2>1, <2>3, <2>4, <2>5, SteadyStep
<1> QED
  BY <1>1, <1>3, <1>4

\* A refresh ends without an answer that the page uses, or with a refusal.
LEMMA EndStep ==
  ASSUME AuthInv, NEW t \in Tabs, SkipRefresh(t) \/ FailRefresh(t) \/ DropAnswer(t) \/ EndAnonymous(t)
  PROVE  AuthInv'
<1>0. /\ tab[t] \in Tab /\ inbox[t] \in Seq(Event) /\ TypeOK /\ RestOK /\ tab[t].rf.token \in Token \cup {None}
      /\ (tab[t].rf.token # None => tab[t].rf.token.sid \in Sids) /\ tab[t].sess \in Sids \cup {None}
  BY TabHere, Parts DEF Token
<1>1. ASSUME NEW y \in Tab, NEW o
      PROVE  Recovered(Settled(y, o), o) \in Tab /\ Quiet(y, Recovered(Settled(y, o), o))
  <2>1. Settled(y, o) \in Tab /\ Quiet(y, Settled(y, o))
    BY SettledFacts
  <2>2. Recovered(Settled(y, o), o) \in Tab /\ Quiet(Settled(y, o), Recovered(Settled(y, o), o))
    BY <2>1, RecoveredFacts
  <2> QED
    BY <2>1, <2>2, QuietTrans
<1>2. CASE SkipRefresh(t)
  <2> DEFINE x == Recovered(Settled(tab[t], "transient"), "transient")
  <2>1. x \in Tab /\ Quiet(tab[t], x)
    BY <1>0, <1>1
  <2>2. tab' = [tab EXCEPT ![t] = x] /\ tab[t].rf.pc # "handled"
    BY <1>2 DEF SkipRefresh, Put, Runs
  <2>3. /\ UNCHANGED <<cookie, orphans, locks, ended, lost>> /\ RowsKeep
        /\ inbox' \in [Tabs -> Seq(Event)] /\ inputs' \in 0 .. MaxInputs
    BY <1>2, InputFacts DEF SkipRefresh
  <2> HIDE DEF x
  <2> QED
    BY <2>1, <2>2, <2>3, CalmStep
<1>3. CASE FailRefresh(t)
  <2> DEFINE b == IF tab[t].rf.current THEN "idle" ELSE tab[t].boot
             y == [tab[t] EXCEPT !.boot = b]
             x == Recovered(Settled(y, "transient"), "transient")
  <2>1. b \in {"idle", "checking", "complete"}
    BY <1>0, TabFields
  <2>2. /\ tab' = [tab EXCEPT ![t] = x] /\ lost' = lost \cup LostBy(t)
        /\ UNCHANGED <<row, cookie, inbox, orphans, locks, ended>> /\ Input
    BY <1>3 DEF FailRefresh, Put
  <2> HIDE DEF b
  <2>3. y \in Tab /\ y.sess = tab[t].sess /\ y.out = tab[t].out /\ y.log = tab[t].log /\ y.rf = tab[t].rf
    BY <1>0, <2>1 DEF Tab
  <2> HIDE DEF y
  <2>4. Quiet(tab[t], y)
    BY <2>3, Elsewhere DEF Steady
  <2>5. x \in Tab /\ Quiet(y, x)
    BY <1>1, <2>3
  <2> HIDE DEF x
  <2>6. Quiet(tab[t], x)
    BY <2>4, <2>5, QuietTrans
  <2>7. LostBy(t) \subseteq Sids
    BY <1>0 DEF LostBy, Unanswered
  <2>8. inputs' \in 0 .. MaxInputs /\ RowsKeep
    BY <2>2, InputFacts
  <2>9. RestOK'
    BY <1>0, <2>2, <2>7, <2>8 DEF RestOK
  <2>10. AnswerKept(t, x)
    <3>1. tab[t].rf.pc = "handled" /\ tab[t].rf.token # None => tab[t].rf.token.sid \in LostBy(t)
      BY DEF LostBy, Unanswered
    <3> QED
      BY <2>2, <3>1 DEF AnswerKept
  <2> QED
    BY <2>2, <2>5, <2>6, <2>8, <2>9, <2>10, QuietStep
<1>4. CASE DropAnswer(t)
  <2> DEFINE x == Recovered(Settled(tab[t], "transient"), "transient")
  <2>1. x \in Tab /\ Quiet(tab[t], x)
    BY <1>0, <1>1
  <2>2. /\ tab' = [tab EXCEPT ![t] = x] /\ cookie' = RefreshCookie(tab[t].rf) /\ tab[t].rf.pc = "handled"
        /\ UNCHANGED <<row, inbox, orphans, locks, inputs, ended, lost>>
    BY <1>4 DEF DropAnswer, Put
  <2> HIDE DEF x
  <2>3. RowsKeep
    BY <2>2, InputFacts
  <2>4. RestOK'
    BY <1>0, <2>2 DEF RestOK, RefreshCookie
  <2>5. AnswerKept(t, x)
    BY <2>2 DEF AnswerKept, RefreshCookie
  <2> QED
    BY <2>1, <2>2, <2>3, <2>4, <2>5, QuietStep
<1>5. CASE EndAnonymous(t)
  <2> DEFINE o == IF tab[t].rf.code = "denied" THEN "anonymous" ELSE "out_of_sync"
             c == ClearAuthentication(tab[t])
             y == Recovered(Settled(c, o), o)
             redirect == Waiting(tab[t]) # {} /\ tab[t].page # "signin"
             x == IF redirect THEN NewPage("signin") ELSE y
             s == IF o = "anonymous" THEN tab[t].sess ELSE None
             own == IF redirect THEN <<>> ELSE inbox[t]
  <2>1. /\ tab' = [tab EXCEPT ![t] = x] /\ cookie' = RefreshCookie(tab[t].rf) /\ tab[t].rf.pc = "handled"
        /\ tab[t].rf.code # "ok" /\ UNCHANGED <<row, orphans, locks, inputs, ended, lost>>
        /\ Publish(t, "signed_out", s, own)
    BY <1>5 DEF EndAnonymous, Put
  <2>2. c \in Tab /\ Quiet(tab[t], c)
    BY <1>0, ClearFacts DEF Steady
  <2>3. s \in Sids \cup {None} /\ own \in Seq(Event)
    BY <1>0
  <2> HIDE DEF c, o, s, own
  <2>4. y \in Tab /\ Quiet(c, y)
    BY <1>1, <2>2
  <2> HIDE DEF y
  <2>5. Quiet(tab[t], y)
    BY <2>2, <2>4, QuietTrans
  <2>6. NewPage("signin") \in Tab /\ Quiet(tab[t], NewPage("signin"))
    BY NewPageFacts
  <2>7. x \in Tab /\ Quiet(tab[t], x)
    BY <2>4, <2>5, <2>6
  <2> HIDE DEF x
  <2>8. inbox' \in [Tabs -> Seq(Event)]
    BY <2>1, <2>3, PublishFacts
  <2>9. RowsKeep
    BY <2>1, InputFacts
  <2>10. RestOK'
    BY <1>0, <2>1, <2>8 DEF RestOK, RefreshCookie
  <2>11. AnswerKept(t, x)
    BY <2>1 DEF AnswerKept, RefreshCookie
  <2> QED
    BY <2>1, <2>7, <2>9, <2>10, <2>11, QuietStep
<1> QED
  BY <1>2, <1>3, <1>4, <1>5

\* The sign-out succeeds: what it has ended is revoked, and the epoch moves.
LEMMA LogoutStep ==
  ASSUME AuthInv, NEW t \in Tabs, AcceptLogout(t)
  PROVE  AuthInv'
<1>0. /\ tab[t] \in Tab /\ inbox[t] \in Seq(Event) /\ TypeOK /\ RestOK /\ FreshOK
      /\ tab[t].sess \in Sids \cup {None} /\ ended[t] \in SUBSET Sids
  BY TabHere, Parts
<1> DEFINE y == tab[t]
           c == ClearAuthentication(y)
           d == [c EXCEPT !.out = NoLogout]
           x == ResolveAuthentication(d, "signin")
           new == {s \in Sids : s = y.out.sid /\ ~Active(s)}
           E == ended[t] \cup new
<1>1. /\ tab' = [tab EXCEPT ![t] = x] /\ cookie' \in {cookie, None} /\ ended' = [ended EXCEPT ![t] = E]
      /\ Publish(t, "signed_out", y.sess, inbox[t]) /\ UNCHANGED <<row, orphans, locks, inputs, lost>>
  BY DEF AcceptLogout, Put
<1>2. c \in Tab /\ Steady(y, c) /\ c.sess = None /\ c.rf.current = FALSE
  BY <1>0, ClearFacts
<1> HIDE DEF c
<1>3. d \in Tab /\ Steady(c, d) /\ d.sess = c.sess /\ d.rf = c.rf
  BY <1>2, NoLogoutFacts
<1> HIDE DEF d
<1>4. x \in Tab /\ Steady(d, x) /\ x.sess = d.sess
  BY <1>3, ResolveFacts
<1> HIDE DEF x
<1>5. Steady(y, d)
  BY <1>2, <1>3, SteadyTrans
<1>6. Steady(y, x)
  BY <1>4, <1>5, SteadyTrans
<1>7. E \in SUBSET Sids /\ ended[t] \subseteq E
  BY <1>0
<1>8. ASSUME NEW s \in E \ ended[t] PROVE Heard(s) /\ row'[s].status = "revoked"
  <2>1. s \in Sids /\ s = y.out.sid /\ ~Active(s)
    BY <1>8
  <2>2. Heard(s)
    BY <2>1 DEF Heard, Knows
  <2>3. row[s].status # "none"
    BY <1>0, <2>1, <2>2 DEF FreshOK, Fresh
  <2> QED
    BY <1>0, <1>1, <2>1, <2>2, <2>3, RowFields DEF Active
<1>9. OutOK(x, E)
  <2>1. x.sess \notin E
    BY <1>2, <1>3, <1>4, <1>7, AuthAssumption
  <2>2. ~(x.rf.pc = "handled" /\ x.rf.current)
    BY <1>2, <1>3, <1>4 DEF Steady, Quiet, Same, Gone
  <2> QED
    BY <2>1, <2>2 DEF OutOK
<1>10. inbox' \in [Tabs -> Seq(Event)]
  BY <1>0, <1>1, PublishFacts
<1>11. RestOK'
  BY <1>0, <1>1, <1>10 DEF RestOK
<1>12. AnswerKept(t, x)
  <2>1. Gone(x.rf) => y.rf.pc # "handled"
    BY <1>6 DEF Steady, Same, Gone
  <2> QED
    BY <1>1, <2>1 DEF AnswerKept
<1>13. RowsKeep /\ Quiet(tab[t], x)
  BY <1>1, <1>6, InputFacts DEF Steady
<1> HIDE DEF E, new
<1> QED
  BY <1>1, <1>4, <1>7, <1>8, <1>9, <1>11, <1>12, <1>13, QuietEnd

\* A step of a page that signs out of nothing, and loses nothing.
LEMMA PageStep ==
  ASSUME AuthInv, NEW t \in Tabs, NEW x \in Tab, tab' = [tab EXCEPT ![t] = x],
         RowsKeep, UNCHANGED <<orphans, locks, ended, lost>>, cookie' \in Token \cup {None},
         inbox' \in [Tabs -> Seq(Event)], inputs' \in 0 .. MaxInputs,
         \A s \in Sids : Knows(x, s) => Heard(s), cookie' # None => Heard(cookie'.sid),
         x.log \in {tab[t].log, None}, OutOK(x, ended[t]),
         locks /\ Busy(x) => \A u \in Tabs \ {t} : ~Busy(tab[u]),
         locks => \A s \in Sids \ lost :
             /\ Carries(x, s) => x.rf.token.gen = row[s].gen
             /\ cookie' # None /\ cookie'.sid = s =>
                   cookie'.gen = row[s].gen \/ \E u \in Tabs : InFlight(tab'[u], s)
  PROVE  AuthInv'
<1>0. RestOK /\ NewestOK /\ ended \in [Tabs -> SUBSET Sids]
  BY Parts
<1>1. RestOK' /\ lost \subseteq lost' /\ locks' = locks
  BY <1>0 DEF RestOK
<1>2. ended[t] \in SUBSET Sids /\ ended' = [ended EXCEPT ![t] = ended[t]]
      /\ \A s \in ended[t] \ ended[t] : Heard(s) /\ row'[s].status = "revoked"
  BY <1>0
<1>3. NoNews(x)
  BY DEF NoNews, Heard
<1>4. ASSUME locks, NEW s \in Sids \ lost' PROVE StillNewest(x, s)
  BY <1>0, <1>4 DEF StillNewest, NewestOK, Newest
<1> QED
  BY <1>1, <1>2, <1>3, <1>4, OneTab

\* A page with another refresh.
LEMMA NewRefresh ==
  ASSUME NEW y \in Tab, NEW r \in Refresh, NEW x, x = [y EXCEPT !.rf = r]
  PROVE  x \in Tab /\ x.rf = r /\ x.sess = y.sess /\ x.out = y.out /\ x.log = y.log
  BY DEF Tab

\* The request leaves with the cookie, under the web lock.
LEMMA SendStep ==
  ASSUME AuthInv, NEW t \in Tabs, SendRefresh(t)
  PROVE  AuthInv'
<1>0. /\ tab[t] \in Tab /\ tab[t].rf \in Refresh /\ tab[t].sess \in Sids \cup {None} /\ RestOK /\ NewestOK /\ LockOK
      /\ EndedOK /\ tab \in [Tabs -> Tab]
  BY TabHere, Parts
<1> DEFINE y == tab[t]
           r == [y.rf EXCEPT !.pc = "sent", !.expect = y.sess, !.token = cookie]
           x == [y EXCEPT !.rf = r]
<1>1. r \in Refresh /\ r.pc = "sent" /\ r.token = cookie
  BY <1>0 DEF Refresh, RestOK
<1>2. /\ tab' = [tab EXCEPT ![t] = x] /\ UNCHANGED <<row, cookie, inbox, orphans, locks, inputs, ended, lost>>
      /\ Runs(t)
  BY DEF SendRefresh, Put
<1>e. x = [y EXCEPT !.rf = r]
  OBVIOUS
<1> HIDE DEF r, x
<1>3. x \in Tab /\ x.rf = r /\ x.sess = y.sess /\ x.out = y.out /\ x.log = y.log
  BY <1>0, <1>1, <1>e, NewRefresh
<1>4. ASSUME NEW s \in Sids, Knows(x, s) PROVE Heard(s)
  BY <1>1, <1>3, <1>4 DEF Knows, Heard
<1>5. OutOK(x, ended[t])
  BY <1>0, <1>1, <1>3 DEF OutOK, EndedOK
<1>6. locks => \A u \in Tabs \ {t} : ~Busy(tab[u])
  BY <1>0, <1>2 DEF Runs, LockFree, LockOK, Busy
<1>7. ASSUME locks, NEW s \in Sids \ lost
      PROVE  /\ Carries(x, s) => x.rf.token.gen = row[s].gen
             /\ cookie' # None /\ cookie'.sid = s =>
                   cookie'.gen = row[s].gen \/ \E u \in Tabs : InFlight(tab'[u], s)
  <2>1. \A u \in Tabs : ~InFlight(tab[u], s)
    BY <1>2, <1>6, <1>7 DEF InFlight, Busy, Runs
  <2>2. cookie # None /\ cookie.sid = s => cookie.gen = row[s].gen
    BY <1>0, <1>7, <2>1 DEF NewestOK, Newest
  <2> QED
    BY <1>1, <1>2, <1>3, <2>2 DEF Carries, InFlight
<1>8. RowsKeep /\ inbox' \in [Tabs -> Seq(Event)] /\ inputs' \in 0 .. MaxInputs
  BY <1>2, InputFacts
<1>9. cookie' \in Token \cup {None} /\ (cookie' # None => Heard(cookie'.sid)) /\ x.log \in {tab[t].log, None}
  BY <1>0, <1>2, <1>3 DEF RestOK, Heard
<1> QED
  BY <1>2, <1>3, <1>4, <1>5, <1>6, <1>7, <1>8, <1>9, PageStep

\* The tokens after a step of a page that leaves row and cookie alone and has no part in it.
LEMMA SameNewest ==
  ASSUME AuthInv, NEW t \in Tabs, NEW x \in Tab, tab' = [tab EXCEPT ![t] = x], cookie' = cookie,
         \A s \in Sids : ~Carries(x, s), \A s \in Sids : ~InFlight(tab[t], s), locks
  PROVE  \A s \in Sids \ lost :
             /\ Carries(x, s) => x.rf.token.gen = row[s].gen
             /\ cookie' # None /\ cookie'.sid = s =>
                   cookie'.gen = row[s].gen \/ \E u \in Tabs : InFlight(tab'[u], s)
<1>1. NewestOK /\ \A u \in Tabs \ {t} : tab'[u] = tab[u]
  BY Parts
<1> QED
  BY <1>1 DEF NewestOK, Newest

\* The server cannot read the session.
LEMMA OutageStep ==
  ASSUME AuthInv, NEW t \in Tabs, HandleRefreshOutage(t)
  PROVE  AuthInv'
<1>0. /\ tab[t] \in Tab /\ tab[t].rf \in Refresh /\ RestOK /\ LockOK /\ EndedOK
  BY TabHere, Parts
<1> DEFINE y == tab[t]
           r == [y.rf EXCEPT !.pc = "handled", !.code = "denied"]
           x == [y EXCEPT !.rf = r]
<1>1. r \in Refresh /\ r.pc = "handled" /\ r.token = y.rf.token /\ r.code = "denied"
  BY <1>0 DEF Refresh
<1>2. /\ tab' = [tab EXCEPT ![t] = x] /\ UNCHANGED <<row, cookie, inbox, orphans, locks, ended, lost>>
      /\ y.rf.pc = "sent" /\ Input
  BY DEF HandleRefreshOutage, Put
<1>e. x = [y EXCEPT !.rf = r]
  OBVIOUS
<1> HIDE DEF r, x
<1>3. x \in Tab /\ x.rf = r /\ x.sess = y.sess /\ x.out = y.out /\ x.log = y.log
  BY <1>0, <1>1, <1>e, NewRefresh
<1>4. ASSUME NEW s \in Sids, Knows(x, s) PROVE Heard(s)
  BY <1>1, <1>3, <1>4 DEF Knows, Heard
<1>5. OutOK(x, ended[t])
  BY <1>0, <1>1, <1>3 DEF OutOK, EndedOK
<1>6. locks => \A u \in Tabs \ {t} : ~Busy(tab[u])
  BY <1>0, <1>2 DEF LockOK, Busy
<1>7. (\A s \in Sids : ~Carries(x, s)) /\ \A s \in Sids : ~InFlight(tab[t], s)
  BY <1>1, <1>2, <1>3 DEF Carries, InFlight
<1>8. RowsKeep /\ inbox' \in [Tabs -> Seq(Event)] /\ inputs' \in 0 .. MaxInputs
  BY <1>2, InputFacts
<1>9. cookie' \in Token \cup {None} /\ (cookie' # None => Heard(cookie'.sid)) /\ x.log \in {tab[t].log, None}
  BY <1>0, <1>2, <1>3 DEF RestOK, Heard
<1>10. locks => \A s \in Sids \ lost :
             /\ Carries(x, s) => x.rf.token.gen = row[s].gen
             /\ cookie' # None /\ cookie'.sid = s =>
                   cookie'.gen = row[s].gen \/ \E u \in Tabs : InFlight(tab'[u], s)
  BY <1>2, <1>3, <1>7, SameNewest
<1> QED
  BY <1>2, <1>3, <1>4, <1>5, <1>6, <1>8, <1>9, <1>10, PageStep

\* 409: the runner keeps the lock and asks again.
LEMMA AgainStep ==
  ASSUME AuthInv, NEW t \in Tabs, RunAgain(t)
  PROVE  AuthInv'
<1>0. /\ tab[t] \in Tab /\ tab[t].rf \in Refresh /\ RestOK /\ LockOK /\ EndedOK
  BY TabHere, Parts
<1> DEFINE y == tab[t]
           z == IF y.rf.code = "mismatch" THEN Reset(y, "idle") ELSE y
           n == IF y.rf.code = "race" THEN y.rf.race + 1 ELSE 0
           b == y.rf.retry /\ y.rf.code = "race"
           r == [y.rf EXCEPT !.pc = "ready", !.code = "none", !.race = n, !.retry = b]
           x == [z EXCEPT !.rf = r]
<1>1. z \in Tab /\ z.sess \in {y.sess, None} /\ z.rf = y.rf /\ z.out = y.out /\ z.log = y.log
  BY <1>0, ResetFacts
<1>2. y.rf.pc = "handled" /\ Again(y.rf) /\ UNCHANGED <<row, cookie, inbox, orphans, locks, inputs, ended, lost>>
  BY DEF RunAgain
<1>3. n \in 0 .. 3 /\ b \in BOOLEAN
  <2>1. y.rf.race \in 0 .. 3 /\ y.rf.retry \in BOOLEAN
    BY <1>0, RefreshFields
  <2> QED
    BY <1>2, <2>1 DEF Again
<1>4. tab' = [tab EXCEPT ![t] = x]
  <2>1. tab' = [tab EXCEPT ![t] = [z EXCEPT !.rf.pc = "ready", !.rf.code = "none",
                    !.rf.race = IF y.rf.code = "race" THEN @ + 1 ELSE 0,
                    !.rf.retry = @ /\ y.rf.code = "race"]]
    BY DEF RunAgain, Put
  <2>2. [z EXCEPT !.rf.pc = "ready", !.rf.code = "none",
                    !.rf.race = IF y.rf.code = "race" THEN @ + 1 ELSE 0,
                    !.rf.retry = @ /\ y.rf.code = "race"]
        = x
    <3> HIDE DEF z
    <3> QED
      BY <1>0, <1>1 DEF Tab, Refresh
  <2> QED
    BY <2>1, <2>2
<1>e. x = [z EXCEPT !.rf = r]
  OBVIOUS
<1> HIDE DEF n, b, z
<1>5. r \in Refresh /\ r.pc = "ready" /\ r.token = y.rf.token
  BY <1>0, <1>3 DEF Refresh
<1> HIDE DEF r, x
<1>6. x \in Tab /\ x.rf = r /\ x.sess = z.sess /\ x.out = z.out /\ x.log = z.log
  BY <1>1, <1>5, <1>e, NewRefresh
<1>7. ASSUME NEW s \in Sids, Knows(x, s) PROVE Heard(s)
  <2>1. Knows(y, s)
    BY <1>1, <1>5, <1>6, <1>7, AuthAssumption DEF Knows
  <2> QED
    BY <2>1 DEF Heard
<1>8. OutOK(x, ended[t])
  <2>1. None \notin ended[t]
    BY Parts
  <2> QED
    BY <1>0, <1>1, <1>5, <1>6, <2>1 DEF OutOK, EndedOK
<1>9. locks => \A u \in Tabs \ {t} : ~Busy(tab[u])
  BY <1>0, <1>2 DEF LockOK, Busy
<1>10. (\A s \in Sids : ~Carries(x, s)) /\ \A s \in Sids : ~InFlight(tab[t], s)
  BY <1>2, <1>5, <1>6 DEF Carries, InFlight, Again
<1>11. RowsKeep /\ inbox' \in [Tabs -> Seq(Event)] /\ inputs' \in 0 .. MaxInputs
  BY <1>2, InputFacts
<1>12. cookie' \in Token \cup {None} /\ (cookie' # None => Heard(cookie'.sid)) /\ x.log \in {tab[t].log, None}
  BY <1>0, <1>1, <1>2, <1>6 DEF RestOK, Heard
<1>13. locks => \A s \in Sids \ lost :
             /\ Carries(x, s) => x.rf.token.gen = row[s].gen
             /\ cookie' # None /\ cookie'.sid = s =>
                   cookie'.gen = row[s].gen \/ \E u \in Tabs : InFlight(tab'[u], s)
  BY <1>2, <1>4, <1>6, <1>10, SameNewest
<1> QED
  BY <1>2, <1>4, <1>6, <1>7, <1>8, <1>9, <1>11, <1>12, <1>13, PageStep

\* The request of tab t is handled: its session may get a new token or be found reused.
LEMMA HandleStep ==
  ASSUME AuthInv, NEW t \in Tabs, HandleRefresh(t)
  PROVE  AuthInv'
<1>0. /\ tab[t] \in Tab /\ tab[t].rf \in Refresh /\ RestOK /\ LockOK /\ EndedOK /\ NewestOK /\ TypeOK
      /\ tab \in [Tabs -> Tab] /\ row \in [Sids -> Row] /\ ended \in [Tabs -> SUBSET Sids]
      /\ locks \in LockModes /\ tab[t].rf.token \in Token \cup {None}
  BY TabHere, Parts
<1> DEFINE y == tab[t]
           k == y.rf.token
           e == y.rf.expect
           code == RefreshCode(k, e)
           m == IF code = "ok" THEN [k EXCEPT !.gen = k.gen + 1] ELSE k
           r == [y.rf EXCEPT !.pc = "handled", !.code = code, !.token = m]
           x == [y EXCEPT !.rf = r]
<1>1. /\ tab' = [tab EXCEPT ![t] = x] /\ UNCHANGED <<cookie, inbox, orphans, locks, inputs, ended, lost>>
      /\ y.rf.pc = "sent" /\ row' = RefreshEffect(k, e)
  <2>1. [y EXCEPT !.rf.pc = "handled", !.rf.code = code, !.rf.token = m] = x
    <3> HIDE DEF code, m
    <3> QED
      BY <1>0 DEF Tab, Refresh
  <2> QED
    BY <2>1 DEF HandleRefresh, Put
<1>2. /\ row' \in [Sids -> Row]
      /\ \A s \in Sids : /\ row'[s].status = "none" <=> row[s].status = "none"
                         /\ row[s].status = "revoked" => row'[s].status = "revoked"
      /\ \A s \in Sids : k = None \/ k.sid # s => row'[s] = row[s]
      /\ code = "ok" => /\ k # None /\ Active(k.sid)
                        /\ row'[k.sid].gen = k.gen + 1 /\ row'[k.sid].why = row[k.sid].why
      /\ code # "ok" => \A s \in Sids : row'[s].gen = row[s].gen
      /\ k # None => (k.gen = row[k.sid].gen => row'[k.sid].why = row[k.sid].why)
  BY <1>0, <1>1, RefreshFacts
<1>3. /\ m \in Token \cup {None} /\ (m # None <=> k # None) /\ (m # None => m.sid = k.sid /\ k.sid \in Sids)
      /\ (code = "ok" => m.gen = k.gen + 1)
  <2>1. CASE code = "ok"
    <3>1. k \in Token /\ k # None
      BY <1>0, <1>2, <2>1
    <3>2. k.sid \in Sids /\ k.gen \in Nat
      BY <3>1 DEF Token
    <3> DEFINE n == k.gen + 1
               w == [k EXCEPT !.gen = n]
    <3>3. n \in Nat
      BY <3>2
    <3> HIDE DEF n
    <3>4. w \in Token /\ w.sid = k.sid /\ w.gen = n
      BY <3>1, <3>3 DEF Token
    <3>5. w # None
      BY <3>4, AuthAssumption DEF Token
    <3>6. m = w
      BY <2>1 DEF n
    <3> HIDE DEF w
    <3> QED
      BY <3>1, <3>2, <3>4, <3>5, <3>6 DEF n
  <2>2. CASE code # "ok"
    BY <1>0, <2>2 DEF Token
  <2> QED
    BY <2>1, <2>2
<1>4. code \in {"ok", "denied", "mismatch", "race"}
  BY DEF RefreshCode
<1>e. x = [y EXCEPT !.rf = r]
  OBVIOUS
<1> HIDE DEF m, code
<1>5. r \in Refresh /\ r.pc = "handled" /\ r.token = m /\ r.code = code /\ r.current = y.rf.current
  BY <1>0, <1>3, <1>4 DEF Refresh
<1> HIDE DEF r, x
<1>6. x \in Tab /\ x.rf = r /\ x.sess = y.sess /\ x.out = y.out /\ x.log = y.log
  BY <1>0, <1>5, <1>e, NewRefresh
<1>7. tab' \in [Tabs -> Tab] /\ tab'[t] = x /\ \A u \in Tabs \ {t} : tab'[u] = tab[u]
  BY <1>0, <1>1, <1>6
<1>8. TypeOK'
  BY <1>0, <1>1, <1>2, <1>7 DEF TypeOK
<1>9. FreshOK'
  <2>1. ASSUME NEW s \in Sids, Knows(x, s) PROVE Knows(y, s)
    BY <1>3, <1>5, <1>6, <2>1 DEF Knows
  <2>2. ASSUME NEW s \in Sids, Heard(s)' PROVE Heard(s)
    BY <1>1, <1>7, <2>1, <2>2 DEF Heard
  <2>3. \A s \in Sids : row'[s].status = "none" => row[s].status = "none"
    BY <1>2
  <2>4. \A s \in Sids : Fresh(s) => row'[s].gen = 0
    <3>1. ASSUME NEW s \in Sids, Fresh(s) PROVE k = None \/ k.sid # s
      BY <3>1 DEF Fresh, Heard, Knows
    <3> QED
      BY <1>2, <3>1 DEF Fresh
  <2>5. \A u \in Tabs : \A s \in ended'[u] : s \in ended[u] \/ Heard(s)
    BY <1>1
  <2>6. \A u \in Tabs : tab'[u].log \in {tab[u].log, None}
    BY <1>6, <1>7
  <2> QED
    BY <2>2, <2>3, <2>4, <2>5, <2>6, FreshKept
<1>10. EndedOK'
  <2> SUFFICES ASSUME NEW u \in Tabs
               PROVE  OutOK(tab'[u], ended[u]) /\ \A s \in ended[u] : row'[s].status = "revoked"
    BY <1>1 DEF EndedOK, OutOK
  <2>1. OutOK(tab[u], ended[u]) /\ \A s \in ended[u] : s \in Sids /\ row[s].status = "revoked"
    BY <1>0 DEF EndedOK
  <2>2. \A s \in ended[u] : row'[s].status = "revoked"
    BY <1>2, <2>1
  <2>3. CASE u # t
    BY <1>7, <2>1, <2>2, <2>3
  <2>4. CASE u = t
    <3>1. code = "ok" => m # None /\ m.sid \notin ended[t]
      BY <1>2, <1>3, <2>1, <2>4 DEF Active
    <3> QED
      BY <1>5, <1>6, <1>7, <2>1, <2>2, <2>4, <3>1 DEF OutOK
  <2> QED
    BY <2>3, <2>4
<1>11. locks => \A u \in Tabs \ {t} : ~Busy(tab[u])
  BY <1>0, <1>1 DEF LockOK, Busy
<1>12. LockOK'
  <2> SUFFICES ASSUME locks, NEW u \in Tabs, NEW v \in Tabs, Busy(tab'[u]), Busy(tab'[v]) PROVE u = v
    BY <1>1 DEF LockOK, Busy
  <2> QED
    BY <1>7, <1>11
<1>13. NewestOK'
  <2> SUFFICES ASSUME locks, NEW s \in Sids \ lost
               PROVE  /\ row'[s].why # "reuse"
                      /\ \A u \in Tabs : Carries(tab'[u], s) => tab'[u].rf.token.gen = row'[s].gen
                      /\ cookie # None /\ cookie.sid = s =>
                            cookie.gen = row'[s].gen \/ \E u \in Tabs : InFlight(tab'[u], s)
                      /\ \A o \in orphans : o.token # None => o.token.sid # s
    BY <1>1 DEF NewestOK, Newest, Carries, InFlight
  <2>1. Newest(s)
    BY <1>0 DEF NewestOK
  <2>2. \A u \in Tabs \ {t} : ~Carries(tab'[u], s)
    BY <1>7, <1>11 DEF Carries, InFlight, Busy
  <2>3. \A u \in Tabs : ~InFlight(tab[u], s)
    BY <1>1, <1>11 DEF InFlight, Busy
  <2>4. CASE k = None \/ k.sid # s
    <3>1. row'[s] = row[s] /\ ~Carries(x, s)
      BY <1>2, <1>3, <1>5, <1>6, <2>4 DEF Carries, InFlight
    <3> QED
      BY <1>7, <2>1, <2>2, <2>3, <3>1 DEF Newest
  <2>5. CASE k # None /\ k.sid = s
    <3>1. k.gen = row[s].gen
      BY <1>1, <2>1, <2>5 DEF Newest, Carries
    <3>2. row'[s].why = row[s].why
      BY <1>2, <2>5, <3>1
    <3>3. CASE code = "ok"
      <4>1. InFlight(x, s) /\ x.rf.token.gen = row'[s].gen
        BY <1>2, <1>3, <1>5, <1>6, <2>5, <3>3 DEF InFlight
      <4> QED
        BY <1>7, <2>1, <2>2, <3>2, <4>1 DEF Newest
    <3>4. CASE code # "ok"
      <4>1. row'[s].gen = row[s].gen /\ ~Carries(x, s)
        BY <1>2, <1>5, <1>6, <3>4 DEF Carries, InFlight
      <4> QED
        BY <1>7, <2>1, <2>2, <2>3, <3>2, <4>1 DEF Newest
    <3> QED
      BY <3>3, <3>4
  <2> QED
    BY <2>4, <2>5
<1> QED
  BY <1>8, <1>9, <1>10, <1>12, <1>13 DEF AuthInv

\* The new bundle is accepted, and a sign-out that waits for it is sent again: the session
\* of the answer is one that this tab has not signed out of.
LEMMA BundleStep ==
  ASSUME AuthInv, NEW t \in Tabs, AcceptBundle(t)
  PROVE  AuthInv'
<1>0. /\ tab[t] \in Tab /\ tab[t].rf \in Refresh /\ RestOK /\ EndedOK /\ NewestOK /\ TypeOK
      /\ tab[t].rf.token \in Token \cup {None} /\ tab \in [Tabs -> Tab]
  BY TabHere, Parts
<1> DEFINE y == tab[t]
           k == y.rf.token
           a == ApplyAuthBundle(y, k.sid)
           z == Settled(a, "authenticated")
           o == LogoutAnswer(z, k, FALSE)
           w == [z EXCEPT !.out = o]
<1>1. /\ y.rf.pc = "handled" /\ y.rf.current /\ y.rf.code = "ok" /\ cookie' = k
      /\ UNCHANGED <<inbox, orphans, locks, inputs, ended, lost>>
      /\ \/ tab' = [tab EXCEPT ![t] = w] /\ row' = LogoutEffect(z, k)
         \/ tab' = [tab EXCEPT ![t] = z] /\ row' = row
  BY DEF AcceptBundle, Put, RefreshCookie
<1>2. k # None /\ k.sid \notin ended[t]
  BY <1>0, <1>1 DEF EndedOK, OutOK
<1>3. k \in Token /\ k.sid \in Sids
  BY <1>0, <1>2 DEF Token
<1>4. a \in Tab /\ a.sess = k.sid /\ a.out = y.out /\ a.log = y.log
  BY <1>0, <1>3, ApplyFacts
<1> HIDE DEF a
<1>5. z \in Tab /\ z.sess = k.sid /\ z.out = y.out /\ z.log = y.log /\ z.rf = NoRefresh
  BY <1>4, SettledFacts
<1>6. o \in Logout /\ o.sid = k.sid
  BY <1>5, AnswerFacts
<1>7. RowsKeep
  BY <1>0, <1>1, LogoutKeeps, InputFacts
<1> HIDE DEF z, o
<1>8. w \in Tab /\ w.sess = k.sid /\ w.out = o /\ w.log = y.log /\ w.rf = NoRefresh
  BY <1>5, <1>6 DEF Tab
<1> HIDE DEF w
<1>9. PICK x \in Tab : /\ tab' = [tab EXCEPT ![t] = x] /\ x.sess = k.sid /\ x.out \in {y.out, o}
                       /\ x.log = y.log /\ x.rf = NoRefresh
  BY <1>1, <1>5, <1>8
<1>10. NoRefresh.pc = "idle" /\ NoRefresh.token = None
  BY DEF NoRefresh
<1>11. Heard(k.sid)
  BY <1>2 DEF Heard, Knows
<1>12. ASSUME NEW s \in Sids, Knows(x, s) PROVE Heard(s)
  <2>1. s = k.sid \/ Knows(y, s)
    BY <1>6, <1>9, <1>10, <1>12 DEF Knows
  <2> QED
    BY <1>11, <2>1 DEF Heard
<1>13. OutOK(x, ended[t]) /\ ~Busy(x) /\ \A s \in Sids : ~Carries(x, s)
  BY <1>2, <1>9, <1>10 DEF OutOK, Busy, Carries, InFlight
<1>14. ASSUME locks, NEW s \in Sids \ lost
       PROVE  /\ Carries(x, s) => x.rf.token.gen = row[s].gen
              /\ cookie' # None /\ cookie'.sid = s =>
                    cookie'.gen = row[s].gen \/ \E u \in Tabs : InFlight(tab'[u], s)
  <2>1. Newest(s)
    BY <1>0, <1>14 DEF NewestOK
  <2>2. k.sid = s => Carries(y, s)
    BY <1>1, <1>2 DEF Carries, InFlight
  <2>3. k.sid = s => k.gen = row[s].gen
    BY <2>1, <2>2 DEF Newest
  <2> QED
    BY <1>1, <1>13, <2>3
<1>15. cookie' \in Token \cup {None} /\ (cookie' # None => Heard(cookie'.sid)) /\ x.log \in {tab[t].log, None}
  BY <1>1, <1>3, <1>9, <1>11
<1>16. inbox' \in [Tabs -> Seq(Event)] /\ inputs' \in 0 .. MaxInputs
  BY <1>1, InputFacts
<1> QED
  BY <1>1, <1>7, <1>9, <1>12, <1>13, <1>14, <1>15, <1>16, PageStep

\* A step of the server on its own: rows settle, and nothing else changes but the inputs.
LEMMA ServerStep ==
  ASSUME AuthInv, RowsKeep, UNCHANGED <<cookie, tab, inbox, orphans, locks, ended, lost>>,
         inputs' \in 0 .. MaxInputs
  PROVE  AuthInv'
<1>0. TypeOK /\ FreshOK /\ EndedOK /\ LockOK /\ NewestOK /\ RestOK /\ ended \in [Tabs -> SUBSET Sids]
  BY Parts
<1>1. TypeOK'
  BY <1>0 DEF TypeOK, RowsKeep
<1>2. FreshOK'
  <2>1. \A s \in Sids : Heard(s)' => Heard(s)
    BY DEF Heard
  <2>2. \A s \in Sids : row'[s].status = "none" => row[s].status = "none"
    BY DEF RowsKeep, Settles
  <2>3. \A s \in Sids : Fresh(s) => row'[s].gen = 0
    BY DEF RowsKeep, Settles, Fresh
  <2>4. \A u \in Tabs : \A s \in ended'[u] : s \in ended[u] \/ Heard(s)
    OBVIOUS
  <2>5. \A u \in Tabs : tab'[u].log \in {tab[u].log, None}
    OBVIOUS
  <2> QED
    BY <2>1, <2>2, <2>3, <2>4, <2>5, FreshKept
<1>3. EndedOK'
  <2>1. ASSUME NEW u \in Tabs, NEW s \in ended[u] PROVE row'[s].status = "revoked"
    <3>1. row[s].status = "revoked" /\ s \in Sids
      BY <1>0 DEF EndedOK
    <3> QED
      BY <3>1 DEF RowsKeep, Settles
  <2> QED
    BY <1>0, <2>1 DEF EndedOK, OutOK
<1>4. LockOK'
  BY <1>0 DEF LockOK, Busy
<1>5. NewestOK'
  <2>1. \A s \in Sids : row'[s].gen = row[s].gen /\ (row'[s].why = "reuse" => row[s].why = "reuse")
    BY DEF RowsKeep, Settles
  <2> QED
    BY <1>0, <2>1 DEF NewestOK, Newest, Carries, InFlight
<1> QED
  BY <1>1, <1>2, <1>3, <1>4, <1>5 DEF AuthInv

\* The replay window closes, or another device revokes the session.
LEMMA ClockStep ==
  ASSUME AuthInv, NEW s \in Sids, GraceEnds(s) \/ RevokeRemotely(s)
  PROVE  AuthInv'
<1>0. TypeOK /\ row[s] \in Row
  BY Parts, RowFields
<1>1. CASE GraceEnds(s)
  <2> DEFINE f == [row[s] EXCEPT !.grace = FALSE]
  <2>1. f \in Row /\ Settles(row[s], f)
    BY <1>0 DEF Row, Settles
  <2>2. row' = [row EXCEPT ![s] = f] /\ UNCHANGED <<cookie, tab, inbox, orphans, locks, inputs, ended, lost>>
    BY <1>1 DEF GraceEnds
  <2> HIDE DEF f
  <2>3. RowsKeep /\ inputs' \in 0 .. MaxInputs
    BY <1>0, <2>1, <2>2, OneRow, InputFacts
  <2> QED
    BY <2>2, <2>3, ServerStep
<1>2. CASE RevokeRemotely(s)
  <2>1. /\ row' = [row EXCEPT ![s] = Revoked(s, "remote")] /\ Active(s) /\ Input
        /\ UNCHANGED <<cookie, tab, inbox, orphans, locks, ended, lost>>
    BY <1>2 DEF RevokeRemotely
  <2>2. Revoked(s, "remote") \in Row /\ Settles(row[s], Revoked(s, "remote"))
    BY <1>0, <2>1, RevokedFacts
  <2>3. RowsKeep /\ inputs' \in 0 .. MaxInputs
    BY <1>0, <2>1, <2>2, OneRow, InputFacts
  <2> QED
    BY <2>1, <2>3, ServerStep
<1> QED
  BY <1>1, <1>2

\* The request of a page that is gone is handled: under the web lock its session counts as lost.
LEMMA OrphanStep ==
  ASSUME AuthInv, NEW o \in orphans, HandleOrphan(o)
  PROVE  AuthInv'
<1>0. /\ TypeOK /\ FreshOK /\ EndedOK /\ LockOK /\ NewestOK /\ RestOK /\ ended \in [Tabs -> SUBSET Sids]
      /\ o \in Orphan
  BY Parts DEF RestOK
<1> DEFINE k == o.token
<1>1. /\ k \in Token \cup {None} /\ orphans' \subseteq orphans /\ row' = RefreshEffect(k, o.expect)
      /\ UNCHANGED <<cookie, tab, inbox, locks, inputs, ended, lost>>
  BY <1>0 DEF HandleOrphan, Orphan
<1>2. /\ row' \in [Sids -> Row]
      /\ \A s \in Sids : /\ row'[s].status = "none" <=> row[s].status = "none"
                         /\ row[s].status = "revoked" => row'[s].status = "revoked"
      /\ \A s \in Sids : k = None \/ k.sid # s => row'[s] = row[s]
  BY <1>0, <1>1, RefreshFacts
<1>3. TypeOK'
  BY <1>0, <1>1, <1>2 DEF TypeOK
<1>4. FreshOK'
  <2>1. \A s \in Sids : Heard(s)' => Heard(s)
    BY <1>1 DEF Heard
  <2>2. \A s \in Sids : row'[s].status = "none" => row[s].status = "none"
    BY <1>2
  <2>3. \A s \in Sids : Fresh(s) => row'[s].gen = 0
    <3>1. ASSUME NEW s \in Sids, Fresh(s) PROVE k = None \/ k.sid # s
      BY <3>1 DEF Fresh, Heard
    <3> QED
      BY <1>2, <3>1 DEF Fresh
  <2>4. \A u \in Tabs : \A s \in ended'[u] : s \in ended[u] \/ Heard(s)
    BY <1>1
  <2>5. \A u \in Tabs : tab'[u].log \in {tab[u].log, None}
    BY <1>1
  <2> QED
    BY <2>1, <2>2, <2>3, <2>4, <2>5, FreshKept
<1>5. EndedOK'
  <2>1. ASSUME NEW u \in Tabs, NEW s \in ended[u] PROVE row'[s].status = "revoked"
    BY <1>0, <1>2 DEF EndedOK
  <2> QED
    BY <1>0, <1>1, <2>1 DEF EndedOK, OutOK
<1>6. LockOK'
  BY <1>0, <1>1 DEF LockOK, Busy
<1>7. NewestOK'
  <2>1. ASSUME locks, NEW s \in Sids \ lost PROVE Newest(s) /\ row'[s] = row[s]
    <3>1. Newest(s)
      BY <1>0, <2>1 DEF NewestOK
    <3>2. k = None \/ k.sid # s
      BY <3>1 DEF Newest
    <3> QED
      BY <1>2, <3>1, <3>2
  <2> QED
    BY <1>1, <2>1 DEF NewestOK, Newest, Carries, InFlight
<1> QED
  BY <1>3, <1>4, <1>5, <1>6, <1>7 DEF AuthInv

\* The server issues a session that nobody has heard of.
LEMMA LoginStep ==
  ASSUME AuthInv, NEW t \in Tabs, NEW s \in Sids, HandleLogin(t, s)
  PROVE  AuthInv'
<1>0. /\ TypeOK /\ FreshOK /\ EndedOK /\ LockOK /\ NewestOK /\ RestOK /\ tab[t] \in Tab /\ row[s] \in Row
      /\ tab \in [Tabs -> Tab] /\ row \in [Sids -> Row] /\ ended \in [Tabs -> SUBSET Sids]
  BY Parts, TabHere, RowFields
<1> DEFINE f == [row[s] EXCEPT !.status = "active"]
           x == [tab[t] EXCEPT !.log = s]
<1>1. f \in Row /\ f.gen = row[s].gen /\ f.why = row[s].why /\ f.status = "active"
  BY <1>0 DEF Row
<1>2. x \in Tab /\ x.sess = tab[t].sess /\ x.out = tab[t].out /\ x.rf = tab[t].rf /\ x.log = s
  BY <1>0 DEF Tab
<1>3. /\ row' = [row EXCEPT ![s] = f] /\ tab' = [tab EXCEPT ![t] = x] /\ row[s].status = "none" /\ Input
      /\ UNCHANGED <<cookie, inbox, orphans, locks, ended, lost>>
  BY DEF HandleLogin, Put
<1> HIDE DEF f, x
<1>4. /\ row' \in [Sids -> Row] /\ row'[s] = f /\ \A v \in Sids \ {s} : row'[v] = row[v]
  BY <1>0, <1>1, <1>3
<1>5. /\ tab' \in [Tabs -> Tab] /\ tab'[t] = x /\ \A u \in Tabs \ {t} : tab'[u] = tab[u]
  BY <1>0, <1>2, <1>3
<1>6. \A u \in Tabs : tab'[u].sess = tab[u].sess /\ tab'[u].out = tab[u].out /\ tab'[u].rf = tab[u].rf
  BY <1>2, <1>5
<1>7. \A v \in Sids : row'[v].gen = row[v].gen /\ row'[v].why = row[v].why
  BY <1>1, <1>4
<1>8. TypeOK'
  <2>1. inputs' \in 0 .. MaxInputs
    BY <1>3, InputFacts
  <2> QED
    BY <1>0, <1>3, <1>4, <1>5, <2>1 DEF TypeOK
<1>9. FreshOK'
  <2>1. ASSUME NEW v \in Sids, Fresh(v) PROVE Fresh(v)'
    BY <1>3, <1>6, <1>7, <2>1 DEF Fresh, Heard, Knows
  <2>2. Fresh(s) /\ \A u \in Tabs : tab[u].log # s
    BY <1>0, <1>3 DEF FreshOK
  <2>3. ASSUME NEW v \in Sids, row'[v].status = "none" PROVE Fresh(v)' /\ \A u \in Tabs : tab'[u].log # v
    <3>1. v # s /\ row[v].status = "none"
      BY <1>1, <1>4, <2>3
    <3>2. Fresh(v) /\ \A u \in Tabs : tab[u].log # v
      BY <1>0, <3>1 DEF FreshOK
    <3> QED
      BY <1>2, <1>5, <2>1, <3>1, <3>2
  <2>4. ASSUME NEW u \in Tabs, tab'[u].log # None
        PROVE  Fresh(tab[u].log)' /\ \A v \in Tabs \ {u} : tab'[v].log # tab'[u].log
    <3>1. PICK l \in Sids : l = tab'[u].log
      BY <1>5, <2>4, TabFields
    <3>2. Fresh(l)
      BY <1>0, <1>2, <1>5, <2>2, <2>4, <3>1 DEF FreshOK
    <3>3. Fresh(l)'
      BY <2>1, <3>2
    <3>4. \A v \in Tabs \ {u} : tab'[v].log # tab'[u].log
      BY <1>0, <1>2, <1>5, <2>2, <2>4 DEF FreshOK
    <3> QED
      BY <3>1, <3>3, <3>4
  <2> QED
    BY <2>3, <2>4 DEF FreshOK
<1>10. EndedOK'
  <2>1. ASSUME NEW u \in Tabs, NEW v \in ended[u] PROVE row'[v].status = "revoked"
    <3>1. v \in Sids /\ row[v].status = "revoked"
      BY <1>0 DEF EndedOK
    <3> QED
      BY <1>3, <1>4, <3>1
  <2> QED
    BY <1>0, <1>3, <1>6, <2>1 DEF EndedOK, OutOK
<1>11. LockOK'
  BY <1>0, <1>3, <1>6 DEF LockOK, Busy
<1>12. NewestOK'
  BY <1>0, <1>3, <1>6, <1>7 DEF NewestOK, Newest, Carries, InFlight
<1> QED
  BY <1>8, <1>9, <1>10, <1>11, <1>12 DEF AuthInv

\* handleLoginSuccess: the session that the answer brings is new to the browser, and only
\* this tab has it.
LEMMA AcceptLoginStep ==
  ASSUME AuthInv, NEW t \in Tabs, AcceptLogin(t)
  PROVE  AuthInv'
<1>0. /\ TypeOK /\ FreshOK /\ EndedOK /\ LockOK /\ NewestOK /\ RestOK /\ tab[t] \in Tab /\ None \notin Sids
      /\ tab \in [Tabs -> Tab] /\ row \in [Sids -> Row] /\ ended \in [Tabs -> SUBSET Sids]
      /\ tab[t].sess \in Sids \cup {None} /\ inbox[t] \in Seq(Event) /\ tab[t].log \in Sids \cup {None}
      /\ locks \in LockModes
  BY Parts, TabHere
<1> DEFINE y == tab[t]
           z == [y EXCEPT !.log = None]
<1>1. PICK s \in Sids : s = y.log
  BY <1>0 DEF AcceptLogin
<1> DEFINE a == ApplyAuthBundle(z, s)
           x == ResolveAuthentication(a, "app")
           p == IF y.sess = s THEN None ELSE s
<1>2. /\ tab' = [tab EXCEPT ![t] = x] /\ cookie' = [sid |-> s, gen |-> 0]
      /\ Publish(t, "authenticated", p, inbox[t]) /\ UNCHANGED <<row, orphans, locks, inputs, ended, lost>>
  BY <1>1 DEF AcceptLogin, Put
<1>3. z \in Tab /\ z.sess = y.sess /\ z.out = y.out /\ z.rf = y.rf /\ z.log = None
  BY <1>0 DEF Tab
<1>p. p \in Sids \cup {None}
  OBVIOUS
<1> HIDE DEF z, p
<1>4. a \in Tab /\ a.sess = s /\ a.out = z.out /\ a.log = None /\ Same(z.rf, a.rf) /\ a.rf.current = FALSE
  BY <1>3, ApplyFacts
<1> HIDE DEF a
<1>5. x \in Tab /\ Steady(a, x) /\ x.sess = s
  BY <1>4, ResolveFacts
<1> HIDE DEF x
<1>6. /\ x.sess = s /\ x.out.sid \in {y.out.sid, s, None} /\ x.log = None
      /\ Same(y.rf, x.rf) \/ (y.rf.pc = "idle" /\ Gone(x.rf))
      /\ ~(x.rf.pc = "handled" /\ x.rf.current)
  BY <1>3, <1>4, <1>5 DEF Steady, Quiet, Same, Gone
<1>7. tab' \in [Tabs -> Tab] /\ tab'[t] = x /\ \A u \in Tabs \ {t} : tab'[u] = tab[u]
  BY <1>0, <1>2, <1>5
<1>8. /\ Fresh(s) /\ row[s].gen = 0 /\ s \notin ended[t] /\ row[s].status # "none"
      /\ \A u \in Tabs \ {t} : tab[u].log # s
  BY <1>0, <1>1 DEF FreshOK, Fresh
<1>9. cookie' \in Token /\ cookie'.sid = s /\ cookie'.gen = 0
  BY <1>2 DEF Token
<1>10. TypeOK'
  <2>1. inbox' \in [Tabs -> Seq(Event)]
    BY <1>0, <1>2, <1>p, PublishFacts
  <2> QED
    BY <1>0, <1>2, <1>7, <1>9, <2>1 DEF TypeOK
<1>11. FreshOK'
  <2>1. ASSUME NEW v \in Sids, Heard(v)' PROVE Heard(v) \/ v = s
    <3>1. Knows(x, v) => Knows(y, v) \/ v = s
      BY <1>0, <1>6 DEF Knows, Same, Gone
    <3> QED
      BY <1>2, <1>7, <1>9, <2>1, <3>1 DEF Heard
  <2>2. ASSUME NEW v \in Sids, v # s, Fresh(v) PROVE Fresh(v)'
    BY <1>2, <2>1, <2>2 DEF Fresh
  <2>3. ASSUME NEW v \in Sids, row'[v].status = "none" PROVE Fresh(v)' /\ \A u \in Tabs : tab'[u].log # v
    <3>1. v # s /\ Fresh(v) /\ \A u \in Tabs : tab[u].log # v
      BY <1>0, <1>2, <1>8, <2>3 DEF FreshOK
    <3> QED
      BY <1>0, <1>6, <1>7, <2>2, <3>1
  <2>4. ASSUME NEW u \in Tabs, tab'[u].log # None
        PROVE  Fresh(tab[u].log)' /\ \A v \in Tabs \ {u} : tab'[v].log # tab'[u].log
    <3>1. u # t /\ tab'[u] = tab[u]
      BY <1>6, <1>7, <2>4
    <3>2. PICK l \in Sids : l = tab'[u].log
      BY <1>7, <2>4, TabFields
    <3>3. l # s /\ Fresh(l) /\ \A v \in Tabs \ {u} : tab[v].log # l
      BY <1>0, <1>8, <2>4, <3>1, <3>2 DEF FreshOK
    <3>4. Fresh(l)'
      BY <2>2, <3>3
    <3> QED
      BY <1>0, <1>6, <1>7, <3>2, <3>3, <3>4
  <2> QED
    BY <2>3, <2>4 DEF FreshOK
<1>12. EndedOK'
  <2>1. OutOK(x, ended[t])
    BY <1>6, <1>8 DEF OutOK
  <2> QED
    BY <1>0, <1>2, <1>7, <2>1 DEF EndedOK, OutOK
<1>13. LockOK'
  <2>1. Busy(x) => Busy(y)
    BY <1>6 DEF Busy, Same, Gone
  <2> SUFFICES ASSUME locks, NEW u \in Tabs, NEW v \in Tabs, Busy(tab'[u]), Busy(tab'[v]) PROVE u = v
    BY <1>2 DEF LockOK, Busy
  <2> QED
    BY <1>0, <1>7, <2>1 DEF LockOK
<1>14. NewestOK'
  <2> SUFFICES ASSUME locks, NEW v \in Sids \ lost
               PROVE  /\ row[v].why # "reuse"
                      /\ \A u \in Tabs : Carries(tab'[u], v) => tab'[u].rf.token.gen = row[v].gen
                      /\ cookie'.sid = v => cookie'.gen = row[v].gen
                      /\ \A o \in orphans : o.token # None => o.token.sid # v
    BY <1>2 DEF NewestOK, Newest, Carries, InFlight
  <2>1. Newest(v)
    BY <1>0 DEF NewestOK
  <2>2. Carries(x, v) => Carries(y, v) /\ x.rf.token = y.rf.token
    BY <1>6 DEF Carries, InFlight, Same, Gone
  <2>3. ASSUME NEW u \in Tabs, Carries(tab'[u], v) PROVE tab'[u].rf.token.gen = row[v].gen
    BY <1>7, <2>1, <2>2, <2>3 DEF Newest
  <2>4. cookie'.sid = v => cookie'.gen = row[v].gen
    BY <1>8, <1>9
  <2> QED
    BY <2>1, <2>3, <2>4 DEF Newest
<1> QED
  BY <1>10, <1>11, <1>12, <1>13, <1>14 DEF AuthInv

(***************************************************************************)
(* The theorems.                                                           *)
(***************************************************************************)

\* A tab and a row at the beginning.
LEMMA NewFacts ==
  ASSUME NEW s \in Sids \cup {None}, NEW p \in {"app", "signin"}, NEW l \in Sids \cup {None},
         NEW st \in {"none", "active"}
  PROVE  /\ NewTab(s, p, l) \in Tab /\ NewTab(s, p, l).sess = s /\ NewTab(s, p, l).log = l
         /\ NewTab(s, p, l).rf = NoRefresh /\ NewTab(s, p, l).out = NoLogout
         /\ NewRow(st) \in Row /\ NewRow(st).status = st /\ NewRow(st).gen = 0 /\ NewRow(st).why = "none"
<1>1. /\ NewTab(s, p, l) \in Tab /\ NewTab(s, p, l).sess = s /\ NewTab(s, p, l).log = l
      /\ NewTab(s, p, l).rf = NoRefresh /\ NewTab(s, p, l).out = NoLogout
  <2> DEFINE b == s # None
  <2>1. b \in BOOLEAN
    OBVIOUS
  <2>2. NewTab(s, p, l) = [sess |-> s, fresh |-> b, boot |-> "complete", page |-> p, live |-> TRUE,
                           rf |-> NoRefresh, guard |-> NoGuard, out |-> NoLogout, log |-> l, calls |-> {}]
    BY DEF NewTab
  <2> HIDE DEF b
  <2> QED
    BY <2>1, <2>2, RecordFacts DEF Tab
<1>2. NewRow(st) \in Row /\ NewRow(st).status = st /\ NewRow(st).gen = 0 /\ NewRow(st).why = "none"
  BY DEF NewRow, Row
<1> QED
  BY <1>1, <1>2

\* The invariant holds at first, signed in or signing in.
LEMMA AuthInvInit == Init => AuthInv
<1> SUFFICES ASSUME Init PROVE AuthInv
  OBVIOUS
<1>0. /\ inbox = [t \in Tabs |-> <<>>] /\ orphans = {} /\ locks \in LockModes /\ lost = {}
      /\ ended = [t \in Tabs |-> {}] /\ (SignedIn \/ SigningIn) /\ None \notin Sids
  BY AuthAssumption DEF Init
<1>1. PICK f \in [Tabs -> Sids \cup {None}] :
        /\ \A t, u \in Tabs : f[t] # None /\ f[t] = f[u] => t = u
        /\ \A t \in Tabs : /\ tab[t] \in Tab /\ tab[t].log = f[t] /\ tab[t].rf = NoRefresh
                           /\ tab[t].out = NoLogout /\ tab[t].sess \in {First, None}
                           /\ tab[t].log # None => cookie = None
                           /\ tab[t].sess # None => cookie # None
        /\ tab \in [Tabs -> Tab] /\ row \in [Sids -> Row]
        /\ \A s \in Sids : row[s].gen = 0 /\ row[s].why = "none"
        /\ inputs \in 0 .. MaxInputs
        /\ \/ cookie = None /\ \A s \in Sids : row[s].status = "active"
           \/ cookie = [sid |-> First, gen |-> 0] /\ cookie # None /\ row[First].status = "active"
  <2>1. CASE SignedIn
    <3> DEFINE f == [t \in Tabs |-> None]
    <3>1. ASSUME NEW s \in Sids
          PROVE  row[s] \in Row /\ row[s].gen = 0 /\ row[s].why = "none" /\ (s = First => row[s].status = "active")
      <4> DEFINE st == IF s = First THEN "active" ELSE "none"
      <4>1. row[s] = NewRow(st) /\ st \in {"none", "active"}
        BY <2>1 DEF SignedIn
      <4> HIDE DEF st
      <4>2. NewRow(st) \in Row /\ NewRow(st).status = st /\ NewRow(st).gen = 0 /\ NewRow(st).why = "none"
        BY <4>1, NewFacts
      <4> QED
        BY <4>1, <4>2 DEF st
    <3>2. row \in [Sids -> Row]
      BY <2>1, <3>1 DEF SignedIn
    <3>3. ASSUME NEW t \in Tabs
          PROVE  /\ tab[t] \in Tab /\ tab[t].log = None /\ tab[t].rf = NoRefresh
                 /\ tab[t].out = NoLogout /\ tab[t].sess = First
      <4>1. tab[t] = NewTab(First, "app", None)
        BY <2>1 DEF SignedIn
      <4> QED
        BY <4>1, NewFacts, AuthAssumption
    <3>4. tab \in [Tabs -> Tab]
      BY <2>1, <3>3 DEF SignedIn
    <3>5. cookie = [sid |-> First, gen |-> 0] /\ cookie \in Token
      BY <2>1, AuthAssumption DEF SignedIn, Token
    <3>6. cookie # None
      BY <3>5, AuthAssumption DEF Token
    <3>7. inputs \in 0 .. MaxInputs
      BY <2>1, AuthAssumption DEF SignedIn
    <3>8. f \in [Tabs -> Sids \cup {None}] /\ \A t \in Tabs : f[t] = None
      OBVIOUS
    <3> HIDE DEF f
    <3>9. row[First].status = "active"
      BY <3>1, AuthAssumption
    <3> QED
      BY <3>1, <3>2, <3>3, <3>4, <3>5, <3>6, <3>7, <3>8, <3>9
  <2>2. CASE SigningIn
    <3> DEFINE f == CHOOSE f \in Bijection(Tabs, Sids) : TRUE
    <3>0. f \in Bijection(Tabs, Sids)
      BY <2>2 DEF SigningIn, ExistsBijection
    <3>1. tab = [t \in Tabs |-> NewTab(None, "signin", f[t])]
      BY <2>2 DEF SigningIn
    <3> HIDE DEF f
    <3>2. f \in [Tabs -> Sids] /\ \A t, u \in Tabs : f[t] = f[u] => t = u
      BY <3>0 DEF Bijection, Injection, IsInjective
    <3>3. ASSUME NEW t \in Tabs
          PROVE  /\ tab[t] \in Tab /\ tab[t].log = f[t] /\ tab[t].rf = NoRefresh
                 /\ tab[t].out = NoLogout /\ tab[t].sess = None
      <4>1. tab[t] = NewTab(None, "signin", f[t]) /\ f[t] \in Sids \cup {None}
        BY <3>1, <3>2
      <4> QED
        BY <4>1, NewFacts
    <3>4. tab \in [Tabs -> Tab]
      BY <3>1, <3>3
    <3>5. ASSUME NEW s \in Sids
          PROVE  row[s] \in Row /\ row[s].gen = 0 /\ row[s].why = "none" /\ row[s].status = "active"
      <4>1. row[s] = NewRow("active")
        BY <2>2 DEF SigningIn
      <4> QED
        BY <4>1, NewFacts
    <3>6. row \in [Sids -> Row]
      BY <2>2, <3>5 DEF SigningIn
    <3>7. cookie = None /\ inputs \in 0 .. MaxInputs
      BY <2>2, AuthAssumption DEF SigningIn
    <3>8. f \in [Tabs -> Sids \cup {None}]
      BY <3>2
    <3> QED
      BY <3>2, <3>3, <3>4, <3>5, <3>6, <3>7, <3>8
  <2> QED
    BY <1>0, <2>1, <2>2
<1>2. NoRefresh.pc = "idle" /\ NoRefresh.token = None /\ NoLogout.sid = None
  BY DEF NoRefresh, NoLogout
<1>3. TypeOK
  <2>1. cookie \in Token \cup {None}
    BY <1>1, AuthAssumption DEF Token
  <2>2. inbox \in [Tabs -> Seq(Event)]
    BY <1>0
  <2> QED
    BY <1>0, <1>1, <2>1, <2>2 DEF TypeOK
<1>4. ASSUME NEW s \in Sids, Heard(s) PROVE s = First /\ cookie # None
  <2>1. CASE cookie # None /\ cookie.sid = s
    BY <1>1, <2>1
  <2>2. CASE \E u \in Tabs : Knows(tab[u], s)
    BY <1>0, <1>1, <1>2, <2>2 DEF Knows
  <2> QED
    BY <1>0, <1>4, <2>1, <2>2 DEF Heard
<1>5. FreshOK
  <2>1. ASSUME NEW s \in Sids, cookie = None \/ row[s].status = "none" PROVE Fresh(s)
    <3>1. ~Heard(s)
      BY <1>1, <1>4, <2>1
    <3> QED
      BY <1>0, <1>1, <3>1 DEF Fresh
  <2>2. ASSUME NEW s \in Sids, row[s].status = "none" PROVE Fresh(s) /\ \A u \in Tabs : tab[u].log # s
    BY <1>0, <1>1, <2>1, <2>2
  <2>3. ASSUME NEW u \in Tabs, tab[u].log # None
        PROVE  Fresh(tab[u].log) /\ \A v \in Tabs \ {u} : tab[v].log # tab[u].log
    BY <1>1, <2>1, <2>3
  <2> QED
    BY <2>2, <2>3 DEF FreshOK
<1>6. EndedOK
  BY <1>0, <1>1, <1>2 DEF EndedOK, OutOK
<1>7. LockOK
  BY <1>1, <1>2 DEF LockOK, Busy
<1>8. NewestOK
  BY <1>0, <1>1, <1>2 DEF NewestOK, Newest, Carries, InFlight
<1> QED
  BY <1>3, <1>5, <1>6, <1>7, <1>8 DEF AuthInv

\* Every step of the console, of the server and of their environment keeps the invariant.
LEMMA AuthInvStep == AuthInv /\ [Next]_vars => AuthInv'
<1> SUFFICES ASSUME AuthInv, [Next]_vars PROVE AuthInv'
  OBVIOUS
<1>1. ASSUME NEW t \in Tabs, TabStep(t) PROVE AuthInv'
  <2>1. CASE Runner(t)
    BY <2>1, SendStep, EndStep, HandleStep, BundleStep, AgainStep DEF Runner
  <2>2. CASE GuardDecides(t)
    BY <2>2, TabSteps
  <2>3. CASE Signing(t)
    BY <2>3, AcceptLoginStep, LogoutStep, SignOutStep DEF Signing
  <2>4. CASE Requests(t)
    BY <2>4, CallStep DEF Requests
  <2>5. CASE Listening(t)
    BY <2>5, HearStep DEF Listening
  <2> QED
    BY <1>1, <2>1, <2>2, <2>3, <2>4, <2>5 DEF TabStep
<1>2. CASE Environment
  <2>1. ASSUME NEW t \in Tabs, \/ \E p \in {"app", "signin"} : Navigate(t, p)
                               \/ ExpireAccess(t) \/ FailLogout(t) \/ RefusedCall(t)
        PROVE  AuthInv'
    BY <2>1, TabSteps
  <2>2. ASSUME NEW t \in Tabs, Reload(t) PROVE AuthInv'
    BY <2>2, HearStep
  <2>3. ASSUME NEW t \in Tabs, FailRefresh(t) PROVE AuthInv'
    BY <2>3, EndStep
  <2>4. ASSUME NEW t \in Tabs, HandleRefreshOutage(t) PROVE AuthInv'
    BY <2>4, OutageStep
  <2>5. ASSUME NEW t \in Tabs, SignOut(t) PROVE AuthInv'
    BY <2>5, SignOutStep
  <2>6. ASSUME NEW t \in Tabs, NEW s \in Sids, HandleLogin(t, s) PROVE AuthInv'
    BY <2>6, LoginStep
  <2>7. ASSUME NEW s \in Sids, GraceEnds(s) \/ RevokeRemotely(s) PROVE AuthInv'
    BY <2>7, ClockStep
  <2>8. ASSUME NEW o \in orphans, HandleOrphan(o) PROVE AuthInv'
    BY <2>8, OrphanStep
  <2> QED
    BY <1>2, <2>1, <2>2, <2>3, <2>4, <2>5, <2>6, <2>7, <2>8 DEF Environment
<1>3. CASE UNCHANGED vars
  <2>1. UNCHANGED <<row, cookie, tab, inbox, orphans, locks, inputs, ended, lost>>
    BY <1>3 DEF vars
  <2>2. RowsKeep /\ inputs' \in 0 .. MaxInputs
    BY <2>1, InputFacts
  <2> QED
    BY <2>1, <2>2, ServerStep
<1> QED
  BY <1>1, <1>2, <1>3 DEF Next

\* The invariant of the login sessions: what the browser knows of a session, what the web
\* lock protects and what a sign-out has ended, in every reachable state.
THEOREM AuthInvariant == Spec => []AuthInv
  BY AuthInvInit, AuthInvStep, PTL DEF Spec

\* Every variable keeps its type: the tables of the server, the cookie jar, the stores of the
\* tabs and the events between them.
THEOREM AuthTypeOK == Spec => []TypeOK
<1>1. AuthInv => TypeOK
  BY DEF AuthInv
<1> QED
  BY <1>1, AuthInvariant, PTL

\* A session that the sign-out of a tab has ended never comes back to that tab, however many
\* tabs there are and whatever answers, reloads and events arrive late (authEpoch,
\* applyAuthBundle and clearAuthentication of auth-session.ts).
THEOREM SignedOutForGood == Spec => []SignedOutStaysOut
<1>1. AuthInv => SignedOutStaysOut
  BY DEF AuthInv, EndedOK, OutOK, SignedOutStaysOut
<1> QED
  BY <1>1, AuthInvariant, PTL

\* With the web lock, no number of tabs makes the server revoke a session as reused
\* (RotateUserSessionRefresh) unless the answer to one of its refreshes was lost.
THEOREM NoTabIsTakenForAThief == Spec => []ReuseOnlyAfterLoss
<1>1. AuthInv => ReuseOnlyAfterLoss
  BY DEF AuthInv, NewestOK, Newest, ReuseOnlyAfterLoss
<1> QED
  BY <1>1, AuthInvariant, PTL
=============================================================================
