------------------------ MODULE PersonalBillingProofs ------------------------
(***************************************************************************)
(* Proofs about the charging of personal requests, for every number of     *)
(* requests and every balance, estimate, cost and number of faults.        *)
(***************************************************************************)
EXTENDS PersonalBilling, TotalsProofs

(***************************************************************************)
(* What a request has taken, statement by statement.                       *)
(***************************************************************************)

Unopened == {"idle", "check", "overflow", "wallet", "token", "funding", "rollback"}

\* What a request has at least taken from the wallet; exact unless a call failed.
WalletTaken(q) ==
  IF q.src # "wallet" THEN 0
  ELSE CASE q.pc \in {"open", "moreFunding", "moreToken", "undo", "fail", "settleFunding", "refund"}
              -> q.consumed
         [] q.pc = "settleToken" -> q.actual
         [] q.pc = "done" /\ q.out = "settled" /\ ~q.hurt -> q.actual
         [] OTHER -> 0

\* What a request without a fault has booked on the token at rest: the refund of an
\* unlimited token returns nothing.
TokenBooked(q) ==
  IF Playground(q) THEN 0
  ELSE IF q.out = "refunded" /\ q.kind.token = "unlimited" THEN q.tok ELSE Owes(q)

\* What it has at least taken from the token.
TokenTaken(q) ==
  IF Playground(q) THEN 0
  ELSE CASE q.pc \in {"funding", "rollback", "open", "moreFunding", "moreToken", "undo", "fail",
                      "settleFunding", "settleToken", "refund", "refundSave", "refundExtra",
                      "refundToken"}
              -> q.tok
         [] q.pc = "done" /\ ~q.hurt -> TokenBooked(q)
         [] OTHER -> 0

\* What a request without a failed call has taken from the subscription.
SubTaken(q) ==
  IF q.src # "subscription" THEN 0
  ELSE CASE q.pc \in {"open", "moreFunding", "fail", "settleFunding"} -> q.pre
         [] q.pc \in {"moreToken", "undo"} -> q.pre + q.delta
         [] q.pc = "refund" -> q.subPre + q.extra
         [] q.pc \in {"refundSave", "refundExtra"} -> q.extra
         [] q.pc = "settleToken" -> q.actual
         [] q.pc = "done" /\ q.out = "settled" -> q.actual
         [] OTHER -> 0

\* What the session remembers agrees with what it reserved, at every statement.
SessionOK(q) ==
  /\ q.pc # "done" => q.out = "none"
  /\ q.pc \in Unopened => q.pre = 0 /\ q.consumed = 0 /\ q.extra = 0 /\ q.subPre = 0
  /\ q.pc \in {"idle", "check", "wallet", "token"} => q.tok = 0
  /\ q.pc \in {"funding", "rollback"} => q.tok = SessionQuota(q)
  /\ q.pc \notin {"idle", "check", "done", "dead"} => q.src # "none"
  /\ q.pc \in {"open", "moreFunding", "moreToken", "undo", "settleFunding", "settleToken"}
       \/ (q.pc = "fail" /\ ~q.hurt) =>
       /\ q.tok = q.pre
       /\ q.src = "wallet" =>
            q.consumed = IF q.pc \in {"moreToken", "undo"} THEN q.pre + q.delta ELSE q.pre
       /\ q.src = "subscription" => q.subPre + q.extra = q.pre
  /\ q.pc \in {"moreFunding", "moreToken", "undo"} => q.delta >= 0
  /\ q.pc \in {"settleFunding", "settleToken"} => q.delta = q.actual - q.pre
  /\ q.pc \in {"refundSave", "refundExtra"} => q.src = "subscription"

WalletCovered ==
  LET taken == Total([r \in Requests |-> WalletTaken(req[r])])
  IN wallet <= InitWallet - taken + again /\ (Sound = Requests => wallet = InitWallet - taken)

TokenCovered ==
  LET taken == Total([r \in Requests |-> TokenTaken(req[r])])
  IN token <= InitToken - taken /\ (Sound = Requests => token = InitToken - taken)

SubCovered ==
  LET taken == Total([r \in Requests |-> SubTaken(req[r])])
  IN Sound = Requests => sub.used <= taken /\ (changes = 0 => sub.used = taken)

\* The inductive invariant.
BillingInv ==
  /\ TypeOK /\ \A r \in Requests : SessionOK(req[r])
  /\ WalletCovered /\ TokenCovered /\ SubCovered

\* What a request has taken is never negative.
LEMMA TakenTypes ==
  ASSUME NEW q \in RequestType, SessionOK(q)
  PROVE  WalletTaken(q) \in Nat /\ TokenTaken(q) \in Nat /\ SubTaken(q) \in Nat
<1>0. /\ q.consumed \in Nat /\ q.actual \in Nat /\ q.tok \in Nat /\ q.pre \in Nat
      /\ q.extra \in Nat /\ q.subPre \in Nat /\ q.delta \in Int
  BY DEF RequestType
<1>1. WalletTaken(q) \in Nat
  BY <1>0 DEF WalletTaken
<1>2. TokenTaken(q) \in Nat
  BY <1>0 DEF TokenTaken, TokenBooked, Owes
<1>3. SubTaken(q) \in Nat
  <2>1. q.pc \in {"moreToken", "undo"} => q.pre + q.delta \in Nat
    BY <1>0 DEF SessionOK
  <2> QED
    BY <1>0, <2>1 DEF SubTaken
<1> QED
  BY <1>1, <1>2, <1>3

\* A row was moved by no more than what the request has taken since, and by exactly that
\* unless a call of the request failed.
Paid(old, new, moved, hurt) == new - old <= moved /\ (~hurt => new - old = moved)

\* The same for the subscription, floored at zero; a reset forgets what was used before.
PaidBySub(old, new) ==
  \/ sub'.used = PostConsumed(new - old) /\ changes' = changes
  \/ sub'.used <= new /\ changes' > 0

\* A total after one request moved on.
LEMMA TotalAfter ==
  ASSUME NEW S, IsFiniteSet(S), NEW f \in [S -> Nat], NEW r \in S, NEW n \in Nat
  PROVE  /\ Total(f) \in Nat /\ f[r] \in Nat /\ Total([f EXCEPT ![r] = n]) \in Nat
         /\ Total([f EXCEPT ![r] = n]) = Total(f) - f[r] + n
         /\ n <= Total([f EXCEPT ![r] = n])
<1> DEFINE g == [f EXCEPT ![r] = n]
<1>1. g \in [S -> Nat] /\ g[r] = n /\ f[r] \in Nat
  OBVIOUS
<1>2. Total(g) = Total(f) - f[r] + n
  BY TotalUpdate
<1> HIDE DEF g
<1>3. Total(f) \in Nat /\ Total(g) \in Nat
  BY <1>1, TotalType
<1>4. g[r] <= Total(g)
  BY <1>1, TotalBounds
<1> QED
  BY <1>1, <1>2, <1>3, <1>4 DEF g

\* One request moved on from req[r] to q, and the rows by what it has taken since; the
\* wallet also by what is given back once more.
LEMMA StepRepays ==
  ASSUME BillingInv, NEW r \in Requests, NEW q \in RequestType, SessionOK(q),
         req' = [req EXCEPT ![r] = q], req[r].hurt => q.hurt,
         wallet' \in Int, again' \in Nat, q.hurt \/ again' = again,
         Paid(WalletTaken(req[r]), WalletTaken(q), wallet - wallet' + (again' - again), q.hurt),
         token' \in Int, Paid(TokenTaken(req[r]), TokenTaken(q), token - token', q.hurt),
         sub' \in [used : Nat, active : BOOLEAN, strict : BOOLEAN],
         faults' \in Nat, changes' \in Nat, changes = 0 \/ changes' > 0,
         ~q.hurt => PaidBySub(SubTaken(req[r]), SubTaken(q))
  PROVE  BillingInv'
<1>0. /\ TypeOK /\ \A p \in Requests : SessionOK(req[p]) /\ req[p] \in RequestType
      /\ wallet \in Int /\ token \in Int /\ sub.used \in Nat /\ sub'.used \in Nat
      /\ req \in [Requests -> RequestType] /\ changes \in Nat /\ again \in Nat
      /\ WalletCovered /\ TokenCovered /\ SubCovered /\ IsFiniteSet(Requests)
      /\ InitWallet \in Nat /\ InitToken \in Nat
  BY PersonalBillingAssumption DEF BillingInv, TypeOK
<1>1. req'[r] = q /\ \A p \in Requests \ {r} : req'[p] = req[p]
  BY <1>0
<1>2. TypeOK' /\ \A p \in Requests : SessionOK(req'[p]) /\ req'[p] \in RequestType
  <2>1. \A p \in Requests : SessionOK(req'[p]) /\ req'[p] \in RequestType
    BY <1>0, <1>1
  <2>2. req' \in [Requests -> RequestType]
    BY <1>0
  <2> QED
    BY <2>1, <2>2 DEF TypeOK
<1>3. Sound' = Requests => Sound = Requests /\ ~q.hurt
  BY <1>1 DEF Sound
<1> DEFINE w == [p \in Requests |-> WalletTaken(req[p])]
           v == [p \in Requests |-> WalletTaken(req'[p])]
           t == [p \in Requests |-> TokenTaken(req[p])]
           u == [p \in Requests |-> TokenTaken(req'[p])]
           s == [p \in Requests |-> SubTaken(req[p])]
           z == [p \in Requests |-> SubTaken(req'[p])]
<1>4. /\ w \in [Requests -> Nat] /\ t \in [Requests -> Nat] /\ s \in [Requests -> Nat]
      /\ WalletTaken(q) \in Nat /\ TokenTaken(q) \in Nat /\ SubTaken(q) \in Nat
  BY <1>0, TakenTypes
<1>5. w[r] = WalletTaken(req[r]) /\ t[r] = TokenTaken(req[r]) /\ s[r] = SubTaken(req[r])
  OBVIOUS
<1>6. /\ v[r] = WalletTaken(q) /\ u[r] = TokenTaken(q) /\ z[r] = SubTaken(q)
      /\ \A p \in Requests \ {r} : v[p] = w[p] /\ u[p] = t[p] /\ z[p] = s[p]
      /\ v = [p \in Requests |-> v[p]] /\ u = [p \in Requests |-> u[p]]
      /\ z = [p \in Requests |-> z[p]]
  BY <1>1
<1>7. /\ wallet' <= InitWallet - Total(v) + again' /\ (Sound' = Requests => wallet' = InitWallet - Total(v))
           => WalletCovered'
      /\ token' <= InitToken - Total(u) /\ (Sound' = Requests => token' = InitToken - Total(u))
           => TokenCovered'
      /\ (Sound' = Requests => sub'.used <= Total(z) /\ (changes' = 0 => sub'.used = Total(z)))
           => SubCovered'
  BY DEF WalletCovered, TokenCovered, SubCovered, WalletTaken, TokenTaken, SubTaken, TokenBooked,
         Playground, Owes
<1>8. /\ wallet <= InitWallet - Total(w) + again /\ (Sound = Requests => wallet = InitWallet - Total(w))
      /\ token <= InitToken - Total(t) /\ (Sound = Requests => token = InitToken - Total(t))
      /\ Sound = Requests => sub.used <= Total(s) /\ (changes = 0 => sub.used = Total(s))
  BY <1>0 DEF WalletCovered, TokenCovered, SubCovered
<1> HIDE DEF w, v, t, u, s, z
<1>9. WalletCovered'
  <2>1. /\ Total(w) \in Nat /\ Total(v) \in Nat /\ Total(v) = Total(w) - w[r] + WalletTaken(q)
        /\ w[r] \in Nat
    <3>1. v = [w EXCEPT ![r] = WalletTaken(q)]
      BY <1>4, <1>6
    <3>2. w \in [Requests -> Nat] /\ WalletTaken(q) \in Nat /\ IsFiniteSet(Requests)
      BY <1>0, <1>4
    <3>3. /\ Total(w) \in Nat /\ w[r] \in Nat /\ Total([w EXCEPT ![r] = WalletTaken(q)]) \in Nat
          /\ Total([w EXCEPT ![r] = WalletTaken(q)]) = Total(w) - w[r] + WalletTaken(q)
          /\ WalletTaken(q) <= Total([w EXCEPT ![r] = WalletTaken(q)])
      BY <3>2, TotalAfter
    <3> QED
      BY <3>1, <3>3
  <2>2. /\ WalletTaken(q) - w[r] <= wallet - wallet' + (again' - again)
        /\ ~q.hurt => WalletTaken(q) - w[r] = wallet - wallet' + (again' - again)
    BY <1>5 DEF Paid
  <2>n. /\ wallet \in Int /\ wallet' \in Int /\ again \in Nat /\ again' \in Nat
        /\ InitWallet \in Nat /\ WalletTaken(q) \in Nat
        /\ wallet <= InitWallet - Total(w) + again
        /\ Sound = Requests => wallet = InitWallet - Total(w)
        /\ ~q.hurt => again' = again
    BY <1>0, <1>4, <1>8
  <2>3. /\ wallet' <= InitWallet - Total(v) + again'
        /\ Sound = Requests /\ ~q.hurt => wallet' = InitWallet - Total(v)
    BY <2>n, <2>1, <2>2
  <2> QED
    BY <1>3, <1>7, <2>3
<1>10. TokenCovered'
  <2>1. /\ Total(t) \in Nat /\ Total(u) \in Nat /\ Total(u) = Total(t) - t[r] + TokenTaken(q)
        /\ t[r] \in Nat
    <3>1. u = [t EXCEPT ![r] = TokenTaken(q)]
      BY <1>4, <1>6
    <3>2. t \in [Requests -> Nat] /\ TokenTaken(q) \in Nat /\ IsFiniteSet(Requests)
      BY <1>0, <1>4
    <3>3. /\ Total(t) \in Nat /\ t[r] \in Nat /\ Total([t EXCEPT ![r] = TokenTaken(q)]) \in Nat
          /\ Total([t EXCEPT ![r] = TokenTaken(q)]) = Total(t) - t[r] + TokenTaken(q)
          /\ TokenTaken(q) <= Total([t EXCEPT ![r] = TokenTaken(q)])
      BY <3>2, TotalAfter
    <3> QED
      BY <3>1, <3>3
  <2>2. /\ TokenTaken(q) - t[r] <= token - token'
        /\ ~q.hurt => TokenTaken(q) - t[r] = token - token'
    BY <1>5 DEF Paid
  <2>n. /\ token \in Int /\ token' \in Int /\ InitToken \in Nat /\ TokenTaken(q) \in Nat
        /\ token <= InitToken - Total(t) /\ (Sound = Requests => token = InitToken - Total(t))
    BY <1>0, <1>4, <1>8
  <2>3. /\ token' <= InitToken - Total(u)
        /\ Sound = Requests /\ ~q.hurt => token' = InitToken - Total(u)
    BY <2>n, <2>1, <2>2
  <2> QED
    BY <1>3, <1>7, <2>3
<1>11. SubCovered'
  <2> DEFINE n == SubTaken(q)
  <2>1. /\ Total(s) \in Nat /\ Total(z) \in Nat /\ Total(z) = Total(s) - s[r] + n
        /\ s[r] \in Nat /\ n <= Total(z)
    <3>1. z = [s EXCEPT ![r] = n]
      BY <1>4, <1>6
    <3>2. s \in [Requests -> Nat] /\ n \in Nat /\ IsFiniteSet(Requests)
      BY <1>0, <1>4
    <3> HIDE DEF n
    <3>3. /\ Total(s) \in Nat /\ s[r] \in Nat /\ Total([s EXCEPT ![r] = n]) \in Nat
          /\ Total([s EXCEPT ![r] = n]) = Total(s) - s[r] + n
          /\ n <= Total([s EXCEPT ![r] = n])
      BY <3>2, TotalAfter
    <3> QED
      BY <3>1, <3>3
  <2>2. ~q.hurt => \/ /\ sub'.used = IF sub.used + (n - s[r]) < 0 THEN 0 ELSE sub.used + (n - s[r])
                      /\ changes' = changes
                   \/ sub'.used <= n /\ changes' > 0
    BY <1>5 DEF PaidBySub, PostConsumed
  <2>3. n \in Nat
    BY <1>4
  <2> HIDE DEF n
  <2>4. Sound' = Requests => sub'.used <= Total(z) /\ (changes' = 0 => sub'.used = Total(z))
    BY <1>0, <1>3, <1>8, <2>1, <2>2, <2>3
  <2> QED
    BY <1>7, <2>4
<1> QED
  BY <1>2, <1>9, <1>10, <1>11 DEF BillingInv

\* The same where nothing is given back once more.
LEMMA StepKeeps ==
  ASSUME BillingInv, NEW r \in Requests, NEW q \in RequestType, SessionOK(q),
         req' = [req EXCEPT ![r] = q], req[r].hurt => q.hurt, again' = again,
         wallet' \in Int, Paid(WalletTaken(req[r]), WalletTaken(q), wallet - wallet', q.hurt),
         token' \in Int, Paid(TokenTaken(req[r]), TokenTaken(q), token - token', q.hurt),
         sub' \in [used : Nat, active : BOOLEAN, strict : BOOLEAN],
         faults' \in Nat, changes' \in Nat, changes = 0 \/ changes' > 0,
         ~q.hurt => PaidBySub(SubTaken(req[r]), SubTaken(q))
  PROVE  BillingInv'
<1>1. again \in Nat /\ wallet \in Int
  BY DEF BillingInv, TypeOK
<1>2. wallet - wallet' + (again' - again) = wallet - wallet'
  BY <1>1
<1>3. again' \in Nat /\ (q.hurt \/ again' = again)
  BY <1>1
<1>4. Paid(WalletTaken(req[r]), WalletTaken(q), wallet - wallet' + (again' - again), q.hurt)
  BY <1>2
<1> QED
  BY <1>3, <1>4, StepRepays

(***************************************************************************)
(* Opening a session.                                                      *)
(***************************************************************************)

\* A step that moves no row.
LEMMA QuietStep ==
  ASSUME BillingInv, NEW r \in Requests, NEW q \in RequestType, SessionOK(q),
         req' = [req EXCEPT ![r] = q], req[r].hurt => q.hurt,
         UNCHANGED <<wallet, token, sub, changes, again>>, faults' \in Nat,
         WalletTaken(q) <= WalletTaken(req[r]), TokenTaken(q) <= TokenTaken(req[r]),
         ~q.hurt => /\ WalletTaken(q) = WalletTaken(req[r]) /\ TokenTaken(q) = TokenTaken(req[r])
                    /\ SubTaken(q) = SubTaken(req[r])
  PROVE  BillingInv'
<1>0. /\ wallet \in Int /\ token \in Int /\ sub \in [used : Nat, active : BOOLEAN, strict : BOOLEAN]
      /\ changes \in Nat /\ SessionOK(req[r]) /\ req[r] \in RequestType
  BY DEF BillingInv, TypeOK
<1>1. /\ WalletTaken(q) \in Nat /\ TokenTaken(q) \in Nat /\ SubTaken(q) \in Nat
      /\ WalletTaken(req[r]) \in Nat /\ TokenTaken(req[r]) \in Nat /\ SubTaken(req[r]) \in Nat
  BY <1>0, TakenTypes
<1>2. /\ Paid(WalletTaken(req[r]), WalletTaken(q), wallet - wallet', q.hurt)
      /\ Paid(TokenTaken(req[r]), TokenTaken(q), token - token', q.hurt)
  BY <1>0, <1>1 DEF Paid
<1>3. ~q.hurt => PaidBySub(SubTaken(req[r]), SubTaken(q))
  <2>1. sub.used \in Nat
    BY <1>0
  <2> QED
    BY <1>1, <2>1 DEF PaidBySub, PostConsumed
<1>4. changes = 0 \/ changes' > 0
  BY <1>0
<1> QED
  BY <1>0, <1>2, <1>3, <1>4, StepKeeps

\* A request that holds nothing.
Empty(q) == q.pre = 0 /\ q.consumed = 0 /\ q.extra = 0 /\ q.subPre = 0 /\ q.out = "none"

\* The next attempt, whichever it is, starts with nothing taken.
LEMMA AttemptOK ==
  ASSUME NEW q \in RequestType, Empty(q),
         NEW n \in {TryWallet(q), TrySubscription(q), NextAttempt(q)}
  PROVE  /\ n \in RequestType /\ SessionOK(n) /\ n.hurt = q.hurt
         /\ WalletTaken(n) = 0 /\ TokenTaken(n) = 0 /\ SubTaken(n) = 0
<1>1. CASE n = TryWallet(q)
  <2>1. n \in RequestType
    BY <1>1 DEF TryWallet, RequestType, Calling
  <2>2. /\ n.pc = "wallet" /\ n.src = "wallet" /\ n.tok = 0 /\ n.hurt = q.hurt /\ Empty(n)
        /\ n.kind = q.kind
    BY <1>1 DEF TryWallet, RequestType, Empty
  <2> QED
    BY <2>1, <2>2 DEF SessionOK, Empty, Unopened, WalletTaken, TokenTaken, SubTaken
<1>2. CASE n = TrySubscription(q)
  <2>1. n \in RequestType
    BY <1>2 DEF TrySubscription, RequestType, Calling
  <2>2. /\ n.pc = "token" /\ n.src = "subscription" /\ n.tok = 0 /\ n.hurt = q.hurt /\ Empty(n)
    BY <1>2 DEF TrySubscription, RequestType, Empty
  <2> QED
    BY <2>1, <2>2 DEF SessionOK, Empty, Unopened, WalletTaken, TokenTaken, SubTaken
<1>3. CASE n = [q EXCEPT !.pc = "overflow"] /\ q.src = "subscription"
  <2>1. n \in RequestType
    BY <1>3 DEF RequestType, Calling
  <2>2. n.pc = "overflow" /\ n.src = "subscription" /\ n.hurt = q.hurt /\ Empty(n)
    BY <1>3 DEF RequestType, Empty
  <2> QED
    BY <2>1, <2>2 DEF SessionOK, Empty, Unopened, WalletTaken, TokenTaken, SubTaken
<1>4. CASE n = [q EXCEPT !.pc = "done", !.out = "failed", !.tok = 0]
  <2>1. n \in RequestType
    BY <1>4 DEF RequestType
  <2>2. n.pc = "done" /\ n.out = "failed" /\ n.hurt = q.hurt
    BY <1>4 DEF RequestType
  <2> QED
    BY <2>1, <2>2 DEF SessionOK, Unopened, WalletTaken, TokenTaken, SubTaken, TokenBooked, Owes
<1> QED
  BY <1>1, <1>2, <1>3, <1>4 DEF NextAttempt

\* A session that is being opened holds nothing on its funding, and on the token only
\* what ReserveToken took.
LEMMA UnopenedTaken ==
  ASSUME NEW q \in RequestType, SessionOK(q), q.pc \in Unopened
  PROVE  /\ Empty(q) /\ WalletTaken(q) = 0 /\ SubTaken(q) = 0
         /\ TokenTaken(q) = IF q.pc \in {"funding", "rollback"} /\ ~Playground(q) THEN q.tok ELSE 0
<1>1. Empty(q)
  BY DEF SessionOK, Unopened, Empty
<1>2. WalletTaken(q) = 0
  BY DEF WalletTaken, Unopened
<1>3. SubTaken(q) = 0
  BY DEF SubTaken, Unopened
<1>4. TokenTaken(q) = IF q.pc \in {"funding", "rollback"} /\ ~Playground(q) THEN q.tok ELSE 0
  BY DEF TokenTaken, Unopened
<1> QED
  BY <1>1, <1>2, <1>3, <1>4

\* The facts every step starts from.
LEMMA Given ==
  ASSUME BillingInv, NEW r \in Requests
  PROVE  /\ wallet \in Int /\ token \in Int /\ sub.used \in Nat /\ faults \in Nat /\ changes \in Nat
         /\ sub \in [used : Nat, active : BOOLEAN, strict : BOOLEAN]
         /\ req[r] \in RequestType /\ SessionOK(req[r])
  BY DEF BillingInv, TypeOK

\* An attempt that moves no row ends or begins.
LEMMA AttemptStep ==
  ASSUME BillingInv, NEW r \in Requests, NEW q \in RequestType, Empty(q),
         q.hurt = req[r].hurt, NEW n \in {TryWallet(q), TrySubscription(q), NextAttempt(q)},
         req[r].pc \in Unopened \ {"funding", "rollback"}, Becomes(r, n),
         UNCHANGED <<wallet, token, sub, faults, changes, again>>
  PROVE  BillingInv'
<1>1. /\ n \in RequestType /\ SessionOK(n) /\ n.hurt = q.hurt
      /\ WalletTaken(n) = 0 /\ TokenTaken(n) = 0 /\ SubTaken(n) = 0
  BY AttemptOK
<1>2. WalletTaken(req[r]) = 0 /\ TokenTaken(req[r]) = 0 /\ SubTaken(req[r]) = 0
  BY Given, UnopenedTaken DEF Unopened
<1>3. faults' \in Nat /\ req' = [req EXCEPT ![r] = n]
  BY Given DEF Becomes
<1>4. req[r].hurt => n.hurt
  BY <1>1
<1>5. WalletTaken(n) <= WalletTaken(req[r]) /\ TokenTaken(n) <= TokenTaken(req[r])
  BY <1>1, <1>2
<1> QED
  BY <1>1, <1>2, <1>3, <1>4, <1>5, QuietStep

\* Begin, and the reads that decide on the source, move no row.
LEMMA OpeningReads ==
  ASSUME BillingInv, NEW r \in Requests,
         Begin(r) \/ CheckSubscription(r) \/ CheckOverflow(r) \/ CheckWallet(r)
  PROVE  BillingInv'
<1>0. req[r] \in RequestType /\ SessionOK(req[r])
  BY Given
<1>1. CASE Begin(r)
  <2>1. PICK e \in Estimates :
          LET q == [req[r] EXCEPT !.est = e,
                      !.rich = req[r].kind.token = "unlimited" \/ token > TrustQuota]
          IN Becomes(r, CASE q.kind.pref = "subscription_only" -> TrySubscription(q)
                          [] q.kind.pref = "subscription_first" -> [q EXCEPT !.pc = "check"]
                          [] OTHER -> TryWallet(q))
    BY <1>1 DEF Begin
  <2> DEFINE rich == req[r].kind.token = "unlimited" \/ token > TrustQuota
             q == [req[r] EXCEPT !.est = e, !.rich = rich]
  <2>2. /\ At(r, "idle") /\ UNCHANGED <<wallet, token, sub, faults, changes, again>>
        /\ Becomes(r, CASE q.kind.pref = "subscription_only" -> TrySubscription(q)
                        [] q.kind.pref = "subscription_first" -> [q EXCEPT !.pc = "check"]
                        [] OTHER -> TryWallet(q))
    BY <1>1, <2>1 DEF Begin
  <2>3. /\ q \in RequestType /\ q.hurt = req[r].hurt /\ q.pre = req[r].pre
        /\ q.consumed = req[r].consumed /\ q.extra = req[r].extra /\ q.subPre = req[r].subPre
        /\ q.out = req[r].out /\ q.tok = req[r].tok
    <3>1. e \in Nat /\ rich \in BOOLEAN
      BY PersonalBillingAssumption
    <3> HIDE DEF rich
    <3> QED
      BY <1>0, <3>1 DEF RequestType
  <2>4. req[r].pc \in Unopened \ {"funding", "rollback"}
    BY <2>2 DEF At, Unopened
  <2>5. Empty(req[r]) /\ req[r].tok = 0
    BY <1>0, <2>2 DEF At, SessionOK, Empty, Unopened
  <2>6. Empty(q) /\ q.tok = 0
    BY <2>3, <2>5 DEF Empty
  <2> HIDE DEF q
  <2>7. CASE Becomes(r, [q EXCEPT !.pc = "check"])
    <3> DEFINE n == [q EXCEPT !.pc = "check"]
    <3>1. n \in RequestType
      BY <2>3 DEF RequestType, Calling
    <3>2. n.pc = "check" /\ n.hurt = q.hurt /\ Empty(n) /\ n.tok = 0
      BY <2>3, <2>6 DEF RequestType, Empty
    <3> HIDE DEF n
    <3>3. SessionOK(n) /\ WalletTaken(n) = 0 /\ TokenTaken(n) = 0 /\ SubTaken(n) = 0
      BY <3>1, <3>2 DEF SessionOK, Empty, Unopened, WalletTaken, TokenTaken, SubTaken
    <3>4. WalletTaken(req[r]) = 0 /\ TokenTaken(req[r]) = 0 /\ SubTaken(req[r]) = 0
      BY <1>0, <2>4, UnopenedTaken
    <3>5. faults' \in Nat /\ req' = [req EXCEPT ![r] = n] /\ (req[r].hurt => n.hurt)
      BY <2>2, <2>3, <2>7, <3>2, Given DEF Becomes, n
    <3>6. WalletTaken(n) <= WalletTaken(req[r]) /\ TokenTaken(n) <= TokenTaken(req[r])
      BY <3>3, <3>4
    <3> QED
      BY <2>2, <3>1, <3>3, <3>4, <3>5, <3>6, QuietStep
  <2>8. CASE Becomes(r, TryWallet(q)) \/ Becomes(r, TrySubscription(q))
    BY <2>2, <2>3, <2>4, <2>6, <2>8, AttemptStep
  <2> QED
    BY <2>2, <2>7, <2>8
<1>2. CASE CheckSubscription(r)
  <2>1. /\ req[r].pc \in Unopened \ {"funding", "rollback"}
        /\ Becomes(r, TryWallet(req[r])) \/ Becomes(r, TrySubscription(req[r]))
        /\ UNCHANGED <<wallet, token, sub, faults, changes, again>>
    BY <1>2 DEF CheckSubscription, At, Unopened
  <2>2. Empty(req[r])
    BY <1>0, <2>1, UnopenedTaken
  <2> QED
    BY <1>0, <2>1, <2>2, AttemptStep
<1>3. CASE CheckOverflow(r)
  <2>1. /\ req[r].pc \in Unopened \ {"funding", "rollback"} /\ req[r].pc = "overflow"
        /\ \/ Becomes(r, TryWallet(req[r]))
           \/ Becomes(r, [req[r] EXCEPT !.pc = "done", !.out = "failed", !.tok = 0])
        /\ UNCHANGED <<wallet, token, sub, faults, changes, again>>
    BY <1>3 DEF CheckOverflow, At, Unopened
  <2>2. Empty(req[r])
    BY <1>0, <2>1, UnopenedTaken
  <2>3. CASE Becomes(r, [req[r] EXCEPT !.pc = "done", !.out = "failed", !.tok = 0])
    <3> DEFINE n == [req[r] EXCEPT !.pc = "done", !.out = "failed", !.tok = 0]
    <3>1. n \in RequestType /\ n.pc = "done" /\ n.out = "failed" /\ n.hurt = req[r].hurt
      BY <1>0 DEF RequestType
    <3>2. req' = [req EXCEPT ![r] = n]
      BY <2>3 DEF Becomes
    <3> HIDE DEF n
    <3>3. SessionOK(n) /\ WalletTaken(n) = 0 /\ TokenTaken(n) = 0 /\ SubTaken(n) = 0
      BY <3>1 DEF SessionOK, Unopened, WalletTaken, TokenTaken, SubTaken, TokenBooked, Owes
    <3>4. WalletTaken(req[r]) = 0 /\ TokenTaken(req[r]) = 0 /\ SubTaken(req[r]) = 0
      BY <1>0, <2>1, UnopenedTaken
    <3>5. faults' \in Nat /\ (req[r].hurt => n.hurt)
      BY <2>1, <3>1, Given
    <3>6. WalletTaken(n) <= WalletTaken(req[r]) /\ TokenTaken(n) <= TokenTaken(req[r])
      BY <3>3, <3>4
    <3> QED
      BY <2>1, <3>1, <3>2, <3>3, <3>4, <3>5, <3>6, QuietStep
  <2> QED
    BY <1>0, <2>1, <2>2, <2>3, AttemptStep
<1>4. CASE CheckWallet(r)
  <2> DEFINE q == [req[r] EXCEPT !.why = "insufficient"]
             trusted == req[r].rich /\ wallet > TrustQuota
  <2>0. req[r].pc = "wallet" /\ UNCHANGED <<wallet, token, sub, faults, changes, again>>
    BY <1>4 DEF CheckWallet, At
  <2>1. \/ Becomes(r, NextAttempt(q))
        \/ Becomes(r, [req[r] EXCEPT !.trusted = trusted, !.pc = "open"])
        \/ Becomes(r, [req[r] EXCEPT !.pc = "token"])
    BY <1>4 DEF CheckWallet
  <2>2. req[r].pc \in Unopened \ {"funding", "rollback"} /\ Empty(req[r]) /\ req[r].tok = 0
        /\ req[r].src # "none"
    BY <1>0, <2>0 DEF SessionOK, Empty, Unopened
  <2>3. WalletTaken(req[r]) = 0 /\ TokenTaken(req[r]) = 0 /\ SubTaken(req[r]) = 0
    BY <1>0, <2>2, UnopenedTaken
  <2>4. CASE Becomes(r, NextAttempt(q))
    <3>1. q \in RequestType /\ Empty(q) /\ q.hurt = req[r].hurt
      BY <1>0, <2>2 DEF RequestType, Empty
    <3> HIDE DEF q
    <3> QED
      BY <2>0, <2>2, <2>4, <3>1, AttemptStep
  <2>5. ASSUME NEW n \in RequestType, n.pc \in {"open", "token"}, n.src = req[r].src, Empty(n),
               n.tok = 0, n.hurt = req[r].hurt, Becomes(r, n)
        PROVE  BillingInv'
    <3>1. SessionOK(n) /\ WalletTaken(n) = 0 /\ TokenTaken(n) = 0 /\ SubTaken(n) = 0
      BY <2>2, <2>5 DEF SessionOK, Empty, Unopened, WalletTaken, TokenTaken, SubTaken
    <3>2. faults' \in Nat /\ (req[r].hurt => n.hurt) /\ req' = [req EXCEPT ![r] = n]
      BY <2>0, <2>5, Given DEF Becomes
    <3>3. WalletTaken(n) <= WalletTaken(req[r]) /\ TokenTaken(n) <= TokenTaken(req[r])
      BY <2>3, <3>1
    <3> QED
      BY <2>0, <2>3, <3>1, <3>2, <3>3, QuietStep
  <2>6. CASE Becomes(r, [req[r] EXCEPT !.trusted = trusted, !.pc = "open"])
    <3> DEFINE n == [req[r] EXCEPT !.trusted = trusted, !.pc = "open"]
    <3>1. trusted \in BOOLEAN
      BY <1>0 DEF RequestType
    <3> HIDE DEF trusted
    <3>2. n \in RequestType /\ n.pc = "open" /\ n.src = req[r].src /\ Empty(n) /\ n.tok = 0
          /\ n.hurt = req[r].hurt
      BY <1>0, <2>2, <3>1 DEF RequestType, Empty
    <3>3. Becomes(r, n)
      BY <2>6
    <3> HIDE DEF n
    <3> QED
      BY <2>5, <3>2, <3>3
  <2>7. CASE Becomes(r, [req[r] EXCEPT !.pc = "token"])
    <3> DEFINE n == [req[r] EXCEPT !.pc = "token"]
    <3>1. n \in RequestType /\ n.pc = "token" /\ n.src = req[r].src /\ Empty(n) /\ n.tok = 0
          /\ n.hurt = req[r].hurt
      BY <1>0, <2>2 DEF RequestType, Empty, Calling
    <3>2. Becomes(r, n)
      BY <2>7
    <3> HIDE DEF n
    <3> QED
      BY <2>5, <3>1, <3>2
  <2> QED
    BY <2>1, <2>4, <2>6, <2>7
<1> QED
  BY <1>1, <1>2, <1>3, <1>4

(***************************************************************************)
(* Steps that move a row.                                                  *)
(***************************************************************************)

\* A step that moves the rows by exactly what the request has taken since.
LEMMA ExactStep ==
  ASSUME BillingInv, NEW r \in Requests, NEW q \in RequestType, SessionOK(q),
         Becomes(r, q), q.hurt = req[r].hurt, UNCHANGED <<faults, changes, again>>,
         wallet' = wallet - (WalletTaken(q) - WalletTaken(req[r])),
         token' = token - (TokenTaken(q) - TokenTaken(req[r])),
         \/ UNCHANGED sub /\ (~q.hurt => SubTaken(q) = SubTaken(req[r]))
         \/ \E m \in Int : /\ sub' = [sub EXCEPT !.used = PostConsumed(m)]
                           /\ ~q.hurt => SubTaken(q) - SubTaken(req[r]) = m
  PROVE  BillingInv'
<1>0. /\ wallet \in Int /\ token \in Int /\ sub.used \in Nat /\ faults \in Nat /\ changes \in Nat
      /\ sub \in [used : Nat, active : BOOLEAN, strict : BOOLEAN]
      /\ req[r] \in RequestType /\ SessionOK(req[r])
  BY Given
<1>1. /\ WalletTaken(q) \in Nat /\ TokenTaken(q) \in Nat /\ SubTaken(q) \in Nat
      /\ WalletTaken(req[r]) \in Nat /\ TokenTaken(req[r]) \in Nat /\ SubTaken(req[r]) \in Nat
  BY <1>0, TakenTypes
<1>2. /\ wallet' \in Int /\ Paid(WalletTaken(req[r]), WalletTaken(q), wallet - wallet', q.hurt)
      /\ token' \in Int /\ Paid(TokenTaken(req[r]), TokenTaken(q), token - token', q.hurt)
  BY <1>0, <1>1 DEF Paid
<1>3. /\ sub' \in [used : Nat, active : BOOLEAN, strict : BOOLEAN]
      /\ ~q.hurt => PaidBySub(SubTaken(req[r]), SubTaken(q))
  <2>1. CASE UNCHANGED sub /\ (~q.hurt => SubTaken(q) = SubTaken(req[r]))
    BY <1>0, <1>1, <2>1 DEF PaidBySub, PostConsumed
  <2>2. ASSUME NEW m \in Int, sub' = [sub EXCEPT !.used = PostConsumed(m)],
               ~q.hurt => SubTaken(q) - SubTaken(req[r]) = m
        PROVE  /\ sub' \in [used : Nat, active : BOOLEAN, strict : BOOLEAN]
               /\ ~q.hurt => PaidBySub(SubTaken(req[r]), SubTaken(q))
    <3>1. PostConsumed(m) \in Nat
      BY <1>0 DEF PostConsumed
    <3>2. /\ sub' \in [used : Nat, active : BOOLEAN, strict : BOOLEAN]
          /\ sub'.used = PostConsumed(m)
      BY <1>0, <2>2, <3>1
    <3> QED
      BY <2>2, <3>2 DEF PaidBySub
  <2> QED
    BY <2>1, <2>2
<1>4. faults' \in Nat /\ changes' \in Nat /\ (changes = 0 \/ changes' > 0)
      /\ req' = [req EXCEPT ![r] = q] /\ (req[r].hurt => q.hurt)
  BY <1>0 DEF Becomes
<1> QED
  BY <1>2, <1>3, <1>4, StepKeeps

\* A step that moves only the token.
LEMMA TokenStep ==
  ASSUME BillingInv, NEW r \in Requests, NEW q \in RequestType, SessionOK(q),
         Becomes(r, q), q.hurt = req[r].hurt, UNCHANGED <<wallet, sub, faults, changes, again>>,
         WalletTaken(q) = WalletTaken(req[r]), SubTaken(q) = SubTaken(req[r]),
         token' = token - (TokenTaken(q) - TokenTaken(req[r]))
  PROVE  BillingInv'
<1>0. wallet \in Int /\ req[r] \in RequestType /\ SessionOK(req[r])
  BY Given
<1>1. WalletTaken(q) \in Nat /\ WalletTaken(req[r]) \in Nat
  BY <1>0, TakenTypes
<1>2. wallet' = wallet - (WalletTaken(q) - WalletTaken(req[r]))
  BY <1>0, <1>1
<1> QED
  BY <1>2, ExactStep

\* A step that moves only the funding of the session.
LEMMA FundingStep ==
  ASSUME BillingInv, NEW r \in Requests, NEW q \in RequestType, SessionOK(q),
         Becomes(r, q), q.hurt = req[r].hurt, UNCHANGED <<token, faults, changes, again>>,
         NEW n \in Int, MoveFunding(req[r], n), q.src = req[r].src, req[r].src # "none",
         TokenTaken(q) = TokenTaken(req[r]),
         q.src = "wallet" => WalletTaken(q) - WalletTaken(req[r]) = n,
         q.src = "subscription" /\ ~q.hurt => SubTaken(q) - SubTaken(req[r]) = n
  PROVE  BillingInv'
<1>0. /\ wallet \in Int /\ token \in Int /\ req[r] \in RequestType /\ SessionOK(req[r])
  BY Given
<1>1. /\ TokenTaken(q) \in Nat /\ TokenTaken(req[r]) \in Nat
      /\ WalletTaken(q) \in Nat /\ WalletTaken(req[r]) \in Nat
  BY <1>0, TakenTypes
<1>2. token' = token - (TokenTaken(q) - TokenTaken(req[r]))
  BY <1>0, <1>1
<1>3. CASE q.src = "wallet"
  <2>1. wallet' = wallet - (WalletTaken(q) - WalletTaken(req[r])) /\ UNCHANGED sub
    BY <1>0, <1>1, <1>3 DEF MoveFunding
  <2>2. SubTaken(q) = SubTaken(req[r])
    BY <1>3 DEF SubTaken
  <2> QED
    BY <1>2, <2>1, <2>2, ExactStep
<1>4. CASE q.src = "subscription"
  <2>1. sub' = [sub EXCEPT !.used = PostConsumed(n)] /\ UNCHANGED wallet
    BY <1>4 DEF MoveFunding
  <2>2. WalletTaken(q) = 0 /\ WalletTaken(req[r]) = 0
    BY <1>4 DEF WalletTaken
  <2>3. wallet' = wallet - (WalletTaken(q) - WalletTaken(req[r]))
    BY <1>0, <2>1, <2>2
  <2>4. \E m \in Int : /\ sub' = [sub EXCEPT !.used = PostConsumed(m)]
                       /\ ~q.hurt => SubTaken(q) - SubTaken(req[r]) = m
    BY <1>4, <2>1
  <2> QED
    BY <1>2, <2>3, <2>4, ExactStep
<1> QED
  BY <1>0, <1>3, <1>4 DEF RequestType

\* TryReserveTokenQuota and its rollback.
LEMMA TokenSteps ==
  ASSUME BillingInv, NEW r \in Requests, ReserveToken(r) \/ Rollback(r)
  PROVE  BillingInv'
<1> DEFINE q == req[r]
<1>0. /\ q \in RequestType /\ SessionOK(q) /\ token \in Int /\ q.est \in Nat /\ q.tok \in Nat
  BY Given DEF RequestType
<1>1. SessionQuota(q) \in Nat
  BY <1>0 DEF SessionQuota
<1>2. CASE ReserveToken(r)
  <2>0. /\ q.pc = "token" /\ q.pc \in Unopened \ {"funding", "rollback"}
        /\ UNCHANGED <<wallet, sub, faults, changes, again>>
    BY <1>2 DEF ReserveToken, At, Unopened
  <2>1. /\ Empty(q) /\ WalletTaken(q) = 0 /\ SubTaken(q) = 0 /\ TokenTaken(q) = 0
        /\ q.src # "none"
    <3>1. /\ Empty(q) /\ WalletTaken(q) = 0 /\ SubTaken(q) = 0 /\ TokenTaken(q) = 0
      BY <1>0, <2>0, UnopenedTaken
    <3> QED
      BY <1>0, <2>0, <3>1 DEF SessionOK
  <2>2. CASE TokenCovers(q, SessionQuota(q))
    <3> DEFINE n == [q EXCEPT !.tok = SessionQuota(q), !.pc = "funding"]
    <3>1. Becomes(r, n) /\ token' = TokenLess(q, SessionQuota(q))
      BY <1>2, <2>2 DEF ReserveToken
    <3>2. /\ n \in RequestType /\ n.pc = "funding" /\ n.tok = SessionQuota(q) /\ n.src = q.src
          /\ n.kind = q.kind /\ n.est = q.est /\ n.hurt = q.hurt /\ Empty(n)
      BY <1>0, <1>1, <2>1 DEF RequestType, Calling, Empty
    <3> HIDE DEF n
    <3>3. SessionQuota(n) = SessionQuota(q)
      BY <3>2 DEF SessionQuota
    <3>4. SessionOK(n)
      BY <2>1, <3>2, <3>3 DEF SessionOK, Empty, Unopened
    <3>5. WalletTaken(n) = 0 /\ SubTaken(n) = 0
      BY <3>2, <3>4, UnopenedTaken DEF Unopened
    <3>6. TokenTaken(n) = IF Playground(q) THEN 0 ELSE SessionQuota(q)
      BY <3>2 DEF TokenTaken, Playground
    <3>7. token' = token - (TokenTaken(n) - TokenTaken(q))
      BY <1>0, <1>1, <2>1, <3>1, <3>6 DEF TokenLess
    <3> QED
      BY <2>0, <2>1, <3>1, <3>2, <3>4, <3>5, <3>7, TokenStep
  <2>3. CASE ~TokenCovers(q, SessionQuota(q))
    <3> DEFINE n == [q EXCEPT !.why = "token"]
    <3>1. Becomes(r, NextAttempt(n)) /\ UNCHANGED token
      BY <1>2, <2>3 DEF ReserveToken
    <3>2. n \in RequestType /\ n.hurt = q.hurt /\ Empty(n)
      BY <1>0, <2>1 DEF RequestType, Empty
    <3> HIDE DEF n
    <3> QED
      BY <2>0, <3>1, <3>2, AttemptStep
  <2> QED
    BY <2>2, <2>3
<1>3. CASE Rollback(r)
  <2>0. /\ q.pc = "rollback" /\ q.pc \in Unopened /\ UNCHANGED <<wallet, sub, faults, changes, again>>
        /\ token' = TokenLess(q, -q.tok) /\ Becomes(r, NextAttempt(q))
    BY <1>3 DEF Rollback, At, Unopened
  <2>1. /\ Empty(q) /\ WalletTaken(q) = 0 /\ SubTaken(q) = 0
        /\ TokenTaken(q) = IF Playground(q) THEN 0 ELSE q.tok
    BY <1>0, <2>0, UnopenedTaken
  <2> DEFINE n == NextAttempt(q)
  <2>2. /\ n \in RequestType /\ SessionOK(n) /\ n.hurt = q.hurt
        /\ WalletTaken(n) = 0 /\ TokenTaken(n) = 0 /\ SubTaken(n) = 0
    BY <1>0, <2>1, AttemptOK
  <2>3. token' = token - (TokenTaken(n) - TokenTaken(q))
    BY <1>0, <2>0, <2>1, <2>2 DEF TokenLess
  <2> HIDE DEF n
  <2>4. Becomes(r, n)
    BY <2>0 DEF n
  <2> QED
    BY <2>0, <2>1, <2>2, <2>3, <2>4, TokenStep
<1> QED
  BY <1>2, <1>3

\* The funding refused: the token is still held, and given back next.
LEMMA RefusedStep ==
  ASSUME BillingInv, NEW r \in Requests, req[r].pc = "funding", Becomes(r, Refused(req[r])),
         UNCHANGED <<wallet, token, sub, faults, changes, again>>
  PROVE  BillingInv'
<1> DEFINE q == req[r]
           n == Refused(q)
<1>0. q \in RequestType /\ SessionOK(q) /\ faults \in Nat /\ q.pc \in Unopened
  BY Given DEF Unopened
<1>1. /\ n \in RequestType /\ n.pc = "rollback" /\ n.tok = q.tok /\ n.src = q.src
      /\ n.est = q.est /\ n.kind = q.kind /\ n.hurt = q.hurt /\ (Empty(q) => Empty(n))
  BY <1>0 DEF Refused, RequestType, Calling, Empty
<1>2. Empty(q) /\ TokenTaken(q) = (IF Playground(q) THEN 0 ELSE q.tok)
      /\ WalletTaken(q) = 0 /\ SubTaken(q) = 0 /\ q.src # "none" /\ q.tok = SessionQuota(q)
  <2>1. Empty(q) /\ TokenTaken(q) = (IF Playground(q) THEN 0 ELSE q.tok)
        /\ WalletTaken(q) = 0 /\ SubTaken(q) = 0
    BY <1>0, UnopenedTaken
  <2>2. q.src # "none" /\ q.tok = SessionQuota(q)
    BY <1>0 DEF SessionOK
  <2> QED
    BY <2>1, <2>2
<1>3. req' = [req EXCEPT ![r] = n] /\ (q.hurt => n.hurt)
  BY <1>1 DEF Becomes
<1> HIDE DEF n
<1>4. SessionOK(n)
  BY <1>1, <1>2 DEF SessionOK, Empty, Unopened, SessionQuota
<1>5. /\ WalletTaken(n) = 0 /\ SubTaken(n) = 0
      /\ TokenTaken(n) = (IF Playground(q) THEN 0 ELSE q.tok)
  <2>1. /\ WalletTaken(n) = 0 /\ SubTaken(n) = 0
        /\ TokenTaken(n) = (IF Playground(n) THEN 0 ELSE n.tok)
    BY <1>1, <1>4, UnopenedTaken DEF Unopened
  <2> QED
    BY <1>1, <2>1 DEF Playground
<1>6. WalletTaken(n) = WalletTaken(q) /\ TokenTaken(n) = TokenTaken(q) /\ SubTaken(n) = SubTaken(q)
  BY <1>2, <1>5
<1>7. WalletTaken(n) <= WalletTaken(q) /\ TokenTaken(n) <= TokenTaken(q)
  <2>1. WalletTaken(n) \in Nat /\ TokenTaken(n) \in Nat
    BY <1>1, <1>4, TakenTypes
  <2> QED
    BY <1>6, <2>1
<1>8. faults' \in Nat
  BY <1>0
<1> QED
  BY <1>1, <1>3, <1>4, <1>6, <1>7, <1>8, QuietStep

\* A session whose funding granted the reservation: it holds the same on the token and
\* on its funding.
LEMMA OpenedOK ==
  ASSUME NEW q \in RequestType, SessionOK(q), q.pc = "funding",
         NEW p \in RequestType, p.src = q.src, p.est = q.est, p.tok = q.tok, p.extra = 0,
         p.kind = q.kind, p.hurt = q.hurt, p.out = "none",
         q.src = "wallet" => p.consumed = SessionQuota(q),
         q.src = "subscription" => p.subPre = SessionQuota(q)
  PROVE  /\ Opened(p) \in RequestType /\ SessionOK(Opened(p)) /\ Opened(p).hurt = q.hurt
         /\ Opened(p).src = q.src /\ TokenTaken(Opened(p)) = TokenTaken(q)
         /\ SessionQuota(q) \in Nat /\ WalletTaken(q) = 0 /\ SubTaken(q) = 0
         /\ q.src = "wallet" => WalletTaken(Opened(p)) = SessionQuota(q)
         /\ q.src # "wallet" => WalletTaken(Opened(p)) = 0
         /\ q.src = "subscription" => SubTaken(Opened(p)) = SessionQuota(q)
<1> DEFINE n == Opened(p)
<1>0. /\ q.src # "none" /\ q.tok = SessionQuota(q) /\ q.est \in Nat /\ q.pc \in Unopened
      /\ q.src \in {"none", "wallet", "subscription"}
  BY DEF SessionOK, RequestType, Unopened
<1>1. SessionQuota(q) \in Nat /\ SessionQuota(p) = SessionQuota(q)
  BY <1>0 DEF SessionQuota
<1>2. /\ n \in RequestType /\ n.pc = "open" /\ n.pre = SessionQuota(q) /\ n.src = q.src
      /\ n.tok = q.tok /\ n.extra = 0 /\ n.hurt = q.hurt /\ n.out = "none" /\ n.kind = q.kind
      /\ n.consumed = p.consumed /\ n.subPre = p.subPre
  BY <1>1 DEF Opened, RequestType
<1> HIDE DEF n
<1>3. SessionOK(n)
  BY <1>0, <1>1, <1>2 DEF SessionOK, Unopened
<1>4. WalletTaken(q) = 0 /\ SubTaken(q) = 0 /\ TokenTaken(q) = IF Playground(q) THEN 0 ELSE q.tok
  BY <1>0, UnopenedTaken
<1>5. /\ TokenTaken(n) = IF Playground(q) THEN 0 ELSE q.tok
      /\ q.src = "wallet" => WalletTaken(n) = SessionQuota(q)
      /\ q.src # "wallet" => WalletTaken(n) = 0
      /\ q.src = "subscription" => SubTaken(n) = SessionQuota(q)
  BY <1>2 DEF TokenTaken, WalletTaken, SubTaken, Playground
<1> QED
  BY <1>1, <1>2, <1>3, <1>4, <1>5 DEF n

\* WalletFunding.PreConsume takes the quota of the session, or refuses.
LEMMA ReserveWalletStep ==
  ASSUME BillingInv, NEW r \in Requests, ReserveWallet(r)
  PROVE  BillingInv'
<1> DEFINE q == req[r]
           p == [q EXCEPT !.consumed = q.est]
<1>0. /\ q \in RequestType /\ SessionOK(q) /\ wallet \in Int /\ q.est \in Nat
      /\ q.pc = "funding" /\ q.src = "wallet" /\ UNCHANGED <<token, sub, faults, changes, again>>
  BY Given DEF ReserveWallet, At, RequestType
<1>1. CASE wallet >= q.est
  <2>1. wallet' = wallet - q.est /\ Becomes(r, Opened(p))
    BY <1>1 DEF ReserveWallet
  <2>2. q.est = SessionQuota(q)
    BY <1>0 DEF SessionQuota
  <2>3. /\ p \in RequestType /\ p.src = q.src /\ p.est = q.est /\ p.tok = q.tok /\ p.extra = q.extra
        /\ p.kind = q.kind /\ p.hurt = q.hurt /\ p.out = q.out /\ p.consumed = q.est
    BY <1>0 DEF RequestType
  <2>4. q.extra = 0 /\ q.out = "none"
    BY <1>0 DEF SessionOK, Unopened
  <2> HIDE DEF p
  <2> DEFINE n == Opened(p)
  <2>5. /\ n \in RequestType /\ SessionOK(n) /\ n.hurt = q.hurt /\ n.src = q.src
        /\ TokenTaken(n) = TokenTaken(q) /\ WalletTaken(q) = 0 /\ WalletTaken(n) = q.est
    <3>1. p.extra = 0 /\ p.out = "none" /\ p.consumed = SessionQuota(q) /\ q.src # "subscription"
      BY <1>0, <2>2, <2>3, <2>4
    <3>2. /\ n \in RequestType /\ SessionOK(n) /\ n.hurt = q.hurt /\ n.src = q.src
          /\ TokenTaken(n) = TokenTaken(q) /\ WalletTaken(q) = 0
          /\ q.src = "wallet" => WalletTaken(n) = SessionQuota(q)
      BY <1>0, <2>3, <3>1, OpenedOK
    <3> QED
      BY <1>0, <2>2, <3>2
  <2>6. Becomes(r, n)
    BY <2>1
  <2> HIDE DEF n
  <2>7. MoveFunding(q, q.est) /\ WalletTaken(n) - WalletTaken(q) = q.est /\ q.est \in Int
    BY <1>0, <2>1, <2>5 DEF MoveFunding
  <2> QED
    BY <1>0, <2>5, <2>6, <2>7, FundingStep
<1>2. CASE ~(wallet >= q.est)
  BY <1>0, <1>2, RefusedStep DEF ReserveWallet
<1> QED
  BY <1>1, <1>2

\* PreConsumeUserSubscription takes it from the subscription, after the reset of an
\* ended period, or refuses.
LEMMA PreConsumeStep ==
  ASSUME BillingInv, NEW r \in Requests, PreConsumeSubscription(r)
  PROVE  BillingInv'
<1> DEFINE q == req[r]
           m == SessionQuota(q)
           p == [q EXCEPT !.subPre = m, !.record = "consumed"]
           n == Opened(p)
<1>0. /\ q \in RequestType /\ SessionOK(q) /\ wallet \in Int /\ q.est \in Nat /\ token \in Int
      /\ q.pc = "funding" /\ q.src = "subscription" /\ UNCHANGED <<wallet, token, faults, again>>
      /\ sub \in [used : Nat, active : BOOLEAN, strict : BOOLEAN] /\ sub.used \in Nat
      /\ changes \in Nat /\ faults \in Nat
  BY Given DEF PreConsumeSubscription, At, RequestType
<1>1. m \in Nat
  BY <1>0 DEF SessionQuota
<1>2. PICK due \in BOOLEAN :
        LET used == IF due THEN 0 ELSE sub.used IN
        IF sub.active /\ (SubTotal = 0 \/ SubTotal - used >= m)
        THEN /\ sub' = [sub EXCEPT !.used = used + m]
             /\ changes' = IF due THEN changes + 1 ELSE changes
             /\ Becomes(r, n)
        ELSE Becomes(r, Refused(q)) /\ UNCHANGED <<sub, changes>>
  BY DEF PreConsumeSubscription
<1>3. /\ p \in RequestType /\ p.src = q.src /\ p.est = q.est /\ p.tok = q.tok /\ p.extra = q.extra
      /\ p.kind = q.kind /\ p.hurt = q.hurt /\ p.out = q.out /\ p.subPre = m
  <2> HIDE DEF m
  <2> QED
    BY <1>0, <1>1 DEF RequestType
<1>4. /\ n \in RequestType /\ SessionOK(n) /\ n.hurt = q.hurt /\ n.src = q.src
      /\ TokenTaken(n) = TokenTaken(q) /\ WalletTaken(q) = 0 /\ WalletTaken(n) = 0
      /\ SubTaken(q) = 0 /\ SubTaken(n) = m
  <2>1. q.extra = 0 /\ q.out = "none"
    BY <1>0 DEF SessionOK, Unopened
  <2> HIDE DEF p
  <2>2. p.extra = 0 /\ p.out = "none" /\ q.src # "wallet" /\ p.subPre = SessionQuota(q)
    BY <1>0, <1>3, <2>1
  <2>3. /\ n \in RequestType /\ SessionOK(n) /\ n.hurt = q.hurt /\ n.src = q.src
        /\ TokenTaken(n) = TokenTaken(q) /\ WalletTaken(q) = 0 /\ SubTaken(q) = 0
        /\ q.src # "wallet" => WalletTaken(n) = 0
        /\ q.src = "subscription" => SubTaken(n) = SessionQuota(q)
    BY <1>0, <1>3, <2>2, OpenedOK
  <2> QED
    BY <1>0, <2>3
<1> HIDE DEF n, p, m
<1>5. CASE /\ due /\ sub' = [sub EXCEPT !.used = 0 + m] /\ changes' = changes + 1 /\ Becomes(r, n)
  <2>1. /\ sub' \in [used : Nat, active : BOOLEAN, strict : BOOLEAN] /\ sub'.used = m
        /\ changes' \in Nat /\ changes' > 0 /\ faults' \in Nat
        /\ wallet' \in Int /\ token' \in Int /\ req' = [req EXCEPT ![r] = n]
    BY <1>0, <1>1, <1>5 DEF Becomes
  <2>2. PaidBySub(SubTaken(q), SubTaken(n))
    BY <1>1, <1>4, <2>1 DEF PaidBySub
  <2>3. TokenTaken(q) \in Nat
    BY <1>0, TakenTypes
  <2>4. /\ Paid(WalletTaken(q), WalletTaken(n), wallet - wallet', n.hurt)
        /\ Paid(TokenTaken(q), TokenTaken(n), token - token', n.hurt)
    BY <1>0, <1>4, <2>3 DEF Paid
  <2>5. (q.hurt => n.hurt) /\ again' = again
    BY <1>0, <1>4
  <2> QED
    BY <1>4, <2>1, <2>2, <2>4, <2>5, StepKeeps
<1>6. CASE /\ ~due /\ sub' = [sub EXCEPT !.used = sub.used + m] /\ changes' = changes /\ Becomes(r, n)
  <2>1. MoveFunding(q, m) /\ SubTaken(n) - SubTaken(q) = m /\ m \in Int /\ n.src # "wallet"
    BY <1>0, <1>1, <1>4, <1>6 DEF MoveFunding, PostConsumed
  <2> QED
    BY <1>0, <1>4, <1>6, <2>1, FundingStep
<1>7. CASE Becomes(r, Refused(q)) /\ UNCHANGED <<sub, changes>>
  BY <1>0, <1>7, RefusedStep
<1> QED
  BY <1>2, <1>5, <1>6, <1>7

(***************************************************************************)
(* Reserving more, settling and refunding an open session.                 *)
(***************************************************************************)

\* Reserve computes what is missing; nothing moves yet.
LEMMA ReserveStep ==
  ASSUME BillingInv, NEW r \in Requests, Reserve(r)
  PROVE  BillingInv'
<1> DEFINE q == req[r]
<1>0. /\ q \in RequestType /\ SessionOK(q) /\ faults \in Nat /\ q.pc = "open" /\ q.pre \in Nat
      /\ q.consumed \in Nat /\ q.tok \in Nat
      /\ UNCHANGED <<wallet, token, sub, faults, changes, again>>
  BY Given DEF Reserve, At, RequestType
<1>1. PICK target \in Actuals :
        target > q.pre /\ Becomes(r, [q EXCEPT !.delta = target - q.pre, !.pc = "moreFunding"])
  BY DEF Reserve
<1> DEFINE d == target - q.pre
           n == [q EXCEPT !.delta = d, !.pc = "moreFunding"]
<1>2. d \in Nat
  BY <1>0, <1>1, PersonalBillingAssumption
<1>3. req' = [req EXCEPT ![r] = n]
  BY <1>1 DEF Becomes
<1> HIDE DEF d
<1>a. q \in RequestType /\ d \in Int
  BY <1>0, <1>2
<1>4. /\ n \in RequestType /\ n.pc = "moreFunding" /\ n.delta = d /\ n.tok = q.tok
      /\ n.pre = q.pre /\ n.src = q.src /\ n.consumed = q.consumed /\ n.subPre = q.subPre
      /\ n.extra = q.extra /\ n.hurt = q.hurt /\ n.out = q.out /\ n.kind = q.kind
  BY <1>a DEF RequestType, Calling
<1> HIDE DEF n
<1>5. SessionOK(n)
  BY <1>0, <1>2, <1>4 DEF SessionOK, Unopened
<1>6. WalletTaken(n) = WalletTaken(q) /\ TokenTaken(n) = TokenTaken(q) /\ SubTaken(n) = SubTaken(q)
  BY <1>0, <1>4 DEF WalletTaken, TokenTaken, SubTaken, Playground
<1>7. WalletTaken(n) <= WalletTaken(q) /\ TokenTaken(n) <= TokenTaken(q)
      /\ faults' \in Nat /\ (q.hurt => n.hurt)
  <2>1. WalletTaken(n) \in Nat /\ TokenTaken(n) \in Nat
    BY <1>4, <1>5, TakenTypes
  <2> QED
    BY <1>0, <1>4, <1>6, <2>1
<1> QED
  BY <1>0, <1>3, <1>4, <1>5, <1>6, <1>7, QuietStep

\* The funding of the second reservation, taken and given back.
LEMMA ReserveFundingStep ==
  ASSUME BillingInv, NEW r \in Requests, ReserveFunding(r) \/ UndoReserve(r)
  PROVE  BillingInv'
<1> DEFINE q == req[r]
<1>0. /\ q \in RequestType /\ SessionOK(q) /\ q.pre \in Nat /\ q.delta \in Int /\ q.extra \in Nat
      /\ q.consumed \in Nat /\ q.tok \in Nat /\ q.subPre \in Nat
      /\ q.src \in {"none", "wallet", "subscription"}
  BY Given DEF RequestType
<1>1. CASE ReserveFunding(r)
  <2> DEFINE c == Consumes(q, q.delta)
             n == [q EXCEPT !.consumed = c, !.pc = "moreToken"]
  <2>1. /\ q.pc = "moreFunding" /\ MoveFunding(q, q.delta) /\ Becomes(r, n)
        /\ UNCHANGED <<token, faults, changes, again>>
    BY <1>1 DEF ReserveFunding, At
  <2>2. q.delta >= 0 /\ q.src # "none"
    BY <1>0, <2>1 DEF SessionOK
  <2>3. c \in Nat /\ c = IF q.src = "wallet" THEN q.consumed + q.delta ELSE q.consumed
    BY <1>0, <2>2 DEF Consumes
  <2> HIDE DEF c
  <2>4. /\ n \in RequestType /\ n.pc = "moreToken" /\ n.delta = q.delta /\ n.tok = q.tok
        /\ n.pre = q.pre /\ n.src = q.src /\ n.consumed = c /\ n.subPre = q.subPre
        /\ n.extra = q.extra /\ n.hurt = q.hurt /\ n.out = q.out /\ n.kind = q.kind
    BY <1>0, <2>3 DEF RequestType, Calling
  <2> HIDE DEF n
  <2>5. SessionOK(n)
    BY <1>0, <2>1, <2>2, <2>3, <2>4 DEF SessionOK, Unopened
  <2>6. /\ TokenTaken(n) = TokenTaken(q)
        /\ n.src = "wallet" => WalletTaken(n) = q.consumed + q.delta /\ WalletTaken(q) = q.consumed
        /\ n.src = "subscription" => SubTaken(n) = q.pre + q.delta /\ SubTaken(q) = q.pre
    BY <2>1, <2>3, <2>4 DEF WalletTaken, TokenTaken, SubTaken, Playground
  <2>7. /\ n.src = "wallet" => WalletTaken(n) - WalletTaken(q) = q.delta
        /\ n.src = "subscription" => SubTaken(n) - SubTaken(q) = q.delta
    BY <1>0, <2>6
  <2> QED
    BY <1>0, <2>1, <2>2, <2>4, <2>5, <2>6, <2>7, FundingStep
<1>2. CASE UndoReserve(r)
  <2> DEFINE c == Undone(q)
             n == [q EXCEPT !.consumed = c, !.pc = "fail"]
  <2>1. /\ q.pc = "undo" /\ MoveFunding(q, -q.delta) /\ Becomes(r, n)
        /\ UNCHANGED <<token, faults, changes, again>>
    BY <1>2 DEF UndoReserve, At
  <2>2. /\ q.delta >= 0 /\ q.src # "none" /\ (q.src = "wallet" => q.consumed = q.pre + q.delta)
        /\ q.tok = q.pre /\ (q.src = "subscription" => q.subPre + q.extra = q.pre)
    BY <1>0, <2>1 DEF SessionOK
  <2>3. c \in Nat /\ c = IF q.src = "wallet" THEN q.pre ELSE q.consumed
    BY <1>0, <2>2 DEF Consumes, Undone
  <2> HIDE DEF c
  <2>4. /\ n \in RequestType /\ n.pc = "fail" /\ n.delta = q.delta /\ n.tok = q.tok
        /\ n.pre = q.pre /\ n.src = q.src /\ n.consumed = c /\ n.subPre = q.subPre
        /\ n.extra = q.extra /\ n.hurt = q.hurt /\ n.out = q.out /\ n.kind = q.kind
    BY <1>0, <2>3 DEF RequestType, Calling
  <2> HIDE DEF n
  <2>5. SessionOK(n)
    BY <1>0, <2>1, <2>2, <2>3, <2>4 DEF SessionOK, Unopened
  <2>6. /\ TokenTaken(n) = TokenTaken(q)
        /\ n.src = "wallet" => WalletTaken(n) = q.pre /\ WalletTaken(q) = q.pre + q.delta
        /\ n.src = "subscription" => SubTaken(n) = q.pre /\ SubTaken(q) = q.pre + q.delta
    BY <2>1, <2>2, <2>3, <2>4 DEF WalletTaken, TokenTaken, SubTaken, Playground
  <2>7. /\ n.src = "wallet" => WalletTaken(n) - WalletTaken(q) = -q.delta
        /\ n.src = "subscription" => SubTaken(n) - SubTaken(q) = -q.delta
    BY <1>0, <2>6
  <2>8. -q.delta \in Int
    BY <1>0
  <2> QED
    BY <1>0, <2>1, <2>2, <2>4, <2>5, <2>6, <2>7, <2>8, FundingStep
<1> QED
  BY <1>1, <1>2

\* The token of the second reservation; a token that does not cover it has the funding
\* undone next.
LEMMA ReserveMoreTokenStep ==
  ASSUME BillingInv, NEW r \in Requests, ReserveMoreToken(r)
  PROVE  BillingInv'
<1> DEFINE q == req[r]
<1>0. /\ q \in RequestType /\ SessionOK(q) /\ q.pre \in Nat /\ q.delta \in Int /\ q.extra \in Nat
      /\ q.consumed \in Nat /\ q.tok \in Nat /\ q.subPre \in Nat /\ token \in Int
      /\ q.src \in {"none", "wallet", "subscription"} /\ faults \in Nat
  BY Given DEF RequestType
<1>1. q.pc = "moreToken" /\ UNCHANGED <<wallet, sub, faults, changes, again>>
  BY DEF ReserveMoreToken, At
<1>2. /\ q.delta >= 0 /\ q.src # "none" /\ (q.src = "wallet" => q.consumed = q.pre + q.delta)
      /\ q.tok = q.pre /\ (q.src = "subscription" => q.subPre + q.extra = q.pre)
      /\ q.out = "none"
  BY <1>0, <1>1 DEF SessionOK
<1>3. CASE TokenCovers(q, q.delta)
  <2> DEFINE n == [q EXCEPT !.pre = @ + q.delta, !.tok = @ + q.delta,
                            !.extra = @ + q.delta, !.pc = "open"]
  <2>1. token' = TokenLess(q, q.delta) /\ Becomes(r, n)
    BY <1>3 DEF ReserveMoreToken
  <2>2. q.pre + q.delta \in Nat /\ q.tok + q.delta \in Nat /\ q.extra + q.delta \in Nat
    BY <1>0, <1>2
  <2>3. /\ n \in RequestType /\ n.pc = "open" /\ n.tok = q.tok + q.delta
        /\ n.pre = q.pre + q.delta /\ n.src = q.src /\ n.consumed = q.consumed
        /\ n.subPre = q.subPre /\ n.extra = q.extra + q.delta /\ n.hurt = q.hurt
        /\ n.out = q.out /\ n.kind = q.kind
    BY <1>0, <2>2 DEF RequestType
  <2> HIDE DEF n
  <2>4. SessionOK(n)
    <3>1. n.tok = n.pre /\ (n.src = "subscription" => n.subPre + n.extra = n.pre)
          /\ (n.src = "wallet" => n.consumed = n.pre)
      BY <1>0, <1>2, <2>3
    <3> QED
      BY <1>2, <2>3, <3>1 DEF SessionOK, Unopened
  <2>5. WalletTaken(n) = WalletTaken(q) /\ SubTaken(n) = SubTaken(q)
    BY <1>1, <2>3 DEF WalletTaken, SubTaken
  <2>6. /\ TokenTaken(n) = IF Playground(q) THEN 0 ELSE q.tok + q.delta
        /\ TokenTaken(q) = IF Playground(q) THEN 0 ELSE q.tok
    BY <1>1, <2>3 DEF TokenTaken, Playground
  <2>7. token' = token - (TokenTaken(n) - TokenTaken(q))
    BY <1>0, <2>1, <2>6 DEF TokenLess
  <2> QED
    BY <1>1, <2>1, <2>3, <2>4, <2>5, <2>7, TokenStep
<1>4. CASE ~TokenCovers(q, q.delta)
  <2> DEFINE n == [q EXCEPT !.pc = "undo"]
  <2>1. UNCHANGED token /\ req' = [req EXCEPT ![r] = n]
    BY <1>4 DEF ReserveMoreToken, Becomes
  <2>2. /\ n \in RequestType /\ n.pc = "undo" /\ n.tok = q.tok /\ n.delta = q.delta
        /\ n.pre = q.pre /\ n.src = q.src /\ n.consumed = q.consumed
        /\ n.subPre = q.subPre /\ n.extra = q.extra /\ n.hurt = q.hurt
        /\ n.out = q.out /\ n.kind = q.kind
    BY <1>0 DEF RequestType, Calling
  <2> HIDE DEF n
  <2>3. SessionOK(n)
    BY <1>2, <2>2 DEF SessionOK, Unopened
  <2>4. WalletTaken(n) = WalletTaken(q) /\ SubTaken(n) = SubTaken(q) /\ TokenTaken(n) = TokenTaken(q)
    BY <1>1, <2>2 DEF WalletTaken, SubTaken, TokenTaken, Playground
  <2>5. WalletTaken(n) <= WalletTaken(q) /\ TokenTaken(n) <= TokenTaken(q)
        /\ faults' \in Nat /\ (q.hurt => n.hurt)
    <3>1. WalletTaken(n) \in Nat /\ TokenTaken(n) \in Nat
      BY <2>2, <2>3, TakenTypes
    <3> QED
      BY <1>0, <1>1, <2>2, <2>4, <3>1
  <2> QED
    BY <1>1, <2>1, <2>2, <2>3, <2>4, <2>5, QuietStep
<1> QED
  BY <1>3, <1>4

\* Settle computes the difference to the actual cost, and is over when there is none.
LEMMA SettleStep ==
  ASSUME BillingInv, NEW r \in Requests, Settle(r)
  PROVE  BillingInv'
<1> DEFINE q == req[r]
<1>0. /\ q \in RequestType /\ SessionOK(q) /\ faults \in Nat /\ q.pc = "open" /\ q.pre \in Nat
      /\ q.consumed \in Nat /\ q.tok \in Nat
      /\ UNCHANGED <<wallet, token, sub, faults, changes, again>>
  BY Given DEF Settle, At, RequestType
<1>1. PICK a \in Actuals :
        LET s == [q EXCEPT !.actual = a, !.delta = a - q.pre]
        IN Becomes(r, IF s.delta = 0 THEN Settled(s) ELSE [s EXCEPT !.pc = "settleFunding"])
  BY DEF Settle
<1> DEFINE d == a - q.pre
           s == [q EXCEPT !.actual = a, !.delta = d]
<1>2. a \in Nat /\ d \in Int
  BY <1>0, PersonalBillingAssumption
<1>3. Becomes(r, IF s.delta = 0 THEN Settled(s) ELSE [s EXCEPT !.pc = "settleFunding"])
  BY <1>1
<1>4. /\ q.tok = q.pre /\ (q.src = "wallet" => q.consumed = q.pre) /\ q.out = "none"
      /\ (q.src = "subscription" => q.subPre + q.extra = q.pre) /\ q.src # "none"
  BY <1>0 DEF SessionOK
<1>5. d = a - q.pre
  OBVIOUS
<1> HIDE DEF d
<1>6. /\ s \in RequestType /\ s.actual = a /\ s.delta = d /\ s.tok = q.tok /\ s.pre = q.pre
      /\ s.src = q.src /\ s.consumed = q.consumed /\ s.subPre = q.subPre /\ s.extra = q.extra
      /\ s.hurt = q.hurt /\ s.out = q.out /\ s.kind = q.kind
  BY <1>0, <1>2 DEF RequestType
<1> HIDE DEF s
<1>7. ASSUME NEW n \in RequestType, Becomes(r, n), n.hurt = q.hurt, SessionOK(n),
             WalletTaken(n) <= WalletTaken(q), TokenTaken(n) <= TokenTaken(q),
             ~n.hurt => /\ WalletTaken(n) = WalletTaken(q) /\ TokenTaken(n) = TokenTaken(q)
                        /\ SubTaken(n) = SubTaken(q)
      PROVE  BillingInv'
  <2>1. faults' \in Nat /\ (q.hurt => n.hurt) /\ req' = [req EXCEPT ![r] = n]
    BY <1>0, <1>7 DEF Becomes
  <2> QED
    BY <1>0, <1>7, <2>1, QuietStep
<1>8. CASE s.delta = 0
  <2> DEFINE n == Settled(s)
  <2>1. /\ n \in RequestType /\ n.pc = "done" /\ n.out = "settled" /\ n.actual = q.pre
        /\ n.src = q.src /\ n.hurt = q.hurt /\ n.kind = q.kind /\ Becomes(r, n)
    <3>1. a = q.pre
      BY <1>0, <1>2, <1>5, <1>6, <1>8
    <3> QED
      BY <1>3, <1>6, <1>8, <3>1 DEF RequestType, Settled
  <2> HIDE DEF n
  <2>2. SessionOK(n)
    BY <2>1 DEF SessionOK, Unopened
  <2>3. /\ WalletTaken(q) = IF q.src = "wallet" THEN q.pre ELSE 0
        /\ SubTaken(q) = IF q.src = "subscription" THEN q.pre ELSE 0
        /\ TokenTaken(q) = IF Playground(q) THEN 0 ELSE q.pre
    BY <1>0, <1>4 DEF WalletTaken, TokenTaken, SubTaken
  <2>4. /\ WalletTaken(n) = IF q.src = "wallet" /\ ~q.hurt THEN q.pre ELSE 0
        /\ SubTaken(n) = IF q.src = "subscription" THEN q.pre ELSE 0
        /\ TokenTaken(n) = IF Playground(q) \/ q.hurt THEN 0 ELSE q.pre
    BY <2>1 DEF WalletTaken, TokenTaken, SubTaken, TokenBooked, Owes, Playground
  <2>5. WalletTaken(n) <= WalletTaken(q) /\ TokenTaken(n) <= TokenTaken(q)
    BY <1>0, <2>3, <2>4
  <2> QED
    BY <1>7, <2>1, <2>2, <2>3, <2>4, <2>5
<1>9. CASE s.delta # 0
  <2> DEFINE n == [s EXCEPT !.pc = "settleFunding"]
  <2>1. /\ n \in RequestType /\ n.pc = "settleFunding" /\ n.actual = a /\ n.delta = d
        /\ n.tok = q.tok /\ n.pre = q.pre /\ n.out = q.out
        /\ n.src = q.src /\ n.consumed = q.consumed /\ n.subPre = q.subPre /\ n.extra = q.extra
        /\ n.src = q.src /\ n.hurt = q.hurt /\ n.kind = q.kind /\ Becomes(r, n)
    BY <1>3, <1>6, <1>9 DEF RequestType, Calling
  <2> HIDE DEF n
  <2>2. SessionOK(n)
    BY <1>4, <1>5, <2>1 DEF SessionOK, Unopened
  <2>3. WalletTaken(n) = WalletTaken(q) /\ SubTaken(n) = SubTaken(q) /\ TokenTaken(n) = TokenTaken(q)
    BY <1>0, <2>1 DEF WalletTaken, TokenTaken, SubTaken, Playground
  <2>4. WalletTaken(n) <= WalletTaken(q) /\ TokenTaken(n) <= TokenTaken(q)
    <3>1. WalletTaken(n) \in Nat /\ TokenTaken(n) \in Nat
      BY <2>1, <2>2, TakenTypes
    <3> QED
      BY <2>3, <3>1
  <2> QED
    BY <1>7, <2>1, <2>2, <2>3, <2>4
<1> QED
  BY <1>8, <1>9

\* Settling moves the funding by the difference, and then the token by the same.
LEMMA SettleFundingStep ==
  ASSUME BillingInv, NEW r \in Requests, SettleFunding(r)
  PROVE  BillingInv'
<1> DEFINE q == req[r]
           n == [q EXCEPT !.pc = "settleToken"]
<1>0. /\ q \in RequestType /\ SessionOK(q) /\ q.pre \in Nat /\ q.delta \in Int /\ q.extra \in Nat
      /\ q.consumed \in Nat /\ q.tok \in Nat /\ q.subPre \in Nat /\ q.actual \in Nat
  BY Given DEF RequestType
<1>1. /\ q.pc = "settleFunding" /\ MoveFunding(q, q.delta) /\ Becomes(r, n)
      /\ UNCHANGED <<token, faults, changes, again>>
  BY DEF SettleFunding, At
<1>2. /\ q.src # "none" /\ (q.src = "wallet" => q.consumed = q.pre) /\ q.out = "none"
      /\ q.tok = q.pre /\ (q.src = "subscription" => q.subPre + q.extra = q.pre)
      /\ q.delta = q.actual - q.pre
  BY <1>0, <1>1 DEF SessionOK
<1>3. /\ n \in RequestType /\ n.pc = "settleToken" /\ n.delta = q.delta /\ n.tok = q.tok
      /\ n.pre = q.pre /\ n.src = q.src /\ n.consumed = q.consumed /\ n.subPre = q.subPre
      /\ n.extra = q.extra /\ n.hurt = q.hurt /\ n.out = q.out /\ n.kind = q.kind
      /\ n.actual = q.actual
  BY <1>0 DEF RequestType, Calling
<1> HIDE DEF n
<1>4. SessionOK(n)
  BY <1>2, <1>3 DEF SessionOK, Unopened
<1>5. /\ TokenTaken(n) = TokenTaken(q)
      /\ n.src = "wallet" => WalletTaken(n) = q.actual /\ WalletTaken(q) = q.pre
      /\ n.src = "subscription" => SubTaken(n) = q.actual /\ SubTaken(q) = q.pre
  BY <1>1, <1>2, <1>3 DEF WalletTaken, TokenTaken, SubTaken, Playground
<1>6. /\ n.src = "wallet" => WalletTaken(n) - WalletTaken(q) = q.delta
      /\ n.src = "subscription" => SubTaken(n) - SubTaken(q) = q.delta
  BY <1>0, <1>2, <1>5
<1> QED
  BY <1>0, <1>1, <1>2, <1>3, <1>4, <1>5, <1>6, FundingStep

\* A step that moves at most the token of a session that may have been hurt.
LEMMA TokenMoves ==
  ASSUME BillingInv, NEW r \in Requests, NEW q \in RequestType, SessionOK(q),
         Becomes(r, q), q.hurt = req[r].hurt, UNCHANGED <<wallet, sub, faults, changes, again>>,
         NEW m \in Int, token' = token - m, Paid(TokenTaken(req[r]), TokenTaken(q), m, q.hurt),
         WalletTaken(q) <= WalletTaken(req[r]),
         ~q.hurt => WalletTaken(q) = WalletTaken(req[r]) /\ SubTaken(q) = SubTaken(req[r])
  PROVE  BillingInv'
<1>0. /\ wallet \in Int /\ token \in Int /\ sub.used \in Nat /\ faults \in Nat /\ changes \in Nat
      /\ sub \in [used : Nat, active : BOOLEAN, strict : BOOLEAN]
      /\ req[r] \in RequestType /\ SessionOK(req[r])
  BY Given
<1>1. /\ WalletTaken(q) \in Nat /\ SubTaken(q) \in Nat
      /\ WalletTaken(req[r]) \in Nat /\ SubTaken(req[r]) \in Nat
  BY <1>0, TakenTypes
<1>2. wallet' \in Int /\ Paid(WalletTaken(req[r]), WalletTaken(q), wallet - wallet', q.hurt)
  BY <1>0, <1>1 DEF Paid
<1>3. token' \in Int /\ token - token' = m
  BY <1>0
<1>4. ~q.hurt => PaidBySub(SubTaken(req[r]), SubTaken(q))
  BY <1>0, <1>1 DEF PaidBySub, PostConsumed
<1>5. /\ req' = [req EXCEPT ![r] = q] /\ (req[r].hurt => q.hurt) /\ faults' \in Nat
      /\ changes' \in Nat /\ (changes = 0 \/ changes' > 0)
      /\ sub' \in [used : Nat, active : BOOLEAN, strict : BOOLEAN]
  BY <1>0 DEF Becomes
<1>6. Paid(TokenTaken(req[r]), TokenTaken(q), token - token', q.hurt)
  BY <1>3
<1> QED
  BY <1>2, <1>3, <1>4, <1>5, <1>6, StepKeeps

\* The token follows the funding, and the session is settled.
LEMMA SettleTokenStep ==
  ASSUME BillingInv, NEW r \in Requests, SettleToken(r)
  PROVE  BillingInv'
<1> DEFINE q == req[r]
           n == Settled(q)
           m == IF Playground(q) THEN 0 ELSE q.delta
<1>0. /\ q \in RequestType /\ SessionOK(q) /\ q.pre \in Nat /\ q.delta \in Int
      /\ q.tok \in Nat /\ q.actual \in Nat /\ token \in Int
  BY Given DEF RequestType
<1>1. /\ q.pc = "settleToken" /\ token' = TokenLess(q, q.delta) /\ Becomes(r, n)
      /\ UNCHANGED <<wallet, sub, faults, changes, again>>
  BY DEF SettleToken, At
<1>2. q.tok = q.pre /\ q.delta = q.actual - q.pre
  BY <1>0, <1>1 DEF SessionOK
<1>3. /\ n \in RequestType /\ n.pc = "done" /\ n.out = "settled" /\ n.tok = q.tok
      /\ n.src = q.src /\ n.hurt = q.hurt /\ n.kind = q.kind /\ n.actual = q.actual
  BY <1>0 DEF RequestType, Settled
<1> HIDE DEF n
<1>4. SessionOK(n)
  BY <1>3 DEF SessionOK, Unopened
<1>5. /\ WalletTaken(q) = IF q.src = "wallet" THEN q.actual ELSE 0
      /\ WalletTaken(n) = IF q.src = "wallet" /\ ~q.hurt THEN q.actual ELSE 0
      /\ SubTaken(n) = SubTaken(q)
  BY <1>1, <1>3 DEF WalletTaken, SubTaken
<1>6. /\ TokenTaken(q) = IF Playground(q) THEN 0 ELSE q.pre
      /\ TokenTaken(n) = IF Playground(q) \/ q.hurt THEN 0 ELSE q.actual
  BY <1>1, <1>2, <1>3 DEF TokenTaken, TokenBooked, Owes, Playground
<1>7. m \in Int /\ token' = token - m
  BY <1>0, <1>1 DEF TokenLess
<1>8. Paid(TokenTaken(q), TokenTaken(n), m, n.hurt)
  BY <1>0, <1>2, <1>3, <1>6 DEF Paid
<1>9. /\ WalletTaken(n) <= WalletTaken(q)
      /\ ~n.hurt => WalletTaken(n) = WalletTaken(q)
  BY <1>0, <1>3, <1>5
<1> HIDE DEF m
<1> QED
  BY <1>1, <1>3, <1>4, <1>5, <1>7, <1>8, <1>9, TokenMoves

\* Refund starts the background function, or finds nothing to give back.
LEMMA RefundStep ==
  ASSUME BillingInv, NEW r \in Requests, Refund(r)
  PROVE  BillingInv'
<1> DEFINE q == req[r]
<1>0. /\ q \in RequestType /\ SessionOK(q) /\ faults \in Nat /\ q.pc \in {"open", "fail"}
      /\ q.pre \in Nat /\ q.consumed \in Nat /\ q.tok \in Nat /\ q.subPre \in Nat /\ q.extra \in Nat
      /\ UNCHANGED <<wallet, token, sub, faults, changes, again>>
  BY Given DEF Refund, RequestType
<1>1. /\ q.src # "none" /\ q.out = "none"
      /\ ~q.hurt => /\ q.tok = q.pre /\ (q.src = "wallet" => q.consumed = q.pre)
                    /\ (q.src = "subscription" => q.subPre + q.extra = q.pre)
  BY <1>0 DEF SessionOK
<1>2. /\ WalletTaken(q) = IF q.src = "wallet" THEN q.consumed ELSE 0
      /\ SubTaken(q) = IF q.src = "subscription" THEN q.pre ELSE 0
      /\ TokenTaken(q) = IF Playground(q) THEN 0 ELSE q.tok
  BY <1>0 DEF WalletTaken, TokenTaken, SubTaken
<1>3. CASE NeedsRefund(q)
  <2> DEFINE n == [q EXCEPT !.pc = "refund"]
  <2>1. req' = [req EXCEPT ![r] = n]
    BY <1>3 DEF Refund, Becomes
  <2>2. /\ n \in RequestType /\ n.pc = "refund" /\ n.tok = q.tok /\ n.consumed = q.consumed
        /\ n.subPre = q.subPre /\ n.extra = q.extra /\ n.src = q.src /\ n.out = q.out
        /\ n.hurt = q.hurt /\ n.kind = q.kind
    BY <1>0 DEF RequestType, Calling
  <2> HIDE DEF n
  <2>3. SessionOK(n)
    BY <1>1, <2>2 DEF SessionOK, Unopened
  <2>4. /\ WalletTaken(n) = IF q.src = "wallet" THEN q.consumed ELSE 0
        /\ SubTaken(n) = IF q.src = "subscription" THEN q.subPre + q.extra ELSE 0
        /\ TokenTaken(n) = IF Playground(q) THEN 0 ELSE q.tok
    BY <2>2 DEF WalletTaken, TokenTaken, SubTaken, Playground
  <2>5. /\ WalletTaken(n) <= WalletTaken(q) /\ TokenTaken(n) <= TokenTaken(q)
        /\ ~n.hurt => SubTaken(n) = SubTaken(q)
        /\ WalletTaken(n) = WalletTaken(q) /\ TokenTaken(n) = TokenTaken(q)
    BY <1>0, <1>1, <1>2, <2>2, <2>4
  <2>6. faults' \in Nat /\ (q.hurt => n.hurt)
    BY <1>0, <2>2
  <2> QED
    BY <1>0, <2>1, <2>2, <2>3, <2>5, <2>6, QuietStep
<1>4. CASE ~NeedsRefund(q)
  <2> DEFINE n == [q EXCEPT !.pc = "done", !.out = "refunded"]
  <2>1. req' = [req EXCEPT ![r] = n]
    BY <1>4 DEF Refund, Becomes
  <2>2. /\ n \in RequestType /\ n.pc = "done" /\ n.out = "refunded" /\ n.tok = q.tok
        /\ n.hurt = q.hurt /\ n.kind = q.kind
    BY <1>0 DEF RequestType, Calling
  <2> HIDE DEF n
  <2>3. SessionOK(n) /\ WalletTaken(n) = 0 /\ SubTaken(n) = 0
    BY <2>2 DEF SessionOK, Unopened, WalletTaken, SubTaken
  <2>4. q.tok = 0
    BY <1>0, <1>4 DEF NeedsRefund
  <2>5. TokenTaken(n) = 0 /\ TokenTaken(q) = 0
    BY <1>2, <2>2, <2>4 DEF TokenTaken, TokenBooked, Owes
  <2>6. ~q.hurt => WalletTaken(q) = 0 /\ SubTaken(q) = 0
    BY <1>1, <1>2, <2>4
  <2>7. WalletTaken(n) <= WalletTaken(q) /\ TokenTaken(n) <= TokenTaken(q)
    BY <1>0, <1>2, <2>3, <2>5
  <2>8. faults' \in Nat /\ (q.hurt => n.hurt)
    BY <1>0, <2>2
  <2> QED
    BY <1>0, <2>1, <2>2, <2>3, <2>5, <2>6, <2>7, <2>8, QuietStep
<1> QED
  BY <1>3, <1>4

\* The background function gives back the funding: the wallet at once, the subscription in
\* two parts with the record saved in between.
LEMMA RefundFundingSteps ==
  ASSUME BillingInv, NEW r \in Requests,
         RefundWallet(r) \/ RefundSubscription(r) \/ RefundSave(r) \/ RefundExtra(r)
  PROVE  BillingInv'
<1> DEFINE q == req[r]
<1>0. /\ q \in RequestType /\ SessionOK(q) /\ faults \in Nat /\ wallet \in Int
      /\ q.consumed \in Nat /\ q.tok \in Nat /\ q.subPre \in Nat /\ q.extra \in Nat
  BY Given DEF RequestType
<1>1. CASE RefundWallet(r)
  <2> DEFINE n == [q EXCEPT !.pc = "refundToken"]
             m == -q.consumed
  <2>1. /\ q.pc = "refund" /\ q.src = "wallet" /\ Becomes(r, n) /\ wallet' = wallet + q.consumed
        /\ UNCHANGED <<token, sub, faults, changes, again>>
    BY <1>1 DEF RefundWallet, At
  <2>2. /\ n \in RequestType /\ n.pc = "refundToken" /\ n.tok = q.tok /\ n.src = q.src
        /\ n.out = q.out /\ n.hurt = q.hurt /\ n.kind = q.kind
    BY <1>0 DEF RequestType, Calling
  <2> HIDE DEF n
  <2>3. SessionOK(n)
    BY <1>0, <2>1, <2>2 DEF SessionOK, Unopened
  <2>4. WalletTaken(n) = 0 /\ WalletTaken(q) = q.consumed /\ TokenTaken(n) = TokenTaken(q)
    BY <2>1, <2>2 DEF WalletTaken, TokenTaken, Playground
  <2>5. m \in Int /\ MoveFunding(q, m) /\ WalletTaken(n) - WalletTaken(q) = m
    BY <1>0, <2>1, <2>4 DEF MoveFunding
  <2> HIDE DEF m
  <2> QED
    BY <2>1, <2>2, <2>3, <2>4, <2>5, FundingStep
<1>2. CASE RefundSubscription(r)
  <2> DEFINE n == [q EXCEPT !.pc = "refundSave"]
             m == -q.subPre
  <2>1. /\ q.pc = "refund" /\ q.src = "subscription" /\ Becomes(r, n) /\ MoveFunding(q, m)
        /\ UNCHANGED <<token, faults, changes, again>>
    BY <1>2 DEF RefundSubscription, At
  <2>2. /\ n \in RequestType /\ n.pc = "refundSave" /\ n.tok = q.tok /\ n.src = q.src
        /\ n.out = q.out /\ n.hurt = q.hurt /\ n.kind = q.kind /\ n.extra = q.extra
    BY <1>0 DEF RequestType, Calling
  <2> HIDE DEF n
  <2>3. SessionOK(n)
    BY <1>0, <2>1, <2>2 DEF SessionOK, Unopened
  <2>4. /\ SubTaken(n) = q.extra /\ SubTaken(q) = q.subPre + q.extra
        /\ TokenTaken(n) = TokenTaken(q)
    BY <2>1, <2>2 DEF SubTaken, TokenTaken, Playground
  <2>5. m \in Int /\ SubTaken(n) - SubTaken(q) = m
    BY <1>0, <2>4
  <2> HIDE DEF m
  <2> QED
    BY <2>1, <2>2, <2>3, <2>4, <2>5, FundingStep
<1>3. CASE RefundSave(r)
  <2> DEFINE n == [q EXCEPT !.record = "refunded", !.pc = "refundExtra"]
  <2>1. /\ q.pc = "refundSave" /\ req' = [req EXCEPT ![r] = n]
        /\ UNCHANGED <<wallet, token, sub, faults, changes, again>>
    BY <1>3 DEF RefundSave, At, Becomes
  <2>2. /\ n \in RequestType /\ n.pc = "refundExtra" /\ n.tok = q.tok /\ n.src = q.src
        /\ n.out = q.out /\ n.hurt = q.hurt /\ n.kind = q.kind /\ n.extra = q.extra
    BY <1>0 DEF RequestType, Calling
  <2> HIDE DEF n
  <2>3. SessionOK(n) /\ q.src = "subscription"
    BY <1>0, <2>1, <2>2 DEF SessionOK, Unopened
  <2>4. SubTaken(n) = SubTaken(q) /\ TokenTaken(n) = TokenTaken(q) /\ WalletTaken(n) = WalletTaken(q)
    BY <2>1, <2>2, <2>3 DEF SubTaken, TokenTaken, WalletTaken, Playground
  <2>5. WalletTaken(n) <= WalletTaken(q) /\ TokenTaken(n) <= TokenTaken(q)
        /\ faults' \in Nat /\ (q.hurt => n.hurt)
    <3>1. WalletTaken(n) \in Nat /\ TokenTaken(n) \in Nat
      BY <2>2, <2>3, TakenTypes
    <3> QED
      BY <1>0, <2>1, <2>2, <2>4, <3>1
  <2> QED
    BY <2>1, <2>2, <2>3, <2>4, <2>5, QuietStep
<1>4. CASE RefundExtra(r)
  <2> DEFINE n == [q EXCEPT !.pc = "refundToken"]
             m == -q.extra
  <2>1. /\ q.pc = "refundExtra" /\ Becomes(r, n) /\ MoveFunding(q, m)
        /\ UNCHANGED <<token, faults, changes, again>>
    BY <1>4 DEF RefundExtra, ExtraOf, At
  <2>2. /\ n \in RequestType /\ n.pc = "refundToken" /\ n.tok = q.tok /\ n.src = q.src
        /\ n.out = q.out /\ n.hurt = q.hurt /\ n.kind = q.kind
    BY <1>0 DEF RequestType, Calling
  <2> HIDE DEF n
  <2>3. SessionOK(n) /\ q.src = "subscription"
    BY <1>0, <2>1, <2>2 DEF SessionOK, Unopened
  <2>4. SubTaken(n) = 0 /\ SubTaken(q) = q.extra /\ TokenTaken(n) = TokenTaken(q)
    BY <2>1, <2>2, <2>3 DEF SubTaken, TokenTaken, Playground
  <2>5. m \in Int /\ SubTaken(n) - SubTaken(q) = m
    BY <1>0, <2>4
  <2> HIDE DEF m
  <2> QED
    BY <2>1, <2>2, <2>3, <2>4, <2>5, FundingStep
<1> QED
  BY <1>1, <1>2, <1>3, <1>4

\* The token is given back last, unless it is unlimited.
LEMMA RefundTokenStep ==
  ASSUME BillingInv, NEW r \in Requests, RefundToken(r)
  PROVE  BillingInv'
<1> DEFINE q == req[r]
           n == [q EXCEPT !.pc = "done", !.out = "refunded"]
           m == IF q.kind.token = "limited" THEN -q.tok ELSE 0
<1>0. q \in RequestType /\ SessionOK(q) /\ q.tok \in Nat /\ token \in Int
  BY Given DEF RequestType
<1>k. q.kind.token \in {"limited", "unlimited", "playground"}
  <2>1. q.kind \in Kinds
    BY <1>0 DEF RequestType
  <2> QED
    BY <2>1, PersonalBillingAssumption
<1>1. /\ q.pc = "refundToken" /\ Becomes(r, n)
      /\ token' = IF q.kind.token = "limited" THEN token + q.tok ELSE token
      /\ UNCHANGED <<wallet, sub, faults, changes, again>>
  BY DEF RefundToken, At
<1>2. /\ n \in RequestType /\ n.pc = "done" /\ n.out = "refunded" /\ n.tok = q.tok
      /\ n.src = q.src /\ n.hurt = q.hurt /\ n.kind = q.kind
  BY <1>0 DEF RequestType
<1> HIDE DEF n
<1>3. SessionOK(n)
  BY <1>2 DEF SessionOK, Unopened
<1>4. WalletTaken(n) = 0 /\ WalletTaken(q) = 0 /\ SubTaken(n) = 0 /\ SubTaken(q) = 0
  BY <1>1, <1>2 DEF WalletTaken, SubTaken
<1>5. /\ TokenTaken(q) = IF Playground(q) THEN 0 ELSE q.tok
      /\ TokenTaken(n) = IF q.kind.token = "unlimited" /\ ~q.hurt THEN q.tok ELSE 0
  BY <1>1, <1>2 DEF TokenTaken, TokenBooked, Owes, Playground
<1>6. m \in Int /\ token' = token - m
  BY <1>0, <1>1
<1>7. Paid(TokenTaken(q), TokenTaken(n), m, n.hurt)
  BY <1>0, <1>k, <1>2, <1>5 DEF Paid, Playground
<1>8. WalletTaken(n) <= WalletTaken(q)
  BY <1>4
<1> HIDE DEF m
<1> QED
  BY <1>1, <1>2, <1>3, <1>4, <1>6, <1>7, <1>8, TokenMoves

(***************************************************************************)
(* Faults, and the subscription's own life.                                *)
(***************************************************************************)

\* A session n that takes q's call for failed claims to have taken no more than before, and
\* nothing where the call was to give back.
Failed(q, n) ==
  /\ SessionOK(n) /\ WalletTaken(n) <= WalletTaken(q) /\ TokenTaken(n) <= TokenTaken(q)
  /\ q.pc \in {"rollback", "settleToken", "refundToken"} => TokenTaken(n) = 0
  /\ q.pc = "settleFunding" \/ (q.pc = "refund" /\ q.src = "wallet") => WalletTaken(n) = 0

LEMMA FailedOK ==
  ASSUME NEW q \in RequestType, SessionOK(q), q.pc \in Calling
  PROVE  LET n == Hurt(AfterError(q)) IN n \in RequestType /\ n.hurt = TRUE /\ Failed(q, n)
<1> DEFINE n == [AfterError(q) EXCEPT !.hurt = TRUE]
<1> SUFFICES n \in RequestType /\ n.hurt = TRUE /\ Failed(q, n)
  BY DEF Hurt
<1>0. /\ WalletTaken(q) \in Nat /\ TokenTaken(q) \in Nat
      /\ q.tok \in Nat /\ q.consumed \in Nat /\ q.tries \in Nat
      /\ q.src \in {"none", "wallet", "subscription"}
  BY TakenTypes DEF RequestType
<1>1. ASSUME NEW p \in RequestType, Empty(p), AfterError(q) = NextAttempt(p)
      PROVE  n \in RequestType /\ n.hurt = TRUE /\ Failed(q, n)
  <2> DEFINE a == NextAttempt(p)
  <2>1. /\ a \in RequestType /\ SessionOK(a)
        /\ WalletTaken(a) = 0 /\ TokenTaken(a) = 0 /\ SubTaken(a) = 0
    BY <1>1, AttemptOK
  <2>2. n = [a EXCEPT !.hurt = TRUE]
    BY <1>1
  <2>3. /\ a.pc \in {"token", "overflow", "done"}
        /\ a.out \in {"none", "failed"}
    BY <1>1 DEF NextAttempt, TrySubscription, RequestType, Empty
  <2> HIDE DEF a
  <2>4. /\ n \in RequestType /\ n.hurt = TRUE
        /\ n.pc = a.pc /\ n.out = a.out /\ n.pre = a.pre /\ n.tok = a.tok
        /\ n.consumed = a.consumed /\ n.extra = a.extra /\ n.subPre = a.subPre /\ n.src = a.src
    BY <2>1, <2>2 DEF RequestType
  <2>5. SessionOK(n)
    BY <2>1, <2>3, <2>4 DEF SessionOK, Unopened
  <2>6. WalletTaken(n) = 0 /\ TokenTaken(n) = 0
    BY <2>3, <2>4 DEF WalletTaken, TokenTaken, TokenBooked, Owes
  <2> QED
    BY <1>0, <2>4, <2>5, <2>6 DEF n, Failed
<1>2. ASSUME NEW m \in RequestType, m.hurt = TRUE, m.tok = q.tok, m.src = q.src, m.kind = q.kind,
             m.est = q.est, m.pre = q.pre, m.consumed = q.consumed, m.subPre = q.subPre,
             m.extra = q.extra, m.delta = q.delta, m.pc = "done" \/ m.out = q.out,
             \/ q.pc = "funding" /\ m.pc = "rollback"
             \/ q.pc \in {"moreFunding", "undo"} /\ m.pc = "fail"
             \/ q.pc = "moreToken" /\ m.pc = "undo"
             \/ q.pc \in {"settleFunding", "settleToken", "refundToken"} /\ m.pc = "done"
             \/ q.pc = "refund" /\ q.src = "wallet" /\ m.pc = "refundToken"
             \/ q.pc = "refundExtra" /\ m.pc = "refundToken"
             \/ /\ q.pc \in {"refund", "refundSave"} /\ q.src # "wallet"
                /\ m.pc \in {"refund", "refundExtra"}
      PROVE  Failed(q, m)
  <2>1. SessionOK(m)
    BY <1>0, <1>2 DEF SessionOK, Unopened, SessionQuota
  <2>2. WalletTaken(m) <= WalletTaken(q)
    BY <1>0, <1>2 DEF WalletTaken
  <2>3. TokenTaken(m) <= TokenTaken(q)
    BY <1>0, <1>2 DEF TokenTaken, Playground
  <2>4. q.pc \in {"settleToken", "refundToken"} => TokenTaken(m) = 0
    BY <1>2 DEF TokenTaken
  <2>5. q.pc = "settleFunding" \/ (q.pc = "refund" /\ q.src = "wallet") => WalletTaken(m) = 0
    BY <1>2 DEF WalletTaken
  <2>6. q.pc # "rollback"
    BY <1>2
  <2> QED
    BY <2>1, <2>2, <2>3, <2>4, <2>5, <2>6 DEF Failed
<1>3. CASE q.pc \in {"check", "wallet", "overflow", "token"}
  <2> DEFINE p == [q EXCEPT !.why = "error"]
  <2>1. AfterError(q) = NextAttempt(p)
    BY <1>3 DEF AfterError
  <2>2. Empty(q)
    BY <1>3, UnopenedTaken DEF Unopened
  <2>3. p \in RequestType /\ Empty(p)
    BY <2>2 DEF RequestType, Empty
  <2> HIDE DEF p, n
  <2> QED
    BY <1>1, <2>1, <2>3 DEF n
<1>4. CASE q.pc = "rollback"
  <2>1. AfterError(q) = NextAttempt(q)
    BY <1>4 DEF AfterError
  <2>2. Empty(q)
    BY <1>4, UnopenedTaken DEF Unopened
  <2> HIDE DEF n
  <2> QED
    BY <1>1, <2>1, <2>2 DEF n
<1>5. CASE q.pc = "funding"
  <2> DEFINE a == [q EXCEPT !.pc = "rollback", !.why = "error"]
  <2>1. n = [a EXCEPT !.hurt = TRUE]
    BY <1>5 DEF AfterError
  <2>2. /\ a \in RequestType /\ a.tok = q.tok /\ a.src = q.src /\ a.kind = q.kind
        /\ a.est = q.est /\ a.pre = q.pre /\ a.consumed = q.consumed /\ a.subPre = q.subPre
        /\ a.extra = q.extra /\ a.delta = q.delta /\ a.out = q.out /\ a.pc = "rollback"
    <3>1. "rollback" \in Calling
      BY DEF Calling
    <3> QED
      BY <3>1 DEF RequestType
  <2> HIDE DEF n, a
  <2>3. /\ n \in RequestType /\ n.hurt = TRUE /\ n.tok = a.tok /\ n.src = a.src /\ n.kind = a.kind
        /\ n.est = a.est /\ n.pre = a.pre /\ n.consumed = a.consumed /\ n.subPre = a.subPre
        /\ n.extra = a.extra /\ n.delta = a.delta /\ n.out = a.out /\ n.pc = a.pc
    BY <2>1, <2>2 DEF RequestType
  <2> QED
    BY <1>2, <1>5, <2>2, <2>3 DEF n
<1>6. CASE q.pc \in {"moreFunding", "undo"}
  <2>1. n = [q EXCEPT !.pc = "fail", !.hurt = TRUE]
    <3>1. AfterError(q) = [q EXCEPT !.pc = "fail"]
      BY <1>6 DEF AfterError
    <3> QED
      BY <3>1 DEF RequestType
  <2> HIDE DEF n
  <2>2. /\ n \in RequestType /\ n.hurt = TRUE /\ n.tok = q.tok /\ n.src = q.src /\ n.kind = q.kind
        /\ n.est = q.est /\ n.pre = q.pre /\ n.consumed = q.consumed /\ n.subPre = q.subPre
        /\ n.extra = q.extra /\ n.delta = q.delta /\ n.out = q.out /\ n.pc = "fail"
    <3>0. "fail" \in Calling \cup {"idle", "open", "fail", "done", "dead"}
      BY DEF Calling
    <3>1. n \in RequestType
      BY <2>1, <3>0 DEF RequestType
    <3>2. /\ n.hurt = TRUE /\ n.tok = q.tok /\ n.src = q.src /\ n.kind = q.kind
          /\ n.est = q.est /\ n.pre = q.pre /\ n.consumed = q.consumed /\ n.subPre = q.subPre
          /\ n.extra = q.extra /\ n.delta = q.delta /\ n.out = q.out /\ n.pc = "fail"
      BY <2>1 DEF RequestType
    <3> QED
      BY <3>1, <3>2
  <2> QED
    BY <1>2, <1>6, <2>2 DEF n
<1>7. CASE q.pc = "moreToken"
  <2>1. n = [q EXCEPT !.pc = "undo", !.hurt = TRUE]
    <3>1. AfterError(q) = [q EXCEPT !.pc = "undo"]
      BY <1>7 DEF AfterError
    <3> QED
      BY <3>1 DEF RequestType
  <2> HIDE DEF n
  <2>2. /\ n \in RequestType /\ n.hurt = TRUE /\ n.tok = q.tok /\ n.src = q.src /\ n.kind = q.kind
        /\ n.est = q.est /\ n.pre = q.pre /\ n.consumed = q.consumed /\ n.subPre = q.subPre
        /\ n.extra = q.extra /\ n.delta = q.delta /\ n.out = q.out /\ n.pc = "undo"
    <3>0. "undo" \in Calling \cup {"idle", "open", "fail", "done", "dead"}
      BY DEF Calling
    <3>1. n \in RequestType
      BY <2>1, <3>0 DEF RequestType
    <3>2. /\ n.hurt = TRUE /\ n.tok = q.tok /\ n.src = q.src /\ n.kind = q.kind
          /\ n.est = q.est /\ n.pre = q.pre /\ n.consumed = q.consumed /\ n.subPre = q.subPre
          /\ n.extra = q.extra /\ n.delta = q.delta /\ n.out = q.out /\ n.pc = "undo"
      BY <2>1 DEF RequestType
    <3> QED
      BY <3>1, <3>2
  <2> QED
    BY <1>2, <1>7, <2>2 DEF n
<1>8. CASE q.pc \in {"settleFunding", "settleToken", "refundToken"}
  <2> DEFINE out == CASE q.pc = "settleFunding" -> "unsettled" [] q.pc = "settleToken" -> "settled"
                      [] OTHER -> "refunded"
  <2>1. n = [q EXCEPT !.pc = "done", !.out = out, !.hurt = TRUE]
    BY <1>8 DEF AfterError, Settled, RequestType
  <2>2. out \in {"none", "settled", "unsettled", "refunded", "failed"}
    OBVIOUS
  <2> HIDE DEF out
  <2> HIDE DEF n
  <2>3. /\ n \in RequestType /\ n.hurt = TRUE /\ n.tok = q.tok /\ n.src = q.src /\ n.kind = q.kind
        /\ n.est = q.est /\ n.pre = q.pre /\ n.consumed = q.consumed /\ n.subPre = q.subPre
        /\ n.extra = q.extra /\ n.delta = q.delta /\ n.pc = "done"
    <3>1. n \in RequestType
      BY <2>1, <2>2 DEF RequestType
    <3>2. /\ n.hurt = TRUE /\ n.tok = q.tok /\ n.src = q.src /\ n.kind = q.kind
          /\ n.est = q.est /\ n.pre = q.pre /\ n.consumed = q.consumed /\ n.subPre = q.subPre
          /\ n.extra = q.extra /\ n.delta = q.delta /\ n.pc = "done"
      BY <2>1, <2>2 DEF RequestType
    <3> QED
      BY <3>1, <3>2
  <2> QED
    BY <1>2, <1>8, <2>3 DEF n
<1>9. CASE q.pc = "refundExtra" \/ (q.pc = "refund" /\ q.src = "wallet")
  <2>1. n = [q EXCEPT !.pc = "refundToken", !.hurt = TRUE]
    <3>0. CASE q.pc = "refundExtra"
      BY <3>0 DEF AfterError, RequestType
    <3>1. CASE q.pc = "refund" /\ q.src = "wallet"
      BY <3>1 DEF AfterError, RequestType
    <3> QED
      BY <1>9, <3>0, <3>1
  <2> HIDE DEF n
  <2>2. /\ n \in RequestType /\ n.hurt = TRUE /\ n.tok = q.tok /\ n.src = q.src /\ n.kind = q.kind
        /\ n.est = q.est /\ n.pre = q.pre /\ n.consumed = q.consumed /\ n.subPre = q.subPre
        /\ n.extra = q.extra /\ n.delta = q.delta /\ n.out = q.out /\ n.pc = "refundToken"
    <3>0. "refundToken" \in Calling \cup {"idle", "open", "fail", "done", "dead"}
      BY DEF Calling
    <3>1. n \in RequestType
      BY <2>1, <3>0 DEF RequestType
    <3>2. /\ n.hurt = TRUE /\ n.tok = q.tok /\ n.src = q.src /\ n.kind = q.kind
          /\ n.est = q.est /\ n.pre = q.pre /\ n.consumed = q.consumed /\ n.subPre = q.subPre
          /\ n.extra = q.extra /\ n.delta = q.delta /\ n.out = q.out /\ n.pc = "refundToken"
      BY <2>1 DEF RequestType
    <3> QED
      BY <3>1, <3>2
  <2> QED
    BY <1>2, <1>9, <2>2 DEF n
<1>10. CASE q.pc = "refundSave" \/ (q.pc = "refund" /\ q.src # "wallet")
  <2>1. PICK pc \in {"refund", "refundExtra"} :
          n = [q EXCEPT !.tries = q.tries + 1, !.pc = pc, !.hurt = TRUE]
    <3>1. AfterError(q) = Retried(q)
      BY <1>10 DEF AfterError
    <3> QED
      BY <3>1 DEF Retried, RequestType
  <2>2. q.tries + 1 \in Nat
    BY <1>0
  <2> DEFINE t == q.tries + 1
  <2>a. n = [q EXCEPT !.tries = t, !.pc = pc, !.hurt = TRUE] /\ t \in Nat /\ pc \in Calling
    BY <2>1, <2>2 DEF Calling
  <2> HIDE DEF t, n
  <2>3. /\ n \in RequestType /\ n.hurt = TRUE /\ n.tok = q.tok /\ n.src = q.src /\ n.kind = q.kind
        /\ n.est = q.est /\ n.pre = q.pre /\ n.consumed = q.consumed /\ n.subPre = q.subPre
        /\ n.extra = q.extra /\ n.delta = q.delta /\ n.out = q.out /\ n.pc = pc
    <3>1. n \in RequestType
      BY <2>a DEF RequestType
    <3>2. /\ n.hurt = TRUE /\ n.tok = q.tok /\ n.src = q.src /\ n.kind = q.kind
          /\ n.est = q.est /\ n.pre = q.pre /\ n.consumed = q.consumed /\ n.subPre = q.subPre
          /\ n.extra = q.extra /\ n.delta = q.delta /\ n.out = q.out /\ n.pc = pc
      BY <2>a DEF RequestType
    <3> QED
      BY <3>1, <3>2
  <2>4. q.pc \in {"refund", "refundSave"} /\ q.src # "wallet"
    BY <1>10 DEF SessionOK
  <2> HIDE DEF n
  <2> QED
    BY <1>2, <2>3, <2>4 DEF n
<1> QED
  BY <1>3, <1>4, <1>5, <1>6, <1>7, <1>8, <1>9, <1>10 DEF Calling

\* The record of a subscription plays no part in what was taken.
LEMMA RecordFree ==
  ASSUME NEW q \in RequestType, NEW n \in RequestType, n.hurt = TRUE, Failed(q, n),
         NEW x \in {"none", "consumed", "refunded"}
  PROVE  LET m == [n EXCEPT !.record = x] IN m \in RequestType /\ m.hurt = TRUE /\ Failed(q, m)
<1> DEFINE m == [n EXCEPT !.record = x]
<1>1. m \in RequestType
  BY DEF RequestType
<1>2. /\ m.hurt = n.hurt /\ m.pc = n.pc /\ m.out = n.out /\ m.pre = n.pre /\ m.consumed = n.consumed
      /\ m.extra = n.extra /\ m.subPre = n.subPre /\ m.tok = n.tok /\ m.src = n.src
      /\ m.delta = n.delta /\ m.actual = n.actual /\ m.est = n.est /\ m.kind = n.kind
  BY DEF RequestType
<1> HIDE DEF m
<1>3. SessionOK(n) => SessionOK(m)
  BY <1>2 DEF SessionOK, Unopened, SessionQuota
<1>4. WalletTaken(m) = WalletTaken(n)
  BY <1>2 DEF WalletTaken
<1>5. TokenTaken(m) = TokenTaken(n)
  BY <1>2 DEF TokenTaken, Playground, TokenBooked, Owes
<1> QED
  BY <1>1, <1>2, <1>3, <1>4, <1>5 DEF Failed, m

\* A call that fails without effect, and a dying gateway, move no row.
LEMMA FaultStep ==
  ASSUME BillingInv, NEW r \in Requests,
         CallFails(r) \/ QueryFails(r) \/ RefundSaveReplyLost(r) \/ Crash(r)
  PROVE  BillingInv'
<1> DEFINE q == req[r]
<1>0. q \in RequestType /\ SessionOK(q) /\ faults \in Nat
  BY Given
<1>f. /\ faults' \in Nat /\ UNCHANGED <<wallet, token, sub, changes, again>>
  BY <1>0 DEF CallFails, QueryFails, RefundSaveReplyLost, Crash, Fault
<1>q. ASSUME NEW n \in RequestType, n.hurt = TRUE, Failed(q, n), Becomes(r, n)
      PROVE  BillingInv'
  <2>1. req' = [req EXCEPT ![r] = n]
    BY <1>q DEF Becomes
  <2>2. /\ SessionOK(n) /\ WalletTaken(n) <= WalletTaken(q) /\ TokenTaken(n) <= TokenTaken(q)
        /\ n.hurt
    BY <1>q DEF Failed
  <2> QED
    BY <1>f, <2>1, <2>2, QuietStep
<1>1. CASE CallFails(r)
  <2> DEFINE n == Hurt(AfterError(q))
  <2>1. q.pc \in Calling /\ Becomes(r, n)
    BY <1>1 DEF CallFails
  <2>2. n \in RequestType /\ n.hurt = TRUE /\ Failed(q, n)
    BY <1>0, <2>1, FailedOK
  <2> HIDE DEF n
  <2> QED
    BY <1>q, <2>1, <2>2
<1>2. CASE QueryFails(r)
  <2> DEFINE a == Refused(q)
             n == Hurt(a)
  <2>1. q.pc = "funding" /\ Becomes(r, n)
    BY <1>2 DEF QueryFails, At
  <2>2. /\ a \in RequestType /\ a.pc = "rollback" /\ a.out = q.out /\ a.pre = q.pre
        /\ a.consumed = q.consumed /\ a.extra = q.extra /\ a.subPre = q.subPre /\ a.tok = q.tok
        /\ a.src = q.src /\ a.est = q.est /\ a.kind = q.kind
    <3>1. "rollback" \in Calling
      BY DEF Calling
    <3> QED
      BY <1>0, <3>1 DEF RequestType, Refused
  <2> HIDE DEF a
  <2>3. /\ n \in RequestType /\ n.pc = "rollback" /\ n.out = q.out /\ n.pre = q.pre /\ n.hurt = TRUE
        /\ n.consumed = q.consumed /\ n.extra = q.extra /\ n.subPre = q.subPre /\ n.tok = q.tok
        /\ n.src = q.src /\ n.est = q.est /\ n.kind = q.kind
    BY <2>2 DEF RequestType, Hurt
  <2> HIDE DEF n
  <2>4. SessionOK(n)
    BY <1>0, <2>1, <2>3 DEF SessionOK, Unopened, SessionQuota
  <2>5. WalletTaken(n) = WalletTaken(q) /\ TokenTaken(n) = TokenTaken(q)
    BY <2>1, <2>3 DEF WalletTaken, TokenTaken, Playground
  <2>6. WalletTaken(q) \in Nat /\ TokenTaken(q) \in Nat
    BY <1>0, TakenTypes
  <2>7. Failed(q, n)
    BY <2>1, <2>4, <2>5, <2>6 DEF Failed
  <2> QED
    BY <1>q, <2>1, <2>3, <2>7
<1>3. CASE RefundSaveReplyLost(r)
  <2> DEFINE a == [q EXCEPT !.record = "refunded", !.pc = "refundExtra"]
             n == Hurt(a)
  <2>1. q.pc = "refundSave" /\ Becomes(r, n)
    BY <1>3 DEF RefundSaveReplyLost, At
  <2>2. /\ a \in RequestType /\ a.pc = "refundExtra" /\ a.out = q.out /\ a.tok = q.tok
        /\ a.src = q.src /\ a.kind = q.kind
    <3>1. "refundExtra" \in Calling
      BY DEF Calling
    <3> QED
      BY <1>0, <3>1 DEF RequestType
  <2> HIDE DEF a
  <2>3. /\ n \in RequestType /\ n.pc = "refundExtra" /\ n.out = q.out /\ n.tok = q.tok
        /\ n.src = q.src /\ n.kind = q.kind /\ n.hurt = TRUE
    BY <2>2 DEF RequestType, Hurt
  <2> HIDE DEF n
  <2>4. SessionOK(n)
    BY <1>0, <2>1, <2>3 DEF SessionOK, Unopened
  <2>5. WalletTaken(n) = WalletTaken(q) /\ TokenTaken(n) = TokenTaken(q)
    BY <2>1, <2>3 DEF WalletTaken, TokenTaken, Playground
  <2>6. WalletTaken(q) \in Nat /\ TokenTaken(q) \in Nat
    BY <1>0, TakenTypes
  <2>7. Failed(q, n)
    BY <2>1, <2>4, <2>5, <2>6 DEF Failed
  <2> QED
    BY <1>q, <2>1, <2>3, <2>7
<1>4. CASE Crash(r)
  <2> DEFINE n == Hurt([q EXCEPT !.pc = "dead"])
  <2>1. Becomes(r, n) /\ q.pc # "done"
    BY <1>4 DEF Crash
  <2>2. n \in RequestType /\ n.pc = "dead" /\ n.hurt = TRUE /\ n.out = q.out
    BY <1>0 DEF RequestType, Hurt
  <2> HIDE DEF n
  <2>3. SessionOK(n) /\ WalletTaken(n) = 0 /\ TokenTaken(n) = 0
    BY <1>0, <2>1, <2>2 DEF SessionOK, Unopened, WalletTaken, TokenTaken
  <2>4. WalletTaken(q) \in Nat /\ TokenTaken(q) \in Nat
    BY <1>0, TakenTypes
  <2> QED
    <3>1. Failed(q, n)
      BY <2>3, <2>4 DEF Failed
    <3> QED
      BY <1>q, <2>1, <2>2, <3>1
<1> QED
  BY <1>1, <1>2, <1>3, <1>4

\* A token call whose reply is lost costs the user or changes nothing.
LEMMA TokenLostStep ==
  ASSUME BillingInv, NEW r \in Requests, TokenReplyLost(r)
  PROVE  BillingInv'
<1> DEFINE q == req[r]
           n == Hurt(AfterError(q))
           m == TokenMove(q)
<1>0. /\ q \in RequestType /\ SessionOK(q) /\ faults \in Nat /\ wallet \in Int /\ token \in Int
      /\ sub \in [used : Nat, active : BOOLEAN, strict : BOOLEAN] /\ changes \in Nat
      /\ q.tok \in Nat /\ q.pre \in Nat /\ q.delta \in Int /\ q.actual \in Nat /\ q.est \in Nat
  BY Given DEF RequestType
<1>1. /\ q.pc \in TokenCalls /\ ~Playground(q) /\ token' = TokenLess(q, m) /\ Becomes(r, n)
      /\ faults' \in Nat /\ UNCHANGED <<wallet, sub, changes, again>>
  BY <1>0 DEF TokenReplyLost, Fault
<1>2. n \in RequestType /\ n.hurt = TRUE /\ Failed(q, n)
  BY <1>0, <1>1, FailedOK DEF TokenCalls, Calling
<1> HIDE DEF n
<1>3. /\ q.pc = "token" => m = SessionQuota(q)
      /\ q.pc \in {"moreToken", "settleToken"} => m = q.delta
      /\ q.pc \in {"rollback", "refundToken"} => m = -q.tok
  BY DEF TokenMove
<1> HIDE DEF m
<1>4. /\ q.pc = "moreToken" => q.delta >= 0
      /\ q.pc = "settleToken" => q.delta = q.actual - q.pre /\ q.tok = q.pre
      /\ SessionQuota(q) \in Nat
  BY <1>0 DEF SessionOK, SessionQuota
<1>5. m \in Int /\ token' = token - m
  BY <1>0, <1>1, <1>3, <1>4 DEF TokenLess, TokenCalls
<1>6. /\ WalletTaken(q) \in Nat /\ TokenTaken(q) \in Nat
      /\ WalletTaken(n) \in Nat /\ TokenTaken(n) \in Nat /\ SessionOK(n)
      /\ WalletTaken(n) <= WalletTaken(q) /\ TokenTaken(n) <= TokenTaken(q)
      /\ q.pc \in {"rollback", "settleToken", "refundToken"} => TokenTaken(n) = 0
  BY <1>0, <1>2, TakenTypes DEF Failed
<1>7. q.pc \in {"rollback", "settleToken", "refundToken"} => TokenTaken(q) = q.tok
  BY <1>1 DEF TokenTaken
<1>8. TokenTaken(n) - TokenTaken(q) <= m
  BY <1>0, <1>1, <1>3, <1>4, <1>6, <1>7 DEF TokenCalls
<1>9. /\ Paid(TokenTaken(q), TokenTaken(n), token - token', n.hurt)
      /\ Paid(WalletTaken(q), WalletTaken(n), wallet - wallet', n.hurt)
  BY <1>0, <1>1, <1>2, <1>5, <1>6, <1>8 DEF Paid
<1>10. /\ req' = [req EXCEPT ![r] = n] /\ again' = again /\ wallet' \in Int /\ token' \in Int
       /\ sub' \in [used : Nat, active : BOOLEAN, strict : BOOLEAN] /\ changes' \in Nat
       /\ changes = 0 \/ changes' > 0
  BY <1>0, <1>1, <1>5 DEF Becomes
<1> QED
  BY <1>1, <1>2, <1>6, <1>9, <1>10, StepKeeps

\* A funding call whose reply is lost costs the user or changes nothing, but for the rollback
\* of a second reservation on the wallet, which Refund will give back once more.
LEMMA FundingLostStep ==
  ASSUME BillingInv, NEW r \in Requests, FundingReplyLost(r)
  PROVE  BillingInv'
<1> DEFINE q == req[r]
           a == Hurt(AfterError(q))
           x == IF q.pc = "funding" /\ q.src = "subscription" THEN "consumed" ELSE a.record
           n == [a EXCEPT !.record = x]
           m == FundingMove(q)
<1>0. /\ q \in RequestType /\ SessionOK(q) /\ faults \in Nat /\ wallet \in Int /\ token \in Int
      /\ sub \in [used : Nat, active : BOOLEAN, strict : BOOLEAN] /\ changes \in Nat
      /\ q.pre \in Nat /\ q.delta \in Int /\ q.actual \in Nat /\ q.est \in Nat /\ again \in Nat
      /\ q.consumed \in Nat /\ q.subPre \in Nat /\ q.extra \in Nat
      /\ q.src \in {"none", "wallet", "subscription"}
  BY Given DEF RequestType, BillingInv, TypeOK
<1>1. /\ q.pc \in {"funding", "moreFunding", "undo", "settleFunding", "refund", "refundExtra"}
      /\ MoveFunding(q, m) /\ faults' \in Nat /\ UNCHANGED <<token, changes>>
      /\ again' = again + PaidAgain(q)
  BY <1>0 DEF FundingReplyLost, Fault
<1>2. a \in RequestType /\ a.hurt = TRUE /\ Failed(q, a)
  BY <1>0, <1>1, FailedOK DEF Calling
<1>b. Becomes(r, n)
  <2>1. Becomes(r, [a EXCEPT !.record =
                      IF q.pc = "funding" /\ q.src = "subscription" THEN "consumed" ELSE @])
    BY DEF FundingReplyLost
  <2> HIDE DEF a
  <2> QED
    BY <2>1
<1>x. x \in {"none", "consumed", "refunded"}
  <2> HIDE DEF a
  <2> QED
    BY <1>2 DEF RequestType
<1> HIDE DEF a, x
<1>n. n \in RequestType /\ n.hurt = TRUE /\ Failed(q, n)
  BY <1>0, <1>2, <1>x, RecordFree
<1> HIDE DEF n
<1>3. /\ q.pc = "funding" => m = SessionQuota(q)
      /\ q.pc \in {"moreFunding", "settleFunding"} => m = q.delta
      /\ q.pc = "undo" => m = -q.delta
      /\ q.pc = "refund" /\ q.src = "wallet" => m = -q.consumed
      /\ q.pc = "refund" /\ q.src = "subscription" => m = -q.subPre
      /\ q.pc = "refundExtra" => m = -q.extra
  BY DEF FundingMove, ExtraOf
<1> HIDE DEF m
<1>4. /\ q.pc \in {"moreFunding", "undo"} => q.delta >= 0
      /\ q.pc = "settleFunding" => /\ q.delta = q.actual - q.pre
                                   /\ q.src = "wallet" => q.consumed = q.pre
      /\ SessionQuota(q) \in Nat
      /\ q.pc = "refundExtra" => q.src = "subscription"
      /\ q.src # "none"
  BY <1>0, <1>1 DEF SessionOK, SessionQuota
<1>5. /\ WalletTaken(q) \in Nat /\ TokenTaken(q) \in Nat
      /\ WalletTaken(n) \in Nat /\ TokenTaken(n) \in Nat /\ SessionOK(n)
      /\ WalletTaken(n) <= WalletTaken(q) /\ TokenTaken(n) <= TokenTaken(q)
      /\ q.pc = "settleFunding" \/ (q.pc = "refund" /\ q.src = "wallet") => WalletTaken(n) = 0
  BY <1>0, <1>n, TakenTypes DEF Failed
<1>6. /\ q.pc \in {"settleFunding", "refund"} /\ q.src = "wallet" => WalletTaken(q) = q.consumed
      /\ q.src # "wallet" => WalletTaken(q) = 0
  BY DEF WalletTaken
<1>m. m \in Int
  BY <1>0, <1>1, <1>3, <1>4
<1>7. /\ PaidAgain(q) = IF q.pc = "undo" /\ q.src = "wallet" THEN q.delta ELSE 0
      /\ wallet' = IF q.src = "wallet" THEN wallet - m ELSE wallet
      /\ again' \in Nat /\ wallet' \in Int
  BY <1>0, <1>1, <1>4, <1>m DEF PaidAgain, MoveFunding
<1>8. WalletTaken(n) - WalletTaken(q) <= wallet - wallet' + (again' - again)
  <2>1. CASE q.src # "wallet"
    BY <1>0, <1>1, <1>5, <1>6, <1>7, <2>1
  <2>2. CASE q.src = "wallet" /\ q.pc = "undo"
    BY <1>0, <1>1, <1>3, <1>5, <1>7, <2>2
  <2>3. CASE q.src = "wallet" /\ q.pc # "undo"
    BY <1>0, <1>1, <1>3, <1>4, <1>5, <1>6, <1>7, <2>3
  <2> QED
    BY <2>1, <2>2, <2>3
<1>9. sub' \in [used : Nat, active : BOOLEAN, strict : BOOLEAN]
  <2>1. PostConsumed(m) \in Nat
    BY <1>0, <1>m DEF PostConsumed
  <2> QED
    BY <1>0, <1>1, <2>1 DEF MoveFunding
<1>10. /\ Paid(TokenTaken(q), TokenTaken(n), token - token', n.hurt)
       /\ Paid(WalletTaken(q), WalletTaken(n), wallet - wallet' + (again' - again), n.hurt)
  BY <1>0, <1>1, <1>n, <1>5, <1>8 DEF Paid
<1>11. /\ req' = [req EXCEPT ![r] = n] /\ token' \in Int /\ changes' \in Nat
       /\ changes = 0 \/ changes' > 0
  BY <1>0, <1>1, <1>b DEF Becomes
<1> QED
  BY <1>1, <1>n, <1>5, <1>7, <1>9, <1>10, <1>11, StepRepays

\* A reset forgets what was used, an ending keeps it.
LEMMA SubscriptionStep ==
  ASSUME BillingInv, ResetSubscription \/ EndSubscription \/ UNCHANGED vars
  PROVE  BillingInv'
<1>0. /\ TypeOK /\ UNCHANGED <<wallet, token, req, faults, again>> /\ changes \in Nat
      /\ sub \in [used : Nat, active : BOOLEAN, strict : BOOLEAN]
      /\ \A r \in Requests : SessionOK(req[r]) /\ req[r] \in RequestType
      /\ WalletCovered /\ TokenCovered /\ SubCovered /\ IsFiniteSet(Requests)
  BY PersonalBillingAssumption DEF BillingInv, TypeOK, ResetSubscription, EndSubscription, vars
<1>1. /\ sub' \in [used : Nat, active : BOOLEAN, strict : BOOLEAN] /\ changes' \in Nat
      /\ \/ sub'.used = 0 /\ changes' > 0
         \/ sub'.used = sub.used /\ changes' = changes
  <2>1. CASE ResetSubscription
    BY <1>0, <2>1 DEF ResetSubscription
  <2>2. CASE EndSubscription
    BY <1>0, <2>2 DEF EndSubscription
  <2> QED
    BY <1>0, <2>1, <2>2 DEF vars
<1>2. TypeOK' /\ (\A r \in Requests : SessionOK(req[r]))'
  BY <1>0, <1>1 DEF TypeOK
<1>3. WalletCovered' /\ TokenCovered'
  BY <1>0 DEF WalletCovered, TokenCovered, Sound
<1>4. SubCovered'
  <2> DEFINE s == [r \in Requests |-> SubTaken(req[r])]
  <2>1. s \in [Requests -> Nat]
    BY <1>0, TakenTypes
  <2>2. /\ (Sound' = Requests => sub'.used <= Total(s) /\ (changes' = 0 => sub'.used = Total(s)))
             => SubCovered'
        /\ Sound = Requests => sub.used <= Total(s) /\ (changes = 0 => sub.used = Total(s))
        /\ Sound' = Sound
    BY <1>0 DEF SubCovered, Sound
  <2> HIDE DEF s
  <2>3. Total(s) \in Nat
    BY <1>0, <2>1, TotalType
  <2> QED
    BY <1>0, <1>1, <2>2, <2>3
<1> QED
  BY <1>2, <1>3, <1>4 DEF BillingInv

(***************************************************************************)
(* The invariant, and what it says at rest.                                *)
(***************************************************************************)

\* Nothing is taken at the start.
LEMMA BillingInvInit == Init => BillingInv
<1> SUFFICES ASSUME Init PROVE BillingInv
  OBVIOUS
<1>1. PICK k \in [Requests -> Kinds] : req = [r \in Requests |-> NewRequest(k[r])]
  BY DEF Init
<1>2. /\ wallet = InitWallet /\ token = InitToken /\ faults = 0 /\ changes = 0 /\ again = 0
      /\ sub \in [used : Nat, active : BOOLEAN, strict : BOOLEAN] /\ sub.used = 0
  BY DEF Init
<1>3. ASSUME NEW r \in Requests
      PROVE  /\ req[r] \in RequestType /\ SessionOK(req[r])
             /\ WalletTaken(req[r]) = 0 /\ TokenTaken(req[r]) = 0 /\ SubTaken(req[r]) = 0
  <2> DEFINE q == NewRequest(k[r])
  <2>1. req[r] = q
    BY <1>1
  <2>2. /\ q \in RequestType /\ q.pc = "idle" /\ q.out = "none" /\ q.pre = 0 /\ q.consumed = 0
        /\ q.extra = 0 /\ q.subPre = 0 /\ q.tok = 0
    BY DEF NewRequest, RequestType, Calling
  <2> HIDE DEF q
  <2>3. SessionOK(q)
    BY <2>2 DEF SessionOK, Unopened
  <2>4. WalletTaken(q) = 0 /\ TokenTaken(q) = 0 /\ SubTaken(q) = 0
    BY <2>2 DEF WalletTaken, TokenTaken, SubTaken
  <2> QED
    BY <2>1, <2>2, <2>3, <2>4
<1>4. TypeOK
  <2>1. req \in [Requests -> RequestType]
    BY <1>1, <1>3
  <2> QED
    BY <1>2, <2>1, PersonalBillingAssumption DEF TypeOK
<1> DEFINE w == [r \in Requests |-> WalletTaken(req[r])]
           t == [r \in Requests |-> TokenTaken(req[r])]
           s == [r \in Requests |-> SubTaken(req[r])]
<1>5. /\ w \in [Requests -> Nat] /\ t \in [Requests -> Nat] /\ s \in [Requests -> Nat]
      /\ \A r \in Requests : w[r] = 0 /\ t[r] = 0 /\ s[r] = 0
  BY <1>3
<1>6. Total(w) = 0 /\ Total(t) = 0 /\ Total(s) = 0
  <2> HIDE DEF w, t, s
  <2>1. Total(w) = 0
    BY <1>5, TotalZero
  <2>2. Total(t) = 0
    BY <1>5, TotalZero
  <2>3. Total(s) = 0
    BY <1>5, TotalZero
  <2> QED
    BY <2>1, <2>2, <2>3
<1>7. WalletCovered /\ TokenCovered /\ SubCovered
  BY <1>2, <1>6, PersonalBillingAssumption DEF WalletCovered, TokenCovered, SubCovered
<1> QED
  BY <1>3, <1>4, <1>7 DEF BillingInv

\* Every step keeps it.
LEMMA BillingInvStep == BillingInv /\ [Next]_vars => BillingInv'
<1> SUFFICES ASSUME BillingInv, [Next]_vars PROVE BillingInv'
  OBVIOUS
<1>1. ASSUME NEW r \in Requests,
             \/ Begin(r) \/ Opening(r)
             \/ Reserve(r) \/ Reserving(r)
             \/ Settle(r) \/ Refund(r) \/ Closing(r)
             \/ Faults(r)
      PROVE  BillingInv'
  <2>1. CASE Begin(r) \/ Opening(r)
    BY <2>1, OpeningReads, TokenSteps, ReserveWalletStep, PreConsumeStep DEF Opening
  <2>2. CASE Reserve(r) \/ Reserving(r)
    BY <2>2, ReserveStep, ReserveFundingStep, ReserveMoreTokenStep DEF Reserving
  <2>3. CASE Settle(r) \/ Refund(r) \/ Closing(r)
    BY <2>3, SettleStep, SettleFundingStep, SettleTokenStep, RefundStep, RefundFundingSteps,
       RefundTokenStep DEF Closing
  <2>4. CASE Faults(r)
    BY <2>4, FaultStep, TokenLostStep, FundingLostStep DEF Faults
  <2> QED
    BY <1>1, <2>1, <2>2, <2>3, <2>4
<1>2. CASE ResetSubscription \/ EndSubscription \/ UNCHANGED vars
  BY <1>2, SubscriptionStep
<1> QED
  BY <1>1, <1>2 DEF Next

\* The invariant holds in every state.
LEMMA BillingInvariant == Spec => []BillingInv
<1>1. Init => BillingInv
  BY BillingInvInit
<1>2. BillingInv /\ [Next]_vars => BillingInv'
  BY BillingInvStep
<1> QED
  BY <1>1, <1>2, PTL DEF Spec

\* At rest a sound request has taken exactly what it owes.
LEMMA TakenAtRest ==
  ASSUME NEW q \in RequestType, SessionOK(q), q.pc \in {"idle", "open", "done", "dead"}, ~q.hurt
  PROVE  /\ TokenTaken(q) = TokenBooked(q)
         /\ q.src = "wallet" => WalletTaken(q) = Owes(q)
         /\ q.src = "subscription" => SubTaken(q) = Owes(q)
         /\ q.src # "wallet" => WalletTaken(q) = 0
         /\ q.src # "subscription" => SubTaken(q) = 0
<1>1. /\ q.pc # "done" => q.out = "none"
      /\ q.pc = "open" => q.tok = q.pre /\ (q.src = "wallet" => q.consumed = q.pre)
  BY DEF SessionOK
<1>2. TokenTaken(q) = TokenBooked(q)
  BY <1>1 DEF TokenTaken, TokenBooked, Owes
<1>3. /\ q.src = "wallet" => WalletTaken(q) = Owes(q)
      /\ q.src # "wallet" => WalletTaken(q) = 0
  BY <1>1 DEF WalletTaken, Owes
<1>4. /\ q.src = "subscription" => SubTaken(q) = Owes(q)
      /\ q.src # "subscription" => SubTaken(q) = 0
  BY <1>1 DEF SubTaken, Owes
<1> QED
  BY <1>2, <1>3, <1>4

\* What the requests S at rest owe to a row is part of what all of them have taken, and all
\* of it when the others took nothing.
LEMMA OwedIsTaken ==
  ASSUME IsFiniteSet(Requests), NEW S \in SUBSET Requests, NEW init \in Nat, NEW row \in Int,
         NEW owed \in [S -> Nat], NEW taken \in [Requests -> Nat],
         \A r \in S : owed[r] = taken[r], row <= init - Total(taken)
  PROVE  /\ row <= init - Total(owed)
         /\ (\A r \in Requests \ S : taken[r] = 0) => Total(owed) = Total(taken)
<1>1. IsFiniteSet(S)
  BY FS_Subset
<1>2. Total(owed) \in Nat
  BY <1>1, TotalType
<1>3. Total(taken) \in Nat
  BY TotalType
<1>4. Total(owed) <= Total(taken)
  BY TotalLeq
<1>5. (\A r \in Requests \ S : taken[r] = 0) => Total(owed) = Total(taken)
  BY TotalWithin
<1> QED
  BY <1>2, <1>3, <1>4, <1>5

\* Wallet, subscription and token rows and the fields of every BillingSession keep their
\* types: no reservation, and nothing Refund means to give back, is ever negative.
THEOREM PersonalBillingTypeOK == Spec => []TypeOK
<1>1. BillingInv => TypeOK
  BY DEF BillingInv
<1> QED
  BY <1>1, BillingInvariant, PTL

\* The wallet is short by exactly what its requests owe; with failing calls, lost replies and
\* dying gateways by no less, but for rollbacks whose reply was lost (WalletFunding.Refund).
THEOREM WalletAlwaysBalances == Spec => []WalletBalances
<1>1. ASSUME BillingInv, AtRest PROVE WalletBalances
  <2> DEFINE S == On("wallet")
             owed == [r \in S |-> Owes(req[r])]
             w == [r \in Requests |-> WalletTaken(req[r])]
  <2>1. /\ \A r \in Requests : /\ req[r] \in RequestType /\ SessionOK(req[r])
                               /\ req[r].pc \in {"idle", "open", "done", "dead"}
        /\ wallet \in Int /\ again \in Nat /\ InitWallet \in Nat /\ IsFiniteSet(Requests)
    BY <1>1, PersonalBillingAssumption DEF BillingInv, TypeOK, AtRest
  <2>2. /\ wallet <= InitWallet - Total(w) + again
        /\ Sound = Requests => wallet = InitWallet - Total(w)
    BY <1>1 DEF BillingInv, WalletCovered
  <2>3. w \in [Requests -> Nat]
    BY <2>1, TakenTypes
  <2>4. S \in SUBSET Requests /\ \A r \in S : Owes(req[r]) = WalletTaken(req[r])
    <3>1. \A r \in S : r \in Requests /\ ~req[r].hurt /\ req[r].src = "wallet"
      BY DEF On, Sound
    <3> QED
      BY <2>1, <3>1, TakenAtRest
  <2>5. owed \in [S -> Nat] /\ \A r \in S : owed[r] = w[r]
    BY <2>3, <2>4
  <2>6. Sound = Requests => \A r \in Requests \ S : w[r] = 0
    BY DEF On, Sound, WalletTaken
  <2>7. OwedBy(On("wallet")) = Total(owed)
    BY DEF OwedBy
  <2> HIDE DEF S, owed, w
  <2> DEFINE row == wallet - again
  <2>9. row <= InitWallet - Total(w) /\ row \in Int
    <3>1. Total(w) \in Nat
      BY <2>1, <2>3, TotalType
    <3> QED
      BY <2>1, <2>2, <3>1
  <2> HIDE DEF row
  <2>8. /\ row <= InitWallet - Total(owed)
        /\ (\A r \in Requests \ S : w[r] = 0) => Total(owed) = Total(w)
    <3>1. /\ IsFiniteSet(Requests) /\ S \in SUBSET Requests /\ InitWallet \in Nat
          /\ owed \in [S -> Nat] /\ w \in [Requests -> Nat] /\ \A r \in S : owed[r] = w[r]
      BY <2>1, <2>3, <2>4, <2>5
    <3> QED
      BY <2>9, <3>1, OwedIsTaken
  <2>10. Total(owed) \in Nat
    <3>1. IsFiniteSet(S)
      BY <2>1, <2>4, FS_Subset
    <3> QED
      BY <2>5, <3>1, TotalType
  <2>11. wallet <= InitWallet - Total(owed) + again
    BY <2>1, <2>8, <2>10 DEF row
  <2> QED
    BY <2>2, <2>6, <2>7, <2>8, <2>11 DEF WalletBalances
<1>2. BillingInv => WalletBalances
  BY <1>1 DEF WalletBalances
<1> QED
  BY <1>2, BillingInvariant, PTL

\* A limited token follows the funding: at rest it has lost exactly what its requests owe,
\* whichever of preConsume, Reserve, Settle and Refund (billing_session.go) they went through.
THEOREM TokenAlwaysBalances == Spec => []TokenBalances
<1>1. ASSUME BillingInv, AtRest, \A r \in Requests : req[r].kind.token # "unlimited"
      PROVE  TokenBalances
  <2> DEFINE owed == [r \in Sound |-> TokenKeeps(req[r])]
             t == [r \in Requests |-> TokenTaken(req[r])]
  <2>1. /\ \A r \in Requests : /\ req[r] \in RequestType /\ SessionOK(req[r])
                               /\ req[r].pc \in {"idle", "open", "done", "dead"}
        /\ token \in Int /\ InitToken \in Nat /\ IsFiniteSet(Requests)
    BY <1>1, PersonalBillingAssumption DEF BillingInv, TypeOK, AtRest
  <2>2. /\ token <= InitToken - Total(t)
        /\ Sound = Requests => token = InitToken - Total(t)
    BY <1>1 DEF BillingInv, TokenCovered
  <2>3. t \in [Requests -> Nat]
    BY <2>1, TakenTypes
  <2>4. Sound \in SUBSET Requests /\ \A r \in Sound : TokenKeeps(req[r]) = TokenTaken(req[r])
    <3>1. \A r \in Sound : /\ r \in Requests /\ ~req[r].hurt
                           /\ TokenKeeps(req[r]) = TokenBooked(req[r])
      BY <1>1 DEF Sound, TokenKeeps, TokenBooked
    <3> QED
      BY <2>1, <3>1, TakenAtRest
  <2>5. owed \in [Sound -> Nat] /\ \A r \in Sound : owed[r] = t[r]
    BY <2>3, <2>4
  <2>6. TokenBalances <=> (token <= InitToken - Total(owed)
                           /\ (Sound = Requests => token = InitToken - Total(owed)))
    BY <1>1 DEF TokenBalances
  <2> HIDE DEF owed, t
  <2>7. /\ token <= InitToken - Total(owed)
        /\ (\A r \in Requests \ Sound : t[r] = 0) => Total(owed) = Total(t)
    BY <2>1, <2>2, <2>3, <2>4, <2>5, OwedIsTaken
  <2> QED
    BY <2>2, <2>6, <2>7
<1>2. BillingInv => TokenBalances
  BY <1>1 DEF TokenBalances
<1> QED
  BY <1>2, BillingInvariant, PTL

\* The subscription is used by what its requests owe, and by no more after a reset:
\* pre-consumption, delta and refund (subscription.go) neither lose nor repeat an amount.
THEOREM SubscriptionAlwaysBalances == Spec => []SubscriptionBalances
<1>1. ASSUME BillingInv, AtRest, Sound = Requests
      PROVE  /\ sub.used <= OwedBy(On("subscription"))
             /\ changes = 0 => sub.used = OwedBy(On("subscription"))
  <2> DEFINE S == On("subscription")
             owed == [r \in S |-> Owes(req[r])]
             s == [r \in Requests |-> SubTaken(req[r])]
  <2>1. /\ \A r \in Requests : /\ req[r] \in RequestType /\ SessionOK(req[r])
                               /\ req[r].pc \in {"idle", "open", "done", "dead"}
        /\ IsFiniteSet(Requests)
    BY <1>1, PersonalBillingAssumption DEF BillingInv, TypeOK, AtRest
  <2>2. sub.used <= Total(s) /\ (changes = 0 => sub.used = Total(s))
    BY <1>1 DEF BillingInv, SubCovered
  <2>3. s \in [Requests -> Nat]
    BY <2>1, TakenTypes
  <2>4. S \in SUBSET Requests /\ \A r \in S : Owes(req[r]) = SubTaken(req[r])
    <3>1. \A r \in S : r \in Requests /\ ~req[r].hurt /\ req[r].src = "subscription"
      BY DEF On, Sound
    <3> QED
      BY <2>1, <3>1, TakenAtRest
  <2>5. owed \in [S -> Nat] /\ \A r \in S : owed[r] = s[r]
    BY <2>3, <2>4
  <2>6. \A r \in Requests \ S : s[r] = 0
    BY <1>1 DEF On, Sound, SubTaken
  <2>7. OwedBy(On("subscription")) = Total(owed)
    BY DEF OwedBy
  <2> HIDE DEF S, owed, s
  <2>8. Total(owed) = Total(s)
    BY <2>1, <2>3, <2>4, <2>5, <2>6, TotalWithin
  <2> QED
    BY <2>2, <2>7, <2>8
<1>2. BillingInv => sub.used >= 0
  BY DEF BillingInv, TypeOK
<1>3. BillingInv => SubscriptionBalances
  BY <1>1, <1>2 DEF SubscriptionBalances
<1> QED
  BY <1>3, BillingInvariant, PTL
=============================================================================
