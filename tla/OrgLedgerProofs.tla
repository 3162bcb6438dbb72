--------------------------- MODULE OrgLedgerProofs ---------------------------
(***************************************************************************)
(* Proofs about the organization ledger, for every number of requests,     *)
(* members and repairers, every quota and every bound.                     *)
(***************************************************************************)
EXTENDS OrgLedger, TotalsProofs

(***************************************************************************)
(* The statements keep the types.                                          *)
(***************************************************************************)

\* The floor of the UPDATE ... CASE WHEN never yields a negative counter.
LEMMA FloorType == \A x \in Int : Floor(x) \in Nat
  BY DEF Floor

\* UseOrg moves used_quota only, and keeps the type of the organization row.
LEMMA UseOrgType ==
  ASSUME BooksType, NEW delta \in Int, NEW count \in Nat, UseOrg(delta, count)
  PROVE  /\ org' \in OrgType
         /\ org'.used = Floor(org.used + delta)
         /\ org'.quota = org.quota /\ org'.status = org.status
<1>1. org.used + delta \in Int /\ org.count + count \in Nat
  BY DEF BooksType, OrgType
<1>2. Floor(org.used + delta) \in Nat
  BY <1>1, FloorType
<1>3. org' = [org EXCEPT !.used = Floor(org.used + delta), !.count = org.count + count]
  BY DEF UseOrg
<1> QED
  BY <1>1, <1>2, <1>3 DEF BooksType, OrgType

\* UseMember keeps the type of the member rows.
LEMMA UseMemberType ==
  ASSUME BooksType, NEW m \in Members, NEW delta \in Int, UseMember(m, delta)
  PROVE  member' \in [Members -> MemberType]
  BY FloorType DEF UseMember, BooksType, MemberType

\* What a movement takes from the token's balance is an integer, and nothing unless the
\* movement is a decrease the token covers.
LEMMA TakenFits ==
  ASSUME BooksType, NEW r \in Requests, NEW q \in Int, NEW unlimited \in BOOLEAN,
         q > 0 => TokenCovers(r, q, unlimited)
  PROVE  Taken(r, q, unlimited) \in Int /\ token.remain - Taken(r, q, unlimited) \in Nat
  BY DEF TokenCovers, Taken, BooksType, TokenType

\* MoveToken keeps the type of the token row when the token covers what is taken.
LEMMA MoveTokenType ==
  ASSUME BooksType, NEW r \in Requests, NEW q \in Int, NEW unlimited \in BOOLEAN,
         q > 0 => TokenCovers(r, q, unlimited),
         MoveToken(r, q, unlimited)
  PROVE  token' \in TokenType
<1>1. CASE r \in Playground
  BY <1>1 DEF MoveToken, BooksType
<1>2. CASE r \notin Playground
  <2>1. token.remain - Taken(r, q, unlimited) \in Nat
    BY TakenFits
  <2>2. Floor(token.used + q) \in Nat
    BY FloorType DEF BooksType, TokenType
  <2>3. token' = [token EXCEPT !.remain = token.remain - Taken(r, q, unlimited),
                               !.used = Floor(token.used + q)]
    BY <1>2 DEF MoveToken
  <2> QED
    BY <2>1, <2>2, <2>3 DEF BooksType, TokenType
<1> QED
  BY <1>1, <1>2

\* Book keeps the type of the records.
LEMMA BookType ==
  ASSUME BooksType, NEW type \in {"pre_consume", "reserve", "settle", "refund"},
         NEW r \in Requests, NEW at \in Nat, NEW delta \in Int, NEW usage \in Int,
         Book(type, r, at, delta, usage)
  PROVE  records' \subseteq RecordType
  BY DEF Book, BooksType, RecordType

(***************************************************************************)
(* The transactions keep the types of the books.                           *)
(***************************************************************************)

\* PreConsumeWithToken keeps the types.
LEMMA PreConsumeTxType ==
  ASSUME BooksType, now \in Nat, NEW r \in Requests, NEW amount \in Nat, PreConsumeTx(r, amount)
  PROVE  BooksType'
<1> DEFINE unlimited == r \notin Playground /\ token.unlimited
<1>1. unlimited \in BOOLEAN /\ MemberOf[r] \in Members /\ now + TTL \in Nat
  BY LedgerConstants DEF BooksType, TokenType
<1>2. TokenCovers(r, amount, unlimited) /\ Taken(r, amount, unlimited) \in Nat
  BY DEF PreConsumeTx, PreConsumeAdmits, TokenCovers, Taken
<1>3. org' \in OrgType
  BY UseOrgType DEF PreConsumeTx
<1>4. member' \in [Members -> MemberType]
  BY <1>1, UseMemberType DEF PreConsumeTx
<1>5. token' \in TokenType
  <2>1. amount \in Int /\ MoveToken(r, amount, unlimited)
    BY DEF PreConsumeTx
  <2> QED
    BY <1>1, <1>2, <2>1, MoveTokenType
<1>6. sess' \in [Requests -> SessionType]
  <2>1. sess' = [sess EXCEPT ![r] =
          [NoSession EXCEPT !.status = "pre_consumed", !.pre = amount,
             !.tok = Taken(r, amount, unlimited), !.unl = unlimited,
             !.hb = now, !.exp = now + TTL]]
    BY DEF PreConsumeTx, NewSession
  <2>2. [NoSession EXCEPT !.status = "pre_consumed", !.pre = amount,
             !.tok = Taken(r, amount, unlimited), !.unl = unlimited,
             !.hb = now, !.exp = now + TTL] \in SessionType
    BY <1>1, <1>2 DEF NoSession, SessionType
  <2> QED
    BY <2>1, <2>2 DEF BooksType
<1>7. records' \subseteq RecordType
  <2>1. Book("pre_consume", r, 0, amount, 0) /\ amount \in Int
    BY DEF PreConsumeTx
  <2> QED
    BY <2>1, BookType
<1> QED
  BY <1>3, <1>4, <1>5, <1>6, <1>7 DEF BooksType

\* The row of a pre-consumption of zero: inserted, committed or rolled back.
ZeroStep(r) == PreConsumeZeroTx(r) \/ CommitZeroTx(r) \/ RollbackZeroTx(r)

\* What the insertion of a row over zero puts there.
LEMMA ZeroRow ==
  ASSUME BooksType, now \in Nat, NEW r \in Requests
  PROVE  LET s == NewSession(r, 0, "uncommitted")
         IN /\ s \in SessionType /\ s.status = "uncommitted" /\ s.pre = 0 /\ s.tok = 0
            /\ s.refunded = 0 /\ s.tokRefunded = FALSE /\ s.exp = now + TTL
<1> DEFINE unlimited == r \notin Playground /\ token.unlimited
<1>1. unlimited \in BOOLEAN /\ now + TTL \in Nat /\ Taken(r, 0, unlimited) = 0
  BY LedgerConstants DEF BooksType, TokenType, Taken
<1>2. NewSession(r, 0, "uncommitted") =
        [NoSession EXCEPT !.status = "uncommitted", !.pre = 0, !.tok = 0,
           !.unl = unlimited, !.hb = now, !.exp = now + TTL]
  BY <1>1 DEF NewSession
<1> DEFINE s == NewSession(r, 0, "uncommitted")
<1>3. s = [status |-> "uncommitted", pre |-> 0, tok |-> 0, unl |-> unlimited,
           tokRefunded |-> FALSE, settled |-> 0, refunded |-> 0, hb |-> now, exp |-> now + TTL]
  BY <1>2 DEF NoSession
<1> HIDE DEF unlimited, s
<1>4. /\ s.status = "uncommitted" /\ s.pre = 0 /\ s.tok = 0
      /\ s.refunded = 0 /\ s.tokRefunded = FALSE /\ s.exp = now + TTL
  BY <1>3
<1>5. s \in SessionType
  BY <1>1, <1>3 DEF SessionType
<1> QED
  BY <1>4, <1>5 DEF s

\* The row of a pre-consumption of zero keeps the types.
LEMMA ZeroStepType ==
  ASSUME BooksType, now \in Nat, NEW r \in Requests, ZeroStep(r)
  PROVE  BooksType'
<1>1. NoSession \in SessionType
  BY DEF NoSession, SessionType
<1>2. sess' \in [Requests -> SessionType]
  <2>1. CASE PreConsumeZeroTx(r)
    BY <2>1, ZeroRow DEF PreConsumeZeroTx, BooksType
  <2>2. CASE CommitZeroTx(r)
    BY <2>2 DEF CommitZeroTx, BooksType, SessionType
  <2>3. CASE RollbackZeroTx(r)
    BY <1>1, <2>3 DEF RollbackZeroTx, BooksType
  <2> QED
    BY <2>1, <2>2, <2>3 DEF ZeroStep
<1> QED
  BY <1>2 DEF ZeroStep, PreConsumeZeroTx, CommitZeroTx, RollbackZeroTx, BooksType

\* ReserveMoreWithToken keeps the types.
LEMMA ReserveMoreTxType ==
  ASSUME BooksType, now \in Nat, NEW r \in Requests, NEW delta \in Nat, ReserveMoreTx(r, delta)
  PROVE  BooksType'
<1>1. /\ sess[r] \in SessionType /\ sess[r].unl \in BOOLEAN /\ sess[r].pre \in Nat
      /\ sess[r].tok \in Nat /\ MemberOf[r] \in Members /\ now + TTL \in Nat
  BY LedgerConstants DEF BooksType, SessionType
<1>2. TokenCovers(r, delta, sess[r].unl) /\ Taken(r, delta, sess[r].unl) \in Nat
  BY DEF ReserveMoreTx, ReserveAdmits, TokenCovers, Taken
<1>3. org' \in OrgType
  BY UseOrgType DEF ReserveMoreTx
<1>4. member' \in [Members -> MemberType]
  BY <1>1, UseMemberType DEF ReserveMoreTx
<1>5. token' \in TokenType
  BY <1>1, <1>2, MoveTokenType DEF ReserveMoreTx
<1>6. sess' \in [Requests -> SessionType]
  <2>1. sess' = [sess EXCEPT ![r] = [sess[r] EXCEPT !.pre = sess[r].pre + delta,
                   !.tok = sess[r].tok + Taken(r, delta, sess[r].unl),
                   !.hb = now, !.exp = now + TTL]]
    BY DEF ReserveMoreTx, BooksType
  <2>2. [sess[r] EXCEPT !.pre = sess[r].pre + delta,
                   !.tok = sess[r].tok + Taken(r, delta, sess[r].unl),
                   !.hb = now, !.exp = now + TTL] \in SessionType
    <3>1. sess[r].pre + delta \in Nat
      BY <1>1
    <3>2. sess[r].tok + Taken(r, delta, sess[r].unl) \in Nat
      BY <1>1, <1>2
    <3> QED
      BY <1>1, <3>1, <3>2 DEF SessionType
  <2> QED
    BY <2>1, <2>2 DEF BooksType
<1>7. records' \subseteq RecordType
  <2>1. Book("reserve", r, sess[r].pre + delta, delta, 0)
    BY DEF ReserveMoreTx
  <2>2. sess[r].pre + delta \in Nat /\ delta \in Int
    BY <1>1
  <2> QED
    BY <2>1, <2>2, BookType
<1> QED
  BY <1>3, <1>4, <1>5, <1>6, <1>7 DEF BooksType

\* settleWithTokenActual keeps the types.
LEMMA SettleTxType ==
  ASSUME BooksType, NEW r \in Requests, NEW actual \in Int, SettleTx(r, actual)
  PROVE  BooksType' /\ actual \in Nat
<1> DEFINE delta == actual - sess[r].pre
<1> DEFINE tok == Floor(sess[r].tok + Taken(r, delta, sess[r].unl))
<1>1. /\ sess[r] \in SessionType /\ sess[r].unl \in BOOLEAN /\ sess[r].pre \in Nat
      /\ sess[r].tok \in Nat /\ MemberOf[r] \in Members
  BY LedgerConstants DEF BooksType, SessionType
<1>2. actual \in Nat /\ delta \in Int
  BY <1>1 DEF SettleTx, SettleAdmits
<1>3. delta > 0 => TokenCovers(r, delta, sess[r].unl)
  BY DEF SettleTx, SettleAdmits
<1>4. tok \in Nat
  BY <1>1, <1>2, FloorType DEF Taken
<1>5. org' \in OrgType
  BY <1>2, UseOrgType DEF SettleTx
<1>6. member' \in [Members -> MemberType]
  BY <1>1, <1>2, UseMemberType DEF SettleTx
<1>7. token' \in TokenType
  BY <1>1, <1>2, <1>3, MoveTokenType DEF SettleTx
<1>8. sess' \in [Requests -> SessionType]
  <2>1. sess' = [sess EXCEPT ![r] =
                   [sess[r] EXCEPT !.status = "settled", !.settled = actual, !.tok = tok]]
    BY DEF SettleTx, BooksType
  <2>2. [sess[r] EXCEPT !.status = "settled", !.settled = actual, !.tok = tok] \in SessionType
    BY <1>1, <1>2, <1>4 DEF SessionType
  <2> QED
    BY <2>1, <2>2 DEF BooksType
<1>9. records' \subseteq RecordType
  BY <1>2, BookType DEF SettleTx
<1> QED
  BY <1>2, <1>5, <1>6, <1>7, <1>8, <1>9 DEF BooksType

\* The amounts of a refund are natural numbers.
LEMMA RefundAmounts ==
  ASSUME NEW s \in SessionType
  PROVE  RefundAmount(s) \in Nat /\ TokenRefund(s) \in Nat
<1>1. RefundAmount(s) \in Nat
  BY FloorType DEF RefundAmount, SessionType
<1> QED
  BY <1>1 DEF TokenRefund, SessionType

\* RefundWithToken keeps the types.
LEMMA RefundType ==
  ASSUME BooksType, NEW r \in Requests, RefundWithToken(r)
  PROVE  BooksType'
<1> DEFINE s == sess[r]
<1> DEFINE amount == RefundAmount(s)
<1> DEFINE back == TokenRefund(s)
<1> DEFINE tok == Floor(s.tok - Taken(r, back, s.unl))
<1>1. CASE sess[r].status = "refunded"
  BY <1>1 DEF RefundWithToken, books, BooksType
<1>2. CASE sess[r].status # "refunded"
  <2>0. RefundTx(r)
    BY <1>2 DEF RefundWithToken
  <2>1. s \in SessionType /\ MemberOf[r] \in Members
    BY LedgerConstants DEF BooksType
  <2>2. amount \in Nat /\ back \in Nat
    BY <2>1, RefundAmounts
  <2>3. -amount \in Int /\ -back \in Int /\ ~(-back > 0) /\ s.unl \in BOOLEAN
    BY <2>1, <2>2 DEF SessionType
  <2>4. tok \in Nat /\ s.refunded + amount \in Nat
    BY <2>1, <2>2, FloorType DEF Taken, SessionType
  <2>5. org' \in OrgType
    BY <2>0, <2>3, UseOrgType DEF RefundTx
  <2>6. member' \in [Members -> MemberType]
    BY <2>0, <2>1, <2>3, UseMemberType DEF RefundTx
  <2>7. token' \in TokenType
    BY <2>0, <2>3, MoveTokenType DEF RefundTx
  <2>8. sess' \in [Requests -> SessionType]
    <3>1. sess' = [sess EXCEPT ![r] =
            [s EXCEPT !.status = "refunded", !.refunded = s.refunded + amount,
                      !.tok = tok, !.tokRefunded = TRUE]]
      BY <2>0 DEF RefundTx, BooksType
    <3>2. [s EXCEPT !.status = "refunded", !.refunded = s.refunded + amount,
                      !.tok = tok, !.tokRefunded = TRUE] \in SessionType
      BY <2>1, <2>4 DEF SessionType
    <3> QED
      BY <3>1, <3>2 DEF BooksType
  <2>9. records' \subseteq RecordType
    <3> DEFINE usage == IF s.status = "settled" THEN -amount ELSE 0
    <3>1. Book("refund", r, 0, -amount, usage)
      BY <2>0 DEF RefundTx
    <3>2. usage \in Int
      BY <2>3
    <3> HIDE DEF usage, amount
    <3> QED
      BY <2>3, <3>1, <3>2, BookType
  <2> QED
    BY <2>5, <2>6, <2>7, <2>8, <2>9 DEF BooksType
<1> QED
  BY <1>1, <1>2

(***************************************************************************)
(* Type correctness.                                                       *)
(***************************************************************************)

\* A handler that ended leaves typed memory.
LEMMA OverType ==
  ASSUME MemoryType, NEW r \in Requests, NEW actual \in Nat,
         NEW pc \in {"new", "opening", "active", "ending", "aborting", "settled", "over"},
         Over(r, pc, actual)
  PROVE  req' \in [Requests -> RequestType]
<1>1. [NoMemory EXCEPT !.pc = pc, !.actual = actual] \in RequestType
  BY DEF NoMemory, RequestType
<1> QED
  BY <1>1 DEF Over, MemoryType

\* A repair pass that goes on or ends leaves typed memory.
LEMMA PassType ==
  ASSUME MemoryType, NEW w \in Repairers, NEW p \in RepairType, Pass(w, p)
  PROVE  rep' \in [Repairers -> RepairType]
<1>1. NoRepair \in RepairType
  BY DEF NoRepair, RepairType
<1> QED
  BY <1>1 DEF Pass, MemoryType

\* The initial state is typed.
LEMMA TypeInit == Init => TypeOK
<1> SUFFICES ASSUME Init PROVE TypeOK
  OBVIOUS
<1>1. org \in OrgType
  BY LedgerConstants DEF Init, OrgType
<1>2. member \in [Members -> MemberType]
  BY LedgerConstants DEF Init, MemberType
<1>3. token \in TokenType
  BY LedgerConstants DEF Init, TokenType
<1>4. sess \in [Requests -> SessionType]
  BY DEF Init, NoSession, SessionType
<1>5. req \in [Requests -> RequestType]
  BY DEF Init, NoMemory, RequestType
<1>6. rep \in [Repairers -> RepairType]
  BY DEF Init, NoRepair, RepairType
<1>7. direct \in [of : [Members -> Nat], tok : Int, tokUsed : Nat]
  BY DEF Init
<1> QED
  BY <1>1, <1>2, <1>3, <1>4, <1>5, <1>6, <1>7 DEF Init, TypeOK, BooksType, MemoryType

\* A step of a request keeps the types.
LEMMA RequestStepType ==
  ASSUME TypeOK, NEW r \in Requests, RequestStep(r)
  PROVE  TypeOK'
<1>0. /\ BooksType /\ MemoryType /\ now \in Nat /\ admin \in Nat /\ faults \in Nat
      /\ req[r] \in RequestType /\ sess[r] \in SessionType
  BY DEF TypeOK, MemoryType, BooksType
<1>1. req[r].pre \in Nat /\ req[r].cached \in Nat
  BY <1>0 DEF RequestType
<1>2. ASSUME NEW a \in Amounts, PreConsume(r, a) PROVE TypeOK'
  <2>1. a \in Nat /\ now + Interval \in Nat
    BY <1>0, LedgerConstants DEF Interval
  <2>2. BooksType'
    BY <1>0, <1>2, <2>1, PreConsumeTxType DEF PreConsume
  <2>3. [pc |-> "active", pre |-> a, cached |-> a, actual |-> 0,
         beat |-> IF r \in Relayed THEN now + Interval ELSE 0] \in RequestType
    BY <2>1 DEF RequestType
  <2>4. req' \in [Requests -> RequestType]
    BY <1>0, <1>2, <2>3 DEF PreConsume, Begin, MemoryType
  <2> QED
    BY <1>0, <1>2, <2>2, <2>4 DEF PreConsume, TypeOK, MemoryType
<1>3. ASSUME NEW a \in Amounts, PreConsumeRefused(r, a) PROVE TypeOK'
  <2>1. req' \in [Requests -> RequestType]
    BY <1>0, <1>3, OverType DEF PreConsumeRefused
  <2> QED
    BY <1>0, <1>3, <2>1 DEF PreConsumeRefused, TypeOK, MemoryType, BooksType, books
<1>4. ASSUME NEW a \in Amounts, PreConsumeReplyLost(r, a) PROVE TypeOK'
  <2>1. BooksType'
    BY <1>0, <1>4, LedgerConstants, PreConsumeTxType DEF PreConsumeReplyLost
  <2>2. req' \in [Requests -> RequestType]
    BY <1>0, <1>4, OverType DEF PreConsumeReplyLost
  <2> QED
    BY <1>0, <1>4, <2>1, <2>2 DEF PreConsumeReplyLost, Fault, TypeOK, MemoryType
<1>5. ASSUME NEW a \in Amounts, Reserve(r, a) PROVE TypeOK'
  <2>1. a \in Nat /\ a - req[r].pre \in Nat /\ sess[r].pre \in Nat
    BY <1>0, <1>1, <1>5, LedgerConstants DEF Reserve, SessionType
  <2>2. BooksType'
    BY <1>0, <1>5, <2>1, ReserveMoreTxType DEF Reserve, BooksType, books
  <2>3. req' \in [Requests -> RequestType]
    <3>1. PICK c \in Nat : req' = [req EXCEPT ![r].pre = a, ![r].cached = c]
      BY <1>5, <2>1 DEF Reserve
    <3> QED
      BY <1>0, <2>1, <3>1 DEF RequestType, MemoryType
  <2> QED
    BY <1>0, <1>5, <2>2, <2>3 DEF Reserve, TypeOK, MemoryType
<1>6. ASSUME NEW a \in Amounts, ReserveRefused(r, a) PROVE TypeOK'
  <2>1. req' \in [Requests -> RequestType]
    BY <1>0, <1>6 DEF ReserveRefused, MemoryType, RequestType
  <2> QED
    BY <1>0, <1>6, <2>1 DEF ReserveRefused, TypeOK, MemoryType, BooksType, books
<1>7. ASSUME NEW a \in Amounts, ReserveReplyLost(r, a) PROVE TypeOK'
  <2>1. a - req[r].pre \in Nat
    BY <1>0, <1>1, <1>7, LedgerConstants DEF ReserveReplyLost
  <2>2. BooksType'
    BY <1>0, <1>7, <2>1, ReserveMoreTxType DEF ReserveReplyLost
  <2>3. req' \in [Requests -> RequestType]
    BY <1>0, <1>7 DEF ReserveReplyLost, MemoryType, RequestType
  <2> QED
    BY <1>0, <1>7, <2>2, <2>3 DEF ReserveReplyLost, Fault, TypeOK, MemoryType
<1>8. \A a \in Amounts : a \in Nat /\ SettleTarget(r, a) \in Int
  BY <1>1, LedgerConstants DEF SettleTarget
<1>9. ASSUME NEW a \in Amounts, Settle(r, a) PROVE TypeOK'
  <2>1. BooksType'
    BY <1>0, <1>8, <1>9, SettleTxType DEF Settle
  <2>2. req' \in [Requests -> RequestType]
    BY <1>0, <1>8, <1>9, OverType DEF Settle
  <2> QED
    BY <1>0, <1>9, <2>1, <2>2 DEF Settle, TypeOK, MemoryType
<1>10. ASSUME NEW a \in Amounts, SettleFails(r, a) PROVE TypeOK'
  <2>1. req' \in [Requests -> RequestType]
    BY <1>0, <1>8, <1>10 DEF SettleFails, MemoryType, RequestType
  <2> QED
    BY <1>0, <1>10, <2>1 DEF SettleFails, TypeOK, MemoryType, BooksType, books
<1>11. ASSUME NEW a \in Amounts, SettleReplyLost(r, a) PROVE TypeOK'
  <2>1. BooksType'
    BY <1>0, <1>8, <1>11, SettleTxType DEF SettleReplyLost
  <2>2. req' \in [Requests -> RequestType]
    BY <1>0, <1>8, <1>11 DEF SettleReplyLost, MemoryType, RequestType
  <2> QED
    BY <1>0, <1>11, <2>1, <2>2 DEF SettleReplyLost, Fault, TypeOK, MemoryType
<1>12. CASE ReturnUnsettled(r)
  <2>1. req' \in [Requests -> RequestType]
    BY <1>0, <1>12, OverType DEF ReturnUnsettled
  <2> QED
    BY <1>0, <1>12, <2>1 DEF ReturnUnsettled, TypeOK, MemoryType, BooksType, books
<1>13. CASE Abort(r)
  <2>1. req' \in [Requests -> RequestType]
    BY <1>0, <1>13 DEF Abort, MemoryType, RequestType
  <2> QED
    BY <1>0, <1>13, <2>1 DEF Abort, TypeOK, MemoryType, BooksType, books
<1>14. CASE BackgroundRefund(r)
  <2>1. BooksType'
    BY <1>0, <1>14, RefundType DEF BackgroundRefund, BooksType, books
  <2>2. req' \in [Requests -> RequestType]
    BY <1>0, <1>14, OverType DEF BackgroundRefund
  <2> QED
    BY <1>0, <1>14, <2>1, <2>2 DEF BackgroundRefund, TypeOK, MemoryType
<1>15. CASE RequestDies(r)
  <2>1. req' \in [Requests -> RequestType]
    BY <1>0, <1>15, OverType DEF RequestDies
  <2> QED
    BY <1>0, <1>15, <2>1 DEF RequestDies, Fault, TypeOK, MemoryType, BooksType, books
<1>16. CASE Heartbeat(r)
  <2>1. now + Interval \in Nat /\ now + TTL \in Nat
    BY <1>0, LedgerConstants DEF Interval
  <2>2. req' \in [Requests -> RequestType]
    BY <1>0, <1>16, <2>1 DEF Heartbeat, MemoryType, RequestType
  <2>3. sess' \in [Requests -> SessionType]
    BY <1>0, <1>16, <2>1 DEF Heartbeat, BooksType, SessionType
  <2> QED
    BY <1>0, <1>16, <2>2, <2>3 DEF Heartbeat, TypeOK, MemoryType, BooksType
<1>17. CASE PreConsumeZero(r)
  <2>1. BooksType'
    BY <1>0, <1>17, ZeroStepType DEF PreConsumeZero, ZeroStep
  <2>2. req' \in [Requests -> RequestType]
    BY <1>0, <1>17 DEF PreConsumeZero, MemoryType, RequestType
  <2> QED
    BY <1>0, <1>17, <2>1, <2>2 DEF PreConsumeZero, TypeOK, MemoryType
<1>18. CASE CommitZero(r)
  <2>1. BooksType'
    BY <1>0, <1>18, ZeroStepType DEF CommitZero, ZeroStep
  <2>2. now + Interval \in Nat
    BY <1>0, LedgerConstants DEF Interval
  <2>3. [pc |-> "active", pre |-> 0, cached |-> 0, actual |-> 0,
         beat |-> IF r \in Relayed THEN now + Interval ELSE 0] \in RequestType
    BY <2>2 DEF RequestType
  <2>4. req' \in [Requests -> RequestType]
    BY <1>0, <1>18, <2>3 DEF CommitZero, Begin, MemoryType
  <2> QED
    BY <1>0, <1>18, <2>1, <2>4 DEF CommitZero, TypeOK, MemoryType
<1>19. CASE CommitZeroFails(r)
  <2>1. BooksType'
    BY <1>0, <1>19, ZeroStepType DEF CommitZeroFails, ZeroStep
  <2>2. req' \in [Requests -> RequestType]
    BY <1>0, <1>19, OverType DEF CommitZeroFails
  <2> QED
    BY <1>0, <1>19, <2>1, <2>2 DEF CommitZeroFails, Fault, TypeOK, MemoryType
<1> QED
  BY <1>2, <1>3, <1>4, <1>5, <1>6, <1>7, <1>9, <1>10, <1>11, <1>12, <1>13, <1>14, <1>15, <1>16,
     <1>17, <1>18, <1>19
  DEF RequestStep

\* A step of the repair task keeps the types.
LEMMA RepairStepType ==
  ASSUME TypeOK, NEW w \in Repairers, RepairWork(w) \/ RepairFault(w)
  PROVE  TypeOK'
<1>0. /\ BooksType /\ MemoryType /\ now \in Nat /\ admin \in Nat /\ faults \in Nat
      /\ rep[w] \in RepairType
  BY DEF TypeOK, MemoryType
<1>1. CASE RepairScan(w)
  <2> DEFINE found == {r \in Requests : Claimable(sess[r], now)}
  <2>1. [NoRepair EXCEPT !.at = now, !.cand = found] \in RepairType
    BY <1>0 DEF NoRepair, RepairType
  <2>2. rep' \in [Repairers -> RepairType]
    BY <1>0, <1>1, <2>1, PassType DEF RepairScan
  <2> QED
    BY <1>0, <1>1, <2>2 DEF RepairScan, TypeOK, MemoryType, BooksType, books
<1>2. ASSUME NEW r \in Requests, RepairClaim(w, r) PROVE TypeOK'
  <2>1. rep[w].at \in Nat /\ rep[w].at + Lease \in Nat
    BY <1>0, LedgerConstants DEF RepairType
  <2>2. sess' \in [Requests -> SessionType]
    BY <1>0, <1>2, <2>1 DEF RepairClaim, BooksType, SessionType
  <2>3. /\ [rep[w] EXCEPT !.cand = @ \ {r}, !.claimed = @ \cup {r}] \in RepairType
        /\ [rep[w] EXCEPT !.cand = @ \ {r}] \in RepairType
    BY <1>0 DEF RepairType
  <2>4. rep' \in [Repairers -> RepairType]
    BY <1>0, <1>2, <2>3, PassType DEF RepairClaim
  <2> QED
    BY <1>0, <1>2, <2>2, <2>4 DEF RepairClaim, TypeOK, MemoryType, BooksType
<1>3. ASSUME NEW r \in Requests, RepairReread(w, r) PROVE TypeOK'
  <2>1. [rep[w] EXCEPT !.claimed = @ \ {r},
           !.picked = IF sess[r].status = "repairing" THEN {r} ELSE {}] \in RepairType
    BY <1>0 DEF RepairType
  <2>2. rep' \in [Repairers -> RepairType]
    BY <1>0, <1>3, <2>1, PassType DEF RepairReread
  <2> QED
    BY <1>0, <1>3, <2>2 DEF RepairReread, TypeOK, MemoryType, BooksType, books
<1>4. ASSUME NEW r \in Requests, RepairRefund(w, r) PROVE TypeOK'
  <2>1. BooksType'
    BY <1>0, <1>4, RefundType DEF RepairRefund
  <2>2. [rep[w] EXCEPT !.picked = {}] \in RepairType
    BY <1>0 DEF RepairType
  <2>3. rep' \in [Repairers -> RepairType]
    BY <1>0, <1>4, <2>2, PassType DEF RepairRefund
  <2> QED
    BY <1>0, <1>4, <2>1, <2>3 DEF RepairRefund, TypeOK, MemoryType
<1>5. ASSUME NEW r \in Requests, RepairMarkFailed(w, r) PROVE TypeOK'
  <2>1. rep[w].at + Lease \in Nat
    BY <1>0, LedgerConstants DEF RepairType
  <2>2. sess' \in [Requests -> SessionType]
    <3>1. [sess[r] EXCEPT !.status = "failed", !.exp = rep[w].at + Lease] \in SessionType
      BY <1>0, <2>1 DEF BooksType, SessionType
    <3>2. \/ sess' = sess
          \/ sess' = [sess EXCEPT ![r] =
                        [sess[r] EXCEPT !.status = "failed", !.exp = rep[w].at + Lease]]
      BY <1>0, <1>5 DEF RepairMarkFailed, BooksType
    <3> QED
      BY <1>0, <3>1, <3>2 DEF BooksType
  <2>3. [rep[w] EXCEPT !.failing = {}] \in RepairType
    BY <1>0 DEF RepairType
  <2>4. rep' \in [Repairers -> RepairType]
    BY <1>0, <1>5, <2>3, PassType DEF RepairMarkFailed
  <2> QED
    BY <1>0, <1>5, <2>2, <2>4 DEF RepairMarkFailed, TypeOK, MemoryType, BooksType
<1>6. CASE RepairAbandon(w)
  <2>1. rep' \in [Repairers -> RepairType]
    <3>1. NoRepair \in RepairType
      BY DEF RepairType, NoRepair
    <3> QED
      BY <1>0, <1>6, <3>1 DEF RepairAbandon, MemoryType
  <2> QED
    BY <1>0, <1>6, <2>1 DEF RepairAbandon, Fault, TypeOK, MemoryType, BooksType, books
<1>7. ASSUME NEW r \in Requests, RepairRefundFails(w, r) PROVE TypeOK'
  <2>1. BooksType'
    BY <1>0, <1>7, RefundType DEF RepairRefundFails, BooksType, books
  <2>2. [rep[w] EXCEPT !.picked = {}, !.failing = {r}] \in RepairType
    BY <1>0 DEF RepairType
  <2>3. rep' \in [Repairers -> RepairType]
    BY <1>0, <1>7, <2>2, PassType DEF RepairRefundFails
  <2> QED
    BY <1>0, <1>7, <2>1, <2>3 DEF RepairRefundFails, Fault, TypeOK, MemoryType
<1> QED
  BY <1>1, <1>2, <1>3, <1>4, <1>5, <1>6, <1>7 DEF RepairWork, RepairFault

\* ConsumeDirect, forwards or backwards, keeps the types.
LEMMA ConsumeDirectType ==
  ASSUME TypeOK, NEW m \in Members, NEW q \in Int, ConsumeDirect(m, q)
  PROVE  TypeOK'
<1> DEFINE taken == IF token.unlimited THEN 0 ELSE q
<1>0. /\ BooksType /\ MemoryType /\ now \in Nat /\ admin \in Nat /\ faults \in Nat
  BY DEF TypeOK, MemoryType
<1>1. org' \in OrgType
  BY <1>0, UseOrgType DEF ConsumeDirect
<1>2. member' \in [Members -> MemberType]
  BY <1>0, UseMemberType DEF ConsumeDirect
<1>3. token' \in TokenType
  <2>1. token.remain - taken \in Nat /\ Floor(token.used + q) \in Nat
    BY <1>0, FloorType DEF ConsumeDirect, BooksType, TokenType
  <2>2. token' = [token EXCEPT !.remain = token.remain - taken, !.used = Floor(token.used + q)]
    BY DEF ConsumeDirect
  <2> QED
    BY <1>0, <2>1, <2>2 DEF BooksType, TokenType
<1>4. direct' \in [of : [Members -> Nat], tok : Int, tokUsed : Nat]
  <2>1. /\ direct.of[m] + q \in Nat /\ direct.tokUsed + q \in Nat /\ direct.tok + taken \in Int
        /\ direct.of \in [Members -> Nat]
    BY <1>0 DEF ConsumeDirect, MemoryType
  <2>2. direct' = [of |-> [direct.of EXCEPT ![m] = direct.of[m] + q],
                   tok |-> direct.tok + taken, tokUsed |-> direct.tokUsed + q]
    BY DEF ConsumeDirect
  <2> QED
    BY <2>1, <2>2
<1> QED
  BY <1>0, <1>1, <1>2, <1>3, <1>4
  DEF ConsumeDirect, AdminStep, TypeOK, BooksType, MemoryType

\* An administrator's step keeps the types.
LEMMA AdminActionType ==
  ASSUME TypeOK, AdminAction
  PROVE  TypeOK'
<1>0. /\ BooksType /\ MemoryType /\ now \in Nat /\ admin \in Nat /\ faults \in Nat
      /\ org \in OrgType /\ token \in TokenType
  BY DEF TypeOK, MemoryType, BooksType
<1>1. ASSUME NEW d \in Adjustments, AdjustQuota(d) PROVE TypeOK'
  <2>1. org.quota + d \in Nat
    BY <1>0, <1>1, LedgerConstants DEF AdjustQuota, OrgType
  <2>2. org' \in OrgType
    BY <1>0, <1>1, <2>1 DEF AdjustQuota, OrgType
  <2> QED
    BY <1>0, <1>1, <2>2 DEF AdjustQuota, AdminStep, TypeOK, BooksType, MemoryType
<1>2. ASSUME NEW source \in {"self", "platform"}, NEW disable \in BOOLEAN,
             SetStatus(source, disable)
      PROVE  TypeOK'
  <2>1. org' \in OrgType
    BY <1>0, <1>2 DEF SetStatus, OrgType
  <2> QED
    BY <1>0, <1>2, <2>1 DEF SetStatus, AdminStep, TypeOK, BooksType, MemoryType
<1>3. CASE Dissolve
  <2>1. org' \in OrgType
    BY <1>0, <1>3 DEF Dissolve, OrgType
  <2> QED
    BY <1>0, <1>3, <2>1 DEF Dissolve, AdminStep, TypeOK, BooksType, MemoryType
<1>4. CASE DeleteToken
  <2>1. token' \in TokenType
    BY <1>0, <1>4 DEF DeleteToken, TokenType
  <2> QED
    BY <1>0, <1>4, <2>1 DEF DeleteToken, AdminStep, TypeOK, BooksType, MemoryType
<1>5. ASSUME NEW unlimited \in BOOLEAN, NEW remain \in Amounts, EditToken(unlimited, remain)
      PROVE  TypeOK'
  <2>1. remain \in Nat /\ direct.tok + token.remain - remain \in Int
    BY <1>0, LedgerConstants DEF MemoryType, TokenType
  <2>2. token' \in TokenType
    BY <1>0, <1>5, <2>1 DEF EditToken, TokenType
  <2>3. direct' \in [of : [Members -> Nat], tok : Int, tokUsed : Nat]
    BY <1>0, <1>5, <2>1 DEF EditToken, MemoryType
  <2> QED
    BY <1>0, <1>5, <2>2, <2>3 DEF EditToken, AdminStep, TypeOK, BooksType, MemoryType
<1>6. ASSUME NEW m \in Members, DeleteMemberRow(m) PROVE TypeOK'
  <2>1. member' \in [Members -> MemberType]
    BY <1>0, <1>6 DEF DeleteMemberRow, BooksType, MemberType
  <2> QED
    BY <1>0, <1>6, <2>1 DEF DeleteMemberRow, AdminStep, TypeOK, BooksType, MemoryType
<1>7. ASSUME NEW m \in Members, NEW a \in Amounts, ConsumeDirect(m, a) \/ ConsumeDirect(m, -a)
      PROVE  TypeOK'
  <2>1. a \in Int /\ -a \in Int
    BY LedgerConstants
  <2> QED
    BY <1>7, <2>1, ConsumeDirectType
<1> QED
  BY <1>1, <1>2, <1>3, <1>4, <1>5, <1>6, <1>7 DEF AdminAction

\* Every step keeps the types.
LEMMA TypeStep == TypeOK /\ [Next]_vars => TypeOK'
<1> SUFFICES ASSUME TypeOK, [Next]_vars PROVE TypeOK'
  OBVIOUS
<1>1. CASE UNCHANGED vars
  BY <1>1 DEF vars, TypeOK, BooksType, MemoryType
<1>2. CASE Tick
  BY <1>2 DEF Tick, books, TypeOK, BooksType, MemoryType
<1> QED
  BY <1>1, <1>2, RequestStepType, RepairStepType, AdminActionType DEF Next

\* Type correctness of the ledger: whatever the interleaving, no counter of the books
\* becomes negative and every row keeps its type.
THEOREM TypeCorrect == Spec => []TypeOK
  BY TypeInit, TypeStep, PTL DEF Spec

(***************************************************************************)
(* Every step, seen from the session rows.                                 *)
(***************************************************************************)

\* A heartbeat, a claim or a failure mark: an open session stays open, its lease moves.
Relabel(r) ==
  /\ sess[r].status \in Open
  /\ \E status \in Open, hb \in Nat, exp \in Nat :
       sess' = [sess EXCEPT ![r] = [sess[r] EXCEPT !.status = status, !.hb = hb, !.exp = exp]]
  /\ UNCHANGED <<org, member, token, records>>

SessionStep(r) ==
  \/ \E a \in Nat : PreConsumeTx(r, a) \/ ReserveMoreTx(r, a)
  \/ \E a \in Int : SettleTx(r, a)
  \/ RefundTx(r)
  \/ Relabel(r)
  \/ ZeroStep(r)

\* A step of a request is one transaction on its own session, or leaves the books alone.
LEMMA RequestStepShape ==
  ASSUME TypeOK, NEW r \in Requests, RequestStep(r)
  PROVE  SessionStep(r) \/ UNCHANGED books
<1>0. now \in Nat /\ sess[r] \in SessionType /\ sess \in [Requests -> SessionType]
  BY DEF TypeOK, MemoryType, BooksType
<1>1. \A a \in Amounts : a \in Nat /\ SettleTarget(r, a) \in Int /\ a - req[r].pre \in Int
  <2>1. req[r].pre \in Nat /\ req[r].cached \in Nat
    BY DEF TypeOK, MemoryType, RequestType
  <2>2. Amounts \subseteq Nat
    BY LedgerConstants
  <2>3. ASSUME NEW p \in Nat, NEW c \in Nat, NEW a \in Nat
        PROVE  c + (a - p) \in Int /\ a - p \in Int
    OBVIOUS
  <2> QED
    BY <2>1, <2>2, <2>3 DEF SettleTarget
<1>2. ASSUME NEW a \in Amounts,
             PreConsume(r, a) \/ PreConsumeRefused(r, a) \/ PreConsumeReplyLost(r, a)
      PROVE  SessionStep(r) \/ UNCHANGED books
  BY <1>1, <1>2 DEF PreConsume, PreConsumeRefused, PreConsumeReplyLost, SessionStep
<1>3. ASSUME NEW a \in Amounts,
             Reserve(r, a) \/ ReserveRefused(r, a) \/ ReserveReplyLost(r, a)
      PROVE  SessionStep(r) \/ UNCHANGED books
  <2>1. CASE ReserveMoreTx(r, a - req[r].pre) /\ a - req[r].pre > 0
    <3>1. a - req[r].pre \in Nat
      BY <1>1, <2>1
    <3> QED
      BY <2>1, <3>1 DEF SessionStep
  <2> QED
    BY <1>3, <2>1 DEF Reserve, ReserveRefused, ReserveReplyLost
<1>4. ASSUME NEW a \in Amounts, Settle(r, a) \/ SettleFails(r, a) \/ SettleReplyLost(r, a)
      PROVE  SessionStep(r) \/ UNCHANGED books
  BY <1>1, <1>4 DEF Settle, SettleFails, SettleReplyLost, SessionStep
<1>5. CASE ReturnUnsettled(r) \/ Abort(r) \/ BackgroundRefund(r) \/ RequestDies(r)
  BY <1>5 DEF ReturnUnsettled, Abort, BackgroundRefund, RequestDies, RefundWithToken, SessionStep
<1>6. CASE Heartbeat(r)
  <2>1. CASE sess[r].status = "pre_consumed"
    <3>1. sess' = [sess EXCEPT ![r] =
             [sess[r] EXCEPT !.status = "pre_consumed", !.hb = now, !.exp = now + TTL]]
      BY <1>0, <1>6, <2>1 DEF Heartbeat, SessionType
    <3>2. now + TTL \in Nat
      BY <1>0, LedgerConstants
    <3> QED
      BY <1>0, <1>6, <2>1, <3>1, <3>2 DEF Heartbeat, SessionStep, Relabel, Open
  <2>2. CASE sess[r].status # "pre_consumed"
    BY <1>6, <2>2 DEF Heartbeat, books
  <2> QED
    BY <2>1, <2>2
<1>7. CASE PreConsumeZero(r) \/ CommitZero(r) \/ CommitZeroFails(r)
  BY <1>7 DEF PreConsumeZero, CommitZero, CommitZeroFails, SessionStep, ZeroStep
<1> QED
  BY <1>2, <1>3, <1>4, <1>5, <1>6, <1>7 DEF RequestStep

\* A step of the repair task is a refund or a change of the lease of one session.
LEMMA RepairStepShape ==
  ASSUME TypeOK, NEW w \in Repairers, RepairWork(w) \/ RepairFault(w)
  PROVE  (\E r \in Requests : SessionStep(r)) \/ UNCHANGED books
<1>0. /\ rep[w].at \in Nat /\ rep[w].at + Lease \in Nat
      /\ sess \in [Requests -> SessionType]
  BY LedgerConstants DEF TypeOK, MemoryType, BooksType, RepairType
<1>1. CASE RepairScan(w) \/ RepairAbandon(w)
  BY <1>1 DEF RepairScan, RepairAbandon
<1>2. ASSUME NEW r \in Requests, RepairClaim(w, r)
      PROVE  SessionStep(r) \/ UNCHANGED books
  <2>1. CASE Claimable(sess[r], rep[w].at)
    <3>1. sess' = [sess EXCEPT ![r] =
             [sess[r] EXCEPT !.status = "repairing", !.hb = rep[w].at, !.exp = rep[w].at + Lease]]
      BY <1>0, <1>2, <2>1 DEF RepairClaim, SessionType
    <3> QED
      BY <1>0, <1>2, <2>1, <3>1 DEF RepairClaim, Claimable, SessionStep, Relabel, Open
  <2>2. CASE ~Claimable(sess[r], rep[w].at)
    BY <1>2, <2>2 DEF RepairClaim, books
  <2> QED
    BY <2>1, <2>2
<1>3. ASSUME NEW r \in Requests,
             RepairReread(w, r) \/ RepairRefund(w, r) \/ RepairRefundFails(w, r)
      PROVE  SessionStep(r) \/ UNCHANGED books
  BY <1>3 DEF RepairReread, RepairRefund, RepairRefundFails, RefundWithToken, SessionStep
<1>4. ASSUME NEW r \in Requests, RepairMarkFailed(w, r)
      PROVE  SessionStep(r) \/ UNCHANGED books
  <2>1. CASE sess[r].status = "repairing"
    <3>1. sess' = [sess EXCEPT ![r] =
             [sess[r] EXCEPT !.status = "failed", !.hb = sess[r].hb, !.exp = rep[w].at + Lease]]
      BY <1>0, <1>4, <2>1 DEF RepairMarkFailed, SessionType
    <3>2. sess[r].hb \in Nat
      BY <1>0 DEF SessionType
    <3> QED
      BY <1>0, <1>4, <2>1, <3>1, <3>2 DEF RepairMarkFailed, SessionStep, Relabel, Open
  <2>2. CASE sess[r].status # "repairing"
    BY <1>4, <2>2 DEF RepairMarkFailed, books
  <2> QED
    BY <2>1, <2>2
<1> QED
  BY <1>1, <1>2, <1>3, <1>4 DEF RepairWork, RepairFault

\* Every step is a step on one session, an administrator's, or leaves the books alone.
LEMMA StepShape ==
  ASSUME TypeOK, [Next]_vars
  PROVE  (\E r \in Requests : SessionStep(r)) \/ AdminAction \/ UNCHANGED books
  BY RequestStepShape, RepairStepShape DEF Next, Tick, vars, books

\* An administrator touches no session and no record.
LEMMA AdminLeavesSessions == ASSUME AdminAction PROVE UNCHANGED <<sess, records>>
  BY DEF AdminAction, AdjustQuota, SetStatus, Dissolve, DeleteToken, EditToken,
         DeleteMemberRow, ConsumeDirect

(***************************************************************************)
(* The session invariants: the two books agree, refunds happen once, the   *)
(* record keys are free.                                                   *)
(***************************************************************************)

\* Book takes one record key, and leaves every other free or taken as it was.
LEMMA BookTakesOneKey ==
  ASSUME NEW type, NEW r, NEW at, NEW delta, NEW usage, Book(type, r, at, delta, usage),
         NEW t, NEW q, NEW k
  PROVE  RecordKeyFree(t, q, k)' <=>
           RecordKeyFree(t, q, k) /\ ~(t = type /\ q = r /\ k = at)
<1> DEFINE new == [type |-> type, req |-> r, at |-> at, delta |-> delta, usage |-> usage]
<1>1. records' = records \cup {new}
  BY DEF Book
<1>2. new.type = type /\ new.req = r /\ new.at = at
  OBVIOUS
<1> HIDE DEF new
<1> QED
  BY <1>1, <1>2, Zenon DEF RecordKeyFree

\* Record keys of the settle and refund kind, before and after a step that books nothing.
LEMMA SameKeys ==
  ASSUME UNCHANGED records, NEW t, NEW q, NEW k
  PROVE  RecordKeyFree(t, q, k)' <=> RecordKeyFree(t, q, k)
  BY DEF RecordKeyFree

\* PreConsumeWithToken: the new row of r, the others as they were, no settle or refund key.
LEMMA PreConsumeEffect ==
  ASSUME BooksType, NEW r \in Requests, NEW a \in Nat, PreConsumeTx(r, a)
  PROVE  /\ sess'[r].status = "pre_consumed" /\ sess'[r].pre = a
         /\ sess'[r].tok = IF r \in Playground \/ sess'[r].unl THEN 0 ELSE a
         /\ sess'[r].tok = Taken(r, a, r \notin Playground /\ token.unlimited)
         /\ sess'[r].refunded = 0 /\ sess'[r].tokRefunded = FALSE
         /\ \A q \in Requests \ {r} : sess'[q] = sess[q]
         /\ \A q \in Requests : /\ RecordKeyFree("settle", q, 0)' <=> RecordKeyFree("settle", q, 0)
                                /\ RecordKeyFree("refund", q, 0)' <=> RecordKeyFree("refund", q, 0)
<1> DEFINE unlimited == r \notin Playground /\ token.unlimited
<1> DEFINE new == [NoSession EXCEPT !.status = "pre_consumed", !.pre = a,
                     !.tok = Taken(r, a, unlimited), !.unl = unlimited,
                     !.hb = now, !.exp = now + TTL]
<1>1. sess' = [sess EXCEPT ![r] = new]
  BY DEF PreConsumeTx, NewSession
<1>2. sess'[r] = new /\ \A q \in Requests \ {r} : sess'[q] = sess[q]
  BY <1>1 DEF BooksType
<1>3. /\ new.status = "pre_consumed" /\ new.pre = a /\ new.tok = Taken(r, a, unlimited)
      /\ new.unl = unlimited /\ new.refunded = 0 /\ new.tokRefunded = FALSE
  BY DEF NoSession
<1>4. Taken(r, a, unlimited) = IF r \in Playground \/ unlimited THEN 0 ELSE a
  BY DEF Taken
<1>5. \A q \in Requests : /\ RecordKeyFree("settle", q, 0)' <=> RecordKeyFree("settle", q, 0)
                          /\ RecordKeyFree("refund", q, 0)' <=> RecordKeyFree("refund", q, 0)
  <2>1. Book("pre_consume", r, 0, a, 0)
    BY DEF PreConsumeTx
  <2>2. "pre_consume" # "settle" /\ "pre_consume" # "refund"
    OBVIOUS
  <2> QED
    BY <2>1, <2>2, BookTakesOneKey
<1>6. Taken(r, a, unlimited) = Taken(r, a, r \notin Playground /\ token.unlimited)
  OBVIOUS
<1> HIDE DEF new, unlimited
<1> QED
  BY <1>2, <1>3, <1>4, <1>5, <1>6

\* ReserveMoreWithToken: pre and tok grow, nothing else that the invariants mention.
LEMMA ReserveEffect ==
  ASSUME BooksType, NEW r \in Requests, NEW a \in Nat, ReserveMoreTx(r, a)
  PROVE  /\ sess[r].status \in Open /\ sess'[r].status = sess[r].status
         /\ sess'[r].pre = sess[r].pre + a /\ sess'[r].unl = sess[r].unl
         /\ sess'[r].tok = sess[r].tok + (IF r \in Playground \/ sess[r].unl THEN 0 ELSE a)
         /\ sess'[r].refunded = sess[r].refunded /\ sess'[r].tokRefunded = sess[r].tokRefunded
         /\ \A q \in Requests \ {r} : sess'[q] = sess[q]
         /\ \A q \in Requests : /\ RecordKeyFree("settle", q, 0)' <=> RecordKeyFree("settle", q, 0)
                                /\ RecordKeyFree("refund", q, 0)' <=> RecordKeyFree("refund", q, 0)
<1> DEFINE new == [sess[r] EXCEPT !.pre = sess[r].pre + a,
                     !.tok = sess[r].tok + Taken(r, a, sess[r].unl),
                     !.hb = now, !.exp = now + TTL]
<1>1. sess' = [sess EXCEPT ![r] = new] /\ sess[r] \in SessionType
  BY DEF ReserveMoreTx, BooksType
<1>2. sess'[r] = new /\ \A q \in Requests \ {r} : sess'[q] = sess[q]
  BY <1>1 DEF BooksType
<1>3. /\ new.status = sess[r].status /\ new.pre = sess[r].pre + a /\ new.unl = sess[r].unl
      /\ new.tok = sess[r].tok + Taken(r, a, sess[r].unl)
      /\ new.refunded = sess[r].refunded /\ new.tokRefunded = sess[r].tokRefunded
  BY <1>1 DEF SessionType
<1>4. Taken(r, a, sess[r].unl) = IF r \in Playground \/ sess[r].unl THEN 0 ELSE a
  BY DEF Taken
<1>5. \A q \in Requests : /\ RecordKeyFree("settle", q, 0)' <=> RecordKeyFree("settle", q, 0)
                          /\ RecordKeyFree("refund", q, 0)' <=> RecordKeyFree("refund", q, 0)
  <2>1. Book("reserve", r, sess[r].pre + a, a, 0)
    BY DEF ReserveMoreTx
  <2>2. "reserve" # "settle" /\ "reserve" # "refund"
    OBVIOUS
  <2> QED
    BY <2>1, <2>2, BookTakesOneKey
<1>6. sess[r].status \in Open
  BY DEF ReserveMoreTx, Open
<1> HIDE DEF new
<1> QED
  BY <1>2, <1>3, <1>4, <1>5, <1>6

\* settleWithTokenActual: an open session becomes settled at the actual cost, on both books.
LEMMA SettleEffect ==
  ASSUME BooksType, NEW r \in Requests, NEW a \in Int, SettleTx(r, a)
  PROVE  /\ sess[r].status \in Open /\ sess'[r].status = "settled" /\ a \in Nat
         /\ sess'[r].settled = a /\ sess'[r].unl = sess[r].unl
         /\ sess'[r].tok = Floor(sess[r].tok +
              (IF r \in Playground \/ sess[r].unl THEN 0 ELSE a - sess[r].pre))
         /\ sess'[r].refunded = sess[r].refunded /\ sess'[r].tokRefunded = sess[r].tokRefunded
         /\ \A q \in Requests \ {r} : sess'[q] = sess[q]
         /\ \A q \in Requests : /\ RecordKeyFree("settle", q, 0)' <=>
                                     RecordKeyFree("settle", q, 0) /\ q # r
                                /\ RecordKeyFree("refund", q, 0)' <=> RecordKeyFree("refund", q, 0)
<1> DEFINE tok == Floor(sess[r].tok + Taken(r, a - sess[r].pre, sess[r].unl))
<1> DEFINE new == [sess[r] EXCEPT !.status = "settled", !.settled = a, !.tok = tok]
<1>1. sess' = [sess EXCEPT ![r] = new] /\ sess[r] \in SessionType
  BY DEF SettleTx, BooksType
<1>2. sess'[r] = new /\ \A q \in Requests \ {r} : sess'[q] = sess[q]
  BY <1>1 DEF BooksType
<1>3. /\ new.status = "settled" /\ new.settled = a /\ new.unl = sess[r].unl /\ new.tok = tok
      /\ new.refunded = sess[r].refunded /\ new.tokRefunded = sess[r].tokRefunded
  BY <1>1 DEF SessionType
<1>4. tok = Floor(sess[r].tok +
              (IF r \in Playground \/ sess[r].unl THEN 0 ELSE a - sess[r].pre))
  BY DEF Taken
<1>5. \A q \in Requests : /\ RecordKeyFree("settle", q, 0)' <=>
                               RecordKeyFree("settle", q, 0) /\ q # r
                          /\ RecordKeyFree("refund", q, 0)' <=> RecordKeyFree("refund", q, 0)
  <2>1. Book("settle", r, 0, a - sess[r].pre, a)
    BY DEF SettleTx
  <2>2. "settle" # "refund"
    OBVIOUS
  <2> QED
    BY <2>1, <2>2, BookTakesOneKey
<1>6. sess[r].status \in Open /\ a \in Nat
  BY DEF SettleTx, SettleAdmits
<1> HIDE DEF new, tok
<1> QED
  BY <1>2, <1>3, <1>4, <1>5, <1>6

\* RefundWithToken on a session that is not refunded yet.
LEMMA RefundEffect ==
  ASSUME BooksType, NEW r \in Requests, RefundTx(r)
  PROVE  /\ sess[r].status \in Open \cup {"settled"} /\ sess'[r].status = "refunded"
         /\ sess'[r].unl = sess[r].unl /\ sess'[r].tokRefunded = TRUE
         /\ sess'[r].pre = sess[r].pre /\ sess'[r].settled = sess[r].settled
         /\ sess'[r].refunded = sess[r].refunded + RefundAmount(sess[r])
         /\ sess'[r].tok = Floor(sess[r].tok - Taken(r, TokenRefund(sess[r]), sess[r].unl))
         /\ \A q \in Requests \ {r} : sess'[q] = sess[q]
         /\ \A q \in Requests : /\ RecordKeyFree("settle", q, 0)' <=> RecordKeyFree("settle", q, 0)
                                /\ RecordKeyFree("refund", q, 0)' <=>
                                     RecordKeyFree("refund", q, 0) /\ q # r
<1> DEFINE tok == Floor(sess[r].tok - Taken(r, TokenRefund(sess[r]), sess[r].unl))
<1> DEFINE amount == sess[r].refunded + RefundAmount(sess[r])
<1> DEFINE new == [sess[r] EXCEPT !.status = "refunded", !.refunded = amount,
                                  !.tok = tok, !.tokRefunded = TRUE]
<1>1. sess' = [sess EXCEPT ![r] = new] /\ sess[r] \in SessionType
  BY DEF RefundTx, BooksType
<1>2. sess'[r] = new /\ \A q \in Requests \ {r} : sess'[q] = sess[q]
  BY <1>1 DEF BooksType
<1>3. /\ new.status = "refunded" /\ new.unl = sess[r].unl /\ new.tokRefunded = TRUE
      /\ new.pre = sess[r].pre /\ new.settled = sess[r].settled
      /\ new.refunded = amount /\ new.tok = tok
  BY <1>1 DEF SessionType
<1>4. \A q \in Requests : /\ RecordKeyFree("settle", q, 0)' <=> RecordKeyFree("settle", q, 0)
                          /\ RecordKeyFree("refund", q, 0)' <=>
                               RecordKeyFree("refund", q, 0) /\ q # r
  <2>1. PICK delta, usage : Book("refund", r, 0, delta, usage)
    BY DEF RefundTx
  <2>2. "settle" # "refund"
    OBVIOUS
  <2> QED
    BY <2>1, <2>2, BookTakesOneKey
<1>5. sess[r].status \in Open \cup {"settled"}
  BY DEF RefundTx
<1> HIDE DEF new
<1> QED
  BY <1>2, <1>3, <1>4, <1>5

\* A change of the lease moves nothing the invariants mention, except between open states.
LEMMA RelabelEffect ==
  ASSUME BooksType, NEW r \in Requests, Relabel(r)
  PROVE  /\ sess[r].status \in Open /\ sess'[r].status \in Open
         /\ sess'[r].pre = sess[r].pre /\ sess'[r].tok = sess[r].tok
         /\ sess'[r].unl = sess[r].unl /\ sess'[r].tokRefunded = sess[r].tokRefunded
         /\ sess'[r].refunded = sess[r].refunded /\ UNCHANGED records
         /\ \A q \in Requests \ {r} : sess'[q] = sess[q]
<1>1. PICK status \in Open, hb \in Nat, exp \in Nat :
        sess' = [sess EXCEPT ![r] = [sess[r] EXCEPT !.status = status, !.hb = hb, !.exp = exp]]
  BY DEF Relabel
<1> DEFINE new == [sess[r] EXCEPT !.status = status, !.hb = hb, !.exp = exp]
<1>2. sess[r] \in SessionType
  BY DEF BooksType
<1>3. sess'[r] = new /\ \A q \in Requests \ {r} : sess'[q] = sess[q]
  BY <1>1 DEF BooksType
<1>4. /\ new.status = status /\ new.pre = sess[r].pre /\ new.tok = sess[r].tok
      /\ new.unl = sess[r].unl /\ new.tokRefunded = sess[r].tokRefunded
      /\ new.refunded = sess[r].refunded
  BY <1>2 DEF SessionType
<1> HIDE DEF new
<1> QED
  BY <1>3, <1>4 DEF Relabel

\* A row that nobody can see holds nothing.
UnopenedIsEmpty == \A r \in Requests : sess[r].status \in Unopened => sess[r].pre = 0

SessionInv == BooksAgree /\ RefundedOnce /\ KeysFree /\ UnopenedIsEmpty

\* The row of a pre-consumption of zero: it holds nothing before, between and after, and
\* no book moves.
LEMMA ZeroEffect ==
  ASSUME TypeOK, SessionInv, NEW r \in Requests, ZeroStep(r)
  PROVE  /\ sess[r].status \in Unopened /\ sess[r].pre = 0 /\ sess[r].tok = 0
         /\ sess'[r].status \in Unopened \cup {"pre_consumed"}
         /\ sess'[r].pre = 0 /\ sess'[r].tok = 0
         /\ sess'[r].refunded = 0 /\ sess'[r].tokRefunded = FALSE
         /\ UNCHANGED <<org, member, token, records>>
         /\ \A q \in Requests \ {r} : sess'[q] = sess[q]
<1>0. BooksType /\ now \in Nat /\ sess[r] \in SessionType
  BY DEF TypeOK, BooksType, MemoryType
<1>1. /\ sess[r].status \in Unopened /\ UNCHANGED <<org, member, token, records>>
      /\ \A q \in Requests \ {r} : sess'[q] = sess[q]
  BY <1>0 DEF ZeroStep, PreConsumeZeroTx, CommitZeroTx, RollbackZeroTx, Unopened, BooksType
<1>2. /\ sess[r].pre = 0 /\ sess[r].tok = 0
      /\ sess[r].refunded = 0 /\ sess[r].tokRefunded = FALSE
  <2>1. Hold(sess[r]) = 0 /\ sess[r].status # "refunded"
    BY <1>1 DEF Hold, Open, Unopened
  <2>2. sess[r].tok = 0
    BY <2>1 DEF SessionInv, BooksAgree
  <2>3. sess[r].refunded = 0 /\ ~sess[r].tokRefunded /\ sess[r].tokRefunded \in BOOLEAN
    BY <1>0, <2>1 DEF SessionInv, RefundedOnce, SessionType
  <2> QED
    BY <1>1, <2>2, <2>3 DEF SessionInv, UnopenedIsEmpty
<1>3. CASE PreConsumeZeroTx(r)
  <2>1. sess'[r] = NewSession(r, 0, "uncommitted")
    BY <1>0, <1>3 DEF PreConsumeZeroTx, BooksType
  <2> QED
    BY <1>0, <1>1, <1>2, <2>1, ZeroRow DEF Unopened
<1>4. CASE CommitZeroTx(r)
  <2>1. sess'[r] = [sess[r] EXCEPT !.status = "pre_consumed"]
    BY <1>0, <1>4 DEF CommitZeroTx, BooksType
  <2>2. /\ sess'[r].status = "pre_consumed" /\ sess'[r].pre = sess[r].pre
        /\ sess'[r].tok = sess[r].tok /\ sess'[r].refunded = sess[r].refunded
        /\ sess'[r].tokRefunded = sess[r].tokRefunded
    BY <1>0, <2>1 DEF SessionType
  <2> QED
    BY <1>1, <1>2, <2>2
<1>5. CASE RollbackZeroTx(r)
  <2>1. sess'[r] = NoSession
    BY <1>0, <1>5 DEF RollbackZeroTx, BooksType
  <2>2. /\ sess'[r].status = "none" /\ sess'[r].pre = 0 /\ sess'[r].tok = 0
        /\ sess'[r].refunded = 0 /\ sess'[r].tokRefunded = FALSE
    BY <2>1 DEF NoSession
  <2> QED
    BY <1>1, <1>2, <2>2 DEF Unopened
<1> QED
  BY <1>3, <1>4, <1>5 DEF ZeroStep

\* BooksAgree after a step on the session of r alone.
LEMMA AgreeFrame ==
  ASSUME BooksAgree, NEW r \in Requests, \A q \in Requests \ {r} : sess'[q] = sess[q],
         sess'[r].tok = IF r \in Playground \/ sess'[r].unl THEN 0 ELSE Hold(sess'[r])
  PROVE  BooksAgree'
<1>1. SUFFICES ASSUME NEW q \in Requests
               PROVE  sess'[q].tok = IF q \in Playground \/ sess'[q].unl THEN 0 ELSE Hold(sess'[q])
  BY DEF BooksAgree, Hold
<1>2. CASE q = r
  BY <1>2
<1>3. CASE q # r
  BY <1>3 DEF BooksAgree
<1> QED
  BY <1>2, <1>3

\* A transaction on one session keeps the session invariants.
LEMMA SessionStepKeeps ==
  ASSUME TypeOK, SessionInv, NEW r \in Requests, SessionStep(r)
  PROVE  SessionInv'
<1>0. BooksType /\ sess[r] \in SessionType
  BY DEF TypeOK, BooksType
<1>1. /\ sess[r].pre \in Nat /\ sess[r].tok \in Nat /\ sess[r].settled \in Nat
      /\ sess[r].refunded \in Nat /\ sess[r].unl \in BOOLEAN
  BY <1>0 DEF SessionType
<1>2. ASSUME NEW a \in Nat, PreConsumeTx(r, a) PROVE BooksAgree' /\ RefundedOnce' /\ KeysFree'
  <2>0. sess[r].status = "none"
    BY <1>2 DEF PreConsumeTx
  <2>1. BooksAgree'
    <3>1. Hold(sess'[r]) = a
      BY <1>0, <1>2, PreConsumeEffect DEF Hold, Open
    <3> QED
      BY <1>0, <1>2, <3>1, PreConsumeEffect, AgreeFrame DEF SessionInv
  <2>2. RefundedOnce'
    BY <1>0, <1>2, PreConsumeEffect DEF SessionInv, RefundedOnce
  <2>3. KeysFree'
    BY <1>0, <1>2, <2>0, PreConsumeEffect DEF SessionInv, KeysFree, Open, Unopened
  <2> QED
    BY <2>1, <2>2, <2>3
<1>3. ASSUME NEW a \in Nat, ReserveMoreTx(r, a) PROVE BooksAgree' /\ RefundedOnce' /\ KeysFree'
  <2>1. BooksAgree'
    <3>1. Hold(sess'[r]) = sess[r].pre + a /\ Hold(sess[r]) = sess[r].pre
      BY <1>0, <1>3, ReserveEffect DEF Hold
    <3>2. sess[r].tok = IF r \in Playground \/ sess[r].unl THEN 0 ELSE sess[r].pre
      BY <3>1 DEF SessionInv, BooksAgree
    <3>3. sess'[r].tok = IF r \in Playground \/ sess'[r].unl THEN 0 ELSE sess[r].pre + a
      BY <1>0, <1>1, <1>3, <3>2, ReserveEffect
    <3> QED
      BY <1>0, <1>3, <3>1, <3>3, ReserveEffect, AgreeFrame DEF SessionInv
  <2>2. RefundedOnce'
    BY <1>0, <1>3, ReserveEffect DEF SessionInv, RefundedOnce, Open
  <2>3. KeysFree'
    BY <1>0, <1>3, ReserveEffect DEF SessionInv, KeysFree, Open
  <2> QED
    BY <2>1, <2>2, <2>3
<1>4. ASSUME NEW a \in Int, SettleTx(r, a) PROVE BooksAgree' /\ RefundedOnce' /\ KeysFree'
  <2>0. /\ sess[r].status \in Open /\ a \in Nat
        /\ sess[r].tok = IF r \in Playground \/ sess[r].unl THEN 0 ELSE sess[r].pre
    BY <1>0, <1>4, SettleEffect DEF SessionInv, BooksAgree, Hold
  <2>1. sess'[r].tok = IF r \in Playground \/ sess'[r].unl THEN 0 ELSE a
    BY <1>0, <1>1, <1>4, <2>0, SettleEffect DEF Floor
  <2>2. BooksAgree'
    BY <1>0, <1>4, <2>1, SettleEffect DEF SessionInv, BooksAgree, Hold, Open
  <2>3. RefundedOnce'
    BY <1>0, <1>4, <2>0, SettleEffect DEF SessionInv, RefundedOnce, Open
  <2>4. KeysFree'
    BY <1>0, <1>4, <2>0, SettleEffect DEF SessionInv, KeysFree, Open, Unopened
  <2> QED
    BY <2>2, <2>3, <2>4
<1>5. ASSUME RefundTx(r) PROVE BooksAgree' /\ RefundedOnce' /\ KeysFree'
  <2>0. /\ sess[r].status \in Open \cup {"settled"} /\ sess[r].status # "refunded"
        /\ sess[r].refunded = 0 /\ sess[r].tokRefunded = FALSE
    BY <1>0, <1>5, RefundEffect DEF SessionInv, RefundedOnce, Open, SessionType
  <2>1. RefundAmount(sess[r]) =
          IF sess[r].status = "settled" THEN sess[r].settled ELSE sess[r].pre
    BY <1>1, <2>0 DEF RefundAmount, Floor
  <2>2. sess'[r].tok = 0
    <3>1. CASE r \in Playground \/ sess[r].unl
      <4>1. sess[r].tok = 0 /\ Taken(r, TokenRefund(sess[r]), sess[r].unl) = 0
        BY <3>1 DEF SessionInv, BooksAgree, Taken
      <4>2. sess'[r].tok = Floor(0 - 0)
        BY <1>0, <1>5, <4>1, RefundEffect
      <4> QED
        BY <4>2 DEF Floor
    <3>2. CASE ~(r \in Playground \/ sess[r].unl)
      <4>1. Taken(r, TokenRefund(sess[r]), sess[r].unl) = sess[r].tok
        BY <2>0, <3>2 DEF Taken, TokenRefund
      <4>2. sess'[r].tok = Floor(sess[r].tok - sess[r].tok)
        BY <1>0, <1>5, <4>1, RefundEffect
      <4> QED
        BY <1>1, <4>2 DEF Floor
    <3> QED
      BY <3>1, <3>2
  <2>3. BooksAgree'
    <3>1. Hold(sess'[r]) = 0
      BY <1>0, <1>5, RefundEffect DEF Hold, Open
    <3>2. sess'[r].tok = IF r \in Playground \/ sess'[r].unl THEN 0 ELSE Hold(sess'[r])
      BY <2>2, <3>1
    <3>3. BooksAgree /\ \A q \in Requests \ {r} : sess'[q] = sess[q]
      BY <1>0, <1>5, RefundEffect DEF SessionInv
    <3> QED
      BY <3>2, <3>3, AgreeFrame
  <2>4. /\ sess[r].status = "settled" => ~RecordKeyFree("settle", r, 0)
        /\ sess[r].status # "settled" => RecordKeyFree("settle", r, 0)
    BY <2>0 DEF SessionInv, KeysFree
  <2>5. sess'[r].refunded =
          IF RecordKeyFree("settle", r, 0)' THEN sess'[r].pre ELSE sess'[r].settled
    <3>1. /\ sess'[r].refunded = RefundAmount(sess[r])
          /\ sess'[r].pre = sess[r].pre /\ sess'[r].settled = sess[r].settled
      <4>1. RefundAmount(sess[r]) \in Nat /\ 0 + RefundAmount(sess[r]) = RefundAmount(sess[r])
        BY <1>0, RefundAmounts
      <4> QED
        BY <1>0, <1>5, <2>0, <4>1, RefundEffect
    <3>2. RecordKeyFree("settle", r, 0)' <=> RecordKeyFree("settle", r, 0)
      BY <1>0, <1>5, RefundEffect
    <3> QED
      BY <2>1, <2>4, <3>1, <3>2
  <2>6. RefundedOnce'
    <3>1. SUFFICES ASSUME NEW q \in Requests
                   PROVE  /\ sess'[q].status # "refunded" =>
                               sess'[q].refunded = 0 /\ ~sess'[q].tokRefunded
                          /\ sess'[q].status = "refunded" =>
                               /\ sess'[q].refunded = IF RecordKeyFree("settle", q, 0)'
                                                      THEN sess'[q].pre ELSE sess'[q].settled
                               /\ sess'[q].tokRefunded
      BY DEF RefundedOnce
    <3>2. CASE q = r
      BY <1>0, <1>5, <2>5, <3>2, RefundEffect
    <3>3. CASE q # r
      <4>1. sess'[q] = sess[q] /\ (RecordKeyFree("settle", q, 0)' <=> RecordKeyFree("settle", q, 0))
        BY <1>0, <1>5, <3>3, RefundEffect
      <4> QED
        BY <4>1 DEF SessionInv, RefundedOnce
    <3> QED
      BY <3>2, <3>3
  <2>7. KeysFree'
    BY <1>0, <1>5, RefundEffect DEF SessionInv, KeysFree, Open, Unopened
  <2> QED
    BY <2>3, <2>6, <2>7
<1>6. ASSUME Relabel(r) PROVE BooksAgree' /\ RefundedOnce' /\ KeysFree'
  <2>1. BooksAgree'
    BY <1>0, <1>6, RelabelEffect DEF SessionInv, BooksAgree, Hold, Open
  <2>2. RefundedOnce'
    BY <1>0, <1>6, RelabelEffect, SameKeys DEF SessionInv, RefundedOnce, Open
  <2>3. KeysFree'
    BY <1>0, <1>6, RelabelEffect, SameKeys DEF SessionInv, KeysFree, Open
  <2> QED
    BY <2>1, <2>2, <2>3
<1>7. ASSUME ZeroStep(r) PROVE BooksAgree' /\ RefundedOnce' /\ KeysFree'
  <2>1. Hold(sess'[r]) = 0
    BY <1>7, ZeroEffect DEF Hold, Open, Unopened
  <2>2. BooksAgree'
    BY <1>7, <2>1, ZeroEffect, AgreeFrame DEF SessionInv
  <2>3. RefundedOnce'
    BY <1>7, ZeroEffect, SameKeys DEF SessionInv, RefundedOnce, Unopened
  <2>4. KeysFree'
    <3>1. RecordKeyFree("settle", r, 0) /\ RecordKeyFree("refund", r, 0)
      BY <1>7, ZeroEffect DEF SessionInv, KeysFree
    <3> QED
      BY <1>7, <3>1, ZeroEffect, SameKeys DEF SessionInv, KeysFree, Open, Unopened
  <2> QED
    BY <2>2, <2>3, <2>4
<1>8. UnopenedIsEmpty'
  <2>1. sess'[r].status \notin Unopened \/ sess'[r].pre = 0
    BY <1>0, PreConsumeEffect, ReserveEffect, SettleEffect, RefundEffect, RelabelEffect, ZeroEffect
    DEF SessionStep, Open, Unopened
  <2>2. \A q \in Requests \ {r} : sess'[q] = sess[q]
    BY <1>0, PreConsumeEffect, ReserveEffect, SettleEffect, RefundEffect, RelabelEffect, ZeroEffect
    DEF SessionStep
  <2> QED
    BY <2>1, <2>2 DEF SessionInv, UnopenedIsEmpty
<1> QED
  BY <1>2, <1>3, <1>4, <1>5, <1>6, <1>7, <1>8 DEF SessionStep, SessionInv

(***************************************************************************)
(* The organization row: quota and dissolution.                            *)
(***************************************************************************)

\* The condition of the UPDATE keeps used_quota within quota.
LEMMA UseOrgWithin ==
  ASSUME BooksType, WithinQuota, NEW delta \in Int, NEW count \in Nat, NEW active \in BOOLEAN,
         OrgAdmits(delta, active), UseOrg(delta, count)
  PROVE  WithinQuota'
<1>1. org.used \in Nat /\ org.quota \in Nat
  BY DEF BooksType, OrgType
<1>2. org'.used = Floor(org.used + delta) /\ org'.quota = org.quota
  BY UseOrgType
<1> QED
  BY <1>1, <1>2 DEF WithinQuota, OrgAdmits, Floor

\* A transaction on a session keeps used_quota within quota.
LEMMA SessionStepWithin ==
  ASSUME TypeOK, WithinQuota, NEW r \in Requests, SessionStep(r)
  PROVE  WithinQuota'
<1>0. BooksType /\ sess[r] \in SessionType /\ sess[r].pre \in Nat
  BY DEF TypeOK, BooksType, SessionType
<1>1. ASSUME NEW a \in Nat, PreConsumeTx(r, a) PROVE WithinQuota'
  <2>1. OrgAdmits(a, TRUE) /\ UseOrg(a, 0)
    BY <1>1 DEF PreConsumeTx, PreConsumeAdmits
  <2>2. a \in Int
    OBVIOUS
  <2> QED
    BY <1>0, <2>1, <2>2, UseOrgWithin
<1>2. ASSUME NEW a \in Nat, ReserveMoreTx(r, a) PROVE WithinQuota'
  <2>1. OrgAdmits(a, TRUE) /\ UseOrg(a, 0)
    BY <1>2 DEF ReserveMoreTx, ReserveAdmits
  <2>2. a \in Int
    OBVIOUS
  <2> QED
    BY <1>0, <2>1, <2>2, UseOrgWithin
<1>3. ASSUME NEW a \in Int, SettleTx(r, a) PROVE WithinQuota'
  <2> DEFINE delta == a - sess[r].pre
  <2> DEFINE count == IF a > 0 THEN 1 ELSE 0
  <2>1. OrgAdmits(delta, delta > 0) /\ UseOrg(delta, count)
    BY <1>3 DEF SettleTx, SettleAdmits
  <2>2. delta \in Int /\ count \in Nat /\ (delta > 0) \in BOOLEAN
    BY <1>0
  <2> HIDE DEF delta, count
  <2> QED
    BY <1>0, <2>1, <2>2, UseOrgWithin
<1>4. CASE RefundTx(r)
  <2> DEFINE amount == RefundAmount(sess[r])
  <2>1. amount \in Nat /\ UseOrg(-amount, 0)
    BY <1>0, <1>4, RefundAmounts DEF RefundTx
  <2> HIDE DEF amount
  <2>2. -amount \in Int /\ OrgAdmits(-amount, FALSE)
    BY <2>1 DEF OrgAdmits
  <2> QED
    BY <1>0, <2>1, <2>2, UseOrgWithin
<1>5. CASE Relabel(r)
  BY <1>5 DEF Relabel, WithinQuota
<1>6. CASE ZeroStep(r)
  BY <1>6 DEF ZeroStep, PreConsumeZeroTx, CommitZeroTx, RollbackZeroTx, WithinQuota
<1> QED
  BY <1>1, <1>2, <1>3, <1>4, <1>5, <1>6 DEF SessionStep

\* An administrator's step keeps used_quota within quota.
LEMMA AdminWithin ==
  ASSUME TypeOK, WithinQuota, AdminAction
  PROVE  WithinQuota'
<1>0. BooksType /\ org \in OrgType
  BY DEF TypeOK, BooksType
<1>1. ASSUME NEW d \in Adjustments, AdjustQuota(d) PROVE WithinQuota'
  BY <1>0, <1>1, LedgerConstants DEF AdjustQuota, OrgType, WithinQuota
<1>2. ASSUME NEW source \in {"self", "platform"}, NEW disable \in BOOLEAN,
             SetStatus(source, disable)
      PROVE  WithinQuota'
  BY <1>0, <1>2 DEF SetStatus, OrgType, WithinQuota
<1>3. CASE Dissolve
  BY <1>0, <1>3 DEF Dissolve, OrgType, WithinQuota
<1>4. ASSUME NEW m \in Members, NEW q \in Int, ConsumeDirect(m, q) PROVE WithinQuota'
  <2> DEFINE count == IF q > 0 THEN 1 ELSE 0
  <2>1. OrgAdmits(q, q > 0) /\ UseOrg(q, count) /\ count \in Nat /\ (q > 0) \in BOOLEAN
    BY <1>4 DEF ConsumeDirect
  <2> HIDE DEF count
  <2> QED
    BY <1>0, <2>1, UseOrgWithin
<1>5. \A a \in Amounts : a \in Int /\ -a \in Int
  BY LedgerConstants
<1>6. CASE UNCHANGED org
  BY <1>6 DEF WithinQuota
<1> QED
  BY <1>1, <1>2, <1>3, <1>4, <1>5, <1>6 DEF AdminAction, DeleteToken, EditToken, DeleteMemberRow

\* No step opens a session of a dissolved organization over an amount, or dissolves around
\* an open session; a session opened over nothing stays empty.
LEMMA DissolvedStep ==
  ASSUME TypeOK, SessionInv, DissolvedHoldsNothing, [Next]_vars
  PROVE  DissolvedHoldsNothing'
<1>0. BooksType
  BY DEF TypeOK
<1>1. ASSUME NEW r \in Requests, SessionStep(r) PROVE DissolvedHoldsNothing'
  <2>0. sess[r] \in SessionType /\ sess[r].pre \in Nat
    BY <1>0 DEF BooksType, SessionType
  <2>1. org'.status = org.status
    <3>1. ASSUME NEW a \in Nat, PreConsumeTx(r, a) PROVE org'.status = org.status
      BY <1>0, <3>1, UseOrgType DEF PreConsumeTx
    <3>2. ASSUME NEW a \in Nat, ReserveMoreTx(r, a) PROVE org'.status = org.status
      BY <1>0, <3>2, UseOrgType DEF ReserveMoreTx
    <3>3. ASSUME NEW a \in Int, SettleTx(r, a) PROVE org'.status = org.status
      <4>1. UseOrg(a - sess[r].pre, IF a > 0 THEN 1 ELSE 0) /\ a - sess[r].pre \in Int
        BY <2>0, <3>3 DEF SettleTx
      <4> QED
        BY <1>0, <4>1, UseOrgType
    <3>4. CASE RefundTx(r)
      <4>1. UseOrg(-RefundAmount(sess[r]), 0) /\ -RefundAmount(sess[r]) \in Int
        BY <2>0, <3>4, RefundAmounts DEF RefundTx
      <4> QED
        BY <1>0, <4>1, UseOrgType
    <3>5. CASE Relabel(r)
      BY <3>5 DEF Relabel
    <3>6. CASE ZeroStep(r)
      BY <3>6 DEF ZeroStep, PreConsumeZeroTx, CommitZeroTx, RollbackZeroTx
    <3> QED
      BY <1>1, <3>1, <3>2, <3>3, <3>4, <3>5, <3>6 DEF SessionStep
  <2>2. \/ sess'[r].status \notin Open \/ org.status = "active" \/ sess'[r].pre = 0
        \/ sess[r].status \in Open /\ sess'[r].pre = sess[r].pre
    <3>1. ASSUME NEW a \in Nat, PreConsumeTx(r, a) PROVE org.status = "active"
      BY <3>1 DEF PreConsumeTx, PreConsumeAdmits, OrgAdmits
    <3>2. ASSUME NEW a \in Nat, ReserveMoreTx(r, a) PROVE org.status = "active"
      BY <3>2 DEF ReserveMoreTx, ReserveAdmits, OrgAdmits
    <3>3. ASSUME NEW a \in Int, SettleTx(r, a) PROVE sess'[r].status \notin Open
      BY <1>0, <3>3, SettleEffect DEF Open
    <3>4. CASE RefundTx(r)
      BY <1>0, <3>4, RefundEffect DEF Open
    <3> QED
      BY <1>0, <1>1, <3>1, <3>2, <3>3, <3>4, RelabelEffect, ZeroEffect DEF SessionStep
  <2>3. \A q \in Requests \ {r} : sess'[q] = sess[q]
    BY <1>0, <1>1, PreConsumeEffect, ReserveEffect, SettleEffect, RefundEffect, RelabelEffect,
       ZeroEffect
    DEF SessionStep
  <2> QED
    BY <2>1, <2>2, <2>3 DEF DissolvedHoldsNothing
<1>2. CASE Dissolve
  BY <1>2 DEF Dissolve, DissolvedHoldsNothing
<1>3. ASSUME NEW d \in Adjustments, AdjustQuota(d) PROVE DissolvedHoldsNothing'
  BY <1>3 DEF AdjustQuota, DissolvedHoldsNothing
<1>4. ASSUME NEW source \in {"self", "platform"}, NEW disable \in BOOLEAN,
             SetStatus(source, disable)
      PROVE  DissolvedHoldsNothing'
  <2>1. org'.status # "dissolved"
    BY <1>0, <1>4 DEF SetStatus, BooksType, OrgType
  <2> QED
    BY <2>1 DEF DissolvedHoldsNothing
<1>5. ASSUME NEW m \in Members, NEW q \in Int, ConsumeDirect(m, q) PROVE DissolvedHoldsNothing'
  <2>1. UseOrg(q, IF q > 0 THEN 1 ELSE 0) /\ sess' = sess
    BY <1>5 DEF ConsumeDirect
  <2>2. org'.status = org.status
    BY <1>0, <2>1, UseOrgType
  <2> QED
    BY <2>1, <2>2 DEF DissolvedHoldsNothing
<1>6. CASE UNCHANGED <<org, sess>>
  BY <1>6 DEF DissolvedHoldsNothing
<1>7. \A a \in Amounts : a \in Int /\ -a \in Int
  BY LedgerConstants
<1>8. CASE AdminAction
  BY <1>2, <1>3, <1>4, <1>5, <1>6, <1>7, <1>8
  DEF AdminAction, DeleteToken, EditToken, DeleteMemberRow
<1> QED
  BY <1>1, <1>6, <1>8, StepShape DEF books

(***************************************************************************)
(* The theorems.                                                           *)
(***************************************************************************)

\* The inductive invariant of the ledger.
LedgerInv == TypeOK /\ WithinQuota /\ SessionInv /\ DissolvedHoldsNothing

\* Every step keeps the ledger invariant: a transaction on one session, an administrator's
\* step, or one that leaves the books alone.
LEMMA LedgerInvStep == LedgerInv /\ [Next]_vars => LedgerInv'
<1> SUFFICES ASSUME LedgerInv, [Next]_vars PROVE LedgerInv'
  OBVIOUS
<1>0. TypeOK /\ WithinQuota /\ SessionInv /\ DissolvedHoldsNothing
  BY DEF LedgerInv
<1>1. TypeOK'
  BY <1>0, TypeStep
<1>2. DissolvedHoldsNothing'
  BY <1>0, DissolvedStep
<1>3. ASSUME NEW r \in Requests, SessionStep(r) PROVE WithinQuota' /\ SessionInv'
  BY <1>0, <1>3, SessionStepWithin, SessionStepKeeps
<1>4. ASSUME UNCHANGED <<sess, records>> PROVE SessionInv'
  <2>1. sess' = sess /\ records' = records
    BY <1>4
  <2>2. BooksAgree'
    BY <1>0, <2>1 DEF SessionInv, BooksAgree, Hold
  <2>3. RefundedOnce'
    BY <1>0, <2>1, SameKeys DEF SessionInv, RefundedOnce
  <2>4. KeysFree'
    BY <1>0, <2>1, SameKeys DEF SessionInv, KeysFree
  <2>5. UnopenedIsEmpty'
    BY <1>0, <2>1 DEF SessionInv, UnopenedIsEmpty
  <2> QED
    BY <2>2, <2>3, <2>4, <2>5 DEF SessionInv
<1>5. ASSUME AdminAction PROVE WithinQuota' /\ SessionInv'
  BY <1>0, <1>4, <1>5, AdminWithin, AdminLeavesSessions
<1>6. ASSUME UNCHANGED books PROVE WithinQuota' /\ SessionInv'
  <2>1. UNCHANGED <<sess, records>> /\ org' = org
    BY <1>6 DEF books
  <2> QED
    BY <1>0, <1>4, <2>1 DEF WithinQuota
<1> QED
  BY <1>0, <1>1, <1>2, <1>3, <1>5, <1>6, StepShape DEF LedgerInv

\* The ledger invariant holds before the first request.
LEMMA LedgerInvInit == Init => LedgerInv
<1> SUFFICES ASSUME Init PROVE LedgerInv
  OBVIOUS
<1>1. TypeOK
  BY TypeInit
<1>2. WithinQuota
  BY LedgerConstants DEF Init, WithinQuota
<1>3. \A r \in Requests : /\ sess[r].status = "none" /\ sess[r].tok = 0 /\ sess[r].pre = 0
                          /\ sess[r].refunded = 0 /\ sess[r].tokRefunded = FALSE
  BY DEF Init, NoSession
<1>4. \A r \in Requests, t \in {"settle", "refund"} : RecordKeyFree(t, r, 0)
  BY DEF Init, RecordKeyFree
<1>5. SessionInv
  BY <1>3, <1>4 DEF SessionInv, BooksAgree, RefundedOnce, KeysFree, UnopenedIsEmpty, Hold, Open
<1>6. DissolvedHoldsNothing
  BY <1>3 DEF DissolvedHoldsNothing, Open
<1> QED
  BY <1>1, <1>2, <1>5, <1>6 DEF LedgerInv

\* The ledger invariant holds in every reachable state.
LEMMA LedgerInvariant == Spec => []LedgerInv
  BY LedgerInvInit, LedgerInvStep, PTL DEF Spec

\* used_quota never exceeds quota, whatever requests, repair and administrators do at once.
THEOREM QuotaRespected == Spec => []WithinQuota
  BY LedgerInvariant, PTL DEF LedgerInv

\* The organization's book and the token's never drift apart, session by session.
THEOREM BooksNeverDrift == Spec => []BooksAgree
  BY LedgerInvariant, PTL DEF LedgerInv, SessionInv

\* A refund returns exactly what its session held, and at most once.
THEOREM RefundsHappenOnce == Spec => []RefundedOnce
  BY LedgerInvariant, PTL DEF LedgerInv, SessionInv

\* The unique record keys never stop a settlement or a refund.
THEOREM KeysNeverBlock == Spec => []KeysFree
  BY LedgerInvariant, PTL DEF LedgerInv, SessionInv

\* A dissolved organization is charged for no open session: the one way past the check,
\* a pre-consumption of zero, opens a session that stays empty.
THEOREM DissolutionIsClean == Spec => []DissolvedHoldsNothing
  BY LedgerInvariant, PTL DEF LedgerInv

(***************************************************************************)
(* Finality and refinement.                                                *)
(***************************************************************************)

\* A transaction changes the session of one request only.
LEMMA OneSession ==
  ASSUME TypeOK, SessionInv, NEW r \in Requests, SessionStep(r)
  PROVE  \A q \in Requests \ {r} : sess'[q] = sess[q]
  BY PreConsumeEffect, ReserveEffect, SettleEffect, RefundEffect, RelabelEffect, ZeroEffect
  DEF SessionStep, TypeOK

\* No transaction is possible on a refunded session.
LEMMA RefundedIsStuck ==
  ASSUME TypeOK, NEW r \in Requests, SessionStep(r)
  PROVE  sess[r].status # "refunded"
<1>0. BooksType
  BY DEF TypeOK
<1>1. ASSUME NEW a \in Nat, PreConsumeTx(r, a) PROVE sess[r].status # "refunded"
  BY <1>1 DEF PreConsumeTx
<1>2. CASE ZeroStep(r)
  BY <1>2 DEF ZeroStep, PreConsumeZeroTx, CommitZeroTx, RollbackZeroTx
<1> QED
  BY <1>0, <1>1, <1>2, ReserveEffect, SettleEffect, RefundEffect, RelabelEffect
  DEF SessionStep, Open

\* A refunded session is never touched again: no late settlement, reservation, heartbeat
\* or repair finds a transaction that still applies to it.
THEOREM RefundedStays == Spec => RefundedIsFinal
<1>1. ASSUME LedgerInv, [Next]_vars
      PROVE  \A r \in Requests : sess[r].status = "refunded" => sess'[r] = sess[r]
  <2>1. TypeOK /\ SessionInv
    BY <1>1 DEF LedgerInv
  <2>2. ASSUME NEW q \in Requests, SessionStep(q)
        PROVE  \A r \in Requests : sess[r].status = "refunded" => sess'[r] = sess[r]
    BY <2>1, <2>2, OneSession, RefundedIsStuck
  <2>3. ASSUME AdminAction \/ UNCHANGED books PROVE sess' = sess
    BY <2>3, AdminLeavesSessions DEF books
  <2> QED
    BY <1>1, <2>1, <2>2, <2>3, StepShape
<1> QED
  BY <1>1, LedgerInvariant, PTL DEF Spec, RefundedIsFinal

\* Two functions that differ in one place only: the second is an update of the first.
LEMMA OneUpdate ==
  ASSUME NEW S, NEW f, NEW g, NEW r \in S,
         f = [q \in S |-> f[q]], g = [q \in S |-> g[q]],
         \A q \in S \ {r} : g[q] = f[q]
  PROVE  g = [f EXCEPT ![r] = g[r]]
  OBVIOUS

\* A session whose transaction ends in this status moves its charge to the phase of that
\* status, both books together.
LEMMA ChargeMoves ==
  ASSUME TypeOK', BooksAgree', NEW r \in Requests, sess'[r].status \notin Unopened,
         \A q \in Requests \ {r} : sess'[q] = sess[q]
  PROVE  Charges!Move(r, Phase(sess'[r].status))
<1> DEFINE c == ChargeOf'[r]
<1> DEFINE limited == r \notin Playground /\ ~sess'[r].unl
<1>1. c = [phase |-> Phase(sess'[r].status), limited |-> limited,
           org |-> Hold(sess'[r]), token |-> sess'[r].tok]
  BY DEF ChargeOf, Phase, Hold
<1>2. /\ sess'[r].unl \in BOOLEAN /\ sess'[r].tok \in Nat /\ sess'[r].pre \in Nat
      /\ sess'[r].settled \in Nat
  BY DEF TypeOK, BooksType, SessionType
<1>3. Hold(sess'[r]) \in Nat
  BY <1>2 DEF Hold
<1>4. c \in [phase : {Phase(sess'[r].status)}, limited : BOOLEAN, org : Nat, token : Nat]
  BY <1>1, <1>2, <1>3
<1>5. sess'[r].tok = IF r \in Playground \/ sess'[r].unl THEN 0 ELSE Hold(sess'[r])
  BY DEF BooksAgree, Hold
<1>6. c.token = IF c.limited THEN c.org ELSE 0
  <2>1. c.token = sess'[r].tok /\ c.org = Hold(sess'[r]) /\ c.limited = limited
    <3> HIDE DEF limited, c
    <3> QED
      BY <1>1
  <2>2. CASE r \in Playground \/ sess'[r].unl
    <3>1. c.limited = FALSE
      <4>1. limited = FALSE
        BY <2>2
      <4> QED
        BY <2>1, <4>1
    <3> QED
      BY <1>5, <2>1, <2>2, <3>1
  <2>3. CASE ~(r \in Playground \/ sess'[r].unl)
    <3>1. c.limited = TRUE
      <4>1. limited = TRUE
        BY <2>3
      <4> QED
        BY <2>1, <4>1
    <3> QED
      BY <1>5, <2>1, <2>3, <3>1
  <2> QED
    BY <2>2, <2>3
<1>7. \A q \in Requests \ {r} : ChargeOf'[q] = ChargeOf[q]
  BY DEF ChargeOf, Phase, Hold
<1>8. ChargeOf' = [ChargeOf EXCEPT ![r] = c]
  <2>1. /\ ChargeOf' = [q \in Requests |-> ChargeOf'[q]]
        /\ ChargeOf = [q \in Requests |-> ChargeOf[q]]
    BY DEF ChargeOf
  <2> QED
    BY <1>7, <2>1, OneUpdate
<1> QED
  BY <1>4, <1>6, <1>8 DEF Charges!Move

\* The phase of a charge, status by status.
LEMMA PhaseOf ==
  /\ Phase("none") = "none" /\ Phase("uncommitted") = "none" /\ Phase("settled") = "charged" /\ Phase("refunded") = "released"
  /\ \A status \in Open : Phase(status) = "held"
  BY DEF Phase, Open, Unopened

\* What a charge shows of its session.
LEMMA ChargeIs ==
  ASSUME NEW r \in Requests
  PROVE  /\ ChargeOf[r].phase = Phase(sess[r].status) /\ ChargeOf[r].org = Hold(sess[r])
         /\ ChargeOf[r].limited = (sess[r].status \notin Unopened /\ r \notin Playground /\ ~sess[r].unl)
         /\ ChargeOf[r].token = sess[r].tok
  BY DEF ChargeOf

\* The same after the step.
LEMMA ChargeWillBe ==
  ASSUME NEW r \in Requests
  PROVE  /\ ChargeOf'[r].phase = Phase(sess'[r].status) /\ ChargeOf'[r].org = Hold(sess'[r])
         /\ ChargeOf'[r].limited = (sess'[r].status \notin Unopened /\ r \notin Playground /\ ~sess'[r].unl)
         /\ ChargeOf'[r].token = sess'[r].tok
  BY DEF ChargeOf, Hold, Phase

\* A session that keeps status class, holds and token snapshot shows the same charge.
LEMMA SameCharge ==
  ASSUME NEW r \in Requests, \A q \in Requests \ {r} : sess'[q] = sess[q],
         sess[r].status \in Open, sess'[r].status \in Open,
         Hold(sess'[r]) = Hold(sess[r]), sess'[r].tok = sess[r].tok, sess'[r].unl = sess[r].unl
  PROVE  UNCHANGED ChargeOf
<1>1. Phase(sess'[r].status) = Phase(sess[r].status)
  BY PhaseOf
<1>2. (sess'[r].status \notin Unopened) = (sess[r].status \notin Unopened)
  BY DEF Open, Unopened
<1>3. \A q \in Requests : ChargeOf'[q] = ChargeOf[q]
  <2>1. ChargeOf'[r] = ChargeOf[r]
    BY <1>1, <1>2 DEF ChargeOf
  <2>2. \A q \in Requests \ {r} : ChargeOf'[q] = ChargeOf[q]
    BY DEF ChargeOf
  <2> QED
    BY <2>1, <2>2
<1> QED
  BY <1>3 DEF ChargeOf

\* A transaction on a session is a step of its charge, or invisible in it (a reservation
\* of nothing, a claim, a heartbeat, a failed repair).
LEMMA SessionStepCharges ==
  ASSUME TypeOK, TypeOK', SessionInv, BooksAgree, BooksAgree', NEW r \in Requests, SessionStep(r)
  PROVE  Charges!Next \/ UNCHANGED ChargeOf
<1>0. BooksType /\ \A q \in Requests \ {r} : sess'[q] = sess[q]
  BY OneSession DEF TypeOK
<1>1. sess'[r].status \notin Unopened => Charges!Move(r, Phase(sess'[r].status))
  BY <1>0, ChargeMoves
<1>2. ASSUME NEW a \in Nat, PreConsumeTx(r, a) PROVE Charges!Open(r)
  <2>1. sess[r].status = "none" /\ sess'[r].status = "pre_consumed"
    BY <1>0, <1>2, PreConsumeEffect DEF PreConsumeTx
  <2> QED
    BY <1>1, <2>1, ChargeIs, PhaseOf DEF Charges!Open, Open, Unopened
<1>3. ASSUME sess[r].status \notin Unopened, sess'[r].status \notin Unopened, sess'[r].unl = sess[r].unl
      PROVE  Charges!SameToken(r)
  BY <1>3, ChargeIs, ChargeWillBe DEF Charges!SameToken
<1>4. ASSUME NEW a \in Nat, ReserveMoreTx(r, a)
      PROVE  Charges!More(r) \/ UNCHANGED ChargeOf
  <2>1. /\ sess[r].status \in Open /\ sess'[r].status = sess[r].status
        /\ sess'[r].pre = sess[r].pre + a /\ sess'[r].unl = sess[r].unl
    BY <1>0, <1>4, ReserveEffect
  <2>2. Hold(sess[r]) = sess[r].pre /\ Hold(sess'[r]) = sess[r].pre + a
    BY <2>1 DEF Hold
  <2>3. sess[r].pre \in Nat /\ sess[r].status \notin Unopened
    BY <1>0, <2>1 DEF BooksType, SessionType, Open, Unopened
  <2>4. CASE a > 0
    <3>1. ChargeOf'[r].org > ChargeOf[r].org
      BY <2>2, <2>3, <2>4, ChargeIs, ChargeWillBe
    <3>2. ChargeOf[r].phase = "held" /\ Phase(sess'[r].status) = "held"
      BY <2>1, ChargeIs, PhaseOf
    <3> QED
      BY <1>1, <1>3, <2>1, <2>3, <3>1, <3>2 DEF Charges!More
  <2>5. CASE a = 0
    <3>1. sess'[r].tok = sess[r].tok
      BY <2>1, <2>2, <2>3, <2>5 DEF BooksAgree, Hold
    <3> QED
      BY <1>0, <2>1, <2>2, <2>3, <2>5, <3>1, SameCharge
  <2> QED
    BY <2>4, <2>5
<1>5. ASSUME NEW a \in Int, SettleTx(r, a) PROVE Charges!Close(r)
  <2>1. sess[r].status \in Open /\ sess'[r].status = "settled" /\ sess'[r].unl = sess[r].unl
    BY <1>0, <1>5, SettleEffect
  <2>2. sess[r].status \notin Unopened /\ sess'[r].status \notin Unopened
    BY <2>1 DEF Open, Unopened
  <2>3. ChargeOf[r].phase = "held" /\ Phase(sess'[r].status) = "charged"
    BY <2>1, ChargeIs, PhaseOf
  <2> QED
    BY <1>1, <1>3, <2>1, <2>2, <2>3 DEF Charges!Close
<1>6. ASSUME RefundTx(r) PROVE Charges!Release(r)
  <2>1. /\ sess[r].status \in Open \cup {"settled"} /\ sess'[r].status = "refunded"
        /\ sess'[r].unl = sess[r].unl
    BY <1>0, <1>6, RefundEffect
  <2>2. sess[r].status \notin Unopened /\ sess'[r].status \notin Unopened
    BY <2>1 DEF Open, Unopened
  <2>3. ChargeOf[r].phase \in {"held", "charged"} /\ Phase(sess'[r].status) = "released"
    BY <2>1, ChargeIs, PhaseOf
  <2>4. ChargeOf'[r].org = 0
    BY <2>1, ChargeWillBe DEF Hold, Open
  <2> QED
    BY <1>1, <1>3, <2>1, <2>2, <2>3, <2>4 DEF Charges!Release
<1>7. ASSUME Relabel(r) PROVE UNCHANGED ChargeOf
  <2>1. /\ sess[r].status \in Open /\ sess'[r].status \in Open
        /\ sess'[r].pre = sess[r].pre /\ sess'[r].tok = sess[r].tok /\ sess'[r].unl = sess[r].unl
    BY <1>0, <1>7, RelabelEffect
  <2>2. Hold(sess'[r]) = Hold(sess[r])
    BY <2>1 DEF Hold
  <2> QED
    BY <1>0, <2>1, <2>2, SameCharge
<1>8. ASSUME ZeroStep(r) PROVE Charges!Open(r) \/ UNCHANGED ChargeOf
  <2>1. /\ sess[r].status \in Unopened /\ sess[r].tok = 0 /\ Hold(sess[r]) = 0
        /\ sess'[r].status \in Unopened \cup {"pre_consumed"} /\ sess'[r].tok = 0
    BY <1>8, ZeroEffect DEF Hold, Open, Unopened
  <2>2. CASE sess'[r].status = "pre_consumed"
    BY <1>1, <2>1, <2>2, ChargeIs, PhaseOf DEF Charges!Open, Open, Unopened
  <2>3. CASE sess'[r].status \in Unopened
    <3>1. Hold(sess'[r]) = 0 /\ Phase(sess'[r].status) = "none" /\ Phase(sess[r].status) = "none"
      BY <2>1, <2>3, PhaseOf DEF Hold, Open, Unopened
    <3>2. ChargeOf'[r] = ChargeOf[r]
      BY <2>1, <2>3, <3>1 DEF ChargeOf
    <3>3. \A q \in Requests \ {r} : ChargeOf'[q] = ChargeOf[q]
      BY <1>0 DEF ChargeOf
    <3> QED
      BY <3>2, <3>3 DEF ChargeOf
  <2> QED
    BY <2>1, <2>2, <2>3
<1> QED
  BY <1>2, <1>4, <1>5, <1>6, <1>7, <1>8 DEF SessionStep, Charges!Next

\* The ledger implements the abstract charges: each request is one charge that is held,
\* then charged or released, with both books moving together and all of it given back at
\* most once.
THEOREM LedgerImplementsCharges == Spec => ImplementsCharges
<1>1. Init => Charges!Init
  <2> SUFFICES ASSUME Init PROVE Charges!Init
    OBVIOUS
  <2>1. \A r \in Requests : sess[r].status = "none" /\ sess[r].tok = 0
    BY DEF Init, NoSession
  <2>2. \A r \in Requests : /\ Phase(sess[r].status) = "none" /\ Hold(sess[r]) = 0
                            /\ (sess[r].status \notin Unopened /\ r \notin Playground /\ ~sess[r].unl) = FALSE
    BY <2>1, PhaseOf DEF Hold, Open, Unopened
  <2> QED
    BY <2>1, <2>2 DEF ChargeOf, Charges!Init, Charges!NoCharge
<1>2. LedgerInv /\ LedgerInv' /\ [Next]_vars => [Charges!Next]_ChargeOf
  <2> SUFFICES ASSUME LedgerInv, LedgerInv', [Next]_vars
               PROVE  Charges!Next \/ UNCHANGED ChargeOf
    OBVIOUS
  <2>1. TypeOK /\ TypeOK' /\ SessionInv /\ BooksAgree /\ BooksAgree'
    BY DEF LedgerInv, SessionInv
  <2>2. ASSUME AdminAction \/ UNCHANGED books PROVE UNCHANGED ChargeOf
    <3>1. sess' = sess
      BY <2>2, AdminLeavesSessions DEF books
    <3> QED
      BY <3>1 DEF ChargeOf, Phase, Hold
  <2> QED
    BY <2>1, <2>2, SessionStepCharges, StepShape
<1> QED
  BY <1>1, <1>2, LedgerInvariant, PTL DEF Spec, ImplementsCharges, Charges!Spec

(***************************************************************************)
(* The books balance: what a transaction moves.                            *)
(***************************************************************************)

\* What a session holds and has used are natural numbers.
LEMMA HoldType ==
  ASSUME NEW s \in SessionType
  PROVE  Hold(s) \in Nat /\ Used(s) \in Nat
  BY DEF Hold, Used, SessionType

\* A transaction on the session of r moves its hold by d, its part of the token's balance
\* by t and its usage by u; the counters of organization, member and token follow, floors
\* included, and unless nothing moved one new record says so.
Moves(r, d, t, u) ==
  /\ Hold(sess'[r]) = Hold(sess[r]) + d
  /\ sess'[r].tok = sess[r].tok + t
  /\ Used(sess'[r]) = Used(sess[r]) + u
  /\ org'.used = Floor(org.used + d)
  /\ \A m \in Members :
       /\ member'[m].row = member[m].row
       /\ member[m].row =>
            member'[m].used = IF m = MemberOf[r] THEN Floor(member[m].used + d) ELSE member[m].used
  /\ token'.remain = token.remain - t
  /\ token'.used = IF r \in Playground THEN token.used ELSE Floor(token.used + d)
  /\ \/ UNCHANGED records /\ d = 0 /\ u = 0
     \/ \E type, at : RecordKeyFree(type, r, at) /\ Book(type, r, at, d, u)

\* Every record belongs to a session that was opened.
RecordsHaveSessions == \A x \in records : sess[x.req].status \notin Unopened

\* UseMember moves the counter of one member row.
LEMMA UseMemberMoves ==
  ASSUME BooksType, NEW m \in Members, NEW d \in Int, UseMember(m, d)
  PROVE  \A n \in Members :
           /\ member'[n].row = member[n].row
           /\ member[n].row =>
                member'[n].used = IF n = m THEN Floor(member[n].used + d) ELSE member[n].used
<1>1. CASE member[m].row
  <2>1. member' = [member EXCEPT ![m] = [member[m] EXCEPT !.used = Floor(member[m].used + d)]]
    BY <1>1 DEF UseMember, BooksType
  <2>2. /\ [member[m] EXCEPT !.used = Floor(member[m].used + d)].row = member[m].row
        /\ [member[m] EXCEPT !.used = Floor(member[m].used + d)].used = Floor(member[m].used + d)
    BY DEF BooksType, MemberType
  <2> QED
    BY <2>1, <2>2 DEF BooksType
<1>2. CASE ~member[m].row
  BY <1>2 DEF UseMember
<1> QED
  BY <1>1, <1>2

\* MoveToken moves the balance by what is taken and the token's used_quota by q.
LEMMA MoveTokenMoves ==
  ASSUME BooksType, NEW r \in Requests, NEW q \in Int, NEW unlimited \in BOOLEAN,
         MoveToken(r, q, unlimited)
  PROVE  /\ token'.remain = token.remain - Taken(r, q, unlimited)
         /\ token'.used = IF r \in Playground THEN token.used ELSE Floor(token.used + q)
<1>1. CASE r \in Playground
  BY <1>1 DEF MoveToken, Taken, BooksType, TokenType
<1>2. CASE r \notin Playground
  <2>1. token' = [token EXCEPT !.remain = token.remain - Taken(r, q, unlimited),
                               !.used = Floor(token.used + q)]
    BY <1>2 DEF MoveToken
  <2> QED
    BY <1>2, <2>1 DEF BooksType, TokenType
<1> QED
  BY <1>1, <1>2

\* PreConsumeWithToken moves all books by the amount.
LEMMA PreConsumeMoves ==
  ASSUME BooksType, BooksAgree, RecordsHaveSessions, NEW r \in Requests, NEW a \in Nat,
         PreConsumeTx(r, a)
  PROVE  \E t \in Int : Moves(r, a, t, 0)
<1> DEFINE unlimited == r \notin Playground /\ token.unlimited
           t == Taken(r, a, unlimited)
<1>0. MemberOf[r] \in Members /\ unlimited \in BOOLEAN /\ t \in Nat /\ a \in Int
  BY LedgerConstants DEF BooksType, TokenType, Taken
<1>1. sess[r].status = "none" /\ Hold(sess[r]) = 0 /\ Used(sess[r]) = 0 /\ sess[r].tok = 0
  BY DEF PreConsumeTx, Hold, Used, Open, BooksAgree
<1>2. Hold(sess'[r]) = a /\ Used(sess'[r]) = 0 /\ sess'[r].tok = t
  BY PreConsumeEffect DEF Hold, Used, Open
<1>3. org'.used = Floor(org.used + a)
  BY UseOrgType DEF PreConsumeTx
<1>4. \A m \in Members :
       /\ member'[m].row = member[m].row
       /\ member[m].row =>
            member'[m].used = IF m = MemberOf[r] THEN Floor(member[m].used + a) ELSE member[m].used
  BY <1>0, UseMemberMoves DEF PreConsumeTx
<1>5. /\ token'.remain = token.remain - t
      /\ token'.used = IF r \in Playground THEN token.used ELSE Floor(token.used + a)
  <2>1. MoveToken(r, a, unlimited)
    BY DEF PreConsumeTx
  <2> QED
    BY <1>0, <2>1, MoveTokenMoves
<1>6. \/ UNCHANGED records /\ a = 0
      \/ \E type, at : RecordKeyFree(type, r, at) /\ Book(type, r, at, a, 0)
  <2>1. RecordKeyFree("pre_consume", r, 0)
    BY <1>1 DEF RecordsHaveSessions, RecordKeyFree, Unopened
  <2>2. a > 0 \/ a = 0
    OBVIOUS
  <2> QED
    BY <2>1, <2>2 DEF PreConsumeTx
<1> HIDE DEF t
<1>7. Hold(sess'[r]) = Hold(sess[r]) + a /\ sess'[r].tok = sess[r].tok + t /\ Used(sess'[r]) = Used(sess[r]) + 0
  BY <1>0, <1>1, <1>2
<1>8. Moves(r, a, t, 0)
  BY <1>3, <1>4, <1>5, <1>6, <1>7 DEF Moves
<1> QED
  BY <1>0, <1>8

\* ReserveMoreWithToken moves all books by the difference.
LEMMA ReserveMoves ==
  ASSUME BooksType, NEW r \in Requests, NEW a \in Nat, ReserveMoreTx(r, a)
  PROVE  \E t \in Int : Moves(r, a, t, 0)
<1> DEFINE t == Taken(r, a, sess[r].unl)
<1>0. /\ MemberOf[r] \in Members /\ sess[r] \in SessionType /\ sess[r].unl \in BOOLEAN
      /\ sess[r].pre \in Nat /\ sess[r].tok \in Nat /\ a \in Int /\ t \in Nat
  BY LedgerConstants DEF BooksType, SessionType, Taken
<1>1. /\ sess[r].status \in Open /\ sess'[r].status = sess[r].status
      /\ sess'[r].pre = sess[r].pre + a /\ sess'[r].tok = sess[r].tok + t
  BY ReserveEffect DEF Taken
<1>2. /\ Hold(sess'[r]) = Hold(sess[r]) + a /\ sess'[r].tok = sess[r].tok + t
      /\ Used(sess'[r]) = Used(sess[r]) + 0
  BY <1>1 DEF Hold, Used, Open
<1>3. org'.used = Floor(org.used + a)
  BY UseOrgType DEF ReserveMoreTx
<1>4. \A m \in Members :
       /\ member'[m].row = member[m].row
       /\ member[m].row =>
            member'[m].used = IF m = MemberOf[r] THEN Floor(member[m].used + a) ELSE member[m].used
  BY <1>0, UseMemberMoves DEF ReserveMoreTx
<1>5. /\ token'.remain = token.remain - t
      /\ token'.used = IF r \in Playground THEN token.used ELSE Floor(token.used + a)
  BY <1>0, MoveTokenMoves DEF ReserveMoreTx
<1>6. \E type, at : RecordKeyFree(type, r, at) /\ Book(type, r, at, a, 0)
  BY DEF ReserveMoreTx, ReserveAdmits
<1> HIDE DEF t
<1>7. Moves(r, a, t, 0)
  BY <1>2, <1>3, <1>4, <1>5, <1>6 DEF Moves
<1> QED
  BY <1>0, <1>7

\* settleWithTokenActual moves all books from the reservation to the actual cost.
LEMMA SettleMoves ==
  ASSUME BooksType, BooksAgree, NEW r \in Requests, NEW a \in Int, SettleTx(r, a)
  PROVE  \E d \in Int, t \in Int, u \in Int : Moves(r, d, t, u)
<1> DEFINE d == a - sess[r].pre
           t == Taken(r, d, sess[r].unl)
<1>0. /\ MemberOf[r] \in Members /\ sess[r] \in SessionType /\ sess[r].unl \in BOOLEAN
      /\ sess[r].pre \in Nat /\ sess[r].tok \in Nat /\ d \in Int /\ t \in Int
  BY LedgerConstants DEF BooksType, SessionType, Taken
<1>1. /\ sess[r].status \in Open /\ sess'[r].status = "settled" /\ sess'[r].settled = a /\ a \in Nat
  BY SettleEffect
<1>2. sess[r].tok = IF r \in Playground \/ sess[r].unl THEN 0 ELSE sess[r].pre
  BY <1>1 DEF BooksAgree, Hold
<1>3. sess'[r].tok = sess[r].tok + t
  <2>1. sess'[r].tok = Floor(sess[r].tok + t)
    BY SettleEffect DEF Taken
  <2>2. sess[r].tok + t >= 0
    BY <1>0, <1>1, <1>2 DEF Taken
  <2> QED
    BY <1>0, <2>1, <2>2 DEF Floor
<1>4. Hold(sess'[r]) = Hold(sess[r]) + d /\ Used(sess'[r]) = Used(sess[r]) + a
  BY <1>0, <1>1 DEF Hold, Used, Open
<1>5. org'.used = Floor(org.used + d)
  BY <1>0, UseOrgType DEF SettleTx
<1>6. \A m \in Members :
       /\ member'[m].row = member[m].row
       /\ member[m].row =>
            member'[m].used = IF m = MemberOf[r] THEN Floor(member[m].used + d) ELSE member[m].used
  BY <1>0, UseMemberMoves DEF SettleTx
<1>7. /\ token'.remain = token.remain - t
      /\ token'.used = IF r \in Playground THEN token.used ELSE Floor(token.used + d)
  BY <1>0, MoveTokenMoves DEF SettleTx
<1>8. \E type, at : RecordKeyFree(type, r, at) /\ Book(type, r, at, d, a)
  BY DEF SettleTx, SettleAdmits
<1> HIDE DEF t, d
<1>9. Moves(r, d, t, a)
  BY <1>3, <1>4, <1>5, <1>6, <1>7, <1>8 DEF Moves
<1> QED
  BY <1>0, <1>9

\* RefundWithToken takes back all the session held, and all it used if it was settled.
LEMMA RefundMoves ==
  ASSUME BooksType, SessionInv, NEW r \in Requests, RefundTx(r)
  PROVE  \E d \in Int, t \in Int, u \in Int : Moves(r, d, t, u)
<1> DEFINE back == TokenRefund(sess[r])
           d == -RefundAmount(sess[r])
           t == Taken(r, -back, sess[r].unl)
           u == IF sess[r].status = "settled" THEN d ELSE 0
<1>0. /\ MemberOf[r] \in Members /\ sess[r] \in SessionType /\ sess[r].unl \in BOOLEAN
      /\ sess[r].pre \in Nat /\ sess[r].tok \in Nat /\ sess[r].settled \in Nat
  BY LedgerConstants DEF BooksType, SessionType
<1>1. /\ sess[r].status \in Open \cup {"settled"} /\ sess'[r].status = "refunded"
      /\ sess'[r].tok = Floor(sess[r].tok - Taken(r, back, sess[r].unl))
  BY RefundEffect
<1>2. sess[r].refunded = 0 /\ sess[r].tokRefunded = FALSE
  BY <1>0, <1>1 DEF SessionInv, RefundedOnce, Open, SessionType
<1>3. RefundAmount(sess[r]) = Hold(sess[r]) /\ RefundAmount(sess[r]) \in Nat
  BY <1>0, <1>1, <1>2 DEF RefundAmount, Floor, Hold, Open
<1>4. sess[r].tok = IF r \in Playground \/ sess[r].unl THEN 0 ELSE Hold(sess[r])
  BY DEF SessionInv, BooksAgree
<1>5. r \notin Playground => back = Hold(sess[r])
  BY <1>2, <1>3, <1>4 DEF TokenRefund
<1>6. back \in Nat
  BY <1>0, RefundAmounts
<1>7. d \in Int /\ -back \in Int /\ t \in Int /\ u \in Int
  BY <1>3, <1>6 DEF Taken
<1>8. t = -sess[r].tok /\ sess'[r].tok = 0
  <2>1. CASE r \in Playground \/ sess[r].unl
    BY <1>1, <1>4, <2>1 DEF Taken, Floor
  <2>2. CASE ~(r \in Playground \/ sess[r].unl)
    <3>1. back = sess[r].tok
      BY <1>4, <1>5, <2>2
    <3> QED
      BY <1>0, <1>1, <2>2, <3>1 DEF Taken, Floor
  <2> QED
    BY <2>1, <2>2
<1>9. /\ Hold(sess'[r]) = Hold(sess[r]) + d /\ sess'[r].tok = sess[r].tok + t
      /\ Used(sess'[r]) = Used(sess[r]) + u
  <2>1. Hold(sess'[r]) = 0 /\ Used(sess'[r]) = 0
    BY <1>1 DEF Hold, Used, Open
  <2>2. Used(sess[r]) = IF sess[r].status = "settled" THEN Hold(sess[r]) ELSE 0
    BY DEF Used, Hold, Open
  <2> QED
    BY <1>0, <1>3, <1>8, <2>1, <2>2
<1>10. org'.used = Floor(org.used + d)
  BY <1>7, UseOrgType DEF RefundTx
<1>11. \A m \in Members :
       /\ member'[m].row = member[m].row
       /\ member[m].row =>
            member'[m].used = IF m = MemberOf[r] THEN Floor(member[m].used + d) ELSE member[m].used
  BY <1>0, <1>7, UseMemberMoves DEF RefundTx
<1>12. /\ token'.remain = token.remain - t
       /\ token'.used = IF r \in Playground THEN token.used ELSE Floor(token.used + d)
  <2>1. /\ token'.remain = token.remain - t
        /\ token'.used = IF r \in Playground THEN token.used ELSE Floor(token.used + (-back))
    BY <1>0, <1>7, MoveTokenMoves DEF RefundTx
  <2>2. r \notin Playground => -back = d
    BY <1>3, <1>5
  <2> QED
    BY <2>1, <2>2
<1>13. \E type, at : RecordKeyFree(type, r, at) /\ Book(type, r, at, d, u)
  BY DEF RefundTx
<1> HIDE DEF t, d, u, back
<1>14. Moves(r, d, t, u)
  BY <1>9, <1>10, <1>11, <1>12, <1>13 DEF Moves
<1> QED
  BY <1>7, <1>14

\* A claim, a heartbeat or a failure mark moves nothing.
LEMMA RelabelMoves ==
  ASSUME BooksType, NEW r \in Requests, Relabel(r)
  PROVE  Moves(r, 0, 0, 0)
<1>0. /\ sess[r] \in SessionType /\ sess[r].pre \in Nat /\ sess[r].tok \in Nat
      /\ org.used \in Nat /\ token.remain \in Nat /\ token.used \in Nat
      /\ \A m \in Members : member[m].used \in Nat
  BY DEF BooksType, SessionType, OrgType, TokenType, MemberType
<1>1. /\ Hold(sess'[r]) = Hold(sess[r]) + 0 /\ sess'[r].tok = sess[r].tok + 0
      /\ Used(sess'[r]) = Used(sess[r]) + 0
  BY <1>0, RelabelEffect DEF Hold, Used, Open
<1>2. org' = org /\ member' = member /\ token' = token /\ records' = records
  BY DEF Relabel
<1>3. /\ org.used = Floor(org.used + 0) /\ token.remain = token.remain - 0
      /\ token.used = Floor(token.used + 0)
      /\ \A m \in Members : member[m].used = Floor(member[m].used + 0)
  BY <1>0 DEF Floor
<1> QED
  BY <1>1, <1>2, <1>3 DEF Moves

\* The row of a pre-consumption of zero moves nothing.
LEMMA ZeroMoves ==
  ASSUME TypeOK, SessionInv, NEW r \in Requests, ZeroStep(r)
  PROVE  Moves(r, 0, 0, 0)
<1>0. /\ org.used \in Nat /\ token.remain \in Nat /\ token.used \in Nat
      /\ \A m \in Members : member[m].used \in Nat
  BY DEF TypeOK, BooksType, OrgType, TokenType, MemberType
<1>1. /\ Hold(sess'[r]) = 0 /\ Hold(sess[r]) = 0 /\ Used(sess'[r]) = 0 /\ Used(sess[r]) = 0
      /\ sess'[r].tok = 0 /\ sess[r].tok = 0
      /\ org' = org /\ member' = member /\ token' = token /\ records' = records
  BY ZeroEffect DEF Hold, Used, Open, Unopened
<1>2. /\ org.used = Floor(org.used + 0) /\ token.remain = token.remain - 0
      /\ token.used = Floor(token.used + 0)
      /\ \A m \in Members : member[m].used = Floor(member[m].used + 0)
  BY <1>0 DEF Floor
<1> QED
  BY <1>1, <1>2 DEF Moves

\* Every transaction on a session moves its books together.
LEMMA SessionStepMoves ==
  ASSUME TypeOK, SessionInv, RecordsHaveSessions, NEW r \in Requests, SessionStep(r)
  PROVE  \E d \in Int, t \in Int, u \in Int : Moves(r, d, t, u)
<1>0. BooksType /\ BooksAgree /\ 0 \in Int /\ \A a \in Nat : a \in Int
  BY DEF TypeOK, SessionInv
<1> QED
  BY <1>0, PreConsumeMoves, ReserveMoves, SettleMoves, RefundMoves, RelabelMoves, ZeroMoves
  DEF SessionStep

(***************************************************************************)
(* The books balance: totals.                                              *)
(***************************************************************************)

\* What the sessions of S hold together, after a transaction on the session of r.
LEMMA HeldMoves ==
  ASSUME BooksType, BooksType', NEW r \in Requests, \A q \in Requests \ {r} : sess'[q] = sess[q],
         NEW S \in SUBSET Requests
  PROVE  /\ HeldBy(S) \in Nat /\ HeldBy(S)' \in Nat
         /\ HeldBy(S)' = IF r \in S THEN HeldBy(S) - Hold(sess[r]) + Hold(sess'[r]) ELSE HeldBy(S)
<1> DEFINE f == [q \in S |-> Hold(sess[q])]
           g == [q \in S |-> Hold(sess'[q])]
<1>1. IsFiniteSet(S)
  BY LedgerConstants, FS_Subset
<1>2. f \in [S -> Nat] /\ g \in [S -> Nat]
  BY HoldType DEF BooksType
<1>3. HeldBy(S) = Total(f) /\ HeldBy(S)' = Total(g)
  BY DEF HeldBy, Hold
<1>4. \A q \in S : q # r => g[q] = f[q]
  OBVIOUS
<1>5. r \in S => f[r] = Hold(sess[r]) /\ g[r] = Hold(sess'[r]) /\ g[r] \in Nat
  BY <1>2
<1> HIDE DEF f, g
<1>6. Total(f) \in Nat /\ Total(g) \in Nat
  BY <1>1, <1>2, TotalType
<1>7. CASE r \in S
  <2>1. g = [f EXCEPT ![r] = g[r]]
    BY <1>2, <1>4
  <2>2. Total([f EXCEPT ![r] = g[r]]) = Total(f) - f[r] + g[r]
    BY <1>1, <1>2, <1>5, <1>7, TotalUpdate
  <2>3. Total(g) = Total(f) - f[r] + g[r]
    BY <2>1, <2>2
  <2> QED
    BY <1>3, <1>5, <1>6, <1>7, <2>3
<1>8. CASE r \notin S
  <2>1. g = f
    BY <1>2, <1>4, <1>8
  <2> QED
    BY <1>3, <1>6, <1>8, <2>1
<1> QED
  BY <1>7, <1>8

\* The same for what the sessions hold on the token's balance.
LEMMA TokensMove ==
  ASSUME BooksType, BooksType', NEW r \in Requests, \A q \in Requests \ {r} : sess'[q] = sess[q]
  PROVE  /\ Total([q \in Requests |-> sess[q].tok]) \in Nat
         /\ Total([q \in Requests |-> sess[q].tok])' =
              Total([q \in Requests |-> sess[q].tok]) - sess[r].tok + sess'[r].tok
<1> DEFINE f == [q \in Requests |-> sess[q].tok]
           g == [q \in Requests |-> sess'[q].tok]
<1>1. f \in [Requests -> Nat] /\ g \in [Requests -> Nat] /\ IsFiniteSet(Requests)
  BY LedgerConstants DEF BooksType, SessionType
<1>2. \A q \in Requests : q # r => g[q] = f[q]
  OBVIOUS
<1>3. f[r] = sess[r].tok /\ g[r] = sess'[r].tok
  OBVIOUS
<1>4. Total(f)' = Total(g)
  OBVIOUS
<1> HIDE DEF f, g
<1>5. g = [f EXCEPT ![r] = g[r]]
  BY <1>1, <1>2
<1>6. g[r] \in Nat
  BY <1>1
<1>7. Total([f EXCEPT ![r] = g[r]]) = Total(f) - f[r] + g[r]
  BY <1>1, <1>6, TotalUpdate
<1>8. Total(g) = Total(f) - f[r] + g[r]
  BY <1>5, <1>7
<1>9. Total(f) \in Nat
  BY <1>1, TotalType
<1> QED
  BY <1>3, <1>4, <1>8, <1>9 DEF f

\* Only administrators change what was consumed without a session.
LEMMA DirectFrame == ASSUME [Next]_vars PROVE AdminAction \/ UNCHANGED direct
<1>1. ASSUME NEW r \in Requests, RequestStep(r) PROVE UNCHANGED direct
  BY <1>1 DEF RequestStep, PreConsume, PreConsumeRefused, PreConsumeReplyLost, PreConsumeZero,
    CommitZero, CommitZeroFails, Reserve,
    ReserveRefused, ReserveReplyLost, Settle, SettleFails, SettleReplyLost, ReturnUnsettled,
    Abort, BackgroundRefund, RequestDies, Heartbeat
<1>2. ASSUME NEW w \in Repairers, RepairWork(w) \/ RepairFault(w) PROVE UNCHANGED direct
  BY <1>2 DEF RepairWork, RepairFault, RepairScan, RepairClaim, RepairReread, RepairRefund,
    RepairMarkFailed, RepairAbandon, RepairRefundFails
<1> QED
  BY <1>1, <1>2 DEF Next, Tick, vars

\* The organization and both of its counters are balanced.
Balances == OrgBalances /\ CountersBalance

\* A transaction on one session keeps organization, member and token balanced: what it
\* moves it moves in every book, and the floors at zero never cut anything off.
LEMMA SessionStepBalances ==
  ASSUME TypeOK, TypeOK', SessionInv, RecordsHaveSessions, Balances,
         NEW r \in Requests, SessionStep(r), UNCHANGED direct
  PROVE  Balances'
<1>0. BooksType /\ BooksType'
  BY DEF TypeOK
<1>1. PICK d \in Int, t \in Int, u \in Int : Moves(r, d, t, u)
  BY SessionStepMoves
<1>2. \A q \in Requests \ {r} : sess'[q] = sess[q]
  BY OneSession
<1>3. /\ Hold(sess[r]) \in Nat /\ Hold(sess'[r]) \in Nat /\ Hold(sess'[r]) = Hold(sess[r]) + d
      /\ sess[r].tok \in Nat /\ sess'[r].tok \in Nat /\ sess'[r].tok = sess[r].tok + t
  BY <1>0, <1>1, HoldType DEF BooksType, SessionType, Moves
<1>4. ASSUME NEW S \in SUBSET Requests
      PROVE  /\ HeldBy(S) \in Nat /\ HeldBy(S)' \in Nat
             /\ HeldBy(S)' = IF r \in S THEN HeldBy(S) + d ELSE HeldBy(S)
  <2>1. /\ HeldBy(S) \in Nat /\ HeldBy(S)' \in Nat
        /\ HeldBy(S)' = IF r \in S THEN HeldBy(S) - Hold(sess[r]) + Hold(sess'[r]) ELSE HeldBy(S)
    BY <1>0, <1>2, HeldMoves
  <2> QED
    BY <1>3, <2>1
<1>5. /\ Total(direct.of) \in Nat /\ direct' = direct /\ direct.tok \in Int /\ direct.tokUsed \in Nat
      /\ \A m \in Members : direct.of[m] \in Nat
  <2>1. direct.of \in [Members -> Nat] /\ direct.tok \in Int /\ direct.tokUsed \in Nat /\ direct' = direct
    BY DEF TypeOK, MemoryType
  <2> QED
    BY <2>1, LedgerConstants, TotalType
<1>6. OrgBalances'
  <2>1. org.used = HeldBy(Requests) + Total(direct.of) /\ org'.used = Floor(org.used + d)
    BY <1>1 DEF Balances, OrgBalances, Moves
  <2>2. HeldBy(Requests) \in Nat /\ HeldBy(Requests)' \in Nat /\ HeldBy(Requests)' = HeldBy(Requests) + d
    BY <1>4
  <2>3. org'.used = HeldBy(Requests)' + Total(direct.of)
    BY <1>5, <2>1, <2>2 DEF Floor
  <2> QED
    BY <1>5, <2>3 DEF OrgBalances
<1>7. MemberBalances'
  <2> SUFFICES ASSUME NEW m \in Members, member'[m].row
               PROVE  member'[m].used = HeldBy({q \in Requests : MemberOf[q] = m})' + direct'.of[m]
    BY DEF MemberBalances
  <2> DEFINE S == {q \in Requests : MemberOf[q] = m}
  <2>1. S \in SUBSET Requests /\ (r \in S <=> m = MemberOf[r])
    OBVIOUS
  <2>2. /\ member[m].row
        /\ member'[m].used = IF m = MemberOf[r] THEN Floor(member[m].used + d) ELSE member[m].used
    BY <1>1 DEF Moves
  <2>3. member[m].used = HeldBy(S) + direct.of[m]
    BY <2>2 DEF Balances, CountersBalance, MemberBalances
  <2> HIDE DEF S
  <2>4. /\ HeldBy(S) \in Nat /\ HeldBy(S)' \in Nat
        /\ HeldBy(S)' = IF r \in S THEN HeldBy(S) + d ELSE HeldBy(S)
    BY <1>4, <2>1
  <2>5. member'[m].used = HeldBy(S)' + direct.of[m]
    BY <1>5, <2>1, <2>2, <2>3, <2>4 DEF Floor
  <2> QED
    BY <1>5, <2>5 DEF S
<1>8. TokenBalances'
  <2>1. /\ token.remain = InitRemain - Total([q \in Requests |-> sess[q].tok]) - direct.tok
        /\ token.used = HeldBy(Requests \ Playground) + direct.tokUsed
    BY DEF Balances, CountersBalance, TokenBalances
  <2>2. /\ token'.remain = token.remain - t
        /\ token'.used = IF r \in Playground THEN token.used ELSE Floor(token.used + d)
    BY <1>1 DEF Moves
  <2>3. token'.remain = InitRemain - Total([q \in Requests |-> sess[q].tok])' - direct.tok
    <3>1. /\ Total([q \in Requests |-> sess[q].tok]) \in Nat
          /\ Total([q \in Requests |-> sess[q].tok])' =
               Total([q \in Requests |-> sess[q].tok]) - sess[r].tok + sess'[r].tok
      BY <1>0, <1>2, TokensMove
    <3> DEFINE T == Total([q \in Requests |-> sess[q].tok])
    <3>2. /\ T \in Nat /\ T' = T - sess[r].tok + sess'[r].tok /\ token.remain = InitRemain - T - direct.tok
      BY <2>1, <3>1
    <3>3. token'.remain = InitRemain - T' - direct.tok
      <4> HIDE DEF T
      <4> QED
        BY <1>3, <1>5, <2>2, <3>2, LedgerConstants
    <3> QED
      BY <3>3
  <2>4. token'.used = HeldBy(Requests \ Playground)' + direct.tokUsed
    <3> DEFINE S == Requests \ Playground
    <3>1. S \in SUBSET Requests /\ (r \in S <=> r \notin Playground)
      OBVIOUS
    <3> HIDE DEF S
    <3>2. /\ HeldBy(S) \in Nat /\ HeldBy(S)' \in Nat
          /\ HeldBy(S)' = IF r \in S THEN HeldBy(S) + d ELSE HeldBy(S)
      BY <1>4, <3>1
    <3>3. token.used = HeldBy(S) + direct.tokUsed
      BY <2>1 DEF S
    <3>4. token'.used = HeldBy(S)' + direct.tokUsed
      BY <1>5, <2>2, <3>1, <3>2, <3>3 DEF Floor
    <3> QED
      BY <3>4 DEF S
  <2> QED
    BY <1>5, <2>3, <2>4 DEF TokenBalances
<1> QED
  BY <1>6, <1>7, <1>8 DEF Balances, CountersBalance

\* A sessionless consumption moves the same amount in every book, and gives back no more
\* than it took.
LEMMA ConsumeDirectBalances ==
  ASSUME TypeOK, Balances, NEW m \in Members, NEW q \in Int, ConsumeDirect(m, q)
  PROVE  Balances'
<1> DEFINE taken == IF token.unlimited THEN 0 ELSE q
<1>0. BooksType /\ UNCHANGED sess /\ UseOrg(q, IF q > 0 THEN 1 ELSE 0) /\ UseMember(m, q)
  BY DEF TypeOK, ConsumeDirect
<1>1. /\ token' = [token EXCEPT !.remain = token.remain - taken, !.used = Floor(token.used + q)]
      /\ direct' = [of |-> [direct.of EXCEPT ![m] = direct.of[m] + q],
                    tok |-> direct.tok + taken, tokUsed |-> direct.tokUsed + q]
      /\ direct.of[m] + q >= 0 /\ direct.tokUsed + q >= 0
  BY DEF ConsumeDirect
<1>2. /\ direct.of \in [Members -> Nat] /\ direct.tok \in Int /\ direct.tokUsed \in Nat
      /\ taken \in Int /\ direct.of[m] \in Nat /\ direct.of[m] + q \in Nat
      /\ direct.tokUsed + q \in Nat
  BY <1>1 DEF TypeOK, MemoryType
<1> HIDE DEF taken
<1>3. /\ direct'.of = [direct.of EXCEPT ![m] = direct.of[m] + q]
      /\ direct'.tok = direct.tok + taken /\ direct'.tokUsed = direct.tokUsed + q
  BY <1>1
<1>4. /\ token'.remain = token.remain - taken /\ token'.used = Floor(token.used + q)
  BY <1>0, <1>1 DEF BooksType, TokenType
<1>5. Total(direct.of) \in Nat /\ direct.of[m] <= Total(direct.of)
  <2>1. Total(direct.of) \in Nat
    BY <1>2, LedgerConstants, TotalType
  <2>2. direct.of[m] <= Total(direct.of)
    BY <1>2, LedgerConstants, TotalBounds
  <2> QED
    BY <2>1, <2>2
<1>6. Total(direct'.of) = Total(direct.of) + q
  <2>1. Total([direct.of EXCEPT ![m] = direct.of[m] + q]) =
          Total(direct.of) - direct.of[m] + (direct.of[m] + q)
    BY <1>2, LedgerConstants, TotalUpdate
  <2> QED
    BY <1>2, <1>3, <1>5, <2>1
<1>7. ASSUME NEW S \in SUBSET Requests PROVE HeldBy(S) \in Nat /\ HeldBy(S)' = HeldBy(S)
  <2>1. IsFiniteSet(S) /\ [r \in S |-> Hold(sess[r])] \in [S -> Nat]
    BY <1>0, LedgerConstants, FS_Subset, HoldType DEF BooksType
  <2>2. HeldBy(S) \in Nat
    BY <2>1, TotalType DEF HeldBy
  <2>3. HeldBy(S)' = HeldBy(S)
    BY <1>0 DEF HeldBy, Hold
  <2> QED
    BY <2>2, <2>3
<1>8. OrgBalances'
  <2>1. org.used = HeldBy(Requests) + Total(direct.of)
    BY DEF Balances, OrgBalances
  <2>2. org'.used = Floor(org.used + q)
    BY <1>0, UseOrgType
  <2>3. HeldBy(Requests) \in Nat /\ HeldBy(Requests)' = HeldBy(Requests)
    BY <1>7
  <2>4. Floor(org.used + q) = HeldBy(Requests) + (Total(direct.of) + q)
    BY <1>2, <1>5, <2>1, <2>3 DEF Floor
  <2> QED
    BY <1>6, <2>2, <2>3, <2>4 DEF OrgBalances
<1>9. MemberBalances'
  <2> SUFFICES ASSUME NEW n \in Members, member'[n].row
               PROVE  member'[n].used = HeldBy({p \in Requests : MemberOf[p] = n})' + direct'.of[n]
    BY DEF MemberBalances
  <2> DEFINE S == {p \in Requests : MemberOf[p] = n}
  <2>1. S \in SUBSET Requests
    OBVIOUS
  <2>2. /\ member[n].row
        /\ member'[n].used = IF n = m THEN Floor(member[n].used + q) ELSE member[n].used
    BY <1>0, UseMemberMoves
  <2>3. member[n].used = HeldBy(S) + direct.of[n]
    BY <2>2 DEF Balances, CountersBalance, MemberBalances
  <2> HIDE DEF S
  <2>4. HeldBy(S) \in Nat /\ HeldBy(S)' = HeldBy(S) /\ direct.of[n] \in Nat
    BY <1>2, <1>7, <2>1
  <2>5. direct'.of[n] = IF n = m THEN direct.of[m] + q ELSE direct.of[n]
    BY <1>2, <1>3
  <2>6. member'[n].used = HeldBy(S)' + direct'.of[n]
    <3>1. CASE n = m
      <4>1. member'[n].used = Floor(HeldBy(S) + direct.of[m] + q) /\ direct'.of[n] = direct.of[m] + q
        BY <2>2, <2>3, <2>5, <3>1
      <4> QED
        BY <1>2, <2>4, <4>1 DEF Floor
    <3>2. CASE n # m
      BY <2>2, <2>3, <2>4, <2>5, <3>2
    <3> QED
      BY <3>1, <3>2
  <2> QED
    BY <2>6 DEF S
<1>10. TokenBalances'
  <2> DEFINE T == Total([r \in Requests |-> sess[r].tok])
             S == Requests \ Playground
  <2>1. token.remain = InitRemain - T - direct.tok /\ token.used = HeldBy(S) + direct.tokUsed
    BY DEF Balances, CountersBalance, TokenBalances
  <2>2. T' = T
    BY <1>0
  <2>3. T \in Nat
    <3>1. [r \in Requests |-> sess[r].tok] \in [Requests -> Nat]
      BY <1>0 DEF BooksType, SessionType
    <3> QED
      BY <3>1, LedgerConstants, TotalType
  <2>4. S \in SUBSET Requests
    OBVIOUS
  <2> HIDE DEF T, S
  <2>5. HeldBy(S) \in Nat /\ HeldBy(S)' = HeldBy(S)
    BY <1>7, <2>4
  <2>6. token'.remain = InitRemain - T' - direct'.tok
    BY <1>2, <1>3, <1>4, <2>1, <2>2, <2>3, LedgerConstants
  <2>7. token'.used = HeldBy(S)' + direct'.tokUsed
    BY <1>2, <1>3, <1>4, <2>1, <2>5 DEF Floor
  <2> QED
    BY <2>6, <2>7 DEF TokenBalances, T, S
<1> QED
  BY <1>8, <1>9, <1>10 DEF Balances, CountersBalance

\* An administrator's step keeps the balances.
LEMMA AdminBalances ==
  ASSUME TypeOK, Balances, AdminAction
  PROVE  Balances'
<1>0. sess' = sess /\ token \in TokenType /\ org \in OrgType /\ member \in [Members -> MemberType]
  BY AdminLeavesSessions DEF TypeOK, BooksType
<1>1. ASSUME NEW S PROVE HeldBy(S)' = HeldBy(S)
  BY <1>0 DEF HeldBy, Hold
<1>2. ASSUME org'.used = org.used, UNCHANGED <<member, token, direct>> PROVE Balances'
  BY <1>0, <1>1, <1>2 DEF Balances, OrgBalances, CountersBalance, MemberBalances, TokenBalances
<1>3. ASSUME NEW d \in Adjustments, AdjustQuota(d) PROVE Balances'
  BY <1>0, <1>2, <1>3 DEF AdjustQuota, OrgType
<1>4. ASSUME NEW source \in {"self", "platform"}, NEW disable \in BOOLEAN,
             SetStatus(source, disable)
      PROVE  Balances'
  <2>1. org'.used = org.used /\ UNCHANGED <<member, token, direct>>
    BY <1>0, <1>4 DEF SetStatus, OrgType
  <2> QED
    BY <1>2, <2>1
<1>5. ASSUME Dissolve PROVE Balances'
  BY <1>0, <1>2, <1>5 DEF Dissolve, OrgType
<1>6. ASSUME DeleteToken PROVE Balances'
  <2>1. token'.remain = token.remain /\ token'.used = token.used /\ UNCHANGED <<org, member, direct>>
    BY <1>0, <1>6 DEF DeleteToken, TokenType
  <2> QED
    BY <1>0, <1>1, <2>1 DEF Balances, OrgBalances, CountersBalance, MemberBalances, TokenBalances
<1>7. ASSUME NEW unlimited \in BOOLEAN, NEW remain \in Amounts, EditToken(unlimited, remain)
      PROVE  Balances'
  <2>1. /\ token'.remain = remain /\ token'.used = token.used /\ UNCHANGED <<org, member>>
        /\ direct' = [direct EXCEPT !.tok = direct.tok + token.remain - remain]
    BY <1>0, <1>7 DEF EditToken, TokenType
  <2>2. /\ direct'.of = direct.of /\ direct'.tokUsed = direct.tokUsed
        /\ direct'.tok = direct.tok + token.remain - remain
    BY <2>1 DEF TypeOK, MemoryType
  <2>3. OrgBalances' /\ MemberBalances'
    BY <1>1, <2>1, <2>2 DEF Balances, OrgBalances, CountersBalance, MemberBalances
  <2>4. TokenBalances'
    <3> DEFINE T == Total([r \in Requests |-> sess[r].tok])
    <3>1. token.remain = InitRemain - T - direct.tok /\ T' = T
      BY <1>0 DEF Balances, CountersBalance, TokenBalances
    <3>2. T \in Nat
      <4>1. [r \in Requests |-> sess[r].tok] \in [Requests -> Nat]
        BY DEF TypeOK, BooksType, SessionType
      <4> QED
        BY <4>1, LedgerConstants, TotalType
    <3>3. token.remain \in Nat /\ direct.tok \in Int /\ remain \in Nat
      BY LedgerConstants DEF TypeOK, MemoryType, BooksType, TokenType
    <3> HIDE DEF T
    <3>4. token'.remain = InitRemain - T' - direct'.tok
      BY <2>1, <2>2, <3>1, <3>2, <3>3, LedgerConstants
    <3>5. token'.used = HeldBy(Requests \ Playground)' + direct'.tokUsed
      BY <1>1, <2>1, <2>2 DEF Balances, CountersBalance, TokenBalances
    <3> QED
      BY <3>4, <3>5 DEF TokenBalances, T
  <2> QED
    BY <2>3, <2>4 DEF Balances, CountersBalance
<1>8. ASSUME NEW m \in Members, DeleteMemberRow(m) PROVE Balances'
  <2>1. /\ member' = [member EXCEPT ![m] = [member[m] EXCEPT !.row = FALSE]]
        /\ UNCHANGED <<org, token, direct>>
    BY <1>0, <1>8 DEF DeleteMemberRow
  <2>2. [member[m] EXCEPT !.row = FALSE].row = FALSE
    BY <1>0 DEF MemberType
  <2>3. \A n \in Members : member'[n].row => member'[n] = member[n]
    BY <1>0, <2>1, <2>2
  <2>4. MemberBalances'
    BY <1>0, <1>1, <2>1, <2>3 DEF Balances, CountersBalance, MemberBalances
  <2>5. OrgBalances' /\ TokenBalances'
    BY <1>0, <1>1, <2>1 DEF Balances, OrgBalances, CountersBalance, TokenBalances
  <2> QED
    BY <2>4, <2>5 DEF Balances, CountersBalance
<1>9. \A a \in Amounts : a \in Int /\ -a \in Int
  BY LedgerConstants
<1>10. ASSUME NEW m \in Members, NEW q \in Int, ConsumeDirect(m, q) PROVE Balances'
  BY <1>10, ConsumeDirectBalances
<1> QED
  BY <1>3, <1>4, <1>5, <1>6, <1>7, <1>8, <1>9, <1>10 DEF AdminAction

(***************************************************************************)
(* The records explain the sessions.                                       *)
(***************************************************************************)

\* There are finitely many records, each of an opened session, and they add up.
RecordsInv == IsFiniteSet(records) /\ RecordsHaveSessions /\ RecordsExplain

\* A session without a new record, and whose hold and usage did not change, stays explained.
LEMMA SameRecords ==
  ASSUME NEW q \in Requests, RecordsOf(q)' = RecordsOf(q),
         Hold(sess'[q]) = Hold(sess[q]), Used(sess'[q]) = Used(sess[q]), RecordsExplain
  PROVE  /\ Net([x \in RecordsOf(q)' |-> x.delta]) = Hold(sess'[q])
         /\ Net([x \in RecordsOf(q)' |-> x.usage]) = Used(sess'[q])
  BY DEF RecordsExplain

\* One more record adds its delta and its usage.
LEMMA OneMoreRecord ==
  ASSUME NEW R, IsFiniteSet(R), NEW new, new \notin R,
         \A x \in R \cup {new} : x.delta \in Int /\ x.usage \in Int
  PROVE  /\ Net([x \in R \cup {new} |-> x.delta]) = Net([x \in R |-> x.delta]) + new.delta
         /\ Net([x \in R \cup {new} |-> x.usage]) = Net([x \in R |-> x.usage]) + new.usage
<1> DEFINE T == R \cup {new}
<1>1. new \in T /\ T \ {new} = R
  OBVIOUS
<1>2. IsFiniteSet(T)
  BY FS_AddElement
<1> HIDE DEF T
<1>3. ASSUME NEW h \in [T -> Int] PROVE Net(h) = h[new] + Net([x \in R |-> h[x]])
  <2>1. Net(h) = h[new] + Net([x \in T \ {new} |-> h[x]])
    <3>1. new \in T
      BY <1>1
    <3> QED
      BY <1>2, <3>1, NetSplit, ZenonT(30)
  <2> QED
    BY <1>1, <2>1
<1>4. Net([x \in T |-> x.delta]) = Net([x \in R |-> x.delta]) + new.delta
  <2> DEFINE g == [x \in R |-> x.delta]
             h == [x \in T |-> x.delta]
  <2>1. h \in [T -> Int] /\ h[new] = new.delta /\ [x \in R |-> h[x]] = g /\ g \in [R -> Int]
    BY <1>1 DEF T
  <2>2. Net(g) \in Int /\ new.delta \in Int
    BY <2>1, NetType DEF T
  <2> HIDE DEF g, h
  <2>3. Net(h) = h[new] + Net(g)
    BY <1>3, <2>1
  <2>4. Net(h) = Net(g) + new.delta
    BY <2>1, <2>2, <2>3
  <2> QED
    BY <2>4 DEF g, h
<1>5. Net([x \in T |-> x.usage]) = Net([x \in R |-> x.usage]) + new.usage
  <2> DEFINE g == [x \in R |-> x.usage]
             h == [x \in T |-> x.usage]
  <2>1. h \in [T -> Int] /\ h[new] = new.usage /\ [x \in R |-> h[x]] = g /\ g \in [R -> Int]
    BY <1>1 DEF T
  <2>2. Net(g) \in Int /\ new.usage \in Int
    BY <2>1, NetType DEF T
  <2> HIDE DEF g, h
  <2>3. Net(h) = h[new] + Net(g)
    BY <1>3, <2>1
  <2>4. Net(h) = Net(g) + new.usage
    BY <2>1, <2>2, <2>3
  <2> QED
    BY <2>4 DEF g, h
<1> QED
  BY <1>4, <1>5 DEF T

\* A transaction that books what it moves keeps its session explained.
LEMMA BookExplains ==
  ASSUME BooksType, BooksType', RecordsInv, NEW r \in Requests,
         NEW d \in Int, NEW u \in Int, NEW type, NEW at,
         RecordKeyFree(type, r, at), Book(type, r, at, d, u),
         Hold(sess'[r]) = Hold(sess[r]) + d, Used(sess'[r]) = Used(sess[r]) + u
  PROVE  /\ Net([x \in RecordsOf(r)' |-> x.delta]) = Hold(sess'[r])
         /\ Net([x \in RecordsOf(r)' |-> x.usage]) = Used(sess'[r])
<1> DEFINE new == [type |-> type, req |-> r, at |-> at, delta |-> d, usage |-> u]
           R == RecordsOf(r)
<1>1. records' = records \cup {new} /\ new.type = type /\ new.req = r /\ new.at = at
      /\ new.delta = d /\ new.usage = u
  BY DEF Book
<1> HIDE DEF new
<1>2. new \notin records
  BY <1>1 DEF RecordKeyFree
<1>3. R' = R \cup {new} /\ new \notin R
  BY <1>1, <1>2 DEF RecordsOf
<1>4. IsFiniteSet(R) /\ \A x \in R' : x.delta \in Int /\ x.usage \in Int
  <2>1. R \subseteq records /\ IsFiniteSet(records)
    BY DEF RecordsInv, RecordsOf
  <2>2. R' \subseteq RecordType
    BY DEF RecordsOf, BooksType
  <2> QED
    BY <2>1, <2>2, FS_Subset DEF RecordType
<1>5. Net([x \in R |-> x.delta]) = Hold(sess[r]) /\ Net([x \in R |-> x.usage]) = Used(sess[r])
  BY DEF RecordsInv, RecordsExplain
<1> HIDE DEF R
<1>6. /\ Net([x \in R \cup {new} |-> x.delta]) = Net([x \in R |-> x.delta]) + new.delta
      /\ Net([x \in R \cup {new} |-> x.usage]) = Net([x \in R |-> x.usage]) + new.usage
  BY <1>3, <1>4, OneMoreRecord
<1> QED
  BY <1>1, <1>3, <1>5, <1>6 DEF R

\* A transaction leaves its session unopened only when it was, and then it books nothing.
LEMMA SessionStepOpens ==
  ASSUME TypeOK, SessionInv, NEW r \in Requests, SessionStep(r)
  PROVE  sess'[r].status \notin Unopened \/ (sess[r].status \in Unopened /\ records' = records)
<1>1. BooksType
  BY DEF TypeOK
<1> QED
  BY <1>1, PreConsumeEffect, ReserveEffect, SettleEffect, RefundEffect, RelabelEffect, ZeroEffect
  DEF SessionStep, Open, Unopened

\* A transaction on one session keeps every session explained by its records.
LEMMA SessionStepRecords ==
  ASSUME TypeOK, TypeOK', SessionInv, RecordsInv, NEW r \in Requests, SessionStep(r)
  PROVE  RecordsInv'
<1>0. BooksType /\ BooksType' /\ RecordsHaveSessions /\ RecordsExplain /\ IsFiniteSet(records)
  BY DEF TypeOK, RecordsInv
<1>1. PICK d \in Int, t \in Int, u \in Int : Moves(r, d, t, u)
  BY <1>0, SessionStepMoves
<1>2. /\ \A q \in Requests \ {r} : sess'[q] = sess[q]
      /\ sess'[r].status \notin Unopened \/ (sess[r].status \in Unopened /\ records' = records)
  BY <1>0, OneSession, SessionStepOpens
<1>3. /\ Hold(sess'[r]) = Hold(sess[r]) + d /\ Used(sess'[r]) = Used(sess[r]) + u
      /\ Hold(sess[r]) \in Nat /\ Used(sess[r]) \in Nat
  BY <1>0, <1>1, HoldType DEF Moves, BooksType
<1>s. \A x \in records : x.req \in Requests /\ sess'[x.req].status \notin Unopened
  <2>1. \A x \in records : x.req \in Requests
    BY <1>0 DEF BooksType, RecordType
  <2> QED
    BY <1>0, <1>2, <2>1 DEF RecordsHaveSessions
<1>4. CASE UNCHANGED records /\ d = 0 /\ u = 0
  <2>1. RecordsHaveSessions'
    BY <1>s, <1>4 DEF RecordsHaveSessions
  <2>2. \A q \in Requests : /\ RecordsOf(q)' = RecordsOf(q)
                            /\ Hold(sess'[q]) = Hold(sess[q]) /\ Used(sess'[q]) = Used(sess[q])
    BY <1>2, <1>3, <1>4 DEF RecordsOf
  <2>3. RecordsExplain'
    BY <1>0, <2>2, SameRecords DEF RecordsExplain, Hold, Used
  <2> QED
    BY <1>0, <1>4, <2>1, <2>3 DEF RecordsInv
<1>5. ASSUME NEW type, NEW at, RecordKeyFree(type, r, at), Book(type, r, at, d, u)
      PROVE  RecordsInv'
  <2> DEFINE new == [type |-> type, req |-> r, at |-> at, delta |-> d, usage |-> u]
  <2>1. records' = records \cup {new} /\ new.req = r /\ new.type = type /\ new.at = at
    BY <1>5 DEF Book
  <2> HIDE DEF new
  <2>o. sess'[r].status \notin Unopened
    BY <1>2, <1>5, <2>1 DEF RecordKeyFree
  <2>2. IsFiniteSet(records')
    BY <1>0, <2>1, FS_AddElement
  <2>3. RecordsHaveSessions'
    BY <1>s, <2>1, <2>o DEF RecordsHaveSessions
  <2>4. ASSUME NEW q \in Requests
        PROVE  /\ Net([x \in RecordsOf(q)' |-> x.delta]) = Hold(sess'[q])
               /\ Net([x \in RecordsOf(q)' |-> x.usage]) = Used(sess'[q])
    <3>1. CASE q = r
      BY <1>0, <1>3, <1>5, <3>1, BookExplains
    <3>2. CASE q # r
      <4>1. RecordsOf(q)' = RecordsOf(q) /\ sess'[q] = sess[q]
        BY <1>2, <2>1, <3>2 DEF RecordsOf
      <4> QED
        BY <1>0, <4>1, SameRecords
    <3> QED
      BY <3>1, <3>2
  <2>5. RecordsExplain'
    BY <2>4 DEF RecordsExplain, Hold, Used
  <2> QED
    BY <2>2, <2>3, <2>5 DEF RecordsInv
<1> QED
  BY <1>1, <1>4, <1>5 DEF Moves

(***************************************************************************)
(* The theorems about the balances.                                        *)
(***************************************************************************)

BalanceInv == LedgerInv /\ Balances /\ RecordsInv

\* Before the first request every book is empty.
LEMMA BalanceInvInit == Init => BalanceInv
<1> SUFFICES ASSUME Init PROVE BalanceInv
  OBVIOUS
<1>0. LedgerInv
  BY LedgerInvInit
<1>1. \A r \in Requests : /\ sess[r].status = "none" /\ sess[r].tok = 0
                          /\ Hold(sess[r]) = 0 /\ Used(sess[r]) = 0
  BY DEF Init, NoSession, Hold, Used, Open
<1>2. ASSUME NEW S \in SUBSET Requests PROVE HeldBy(S) = 0
  <2>1. [r \in S |-> Hold(sess[r])] \in [S -> Nat] /\ \A r \in S : [q \in S |-> Hold(sess[q])][r] = 0
    BY <1>1
  <2> QED
    BY <2>1, TotalZero DEF HeldBy
<1>3. Total([r \in Requests |-> sess[r].tok]) = 0
  <2>1. /\ [r \in Requests |-> sess[r].tok] \in [Requests -> Nat]
        /\ \A r \in Requests : [q \in Requests |-> sess[q].tok][r] = 0
    BY <1>1
  <2> QED
    BY <2>1, TotalZero
<1>4. /\ direct.of \in [Members -> Nat] /\ \A m \in Members : direct.of[m] = 0
      /\ direct.tok = 0 /\ direct.tokUsed = 0
  BY DEF Init
<1>5. Total(direct.of) = 0
  BY <1>4, TotalZero
<1>6. OrgBalances
  BY <1>2, <1>5 DEF Init, OrgBalances
<1>7. MemberBalances
  <2>1. \A m \in Members : HeldBy({r \in Requests : MemberOf[r] = m}) = 0 /\ member[m].used = 0
    BY <1>2 DEF Init
  <2> QED
    BY <1>4, <2>1 DEF MemberBalances
<1>8. TokenBalances
  <2>1. HeldBy(Requests \ Playground) = 0 /\ token.remain = InitRemain /\ token.used = 0
    BY <1>2 DEF Init
  <2> QED
    BY <1>3, <1>4, <2>1, LedgerConstants DEF TokenBalances
<1>9. RecordsInv
  <2>1. records = {} /\ \A r \in Requests : RecordsOf(r) = {}
    BY DEF Init, RecordsOf
  <2>2. IsFiniteSet(records) /\ RecordsHaveSessions
    BY <2>1, FS_EmptySet DEF RecordsHaveSessions
  <2>3. ASSUME NEW r \in Requests
        PROVE  /\ Net([x \in RecordsOf(r) |-> x.delta]) = 0
               /\ Net([x \in RecordsOf(r) |-> x.usage]) = 0
    <3>1. [x \in RecordsOf(r) |-> x.delta] \in [{} -> Int] /\ [x \in RecordsOf(r) |-> x.usage] \in [{} -> Int]
      BY <2>1
    <3> QED
      BY <3>1, NetEmpty
  <2>4. RecordsExplain
    BY <1>1, <2>3 DEF RecordsExplain
  <2> QED
    BY <2>2, <2>4 DEF RecordsInv
<1> QED
  BY <1>0, <1>6, <1>7, <1>8, <1>9 DEF BalanceInv, Balances, CountersBalance

\* Every step keeps the balances and the records: a transaction moves all books together,
\* an administrator's step moves what it moves in every book, the rest moves none.
LEMMA BalanceInvStep == BalanceInv /\ [Next]_vars => BalanceInv'
<1> SUFFICES ASSUME BalanceInv, [Next]_vars PROVE BalanceInv'
  OBVIOUS
<1>0. LedgerInv /\ LedgerInv' /\ Balances /\ RecordsInv
  BY LedgerInvStep DEF BalanceInv
<1>1. TypeOK /\ TypeOK' /\ SessionInv /\ RecordsHaveSessions
  BY <1>0 DEF LedgerInv, RecordsInv
<1>2. ASSUME UNCHANGED <<sess, records>> PROVE RecordsInv'
  <2>1. sess' = sess /\ records' = records /\ \A q \in Requests : RecordsOf(q)' = RecordsOf(q)
    BY <1>2 DEF RecordsOf
  <2>2. RecordsHaveSessions' /\ IsFiniteSet(records)'
    BY <1>0, <2>1 DEF RecordsInv, RecordsHaveSessions
  <2>3. RecordsExplain'
    BY <1>0, <2>1, SameRecords DEF RecordsInv, RecordsExplain, Hold, Used
  <2> QED
    BY <2>2, <2>3 DEF RecordsInv
<1>3. ASSUME AdminAction PROVE Balances' /\ RecordsInv'
  BY <1>0, <1>1, <1>2, <1>3, AdminBalances, AdminLeavesSessions
<1>4. ASSUME NEW r \in Requests, SessionStep(r), UNCHANGED direct PROVE Balances' /\ RecordsInv'
  BY <1>0, <1>1, <1>4, SessionStepBalances, SessionStepRecords
<1>5. ASSUME UNCHANGED books, UNCHANGED direct PROVE Balances' /\ RecordsInv'
  <2>1. org' = org /\ member' = member /\ token' = token /\ sess' = sess /\ records' = records
        /\ direct' = direct
    BY <1>5 DEF books
  <2>2. ASSUME NEW S PROVE HeldBy(S)' = HeldBy(S)
    BY <2>1 DEF HeldBy, Hold
  <2>3. Balances'
    BY <1>0, <2>1, <2>2 DEF Balances, OrgBalances, CountersBalance, MemberBalances, TokenBalances
  <2> QED
    BY <1>2, <2>1, <2>3
<1>6. Balances' /\ RecordsInv'
  BY <1>1, <1>3, <1>4, <1>5, StepShape, DirectFrame
<1> QED
  BY <1>0, <1>6 DEF BalanceInv

\* The balances hold in every reachable state.
LEMMA BalanceInvariant == Spec => []BalanceInv
  BY BalanceInvInit, BalanceInvStep, PTL DEF Spec

\* used_quota is at all times what the sessions hold plus what was consumed without one:
\* no order of transactions, failures and repairs loses or invents quota.
THEOREM OrganizationBalances == Spec => []OrgBalances
  BY BalanceInvariant, PTL DEF BalanceInv, Balances

\* Member counters and the token's balance and used_quota account for every session too,
\* whatever administrators edit, delete or consume meanwhile.
THEOREM CountersAlwaysBalance == Spec => []CountersBalance
  BY BalanceInvariant, PTL DEF BalanceInv, Balances

\* The append-only billing records always add up to what each session holds and has used.
THEOREM RecordsAlwaysExplain == Spec => []RecordsExplain
  BY BalanceInvariant, PTL DEF BalanceInv, RecordsInv

(***************************************************************************)
(* A live request keeps its session out of the hands of the repair task.   *)
(***************************************************************************)

Live == {"new", "opening", "active", "ending"}

InPass(p) == p.claimed \cup p.picked \cup p.failing

\* The lease of a request that runs outlives its next heartbeat, which is not overdue.
LeaseHolds(r) ==
  /\ sess[r].status \in {"pre_consumed", "settled"}
  /\ sess[r].status = "pre_consumed" =>
       /\ now <= req[r].beat /\ req[r].beat <= now + Interval
       /\ req[r].beat < sess[r].exp

\* A request that has not begun has no session yet, or one that only its transaction sees.
NotBegun(r) ==
  /\ req[r].pc = "new" => sess[r].status = "none"
  /\ req[r].pc = "opening" =>
       sess[r].status = "uncommitted" /\ (r \in Relayed => sess[r].exp = now + TTL)

\* A request without a session has not been opened; a relayed one that runs has its lease;
\* what a repair pass holds was claimed at a time that has passed, from requests that ended.
LiveInv ==
  /\ \A r \in Requests : NotBegun(r)
  /\ \A r \in Relayed : Running(r) => LeaseHolds(r)
  /\ \A w \in Repairers :
       /\ rep[w].at <= now
       /\ \A r \in Relayed : r \in InPass(rep[w]) => req[r].pc \notin Live

\* Half the TTL is less than the TTL.
LEMMA IntervalFits == TTL > 1 => Interval \in Nat /\ Interval < TTL
  BY LedgerConstants DEF Interval

\* What a step of request r has to keep of its own, so that LiveInv holds for everybody.
LEMMA RequestFrame ==
  ASSUME LiveInv, NEW r \in Requests, UNCHANGED <<rep, now>>,
         \A q \in Requests \ {r} : sess'[q] = sess[q] /\ req'[q] = req[q],
         NotBegun(r)',
         r \in Relayed /\ Running(r)' => LeaseHolds(r)',
         req'[r].pc \in Live => req[r].pc \in Live
  PROVE  LiveInv'
<1>0. Relayed \subseteq Requests
  BY LedgerConstants
<1>1. \A q \in Requests : NotBegun(q)'
  BY DEF LiveInv, NotBegun
<1>2. ASSUME NEW q \in Relayed, Running(q)' PROVE LeaseHolds(q)'
  <2>1. CASE q = r
    BY <1>2, <2>1
  <2>2. CASE q # r
    BY <1>0, <1>2, <2>2 DEF LiveInv, Running, LeaseHolds
  <2> QED
    BY <2>1, <2>2
<1>3. ASSUME NEW w \in Repairers
      PROVE  /\ rep'[w].at <= now'
             /\ \A q \in Relayed : q \in InPass(rep'[w]) => req'[q].pc \notin Live
  BY <1>0 DEF LiveInv
<1> QED
  BY <1>1, <1>2, <1>3 DEF LiveInv, InPass

\* A step of a request keeps the leases.
LEMMA RequestStepLive ==
  ASSUME TTL > 1, TypeOK, LiveInv, NEW r \in Requests, RequestStep(r)
  PROVE  LiveInv'
<1>0. /\ now \in Nat /\ TTL \in Nat /\ Interval \in Nat /\ Interval < TTL
      /\ req \in [Requests -> RequestType] /\ req[r] \in RequestType /\ req[r].beat \in Nat
      /\ sess \in [Requests -> SessionType] /\ sess[r] \in SessionType /\ BooksType
      /\ Relayed \subseteq Requests
  BY IntervalFits, LedgerConstants DEF TypeOK, MemoryType, BooksType, RequestType
<1>1. NotBegun(r) /\ (r \in Relayed /\ Running(r) => LeaseHolds(r))
  BY <1>0 DEF LiveInv
<1>2. ASSUME NEW pc \in {"over", "settled"}, NEW actual, Over(r, pc, actual),
             UNCHANGED <<rep, now>>, \A q \in Requests \ {r} : sess'[q] = sess[q], req[r].pc \in Live \cup {"aborting"}
      PROVE  LiveInv'
  <2>1. req' = [req EXCEPT ![r] = [NoMemory EXCEPT !.pc = pc, !.actual = actual]]
    BY <1>2 DEF Over
  <2>2. [NoMemory EXCEPT !.pc = pc, !.actual = actual].pc = pc
    BY DEF NoMemory
  <2>3. req'[r].pc = pc /\ \A q \in Requests \ {r} : req'[q] = req[q]
    BY <1>0, <2>1, <2>2
  <2>4. pc \notin Live /\ NotBegun(r)' /\ ~Running(r)'
    BY <1>2, <2>3 DEF Live, Running, NotBegun
  <2> QED
    BY <1>2, <2>3, <2>4, RequestFrame
<1>3. ASSUME req' = [req EXCEPT ![r].pc = "aborting"], UNCHANGED <<rep, now>>,
             \A q \in Requests \ {r} : sess'[q] = sess[q]
      PROVE  LiveInv'
  <2>1. req'[r].pc = "aborting" /\ \A q \in Requests \ {r} : req'[q] = req[q]
    BY <1>0, <1>3 DEF RequestType
  <2>2. ~Running(r)' /\ req'[r].pc \notin Live /\ NotBegun(r)'
    BY <2>1 DEF Running, Live, NotBegun
  <2> QED
    BY <1>3, <2>1, <2>2, RequestFrame
<1>4. ASSUME NEW a \in Amounts, PreConsume(r, a) PROVE LiveInv'
  <2>0. a \in Nat /\ PreConsumeTx(r, a)
    BY <1>4, LedgerConstants DEF PreConsume
  <2>1. /\ req'[r].pc = "active" /\ (r \in Relayed => req'[r].beat = now + Interval)
        /\ \A q \in Requests \ {r} : req'[q] = req[q]
    BY <1>0, <1>4 DEF PreConsume, Begin
  <2>2. sess'[r].status = "pre_consumed" /\ \A q \in Requests \ {r} : sess'[q] = sess[q]
    BY <1>0, <2>0, PreConsumeEffect
  <2>3. sess'[r].exp = now + TTL
    BY <1>0, <2>0 DEF PreConsumeTx, NewSession, NoSession
  <2>4. UNCHANGED <<rep, now>> /\ req[r].pc = "new"
    BY <1>4 DEF PreConsume
  <2>5. r \in Relayed => LeaseHolds(r)'
    BY <1>0, <2>1, <2>2, <2>3, <2>4 DEF LeaseHolds, Interval
  <2>6. req[r].pc \in Live /\ NotBegun(r)'
    BY <2>1, <2>4 DEF Live, NotBegun
  <2> QED
    BY <2>1, <2>2, <2>4, <2>5, <2>6, RequestFrame
<1>5. ASSUME NEW a \in Amounts, PreConsumeRefused(r, a) \/ PreConsumeReplyLost(r, a) PROVE LiveInv'
  <2>1. a \in Nat /\ Over(r, "over", 0) /\ req[r].pc = "new" /\ UNCHANGED <<rep, now>>
    BY <1>5, LedgerConstants DEF PreConsumeRefused, PreConsumeReplyLost
  <2>2. \A q \in Requests \ {r} : sess'[q] = sess[q]
    BY <1>0, <1>5, <2>1, PreConsumeEffect DEF PreConsumeRefused, PreConsumeReplyLost, books
  <2>3. req[r].pc \in Live
    BY <2>1 DEF Live
  <2> QED
    BY <1>2, <2>1, <2>2, <2>3
<1>6. ASSUME NEW a \in Amounts, Reserve(r, a) PROVE LiveInv'
  <2>0. a - req[r].pre \in Nat /\ UNCHANGED <<rep, now>> /\ req[r].pc = "active"
    BY <1>0, <1>6, LedgerConstants DEF Reserve, RequestType
  <2>1. PICK c : req' = [req EXCEPT ![r].pre = a, ![r].cached = c]
    BY <1>6 DEF Reserve
  <2>2. /\ req'[r].pc = req[r].pc /\ req'[r].beat = req[r].beat
        /\ \A q \in Requests \ {r} : req'[q] = req[q]
    BY <1>0, <2>1 DEF RequestType
  <2>3. CASE ReserveMoreTx(r, a - req[r].pre)
    <3>1. sess'[r].status = sess[r].status /\ \A q \in Requests \ {r} : sess'[q] = sess[q]
      BY <1>0, <2>0, <2>3, ReserveEffect
    <3>2. sess'[r].exp = now + TTL
      BY <1>0, <2>3 DEF ReserveMoreTx, SessionType
    <3>3. r \in Relayed => LeaseHolds(r)'
      BY <1>0, <1>1, <2>0, <2>2, <3>1, <3>2 DEF LeaseHolds, Running, Interval
    <3>4. NotBegun(r)' /\ req[r].pc \in Live
      BY <2>0, <2>2 DEF Live, NotBegun
    <3> QED
      BY <2>0, <2>2, <3>1, <3>3, <3>4, RequestFrame
  <2>4. CASE UNCHANGED books
    <3>1. sess' = sess
      BY <2>4 DEF books
    <3>2. r \in Relayed => LeaseHolds(r)'
      BY <1>1, <2>0, <2>2, <3>1 DEF LeaseHolds, Running, Interval
    <3>3. NotBegun(r)' /\ req[r].pc \in Live
      BY <2>0, <2>2 DEF Live, NotBegun
    <3> QED
      BY <2>0, <2>2, <3>1, <3>2, <3>3, RequestFrame
  <2> QED
    BY <1>6, <2>3, <2>4 DEF Reserve
<1>7. ASSUME NEW a \in Amounts, ReserveRefused(r, a) \/ ReserveReplyLost(r, a) PROVE LiveInv'
  <2>0. a - req[r].pre \in Nat /\ UNCHANGED <<rep, now>> /\ req' = [req EXCEPT ![r].pc = "aborting"]
    BY <1>0, <1>7, LedgerConstants DEF ReserveRefused, ReserveReplyLost, RequestType
  <2>1. \A q \in Requests \ {r} : sess'[q] = sess[q]
    BY <1>0, <1>7, <2>0, ReserveEffect DEF ReserveRefused, ReserveReplyLost, books
  <2> QED
    BY <1>3, <2>0, <2>1
<1>8. ASSUME NEW a \in Amounts, Settle(r, a) PROVE LiveInv'
  <2>0. SettleTarget(r, a) \in Int
    BY <1>0, LedgerConstants DEF SettleTarget, RequestType
  <2>1. \A q \in Requests \ {r} : sess'[q] = sess[q]
    BY <1>0, <1>8, <2>0, SettleEffect DEF Settle
  <2>2. Over(r, "settled", a) /\ UNCHANGED <<rep, now>> /\ req[r].pc \in Live
    BY <1>8 DEF Settle, Live
  <2> QED
    BY <1>2, <2>1, <2>2
<1>9. ASSUME NEW a \in Amounts, SettleFails(r, a) \/ SettleReplyLost(r, a) PROVE LiveInv'
  <2>0. /\ SettleTarget(r, a) \in Int /\ UNCHANGED <<rep, now>> /\ req[r].pc = "active"
        /\ req' = [req EXCEPT ![r].pc = "ending", ![r].actual = a]
    BY <1>0, <1>9, LedgerConstants DEF SettleTarget, RequestType, SettleFails, SettleReplyLost
  <2>1. /\ req'[r].pc = "ending" /\ req'[r].beat = req[r].beat
        /\ \A q \in Requests \ {r} : req'[q] = req[q]
    BY <1>0, <2>0 DEF RequestType
  <2>2. /\ \A q \in Requests \ {r} : sess'[q] = sess[q]
        /\ sess'[r] = sess[r] \/ sess'[r].status = "settled"
    BY <1>0, <1>9, <2>0, SettleEffect DEF SettleFails, SettleReplyLost, books
  <2>3. r \in Relayed => LeaseHolds(r)'
    BY <1>1, <2>0, <2>1, <2>2 DEF LeaseHolds, Running, Interval
  <2>4. NotBegun(r)' /\ req[r].pc \in Live
    BY <2>0, <2>1 DEF Live, NotBegun
  <2> QED
    BY <2>0, <2>1, <2>2, <2>3, <2>4, RequestFrame
<1>10. CASE ReturnUnsettled(r) \/ RequestDies(r)
  <2>1. Over(r, "over", 0) /\ UNCHANGED <<rep, now>> /\ sess' = sess /\ req[r].pc \in Live \cup {"aborting"}
    BY <1>10 DEF ReturnUnsettled, RequestDies, books, Live, Running
  <2> QED
    BY <1>2, <2>1
<1>11. CASE Abort(r)
  BY <1>3, <1>11 DEF Abort, books
<1>12. CASE BackgroundRefund(r)
  <2>1. Over(r, "over", 0) /\ UNCHANGED <<rep, now>> /\ req[r].pc \in Live \cup {"aborting"}
    BY <1>12 DEF BackgroundRefund
  <2>2. \A q \in Requests \ {r} : sess'[q] = sess[q]
    BY <1>0, <1>12, RefundEffect DEF BackgroundRefund, RefundWithToken, books
  <2> QED
    BY <1>2, <2>1, <2>2
<1>13. CASE Heartbeat(r)
  <2>1. /\ req'[r].pc = req[r].pc /\ req'[r].beat = now + Interval
        /\ \A q \in Requests \ {r} : req'[q] = req[q]
    BY <1>0, <1>13 DEF Heartbeat, RequestType
  <2>2. UNCHANGED <<rep, now>> /\ r \in Relayed /\ Running(r)
    BY <1>13 DEF Heartbeat
  <2>3. /\ \A q \in Requests \ {r} : sess'[q] = sess[q]
        /\ sess'[r].status = sess[r].status
        /\ sess[r].status = "pre_consumed" => sess'[r].exp = now + TTL
    BY <1>0, <1>13 DEF Heartbeat, SessionType
  <2>4. LeaseHolds(r)'
    BY <1>0, <1>1, <2>1, <2>2, <2>3 DEF LeaseHolds, Interval
  <2>5. NotBegun(r)' /\ req[r].pc \in Live
    BY <2>1, <2>2 DEF Live, Running, NotBegun
  <2> QED
    BY <2>1, <2>2, <2>3, <2>4, <2>5, RequestFrame
<1>14. CASE PreConsumeZero(r)
  <2>1. /\ req'[r].pc = "opening" /\ req[r].pc = "new" /\ UNCHANGED <<rep, now>>
        /\ \A q \in Requests \ {r} : req'[q] = req[q] /\ sess'[q] = sess[q]
    BY <1>0, <1>14 DEF PreConsumeZero, PreConsumeZeroTx, RequestType
  <2>2. sess'[r] = NewSession(r, 0, "uncommitted")
    BY <1>0, <1>14 DEF PreConsumeZero, PreConsumeZeroTx
  <2>3. NotBegun(r)' /\ ~Running(r)' /\ req[r].pc \in Live
    BY <1>0, <2>1, <2>2, ZeroRow DEF NotBegun, Running, Live
  <2> QED
    BY <2>1, <2>3, RequestFrame
<1>15. CASE CommitZero(r)
  <2>1. /\ req'[r].pc = "active" /\ (r \in Relayed => req'[r].beat = now + Interval)
        /\ req[r].pc = "opening" /\ UNCHANGED <<rep, now>>
        /\ \A q \in Requests \ {r} : req'[q] = req[q]
    BY <1>0, <1>15 DEF CommitZero, Begin
  <2>2. /\ sess'[r].status = "pre_consumed" /\ sess'[r].exp = sess[r].exp
        /\ \A q \in Requests \ {r} : sess'[q] = sess[q]
    BY <1>0, <1>15 DEF CommitZero, CommitZeroTx, SessionType
  <2>3. r \in Relayed => LeaseHolds(r)'
    BY <1>0, <1>1, <2>1, <2>2 DEF LeaseHolds, Interval, NotBegun
  <2>4. NotBegun(r)' /\ req[r].pc \in Live
    BY <2>1 DEF NotBegun, Live
  <2> QED
    BY <2>1, <2>2, <2>3, <2>4, RequestFrame
<1>16. CASE CommitZeroFails(r)
  <2>1. Over(r, "over", 0) /\ UNCHANGED <<rep, now>> /\ req[r].pc \in Live
    BY <1>16 DEF CommitZeroFails, Live
  <2>2. \A q \in Requests \ {r} : sess'[q] = sess[q]
    BY <1>0, <1>16 DEF CommitZeroFails, CommitZeroTx, RollbackZeroTx
  <2> QED
    BY <1>2, <2>1, <2>2
<1> QED
  BY <1>4, <1>5, <1>6, <1>7, <1>8, <1>9, <1>10, <1>11, <1>12, <1>13, <1>14, <1>15, <1>16
  DEF RequestStep

\* What a step of a repair pass has to keep so that LiveInv holds for everybody.
LEMMA RepairFrame ==
  ASSUME LiveInv, TypeOK, NEW w \in Repairers, NEW p, Pass(w, p), UNCHANGED <<req, now>>,
         p.at <= now,
         \A q \in Relayed : q \in InPass(p) => q \in InPass(rep[w]) \/ req[q].pc \notin Live,
         \A q \in Requests : sess'[q] = sess[q] \/
                             (req[q].pc \notin {"new", "opening"} /\ (q \in Relayed => ~Running(q)))
  PROVE  LiveInv'
<1>0. Relayed \subseteq Requests /\ rep \in [Repairers -> RepairType] /\ now \in Nat
  BY LedgerConstants DEF TypeOK, MemoryType
<1>1. \A q \in Requests : NotBegun(q)'
  BY DEF LiveInv, NotBegun
<1>2. ASSUME NEW q \in Relayed, Running(q)' PROVE LeaseHolds(q)'
  <2>1. Running(q) /\ sess'[q] = sess[q]
    BY <1>0, <1>2 DEF Running
  <2> QED
    BY <1>2, <2>1 DEF LiveInv, LeaseHolds, Interval
<1>3. ASSUME NEW v \in Repairers
      PROVE  /\ rep'[v].at <= now'
             /\ \A q \in Relayed : q \in InPass(rep'[v]) => req'[q].pc \notin Live
  <2>1. CASE v # w
    <3>1. rep'[v] = rep[v]
      BY <1>0, <2>1 DEF Pass
    <3> QED
      BY <3>1 DEF LiveInv
  <2>2. CASE v = w /\ rep'[w] = p
    BY <2>2 DEF LiveInv
  <2>3. CASE v = w /\ rep'[w] = NoRepair
    <3>1. NoRepair.at = 0 /\ InPass(NoRepair) = {}
      BY DEF NoRepair, InPass
    <3> QED
      BY <1>0, <2>3, <3>1
  <2> QED
    BY <1>0, <2>1, <2>2, <2>3 DEF Pass
<1> QED
  BY <1>1, <1>2, <1>3 DEF LiveInv, InPass

\* A step of a repair pass keeps the leases: it claims only what has expired, and what a
\* live request holds has not.
LEMMA RepairStepLive ==
  ASSUME TypeOK, LiveInv, NEW w \in Repairers, RepairWork(w) \/ RepairFault(w)
  PROVE  LiveInv'
<1>0. /\ now \in Nat /\ BooksType /\ sess \in [Requests -> SessionType]
      /\ rep \in [Repairers -> RepairType] /\ Relayed \subseteq Requests
      /\ rep[w] \in RepairType /\ rep[w].at \in Nat /\ rep[w].at <= now
  BY LedgerConstants DEF TypeOK, MemoryType, BooksType, RepairType, LiveInv
<1>1. ASSUME NEW r \in Requests, r \in InPass(rep[w])
      PROVE  r \in Relayed => ~Running(r)
  BY <1>1 DEF LiveInv, Live, Running
<1>2. CASE RepairScan(w)
  <2> DEFINE p == [NoRepair EXCEPT !.at = now, !.cand = {r \in Requests : Claimable(sess[r], now)}]
  <2>1. Pass(w, p) /\ UNCHANGED <<req, now>> /\ sess' = sess
    BY <1>2 DEF RepairScan, books
  <2>2. p.at = now /\ InPass(p) = {}
    BY DEF NoRepair, InPass
  <2> HIDE DEF p
  <2> QED
    BY <1>0, <2>1, <2>2, RepairFrame
<1>3. ASSUME NEW r \in Requests, RepairClaim(w, r) PROVE LiveInv'
  <2>1. CASE Claimable(sess[r], rep[w].at)
    <3> DEFINE p == [rep[w] EXCEPT !.cand = rep[w].cand \ {r}, !.claimed = rep[w].claimed \cup {r}]
    <3>1. Pass(w, p) /\ UNCHANGED <<req, now>> /\ \A q \in Requests \ {r} : sess'[q] = sess[q]
      BY <1>0, <1>3, <2>1 DEF RepairClaim
    <3>2. p.at = rep[w].at /\ InPass(p) = InPass(rep[w]) \cup {r}
      BY <1>0 DEF InPass, RepairType
    <3>3. req[r].pc \notin {"new", "opening"}
      BY <2>1 DEF Claimable, LiveInv, NotBegun
    <3>4. r \in Relayed => ~Running(r)
      <4>1. sess[r].exp \in Nat
        BY <1>0 DEF SessionType
      <4>2. r \in Relayed => req[r].beat \in Nat
        BY <1>0 DEF TypeOK, MemoryType, RequestType
      <4> QED
        BY <1>0, <2>1, <4>1, <4>2 DEF Claimable, LiveInv, LeaseHolds
    <3>5. r \in Relayed => req[r].pc \notin Live
      BY <3>3, <3>4 DEF Live, Running
    <3> HIDE DEF p
    <3> QED
      BY <1>0, <3>1, <3>2, <3>3, <3>4, <3>5, RepairFrame
  <2>2. CASE ~Claimable(sess[r], rep[w].at)
    <3> DEFINE p == [rep[w] EXCEPT !.cand = rep[w].cand \ {r}]
    <3>1. Pass(w, p) /\ UNCHANGED <<req, now>> /\ sess' = sess
      BY <1>3, <2>2 DEF RepairClaim
    <3>2. p.at = rep[w].at /\ InPass(p) = InPass(rep[w])
      BY <1>0 DEF InPass, RepairType
    <3> HIDE DEF p
    <3> QED
      BY <1>0, <3>1, <3>2, RepairFrame
  <2> QED
    BY <2>1, <2>2
<1>4. ASSUME NEW r \in Requests, RepairReread(w, r) PROVE LiveInv'
  <2> DEFINE p == [rep[w] EXCEPT !.claimed = rep[w].claimed \ {r},
                             !.picked = IF sess[r].status = "repairing" THEN {r} ELSE {}]
  <2>1. Pass(w, p) /\ UNCHANGED <<req, now>> /\ sess' = sess /\ r \in rep[w].claimed
    BY <1>4 DEF RepairReread, books
  <2>2. p.at = rep[w].at /\ InPass(p) \subseteq InPass(rep[w])
    BY <1>0, <2>1 DEF InPass, RepairType
  <2> HIDE DEF p
  <2> QED
    BY <1>0, <2>1, <2>2, RepairFrame
<1>5. ASSUME NEW r \in Requests, sess[r].status \notin Unopened
      PROVE  req[r].pc \notin {"new", "opening"}
  BY <1>5 DEF LiveInv, NotBegun, Unopened
<1>6. ASSUME NEW r \in Requests, r \in rep[w].picked, RefundWithToken(r) \/ UNCHANGED books
      PROVE  \A q \in Requests : sess'[q] = sess[q] \/
                                 (req[q].pc \notin {"new", "opening"} /\ (q \in Relayed => ~Running(q)))
  <2>1. CASE UNCHANGED books
    BY <2>1 DEF books
  <2>2. CASE RefundTx(r)
    <3>1. sess[r].status \notin Unopened /\ \A q \in Requests \ {r} : sess'[q] = sess[q]
      BY <1>0, <2>2, RefundEffect DEF Open, Unopened
    <3>2. r \in InPass(rep[w])
      BY <1>6 DEF InPass
    <3> QED
      BY <1>1, <1>5, <3>1, <3>2
  <2> QED
    BY <1>6, <2>1, <2>2 DEF RefundWithToken
<1>7. ASSUME NEW r \in Requests, RepairRefund(w, r) PROVE LiveInv'
  <2> DEFINE p == [rep[w] EXCEPT !.picked = {}]
  <2>1. Pass(w, p) /\ UNCHANGED <<req, now>> /\ r \in rep[w].picked /\ RefundWithToken(r)
    BY <1>7 DEF RepairRefund
  <2>2. p.at = rep[w].at /\ InPass(p) \subseteq InPass(rep[w])
    BY <1>0 DEF InPass, RepairType
  <2> HIDE DEF p
  <2> QED
    BY <1>0, <1>6, <2>1, <2>2, RepairFrame
<1>8. ASSUME NEW r \in Requests, RepairRefundFails(w, r) PROVE LiveInv'
  <2> DEFINE p == [rep[w] EXCEPT !.picked = {}, !.failing = {r}]
  <2>1. /\ Pass(w, p) /\ UNCHANGED <<req, now>> /\ r \in rep[w].picked
        /\ RefundWithToken(r) \/ UNCHANGED books
    BY <1>8 DEF RepairRefundFails
  <2>2. p.at = rep[w].at /\ InPass(p) \subseteq InPass(rep[w])
    BY <1>0, <2>1 DEF InPass, RepairType
  <2> HIDE DEF p
  <2> QED
    BY <1>0, <1>6, <2>1, <2>2, RepairFrame
<1>9. ASSUME NEW r \in Requests, RepairMarkFailed(w, r) PROVE LiveInv'
  <2> DEFINE p == [rep[w] EXCEPT !.failing = {}]
  <2>1. /\ Pass(w, p) /\ UNCHANGED <<req, now>> /\ r \in rep[w].failing
        /\ \A q \in Requests \ {r} : sess'[q] = sess[q]
        /\ sess'[r] = sess[r] \/ sess[r].status \notin Unopened
    BY <1>0, <1>9 DEF RepairMarkFailed, Unopened
  <2>2. p.at = rep[w].at /\ InPass(p) \subseteq InPass(rep[w]) /\ r \in InPass(rep[w])
    BY <1>0, <2>1 DEF InPass, RepairType
  <2>3. \A q \in Requests : sess'[q] = sess[q] \/
                            (req[q].pc \notin {"new", "opening"} /\ (q \in Relayed => ~Running(q)))
    BY <1>1, <1>5, <2>1, <2>2
  <2> HIDE DEF p
  <2> QED
    BY <1>0, <2>1, <2>2, <2>3, RepairFrame
<1>10. CASE RepairAbandon(w)
  <2>1. rep' = [rep EXCEPT ![w] = NoRepair] /\ UNCHANGED <<req, now>> /\ sess' = sess
    BY <1>10 DEF RepairAbandon, books
  <2>2. Pass(w, NoRepair)
    BY <2>1 DEF Pass
  <2>3. NoRepair.at = 0 /\ InPass(NoRepair) = {}
    BY DEF NoRepair, InPass
  <2> QED
    BY <1>0, <2>1, <2>2, <2>3, RepairFrame
<1> QED
  BY <1>2, <1>3, <1>4, <1>7, <1>8, <1>9, <1>10 DEF RepairWork, RepairFault

\* With the clock waiting for due heartbeats, every step keeps the leases.
LEMMA LiveInvStep ==
  ASSUME BeatsOnTime, TTL > 1, TypeOK, LiveInv, [Next]_vars
  PROVE  LiveInv'
<1>0. now \in Nat /\ Relayed \subseteq Requests /\ Interval \in Nat
  BY LedgerConstants, IntervalFits DEF TypeOK, MemoryType
<1>1. CASE Tick
  <2>1. /\ now' = now + 1 /\ UNCHANGED <<books, req, rep>>
        /\ \A r \in Relayed : req[r].pc # "opening" /\ (Running(r) => now < req[r].beat)
    BY <1>1 DEF Tick
  <2>2. sess' = sess /\ req' = req /\ rep' = rep
    BY <2>1 DEF books
  <2>3. ASSUME NEW r \in Relayed, Running(r)' PROVE LeaseHolds(r)'
    <3>1. Running(r) /\ LeaseHolds(r) /\ now < req[r].beat /\ req[r].beat \in Nat
      BY <1>0, <2>1, <2>2, <2>3 DEF LiveInv, Running, TypeOK, MemoryType, RequestType
    <3> QED
      BY <1>0, <2>1, <2>2, <3>1 DEF LeaseHolds, Interval
  <2>4. ASSUME NEW w \in Repairers
        PROVE  /\ rep'[w].at <= now'
               /\ \A r \in Relayed : r \in InPass(rep'[w]) => req'[r].pc \notin Live
    <3>1. rep[w].at \in Nat
      BY DEF TypeOK, MemoryType, RepairType
    <3> QED
      BY <1>0, <2>1, <2>2, <3>1 DEF LiveInv
  <2>5. \A r \in Requests : NotBegun(r)'
    BY <2>1, <2>2 DEF LiveInv, NotBegun
  <2> QED
    BY <2>3, <2>4, <2>5 DEF LiveInv, InPass
<1>2. ASSUME UNCHANGED <<sess, req, rep, now>> PROVE LiveInv'
  BY <1>2 DEF LiveInv, NotBegun, LeaseHolds, Running, InPass, Interval
<1>3. CASE AdminAction
  BY <1>2, <1>3 DEF AdminAction, AdjustQuota, SetStatus, Dissolve, DeleteToken, EditToken,
    DeleteMemberRow, ConsumeDirect
<1>4. CASE UNCHANGED vars
  BY <1>2, <1>4 DEF vars
<1> QED
  BY <1>1, <1>3, <1>4, RequestStepLive, RepairStepLive DEF Next

\* As long as heartbeats come in time, which is what the ticker of half the TTL is for, the
\* repair task never claims, marks or refunds the session of a request that still runs.
THEOREM LiveRequestsKeepTheirSessions ==
  ASSUME BeatsOnTime, TTL > 1
  PROVE  Spec => []LiveNeverClaimed
<1>1. Init => LiveInv
  <2> SUFFICES ASSUME Init PROVE LiveInv
    OBVIOUS
  <2>1. \A r \in Requests : sess[r].status = "none" /\ req[r].pc = "new"
    BY DEF Init, NoSession, NoMemory
  <2>2. \A w \in Repairers : rep[w].at <= now /\ InPass(rep[w]) = {}
    BY DEF Init, NoRepair, InPass
  <2> QED
    BY <2>1, <2>2, LedgerConstants DEF LiveInv, NotBegun, Running
<1>2. TypeOK /\ LiveInv /\ [Next]_vars => LiveInv'
  BY LiveInvStep
<1>3. LiveInv => LiveNeverClaimed
  BY DEF LiveInv, LeaseHolds, LiveNeverClaimed
<1> QED
  BY <1>1, <1>2, <1>3, TypeCorrect, PTL DEF Spec
=============================================================================
