--------------------------- MODULE AsyncTaskProofs ---------------------------
(***************************************************************************)
(* Proofs about asynchronous tasks, for every number of tasks, nodes and   *)
(* faults and for all prices.                                              *)
(***************************************************************************)
EXTENDS AsyncTask, TLAPS

(***************************************************************************)
(* The inductive invariant.                                                *)
(***************************************************************************)

\* Node n has a copy of row t that it has still to act on.
Holds(n, t) == t \in node[n].todo \/ (node[n].at = "answer" /\ node[n].task = t)

\* Such a copy is of an unfinished row, and its quota is the price the task was stored
\* with: nothing writes the quota of an unfinished row.
CopyOK(n, t) ==
    Holds(n, t) => /\ row[t].status # "absent" /\ node[n].mem[t].status \in Unfinished
                   /\ ~kind[t].live => node[n].mem[t].quota = sub[t].quota

\* A success was reported by a job that has ended, so its usage will not change.
Succeeded(t) == job[t].state \in {"SUCCESS", "immediate"}
AnswerOK(n) == node[n].at = "answer" /\ node[n].ans = "SUCCESS" => Succeeded(node[n].task)

\* A node that bills has ended the row, and will charge what the outcome is worth.
BillOK(n, t) ==
    Billing(n, t) /\ ~kind[t].live =>
        /\ row[t].status \in Terminal /\ node[n].due \in Worth(t)
        /\ node[n].at = "bill" => node[n].mem[t].quota = sub[t].quota

\* At most one node bills a task.
OneBiller ==
    \A n, m \in Nodes, t \in Tasks :
        ~kind[t].live /\ Billing(n, t) /\ Billing(m, t) => n = m

\* The row and the job of a task, as the submission left them or later.
RowOK(t) ==
    /\ job[t].metered \/ job[t].usage # 0 => job[t].state \in Terminal
    /\ sub[t].at \in {"new", "charged", "accepted"} => row[t].status = "absent"
    /\ sub[t].at \in {"durable", "lost"} => row[t].status # "absent"
    /\ sub[t].at \in {"accepted", "durable"} => sub[t].pre >= sub[t].quota
    /\ sub[t].at = "lost" => t \in spoiled
    /\ get[t] # NoRow => get[t].status # "absent"
    /\ ~kind[t].live =>
         /\ get[t] = NoRow
         /\ row[t].status \in Unfinished => row[t].quota = sub[t].quota
         /\ row[t].status = "SUCCESS" => Succeeded(t)

\* What the payer has given once the submission has settled.
Given(t) == held[t] - (IF sub[t].at = "durable" THEN sub[t].pre - sub[t].quota ELSE 0)

\* `x` is at least y, and exactly y unless a fault has touched the task.
Covers(t, x, y) == x >= y /\ (t \notin spoiled => x = y)

\* The wallet of a task: the reservation, the price, what is due, what the outcome is worth.
WalletOK(t) ==
    ~IsOrg(t) /\ ~kind[t].live /\ sub[t].at # "lost" =>
        /\ row[t].status = "absent" => /\ held[t] >= 0
                                       /\ sub[t].at \in {"charged", "accepted"} => held[t] = sub[t].pre
        /\ row[t].status \in Unfinished => Covers(t, Given(t), sub[t].quota)
        /\ \A n \in Nodes : Billing(n, t) =>
             Covers(t, Given(t), IF node[n].at = "bill" THEN sub[t].quota ELSE node[n].due)
        /\ row[t].status \in Terminal /\ (\A n \in Nodes : ~Billing(n, t)) =>
             /\ Given(t) >= 0
             /\ t \notin spoiled => Given(t) = row[t].quota /\ Given(t) \in Worth(t)

AsyncInv ==
    /\ TypeOK /\ OneBiller
    /\ \A n \in Nodes : AnswerOK(n) /\ \A t \in Tasks : CopyOK(n, t) /\ BillOK(n, t)
    /\ \A t \in Tasks : RowOK(t) /\ WalletOK(t) /\ (IsOrg(t) => held[t] >= 0)

(***************************************************************************)
(* The facts every step starts from.                                       *)
(***************************************************************************)

\* Quotas are natural numbers.
LEMMA QuotaFacts == Quotas \subseteq Nat
  BY AsyncAssumption DEF Quotas

\* The types of what a step reads of a task.
LEMMA TaskFacts ==
  ASSUME TypeOK, NEW t \in Tasks
  PROVE  /\ sub[t].pre \in Nat /\ sub[t].quota \in Nat /\ job[t].usage \in Nat /\ held[t] \in Int
         /\ sub[t].pre \in Quotas /\ sub[t].quota \in Quotas /\ job[t].usage \in Quotas
         /\ sub[t].at \in {"new", "charged", "accepted", "durable", "over", "lost"}
         /\ row[t] \in Row /\ get[t] \in Row
         /\ row[t].status \in {"absent"} \cup Unfinished \cup Terminal
         /\ row[t].quota \in Nat
  BY QuotaFacts DEF TypeOK, Row

\* A task without a row is in nobody's hands.
LEMMA NotStored ==
  ASSUME AsyncInv, NEW t \in Tasks, row[t].status = "absent", NEW n \in Nodes
  PROVE  ~Holds(n, t) /\ (~kind[t].live => ~Billing(n, t))
  BY DEF AsyncInv, CopyOK, BillOK, Terminal

\* Only what concerns task t has changed, and no pass.
LEMMA TaskStep ==
  ASSUME AsyncInv, NEW t \in Tasks, UNCHANGED <<kind, node>>, TypeOK',
         \A x \in Tasks \ {t} : /\ sub'[x] = sub[x] /\ job'[x] = job[x] /\ row'[x] = row[x]
                                /\ get'[x] = get[x] /\ held'[x] = held[x],
         \A x \in Tasks \ {t} : x \in spoiled' <=> x \in spoiled,
         (\E n \in Nodes : Holds(n, t)) /\ Succeeded(t) => Succeeded(t)',
         \A n \in Nodes : CopyOK(n, t)' /\ BillOK(n, t)',
         RowOK(t)', WalletOK(t)', IsOrg(t) => held'[t] >= 0
  PROVE  AsyncInv'
<1>1. OneBiller'
  BY DEF AsyncInv, OneBiller, Billing
<1>2. ASSUME NEW n \in Nodes PROVE AnswerOK(n)'
  <2>1. AnswerOK(n)
    BY DEF AsyncInv
  <2>2. node[n].task \in Tasks
    BY DEF AsyncInv, TypeOK, Pass
  <2>3. node[n].at = "answer" /\ Succeeded(node[n].task) => Succeeded(node[n].task)'
    BY <2>2 DEF Succeeded, Holds
  <2> QED
    BY <2>1, <2>2, <2>3 DEF AnswerOK, Succeeded
<1>3. ASSUME NEW n \in Nodes, NEW x \in Tasks \ {t} PROVE CopyOK(n, x)' /\ BillOK(n, x)'
  <2>1. CopyOK(n, x) /\ BillOK(n, x)
    BY DEF AsyncInv
  <2>2. CopyOK(n, x)'
    BY <2>1 DEF CopyOK, Holds
  <2>3. BillOK(n, x)'
    BY <2>1 DEF BillOK, Billing, Worth
  <2> QED
    BY <2>2, <2>3
<1>4. ASSUME NEW x \in Tasks \ {t} PROVE RowOK(x)' /\ WalletOK(x)' /\ (IsOrg(x) => held[x] >= 0)'
  <2>1. RowOK(x) /\ WalletOK(x) /\ (IsOrg(x) => held[x] >= 0)
    BY DEF AsyncInv
  <2>2. RowOK(x)'
    BY <2>1 DEF RowOK, Succeeded
  <2>3. Given(x)' = Given(x) /\ Worth(x)' = Worth(x)
    BY DEF Given, Worth
  <2>4. WalletOK(x)'
    BY <2>1, <2>3 DEF WalletOK, Covers, Billing, IsOrg
  <2> QED
    BY <2>1, <2>2, <2>4 DEF IsOrg
<1>5. IsOrg(t)' => held'[t] >= 0
  BY DEF IsOrg
<1> QED
  BY <1>1, <1>2, <1>3, <1>4, <1>5 DEF AsyncInv

(***************************************************************************)
(* The submission, the job and the queries of the caller.                  *)
(***************************************************************************)

\* Until its row is stored a task is only reserved for, refunded or priced.
LEMMA UnstoredStep ==
  ASSUME AsyncInv, NEW t \in Tasks, PreConsume(t) \/ SubmitFails(t) \/ SubmitAccepted(t)
  PROVE  AsyncInv'
<1>0. TypeOK /\ RowOK(t) /\ row[t].status = "absent" /\ (IsOrg(t) => held[t] >= 0) /\ WalletOK(t)
      /\ UNCHANGED <<kind, row, node, get, inputs, spoiled>>
  BY DEF AsyncInv, RowOK, PreConsume, SubmitFails, SubmitAccepted
<1>1. /\ sub[t].pre \in Nat /\ sub[t].quota \in Nat /\ job[t].usage \in Nat /\ held[t] \in Int
      /\ sub[t].pre \in Quotas /\ sub[t].quota \in Quotas
  BY <1>0, TaskFacts
<1> DEFINE Left(a, p, q, h) ==
             /\ sub'[t].at = a /\ sub'[t].pre = p /\ sub'[t].quota = q
             /\ \A x \in Tasks \ {t} : sub'[x] = sub[x]
             /\ sub' \in [Tasks -> [at : {"new", "charged", "accepted", "durable", "over", "lost"},
                                   pre : Quotas, quota : Quotas]]
             /\ held' = [held EXCEPT ![t] = h]
             /\ a # "over" => h = p
             /\ a = "accepted" => p >= q
             /\ UNCHANGED job \/ \E s \in {"queued", "immediate"}, i \in BOOLEAN :
                                   job' = [job EXCEPT ![t] = [state |-> s, metered |-> FALSE, usage |-> 0, id |-> i]]
<1>2. PICK a \in {"charged", "accepted", "over"}, p \in Quotas, q \in Quotas, h \in Nat :
        Left(a, p, q, h)
  <2>1. CASE PreConsume(t)
    <3>1. PICK q \in Estimates : /\ sub' = [sub EXCEPT ![t].at = "charged", ![t].pre = q]
                                 /\ held' = [held EXCEPT ![t] = q] /\ UNCHANGED job
      BY <2>1 DEF PreConsume
    <3>2. q \in Quotas /\ q \in Nat
      BY AsyncAssumption DEF Quotas
    <3>3. Left("charged", q, sub[t].quota, q)
      BY <1>0, <3>1, <3>2 DEF TypeOK
    <3> HIDE DEF Left
    <3> QED
      BY <1>1, <3>2, <3>3
  <2>2. CASE SubmitFails(t)
    <3>1. sub' = [sub EXCEPT ![t].at = "over"] /\ held' = [held EXCEPT ![t] = 0] /\ UNCHANGED job
      BY <2>2 DEF SubmitFails, RefundSubmission, RefundSession
    <3>2. Left("over", sub[t].pre, sub[t].quota, 0)
      BY <1>0, <3>1 DEF TypeOK
    <3> HIDE DEF Left
    <3> QED
      BY <1>1, <3>2
  <2>3. CASE SubmitAccepted(t)
    <3>1. PICK q \in Amounts, i \in BOOLEAN, s \in {"queued", "immediate"} :
            LET paid == IF q > sub[t].pre THEN q ELSE sub[t].pre IN
            /\ sub' = [sub EXCEPT ![t] = [at |-> "accepted", pre |-> paid, quota |-> q]]
            /\ held' = [held EXCEPT ![t] = paid]
            /\ job' = [job EXCEPT ![t] = [state |-> s, metered |-> FALSE, usage |-> 0, id |-> i]]
      BY <2>3 DEF SubmitAccepted
    <3> DEFINE paid == IF q > sub[t].pre THEN q ELSE sub[t].pre
    <3>2. q \in Quotas /\ q \in Nat /\ paid \in Quotas /\ paid \in Nat /\ paid >= q
      BY <1>1, AsyncAssumption DEF Quotas
    <3>3. /\ sub' = [sub EXCEPT ![t] = [at |-> "accepted", pre |-> paid, quota |-> q]]
          /\ held' = [held EXCEPT ![t] = paid]
          /\ job' = [job EXCEPT ![t] = [state |-> s, metered |-> FALSE, usage |-> 0, id |-> i]]
      BY <3>1
    <3> HIDE DEF paid
    <3>4. Left("accepted", paid, q, paid)
      BY <1>0, <3>2, <3>3 DEF TypeOK
    <3> HIDE DEF Left
    <3> QED
      BY <3>2, <3>4
  <2> QED
    BY <2>1, <2>2, <2>3
<1>3. /\ sub'[t].at = a /\ sub'[t].pre = p /\ sub'[t].quota = q /\ held'[t] = h
      /\ \A x \in Tasks \ {t} : /\ sub'[x] = sub[x] /\ job'[x] = job[x] /\ row'[x] = row[x]
                                /\ get'[x] = get[x] /\ held'[x] = held[x]
  BY <1>0, <1>2 DEF TypeOK
<1>4. job'[t].metered \/ job'[t].usage # 0 => job'[t].state \in Terminal
  BY <1>0, <1>2 DEF TypeOK, RowOK
<1>5. TypeOK'
  <2>1. sub' \in [Tasks -> [at : {"new", "charged", "accepted", "durable", "over", "lost"},
                            pre : Quotas, quota : Quotas]]
    BY <1>0, <1>2 DEF TypeOK
  <2>2. held' \in [Tasks -> Int]
    BY <1>0, <1>2 DEF TypeOK
  <2>3. sess' \in [Tasks -> {"none", "pre_consumed", "settled", "refunded"}]
    <3>1. CASE PreConsume(t)
      BY <1>0, <3>1 DEF TypeOK, PreConsume
    <3>2. CASE SubmitFails(t)
      BY <1>0, <3>2 DEF TypeOK, SubmitFails, RefundSubmission, RefundSession
    <3>3. CASE SubmitAccepted(t)
      BY <1>0, <3>3 DEF TypeOK, SubmitAccepted
    <3> QED
      BY <3>1, <3>2, <3>3
  <2>4. job' \in [Tasks -> [state : {"none", "queued", "immediate", "IN_PROGRESS", "gone"} \cup Terminal,
                            metered : BOOLEAN, usage : Quotas, id : BOOLEAN]]
    <3>1. 0 \in Quotas
      BY DEF Quotas
    <3>2. UNCHANGED job \/ \E s \in {"queued", "immediate"}, i \in BOOLEAN :
                             job' = [job EXCEPT ![t] = [state |-> s, metered |-> FALSE, usage |-> 0, id |-> i]]
      BY <1>2
    <3>3. ASSUME NEW s \in {"queued", "immediate"}, NEW i \in BOOLEAN
          PROVE  [state |-> s, metered |-> FALSE, usage |-> 0, id |-> i]
                   \in [state : {"none", "queued", "immediate", "IN_PROGRESS", "gone"} \cup Terminal,
                       metered : BOOLEAN, usage : Quotas, id : BOOLEAN]
      BY <3>1
    <3>4. job \in [Tasks -> [state : {"none", "queued", "immediate", "IN_PROGRESS", "gone"} \cup Terminal,
                            metered : BOOLEAN, usage : Quotas, id : BOOLEAN]]
      BY <1>0 DEF TypeOK
    <3>5. CASE UNCHANGED job
      BY <3>4, <3>5
    <3>6. CASE \E s \in {"queued", "immediate"}, i \in BOOLEAN :
                 job' = [job EXCEPT ![t] = [state |-> s, metered |-> FALSE, usage |-> 0, id |-> i]]
      <4> DEFINE JobType == [state : {"none", "queued", "immediate", "IN_PROGRESS", "gone"} \cup Terminal,
                             metered : BOOLEAN, usage : Quotas, id : BOOLEAN]
      <4>1. PICK s \in {"queued", "immediate"}, i \in BOOLEAN :
              job' = [job EXCEPT ![t] = [state |-> s, metered |-> FALSE, usage |-> 0, id |-> i]]
        BY <3>6
      <4>2. PICK new \in JobType : job' = [job EXCEPT ![t] = new]
        BY <3>3, <4>1
      <4>3. job \in [Tasks -> JobType]
        BY <3>4
      <4> HIDE DEF JobType
      <4>4. job' \in [Tasks -> JobType]
        BY <4>2, <4>3
      <4> QED
        BY <4>4 DEF JobType
    <3> QED
      BY <3>2, <3>5, <3>6
  <2> QED
    BY <1>0, <2>1, <2>2, <2>3, <2>4 DEF TypeOK
<1>6. \A n \in Nodes : CopyOK(n, t)' /\ BillOK(n, t)'
  BY <1>0, NotStored DEF CopyOK, BillOK, Holds, Billing
<1>7. RowOK(t)'
  BY <1>0, <1>2, <1>3, <1>4 DEF RowOK, Unfinished
<1>8. WalletOK(t)'
  <2>1. ~kind[t].live => \A n \in Nodes : ~Billing(n, t)'
    BY <1>0, NotStored DEF Billing
  <2> QED
    BY <1>0, <1>2, <1>3, <2>1 DEF WalletOK, Unfinished, Terminal, IsOrg
<1>9. \A n \in Nodes : ~Holds(n, t)
  BY <1>0, NotStored
<1> QED
  BY <1>0, <1>2, <1>3, <1>5, <1>6, <1>7, <1>8, <1>9, TaskStep

\* The row of a task is stored; the reply may be lost.
LEMMA InsertStep ==
  ASSUME AsyncInv, NEW t \in Tasks, Insert(t) \/ InsertLost(t)
  PROVE  AsyncInv'
<1>0. /\ TypeOK /\ RowOK(t) /\ WalletOK(t) /\ (IsOrg(t) => held[t] >= 0) /\ sub[t].at = "accepted"
      /\ row[t].status = "absent" /\ UNCHANGED <<kind, job, node, get>> /\ InsertRow(t)
  BY DEF AsyncInv, RowOK, Insert, InsertLost
<1>1. /\ sub[t].pre \in Nat /\ sub[t].quota \in Nat /\ job[t].usage \in Nat /\ held[t] \in Int
      /\ sub[t].quota \in Quotas /\ sub[t].pre >= sub[t].quota
  BY <1>0, TaskFacts DEF RowOK
<1> DEFINE st == IF job[t].state = "immediate" THEN "SUCCESS" ELSE "NOT_START"
           new == [NoRow EXCEPT !.status = st, !.quota = sub[t].quota, !.full = job[t].state = "immediate"]
<1>2. /\ row' = [row EXCEPT ![t] = new] /\ new \in Row /\ new.status = st /\ new.quota = sub[t].quota
      /\ st \in {"SUCCESS", "NOT_START"}
  BY <1>0, <1>1 DEF InsertRow, NoRow, Row, Unfinished, Terminal
<1>3. row' \in [Tasks -> Row] /\ row'[t] = new /\ \A x \in Tasks \ {t} : row'[x] = row[x]
  BY <1>0, <1>2 DEF TypeOK
<1>4. \A n \in Nodes : ~Holds(n, t)
  BY <1>0, NotStored
<1>5. ~kind[t].live => \A n \in Nodes : ~Billing(n, t)
  BY <1>0, NotStored
<1>6. \A n \in Nodes : CopyOK(n, t)' /\ BillOK(n, t)'
  BY <1>0, <1>4, <1>5 DEF CopyOK, BillOK, Holds, Billing
<1>7. Succeeded(t) => Succeeded(t)'
  BY <1>0 DEF Succeeded
<1> HIDE DEF new
<1>8. CASE Insert(t)
  <2>1. /\ sub' = [sub EXCEPT ![t].at = "durable"] /\ UNCHANGED <<held, sess, inputs, spoiled>>
    BY <1>8 DEF Insert
  <2>2. /\ sub' \in [Tasks -> [at : {"new", "charged", "accepted", "durable", "over", "lost"},
                            pre : Quotas, quota : Quotas]]
        /\ sub'[t].at = "durable" /\ sub'[t].pre = sub[t].pre /\ sub'[t].quota = sub[t].quota
        /\ \A x \in Tasks \ {t} : sub'[x] = sub[x]
    BY <1>0, <2>1 DEF TypeOK
  <2>3. TypeOK'
    BY <1>0, <1>3, <2>1, <2>2 DEF TypeOK
  <2>4. RowOK(t)'
    BY <1>0, <1>1, <1>2, <1>3, <2>1, <2>2 DEF RowOK, Succeeded, Unfinished
  <2>5. WalletOK(t)'
    <3> SUFFICES ASSUME ~IsOrg(t), ~kind[t].live PROVE WalletOK(t)'
      BY <1>0 DEF WalletOK, IsOrg
    <3>1. held[t] = sub[t].pre
      BY <1>0 DEF WalletOK
    <3>2. Given(t)' = sub[t].quota
      BY <1>1, <2>1, <2>2, <3>1 DEF Given
    <3>3. \A n \in Nodes : ~Billing(n, t)'
      BY <1>0, <1>5 DEF Billing
    <3>4. row'[t].status = "SUCCESS" => Worth(t)' = {sub[t].quota}
      BY <1>0, <1>2, <1>3, <2>2 DEF Worth, RowOK, Terminal
    <3>5. row'[t].status # "absent" /\ row'[t].quota = sub[t].quota
          /\ (row'[t].status \in Terminal => row'[t].status = "SUCCESS")
      BY <1>2, <1>3 DEF Terminal
    <3>6. Covers(t, Given(t), sub[t].quota)'
      BY <1>1, <2>2, <3>2 DEF Covers
    <3>7. Given(t)' >= 0
      BY <1>1, <3>2
    <3> QED
      BY <2>2, <3>2, <3>3, <3>4, <3>5, <3>6, <3>7 DEF WalletOK
  <2> QED
    BY <1>0, <1>3, <1>6, <1>7, <2>1, <2>2, <2>3, <2>4, <2>5, TaskStep
<1>9. CASE InsertLost(t)
  <2>1. /\ sub' = [sub EXCEPT ![t].at = "lost"] /\ RefundSession(t)
        /\ spoiled' = spoiled \cup {t} /\ inputs' = inputs - 1 /\ inputs > 0
    BY <1>9 DEF InsertLost, Fault, Input
  <2>2. /\ sub' \in [Tasks -> [at : {"new", "charged", "accepted", "durable", "over", "lost"},
                            pre : Quotas, quota : Quotas]]
        /\ sub'[t].at = "lost" /\ sub'[t].pre = sub[t].pre /\ sub'[t].quota = sub[t].quota
        /\ \A x \in Tasks \ {t} : sub'[x] = sub[x]
    BY <1>0, <2>1 DEF TypeOK
  <2>3. /\ held' \in [Tasks -> Int] /\ held'[t] = 0 /\ \A x \in Tasks \ {t} : held'[x] = held[x]
        /\ sess' \in [Tasks -> {"none", "pre_consumed", "settled", "refunded"}]
    BY <1>0, <2>1 DEF TypeOK, RefundSession
  <2>4. TypeOK'
    BY <1>0, <1>3, <2>1, <2>2, <2>3 DEF TypeOK
  <2>5. RowOK(t)'
    BY <1>0, <1>1, <1>2, <1>3, <2>1, <2>2 DEF RowOK, Succeeded, Unfinished
  <2>6. WalletOK(t)'
    BY <2>2 DEF WalletOK
  <2>7. \A x \in Tasks \ {t} : x \in spoiled' <=> x \in spoiled
    BY <2>1
  <2>8. held'[t] >= 0
    BY <2>3
  <2> QED
    BY <1>0, <1>3, <1>6, <1>7, <2>2, <2>3, <2>4, <2>5, <2>6, <2>7, <2>8, TaskStep
<1> QED
  BY <1>8, <1>9

\* The submission settles, or dies before it does.
LEMMA SettleStep ==
  ASSUME AsyncInv, NEW t \in Tasks, Settle(t) \/ SubmitDies(t)
  PROVE  AsyncInv'
<1>0. /\ TypeOK /\ RowOK(t) /\ WalletOK(t) /\ (IsOrg(t) => held[t] >= 0)
      /\ UNCHANGED <<kind, job, row, node, get>>
      /\ \E p \in {sub[t].pre, sub[t].quota} : sub' = [sub EXCEPT ![t].at = "over", ![t].pre = p]
      /\ \A n \in Nodes : CopyOK(n, t) /\ BillOK(n, t)
  BY DEF AsyncInv, Settle, SubmitDies
<1>1. /\ sub[t].pre \in Nat /\ sub[t].quota \in Nat /\ job[t].usage \in Nat /\ held[t] \in Int
      /\ sub[t].quota \in Quotas
      /\ row[t].status \in {"absent"} \cup Unfinished \cup Terminal
  BY <1>0, TaskFacts
<1>2. /\ sub' \in [Tasks -> [at : {"new", "charged", "accepted", "durable", "over", "lost"},
                            pre : Quotas, quota : Quotas]]
      /\ sub'[t].at = "over" /\ sub'[t].quota = sub[t].quota
      /\ \A x \in Tasks \ {t} : sub'[x] = sub[x]
  <2>1. PICK p \in {sub[t].pre, sub[t].quota} : sub' = [sub EXCEPT ![t].at = "over", ![t].pre = p]
    BY <1>0
  <2> DEFINE new == [sub[t] EXCEPT !.at = "over", !.pre = p]
             SubType == [at : {"new", "charged", "accepted", "durable", "over", "lost"},
                         pre : Quotas, quota : Quotas]
  <2>2. p \in Quotas /\ sub \in [Tasks -> SubType]
    BY <1>0, TaskFacts DEF TypeOK
  <2>3. new \in SubType /\ new.at = "over" /\ new.quota = sub[t].quota
    BY <2>2
  <2>4. sub' = [sub EXCEPT ![t] = new]
    BY <2>1
  <2> HIDE DEF new, SubType
  <2>5. sub' \in [Tasks -> SubType] /\ sub'[t] = new /\ \A x \in Tasks \ {t} : sub'[x] = sub[x]
    BY <2>2, <2>3, <2>4
  <2> QED
    BY <2>3, <2>5 DEF SubType
<1>3. Worth(t)' = Worth(t)
  BY <1>0, <1>2 DEF Worth
<1>4. \A n \in Nodes : CopyOK(n, t)' /\ BillOK(n, t)'
  BY <1>0, <1>2, <1>3 DEF CopyOK, BillOK, Holds, Billing
<1>5. Succeeded(t) => Succeeded(t)'
  BY <1>0 DEF Succeeded
<1>6. CASE Settle(t)
  <2>0. sub[t].at = "durable" /\ UNCHANGED <<inputs, spoiled>> /\ row[t].status # "absent"
    BY <1>0, <1>6 DEF Settle, RowOK
  <2>1. /\ held' \in [Tasks -> Int] /\ \A x \in Tasks \ {t} : held'[x] = held[x]
        /\ sess' \in [Tasks -> {"none", "pre_consumed", "settled", "refunded"}]
        /\ ~IsOrg(t) => held'[t] = held[t] + sub[t].quota - sub[t].pre
        /\ IsOrg(t) => held'[t] >= 0
    <3>1. CASE ~IsOrg(t)
      BY <1>0, <1>1, <1>6, <3>1 DEF TypeOK, Settle
    <3>2. CASE IsOrg(t) /\ SettleAccepts(t, sub[t].quota)
      <4>1. SettleSession(t, sub[t].quota)
        BY <1>6, <3>2 DEF Settle
      <4> QED
        BY <1>0, <1>1, <3>2, <4>1 DEF TypeOK, SettleSession
    <3>3. CASE IsOrg(t) /\ ~SettleAccepts(t, sub[t].quota)
      BY <1>0, <1>6, <3>3 DEF TypeOK, Settle
    <3> QED
      BY <3>1, <3>2, <3>3
  <2>2. TypeOK'
    BY <1>0, <1>2, <2>0, <2>1 DEF TypeOK
  <2>3. RowOK(t)'
    BY <1>0, <1>2, <2>0 DEF RowOK, Succeeded
  <2>4. WalletOK(t)'
    <3> SUFFICES ASSUME ~IsOrg(t), ~kind[t].live PROVE WalletOK(t)'
      BY <1>0 DEF WalletOK, IsOrg
    <3>1. Given(t)' = Given(t)
      BY <1>1, <1>2, <2>0, <2>1 DEF Given
    <3> QED
      BY <1>0, <1>2, <1>3, <2>0, <3>1 DEF WalletOK, Covers, Billing
  <2> QED
    BY <1>0, <1>2, <1>4, <1>5, <2>0, <2>1, <2>2, <2>3, <2>4, TaskStep
<1>7. CASE SubmitDies(t)
  <2>0. /\ sub[t].at \in {"charged", "accepted", "durable"} /\ UNCHANGED <<held, sess>>
        /\ spoiled' = spoiled \cup {t} /\ inputs' = inputs - 1 /\ inputs > 0
    BY <1>7 DEF SubmitDies, Fault, Input
  <2>1. TypeOK'
    BY <1>0, <1>2, <2>0 DEF TypeOK
  <2>2. RowOK(t)'
    BY <1>0, <1>2, <2>0 DEF RowOK, Succeeded
  <2>3. WalletOK(t)'
    <3> SUFFICES ASSUME ~IsOrg(t), ~kind[t].live PROVE WalletOK(t)'
      BY <1>0 DEF WalletOK, IsOrg
    <3>1. t \in spoiled'
      BY <2>0
    <3>2. row[t].status # "absent" => sub[t].at = "durable" /\ sub[t].pre >= sub[t].quota
      BY <1>0, <2>0 DEF RowOK
    <3>3. row[t].status # "absent" => Given(t)' >= Given(t) /\ Given(t) \in Int /\ Given(t)' \in Int
      BY <1>1, <1>2, <2>0, <3>2 DEF Given
    <3>4. row'[t].status = "absent" => held'[t] >= 0
      BY <1>0, <2>0 DEF WalletOK
    <3>5. row[t].status \in Unfinished => Covers(t, Given(t), sub[t].quota)'
      BY <1>0, <1>1, <1>2, <2>0, <3>1, <3>3 DEF WalletOK, Covers, Unfinished
    <3>6. ASSUME NEW n \in Nodes, Billing(n, t)
          PROVE  Covers(t, Given(t), IF node[n].at = "bill" THEN sub[t].quota ELSE node[n].due)'
      <4>1. row[t].status # "absent"
        BY <1>0, <3>6 DEF BillOK, Terminal
      <4>2. node[n].due \in Nat
        BY <1>0, QuotaFacts DEF TypeOK, Pass
      <4>3. Given(t) >= IF node[n].at = "bill" THEN sub[t].quota ELSE node[n].due
        BY <1>0, <2>0, <3>6 DEF WalletOK, Covers
      <4> QED
        BY <1>0, <1>1, <1>2, <3>1, <3>3, <4>1, <4>2, <4>3 DEF Covers
    <3>7. row[t].status \in Terminal /\ (\A n \in Nodes : ~Billing(n, t)) => Given(t)' >= 0
      <4>1. row[t].status \in Terminal /\ (\A n \in Nodes : ~Billing(n, t)) => Given(t) >= 0
        BY <1>0, <2>0 DEF WalletOK
      <4> QED
        BY <1>1, <3>3, <4>1 DEF Terminal
    <3>8. \A n \in Nodes : Billing(n, t)' <=> Billing(n, t)
      BY <1>0 DEF Billing
    <3> QED
      BY <1>0, <1>2, <3>1, <3>4, <3>5, <3>6, <3>7, <3>8 DEF WalletOK
  <2>4. \A x \in Tasks \ {t} : x \in spoiled' <=> x \in spoiled
    BY <2>0
  <2>5. IsOrg(t) => held'[t] >= 0
    BY <1>0, <2>0
  <2> QED
    BY <1>0, <1>2, <1>4, <1>5, <2>0, <2>1, <2>2, <2>3, <2>4, <2>5, TaskStep
<1> QED
  BY <1>6, <1>7

\* The provider's job moves on: only a running job ends, so what a success is worth stays.
LEMMA JobStep ==
  ASSUME AsyncInv, NEW t \in Tasks, JobStarts(t) \/ JobEnds(t)
  PROVE  AsyncInv'
<1>0. /\ TypeOK /\ RowOK(t) /\ WalletOK(t) /\ (IsOrg(t) => held[t] >= 0)
      /\ UNCHANGED <<kind, sub, row, held, sess, node, get, inputs, spoiled>>
      /\ \A n \in Nodes : CopyOK(n, t) /\ BillOK(n, t)
      /\ job[t].state \in {"queued", "IN_PROGRESS"}
  BY DEF AsyncInv, JobStarts, JobEnds
<1>1. /\ job' \in [Tasks -> [state : {"none", "queued", "immediate", "IN_PROGRESS", "gone"} \cup Terminal,
                            metered : BOOLEAN, usage : Quotas, id : BOOLEAN]]
      /\ \A x \in Tasks \ {t} : job'[x] = job[x]
      /\ job'[t].metered \/ job'[t].usage # 0 => job'[t].state \in Terminal
  <2>1. CASE JobStarts(t)
    BY <1>0, <2>1 DEF TypeOK, RowOK, JobStarts, Terminal
  <2>2. CASE JobEnds(t)
    <3>1. PICK s \in Terminal \cup {"gone"}, m \in BOOLEAN, u \in Quotas :
            /\ s = "gone" => ~m
            /\ ~m => u = 0
            /\ job' = [job EXCEPT ![t].state = s, ![t].metered = m, ![t].usage = u]
      BY <2>2 DEF JobEnds, Quotas
    <3> DEFINE new == [job[t] EXCEPT !.state = s, !.metered = m, !.usage = u]
    <3>2. /\ new \in [state : {"none", "queued", "immediate", "IN_PROGRESS", "gone"} \cup Terminal,
                      metered : BOOLEAN, usage : Quotas, id : BOOLEAN]
          /\ new.state = s /\ new.metered = m /\ new.usage = u
      BY <1>0 DEF TypeOK
    <3>3. job' = [job EXCEPT ![t] = new]
      BY <3>1
    <3>4. m \/ u # 0 => s \in Terminal
      BY <3>1
    <3> HIDE DEF new
    <3> QED
      BY <1>0, <3>2, <3>3, <3>4 DEF TypeOK
  <2> QED
    BY <2>1, <2>2
<1>2. job[t].usage = 0 /\ ~job[t].metered /\ ~Succeeded(t)
  BY <1>0 DEF RowOK, Terminal, Succeeded
<1>3. ~kind[t].live => row[t].status # "SUCCESS"
  BY <1>0, <1>2 DEF RowOK
<1>4. ~kind[t].live => Worth(t) = {0} /\ 0 \in Worth(t)'
  BY <1>0, <1>2, <1>3 DEF Worth
<1>5. TypeOK'
  BY <1>0, <1>1 DEF TypeOK
<1>6. \A n \in Nodes : CopyOK(n, t)' /\ BillOK(n, t)'
  BY <1>0, <1>4 DEF CopyOK, BillOK, Holds, Billing
<1>7. RowOK(t)'
  BY <1>0, <1>1, <1>3 DEF RowOK
<1>8. WalletOK(t)'
  <2>1. Given(t)' = Given(t)
    BY <1>0 DEF Given
  <2> QED
    BY <1>0, <1>4, <2>1 DEF WalletOK, Covers, Billing, IsOrg
<1> QED
  BY <1>0, <1>1, <1>2, <1>5, <1>6, <1>7, <1>8, TaskStep

\* The row grows old, or a query of the caller reads or writes a live one.
LEMMA RowStep ==
  ASSUME AsyncInv, NEW t \in Tasks, TimesOut(t) \/ GetRead(t) \/ GetWrite(t)
  PROVE  AsyncInv'
<1>0. /\ TypeOK /\ RowOK(t) /\ WalletOK(t) /\ (IsOrg(t) => held[t] >= 0)
      /\ UNCHANGED <<kind, sub, job, held, sess, node, spoiled>>
      /\ \A n \in Nodes : CopyOK(n, t) /\ BillOK(n, t)
  BY DEF AsyncInv, TimesOut, GetRead, GetWrite
<1>1. row[t] \in Row /\ get[t] \in Row /\ inputs \in Nat
  BY <1>0 DEF TypeOK
<1>2. Succeeded(t) => Succeeded(t)'
  BY <1>0 DEF Succeeded
<1>3. CASE TimesOut(t)
  <2>1. row' = [row EXCEPT ![t].old = TRUE] /\ UNCHANGED <<get, inputs>>
    BY <1>3 DEF TimesOut
  <2>2. /\ row' \in [Tasks -> Row] /\ row'[t].status = row[t].status /\ row'[t].quota = row[t].quota
        /\ \A x \in Tasks \ {t} : row'[x] = row[x]
    <3> DEFINE new == [row[t] EXCEPT !.old = TRUE]
    <3>1. new \in Row /\ new.status = row[t].status /\ new.quota = row[t].quota
      BY <1>1 DEF Row
    <3>2. row' = [row EXCEPT ![t] = new]
      BY <2>1
    <3> HIDE DEF new
    <3> QED
      BY <1>0, <3>1, <3>2 DEF TypeOK
  <2>3. TypeOK'
    BY <1>0, <2>1, <2>2 DEF TypeOK
  <2>4. Worth(t)' = Worth(t) /\ Given(t)' = Given(t)
    BY <1>0, <2>2 DEF Worth, Given
  <2>5. \A n \in Nodes : CopyOK(n, t)' /\ BillOK(n, t)'
    BY <1>0, <2>2, <2>4 DEF CopyOK, BillOK, Holds, Billing
  <2>6. RowOK(t)'
    BY <1>0, <2>1, <2>2 DEF RowOK, Succeeded
  <2>7. WalletOK(t)'
    BY <1>0, <2>2, <2>4 DEF WalletOK, Covers, Billing, IsOrg
  <2> QED
    BY <1>0, <1>2, <2>1, <2>2, <2>3, <2>5, <2>6, <2>7, TaskStep
<1>4. CASE GetRead(t) \/ GetWrite(t)
  <2>1. kind[t].live
    BY <1>0, <1>4 DEF GetRead, GetWrite, RowOK
  <2>2. /\ row' \in [Tasks -> Row] /\ \A x \in Tasks \ {t} : row'[x] = row[x] /\ get'[x] = get[x]
        /\ row[t].status # "absent" => row'[t].status # "absent"
        /\ row[t].status = "absent" => row'[t].status = "absent"
        /\ get' \in [Tasks -> Row] /\ inputs' \in Nat
        /\ get'[t] # NoRow => get'[t].status # "absent"
    <3>1. CASE GetRead(t)
      <4>1. row[t].status # "absent" /\ UNCHANGED row
            /\ get' = [get EXCEPT ![t] = [row[t] EXCEPT !.old = FALSE]] /\ inputs' = inputs - 1
            /\ inputs > 0
        BY <3>1 DEF GetRead, Input
      <4>2. [row[t] EXCEPT !.old = FALSE] \in Row /\ [row[t] EXCEPT !.old = FALSE].status = row[t].status
        BY <1>1 DEF Row
      <4> QED
        BY <1>0, <1>1, <4>1, <4>2 DEF TypeOK
    <3>2. CASE GetWrite(t)
      <4>0. NoRow \in Row
        BY DEF NoRow, Row, Quotas
      <4>1. get' = [get EXCEPT ![t] = NoRow] /\ UNCHANGED inputs
        BY <3>2 DEF GetWrite
      <4>2. \/ UNCHANGED row
            \/ \E a \in Unfinished \cup Terminal, full \in BOOLEAN :
                 UpdateWithStatus(t, get[t].status, [get[t] EXCEPT !.status = a, !.full = full])
        BY <3>2 DEF GetWrite
      <4>3. CASE UNCHANGED row
        BY <1>0, <1>1, <4>0, <4>1, <4>3 DEF TypeOK
      <4>4. ASSUME NEW a \in Unfinished \cup Terminal, NEW full \in BOOLEAN,
                   row[t].status = get[t].status,
                   row' = [row EXCEPT ![t] =
                             [[get[t] EXCEPT !.status = a, !.full = full] EXCEPT !.old = row[t].old]]
            PROVE  /\ row' \in [Tasks -> Row] /\ \A x \in Tasks \ {t} : row'[x] = row[x] /\ get'[x] = get[x]
                   /\ row[t].status # "absent" => row'[t].status # "absent"
                   /\ row[t].status = "absent" => row'[t].status = "absent"
                   /\ get' \in [Tasks -> Row] /\ inputs' \in Nat
                   /\ get'[t] # NoRow => get'[t].status # "absent"
        <5> DEFINE new == [[get[t] EXCEPT !.status = a, !.full = full] EXCEPT !.old = row[t].old]
        <5>1. new \in Row /\ new.status = a
          BY <1>1, <4>4 DEF Row
        <5>2. row' = [row EXCEPT ![t] = new]
          BY <4>4
        <5> HIDE DEF new
        <5>3. row[t].status # "absent" /\ a # "absent"
          BY <1>0, <3>2, <4>4 DEF GetWrite, RowOK, Unfinished, Terminal
        <5> QED
          BY <1>0, <1>1, <4>0, <4>1, <5>1, <5>2, <5>3 DEF TypeOK
      <4> QED
        BY <4>2, <4>3, <4>4 DEF UpdateWithStatus
    <3> QED
      BY <1>4, <3>1, <3>2
  <2>3. TypeOK'
    BY <1>0, <2>2 DEF TypeOK
  <2>4. \A n \in Nodes : CopyOK(n, t)' /\ BillOK(n, t)'
    BY <1>0, <2>1, <2>2 DEF CopyOK, BillOK, Holds
  <2>5. RowOK(t)' /\ WalletOK(t)'
    BY <1>0, <2>1, <2>2 DEF RowOK, WalletOK
  <2> QED
    BY <1>0, <1>2, <2>2, <2>3, <2>4, <2>5, TaskStep
<1> QED
  BY <1>3, <1>4

(***************************************************************************)
(* The passes.                                                             *)
(***************************************************************************)

\* Only the pass of node n and what concerns task t has changed.
LEMMA NodeStep ==
  ASSUME AsyncInv, NEW n \in Nodes, NEW t \in Tasks, NEW p \in Pass,
         node' = [node EXCEPT ![n] = p], UNCHANGED <<kind, sub, job, get>>, TypeOK',
         \A x \in Tasks \ {t} : row'[x] = row[x] /\ held'[x] = held[x],
         \A x \in Tasks \ {t} : x \in spoiled' <=> x \in spoiled,
         node[n].at \in {"bill", "write"} => node[n].task = t,
         p.at \in {"bill", "write"} => p.task = t,
         \A x \in Tasks : CopyOK(n, x)', AnswerOK(n)', BillOK(n, t)',
         row[t].status # "absent" => row'[t].status # "absent",
         ~kind[t].live /\ row[t].status \in Terminal => row'[t].status = row[t].status,
         ~kind[t].live /\ p.at \in {"bill", "write"} => \A m \in Nodes \ {n} : ~Billing(m, t),
         RowOK(t)', WalletOK(t)', IsOrg(t) => held'[t] >= 0
  PROVE  AsyncInv'
<1>0. node'[n] = p /\ \A m \in Nodes \ {n} : node'[m] = node[m]
  BY DEF AsyncInv, TypeOK
<1>1. \A m \in Nodes \ {n}, x \in Tasks : Billing(m, x)' <=> Billing(m, x)
  BY <1>0 DEF Billing
<1>2. \A x \in Tasks \ {t} : ~Billing(n, x) /\ ~Billing(n, x)'
  BY <1>0 DEF Billing
<1>3. Billing(n, t)' => p.at \in {"bill", "write"}
  BY <1>0 DEF Billing
<1>4. OneBiller'
  <2> SUFFICES ASSUME NEW m \in Nodes, NEW k \in Nodes, NEW x \in Tasks, ~kind[x].live,
                      Billing(m, x)', Billing(k, x)'
               PROVE  m = k
    BY DEF OneBiller
  <2>1. CASE m # n /\ k # n
    BY <1>1, <2>1 DEF AsyncInv, OneBiller
  <2>2. CASE m = n \/ k = n
    BY <1>1, <1>2, <1>3, <2>2
  <2> QED
    BY <2>1, <2>2
<1>5. ASSUME NEW m \in Nodes \ {n} PROVE AnswerOK(m)'
  BY <1>0 DEF AsyncInv, AnswerOK, Succeeded
<1>6. ASSUME NEW m \in Nodes \ {n}, NEW x \in Tasks PROVE CopyOK(m, x)'
  <2>1. row[x].status # "absent" => row'[x].status # "absent"
    OBVIOUS
  <2> QED
    BY <1>0, <2>1 DEF AsyncInv, CopyOK, Holds
<1>7. ASSUME NEW m \in Nodes, NEW x \in Tasks, m # n \/ x # t PROVE BillOK(m, x)'
  <2>1. CASE m = n
    BY <1>2, <1>7, <2>1 DEF BillOK
  <2>2. CASE m # n
    <3>1. BillOK(m, x)
      BY DEF AsyncInv
    <3>2. ~kind[x].live /\ row[x].status \in Terminal =>
            row'[x].status = row[x].status /\ Worth(x)' = Worth(x)
      BY DEF Worth
    <3> QED
      BY <1>0, <2>2, <3>1, <3>2 DEF BillOK, Billing
  <2> QED
    BY <2>1, <2>2
<1>8. ASSUME NEW x \in Tasks \ {t} PROVE RowOK(x)' /\ WalletOK(x)' /\ (IsOrg(x) => held[x] >= 0)'
  <2>1. RowOK(x) /\ WalletOK(x) /\ (IsOrg(x) => held[x] >= 0)
    BY DEF AsyncInv
  <2>2. RowOK(x)'
    BY <2>1 DEF RowOK, Succeeded
  <2>3. Given(x)' = Given(x) /\ Worth(x)' = Worth(x)
    BY DEF Given, Worth
  <2>4. \A m \in Nodes : Billing(m, x)' <=> Billing(m, x)
    BY <1>1, <1>2
  <2>5. \A m \in Nodes : Billing(m, x) => node'[m] = node[m]
    BY <1>0, <1>2
  <2>6. WalletOK(x)'
    BY <2>1, <2>3, <2>4, <2>5 DEF WalletOK, Covers, IsOrg
  <2> QED
    BY <2>1, <2>2, <2>6 DEF IsOrg
<1>9. IsOrg(t)' => held'[t] >= 0
  BY DEF IsOrg
<1>10. \A m \in Nodes : AnswerOK(m)'
  BY <1>5
<1>11. \A m \in Nodes, x \in Tasks : CopyOK(m, x)' /\ BillOK(m, x)'
  BY <1>6, <1>7
<1>12. \A x \in Tasks : RowOK(x)' /\ WalletOK(x)' /\ (IsOrg(x) => held[x] >= 0)'
  BY <1>8, <1>9
<1> QED
  BY <1>4, <1>10, <1>11, <1>12 DEF AsyncInv

\* A pass that drops copies and has no answer to act on.
LEMMA KeepsCopies ==
  ASSUME AsyncInv, NEW n \in Nodes, NEW t \in Tasks, NEW p \in Pass,
         node' = [node EXCEPT ![n] = p], UNCHANGED <<kind, sub, job>>,
         \A x \in Tasks \ {t} : row'[x] = row[x],
         p.at # "answer", p.todo \subseteq node[n].todo \ {t},
         \A x \in p.todo : p.mem[x] = node[n].mem[x]
  PROVE  AnswerOK(n)' /\ \A x \in Tasks : CopyOK(n, x)'
<1>0. node'[n] = p
  BY DEF AsyncInv, TypeOK
<1>1. AnswerOK(n)'
  BY <1>0 DEF AnswerOK
<1>2. ASSUME NEW x \in Tasks PROVE CopyOK(n, x)'
  <2>1. CopyOK(n, x)
    BY DEF AsyncInv
  <2>2. Holds(n, x)' => x \in p.todo
    BY <1>0 DEF Holds
  <2>3. x \in p.todo => x # t /\ x \in node[n].todo
    OBVIOUS
  <2> QED
    BY <1>0, <2>1, <2>2, <2>3 DEF CopyOK, Holds
<1> QED
  BY <1>1, <1>2

\* What a pass knows and where it goes next.
LEMMA PassFacts ==
  ASSUME TypeOK, NEW n \in Nodes
  PROVE  /\ node[n] \in Pass /\ node[n].task \in Tasks /\ node[n].due \in Quotas
         /\ node[n].due \in Nat /\ \A t \in Tasks : node[n].mem[t] \in Row
         /\ node[n].todo \subseteq Tasks /\ NoRow \in Row
<1>1. node[n] \in Pass
  BY DEF TypeOK
<1>2. NoRow \in Row
  BY DEF NoRow, Row, Quotas
<1> QED
  BY <1>1, <1>2, QuotaFacts DEF Pass

\* A pass that turns to task t.
LEMMA TurnFacts ==
  ASSUME TypeOK, NEW n \in Nodes, NEW t \in Tasks, NEW at \in {"pick", "answer", "bill", "write"}
  PROVE  LET p == Turn(n, t, at) IN
         /\ p \in Pass /\ p.at = at /\ p.task = t /\ p.todo = node[n].todo \ {t}
         /\ p.mem = node[n].mem /\ p.due = node[n].due /\ p.ans = node[n].ans
<1>1. node[n] \in Pass
  BY PassFacts
<1> QED
  BY <1>1 DEF Turn, Pass

\* The pass at rest.
LEMMA IdleFacts == Idle \in Pass /\ Idle.at = "idle" /\ Idle.todo = {} /\ Idle.ans = "none"
<1>1. (CHOOSE t \in Tasks : TRUE) \in Tasks
  BY AsyncAssumption
<1>2. [t \in Tasks |-> NoRow] \in [Tasks -> Row]
  BY DEF NoRow, Row, Quotas
<1>3. 0 \in Quotas
  BY DEF Quotas
<1> QED
  BY <1>1, <1>2, <1>3 DEF Idle, Pass

\* A pass that is through with task t.
LEMMA BackFacts ==
  ASSUME TypeOK, NEW n \in Nodes, NEW t \in Tasks
  PROVE  LET p == Back(n, t) IN
         /\ p \in Pass /\ p.at \in {"idle", "pick"} /\ p.todo \subseteq node[n].todo \ {t}
         /\ \A x \in p.todo : p.mem[x] = node[n].mem[x]
<1> DEFINE u == Turn(n, t, "pick")
           b == [u EXCEPT !.mem[t] = NoRow, !.ans = "none", !.due = 0, !.refund = FALSE]
<1>1. /\ u \in Pass /\ u.at = "pick" /\ u.todo = node[n].todo \ {t} /\ u.mem = node[n].mem
  BY TurnFacts
<1>2. NoRow \in Row /\ 0 \in Quotas
  BY DEF NoRow, Row, Quotas
<1> HIDE DEF u
<1>3. /\ b \in Pass /\ b.at = "pick" /\ b.todo = node[n].todo \ {t}
      /\ b.mem = [node[n].mem EXCEPT ![t] = NoRow]
  BY <1>1, <1>2 DEF Pass
<1>4. node[n].mem \in [Tasks -> Row] /\ node[n].todo \subseteq Tasks
  BY DEF TypeOK, Pass
<1>5. Back(n, t) = Idle \/ Back(n, t) = b
  BY DEF Back, u
<1> HIDE DEF b
<1>6. \A x \in b.todo : b.mem[x] = node[n].mem[x]
  BY <1>3, <1>4
<1> QED
  BY <1>3, <1>5, <1>6, IdleFacts

\* A pass that bills nothing, before or after, and changes no row.
LEMMA QuietPass ==
  ASSUME AsyncInv, NEW n \in Nodes, NEW p \in Pass, node' = [node EXCEPT ![n] = p],
         UNCHANGED <<kind, sub, job, row, held, sess, get, inputs, spoiled>>,
         node[n].at \notin {"bill", "write"}, p.at \notin {"bill", "write"},
         \A x \in Tasks : CopyOK(n, x)', AnswerOK(n)'
  PROVE  AsyncInv'
<1>0. TypeOK
  BY DEF AsyncInv
<1>t. PICK t \in Tasks : t = node[n].task
  BY <1>0, PassFacts
<1>1. node'[n] = p /\ \A m \in Nodes \ {n} : node'[m] = node[m]
  BY <1>0 DEF TypeOK
<1>2. TypeOK'
  BY <1>0 DEF TypeOK
<1>3. /\ \A m \in Nodes : Billing(m, t)' <=> Billing(m, t)
      /\ ~Billing(n, t) /\ ~Billing(n, t)'
  BY <1>1 DEF Billing
<1>4. BillOK(n, t)'
  BY <1>3 DEF BillOK
<1>5. RowOK(t)'
  BY <1>0 DEF AsyncInv, RowOK, Succeeded
<1>6. WalletOK(t)'
  <2>1. WalletOK(t)
    BY <1>0 DEF AsyncInv
  <2>2. Given(t)' = Given(t) /\ Worth(t)' = Worth(t)
    BY DEF Given, Worth
  <2>3. \A m \in Nodes : Billing(m, t) => node'[m] = node[m]
    BY <1>1, <1>3
  <2> QED
    BY <1>3, <2>1, <2>2, <2>3 DEF WalletOK, Covers, IsOrg
<1>7. IsOrg(t) => held'[t] >= 0
  BY <1>0 DEF AsyncInv
<1> QED
  BY <1>0, <1>2, <1>4, <1>5, <1>6, <1>7, NodeStep

\* The sweep and the poll take copies of unfinished rows.
LEMMA StartStep ==
  ASSUME AsyncInv, NEW n \in Nodes, StartSweep(n) \/ StartPoll(n)
  PROVE  AsyncInv'
<1>0. TypeOK /\ UNCHANGED <<kind, sub, job, row, held, sess, get, inputs, spoiled>>
      /\ node[n].at \in {"idle", "pick"}
  BY DEF AsyncInv, StartSweep, StartPoll
<1>c. ASSUME NEW S \in SUBSET Open PROVE Copies(S) \in [Tasks -> Row] /\ S \subseteq Tasks
  <2>1. ASSUME NEW x \in Tasks PROVE [row[x] EXCEPT !.old = FALSE] \in Row
    <3>1. row[x] \in Row
      BY <1>0 DEF TypeOK
    <3> QED
      BY <3>1 DEF Row
  <2>2. NoRow \in Row
    BY DEF NoRow, Row, Quotas
  <2> QED
    BY <2>1, <2>2 DEF Copies, Open
<1>1. ASSUME NEW S \in SUBSET Open, NEW p \in Pass, p.at = "pick", p.todo = S, p.mem = Copies(S),
             node' = [node EXCEPT ![n] = p]
      PROVE  AsyncInv'
  <2>4. node'[n] = p
    BY <1>0, <1>1 DEF TypeOK
  <2>5. ASSUME NEW x \in Tasks PROVE CopyOK(n, x)'
    <3>1. Holds(n, x)' => x \in S
      BY <1>1, <2>4 DEF Holds
    <3>2. x \in S => /\ p.mem[x].status = row[x].status /\ p.mem[x].quota = row[x].quota
                     /\ row[x].status \in Unfinished
      <4>1. row[x] \in Row
        BY <1>0 DEF TypeOK
      <4>2. /\ [row[x] EXCEPT !.old = FALSE].status = row[x].status
            /\ [row[x] EXCEPT !.old = FALSE].quota = row[x].quota
        BY <4>1 DEF Row
      <4>3. x \in S => Copies(S)[x] = [row[x] EXCEPT !.old = FALSE]
        BY DEF Copies
      <4> QED
        BY <1>1, <4>2, <4>3 DEF Open
    <3>3. RowOK(x)
      BY DEF AsyncInv
    <3> QED
      BY <1>0, <2>4, <3>1, <3>2, <3>3 DEF CopyOK, RowOK, Unfinished
  <2>6. AnswerOK(n)'
    BY <1>1, <2>4 DEF AnswerOK
  <2> QED
    BY <1>0, <1>1, <2>5, <2>6, QuietPass
<1>2. CASE node' = [node EXCEPT ![n] = Idle]
  <2>1. node'[n] = Idle
    BY <1>0, <1>2 DEF TypeOK
  <2>2. AnswerOK(n)' /\ \A x \in Tasks : CopyOK(n, x)'
    BY <2>1, IdleFacts DEF AnswerOK, CopyOK, Holds
  <2> QED
    BY <1>0, <1>2, <2>2, IdleFacts, QuietPass
<1>3. CASE StartSweep(n)
  <2> DEFINE p == [Idle EXCEPT !.at = "pick", !.todo = TimedOut, !.mem = Copies(TimedOut)]
  <2>1. TimedOut \in SUBSET Open
    BY DEF TimedOut
  <2>2. Copies(TimedOut) \in [Tasks -> Row] /\ TimedOut \subseteq Tasks
    BY <1>c, <2>1
  <2>3. p \in Pass /\ p.at = "pick" /\ p.todo = TimedOut /\ p.mem = Copies(TimedOut)
    BY <2>2, IdleFacts DEF Pass
  <2>4. node' = [node EXCEPT ![n] = p]
    BY <1>3 DEF StartSweep
  <2> HIDE DEF p
  <2> QED
    BY <1>1, <2>1, <2>3, <2>4
<1>4. CASE StartPoll(n)
  <2> DEFINE p == [Idle EXCEPT !.at = "pick", !.pass = "poll", !.todo = Open, !.mem = Copies(Open)]
  <2>1. node' = [node EXCEPT ![n] = Idle] \/ node' = [node EXCEPT ![n] = p]
    BY <1>4 DEF StartPoll
  <2>2. Copies(Open) \in [Tasks -> Row] /\ Open \subseteq Tasks
    BY <1>c
  <2>3. p \in Pass /\ p.at = "pick" /\ p.todo = Open /\ p.mem = Copies(Open)
    BY <2>2, IdleFacts DEF Pass
  <2> HIDE DEF p
  <2>4. CASE node' = [node EXCEPT ![n] = p]
    BY <1>1, <2>3, <2>4
  <2> QED
    BY <1>2, <2>1, <2>4
<1> QED
  BY <1>3, <1>4

\* The answer of the provider comes in.
LEMMA FetchStep ==
  ASSUME AsyncInv, NEW n \in Nodes, NEW t \in Tasks, Fetch(n, t)
  PROVE  AsyncInv'
<1>0. /\ TypeOK /\ UNCHANGED <<kind, sub, job, row, held, sess, get, inputs, spoiled>>
      /\ node[n].at = "pick" /\ t \in node[n].todo /\ job[t].id
  BY DEF AsyncInv, Fetch
<1>1. PICK a \in Answers(t) : node' = [node EXCEPT ![n] = [Turn(n, t, "answer") EXCEPT !.ans = a]]
  BY DEF Fetch
<1> DEFINE u == Turn(n, t, "answer")
           p == [u EXCEPT !.ans = a]
<1>2. /\ a \in {"none", "bad", "gone"} \cup Unfinished \cup Terminal
      /\ a = "SUCCESS" => Succeeded(t)
  <2>1. job[t].state \in {"none", "queued", "immediate", "IN_PROGRESS", "gone"} \cup Terminal
    BY <1>0 DEF TypeOK
  <2> QED
    BY <1>0, <1>1, <2>1 DEF Answers, Succeeded, Unfinished, Terminal
<1>3. u \in Pass /\ u.at = "answer" /\ u.task = t /\ u.todo = node[n].todo \ {t} /\ u.mem = node[n].mem
  BY <1>0, TurnFacts
<1> HIDE DEF u
<1>4. /\ p \in Pass /\ p.at = "answer" /\ p.task = t /\ p.todo = node[n].todo \ {t}
      /\ p.mem = node[n].mem /\ p.ans = a
  BY <1>2, <1>3 DEF Pass
<1>5. node' = [node EXCEPT ![n] = p]
  BY <1>1 DEF u
<1> HIDE DEF p
<1>6. node'[n] = p
  BY <1>0, <1>5 DEF TypeOK
<1>7. ASSUME NEW x \in Tasks PROVE CopyOK(n, x)'
  <2>1. CopyOK(n, x)
    BY DEF AsyncInv
  <2>2. Holds(n, x)' => Holds(n, x)
    BY <1>0, <1>4, <1>6 DEF Holds
  <2> QED
    BY <1>0, <1>4, <1>6, <2>1, <2>2 DEF CopyOK
<1>8. AnswerOK(n)'
  BY <1>0, <1>2, <1>4, <1>6 DEF AnswerOK, Succeeded
<1> QED
  BY <1>0, <1>4, <1>5, <1>7, <1>8, QuietPass

\* UpdateWithStatus writes the copy over an unfinished row, or nothing.
LEMMA UpdateFacts ==
  ASSUME TypeOK, NEW t \in Tasks, NEW from, NEW new \in Row, UpdateWithStatus(t, from, new)
  PROVE  /\ row' \in [Tasks -> Row] /\ \A x \in Tasks \ {t} : row'[x] = row[x]
         /\ Won(t, from) => row'[t].status = new.status /\ row'[t].quota = new.quota
         /\ ~Won(t, from) => row' = row
<1>1. CASE ~Won(t, from)
  BY <1>1 DEF Won, UpdateWithStatus, TypeOK
<1>2. CASE Won(t, from)
  <2> DEFINE r == [new EXCEPT !.old = row[t].old]
  <2>1. row[t].old \in BOOLEAN
    BY DEF TypeOK, Row
  <2>2. r \in Row /\ r.status = new.status /\ r.quota = new.quota
    BY <2>1 DEF Row
  <2>3. row' = [row EXCEPT ![t] = r]
    BY <1>2 DEF UpdateWithStatus, Won
  <2> HIDE DEF r
  <2> QED
    BY <1>2, <2>2, <2>3 DEF TypeOK
<1> QED
  BY <1>1, <1>2

\* The row follows a job that runs, and the pass goes on.
LEMMA FollowStep ==
  ASSUME AsyncInv, NEW n \in Nodes, NEW t \in Tasks, Holds(n, t), node[n].at \in {"pick", "answer"},
         NEW new \in Row, new.status \in Unfinished, new.quota = node[n].mem[t].quota,
         UpdateWithStatus(t, node[n].mem[t].status, new) \/ UNCHANGED row,
         node' = [node EXCEPT ![n] = Back(n, t)],
         UNCHANGED <<kind, sub, job, held, sess, get, inputs, spoiled>>
  PROVE  AsyncInv'
<1> DEFINE p == Back(n, t)
           mem == node[n].mem[t]
<1>0. /\ TypeOK /\ RowOK(t) /\ WalletOK(t) /\ (IsOrg(t) => held[t] >= 0)
      /\ CopyOK(n, t) /\ \A m \in Nodes : BillOK(m, t)
  BY DEF AsyncInv
<1>1. /\ p \in Pass /\ p.at \in {"idle", "pick"} /\ p.todo \subseteq node[n].todo \ {t}
      /\ \A x \in p.todo : p.mem[x] = node[n].mem[x]
  BY <1>0, BackFacts
<1>2. /\ row' \in [Tasks -> Row] /\ \A x \in Tasks \ {t} : row'[x] = row[x]
      /\ \/ row' = row
         \/ Won(t, mem.status) /\ row'[t].status = new.status /\ row'[t].quota = new.quota
  <2>1. CASE UNCHANGED row
    BY <1>0, <2>1 DEF TypeOK
  <2>2. CASE UpdateWithStatus(t, mem.status, new)
    BY <1>0, <2>2, UpdateFacts
  <2> QED
    BY <2>1, <2>2
<1>3. /\ row[t].status # "absent" /\ mem.status \in Unfinished
      /\ ~kind[t].live => mem.quota = sub[t].quota
  BY <1>0 DEF CopyOK
<1>4. TypeOK'
  BY <1>0, <1>1, <1>2 DEF TypeOK
<1> HIDE DEF p
<1>p. node' = [node EXCEPT ![n] = p]
  BY DEF p
<1>5. node'[n] = p /\ \A m \in Nodes \ {n} : node'[m] = node[m]
  BY <1>0, <1>p DEF TypeOK
<1>6. AnswerOK(n)' /\ \A x \in Tasks : CopyOK(n, x)'
  BY <1>1, <1>2, <1>p, KeepsCopies
<1>7. ~Billing(n, t) /\ ~Billing(n, t)' /\ \A m \in Nodes : Billing(m, t)' <=> Billing(m, t)
  BY <1>1, <1>5 DEF Billing
<1>8. \/ row' = row
      \/ row[t].status \in Unfinished /\ row'[t].status \in Unfinished /\ row'[t].quota = mem.quota
  BY <1>2, <1>3 DEF Won
<1>9. /\ row'[t].status # "absent"
      /\ row[t].status \in Terminal => row'[t].status = row[t].status
  BY <1>3, <1>8 DEF Unfinished, Terminal
<1>10. BillOK(n, t)'
  BY <1>7 DEF BillOK
<1>11. RowOK(t)'
  BY <1>0, <1>3, <1>8, <1>9 DEF RowOK, Succeeded, Unfinished
<1>12. WalletOK(t)'
  <2>1. Given(t)' = Given(t)
    BY DEF Given
  <2>2. row[t].status \in Terminal \/ row' = row => Worth(t)' = Worth(t)
    BY <1>9 DEF Worth
  <2>3. \A m \in Nodes : Billing(m, t) => node'[m] = node[m]
    BY <1>5, <1>7
  <2>4. CASE row' = row
    BY <1>0, <1>7, <2>1, <2>2, <2>3, <2>4 DEF WalletOK, Covers, IsOrg
  <2>5. CASE row[t].status \in Unfinished /\ row'[t].status \in Unfinished
    BY <1>0, <1>7, <2>1, <2>3, <2>5 DEF WalletOK, Covers, IsOrg, Unfinished, Terminal
  <2> QED
    BY <1>8, <2>4, <2>5
<1> QED
  BY <1>0, <1>1, <1>p, <1>2, <1>4, <1>6, <1>9, <1>10, <1>11, <1>12, NodeStep

\* What a task is worth if it ends with status s.
WorthAt(t, s) ==
    IF s = "SUCCESS" THEN {IF job[t].metered THEN job[t].usage ELSE sub[t].quota}
                     ELSE {0, job[t].usage}

\* A node ends an unfinished row and goes on to bill it, or finds that another has ended it.
LEMMA EndStep ==
  ASSUME AsyncInv, NEW n \in Nodes, NEW t \in Tasks, Holds(n, t), node[n].at \in {"pick", "answer"},
         NEW s \in Terminal, NEW new \in Row, new.status = s, new.quota = node[n].mem[t].quota,
         UpdateWithStatus(t, node[n].mem[t].status, new),
         NEW owed \in BOOLEAN, NEW due \in Quotas, NEW refund \in BOOLEAN,
         node' = [node EXCEPT ![n] = Ended(n, t, Won(t, node[n].mem[t].status), owed, due, refund)],
         s = "SUCCESS" => Succeeded(t),
         ~kind[t].live => (owed => due \in WorthAt(t, s)) /\ (~owed => sub[t].quota \in WorthAt(t, s)),
         UNCHANGED <<kind, sub, job, held, sess, get, inputs, spoiled>>
  PROVE  AsyncInv'
<1> DEFINE u == Turn(n, t, "bill")
           b == [u EXCEPT !.ans = "none", !.due = due, !.refund = refund]
           p == Ended(n, t, Won(t, node[n].mem[t].status), owed, due, refund)
           mem == node[n].mem[t]
           won == Won(t, mem.status)
<1>0. /\ TypeOK /\ RowOK(t) /\ WalletOK(t) /\ (IsOrg(t) => held[t] >= 0)
      /\ CopyOK(n, t) /\ \A m \in Nodes : BillOK(m, t)
  BY DEF AsyncInv
<1>1. /\ row' \in [Tasks -> Row] /\ \A x \in Tasks \ {t} : row'[x] = row[x]
      /\ won => row'[t].status = s /\ row'[t].quota = mem.quota
      /\ ~won => row' = row
  BY <1>0, UpdateFacts
<1>2. /\ row[t].status # "absent" /\ mem.status \in Unfinished
      /\ ~kind[t].live => mem.quota = sub[t].quota
  BY <1>0 DEF CopyOK
<1>3. u \in Pass /\ u.at = "bill" /\ u.task = t /\ u.todo = node[n].todo \ {t} /\ u.mem = node[n].mem
  BY <1>0, TurnFacts
<1> HIDE DEF u
<1>4. /\ b \in Pass /\ b.at = "bill" /\ b.task = t /\ b.todo = node[n].todo \ {t}
      /\ b.mem = node[n].mem /\ b.due = due
  BY <1>3 DEF Pass
<1>5. LET k == Back(n, t) IN
      /\ k \in Pass /\ k.at \in {"idle", "pick"} /\ k.todo \subseteq node[n].todo \ {t}
      /\ \A x \in k.todo : k.mem[x] = node[n].mem[x]
  BY <1>0, BackFacts
<1>6. (won /\ owed => p = b) /\ (~(won /\ owed) => p = Back(n, t))
  BY DEF Ended, u
<1> HIDE DEF b, p
<1>7. /\ p \in Pass /\ p.at \in {"idle", "pick", "bill"} /\ p.todo \subseteq node[n].todo \ {t}
      /\ \A x \in p.todo : p.mem[x] = node[n].mem[x]
      /\ p.at = "bill" => won /\ owed /\ p = b
      /\ won /\ owed => p.at = "bill"
  BY <1>4, <1>5, <1>6
<1>p. node' = [node EXCEPT ![n] = p]
  BY DEF p
<1>8. node'[n] = p /\ \A m \in Nodes \ {n} : node'[m] = node[m]
  BY <1>0, <1>p DEF TypeOK
<1>9. TypeOK'
  BY <1>0, <1>1, <1>7, <1>p DEF TypeOK
<1>10. AnswerOK(n)' /\ \A x \in Tasks : CopyOK(n, x)'
  BY <1>1, <1>7, <1>p, KeepsCopies
<1>11. won => row[t].status \in Unfinished /\ row[t].status \notin Terminal
  BY <1>2 DEF Won, Unfinished, Terminal
<1>12. /\ row'[t].status # "absent"
       /\ row[t].status \in Terminal => row'[t].status = row[t].status
  BY <1>1, <1>2, <1>11 DEF Unfinished, Terminal
<1>13. ~kind[t].live /\ won => \A m \in Nodes : ~Billing(m, t)
  BY <1>0, <1>11 DEF BillOK
<1>14. won => Worth(t)' = WorthAt(t, s)
  BY <1>1 DEF Worth, WorthAt
<1>15. BillOK(n, t)'
  <2>1. Billing(n, t)' => p.at = "bill"
    BY <1>7, <1>8 DEF Billing
  <2> QED
    BY <1>1, <1>2, <1>4, <1>7, <1>8, <1>14, <2>1 DEF BillOK
<1>16. RowOK(t)'
  <2>1. CASE won
    BY <1>0, <1>1, <1>2, <1>12, <2>1 DEF RowOK, Succeeded, Unfinished, Terminal
  <2>2. CASE ~won
    BY <1>0, <1>1, <2>2 DEF RowOK, Succeeded
  <2> QED
    BY <2>1, <2>2
<1>17. ~Billing(n, t) /\ (Billing(n, t)' => p.at = "bill")
       /\ \A m \in Nodes \ {n} : Billing(m, t)' <=> Billing(m, t)
  BY <1>7, <1>8 DEF Billing
<1>18. WalletOK(t)'
  <2> SUFFICES ASSUME ~IsOrg(t), ~kind[t].live, sub[t].at # "lost" PROVE WalletOK(t)'
    BY DEF WalletOK, IsOrg
  <2>1. Given(t)' = Given(t)
    BY DEF Given
  <2>2. CASE ~won
    <3>1. Worth(t)' = Worth(t)
      BY <1>1, <2>2 DEF Worth
    <3>2. \A m \in Nodes : (Billing(m, t)' <=> Billing(m, t)) /\ (Billing(m, t) => node'[m] = node[m])
      BY <1>7, <1>8, <1>17, <2>2
    <3> QED
      BY <1>0, <1>1, <2>1, <2>2, <3>1, <3>2 DEF WalletOK, Covers, IsOrg
  <2>3. CASE won
    <3>1. Covers(t, Given(t), sub[t].quota)
      BY <1>0, <1>11, <2>3 DEF WalletOK
    <3>2. \A m \in Nodes : Billing(m, t)' => m = n /\ p.at = "bill"
      BY <1>13, <1>17, <2>3
    <3>3. row'[t].status \in Terminal /\ row'[t].status \notin Unfinished /\ row'[t].status # "absent"
          /\ row'[t].quota = sub[t].quota
      BY <1>1, <1>2, <2>3 DEF Unfinished, Terminal
    <3>4. \A m \in Nodes : Billing(m, t)' => node'[m].at = "bill"
      BY <1>8, <3>2
    <3>5. sub[t].quota \in Nat /\ Given(t) \in Int
      BY <1>0, TaskFacts DEF Given
    <3>6. Given(t) >= 0 /\ (t \notin spoiled => Given(t) = sub[t].quota)
      BY <3>1, <3>5 DEF Covers
    <3>7. (\A m \in Nodes : ~Billing(m, t)') => sub[t].quota \in Worth(t)'
      <4>1. p.at = "bill" => Billing(n, t)'
        BY <1>4, <1>7, <1>8 DEF Billing
      <4> QED
        BY <1>7, <1>14, <2>3, <4>1
    <3> QED
      BY <2>1, <3>1, <3>3, <3>4, <3>6, <3>7 DEF WalletOK, Covers
  <2> QED
    BY <2>2, <2>3
<1>19. ~kind[t].live /\ p.at \in {"bill", "write"} => \A m \in Nodes \ {n} : ~Billing(m, t)
  BY <1>7, <1>13
<1>20. /\ node[n].at \in {"bill", "write"} => node[n].task = t
       /\ p.at \in {"bill", "write"} => p.task = t
  BY <1>4, <1>7
<1> QED
  BY <1>0, <1>p, <1>7, <1>1, <1>9, <1>10, <1>12, <1>15, <1>16, <1>18, <1>19, <1>20, NodeStep

\* A task that is too old, or that the provider never named.
LEMMA FailAndRefundStep ==
  ASSUME AsyncInv, NEW n \in Nodes, NEW t \in Tasks, FailAndRefund(n, t)
  PROVE  AsyncInv'
<1> DEFINE mem == node[n].mem[t]
           new == EndedRow(mem, "FAILURE")
           owed == mem.quota # 0
<1>0. /\ TypeOK /\ CopyOK(n, t) /\ Holds(n, t) /\ node[n].at \in {"pick", "answer"}
      /\ UpdateWithStatus(t, mem.status, new)
      /\ node' = [node EXCEPT ![n] = Ended(n, t, Won(t, mem.status), owed, 0, TRUE)]
      /\ UNCHANGED <<kind, sub, job, held, sess, get, inputs, spoiled>>
  BY DEF AsyncInv, FailAndRefund, Holds
<1>1. mem \in Row
  BY <1>0, PassFacts
<1>2. new \in Row /\ new.status = "FAILURE" /\ new.quota = mem.quota
  BY <1>1 DEF Row, Terminal, EndedRow
<1>3. 0 \in Quotas /\ owed \in BOOLEAN /\ "FAILURE" \in Terminal
  BY DEF Quotas, Terminal
<1>4. ~kind[t].live => /\ owed => 0 \in WorthAt(t, "FAILURE")
                       /\ ~owed => sub[t].quota \in WorthAt(t, "FAILURE")
  BY <1>0 DEF CopyOK, WorthAt
<1> HIDE DEF new, owed
<1> QED
  BY <1>0, <1>2, <1>3, <1>4, EndStep

\* The answer of the provider is acted on.
LEMMA ApplyStep ==
  ASSUME AsyncInv, NEW n \in Nodes, Apply(n)
  PROVE  AsyncInv'
<1>0. /\ TypeOK /\ node[n].at = "answer"
      /\ UNCHANGED <<kind, sub, job, held, sess, get, inputs, spoiled>>
  BY DEF AsyncInv, Apply
<1>t. PICK t \in Tasks : t = node[n].task
  BY <1>0, PassFacts
<1> DEFINE mem == node[n].mem[t]
<1>1. CopyOK(n, t) /\ Holds(n, t) /\ AnswerOK(n)
  BY <1>0, <1>t DEF AsyncInv, Holds
<1>2. mem \in Row /\ mem.status \in Unfinished
  BY <1>0, <1>1, PassFacts DEF CopyOK
<1>3. ASSUME FailFromPoll(n) PROVE AsyncInv'
  <2> DEFINE new == EndedRow(mem, "FAILURE")
             owed == mem.quota # 0
  <2>1. /\ UpdateWithStatus(t, mem.status, new)
        /\ node' = [node EXCEPT ![n] = Ended(n, t, Won(t, mem.status), owed, 0, TRUE)]
    BY <1>3, <1>t DEF FailFromPoll
  <2>2. new \in Row /\ new.status = "FAILURE" /\ new.quota = mem.quota
    BY <1>2 DEF Row, Terminal, EndedRow
  <2>3. 0 \in Quotas /\ owed \in BOOLEAN /\ "FAILURE" \in Terminal
    BY DEF Quotas, Terminal
  <2>4. ~kind[t].live => /\ owed => 0 \in WorthAt(t, "FAILURE")
                         /\ ~owed => sub[t].quota \in WorthAt(t, "FAILURE")
    BY <1>1 DEF CopyOK, WorthAt
  <2> HIDE DEF new, owed
  <2> QED
    BY <1>0, <1>1, <2>1, <2>2, <2>3, <2>4, EndStep
<1>4. ASSUME NEW new \in Row, new.status \in Unfinished, new.quota = mem.quota,
             UpdateWithStatus(t, mem.status, new) \/ UNCHANGED row,
             node' = [node EXCEPT ![n] = Back(n, t)]
      PROVE  AsyncInv'
  BY <1>0, <1>1, <1>4, FollowStep
<1>5. CASE RecordPollFailure(n)
  <2>1. \/ FailFromPoll(n)
        \/ UpdateWithStatus(t, mem.status, mem) /\ node' = [node EXCEPT ![n] = Back(n, t)]
    BY <1>5, <1>t DEF RecordPollFailure
  <2> QED
    BY <1>2, <1>3, <1>4, <2>1
<1>6. CASE Follow(n)
  <2>0. PICK full \in BOOLEAN :
          \/ UpdateWithStatus(t, mem.status, [mem EXCEPT !.status = node[n].ans, !.full = full])
          \/ UNCHANGED row
    BY <1>6, <1>t DEF Follow
  <2> DEFINE new == [mem EXCEPT !.status = node[n].ans, !.full = full]
  <2>1. /\ UpdateWithStatus(t, mem.status, new) \/ UNCHANGED row
        /\ node' = [node EXCEPT ![n] = Back(n, t)] /\ node[n].ans \in Unfinished
    BY <1>6, <1>t, <2>0 DEF Follow
  <2>2. new \in Row /\ new.status \in Unfinished /\ new.quota = mem.quota
    BY <1>2, <2>1 DEF Row
  <2> HIDE DEF new
  <2> QED
    BY <1>4, <2>1, <2>2
<1>7. CASE Finish(n)
  <2> DEFINE s == node[n].ans
             used == job[t].usage
             new == EndedRow(mem, s)
             owed == job[t].metered \/ (s = "FAILURE" /\ mem.quota # 0)
  <2>1. /\ s \in Terminal /\ UpdateWithStatus(t, mem.status, new)
        /\ node' = [node EXCEPT ![n] = Ended(n, t, Won(t, mem.status), owed, used, ~job[t].metered)]
    BY <1>7, <1>t DEF Finish
  <2>2. new \in Row /\ new.status = s /\ new.quota = mem.quota
    BY <1>2, <2>1 DEF Row, EndedRow
  <2>3. used \in Quotas /\ owed \in BOOLEAN /\ (~job[t].metered) \in BOOLEAN
    BY <1>0, TaskFacts
  <2>4. s = "SUCCESS" => Succeeded(t)
    BY <1>0, <1>t, <1>1 DEF AnswerOK
  <2>5. ~kind[t].live => (owed => used \in WorthAt(t, s)) /\ (~owed => sub[t].quota \in WorthAt(t, s))
    BY <1>1, <2>1 DEF CopyOK, WorthAt, Terminal
  <2> HIDE DEF new, owed, s, used
  <2> QED
    BY <1>0, <1>1, <2>1, <2>2, <2>3, <2>4, <2>5, EndStep
<1> QED
  BY <1>3, <1>5, <1>6, <1>7 DEF Apply

\* A pass that keeps its copies, or drops some, while no row changes its status.
LEMMA KeepsOrDrops ==
  ASSUME AsyncInv, NEW n \in Nodes, NEW p \in Pass,
         node' = [node EXCEPT ![n] = p], UNCHANGED <<kind, sub, job>>,
         \A x \in Tasks : row'[x].status = row[x].status,
         p.at # "answer", p.todo \subseteq node[n].todo,
         \A x \in p.todo : p.mem[x] = node[n].mem[x]
  PROVE  AnswerOK(n)' /\ \A x \in Tasks : CopyOK(n, x)'
<1>0. node'[n] = p
  BY DEF AsyncInv, TypeOK
<1>1. AnswerOK(n)'
  BY <1>0 DEF AnswerOK
<1>2. ASSUME NEW x \in Tasks PROVE CopyOK(n, x)'
  <2>1. CopyOK(n, x)
    BY DEF AsyncInv
  <2>2. Holds(n, x)' => x \in p.todo /\ x \in node[n].todo
    BY <1>0 DEF Holds
  <2> QED
    BY <1>0, <2>1, <2>2 DEF CopyOK, Holds
<1> QED
  BY <1>1, <1>2

\* A node that bills a task is the only one to do so.
LEMMA OnlyBiller ==
  ASSUME AsyncInv, NEW n \in Nodes, NEW t \in Tasks, Billing(n, t), ~kind[t].live
  PROVE  /\ \A m \in Nodes \ {n} : ~Billing(m, t)
         /\ row[t].status \in Terminal /\ node[n].due \in Worth(t)
         /\ node[n].at = "bill" => node[n].mem[t].quota = sub[t].quota
  BY DEF AsyncInv, OneBiller, BillOK

\* The payer is charged what is due, or refunded.
LEMMA BillStep ==
  ASSUME AsyncInv, NEW n \in Nodes, Bill(n)
  PROVE  AsyncInv'
<1>0. /\ TypeOK /\ node[n].at = "bill" /\ UNCHANGED <<kind, sub, job, row, get, inputs, spoiled>>
  BY DEF AsyncInv, Bill
<1>t. PICK t \in Tasks : t = node[n].task
  BY <1>0, PassFacts
<1>d. PICK due \in Quotas : due = node[n].due /\ due \in Nat
  BY <1>0, PassFacts
<1> DEFINE mem == node[n].mem[t]
           w == [node[n] EXCEPT !.at = "write"]
           refund == node[n].refund
           p == IF WritesQuota(t, due, refund) THEN w ELSE Back(n, t)
<1>1. /\ RowOK(t) /\ WalletOK(t) /\ (IsOrg(t) => held[t] >= 0) /\ Billing(n, t)
      /\ mem \in Row /\ mem.quota \in Nat /\ held[t] \in Int /\ sub[t].quota \in Nat
  <2>1. mem \in Row
    BY <1>0, PassFacts
  <2> QED
    BY <1>0, <1>t, <2>1, QuotaFacts, TaskFacts DEF AsyncInv, Billing, Row
<1>2. node' = [node EXCEPT ![n] = p]
  BY <1>t, <1>d DEF Bill
<1>3. /\ w \in Pass /\ w.at = "write" /\ w.task = t /\ w.todo = node[n].todo
      /\ w.mem = node[n].mem /\ w.due = due
  BY <1>0, <1>t, <1>d, PassFacts DEF Pass
<1>4. LET k == Back(n, t) IN
      /\ k \in Pass /\ k.at \in {"idle", "pick"} /\ k.todo \subseteq node[n].todo \ {t}
      /\ \A x \in k.todo : k.mem[x] = node[n].mem[x]
  BY <1>0, BackFacts
<1>5. (WritesQuota(t, due, refund) => p = w) /\ (~WritesQuota(t, due, refund) => p = Back(n, t))
  OBVIOUS
<1> HIDE DEF p, w
<1>6. /\ p \in Pass /\ p.at \in {"idle", "pick", "write"} /\ p.todo \subseteq node[n].todo
      /\ \A x \in p.todo : p.mem[x] = node[n].mem[x]
      /\ p.at = "write" => p.task = t /\ p.due = due
      /\ WritesQuota(t, due, refund) => p.at = "write"
  BY <1>3, <1>4, <1>5
<1>7. node'[n] = p /\ \A m \in Nodes \ {n} : node'[m] = node[m]
  BY <1>0, <1>2 DEF TypeOK
<1>8. /\ held' \in [Tasks -> Int] /\ \A x \in Tasks \ {t} : held'[x] = held[x]
      /\ IsOrg(t) => held'[t] >= 0
      /\ ~IsOrg(t) => held'[t] = held[t] + due - mem.quota
      /\ sess' \in [Tasks -> {"none", "pre_consumed", "settled", "refunded"}]
  <2>1. CASE ~IsOrg(t)
    <3>1. held' = [held EXCEPT ![t] = held[t] + due - mem.quota] /\ UNCHANGED sess
      BY <1>t, <1>d, <2>1 DEF Bill, AdjustFunding
    <3> QED
      BY <1>0, <1>1, <1>d, <2>1, <3>1 DEF TypeOK
  <2>2. CASE IsOrg(t)
    <3>1. BillOrganization(t, due, refund)
      BY <1>t, <1>d, <2>2 DEF Bill
    <3>2. \/ RefundSession(t) \/ SettleSession(t, due) \/ UNCHANGED <<held, sess>>
      BY <3>1 DEF BillOrganization
    <3>3. held \in [Tasks -> Int] /\ sess \in [Tasks -> {"none", "pre_consumed", "settled", "refunded"}]
      BY <1>0 DEF TypeOK
    <3>4. CASE RefundSession(t)
      BY <2>2, <3>3, <3>4 DEF RefundSession
    <3>5. CASE SettleSession(t, due)
      BY <1>d, <2>2, <3>3, <3>5 DEF SettleSession
    <3>6. CASE UNCHANGED <<held, sess>>
      BY <1>1, <2>2, <3>3, <3>6
    <3> QED
      BY <3>2, <3>4, <3>5, <3>6
  <2> QED
    BY <2>1, <2>2
<1>9. TypeOK'
  BY <1>0, <1>2, <1>6, <1>8 DEF TypeOK
<1>10. AnswerOK(n)' /\ \A x \in Tasks : CopyOK(n, x)'
  BY <1>0, <1>2, <1>6, KeepsOrDrops
<1>11. Worth(t)' = Worth(t)
  BY <1>0 DEF Worth
<1>12. BillOK(n, t)'
  <2>1. Billing(n, t)' => p.at = "write"
    BY <1>6, <1>7 DEF Billing
  <2> QED
    BY <1>0, <1>1, <1>d, <1>6, <1>7, <1>11, <2>1, OnlyBiller DEF BillOK
<1>13. RowOK(t)'
  BY <1>0, <1>1 DEF RowOK, Succeeded
<1>14. WalletOK(t)'
  <2> SUFFICES ASSUME ~IsOrg(t), ~kind[t].live, sub[t].at # "lost" PROVE WalletOK(t)'
    BY <1>0 DEF WalletOK, IsOrg
  <2>1. p.at = "write" /\ p.task = t /\ p.due = due
    BY <1>6 DEF WritesQuota
  <2>2. /\ \A m \in Nodes \ {n} : ~Billing(m, t)
        /\ row[t].status \in Terminal /\ mem.quota = sub[t].quota
    BY <1>0, <1>1, OnlyBiller
  <2>3. Covers(t, Given(t), sub[t].quota)
    BY <1>0, <1>1 DEF WalletOK
  <2>4. Given(t) \in Int /\ Given(t)' = Given(t) + due - sub[t].quota
    BY <1>0, <1>1, <1>8, <1>d, <2>2, TaskFacts DEF Given
  <2>5. Covers(t, Given(t)', due)
    BY <1>1, <1>d, <2>3, <2>4 DEF Covers
  <2>6. Billing(n, t)' /\ \A m \in Nodes : Billing(m, t)' => m = n
    BY <1>7, <2>1, <2>2 DEF Billing
  <2>7. \A m \in Nodes : Billing(m, t)' => node'[m].at = "write" /\ node'[m].due = due
    BY <1>7, <2>1, <2>6
  <2>8. row'[t].status \notin Unfinished /\ row'[t].status # "absent"
    BY <1>0, <2>2 DEF Unfinished, Terminal
  <2> QED
    BY <1>0, <2>5, <2>6, <2>7, <2>8 DEF WalletOK, Covers
<1>15. ~kind[t].live => \A m \in Nodes \ {n} : ~Billing(m, t)
  BY <1>1, OnlyBiller
<1> QED
  BY <1>0, <1>t, <1>2, <1>6, <1>8, <1>9, <1>10, <1>12, <1>13, <1>14, <1>15, NodeStep

\* The row is told what was charged.
LEMMA WriteQuotaStep ==
  ASSUME AsyncInv, NEW n \in Nodes, WriteQuota(n)
  PROVE  AsyncInv'
<1>0. /\ TypeOK /\ node[n].at = "write" /\ UNCHANGED <<kind, sub, job, held, sess, get, inputs, spoiled>>
  BY DEF AsyncInv, WriteQuota
<1>t. PICK t \in Tasks : t = node[n].task
  BY <1>0, PassFacts
<1>d. PICK due \in Quotas : due = node[n].due /\ due \in Nat
  BY <1>0, PassFacts
<1> DEFINE p == Back(n, t)
           new == [row[t] EXCEPT !.quota = due]
<1>1. RowOK(t) /\ WalletOK(t) /\ (IsOrg(t) => held[t] >= 0) /\ Billing(n, t) /\ row[t] \in Row
  BY <1>0, <1>t, TaskFacts DEF AsyncInv, Billing
<1>2. node' = [node EXCEPT ![n] = p] /\ row' = [row EXCEPT ![t] = new]
  BY <1>t, <1>d DEF WriteQuota
<1>3. new \in Row /\ new.status = row[t].status /\ new.quota = due
  BY <1>1 DEF Row
<1>4. /\ p \in Pass /\ p.at \in {"idle", "pick"} /\ p.todo \subseteq node[n].todo
      /\ \A x \in p.todo : p.mem[x] = node[n].mem[x]
  BY <1>0, BackFacts
<1> HIDE DEF p, new
<1>5. /\ row' \in [Tasks -> Row] /\ \A x \in Tasks \ {t} : row'[x] = row[x]
      /\ row'[t].status = row[t].status /\ row'[t].quota = due
  BY <1>0, <1>2, <1>3 DEF TypeOK
<1>6. node'[n] = p /\ \A m \in Nodes \ {n} : node'[m] = node[m]
  BY <1>0, <1>2 DEF TypeOK
<1>7. TypeOK'
  BY <1>0, <1>2, <1>4, <1>5 DEF TypeOK
<1>8. AnswerOK(n)' /\ \A x \in Tasks : CopyOK(n, x)'
  BY <1>0, <1>2, <1>4, <1>5, KeepsOrDrops
<1>9. ~Billing(n, t)' /\ BillOK(n, t)'
  BY <1>4, <1>6 DEF Billing, BillOK
<1>10. ~kind[t].live => /\ \A m \in Nodes \ {n} : ~Billing(m, t)
                        /\ row[t].status \in Terminal /\ due \in Worth(t)
  BY <1>1, <1>d, OnlyBiller
<1>11. RowOK(t)'
  BY <1>0, <1>1, <1>5, <1>10 DEF RowOK, Succeeded, Unfinished, Terminal
<1>12. WalletOK(t)'
  <2> SUFFICES ASSUME ~IsOrg(t), ~kind[t].live, sub[t].at # "lost" PROVE WalletOK(t)'
    BY <1>0 DEF WalletOK, IsOrg
  <2>1. Covers(t, Given(t), due) /\ Given(t) \in Int
    <3>1. Covers(t, Given(t), due)
      BY <1>0, <1>1, <1>d DEF WalletOK
    <3> QED
      BY <1>0, <3>1, TaskFacts DEF Given
  <2>2. Given(t)' = Given(t) /\ Worth(t)' = Worth(t)
    BY <1>0, <1>5 DEF Given, Worth
  <2>3. \A m \in Nodes : ~Billing(m, t)'
    BY <1>6, <1>9, <1>10 DEF Billing
  <2>4. row'[t].status \notin Unfinished /\ row'[t].status # "absent"
    BY <1>5, <1>10 DEF Unfinished, Terminal
  <2>5. Given(t) >= 0 /\ (t \notin spoiled => Given(t) = due)
    BY <1>d, <2>1 DEF Covers
  <2> QED
    BY <1>0, <1>5, <1>10, <2>2, <2>3, <2>4, <2>5 DEF WalletOK
<1> QED
  BY <1>0, <1>t, <1>1, <1>2, <1>4, <1>5, <1>7, <1>8, <1>9, <1>11, <1>12, NodeStep

\* A node gives up what it was about to bill: the call fails, or the node dies.
LEMMA DropStep ==
  ASSUME AsyncInv, NEW n \in Nodes, NEW p \in Pass, node' = [node EXCEPT ![n] = p],
         p.at \in {"idle", "pick"}, p.todo \subseteq node[n].todo,
         \A x \in p.todo : p.mem[x] = node[n].mem[x],
         spoiled' = spoiled \cup {x \in Tasks : Billing(n, x)}, Input,
         UNCHANGED <<kind, sub, job, row, held, sess, get>>
  PROVE  AsyncInv'
<1>0. TypeOK /\ inputs' \in Nat
  BY DEF AsyncInv, TypeOK, Input
<1>t. PICK t \in Tasks : t = node[n].task
  BY <1>0, PassFacts
<1>1. RowOK(t) /\ WalletOK(t) /\ (IsOrg(t) => held[t] >= 0)
  BY DEF AsyncInv
<1>2. node'[n] = p /\ \A m \in Nodes \ {n} : node'[m] = node[m]
  BY <1>0 DEF TypeOK
<1>3. /\ \A x \in Tasks \ {t} : x \in spoiled' <=> x \in spoiled
      /\ t \in spoiled' <=> t \in spoiled \/ Billing(n, t)
      /\ spoiled' \subseteq Tasks
  BY <1>0, <1>t DEF Billing, TypeOK
<1>4. TypeOK'
  BY <1>0, <1>3 DEF TypeOK
<1>5. AnswerOK(n)' /\ \A x \in Tasks : CopyOK(n, x)'
  BY KeepsOrDrops
<1>6. ~Billing(n, t)' /\ BillOK(n, t)' /\ \A m \in Nodes \ {n} : Billing(m, t)' <=> Billing(m, t)
  BY <1>2 DEF Billing, BillOK
<1>7. RowOK(t)'
  BY <1>1, <1>3 DEF RowOK, Succeeded
<1>8. WalletOK(t)'
  <2> SUFFICES ASSUME ~IsOrg(t), ~kind[t].live, sub[t].at # "lost" PROVE WalletOK(t)'
    BY DEF WalletOK, IsOrg
  <2>1. Given(t)' = Given(t) /\ Worth(t)' = Worth(t)
    BY DEF Given, Worth
  <2>2. CASE ~Billing(n, t)
    <3>1. (t \in spoiled' <=> t \in spoiled)
          /\ \A m \in Nodes : (Billing(m, t)' <=> Billing(m, t)) /\ (Billing(m, t) => node'[m] = node[m])
      BY <1>2, <1>3, <1>6, <2>2
    <3> QED
      BY <1>1, <2>1, <3>1 DEF WalletOK, Covers, IsOrg
  <2>3. CASE Billing(n, t)
    <3>1. (\A m \in Nodes : ~Billing(m, t)') /\ row[t].status \in Terminal /\ t \in spoiled'
      BY <1>3, <1>6, <2>3, OnlyBiller
    <3>2. /\ Covers(t, Given(t), IF node[n].at = "bill" THEN sub[t].quota ELSE node[n].due)
          /\ Given(t) \in Int /\ sub[t].quota \in Nat /\ node[n].due \in Nat
      <4>1. Given(t) \in Int /\ sub[t].quota \in Nat /\ node[n].due \in Nat
        BY <1>0, TaskFacts, PassFacts DEF Given
      <4> QED
        BY <1>1, <2>3, <4>1 DEF WalletOK
    <3>3. Given(t) >= 0
      BY <3>2 DEF Covers
    <3>4. row'[t].status \notin Unfinished /\ row'[t].status # "absent"
      BY <3>1 DEF Unfinished, Terminal
    <3> QED
      BY <2>1, <3>1, <3>3, <3>4 DEF WalletOK
  <2> QED
    BY <2>2, <2>3
<1> QED
  BY <1>t, <1>1, <1>3, <1>4, <1>5, <1>6, <1>7, <1>8, NodeStep

\* A billing call that fails, and a node that dies.
LEMMA FaultStep ==
  ASSUME AsyncInv, NEW n \in Nodes, BillFails(n) \/ Crash(n)
  PROVE  AsyncInv'
<1>0. TypeOK
  BY DEF AsyncInv
<1>t. PICK t \in Tasks : t = node[n].task
  BY <1>0, PassFacts
<1>1. CASE BillFails(n)
  <2> DEFINE p == Back(n, t)
  <2>1. /\ p \in Pass /\ p.at \in {"idle", "pick"} /\ p.todo \subseteq node[n].todo
        /\ \A x \in p.todo : p.mem[x] = node[n].mem[x]
    BY <1>0, BackFacts
  <2>2. {x \in Tasks : Billing(n, x)} = {t}
    BY <1>t, <1>1 DEF BillFails, Billing
  <2>3. /\ node' = [node EXCEPT ![n] = p] /\ spoiled' = spoiled \cup {t} /\ Input
        /\ UNCHANGED <<kind, sub, job, row, held, sess, get>>
    BY <1>t, <1>1 DEF BillFails, Fault
  <2> HIDE DEF p
  <2> QED
    BY <2>1, <2>2, <2>3, DropStep
<1>2. CASE Crash(n)
  <2>1. /\ node' = [node EXCEPT ![n] = Idle] /\ Input
        /\ spoiled' = spoiled \cup {x \in Tasks : Billing(n, x)}
        /\ UNCHANGED <<kind, sub, job, row, held, sess, get>>
    BY <1>2 DEF Crash
  <2> QED
    BY <2>1, IdleFacts, DropStep
<1> QED
  BY <1>1, <1>2

(***************************************************************************)
(* The invariant, and what follows from it.                                *)
(***************************************************************************)

\* The invariant holds before the first submission.
LEMMA AsyncInvInit == Init => AsyncInv
<1> SUFFICES ASSUME Init PROVE AsyncInv
  OBVIOUS
<1>1. /\ \A t \in Tasks : /\ sub[t] = [at |-> "new", pre |-> 0, quota |-> 0]
                          /\ job[t] = [state |-> "none", metered |-> FALSE, usage |-> 0, id |-> TRUE]
                          /\ row[t] = NoRow /\ get[t] = NoRow /\ held[t] = 0
      /\ \A n \in Nodes : node[n] = Idle
  BY DEF Init
<1>2. NoRow \in Row /\ NoRow.status = "absent" /\ 0 \in Quotas
  BY DEF NoRow, Row, Quotas
<1>3. TypeOK
  BY <1>2, IdleFacts, AsyncAssumption DEF Init, TypeOK
<1>4. \A n \in Nodes, t \in Tasks : ~Billing(n, t) /\ ~Holds(n, t)
  BY <1>1, IdleFacts DEF Billing, Holds
<1>5. \A n \in Nodes : AnswerOK(n) /\ \A t \in Tasks : CopyOK(n, t) /\ BillOK(n, t)
  BY <1>1, <1>4, IdleFacts DEF AnswerOK, CopyOK, BillOK
<1>6. \A t \in Tasks : RowOK(t)
  BY <1>1, <1>2 DEF RowOK, Unfinished
<1>7. \A t \in Tasks : WalletOK(t) /\ (IsOrg(t) => held[t] >= 0)
  BY <1>1, <1>2, <1>4 DEF WalletOK, Unfinished, Terminal
<1> QED
  BY <1>3, <1>4, <1>5, <1>6, <1>7 DEF AsyncInv, OneBiller

\* Every step keeps it.
LEMMA AsyncInvStep == AsyncInv /\ [Next]_vars => AsyncInv'
<1> SUFFICES ASSUME AsyncInv, [Next]_vars PROVE AsyncInv'
  OBVIOUS
<1>1. CASE UNCHANGED vars
  <2>1. TypeOK' /\ OneBiller'
    BY <1>1 DEF vars, AsyncInv, TypeOK, OneBiller, Billing
  <2>2. ASSUME NEW n \in Nodes PROVE AnswerOK(n)' /\ \A t \in Tasks : CopyOK(n, t)' /\ BillOK(n, t)'
    BY <1>1 DEF vars, AsyncInv, AnswerOK, Succeeded, CopyOK, Holds, BillOK, Billing, Worth
  <2>3. ASSUME NEW t \in Tasks PROVE RowOK(t)' /\ WalletOK(t)' /\ (IsOrg(t) => held[t] >= 0)'
    <3>1. RowOK(t) /\ WalletOK(t) /\ (IsOrg(t) => held[t] >= 0)
      BY DEF AsyncInv
    <3>2. Given(t)' = Given(t) /\ Worth(t)' = Worth(t) /\ \A n \in Nodes : Billing(n, t)' <=> Billing(n, t)
      BY <1>1 DEF vars, Given, Worth, Billing
    <3>3. RowOK(t)'
      BY <1>1, <3>1 DEF vars, RowOK, Succeeded
    <3>4. WalletOK(t)'
      BY <1>1, <3>1, <3>2 DEF vars, WalletOK, Covers, IsOrg
    <3> QED
      BY <1>1, <3>1, <3>3, <3>4 DEF vars, IsOrg
  <2> QED
    BY <2>1, <2>2, <2>3 DEF AsyncInv
<1>2. ASSUME NEW t \in Tasks,
             \/ Submission(t) \/ JobStarts(t) \/ JobEnds(t) \/ TimesOut(t) \/ GetRead(t) \/ GetWrite(t)
      PROVE  AsyncInv'
  BY <1>2, UnstoredStep, InsertStep, SettleStep, JobStep, RowStep DEF Submission
<1>3. ASSUME NEW n \in Nodes, PassWork(n) \/ BillFails(n) \/ Crash(n)
      PROVE  AsyncInv'
  BY <1>3, StartStep, ApplyStep, BillStep, WriteQuotaStep, FailAndRefundStep, FetchStep, FaultStep
     DEF PassWork
<1> QED
  BY <1>1, <1>2, <1>3 DEF Next

\* The inductive invariant of the tasks holds in every reachable state: what the submission,
\* the passes of task_polling.go and the billing of task_billing.go know of a task agrees
\* with its row and with what its payer gave.
THEOREM AsyncInvariant == Spec => []AsyncInv
<1>1. Init => AsyncInv
  BY AsyncInvInit
<1>2. AsyncInv /\ [Next]_vars => AsyncInv'
  BY AsyncInvStep
<1> QED
  BY <1>1, <1>2, PTL DEF Spec

\* Task rows, charges, ledger sessions and the copies a polling pass works with keep their
\* types.
THEOREM AsyncTaskTypeOK == Spec => []TypeOK
<1>1. AsyncInv => TypeOK
  BY DEF AsyncInv
<1> QED
  BY <1>1, AsyncInvariant, PTL

\* However passes, sweeps and the submission interleave, the row tells what a wallet has
\* paid, and at the end that is what the outcome is worth (task_polling.go, task_billing.go).
THEOREM WalletPaysForOutcome == Spec => []PaidForOutcome
<1>1. AsyncInv => PaidForOutcome
  <2> SUFFICES ASSUME AsyncInv, NEW t \in Tasks \ spoiled, Quiet(t), row[t].status # "absent",
                      ~IsOrg(t), ~kind[t].live
               PROVE  /\ row[t].quota = held[t]
                      /\ row[t].status \in Terminal => held[t] \in Worth(t)
    BY DEF PaidForOutcome
  <2>1. TypeOK /\ RowOK(t) /\ WalletOK(t) /\ sub[t].at = "over" /\ \A n \in Nodes : ~Billing(n, t)
    BY DEF AsyncInv, Quiet
  <2>2. held[t] \in Int /\ row[t].status \in {"absent"} \cup Unfinished \cup Terminal
    BY <2>1, TaskFacts
  <2>3. Given(t) = held[t]
    BY <2>1, <2>2 DEF Given
  <2>4. CASE row[t].status \in Unfinished
    BY <2>1, <2>3, <2>4 DEF RowOK, WalletOK, Covers, Unfinished, Terminal
  <2>5. CASE row[t].status \in Terminal
    BY <2>1, <2>3, <2>5 DEF WalletOK
  <2> QED
    BY <2>2, <2>4, <2>5
<1> QED
  BY <1>1, AsyncInvariant, PTL

\* Crashes and failing calls may leave a refund undone, but never make the payer receive
\* more than it gave.
THEOREM TaskNeverPaysOut == Spec => []NeverPaysOut
<1>1. AsyncInv => NeverPaysOut
  <2> SUFFICES ASSUME AsyncInv, NEW t \in Tasks, ~kind[t].live, sub[t].at # "lost"
               PROVE  held[t] >= 0
    BY DEF NeverPaysOut
  <2>1. TypeOK /\ RowOK(t) /\ WalletOK(t) /\ (IsOrg(t) => held[t] >= 0)
    BY DEF AsyncInv
  <2>2. /\ sub[t].pre \in Nat /\ sub[t].quota \in Nat /\ held[t] \in Int
        /\ row[t].status \in {"absent"} \cup Unfinished \cup Terminal
    BY <2>1, TaskFacts
  <2>3. Given(t) \in Int /\ (Given(t) >= 0 => held[t] >= 0)
    BY <2>1, <2>2 DEF Given, RowOK
  <2>4. CASE ~IsOrg(t) /\ row[t].status \in Unfinished
    BY <2>1, <2>2, <2>3, <2>4 DEF WalletOK, Covers
  <2>5. CASE ~IsOrg(t) /\ row[t].status \in Terminal
    <3>1. ASSUME NEW n \in Nodes, Billing(n, t) PROVE Given(t) >= 0
      <4>1. node[n].due \in Nat
        BY <2>1, PassFacts
      <4>2. Covers(t, Given(t), IF node[n].at = "bill" THEN sub[t].quota ELSE node[n].due)
        BY <2>1, <2>5, <3>1 DEF WalletOK
      <4> QED
        BY <2>2, <2>3, <4>1, <4>2 DEF Covers
    <3>2. (\A n \in Nodes : ~Billing(n, t)) => Given(t) >= 0
      BY <2>1, <2>5 DEF WalletOK
    <3> QED
      BY <2>3, <3>1, <3>2
  <2>6. CASE ~IsOrg(t) /\ row[t].status = "absent"
    BY <2>1, <2>6 DEF WalletOK
  <2> QED
    BY <2>1, <2>2, <2>4, <2>5, <2>6
<1> QED
  BY <1>1, AsyncInvariant, PTL

\* Passes of several nodes with stale copies never reopen or turn a task that has ended.
THEOREM EndedTasksAreFinal == Spec => EndedIsFinal
<1>1. ASSUME AsyncInv, [Next]_vars, NEW t \in Tasks, ~kind[t].live, row[t].status \in Terminal
      PROVE  row'[t].status = row[t].status
  <2>0. TypeOK /\ RowOK(t) /\ row \in [Tasks -> Row]
    BY <1>1 DEF AsyncInv, TypeOK
  <2>1. row[t].status \notin Unfinished /\ row[t].status # "absent"
    BY <1>1 DEF Unfinished, Terminal
  <2>2. ASSUME NEW x \in Tasks, NEW from \in Unfinished, NEW new, UpdateWithStatus(x, from, new)
        PROVE  row'[t].status = row[t].status
    BY <2>0, <2>1, <2>2 DEF UpdateWithStatus
  <2>3. ASSUME NEW x \in Tasks, Insert(x) \/ InsertLost(x) PROVE row'[t].status = row[t].status
    <3>1. sub[x].at = "accepted" /\ InsertRow(x) /\ RowOK(x)
      BY <1>1, <2>3 DEF Insert, InsertLost, AsyncInv
    <3>2. x # t
      BY <2>0, <2>1, <3>1 DEF RowOK
    <3> QED
      BY <2>0, <3>1, <3>2 DEF InsertRow
  <2>4. ASSUME NEW x \in Tasks, TimesOut(x) PROVE row'[t].status = row[t].status
    <3>1. x # t /\ row' = [row EXCEPT ![x].old = TRUE]
      BY <2>1, <2>4 DEF TimesOut
    <3> QED
      BY <2>0, <3>1
  <2>5. ASSUME NEW x \in Tasks, GetWrite(x) PROVE row'[t].status = row[t].status
    <3>1. x # t
      BY <1>1, <2>0, <2>5 DEF GetWrite, RowOK
    <3>2. row' = row \/ \E from, new : UpdateWithStatus(x, from, new)
      BY <2>5 DEF GetWrite
    <3> QED
      BY <2>0, <3>1, <3>2 DEF UpdateWithStatus
  <2>6. ASSUME NEW n \in Nodes, WriteQuota(n) PROVE row'[t].status = row[t].status
    <3>1. row' = [row EXCEPT ![node[n].task].quota = node[n].due] /\ row[t] \in Row
      BY <2>0, <2>6 DEF WriteQuota
    <3> QED
      BY <2>0, <3>1 DEF Row
  <2>7. ASSUME NEW n \in Nodes, NEW x \in Tasks, FailAndRefund(n, x) PROVE row'[t].status = row[t].status
    <3>1. node[n].mem[x].status \in Unfinished
      BY <1>1, <2>7 DEF FailAndRefund, AsyncInv, CopyOK, Holds
    <3> QED
      BY <2>2, <2>7, <3>1 DEF FailAndRefund
  <2>8. ASSUME NEW n \in Nodes, Apply(n) PROVE row'[t].status = row[t].status
    <3>0. PICK x \in Tasks : x = node[n].task
      BY <2>0, PassFacts
    <3>1. node[n].mem[x].status \in Unfinished
      BY <1>1, <2>8, <3>0 DEF Apply, AsyncInv, CopyOK, Holds
    <3>2. row' = row \/ \E new : UpdateWithStatus(x, node[n].mem[x].status, new)
      BY <2>8, <3>0 DEF Apply, RecordPollFailure, FailFromPoll, Follow, Finish
    <3> QED
      BY <2>2, <3>1, <3>2
  <2>9. ASSUME UNCHANGED row PROVE row'[t].status = row[t].status
    BY <2>9
  <2>10. ASSUME NEW x \in Tasks,
                \/ Submission(x) \/ JobStarts(x) \/ JobEnds(x) \/ TimesOut(x) \/ GetRead(x) \/ GetWrite(x)
         PROVE  row'[t].status = row[t].status
    BY <2>3, <2>4, <2>5, <2>9, <2>10
       DEF Submission, PreConsume, SubmitFails, SubmitAccepted, Settle, SubmitDies, JobStarts,
           JobEnds, GetRead
  <2>11. ASSUME NEW n \in Nodes, PassWork(n) \/ BillFails(n) \/ Crash(n)
         PROVE  row'[t].status = row[t].status
    BY <2>6, <2>7, <2>8, <2>9, <2>11
       DEF PassWork, StartSweep, StartPoll, Bill, Fetch, BillFails, Crash
  <2> QED
    BY <1>1, <2>9, <2>10, <2>11 DEF Next, vars
<1>2. AsyncInv /\ [Next]_vars
        => [\A t \in Tasks : ~kind[t].live /\ row[t].status \in Terminal
                => row'[t].status = row[t].status]_vars
  BY <1>1
<1> QED
  BY <1>2, AsyncInvariant, PTL DEF Spec, EndedIsFinal
=============================================================================
