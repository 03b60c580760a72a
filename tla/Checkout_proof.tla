---- MODULE Checkout_proof ----
(***************************************************************************)
(* Proofs about Checkout, for any number of requests, products, users and  *)
(* keys, any stock, any pool size and any choice of faults.                *)
(***************************************************************************)
EXTENDS Checkout, OrderLines_proof

USE DEF dbVars, txVars, rpcVars, paymentsVars, Unlocked, RowFree, CommittedStatus

\* What the DTO validation lets through: lines with positive quantities; a
\* request that got past the header check has a key.
LEMMA InputFacts ==
    ASSUME input \in Inputs, NEW r \in Requests
    PROVE  /\ input[r].key \in Keys \cup {NoKey}
           /\ IsLines(Items(r))
BY InputsAssumption DEF Items

LEMMA QuantityIsNat ==
    ASSUME input \in Inputs, NEW r \in Requests, NEW p
    PROVE  QuantityOf(Items(r), p) \in Nat
BY InputFacts, UnitsFinite

-----------------------------------------------------------------------------
(* Type correctness.                                                       *)

LEMMA TypeInit == Init => TypeOK
BY StockAssumption
DEF Init, TypeOK, PaymentsInit, PaymentsTypeOK, NoAnswer, Codes, Places, InFlight,
    FirstConnection, Finished

LEMMA EndTransactionType ==
    ASSUME TypeOK, NEW r \in Requests, EndTransaction(r)
    PROVE  /\ lock' \in [Products -> Requests \cup {None}]
           /\ todo' \in [Requests -> SUBSET Products]
           /\ awaited' \in [Requests -> Products \cup {None}]
           /\ seen' \in [Requests -> [Products -> Int]]
BY DEF TypeOK, EndTransaction

LEMMA AnswerType ==
    ASSUME TypeOK, NEW r \in Requests, NEW code \in Codes,
           NEW order \in Requests \cup {None}, NEW pay \in Requests \cup {None},
           Answer(r, code, order, pay)
    PROVE  /\ pc' \in [Requests -> Places]
           /\ answer' \in [Requests -> [code    : Codes,
                                        order   : Requests \cup {None},
                                        payment : Requests \cup {None}]]
BY DEF TypeOK, Answer, Go, Places, Finished

LEMMA RejectType ==
    ASSUME TypeOK, NEW r \in Requests, NEW code \in Codes, Reject(r, code)
    PROVE  /\ pc' \in [Requests -> Places]
           /\ answer' \in [Requests -> [code    : Codes,
                                        order   : Requests \cup {None},
                                        payment : Requests \cup {None}]]
BY AnswerType DEF Reject

LEMMA ReuseType ==
    ASSUME TypeOK, NEW r \in Requests, NEW q \in Requests, Reuse(r, q)
    PROVE  /\ pc' \in [Requests -> Places]
           /\ answer' \in [Requests -> [code    : Codes,
                                        order   : Requests \cup {None},
                                        payment : Requests \cup {None}]]
<1>1. "reused" \in Codes /\ payment[q] \in Requests \cup {None}
  BY DEF Codes, TypeOK
<1> QED BY <1>1, AnswerType DEF Reuse

LEMMA TypeStep == TypeOK /\ [Next]_vars => TypeOK'
<1> SUFFICES ASSUME TypeOK, [Next]_vars PROVE TypeOK'
  OBVIOUS
<1> USE DEF PaymentsTypeOK
<1>codes. {"badRequest", "notFound", "conflict", "error", "timeout",
           "unavailable", "created", "reused"} \subseteq Codes
  BY DEF Codes
<1>places. /\ Places = {"new", "connect", "lookup", "locking", "insert", "inserted",
                        "duplicate", "authorize", "awaiting", "recording",
                        "publishing", "failing", "releasing", "done", "crashed"}
  BY DEF Places, InFlight, FirstConnection, Finished
<1>r. ASSUME NEW r \in Requests, Step(r) PROVE TypeOK'
  <2>1. CASE Arrive(r)
    <3>1. CASE input[r].key = NoKey
      BY <2>1, <3>1, <1>codes, RejectType DEF Arrive, TypeOK
    <3>2. CASE input[r].key # NoKey
      BY <2>1, <3>2, <1>places DEF Arrive, Go, TypeOK
    <3> QED BY <3>1, <3>2
  <2>2. CASE Connect(r)
    BY <2>2, <1>places DEF Connect, Go, TypeOK
  <2>3. CASE FindExisting(r)
    <3>1. CASE Reject(r, "notFound") /\ UNCHANGED todo
      BY <2>3, <3>1, <1>codes, RejectType DEF FindExisting, TypeOK
    <3>2. CASE (\E q \in Existing(r) : Reuse(r, q)) /\ UNCHANGED todo
      BY <2>3, <3>2, ReuseType DEF FindExisting, TypeOK, Existing
    <3>3. CASE /\ todo' = [todo EXCEPT ![r] = Named(Items(r)) \cap Products]
               /\ Go(r, "locking")
               /\ UNCHANGED answer
      BY <2>3, <3>3, <1>places DEF FindExisting, Go, TypeOK
    <3> QED BY <2>3, <3>1, <3>2, <3>3 DEF FindExisting
  <2>4. CASE BuildPlan(r)
    <3>1. CASE Reject(r, "notFound") /\ EndTransaction(r)
      BY <2>4, <3>1, <1>codes, RejectType, EndTransactionType DEF BuildPlan, TypeOK
    <3>2. CASE Reject(r, "conflict") /\ EndTransaction(r)
      BY <2>4, <3>2, <1>codes, RejectType, EndTransactionType DEF BuildPlan, TypeOK
    <3>3. CASE Go(r, "insert") /\ UNCHANGED <<answer, txVars>>
      BY <2>4, <3>3, <1>places DEF BuildPlan, Go, TypeOK
    <3> QED BY <2>4, <3>1, <3>2, <3>3 DEF BuildPlan
  <2>5. CASE InsertOrder(r)
    <3>1. CASE Go(r, "inserted") /\ UNCHANGED txVars
      BY <2>5, <3>1, <1>places DEF InsertOrder, Go, TypeOK
    <3>2. CASE Go(r, "duplicate") /\ EndTransaction(r)
      BY <2>5, <3>2, <1>places, EndTransactionType DEF InsertOrder, Go, TypeOK
    <3> QED BY <2>5, <3>1, <3>2 DEF InsertOrder
  <2>6. CASE CommitOrder(r)
    <3>1. stock' \in [Products -> Int]
      <4>1. \A p \in Products : QuantityOf(Items(r), p) \in Nat
        BY QuantityIsNat DEF TypeOK
      <4> QED BY <2>6, <4>1 DEF CommitOrder, CommittedStock, TypeOK
    <3> QED BY <2>6, <3>1, <1>places, EndTransactionType DEF CommitOrder, Go, TypeOK
  <2>7. CASE FindDuplicate(r)
    <3>1. CASE Reject(r, "conflict")
      BY <2>7, <3>1, <1>codes, RejectType DEF FindDuplicate, TypeOK
    <3>2. CASE \E q \in Existing(r) : Reuse(r, q)
      BY <2>7, <3>2, ReuseType DEF FindDuplicate, TypeOK, Existing
    <3> QED BY <2>7, <3>1, <3>2 DEF FindDuplicate
  <2>8. CASE CallAuthorize(r)
    BY <2>8, <1>places DEF CallAuthorize, Go, TypeOK
  <2>9. CASE ReceiveReply(r)
    BY <2>9, <1>places DEF ReceiveReply, Go, TypeOK
  <2>10. CASE RecordPayment(r)
    BY <2>10, <1>places DEF RecordPayment, Go, TypeOK
  <2>11. CASE Publish(r)
    <3>1. payment[r] \in Requests \cup {None}
      BY DEF TypeOK
    <3>2. published' \subseteq Requests
      BY <2>11 DEF Publish, TypeOK
    <3> QED BY <2>11, <3>1, <3>2, <1>codes, AnswerType DEF Publish, TypeOK
  <2>12. CASE FailOrder(r)
    BY <2>12, <1>places DEF FailOrder, Go, TypeOK
  <2>13. CASE CommitFail(r)
    <3>1. stock' \in [Products -> Int]
      <4>1. \A p \in Products : QuantityOf(Items(r), p) \in Nat
        BY QuantityIsNat DEF TypeOK
      <4> QED BY <2>13, <4>1 DEF CommitFail, ReleasedStock, TypeOK
    <3>2. RpcAnswer(r) \in Codes
      BY <1>codes DEF RpcAnswer
    <3> QED BY <2>13, <3>1, <3>2, RejectType, EndTransactionType DEF CommitFail, TypeOK
  <2>14. CASE DeadlockAbort(r)
    BY <2>14, <1>codes, RejectType, EndTransactionType DEF DeadlockAbort, TypeOK
  <2>15. ASSUME NEW p \in Products, LockRow(r, p) PROVE TypeOK'
    BY <2>15 DEF LockRow, TypeOK
  <2>16. ASSUME NEW p \in Products, AwaitRow(r, p) PROVE TypeOK'
    BY <2>16 DEF AwaitRow, TypeOK
  <2> QED BY <1>r, <2>1, <2>2, <2>3, <2>4, <2>5, <2>6, <2>7, <2>8, <2>9, <2>10,
             <2>11, <2>12, <2>13, <2>14, <2>15, <2>16 DEF Step
<1>1. ASSUME NEW r \in Requests, PaymentsHandle(r) PROVE TypeOK'
  <2>1. AuthorizedPayment(r, input[r].key) \in Requests
    BY DEF AuthorizedPayment, TypeOK
  <2> QED BY <1>1, <2>1 DEF PaymentsHandle, Authorize, TypeOK
<1>2. ASSUME NEW r \in Requests, WorkerCompletes(r) PROVE TypeOK'
  BY <1>2 DEF WorkerCompletes, TypeOK
<1>3. ASSUME NEW r \in Requests, AuthorizeFails(r) PROVE TypeOK'
  BY <1>3, <1>places DEF AuthorizeFails, Go, TypeOK
<1>4. ASSUME NEW r \in Requests, StatementFails(r) PROVE TypeOK'
  BY <1>4, <1>codes, RejectType, EndTransactionType DEF StatementFails, TypeOK
<1>5. CASE Crash
  BY <1>5, <1>places DEF Crash, TypeOK
<1>6. CASE RestartPayments
  BY <1>6 DEF RestartPayments, PaymentsRestart, TypeOK
<1>7. CASE UNCHANGED vars
  BY <1>7 DEF vars, TypeOK
<1> QED BY <1>r, <1>1, <1>2, <1>3, <1>4, <1>5, <1>6, <1>7 DEF Next, Settled

\* Every variable of Checkout keeps its type.
THEOREM TypeCorrect == Spec => []TypeOK
BY TypeInit, TypeStep, PTL DEF Spec

-----------------------------------------------------------------------------
(* Where a request is and what its order's row says.                       *)

Unordered == {"new", "connect", "lookup", "locking", "insert", "inserted",
              "duplicate"}
Paying    == {"authorize", "awaiting", "recording", "failing", "releasing"}

\* A request has no order before it commits one, a pending one without a
\* payment while it is paid for, and a message goes out at the very end.
StatusInv ==
    \A r \in Requests :
        /\ pc[r] \in Unordered => status[r] = "none"
        /\ pc[r] \in Paying \cup {"publishing"} => status[r] = "pending"
        /\ pc[r] \in Unordered \cup Paying => payment[r] = None
        /\ pc[r] = "recording" => reply[r] # None
        /\ pc[r] = "publishing" => payment[r] # None
        /\ r \in published => /\ pc[r] = "done"
                              /\ payment[r] # None
                              /\ status[r] \in {"pending", "processed"}
        /\ answer[r].code # "none" => pc[r] = "done"
        /\ answer[r].code \in {"timeout", "unavailable"} =>
               status[r] = "failed" /\ payment[r] = None

LEMMA StatusInit == Init => StatusInv
BY DEF Init, StatusInv, NoAnswer, Unordered, Paying

LEMMA StatusStep == TypeOK /\ StatusInv /\ [Next]_vars => StatusInv'
<1> SUFFICES ASSUME TypeOK, StatusInv, [Next]_vars PROVE StatusInv'
  OBVIOUS
<1> USE DEF StatusInv, TypeOK, Unordered, Paying, Go, Answer
<1>r. ASSUME NEW r \in Requests, Step(r) PROVE StatusInv'
  <2>1. CASE Arrive(r)
    BY <2>1 DEF Arrive, Reject
  <2>2. CASE Connect(r)
    BY <2>2 DEF Connect
  <2>3. CASE FindExisting(r)
    BY <2>3 DEF FindExisting, Reject, Reuse
  <2>4. CASE BuildPlan(r)
    BY <2>4 DEF BuildPlan, Reject
  <2>5. CASE InsertOrder(r)
    BY <2>5 DEF InsertOrder
  <2>6. CASE CommitOrder(r)
    BY <2>6 DEF CommitOrder
  <2>7. CASE FindDuplicate(r)
    BY <2>7 DEF FindDuplicate, Reject, Reuse
  <2>8. CASE CallAuthorize(r)
    BY <2>8 DEF CallAuthorize
  <2>9. CASE ReceiveReply(r)
    BY <2>9 DEF ReceiveReply
  <2>10. CASE RecordPayment(r)
    BY <2>10 DEF RecordPayment
  <2>11. CASE Publish(r)
    BY <2>11 DEF Publish
  <2>12. CASE FailOrder(r)
    BY <2>12 DEF FailOrder
  <2>13. CASE CommitFail(r)
    BY <2>13 DEF CommitFail, Reject
  <2>14. CASE DeadlockAbort(r)
    BY <2>14 DEF DeadlockAbort, Reject
  <2>15. ASSUME NEW p \in Products, LockRow(r, p) PROVE StatusInv'
    BY <2>15 DEF LockRow
  <2>16. ASSUME NEW p \in Products, AwaitRow(r, p) PROVE StatusInv'
    BY <2>16 DEF AwaitRow
  <2> QED BY <1>r, <2>1, <2>2, <2>3, <2>4, <2>5, <2>6, <2>7, <2>8, <2>9, <2>10,
             <2>11, <2>12, <2>13, <2>14, <2>15, <2>16 DEF Step
<1>1. ASSUME NEW r \in Requests, PaymentsHandle(r) PROVE StatusInv'
  <2>1. AuthorizedPayment(r, input[r].key) # None
    BY NoneAssumption DEF AuthorizedPayment, PaymentsTypeOK
  <2> QED BY <1>1, <2>1 DEF PaymentsHandle
<1>2. ASSUME NEW r \in Requests, WorkerCompletes(r) PROVE StatusInv'
  BY <1>2 DEF WorkerCompletes
<1>3. ASSUME NEW r \in Requests, AuthorizeFails(r) PROVE StatusInv'
  BY <1>3 DEF AuthorizeFails
<1>4. ASSUME NEW r \in Requests, StatementFails(r) PROVE StatusInv'
  BY <1>4 DEF StatementFails, Reject
<1>5. CASE Crash
  BY <1>5 DEF Crash, InFlight, FirstConnection
<1>6. CASE RestartPayments
  BY <1>6 DEF RestartPayments
<1>7. CASE UNCHANGED vars
  BY <1>7 DEF vars
<1> QED BY <1>r, <1>1, <1>2, <1>3, <1>4, <1>5, <1>6, <1>7 DEF Next, Settled

-----------------------------------------------------------------------------
(* Which rows a request has locked, and what it knows about them.          *)

\* Only a request with an open transaction locks rows; a row its statement
\* is done with is locked until the transaction ends.
LockInv ==
    \A r \in Requests :
        /\ \A p \in Products : lock[p] = r =>
               pc[r] \in {"locking", "insert", "inserted", "releasing"}
        /\ pc[r] \in {"locking", "releasing"} =>
               \A p \in (Named(Items(r)) \cap Products) \ todo[r] : lock[p] = r
        /\ pc[r] \in {"insert", "inserted"} =>
               \A p \in Named(Items(r)) : p \in Products /\ lock[p] = r

LEMMA LockInit == Init => LockInv
BY NoneAssumption DEF Init, LockInv

LEMMA LockStep == TypeOK /\ StatusInv /\ LockInv /\ [Next]_vars => LockInv'
<1> SUFFICES ASSUME TypeOK, StatusInv, LockInv, [Next]_vars PROVE LockInv'
  OBVIOUS
<1> USE NoneAssumption DEF LockInv, TypeOK, Go, Answer, Items
<1>r. ASSUME NEW r \in Requests, Step(r) PROVE LockInv'
  <2>1. CASE Arrive(r)
    BY <2>1 DEF Arrive, Reject
  <2>2. CASE Connect(r)
    BY <2>2 DEF Connect
  <2>3. CASE FindExisting(r)
    BY <2>3 DEF FindExisting, Reject, Reuse
  <2>4. CASE BuildPlan(r)
    <3>1. CASE Go(r, "done") /\ EndTransaction(r)
      BY <2>4, <3>1 DEF BuildPlan, EndTransaction
    <3>2. CASE Missing(r) = {} /\ Go(r, "insert") /\ UNCHANGED txVars
      BY <2>4, <3>2 DEF BuildPlan, Missing
    <3> QED BY <2>4, <3>1, <3>2 DEF BuildPlan, Reject
  <2>5. CASE InsertOrder(r)
    BY <2>5 DEF InsertOrder, EndTransaction
  <2>6. CASE CommitOrder(r)
    BY <2>6 DEF CommitOrder, EndTransaction
  <2>7. CASE FindDuplicate(r)
    <3>1. Go(r, "done")
      BY <2>7 DEF FindDuplicate, Reject, Reuse
    <3> QED BY <2>7, <3>1 DEF FindDuplicate
  <2>8. CASE CallAuthorize(r)
    BY <2>8 DEF CallAuthorize
  <2>9. CASE ReceiveReply(r)
    BY <2>9 DEF ReceiveReply
  <2>10. CASE RecordPayment(r)
    BY <2>10 DEF RecordPayment
  <2>11. CASE Publish(r)
    BY <2>11 DEF Publish
  <2>12. CASE FailOrder(r)
    BY <2>12 DEF FailOrder, StatusInv, Paying
  <2>13. CASE CommitFail(r)
    BY <2>13 DEF CommitFail, Reject, EndTransaction
  <2>14. CASE DeadlockAbort(r)
    BY <2>14 DEF DeadlockAbort, Reject, EndTransaction
  <2>15. ASSUME NEW p \in Products, LockRow(r, p) PROVE LockInv'
    <3>1. \A q \in Requests : \A x \in Products :
              lock'[x] = q <=> (lock[x] = q \/ (q = r /\ x = p))
      BY <2>15 DEF LockRow
    <3>2. pc' = pc /\ input' = input /\ pc[r] \in {"locking", "releasing"}
      BY <2>15 DEF LockRow, Locking
    <3>3. \A q \in Requests : todo'[q] = IF q = r THEN todo[r] \ {p} ELSE todo[q]
      BY <2>15 DEF LockRow
    <3> QED BY <3>1, <3>2, <3>3
  <2>16. ASSUME NEW p \in Products, AwaitRow(r, p) PROVE LockInv'
    BY <2>16 DEF AwaitRow
  <2> QED BY <1>r, <2>1, <2>2, <2>3, <2>4, <2>5, <2>6, <2>7, <2>8, <2>9, <2>10,
             <2>11, <2>12, <2>13, <2>14, <2>15, <2>16 DEF Step
<1>1. ASSUME NEW r \in Requests, PaymentsHandle(r) PROVE LockInv'
  BY <1>1 DEF PaymentsHandle
<1>2. ASSUME NEW r \in Requests, WorkerCompletes(r) PROVE LockInv'
  BY <1>2 DEF WorkerCompletes
<1>3. ASSUME NEW r \in Requests, AuthorizeFails(r) PROVE LockInv'
  BY <1>3 DEF AuthorizeFails
<1>4. ASSUME NEW r \in Requests, StatementFails(r) PROVE LockInv'
  BY <1>4 DEF StatementFails, Reject, EndTransaction, Throwing
<1>5. CASE Crash
  BY <1>5 DEF Crash, InFlight, FirstConnection
<1>6. CASE RestartPayments
  BY <1>6 DEF RestartPayments
<1>7. CASE UNCHANGED vars
  BY <1>7 DEF vars
<1> QED BY <1>r, <1>1, <1>2, <1>3, <1>4, <1>5, <1>6, <1>7 DEF Next, Settled

\* What a request read from a row it has locked is what the row says.
SeenInv ==
    \A r \in Requests : pc[r] \in {"locking", "insert", "inserted"} =>
        \A p \in Products : lock[p] = r => seen[r][p] = stock[p]

LEMMA SeenInit == Init => SeenInv
BY DEF Init, SeenInv

LEMMA SeenStep == TypeOK /\ StatusInv /\ LockInv /\ SeenInv /\ [Next]_vars => SeenInv'
<1> SUFFICES ASSUME TypeOK, StatusInv, LockInv, SeenInv, [Next]_vars PROVE SeenInv'
  OBVIOUS
<1> USE NoneAssumption DEF SeenInv, TypeOK, Go, Answer
<1>r. ASSUME NEW r \in Requests, Step(r) PROVE SeenInv'
  <2>1. CASE Arrive(r)
    BY <2>1 DEF Arrive, Reject
  <2>2. CASE Connect(r)
    BY <2>2 DEF Connect
  <2>3. CASE FindExisting(r)
    <3>1. \A p \in Products : lock[p] # r
      BY <2>3 DEF FindExisting, LockInv
    <3>2. pc' = [pc EXCEPT ![r] = "done"] \/ pc' = [pc EXCEPT ![r] = "locking"]
      BY <2>3 DEF FindExisting, Reject, Reuse
    <3> QED BY <2>3, <3>1, <3>2 DEF FindExisting
  <2>4. CASE BuildPlan(r)
    <3>1. CASE Go(r, "done") /\ EndTransaction(r)
      BY <2>4, <3>1 DEF BuildPlan, EndTransaction
    <3>2. CASE Go(r, "insert") /\ UNCHANGED txVars
      BY <2>4, <3>2 DEF BuildPlan
    <3> QED BY <2>4, <3>1, <3>2 DEF BuildPlan, Reject
  <2>5. CASE InsertOrder(r)
    BY <2>5 DEF InsertOrder, EndTransaction
  <2>6. CASE CommitOrder(r)
    <3>1. \A p \in Products : lock[p] # r => stock'[p] = stock[p]
      BY <2>6 DEF CommitOrder, CommittedStock, LockInv
    <3> QED BY <2>6, <3>1 DEF CommitOrder, EndTransaction
  <2>7. CASE FindDuplicate(r)
    BY <2>7 DEF FindDuplicate, Reject, Reuse
  <2>8. CASE CallAuthorize(r)
    BY <2>8 DEF CallAuthorize
  <2>9. CASE ReceiveReply(r)
    BY <2>9 DEF ReceiveReply
  <2>10. CASE RecordPayment(r)
    BY <2>10 DEF RecordPayment
  <2>11. CASE Publish(r)
    BY <2>11 DEF Publish
  <2>12. CASE FailOrder(r)
    BY <2>12 DEF FailOrder
  <2>13. CASE CommitFail(r)
    <3>1. \A p \in Products : lock[p] # r => stock'[p] = stock[p]
      <4> SUFFICES ASSUME NEW p \in Products, lock[p] # r PROVE stock'[p] = stock[p]
        OBVIOUS
      <4>1. p \notin Named(Items(r))
        BY <2>13 DEF CommitFail, LockInv
      <4>2. QuantityOf(Items(r), p) = 0
        BY <4>1, UnitsOfUnnamed
      <4> QED BY <2>13, <4>2 DEF CommitFail, ReleasedStock
    <3> QED BY <2>13, <3>1 DEF CommitFail, Reject, EndTransaction
  <2>14. CASE DeadlockAbort(r)
    BY <2>14 DEF DeadlockAbort, Reject, EndTransaction
  <2>15. ASSUME NEW p \in Products, LockRow(r, p) PROVE SeenInv'
    BY <2>15 DEF LockRow
  <2>16. ASSUME NEW p \in Products, AwaitRow(r, p) PROVE SeenInv'
    BY <2>16 DEF AwaitRow
  <2> QED BY <1>r, <2>1, <2>2, <2>3, <2>4, <2>5, <2>6, <2>7, <2>8, <2>9, <2>10,
             <2>11, <2>12, <2>13, <2>14, <2>15, <2>16 DEF Step
<1>1. ASSUME NEW r \in Requests, PaymentsHandle(r) PROVE SeenInv'
  BY <1>1 DEF PaymentsHandle
<1>2. ASSUME NEW r \in Requests, WorkerCompletes(r) PROVE SeenInv'
  BY <1>2 DEF WorkerCompletes
<1>3. ASSUME NEW r \in Requests, AuthorizeFails(r) PROVE SeenInv'
  BY <1>3 DEF AuthorizeFails
<1>4. ASSUME NEW r \in Requests, StatementFails(r) PROVE SeenInv'
  BY <1>4 DEF StatementFails, Reject, EndTransaction, Throwing
<1>5. CASE Crash
  BY <1>5 DEF Crash, InFlight, FirstConnection
<1>6. CASE RestartPayments
  BY <1>6 DEF RestartPayments
<1>7. CASE UNCHANGED vars
  BY <1>7 DEF vars
<1> QED BY <1>r, <1>1, <1>2, <1>3, <1>4, <1>5, <1>6, <1>7 DEF Next, Settled

\* A plan that passed buildOrderPlan is covered by the stock it read.
PlanInv ==
    \A r \in Requests : pc[r] \in {"insert", "inserted"} =>
        \A p \in Named(Items(r)) : seen[r][p] >= QuantityOf(Items(r), p)

LEMMA PlanInit == Init => PlanInv
BY DEF Init, PlanInv

LEMMA PlanStep == TypeOK /\ PlanInv /\ [Next]_vars => PlanInv'
<1> SUFFICES ASSUME TypeOK, PlanInv, [Next]_vars PROVE PlanInv'
  OBVIOUS
<1> USE DEF PlanInv, TypeOK, Go, Answer, Items
<1>r. ASSUME NEW r \in Requests, Step(r) PROVE PlanInv'
  <2>1. CASE Arrive(r)
    BY <2>1 DEF Arrive, Reject
  <2>2. CASE Connect(r)
    BY <2>2 DEF Connect
  <2>3. CASE FindExisting(r)
    BY <2>3 DEF FindExisting, Reject, Reuse
  <2>4. CASE BuildPlan(r)
    <3>1. CASE Go(r, "done") /\ EndTransaction(r)
      BY <2>4, <3>1 DEF BuildPlan, EndTransaction
    <3>2. CASE /\ Missing(r) = {} /\ Insufficient(r) = {}
               /\ Go(r, "insert") /\ UNCHANGED txVars
      <4>1. \A p \in Named(Items(r)) : seen[r][p] >= QuantityOf(Items(r), p)
        <5> SUFFICES ASSUME NEW p \in Named(Items(r))
                     PROVE  seen[r][p] >= QuantityOf(Items(r), p)
          OBVIOUS
        <5>1. p \in Products /\ seen[r][p] \in Int
          BY <3>2 DEF Missing
        <5>2. ~ (seen[r][p] < QuantityOf(Items(r), p))
          BY <3>2, <5>1 DEF Insufficient
        <5>3. QuantityOf(Items(r), p) \in Nat
          BY QuantityIsNat
        <5> HIDE DEF Items
        <5> QED BY <5>1, <5>2, <5>3
      <4> QED BY <2>4, <3>2, <4>1 DEF BuildPlan
    <3> QED BY <2>4, <3>1, <3>2 DEF BuildPlan, Reject
  <2>5. CASE InsertOrder(r)
    BY <2>5 DEF InsertOrder, EndTransaction
  <2>6. CASE CommitOrder(r)
    BY <2>6 DEF CommitOrder, EndTransaction
  <2>7. CASE FindDuplicate(r)
    <3>1. Go(r, "done")
      BY <2>7 DEF FindDuplicate, Reject, Reuse
    <3> QED BY <2>7, <3>1 DEF FindDuplicate
  <2>8. CASE CallAuthorize(r)
    BY <2>8 DEF CallAuthorize
  <2>9. CASE ReceiveReply(r)
    BY <2>9 DEF ReceiveReply
  <2>10. CASE RecordPayment(r)
    BY <2>10 DEF RecordPayment
  <2>11. CASE Publish(r)
    BY <2>11 DEF Publish
  <2>12. CASE FailOrder(r)
    BY <2>12 DEF FailOrder
  <2>13. CASE CommitFail(r)
    BY <2>13 DEF CommitFail, Reject, EndTransaction
  <2>14. CASE DeadlockAbort(r)
    BY <2>14 DEF DeadlockAbort, Reject, EndTransaction
  <2>15. ASSUME NEW p \in Products, LockRow(r, p) PROVE PlanInv'
    BY <2>15 DEF LockRow, Locking
  <2>16. ASSUME NEW p \in Products, AwaitRow(r, p) PROVE PlanInv'
    BY <2>16 DEF AwaitRow
  <2> QED BY <1>r, <2>1, <2>2, <2>3, <2>4, <2>5, <2>6, <2>7, <2>8, <2>9, <2>10,
             <2>11, <2>12, <2>13, <2>14, <2>15, <2>16 DEF Step
<1>1. ASSUME NEW r \in Requests, PaymentsHandle(r) PROVE PlanInv'
  BY <1>1 DEF PaymentsHandle
<1>2. ASSUME NEW r \in Requests, WorkerCompletes(r) PROVE PlanInv'
  BY <1>2 DEF WorkerCompletes
<1>3. ASSUME NEW r \in Requests, AuthorizeFails(r) PROVE PlanInv'
  BY <1>3 DEF AuthorizeFails
<1>4. ASSUME NEW r \in Requests, StatementFails(r) PROVE PlanInv'
  BY <1>4 DEF StatementFails, Reject, EndTransaction, Throwing
<1>5. CASE Crash
  BY <1>5 DEF Crash, InFlight, FirstConnection
<1>6. CASE RestartPayments
  BY <1>6 DEF RestartPayments
<1>7. CASE UNCHANGED vars
  BY <1>7 DEF vars
<1> QED BY <1>r, <1>1, <1>2, <1>3, <1>4, <1>5, <1>6, <1>7 DEF Next, Settled

-----------------------------------------------------------------------------
(* One order per user and key.                                             *)

\* The unique index: a row about to be committed has no rival, committed or
\* about to be.
KeyInv ==
    \A q, r \in Requests : SameKey(q, r) =>
        /\ ~ (pc[r] = "inserted" /\ Exists(q))
        /\ pc[r] = "inserted" /\ pc[q] = "inserted" => q = r
        /\ Exists(q) /\ Exists(r) => q = r

LEMMA KeyInit == Init => KeyInv
BY DEF Init, KeyInv, Exists

LEMMA KeyStep == TypeOK /\ StatusInv /\ KeyInv /\ [Next]_vars => KeyInv'
<1> SUFFICES ASSUME TypeOK, StatusInv, KeyInv, [Next]_vars PROVE KeyInv'
  OBVIOUS
<1> USE DEF KeyInv, TypeOK, Go, Answer, SameKey, Exists
<1>r. ASSUME NEW r \in Requests, Step(r) PROVE KeyInv'
  <2>1. CASE Arrive(r)
    <3>1. Go(r, "done") \/ Go(r, "connect")
      BY <2>1 DEF Arrive, Reject
    <3> QED BY <2>1, <3>1 DEF Arrive
  <2>2. CASE Connect(r)
    BY <2>2 DEF Connect
  <2>3. CASE FindExisting(r)
    <3>1. Go(r, "done") \/ Go(r, "locking")
      BY <2>3 DEF FindExisting, Reject, Reuse
    <3> QED BY <2>3, <3>1 DEF FindExisting
  <2>4. CASE BuildPlan(r)
    BY <2>4 DEF BuildPlan, Reject, EndTransaction
  <2>5. CASE InsertOrder(r)
    <3>1. status' = status /\ input' = input /\ pc[r] = "insert"
      BY <2>5 DEF InsertOrder
    <3>2. CASE Existing(r) = {} /\ Go(r, "inserted")
      <4>1. \A q \in Requests : SameKey(q, r) => ~ Exists(q)
        BY <3>2 DEF Existing
      <4>2. \A q \in Requests \ {r} : SameKey(q, r) => pc[q] # "inserted"
        BY <2>5 DEF InsertOrder, KeyContended
      <4> QED BY <3>1, <3>2, <4>1, <4>2
    <3>3. CASE Go(r, "duplicate")
      BY <3>1, <3>3
    <3> QED BY <2>5, <3>2, <3>3 DEF InsertOrder
  <2>6. CASE CommitOrder(r)
    BY <2>6 DEF CommitOrder, EndTransaction
  <2>7. CASE FindDuplicate(r)
    <3>1. Go(r, "done")
      BY <2>7 DEF FindDuplicate, Reject, Reuse
    <3> QED BY <2>7, <3>1 DEF FindDuplicate
  <2>8. CASE CallAuthorize(r)
    BY <2>8 DEF CallAuthorize
  <2>9. CASE ReceiveReply(r)
    BY <2>9 DEF ReceiveReply
  <2>10. CASE RecordPayment(r)
    BY <2>10 DEF RecordPayment
  <2>11. CASE Publish(r)
    BY <2>11 DEF Publish
  <2>12. CASE FailOrder(r)
    BY <2>12 DEF FailOrder
  <2>13. CASE CommitFail(r)
    BY <2>13 DEF CommitFail, Reject, StatusInv, Paying
  <2>14. CASE DeadlockAbort(r)
    BY <2>14 DEF DeadlockAbort, Reject, EndTransaction
  <2>15. ASSUME NEW p \in Products, LockRow(r, p) PROVE KeyInv'
    BY <2>15 DEF LockRow
  <2>16. ASSUME NEW p \in Products, AwaitRow(r, p) PROVE KeyInv'
    BY <2>16 DEF AwaitRow
  <2> QED BY <1>r, <2>1, <2>2, <2>3, <2>4, <2>5, <2>6, <2>7, <2>8, <2>9, <2>10,
             <2>11, <2>12, <2>13, <2>14, <2>15, <2>16 DEF Step
<1>1. ASSUME NEW r \in Requests, PaymentsHandle(r) PROVE KeyInv'
  BY <1>1 DEF PaymentsHandle
<1>2. ASSUME NEW r \in Requests, WorkerCompletes(r) PROVE KeyInv'
  BY <1>2 DEF WorkerCompletes, StatusInv
<1>3. ASSUME NEW r \in Requests, AuthorizeFails(r) PROVE KeyInv'
  BY <1>3 DEF AuthorizeFails
<1>4. ASSUME NEW r \in Requests, StatementFails(r) PROVE KeyInv'
  BY <1>4 DEF StatementFails, Reject, EndTransaction, Throwing
<1>5. CASE Crash
  BY <1>5 DEF Crash, InFlight, FirstConnection
<1>6. CASE RestartPayments
  BY <1>6 DEF RestartPayments
<1>7. CASE UNCHANGED vars
  BY <1>7 DEF vars
<1> QED BY <1>r, <1>1, <1>2, <1>3, <1>4, <1>5, <1>6, <1>7 DEF Next, Settled

-----------------------------------------------------------------------------
(* Conservation of the stock.                                              *)

\* The units of p in the orders of S.
HeldBy(in, S, p) == UNION {{q} \X Units(in[q].items, p) : q \in S}

Holders == {q \in Requests : Holds(q)}

\* One more order holds as many more units as it names.
LEMMA HeldByOneMore ==
    ASSUME input \in Inputs, NEW S, S \subseteq Requests,
           NEW r \in Requests, r \notin S, NEW p
    PROVE  /\ Cardinality(HeldBy(input, S, p)) \in Nat
           /\ Cardinality(HeldBy(input, S \cup {r}, p)) =
                  Cardinality(HeldBy(input, S, p)) + QuantityOf(Items(r), p)
<1> DEFINE F(q) == {q} \X Units(input[q].items, p)
<1> DEFINE f == [q \in S |-> F(q)]
<1> DEFINE H == UNION {F(q) : q \in S}
<1>1. \A q \in Requests : /\ IsFiniteSet(F(q))
                          /\ Cardinality(F(q)) = QuantityOf(Items(q), p)
  <2> TAKE q \in Requests
  <2>1. IsFiniteSet(Units(input[q].items, p))
    BY InputFacts, UnitsFinite DEF Items
  <2>2. IsFiniteSet({q}) /\ Cardinality({q}) = 1
    BY FS_Singleton
  <2>3. Cardinality(Units(input[q].items, p)) \in Nat
    BY <2>1, FS_CardinalityType
  <2>4. /\ IsFiniteSet({q} \X Units(input[q].items, p))
        /\ Cardinality({q} \X Units(input[q].items, p))
             = 1 * Cardinality(Units(input[q].items, p))
    BY <2>1, <2>2, FS_Product
  <2> QED BY <2>3, <2>4 DEF QuantityOf, Items
<1>2. IsFiniteSet(S)
  BY RequestsAssumption, FS_Subset
<1>3. IsFiniteSet({F(q) : q \in S})
  <2> HIDE DEF F
  <2>1. f \in Surjection(S, {F(q) : q \in S})
    BY DEF Surjection
  <2> QED BY <1>2, <2>1, FS_Surjection
<1>4. IsFiniteSet(H)
  <2> HIDE DEF F
  <2>1. \A T \in {F(q) : q \in S} : IsFiniteSet(T)
    BY <1>1
  <2> QED BY <1>3, <2>1, FS_UNION
<1>5. H \cap F(r) = {}
  OBVIOUS
<1>6. HeldBy(input, S, p) = H /\ HeldBy(input, S \cup {r}, p) = H \cup F(r)
  BY DEF HeldBy
<1>7. Cardinality(H) \in Nat
  BY <1>4, FS_CardinalityType
<1>8. /\ IsFiniteSet(F(r)) /\ Cardinality(F(r)) = QuantityOf(Items(r), p)
  BY <1>1
<1>9. Cardinality(H \cup F(r)) = Cardinality(H) + Cardinality(F(r)) - Cardinality(H \cap F(r))
  <2> HIDE DEF F, H
  <2> QED BY <1>4, <1>8, FS_Union
<1>10. Cardinality(H \cap F(r)) = 0
  BY <1>5, FS_EmptySet
<1>11. QuantityOf(Items(r), p) \in Nat
  BY QuantityIsNat
<1>12. Cardinality(H \cup F(r)) = Cardinality(H) + QuantityOf(Items(r), p)
  <2> HIDE DEF F, H
  <2> QED BY <1>7, <1>8, <1>9, <1>10, <1>11
<1> HIDE DEF F, H, f
<1> QED BY ONLY <1>6, <1>7, <1>12

LEMMA HeldUnitsAlt == \A p : HeldUnits(p) = HeldBy(input, Holders, p)
BY DEF HeldUnits, HeldBy, Holders, Items

\* No step but the commit of an order and the commit of its failure moves
\* stock or changes which orders hold units.
Conserving == UNCHANGED stock /\ input' = input /\ Holders' = Holders

LEMMA ConservingStep ==
    ASSUME TypeOK, StockConserved, Conserving
    PROVE  StockConserved'
<1>1. \A p \in Products : HeldUnits(p)' = HeldUnits(p)
  BY DEF Conserving, HeldUnits, Holders, Items
<1> QED BY <1>1 DEF Conserving, StockConserved

LEMMA StockInit == Init => StockConserved /\ NeverOversold
<1> SUFFICES ASSUME Init PROVE StockConserved /\ NeverOversold
  OBVIOUS
<1>1. \A p \in Products : HeldUnits(p) = {}
  BY DEF Init, HeldUnits, Holds
<1>2. Cardinality({}) = 0
  BY FS_EmptySet
<1>3. \A p \in Products : Cardinality(HeldUnits(p)) = 0
  BY <1>1, <1>2
<1>4. stock = InitStock
  BY DEF Init
<1> QED BY <1>3, <1>4, StockAssumption DEF StockConserved, NeverOversold

LEMMA StockStep ==
    /\ TypeOK /\ StatusInv /\ LockInv /\ SeenInv /\ PlanInv
    /\ StockConserved /\ NeverOversold /\ [Next]_vars
    => StockConserved' /\ NeverOversold'
<1> SUFFICES ASSUME TypeOK, StatusInv, LockInv, SeenInv, PlanInv,
                    StockConserved, NeverOversold, [Next]_vars
             PROVE  StockConserved' /\ NeverOversold'
  OBVIOUS
<1>c. Conserving => StockConserved' /\ NeverOversold'
  BY ConservingStep DEF Conserving, NeverOversold
<1>u. input' = input /\ stock' = stock /\ status' = status => Conserving
  BY DEF Conserving, Holders, Holds
<1>q. \A r \in Requests, p \in Products : QuantityOf(Items(r), p) \in Nat
  BY QuantityIsNat DEF TypeOK
<1>1. ASSUME NEW r \in Requests, CommitOrder(r)
      PROVE  StockConserved' /\ NeverOversold'
  <2>1. /\ pc[r] = "inserted" /\ status[r] = "none" /\ input' = input
        /\ stock' = CommittedStock(r) /\ status' = [status EXCEPT ![r] = "pending"]
    BY <1>1 DEF CommitOrder, StatusInv, Unordered
  <2>2. ASSUME NEW p \in Products
        PROVE  /\ stock'[p] = stock[p] - QuantityOf(Items(r), p)
               /\ stock'[p] >= 0
    <3>1. CASE p \in Named(Items(r))
      <4>1. seen[r][p] = stock[p] /\ seen[r][p] >= QuantityOf(Items(r), p)
        BY <2>1, <3>1 DEF LockInv, SeenInv, PlanInv
      <4>2. stock'[p] = seen[r][p] - QuantityOf(Items(r), p)
        BY <2>1, <3>1 DEF CommittedStock
      <4>3. stock[p] \in Int /\ QuantityOf(Items(r), p) \in Nat
        BY <1>q DEF TypeOK
      <4> QED BY <4>1, <4>2, <4>3
    <3>2. CASE p \notin Named(Items(r))
      <4>1. QuantityOf(Items(r), p) = 0
        BY <3>2, UnitsOfUnnamed
      <4>2. stock'[p] = stock[p]
        BY <2>1, <3>2 DEF CommittedStock
      <4> QED BY <4>1, <4>2 DEF TypeOK, NeverOversold
    <3> QED BY <3>1, <3>2
  <2>3. /\ Holders \subseteq Requests /\ r \notin Holders
        /\ Holders' = Holders \cup {r}
    BY <2>1 DEF Holders, Holds, TypeOK
  <2>4. ASSUME NEW p \in Products
        PROVE  stock'[p] + Cardinality(HeldUnits(p)') = InitStock[p]
    <3>1. HeldUnits(p)' = HeldBy(input, Holders \cup {r}, p)
      BY <2>1, <2>3 DEF HeldUnits, HeldBy, Holders, Items
    <3>2. HeldUnits(p) = HeldBy(input, Holders, p)
      BY HeldUnitsAlt
    <3>3. /\ Cardinality(HeldUnits(p)) \in Nat
          /\ Cardinality(HeldUnits(p)') =
                Cardinality(HeldUnits(p)) + QuantityOf(Items(r), p)
      <4>1. input \in Inputs
        BY DEF TypeOK
      <4>2. /\ Cardinality(HeldBy(input, Holders, p)) \in Nat
            /\ Cardinality(HeldBy(input, Holders \cup {r}, p)) =
                  Cardinality(HeldBy(input, Holders, p)) + QuantityOf(Items(r), p)
        BY <4>1, <2>3, HeldByOneMore
      <4> QED BY <4>2, <3>1, <3>2
    <3>4. stock[p] + Cardinality(HeldUnits(p)) = InitStock[p]
      BY DEF StockConserved
    <3>5. stock[p] \in Int /\ QuantityOf(Items(r), p) \in Nat
      BY <1>q DEF TypeOK
    <3>6. stock'[p] = stock[p] - QuantityOf(Items(r), p)
      BY <2>2
    <3> QED BY <3>3, <3>4, <3>5, <3>6
  <2> QED BY <2>2, <2>4 DEF StockConserved, NeverOversold
<1>2. ASSUME NEW r \in Requests, CommitFail(r)
      PROVE  StockConserved' /\ NeverOversold'
  <2>1. /\ pc[r] = "releasing" /\ status[r] = "pending" /\ input' = input
        /\ stock' = ReleasedStock(r) /\ status' = [status EXCEPT ![r] = "failed"]
    BY <1>2 DEF CommitFail, StatusInv, Paying
  <2> DEFINE Others == Holders \ {r}
  <2>2. /\ Others \subseteq Requests /\ r \notin Others
        /\ Holders = Others \cup {r} /\ Holders' = Others
    BY <2>1 DEF Holders, Holds, TypeOK
  <2> HIDE DEF Others
  <2>3. ASSUME NEW p \in Products
        PROVE  /\ stock'[p] + Cardinality(HeldUnits(p)') = InitStock[p]
               /\ stock'[p] >= 0
    <3>1. HeldUnits(p)' = HeldBy(input, Others, p)
      BY <2>1, <2>2 DEF HeldUnits, HeldBy, Holders, Items
    <3>2. HeldUnits(p) = HeldBy(input, Others \cup {r}, p)
      BY <2>2, HeldUnitsAlt
    <3>3. /\ Cardinality(HeldUnits(p)') \in Nat
          /\ Cardinality(HeldUnits(p)) =
                Cardinality(HeldUnits(p)') + QuantityOf(Items(r), p)
      <4>1. input \in Inputs
        BY DEF TypeOK
      <4>2. /\ Cardinality(HeldBy(input, Others, p)) \in Nat
            /\ Cardinality(HeldBy(input, Others \cup {r}, p)) =
                  Cardinality(HeldBy(input, Others, p)) + QuantityOf(Items(r), p)
        BY <4>1, <2>2, HeldByOneMore
      <4> QED BY <4>2, <3>1, <3>2
    <3>4. stock[p] + Cardinality(HeldUnits(p)) = InitStock[p]
      BY DEF StockConserved
    <3>5. stock[p] \in Int /\ stock[p] >= 0 /\ QuantityOf(Items(r), p) \in Nat
      BY <1>q DEF TypeOK, NeverOversold
    <3>6. stock'[p] = stock[p] + QuantityOf(Items(r), p)
      BY <2>1 DEF ReleasedStock
    <3> QED BY <3>3, <3>4, <3>5, <3>6
  <2> QED BY <2>3 DEF StockConserved, NeverOversold
<1>3. ASSUME NEW r \in Requests, Step(r), ~ CommitOrder(r), ~ CommitFail(r)
      PROVE  Conserving
  <2>1. CASE Arrive(r)
    BY <2>1, <1>u DEF Arrive
  <2>2. CASE Connect(r)
    BY <2>2, <1>u DEF Connect
  <2>3. CASE FindExisting(r)
    BY <2>3, <1>u DEF FindExisting
  <2>4. CASE BuildPlan(r)
    BY <2>4, <1>u DEF BuildPlan
  <2>5. CASE InsertOrder(r)
    BY <2>5, <1>u DEF InsertOrder
  <2>6. CASE FindDuplicate(r)
    BY <2>6, <1>u DEF FindDuplicate
  <2>7. CASE CallAuthorize(r)
    BY <2>7, <1>u DEF CallAuthorize
  <2>8. CASE ReceiveReply(r)
    BY <2>8, <1>u DEF ReceiveReply
  <2>9. CASE RecordPayment(r)
    BY <2>9, <1>u DEF RecordPayment
  <2>10. CASE Publish(r)
    BY <2>10, <1>u DEF Publish
  <2>11. CASE FailOrder(r)
    BY <2>11, <1>u DEF FailOrder
  <2>12. CASE DeadlockAbort(r)
    BY <2>12, <1>u DEF DeadlockAbort
  <2>13. ASSUME NEW p \in Products, LockRow(r, p) PROVE Conserving
    BY <2>13, <1>u DEF LockRow
  <2>14. ASSUME NEW p \in Products, AwaitRow(r, p) PROVE Conserving
    BY <2>14, <1>u DEF AwaitRow
  <2> QED BY <1>3, <2>1, <2>2, <2>3, <2>4, <2>5, <2>6, <2>7, <2>8, <2>9, <2>10,
             <2>11, <2>12, <2>13, <2>14 DEF Step
<1>4. ASSUME NEW r \in Requests, WorkerCompletes(r) PROVE Conserving
  BY <1>4 DEF WorkerCompletes, Conserving, Holders, Holds, StatusInv, TypeOK
<1>5. ASSUME NEW r \in Requests,
             PaymentsHandle(r) \/ AuthorizeFails(r) \/ StatementFails(r)
      PROVE  Conserving
  BY <1>5, <1>u DEF PaymentsHandle, AuthorizeFails, StatementFails
<1>6. CASE Crash \/ RestartPayments \/ UNCHANGED vars
  BY <1>6, <1>c, <1>u DEF Crash, RestartPayments, vars
<1> QED BY <1>c, <1>1, <1>2, <1>3, <1>4, <1>5, <1>6 DEF Next, Settled

-----------------------------------------------------------------------------
(* What a step does to an order's row.                                     *)

Moves(r) ==
    /\ status'[r] # status[r] =>
          <<status[r], status'[r]>> \in {<<"none", "pending">>,
                                        <<"pending", "processed">>,
                                        <<"pending", "failed">>}
    /\ payment[r] # None => payment'[r] = payment[r]

\* The status moves with a commit of createOrder, of the compensation or of
\* the worker, the payment with the update that records it.
LEMMA HistoryStep ==
    TypeOK /\ StatusInv /\ [Next]_vars => \A r \in Requests : Moves(r)
<1> SUFFICES ASSUME TypeOK, StatusInv, [Next]_vars, NEW r \in Requests
             PROVE  Moves(r)
  OBVIOUS
<1> USE DEF Moves, TypeOK, StatusInv, Unordered, Paying
<1>1. ASSUME NEW q \in Requests, CommitOrder(q) PROVE Moves(r)
  BY <1>1 DEF CommitOrder
<1>2. ASSUME NEW q \in Requests, CommitFail(q) PROVE Moves(r)
  BY <1>2 DEF CommitFail
<1>3. ASSUME NEW q \in Requests, WorkerCompletes(q) PROVE Moves(r)
  BY <1>3 DEF WorkerCompletes
<1>4. ASSUME NEW q \in Requests, RecordPayment(q) PROVE Moves(r)
  BY <1>4 DEF RecordPayment
<1>5. CASE UNCHANGED <<status, payment>>
  BY <1>5
<1>6. ASSUME NEW q \in Requests, Step(q) PROVE Moves(r)
  <2>1. \/ CommitOrder(q) \/ CommitFail(q) \/ RecordPayment(q)
        \/ UNCHANGED <<status, payment>>
    BY <1>6 DEF Step, Arrive, Connect, FindExisting, BuildPlan, InsertOrder,
                FindDuplicate, CallAuthorize, ReceiveReply, Publish, FailOrder,
                DeadlockAbort, LockRow, AwaitRow, dbVars
  <2> QED BY <1>1, <1>2, <1>4, <1>5, <2>1
<1>7. ASSUME NEW q \in Requests,
             PaymentsHandle(q) \/ AuthorizeFails(q) \/ StatementFails(q)
      PROVE  UNCHANGED <<status, payment>>
  BY <1>7 DEF PaymentsHandle, AuthorizeFails, StatementFails, dbVars
<1>8. Crash \/ RestartPayments \/ UNCHANGED vars => UNCHANGED <<status, payment>>
  BY DEF Crash, RestartPayments, vars, dbVars
<1> QED BY <1>3, <1>5, <1>6, <1>7, <1>8 DEF Next, Settled

-----------------------------------------------------------------------------
(* What is left of a request elsewhere: its answer, its call, its payment. *)

Rejections == {"badRequest", "notFound", "conflict"}

\* Payments are asked for under a key and for an order that exists, and every
\* payment id that is passed on was stored under the key of its order.
TraceInv ==
    /\ \A r \in Requests : pc[r] \in InFlight => input[r].key \in Keys
    /\ \A r \in wire : Exists(r) /\ input[r].key \in Keys
    /\ \A r \in byId : Exists(r)
    /\ \A k \in Keys : byIdempotencyKey[k] # None => input[byIdempotencyKey[k]].key = k
    /\ \A r \in Requests :
          /\ \A q \in Requests \ {r} : q \in {reply[r], payment[r]} =>
                 Exists(q) /\ input[q].key = input[r].key
          /\ payment[r] # None => Exists(r)
          /\ answer[r].code \in Rejections => ~ Exists(r)
          /\ answer[r].code = "reused" =>
                 /\ answer[r].order \in Existing(r) \ {r}
                 /\ answer[r].payment \in {None, payment[answer[r].order]}

LEMMA TraceInit == Init => TraceInv
BY NoneAssumption DEF Init, TraceInv, PaymentsInit, NoAnswer, InFlight, FirstConnection, Rejections

\* No step takes an order or a payment away, or changes what was sent.
LEMMA NothingTakenAway ==
    ASSUME TypeOK, StatusInv, [Next]_vars
    PROVE  /\ input' = input
           /\ \A q \in Requests : Exists(q) => Exists(q)'
           /\ \A q \in Requests : payment[q] # None => payment'[q] = payment[q]
<1>1. input' = input
  BY DEF Next, Step, Arrive, Connect, FindExisting, BuildPlan, InsertOrder, CommitOrder,
     FindDuplicate, CallAuthorize, ReceiveReply, RecordPayment, Publish, FailOrder,
     CommitFail, DeadlockAbort, LockRow, AwaitRow, PaymentsHandle, WorkerCompletes,
     AuthorizeFails, StatementFails, Crash, RestartPayments, Settled, vars
<1>2. \A q \in Requests : Moves(q)
  BY HistoryStep
<1> QED BY <1>1, <1>2 DEF Moves, Exists

\* The answer of a request that finds the order of its key.
LEMMA ReuseIsOwn ==
    ASSUME TypeOK, StatusInv, NEW r \in Requests, pc[r] \in Unordered,
           NEW q \in Existing(r), Reuse(r, q), UNCHANGED <<input, status, payment>>
    PROVE  /\ answer'[r].code = "reused"
           /\ answer'[r].order \in (Existing(r) \ {r})'
           /\ answer'[r].payment = payment'[answer'[r].order]
<1>1. q # r
  BY DEF Existing, Exists, StatusInv
<1>2. answer'[r] = [code |-> "reused", order |-> q, payment |-> payment[q]]
  BY DEF Reuse, Answer, TypeOK
<1>3. q \in (Existing(r) \ {r})'
  BY <1>1 DEF Existing, Exists, SameKey
<1> QED BY <1>2, <1>3

\* An answer is written once, and says "reused" or rejects only for a request
\* without an order.
LEMMA AnswerStep ==
    ASSUME TypeOK, StatusInv, [Next]_vars, NEW r \in Requests, answer'[r] # answer[r]
    PROVE  /\ answer'[r].code \in Rejections => status'[r] = "none"
           /\ answer'[r].code = "reused" =>
                 /\ answer'[r].order \in (Existing(r) \ {r})'
                 /\ answer'[r].payment = payment'[answer'[r].order]
           /\ answer'[r].code = "created" => Publish(r)
<1> USE DEF Reject, Rejections, TypeOK
<1>a. \A q \in Requests : pc[q] \in Unordered => status[q] = "none"
  BY DEF StatusInv
<1>1. CASE Arrive(r)
  BY <1>1, <1>a DEF Arrive, Answer, Unordered
<1>2. CASE FindExisting(r)
  <2>1. CASE \E q \in Existing(r) : Reuse(r, q)
    BY <1>2, <2>1, ReuseIsOwn DEF FindExisting, Unordered, Rejections, Reuse, Answer
  <2>2. CASE Reject(r, "notFound")
    BY <1>2, <2>2, <1>a DEF FindExisting, Answer, Unordered
  <2> QED BY <1>2, <2>1, <2>2 DEF FindExisting
<1>3. CASE BuildPlan(r)
  BY <1>3, <1>a DEF BuildPlan, Answer, Unordered
<1>4. CASE FindDuplicate(r)
  <2>1. CASE \E q \in Existing(r) : Reuse(r, q)
    BY <1>4, <2>1, ReuseIsOwn DEF FindDuplicate, Unordered, Rejections, Reuse, Answer
  <2>2. CASE Reject(r, "conflict")
    BY <1>4, <2>2, <1>a DEF FindDuplicate, Answer, Unordered
  <2> QED BY <1>4, <2>1, <2>2 DEF FindDuplicate
<1>5. CASE Publish(r)
  BY <1>5 DEF Publish, Answer
<1>6. CASE CommitFail(r)
  BY <1>6 DEF CommitFail, Answer, RpcAnswer
<1>7. CASE DeadlockAbort(r) \/ StatementFails(r)
  BY <1>7 DEF DeadlockAbort, StatementFails, Answer
<1>8. \/ Arrive(r) \/ FindExisting(r) \/ BuildPlan(r) \/ FindDuplicate(r) \/ Publish(r)
      \/ CommitFail(r) \/ DeadlockAbort(r) \/ StatementFails(r)
  <2>1. ASSUME NEW q \in Requests, Step(q)
        PROVE  \/ Arrive(r) \/ FindExisting(r) \/ BuildPlan(r) \/ FindDuplicate(r)
               \/ Publish(r) \/ CommitFail(r) \/ DeadlockAbort(r)
    BY <2>1 DEF Step, Arrive, Connect, FindExisting, BuildPlan, InsertOrder, CommitOrder,
       FindDuplicate, CallAuthorize, ReceiveReply, RecordPayment, Publish, FailOrder,
       CommitFail, DeadlockAbort, LockRow, AwaitRow, Answer, Reuse
  <2>2. ASSUME NEW q \in Requests, StatementFails(q) PROVE StatementFails(r)
    BY <2>2 DEF StatementFails, Answer
  <2> QED BY <2>1, <2>2 DEF Next, PaymentsHandle, WorkerCompletes, AuthorizeFails, Crash,
             RestartPayments, Settled, vars
<1> QED BY <1>1, <1>2, <1>3, <1>4, <1>5, <1>6, <1>7, <1>8

\* Orders come into being one at a time, by the commit.
LEMMA BirthStep ==
    ASSUME TypeOK, StatusInv, [Next]_vars, NEW r \in Requests, ~ Exists(r), Exists(r)'
    PROVE  CommitOrder(r)
<1>1. status[r] = "none" /\ status'[r] # "none"
  BY DEF Exists
<1>2. ASSUME NEW q \in Requests, Step(q) PROVE CommitOrder(r)
  BY <1>1, <1>2 DEF Step, Arrive, Connect, FindExisting, BuildPlan, InsertOrder, CommitOrder,
     FindDuplicate, CallAuthorize, ReceiveReply, RecordPayment, Publish, FailOrder,
     CommitFail, DeadlockAbort, LockRow, AwaitRow, TypeOK, StatusInv, Paying
<1>3. ASSUME NEW q \in Requests, WorkerCompletes(q) PROVE FALSE
  BY <1>1, <1>3 DEF WorkerCompletes, StatusInv, TypeOK
<1> QED BY <1>1, <1>2, <1>3 DEF Next, PaymentsHandle, AuthorizeFails, StatementFails, Crash,
           RestartPayments, Settled, vars

LEMMA TraceStep == TypeOK /\ StatusInv /\ TraceInv /\ [Next]_vars => TraceInv'
<1> SUFFICES ASSUME TypeOK, StatusInv, TraceInv, [Next]_vars PROVE TraceInv'
  OBVIOUS
<1>k. /\ input' = input
      /\ \A q \in Requests : Exists(q) => Exists(q)'
      /\ \A q \in Requests : payment[q] # None => payment'[q] = payment[q]
  BY NothingTakenAway
<1>t. wire \subseteq Requests /\ byId \subseteq Requests
  BY DEF TypeOK, PaymentsTypeOK
<1>1. \A r \in Requests : pc'[r] \in InFlight => input'[r].key \in Keys
  <2>1. ASSUME NEW r \in Requests, pc'[r] \in InFlight, pc[r] \notin InFlight
        PROVE  input[r].key \in Keys
    <3>1. Arrive(r)
      BY <2>1 DEF Next, Step, Arrive, Connect, FindExisting, BuildPlan, InsertOrder, CommitOrder,
         FindDuplicate, CallAuthorize, ReceiveReply, RecordPayment, Publish, FailOrder,
         CommitFail, DeadlockAbort, LockRow, AwaitRow, PaymentsHandle, WorkerCompletes,
         AuthorizeFails, StatementFails, Crash, RestartPayments, Settled, vars, Reject, Reuse,
         Answer, Go, InFlight, FirstConnection, TypeOK
    <3>2. input[r].key # NoKey
      BY <2>1, <3>1 DEF Arrive, Reject, Answer, Go, InFlight, FirstConnection, TypeOK
    <3> QED BY <3>2, InputsAssumption DEF TypeOK
  <2> QED BY <2>1, <1>k DEF TraceInv
<1>2. \A r \in wire' : Exists(r)' /\ input'[r].key \in Keys
  <2>1. ASSUME NEW r \in wire', r \notin wire PROVE CallAuthorize(r)
    BY <2>1 DEF Next, Step, Arrive, Connect, FindExisting, BuildPlan, InsertOrder, CommitOrder,
       FindDuplicate, CallAuthorize, ReceiveReply, RecordPayment, Publish, FailOrder,
       CommitFail, DeadlockAbort, LockRow, AwaitRow, PaymentsHandle, WorkerCompletes,
       AuthorizeFails, StatementFails, Crash, RestartPayments, Settled, vars
  <2>2. ASSUME NEW r \in Requests, CallAuthorize(r) PROVE Exists(r) /\ input[r].key \in Keys
    BY <2>2 DEF CallAuthorize, StatusInv, Paying, Exists, TraceInv, InFlight, FirstConnection
  <2>3. wire' \subseteq Requests
    BY TypeStep DEF TypeOK
  <2> QED BY <2>1, <2>2, <2>3, <1>k, <1>t DEF TraceInv
<1>h. ASSUME NEW r \in Requests, PaymentsHandle(r)
      PROVE  LET id == AuthorizedPayment(r, input[r].key)
             IN  id \in Requests /\ Exists(id) /\ input[id].key = input[r].key
  <2>1. Exists(r) /\ input[r].key \in Keys
    BY <1>h DEF PaymentsHandle, TraceInv
  <2>2. byIdempotencyKey[input[r].key] \in byId =>
            /\ byIdempotencyKey[input[r].key] \in Requests
            /\ Exists(byIdempotencyKey[input[r].key])
            /\ input[byIdempotencyKey[input[r].key]].key = input[r].key
    BY <2>1, <1>t, NoneAssumption DEF TraceInv
  <2> QED BY <2>1, <2>2 DEF AuthorizedPayment
<1>p. \/ UNCHANGED <<byId, byIdempotencyKey, reply>>
      \/ \E r \in Requests : PaymentsHandle(r)
      \/ PaymentsRestart /\ UNCHANGED reply
  BY DEF Next, Step, Arrive, Connect, FindExisting, BuildPlan, InsertOrder, CommitOrder,
     FindDuplicate, CallAuthorize, ReceiveReply, RecordPayment, Publish, FailOrder,
     CommitFail, DeadlockAbort, LockRow, AwaitRow, PaymentsHandle, WorkerCompletes,
     AuthorizeFails, StatementFails, Crash, RestartPayments, Settled, vars
<1>3. \A r \in byId' : Exists(r)'
  BY <1>k, <1>t, <1>h, <1>p DEF TraceInv, PaymentsHandle, Authorize, PaymentsRestart
<1>4. \A k \in Keys : byIdempotencyKey'[k] # None => input'[byIdempotencyKey'[k]].key = k
  <2>1. ASSUME NEW r \in Requests, PaymentsHandle(r), NEW k \in Keys,
               byIdempotencyKey'[k] # None
        PROVE  input[byIdempotencyKey'[k]].key = k
    <3>1. byIdempotencyKey'[k] = IF k = input[r].key THEN AuthorizedPayment(r, input[r].key)
                                 ELSE byIdempotencyKey[k]
      BY <2>1 DEF PaymentsHandle, Authorize, TypeOK, PaymentsTypeOK
    <3> QED BY <2>1, <3>1, <1>h DEF TraceInv
  <2>2. PaymentsRestart => \A k \in Keys : byIdempotencyKey'[k] = None
    BY DEF PaymentsRestart
  <2> QED BY <2>1, <2>2, <1>k, <1>p DEF TraceInv
<1>5. ASSUME NEW r \in Requests, NEW q \in Requests \ {r}, q = reply'[r]
      PROVE  Exists(q)' /\ input'[q].key = input'[r].key
  BY <1>5, <1>k, <1>h, <1>p DEF TraceInv, PaymentsHandle, TypeOK
<1>m. \/ UNCHANGED payment
      \/ \E r \in Requests : RecordPayment(r)
  BY DEF Next, Step, Arrive, Connect, FindExisting, BuildPlan, InsertOrder, CommitOrder,
     FindDuplicate, CallAuthorize, ReceiveReply, RecordPayment, Publish, FailOrder,
     CommitFail, DeadlockAbort, LockRow, AwaitRow, PaymentsHandle, WorkerCompletes,
     AuthorizeFails, StatementFails, Crash, RestartPayments, Settled, vars
<1>6. ASSUME NEW r \in Requests, NEW q \in Requests \ {r}, q = payment'[r]
      PROVE  Exists(q)' /\ input'[q].key = input'[r].key
  BY <1>6, <1>k, <1>m DEF TraceInv, RecordPayment, TypeOK
<1>7. ASSUME NEW r \in Requests, payment'[r] # None PROVE Exists(r)'
  BY <1>7, <1>k, <1>m DEF TraceInv, RecordPayment, TypeOK, StatusInv, Paying, Exists
<1>8. ASSUME NEW r \in Requests, answer'[r].code \in Rejections PROVE ~ Exists(r)'
  <2>1. CASE answer'[r] # answer[r]
    BY <1>8, <2>1, AnswerStep DEF Exists
  <2>2. CASE answer'[r] = answer[r]
    <3>1. ~ Exists(r) /\ pc[r] = "done"
      BY <1>8, <2>2 DEF TraceInv, StatusInv, Rejections
    <3> QED BY <3>1, BirthStep DEF CommitOrder
  <2> QED BY <2>1, <2>2
<1>9. ASSUME NEW r \in Requests, answer'[r].code = "reused"
      PROVE  /\ answer'[r].order \in (Existing(r) \ {r})'
             /\ answer'[r].payment \in {None, payment'[answer'[r].order]}
  <2>1. CASE answer'[r] # answer[r]
    BY <1>9, <2>1, AnswerStep
  <2>2. CASE answer'[r] = answer[r]
    <3>1. /\ answer[r].order \in Existing(r) \ {r}
          /\ answer[r].payment \in {None, payment[answer[r].order]}
      BY <1>9, <2>2 DEF TraceInv
    <3> QED BY <2>2, <3>1, <1>k DEF Existing, SameKey
  <2> QED BY <2>1, <2>2
<1> QED BY <1>1, <1>2, <1>3, <1>4, <1>5, <1>6, <1>7, <1>8, <1>9 DEF TraceInv

-----------------------------------------------------------------------------
(* What a request waits for.                                               *)

\* A call to the payments service is under way or answered, and a request is
\* blocked on a row that its statement still has to lock.
WaitInv ==
    \A r \in Requests :
        /\ pc[r] = "awaiting" => r \in wire \/ reply[r] # None
        /\ awaited[r] # None => pc[r] \in Locking /\ awaited[r] \in todo[r]

LEMMA WaitInit == Init => WaitInv
BY DEF Init, WaitInv

LEMMA WaitStep == TypeOK /\ WaitInv /\ [Next]_vars => WaitInv'
<1> SUFFICES ASSUME TypeOK, WaitInv, [Next]_vars PROVE WaitInv'
  OBVIOUS
<1> USE NoneAssumption, ProductsAssumption DEF WaitInv, TypeOK, Go, Answer, Locking
<1>r. ASSUME NEW r \in Requests, Step(r) PROVE WaitInv'
  <2>1. CASE Arrive(r)
    BY <2>1 DEF Arrive, Reject
  <2>2. CASE Connect(r)
    BY <2>2 DEF Connect
  <2>3. CASE FindExisting(r)
    <3>1. awaited[r] = None
      BY <2>3 DEF FindExisting
    <3> QED BY <2>3, <3>1 DEF FindExisting, Reject, Reuse
  <2>4. CASE BuildPlan(r)
    <3>1. CASE Go(r, "done") /\ EndTransaction(r)
      BY <2>4, <3>1 DEF BuildPlan, EndTransaction
    <3>2. CASE Go(r, "insert") /\ UNCHANGED txVars
      BY <2>4, <3>2 DEF BuildPlan
    <3> QED BY <2>4, <3>1, <3>2 DEF BuildPlan, Reject
  <2>5. CASE InsertOrder(r)
    BY <2>5 DEF InsertOrder, EndTransaction
  <2>6. CASE CommitOrder(r)
    BY <2>6 DEF CommitOrder, EndTransaction
  <2>7. CASE FindDuplicate(r)
    BY <2>7 DEF FindDuplicate, Reject, Reuse
  <2>8. CASE CallAuthorize(r)
    BY <2>8 DEF CallAuthorize
  <2>9. CASE ReceiveReply(r)
    BY <2>9 DEF ReceiveReply
  <2>10. CASE RecordPayment(r)
    BY <2>10 DEF RecordPayment
  <2>11. CASE Publish(r)
    BY <2>11 DEF Publish
  <2>12. CASE FailOrder(r)
    BY <2>12 DEF FailOrder
  <2>13. CASE CommitFail(r)
    BY <2>13 DEF CommitFail, Reject, EndTransaction
  <2>14. CASE DeadlockAbort(r)
    BY <2>14 DEF DeadlockAbort, Reject, EndTransaction
  <2>15. ASSUME NEW p \in Products, LockRow(r, p) PROVE WaitInv'
    BY <2>15 DEF LockRow
  <2>16. ASSUME NEW p \in Products, AwaitRow(r, p) PROVE WaitInv'
    BY <2>16 DEF AwaitRow
  <2> QED BY <1>r, <2>1, <2>2, <2>3, <2>4, <2>5, <2>6, <2>7, <2>8, <2>9, <2>10,
             <2>11, <2>12, <2>13, <2>14, <2>15, <2>16 DEF Step
<1>1. ASSUME NEW r \in Requests, PaymentsHandle(r) PROVE WaitInv'
  <2>1. AuthorizedPayment(r, input[r].key) # None
    BY DEF AuthorizedPayment, PaymentsTypeOK
  <2> QED BY <1>1, <2>1 DEF PaymentsHandle
<1>2. ASSUME NEW r \in Requests, WorkerCompletes(r) PROVE WaitInv'
  BY <1>2 DEF WorkerCompletes
<1>3. ASSUME NEW r \in Requests, AuthorizeFails(r) PROVE WaitInv'
  BY <1>3 DEF AuthorizeFails
<1>4. ASSUME NEW r \in Requests, StatementFails(r) PROVE WaitInv'
  BY <1>4 DEF StatementFails, Reject, EndTransaction, Throwing
<1>5. CASE Crash
  BY <1>5 DEF Crash, InFlight, FirstConnection
<1>6. CASE RestartPayments
  BY <1>6 DEF RestartPayments
<1>7. CASE UNCHANGED vars
  BY <1>7 DEF vars
<1> QED BY <1>r, <1>1, <1>2, <1>3, <1>4, <1>5, <1>6, <1>7 DEF Next, Settled

\* A function of a finite set into itself permutes some part of the set: the
\* smallest part it does not lead out of.
LEMMA SomePartIsPermuted ==
    ASSUME NEW B, IsFiniteSet(B), B # {}, NEW f \in [B -> B]
    PROVE  \E S \in SUBSET B : /\ S # {}
                               /\ \A x \in S : f[x] \in S
                               /\ \A y \in S : \E x \in S : f[x] = y
<1> DEFINE Closed == {S \in SUBSET B : S # {} /\ \A x \in S : f[x] \in S}
<1>1. B \in Closed
  OBVIOUS
<1>2. Closed \subseteq FiniteSubsetsOf(B)
  BY FS_FiniteSubsetsOfFinite
<1>3. PICK S \in Closed : \A T \in Closed : <<T, S>> \notin StrictSubsetOrdering(B)
  <2> HIDE DEF Closed
  <2> QED BY <1>1, <1>2, FS_StrictSubsetOrderingWellFounded, WFMin
<1>4. \A T \in Closed : T \subseteq S => T = S
  BY <1>3 DEF StrictSubsetOrdering
<1> DEFINE T == {f[x] : x \in S}
<1>5. T \in Closed /\ T \subseteq S
  OBVIOUS
<1>6. T = S
  BY <1>4, <1>5
<1> QED BY <1>6

\* A request that the locks of others keep from going on, when nobody goes
\* on, waits for one that is kept so too.
LEMMA BlockedByBlocked ==
    ASSUME TypeOK, LockInv, WaitInv,
           \A q \in Requests : ~ CanGoOn(q),
           NEW r \in Requests, pc[r] \in Locking
    PROVE  /\ awaited[r] \in Products
           /\ lock[awaited[r]] \in Requests
           /\ pc[lock[awaited[r]]] \in Locking
<1>1. \A q \in Requests : pc[q] \notin {"insert", "inserted"}
  <2>1. \A q \in Requests : pc[q] # "inserted"
    BY DEF CanGoOn
  <2> QED BY <2>1 DEF CanGoOn, KeyContended
<1>2. awaited[r] # None /\ ~ RowFree(awaited[r])
  BY DEF CanGoOn
<1>3. awaited[r] \in Products /\ lock[awaited[r]] \in Requests
  BY <1>2 DEF TypeOK
<1>4. pc[lock[awaited[r]]] \in {"locking", "insert", "inserted", "releasing"}
  BY <1>3 DEF LockInv
<1> QED BY <1>1, <1>3, <1>4 DEF Locking

\* So they wait in a circle, which PostgreSQL breaks.
LEMMA LocksNeverJam ==
    ASSUME TypeOK, LockInv, WaitInv, NEW r \in Requests, pc[r] \in Locking
    PROVE  \E q \in Requests : CanGoOn(q) /\ pc[q] \notin Finished
<1>f. \A q \in Requests : CanGoOn(q) => pc[q] \notin Finished
  BY DEF CanGoOn, NeedsConnection, Locking, Finished
<1> SUFFICES ASSUME \A q \in Requests : ~ CanGoOn(q) PROVE FALSE
  BY <1>f
<1> DEFINE B == {q \in Requests : pc[q] \in Locking}
           blocker == [q \in B |-> lock[awaited[q]]]
<1>1. IsFiniteSet(B) /\ B # {}
  BY RequestsAssumption, FS_Subset
<1>2. blocker \in [B -> B]
  BY BlockedByBlocked
<1>3. PICK S \in SUBSET B : /\ S # {}
                            /\ \A q \in S : blocker[q] \in S
                            /\ \A q \in S : \E w \in S : blocker[w] = q
  <2> HIDE DEF B, blocker
  <2> QED BY <1>1, <1>2, SomePartIsPermuted
<1>4. PICK q \in S : TRUE
  BY <1>3
<1>5. \A w \in S : awaited[w] # None /\ blocker[w] = lock[awaited[w]]
  BY BlockedByBlocked, ProductsAssumption
<1>6. OnWaitCycle(q)
  <2>1. S \in SUBSET Requests
    OBVIOUS
  <2> HIDE DEF blocker
  <2> QED BY <1>3, <1>4, <1>5, <2>1 DEF OnWaitCycle
<1> QED BY <1>4, <1>6 DEF CanGoOn

LEMMA NoJamButThePool == TypeOK /\ LockInv /\ WaitInv => OnlyThePoolCanJam
<1> SUFFICES ASSUME TypeOK, LockInv, WaitInv,
                    NEW r \in Requests, pc[r] \notin Finished,
                    ConnectionFree \/ ~ NeedsConnection(r)
             PROVE  \E q \in Requests : CanGoOn(q) /\ pc[q] \notin Finished
  BY DEF OnlyThePoolCanJam
<1>1. CASE CanGoOn(r)
  BY <1>1
<1>2. CASE pc[r] \in Locking
  BY <1>2, LocksNeverJam
<1>3. CASE pc[r] = "insert" /\ KeyContended(r)
  BY <1>3 DEF KeyContended, CanGoOn, Finished
<1>4. CASE pc[r] = "awaiting"
  BY <1>4 DEF CanGoOn, WaitInv
<1> QED BY <1>1, <1>2, <1>3, <1>4
        DEF CanGoOn, NeedsConnection, TypeOK, Places, InFlight, FirstConnection, Finished,
            Locking

\* With a connection more than there are requests the pool does not jam
\* either: a request that needs a second one holds one.
LEMMA SpareConnection ==
    ASSUME TypeOK, PoolSize > Cardinality(Requests),
           \A r \in Requests : pc[r] \in Finished \/ NeedsConnection(r)
    PROVE  ConnectionFree
<1>1. {r \in Requests : pc[r] \in SecondConnection} = {}
  BY DEF SecondConnection, Finished, NeedsConnection
<1>2. Cardinality({r \in Requests : pc[r] \in SecondConnection}) = 0
  BY <1>1, FS_EmptySet
<1> DEFINE First == {r \in Requests : pc[r] \in FirstConnection}
<1>3. Cardinality(First) \in Nat /\ Cardinality(First) <= Cardinality(Requests)
  <2>1. First \in SUBSET Requests
    OBVIOUS
  <2> HIDE DEF First
  <2> QED BY <2>1, RequestsAssumption, FS_Subset, FS_CardinalityType
<1>4. Cardinality(Requests) \in Nat
  BY RequestsAssumption, FS_CardinalityType
<1>5. InUse = Cardinality(First)
  BY <1>2, <1>3 DEF InUse
<1> HIDE DEF First
<1> QED BY <1>3, <1>4, <1>5, PoolAssumption DEF ConnectionFree

-----------------------------------------------------------------------------
(* What becomes of a pending order.                                        *)

LEMMA PendingInit == Init => PendingIsAccountedFor
BY DEF Init, PendingIsAccountedFor, NoAnswer

LEMMA PendingStep ==
    TypeOK /\ StatusInv /\ PendingIsAccountedFor /\ [Next]_vars => PendingIsAccountedFor'
<1> SUFFICES ASSUME TypeOK, StatusInv, PendingIsAccountedFor, [Next]_vars
             PROVE  PendingIsAccountedFor'
  OBVIOUS
<1> USE DEF PendingIsAccountedFor, StatusInv, Unordered, Paying, TypeOK, Go, Answer, Finished
<1>o. ASSUME NEW r \in Requests, status[r] = "none", status' = status,
             payment' = payment, published' = published,
             \A q \in Requests \ {r} : pc'[q] = pc[q] /\ answer'[q] = answer[q]
      PROVE  PendingIsAccountedFor'
  BY <1>o
<1>r. ASSUME NEW r \in Requests, Step(r) PROVE PendingIsAccountedFor'
  <2>1. CASE Arrive(r)
    BY <2>1 DEF Arrive, Reject
  <2>2. CASE Connect(r)
    BY <2>2 DEF Connect
  <2>3. CASE FindExisting(r)
    BY <1>o, <2>3 DEF FindExisting, Reject, Reuse
  <2>4. CASE BuildPlan(r)
    BY <1>o, <2>4 DEF BuildPlan, Reject
  <2>5. CASE InsertOrder(r)
    BY <2>5 DEF InsertOrder
  <2>6. CASE CommitOrder(r)
    BY <2>6 DEF CommitOrder
  <2>7. CASE FindDuplicate(r)
    BY <1>o, <2>7 DEF FindDuplicate, Reject, Reuse
  <2>8. CASE CallAuthorize(r)
    BY <2>8 DEF CallAuthorize
  <2>9. CASE ReceiveReply(r)
    BY <2>9 DEF ReceiveReply
  <2>10. CASE RecordPayment(r)
    BY <2>10 DEF RecordPayment
  <2>11. CASE Publish(r)
    BY <2>11 DEF Publish
  <2>12. CASE FailOrder(r)
    BY <2>12 DEF FailOrder
  <2>13. CASE CommitFail(r)
    BY <2>13 DEF CommitFail, Reject
  <2>14. CASE DeadlockAbort(r)
    BY <2>14 DEF DeadlockAbort, Reject
  <2>15. ASSUME NEW p \in Products, LockRow(r, p) PROVE PendingIsAccountedFor'
    BY <2>15 DEF LockRow
  <2>16. ASSUME NEW p \in Products, AwaitRow(r, p) PROVE PendingIsAccountedFor'
    BY <2>16 DEF AwaitRow
  <2> QED BY <1>r, <2>1, <2>2, <2>3, <2>4, <2>5, <2>6, <2>7, <2>8, <2>9, <2>10,
             <2>11, <2>12, <2>13, <2>14, <2>15, <2>16 DEF Step
<1>1. ASSUME NEW r \in Requests, PaymentsHandle(r) PROVE PendingIsAccountedFor'
  BY <1>1 DEF PaymentsHandle
<1>2. ASSUME NEW r \in Requests, WorkerCompletes(r) PROVE PendingIsAccountedFor'
  BY <1>2 DEF WorkerCompletes
<1>3. ASSUME NEW r \in Requests, AuthorizeFails(r) PROVE PendingIsAccountedFor'
  BY <1>3 DEF AuthorizeFails
<1>4. ASSUME NEW r \in Requests, StatementFails(r) PROVE PendingIsAccountedFor'
  BY <1>4 DEF StatementFails, Reject
<1>5. CASE Crash
  BY <1>5 DEF Crash, InFlight, FirstConnection
<1>6. CASE RestartPayments
  BY <1>6 DEF RestartPayments
<1>7. CASE UNCHANGED vars
  BY <1>7 DEF vars
<1> QED BY <1>r, <1>1, <1>2, <1>3, <1>4, <1>5, <1>6, <1>7 DEF Next, Settled

\* A client is told 201 once the order's message has left for the broker.
CreatedInv ==
    \A r \in Requests :
        answer[r].code = "created" => r \in published \/ "publish" \in Faults

LEMMA CreatedInit == Init => CreatedInv
BY DEF Init, CreatedInv, NoAnswer

LEMMA CreatedStep == TypeOK /\ StatusInv /\ CreatedInv /\ [Next]_vars => CreatedInv'
<1> SUFFICES ASSUME TypeOK, StatusInv, [Next]_vars,
                    NEW r \in Requests, answer'[r].code = "created",
                    answer[r].code = "created" => r \in published \/ "publish" \in Faults
             PROVE  r \in published' \/ "publish" \in Faults
  BY DEF CreatedInv
<1>1. published \subseteq published'
  BY DEF Next, Step, Arrive, Connect, FindExisting, BuildPlan, InsertOrder, CommitOrder,
     FindDuplicate, CallAuthorize, ReceiveReply, RecordPayment, Publish, FailOrder,
     CommitFail, DeadlockAbort, LockRow, AwaitRow, PaymentsHandle, WorkerCompletes,
     AuthorizeFails, StatementFails, Crash, RestartPayments, Settled, vars
<1>2. CASE answer'[r] # answer[r]
  BY <1>2, AnswerStep DEF Publish
<1> QED BY <1>1, <1>2

\* The order of a payment, or of a call that may still create one, is live and
\* knows it, or is undecided, or failed before the client's eyes.
AccountedFor(r) ==
    \/ Holds(r) /\ payment[r] = r
    \/ /\ status[r] = "pending"
       /\ \/ pc[r] \in {"awaiting", "recording", "failing", "releasing", "crashed"}
          \/ answer[r].code = "error"
    \/ status[r] = "failed" /\ answer[r].code \in {"timeout", "unavailable"}

\* An order calls Authorize once, is answered with the new record's id if it
\* made one, and stores no id but that answer.
HeldInv ==
    \A r \in Requests :
        /\ payment[r] \in {None, reply[r]}
        /\ r \in byId => reply[r] = r
        /\ r \in wire => reply[r] = None
        /\ pc[r] \in Unordered \cup {"authorize"} => r \notin wire /\ reply[r] = None
        /\ r \in wire \cup byId => AccountedFor(r)

LEMMA HeldInit == Init => HeldInv
BY DEF Init, HeldInv, PaymentsInit, Unordered

LEMMA HeldStep == TypeOK /\ StatusInv /\ WaitInv /\ HeldInv /\ [Next]_vars => HeldInv'
<1> SUFFICES ASSUME TypeOK, StatusInv, WaitInv, HeldInv, [Next]_vars PROVE HeldInv'
  OBVIOUS
<1> USE NoneAssumption DEF HeldInv, AccountedFor, StatusInv, TypeOK, PaymentsTypeOK, Holds,
        Unordered, Paying, Go, Answer
<1>r. ASSUME NEW r \in Requests, Step(r) PROVE HeldInv'
  <2>1. CASE Arrive(r)
    BY <2>1 DEF Arrive, Reject
  <2>2. CASE Connect(r)
    BY <2>2 DEF Connect
  <2>3. CASE FindExisting(r)
    BY <2>3 DEF FindExisting, Reject, Reuse
  <2>4. CASE BuildPlan(r)
    BY <2>4 DEF BuildPlan, Reject
  <2>5. CASE InsertOrder(r)
    BY <2>5 DEF InsertOrder
  <2>6. CASE CommitOrder(r)
    BY <2>6 DEF CommitOrder, CommittedStatus
  <2>7. CASE FindDuplicate(r)
    <3>1. PICK code, order, pay : Answer(r, code, order, pay)
      BY <2>7 DEF FindDuplicate, Reject, Reuse
    <3> QED BY <2>7, <3>1 DEF FindDuplicate
  <2>8. CASE CallAuthorize(r)
    BY <2>8 DEF CallAuthorize
  <2>9. CASE ReceiveReply(r)
    BY <2>9 DEF ReceiveReply
  <2>10. CASE RecordPayment(r)
    BY <2>10 DEF RecordPayment
  <2>11. CASE Publish(r)
    BY <2>11 DEF Publish
  <2>12. CASE FailOrder(r)
    BY <2>12 DEF FailOrder
  <2>13. CASE CommitFail(r)
    BY <2>13 DEF CommitFail, Reject, RpcAnswer
  <2>14. CASE DeadlockAbort(r)
    <3>1. pc[r] \in Locking
      BY <2>14 DEF DeadlockAbort, WaitInv
    <3> QED BY <2>14, <3>1 DEF DeadlockAbort, Reject, Locking
  <2>15. ASSUME NEW p \in Products, LockRow(r, p) PROVE HeldInv'
    BY <2>15 DEF LockRow
  <2>16. ASSUME NEW p \in Products, AwaitRow(r, p) PROVE HeldInv'
    BY <2>16 DEF AwaitRow
  <2> QED BY <1>r, <2>1, <2>2, <2>3, <2>4, <2>5, <2>6, <2>7, <2>8, <2>9, <2>10,
             <2>11, <2>12, <2>13, <2>14, <2>15, <2>16 DEF Step
<1>1. ASSUME NEW r \in Requests, PaymentsHandle(r) PROVE HeldInv'
  <2>1. AuthorizedPayment(r, input[r].key) \in byId \cup {r}
    BY DEF AuthorizedPayment
  <2>2. byId' \subseteq byId \cup {reply'[r]} /\ reply'[r] \in byId \cup {r}
    BY <1>1, <2>1 DEF PaymentsHandle, Authorize
  <2> QED BY <1>1, <2>2 DEF PaymentsHandle
<1>2. ASSUME NEW r \in Requests, WorkerCompletes(r) PROVE HeldInv'
  BY <1>2 DEF WorkerCompletes
<1>3. ASSUME NEW r \in Requests, AuthorizeFails(r) PROVE HeldInv'
  BY <1>3 DEF AuthorizeFails
<1>4. ASSUME NEW r \in Requests, StatementFails(r) PROVE HeldInv'
  BY <1>4 DEF StatementFails, Throwing, Reject
<1>5. CASE Crash
  BY <1>5 DEF Crash, InFlight, FirstConnection
<1>6. CASE RestartPayments
  BY <1>6 DEF RestartPayments, PaymentsRestart
<1>7. CASE UNCHANGED vars
  BY <1>7 DEF vars
<1> QED BY <1>r, <1>1, <1>2, <1>3, <1>4, <1>5, <1>6, <1>7 DEF Next, Settled

-----------------------------------------------------------------------------
(* The theorems.                                                           *)

IInv == /\ TypeOK /\ StatusInv /\ LockInv /\ SeenInv /\ PlanInv /\ KeyInv
        /\ StockConserved /\ NeverOversold /\ TraceInv /\ WaitInv
        /\ PendingIsAccountedFor /\ CreatedInv /\ HeldInv

LEMMA IInvInit == Init => IInv
BY TypeInit, StatusInit, LockInit, SeenInit, PlanInit, KeyInit, StockInit,
   TraceInit, WaitInit, PendingInit, CreatedInit, HeldInit DEF IInv

LEMMA IInvStep == IInv /\ [Next]_vars => IInv'
BY TypeStep, StatusStep, LockStep, SeenStep, PlanStep, KeyStep, StockStep,
   TraceStep, WaitStep, PendingStep,
   CreatedStep, HeldStep DEF IInv

LEMMA Inductive == Spec => []IInv
BY IInvInit, IInvStep, PTL DEF Spec

\* createOrder and failOrderAndReleaseStock never lose or make up stock.
THEOREM StockIsConserved == Spec => []StockConserved
<1>1. IInv => StockConserved
  BY DEF IInv
<1> QED BY <1>1, Inductive, PTL

\* No product is ever sold below zero.
THEOREM StockIsNeverOversold == Spec => []NeverOversold
<1>1. IInv => NeverOversold
  BY DEF IInv
<1> QED BY <1>1, Inductive, PTL

\* From the plan to the commit nobody else changes the stock it was made of.
THEOREM PlansAreNotStale == Spec => []PlanIsNotStale
<1>1. IInv => PlanIsNotStale
  BY DEF IInv, LockInv, SeenInv, PlanIsNotStale
<1> QED BY <1>1, Inductive, PTL

\* A user's Idempotency-Key creates at most one order.
THEOREM KeysAreUnique == Spec => []OneOrderPerKey
<1>1. IInv => OneOrderPerKey
  BY DEF IInv, KeyInv, SameKey, OneOrderPerKey
<1> QED BY <1>1, Inductive, PTL

\* Only paid orders that still hold their stock are published.
THEOREM PublishedOrdersArePaid == Spec => []PublishedOrderIsPaid
<1>1. IInv => PublishedOrderIsPaid
  BY DEF IInv, TypeOK, StatusInv, Holds, PublishedOrderIsPaid
<1> QED BY <1>1, Inductive, PTL

\* After an answer 503 or 504 the order is failed and stays out of the queue.
THEOREM PaymentErrorsAreFinal == Spec => []PaymentErrorIsFinal
<1>1. IInv => PaymentErrorIsFinal
  BY DEF IInv, StatusInv, PaymentErrorIsFinal
<1> QED BY <1>1, Inductive, PTL

\* No payment is held, for a call in time or late, that neither its live order
\* nor the client's answer accounts for.
THEOREM HeldPaymentsAreAccountedFor == Spec => []PaymentHeldIsAccountedFor
<1>1. IInv => PaymentHeldIsAccountedFor
  BY DEF IInv, TypeOK, PaymentsTypeOK, HeldInv, AccountedFor, PaymentHeldIsAccountedFor
<1> QED BY <1>1, Inductive, PTL

\* A decided order is never decided again, and its payment never replaced.
THEOREM OrdersKeepTheirHistory == Spec => OrderHistory
<1>1. IInv /\ [Next]_vars =>
          [\A r \in Requests :
              /\ status'[r] # status[r] =>
                    <<status[r], status'[r]>> \in {<<"none", "pending">>,
                                                  <<"pending", "processed">>,
                                                  <<"pending", "failed">>}
              /\ payment[r] # None => payment'[r] = payment[r]]_vars
  BY HistoryStep DEF IInv, Moves
<1> QED BY <1>1, Inductive, PTL DEF Spec, OrderHistory

\* A repeated key is only ever answered with the order of its own user and key.
THEOREM RepeatsGetTheirOwnOrder == Spec => []ReuseAnswersOwnOrder
<1>1. IInv => ReuseAnswersOwnOrder
  BY DEF IInv, TraceInv, ReuseAnswersOwnOrder, Existing, SameKey
<1> QED BY <1>1, Inductive, PTL

\* A request answered 400, 404 or 409 has left nothing behind.
THEOREM RejectionsLeaveNoTrace == Spec => []RejectionLeavesNoTrace
<1>1. IInv => RejectionLeavesNoTrace
  BY DEF IInv, TraceInv, StatusInv, LockInv, RejectionLeavesNoTrace, Rejections
<1> QED BY <1>1, Inductive, PTL

\* No payment is on record for an order that does not exist.
THEOREM PaymentsHaveOrders == Spec => []PaymentsAreForOrders
<1>1. IInv => PaymentsAreForOrders
  BY DEF IInv, TypeOK, PaymentsTypeOK, TraceInv, PaymentsAreForOrders
<1> QED BY <1>1, Inductive, PTL

\* Two orders share a payment only when two users chose the same key.
THEOREM SharedPaymentsCrossUsers == Spec => []PaymentSharedOnlyAcrossUsers
<1>1. IInv => PaymentSharedOnlyAcrossUsers
  <2> SUFFICES ASSUME IInv, NEW r \in Requests, payment[r] \notin {None, r}
               PROVE  /\ input[payment[r]].key = input[r].key
                      /\ input[payment[r]].user # input[r].user
    BY DEF PaymentSharedOnlyAcrossUsers
  <2>1. payment[r] \in Requests \ {r}
    BY DEF IInv, TypeOK
  <2>2. Exists(payment[r]) /\ Exists(r) /\ input[payment[r]].key = input[r].key
    BY <2>1 DEF IInv, TraceInv
  <2> QED BY <2>1, <2>2 DEF IInv, KeyInv, SameKey
<1> QED BY <1>1, Inductive, PTL

\* Row locks, the unique index, the payments service and the waits of the
\* compensation never block every request: only an exhausted pool does.
THEOREM OnlyThePoolJams == Spec => []OnlyThePoolCanJam
<1>1. IInv => OnlyThePoolCanJam
  BY NoJamButThePool DEF IInv
<1> QED BY <1>1, Inductive, PTL

\* With a connection more than there are requests at a time, some request
\* can always go on until all are answered.
THEOREM SpareConnectionSuffices ==
    ASSUME PoolSize > Cardinality(Requests)
    PROVE  Spec => []( \/ \A r \in Requests : pc[r] \in Finished
                       \/ \E r \in Requests : CanGoOn(r) )
<1>1. IInv => \/ \A r \in Requests : pc[r] \in Finished
              \/ \E r \in Requests : CanGoOn(r)
  BY NoJamButThePool, SpareConnection DEF IInv, OnlyThePoolCanJam
<1> QED BY <1>1, Inductive, PTL

\* A pending order that no worker will hear of is one whose client was told
\* of an error or of nothing, or whose message the channel lost.
THEOREM PendingOrdersAreAccountedFor == Spec => []PendingIsAccountedFor
<1>1. IInv => PendingIsAccountedFor
  BY DEF IInv
<1> QED BY <1>1, Inductive, PTL

-----------------------------------------------------------------------------
(* Checkout implements OrderBook: the commit of createOrder places the     *)
(* order, the update after Authorize pays it, the commit of                *)
(* failOrderAndReleaseStock fails it, the worker's commit processes it,    *)
(* and every other step leaves the book alone.                             *)

LEMMA BookInit == Init => Book!Init
BY DEF Init, Book!Init

\* The order is placed against the stock of the moment of its commit, which
\* is the stock its plan was made from.
LEMMA CommitPlaces ==
    ASSUME IInv, NEW r \in Requests, CommitOrder(r)
    PROVE  Book!Place(r)
<1>1. /\ pc[r] = "inserted" /\ status[r] = "none" /\ Missing(r) = {}
      /\ \A p \in Named(Items(r)) : lock[p] = r
  BY DEF CommitOrder, IInv, StatusInv, LockInv, Unordered, Missing
<1>2. Named(Items(r)) \subseteq Products
  BY <1>1 DEF Missing
<1>3. /\ \A p \in Products : QuantityOf(Items(r), p) \in Nat /\ stock[p] \in Int
  BY QuantityIsNat DEF IInv, TypeOK
<1>4. \A p \in Named(Items(r)) :
          seen[r][p] = stock[p] /\ QuantityOf(Items(r), p) <= stock[p]
  BY <1>1, <1>2, <1>3 DEF IInv, SeenInv, PlanInv
<1>5. stock' = [p \in Products |-> stock[p] - QuantityOf(Items(r), p)]
  <2>1. \A p \in Products \ Named(Items(r)) : QuantityOf(Items(r), p) = 0
    BY UnitsOfUnnamed
  <2>2. stock' = CommittedStock(r)
    BY DEF CommitOrder
  <2> QED BY <1>3, <1>4, <2>1, <2>2 DEF CommittedStock
<1>6. \A q \in Requests : ~ Book!Rival(q, r)
  BY <1>1 DEF IInv, KeyInv, SameKey, Exists, Book!Rival
<1>7. Book!Move(r, "none", "pending") /\ UNCHANGED payment
  BY <1>1 DEF CommitOrder, Book!Move
<1> QED BY <1>2, <1>4, <1>5, <1>6, <1>7 DEF Book!Place, Items

LEMMA RecordPays ==
    ASSUME IInv, NEW r \in Requests, RecordPayment(r)
    PROVE  Book!Pay(r)
<1>1. status[r] = "pending" /\ payment[r] = None /\ reply[r] \in Requests
  BY DEF RecordPayment, IInv, TypeOK, StatusInv, Paying
<1> QED BY <1>1 DEF RecordPayment, Book!Pay

LEMMA CommitFails ==
    ASSUME IInv, NEW r \in Requests, CommitFail(r)
    PROVE  Book!Fail(r)
<1>1. status[r] = "pending" /\ payment[r] = None
  BY DEF CommitFail, IInv, StatusInv, Paying
<1>2. stock' = [p \in Products |-> stock[p] + QuantityOf(Items(r), p)]
  BY <1>1 DEF CommitFail, ReleasedStock
<1>3. Book!Move(r, "pending", "failed") /\ UNCHANGED payment
  BY <1>1 DEF CommitFail, Book!Move
<1> QED BY <1>1, <1>2, <1>3 DEF Book!Fail, Items

LEMMA WorkerProcesses ==
    ASSUME IInv, NEW r \in Requests, WorkerCompletes(r)
    PROVE  Book!Process(r)
<1>1. status[r] = "pending" /\ payment[r] # None
  BY DEF WorkerCompletes, IInv, StatusInv
<1> QED BY <1>1 DEF WorkerCompletes, Book!Process, Book!Move

\* A step that leaves the tables alone leaves the book alone.
LEMMA OtherStepsStutter ==
    input' = input /\ stock' = stock /\ status' = status /\ payment' = payment
    => UNCHANGED Book!vars
BY DEF Book!vars

LEMMA BookStep == IInv /\ [Next]_vars => [Book!Next]_(Book!vars)
<1> SUFFICES ASSUME IInv, [Next]_vars PROVE Book!Next \/ UNCHANGED Book!vars
  OBVIOUS
<1> DEFINE Still == input' = input /\ stock' = stock /\ status' = status /\ payment' = payment
<1>1. ASSUME NEW r \in Requests, Step(r) PROVE Book!Next \/ Still
  <2>1. CASE CommitOrder(r)
    BY <2>1, CommitPlaces DEF Book!Next
  <2>2. CASE RecordPayment(r)
    BY <2>2, RecordPays DEF Book!Next
  <2>3. CASE CommitFail(r)
    BY <2>3, CommitFails DEF Book!Next
  <2>4. CASE ~ CommitOrder(r) /\ ~ RecordPayment(r) /\ ~ CommitFail(r)
    BY <1>1, <2>4
    DEF Step, Arrive, Connect, FindExisting, BuildPlan, InsertOrder, FindDuplicate,
        CallAuthorize, ReceiveReply, Publish, FailOrder, DeadlockAbort, LockRow,
        AwaitRow
  <2> QED BY <2>1, <2>2, <2>3, <2>4
<1>2. ASSUME NEW r \in Requests, WorkerCompletes(r) PROVE Book!Next
  BY <1>2, WorkerProcesses DEF Book!Next
<1>3. ASSUME NEW r \in Requests,
             PaymentsHandle(r) \/ AuthorizeFails(r) \/ StatementFails(r)
      PROVE  Still
  BY <1>3 DEF PaymentsHandle, AuthorizeFails, StatementFails
<1>4. Crash \/ RestartPayments \/ UNCHANGED vars => Still
  BY DEF Crash, RestartPayments, vars
<1>5. Still => UNCHANGED Book!vars
  BY OtherStepsStutter
<1> HIDE DEF Still
<1> QED BY <1>1, <1>2, <1>3, <1>4, <1>5 DEF Next, Settled

\* Whatever requests, payment errors, late calls and crashes interleave, the
\* tables change only as the order book allows.
THEOREM CheckoutImplementsBook == Spec => ImplementsBook
BY BookInit, BookStep, Inductive, PTL DEF Spec, ImplementsBook, Book!Spec

====
