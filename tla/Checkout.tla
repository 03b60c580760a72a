---- MODULE Checkout ----
(***************************************************************************)
(* POST /orders: OrdersService.createOrder and failOrderAndReleaseStock    *)
(* run for every request of Requests at the same time, over one PostgreSQL *)
(* database (row locks, the unique index on (userId, idempotencyKey), the  *)
(* connection pool), the payments service behind gRPC and the broker.      *)
(*                                                                         *)
(* The order a request creates is named after the request.  A transaction  *)
(* of a request shows the others its locks at once and its writes at       *)
(* commit (READ COMMITTED).                                                *)
(***************************************************************************)
EXTENDS OrderLines, PaymentsStore

CONSTANTS Products,     \* rows of the products table
          InitStock,    \* their stock before the first request
          KnownUsers,   \* rows of the users table
          NoKey,        \* a request without Idempotency-Key header
          Inputs,       \* the requests considered: user, key and lines each
          PoolSize,     \* connections of the API's database pool
          Faults        \* which failures may happen, see FaultKinds

FaultKinds == {"crash", "statement", "rpc", "publish", "restart"}

ASSUME ProductsAssumption == None \notin Products
ASSUME StockAssumption == InitStock \in [Products -> Nat]
ASSUME RequestsAssumption == IsFiniteSet(Requests)
ASSUME InputsAssumption ==
    /\ \A in \in Inputs :
        /\ DOMAIN in = Requests
        /\ \A r \in Requests :
            /\ in[r].key \in Keys \cup {NoKey}
            /\ IsLines(in[r].items)
    /\ NoKey \notin Keys
ASSUME PoolAssumption == PoolSize \in Nat \ {0}
ASSUME FaultsAssumption == Faults \subseteq FaultKinds

VARIABLES input,        \* input[r]: what the client of r sent
          pc,           \* where createOrder is for r
          answer,       \* answer[r]: the HTTP answer of r
          stock,        \* products.stock
          status,       \* orders.status, "none" while r has no row
          payment,      \* orders.paymentId, None while NULL
          lock,         \* lock[p]: the request whose transaction locks row p
          todo,         \* todo[r]: rows the statements of r have still to lock
          awaited,      \* awaited[r]: the row r is blocked on, or None
          seen,         \* seen[r][p]: the stock r read when it locked p
          wire,         \* Authorize calls sent and not yet handled
          reply,        \* reply[r]: the payment id Authorize answered r with
          rpcError,     \* the gRPC error code r caught
          published     \* orders whose orders.process message the broker has

dbVars   == <<stock, status, payment>>
txVars   == <<lock, todo, awaited, seen>>
rpcVars  == <<wire, reply, rpcError>>
vars     == <<input, pc, answer, dbVars, txVars, rpcVars, paymentsVars, published>>

-----------------------------------------------------------------------------

(* Places of createOrder; a request holds its query runner's connection    *)
(* from connect() to the finally block, whatever it is waiting for.        *)
FirstConnection  == {"lookup", "locking", "insert", "inserted",
                     "duplicate", "authorize", "awaiting", "recording",
                     "publishing", "failing", "releasing"}
SecondConnection == {"releasing"}
InFlight         == FirstConnection \cup {"connect"}
Finished         == {"done", "crashed"}
Places           == {"new"} \cup InFlight \cup Finished

InUse == Cardinality({r \in Requests : pc[r] \in FirstConnection})
         + Cardinality({r \in Requests : pc[r] \in SecondConnection})
ConnectionFree == InUse < PoolSize

NoAnswer == [code |-> "none", order |-> None, payment |-> None]

Codes == {"none", "created", "reused", "badRequest", "notFound", "conflict",
          "timeout", "unavailable", "error"}

Items(r) == input[r].items
Exists(r) == status[r] # "none"

\* Mutant: the lookup leaves the user out of its WHERE clause.
ExistingOfAnyUser(r) == {q \in Requests : Exists(q) /\ input[q].key = input[r].key}

\* The committed order that findOne({userId, idempotencyKey}) returns to r.
SameKey(q, r) == /\ input[q].user = input[r].user
                 /\ input[q].key = input[r].key
Existing(r) == {q \in Requests : Exists(q) /\ SameKey(q, r)}

Go(r, place) == pc' = [pc EXCEPT ![r] = place]

\* End of createOrder: the answer is sent once the connection is released.
Answer(r, code, order, pay) ==
    /\ Go(r, "done")
    /\ answer' = [answer EXCEPT
                    ![r] = [code |-> code, order |-> order, payment |-> pay]]

Reject(r, code) == Answer(r, code, None, None)

Reuse(r, q) == Answer(r, "reused", q, payment[q])

\* Mutant: a transaction that ends without letting go of its locks.
StillLocked(r) == lock

Unlocked(r) == [p \in Products |-> IF lock[p] = r THEN None ELSE lock[p]]

\* COMMIT or ROLLBACK: the locks of r go, and what it read is forgotten.
EndTransaction(r) ==
    /\ lock' = Unlocked(r)
    /\ todo' = [todo EXCEPT ![r] = {}]
    /\ awaited' = [awaited EXCEPT ![r] = None]
    /\ seen' = [seen EXCEPT ![r] = [p \in Products |-> 0]]

Init ==
    /\ input \in Inputs
    /\ pc = [r \in Requests |-> "new"]
    /\ answer = [r \in Requests |-> NoAnswer]
    /\ stock = InitStock
    /\ status = [r \in Requests |-> "none"]
    /\ payment = [r \in Requests |-> None]
    /\ lock = [p \in Products |-> None]
    /\ todo = [r \in Requests |-> {}]
    /\ awaited = [r \in Requests |-> None]
    /\ seen = [r \in Requests |-> [p \in Products |-> 0]]
    /\ wire = {}
    /\ reply = [r \in Requests |-> None]
    /\ rpcError = [r \in Requests |-> "none"]
    /\ published = {}
    /\ PaymentsInit

-----------------------------------------------------------------------------
(* createOrder: from the request to the committed order.                   *)

\* The header check comes before any connection is taken.
Arrive(r) ==
    /\ pc[r] = "new"
    /\ IF input[r].key = NoKey
       THEN Reject(r, "badRequest")
       ELSE Go(r, "connect") /\ UNCHANGED answer
    /\ UNCHANGED <<input, dbVars, txVars, rpcVars, paymentsVars, published>>

Connect(r) ==
    /\ pc[r] = "connect"
    /\ ConnectionFree
    /\ Go(r, "lookup")
    /\ UNCHANGED <<input, answer, dbVars, txVars, rpcVars, paymentsVars, published>>

\* The user, then an order already stored under the key, then the rows
\* SELECT ... FOR UPDATE matches: the named products that exist.
FindExisting(r) ==
    /\ pc[r] = "lookup"
    /\ \/ /\ input[r].user \notin KnownUsers
          /\ Reject(r, "notFound")
          /\ UNCHANGED todo
       \/ /\ input[r].user \in KnownUsers
          /\ \E q \in Existing(r) : Reuse(r, q)
          /\ UNCHANGED todo
       \/ /\ input[r].user \in KnownUsers
          /\ Existing(r) = {}
          /\ todo' = [todo EXCEPT ![r] = Named(Items(r)) \cap Products]
          /\ Go(r, "locking")
          /\ UNCHANGED answer
    /\ UNCHANGED <<input, dbVars, lock, awaited, seen, rpcVars, paymentsVars, published>>

\* The statement has no ORDER BY, and neither has the compensation's list of
\* items: the rows come in any order.  A locked row is read as it is now.
Locking == {"locking", "releasing"}

\* Mutant: the SELECT without setLock('pessimistic_write').
WhateverTheLock(p) == TRUE

RowFree(p) == lock[p] = None

LockRow(r, p) ==
    /\ pc[r] \in Locking
    /\ p \in todo[r]
    /\ awaited[r] \in {None, p}
    /\ RowFree(p)
    /\ lock' = [lock EXCEPT ![p] = r]
    /\ seen' = [seen EXCEPT ![r][p] = stock[p]]
    /\ todo' = [todo EXCEPT ![r] = @ \ {p}]
    /\ awaited' = [awaited EXCEPT ![r] = None]
    /\ UNCHANGED <<input, pc, answer, dbVars, rpcVars, paymentsVars, published>>

AwaitRow(r, p) ==
    /\ pc[r] \in Locking
    /\ p \in todo[r]
    /\ awaited[r] = None
    /\ ~ RowFree(p)
    /\ awaited' = [awaited EXCEPT ![r] = p]
    /\ UNCHANGED <<input, pc, answer, dbVars, lock, todo, seen, rpcVars,
                   paymentsVars, published>>

\* buildOrderPlan on the locked rows, and the stock writes that follow.
Missing(r)      == Named(Items(r)) \ Products
\* Mutant: every line is compared with the stock, not the sum of the lines.
InsufficientByLine(r) == {p \in Named(Items(r)) \cap Products :
                            \E i \in LinesOf(Items(r), p) :
                                seen[r][p] < Items(r)[i].quantity}

Insufficient(r) == {p \in Named(Items(r)) \cap Products :
                        seen[r][p] < QuantityOf(Items(r), p)}

BuildPlan(r) ==
    /\ pc[r] = "locking"
    /\ todo[r] = {}
    /\ \/ /\ Missing(r) # {}
          /\ Reject(r, "notFound")
          /\ EndTransaction(r)
       \/ /\ Missing(r) = {}
          /\ Insufficient(r) # {}
          /\ Reject(r, "conflict")
          /\ EndTransaction(r)
       \/ /\ Missing(r) = {}
          /\ Insufficient(r) = {}
          /\ Go(r, "insert")
          /\ UNCHANGED <<answer, txVars>>
    /\ UNCHANGED <<input, dbVars, rpcVars, paymentsVars, published>>

\* Mutant: an insert does not wait for uncommitted rows with its key.
NeverContended(r) == FALSE

\* The unique index: an uncommitted row with the same key blocks the insert,
\* a committed one fails it (23505) and rolls the transaction back.
KeyContended(r) ==
    \E q \in Requests \ {r} : SameKey(q, r) /\ pc[q] = "inserted"

InsertOrder(r) ==
    /\ pc[r] = "insert"
    /\ ~ KeyContended(r)
    /\ IF Existing(r) = {}
       THEN Go(r, "inserted") /\ UNCHANGED txVars
       ELSE Go(r, "duplicate") /\ EndTransaction(r)
    /\ UNCHANGED <<input, answer, dbVars, rpcVars, paymentsVars, published>>

\* save(Product) writes the value computed from the locked read.
CommittedStock(r) ==
    [p \in Products |-> IF p \in Named(Items(r))
                        THEN seen[r][p] - QuantityOf(Items(r), p)
                        ELSE stock[p]]

\* Mutant: createOrder goes on without a commit.
NotCommitted(r) == status

CommittedStatus(r) == [status EXCEPT ![r] = "pending"]

CommitOrder(r) ==
    /\ pc[r] = "inserted"
    /\ stock' = CommittedStock(r)
    /\ status' = CommittedStatus(r)
    /\ Go(r, "authorize")
    /\ EndTransaction(r)
    /\ UNCHANGED <<input, answer, payment, rpcVars, paymentsVars, published>>

\* After 23505: read the winner's order, on a second connection.
FindDuplicate(r) ==
    /\ pc[r] = "duplicate"
    /\ ConnectionFree
    /\ IF Existing(r) = {}
       THEN Reject(r, "conflict")
       ELSE \E q \in Existing(r) : Reuse(r, q)
    /\ UNCHANGED <<input, dbVars, txVars, rpcVars, paymentsVars, published>>

-----------------------------------------------------------------------------
(* createOrder: payment, then the message to the worker.                   *)

\* Mutant: the message goes out before the payment is authorized.
CallAuthorizeAfterPublish(r) ==
    /\ pc[r] = "authorize"
    /\ wire' = wire \cup {r}
    /\ published' = published \cup {r}
    /\ Go(r, "awaiting")
    /\ UNCHANGED <<input, answer, dbVars, txVars, reply, rpcError, paymentsVars>>

CallAuthorize(r) ==
    /\ pc[r] = "authorize"
    /\ wire' = wire \cup {r}
    /\ Go(r, "awaiting")
    /\ UNCHANGED <<input, answer, dbVars, txVars, reply, rpcError, paymentsVars,
                   published>>

\* The payments service handles a call, in time or after the caller gave up.
PaymentsHandle(r) ==
    /\ r \in wire
    /\ Authorize(r, input[r].key)
    /\ reply' = [reply EXCEPT ![r] = AuthorizedPayment(r, input[r].key)]
    /\ wire' = wire \ {r}
    /\ UNCHANGED <<input, pc, answer, dbVars, txVars, rpcError, published>>

ReceiveReply(r) ==
    /\ pc[r] = "awaiting"
    /\ reply[r] # None
    /\ Go(r, "recording")
    /\ UNCHANGED <<input, answer, dbVars, txVars, rpcVars, paymentsVars, published>>

\* The call is rejected: the deadline passed or the transport failed.  It may
\* have been handled, may still be, or never will be.
AuthorizeFails(r) ==
    /\ "rpc" \in Faults
    /\ pc[r] = "awaiting"
    /\ \E code \in {"DEADLINE_EXCEEDED", "UNAVAILABLE"} :
           rpcError' = [rpcError EXCEPT ![r] = code]
    /\ wire' \in {wire, wire \ {r}}
    /\ Go(r, "failing")
    /\ UNCHANGED <<input, answer, dbVars, txVars, reply, paymentsVars, published>>

\* Mutant: the update matches no row, and nobody looks at what it affected.
RecordNothing(r) ==
    /\ pc[r] = "recording"
    /\ ConnectionFree
    /\ Go(r, "publishing")
    /\ UNCHANGED <<input, answer, dbVars, txVars, rpcVars, paymentsVars, published>>

\* update(order.id, {paymentId, paymentStatus}), on a second connection.
RecordPayment(r) ==
    /\ pc[r] = "recording"
    /\ ConnectionFree
    /\ payment' = [payment EXCEPT ![r] = reply[r]]
    /\ Go(r, "publishing")
    /\ UNCHANGED <<input, answer, stock, status, txVars, rpcVars, paymentsVars,
                   published>>

\* publishJson writes to the channel's buffer and waits for no confirm.
Publish(r) ==
    /\ pc[r] = "publishing"
    /\ Answer(r, "created", r, payment[r])
    /\ \/ published' = published \cup {r}
       \/ "publish" \in Faults /\ UNCHANGED published
    /\ UNCHANGED <<input, dbVars, txVars, rpcVars, paymentsVars>>

-----------------------------------------------------------------------------
(* failOrderAndReleaseStock, one transaction on a second connection.       *)

\* handlePaymentsRpcError
RpcAnswer(r) == IF rpcError[r] = "DEADLINE_EXCEEDED" THEN "timeout"
                ELSE "unavailable"

\* Mutant: the call of failOrderAndReleaseStock is dropped from the catch.
FailOrderSkipped(r) ==
    /\ pc[r] = "failing"
    /\ Reject(r, RpcAnswer(r))
    /\ UNCHANGED <<input, dbVars, txVars, rpcVars, paymentsVars, published>>

FailOrder(r) ==
    /\ pc[r] = "failing"
    /\ ConnectionFree
    /\ todo' = [todo EXCEPT ![r] = IF status[r] = "failed" THEN {}
                                   ELSE Named(Items(r)) \cap Products]
    /\ Go(r, "releasing")
    /\ UNCHANGED <<input, answer, dbVars, lock, awaited, seen, rpcVars,
                   paymentsVars, published>>

\* increment() adds to whatever the row holds by then.
ReleasedStock(r) ==
    [p \in Products |-> IF status[r] = "failed" THEN stock[p]
                        ELSE stock[p] + QuantityOf(Items(r), p)]

CommitFail(r) ==
    /\ pc[r] = "releasing"
    /\ todo[r] = {}
    /\ stock' = ReleasedStock(r)
    /\ status' = [status EXCEPT ![r] = "failed"]
    /\ Reject(r, RpcAnswer(r))
    /\ EndTransaction(r)
    /\ UNCHANGED <<input, payment, rpcVars, paymentsVars, published>>

-----------------------------------------------------------------------------
(* Failures.                                                               *)

\* r is on a cycle of transactions blocked on each other's rows.
OnWaitCycle(r) ==
    \E S \in SUBSET Requests :
        /\ r \in S
        /\ \A q \in S : /\ awaited[q] # None
                        /\ lock[awaited[q]] \in S
        /\ \A q \in S : \E w \in S : lock[awaited[w]] = q

\* PostgreSQL aborts one transaction of the cycle; its request answers 500.
\* Locks in failOrderAndReleaseStock are not retried either.
DeadlockAbort(r) ==
    /\ awaited[r] # None
    /\ OnWaitCycle(r)
    /\ Reject(r, "error")
    /\ EndTransaction(r)
    /\ UNCHANGED <<input, dbVars, rpcVars, paymentsVars, published>>

\* A statement, or the publish on a closed channel, throws: the open
\* transaction, if any, is rolled back and the request answers 500.
Throwing == {"connect", "lookup", "locking", "insert", "inserted", "duplicate",
             "recording", "publishing", "failing", "releasing"}

StatementFails(r) ==
    /\ "statement" \in Faults
    /\ pc[r] \in Throwing
    /\ Reject(r, "error")
    /\ EndTransaction(r)
    /\ UNCHANGED <<input, dbVars, rpcVars, paymentsVars, published>>

\* The API process dies and restarts: no request in flight is ever answered,
\* the database rolls their transactions back.
Crash ==
    /\ "crash" \in Faults
    /\ \E r \in Requests : pc[r] \in InFlight
    /\ pc' = [r \in Requests |-> IF pc[r] \in InFlight THEN "crashed" ELSE pc[r]]
    /\ lock' = [p \in Products |-> None]
    /\ todo' = [r \in Requests |-> {}]
    /\ awaited' = [r \in Requests |-> None]
    /\ seen' = [r \in Requests |-> [p \in Products |-> 0]]
    /\ UNCHANGED <<input, answer, dbVars, rpcVars, paymentsVars, published>>

RestartPayments ==
    /\ "restart" \in Faults
    /\ PaymentsRestart
    /\ UNCHANGED <<input, pc, answer, dbVars, txVars, rpcVars, published>>

\* OrdersWorker, as createOrder's tables see it: a message whose handler
\* commits sets the order to processed, whatever its status was.
WorkerCompletes(r) ==
    /\ r \in published
    /\ status[r] # "processed"
    /\ status' = [status EXCEPT ![r] = "processed"]
    /\ UNCHANGED <<input, pc, answer, stock, payment, txVars, rpcVars,
                   paymentsVars, published>>

\* Everything has been answered, handled and processed.
Settled ==
    /\ \A r \in Requests : pc[r] \in Finished
    /\ wire = {}
    /\ \A r \in published : status[r] = "processed"
    /\ UNCHANGED vars

-----------------------------------------------------------------------------

Step(r) ==
    \/ Arrive(r) \/ Connect(r) \/ FindExisting(r) \/ BuildPlan(r)
    \/ InsertOrder(r) \/ CommitOrder(r) \/ FindDuplicate(r)
    \/ CallAuthorize(r) \/ ReceiveReply(r) \/ RecordPayment(r) \/ Publish(r)
    \/ FailOrder(r) \/ CommitFail(r) \/ DeadlockAbort(r)
    \/ \E p \in Products : LockRow(r, p) \/ AwaitRow(r, p)

Next ==
    \/ \E r \in Requests : \/ Step(r)
                           \/ PaymentsHandle(r)
                           \/ WorkerCompletes(r)
                           \/ AuthorizeFails(r)
                           \/ StatementFails(r)
    \/ Crash
    \/ RestartPayments
    \/ Settled

Spec == Init /\ [][Next]_vars

(* Node runs every continuation whose promise settled, PostgreSQL grants a *)
(* free lock and aborts one transaction of a deadlock, and the deadline    *)
(* fires when the payments service, which need not be up, stays silent.    *)
(* The worker is given the benefit of the doubt: it never gives up.        *)
Fairness ==
    \A r \in Requests : /\ WF_vars(Step(r))
                        /\ WF_vars(AuthorizeFails(r))
                        /\ WF_vars(WorkerCompletes(r))

FairSpec == Spec /\ Fairness

-----------------------------------------------------------------------------
(* Properties.                                                             *)

\* Every variable has its type.
TypeOK ==
    /\ input \in Inputs
    /\ pc \in [Requests -> Places]
    /\ answer \in [Requests -> [code    : Codes,
                                order   : Requests \cup {None},
                                payment : Requests \cup {None}]]
    /\ stock \in [Products -> Int]
    /\ status \in [Requests -> {"none", "pending", "processed", "failed"}]
    /\ payment \in [Requests -> Requests \cup {None}]
    /\ lock \in [Products -> Requests \cup {None}]
    /\ todo \in [Requests -> SUBSET Products]
    /\ awaited \in [Requests -> Products \cup {None}]
    /\ seen \in [Requests -> [Products -> Int]]
    /\ wire \subseteq Requests
    /\ reply \in [Requests -> Requests \cup {None}]
    /\ rpcError \in [Requests -> {"none", "DEADLINE_EXCEEDED", "UNAVAILABLE"}]
    /\ published \subseteq Requests
    /\ PaymentsTypeOK

\* The units of p that orders hold: those of every order not failed.
Holds(r) == status[r] \in {"pending", "processed"}
HeldUnits(p) ==
    UNION {{r} \X Units(Items(r), p) : r \in {q \in Requests : Holds(q)}}

\* Stock is neither lost nor made up: what the products table says plus what
\* the live orders took is the initial stock, whatever transactions, payment
\* errors, deadlock aborts and crashes interleave.  createOrder writes the
\* absolute value of a locked read, failOrderAndReleaseStock an increment.
StockConserved ==
    \A p \in Products : stock[p] + Cardinality(HeldUnits(p)) = InitStock[p]

\* buildOrderPlan's check still holds when the order commits: concurrent
\* orders never take more units than there are.
NeverOversold == \A p \in Products : stock[p] >= 0

\* A user's Idempotency-Key creates one order at most, although the check
\* for an existing order and the insert are different statements.
OneOrderPerKey ==
    \A q, r \in Requests :
        /\ Exists(q) /\ Exists(r)
        /\ input[q].user = input[r].user
        /\ input[q].key = input[r].key
        => q = r

\* The stock a plan was made from is the stock when the order is inserted:
\* no other transaction changed a row between the read and the write.
PlanIsNotStale ==
    \A r \in Requests : pc[r] \in {"insert", "inserted"} =>
        \A p \in Named(Items(r)) : lock[p] = r /\ seen[r][p] = stock[p]

\* The worker only ever hears of orders that have a payment and whose stock
\* was not given back.
PublishedOrderIsPaid ==
    \A r \in published : payment[r] # None /\ Holds(r)

\* An answer 503 or 504 means that the order is failed, for good: its stock
\* is back, no payment is stored and no worker will process it, even if the
\* payments service authorizes the payment after the deadline.
PaymentErrorIsFinal ==
    \A r \in Requests : answer[r].code \in {"timeout", "unavailable"} =>
        status[r] = "failed" /\ payment[r] = None /\ r \notin published

\* Every payment the service has authorized, in time or late, is stored with
\* its live order, or nobody takes it for granted: the order is still pending
\* with its request under way, cut off or answered 500, or it failed and the
\* client was told 503 or 504.  No failed order answered otherwise, and none
\* answered 201, has a payment it does not know.
PaymentHeldIsAccountedFor ==
    \A r \in byId :
        \/ Holds(r) /\ payment[r] = r
        \/ /\ status[r] = "pending"
           /\ \/ pc[r] \in {"awaiting", "recording", "failing", "releasing", "crashed"}
              \/ answer[r].code = "error"
        \/ status[r] = "failed" /\ answer[r].code \in {"timeout", "unavailable"}

\* An answer 400, 404 or 409 means that nothing happened: no order, no row
\* still locked, no payment asked for.
RejectionLeavesNoTrace ==
    \A r \in Requests :
        answer[r].code \in {"badRequest", "notFound", "conflict"} =>
            /\ ~ Exists(r)
            /\ \A p \in Products : lock[p] # r
            /\ r \notin wire \cup byId

\* A repeated key is answered with the order of the same user and key, and
\* with that order's own payment or none yet.
ReuseAnswersOwnOrder ==
    \A r \in Requests : answer[r].code = "reused" =>
        LET q == answer[r].order
        IN  /\ q # r
            /\ Exists(q)
            /\ input[q].user = input[r].user
            /\ input[q].key = input[r].key
            /\ answer[r].payment \in {None, payment[q]}

\* Every payment on record was authorized for an order that exists.
PaymentsAreForOrders == byId \subseteq {r \in Requests : Exists(r)}

\* An order carries another order's payment only when a different user sent
\* the same Idempotency-Key: the store's map is keyed by the key alone.
PaymentSharedOnlyAcrossUsers ==
    \A r \in Requests : payment[r] \notin {None, r} =>
        LET q == payment[r]
        IN  /\ input[q].key = input[r].key
            /\ input[q].user # input[r].user

\* The steps that take a connection from the pool, the one a request keeps or
\* a second one.
NeedsConnection(r) == pc[r] \in {"connect", "duplicate", "recording", "failing"}

\* r has a next step, the guards of Step(r) and of PaymentsHandle(r) in words
\* of what it may have to wait for: the pool, a row, the unique index, a reply.
CanGoOn(r) ==
    \/ pc[r] \in {"new", "lookup", "inserted", "authorize", "publishing"}
    \/ NeedsConnection(r) /\ ConnectionFree
    \/ /\ pc[r] \in Locking
       /\ todo[r] = {} \/ awaited[r] = None \/ RowFree(awaited[r]) \/ OnWaitCycle(r)
    \/ pc[r] = "insert" /\ ~ KeyContended(r)
    \/ pc[r] = "awaiting" /\ (reply[r] # None \/ r \in wire)

\* Requests never block each other for good with row locks, with the unique
\* index and with calls to the payments service, which they wait for while
\* they hold one another's rows and connections: unless all that are under
\* way wait for an exhausted pool, one can go on.
OnlyThePoolCanJam ==
    LET Unfinished == {r \in Requests : pc[r] \notin Finished}
    IN  \/ Unfinished = {}
        \/ \E r \in Unfinished : CanGoOn(r)
        \/ ~ ConnectionFree /\ \A r \in Unfinished : NeedsConnection(r)

\* An order is left pending without a message to the worker only when the
\* client was told of an error or of nothing at all, or when the broker's
\* channel lost the message of an order that is paid.
PendingIsAccountedFor ==
    \A r \in Requests :
        status[r] = "pending" /\ pc[r] \in Finished /\ r \notin published =>
            \/ pc[r] = "crashed"
            \/ answer[r].code = "error"
            \/ "publish" \in Faults /\ answer[r].code = "created" /\ payment[r] # None

\* An order moves from pending to processed or to failed and stays there,
\* and a payment once stored is never replaced.
OrderHistory ==
    [][\A r \in Requests :
        /\ status'[r] # status[r] =>
              <<status[r], status'[r]>> \in {<<"none", "pending">>,
                                            <<"pending", "processed">>,
                                            <<"pending", "failed">>}
        /\ payment[r] # None => payment'[r] = payment[r]]_vars

\* Locks, compensation, payment calls and messages implement the book that
\* OrderBook describes: to whoever reads the tables every order is placed,
\* paid, failed or processed in one step, against the stock of that moment.
Book == INSTANCE OrderBook WITH Orders <- Requests

ImplementsBook == Book!Spec

\* Every request is answered, unless the process dies under it.
EveryRequestIsAnswered ==
    \A r \in Requests : <>(pc[r] \in Finished)

\* Every order reaches a final status.
EveryOrderIsDecided ==
    \A r \in Requests :
        Exists(r) ~> status[r] \in {"processed", "failed"}

\* README-hm-micro.md, "Failure / timeout checks": a payment error is
\* answered 503 or 504.
PaymentErrorIsAnswered ==
    \A r \in Requests :
        rpcError[r] # "none" ~> answer[r].code \in {"timeout", "unavailable"}

\* README-hm-micro.md: after a payment error the order is failed.
PaymentErrorFailsOrder ==
    \A r \in Requests :
        rpcError[r] # "none" /\ pc[r] = "done" => status[r] = "failed"

\* README-hm-micro.md: a repeated key is answered with the existing order.
\* Here: no request is told "insufficient stock" once an order with its user
\* and key exists.
RepeatedKeyIsReused ==
    [][\A r \in Requests :
        answer'[r].code = "conflict" /\ answer[r].code = "none"
            => Existing(r) = {}]_vars

====
