---- MODULE OrdersWorker ----
(***************************************************************************)
(* OrdersWorker.handle and the RabbitMQ topology it runs on: the queues    *)
(* orders.process, orders.retry.5s (a TTL queue that dead-letters back to  *)
(* orders.process) and orders.dlq, at-least-once delivery with a prefetch  *)
(* limit, and the table processed_messages whose primary key makes a       *)
(* redelivered message harmless.                                           *)
(*                                                                         *)
(* createOrder publishes one message per order, so the message id and the  *)
(* order id are one value here; a message is an order with its attempt.    *)
(***************************************************************************)
EXTENDS Integers, FiniteSets

CONSTANTS Orders,       \* orders the API publishes
          Slots,        \* deliveries the channel allows at once: prefetch(10)
          MaxAttempts,  \* ORDERS_MAX_ATTEMPTS
          MaxOutages,   \* bound: crashes, lost connections, failed transactions
          NoMessage,    \* what an idle slot holds
          Faults        \* which failures may happen, see FaultKinds

FaultKinds == {"fail", "db", "crash", "disconnect"}

Messages == Orders \X (0 .. MaxAttempts)

ASSUME AttemptsAssumption == MaxAttempts \in Nat
ASSUME SlotsAssumption == IsFiniteSet(Slots)
ASSUME OutagesAssumption == MaxOutages \in Nat
ASSUME NoMessageAssumption == NoMessage \notin Messages
ASSUME WorkerFaultsAssumption == Faults \subseteq FaultKinds

VARIABLES status,               \* orders.status
          processedMessages,    \* committed rows of processed_messages
          sent,                 \* orders the API has published
          process,              \* orders.process: how many of each message
          retry,                \* orders.retry.5s
          dlq,                  \* orders.dlq
          pc,                   \* where handle is in each slot
          holds,                \* the unacknowledged message of each slot
          failures,             \* how often handling an order was rolled back
          connected,            \* is the worker's channel open?
          outages               \* crashes and outages so far

queueVars == <<process, retry, dlq>>
dbVars    == <<status, processedMessages>>
vars      == <<dbVars, sent, queueVars, pc, holds, failures, connected, outages>>

-----------------------------------------------------------------------------

Empty == [m \in Messages |-> 0]
Put(queue, m)  == [queue EXCEPT ![m] = @ + 1]
Take(queue, m) == [queue EXCEPT ![m] = @ - 1]

OrderOf(m)   == m[1]
AttemptOf(m) == m[2]

\* The places where handle has an open transaction with the row of
\* processed_messages inserted and not committed.
Inserted == {"working", "rollback"}

Places == {"idle", "delivered", "duplicate", "republish", "acking"} \cup Inserted

Go(s, place) == pc' = [pc EXCEPT ![s] = place]

Init ==
    /\ status = [o \in Orders |-> "pending"]
    /\ processedMessages = {}
    /\ sent = {}
    /\ process = Empty
    /\ retry = Empty
    /\ dlq = Empty
    /\ pc = [s \in Slots |-> "idle"]
    /\ holds = [s \in Slots |-> NoMessage]
    /\ failures = [o \in Orders |-> 0]
    /\ connected = TRUE
    /\ outages = 0

-----------------------------------------------------------------------------
(* The API and the broker.                                                 *)

\* createOrder's message: attempt 0, routing key orders.process.
ApiPublishes(o) ==
    /\ o \notin sent
    /\ sent' = sent \cup {o}
    /\ process' = Put(process, <<o, 0>>)
    /\ UNCHANGED <<dbVars, retry, dlq, pc, holds, failures, connected, outages>>

\* The broker delivers while fewer than prefetch messages are unacknowledged.
Deliver(s, m) ==
    /\ connected
    /\ pc[s] = "idle"
    /\ process[m] > 0
    /\ process' = Take(process, m)
    /\ holds' = [holds EXCEPT ![s] = m]
    /\ Go(s, "delivered")
    /\ UNCHANGED <<dbVars, sent, retry, dlq, failures, connected, outages>>

\* The TTL of the retry queue dead-letters to orders.process.
Expire(m) ==
    /\ retry[m] > 0
    /\ retry' = Take(retry, m)
    /\ process' = Put(process, m)
    /\ UNCHANGED <<dbVars, sent, dlq, pc, holds, failures, connected, outages>>

-----------------------------------------------------------------------------
(* handle, for the message in slot s.                                      *)

\* The insert into processed_messages waits for an uncommitted row with the
\* same key; a committed one makes it fail with 23505.
MessageContended(s) ==
    \E t \in Slots \ {s} : /\ pc[t] \in Inserted
                           /\ OrderOf(holds[t]) = OrderOf(holds[s])

\* Mutant: no primary key on messageId.
NeverRecorded(o) == FALSE

Recorded(o) == o \in processedMessages

InsertProcessed(s) ==
    /\ pc[s] = "delivered"
    /\ ~ MessageContended(s)
    /\ Go(s, IF Recorded(OrderOf(holds[s])) THEN "duplicate" ELSE "working")
    /\ UNCHANGED <<dbVars, sent, queueVars, holds, failures, connected, outages>>

\* 23505: roll back, then acknowledge.
RollbackDuplicate(s) ==
    /\ pc[s] = "duplicate"
    /\ Go(s, "acking")
    /\ UNCHANGED <<dbVars, sent, queueVars, holds, failures, connected, outages>>

\* Mutant: the order is not saved.
RecordMessageOnly(o) ==
    processedMessages' = processedMessages \cup {o} /\ UNCHANGED status

\* Mutant: a status that OrderStatus does not have.
RecordOtherStatus(o) ==
    /\ status' = [status EXCEPT ![o] = "completed"]
    /\ processedMessages' = processedMessages \cup {o}

\* The order is set to processed, whatever its status is, and committed
\* together with the row of processed_messages.
Record(o) ==
    /\ status' = [status EXCEPT ![o] = "processed"]
    /\ processedMessages' = processedMessages \cup {o}

Commit(s) ==
    /\ pc[s] = "working"
    /\ Record(OrderOf(holds[s]))
    /\ Go(s, "acking")
    /\ UNCHANGED <<sent, queueVars, holds, failures, connected, outages>>

\* The order is missing, the simulated failure strikes, a statement fails.
WorkFails(s) ==
    /\ "fail" \in Faults
    /\ pc[s] = "working"
    /\ Go(s, "rollback")
    /\ UNCHANGED <<dbVars, sent, queueVars, holds, failures, connected, outages>>

Rollback(s) ==
    /\ pc[s] = "rollback"
    /\ failures' = [failures EXCEPT ![OrderOf(holds[s])] = @ + 1]
    /\ Go(s, "republish")
    /\ UNCHANGED <<dbVars, sent, queueVars, holds, connected, outages>>

\* Mutant: the last attempt is not made.
OneAttemptLess(m) == AttemptOf(m) < MaxAttempts - 1

HasAttemptsLeft(m) == AttemptOf(m) < MaxAttempts

\* Mutant: the last attempt is acknowledged and not dead-lettered.
DropMessage(m) == UNCHANGED dlq

DeadLetter(m) == dlq' = Put(dlq, m)

\* Mutant: the attempt of the republished message is not counted.
SameMessage(m) == m

NextAttempt(m) == <<OrderOf(m), AttemptOf(m) + 1>>

\* A new message with the next attempt, or the dead letter queue.
Republish(s) ==
    /\ connected
    /\ pc[s] = "republish"
    /\ LET m == holds[s] IN
       \/ /\ HasAttemptsLeft(m)
          /\ retry' = Put(retry, NextAttempt(m))
          /\ UNCHANGED dlq
       \/ /\ ~ HasAttemptsLeft(m)
          /\ DeadLetter(m)
          /\ UNCHANGED retry
    /\ Go(s, "acking")
    /\ UNCHANGED <<dbVars, sent, process, holds, failures, connected, outages>>

\* The broker removes the message; the finally block frees the connection.
Ack(s) ==
    /\ connected
    /\ pc[s] = "acking"
    /\ holds' = [holds EXCEPT ![s] = NoMessage]
    /\ Go(s, "idle")
    /\ UNCHANGED <<dbVars, sent, queueVars, failures, connected, outages>>

Outage(kind) ==
    /\ kind \in Faults
    /\ outages < MaxOutages
    /\ outages' = outages + 1

\* connect, startTransaction or rollbackTransaction throws out of handle:
\* consume puts the message back, its attempt unchanged.  A COMMIT whose
\* answer is lost may have taken effect; the rollback after it throws.
NackRequeue(s) ==
    /\ Outage("db")
    /\ connected
    /\ pc[s] \in {"delivered", "duplicate", "working", "rollback"}
    /\ \/ UNCHANGED dbVars
       \/ pc[s] = "working" /\ Record(OrderOf(holds[s]))
    /\ process' = Put(process, holds[s])
    /\ holds' = [holds EXCEPT ![s] = NoMessage]
    /\ Go(s, "idle")
    /\ UNCHANGED <<sent, retry, dlq, failures, connected>>

\* Mutant: consume with noAck, the broker forgets what it delivered.
RequeuedNothing(m) == 0

\* Copies of m that wait for an acknowledgement: the broker puts them back
\* when the connection goes.
Requeued(m) == IF connected THEN Cardinality({s \in Slots : holds[s] = m}) ELSE 0

PutBack == process' = [m \in Messages |-> process[m] + Requeued(m)]

\* The process ends: transactions roll back.  Docker starts a new one, which
\* connects again.
Restart ==
    /\ PutBack
    /\ pc' = [s \in Slots |-> "idle"]
    /\ holds' = [s \in Slots |-> NoMessage]
    /\ connected' = TRUE
    /\ UNCHANGED <<dbVars, sent, retry, dlq, failures>>

Crash == Outage("crash") /\ (\E s \in Slots : pc[s] # "idle") /\ Restart

\* The broker closes the connection in order, which raises no error event:
\* nothing reconnects, and the handlers go on with messages that are back in
\* the queue.
Disconnect ==
    /\ Outage("disconnect")
    /\ connected
    /\ PutBack
    /\ connected' = FALSE
    /\ UNCHANGED <<dbVars, sent, retry, dlq, pc, holds, failures>>

\* Publishing or acknowledging on the closed channel throws, and so does the
\* nack in consume's catch: the rejection is unhandled and Node exits.  With
\* no handler left nothing keeps the process alive either.
Exit ==
    /\ ~ connected
    /\ \/ \E s \in Slots : pc[s] \in {"republish", "acking"}
       \/ \A s \in Slots : pc[s] = "idle"
    /\ Restart
    /\ UNCHANGED outages

\* Nothing is left to publish, to deliver or to retry.
Drained ==
    /\ sent = Orders
    /\ process = Empty /\ retry = Empty
    /\ \A s \in Slots : pc[s] = "idle"
    /\ UNCHANGED vars

-----------------------------------------------------------------------------

Handle(s) ==
    \/ InsertProcessed(s) \/ RollbackDuplicate(s) \/ Commit(s)
    \/ WorkFails(s) \/ Rollback(s) \/ Republish(s) \/ Ack(s)

Next ==
    \/ \E o \in Orders : ApiPublishes(o)
    \/ \E m \in Messages : Expire(m) \/ \E s \in Slots : Deliver(s, m)
    \/ \E s \in Slots : Handle(s) \/ NackRequeue(s)
    \/ Crash \/ Disconnect \/ Exit
    \/ Drained

Spec == Init /\ [][Next]_vars

(* A delivered message is handled, a worker cut off from the broker exits  *)
(* and is restarted, the retry TTL runs out, and a consumer with room gets *)
(* the messages of the queue in turn.  Outages are finitely many.          *)
Fairness ==
    /\ \A s \in Slots : WF_vars(Handle(s))
    /\ WF_vars(Exit)
    /\ \A m \in Messages : /\ WF_vars(Expire(m))
                           /\ SF_vars(\E s \in Slots : Deliver(s, m))

FairSpec == Spec /\ Fairness

-----------------------------------------------------------------------------
(* Properties.                                                             *)

\* Every variable has its type.
TypeOK ==
    /\ status \in [Orders -> {"pending", "processed", "failed"}]
    /\ processedMessages \subseteq Orders
    /\ sent \subseteq Orders
    /\ process \in [Messages -> Nat]
    /\ retry \in [Messages -> Nat]
    /\ dlq \in [Messages -> Nat]
    /\ pc \in [Slots -> Places]
    /\ holds \in [Slots -> Messages \cup {NoMessage}]
    /\ failures \in [Orders -> Nat]
    /\ connected \in BOOLEAN
    /\ outages \in 0 .. MaxOutages

\* A copy of m is somewhere in the broker, unacknowledged ones included.
Alive(m) == process[m] > 0 \/ retry[m] > 0 \/ dlq[m] > 0
            \/ (connected /\ \E s \in Slots : holds[s] = m)

\* An order and its row in processed_messages change together: the worker
\* never records a message without processing its order or the other way
\* round, whatever is redelivered, retried or cut off by a crash.
RecordedIffProcessed ==
    \A o \in Orders : status[o] = "processed" <=> o \in processedMessages

\* A published order that is not processed has a message left somewhere:
\* acknowledgements come after the commit or after the republish.
NoMessageLost ==
    \A o \in sent : o \notin processedMessages =>
        \E m \in Messages : OrderOf(m) = o /\ Alive(m)

\* A message carries attempt n only after n failures of its order, and is
\* dead-lettered only after one more than MaxAttempts.
AttemptsAreFailures ==
    \A m \in Messages :
        /\ Alive(m) => failures[OrderOf(m)] >= AttemptOf(m)
        /\ dlq[m] > 0 => failures[OrderOf(m)] > MaxAttempts

\* Retries are bounded although an outage between republish and acknowledge
\* leaves two copies of a message, each with attempts of its own: an order
\* fails MaxAttempts + 1 times, and as often again for every delivery that an
\* outage may have put back.
RetriesAreBounded ==
    \A o \in Orders :
        failures[o] <= (MaxAttempts + 1) * (1 + outages * Cardinality(Slots))

\* Once an order is processed it stays processed and the handling of its
\* remaining copies changes nothing in the database.
ProcessedOnce ==
    [][\A o \in Orders : status[o] = "processed" =>
          status'[o] = "processed" /\ failures'[o] = failures[o]]_vars

\* Every published order is processed or ends in the dead letter queue.
EveryMessageSettles ==
    \A o \in Orders :
        o \in sent ~> \/ status[o] = "processed"
                      \/ \E m \in Messages : OrderOf(m) = o /\ dlq[m] > 0

====
