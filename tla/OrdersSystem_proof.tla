---- MODULE OrdersSystem_proof ----
(***************************************************************************)
(* OrdersSystem implements Checkout: what the broker and the worker do to  *)
(* the orders table, with their queues, attempts and outages, is what      *)
(* Checkout's WorkerCompletes says.  The argument is that every copy of a  *)
(* message, wherever it is, is about a published order.                    *)
(***************************************************************************)
EXTENDS OrdersSystem, Checkout_proof, FiniteSetTheorems

USE DEF apiVars, ownVars, txVars, rpcVars, paymentsVars, dbVars, Unlocked, RowFree,
        CommittedStatus

\* A copy of m is in a queue or in the hands of a handler, acknowledged to a
\* closed channel or not.
Traced(m) ==
    \/ process[m] > 0 \/ retry[m] > 0 \/ dlq[m] > 0
    \/ \E s \in Slots : holds[s] = m

Tracked ==
    /\ process \in [W!Messages -> Nat]
    /\ retry \in [W!Messages -> Nat]
    /\ dlq \in [W!Messages -> Nat]
    /\ holds \in [Slots -> W!Messages \cup {NoMessage}]
    /\ handling \in [Slots -> W!Places]
    /\ \A s \in Slots : handling[s] # "idle" => holds[s] # NoMessage
    /\ \A m \in W!Messages : Traced(m) => W!OrderOf(m) \in published

SystemInv == IInv /\ Tracked

\* The instance counts as FiniteSets does.
LEMMA SameCount ==
    ASSUME NEW S, IsFiniteSet(S)
    PROVE  W!Cardinality(S) \in Nat /\ (W!Cardinality(S) > 0 => S # {})
<1>1. W!Cardinality(S) = Cardinality(S)
  BY DEF W!Cardinality, Cardinality
<1>2. Cardinality(S) \in Nat /\ (S = {} => Cardinality(S) = 0)
  BY FS_CardinalityType, FS_EmptySet
<1> QED BY <1>1, <1>2

\* What the broker puts back was held by a handler.
LEMMA PutBackTracked ==
    ASSUME Tracked, W!PutBack
    PROVE  /\ process' \in [W!Messages -> Nat]
           /\ \A m \in W!Messages : process'[m] > 0 => Traced(m)
<1>1. ASSUME NEW m \in W!Messages
      PROVE  /\ W!Requeued(m) \in Nat
             /\ W!Requeued(m) > 0 => \E s \in Slots : holds[s] = m
  <2>1. IsFiniteSet({s \in Slots : holds[s] = m})
    BY WorkerAssumption, FS_Subset
  <2> QED BY <2>1, SameCount DEF W!Requeued
<1> QED BY <1>1 DEF W!PutBack, Tracked, Traced

LEMMA TrackedInit == SystemInit => SystemInv
<1>1. SystemInit => Tracked
  BY WorkerAssumption
  DEF SystemInit, WorkersView!Init, WorkersView!Empty, WorkersView!Messages, Tracked,
      Traced, W!Messages, W!Places
<1> QED BY <1>1, IInvInit DEF SystemInit, SystemInv

\* The API's steps: only the publish tells the broker of an order.
LEMMA ApiTracked ==
    ASSUME Tracked, NEW r \in Requests, ApiStep(r)
    PROVE  Tracked'
<1>1. CASE UNCHANGED ownVars /\ published' = published
  BY <1>1 DEF Tracked, Traced
<1>2. CASE W!ApiPublishes(r)
  <2>1. <<r, 0>> \in W!Messages
    BY WorkerAssumption DEF W!Messages
  <2> QED BY <1>2, <2>1 DEF W!ApiPublishes, W!Put, Tracked, Traced, W!OrderOf, W!dbVars
<1> QED BY <1>1, <1>2 DEF ApiStep

-----------------------------------------------------------------------------
(* The worker's steps.                                                     *)

WorkerStep ==
    \/ \E m \in W!Messages : ExpireRetry(m) \/ \E s \in Slots : DeliverTo(s, m)
    \/ \E s \in Slots : WorkerHandles(s)
    \/ WorkerOutage

LEMMA WorkerTracked ==
    ASSUME Tracked, WorkerStep
    PROVE  Tracked'
<1> USE DEF Tracked, Traced, W!Go, W!Places, W!Inserted, W!dbVars, W!queueVars
<1>o. \A s \in Slots : handling[s] # "idle" =>
          holds[s] \in W!Messages /\ W!OrderOf(holds[s]) \in published
  OBVIOUS
<1>1. ASSUME NEW m \in W!Messages, ExpireRetry(m) PROVE Tracked'
  BY <1>1 DEF ExpireRetry, W!Expire, W!Put, W!Take
<1>2. ASSUME NEW m \in W!Messages, NEW s \in Slots, DeliverTo(s, m) PROVE Tracked'
  BY <1>2, WorkerAssumption DEF DeliverTo, W!Deliver, W!Take
<1>3. ASSUME NEW s \in Slots, W!Handle(s) PROVE Tracked'
  <2>1. CASE W!InsertProcessed(s)
    BY <2>1 DEF W!InsertProcessed
  <2>2. CASE W!RollbackDuplicate(s)
    BY <2>2 DEF W!RollbackDuplicate
  <2>3. CASE W!Commit(s)
    BY <2>3 DEF W!Commit
  <2>4. CASE W!WorkFails(s)
    BY <2>4 DEF W!WorkFails
  <2>5. CASE W!Rollback(s)
    BY <2>5 DEF W!Rollback
  <2>6. CASE W!Republish(s)
    <3> DEFINE m == holds[s]
               n == W!NextAttempt(m)
    <3>1. m \in W!Messages /\ W!OrderOf(m) \in published
      BY <1>o, <2>6 DEF W!Republish
    <3>2. CASE W!HasAttemptsLeft(m)
      <4>1. n \in W!Messages /\ W!OrderOf(n) = W!OrderOf(m)
        BY <3>1, <3>2, WorkerAssumption
        DEF W!Messages, W!OrderOf, W!AttemptOf, W!NextAttempt, W!HasAttemptsLeft
      <4> QED BY <2>6, <3>1, <3>2, <4>1 DEF W!Republish, W!Put
    <3>3. CASE ~ W!HasAttemptsLeft(m)
      BY <2>6, <3>1, <3>3 DEF W!Republish, W!DeadLetter, W!Put
    <3> QED BY <3>2, <3>3
  <2>7. CASE W!Ack(s)
    BY <2>7, WorkerAssumption DEF W!Ack
  <2> QED BY <1>3, <2>1, <2>2, <2>3, <2>4, <2>5, <2>6, <2>7 DEF W!Handle
<1>4. ASSUME NEW s \in Slots, W!NackRequeue(s) PROVE Tracked'
  BY <1>4, <1>o, WorkerAssumption DEF W!NackRequeue, W!Put
<1>5. CASE W!Crash \/ W!Exit
  BY <1>5, PutBackTracked, WorkerAssumption DEF W!Crash, W!Exit, W!Restart
<1>6. CASE W!Disconnect
  BY <1>6, PutBackTracked DEF W!Disconnect
<1> QED BY <1>1, <1>2, <1>3, <1>4, <1>5, <1>6
        DEF WorkerStep, WorkerHandles, WorkerOutage

\* The worker's commit is WorkerCompletes; its other steps, and the commit of
\* an order already processed, leave Checkout's variables alone.
LEMMA WorkerRefines ==
    ASSUME SystemInv, WorkerStep
    PROVE  [Next]_vars
<1> USE DEF W!dbVars, vars
<1>1. ASSUME NEW s \in Slots, handling[s] # "idle", W!Record(W!OrderOf(holds[s])),
             UNCHANGED <<apiVars, published>>
      PROVE  [Next]_vars
  <2> DEFINE r == W!OrderOf(holds[s])
  <2>1. r \in Requests /\ r \in published /\ status' = [status EXCEPT ![r] = "processed"]
    BY <1>1 DEF W!Record, SystemInv, Tracked, Traced, IInv, TypeOK
  <2>2. CASE status[r] = "processed"
    <3>1. status' = status
      BY <2>1, <2>2 DEF SystemInv, IInv, TypeOK
    <3> QED BY <1>1, <3>1
  <2>3. CASE status[r] # "processed"
    <3>1. WorkerCompletes(r)
      BY <1>1, <2>1, <2>3 DEF WorkerCompletes
    <3> QED BY <2>1, <3>1 DEF Next
  <2> QED BY <2>2, <2>3
<1>2. CASE \E m \in W!Messages : ExpireRetry(m) \/ \E s \in Slots : DeliverTo(s, m)
  BY <1>2 DEF ExpireRetry, DeliverTo, W!Expire, W!Deliver
<1>3. ASSUME NEW s \in Slots, WorkerHandles(s) PROVE [Next]_vars
  <2>1. CASE W!Commit(s)
    BY <1>1, <1>3, <2>1 DEF WorkerHandles, W!Commit
  <2>2. CASE ~ W!Commit(s)
    BY <1>3, <2>2
    DEF WorkerHandles, W!Handle, W!InsertProcessed, W!RollbackDuplicate, W!WorkFails,
        W!Rollback, W!Republish, W!Ack
  <2> QED BY <2>1, <2>2
<1>4. ASSUME NEW s \in Slots, W!NackRequeue(s), UNCHANGED apiVars PROVE [Next]_vars
  <2>1. CASE status' = status
    BY <1>4, <2>1 DEF W!NackRequeue
  <2>2. CASE W!Record(W!OrderOf(holds[s])) /\ handling[s] = "working"
    BY <1>1, <1>4, <2>2 DEF W!NackRequeue
  <2> QED BY <1>4, <2>1, <2>2 DEF W!NackRequeue
<1>5. CASE (W!Crash \/ W!Disconnect \/ W!Exit) /\ UNCHANGED apiVars
  BY <1>5 DEF W!Crash, W!Disconnect, W!Exit, W!Restart
<1> QED BY <1>2, <1>3, <1>4, <1>5 DEF WorkerStep, WorkerOutage

LEMMA SystemStep ==
    SystemInv /\ [SystemNext]_systemVars => [Next]_vars /\ SystemInv'
<1> SUFFICES ASSUME SystemInv, [SystemNext]_systemVars PROVE [Next]_vars /\ Tracked'
  BY IInvStep DEF SystemInv
<1>1. ASSUME NEW r \in Requests, ApiStep(r) PROVE [Next]_vars /\ Tracked'
  BY <1>1, ApiTracked DEF ApiStep, Next, SystemInv
<1>2. ASSUME NEW r \in Requests, ApiFails(r) \/ PaymentsAnswer(r)
      PROVE  [Next]_vars /\ Tracked'
  <2>1. Next
    BY <1>2 DEF ApiFails, PaymentsAnswer, Next
  <2>2. UNCHANGED <<ownVars, published>>
    BY <1>2 DEF ApiFails, PaymentsAnswer, AuthorizeFails, StatementFails, PaymentsHandle
  <2> QED BY <2>1, <2>2 DEF Tracked, Traced, SystemInv
<1>3. CASE ProcessEnds
  <2>1. Next
    BY <1>3 DEF ProcessEnds, Next
  <2>2. UNCHANGED <<ownVars, published>>
    BY <1>3 DEF ProcessEnds, Crash, RestartPayments
  <2> QED BY <2>1, <2>2 DEF Tracked, Traced, SystemInv
<1>4. CASE WorkerStep
  BY <1>4, WorkerTracked, WorkerRefines DEF SystemInv
<1>5. CASE UNCHANGED systemVars
  BY <1>5 DEF systemVars, vars, Tracked, Traced, SystemInv
<1> QED BY <1>1, <1>2, <1>3, <1>4, <1>5 DEF SystemNext, WorkerStep, Quiet

LEMMA SystemInductive == SystemSpec => []SystemInv
BY TrackedInit, SystemStep, PTL DEF SystemSpec

\* The whole system, with the broker, the redeliveries, the retries and the
\* outages of the worker, is a Checkout.
THEOREM SystemImplementsCheckout == SystemSpec => ImplementsCheckout
<1>1. SystemInit => Init
  BY DEF SystemInit
<1> QED BY <1>1, SystemStep, SystemInductive, PTL DEF SystemSpec, ImplementsCheckout, Spec

\* A message is only ever about a paid order that was not failed.
THEOREM MessagesFindPaidOrders == SystemSpec => []MessageFindsPaidOrder
<1>1. SystemInv => MessageFindsPaidOrder
  BY DEF SystemInv, IInv, TypeOK, StatusInv, Tracked, Traced, W!Alive, MessageFindsPaidOrder
<1> QED BY <1>1, SystemInductive, PTL

\* With the worker's queues and outages too, stock is conserved.
THEOREM SystemConservesStock == SystemSpec => []StockConserved
BY SystemImplementsCheckout, StockIsConserved, PTL DEF ImplementsCheckout

-----------------------------------------------------------------------------
(* The API is the environment OrdersWorker assumes.                        *)

\* What the worker sees of an order does not change at the API's hands: it is
\* pending when it is published, and its request is over by then.
LEMMA ApiSeen ==
    ASSUME IInv, NEW r \in Requests, Step(r)
    PROVE  Told' = Told
<1> USE DEF IInv, TypeOK, StatusInv, Told
<1>1. CASE CommitOrder(r)
  <2>1. r \notin published /\ published' = published
    BY <1>1 DEF CommitOrder
  <2>2. \A q \in Requests \ {r} : status'[q] = status[q]
    BY <1>1 DEF CommitOrder
  <2> QED BY <2>1, <2>2
<1>2. CASE CommitFail(r)
  <2>1. r \notin published /\ published' = published
    BY <1>2 DEF CommitFail
  <2>2. \A q \in Requests \ {r} : status'[q] = status[q]
    BY <1>2 DEF CommitFail
  <2> QED BY <2>1, <2>2
<1>3. CASE Publish(r)
  BY <1>3 DEF Publish, Unordered, Paying
<1>4. CASE ~ CommitOrder(r) /\ ~ CommitFail(r) /\ ~ Publish(r)
  <2>1. status' = status /\ published' = published
    BY <1>4
    DEF Step, Arrive, Connect, FindExisting, BuildPlan, InsertOrder, FindDuplicate,
        CallAuthorize, ReceiveReply, RecordPayment, FailOrder, DeadlockAbort, LockRow,
        AwaitRow
  <2> QED BY <2>1
<1> QED BY <1>1, <1>2, <1>3, <1>4

\* An order is published once: its request is over afterwards.
LEMMA PublishedOnce ==
    ASSUME IInv, NEW r \in Requests, Step(r), published' # published
    PROVE  r \notin published /\ published' = published \cup {r}
<1>1. Publish(r)
  BY DEF Step, Arrive, Connect, FindExisting, BuildPlan, InsertOrder, FindDuplicate,
         CallAuthorize, ReceiveReply, RecordPayment, FailOrder, DeadlockAbort, LockRow,
         AwaitRow, CommitOrder, CommitFail
<1> QED BY <1>1 DEF Publish, IInv, StatusInv

\* The view's queues, messages and places are the worker's.
LEMMA SameQueues ==
    /\ WorkersView!Messages = W!Messages
    /\ \A queue, m : /\ WorkersView!Put(queue, m) = W!Put(queue, m)
                     /\ WorkersView!Take(queue, m) = W!Take(queue, m)
    /\ \A m : /\ WorkersView!OrderOf(m) = W!OrderOf(m)
              /\ WorkersView!AttemptOf(m) = W!AttemptOf(m)
    /\ WorkersView!Inserted = W!Inserted
BY DEF WorkersView!Messages, W!Messages, WorkersView!Put, W!Put, WorkersView!Take,
       W!Take, WorkersView!OrderOf, W!OrderOf, WorkersView!AttemptOf, W!AttemptOf,
       WorkersView!Inserted, W!Inserted

LEMMA SamePutBack == W!PutBack => WorkersView!PutBack
<1>1. \A S : WorkersView!Cardinality(S) = W!Cardinality(S)
  BY DEF W!Cardinality, WorkersView!Cardinality
<1>2. \A m : WorkersView!Requeued(m) = W!Requeued(m)
  BY <1>1 DEF W!Requeued, WorkersView!Requeued
<1> QED BY <1>2, SameQueues DEF W!PutBack, WorkersView!PutBack

\* Recording a published order is recording it in the view.
LEMMA RecordSeen ==
    ASSUME IInv, NEW r \in published, W!Record(r), published' = published
    PROVE  WorkersView!Record(r)
BY DEF IInv, TypeOK, Told, W!Record, WorkersView!Record

LEMMA WorkerSeen ==
    ASSUME SystemInv, WorkerStep
    PROVE  WorkersView!Next
<1> USE SameQueues DEF W!dbVars, W!queueVars, WorkersView!dbVars, WorkersView!queueVars
<1>told. published' = published /\ status' = status => Told' = Told
  BY DEF Told
<1>o. \A s \in Slots : handling[s] # "idle" => W!OrderOf(holds[s]) \in published
  BY DEF SystemInv, Tracked, Traced
<1>1. ASSUME NEW m \in W!Messages, ExpireRetry(m) PROVE WorkersView!Expire(m)
  BY <1>1, <1>told DEF ExpireRetry, W!Expire, WorkersView!Expire
<1>2. ASSUME NEW m \in W!Messages, NEW s \in Slots, DeliverTo(s, m)
      PROVE  WorkersView!Deliver(s, m)
  BY <1>2, <1>told DEF DeliverTo, W!Deliver, WorkersView!Deliver, W!Go, WorkersView!Go
<1>3. ASSUME NEW s \in Slots, W!Handle(s) PROVE WorkersView!Handle(s)
  <2> USE DEF W!Go, WorkersView!Go
  <2>1. CASE W!InsertProcessed(s)
    <3>1. WorkersView!InsertProcessed(s)
      BY <2>1, <1>told
      DEF W!InsertProcessed, W!MessageContended, W!Recorded,
          WorkersView!InsertProcessed, WorkersView!MessageContended, WorkersView!Recorded
    <3> QED BY <3>1 DEF WorkersView!Handle
  <2>2. CASE W!RollbackDuplicate(s)
    <3>1. WorkersView!RollbackDuplicate(s)
      BY <2>2, <1>told DEF W!RollbackDuplicate, WorkersView!RollbackDuplicate
    <3> QED BY <3>1 DEF WorkersView!Handle
  <2>3. CASE W!Commit(s)
    <3>1. WorkersView!Record(W!OrderOf(holds[s]))
      BY <2>3, <1>o, RecordSeen DEF W!Commit, SystemInv
    <3>2. WorkersView!Commit(s)
      BY <2>3, <3>1 DEF W!Commit, WorkersView!Commit
    <3> QED BY <3>2 DEF WorkersView!Handle
  <2>4. CASE W!WorkFails(s)
    <3>1. WorkersView!WorkFails(s)
      BY <2>4, <1>told DEF W!WorkFails, WorkersView!WorkFails
    <3> QED BY <3>1 DEF WorkersView!Handle
  <2>5. CASE W!Rollback(s)
    <3>1. WorkersView!Rollback(s)
      BY <2>5, <1>told DEF W!Rollback, WorkersView!Rollback
    <3> QED BY <3>1 DEF WorkersView!Handle
  <2>6. CASE W!Republish(s)
    <3>1. WorkersView!Republish(s)
      BY <2>6, <1>told
      DEF W!Republish, W!HasAttemptsLeft, W!DeadLetter, W!NextAttempt,
          WorkersView!Republish, WorkersView!HasAttemptsLeft, WorkersView!DeadLetter,
          WorkersView!NextAttempt
    <3> QED BY <3>1 DEF WorkersView!Handle
  <2>7. CASE W!Ack(s)
    <3>1. WorkersView!Ack(s)
      BY <2>7, <1>told DEF W!Ack, WorkersView!Ack
    <3> QED BY <3>1 DEF WorkersView!Handle
  <2> QED BY <1>3, <2>1, <2>2, <2>3, <2>4, <2>5, <2>6, <2>7 DEF W!Handle
<1>4. ASSUME NEW s \in Slots, W!NackRequeue(s) PROVE WorkersView!NackRequeue(s)
  <2>1. published' = published
    BY <1>4 DEF W!NackRequeue
  <2>2. \/ UNCHANGED W!dbVars
        \/ handling[s] = "working" /\ W!Record(W!OrderOf(holds[s]))
    BY <1>4 DEF W!NackRequeue
  <2>3. W!Record(W!OrderOf(holds[s])) /\ handling[s] = "working"
        => WorkersView!Record(W!OrderOf(holds[s]))
    BY <1>o, <2>1, RecordSeen DEF SystemInv
  <2>4. \/ UNCHANGED WorkersView!dbVars
        \/ handling[s] = "working" /\ WorkersView!Record(W!OrderOf(holds[s]))
    BY <1>told, <2>1, <2>2, <2>3
  <2> QED BY <1>4, <2>4
          DEF W!NackRequeue, W!Outage, W!Go,
              WorkersView!NackRequeue, WorkersView!Outage, WorkersView!Go
<1>r. W!Restart => WorkersView!Restart
  BY <1>told, SamePutBack DEF W!Restart, WorkersView!Restart
<1>5. W!Crash => WorkersView!Crash
  BY <1>r DEF W!Crash, W!Outage, WorkersView!Crash, WorkersView!Outage
<1>6. W!Exit => WorkersView!Exit
  BY <1>r DEF W!Exit, WorkersView!Exit
<1>7. W!Disconnect => WorkersView!Disconnect
  BY <1>told, SamePutBack
  DEF W!Disconnect, W!Outage, WorkersView!Disconnect, WorkersView!Outage
<1> QED BY <1>1, <1>2, <1>3, <1>4, <1>5, <1>6, <1>7
        DEF WorkerStep, WorkerHandles, WorkerOutage, WorkersView!Next

LEMMA WorkerStepSeen ==
    SystemInv /\ [SystemNext]_systemVars => [WorkersView!Next]_(WorkersView!vars)
<1> SUFFICES ASSUME SystemInv, [SystemNext]_systemVars
             PROVE  WorkersView!Next \/ UNCHANGED WorkersView!vars
  OBVIOUS
<1> USE DEF WorkersView!vars, WorkersView!dbVars, WorkersView!queueVars
<1>told. published' = published /\ status' = status => Told' = Told
  BY DEF Told
<1>1. ASSUME NEW r \in Requests, ApiStep(r)
      PROVE  WorkersView!Next \/ UNCHANGED WorkersView!vars
  <2>1. Step(r) /\ Told' = Told
    BY <1>1, ApiSeen DEF ApiStep, SystemInv
  <2>2. CASE published' = published
    BY <1>1, <2>1, <2>2 DEF ApiStep
  <2>3. CASE published' # published
    <3>1. W!ApiPublishes(r)
      BY <1>1, <2>3 DEF ApiStep
    <3>2. WorkersView!ApiPublishes(r)
      BY <2>1, <3>1, SameQueues DEF W!ApiPublishes, W!dbVars, WorkersView!ApiPublishes
    <3> QED BY <3>2 DEF WorkersView!Next
  <2> QED BY <2>2, <2>3
<1>2. ASSUME NEW r \in Requests, ApiFails(r) \/ PaymentsAnswer(r)
      PROVE  UNCHANGED WorkersView!vars
  BY <1>2, <1>told
  DEF ApiFails, PaymentsAnswer, AuthorizeFails, StatementFails, PaymentsHandle
<1>3. ProcessEnds => UNCHANGED WorkersView!vars
  BY <1>told DEF ProcessEnds, Crash, RestartPayments
<1>4. WorkerStep => WorkersView!Next
  BY WorkerSeen
<1>5. UNCHANGED systemVars => UNCHANGED WorkersView!vars
  BY <1>told DEF systemVars, vars
<1> QED BY <1>1, <1>2, <1>3, <1>4, <1>5 DEF SystemNext, WorkerStep, Quiet

\* createOrder publishes each order once, pending, and never touches it
\* again: the worker runs in the environment it was verified in.
THEOREM SystemImplementsWorker == SystemSpec => ImplementsWorker
<1>1. SystemInit => WorkersView!Init
  BY DEF SystemInit
<1> QED BY <1>1, WorkerStepSeen, SystemInductive, PTL
        DEF SystemSpec, ImplementsWorker, WorkersView!Spec

-----------------------------------------------------------------------------
(* What is proved of the parts holds in the whole.                         *)

\* The theorems of OrdersWorker_proof about the view.
WP == INSTANCE OrdersWorker_proof
          WITH Orders <- Requests, Faults <- WorkerFaults,
               sent <- published, pc <- handling, status <- Told

\* They are about the specification that ImplementsWorker names.
LEMMA SameWorker == WorkersView!Spec => WP!Spec
<1>1. WorkersView!Init => WP!Init
  BY DEF WorkersView!Init, WorkersView!Empty, WorkersView!Messages, WP!Init, WP!Empty,
         WP!Messages
<1>2. \A S : WorkersView!Cardinality(S) = WP!Cardinality(S)
  BY DEF WorkersView!Cardinality, WP!Cardinality
<1>3. [WorkersView!Next]_(WorkersView!vars) => [WP!Next]_(WP!vars)
  BY <1>2
  DEF WorkersView!Messages, WorkersView!vars, WorkersView!dbVars,
      WorkersView!queueVars, WorkersView!Empty, WorkersView!Put, WorkersView!Take,
      WorkersView!OrderOf, WorkersView!AttemptOf, WorkersView!NextAttempt,
      WorkersView!Inserted,
      WorkersView!Go, WorkersView!ApiPublishes, WorkersView!Deliver,
      WorkersView!Expire, WorkersView!MessageContended, WorkersView!Recorded,
      WorkersView!InsertProcessed, WorkersView!RollbackDuplicate,
      WorkersView!Record, WorkersView!Commit, WorkersView!WorkFails,
      WorkersView!Rollback, WorkersView!HasAttemptsLeft, WorkersView!DeadLetter,
      WorkersView!Republish, WorkersView!Ack, WorkersView!Outage,
      WorkersView!NackRequeue, WorkersView!Requeued, WorkersView!PutBack,
      WorkersView!Restart, WorkersView!Crash, WorkersView!Disconnect,
      WorkersView!Exit, WorkersView!Drained, WorkersView!Handle, WorkersView!Next,
      WP!Messages, WP!vars, WP!dbVars, WP!queueVars, WP!Empty, WP!Put, WP!Take,
      WP!OrderOf, WP!AttemptOf, WP!NextAttempt, WP!Inserted, WP!Go, WP!ApiPublishes, WP!Deliver,
      WP!Expire, WP!MessageContended, WP!Recorded, WP!InsertProcessed,
      WP!RollbackDuplicate, WP!Record, WP!Commit, WP!WorkFails, WP!Rollback,
      WP!HasAttemptsLeft, WP!DeadLetter, WP!Republish, WP!Ack, WP!Outage,
      WP!NackRequeue, WP!Requeued, WP!PutBack, WP!Restart, WP!Crash, WP!Disconnect,
      WP!Exit, WP!Drained, WP!Handle, WP!Next
<1> QED BY <1>1, <1>3, PTL DEF WorkersView!Spec, WP!Spec

\* The constants are as OrdersWorker assumes them.
LEMMA SameAssumptions ==
    /\ MaxAttempts \in Nat /\ MaxOutages \in Nat
    /\ WP!IsFiniteSet(Slots)
    /\ NoMessage \notin WP!Messages
    /\ WorkerFaults \subseteq WP!FaultKinds
BY WorkerAssumption
DEF W!Messages, W!FaultKinds, WP!Messages, WP!FaultKinds, IsFiniteSet, WP!IsFiniteSet

\* No order that a client was told of with 201 is forgotten on its way.
THEOREM CreatedOrdersAreCarried == SystemSpec => []CreatedOrderIsCarried
<1>1. WorkersView!Spec => [](WP!NoMessageLost /\ WP!RecordedIffProcessed)
  <2>1. WP!Spec => []WP!NoMessageLost
    BY SameAssumptions, WP!MessagesSurvive
  <2>2. WP!Spec => []WP!RecordedIffProcessed
    BY SameAssumptions, WP!WorkIsRecorded
  <2> QED BY <2>1, <2>2, SameWorker, PTL
<1>2. /\ SystemInv /\ WP!NoMessageLost /\ WP!RecordedIffProcessed
      => CreatedOrderIsCarried
  <2> SUFFICES ASSUME SystemInv, WP!NoMessageLost, WP!RecordedIffProcessed,
                      NEW r \in published, status[r] # "processed"
               PROVE  \E m \in W!Messages : W!OrderOf(m) = r /\ W!Alive(m)
    BY DEF SystemInv, IInv, CreatedInv, CreatedOrderIsCarried
  <2>1. r \in Requests /\ Told[r] = status[r]
    BY DEF SystemInv, IInv, TypeOK, Told
  <2>2. PICK m \in WP!Messages : WP!OrderOf(m) = r /\ WP!Alive(m)
    BY <2>1 DEF WP!NoMessageLost, WP!RecordedIffProcessed
  <2> QED BY <2>2 DEF WP!Messages, W!Messages, WP!OrderOf, W!OrderOf, WP!Alive, W!Alive
<1> QED BY <1>1, <1>2, SystemImplementsWorker, SystemInductive, PTL DEF ImplementsWorker

\* Queues, redeliveries, retries and outages included, the tables change
\* only as the order book allows.
THEOREM SystemImplementsBook == SystemSpec => ImplementsBook
BY SystemImplementsCheckout, CheckoutImplementsBook DEF ImplementsCheckout

\* The worker's guarantees hold behind the real API: attempts count failures
\* and are bounded, and a processed order stays so.
THEOREM WorkerKeepsItsPromises ==
    SystemSpec => /\ []WP!AttemptsAreFailures
                  /\ []WP!RetriesAreBounded
                  /\ WP!ProcessedOnce
<1>1. WP!Spec => []WP!AttemptsAreFailures
  BY SameAssumptions, WP!AttemptsCountFailures
<1>2. WP!Spec => []WP!RetriesAreBounded
  BY SameAssumptions, WP!RetriesEnd
<1>3. WP!Spec => WP!ProcessedOnce
  BY SameAssumptions, WP!OrdersAreProcessedOnce
<1> QED BY <1>1, <1>2, <1>3, SameWorker, SystemImplementsWorker, PTL DEF ImplementsWorker

\* The API's guarantees hold with the real worker behind it.
THEOREM ApiKeepsItsPromises ==
    SystemSpec => /\ [](NeverOversold /\ OneOrderPerKey /\ PaymentErrorIsFinal)
                  /\ [](RejectionLeavesNoTrace /\ ReuseAnswersOwnOrder)
                  /\ [](OnlyThePoolCanJam /\ PendingIsAccountedFor)
                  /\ []PaymentHeldIsAccountedFor
                  /\ OrderHistory
BY SystemImplementsCheckout, StockIsNeverOversold, KeysAreUnique, PaymentErrorsAreFinal,
   RejectionsLeaveNoTrace, RepeatsGetTheirOwnOrder, OnlyThePoolJams,
   PendingOrdersAreAccountedFor, HeldPaymentsAreAccountedFor, OrdersKeepTheirHistory, PTL
DEF ImplementsCheckout

====
