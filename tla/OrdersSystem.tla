---- MODULE OrdersSystem ----
(***************************************************************************)
(* The whole path of an order: Checkout and OrdersWorker over one database *)
(* and one broker.  createOrder's publish puts the message into the        *)
(* worker's queue, and the worker's own transaction takes the place of     *)
(* Checkout's WorkerCompletes.                                             *)
(***************************************************************************)
EXTENDS Checkout, FiniteSets

CONSTANTS Slots, MaxAttempts, MaxOutages, NoMessage, WorkerFaults

VARIABLES processedMessages, process, retry, dlq, holds, failures, connected,
          outages,
          handling      \* the worker's pc

ownVars == <<processedMessages, process, retry, dlq, handling, holds, failures,
             connected, outages>>
apiVars == <<input, pc, answer, stock, payment, txVars, rpcVars, paymentsVars>>
systemVars == <<vars, ownVars>>

\* The worker on the tables and messages of the API.
W == INSTANCE OrdersWorker WITH Orders <- Requests, Faults <- WorkerFaults,
                                sent <- published, pc <- handling

\* The part of the orders table that concerns the worker, seen from it: the
\* orders it has been told of, each pending when it is told.
Told == [r \in Requests |-> IF r \in published THEN status[r] ELSE "pending"]

WorkersView == INSTANCE OrdersWorker
                    WITH Orders <- Requests, Faults <- WorkerFaults,
                         sent <- published, pc <- handling, status <- Told

ASSUME WorkerAssumption ==
    /\ MaxAttempts \in Nat /\ MaxOutages \in Nat
    /\ IsFiniteSet(Slots)
    /\ NoMessage \notin W!Messages
    /\ WorkerFaults \subseteq W!FaultKinds

SystemInit == Init /\ WorkersView!Init

-----------------------------------------------------------------------------

\* A statement of createOrder; the publish reaches the broker's queue, or is
\* lost with the channel's buffer.
ApiStep(r) ==
    /\ Step(r)
    /\ IF published' = published THEN UNCHANGED ownVars ELSE W!ApiPublishes(r)

ApiFails(r) == (AuthorizeFails(r) \/ StatementFails(r)) /\ UNCHANGED ownVars

PaymentsAnswer(r) == PaymentsHandle(r) /\ UNCHANGED ownVars

ProcessEnds == (Crash \/ RestartPayments) /\ UNCHANGED ownVars

DeliverTo(s, m) == W!Deliver(s, m) /\ UNCHANGED apiVars
ExpireRetry(m)  == W!Expire(m) /\ UNCHANGED apiVars
WorkerHandles(s) == W!Handle(s) /\ UNCHANGED apiVars

WorkerOutage ==
    /\ W!Crash \/ W!Disconnect \/ W!Exit \/ \E s \in Slots : W!NackRequeue(s)
    /\ UNCHANGED apiVars

\* Every request is finished and every message handled or dead-lettered.
Quiet ==
    /\ \A r \in Requests : pc[r] \in Finished
    /\ wire = {}
    /\ process = W!Empty /\ retry = W!Empty
    /\ \A s \in Slots : handling[s] = "idle"
    /\ UNCHANGED systemVars

SystemNext ==
    \/ \E r \in Requests : ApiStep(r) \/ ApiFails(r) \/ PaymentsAnswer(r)
    \/ ProcessEnds
    \/ \E m \in W!Messages : \/ ExpireRetry(m)
                             \/ \E s \in Slots : DeliverTo(s, m)
    \/ \E s \in Slots : WorkerHandles(s)
    \/ WorkerOutage
    \/ Quiet

SystemSpec == SystemInit /\ [][SystemNext]_systemVars

\* As in Checkout and OrdersWorker.
SystemFairness ==
    /\ \A r \in Requests : /\ WF_systemVars(ApiStep(r))
                           /\ WF_systemVars(AuthorizeFails(r) /\ UNCHANGED ownVars)
    /\ \A s \in Slots : WF_systemVars(WorkerHandles(s))
    /\ \A m \in W!Messages :
           /\ WF_systemVars(ExpireRetry(m))
           /\ SF_systemVars(\E s \in Slots : DeliverTo(s, m))
    /\ WF_systemVars(W!Exit /\ UNCHANGED apiVars)

FairSystemSpec == SystemSpec /\ SystemFairness

-----------------------------------------------------------------------------
(* Properties.                                                             *)

\* The system behaves to its clients and to the tables as Checkout says:
\* the worker of Checkout, which processes any published order at any time,
\* allows all that redelivery, retries and outages really do.
ImplementsCheckout == Spec

\* To the worker the API is one that publishes each order once, pending, and
\* touches neither the order nor its message again.
ImplementsWorker == WorkersView!Spec

\* A message in the broker is about an order that exists, is paid and was
\* not failed: handle never meets "Order not found" and never processes an
\* order whose stock was given back.
MessageFindsPaidOrder ==
    \A m \in W!Messages : W!Alive(m) =>
        LET r == W!OrderOf(m)
        IN  status[r] \in {"pending", "processed"} /\ payment[r] # None

\* An order whose client was told 201 is processed or has a message in the
\* broker, the dead letter queue included, whatever the broker redelivers and
\* whenever the worker dies; only the channel's buffer can lose it before.
CreatedOrderIsCarried ==
    \A r \in Requests : answer[r].code = "created" =>
        \/ status[r] = "processed"
        \/ \E m \in W!Messages : W!OrderOf(m) = r /\ W!Alive(m)
        \/ "publish" \in Faults /\ r \notin published

\* Every order is failed, processed, or left in the dead letter queue; none
\* is forgotten between the API, the broker and the worker.
EveryOrderSettles ==
    \A r \in Requests :
        Exists(r) ~> \/ status[r] \in {"processed", "failed"}
                     \/ \E m \in W!Messages : W!OrderOf(m) = r /\ dlq[m] > 0

====
