---- MODULE PaymentsStore ----
(***************************************************************************)
(* The payments service: two in-memory maps behind the gRPC method         *)
(* Authorize.  A payment id (a random UUID in the code) is named after the *)
(* order the record was created for: the orders service calls Authorize    *)
(* once per order, so no order creates two records.                        *)
(***************************************************************************)
CONSTANTS Requests,     \* orders that may be paid for
          Keys,         \* idempotency keys
          None          \* "no value" (undefined, NULL)

ASSUME NoneAssumption == None \notin Requests

VARIABLES byId,                 \* payments on record
          byIdempotencyKey      \* key -> payment id, or None

paymentsVars == <<byId, byIdempotencyKey>>

PaymentsTypeOK ==
    /\ byId \subseteq Requests
    /\ byIdempotencyKey \in [Keys -> Requests \cup {None}]

PaymentsInit ==
    /\ byId = {}
    /\ byIdempotencyKey = [k \in Keys |-> None]

\* Mutant: any payment on record is taken for the one of the key.
AuthorizedPaymentOfAnyKey(order, key) ==
    IF byId # {} THEN CHOOSE id \in byId : TRUE ELSE order

\* The record authorize(order, key) answers with: the one stored under the
\* key when there is one, else a new one.
AuthorizedPayment(order, key) ==
    IF byIdempotencyKey[key] \in byId THEN byIdempotencyKey[key] ELSE order

Authorize(order, key) ==
    /\ byId' = byId \cup {AuthorizedPayment(order, key)}
    /\ byIdempotencyKey' =
           [byIdempotencyKey EXCEPT ![key] = AuthorizedPayment(order, key)]

\* A restart of the process loses both maps.
PaymentsRestart ==
    /\ byId # {}
    /\ byId' = {}
    /\ byIdempotencyKey' = [k \in Keys |-> None]

====
