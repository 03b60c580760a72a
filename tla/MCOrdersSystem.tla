---- MODULE MCOrdersSystem ----
(* Instances of OrdersSystem for TLC: the requests of MCCheckout. *)
EXTENDS OrdersSystem, TLC

CONSTANTS r1, r2,               \* requests
          pA,                   \* a product
          alice, bob,           \* users
          k1,                   \* an idempotency key
          s1, s2                \* deliveries at once

Order(u, k, n) ==
    [user |-> u, key |-> k, items |-> <<[productId |-> pA, quantity |-> n]>>]

SmallStock == [p \in Products |-> 3]

\* Two users with the same key, and enough stock for both or for one.
SmallInputs ==
    {(r1 :> Order(alice, k1, 1)) @@ (r2 :> Order(bob, k1, n)) : n \in {2, 3}}

====
