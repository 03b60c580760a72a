---- MODULE MCCheckout ----
(***************************************************************************)
(* Instances of Checkout for TLC: three requests at most, two products,    *)
(* two users and two keys, with the requests of each run chosen so that    *)
(* they meet on rows, on keys or on connections.                           *)
(***************************************************************************)
EXTENDS Checkout, TLC

CONSTANTS r1, r2, r3,           \* requests
          pA, pB, pX,           \* products; pX has no row
          alice, bob, stranger, \* users; stranger has no row
          k1, k2                \* idempotency keys

Line(p, n) == [productId |-> p, quantity |-> n]
Order(u, k, items) == [user |-> u, key |-> k, items |-> items]

SmallStock == [p \in Products |-> IF p = pA THEN 3 ELSE 2]

OneA  == <<Line(pA, 1)>>
TwoA  == <<Line(pA, 2)>>
OneB  == <<Line(pB, 1)>>
OneX  == <<Line(pA, 1), Line(pX, 1)>>
AandB == <<Line(pA, 1), Line(pB, 1), Line(pA, 1)>>
BandA == <<Line(pB, 2), Line(pA, 1)>>

\* Orders that meet on the rows of pA and pB; not all of them can be served.
RowInputs ==
    {(r1 :> Order(alice, k1, AandB)) @@ (r2 :> Order(bob, k2, BandA))
     @@ (r3 :> Order(alice, k2, TwoA))}

\* Repeats of a key by its user and by another user, and requests that are
\* turned away; a repeat with another body, which meets no lock of the first.
KeyInputs ==
    {(r1 :> Order(alice, k1, TwoA)) @@ (r2 :> Order(alice, k1, TwoA)) @@ (r3 :> other) :
        other \in {Order(bob, k1, OneA), Order(bob, k1, OneX), Order(stranger, k1, OneA),
                   Order(bob, NoKey, OneA)}}
        \cup {(r1 :> Order(alice, k1, TwoA)) @@ (r2 :> Order(alice, k1, OneB))
              @@ (r3 :> Order(bob, k1, OneA))}

\* Both together.
AllInputs == RowInputs \cup KeyInputs

\* Orders of one product, so that no two transactions can deadlock.
OneRowInputs ==
    {(r1 :> Order(alice, k1, OneA)) @@ (r2 :> Order(alice, k1, OneA))
     @@ (r3 :> Order(bob, k2, third)) : third \in {OneA, TwoA}}

\* Two orders of the same two products.
CrossInputs ==
    {(r1 :> Order(alice, k1, AandB)) @@ (r2 :> Order(bob, k2, BandA))}

\* The same request sent twice.
RepeatInputs ==
    {(r1 :> Order(alice, k1, TwoA)) @@ (r2 :> Order(alice, k1, TwoA))}

\* Two orders of the same product that can both be served.
TwoOrderInputs ==
    {(r1 :> Order(alice, k1, OneA)) @@ (r2 :> Order(bob, k2, TwoA))}

====
