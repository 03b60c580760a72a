---- MODULE OrderBook ----
(***************************************************************************)
(* What the tables orders and products promise to whoever reads them,      *)
(* without requests, locks, calls or messages: an order is placed in one   *)
(* step that takes all its units or none, is paid at most once, and is     *)
(* decided once.  An order that fails gives its units back in the step     *)
(* that fails it, and only a paid order is processed.                      *)
(***************************************************************************)
EXTENDS Integers

CONSTANTS Orders,       \* orders that may be placed
          Products,     \* rows of the products table
          InitStock,    \* their stock in the beginning
          None,         \* no payment
          Named(_),         \* products some lines name, see OrderLines
          QuantityOf(_, _)  \* units of a product on some lines

VARIABLES input,        \* input[o]: the user, key and lines of o
          stock, status, payment

vars == <<input, stock, status, payment>>

Init ==
    /\ stock = InitStock
    /\ status = [o \in Orders |-> "none"]
    /\ payment = [o \in Orders |-> None]

Move(o, from, to) ==
    /\ status[o] = from
    /\ status' = [status EXCEPT ![o] = to]
    /\ UNCHANGED input

Rival(q, o) == /\ status[q] # "none"
               /\ input[q].user = input[o].user
               /\ input[q].key = input[o].key

Place(o) ==
    /\ Move(o, "none", "pending")
    /\ \A q \in Orders : ~ Rival(q, o)
    /\ Named(input[o].items) \subseteq Products
    /\ \A p \in Named(input[o].items) : QuantityOf(input[o].items, p) <= stock[p]
    /\ stock' = [p \in Products |-> stock[p] - QuantityOf(input[o].items, p)]
    /\ UNCHANGED payment

Pay(o) ==
    /\ status[o] = "pending"
    /\ payment[o] = None
    /\ \E id \in Orders : payment' = [payment EXCEPT ![o] = id]
    /\ UNCHANGED <<input, stock, status>>

Fail(o) ==
    /\ Move(o, "pending", "failed")
    /\ payment[o] = None
    /\ stock' = [p \in Products |-> stock[p] + QuantityOf(input[o].items, p)]
    /\ UNCHANGED payment

Process(o) ==
    /\ Move(o, "pending", "processed")
    /\ payment[o] # None
    /\ UNCHANGED <<stock, payment>>

Next == \E o \in Orders : Place(o) \/ Pay(o) \/ Fail(o) \/ Process(o)

Spec == Init /\ [][Next]_vars

====
