---- MODULE OrderPolicy ----
(***************************************************************************)
(* buildOrderPlan, step by step: the loop of aggregateItemQuantities, the  *)
(* search for missing products, and the loop that checks the stock and     *)
(* adds up the amount.  A price is its number of cents: the column is      *)
(* numeric(10,2), so Math.round(Number(price) * 100) is exact.             *)
(***************************************************************************)
EXTENDS OrderLines

CONSTANTS Orders,       \* lists of lines
          Catalogues    \* functions from products to [stock, price]

ASSUME OrdersAssumption == \A items \in Orders : IsLines(items)
ASSUME CataloguesAssumption ==
    \A products \in Catalogues : \A p \in DOMAIN products :
        products[p].stock \in Nat /\ products[p].price \in Nat

VARIABLES items,                \* dto.items
          products,             \* the rows the query found
          i,                    \* lines aggregated so far
          quantityByProductId,  \* the map under construction
          left,                 \* its keys the second loop has still to visit
          amountCents,
          outcome               \* "running", "plan", "notFound", "conflict"

vars == <<items, products, i, quantityByProductId, left, amountCents, outcome>>

Init ==
    /\ items \in Orders
    /\ products \in Catalogues
    /\ i = 0
    /\ quantityByProductId = [p \in {} |-> 0]
    /\ left = {}
    /\ amountCents = 0
    /\ outcome = "running"

\* quantityByProductId.get(p) ?? 0
Aggregated(p) ==
    IF p \in DOMAIN quantityByProductId THEN quantityByProductId[p] ELSE 0

\* Mutant: a later line of a product replaces the earlier ones.
WithLineReplaced(p, n) ==
    [x \in DOMAIN quantityByProductId \cup {p} |->
        IF x = p THEN n ELSE quantityByProductId[x]]

WithLine(p, n) ==
    [x \in DOMAIN quantityByProductId \cup {p} |->
        IF x = p THEN Aggregated(p) + n ELSE quantityByProductId[x]]

AggregateLine ==
    /\ i < Len(items)
    /\ i' = i + 1
    /\ quantityByProductId' = WithLine(items[i'].productId, items[i'].quantity)
    /\ left' = left \cup {items[i'].productId}
    /\ UNCHANGED <<items, products, amountCents, outcome>>

Missing == DOMAIN quantityByProductId \ DOMAIN products

ThrowNotFound ==
    /\ outcome = "running"
    /\ i = Len(items)
    /\ Missing # {}
    /\ outcome' = "notFound"
    /\ UNCHANGED <<items, products, i, quantityByProductId, left, amountCents>>

\* Mutant: the last unit is never sold.
TooFewOrJustEnough(p) == products[p].stock <= quantityByProductId[p]

TooFew(p) == products[p].stock < quantityByProductId[p]

VisitProduct(p) ==
    /\ outcome = "running"
    /\ i = Len(items)
    /\ Missing = {}
    /\ p \in left
    /\ IF TooFew(p)
       THEN /\ outcome' = "conflict"
            /\ UNCHANGED <<left, amountCents>>
       ELSE /\ left' = left \ {p}
            /\ amountCents' = amountCents + products[p].price * quantityByProductId[p]
            /\ UNCHANGED outcome
    /\ UNCHANGED <<items, products, i, quantityByProductId>>

ReturnPlan ==
    /\ outcome = "running"
    /\ i = Len(items)
    /\ Missing = {}
    /\ left = {}
    /\ outcome' = "plan"
    /\ UNCHANGED <<items, products, i, quantityByProductId, left, amountCents>>

Returned == outcome # "running" /\ UNCHANGED vars

Next ==
    \/ AggregateLine
    \/ ThrowNotFound
    \/ \E p \in left : VisitProduct(p)
    \/ ReturnPlan
    \/ Returned

Spec == Init /\ [][Next]_vars

-----------------------------------------------------------------------------
(* Properties.                                                             *)

Outcomes == {"running", "plan", "notFound", "conflict"}

\* Every variable has its type.
TypeOK ==
    /\ items \in Orders
    /\ products \in Catalogues
    /\ i \in 0 .. Len(items)
    /\ quantityByProductId \in [DOMAIN quantityByProductId -> Nat]
    /\ left \subseteq DOMAIN quantityByProductId
    /\ amountCents \in Nat
    /\ outcome \in Outcomes

\* The cents of an order: one element per cent of every unit ordered.
Cents(S) == UNION {Units(items, p) \X (1 .. products[p].price) : p \in S}

\* A plan has, for every product named, the units of all its lines, and asks
\* for the price of every unit: what createOrder takes from the stock and
\* sends to the payments service.
PlanIsExact ==
    outcome = "plan" =>
        /\ DOMAIN quantityByProductId = Named(items)
        /\ \A p \in Named(items) : quantityByProductId[p] = QuantityOf(items, p)
        /\ amountCents = Cardinality(Cents(Named(items)))

\* An order is turned away as the business rule says and never otherwise:
\* a named product does not exist, or all exist and one has fewer units than
\* the lines ask for together.
OutcomeIsJustified ==
    LET unknown == Named(items) \ DOMAIN products
        short   == {p \in Named(items) \cap DOMAIN products :
                        products[p].stock < QuantityOf(items, p)}
    IN  /\ outcome = "notFound" => unknown # {}
        /\ outcome = "conflict" => unknown = {} /\ short # {}
        /\ outcome = "plan"     => unknown = {} /\ short = {}

====
