---- MODULE OrderLines ----
(***************************************************************************)
(* The lines of an order (CreateOrderDto.items): a sequence of records     *)
(* [productId, quantity] in which a product may be named more than once.   *)
(* The quantity of a product is the size of the set of its units, one      *)
(* element <<line, k>> per unit ordered.                                   *)
(***************************************************************************)
EXTENDS Integers, Sequences, FiniteSets

\* What the validation of CreateOrderDto lets through.
IsLines(items) ==
    /\ Len(items) \in Nat \ {0}
    /\ DOMAIN items = 1 .. Len(items)
    /\ \A i \in DOMAIN items : items[i].quantity \in Nat \ {0}

\* The product ids an order names: the keys of quantityByProductId.
Named(items) == {items[i].productId : i \in DOMAIN items}

LinesOf(items, p) == {i \in DOMAIN items : items[i].productId = p}

Units(items, p) ==
    UNION {{i} \X (1 .. items[i].quantity) : i \in LinesOf(items, p)}

\* What aggregateItemQuantities computes for p; module OrderPolicy relates
\* it to the loop.
QuantityOf(items, p) == Cardinality(Units(items, p))

====
