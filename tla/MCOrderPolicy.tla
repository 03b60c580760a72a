---- MODULE MCOrderPolicy ----
(* All orders of up to MaxLines lines over three product ids. *)
EXTENDS OrderPolicy

CONSTANTS MaxLines, MaxQuantity, MaxStock, pA, pB, pX

Lines == [productId : {pA, pB, pX}, quantity : 1 .. MaxQuantity]

SmallOrders == UNION {[1 .. n -> Lines] : n \in 1 .. MaxLines}

\* pX has no row; a free product and one of three cents.
SmallCatalogues ==
    {[p \in {pA, pB} |-> [stock |-> stock[p], price |-> IF p = pA THEN 3 ELSE 0]] :
        stock \in [{pA, pB} -> 0 .. MaxStock]}

====
