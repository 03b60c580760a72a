---- MODULE MCOrderQueries ----
(* Instances of OrderQueries for TLC. *)
EXTENDS OrderQueries, TLC

CONSTANTS o1, o2, o3,   \* orders
          pA, pB        \* products

\* Orders with one and two items, of the same and of different products.
SmallItems == (o1 :> <<pA, pB>>) @@ (o2 :> <<pB>>) @@ (o3 :> <<pA>>)

\* The whole list, one status each, and a window of creation times.
SmallFilters ==
    {[status |-> s, from |-> 1, to |-> 3] : s \in {None, "pending", "processed"}}
        \cup {[status |-> None, from |-> 1, to |-> 2]}

====
