---- MODULE OrderPolicy_proof ----
(***************************************************************************)
(* Proofs about OrderPolicy, for orders of any length, any quantities and  *)
(* any catalogue: what the loops of buildOrderPlan have computed after     *)
(* some of the lines, or products, is the size of the set of the units, or *)
(* cents, of those.                                                        *)
(***************************************************************************)
EXTENDS OrderPolicy, OrderLines_proof

LEMMA OrderFacts ==
    ASSUME items \in Orders
    PROVE  /\ IsLines(items)
           /\ DOMAIN items = 1 .. Len(items) /\ Len(items) \in Nat
           /\ \A j \in 1 .. Len(items) : items[j].quantity \in Nat
BY OrdersAssumption DEF IsLines

LEMMA CatalogueFacts ==
    ASSUME products \in Catalogues, NEW p \in DOMAIN products
    PROVE  products[p].stock \in Nat /\ products[p].price \in Nat
BY CataloguesAssumption

LEMMA CountUpTo ==
    ASSUME NEW n \in Nat PROVE IsFiniteSet(1 .. n) /\ Cardinality(1 .. n) = n
<1>1. IsFiniteSet(1 .. n) /\ Cardinality(1 .. n) = IF 1 > n THEN 0 ELSE n - 1 + 1
  BY FS_Interval
<1> QED BY <1>1

-----------------------------------------------------------------------------
(* The first loop, after n lines.                                          *)

NamedIn(lines, n) == {lines[j].productId : j \in 1 .. n}

UnitsIn(lines, n, p) ==
    UNION {{j} \X (1 .. lines[j].quantity) : j \in {l \in 1 .. n : lines[l].productId = p}}

LEMMA WholeOrder ==
    ASSUME NEW lines, IsLines(lines)
    PROVE  /\ NamedIn(lines, Len(lines)) = Named(lines)
           /\ \A p : UnitsIn(lines, Len(lines), p) = Units(lines, p)
BY DEF IsLines, NamedIn, Named, UnitsIn, Units, LinesOf

\* One more line adds its quantity to the units of the product it names.
LEMMA OneMoreLine ==
    ASSUME NEW lines, IsLines(lines), NEW n \in Nat, n < Len(lines), NEW p
    PROVE  LET line == lines[n + 1] IN
           /\ NamedIn(lines, n + 1) = NamedIn(lines, n) \cup {line.productId}
           /\ Cardinality(UnitsIn(lines, n, p)) \in Nat
           /\ Cardinality(UnitsIn(lines, n + 1, p)) =
                  Cardinality(UnitsIn(lines, n, p))
                      + IF line.productId = p THEN line.quantity ELSE 0
           /\ p \notin NamedIn(lines, n) => Cardinality(UnitsIn(lines, n, p)) = 0
<1> DEFINE line == lines[n + 1]
<1> DEFINE U == UnitsIn(lines, n, p)
<1> DEFINE New == {n + 1} \X (1 .. line.quantity)
<1>1. Len(lines) \in Nat /\ n + 1 \in DOMAIN lines /\ line.quantity \in Nat
  BY DEF IsLines
<1>2. 1 .. (n + 1) = (1 .. n) \cup {n + 1}
  OBVIOUS
<1>3. NamedIn(lines, n + 1) = NamedIn(lines, n) \cup {line.productId}
  BY <1>2 DEF NamedIn
<1>4. U \in SUBSET Units(lines, p)
  <2>1. 1 .. n \subseteq DOMAIN lines
    BY <1>1 DEF IsLines
  <2> QED BY <2>1 DEF UnitsIn, Units, LinesOf
<1>5. IsFiniteSet(U) /\ Cardinality(U) \in Nat
  <2> HIDE DEF U
  <2> QED BY <1>4, UnitsFinite, FS_Subset, FS_CardinalityType
<1>6. p \notin NamedIn(lines, n) => U = {}
  BY DEF NamedIn, UnitsIn
<1>7. CASE line.productId = p
  <2>1. UnitsIn(lines, n + 1, p) = U \cup New
    BY <1>2, <1>7 DEF UnitsIn
  <2>2. U \cap New = {}
    BY DEF UnitsIn
  <2>3. IsFiniteSet(New) /\ Cardinality(New) = line.quantity
    <3>1. IsFiniteSet(1 .. line.quantity) /\ Cardinality(1 .. line.quantity) = line.quantity
      BY <1>1, CountUpTo
    <3>2. IsFiniteSet({n + 1}) /\ Cardinality({n + 1}) = 1
      BY FS_Singleton
    <3>3. IsFiniteSet(New) /\ Cardinality(New) = 1 * Cardinality(1 .. line.quantity)
      BY <3>1, <3>2, FS_Product
    <3> QED BY <1>1, <3>1, <3>3
  <2>4. Cardinality(U \cup New) = Cardinality(U) + line.quantity
    <3> HIDE DEF U, New
    <3>1. Cardinality(U \cup New) = Cardinality(U) + Cardinality(New) - Cardinality(U \cap New)
      BY <1>5, <2>3, FS_Union
    <3>2. Cardinality(U \cap New) = 0
      BY <2>2, FS_EmptySet
    <3> QED BY <1>1, <1>5, <2>3, <3>1, <3>2
  <2> QED BY <1>3, <1>5, <1>6, <1>7, <2>1, <2>4, FS_EmptySet
<1>8. CASE line.productId # p
  <2>1. UnitsIn(lines, n + 1, p) = U
    BY <1>2, <1>8 DEF UnitsIn
  <2> QED BY <1>3, <1>5, <1>6, <1>8, <2>1, FS_EmptySet
<1> QED BY <1>7, <1>8

-----------------------------------------------------------------------------
(* The second loop, after the products of S.                               *)

LEMMA NamedFinite ==
    ASSUME NEW lines, IsLines(lines) PROVE IsFiniteSet(Named(lines))
<1> DEFINE f == [j \in 1 .. Len(lines) |-> lines[j].productId]
<1>1. IsFiniteSet(1 .. Len(lines))
  BY FS_Interval DEF IsLines
<1>2. f \in Surjection(1 .. Len(lines), Named(lines))
  BY DEF Surjection, Named, IsLines
<1> QED BY <1>1, <1>2, FS_Surjection

\* One more product adds the cents of all its units.
LEMMA OneMoreProduct ==
    ASSUME items \in Orders, products \in Catalogues,
           NEW S, S \subseteq Named(items) \cap DOMAIN products,
           NEW p \in Named(items) \cap DOMAIN products, p \notin S
    PROVE  /\ Cardinality(Cents(S)) \in Nat
           /\ Cardinality(Cents(S \cup {p})) =
                  Cardinality(Cents(S)) + products[p].price * QuantityOf(items, p)
<1> DEFINE C(q) == Units(items, q) \X (1 .. products[q].price)
<1> DEFINE c == [q \in S |-> C(q)]
<1>1. \A q \in Named(items) \cap DOMAIN products :
          /\ IsFiniteSet(C(q))
          /\ Cardinality(C(q)) = products[q].price * QuantityOf(items, q)
  <2> TAKE q \in Named(items) \cap DOMAIN products
  <2>1. products[q].price \in Nat
    BY CatalogueFacts
  <2>2. IsFiniteSet(Units(items, q)) /\ QuantityOf(items, q) \in Nat
    BY OrderFacts, UnitsFinite
  <2>3. /\ IsFiniteSet(1 .. products[q].price)
        /\ Cardinality(1 .. products[q].price) = products[q].price
    BY <2>1, CountUpTo
  <2>4. /\ IsFiniteSet(C(q))
        /\ Cardinality(C(q)) = QuantityOf(items, q) * Cardinality(1 .. products[q].price)
    BY <2>2, <2>3, FS_Product DEF QuantityOf
  <2>5. QuantityOf(items, q) * products[q].price = products[q].price * QuantityOf(items, q)
    BY <2>1, <2>2
  <2> QED BY <2>3, <2>4, <2>5
<1>2. IsFiniteSet(S)
  BY OrderFacts, NamedFinite, FS_Subset
<1>3. IsFiniteSet({C(q) : q \in S})
  <2> HIDE DEF C
  <2>1. c \in Surjection(S, {C(q) : q \in S})
    BY DEF Surjection
  <2> QED BY <1>2, <2>1, FS_Surjection
<1>4. IsFiniteSet(Cents(S)) /\ Cardinality(Cents(S)) \in Nat
  <2>1. Cents(S) = UNION {C(q) : q \in S}
    BY DEF Cents
  <2> HIDE DEF C
  <2>2. \A T \in {C(q) : q \in S} : IsFiniteSet(T)
    BY <1>1
  <2> QED BY <1>3, <2>1, <2>2, FS_UNION, FS_CardinalityType
<1>5. Cents(S \cup {p}) = Cents(S) \cup C(p)
  BY DEF Cents
<1>6. Cents(S) \cap C(p) = {}
  BY DEF Cents, Units, LinesOf
<1>7. Cardinality(Cents(S) \cup C(p)) =
          Cardinality(Cents(S)) + Cardinality(C(p)) - Cardinality(Cents(S) \cap C(p))
  <2> HIDE DEF C
  <2> QED BY <1>1, <1>4, FS_Union
<1>8. Cardinality(Cents(S) \cap C(p)) = 0
  BY <1>6, FS_EmptySet
<1>9. products[p].price * QuantityOf(items, p) \in Nat
  BY OrderFacts, UnitsFinite, CatalogueFacts
<1>10. Cardinality(C(p)) = products[p].price * QuantityOf(items, p)
  BY <1>1
<1> HIDE DEF C, c
<1>11. Cardinality(C(p)) \in Nat
  BY ONLY <1>9, <1>10
<1>12. Cardinality(Cents(S) \cup C(p)) = Cardinality(Cents(S)) + Cardinality(C(p))
  BY ONLY <1>4, <1>7, <1>8, <1>11
<1> QED BY ONLY <1>4, <1>5, <1>10, <1>12

-----------------------------------------------------------------------------
(* The loop invariants.                                                    *)

\* The map holds the units of the lines seen so far.
MapInv ==
    /\ DOMAIN quantityByProductId = NamedIn(items, i)
    /\ \A p \in DOMAIN quantityByProductId :
           quantityByProductId[p] = Cardinality(UnitsIn(items, i, p))

\* While lines are left no product has been visited; those visited later
\* exist, are in stock, and their cents are in the amount.
Visited == DOMAIN quantityByProductId \ left

AmountInv ==
    /\ i < Len(items) => left = DOMAIN quantityByProductId /\ outcome = "running"
    /\ \A p \in Visited : p \in DOMAIN products /\ ~ TooFew(p)
    /\ amountCents = Cardinality(Cents(Visited))

OutcomeInv ==
    /\ outcome = "notFound" => Missing # {}
    /\ outcome = "conflict" => Missing = {} /\ \E p \in left : TooFew(p)
    /\ outcome = "plan"     => Missing = {} /\ left = {}

IInv == TypeOK /\ MapInv /\ AmountInv /\ OutcomeInv

LEMMA NoCents == Cardinality(Cents({})) = 0
BY FS_EmptySet DEF Cents

LEMMA IInvInit == ASSUME Init PROVE IInv
<1>1. Len(items) \in Nat /\ Len(items) # 0
  BY OrdersAssumption DEF Init, IsLines
<1>2. TypeOK
  BY <1>1 DEF Init, TypeOK, Outcomes
<1>3. MapInv
  BY DEF Init, MapInv, NamedIn
<1>4. AmountInv
  BY NoCents DEF Init, AmountInv, Visited
<1>5. OutcomeInv
  BY DEF Init, OutcomeInv
<1> QED BY <1>2, <1>3, <1>4, <1>5 DEF IInv

LEMMA AggregateStep == ASSUME IInv, AggregateLine PROVE IInv'
<1> DEFINE p == items[i + 1].productId
<1> DEFINE n == items[i + 1].quantity
<1>1. /\ i \in Nat /\ i + 1 \in 1 .. Len(items) /\ i < Len(items) /\ n \in Nat
      /\ IsLines(items) /\ items \in Orders
  BY OrderFacts DEF IInv, TypeOK, AggregateLine
<1>2. /\ i' = i + 1 /\ quantityByProductId' = WithLine(p, n) /\ left' = left \cup {p}
      /\ UNCHANGED <<items, products, amountCents, outcome>>
  BY DEF AggregateLine
<1>3. left = DOMAIN quantityByProductId /\ outcome = "running"
  BY <1>1 DEF IInv, AmountInv
<1>4. /\ DOMAIN quantityByProductId' = DOMAIN quantityByProductId \cup {p}
      /\ \A x \in DOMAIN quantityByProductId' :
             quantityByProductId'[x] =
                 IF x = p THEN Aggregated(p) + n ELSE quantityByProductId[x]
  BY <1>2 DEF WithLine
<1>5. NamedIn(items, i + 1) = NamedIn(items, i) \cup {p}
  BY <1>1, OneMoreLine
<1>6. Aggregated(p) = Cardinality(UnitsIn(items, i, p)) /\ Aggregated(p) \in Nat
  BY <1>1, OneMoreLine DEF Aggregated, IInv, MapInv
<1>7. \A x \in DOMAIN quantityByProductId' :
          quantityByProductId'[x] = Cardinality(UnitsIn(items, i + 1, x))
  <2> TAKE x \in DOMAIN quantityByProductId'
  <2>1. CASE x = p
    BY <1>1, <1>4, <1>6, <2>1, OneMoreLine
  <2>2. CASE x # p
    <3>1. x \in DOMAIN quantityByProductId
      BY <1>4, <2>2
    <3>2. quantityByProductId'[x] = Cardinality(UnitsIn(items, i, x))
      BY <1>4, <2>2, <3>1 DEF IInv, MapInv
    <3>3. Cardinality(UnitsIn(items, i + 1, x)) = Cardinality(UnitsIn(items, i, x))
      BY <1>1, <2>2, OneMoreLine
    <3> QED BY <3>2, <3>3
  <2> QED BY <2>1, <2>2
<1>8. MapInv'
  BY <1>2, <1>4, <1>5, <1>7 DEF IInv, MapInv
<1>9. TypeOK'
  <2>1. quantityByProductId' \in [DOMAIN quantityByProductId' -> Nat]
    BY <1>1, <1>2, <1>4, <1>6 DEF WithLine, IInv, TypeOK
  <2>2. left' \subseteq DOMAIN quantityByProductId' /\ i' \in 0 .. Len(items)
    BY <1>1, <1>2, <1>3, <1>4
  <2> QED BY <1>2, <2>1, <2>2 DEF IInv, TypeOK
<1>10. Visited = {} /\ Visited' = {} /\ amountCents = 0
  BY <1>2, <1>3, <1>4, NoCents DEF Visited, IInv, AmountInv
<1>11. AmountInv'
  <2>1. left' = DOMAIN quantityByProductId'
    BY <1>2, <1>3, <1>4
  <2>2. Cents(Visited)' = {}
    BY <1>10 DEF Cents
  <2> QED BY <1>2, <1>3, <1>10, <2>1, <2>2, FS_EmptySet DEF AmountInv
<1>12. OutcomeInv'
  BY <1>2, <1>3 DEF OutcomeInv
<1> QED BY <1>8, <1>9, <1>11, <1>12 DEF IInv

LEMMA WholeMap ==
    ASSUME IInv, i = Len(items)
    PROVE  /\ DOMAIN quantityByProductId = Named(items)
           /\ \A p \in Named(items) : quantityByProductId[p] = QuantityOf(items, p)
BY OrderFacts, WholeOrder DEF IInv, TypeOK, MapInv, QuantityOf

LEMMA VisitStep == ASSUME IInv, NEW p \in left, VisitProduct(p) PROVE IInv'
<1>1. /\ i = Len(items) /\ outcome = "running" /\ Missing = {}
      /\ UNCHANGED <<items, products, i, quantityByProductId>>
      /\ items \in Orders /\ products \in Catalogues
  BY DEF VisitProduct, IInv, TypeOK
<1>2. p \in DOMAIN quantityByProductId /\ p \in DOMAIN products /\ p \in Named(items)
  BY <1>1, WholeMap DEF IInv, TypeOK, Missing
<1>3. MapInv'
  BY <1>1 DEF IInv, MapInv
<1>4. CASE TooFew(p)
  <2>1. outcome' = "conflict" /\ UNCHANGED <<left, amountCents>>
    BY <1>4 DEF VisitProduct
  <2>2. TypeOK' /\ AmountInv' /\ OutcomeInv'
    BY <1>1, <1>4, <2>1
    DEF IInv, TypeOK, Outcomes, AmountInv, OutcomeInv, Visited, Missing, TooFew, Cents
  <2> QED BY <1>3, <2>2 DEF IInv
<1>5. CASE ~ TooFew(p)
  <2>1. /\ left' = left \ {p} /\ outcome' = outcome
        /\ amountCents' = amountCents + products[p].price * quantityByProductId[p]
    BY <1>5 DEF VisitProduct
  <2>2. Visited' = Visited \cup {p} /\ p \notin Visited
    BY <1>1, <1>2, <2>1 DEF Visited
  <2>3. Visited \subseteq Named(items) \cap DOMAIN products
    BY <1>1, WholeMap DEF Visited, IInv, AmountInv
  <2>4. quantityByProductId[p] = QuantityOf(items, p)
    BY <1>1, <1>2, WholeMap
  <2>5. amountCents' = Cardinality(Cents(Visited \cup {p}))
    BY <1>1, <1>2, <2>1, <2>2, <2>3, <2>4, OneMoreProduct DEF IInv, AmountInv
  <2>6. Cents(Visited)' = Cents(Visited \cup {p})
    BY <1>1, <2>2 DEF Cents
  <2>7. AmountInv'
    BY <1>1, <1>2, <1>5, <2>1, <2>2, <2>5, <2>6, OrderFacts DEF IInv, AmountInv, TooFew
  <2>8. amountCents' \in Nat
    BY <1>1, <1>2, <2>1, CatalogueFacts DEF IInv, TypeOK
  <2>9. TypeOK'
    BY <1>1, <2>1, <2>8 DEF IInv, TypeOK
  <2>10. OutcomeInv'
    BY <1>1, <2>1 DEF OutcomeInv
  <2> QED BY <1>3, <2>7, <2>9, <2>10 DEF IInv
<1> QED BY <1>4, <1>5

\* The loops are over, or never entered.
LEMMA EndStep ==
    ASSUME IInv, ThrowNotFound \/ ReturnPlan \/ UNCHANGED vars PROVE IInv'
<1>1. UNCHANGED <<items, products, i, quantityByProductId, left, amountCents>>
  BY DEF ThrowNotFound, ReturnPlan, vars
<1>2. MapInv' /\ TypeOK'
  BY <1>1 DEF ThrowNotFound, ReturnPlan, vars, IInv, MapInv, TypeOK, Outcomes
<1>3. OutcomeInv'
  BY <1>1 DEF ThrowNotFound, ReturnPlan, vars, IInv, OutcomeInv, Missing, TooFew
<1>4. AmountInv'
  <2>1. i < Len(items) => outcome' = "running"
    BY OrderFacts DEF ThrowNotFound, ReturnPlan, vars, IInv, AmountInv, TypeOK
  <2> QED BY <1>1, <2>1 DEF IInv, AmountInv, Visited, TooFew, Cents
<1> QED BY <1>2, <1>3, <1>4 DEF IInv

LEMMA Inductive == IInv /\ [Next]_vars => IInv'
BY AggregateStep, VisitStep, EndStep DEF Next, Returned

LEMMA Invariance == Spec => []IInv
<1>1. Init => IInv
  BY IInvInit
<1> QED BY <1>1, Inductive, PTL DEF Spec

-----------------------------------------------------------------------------
(* The theorems.                                                           *)

LEMMA AllLinesSeen == IInv /\ outcome # "running" => i = Len(items)
BY OrderFacts DEF IInv, TypeOK, AmountInv

\* Every variable keeps its type.
THEOREM PolicyTypeCorrect == Spec => []TypeOK
BY Invariance, PTL DEF IInv

\* A plan has the units of all lines of every product and asks for the price
\* of every unit, however many lines name it and in whatever order the
\* second loop visits the products.
THEOREM PlansAreExact == Spec => []PlanIsExact
<1>1. IInv => PlanIsExact
  <2> SUFFICES ASSUME IInv, outcome = "plan"
               PROVE  /\ DOMAIN quantityByProductId = Named(items)
                      /\ \A p \in Named(items) : quantityByProductId[p] = QuantityOf(items, p)
                      /\ amountCents = Cardinality(Cents(Named(items)))
    BY DEF PlanIsExact
  <2>1. i = Len(items) /\ left = {}
    BY AllLinesSeen DEF IInv, OutcomeInv
  <2>2. Visited = Named(items)
    BY <2>1, WholeMap DEF Visited
  <2> QED BY <2>1, <2>2, WholeMap DEF IInv, AmountInv
<1> QED BY <1>1, Invariance, PTL

\* An order is turned away exactly as the business rule says.
THEOREM OutcomesAreJustified == Spec => []OutcomeIsJustified
<1>1. IInv => OutcomeIsJustified
  <2> SUFFICES ASSUME IInv, outcome # "running" PROVE OutcomeIsJustified
    BY DEF OutcomeIsJustified
  <2>1. /\ DOMAIN quantityByProductId = Named(items)
        /\ \A p \in Named(items) : quantityByProductId[p] = QuantityOf(items, p)
    BY AllLinesSeen, WholeMap
  <2>2. left \subseteq Named(items) /\ items \in Orders /\ products \in Catalogues
    BY <2>1 DEF IInv, TypeOK
  <2>3. \A p \in Named(items) \cap DOMAIN products :
            TooFew(p) <=> products[p].stock < QuantityOf(items, p)
    BY <2>1 DEF TooFew
  <2>4. outcome = "conflict" => \E p \in Named(items) : TooFew(p)
    BY <2>2 DEF IInv, OutcomeInv
  <2>5. outcome = "plan" => \A p \in Named(items) : p \in DOMAIN products /\ ~ TooFew(p)
    BY <2>1 DEF IInv, OutcomeInv, AmountInv, Visited
  <2> QED BY <2>1, <2>3, <2>4, <2>5 DEF IInv, OutcomeInv, Missing, OutcomeIsJustified
<1> QED BY <1>1, Invariance, PTL

====
