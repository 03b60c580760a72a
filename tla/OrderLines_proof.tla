---- MODULE OrderLines_proof ----
(* What the proofs need to know about the lines of an order. *)
EXTENDS OrderLines, FiniteSetTheorems, TLAPS

\* The units of a product are finite in number, so that its quantity is a
\* natural number.
LEMMA UnitsFinite ==
    ASSUME NEW items, NEW p, IsLines(items)
    PROVE  /\ IsFiniteSet(Units(items, p))
           /\ QuantityOf(items, p) \in Nat
<1> DEFINE F(i) == {i} \X (1 .. items[i].quantity)
<1> DEFINE L == LinesOf(items, p)
<1> DEFINE f == [i \in L |-> F(i)]
<1>1. IsFiniteSet(1 .. Len(items))
  BY FS_Interval DEF IsLines
<1>2. L \subseteq 1 .. Len(items)
  BY DEF LinesOf, IsLines
<1>3. IsFiniteSet(L)
  BY <1>1, <1>2, FS_Subset
<1>4. \A i \in L : IsFiniteSet(F(i))
  <2> TAKE i \in L
  <2>1. items[i].quantity \in Nat
    BY <1>2 DEF IsLines
  <2>2. IsFiniteSet(1 .. items[i].quantity)
    BY <2>1, FS_Interval
  <2>3. IsFiniteSet({i})
    BY FS_Singleton
  <2> QED BY <2>2, <2>3, FS_Product
<1>5. IsFiniteSet({F(i) : i \in L})
  <2> HIDE DEF F, L
  <2>1. f \in Surjection(L, {F(i) : i \in L})
    BY DEF Surjection
  <2> QED BY <1>3, <2>1, FS_Surjection
<1>6. IsFiniteSet(UNION {F(i) : i \in L})
  <2> HIDE DEF F, L
  <2>1. \A S \in {F(i) : i \in L} : IsFiniteSet(S)
    BY <1>4
  <2> QED BY <1>5, <2>1, FS_UNION
<1>7. IsFiniteSet(Units(items, p))
  BY <1>6 DEF Units
<1> QED BY <1>7, FS_CardinalityType DEF QuantityOf

\* A product that no line names has no unit.
LEMMA UnitsOfUnnamed ==
    ASSUME NEW items, NEW p, p \notin Named(items)
    PROVE  Units(items, p) = {} /\ QuantityOf(items, p) = 0
<1>1. LinesOf(items, p) = {}
  BY DEF LinesOf, Named
<1>2. Units(items, p) = {}
  BY <1>1 DEF Units
<1> QED BY <1>2, FS_EmptySet DEF QuantityOf

====
